SPECIFICATION Safety
CONSTANTS
    a = a
    b = b
    Ids = {a}
    Window = 1
    RetryCount = 1
    QueueCap = 1
    BatchMax = 1
    RetryBatch = 1
    DropBatch = 2
    MaxResp = 1
CHECK_DEADLOCK FALSE
INVARIANTS
    LossOnlyAsDocumented
