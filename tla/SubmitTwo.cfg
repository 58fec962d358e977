SPECIFICATION Safety
CONSTANTS
    a = a
    b = b
    Ids = {a, b}
    Window = 2
    RetryCount = 1
    QueueCap = 2
    BatchMax = 2
    RetryBatch = 1
    DropBatch = 1
    MaxResp = 1
SYMMETRY Symmetry
CHECK_DEADLOCK FALSE
INVARIANTS
    TerminalAccounted
    WindowConserved
    DrainedForGood
    MarkerMeansWritten
