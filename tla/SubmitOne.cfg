SPECIFICATION FairMetrics
CONSTANTS
    a = a
    Ids = {a}
    Window = 1
    RetryCount = 2
    QueueCap = 1
    BatchMax = 1
    RetryBatch = 1
    DropBatch = 2
    MaxResp = 1
CHECK_DEADLOCK FALSE
INVARIANTS
    AttemptsExact
    CountersTrue
PROPERTIES
    NoResendAfterAnswer
    ImplementsOutcome
    CloseCompletes
