SPECIFICATION FairSpec
CONSTANTS
    a = a
    b = b
    c = c
    Calls = {a, b, c}
    Manual = {a, b}
    Segments <- Lengths
    Window = 2
    BatchLimit = 1
    QueueCap = 1
    References = 1
CHECK_DEADLOCK FALSE
INVARIANTS
    CallerTold
    ResourcesExact
PROPERTIES
    ReferenceGuarded
    CallsReturn
