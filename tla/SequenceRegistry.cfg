SPECIFICATION Spec
CONSTANTS
    N = 6
    AutoStart = 2
    MaxBatch = 3
    MaxRanges = 2
CHECK_DEADLOCK FALSE
INVARIANTS
    IdsGuarded
    TableExact
PROPERTIES
    NeverReissued
    ReserveNextIsLoop
