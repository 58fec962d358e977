SPECIFICATION Spec
CONSTANTS
    c1 = c1
    c2 = c2
    Callers = {c1, c2}
    Buckets = {1, 2}
    Size = 2
    Cooldowns = {1}
    MaxTime = 1
CHECK_DEADLOCK FALSE
INVARIANTS
    PoolExact
PROPERTIES
    CooldownRespected
    CallersProceed
