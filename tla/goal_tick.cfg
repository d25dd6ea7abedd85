SPECIFICATION Spec
CONSTANTS
    Budget = 1
    FailLimit = 2
    StallLimit = 2
    StaticLimit = 1
CHECK_DEADLOCK FALSE
INVARIANTS
    AbortIsEarned
