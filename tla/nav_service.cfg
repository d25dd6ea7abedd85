SPECIFICATION Spec
CONSTANTS
    a = a
    b = b
    NoTarget = NoTarget
    Targets <- MCTargets
    Route <- MCRoute
    Asked <- MCAsked
    Starts <- MCStarts
    Waits = {FALSE}
    Waiters = {1}
    MaxRequests = 3
    MaxGoals = 2
    Concurrent = 1
INVARIANTS
    HandlesOwned
    StoppedMeansStill
    OneMover
CHECK_DEADLOCK FALSE
