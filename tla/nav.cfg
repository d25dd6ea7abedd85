SPECIFICATION FairSpec
CONSTANTS
    c1 = c1
    c2 = c2
    Clients <- MCClients
    MaxGoals = 2
    MaxCancels = 2
    MaxStopFailures = 1
CHECK_DEADLOCK FALSE
INVARIANTS
    LeavesStopped
    CancelWithinOneTick
    LiveGoalReported
PROPERTIES
    LifecycleSpec
    CancelEndsGoal
