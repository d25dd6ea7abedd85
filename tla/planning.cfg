SPECIFICATION MCSpec
CONSTANTS
    Rows = 4
    Cols = 5
    SnapRadius = 3
    MaxGoalSnap2 = 1
    Jobs <- MCJobs
    Length <- MCLength
    FlipBudget = 1
    LongAfter = 2
    MaxChanges = 3
    MaxGoals = 2
    MaxFails = 2
INVARIANTS
    ClosedParents
    PathClear
    NoPathMeansCut
    FlipsWithinBudget
PROPERTY
    StaticFailsOnce
CHECK_DEADLOCK FALSE
