SPECIFICATION MCSpec
CONSTANTS
    Halls = {hall, twin}
    hall = hall
    twin = twin
    None = None
    MaxSearches = 2
    MaxSeeds = 1
    MaxGoals = 1
    MaxScans = 2
    MaxPasses = 1
    DuringNavigation = TRUE
    Spots = {1, 2}
    MinS = 1
    PersistN = 2
    Cooldown = 2
    MaxClock = 4
    MaxCommands = 1
SYMMETRY Alike
CHECK_DEADLOCK FALSE
INVARIANTS
    StartupYields
    ClearIsEarned
PROPERTIES
    DrivingPoseStays
