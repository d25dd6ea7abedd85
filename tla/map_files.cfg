SPECIFICATION MCSpec
CONSTANTS
    A = A
    B = B
    NoMap = NoMap
    First = A
    Maps <- TwoMaps
    MinNodes = 1
    MaxStrokes = 2
    MaxCalls = 3
    MaxHasty = 3
    MaxCrashes = 1
    Places <- MCPlaces
    Scans <- MCScans
    NoScan = "none"
    Fit <- MCFit
    ViewRates <- MCViewRates
    NoRays = 9999
    Near = 1
    Wide = 2
    Close = 1
    MinScore = 60
    FullMapMinScore = 75
    KeyframeMinScore = 55
    MaxRayError = 80
    MinShift = 1
    LargeShift = 2
    MaxShift = 2
    SoftShift = 3
    WholeMap = TRUE
    WhileMoving = TRUE
    Rebuild = TRUE
    MaxChecks = 2
    MaxEvents = 1
INVARIANTS
    GraphRedrawsGrid
    AppliedIsGood
PROPERTIES
    RepairStaysInItsSession
    CommandsReturn
CHECK_DEADLOCK FALSE
