SPECIFICATION MCSpec
CONSTANTS
    worker = worker
    stop = stop
    forward = forward
    turn = turn
    s1 = s1
    s2 = s2
    none = none
    Callers <- MCWorker
    Twists <- MCTwists
    Stop <- MCStop
    Slots <- MCSlots2
    NoSlot = none
    NoCmd = none
    MaxWants = 4
    MaxFailures = 2
    Sensors <- MCSensors
    Links = {"rpc", "required"}
    MaxAge = 1
    FrameAge = 0
    StuckAfter = 1
    Period = 1
INVARIANTS
    ParkedIsNewest
    FreshScans
PROPERTIES
    OrderSpec
    HeldTwistArrives
    DepthResumes
