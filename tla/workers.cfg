SPECIFICATION MCSpec
CONSTANTS
    Gap = 3
    KickAfter = 5
    Baud = 1000000
    Configured = FALSE
    TryTicks = 2
    Warmup = 1
    MaxBackoff = 4
    JoinTicks = 3
    HubUnplugs = FALSE
    MaxCalls = 3
    c1 = c1
    c2 = c2
    Callers <- MCCallers
    Maps <- MCMaps
    CacheMax = 1
CHECK_DEADLOCK FALSE
INVARIANT
    RightMap
PROPERTIES
    Resumes
    CallsReturn
