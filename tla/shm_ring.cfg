SPECIFICATION MCSpec
CONSTANTS
    body = body
    stamp = stamp
    Words <- MCWords
    Retries = 3
    MaxWrites = 6
    Sources = {"required", "rpc"}
    ScanAge = 1
    FrameAge = 1
    Stuck = 2
CHECK_DEADLOCK FALSE
INVARIANTS
    NeverTorn
PROPERTIES
    RegisterSpec
    MatchedOnce
    FeedResumes
