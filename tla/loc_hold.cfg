SPECIFICATION FairSpec
CONSTANTS
    LostAfter = 2
    LostTicks = 2
    DuringNavigation = TRUE
CHECK_DEADLOCK FALSE
INVARIANTS
    AppliesHalted
PROPERTY
    HoldEnds
