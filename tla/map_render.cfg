SPECIFICATION MCSpec
CONSTANTS
  Places = {here, there}
  here = here
  there = there
  MaxNodes = 3
  Sessions <- Resumed
  AgreeNeeded = {2}
  MaxScans = 3
  MaxEdits = 1
  MaxMoves = 1
  Cameras = {front, rear}
  front = front
  rear = rear
  Nobody = Nobody
  MaxConfigs = 3
INVARIANTS
    ErasedStaysErased
    DrawnWhereTheGraphSays
PROPERTIES
    RingIsOwn
CHECK_DEADLOCK FALSE
SYMMETRY Alike
