SPECIFICATION PortsFairSpec
CONSTANTS
    Nodes <- MCNodes
    Start <- MCStart
    FixedPaths = {"lidar", "tty0"}
    MaxChanges = 2
    MaxCalls = 3
CHECK_DEADLOCK FALSE
PROPERTIES
    SearchesFind
    LidarReturns
