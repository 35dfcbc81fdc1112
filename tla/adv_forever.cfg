SPECIFICATION AdvSpec
CONSTANTS
    MaxPress = 3
    MaxConn = 2
INVARIANT VisibilityBounded
CHECK_DEADLOCK FALSE
