SPECIFICATION AdvSpec
CONSTANTS
    MaxPress = 3
    MaxConn = 2
INVARIANTS
    EndPending
    OpenMeansVisible
PROPERTY WindowCloses
CHECK_DEADLOCK FALSE
