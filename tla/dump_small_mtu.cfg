SPECIFICATION FairDumpSpec
CONSTANTS
    STORE_CAPACITY = 2
    Formats = {f1}
    Readings = {v1}
    None = None
    Faults = {}
    MaxSeq = 2
    MaxTime = 0
    COUNT_MAX = 65535
    MTUs = {26}
    MaxSession = 1
    MaxRequest = 1
PROPERTY DumpEnds
CHECK_DEADLOCK FALSE
