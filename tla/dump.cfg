SPECIFICATION FairDumpSpec
CONSTANTS
    STORE_CAPACITY = 2
    Formats = {f1}
    Readings = {v1}
    None = None
    Faults = {}
    MaxSeq = 3
    MaxTime = 0
    COUNT_MAX = 2
    MTUs = {44}
    MaxSession = 1
    MaxRequest = 2
INVARIANTS
    DumpTypeOK
    StreamFramed
    RecordsHonest
    FrameComplete
    NotifyFits
PROPERTIES
    DumpEnds
    RequestAnswered
CHECK_DEADLOCK FALSE
