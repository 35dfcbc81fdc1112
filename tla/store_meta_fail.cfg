SPECIFICATION StoreSpec
CONSTANTS
    STORE_CAPACITY = 2
    Formats = {f1, f2}
    Readings = {v1, v2}
    None = None
    Faults = {"meta_write"}
    MaxSeq = 2
    MaxTime = 0
INVARIANT NoSeqReuse
CHECK_DEADLOCK FALSE
