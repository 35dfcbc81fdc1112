SPECIFICATION StoreSpec
CONSTANTS
    STORE_CAPACITY = 2
    Formats = {f1, f2}
    Readings = {v1, v2}
    None = None
    Faults = {"mig_cut"}
    MaxSeq = 2
    MaxTime = 0
PROPERTY SeqSurvives
CHECK_DEADLOCK FALSE
