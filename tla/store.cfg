SPECIFICATION StoreSpec
CONSTANTS
    STORE_CAPACITY = 2
    Formats = {f1, f2}
    Readings = {v1, v2}
    None = None
    Faults = {"mount", "rec_write", "format_read", "rec_read"}
    MaxSeq = 3
    MaxTime = 1
SYMMETRY ContentsAreAlike
INVARIANTS
    StoreTypeOK
    RingHeld
    NoSeqReuse
    TsFollowsSeq
PROPERTIES
    SeqSurvives
    RefinesLog
CHECK_DEADLOCK FALSE
