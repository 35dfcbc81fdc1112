SPECIFICATION StoreSpec
CONSTANTS
    STORE_CAPACITY = 2
    Formats = {f1, f2}
    Readings = {v1}
    None = None
    Faults = {"mount", "clear", "mig_write", "mig_cut", "rec_write", "meta_write",
              "rec_read", "meta_read", "format_read", "floor_read"}
    MaxSeq = 3
    MaxTime = 0
SYMMETRY FormatsAreAlike
INVARIANTS
    BootHeld
    FlashNotAhead
CHECK_DEADLOCK FALSE
