SPECIFICATION NodeSpec
CONSTANTS
    STORE_PERIOD_S = 2
    MS_PER_S = 1
    U16_MAX = 3
    RADAR_MAX_TARGETS = 2
    TARGET_3D_SIZE = 112
    TARGET_2D_SIZE = 76
    ListLens = {0, 336}
    Presences <- MCPresences
    MaxFrames = 2
    MaxClock = 6
    Word = 65536
    Samples <- MCSamples
    StatusBits = {"FAN", "SPEED"}
    BusFaults = {"start", "measured"}
    COUNT_MAX = 65535
    Scenes <- MCScenes
    Stamps <- MCStamps
INVARIANTS
    WinTypeOK
    HeadcountOfWindow
    DwellUnbroken
    SenTypeOK
    PeakOfWindow
    TempOfWindow
    RecordTells
    NoDrift
    WireRoundTrip
PROPERTY FaultNeverSilent
CHECK_DEADLOCK FALSE
