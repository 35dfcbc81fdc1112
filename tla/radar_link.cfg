SPECIFICATION LinkSpec
CONSTANTS
    cfg_lines <- ThreeLines
    RX_RING_SIZE = 8
    BUF_LEN = 6
    TAIL_LEN = 3
    EchoLens = {2, 4}
    MaxSlips = 2
    MaxHangs = 1
    DROP_CAP = 1
INVARIANTS
    LinkTypeOK
    DoneCredited
    NeverInPlace
PROPERTY Settles
