SPECIFICATION RxSpec
CONSTANTS
    tlv_magic <- Magic213
    TLV_HDR_LEN = 5
    LEN_AT = 4
    TLV_MAX_FRAME = 8
    Bytes = {1, 2, 3, 4, 5, 8, 9}
    U32 = 20
    TLV_HEAD = 1
    OtherType = 301
    NumTlvs = {0, 2}
INVARIANTS
    TlvTypeOK
    PushInBounds
    HuntMissesNothing
    Contiguous
    FrameLength
    WalkInside
PROPERTY WalkEnds
