SPECIFICATION Spec
CONSTANTS
    Source <- MCSource
    PeerISN = 13
    Capacity = 4
    MaxSeg = 3
    SeqMod = 16
    AbsMod = 256
    WinMax = 3
INVARIANTS
    AcknoIsExact
    InOrderIsAcknowledged
PROPERTIES
    EdgeNeverShrinks
CHECK_DEADLOCK FALSE
