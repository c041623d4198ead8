SPECIFICATION Spec
CONSTANTS
    SeqMod = 9
    AbsMod = 63
    MaxPayload = 2
    ISN = 5
    SendCapacity = 3
    InitialRTO = 2
    WinMax = 4
    MaxBytes = 4
    MaxElapse = 2
    MaxBackoff = 2
INVARIANTS
    TypeOK
    LoopsAgree
    OutstandingTilesFlight
    TimerGuardsFlight
    SegmentsCarryStream
    NeverSilentlyStalls
PROPERTIES
    WindowRespected
    LeftEdgeOnlyAdvances
