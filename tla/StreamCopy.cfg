SPECIFICATION FairCopySpec
CONSTANTS
    SeqMod = 16
    AbsMod = 64
    WinMax = 7
    MaxPayload = 1
    LingerTime = 10
    ClientISN = 14
    ServerISN = 3
    SendCapacity = 1
    RTO = 1
    MaxBackoff = 4
    PipeCapacity = 2
    CopyCapacity = 1
    Scenarios <- SocketScenarios
INVARIANTS
    NoBrokenPipe
    NothingIsCutOff
PROPERTIES
    OwnerIsReleased
    EverythingGetsThrough
CHECK_DEADLOCK FALSE
