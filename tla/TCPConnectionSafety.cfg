SPECIFICATION Spec
CONSTANTS
    SeqMod = 16
    AbsMod = 64
    WinMax = 7
    MaxPayload = 1
    LingerTime = 1
    ClientISN = 14
    ServerISN = 3
    SendCapacity = 2
    RTO = 1
    MaxBackoff = 1
    Scenarios <- SafetyScenarios
INVARIANTS
    EndsAgree
    NobodyLeavesEarly
    NoSpuriousReset
PROPERTIES
    BothDirectionsAreReliable
    BrokenPeerIsSilent
CHECK_DEADLOCK FALSE
