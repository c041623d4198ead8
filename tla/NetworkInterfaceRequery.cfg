SPECIFICATION Spec
CONSTANTS
    IP = {"own", "a", "b"}
    NoMac = "none"
    Broadcast = "all"
    ArpRequestTimeout = 2
    ArpEntryTimeout = 3
    OwnMac = "m0"
    OwnIP = "own"
    Mac = {"m1", "m2"}
    Shared = {FALSE}
    Ticks = {1}
    MaxDatagrams = 2
PROPERTY ExpiryAsksAgain
