SPECIFICATION FairSpec
CONSTANTS
    IP = {0, 1, 2, 3, 4, 5, 6, 7}
    NoMac = "none"
    Broadcast = "all"
    ArpRequestTimeout = 1
    ArpEntryTimeout = 2
    AddrBits = 3
    Hosts <- MCHosts
    RouterNames = {"R1", "R2"}
    PortsOf <- MCPortsOf
    AddressOf <- MCAddressOf
    SegmentOf <- MCSegmentOf
    Gateway <- MCGateway
    Routes <- MCRoutes
    LeadingEverywhere <- MCLeadingEverywhere
    Destinations <- MCDestinations
    InitialTTL = 3
    InboxCap = 1
    Loads <- MCLoads
INVARIANTS
    ArrivesOnceWhereAddressed
    LongestPrefixMatch
PROPERTIES
    NetworkComesToRest
    AllArriveIfNothingIsLost
CHECK_DEADLOCK FALSE
