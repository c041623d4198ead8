---------------------------- MODULE Internetwork ----------------------------
(***************************************************************************)
(* Hosts and routers on Ethernet segments, every one of them with its own  *)
(* NetworkInterface, as tests/router.cc and apps/endtoend.cc put them      *)
(* together.  A port is one interface; a frame transmitted on a port       *)
(* reaches every other port of its segment, each in its own time, in the   *)
(* order sent, or is lost on the way.                                      *)
(***************************************************************************)
EXTENDS Router, FiniteSets

CONSTANTS
    Hosts,          \* the ports that belong to hosts
    RouterNames,
    PortsOf,        \* the ports of each router, in the order of add_interface
    AddressOf,      \* the IP address of each port; its Ethernet address is its name
    SegmentOf,      \* the segment each port is attached to
    Gateway,        \* the next hop of each host
    Routes,         \* sets of routes that the routers may be given
    LeadingEverywhere, \* those of them that lead to every host
    Destinations,   \* where each host sends datagrams
    InitialTTL,
    InboxCap,       \* bound: datagrams that wait for one router or host
    Loads           \* what may happen, a set of:

(* The datagrams that hosts send and the frames that are lost, as bounds,  *)
(* and whether frames arrive before any timer runs out.                    *)
Load(datagrams, losses, prompt) == [datagrams |-> datagrams, losses |-> losses, prompt |-> prompt]

ASSUME InternetworkAssumption ==
    /\ AddrBits \in Nat /\ IP \subseteq Nat
    /\ \A plan \in Routes, r \in RouterNames : \A entry \in plan[r] :
           entry.prefix \in Nat /\ entry.prefix_length \in Nat

RouterPorts == UNION {Range(PortsOf[r]) : r \in RouterNames}
Port == Hosts \cup RouterPorts
HostAddresses == {AddressOf[h] : h \in Hosts}

(* Hosts keep what reaches them: nobody takes a host for a router. *)
ASSUME TopologyAssumption ==
    /\ IsFiniteSet(IP) /\ IsFiniteSet(Port)
    /\ NoMac \notin Port /\ Broadcast \notin Port
    /\ \A p \in Port : AddressOf[p] \in IP
    /\ \A h \in Hosts : Gateway[h] \in IP \ HostAddresses
    /\ \A r \in RouterNames : PortsOf[r] \in Seq(Port) /\ IsInjective(PortsOf[r])
    /\ \A plan \in Routes, r \in RouterNames : \A entry \in plan[r] :
           /\ entry.interface_num \in DOMAIN PortsOf[r]
           /\ entry.next_hop \in {NoHop} \cup (IP \ HostAddresses)
    /\ InitialTTL \in Nat \ {0}
    /\ \A l \in Loads : l.datagrams \in Nat

VARIABLES
    ifaces,     \* the interface of each port
    tables,     \* the forwarding table of each router
    wire,       \* the frames on their way to each port
    sent,       \* datagrams sent by hosts so far
    arrived,    \* what each host has received
    hops,       \* how often each datagram was put on a wire
    lost,       \* frames lost so far
    routes,     \* the routes that the routers are to be given
    given,      \* those that were added so far
    load        \* the load

vars == <<ifaces, tables, wire, sent, arrived, hops, lost, routes, given, load>>

(* The interfaces are initialized or not; in this repository no interface  *)
(* of a router is.                                                         *)
Init ==
    /\ \E wired \in BOOLEAN :
        ifaces = [p \in Port |->
                     IF wired THEN Initialize(NewInterface(p, AddressOf[p], TRUE))
                     ELSE NewInterface(p, AddressOf[p], TRUE)]
    /\ routes \in Routes /\ load \in Loads
    /\ tables = [r \in RouterNames |-> <<>>]
    /\ given = [r \in RouterNames |-> {}]
    /\ wire = [p \in Port |-> <<>>]
    /\ sent = 0
    /\ arrived = [h \in Hosts |-> <<>>]
    /\ hops = [id \in 1 .. load.datagrams |-> 0]
    /\ lost = 0

(* The wires once each port p has transmitted frames[p]. *)
Transmitted(base, frames) ==
    LET from(q) == {p \in Port \ {q} : SegmentOf[p] = SegmentOf[q] /\ frames[p] # <<>>}
        heard(q) == LET ports == SetToSeq(from(q))
                    IN  FlattenSeq([n \in DOMAIN ports |-> frames[ports[n]]])
    IN  [q \in Port |-> base[q] \o heard(q)]

(* How often the frames put each datagram on a wire. *)
Counted(frames) ==
    LET all == UNION {{<<p, k>> : k \in DOMAIN frames[p]} : p \in Port}
        carries(at, id) == LET frame == frames[at[1]][at[2]]
                           IN  frame.type = "IPv4" /\ frame.payload.id = id
    IN  [id \in DOMAIN hops |-> hops[id] + Cardinality({at \in all : carries(at, id)})]

Only(p, frames) == [q \in Port |-> IF q = p THEN frames ELSE <<>>]

Apply(p, outcome, base) ==
    /\ ifaces' = [ifaces EXCEPT ![p] = outcome.interface]
    /\ wire' = Transmitted(base, Only(p, outcome.frames))
    /\ hops' = Counted(Only(p, outcome.frames))

-----------------------------------------------------------------------------
(* add_route: the routes come in any order. *)
GiveRoute(r, entry) ==
    /\ entry \notin given[r]
    /\ tables' = [tables EXCEPT ![r] = AddRoute(@, entry)]
    /\ given' = [given EXCEPT ![r] = @ \cup {entry}]
    /\ UNCHANGED <<ifaces, wire, sent, arrived, hops, lost, routes, load>>

(* A host sends a datagram through its gateway, once the routers have      *)
(* their routes.                                                           *)
HostSend(h, dst) ==
    /\ given = routes
    /\ sent < load.datagrams
    /\ sent' = sent + 1
    /\ Apply(h, SendDatagram(ifaces[h], Datagram(sent + 1, dst, InitialTTL), Gateway[h]), wire)
    /\ UNCHANGED <<routes, given, load, tables, arrived, lost>>

(* A frame arrives at a port. *)
Deliver(p) ==
    /\ wire[p] # <<>>
    /\ Len(ifaces[p].datagrams_received) < InboxCap
    /\ Apply(p, RecvFrame(ifaces[p], Head(wire[p])), [wire EXCEPT ![p] = Tail(@)])
    /\ UNCHANGED <<routes, given, load, tables, sent, arrived, lost>>

Lose(p) ==
    /\ wire[p] # <<>>
    /\ lost < load.losses
    /\ wire' = [wire EXCEPT ![p] = Tail(@)]
    /\ lost' = lost + 1
    /\ UNCHANGED <<routes, given, load, ifaces, tables, sent, arrived, hops>>

(* A host takes what has arrived. *)
HostTake(h) ==
    /\ ifaces[h].datagrams_received # <<>>
    /\ ifaces' = [ifaces EXCEPT ![h].datagrams_received = <<>>]
    /\ arrived' = [arrived EXCEPT ![h] = @ \o ifaces[h].datagrams_received]
    /\ UNCHANGED <<routes, given, load, tables, wire, sent, hops, lost>>

(* The router's route(). *)
Route(r) ==
    LET ports == PortsOf[r]
        done == RouteAll(NewRouter([n \in DOMAIN ports |-> ifaces[ports[n]]], tables[r]))
        place(p) == CHOOSE n \in DOMAIN ports : ports[n] = p
        frames == [p \in Port |-> IF p \in Range(ports) THEN done.frames[place(p)] ELSE <<>>]
    IN  /\ \E p \in Range(ports) : ifaces[p].datagrams_received # <<>>
        /\ ifaces' = [p \in Port |-> IF p \in Range(ports) THEN done.router.interfaces[place(p)]
                                     ELSE ifaces[p]]
        /\ wire' = Transmitted(wire, frames)
        /\ hops' = Counted(frames)
        /\ UNCHANGED <<routes, given, load, tables, sent, arrived, lost>>

(* Time matters to a port that remembers or waits for something. *)
Timed(i) == \E ip \in IP : i.arp_table[ip] # NoEntry \/ HasPending(i.pending, ip)
MayTick ==
    /\ \E p \in Port : Timed(ifaces[p])
    /\ load.prompt => \A p \in Port : wire[p] = <<>> /\ ifaces[p].datagrams_received = <<>>

(* tick() of every interface. *)
Tick ==
    LET again(p) == SetToSeq(AskedAgain(ifaces[p], 1))
        frames == [p \in Port |-> [k \in DOMAIN again(p) |-> ArpRequest(ifaces[p], again(p)[k])]]
    IN  /\ MayTick
        /\ ifaces' = [p \in Port |-> TickInterface(ifaces[p], 1)]
        /\ wire' = Transmitted(wire, frames)
        /\ UNCHANGED <<routes, given, load, tables, sent, arrived, hops, lost>>

Next ==
    \/ \E r \in RouterNames : \E entry \in routes[r] : GiveRoute(r, entry)
    \/ \E h \in Hosts, dst \in IP : dst \in Destinations[h] /\ HostSend(h, dst)
    \/ \E p \in Port : Deliver(p)
    \/ \E p \in Port : Lose(p)
    \/ \E h \in Hosts : HostTake(h)
    \/ \E r \in RouterNames : Route(r)
    \/ Tick

Spec == Init /\ [][Next]_vars

-----------------------------------------------------------------------------
(* Every datagram that a host receives is addressed to it, is received     *)
(* once, and has lost one of its time to live at every router: whatever    *)
(* the interleaving of ARP exchanges, losses and timeouts, no datagram is  *)
(* handed to the wrong host or twice.  None is put on a wire more often    *)
(* than its time to live says, although the routes may form a loop         *)
(* (router.cc:47-70, network_interface.cc:130-139).                        *)
ArrivesOnceWhereAddressed ==
    /\ \A h \in Hosts :
        /\ \A k \in DOMAIN arrived[h] :
            /\ arrived[h][k].dst = AddressOf[h]
            /\ arrived[h][k].ttl + hops[arrived[h][k].id] = InitialTTL + 1
        /\ IsInjective(arrived[h])
    /\ \A id \in DOMAIN hops : hops[id] <= InitialTTL

(* The addresses that a route is for, counted rather than masked. *)
Covers(entry, destination) ==
    /\ entry.prefix_length <= AddrBits
    /\ LET size == 2 ^ (AddrBits - entry.prefix_length)
           first == entry.prefix - (entry.prefix % size)
       IN  destination \in first .. first + size - 1

(* The first match in a router's sorted table is the longest prefix match  *)
(* over all the routes that it was given so far, in whatever order, and    *)
(* there is no match only if no route covers the address                   *)
(* (router.hh:46-48, router.cc:8-34).                                      *)
LongestPrefixMatch ==
    \A r \in RouterNames, destination \in IP :
        LET k == FindRoute(tables[r], destination)
            candidates == {entry \in given[r] : Covers(entry, destination)}
        IN  IF candidates = {} THEN k = 0
            ELSE /\ k # 0
                 /\ tables[r][k] \in candidates
                 /\ \A entry \in candidates : entry.prefix_length <= tables[r][k].prefix_length

-----------------------------------------------------------------------------
(* Liveness.  Ports take in frames, routers and hosts are run when they    *)
(* have something to do, and time passes: weak fairness, for the larger    *)
(* actions with the condition under which each is enabled written out.     *)
MayDeliver(p) == wire[p] # <<>> /\ Len(ifaces[p].datagrams_received) < InboxCap
MayRoute(r) == \E p \in Range(PortsOf[r]) : ifaces[p].datagrams_received # <<>>

Fairness ==
    /\ []<>~MayTick \/ []<><<Tick>>_vars
    /\ \A p \in Port : []<>~MayDeliver(p) \/ []<><<Deliver(p)>>_vars
    /\ \A h \in Hosts : WF_vars(HostTake(h))
    /\ \A r \in RouterNames : []<>~MayRoute(r) \/ []<><<Route(r)>>_vars

FairSpec == Spec /\ Fairness

Waiting == \E p \in Port, ip \in IP : HasPending(ifaces[p].pending, ip)

(* The network comes to rest: with loops in the routes, lost queries and   *)
(* requests that are sent again and again, in the end no frame is under    *)
(* way and no datagram waits for an address.                               *)
NetworkComesToRest == <>[](~Waiting /\ \A p \in Port : wire[p] = <<>>)

(* If no frame is lost, none is overtaken by a timer, and the routes lead  *)
(* to every host, then every datagram sent arrives (router.cc:36-70,       *)
(* network_interface.cc:37-87).                                            *)
AllArriveIfNothingIsLost ==
    (load.prompt /\ routes \in LeadingEverywhere /\ []~(lost > 0)) =>
        <>[](Cardinality(UNION {Range(arrived[h]) : h \in Hosts}) = sent)
=============================================================================
