------------------------------- MODULE Router -------------------------------
(***************************************************************************)
(* The router: src/router.cc.  An IPv4 address is a number below           *)
(* 2^AddrBits.                                                             *)
(***************************************************************************)
EXTENDS NetworkInterface, SequencesExt

CONSTANT AddrBits       \* 32

(* The empty optional<Address>, and no interface. *)
NoHop == -1

RouteEntry(prefix, prefix_length, next_hop, interface_num) ==
    [prefix |-> prefix, prefix_length |-> prefix_length,
     next_hop |-> next_hop, interface_num |-> interface_num]

(* add_route: behind every route whose prefix is at least as long. *)
AddRoute(routes, entry) ==
    LET longer == {k \in DOMAIN routes : routes[k].prefix_length >= entry.prefix_length}
    IN  IF entry.prefix_length > AddrBits THEN routes
        ELSE InsertAt(routes, Cardinality(longer) + 1, entry)

(* ~0 << n has n low bits that are zero; a shift by the whole width is     *)
(* undefined, and the machine's takes n modulo the width.                  *)
Shifted(n) == n % AddrBits

(* A plausible slip: a prefix of length 0 is not treated apart. *)
ZeroBitsByShift(prefix_length) == Shifted(AddrBits - prefix_length)

(* The mask of a prefix length, as the number of its low bits that are zero. *)
ZeroBits(prefix_length) ==
    IF prefix_length = 0 THEN AddrBits ELSE Shifted(AddrBits - prefix_length)

(* The bits of an address that the mask lets through. *)
Masked(address, prefix_length) == address \div 2 ^ ZeroBits(prefix_length)

Matches(entry, destination) ==
    Masked(destination, entry.prefix_length) = Masked(entry.prefix, entry.prefix_length)

(* find_route: the place of the first match in the table, 0 if none. *)
FindRoute(routes, destination) ==
    LET matching == {k \in DOMAIN routes : Matches(routes[k], destination)}
    IN  IF matching = {} THEN 0 ELSE CHOOSE k \in matching : \A j \in matching : k <= j

-----------------------------------------------------------------------------
(* A router, and what it transmits on each of its interfaces. *)
NewRouter(interfaces, routes) == [interfaces |-> interfaces, routes |-> routes]
Forwarded(router, frames) == [router |-> router, frames |-> frames]
Silence(router) == [n \in DOMAIN router.interfaces |-> <<>>]

(* A plausible slip: the checksum is not computed again. *)
HopKeepingChecksum(dgram) == [dgram EXCEPT !.ttl = @ - 1]

(* The datagram one hop further. *)
Hop(dgram) == ComputeChecksum([dgram EXCEPT !.ttl = @ - 1])

(* The early returns of forward(): the datagram has lived too long, has no *)
(* route, or would go back where it came from to reach another router.     *)
Forwards(router, dgram, arrived_on) ==
    LET k == FindRoute(router.routes, dgram.dst)
    IN  /\ dgram.ttl > 1
        /\ k # 0
        /\ ~(router.routes[k].interface_num = arrived_on /\ router.routes[k].next_hop # NoHop)

(* forward, for one datagram, after what was transmitted so far *)
Forward(done, dgram, arrived_on) ==
    LET router == done.router
        route == router.routes[FindRoute(router.routes, dgram.dst)]
        n == route.interface_num
        next_hop == IF route.next_hop = NoHop THEN dgram.dst ELSE route.next_hop
        outcome == SendDatagram(router.interfaces[n], Hop(dgram), next_hop)
    IN  IF ~Forwards(router, dgram, arrived_on) THEN done
        ELSE Forwarded([router EXCEPT !.interfaces[n] = outcome.interface],
                       [done.frames EXCEPT ![n] = @ \o outcome.frames])

(* The datagrams that wait for the router, interface by interface. *)
Arrivals(router) ==
    LET of(n) == [k \in DOMAIN router.interfaces[n].datagrams_received |->
                     [dgram |-> router.interfaces[n].datagrams_received[k], on |-> n]]
    IN  FlattenSeq([n \in DOMAIN router.interfaces |-> of(n)])

(* route: every queue is drained, in order, and nothing is put into a queue *)
(* meanwhile.  after[k] is the router when k datagrams have been handled.   *)
RouteAll(router) ==
    LET drained == [router EXCEPT !.interfaces =
                       [n \in DOMAIN @ |-> [@[n] EXCEPT !.datagrams_received = <<>>]]]
        arrivals == Arrivals(router)
        after[k \in 0 .. Len(arrivals)] ==
            IF k = 0 THEN Forwarded(drained, Silence(router))
            ELSE Forward(after[k - 1], arrivals[k].dgram, arrivals[k].on)
    IN  after[Len(arrivals)]
=============================================================================
