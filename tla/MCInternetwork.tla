--------------------------- MODULE MCInternetwork ---------------------------
(***************************************************************************)
(* Two hosts, A and B, with two routers between them that share two        *)
(* segments.  Eight addresses, two for each segment.                       *)
(*                                                                         *)
(*   A(0) -- R1.1(1)   R1.2(2) -- R2.1(3)   R2.2(4) -- B(5)                *)
(*                     R1.3(6) -- R2.3(7)                                  *)
(***************************************************************************)
EXTENDS Internetwork

MCHosts == {"A", "B"}
MCPortsOf == [r \in {"R1", "R2"} |->
    IF r = "R1" THEN <<"R1.1", "R1.2", "R1.3">> ELSE <<"R2.1", "R2.2", "R2.3">>]
MCAddressOf == [p \in Port |->
    CASE p = "A" -> 0 [] p = "R1.1" -> 1 [] p = "R1.2" -> 2 [] p = "R2.1" -> 3
      [] p = "R2.2" -> 4 [] p = "B" -> 5 [] p = "R1.3" -> 6 [] p = "R2.3" -> 7]
MCSegmentOf == [p \in Port |-> MCAddressOf[p] \div 2]
MCGateway == [h \in MCHosts |-> IF h = "A" THEN 1 ELSE 4]
MCDestinations == [h \in MCHosts |-> IF h = "A" THEN {5} ELSE {0}]

(* Routes that lead everywhere, with a default route beside them, and one  *)
(* whose prefix is too long.  Prefixes of one router differ in length, so  *)
(* that the order of the calls leaves no trace in the table.               *)
Straight == [r \in {"R1", "R2"} |->
    IF r = "R1"
    THEN {RouteEntry(0, 0, 7, 3), RouteEntry(0, 2, NoHop, 1), RouteEntry(5, 1, 3, 2)}
    ELSE {RouteEntry(0, 0, 6, 3), RouteEntry(4, 2, NoHop, 2), RouteEntry(0, 1, 2, 1),
          RouteEntry(4, 4, 6, 3)}]

(* Each router takes the other for the way to B: a loop over both segments. *)
Loop == [r \in {"R1", "R2"} |->
    IF r = "R1"
    THEN {RouteEntry(0, 2, NoHop, 1), RouteEntry(4, 1, 3, 2)}
    ELSE {RouteEntry(4, 1, 6, 3)}]

(* R1 takes B for a neighbour of A: nobody answers its queries. *)
Astray == [r \in {"R1", "R2"} |->
    IF r = "R1" THEN {RouteEntry(0, 1, NoHop, 1), RouteEntry(4, 2, NoHop, 1)} ELSE {}]

MCRoutes == {Straight, Loop, Astray}
MCLeadingEverywhere == {Straight}

(* Two datagrams at a time with prompt frames, one of which may be lost; or *)
(* timeouts at any moment.                                                  *)
MCLoads == {Load(2, 1, TRUE), Load(2, 0, FALSE), Load(1, 1, FALSE)}
=============================================================================
