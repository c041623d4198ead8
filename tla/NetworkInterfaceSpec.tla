------------------------ MODULE NetworkInterfaceSpec ------------------------
(***************************************************************************)
(* One NetworkInterface, given datagrams to send, frames from the wire and *)
(* the passing of time, in any order.  A datagram is known by its number   *)
(* and its destination, which is its next hop here.  What has happened to  *)
(* each datagram, what the wire has said about each address, and when it   *)
(* was last asked about, is kept beside the interface.                     *)
(***************************************************************************)
EXTENDS NetworkInterface, FiniteSets

CONSTANTS
    OwnMac, OwnIP,      \* the interface's addresses
    Mac,                \* addresses that hosts on the wire announce
    Shared,             \* may the interface be owned by a shared_ptr, or not?
    Ticks,              \* the durations that tick() is called with
    MaxDatagrams        \* bound: datagrams handed to send_datagram

ASSUME InterfaceAssumption ==
    /\ OwnIP \in IP /\ OwnMac \notin Mac
    /\ NoMac \notin Mac /\ Broadcast \notin Mac
    /\ Ticks \subseteq Nat \ {0} /\ Shared \subseteq BOOLEAN
    /\ ArpRequestTimeout < ArpEntryTimeout

VARIABLES
    iface,
    handed,     \* datagrams handed over so far
    sent,       \* the datagrams transmitted, in order
    dropped,    \* the datagrams dropped by timeouts
    news,       \* what was last heard about each address, and how long ago
    asked       \* how long ago each address was asked for

vars == <<iface, handed, sent, dropped, news, asked>>

(* Ages beyond the timeouts that they are compared with are not told apart. *)
Aged(age, ms, limit) == IF age + ms < limit THEN age + ms ELSE limit

Init ==
    /\ iface \in {NewInterface(OwnMac, OwnIP, shared) : shared \in Shared}
    /\ handed = 0 /\ sent = <<>> /\ dropped = {}
    /\ news = [ip \in IP |-> [mac |-> NoMac, age |-> ArpEntryTimeout]]
    /\ asked = [ip \in IP |-> ArpRequestTimeout]

(* The datagrams in what an operation transmits.  At most one of its frames *)
(* is an ARP message, and that one comes first.                            *)
Carried(frames) ==
    LET data == IF frames # <<>> /\ frames[1].type = "ARP" THEN Tail(frames) ELSE frames
    IN  [k \in DOMAIN data |-> data[k].payload]
AskedFor(frames) == {frames[k].payload.target_ip : k \in
    {k \in DOMAIN frames : frames[k].type = "ARP" /\ frames[k].payload.opcode = "request"}}

(* The interface and what it transmits, as the histories record it. *)
Apply(outcome) ==
    /\ iface' = outcome.interface
    /\ sent' = sent \o Carried(outcome.frames)
    /\ asked' = [ip \in IP |-> IF ip \in AskedFor(outcome.frames) THEN 0 ELSE asked[ip]]

Initializes ==
    /\ iface' = Initialize(iface)
    /\ UNCHANGED <<handed, sent, dropped, news, asked>>

Send(ip) ==
    /\ handed < MaxDatagrams
    /\ handed' = handed + 1
    /\ Apply(SendDatagram(iface, Datagram(handed + 1, ip, 1), ip))
    /\ UNCHANGED <<dropped, news>>

HearArp(opcode, dst, ip, mac, target) ==
    LET frame == [type |-> "ARP", src |-> mac, dst |-> dst,
                  payload |-> ArpMessage(opcode, mac, ip, NoMac, target)]
    IN  /\ Apply(RecvFrame(iface, frame))
        /\ news' = IF ForUs(iface, frame)
                   THEN [news EXCEPT ![ip] = [mac |-> mac, age |-> 0]] ELSE news
        /\ UNCHANGED <<handed, dropped>>

(* A datagram comes in, its header intact or not, and is taken by whoever  *)
(* owns the interface.                                                     *)
HearDatagram(intact) ==
    LET dgram == Datagram(0, OwnIP, 1)
        frame == [type |-> "IPv4", src |-> NoMac, dst |-> OwnMac,
                  payload |-> IF intact THEN dgram ELSE [dgram EXCEPT !.ttl = 2]]
    IN  /\ iface.datagrams_received = <<>>
        /\ Apply(RecvFrame(iface, frame))
        /\ UNCHANGED <<handed, dropped, news>>

TakeDatagram ==
    /\ iface.datagrams_received # <<>>
    /\ iface' = [iface EXCEPT !.datagrams_received = Tail(@)]
    /\ UNCHANGED <<handed, sent, dropped, news, asked>>

InQueue(ip) == {iface.pending[ip].dgrams[k] : k \in DOMAIN iface.pending[ip].dgrams}

Tick(ms) ==
    /\ iface' = TickInterface(iface, ms)
    /\ dropped' = dropped \cup UNION {InQueue(ip) : ip \in TimedOut(iface.pending, ms)}
    /\ news' = [ip \in IP |-> [news[ip] EXCEPT !.age = Aged(@, ms, ArpEntryTimeout)]]
    /\ asked' = [ip \in IP |-> IF ip \in AskedAgain(iface, ms) THEN 0
                           ELSE Aged(asked[ip], ms, ArpRequestTimeout)]
    /\ UNCHANGED <<handed, sent>>

Next ==
    \/ Initializes
    \/ \E ip \in IP \ {OwnIP} : Send(ip)
    \/ \E opcode \in {"request", "reply"}, mac \in Mac, ip \in IP \ {OwnIP}, target \in IP :
            \E dst \in {OwnMac, Broadcast, mac} : HearArp(opcode, dst, ip, mac, target)
    \/ \E intact \in BOOLEAN : HearDatagram(intact)
    \/ TakeDatagram
    \/ \E ms \in Ticks : Tick(ms)

Spec == Init /\ [][Next]_vars

-----------------------------------------------------------------------------
(* Every datagram handed over is in exactly one place: in one frame, or    *)
(* once in the queue of its next hop, or dropped with it.  None is lost    *)
(* silently and none is sent twice (network_interface.cc:37-52, 130-139,   *)
(* arp_message_queue.cc:14-52).                                            *)
EveryDatagramAccountedFor ==
    LET places(d) == Cardinality({k \in DOMAIN sent : sent[k] = d})
                     + Cardinality({k \in DOMAIN iface.pending[d.dst].dgrams :
                                        iface.pending[d.dst].dgrams[k] = d})
                     + (IF d \in dropped THEN 1 ELSE 0)
    IN  \A id \in 1 .. handed : \E ip \in IP :
            /\ places(Datagram(id, ip, 1)) = 1
            /\ \A other \in IP \ {ip} : places(Datagram(id, other, 1)) = 0

(* Datagrams for one next hop leave in the order in which they were handed *)
(* over: one that finds the address known cannot overtake one that waited  *)
(* for it (network_interface.cc:75-79).                                    *)
SentInOrder ==
    \A j, k \in DOMAIN sent :
        j < k /\ sent[j].dst = sent[k].dst => sent[j].id < sent[k].id

(* The cache holds the latest announcement of an address as long as it is  *)
(* younger than ARP_ENTRY_TIMEOUT, and nothing else: no frame goes to an   *)
(* address that is out of date (arp_table.cc:5-35).                        *)
CacheIsFreshNews ==
    \A ip \in IP :
        iface.arp_table[ip].mac = IF news[ip].age < ArpEntryTimeout THEN news[ip].mac ELSE NoMac

(* While a datagram waits, the address of its next hop is not known, and a *)
(* query for it went out less than ARP_REQUEST_TIMEOUT ago: no datagram    *)
(* waits for an answer that has come or to a question that was never asked *)
(* (network_interface.cc:47-51, 74-79).                                    *)
WaitingImpliesAsked ==
    \A ip \in IP : HasPending(iface.pending, ip) =>
        asked[ip] < ArpRequestTimeout /\ iface.arp_table[ip].mac = NoMac

-----------------------------------------------------------------------------
(* A claim of the source *)

(* "on expiry, drop the queue and notify the callback so it can resend the *)
(* ARP request" (arp_message_queue.hh:36-37), which initialize() wires up. *)
ExpiryAsksAgain ==
    [][\A ip \in IP :
          iface.initialized /\ InQueue(ip) # {} /\ InQueue(ip) \subseteq dropped' => asked'[ip] = 0]_vars
=============================================================================
