-------------------------- MODULE NetworkInterface --------------------------
(***************************************************************************)
(* The bridge between IP and Ethernet: src/network_interface.cc, with its  *)
(* ARP cache (src/arp_table.cc) and the datagrams that wait for an ARP     *)
(* reply (src/arp_message_queue.cc).  An operation yields the interface it *)
(* leaves behind and the frames it transmits, in order.                    *)
(*                                                                         *)
(* Both maps are total here: an address without a cache entry has NoMac,   *)
(* one without a queue has the empty one.  Every waiting datagram has a    *)
(* timer in the code, but only that of the head is ever ticked, and the    *)
(* head changes only when the whole queue goes: a queue has one clock.     *)
(***************************************************************************)
EXTENDS Naturals, Sequences

CONSTANTS
    IP,                 \* IPv4 addresses
    NoMac,              \* the empty optional<EthernetAddress>; also the zero address
    Broadcast,          \* ETHERNET_BROADCAST
    ArpRequestTimeout,  \* NetworkTimer::ARP_REQUEST_TIMEOUT
    ArpEntryTimeout     \* NetworkTimer::ARP_ENTRY_TIMEOUT

ASSUME TimeoutAssumption ==
    ArpRequestTimeout \in Nat \ {0} /\ ArpEntryTimeout \in Nat \ {0}

NoEntry == [mac |-> NoMac, elapsed |-> 0]
NoQueue == [dgrams |-> <<>>, elapsed |-> 0]

(* NetworkInterface::NetworkInterface.  `shared': is the object owned by a *)
(* shared_ptr, so that weak_from_this() can be locked later?               *)
NewInterface(mac, ip, shared) ==
    [ethernet_address |-> mac,
     ip_address |-> ip,
     shared |-> shared,
     initialized |-> FALSE,
     on_timeout |-> FALSE,
     arp_table |-> [a \in IP |-> NoEntry],
     pending |-> [a \in IP |-> NoQueue],
     datagrams_received |-> <<>>]

(* An IPv4 datagram.  Of the header's checksum it matters only that it     *)
(* covers the time to live: parse() refuses a header whose checksum was    *)
(* not computed again after a change.                                      *)
ComputeChecksum(dgram) == [dgram EXCEPT !.cksum = dgram.ttl]
Datagram(id, dst, ttl) == ComputeChecksum([id |-> id, dst |-> dst, ttl |-> ttl, cksum |-> 0])
Parses(dgram) == ComputeChecksum(dgram) = dgram

Outcome(i, frames) == [interface |-> i, frames |-> frames]

(* make_frame *)
Frame(i, type, dst, payload) ==
    [type |-> type, src |-> i.ethernet_address, dst |-> dst, payload |-> payload]

IPv4Frame(i, dgram, dst) == Frame(i, "IPv4", dst, dgram)

ArpMessage(opcode, sender_mac, sender_ip, target_mac, target_ip) ==
    [opcode |-> opcode, sender_mac |-> sender_mac, sender_ip |-> sender_ip,
     target_mac |-> target_mac, target_ip |-> target_ip]

(* send_arp_request *)
ArpRequest(i, next_hop) ==
    Frame(i, "ARP", Broadcast,
          ArpMessage("request", i.ethernet_address, i.ip_address, NoMac, next_hop))

(* send_arp_reply *)
ArpReply(i, request) ==
    Frame(i, "ARP", request.sender_mac,
          ArpMessage("reply", i.ethernet_address, i.ip_address,
                     request.sender_mac, request.sender_ip))

-----------------------------------------------------------------------------
(* initialize(): the callback holds a weak reference, which is of use only *)
(* when the interface is owned by a shared_ptr.                            *)
Initialize(i) == [i EXCEPT !.on_timeout = i.shared, !.initialized = TRUE]

(* A plausible slip: an entry that is there keeps its old timer. *)
AddEntryKeepingTimer(table, ip, mac) ==
    [table EXCEPT ![ip] = [mac |-> mac, elapsed |-> @.elapsed]]

(* ARPTable::add_entry *)
AddEntry(table, ip, mac) == [table EXCEPT ![ip] = [mac |-> mac, elapsed |-> 0]]

EntryExpired(entry) == entry.elapsed >= ArpEntryTimeout

(* What ARPTable::lookup leaves in the table: an expired entry is evicted. *)
Lookup(table, ip) ==
    IF EntryExpired(table[ip]) THEN [table EXCEPT ![ip] = NoEntry] ELSE table

(* ARPTable::tick *)
TableTick(table, ms) ==
    [ip \in IP |->
        LET aged == [table[ip] EXCEPT !.elapsed = @ + ms]
        IN  IF table[ip] = NoEntry \/ EntryExpired(aged) THEN NoEntry ELSE aged]

-----------------------------------------------------------------------------
(* ARPMessageQueue::has_pending *)
HasPending(pending, ip) == pending[ip].dgrams # <<>>

(* ARPMessageQueue::add_pending *)
AddPending(pending, dgram, ip) == [pending EXCEPT ![ip].dgrams = Append(@, dgram)]

(* A plausible slip: what is popped stays in the map. *)
PopPendingKeeping(pending, ip) == pending

(* What ARPMessageQueue::pop_pending leaves behind. *)
PopPending(pending, ip) == [pending EXCEPT ![ip] = NoQueue]

(* ARPMessageQueue::tick: the addresses whose queue times out. *)
TimedOut(pending, ms) ==
    {ip \in IP : HasPending(pending, ip) /\ pending[ip].elapsed + ms >= ArpRequestTimeout}

(* A plausible slip: a queue that times out is kept, to ask again later. *)
QueueTickKeeping(pending, ms) ==
    [ip \in IP |->
        IF ~HasPending(pending, ip) THEN NoQueue
        ELSE IF ip \in TimedOut(pending, ms) THEN [pending[ip] EXCEPT !.elapsed = 0]
        ELSE [pending[ip] EXCEPT !.elapsed = @ + ms]]

(* ARPMessageQueue::tick: what is left of the queues. *)
QueueTick(pending, ms) ==
    [ip \in IP |->
        IF ~HasPending(pending, ip) \/ ip \in TimedOut(pending, ms) THEN NoQueue
        ELSE [pending[ip] EXCEPT !.elapsed = @ + ms]]

-----------------------------------------------------------------------------
(* A plausible slip: asks whether a query is out after queueing. *)
SendDatagramLateCheck(i, dgram, next_hop) ==
    LET table == Lookup(i.arp_table, next_hop)
        looked == [i EXCEPT !.arp_table = table]
        queued == [looked EXCEPT !.pending = AddPending(@, dgram, next_hop)]
    IN  IF table[next_hop].mac # NoMac
        THEN Outcome(looked, <<IPv4Frame(i, dgram, table[next_hop].mac)>>)
        ELSE IF HasPending(queued.pending, next_hop) THEN Outcome(queued, <<>>)
        ELSE Outcome(queued, <<ArpRequest(i, next_hop)>>)

(* send_datagram *)
SendDatagram(i, dgram, next_hop) ==
    LET table == Lookup(i.arp_table, next_hop)
        looked == [i EXCEPT !.arp_table = table]
        queued == [looked EXCEPT !.pending = AddPending(@, dgram, next_hop)]
    IN  IF table[next_hop].mac # NoMac
        THEN Outcome(looked, <<IPv4Frame(i, dgram, table[next_hop].mac)>>)
        ELSE IF HasPending(i.pending, next_hop) THEN Outcome(queued, <<>>)
        ELSE Outcome(queued, <<ArpRequest(i, next_hop)>>)

(* flush_pending_for *)
FlushPendingFor(i, ip) ==
    LET table == Lookup(i.arp_table, ip)
        waiting == i.pending[ip].dgrams
        looked == [i EXCEPT !.arp_table = table]
    IN  IF table[ip].mac = NoMac THEN Outcome(looked, <<>>)
        ELSE Outcome([looked EXCEPT !.pending = PopPending(@, ip)],
                     [k \in DOMAIN waiting |-> IPv4Frame(i, waiting[k], table[ip].mac)])

(* A plausible slip: only a reply releases what waits for the sender. *)
RecvArpRepliesOnly(i, msg) ==
    LET learnt == [i EXCEPT !.arp_table = AddEntry(@, msg.sender_ip, msg.sender_mac)]
        asked == msg.opcode = "request" /\ msg.target_ip = i.ip_address
        flushed == IF msg.opcode = "reply" THEN FlushPendingFor(learnt, msg.sender_ip)
                   ELSE Outcome(learnt, <<>>)
    IN  Outcome(flushed.interface,
                (IF asked THEN <<ArpReply(i, msg)>> ELSE <<>>) \o flushed.frames)

(* recv_frame with an ARP message *)
RecvArp(i, msg) ==
    LET learnt == [i EXCEPT !.arp_table = AddEntry(@, msg.sender_ip, msg.sender_mac)]
        asked == msg.opcode = "request" /\ msg.target_ip = i.ip_address
        flushed == FlushPendingFor(learnt, msg.sender_ip)
    IN  Outcome(flushed.interface,
                (IF asked THEN <<ArpReply(i, msg)>> ELSE <<>>) \o flushed.frames)

(* Is the frame for this interface? *)
ForUs(i, frame) == frame.dst \in {i.ethernet_address, Broadcast}

(* recv_frame.  A frame of another type, and one whose payload does not    *)
(* parse, has no effect.                                                   *)
RecvFrame(i, frame) ==
    CASE ~ForUs(i, frame) -> Outcome(i, <<>>)
      [] ForUs(i, frame) /\ frame.type = "IPv4" /\ Parses(frame.payload) ->
            Outcome([i EXCEPT !.datagrams_received = Append(@, frame.payload)], <<>>)
      [] ForUs(i, frame) /\ frame.type = "ARP" -> RecvArp(i, frame.payload)
      [] OTHER -> Outcome(i, <<>>)

(* tick: the interface afterwards, and the addresses it asks for again.    *)
(* The map is unordered, and so are the requests.                          *)
TickInterface(i, ms) ==
    [i EXCEPT !.arp_table = TableTick(@, ms), !.pending = QueueTick(@, ms)]

AskedAgain(i, ms) == IF i.on_timeout THEN TimedOut(i.pending, ms) ELSE {}
=============================================================================
