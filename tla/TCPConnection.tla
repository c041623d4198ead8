---------------------------- MODULE TCPConnection ---------------------------
(***************************************************************************)
(* Two TCPPeers and the network between them, driven the way the socket    *)
(* drives them (util/tcp_minnow_socket_impl.hh): segments from the network *)
(* (rule 1), bytes and end-of-file from the application (rule 2), bytes to *)
(* the application (rule 3), and the passing of time (_tcp_loop).  The     *)
(* client connects; the server listens (util/tcp_over_ip.cc).  Each of     *)
(* these handlers runs to completion in its peer's thread, and is one      *)
(* action.                                                                 *)
(*                                                                         *)
(* The network loses, repeats and reorders segments, within budgets.       *)
(***************************************************************************)
EXTENDS TCPPeer

CONSTANTS
    ClientISN, ServerISN,   \* cfg.isn of each side
    SendCapacity,           \* cfg.send_capacity
    RTO,                    \* cfg.rt_timeout, in ticks of the model
    MaxBackoff,             \* bound: consecutive retransmissions of one side
    Scenarios               \* what applications and network may do, a set of:

(* recv_capacity; and, as bounds: the bytes that each application writes,  *)
(* the sides whose application ends its stream, the segments under way to  *)
(* one side (more are lost), those lost besides, those repeated, the       *)
(* failures and foreign resets; and whether a timeout may come while       *)
(* segments are under way.                                                 *)
Scenario(recv_capacity, client_bytes, server_bytes, closing, under_way, loss, dup, fault, eager) ==
    [recv_capacity |-> recv_capacity,
     bytes |-> [side \in {"client", "server"} |-> IF side = "client" THEN client_bytes ELSE server_bytes],
     closing |-> closing, under_way |-> under_way, loss |-> loss, dup |-> dup,
     fault |-> fault, eager_timeouts |-> eager]

Sides == {"client", "server"}
Other(side) == IF side = "client" THEN "server" ELSE "client"

(* Residues can be told apart although a repeated segment may be as old as *)
(* the connection.                                                         *)
ASSUME ConnectionAssumption ==
    /\ ClientISN \in Seqno /\ ServerISN \in Seqno
    /\ SendCapacity \in Nat /\ RTO \in Nat
    /\ \A scenario \in Scenarios :
          /\ scenario.recv_capacity \in Nat
          /\ \A side \in Sides :
                scenario.bytes[side] \in Nat /\ 2 * (scenario.bytes[side] + 3) <= SeqMod

VARIABLES
    sc,         \* the scenario
    peers,      \* the TCPPeer of each side
    net,        \* the segments under way to each side
    listening,  \* listening() of the server's adapter
    lost,       \* segments lost so far
    repeated,   \* segments repeated so far
    faults      \* failures so far

vars == <<sc, peers, net, listening, lost, repeated, faults>>

Init ==
    /\ sc \in Scenarios
    /\ peers = [side \in Sides |->
                   NewPeer(IF side = "client" THEN ClientISN ELSE ServerISN,
                           SendCapacity, sc.recv_capacity, RTO)]
    /\ net = [side \in Sides |-> {}]
    /\ listening = TRUE
    /\ lost = 0 /\ repeated = 0 /\ faults = 0

(* connect() and listen_and_accept() return once the SYN is acknowledged.  *)
Established(side) == AbsAck(peers[side].sender) >= 1

(* Segments join those under way, in the order sent, as long as there is   *)
(* room for them.                                                          *)
Carry(under_way, messages) ==
    LET new == [k \in DOMAIN messages |-> OverTheWire(messages[k])]
        first(n) == under_way \cup {new[k] : k \in 1 .. n}
    IN  under_way \cup {new[k] : k \in {n \in DOMAIN messages :
                                          Cardinality(first(n)) <= sc.under_way}}

(* The peer of `side' becomes result.peer, `base' is under way, and what   *)
(* it transmits joins that.                                                *)
Apply(side, result, base) ==
    /\ peers' = [peers EXCEPT ![side] = result.peer]
    /\ net' = [base EXCEPT ![Other(side)] = Carry(@, result.messages)]

-----------------------------------------------------------------------------
(* connect(): the client's first push(), a bare SYN. *)
Connect ==
    /\ ~peers["client"].sender.syn_sent
    /\ Apply("client", PeerPush(peers["client"]), net)
    /\ UNCHANGED <<sc, listening, lost, repeated, faults>>

(* The interest of rule 2, once the application has its socket. *)
MayWrite(side) ==
    /\ Established(side)
    /\ Active(peers[side])
    /\ ~Outbound(peers[side]).closed
    /\ AvailableCapacity(Outbound(peers[side])) > 0

(* Rule 2 with n bytes to read, at the end of the file if eof. *)
AppWrite(side, n, eof) ==
    LET p == peers[side]
        data == [i \in 1 .. n |-> BytesPushed(Outbound(p)) + i]
        filled == WriterPush(Outbound(p), data)
        input == IF eof THEN WriterClose(filled) ELSE filled
    IN  /\ MayWrite(side)
        /\ n > 0 \/ eof
        /\ eof => side \in sc.closing
        /\ n <= AvailableCapacity(Outbound(p))
        /\ BytesPushed(Outbound(p)) + n <= sc.bytes[side]
        /\ Apply(side, PeerPush([p EXCEPT !.sender.input = input]), net)
        /\ UNCHANGED <<sc, listening, lost, repeated, faults>>

(* Rule 3: the application takes n bytes; a window update is not sent. *)
AppRead(side, n) ==
    /\ n <= BytesBuffered(PeerInbound(peers[side]))
    /\ peers' = [peers EXCEPT ![side].receiver.reassembler = ReadOutput(@, n)]
    /\ UNCHANGED <<sc, net, listening, lost, repeated, faults>>

(* A listening server takes nothing but a SYN without RST. *)
Discards(side, m) == side = "server" /\ listening /\ (~m.sender.SYN \/ m.sender.RST)

(* The adapter reads a segment, and stops listening at the first it takes. *)
UnwrapTcp(side, m) == listening' = (listening /\ (side = "server" => Discards(side, m)))

(* Rule 1, unless the adapter discards the segment. *)
Arrive(side, m, base) ==
    /\ UnwrapTcp(side, m)
    /\ IF Discards(side, m)
       THEN peers' = peers /\ net' = base
       ELSE Apply(side, PeerReceive(peers[side], m), base)

Deliver(side, m) ==
    /\ Arrive(side, m, [net EXCEPT ![side] = @ \ {m}])
    /\ UNCHANGED <<sc, lost, repeated, faults>>

(* A repeated segment arrives now and again later. *)
DeliverCopy(side, m) ==
    /\ repeated < sc.dup
    /\ Arrive(side, m, net)
    /\ repeated' = repeated + 1
    /\ UNCHANGED <<sc, lost, faults>>

(* The network loses a segment, or the lossy adapter does after it has     *)
(* read it.                                                                *)
Lose(side, m) ==
    /\ lost < sc.loss
    /\ net' = [net EXCEPT ![side] = @ \ {m}]
    /\ UnwrapTcp(side, m) \/ UNCHANGED listening
    /\ lost' = lost + 1
    /\ UNCHANGED <<sc, peers, repeated, faults>>

(* Time that passes without any effect is a stuttering step. *)
MayElapse ==
    /\ sc.eager_timeouts \/ \A side \in Sides : net[side] = {}
    /\ peers["client"].sender.syn_sent
    /\ \A side \in Sides : peers[side].sender.timer.retransmissions < MaxBackoff
    /\ \E side \in Sides :
        /\ Active(peers[side])
        /\ peers[side].sender.timer.running \/ peers[side].since_last_receipt < LingerTime

(* One tick of the clock for each side that is still active. *)
Elapse ==
    LET results == [side \in Sides |->
                       IF Active(peers[side]) THEN PeerTick(peers[side], 1)
                       ELSE Result(peers[side], <<>>)]
    IN  /\ MayElapse
        /\ peers' = [side \in Sides |-> results[side].peer]
        /\ net' = [side \in Sides |-> Carry(net[side], results[Other(side)].messages)]
        /\ UNCHANGED <<sc, listening, lost, repeated, faults>>

(* The error callback of rule 2. *)
AppFail(side) ==
    /\ faults < sc.fault
    /\ Established(side)
    /\ peers' = [peers EXCEPT ![side].sender.input = SetError(@)]
    /\ faults' = faults + 1
    /\ UNCHANGED <<sc, net, listening, lost, repeated>>

(* A reset that neither peer sent: from the other host's kernel, say. *)
Reset == TCPMessage(SenderMessage(0, FALSE, <<>>, FALSE, TRUE), ReceiverMessage(NoSeqno, 0, TRUE))

ForeignReset(side) ==
    /\ faults < sc.fault
    /\ Arrive(side, Reset, net)
    /\ faults' = faults + 1
    /\ UNCHANGED <<sc, lost, repeated>>

Next ==
    \/ Connect
    \/ \E side \in Sides :
        \/ \E n \in 0 .. sc.bytes[side], eof \in BOOLEAN : AppWrite(side, n, eof)
        \/ \E n \in 1 .. sc.recv_capacity : AppRead(side, n)
        \/ \E m \in net[side] : Deliver(side, m)
        \/ \E m \in net[side] : DeliverCopy(side, m)
        \/ \E m \in net[side] : Lose(side, m)
        \/ AppFail(side)
        \/ ForeignReset(side)
    \/ Elapse

Spec == Init /\ [][Next]_vars

-----------------------------------------------------------------------------
(* Safety *)

Broken(p) == AnyErrors(p)

ToServer == INSTANCE ReliableStream WITH
    written <- Outbound(peers["client"]).pushed,
    finished <- Outbound(peers["client"]).closed,
    delivered <- PeerInbound(peers["server"]).pushed,
    ended <- PeerInbound(peers["server"]).closed,
    broken <- PeerInbound(peers["server"]).error

ToClient == INSTANCE ReliableStream WITH
    written <- Outbound(peers["server"]).pushed,
    finished <- Outbound(peers["server"]).closed,
    delivered <- PeerInbound(peers["client"]).pushed,
    ended <- PeerInbound(peers["client"]).closed,
    broken <- PeerInbound(peers["client"]).error

(* Each direction of the connection is a reliable byte stream, whatever    *)
(* the network does: ByteStream, TCPSender, the wire, TCPReceiver and      *)
(* Reassembler put together deliver what was written, in order and once,   *)
(* and end it where the writer did.                                        *)
BothDirectionsAreReliable == ToServer!Spec /\ ToClient!Spec

(* The two ends agree on what has arrived: a sender drops a segment from   *)
(* its queue only when the receiver has all of it, and a receiver has      *)
(* nothing that was not sent (tcp_sender.cc:91-106, tcp_receiver.cc:44).   *)
EndsAgree ==
    \A side \in Sides :
        LET s == peers[side].sender
            rcv == peers[Other(side)].receiver
            has == 1 + BytesPushed(Inbound(rcv)) + Bit(Inbound(rcv).closed)
        IN  ~Broken(peers[side]) /\ ~Broken(peers[Other(side)]) /\ rcv.isn # NoSeqno =>
                /\ AbsAck(s) <= has
                /\ has <= s.next_seqno

(* A peer leaves an unbroken connection only when the other end has every  *)
(* byte it wrote and the end of the stream, and it has everything the      *)
(* other end sent.  One that stays and has something to say has a segment  *)
(* in flight, and so a timer running: it will speak again even if nobody   *)
(* speaks to it (tcp_peer.hh:39-48, 74, tcp_sender.cc:63-66).              *)
NobodyLeavesEarly ==
    \A side \in Sides :
        LET p == peers[side]
            q == peers[Other(side)]
            unsaid == \/ BytesBuffered(Outbound(p)) > 0
                      \/ Outbound(p).closed /\ ~p.sender.fin_sent
        IN  /\ ~Active(p) /\ ~Broken(p) /\ ~Broken(q) =>
                   /\ PeerInbound(q).closed /\ PeerInbound(q).pushed = Outbound(p).pushed
                   /\ PeerInbound(p).closed /\ PeerInbound(p).pushed = Outbound(q).pushed
            /\ Active(p) /\ p.sender.syn_sent /\ unsaid => p.sender.timer.running

(* Without a failure or a foreign reset, no connection breaks: loss,       *)
(* repetition, reordering and early timeouts never make an end send RST.   *)
NoSpuriousReset ==
    faults = 0 => \A side \in Sides :
        /\ ~Broken(peers[side])
        /\ \A m \in net[side] : ~m.sender.RST

(* A peer that knows of an error takes no further part, whatever arrives   *)
(* and however much time passes: nothing is accepted and nothing at all is *)
(* sent, neither new segments nor retransmissions nor replies, so resets   *)
(* are not answered with resets for ever (tcp_peer.hh:41,47,52,75-76; the  *)
(* interest of rule 2; tcp_minnow_socket_impl.hh:37-42).                   *)
BrokenPeerIsSilent ==
    [][\A side \in Sides :
          Broken(peers[side]) =>
              /\ net'[Other(side)] \subseteq net[Other(side)]
              /\ peers'[side].sender.next_seqno = peers[side].sender.next_seqno
              /\ peers'[side].sender.outstanding = peers[side].sender.outstanding
              /\ PeerInbound(peers'[side]).pushed = PeerInbound(peers[side]).pushed]_vars
=============================================================================
