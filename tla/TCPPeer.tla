------------------------------ MODULE TCPPeer -------------------------------
(***************************************************************************)
(* One end of a connection: util/tcp_peer.hh.  An operation yields the     *)
(* peer it leaves behind and the messages it transmits, in order.          *)
(*                                                                         *)
(* active() compares two ever-growing clocks; only their difference, the   *)
(* time since the last receipt, matters, and it matters only up to the     *)
(* linger time of 10 * rt_timeout.                                         *)
(***************************************************************************)
EXTENDS TCPSender, TCPReceiver

CONSTANT LingerTime     \* 10 * cfg_.rt_timeout

(* TCPPeer::TCPPeer *)
NewPeer(isn, send_capacity, recv_capacity, rt_timeout) ==
    [sender |-> NewSender(send_capacity, isn, rt_timeout),
     receiver |-> NewReceiver(recv_capacity),
     need_send |-> FALSE,
     linger_after_streams_finish |-> TRUE,
     since_last_receipt |-> 0]

Outbound(p) == p.sender.input
PeerInbound(p) == Inbound(p.receiver)

Result(p, messages) == [peer |-> p, messages |-> messages]

-----------------------------------------------------------------------------
AnyErrors(p) == PeerInbound(p).error \/ Outbound(p).error
SenderActive(p) == p.sender.bytes_in_flight > 0 \/ ~IsFinished(Outbound(p))
ReceiverActive(p) == ~PeerInbound(p).closed
Lingering(p) == p.linger_after_streams_finish /\ p.since_last_receipt < LingerTime

(* A plausible slip: the peer does not wait for its own FIN to be acknowledged. *)
ActiveUntilDrained(p) ==
    /\ ~AnyErrors(p)
    /\ ~IsFinished(Outbound(p)) \/ ReceiverActive(p) \/ Lingering(p)

(* A plausible slip: an error does not end the connection. *)
ActiveDespiteErrors(p) == SenderActive(p) \/ ReceiverActive(p) \/ Lingering(p)

(* TCPPeer::active *)
Active(p) == ~AnyErrors(p) /\ (SenderActive(p) \/ ReceiverActive(p) \/ Lingering(p))

-----------------------------------------------------------------------------
(* TCPPeer::send on each of `segments': every one takes along the state of *)
(* the receiving half, and with the first of them the reply is made.       *)
Transmit(p, segments) ==
    Result([p EXCEPT !.need_send = @ /\ segments = <<>>],
           [k \in DOMAIN segments |-> TCPMessage(segments[k], ReceiverSend(p.receiver))])

(* TCPPeer::push *)
PeerPush(p) == Transmit([p EXCEPT !.sender = SenderPush(@)], PushSegments(p.sender))

(* TCPPeer::tick *)
PeerTick(p, t) ==
    Transmit([p EXCEPT !.sender = SenderTick(@, t),
                       !.since_last_receipt = Least(@ + t, LingerTime)],
             TickSegments(p.sender, t))

(* Does the message have to be answered: it uses sequence numbers, or is a *)
(* keep-alive, one below the next number expected.                         *)
CallsForReply(p, m) ==
    LET our_ackno == ReceiverSend(p.receiver).ackno
    IN  \/ SequenceLength(m.sender) > 0
        \/ our_ackno # NoSeqno /\ Plus(m.sender.seqno, 1) = our_ackno

(* The reply, after what push() had to send. *)
Reply(result) ==
    IF result.peer.need_send
    THEN LET reply == Transmit(result.peer, <<MakeEmptyMessage(result.peer.sender)>>)
         IN  Result(reply.peer, result.messages \o reply.messages)
    ELSE result

(* The inbound stream finished first: no need to linger. *)
DropLinger(p) ==
    IF PeerInbound(p).closed /\ ~IsFinished(Outbound(p))
    THEN [p EXCEPT !.linger_after_streams_finish = FALSE]
    ELSE p

(* TCPPeer::receive *)
PeerReceive(p, m) ==
    IF ~Active(p) THEN Result(p, <<>>)
    ELSE LET received == [p EXCEPT
                  !.since_last_receipt = 0,
                  !.need_send = @ \/ CallsForReply(p, m),
                  !.receiver = ReceiverReceive(@, m.sender),
                  !.sender = SenderReceive(@, m.receiver)]
             result == Reply(PeerPush(received))
         IN  Result(DropLinger(result.peer), result.messages)
=============================================================================
