-------------------------- MODULE TCPReceiverSpec ---------------------------
(***************************************************************************)
(* A TCPReceiver under every arrival a correct sender and an unreliable    *)
(* network can produce: segments of one stream cut in any way, in any      *)
(* order, repeated, some before the SYN; keep-alives; a reset; and an      *)
(* application that reads when it likes.                                   *)
(***************************************************************************)
EXTENDS TCPReceiver, InboundStream

CONSTANT PeerISN    \* the sender's initial sequence number

(* Everything that may be in flight fits into half the sequence space (in  *)
(* the code: a window of 2^16 against 2^31), and absolute numbers do not   *)
(* run out.                                                                *)
ASSUME ReceiverAssumption ==
    /\ Len(Source) + 2 < AbsMod
    /\ PeerISN \in Seqno
    /\ 2 * (Capacity + 2) < SeqMod
    /\ WinMax \in Nat

VARIABLE rcv

Init == rcv = NewReceiver(Capacity)

(* The segment that starts at absolute sequence number abs.  FIN is set    *)
(* only on a segment that reaches the end of the stream.                   *)
Segment(abs, len, FIN) ==
    SenderMessage(Wrap(abs, PeerISN), abs = 0,
                  SubSeq(Source, (IF abs = 0 THEN 1 ELSE abs), (IF abs = 0 THEN len ELSE abs + len - 1)),
                  FIN, FALSE)

IsSegment(abs, len, FIN) ==
    LET first == IF abs = 0 THEN 0 ELSE abs - 1
    IN  first + len <= Len(Source) /\ (FIN => first + len = Len(Source))

(* Less than half the sequence space apart. *)
Near(m, n) == 2 * Distance(m, n) < SeqMod

(* No segment survives 2^31 bytes of traffic, or is sent so far ahead. *)
ArriveSegment(abs, len, FIN) ==
    /\ IsSegment(abs, len, FIN) /\ Near(abs, BytesPushed(Inbound(rcv)))
    /\ rcv' = ReceiverReceive(rcv, Segment(abs, len, FIN))

(* A bare segment one below the next expected number (tcp_peer.hh:62-65);  *)
(* right after the SYN that is the ISN itself, without SYN.                *)
ArriveKeepAlive ==
    /\ rcv.isn # NoSeqno
    /\ rcv' = ReceiverReceive(rcv, SenderMessage(Wrap(AckedThrough(rcv) - 1, PeerISN),
                                                 FALSE, <<>>, FALSE, FALSE))

ArriveReset ==
    /\ ~Inbound(rcv).error
    /\ rcv' = ReceiverReceive(rcv, SenderMessage(PeerISN, FALSE, <<>>, FALSE, TRUE))

(* The owner's thread drains the inbound stream (reader().pop). *)
Read(len) ==
    /\ len <= BytesBuffered(Inbound(rcv))
    /\ rcv' = [rcv EXCEPT !.reassembler = ReadOutput(@, len)]

(* After a reset TCPPeer hands the receiver nothing more. *)
Next ==
    \/ /\ ~Inbound(rcv).error
       /\ \E abs \in 0 .. (Len(Source) + 1), len \in 0 .. MaxSeg, FIN \in BOOLEAN :
              ArriveSegment(abs, len, FIN)
    \/ ~Inbound(rcv).error /\ ArriveKeepAlive
    \/ ArriveReset
    \/ \E len \in 1 .. Capacity : Read(len)

Spec == Init /\ [][Next]_rcv

-----------------------------------------------------------------------------
(* What the inbound stream holds is a prefix of what was written, it ends  *)
(* only where the writer ended it, and the ackno that a sender unwraps     *)
(* near its own next sequence number names exactly that, across the wrap;  *)
(* before the SYN there is neither (tcp_receiver.cc:7-29, 44-45).          *)
AcknoIsExact ==
    LET got == Inbound(rcv).pushed
        ackno == ReceiverSend(rcv).ackno
    IN  /\ Len(got) <= Len(Source) /\ got = SubSeq(Source, 1, Len(got))
        /\ (Inbound(rcv).closed /\ ~Inbound(rcv).error) => got = Source
        /\ rcv.isn = NoSeqno => got = <<>>
        /\ ackno # NoSeqno =>
               \A next_seqno \in {n \in 1 .. (Len(Source) + 2) : Near(n, AckedThrough(rcv))} :
                   Unwrap(ackno, PeerISN, next_seqno)
                       = 1 + Len(got) + (IF Inbound(rcv).closed THEN 1 ELSE 0)

(* A segment that begins where the receiver stands and fits into the       *)
(* window it offers is acknowledged to its end, SYN and FIN included,      *)
(* however far the stream has come and however often the numbers wrapped   *)
(* (tcp_receiver.cc:21-28).                                                *)
InOrderIsAcknowledged ==
    LET abs == IF rcv.isn = NoSeqno THEN 0 ELSE AckedThrough(rcv)
    IN  \A len \in 0 .. MaxSeg, FIN \in BOOLEAN :
            /\ ~Inbound(rcv).closed
            /\ IsSegment(abs, len, FIN)
            /\ len <= WindowSize(rcv)
            => LET m == Segment(abs, len, FIN)
               IN  AckedThrough(ReceiverReceive(rcv, m)) >= abs + SequenceLength(m)

(* The right edge of the offered window. *)
OfferedEdge(receiver) == AckedThrough(receiver) + WindowSize(receiver)

(* A window once offered is never taken back: acknowledgement and right    *)
(* edge only grow, whatever arrives or is read (tcp_receiver.cc:34,44).    *)
EdgeNeverShrinks ==
    [][~Inbound(rcv').error =>
          /\ AckedThrough(rcv') >= AckedThrough(rcv)
          /\ OfferedEdge(rcv') >= OfferedEdge(rcv)]_rcv

=============================================================================
