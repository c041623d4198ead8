---------------------------- MODULE TCPReceiver -----------------------------
(***************************************************************************)
(* The receiving half of a connection: src/tcp_receiver.{hh,cc}.           *)
(***************************************************************************)
EXTENDS Wrap32, Reassembler, TCPMessages

(* TCPReceiver::TCPReceiver *)
NewReceiver(capacity) == [reassembler |-> NewReassembler(capacity), isn |-> NoSeqno]

Inbound(rcv) == rcv.reassembler.output

(* The index of the first byte of the payload.  SYN occupies sequence      *)
(* number 0, so other segments are shifted by one; abs_seqno - 1 is taken  *)
(* in uint64_t and wraps for a segment at the ISN that has no SYN.         *)
StreamIndex(m, abs_seqno) == IF m.SYN THEN abs_seqno ELSE (abs_seqno - 1) % AbsMod

(* TCPReceiver::receive *)
ReceiverReceive(rcv, m) ==
    LET isn == IF rcv.isn = NoSeqno THEN m.seqno ELSE rcv.isn
        abs_seqno == Unwrap(m.seqno, isn, BytesPushed(Inbound(rcv)))
    IN  IF m.RST THEN [rcv EXCEPT !.reassembler = Abort(@)]
        ELSE IF rcv.isn = NoSeqno /\ ~m.SYN THEN rcv
        ELSE [isn |-> isn,
              reassembler |-> Insert(rcv.reassembler, StreamIndex(m, abs_seqno), m.payload, m.FIN)]

(* A plausible slip: FIN is never acknowledged. *)
AckedThroughBytes(rcv) == 1 + BytesPushed(Inbound(rcv))

(* A plausible slip: bytes held beyond a gap are acknowledged with the rest. *)
AckedThroughHeld(rcv) ==
    1 + BytesPushed(Inbound(rcv)) + Cardinality(DOMAIN rcv.reassembler.held)
      + (IF Inbound(rcv).closed THEN 1 ELSE 0)

(* The absolute sequence number acknowledged: SYN, the bytes pushed, and   *)
(* FIN once the stream is closed.                                          *)
AckedThrough(rcv) ==
    1 + BytesPushed(Inbound(rcv)) + (IF Inbound(rcv).closed THEN 1 ELSE 0)

(* A plausible slip: bytes held beyond a gap take room from the window. *)
WindowWithoutHeld(rcv) ==
    LET room == AvailableCapacity(Inbound(rcv)) - Cardinality(DOMAIN rcv.reassembler.held)
    IN  IF room < WinMax THEN room ELSE WinMax

WindowSize(rcv) ==
    IF AvailableCapacity(Inbound(rcv)) < WinMax
    THEN AvailableCapacity(Inbound(rcv)) ELSE WinMax

(* TCPReceiver::send *)
ReceiverSend(rcv) ==
    IF Inbound(rcv).error THEN ReceiverMessage(NoSeqno, 0, TRUE)
    ELSE IF rcv.isn = NoSeqno THEN ReceiverMessage(NoSeqno, WindowSize(rcv), FALSE)
    ELSE ReceiverMessage(Wrap(AckedThrough(rcv), rcv.isn), WindowSize(rcv), FALSE)
=============================================================================
