---------------------------- MODULE TCPMessages -----------------------------
(***************************************************************************)
(* The messages the two halves of a connection exchange                    *)
(* (util/tcp_sender_message.hh, util/tcp_receiver_message.hh) and what a   *)
(* trip over the wire does to them (util/tcp_segment.cc).                  *)
(***************************************************************************)
EXTENDS Naturals, Integers, Sequences

CONSTANT WinMax     \* the largest window a segment can announce: UINT16_MAX

(* The empty optional<Wrap32>. *)
NoSeqno == -1

(* TCPSenderMessage *)
SenderMessage(seqno, SYN, payload, FIN, RST) ==
    [seqno |-> seqno, SYN |-> SYN, payload |-> payload, FIN |-> FIN, RST |-> RST]

(* TCPSenderMessage::sequence_length *)
SequenceLength(m) ==
    (IF m.SYN THEN 1 ELSE 0) + Len(m.payload) + (IF m.FIN THEN 1 ELSE 0)

(* TCPReceiverMessage *)
ReceiverMessage(ackno, window_size, RST) ==
    [ackno |-> ackno, window_size |-> window_size, RST |-> RST]

(* TCPMessage: one segment carries a message of each kind. *)
TCPMessage(sender, receiver) == [sender |-> sender, receiver |-> receiver]

(* TCPSegment::serialize, then parse at the other end.  The header has one *)
(* RST flag for both halves: either sets it, and both find it set.  A      *)
(* missing ackno is sent as 0 without the ACK flag and is missing again.   *)
OverTheWire(m) ==
    LET reset == m.sender.RST \/ m.receiver.RST
    IN  [m EXCEPT !.sender.RST = reset, !.receiver.RST = reset]
=============================================================================
