----------------------------- MODULE TCPSender ------------------------------
(***************************************************************************)
(* The sending half of a connection: src/tcp_sender.{hh,cc}.               *)
(*                                                                         *)
(* push() and receive() are loops in the code.  Here their results are     *)
(* given in closed form, so that they can be reasoned about; TCPSenderLoops*)
(* has the loops themselves, and TCPSenderProofs shows that they agree in  *)
(* every reachable state.                                                  *)
(***************************************************************************)
EXTENDS Wrap32, ByteStream, TCPMessages, RetransmissionTimer

CONSTANT MaxPayload     \* TCPConfig::MAX_PAYLOAD_SIZE

(* The window field is small against the sequence space. *)
ASSUME WindowAssumption ==
    /\ WinMax \in Nat \ {0} /\ 2 * WinMax < SeqMod
    /\ MaxPayload \in Nat \ {0}

Least(a, b) == IF a < b THEN a ELSE b
Bit(b) == IF b THEN 1 ELSE 0

(* TCPSender::TCPSender and the member initialisers *)
NewSender(capacity, isn, initial_RTO) ==
    [input |-> NewStream(capacity), isn |-> isn, timer |-> NewTimer(initial_RTO),
     window_size |-> 1, zero_window |-> FALSE,
     next_seqno |-> 0, bytes_in_flight |-> 0, syn_sent |-> FALSE, fin_sent |-> FALSE,
     outstanding |-> <<>>]

(* A plausible slip: the end of the stream is taken for an error. *)
MakeEmptyMessageWhenClosed(s) ==
    SenderMessage(Wrap(s.next_seqno, s.isn), FALSE, <<>>, FALSE, s.input.closed)

(* TCPSender::make_empty_message *)
MakeEmptyMessage(s) ==
    SenderMessage(Wrap(s.next_seqno, s.isn), FALSE, <<>>, FALSE, s.input.error)

-----------------------------------------------------------------------------
(* push() *)

AbsAck(s) == s.next_seqno - s.bytes_in_flight

(* A plausible slip: a closed window is not probed. *)
EffectiveWindowUnprobed(s) == s.window_size

(* A closed window is treated as a window of one. *)
EffectiveWindow(s) == IF s.zero_window THEN 1 ELSE s.window_size

RightEdge(s) == AbsAck(s) + EffectiveWindow(s)

(* The sequence numbers the loop of push() may use. *)
Budget(s) == IF s.next_seqno < RightEdge(s) /\ ~s.fin_sent
             THEN RightEdge(s) - s.next_seqno ELSE 0

SendsSyn(s) == Budget(s) > 0 /\ ~s.syn_sent

PayloadToSend(s) == Least(BytesBuffered(s.input), Budget(s) - Bit(SendsSyn(s)))

(* A plausible slip: FIN goes out although the window has no room for it. *)
SendsFinOverWindow(s) ==
    /\ Budget(s) > 0
    /\ s.input.closed
    /\ PayloadToSend(s) = BytesBuffered(s.input)

(* FIN rides on the segment that drains a closed stream if there is room,  *)
(* and otherwise waits for the next push.                                  *)
SendsFin(s) ==
    /\ s.input.closed
    /\ PayloadToSend(s) = BytesBuffered(s.input)
    /\ Bit(SendsSyn(s)) + PayloadToSend(s) < Budget(s)

LengthToSend(s) == Bit(SendsSyn(s)) + PayloadToSend(s) + Bit(SendsFin(s))

(* Full segments and a last one that takes the rest; SYN and FIN ride on   *)
(* the first and the last of them.                                         *)
SegmentsToSend(s) ==
    IF LengthToSend(s) = 0 THEN 0
    ELSE IF PayloadToSend(s) = 0 THEN 1
    ELSE 1 + ((PayloadToSend(s) - 1) \div MaxPayload)

(* The bytes that go out before segment k. *)
PayloadBefore(s, k) == Least((k - 1) * MaxPayload, PayloadToSend(s))

(* A plausible slip: SYN is forgotten in the numbers that follow it. *)
SegmentNumberedFlat(s, k) ==
    SenderMessage(Wrap(s.next_seqno + PayloadBefore(s, k), s.isn),
                  SendsSyn(s) /\ k = 1,
                  SubSeq(s.input.pushed, s.input.popped + PayloadBefore(s, k) + 1,
                                         s.input.popped + PayloadBefore(s, k + 1)),
                  SendsFin(s) /\ k = SegmentsToSend(s),
                  s.input.error)

(* A plausible slip: what is read is not popped between two segments. *)
SegmentRepeating(s, k) ==
    SenderMessage(Wrap(s.next_seqno + (IF k = 1 THEN 0 ELSE Bit(SendsSyn(s))) + PayloadBefore(s, k),
                       s.isn),
                  SendsSyn(s) /\ k = 1,
                  SubSeq(s.input.pushed, s.input.popped + 1,
                         s.input.popped + PayloadBefore(s, k + 1) - PayloadBefore(s, k)),
                  SendsFin(s) /\ k = SegmentsToSend(s),
                  s.input.error)

(* The k-th segment built by send_segment() in this push. *)
SegmentToSend(s, k) ==
    SenderMessage(Wrap(s.next_seqno + (IF k = 1 THEN 0 ELSE Bit(SendsSyn(s))) + PayloadBefore(s, k),
                       s.isn),
                  SendsSyn(s) /\ k = 1,
                  SubSeq(s.input.pushed, s.input.popped + PayloadBefore(s, k) + 1,
                                         s.input.popped + PayloadBefore(s, k + 1)),
                  SendsFin(s) /\ k = SegmentsToSend(s),
                  s.input.error)

(* What push() transmits, in order. *)
PushSegments(s) == [k \in 1 .. SegmentsToSend(s) |-> SegmentToSend(s, k)]

(* The sender after push(). *)
SenderPush(s) ==
    IF LengthToSend(s) = 0 THEN s
    ELSE [s EXCEPT
            !.input = ReaderPop(@, PayloadToSend(s)),
            !.next_seqno = @ + LengthToSend(s),
            !.bytes_in_flight = @ + LengthToSend(s),
            !.syn_sent = TRUE,
            !.fin_sent = @ \/ SendsFin(s),
            !.outstanding = @ \o PushSegments(s),
            !.timer = IF @.running THEN @ ELSE TimerStart(@)]

-----------------------------------------------------------------------------
(* receive() *)

SegmentStart(s, k) == Unwrap(s.outstanding[k].seqno, s.isn, s.next_seqno)
SegmentEnd(s, k) == SegmentStart(s, k) + SequenceLength(s.outstanding[k])

(* How many segments the loop of receive() pops: those fully acknowledged. *)
AckedCount(s, abs_ackno) ==
    CHOOSE n \in 0 .. Len(s.outstanding) :
        /\ \A k \in 1 .. n : SegmentEnd(s, k) <= abs_ackno
        /\ n < Len(s.outstanding) => SegmentEnd(s, n + 1) > abs_ackno

(* A plausible slip: the length is counted from the start of the stream. *)
AckedLengthFromZero(s, n) == IF n = 0 THEN 0 ELSE SegmentEnd(s, n)

(* Their sequence lengths add up to the distance between their ends, as    *)
(* outstanding segments follow each other without a gap.                   *)
AckedLength(s, n) == IF n = 0 THEN 0 ELSE SegmentEnd(s, n) - SegmentStart(s, 1)

(* A plausible slip: the timer is left running when nothing is outstanding. *)
PopAckedKeepTimer(s, n) ==
    IF n = 0 THEN s
    ELSE [s EXCEPT
            !.outstanding = SubSeq(@, n + 1, Len(@)),
            !.bytes_in_flight = @ - AckedLength(s, n),
            !.timer = TimerStart(TimerResetBackoff(@))]

PopAcked(s, n) ==
    IF n = 0 THEN s
    ELSE [s EXCEPT
            !.outstanding = SubSeq(@, n + 1, Len(@)),
            !.bytes_in_flight = @ - AckedLength(s, n),
            !.timer = IF n = Len(s.outstanding) THEN TimerStop(TimerResetBackoff(@))
                      ELSE TimerStart(TimerResetBackoff(@))]

(* TCPSender::receive on a message with the RST flag. *)
SenderReset(s) ==
    [s EXCEPT !.outstanding = <<>>, !.bytes_in_flight = 0,
              !.timer = TimerStop(@), !.input = SetError(@)]

(* TCPSender::receive.  The window is taken over first, also from a        *)
(* message whose ackno is missing or acknowledges what was never sent.     *)
SenderReceive(s, m) ==
    LET updated == [s EXCEPT !.zero_window = (m.window_size = 0), !.window_size = m.window_size]
        abs_ackno == Unwrap(m.ackno, s.isn, s.next_seqno)
    IN  IF m.RST THEN SenderReset(s)
        ELSE IF m.ackno = NoSeqno \/ abs_ackno > s.next_seqno THEN updated
        ELSE PopAcked(updated, AckedCount(updated, abs_ackno))

-----------------------------------------------------------------------------
(* tick() *)

Retransmits(s, ms) == TimerIsExpired(TimerTick(s.timer, ms)) /\ s.outstanding # <<>>

(* What tick() transmits: the oldest segment, if the timer has expired. *)
TickSegments(s, ms) == IF Retransmits(s, ms) THEN <<Head(s.outstanding)>> ELSE <<>>

(* A plausible slip: a retransmission is counted as in flight once more. *)
SenderTickCountingAgain(s, ms) ==
    LET t == TimerTick(s.timer, ms)
    IN  IF ~Retransmits(s, ms) THEN [s EXCEPT !.timer = t]
        ELSE [s EXCEPT !.bytes_in_flight = @ + SequenceLength(Head(s.outstanding)),
                       !.timer = TimerStart(TimerRecordRetransmission(t))]

(* The sender after tick(): no backoff while the window is closed. *)
SenderTick(s, ms) ==
    LET t == TimerTick(s.timer, ms)
    IN  IF ~Retransmits(s, ms) THEN [s EXCEPT !.timer = t]
        ELSE [s EXCEPT !.timer = TimerStart(IF s.zero_window THEN t
                                            ELSE TimerRecordRetransmission(t))]

-----------------------------------------------------------------------------
(* Types, and predicates of one sender s between two calls *)

AnyReceiverMessage ==
    [ackno : Seqno \cup {NoSeqno}, window_size : 0 .. WinMax, RST : BOOLEAN]

MessageRecord ==
    [seqno : Seqno, SYN : BOOLEAN, payload : Seq(Nat), FIN : BOOLEAN, RST : BOOLEAN]

InputRecord ==
    [capacity : Nat, pushed : Seq(Nat), popped : Nat, closed : BOOLEAN, error : BOOLEAN]

TimerRecord ==
    [initial_RTO : Nat, timeout : Nat, elapsed : Nat, running : BOOLEAN, retransmissions : Nat]

SenderRecord ==
    [input : InputRecord, isn : Seqno, timer : TimerRecord,
     window_size : 0 .. WinMax, zero_window : BOOLEAN,
     next_seqno : Nat, bytes_in_flight : Nat, syn_sent : BOOLEAN, fin_sent : BOOLEAN,
     outstanding : Seq(MessageRecord)]

(* The queue covers the sequence numbers in flight, end to end. *)
TilesFlight(s) ==
    LET n == Len(s.outstanding)
    IN  /\ s.bytes_in_flight <= s.next_seqno
        /\ n = 0 => s.bytes_in_flight = 0
        /\ n > 0 => SegmentStart(s, 1) = AbsAck(s) /\ SegmentEnd(s, n) = s.next_seqno
        /\ \A k \in 1 .. n :
              /\ SequenceLength(s.outstanding[k]) > 0
              /\ s.outstanding[k].seqno = Wrap(SegmentStart(s, k), s.isn)
              /\ AbsAck(s) <= SegmentStart(s, k) /\ SegmentEnd(s, k) <= s.next_seqno
        /\ \A k \in 1 .. (n - 1) : SegmentEnd(s, k) = SegmentStart(s, k + 1)
        /\ \A j, k \in 1 .. n : j < k => SegmentEnd(s, j) <= SegmentStart(s, k)

TimerRunsWithFlight(s) == s.timer.running <=> s.outstanding # <<>>

(* The sequence numbers used are SYN, the bytes popped and FIN, and more   *)
(* would fit into 64 bits.                                                 *)
Accounted(s) ==
    /\ s.next_seqno = Bit(s.syn_sent) + s.input.popped + Bit(s.fin_sent)
    /\ s.input.popped <= Len(s.input.pushed)
    /\ Len(s.input.pushed) + 2 + WinMax < AbsMod
    /\ ~s.syn_sent => s.next_seqno = 0
    /\ s.fin_sent => s.input.closed /\ BytesBuffered(s.input) = 0

(* The segments in the queue carry the bytes of the stream at their        *)
(* numbers; SYN is at 0, and FIN, once sent, at the end.                   *)
CarriesStream(s) ==
    \A k \in 1 .. Len(s.outstanding) :
        LET m == s.outstanding[k]
            first == SegmentStart(s, k) + Bit(m.SYN)    \* 1-based
        IN  /\ m.SYN <=> SegmentStart(s, k) = 0
            /\ m.payload = SubSeq(s.input.pushed, first, first + Len(m.payload) - 1)
            /\ m.FIN <=> s.fin_sent /\ k = Len(s.outstanding)

(* Something is left for this sender to say. *)
Unsent(s) ==
    \/ ~s.syn_sent
    \/ BytesBuffered(s.input) > 0
    \/ s.input.closed /\ ~s.fin_sent
=============================================================================
