--------------------------- MODULE TCPSenderLoops ---------------------------
(***************************************************************************)
(* The loops of src/tcp_sender.cc as they are written there, one           *)
(* send_segment() or one pop_front() at a time, and the property that the  *)
(* closed forms of TCPSender agree with them in every reachable state.     *)
(***************************************************************************)
EXTENDS TCPSenderSpec

(* A sender and what it has transmitted so far in this call. *)
Out(s, segments) == [sender |-> s, segments |-> segments]

(* A plausible slip: the payload of a segment is not limited. *)
SendSegmentUnlimited(out, window_remaining) ==
    LET s == out.sender
        SYN == ~s.syn_sent
        payload_room == window_remaining - Bit(SYN)
        n == Least(payload_room, BytesBuffered(s.input))
        input == ReaderPop(s.input, n)
        FIN == /\ ~s.fin_sent
               /\ input.closed
               /\ BytesBuffered(input) = 0
               /\ Bit(SYN) + n < window_remaining
        length == Bit(SYN) + n + Bit(FIN)
        m == SenderMessage(Wrap(s.next_seqno, s.isn), SYN, NextBytes(s.input, n), FIN, s.input.error)
    IN  IF window_remaining = 0 \/ length = 0 THEN out
        ELSE Out([s EXCEPT !.input = input,
                           !.next_seqno = @ + length,
                           !.bytes_in_flight = @ + length,
                           !.syn_sent = @ \/ SYN,
                           !.fin_sent = @ \/ FIN,
                           !.outstanding = Append(@, m),
                           !.timer = IF @.running THEN @ ELSE TimerStart(@)],
                 Append(out.segments, m))

(* TCPSender::send_segment; the result is `out' itself when it sends nothing. *)
SendSegment(out, window_remaining) ==
    LET s == out.sender
        SYN == ~s.syn_sent
        payload_room == Least(window_remaining - Bit(SYN), MaxPayload)
        n == Least(payload_room, BytesBuffered(s.input))
        input == ReaderPop(s.input, n)
        FIN == /\ ~s.fin_sent
               /\ input.closed
               /\ BytesBuffered(input) = 0
               /\ Bit(SYN) + n < window_remaining
        length == Bit(SYN) + n + Bit(FIN)
        m == SenderMessage(Wrap(s.next_seqno, s.isn), SYN, NextBytes(s.input, n), FIN, s.input.error)
    IN  IF window_remaining = 0 \/ length = 0 THEN out
        ELSE Out([s EXCEPT !.input = input,
                           !.next_seqno = @ + length,
                           !.bytes_in_flight = @ + length,
                           !.syn_sent = @ \/ SYN,
                           !.fin_sent = @ \/ FIN,
                           !.outstanding = Append(@, m),
                           !.timer = IF @.running THEN @ ELSE TimerStart(@)],
                 Append(out.segments, m))

(* One turn of the loop of TCPSender::push; a turn that sends nothing ends *)
(* it, here by changing nothing from then on.                              *)
PushTurn(out, right_edge) ==
    IF out.sender.next_seqno < right_edge /\ ~out.sender.fin_sent
    THEN SendSegment(out, right_edge - out.sender.next_seqno)
    ELSE out

(* Every segment uses a sequence number, so there are no more turns than   *)
(* there are numbers to use.                                               *)
PushLoop(s) ==
    LET turns == Budget(s)
        turn[k \in 0 .. turns] == IF k = 0 THEN Out(s, <<>>)
                                  ELSE PushTurn(turn[k - 1], RightEdge(s))
    IN  turn[turns]

(* One turn of the loop of TCPSender::receive. *)
AckTurn(pop, abs_ackno) ==
    LET s == pop.sender
    IN  IF s.outstanding = <<>> \/ SegmentEnd(s, 1) > abs_ackno THEN pop
        ELSE [sender |-> [s EXCEPT !.bytes_in_flight = @ - SequenceLength(Head(s.outstanding)),
                                   !.outstanding = Tail(@)],
              acked_anything |-> TRUE]

AckLoop(s, abs_ackno) ==
    LET turns == Len(s.outstanding)
        turn[k \in 0 .. turns] == IF k = 0 THEN [sender |-> s, acked_anything |-> FALSE]
                                  ELSE AckTurn(turn[k - 1], abs_ackno)
    IN  turn[turns]

(* The loop and what follows it: the timer starts afresh or stops. *)
AckOneByOne(s, abs_ackno) ==
    LET popped == AckLoop(s, abs_ackno)
    IN  IF ~popped.acked_anything THEN popped.sender
        ELSE [popped.sender EXCEPT
                !.timer = IF popped.sender.outstanding = <<>> THEN TimerStop(TimerResetBackoff(@))
                          ELSE TimerStart(TimerResetBackoff(@))]

-----------------------------------------------------------------------------
(* push() segment by segment (tcp_sender.cc:13-73) transmits the segments  *)
(* of the closed form, in that order, and leaves the same sender behind.   *)
PushAgrees == PushLoop(snd) = Out(SenderPush(snd), PushSegments(snd))

(* Popping acknowledged segments one by one (tcp_sender.cc:96-115) leaves  *)
(* the sender of the closed form, for every acknowledgement.               *)
AckAgrees ==
    \A abs_ackno \in 0 .. snd.next_seqno :
        AckOneByOne(snd, abs_ackno) = PopAcked(snd, AckedCount(snd, abs_ackno))

(* In every reachable state, the loops of the code compute what the closed *)
(* forms say that the other modules and the proofs are about               *)
(* (tcp_sender.cc:13-73, 96-115).                                          *)
LoopsAgree == PushAgrees /\ AckAgrees
=============================================================================
