------------------------- MODULE ByteStreamSegments -------------------------
(***************************************************************************)
(* The representation of a ByteStream: src/byte_stream.{hh,cc} and the     *)
(* read() loop of src/byte_stream_helpers.cc.  Pushed strings are chained  *)
(* in a deque, a partial read leaves an offset into the first one, and two *)
(* counters that are kept separately say how much is buffered.             *)
(***************************************************************************)
EXTENDS Integers, Sequences

CONSTANTS Byte, Capacity, MaxPush, MaxTotal

ASSUME CapacityAssumption == Capacity \in Nat /\ MaxPush \in Nat /\ MaxTotal \in Nat

VARIABLES
    segments_, skip_in_front_, bytes_pushed_, bytes_popped_, error_, closed_,
    consumed    \* history: the bytes handed to the reader, in order

vars == <<segments_, skip_in_front_, bytes_pushed_, bytes_popped_, error_, closed_, consumed>>

Init ==
    /\ segments_ = <<>>
    /\ skip_in_front_ = 0
    /\ bytes_pushed_ = 0
    /\ bytes_popped_ = 0
    /\ error_ = FALSE
    /\ closed_ = FALSE
    /\ consumed = <<>>

Chunk == UNION {[1 .. k -> Byte] : k \in 0 .. MaxPush}

AvailableCapacity == Capacity - (bytes_pushed_ - bytes_popped_)
BytesBuffered == bytes_pushed_ - bytes_popped_

-----------------------------------------------------------------------------
(* A plausible slip: the early return of push() is lost. *)
PushKeepingEmpty(data) ==
    LET fitting == IF Len(data) > AvailableCapacity
                   THEN SubSeq(data, 1, AvailableCapacity) ELSE data
    IN  /\ bytes_pushed_' = bytes_pushed_ + Len(fitting)
        /\ segments_' = Append(segments_, fitting)

(* Writer::push.  Nothing is chained for an empty string or a full buffer. *)
WriterPush(data) ==
    LET avail == AvailableCapacity
        fitting == IF Len(data) > avail THEN SubSeq(data, 1, avail) ELSE data
    IN  IF data = <<>> \/ avail = 0
        THEN UNCHANGED <<segments_, bytes_pushed_>>
        ELSE /\ bytes_pushed_' = bytes_pushed_ + Len(fitting)
             /\ segments_' = Append(segments_, fitting)

(* Reader::peek: the rest of the front string. *)
Peek(segs, skip) ==
    IF segs = <<>> THEN <<>> ELSE SubSeq(Head(segs), skip + 1, Len(Head(segs)))

(* A plausible slip: skip_in_front_ survives the string it belongs to. *)
PopTurnKeepingSkip(d) ==
    LET front_remaining == Len(Head(d.segments)) - d.skip
    IN  IF d.len = 0 \/ d.segments = <<>> THEN d
        ELSE IF d.len >= front_remaining
        THEN [segments |-> Tail(d.segments), skip |-> d.skip, len |-> d.len - front_remaining]
        ELSE [segments |-> d.segments, skip |-> d.skip + d.len, len |-> 0]

(* One turn of the loop of Reader::pop with len bytes to go: the front     *)
(* string is dropped, or part of it.  With none to go nothing changes.     *)
PopTurn(d) ==
    LET front_remaining == Len(Head(d.segments)) - d.skip
    IN  IF d.len = 0 THEN d
        ELSE IF d.len >= front_remaining
        THEN [segments |-> Tail(d.segments), skip |-> 0, len |-> d.len - front_remaining]
        ELSE [segments |-> d.segments, skip |-> d.skip + d.len, len |-> 0]

(* A turn pops a string or some bytes, so the loop has ended by then. *)
PopLoop(segs, skip, len) ==
    LET turns == Len(segs) + len
        turn[k \in 0 .. turns] == IF k = 0 THEN [segments |-> segs, skip |-> skip, len |-> len]
                                  ELSE PopTurn(turn[k - 1])
    IN  turn[turns]

(* One turn of the loop of read(): what peek() shows, up to len bytes, is  *)
(* collected and popped.                                                   *)
ReadTurn(d) ==
    LET view == Peek(d.segments, d.skip)
        part == IF Len(view) > d.len THEN SubSeq(view, 1, d.len) ELSE view
        rest == PopLoop(d.segments, d.skip, Len(part))
    IN  IF d.len = 0 THEN d
        ELSE [segments |-> rest.segments, skip |-> rest.skip,
              len |-> d.len - Len(part), out |-> d.out \o part]

ReadLoop(segs, skip, len) ==
    LET turn[k \in 0 .. len] ==
            IF k = 0 THEN [segments |-> segs, skip |-> skip, len |-> len, out |-> <<>>]
            ELSE ReadTurn(turn[k - 1])
    IN  turn[len].out

-----------------------------------------------------------------------------
Push(data) ==
    /\ bytes_pushed_ + Len(data) <= MaxTotal
    /\ WriterPush(data)
    /\ UNCHANGED <<skip_in_front_, bytes_popped_, error_, closed_, consumed>>

Close ==
    /\ closed_' = TRUE
    /\ UNCHANGED <<segments_, skip_in_front_, bytes_pushed_, bytes_popped_, error_, consumed>>

Fail ==
    /\ error_' = TRUE
    /\ UNCHANGED <<segments_, skip_in_front_, bytes_pushed_, bytes_popped_, closed_, consumed>>

(* Reader::pop of bytes that the reader looked at first. *)
Pop(len) ==
    LET k == IF len < BytesBuffered THEN len ELSE BytesBuffered
        left == PopLoop(segments_, skip_in_front_, k)
    IN  /\ bytes_popped_' = bytes_popped_ + k
        /\ segments_' = left.segments
        /\ skip_in_front_' = left.skip
        /\ consumed' = consumed \o ReadLoop(segments_, skip_in_front_, k)
        /\ UNCHANGED <<bytes_pushed_, error_, closed_>>

Next ==
    \/ \E data \in Chunk : Push(data)
    \/ Close
    \/ Fail
    \/ \E len \in 0 .. (Capacity + 1) : Pop(len)

Spec == Init /\ [][Next]_vars

-----------------------------------------------------------------------------
(* The chained strings, end to end. *)
Chained(segs) ==
    LET upto[k \in 0 .. Len(segs)] == IF k = 0 THEN <<>> ELSE upto[k - 1] \o segs[k]
    IN  upto[Len(segs)]

(* The bytes that are still chained, without the part already read. *)
Buffered ==
    SubSeq(Chained(segments_), skip_in_front_ + 1, Len(Chained(segments_)))

Abstract == INSTANCE ByteStreamSpec WITH
    stream <- [capacity |-> Capacity, pushed |-> consumed \o Buffered,
               popped |-> bytes_popped_, closed |-> closed_, error |-> error_]

(* The deque, the offset and the two counters together behave as one       *)
(* bounded FIFO: no byte is lost, duplicated or reordered by any sequence  *)
(* of partial reads and cut-off writes (byte_stream.cc:5-62).              *)
ImplementsByteStream == Abstract!Spec

(* A reader that sees buffered bytes gets some of them from peek().  The   *)
(* loops of tcp_sender.cc:31-35 and byte_stream_helpers.cc:11-19 run until *)
(* the buffer is empty: an empty string at the front would make the first  *)
(* spin forever and the second throw.                                      *)
PeekMakesProgress == BytesBuffered > 0 => Peek(segments_, skip_in_front_) # <<>>
=============================================================================
