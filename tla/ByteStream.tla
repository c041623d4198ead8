----------------------------- MODULE ByteStream -----------------------------
(***************************************************************************)
(* What a ByteStream (src/byte_stream.{hh,cc}) promises its users, as a    *)
(* record and the operations on it.  The bytes ever pushed are kept as a   *)
(* history, so bytes_pushed_ is its length and the buffered bytes are what *)
(* follows the first `popped' of them.  How the buffer is stored (the      *)
(* deque of strings) is the business of ByteStreamSegments, which is shown *)
(* to implement this module's specification.                               *)
(*                                                                         *)
(* The program never looks at a byte, so any values may stand for bytes.   *)
(***************************************************************************)
EXTENDS Naturals, Sequences

(* The first n elements of seq, or all of them (string::resize / substr). *)
Take(seq, n) == IF n < Len(seq) THEN SubSeq(seq, 1, n) ELSE seq

(* ByteStream::ByteStream *)
NewStream(capacity) ==
    [capacity |-> capacity, pushed |-> <<>>, popped |-> 0, closed |-> FALSE, error |-> FALSE]

StreamOf(capacity, Byte) ==
    [capacity : {capacity}, pushed : Seq(Byte), popped : Nat,
     closed : BOOLEAN, error : BOOLEAN]

BytesPushed(s) == Len(s.pushed)

(* Reader::bytes_buffered *)
BytesBuffered(s) == Len(s.pushed) - s.popped

(* Writer::available_capacity *)
AvailableCapacity(s) == s.capacity - (Len(s.pushed) - s.popped)

(* Reader::is_finished *)
IsFinished(s) == s.closed /\ BytesBuffered(s) = 0

(* Writer::push: what does not fit is cut off; closed_ is not consulted. *)
WriterPush(s, data) == [s EXCEPT !.pushed = @ \o Take(data, AvailableCapacity(s))]

(* Writer::close *)
WriterClose(s) == [s EXCEPT !.closed = TRUE]

(* ByteStream::set_error *)
SetError(s) == [s EXCEPT !.error = TRUE]

(* The next n buffered bytes, as a peek/pop loop collects them. *)
NextBytes(s, n) == SubSeq(s.pushed, s.popped + 1, s.popped + n)

(* Reader::pop: at most what is buffered. *)
ReaderPop(s, len) ==
    [s EXCEPT !.popped = @ + IF len < BytesBuffered(s) THEN len ELSE BytesBuffered(s)]
=============================================================================
