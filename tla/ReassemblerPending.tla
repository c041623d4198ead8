------------------------- MODULE ReassemblerPending -------------------------
(***************************************************************************)
(* The representation the Reassembler uses: src/reassembler.cc, loop by    *)
(* loop.  pending_ is a map from first index to substring; insert() merges *)
(* the new substring with the neighbours it touches before it stores it.   *)
(***************************************************************************)
EXTENDS FiniteSets, FiniteSetsExt, ByteStream, UInt64, InboundStream

ASSUME ReassemblerAssumption == AbsMod \in Nat /\ Len(Source) < AbsMod

VARIABLES
    pending_, end_index_, eof_seen_,
    output_     \* the output ByteStream, by its specification

vars == <<pending_, end_index_, eof_seen_, output_>>

MapInit ==
    /\ pending_ = [i \in {} |-> <<>>]
    /\ end_index_ = 0
    /\ eof_seen_ = FALSE
    /\ output_ = NewStream(Capacity)

-----------------------------------------------------------------------------
(* A substring and the index of its first byte. *)
Substring(first_index, data) == [first |-> first_index, data |-> data]
End(p) == p.first + Len(p.data)
Drop(data, n) == SubSeq(data, n + 1, Len(data))

Without(pending, i) == [j \in DOMAIN pending \ {i} |-> pending[j]]
With(pending, p) ==
    [j \in DOMAIN pending \cup {p.first} |-> IF j = p.first THEN p.data ELSE pending[j]]

(* Step 1: clip to [first_unassembled, first_unacceptable). *)
Clip(output, p) ==
    LET first_unassembled == BytesPushed(output)
        first_unacceptable == first_unassembled + AvailableCapacity(output)
        front == IF p.first < first_unassembled
                 THEN Substring(first_unassembled, Drop(p.data, first_unassembled - p.first))
                 ELSE p
    IN  IF p.first >= first_unacceptable \/ End(p) <= first_unassembled
        THEN Substring(p.first, <<>>)
        ELSE IF End(front) > first_unacceptable
        THEN Substring(front.first, SubSeq(front.data, 1, first_unacceptable - front.first))
        ELSE front

(* Step 2 yields the working substring and the map without what it took in. *)
(* A plausible slip: a predecessor that merely touches is left alone.       *)
MergePredecessorStrict(pending, p) ==
    LET before == {i \in DOMAIN pending : i <= p.first}
        prev == Substring(Max(before), pending[Max(before)])
    IN  IF p.data = <<>> \/ before = {} \/ End(prev) <= p.first
        THEN [pending |-> pending, piece |-> p]
        ELSE IF End(prev) >= End(p)
        THEN [pending |-> pending, piece |-> Substring(p.first, <<>>)]
        ELSE [pending |-> Without(pending, prev.first),
              piece |-> Substring(prev.first, prev.data \o Drop(p.data, End(prev) - p.first))]

MergePredecessor(pending, p) ==
    LET before == {i \in DOMAIN pending : i <= p.first}
        prev == Substring(Max(before), pending[Max(before)])
    IN  IF p.data = <<>> \/ before = {} \/ End(prev) < p.first
        THEN [pending |-> pending, piece |-> p]
        ELSE IF End(prev) >= End(p)
        THEN [pending |-> pending, piece |-> Substring(p.first, <<>>)]    \* fully covered
        ELSE [pending |-> Without(pending, prev.first),
              piece |-> Substring(prev.first, prev.data \o Drop(p.data, End(prev) - p.first))]

(* A plausible slip: the overlap with a successor is kept twice. *)
AbsorbOneDoubling(work) ==
    LET p == work.piece
        after == {i \in DOMAIN work.pending : i >= p.first}
        it == Substring(Min(after), work.pending[Min(after)])
    IN  IF after = {} \/ it.first > End(p)
        THEN work
        ELSE [pending |-> Without(work.pending, it.first),
              piece |-> Substring(p.first, p.data \o it.data)]

(* One turn of the loop of step 3: the next substring at or behind the     *)
(* working one is taken in if it touches or overlaps.  A turn that finds   *)
(* none changes nothing.                                                   *)
AbsorbOne(work) ==
    LET p == work.piece
        after == {i \in DOMAIN work.pending : i >= p.first}
        it == Substring(Min(after), work.pending[Min(after)])
    IN  IF after = {} \/ it.first > End(p)
        THEN work
        ELSE [pending |-> Without(work.pending, it.first),
              piece |-> IF End(it) > End(p)
                        THEN Substring(p.first, p.data \o Drop(it.data, End(p) - it.first))
                        ELSE p]

(* Each turn but the last takes an entry out, so there are no more turns   *)
(* than entries.                                                           *)
AbsorbSuccessors(work) ==
    LET turns == Cardinality(DOMAIN work.pending)
        turn[k \in 0 .. turns] == IF k = 0 THEN work ELSE AbsorbOne(turn[k - 1])
    IN  turn[turns]

(* Step 3; nothing is left to do for a substring that was covered. *)
Store(work) ==
    IF work.piece.data = <<>> THEN work.pending
    ELSE LET absorbed == AbsorbSuccessors(work)
         IN  With(absorbed.pending, absorbed.piece)

(* Step 4: while a substring begins at the next byte needed, push it. *)
FlushOne(flow) ==
    LET next == BytesPushed(flow.output)
    IN  IF DOMAIN flow.pending # {} /\ Min(DOMAIN flow.pending) = next
        THEN [pending |-> Without(flow.pending, next),
              output |-> WriterPush(flow.output, flow.pending[next])]
        ELSE flow

FlushPrefix(flow) ==
    LET turns == Cardinality(DOMAIN flow.pending)
        turn[k \in 0 .. turns] == IF k = 0 THEN flow ELSE FlushOne(turn[k - 1])
    IN  turn[turns]

(* A plausible slip: the stream ends once its end was seen and no substring *)
(* waits any more, even if the last one was cut off.                        *)
CompleteWhenDrained(eof_seen, end_index, flushed) ==
    eof_seen /\ DOMAIN flushed.pending = {}

Complete(eof_seen, end_index, flushed) == eof_seen /\ BytesPushed(flushed.output) = end_index

(* Reassembler::insert *)
InsertSubstring(first_index, data, is_last_substring) ==
    LET merged == MergePredecessor(pending_, Clip(output_, Substring(first_index, data)))
        flushed == FlushPrefix([pending |-> Store(merged), output |-> output_])
    IN  /\ end_index_' = IF is_last_substring
                         THEN (first_index + Len(data)) % AbsMod ELSE end_index_
        /\ eof_seen_' = (eof_seen_ \/ is_last_substring)
        /\ pending_' = flushed.pending
        /\ output_' = IF Complete(eof_seen_', end_index_', flushed)
                      THEN WriterClose(flushed.output) ELSE flushed.output

-----------------------------------------------------------------------------
Deliver(first, len, is_last) ==
    /\ first + len <= Len(Source)
    /\ is_last => first + len = Len(Source)
    /\ InsertSubstring(first, SubSeq(Source, first + 1, first + len), is_last)

Drain(len) ==
    /\ len <= BytesBuffered(output_)
    /\ output_' = ReaderPop(output_, len)
    /\ UNCHANGED <<pending_, end_index_, eof_seen_>>

Reset ==
    /\ output_' = WriterClose(SetError(output_))
    /\ UNCHANGED <<pending_, end_index_, eof_seen_>>

MapNext ==
    \/ \E first \in 0 .. Len(Source), len \in 0 .. MaxSeg, is_last \in BOOLEAN :
           Deliver(first, len, is_last)
    \/ \E len \in 1 .. Capacity : Drain(len)
    \/ Reset

MapSpec == MapInit /\ [][MapNext]_vars

-----------------------------------------------------------------------------
(* The entries that hold index i. *)
Holders(i) == {f \in DOMAIN pending_ : f <= i /\ i < f + Len(pending_[f])}

HeldIndices == {i \in 0 .. Len(Source) : Holders(i) # {}}

Held ==
    [i \in HeldIndices |->
        LET f == CHOOSE g \in Holders(i) : TRUE IN pending_[f][i - f + 1]]

Abstract == INSTANCE ReassemblerSpec WITH
    r <- [output |-> output_, held |-> Held, end_index |-> end_index_, eof_seen |-> eof_seen_]

(* Clipping, merging, absorbing and flushing substrings amounts to holding *)
(* single bytes and releasing the gapless prefix (reassembler.cc:7-78).    *)
ImplementsReassembler == Abstract!Spec

(* Whatever the order of arrival, what was pushed is a prefix of the       *)
(* stream, and the stream is closed exactly when the last substring was    *)
(* seen and nothing is missing (reassembler.cc:69-77): not when the tail   *)
(* that bears the end was cut off by the window.                           *)
OutputIsFaithful ==
    /\ output_.pushed = SubSeq(Source, 1, Len(output_.pushed))
    /\ ~output_.error =>
           (output_.closed <=> (eof_seen_ /\ Len(output_.pushed) = Len(Source)))

(* "Invariant: no two entries overlap or are adjacent -- every insertion   *)
(* merges with neighbors" (reassembler.hh:40-41), and no entry is empty:   *)
(* count_bytes_pending() and the single push per flush rely on it.  The    *)
(* entries lie beyond what was pushed and within the window that the       *)
(* output offers, however the reader's pace moves it, so that waiting and  *)
(* buffered bytes never exceed the capacity (reassembler.cc:18-31).        *)
EntriesAreSeparated ==
    /\ \A f \in DOMAIN pending_ :
           /\ pending_[f] # <<>> /\ f > BytesPushed(output_)
           /\ f + Len(pending_[f]) <= BytesPushed(output_) + AvailableCapacity(output_)
    /\ \A f, g \in DOMAIN pending_ : f < g => f + Len(pending_[f]) < g
=============================================================================
