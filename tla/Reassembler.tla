----------------------------- MODULE Reassembler ----------------------------
(***************************************************************************)
(* What the Reassembler (src/reassembler.{hh,cc}) does with a substring:   *)
(* the bytes that fall inside the window are held until every byte before  *)
(* them has arrived, then pushed to the output stream.  Held bytes are a   *)
(* function from stream index to byte; ReassemblerPending has the map of   *)
(* merged substrings the code keeps, and is shown to implement this.       *)
(*                                                                         *)
(* Substrings of one stream agree where they overlap, so which copy of a   *)
(* byte survives a merge is immaterial; here the one already held does.    *)
(***************************************************************************)
EXTENDS ByteStream, FiniteSets, UInt64

(* Reassembler::Reassembler *)
NewReassembler(capacity) ==
    [output |-> NewStream(capacity), held |-> <<>>, end_index |-> 0, eof_seen |-> FALSE]

FirstUnassembled(r) == BytesPushed(r.output)
FirstUnacceptable(r) == FirstUnassembled(r) + AvailableCapacity(r.output)

(* Step 1 of insert(): the part of the substring inside the window.  An    *)
(* index so large that first_index + data.size() overflows is beyond it.   *)
Accepted(r, first_index, data) ==
    [i \in {j \in first_index .. (first_index + Len(data) - 1) :
               FirstUnassembled(r) <= j /\ j < FirstUnacceptable(r)}
        |-> data[i - first_index + 1]]

(* Steps 2 and 3: the substring joins the bytes already held. *)
Merged(held, new) ==
    [i \in DOMAIN held \cup DOMAIN new |-> IF i \in DOMAIN held THEN held[i] ELSE new[i]]

(* The number of bytes held without a gap from index `from' on. *)
RunLength(held, from) ==
    CHOOSE n \in 0 .. Cardinality(DOMAIN held) :
        /\ \A i \in from .. (from + n - 1) : i \in DOMAIN held
        /\ from + n \notin DOMAIN held

(* Step 4: the contiguous prefix moves to the output stream. *)
Flush(r, held) ==
    LET from == FirstUnassembled(r)
        n == RunLength(held, from)
    IN  [r EXCEPT !.output = WriterPush(@, [k \in 1 .. n |-> held[from + k - 1]]),
                  !.held = [i \in {j \in DOMAIN held : j >= from + n} |-> held[i]]]

(* The end of the stream is recorded even when the substring that bears it *)
(* is cut off or dropped.                                                  *)
NoteEnd(r, first_index, data, is_last_substring) ==
    IF is_last_substring
    THEN [r EXCEPT !.end_index = (first_index + Len(data)) % AbsMod, !.eof_seen = TRUE]
    ELSE r

(* A plausible slip: seeing the last substring closes the stream, gaps or not. *)
CloseWhenSeen(r) == IF r.eof_seen THEN [r EXCEPT !.output = WriterClose(@)] ELSE r

CloseAtEnd(r) ==
    IF r.eof_seen /\ BytesPushed(r.output) = r.end_index
    THEN [r EXCEPT !.output = WriterClose(@)]
    ELSE r

(* Reassembler::insert *)
Insert(r, first_index, data, is_last_substring) ==
    LET noted == NoteEnd(r, first_index, data, is_last_substring)
    IN  CloseAtEnd(Flush(noted, Merged(r.held, Accepted(r, first_index, data))))

(* Reassembler::set_error and Reassembler::close, as TCPReceiver calls them. *)
Abort(r) == [r EXCEPT !.output = WriterClose(SetError(@))]

(* Popping through Reassembler::reader(). *)
ReadOutput(r, len) == [r EXCEPT !.output = ReaderPop(@, len)]
=============================================================================
