--------------------------- MODULE ReassemblerSpec --------------------------
(***************************************************************************)
(* A Reassembler fed with substrings of one stream in any order, cut in    *)
(* any way, repeated, and with the last one marked or not, while a reader  *)
(* drains its output at its own pace.                                      *)
(***************************************************************************)
EXTENDS Reassembler, InboundStream

VARIABLE r

Init == r = NewReassembler(Capacity)

(* A substring [first, first + len) of the stream; the marker may be       *)
(* missing from a copy of the tail (it was sent before the stream ended).  *)
Deliver(first, len, is_last) ==
    /\ first + len <= Len(Source)
    /\ is_last => first + len = Len(Source)
    /\ r' = Insert(r, first, SubSeq(Source, first + 1, first + len), is_last)

Read(len) ==
    /\ len <= BytesBuffered(r.output)
    /\ r' = ReadOutput(r, len)

(* The peer resets the connection. *)
Reset == r' = Abort(r)

Next ==
    \/ \E first \in 0 .. Len(Source), len \in 0 .. MaxSeg, is_last \in BOOLEAN :
           Deliver(first, len, is_last)
    \/ \E len \in 1 .. Capacity : Read(len)
    \/ Reset

Spec == Init /\ [][Next]_r
=============================================================================
