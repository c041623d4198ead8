--------------------------- MODULE ReliableStream ---------------------------
(***************************************************************************)
(* What TCP promises for one direction of a connection: the receiving      *)
(* application gets the bytes that were written, in order, each once, and  *)
(* the end of the stream only after all of them; or it is told that the    *)
(* connection broke.                                                       *)
(***************************************************************************)
EXTENDS Naturals, Sequences

VARIABLES
    written,    \* the bytes written so far
    finished,   \* the writer has ended the stream
    delivered,  \* the bytes that reached the other end
    ended,      \* the other end has seen the end of the stream
    broken      \* the other end knows that the connection is broken

svars == <<written, finished, delivered, ended, broken>>

Init ==
    /\ written = <<>> /\ finished = FALSE
    /\ delivered = <<>> /\ ended = FALSE
    /\ broken = FALSE

IsPrefixOf(s, t) == Len(s) <= Len(t) /\ s = SubSeq(t, 1, Len(s))

(* The writer adds bytes and may end the stream in the same call; nothing  *)
(* is written after the end.                                               *)
Write ==
    /\ ~finished
    /\ IsPrefixOf(written, written')
    /\ finished' \in BOOLEAN
    /\ UNCHANGED <<delivered, ended, broken>>

(* More of the stream arrives, with its end if that is all of it. *)
Deliver ==
    /\ ~ended
    /\ IsPrefixOf(delivered, delivered')
    /\ IsPrefixOf(delivered', written)
    /\ ended' \in BOOLEAN
    /\ ended' => finished /\ delivered' = written
    /\ UNCHANGED <<written, finished, broken>>

Break ==
    /\ broken' = TRUE
    /\ ended' \in BOOLEAN
    /\ UNCHANGED <<written, finished, delivered>>

Next == Write \/ Deliver \/ Break

Spec == Init /\ [][Next]_svars
=============================================================================
