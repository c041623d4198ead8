------------------------- MODULE MCTCPReceiverSpec --------------------------
(* Eighteen bytes into a buffer of four: with sixteen sequence numbers the *)
(* stream crosses a round of its absolute numbers and the wrap of the      *)
(* residues.  The window field saturates below the capacity.               *)
EXTENDS TCPReceiverSpec

MCSource == [i \in 1 .. 18 |-> 10 + i]
=============================================================================
