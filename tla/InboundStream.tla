--------------------------- MODULE InboundStream ----------------------------
(***************************************************************************)
(* The stream that arrives, in pieces, at a receiver or its reassembler.   *)
(***************************************************************************)
EXTENDS Naturals, Sequences

CONSTANTS
    Source,     \* the bytes the sender's application writes
    Capacity,   \* recv_capacity: the capacity of the output stream
    MaxSeg      \* bound: the longest substring or payload

ASSUME StreamAssumption == Source \in Seq(Nat) /\ Capacity \in Nat /\ MaxSeg \in Nat
=============================================================================
