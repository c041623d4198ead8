------------------------------- MODULE UInt64 -------------------------------
(***************************************************************************)
(* The width of uint64_t, the type of absolute sequence numbers and of     *)
(* stream indices.  A parameter, so that TLC can reach its wrap.           *)
(***************************************************************************)
EXTENDS Integers

CONSTANT AbsMod     \* 2^64 in the code
=============================================================================
