------------------------------- MODULE Wrap32 -------------------------------
(***************************************************************************)
(* Sequence-number arithmetic: src/wrapping_integers.{hh,cc}.              *)
(*                                                                         *)
(* A Wrap32 is a 32-bit residue; an absolute sequence number is a uint64_t.*)
(* The widths are parameters (SeqMod stands for 2^32, AbsMod for 2^64) so  *)
(* that TLC can drive both of them around their wrap on small instances.   *)
(* The bit operations of unwrap() are written with % (the candidate that   *)
(* shares the checkpoint's upper bits is checkpoint - checkpoint % SeqMod, *)
(* plus the offset).                                                       *)
(***************************************************************************)
EXTENDS UInt64

CONSTANT SeqMod     \* number of wrapped sequence numbers (2^32 in the code)

ASSUME WidthAssumption ==
    /\ SeqMod \in Nat \ {0}
    /\ AbsMod \in Nat
    /\ 2 * SeqMod <= AbsMod
    /\ AbsMod % SeqMod = 0

Seqno == 0 .. (SeqMod - 1)
AbsSeqno == 0 .. (AbsMod - 1)

-----------------------------------------------------------------------------
(* operator+ : addition in uint32_t. *)
Plus(raw, n) == (raw + n) % SeqMod

(* Wrap32::wrap: the absolute n seen from zero_point. *)
Wrap(n, zero_point) == Plus(zero_point, n % SeqMod)

(* The distance lambda of unwrap(), on uint64_t. *)
Distance(v, checkpoint) == IF v > checkpoint THEN v - checkpoint ELSE checkpoint - v

(* The candidate that shares the checkpoint's upper half. *)
Candidate(raw, zero_point, checkpoint) ==
    checkpoint - (checkpoint % SeqMod) + ((raw - zero_point) % SeqMod)

(* A plausible slip: only the round of the checkpoint is considered. *)
UnwrapSameRound(raw, zero_point, checkpoint) == Candidate(raw, zero_point, checkpoint)

(* Wrap32::unwrap: the candidate or one of its two neighbours a round away, *)
(* whichever is nearest to the checkpoint (ties keep the earlier choice;    *)
(* the round below 0 is not considered; the round above wraps at 64 bits).  *)
Unwrap(raw, zero_point, checkpoint) ==
    LET candidate == Candidate(raw, zero_point, checkpoint)
        prev == candidate - SeqMod
        best == IF /\ candidate >= SeqMod
                   /\ Distance(prev, checkpoint) < Distance(candidate, checkpoint)
                THEN prev ELSE candidate
        next == (candidate + SeqMod) % AbsMod
    IN  IF Distance(next, checkpoint) < Distance(best, checkpoint) THEN next ELSE best
=============================================================================
