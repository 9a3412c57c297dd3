------------------------------ MODULE MCPayload ------------------------------
(* Bytes of one bit, words of two bytes, from -2 to 1: sums of three ranks *)
(* carry, change sign and saturate at both ends.                           *)
EXTENDS Payload, TLC
Symmetry == Permutations(Rank)
=============================================================================
