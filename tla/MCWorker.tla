------------------------------ MODULE MCWorker ------------------------------
(***************************************************************************)
(* Small instances of Worker for TLC.                                      *)
(***************************************************************************)
EXTENDS Worker

(* Three sub-operations: two of group 1, then one of group 2.  The sizes   *)
(* make a full and a partial packet, an empty sub-operation, and three     *)
(* full packets when a packet carries two units.                           *)
TwoGroups(i) == IF i <= 2 THEN 1 ELSE 2

MixedSizes(i) == CASE i = 1 -> 3 [] i = 2 -> 0 [] i = 3 -> 6 [] OTHER -> 3

(* Group 1 starts just before the PSN wraps.                               *)
NearWrap(g) == IF g = 1 THEN PsnMod - 2 ELSE 0
=============================================================================
