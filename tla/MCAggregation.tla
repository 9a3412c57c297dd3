--------------------------- MODULE MCAggregation ---------------------------
(***************************************************************************)
(* Small instances of Aggregation for TLC.  The ranks are 0, 1, ... as in  *)
(* the code.                                                               *)
(***************************************************************************)
EXTENDS AggregationInv, AggregationRefinement

(* One chunk of each collective in turn; a reduce to rank 0, a broadcast   *)
(* from rank 1.                                                            *)
MixedOps(p) ==
    CASE p % 3 = 0 -> [code |-> "ALL_REDUCE", root |-> 0]
      [] p % 3 = 1 -> [code |-> "REDUCE", root |-> 0]
      [] p % 3 = 2 -> [code |-> "BROADCAST", root |-> 1]
=============================================================================
