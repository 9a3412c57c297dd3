----------------------- MODULE AggregationRefinement -----------------------
(***************************************************************************)
(* Aggregation implements the collective its callers see, and each of its  *)
(* hosts an abstract sliding window.                                       *)
(***************************************************************************)
EXTENDS Aggregation

(* What rank r has received for chunk p, in the terms of Collective.       *)
Value(r, p) ==
    IF p \in acked[r] /\ NeedRx(OpOf(p), r)
    THEN [agg0 |-> data[r][p].agg0, agg1 |-> data[r][p].agg1,
          payload |-> data[r][p].payload]
    ELSE "none"

CollectiveResult(p) ==
    [agg0 |-> SumOver(p, Ranks), agg1 |-> SumOver(p, Ranks), payload |-> TRUE]

CollectiveNeeds(r, p) == NeedRx(OpOf(p), r)

C == INSTANCE Collective WITH
        Rank <- Ranks, Total <- NChunks,
        Result <- CollectiveResult, Needs <- CollectiveNeeds,
        contributed <- sent, delivered <- acked,
        value <- [r \in Ranks |-> [p \in Chunk |-> Value(r, p)]]

(* Hosts, links and switch together are a collective: a chunk is answered  *)
(* once at each rank, after all ranks have sent it, with the result.       *)
ImplementsCollective == C!Spec

(* The window of rank r.  Its queue is everything between the worker and   *)
(* the switch.                                                             *)
H(r) == INSTANCE SlidingWindow WITH
            Total <- NChunks, Limit <- WindowLimit,
            sent <- sent[r], left <- left[r], acked <- acked[r],
            tx <- [n \in 1 .. Len(up[r]) |-> up[r][n].chunk]

(* Each host is a sliding window.  Module Worker implements the same       *)
(* specification for the packets of one thread; that the two meet here,    *)
(* with the same limit and the same network, is not part of either proof.  *)
HostsImplementWindow ==
    /\ \A r \in Ranks : H(r)!Init
    /\ [][\A r \in Ranks : H(r)!Next \/ UNCHANGED H(r)!vars]_vars
=============================================================================
