----------------------------- MODULE Collective -----------------------------
(***************************************************************************)
(* What the system promises to its callers: a rank gets the answer to a    *)
(* chunk once, not before all ranks have contributed theirs, and then the  *)
(* value it gets is the result of the collective.                          *)
(***************************************************************************)
EXTENDS Integers

CONSTANTS
    Rank, Total,
    Result(_),      \* the result of a chunk
    Needs(_, _)     \* rank and chunk: the rank receives the result

VARIABLES
    contributed,    \* chunks each rank has contributed
    delivered,      \* chunks answered to each rank
    value           \* what each rank received for a chunk

vars == <<contributed, delivered, value>>

NoValue == "none"

Init ==
    /\ contributed = [r \in Rank |-> 0]
    /\ delivered = [r \in Rank |-> {}]
    /\ value = [r \in Rank |-> [p \in 0 .. Total - 1 |-> NoValue]]

Contribute(r) ==
    /\ contributed[r] < Total
    /\ contributed' = [contributed EXCEPT ![r] = @ + 1]
    /\ UNCHANGED <<delivered, value>>

Deliver(r, p) ==
    /\ p \notin delivered[r]
    /\ \A q \in Rank : p < contributed[q]
    /\ delivered' = [delivered EXCEPT ![r] = @ \cup {p}]
    /\ value' = IF Needs(r, p) THEN [value EXCEPT ![r][p] = Result(p)] ELSE value
    /\ UNCHANGED contributed

Next == \E r \in Rank : Contribute(r) \/ \E p \in 0 .. Total - 1 : Deliver(r, p)

Spec == Init /\ [][Next]_vars
=============================================================================
