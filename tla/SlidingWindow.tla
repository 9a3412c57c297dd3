--------------------------- MODULE SlidingWindow ---------------------------
(***************************************************************************)
(* What a worker thread promises to the switch: packets are numbered in    *)
(* the order they are generated; at most Limit of them lie between the     *)
(* oldest one without answer and the newest; and what is queued for the    *)
(* network is a new packet, or one of the window that has no answer yet.   *)
(***************************************************************************)
EXTENDS Integers, Sequences

CONSTANTS Total, Limit

VARIABLES
    sent,   \* packets generated so far
    left,   \* the left edge of the window
    acked,  \* packets with an answer
    tx      \* packets queued for the network

vars == <<sent, left, acked, tx>>

Init == sent = 0 /\ left = 0 /\ acked = {} /\ tx = <<>>

Window == left .. sent - 1

Generate ==
    /\ sent < Total /\ sent - left < Limit
    /\ sent' = sent + 1
    /\ tx' = Append(tx, sent)
    /\ UNCHANGED <<left, acked>>

(* Packets without answer are queued again behind the rest; A are the      *)
(* packets that have an answer by then.                                    *)
Again(A) ==
    /\ Len(tx') >= Len(tx)
    /\ SubSeq(tx', 1, Len(tx)) = tx
    /\ \A n \in Len(tx) + 1 .. Len(tx') : tx'[n] \in Window \ A

Retransmit == Again(acked) /\ UNCHANGED <<sent, left, acked>>

(* The left edge moves over packets of A.                                  *)
Slide(A) == left' \in left .. sent /\ left .. left' - 1 \subseteq A

(* An answer: it may move the window, and may show a gap.                  *)
Acknowledge ==
    /\ \E c \in Window \ acked : acked' = acked \cup {c}
    /\ Slide(acked') /\ Again(acked')
    /\ UNCHANGED sent

Shift == Slide(acked) /\ UNCHANGED <<sent, acked, tx>>

Depart == tx # <<>> /\ tx' = Tail(tx) /\ UNCHANGED <<sent, left, acked>>

Next == Generate \/ Retransmit \/ Acknowledge \/ Shift \/ Depart

Spec == Init /\ [][Next]_vars
=============================================================================
