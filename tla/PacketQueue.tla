---------------------------- MODULE PacketQueue ----------------------------
(***************************************************************************)
(* What the rest of the daemon relies on when it hands a packet over to    *)
(* the NIC or takes one from it: an ordered queue that neither loses nor   *)
(* repeats a packet, and that does not keep one for ever.                  *)
(***************************************************************************)
EXTENDS Sequences

CONSTANT Packet

VARIABLES
    queue,      \* packets handed over, oldest first
    out         \* packets that came out, in order

vars == <<queue, out>>

Init == queue = <<>> /\ out = <<>>

Enqueue(p) == queue' = Append(queue, p) /\ UNCHANGED out

Dequeue ==
    /\ queue # <<>>
    /\ queue' = Tail(queue)
    /\ out' = Append(out, Head(queue))

Next == Dequeue \/ \E p \in Packet : Enqueue(p)

Spec == Init /\ [][Next]_vars /\ WF_vars(Dequeue)
=============================================================================
