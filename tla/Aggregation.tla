---------------------------- MODULE Aggregation ----------------------------
(***************************************************************************)
(* In-network aggregation end to end: the windows of the hosts, the links, *)
(* and the switch, for one group and one worker thread per host.           *)
(***************************************************************************)
EXTENDS SwitchPipeline, HostWindow

vars == <<up, down, losses, reg_bitmap, aggregator_array, owner, recirc,
          sent, left, acked, data>>

Init == LinkInit /\ SwitchInit /\ HostInit

HostStep(r) ==
    /\ \/ ShiftSend(r)
       \/ \E p \in Chunk : Retransmit(r, p)
       \/ RxProcess(r)
    /\ UNCHANGED switchVars

SwitchStep ==
    /\ \/ \E r \in Ranks : IngressPass1(r)
       \/ IngressPass2
       \/ LoseRecirc
    /\ UNCHANGED hostVars

LinkStep ==
    /\ \E r \in Ranks : LoseUp(r) \/ LoseDown(r)
    /\ UNCHANGED <<switchVars, hostVars>>

Done == \A r \in Ranks : left[r] = NChunks

(* When every chunk is acknowledged the hosts have nothing left to do.     *)
Terminating == Done /\ UNCHANGED vars

Next ==
    \/ \E r \in Ranks : HostStep(r)
    \/ SwitchStep
    \/ LinkStep
    \/ Terminating

Spec == Init /\ [][Next]_vars

(* The poll loop of a worker never stops, so receiving is weakly fair.     *)
(* shift_send() and full_retrans() go through the whole window, and send() *)
(* of the process buffer waits until the queue has room, so each chunk is  *)
(* sent, and sent again while it is not acknowledged, even when the queue  *)
(* is full from time to time: strong fairness.                             *)
Fairness ==
    /\ \A r \in Ranks :
        /\ SF_vars(ShiftSend(r) /\ UNCHANGED switchVars)
        /\ \A p \in Chunk : SF_vars(Retransmit(r, p) /\ UNCHANGED switchVars)
        /\ WF_vars(RxProcess(r) /\ UNCHANGED switchVars)
        /\ WF_vars(IngressPass1(r) /\ UNCHANGED hostVars)
    /\ WF_vars(IngressPass2 /\ UNCHANGED hostVars)

FairSpec == Spec /\ Fairness

TypeOK == LinkTypeOK /\ SwitchTypeOK /\ HostTypeOK

(* Whatever is lost, repeated or late, a chunk a rank has acknowledged and *)
(* needs holds exactly one copy of the chunk of every contributing rank,   *)
(* in both halves of the payload, although the switch reads the halves in  *)
(* two different traversals (worker.cpp rx_process_one, aggregator.p4).    *)
ResultCorrect ==
    \A r \in Ranks : \A p \in acked[r] :
        NeedRx(OpOf(p), r) =>
            data[r][p] = [agg0 |-> SumOver(p, Ranks), agg1 |-> SumOver(p, Ranks),
                          payload |-> TRUE]

(* No host runs more than one slot cycle ahead of the oldest chunk any     *)
(* other host still waits for: half a cycle by its own window, half by the *)
(* window of the other, because a chunk is acknowledged only when every    *)
(* rank has sent it.                                                       *)
Lockstep ==
    \A r, q \in Ranks : sent[r] <= left[q] + AggLen

(* A packet between its two passes still finds the complete aggregate of   *)
(* its own chunk in its slot (the window limit of gen_pkt, agg_len / 2, is *)
(* what protects it from the next chunk that uses the slot).               *)
RecircStable ==
    \A i \in 1 .. Len(recirc) :
        LET c == recirc[i].chunk
        IN  /\ owner[AggAddr(c)] = c
            /\ reg_bitmap[AggAddr(c)].bitmap = Ranks
            /\ aggregator_array[AggAddr(c)].agg1 = SumOver(c, Ranks)

(* A late or repeated packet never takes a slot back from a later chunk:   *)
(* reg_bitmap_update compares versions only for equality, so it would.     *)
SlotMonotone ==
    [][\A a \in AggAddrs : owner'[a] >= owner[a]]_vars

(* Every chunk is finally acknowledged by every rank, whatever bounded     *)
(* number of packets is lost and at whatever stage: on an uplink, in the   *)
(* recirculation port, or one copy of a multicast.                         *)
AllComplete == <>Done
=============================================================================
