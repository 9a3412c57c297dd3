--------------------------- MODULE GroupLifecycle ---------------------------
(***************************************************************************)
(* One block of switch memory and the groups that use it one after the     *)
(* other.  The state of a group is spread over three places that nobody    *)
(* keeps together: the controller knows which id exists (bfrt_grpc.py),    *)
(* the switch keeps the version, bitmap and sum of each slot until they    *)
(* are overwritten (ingress.p4, aggregator.p4), and each daemon keeps the  *)
(* PSN of an id from one group to the next (worker.cpp:490-498) until it   *)
(* is restarted (main.cpp:359).  A group may be destroyed, or Init called, *)
(* while its hosts are sending.                                            *)
(*                                                                         *)
(* A window has one packet (agg_len / 2 = 1).  The two halves of a sum are *)
(* read in the two passes of a packet; a sum is the set of contributions   *)
(* <<host, generation, operation>> (how often each is added is the matter  *)
(* of module Aggregation).                                                 *)
(***************************************************************************)
EXTENDS Integers, Sequences, FiniteSets, SequencesExt

CONSTANTS
    Host,           \* a set of integers; the order gives the ranks
    Memberships,    \* the sets of hosts that form groups
    NGroups,        \* group ids are 1 .. NGroups
    AggLen,         \* slots of the block
    MaxGen, MaxOps,     \* bounds: groups created, operations of a group
    MaxFaults       \* bound on the restarts and lost packets

ASSUME LifecycleAssumption ==
    /\ Host \subseteq Int /\ IsFiniteSet(Host) /\ Memberships \subseteq (SUBSET Host) \ {{}}
    /\ NGroups \in Nat \ {0} /\ AggLen \in Nat /\ AggLen >= 2
    /\ MaxGen \in Nat /\ MaxOps \in Nat /\ MaxFaults \in Nat

VARIABLES
    free_group,     \* the ids in the order they are given out
    group,          \* the group that has the block: id, members, gen
    psn,            \* psn[h][g]: group_ctx[g].psn of the daemon of h
    window,         \* window[h]: the packet that awaits its answer
    ops,            \* ops[h]: operations h began in the present group
    net,            \* net[h]: packets of h on their way to the switch, in order
    slot,           \* slot[a]: version, bitmap and the two halves of the sum
    recirc,         \* packets between their two passes
    gens,           \* auxiliary: the number of groups created
    sound,          \* auxiliary: the members of the present group agree on the
                    \* PSN, and no late packet passed for one of theirs
    wrong,          \* auxiliary: a host took a wrong sum for its operation
    faults          \* restarts and losses so far

vars == <<free_group, group, psn, window, ops, net, slot, recirc, gens,
          sound, wrong, faults>>

controlVars == <<free_group, group, gens>>
hostVars == <<psn, window, ops>>

Group == 1 .. NGroups
Slots == 0 .. AggLen - 1

NoGroup == [id |-> 0, members |-> {}, gen |-> 0]
NoPkt == [id |-> 0, psn |-> 0, rank |-> 0, host |-> 0, gen |-> 0, op |-> 0]
Cleared == [version |-> <<0, 0>>, bitmap |-> {}, agg0 |-> {}, agg1 |-> {}]

InitialGroups == [i \in 1 .. NGroups |-> i]

RankIn(h, members) == Cardinality({m \in members : m < h})

Init ==
    /\ free_group = InitialGroups
    /\ group = NoGroup
    /\ psn = [h \in Host |-> [g \in Group |-> 0]]
    /\ window = [h \in Host |-> NoPkt]
    /\ ops = [h \in Host |-> 0]
    /\ net = [h \in Host |-> <<>>]
    /\ recirc = {}
    /\ slot = [a \in Slots |-> Cleared]
    /\ gens = 0 /\ faults = 0
    /\ sound = FALSE /\ wrong = FALSE

-----------------------------------------------------------------------------
(* A faulty creation that leaves the slots as the last group left them.    *)
SlotsKept == slot

(* The last call of CreateGroup clears reg_bitmap, not the aggregators.    *)
ClearSlots ==
    [a \in Slots |-> [slot[a] EXCEPT !.version = Cleared.version,
                                     !.bitmap = Cleared.bitmap]]

CreateGroup(members) ==
    /\ group = NoGroup
    /\ gens < MaxGen
    /\ free_group # <<>>
    /\ LET g == Head(free_group)
       IN  /\ group' = [id |-> g, members |-> members, gen |-> gens + 1]
           /\ sound' = \A m, n \in members : psn[m][g] = psn[n][g]
    /\ free_group' = Tail(free_group)
    /\ gens' = gens + 1
    /\ slot' = ClearSlots
    /\ ops' = [h \in Host |-> 0]
    /\ UNCHANGED <<psn, window, net, recirc, wrong, faults>>

(* DestroyGroup; the hosts are not asked.                                  *)
DestroyGroup ==
    /\ group # NoGroup
    /\ group' = NoGroup
    /\ free_group' = Append(free_group, group.id)
    /\ sound' = FALSE
    /\ UNCHANGED <<hostVars, net, slot, recirc, gens, wrong, faults>>

(* The Init RPC forgets all groups and gives the ids out from the start.   *)
InitRPC ==
    /\ group' = NoGroup
    /\ free_group' = InitialGroups
    /\ sound' = FALSE
    /\ UNCHANGED <<hostVars, net, slot, recirc, gens, wrong, faults>>

(* The daemons of hosts H are restarted, with empty group_ctx and window.  *)
Restart(H) ==
    /\ faults < MaxFaults
    /\ faults' = faults + 1
    /\ psn' = [h \in Host |-> IF h \in H THEN [g \in Group |-> 0] ELSE psn[h]]
    /\ window' = [h \in Host |-> IF h \in H THEN NoPkt ELSE window[h]]
    /\ sound' = (sound /\ H \cap group.members = {})
    /\ UNCHANGED <<controlVars, ops, net, slot, recirc, wrong>>

-----------------------------------------------------------------------------
(* gen_pkt() and transmit(), when the window is empty.                     *)
GenPkt(h) ==
    /\ h \in group.members
    /\ window[h] = NoPkt
    /\ ops[h] < MaxOps
    /\ LET p == [id |-> group.id, psn |-> psn[h][group.id],
                 rank |-> RankIn(h, group.members), host |-> h,
                 gen |-> group.gen, op |-> ops[h]]
       IN  /\ window' = [window EXCEPT ![h] = p]
           /\ net' = [net EXCEPT ![h] = Append(@, p)]
    /\ psn' = [psn EXCEPT ![h][group.id] = @ + 1]
    /\ ops' = [ops EXCEPT ![h] = @ + 1]
    /\ UNCHANGED <<controlVars, slot, recirc, sound, wrong, faults>>


FullRetrans(h) ==
    /\ window[h] # NoPkt
    /\ window[h] \notin ToSet(net[h])
    /\ net' = [net EXCEPT ![h] = Append(@, window[h])]
    /\ UNCHANGED <<controlVars, hostVars, slot, recirc, sound, wrong, faults>>

(* The links and the queues of the switch keep the packets of one host in  *)
(* order.                                                                  *)
Lose(h) ==
    /\ faults < MaxFaults
    /\ net[h] # <<>>
    /\ faults' = faults + 1
    /\ net' = [net EXCEPT ![h] = Tail(@)]
    /\ UNCHANGED <<controlVars, hostVars, slot, recirc, sound, wrong>>

-----------------------------------------------------------------------------
Contribution(p) == <<p.host, p.gen, p.op>>

(* A late packet, of an earlier group, that the switch cannot tell from    *)
(* one of the present group: it has its id, and a PSN the group counts     *)
(* from when its members begin.                                            *)
Clash(p) ==
    /\ p.gen # group.gen /\ p.id = group.id
    /\ \E m \in group.members : p.psn >= psn[m][p.id] - ops[m]

(* A late packet that takes a slot between the two passes of a packet of   *)
(* the present group.                                                      *)
Between(p) ==
    /\ p.gen # group.gen
    /\ \E x \in recirc : x.pkt.gen = group.gen /\ x.pkt.psn % AggLen = p.psn % AggLen

(* The bitmap of a complete slot, in metadata_table.                       *)
Mask == 0 .. Cardinality(group.members) - 1

Version(p) == <<p.id, p.psn>>

(* The first pass of the next packet of h.  A packet of an id that does    *)
(* not exist still takes the slot, and then recirculate_table drops it.    *)
IngressPass1(h) ==
    LET p     == Head(net[h])
        a     == p.psn % AggLen
        same  == slot[a].version = Version(p)
        old   == IF same THEN slot[a].bitmap ELSE {}
        Add(agg) == CASE old = {} -> {Contribution(p)}
                      [] old # {} /\ p.rank \notin old -> agg \cup {Contribution(p)}
                      [] OTHER -> agg
        cell  == [version |-> Version(p), bitmap |-> old \cup {p.rank},
                  agg0 |-> Add(slot[a].agg0), agg1 |-> Add(slot[a].agg1)]
    IN  /\ net[h] # <<>>
        /\ net' = [net EXCEPT ![h] = Tail(@)]
        /\ slot' = [slot EXCEPT ![a] = cell]
        /\ recirc' = IF p.id = group.id /\ old \in {Mask \ {p.rank}, Mask}
                     THEN recirc \cup {[pkt |-> p, agg0 |-> cell.agg0,
                                        multicast |-> p.rank \notin old]}
                     ELSE recirc
        /\ sound' = (sound /\ ~Clash(p) /\ ~Between(p))
        /\ UNCHANGED <<controlVars, hostVars, wrong, faults>>

(* The whole sum for the operation h waits for.                            *)
Expected(h) ==
    [m \in group.members |-> <<m, window[h].gen, window[h].op>>]

(* The second pass of x, and rx_process_one() at the hosts of got, which   *)
(* receive a copy.  The rest of the copies are lost.                       *)
IngressPass2(x, got) ==
    LET p     == x.pkt
        agg1  == slot[p.psn % AggLen].agg1
        to    == IF ~x.multicast THEN {p.host}
                 ELSE IF p.id = group.id THEN group.members ELSE {}
        match == {h \in got : window[h].id = p.id /\ window[h].psn = p.psn}
        Right(h) == LET all == {Expected(h)[m] : m \in group.members}
                    IN  x.agg0 = all /\ agg1 = all
    IN  /\ got \subseteq to
        /\ faults' = faults + (IF got = to THEN 0 ELSE 1)
        /\ faults' <= MaxFaults
        /\ recirc' = recirc \ {x}
        /\ window' = [h \in Host |-> IF h \in match THEN NoPkt ELSE window[h]]
        /\ sound' = (sound /\ ~Clash(p))
        /\ wrong' = \/ wrong
                    \/ sound' /\ \E h \in match : window[h].gen = group.gen /\ ~Right(h)
        /\ UNCHANGED <<controlVars, psn, ops, net, slot>>

Next ==
    \/ \E members \in Memberships : CreateGroup(members)
    \/ DestroyGroup
    \/ InitRPC
    \/ \E H \in SUBSET Host \ {{}} : Restart(H)
    \/ \E h \in Host : GenPkt(h) \/ FullRetrans(h) \/ Lose(h) \/ IngressPass1(h)
    \/ \E x \in recirc, got \in SUBSET Host : IngressPass2(x, got)

(* The daemons and the switch go on; nobody has to call the controller.    *)
Fairness ==
    /\ \A h \in Host :
        WF_vars(GenPkt(h)) /\ WF_vars(FullRetrans(h)) /\ WF_vars(IngressPass1(h))
    /\ WF_vars(\E x \in recirc, got \in SUBSET Host : IngressPass2(x, got))

Spec == Init /\ [][Next]_vars /\ Fairness

-----------------------------------------------------------------------------
Pkt == [id : Group, psn : Nat, rank : Nat, host : Host, gen : 1 .. MaxGen, op : Nat]

(* Ids are given out once at a time.                                       *)
TypeOK ==
    /\ free_group \in Seq(Group) /\ Len(free_group) <= NGroups
    /\ group = NoGroup \/ group \in [id : Group, members : Memberships, gen : 1 .. gens]
    /\ psn \in [Host -> [Group -> Nat]]
    /\ window \in [Host -> Pkt \cup {NoPkt}]
    /\ net \in [Host -> Seq(Pkt)]
    /\ \A a \in Slots : slot[a].bitmap \subseteq 0 .. Cardinality(Host) - 1

(* A member of the present group never takes the sum of an earlier group,  *)
(* or a mixture, for that of its own operation, as long as the group is    *)
(* sound: late packets of earlier groups may take its slots, be aggregated *)
(* and be answered while it works, and the aggregators keep what earlier   *)
(* groups left (bfrt_grpc.py CreateGroup, ingress.p4 reg_bitmap_update).   *)
(* A group is not sound, and nothing is promised, when the daemons of its  *)
(* members had different PSNs for its id or one was restarted, after a     *)
(* Clash and after a Between.                                              *)
SumOfOwnGroup == TypeOK /\ ~wrong

(* A member of a sound group waits for its answer, and no host waits for   *)
(* that of an earlier group.                                               *)
Waiting ==
    /\ sound
    /\ \E h \in Host : window[h].gen = group.gen
    /\ \A h \in Host : window[h] # NoPkt => window[h].gen = group.gen

=============================================================================
