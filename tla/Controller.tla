----------------------------- MODULE Controller -----------------------------
(***************************************************************************)
(* The switch controller (switch/bfrt_grpc.py): the RPC service that       *)
(* creates and destroys groups, and hands out the aggregator memory, the   *)
(* group ids and the multicast nodes of the switch.  The server has one    *)
(* thread, so an RPC is atomic; but each call of the switch driver may     *)
(* raise an exception, and the RPC then ends with what it did so far.      *)
(*                                                                         *)
(* The driver is external: a call either takes effect or raises, and       *)
(* adding an entry whose key is in the table raises.                       *)
(*                                                                         *)
(* An address is that of one aggregator slot (MTU_SIZE bytes in the code). *)
(* The entries of the tables of the switch are tuples <<table, key...>>.   *)
(***************************************************************************)
EXTENDS Integers, Sequences, SequencesExt, FiniteSetsExt

CONSTANTS
    MemSize,      \* slots of the switch (SWITCH_MEM_SIZE)
    AllocSize,    \* slots given to each group (ALLOC_SIZE)
    NGroups,      \* group ids are 1 .. NGroups (MAX_GROUP_NUM - 1)
    NNodes,       \* multicast nodes are 1 .. NNodes (MAX_WORKER_NUM - 1)
    NPorts,       \* recirculation ports
    MaxSize,      \* bound on the members of a group
    MaxFail,      \* bound on the failures of the driver
    MaxTaken      \* bound on the slots that packets have taken

ASSUME ControllerAssumption ==
    /\ AllocSize \in Nat \ {0} /\ MemSize \in Nat \ {0} /\ MemSize % AllocSize = 0
    /\ NGroups \in Nat /\ NNodes \in Nat
    /\ NPorts \in Nat \ {0} /\ MaxSize \in Nat /\ MaxFail \in Nat /\ MaxTaken \in Nat

VARIABLES
    memseg,          \* the free segments <<ptr_l, ptr_r>>, in order
    free_group, free_node,
    recir_port_cnt,
    undo,            \* undo[g]: what the undo functions of group g give back
    entries,         \* the entries of the tables of the switch
    stale,           \* auxiliary: the entries that the last Init left behind
    reg_bitmap,      \* reg_bitmap[a]: a packet has taken slot a
    failures         \* RPCs with an exception since the last complete Init

vars == <<memseg, free_group, free_node, recir_port_cnt, undo, entries,
          stale, reg_bitmap, failures>>

Group == 1 .. NGroups
Node == 1 .. NNodes
Port == 1 .. NPorts
Addr == 0 .. MemSize - 1

Init ==
    /\ memseg = << <<0, MemSize>> >>
    /\ free_group = [i \in 1 .. NGroups |-> i]
    /\ free_node = [i \in 1 .. NNodes |-> i]
    /\ recir_port_cnt = [p \in Port |-> 0]
    /\ undo = << >>
    /\ entries = {} /\ stale = {}
    /\ reg_bitmap = [a \in Addr |-> FALSE]
    /\ failures = 0

-----------------------------------------------------------------------------
UpperAlign(x, y) == ((x + y - 1) \div y) * y

(* addr_in_seg(): segment i has an aligned block of n slots.               *)
Fits(i, n) == UpperAlign(memseg[i][1], n) + n <= memseg[i][2]

(* fit_seg(): the first segment with room, or 0.                           *)
FitSeg(n) ==
    LET fit == {i \in 1 .. Len(memseg) : Fits(i, n)}
    IN  IF fit = {} THEN 0 ELSE Min(fit)

(* A faulty allocation that forgets what is right of the block.            *)
AllocSegLeftOnly(i, l, r) ==
    LET seg == memseg[i]
    IN  SubSeq(memseg, 1, i - 1)
            \o (IF seg[1] # l THEN << <<seg[1], l>> >> ELSE << >>)
            \o SubSeq(memseg, i + 1, Len(memseg))

(* alloc_seg(): memseg without the block l .. r - 1 of segment i.          *)
AllocSeg(i, l, r) ==
    LET seg == memseg[i]
    IN  SubSeq(memseg, 1, i - 1)
            \o (IF seg[1] # l THEN << <<seg[1], l>> >> ELSE << >>)
            \o (IF seg[2] # r THEN << <<r, seg[2]>> >> ELSE << >>)
            \o SubSeq(memseg, i + 1, Len(memseg))

(* free_seg(): memseg with the block l .. r - 1 back in its place, joined  *)
(* with a neighbour.  r_index still counts the left neighbour after that   *)
(* was deleted, so a block joined on the left is never joined on the right.*)
FreeSeg(l, r) ==
    LET right   == {i \in 1 .. Len(memseg) : memseg[i][2] > l}
        r_index == IF right = {} THEN Len(memseg) + 1 ELSE Min(right)
        joinL   == r_index > 1 /\ memseg[r_index - 1][2] = l
        segs    == IF joinL THEN RemoveAt(memseg, r_index - 1) ELSE memseg
        joinR   == r_index <= Len(segs) /\ segs[r_index][1] = r
        rest    == IF joinR THEN RemoveAt(segs, r_index) ELSE segs
    IN  InsertAt(rest, IF joinL THEN r_index - 1 ELSE r_index,
                 << IF joinL THEN memseg[r_index - 1][1] ELSE l,
                    IF joinR THEN segs[r_index][2] ELSE r >>)

-----------------------------------------------------------------------------
(* select_recir_port_idx(): the first of the least used ports.             *)
SelectRecirPort == CHOOSE p \in Port :
    /\ \A q \in Port : recir_port_cnt[p] <= recir_port_cnt[q]
    /\ \A q \in 1 .. p - 1 : recir_port_cnt[q] > recir_port_cnt[p]

PortTaken(port) == [recir_port_cnt EXCEPT ![port] = @ + 1]

(* The table entries of a group, in the order CreateGroup adds them.       *)
TableCalls(g, nodes, port) ==
    << <<"recirculate_table", g, port>>, <<"metadata_table", g, Len(nodes)>> >>
        \o [j \in 1 .. 2 * Len(nodes) |->
               IF j % 2 = 1 THEN <<"restore_table", g, (j - 1) \div 2>>
                            ELSE <<"node", nodes[j \div 2], (j - 1) \div 2>>]
        \o << <<"mgid", g, nodes>> >>

(* Two entries of a table with the same key: a group id, a group id and a  *)
(* rank, a node or a multicast group.                                      *)
SameKey(e, f) ==
    e[1] = f[1] /\ e[2] = f[2] /\ (e[1] = "restore_table" => e[3] = f[3])

(* The driver refuses to add an entry whose key is in the table, as what   *)
(* an incomplete Init left behind.                                         *)
Refused(e) == \E f \in entries : SameKey(e, f)

(* A faulty loop that clears one slot too many.                            *)
ClearSlotsPast(l, m) ==
    [a \in Addr |-> reg_bitmap[a] /\ a \notin l .. l + m]

(* The last calls of CreateGroup clear the bitmaps of the group's slots,   *)
(* one by one; here the first m.                                           *)
ClearSlots(l, m) ==
    [a \in Addr |-> reg_bitmap[a] /\ a \notin l .. l + m - 1]

(* CreateGroup with n members, of which the first k driver calls succeed.  *)
(* Without resources the RPC changes nothing.  An RPC that raises an       *)
(* exception has taken its resources and recorded no undo functions.       *)
CreateGroup(n, k) ==
    LET i     == FitSeg(AllocSize)
        l     == UpperAlign(memseg[i][1], AllocSize)
        g     == Head(free_group)
        nodes == SubSeq(free_node, 1, n)
        port  == SelectRecirPort
        calls == TableCalls(g, nodes, port)
        done  == k = Len(calls) + AllocSize
    IN  /\ i # 0 /\ Len(free_group) >= 1 /\ Len(free_node) >= n
        /\ k <= Len(calls) + AllocSize
        /\ \A j \in 1 .. Len(calls) : j <= k => ~Refused(calls[j])
        /\ done \/ failures < MaxFail \/ (k < Len(calls) /\ Refused(calls[k + 1]))
        /\ memseg' = AllocSeg(i, l, l + AllocSize)
        /\ free_group' = Tail(free_group)
        /\ free_node' = SubSeq(free_node, n + 1, Len(free_node))
        /\ recir_port_cnt' = PortTaken(port)
        /\ entries' = entries \cup {calls[j] : j \in {x \in 1 .. Len(calls) : x <= k}}
        /\ reg_bitmap' = ClearSlots(l, IF k > Len(calls) THEN k - Len(calls) ELSE 0)
        /\ IF done
           THEN /\ undo' = [h \in DOMAIN undo \cup {g} |->
                               IF h = g THEN [addr |-> l, nodes |-> nodes, port |-> port]
                               ELSE undo[h]]
                /\ UNCHANGED failures
           ELSE failures' = failures + 1 /\ UNCHANGED undo
        /\ UNCHANGED stale

(* What the undo functions do once all entries are deleted.  They run in   *)
(* reverse order.                                                          *)
GiveBack(g) ==
    LET u == undo[g]
    IN  /\ recir_port_cnt' = [recir_port_cnt EXCEPT ![u.port] = @ - 1]
        /\ free_node' = free_node \o u.nodes
        /\ free_group' = Append(free_group, g)
        /\ memseg' = FreeSeg(u.addr, u.addr + AllocSize)
        /\ undo' = [h \in DOMAIN undo \ {g} |-> undo[h]]

(* A faulty undo that gives the group back before its entries are deleted. *)
GiveBackEarly(g, k) == TRUE

(* The undo functions give the resources back after the last deletion.     *)
AllDeleted(g, k) ==
    k = Len(TableCalls(g, undo[g].nodes, undo[g].port))

(* DestroyGroup, of which the first k deletions succeed; deleting an entry *)
(* that is not there raises an exception.                                  *)
DestroyGroup(g, k) ==
    LET calls == Reverse(TableCalls(g, undo[g].nodes, undo[g].port))
    IN  /\ k <= Len(calls)
        /\ AllDeleted(g, k) \/ failures < MaxFail
        /\ \A j \in 1 .. k : calls[j] \in entries
        /\ entries' = entries \ {calls[j] : j \in 1 .. k}
        /\ IF AllDeleted(g, k)
           THEN GiveBack(g) /\ UNCHANGED failures
           ELSE /\ failures' = failures + 1
                /\ UNCHANGED <<memseg, free_group, free_node, recir_port_cnt, undo>>
        /\ UNCHANGED <<stale, reg_bitmap>>

(* The tables reinit() clears, in this order.                              *)
ClearedTables == <<"recirculate_table", "metadata_table", "restore_table">>

(* What reinit() resets first.  reg_bitmap is not touched, and the hosts   *)
(* are not told.                                                           *)
ForgetGroups ==
    /\ memseg' = << <<0, MemSize>> >>
    /\ free_group' = [i \in 1 .. NGroups |-> i]
    /\ free_node' = [i \in 1 .. NNodes |-> i]
    /\ recir_port_cnt' = [p \in Port |-> 0]
    /\ undo' = << >>
    /\ UNCHANGED reg_bitmap

(* The entries after the first k clear() calls of reinit().                *)
Uncleared(k) == {e \in entries : \A j \in 1 .. k : e[1] # ClearedTables[j]}

(* The Init RPC whose clear() number k + 1 raises an exception: all ids    *)
(* are free again, and the other entries stay.                             *)
InitRaises(k) ==
    /\ k < Len(ClearedTables) /\ failures < MaxFail
    /\ ForgetGroups
    /\ entries' = Uncleared(k) /\ stale' = Uncleared(k)
    /\ failures' = failures + 1

(* The Init RPC that comes to its end.  Exceptions of the deletions of the *)
(* multicast groups and nodes are ignored: any of them may be kept.        *)
InitRPC(kept) ==
    /\ kept # {} => failures < MaxFail
    /\ ForgetGroups
    /\ entries' = kept /\ stale' = kept
    /\ failures' = IF kept = {} THEN 0 ELSE failures + 1

(* A packet takes slot a: of any group, also of one the controller has     *)
(* forgotten, since the switch looks at the version of the slot only.      *)
Traffic(a) ==
    /\ Cardinality({b \in Addr : reg_bitmap[b]} \cup {a}) <= MaxTaken
    /\ reg_bitmap' = [reg_bitmap EXCEPT ![a] = TRUE]
    /\ UNCHANGED <<memseg, free_group, free_node, recir_port_cnt, undo, entries,
                   stale, failures>>

Next ==
    \/ \E n \in 1 .. MaxSize, k \in 0 .. 2 * MaxSize + 3 + AllocSize : CreateGroup(n, k)
    \/ \E g \in DOMAIN undo : \E k \in 0 .. 2 * MaxSize + 3 : DestroyGroup(g, k)
    \/ \E k \in 0 .. 2 : InitRaises(k)
    \/ \E kept \in SUBSET Uncleared(3) : InitRPC(kept)
    \/ \E a \in Addr : Traffic(a)

Spec == Init /\ [][Next]_vars

-----------------------------------------------------------------------------
Live == DOMAIN undo

Block(g) == undo[g].addr .. undo[g].addr + AllocSize - 1

Free(a) == \E i \in 1 .. Len(memseg) : a \in memseg[i][1] .. memseg[i][2] - 1

GroupsOf(e) == IF e[1] = "node" THEN {} ELSE {e[2]}

NodesOf(e) == IF e[1] = "node" THEN {e[2]} ELSE {}

TypeOK ==
    /\ memseg \in Seq((0 .. MemSize) \X (0 .. MemSize))
    /\ free_group \in Seq(Group) /\ free_node \in Seq(Node)
    /\ recir_port_cnt \in [Port -> Nat]
    /\ Live \subseteq Group
    /\ \A g \in Live : undo[g] \in [addr : Addr, nodes : Seq(Node), port : Port]
    /\ stale \subseteq entries
    /\ reg_bitmap \in [Addr -> BOOLEAN]
    /\ failures \in Nat

(* No slot is given to two groups, or to a group and to the free segments, *)
(* and the free segments are in order: free_seg() never meets an "Invalid  *)
(* free" and never ends the server.  CreateGroup finds a block as long as  *)
(* any slot is free, although free_seg() does not join all neighbours.     *)
(* Without exceptions every slot is free or belongs to a group.            *)
MemoryPartition ==
    /\ TypeOK
    /\ \A i \in 1 .. Len(memseg) : memseg[i][1] < memseg[i][2]
    /\ \A i \in 1 .. Len(memseg), j \in 1 .. Len(memseg) :
          i < j => memseg[i][2] <= memseg[j][1]
    /\ \A g \in Live : \A a \in Block(g) : a \in Addr /\ ~Free(a)
    /\ \A g, h \in Live : g # h => Block(g) \cap Block(h) = {}
    /\ (\E a \in Addr : Free(a)) => FitSeg(AllocSize) # 0
    /\ failures = 0 => \A a \in Addr : Free(a) \/ \E g \in Live : a \in Block(g)

(* The entries of a group that exists are its own, up to where a destroy   *)
(* raised an exception: no entry has the same key and other contents.      *)
ServedBy(g) ==
    LET calls == TableCalls(g, undo[g].nodes, undo[g].port)
    IN  \E m \in 0 .. Len(calls) :
           /\ {e \in entries : \E j \in 1 .. Len(calls) : SameKey(e, calls[j])}
                 = {calls[j] : j \in 1 .. m}
           /\ failures = 0 => m = Len(calls)

(* Whatever call raised an exception before, also of an Init that declared *)
(* all ids free and then kept their entries: the tables of the switch have *)
(* entries of an id or a node that may be given to a new group only if the *)
(* last Init left them, and those never serve a group: each group that     *)
(* exists finds its own entries under its keys, all of them if no call     *)
(* raised (bfrt_grpc.py, CreateGroup, DestroyGroup and reinit()).          *)
TablesMatch ==
    /\ \A e \in entries \ stale :
        /\ GroupsOf(e) \cap ToSet(free_group) = {}
        /\ NodesOf(e) \cap ToSet(free_node) = {}
    /\ failures = 0 => stale = {}
    /\ IsInjective(free_group) /\ IsInjective(free_node)
    /\ \A g \in Live :
        /\ g \notin ToSet(free_group)
        /\ ToSet(undo[g].nodes) \cap ToSet(free_node) = {}
        /\ ServedBy(g)

(* No RPC clears a slot of a group that exists before and after it, also   *)
(* if it ends half way: the packets of the other groups, which go on       *)
(* meanwhile, lose nothing (the last call of CreateGroup).                 *)
OthersUndisturbed ==
    [][\A g \in Live \cap Live' : \A a \in Block(g) :
          reg_bitmap[a] => reg_bitmap'[a]]_vars
=============================================================================
