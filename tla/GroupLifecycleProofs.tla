------------------------ MODULE GroupLifecycleProofs ------------------------
(***************************************************************************)
(* Proof that no member of a sound group takes a foreign sum for that of   *)
(* its own operation, for every number of hosts, groups, slots,            *)
(* operations, restarts, losses and late packets of earlier groups.        *)
(*                                                                         *)
(* The packets of the present group are numbered by their operation.  A    *)
(* host begins an operation when the one before it was answered, so every  *)
(* member has contributed to it by then and, because the packets of a host *)
(* stay in order, none of its older packets is still under way.  A packet  *)
(* therefore never meets the slot of a later operation, and the slot of an *)
(* answer is not used again while a host still waits for this answer.  A   *)
(* late packet takes a slot away, but leaves it with a version that is     *)
(* none of the group's, and the members begin its sum again.               *)
(***************************************************************************)
EXTENDS GroupLifecycle, ProofLemmas, FiniteSetTheorems

(* In all that follows g is the present group, o the operations its hosts  *)
(* began, q their packets on the way to the switch, s the slots, and b the *)
(* PSN the group began with.                                               *)

(* A packet of the present group.                                          *)
Ours(p, b, g, o) ==
    /\ p.id = g.id /\ p.host \in g.members
    /\ p.rank = RankIn(p.host, g.members)
    /\ p.op < o[p.host] /\ p.psn = b + p.op

(* Operation n of h has reached the switch: h has begun it, and none of    *)
(* its packets on the way is of an earlier operation.                      *)
Reached(h, n, g, o, q) ==
    /\ o[h] > n
    /\ \A i \in 1 .. Len(q[h]) : q[h][i].gen = g.gen => q[h][i].op >= n

(* The contributions of the hosts in a bitmap to operation n.              *)
SumOf(n, bits, g) ==
    {<<m, g.gen, n>> : m \in {k \in g.members : RankIn(k, g.members) \in bits}}

Whole(n, g) == {<<m, g.gen, n>> : m \in g.members}

PsnOk(b, g, o, f) == \A m \in g.members : f[m][g.id] = b + o[m]

(* The packets of one host are in order.                                   *)
NetOk(b, g, o, q) ==
    \A h \in Host : \A i \in 1 .. Len(q[h]) :
        q[h][i].gen = g.gen =>
            /\ Ours(q[h][i], b, g, o)
            /\ \A j \in 1 .. i : q[h][j].gen = g.gen => q[h][j].op <= q[h][i].op

(* Slot a holds operation n.                                               *)
Held(a, n, b, g, o, q, s) ==
    /\ s[a].version = <<g.id, b + n>> /\ (b + n) % AggLen = a
    /\ s[a].agg0 = SumOf(n, s[a].bitmap, g) /\ s[a].agg1 = SumOf(n, s[a].bitmap, g)
    /\ \E m \in g.members : RankIn(m, g.members) \in s[a].bitmap
    /\ \A m \in g.members :
          RankIn(m, g.members) \in s[a].bitmap => Reached(m, n, g, o, q)

(* A version that no packet of the group has.                              *)
Foreign(v, b, g) == v[1] # g.id \/ v[2] < b

SlotsOk(b, g, o, q, s) ==
    \A a \in Slots :
        Foreign(s[a].version, b, g) \/ \E n \in Nat : Held(a, n, b, g, o, q, s)

(* Operation n is complete: its slot says so, or was used again since.     *)
Complete(n, b, g, o, s) ==
    \/ /\ s[(b + n) % AggLen].version = <<g.id, b + n>>
       /\ \A m \in g.members : RankIn(m, g.members) \in s[(b + n) % AggLen].bitmap
    \/ \E m \in g.members : o[m] > n + AggLen

(* Packets between their passes are of complete operations.                *)
RecircOk(b, g, o, q, s, R) ==
    \A x \in R : x.pkt.gen = g.gen =>
        /\ Ours(x.pkt, b, g, o)
        /\ x.agg0 = Whole(x.pkt.op, g)
        /\ Complete(x.pkt.op, b, g, o, s)
        /\ \A m \in g.members : Reached(m, x.pkt.op, g, o, q)

(* A host waits for its last operation, or for one of an earlier group     *)
(* that no answer of this group can be taken for.                          *)
WindowsOk(b, g, o, w) ==
    \A h \in Host :
        /\ w[h].gen = g.gen => Ours(w[h], b, g, o) /\ w[h].host = h /\ w[h].op + 1 = o[h]
        /\ w[h].gen # g.gen /\ h \in g.members /\ w[h].id = g.id => w[h].psn < b

(* What a host has the answer of has reached the switch from all members.  *)
AnsweredOk(g, o, q, w) ==
    \A m, h \in g.members : \A n \in Nat :
        n + 1 < o[m] \/ (n + 1 = o[m] /\ w[m].gen # g.gen) => Reached(h, n, g, o, q)

GroupOk(b) ==
    /\ PsnOk(b, group, ops, psn) /\ NetOk(b, group, ops, net)
    /\ SlotsOk(b, group, ops, net, slot)
    /\ RecircOk(b, group, ops, net, slot, recirc)
    /\ WindowsOk(b, group, ops, window)
    /\ AnsweredOk(group, ops, net, window)

(* What a packet of any group is.                                          *)
Sums == SUBSET (Host \X Nat \X Nat)

Bits == 0 .. Cardinality(Host) - 1

Cell == [version : Nat \X Nat, bitmap : SUBSET Bits, agg0 : Sums, agg1 : Sums]

Passing == [pkt : Pkt, agg0 : Sums, multicast : BOOLEAN]

Known(p, n) == p.rank \in Bits /\ p.gen <= n

StateOk ==
    /\ free_group \in Seq(Group)
    /\ Len(free_group) + (IF group = NoGroup THEN 0 ELSE 1) <= NGroups
    /\ gens \in 0 .. MaxGen
    /\ \/ group = NoGroup
       \/ /\ group \in [id : Group, members : Memberships, gen : 1 .. MaxGen]
          /\ group.gen = gens
    /\ psn \in [Host -> [Group -> Nat]] /\ ops \in [Host -> Nat]
    /\ window \in [Host -> Pkt \cup {NoPkt}]
    /\ net \in [Host -> Seq(Pkt)]
    /\ slot \in [Slots -> Cell]
    /\ recirc \subseteq Passing
    /\ sound \in BOOLEAN

PacketsKnown ==
    /\ \A h \in Host : \A i \in 1 .. Len(net[h]) :
          net[h][i].host = h /\ Known(net[h][i], gens)
    /\ \A x \in recirc : Known(x.pkt, gens)
    /\ \A h \in Host : window[h] # NoPkt =>
          /\ window[h].host = h /\ Known(window[h], gens)
          /\ window[h].psn < psn[h][window[h].id]

SoundOk == sound => group # NoGroup /\ \E b \in Nat : GroupOk(b)

LifeInv == StateOk /\ PacketsKnown /\ SoundOk /\ wrong = FALSE

-----------------------------------------------------------------------------
(* The constants.                                                          *)

LEMMA Constants ==
    /\ Host \subseteq Int /\ IsFiniteSet(Host)
    /\ NGroups \in Nat \ {0} /\ AggLen \in Nat \ {0} /\ AggLen >= 2 /\ MaxGen \in Nat
    /\ \A M \in Memberships : M \subseteq Host /\ M # {} /\ IsFiniteSet(M)
    /\ Cardinality(Host) \in Nat
    /\ 0 \notin Group
<1>1. ASSUME NEW M \in Memberships PROVE M \subseteq Host /\ M # {} /\ IsFiniteSet(M)
  BY LifecycleAssumption, FS_Subset
<1>2. Cardinality(Host) \in Nat
  BY LifecycleAssumption, FS_CardinalityType
<1>3. 0 \notin Group
  BY DEF Group
<1> QED BY <1>1, <1>2, <1>3, LifecycleAssumption

(* Ranks are numbers below the number of members, and different.           *)
LEMMA RankRange ==
    ASSUME NEW M, M \subseteq Int, IsFiniteSet(M), NEW h \in M
    PROVE  /\ RankIn(h, M) \in 0 .. Cardinality(M) - 1
           /\ \A k \in M : h < k => RankIn(h, M) < RankIn(k, M)
<1> DEFINE Below(k) == {m \in M : m < k}
<1>1. ASSUME NEW k \in M
      PROVE  /\ IsFiniteSet(Below(k)) /\ RankIn(k, M) = Cardinality(Below(k))
             /\ RankIn(k, M) \in Nat
  <2>1. Below(k) \in SUBSET M
    OBVIOUS
  <2>2. IsFiniteSet(Below(k))
    BY <2>1, FS_Subset
  <2>3. RankIn(k, M) = Cardinality(Below(k))
    BY DEF RankIn
  <2> QED BY <2>2, <2>3, FS_CardinalityType
<1>2. RankIn(h, M) \in 0 .. Cardinality(M) - 1
  <2>1. Below(h) \in SUBSET M /\ h \notin Below(h)
    OBVIOUS
  <2>2. Below(h) # M
    BY <2>1
  <2>3. Cardinality(Below(h)) <= Cardinality(M) /\ Cardinality(M) # Cardinality(Below(h))
    BY <2>1, <2>2, FS_Subset
  <2>4. Cardinality(M) \in Nat
    BY FS_CardinalityType
  <2> QED BY <1>1, <2>3, <2>4
<1>3. ASSUME NEW k \in M, h < k PROVE RankIn(h, M) < RankIn(k, M)
  <2>0. h \in Int /\ k \in Int
    OBVIOUS
  <2>1. Below(h) \in SUBSET Below(k) /\ h \in Below(k) /\ h \notin Below(h)
    <3>1. ASSUME NEW m \in Below(h) PROVE m \in Below(k)
      <4>1. m \in M /\ m \in Int /\ m < h
        OBVIOUS
      <4>2. m < k
        BY <1>3, <2>0, <4>1
      <4> QED BY <4>1, <4>2
    <3>2. h \in Below(k)
      BY <1>3
    <3>3. h \notin Below(h)
      BY <2>0
    <3> QED BY <3>1, <3>2, <3>3
  <2>2. Below(h) # Below(k)
    BY <2>1
  <2>3. /\ Cardinality(Below(h)) <= Cardinality(Below(k))
        /\ Cardinality(Below(k)) # Cardinality(Below(h))
    BY <1>1, <2>1, <2>2, FS_Subset
  <2> QED BY <1>1, <2>3
<1> QED BY <1>2, <1>3

LEMMA RanksDiffer ==
    ASSUME NEW M \in Memberships, NEW h \in M, NEW k \in M, h # k
    PROVE  RankIn(h, M) # RankIn(k, M)
<1>1. M \subseteq Int /\ IsFiniteSet(M)
  BY Constants
<1>2. /\ RankIn(h, M) \in 0 .. Cardinality(M) - 1
      /\ h < k => RankIn(h, M) < RankIn(k, M)
  BY <1>1, RankRange
<1>3. /\ RankIn(k, M) \in 0 .. Cardinality(M) - 1
      /\ k < h => RankIn(k, M) < RankIn(h, M)
  BY <1>1, RankRange
<1>4. h \in Int /\ k \in Int
  BY <1>1
<1>5. h < k \/ k < h
  BY <1>4
<1>6. Cardinality(M) \in Nat
  BY <1>1, FS_CardinalityType
<1> QED BY <1>2, <1>3, <1>5, <1>6

LEMMA RankInBits ==
    ASSUME NEW M \in Memberships, NEW h \in M
    PROVE  /\ RankIn(h, M) \in 0 .. Cardinality(M) - 1
           /\ RankIn(h, M) \in Bits /\ RankIn(h, M) \in Nat
<1>1. M \subseteq Int /\ IsFiniteSet(M) /\ M \in SUBSET Host /\ IsFiniteSet(Host)
  BY Constants
<1>2. Cardinality(M) \in Nat /\ Cardinality(Host) \in Nat
  BY <1>1, FS_CardinalityType
<1>3. Cardinality(M) <= Cardinality(Host)
  BY <1>1, FS_Subset
<1>4. RankIn(h, M) \in 0 .. Cardinality(M) - 1
  BY <1>1, RankRange
<1> QED BY <1>2, <1>3, <1>4 DEF Bits


LEMMA GroupFacts ==
    ASSUME StateOk, group # NoGroup
    PROVE  /\ group.id \in Group /\ group.members \in Memberships
           /\ group.members \subseteq Host /\ group.members # {}
           /\ group.gen = gens /\ gens \in Nat /\ gens >= 1
<1>1. group \in [id : Group, members : Memberships, gen : 1 .. MaxGen] /\ group.gen = gens
  BY DEF StateOk
<1>2. group.id \in Group /\ group.members \in Memberships /\ group.gen \in 1 .. MaxGen
  BY <1>1
<1> QED BY <1>1, <1>2, Constants

(* A packet of the network.                                                *)
LEMMA PacketFacts ==
    ASSUME NEW p \in Pkt
    PROVE  /\ p.id \in Group /\ p.psn \in Nat /\ p.rank \in Nat /\ p.host \in Host
           /\ p.gen \in Nat /\ p.gen >= 1 /\ p.op \in Nat /\ p # NoPkt
<1>1. p.id # 0 /\ p.gen \in 1 .. MaxGen
  BY Constants DEF Pkt
<1> QED BY <1>1, Constants DEF Pkt, NoPkt

-----------------------------------------------------------------------------
(* What stays true when nothing gets behind.                               *)

Forward(g, o, q, o2, q2) ==
    \A m \in g.members : \A n \in Nat :
        Reached(m, n, g, o, q) => Reached(m, n, g, o2, q2)

LEMMA KeepSlots ==
    ASSUME NEW b, NEW g, NEW o, NEW q, NEW s, NEW o2, NEW q2,
           Forward(g, o, q, o2, q2), SlotsOk(b, g, o, q, s)
    PROVE  SlotsOk(b, g, o2, q2, s)
<1>1. ASSUME NEW a, NEW n \in Nat, Held(a, n, b, g, o, q, s)
      PROVE  Held(a, n, b, g, o2, q2, s)
  BY <1>1 DEF Held, Forward
<1> QED BY <1>1 DEF SlotsOk

LEMMA KeepRecirc ==
    ASSUME NEW b, NEW g, NEW o, NEW q, NEW s, NEW R \in SUBSET Passing,
           NEW o2, NEW q2, NEW S, S \subseteq R,
           Forward(g, o, q, o2, q2),
           \A m \in g.members : o[m] \in Nat /\ o2[m] \in Nat /\ o[m] <= o2[m],
           RecircOk(b, g, o, q, s, R)
    PROVE  RecircOk(b, g, o2, q2, s, S)
<1>1. SUFFICES ASSUME NEW x \in S, x.pkt.gen = g.gen
               PROVE  /\ Ours(x.pkt, b, g, o2)
                      /\ x.agg0 = Whole(x.pkt.op, g)
                      /\ Complete(x.pkt.op, b, g, o2, s)
                      /\ \A m \in g.members : Reached(m, x.pkt.op, g, o2, q2)
  BY DEF RecircOk
<1>2. /\ Ours(x.pkt, b, g, o) /\ x.agg0 = Whole(x.pkt.op, g)
      /\ Complete(x.pkt.op, b, g, o, s)
      /\ \A m \in g.members : Reached(m, x.pkt.op, g, o, q)
  BY <1>1 DEF RecircOk
<1>3. x.pkt \in Pkt
  BY DEF Passing
<1>4. x.pkt.op \in Nat
  BY <1>3, PacketFacts
<1>5. Ours(x.pkt, b, g, o2)
  <2>1. x.pkt.host \in g.members /\ x.pkt.op < o[x.pkt.host]
    BY <1>2 DEF Ours
  <2>2. x.pkt.op < o2[x.pkt.host]
    BY <1>4, <2>1
  <2> QED BY <1>2, <2>2 DEF Ours
<1>6. Complete(x.pkt.op, b, g, o2, s)
  <2>1. ASSUME NEW m \in g.members, o[m] > x.pkt.op + AggLen
        PROVE  o2[m] > x.pkt.op + AggLen
    <3> DEFINE y == x.pkt.op + AggLen
    <3>1. y \in Nat
      BY <1>4, Constants
    <3> HIDE DEF y
    <3>2. o2[m] > y
      BY <2>1, <3>1 DEF y
    <3> QED BY <3>2 DEF y
  <2> QED BY <1>2, <2>1 DEF Complete
<1> QED BY <1>2, <1>4, <1>5, <1>6 DEF Forward

(* A packet is taken from the front of a host's packets.                   *)
Takes(h, q, q2) ==
    /\ h \in Host /\ q \in [Host -> Seq(Pkt)] /\ q[h] # <<>>
    /\ q2 = [q EXCEPT ![h] = Tail(@)]

LEMMA TakeNet ==
    ASSUME NEW b, NEW g, NEW o, NEW q, NEW h, NEW q2,
           Takes(h, q, q2), NetOk(b, g, o, q)
    PROVE  /\ NetOk(b, g, o, q2)
           /\ \A m \in Host : \A n : Reached(m, n, g, o, q) => Reached(m, n, g, o, q2)
<1> USE DEF Takes
<1>1. q[h] \in Seq(Pkt) /\ DOMAIN q = Host
  OBVIOUS
<1>2. /\ Len(q[h]) \in Nat /\ Len(Tail(q[h])) = Len(q[h]) - 1
      /\ \A i \in 1 .. Len(Tail(q[h])) : Tail(q[h])[i] = q[h][i + 1] /\ i + 1 \in 1 .. Len(q[h])
  BY <1>1, TailFacts
<1>3. \A k \in Host : q2[k] = IF k = h THEN Tail(q[h]) ELSE q[k]
  BY <1>1
<1>4. ASSUME NEW k \in Host, NEW i \in 1 .. Len(q2[k]), q2[k][i].gen = g.gen
      PROVE  /\ Ours(q2[k][i], b, g, o)
             /\ \A j \in 1 .. i : q2[k][j].gen = g.gen => q2[k][j].op <= q2[k][i].op
  <2>1. CASE k = h
    <3>1. q2[k] = Tail(q[h]) /\ q2[k][i] = q[h][i + 1] /\ i + 1 \in 1 .. Len(q[h])
      BY <1>2, <1>3, <1>4, <2>1
    <3>2. \A j \in 1 .. i : q2[k][j] = q[h][j + 1] /\ j + 1 \in 1 .. i + 1
      <4>1. \A j \in 1 .. i : j \in 1 .. Len(Tail(q[h])) /\ j + 1 \in 1 .. i + 1
        BY <1>2, <1>4, <3>1
      <4> QED BY <1>2, <3>1, <4>1
    <3> QED BY <1>4, <3>1, <3>2 DEF NetOk
  <2>2. CASE k # h
    BY <1>3, <1>4, <2>2 DEF NetOk
  <2> QED BY <2>1, <2>2
<1>5. ASSUME NEW m \in Host, NEW n, Reached(m, n, g, o, q)
      PROVE  Reached(m, n, g, o, q2)
  <2>1. CASE m = h
    BY <1>2, <1>3, <1>5, <2>1 DEF Reached
  <2>2. CASE m # h
    BY <1>3, <1>5, <2>2 DEF Reached
  <2> QED BY <2>1, <2>2
<1> QED BY <1>4, <1>5 DEF NetOk


(* A packet is added behind a host's packets: the newest of this group, or *)
(* one of an earlier group.  The host has begun u operations by then.      *)
Puts(h, p, u, b, g, o, q, o2, q2) ==
    /\ h \in Host /\ p \in Pkt /\ u \in Nat /\ o[h] <= u
    /\ o \in [Host -> Nat] /\ q \in [Host -> Seq(Pkt)]
    /\ o2 = [o EXCEPT ![h] = u] /\ q2 = [q EXCEPT ![h] = Append(@, p)]
    /\ p.gen = g.gen => Ours(p, b, g, o2) /\ p.host = h /\ p.op + 1 = u
    /\ \A i \in 1 .. Len(q[h]) : q[h][i].host = h

LEMMA PutNet ==
    ASSUME NEW b, NEW g, NEW o, NEW q, NEW h, NEW p, NEW u, NEW o2, NEW q2,
           Puts(h, p, u, b, g, o, q, o2, q2), NetOk(b, g, o, q)
    PROVE  /\ NetOk(b, g, o2, q2)
           /\ \A m \in Host : \A n \in Nat :
                Reached(m, n, g, o, q) => Reached(m, n, g, o2, q2)
<1> USE DEF Puts
<1>1. q[h] \in Seq(Pkt) /\ DOMAIN q = Host /\ DOMAIN o = Host
  OBVIOUS
<1>2. /\ Len(q[h]) \in Nat /\ Len(Append(q[h], p)) = Len(q[h]) + 1
      /\ \A i \in 1 .. Len(q[h]) : Append(q[h], p)[i] = q[h][i]
      /\ Append(q[h], p)[Len(q[h]) + 1] = p
  BY <1>1, AppendFacts
<1>3. \A k \in Host : /\ q2[k] = IF k = h THEN Append(q[h], p) ELSE q[k]
                      /\ o2[k] = IF k = h THEN u ELSE o[k]
                      /\ o[k] \in Nat
  BY <1>1
<1>4. \A k \in Host : o2[k] \in Nat /\ o[k] <= o2[k]
  BY <1>3
<1>5. ASSUME NEW k \in Host, NEW i \in 1 .. Len(q[k]), q[k][i].gen = g.gen
      PROVE  Ours(q[k][i], b, g, o2) /\ q[k][i].op \in Nat
  <2>1. q[k][i] \in Pkt
    BY <1>5, ElementOfSeq
  <2>2. q[k][i].op \in Nat /\ q[k][i].host \in Host
    BY <2>1, PacketFacts
  <2>3. Ours(q[k][i], b, g, o)
    BY <1>5 DEF NetOk
  <2>4. q[k][i].op < o2[q[k][i].host]
    <3>1. q[k][i].op < o[q[k][i].host]
      BY <2>3 DEF Ours
    <3> QED BY <1>3, <1>4, <2>2, <3>1
  <2> QED BY <2>2, <2>3, <2>4 DEF Ours
<1>6. ASSUME NEW i \in 1 .. Len(q[h]), q[h][i].gen = g.gen
      PROVE  q[h][i].op < o[h] /\ q[h][i].op \in Nat
  <2>1. Ours(q[h][i], b, g, o)
    BY <1>6 DEF NetOk
  <2> QED BY <1>5, <1>6, <2>1 DEF Ours
<1>7. p.op \in Nat
  BY PacketFacts
<1>8. ASSUME NEW k \in Host, NEW i \in 1 .. Len(q2[k]), q2[k][i].gen = g.gen
      PROVE  /\ Ours(q2[k][i], b, g, o2)
             /\ \A j \in 1 .. i : q2[k][j].gen = g.gen => q2[k][j].op <= q2[k][i].op
  <2>1. CASE k # h
    <3>1. q2[k] = q[k]
      BY <1>3, <2>1
    <3> QED BY <1>5, <1>8, <3>1 DEF NetOk
  <2>2. CASE k = h /\ i \in 1 .. Len(q[h])
    <3>1. q2[k] = Append(q[h], p)
      BY <1>3, <2>2
    <3>2. \A j \in 1 .. i : j \in 1 .. Len(q[h])
      BY <1>2, <2>2
    <3>3. q2[k][i] = q[h][i] /\ \A j \in 1 .. i : q2[k][j] = q[h][j]
      BY <1>2, <2>2, <3>1, <3>2
    <3> QED BY <1>5, <1>8, <2>2, <3>3 DEF NetOk
  <2>3. CASE k = h /\ i = Len(q[h]) + 1
    <3>1. q2[k] = Append(q[h], p) /\ q2[k][i] = p
      BY <1>2, <1>3, <2>3
    <3>2. Ours(p, b, g, o2) /\ p.op + 1 = u
      BY <1>8, <3>1
    <3>3. ASSUME NEW j \in 1 .. i, q2[k][j].gen = g.gen PROVE q2[k][j].op <= p.op
      <4>1. CASE j = i
        BY <1>7, <3>1, <4>1
      <4>2. CASE j # i
        <5>1. j \in 1 .. Len(q[h])
          BY <1>2, <2>3, <4>2
        <5>2. q2[k][j] = q[h][j]
          BY <1>2, <3>1, <5>1
        <5>3. q[h][j].op < o[h] /\ q[h][j].op \in Nat
          BY <1>6, <3>3, <5>1, <5>2
        <5>4. o[h] \in Nat
          BY <1>3
        <5> QED BY <1>7, <3>2, <5>2, <5>3, <5>4
      <4> QED BY <4>1, <4>2
    <3> QED BY <3>1, <3>2, <3>3
  <2>4. k # h \/ i \in 1 .. Len(q[h]) \/ i = Len(q[h]) + 1
    BY <1>2, <1>3, <1>8
  <2> QED BY <2>1, <2>2, <2>3, <2>4
<1>9. ASSUME NEW m \in Host, NEW n \in Nat, Reached(m, n, g, o, q)
      PROVE  Reached(m, n, g, o2, q2)
  <2>1. o2[m] > n
    BY <1>3, <1>4, <1>9 DEF Reached
  <2>2. CASE m # h
    BY <1>3, <1>9, <2>1, <2>2 DEF Reached
  <2>3. CASE m = h
    <3>1. q2[m] = Append(q[h], p) /\ o[h] > n
      BY <1>3, <1>9, <2>3 DEF Reached
    <3>2. ASSUME NEW i \in 1 .. Len(q[h]) + 1, q2[m][i].gen = g.gen PROVE q2[m][i].op >= n
      <4>1. CASE i = Len(q[h]) + 1
        <5>1. q2[m][i] = p
          BY <1>2, <3>1, <4>1
        <5>2. p.op + 1 = u
          BY <3>2, <5>1
        <5>3. o[h] \in Nat
          BY <1>3
        <5> QED BY <1>7, <3>1, <5>1, <5>2, <5>3
      <4>2. CASE i \in 1 .. Len(q[h])
        <5>1. q2[m][i] = q[h][i]
          BY <1>2, <3>1, <4>2
        <5> QED BY <1>9, <2>3, <3>2, <4>2, <5>1 DEF Reached
      <4>3. i = Len(q[h]) + 1 \/ i \in 1 .. Len(q[h])
        BY <1>2
      <4> QED BY <4>1, <4>2, <4>3
    <3> QED BY <1>2, <2>1, <3>1, <3>2 DEF Reached
  <2> QED BY <2>2, <2>3
<1> QED BY <1>8, <1>9 DEF NetOk

-----------------------------------------------------------------------------
(* The controller.                                                         *)

LEMMA InitLife == Init => LifeInv
<1>1. SUFFICES ASSUME Init PROVE LifeInv
  OBVIOUS
<1>2. free_group \in Seq(Group) /\ Len(free_group) = NGroups
  <2>1. free_group \in [1 .. NGroups -> Group]
    BY <1>1 DEF Init, InitialGroups, Group
  <2> QED BY <2>1, Constants
<1>3. slot \in [Slots -> Cell]
  <2>1. Cleared \in Cell
    BY DEF Cleared, Cell, Sums
  <2> QED BY <1>1, <2>1 DEF Init
<1>4. StateOk
  <2>1. Len(free_group) + (IF group = NoGroup THEN 0 ELSE 1) <= NGroups
    BY <1>1, <1>2, Constants DEF Init
  <2>2. gens \in 0 .. MaxGen
    BY <1>1, Constants DEF Init
  <2>3. /\ psn \in [Host -> [Group -> Nat]] /\ ops \in [Host -> Nat]
        /\ window \in [Host -> Pkt \cup {NoPkt}] /\ net \in [Host -> Seq(Pkt)]
        /\ recirc \subseteq Passing
    BY <1>1 DEF Init
  <2> QED BY <1>1, <1>2, <1>3, <2>1, <2>2, <2>3 DEF Init, StateOk
<1>5. PacketsKnown
  BY <1>1 DEF Init, PacketsKnown
<1> QED BY <1>1, <1>4, <1>5 DEF LifeInv, SoundOk, Init

(* The group is gone, its packets may be everywhere.                       *)
LEMMA DestroyGroupLife ==
    ASSUME LifeInv, DestroyGroup
    PROVE  LifeInv'
<1>1. group.id \in Group
  BY GroupFacts DEF LifeInv, DestroyGroup
<1>2. free_group' \in Seq(Group) /\ Len(free_group') = Len(free_group) + 1
      /\ Len(free_group) \in Nat
  BY <1>1, AppendFacts DEF LifeInv, StateOk, DestroyGroup
<1>3. Len(free_group) + 1 <= NGroups
  BY DEF LifeInv, StateOk, DestroyGroup
<1>4. StateOk'
  <2>1. group' = NoGroup
    BY DEF DestroyGroup
  <2>2. (Len(free_group) + (IF group = NoGroup THEN 0 ELSE 1) <= NGroups)'
    BY <1>2, <1>3, <2>1
  <2> QED BY <1>2, <2>1, <2>2 DEF LifeInv, StateOk, DestroyGroup, hostVars
<1>5. PacketsKnown'
  BY DEF LifeInv, PacketsKnown, DestroyGroup, hostVars
<1> QED BY <1>4, <1>5 DEF LifeInv, SoundOk, DestroyGroup

LEMMA InitRPCLife ==
    ASSUME LifeInv, InitRPC
    PROVE  LifeInv'
<1>1. free_group' \in Seq(Group) /\ Len(free_group') = NGroups
  <2>1. free_group' \in [1 .. NGroups -> Group]
    BY DEF InitRPC, InitialGroups, Group
  <2> QED BY <2>1, Constants
<1>2. StateOk'
  <2>1. group' = NoGroup
    BY DEF InitRPC
  <2>2. (Len(free_group) + (IF group = NoGroup THEN 0 ELSE 1) <= NGroups)'
    BY <1>1, <2>1, Constants
  <2> QED BY <1>1, <2>1, <2>2 DEF LifeInv, StateOk, InitRPC, hostVars
<1>3. PacketsKnown'
  BY DEF LifeInv, PacketsKnown, InitRPC, hostVars
<1> QED BY <1>2, <1>3 DEF LifeInv, SoundOk, InitRPC


(* A new group: no packet is of it, and its slots have no version.         *)
LEMMA CreateGroupLife ==
    ASSUME LifeInv, NEW members \in Memberships, CreateGroup(members)
    PROVE  LifeInv'
<1> DEFINE g == Head(free_group)
<1>1. /\ group = NoGroup /\ gens < MaxGen /\ free_group # <<>>
      /\ group' = [id |-> g, members |-> members, gen |-> gens + 1]
      /\ sound' = (\A m, n \in members : psn[m][g] = psn[n][g])
      /\ free_group' = Tail(free_group) /\ gens' = gens + 1 /\ slot' = ClearSlots
      /\ ops' = [h \in Host |-> 0]
      /\ UNCHANGED <<psn, window, net, recirc, wrong, faults>>
  BY DEF CreateGroup
<1>2. gens \in Nat /\ gens' \in 1 .. MaxGen /\ gens' \in 0 .. MaxGen
  BY <1>1, Constants DEF LifeInv, StateOk
<1>3. /\ g \in Group /\ free_group' \in Seq(Group)
      /\ Len(free_group) \in Nat /\ Len(free_group') = Len(free_group) - 1
  BY <1>1, TailFacts DEF LifeInv, StateOk
<1> HIDE DEF g
<1>4. /\ group' \in [id : Group, members : Memberships, gen : 1 .. MaxGen]
      /\ group'.id = g /\ group'.members = members /\ group'.gen = gens'
  BY <1>1, <1>2, <1>3
<1>5. group' # NoGroup
  BY <1>3, <1>4, Constants DEF NoGroup
<1>6. /\ slot' \in [Slots -> Cell]
      /\ \A a \in Slots : slot'[a].version = Cleared.version
  <2>1. ASSUME NEW a \in Slots
        PROVE  /\ slot'[a] \in Cell /\ slot'[a].version = Cleared.version
    <3>1. slot[a] \in Cell
      BY DEF LifeInv, StateOk
    <3>2. slot'[a] = [slot[a] EXCEPT !.version = Cleared.version, !.bitmap = Cleared.bitmap]
      BY <1>1 DEF ClearSlots
    <3>3. Cleared.version \in Nat \X Nat /\ Cleared.bitmap \in SUBSET Bits
      BY DEF Cleared
    <3> QED BY <3>1, <3>2, <3>3 DEF Cell
  <2> QED BY <1>1, <2>1 DEF ClearSlots
<1>7. StateOk'
  <2>1. (Len(free_group) + (IF group = NoGroup THEN 0 ELSE 1) <= NGroups)'
    <3>1. Len(free_group) <= NGroups
      BY <1>1, <1>3, Constants DEF LifeInv, StateOk
    <3> QED BY <1>3, <1>5, <3>1, Constants
  <2>2. ops' \in [Host -> Nat]
    BY <1>1
  <2>3. sound' \in BOOLEAN
    BY <1>1
  <2> QED BY <1>1, <1>2, <1>3, <1>4, <1>6, <2>1, <2>2, <2>3 DEF LifeInv, StateOk
<1>8. \A p : Known(p, gens) /\ p.gen \in Nat => Known(p, gens') /\ p.gen # gens'
  BY <1>1, <1>2 DEF Known
<1>9. /\ \A h \in Host : \A i \in 1 .. Len(net[h]) : net[h][i].gen \in Nat
      /\ \A x \in recirc : x.pkt.gen \in Nat
      /\ \A h \in Host : window[h].gen \in Nat
  <2>1. ASSUME NEW h \in Host, NEW i \in 1 .. Len(net[h]) PROVE net[h][i].gen \in Nat
    <3>1. net[h] \in Seq(Pkt)
      BY DEF LifeInv, StateOk
    <3> QED BY <3>1, ElementOfSeq, PacketFacts
  <2>2. ASSUME NEW x \in recirc PROVE x.pkt.gen \in Nat
    <3>1. x.pkt \in Pkt
      BY DEF LifeInv, StateOk, Passing
    <3> QED BY <3>1, PacketFacts
  <2>3. ASSUME NEW h \in Host PROVE window[h].gen \in Nat
    <3>1. window[h] \in Pkt \cup {NoPkt}
      BY DEF LifeInv, StateOk
    <3>2. NoPkt.gen \in Nat
      BY DEF NoPkt
    <3> QED BY <3>1, <3>2, PacketFacts
  <2> QED BY <2>1, <2>2, <2>3
<1>10. PacketsKnown'
  <2>1. \A h \in Host : \A i \in 1 .. Len(net[h]) : net[h][i].host = h /\ Known(net[h][i], gens')
    BY <1>8, <1>9 DEF LifeInv, PacketsKnown
  <2>2. \A x \in recirc : Known(x.pkt, gens')
    BY <1>8, <1>9 DEF LifeInv, PacketsKnown
  <2>3. \A h \in Host : window[h] # NoPkt =>
          /\ window[h].host = h /\ Known(window[h], gens')
          /\ window[h].psn < psn[h][window[h].id]
    BY <1>8, <1>9 DEF LifeInv, PacketsKnown
  <2> QED BY <1>1, <2>1, <2>2, <2>3 DEF PacketsKnown
<1>11. ASSUME sound' PROVE \E b \in Nat : GroupOk(b)'
  <2>1. PICK k : k \in members
    BY Constants
  <2>0. members \subseteq Host /\ k \in Host
    BY <2>1, Constants
  <2>a. psn[k] \in [Group -> Nat]
    BY <2>0 DEF LifeInv, StateOk
  <2>b. psn[k][g] \in Nat
    BY <1>3, <2>a
  <2>2. PICK b \in Nat : b = psn[k][g]
    BY <2>b
  <2>3. \A m \in members : psn[m][g] = b /\ ops'[m] = 0
    BY <1>1, <1>11, <2>0, <2>1, <2>2
  <2>4. /\ \A h \in Host : \A i \in 1 .. Len(net[h]) : net[h][i].gen # gens'
        /\ \A x \in recirc : x.pkt.gen # gens'
    BY <1>8, <1>9 DEF LifeInv, PacketsKnown
  <2>5. \A h \in Host : window[h].gen # gens'
    <3>1. NoPkt.gen # gens'
      BY <1>2 DEF NoPkt
    <3> QED BY <1>8, <1>9, <3>1 DEF LifeInv, PacketsKnown
  <2>6. PsnOk(b, group', ops', psn')
    BY <1>1, <1>4, <2>3 DEF PsnOk
  <2>7. NetOk(b, group', ops', net')
    BY <1>1, <1>4, <2>4 DEF NetOk
  <2>8. SlotsOk(b, group', ops', net', slot')
    <3>1. Cleared.version[1] # group'.id
      BY <1>3, <1>4, Constants DEF Cleared
    <3> QED BY <1>6, <3>1 DEF SlotsOk, Foreign
  <2>9. RecircOk(b, group', ops', net', slot', recirc')
    BY <1>1, <1>4, <2>4 DEF RecircOk
  <2>10. WindowsOk(b, group', ops', window')
    <3>1. ASSUME NEW h \in members, window[h].id = g PROVE window[h].psn < b
      <4>1. window[h] # NoPkt
        BY <1>3, <3>1, Constants DEF NoPkt
      <4>2. window[h].psn < psn[h][window[h].id]
        BY <2>0, <4>1 DEF LifeInv, PacketsKnown
      <4> QED BY <2>3, <3>1, <4>2
    <3> QED BY <1>1, <1>4, <2>5, <3>1 DEF WindowsOk
  <2>11. AnsweredOk(group', ops', net', window')
    <3>1. \A m \in members : \A n \in Nat : ~(n + 1 < ops'[m]) /\ n + 1 # ops'[m]
      BY <2>3
    <3> QED BY <1>4, <3>1 DEF AnsweredOk
  <2>12. GroupOk(b)'
    BY <2>6, <2>7, <2>8, <2>9, <2>10, <2>11 DEF GroupOk
  <2> QED BY <2>12
<1> QED BY <1>1, <1>5, <1>7, <1>10, <1>11 DEF LifeInv, SoundOk


(* Daemons of hosts outside the group are restarted.                       *)
LEMMA RestartLife ==
    ASSUME LifeInv, NEW H \in SUBSET Host, Restart(H)
    PROVE  LifeInv'
<1>1. /\ psn' = [h \in Host |-> IF h \in H THEN [g \in Group |-> 0] ELSE psn[h]]
      /\ window' = [h \in Host |-> IF h \in H THEN NoPkt ELSE window[h]]
      /\ sound' = (sound /\ H \cap group.members = {})
      /\ UNCHANGED <<free_group, group, gens, ops, net, slot, recirc, wrong>>
  BY DEF Restart, controlVars
<1>2. StateOk'
  <2>1. psn' \in [Host -> [Group -> Nat]]
    BY <1>1 DEF LifeInv, StateOk
  <2>2. window' \in [Host -> Pkt \cup {NoPkt}]
    BY <1>1 DEF LifeInv, StateOk
  <2>3. sound' \in BOOLEAN
    BY <1>1 DEF LifeInv, StateOk
  <2> QED BY <1>1, <2>1, <2>2, <2>3 DEF LifeInv, StateOk
<1>3. PacketsKnown'
  <2>1. \A h \in Host : window'[h] # NoPkt =>
          /\ window'[h].host = h /\ Known(window'[h], gens)
          /\ window'[h].psn < psn'[h][window'[h].id]
    BY <1>1 DEF LifeInv, PacketsKnown
  <2> QED BY <1>1, <2>1 DEF LifeInv, PacketsKnown
<1>4. ASSUME sound' PROVE group' # NoGroup /\ \E b \in Nat : GroupOk(b)'
  <2>1. sound /\ \A m \in group.members : m \notin H
    BY <1>1, <1>4
  <2>2. group # NoGroup
    BY <2>1 DEF LifeInv, SoundOk
  <2>3. PICK b \in Nat : GroupOk(b)
    BY <2>1 DEF LifeInv, SoundOk
  <2>4. group.members \subseteq Host /\ group.gen # 0
    BY <2>2, GroupFacts DEF LifeInv
  <2>5. \A m \in group.members : psn'[m] = psn[m] /\ window'[m] = window[m]
    BY <1>1, <2>1, <2>4
  <2>6. PsnOk(b, group, ops, psn')
    BY <2>3, <2>5 DEF GroupOk, PsnOk
  <2>7. WindowsOk(b, group, ops, window')
    <3>1. NoPkt.gen # group.gen
      BY <2>4 DEF NoPkt
    <3> QED BY <1>1, <2>3, <2>5, <3>1 DEF GroupOk, WindowsOk
  <2>8. AnsweredOk(group, ops, net, window')
    BY <2>3, <2>5 DEF GroupOk, AnsweredOk
  <2>9. GroupOk(b)'
    BY <1>1, <2>3, <2>6, <2>7, <2>8 DEF GroupOk
  <2> QED BY <1>1, <2>2, <2>9
<1> QED BY <1>1, <1>2, <1>3, <1>4 DEF LifeInv, SoundOk

-----------------------------------------------------------------------------
(* The hosts.                                                              *)

(* A host begins its next operation.                                       *)
LEMMA GenPktLife ==
    ASSUME LifeInv, NEW h \in Host, GenPkt(h)
    PROVE  LifeInv'
<1> DEFINE g == group.id
           p == [id |-> g, psn |-> psn[h][g], rank |-> RankIn(h, group.members),
                 host |-> h, gen |-> group.gen, op |-> ops[h]]
           u == ops[h] + 1
           v == psn[h][g] + 1
<1>1. /\ h \in group.members /\ window[h] = NoPkt
      /\ window' = [window EXCEPT ![h] = p]
      /\ net' = [net EXCEPT ![h] = Append(@, p)]
      /\ psn' = [psn EXCEPT ![h][g] = v]
      /\ ops' = [ops EXCEPT ![h] = u]
      /\ UNCHANGED <<free_group, group, gens, slot, recirc, sound, wrong, faults>>
  BY DEF GenPkt, controlVars
<1>2. group # NoGroup
  BY <1>1 DEF NoGroup
<1>3. /\ g \in Group /\ group.members \in Memberships /\ group.members \subseteq Host
      /\ group.gen = gens /\ gens \in Nat /\ gens >= 1 /\ gens \in 1 .. MaxGen
  <2>1. gens \in 0 .. MaxGen
    BY DEF LifeInv, StateOk
  <2> QED BY <1>2, <2>1, GroupFacts, Constants DEF LifeInv
<1>4. /\ psn \in [Host -> [Group -> Nat]] /\ ops \in [Host -> Nat]
      /\ window \in [Host -> Pkt \cup {NoPkt}] /\ net \in [Host -> Seq(Pkt)]
  BY DEF LifeInv, StateOk
<1>5. psn[h] \in [Group -> Nat] /\ ops[h] \in Nat
  BY <1>4
<1>6. psn[h][g] \in Nat /\ u \in Nat /\ v \in Nat /\ ops[h] <= u /\ psn[h][g] < v
  <2>1. psn[h][g] \in Nat
    BY <1>3, <1>5
  <2> QED BY <1>5, <2>1
<1>7. RankIn(h, group.members) \in Bits /\ RankIn(h, group.members) \in Nat
  BY <1>1, <1>3, RankInBits
<1>8. /\ p \in Pkt /\ p.id = g /\ p.psn = psn[h][g] /\ p.host = h /\ p.gen = gens
      /\ p.rank = RankIn(h, group.members) /\ p.op = ops[h] /\ p.gen = group.gen
  BY <1>3, <1>5, <1>6, <1>7 DEF Pkt
<1> HIDE DEF p, u, v, g
<1>9. net[h] \in Seq(Pkt) /\ Append(net[h], p) \in Seq(Pkt)
  BY <1>4, <1>8
<1>10. StateOk'
  <2>1. psn' \in [Host -> [Group -> Nat]]
    BY <1>1, <1>3, <1>4, <1>6
  <2>2. ops' \in [Host -> Nat]
    BY <1>1, <1>4, <1>6
  <2>3. window' \in [Host -> Pkt \cup {NoPkt}]
    BY <1>1, <1>4, <1>8
  <2>4. net' \in [Host -> Seq(Pkt)]
    BY <1>1, <1>4, <1>9
  <2> QED BY <1>1, <2>1, <2>2, <2>3, <2>4 DEF LifeInv, StateOk
<1>11. /\ \A k \in Host : net'[k] = IF k = h THEN Append(net[h], p) ELSE net[k]
       /\ \A k \in Host : window'[k] = IF k = h THEN p ELSE window[k]
       /\ \A k \in Host : ops'[k] = IF k = h THEN u ELSE ops[k]
       /\ \A k \in Host : k # h => psn'[k] = psn[k]
       /\ psn'[h][g] = v
  BY <1>1, <1>3, <1>4, <1>5
<1>12. PacketsKnown'
  <2>1. Known(p, gens)
    BY <1>3, <1>7, <1>8 DEF Known
  <2>2. ASSUME NEW k \in Host, NEW i \in 1 .. Len(net'[k])
        PROVE  net'[k][i].host = k /\ Known(net'[k][i], gens)
    <3>1. CASE k # h
      BY <1>11, <3>1 DEF LifeInv, PacketsKnown
    <3>2. CASE k = h
      <4>1. /\ Len(net[h]) \in Nat /\ Len(Append(net[h], p)) = Len(net[h]) + 1
            /\ \A j \in 1 .. Len(net[h]) : Append(net[h], p)[j] = net[h][j]
            /\ Append(net[h], p)[Len(net[h]) + 1] = p
        BY <1>8, <1>9, AppendFacts
      <4>2. net'[k] = Append(net[h], p)
        BY <1>11, <3>2
      <4>3. i \in 1 .. Len(net[h]) \/ i = Len(net[h]) + 1
        BY <4>1, <4>2
      <4>4. CASE i \in 1 .. Len(net[h])
        <5>1. net'[k][i] = net[h][i]
          BY <4>1, <4>2, <4>4
        <5> QED BY <3>2, <4>4, <5>1 DEF LifeInv, PacketsKnown
      <4>5. CASE i = Len(net[h]) + 1
        <5>1. net'[k][i] = p
          BY <4>1, <4>2, <4>5
        <5> QED BY <1>8, <2>1, <3>2, <5>1
      <4> QED BY <4>3, <4>4, <4>5
    <3> QED BY <3>1, <3>2
  <2>3. ASSUME NEW k \in Host, window'[k] # NoPkt
        PROVE  /\ window'[k].host = k /\ Known(window'[k], gens)
               /\ window'[k].psn < psn'[k][window'[k].id]
    <3>1. CASE k # h
      BY <1>11, <2>3, <3>1 DEF LifeInv, PacketsKnown
    <3>2. CASE k = h
      BY <1>6, <1>8, <1>11, <2>1, <3>2
    <3> QED BY <3>1, <3>2
  <2> QED BY <1>1, <2>2, <2>3 DEF LifeInv, PacketsKnown
<1>13. ASSUME sound' PROVE group' # NoGroup /\ \E b \in Nat : GroupOk(b)'
  <2>1. PICK b \in Nat : GroupOk(b)
    BY <1>1, <1>13 DEF LifeInv, SoundOk
  <2>2. /\ PsnOk(b, group, ops, psn) /\ NetOk(b, group, ops, net)
        /\ SlotsOk(b, group, ops, net, slot)
        /\ RecircOk(b, group, ops, net, slot, recirc)
        /\ WindowsOk(b, group, ops, window) /\ AnsweredOk(group, ops, net, window)
    BY <2>1 DEF GroupOk
  <2>3. psn[h][g] = b + ops[h]
    BY <1>1, <2>2 DEF PsnOk, g
  <2>4. Ours(p, b, group, ops')
    <3>1. p.op < ops'[h]
      BY <1>5, <1>8, <1>11 DEF u
    <3> QED BY <1>1, <1>8, <2>3, <3>1 DEF Ours, g
  <2>5. p.op + 1 = u
    BY <1>8 DEF u
  <2>6. \A i \in 1 .. Len(net[h]) : net[h][i].host = h
    BY DEF LifeInv, PacketsKnown
  <2>7. /\ NetOk(b, group, ops', net')
        /\ \A m \in Host : \A n \in Nat :
             Reached(m, n, group, ops, net) => Reached(m, n, group, ops', net')
    <3>1. p.gen = group.gen => Ours(p, b, group, ops') /\ p.host = h /\ p.op + 1 = u
      BY <1>8, <2>4, <2>5
    <3>2. p \in Pkt /\ u \in Nat /\ ops[h] <= u
      BY <1>6, <1>8
    <3>3. ops \in [Host -> Nat] /\ net \in [Host -> Seq(Pkt)] /\ NetOk(b, group, ops, net)
      BY <1>4, <2>2
    <3>4. ops' = [ops EXCEPT ![h] = u] /\ net' = [net EXCEPT ![h] = Append(@, p)]
      BY <1>1
    <3>5. Puts(h, p, u, b, group, ops, net, ops', net')
      BY <2>6, <3>1, <3>2, <3>3, <3>4 DEF Puts
    <3> QED BY <3>3, <3>5, PutNet
  <2>8. Forward(group, ops, net, ops', net')
    BY <1>3, <2>7 DEF Forward
  <2>9. \A m \in Host : ops[m] \in Nat /\ ops'[m] \in Nat /\ ops[m] <= ops'[m]
    <3>1. ASSUME NEW m \in Host PROVE ops[m] \in Nat /\ ops'[m] \in Nat /\ ops[m] <= ops'[m]
      <4>1. ops[m] \in Nat
        BY <1>4
      <4>2. ops'[m] = u \/ ops'[m] = ops[m]
        BY <1>11
      <4>3. m # h => ops'[m] = ops[m]
        BY <1>11
      <4> QED BY <1>6, <4>1, <4>2, <4>3
    <3> QED BY <3>1
  <2>10. PsnOk(b, group, ops', psn')
    <3>1. ASSUME NEW m \in group.members PROVE psn'[m][g] = b + ops'[m]
      <4>1. CASE m = h
        BY <1>5, <1>11, <2>3, <4>1 DEF u, v
      <4>2. CASE m # h
        BY <1>3, <1>11, <2>2, <4>2 DEF PsnOk, g
      <4> QED BY <4>1, <4>2
    <3> QED BY <3>1 DEF PsnOk, g
  <2>11. SlotsOk(b, group, ops', net', slot)
    BY <2>2, <2>8, KeepSlots
  <2>12. RecircOk(b, group, ops', net', slot, recirc)
    <3>1. recirc \in SUBSET Passing /\ recirc \subseteq recirc
      BY DEF LifeInv, StateOk
    <3>2. \A m \in group.members : ops[m] \in Nat /\ ops'[m] \in Nat /\ ops[m] <= ops'[m]
      BY <1>3, <2>9
    <3> QED BY <2>2, <2>8, <3>1, <3>2, KeepRecirc
  <2>13. WindowsOk(b, group, ops', window')
    <3>1. ASSUME NEW k \in Host, k # h, window'[k].gen = group.gen
          PROVE  Ours(window'[k], b, group, ops') /\ window'[k].host = k
                 /\ window'[k].op + 1 = ops'[k]
      <4>1. /\ Ours(window[k], b, group, ops) /\ window[k].host = k
            /\ window[k].op + 1 = ops[k] /\ window'[k] = window[k] /\ ops'[k] = ops[k]
        BY <1>11, <2>2, <3>1 DEF WindowsOk
      <4> QED BY <4>1 DEF Ours
    <3>2. ASSUME NEW k \in group.members, window'[k].gen # group.gen, window'[k].id = group.id
          PROVE  window'[k].psn < b
      BY <1>3, <1>8, <1>11, <2>2, <3>2 DEF WindowsOk
    <3> QED BY <1>8, <1>11, <2>4, <2>5, <3>1, <3>2 DEF WindowsOk
  <2>14. AnsweredOk(group, ops', net', window')
    <3>1. SUFFICES ASSUME NEW m \in group.members, NEW k \in group.members, NEW n \in Nat,
                          n + 1 < ops'[m] \/ (n + 1 = ops'[m] /\ window'[m].gen # group.gen)
                   PROVE  Reached(k, n, group, ops', net')
      BY DEF AnsweredOk
    <3>2. n + 1 < ops[m] \/ (n + 1 = ops[m] /\ window[m].gen # group.gen)
      <4>1. CASE m = h
        <5>1. window'[m].gen = group.gen /\ ops'[m] = ops[h] + 1
          BY <1>3, <1>8, <1>11, <4>1 DEF u
        <5>2. window[m].gen # group.gen
          BY <1>1, <1>3, <4>1 DEF NoPkt
        <5>3. n + 1 < ops[h] + 1
          BY <3>1, <5>1
        <5> QED BY <1>5, <4>1, <5>2, <5>3
      <4>2. CASE m # h
        BY <1>3, <1>11, <3>1, <4>2
      <4> QED BY <4>1, <4>2
    <3>3. Reached(k, n, group, ops, net)
      BY <2>2, <3>2 DEF AnsweredOk
    <3> QED BY <1>3, <2>7, <3>3
  <2>15. GroupOk(b)'
    BY <1>1, <2>7, <2>10, <2>11, <2>12, <2>13, <2>14 DEF GroupOk
  <2> QED BY <1>1, <1>2, <2>15
<1> QED BY <1>1, <1>10, <1>12, <1>13 DEF LifeInv, SoundOk


(* A step that only moves packets of the network.                          *)
LEMMA NetOnly ==
    ASSUME LifeInv, group # NoGroup, NEW b \in Nat, GroupOk(b),
           NetOk(b, group, ops, net'),
           \A m \in Host : \A n \in Nat :
              Reached(m, n, group, ops, net) => Reached(m, n, group, ops, net'),
           UNCHANGED <<group, gens, psn, window, ops, slot, recirc>>
    PROVE  GroupOk(b)'
<1>1. group.members \subseteq Host
  BY GroupFacts DEF LifeInv
<1>2. Forward(group, ops, net, ops, net')
  BY <1>1 DEF Forward
<1>3. /\ PsnOk(b, group, ops, psn) /\ SlotsOk(b, group, ops, net, slot)
      /\ RecircOk(b, group, ops, net, slot, recirc)
      /\ WindowsOk(b, group, ops, window) /\ AnsweredOk(group, ops, net, window)
  BY DEF GroupOk
<1>4. SlotsOk(b, group, ops, net', slot)
  BY <1>2, <1>3, KeepSlots
<1>5. RecircOk(b, group, ops, net', slot, recirc)
  <2>1. recirc \in SUBSET Passing /\ recirc \subseteq recirc
    BY DEF LifeInv, StateOk
  <2>2. \A m \in group.members : ops[m] \in Nat /\ ops[m] <= ops[m]
    BY <1>1 DEF LifeInv, StateOk
  <2> QED BY <1>2, <1>3, <2>1, <2>2, KeepRecirc
<1>6. AnsweredOk(group, ops, net', window)
  BY <1>1, <1>3 DEF AnsweredOk
<1> QED BY <1>3, <1>4, <1>5, <1>6 DEF GroupOk

(* A host sends the packet of its window again.                            *)
LEMMA FullRetransLife ==
    ASSUME LifeInv, NEW h \in Host, FullRetrans(h)
    PROVE  LifeInv'
<1> DEFINE p == window[h]
<1>1. /\ p # NoPkt /\ net' = [net EXCEPT ![h] = Append(@, p)]
      /\ UNCHANGED <<free_group, group, gens, psn, window, ops, slot, recirc, sound, wrong>>
  BY DEF FullRetrans, controlVars, hostVars
<1>2. ops \in [Host -> Nat] /\ net \in [Host -> Seq(Pkt)] /\ p \in Pkt
  BY <1>1 DEF LifeInv, StateOk
<1>3. p.host = h /\ Known(p, gens)
  BY <1>1 DEF LifeInv, PacketsKnown
<1>5. net[h] \in Seq(Pkt) /\ Append(net[h], p) \in Seq(Pkt)
  BY <1>2
<1>6. \A k \in Host : net'[k] = IF k = h THEN Append(net[h], p) ELSE net[k]
  BY <1>1, <1>2
<1>7. StateOk'
  <2>1. net' \in [Host -> Seq(Pkt)]
    BY <1>1, <1>2, <1>5
  <2> QED BY <1>1, <2>1 DEF LifeInv, StateOk
<1>8. PacketsKnown'
  <2>1. ASSUME NEW k \in Host, NEW i \in 1 .. Len(net'[k])
        PROVE  net'[k][i].host = k /\ Known(net'[k][i], gens)
    <3>1. CASE k # h
      BY <1>6, <3>1 DEF LifeInv, PacketsKnown
    <3>2. CASE k = h
      <4>1. /\ Len(net[h]) \in Nat /\ Len(Append(net[h], p)) = Len(net[h]) + 1
            /\ \A j \in 1 .. Len(net[h]) : Append(net[h], p)[j] = net[h][j]
            /\ Append(net[h], p)[Len(net[h]) + 1] = p
        BY <1>2, <1>5, AppendFacts
      <4>2. net'[k] = Append(net[h], p)
        BY <1>6, <3>2
      <4>3. i \in 1 .. Len(net[h]) \/ i = Len(net[h]) + 1
        BY <4>1, <4>2
      <4>4. CASE i \in 1 .. Len(net[h])
        <5>1. net'[k][i] = net[h][i]
          BY <4>1, <4>2, <4>4
        <5> QED BY <3>2, <4>4, <5>1 DEF LifeInv, PacketsKnown
      <4>5. CASE i = Len(net[h]) + 1
        <5>1. net'[k][i] = p
          BY <4>1, <4>2, <4>5
        <5> QED BY <1>3, <3>2, <5>1
      <4> QED BY <4>3, <4>4, <4>5
    <3> QED BY <3>1, <3>2
  <2> QED BY <1>1, <2>1 DEF LifeInv, PacketsKnown
<1>9. ASSUME sound' PROVE group' # NoGroup /\ \E b \in Nat : GroupOk(b)'
  <2>1. group # NoGroup
    BY <1>1, <1>9 DEF LifeInv, SoundOk
  <2>2. PICK b \in Nat : GroupOk(b)
    BY <1>1, <1>9 DEF LifeInv, SoundOk
  <2>3. NetOk(b, group, ops, net)
    BY <2>2 DEF GroupOk
  <2>4. p.gen = group.gen => Ours(p, b, group, ops) /\ p.host = h /\ p.op + 1 = ops[h]
    BY <2>2 DEF GroupOk, WindowsOk
  <2> HIDE DEF p
  <2>5. ops = [ops EXCEPT ![h] = ops[h]] /\ ops[h] \in Nat
    BY <1>2
  <2>6. ops[h] <= ops[h]
    BY <2>5
  <2>7. \A i \in 1 .. Len(net[h]) : net[h][i].host = h
    BY DEF LifeInv, PacketsKnown
  <2>8. Puts(h, p, ops[h], b, group, ops, net, ops, net')
    BY <1>1, <1>2, <2>4, <2>5, <2>6, <2>7 DEF Puts
  <2>9. /\ NetOk(b, group, ops, net')
        /\ \A m \in Host : \A n \in Nat :
             Reached(m, n, group, ops, net) => Reached(m, n, group, ops, net')
    BY <2>3, <2>8, PutNet
  <2>10. GroupOk(b)'
    BY <1>1, <2>1, <2>2, <2>9, NetOnly
  <2> QED BY <1>1, <2>1, <2>10
<1> QED BY <1>1, <1>7, <1>8, <1>9 DEF LifeInv, SoundOk

(* The packets of a host after the first was taken.                        *)
LEMMA TailKnown ==
    ASSUME LifeInv, NEW h \in Host, net[h] # <<>>,
           net' = [net EXCEPT ![h] = Tail(@)]
    PROVE  /\ net' \in [Host -> Seq(Pkt)]
           /\ \A k \in Host : \A i \in 1 .. Len(net'[k]) :
                 net'[k][i].host = k /\ Known(net'[k][i], gens)
<1>1. net \in [Host -> Seq(Pkt)] /\ net[h] \in Seq(Pkt)
  BY DEF LifeInv, StateOk
<1>2. /\ Tail(net[h]) \in Seq(Pkt)
      /\ \A i \in 1 .. Len(Tail(net[h])) :
            Tail(net[h])[i] = net[h][i + 1] /\ i + 1 \in 1 .. Len(net[h])
  BY <1>1, TailFacts
<1>3. \A k \in Host : net'[k] = IF k = h THEN Tail(net[h]) ELSE net[k]
  BY <1>1
<1>4. net' \in [Host -> Seq(Pkt)]
  BY <1>1, <1>2
<1>5. ASSUME NEW k \in Host, NEW i \in 1 .. Len(net'[k])
      PROVE  net'[k][i].host = k /\ Known(net'[k][i], gens)
  <2>1. CASE k # h
    BY <1>3, <2>1 DEF LifeInv, PacketsKnown
  <2>2. CASE k = h
    <3>1. net'[k][i] = net[h][i + 1] /\ i + 1 \in 1 .. Len(net[h])
      BY <1>2, <1>3, <2>2
    <3> QED BY <2>2, <3>1 DEF LifeInv, PacketsKnown
  <2> QED BY <2>1, <2>2
<1> QED BY <1>4, <1>5

(* A packet is lost on its way to the switch.                              *)
LEMMA LoseLife ==
    ASSUME LifeInv, NEW h \in Host, Lose(h)
    PROVE  LifeInv'
<1>1. /\ net[h] # <<>> /\ net' = [net EXCEPT ![h] = Tail(@)]
      /\ UNCHANGED <<free_group, group, gens, psn, window, ops, slot, recirc, sound, wrong>>
  BY DEF Lose, controlVars, hostVars
<1>2. /\ net' \in [Host -> Seq(Pkt)]
      /\ \A k \in Host : \A i \in 1 .. Len(net'[k]) :
            net'[k][i].host = k /\ Known(net'[k][i], gens)
  BY <1>1, TailKnown
<1>3. StateOk'
  BY <1>1, <1>2 DEF LifeInv, StateOk
<1>4. PacketsKnown'
  BY <1>1, <1>2 DEF LifeInv, PacketsKnown
<1>5. ASSUME sound' PROVE group' # NoGroup /\ \E b \in Nat : GroupOk(b)'
  <2>1. group # NoGroup
    BY <1>1, <1>5 DEF LifeInv, SoundOk
  <2>2. PICK b \in Nat : GroupOk(b)
    BY <1>1, <1>5 DEF LifeInv, SoundOk
  <2>3. NetOk(b, group, ops, net) /\ net \in [Host -> Seq(Pkt)]
    BY <2>2 DEF GroupOk, LifeInv, StateOk
  <2>4. /\ NetOk(b, group, ops, net')
        /\ \A m \in Host : \A n :
             Reached(m, n, group, ops, net) => Reached(m, n, group, ops, net')
    <3>1. Takes(h, net, net')
      BY <1>1, <2>3 DEF Takes
    <3> QED BY <2>3, <3>1, TakeNet
  <2>5. GroupOk(b)'
    BY <1>1, <2>1, <2>2, <2>4, NetOnly
  <2> QED BY <1>1, <2>1, <2>5
<1> QED BY <1>1, <1>3, <1>4, <1>5 DEF LifeInv, SoundOk

-----------------------------------------------------------------------------
(* The first pass.                                                         *)

(* What the first pass of p writes.                                        *)
Old(p, s) ==
    IF s[p.psn % AggLen].version = Version(p) THEN s[p.psn % AggLen].bitmap ELSE {}

Added(p, s, agg) ==
    CASE Old(p, s) = {} -> {Contribution(p)}
      [] Old(p, s) # {} /\ p.rank \notin Old(p, s) -> agg \cup {Contribution(p)}
      [] OTHER -> agg

Written(p, s) ==
    [version |-> Version(p), bitmap |-> Old(p, s) \cup {p.rank},
     agg0 |-> Added(p, s, s[p.psn % AggLen].agg0),
     agg1 |-> Added(p, s, s[p.psn % AggLen].agg1)]

Passed(p, s) ==
    [pkt |-> p, agg0 |-> Written(p, s).agg0, multicast |-> p.rank \notin Old(p, s)]

LEMMA Pass1Facts ==
    ASSUME NEW h \in Host, IngressPass1(h), NEW p, p = Head(net[h])
    PROVE  /\ net[h] # <<>> /\ net' = [net EXCEPT ![h] = Tail(@)]
           /\ slot' = [slot EXCEPT ![p.psn % AggLen] = Written(p, slot)]
           /\ recirc' = IF p.id = group.id /\ Old(p, slot) \in {Mask \ {p.rank}, Mask}
                        THEN recirc \cup {Passed(p, slot)} ELSE recirc
           /\ sound' = (sound /\ ~Clash(p) /\ ~Between(p))
           /\ UNCHANGED <<free_group, group, gens, psn, window, ops, wrong>>
BY DEF IngressPass1, Old, Added, Written, Passed, controlVars, hostVars

LEMMA SumAdd ==
    ASSUME NEW n, NEW g, g.members \in Memberships, NEW h \in g.members, NEW bits
    PROVE  /\ SumOf(n, bits \cup {RankIn(h, g.members)}, g)
                = SumOf(n, bits, g) \cup {<<h, g.gen, n>>}
           /\ SumOf(n, {RankIn(h, g.members)}, g) = {<<h, g.gen, n>>}
<1>1. \A m \in g.members : RankIn(m, g.members) = RankIn(h, g.members) => m = h
  BY RanksDiffer
<1>2. SumOf(n, bits \cup {RankIn(h, g.members)}, g)
                = SumOf(n, bits, g) \cup {<<h, g.gen, n>>}
  BY <1>1 DEF SumOf
<1>3. SumOf(n, {RankIn(h, g.members)}, g) = {<<h, g.gen, n>>}
  BY <1>1 DEF SumOf
<1> QED BY <1>2, <1>3

LEMMA SumWhole ==
    ASSUME NEW n, NEW g, NEW bits,
           \A m \in g.members : RankIn(m, g.members) \in bits
    PROVE  SumOf(n, bits, g) = Whole(n, g)
BY DEF SumOf, Whole

LEMMA HeadFacts ==
    ASSUME LifeInv, NEW h \in Host, net[h] # <<>>, NEW p, p = Head(net[h])
    PROVE  /\ net[h] \in Seq(Pkt) /\ Len(net[h]) \in Nat /\ Len(net[h]) >= 1
           /\ p = net[h][1] /\ p \in Pkt /\ p.host = h /\ Known(p, gens)
           /\ p.psn % AggLen \in Slots
<1>1. net[h] \in Seq(Pkt)
  BY DEF LifeInv, StateOk
<1>2. Len(net[h]) \in Nat /\ Len(net[h]) >= 1 /\ p = net[h][1]
  BY <1>1
<1>3. 1 \in 1 .. Len(net[h])
  BY <1>2
<1>4. p.host = h /\ Known(p, gens)
  BY <1>2, <1>3 DEF LifeInv, PacketsKnown
<1>5. p \in Pkt
  BY <1>1, <1>2, <1>3, ElementOfSeq
<1>6. p.psn % AggLen \in Slots
  <2>1. p.psn \in Nat
    BY <1>5, PacketFacts
  <2> QED BY <2>1, Constants DEF Slots
<1> QED BY <1>1, <1>2, <1>4, <1>5, <1>6

LEMMA Pass1Types ==
    ASSUME LifeInv, NEW h \in Host, IngressPass1(h)
    PROVE  StateOk' /\ PacketsKnown'
<1>0. PICK p : p = Head(net[h])
  OBVIOUS
<1> DEFINE a == p.psn % AggLen
<1>1. /\ net[h] # <<>> /\ net' = [net EXCEPT ![h] = Tail(@)]
      /\ slot' = [slot EXCEPT ![a] = Written(p, slot)]
      /\ recirc' = IF p.id = group.id /\ Old(p, slot) \in {Mask \ {p.rank}, Mask}
                   THEN recirc \cup {Passed(p, slot)} ELSE recirc
      /\ sound' = (sound /\ ~Clash(p) /\ ~Between(p))
      /\ UNCHANGED <<free_group, group, gens, psn, window, ops, wrong>>
  BY <1>0, Pass1Facts
<1>2. p \in Pkt /\ Known(p, gens) /\ a \in Slots
  BY <1>0, <1>1, HeadFacts
<1>3. /\ p.id \in Group /\ p.psn \in Nat /\ p.host \in Host /\ p.gen \in Nat /\ p.op \in Nat
      /\ p.rank \in Bits
  BY <1>2, PacketFacts DEF Known
<1>4. slot[a] \in Cell
  BY <1>2 DEF LifeInv, StateOk
<1> HIDE DEF a
<1>5. Old(p, slot) \in SUBSET Bits
  BY <1>4 DEF Old, Cell, a
<1>6. \A agg \in Sums : Added(p, slot, agg) \in Sums
  <2>1. Contribution(p) \in Host \X Nat \X Nat
    BY <1>3 DEF Contribution
  <2> QED BY <2>1 DEF Added, Sums
<1>7. Written(p, slot) \in Cell
  <2>1. Version(p) \in Nat \X Nat
    BY <1>3 DEF Version, Group
  <2>2. slot[a].agg0 \in Sums /\ slot[a].agg1 \in Sums
    BY <1>4 DEF Cell
  <2>3. Added(p, slot, slot[a].agg0) \in Sums /\ Added(p, slot, slot[a].agg1) \in Sums
    BY <1>6, <2>2
  <2>4. Old(p, slot) \cup {p.rank} \in SUBSET Bits
    BY <1>3, <1>5
  <2> QED BY <2>1, <2>3, <2>4 DEF Written, Cell, a
<1>8. Passed(p, slot) \in Passing /\ Passed(p, slot).pkt = p
  <2>1. Written(p, slot).agg0 \in Sums
    BY <1>7 DEF Cell
  <2> QED BY <1>2, <2>1 DEF Passed, Passing
<1>9. recirc' \subseteq recirc \cup {Passed(p, slot)}
  BY <1>1
<1>10. /\ net' \in [Host -> Seq(Pkt)]
       /\ \A k \in Host : \A i \in 1 .. Len(net'[k]) :
            net'[k][i].host = k /\ Known(net'[k][i], gens)
  BY <1>1, TailKnown
<1>11. StateOk'
  <2>1. slot' \in [Slots -> Cell]
    BY <1>1, <1>2, <1>7 DEF LifeInv, StateOk
  <2>2. recirc' \subseteq Passing
    BY <1>8, <1>9 DEF LifeInv, StateOk
  <2>3. sound' \in BOOLEAN
    BY <1>1 DEF LifeInv, StateOk
  <2> QED BY <1>1, <1>10, <2>1, <2>2, <2>3 DEF LifeInv, StateOk
<1>12. PacketsKnown'
  <2>1. \A x \in recirc' : Known(x.pkt, gens)
    BY <1>2, <1>8, <1>9 DEF LifeInv, PacketsKnown
  <2> QED BY <1>1, <1>10, <2>1 DEF LifeInv, PacketsKnown
<1> QED BY <1>11, <1>12

(* The next packet p of h is of the present group, which began at PSN b.   *)
Arrives(h, p, b) ==
    /\ StateOk /\ group # NoGroup /\ b \in Nat /\ GroupOk(b)
    /\ h \in Host /\ net[h] # <<>> /\ p = net[h][1] /\ p \in Pkt /\ p.host = h
    /\ Len(net[h]) \in Nat /\ Len(net[h]) >= 1
    /\ p.gen = group.gen

LEMMA ArrivesFacts ==
    ASSUME NEW h, NEW p, NEW b, Arrives(h, p, b)
    PROVE  /\ Ours(p, b, group, ops) /\ h \in group.members /\ p.op \in Nat
           /\ p.rank = RankIn(h, group.members) /\ p.psn = b + p.op /\ p.id = group.id
           /\ p.psn % AggLen \in Slots /\ group.id \in Group
           /\ group.members \in Memberships /\ group.members \subseteq Host
           /\ Reached(h, p.op, group, ops, net)
           /\ \A k \in Nat : k > p.op => ~Reached(h, k, group, ops, net)
<1> USE DEF Arrives
<1>1. group.id \in Group /\ group.members \in Memberships /\ group.members \subseteq Host
  BY GroupFacts
<1>2. p.op \in Nat /\ p.psn \in Nat
  BY PacketFacts
<1>3. p.psn % AggLen \in Slots
  BY <1>2, Constants DEF Slots
<1>4. NetOk(b, group, ops, net)
  BY DEF GroupOk
<1>5. 1 \in 1 .. Len(net[h])
  OBVIOUS
<1>6. Ours(p, b, group, ops)
  BY <1>4, <1>5 DEF NetOk
<1>7. Reached(h, p.op, group, ops, net)
  <2>1. ops[h] > p.op
    <3>1. h \in Host /\ ops[h] \in Nat
      BY DEF StateOk
    <3> QED BY <1>2, <1>6, <3>1 DEF Ours
  <2>2. ASSUME NEW i \in 1 .. Len(net[h]), net[h][i].gen = group.gen
        PROVE  net[h][i].op >= p.op
    <3>1. 1 \in 1 .. i
      OBVIOUS
    <3>2. p.op <= net[h][i].op
      BY <1>4, <2>2, <3>1 DEF NetOk
    <3>3. net[h] \in Seq(Pkt)
      BY DEF StateOk
    <3>4. net[h][i] \in Pkt
      BY <3>3, ElementOfSeq
    <3>5. net[h][i].op \in Nat
      BY <3>4, PacketFacts
    <3> QED BY <1>2, <3>2, <3>5
  <2> QED BY <2>1, <2>2 DEF Reached
<1>8. ASSUME NEW k \in Nat, k > p.op, Reached(h, k, group, ops, net) PROVE FALSE
  <2>1. p.op >= k
    BY <1>5, <1>8 DEF Reached
  <2> QED BY <1>2, <1>8, <2>1
<1> QED BY <1>1, <1>2, <1>3, <1>6, <1>7, <1>8 DEF Ours

(* The slot of an arriving packet holds no later operation: every member   *)
(* would have been answered an operation after that of the packet, which   *)
(* h has sent only behind it.                                              *)
LEMMA SlotNotLater ==
    ASSUME NEW h, NEW p, NEW b, Arrives(h, p, b), NEW n \in Nat,
           Held(p.psn % AggLen, n, b, group, ops, net, slot)
    PROVE  n = p.op \/ n + AggLen <= p.op
<1> DEFINE a == p.psn % AggLen
           k == p.op
<1>1. /\ k \in Nat /\ p.psn = b + k /\ h \in group.members /\ group.members \subseteq Host
      /\ \A j \in Nat : j > k => ~Reached(h, j, group, ops, net)
  BY ArrivesFacts
<1>2. b \in Nat /\ AggLen \in Nat \ {0} /\ AggLen >= 2
  BY Constants DEF Arrives
<1>3. (b + n) % AggLen = (b + k) % AggLen
  BY <1>1 DEF Held
<1>4. PICK m \in group.members : RankIn(m, group.members) \in slot[a].bitmap
  BY DEF Held
<1>5. ops[m] > n /\ ops[m] \in Nat
  BY <1>1, <1>4 DEF Held, Reached, Arrives, StateOk
<1> HIDE DEF a, k
<1>6. CASE n > k
  <2>1. b + k \in Nat /\ b + n \in Nat /\ b + k < b + n
    BY <1>1, <1>2, <1>6
  <2>2. b + n >= (b + k) + AggLen
    BY <1>2, <1>3, <2>1, ModApart
  <2>3. n >= k + 2
    BY <1>1, <1>2, <2>2
  <2>4. k + 1 \in Nat /\ (k + 1) + 1 < ops[m] /\ k + 1 > k
    BY <1>1, <1>5, <2>3
  <2>5. Reached(h, k + 1, group, ops, net)
    BY <1>1, <1>4, <2>4 DEF AnsweredOk, GroupOk, Arrives
  <2> QED BY <1>1, <2>4, <2>5
<1>7. CASE n < k
  <2>1. b + k \in Nat /\ b + n \in Nat /\ b + n < b + k
    BY <1>1, <1>2, <1>7
  <2>2. b + k >= (b + n) + AggLen
    BY <1>2, <1>3, <2>1, ModApart
  <2>3. n + AggLen <= k
    BY <1>1, <1>2, <2>2
  <2> QED BY <2>3 DEF k
<1>8. n = k \/ n > k \/ n < k
  BY <1>1
<1> QED BY <1>6, <1>7, <1>8 DEF k

(* A slot with the version of an operation holds that operation.           *)
LEMMA VersionHeld ==
    ASSUME NEW b \in Nat, StateOk, group # NoGroup, GroupOk(b), NEW a \in Slots, NEW n \in Nat,
           slot[a].version = <<group.id, b + n>>
    PROVE  Held(a, n, b, group, ops, net, slot)
<1>1. b + n \in Nat /\ b <= b + n
  OBVIOUS
<1>2. ~Foreign(slot[a].version, b, group)
  BY <1>1 DEF Foreign
<1>3. PICK k \in Nat : Held(a, k, b, group, ops, net, slot)
  BY <1>2 DEF GroupOk, SlotsOk
<1>4. b + k = b + n
  BY <1>3 DEF Held
<1>5. k = n
  BY <1>4
<1> QED BY <1>3, <1>5

(* The slot holds the operation of the packet after its first pass.        *)
LEMMA WrittenHeld ==
    ASSUME NEW h, NEW p, NEW b, Arrives(h, p, b), NEW q, NEW s,
           \A m \in Host : \A n \in Nat :
              Reached(m, n, group, ops, net) => Reached(m, n, group, ops, q),
           s[p.psn % AggLen] = Written(p, slot)
    PROVE  Held(p.psn % AggLen, p.op, b, group, ops, q, s)
<1> DEFINE a == p.psn % AggLen
           n == p.op
           old == Old(p, slot)
           r == RankIn(h, group.members)
           W == Written(p, slot)
<1>1. /\ h \in group.members /\ n \in Nat /\ p.rank = r /\ p.psn = b + n /\ p.id = group.id
      /\ a \in Slots /\ group.members \in Memberships /\ group.members \subseteq Host
      /\ Reached(h, n, group, ops, net)
  BY ArrivesFacts
<1>2. Contribution(p) = <<h, group.gen, n>> /\ Version(p) = <<group.id, b + n>>
  BY <1>1 DEF Contribution, Version, Arrives
<1>3. old # {} => /\ old = slot[a].bitmap
                  /\ Held(a, n, b, group, ops, net, slot)
  <2>1. ASSUME old # {} PROVE slot[a].version = Version(p) /\ old = slot[a].bitmap
    BY <2>1 DEF Old
  <2> QED BY <1>1, <1>2, <2>1, VersionHeld DEF Arrives
<1>4. /\ W.version = Version(p) /\ W.bitmap = old \cup {r}
      /\ W.agg0 = Added(p, slot, slot[a].agg0) /\ W.agg1 = Added(p, slot, slot[a].agg1)
  BY <1>1 DEF Written
<1> HIDE DEF a, n, old, r, W
<1>5. /\ SumOf(n, old \cup {r}, group) = SumOf(n, old, group) \cup {<<h, group.gen, n>>}
      /\ SumOf(n, {r}, group) = {<<h, group.gen, n>>}
  BY <1>1, SumAdd DEF r
<1>6. ASSUME NEW agg, old # {} => agg = SumOf(n, old, group)
      PROVE  Added(p, slot, agg) = SumOf(n, old \cup {r}, group)
  <2>1. CASE old = {}
    <3>1. old \cup {r} = {r}
      BY <2>1
    <3>2. Added(p, slot, agg) = {Contribution(p)}
      BY <2>1 DEF Added, old
    <3> QED BY <1>2, <1>5, <3>1, <3>2
  <2>2. CASE old # {} /\ r \notin old
    <3>1. Added(p, slot, agg) = agg \cup {Contribution(p)}
      BY <1>1, <2>2 DEF Added, old
    <3> QED BY <1>2, <1>5, <1>6, <2>2, <3>1
  <2>3. CASE old # {} /\ r \in old
    <3>1. Added(p, slot, agg) = agg
      BY <1>1, <2>3 DEF Added, old
    <3>2. old \cup {r} = old
      BY <2>3
    <3> QED BY <1>6, <2>3, <3>1, <3>2
  <2> QED BY <2>1, <2>2, <2>3
<1>7. /\ W.agg0 = SumOf(n, W.bitmap, group)
      /\ W.agg1 = SumOf(n, W.bitmap, group)
  <2>1. old # {} => /\ slot[a].agg0 = SumOf(n, old, group)
                    /\ slot[a].agg1 = SumOf(n, old, group)
    BY <1>3 DEF Held
  <2> QED BY <1>4, <1>6, <2>1
<1>8. ASSUME NEW m \in group.members, RankIn(m, group.members) \in W.bitmap
      PROVE  Reached(m, n, group, ops, q)
  <2>1. CASE m = h
    BY <1>1, <2>1
  <2>2. CASE m # h
    <3>1. RankIn(m, group.members) # r
      BY <1>1, <2>2, RanksDiffer DEF r
    <3>2. RankIn(m, group.members) \in old
      BY <1>4, <1>8, <3>1
    <3>3. Reached(m, n, group, ops, net)
      BY <1>3, <3>2 DEF Held
    <3> QED BY <1>1, <3>3
  <2> QED BY <2>1, <2>2
<1>9. \E m \in group.members : RankIn(m, group.members) \in W.bitmap
  BY <1>1, <1>4 DEF r
<1>10. W.version = <<group.id, b + n>> /\ (b + n) % AggLen = a
  BY <1>1, <1>2, <1>4 DEF a
<1>11. s[a] = W
  BY DEF a, W
<1>12. Held(a, n, b, group, ops, q, s)
  BY <1>7, <1>8, <1>9, <1>10, <1>11 DEF Held
<1> QED BY <1>12 DEF a, n

LEMMA Pass1Slots ==
    ASSUME NEW h, NEW p, NEW b, Arrives(h, p, b), NEW q,
           \A m \in Host : \A n \in Nat :
              Reached(m, n, group, ops, net) => Reached(m, n, group, ops, q),
           NEW s, s = [slot EXCEPT ![p.psn % AggLen] = Written(p, slot)]
    PROVE  SlotsOk(b, group, ops, q, s)
<1> DEFINE a == p.psn % AggLen
<1>1. a \in Slots /\ p.op \in Nat /\ group.members \subseteq Host
  BY ArrivesFacts
<1>2. slot \in [Slots -> Cell]
  BY DEF Arrives, StateOk
<1>3. s[a] = Written(p, slot) /\ \A c \in Slots : c # a => s[c] = slot[c]
  BY <1>1, <1>2
<1>4. Held(a, p.op, b, group, ops, q, s)
  BY <1>3, WrittenHeld
<1> HIDE DEF a
<1>5. ASSUME NEW c \in Slots, c # a, ~Foreign(slot[c].version, b, group)
      PROVE  \E n \in Nat : Held(c, n, b, group, ops, q, s)
  <2>1. PICK n \in Nat : Held(c, n, b, group, ops, net, slot)
    BY <1>5 DEF Arrives, GroupOk, SlotsOk
  <2>2. s[c] = slot[c]
    BY <1>3, <1>5
  <2>3. Held(c, n, b, group, ops, q, s)
    BY <1>1, <2>1, <2>2 DEF Held
  <2> QED BY <2>3
<1> QED BY <1>1, <1>3, <1>4, <1>5 DEF SlotsOk

LEMMA Pass1Complete ==
    ASSUME NEW h, NEW p, NEW b, Arrives(h, p, b),
           NEW s, s = [slot EXCEPT ![p.psn % AggLen] = Written(p, slot)],
           NEW n \in Nat, Complete(n, b, group, ops, slot)
    PROVE  Complete(n, b, group, ops, s)
<1> DEFINE a == p.psn % AggLen
           c == (b + n) % AggLen
<1>1. /\ a \in Slots /\ p.op \in Nat /\ group.members \subseteq Host /\ h \in group.members
      /\ p.psn = b + p.op /\ p.id = group.id /\ Reached(h, p.op, group, ops, net)
  BY ArrivesFacts
<1>2. slot \in [Slots -> Cell] /\ b \in Nat /\ ops \in [Host -> Nat]
  BY DEF Arrives, StateOk
<1>3. s[a] = Written(p, slot) /\ \A e \in Slots : e # a => s[e] = slot[e]
  BY <1>1, <1>2
<1>4. c \in Slots
  <2>1. b + n \in Nat
    BY <1>2
  <2> QED BY <2>1, Constants DEF Slots
<1> HIDE DEF a, c
<1>5. CASE \E m \in group.members : ops[m] > n + AggLen
  BY <1>5 DEF Complete
<1>6. CASE /\ slot[c].version = <<group.id, b + n>>
           /\ \A m \in group.members : RankIn(m, group.members) \in slot[c].bitmap
  <2>1. CASE c # a
    <3>1. s[c] = slot[c]
      BY <1>3, <1>4, <2>1
    <3> QED BY <1>6, <3>1 DEF Complete, c
  <2>2. CASE c = a
    <3>1. Held(a, n, b, group, ops, net, slot)
      BY <1>1, <1>2, <1>6, <2>2, VersionHeld DEF Arrives
    <3>2. n = p.op \/ n + AggLen <= p.op
      BY <3>1, SlotNotLater DEF a
    <3>3. CASE n = p.op
      <4>1. Version(p) = <<group.id, b + n>>
        BY <1>1, <3>3 DEF Version
      <4>2. Old(p, slot) = slot[c].bitmap
        BY <1>6, <2>2, <4>1 DEF Old, a
      <4>3. s[c].version = <<group.id, b + n>> /\ s[c].bitmap = Old(p, slot) \cup {p.rank}
        BY <1>3, <2>2, <4>1 DEF Written
      <4> QED BY <1>6, <4>2, <4>3 DEF Complete, c
    <3>4. CASE n + AggLen <= p.op
      <4>1. ops[h] \in Nat /\ ops[h] > p.op
        BY <1>1, <1>2 DEF Reached
      <4>2. n + AggLen \in Nat
        BY Constants
      <4>3. ops[h] > n + AggLen
        BY <1>1, <3>4, <4>1, <4>2
      <4> QED BY <1>1, <4>3 DEF Complete
    <3> QED BY <3>2, <3>3, <3>4
  <2> QED BY <2>1, <2>2
<1> QED BY <1>5, <1>6 DEF Complete, c

(* A packet goes into its second pass when the whole sum is in its slot.   *)
LEMMA PassedOk ==
    ASSUME NEW h, NEW p, NEW b, Arrives(h, p, b), NEW q,
           \A m \in Host : \A n \in Nat :
              Reached(m, n, group, ops, net) => Reached(m, n, group, ops, q),
           NEW s, s = [slot EXCEPT ![p.psn % AggLen] = Written(p, slot)],
           Old(p, slot) \in {Mask \ {p.rank}, Mask}
    PROVE  /\ Passed(p, slot).pkt = p
           /\ Passed(p, slot).agg0 = Whole(p.op, group)
           /\ Complete(p.op, b, group, ops, s)
           /\ \A m \in group.members : Reached(m, p.op, group, ops, q)
<1> DEFINE a == p.psn % AggLen
           W == Written(p, slot)
<1>1. /\ a \in Slots /\ group.members \in Memberships /\ p.psn = b + p.op
  BY ArrivesFacts
<1>2. slot \in [Slots -> Cell]
  BY DEF Arrives, StateOk
<1>3. s[a] = W
  BY <1>1, <1>2
<1>4. Held(a, p.op, b, group, ops, q, s)
  BY <1>3, WrittenHeld
<1>5. W.bitmap = Old(p, slot) \cup {p.rank} /\ Passed(p, slot).agg0 = W.agg0
  BY DEF Written, Passed
<1>6. a = (b + p.op) % AggLen
  BY <1>1
<1> HIDE DEF a, W
<1>7. ASSUME NEW m \in group.members PROVE RankIn(m, group.members) \in W.bitmap
  <2>1. RankIn(m, group.members) \in Mask
    BY <1>1, RankInBits DEF Mask
  <2> QED BY <1>5, <2>1
<1>8. Passed(p, slot).agg0 = Whole(p.op, group)
  <2>1. W.agg0 = SumOf(p.op, W.bitmap, group)
    BY <1>3, <1>4 DEF Held
  <2>2. SumOf(p.op, W.bitmap, group) = Whole(p.op, group)
    BY <1>7, SumWhole
  <2> QED BY <1>5, <2>1, <2>2
<1>9. \A m \in group.members : Reached(m, p.op, group, ops, q)
  BY <1>3, <1>4, <1>7 DEF Held
<1>10. Complete(p.op, b, group, ops, s)
  BY <1>3, <1>4, <1>6, <1>7 DEF Held, Complete
<1>11. Passed(p, slot).pkt = p
  BY DEF Passed
<1> QED BY <1>8, <1>9, <1>10, <1>11

(* A late packet does not pass for one of the present group.               *)
LEMMA LateFacts ==
    ASSUME StateOk, group # NoGroup, NEW b \in Nat, GroupOk(b), NEW p \in Pkt,
           p.gen # group.gen, ~Clash(p)
    PROVE  p.id # group.id \/ p.psn < b
<1>1. SUFFICES ASSUME p.id = group.id PROVE p.psn < b
  OBVIOUS
<1>2. PICK m \in group.members : m \in Host
  BY GroupFacts
<1>3. psn[m][group.id] = b + ops[m]
  BY DEF GroupOk, PsnOk
<1>4. ~(p.psn >= psn[m][group.id] - ops[m])
  BY <1>1 DEF Clash
<1>5. ops[m] \in Nat
  BY <1>2 DEF StateOk
<1>6. p.psn \in Nat
  BY PacketFacts
<1>7. psn[m][group.id] - ops[m] = b
  BY <1>3, <1>5
<1> QED BY <1>4, <1>6, <1>7

(* A late packet takes a slot, and leaves the rest of the group alone.     *)
LEMMA LatePass1 ==
    ASSUME LifeInv, NEW h \in Host, IngressPass1(h), NEW p, p = Head(net[h]),
           p.gen # group.gen, sound', NEW b \in Nat, GroupOk(b)
    PROVE  GroupOk(b)'
<1> DEFINE a == p.psn % AggLen
<1>1. /\ net[h] # <<>> /\ net' = [net EXCEPT ![h] = Tail(@)]
      /\ slot' = [slot EXCEPT ![a] = Written(p, slot)]
      /\ recirc' = IF p.id = group.id /\ Old(p, slot) \in {Mask \ {p.rank}, Mask}
                   THEN recirc \cup {Passed(p, slot)} ELSE recirc
      /\ sound' = (sound /\ ~Clash(p) /\ ~Between(p))
      /\ UNCHANGED <<free_group, group, gens, psn, window, ops, wrong>>
  BY Pass1Facts
<1>2. StateOk /\ group # NoGroup
  BY <1>1 DEF LifeInv, SoundOk
<1>3. p \in Pkt /\ a \in Slots
  BY <1>1, HeadFacts
<1>4. /\ PsnOk(b, group, ops, psn) /\ NetOk(b, group, ops, net)
      /\ SlotsOk(b, group, ops, net, slot)
      /\ RecircOk(b, group, ops, net, slot, recirc)
      /\ WindowsOk(b, group, ops, window) /\ AnsweredOk(group, ops, net, window)
  BY DEF GroupOk
<1>5. group.members \subseteq Host
  BY <1>2, GroupFacts
<1>6. /\ NetOk(b, group, ops, net')
      /\ \A m \in Host : \A n :
           Reached(m, n, group, ops, net) => Reached(m, n, group, ops, net')
  <2>1. Takes(h, net, net')
    BY <1>1, <1>2 DEF Takes, StateOk
  <2> QED BY <1>4, <2>1, TakeNet
<1>7. slot'[a] = Written(p, slot) /\ \A c \in Slots : c # a => slot'[c] = slot[c]
  BY <1>1, <1>2, <1>3 DEF StateOk
<1>8. Foreign(slot'[a].version, b, group)
  <2>1. p.id # group.id \/ p.psn < b
    BY <1>1, <1>2, <1>3, LateFacts
  <2>2. slot'[a].version = <<p.id, p.psn>>
    BY <1>7 DEF Written, Version
  <2> QED BY <2>1, <2>2 DEF Foreign
<1>9. \A x \in recirc : x.pkt.gen = group.gen => x.pkt.psn % AggLen # a
  BY <1>1 DEF Between
<1>10. \A x \in recirc' : x.pkt.gen = group.gen => x \in recirc
  BY <1>1 DEF Passed
<1> HIDE DEF a
<1>11. SlotsOk(b, group, ops, net', slot')
  <2>1. ASSUME NEW c \in Slots, c # a, ~Foreign(slot[c].version, b, group)
        PROVE  \E n \in Nat : Held(c, n, b, group, ops, net', slot')
    <3>1. PICK n \in Nat : Held(c, n, b, group, ops, net, slot)
      BY <1>4, <2>1 DEF SlotsOk
    <3>2. slot'[c] = slot[c]
      BY <1>7, <2>1
    <3>3. Held(c, n, b, group, ops, net', slot')
      BY <1>5, <1>6, <3>1, <3>2 DEF Held
    <3> QED BY <3>3
  <2> QED BY <1>7, <1>8, <2>1 DEF SlotsOk
<1>12. RecircOk(b, group, ops, net', slot', recirc')
  <2>1. SUFFICES ASSUME NEW x \in recirc', x.pkt.gen = group.gen
                 PROVE  /\ Ours(x.pkt, b, group, ops)
                        /\ x.agg0 = Whole(x.pkt.op, group)
                        /\ Complete(x.pkt.op, b, group, ops, slot')
                        /\ \A m \in group.members : Reached(m, x.pkt.op, group, ops, net')
    BY DEF RecircOk
  <2>2. x \in recirc /\ x.pkt.psn % AggLen # a
    BY <1>9, <1>10, <2>1
  <2>3. /\ Ours(x.pkt, b, group, ops) /\ x.agg0 = Whole(x.pkt.op, group)
        /\ Complete(x.pkt.op, b, group, ops, slot)
        /\ \A m \in group.members : Reached(m, x.pkt.op, group, ops, net)
    BY <1>4, <2>1, <2>2 DEF RecircOk
  <2>4. x.pkt \in Pkt
    BY <1>2, <2>2 DEF StateOk, Passing
  <2>5. x.pkt.psn \in Nat /\ x.pkt.psn = b + x.pkt.op
    BY <2>3, <2>4, PacketFacts DEF Ours
  <2>6. (b + x.pkt.op) % AggLen \in Slots /\ (b + x.pkt.op) % AggLen # a
    BY <2>2, <2>5, Constants DEF Slots
  <2>7. slot'[(b + x.pkt.op) % AggLen] = slot[(b + x.pkt.op) % AggLen]
    BY <1>7, <2>6
  <2>8. Complete(x.pkt.op, b, group, ops, slot')
    BY <2>3, <2>7 DEF Complete
  <2> QED BY <1>5, <1>6, <2>3, <2>8
<1>13. AnsweredOk(group, ops, net', window)
  BY <1>4, <1>5, <1>6 DEF AnsweredOk
<1> QED BY <1>1, <1>4, <1>6, <1>11, <1>12, <1>13 DEF GroupOk

(* A packet arrives at the switch.                                         *)
LEMMA IngressPass1Life ==
    ASSUME LifeInv, NEW h \in Host, IngressPass1(h)
    PROVE  LifeInv'
<1>0. PICK p : p = Head(net[h])
  OBVIOUS
<1>1. /\ net[h] # <<>> /\ net' = [net EXCEPT ![h] = Tail(@)]
      /\ slot' = [slot EXCEPT ![p.psn % AggLen] = Written(p, slot)]
      /\ recirc' = IF p.id = group.id /\ Old(p, slot) \in {Mask \ {p.rank}, Mask}
                   THEN recirc \cup {Passed(p, slot)} ELSE recirc
      /\ sound' = (sound /\ ~Clash(p) /\ ~Between(p))
      /\ UNCHANGED <<free_group, group, gens, psn, window, ops, wrong>>
  BY <1>0, Pass1Facts
<1>2. StateOk' /\ PacketsKnown'
  BY Pass1Types
<1>3. ASSUME sound', p.gen # group.gen
      PROVE  group' # NoGroup /\ \E b \in Nat : GroupOk(b)'
  <2>1. group # NoGroup
    BY <1>1, <1>3 DEF LifeInv, SoundOk
  <2>2. PICK b \in Nat : GroupOk(b)
    BY <1>1, <1>3 DEF LifeInv, SoundOk
  <2>3. GroupOk(b)'
    BY <1>0, <1>3, <2>2, LatePass1
  <2> QED BY <1>1, <2>1, <2>3
<1>4. ASSUME sound', p.gen = group.gen
      PROVE  group' # NoGroup /\ \E b \in Nat : GroupOk(b)'
  <2>1. group # NoGroup /\ p.gen = group.gen
    BY <1>1, <1>4 DEF LifeInv, SoundOk
  <2>2. PICK b \in Nat : GroupOk(b)
    BY <1>1, <1>4 DEF LifeInv, SoundOk
  <2>3. Arrives(h, p, b)
    <3>1. /\ Len(net[h]) \in Nat /\ Len(net[h]) >= 1
          /\ p = net[h][1] /\ p \in Pkt /\ p.host = h
      BY <1>0, <1>1, HeadFacts
    <3> QED BY <1>1, <2>1, <2>2, <3>1 DEF Arrives, LifeInv
  <2>4. /\ PsnOk(b, group, ops, psn) /\ NetOk(b, group, ops, net)
        /\ RecircOk(b, group, ops, net, slot, recirc)
        /\ WindowsOk(b, group, ops, window) /\ AnsweredOk(group, ops, net, window)
    BY <2>2 DEF GroupOk
  <2>5. /\ NetOk(b, group, ops, net')
        /\ \A m \in Host : \A n :
             Reached(m, n, group, ops, net) => Reached(m, n, group, ops, net')
    <3>1. Takes(h, net, net')
      BY <1>1 DEF Takes, LifeInv, StateOk
    <3> QED BY <2>4, <3>1, TakeNet
  <2>6. SlotsOk(b, group, ops, net', slot')
    BY <1>1, <2>3, <2>5, Pass1Slots
  <2>7. group.members \subseteq Host /\ Ours(p, b, group, ops)
    BY <2>3, ArrivesFacts
  <2>8. AnsweredOk(group, ops, net', window)
    BY <2>4, <2>5, <2>7 DEF AnsweredOk
  <2>9. RecircOk(b, group, ops, net', slot', recirc')
    <3>1. SUFFICES ASSUME NEW x \in recirc', x.pkt.gen = group.gen
                   PROVE  /\ Ours(x.pkt, b, group, ops)
                          /\ x.agg0 = Whole(x.pkt.op, group)
                          /\ Complete(x.pkt.op, b, group, ops, slot')
                          /\ \A m \in group.members : Reached(m, x.pkt.op, group, ops, net')
      BY DEF RecircOk
    <3>2. CASE x \in recirc
      <4>1. /\ Ours(x.pkt, b, group, ops) /\ x.agg0 = Whole(x.pkt.op, group)
            /\ Complete(x.pkt.op, b, group, ops, slot)
            /\ \A m \in group.members : Reached(m, x.pkt.op, group, ops, net)
        BY <2>4, <3>1, <3>2 DEF RecircOk
      <4>2. x.pkt \in Pkt
        BY <3>2 DEF LifeInv, StateOk, Passing
      <4>3. x.pkt.op \in Nat
        BY <4>2, PacketFacts
      <4>4. Complete(x.pkt.op, b, group, ops, slot')
        BY <1>1, <2>3, <4>1, <4>3, Pass1Complete
      <4> QED BY <2>5, <2>7, <4>1, <4>4
    <3>3. CASE x \notin recirc
      <4>1. x = Passed(p, slot) /\ Old(p, slot) \in {Mask \ {p.rank}, Mask}
        BY <1>1, <3>3
      <4>2. /\ x.pkt = p /\ x.agg0 = Whole(p.op, group)
            /\ Complete(p.op, b, group, ops, slot')
            /\ \A m \in group.members : Reached(m, p.op, group, ops, net')
        BY <1>1, <2>3, <2>5, <4>1, PassedOk
      <4> QED BY <2>7, <4>2
    <3> QED BY <3>2, <3>3
  <2>10. GroupOk(b)'
    BY <1>1, <2>4, <2>5, <2>6, <2>8, <2>9 DEF GroupOk
  <2> QED BY <1>1, <2>1, <2>10
<1> QED BY <1>1, <1>2, <1>3, <1>4 DEF LifeInv, SoundOk

-----------------------------------------------------------------------------
(* The second pass and the answers.                                        *)

(* The hosts that take the answer of p for that of their window.           *)
Match(p, got) == {h \in got : window[h].id = p.id /\ window[h].psn = p.psn}

Recipients(x) ==
    IF ~x.multicast THEN {x.pkt.host}
    ELSE IF x.pkt.id = group.id THEN group.members ELSE {}

Correct(h, x) ==
    LET all == {Expected(h)[m] : m \in group.members}
    IN  x.agg0 = all /\ slot[x.pkt.psn % AggLen].agg1 = all

LEMMA Pass2Facts ==
    ASSUME NEW x, NEW got, IngressPass2(x, got)
    PROVE  /\ got \subseteq Recipients(x)
           /\ recirc' = recirc \ {x}
           /\ window' = [h \in Host |-> IF h \in Match(x.pkt, got) THEN NoPkt ELSE window[h]]
           /\ sound' = (sound /\ ~Clash(x.pkt))
           /\ wrong' = \/ wrong
                       \/ sound' /\ \E h \in Match(x.pkt, got) :
                                       window[h].gen = group.gen /\ ~Correct(h, x)
           /\ UNCHANGED <<free_group, group, gens, psn, ops, net, slot>>
BY DEF IngressPass2, Match, Recipients, Correct, controlVars

(* A host that takes an answer waits for the operation of the answer.      *)
LEMMA MatchFacts ==
    ASSUME StateOk, group # NoGroup, NEW b \in Nat, GroupOk(b),
           NEW x \in recirc, x.pkt.gen = group.gen,
           NEW got, got \subseteq Recipients(x), NEW h \in Match(x.pkt, got)
    PROVE  /\ h \in group.members /\ window[h].gen = group.gen
           /\ window[h].op = x.pkt.op /\ x.pkt.op + 1 = ops[h]
<1> DEFINE p == x.pkt
           n == p.op
<1>1. Ours(p, b, group, ops)
  BY DEF GroupOk, RecircOk
<1>2. p \in Pkt
  BY DEF StateOk, Passing
<1>3. n \in Nat
  BY <1>2, PacketFacts
<1>4. h \in group.members /\ window[h].id = group.id /\ window[h].psn = b + n
  BY <1>1 DEF Match, Recipients, Ours
<1>5. h \in Host
  BY <1>4, GroupFacts
<1>6. WindowsOk(b, group, ops, window)
  BY DEF GroupOk
<1>7. window[h].gen = group.gen
  <2>1. SUFFICES ASSUME window[h].gen # group.gen PROVE FALSE
    OBVIOUS
  <2>2. window[h].psn < b
    BY <1>4, <1>5, <1>6, <2>1 DEF WindowsOk
  <2> HIDE DEF n
  <2> QED BY <1>3, <1>4, <2>2
<1>8. window[h].psn = b + window[h].op /\ window[h].op + 1 = ops[h]
  BY <1>5, <1>6, <1>7 DEF WindowsOk, Ours
<1>9. window[h].op \in Nat
  <2>1. window[h] \in Pkt \/ window[h] = NoPkt
    BY <1>5 DEF StateOk
  <2> QED BY <2>1, PacketFacts DEF NoPkt
<1> HIDE DEF n
<1>10. window[h].op = n
  BY <1>3, <1>4, <1>8, <1>9
<1> QED BY <1>4, <1>7, <1>8, <1>10 DEF n

(* Both halves of the answer are those of this operation.                  *)
LEMMA MatchCorrect ==
    ASSUME StateOk, group # NoGroup, NEW b \in Nat, GroupOk(b),
           NEW x \in recirc, x.pkt.gen = group.gen,
           NEW got, got \subseteq Recipients(x), NEW h \in Match(x.pkt, got)
    PROVE  Correct(h, x)
<1> DEFINE p == x.pkt
           n == p.op
           a == (b + n) % AggLen
<1>1. /\ h \in group.members /\ window[h].gen = group.gen
      /\ window[h].op = n /\ n + 1 = ops[h]
  BY MatchFacts
<1>2. /\ Ours(p, b, group, ops) /\ x.agg0 = Whole(n, group)
      /\ Complete(n, b, group, ops, slot)
  BY DEF GroupOk, RecircOk
<1>3. p \in Pkt
  BY DEF StateOk, Passing
<1>4. n \in Nat /\ p.psn = b + n
  BY <1>2, <1>3, PacketFacts DEF Ours
<1>5. {Expected(h)[m] : m \in group.members} = Whole(n, group)
  BY <1>1 DEF Expected, Whole
<1>6. a \in Slots
  <2>1. b + n \in Nat
    BY <1>4
  <2> QED BY <2>1, Constants DEF Slots
<1>7. group.members \subseteq Host
  BY GroupFacts
<1> HIDE DEF n, a
<1>8. slot[a].agg1 = Whole(n, group)
  <2>1. CASE \E m \in group.members : ops[m] > n + AggLen
    <3>1. PICK m \in group.members : ops[m] > n + AggLen
      BY <2>1
    <3>2. ops[m] \in Nat /\ ops[h] \in Nat
      BY <1>1, <1>7 DEF StateOk
    <3>3. n + 1 \in Nat /\ (n + 1) + 1 < ops[m]
      BY <1>4, <3>1, <3>2, Constants
    <3>4. Reached(h, n + 1, group, ops, net)
      BY <1>1, <3>3 DEF GroupOk, AnsweredOk
    <3>5. ops[h] > n + 1
      BY <3>4 DEF Reached
    <3> QED BY <1>1, <1>4, <3>2, <3>5
  <2>2. CASE /\ slot[a].version = <<group.id, b + n>>
             /\ \A m \in group.members : RankIn(m, group.members) \in slot[a].bitmap
    <3>1. Held(a, n, b, group, ops, net, slot)
      BY <1>4, <1>6, <2>2, VersionHeld
    <3>2. slot[a].agg1 = SumOf(n, slot[a].bitmap, group)
      BY <3>1 DEF Held
    <3> QED BY <2>2, <3>2, SumWhole
  <2> QED BY <1>2, <2>1, <2>2 DEF Complete, a
<1>9. p.psn % AggLen = a
  BY <1>4 DEF a
<1> QED BY <1>2, <1>5, <1>8, <1>9 DEF Correct, n

(* The answer of a late packet goes to windows of earlier groups only.     *)
LEMMA LateMatch ==
    ASSUME StateOk, group # NoGroup, NEW b \in Nat, GroupOk(b),
           NEW x \in recirc, x.pkt.gen # group.gen, ~Clash(x.pkt),
           NEW got \in SUBSET Host, NEW h \in Match(x.pkt, got)
    PROVE  window[h].gen # group.gen
<1>1. SUFFICES ASSUME window[h].gen = group.gen PROVE FALSE
  OBVIOUS
<1>2. h \in Host /\ window[h].id = x.pkt.id /\ window[h].psn = x.pkt.psn
  BY DEF Match
<1>3. window[h].id = group.id /\ window[h].psn = b + window[h].op
  BY <1>1, <1>2 DEF GroupOk, WindowsOk, Ours
<1>4. window[h].op \in Nat
  <2>1. window[h] \in Pkt \/ window[h] = NoPkt
    BY <1>2 DEF StateOk
  <2> QED BY <2>1, PacketFacts DEF NoPkt
<1>5. x.pkt \in Pkt
  BY DEF StateOk, Passing
<1>6. x.pkt.psn < b
  BY <1>2, <1>3, <1>5, LateFacts
<1> QED BY <1>2, <1>3, <1>4, <1>6

(* A packet leaves the switch, and hosts take its answer.                  *)
LEMMA IngressPass2Life ==
    ASSUME LifeInv, NEW x \in recirc, NEW got \in SUBSET Host, IngressPass2(x, got)
    PROVE  LifeInv'
<1> DEFINE M == Match(x.pkt, got)
           n == x.pkt.op
<1>1. /\ got \subseteq Recipients(x) /\ recirc' = recirc \ {x}
      /\ window' = [h \in Host |-> IF h \in M THEN NoPkt ELSE window[h]]
      /\ sound' = (sound /\ ~Clash(x.pkt))
      /\ wrong' = \/ wrong
                  \/ sound' /\ \E h \in M : window[h].gen = group.gen /\ ~Correct(h, x)
      /\ UNCHANGED <<free_group, group, gens, psn, ops, net, slot>>
  BY Pass2Facts
<1>2. StateOk'
  <2>1. window' \in [Host -> Pkt \cup {NoPkt}]
    BY <1>1 DEF LifeInv, StateOk
  <2>2. sound' \in BOOLEAN
    BY <1>1 DEF LifeInv, StateOk
  <2>3. recirc' \subseteq Passing
    BY <1>1 DEF LifeInv, StateOk
  <2> QED BY <1>1, <2>1, <2>2, <2>3 DEF LifeInv, StateOk
<1>3. PacketsKnown'
  BY <1>1 DEF LifeInv, PacketsKnown
<1>l. ASSUME sound', x.pkt.gen # group.gen
      PROVE  /\ group' # NoGroup /\ \E b \in Nat : GroupOk(b)'
             /\ \A h \in M : window[h].gen # group.gen
  <2>1. group # NoGroup /\ StateOk
    BY <1>1, <1>l DEF LifeInv, SoundOk
  <2>2. PICK b \in Nat : GroupOk(b)
    BY <1>1, <1>l DEF LifeInv, SoundOk
  <2>3. ASSUME NEW h \in M PROVE window[h].gen # group.gen
    BY <1>1, <1>l, <2>1, <2>2, LateMatch
  <2>4. /\ PsnOk(b, group, ops, psn) /\ NetOk(b, group, ops, net)
        /\ SlotsOk(b, group, ops, net, slot)
        /\ RecircOk(b, group, ops, net, slot, recirc)
        /\ WindowsOk(b, group, ops, window) /\ AnsweredOk(group, ops, net, window)
    BY <2>2 DEF GroupOk
  <2>5. RecircOk(b, group, ops, net, slot, recirc')
    BY <1>1, <2>4 DEF RecircOk
  <2>6. /\ NoPkt.gen # group.gen /\ NoPkt.id # group.id /\ group.members \subseteq Host
    BY <2>1, GroupFacts, Constants DEF NoPkt
  <2> HIDE DEF M
  <2>7. \A h \in Host : window'[h] = window[h]
                        \/ (window'[h] = NoPkt /\ window[h].gen # group.gen)
    BY <1>1, <2>3
  <2>8. WindowsOk(b, group, ops, window')
    BY <2>4, <2>6, <2>7 DEF WindowsOk
  <2>9. AnsweredOk(group, ops, net, window')
    BY <2>4, <2>6, <2>7 DEF AnsweredOk
  <2>10. GroupOk(b)'
    BY <1>1, <2>4, <2>5, <2>8, <2>9 DEF GroupOk
  <2> QED BY <1>1, <2>1, <2>3, <2>10
<1>4. ASSUME sound', x.pkt.gen = group.gen
      PROVE  /\ group' # NoGroup /\ \E b \in Nat : GroupOk(b)'
             /\ \A h \in M : Correct(h, x)
  <2>1. group # NoGroup /\ x.pkt.gen = group.gen /\ StateOk
    BY <1>1, <1>4 DEF LifeInv, SoundOk
  <2>2. PICK b \in Nat : GroupOk(b)
    BY <1>1, <1>4 DEF LifeInv, SoundOk
  <2>3. \A h \in M : Correct(h, x)
    BY <1>1, <2>1, <2>2, MatchCorrect
  <2>4. \A h \in M : h \in group.members /\ n + 1 = ops[h]
    BY <1>1, <2>1, <2>2, MatchFacts
  <2>5. /\ PsnOk(b, group, ops, psn) /\ NetOk(b, group, ops, net)
        /\ SlotsOk(b, group, ops, net, slot)
        /\ RecircOk(b, group, ops, net, slot, recirc)
        /\ WindowsOk(b, group, ops, window) /\ AnsweredOk(group, ops, net, window)
    BY <2>2 DEF GroupOk
  <2>6. RecircOk(b, group, ops, net, slot, recirc')
    BY <1>1, <2>5 DEF RecircOk
  <2>7. /\ NoPkt.gen # group.gen /\ NoPkt.id # group.id /\ group.members \subseteq Host
    BY <2>1, GroupFacts, Constants DEF NoPkt
  <2>8. WindowsOk(b, group, ops, window')
    BY <1>1, <2>5, <2>7 DEF WindowsOk
  <2>9. AnsweredOk(group, ops, net, window')
    <3>1. SUFFICES ASSUME NEW m \in group.members, NEW k \in group.members, NEW j \in Nat,
                          j + 1 < ops[m] \/ (j + 1 = ops[m] /\ window'[m].gen # group.gen)
                   PROVE  Reached(k, j, group, ops, net)
      BY DEF AnsweredOk
    <3>2. CASE m \in M /\ j + 1 = ops[m]
      <4>1. x.pkt \in Pkt
        BY <2>1 DEF StateOk, Passing
      <4>2. n \in Nat
        BY <4>1, PacketFacts
      <4>3. n + 1 = j + 1
        BY <2>4, <3>2
      <4> HIDE DEF n
      <4>4. n = j
        BY <4>2, <4>3
      <4>5. Reached(k, n, group, ops, net)
        BY <2>1, <2>5 DEF RecircOk, n
      <4> QED BY <4>4, <4>5
    <3>3. CASE ~(m \in M /\ j + 1 = ops[m])
      BY <1>1, <2>5, <2>7, <3>1, <3>3 DEF AnsweredOk
    <3> QED BY <3>2, <3>3
  <2>10. GroupOk(b)'
    BY <1>1, <2>5, <2>6, <2>8, <2>9 DEF GroupOk
  <2> QED BY <1>1, <2>1, <2>3, <2>10
<1>5. wrong' = FALSE
  BY <1>1, <1>l, <1>4 DEF LifeInv
<1> QED BY <1>2, <1>3, <1>l, <1>4, <1>5 DEF LifeInv, SoundOk

-----------------------------------------------------------------------------
LEMMA StutterLife ==
    ASSUME LifeInv, UNCHANGED vars
    PROVE  LifeInv'
<1>1. UNCHANGED <<free_group, group, psn, window, ops, net, slot, recirc, gens, sound, wrong>>
  BY DEF vars
<1>2. StateOk' /\ PacketsKnown' /\ wrong' = FALSE
  BY <1>1 DEF LifeInv, StateOk, PacketsKnown
<1>3. \A b : GroupOk(b) => GroupOk(b)'
  BY <1>1 DEF GroupOk
<1> QED BY <1>1, <1>2, <1>3 DEF LifeInv, SoundOk

(* The invariant of the life of a group: while the group is sound its      *)
(* packets, slots and windows are those of a block that began at one PSN   *)
(* (bfrt_grpc.py CreateGroup, worker.cpp gen_pkt, ingress.p4               *)
(* reg_bitmap_update).                                                     *)
THEOREM LifeInvariance == Spec => []LifeInv
<1>1. Init => LifeInv
  BY InitLife
<1>2. LifeInv /\ [Next]_vars => LifeInv'
  <2>1. SUFFICES ASSUME LifeInv, [Next]_vars PROVE LifeInv'
    OBVIOUS
  <2>2. CASE UNCHANGED vars
    BY <2>1, <2>2, StutterLife
  <2>3. ASSUME NEW members \in Memberships, CreateGroup(members) PROVE LifeInv'
    BY <2>1, <2>3, CreateGroupLife
  <2>4. CASE DestroyGroup
    BY <2>1, <2>4, DestroyGroupLife
  <2>5. CASE InitRPC
    BY <2>1, <2>5, InitRPCLife
  <2>6. ASSUME NEW H \in SUBSET Host, Restart(H) PROVE LifeInv'
    BY <2>1, <2>6, RestartLife
  <2>7. ASSUME NEW h \in Host, GenPkt(h) \/ FullRetrans(h) \/ Lose(h) \/ IngressPass1(h)
        PROVE  LifeInv'
    BY <2>1, <2>7, GenPktLife, FullRetransLife, LoseLife, IngressPass1Life
  <2>8. ASSUME NEW x \in recirc, NEW got \in SUBSET Host, IngressPass2(x, got) PROVE LifeInv'
    BY <2>1, <2>8, IngressPass2Life
  <2> QED BY <2>1, <2>2, <2>3, <2>4, <2>5, <2>6, <2>7, <2>8 DEF Next
<1> QED BY <1>1, <1>2, PTL DEF Spec

(* A member of the present group never takes the sum of an earlier group,  *)
(* or a mixture, for that of its own operation while the group is sound,   *)
(* that is, until late packets meet it in one of the two ways Clash and    *)
(* Between describe or the daemon of a member is restarted: for every      *)
(* number of hosts, groups, slots, operations, restarts, losses and late   *)
(* packets (ingress.p4 reg_bitmap_update, worker.cpp rx_process_one).      *)
THEOREM OwnSums == Spec => []SumOfOwnGroup
<1>1. LifeInv => SumOfOwnGroup
  <2>1. SUFFICES ASSUME LifeInv PROVE SumOfOwnGroup
    OBVIOUS
  <2>2. Len(free_group) <= NGroups
    <3>1. Len(free_group) \in Nat
      BY <2>1 DEF LifeInv, StateOk
    <3> QED BY <2>1, <3>1, Constants DEF LifeInv, StateOk
  <2>3. group = NoGroup \/ group \in [id : Group, members : Memberships, gen : 1 .. gens]
    <3>1. CASE group # NoGroup
      <4>1. group \in [id : Group, members : Memberships, gen : 1 .. MaxGen]
            /\ group.gen = gens /\ gens \in Nat
        BY <2>1, <3>1, GroupFacts DEF LifeInv, StateOk
      <4>2. group.gen \in 1 .. gens
        BY <4>1
      <4> QED BY <4>1, <4>2
    <3> QED BY <3>1
  <2>4. \A a \in Slots : slot[a].bitmap \subseteq 0 .. Cardinality(Host) - 1
    BY <2>1 DEF LifeInv, StateOk, Cell, Bits
  <2> QED BY <2>1, <2>2, <2>3, <2>4 DEF LifeInv, StateOk, SumOfOwnGroup, TypeOK
<1> QED BY <1>1, LifeInvariance, PTL
=============================================================================
