---------------------------- MODULE WorkerProofs ----------------------------
(***************************************************************************)
(* Proofs about Worker, for callers that complete one group before they    *)
(* use the next (Barrier), of its safety invariants and of the refinement  *)
(* of SlidingWindow.                                                       *)
(*                                                                         *)
(* The argument numbers the packets of all sub-operations in the order     *)
(* they are generated.  The ring holds the last MAX_WIN_LEN numbers, the   *)
(* window the last Live of them; a queued pointer is less than a window    *)
(* older than anything that left the host after it was queued, so the ring *)
(* position it points to is not written before it departs.                 *)
(***************************************************************************)
EXTENDS Worker, ProofLemmas

Win == AggLen \div 2

(* Packets of the first n sub-operations, of all groups or of one.         *)
Sum(n) == PacketsOf(Groups, n)

Chunks(g, n) == PacketsOf({g}, n)

(* Packets that gen_pkt() can make.                                        *)
Real(p) ==
    /\ p \in Pkt
    /\ p.piece < PktCnt(p.sub_op)
    /\ p.group = GroupOf(p.sub_op)
    /\ p.psn = (StartPsn(p.group) + ChunkOf(p)) % PsnMod

-----------------------------------------------------------------------------
(* The constants.                                                          *)

LEMMA ConstantFacts ==
    /\ NSubOps \in Nat
    /\ Win \in Nat /\ Win >= 1
    /\ MAX_WIN_LEN \in Nat \ {0} /\ MAX_WIN_LEN >= 2 * Win /\ Win < MAX_WIN_LEN
    /\ PsnMod \in Nat \ {0} /\ PsnMod > MAX_WIN_LEN
    /\ \A i \in SubOp : GroupOf(i) \in Groups
    /\ \A g \in Groups : StartPsn(g) \in Nat /\ g # 0
<1>1. AggLen \div 2 \in Nat
  BY WorkerAssumption
<1>2. Win \in Nat /\ Win >= 1
  BY <1>1, WorkerAssumption DEF Win
<1>3. MAX_WIN_LEN \in Nat \ {0} /\ MAX_WIN_LEN >= 2 * Win
  BY WorkerAssumption, RingAssumption DEF Win
<1>4. Win < MAX_WIN_LEN
  BY <1>2, <1>3
<1> QED BY <1>2, <1>3, <1>4, WorkerAssumption

(* Every sub-operation has a packet.                                       *)
LEMMA PktCntFacts ==
    ASSUME NEW i \in SubOp
    PROVE  PktCnt(i) \in Nat /\ PktCnt(i) >= 1
<1> DEFINE n == (SizeOf(i) + PAYLOAD_SIZE - 1) \div PAYLOAD_SIZE
<1>1. SizeOf(i) \in Nat /\ PAYLOAD_SIZE \in Nat \ {0}
  BY WorkerAssumption
<1>2. n \in Nat
  BY <1>1
<1>3. PktCnt(i) = IF n = 0 THEN 1 ELSE n
  BY DEF PktCnt
<1> HIDE DEF n
<1> QED BY <1>2, <1>3

(* Every byte of a sub-operation lies in one of its packets.               *)
LEMMA BytesInPackets ==
    ASSUME NEW i \in SubOp, NEW b \in 0 .. SizeOf(i) - 1
    PROVE  b \div PAYLOAD_SIZE \in 0 .. PktCnt(i) - 1
<1> DEFINE P == PAYLOAD_SIZE
           S == SizeOf(i)
           c == (S + P - 1) \div P
           x == (S + P - 1) % P
           q == b \div P
           y == b % P
           d == q - c
<1>1. S \in Nat /\ P \in Nat \ {0} /\ b \in Nat /\ b < S
  BY WorkerAssumption
<1>2. c \in Nat /\ x \in 0 .. P - 1 /\ S + P - 1 = P * c + x
  <2>1. S + P - 1 \in Nat
    BY <1>1
  <2> HIDE DEF S, P
  <2> QED BY <1>1, <2>1, DivMod
<1>3. q \in Nat /\ y \in 0 .. P - 1 /\ b = P * q + y
  BY <1>1, DivMod
<1>4. PktCnt(i) = IF c = 0 THEN 1 ELSE c
  BY DEF PktCnt
<1> HIDE DEF S, P, c, x, q, y
<1>5. d \in Int /\ P * d = P * q - P * c
  BY <1>1, <1>2, <1>3
<1>6. P * d < 0
  BY <1>1, <1>2, <1>3, <1>5
<1>7. d < 0
  <2>1. d \in Int
    BY <1>5
  <2> HIDE DEF d
  <2>2. \A u \in Nat, v \in Int : u * v < 0 => v < 0
    OBVIOUS
  <2> QED BY <1>1, <1>6, <2>1, <2>2
<1>8. q < c
  BY <1>2, <1>3, <1>7
<1>9. q \in 0 .. PktCnt(i) - 1
  BY <1>2, <1>3, <1>4, <1>8
<1> QED BY <1>9 DEF q, P

-----------------------------------------------------------------------------
(* The packet counts.                                                      *)

Round(f, S, j) ==
    IF j = 0 THEN 0 ELSE f[j - 1] + (IF GroupOf(j) \in S THEN PktCnt(j) ELSE 0)

(* The recursive function of PacketsOf exists.                             *)
LEMMA SumExists ==
    ASSUME NEW S
    PROVE  \E f : /\ f = [j \in 0 .. NSubOps |-> Round(f, S, j)]
                  /\ \A n : PacketsOf(S, n) = f[n]
<1> DEFINE T == {n \in Nat : \E f : f = [j \in 0 .. n |-> Round(f, S, j)]}
<1>1. 0 \in T
  <2> DEFINE f == [j \in 0 .. 0 |-> 0]
  <2>1. f = [j \in 0 .. 0 |-> Round(f, S, j)]
    BY DEF Round
  <2> QED BY <2>1
<1>2. ASSUME NEW n \in T PROVE n + 1 \in T
  <2>1. n \in Nat /\ n + 1 \in Nat
    OBVIOUS
  <2>2. PICK f : f = [j \in 0 .. n |-> Round(f, S, j)]
    OBVIOUS
  <2> DEFINE g == [j \in 0 .. n + 1 |-> IF j <= n THEN f[j] ELSE Round(f, S, j)]
  <2>3. ASSUME NEW j \in 0 .. n + 1 PROVE g[j] = Round(g, S, j)
    <3>1. j = 0 \/ (j - 1 \in 0 .. n /\ g[j - 1] = f[j - 1])
      BY <2>1
    <3>2. Round(g, S, j) = Round(f, S, j)
      BY <3>1 DEF Round
    <3>3. g[j] = Round(f, S, j)
      <4>1. CASE j <= n
        <5>1. j \in 0 .. n
          BY <2>1, <4>1
        <5>2. f[j] = Round(f, S, j)
          BY <2>2, <5>1
        <5> QED BY <5>2, <4>1
      <4>2. CASE ~ (j <= n)
        BY <4>2
      <4> QED BY <4>1, <4>2
    <3> QED BY <3>2, <3>3
  <2>4. g = [j \in 0 .. n + 1 |-> Round(g, S, j)]
    BY <2>3
  <2> HIDE DEF g
  <2> QED BY <2>1, <2>4
<1>3. NSubOps \in T
  <2>1. T \subseteq Nat
    OBVIOUS
  <2> HIDE DEF T
  <2> QED BY <1>1, <1>2, <2>1, ConstantFacts, NatSetInduction
<1> DEFINE F == CHOOSE f : f = [j \in 0 .. NSubOps |-> Round(f, S, j)]
<1>4. F = [j \in 0 .. NSubOps |-> Round(F, S, j)]
  BY <1>3
<1>5. \A n : PacketsOf(S, n) = F[n]
  BY Zenon DEF PacketsOf, Round
<1> QED BY <1>4, <1>5

(* One sub-operation after the other.                                      *)
LEMMA PacketsOfStep ==
    ASSUME NEW S
    PROVE  /\ PacketsOf(S, 0) = 0
           /\ \A j \in SubOp :
                PacketsOf(S, j) = PacketsOf(S, j - 1)
                                  + (IF GroupOf(j) \in S THEN PktCnt(j) ELSE 0)
<1>1. PICK f : /\ f = [j \in 0 .. NSubOps |-> Round(f, S, j)]
               /\ \A n : PacketsOf(S, n) = f[n]
  BY SumExists
<1>2. f[0] = 0
  <2>1. 0 \in 0 .. NSubOps
    BY ConstantFacts
  <2>2. f[0] = Round(f, S, 0)
    BY <1>1, <2>1
  <2> QED BY <2>2 DEF Round
<1>3. ASSUME NEW j \in SubOp
      PROVE  f[j] = f[j - 1] + (IF GroupOf(j) \in S THEN PktCnt(j) ELSE 0)
  <2>1. j \in 0 .. NSubOps /\ j # 0
    BY ConstantFacts DEF SubOp
  <2>2. f[j] = Round(f, S, j)
    BY <1>1, <2>1
  <2> QED BY <2>1, <2>2 DEF Round
<1> QED BY <1>1, <1>2, <1>3

LEMMA PacketsOfNat ==
    ASSUME NEW S
    PROVE  \A n \in 0 .. NSubOps : PacketsOf(S, n) \in Nat
<1> DEFINE T == {n \in Nat : n <= NSubOps => PacketsOf(S, n) \in Nat}
<1>1. 0 \in T
  BY PacketsOfStep
<1>2. ASSUME NEW n \in T PROVE n + 1 \in T
  <2>1. SUFFICES ASSUME n + 1 <= NSubOps PROVE PacketsOf(S, n + 1) \in Nat
    OBVIOUS
  <2>2. n \in Nat /\ n + 1 \in SubOp /\ (n + 1) - 1 = n /\ n <= NSubOps
    BY <2>1, ConstantFacts DEF SubOp
  <2>3. PacketsOf(S, n) \in Nat
    BY <2>2
  <2>4. PacketsOf(S, n + 1) = PacketsOf(S, n) + (IF GroupOf(n + 1) \in S THEN PktCnt(n + 1) ELSE 0)
    BY <2>2, PacketsOfStep
  <2>5. PktCnt(n + 1) \in Nat
    BY <2>2, PktCntFacts
  <2> QED BY <2>3, <2>4, <2>5
<1>3. \A n \in Nat : n \in T
  <2>1. T \subseteq Nat
    OBVIOUS
  <2> HIDE DEF T
  <2> QED BY <1>1, <1>2, <2>1, NatSetInduction
<1>4. ASSUME NEW n \in 0 .. NSubOps PROVE PacketsOf(S, n) \in Nat
  <2>1. n \in Nat /\ n <= NSubOps /\ n \in T
    BY <1>3, ConstantFacts
  <2> QED BY <2>1
<1> QED BY <1>4

(* The counts grow with the sub-operations.                                *)
LEMMA PacketsOfMonotone ==
    ASSUME NEW S, NEW m \in 0 .. NSubOps, NEW n \in 0 .. NSubOps, m <= n
    PROVE  PacketsOf(S, m) <= PacketsOf(S, n)
<1> DEFINE T == {d \in Nat : m + d <= NSubOps => PacketsOf(S, m) <= PacketsOf(S, m + d)}
<1>0. m \in Nat /\ n \in Nat /\ NSubOps \in Nat /\ PacketsOf(S, m) \in Nat
  BY ConstantFacts, PacketsOfNat
<1>1. 0 \in T
  BY <1>0
<1>2. ASSUME NEW d \in T PROVE d + 1 \in T
  <2>1. SUFFICES ASSUME m + (d + 1) <= NSubOps
                 PROVE  PacketsOf(S, m) <= PacketsOf(S, m + (d + 1))
    OBVIOUS
  <2> DEFINE j == m + (d + 1)
  <2>2. /\ d \in Nat /\ j \in SubOp /\ j - 1 = m + d
        /\ m + d \in 0 .. NSubOps /\ m + d <= NSubOps
    BY <1>0, <2>1 DEF SubOp
  <2>3. PacketsOf(S, m) <= PacketsOf(S, m + d) /\ PacketsOf(S, m + d) \in Nat
    BY <2>2, PacketsOfNat
  <2>4. PacketsOf(S, j) = PacketsOf(S, m + d) + (IF GroupOf(j) \in S THEN PktCnt(j) ELSE 0)
    BY <2>2, PacketsOfStep
  <2>5. PktCnt(j) \in Nat
    BY <2>2, PktCntFacts
  <2> HIDE DEF j
  <2>6. PacketsOf(S, m) <= PacketsOf(S, j)
    BY <1>0, <2>3, <2>4, <2>5
  <2> QED BY <2>6 DEF j
<1>3. \A d \in Nat : d \in T
  <2>1. T \subseteq Nat
    OBVIOUS
  <2> HIDE DEF T
  <2> QED BY <1>1, <1>2, <2>1, NatSetInduction
<1>4. n - m \in Nat /\ m + (n - m) = n /\ n <= NSubOps
  BY <1>0
<1> QED BY <1>3, <1>4

(* All groups together.                                                    *)
LEMMA SumFacts ==
    /\ Sum(0) = 0
    /\ \A n \in 0 .. NSubOps : Sum(n) \in Nat
    /\ \A j \in SubOp : Sum(j) = Sum(j - 1) + PktCnt(j) /\ Sum(j - 1) \in Nat
    /\ \A m, n \in 0 .. NSubOps : m <= n => Sum(m) <= Sum(n)
<1>1. Sum(0) = 0
  BY PacketsOfStep DEF Sum
<1>2. \A n \in 0 .. NSubOps : Sum(n) \in Nat
  BY PacketsOfNat DEF Sum
<1>3. ASSUME NEW j \in SubOp
      PROVE  Sum(j) = Sum(j - 1) + PktCnt(j) /\ Sum(j - 1) \in Nat
  <2>1. GroupOf(j) \in Groups
    BY ConstantFacts
  <2>2. j - 1 \in 0 .. NSubOps
    BY ConstantFacts DEF SubOp
  <2> QED BY <2>1, <2>2, <1>2, PacketsOfStep DEF Sum
<1>4. \A m, n \in 0 .. NSubOps : m <= n => Sum(m) <= Sum(n)
  BY PacketsOfMonotone DEF Sum
<1> QED BY <1>1, <1>2, <1>3, <1>4

(* One group.                                                              *)
LEMMA ChunksFacts ==
    ASSUME NEW g
    PROVE  /\ Chunks(g, 0) = 0
           /\ \A n \in 0 .. NSubOps : Chunks(g, n) \in Nat
           /\ \A j \in SubOp :
                /\ Chunks(g, j - 1) \in Nat
                /\ GroupOf(j) = g => Chunks(g, j) = Chunks(g, j - 1) + PktCnt(j)
                /\ GroupOf(j) # g => Chunks(g, j) = Chunks(g, j - 1)
           /\ \A m, n \in 0 .. NSubOps : m <= n => Chunks(g, m) <= Chunks(g, n)
<1>1. Chunks(g, 0) = 0
  BY PacketsOfStep DEF Chunks
<1>2. \A n \in 0 .. NSubOps : Chunks(g, n) \in Nat
  BY PacketsOfNat DEF Chunks
<1>3. ASSUME NEW j \in SubOp
      PROVE  /\ Chunks(g, j - 1) \in Nat
             /\ GroupOf(j) = g => Chunks(g, j) = Chunks(g, j - 1) + PktCnt(j)
             /\ GroupOf(j) # g => Chunks(g, j) = Chunks(g, j - 1)
  <2>1. j - 1 \in 0 .. NSubOps
    BY ConstantFacts DEF SubOp
  <2>2. Chunks(g, j - 1) \in Nat
    BY <1>2, <2>1
  <2>3. Chunks(g, j) = Chunks(g, j - 1) + (IF GroupOf(j) \in {g} THEN PktCnt(j) ELSE 0)
    BY PacketsOfStep DEF Chunks
  <2> QED BY <2>2, <2>3
<1>4. \A m, n \in 0 .. NSubOps : m <= n => Chunks(g, m) <= Chunks(g, n)
  BY PacketsOfMonotone DEF Chunks
<1> QED BY <1>1, <1>2, <1>3, <1>4

(* Sub-operations of one group, without another between them, have as many *)
(* packets in their group as in all.                                       *)
LEMMA ChunkDistance ==
    ASSUME NEW g, NEW m \in 0 .. NSubOps, NEW n \in 0 .. NSubOps, m <= n,
           \A j \in m + 1 .. n : GroupOf(j) = g
    PROVE  Chunks(g, n) - Chunks(g, m) = Sum(n) - Sum(m)
<1> DEFINE T == {d \in Nat : m + d <= n =>
                    Chunks(g, m + d) - Chunks(g, m) = Sum(m + d) - Sum(m)}
<1>0. /\ m \in Nat /\ n \in Nat /\ NSubOps \in Nat /\ n <= NSubOps
      /\ Chunks(g, m) \in Nat /\ Sum(m) \in Nat
  <2>1. m \in Nat /\ n \in Nat /\ NSubOps \in Nat /\ n <= NSubOps
    BY ConstantFacts
  <2>2. Chunks(g, m) \in Nat /\ Sum(m) \in Nat
    BY ChunksFacts, SumFacts
  <2> QED BY <2>1, <2>2
<1>1. 0 \in T
  BY <1>0
<1>2. ASSUME NEW d \in T PROVE d + 1 \in T
  <2> DEFINE j == m + (d + 1)
             a == Chunks(g, m)
             b == Sum(m)
             c == Chunks(g, m + d)
             e == Sum(m + d)
  <2>1. SUFFICES ASSUME j <= n PROVE Chunks(g, j) - a = Sum(j) - b
    OBVIOUS
  <2>2. /\ d \in Nat /\ j \in SubOp /\ j - 1 = m + d
        /\ m + d \in 0 .. NSubOps /\ m + d <= n
        /\ j \in m + 1 .. n
    BY <1>0, <2>1 DEF SubOp
  <2>3. c - a = e - b /\ c \in Nat /\ e \in Nat
    BY <2>2, ChunksFacts, SumFacts
  <2>4. Chunks(g, j) = c + PktCnt(j) /\ Sum(j) = e + PktCnt(j)
    BY <2>2, ChunksFacts, SumFacts
  <2>5. PktCnt(j) \in Nat
    BY <2>2, PktCntFacts
  <2>6. a \in Nat /\ b \in Nat
    BY <1>0
  <2> HIDE DEF a, b, c, e, j
  <2> QED BY <2>3, <2>4, <2>5, <2>6
<1>3. \A d \in Nat : d \in T
  <2>1. T \subseteq Nat
    OBVIOUS
  <2> HIDE DEF T
  <2> QED BY <1>1, <1>2, <2>1, NatSetInduction
<1>4. n - m \in Nat /\ m + (n - m) = n
  BY <1>0
<1> QED BY <1>3, <1>4

(* A group with a packet has a last one.                                   *)
LEMMA LastChunk ==
    ASSUME NEW g, NEW n \in 0 .. NSubOps, Chunks(g, n) >= 1
    PROVE  \E j \in 1 .. n : GroupOf(j) = g /\ Chunks(g, j - 1) + PktCnt(j) = Chunks(g, n)
<1> DEFINE P(x) == \E j \in 1 .. x :
                       GroupOf(j) = g /\ Chunks(g, j - 1) + PktCnt(j) = Chunks(g, x)
           T == {x \in Nat : x <= NSubOps /\ Chunks(g, x) >= 1 => P(x)}
<1>1. 0 \in T
  <2>1. Chunks(g, 0) = 0
    BY ChunksFacts
  <2> QED BY <2>1
<1>2. ASSUME NEW x \in T PROVE x + 1 \in T
  <2>1. SUFFICES ASSUME x + 1 <= NSubOps, Chunks(g, x + 1) >= 1 PROVE P(x + 1)
    OBVIOUS
  <2>2. x \in Nat /\ x + 1 \in SubOp /\ (x + 1) - 1 = x /\ x <= NSubOps
    BY <2>1, ConstantFacts DEF SubOp
  <2>3. CASE GroupOf(x + 1) = g
    <3>1. Chunks(g, (x + 1) - 1) + PktCnt(x + 1) = Chunks(g, x + 1)
      BY <2>2, <2>3, ChunksFacts
    <3>2. x + 1 \in 1 .. x + 1
      BY <2>2
    <3> QED BY <2>3, <3>1, <3>2
  <2>4. CASE GroupOf(x + 1) # g
    <3>1. Chunks(g, x + 1) = Chunks(g, x)
      <4>1. \A j \in SubOp : GroupOf(j) # g => Chunks(g, j) = Chunks(g, j - 1)
        BY ChunksFacts
      <4> QED BY <2>2, <2>4, <4>1
    <3>2. P(x)
      BY <2>1, <2>2, <3>1
    <3>3. 1 .. x \subseteq 1 .. x + 1
      BY <2>2
    <3> QED BY <3>1, <3>2, <3>3
  <2> QED BY <2>3, <2>4
<1>3. \A x \in Nat : x \in T
  <2>1. T \subseteq Nat
    OBVIOUS
  <2> HIDE DEF T
  <2> QED BY <1>1, <1>2, <2>1, NatSetInduction
<1>4. n \in Nat /\ n <= NSubOps
  BY ConstantFacts
<1> QED BY <1>3, <1>4

-----------------------------------------------------------------------------
(* Packets and their numbers.                                              *)

LEMMA RealFacts ==
    ASSUME NEW p, Real(p)
    PROVE  /\ p \in Pkt /\ p # NoPkt
           /\ p.sub_op \in SubOp /\ p.group = GroupOf(p.sub_op) /\ p.group \in Groups
           /\ p.piece \in 0 .. PktCnt(p.sub_op) - 1
           /\ Number(p) = Sum(p.sub_op - 1) + p.piece /\ Number(p) \in Nat
           /\ ChunkOf(p) = Chunks(p.group, p.sub_op - 1) + p.piece /\ ChunkOf(p) \in Nat
           /\ p.psn = (StartPsn(p.group) + ChunkOf(p)) % PsnMod
<1>1. /\ p \in Pkt /\ p.sub_op \in SubOp /\ p.piece \in Nat
      /\ p.piece < PktCnt(p.sub_op)
      /\ p.group = GroupOf(p.sub_op) /\ p.group \in Groups
      /\ p.psn = (StartPsn(p.group) + ChunkOf(p)) % PsnMod
  BY DEF Real, Pkt
<1>2. PktCnt(p.sub_op) \in Nat
  BY <1>1, PktCntFacts
<1>3. Number(p) = Sum(p.sub_op - 1) + p.piece /\ Sum(p.sub_op - 1) \in Nat
  BY <1>1, SumFacts DEF Number, PacketsBefore, Sum
<1>4. ChunkOf(p) = Chunks(p.group, p.sub_op - 1) + p.piece
  BY <1>1 DEF ChunkOf, ChunksBefore, Chunks
<1>5. Chunks(p.group, p.sub_op - 1) \in Nat
  BY <1>1, ChunksFacts
<1>6. p.sub_op # 0 /\ NoPkt.sub_op = 0
  BY <1>1, ConstantFacts DEF SubOp, NoPkt, NoSubOp
<1>7. p.piece \in 0 .. PktCnt(p.sub_op) - 1
  BY <1>1, <1>2
<1>8. Number(p) \in Nat /\ ChunkOf(p) \in Nat
  BY <1>1, <1>3, <1>4, <1>5
<1> QED BY <1>1, <1>3, <1>4, <1>6, <1>7, <1>8

(* A packet has its number among those of its sub-operation.               *)
LEMMA NumberRange ==
    ASSUME NEW p, Real(p)
    PROVE  /\ Sum(p.sub_op - 1) <= Number(p) /\ Number(p) < Sum(p.sub_op)
           /\ \A n \in 0 .. NSubOps : (Number(p) < Sum(n)) <=> (p.sub_op <= n)
<1> DEFINE i == p.sub_op
           k == p.piece
           x == Number(p)
           s == Sum(i - 1)
<1>1. i \in SubOp /\ k \in 0 .. PktCnt(i) - 1 /\ x = s + k /\ x \in Nat
  BY RealFacts
<1>2. PktCnt(i) \in Nat /\ s \in Nat /\ Sum(i) = s + PktCnt(i)
  BY <1>1, PktCntFacts, SumFacts
<1>3. s <= x /\ x < Sum(i) /\ Sum(i) \in Nat
  <2> HIDE DEF i, k, x, s
  <2> QED BY <1>1, <1>2
<1>4. ASSUME NEW n \in 0 .. NSubOps PROVE (x < Sum(n)) <=> (i <= n)
  <2>1. i \in 0 .. NSubOps /\ i - 1 \in 0 .. NSubOps /\ i \in Nat /\ n \in Nat
    BY <1>1, ConstantFacts DEF SubOp
  <2>2. /\ i <= n => Sum(i) <= Sum(n)
        /\ n <= i - 1 => Sum(n) <= s
        /\ Sum(n) \in Nat
    BY <2>1, SumFacts
  <2> HIDE DEF i, x, s
  <2>3. i <= n \/ n <= i - 1
    BY <2>1
  <2> QED BY <1>1, <1>2, <1>3, <2>1, <2>2, <2>3
<1> QED BY <1>3, <1>4

(* A number belongs to one packet.                                         *)
LEMMA NumberInjective ==
    ASSUME NEW p, NEW q, Real(p), Real(q), Number(p) = Number(q)
    PROVE  p = q
<1>1. /\ p.sub_op \in SubOp /\ q.sub_op \in SubOp
      /\ p.sub_op \in 0 .. NSubOps /\ q.sub_op \in 0 .. NSubOps
  BY RealFacts, ConstantFacts DEF SubOp
<1>2. Number(p) < Sum(p.sub_op) /\ Number(q) < Sum(q.sub_op)
  BY NumberRange
<1>3. q.sub_op <= p.sub_op /\ p.sub_op <= q.sub_op
  BY <1>1, <1>2, NumberRange
<1>4. p.sub_op = q.sub_op
  BY <1>1, <1>3
<1>5. p.piece = q.piece
  <2> DEFINE s == Sum(p.sub_op - 1)
             a == p.piece
             b == q.piece
  <2>1. s + a = s + b /\ a \in Nat /\ b \in Nat
    BY <1>4, RealFacts
  <2>2. s \in Nat
    BY <1>1, SumFacts
  <2> HIDE DEF s, a, b
  <2>3. a = b
    BY <2>1, <2>2
  <2> QED BY <2>3 DEF a, b
<1>6. p.group = q.group
  BY <1>4, RealFacts
<1>7. ChunkOf(p) = ChunkOf(q)
  BY <1>4, <1>5 DEF ChunkOf
<1>8. p.psn = q.psn
  BY <1>6, <1>7, RealFacts
<1>9. p \in Pkt /\ q \in Pkt
  BY RealFacts
<1> QED BY <1>4, <1>5, <1>6, <1>8, <1>9 DEF Pkt

(* The packets of a group are numbered in the same order.                  *)
LEMMA ChunkOrder ==
    ASSUME NEW p, NEW q, Real(p), Real(q), p.group = q.group, Number(p) < Number(q)
    PROVE  ChunkOf(p) < ChunkOf(q)
<1> DEFINE g == p.group
           i == p.sub_op
           j == q.sub_op
<1>1. /\ i \in SubOp /\ j \in SubOp /\ g = GroupOf(i)
      /\ p.piece \in 0 .. PktCnt(i) - 1 /\ q.piece \in Nat
      /\ ChunkOf(p) = Chunks(g, i - 1) + p.piece
      /\ ChunkOf(q) = Chunks(g, j - 1) + q.piece
      /\ Number(p) = Sum(i - 1) + p.piece
      /\ Number(q) = Sum(j - 1) + q.piece
      /\ Number(p) \in Nat /\ Number(q) \in Nat
  BY RealFacts
<1>2. i \in Nat /\ j \in Nat /\ i \in 0 .. NSubOps /\ j \in 0 .. NSubOps /\ j - 1 \in 0 .. NSubOps
  BY <1>1, ConstantFacts DEF SubOp
<1>3. i <= j
  <2>1. Number(q) < Sum(j) /\ Sum(j) \in Nat
    BY <1>2, NumberRange, SumFacts
  <2>2. Number(p) < Sum(j)
    BY <1>1, <2>1
  <2> QED BY <1>2, <2>2, NumberRange
<1>4. CASE i = j
  <2> DEFINE s == Sum(i - 1)
             c == Chunks(g, i - 1)
             a == p.piece
             b == q.piece
  <2>1. s \in Nat /\ c \in Nat
    BY <1>1, SumFacts, ChunksFacts
  <2>2. s + a < s + b /\ a \in Nat /\ b \in Nat
    BY <1>1, <1>4
  <2>3. ChunkOf(p) = c + a /\ ChunkOf(q) = c + b
    BY <1>1, <1>4
  <2> HIDE DEF s, a, b, c
  <2> QED BY <2>1, <2>2, <2>3
<1>5. CASE i < j
  <2> DEFINE c == Chunks(g, i - 1)
             d == Chunks(g, j - 1)
             e == Chunks(g, i)
             a == p.piece
             b == q.piece
             n == PktCnt(i)
  <2>1. c \in Nat /\ d \in Nat /\ e = c + n
    BY <1>1, ChunksFacts
  <2>2. i <= j - 1
    BY <1>2, <1>5
  <2>3. e <= d
    BY <1>2, <2>2, ChunksFacts
  <2>4. n \in Nat /\ a \in 0 .. n - 1 /\ b \in Nat
    BY <1>1, PktCntFacts
  <2>5. ChunkOf(p) = c + a /\ ChunkOf(q) = d + b
    BY <1>1
  <2> HIDE DEF a, b, c, d, e, n
  <2> QED BY <2>1, <2>3, <2>4, <2>5
<1> QED BY <1>2, <1>3, <1>4, <1>5

(* Packet k of sub-operation i, as gen_pkt() makes it.                     *)
PacketOf(i, k) ==
    [group |-> GroupOf(i),
     psn   |-> (StartPsn(GroupOf(i)) + (ChunksBefore(i) + k)) % PsnMod,
     sub_op |-> i, piece |-> k]

LEMMA PacketOfReal ==
    ASSUME NEW i \in SubOp, NEW k \in 0 .. PktCnt(i) - 1
    PROVE  /\ Real(PacketOf(i, k))
           /\ PacketOf(i, k).sub_op = i /\ PacketOf(i, k).piece = k
           /\ PacketOf(i, k).group = GroupOf(i)
           /\ Number(PacketOf(i, k)) = Sum(i - 1) + k
           /\ ChunkOf(PacketOf(i, k)) = Chunks(GroupOf(i), i - 1) + k
<1> DEFINE p == PacketOf(i, k)
           g == GroupOf(i)
           y == StartPsn(g) + (ChunksBefore(i) + k)
<1>1. /\ p.group = g /\ p.sub_op = i /\ p.piece = k /\ p.psn = y % PsnMod
      /\ p = [group |-> g, psn |-> y % PsnMod, sub_op |-> i, piece |-> k]
  BY DEF PacketOf
<1>2. k \in Nat /\ k < PktCnt(i)
  BY PktCntFacts
<1>3. g \in Groups /\ StartPsn(g) \in Nat /\ PsnMod \in Nat \ {0}
  BY ConstantFacts
<1>4. ChunksBefore(i) \in Nat
  BY ChunksFacts DEF ChunksBefore, Chunks
<1>5. y % PsnMod \in 0 .. PsnMod - 1
  <2>1. y \in Nat
    BY <1>2, <1>3, <1>4
  <2> HIDE DEF y
  <2> QED BY <1>3, <2>1, DivMod
<1>6. ChunkOf(p) = ChunksBefore(i) + k
  BY <1>1 DEF ChunkOf
<1> HIDE DEF p, g
<1>7. p \in Pkt
  BY <1>1, <1>2, <1>3, <1>5 DEF Pkt
<1>8. Real(p)
  BY <1>1, <1>2, <1>6, <1>7 DEF Real, g
<1>9. Number(p) = Sum(i - 1) + k /\ ChunkOf(p) = Chunks(g, i - 1) + k
  BY <1>1, <1>8, RealFacts
<1> QED BY <1>1, <1>8, <1>9 DEF p, g

(* Every number belongs to a packet.                                       *)
LEMMA PacketWithNumber ==
    ASSUME NEW x \in Nat, x < Sum(NSubOps)
    PROVE  \E p : Real(p) /\ Number(p) = x
<1> DEFINE T == {n \in Nat : n <= NSubOps /\ x < Sum(n)}
<1>1. T \subseteq Nat /\ NSubOps \in T
  BY ConstantFacts
<1>2. PICK i \in T : \A n \in T : i <= n
  <2> HIDE DEF T
  <2> QED BY <1>1, LeastElement
<1>3. i \in Nat /\ i <= NSubOps /\ x < Sum(i)
  BY <1>2
<1>4. i # 0
  <2>1. Sum(0) = 0
    BY SumFacts
  <2> QED BY <1>3, <2>1
<1>5. i \in SubOp /\ i - 1 \in Nat /\ i - 1 < i /\ i - 1 <= NSubOps
  BY <1>3, <1>4, ConstantFacts DEF SubOp
<1>6. ~(x < Sum(i - 1))
  BY <1>2, <1>3, <1>5
<1>7. Sum(i - 1) \in Nat /\ Sum(i) = Sum(i - 1) + PktCnt(i) /\ PktCnt(i) \in Nat
  BY <1>5, SumFacts, PktCntFacts
<1> DEFINE k == x - Sum(i - 1)
<1>8. k \in 0 .. PktCnt(i) - 1 /\ Sum(i - 1) + k = x
  BY <1>3, <1>6, <1>7
<1>9. Real(PacketOf(i, k)) /\ Number(PacketOf(i, k)) = Sum(i - 1) + k
  <2> HIDE DEF k
  <2> QED BY <1>5, <1>8, PacketOfReal
<1> QED BY <1>8, <1>9

(* The packet of its group just before another one.                        *)
LEMMA ChunkBefore ==
    ASSUME NEW p, Real(p), ChunkOf(p) >= 1
    PROVE  \E q : /\ Real(q) /\ q.group = p.group
                  /\ ChunkOf(q) = ChunkOf(p) - 1 /\ Number(q) < Number(p)
<1> DEFINE g == p.group
           i == p.sub_op
           k == p.piece
<1>1. /\ i \in SubOp /\ g = GroupOf(i) /\ k \in 0 .. PktCnt(i) - 1
      /\ ChunkOf(p) = Chunks(g, i - 1) + k
      /\ Number(p) = Sum(i - 1) + k
  BY RealFacts
<1>2. /\ PktCnt(i) \in Nat /\ Chunks(g, i - 1) \in Nat /\ Sum(i - 1) \in Nat
      /\ i - 1 \in 0 .. NSubOps /\ i \in Nat
  BY <1>1, PktCntFacts, ChunksFacts, SumFacts, ConstantFacts DEF SubOp
<1>3. CASE k >= 1
  <2> DEFINE q == PacketOf(i, k - 1)
  <2>1. k - 1 \in 0 .. PktCnt(i) - 1
    BY <1>1, <1>2, <1>3
  <2>2. Real(q) /\ q.group = g /\ Number(q) = Sum(i - 1) + (k - 1)
        /\ ChunkOf(q) = Chunks(g, i - 1) + (k - 1)
    BY <1>1, <2>1, PacketOfReal
  <2>3. k \in Nat
    BY <1>1, <1>2
  <2> HIDE DEF q, k, g, i
  <2>4. ChunkOf(q) = ChunkOf(p) - 1 /\ Number(q) < Number(p)
    BY <1>1, <1>2, <2>2, <2>3
  <2> QED BY <2>2, <2>4 DEF g
<1>4. CASE k = 0
  <2>1. Chunks(g, i - 1) >= 1 /\ ChunkOf(p) = Chunks(g, i - 1)
    BY <1>1, <1>2, <1>4
  <2>2. PICK j \in 1 .. i - 1 : GroupOf(j) = g /\ Chunks(g, j - 1) + PktCnt(j) = Chunks(g, i - 1)
    BY <1>2, <2>1, LastChunk
  <2>3. j \in SubOp /\ j < i /\ j \in 0 .. NSubOps /\ j - 1 \in 0 .. NSubOps /\ j <= i - 1
    BY <1>1, <1>2, ConstantFacts DEF SubOp
  <2>4. PktCnt(j) \in Nat /\ PktCnt(j) >= 1
    BY <2>3, PktCntFacts
  <2> DEFINE l == PktCnt(j) - 1
             q == PacketOf(j, l)
  <2>5. l \in 0 .. PktCnt(j) - 1
    BY <2>4
  <2>6. /\ Real(q) /\ q.group = g /\ q.sub_op = j
        /\ Number(q) = Sum(j - 1) + l /\ ChunkOf(q) = Chunks(g, j - 1) + l
    BY <2>2, <2>3, <2>5, PacketOfReal
  <2>7. ChunkOf(q) = ChunkOf(p) - 1
    <3>1. Chunks(g, j - 1) \in Nat
      BY <2>3, ChunksFacts
    <3> HIDE DEF q, g, i, k
    <3> QED BY <2>1, <2>2, <2>4, <2>6, <3>1
  <2>8. Number(q) < Number(p)
    <3>1. Number(q) < Sum(i - 1)
      BY <1>2, <2>3, <2>6, NumberRange
    <3>2. Number(p) = Sum(i - 1)
      BY <1>1, <1>2, <1>4
    <3> QED BY <3>1, <3>2
  <2> QED BY <2>6, <2>7, <2>8
<1>5. k = 0 \/ k >= 1
  BY <1>1, <1>2
<1> QED BY <1>3, <1>4, <1>5

-----------------------------------------------------------------------------
(* Parts of sequences.                                                     *)

PickRound(f, s, S, k) ==
    IF k = 0 THEN <<>>
    ELSE IF s[k] \in S THEN Append(f[k - 1], s[k])
    ELSE f[k - 1]

(* The recursive function of Pick exists.                                  *)
LEMMA PickExists ==
    ASSUME NEW s, NEW S, Len(s) \in Nat
    PROVE  \E f : /\ f[0] = <<>>
                  /\ \A k \in 1 .. Len(s) :
                       f[k] = IF s[k] \in S THEN Append(f[k - 1], s[k]) ELSE f[k - 1]
                  /\ Pick(s, S) = f[Len(s)]
<1> DEFINE N == Len(s)
           T == {n \in Nat : \E f : f = [k \in 0 .. n |-> PickRound(f, s, S, k)]}
<1>1. 0 \in T
  <2> DEFINE f == [k \in 0 .. 0 |-> <<>>]
  <2>1. f = [k \in 0 .. 0 |-> PickRound(f, s, S, k)]
    BY DEF PickRound
  <2> QED BY <2>1
<1>2. ASSUME NEW n \in T PROVE n + 1 \in T
  <2>1. n \in Nat /\ n + 1 \in Nat
    OBVIOUS
  <2>2. PICK f : f = [k \in 0 .. n |-> PickRound(f, s, S, k)]
    OBVIOUS
  <2> DEFINE g == [k \in 0 .. n + 1 |-> IF k <= n THEN f[k] ELSE PickRound(f, s, S, k)]
  <2>3. ASSUME NEW k \in 0 .. n + 1 PROVE g[k] = PickRound(g, s, S, k)
    <3>1. k = 0 \/ (k - 1 \in 0 .. n /\ g[k - 1] = f[k - 1])
      BY <2>1
    <3>2. PickRound(g, s, S, k) = PickRound(f, s, S, k)
      BY <3>1 DEF PickRound
    <3>3. g[k] = PickRound(f, s, S, k)
      <4>1. CASE k <= n
        <5>1. k \in 0 .. n
          BY <2>1, <4>1
        <5>2. f[k] = PickRound(f, s, S, k)
          BY <2>2, <5>1
        <5> QED BY <5>2, <4>1
      <4>2. CASE ~ (k <= n)
        BY <4>2
      <4> QED BY <4>1, <4>2
    <3> QED BY <3>2, <3>3
  <2>4. g = [k \in 0 .. n + 1 |-> PickRound(g, s, S, k)]
    BY <2>3
  <2> HIDE DEF g
  <2> QED BY <2>1, <2>4
<1>3. N \in T
  <2>1. T \subseteq Nat
    OBVIOUS
  <2> HIDE DEF T
  <2> QED BY <1>1, <1>2, <2>1, NatSetInduction
<1> DEFINE F == CHOOSE f : f = [k \in 0 .. Len(s) |-> PickRound(f, s, S, k)]
<1>4. F = [k \in 0 .. Len(s) |-> PickRound(F, s, S, k)]
  BY <1>3
<1>5. Pick(s, S) = F[Len(s)]
  BY Zenon DEF Pick, PickRound
<1> HIDE DEF F
<1>6. F[0] = <<>>
  <2>1. 0 \in 0 .. Len(s)
    OBVIOUS
  <2>2. F[0] = PickRound(F, s, S, 0)
    BY <1>4, <2>1
  <2> QED BY <2>2 DEF PickRound
<1>7. ASSUME NEW k \in 1 .. Len(s)
      PROVE  F[k] = IF s[k] \in S THEN Append(F[k - 1], s[k]) ELSE F[k - 1]
  <2>1. k \in 0 .. Len(s) /\ k # 0
    OBVIOUS
  <2>2. F[k] = PickRound(F, s, S, k)
    BY <1>4, <2>1
  <2> QED BY <2>1, <2>2 DEF PickRound
<1> QED BY <1>5, <1>6, <1>7

(* What is picked is in the sequence and in the set.                       *)
LEMMA PickFacts ==
    ASSUME NEW E, NEW s \in Seq(E), NEW S
    PROVE  /\ Pick(s, S) \in Seq(E)
           /\ \A n \in 1 .. Len(Pick(s, S)) :
                Pick(s, S)[n] \in S /\ \E k \in 1 .. Len(s) : Pick(s, S)[n] = s[k]
<1> DEFINE N == Len(s)
           D == {e \in E : e \in S /\ \E k \in 1 .. N : e = s[k]}
<1>0. N \in Nat
  OBVIOUS
<1>1. PICK f : /\ f[0] = <<>>
               /\ \A k \in 1 .. N :
                    f[k] = IF s[k] \in S THEN Append(f[k - 1], s[k]) ELSE f[k - 1]
               /\ Pick(s, S) = f[N]
  BY <1>0, PickExists
<1> DEFINE T == {n \in Nat : n <= N => f[n] \in Seq(D)}
<1>2. 0 \in T
  <2>1. f[0] \in Seq(D)
    <3> HIDE DEF D
    <3> QED BY <1>1
  <2> QED BY <2>1
<1>3. ASSUME NEW n \in T PROVE n + 1 \in T
  <2>1. SUFFICES ASSUME n + 1 <= N PROVE f[n + 1] \in Seq(D)
    OBVIOUS
  <2>2. n \in Nat /\ n <= N /\ n + 1 \in 1 .. N /\ (n + 1) - 1 = n
    BY <1>0, <2>1
  <2>3. f[n] \in Seq(D)
    BY <2>2
  <2>4. f[n + 1] = IF s[n + 1] \in S THEN Append(f[n], s[n + 1]) ELSE f[n]
    BY <1>1, <2>2
  <2>5. s[n + 1] \in E
    BY <2>2
  <2>6. s[n + 1] \in S => s[n + 1] \in D
    BY <2>2, <2>5
  <2> HIDE DEF D
  <2> QED BY <2>3, <2>4, <2>6
<1>4. N \in T
  <2>1. T \subseteq Nat
    OBVIOUS
  <2> HIDE DEF T
  <2> QED BY <1>0, <1>2, <1>3, <2>1, NatSetInduction
<1>5. Pick(s, S) \in Seq(D)
  BY <1>0, <1>1, <1>4
<1>6. \A n \in 1 .. Len(Pick(s, S)) : Pick(s, S)[n] \in D
  <2> HIDE DEF D
  <2> QED BY <1>5
<1>7. D \subseteq E
  OBVIOUS
<1>8. Pick(s, S) \in Seq(E)
  <2> HIDE DEF D
  <2> QED BY <1>5, <1>7
<1> QED BY <1>6, <1>8

(* The positions of a part of the ring: those of consecutive numbers.      *)
LEMMA PositionsFacts ==
    ASSUME NEW L \in Nat, NEW G \in Nat, L <= G, G < L + MAX_WIN_LEN
    PROVE  LET s == Positions(L % MAX_WIN_LEN, G % MAX_WIN_LEN)
           IN  /\ s \in Seq(Position) /\ Len(s) = G - L
               /\ \A k \in 1 .. G - L : s[k] = (L + (k - 1)) % MAX_WIN_LEN
<1> DEFINE R == MAX_WIN_LEN
           s == Positions(L % R, G % R)
<1>1. R \in Nat \ {0}
  BY ConstantFacts
<1>2. ((G % R) - (L % R)) % R = G - L
  BY <1>1, RingDistance
<1>3. s = [k \in 1 .. G - L |-> ((L % R) + k - 1) % R]
  BY <1>2 DEF Positions
<1>4. ASSUME NEW k \in 1 .. G - L
      PROVE  ((L % R) + k - 1) % R = (L + (k - 1)) % R
  <2>1. k - 1 \in Int /\ L \in Int
    OBVIOUS
  <2>2. ((L % R) + (k - 1)) % R = (L + (k - 1)) % R
    BY <1>1, <2>1, ModPlus
  <2>3. L % R \in Int
    BY <1>1, DivMod
  <2>4. (L % R) + k - 1 = (L % R) + (k - 1)
    BY <2>3
  <2> QED BY <2>2, <2>4
<1>5. ASSUME NEW k \in 1 .. G - L PROVE (L + (k - 1)) % R \in Position
  <2>1. L + (k - 1) \in Nat
    OBVIOUS
  <2> QED BY <1>1, <2>1, DivMod DEF Position
<1>6. s = [k \in 1 .. G - L |-> (L + (k - 1)) % R]
  BY <1>3, <1>4
<1>7. G - L \in Nat
  OBVIOUS
<1> HIDE DEF s
<1>8. s \in Seq(Position) /\ Len(s) = G - L
  BY <1>5, <1>6, <1>7
<1>9. \A k \in 1 .. G - L : s[k] = (L + (k - 1)) % R
  BY <1>6
<1> QED BY <1>8, <1>9 DEF s

(* Two numbers less than a round apart have different positions.           *)
LEMMA RingApart ==
    ASSUME NEW x \in Nat, NEW y \in Nat, x < y, y < x + MAX_WIN_LEN
    PROVE  x % MAX_WIN_LEN # y % MAX_WIN_LEN
<1>1. MAX_WIN_LEN \in Nat \ {0}
  BY ConstantFacts
<1>2. SUFFICES ASSUME x % MAX_WIN_LEN = y % MAX_WIN_LEN PROVE FALSE
  OBVIOUS
<1>3. y >= x + MAX_WIN_LEN
  BY <1>1, <1>2, ModApart
<1> QED BY <1>1, <1>3

LEMMA RingPosition ==
    ASSUME NEW x \in Nat
    PROVE  /\ x % MAX_WIN_LEN \in Position /\ x % MAX_WIN_LEN \in Nat
           /\ Next1(x % MAX_WIN_LEN) = (x + 1) % MAX_WIN_LEN
           /\ x >= 1 => Prev1(x % MAX_WIN_LEN) = (x - 1) % MAX_WIN_LEN
<1>1. MAX_WIN_LEN \in Nat \ {0} /\ x \in Int /\ 1 \in Int /\ -1 \in Int
  BY ConstantFacts
<1>2. x % MAX_WIN_LEN \in 0 .. MAX_WIN_LEN - 1
  BY <1>1, DivMod
<1>3. x % MAX_WIN_LEN \in Position /\ x % MAX_WIN_LEN \in Nat
  BY <1>1, <1>2 DEF Position
<1>4. ((x % MAX_WIN_LEN) + 1) % MAX_WIN_LEN = (x + 1) % MAX_WIN_LEN
  BY <1>1, ModPlus
<1>5. ((x % MAX_WIN_LEN) + (-1)) % MAX_WIN_LEN = (x + (-1)) % MAX_WIN_LEN
  BY <1>1, ModPlus
<1>6. (x % MAX_WIN_LEN) + (-1) = (x % MAX_WIN_LEN) - 1 /\ x + (-1) = x - 1
  BY <1>3
<1> QED BY <1>3, <1>4, <1>5, <1>6 DEF Next1, Prev1

-----------------------------------------------------------------------------
(* The inductive invariant.                                                *)

(* Sub-operations of which a packet was generated.                         *)
Begun == IF sub_op = NoSubOp THEN popped ELSE popped + 1

(* The end of the window, that of an unfinished shift_send() included, its *)
(* length, and the numbers Left .. Generated - 1 in it.                    *)
EndPos == IF pc = "send" THEN loop.to_send ELSE window.to_send

Live == (EndPos - window.to_ack) % MAX_WIN_LEN

Left == Generated - Live

(* What the ring has at the position of a number.                          *)
At(x) == state[x % MAX_WIN_LEN]

(* gen_pkt() numbers the packets of every group without a gap.             *)
GenInv ==
    /\ sub_op # NoSubOp =>
          /\ sub_op = popped + 1 /\ popped < posted
          /\ pkt_sent >= 1 /\ pkt_sent < PktCnt(sub_op)
          /\ start_psn = (StartPsn(GroupOf(sub_op)) + Chunks(GroupOf(sub_op), popped)) % PsnMod
    /\ \A g \in Groups : psn[g] = (StartPsn(g) + Chunks(g, Begun)) % PsnMod
    /\ Begun > 0 => current_group_id = GroupOf(Begun)
    /\ current_switch_window_limit <= Win

(* The edges of the window are positions of numbers, at most a window      *)
(* apart.                                                                  *)
EdgeInv ==
    /\ EndPos = Generated % MAX_WIN_LEN
    /\ Left >= 0
    /\ window.to_ack = Left % MAX_WIN_LEN
    /\ Live <= Win
    /\ pc = "send" => loop.win_len = Live /\ loop.limit <= Win

(* The PSNs at the edges, which get_position() relies on.                  *)
EdgePsnInv ==
    /\ Live > 0 => window.left_psn = At(Left).pkt.psn
    /\ pc # "send" /\ Live > 0 => window.right_psn = At(Generated - 1).pkt.psn

(* The ring holds the last MAX_WIN_LEN packets.                            *)
Holds(entry, x) ==
    /\ Real(entry.pkt) /\ Number(entry.pkt) = x
    /\ entry.is_last = (entry.pkt.piece + 1 = PktCnt(entry.pkt.sub_op))

ContentInv ==
    \A x \in 0 .. Generated - 1 : Generated <= x + MAX_WIN_LEN => Holds(At(x), x)

(* A packet of the window is marked as acknowledged when it is answered.   *)
HasAnswer(p) == answer[p.sub_op][p.piece] # NoPkt

AckedInv ==
    \A x \in Left .. Generated - 1 : At(x).acked = HasAnswer(At(x).pkt)

(* Answers belong to generated packets, and all before the window came.    *)
AnswerInv ==
    /\ DOMAIN answer = SubOp
    /\ \A i \in SubOp : answer[i] \in [0 .. PktCnt(i) - 1 -> Pkt \cup {NoPkt}]
    /\ \A i \in SubOp : \A k \in 0 .. PktCnt(i) - 1 :
          /\ answer[i][k] # NoPkt =>
                answer[i][k] = PacketOf(i, k) /\ Sum(i - 1) + k < Generated
          /\ Sum(i - 1) + k < Left => answer[i][k] # NoPkt

(* Entries of a transmit queue are packets below G, at their positions,    *)
(* and none is a window or more older than one before it.                  *)
InOrder(q, G) ==
    \A n \in 1 .. Len(q) :
       /\ Real(q[n].pkt) /\ Number(q[n].pkt) < G
       /\ q[n].position = Number(q[n].pkt) % MAX_WIN_LEN
       /\ \A m \in 1 .. n : Number(q[n].pkt) + Win > Number(q[m].pkt)

(* No entry is a window or more older than number y.                       *)
Behind(q, y) == \A n \in 1 .. Len(q) : Number(q[n].pkt) + Win > y

QueueInv == InOrder(txq, Generated)

(* Nor is one older by as much than a packet that departed,                *)
WireInv == \A p \in wire : Real(p) /\ Number(p) < Generated /\ Behind(txq, Number(p))

(* or than one whose answer has come.                                      *)
LateInv ==
    \A i \in SubOp : \A k \in 0 .. PktCnt(i) - 1 :
       answer[i][k] # NoPkt => Behind(txq, Sum(i - 1) + k)

(* The sub-operations before the window are completed, and the others are  *)
(* of one group.                                                           *)
DoneInv ==
    /\ Len(cq) <= NSubOps
    /\ \A n \in 1 .. Len(cq) : cq[n] = n
    /\ Sum(Len(cq)) <= Left
    /\ Len(cq) < NSubOps => Left < Sum(Len(cq) + 1)
    /\ \A i \in Len(cq) + 1 .. posted : GroupOf(i) = GroupOf(posted)

Inv ==
    /\ TypeOK /\ GenInv /\ EdgeInv /\ EdgePsnInv /\ ContentInv /\ AckedInv
    /\ AnswerInv /\ QueueInv /\ WireInv /\ LateInv /\ DoneInv

(* Where the generator is.                                                 *)
LEMMA GeneratedFacts ==
    ASSUME TypeOK, GenInv
    PROVE  /\ Generated = Sum(popped) + (IF sub_op = NoSubOp THEN 0 ELSE pkt_sent)
           /\ Generated \in Nat
           /\ Begun \in 0 .. NSubOps /\ Begun <= posted
           /\ Generated <= Sum(Begun) /\ Generated <= Sum(NSubOps)
<1>1. /\ popped \in 0 .. NSubOps /\ popped \in Nat /\ posted \in Nat /\ popped <= posted
      /\ posted <= NSubOps /\ NSubOps \in Nat /\ pkt_sent \in Nat
  BY ConstantFacts DEF TypeOK
<1>2. Generated = Sum(popped) + (IF sub_op = NoSubOp THEN 0 ELSE pkt_sent)
  <2>1. (popped + 1) - 1 = popped
    BY <1>1
  <2> QED BY <2>1 DEF Generated, PacketsBefore, Sum
<1>3. Sum(popped) \in Nat
  BY <1>1, SumFacts
<1>4. CASE sub_op = NoSubOp
  <2>1. Begun = popped /\ Generated = Sum(popped)
    BY <1>2, <1>3, <1>4 DEF Begun
  <2>2. NSubOps \in 0 .. NSubOps /\ Sum(popped) <= Sum(NSubOps)
    BY <1>1, SumFacts
  <2> QED BY <1>1, <1>2, <1>3, <2>1, <2>2
<1>5. CASE sub_op # NoSubOp
  <2>1. /\ Begun = popped + 1 /\ sub_op = popped + 1 /\ popped < posted
        /\ pkt_sent < PktCnt(popped + 1) /\ Generated = Sum(popped) + pkt_sent
    BY <1>2, <1>5 DEF Begun, GenInv
  <2>2. /\ popped + 1 \in SubOp /\ popped + 1 \in 0 .. NSubOps
        /\ (popped + 1) - 1 = popped /\ NSubOps \in 0 .. NSubOps
    BY <1>1, <2>1 DEF SubOp
  <2>3. Sum(popped + 1) = Sum(popped) + PktCnt(popped + 1) /\ PktCnt(popped + 1) \in Nat
    BY <2>2, SumFacts, PktCntFacts
  <2>4. Sum(popped + 1) <= Sum(NSubOps) /\ Sum(NSubOps) \in Nat
    BY <2>2, SumFacts
  <2>5. Generated <= Sum(popped + 1) /\ Generated \in Nat
    BY <1>1, <1>3, <2>1, <2>3
  <2>6. Generated <= Sum(NSubOps)
    BY <1>3, <2>3, <2>4, <2>5
  <2> QED BY <1>1, <1>2, <2>1, <2>2, <2>5, <2>6
<1> QED BY <1>4, <1>5

(* Where the window is.                                                    *)
LEMMA EdgeFacts ==
    ASSUME TypeOK, GenInv, EdgeInv
    PROVE  /\ Generated \in Nat /\ Left \in Nat /\ Live \in Nat
           /\ Left + Live = Generated /\ Left <= Generated /\ Live <= Win
           /\ Generated < Left + MAX_WIN_LEN
           /\ EndPos \in Position /\ window.to_ack \in Position
           /\ EndPos = Generated % MAX_WIN_LEN
           /\ window.to_ack = Left % MAX_WIN_LEN
<1>1. Generated \in Nat
  BY GeneratedFacts
<1>2. window.to_ack \in Position /\ EndPos \in Position
  BY DEF TypeOK, EndPos
<1>3. Live \in Nat
  <2>1. EndPos - window.to_ack \in Int
    BY <1>2, ConstantFacts DEF Position
  <2> DEFINE d == EndPos - window.to_ack
  <2>2. d % MAX_WIN_LEN \in 0 .. MAX_WIN_LEN - 1
    <3> HIDE DEF d
    <3> QED BY <2>1, ConstantFacts, DivModInt DEF d
  <2> QED BY <2>2, ConstantFacts DEF Live
<1>4. Left = Generated - Live /\ Left >= 0 /\ Live <= Win
  BY DEF EdgeInv, Left
<1>5. /\ EndPos = Generated % MAX_WIN_LEN
      /\ window.to_ack = Left % MAX_WIN_LEN
  BY DEF EdgeInv
<1>6. Win \in Nat /\ MAX_WIN_LEN \in Nat /\ Win < MAX_WIN_LEN
  BY ConstantFacts
<1>7. Left \in Nat /\ Left + Live = Generated /\ Left <= Generated /\ Generated < Left + MAX_WIN_LEN
  BY <1>1, <1>3, <1>4, <1>6
<1> QED BY <1>1, <1>2, <1>3, <1>4, <1>5, <1>7

(* A packet is determined by its sub-operation and piece.                  *)
LEMMA RealIsPacketOf ==
    ASSUME NEW p, Real(p)
    PROVE  p = PacketOf(p.sub_op, p.piece)
<1>1. p.sub_op \in SubOp /\ p.piece \in 0 .. PktCnt(p.sub_op) - 1
      /\ Number(p) = Sum(p.sub_op - 1) + p.piece
  BY RealFacts
<1>2. /\ Real(PacketOf(p.sub_op, p.piece))
      /\ Number(PacketOf(p.sub_op, p.piece)) = Sum(p.sub_op - 1) + p.piece
  BY <1>1, PacketOfReal
<1> QED BY <1>1, <1>2, NumberInjective

(* The packets of the window are in the ring.                              *)
LEMMA WindowContent ==
    ASSUME TypeOK, GenInv, EdgeInv, ContentInv
    PROVE  \A x \in Left .. Generated - 1 : Holds(At(x), x)
<1>1. /\ Generated \in Nat /\ Left \in Nat /\ Generated < Left + MAX_WIN_LEN
      /\ MAX_WIN_LEN \in Nat
  BY EdgeFacts, ConstantFacts
<1>2. \A x \in Left .. Generated - 1 :
          x \in 0 .. Generated - 1 /\ Generated <= x + MAX_WIN_LEN
  BY <1>1
<1> QED BY <1>2 DEF ContentInv

(* Which packets have an answer.                                           *)
LEMMA AnsweredFacts ==
    ASSUME AnswerInv, LateInv, NEW p, Real(p)
    PROVE  /\ HasAnswer(p) => /\ answer[p.sub_op][p.piece] = p
                              /\ Number(p) < Generated
                              /\ Behind(txq, Number(p))
           /\ Number(p) < Left => HasAnswer(p)
<1>1. /\ p.sub_op \in SubOp /\ p.piece \in 0 .. PktCnt(p.sub_op) - 1
      /\ Number(p) = Sum(p.sub_op - 1) + p.piece
  BY RealFacts
<1>2. p = PacketOf(p.sub_op, p.piece)
  BY RealIsPacketOf
<1> QED BY <1>1, <1>2 DEF AnswerInv, LateInv, HasAnswer

Entry == [position : Position, pkt : Pkt]

(* Packets of the window are queued behind the rest.                       *)
LEMMA QueueAppend ==
    ASSUME NEW q \in Seq(Entry), NEW add \in Seq(Entry),
           NEW G \in Nat, NEW H \in Nat, NEW L \in Nat, G <= H, H <= L + Win,
           InOrder(q, G),
           \A n \in 1 .. Len(add) :
              /\ Real(add[n].pkt) /\ Number(add[n].pkt) \in L .. H - 1
              /\ add[n].position = Number(add[n].pkt) % MAX_WIN_LEN
    PROVE  /\ q \o add \in Seq(Entry)
           /\ InOrder(q \o add, H)
           /\ \A y \in Nat : y < H /\ Behind(q, y) => Behind(q \o add, y)
<1> DEFINE r == q \o add
           a == Len(q)
           b == Len(add)
<1>0. Win \in Nat
  BY ConstantFacts
<1>1. /\ r \in Seq(Entry) /\ Len(r) = a + b /\ a \in Nat /\ b \in Nat
      /\ \A n \in 1 .. a + b : r[n] = IF n <= a THEN q[n] ELSE add[n - a]
  BY ConcatFacts
<1>2. ASSUME NEW n \in 1 .. a
      PROVE  /\ r[n] = q[n] /\ Real(q[n].pkt) /\ Number(q[n].pkt) < G
             /\ q[n].position = Number(q[n].pkt) % MAX_WIN_LEN
             /\ Number(q[n].pkt) \in Nat
             /\ \A m \in 1 .. n : Number(q[n].pkt) + Win > Number(q[m].pkt)
  <2>1. n \in 1 .. a + b /\ n <= a
    BY <1>1
  <2>2. r[n] = q[n]
    BY <1>1, <2>1
  <2>3. /\ Real(q[n].pkt) /\ Number(q[n].pkt) < G
        /\ q[n].position = Number(q[n].pkt) % MAX_WIN_LEN
        /\ \A m \in 1 .. n : Number(q[n].pkt) + Win > Number(q[m].pkt)
    BY DEF InOrder
  <2>4. Number(q[n].pkt) \in Nat
    BY <2>3, RealFacts
  <2> QED BY <2>2, <2>3, <2>4
<1>3. ASSUME NEW n \in a + 1 .. a + b
      PROVE  /\ Real(r[n].pkt) /\ Number(r[n].pkt) \in L .. H - 1
             /\ Number(r[n].pkt) \in Nat
             /\ r[n].position = Number(r[n].pkt) % MAX_WIN_LEN
  <2>1. n \in 1 .. a + b /\ ~(n <= a) /\ n - a \in 1 .. b
    BY <1>1
  <2>2. r[n] = add[n - a]
    BY <1>1, <2>1
  <2>3. /\ Real(r[n].pkt) /\ Number(r[n].pkt) \in L .. H - 1
        /\ r[n].position = Number(r[n].pkt) % MAX_WIN_LEN
    BY <2>1, <2>2
  <2> QED BY <2>3
<1>4. \A n \in 1 .. a + b : n \in 1 .. a \/ n \in a + 1 .. a + b
  BY <1>1
<1>5. \A n \in 1 .. a + b : Number(r[n].pkt) \in Nat /\ Number(r[n].pkt) < H
  <2>1. ASSUME NEW n \in 1 .. a + b PROVE Number(r[n].pkt) \in Nat /\ Number(r[n].pkt) < H
    <3> DEFINE x == Number(r[n].pkt)
    <3>1. CASE n \in 1 .. a
      <4>1. x \in Nat /\ x < G
        BY <1>2, <3>1
      <4> HIDE DEF x
      <4>2. x < H
        BY <4>1
      <4> QED BY <4>1, <4>2 DEF x
    <3>2. CASE n \in a + 1 .. a + b
      BY <1>3, <3>2
    <3> QED BY <1>4, <3>1, <3>2
  <2> QED BY <2>1
<1> HIDE DEF r
<1>6. ASSUME NEW n \in 1 .. a + b
      PROVE  /\ Real(r[n].pkt) /\ Number(r[n].pkt) < H
             /\ r[n].position = Number(r[n].pkt) % MAX_WIN_LEN
             /\ \A m \in 1 .. n : Number(r[n].pkt) + Win > Number(r[m].pkt)
  <2>1. CASE n \in 1 .. a
    <3>1. \A m \in 1 .. n : m \in 1 .. a
      BY <1>1, <2>1
    <3> QED BY <1>2, <1>5, <2>1, <3>1
  <2>2. CASE n \in a + 1 .. a + b
    <3>1. ASSUME NEW m \in 1 .. n PROVE Number(r[n].pkt) + Win > Number(r[m].pkt)
      <4> DEFINE x == Number(r[n].pkt)
                 y == Number(r[m].pkt)
      <4>1. m \in 1 .. a + b
        BY <1>1, <2>2
      <4>2. x \in L .. H - 1 /\ y \in Nat /\ y < H
        BY <1>3, <1>5, <2>2, <4>1
      <4> HIDE DEF x, y
      <4>3. x + Win > y
        BY <1>0, <4>2
      <4> QED BY <4>3 DEF x, y
    <3> QED BY <1>3, <1>5, <2>2, <3>1
  <2> QED BY <1>4, <2>1, <2>2
<1>7. InOrder(r, H)
  BY <1>1, <1>6 DEF InOrder
<1>8. ASSUME NEW y \in Nat, y < H, Behind(q, y), NEW n \in 1 .. a + b
      PROVE  Number(r[n].pkt) + Win > y
  <2>1. CASE n \in 1 .. a
    BY <1>2, <1>8, <2>1 DEF Behind
  <2>2. CASE n \in a + 1 .. a + b
    <3> DEFINE x == Number(r[n].pkt)
    <3>1. x \in L .. H - 1
      BY <1>3, <2>2
    <3> HIDE DEF x
    <3>2. x + Win > y
      BY <1>0, <1>8, <3>1
    <3> QED BY <3>2 DEF x
  <2> QED BY <1>4, <2>1, <2>2
<1>9. \A y \in Nat : y < H /\ Behind(q, y) => Behind(r, y)
  BY <1>1, <1>8 DEF Behind
<1> QED BY <1>1, <1>7, <1>9 DEF r

(* What is still queued is in the ring, and stays there when one more      *)
(* packet is generated into a window that has room for it.                 *)
LEMMA QueuedInRing ==
    ASSUME Inv, NEW n \in 1 .. Len(txq)
    PROVE  /\ txq[n] \in Entry /\ Real(txq[n].pkt)
           /\ Number(txq[n].pkt) \in 0 .. Generated - 1
           /\ Left <= Number(txq[n].pkt) + Win
           /\ Generated <= Number(txq[n].pkt) + MAX_WIN_LEN
           /\ Live < Win => Generated + 1 <= Number(txq[n].pkt) + MAX_WIN_LEN
           /\ txq[n].position = Number(txq[n].pkt) % MAX_WIN_LEN
           /\ state[txq[n].position].pkt = txq[n].pkt
<1> DEFINE p == txq[n].pkt
           x == Number(p)
<1>1. /\ txq[n] \in Entry /\ Real(p) /\ x < Generated /\ x \in Nat
      /\ txq[n].position = x % MAX_WIN_LEN
  <2>1. txq[n] \in Entry
    <3>1. txq \in Seq(Entry)
      BY DEF Inv, TypeOK, Entry
    <3> QED BY <3>1
  <2>2. Real(p) /\ x < Generated /\ txq[n].position = x % MAX_WIN_LEN
    BY DEF Inv, QueueInv, InOrder
  <2>3. x \in Nat
    BY <2>2, RealFacts
  <2> QED BY <2>1, <2>2, <2>3
<1>2. /\ Generated \in Nat /\ Left \in Nat /\ Live \in Nat /\ Left + Live = Generated
      /\ Live <= Win
  BY EdgeFacts DEF Inv
<1>3. Win \in Nat /\ MAX_WIN_LEN \in Nat /\ 2 * Win <= MAX_WIN_LEN
  BY ConstantFacts
<1>4. Left <= x + Win
  <2>1. CASE Left <= x
    <3> HIDE DEF x
    <3> QED BY <1>1, <1>2, <1>3, <2>1
  <2>2. CASE x < Left
    <3> DEFINE i == p.sub_op
    <3>1. Left >= 1 /\ Left - 1 \in Nat
      <4> HIDE DEF x
      <4> QED BY <1>1, <1>2, <2>2
    <3>2. PICK q : Real(q) /\ Number(q) = Left - 1
      <4>1. Generated <= Sum(NSubOps) /\ Sum(NSubOps) \in Nat
        <5>1. Generated <= Sum(NSubOps)
          BY GeneratedFacts DEF Inv
        <5>2. NSubOps \in 0 .. NSubOps
          BY ConstantFacts
        <5> QED BY <5>1, <5>2, SumFacts
      <4>2. Left - 1 < Sum(NSubOps)
        BY <1>2, <4>1
      <4> QED BY <3>1, <4>2, PacketWithNumber
    <3>3. HasAnswer(q)
      <4>1. Number(q) < Left
        BY <1>2, <3>2
      <4> QED BY <3>2, <4>1, AnsweredFacts DEF Inv
    <3>4. Behind(txq, Left - 1)
      BY <3>2, <3>3, AnsweredFacts DEF Inv
    <3>5. x + Win > Left - 1
      BY <3>4 DEF Behind
    <3> HIDE DEF x
    <3> QED BY <1>1, <1>2, <1>3, <3>5
  <2> HIDE DEF x
  <2> QED BY <1>1, <1>2, <2>1, <2>2
<1> HIDE DEF x
<1>5. Generated <= x + MAX_WIN_LEN /\ (Live < Win => Generated + 1 <= x + MAX_WIN_LEN)
  BY <1>1, <1>2, <1>3, <1>4
<1>6. x \in 0 .. Generated - 1
  BY <1>1, <1>2
<1>7. Holds(At(x), x)
  BY <1>5, <1>6 DEF Inv, ContentInv
<1>8. At(x).pkt = p
  BY <1>1, <1>7, NumberInjective DEF Holds, x
<1> QED BY <1>1, <1>4, <1>5, <1>6, <1>8 DEF At, x

(* The packets of the window are of the current group, and their chunks    *)
(* and PSNs follow one another.                                            *)
LEMMA WindowGroup ==
    ASSUME Inv, NEW x \in Left .. Generated - 1
    PROVE  /\ Holds(At(x), x) /\ Holds(At(Left), Left)
           /\ At(x).pkt.group = current_group_id
           /\ At(Left).pkt.group = current_group_id
           /\ ChunkOf(At(x).pkt) = ChunkOf(At(Left).pkt) + (x - Left)
           /\ At(x).pkt.psn = (window.left_psn + (x - Left)) % PsnMod
<1> DEFINE p == At(x).pkt
           q == At(Left).pkt
           i == p.sub_op
           j == q.sub_op
           n == Len(cq)
           g == current_group_id
<1>1. /\ Generated \in Nat /\ Left \in Nat /\ Live \in Nat /\ Left + Live = Generated
      /\ Begun \in 0 .. NSubOps /\ Begun <= posted /\ Generated <= Sum(Begun)
  BY EdgeFacts, GeneratedFacts DEF Inv
<1>2. x \in Nat /\ Left <= x /\ x < Generated /\ Left \in Left .. Generated - 1 /\ Live > 0
  BY <1>1
<1>3. Holds(At(x), x) /\ Holds(At(Left), Left)
  BY <1>2, WindowContent DEF Inv
<1>4. Real(p) /\ Real(q) /\ Number(p) = x /\ Number(q) = Left
  BY <1>3 DEF Holds
<1>5. /\ i \in SubOp /\ j \in SubOp
      /\ p.group = GroupOf(i) /\ q.group = GroupOf(j)
      /\ p.piece \in Nat /\ q.piece \in Nat
      /\ x = Sum(i - 1) + p.piece /\ Left = Sum(j - 1) + q.piece
      /\ ChunkOf(p) = Chunks(p.group, i - 1) + p.piece
      /\ ChunkOf(q) = Chunks(q.group, j - 1) + q.piece
      /\ ChunkOf(p) \in Nat /\ ChunkOf(q) \in Nat
      /\ p.psn = (StartPsn(p.group) + ChunkOf(p)) % PsnMod
      /\ q.psn = (StartPsn(q.group) + ChunkOf(q)) % PsnMod
      /\ p.group \in Groups
  BY <1>4, RealFacts
<1>6. n \in 0 .. NSubOps /\ n \in Nat /\ Sum(n) <= Left
  <2>1. n \in Nat
    BY DEF Inv, TypeOK
  <2>2. n <= NSubOps /\ Sum(n) <= Left
    BY DEF Inv, DoneInv
  <2> QED BY <2>1, <2>2, ConstantFacts
<1> HIDE DEF n, i, j, p, q
<1>7. n < i /\ n < j /\ i <= Begun /\ j <= Begun /\ j <= i
  <2>1. i \in 0 .. NSubOps /\ j \in 0 .. NSubOps /\ i \in Nat /\ j \in Nat
    BY <1>5, ConstantFacts DEF SubOp
  <2>2. Sum(n) \in Nat /\ Sum(Begun) \in Nat /\ Sum(i) \in Nat
    BY <1>1, <1>6, <2>1, SumFacts
  <2>3. ~(x < Sum(n)) /\ ~(Left < Sum(n)) /\ x < Sum(Begun) /\ Left < Sum(Begun)
    BY <1>1, <1>2, <1>6, <2>2
  <2>4. x < Sum(i)
    BY <1>4, NumberRange DEF i
  <2>5. Left < Sum(i)
    BY <1>1, <1>2, <2>2, <2>4
  <2>6. ~(i <= n) /\ ~(j <= n) /\ i <= Begun /\ j <= Begun /\ j <= i
    BY <1>1, <1>4, <1>6, <2>1, <2>3, <2>5, NumberRange DEF i, j
  <2> QED BY <1>6, <2>1, <2>6
<1>8. /\ GroupOf(Begun) = GroupOf(posted) /\ g = GroupOf(Begun)
      /\ \A l \in j .. i : GroupOf(l) = GroupOf(posted)
  <2>1. posted \in Nat /\ Begun \in Nat /\ i \in Nat /\ j \in Nat
    BY <1>1, <1>5, ConstantFacts DEF Inv, TypeOK, SubOp
  <2>2. Begun > 0 /\ Begun \in n + 1 .. posted /\ \A l \in j .. i : l \in n + 1 .. posted
    BY <1>1, <1>6, <1>7, <2>1
  <2>3. \A l \in n + 1 .. posted : GroupOf(l) = GroupOf(posted)
    BY DEF Inv, DoneInv, n
  <2>4. Begun > 0 => current_group_id = GroupOf(Begun)
    BY DEF Inv, GenInv
  <2> QED BY <2>2, <2>3, <2>4
<1>9. p.group = g /\ q.group = g
  <2>1. i \in j .. i /\ j \in j .. i
    BY <1>5, <1>7, ConstantFacts DEF SubOp
  <2> QED BY <1>5, <1>8, <2>1
<1>10. Chunks(g, i - 1) - Chunks(g, j - 1) = Sum(i - 1) - Sum(j - 1)
  <2>1. i - 1 \in 0 .. NSubOps /\ j - 1 \in 0 .. NSubOps /\ j - 1 <= i - 1
    BY <1>5, <1>7, ConstantFacts DEF SubOp
  <2>2. \A l \in (j - 1) + 1 .. i - 1 : l \in j .. i
    BY <1>5, ConstantFacts DEF SubOp
  <2>3. \A l \in (j - 1) + 1 .. i - 1 : GroupOf(l) = g
    BY <1>8, <2>2
  <2> QED BY <2>1, <2>3, ChunkDistance
<1>11. ChunkOf(p) = ChunkOf(q) + (x - Left)
  <2> DEFINE a == Chunks(g, i - 1)
             b == Chunks(g, j - 1)
             c == Sum(i - 1)
             d == Sum(j - 1)
  <2>1. a \in Nat /\ b \in Nat /\ c \in Nat /\ d \in Nat
    BY <1>5, ChunksFacts, SumFacts
  <2>2. /\ ChunkOf(p) = a + p.piece /\ ChunkOf(q) = b + q.piece
        /\ x = c + p.piece /\ Left = d + q.piece /\ a - b = c - d
    BY <1>5, <1>9, <1>10
  <2>3. p.piece \in Nat /\ q.piece \in Nat
    BY <1>5
  <2> HIDE DEF a, b, c, d
  <2> QED BY <2>1, <2>2, <2>3
<1>12. p.psn = (window.left_psn + (x - Left)) % PsnMod
  <2> DEFINE s == StartPsn(g) + ChunkOf(q)
             d == x - Left
  <2>1. StartPsn(g) \in Nat /\ PsnMod \in Nat \ {0}
    BY <1>5, <1>9, ConstantFacts
  <2>2. s \in Int /\ d \in Int
    BY <1>1, <1>2, <1>5, <2>1
  <2>3. window.left_psn = s % PsnMod
    BY <1>2, <1>5, <1>9 DEF Inv, EdgePsnInv, q
  <2>4. StartPsn(g) + ChunkOf(p) = s + d
    BY <1>1, <1>2, <1>5, <1>11, <2>1
  <2>5. p.psn = (s + d) % PsnMod
    BY <1>5, <1>9, <2>4
  <2> HIDE DEF s, d
  <2>6. ((s % PsnMod) + d) % PsnMod = (s + d) % PsnMod
    BY <2>1, <2>2, ModPlus
  <2> QED BY <2>3, <2>5, <2>6 DEF d
<1> QED BY <1>3, <1>9, <1>11, <1>12 DEF p, q

(* get_position() finds a timely packet at its own position, or not.       *)
LEMMA PositionExact ==
    ASSUME Inv, pc = "rx", NEW p \in wire, Timely(p),
           GetPosition(p) # INVALID_POSITION
    PROVE  /\ Number(p) \in Left .. Generated - 1
           /\ GetPosition(p) = Number(p) % MAX_WIN_LEN
           /\ At(Number(p)).pkt = p
<1> DEFINE q == At(Left).pkt
           z == At(Generated - 1).pkt
           x == Number(p)
           left == window.left_psn
           d == PsnDiff(p.psn, left)
           M == PsnMod
           R == MAX_WIN_LEN
<1>1. /\ Generated \in Nat /\ Left \in Nat /\ Live \in Nat /\ Left + Live = Generated
      /\ Live <= Win /\ window.to_ack = Left % R
      /\ window.to_send = Generated % R /\ EndPos = window.to_send
  BY EdgeFacts DEF Inv, EndPos
<1>2. /\ Win \in Nat /\ R \in Nat \ {0} /\ M \in Nat \ {0} /\ M > R /\ 2 * Win <= R /\ Win >= 1
  BY ConstantFacts
<1>3. Real(p) /\ x \in Nat /\ x < Generated /\ p.group \in Groups /\ ChunkOf(p) \in Nat
      /\ p.psn = (StartPsn(p.group) + ChunkOf(p)) % M
  BY RealFacts DEF Inv, WireInv
<1>4. /\ ~window_tx_empty /\ current_group_id = p.group
      /\ ~(d > PsnDiff(window.right_psn, left))
      /\ GetPosition(p) = LET pos == d + window.to_ack
                          IN  IF pos >= R THEN pos - R ELSE pos
  BY DEF GetPosition
<1>5. Live > 0
  <2>1. CASE Live = 0
    <3>1. Left = Generated
      BY <1>1, <2>1
    <3>2. window.to_ack = window.to_send
      BY <1>1, <3>1
    <3> QED BY <1>4, <3>2 DEF window_tx_empty
  <2> QED BY <1>1, <2>1
<1>6. Left \in Left .. Generated - 1 /\ Generated - 1 \in Left .. Generated - 1
  BY <1>1, <1>5
<1>7. /\ Holds(At(Left), Left) /\ q.group = p.group
      /\ Holds(At(Generated - 1), Generated - 1)
      /\ ChunkOf(z) = ChunkOf(q) + (Generated - 1 - Left) /\ z.group = p.group
  BY <1>4, <1>6, WindowGroup
<1>8. /\ Real(q) /\ Number(q) = Left /\ ChunkOf(q) \in Nat
      /\ q.psn = (StartPsn(p.group) + ChunkOf(q)) % M
      /\ Real(z) /\ z.psn = (StartPsn(p.group) + ChunkOf(z)) % M
  BY <1>7, RealFacts DEF Holds
<1>9. left = q.psn /\ window.right_psn = z.psn
  BY <1>5 DEF Inv, EdgePsnInv
<1>10. StartPsn(p.group) \in Nat
  BY <1>3, ConstantFacts
<1> DEFINE s == StartPsn(p.group)
           c == ChunkOf(q)
           e == ChunkOf(p)
<1>11. PsnDiff(window.right_psn, left) = Live - 1
  <2> DEFINE a == s + ChunkOf(z)
             b == s + c
  <2>1. a \in Nat /\ b \in Nat /\ a - b = Live - 1 /\ b <= a /\ a < b + M
    BY <1>1, <1>2, <1>5, <1>7, <1>8, <1>10
  <2> HIDE DEF a, b
  <2>2. ((a % M) - (b % M)) % M = Live - 1
    BY <1>2, <2>1, RingDistance
  <2> QED BY <1>8, <1>9, <2>2 DEF PsnDiff, a, b
<1>12. x >= Left
  <2>1. SUFFICES ASSUME x < Left PROVE FALSE
    BY <1>1, <1>3
  <2>2. e < c /\ e \in Nat /\ c \in Nat /\ c >= 1
    <3>1. e < c
      BY <1>3, <1>7, <1>8, <2>1, ChunkOrder
    <3> QED BY <1>3, <1>8, <3>1
  <2>3. PICK u : Real(u) /\ u.group = q.group /\ ChunkOf(u) = c - 1 /\ Number(u) < Left
    BY <1>8, <2>2, ChunkBefore
  <2>4. answer[u.sub_op][u.piece] = u
    <3>1. HasAnswer(u)
      BY <2>3, AnsweredFacts DEF Inv
    <3> QED BY <2>3, <3>1, AnsweredFacts DEF Inv
  <2>5. u.sub_op \in SubOp /\ u.piece \in DOMAIN answer[u.sub_op]
    <3>1. u.sub_op \in SubOp /\ u.piece \in 0 .. PktCnt(u.sub_op) - 1
      BY <2>3, RealFacts
    <3> QED BY <3>1 DEF Inv, AnswerInv
  <2>6. e + Win > c - 1
    BY <1>7, <2>3, <2>4, <2>5 DEF Timely, Win
  <2> DEFINE a == s + e + M
             b == s + c
  <2>7. a \in Nat /\ b \in Nat /\ b <= a /\ a < b + M /\ a - b = M - (c - e)
    BY <1>2, <1>10, <2>2, <2>6
  <2>8. a % M = p.psn
    <3> DEFINE y == s + e
    <3>1. y \in Nat /\ a = M * 1 + y /\ 1 \in Nat
      BY <1>2, <1>3, <1>10
    <3> HIDE DEF y, a
    <3>2. (M * 1 + y) % M = y % M
      BY <1>2, <3>1, ModAdd
    <3> QED BY <1>3, <3>1, <3>2 DEF y
  <2> HIDE DEF a, b
  <2>9. ((a % M) - (b % M)) % M = a - b
    BY <1>2, <2>7, RingDistance
  <2>10. d = M - (c - e)
    BY <1>8, <1>9, <2>7, <2>8, <2>9 DEF PsnDiff, b
  <2> HIDE DEF d, e, c
  <2>11. d >= M - Win
    BY <1>2, <2>2, <2>6, <2>10
  <2>12. d > Live - 1
    BY <1>1, <1>2, <2>2, <2>10, <2>11
  <2> QED BY <1>4, <1>11, <2>12 DEF d
<1>13. x \in Left .. Generated - 1
  BY <1>1, <1>3, <1>12
<1>14. Holds(At(x), x) /\ ChunkOf(At(x).pkt) = c + (x - Left)
  <2> HIDE DEF x
  <2> QED BY <1>13, WindowGroup
<1>15. At(x).pkt = p
  BY <1>3, <1>14, NumberInjective DEF Holds
<1>16. d = x - Left
  <2> DEFINE a == s + e
             b == s + c
  <2>1. e = c + (x - Left)
    BY <1>14, <1>15
  <2>2. e \in Nat /\ c \in Nat
    BY <1>3, <1>8
  <2> HIDE DEF e, c
  <2>3. a \in Nat /\ b \in Nat /\ b <= a /\ a < b + M /\ a - b = x - Left
    BY <1>1, <1>2, <1>10, <1>13, <2>1, <2>2
  <2> HIDE DEF a, b
  <2>4. ((a % M) - (b % M)) % M = a - b
    BY <1>2, <2>3, RingDistance
  <2> QED BY <1>3, <1>8, <1>9, <2>3, <2>4 DEF PsnDiff, a, b, e, c
<1>17. GetPosition(p) = x % R
  <2> DEFINE a == Left % R
             k == x - Left
             y == a + k
  <2>1. a \in 0 .. R - 1
    BY <1>1, <1>2, DivMod
  <2>2. k \in 0 .. R - 1 /\ Left + k = x /\ k \in Int
    BY <1>1, <1>2, <1>13
  <2>3. (a + k) % R = x % R
    <3>1. Left \in Int
      BY <1>1
    <3> HIDE DEF k, x
    <3>2. ((Left % R) + k) % R = (Left + k) % R
      BY <1>2, <2>2, <3>1, ModPlus
    <3> QED BY <2>2, <3>2
  <2>4. GetPosition(p) = IF k + a >= R THEN (k + a) - R ELSE k + a
    <3>1. d = k /\ window.to_ack = a
      BY <1>1, <1>16
    <3>2. GetPosition(p) = LET pos == k + a
                           IN  IF pos >= R THEN pos - R ELSE pos
      <4> HIDE DEF d, k, a
      <4> QED BY <1>4, <3>1, Zenon
    <3> QED BY <3>2, Zenon
  <2> HIDE DEF a, k
  <2>5. CASE k + a >= R
    <3> DEFINE w == (k + a) - R
    <3>1. w \in 0 .. R - 1 /\ a + k = R * 1 + w /\ 1 \in Int
      BY <1>2, <2>1, <2>2, <2>5
    <3> HIDE DEF w
    <3>2. (R * 1 + w) % R = w
      BY <1>2, <3>1, ModUniqueInt
    <3> QED BY <2>3, <2>4, <2>5, <3>1, <3>2 DEF w
  <2>6. CASE ~(k + a >= R)
    <3> DEFINE w == k + a
    <3>1. w \in 0 .. R - 1 /\ a + k = R * 0 + w /\ 0 \in Int
      BY <1>2, <2>1, <2>2, <2>6
    <3> HIDE DEF w
    <3>2. (R * 0 + w) % R = w
      BY <1>2, <3>1, ModUniqueInt
    <3> QED BY <2>3, <2>4, <2>6, <3>1, <3>2 DEF w
  <2> QED BY <2>5, <2>6
<1> QED BY <1>13, <1>15, <1>17

-----------------------------------------------------------------------------
(* The invariant holds at the start.                                       *)

LEMMA InitInv == Init => Inv
<1> SUFFICES ASSUME Init PROVE Inv
  OBVIOUS
<1> DEFINE R == MAX_WIN_LEN
<1>1. /\ NSubOps \in Nat /\ R \in Nat \ {0} /\ PsnMod \in Nat \ {0}
      /\ Win \in Nat /\ Win >= 1
  BY ConstantFacts
<1>2. TypeOK
  <2>1. 0 \in Position /\ 0 \in 0 .. PsnMod - 1
    BY <1>1 DEF Position
  <2>2. psn \in [Groups -> 0 .. PsnMod - 1]
    BY WorkerAssumption DEF Init
  <2>3. window \in [to_ack : Position, to_send : Position,
                    left_psn : 0 .. PsnMod - 1, right_psn : 0 .. PsnMod - 1]
    BY <2>1 DEF Init
  <2>4. state \in [Position -> [pkt : Pkt \cup {NoPkt}, acked : BOOLEAN, is_last : BOOLEAN]]
    BY DEF Init
  <2>5. loop \in [to_send : Position, win_len : Nat, limit : Nat]
    BY <2>1 DEF Init
  <2>6. popped \in 0 .. NSubOps /\ posted \in popped .. NSubOps
    BY <1>1 DEF Init
  <2>7. current_switch_window_limit \in Nat
    BY WorkerAssumption DEF Init
  <2>8. /\ cq \in Seq(SubOp) /\ txq \in Seq([position : Position, pkt : Pkt])
        /\ wire \subseteq Pkt /\ losses \in Nat /\ pc \in {"rx", "tx", "send"}
        /\ sub_op \in SubOp \cup {NoSubOp} /\ pkt_sent \in Nat
        /\ start_psn \in 0 .. PsnMod - 1 /\ current_group_id \in Groups \cup {0}
    BY <2>1 DEF Init
  <2> QED BY <2>2, <2>3, <2>4, <2>5, <2>6, <2>7, <2>8 DEF TypeOK
<1>3. Begun = 0 /\ popped = 0 /\ sub_op = NoSubOp
  BY DEF Init, Begun
<1>4. GenInv
  <2>1. ASSUME NEW g \in Groups PROVE psn[g] = (StartPsn(g) + Chunks(g, 0)) % PsnMod
    <3> DEFINE s == StartPsn(g)
    <3>1. psn[g] = s /\ s \in 0 .. PsnMod - 1
      BY WorkerAssumption DEF Init
    <3>2. Chunks(g, 0) = 0
      BY ChunksFacts
    <3> HIDE DEF s
    <3>3. s + Chunks(g, 0) = PsnMod * 0 + s /\ 0 \in Int
      BY <1>1, <3>1, <3>2
    <3>4. (PsnMod * 0 + s) % PsnMod = s
      BY <1>1, <3>1, <3>3, ModUniqueInt
    <3> QED BY <3>1, <3>3, <3>4 DEF s
  <2>2. current_switch_window_limit <= Win
    BY WorkerAssumption DEF Init, Win
  <2> QED BY <1>3, <2>1, <2>2 DEF GenInv
<1>5. Generated = 0
  <2>1. Sum(0) = 0
    BY SumFacts
  <2> QED BY <1>2, <1>3, <1>4, <2>1, GeneratedFacts
<1>6. 0 % R = 0
  <2>1. R * 0 + 0 = 0 /\ 0 \in Int /\ 0 \in 0 .. R - 1
    BY <1>1
  <2> QED BY <1>1, <2>1, ModUniqueInt
<1>7. EndPos = 0 /\ window.to_ack = 0 /\ pc = "rx"
  BY DEF Init, EndPos
<1>8. Live = 0 /\ Left = 0
  BY <1>5, <1>6, <1>7 DEF Live, Left
<1>9. EdgeInv /\ EdgePsnInv
  BY <1>1, <1>5, <1>6, <1>7, <1>8 DEF EdgeInv, EdgePsnInv
<1>10. ContentInv /\ AckedInv
  BY <1>5, <1>8 DEF ContentInv, AckedInv
<1>11. AnswerInv /\ LateInv
  <2>1. answer = [i \in SubOp |-> [k \in 0 .. PktCnt(i) - 1 |-> NoPkt]]
    BY DEF Init
  <2>2. \A i \in SubOp : answer[i] = [k \in 0 .. PktCnt(i) - 1 |-> NoPkt]
    BY <2>1
  <2>3. \A i \in SubOp : \A k \in 0 .. PktCnt(i) - 1 : answer[i][k] = NoPkt
    BY <2>2
  <2>4. ASSUME NEW i \in SubOp, NEW k \in 0 .. PktCnt(i) - 1
        PROVE  ~(Sum(i - 1) + k < Left)
    <3>1. Sum(i - 1) \in Nat /\ k \in Nat
      BY SumFacts, PktCntFacts
    <3> QED BY <1>8, <3>1
  <2>5. \A i \in SubOp : answer[i] \in [0 .. PktCnt(i) - 1 -> Pkt \cup {NoPkt}]
    BY <2>2
  <2>6. DOMAIN answer = SubOp
    BY <2>1
  <2> QED BY <2>3, <2>4, <2>5, <2>6 DEF AnswerInv, LateInv
<1>12. QueueInv /\ WireInv
  BY DEF Init, QueueInv, WireInv, InOrder
<1>13. DoneInv
  <2>1. Len(cq) = 0 /\ posted = 0
    BY DEF Init
  <2>2. Sum(0) = 0
    BY SumFacts
  <2>3. 0 < NSubOps => Left < Sum(0 + 1)
    <3>1. SUFFICES ASSUME 0 < NSubOps PROVE Left < Sum(1)
      OBVIOUS
    <3>2. 1 \in SubOp /\ 1 - 1 = 0
      BY <1>1, <3>1 DEF SubOp
    <3>3. Sum(1) = Sum(0) + PktCnt(1) /\ PktCnt(1) \in Nat /\ PktCnt(1) >= 1
      BY <3>2, SumFacts, PktCntFacts
    <3> QED BY <1>8, <2>2, <3>3
  <2> QED BY <1>1, <1>8, <2>1, <2>2, <2>3 DEF DoneInv
<1> QED BY <1>2, <1>4, <1>9, <1>10, <1>11, <1>12, <1>13 DEF Inv

-----------------------------------------------------------------------------
(* Every action preserves it.                                              *)

(* Actions that do not generate packets.                                   *)
LEMMA SameGenerator ==
    ASSUME UNCHANGED <<sub_op, pkt_sent, popped>>
    PROVE  Generated' = Generated /\ Begun' = Begun
BY DEF Generated, PacketsBefore, PacketsOf, Begun

(* Actions that do not move the window.                                    *)
LEMMA SameWindow ==
    ASSUME UNCHANGED <<sub_op, pkt_sent, popped>>, EndPos' = EndPos,
           window'.to_ack = window.to_ack
    PROVE  /\ Generated' = Generated /\ Begun' = Begun
           /\ Live' = Live /\ Left' = Left
BY SameGenerator DEF Live, Left

LEMMA PushReqInv ==
    ASSUME Inv, Barrier, PushReq
    PROVE  Inv'
<1>1. /\ posted' = posted + 1 /\ posted < NSubOps
      /\ UNCHANGED <<popped, cq, psn, sub_op, pkt_sent, start_psn,
                     current_group_id, current_switch_window_limit, window,
                     state, pc, loop, txq, wire, answer, losses>>
  BY DEF PushReq
<1>2. EndPos' = EndPos
  BY <1>1 DEF EndPos
<1>3. /\ Generated' = Generated /\ Begun' = Begun /\ Live' = Live /\ Left' = Left
  BY <1>1, <1>2, SameWindow
<1>4. /\ posted \in Nat /\ popped \in Nat /\ popped <= posted /\ NSubOps \in Nat
      /\ Len(cq) \in Nat
  BY ConstantFacts DEF Inv, TypeOK
<1>5. TypeOK'
  <2>1. posted' \in popped .. NSubOps
    BY <1>1, <1>4
  <2> QED BY <1>1, <2>1 DEF Inv, TypeOK
<1>6. GenInv'
  <2>1. popped < posted => popped < posted'
    BY <1>1, <1>4
  <2> QED BY <1>1, <1>3, <2>1 DEF Inv, GenInv
<1>7. EdgeInv' /\ EdgePsnInv'
  BY <1>1, <1>2, <1>3 DEF Inv, EdgeInv, EdgePsnInv, At
<1>8. ContentInv' /\ AckedInv'
  BY <1>1, <1>3 DEF Inv, ContentInv, AckedInv, At, HasAnswer
<1>9. AnswerInv' /\ LateInv'
  BY <1>1, <1>3 DEF Inv, AnswerInv, LateInv
<1>10. QueueInv' /\ WireInv'
  BY <1>1, <1>3 DEF Inv, QueueInv, WireInv
<1>11. DoneInv'
  <2>1. ASSUME NEW i \in Len(cq) + 1 .. posted + 1
        PROVE  GroupOf(i) = GroupOf(posted + 1)
    <3>1. \/ posted = 0
          \/ GroupOf(posted + 1) = GroupOf(posted)
          \/ Len(cq) = posted
      BY DEF PushReq
    <3>2. i = posted + 1 \/ i \in Len(cq) + 1 .. posted
      BY <1>4
    <3>3. posted = 0 \/ Len(cq) = posted => i = posted + 1
      BY <1>4
    <3>4. i \in Len(cq) + 1 .. posted => GroupOf(i) = GroupOf(posted)
      BY DEF Inv, DoneInv
    <3> QED BY <3>1, <3>2, <3>3, <3>4
  <2> QED BY <1>1, <1>3, <2>1 DEF Inv, DoneInv
<1> QED BY <1>5, <1>6, <1>7, <1>8, <1>9, <1>10, <1>11 DEF Inv

(* What the generator and the completions need of the rest.                *)
LEMMA GeneratorIdle ==
    ASSUME Inv, UNCHANGED <<posted, cq, genVars>>, Left' = Left
    PROVE  GenInv' /\ DoneInv'
<1>1. Begun' = Begun
  BY SameGenerator DEF genVars
<1>2. GenInv'
  BY <1>1 DEF Inv, GenInv, genVars
<1>3. DoneInv'
  BY DEF Inv, DoneInv
<1> QED BY <1>2, <1>3

(* The head leaves a queue.                                                *)
LEMMA QueueTail ==
    ASSUME NEW q \in Seq(Entry), q # <<>>, NEW G, InOrder(q, G)
    PROVE  /\ Tail(q) \in Seq(Entry) /\ Head(q) = q[1] /\ 1 \in 1 .. Len(q)
           /\ InOrder(Tail(q), G)
           /\ \A y : Behind(q, y) => Behind(Tail(q), y)
           /\ Behind(Tail(q), Number(q[1].pkt))
<1> DEFINE t == Tail(q)
<1>1. /\ t \in Seq(Entry) /\ Head(q) = q[1] /\ Len(q) \in Nat /\ Len(q) >= 1
      /\ \A i \in 1 .. Len(t) : t[i] = q[i + 1] /\ i + 1 \in 1 .. Len(q)
      /\ Len(t) \in Nat
  BY TailFacts
<1> HIDE DEF t
<1>2. InOrder(t, G)
  <2> SUFFICES ASSUME NEW n \in 1 .. Len(t)
               PROVE  /\ Real(t[n].pkt) /\ Number(t[n].pkt) < G
                      /\ t[n].position = Number(t[n].pkt) % MAX_WIN_LEN
                      /\ \A m \in 1 .. n : Number(t[n].pkt) + Win > Number(t[m].pkt)
    BY DEF InOrder
  <2>1. t[n] = q[n + 1] /\ n + 1 \in 1 .. Len(q)
    BY <1>1
  <2>2. ASSUME NEW m \in 1 .. n PROVE Number(t[n].pkt) + Win > Number(t[m].pkt)
    <3>1. m \in 1 .. Len(t) /\ m + 1 \in 1 .. n + 1
      BY <1>1
    <3>2. t[m] = q[m + 1]
      BY <1>1, <3>1
    <3> QED BY <2>1, <3>1, <3>2 DEF InOrder
  <2> QED BY <2>1, <2>2 DEF InOrder
<1>3. ASSUME NEW y, Behind(q, y) PROVE Behind(t, y)
  BY <1>1, <1>3 DEF Behind
<1>4. Behind(t, Number(q[1].pkt))
  <2>1. ASSUME NEW n \in 1 .. Len(t) PROVE Number(t[n].pkt) + Win > Number(q[1].pkt)
    <3>1. t[n] = q[n + 1] /\ n + 1 \in 1 .. Len(q) /\ 1 \in 1 .. n + 1
      BY <1>1
    <3> QED BY <3>1 DEF InOrder
  <2> QED BY <2>1 DEF Behind
<1>5. 1 \in 1 .. Len(q)
  BY <1>1
<1> QED BY <1>1, <1>2, <1>3, <1>4, <1>5 DEF t

LEMMA DepartInv ==
    ASSUME Inv, Depart
    PROVE  Inv'
<1> DEFINE p == txq[1].pkt
<1>1. /\ txq # <<>> /\ txq' = Tail(txq)
      /\ wire' = wire \cup {state[Head(txq).position].pkt}
      /\ UNCHANGED <<posted, cq, genVars, window, state, pc, loop, answer, losses>>
  BY DEF Depart
<1>2. EndPos' = EndPos
  BY <1>1 DEF EndPos
<1>3. /\ Generated' = Generated /\ Begun' = Begun /\ Live' = Live /\ Left' = Left
  BY <1>1, <1>2, SameWindow DEF genVars
<1>4. txq \in Seq(Entry) /\ InOrder(txq, Generated)
  BY DEF Inv, TypeOK, QueueInv, Entry
<1>5. /\ txq' \in Seq(Entry) /\ Head(txq) = txq[1] /\ 1 \in 1 .. Len(txq)
      /\ InOrder(txq', Generated)
      /\ \A y : Behind(txq, y) => Behind(txq', y)
      /\ Behind(txq', Number(p))
  BY <1>1, <1>4, QueueTail
<1>6. Real(p) /\ Number(p) < Generated /\ wire' = wire \cup {p} /\ p \in Pkt
  <2>1. Real(p) /\ Number(p) \in 0 .. Generated - 1 /\ state[txq[1].position].pkt = p
    BY <1>5, QueuedInRing
  <2>2. Generated \in Nat
    BY GeneratedFacts DEF Inv
  <2>3. Number(p) < Generated
    BY <2>1, <2>2
  <2>4. p \in Pkt
    BY <2>1, RealFacts
  <2> QED BY <1>1, <1>5, <2>1, <2>3, <2>4
<1>7. TypeOK'
  <2>1. wire' \subseteq Pkt
    BY <1>6 DEF Inv, TypeOK
  <2> QED BY <1>1, <1>5, <2>1 DEF Inv, TypeOK, Entry, genVars
<1>8. GenInv' /\ DoneInv'
  BY <1>1, <1>3, GeneratorIdle
<1>9. EdgeInv' /\ EdgePsnInv'
  BY <1>1, <1>2, <1>3 DEF Inv, EdgeInv, EdgePsnInv, At
<1>10. ContentInv' /\ AckedInv'
  BY <1>1, <1>3 DEF Inv, ContentInv, AckedInv, At, HasAnswer
<1>11. AnswerInv'
  BY <1>1, <1>3 DEF Inv, AnswerInv
<1>12. LateInv'
  BY <1>1, <1>5 DEF Inv, LateInv
<1>13. QueueInv'
  BY <1>3, <1>5 DEF QueueInv
<1>14. WireInv'
  <2> HIDE DEF p
  <2> QED BY <1>3, <1>5, <1>6 DEF Inv, WireInv
<1> QED BY <1>7, <1>8, <1>9, <1>10, <1>11, <1>12, <1>13, <1>14 DEF Inv

LEMMA LoseInv ==
    ASSUME Inv, NEW p \in wire, Lose(p)
    PROVE  Inv'
<1>1. /\ losses' = losses + 1 /\ wire' = wire \ {p}
      /\ UNCHANGED <<posted, cq, genVars, window, state, pc, loop, txq, answer>>
  BY DEF Lose
<1>2. EndPos' = EndPos
  BY <1>1 DEF EndPos
<1>3. /\ Generated' = Generated /\ Begun' = Begun /\ Live' = Live /\ Left' = Left
  BY <1>1, <1>2, SameWindow DEF genVars
<1>4. TypeOK'
  <2>1. losses' \in Nat /\ wire' \subseteq Pkt
    BY <1>1 DEF Inv, TypeOK
  <2> QED BY <1>1, <2>1 DEF Inv, TypeOK, genVars
<1>5. GenInv' /\ DoneInv'
  BY <1>1, <1>3, GeneratorIdle
<1>6. EdgeInv' /\ EdgePsnInv'
  BY <1>1, <1>2, <1>3 DEF Inv, EdgeInv, EdgePsnInv, At
<1>7. ContentInv' /\ AckedInv'
  BY <1>1, <1>3 DEF Inv, ContentInv, AckedInv, At, HasAnswer
<1>8. AnswerInv' /\ LateInv'
  BY <1>1, <1>3 DEF Inv, AnswerInv, LateInv
<1>9. QueueInv' /\ WireInv'
  BY <1>1, <1>3 DEF Inv, QueueInv, WireInv
<1> QED BY <1>4, <1>5, <1>6, <1>7, <1>8, <1>9 DEF Inv

LEMMA EndSendInv ==
    ASSUME Inv, EndSend
    PROVE  Inv'
<1> DEFINE R == MAX_WIN_LEN
<1>1. /\ pc = "send" /\ pc' = "rx"
      /\ loop' = [to_send |-> 0, win_len |-> 0, limit |-> 0]
      /\ UNCHANGED <<posted, cq, genVars, state, txq, wire, answer, losses>>
  BY DEF EndSend
<1>2. /\ window \in [to_ack : Position, to_send : Position,
                     left_psn : 0 .. PsnMod - 1, right_psn : 0 .. PsnMod - 1]
      /\ loop.to_send \in Position
  BY DEF Inv, TypeOK
<1>3. /\ Generated \in Nat /\ Left \in Nat /\ Live \in Nat /\ Left + Live = Generated
      /\ Generated < Left + R
      /\ EndPos = Generated % R /\ window.to_ack = Left % R /\ EndPos = loop.to_send
  BY <1>1, EdgeFacts DEF Inv, EndPos
<1>4. Live > 0 =>
        /\ loop.to_send # window.to_ack
        /\ state[Prev1(loop.to_send)] = At(Generated - 1)
        /\ Holds(At(Generated - 1), Generated - 1)
  <2>1. SUFFICES ASSUME Live > 0
                 PROVE  /\ loop.to_send # window.to_ack
                        /\ state[Prev1(loop.to_send)] = At(Generated - 1)
                        /\ Holds(At(Generated - 1), Generated - 1)
    OBVIOUS
  <2>2. Left < Generated /\ Generated >= 1 /\ Generated - 1 \in Left .. Generated - 1
    BY <1>3, <2>1
  <2>3. Left % R # Generated % R
    BY <1>3, <2>2, RingApart
  <2>4. Prev1(Generated % R) = (Generated - 1) % R
    BY <1>3, <2>2, RingPosition
  <2>5. Holds(At(Generated - 1), Generated - 1)
    BY <2>2, WindowContent DEF Inv
  <2> QED BY <1>3, <2>3, <2>4, <2>5 DEF At
<1>5. Live = 0 => loop.to_send = window.to_ack
  <2>1. Live = 0 => Left = Generated
    BY <1>3
  <2> QED BY <1>3, <2>1
<1> DEFINE r == IF loop.to_send = window.to_ack THEN 0
                ELSE state[Prev1(loop.to_send)].pkt.psn
<1>6. window' = [window EXCEPT !.to_send = loop.to_send, !.right_psn = r]
  BY DEF EndSend
<1>7. r \in 0 .. PsnMod - 1
  <2>1. CASE Live = 0
    BY <1>5, <2>1, ConstantFacts
  <2>2. CASE Live > 0
    <3>1. r = At(Generated - 1).pkt.psn
      BY <1>4, <2>2
    <3>2. At(Generated - 1).pkt \in Pkt
      BY <1>4, <2>2, RealFacts DEF Holds
    <3> HIDE DEF r
    <3> QED BY <3>1, <3>2 DEF Pkt
  <2> QED BY <1>3, <2>1, <2>2
<1>8. Live > 0 => r = At(Generated - 1).pkt.psn
  BY <1>4
<1> HIDE DEF r
<1>9. /\ window' \in [to_ack : Position, to_send : Position,
                      left_psn : 0 .. PsnMod - 1, right_psn : 0 .. PsnMod - 1]
      /\ window'.to_ack = window.to_ack /\ window'.to_send = loop.to_send
      /\ window'.left_psn = window.left_psn /\ window'.right_psn = r
  BY <1>2, <1>6, <1>7
<1>10. EndPos' = EndPos
  BY <1>1, <1>9 DEF EndPos
<1>11. /\ Generated' = Generated /\ Begun' = Begun /\ Live' = Live /\ Left' = Left
  BY <1>1, <1>9, <1>10, SameWindow DEF genVars
<1>12. TypeOK'
  <2>1. loop' \in [to_send : Position, win_len : Nat, limit : Nat]
    BY <1>1, ConstantFacts DEF Position
  <2> QED BY <1>1, <1>9, <2>1 DEF Inv, TypeOK, genVars
<1>13. GenInv' /\ DoneInv'
  BY <1>1, <1>11, GeneratorIdle
<1>14. EdgeInv' /\ EdgePsnInv'
  BY <1>1, <1>8, <1>9, <1>10, <1>11 DEF Inv, EdgeInv, EdgePsnInv, At
<1>15. ContentInv' /\ AckedInv'
  BY <1>1, <1>11 DEF Inv, ContentInv, AckedInv, At, HasAnswer
<1>16. AnswerInv' /\ LateInv'
  BY <1>1, <1>11 DEF Inv, AnswerInv, LateInv
<1>17. QueueInv' /\ WireInv'
  BY <1>1, <1>11 DEF Inv, QueueInv, WireInv
<1> QED BY <1>12, <1>13, <1>14, <1>15, <1>16, <1>17 DEF Inv

(* transmit() of packets of the window.                                    *)
LEMMA TransmitWindow ==
    ASSUME Inv, NEW ps \in Seq(Position), Transmit(ps),
           \A k \in 1 .. Len(ps) :
              /\ state'[ps[k]].pkt = state[ps[k]].pkt
              /\ \E x \in Left .. Generated - 1 : ps[k] = x % MAX_WIN_LEN
    PROVE  /\ txq' \in Seq(Entry) /\ InOrder(txq', Generated)
           /\ \A y \in Nat : y < Generated /\ Behind(txq, y) => Behind(txq', y)
           /\ Len(txq) \in Nat /\ Len(txq') = Len(txq) + Len(ps)
           /\ \A n \in 1 .. Len(txq) : txq'[n] = txq[n]
           /\ \A k \in 1 .. Len(ps) : txq'[Len(txq) + k].position = ps[k]
<1> DEFINE add == [k \in 1 .. Len(ps) |->
                     [position |-> ps[k], pkt |-> state'[ps[k]].pkt]]
<1>1. txq' = txq \o add
  BY DEF Transmit
<1>2. /\ txq \in Seq(Entry) /\ InOrder(txq, Generated)
      /\ Generated \in Nat /\ Left \in Nat /\ Live \in Nat /\ Left + Live = Generated
      /\ Live <= Win /\ Win \in Nat
  BY EdgeFacts, ConstantFacts DEF Inv, TypeOK, QueueInv, Entry
<1>3. ASSUME NEW k \in 1 .. Len(ps)
      PROVE  /\ add[k] = [position |-> ps[k], pkt |-> state'[ps[k]].pkt]
             /\ add[k] \in Entry /\ add[k].position = ps[k]
             /\ Real(add[k].pkt) /\ Number(add[k].pkt) \in Left .. Generated - 1
             /\ add[k].position = Number(add[k].pkt) % MAX_WIN_LEN
  <2>1. PICK x \in Left .. Generated - 1 : ps[k] = x % MAX_WIN_LEN
    OBVIOUS
  <2>2. Real(At(x).pkt) /\ Number(At(x).pkt) = x
    BY <2>1, WindowContent DEF Inv, Holds
  <2>3. state'[ps[k]].pkt = At(x).pkt
    BY <2>1 DEF At
  <2>4. /\ add[k] = [position |-> ps[k], pkt |-> At(x).pkt]
        /\ add[k].pkt = At(x).pkt /\ add[k].position = ps[k]
    BY <2>3
  <2>5. ps[k] \in Position /\ At(x).pkt \in Pkt
    BY <2>2, RealFacts
  <2>6. add[k] \in Entry
    BY <2>4, <2>5 DEF Entry
  <2> QED BY <2>1, <2>2, <2>3, <2>4, <2>6
<1>4. Len(ps) \in Nat
  OBVIOUS
<1>5. add \in Seq(Entry) /\ Len(add) = Len(ps)
  <2>1. \A k \in 1 .. Len(ps) : [position |-> ps[k], pkt |-> state'[ps[k]].pkt] \in Entry
    BY <1>3
  <2> QED BY <1>4, <2>1
<1> HIDE DEF add
<1>6. Generated <= Generated /\ Generated <= Left + Win
  BY <1>2
<1>7. /\ txq' \in Seq(Entry) /\ InOrder(txq', Generated)
      /\ \A y \in Nat : y < Generated /\ Behind(txq, y) => Behind(txq', y)
  BY <1>1, <1>2, <1>3, <1>5, <1>6, QueueAppend
<1>8. /\ Len(txq') = Len(txq) + Len(ps) /\ Len(txq) \in Nat
      /\ \A n \in 1 .. Len(txq) + Len(ps) :
            txq'[n] = IF n <= Len(txq) THEN txq[n] ELSE add[n - Len(txq)]
  <2>1. /\ Len(txq \o add) = Len(txq) + Len(add) /\ Len(txq) \in Nat
        /\ \A n \in 1 .. Len(txq) + Len(add) :
              (txq \o add)[n] = IF n <= Len(txq) THEN txq[n] ELSE add[n - Len(txq)]
    <3>1. txq \in Seq(Entry) /\ add \in Seq(Entry)
      BY <1>2, <1>5
    <3> HIDE DEF Entry
    <3> QED BY <3>1, ConcatFacts
  <2> QED BY <1>1, <1>5, <2>1
<1>9. \A n \in 1 .. Len(txq) : txq'[n] = txq[n]
  BY <1>4, <1>8
<1>10. ASSUME NEW k \in 1 .. Len(ps) PROVE txq'[Len(txq) + k].position = ps[k]
  <2>1. /\ Len(txq) + k \in 1 .. Len(txq) + Len(ps) /\ ~(Len(txq) + k <= Len(txq))
        /\ (Len(txq) + k) - Len(txq) = k
    BY <1>4, <1>8
  <2>2. txq'[Len(txq) + k] = add[k]
    BY <1>8, <2>1
  <2>3. add[k].position = ps[k]
    BY <1>3
  <2> QED BY <2>2, <2>3
<1> QED BY <1>7, <1>8, <1>9, <1>10

(* transmit_unacked() sends packets of the window without answer.          *)
LEMMA UnackedFacts ==
    ASSUME Inv, pc # "send"
    PROVE  /\ Unacked \in Seq(Position)
           /\ \A n \in 1 .. Len(Unacked) :
                \E x \in Left .. Generated - 1 :
                   Unacked[n] = x % MAX_WIN_LEN /\ ~At(x).acked
<1> DEFINE s == Positions(window.to_ack, window.to_send)
           S == {pos \in Position : ~state[pos].acked}
<1>1. /\ Generated \in Nat /\ Left \in Nat /\ Live \in Nat /\ Left + Live = Generated
      /\ Left <= Generated /\ Generated < Left + MAX_WIN_LEN
      /\ window.to_send = Generated % MAX_WIN_LEN /\ window.to_ack = Left % MAX_WIN_LEN
  BY EdgeFacts DEF Inv, EndPos
<1>2. /\ s \in Seq(Position) /\ Len(s) = Generated - Left
      /\ \A k \in 1 .. Generated - Left : s[k] = (Left + (k - 1)) % MAX_WIN_LEN
  BY <1>1, PositionsFacts
<1>3. Unacked = Pick(s, S)
  BY DEF Unacked
<1> HIDE DEF s
<1>4. /\ Unacked \in Seq(Position)
      /\ \A n \in 1 .. Len(Unacked) :
           Unacked[n] \in S /\ \E k \in 1 .. Len(s) : Unacked[n] = s[k]
  <2> HIDE DEF S
  <2> QED BY <1>2, <1>3, PickFacts
<1>5. ASSUME NEW n \in 1 .. Len(Unacked)
      PROVE  \E x \in Left .. Generated - 1 :
                Unacked[n] = x % MAX_WIN_LEN /\ ~At(x).acked
  <2>1. PICK k \in 1 .. Len(s) : Unacked[n] = s[k]
    BY <1>4
  <2>2. k \in 1 .. Generated - Left
    BY <1>2
  <2>3. Left + (k - 1) \in Left .. Generated - 1
    BY <1>1, <2>2
  <2>4. Unacked[n] = (Left + (k - 1)) % MAX_WIN_LEN
    BY <1>2, <2>1, <2>2
  <2>5. ~state[Unacked[n]].acked
    BY <1>4
  <2> QED BY <2>3, <2>4, <2>5 DEF At
<1> QED BY <1>4, <1>5

(* collect_retrans() sends packets of the window without answer, before    *)
(* the one it starts from.                                                 *)
LEMMA GapFacts ==
    ASSUME Inv, NEW y \in Left .. Generated - 1
    PROVE  /\ Gap(y % MAX_WIN_LEN) \in Seq(Position)
           /\ \A n \in 1 .. Len(Gap(y % MAX_WIN_LEN)) :
                \E x \in Left .. y - 1 :
                   Gap(y % MAX_WIN_LEN)[n] = x % MAX_WIN_LEN /\ ~At(x).acked
<1> DEFINE R == MAX_WIN_LEN
           all == Positions(window.to_ack, y % R)
           N == Len(all)
           last == {k \in 1 .. N : state[all[k]].acked}
           from == CHOOSE k \in 0 .. N : k \in last \cup {0} /\ \A j \in last : j <= k
           gap == Gap(y % R)
<1>1. /\ Generated \in Nat /\ Left \in Nat /\ Live \in Nat /\ Left + Live = Generated
      /\ Generated < Left + R /\ window.to_ack = Left % R /\ R \in Nat
  BY EdgeFacts, ConstantFacts DEF Inv
<1>2. y \in Nat /\ Left <= y /\ y < Left + R /\ y < Generated
  BY <1>1
<1>3. /\ all \in Seq(Position) /\ N = y - Left /\ N \in Nat
      /\ \A k \in 1 .. y - Left : all[k] = (Left + (k - 1)) % R
  <2>1. /\ all \in Seq(Position) /\ Len(all) = y - Left
        /\ \A k \in 1 .. y - Left : all[k] = (Left + (k - 1)) % R
    <3>1. y \in Nat /\ Left \in Nat /\ Left <= y /\ y < Left + R
      BY <1>1, <1>2
    <3>2. all = Positions(Left % R, y % R)
      BY <1>1
    <3> HIDE DEF all
    <3> QED BY <3>1, <3>2, PositionsFacts
  <2>2. y - Left \in Nat
    BY <1>1, <1>2
  <2> QED BY <2>1, <2>2
<1>4. gap = SubSeq(all, from + 1, N)
  BY DEF Gap
<1> HIDE DEF all, N, gap
<1>5. /\ from \in 0 .. N /\ \A j \in last : j <= from
  <2> DEFINE T == last \cup {0}
  <2>1. T \subseteq 0 .. N /\ T # {}
    BY <1>3
  <2>2. PICK m \in T : \A j \in T : j <= m
    <3> HIDE DEF T
    <3> QED BY <1>3, <2>1, GreatestElement
  <2>3. m \in 0 .. N /\ m \in last \cup {0} /\ \A j \in last : j <= m
    BY <2>1, <2>2
  <2> HIDE DEF last
  <2> QED BY <2>3
<1> HIDE DEF from
<1>6. /\ gap \in Seq(Position) /\ Len(gap) = N - from
      /\ \A i \in 1 .. N - from : gap[i] = all[from + i]
  <2>1. from + 1 \in Nat /\ 1 <= from + 1 /\ from + 1 <= N + 1 /\ N <= Len(all)
    BY <1>3, <1>5 DEF N
  <2> DEFINE f == from + 1
  <2>2. \A i \in 1 .. N - from : f + i - 1 = from + i
    BY <1>3, <1>5
  <2>3. N - f + 1 = N - from
    BY <1>3, <1>5
  <2> HIDE DEF f
  <2>4. /\ SubSeq(all, f, N) \in Seq(Position)
        /\ Len(SubSeq(all, f, N)) = N - f + 1
        /\ \A i \in 1 .. N - f + 1 : SubSeq(all, f, N)[i] = all[f + i - 1]
    BY <1>3, <2>1, SubSeqFacts DEF f
  <2>5. gap = SubSeq(all, f, N)
    BY <1>4 DEF f
  <2> QED BY <2>2, <2>3, <2>4, <2>5
<1>7. ASSUME NEW n \in 1 .. Len(gap)
      PROVE  \E x \in Left .. y - 1 : gap[n] = x % R /\ ~At(x).acked
  <2> DEFINE k == from + n
             x == Left + (k - 1)
  <2>1. k \in 1 .. N /\ k \in 1 .. y - Left /\ k > from /\ n \in 1 .. N - from
    BY <1>3, <1>5, <1>6
  <2>2. gap[n] = all[k]
    BY <1>6, <2>1
  <2>3. ~(k <= from) /\ k \notin last
    BY <1>3, <1>5, <2>1
  <2> HIDE DEF k
  <2>4. ~state[all[k]].acked
    BY <2>1, <2>3
  <2>5. all[k] = x % R
    BY <1>3, <2>1
  <2>6. x \in Left .. y - 1
    BY <1>1, <1>2, <2>1
  <2> HIDE DEF x
  <2> QED BY <2>2, <2>4, <2>5, <2>6 DEF At
<1> QED BY <1>6, <1>7 DEF gap

LEMMA ExpectWinLenFacts ==
    ASSUME Inv, NEW cwnd \in CC_CWND_MIN .. CwndMax
    PROVE  ExpectWinLen(cwnd) \in Nat /\ ExpectWinLen(cwnd) <= Win
<1> DEFINE a == MAX_WIN_LEN - 1
           b == current_switch_window_limit
           e == ExpectWinLen(cwnd)
<1>1. a \in Nat /\ Win \in Nat
  BY ConstantFacts
<1>2. b \in Nat /\ b <= Win
  BY DEF Inv, TypeOK, GenInv
<1>3. cwnd \in Nat
  BY WorkerAssumption
<1>4. e = CHOOSE n \in {a, b, cwnd} : n <= a /\ n <= b /\ n <= cwnd
  BY DEF ExpectWinLen
<1> HIDE DEF a, b, e
<1>5. \E n \in {a, b, cwnd} : n <= a /\ n <= b /\ n <= cwnd
  BY <1>1, <1>2, <1>3
<1>6. e \in {a, b, cwnd} /\ e <= b
  BY <1>4, <1>5
<1>7. e \in Nat
  BY <1>1, <1>2, <1>3, <1>6
<1>8. e <= Win
  BY <1>1, <1>2, <1>6, <1>7
<1> QED BY <1>7, <1>8 DEF e

LEMMA TxProcessInv ==
    ASSUME Inv, NEW timeout \in BOOLEAN, NEW cwnd \in CC_CWND_MIN .. CwndMax,
           TxProcess(timeout, cwnd)
    PROVE  Inv'
<1> DEFINE e == ExpectWinLen(cwnd)
<1>1. /\ pc = "tx" /\ pc' = "send" /\ UNCHANGED state
      /\ loop' = [to_send |-> window.to_send, win_len |-> window_len, limit |-> e]
      /\ UNCHANGED <<posted, cq, genVars, window, wire, answer, losses>>
  BY DEF TxProcess
<1>2. e \in Nat /\ e <= Win
  BY ExpectWinLenFacts
<1> HIDE DEF e
<1>3. window_len = Live /\ Live \in Nat /\ window.to_send \in Position /\ EndPos = window.to_send
      /\ Generated \in Nat
  BY <1>1, EdgeFacts DEF Inv, EndPos, window_len, Live
<1>4. loop'.to_send = window.to_send /\ loop'.win_len = Live /\ loop'.limit = e
  BY <1>1, <1>3
<1>5. EndPos' = EndPos
  BY <1>1, <1>3, <1>4 DEF EndPos
<1>6. /\ Generated' = Generated /\ Begun' = Begun /\ Live' = Live /\ Left' = Left
  BY <1>1, <1>5, SameWindow DEF genVars
<1>7. /\ txq' \in Seq(Entry) /\ InOrder(txq', Generated)
      /\ \A y \in Nat : y < Generated /\ Behind(txq, y) => Behind(txq', y)
  <2>1. CASE timeout
    <3>1. Transmit(Unacked)
      BY <2>1 DEF TxProcess
    <3>2. /\ Unacked \in Seq(Position)
          /\ \A k \in 1 .. Len(Unacked) :
                \E x \in Left .. Generated - 1 : Unacked[k] = x % MAX_WIN_LEN
      BY <1>1, UnackedFacts
    <3>3. \A k \in 1 .. Len(Unacked) : state'[Unacked[k]].pkt = state[Unacked[k]].pkt
      BY <1>1
    <3> QED BY <3>1, <3>2, <3>3, TransmitWindow
  <2>2. CASE ~timeout
    <3>1. txq' = txq
      BY <2>2 DEF TxProcess
    <3> QED BY <3>1 DEF Inv, TypeOK, QueueInv, Entry
  <2> QED BY <2>1, <2>2
<1>8. TypeOK'
  <2>1. loop' \in [to_send : Position, win_len : Nat, limit : Nat]
    BY <1>1, <1>2, <1>3
  <2> QED BY <1>1, <1>7, <2>1 DEF Inv, TypeOK, Entry, genVars
<1>9. GenInv' /\ DoneInv'
  BY <1>1, <1>6, GeneratorIdle
<1>10. EdgeInv' /\ EdgePsnInv'
  BY <1>1, <1>2, <1>4, <1>5, <1>6 DEF Inv, EdgeInv, EdgePsnInv, At
<1>11. ContentInv' /\ AckedInv'
  BY <1>1, <1>6 DEF Inv, ContentInv, AckedInv, At, HasAnswer
<1>12. AnswerInv'
  BY <1>1, <1>6 DEF Inv, AnswerInv
<1>13. LateInv'
  <2>1. ASSUME NEW i \in SubOp, NEW k \in 0 .. PktCnt(i) - 1, answer[i][k] # NoPkt
        PROVE  Behind(txq', Sum(i - 1) + k)
    <3>1. Sum(i - 1) + k < Generated /\ Behind(txq, Sum(i - 1) + k)
      BY <2>1 DEF Inv, AnswerInv, LateInv
    <3>2. Sum(i - 1) + k \in Nat
      BY SumFacts, PktCntFacts
    <3> QED BY <1>7, <3>1, <3>2
  <2> QED BY <1>1, <2>1 DEF LateInv
<1>14. QueueInv'
  BY <1>6, <1>7 DEF QueueInv
<1>15. WireInv'
  <2>1. ASSUME NEW p \in wire
        PROVE  Real(p) /\ Number(p) < Generated /\ Behind(txq', Number(p))
    <3>1. Real(p) /\ Number(p) < Generated /\ Behind(txq, Number(p))
      BY DEF Inv, WireInv
    <3>2. Number(p) \in Nat
      BY <3>1, RealFacts
    <3> QED BY <1>7, <3>1, <3>2
  <2> QED BY <1>1, <1>6, <2>1 DEF WireInv
<1> QED BY <1>8, <1>9, <1>10, <1>11, <1>12, <1>13, <1>14, <1>15 DEF Inv

(* An answer is dropped, or it acknowledges the packet it answers.         *)
Accepts(p) ==
    /\ Number(p) \in Left .. Generated - 1
    /\ At(Number(p)).pkt = p /\ ~At(Number(p)).acked
    /\ state' = [state EXCEPT ![Number(p) % MAX_WIN_LEN].acked = TRUE]
    /\ answer' = [answer EXCEPT ![p.sub_op][p.piece] = p]
    /\ UNCHANGED txq \/ Transmit(Gap(Number(p) % MAX_WIN_LEN))

LEMMA RxCases ==
    ASSUME Inv, NEW p \in wire, RxProcessOne(p)
    PROVE  UNCHANGED <<state, answer, txq>> \/ Accepts(p)
<1> DEFINE pos == GetPosition(p)
<1>1. pc = "rx" /\ Timely(p)
  BY DEF RxProcessOne
<1>2. CASE pos # INVALID_POSITION /\ ~state[pos].acked
  <2>1. /\ Number(p) \in Left .. Generated - 1
        /\ pos = Number(p) % MAX_WIN_LEN
        /\ At(Number(p)).pkt = p
    BY <1>1, <1>2, PositionExact
  <2>2. /\ state' = [state EXCEPT ![pos].acked = TRUE]
        /\ answer' = [answer EXCEPT
                         ![state[pos].pkt.sub_op][state[pos].pkt.piece] = p]
        /\ UNCHANGED txq \/ Transmit(Gap(pos))
    BY <1>2 DEF RxProcessOne
  <2>3. state[pos] = At(Number(p)) /\ state[pos].pkt = p
    BY <2>1 DEF At
  <2> HIDE DEF pos
  <2> QED BY <1>2, <2>1, <2>2, <2>3 DEF Accepts
<1>3. CASE ~(pos # INVALID_POSITION /\ ~state[pos].acked)
  BY <1>3 DEF RxProcessOne
<1> QED BY <1>2, <1>3

(* What changes then.                                                      *)
LEMMA AcceptFacts ==
    ASSUME Inv, NEW p, Real(p), Accepts(p)
    PROVE  /\ state' \in [Position -> [pkt : Pkt \cup {NoPkt}, acked : BOOLEAN,
                                       is_last : BOOLEAN]]
           /\ \A pos \in Position : /\ state'[pos].pkt = state[pos].pkt
                                    /\ state'[pos].is_last = state[pos].is_last
           /\ \A x \in Left .. Generated - 1 :
                state'[x % MAX_WIN_LEN].acked = (At(x).acked \/ x = Number(p))
           /\ DOMAIN answer' = SubOp
           /\ \A i \in SubOp : answer'[i] \in [0 .. PktCnt(i) - 1 -> Pkt \cup {NoPkt}]
           /\ \A i \in SubOp : \A k \in 0 .. PktCnt(i) - 1 :
                answer'[i][k] = IF i = p.sub_op /\ k = p.piece THEN p ELSE answer[i][k]
           /\ ~HasAnswer(p)
<1> DEFINE y == Number(p)
           R == MAX_WIN_LEN
           P == y % R
<1>1. /\ y \in Left .. Generated - 1 /\ At(y).pkt = p /\ ~At(y).acked
      /\ state' = [state EXCEPT ![P].acked = TRUE]
      /\ answer' = [answer EXCEPT ![p.sub_op][p.piece] = p]
  BY DEF Accepts
<1>2. /\ Generated \in Nat /\ Left \in Nat /\ Left <= Generated /\ Generated < Left + R
      /\ R \in Nat
  BY EdgeFacts, ConstantFacts DEF Inv
<1>3. y \in Nat /\ P \in Position
  BY <1>1, <1>2, RingPosition
<1>4. state \in [Position -> [pkt : Pkt \cup {NoPkt}, acked : BOOLEAN, is_last : BOOLEAN]]
  BY DEF Inv, TypeOK
<1>5. /\ p.sub_op \in SubOp /\ p.piece \in 0 .. PktCnt(p.sub_op) - 1 /\ p \in Pkt
  BY RealFacts
<1> HIDE DEF P
<1>6. /\ state' \in [Position -> [pkt : Pkt \cup {NoPkt}, acked : BOOLEAN,
                                  is_last : BOOLEAN]]
      /\ \A pos \in Position : /\ state'[pos].pkt = state[pos].pkt
                               /\ state'[pos].is_last = state[pos].is_last
                               /\ state'[pos].acked = (state[pos].acked \/ pos = P)
  <2> DEFINE e == [state[P] EXCEPT !.acked = TRUE]
  <2>1. state' = [state EXCEPT ![P] = e]
    BY <1>1
  <2>2. /\ e \in [pkt : Pkt \cup {NoPkt}, acked : BOOLEAN, is_last : BOOLEAN]
        /\ e.pkt = state[P].pkt /\ e.is_last = state[P].is_last /\ e.acked = TRUE
    BY <1>3, <1>4
  <2> HIDE DEF e
  <2>3. \A pos \in Position : state'[pos] = IF pos = P THEN e ELSE state[pos]
    BY <1>3, <1>4, <2>1
  <2>4. state' \in [Position -> [pkt : Pkt \cup {NoPkt}, acked : BOOLEAN, is_last : BOOLEAN]]
    BY <1>3, <1>4, <2>1, <2>2
  <2>5. \A pos \in Position : state[pos].acked \in BOOLEAN
    BY <1>4
  <2> QED BY <2>2, <2>3, <2>4, <2>5
<1>7. ASSUME NEW x \in Left .. Generated - 1
      PROVE  state'[x % R].acked = (At(x).acked \/ x = y)
  <2>1. x \in Nat /\ x % R \in Position
    <3>1. x \in Nat
      BY <1>2
    <3> QED BY <3>1, RingPosition
  <2>2. (x % R = P) <=> (x = y)
    <3>1. x < y => x % R # y % R
      <4>1. x < y => y < x + R
        BY <1>1, <1>2, <1>3, <2>1
      <4> QED BY <1>3, <2>1, <4>1, RingApart
    <3>2. y < x => x % R # y % R
      <4>1. y < x => x < y + R
        BY <1>1, <1>2, <1>3, <2>1
      <4> QED BY <1>3, <2>1, <4>1, RingApart
    <3>3. x = y \/ x < y \/ y < x
      BY <1>3, <2>1
    <3> QED BY <3>1, <3>2, <3>3 DEF P
  <2> QED BY <1>6, <2>1, <2>2 DEF At
<1>8. /\ DOMAIN answer' = SubOp
      /\ \A i \in SubOp : answer'[i] \in [0 .. PktCnt(i) - 1 -> Pkt \cup {NoPkt}]
      /\ \A i \in SubOp : \A k \in 0 .. PktCnt(i) - 1 :
           answer'[i][k] = IF i = p.sub_op /\ k = p.piece THEN p ELSE answer[i][k]
  <2> DEFINE f == [answer[p.sub_op] EXCEPT ![p.piece] = p]
             j == p.sub_op
             l == p.piece
  <2>1. /\ DOMAIN answer = SubOp
        /\ \A i \in SubOp : answer[i] \in [0 .. PktCnt(i) - 1 -> Pkt \cup {NoPkt}]
    BY DEF Inv, AnswerInv
  <2>2. answer' = [answer EXCEPT ![j] = f]
    BY <1>1
  <2>3. f \in [0 .. PktCnt(j) - 1 -> Pkt \cup {NoPkt}]
    BY <1>5, <2>1
  <2>4. \A k \in 0 .. PktCnt(j) - 1 : f[k] = IF k = l THEN p ELSE answer[j][k]
    BY <1>5, <2>1
  <2> HIDE DEF f
  <2>5. /\ DOMAIN answer' = SubOp
        /\ \A i \in SubOp : answer'[i] = IF i = j THEN f ELSE answer[i]
    BY <1>5, <2>1, <2>2
  <2>6. \A i \in SubOp : answer'[i] \in [0 .. PktCnt(i) - 1 -> Pkt \cup {NoPkt}]
    BY <2>1, <2>3, <2>5
  <2> HIDE DEF j, l
  <2>7. \A i \in SubOp : \A k \in 0 .. PktCnt(i) - 1 :
           answer'[i][k] = IF i = j /\ k = l THEN p ELSE answer[i][k]
    BY <2>4, <2>5
  <2> QED BY <2>5, <2>6, <2>7 DEF j, l
<1>9. ~HasAnswer(p)
  BY <1>1 DEF Inv, AckedInv
<1> QED BY <1>6, <1>7, <1>8, <1>9

(* Then what is queued, departed and answered is still less than a window  *)
(* apart.                                                                  *)
LEMMA AcceptQueue ==
    ASSUME Inv, NEW p, Real(p), Accepts(p)
    PROVE  /\ txq' \in Seq(Entry) /\ InOrder(txq', Generated)
           /\ \A y \in Nat : y < Generated /\ Behind(txq, y) => Behind(txq', y)
<1> DEFINE y == Number(p)
           gap == Gap(y % MAX_WIN_LEN)
<1>1. CASE txq' = txq
  BY <1>1 DEF Inv, TypeOK, QueueInv, Entry
<1>2. CASE Transmit(gap)
  <2>1. y \in Left .. Generated - 1
    BY DEF Accepts
  <2>2. /\ gap \in Seq(Position)
        /\ \A k \in 1 .. Len(gap) : \E x \in Left .. y - 1 : gap[k] = x % MAX_WIN_LEN
    <3> HIDE DEF y
    <3> QED BY <2>1, GapFacts
  <2>3. Left .. y - 1 \subseteq Left .. Generated - 1
    <3>1. Left \in Nat /\ Generated \in Nat
      BY EdgeFacts DEF Inv
    <3> HIDE DEF y
    <3> QED BY <2>1, <3>1
  <2> HIDE DEF gap
  <2>4. \A k \in 1 .. Len(gap) : gap[k] \in Position
    BY <2>2
  <2>5. \A k \in 1 .. Len(gap) : state'[gap[k]].pkt = state[gap[k]].pkt
    BY <2>4, AcceptFacts
  <2>6. \A k \in 1 .. Len(gap) : \E x \in Left .. Generated - 1 : gap[k] = x % MAX_WIN_LEN
    BY <2>2, <2>3
  <2> QED BY <1>2, <2>2, <2>5, <2>6, TransmitWindow
<1> QED BY <1>1, <1>2 DEF Accepts

LEMMA RxProcessOneInv ==
    ASSUME Inv, NEW p \in wire, RxProcessOne(p)
    PROVE  Inv'
<1> DEFINE R == MAX_WIN_LEN
<1>1. /\ pc = "rx" /\ wire' \subseteq wire
      /\ UNCHANGED <<posted, cq, genVars, window, pc, loop, losses>>
  BY DEF RxProcessOne
<1>2. EndPos' = EndPos
  BY <1>1 DEF EndPos
<1>3. /\ Generated' = Generated /\ Begun' = Begun /\ Live' = Live /\ Left' = Left
  BY <1>1, <1>2, SameWindow DEF genVars
<1>4. GenInv' /\ DoneInv'
  BY <1>1, <1>3, GeneratorIdle
<1>5. CASE UNCHANGED <<state, answer, txq>>
  <2>1. TypeOK'
    <3>1. wire' \subseteq Pkt
      BY <1>1 DEF Inv, TypeOK
    <3> QED BY <1>1, <1>5, <3>1 DEF Inv, TypeOK, genVars
  <2>2. EdgeInv' /\ EdgePsnInv'
    BY <1>1, <1>2, <1>3, <1>5 DEF Inv, EdgeInv, EdgePsnInv, At
  <2>3. ContentInv' /\ AckedInv'
    BY <1>3, <1>5 DEF Inv, ContentInv, AckedInv, At, HasAnswer
  <2>4. AnswerInv' /\ LateInv'
    BY <1>3, <1>5 DEF Inv, AnswerInv, LateInv
  <2>5. QueueInv' /\ WireInv'
    BY <1>1, <1>3, <1>5 DEF Inv, QueueInv, WireInv
  <2> QED BY <1>4, <2>1, <2>2, <2>3, <2>4, <2>5 DEF Inv
<1>6. CASE Accepts(p)
  <2>1. Real(p) /\ Number(p) < Generated /\ Behind(txq, Number(p)) /\ Number(p) \in Nat
    BY RealFacts DEF Inv, WireInv
  <2>2. /\ state' \in [Position -> [pkt : Pkt \cup {NoPkt}, acked : BOOLEAN,
                                    is_last : BOOLEAN]]
        /\ \A pos \in Position : /\ state'[pos].pkt = state[pos].pkt
                                 /\ state'[pos].is_last = state[pos].is_last
        /\ \A x \in Left .. Generated - 1 :
             state'[x % R].acked = (At(x).acked \/ x = Number(p))
        /\ DOMAIN answer' = SubOp
        /\ \A i \in SubOp : answer'[i] \in [0 .. PktCnt(i) - 1 -> Pkt \cup {NoPkt}]
        /\ \A i \in SubOp : \A k \in 0 .. PktCnt(i) - 1 :
             answer'[i][k] = IF i = p.sub_op /\ k = p.piece THEN p ELSE answer[i][k]
    BY <1>6, <2>1, AcceptFacts
  <2>3. /\ txq' \in Seq(Entry) /\ InOrder(txq', Generated)
        /\ \A y \in Nat : y < Generated /\ Behind(txq, y) => Behind(txq', y)
    BY <1>6, <2>1, AcceptQueue
  <2>4. /\ Generated \in Nat /\ Left \in Nat /\ Left <= Generated /\ Live \in Nat
        /\ Left + Live = Generated
    BY EdgeFacts DEF Inv
  <2>5. TypeOK'
    <3>1. wire' \subseteq Pkt
      BY <1>1 DEF Inv, TypeOK
    <3> QED BY <1>1, <2>2, <2>3, <3>1 DEF Inv, TypeOK, genVars, Entry
  <2>6. \A x \in Nat : At(x)'.pkt = At(x).pkt /\ At(x)'.is_last = At(x).is_last
    BY <2>2, RingPosition DEF At
  <2>7. EdgeInv' /\ EdgePsnInv'
    <3>1. state'[Left % R].pkt = At(Left).pkt
      BY <2>4, <2>6 DEF At
    <3>2. Live > 0 => state'[(Generated - 1) % R].pkt = At(Generated - 1).pkt
      <4>1. Live > 0 => Generated - 1 \in Nat
        BY <2>4
      <4> QED BY <2>6, <4>1 DEF At
    <3>3. EdgeInv'
      BY <1>1, <1>2, <1>3 DEF Inv, EdgeInv
    <3>4. EdgePsnInv'
      BY <1>1, <1>3, <3>1, <3>2 DEF Inv, EdgePsnInv, At
    <3> QED BY <3>3, <3>4
  <2>8. ContentInv'
    <3>1. ASSUME NEW x \in 0 .. Generated - 1, Generated <= x + R
          PROVE  Holds(At(x)', x)
      <4>1. Holds(At(x), x)
        BY <3>1 DEF Inv, ContentInv
      <4>2. x \in Nat
        BY <2>4
      <4> QED BY <2>6, <4>1, <4>2 DEF Holds
    <3> QED BY <1>3, <3>1 DEF ContentInv, At
  <2>9. AckedInv'
    <3>1. ASSUME NEW x \in Left .. Generated - 1
          PROVE  state'[x % R].acked = (answer'[state'[x % R].pkt.sub_op][state'[x % R].pkt.piece] # NoPkt)
      <4> DEFINE q == At(x).pkt
      <4>1. x \in Nat
        BY <2>4
      <4>2. Real(q) /\ Number(q) = x
        BY WindowContent DEF Inv, Holds
      <4>3. state'[x % R].pkt = q
        BY <2>6, <4>1 DEF At
      <4>4. q.sub_op \in SubOp /\ q.piece \in 0 .. PktCnt(q.sub_op) - 1
        BY <4>2, RealFacts
      <4>5. (q.sub_op = p.sub_op /\ q.piece = p.piece) <=> x = Number(p)
        <5>1. q = PacketOf(q.sub_op, q.piece) /\ p = PacketOf(p.sub_op, p.piece)
          BY <2>1, <4>2, RealIsPacketOf
        <5>2. (q.sub_op = p.sub_op /\ q.piece = p.piece) => q = p
          BY <5>1
        <5>3. x = Number(p) => q = p
          BY <2>1, <4>2, NumberInjective
        <5> QED BY <4>2, <5>2, <5>3
      <4>6. p # NoPkt
        BY <2>1, RealFacts
      <4>7. At(x).acked = (answer[q.sub_op][q.piece] # NoPkt)
        BY DEF Inv, AckedInv, HasAnswer
      <4>8. state'[x % R].acked = (At(x).acked \/ x = Number(p))
        BY <2>2
      <4>9. answer'[q.sub_op][q.piece] = IF x = Number(p) THEN p ELSE answer[q.sub_op][q.piece]
        BY <2>2, <4>4, <4>5
      <4> HIDE DEF q
      <4> QED BY <4>3, <4>6, <4>7, <4>8, <4>9
    <3> QED BY <1>3, <3>1 DEF AckedInv, At, HasAnswer
  <2>10. p.sub_op \in SubOp /\ p = PacketOf(p.sub_op, p.piece) /\ p # NoPkt
         /\ Number(p) = Sum(p.sub_op - 1) + p.piece
    BY <2>1, RealFacts, RealIsPacketOf
  <2>11. ASSUME NEW i \in SubOp, NEW k \in 0 .. PktCnt(i) - 1
         PROVE  /\ answer'[i][k] # NoPkt =>
                     /\ answer'[i][k] = PacketOf(i, k)
                     /\ Sum(i - 1) + k < Generated
                     /\ Behind(txq', Sum(i - 1) + k)
                /\ Sum(i - 1) + k < Left => answer'[i][k] # NoPkt
    <3>1. CASE i = p.sub_op /\ k = p.piece
      <4>1. answer'[i][k] = p /\ p = PacketOf(i, k) /\ Number(p) = Sum(i - 1) + k
        BY <2>2, <2>10, <3>1
      <4>2. Behind(txq', Number(p))
        BY <2>1, <2>3
      <4> QED BY <2>1, <2>10, <4>1, <4>2
    <3>2. CASE ~(i = p.sub_op /\ k = p.piece)
      <4>1. answer'[i][k] = answer[i][k]
        BY <2>2, <3>2
      <4>2. /\ answer[i][k] # NoPkt =>
                 /\ answer[i][k] = PacketOf(i, k)
                 /\ Sum(i - 1) + k < Generated
                 /\ Behind(txq, Sum(i - 1) + k)
            /\ Sum(i - 1) + k < Left => answer[i][k] # NoPkt
        BY DEF Inv, AnswerInv, LateInv
      <4>3. Sum(i - 1) + k \in Nat
        BY SumFacts, PktCntFacts
      <4>4. answer[i][k] # NoPkt => Behind(txq', Sum(i - 1) + k)
        BY <2>3, <4>2, <4>3
      <4> QED BY <4>1, <4>2, <4>4
    <3> QED BY <3>1, <3>2
  <2>12. AnswerInv'
    BY <1>3, <2>2, <2>11 DEF AnswerInv
  <2>13. LateInv'
    BY <2>11 DEF LateInv
  <2>14. QueueInv'
    BY <1>3, <2>3 DEF QueueInv
  <2>15. WireInv'
    <3>1. ASSUME NEW q \in wire'
          PROVE  Real(q) /\ Number(q) < Generated /\ Behind(txq', Number(q))
      <4>1. Real(q) /\ Number(q) < Generated /\ Behind(txq, Number(q))
        BY <1>1 DEF Inv, WireInv
      <4>2. Number(q) \in Nat
        BY <4>1, RealFacts
      <4> QED BY <2>3, <4>1, <4>2
    <3> QED BY <1>3, <3>1 DEF WireInv
  <2> QED BY <1>4, <2>5, <2>7, <2>8, <2>9, <2>12, <2>13, <2>14, <2>15 DEF Inv
<1> QED BY <1>5, <1>6, RxCases

(* shift_ack() passes acknowledged packets only.                           *)
LEMMA AckedRunFacts ==
    ASSUME Inv, pc # "send"
    PROVE  /\ AckedRun \in 0 .. Live
           /\ \A x \in Left .. Left + AckedRun - 1 : At(x).acked
<1> DEFINE all == Positions(window.to_ack, window.to_send)
           N == Len(all)
           n == AckedRun
           T == {m \in 0 .. N : m < N => ~state[all[m + 1]].acked}
           P(m) == /\ \A k \in 1 .. m : state[all[k]].acked
                   /\ m < N => ~state[all[m + 1]].acked
<1>1. /\ Generated \in Nat /\ Left \in Nat /\ Live \in Nat /\ Left + Live = Generated
      /\ Left <= Generated /\ Generated < Left + MAX_WIN_LEN
      /\ window.to_send = Generated % MAX_WIN_LEN /\ window.to_ack = Left % MAX_WIN_LEN
  BY EdgeFacts DEF Inv, EndPos
<1>2. /\ all \in Seq(Position) /\ N = Live /\ N \in Nat
      /\ \A k \in 1 .. Live : all[k] = (Left + (k - 1)) % MAX_WIN_LEN
  <2>1. Generated - Left = Live
    BY <1>1
  <2>2. /\ all \in Seq(Position) /\ Len(all) = Generated - Left
        /\ \A k \in 1 .. Generated - Left : all[k] = (Left + (k - 1)) % MAX_WIN_LEN
    BY <1>1, PositionsFacts
  <2> QED BY <1>1, <2>1, <2>2
<1>3. n = CHOOSE m \in 0 .. N : P(m)
  BY DEF AckedRun
<1> HIDE DEF all, N, n
<1>4. \E m \in 0 .. N : P(m)
  <2>1. T \subseteq Nat /\ N \in T
    BY <1>2
  <2>2. PICK m \in T : \A j \in T : m <= j
    <3> HIDE DEF T
    <3> QED BY <2>1, LeastElement
  <2>3. m \in 0 .. N /\ (m < N => ~state[all[m + 1]].acked)
    BY <2>2
  <2>4. ASSUME NEW k \in 1 .. m PROVE state[all[k]].acked
    <3>1. k - 1 \in 0 .. N /\ k - 1 < N /\ ~(m <= k - 1) /\ (k - 1) + 1 = k
      BY <1>2, <2>3
    <3>2. k - 1 \notin T
      BY <2>2, <3>1
    <3> QED BY <3>1, <3>2
  <2> QED BY <2>3, <2>4
<1>5. n \in 0 .. N /\ P(n)
  <2> HIDE DEF P
  <2> QED BY <1>3, <1>4
<1>6. ASSUME NEW x \in Left .. Left + n - 1 PROVE At(x).acked
  <2> DEFINE k == x - Left + 1
  <2>1. k \in 1 .. n /\ k \in 1 .. Live /\ Left + (k - 1) = x
    BY <1>1, <1>2, <1>5
  <2> HIDE DEF k
  <2>2. state[all[k]].acked /\ all[k] = x % MAX_WIN_LEN
    BY <1>2, <1>5, <2>1
  <2> QED BY <2>2 DEF At
<1> QED BY <1>2, <1>5, <1>6 DEF n

(* The sub-operations of which shift_ack() passes the last packet.         *)
LEMMA CompletedFacts ==
    ASSUME Inv, NEW n \in 0 .. Live
    PROVE  LET done == Pick(Positions(window.to_ack, (Left + n) % MAX_WIN_LEN),
                            {pos \in Position : state[pos].is_last})
               m    == Len(cq) + Len(done)
           IN  /\ done \in Seq(Position) /\ m \in 0 .. NSubOps
               /\ \A j \in 1 .. Len(done) : state[done[j]].pkt.sub_op = Len(cq) + j
               /\ Sum(m) <= Left + n
               /\ m < NSubOps => Left + n < Sum(m + 1)
<1> DEFINE R == MAX_WIN_LEN
           s == Positions(window.to_ack, (Left + n) % R)
           S == {pos \in Position : state[pos].is_last}
           c == Len(cq)
           Scanned(q, k) ==
              /\ q \in Seq(Position) /\ c + Len(q) \in 0 .. NSubOps
              /\ \A j \in 1 .. Len(q) : state[q[j]].pkt.sub_op = c + j
              /\ Sum(c + Len(q)) <= Left + k
              /\ c + Len(q) < NSubOps => Left + k < Sum(c + Len(q) + 1)
<1>1. /\ Generated \in Nat /\ Left \in Nat /\ Live \in Nat /\ Left + Live = Generated
      /\ Left <= Generated /\ Generated < Left + R /\ R \in Nat
      /\ window.to_ack = Left % R
  BY EdgeFacts, ConstantFacts DEF Inv
<1>2. n \in Nat /\ n <= Live
  BY <1>1
<1>3. s \in Seq(Position) /\ Len(s) = n /\ \A k \in 1 .. n : s[k] = (Left + (k - 1)) % R
  <2> DEFINE L == Left + n
  <2>1. L \in Nat /\ Left <= L /\ L < Left + R /\ L - Left = n
    BY <1>1, <1>2
  <2>2. s = Positions(Left % R, L % R)
    BY <1>1
  <2> HIDE DEF L, s
  <2>3. /\ s \in Seq(Position) /\ Len(s) = L - Left
        /\ \A k \in 1 .. L - Left : s[k] = (Left + (k - 1)) % R
    BY <1>1, <2>1, <2>2, PositionsFacts
  <2> QED BY <2>1, <2>3
<1> HIDE DEF s, S
<1>4. PICK f : /\ f[0] = <<>>
               /\ \A k \in 1 .. n :
                    f[k] = IF s[k] \in S THEN Append(f[k - 1], s[k]) ELSE f[k - 1]
               /\ Pick(s, S) = f[n]
  BY <1>2, <1>3, PickExists
<1>5. c \in Nat /\ c <= NSubOps /\ NSubOps \in Nat
  <2>1. cq \in Seq(SubOp)
    BY DEF Inv, TypeOK
  <2> QED BY <2>1, ConstantFacts DEF Inv, DoneInv
<1> DEFINE T == {k \in Nat : k <= n => Scanned(f[k], k)}
<1>6. 0 \in T
  <2>1. Len(f[0]) = 0 /\ f[0] \in Seq(Position) /\ c + 0 = c /\ Left + 0 = Left
    BY <1>1, <1>4, <1>5
  <2>2. Sum(c) <= Left /\ (c < NSubOps => Left < Sum(c + 1))
    BY DEF Inv, DoneInv
  <2>3. c + Len(f[0]) = c /\ c \in 0 .. NSubOps
    BY <1>5, <2>1
  <2>4. \A j \in 1 .. Len(f[0]) : FALSE
    BY <2>1
  <2> HIDE DEF c
  <2>5. Scanned(f[0], 0)
    BY <2>1, <2>2, <2>3, <2>4
  <2> QED BY <2>5
<1>7. ASSUME NEW k \in T PROVE k + 1 \in T
  <2>1. SUFFICES ASSUME k + 1 <= n PROVE Scanned(f[k + 1], k + 1)
    OBVIOUS
  <2> DEFINE q == f[k]
             m == c + Len(q)
             x == Left + k
             p == At(x).pkt
             l == PktCnt(m + 1)
  <2>2. k \in Nat /\ k <= n /\ k + 1 \in 1 .. n /\ (k + 1) - 1 = k
    BY <1>2, <2>1
  <2>3. Scanned(q, k)
    BY <2>2
  <2>4. /\ q \in Seq(Position) /\ m \in 0 .. NSubOps /\ Len(q) \in Nat /\ m \in Nat
        /\ \A j \in 1 .. Len(q) : state[q[j]].pkt.sub_op = c + j
        /\ Sum(m) <= x
        /\ m < NSubOps => x < Sum(m + 1)
    BY <1>5, <2>3
  <2>5. x \in Nat /\ x \in Left .. Generated - 1 /\ x < Generated
    BY <1>1, <1>2, <2>1, <2>2
  <2>6. /\ Real(p) /\ Number(p) = x
        /\ At(x).is_last = (p.piece + 1 = PktCnt(p.sub_op))
    <3> HIDE DEF x
    <3> QED BY <2>5, WindowContent DEF Inv, Holds
  <2>7. s[k + 1] = x % R /\ x % R \in Position /\ state[s[k + 1]] = At(x)
    <3>1. s[k + 1] = (Left + ((k + 1) - 1)) % R
      BY <1>3, <2>2
    <3>2. x % R \in Position
      BY <2>5, RingPosition
    <3> QED BY <2>2, <3>1, <3>2 DEF At
  <2>8. f[k + 1] = IF s[k + 1] \in S THEN Append(q, s[k + 1]) ELSE q
    BY <1>4, <2>2
  <2>9. s[k + 1] \in S <=> p.piece + 1 = PktCnt(p.sub_op)
    BY <2>6, <2>7 DEF S
  <2> HIDE DEF x, m, q, p
  <2>10. m < NSubOps
    <3>1. Generated <= Sum(NSubOps) /\ Sum(NSubOps) \in Nat /\ Sum(m) \in Nat
      <4>1. Generated <= Sum(NSubOps)
        BY GeneratedFacts DEF Inv
      <4>2. NSubOps \in 0 .. NSubOps
        BY <1>5
      <4> QED BY <2>4, <4>1, <4>2, SumFacts
    <3>2. m # NSubOps
      BY <1>1, <2>4, <2>5, <3>1
    <3> QED BY <1>5, <2>4, <3>2
  <2>11. m + 1 \in SubOp /\ (m + 1) - 1 = m /\ m + 1 \in 0 .. NSubOps
    BY <1>5, <2>4, <2>10 DEF SubOp
  <2>12. p.sub_op = m + 1 /\ x = Sum(m) + p.piece
    <3>1. x < Sum(m + 1) /\ ~(x < Sum(m))
      <4>1. Sum(m) \in Nat
        BY <2>4, SumFacts
      <4> QED BY <2>4, <2>5, <2>10, <4>1
    <3>2. p.sub_op <= m + 1 /\ ~(p.sub_op <= m)
      BY <2>4, <2>6, <2>11, <3>1, NumberRange
    <3>3. p.sub_op \in SubOp /\ x = Sum(p.sub_op - 1) + p.piece
      BY <2>6, RealFacts
    <3>4. p.sub_op \in Nat
      BY <1>5, <3>3 DEF SubOp
    <3>5. p.sub_op = m + 1
      BY <2>4, <3>2, <3>4
    <3> QED BY <2>11, <3>3, <3>5
  <2>13. /\ Sum(m) \in Nat /\ l \in Nat /\ Sum(m + 1) = Sum(m) + l /\ p.piece \in Nat
         /\ p.piece < l
    <3>1. l \in Nat /\ Sum(m + 1) = Sum(m) + l /\ Sum(m) \in Nat
      BY <2>11, SumFacts, PktCntFacts
    <3>2. p.piece \in 0 .. l - 1
      BY <2>6, <2>12, RealFacts
    <3> QED BY <3>1, <3>2
  <2>14. Left + (k + 1) = x + 1
    BY <1>1, <2>2 DEF x
  <2>15. s[k + 1] \in S <=> p.piece + 1 = l
    BY <2>9, <2>12
  <2> HIDE DEF l
  <2>16. CASE s[k + 1] \in S
    <3> DEFINE r == Append(q, s[k + 1])
    <3>1. f[k + 1] = r /\ p.piece + 1 = l
      BY <2>8, <2>15, <2>16
    <3>2. /\ r \in Seq(Position) /\ Len(r) = Len(q) + 1
          /\ \A j \in 1 .. Len(q) : r[j] = q[j]
          /\ r[Len(q) + 1] = s[k + 1]
      <4>1. s[k + 1] \in Position
        BY <2>7
      <4> QED BY <2>4, <4>1, AppendFacts
    <3> HIDE DEF r
    <3>3. c + Len(r) = m + 1 /\ c + (Len(q) + 1) = m + 1
      BY <1>5, <2>4, <3>2 DEF m
    <3>4. ASSUME NEW j \in 1 .. Len(r) PROVE state[r[j]].pkt.sub_op = c + j
      <4>1. CASE j = Len(q) + 1
        <5>1. state[r[j]].pkt = p
          BY <2>7, <3>2, <4>1 DEF p
        <5> QED BY <2>12, <3>3, <4>1, <5>1
      <4>2. CASE j # Len(q) + 1
        <5>1. j \in 1 .. Len(q)
          BY <2>4, <3>2, <4>2
        <5> QED BY <2>4, <3>2, <5>1
      <4> QED BY <4>1, <4>2
    <3>5. Sum(m + 1) = x + 1
      BY <2>5, <2>12, <2>13, <3>1
    <3>6. m + 1 < NSubOps => x + 1 < Sum((m + 1) + 1)
      <4>1. SUFFICES ASSUME m + 1 < NSubOps PROVE Sum(m + 1) < Sum((m + 1) + 1)
        BY <3>5
      <4> DEFINE i == (m + 1) + 1
      <4>2. i \in SubOp /\ i - 1 = m + 1
        BY <1>5, <2>4, <4>1 DEF SubOp
      <4> HIDE DEF i
      <4>3. Sum(i) = Sum(m + 1) + PktCnt(i) /\ PktCnt(i) \in Nat /\ PktCnt(i) >= 1 /\ Sum(m + 1) \in Nat
        <5>1. Sum(i) = Sum(i - 1) + PktCnt(i) /\ Sum(i - 1) \in Nat
          BY <4>2, SumFacts
        <5> QED BY <4>2, <5>1, PktCntFacts
      <4>4. Sum(m + 1) < Sum(i)
        BY <4>3
      <4> QED BY <4>4 DEF i
    <3>7. x + 1 <= Left + (k + 1) /\ Sum(m + 1) <= Left + (k + 1)
      BY <2>5, <2>14, <3>5
    <3>8. Scanned(r, k + 1)
      BY <2>11, <2>14, <3>2, <3>3, <3>4, <3>6, <3>7
    <3> QED BY <3>1, <3>8
  <2>17. CASE s[k + 1] \notin S
    <3>1. f[k + 1] = q /\ p.piece + 1 # l
      BY <2>8, <2>15, <2>17
    <3>2. Sum(m) <= x + 1 /\ x + 1 < Sum(m + 1)
      BY <2>4, <2>5, <2>12, <2>13, <3>1
    <3>3. c + Len(q) = m
      BY DEF m
    <3>4. Scanned(q, k + 1)
      BY <2>4, <2>14, <3>2, <3>3
    <3> QED BY <3>1, <3>4
  <2> QED BY <2>16, <2>17
<1>8. n \in T
  <2>1. T \subseteq Nat
    OBVIOUS
  <2> HIDE DEF T
  <2> QED BY <1>2, <1>6, <1>7, <2>1, NatSetInduction
<1>9. Scanned(Pick(s, S), n)
  BY <1>2, <1>4, <1>8
<1> QED BY <1>9 DEF s, S

(* What shift_ack() does to the window and the completions.                *)
LEMMA ShiftAckFacts ==
    ASSUME Inv, ShiftAck
    PROVE  /\ pc = "rx" /\ pc' = "tx"
           /\ UNCHANGED <<posted, genVars, state, loop, txq, wire, answer, losses>>
           /\ Generated' = Generated /\ Left' \in Left .. Generated /\ Left' \in Nat
           /\ \A x \in Left .. Left' - 1 : At(x).acked
           /\ Live' = Generated - Left' /\ EndPos' = EndPos
           /\ window' \in [to_ack : Position, to_send : Position,
                           left_psn : 0 .. PsnMod - 1, right_psn : 0 .. PsnMod - 1]
           /\ window'.to_ack = Left' % MAX_WIN_LEN
           /\ Live' > 0 => window'.left_psn = At(Left').pkt.psn
           /\ window'.right_psn = window.right_psn
           /\ cq' \in Seq(SubOp) /\ Len(cq) \in Nat
           /\ Len(cq') \in Len(cq) .. NSubOps
           /\ \A j \in 1 .. Len(cq') : cq'[j] = j
           /\ Sum(Len(cq')) <= Left'
           /\ Len(cq') < NSubOps => Left' < Sum(Len(cq') + 1)
<1> DEFINE R == MAX_WIN_LEN
           n == AckedRun
           L == Left + n
           to_ack == (window.to_ack + n) % R
           done == Pick(Positions(window.to_ack, to_ack),
                        {pos \in Position : state[pos].is_last})
           add == [k \in 1 .. Len(done) |-> state[done[k]].pkt.sub_op]
           c == Len(cq)
           m == c + Len(done)
<1>1. /\ pc = "rx" /\ pc' = "tx"
      /\ cq' = cq \o add
      /\ window' = [window EXCEPT !.to_ack = to_ack, !.left_psn = LeftPsn(to_ack)]
      /\ UNCHANGED <<posted, genVars, state, loop, txq, wire, answer, losses>>
  BY DEF ShiftAck
<1>2. /\ Generated \in Nat /\ Left \in Nat /\ Live \in Nat /\ Left + Live = Generated
      /\ Left <= Generated /\ Generated < Left + R /\ R \in Nat \ {0}
      /\ window.to_ack = Left % R /\ window.to_send = Generated % R
      /\ EndPos = Generated % R
  BY <1>1, EdgeFacts, ConstantFacts DEF Inv, EndPos
<1>3. n \in 0 .. Live /\ \A x \in Left .. L - 1 : At(x).acked
  <2>1. n \in 0 .. Live /\ \A x \in Left .. Left + n - 1 : At(x).acked
    BY <1>1, AckedRunFacts
  <2> HIDE DEF n
  <2>2. L - 1 = Left + n - 1
    BY <1>2, <2>1
  <2> QED BY <2>1, <2>2
<1>4. L \in Nat /\ L \in Left .. Generated /\ Generated < L + R /\ L <= Generated /\ n \in Int
  BY <1>2, <1>3
<1>5. to_ack = L % R
  <2>1. ((Left % R) + n) % R = (Left + n) % R
    <3>1. Left \in Int
      BY <1>2
    <3> HIDE DEF n
    <3> QED BY <1>2, <1>4, <3>1, ModPlus
  <2> QED BY <1>2, <2>1
<1>6. window \in [to_ack : Position, to_send : Position,
                  left_psn : 0 .. PsnMod - 1, right_psn : 0 .. PsnMod - 1]
  BY DEF Inv, TypeOK
<1> HIDE DEF L, n
<1>7. L < Generated => /\ to_ack # window.to_send
                       /\ LeftPsn(to_ack) = At(L).pkt.psn
                       /\ At(L).pkt.psn \in 0 .. PsnMod - 1
  <2>1. SUFFICES ASSUME L < Generated
                 PROVE  /\ to_ack # window.to_send
                        /\ LeftPsn(to_ack) = At(L).pkt.psn
                        /\ At(L).pkt.psn \in 0 .. PsnMod - 1
    OBVIOUS
  <2>2. L % R # Generated % R
    BY <1>2, <1>4, <2>1, RingApart
  <2>3. L \in Left .. Generated - 1
    BY <1>2, <1>4, <2>1
  <2>4. At(L).pkt \in Pkt
    BY <2>3, WindowContent, RealFacts DEF Inv, Holds
  <2> QED BY <1>2, <1>5, <2>2, <2>4 DEF LeftPsn, At, Pkt
<1>8. LeftPsn(to_ack) \in 0 .. PsnMod - 1
  <2>1. CASE L < Generated
    BY <1>7, <2>1
  <2>2. CASE L = Generated
    <3>1. to_ack = window.to_send
      BY <1>2, <1>5, <2>2
    <3>2. LeftPsn(to_ack) = 0
      BY <3>1 DEF LeftPsn
    <3> QED BY <3>2, ConstantFacts
  <2> QED BY <1>2, <1>4, <2>1, <2>2
<1>9. to_ack \in Position
  BY <1>4, <1>5, RingPosition
<1>10. /\ window' \in [to_ack : Position, to_send : Position,
                       left_psn : 0 .. PsnMod - 1, right_psn : 0 .. PsnMod - 1]
       /\ window'.to_ack = L % R /\ window'.to_send = window.to_send
       /\ window'.left_psn = LeftPsn(to_ack) /\ window'.right_psn = window.right_psn
  <2> DEFINE v == LeftPsn(to_ack)
  <2>1. v \in 0 .. PsnMod - 1 /\ window' = [window EXCEPT !.to_ack = to_ack, !.left_psn = v]
    BY <1>1, <1>8
  <2> HIDE DEF v, to_ack
  <2>2. /\ window' \in [to_ack : Position, to_send : Position,
                       left_psn : 0 .. PsnMod - 1, right_psn : 0 .. PsnMod - 1]
        /\ window'.to_ack = to_ack /\ window'.to_send = window.to_send
        /\ window'.left_psn = v /\ window'.right_psn = window.right_psn
    BY <1>6, <1>9, <2>1
  <2> QED BY <1>5, <2>2 DEF v
<1>11. EndPos' = EndPos /\ Generated' = Generated
  <2>1. EndPos' = EndPos
    BY <1>1, <1>10 DEF EndPos
  <2>2. Generated' = Generated
    BY <1>1, SameGenerator DEF genVars
  <2> QED BY <2>1, <2>2
<1>12. Live' = Generated - L /\ Left' = L
  <2>1. ((Generated % R) - (L % R)) % R = Generated - L
    BY <1>2, <1>4, RingDistance
  <2>2. Live' = Generated - L
    BY <1>2, <1>10, <1>11, <2>1 DEF Live
  <2>3. Left' = Generated - (Generated - L)
    BY <1>11, <2>2 DEF Left
  <2> QED BY <1>2, <1>4, <2>2, <2>3
<1>13. Live' > 0 => window'.left_psn = At(L).pkt.psn
  <2>1. Live' > 0 => L < Generated
    BY <1>2, <1>4, <1>12
  <2> QED BY <1>7, <1>10, <2>1
<1>14. /\ done \in Seq(Position) /\ m \in 0 .. NSubOps
       /\ \A j \in 1 .. Len(done) : state[done[j]].pkt.sub_op = c + j
       /\ Sum(m) <= L
       /\ m < NSubOps => L < Sum(m + 1)
  <2>1. to_ack = (Left + n) % R
    BY <1>5 DEF L
  <2> HIDE DEF to_ack
  <2> QED BY <1>3, <2>1, CompletedFacts DEF L
<1> HIDE DEF done, to_ack
<1>15. c \in Nat /\ cq \in Seq(SubOp) /\ \A j \in 1 .. c : cq[j] = j
  <2>1. cq \in Seq(SubOp)
    BY DEF Inv, TypeOK
  <2> QED BY <2>1 DEF Inv, DoneInv
<1>16. /\ add \in Seq(SubOp) /\ Len(add) = Len(done)
       /\ \A j \in 1 .. Len(done) : add[j] = c + j
  <2>1. Len(done) \in Nat
    BY <1>14
  <2>2. \A j \in 1 .. Len(done) : c + j \in SubOp
    BY <1>14, <1>15, <2>1, ConstantFacts DEF SubOp
  <2>3. add = [j \in 1 .. Len(done) |-> c + j]
    BY <1>14
  <2> HIDE DEF add, c
  <2> QED BY <2>1, <2>2, <2>3
<1> HIDE DEF add
<1>17. /\ cq' \in Seq(SubOp) /\ Len(cq') = m
       /\ \A j \in 1 .. m : cq'[j] = j
  <2>1. /\ cq \o add \in Seq(SubOp) /\ Len(cq \o add) = c + Len(add)
        /\ \A j \in 1 .. c + Len(add) :
             (cq \o add)[j] = IF j <= c THEN cq[j] ELSE add[j - c]
    BY <1>15, <1>16, ConcatFacts
  <2>2. Len(done) \in Nat
    BY <1>14
  <2>3. ASSUME NEW j \in 1 .. m PROVE cq'[j] = j
    <3>1. cq'[j] = IF j <= c THEN cq[j] ELSE add[j - c]
      BY <1>1, <1>16, <2>1
    <3>2. CASE j <= c
      <4>1. j \in 1 .. c
        BY <1>15, <3>2
      <4> QED BY <1>15, <3>1, <3>2, <4>1
    <3>3. CASE ~(j <= c)
      <4>1. j - c \in 1 .. Len(done) /\ c + (j - c) = j
        BY <1>15, <2>2, <3>3
      <4> QED BY <1>16, <3>1, <3>3, <4>1
    <3> QED BY <3>2, <3>3
  <2> QED BY <1>1, <1>16, <2>1, <2>3
<1>18. Len(cq') \in c .. NSubOps
  <2>1. Len(done) \in Nat
    BY <1>14
  <2> QED BY <1>14, <1>15, <1>17, <2>1
<1>19. \A x \in Left .. Left' - 1 : At(x).acked
  BY <1>3, <1>12
<1> QED BY <1>1, <1>4, <1>10, <1>11, <1>12, <1>13, <1>14, <1>15, <1>17, <1>18, <1>19

LEMMA ShiftAckInv ==
    ASSUME Inv, ShiftAck
    PROVE  Inv'
<1> DEFINE R == MAX_WIN_LEN
           L == Left'
<1>1. /\ pc = "rx" /\ pc' = "tx"
      /\ UNCHANGED <<posted, genVars, state, loop, txq, wire, answer, losses>>
      /\ Generated' = Generated /\ L \in Left .. Generated /\ L \in Nat
      /\ \A x \in Left .. L - 1 : At(x).acked
      /\ Live' = Generated - L /\ EndPos' = EndPos
      /\ window' \in [to_ack : Position, to_send : Position,
                      left_psn : 0 .. PsnMod - 1, right_psn : 0 .. PsnMod - 1]
      /\ window'.to_ack = L % R
      /\ Live' > 0 => window'.left_psn = At(L).pkt.psn
      /\ window'.right_psn = window.right_psn
  BY ShiftAckFacts
<1>2. /\ cq' \in Seq(SubOp) /\ Len(cq) \in Nat
      /\ Len(cq') \in Len(cq) .. NSubOps
      /\ \A j \in 1 .. Len(cq') : cq'[j] = j
      /\ Sum(Len(cq')) <= L
      /\ Len(cq') < NSubOps => L < Sum(Len(cq') + 1)
  BY ShiftAckFacts
<1>3. /\ Generated \in Nat /\ Left \in Nat /\ Live \in Nat /\ Left + Live = Generated
      /\ Live <= Win /\ Win \in Nat /\ EndPos = Generated % R
  BY EdgeFacts, ConstantFacts DEF Inv
<1> HIDE DEF L
<1>4. L >= 0 /\ Live' <= Win /\ Live' \in Nat /\ (Live' > 0 => Live > 0)
  BY <1>1, <1>3
<1>5. TypeOK'
  BY <1>1, <1>2 DEF Inv, TypeOK, genVars
<1>6. GenInv'
  <2>1. Begun' = Begun
    BY <1>1, SameGenerator DEF genVars
  <2> QED BY <1>1, <2>1 DEF Inv, GenInv, genVars
<1>7. EdgeInv'
  BY <1>1, <1>3, <1>4 DEF EdgeInv, L
<1>8. EdgePsnInv'
  <2>1. Live > 0 => window.right_psn = At(Generated - 1).pkt.psn
    BY <1>1 DEF Inv, EdgePsnInv
  <2> QED BY <1>1, <1>4, <2>1 DEF EdgePsnInv, At, L
<1>9. ContentInv'
  BY <1>1 DEF Inv, ContentInv, At
<1>10. AckedInv'
  <2>1. ASSUME NEW x \in L .. Generated - 1 PROVE x \in Left .. Generated - 1
    BY <1>1, <1>3
  <2> QED BY <1>1, <2>1 DEF Inv, AckedInv, At, HasAnswer, L
<1>11. AnswerInv'
  <2>1. ASSUME NEW i \in SubOp, NEW k \in 0 .. PktCnt(i) - 1, Sum(i - 1) + k < L
        PROVE  answer[i][k] # NoPkt
    <3> DEFINE x == Sum(i - 1) + k
    <3>1. Sum(i - 1) \in Nat /\ k \in Nat
      BY SumFacts, PktCntFacts
    <3>2. x \in Nat
      BY <3>1
    <3>3. CASE x < Left
      BY <3>3 DEF Inv, AnswerInv
    <3>4. CASE ~(x < Left)
      <4>1. x \in Left .. L - 1 /\ x \in Left .. Generated - 1
        <5>1. x < L
          BY <2>1
        <5> HIDE DEF x
        <5> QED BY <1>1, <1>3, <3>2, <3>4, <5>1
      <4>2. Real(PacketOf(i, k)) /\ Number(PacketOf(i, k)) = x
            /\ PacketOf(i, k).sub_op = i /\ PacketOf(i, k).piece = k
        BY PacketOfReal
      <4>3. Real(At(x).pkt) /\ Number(At(x).pkt) = x
        <5> HIDE DEF x
        <5> QED BY <4>1, WindowContent DEF Inv, Holds
      <4>4. At(x).pkt = PacketOf(i, k)
        BY <4>2, <4>3, NumberInjective
      <4>5. At(x).acked /\ At(x).acked = HasAnswer(At(x).pkt)
        <5> HIDE DEF x
        <5> QED BY <1>1, <4>1 DEF Inv, AckedInv
      <4> HIDE DEF x
      <4> QED BY <4>2, <4>4, <4>5 DEF HasAnswer
    <3> QED BY <3>3, <3>4
  <2> QED BY <1>1, <2>1 DEF Inv, AnswerInv, L
<1>12. LateInv'
  BY <1>1 DEF Inv, LateInv
<1>13. QueueInv' /\ WireInv'
  BY <1>1 DEF Inv, QueueInv, WireInv
<1>14. DoneInv'
  <2>1. \A i \in Len(cq') + 1 .. posted : i \in Len(cq) + 1 .. posted
    <3>1. Len(cq') \in Nat /\ Len(cq) <= Len(cq') /\ Len(cq) \in Nat
      BY <1>2
    <3>2. posted \in Int
      BY ConstantFacts DEF Inv, TypeOK
    <3> QED BY <3>1, <3>2
  <2>2. \A i \in Len(cq') + 1 .. posted : GroupOf(i) = GroupOf(posted)
    BY <2>1 DEF Inv, DoneInv
  <2>3. Len(cq') <= NSubOps
    BY <1>2, ConstantFacts
  <2> QED BY <1>1, <1>2, <2>2, <2>3 DEF DoneInv, L
<1> QED BY <1>5, <1>6, <1>7, <1>8, <1>9, <1>10, <1>11, <1>12, <1>13, <1>14 DEF Inv

(* gen_pkt() makes the packet with the next number.                        *)
LEMMA SendOneFacts ==
    ASSUME Inv, SendOne
    PROVE  \E p :
             /\ Real(p) /\ Number(p) = Generated
             /\ Generated' = Generated + 1
             /\ state' = [state EXCEPT ![loop.to_send] =
                            [pkt |-> p, acked |-> FALSE,
                             is_last |-> (p.piece + 1 = PktCnt(p.sub_op))]]
             /\ GenInv'
             /\ psn' \in [Groups -> 0 .. PsnMod - 1]
             /\ popped' \in 0 .. NSubOps /\ posted' \in popped' .. NSubOps
             /\ sub_op' \in SubOp \cup {NoSubOp} /\ pkt_sent' \in Nat
             /\ start_psn' \in 0 .. PsnMod - 1
             /\ current_group_id' \in Groups \cup {0}
             /\ current_switch_window_limit' \in Nat
<1> DEFINE M       == PsnMod
           fresh   == sub_op = NoSubOp
           i       == IF fresh THEN popped + 1 ELSE sub_op
           g       == GroupOf(i)
           start   == IF fresh THEN psn[g] ELSE start_psn
           k       == IF fresh THEN 0 ELSE pkt_sent
           is_last == k + 1 = PktCnt(i)
           p       == [group |-> g, psn |-> (start + k) % PsnMod, sub_op |-> i, piece |-> k]
           b       == StartPsn(g) + Chunks(g, popped)
<1>1. /\ CanGen
      /\ IF fresh
         THEN /\ current_group_id' = g
              /\ current_switch_window_limit' = AggLen \div 2
              /\ psn' = [psn EXCEPT ![g] = PsnAfter(i)]
         ELSE UNCHANGED <<current_group_id, current_switch_window_limit, psn>>
      /\ start_psn' = start
      /\ pkt_sent' = k + 1
      /\ sub_op' = IF is_last THEN NoSubOp ELSE i
      /\ popped' = IF is_last THEN popped + 1 ELSE popped
      /\ state' = [state EXCEPT ![loop.to_send] =
                      [pkt |-> p, acked |-> FALSE, is_last |-> is_last]]
      /\ posted' = posted
  BY DEF SendOne
<1>2. /\ popped \in Nat /\ posted \in Nat /\ popped <= posted /\ posted <= NSubOps
      /\ NSubOps \in Nat /\ pkt_sent \in Nat
  BY ConstantFacts DEF Inv, TypeOK
<1>3. i = popped + 1 /\ popped < posted
  BY <1>1 DEF Inv, GenInv, CanGen
<1>4. /\ i \in SubOp /\ i - 1 = popped /\ i \in 0 .. NSubOps /\ popped \in 0 .. NSubOps
      /\ i # NoSubOp /\ i > 0
  <2> HIDE DEF i
  <2>1. i \in SubOp /\ i - 1 = popped
    BY <1>2, <1>3 DEF SubOp
  <2>2. i \in 0 .. NSubOps /\ popped \in 0 .. NSubOps /\ i # NoSubOp /\ i > 0
    BY <1>2, <1>3 DEF NoSubOp
  <2> QED BY <2>1, <2>2
<1>5. /\ PktCnt(i) \in Nat /\ PktCnt(i) >= 1
      /\ Sum(i) = Sum(popped) + PktCnt(i) /\ Sum(popped) \in Nat
  BY <1>4, PktCntFacts, SumFacts
<1>6. g \in Groups /\ StartPsn(g) \in Nat /\ M \in Nat \ {0} /\ Chunks(g, popped) \in Nat
  BY <1>4, ConstantFacts, ChunksFacts
<1>7. k \in 0 .. PktCnt(i) - 1 /\ k \in Nat /\ k < PktCnt(i)
  <2>1. CASE fresh
    <3>1. k = 0
      BY <2>1
    <3> HIDE DEF k, i
    <3> QED BY <1>5, <3>1
  <2>2. CASE ~fresh
    <3>1. k = pkt_sent /\ i = sub_op /\ pkt_sent < PktCnt(sub_op)
      BY <2>2 DEF Inv, GenInv
    <3> HIDE DEF k, i
    <3> QED BY <1>2, <1>5, <3>1
  <2> QED BY <2>1, <2>2
<1>8. start = b % M
  <2>1. CASE fresh
    <3>1. Begun = popped
      BY <2>1 DEF Begun
    <3>2. psn[g] = (StartPsn(g) + Chunks(g, Begun)) % M
      <4> HIDE DEF g
      <4> QED BY <1>6 DEF Inv, GenInv
    <3> QED BY <2>1, <3>1, <3>2
  <2>2. CASE ~fresh
    BY <2>2 DEF Inv, GenInv
  <2> QED BY <2>1, <2>2
<1>9. Generated = Sum(popped) + k /\ Generated \in Nat
  <2>1. Generated = Sum(popped) + (IF sub_op = NoSubOp THEN 0 ELSE pkt_sent)
    BY GeneratedFacts DEF Inv
  <2> QED BY <2>1, <1>5, <1>7
<1> HIDE DEF i, k, start
<1>10. p = PacketOf(i, k)
  <2>1. ChunksBefore(i) = Chunks(g, popped)
    BY <1>4 DEF ChunksBefore, Chunks
  <2>2. ((b % M) + k) % M = (b + k) % M
    <3>1. b \in Int /\ k \in Int
      BY <1>6, <1>7
    <3> HIDE DEF b
    <3> QED BY <1>6, <3>1, ModPlus
  <2>3. b + k = StartPsn(g) + (ChunksBefore(i) + k)
    BY <1>6, <1>7, <2>1
  <2> QED BY <1>8, <2>2, <2>3 DEF PacketOf
<1>11. Real(p) /\ p.sub_op = i /\ p.piece = k /\ Number(p) = Generated
  <2> HIDE DEF p
  <2> QED BY <1>4, <1>7, <1>9, <1>10, PacketOfReal
<1>12. state' = [state EXCEPT ![loop.to_send] =
                   [pkt |-> p, acked |-> FALSE,
                    is_last |-> (p.piece + 1 = PktCnt(p.sub_op))]]
  <2> HIDE DEF p
  <2> QED BY <1>1, <1>11
<1>13. Begun' = i
  BY <1>1, <1>3, <1>4 DEF Begun
<1>14. Generated' = Generated + 1
  <2>1. Generated' = Sum(popped') + (IF sub_op' = NoSubOp THEN 0 ELSE pkt_sent')
    <3>1. popped' \in Nat
      BY <1>1, <1>2
    <3>2. \A z \in Nat : (z + 1) - 1 = z
      OBVIOUS
    <3>3. (popped' + 1) - 1 = popped'
      BY <3>1, <3>2
    <3> QED BY <3>3 DEF Generated, PacketsBefore, Sum
  <2>2. CASE is_last
    <3>1. popped' = i /\ sub_op' = NoSubOp
      BY <1>1, <1>3, <2>2
    <3> QED BY <1>5, <1>7, <1>9, <2>1, <2>2, <3>1
  <2>3. CASE ~is_last
    <3>1. popped' = popped /\ sub_op' # NoSubOp /\ pkt_sent' = k + 1
      BY <1>1, <1>4, <2>3
    <3> QED BY <1>5, <1>7, <1>9, <2>1, <3>1
  <2> QED BY <2>2, <2>3
<1>15. /\ psn' \in [Groups -> 0 .. M - 1]
       /\ \A h \in Groups : psn'[h] = (StartPsn(h) + Chunks(h, i)) % M
  <2>1. psn \in [Groups -> 0 .. M - 1]
    BY DEF Inv, TypeOK
  <2>2. \A h \in Groups : psn[h] = (StartPsn(h) + Chunks(h, Begun)) % M
    BY DEF Inv, GenInv
  <2>3. CASE fresh
    <3> DEFINE v == PsnAfter(i)
               a == Chunks(g, popped)
    <3>1. Begun = popped /\ psn' = [psn EXCEPT ![g] = v]
      BY <1>1, <2>3 DEF Begun
    <3>2. v = (psn[g] + PktCnt(i)) % M /\ psn[g] = b % M
      <4>1. psn[g] = (StartPsn(g) + Chunks(g, Begun)) % M
        <5> HIDE DEF g
        <5> QED BY <1>6, <2>2
      <4> QED BY <3>1, <4>1 DEF PsnAfter
    <3>3. v = (b + PktCnt(i)) % M
      <4>1. b \in Int /\ PktCnt(i) \in Int
        BY <1>5, <1>6
      <4>2. ((b % M) + PktCnt(i)) % M = (b + PktCnt(i)) % M
        <5> HIDE DEF b
        <5> QED BY <1>6, <4>1, ModPlus
      <4> QED BY <3>2, <4>2
    <3>4. Chunks(g, i) = Chunks(g, popped) + PktCnt(i)
      <4>1. \A j \in SubOp : GroupOf(j) = g => Chunks(g, j) = Chunks(g, j - 1) + PktCnt(j)
        <5> HIDE DEF g
        <5> QED BY ChunksFacts
      <4> QED BY <1>4, <4>1
    <3>5. b + PktCnt(i) = StartPsn(g) + Chunks(g, i) /\ b + PktCnt(i) \in Nat
      BY <1>5, <1>6, <3>4
    <3>6. v = (StartPsn(g) + Chunks(g, i)) % M
      BY <3>3, <3>5
    <3>7. v \in 0 .. M - 1
      <4> DEFINE y == b + PktCnt(i)
      <4>1. y \in Nat /\ v = y % M
        BY <3>3, <3>5
      <4> HIDE DEF y, v
      <4> QED BY <1>6, <4>1, DivMod
    <3> HIDE DEF v, g
    <3>8. psn' \in [Groups -> 0 .. M - 1] /\ psn'[g] = v
          /\ \A h \in Groups : h # g => psn'[h] = psn[h]
      BY <1>6, <2>1, <3>1, <3>7
    <3>9. ASSUME NEW h \in Groups, h # g PROVE psn'[h] = (StartPsn(h) + Chunks(h, i)) % M
      <4>1. \A j \in SubOp : GroupOf(j) # h => Chunks(h, j) = Chunks(h, j - 1)
        BY ChunksFacts
      <4>2. Chunks(h, i) = Chunks(h, popped)
        BY <1>4, <3>9, <4>1 DEF g
      <4> QED BY <2>2, <3>1, <3>8, <3>9, <4>2
    <3> QED BY <3>6, <3>8, <3>9
  <2>4. CASE ~fresh
    <3>1. Begun = i
      BY <1>3, <2>4 DEF Begun
    <3>2. psn' = psn
      BY <1>1, <2>4
    <3> QED BY <2>1, <2>2, <3>1, <3>2
  <2> QED BY <2>3, <2>4
<1>16. /\ current_group_id' = GroupOf(i)
       /\ current_switch_window_limit' <= Win
       /\ current_switch_window_limit' \in Nat
  <2>1. CASE fresh
    BY <1>1, <2>1, ConstantFacts DEF Win
  <2>2. CASE ~fresh
    <3>1. Begun = i
      BY <1>3, <2>2 DEF Begun
    <3> QED BY <1>1, <1>4, <2>2, <3>1 DEF Inv, GenInv, TypeOK
  <2> QED BY <2>1, <2>2
<1>17. sub_op' # NoSubOp =>
          /\ sub_op' = popped' + 1 /\ popped' < posted'
          /\ pkt_sent' >= 1 /\ pkt_sent' < PktCnt(sub_op')
          /\ start_psn' = (StartPsn(GroupOf(sub_op')) + Chunks(GroupOf(sub_op'), popped')) % M
  <2>1. SUFFICES ASSUME sub_op' # NoSubOp
                 PROVE  /\ sub_op' = popped' + 1 /\ popped' < posted'
                        /\ pkt_sent' >= 1 /\ pkt_sent' < PktCnt(sub_op')
                        /\ start_psn' = (StartPsn(GroupOf(sub_op')) + Chunks(GroupOf(sub_op'), popped')) % M
    OBVIOUS
  <2>2. ~is_last /\ sub_op' = i /\ popped' = popped /\ pkt_sent' = k + 1 /\ start_psn' = start
    BY <1>1, <2>1
  <2>3. k + 1 >= 1 /\ k + 1 < PktCnt(i)
    BY <1>5, <1>7, <2>2
  <2> QED BY <1>1, <1>3, <1>8, <2>2, <2>3
<1>18. GenInv'
  BY <1>13, <1>15, <1>16, <1>17 DEF GenInv
<1>19. /\ popped' \in 0 .. NSubOps /\ posted' \in popped' .. NSubOps
       /\ sub_op' \in SubOp \cup {NoSubOp} /\ pkt_sent' \in Nat
  <2>1. popped' = popped \/ popped' = popped + 1
    BY <1>1
  <2>2. posted' = posted /\ pkt_sent' = k + 1 /\ (sub_op' = i \/ sub_op' = NoSubOp)
    BY <1>1
  <2>3. popped' \in 0 .. NSubOps /\ posted' \in popped' .. NSubOps
    BY <1>2, <1>3, <2>1, <2>2
  <2>4. k + 1 \in Nat
    BY <1>7
  <2> QED BY <1>4, <2>2, <2>3, <2>4
<1>20. start_psn' \in 0 .. M - 1
  <2>1. b \in Nat /\ start_psn' = b % M
    BY <1>1, <1>6, <1>8
  <2> HIDE DEF b
  <2> QED BY <1>6, <2>1, DivMod
<1>21. current_group_id' \in Groups \cup {0}
  BY <1>4, <1>16, ConstantFacts
<1> HIDE DEF p
<1> QED BY <1>11, <1>12, <1>14, <1>15, <1>16, <1>18, <1>19, <1>20, <1>21

(* What shift_send() does with it.                                         *)
Sends(p) ==
    /\ Real(p) /\ Number(p) = Generated
    /\ Generated' = Generated + 1 /\ Left' = Left /\ Live' = Live + 1 /\ Live < Win
    /\ state' \in [Position -> [pkt : Pkt \cup {NoPkt}, acked : BOOLEAN, is_last : BOOLEAN]]
    /\ state'[Generated % MAX_WIN_LEN].pkt = p
    /\ state'[Generated % MAX_WIN_LEN].acked = FALSE
    /\ state'[Generated % MAX_WIN_LEN].is_last = (p.piece + 1 = PktCnt(p.sub_op))
    /\ \A x \in Nat : x < Generated /\ Generated + 1 <= x + MAX_WIN_LEN =>
          state'[x % MAX_WIN_LEN] = At(x)
    /\ txq' \in Seq(Entry) /\ InOrder(txq', Generated + 1)
    /\ \A y \in Nat : y < Generated /\ Behind(txq, y) => Behind(txq', y)
    /\ Len(txq) \in Nat /\ Len(txq') = Len(txq) + 1
    /\ \A n \in 1 .. Len(txq) : txq'[n] = txq[n]
    /\ txq'[Len(txq) + 1].position = Generated % MAX_WIN_LEN

LEMMA SendOneSends ==
    ASSUME Inv, SendOne, NEW p, Real(p), Number(p) = Generated,
           Generated' = Generated + 1,
           state' = [state EXCEPT ![loop.to_send] =
                       [pkt |-> p, acked |-> FALSE,
                        is_last |-> (p.piece + 1 = PktCnt(p.sub_op))]]
    PROVE  Sends(p)
<1> DEFINE R == MAX_WIN_LEN
           G == Generated
           P == G % R
           e == [pkt |-> p, acked |-> FALSE, is_last |-> (p.piece + 1 = PktCnt(p.sub_op))]
           new == [position |-> P, pkt |-> p]
<1>1. /\ pc = "send" /\ pc' = "send" /\ loop.win_len < loop.limit
      /\ window' = IF loop.win_len = 0
                   THEN [window EXCEPT !.left_psn = state'[window.to_ack].pkt.psn]
                   ELSE window
      /\ Transmit(<<loop.to_send>>)
      /\ loop' = [loop EXCEPT !.to_send = Next1(@), !.win_len = @ + 1]
  BY DEF SendOne
<1>2. /\ G \in Nat /\ Left \in Nat /\ Live \in Nat /\ Left + Live = G
      /\ Left <= G /\ G < Left + R /\ window.to_ack = Left % R
      /\ loop.to_send = P /\ loop.win_len = Live /\ loop.limit <= Win
  BY <1>1, EdgeFacts DEF Inv, EdgeInv, EndPos
<1>3. R \in Nat \ {0} /\ Win \in Nat /\ Win < R
  BY ConstantFacts
<1>4. Live < Win
  <2>1. loop.limit \in Nat
    BY DEF Inv, TypeOK
  <2> QED BY <1>1, <1>2, <1>3, <2>1
<1>5. P \in Position /\ Next1(P) = (G + 1) % R
  BY <1>2, RingPosition
<1>6. loop'.to_send = (G + 1) % R
  <2>1. loop \in [to_send : Position, win_len : Nat, limit : Nat]
    BY DEF Inv, TypeOK
  <2>2. loop'.to_send = Next1(loop.to_send)
    BY <1>1, <2>1
  <2> QED BY <1>2, <1>5, <2>2
<1>7. window'.to_ack = window.to_ack
  <2>1. window \in [to_ack : Position, to_send : Position,
                    left_psn : 0 .. PsnMod - 1, right_psn : 0 .. PsnMod - 1]
    BY DEF Inv, TypeOK
  <2> DEFINE v == state'[window.to_ack].pkt.psn
  <2>2. window' = [window EXCEPT !.left_psn = v] \/ window' = window
    BY <1>1
  <2> HIDE DEF v
  <2> QED BY <2>1, <2>2
<1>8. Live' = Live + 1 /\ Left' = Left
  <2> DEFINE H == G + 1
  <2>1. H \in Nat /\ Left <= H /\ H < Left + R
    BY <1>2, <1>3, <1>4
  <2>2. EndPos' = H % R
    BY <1>1, <1>6 DEF EndPos
  <2> HIDE DEF H
  <2>3. ((H % R) - (Left % R)) % R = H - Left
    BY <1>2, <1>3, <2>1, RingDistance
  <2>4. Live' = H - Left
    BY <1>2, <1>7, <2>2, <2>3 DEF Live
  <2>5. Live' = Live + 1
    BY <1>2, <2>4 DEF H
  <2>6. Left' = (G + 1) - (Live + 1)
    BY <2>5 DEF Left
  <2> QED BY <1>2, <2>5, <2>6
<1>9. p \in Pkt
  BY RealFacts
<1>10. state \in [Position -> [pkt : Pkt \cup {NoPkt}, acked : BOOLEAN, is_last : BOOLEAN]]
  BY DEF Inv, TypeOK
<1>11. state' = [state EXCEPT ![P] = e]
  BY <1>2
<1>12. /\ e \in [pkt : Pkt \cup {NoPkt}, acked : BOOLEAN, is_last : BOOLEAN]
       /\ e.pkt = p /\ e.acked = FALSE /\ e.is_last = (p.piece + 1 = PktCnt(p.sub_op))
  BY <1>9
<1> HIDE DEF e, P
<1>13. /\ state' \in [Position -> [pkt : Pkt \cup {NoPkt}, acked : BOOLEAN, is_last : BOOLEAN]]
       /\ state'[P] = e
       /\ \A pos \in Position : pos # P => state'[pos] = state[pos]
  BY <1>5, <1>10, <1>11, <1>12
<1>14. ASSUME NEW x \in Nat, x < G, G + 1 <= x + R PROVE state'[x % R] = At(x)
  <2>1. x % R \in Position
    BY RingPosition
  <2>2. G < x + R
    BY <1>2, <1>3, <1>14
  <2>3. x % R # P
    BY <1>2, <1>14, <2>2, RingApart DEF P
  <2> QED BY <1>13, <2>1, <2>3 DEF At
<1>15. txq' = txq \o <<new>>
  <2>1. txq' = txq \o [k \in 1 .. Len(<<P>>) |->
                         [position |-> <<P>>[k], pkt |-> state'[<<P>>[k]].pkt]]
    BY <1>1, <1>2 DEF Transmit
  <2>2. state'[P].pkt = p
    BY <1>12, <1>13
  <2>3. [k \in 1 .. Len(<<P>>) |->
           [position |-> <<P>>[k], pkt |-> state'[<<P>>[k]].pkt]] = <<new>>
    BY <2>2
  <2> QED BY <2>1, <2>3
<1>16. /\ txq \in Seq(Entry) /\ InOrder(txq, G) /\ new \in Entry
       /\ new.pkt = p /\ new.position = P
  BY <1>5, <1>9 DEF Inv, TypeOK, QueueInv, Entry
<1> HIDE DEF new
<1>17. /\ <<new>> \in Seq(Entry) /\ Len(<<new>>) = 1 /\ <<new>>[1] = new
       /\ \A n \in 1 .. 1 : n = 1
  BY <1>16
<1>18. /\ txq' \in Seq(Entry) /\ InOrder(txq', G + 1)
       /\ \A y \in Nat : y < G + 1 /\ Behind(txq, y) => Behind(txq', y)
  <2> DEFINE H == G + 1
             add == <<new>>
  <2>1. H \in Nat /\ G <= H /\ H <= Left + Win /\ G \in Left .. H - 1
    BY <1>2, <1>3, <1>4
  <2>2. \A n \in 1 .. Len(add) :
           /\ Real(add[n].pkt) /\ Number(add[n].pkt) \in Left .. H - 1
           /\ add[n].position = Number(add[n].pkt) % R
    <3>1. \A n \in 1 .. Len(add) : add[n] = new
      BY <1>17
    <3> HIDE DEF H, add
    <3> QED BY <1>16, <2>1, <3>1 DEF P
  <2>3. add \in Seq(Entry) /\ txq' = txq \o add
    BY <1>15, <1>17
  <2> HIDE DEF H, add
  <2>4. /\ txq' \in Seq(Entry) /\ InOrder(txq', H)
        /\ \A y \in Nat : y < H /\ Behind(txq, y) => Behind(txq', y)
    BY <1>2, <1>16, <2>1, <2>2, <2>3, QueueAppend
  <2> QED BY <2>4 DEF H
<1>19. /\ Len(txq) \in Nat /\ Len(txq') = Len(txq) + 1
       /\ \A n \in 1 .. Len(txq) : txq'[n] = txq[n]
       /\ txq'[Len(txq) + 1] = new
  <2> HIDE DEF Entry
  <2> QED BY <1>15, <1>16
<1>20. \A y \in Nat : y < G /\ Behind(txq, y) => Behind(txq', y)
  <2>1. \A y \in Nat : y < G => y < G + 1
    BY <1>2
  <2> QED BY <1>18, <2>1
<1> QED BY <1>4, <1>8, <1>12, <1>13, <1>14, <1>16, <1>18, <1>19, <1>20 DEF Sends, P

LEMMA SendOneInv ==
    ASSUME Inv, SendOne
    PROVE  Inv'
<1> DEFINE R == MAX_WIN_LEN
           G == Generated
           H == G + 1
<1>1. PICK p :
        /\ Real(p) /\ Number(p) = Generated
        /\ Generated' = Generated + 1
        /\ state' = [state EXCEPT ![loop.to_send] =
                       [pkt |-> p, acked |-> FALSE,
                        is_last |-> (p.piece + 1 = PktCnt(p.sub_op))]]
        /\ GenInv'
        /\ psn' \in [Groups -> 0 .. PsnMod - 1]
        /\ popped' \in 0 .. NSubOps /\ posted' \in popped' .. NSubOps
        /\ sub_op' \in SubOp \cup {NoSubOp} /\ pkt_sent' \in Nat
        /\ start_psn' \in 0 .. PsnMod - 1
        /\ current_group_id' \in Groups \cup {0}
        /\ current_switch_window_limit' \in Nat
  BY SendOneFacts
<1>2. Sends(p)
  BY <1>1, SendOneSends
<1>3. /\ G' = H /\ Left' = Left /\ Live' = Live + 1 /\ Live < Win
      /\ state' \in [Position -> [pkt : Pkt \cup {NoPkt}, acked : BOOLEAN, is_last : BOOLEAN]]
      /\ state'[G % R].pkt = p
      /\ state'[G % R].acked = FALSE
      /\ state'[G % R].is_last = (p.piece + 1 = PktCnt(p.sub_op))
      /\ \A x \in Nat : x < G /\ H <= x + R => state'[x % R] = At(x)
      /\ txq' \in Seq(Entry) /\ InOrder(txq', H)
      /\ \A y \in Nat : y < G /\ Behind(txq, y) => Behind(txq', y)
  BY <1>2 DEF Sends
<1>4. /\ pc = "send" /\ pc' = "send" /\ loop.win_len < loop.limit
      /\ window' = IF loop.win_len = 0
                   THEN [window EXCEPT !.left_psn = state'[window.to_ack].pkt.psn]
                   ELSE window
      /\ loop' = [loop EXCEPT !.to_send = Next1(@), !.win_len = @ + 1]
      /\ UNCHANGED <<posted, cq, wire, answer, losses>>
  BY DEF SendOne
<1>5. /\ G \in Nat /\ Left \in Nat /\ Live \in Nat /\ Left + Live = G
      /\ Left <= G /\ G < Left + R /\ window.to_ack = Left % R
      /\ loop.to_send = G % R /\ loop.win_len = Live /\ loop.limit <= Win
  BY <1>4, EdgeFacts DEF Inv, EdgeInv, EndPos
<1>6. R \in Nat \ {0} /\ Win \in Nat /\ Win < R
  BY ConstantFacts
<1>7. /\ loop' \in [to_send : Position, win_len : Nat, limit : Nat]
      /\ loop'.to_send = H % R /\ loop'.win_len = Live + 1 /\ loop'.limit = loop.limit
  <2>1. loop \in [to_send : Position, win_len : Nat, limit : Nat]
    BY DEF Inv, TypeOK
  <2>2. H \in Nat
    BY <1>5
  <2>3. Next1(loop.to_send) = H % R /\ H % R \in Position
    <3>1. Next1(G % R) = (G + 1) % R
      BY <1>5, RingPosition
    <3>2. H % R \in Position
      <4> HIDE DEF H
      <4> QED BY <2>2, RingPosition
    <3> QED BY <1>5, <3>1, <3>2
  <2> DEFINE v == H % R
  <2> DEFINE w == loop.win_len + 1
  <2>4. v \in Position /\ w \in Nat
    BY <2>1, <2>3
  <2>5. loop' = [loop EXCEPT !.to_send = v, !.win_len = w]
    BY <1>4, <2>3
  <2> HIDE DEF v, w
  <2>6. /\ loop' \in [to_send : Position, win_len : Nat, limit : Nat]
        /\ loop'.to_send = v /\ loop'.win_len = w /\ loop'.limit = loop.limit
    BY <2>1, <2>4, <2>5
  <2>7. v = H % R /\ w = Live + 1
    BY <1>5 DEF v, w
  <2> QED BY <2>6, <2>7
<1>8. /\ window' \in [to_ack : Position, to_send : Position,
                      left_psn : 0 .. PsnMod - 1, right_psn : 0 .. PsnMod - 1]
      /\ window'.to_ack = window.to_ack
      /\ window'.left_psn = state'[Left % R].pkt.psn
  <2>1. window \in [to_ack : Position, to_send : Position,
                    left_psn : 0 .. PsnMod - 1, right_psn : 0 .. PsnMod - 1]
    BY DEF Inv, TypeOK
  <2> DEFINE v == state'[Left % R].pkt.psn
  <2>2. CASE Live = 0
    <3>1. Left = G
      BY <1>5, <2>2
    <3>2. v = p.psn /\ p.psn \in 0 .. PsnMod - 1
      <4>1. p \in Pkt
        BY <1>1, RealFacts
      <4> QED BY <1>3, <3>1, <4>1 DEF Pkt
    <3>3. window' = [window EXCEPT !.left_psn = v]
      BY <1>4, <1>5, <2>2
    <3> HIDE DEF v
    <3>4. /\ window' \in [to_ack : Position, to_send : Position,
                          left_psn : 0 .. PsnMod - 1, right_psn : 0 .. PsnMod - 1]
          /\ window'.to_ack = window.to_ack
          /\ window'.left_psn = v
      BY <2>1, <3>2, <3>3
    <3> QED BY <3>4 DEF v
  <2>3. CASE Live > 0
    <3>1. window' = window
      BY <1>4, <1>5, <2>3
    <3>2. Left < G /\ H <= Left + R
      BY <1>5, <1>6, <2>3
    <3>3. state'[Left % R] = At(Left)
      BY <1>3, <1>5, <3>2
    <3>4. window.left_psn = At(Left).pkt.psn
      BY <2>3 DEF Inv, EdgePsnInv
    <3> QED BY <2>1, <3>1, <3>3, <3>4
  <2> QED BY <1>5, <2>2, <2>3
<1>9. TypeOK'
  BY <1>1, <1>3, <1>4, <1>7, <1>8 DEF Inv, TypeOK, Entry
<1>10. EdgeInv'
  <2>1. EndPos' = H % R
    BY <1>4, <1>7 DEF EndPos
  <2>2. Live + 1 <= Win
    BY <1>3, <1>5, <1>6
  <2>3. Left >= 0
    BY <1>5
  <2> QED BY <1>3, <1>4, <1>5, <1>7, <1>8, <2>1, <2>2, <2>3 DEF EdgeInv
<1>11. EdgePsnInv'
  BY <1>3, <1>4, <1>8 DEF EdgePsnInv, At
<1>12. ContentInv'
  <2>1. ASSUME NEW x \in 0 .. H - 1, H <= x + R PROVE Holds(state'[x % R], x)
    <3>1. CASE x = G
      BY <1>1, <1>3, <3>1 DEF Holds
    <3>2. CASE x # G
      <4>1. x \in Nat /\ x < G /\ x \in 0 .. G - 1 /\ G <= x + R
        BY <1>5, <1>6, <2>1, <3>2
      <4>2. state'[x % R] = At(x)
        BY <1>3, <2>1, <4>1
      <4>3. Holds(At(x), x)
        BY <4>1 DEF Inv, ContentInv
      <4> QED BY <4>2, <4>3
    <3> QED BY <3>1, <3>2
  <2> QED BY <1>3, <2>1 DEF ContentInv, At
<1>13. AckedInv'
  <2>1. ASSUME NEW x \in Left .. H - 1
        PROVE  state'[x % R].acked = (answer[state'[x % R].pkt.sub_op][state'[x % R].pkt.piece] # NoPkt)
    <3>1. CASE x = G
      <4>1. ~HasAnswer(p)
        <5>1. ~(Number(p) < Generated)
          BY <1>1, <1>5
        <5> QED BY <1>1, <5>1, AnsweredFacts DEF Inv
      <4> QED BY <1>3, <3>1, <4>1 DEF HasAnswer
    <3>2. CASE x # G
      <4>1. x \in Nat /\ x < G /\ x \in Left .. G - 1 /\ H <= x + R
        BY <1>5, <1>6, <2>1, <3>2
      <4>2. state'[x % R] = At(x)
        BY <1>3, <4>1
      <4>3. At(x).acked = HasAnswer(At(x).pkt)
        BY <4>1 DEF Inv, AckedInv
      <4> QED BY <4>2, <4>3 DEF HasAnswer
    <3> QED BY <3>1, <3>2
  <2> QED BY <1>3, <1>4, <2>1 DEF AckedInv, At, HasAnswer
<1>14. AnswerInv'
  <2>1. ASSUME NEW i \in SubOp, NEW k \in 0 .. PktCnt(i) - 1, answer[i][k] # NoPkt
        PROVE  answer[i][k] = PacketOf(i, k) /\ Sum(i - 1) + k < H
    <3>1. answer[i][k] = PacketOf(i, k) /\ Sum(i - 1) + k < G
      BY <2>1 DEF Inv, AnswerInv
    <3>2. Sum(i - 1) \in Nat /\ k \in Nat
      BY SumFacts, PktCntFacts
    <3> QED BY <1>5, <3>1, <3>2
  <2> QED BY <1>3, <1>4, <2>1 DEF Inv, AnswerInv
<1>15. LateInv'
  <2>1. ASSUME NEW i \in SubOp, NEW k \in 0 .. PktCnt(i) - 1, answer[i][k] # NoPkt
        PROVE  Behind(txq', Sum(i - 1) + k)
    <3>1. Sum(i - 1) + k < G /\ Behind(txq, Sum(i - 1) + k)
      BY <2>1 DEF Inv, AnswerInv, LateInv
    <3>2. Sum(i - 1) + k \in Nat
      BY SumFacts, PktCntFacts
    <3> QED BY <1>3, <3>1, <3>2
  <2> QED BY <1>4, <2>1 DEF LateInv
<1>16. QueueInv'
  BY <1>3 DEF QueueInv
<1>17. WireInv'
  <2>1. ASSUME NEW q \in wire
        PROVE  Real(q) /\ Number(q) < H /\ Behind(txq', Number(q))
    <3>1. Real(q) /\ Number(q) < G /\ Behind(txq, Number(q))
      BY DEF Inv, WireInv
    <3>2. Number(q) \in Nat
      BY <3>1, RealFacts
    <3>3. Number(q) < H
      BY <1>5, <3>1, <3>2
    <3> QED BY <1>3, <3>1, <3>2, <3>3
  <2> QED BY <1>3, <1>4, <2>1 DEF WireInv
<1>18. DoneInv'
  BY <1>3, <1>4 DEF Inv, DoneInv
<1> QED BY <1>1, <1>9, <1>10, <1>11, <1>12, <1>13, <1>14, <1>15, <1>16, <1>17, <1>18 DEF Inv


(* Every step preserves the invariant.                                     *)
LEMMA NextInv ==
    ASSUME Barrier, Inv, [Next]_vars
    PROVE  Inv'
<1>1. CASE PushReq
  BY <1>1, PushReqInv
<1>2. CASE Depart
  BY <1>2, DepartInv
<1>3. ASSUME NEW p \in wire, Lose(p) PROVE Inv'
  BY <1>3, LoseInv
<1>4. ASSUME NEW p \in wire, RxProcessOne(p) PROVE Inv'
  BY <1>4, RxProcessOneInv
<1>5. CASE ShiftAck
  BY <1>5, ShiftAckInv
<1>6. ASSUME NEW timeout \in BOOLEAN, NEW cwnd \in CC_CWND_MIN .. CwndMax,
             TxProcess(timeout, cwnd)
      PROVE  Inv'
  BY <1>6, TxProcessInv
<1>7. CASE SendOne
  BY <1>7, SendOneInv
<1>8. CASE EndSend
  BY <1>8, EndSendInv
<1>9. CASE UNCHANGED vars
  <2>1. /\ UNCHANGED <<posted, cq, genVars>> /\ UNCHANGED <<window, state, pc, loop>>
        /\ UNCHANGED <<txq, wire, answer, losses>>
    BY <1>9 DEF vars, genVars
  <2>2. EndPos' = EndPos
    BY <2>1 DEF EndPos
  <2>3. /\ Generated' = Generated /\ Live' = Live /\ Left' = Left
    BY <2>1, <2>2, SameWindow DEF genVars
  <2>4. GenInv' /\ DoneInv'
    BY <2>1, <2>3, GeneratorIdle
  <2>5. TypeOK'
    BY <2>1 DEF Inv, TypeOK, genVars
  <2>6. EdgeInv' /\ EdgePsnInv'
    BY <2>1, <2>2, <2>3 DEF Inv, EdgeInv, EdgePsnInv, At
  <2>7. ContentInv' /\ AckedInv'
    BY <2>1, <2>3 DEF Inv, ContentInv, AckedInv, At, HasAnswer
  <2>8. AnswerInv' /\ LateInv'
    BY <2>1, <2>3 DEF Inv, AnswerInv, LateInv
  <2>9. QueueInv' /\ WireInv'
    BY <2>1, <2>3 DEF Inv, QueueInv, WireInv
  <2> QED BY <2>4, <2>5, <2>6, <2>7, <2>8, <2>9 DEF Inv
<1> QED BY <1>1, <1>2, <1>3, <1>4, <1>5, <1>6, <1>7, <1>8, <1>9 DEF Next

(* The inductive invariant holds, for callers that keep the barrier.       *)
THEOREM InductiveInvariant ==
    ASSUME Barrier
    PROVE  Spec => []Inv
<1>1. Inv /\ [Next]_vars => Inv'
  BY NextInv
<1> QED BY <1>1, InitInv, PTL DEF Spec

-----------------------------------------------------------------------------
(* What it implies.                                                        *)

(* worker.cpp transmit(): when a queued pointer is read, the ring still    *)
(* holds the packet it was queued for.                                     *)
THEOREM QueuedPointersStable ==
    ASSUME Barrier
    PROVE  Spec => []TxContentStable
<1>1. Inv => TxContentStable
  <2>1. SUFFICES ASSUME Inv PROVE TxContentStable
    OBVIOUS
  <2>2. ASSUME NEW n \in 1 .. Len(txq) PROVE state[txq[n].position].pkt = txq[n].pkt
    BY <2>1, <2>2, QueuedInRing
  <2> QED BY <2>1, <2>2 DEF TxContentStable, Inv
<1> QED BY <1>1, InductiveInvariant, PTL

(* worker.cpp rx_process_one(): a piece is filled from the answer to its   *)
(* own packet, although the answer is found by a PSN that wraps around.    *)
THEOREM AnswersToOwnPackets ==
    ASSUME Barrier
    PROVE  Spec => []AnswersMatch
<1>1. Inv => AnswersMatch
  <2>1. SUFFICES ASSUME Inv, NEW i \in SubOp, NEW k \in 0 .. PktCnt(i) - 1,
                        answer[i][k] # NoPkt
                 PROVE  answer[i][k].sub_op = i /\ answer[i][k].piece = k
    BY DEF AnswersMatch
  <2>2. answer[i][k] = PacketOf(i, k)
    BY <2>1 DEF Inv, AnswerInv
  <2> QED BY <2>2, PacketOfReal
<1> QED BY <1>1, InductiveInvariant, PTL

(* worker.cpp complete_pkt(): sub-operations complete in the order they    *)
(* were pushed, and only when all their bytes have been answered.          *)
THEOREM CompletionInOrder ==
    ASSUME Barrier
    PROVE  Spec => []CompleteInOrder
<1>1. Inv => CompleteInOrder
  <2>1. SUFFICES ASSUME Inv, NEW n \in 1 .. Len(cq)
                 PROVE  /\ cq[n] = n
                        /\ \A b \in 0 .. SizeOf(n) - 1 :
                              /\ b \div PAYLOAD_SIZE \in DOMAIN answer[n]
                              /\ answer[n][b \div PAYLOAD_SIZE] # NoPkt
    BY DEF CompleteInOrder
  <2>2. cq[n] = n /\ Len(cq) <= NSubOps /\ Sum(Len(cq)) <= Left
    BY <2>1 DEF Inv, DoneInv
  <2>3. Len(cq) \in Nat
    BY <2>1 DEF Inv, TypeOK
  <2>4. n \in SubOp /\ n \in 0 .. NSubOps /\ n <= Len(cq) /\ Len(cq) \in 0 .. NSubOps
    BY <2>2, <2>3, ConstantFacts DEF SubOp
  <2>5. ASSUME NEW k \in 0 .. PktCnt(n) - 1 PROVE answer[n][k] # NoPkt
    <3> DEFINE p == PacketOf(n, k)
    <3>1. Real(p) /\ p.sub_op = n /\ p.piece = k
      BY <2>4, PacketOfReal
    <3> HIDE DEF p
    <3>2. Number(p) < Sum(n) /\ Number(p) \in Nat
      BY <3>1, NumberRange, RealFacts
    <3>3. Sum(n) <= Sum(Len(cq)) /\ Sum(n) \in Nat /\ Sum(Len(cq)) \in Nat
      BY <2>4, SumFacts
    <3>4. Left \in Nat
      BY <2>1, EdgeFacts DEF Inv
    <3>5. Number(p) < Left
      BY <2>2, <3>2, <3>3, <3>4
    <3>6. HasAnswer(p)
      BY <2>1, <3>1, <3>5, AnsweredFacts DEF Inv
    <3> QED BY <3>1, <3>6 DEF HasAnswer
  <2>6. DOMAIN answer[n] = 0 .. PktCnt(n) - 1
    BY <2>1, <2>4 DEF Inv, AnswerInv
  <2>7. \A b \in 0 .. SizeOf(n) - 1 : b \div PAYLOAD_SIZE \in 0 .. PktCnt(n) - 1
    BY <2>4, BytesInPackets
  <2> QED BY <2>2, <2>5, <2>6, <2>7
<1> QED BY <1>1, InductiveInvariant, PTL

(* The window of the model is the one of the proof.                        *)
LEMMA LiveWindow ==
    ASSUME Inv
    PROVE  /\ LivePositions \in Seq(Position)
           /\ Len(LivePositions) = Live
           /\ \A k \in 1 .. Live : LivePositions[k] = (Left + (k - 1)) % MAX_WIN_LEN
<1>1. /\ Generated \in Nat /\ Left \in Nat /\ Live \in Nat /\ Left + Live = Generated
      /\ Left <= Generated /\ Generated < Left + MAX_WIN_LEN
      /\ EndPos = Generated % MAX_WIN_LEN /\ window.to_ack = Left % MAX_WIN_LEN
  BY EdgeFacts DEF Inv
<1>2. LivePositions = Positions(Left % MAX_WIN_LEN, Generated % MAX_WIN_LEN)
  BY <1>1 DEF LivePositions, EndPos
<1>3. Generated - Left = Live
  BY <1>1
<1> QED BY <1>1, <1>2, <1>3, PositionsFacts

(* worker.cpp get_position() may subtract PSNs: the window holds packets   *)
(* of one group, with consecutive PSNs.                                    *)
THEOREM WindowContinuous ==
    ASSUME Barrier
    PROVE  Spec => []WindowOneGroup
<1>1. Inv => WindowOneGroup
  <2>1. SUFFICES ASSUME Inv, NEW k \in 1 .. Len(LivePositions)
                 PROVE  /\ state[LivePositions[k]].pkt.group = current_group_id
                        /\ state[LivePositions[k]].pkt.psn
                             = (window.left_psn + k - 1) % PsnMod
    BY DEF WindowOneGroup
  <2>2. Left \in Nat /\ Live \in Nat /\ Left + Live = Generated
    BY <2>1, EdgeFacts DEF Inv
  <2> DEFINE x == Left + (k - 1)
  <2>3. Len(LivePositions) = Live /\ k \in 1 .. Live /\ LivePositions[k] = x % MAX_WIN_LEN
    BY <2>1, LiveWindow
  <2>4. x \in Left .. Generated - 1 /\ x - Left = k - 1
    BY <2>2, <2>3
  <2> HIDE DEF x
  <2>5. /\ At(x).pkt.group = current_group_id
        /\ At(x).pkt.psn = (window.left_psn + (x - Left)) % PsnMod
    BY <2>1, <2>4, WindowGroup
  <2>6. window.left_psn \in Nat /\ k \in Nat
    BY <2>1, <2>2, <2>3 DEF Inv, TypeOK
  <2>7. window.left_psn + (x - Left) = window.left_psn + k - 1
    BY <2>4, <2>6
  <2> QED BY <2>3, <2>5, <2>7 DEF At
<1> QED BY <1>1, InductiveInvariant, PTL


-----------------------------------------------------------------------------
(* The refinement of the sliding window.                                   *)

Queued == [n \in 1 .. Len(txq) |-> Number(state[txq[n].position].pkt)]

(* The refinement mapping in terms of the invariant.                       *)
Mapped ==
    /\ Live \in Nat /\ Len(LivePositions) = Live
    /\ txq \in Seq(Entry)
    /\ Queued = [n \in 1 .. Len(txq) |-> Number(txq[n].pkt)]
    /\ \A n \in 1 .. Len(txq) : Number(txq[n].pkt) \in Nat
    /\ \A n \in 1 .. Len(txq) : state[txq[n].position].pkt = txq[n].pkt
    /\ \A x : x \in Answered <=>
          \E i \in SubOp : \E k \in 0 .. PktCnt(i) - 1 :
              answer[i][k] # NoPkt /\ x = Sum(i - 1) + k

LEMMA InvMapped ==
    ASSUME Inv
    PROVE  Mapped
<1>1. Live \in Nat /\ Len(LivePositions) = Live
  BY LiveWindow, EdgeFacts DEF Inv
<1>2. txq \in Seq(Entry)
  BY DEF Inv, TypeOK, Entry
<1>3. ASSUME NEW n \in 1 .. Len(txq)
      PROVE  state[txq[n].position].pkt = txq[n].pkt /\ Number(txq[n].pkt) \in Nat
  <2>1. state[txq[n].position].pkt = txq[n].pkt /\ Real(txq[n].pkt)
    BY QueuedInRing
  <2> QED BY <2>1, RealFacts
<1>4. Queued = [n \in 1 .. Len(txq) |-> Number(txq[n].pkt)]
  BY <1>3 DEF Queued
<1>5. ASSUME NEW x
      PROVE  x \in Answered <=>
                \E i \in SubOp : \E k \in 0 .. PktCnt(i) - 1 :
                    answer[i][k] # NoPkt /\ x = Sum(i - 1) + k
  <2>1. \A i \in SubOp : DOMAIN answer[i] = 0 .. PktCnt(i) - 1
    BY DEF Inv, AnswerInv
  <2>2. x \in Answered <=>
          \E i \in SubOp : \E k \in {j \in DOMAIN answer[i] : answer[i][j] # NoPkt} :
              x = PacketsBefore(i) + k
    <3> DEFINE K(i) == {j \in DOMAIN answer[i] : answer[i][j] # NoPkt}
               Q(i) == {PacketsBefore(i) + k : k \in K(i)}
    <3>1. Answered = UNION {Q(i) : i \in SubOp}
      BY DEF Answered
    <3>2. \A i \in SubOp : x \in Q(i) <=> \E k \in K(i) : x = PacketsBefore(i) + k
      OBVIOUS
    <3> HIDE DEF Q
    <3>3. x \in Answered <=> \E i \in SubOp : x \in Q(i)
      BY <3>1
    <3> QED BY <3>2, <3>3
  <2>3. \A i : PacketsBefore(i) = Sum(i - 1)
    BY DEF PacketsBefore, Sum
  <2> QED BY <2>1, <2>2, <2>3
<1> QED BY <1>1, <1>2, <1>3, <1>4, <1>5 DEF Mapped

(* The left edge is the one of the proof.                                  *)
LEMMA MappedLeft ==
    ASSUME Mapped
    PROVE  Generated - Len(LivePositions) = Left
BY DEF Mapped, Left

(* A packet is among the answered ones when its piece has an answer.       *)
LEMMA AnsweredNumber ==
    ASSUME Mapped, NEW p, Real(p)
    PROVE  Number(p) \in Answered <=> HasAnswer(p)
<1>1. ASSUME HasAnswer(p) PROVE Number(p) \in Answered
  BY <1>1, RealFacts DEF Mapped, HasAnswer
<1>2. ASSUME Number(p) \in Answered PROVE HasAnswer(p)
  <2>0. PICK i \in SubOp : \E k \in 0 .. PktCnt(i) - 1 :
            answer[i][k] # NoPkt /\ Number(p) = Sum(i - 1) + k
    BY <1>2 DEF Mapped
  <2>1. PICK k \in 0 .. PktCnt(i) - 1 :
            answer[i][k] # NoPkt /\ Number(p) = Sum(i - 1) + k
    BY <2>0
  <2> DEFINE q == PacketOf(i, k)
  <2>2. Real(q) /\ Number(q) = Number(p) /\ q.sub_op = i /\ q.piece = k
    BY <2>1, PacketOfReal
  <2> HIDE DEF q
  <2>3. p = q
    BY <2>2, NumberInjective
  <2> QED BY <2>1, <2>2, <2>3 DEF HasAnswer
<1> QED BY <1>1, <1>2

LEMMA WindowInit == Init => W!Init
<1>1. SUFFICES ASSUME Init PROVE W!Init
  OBVIOUS
<1>2. Inv
  BY <1>1, InitInv
<1>3. Mapped
  BY <1>2, InvMapped
<1>4. Generated = 0
  BY <1>1, SumFacts DEF Init, Generated, PacketsBefore, Sum, NoSubOp
<1>5. Live = 0
  BY <1>1, ConstantFacts DEF Init, Live, EndPos
<1>6. Queued = <<>>
  BY <1>1 DEF Init, Queued
<1>7. Answered = {}
  <2>1. \A i \in SubOp : \A k \in 0 .. PktCnt(i) - 1 : answer[i][k] = NoPkt
    BY <1>1 DEF Init
  <2> QED BY <1>3, <2>1 DEF Mapped
<1> QED BY <1>3, <1>4, <1>5, <1>6, <1>7, MappedLeft DEF W!Init, Queued, Left

(* What the window sees.                                                   *)
LEMMA WindowStutter ==
    ASSUME Mapped, Mapped', Generated' = Generated, Live' = Live,
           UNCHANGED <<txq, answer>>
    PROVE  UNCHANGED W!vars
<1>1. Queued' = Queued
  BY DEF Mapped
<1>2. Answered' = Answered
  BY DEF Answered
<1>3. Len(LivePositions)' = Len(LivePositions)
  BY DEF Mapped
<1> QED BY <1>1, <1>2, <1>3 DEF W!vars, Queued

(* Positions of the window, queued behind the rest.                        *)
LEMMA AgainStep ==
    ASSUME Inv, Mapped, Mapped', NEW A, NEW ps \in Seq(Position), Transmit(ps),
           \A k \in 1 .. Len(ps) :
              /\ state'[ps[k]].pkt = state[ps[k]].pkt
              /\ \E x \in Left .. Generated - 1 : ps[k] = x % MAX_WIN_LEN /\ x \notin A
    PROVE  W!Again(A)
<1> DEFINE T == [n \in 1 .. Len(txq) |-> Number(txq[n].pkt)]
           U == [n \in 1 .. Len(txq') |-> Number(txq'[n].pkt)]
<1>1. /\ Len(txq) \in Nat /\ Len(txq') = Len(txq) + Len(ps)
      /\ \A n \in 1 .. Len(txq) : txq'[n] = txq[n]
      /\ \A k \in 1 .. Len(ps) : txq'[Len(txq) + k].position = ps[k]
  BY TransmitWindow
<1>2. Queued = T /\ Queued' = U
  BY DEF Mapped
<1>3. Len(ps) \in Nat
  OBVIOUS
<1>4. Len(T) = Len(txq) /\ Len(U) = Len(txq')
  BY <1>1, <1>3
<1>5. \A n \in 1 .. Len(txq) : U[n] = T[n]
  BY <1>1, <1>3
<1>6. U \in Seq(Nat) /\ T \in Seq(Nat)
  <2>1. T \in [1 .. Len(txq) -> Nat]
    BY DEF Mapped
  <2>2. U \in [1 .. Len(txq') -> Nat]
    BY DEF Mapped
  <2>3. Len(txq') \in Nat
    BY <1>1, <1>3
  <2>4. Len(txq) \in Nat
    BY <1>1
  <2> HIDE DEF T, U
  <2>5. T \in Seq(Nat)
    BY <2>1, <2>4
  <2>6. U \in Seq(Nat)
    BY <2>2, <2>3
  <2> QED BY <2>5, <2>6
<1>7. ASSUME NEW n \in Len(txq) + 1 .. Len(txq')
      PROVE  U[n] \in (Left .. Generated - 1) \ A
  <2> DEFINE k == n - Len(txq)
  <2>1. k \in 1 .. Len(ps) /\ Len(txq) + k = n /\ n \in 1 .. Len(txq')
    BY <1>1, <1>3
  <2> HIDE DEF k
  <2>2. PICK x \in Left .. Generated - 1 : ps[k] = x % MAX_WIN_LEN /\ x \notin A
    BY <2>1
  <2>3. txq'[n].position = x % MAX_WIN_LEN
    BY <1>1, <2>1, <2>2
  <2>4. state'[txq'[n].position].pkt = txq'[n].pkt
    BY <2>1 DEF Mapped
  <2>5. txq'[n].pkt = At(x).pkt
    BY <2>1, <2>2, <2>3, <2>4 DEF At
  <2>6. Number(At(x).pkt) = x
    BY <2>2, WindowContent DEF Inv, Holds
  <2>7. U[n] = x
    BY <2>1, <2>5, <2>6
  <2> QED BY <2>2, <2>7
<1> HIDE DEF T, U
<1>8. Len(U) >= Len(T) /\ SubSeq(U, 1, Len(T)) = T
  <2>1. Len(T) \in 0 .. Len(U)
    BY <1>1, <1>3, <1>4
  <2>2. Len(SubSeq(U, 1, Len(T))) = Len(T) /\ SubSeq(U, 1, Len(T)) \in Seq(Nat)
    BY <1>6, <2>1
  <2>3. \A n \in 1 .. Len(T) : SubSeq(U, 1, Len(T))[n] = T[n]
    BY <1>4, <1>5, <1>6, <2>1
  <2>4. SubSeq(U, 1, Len(T)) = T
    BY <1>6, <2>2, <2>3, SeqEqual
  <2> QED BY <2>1, <2>4
<1>9. \A n \in Len(T) + 1 .. Len(U) : U[n] \in (Left .. Generated - 1) \ A
  BY <1>4, <1>7
<1>10. Generated - Len(LivePositions) = Left
  BY MappedLeft
<1> QED BY <1>2, <1>8, <1>9, <1>10 DEF W!Again, W!Window, Queued


(* Nothing is queued.                                                      *)
LEMMA AgainNone ==
    ASSUME Mapped, Mapped', UNCHANGED txq, NEW A
    PROVE  W!Again(A)
<1>1. Queued' = Queued /\ Queued \in [1 .. Len(txq) -> Nat]
  BY DEF Mapped
<1>2. txq \in Seq(Entry)
  BY DEF Mapped
<1>3. Len(txq) \in Nat
  BY <1>2
<1>4. Queued \in Seq(Nat)
  BY <1>1, <1>3
<1> DEFINE T == Queued
<1> HIDE DEF T
<1>5. T \in Seq(Nat) /\ Len(T) \in Nat
  BY <1>4 DEF T
<1>6. SubSeq(T, 1, Len(T)) = T
  <2>1. /\ SubSeq(T, 1, Len(T)) \in Seq(Nat) /\ Len(SubSeq(T, 1, Len(T))) = Len(T)
        /\ \A n \in 1 .. Len(T) : SubSeq(T, 1, Len(T))[n] = T[n]
    BY <1>5
  <2> QED BY <1>5, <2>1, SeqEqual
<1>7. Len(T) >= Len(T) /\ Len(T) + 1 .. Len(T) = {}
  BY <1>5
<1> QED BY <1>1, <1>6, <1>7 DEF W!Again, T, Queued

(* gen_pkt() and transmit() of one packet.                                 *)
LEMMA GenerateStep ==
    ASSUME Inv, Mapped, Mapped', SendOne
    PROVE  W!Generate
<1>1. PICK p : /\ Real(p) /\ Number(p) = Generated
               /\ Generated' = Generated + 1
               /\ state' = [state EXCEPT ![loop.to_send] =
                              [pkt |-> p, acked |-> FALSE,
                               is_last |-> (p.piece + 1 = PktCnt(p.sub_op))]]
  BY SendOneFacts
<1>2. Sends(p)
  BY <1>1, SendOneSends
<1>3. /\ Generated' = Generated + 1 /\ Left' = Left /\ Live < Win
      /\ state'[Generated % MAX_WIN_LEN].pkt = p
      /\ Len(txq) \in Nat /\ Len(txq') = Len(txq) + 1
      /\ \A n \in 1 .. Len(txq) : txq'[n] = txq[n]
      /\ txq'[Len(txq) + 1].position = Generated % MAX_WIN_LEN
  BY <1>2 DEF Sends
<1>4. Generated \in Nat /\ Left + Live = Generated /\ Left \in Nat /\ Live \in Nat
  BY EdgeFacts DEF Inv
<1>5. Generated < PacketsBefore(NSubOps + 1)
  <2>1. p.sub_op \in SubOp
    BY <1>1, RealFacts
  <2>2. NSubOps \in 0 .. NSubOps /\ p.sub_op <= NSubOps /\ (NSubOps + 1) - 1 = NSubOps
    BY <2>1, ConstantFacts DEF SubOp
  <2>3. Number(p) < Sum(NSubOps)
    BY <1>1, <2>2, NumberRange
  <2> QED BY <1>1, <2>2, <2>3 DEF PacketsBefore, Sum
<1>6. Generated - Left < AggLen \div 2
  BY <1>3, <1>4, ConstantFacts DEF Win
<1>7. Queued' = Append(Queued, Generated)
  <2> DEFINE T == [n \in 1 .. Len(txq) |-> Number(txq[n].pkt)]
             U == [n \in 1 .. Len(txq') |-> Number(txq'[n].pkt)]
  <2>1. Queued = T /\ Queued' = U
    BY DEF Mapped
  <2>2. Len(txq) + 1 \in 1 .. Len(txq') /\ Len(txq') \in Nat
    BY <1>3
  <2>3. state'[txq'[Len(txq) + 1].position].pkt = txq'[Len(txq) + 1].pkt
    BY <2>2 DEF Mapped
  <2>4. U[Len(txq) + 1] = Generated
    BY <1>1, <1>3, <2>2, <2>3
  <2>5. \A n \in 1 .. Len(txq) : U[n] = T[n]
    BY <1>3
  <2>6. T \in [1 .. Len(txq) -> Nat]
    BY DEF Mapped
  <2>7. U \in [1 .. Len(txq') -> Nat]
    BY DEF Mapped
  <2> HIDE DEF T, U
  <2>8. T \in Seq(Nat) /\ Len(T) = Len(txq)
    BY <1>3, <2>6
  <2>9. U \in Seq(Nat) /\ Len(U) = Len(txq) + 1
    BY <1>3, <2>2, <2>7
  <2>10. /\ Append(T, Generated) \in Seq(Nat) /\ Len(Append(T, Generated)) = Len(txq) + 1
         /\ \A n \in 1 .. Len(txq) : Append(T, Generated)[n] = T[n]
         /\ Append(T, Generated)[Len(txq) + 1] = Generated
    BY <1>4, <2>8, AppendFacts
  <2>11. \A n \in 1 .. Len(U) : U[n] = Append(T, Generated)[n]
    <3>1. ASSUME NEW n \in 1 .. Len(txq) + 1 PROVE U[n] = Append(T, Generated)[n]
      <4>1. CASE n = Len(txq) + 1
        BY <2>4, <2>10, <4>1
      <4>2. CASE n \in 1 .. Len(txq)
        BY <2>5, <2>10, <4>2
      <4>3. Len(txq) \in Nat
        BY <1>3
      <4>4. n = Len(txq) + 1 \/ n \in 1 .. Len(txq)
        BY <4>3
      <4> QED BY <4>1, <4>2, <4>4
    <3> QED BY <2>9, <3>1
  <2>12. U = Append(T, Generated)
    BY <2>9, <2>10, <2>11, SeqEqual
  <2> QED BY <2>1, <2>12
<1>8. Answered' = Answered
  BY DEF SendOne, Answered
<1>9. Generated - Len(LivePositions) = Left /\ (Generated - Len(LivePositions))' = Left
  <2>1. (Generated - Len(LivePositions))' = Left'
    BY DEF Mapped, Left
  <2> QED BY <1>3, <2>1, MappedLeft
<1> QED BY <1>3, <1>5, <1>6, <1>7, <1>8, <1>9 DEF W!Generate, Queued

(* full_retrans().                                                         *)
LEMMA RetransmitStep ==
    ASSUME Inv, Mapped, Mapped', Generated' = Generated, Live' = Live,
           pc # "send", Transmit(Unacked), UNCHANGED <<state, answer>>
    PROVE  W!Retransmit
<1>1. ASSUME NEW k \in 1 .. Len(Unacked)
      PROVE  \E x \in Left .. Generated - 1 :
                Unacked[k] = x % MAX_WIN_LEN /\ x \notin Answered
  <2>1. PICK x \in Left .. Generated - 1 : Unacked[k] = x % MAX_WIN_LEN /\ ~At(x).acked
    BY UnackedFacts
  <2>2. Real(At(x).pkt) /\ Number(At(x).pkt) = x
    BY WindowContent DEF Inv, Holds
  <2>3. ~HasAnswer(At(x).pkt)
    BY <2>1 DEF Inv, AckedInv
  <2>4. x \notin Answered
    BY <2>2, <2>3, AnsweredNumber
  <2> QED BY <2>1, <2>4
<1>2. Unacked \in Seq(Position)
  BY UnackedFacts
<1>3. W!Again(Answered)
  BY <1>1, <1>2, AgainStep
<1>4. Answered' = Answered
  BY DEF Answered
<1>5. (Generated - Len(LivePositions))' = Generated - Len(LivePositions)
  BY DEF Mapped
<1> QED BY <1>3, <1>4, <1>5 DEF W!Retransmit

(* rx_process_one() that accepts an answer.                                *)
LEMMA AcknowledgeStep ==
    ASSUME Inv, Mapped, Mapped', Generated' = Generated, Live' = Live,
           NEW p, Real(p), Accepts(p)
    PROVE  W!Acknowledge
<1>1. /\ Number(p) \in Left .. Generated - 1
      /\ UNCHANGED txq \/ Transmit(Gap(Number(p) % MAX_WIN_LEN))
  BY DEF Accepts
<1>2. Answered' = Answered \cup {Number(p)}
  <2>1. p \in Pkt /\ p # NoPkt /\ p.sub_op \in SubOp
        /\ p.piece \in 0 .. PktCnt(p.sub_op) - 1
        /\ Number(p) = Sum(p.sub_op - 1) + p.piece
    BY RealFacts
  <2>2. \A i \in SubOp : \A k \in 0 .. PktCnt(i) - 1 :
          answer'[i][k] = IF i = p.sub_op /\ k = p.piece THEN p ELSE answer[i][k]
    BY AcceptFacts
  <2>3. \A x : x \in Answered <=>
          \E i \in SubOp : \E k \in 0 .. PktCnt(i) - 1 :
              answer[i][k] # NoPkt /\ x = Sum(i - 1) + k
    BY DEF Mapped
  <2>4. \A x : x \in Answered' <=>
          \E i \in SubOp : \E k \in 0 .. PktCnt(i) - 1 :
              answer'[i][k] # NoPkt /\ x = Sum(i - 1) + k
    BY DEF Mapped
  <2>5. ASSUME NEW x \in Answered' PROVE x \in Answered \cup {Number(p)}
    <3>0. PICK i \in SubOp : \E k \in 0 .. PktCnt(i) - 1 :
              answer'[i][k] # NoPkt /\ x = Sum(i - 1) + k
      BY <2>4, <2>5
    <3>1. PICK k \in 0 .. PktCnt(i) - 1 : answer'[i][k] # NoPkt /\ x = Sum(i - 1) + k
      BY <3>0
    <3>2. CASE i = p.sub_op /\ k = p.piece
      BY <2>1, <3>1, <3>2
    <3>3. CASE ~(i = p.sub_op /\ k = p.piece)
      BY <2>2, <2>3, <3>1, <3>3
    <3> QED BY <3>2, <3>3
  <2>6. ASSUME NEW x \in Answered PROVE x \in Answered'
    <3>0. PICK i \in SubOp : \E k \in 0 .. PktCnt(i) - 1 :
              answer[i][k] # NoPkt /\ x = Sum(i - 1) + k
      BY <2>3, <2>6
    <3>1. PICK k \in 0 .. PktCnt(i) - 1 : answer[i][k] # NoPkt /\ x = Sum(i - 1) + k
      BY <3>0
    <3>2. answer'[i][k] # NoPkt
      BY <2>1, <2>2, <3>1
    <3> QED BY <2>4, <3>1, <3>2
  <2>7. Number(p) \in Answered'
    <3>1. answer'[p.sub_op][p.piece] # NoPkt
      BY <2>1, <2>2
    <3> QED BY <2>1, <2>4, <3>1
  <2> QED BY <2>5, <2>6, <2>7
<1>3. Number(p) \notin Answered
  BY AcceptFacts, AnsweredNumber
<1>4. Generated - Len(LivePositions) = Left
      /\ (Generated - Len(LivePositions))' = Generated - Len(LivePositions)
  BY MappedLeft DEF Mapped
<1>5. W!Again(Answered')
  <2>1. CASE UNCHANGED txq
    BY <2>1, AgainNone
  <2>2. CASE Transmit(Gap(Number(p) % MAX_WIN_LEN))
    <3> DEFINE ps == Gap(Number(p) % MAX_WIN_LEN)
    <3>1. /\ ps \in Seq(Position)
          /\ \A n \in 1 .. Len(ps) :
                \E x \in Left .. Number(p) - 1 : ps[n] = x % MAX_WIN_LEN /\ ~At(x).acked
      BY <1>1, GapFacts
    <3> HIDE DEF ps
    <3>2. ASSUME NEW k \in 1 .. Len(ps)
          PROVE  /\ state'[ps[k]].pkt = state[ps[k]].pkt
                 /\ \E x \in Left .. Generated - 1 :
                       ps[k] = x % MAX_WIN_LEN /\ x \notin Answered'
      <4>1. PICK x \in Left .. Number(p) - 1 : ps[k] = x % MAX_WIN_LEN /\ ~At(x).acked
        BY <3>1
      <4>2. Left \in Nat /\ Generated \in Nat /\ Number(p) \in Nat
        BY EdgeFacts, RealFacts DEF Inv
      <4>3. x \in Left .. Generated - 1 /\ x # Number(p)
        BY <1>1, <4>1, <4>2
      <4>4. Real(At(x).pkt) /\ Number(At(x).pkt) = x
        BY <4>3, WindowContent DEF Inv, Holds
      <4>5. ~HasAnswer(At(x).pkt)
        BY <4>1, <4>3 DEF Inv, AckedInv
      <4>6. x \notin Answered
        BY <4>4, <4>5, AnsweredNumber
      <4>7. ps[k] \in Position
        BY <3>1, ElementOfSeq
      <4>8. state'[ps[k]].pkt = state[ps[k]].pkt
        BY <4>7, AcceptFacts
      <4> QED BY <1>2, <4>1, <4>3, <4>6, <4>8
    <3>3. Transmit(ps)
      BY <2>2 DEF ps
    <3> QED BY <3>1, <3>2, <3>3, AgainStep
  <2> QED BY <1>1, <2>1, <2>2
<1>6. W!Slide(Answered')
  <2>1. Left \in Nat /\ Generated \in Nat /\ Left <= Generated
    BY EdgeFacts DEF Inv
  <2>2. Left \in Left .. Generated /\ Left .. Left - 1 = {}
    BY <2>1
  <2> QED BY <1>4, <2>2 DEF W!Slide
<1> QED BY <1>1, <1>2, <1>3, <1>4, <1>5, <1>6 DEF W!Acknowledge, W!Window


(* shift_ack().                                                            *)
LEMMA ShiftStep ==
    ASSUME Inv, Mapped, Mapped', ShiftAck
    PROVE  W!Shift
<1>1. /\ UNCHANGED <<txq, answer, state>>
      /\ Generated' = Generated /\ Left' \in Left .. Generated
      /\ \A x \in Left .. Left' - 1 : At(x).acked
  BY ShiftAckFacts
<1>2. Generated - Len(LivePositions) = Left /\ (Generated - Len(LivePositions))' = Left'
  <2>1. (Generated - Len(LivePositions))' = Left'
    BY DEF Mapped, Left
  <2> QED BY <2>1, MappedLeft
<1>3. Answered' = Answered
  BY <1>1 DEF Answered
<1>4. Queued' = Queued
  BY <1>1 DEF Mapped
<1>5. ASSUME NEW x \in Left .. Left' - 1 PROVE x \in Answered
  <2>1. Left \in Nat /\ Generated \in Nat
    BY EdgeFacts DEF Inv
  <2>2. x \in Left .. Generated - 1
    <3> DEFINE l == Left'
    <3> HIDE DEF l
    <3>1. l \in Left .. Generated /\ x \in Left .. l - 1
      BY <1>1 DEF l
    <3> QED BY <2>1, <3>1
  <2>3. Real(At(x).pkt) /\ Number(At(x).pkt) = x
    BY <2>2, WindowContent DEF Inv, Holds
  <2>4. HasAnswer(At(x).pkt)
    BY <1>1, <2>2 DEF Inv, AckedInv
  <2> QED BY <2>3, <2>4, AnsweredNumber
<1>6. W!Slide(Answered)
  BY <1>1, <1>2, <1>5 DEF W!Slide
<1> QED BY <1>1, <1>3, <1>4, <1>6 DEF W!Shift, Queued

(* The NIC takes the oldest pointer.                                       *)
LEMMA DepartStep ==
    ASSUME Inv, Mapped, Mapped', Depart
    PROVE  W!Depart
<1>1. txq # <<>> /\ txq' = Tail(txq) /\ UNCHANGED <<genVars, window, pc, loop, answer>>
  BY DEF Depart
<1>2. txq \in Seq(Entry)
  BY DEF Mapped
<1>3. /\ Len(txq) \in Nat /\ Len(txq) >= 1 /\ Len(Tail(txq)) = Len(txq) - 1
      /\ \A n \in 1 .. Len(txq) - 1 : Tail(txq)[n] = txq[n + 1]
  BY <1>1, <1>2, TailFacts
<1> DEFINE T == [n \in 1 .. Len(txq) |-> Number(txq[n].pkt)]
           U == [n \in 1 .. Len(txq') |-> Number(txq'[n].pkt)]
<1>4. Queued = T /\ Queued' = U
  BY DEF Mapped
<1>5. T \in [1 .. Len(txq) -> Nat]
  BY DEF Mapped
<1>6. U \in [1 .. Len(txq) - 1 -> Nat]
  BY <1>1, <1>3 DEF Mapped
<1>7. \A n \in 1 .. Len(txq) - 1 : U[n] = T[n + 1]
  BY <1>1, <1>3
<1> HIDE DEF T, U
<1>8. T \in Seq(Nat) /\ Len(T) = Len(txq)
  BY <1>3, <1>5
<1>9. U \in Seq(Nat) /\ Len(U) = Len(txq) - 1
  BY <1>3, <1>6
<1>10. T # <<>>
  BY <1>3, <1>8
<1>11. U = Tail(T)
  <2>1. /\ Tail(T) \in Seq(Nat) /\ Len(Tail(T)) = Len(txq) - 1
        /\ \A n \in 1 .. Len(txq) - 1 : Tail(T)[n] = T[n + 1]
    BY <1>8, <1>10, TailFacts
  <2>2. \A n \in 1 .. Len(U) : U[n] = Tail(T)[n]
    BY <1>7, <1>9, <2>1
  <2> QED BY <1>9, <2>1, <2>2, SeqEqual
<1>12. Generated' = Generated /\ (Generated - Len(LivePositions))' = Generated - Len(LivePositions)
  BY <1>1 DEF Generated, LivePositions, Positions, genVars
<1>13. Answered' = Answered
  BY <1>1 DEF Answered
<1> QED BY <1>4, <1>10, <1>11, <1>12, <1>13 DEF W!Depart, Queued

LEMMA WindowStep ==
    ASSUME Inv, Mapped, Mapped', [Next]_vars
    PROVE  W!Next \/ UNCHANGED W!vars
<1>1. CASE PushReq
  <2>1. Generated' = Generated /\ Live' = Live
    BY <1>1 DEF PushReq, Generated, Live, EndPos
  <2> QED BY <1>1, <2>1, WindowStutter DEF PushReq
<1>2. CASE Depart
  BY <1>2, DepartStep DEF W!Next
<1>3. ASSUME NEW p \in wire, Lose(p) PROVE W!Next \/ UNCHANGED W!vars
  <2>1. Generated' = Generated /\ Live' = Live
    BY <1>3 DEF Lose, Generated, Live, EndPos, genVars
  <2> QED BY <1>3, <2>1, WindowStutter DEF Lose
<1>4. ASSUME NEW p \in wire, RxProcessOne(p) PROVE W!Next \/ UNCHANGED W!vars
  <2>1. Generated' = Generated /\ Live' = Live
    BY <1>4 DEF RxProcessOne, Generated, Live, EndPos, genVars
  <2>2. CASE UNCHANGED <<state, answer, txq>>
    BY <2>1, <2>2, WindowStutter
  <2>3. CASE Accepts(p)
    <3>1. Real(p)
      BY DEF Inv, WireInv
    <3> QED BY <2>1, <2>3, <3>1, AcknowledgeStep DEF W!Next
  <2> QED BY <1>4, <2>2, <2>3, RxCases
<1>5. CASE ShiftAck
  BY <1>5, ShiftStep DEF W!Next
<1>6. ASSUME NEW timeout \in BOOLEAN, NEW cwnd \in CC_CWND_MIN .. CwndMax,
             TxProcess(timeout, cwnd)
      PROVE  W!Next \/ UNCHANGED W!vars
  <2>1. /\ pc = "tx" /\ pc' = "send" /\ loop'.to_send = window.to_send
        /\ UNCHANGED <<genVars, window, state, answer>>
        /\ Transmit(Unacked) \/ UNCHANGED txq
    BY <1>6 DEF TxProcess
  <2>2. Generated' = Generated /\ Live' = Live
    BY <2>1 DEF Generated, Live, EndPos, genVars
  <2>3. CASE Transmit(Unacked)
    BY <2>1, <2>2, <2>3, RetransmitStep DEF W!Next
  <2>4. CASE UNCHANGED txq
    BY <2>1, <2>2, <2>4, WindowStutter
  <2> QED BY <2>1, <2>3, <2>4
<1>7. CASE SendOne
  BY <1>7, GenerateStep DEF W!Next
<1>8. CASE EndSend
  <2>1. /\ pc = "send" /\ pc' = "rx" /\ UNCHANGED <<genVars, txq, answer>>
        /\ window' = [window EXCEPT
                         !.to_send = loop.to_send,
                         !.right_psn = IF loop.to_send = window.to_ack THEN 0
                                       ELSE state[Prev1(loop.to_send)].pkt.psn]
    BY <1>8 DEF EndSend
  <2>2. window'.to_send = loop.to_send /\ window'.to_ack = window.to_ack
    <3> DEFINE v == IF loop.to_send = window.to_ack THEN 0
                    ELSE state[Prev1(loop.to_send)].pkt.psn
    <3>1. window' = [window EXCEPT !.to_send = loop.to_send, !.right_psn = v]
      BY <2>1
    <3> HIDE DEF v
    <3>2. window \in [to_ack : Position, to_send : Position,
                      left_psn : 0 .. PsnMod - 1, right_psn : 0 .. PsnMod - 1]
      BY DEF Inv, TypeOK
    <3> QED BY <3>1, <3>2
  <2>3. Generated' = Generated /\ Live' = Live
    BY <2>1, <2>2 DEF Generated, Live, EndPos, genVars
  <2> QED BY <2>1, <2>3, WindowStutter
<1>9. CASE UNCHANGED vars
  <2>1. Generated' = Generated /\ Live' = Live
    BY <1>9 DEF vars, Generated, Live, EndPos
  <2> QED BY <1>9, <2>1, WindowStutter DEF vars
<1> QED BY <1>1, <1>2, <1>3, <1>4, <1>5, <1>6, <1>7, <1>8, <1>9 DEF Next

(* worker.cpp: the poll loop, with its ring, its PSNs and its queued       *)
(* pointers, is the sliding window over the packets of all sub-operations: *)
(* it generates them in order within the limit, queues again only packets  *)
(* of the window that have no answer, acknowledges one unanswered packet   *)
(* of the window at a time, and moves the left edge over answered ones.    *)
THEOREM WorkerRefinesWindow ==
    ASSUME Barrier
    PROVE  Spec => ImplementsWindow
<1>1. Inv => Mapped
  BY InvMapped
<1>2. Inv /\ Mapped /\ Mapped' /\ [Next]_vars => [W!Next]_(W!vars)
  BY WindowStep
<1> QED BY <1>1, <1>2, WindowInit, InductiveInvariant, PTL
        DEF Spec, ImplementsWindow, W!Spec
=============================================================================
