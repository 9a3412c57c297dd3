------------------------- MODULE LoadBalancerProofs -------------------------
(***************************************************************************)
(* Proofs about LoadBalancer, for any number of workers and operations and *)
(* any capacity of the queues.  The operations are numbered in the order   *)
(* of their submission; the invariant says which of them is where.         *)
(***************************************************************************)
EXTENDS LoadBalancer, ProofLemmas

-----------------------------------------------------------------------------
(* The invariant.                                                          *)

(* Operations answered by try_complete_op(), and taken by try_post_op().   *)
Answered == Len(collected) + Len(shm_qp.cq)
Popped == submitted - Len(shm_qp.wq)

(* Operations whose part for worker w was pushed.                          *)
Pushed(w) == IF posting = Idle \/ w < posting.i THEN Popped ELSE Popped - 1

(* The sub-operations of queue s are those of the operations after b.      *)
Follows(s, b) == \A n \in 1 .. Len(s) : s[n].op = b + n

(* The queue pair of the application holds the operations that were        *)
(* submitted and not yet collected, less those with the workers.           *)
ShmInv ==
    /\ shm_qp.num_in_queue = submitted - Len(collected)
    /\ Answered <= Popped
    /\ \A n \in 1 .. Len(collected) : collected[n] = n
    /\ \A n \in 1 .. Len(shm_qp.cq) : shm_qp.cq[n] = Len(collected) + n
    /\ \A n \in 1 .. Len(shm_qp.wq) : shm_qp.wq[n] = Popped + n
    /\ posting # Idle => posting.op \in Op /\ posting.op = Popped

(* What was pushed to a worker and not yet answered to the application is  *)
(* in its completion queue, at the worker, or in its work queue, in order. *)
InHand(w) == Len(qp[w].cq) + Len(working[w]) + Len(qp[w].wq)

WorkerInv(w) ==
    /\ InHand(w) = Pushed(w) - Answered
    /\ qp[w].num_in_queue = Pushed(w) - Answered
    /\ Follows(qp[w].cq, Answered)
    /\ Follows(working[w], Answered + Len(qp[w].cq))
    /\ Follows(qp[w].wq, Answered + Len(qp[w].cq) + Len(working[w]))
    /\ 1 .. Answered + Len(qp[w].cq) \subseteq finished[w]

(* Where the part of worker i begins: the sum of the parts before it.      *)
Least(a, b) == IF a < b THEN a ELSE b
OffsetOf(size, i) ==
    LET words == size \div 4
    IN  4 * ((words \div NWorker) * i + Least(i, words % NWorker))

SplitInv ==
    /\ posting # Idle => posting.offset = OffsetOf(OpSize(posting.op), posting.i)
    /\ \A op \in Op :
        /\ Len(split[op]) = IF op > Popped THEN 0
                            ELSE IF op = posting.op THEN posting.i
                            ELSE NWorker
        /\ \A j \in 1 .. Len(split[op]) :
              split[op][j] = NewSubOp(op, j - 1, OffsetOf(OpSize(op), j - 1))

BalanceInv ==
    /\ TypeOK
    /\ ShmInv
    /\ \A w \in Workers : WorkerInv(w)
    /\ SplitInv

-----------------------------------------------------------------------------
(* The constants, and the shares of the workers.                           *)

LEMMA Constants ==
    /\ NWorker \in Nat /\ NWorker >= 1 /\ NOps \in Nat
    /\ QUEUE_SIZE \in Nat /\ QUEUE_SIZE >= 1
    /\ GroupAggAddr \in Nat /\ GroupAggLen \in Nat
    /\ \A op \in Op : OpSize(op) \in Nat
    /\ 0 \in Workers /\ NWorker - 1 \in Workers
    /\ \A w \in Workers : w \in Nat /\ w < NWorker
    /\ \A op \in Op : op \in Nat /\ op >= 1 /\ op <= NOps
BY LoadBalancerAssumption DEF LoadBalancerAssumption, Workers, Op

(* Products of naturals, for a step that has no other arithmetic.          *)
LEMMA ProductFacts ==
    ASSUME NEW a \in Nat, NEW i \in Nat, NEW j \in Nat, i <= j
    PROVE  /\ a * i \in Nat /\ a * j \in Nat
           /\ a * i <= a * j
           /\ a * (i + 1) = a * i + a
<1>1. PICK d \in Nat : j = i + d
  BY \A x, y \in Nat : x <= y => y - x \in Nat /\ y = x + (y - x)
<1>2. a * i \in Nat /\ a * d \in Nat /\ a * (i + d) = a * i + a * d
  OBVIOUS
<1> QED BY <1>1, <1>2

(* Where the parts begin: the first at 0, each where the one before it     *)
(* ends, and the last one ends with the buffer.                            *)
LEMMA Offsets ==
    ASSUME NEW size \in Nat
    PROVE  /\ OffsetOf(size, 0) = 0
           /\ \A i \in 0 .. NWorker :
                OffsetOf(size, i) \in Nat
           /\ \A i \in 0 .. NWorker - 1 :
                /\ SubSize(size, i) \in Nat
                /\ i < NWorker - 1 => OffsetOf(size, i) + SubSize(size, i) = OffsetOf(size, i + 1)
                /\ i = NWorker - 1 => OffsetOf(size, i) + SubSize(size, i) = size
           /\ \A i, j \in 0 .. NWorker : i <= j => OffsetOf(size, i) <= OffsetOf(size, j)
<1> DEFINE words == size \div 4
           q == words \div NWorker
           m == words % NWorker
<1>0. NWorker \in Nat \ {0}
  BY Constants
<1>1. words \in Nat /\ size % 4 \in 0 .. 4 - 1 /\ size = 4 * words + (size % 4)
  <2>1. 4 \in Nat \ {0}
    OBVIOUS
  <2> QED BY <2>1, DivMod, Zenon
<1>2. q \in Nat /\ m \in 0 .. NWorker - 1 /\ words = NWorker * q + m
  <2> HIDE DEF words
  <2> QED BY <1>0, <1>1, DivMod
<1>3. \A i : OffsetOf(size, i) = 4 * (q * i + Least(i, m))
  BY DEF OffsetOf
<1>4. \A i : SubSize(size, i) = (q + (IF i < m THEN 1 ELSE 0)) * 4
                                 + (IF i = NWorker - 1 THEN size % 4 ELSE 0)
  BY DEF SubSize
<1> HIDE DEF words, q, m
<1>5. OffsetOf(size, 0) = 0
  BY <1>2, <1>3 DEF Least
<1>6. ASSUME NEW i \in 0 .. NWorker, NEW j \in 0 .. NWorker, i <= j
      PROVE  OffsetOf(size, i) \in Nat /\ OffsetOf(size, i) <= OffsetOf(size, j)
  <2> DEFINE x == q * i
             y == q * j
  <2>1. x \in Nat /\ y \in Nat /\ x <= y
    BY <1>0, <1>2, <1>6, ProductFacts
  <2>2. OffsetOf(size, i) = 4 * (x + Least(i, m)) /\ OffsetOf(size, j) = 4 * (y + Least(j, m))
    BY <1>3
  <2> HIDE DEF x, y
  <2> QED BY <1>0, <1>2, <1>6, <2>1, <2>2 DEF Least
<1>7. ASSUME NEW i \in 0 .. NWorker - 1
      PROVE  /\ SubSize(size, i) \in Nat
             /\ i < NWorker - 1 => OffsetOf(size, i) + SubSize(size, i) = OffsetOf(size, i + 1)
             /\ i = NWorker - 1 => OffsetOf(size, i) + SubSize(size, i) = size
  <2> DEFINE x == q * i
             z == q * (i + 1)
  <2>1. x \in Nat /\ z = x + q /\ i \in Nat
    BY <1>0, <1>2, ProductFacts
  <2>2. OffsetOf(size, i) = 4 * (x + Least(i, m)) /\ OffsetOf(size, i + 1) = 4 * (z + Least(i + 1, m))
    BY <1>3
  <2>3. i = NWorker - 1 => NWorker * q = z
    BY <1>0, <1>2
  <2> HIDE DEF x, z
  <2>4. Least(i + 1, m) = Least(i, m) + (IF i < m THEN 1 ELSE 0)
    BY <1>2, <2>1 DEF Least
  <2>5. Least(i, m) \in Nat
    BY <1>2, <2>1 DEF Least
  <2>6. i = NWorker - 1 => Least(i, m) = m /\ ~(i < m)
    BY <1>0, <1>2 DEF Least
  <2> DEFINE k == Least(i, m)
             o == OffsetOf(size, i)
             n == OffsetOf(size, i + 1)
             t == SubSize(size, i)
             s == size % 4
  <2>7. t = (q + (IF i < m THEN 1 ELSE 0)) * 4 + (IF i = NWorker - 1 THEN s ELSE 0)
    BY <1>4
  <2>8. o = 4 * (x + k) /\ n = 4 * (x + q + k + (IF i < m THEN 1 ELSE 0))
    BY <2>1, <2>2, <2>4, <2>5
  <2>9. i = NWorker - 1 => size = 4 * (x + q + m) + s
    <3> DEFINE nq == NWorker * q
    <3>1. words = nq + m /\ size = 4 * words + s /\ (i = NWorker - 1 => nq = x + q)
      BY <1>1, <1>2, <2>1, <2>3
    <3>2. words \in Nat /\ s \in Nat /\ m \in Nat /\ q \in Nat
      BY <1>0, <1>1, <1>2
    <3> HIDE DEF nq, s
    <3> QED BY <2>1, <3>1, <3>2
  <2>10. s \in Nat /\ q \in Nat /\ m \in Nat
    BY <1>0, <1>1, <1>2
  <2> HIDE DEF k, o, n, t, s
  <2>11. t \in Nat
    BY <2>7, <2>10
  <2>12. i < NWorker - 1 => o + t = n
    BY <1>0, <2>1, <2>5, <2>7, <2>8, <2>10 DEF k
  <2>13. i = NWorker - 1 => o + t = size
    BY <2>1, <2>6, <2>7, <2>8, <2>9, <2>10 DEF k
  <2> QED BY <2>11, <2>12, <2>13 DEF o, n, t
<1> QED BY <1>0, <1>5, <1>6, <1>7

(* A sub-operation is of its type.                                         *)
LEMMA SubOpTyped ==
    ASSUME NEW op \in Op, NEW i \in Workers, NEW offset \in Nat
    PROVE  NewSubOp(op, i, offset) \in SubOpType
<1>1. OpSize(op) \in Nat /\ i \in 0 .. NWorker - 1 /\ i \in Nat
  BY Constants DEF Workers
<1>2. SubSize(OpSize(op), i) \in Nat
  BY <1>1, Offsets
<1>3. SubAggLen \in Nat
  <2>1. GroupAggLen \in Nat /\ NWorker \in Nat \ {0}
    BY Constants
  <2> QED BY <2>1, DivMod DEF SubAggLen
<1>4. GroupAggAddr + SubAggLen * i \in Nat
  <2>1. SubAggLen * i \in Nat
    BY <1>1, <1>3, ProductFacts
  <2> QED BY <2>1, Constants
<1> QED BY <1>2, <1>3, <1>4 DEF NewSubOp, SubOpType

(* The parts as they are cut cover the buffer, each byte once, and their   *)
(* slots are apart.                                                        *)
LEMMA PartsExact ==
    ASSUME NEW op \in Op, NEW s,
           \A j \in 1 .. NWorker : s[j] = NewSubOp(op, j - 1, OffsetOf(OpSize(op), j - 1))
    PROVE  /\ \A b \in 0 .. OpSize(op) - 1 :
                \E i \in 1 .. NWorker :
                    /\ b \in s[i].data .. s[i].data + s[i].size - 1
                    /\ \A j \in 1 .. NWorker \ {i} :
                        b \notin s[j].data .. s[j].data + s[j].size - 1
           /\ \A i \in 1 .. NWorker :
                /\ s[i].data + s[i].size <= OpSize(op)
                /\ s[i].agg_addr + s[i].agg_len <= GroupAggAddr + GroupAggLen
                /\ \A j \in 1 .. i - 1 : s[j].agg_addr + s[j].agg_len <= s[i].agg_addr
<1> DEFINE size == OpSize(op)
           begin(j) == OffsetOf(size, j - 1)
           end(j) == begin(j) + SubSize(size, j - 1)
<1>0. NWorker \in Nat /\ NWorker >= 1 /\ size \in Nat
  BY Constants
<1>1. \A j \in 1 .. NWorker :
        /\ s[j].data = begin(j) /\ s[j].size = SubSize(size, j - 1)
        /\ s[j].data + s[j].size = end(j)
        /\ s[j].agg_addr = GroupAggAddr + SubAggLen * (j - 1) /\ s[j].agg_len = SubAggLen
  <2> TAKE j \in 1 .. NWorker
  <2>1. s[j] = [op |-> op, data |-> begin(j), size |-> SubSize(size, j - 1),
                agg_addr |-> GroupAggAddr + SubAggLen * (j - 1), agg_len |-> SubAggLen]
    BY DEF NewSubOp
  <2> HIDE DEF begin, size
  <2> QED BY <2>1
<1>2. \A j \in 1 .. NWorker : /\ begin(j) \in Nat /\ end(j) \in Nat
                              /\ j < NWorker => end(j) = begin(j + 1)
                              /\ j = NWorker => end(j) = size
  <2> TAKE j \in 1 .. NWorker
  <2> DEFINE i == j - 1
  <2>1. i \in 0 .. NWorker - 1 /\ i \in 0 .. NWorker /\ i + 1 = j /\ i = j - 1
    BY <1>0
  <2>2. begin(j) = OffsetOf(size, i) /\ begin(j + 1) = OffsetOf(size, i + 1)
    BY <2>1
  <2> HIDE DEF i
  <2>3. /\ OffsetOf(size, i) \in Nat /\ SubSize(size, i) \in Nat
        /\ i < NWorker - 1 => OffsetOf(size, i) + SubSize(size, i) = OffsetOf(size, i + 1)
        /\ i = NWorker - 1 => OffsetOf(size, i) + SubSize(size, i) = size
    BY <1>0, <2>1, Offsets
  <2> QED BY <1>0, <2>1, <2>2, <2>3
<1>3. begin(1) = 0
  BY <1>0, Offsets
<1>4. \A i, j \in 1 .. NWorker : i <= j => begin(i) <= begin(j)
  BY <1>0, Offsets
<1> HIDE DEF begin, end, size
<1>5. \A i, j \in 1 .. NWorker : i < j => end(i) <= begin(j)
  <2> TAKE i, j \in 1 .. NWorker
  <2> HAVE i < j
  <2>1. i + 1 \in 1 .. NWorker /\ i + 1 <= j /\ i < NWorker
    BY <1>0
  <2>2. end(i) = begin(i + 1) /\ begin(i + 1) <= begin(j)
    BY <1>2, <1>4, <2>1
  <2> QED BY <2>2
<1>6. ASSUME NEW b \in 0 .. size - 1
      PROVE  \E i \in 1 .. NWorker : /\ b \in begin(i) .. end(i) - 1
                                     /\ \A j \in 1 .. NWorker \ {i} : b \notin begin(j) .. end(j) - 1
  <2> DEFINE T == {i \in 1 .. NWorker : b < end(i)}
  <2>1. T \subseteq Nat /\ NWorker \in T
    BY <1>0, <1>2
  <2>2. PICK i \in T : \A y \in T : i <= y
    <3> HIDE DEF T
    <3> QED BY <2>1, LeastElement
  <2>3. i \in 1 .. NWorker /\ b < end(i)
    BY <2>2
  <2>4. begin(i) <= b
    <3>1. CASE i = 1
      BY <1>3, <3>1
    <3>2. CASE i # 1
      <4>1. i - 1 \in 1 .. NWorker /\ i - 1 < NWorker /\ i - 1 \notin T
        BY <1>0, <2>2, <2>3, <3>2
      <4>2. end(i - 1) <= b
        BY <1>2, <4>1
      <4>3. end(i - 1) = begin((i - 1) + 1)
        BY <1>2, <4>1
      <4> QED BY <2>3, <4>2, <4>3
    <3> QED BY <3>1, <3>2
  <2>5. ASSUME NEW j \in 1 .. NWorker \ {i} PROVE b \notin begin(j) .. end(j) - 1
    <3>1. CASE j < i
      BY <1>2, <1>5, <2>3, <2>4, <3>1
    <3>2. CASE i < j
      BY <1>2, <1>5, <2>3, <3>2
    <3> QED BY <2>3, <3>1, <3>2
  <2>6. b \in begin(i) .. end(i) - 1
    BY <1>2, <2>3, <2>4
  <2> QED BY <2>3, <2>5, <2>6
<1>7. ASSUME NEW i \in 1 .. NWorker PROVE end(i) <= size
  <2>1. CASE i = NWorker
    BY <1>0, <1>2, <2>1
  <2>2. CASE i < NWorker
    <3>1. end(i) <= begin(NWorker) /\ begin(NWorker) <= end(NWorker) /\ end(NWorker) = size
      <4>1. NWorker \in 1 .. NWorker
        BY <1>0
      <4>2. SubSize(size, NWorker - 1) \in Nat
        BY <1>0, Offsets
      <4>3. end(NWorker) = begin(NWorker) + SubSize(size, NWorker - 1)
        BY DEF end
      <4> QED BY <1>0, <1>2, <1>5, <2>2, <4>1, <4>2, <4>3
    <3> QED BY <1>0, <1>2, <3>1
  <2> QED BY <1>0, <2>1, <2>2
<1>8. SubAggLen \in Nat /\ SubAggLen * NWorker <= GroupAggLen
  <2>1. GroupAggLen \in Nat /\ NWorker \in Nat \ {0}
    BY Constants
  <2>2. /\ GroupAggLen \div NWorker \in Nat
        /\ GroupAggLen % NWorker \in 0 .. NWorker - 1
        /\ GroupAggLen = NWorker * (GroupAggLen \div NWorker) + (GroupAggLen % NWorker)
    BY <2>1, DivMod
  <2> QED BY <2>1, <2>2 DEF SubAggLen
<1>9. ASSUME NEW i \in 1 .. NWorker
      PROVE  /\ SubAggLen * (i - 1) + SubAggLen <= GroupAggLen
             /\ \A j \in 1 .. i - 1 : SubAggLen * (j - 1) + SubAggLen <= SubAggLen * (i - 1)
             /\ \A j \in 1 .. i : SubAggLen * (j - 1) \in Nat
  <2>1. \A j \in 1 .. NWorker : SubAggLen * (j - 1) + SubAggLen = SubAggLen * j
                                /\ SubAggLen * (j - 1) \in Nat
    BY <1>8
  <2>2. SubAggLen * i <= SubAggLen * NWorker /\ SubAggLen * i \in Nat /\ SubAggLen * NWorker \in Nat
    BY <1>0, <1>8, ProductFacts
  <2>3. SubAggLen * (i - 1) + SubAggLen <= GroupAggLen
    BY <1>8, <2>1, <2>2, Constants
  <2>4. ASSUME NEW j \in 1 .. i - 1
        PROVE  SubAggLen * (j - 1) + SubAggLen <= SubAggLen * (i - 1)
    <3>1. j \in 1 .. NWorker /\ j \in Nat /\ i - 1 \in Nat /\ j <= i - 1
      BY <1>0
    <3>2. SubAggLen * j <= SubAggLen * (i - 1)
      BY <1>8, <3>1, ProductFacts
    <3> QED BY <2>1, <3>1, <3>2
  <2>5. \A j \in 1 .. i : j \in 1 .. NWorker
    BY <1>0
  <2> QED BY <2>1, <2>3, <2>4, <2>5
<1>10. ASSUME NEW i \in 1 .. NWorker
       PROVE  /\ s[i].data + s[i].size <= OpSize(op)
              /\ s[i].agg_addr + s[i].agg_len <= GroupAggAddr + GroupAggLen
              /\ \A j \in 1 .. i - 1 : s[j].agg_addr + s[j].agg_len <= s[i].agg_addr
  <2>1. s[i].data + s[i].size <= OpSize(op)
    BY <1>1, <1>7 DEF size
  <2>2. SubAggLen * (i - 1) \in Nat /\ SubAggLen \in Nat
    BY <1>8, <1>9
  <2>3. s[i].agg_addr + s[i].agg_len <= GroupAggAddr + GroupAggLen
    <3> DEFINE x == SubAggLen * (i - 1)
    <3>1. s[i].agg_addr = GroupAggAddr + x /\ s[i].agg_len = SubAggLen /\ x + SubAggLen <= GroupAggLen
      BY <1>1, <1>9
    <3> HIDE DEF x
    <3> QED BY <2>2, <3>1, Constants DEF x
  <2>4. ASSUME NEW j \in 1 .. i - 1 PROVE s[j].agg_addr + s[j].agg_len <= s[i].agg_addr
    <3> DEFINE x == SubAggLen * (i - 1)
               y == SubAggLen * (j - 1)
    <3>1. j \in 1 .. NWorker /\ j \in 1 .. i
      BY <1>0
    <3>2. y \in Nat /\ x \in Nat /\ y + SubAggLen <= x
      BY <1>9, <2>2, <3>1
    <3>3. s[i].agg_addr = GroupAggAddr + x /\ s[j].agg_addr = GroupAggAddr + y
          /\ s[j].agg_len = SubAggLen
      BY <1>1, <3>1
    <3> HIDE DEF x, y
    <3> QED BY <2>2, <3>2, <3>3, Constants
  <2> QED BY <2>1, <2>3, <2>4
<1>11. \A j \in 1 .. NWorker :
         s[j].data .. s[j].data + s[j].size - 1 = begin(j) .. end(j) - 1
  <2> TAKE j \in 1 .. NWorker
  <2>1. s[j].data = begin(j) /\ s[j].data + s[j].size = end(j)
    BY <1>1
  <2>2. s[j].size \in Nat /\ begin(j) \in Nat /\ end(j) \in Nat
    <3>1. s[j].size = SubSize(size, j - 1) /\ j - 1 \in 0 .. NWorker - 1
      BY <1>0, <1>1
    <3> QED BY <1>0, <1>2, <3>1, Offsets
  <2> QED BY <2>1, <2>2
<1>12. \A b \in 0 .. OpSize(op) - 1 :
         \E i \in 1 .. NWorker :
             /\ b \in s[i].data .. s[i].data + s[i].size - 1
             /\ \A j \in 1 .. NWorker \ {i} :
                 b \notin s[j].data .. s[j].data + s[j].size - 1
  <2> TAKE b \in 0 .. OpSize(op) - 1
  <2>1. PICK i \in 1 .. NWorker : /\ b \in begin(i) .. end(i) - 1
                                  /\ \A j \in 1 .. NWorker \ {i} : b \notin begin(j) .. end(j) - 1
    BY <1>6 DEF size
  <2>2. \A j \in 1 .. NWorker \ {i} : j \in 1 .. NWorker
    OBVIOUS
  <2> QED BY <1>11, <2>1, <2>2, Zenon
<1> QED BY <1>10, <1>12

-----------------------------------------------------------------------------
(* The queues.                                                             *)

LEMMA Types ==
    ASSUME TypeOK
    PROVE  /\ shm_qp.wq \in Seq(Op) /\ shm_qp.cq \in Seq(Op)
           /\ shm_qp.num_in_queue \in 0 .. QUEUE_SIZE
           /\ Len(shm_qp.wq) \in Nat /\ Len(shm_qp.cq) \in Nat /\ Len(collected) \in Nat
           /\ submitted \in Nat /\ Answered \in Nat /\ Popped \in Int
           /\ \A w \in Workers :
                /\ qp[w].wq \in Seq(SubOpType) /\ qp[w].cq \in Seq(SubOpType)
                /\ qp[w].num_in_queue \in 0 .. QUEUE_SIZE
                /\ working[w] \in Seq(SubOpType)
                /\ Len(qp[w].wq) \in Nat /\ Len(qp[w].cq) \in Nat /\ Len(working[w]) \in Nat
                /\ Pushed(w) \in Int
           /\ \A op \in Op : split[op] \in Seq(SubOpType) /\ Len(split[op]) \in Nat
<1>1. /\ shm_qp.wq \in Seq(Op) /\ shm_qp.cq \in Seq(Op)
      /\ shm_qp.num_in_queue \in 0 .. QUEUE_SIZE
      /\ submitted \in Nat /\ collected \in Seq(Op)
  BY Constants DEF TypeOK
<1>2. Len(shm_qp.wq) \in Nat /\ Len(shm_qp.cq) \in Nat /\ Len(collected) \in Nat
  BY <1>1
<1>3. Answered \in Nat /\ Popped \in Int
  BY <1>1, <1>2 DEF Answered, Popped
<1>4. \A w \in Workers :
        /\ qp[w].wq \in Seq(SubOpType) /\ qp[w].cq \in Seq(SubOpType)
        /\ qp[w].num_in_queue \in 0 .. QUEUE_SIZE
        /\ working[w] \in Seq(SubOpType)
  BY DEF TypeOK
<1>5. \A w \in Workers : Pushed(w) \in Int
  BY <1>3 DEF Pushed
<1>6. \A op \in Op : split[op] \in Seq(SubOpType)
  BY DEF TypeOK
<1>7. ASSUME NEW w \in Workers
      PROVE  Len(qp[w].wq) \in Nat /\ Len(qp[w].cq) \in Nat /\ Len(working[w]) \in Nat
  BY <1>4, LenProperties
<1>8. \A op \in Op : Len(split[op]) \in Nat
  BY <1>6, LenProperties
<1> QED BY <1>1, <1>2, <1>3, <1>4, <1>5, <1>6, <1>7, <1>8, ZenonT(30)

(* The numbering of a queue when its head is taken or an element is added. *)
LEMMA FollowsTail ==
    ASSUME NEW s \in Seq(SubOpType), s # <<>>, NEW b \in Int, Follows(s, b)
    PROVE  Head(s).op = b + 1 /\ Follows(Tail(s), b + 1)
<1>1. /\ Head(s) = s[1] /\ Len(s) \in Nat /\ Len(s) >= 1 /\ Len(Tail(s)) = Len(s) - 1
      /\ \A i \in 1 .. Len(Tail(s)) : Tail(s)[i] = s[i + 1] /\ i + 1 \in 1 .. Len(s)
  BY TailFacts
<1>2. Head(s).op = b + 1
  BY <1>1 DEF Follows
<1>3. ASSUME NEW i \in 1 .. Len(Tail(s)) PROVE Tail(s)[i].op = (b + 1) + i
  BY <1>1 DEF Follows
<1> QED BY <1>2, <1>3 DEF Follows

LEMMA FollowsAppend ==
    ASSUME NEW s \in Seq(SubOpType), NEW e \in SubOpType, NEW b \in Int,
           Follows(s, b), e.op = b + Len(s) + 1
    PROVE  Follows(Append(s, e), b)
<1>1. /\ Len(s) \in Nat /\ Len(Append(s, e)) = Len(s) + 1
      /\ \A i \in 1 .. Len(s) : Append(s, e)[i] = s[i]
      /\ Append(s, e)[Len(s) + 1] = e
  BY AppendFacts
<1>2. ASSUME NEW i \in 1 .. Len(Append(s, e)) PROVE Append(s, e)[i].op = b + i
  <2>1. CASE i \in 1 .. Len(s)
    BY <1>1, <2>1 DEF Follows
  <2>2. CASE i = Len(s) + 1
    BY <1>1, <2>2
  <2> QED BY <1>1, <2>1, <2>2
<1> QED BY <1>2 DEF Follows

(* What an action leaves alone.                                            *)
LEMMA WorkerFrame ==
    ASSUME NEW w \in Workers, WorkerInv(w), Answered' = Answered, Pushed(w)' = Pushed(w),
           qp'[w] = qp[w], working'[w] = working[w], finished'[w] = finished[w]
    PROVE  WorkerInv(w)'
BY DEF WorkerInv, InHand, Follows

LEMMA SplitFrame ==
    ASSUME SplitInv, UNCHANGED <<split, posting>>, Popped' = Popped
    PROVE  SplitInv'
BY DEF SplitInv

(* How many operations there are at each stage.                            *)
LEMMA Stages ==
    ASSUME BalanceInv
    PROVE  /\ Answered \in Nat /\ Popped \in Nat /\ submitted \in Nat
           /\ Answered <= Popped /\ Popped <= submitted /\ submitted <= NOps
           /\ Popped = submitted - Len(shm_qp.wq)
           /\ Answered = Len(collected) + Len(shm_qp.cq)
           /\ submitted - Len(collected) <= QUEUE_SIZE
           /\ posting # Idle => posting.op \in Op /\ posting.op = Popped
<1>1. TypeOK /\ ShmInv
  BY DEF BalanceInv
<1>2. /\ Len(shm_qp.wq) \in Nat /\ Len(shm_qp.cq) \in Nat /\ Len(collected) \in Nat
      /\ submitted \in Nat /\ Answered \in Nat /\ Popped \in Int
      /\ shm_qp.num_in_queue \in 0 .. QUEUE_SIZE
  BY <1>1, Types
<1>3. submitted <= NOps /\ NOps \in Nat /\ QUEUE_SIZE \in Nat
  BY <1>1, Constants DEF TypeOK
<1>4. /\ shm_qp.num_in_queue = submitted - Len(collected)
      /\ Answered <= Popped
      /\ posting # Idle => posting.op \in Op /\ posting.op = Popped
  BY <1>1 DEF ShmInv
<1>5. Popped = submitted - Len(shm_qp.wq) /\ Answered = Len(collected) + Len(shm_qp.cq)
  BY DEF Popped, Answered
<1>6. Popped \in Nat
  BY <1>2, <1>4
<1>7. Popped <= submitted
  BY <1>2, <1>5
<1>8. submitted - Len(collected) <= QUEUE_SIZE
  BY <1>2, <1>3, <1>4
<1> QED BY <1>2, <1>3, <1>4, <1>5, <1>6, <1>7, <1>8

(* There is room in the queue of a worker when its part is pushed: what is *)
(* with a worker was submitted and not collected.                          *)
LEMMA RoomAtWorker ==
    ASSUME BalanceInv, posting # Idle
    PROVE  /\ posting.i \in Workers /\ posting.op \in Op
           /\ Pushed(posting.i) = Popped - 1
           /\ qp[posting.i].num_in_queue < QUEUE_SIZE
<1>1. posting.i \in Workers /\ posting.i \in Int
  BY Constants DEF BalanceInv, TypeOK
<1>2. Pushed(posting.i) = Popped - 1
  BY <1>1 DEF Pushed
<1>3. qp[posting.i].num_in_queue = Popped - 1 - Answered
  BY <1>1, <1>2 DEF BalanceInv, WorkerInv
<1>4. Popped - 1 - Answered < QUEUE_SIZE
  <2>1. Len(collected) \in Nat /\ Len(shm_qp.wq) \in Nat /\ Len(shm_qp.cq) \in Nat
    BY Types DEF BalanceInv
  <2> QED BY <2>1, Stages, Constants
<1> QED BY <1>1, <1>2, <1>3, <1>4, Stages

(* What the four operations do to a queue pair.                            *)
QpType(S) == [wq : Seq(S), cq : Seq(S), num_in_queue : 0 .. QUEUE_SIZE]

LEMMA PushReqFacts ==
    ASSUME NEW S, NEW q \in QpType(S), NEW e \in S, q.num_in_queue < QUEUE_SIZE
    PROVE  LET r == PushReq(q, QUEUE_SIZE, e)
           IN  /\ r \in QpType(S) /\ r.wq = Append(q.wq, e) /\ r.cq = q.cq
               /\ r.num_in_queue = q.num_in_queue + 1
<1>1. /\ QUEUE_SIZE \in Nat
      /\ q.wq \in Seq(S) /\ q.cq \in Seq(S) /\ q.num_in_queue \in 0 .. QUEUE_SIZE
  BY Constants DEF QpType
<1>2. Append(q.wq, e) \in Seq(S) /\ q.num_in_queue + 1 \in 0 .. QUEUE_SIZE
  BY <1>1
<1>3. PushReq(q, QUEUE_SIZE, e) = [q EXCEPT !.wq = Append(q.wq, e),
                                            !.num_in_queue = q.num_in_queue + 1]
  BY <1>1 DEF PushReq
<1> DEFINE x == Append(q.wq, e)
           k == q.num_in_queue + 1
<1> HIDE DEF x, k
<1>4. LET r == [q EXCEPT !.wq = x, !.num_in_queue = k]
      IN  r \in QpType(S) /\ r.wq = x /\ r.cq = q.cq /\ r.num_in_queue = k
  BY <1>2 DEF QpType, x, k
<1> QED BY <1>3, <1>4 DEF x, k

LEMMA PopReqFacts ==
    ASSUME NEW S, NEW q \in QpType(S), q.wq # <<>>
    PROVE  LET r == PopReq(q)
           IN  /\ r \in QpType(S) /\ r.wq = Tail(q.wq) /\ r.cq = q.cq
               /\ r.num_in_queue = q.num_in_queue
<1>1. q.wq \in Seq(S)
  BY DEF QpType
<1>2. Tail(q.wq) \in Seq(S)
  BY <1>1, TailFacts
<1> DEFINE x == Tail(q.wq)
<1>3. PopReq(q) = [q EXCEPT !.wq = x]
  BY DEF PopReq
<1> HIDE DEF x
<1>4. LET r == [q EXCEPT !.wq = x]
      IN  r \in QpType(S) /\ r.wq = x /\ r.cq = q.cq /\ r.num_in_queue = q.num_in_queue
  BY <1>2 DEF QpType, x
<1> QED BY <1>3, <1>4 DEF x

LEMMA PushRespFacts ==
    ASSUME NEW S, NEW q \in QpType(S), NEW e \in S
    PROVE  LET r == PushResp(q, e)
           IN  /\ r \in QpType(S) /\ r.wq = q.wq /\ r.cq = Append(q.cq, e)
               /\ r.num_in_queue = q.num_in_queue
<1>1. q.cq \in Seq(S)
  BY DEF QpType
<1>2. Append(q.cq, e) \in Seq(S)
  BY <1>1
<1> DEFINE x == Append(q.cq, e)
<1>3. PushResp(q, e) = [q EXCEPT !.cq = x]
  BY DEF PushResp
<1> HIDE DEF x
<1>4. LET r == [q EXCEPT !.cq = x]
      IN  r \in QpType(S) /\ r.wq = q.wq /\ r.cq = x /\ r.num_in_queue = q.num_in_queue
  BY <1>2 DEF QpType, x
<1> QED BY <1>3, <1>4 DEF x

LEMMA PopRespFacts ==
    ASSUME NEW S, NEW q \in QpType(S), q.cq # <<>>, q.num_in_queue >= 1
    PROVE  LET r == PopResp(q)
           IN  /\ r \in QpType(S) /\ r.wq = q.wq /\ r.cq = Tail(q.cq)
               /\ r.num_in_queue = q.num_in_queue - 1
<1>1. /\ QUEUE_SIZE \in Nat
      /\ q.cq \in Seq(S) /\ q.num_in_queue \in 0 .. QUEUE_SIZE
  BY Constants DEF QpType
<1>2. Tail(q.cq) \in Seq(S) /\ q.num_in_queue - 1 \in 0 .. QUEUE_SIZE
  BY <1>1, TailFacts
<1> DEFINE x == Tail(q.cq)
           k == q.num_in_queue - 1
<1>3. PopResp(q) = [q EXCEPT !.cq = x, !.num_in_queue = k]
  BY DEF PopResp
<1> HIDE DEF x, k
<1>4. LET r == [q EXCEPT !.cq = x, !.num_in_queue = k]
      IN  r \in QpType(S) /\ r.wq = q.wq /\ r.cq = x /\ r.num_in_queue = k
  BY <1>2 DEF QpType, x, k
<1> QED BY <1>3, <1>4 DEF x, k

(* TypeOK with the queue pairs by their type.                              *)
LEMMA TypeParts ==
    TypeOK <=>
        /\ shm_qp \in QpType(Op) /\ qp \in [Workers -> QpType(SubOpType)]
        /\ posting \in [op : Op \cup {0}, i : Workers, offset : Nat]
        /\ working \in [Workers -> Seq(SubOpType)]
        /\ finished \in [Workers -> SUBSET Op]
        /\ split \in [Op -> Seq(SubOpType)]
        /\ submitted \in 0 .. NOps
        /\ collected \in Seq(Op)
BY DEF TypeOK, QpType

-----------------------------------------------------------------------------
(* Each step keeps the invariant.                                          *)

LEMMA SubmitKeeps ==
    ASSUME BalanceInv, Submit
    PROVE  BalanceInv'
<1> DEFINE e == submitted + 1
<1>1. TypeOK /\ ShmInv /\ SplitInv
  BY DEF BalanceInv
<1>2. /\ shm_qp \in QpType(Op) /\ shm_qp.wq \in Seq(Op) /\ Len(shm_qp.wq) \in Nat
      /\ submitted \in Nat /\ e \in Op /\ NOps \in Nat
      /\ shm_qp.num_in_queue < QUEUE_SIZE
  <2>1. shm_qp \in QpType(Op)
    BY <1>1, TypeParts
  <2>2. submitted \in Nat /\ NOps \in Nat /\ submitted < NOps
    BY <1>1, Types, Constants DEF Submit
  <2>3. e \in Op
    BY <2>2 DEF Op
  <2> QED BY <1>1, <2>1, <2>2, <2>3, Types DEF Submit
<1>3. shm_qp' = PushReq(shm_qp, QUEUE_SIZE, e)
  BY DEF Submit
<1>4. /\ Append(shm_qp.wq, e) \in Seq(Op)
      /\ Len(Append(shm_qp.wq, e)) = Len(shm_qp.wq) + 1
      /\ \A n \in 1 .. Len(shm_qp.wq) : Append(shm_qp.wq, e)[n] = shm_qp.wq[n]
      /\ Append(shm_qp.wq, e)[Len(shm_qp.wq) + 1] = e
  BY <1>2, AppendFacts
<1>5. /\ shm_qp'.wq = Append(shm_qp.wq, e)
      /\ shm_qp'.cq = shm_qp.cq
      /\ shm_qp'.num_in_queue = shm_qp.num_in_queue + 1
      /\ shm_qp' \in QpType(Op)
  <2> HIDE DEF e
  <2> DEFINE r == PushReq(shm_qp, QUEUE_SIZE, e)
  <2>1. /\ r \in QpType(Op) /\ r.wq = Append(shm_qp.wq, e) /\ r.cq = shm_qp.cq
        /\ r.num_in_queue = shm_qp.num_in_queue + 1
    BY <1>2, PushReqFacts
  <2> HIDE DEF r
  <2> QED BY <1>3, <2>1 DEF r
<1>6. UNCHANGED <<qp, posting, working, finished, split, collected>> /\ submitted' = e
      /\ submitted < NOps
  BY DEF Submit
<1>7. TypeOK'
  <2>1. submitted' \in 0 .. NOps
    BY <1>2, <1>6
  <2> QED BY <1>1, <1>5, <1>6, <2>1 DEF TypeOK, QpType
<1>8. Popped' = Popped /\ Answered' = Answered
  <2>1. Answered' = Answered
    BY <1>5, <1>6 DEF Answered
  <2>2. Len(shm_qp'.wq) = Len(shm_qp.wq) + 1 /\ submitted' = submitted + 1
    BY <1>4, <1>5, <1>6
  <2> QED BY <1>2, <2>1, <2>2 DEF Popped
<1>9. ShmInv'
  <2>1. shm_qp'.num_in_queue = submitted' - Len(collected')
    BY <1>1, <1>5, <1>6, Types DEF ShmInv
  <2>2. ASSUME NEW n \in 1 .. Len(shm_qp'.wq) PROVE shm_qp'.wq[n] = Popped' + n
    <3>1. Len(shm_qp.wq) \in Nat
      BY <1>1, Types
    <3>2. CASE n \in 1 .. Len(shm_qp.wq)
      BY <1>1, <1>4, <1>5, <1>8, <3>2 DEF ShmInv
    <3>3. CASE n = Len(shm_qp.wq) + 1
      BY <1>2, <1>4, <1>5, <1>8, <3>1, <3>3 DEF Popped
    <3> QED BY <1>4, <1>5, <3>1, <3>2, <3>3
  <2> QED BY <1>1, <1>5, <1>6, <1>8, <2>1, <2>2 DEF ShmInv
<1>10. \A w \in Workers : WorkerInv(w)'
  <2> TAKE w \in Workers
  <2>1. Pushed(w)' = Pushed(w)
    BY <1>6, <1>8 DEF Pushed
  <2> QED BY <1>6, <1>8, <2>1, WorkerFrame DEF BalanceInv
<1>11. SplitInv'
  BY <1>1, <1>6, <1>8, SplitFrame
<1> QED BY <1>7, <1>9, <1>10, <1>11 DEF BalanceInv

LEMMA CollectKeeps ==
    ASSUME BalanceInv, Collect
    PROVE  BalanceInv'
<1> DEFINE c == shm_qp.cq
<1>1. TypeOK /\ ShmInv /\ SplitInv
  BY DEF BalanceInv
<1>2. /\ shm_qp \in QpType(Op)
      /\ c \in Seq(Op) /\ c # <<>> /\ collected \in Seq(Op)
  BY <1>1, TypeParts DEF QpType, Collect
<1>3. shm_qp' = PopResp(shm_qp)
  BY DEF Collect
<1>4. /\ Head(c) \in Op /\ Head(c) = c[1] /\ Tail(c) \in Seq(Op)
      /\ Len(c) \in Nat /\ Len(c) >= 1 /\ Len(Tail(c)) = Len(c) - 1
      /\ \A i \in 1 .. Len(Tail(c)) : Tail(c)[i] = c[i + 1] /\ i + 1 \in 1 .. Len(c)
  <2> HIDE DEF c
  <2> QED BY <1>2, TailFacts
<1>5. shm_qp.num_in_queue >= 1
  <2>1. /\ Len(collected) \in Nat /\ Len(shm_qp.wq) \in Nat
        /\ shm_qp.num_in_queue = submitted - Len(collected)
    BY <1>1, Types DEF ShmInv
  <2> QED BY <1>4, <2>1, Stages
<1>6. /\ shm_qp'.wq = shm_qp.wq
      /\ shm_qp'.cq = Tail(c)
      /\ shm_qp'.num_in_queue = shm_qp.num_in_queue - 1
      /\ shm_qp' \in QpType(Op)
  BY <1>2, <1>3, <1>5, PopRespFacts
<1>7. /\ UNCHANGED <<qp, posting, working, finished, split, submitted>>
      /\ collected' = Append(collected, Head(c))
  BY DEF Collect
<1>8. /\ collected' \in Seq(Op) /\ Len(collected) \in Nat
      /\ Len(collected') = Len(collected) + 1
      /\ \A n \in 1 .. Len(collected) : collected'[n] = collected[n]
      /\ collected'[Len(collected) + 1] = Head(c)
  <2> HIDE DEF c
  <2> QED BY <1>2, <1>4, <1>7, AppendFacts
<1>9. TypeOK'
  BY <1>1, <1>6, <1>7, <1>8 DEF TypeOK, QpType
<1>10. Popped' = Popped /\ Answered' = Answered
  <2>1. Popped' = Popped
    BY <1>6, <1>7 DEF Popped
  <2>2. Len(shm_qp'.cq) = Len(c) - 1
    BY <1>4, <1>6
  <2>3. Len(collected) + 1 + (Len(c) - 1) = Len(collected) + Len(c)
    <3>1. Len(c) \in Nat /\ Len(collected) \in Nat
      BY <1>4, <1>8
    <3> HIDE DEF c
    <3> QED BY <3>1
  <2> QED BY <1>8, <2>1, <2>2, <2>3 DEF Answered
<1>11. ShmInv'
  <2>1. shm_qp'.num_in_queue = submitted' - Len(collected')
    BY <1>1, <1>6, <1>7, <1>8, Types DEF ShmInv
  <2>2. Head(c) = Len(collected) + 1
    <3>1. 1 \in 1 .. Len(c)
      BY <1>4
    <3> QED BY <1>1, <1>4, <3>1 DEF ShmInv
  <2>3. ASSUME NEW n \in 1 .. Len(collected') PROVE collected'[n] = n
    <3>1. CASE n \in 1 .. Len(collected)
      BY <1>1, <1>8, <3>1 DEF ShmInv
    <3>2. CASE n = Len(collected) + 1
      BY <1>8, <2>2, <3>2
    <3> QED BY <1>8, <3>1, <3>2
  <2>4. ASSUME NEW n \in 1 .. Len(shm_qp'.cq) PROVE shm_qp'.cq[n] = Len(collected') + n
    <3>1. Tail(c)[n] = c[n + 1] /\ n + 1 \in 1 .. Len(c) /\ n \in Nat
      BY <1>4, <1>6
    <3>2. c[n + 1] = Len(collected) + (n + 1)
      BY <1>1, <3>1 DEF ShmInv
    <3> QED BY <1>6, <1>8, <3>1, <3>2
  <2> QED BY <1>1, <1>6, <1>7, <1>10, <2>1, <2>3, <2>4 DEF ShmInv
<1>12. \A w \in Workers : WorkerInv(w)'
  <2> TAKE w \in Workers
  <2>1. Pushed(w)' = Pushed(w)
    BY <1>7, <1>10 DEF Pushed
  <2> QED BY <1>7, <1>10, <2>1, WorkerFrame DEF BalanceInv
<1>13. SplitInv'
  BY <1>1, <1>7, <1>10, SplitFrame
<1> QED BY <1>9, <1>11, <1>12, <1>13 DEF BalanceInv

LEMMA TryPostOpKeeps ==
    ASSUME BalanceInv, TryPostOp
    PROVE  BalanceInv'
<1> DEFINE c == shm_qp.wq
           h == Head(c)
<1>1. TypeOK /\ ShmInv /\ SplitInv
  BY DEF BalanceInv
<1>2. shm_qp \in QpType(Op) /\ c \in Seq(Op) /\ c # <<>>
  BY <1>1, TypeParts, Types DEF TryPostOp
<1>3. /\ h \in Op /\ h = c[1] /\ Tail(c) \in Seq(Op)
      /\ Len(c) \in Nat /\ Len(c) >= 1 /\ Len(Tail(c)) = Len(c) - 1
      /\ \A i \in 1 .. Len(Tail(c)) : Tail(c)[i] = c[i + 1] /\ i + 1 \in 1 .. Len(c)
  <2> HIDE DEF c
  <2> QED BY <1>2, TailFacts
<1>4. /\ shm_qp'.wq = Tail(c) /\ shm_qp'.cq = shm_qp.cq
      /\ shm_qp'.num_in_queue = shm_qp.num_in_queue
      /\ shm_qp' \in QpType(Op)
  <2>1. shm_qp' = PopReq(shm_qp)
    BY DEF TryPostOp
  <2> QED BY <1>2, <2>1, PopReqFacts
<1>5. /\ UNCHANGED <<qp, working, finished, split, submitted, collected>>
      /\ posting = Idle /\ posting' = [op |-> h, i |-> 0, offset |-> 0]
  BY DEF TryPostOp
<1>6. posting'.op = h /\ posting'.i = 0 /\ posting'.offset = 0 /\ posting' # Idle /\ posting.op = 0
  <2>1. h # 0
    BY <1>3, Constants
  <2> HIDE DEF h
  <2> QED BY <1>5, <2>1 DEF Idle
<1>7. TypeOK'
  <2>1. posting' \in [op : Op \cup {0}, i : Workers, offset : Nat]
    <3> HIDE DEF h
    <3> QED BY <1>3, <1>5, Constants
  <2> QED BY <1>1, <1>4, <1>5, <2>1 DEF TypeOK, QpType
<1>8. Answered' = Answered /\ Popped' = Popped + 1 /\ h = Popped + 1
  <2>1. Answered' = Answered
    BY <1>4, <1>5 DEF Answered
  <2>2. Popped' = submitted - (Len(c) - 1) /\ submitted \in Nat /\ Len(c) \in Nat
    BY <1>1, <1>3, <1>4, <1>5, Types DEF Popped
  <2>3. Popped' = Popped + 1
    <3>1. Popped = submitted - Len(c)
      BY DEF Popped
    <3> HIDE DEF c
    <3> QED BY <2>2, <3>1
  <2>4. 1 \in 1 .. Len(c)
    BY <1>3
  <2>5. h = Popped + 1
    BY <1>1, <1>3, <2>4 DEF ShmInv
  <2> QED BY <2>1, <2>3, <2>5
<1>9. Popped \in Nat /\ Answered \in Nat /\ Answered <= Popped
  BY Stages
<1>10. ShmInv'
  <2>1. ASSUME NEW n \in 1 .. Len(shm_qp'.wq) PROVE shm_qp'.wq[n] = Popped' + n
    <3>1. Tail(c)[n] = c[n + 1] /\ n + 1 \in 1 .. Len(c) /\ n \in Nat
      BY <1>3, <1>4
    <3>2. c[n + 1] = Popped + (n + 1)
      BY <1>1, <3>1 DEF ShmInv
    <3> QED BY <1>4, <1>8, <1>9, <3>1, <3>2
  <2>2. Answered' <= Popped'
    BY <1>8, <1>9
  <2>3. posting'.op \in Op /\ posting'.op = Popped'
    BY <1>3, <1>6, <1>8
  <2> QED BY <1>1, <1>4, <1>5, <2>1, <2>2, <2>3 DEF ShmInv
<1>11. \A w \in Workers : WorkerInv(w)'
  <2> TAKE w \in Workers
  <2>1. w \in Nat
    BY Constants
  <2>2. Pushed(w)' = Pushed(w)
    BY <1>5, <1>6, <1>8, <1>9, <2>1 DEF Pushed
  <2> QED BY <1>5, <1>8, <2>2, WorkerFrame DEF BalanceInv
<1>12. SplitInv'
  <2>1. posting'.offset = OffsetOf(OpSize(posting'.op), posting'.i)
    <3> HIDE DEF h
    <3>1. OpSize(h) \in Nat
      BY <1>3, Constants
    <3>2. OffsetOf(OpSize(h), 0) = 0
      BY <3>1, Offsets
    <3> QED BY <1>6, <3>2
  <2>2. ASSUME NEW op \in Op
        PROVE  Len(split'[op]) = IF op > Popped' THEN 0
                                 ELSE IF op = posting'.op THEN posting'.i
                                 ELSE NWorker
    <3>1. Len(split[op]) = IF op > Popped THEN 0
                           ELSE IF op = posting.op THEN posting.i ELSE NWorker
      BY <1>1 DEF SplitInv
    <3>2. op \in Nat /\ op # 0
      BY Constants
    <3>3. posting'.op = Popped + 1 /\ Popped' = Popped + 1 /\ op # posting.op
          /\ posting'.i = 0
      BY <1>6, <1>8, <3>2
    <3>4. Len(split'[op]) = IF op > Popped THEN 0 ELSE NWorker
      BY <1>5, <3>1, <3>3
    <3>5. CASE op > Popped + 1
      BY <1>9, <3>2, <3>3, <3>4, <3>5
    <3>6. CASE op = Popped + 1
      BY <1>9, <3>3, <3>4, <3>6
    <3>7. CASE op <= Popped
      <4>1. ~(op > Popped) /\ ~(op > Popped + 1) /\ op # Popped + 1
        BY <1>9, <3>2, <3>7
      <4> QED BY <3>3, <3>4, <4>1
    <3> QED BY <1>9, <3>2, <3>5, <3>6, <3>7
  <2> QED BY <1>1, <1>5, <2>1, <2>2 DEF SplitInv
<1> QED BY <1>7, <1>10, <1>11, <1>12 DEF BalanceInv

LEMMA PostSubOpKeeps ==
    ASSUME BalanceInv, PostSubOp
    PROVE  BalanceInv'
<1> DEFINE i == posting.i
           sub == NewSubOp(posting.op, i, posting.offset)
<1>1. TypeOK /\ ShmInv /\ SplitInv
  BY DEF BalanceInv
<1>2. posting # Idle
  BY DEF PostSubOp
<1>3. /\ i \in Workers /\ i \in Nat /\ i < NWorker /\ posting.op \in Op
      /\ posting.op = Popped
      /\ Pushed(i) = Popped - 1 /\ qp[i].num_in_queue < QUEUE_SIZE
      /\ posting.offset \in Nat
  <2>1. posting.offset \in Nat
    BY <1>1 DEF TypeOK
  <2> QED BY <1>2, <2>1, RoomAtWorker, Stages, Constants
<1>4. sub \in SubOpType /\ sub.op = posting.op
      /\ sub.size = SubSize(OpSize(posting.op), i)
  BY <1>3, SubOpTyped DEF NewSubOp
<1>5. /\ qp' = [qp EXCEPT ![i] = PushReq(qp[i], QUEUE_SIZE, sub)]
      /\ split' = [split EXCEPT ![posting.op] = Append(split[posting.op], sub)]
      /\ posting' = IF LastRound(i) THEN Idle
                    ELSE [posting EXCEPT !.i = i + 1, !.offset = posting.offset + sub.size]
      /\ UNCHANGED <<shm_qp, working, finished, submitted, collected>>
  BY DEF PostSubOp
<1> HIDE DEF sub
<1>6. LastRound(i) <=> i = NWorker - 1
  BY <1>3, Constants DEF LastRound
<1>7. /\ i = NWorker - 1 => posting' = Idle
      /\ i # NWorker - 1 => /\ posting' \in [op : Op \cup {0}, i : Workers, offset : Nat]
                            /\ posting'.op = posting.op /\ posting'.i = i + 1
                            /\ posting'.offset = posting.offset + sub.size
                            /\ i + 1 < NWorker /\ posting' # Idle
  <2>1. CASE i # NWorker - 1
    <3> DEFINE o == posting.offset + sub.size
               k == i + 1
    <3>1. o \in Nat
      BY <1>3, <1>4 DEF SubOpType
    <3>2. k \in Workers /\ k < NWorker /\ k # 0
      BY <1>3, <2>1, Constants DEF Workers
    <3>3. posting' = [posting EXCEPT !.i = k, !.offset = o]
      BY <1>5, <1>6, <2>1
    <3> HIDE DEF o, k
    <3>4. posting' \in [op : Op \cup {0}, i : Workers, offset : Nat]
          /\ posting'.op = posting.op /\ posting'.i = k /\ posting'.offset = o
      BY <1>1, <3>1, <3>2, <3>3 DEF TypeOK
    <3>5. posting' # Idle
      BY <3>2, <3>4 DEF Idle
    <3> QED BY <2>1, <3>2, <3>4, <3>5 DEF o, k
  <2> QED BY <1>5, <1>6, <2>1
<1>8. /\ qp \in [Workers -> QpType(SubOpType)] /\ qp[i] \in QpType(SubOpType)
      /\ qp[i].wq \in Seq(SubOpType)
      /\ working \in [Workers -> Seq(SubOpType)] /\ split \in [Op -> Seq(SubOpType)]
  BY <1>1, <1>3, TypeParts, Types
<1>9. /\ qp'[i].wq = Append(qp[i].wq, sub) /\ qp'[i].cq = qp[i].cq
      /\ qp'[i].num_in_queue = qp[i].num_in_queue + 1
      /\ qp' \in [Workers -> QpType(SubOpType)]
      /\ \A w \in Workers : w # i => qp'[w] = qp[w]
  <2> DEFINE r == PushReq(qp[i], QUEUE_SIZE, sub)
  <2>1. /\ r \in QpType(SubOpType) /\ r.wq = Append(qp[i].wq, sub) /\ r.cq = qp[i].cq
        /\ r.num_in_queue = qp[i].num_in_queue + 1
    BY <1>3, <1>4, <1>8, PushReqFacts
  <2>2. qp' = [qp EXCEPT ![i] = r]
    BY <1>5
  <2> HIDE DEF r
  <2>3. qp'[i] = r
    BY <1>3, <1>8, <2>2
  <2> QED BY <1>3, <1>8, <2>1, <2>2, <2>3
<1>10. /\ split' \in [Op -> Seq(SubOpType)]
       /\ split'[posting.op] = Append(split[posting.op], sub)
       /\ \A op \in Op : op # posting.op => split'[op] = split[op]
  <2>1. Append(split[posting.op], sub) \in Seq(SubOpType)
    BY <1>3, <1>4, <1>8
  <2> QED BY <1>3, <1>5, <1>8, <2>1
<1>11. TypeOK'
  <2>1. posting' \in [op : Op \cup {0}, i : Workers, offset : Nat]
    BY <1>7, Constants DEF Idle
  <2> QED BY <1>1, <1>5, <1>9, <1>10, <2>1 DEF TypeOK, QpType
<1>12. Answered' = Answered /\ Popped' = Popped
  BY <1>5 DEF Answered, Popped
<1>13. ShmInv'
  <2>1. posting' # Idle => posting'.op \in Op /\ posting'.op = Popped'
    BY <1>3, <1>7, <1>12
  <2>2. /\ shm_qp' = shm_qp /\ collected' = collected /\ submitted' = submitted
    BY <1>5
  <2> QED BY <1>1, <1>12, <2>1, <2>2 DEF ShmInv
<1>14. ASSUME NEW w \in Workers PROVE WorkerInv(w)'
  <2>0. w \in Nat /\ w < NWorker /\ NWorker \in Nat
    BY Constants
  <2>1. CASE w # i
    <3>1. Pushed(w)' = Pushed(w)
      <4>1. CASE i = NWorker - 1
        BY <1>2, <1>3, <1>7, <1>12, <2>0, <2>1, <4>1 DEF Pushed
      <4>2. CASE i # NWorker - 1
        BY <1>2, <1>3, <1>7, <1>12, <2>0, <2>1, <4>2 DEF Pushed
      <4> QED BY <4>1, <4>2
    <3>2. qp'[w] = qp[w] /\ working'[w] = working[w] /\ finished'[w] = finished[w]
      BY <1>5, <1>9, <2>1
    <3> QED BY <1>12, <3>1, <3>2, WorkerFrame DEF BalanceInv
  <2>2. CASE w = i
    <3>1. Pushed(w)' = Popped
      BY <1>3, <1>7, <1>12, <2>2 DEF Pushed
    <3>2. WorkerInv(i)
      BY <1>3 DEF BalanceInv
    <3>3. /\ Len(qp[i].cq) \in Nat /\ Len(working[i]) \in Nat /\ Len(qp[i].wq) \in Nat
          /\ qp[i].num_in_queue \in Nat /\ Popped \in Nat /\ Answered \in Nat
      <4>1. qp[i].num_in_queue \in 0 .. QUEUE_SIZE /\ QUEUE_SIZE \in Nat
        BY <1>1, <1>3, Types, Constants
      <4>2. Popped \in Nat /\ Answered \in Nat
        BY Stages
      <4>3. Len(qp[i].cq) \in Nat /\ Len(working[i]) \in Nat /\ Len(qp[i].wq) \in Nat
        BY <1>1, <1>3, Types
      <4>4. qp[i].num_in_queue \in Nat
        BY <4>1
      <4> QED BY <4>2, <4>3, <4>4
    <3>4. /\ Len(qp[i].cq) + Len(working[i]) + Len(qp[i].wq) = Popped - 1 - Answered
          /\ qp[i].num_in_queue = Popped - 1 - Answered
      BY <1>3, <3>2 DEF WorkerInv, InHand
    <3> DEFINE x == Len(qp[i].cq)
               y == Len(working[i])
               z == Len(qp[i].wq)
               b == Answered + x + y
    <3>5. b \in Int /\ sub.op = b + z + 1
      <4>1. sub.op = Popped /\ x + y + z = Popped - 1 - Answered
        BY <1>3, <1>4, <3>4
      <4>2. x \in Nat /\ y \in Nat /\ z \in Nat /\ Popped \in Nat /\ Answered \in Nat
        BY <3>3
      <4> HIDE DEF x, y, z
      <4> QED BY <4>1, <4>2
    <3>6. Follows(qp[i].wq, b)
      BY <3>2 DEF WorkerInv
    <3>7. Follows(Append(qp[i].wq, sub), b) /\ Len(Append(qp[i].wq, sub)) = z + 1
      <4> HIDE DEF b
      <4>1. Follows(Append(qp[i].wq, sub), b)
        BY <1>4, <1>8, <3>5, <3>6, FollowsAppend
      <4>2. Len(Append(qp[i].wq, sub)) = z + 1
        BY <1>4, <1>8, AppendFacts
      <4> QED BY <4>1, <4>2
    <3>8. InHand(w)' = Popped - Answered /\ qp'[w].num_in_queue = Popped - Answered
      <4>1. InHand(w)' = Len(qp'[w].cq) + Len(working'[w]) + Len(qp'[w].wq)
        BY DEF InHand
      <4>2. /\ InHand(w)' = x + y + (z + 1) /\ x + y + z = Popped - 1 - Answered
            /\ qp'[w].num_in_queue = qp[i].num_in_queue + 1
        BY <1>5, <1>9, <2>2, <3>4, <3>7, <4>1
      <4>3. x \in Nat /\ y \in Nat /\ z \in Nat /\ Popped \in Nat /\ Answered \in Nat
        BY <3>3
      <4> HIDE DEF x, y, z
      <4> QED BY <3>4, <4>2, <4>3
    <3>9. InHand(w)' = Pushed(w)' - Answered' /\ qp'[w].num_in_queue = Pushed(w)' - Answered'
      BY <1>12, <3>1, <3>8
    <3>10. /\ Follows(qp'[w].cq, Answered')
           /\ Follows(working'[w], Answered' + Len(qp'[w].cq))
           /\ 1 .. Answered' + Len(qp'[w].cq) \subseteq finished'[w]
      BY <1>5, <1>9, <1>12, <2>2, <3>2 DEF WorkerInv
    <3>11. Follows(qp'[w].wq, Answered' + Len(qp'[w].cq) + Len(working'[w]))
      BY <1>5, <1>9, <1>12, <2>2, <3>7
    <3> QED BY <3>9, <3>10, <3>11 DEF WorkerInv, Follows
  <2> QED BY <2>1, <2>2
<1>15. SplitInv'
  <2> DEFINE size == OpSize(posting.op)
             s == split[posting.op]
  <2>1. posting.offset = OffsetOf(size, i) /\ size \in Nat
    BY <1>1, <1>2, <1>3, Constants DEF SplitInv
  <2>2. posting' # Idle => posting'.offset = OffsetOf(OpSize(posting'.op), posting'.i)
    <3> SUFFICES ASSUME posting' # Idle
                 PROVE  posting'.offset = OffsetOf(size, i + 1)
      BY <1>7
    <3>1. i \in 0 .. NWorker - 1 /\ i < NWorker - 1
      BY <1>3, <1>7, Constants
    <3>2. OffsetOf(size, i) + SubSize(size, i) = OffsetOf(size, i + 1)
      BY <2>1, <3>1, Offsets
    <3> QED BY <1>4, <1>7, <2>1, <3>2
  <2>3. /\ s \in Seq(SubOpType) /\ Len(s) = i
        /\ \A j \in 1 .. Len(s) : s[j] = NewSubOp(posting.op, j - 1, OffsetOf(size, j - 1))
    <3>1. ~(posting.op > Popped)
      BY <1>3, Stages
    <3> QED BY <1>1, <1>3, <1>8, <3>1 DEF SplitInv
  <2>4. ASSUME NEW op \in Op, op # posting.op
        PROVE  /\ Len(split'[op]) = IF op > Popped' THEN 0
                                    ELSE IF op = posting'.op THEN posting'.i
                                    ELSE NWorker
               /\ \A j \in 1 .. Len(split'[op]) :
                    split'[op][j] = NewSubOp(op, j - 1, OffsetOf(OpSize(op), j - 1))
    <3>1. op # posting'.op
      BY <1>7, <2>4, Constants DEF Idle
    <3>2. split'[op] = split[op]
      BY <1>10, <2>4
    <3> QED BY <1>1, <1>12, <2>4, <3>1, <3>2 DEF SplitInv
  <2>5. /\ Len(split'[posting.op]) = i + 1
        /\ \A j \in 1 .. Len(split'[posting.op]) :
              split'[posting.op][j] = NewSubOp(posting.op, j - 1, OffsetOf(size, j - 1))
    <3>1. /\ Len(Append(s, sub)) = i + 1
          /\ \A j \in 1 .. Len(s) : Append(s, sub)[j] = s[j]
          /\ Append(s, sub)[Len(s) + 1] = sub
      <4> HIDE DEF s
      <4> QED BY <1>4, <2>3, AppendFacts
    <3>2. ASSUME NEW j \in 1 .. i + 1
          PROVE  Append(s, sub)[j] = NewSubOp(posting.op, j - 1, OffsetOf(size, j - 1))
      <4>1. CASE j \in 1 .. i
        BY <2>3, <3>1, <4>1
      <4>2. CASE j = i + 1
        <5>1. j - 1 = i
          BY <1>3, <4>2
        <5> QED BY <2>1, <2>3, <3>1, <4>2, <5>1 DEF sub
      <4>3. \A k \in Nat : j \in 1 .. k + 1 => j \in 1 .. k \/ j = k + 1
        OBVIOUS
      <4> QED BY <1>3, <4>1, <4>2, <4>3
    <3> QED BY <1>10, <3>1, <3>2
  <2>6. Len(split'[posting.op]) = IF posting.op > Popped' THEN 0
                                  ELSE IF posting.op = posting'.op THEN posting'.i
                                  ELSE NWorker
    <3>1. ~(posting.op > Popped') /\ posting.op # 0
      <4>1. posting.op = Popped /\ Popped' = Popped /\ Popped \in Nat /\ posting.op \in Op
        BY <1>3, <1>12, Stages
      <4>2. posting.op # 0
        BY <4>1 DEF Op
      <4> QED BY <4>1, <4>2
    <3>2. i = NWorker - 1 => i + 1 = NWorker /\ posting.op # posting'.op
      BY <1>3, <1>7, <3>1, Constants DEF Idle
    <3> QED BY <1>7, <2>5, <3>1, <3>2
  <2>7. ASSUME NEW op \in Op
        PROVE  /\ Len(split'[op]) = IF op > Popped' THEN 0
                                    ELSE IF op = posting'.op THEN posting'.i
                                    ELSE NWorker
               /\ \A j \in 1 .. Len(split'[op]) :
                    split'[op][j] = NewSubOp(op, j - 1, OffsetOf(OpSize(op), j - 1))
    BY <2>4, <2>5, <2>6
  <2> QED BY <2>2, <2>7 DEF SplitInv
<1> QED BY <1>11, <1>13, <1>14, <1>15 DEF BalanceInv

LEMMA TryCompleteOpKeeps ==
    ASSUME BalanceInv, TryCompleteOp
    PROVE  BalanceInv'
<1> DEFINE h == Head(qp[NWorker - 1].cq).op
<1>1. TypeOK /\ ShmInv /\ SplitInv
  BY DEF BalanceInv
<1>2. shm_qp \in QpType(Op) /\ qp \in [Workers -> QpType(SubOpType)]
      /\ shm_qp.cq \in Seq(Op) /\ Len(shm_qp.cq) \in Nat /\ Len(collected) \in Nat
  BY <1>1, TypeParts, Types
<1>3. Popped \in Nat /\ Answered \in Nat /\ submitted \in Nat /\ Popped <= submitted
      /\ Answered = Len(collected) + Len(shm_qp.cq)
      /\ submitted <= NOps /\ NOps \in Nat
  BY Stages, Constants
<1>4. /\ UNCHANGED <<posting, working, finished, split, submitted, collected>>
      /\ posting = Idle
      /\ shm_qp' = PushResp(shm_qp, h)
      /\ qp' = [w \in Workers |-> PopResp(qp[w])]
      /\ \A w \in Workers : qp[w].cq # <<>>
  BY DEF TryCompleteOp, AllAnswered
<1>5. ASSUME NEW w \in Workers
      PROVE  /\ Pushed(w) = Popped /\ Len(qp[w].cq) >= 1
             /\ Popped >= Answered + 1 /\ qp[w].num_in_queue >= 1
             /\ Head(qp[w].cq).op = Answered + 1
             /\ Follows(Tail(qp[w].cq), Answered + 1)
             /\ Len(Tail(qp[w].cq)) = Len(qp[w].cq) - 1
  <2>1. /\ qp[w].cq \in Seq(SubOpType) /\ qp[w].cq # <<>>
        /\ Len(qp[w].wq) \in Nat /\ Len(working[w]) \in Nat
    BY <1>1, <1>4, Types
  <2>2. Pushed(w) = Popped
    BY <1>4 DEF Pushed
  <2>3. /\ Len(qp[w].cq) + Len(working[w]) + Len(qp[w].wq) = Popped - Answered
        /\ qp[w].num_in_queue = Popped - Answered
        /\ Follows(qp[w].cq, Answered)
    BY <2>2 DEF BalanceInv, WorkerInv, InHand
  <2>4. Len(qp[w].cq) \in Nat /\ Len(qp[w].cq) >= 1
        /\ Len(Tail(qp[w].cq)) = Len(qp[w].cq) - 1
    BY <2>1, TailFacts
  <2>5. Popped >= Answered + 1 /\ qp[w].num_in_queue >= 1
    <3> DEFINE x == Len(qp[w].cq)
               y == Len(working[w])
               z == Len(qp[w].wq)
    <3>1. x \in Nat /\ x >= 1 /\ y \in Nat /\ z \in Nat /\ x + y + z = Popped - Answered
      BY <2>1, <2>3, <2>4
    <3> HIDE DEF x, y, z
    <3>2. Popped - Answered >= 1
      <4>1. Popped \in Nat /\ Answered \in Nat
        BY <1>3
      <4> QED BY <3>1, <4>1
    <3> QED BY <1>3, <2>3, <3>2
  <2>6. Answered \in Int
    BY <1>3
  <2>7. Head(qp[w].cq).op = Answered + 1 /\ Follows(Tail(qp[w].cq), Answered + 1)
    BY <2>1, <2>3, <2>6, FollowsTail
  <2> QED BY <2>2, <2>4, <2>5, <2>7
<1>6. h = Answered + 1 /\ h \in Op /\ Popped >= Answered + 1
  <2>1. h = Answered + 1 /\ Popped >= Answered + 1
    BY <1>5, Constants
  <2>2. Answered + 1 \in Op
    BY <1>3, <2>1 DEF Op
  <2> QED BY <2>1, <2>2
<1> HIDE DEF h
<1>7. /\ shm_qp' \in QpType(Op) /\ shm_qp'.wq = shm_qp.wq
      /\ shm_qp'.cq = Append(shm_qp.cq, h)
      /\ shm_qp'.num_in_queue = shm_qp.num_in_queue
  BY <1>2, <1>4, <1>6, PushRespFacts
<1>8. /\ Len(Append(shm_qp.cq, h)) = Len(shm_qp.cq) + 1
      /\ \A n \in 1 .. Len(shm_qp.cq) : Append(shm_qp.cq, h)[n] = shm_qp.cq[n]
      /\ Append(shm_qp.cq, h)[Len(shm_qp.cq) + 1] = h
  BY <1>2, <1>6, AppendFacts
<1>9. /\ qp' \in [Workers -> QpType(SubOpType)]
      /\ \A w \in Workers : /\ qp'[w].wq = qp[w].wq /\ qp'[w].cq = Tail(qp[w].cq)
                            /\ qp'[w].num_in_queue = qp[w].num_in_queue - 1
  <2>1. ASSUME NEW w \in Workers
        PROVE  LET r == PopResp(qp[w])
               IN  /\ r \in QpType(SubOpType) /\ r.wq = qp[w].wq /\ r.cq = Tail(qp[w].cq)
                   /\ r.num_in_queue = qp[w].num_in_queue - 1
    <3>1. qp[w] \in QpType(SubOpType) /\ qp[w].cq # <<>> /\ qp[w].num_in_queue >= 1
      BY <1>2, <1>4, <1>5
    <3> QED BY <3>1, PopRespFacts
  <2> QED BY <1>4, <2>1
<1>10. TypeOK'
  BY <1>1, <1>4, <1>7, <1>9 DEF TypeOK, QpType
<1>11. Popped' = Popped /\ Answered' = Answered + 1
  <2>1. Popped' = Popped
    BY <1>4, <1>7 DEF Popped
  <2>2. Answered' = Len(collected) + (Len(shm_qp.cq) + 1)
    BY <1>4, <1>7, <1>8 DEF Answered
  <2> QED BY <1>2, <1>3, <2>1, <2>2
<1>12. ShmInv'
  <2>1. ASSUME NEW n \in 1 .. Len(shm_qp'.cq) PROVE shm_qp'.cq[n] = Len(collected) + n
    <3>1. CASE n \in 1 .. Len(shm_qp.cq)
      BY <1>1, <1>7, <1>8, <3>1 DEF ShmInv
    <3>2. CASE n = Len(shm_qp.cq) + 1
      BY <1>2, <1>3, <1>6, <1>7, <1>8, <3>2
    <3> QED BY <1>2, <1>7, <1>8, <3>1, <3>2
  <2>2. Answered' <= Popped'
    BY <1>6, <1>11
  <2> QED BY <1>1, <1>4, <1>7, <1>11, <2>1, <2>2 DEF ShmInv
<1>13. ASSUME NEW w \in Workers PROVE WorkerInv(w)'
  <2> DEFINE x == Len(qp[w].cq)
             y == Len(working[w])
             z == Len(qp[w].wq)
  <2>1. x \in Nat /\ y \in Nat /\ z \in Nat
    BY <1>1, Types
  <2>2. WorkerInv(w)
    BY DEF BalanceInv
  <2>3. Pushed(w) = Popped /\ Pushed(w)' = Popped
    BY <1>4, <1>5, <1>11 DEF Pushed
  <2>4. x + y + z = Popped - Answered /\ qp[w].num_in_queue = Popped - Answered
    BY <2>2, <2>3 DEF WorkerInv, InHand
  <2>5. InHand(w)' = (x - 1) + y + z /\ qp'[w].num_in_queue = Popped - Answered - 1
    BY <1>4, <1>5, <1>9, <2>4 DEF InHand
  <2>6. Len(qp'[w].cq) = x - 1
    BY <1>5, <1>9
  <2>7. Answered' + Len(qp'[w].cq) = Answered + x
    <3> HIDE DEF x
    <3> QED BY <1>3, <1>11, <2>1, <2>6
  <2>8. InHand(w)' = Pushed(w)' - Answered' /\ qp'[w].num_in_queue = Pushed(w)' - Answered'
    <3> HIDE DEF x, y, z
    <3>1. (x - 1) + y + z = Popped - Answered - 1
      <4>1. Popped \in Nat /\ Answered \in Nat
        BY <1>3
      <4>2. x + y + z = Popped - Answered
        BY <2>4
      <4> QED BY <2>1, <4>1, <4>2
    <3>2. Popped - Answered - 1 = Popped - (Answered + 1)
      BY <1>3
    <3> QED BY <1>11, <2>3, <2>5, <3>1, <3>2
  <2>9. Follows(qp'[w].cq, Answered')
    BY <1>5, <1>9, <1>11
  <2>10. /\ Follows(working'[w], Answered' + Len(qp'[w].cq))
         /\ Follows(qp'[w].wq, Answered' + Len(qp'[w].cq) + Len(working'[w]))
         /\ 1 .. Answered' + Len(qp'[w].cq) \subseteq finished'[w]
    BY <1>4, <1>9, <2>2, <2>7 DEF WorkerInv
  <2> QED BY <2>8, <2>9, <2>10 DEF WorkerInv, Follows
<1>14. SplitInv'
  BY <1>1, <1>4, <1>11, SplitFrame
<1> QED BY <1>10, <1>12, <1>13, <1>14 DEF BalanceInv

LEMMA WorkerPopKeeps ==
    ASSUME BalanceInv, NEW v \in Workers, WorkerPop(v)
    PROVE  BalanceInv'
<1> DEFINE e == Head(qp[v].wq)
<1>1. TypeOK /\ ShmInv /\ SplitInv
  BY DEF BalanceInv
<1>2. /\ qp \in [Workers -> QpType(SubOpType)] /\ qp[v] \in QpType(SubOpType)
      /\ working \in [Workers -> Seq(SubOpType)]
      /\ qp[v].wq \in Seq(SubOpType) /\ qp[v].wq # <<>> /\ working[v] \in Seq(SubOpType)
  BY <1>1, TypeParts, Types DEF WorkerPop
<1>3. /\ UNCHANGED <<shm_qp, posting, finished, split, submitted, collected>>
      /\ working' = [working EXCEPT ![v] = Append(working[v], e)]
      /\ qp' = [qp EXCEPT ![v] = PopReq(qp[v])]
  BY DEF WorkerPop
<1>4. e \in SubOpType /\ Len(Tail(qp[v].wq)) = Len(qp[v].wq) - 1
  BY <1>2, TailFacts
<1>5. /\ qp' \in [Workers -> QpType(SubOpType)]
      /\ qp'[v].wq = Tail(qp[v].wq) /\ qp'[v].cq = qp[v].cq
      /\ qp'[v].num_in_queue = qp[v].num_in_queue
      /\ \A w \in Workers : w # v => qp'[w] = qp[w]
  <2> DEFINE r == PopReq(qp[v])
  <2>1. /\ r \in QpType(SubOpType) /\ r.wq = Tail(qp[v].wq) /\ r.cq = qp[v].cq
        /\ r.num_in_queue = qp[v].num_in_queue
    BY <1>2, PopReqFacts
  <2> HIDE DEF r
  <2> QED BY <1>2, <1>3, <2>1 DEF r
<1> HIDE DEF e
<1>6. /\ working' \in [Workers -> Seq(SubOpType)]
      /\ working'[v] = Append(working[v], e)
      /\ Len(Append(working[v], e)) = Len(working[v]) + 1
      /\ \A w \in Workers : w # v => working'[w] = working[w]
  <2>1. Append(working[v], e) \in Seq(SubOpType)
        /\ Len(Append(working[v], e)) = Len(working[v]) + 1
    BY <1>2, <1>4, AppendFacts
  <2> QED BY <1>2, <1>3, <2>1
<1>7. TypeOK'
  BY <1>1, <1>3, <1>5, <1>6 DEF TypeOK, QpType
<1>8. Answered' = Answered /\ Popped' = Popped /\ \A w : Pushed(w)' = Pushed(w)
  BY <1>3 DEF Answered, Popped, Pushed
<1>9. ShmInv'
  BY <1>1, <1>3, <1>8 DEF ShmInv
<1>10. ASSUME NEW w \in Workers PROVE WorkerInv(w)'
  <2>1. CASE w # v
    BY <1>3, <1>5, <1>6, <1>8, <2>1, WorkerFrame DEF BalanceInv
  <2>2. CASE w = v
    <3> DEFINE x == Len(qp[v].cq)
               y == Len(working[v])
               z == Len(qp[v].wq)
               b == Answered + x
    <3>1. x \in Nat /\ y \in Nat /\ z \in Nat /\ Answered \in Nat /\ b \in Int /\ b + y \in Int
      <4>1. x \in Nat /\ y \in Nat /\ z \in Nat /\ Answered \in Nat
        BY <1>1, Types
      <4> HIDE DEF x, y, z
      <4> QED BY <4>1
    <3>2. WorkerInv(v)
      BY DEF BalanceInv
    <3>3. Follows(working[v], b) /\ Follows(qp[v].wq, b + y)
      BY <3>2 DEF WorkerInv
    <3>4. e.op = b + y + 1 /\ Follows(Tail(qp[v].wq), b + y + 1)
      <4> HIDE DEF b, y
      <4> QED BY <1>2, <3>1, <3>3, FollowsTail DEF e
    <3>5. Follows(Append(working[v], e), b)
      <4> HIDE DEF b
      <4> QED BY <1>2, <1>4, <3>1, <3>3, <3>4, FollowsAppend
    <3>6. InHand(w)' = x + (y + 1) + (z - 1)
      BY <1>4, <1>5, <1>6, <2>2 DEF InHand
    <3>7. x + (y + 1) + (z - 1) = x + y + z /\ Answered + x + (y + 1) = b + y + 1
      <4> HIDE DEF x, y, z
      <4> QED BY <3>1
    <3>8. InHand(w)' = Pushed(w)' - Answered' /\ qp'[w].num_in_queue = Pushed(w)' - Answered'
      BY <1>5, <1>8, <2>2, <3>2, <3>6, <3>7 DEF WorkerInv, InHand
    <3>9. /\ Follows(qp'[w].cq, Answered')
          /\ 1 .. Answered' + Len(qp'[w].cq) \subseteq finished'[w]
      BY <1>3, <1>5, <1>8, <2>2, <3>2 DEF WorkerInv
    <3>10. Follows(working'[w], Answered' + Len(qp'[w].cq))
      BY <1>5, <1>6, <1>8, <2>2, <3>5
    <3>11. Follows(qp'[w].wq, Answered' + Len(qp'[w].cq) + Len(working'[w]))
      <4>1. Answered' + Len(qp'[w].cq) + Len(working'[w]) = b + y + 1
        BY <1>5, <1>6, <1>8, <2>2, <3>7
      <4> QED BY <1>5, <2>2, <3>4, <4>1
    <3> QED BY <3>8, <3>9, <3>10, <3>11 DEF WorkerInv, Follows
  <2> QED BY <2>1, <2>2
<1>11. SplitInv'
  BY <1>1, <1>3, <1>8, SplitFrame
<1> QED BY <1>7, <1>9, <1>10, <1>11 DEF BalanceInv

LEMMA WorkerCompleteKeeps ==
    ASSUME BalanceInv, NEW v \in Workers, WorkerComplete(v)
    PROVE  BalanceInv'
<1> DEFINE e == Head(working[v])
<1>1. TypeOK /\ ShmInv /\ SplitInv
  BY DEF BalanceInv
<1>2. /\ qp \in [Workers -> QpType(SubOpType)] /\ qp[v] \in QpType(SubOpType)
      /\ working \in [Workers -> Seq(SubOpType)] /\ finished \in [Workers -> SUBSET Op]
      /\ qp[v].cq \in Seq(SubOpType) /\ working[v] # <<>> /\ working[v] \in Seq(SubOpType)
  BY <1>1, TypeParts, Types DEF WorkerComplete
<1>3. /\ UNCHANGED <<shm_qp, posting, split, submitted, collected>>
      /\ qp' = [qp EXCEPT ![v] = PushResp(qp[v], e)]
      /\ finished' = [finished EXCEPT ![v] = finished[v] \cup {e.op}]
      /\ working' = [working EXCEPT ![v] = Tail(working[v])]
  BY DEF WorkerComplete
<1>4. /\ e \in SubOpType /\ Len(Tail(working[v])) = Len(working[v]) - 1
      /\ Tail(working[v]) \in Seq(SubOpType)
  BY <1>2, TailFacts
<1> HIDE DEF e
<1>5. e.op \in Op
  BY <1>4 DEF SubOpType
<1>6. /\ qp' \in [Workers -> QpType(SubOpType)]
      /\ qp'[v].wq = qp[v].wq /\ qp'[v].cq = Append(qp[v].cq, e)
      /\ qp'[v].num_in_queue = qp[v].num_in_queue
      /\ Len(Append(qp[v].cq, e)) = Len(qp[v].cq) + 1
      /\ \A w \in Workers : w # v => qp'[w] = qp[w]
  <2> DEFINE r == PushResp(qp[v], e)
  <2>1. /\ r \in QpType(SubOpType) /\ r.wq = qp[v].wq /\ r.cq = Append(qp[v].cq, e)
        /\ r.num_in_queue = qp[v].num_in_queue
    BY <1>2, <1>4, PushRespFacts
  <2>2. Len(Append(qp[v].cq, e)) = Len(qp[v].cq) + 1
    BY <1>2, <1>4, AppendFacts
  <2> HIDE DEF r
  <2> QED BY <1>2, <1>3, <2>1, <2>2 DEF r
<1>7. /\ working' \in [Workers -> Seq(SubOpType)]
      /\ working'[v] = Tail(working[v])
      /\ \A w \in Workers : w # v => working'[w] = working[w]
  BY <1>2, <1>3, <1>4
<1>8. /\ finished' \in [Workers -> SUBSET Op]
      /\ finished'[v] = finished[v] \cup {e.op}
      /\ \A w \in Workers : w # v => finished'[w] = finished[w]
  BY <1>2, <1>3, <1>5
<1>9. TypeOK'
  BY <1>1, <1>3, <1>6, <1>7, <1>8 DEF TypeOK, QpType
<1>10. Answered' = Answered /\ Popped' = Popped /\ \A w : Pushed(w)' = Pushed(w)
  BY <1>3 DEF Answered, Popped, Pushed
<1>11. ShmInv'
  BY <1>1, <1>3, <1>10 DEF ShmInv
<1>12. ASSUME NEW w \in Workers PROVE WorkerInv(w)'
  <2>1. CASE w # v
    BY <1>6, <1>7, <1>8, <1>10, <2>1, WorkerFrame DEF BalanceInv
  <2>2. CASE w = v
    <3> DEFINE x == Len(qp[v].cq)
               y == Len(working[v])
               z == Len(qp[v].wq)
               b == Answered + x
    <3>1. x \in Nat /\ y \in Nat /\ z \in Nat /\ Answered \in Nat /\ b \in Nat /\ b \in Int
      <4>1. x \in Nat /\ y \in Nat /\ z \in Nat /\ Answered \in Nat
        BY <1>1, Types
      <4> HIDE DEF x, y, z
      <4> QED BY <4>1
    <3>2. WorkerInv(v)
      BY DEF BalanceInv
    <3>3. Follows(qp[v].cq, Answered) /\ Follows(working[v], b)
      BY <3>2 DEF WorkerInv
    <3>4. e.op = b + 1 /\ Follows(Tail(working[v]), b + 1)
      <4> HIDE DEF b
      <4> QED BY <1>2, <3>1, <3>3, FollowsTail DEF e
    <3>5. Follows(Append(qp[v].cq, e), Answered)
      <4>1. e.op = Answered + Len(qp[v].cq) + 1 /\ Answered \in Int
        BY <3>1, <3>4
      <4> QED BY <1>2, <1>4, <3>3, <4>1, FollowsAppend
    <3>6. InHand(w)' = (x + 1) + (y - 1) + z
      BY <1>4, <1>6, <1>7, <2>2 DEF InHand
    <3>7. (x + 1) + (y - 1) + z = x + y + z /\ Answered + (x + 1) = b + 1
          /\ Answered + (x + 1) + (y - 1) = Answered + x + y
      <4> HIDE DEF x, y, z
      <4> QED BY <3>1
    <3>8. InHand(w)' = Pushed(w)' - Answered' /\ qp'[w].num_in_queue = Pushed(w)' - Answered'
      BY <1>6, <1>10, <2>2, <3>2, <3>6, <3>7 DEF WorkerInv, InHand
    <3>9. Answered' + Len(qp'[w].cq) = b + 1
      BY <1>6, <1>10, <2>2, <3>7
    <3>10. 1 .. b + 1 \subseteq finished'[w]
      <4>1. 1 .. b \subseteq finished[v]
        BY <3>2 DEF WorkerInv
      <4> HIDE DEF b
      <4>2. 1 .. b + 1 = (1 .. b) \cup {b + 1}
        BY <3>1
      <4> QED BY <1>8, <2>2, <3>4, <4>1, <4>2
    <3>11. Follows(qp'[w].wq, Answered' + Len(qp'[w].cq) + Len(working'[w]))
      <4>1. Answered' + Len(qp'[w].cq) + Len(working'[w]) = Answered + x + y
        BY <1>4, <1>6, <1>7, <1>10, <2>2, <3>7
      <4> QED BY <1>6, <2>2, <3>2, <4>1 DEF WorkerInv
    <3>12. /\ Follows(qp'[w].cq, Answered')
           /\ Follows(working'[w], Answered' + Len(qp'[w].cq))
           /\ 1 .. Answered' + Len(qp'[w].cq) \subseteq finished'[w]
      BY <1>6, <1>7, <1>10, <2>2, <3>4, <3>5, <3>9, <3>10
    <3> QED BY <3>8, <3>11, <3>12 DEF WorkerInv, Follows
  <2> QED BY <2>1, <2>2
<1>13. SplitInv'
  BY <1>1, <1>3, <1>10, SplitFrame
<1> QED BY <1>9, <1>11, <1>12, <1>13 DEF BalanceInv

-----------------------------------------------------------------------------
LEMMA BalanceInit == Init => BalanceInv
<1> SUFFICES ASSUME Init PROVE BalanceInv
  OBVIOUS
<1>1. /\ shm_qp.wq = <<>> /\ shm_qp.cq = <<>> /\ shm_qp.num_in_queue = 0
      /\ submitted = 0 /\ collected = <<>> /\ posting = Idle
  BY DEF Init, EmptyQp
<1>2. \A w \in Workers : /\ qp[w].wq = <<>> /\ qp[w].cq = <<>> /\ qp[w].num_in_queue = 0
                         /\ working[w] = <<>> /\ finished[w] = {}
  BY DEF Init, EmptyQp
<1>3. \A S : EmptyQp \in QpType(S)
  BY Constants DEF EmptyQp, QpType
<1>4. TypeOK
  <2>1. shm_qp \in QpType(Op) /\ qp \in [Workers -> QpType(SubOpType)]
    BY <1>3 DEF Init
  <2>2. posting \in [op : Op \cup {0}, i : Workers, offset : Nat]
    BY Constants DEF Init, Idle
  <2>3. /\ working \in [Workers -> Seq(SubOpType)] /\ finished \in [Workers -> SUBSET Op]
        /\ split \in [Op -> Seq(SubOpType)] /\ collected \in Seq(Op)
    BY DEF Init
  <2>4. submitted \in 0 .. NOps
    BY Constants DEF Init
  <2> QED BY <2>1, <2>2, <2>3, <2>4, TypeParts
<1>5. Answered = 0 /\ Popped = 0
  <2>1. Len(collected) = 0 /\ Len(shm_qp.cq) = 0 /\ Len(shm_qp.wq) = 0
    BY <1>1
  <2>2. submitted = 0
    BY <1>1
  <2> QED BY <2>1, <2>2 DEF Answered, Popped
<1>6. ShmInv
  <2>1. Len(collected) = 0 /\ Len(shm_qp.cq) = 0 /\ Len(shm_qp.wq) = 0
    BY <1>1
  <2>2. submitted = 0 /\ posting = Idle /\ shm_qp.num_in_queue = 0
    BY <1>1
  <2> QED BY <1>5, <2>1, <2>2 DEF ShmInv
<1>7. \A w \in Workers : WorkerInv(w)
  <2> TAKE w \in Workers
  <2>1. Pushed(w) = 0
    BY <1>1, <1>5 DEF Pushed
  <2>2. Len(qp[w].wq) = 0 /\ Len(qp[w].cq) = 0 /\ Len(working[w]) = 0
        /\ qp[w].num_in_queue = 0
    BY <1>2
  <2> QED BY <1>5, <2>1, <2>2 DEF WorkerInv, InHand, Follows
<1>8. SplitInv
  <2>1. \A op \in Op : split[op] = <<>> /\ op > Popped
    BY <1>5, Constants DEF Init
  <2> QED BY <1>1, <2>1 DEF SplitInv
<1> QED BY <1>4, <1>6, <1>7, <1>8 DEF BalanceInv

LEMMA BalanceNext == BalanceInv /\ [Next]_vars => BalanceInv'
<1> SUFFICES ASSUME BalanceInv, [Next]_vars PROVE BalanceInv'
  OBVIOUS
<1>1. CASE Submit
  BY <1>1, SubmitKeeps
<1>2. CASE Collect
  BY <1>2, CollectKeeps
<1>3. CASE TryPostOp
  BY <1>3, TryPostOpKeeps
<1>4. CASE PostSubOp
  BY <1>4, PostSubOpKeeps
<1>5. CASE TryCompleteOp
  BY <1>5, TryCompleteOpKeeps
<1>6. CASE \E w \in Workers : WorkerPop(w) \/ WorkerComplete(w)
  BY <1>6, WorkerPopKeeps, WorkerCompleteKeeps
<1>7. CASE UNCHANGED vars
  <2>1. UNCHANGED <<shm_qp, qp, posting, working, finished, split, submitted, collected>>
    BY <1>7 DEF vars
  <2>2. Popped' = Popped /\ Answered' = Answered
    BY <2>1 DEF Popped, Answered
  <2>3. TypeOK'
    BY <2>1 DEF BalanceInv, TypeOK
  <2>4. ShmInv'
    BY <2>1, <2>2 DEF BalanceInv, ShmInv
  <2>5. \A w \in Workers : WorkerInv(w)'
    <3> TAKE w \in Workers
    <3>1. Pushed(w)' = Pushed(w)
      BY <2>1, <2>2 DEF Pushed
    <3> QED BY <2>1, <2>2, <3>1, WorkerFrame DEF BalanceInv
  <2>6. SplitInv'
    BY <2>1, <2>2, SplitFrame DEF BalanceInv
  <2> QED BY <2>3, <2>4, <2>5, <2>6 DEF BalanceInv
<1>8. CASE Poll
  <2>1. UNCHANGED vars
    BY <1>8 DEF Poll
  <2> QED BY <1>7, <2>1
<1> QED BY <1>1, <1>2, <1>3, <1>4, <1>5, <1>6, <1>7, <1>8 DEF Next

(* The load balancer keeps its invariant: every operation is, in order, in *)
(* the application's queue, in the hand of try_post_op(), with each of the *)
(* workers its part was pushed to, or answered (load_balancer.cpp).        *)
THEOREM BalanceInvariance == Spec => []BalanceInv
BY BalanceInit, BalanceNext, PTL DEF Spec

-----------------------------------------------------------------------------
LEMMA InvImpliesQueuesFit == BalanceInv => QueuesFit
<1> SUFFICES ASSUME BalanceInv PROVE QueuesFit
  OBVIOUS
<1>1. TypeOK /\ ShmInv
  BY DEF BalanceInv
<1>2. QUEUE_SIZE \in Nat
  BY Constants
<1>3. Len(shm_qp.wq) <= QUEUE_SIZE /\ Len(shm_qp.cq) <= QUEUE_SIZE
  <2>1. Len(shm_qp.wq) \in Nat /\ Len(shm_qp.cq) \in Nat /\ Len(collected) \in Nat
    BY <1>1, Types
  <2> QED BY <1>2, <2>1, Stages
<1>4. ASSUME NEW w \in Workers
      PROVE  Len(qp[w].wq) <= QUEUE_SIZE /\ Len(qp[w].cq) <= QUEUE_SIZE
  <2> DEFINE x == Len(qp[w].cq)
             y == Len(working[w])
             z == Len(qp[w].wq)
  <2>1. x \in Nat /\ y \in Nat /\ z \in Nat /\ qp[w].num_in_queue \in 0 .. QUEUE_SIZE
    BY <1>1, Types
  <2>2. x + y + z = qp[w].num_in_queue
    BY DEF BalanceInv, WorkerInv, InHand
  <2> HIDE DEF x, y, z
  <2>3. x <= QUEUE_SIZE /\ z <= QUEUE_SIZE
    BY <1>2, <2>1, <2>2
  <2> QED BY <2>3 DEF x, z
<1> QED BY <1>1, <1>3, <1>4 DEF QueuesFit

LEMMA InvImpliesAnsweredWhole == BalanceInv => AnsweredWhole
<1> SUFFICES ASSUME BalanceInv PROVE AnsweredWhole
  OBVIOUS
<1>1. TypeOK /\ ShmInv
  BY DEF BalanceInv
<1>2. \A w \in Workers : Follows(qp[w].cq, Answered) /\ 1 .. Answered + Len(qp[w].cq) \subseteq finished[w]
  BY DEF BalanceInv, WorkerInv
<1>3. FrontsAgree
  <2> SUFFICES ASSUME \A w \in Workers : qp[w].cq # <<>>
               PROVE  \A w \in Workers : Head(qp[w].cq).op = Answered + 1
    BY DEF FrontsAgree
  <2> TAKE w \in Workers
  <2>1. qp[w].cq \in Seq(SubOpType) /\ Answered \in Int
    BY <1>1, Types
  <2> QED BY <1>2, <2>1, FollowsTail
<1> DEFINE s == collected
           t == shm_qp.cq
<1>4. s \in Seq(Op) /\ t \in Seq(Op) /\ Len(s) \in Nat /\ Len(t) \in Nat
      /\ Answered = Len(s) + Len(t)
  BY <1>1, Types DEF TypeOK, Answered
<1>5. /\ Len(s \o t) = Len(s) + Len(t)
      /\ \A n \in 1 .. Len(s) : (s \o t)[n] = s[n]
      /\ \A n \in 1 .. Len(t) : (s \o t)[Len(s) + n] = t[n]
  <2> HIDE DEF s, t
  <2> QED BY <1>4
<1>6. ASSUME NEW n \in 1 .. Len(s \o t)
      PROVE  (s \o t)[n] = n /\ \A w \in Workers : n \in finished[w]
  <2>1. n \in 1 .. Answered /\ n \in Nat
    BY <1>4, <1>5
  <2>2. \A w \in Workers : n \in finished[w]
    <3> TAKE w \in Workers
    <3>1. Len(qp[w].cq) \in Nat /\ Answered \in Nat
      BY <1>1, Types
    <3>2. n \in 1 .. Answered + Len(qp[w].cq)
      BY <2>1, <3>1
    <3> QED BY <1>2, <3>2
  <2>3. CASE n \in 1 .. Len(s)
    BY <1>1, <1>5, <2>2, <2>3 DEF ShmInv
  <2>4. CASE n \notin 1 .. Len(s)
    <3> DEFINE k == n - Len(s)
    <3>1. k \in 1 .. Len(t) /\ n = Len(s) + k
      BY <1>4, <1>5, <2>1, <2>4
    <3>2. t[k] = Len(s) + k
      BY <1>1, <3>1 DEF ShmInv
    <3>3. (s \o t)[Len(s) + k] = t[k]
      BY <1>5, <3>1
    <3> HIDE DEF k
    <3> QED BY <2>2, <3>1, <3>2, <3>3
  <2> QED BY <2>3, <2>4
<1> QED BY <1>3, <1>6 DEF AnsweredWhole

LEMMA InvImpliesSplitExact == BalanceInv => SplitExact
<1> SUFFICES ASSUME BalanceInv, NEW op \in Op, Len(split[op]) = NWorker
             PROVE  /\ \A b \in 0 .. OpSize(op) - 1 :
                        \E i \in 1 .. NWorker :
                            /\ b \in split[op][i].data .. split[op][i].data + split[op][i].size - 1
                            /\ \A j \in 1 .. NWorker \ {i} :
                                b \notin split[op][j].data .. split[op][j].data + split[op][j].size - 1
                    /\ \A i \in 1 .. NWorker :
                        /\ split[op][i].data + split[op][i].size <= OpSize(op)
                        /\ split[op][i].agg_addr + split[op][i].agg_len <= GroupAggAddr + GroupAggLen
                        /\ \A j \in 1 .. i - 1 :
                            split[op][j].agg_addr + split[op][j].agg_len <= split[op][i].agg_addr
  BY DEF SplitExact
<1> DEFINE s == split[op]
<1>1. \A j \in 1 .. NWorker : s[j] = NewSubOp(op, j - 1, OffsetOf(OpSize(op), j - 1))
  BY DEF BalanceInv, SplitInv
<1> HIDE DEF s
<1>2. /\ \A b \in 0 .. OpSize(op) - 1 :
            \E i \in 1 .. NWorker :
                /\ b \in s[i].data .. s[i].data + s[i].size - 1
                /\ \A j \in 1 .. NWorker \ {i} : b \notin s[j].data .. s[j].data + s[j].size - 1
      /\ \A i \in 1 .. NWorker :
            /\ s[i].data + s[i].size <= OpSize(op)
            /\ s[i].agg_addr + s[i].agg_len <= GroupAggAddr + GroupAggLen
            /\ \A j \in 1 .. i - 1 : s[j].agg_addr + s[j].agg_len <= s[i].agg_addr
  BY <1>1, PartsExact, Zenon
<1> QED BY <1>2 DEF s

(* No queue overflows, whatever the capacity and the number of workers:    *)
(* the assertions on push() in push_req() and push_resp() never fail,      *)
(* though nothing checks for room in a completion queue (common.hpp,       *)
(* queue_pair_t).                                                          *)
THEOREM QueuesNeverOverflow == Spec => []QueuesFit
BY BalanceInvariance, InvImpliesQueuesFit, PTL

(* Operations are answered in the order of their submission, each once and *)
(* only when every worker has finished its part, and the answers that      *)
(* try_complete_op() takes together belong to one operation                *)
(* (load_balancer.cpp, try_post_op and try_complete_op).                   *)
THEOREM AnswersWhole == Spec => []AnsweredWhole
BY BalanceInvariance, InvImpliesAnsweredWhole, PTL

(* For every size of the buffer and every number of workers the parts made *)
(* by try_post_op() cover the buffer, each byte once, and use slots apart, *)
(* within those of the group (load_balancer.cpp, try_post_op).             *)
THEOREM PartsAlwaysExact == Spec => []SplitExact
BY BalanceInvariance, InvImpliesSplitExact, PTL
=============================================================================
