-------------------------- MODULE ControllerProofs --------------------------
(***************************************************************************)
(* Proofs about Controller, for all sizes of the switch: the free segments *)
(* and the blocks of the groups partition the memory, the tables of the    *)
(* switch serve each group with its own entries, and no RPC clears a slot  *)
(* of another group.                                                       *)
(***************************************************************************)
EXTENDS Controller, ProofLemmas, FiniteSetTheorems

(* Blocks are taken at multiples of ALLOC_SIZE only, so all borders are.   *)
Aligned(x) == x % AllocSize = 0

Segment == {s \in (0 .. MemSize) \X (0 .. MemSize) : Aligned(s[1]) /\ Aligned(s[2])}

(* The segments of s are not empty, in order and within lo .. hi.          *)
Layout(s, lo, hi) ==
    /\ \A i \in 1 .. Len(s) : s[i][1] < s[i][2] /\ lo <= s[i][1] /\ s[i][2] <= hi
    /\ \A i \in 1 .. Len(s), j \in 1 .. Len(s) : i < j => s[i][2] <= s[j][1]

FreeIn(s, a) == \E i \in 1 .. Len(s) : a \in s[i][1] .. s[i][2] - 1

LEMMA Constants ==
    /\ AllocSize \in Nat /\ AllocSize >= 1 /\ MemSize \in Nat /\ MemSize >= 1
    /\ NGroups \in Nat /\ NNodes \in Nat /\ NPorts \in Nat /\ NPorts >= 1
    /\ MaxSize \in Nat /\ MaxFail \in Nat /\ AllocSize \in Nat \ {0}
    /\ Aligned(0) /\ Aligned(MemSize)
<1>1. (AllocSize * 0 + 0) % AllocSize = 0
  <2>1. AllocSize \in Nat \ {0} /\ 0 \in Nat /\ 0 \in 0 .. AllocSize - 1
    BY ControllerAssumption DEF ControllerAssumption
  <2> QED BY <2>1, ModUnique
<1>2. AllocSize * 0 + 0 = 0
  BY ControllerAssumption DEF ControllerAssumption
<1>3. Aligned(0)
  BY <1>1, <1>2 DEF Aligned
<1> QED BY <1>3, ControllerAssumption DEF ControllerAssumption, Aligned

-----------------------------------------------------------------------------
(* Segments, for alloc_seg() and free_seg().                               *)

LEMMA SegmentTyped ==
    ASSUME NEW s \in Seq(Segment), NEW i \in 1 .. Len(s)
    PROVE  /\ s[i] \in Segment /\ s[i] = <<s[i][1], s[i][2]>>
           /\ s[i][1] \in Nat /\ s[i][2] \in Nat
           /\ s[i][1] <= MemSize /\ s[i][2] <= MemSize
           /\ Aligned(s[i][1]) /\ Aligned(s[i][2])
<1>1. s[i] \in Segment
  OBVIOUS
<1>2. /\ s[i][1] \in 0 .. MemSize /\ s[i][2] \in 0 .. MemSize /\ s[i] = <<s[i][1], s[i][2]>>
      /\ Aligned(s[i][1]) /\ Aligned(s[i][2])
  BY <1>1 DEF Segment
<1> QED BY <1>1, <1>2, Constants

LEMMA SegmentsTyped == Seq(Segment) \subseteq Seq((0 .. MemSize) \X (0 .. MemSize))
<1>1. Segment \subseteq (0 .. MemSize) \X (0 .. MemSize)
  BY DEF Segment
<1> QED BY <1>1

LEMMA OneSegment ==
    ASSUME NEW x \in Nat, NEW y \in Nat, x < y, y <= MemSize, Aligned(x), Aligned(y)
    PROVE  /\ << <<x, y>> >> \in Seq(Segment) /\ Layout(<< <<x, y>> >>, x, y)
           /\ \A a : FreeIn(<< <<x, y>> >>, a) <=> a \in x .. y - 1
<1>1. <<x, y>> \in Segment
  BY Constants DEF Segment
<1> DEFINE s == << <<x, y>> >>
<1>2. s \in Seq(Segment) /\ Len(s) = 1 /\ s[1] = <<x, y>> /\ s[1][1] = x /\ s[1][2] = y
  BY <1>1
<1> HIDE DEF s
<1>3. Layout(s, x, y)
  BY <1>2 DEF Layout
<1>4. \A a : FreeIn(s, a) <=> a \in x .. y - 1
  BY <1>2 DEF FreeIn
<1> QED BY <1>2, <1>3, <1>4 DEF s

LEMMA NoSegment ==
    /\ << >> \in Seq(Segment) /\ \A lo, hi : Layout(<< >>, lo, hi)
    /\ \A a : ~FreeIn(<< >>, a)
BY DEF Layout, FreeIn

LEMMA WiderLayout ==
    ASSUME NEW s \in Seq(Segment), NEW lo \in Nat, NEW hi \in Nat, Layout(s, lo, hi),
           NEW lo2 \in Nat, NEW hi2 \in Nat, lo2 <= lo, hi <= hi2
    PROVE  Layout(s, lo2, hi2)
<1>1. ASSUME NEW i \in 1 .. Len(s)
      PROVE  s[i][1] < s[i][2] /\ lo2 <= s[i][1] /\ s[i][2] <= hi2
  <2>1. s[i][1] \in Nat /\ s[i][2] \in Nat
    BY SegmentTyped
  <2>2. s[i][1] < s[i][2] /\ lo <= s[i][1] /\ s[i][2] <= hi
    BY DEF Layout
  <2> QED BY <2>1, <2>2
<1> QED BY <1>1 DEF Layout

(* Segments that end before mid, followed by ones that begin there.        *)
LEMMA JoinSegments ==
    ASSUME NEW s \in Seq(Segment), NEW t \in Seq(Segment),
           NEW lo \in Nat, NEW mid \in Nat, NEW hi \in Nat, lo <= mid, mid <= hi,
           Layout(s, lo, mid), Layout(t, mid, hi)
    PROVE  /\ s \o t \in Seq(Segment) /\ Layout(s \o t, lo, hi)
           /\ \A a : FreeIn(s \o t, a) <=> FreeIn(s, a) \/ FreeIn(t, a)
<1> DEFINE u == s \o t
           m == Len(s)
           n == Len(t)
<1>1. /\ u \in Seq(Segment) /\ Len(u) = m + n /\ m \in Nat /\ n \in Nat
      /\ \A i \in 1 .. m + n : u[i] = IF i <= m THEN s[i] ELSE t[i - m]
  BY ConcatFacts
<1> HIDE DEF u, m, n
<1>2. ASSUME NEW i \in 1 .. m
      PROVE  /\ i \in 1 .. Len(u) /\ u[i] = s[i] /\ s[i][1] \in Nat /\ s[i][2] \in Nat
             /\ s[i][1] < s[i][2] /\ lo <= s[i][1] /\ s[i][2] <= mid
  <2>1. i \in 1 .. m + n /\ i <= m
    BY <1>1
  <2>2. i \in 1 .. Len(s)
    BY DEF m
  <2>3. s[i][1] < s[i][2] /\ lo <= s[i][1] /\ s[i][2] <= mid
    BY <2>2 DEF Layout
  <2> QED BY <1>1, <2>1, <2>2, <2>3, SegmentTyped
<1>3. ASSUME NEW i \in 1 .. n
      PROVE  /\ m + i \in 1 .. Len(u) /\ u[m + i] = t[i] /\ t[i][1] \in Nat /\ t[i][2] \in Nat
             /\ t[i][1] < t[i][2] /\ mid <= t[i][1] /\ t[i][2] <= hi
  <2>1. m + i \in 1 .. m + n /\ ~(m + i <= m) /\ (m + i) - m = i
    BY <1>1
  <2>2. i \in 1 .. Len(t)
    BY DEF n
  <2>3. t[i][1] < t[i][2] /\ mid <= t[i][1] /\ t[i][2] <= hi
    BY <2>2 DEF Layout
  <2> QED BY <1>1, <2>1, <2>2, <2>3, SegmentTyped
<1>4. ASSUME NEW i \in 1 .. Len(u)
      PROVE  i \in 1 .. m \/ \E k \in 1 .. n : i = m + k
  <2>1. CASE i <= m
    BY <1>1, <2>1
  <2>2. CASE ~(i <= m)
    <3>1. i - m \in 1 .. n /\ i = m + (i - m)
      BY <1>1, <2>2
    <3> QED BY <3>1
  <2> QED BY <2>1, <2>2
<1>5. ASSUME NEW i \in 1 .. Len(u)
      PROVE  u[i][1] < u[i][2] /\ lo <= u[i][1] /\ u[i][2] <= hi
  <2>1. CASE i \in 1 .. m
    <3>1. /\ u[i] = s[i] /\ s[i][1] \in Nat /\ s[i][2] \in Nat
          /\ s[i][1] < s[i][2] /\ lo <= s[i][1] /\ s[i][2] <= mid
      BY <1>2, <2>1
    <3> QED BY <3>1
  <2>2. ASSUME NEW k \in 1 .. n, i = m + k
        PROVE  u[i][1] < u[i][2] /\ lo <= u[i][1] /\ u[i][2] <= hi
    <3>1. /\ u[i] = t[k] /\ t[k][1] \in Nat /\ t[k][2] \in Nat
          /\ t[k][1] < t[k][2] /\ mid <= t[k][1] /\ t[k][2] <= hi
      BY <1>3, <2>2
    <3> QED BY <3>1
  <2> QED BY <1>4, <2>1, <2>2
<1>6. ASSUME NEW i \in 1 .. Len(u), NEW j \in 1 .. Len(u), i < j
      PROVE  u[i][2] <= u[j][1]
  <2>1. CASE i \in 1 .. m /\ j \in 1 .. m
    <3>1. s[i][2] <= s[j][1]
      BY <1>6, <2>1 DEF Layout, m
    <3> QED BY <1>2, <2>1, <3>1
  <2>2. ASSUME i \in 1 .. m, NEW k \in 1 .. n, j = m + k
        PROVE  u[i][2] <= u[j][1]
    <3>1. u[i][2] = s[i][2] /\ s[i][2] \in Nat /\ s[i][2] <= mid
      BY <1>2, <2>2
    <3>2. u[j][1] = t[k][1] /\ t[k][1] \in Nat /\ mid <= t[k][1]
      BY <1>3, <2>2
    <3> QED BY <3>1, <3>2
  <2>3. ASSUME NEW k \in 1 .. n, i = m + k, j \in 1 .. m
        PROVE  FALSE
    BY <1>1, <1>6, <2>3
  <2>4. ASSUME NEW k \in 1 .. n, i = m + k, NEW h \in 1 .. n, j = m + h
        PROVE  u[i][2] <= u[j][1]
    <3>1. k < h
      BY <1>1, <1>6, <2>4
    <3>2. t[k][2] <= t[h][1]
      BY <3>1 DEF Layout, n
    <3> QED BY <1>3, <2>4, <3>2
  <2> QED BY <1>4, <2>1, <2>2, <2>3, <2>4
<1>7. ASSUME NEW a PROVE FreeIn(u, a) <=> FreeIn(s, a) \/ FreeIn(t, a)
  <2>1. ASSUME FreeIn(u, a) PROVE FreeIn(s, a) \/ FreeIn(t, a)
    <3>1. PICK i \in 1 .. Len(u) : a \in u[i][1] .. u[i][2] - 1
      BY <2>1 DEF FreeIn
    <3>2. CASE i \in 1 .. m
      <4>1. u[i] = s[i] /\ i \in 1 .. Len(s)
        BY <1>2, <3>2 DEF m
      <4> QED BY <3>1, <4>1 DEF FreeIn
    <3>3. ASSUME NEW k \in 1 .. n, i = m + k PROVE FreeIn(t, a)
      <4>1. u[i] = t[k] /\ k \in 1 .. Len(t)
        BY <1>3, <3>3 DEF n
      <4> QED BY <3>1, <4>1 DEF FreeIn
    <3> QED BY <1>4, <3>2, <3>3
  <2>2. ASSUME FreeIn(s, a) PROVE FreeIn(u, a)
    BY <1>2, <2>2 DEF FreeIn, m
  <2>3. ASSUME FreeIn(t, a) PROVE FreeIn(u, a)
    BY <1>3, <2>3 DEF FreeIn, n
  <2> QED BY <2>1, <2>2, <2>3
<1> QED BY <1>1, <1>5, <1>6, <1>7 DEF Layout, u

(* A part of the segments.                                                 *)
LEMMA PartLayout ==
    ASSUME NEW s \in Seq(Segment), NEW lo \in Nat, NEW hi \in Nat, Layout(s, lo, hi),
           NEW m \in Nat, NEW n \in Nat, 1 <= m, m <= n + 1, n <= Len(s),
           NEW lo2 \in Nat, NEW hi2 \in Nat,
           \A i \in m .. n : lo2 <= s[i][1] /\ s[i][2] <= hi2
    PROVE  /\ SubSeq(s, m, n) \in Seq(Segment)
           /\ Layout(SubSeq(s, m, n), lo2, hi2)
           /\ \A a : FreeIn(SubSeq(s, m, n), a) <=> \E i \in m .. n : a \in s[i][1] .. s[i][2] - 1
<1> DEFINE t == SubSeq(s, m, n)
           k == n - m + 1
<1>1. t \in Seq(Segment) /\ Len(t) = k /\ \A i \in 1 .. k : t[i] = s[m + i - 1]
  BY SubSeqFacts
<1>2. Len(s) \in Nat
  OBVIOUS
<1> HIDE DEF t
<1>3. ASSUME NEW i \in 1 .. k
      PROVE  m + i - 1 \in m .. n /\ m + i - 1 \in 1 .. Len(s)
  BY <1>2
<1>4. ASSUME NEW i \in m .. n
      PROVE  i - m + 1 \in 1 .. k /\ m + (i - m + 1) - 1 = i /\ i \in 1 .. Len(s)
  BY <1>2
<1>5. ASSUME NEW i \in 1 .. k
      PROVE  t[i][1] < t[i][2] /\ lo2 <= t[i][1] /\ t[i][2] <= hi2
  BY <1>1, <1>3 DEF Layout
<1>6. ASSUME NEW i \in 1 .. k, NEW j \in 1 .. k, i < j
      PROVE  t[i][2] <= t[j][1]
  <2>1. m + i - 1 < m + j - 1
    BY <1>6
  <2> QED BY <1>1, <1>3, <2>1 DEF Layout
<1>7. Layout(t, lo2, hi2)
  BY <1>1, <1>5, <1>6 DEF Layout
<1>8. ASSUME NEW a
      PROVE  FreeIn(t, a) <=> \E i \in m .. n : a \in s[i][1] .. s[i][2] - 1
  <2>1. ASSUME NEW i \in m .. n, a \in s[i][1] .. s[i][2] - 1 PROVE FreeIn(t, a)
    <3>1. t[i - m + 1] = s[i] /\ i - m + 1 \in 1 .. Len(t)
      BY <1>1, <1>4
    <3> QED BY <2>1, <3>1 DEF FreeIn
  <2>2. ASSUME FreeIn(t, a) PROVE \E i \in m .. n : a \in s[i][1] .. s[i][2] - 1
    <3>1. PICK i \in 1 .. Len(t) : a \in t[i][1] .. t[i][2] - 1
      BY <2>2 DEF FreeIn
    <3>2. t[i] = s[m + i - 1] /\ m + i - 1 \in m .. n
      BY <1>1, <1>3
    <3> QED BY <3>1, <3>2
  <2> QED BY <2>1, <2>2
<1> QED BY <1>1, <1>7, <1>8 DEF t

(* Segment k, and the ones left and right of it.                           *)
LEMMA CutSegments ==
    ASSUME NEW s \in Seq(Segment), NEW lo \in Nat, NEW hi \in Nat, Layout(s, lo, hi),
           NEW k \in 1 .. Len(s)
    PROVE  LET left  == SubSeq(s, 1, k - 1)
               right == SubSeq(s, k + 1, Len(s))
           IN  /\ left \in Seq(Segment) /\ right \in Seq(Segment)
               /\ Layout(left, lo, s[k][1]) /\ Layout(right, s[k][2], hi)
               /\ \A a : FreeIn(s, a) <=> \/ FreeIn(left, a) \/ FreeIn(right, a)
                                          \/ a \in s[k][1] .. s[k][2] - 1
<1> DEFINE left  == SubSeq(s, 1, k - 1)
           right == SubSeq(s, k + 1, Len(s))
           n == Len(s)
<1>1. /\ s[k][1] \in Nat /\ s[k][2] \in Nat /\ n \in Nat /\ k \in Nat /\ k - 1 \in Nat
      /\ 1 <= (k - 1) + 1 /\ k - 1 <= n /\ k + 1 \in Nat /\ 1 <= k + 1 /\ k + 1 <= n + 1
  BY SegmentTyped
<1>2. \A i \in 1 .. k - 1 : lo <= s[i][1] /\ s[i][2] <= s[k][1]
  BY <1>1 DEF Layout
<1>3. \A i \in k + 1 .. n : s[k][2] <= s[i][1] /\ s[i][2] <= hi
  BY <1>1 DEF Layout
<1>4. /\ left \in Seq(Segment) /\ Layout(left, lo, s[k][1])
      /\ \A a : FreeIn(left, a) <=> \E i \in 1 .. k - 1 : a \in s[i][1] .. s[i][2] - 1
  <2> DEFINE h == k - 1
  <2>1. h \in Nat /\ h <= Len(s) /\ 1 <= h + 1 /\ 1 \in Nat /\ 1 <= 1
    BY <1>1
  <2>2. \A i \in 1 .. h : lo <= s[i][1] /\ s[i][2] <= s[k][1]
    BY <1>2
  <2> HIDE DEF h
  <2>3. LET t == SubSeq(s, 1, h)
        IN  /\ t \in Seq(Segment) /\ Layout(t, lo, s[k][1])
            /\ \A a : FreeIn(t, a) <=> \E i \in 1 .. h : a \in s[i][1] .. s[i][2] - 1
    BY <1>1, <2>1, <2>2, PartLayout
  <2> QED BY <2>3 DEF h
<1>5. /\ right \in Seq(Segment) /\ Layout(right, s[k][2], hi)
      /\ \A a : FreeIn(right, a) <=> \E i \in k + 1 .. n : a \in s[i][1] .. s[i][2] - 1
  <2>1. n <= Len(s)
    BY <1>1
  <2> QED BY <1>1, <1>3, <2>1, PartLayout
<1>6. ASSUME NEW a
      PROVE  FreeIn(s, a) <=> \/ FreeIn(left, a) \/ FreeIn(right, a)
                              \/ a \in s[k][1] .. s[k][2] - 1
  <2> HIDE DEF left, right
  <2>1. \A i \in 1 .. n : i \in 1 .. k - 1 \/ i \in k + 1 .. n \/ i = k
    BY <1>1
  <2>2. (\A i \in 1 .. k - 1 : i \in 1 .. n) /\ (\A i \in k + 1 .. n : i \in 1 .. n)
    BY <1>1
  <2> QED BY <1>4, <1>5, <2>1, <2>2 DEF FreeIn
<1> QED BY <1>4, <1>5, <1>6

LEMMA AlignUp ==
    ASSUME NEW x \in Nat, NEW y \in Nat \ {0}
    PROVE  /\ UpperAlign(x, y) \in Nat /\ x <= UpperAlign(x, y)
           /\ UpperAlign(x, y) % y = 0
           /\ x % y = 0 => UpperAlign(x, y) = x
<1> DEFINE b == x + y - 1
           q == b \div y
           r == b % y
<1>1. b \in Nat
  OBVIOUS
<1>2. q \in Nat /\ r \in Nat /\ r <= y - 1 /\ b = y * q + r
  <2> HIDE DEF b
  <2>1. b % y \in 0 .. y - 1 /\ b \div y \in Nat /\ b = y * (b \div y) + (b % y)
    BY <1>1, DivMod
  <2> HIDE DEF q, r
  <2> QED BY <2>1 DEF q, r
<1>3. UpperAlign(x, y) = q * y
  BY DEF UpperAlign
<1> HIDE DEF q, r
<1>4. q * y = y * q /\ q * y \in Nat
  BY <1>2
<1>5. (q * y) % y = 0
  <2>1. (y * q + 0) % y = 0
    <3>1. 0 \in 0 .. y - 1
      OBVIOUS
    <3> QED BY <1>2, <3>1, ModUnique
  <2> DEFINE z == y * q
  <2>2. z = q * y /\ z \in Nat /\ (z + 0) % y = 0
    BY <1>4, <2>1
  <2> HIDE DEF z
  <2>3. z % y = 0
    BY <2>2
  <2> QED BY <2>2, <2>3
<1>6. ASSUME x % y = 0 PROVE q * y = x
  <2> DEFINE d == x \div y
             z == y * d
             w == y - 1
  <2>1. d \in Nat /\ x = y * d + (x % y)
    BY DivMod
  <2>2. x = z /\ z \in Nat
    BY <1>6, <2>1
  <2>3. (y * d + w) % y = w
    <3>1. w \in 0 .. y - 1
      OBVIOUS
    <3> HIDE DEF d, w
    <3> QED BY <2>1, <3>1, ModUnique
  <2>4. b = z + w
    BY <2>2
  <2>5. r = w
    BY <2>3, <2>4 DEF r
  <2> DEFINE v == y * q
  <2>6. v \in Nat /\ b = v + r /\ q * y = v
    BY <1>2, <1>4
  <2> HIDE DEF v, z, d
  <2> QED BY <2>2, <2>4, <2>5, <2>6
<1> QED BY <1>2, <1>3, <1>4, <1>5, <1>6

(* Multiples of ALLOC_SIZE.                                                *)
LEMMA AlignedFacts ==
    ASSUME NEW x \in Nat, Aligned(x)
    PROVE  /\ x + AllocSize \in Nat /\ Aligned(x + AllocSize)
           /\ \A y \in Nat : x < y /\ Aligned(y) => x + AllocSize <= y
<1>1. AllocSize \in Nat \ {0} /\ x + AllocSize \in Nat
  BY Constants
<1>2. (AllocSize * 1 + x) % AllocSize = x % AllocSize
  <2>1. 1 \in Nat
    OBVIOUS
  <2> QED BY <1>1, <2>1, ModAdd
<1>3. AllocSize * 1 + x = x + AllocSize
  BY <1>1
<1>4. Aligned(x + AllocSize)
  BY <1>2, <1>3 DEF Aligned
<1>5. ASSUME NEW y \in Nat, x < y, Aligned(y) PROVE x + AllocSize <= y
  <2>1. x % AllocSize = y % AllocSize
    BY <1>5 DEF Aligned
  <2>2. y >= x + AllocSize
    BY <1>1, <1>5, <2>1, ModApart
  <2> QED BY <1>1, <2>2
<1> QED BY <1>1, <1>4, <1>5

(* alloc_seg() takes the block, and nothing else, from segment i.          *)
LEMMA AllocFacts ==
    ASSUME memseg \in Seq(Segment), Layout(memseg, 0, MemSize),
           NEW i \in 1 .. Len(memseg), NEW l \in Nat, NEW r \in Nat, l < r,
           memseg[i][1] <= l, r <= memseg[i][2], Aligned(l), Aligned(r)
    PROVE  /\ AllocSeg(i, l, r) \in Seq(Segment)
           /\ Layout(AllocSeg(i, l, r), 0, MemSize)
           /\ \A a : FreeIn(AllocSeg(i, l, r), a) <=> FreeIn(memseg, a) /\ a \notin l .. r - 1
           /\ \A a \in l .. r - 1 : FreeIn(memseg, a) /\ a \in Addr
<1> DEFINE x == memseg[i][1]
           y == memseg[i][2]
           A == SubSeq(memseg, 1, i - 1)
           B == IF x # l THEN << <<x, l>> >> ELSE << >>
           C == IF y # r THEN << <<r, y>> >> ELSE << >>
           D == SubSeq(memseg, i + 1, Len(memseg))
<1>1. /\ x \in Nat /\ y \in Nat /\ y <= MemSize /\ x <= l /\ r <= y /\ MemSize \in Nat
      /\ Aligned(x) /\ Aligned(y)
  BY SegmentTyped, Constants
<1>2. /\ A \in Seq(Segment) /\ D \in Seq(Segment)
      /\ Layout(A, 0, x) /\ Layout(D, y, MemSize)
      /\ \A a : FreeIn(memseg, a) <=> FreeIn(A, a) \/ FreeIn(D, a) \/ a \in x .. y - 1
  <2>1. 0 \in Nat
    OBVIOUS
  <2> QED BY <1>1, <2>1, CutSegments
<1>3. AllocSeg(i, l, r) = A \o B \o C \o D
  BY DEF AllocSeg
<1> HIDE DEF x, y, A, D
<1>4. B \in Seq(Segment) /\ Layout(B, x, l) /\ \A a : FreeIn(B, a) <=> a \in x .. l - 1
  <2>1. CASE x # l
    <3>1. x < l /\ l <= MemSize
      BY <1>1, <2>1
    <3> QED BY <1>1, <2>1, <3>1, OneSegment
  <2>2. CASE x = l
    <3>1. B = << >>
      BY <2>2
    <3>2. \A a : a \notin x .. l - 1
      BY <1>1, <2>2
    <3> QED BY <3>1, <3>2, NoSegment
  <2> QED BY <2>1, <2>2
<1>5. C \in Seq(Segment) /\ Layout(C, r, y) /\ \A a : FreeIn(C, a) <=> a \in r .. y - 1
  <2>1. CASE y # r
    <3>1. r < y
      BY <1>1, <2>1
    <3> QED BY <1>1, <2>1, <3>1, OneSegment
  <2>2. CASE y = r
    <3>1. C = << >>
      BY <2>2
    <3>2. \A a : a \notin r .. y - 1
      BY <1>1, <2>2
    <3> QED BY <3>1, <3>2, NoSegment
  <2> QED BY <2>1, <2>2
<1> HIDE DEF B, C
<1>6. /\ A \o B \in Seq(Segment) /\ Layout(A \o B, 0, l)
      /\ \A a : FreeIn(A \o B, a) <=> FreeIn(A, a) \/ FreeIn(B, a)
  <2>1. 0 \in Nat /\ 0 <= x
    BY <1>1
  <2> QED BY <1>1, <1>2, <1>4, <2>1, JoinSegments
<1> DEFINE AB == A \o B
<1> HIDE DEF AB
<1>7. /\ AB \o C \in Seq(Segment) /\ Layout(AB \o C, 0, y)
      /\ \A a : FreeIn(AB \o C, a) <=> FreeIn(AB, a) \/ FreeIn(C, a)
  <2>1. 0 \in Nat /\ 0 <= r /\ l <= r
    BY <1>1
  <2>2. AB \in Seq(Segment) /\ Layout(AB, 0, l)
    BY <1>6 DEF AB
  <2>3. Layout(AB, 0, r)
    BY <2>1, <2>2, WiderLayout
  <2> QED BY <1>1, <1>5, <2>1, <2>2, <2>3, JoinSegments
<1> DEFINE ABC == AB \o C
<1> HIDE DEF ABC
<1>8. /\ ABC \o D \in Seq(Segment) /\ Layout(ABC \o D, 0, MemSize)
      /\ \A a : FreeIn(ABC \o D, a) <=> FreeIn(ABC, a) \/ FreeIn(D, a)
  <2>1. 0 \in Nat /\ 0 <= y
    BY <1>1
  <2>2. ABC \in Seq(Segment) /\ Layout(ABC, 0, y)
    BY <1>7 DEF ABC
  <2> QED BY <1>1, <1>2, <2>1, <2>2, JoinSegments
<1>9. AllocSeg(i, l, r) = ABC \o D
  BY <1>3 DEF ABC, AB
<1>10. ASSUME NEW a
       PROVE  FreeIn(ABC \o D, a) <=> FreeIn(A, a) \/ FreeIn(D, a)
                                      \/ a \in x .. l - 1 \/ a \in r .. y - 1
  BY <1>4, <1>5, <1>6, <1>7, <1>8 DEF AB, ABC
<1>11. ASSUME NEW a, FreeIn(A, a) PROVE a \in Nat /\ a < x
  <2>1. PICK j \in 1 .. Len(A) : a \in A[j][1] .. A[j][2] - 1
    BY <1>11 DEF FreeIn
  <2>2. A[j][1] \in Nat /\ A[j][2] \in Nat /\ A[j][2] <= x
    BY <1>2, SegmentTyped DEF Layout
  <2> QED BY <1>1, <2>1, <2>2
<1>12. ASSUME NEW a, FreeIn(D, a) PROVE a \in Nat /\ y <= a
  <2>1. PICK j \in 1 .. Len(D) : a \in D[j][1] .. D[j][2] - 1
    BY <1>12 DEF FreeIn
  <2>2. D[j][1] \in Nat /\ D[j][2] \in Nat /\ y <= D[j][1]
    BY <1>2, SegmentTyped DEF Layout
  <2> QED BY <1>1, <2>1, <2>2
<1>13. ASSUME NEW a
       PROVE  FreeIn(ABC \o D, a) <=> FreeIn(memseg, a) /\ a \notin l .. r - 1
  <2>1. a \in x .. y - 1 <=> a \in x .. l - 1 \/ a \in l .. r - 1 \/ a \in r .. y - 1
    BY <1>1
  <2>2. ~(a \in l .. r - 1 /\ (a \in x .. l - 1 \/ a \in r .. y - 1))
    BY <1>1
  <2>3. a \in l .. r - 1 => ~FreeIn(A, a) /\ ~FreeIn(D, a)
    <3>1. a \in l .. r - 1 => a \in Nat /\ ~(a < x) /\ ~(y <= a)
      BY <1>1
    <3> QED BY <1>11, <1>12, <3>1
  <2> QED BY <1>2, <1>10, <2>1, <2>2, <2>3
<1>14. ASSUME NEW a \in l .. r - 1 PROVE FreeIn(memseg, a) /\ a \in Addr
  <2>1. a \in x .. y - 1 /\ a \in Addr
    BY <1>1 DEF Addr
  <2> QED BY <1>2, <2>1
<1> QED BY <1>8, <1>9, <1>13, <1>14

(* Deleting an element and inserting another one replaces it.              *)
LEMMA ReplaceElement ==
    ASSUME NEW S, NEW s \in Seq(S), NEW i \in 1 .. Len(s), NEW e \in S
    PROVE  /\ RemoveAt(s, i) \in Seq(S) /\ Len(RemoveAt(s, i)) = Len(s) - 1
           /\ \A j \in 1 .. Len(s) - 1 : RemoveAt(s, i)[j] = IF j < i THEN s[j] ELSE s[j + 1]
           /\ InsertAt(RemoveAt(s, i), i, e) =
                SubSeq(s, 1, i - 1) \o <<e>> \o SubSeq(s, i + 1, Len(s))
<1> DEFINE n == Len(s)
           h == i - 1
           A == SubSeq(s, 1, i - 1)
           B == SubSeq(s, i + 1, n)
           t == RemoveAt(s, i)
<1>1. n \in Nat /\ h \in Nat /\ i \in Nat /\ h + 1 = i /\ i <= n /\ n - 1 \in Nat
  OBVIOUS
<1>2. A \in Seq(S) /\ Len(A) = h /\ \A j \in 1 .. h : A[j] = s[j]
  <2>1. A = SubSeq(s, 1, h)
    OBVIOUS
  <2> HIDE DEF h
  <2>2. 1 <= h + 1 /\ h <= Len(s) /\ 1 \in Nat /\ 1 <= 1
    BY <1>1
  <2>3. /\ SubSeq(s, 1, h) \in Seq(S) /\ Len(SubSeq(s, 1, h)) = h - 1 + 1
        /\ \A j \in 1 .. h - 1 + 1 : SubSeq(s, 1, h)[j] = s[1 + j - 1]
    BY <1>1, <2>2, SubSeqFacts
  <2>4. h - 1 + 1 = h /\ \A j \in 1 .. h : 1 + j - 1 = j
    BY <1>1
  <2> QED BY <2>1, <2>3, <2>4
<1>3. B \in Seq(S) /\ Len(B) = n - i /\ \A j \in 1 .. n - i : B[j] = s[i + j]
  <2> DEFINE m == i + 1
  <2>1. m \in Nat /\ 1 <= m /\ m <= n + 1 /\ n <= Len(s)
    BY <1>1
  <2>2. n - m + 1 = n - i /\ \A j \in 1 .. n - i : m + j - 1 = i + j
    BY <1>1
  <2> HIDE DEF m
  <2>3. /\ SubSeq(s, m, n) \in Seq(S) /\ Len(SubSeq(s, m, n)) = n - m + 1
        /\ \A j \in 1 .. n - m + 1 : SubSeq(s, m, n)[j] = s[m + j - 1]
    BY <1>1, <2>1, SubSeqFacts
  <2>4. B = SubSeq(s, m, n)
    BY DEF m
  <2> QED BY <2>2, <2>3, <2>4
<1>4. t = A \o B
  BY DEF RemoveAt
<1> HIDE DEF A, B, t
<1>5. /\ t \in Seq(S) /\ Len(t) = h + (n - i)
      /\ \A j \in 1 .. h + (n - i) : t[j] = IF j <= h THEN A[j] ELSE B[j - h]
  <2>1. /\ A \o B \in Seq(S) /\ Len(A \o B) = Len(A) + Len(B)
        /\ \A j \in 1 .. Len(A) + Len(B) :
              (A \o B)[j] = IF j <= Len(A) THEN A[j] ELSE B[j - Len(A)]
    BY <1>2, <1>3, ConcatFacts
  <2>2. Len(A) = h /\ Len(B) = n - i
    BY <1>2, <1>3
  <2> HIDE DEF h, n
  <2> QED BY <1>4, <2>1, <2>2
<1>6. h + (n - i) = n - 1
  BY <1>1
<1>7. \A j \in 1 .. n - 1 : t[j] = IF j < i THEN s[j] ELSE s[j + 1]
  <2> SUFFICES ASSUME NEW j \in 1 .. n - 1 PROVE t[j] = IF j < i THEN s[j] ELSE s[j + 1]
    OBVIOUS
  <2>1. CASE j <= h
    <3>1. j < i /\ j \in 1 .. h
      BY <1>1, <2>1
    <3> QED BY <1>2, <1>5, <1>6, <2>1, <3>1
  <2>2. CASE ~(j <= h)
    <3>1. ~(j < i) /\ j - h \in 1 .. n - i /\ i + (j - h) = j + 1
      BY <1>1, <2>2
    <3> QED BY <1>3, <1>5, <1>6, <2>2, <3>1
  <2> QED BY <2>1, <2>2
<1>8. SubSeq(t, 1, i - 1) = A
  <2>1. /\ SubSeq(t, 1, h) \in Seq(S) /\ Len(SubSeq(t, 1, h)) = h - 1 + 1
        /\ \A j \in 1 .. h - 1 + 1 : SubSeq(t, 1, h)[j] = t[1 + j - 1]
    <3>1. 1 <= h + 1 /\ h <= Len(t) /\ 1 \in Nat /\ 1 <= 1
      BY <1>1, <1>5, <1>6
    <3> HIDE DEF h
    <3> QED BY <1>1, <1>5, <3>1, SubSeqFacts
  <2>2. h - 1 + 1 = h /\ \A j \in 1 .. h : 1 + j - 1 = j /\ j \in 1 .. n - 1 /\ j < i
    BY <1>1
  <2>3. \A j \in 1 .. h : SubSeq(t, 1, h)[j] = A[j]
    BY <1>2, <1>7, <2>1, <2>2
  <2>4. Len(SubSeq(t, 1, h)) = Len(A)
    BY <1>2, <2>1, <2>2
  <2>5. SubSeq(t, 1, h) = A
    <3> DEFINE u == SubSeq(t, 1, h)
    <3>1. u \in Seq(S) /\ A \in Seq(S) /\ Len(u) = Len(A) /\ \A j \in 1 .. Len(u) : u[j] = A[j]
      BY <1>2, <2>1, <2>3, <2>4
    <3> HIDE DEF u
    <3>2. u = A
      BY <3>1, SeqEqual
    <3> QED BY <3>2 DEF u
  <2> QED BY <2>5
<1>9. SubSeq(t, i, Len(t)) = B
  <2> DEFINE m == n - 1
  <2>1. i <= m + 1 /\ m <= Len(t) /\ 1 <= i /\ m \in Nat /\ m - i + 1 = n - i
    BY <1>1, <1>5, <1>6
  <2>2. Len(t) = m
    BY <1>5, <1>6
  <2> HIDE DEF m
  <2>3. /\ SubSeq(t, i, m) \in Seq(S) /\ Len(SubSeq(t, i, m)) = m - i + 1
        /\ \A j \in 1 .. m - i + 1 : SubSeq(t, i, m)[j] = t[i + j - 1]
    BY <1>1, <1>5, <2>1, SubSeqFacts
  <2>4. \A j \in 1 .. n - i : i + j - 1 \in 1 .. n - 1 /\ ~(i + j - 1 < i) /\ (i + j - 1) + 1 = i + j
    BY <1>1
  <2>5. \A j \in 1 .. n - i : SubSeq(t, i, m)[j] = B[j]
    BY <1>3, <1>7, <2>1, <2>3, <2>4
  <2> DEFINE u == SubSeq(t, i, m)
  <2>6. u \in Seq(S) /\ B \in Seq(S) /\ Len(u) = Len(B) /\ \A j \in 1 .. Len(u) : u[j] = B[j]
    BY <1>3, <2>1, <2>3, <2>5
  <2> HIDE DEF u
  <2>7. u = B
    BY <2>6, SeqEqual
  <2> QED BY <2>2, <2>7 DEF u
<1>10. InsertAt(t, i, e) = A \o <<e>> \o B
  BY <1>8, <1>9 DEF InsertAt
<1> QED BY <1>5, <1>6, <1>7, <1>10 DEF t, A, B

(* r_index of free_seg(): the segments before it end at or before l, and   *)
(* the others begin at or after r.                                         *)
RIndex(l) ==
    LET right == {i \in 1 .. Len(memseg) : memseg[i][2] > l}
    IN  IF right = {} THEN Len(memseg) + 1 ELSE Min(right)

LEMMA RIndexFacts ==
    ASSUME memseg \in Seq(Segment), Layout(memseg, 0, MemSize),
           NEW l \in Nat, NEW r \in Nat, l < r, r <= MemSize,
           \A a \in l .. r - 1 : ~FreeIn(memseg, a)
    PROVE  /\ RIndex(l) \in 1 .. Len(memseg) + 1
           /\ \A i \in 1 .. Len(memseg) :
                IF i < RIndex(l) THEN memseg[i][2] <= l ELSE r <= memseg[i][1]
<1> DEFINE right == {i \in 1 .. Len(memseg) : memseg[i][2] > l}
           n == Len(memseg)
           k == RIndex(l)
<1>1. n \in Nat
  OBVIOUS
<1>2. ASSUME NEW i \in 1 .. n
      PROVE  memseg[i][1] \in Nat /\ memseg[i][2] \in Nat /\ memseg[i][1] < memseg[i][2]
  BY SegmentTyped DEF Layout
<1>3. k \in 1 .. n + 1 /\ (\A i \in 1 .. n : i < k => ~(memseg[i][2] > l))
      /\ (k \in 1 .. n => memseg[k][2] > l)
  <2>1. CASE right = {}
    <3>1. k = n + 1
      BY <2>1 DEF RIndex
    <3> QED BY <1>1, <2>1, <3>1
  <2>2. CASE right # {}
    <3>1. right \subseteq Nat
      OBVIOUS
    <3> HIDE DEF right
    <3>2. \E x \in right : \A y \in right : x <= y
      BY <2>2, <3>1, LeastElement
    <3>3. k = Min(right)
      BY <2>2 DEF RIndex, right
    <3>4. Min(right) \in right /\ \A y \in right : Min(right) <= y
      BY <3>2 DEF Min
    <3>5. k \in right /\ \A y \in right : k <= y
      BY <3>3, <3>4
    <3> HIDE DEF k
    <3> QED BY <1>1, <3>5 DEF right
  <2> QED BY <2>1, <2>2
<1> HIDE DEF k
<1>4. ASSUME NEW i \in 1 .. n, i < k PROVE memseg[i][2] <= l
  BY <1>2, <1>3, <1>4
<1>5. ASSUME NEW i \in 1 .. n, ~(i < k) PROVE r <= memseg[i][1]
  <2>1. k \in 1 .. n /\ k <= i
    BY <1>1, <1>3, <1>5
  <2>2. memseg[i][1] \in Nat /\ memseg[i][2] \in Nat /\ memseg[i][1] < memseg[i][2]
    BY <1>2
  <2>3. memseg[i][2] > l
    <3>1. CASE k = i
      BY <1>3, <2>1, <3>1
    <3>2. CASE k < i
      <4>1. memseg[k][2] <= memseg[i][1] /\ memseg[k][2] > l /\ memseg[k][2] \in Nat
        BY <1>2, <1>3, <2>1, <3>2 DEF Layout
      <4> QED BY <2>2, <4>1
    <3> QED BY <2>1, <3>1, <3>2
  <2>4. SUFFICES ASSUME memseg[i][1] < r PROVE FALSE
    BY <2>2
  <2> DEFINE a == IF memseg[i][1] <= l THEN l ELSE memseg[i][1]
  <2>5. a \in l .. r - 1 /\ a \in memseg[i][1] .. memseg[i][2] - 1
    BY <2>2, <2>3, <2>4
  <2> HIDE DEF a
  <2>6. FreeIn(memseg, a)
    BY <2>5 DEF FreeIn
  <2> QED BY <2>5, <2>6
<1> QED BY <1>3, <1>4, <1>5 DEF k

(* Segments before l, the block, and segments after r.                     *)
LEMMA PlaceBlock ==
    ASSUME NEW A \in Seq(Segment), NEW B \in Seq(Segment), NEW x \in Nat, NEW y \in Nat,
           x < y, y <= MemSize, Aligned(x), Aligned(y), Layout(A, 0, x), Layout(B, y, MemSize)
    PROVE  /\ A \o << <<x, y>> >> \o B \in Seq(Segment)
           /\ Layout(A \o << <<x, y>> >> \o B, 0, MemSize)
           /\ \A a : FreeIn(A \o << <<x, y>> >> \o B, a) <=>
                        FreeIn(A, a) \/ FreeIn(B, a) \/ a \in x .. y - 1
<1> DEFINE E == << <<x, y>> >>
           AE == A \o E
<1>1. E \in Seq(Segment) /\ Layout(E, x, y) /\ \A a : FreeIn(E, a) <=> a \in x .. y - 1
  BY OneSegment
<1> HIDE DEF E
<1>2. 0 \in Nat /\ 0 <= x /\ x <= y /\ 0 <= y /\ MemSize \in Nat
  BY Constants
<1>3. AE \in Seq(Segment) /\ Layout(AE, 0, y) /\ \A a : FreeIn(AE, a) <=> FreeIn(A, a) \/ FreeIn(E, a)
  BY <1>1, <1>2, JoinSegments
<1> HIDE DEF AE
<1>4. /\ AE \o B \in Seq(Segment) /\ Layout(AE \o B, 0, MemSize)
      /\ \A a : FreeIn(AE \o B, a) <=> FreeIn(AE, a) \/ FreeIn(B, a)
  BY <1>2, <1>3, JoinSegments
<1> QED BY <1>1, <1>3, <1>4 DEF AE, E

(* free_seg() gives the block back, and nothing else; the segments stay in *)
(* order although a block is not joined with both of its neighbours.       *)
LEMMA FreeFacts ==
    ASSUME memseg \in Seq(Segment), Layout(memseg, 0, MemSize),
           NEW l \in Nat, NEW r \in Nat, l < r, r <= MemSize, Aligned(l), Aligned(r),
           \A a \in l .. r - 1 : ~FreeIn(memseg, a)
    PROVE  /\ FreeSeg(l, r) \in Seq(Segment) /\ Layout(FreeSeg(l, r), 0, MemSize)
           /\ \A a : FreeIn(FreeSeg(l, r), a) <=> FreeIn(memseg, a) \/ a \in l .. r - 1
<1> DEFINE n == Len(memseg)
           k == RIndex(l)
           joinL == k > 1 /\ memseg[k - 1][2] = l
<1>1. n \in Nat /\ MemSize \in Nat /\ 0 \in Nat
  BY Constants
<1>2. k \in 1 .. n + 1 /\ \A i \in 1 .. n : IF i < k THEN memseg[i][2] <= l ELSE r <= memseg[i][1]
  BY RIndexFacts
<1> HIDE DEF k
<1>3. CASE joinL
  <2> DEFINE j == k - 1
             x == memseg[j][1]
             segs == RemoveAt(memseg, j)
             A == SubSeq(memseg, 1, j - 1)
             B == SubSeq(memseg, j + 1, n)
  <2>1. j \in 1 .. n /\ j + 1 = k /\ memseg[j][2] = l
    BY <1>1, <1>2, <1>3
  <2>2. x \in Nat /\ x < l /\ Aligned(x)
    BY <2>1, SegmentTyped DEF Layout
  <2>3. /\ A \in Seq(Segment) /\ B \in Seq(Segment)
        /\ Layout(A, 0, x) /\ Layout(B, l, MemSize)
        /\ \A a : FreeIn(memseg, a) <=> \/ FreeIn(A, a) \/ FreeIn(B, a) \/ a \in x .. l - 1
    <3> HIDE DEF j
    <3> QED BY <1>1, <2>1, CutSegments
  <2>4. <<x, r>> \in Segment
    BY <1>1, <2>2 DEF Segment
  <2>5. /\ segs \in Seq(Segment) /\ Len(segs) = n - 1
        /\ \A i \in 1 .. n - 1 : segs[i] = IF i < j THEN memseg[i] ELSE memseg[i + 1]
        /\ InsertAt(segs, j, <<x, r>>) = A \o << <<x, r>> >> \o B
    <3> DEFINE e == <<x, r>>
    <3> HIDE DEF j, e
    <3>1. j \in 1 .. Len(memseg) /\ e \in Segment
      BY <2>1, <2>4 DEF e
    <3>2. /\ RemoveAt(memseg, j) \in Seq(Segment) /\ Len(RemoveAt(memseg, j)) = Len(memseg) - 1
          /\ \A i \in 1 .. Len(memseg) - 1 :
                RemoveAt(memseg, j)[i] = IF i < j THEN memseg[i] ELSE memseg[i + 1]
          /\ InsertAt(RemoveAt(memseg, j), j, e) =
                SubSeq(memseg, 1, j - 1) \o <<e>> \o SubSeq(memseg, j + 1, Len(memseg))
      BY <3>1, ReplaceElement
    <3> QED BY <3>2 DEF e
  <2>6. ~(k <= Len(segs) /\ segs[k][1] = r)
    <3>1. SUFFICES ASSUME k \in 1 .. n - 1 PROVE segs[k][1] # r
      BY <1>1, <1>2, <2>5
    <3>2. k \in 1 .. n /\ k + 1 \in 1 .. n /\ ~(k < j) /\ ~(k < k) /\ k < k + 1
      BY <1>1, <2>1, <3>1
    <3>3. segs[k] = memseg[k + 1]
      BY <2>5, <3>1, <3>2
    <3>4. r <= memseg[k][1] /\ memseg[k][1] < memseg[k][2] /\ memseg[k][2] <= memseg[k + 1][1]
      BY <1>2, <3>2 DEF Layout
    <3>5. memseg[k][1] \in Nat /\ memseg[k][2] \in Nat /\ memseg[k + 1][1] \in Nat
      BY <3>2, SegmentTyped
    <3>6. memseg[k + 1][1] # r
      BY <3>4, <3>5
    <3> QED BY <3>3, <3>6
  <2>7. FreeSeg(l, r) = InsertAt(segs, j, <<x, r>>)
    <3> HIDE DEF segs
    <3> QED BY <1>3, <2>6 DEF FreeSeg, k, RIndex, segs
  <2>8. Layout(B, r, MemSize)
    <3> DEFINE m == j + 1
    <3>1. m \in Nat /\ 1 <= m /\ m <= n + 1 /\ n <= Len(memseg)
      BY <1>1, <2>1
    <3>2. \A i \in m .. n : r <= memseg[i][1] /\ memseg[i][2] <= MemSize
      <4>1. \A i \in m .. n : i \in 1 .. n /\ ~(i < k)
        BY <1>1, <2>1
      <4> QED BY <1>2, <4>1 DEF Layout
    <3>3. B = SubSeq(memseg, m, n)
      OBVIOUS
    <3> HIDE DEF m, B
    <3> QED BY <1>1, <3>1, <3>2, <3>3, PartLayout
  <2> HIDE DEF A, B
  <2> DEFINE t == A \o << <<x, r>> >> \o B
  <2>9. /\ t \in Seq(Segment) /\ Layout(t, 0, MemSize)
        /\ \A a : FreeIn(t, a) <=> FreeIn(A, a) \/ FreeIn(B, a) \/ a \in x .. r - 1
    <3>1. x < r
      BY <2>2
    <3> HIDE DEF x
    <3> QED BY <2>2, <2>3, <2>8, <3>1, PlaceBlock
  <2>10. FreeSeg(l, r) = t
    BY <2>5, <2>7
  <2>11. \A a : a \in x .. r - 1 <=> a \in x .. l - 1 \/ a \in l .. r - 1
    <3> HIDE DEF x
    <3> QED BY <2>2
  <2> HIDE DEF t, x
  <2> QED BY <2>3, <2>9, <2>10, <2>11
<1>4. CASE ~joinL /\ k <= n /\ memseg[k][1] = r
  <2> DEFINE y == memseg[k][2]
             A == SubSeq(memseg, 1, k - 1)
             B == SubSeq(memseg, k + 1, n)
  <2>1. k \in 1 .. n
    BY <1>1, <1>2, <1>4
  <2>2. y \in Nat /\ r < y /\ y <= MemSize /\ Aligned(y)
    BY <1>4, <2>1, SegmentTyped DEF Layout
  <2>3. /\ A \in Seq(Segment) /\ B \in Seq(Segment)
        /\ Layout(A, 0, r) /\ Layout(B, y, MemSize)
        /\ \A a : FreeIn(memseg, a) <=> \/ FreeIn(A, a) \/ FreeIn(B, a) \/ a \in r .. y - 1
    BY <1>1, <1>4, <2>1, CutSegments
  <2>4. <<l, y>> \in Segment
    BY <1>1, <2>2 DEF Segment
  <2>5. InsertAt(RemoveAt(memseg, k), k, <<l, y>>) = A \o << <<l, y>> >> \o B
    BY <2>1, <2>4, ReplaceElement
  <2>6. FreeSeg(l, r) = InsertAt(RemoveAt(memseg, k), k, <<l, y>>)
    BY <1>4 DEF FreeSeg, k, RIndex
  <2>7. Layout(A, 0, l)
    <3> DEFINE h == k - 1
    <3>1. h \in Nat /\ 1 \in Nat /\ 1 <= 1 /\ 1 <= h + 1 /\ h <= Len(memseg)
      BY <1>1, <2>1
    <3>2. \A i \in 1 .. h : 0 <= memseg[i][1] /\ memseg[i][2] <= l
      <4>1. \A i \in 1 .. h : i \in 1 .. n /\ i < k
        BY <1>1, <2>1
      <4> QED BY <1>2, <4>1 DEF Layout
    <3>3. A = SubSeq(memseg, 1, h)
      OBVIOUS
    <3> HIDE DEF h, A
    <3> QED BY <1>1, <3>1, <3>2, <3>3, PartLayout
  <2> HIDE DEF A, B
  <2> DEFINE t == A \o << <<l, y>> >> \o B
  <2>8. /\ t \in Seq(Segment) /\ Layout(t, 0, MemSize)
        /\ \A a : FreeIn(t, a) <=> FreeIn(A, a) \/ FreeIn(B, a) \/ a \in l .. y - 1
    <3>1. l < y
      BY <2>2
    <3> HIDE DEF y
    <3> QED BY <2>2, <2>3, <2>7, <3>1, PlaceBlock
  <2>9. FreeSeg(l, r) = t
    BY <2>5, <2>6
  <2>10. \A a : a \in l .. y - 1 <=> a \in l .. r - 1 \/ a \in r .. y - 1
    <3> HIDE DEF y
    <3> QED BY <2>2
  <2> HIDE DEF t, y
  <2> QED BY <2>3, <2>8, <2>9, <2>10
<1>5. CASE ~joinL /\ ~(k <= n /\ memseg[k][1] = r)
  <2> DEFINE h == k - 1
             A == SubSeq(memseg, 1, h)
             B == SubSeq(memseg, k, n)
             t == A \o << <<l, r>> >> \o B
  <2>1. FreeSeg(l, r) = t
    <3>1. FreeSeg(l, r) = InsertAt(memseg, k, <<l, r>>)
      BY <1>5 DEF FreeSeg, k, RIndex
    <3> QED BY <3>1 DEF InsertAt
  <2>2. h \in Nat /\ 1 \in Nat /\ 1 <= 1 /\ 1 <= h + 1 /\ h <= Len(memseg)
        /\ k \in Nat /\ 1 <= k /\ k <= n + 1 /\ n <= Len(memseg)
    BY <1>1, <1>2
  <2>3. \A i \in 1 .. h : 0 <= memseg[i][1] /\ memseg[i][2] <= l
    <3>1. \A i \in 1 .. h : i \in 1 .. n /\ i < k
      BY <1>1, <1>2
    <3> QED BY <1>2, <3>1 DEF Layout
  <2>4. \A i \in k .. n : r <= memseg[i][1] /\ memseg[i][2] <= MemSize
    <3>1. \A i \in k .. n : i \in 1 .. n /\ ~(i < k)
      BY <1>1, <1>2
    <3> QED BY <1>2, <3>1 DEF Layout
  <2>5. \A i \in 1 .. n : i \in 1 .. h \/ i \in k .. n
    BY <1>1, <1>2
  <2>6. (\A i \in 1 .. h : i \in 1 .. n) /\ (\A i \in k .. n : i \in 1 .. n)
    BY <1>1, <1>2
  <2> HIDE DEF h
  <2>7. /\ A \in Seq(Segment) /\ Layout(A, 0, l)
        /\ \A a : FreeIn(A, a) <=> \E i \in 1 .. h : a \in memseg[i][1] .. memseg[i][2] - 1
    BY <1>1, <2>2, <2>3, PartLayout
  <2>8. /\ B \in Seq(Segment) /\ Layout(B, r, MemSize)
        /\ \A a : FreeIn(B, a) <=> \E i \in k .. n : a \in memseg[i][1] .. memseg[i][2] - 1
    BY <1>1, <2>2, <2>4, PartLayout
  <2> HIDE DEF A, B
  <2>9. /\ t \in Seq(Segment) /\ Layout(t, 0, MemSize)
        /\ \A a : FreeIn(t, a) <=> FreeIn(A, a) \/ FreeIn(B, a) \/ a \in l .. r - 1
    BY <2>7, <2>8, PlaceBlock
  <2>10. \A a : FreeIn(memseg, a) <=> FreeIn(A, a) \/ FreeIn(B, a)
    BY <2>5, <2>6, <2>7, <2>8 DEF FreeIn
  <2> HIDE DEF t
  <2> QED BY <2>1, <2>9, <2>10
<1> QED BY <1>3, <1>4, <1>5

-----------------------------------------------------------------------------
(* The free lists, as sets.                                                *)

LEMMA SetOfSeq ==
    ASSUME NEW S, NEW s \in Seq(S)
    PROVE  /\ Len(s) \in Nat /\ DOMAIN s = 1 .. Len(s)
           /\ \A x : x \in ToSet(s) <=> \E i \in 1 .. Len(s) : x = s[i]
           /\ ToSet(s) \subseteq S
           /\ IsInjective(s) <=> \A i, j \in 1 .. Len(s) : s[i] = s[j] => i = j
<1>1. Len(s) \in Nat /\ DOMAIN s = 1 .. Len(s) /\ \A i \in 1 .. Len(s) : s[i] \in S
  OBVIOUS
<1> QED BY <1>1 DEF ToSet, IsInjective

LEMMA TakeHead ==
    ASSUME NEW S, NEW s \in Seq(S), s # <<>>, IsInjective(s)
    PROVE  /\ Tail(s) \in Seq(S) /\ IsInjective(Tail(s)) /\ Head(s) \in ToSet(s)
           /\ Head(s) \in S /\ ToSet(Tail(s)) = ToSet(s) \ {Head(s)}
<1> DEFINE t == Tail(s)
           n == Len(s)
<1>1. /\ t \in Seq(S) /\ n \in Nat /\ n >= 1 /\ Len(t) = n - 1 /\ Head(s) = s[1] /\ s[1] \in S
      /\ \A i \in 1 .. n - 1 : t[i] = s[i + 1] /\ i + 1 \in 1 .. n
  BY TailFacts
<1>2. \A i, j \in 1 .. n : s[i] = s[j] => i = j
  BY SetOfSeq
<1> HIDE DEF t
<1>3. \A i, j \in 1 .. Len(t) : t[i] = t[j] => i = j
  <2> SUFFICES ASSUME NEW i \in 1 .. Len(t), NEW j \in 1 .. Len(t), t[i] = t[j] PROVE i = j
    OBVIOUS
  <2>1. i + 1 = j + 1
    BY <1>1, <1>2
  <2> QED BY <2>1
<1>4. \A x : x \in ToSet(t) <=> x \in ToSet(s) /\ x # s[1]
  <2> SUFFICES ASSUME NEW x PROVE x \in ToSet(t) <=> x \in ToSet(s) /\ x # s[1]
    OBVIOUS
  <2>1. ASSUME NEW i \in 1 .. Len(t), x = t[i] PROVE x \in ToSet(s) /\ x # s[1]
    <3>1. x = s[i + 1] /\ i + 1 \in 1 .. n /\ 1 \in 1 .. n /\ i + 1 # 1
      BY <1>1, <2>1
    <3> QED BY <1>2, <3>1, SetOfSeq
  <2>2. ASSUME NEW i \in 1 .. n, x = s[i], x # s[1] PROVE x \in ToSet(t)
    <3>1. i # 1
      BY <2>2
    <3>2. i - 1 \in 1 .. Len(t) /\ (i - 1) + 1 = i
      BY <1>1, <3>1
    <3>3. t[i - 1] = x
      BY <1>1, <2>2, <3>2
    <3> QED BY <1>1, <3>2, <3>3, SetOfSeq
  <2> QED BY <1>1, <2>1, <2>2, SetOfSeq
<1>5. IsInjective(t)
  BY <1>1, <1>3, SetOfSeq
<1>6. s[1] \in ToSet(s)
  BY <1>1, SetOfSeq
<1> QED BY <1>1, <1>4, <1>5, <1>6 DEF t

LEMMA TakeFirst ==
    ASSUME NEW S, NEW s \in Seq(S), IsInjective(s), NEW n \in Nat, n <= Len(s)
    PROVE  LET a == SubSeq(s, 1, n)
               b == SubSeq(s, n + 1, Len(s))
           IN  /\ a \in Seq(S) /\ b \in Seq(S) /\ Len(a) = n
               /\ IsInjective(a) /\ IsInjective(b)
               /\ ToSet(a) \subseteq ToSet(s) /\ ToSet(b) \subseteq ToSet(s)
               /\ ToSet(a) \cap ToSet(b) = {}
<1> DEFINE a == SubSeq(s, 1, n)
           m == n + 1
           b == SubSeq(s, m, Len(s))
           k == Len(s)
<1>1. k \in Nat /\ \A i, j \in 1 .. k : s[i] = s[j] => i = j
  BY SetOfSeq
<1>2. a \in Seq(S) /\ Len(a) = n /\ \A i \in 1 .. n : a[i] = s[i] /\ i \in 1 .. k
  <2>1. 1 \in Nat /\ 1 <= 1 /\ 1 <= n + 1 /\ n - 1 + 1 = n /\ \A i \in 1 .. n : 1 + i - 1 = i /\ i \in 1 .. k
    OBVIOUS
  <2>2. /\ SubSeq(s, 1, n) \in Seq(S) /\ Len(SubSeq(s, 1, n)) = n - 1 + 1
        /\ \A i \in 1 .. n - 1 + 1 : SubSeq(s, 1, n)[i] = s[1 + i - 1]
    BY <2>1, SubSeqFacts
  <2> QED BY <2>1, <2>2
<1>3. b \in Seq(S) /\ Len(b) = k - n /\ \A i \in 1 .. k - n : b[i] = s[n + i] /\ n + i \in 1 .. k
  <2>1. m \in Nat /\ 1 <= m /\ m <= k + 1 /\ k <= Len(s) /\ k - m + 1 = k - n
        /\ \A i \in 1 .. k - n : m + i - 1 = n + i /\ n + i \in 1 .. k
    BY <1>1
  <2> HIDE DEF m
  <2>2. /\ SubSeq(s, m, k) \in Seq(S) /\ Len(SubSeq(s, m, k)) = k - m + 1
        /\ \A i \in 1 .. k - m + 1 : SubSeq(s, m, k)[i] = s[m + i - 1]
    BY <1>1, <2>1, SubSeqFacts
  <2> QED BY <2>1, <2>2
<1> HIDE DEF a, b
<1>4. \A i, j \in 1 .. n : a[i] = a[j] => i = j
  BY <1>1, <1>2
<1>5. \A i, j \in 1 .. k - n : b[i] = b[j] => i = j
  <2> SUFFICES ASSUME NEW i \in 1 .. k - n, NEW j \in 1 .. k - n, b[i] = b[j] PROVE i = j
    OBVIOUS
  <2>1. n + i = n + j
    BY <1>1, <1>3
  <2> QED BY <2>1
<1>6. IsInjective(a) /\ IsInjective(b)
  BY <1>2, <1>3, <1>4, <1>5, SetOfSeq
<1>7. ToSet(a) \subseteq ToSet(s)
  BY <1>2, SetOfSeq
<1>8. ToSet(b) \subseteq ToSet(s)
  BY <1>3, SetOfSeq
<1>9. ASSUME NEW x \in ToSet(a), x \in ToSet(b) PROVE FALSE
  <2>1. PICK i \in 1 .. n : x = s[i] /\ i \in 1 .. k
    BY <1>2, SetOfSeq
  <2>2. PICK j \in 1 .. k - n : x = s[n + j] /\ n + j \in 1 .. k
    BY <1>3, <1>9, SetOfSeq
  <2>3. i = n + j
    BY <1>1, <2>1, <2>2
  <2> QED BY <1>1, <2>3
<1> QED BY <1>2, <1>3, <1>6, <1>7, <1>8, <1>9 DEF a, b, m

LEMMA GiveOneBack ==
    ASSUME NEW S, NEW s \in Seq(S), IsInjective(s), NEW e \in S, e \notin ToSet(s)
    PROVE  /\ Append(s, e) \in Seq(S) /\ IsInjective(Append(s, e))
           /\ ToSet(Append(s, e)) = ToSet(s) \cup {e}
<1> DEFINE t == Append(s, e)
           n == Len(s)
<1>1. /\ t \in Seq(S) /\ n \in Nat /\ Len(t) = n + 1 /\ t[n + 1] = e
      /\ \A i \in 1 .. n : t[i] = s[i]
  BY AppendFacts
<1>2. \A i, j \in 1 .. n : s[i] = s[j] => i = j
  BY SetOfSeq
<1>3. \A i \in 1 .. n : s[i] # e
  BY SetOfSeq
<1> HIDE DEF t
<1>4. \A i \in 1 .. n + 1 : i \in 1 .. n \/ i = n + 1
  BY <1>1
<1>5. \A i, j \in 1 .. n + 1 : t[i] = t[j] => i = j
  BY <1>1, <1>2, <1>3, <1>4
<1>6. IsInjective(t)
  BY <1>1, <1>5, SetOfSeq
<1>7. \A x : x \in ToSet(t) <=> x \in ToSet(s) \/ x = e
  <2>1. \A x : x \in ToSet(t) <=> \E i \in 1 .. n + 1 : x = t[i]
    BY <1>1, SetOfSeq
  <2>2. \A x : x \in ToSet(s) <=> \E i \in 1 .. n : x = s[i]
    BY SetOfSeq
  <2>3. n + 1 \in 1 .. n + 1 /\ \A i \in 1 .. n : i \in 1 .. n + 1
    BY <1>1
  <2> QED BY <1>1, <1>4, <2>1, <2>2, <2>3
<1> QED BY <1>1, <1>6, <1>7 DEF t

LEMMA GiveManyBack ==
    ASSUME NEW S, NEW s \in Seq(S), NEW t \in Seq(S), IsInjective(s), IsInjective(t),
           ToSet(s) \cap ToSet(t) = {}
    PROVE  /\ s \o t \in Seq(S) /\ IsInjective(s \o t)
           /\ ToSet(s \o t) = ToSet(s) \cup ToSet(t)
<1> DEFINE u == s \o t
           m == Len(s)
           n == Len(t)
<1>1. /\ u \in Seq(S) /\ m \in Nat /\ n \in Nat /\ Len(u) = m + n
      /\ \A i \in 1 .. m + n : u[i] = IF i <= m THEN s[i] ELSE t[i - m]
  BY ConcatFacts
<1>2. \A i, j \in 1 .. m : s[i] = s[j] => i = j
  BY SetOfSeq
<1>3. \A i, j \in 1 .. n : t[i] = t[j] => i = j
  BY SetOfSeq
<1>4. \A i \in 1 .. m, j \in 1 .. n : s[i] # t[j]
  BY SetOfSeq
<1> HIDE DEF u, m, n
<1>5. \A i \in 1 .. m + n : \/ i \in 1 .. m /\ u[i] = s[i]
                            \/ i - m \in 1 .. n /\ ~(i <= m) /\ u[i] = t[i - m]
  BY <1>1
<1>6. ASSUME NEW i \in 1 .. m + n, NEW j \in 1 .. m + n, u[i] = u[j] PROVE i = j
  <2>1. CASE i \in 1 .. m /\ j \in 1 .. m /\ u[i] = s[i] /\ u[j] = s[j]
    BY <1>2, <1>6, <2>1
  <2>2. CASE i - m \in 1 .. n /\ j - m \in 1 .. n /\ u[i] = t[i - m] /\ u[j] = t[j - m]
    <3>1. i - m = j - m
      BY <1>3, <1>6, <2>2
    <3> QED BY <1>1, <3>1
  <2> QED BY <1>4, <1>5, <1>6, <2>1, <2>2
<1>7. IsInjective(u)
  BY <1>1, <1>6, SetOfSeq
<1>8. \A x : x \in ToSet(u) <=> x \in ToSet(s) \/ x \in ToSet(t)
  <2>0. u \in Seq(S) /\ Len(u) = m + n
    BY <1>1
  <2>1. \A x : x \in ToSet(u) <=> \E i \in 1 .. m + n : x = u[i]
    <3>1. \A x : x \in ToSet(u) <=> \E i \in 1 .. Len(u) : x = u[i]
      BY <2>0, SetOfSeq
    <3> QED BY <2>0, <3>1
  <2>2. \A x : x \in ToSet(s) <=> \E i \in 1 .. m : x = s[i]
    BY SetOfSeq DEF m
  <2>3. \A x : x \in ToSet(t) <=> \E i \in 1 .. n : x = t[i]
    BY SetOfSeq DEF n
  <2>4. \A i \in 1 .. m : i \in 1 .. m + n /\ u[i] = s[i]
    BY <1>1
  <2>5. \A i \in 1 .. n : m + i \in 1 .. m + n /\ u[m + i] = t[i]
    <3> SUFFICES ASSUME NEW i \in 1 .. n PROVE m + i \in 1 .. m + n /\ u[m + i] = t[i]
      OBVIOUS
    <3>1. m + i \in 1 .. m + n /\ ~(m + i <= m) /\ (m + i) - m = i
      BY <1>1
    <3> QED BY <1>1, <3>1
  <2> QED BY <1>5, <2>1, <2>2, <2>3, <2>4, <2>5
<1> QED BY <1>1, <1>7, <1>8 DEF u

-----------------------------------------------------------------------------
(* The entries of a group name the group or one of its nodes.              *)
LEMMA CallsFacts ==
    ASSUME NEW g, NEW nodes \in Seq(Node), NEW port
    PROVE  LET calls == TableCalls(g, nodes, port)
           IN  /\ Len(calls) = 2 * Len(nodes) + 3 /\ DOMAIN calls = 1 .. Len(calls)
               /\ \A e \in ToSet(calls) :
                     GroupsOf(e) \subseteq {g} /\ NodesOf(e) \subseteq ToSet(nodes)
<1> DEFINE m == Len(nodes)
           P == << <<"recirculate_table", g, port>>, <<"metadata_table", g, m>> >>
           Entry(j) == IF j % 2 = 1 THEN <<"restore_table", g, (j - 1) \div 2>>
                       ELSE <<"node", nodes[j \div 2], (j - 1) \div 2>>
           Q == [j \in 1 .. 2 * m |-> Entry(j)]
           R == << <<"mgid", g, nodes>> >>
           OK == {e \in {P[1], P[2], R[1]} \cup {Entry(j) : j \in 1 .. 2 * m} :
                     GroupsOf(e) \subseteq {g} /\ NodesOf(e) \subseteq ToSet(nodes)}
<1>1. m \in Nat /\ 2 * m \in Nat
  OBVIOUS
<1>2. P[1] \in OK /\ P[2] \in OK /\ R[1] \in OK
  BY DEF GroupsOf, NodesOf
<1>3. ASSUME NEW j \in 1 .. 2 * m PROVE Entry(j) \in OK
  <2>1. CASE j % 2 = 1
    BY <2>1 DEF GroupsOf, NodesOf
  <2>2. CASE j % 2 # 1
    <3>1. j \div 2 \in 1 .. m
      BY <1>1, <2>2
    <3>2. nodes[j \div 2] \in ToSet(nodes)
      BY <3>1, SetOfSeq
    <3> QED BY <2>2, <3>2 DEF GroupsOf, NodesOf
  <2> QED BY <2>1, <2>2
<1>4. P \in Seq(OK) /\ Len(P) = 2
  <2> HIDE DEF OK
  <2> QED BY <1>2
<1>5. R \in Seq(OK) /\ Len(R) = 1
  <2> HIDE DEF OK
  <2> QED BY <1>2
<1>6. Q \in Seq(OK) /\ Len(Q) = 2 * m
  <2> HIDE DEF OK, Entry
  <2> QED BY <1>1, <1>3
<1>7. TableCalls(g, nodes, port) = P \o Q \o R
  BY DEF TableCalls
<1>8. \A e \in OK : GroupsOf(e) \subseteq {g} /\ NodesOf(e) \subseteq ToSet(nodes)
  OBVIOUS
<1> HIDE DEF OK, P, Q, R
<1>9. P \o Q \in Seq(OK) /\ Len(P \o Q) = 2 + 2 * m
  <2>1. P \o Q \in Seq(OK) /\ Len(P \o Q) = Len(P) + Len(Q)
    BY <1>4, <1>6, ConcatFacts
  <2> QED BY <1>4, <1>6, <2>1
<1> DEFINE PQ == P \o Q
<1> HIDE DEF PQ
<1>10. PQ \in Seq(OK) /\ Len(PQ) = 2 + 2 * m
  BY <1>9 DEF PQ
<1>11. PQ \o R \in Seq(OK) /\ Len(PQ \o R) = Len(PQ) + Len(R)
  BY <1>5, <1>10, ConcatFacts
<1> DEFINE c == TableCalls(g, nodes, port)
<1>12. c = PQ \o R
  BY <1>7 DEF PQ
<1> HIDE DEF c
<1>13. c \in Seq(OK) /\ Len(c) = 2 * m + 3
  BY <1>1, <1>5, <1>10, <1>11, <1>12
<1>14. DOMAIN c = 1 .. Len(c) /\ ToSet(c) \subseteq OK
  BY <1>13, SetOfSeq
<1> QED BY <1>8, <1>13, <1>14 DEF c

(* Two entries with the same key name the same group or node.              *)
LEMMA KeyFacts ==
    /\ \A e : SameKey(e, e)
    /\ \A e, f : SameKey(e, f) =>
          /\ SameKey(f, e) /\ GroupsOf(e) = GroupsOf(f) /\ NodesOf(e) = NodesOf(f)
          /\ GroupsOf(e) # {} \/ NodesOf(e) # {}
BY DEF SameKey, GroupsOf, NodesOf

(* No call of CreateGroup is made twice.                                   *)
LEMMA CallsDiffer ==
    ASSUME NEW g, NEW nodes \in Seq(Node), NEW port
    PROVE  LET calls == TableCalls(g, nodes, port)
           IN  \A i, j \in 1 .. Len(calls) : calls[i] = calls[j] => i = j
<1> DEFINE m == Len(nodes)
           n == 2 * m
           a == <<"recirculate_table", g, port>>
           b == <<"metadata_table", g, m>>
           Entry(j) == IF j % 2 = 1 THEN <<"restore_table", g, (j - 1) \div 2>>
                       ELSE <<"node", nodes[j \div 2], (j - 1) \div 2>>
           Q == [j \in 1 .. n |-> Entry(j)]
           z == <<"mgid", g, nodes>>
           S == {a, b, z} \cup {Entry(j) : j \in 1 .. n}
           c == TableCalls(g, nodes, port)
<1>1. m \in Nat /\ n \in Nat
  OBVIOUS
<1>2. c = <<a, b>> \o Q \o <<z>>
  BY DEF TableCalls
<1>3. a[1] = "recirculate_table" /\ b[1] = "metadata_table" /\ z[1] = "mgid"
  OBVIOUS
<1>4. ASSUME NEW j \in 1 .. n
      PROVE  /\ Entry(j)[1] = IF j % 2 = 1 THEN "restore_table" ELSE "node"
             /\ Entry(j)[3] = (j - 1) \div 2
  OBVIOUS
<1>5. \A i, j \in 1 .. n : i % 2 = j % 2 /\ (i - 1) \div 2 = (j - 1) \div 2 => i = j
  <2> HIDE DEF n
  <2> QED BY <1>1
<1>6. \A j \in 1 .. n : j % 2 \in {0, 1}
  <2> HIDE DEF n
  <2> QED BY <1>1
<1>7. \A i, j \in 1 .. n : Entry(i) = Entry(j) => i = j
  <2> SUFFICES ASSUME NEW i \in 1 .. n, NEW j \in 1 .. n, Entry(i) = Entry(j) PROVE i = j
    OBVIOUS
  <2>1. (i - 1) \div 2 = (j - 1) \div 2
    BY <1>4
  <2>2. Entry(i)[1] = Entry(j)[1]
    OBVIOUS
  <2>3. i % 2 = 1 <=> j % 2 = 1
    BY <1>4, <2>2
  <2>4. i % 2 = j % 2
    BY <1>6, <2>3
  <2> QED BY <1>5, <2>1, <2>4
<1>8. <<a, b>> \in Seq(S) /\ Len(<<a, b>>) = 2 /\ <<a, b>>[1] = a /\ <<a, b>>[2] = b
  <2> HIDE DEF a, b, z, Entry
  <2> QED OBVIOUS
<1>9. <<z>> \in Seq(S) /\ Len(<<z>>) = 1 /\ <<z>>[1] = z
  <2> HIDE DEF a, b, z, Entry
  <2> QED OBVIOUS
<1>10. Q \in Seq(S) /\ Len(Q) = n /\ \A j \in 1 .. n : Q[j] = Entry(j)
  <2> HIDE DEF a, b, z, Entry, n
  <2> QED BY <1>1
<1> DEFINE P == <<a, b>>
           R == <<z>>
           PQ == P \o Q
<1> HIDE DEF P, Q, R, S
<1>11. /\ PQ \in Seq(S) /\ Len(PQ) = 2 + n
       /\ \A i \in 1 .. 2 + n : PQ[i] = IF i <= 2 THEN P[i] ELSE Q[i - 2]
  <2>1. P \in Seq(S) /\ Q \in Seq(S) /\ Len(P) = 2 /\ Len(Q) = n
    BY <1>8, <1>10 DEF P
  <2>2. /\ P \o Q \in Seq(S) /\ Len(P \o Q) = Len(P) + Len(Q)
        /\ \A i \in 1 .. Len(P) + Len(Q) :
              (P \o Q)[i] = IF i <= Len(P) THEN P[i] ELSE Q[i - Len(P)]
    BY <2>1, ConcatFacts
  <2> HIDE DEF n
  <2> QED BY <2>1, <2>2
<1> HIDE DEF PQ
<1>12. /\ Len(c) = n + 3
       /\ \A i \in 1 .. n + 3 : c[i] = IF i <= 2 + n THEN PQ[i] ELSE R[i - (2 + n)]
  <2>1. PQ \in Seq(S) /\ R \in Seq(S) /\ Len(PQ) = 2 + n /\ Len(R) = 1
    BY <1>9, <1>11 DEF R
  <2>2. /\ PQ \o R \in Seq(S) /\ Len(PQ \o R) = Len(PQ) + Len(R)
        /\ \A i \in 1 .. Len(PQ) + Len(R) :
              (PQ \o R)[i] = IF i <= Len(PQ) THEN PQ[i] ELSE R[i - Len(PQ)]
    BY <2>1, ConcatFacts
  <2>3. c = PQ \o R
    BY <1>2 DEF PQ, P, R
  <2>4. (2 + n) + 1 = n + 3
    BY <1>1
  <2> HIDE DEF n, c
  <2> QED BY <2>1, <2>2, <2>3, <2>4
<1> HIDE DEF c, a, b, z, Entry, n
<1>13. ASSUME NEW i \in 1 .. n + 3
       PROVE  \/ i = 1 /\ c[i] = a
              \/ i = 2 /\ c[i] = b
              \/ i = n + 3 /\ c[i] = z
              \/ i - 2 \in 1 .. n /\ c[i] = Entry(i - 2)
  <2>1. CASE i = 1
    <3>1. i <= 2 + n /\ i \in 1 .. 2 + n /\ i <= 2
      BY <1>1, <2>1
    <3>2. c[i] = P[1]
      BY <1>11, <1>12, <2>1, <3>1
    <3> QED BY <1>8, <2>1, <3>2 DEF P
  <2>2. CASE i = 2
    <3>1. i <= 2 + n /\ i \in 1 .. 2 + n /\ i <= 2
      BY <1>1, <2>2
    <3>2. c[i] = P[2]
      BY <1>11, <1>12, <2>2, <3>1
    <3> QED BY <1>8, <2>2, <3>2 DEF P
  <2>3. CASE i = n + 3
    <3>1. ~(i <= 2 + n) /\ i - (2 + n) = 1
      BY <1>1, <2>3
    <3>2. c[i] = R[1]
      BY <1>12, <3>1
    <3> QED BY <1>9, <2>3, <3>2 DEF R
  <2>4. CASE i # 1 /\ i # 2 /\ i # n + 3
    <3>1. i <= 2 + n /\ i \in 1 .. 2 + n /\ ~(i <= 2) /\ i - 2 \in 1 .. n
      BY <1>1, <2>4
    <3>2. c[i] = Q[i - 2]
      BY <1>11, <1>12, <3>1
    <3> QED BY <1>10, <3>1, <3>2
  <2> QED BY <2>1, <2>2, <2>3, <2>4
<1>14. \A j \in 1 .. n : Entry(j)[1] \in {"restore_table", "node"}
  BY <1>4
<1>15. a # b /\ a # z /\ b # z /\ \A j \in 1 .. n : Entry(j) # a /\ Entry(j) # b /\ Entry(j) # z
  BY <1>3, <1>14
<1>16. ASSUME NEW i \in 1 .. n + 3, NEW j \in 1 .. n + 3, c[i] = c[j] PROVE i = j
  <2>1. CASE i - 2 \in 1 .. n /\ c[i] = Entry(i - 2) /\ j - 2 \in 1 .. n /\ c[j] = Entry(j - 2)
    <3>1. i - 2 = j - 2
      BY <1>7, <1>16, <2>1
    <3> QED BY <1>1, <3>1
  <2>2. CASE ~(i - 2 \in 1 .. n /\ c[i] = Entry(i - 2)) \/ ~(j - 2 \in 1 .. n /\ c[j] = Entry(j - 2))
    BY <1>13, <1>15, <1>16, <2>2
  <2> QED BY <2>1, <2>2
<1> QED BY <1>12, <1>16 DEF c

(* Whatever DestroyGroup deletes last to first is what CreateGroup added.  *)
LEMMA ReversedCalls ==
    ASSUME NEW c, Len(c) \in Nat, DOMAIN c = 1 .. Len(c)
    PROVE  /\ Len(Reverse(c)) = Len(c)
           /\ \A k \in 0 .. Len(c) :
                 {Reverse(c)[j] : j \in 1 .. k} = {c[j] : j \in Len(c) - k + 1 .. Len(c)}
           /\ {Reverse(c)[j] : j \in 1 .. Len(c)} = ToSet(c)
<1> DEFINE n == Len(c)
           r == [i \in 1 .. n |-> c[(n - i) + 1]]
<1>1. Reverse(c) = r
  BY DEF Reverse
<1>2. Len(r) = n
  OBVIOUS
<1>3. \A j \in 1 .. n : r[j] = c[(n - j) + 1] /\ (n - j) + 1 \in 1 .. n /\ (n - ((n - j) + 1)) + 1 = j
  OBVIOUS
<1> HIDE DEF r, n
<1>4. n \in Nat /\ DOMAIN c = 1 .. n
  BY DEF n
<1>6. ASSUME NEW k \in 0 .. n PROVE {r[j] : j \in 1 .. k} = {c[j] : j \in n - k + 1 .. n}
  <2>1. ASSUME NEW j \in 1 .. k PROVE \E i \in n - k + 1 .. n : r[j] = c[i]
    <3>1. j \in 1 .. n /\ (n - j) + 1 \in n - k + 1 .. n
      BY <1>4
    <3> QED BY <1>3, <3>1
  <2>2. ASSUME NEW i \in n - k + 1 .. n PROVE \E j \in 1 .. k : c[i] = r[j]
    <3> DEFINE j == (n - i) + 1
    <3>1. j \in 1 .. k /\ j \in 1 .. n /\ (n - j) + 1 = i
      BY <1>4
    <3> HIDE DEF j
    <3> QED BY <1>3, <3>1
  <2> DEFINE I == 1 .. k
             J == n - k + 1 .. n
  <2>3. (\A j \in I : \E i \in J : r[j] = c[i]) /\ (\A i \in J : \E j \in I : c[i] = r[j])
    BY <2>1, <2>2
  <2> HIDE DEF I, J
  <2>4. {r[j] : j \in I} = {c[i] : i \in J}
    BY <2>3
  <2> QED BY <2>4 DEF I, J
<1>7. ASSUME NEW i \in 1 .. n PROVE \E j \in 1 .. n : c[i] = r[j]
  <2>1. (n - i) + 1 \in 1 .. n /\ r[(n - i) + 1] = c[(n - ((n - i) + 1)) + 1]
    BY <1>3
  <2> QED BY <1>3, <2>1
<1>8. {r[j] : j \in 1 .. n} = ToSet(c)
  <2>1. \A j \in 1 .. n : r[j] \in ToSet(c)
    BY <1>3, <1>4 DEF ToSet
  <2>2. \A x \in ToSet(c) : \E j \in 1 .. n : x = r[j]
    BY <1>4, <1>7 DEF ToSet
  <2> QED BY <2>1, <2>2
<1> QED BY <1>1, <1>2, <1>6, <1>8 DEF n

(* select_recir_port_idx() always finds a port.                            *)
LEMMA PortFacts ==
    ASSUME recir_port_cnt \in [Port -> Nat]
    PROVE  SelectRecirPort \in Port
<1> DEFINE T == {recir_port_cnt[p] : p \in Port}
<1>1. T \subseteq Nat /\ T # {} /\ Port \subseteq Nat
  <2>1. 1 \in Port
    BY Constants DEF Port
  <2> QED BY <2>1 DEF Port
<1>2. PICK c \in T : \A d \in T : c <= d
  <2> HIDE DEF T
  <2> QED BY <1>1, LeastElement
<1> DEFINE Q == {p \in Port : recir_port_cnt[p] = c}
<1>3. Q \subseteq Nat /\ Q # {}
  BY <1>1, <1>2
<1>4. PICK p \in Q : \A q \in Q : p <= q
  <2> HIDE DEF Q
  <2> QED BY <1>3, LeastElement
<1>5. p \in Port /\ \A q \in Port : recir_port_cnt[p] <= recir_port_cnt[q]
  BY <1>2, <1>4
<1>6. \A q \in 1 .. p - 1 : recir_port_cnt[q] > recir_port_cnt[p]
  <2> SUFFICES ASSUME NEW q \in 1 .. p - 1 PROVE recir_port_cnt[q] > recir_port_cnt[p]
    OBVIOUS
  <2>1. q \in Port /\ ~(p <= q) /\ q \in Nat /\ p \in Nat
    BY <1>4, Constants DEF Port
  <2>2. q \notin Q
    BY <1>4, <2>1
  <2>3. recir_port_cnt[q] # c /\ recir_port_cnt[p] = c
    BY <1>4, <2>1, <2>2
  <2>4. recir_port_cnt[q] \in Nat /\ recir_port_cnt[p] \in Nat /\ recir_port_cnt[p] <= recir_port_cnt[q]
    BY <1>5, <2>1
  <2> QED BY <2>3, <2>4
<1>7. \E x \in Port :
        /\ \A q \in Port : recir_port_cnt[x] <= recir_port_cnt[q]
        /\ \A q \in 1 .. x - 1 : recir_port_cnt[q] > recir_port_cnt[x]
  BY <1>5, <1>6
<1> QED BY <1>7 DEF SelectRecirPort

-----------------------------------------------------------------------------
(* The invariant.  MemInv is what MemoryPartition says of the memory.  For *)
(* the tables, what an incomplete Init left never has the key of an entry  *)
(* of a live group, and all other entries that name a live group, or one   *)
(* of its nodes, are ones DestroyGroup will delete: the first m calls of   *)
(* CreateGroup, where m is less than all only after an exception.          *)

NodesHeld(g) == ToSet(undo[g].nodes)
Calls(g) == TableCalls(g, undo[g].nodes, undo[g].port)

MemInv ==
    /\ memseg \in Seq(Segment) /\ Layout(memseg, 0, MemSize)
    /\ \A g \in Live : Aligned(undo[g].addr)
    /\ \A g \in Live : \A a \in Block(g) : a \in Addr /\ ~FreeIn(memseg, a)
    /\ \A g, h \in Live : g # h => Block(g) \cap Block(h) = {}
    /\ failures = 0 => \A a \in Addr : FreeIn(memseg, a) \/ \E g \in Live : a \in Block(g)

IdsInv ==
    /\ IsInjective(free_group) /\ IsInjective(free_node)
    /\ \A g \in Live :
        /\ g \notin ToSet(free_group)
        /\ NodesHeld(g) \cap ToSet(free_node) = {} /\ IsInjective(undo[g].nodes)
    /\ \A g, h \in Live : g # h => NodesHeld(g) \cap NodesHeld(h) = {}

(* The entries of the first m calls are in the table, and no others.       *)
FirstCalls(calls, table, m) ==
    \A j \in 1 .. Len(calls) : calls[j] \in table <=> j <= m

EntriesInv ==
    /\ \A e \in entries \ stale :
        /\ GroupsOf(e) \cap ToSet(free_group) = {}
        /\ NodesOf(e) \cap ToSet(free_node) = {}
        /\ \A g \in Live : g \in GroupsOf(e) \/ NodesOf(e) \cap NodesHeld(g) # {}
                              => e \in ToSet(Calls(g))
    /\ \A e \in stale : \A g \in Live : \A f \in ToSet(Calls(g)) : ~SameKey(e, f)
    /\ failures = 0 => stale = {}
    /\ \A g \in Live : \E m \in 0 .. Len(Calls(g)) :
        FirstCalls(Calls(g), entries, m) /\ (failures = 0 => m = Len(Calls(g)))

Users(p) == {g \in Live : undo[g].port = p}

PortInv == \A p \in Port : recir_port_cnt[p] >= Cardinality(Users(p))

ControlInv == TypeOK /\ MemInv /\ IdsInv /\ EntriesInv /\ PortInv

Undo == [addr : Addr, nodes : Seq(Node), port : Port]

-----------------------------------------------------------------------------
(* What CreateGroup does: it takes a free block, an id and nodes; then the *)
(* group is there with all of its entries, or with an exception without    *)
(* some of them.                                                           *)
CreateEffect(l, g, nodes, port) ==
    /\ memseg' \in Seq(Segment) /\ Layout(memseg', 0, MemSize)
    /\ \A a : FreeIn(memseg', a) <=> FreeIn(memseg, a) /\ a \notin l .. l + AllocSize - 1
    /\ \A a \in l .. l + AllocSize - 1 : FreeIn(memseg, a) /\ a \in Addr
    /\ free_group' \in Seq(Group) /\ IsInjective(free_group') /\ g \in ToSet(free_group)
    /\ ToSet(free_group') = ToSet(free_group) \ {g}
    /\ free_node' \in Seq(Node) /\ IsInjective(free_node') /\ IsInjective(nodes)
    /\ ToSet(free_node') \subseteq ToSet(free_node) /\ ToSet(nodes) \subseteq ToSet(free_node)
    /\ ToSet(nodes) \cap ToSet(free_node') = {}
    /\ recir_port_cnt' = PortTaken(port)
    /\ stale' = stale /\ Aligned(l)
    /\ entries \subseteq entries'
    /\ entries' \subseteq entries \cup ToSet(TableCalls(g, nodes, port))
    /\ \E m \in 0 .. AllocSize : reg_bitmap' = ClearSlots(l, m)
    /\ \/ /\ undo' = [h \in DOMAIN undo \cup {g} |->
                         IF h = g THEN [addr |-> l, nodes |-> nodes, port |-> port]
                         ELSE undo[h]]
          /\ ToSet(TableCalls(g, nodes, port)) \subseteq entries'
          /\ \A f \in ToSet(TableCalls(g, nodes, port)) : ~Refused(f)
          /\ failures' = failures
       \/ undo' = undo /\ failures' = failures + 1

LEMMA CreateTakes ==
    ASSUME ControlInv, NEW n \in 1 .. MaxSize, NEW k \in Nat, CreateGroup(n, k)
    PROVE  \E l \in Nat, g \in Group, nodes \in Seq(Node), port \in Port :
              CreateEffect(l, g, nodes, port)
<1> DEFINE i     == FitSeg(AllocSize)
           l     == UpperAlign(memseg[i][1], AllocSize)
           g     == Head(free_group)
           nodes == SubSeq(free_node, 1, n)
           rest  == SubSeq(free_node, n + 1, Len(free_node))
           port  == SelectRecirPort
           calls == TableCalls(g, nodes, port)
           K     == {x \in 1 .. Len(calls) : x <= k}
           m     == IF k > Len(calls) THEN k - Len(calls) ELSE 0
<1>1. /\ memseg \in Seq(Segment) /\ Layout(memseg, 0, MemSize)
      /\ free_group \in Seq(Group) /\ IsInjective(free_group)
      /\ free_node \in Seq(Node) /\ IsInjective(free_node)
      /\ recir_port_cnt \in [Port -> Nat] /\ AllocSize \in Nat \ {0}
  BY Constants DEF ControlInv, TypeOK, MemInv, IdsInv
<1>2. /\ i # 0 /\ Len(free_group) >= 1 /\ Len(free_node) >= n
      /\ memseg' = AllocSeg(i, l, l + AllocSize)
      /\ free_group' = Tail(free_group) /\ free_node' = rest
      /\ recir_port_cnt' = PortTaken(port) /\ stale' = stale
      /\ entries' = entries \cup {calls[j] : j \in K}
      /\ k <= Len(calls) + AllocSize /\ reg_bitmap' = ClearSlots(l, m)
      /\ \A j \in 1 .. Len(calls) : j <= k => ~Refused(calls[j])
      /\ \/ /\ k = Len(calls) + AllocSize
            /\ undo' = [h \in DOMAIN undo \cup {g} |->
                           IF h = g THEN [addr |-> l, nodes |-> nodes, port |-> port]
                           ELSE undo[h]]
            /\ failures' = failures
         \/ undo' = undo /\ failures' = failures + 1
  BY DEF CreateGroup
<1>3. i \in 1 .. Len(memseg) /\ l + AllocSize <= memseg[i][2]
  <2> DEFINE fit == {j \in 1 .. Len(memseg) : Fits(j, AllocSize)}
  <2>1. fit # {} /\ i = Min(fit)
    BY <1>2 DEF FitSeg
  <2>2. fit \subseteq Nat
    OBVIOUS
  <2>3. Min(fit) \in fit
    <3> HIDE DEF fit
    <3>1. \E x \in fit : \A y \in fit : x <= y
      BY <2>1, <2>2, LeastElement
    <3> QED BY <3>1 DEF Min
  <2>4. i \in fit
    BY <2>1, <2>3
  <2> HIDE DEF i
  <2> QED BY <2>4 DEF Fits
<1>4. /\ l \in Nat /\ memseg[i][1] <= l /\ l + AllocSize \in Nat /\ l < l + AllocSize
      /\ Aligned(l) /\ Aligned(l + AllocSize)
  <2>1. memseg[i][1] \in Nat
    BY <1>1, <1>3, SegmentTyped
  <2>2. l \in Nat /\ memseg[i][1] <= l /\ Aligned(l)
    BY <1>1, <2>1, AlignUp DEF Aligned
  <2> HIDE DEF l
  <2>3. Aligned(l + AllocSize)
    BY <2>2, AlignedFacts
  <2> QED BY <1>1, <2>2, <2>3
<1> HIDE DEF i, l
<1>5. /\ memseg' \in Seq(Segment) /\ Layout(memseg', 0, MemSize)
      /\ \A a : FreeIn(memseg', a) <=> FreeIn(memseg, a) /\ a \notin l .. l + AllocSize - 1
      /\ \A a \in l .. l + AllocSize - 1 : FreeIn(memseg, a) /\ a \in Addr
  <2> DEFINE r == l + AllocSize
  <2>1. r \in Nat /\ l < r /\ r <= memseg[i][2] /\ Aligned(r)
    BY <1>3, <1>4
  <2> HIDE DEF r
  <2>2. /\ AllocSeg(i, l, r) \in Seq(Segment)
        /\ Layout(AllocSeg(i, l, r), 0, MemSize)
        /\ \A a : FreeIn(AllocSeg(i, l, r), a) <=> FreeIn(memseg, a) /\ a \notin l .. r - 1
        /\ \A a \in l .. r - 1 : FreeIn(memseg, a) /\ a \in Addr
    BY <1>1, <1>3, <1>4, <2>1, AllocFacts
  <2>3. memseg' = AllocSeg(i, l, r)
    BY <1>2 DEF r
  <2>4. r - 1 = l + AllocSize - 1
    BY <1>1, <1>4 DEF r
  <2> DEFINE t == AllocSeg(i, l, r)
  <2> HIDE DEF t
  <2>5. memseg' = t /\ t \in Seq(Segment) /\ Layout(t, 0, MemSize)
    BY <2>2, <2>3 DEF t
  <2>6. \A a : FreeIn(t, a) <=> FreeIn(memseg, a) /\ a \notin l .. l + AllocSize - 1
    BY <2>2, <2>4 DEF t
  <2>7. \A a \in l .. l + AllocSize - 1 : FreeIn(memseg, a) /\ a \in Addr
    BY <2>2, <2>4
  <2> QED BY <2>5, <2>6, <2>7
<1>6. /\ free_group' \in Seq(Group) /\ IsInjective(free_group') /\ g \in ToSet(free_group)
      /\ ToSet(free_group') = ToSet(free_group) \ {g} /\ g \in Group
  <2>1. free_group # << >>
    BY <1>2
  <2> QED BY <1>1, <1>2, <2>1, TakeHead
<1>7. /\ nodes \in Seq(Node) /\ rest \in Seq(Node) /\ IsInjective(rest) /\ IsInjective(nodes)
      /\ ToSet(rest) \subseteq ToSet(free_node) /\ ToSet(nodes) \subseteq ToSet(free_node)
      /\ ToSet(nodes) \cap ToSet(rest) = {}
  <2>1. n \in Nat /\ n <= Len(free_node)
    BY <1>1, <1>2
  <2> QED BY <1>1, <2>1, TakeFirst
<1>8. port \in Port
  BY <1>1, PortFacts
<1> HIDE DEF g, nodes, rest, port
<1>9. Len(calls) \in Nat /\ DOMAIN calls = 1 .. Len(calls)
  <2>1. Len(calls) = 2 * Len(nodes) + 3 /\ DOMAIN calls = 1 .. Len(calls)
    BY <1>7, CallsFacts
  <2>2. Len(nodes) \in Nat
    BY <1>7
  <2> HIDE DEF calls
  <2> QED BY <2>1, <2>2
<1> HIDE DEF calls
<1>10. m \in 0 .. AllocSize
  BY <1>1, <1>2, <1>9
<1>11. /\ entries \subseteq entries' /\ entries' \subseteq entries \cup ToSet(calls)
       /\ k = Len(calls) + AllocSize =>
             ToSet(calls) \subseteq entries' /\ \A f \in ToSet(calls) : ~Refused(f)
  <2>1. K \subseteq 1 .. Len(calls)
    OBVIOUS
  <2>2. k = Len(calls) + AllocSize => \A j \in 1 .. Len(calls) : j <= k /\ j \in K
    BY <1>1, <1>9
  <2>3. ToSet(calls) = {calls[j] : j \in 1 .. Len(calls)}
    BY <1>9 DEF ToSet
  <2>4. entries' = entries \cup {calls[j] : j \in K}
    BY <1>2
  <2>5. \A j \in 1 .. Len(calls) : j <= k => ~Refused(calls[j])
    BY <1>2
  <2> HIDE DEF K
  <2>6. {calls[j] : j \in K} \subseteq ToSet(calls)
    BY <2>1, <2>3
  <2>7. ASSUME k = Len(calls) + AllocSize, NEW f \in ToSet(calls)
        PROVE  f \in entries' /\ ~Refused(f)
    <3>1. PICK j \in 1 .. Len(calls) : f = calls[j]
      BY <2>3
    <3>2. j <= k /\ j \in K
      BY <2>2, <2>7
    <3> QED BY <2>4, <2>5, <3>1, <3>2
  <2> QED BY <2>4, <2>6, <2>7
<1> HIDE DEF m, K
<1>12. CreateEffect(l, g, nodes, port)
  <2>1. \E d \in 0 .. AllocSize : reg_bitmap' = ClearSlots(l, d)
    BY <1>2, <1>10
  <2> QED BY <1>2, <1>4, <1>5, <1>6, <1>7, <1>11, <2>1 DEF CreateEffect, calls
<1> QED BY <1>4, <1>6, <1>7, <1>8, <1>12

(* What DestroyGroup does: it deletes all entries of the group and gives   *)
(* everything back, or with an exception only the last k of them.          *)
LastDeleted(g, k) ==
    LET last == {Calls(g)[j] : j \in Len(Calls(g)) - k + 1 .. Len(Calls(g))}
    IN  last \subseteq entries /\ entries' = entries \ last

DestroyEffect(g) ==
    /\ UNCHANGED <<reg_bitmap, stale>>
    /\ \/ /\ memseg' \in Seq(Segment) /\ Layout(memseg', 0, MemSize)
          /\ \A a : FreeIn(memseg', a) <=> FreeIn(memseg, a) \/ a \in Block(g)
          /\ free_group' \in Seq(Group) /\ IsInjective(free_group')
          /\ ToSet(free_group') = ToSet(free_group) \cup {g}
          /\ free_node' \in Seq(Node) /\ IsInjective(free_node')
          /\ ToSet(free_node') = ToSet(free_node) \cup NodesHeld(g)
          /\ recir_port_cnt' = [recir_port_cnt EXCEPT ![undo[g].port] = @ - 1]
          /\ undo' = [h \in DOMAIN undo \ {g} |-> undo[h]]
          /\ entries' = entries \ ToSet(Calls(g)) /\ failures' = failures
       \/ /\ \E k \in 0 .. Len(Calls(g)) : LastDeleted(g, k)
          /\ failures' = failures + 1
          /\ UNCHANGED <<memseg, free_group, free_node, recir_port_cnt, undo>>

LEMMA UndoTyped ==
    ASSUME TypeOK, NEW g \in Live
    PROVE  /\ g \in Group /\ undo[g] \in Undo /\ undo[g].addr \in Nat
           /\ undo[g].addr \in Addr /\ undo[g].nodes \in Seq(Node) /\ undo[g].port \in Port
<1>1. g \in Group /\ undo[g] \in Undo
  BY DEF TypeOK, Undo
<1>2. undo[g].addr \in Addr /\ undo[g].nodes \in Seq(Node) /\ undo[g].port \in Port
  BY <1>1 DEF Undo
<1>3. undo[g].addr \in Nat
  BY <1>2, Constants DEF Addr
<1> QED BY <1>1, <1>2, <1>3

LEMMA DestroyGives ==
    ASSUME ControlInv, NEW g \in Live, NEW k \in Nat, DestroyGroup(g, k)
    PROVE  DestroyEffect(g)
<1> DEFINE c == Calls(g)
           calls == Reverse(c)
           l == undo[g].addr
           r == l + AllocSize
<1>1. /\ memseg \in Seq(Segment) /\ Layout(memseg, 0, MemSize)
      /\ free_group \in Seq(Group) /\ IsInjective(free_group)
      /\ free_node \in Seq(Node) /\ IsInjective(free_node)
      /\ g \notin ToSet(free_group) /\ NodesHeld(g) \cap ToSet(free_node) = {}
      /\ IsInjective(undo[g].nodes)
      /\ \A a \in Block(g) : a \in Addr /\ ~FreeIn(memseg, a)
      /\ Aligned(l)
  BY DEF ControlInv, TypeOK, MemInv, IdsInv
<1>2. /\ g \in Group /\ l \in Nat /\ undo[g].nodes \in Seq(Node) /\ undo[g].port \in Port
  BY UndoTyped DEF ControlInv
<1>3. Len(c) \in Nat /\ DOMAIN c = 1 .. Len(c)
  <2>1. Len(c) = 2 * Len(undo[g].nodes) + 3 /\ DOMAIN c = 1 .. Len(c)
    BY <1>2, CallsFacts DEF Calls
  <2>2. Len(undo[g].nodes) \in Nat
    BY <1>2
  <2> HIDE DEF c
  <2> QED BY <2>1, <2>2
<1>4. /\ k <= Len(calls)
      /\ \A j \in 1 .. k : calls[j] \in entries
      /\ entries' = entries \ {calls[j] : j \in 1 .. k}
      /\ IF k = Len(c) THEN GiveBack(g) /\ UNCHANGED failures
         ELSE failures' = failures + 1
              /\ UNCHANGED <<memseg, free_group, free_node, recir_port_cnt, undo>>
      /\ UNCHANGED <<reg_bitmap, stale>>
  BY DEF DestroyGroup, AllDeleted, Calls
<1> HIDE DEF c
<1>5. CASE k # Len(c)
  <2>1. k \in 0 .. Len(c)
    <3>1. Len(calls) = Len(c)
      BY <1>3, ReversedCalls
    <3>2. k <= Len(calls)
      BY <1>4
    <3> HIDE DEF calls
    <3> QED BY <1>3, <3>1, <3>2
  <2>2. {calls[j] : j \in 1 .. k} = {c[j] : j \in Len(c) - k + 1 .. Len(c)}
    BY <1>3, <2>1, ReversedCalls
  <2> DEFINE D == {calls[j] : j \in 1 .. k}
  <2>3. D \subseteq entries /\ entries' = entries \ D
    BY <1>4
  <2> HIDE DEF D
  <2>4. LastDeleted(g, k)
    BY <2>2, <2>3 DEF LastDeleted, D, c
  <2> QED BY <1>4, <1>5, <2>1, <2>4 DEF DestroyEffect, c
<1>6. CASE k = Len(c)
  <2>1. entries' = entries \ ToSet(c) /\ failures' = failures
    BY <1>3, <1>4, <1>6, ReversedCalls
  <2>2. /\ recir_port_cnt' = [recir_port_cnt EXCEPT ![undo[g].port] = @ - 1]
        /\ free_node' = free_node \o undo[g].nodes
        /\ free_group' = Append(free_group, g)
        /\ memseg' = FreeSeg(l, r)
        /\ undo' = [h \in DOMAIN undo \ {g} |-> undo[h]]
    BY <1>4, <1>6 DEF GiveBack
  <2>3. /\ free_group' \in Seq(Group) /\ IsInjective(free_group')
        /\ ToSet(free_group') = ToSet(free_group) \cup {g}
    BY <1>1, <1>2, <2>2, GiveOneBack
  <2>4. /\ free_node' \in Seq(Node) /\ IsInjective(free_node')
        /\ ToSet(free_node') = ToSet(free_node) \cup NodesHeld(g)
    BY <1>1, <1>2, <2>2, GiveManyBack DEF NodesHeld
  <2>5. r \in Nat /\ l < r /\ Block(g) = l .. r - 1 /\ Aligned(r)
    <3>1. Aligned(r)
      BY <1>1, <1>2, AlignedFacts
    <3>2. r \in Nat /\ l < r /\ Block(g) = l .. r - 1
      BY <1>2, Constants DEF Block
    <3> QED BY <3>1, <3>2
  <2>6. r <= MemSize
    <3>1. r - 1 \in l .. r - 1
      <4> HIDE DEF l, r
      <4> QED BY <1>2, <2>5
    <3>2. r - 1 \in Addr
      BY <1>1, <2>5, <3>1
    <3> HIDE DEF r, l
    <3> QED BY <2>5, <3>2, Constants DEF Addr
  <2>7. /\ FreeSeg(l, r) \in Seq(Segment) /\ Layout(FreeSeg(l, r), 0, MemSize)
        /\ \A a : FreeIn(FreeSeg(l, r), a) <=> FreeIn(memseg, a) \/ a \in l .. r - 1
    <3>1. \A a \in l .. r - 1 : ~FreeIn(memseg, a)
      BY <1>1, <2>5
    <3> HIDE DEF l, r
    <3> QED BY <1>1, <1>2, <2>5, <2>6, <3>1, FreeFacts
  <2>8. /\ memseg' \in Seq(Segment) /\ Layout(memseg', 0, MemSize)
        /\ \A a : FreeIn(memseg', a) <=> FreeIn(memseg, a) \/ a \in Block(g)
    <3> DEFINE t == FreeSeg(l, r)
    <3>1. memseg' = t /\ t \in Seq(Segment) /\ Layout(t, 0, MemSize)
      BY <2>2, <2>7
    <3>2. \A a : FreeIn(t, a) <=> FreeIn(memseg, a) \/ a \in Block(g)
      <4> HIDE DEF l, r
      <4> QED BY <2>5, <2>7
    <3> HIDE DEF t
    <3> QED BY <3>1, <3>2
  <2> QED BY <1>4, <2>1, <2>2, <2>3, <2>4, <2>8 DEF DestroyEffect, c
<1> QED BY <1>5, <1>6

-----------------------------------------------------------------------------
(* Every RPC keeps the invariant.                                          *)

LEMMA UsersFinite ==
    ASSUME TypeOK, NEW p
    PROVE  IsFiniteSet(Users(p)) /\ Cardinality(Users(p)) \in Nat
<1>1. Users(p) \in SUBSET (1 .. NGroups)
  BY DEF Users, TypeOK, Group
<1>2. IsFiniteSet(1 .. NGroups)
  BY Constants, FS_Interval
<1>3. IsFiniteSet(Users(p))
  BY <1>1, <1>2, FS_Subset
<1> QED BY <1>3, FS_CardinalityType

(* The entries of two groups are different ones.                           *)
LEMMA CallsApart ==
    ASSUME NEW g, NEW n \in Seq(Node), NEW p, NEW h, NEW o \in Seq(Node), NEW q,
           g # h, ToSet(n) \cap ToSet(o) = {}
    PROVE  \A e \in ToSet(TableCalls(h, o, q)) : e \notin ToSet(TableCalls(g, n, p))
<1> SUFFICES ASSUME NEW e \in ToSet(TableCalls(h, o, q)), e \in ToSet(TableCalls(g, n, p))
             PROVE  FALSE
  OBVIOUS
<1>1. GroupsOf(e) \subseteq {h} /\ NodesOf(e) \subseteq ToSet(o)
  BY CallsFacts
<1>2. GroupsOf(e) \subseteq {g} /\ NodesOf(e) \subseteq ToSet(n)
  BY CallsFacts
<1>3. GroupsOf(e) = {} /\ NodesOf(e) = {}
  BY <1>1, <1>2
<1> QED BY <1>3 DEF GroupsOf, NodesOf

(* Adding or deleting entries of others leaves those of a group.           *)
LEMMA CallsKept ==
    ASSUME NEW c, Len(c) \in Nat, DOMAIN c = 1 .. Len(c), NEW T, NEW U, NEW m,
           FirstCalls(c, T, m), \A e \in ToSet(c) : e \in U <=> e \in T
    PROVE  FirstCalls(c, U, m)
<1>1. \A j \in 1 .. Len(c) : c[j] \in ToSet(c)
  BY DEF ToSet
<1> QED BY <1>1 DEF FirstCalls

(* The calls of a live group.                                              *)
LEMMA LiveCalls ==
    ASSUME TypeOK, NEW g \in Live
    PROVE  /\ Len(Calls(g)) \in Nat /\ DOMAIN Calls(g) = 1 .. Len(Calls(g))
           /\ \A e \in ToSet(Calls(g)) :
                 GroupsOf(e) \subseteq {g} /\ NodesOf(e) \subseteq NodesHeld(g)
<1> DEFINE n == undo[g].nodes
           c == TableCalls(g, n, undo[g].port)
<1>1. n \in Seq(Node)
  BY UndoTyped
<1>2. /\ Len(c) = 2 * Len(n) + 3 /\ DOMAIN c = 1 .. Len(c)
      /\ \A e \in ToSet(c) : GroupsOf(e) \subseteq {g} /\ NodesOf(e) \subseteq ToSet(n)
  <2> HIDE DEF n
  <2> QED BY <1>1, CallsFacts
<1>3. Len(n) \in Nat
  BY <1>1
<1>4. Calls(g) = c /\ NodesHeld(g) = ToSet(n)
  BY DEF Calls, NodesHeld
<1> HIDE DEF c, n
<1>5. Len(c) \in Nat
  BY <1>2, <1>3
<1> QED BY <1>2, <1>4, <1>5

(* What CreateGroup adds are no entries of a live group.                   *)
LEMMA NewCalls ==
    ASSUME ControlInv, NEW l, NEW g \in Group, NEW nodes \in Seq(Node), NEW port,
           CreateEffect(l, g, nodes, port), NEW h \in Live, NEW m,
           FirstCalls(Calls(h), entries, m)
    PROVE  FirstCalls(Calls(h), entries', m)
<1> DEFINE new == ToSet(TableCalls(g, nodes, port))
<1>1. TypeOK /\ IdsInv
  BY DEF ControlInv
<1>2. g # h /\ ToSet(nodes) \cap NodesHeld(h) = {}
  BY <1>1 DEF IdsInv, CreateEffect
<1>3. undo[h].nodes \in Seq(Node)
  BY <1>1, UndoTyped
<1>4. \A e \in ToSet(Calls(h)) : e \notin new
  BY <1>2, <1>3, CallsApart DEF Calls, NodesHeld
<1>5. entries \subseteq entries' /\ entries' \subseteq entries \cup new
  BY DEF CreateEffect
<1> HIDE DEF new
<1>6. \A e \in ToSet(Calls(h)) : e \in entries' <=> e \in entries
  BY <1>4, <1>5
<1>7. Len(Calls(h)) \in Nat /\ DOMAIN Calls(h) = 1 .. Len(Calls(h))
  BY <1>1, LiveCalls
<1> DEFINE c == Calls(h)
<1> HIDE DEF c
<1>8. FirstCalls(c, entries, m) /\ Len(c) \in Nat /\ DOMAIN c = 1 .. Len(c)
      /\ \A e \in ToSet(c) : e \in entries' <=> e \in entries
  BY <1>6, <1>7 DEF c
<1>9. FirstCalls(c, entries', m)
  BY <1>8, CallsKept
<1> QED BY <1>9 DEF c

(* A group whose creation ended with an exception: its resources are lost. *)
LEMMA CreateFails ==
    ASSUME ControlInv, NEW l \in Nat, NEW g \in Group, NEW nodes \in Seq(Node),
           NEW port \in Port, CreateEffect(l, g, nodes, port),
           undo' = undo, failures' = failures + 1
    PROVE  ControlInv'
<1>1. TypeOK /\ MemInv /\ IdsInv /\ EntriesInv /\ PortInv
  BY DEF ControlInv
<1>2. g \in ToSet(free_group) /\ g \notin Live /\ failures' # 0 /\ failures' \in Nat
  BY <1>1 DEF CreateEffect, IdsInv, TypeOK
<1>3. TypeOK'
  <2>1. recir_port_cnt' \in [Port -> Nat]
    BY <1>1 DEF CreateEffect, PortTaken, TypeOK
  <2>2. stale' \subseteq entries' /\ reg_bitmap' \in [Addr -> BOOLEAN]
    BY <1>1 DEF CreateEffect, ClearSlots, TypeOK
  <2>3. /\ memseg' \in Seq((0 .. MemSize) \X (0 .. MemSize))
        /\ free_group' \in Seq(Group) /\ free_node' \in Seq(Node)
    BY SegmentsTyped DEF CreateEffect
  <2>4. /\ Live' \subseteq Group
        /\ \A h \in Live' : undo'[h] \in [addr : Addr, nodes : Seq(Node), port : Port]
    BY <1>1 DEF TypeOK, Live
  <2> QED BY <1>2, <2>1, <2>2, <2>3, <2>4 DEF TypeOK
<1>4. MemInv'
  <2>1. memseg' \in Seq(Segment) /\ Layout(memseg', 0, MemSize)
    BY DEF CreateEffect
  <2>2. \A h \in Live : \A a \in Block(h) : a \in Addr /\ ~FreeIn(memseg', a)
    BY <1>1 DEF CreateEffect, MemInv
  <2>3. /\ \A h, f \in Live : h # f => Block(h) \cap Block(f) = {}
        /\ \A h \in Live : Aligned(undo[h].addr)
    BY <1>1 DEF MemInv
  <2> QED BY <1>2, <2>1, <2>2, <2>3 DEF MemInv, Live, Block
<1>5. IdsInv'
  <2>1. \A h \in Live : h \notin ToSet(free_group') /\ NodesHeld(h) \cap ToSet(free_node') = {}
    BY <1>1 DEF IdsInv, CreateEffect
  <2>2. IsInjective(free_group') /\ IsInjective(free_node')
    BY DEF CreateEffect
  <2> QED BY <1>1, <2>1, <2>2 DEF IdsInv, Live, NodesHeld
<1>6. EntriesInv'
  <2>1. \A e \in ToSet(TableCalls(g, nodes, port)) :
          GroupsOf(e) \subseteq {g} /\ NodesOf(e) \subseteq ToSet(nodes)
    BY CallsFacts
  <2>2. ASSUME NEW e \in entries' \ stale
        PROVE  /\ GroupsOf(e) \cap ToSet(free_group') = {}
               /\ NodesOf(e) \cap ToSet(free_node') = {}
               /\ \A h \in Live : h \in GroupsOf(e) \/ NodesOf(e) \cap NodesHeld(h) # {}
                                     => e \in ToSet(Calls(h))
    <3>1. CASE e \in entries
      BY <1>1, <3>1 DEF EntriesInv, CreateEffect
    <3>2. CASE e \in ToSet(TableCalls(g, nodes, port))
      <4>1. GroupsOf(e) \subseteq {g} /\ NodesOf(e) \subseteq ToSet(nodes)
        BY <2>1, <3>2
      <4>2. \A h \in Live : h # g /\ ToSet(nodes) \cap NodesHeld(h) = {}
        BY <1>1, <1>2 DEF IdsInv, CreateEffect
      <4>3. g \notin ToSet(free_group') /\ ToSet(nodes) \cap ToSet(free_node') = {}
        BY DEF CreateEffect
      <4> QED BY <4>1, <4>2, <4>3
    <3>3. e \in entries \/ e \in ToSet(TableCalls(g, nodes, port))
      BY DEF CreateEffect
    <3> QED BY <3>1, <3>2, <3>3
  <2>3. ASSUME NEW h \in Live
        PROVE  \E m \in 0 .. Len(Calls(h)) : FirstCalls(Calls(h), entries', m)
    <3>1. PICK m \in 0 .. Len(Calls(h)) : FirstCalls(Calls(h), entries, m)
      BY <1>1 DEF EntriesInv
    <3> QED BY <3>1, NewCalls
  <2>4. stale' = stale /\ \A e \in stale : \A h \in Live : \A f \in ToSet(Calls(h)) : ~SameKey(e, f)
    BY <1>1 DEF EntriesInv, CreateEffect
  <2>5. Live' = Live /\ \A h : Calls(h)' = Calls(h) /\ NodesHeld(h)' = NodesHeld(h)
    BY DEF Live, Calls, NodesHeld
  <2> QED BY <1>2, <2>2, <2>3, <2>4, <2>5 DEF EntriesInv
<1>7. PortInv'
  <2> SUFFICES ASSUME NEW p \in Port PROVE recir_port_cnt'[p] >= Cardinality(Users(p))
    BY DEF PortInv, Users, Live
  <2>1. recir_port_cnt'[p] \in {recir_port_cnt[p], recir_port_cnt[p] + 1} /\ recir_port_cnt[p] \in Nat
    BY <1>1 DEF CreateEffect, PortTaken, TypeOK
  <2>2. recir_port_cnt[p] >= Cardinality(Users(p)) /\ Cardinality(Users(p)) \in Nat
    BY <1>1, UsersFinite DEF PortInv
  <2> QED BY <2>1, <2>2
<1> QED BY <1>3, <1>4, <1>5, <1>6, <1>7 DEF ControlInv

(* A group that was created owns its block, id, nodes and entries alone.   *)
LEMMA CreateSucceeds ==
    ASSUME ControlInv, NEW l \in Nat, NEW g \in Group, NEW nodes \in Seq(Node),
           NEW port \in Port, CreateEffect(l, g, nodes, port),
           undo' = [h \in DOMAIN undo \cup {g} |->
                       IF h = g THEN [addr |-> l, nodes |-> nodes, port |-> port]
                       ELSE undo[h]],
           ToSet(TableCalls(g, nodes, port)) \subseteq entries',
           \A f \in ToSet(TableCalls(g, nodes, port)) : ~Refused(f), failures' = failures
    PROVE  ControlInv'
<1> DEFINE block == l .. l + AllocSize - 1
<1>1. TypeOK /\ MemInv /\ IdsInv /\ EntriesInv /\ PortInv
  BY DEF ControlInv
<1>2. g \in ToSet(free_group) /\ g \notin Live
  BY <1>1 DEF CreateEffect, IdsInv
<1>3. /\ DOMAIN undo' = Live \cup {g} /\ Live' = Live \cup {g}
      /\ undo'[g] = [addr |-> l, nodes |-> nodes, port |-> port]
      /\ \A h \in Live : h # g /\ undo'[h] = undo[h]
  BY <1>2 DEF Live
<1>4. undo'[g].addr = l /\ undo'[g].nodes = nodes /\ undo'[g].port = port
  BY <1>3
<1>5. l \in block /\ l \in Addr
  <2>1. l \in block
    BY Constants
  <2> QED BY <2>1 DEF CreateEffect
<1>6. Block(g)' = block /\ \A h \in Live : Block(h)' = Block(h)
  BY <1>3, <1>4 DEF Block
<1>7. NodesHeld(g)' = ToSet(nodes) /\ \A h \in Live : NodesHeld(h)' = NodesHeld(h)
  BY <1>3, <1>4 DEF NodesHeld
<1>8. /\ Calls(g)' = TableCalls(g, nodes, port)
      /\ \A h \in Live : Calls(h)' = Calls(h)
  BY <1>3, <1>4 DEF Calls
<1>9. TypeOK'
  <2>1. recir_port_cnt' \in [Port -> Nat]
    BY <1>1 DEF CreateEffect, PortTaken, TypeOK
  <2>2. stale' \subseteq entries' /\ failures' \in Nat
    BY <1>1 DEF CreateEffect, TypeOK
  <2>3. /\ memseg' \in Seq((0 .. MemSize) \X (0 .. MemSize))
        /\ free_group' \in Seq(Group) /\ free_node' \in Seq(Node)
    BY SegmentsTyped DEF CreateEffect
  <2>4. reg_bitmap' \in [Addr -> BOOLEAN]
    BY <1>1 DEF CreateEffect, TypeOK, ClearSlots
  <2>5. Live' \subseteq Group
    BY <1>1, <1>3 DEF TypeOK
  <2>6. ASSUME NEW h \in Live' PROVE undo'[h] \in [addr : Addr, nodes : Seq(Node), port : Port]
    <3>1. CASE h = g
      <4>1. [addr |-> l, nodes |-> nodes, port |-> port] \in [addr : Addr, nodes : Seq(Node), port : Port]
        BY <1>5
      <4> QED BY <1>3, <3>1, <4>1
    <3>2. CASE h \in Live
      BY <1>1, <1>3, <3>2 DEF TypeOK
    <3> QED BY <1>3, <3>1, <3>2
  <2> QED BY <2>1, <2>2, <2>3, <2>4, <2>5, <2>6 DEF TypeOK
<1>10. MemInv'
  <2>1. memseg' \in Seq(Segment) /\ Layout(memseg', 0, MemSize) /\ Aligned(l)
    BY DEF CreateEffect
  <2>8. \A h \in Live' : Aligned(undo'[h].addr)
    BY <1>1, <1>3, <1>4, <2>1 DEF MemInv
  <2>2. \A a : FreeIn(memseg', a) <=> FreeIn(memseg, a) /\ a \notin block
    BY DEF CreateEffect
  <2>3. \A a \in block : FreeIn(memseg, a) /\ a \in Addr
    BY DEF CreateEffect
  <2> HIDE DEF block
  <2>4. ASSUME NEW h \in Live', NEW a \in Block(h)' PROVE a \in Addr /\ ~FreeIn(memseg', a)
    BY <1>1, <1>3, <1>6, <2>2, <2>3, <2>4 DEF MemInv
  <2>5. \A h \in Live : Block(h) \cap block = {}
    BY <1>1, <2>3 DEF MemInv
  <2>6. ASSUME NEW h \in Live', NEW f \in Live', h # f PROVE Block(h)' \cap Block(f)' = {}
    <3>1. CASE h \in Live /\ f \in Live
      BY <1>1, <1>6, <2>6, <3>1 DEF MemInv
    <3>2. CASE h = g /\ f \in Live
      BY <1>6, <2>5, <3>2
    <3>3. CASE h \in Live /\ f = g
      BY <1>6, <2>5, <3>3
    <3> QED BY <1>3, <2>6, <3>1, <3>2, <3>3
  <2>7. ASSUME failures' = 0, NEW a \in Addr
        PROVE  FreeIn(memseg', a) \/ \E h \in Live' : a \in Block(h)'
    <3>1. FreeIn(memseg, a) \/ \E h \in Live : a \in Block(h)
      BY <1>1, <2>7 DEF MemInv
    <3> QED BY <1>3, <1>6, <2>2, <3>1
  <2> QED BY <2>1, <2>4, <2>6, <2>7, <2>8 DEF MemInv
<1>11. IdsInv'
  <2>1. /\ IsInjective(free_group') /\ IsInjective(free_node') /\ IsInjective(nodes)
        /\ ToSet(free_group') = ToSet(free_group) \ {g}
        /\ ToSet(free_node') \subseteq ToSet(free_node) /\ ToSet(nodes) \subseteq ToSet(free_node)
        /\ ToSet(nodes) \cap ToSet(free_node') = {}
    BY DEF CreateEffect
  <2>2. ASSUME NEW h \in Live'
        PROVE  /\ h \notin ToSet(free_group') /\ NodesHeld(h)' \cap ToSet(free_node') = {}
               /\ IsInjective(undo'[h].nodes)
    <3>1. CASE h = g
      BY <1>4, <1>7, <2>1, <3>1
    <3>2. CASE h \in Live
      BY <1>1, <1>3, <1>7, <2>1, <3>2 DEF IdsInv
    <3> QED BY <1>3, <3>1, <3>2
  <2>3. \A h \in Live : NodesHeld(h) \cap ToSet(nodes) = {}
    BY <1>1, <2>1 DEF IdsInv
  <2>4. ASSUME NEW h \in Live', NEW f \in Live', h # f PROVE NodesHeld(h)' \cap NodesHeld(f)' = {}
    <3>1. CASE h \in Live /\ f \in Live
      BY <1>1, <1>7, <2>4, <3>1 DEF IdsInv
    <3>2. CASE h = g /\ f \in Live
      BY <1>7, <2>3, <3>2
    <3>3. CASE h \in Live /\ f = g
      BY <1>7, <2>3, <3>3
    <3> QED BY <1>3, <2>4, <3>1, <3>2, <3>3
  <2> QED BY <2>1, <2>2, <2>4 DEF IdsInv
<1>12. EntriesInv'
  <2> DEFINE new == ToSet(TableCalls(g, nodes, port))
  <2>1. \A e \in new : GroupsOf(e) \subseteq {g} /\ NodesOf(e) \subseteq ToSet(nodes)
    BY CallsFacts
  <2>2. /\ ToSet(free_group') = ToSet(free_group) \ {g}
        /\ ToSet(free_node') \subseteq ToSet(free_node) /\ ToSet(nodes) \subseteq ToSet(free_node)
        /\ ToSet(nodes) \cap ToSet(free_node') = {}
        /\ entries \subseteq entries' /\ entries' \subseteq entries \cup new
    BY DEF CreateEffect
  <2>3. \A h \in Live : h # g /\ NodesHeld(h) \cap ToSet(free_node) = {}
    BY <1>1, <1>2 DEF IdsInv
  <2>4. Calls(g)' = TableCalls(g, nodes, port) /\ new \subseteq entries'
    BY <1>8
  <2> HIDE DEF new
  <2>5. ASSUME NEW e \in entries \ stale
        PROVE  /\ GroupsOf(e) \cap ToSet(free_group') = {}
               /\ NodesOf(e) \cap ToSet(free_node') = {}
               /\ \A h \in Live' : h \in GroupsOf(e) \/ NodesOf(e) \cap NodesHeld(h)' # {}
                                     => e \in ToSet(Calls(h)')
    <3>1. /\ GroupsOf(e) \cap ToSet(free_group) = {}
          /\ NodesOf(e) \cap ToSet(free_node) = {}
          /\ \A h \in Live : h \in GroupsOf(e) \/ NodesOf(e) \cap NodesHeld(h) # {}
                                => e \in ToSet(Calls(h))
      BY <1>1 DEF EntriesInv
    <3>2. g \notin GroupsOf(e) /\ NodesOf(e) \cap NodesHeld(g)' = {}
      BY <1>2, <1>7, <2>2, <3>1
    <3>3. \A h \in Live : h \in GroupsOf(e) \/ NodesOf(e) \cap NodesHeld(h)' # {}
                             => e \in ToSet(Calls(h)')
      BY <1>7, <1>8, <3>1
    <3> QED BY <1>3, <2>2, <3>1, <3>2, <3>3
  <2>6. ASSUME NEW e \in new
        PROVE  /\ GroupsOf(e) \cap ToSet(free_group') = {}
               /\ NodesOf(e) \cap ToSet(free_node') = {}
               /\ \A h \in Live' : h \in GroupsOf(e) \/ NodesOf(e) \cap NodesHeld(h)' # {}
                                     => e \in ToSet(Calls(h)')
    <3>1. GroupsOf(e) \subseteq {g} /\ NodesOf(e) \subseteq ToSet(nodes)
      BY <2>1
    <3>2. e \in ToSet(Calls(g)')
      BY <2>4 DEF new
    <3>3. \A h \in Live : h \notin GroupsOf(e) /\ NodesOf(e) \cap NodesHeld(h)' = {}
      BY <1>7, <2>2, <2>3, <3>1
    <3> QED BY <1>3, <2>2, <3>1, <3>2, <3>3
  <2>7. ASSUME NEW h \in Live'
        PROVE  \E m \in 0 .. Len(Calls(h)') :
                  FirstCalls(Calls(h)', entries', m) /\ (failures' = 0 => m = Len(Calls(h)'))
    <3>1. CASE h = g
      <4> DEFINE c == TableCalls(g, nodes, port)
      <4>1. Len(c) \in Nat /\ DOMAIN c = 1 .. Len(c)
        <5>1. Len(c) = 2 * Len(nodes) + 3 /\ DOMAIN c = 1 .. Len(c)
          BY CallsFacts
        <5>2. Len(nodes) \in Nat
          OBVIOUS
        <5> HIDE DEF c
        <5> QED BY <5>1, <5>2
      <4>2. ToSet(c) \subseteq entries' /\ Calls(h)' = c
        BY <2>4, <3>1 DEF new
      <4> HIDE DEF c
      <4>3. \A j \in 1 .. Len(c) : c[j] \in ToSet(c) /\ j <= Len(c)
        BY <4>1 DEF ToSet
      <4>4. FirstCalls(c, entries', Len(c)) /\ Len(c) \in 0 .. Len(c)
        BY <4>1, <4>2, <4>3 DEF FirstCalls
      <4> QED BY <4>2, <4>4
    <3>2. CASE h \in Live
      <4>1. PICK m \in 0 .. Len(Calls(h)) :
               FirstCalls(Calls(h), entries, m) /\ (failures = 0 => m = Len(Calls(h)))
        BY <1>1, <3>2 DEF EntriesInv
      <4>2. FirstCalls(Calls(h), entries', m)
        BY <3>2, <4>1, NewCalls
      <4> QED BY <1>8, <3>2, <4>1, <4>2
    <3> QED BY <1>3, <3>1, <3>2
  <2>8. \A e \in entries' \ stale' : e \in entries \ stale \/ e \in new
    BY <2>2 DEF CreateEffect
  <2>9. stale' = stale /\ stale \subseteq entries /\ (failures' = 0 => stale = {})
    BY <1>1 DEF EntriesInv, CreateEffect, TypeOK
  <2>10. ASSUME NEW e \in stale', NEW h \in Live', NEW f \in ToSet(Calls(h)')
         PROVE  ~SameKey(e, f)
    <3>1. CASE h = g
      <4>1. ~Refused(f) /\ e \in entries
        BY <2>4, <2>9, <3>1
      <4> QED BY <4>1, KeyFacts DEF Refused
    <3>2. CASE h \in Live
      BY <1>1, <1>8, <2>9, <3>2 DEF EntriesInv
    <3> QED BY <1>3, <3>1, <3>2
  <2> QED BY <2>5, <2>6, <2>7, <2>8, <2>9, <2>10 DEF EntriesInv
<1>13. PortInv'
  <2> SUFFICES ASSUME NEW p \in Port PROVE recir_port_cnt'[p] >= Cardinality(Users(p)')
    BY DEF PortInv
  <2>1. /\ recir_port_cnt[p] \in Nat /\ recir_port_cnt[p] >= Cardinality(Users(p))
        /\ IsFiniteSet(Users(p)) /\ Cardinality(Users(p)) \in Nat
    BY <1>1, UsersFinite DEF PortInv, TypeOK
  <2>2. CASE p = port
    <3>1. recir_port_cnt'[p] = recir_port_cnt[p] + 1
      BY <1>1, <2>2 DEF CreateEffect, PortTaken, TypeOK
    <3>2. Users(p)' = Users(p) \cup {g} /\ g \notin Users(p)
      BY <1>2, <1>3, <1>4, <2>2 DEF Users
    <3>3. Cardinality(Users(p) \cup {g}) = Cardinality(Users(p)) + 1
      BY <2>1, <3>2, FS_AddElement
    <3> QED BY <2>1, <3>1, <3>2, <3>3
  <2>3. CASE p # port
    <3>1. recir_port_cnt'[p] = recir_port_cnt[p]
      BY <1>1, <2>3 DEF CreateEffect, PortTaken, TypeOK
    <3>2. Users(p)' = Users(p)
      BY <1>2, <1>3, <1>4, <2>3 DEF Users
    <3> QED BY <2>1, <3>1, <3>2
  <2> QED BY <2>2, <2>3
<1> QED BY <1>9, <1>10, <1>11, <1>12, <1>13 DEF ControlInv

LEMMA CreateKeeps ==
    ASSUME ControlInv, NEW n \in 1 .. MaxSize, NEW k \in Nat, CreateGroup(n, k)
    PROVE  ControlInv'
<1>1. PICK l \in Nat, g \in Group, nodes \in Seq(Node), port \in Port :
         CreateEffect(l, g, nodes, port)
  BY CreateTakes
<1>2. CASE undo' = undo /\ failures' = failures + 1
  BY <1>1, <1>2, CreateFails
<1>3. CASE ~(undo' = undo /\ failures' = failures + 1)
  <2>1. /\ undo' = [h \in DOMAIN undo \cup {g} |->
                       IF h = g THEN [addr |-> l, nodes |-> nodes, port |-> port]
                       ELSE undo[h]]
        /\ ToSet(TableCalls(g, nodes, port)) \subseteq entries'
        /\ \A f \in ToSet(TableCalls(g, nodes, port)) : ~Refused(f)
        /\ failures' = failures
    BY <1>1, <1>3 DEF CreateEffect
  <2> QED BY <1>1, <2>1, CreateSucceeds
<1> QED BY <1>2, <1>3

(* Deleting entries of group g leaves those of another one.                *)
LEMMA OtherCalls ==
    ASSUME ControlInv, NEW g \in Live, NEW D, D \subseteq ToSet(Calls(g)),
           NEW h \in Live, h # g, NEW m, FirstCalls(Calls(h), entries, m)
    PROVE  FirstCalls(Calls(h), entries \ D, m)
<1>1. TypeOK /\ IdsInv
  BY DEF ControlInv
<1>2. undo[h].nodes \in Seq(Node) /\ undo[g].nodes \in Seq(Node)
  BY <1>1, UndoTyped
<1>3. NodesHeld(g) \cap NodesHeld(h) = {}
  BY <1>1 DEF IdsInv
<1>4. \A e \in ToSet(Calls(h)) : e \notin ToSet(Calls(g))
  BY <1>2, <1>3, CallsApart DEF Calls, NodesHeld
<1>5. Len(Calls(h)) \in Nat /\ DOMAIN Calls(h) = 1 .. Len(Calls(h))
  BY <1>1, LiveCalls
<1> DEFINE c == Calls(h)
           U == entries \ D
<1>6. /\ FirstCalls(c, entries, m) /\ Len(c) \in Nat /\ DOMAIN c = 1 .. Len(c)
      /\ \A e \in ToSet(c) : e \in U <=> e \in entries
  BY <1>4, <1>5
<1> HIDE DEF c, U
<1>7. FirstCalls(c, U, m)
  BY <1>6, CallsKept
<1> QED BY <1>7 DEF c, U

(* A destroy that raises an exception leaves a shorter prefix of the calls.*)
LEMMA ShorterPrefix ==
    ASSUME ControlInv, NEW g \in Live, NEW k \in 0 .. Len(Calls(g)), LastDeleted(g, k)
    PROVE  \E m \in 0 .. Len(Calls(g)) : FirstCalls(Calls(g), entries', m)
<1> DEFINE c == Calls(g)
           n == Len(c)
           D == {c[j] : j \in n - k + 1 .. n}
<1>1. TypeOK /\ EntriesInv
  BY DEF ControlInv
<1>2. n \in Nat /\ DOMAIN c = 1 .. n
  BY <1>1, LiveCalls
<1>3. \A i, j \in 1 .. n : c[i] = c[j] => i = j
  <2>1. undo[g].nodes \in Seq(Node)
    BY <1>1, UndoTyped
  <2> QED BY <2>1, CallsDiffer DEF Calls
<1>4. D \subseteq entries /\ entries' = entries \ D
  BY DEF LastDeleted
<1>5. PICK m \in 0 .. n : \A j \in 1 .. n : c[j] \in entries <=> j <= m
  BY <1>1 DEF EntriesInv, FirstCalls
<1>6. k \in 0 .. n
  OBVIOUS
<1> HIDE DEF c, n
<1>7. CASE k = 0
  <2>1. D = {}
    BY <1>2, <1>7
  <2>2. entries' = entries
    BY <1>4, <2>1
  <2> QED BY <1>5, <2>2 DEF FirstCalls, c, n
<1>8. CASE k # 0
  <2>1. n \in n - k + 1 .. n /\ n \in 1 .. n
    BY <1>2, <1>6, <1>8
  <2>2. c[n] \in entries
    BY <1>4, <2>1
  <2>3. n <= m
    BY <1>5, <2>1, <2>2
  <2>4. \A j \in 1 .. n : c[j] \in entries
    <3>1. \A j \in 1 .. n : j <= m
      BY <1>2, <1>5, <2>3
    <3> QED BY <1>5, <3>1
  <2>5. n - k \in 0 .. n
    BY <1>2, <1>6
  <2>6. ASSUME NEW j \in 1 .. n PROVE c[j] \in D <=> ~(j <= n - k)
    <3>1. j \in n - k + 1 .. n <=> ~(j <= n - k)
      BY <1>2, <1>6
    <3>2. ASSUME NEW i \in n - k + 1 .. n, c[j] = c[i] PROVE j \in n - k + 1 .. n
      <4>1. i \in 1 .. n
        BY <1>2, <1>6
      <4> QED BY <1>3, <3>2, <4>1
    <3> QED BY <3>1, <3>2
  <2> HIDE DEF D
  <2>7. \A j \in 1 .. n : c[j] \in entries' <=> j <= n - k
    BY <1>4, <2>4, <2>6
  <2> QED BY <2>5, <2>7 DEF FirstCalls, c, n
<1> QED BY <1>7, <1>8

LEMMA DestroyKeeps ==
    ASSUME ControlInv, NEW g \in Live, NEW k \in Nat, DestroyGroup(g, k)
    PROVE  ControlInv'
<1>1. TypeOK /\ MemInv /\ IdsInv /\ EntriesInv /\ PortInv
  BY DEF ControlInv
<1>2. DestroyEffect(g)
  BY DestroyGives
<1>3. g \in Group /\ undo[g].port \in Port
  BY <1>1, UndoTyped
<1>0. stale \cap ToSet(Calls(g)) = {}
  BY <1>1, KeyFacts DEF EntriesInv
<1>4. ASSUME NEW d \in 0 .. Len(Calls(g)), LastDeleted(g, d), failures' = failures + 1,
             UNCHANGED <<memseg, free_group, free_node, recir_port_cnt, undo>>,
             UNCHANGED <<reg_bitmap, stale>>
      PROVE  ControlInv'
  <2> DEFINE D == {Calls(g)[j] : j \in Len(Calls(g)) - d + 1 .. Len(Calls(g))}
  <2>1. failures' \in Nat /\ failures' # 0
    BY <1>1, <1>4 DEF TypeOK
  <2>9. entries' = entries \ D /\ D \subseteq ToSet(Calls(g))
    <3> DEFINE c == Calls(g)
               n == Len(c)
    <3>1. n \in Nat /\ DOMAIN c = 1 .. n /\ d \in 0 .. n
      BY <1>1, LiveCalls
    <3>2. entries' = entries \ D
      BY <1>4 DEF LastDeleted
    <3>3. D = {c[j] : j \in n - d + 1 .. n}
      OBVIOUS
    <3> HIDE DEF c, n, D
    <3>4. n - d + 1 .. n \subseteq 1 .. n
      BY <3>1
    <3>5. D \subseteq ToSet(c)
      BY <3>1, <3>3, <3>4 DEF ToSet
    <3> QED BY <3>2, <3>5 DEF c
  <2> HIDE DEF D
  <2>10. entries' \subseteq entries /\ stale' = stale /\ stale' \subseteq entries'
    BY <1>0, <1>1, <1>4, <2>9 DEF TypeOK
  <2>2. TypeOK'
    BY <1>1, <1>4, <2>1, <2>10 DEF TypeOK, Live
  <2>3. MemInv'
    BY <1>1, <1>4, <2>1 DEF MemInv, Live, Block
  <2>4. IdsInv'
    BY <1>1, <1>4 DEF IdsInv, Live, NodesHeld
  <2>5. EntriesInv'
    <3>1. Live' = Live /\ \A h : Calls(h)' = Calls(h) /\ NodesHeld(h)' = NodesHeld(h)
      BY <1>4 DEF Live, Calls, NodesHeld
    <3>2. ASSUME NEW h \in Live
          PROVE  \E m \in 0 .. Len(Calls(h)) : FirstCalls(Calls(h), entries', m)
      <4>1. CASE h = g
        BY <1>4, <4>1, ShorterPrefix
      <4>2. CASE h # g
        <5>1. PICK m \in 0 .. Len(Calls(h)) : FirstCalls(Calls(h), entries, m)
          BY <1>1 DEF EntriesInv
        <5>2. FirstCalls(Calls(h), entries \ D, m)
          BY <2>9, <4>2, <5>1, OtherCalls
        <5> QED BY <2>9, <5>1, <5>2
      <4> QED BY <4>1, <4>2
    <3>3. ASSUME NEW e \in entries' \ stale'
          PROVE  /\ GroupsOf(e) \cap ToSet(free_group') = {}
                 /\ NodesOf(e) \cap ToSet(free_node') = {}
                 /\ \A h \in Live : h \in GroupsOf(e) \/ NodesOf(e) \cap NodesHeld(h) # {}
                                       => e \in ToSet(Calls(h))
      BY <1>1, <1>4, <2>10, <3>3 DEF EntriesInv
    <3>4. \A e \in stale' : \A h \in Live : \A f \in ToSet(Calls(h)) : ~SameKey(e, f)
      BY <1>1, <2>10 DEF EntriesInv
    <3> QED BY <2>1, <3>1, <3>2, <3>3, <3>4 DEF EntriesInv
  <2>6. PortInv'
    BY <1>1, <1>4 DEF PortInv, Users, Live
  <2> QED BY <2>2, <2>3, <2>4, <2>5, <2>6 DEF ControlInv
<1>5. ASSUME /\ memseg' \in Seq(Segment) /\ Layout(memseg', 0, MemSize)
             /\ \A a : FreeIn(memseg', a) <=> FreeIn(memseg, a) \/ a \in Block(g)
             /\ free_group' \in Seq(Group) /\ IsInjective(free_group')
             /\ ToSet(free_group') = ToSet(free_group) \cup {g}
             /\ free_node' \in Seq(Node) /\ IsInjective(free_node')
             /\ ToSet(free_node') = ToSet(free_node) \cup NodesHeld(g)
             /\ recir_port_cnt' = [recir_port_cnt EXCEPT ![undo[g].port] = @ - 1]
             /\ undo' = [h \in DOMAIN undo \ {g} |-> undo[h]]
             /\ entries' = entries \ ToSet(Calls(g)) /\ failures' = failures,
             UNCHANGED <<reg_bitmap, stale>>
      PROVE  ControlInv'
  <2>1. Live' = Live \ {g} /\ \A h \in Live' : h \in Live /\ h # g /\ undo'[h] = undo[h]
    BY <1>5 DEF Live
  <2>2. \A h \in Live' : /\ Block(h)' = Block(h) /\ NodesHeld(h)' = NodesHeld(h)
                         /\ Calls(h)' = Calls(h)
    BY <2>1 DEF Block, NodesHeld, Calls
  <2>3. TypeOK'
    <3>1. recir_port_cnt' \in [Port -> Nat]
      <4> DEFINE q == undo[g].port
      <4>1. recir_port_cnt \in [Port -> Nat] /\ recir_port_cnt[q] >= Cardinality(Users(q))
            /\ IsFiniteSet(Users(q)) /\ Cardinality(Users(q)) \in Nat /\ q \in Port
        BY <1>1, <1>3, UsersFinite DEF PortInv, TypeOK
      <4>2. Users(q) # {}
        BY DEF Users
      <4>3. Cardinality(Users(q)) # 0
        BY <4>1, <4>2, FS_EmptySet
      <4>4. recir_port_cnt' = [recir_port_cnt EXCEPT ![q] = @ - 1]
        BY <1>5
      <4> HIDE DEF q
      <4>5. recir_port_cnt[q] - 1 \in Nat
        BY <4>1, <4>3
      <4> QED BY <4>1, <4>4, <4>5
    <3>2. /\ memseg' \in Seq((0 .. MemSize) \X (0 .. MemSize))
          /\ free_group' \in Seq(Group) /\ free_node' \in Seq(Node)
      BY <1>5, SegmentsTyped
    <3>3. /\ Live' \subseteq Group
          /\ \A h \in Live' : undo'[h] \in [addr : Addr, nodes : Seq(Node), port : Port]
      BY <1>1, <2>1 DEF TypeOK
    <3>4. reg_bitmap' \in [Addr -> BOOLEAN] /\ stale' \subseteq entries' /\ failures' \in Nat
      BY <1>0, <1>1, <1>5 DEF TypeOK
    <3> QED BY <3>1, <3>2, <3>3, <3>4 DEF TypeOK
  <2>4. MemInv'
    <3>1. ASSUME NEW h \in Live', NEW a \in Block(h)' PROVE a \in Addr /\ ~FreeIn(memseg', a)
      <4>1. a \in Block(h) /\ h \in Live /\ Block(h) \cap Block(g) = {}
        BY <1>1, <2>1, <2>2, <3>1 DEF MemInv
      <4>2. a \in Addr /\ ~FreeIn(memseg, a)
        BY <1>1, <4>1 DEF MemInv
      <4> QED BY <1>5, <4>1, <4>2
    <3>2. \A h, f \in Live' : h # f => Block(h)' \cap Block(f)' = {}
      BY <1>1, <2>1, <2>2 DEF MemInv
    <3>3. ASSUME failures' = 0, NEW a \in Addr
          PROVE  FreeIn(memseg', a) \/ \E h \in Live' : a \in Block(h)'
      <4>1. FreeIn(memseg, a) \/ \E h \in Live : a \in Block(h)
        BY <1>1, <1>5, <3>3 DEF MemInv
      <4> QED BY <1>5, <2>1, <2>2, <4>1
    <3>4. memseg' \in Seq(Segment) /\ Layout(memseg', 0, MemSize)
      BY <1>5
    <3>5. \A h \in Live' : Aligned(undo'[h].addr)
      BY <1>1, <2>1 DEF MemInv
    <3> QED BY <3>1, <3>2, <3>3, <3>4, <3>5 DEF MemInv
  <2>5. IdsInv'
    <3>1. IsInjective(free_group') /\ IsInjective(free_node')
      BY <1>5
    <3>2. ASSUME NEW h \in Live'
          PROVE  /\ h \notin ToSet(free_group') /\ NodesHeld(h)' \cap ToSet(free_node') = {}
                 /\ IsInjective(undo'[h].nodes)
      <4>1. /\ h \notin ToSet(free_group) /\ NodesHeld(h) \cap ToSet(free_node) = {}
            /\ IsInjective(undo[h].nodes) /\ NodesHeld(h) \cap NodesHeld(g) = {}
        BY <1>1, <2>1 DEF IdsInv
      <4> QED BY <1>5, <2>1, <2>2, <4>1
    <3>3. \A h, f \in Live' : h # f => NodesHeld(h)' \cap NodesHeld(f)' = {}
      BY <1>1, <2>1, <2>2 DEF IdsInv
    <3> QED BY <3>1, <3>2, <3>3 DEF IdsInv
  <2>6. EntriesInv'
    <3>1. ASSUME NEW e \in entries' \ stale'
          PROVE  /\ GroupsOf(e) \cap ToSet(free_group') = {}
                 /\ NodesOf(e) \cap ToSet(free_node') = {}
                 /\ \A h \in Live' : h \in GroupsOf(e) \/ NodesOf(e) \cap NodesHeld(h)' # {}
                                       => e \in ToSet(Calls(h)')
      <4>1. /\ GroupsOf(e) \cap ToSet(free_group) = {}
            /\ NodesOf(e) \cap ToSet(free_node) = {}
            /\ \A h \in Live : h \in GroupsOf(e) \/ NodesOf(e) \cap NodesHeld(h) # {}
                                  => e \in ToSet(Calls(h))
            /\ e \notin ToSet(Calls(g))
        BY <1>1, <1>5, <3>1 DEF EntriesInv
      <4>2. g \notin GroupsOf(e) /\ NodesOf(e) \cap NodesHeld(g) = {}
        BY <4>1
      <4> QED BY <1>5, <2>1, <2>2, <4>1, <4>2
    <3>2. ASSUME NEW h \in Live'
          PROVE  \E m \in 0 .. Len(Calls(h)') :
                    FirstCalls(Calls(h)', entries', m) /\ (failures' = 0 => m = Len(Calls(h)'))
      <4>1. h \in Live /\ h # g /\ Calls(h)' = Calls(h)
        BY <2>1, <2>2
      <4>2. PICK m \in 0 .. Len(Calls(h)) :
               FirstCalls(Calls(h), entries, m) /\ (failures = 0 => m = Len(Calls(h)))
        BY <1>1, <4>1 DEF EntriesInv
      <4>3. FirstCalls(Calls(h), entries \ ToSet(Calls(g)), m)
        BY <4>1, <4>2, OtherCalls
      <4> QED BY <1>5, <4>1, <4>2, <4>3
    <3>3. \A e \in stale' : \A h \in Live' : \A f \in ToSet(Calls(h)') : ~SameKey(e, f)
      BY <1>1, <1>5, <2>1, <2>2 DEF EntriesInv
    <3>4. failures' = 0 => stale' = {}
      BY <1>1, <1>5 DEF EntriesInv
    <3> QED BY <3>1, <3>2, <3>3, <3>4 DEF EntriesInv
  <2>7. PortInv'
    <3> SUFFICES ASSUME NEW p \in Port PROVE recir_port_cnt'[p] >= Cardinality(Users(p)')
      BY DEF PortInv
    <3>1. /\ recir_port_cnt[p] \in Nat /\ recir_port_cnt[p] >= Cardinality(Users(p))
          /\ IsFiniteSet(Users(p)) /\ Cardinality(Users(p)) \in Nat
          /\ recir_port_cnt \in [Port -> Nat]
      BY <1>1, UsersFinite DEF PortInv, TypeOK
    <3>2. CASE p = undo[g].port
      <4>1. recir_port_cnt'[p] = recir_port_cnt[p] - 1
        BY <1>5, <3>1, <3>2
      <4>2. Users(p)' = Users(p) \ {g} /\ g \in Users(p)
        BY <2>1, <3>2 DEF Users
      <4>3. Cardinality(Users(p) \ {g}) = Cardinality(Users(p)) - 1
        BY <3>1, <4>2, FS_RemoveElement
      <4> QED BY <3>1, <4>1, <4>2, <4>3
    <3>3. CASE p # undo[g].port
      <4>1. recir_port_cnt'[p] = recir_port_cnt[p]
        BY <1>5, <3>1, <3>3
      <4>2. Users(p)' = Users(p)
        BY <2>1, <3>3 DEF Users
      <4> QED BY <3>1, <4>1, <4>2
    <3> QED BY <3>2, <3>3
  <2> QED BY <2>3, <2>4, <2>5, <2>6, <2>7 DEF ControlInv
<1> QED BY <1>2, <1>4, <1>5 DEF DestroyEffect

(* The lists of Init and of reinit().                                      *)
LEMMA FullList ==
    ASSUME NEW n \in Nat
    PROVE  LET s == [i \in 1 .. n |-> i] IN s \in Seq(1 .. n) /\ IsInjective(s)
BY DEF IsInjective

LEMMA WholeMemory ==
    /\ << <<0, MemSize>> >> \in Seq(Segment) /\ Layout(<< <<0, MemSize>> >>, 0, MemSize)
    /\ \A a : FreeIn(<< <<0, MemSize>> >>, a) <=> a \in Addr
<1>1. /\ 0 \in Nat /\ MemSize \in Nat /\ 0 < MemSize /\ MemSize <= MemSize
      /\ Aligned(0) /\ Aligned(MemSize)
  BY Constants
<1> QED BY <1>1, OneSegment DEF Addr

LEMMA InitKeeps == Init => ControlInv
<1> SUFFICES ASSUME Init PROVE ControlInv
  OBVIOUS
<1>1. Live = {} /\ entries = {} /\ memseg = << <<0, MemSize>> >>
  BY DEF Init, Live
<1>2. /\ free_group \in Seq(Group) /\ free_node \in Seq(Node)
      /\ IsInjective(free_group) /\ IsInjective(free_node)
  BY Constants, FullList DEF Init, Group, Node
<1>3. TypeOK
  <2>1. recir_port_cnt \in [Port -> Nat] /\ reg_bitmap \in [Addr -> BOOLEAN]
    BY DEF Init
  <2>2. stale \subseteq entries /\ failures \in Nat
    BY DEF Init
  <2>3. memseg \in Seq((0 .. MemSize) \X (0 .. MemSize))
    BY <1>1, WholeMemory, SegmentsTyped
  <2> QED BY <1>1, <1>2, <2>1, <2>2, <2>3 DEF TypeOK
<1>4. MemInv
  BY <1>1, WholeMemory DEF MemInv
<1>5. IdsInv /\ EntriesInv
  BY <1>1, <1>2 DEF IdsInv, EntriesInv, Init
<1>6. PortInv
  <2> SUFFICES ASSUME NEW p \in Port PROVE recir_port_cnt[p] >= Cardinality(Users(p))
    BY DEF PortInv
  <2>1. Users(p) = {} /\ recir_port_cnt[p] = 0
    BY <1>1 DEF Users, Init
  <2> QED BY <2>1, FS_EmptySet
<1> QED BY <1>3, <1>4, <1>5, <1>6 DEF ControlInv

(* Init, also one that leaves entries behind: there is no group, and all   *)
(* entries are stale.                                                      *)
LEMMA ForgetKeeps ==
    ASSUME ControlInv, ForgetGroups, entries' = stale', failures' \in Nat,
           failures' = 0 => stale' = {}
    PROVE  ControlInv'
<1>1. Live' = {} /\ memseg' = << <<0, MemSize>> >>
  BY DEF ForgetGroups, Live
<1>2. /\ free_group' \in Seq(Group) /\ free_node' \in Seq(Node)
      /\ IsInjective(free_group') /\ IsInjective(free_node')
  BY Constants, FullList DEF ForgetGroups, Group, Node
<1>3. TypeOK'
  <2>1. recir_port_cnt' \in [Port -> Nat] /\ reg_bitmap' \in [Addr -> BOOLEAN]
    BY DEF ForgetGroups, ControlInv, TypeOK
  <2>2. stale' \subseteq entries' /\ failures' \in Nat
    OBVIOUS
  <2>3. memseg' \in Seq((0 .. MemSize) \X (0 .. MemSize))
    BY <1>1, WholeMemory, SegmentsTyped
  <2> QED BY <1>1, <1>2, <2>1, <2>2, <2>3 DEF TypeOK
<1>4. MemInv'
  BY <1>1, WholeMemory DEF MemInv
<1>5. IdsInv' /\ EntriesInv'
  BY <1>1, <1>2 DEF IdsInv, EntriesInv
<1>6. PortInv'
  <2> SUFFICES ASSUME NEW p \in Port PROVE recir_port_cnt'[p] >= Cardinality(Users(p)')
    BY DEF PortInv
  <2>1. Users(p)' = {} /\ recir_port_cnt'[p] = 0
    BY <1>1 DEF Users, ForgetGroups
  <2> QED BY <2>1, FS_EmptySet
<1> QED BY <1>3, <1>4, <1>5, <1>6 DEF ControlInv

LEMMA InitRPCKeeps ==
    ASSUME ControlInv, \/ \E k \in 0 .. 2 : InitRaises(k)
                       \/ \E kept \in SUBSET Uncleared(3) : InitRPC(kept)
    PROVE  ControlInv'
<1>1. failures \in Nat
  BY DEF ControlInv, TypeOK
<1>2. ForgetGroups /\ entries' = stale' /\ failures' \in {0, failures + 1}
      /\ (failures' = failures + 1 \/ stale' = {})
  BY DEF InitRaises, InitRPC
<1>3. failures' \in Nat /\ (failures' = 0 => stale' = {})
  BY <1>1, <1>2
<1> QED BY <1>2, <1>3, ForgetKeeps

LEMMA TrafficKeeps ==
    ASSUME ControlInv, NEW a \in Addr, Traffic(a)
    PROVE  ControlInv'
<1>1. TypeOK /\ MemInv /\ IdsInv /\ EntriesInv /\ PortInv
  BY DEF ControlInv
<1>2. /\ UNCHANGED <<memseg, free_group, free_node, recir_port_cnt, undo, entries,
                     stale, failures>>
      /\ reg_bitmap' = [reg_bitmap EXCEPT ![a] = TRUE]
  BY DEF Traffic
<1>3. TypeOK'
  <2>1. reg_bitmap' \in [Addr -> BOOLEAN]
    BY <1>1, <1>2 DEF TypeOK
  <2> QED BY <1>1, <1>2, <2>1 DEF TypeOK, Live
<1>4. MemInv'
  BY <1>1, <1>2 DEF MemInv, Live, Block
<1>5. IdsInv' /\ EntriesInv' /\ PortInv'
  BY <1>1, <1>2 DEF IdsInv, EntriesInv, PortInv, Users, Live, NodesHeld, Calls
<1> QED BY <1>3, <1>4, <1>5 DEF ControlInv

LEMMA NextKeeps == ControlInv /\ [Next]_vars => ControlInv'
<1> SUFFICES ASSUME ControlInv, [Next]_vars PROVE ControlInv'
  OBVIOUS
<1>1. ASSUME NEW n \in 1 .. MaxSize, NEW k \in 0 .. 2 * MaxSize + 3 + AllocSize,
             CreateGroup(n, k)
      PROVE  ControlInv'
  <2>1. k \in Nat
    BY Constants
  <2> QED BY <1>1, <2>1, CreateKeeps
<1>2. ASSUME NEW g \in DOMAIN undo, NEW k \in 0 .. 2 * MaxSize + 3, DestroyGroup(g, k)
      PROVE  ControlInv'
  <2>1. k \in Nat /\ g \in Live
    BY Constants DEF Live
  <2> QED BY <1>2, <2>1, DestroyKeeps
<1>3. CASE \/ \E k \in 0 .. 2 : InitRaises(k)
           \/ \E kept \in SUBSET Uncleared(3) : InitRPC(kept)
  BY <1>3, InitRPCKeeps
<1>4. ASSUME NEW a \in Addr, Traffic(a) PROVE ControlInv'
  BY <1>4, TrafficKeeps
<1>5. CASE UNCHANGED vars
  <2>1. TypeOK'
    BY <1>5 DEF vars, ControlInv, TypeOK, Live
  <2>2. MemInv'
    BY <1>5 DEF vars, ControlInv, MemInv, Live, Block
  <2>3. IdsInv' /\ EntriesInv' /\ PortInv'
    BY <1>5 DEF vars, ControlInv, IdsInv, EntriesInv, PortInv, Users, Live, NodesHeld, Calls
  <2> QED BY <2>1, <2>2, <2>3 DEF ControlInv
<1> QED BY <1>1, <1>2, <1>3, <1>4, <1>5 DEF Next

-----------------------------------------------------------------------------
(* Memory, ids, nodes and tables of the controller fit together in every   *)
(* state, whichever driver call of an RPC, Init included, raised an        *)
(* exception.                                                              *)
THEOREM ControlInvariance == Spec => []ControlInv
BY InitKeeps, NextKeeps, PTL DEF Spec

(* alloc_seg() and free_seg() keep the memory of the switch partitioned    *)
(* into free segments, in order, and the blocks of the groups, and a free  *)
(* slot always lies in a segment with room for a group.                    *)
THEOREM MemoryPartitioned == Spec => []MemoryPartition
<1>1. ControlInv => MemoryPartition
  <2> SUFFICES ASSUME ControlInv PROVE MemoryPartition
    OBVIOUS
  <2>1. TypeOK /\ MemInv
    BY DEF ControlInv
  <2>2. \A a : Free(a) <=> FreeIn(memseg, a)
    BY DEF Free, FreeIn
  <2>3. ASSUME NEW a \in Addr, Free(a) PROVE FitSeg(AllocSize) # 0
    <3>1. PICK i \in 1 .. Len(memseg) : a \in memseg[i][1] .. memseg[i][2] - 1
      BY <2>3 DEF Free
    <3> DEFINE x == memseg[i][1]
               y == memseg[i][2]
               fit == {j \in 1 .. Len(memseg) : Fits(j, AllocSize)}
    <3>2. x \in Nat /\ y \in Nat /\ Aligned(x) /\ Aligned(y)
      BY <2>1, SegmentTyped DEF MemInv
    <3>3. x < y
      BY <2>1 DEF MemInv, Layout
    <3>4. x + AllocSize <= y
      <4> HIDE DEF x, y
      <4> QED BY <3>2, <3>3, AlignedFacts
    <3>5. UpperAlign(x, AllocSize) = x
      <4> HIDE DEF x, y
      <4> QED BY <3>2, AlignUp, Constants DEF Aligned
    <3>6. i \in fit
      BY <3>4, <3>5 DEF Fits
    <3>7. fit \subseteq Nat \ {0}
      OBVIOUS
    <3> HIDE DEF fit
    <3>8. \E b \in fit : \A c \in fit : b <= c
      BY <3>6, <3>7, LeastElement
    <3>9. Min(fit) \in fit
      BY <3>8 DEF Min
    <3>10. FitSeg(AllocSize) = Min(fit)
      BY <3>6 DEF FitSeg, fit
    <3> QED BY <3>7, <3>9, <3>10
  <2> QED BY <2>1, <2>2, <2>3 DEF MemoryPartition, MemInv, Layout
<1> QED BY <1>1, ControlInvariance, PTL

(* Entries of an id or a node that CreateGroup may give to a new group are *)
(* left only by an incomplete Init, and never serve a group: each group    *)
(* finds its own entries under its keys.                                   *)
THEOREM TablesClean == Spec => []TablesMatch
<1>1. ControlInv => TablesMatch
  <2> SUFFICES ASSUME ControlInv PROVE TablesMatch
    OBVIOUS
  <2>1. TypeOK /\ IdsInv /\ EntriesInv
    BY DEF ControlInv
  <2>2. ASSUME NEW g \in Live PROVE ServedBy(g)
    <3> DEFINE c == Calls(g)
    <3>1. Len(c) \in Nat /\ DOMAIN c = 1 .. Len(c)
          /\ \A e \in ToSet(c) : GroupsOf(e) \subseteq {g} /\ NodesOf(e) \subseteq NodesHeld(g)
      BY <2>1, LiveCalls
    <3>2. PICK m \in 0 .. Len(c) :
             FirstCalls(c, entries, m) /\ (failures = 0 => m = Len(c))
      BY <2>1 DEF EntriesInv
    <3>3. \A j \in 1 .. Len(c) : c[j] \in ToSet(c)
      BY <3>1 DEF ToSet
    <3>4. ASSUME NEW e \in entries, NEW j \in 1 .. Len(c), SameKey(e, c[j])
          PROVE  \E i \in 1 .. m : e = c[i]
      <4>1. e \notin stale
        BY <2>1, <3>3, <3>4 DEF EntriesInv
      <4>2. g \in GroupsOf(e) \/ NodesOf(e) \cap NodesHeld(g) # {}
        <5>1. GroupsOf(c[j]) \subseteq {g} /\ NodesOf(c[j]) \subseteq NodesHeld(g)
          BY <3>1, <3>3
        <5>2. /\ GroupsOf(e) = GroupsOf(c[j]) /\ NodesOf(e) = NodesOf(c[j])
              /\ GroupsOf(e) # {} \/ NodesOf(e) # {}
          BY <3>4, KeyFacts
        <5> QED BY <5>1, <5>2
      <4>3. e \in ToSet(c)
        BY <2>1, <4>1, <4>2 DEF EntriesInv
      <4>4. PICK i \in 1 .. Len(c) : e = c[i]
        BY <3>1, <4>3 DEF ToSet
      <4>5. i <= m
        BY <3>2, <4>4 DEF FirstCalls
      <4>6. i \in 1 .. m
        <5>1. Len(c) \in Nat /\ i \in 1 .. Len(c) /\ m \in 0 .. Len(c)
          BY <3>1
        <5> HIDE DEF c
        <5> QED BY <4>5, <5>1
      <4> QED BY <4>4, <4>6
    <3>5. ASSUME NEW j \in 1 .. m PROVE j \in 1 .. Len(c) /\ c[j] \in entries /\ SameKey(c[j], c[j])
      <4>1. j \in 1 .. Len(c) /\ j <= m
        <5>1. Len(c) \in Nat /\ m \in 0 .. Len(c)
          BY <3>1
        <5> HIDE DEF c
        <5> QED BY <5>1
      <4> QED BY <3>2, <4>1, KeyFacts DEF FirstCalls
    <3>6. {e \in entries : \E j \in 1 .. Len(c) : SameKey(e, c[j])} = {c[j] : j \in 1 .. m}
      <4> HIDE DEF c
      <4> QED BY <3>4, <3>5
    <3> QED BY <3>2, <3>6 DEF ServedBy, Calls
  <2> QED BY <2>1, <2>2 DEF IdsInv, EntriesInv, TablesMatch, NodesHeld
<1> QED BY <1>1, ControlInvariance, PTL

(* No RPC, complete or not, clears a slot of a group that goes on: the     *)
(* block CreateGroup clears was free before.                               *)
THEOREM OthersKept == Spec => OthersUndisturbed
<1>1. ControlInv /\ [Next]_vars =>
        [\A g \in Live \cap Live' : \A a \in Block(g) :
            reg_bitmap[a] => reg_bitmap'[a]]_vars
  <2> SUFFICES ASSUME ControlInv, [Next]_vars, ~UNCHANGED vars,
                      NEW h \in Live \cap Live', NEW b \in Block(h), reg_bitmap[b]
               PROVE  reg_bitmap'[b]
    OBVIOUS
  <2>1. b \in Addr /\ ~FreeIn(memseg, b) /\ reg_bitmap \in [Addr -> BOOLEAN]
    BY DEF ControlInv, MemInv, TypeOK
  <2>2. ASSUME NEW n \in 1 .. MaxSize, NEW k \in 0 .. 2 * MaxSize + 3 + AllocSize,
               CreateGroup(n, k)
        PROVE  reg_bitmap'[b]
    <3>1. k \in Nat
      BY Constants
    <3>2. PICK l \in Nat, g \in Group, nodes \in Seq(Node), port \in Port :
             CreateEffect(l, g, nodes, port)
      BY <2>2, <3>1, CreateTakes
    <3>3. b \notin l .. l + AllocSize - 1
      BY <2>1, <3>2 DEF CreateEffect
    <3>4. PICK m \in 0 .. AllocSize : reg_bitmap' = ClearSlots(l, m)
      BY <3>2 DEF CreateEffect
    <3>5. b \notin l .. l + m - 1
      BY <3>3, <3>4, Constants
    <3> QED BY <2>1, <3>4, <3>5 DEF ClearSlots
  <2>3. ASSUME NEW g \in DOMAIN undo, NEW k \in 0 .. 2 * MaxSize + 3, DestroyGroup(g, k)
        PROVE  reg_bitmap'[b]
    BY <2>3 DEF DestroyGroup
  <2>4. CASE \/ \E k \in 0 .. 2 : InitRaises(k)
             \/ \E kept \in SUBSET Uncleared(3) : InitRPC(kept)
    BY <2>4 DEF InitRaises, InitRPC, ForgetGroups
  <2>5. ASSUME NEW a \in Addr, Traffic(a) PROVE reg_bitmap'[b]
    BY <2>1, <2>5 DEF Traffic
  <2> QED BY <2>2, <2>3, <2>4, <2>5 DEF Next
<1> QED BY <1>1, ControlInvariance, PTL DEF Spec, OthersUndisturbed
=============================================================================
