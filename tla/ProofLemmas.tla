---------------------------- MODULE ProofLemmas ----------------------------
(***************************************************************************)
(* What several proof modules need: facts about % and \div for a symbolic  *)
(* modulus (the arithmetic of aggregator addresses, versions and 32-bit    *)
(* sequence numbers), induction over sets of naturals, and queues.         *)
(***************************************************************************)
EXTENDS Integers, Sequences, TLAPS, WellFoundedInduction, SequenceTheorems

(* Euclidean division: what % and \div of two naturals are.                *)
LEMMA DivMod ==
    \A a \in Nat, m \in Nat \ {0} :
        /\ a % m \in 0 .. m - 1
        /\ a \div m \in Nat
        /\ a = m * (a \div m) + (a % m)
OBVIOUS

(* A nonzero multiple of m is at least m away from zero.                   *)
LEMMA MultipleFar ==
    \A m \in Nat, k \in Int :
        /\ k >= 1 => m * k >= m
        /\ k >= 2 => m * k >= 2 * m
        /\ k <= -1 => m * k <= -m
OBVIOUS

(* The remainder is unique.                                                *)
LEMMA ModUnique ==
    ASSUME NEW m \in Nat \ {0}, NEW k \in Nat, NEW x \in 0 .. m - 1
    PROVE  (m * k + x) % m = x
OBVIOUS

(* Adding a multiple of the modulus changes no remainder.                  *)
LEMMA ModAdd ==
    ASSUME NEW m \in Nat \ {0}, NEW k \in Nat, NEW y \in Nat
    PROVE  (m * k + y) % m = y % m
<1> DEFINE d == y \div m
           x == y % m
           e == k + d
<1>1. d \in Nat /\ x \in 0 .. m - 1 /\ y = m * d + x
  BY DivMod
<1>2. (m * e + x) % m = x
  <2>1. e \in Nat
    BY <1>1
  <2> HIDE DEF e, x, d
  <2> QED BY <1>1, <2>1, ModUnique
<1>3. m * k + y = m * e + x
  <2> HIDE DEF x, d
  <2> QED BY <1>1
<1> QED BY <1>2, <1>3

(* A remainder survives a reduction by a multiple of its modulus, as in    *)
(* the address of a wrapped sequence number.                               *)
LEMMA ModMod ==
    ASSUME NEW m \in Nat \ {0}, NEW M \in Nat \ {0}, M % m = 0, NEW a \in Nat
    PROVE  (a % M) % m = a % m
<1> DEFINE q == a \div M
           k == M \div m
           y == a % M
           j == k * q
<1>1. q \in Nat /\ k \in Nat /\ y \in Nat /\ a = M * q + y /\ M = m * k
  BY DivMod
<1>2. j \in Nat /\ a = m * j + y
  <2> HIDE DEF q, k, y
  <2> QED BY <1>1
<1>3. (m * j + y) % m = y % m
  <2> HIDE DEF j, y
  <2> QED BY <1>1, <1>2, ModAdd
<1> QED BY <1>2, <1>3

(* Two numbers with the same remainder differ by a multiple of the modulus.*)
LEMMA ModMultiple ==
    ASSUME NEW m \in Nat \ {0}, NEW p \in Nat, NEW q \in Nat,
           p <= q, p % m = q % m
    PROVE  \E k \in Nat : q = p + m * k
<1> DEFINE d == p \div m
           e == q \div m
           x == p % m
           k == e - d
<1>1. d \in Nat /\ x \in 0 .. m - 1 /\ p = m * d + x
  BY DivMod, Zenon
<1>2. e \in Nat /\ q = m * e + (q % m)
  BY DivMod
<1>3. q = m * e + x
  BY <1>2
<1> HIDE DEF d, e, x
<1>4. q = p + m * k /\ k \in Int
  BY <1>1, <1>2, <1>3
<1> HIDE DEF k
<1>5. k <= -1 => m * k <= -m
  BY <1>4, MultipleFar
<1>6. k \in Nat
  BY <1>4, <1>5
<1> QED BY <1>4, <1>6

(* Two numbers with the same remainder are a whole modulus apart.          *)
LEMMA ModApart ==
    ASSUME NEW m \in Nat \ {0}, NEW p \in Nat, NEW q \in Nat,
           p < q, p % m = q % m
    PROVE  q >= p + m
<1>0. p <= q
  OBVIOUS
<1>1. PICK k \in Nat : q = p + m * k
  BY <1>0, ModMultiple, Zenon
<1>2. k # 0
  BY <1>1
<1>3. m * k >= m
  BY <1>2, MultipleFar
<1> QED BY <1>1, <1>3

(* A shift by a non-multiple of the modulus changes the remainder.         *)
LEMMA ModShift ==
    ASSUME NEW v \in Nat \ {0}, NEW n \in Nat, n % v # 0, NEW p \in Nat
    PROVE  (p + n) % v # p % v
<1>1. SUFFICES ASSUME p % v = (p + n) % v PROVE FALSE
  OBVIOUS
<1> DEFINE q == p + n
<1>2. q \in Nat /\ p <= q /\ p % v = q % v
  BY <1>1
<1>3. \E k \in Nat : q = p + v * k
  <2> HIDE DEF q
  <2> QED BY <1>2, ModMultiple
<1>4. PICK k \in Nat : q = p + v * k
  BY <1>3
<1>5. (v * k + 0) % v = 0
  BY ModUnique
<1>6. n = v * k + 0
  BY <1>4
<1> QED BY <1>5, <1>6

(* Wrapping subtraction of two reduced numbers gives their distance when   *)
(* it is less than the modulus: a - b in 32 bits.                          *)
LEMMA WrapDiff ==
    ASSUME NEW M \in Nat \ {0}, NEW a \in Nat, NEW b \in Nat,
           b <= a, a < b + M
    PROVE  a - b = IF a % M >= b % M THEN (a % M) - (b % M)
                                     ELSE (a % M) - (b % M) + M
<1> DEFINE x == a % M
           y == b % M
           d == a \div M
           e == b \div M
           k == d - e
<1>1. /\ x \in 0 .. M - 1 /\ y \in 0 .. M - 1
      /\ d \in Nat /\ e \in Nat /\ a = M * d + x /\ b = M * e + y
  BY DivMod
<1> HIDE DEF x, y, d, e
<1>2. a - b = M * k + (x - y) /\ k \in Int
  BY <1>1
<1> HIDE DEF k
<1>3. k = 0 \/ k = 1
  <2>1. /\ k >= 2 => M * k >= 2 * M
        /\ k <= -1 => M * k <= -M
    BY <1>2, MultipleFar
  <2> QED BY <1>1, <1>2, <2>1
<1>4. CASE k = 0
  BY <1>1, <1>2, <1>4 DEF x, y
<1>5. CASE k = 1
  BY <1>1, <1>2, <1>5 DEF x, y
<1> QED BY <1>3, <1>4, <1>5

(* Euclidean division of an integer.                                       *)
LEMMA DivModInt ==
    \A a \in Int, m \in Nat \ {0} :
        /\ a % m \in 0 .. m - 1
        /\ a \div m \in Int
        /\ a = m * (a \div m) + (a % m)
OBVIOUS

(* The remainder of an integer is unique.                                  *)
LEMMA ModUniqueInt ==
    ASSUME NEW m \in Nat \ {0}, NEW k \in Int, NEW x \in 0 .. m - 1
    PROVE  (m * k + x) % m = x
OBVIOUS

(* Steps on a ring: an addition or subtraction may come before or after    *)
(* the reduction.                                                          *)
LEMMA ModPlus ==
    ASSUME NEW m \in Nat \ {0}, NEW a \in Int, NEW k \in Int
    PROVE  ((a % m) + k) % m = (a + k) % m
<1> DEFINE q == a \div m
           r == a % m
           e == (r + k) \div m
           y == (r + k) % m
           j == q + e
<1>1. q \in Int /\ r \in Int /\ a = m * q + r
  BY DivModInt
<1>2. e \in Int /\ y \in 0 .. m - 1 /\ r + k = m * e + y
  <2> HIDE DEF r
  <2>1. r + k \in Int
    BY <1>1
  <2> QED BY <2>1, DivModInt
<1> HIDE DEF q, r, e, y
<1>3. j \in Int /\ a + k = m * j + y
  BY <1>1, <1>2
<1> HIDE DEF j
<1>4. (a + k) % m = y
  BY <1>2, <1>3, ModUniqueInt
<1> QED BY <1>4 DEF y, r

(* The distance of two places on a ring, the later one less than a round   *)
(* ahead of the other.                                                     *)
LEMMA RingDistance ==
    ASSUME NEW m \in Nat \ {0}, NEW a \in Nat, NEW b \in Nat, b <= a, a < b + m
    PROVE  ((a % m) - (b % m)) % m = a - b
<1> DEFINE d == a \div m
           x == a % m
           e == b \div m
           y == b % m
           j == e - d
           z == a - b
<1>1. d \in Int /\ x \in Int /\ a = m * d + x
  BY DivModInt
<1>2. e \in Int /\ y \in Int /\ b = m * e + y
  BY DivModInt
<1> HIDE DEF d, x, e, y
<1>3. j \in Int /\ z \in 0 .. m - 1 /\ x - y = m * j + z
  BY <1>1, <1>2
<1> HIDE DEF j, z
<1>4. (x - y) % m = z
  BY <1>3, ModUniqueInt
<1> QED BY <1>4 DEF x, y, z

(* A set of naturals has a least element.                                  *)
LEMMA LeastElement ==
    ASSUME NEW T, T \subseteq Nat, T # {}
    PROVE  \E x \in T : \A y \in T : x <= y
<1> DEFINE R == OpToRel(<, Nat)
<1>1. \E x \in T : \A y \in T : ~ (<<y, x>> \in R)
  BY NatLessThanWellFounded, WFMin, Zenon
<1>2. PICK x \in T : \A y \in T : ~ (<<y, x>> \in R)
  BY <1>1
<1>3. ASSUME NEW y \in T PROVE ~ (y < x)
  <2>1. y \in Nat /\ x \in Nat
    OBVIOUS
  <2>2. ~ (<<y, x>> \in R)
    BY <1>2
  <2>3. <<y, x>> \in Nat \X Nat /\ <<y, x>>[1] = y /\ <<y, x>>[2] = x
    BY <2>1
  <2> QED BY <2>2, <2>3, Zenon DEF OpToRel
<1>4. \A y \in T : x <= y
  BY <1>3
<1> QED BY <1>4

(* A bounded set of naturals has a greatest element.                       *)
LEMMA GreatestElement ==
    ASSUME NEW N \in Nat, NEW T, T \subseteq 0 .. N, T # {}
    PROVE  \E x \in T : \A y \in T : y <= x
<1> DEFINE D == {N - y : y \in T}
<1>1. D \subseteq Nat /\ D # {}
  <2>1. \A y \in T : N - y \in Nat
    OBVIOUS
  <2>2. \E y : y \in T
    OBVIOUS
  <2> QED BY <2>1, <2>2
<1>2. PICK d \in D : \A e \in D : d <= e
  <2> HIDE DEF D
  <2> QED BY <1>1, LeastElement
<1>3. PICK x \in T : d = N - x
  OBVIOUS
<1>4. ASSUME NEW y \in T PROVE y <= x
  <2>1. N - y \in D /\ y \in Nat /\ x \in Nat
    OBVIOUS
  <2>2. N - x <= N - y
    BY <1>2, <1>3, <2>1
  <2> QED BY <2>1, <2>2
<1> QED BY <1>4

(* Induction over the naturals, for a set instead of a predicate.          *)
LEMMA NatSetInduction ==
    ASSUME NEW T, T \subseteq Nat, 0 \in T, \A n \in T : n + 1 \in T
    PROVE  \A n \in Nat : n \in T
<1>1. SUFFICES ASSUME Nat \ T # {} PROVE FALSE
  OBVIOUS
<1> DEFINE D == Nat \ T
<1>2. D \subseteq Nat /\ D # {}
  BY <1>1
<1>3. PICK x \in D : \A y \in D : x <= y
  <2> HIDE DEF D
  <2> QED BY <1>2, LeastElement
<1>4. x # 0 /\ x \in Nat
  BY <1>3
<1>5. x - 1 \in Nat /\ x - 1 \notin D
  BY <1>3, <1>4
<1> QED BY <1>3, <1>4, <1>5

-----------------------------------------------------------------------------
(* What taking the head of a queue does to it.                             *)
LEMMA TailFacts ==
    ASSUME NEW S, NEW s \in Seq(S), s # <<>>
    PROVE  /\ Head(s) \in S /\ Head(s) = s[1]
           /\ Tail(s) \in Seq(S)
           /\ Len(s) \in Nat /\ Len(s) >= 1
           /\ Len(Tail(s)) = Len(s) - 1
           /\ \A i \in 1 .. Len(Tail(s)) : Tail(s)[i] = s[i + 1] /\ i + 1 \in 1 .. Len(s)
OBVIOUS

(* What adding an element to a queue does to it.                           *)
LEMMA AppendFacts ==
    ASSUME NEW S, NEW s \in Seq(S), NEW e \in S
    PROVE  /\ Append(s, e) \in Seq(S)
           /\ Len(s) \in Nat
           /\ Len(Append(s, e)) = Len(s) + 1
           /\ \A i \in 1 .. Len(s) : Append(s, e)[i] = s[i]
           /\ Append(s, e)[Len(s) + 1] = e
OBVIOUS

(* Two sequences one after the other.                                      *)
LEMMA ConcatFacts ==
    ASSUME NEW S, NEW s \in Seq(S), NEW t \in Seq(S)
    PROVE  /\ s \o t \in Seq(S) /\ Len(s \o t) = Len(s) + Len(t)
           /\ \A i \in 1 .. Len(s) + Len(t) :
                (s \o t)[i] = IF i <= Len(s) THEN s[i] ELSE t[i - Len(s)]
OBVIOUS

(* A part of a sequence.                                                   *)
LEMMA SubSeqFacts ==
    ASSUME NEW S, NEW s \in Seq(S), NEW m \in Nat, NEW n \in Nat,
           1 <= m, m <= n + 1, n <= Len(s)
    PROVE  /\ SubSeq(s, m, n) \in Seq(S)
           /\ Len(SubSeq(s, m, n)) = n - m + 1
           /\ \A i \in 1 .. n - m + 1 : SubSeq(s, m, n)[i] = s[m + i - 1]
OBVIOUS
=============================================================================
