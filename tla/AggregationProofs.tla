-------------------------- MODULE AggregationProofs --------------------------
(***************************************************************************)
(* Proofs that Aggregation is safe for every number of ranks, chunks and   *)
(* slots, every capacity and every number of losses, and that every step   *)
(* of a host, of a link or of the switch is a step, or a stutter, of the   *)
(* collective its callers see and of the sliding window of each host.      *)
(***************************************************************************)
EXTENDS AggregationInv, AggregationRefinement, ProofLemmas

-----------------------------------------------------------------------------
(* Lemmas about the constants.                                             *)

(* Two windows fit in one cycle of the slots (gen_pkt's agg_len / 2).      *)
LEMMA WindowFacts ==
    /\ WindowLimit \in Nat
    /\ WindowLimit >= 1
    /\ 2 * WindowLimit <= AggLen
    /\ AggLen \in Nat \ {0} /\ PsnMod \in Nat \ {0} /\ VerMod \in Nat \ {0}
    /\ AggLen <= PsnMod
    /\ NChunks \in Nat
    /\ StartPsn \in Nat
BY FabricAssumption DEF FabricAssumption, WindowLimit

(* Addresses and versions are of their types, and no packet has the        *)
(* version of a cleared register.                                          *)
LEMMA AddrType ==
    \A p \in Nat : AggAddr(p) \in AggAddrs /\ Version(p) \in Versions
                   /\ Version(p) # InitVersion
<1>1. SUFFICES ASSUME NEW p \in Nat
      PROVE AggAddr(p) \in AggAddrs /\ Version(p) \in Versions
            /\ Version(p) # InitVersion
  OBVIOUS
<1>2. Psn(p) \in Nat
  BY WindowFacts, DivMod DEF Psn
<1>3. AggAddr(p) \in AggAddrs /\ Psn(p) % VerMod \in 0 .. VerMod - 1
  BY <1>2, WindowFacts, DivMod DEF AggAddr, AggAddrs
<1>4. Version(p) \in Versions /\ Version(p) # InitVersion
  BY <1>3 DEF Version, Versions, InitVersion
<1> QED BY <1>3, <1>4

(* With aligned constants the address and the version of a chunk are its   *)
(* distance from PSN 0, modulo the slots and modulo the versions.          *)
LEMMA AddrIsMod ==
    ASSUME Aligned
    PROVE  \A p \in Nat : /\ StartPsn + p \in Nat
                          /\ AggAddr(p) = (StartPsn + p) % AggLen
                          /\ Version(p) = <<1, (StartPsn + p) % VerMod>>
<1>1. \A a \in Nat : (a % PsnMod) % AggLen = a % AggLen /\ (a % PsnMod) % VerMod = a % VerMod
  BY WindowFacts, ModMod DEF Aligned
<1>2. \A p \in Nat : StartPsn + p \in Nat
  BY WindowFacts
<1> QED BY <1>1, <1>2 DEF AggAddr, Version, Psn

(* Two chunks share a slot only when they are a cycle of the slots apart.  *)
LEMMA SlotSeparation ==
    ASSUME Aligned, NEW p \in Nat, NEW q \in Nat, p < q, AggAddr(p) = AggAddr(q)
    PROVE  q >= p + AggLen
<1> DEFINE x == StartPsn + p
           y == StartPsn + q
<1>1. x \in Nat /\ y \in Nat /\ x < y /\ AggLen \in Nat \ {0}
  BY WindowFacts
<1>2. x % AggLen = y % AggLen
  BY AddrIsMod
<1>3. y >= x + AggLen
  <2> HIDE DEF x, y
  <2> QED BY <1>1, <1>2, ModApart
<1> QED BY <1>3, WindowFacts

(* The chunk one cycle later uses the same slot with another version.      *)
LEMMA SlotCycle ==
    ASSUME Aligned, NEW p \in Nat
    PROVE  AggAddr(p + AggLen) = AggAddr(p) /\ Version(p + AggLen) # Version(p)
<1> DEFINE x == StartPsn + p
           y == x + AggLen
           q == p + AggLen
<1>1. /\ x \in Nat /\ y = AggLen * 1 + x /\ q \in Nat /\ StartPsn + q = y
      /\ AggLen \in Nat \ {0} /\ VerMod \in Nat \ {0} /\ 1 \in Nat
  BY WindowFacts
<1>2. y % AggLen = x % AggLen
  <2> HIDE DEF x, y
  <2>1. (AggLen * 1 + x) % AggLen = x % AggLen
    BY <1>1, ModAdd, Zenon
  <2> QED BY <1>1, <2>1
<1>3. y % VerMod # x % VerMod
  <2> HIDE DEF x
  <2> QED BY <1>1, ModShift DEF Aligned
<1>4. AggAddr(p) = x % AggLen /\ Version(p) = <<1, x % VerMod>>
  BY AddrIsMod
<1>5. AggAddr(q) = y % AggLen /\ Version(q) = <<1, y % VerMod>>
  <2>1. AggAddr(q) = (StartPsn + q) % AggLen /\ Version(q) = <<1, (StartPsn + q) % VerMod>>
    <3> HIDE DEF q
    <3> QED BY <1>1, AddrIsMod
  <2> HIDE DEF y, q
  <2> QED BY <1>1, <2>1
<1> HIDE DEF x, y
<1> QED BY <1>2, <1>3, <1>4, <1>5

(* get_position's wrapping subtraction.                                    *)
LEMMA PsnDistance ==
    ASSUME NEW a \in Nat, NEW b \in Nat
    PROVE  /\ b <= a /\ a < b + PsnMod => PsnDiff(Psn(a), Psn(b)) = a - b
           /\ a < b /\ b < a + PsnMod => PsnDiff(Psn(a), Psn(b)) = PsnMod - (b - a)
<1> DEFINE x == StartPsn + a
           y == StartPsn + b
<1>0. /\ x \in Nat /\ y \in Nat /\ x - y = a - b /\ PsnMod \in Nat \ {0}
      /\ Psn(a) = x % PsnMod /\ Psn(b) = y % PsnMod
  BY WindowFacts DEF Psn
<1>1. Psn(a) \in 0 .. PsnMod - 1 /\ Psn(b) \in 0 .. PsnMod - 1
  <2> HIDE DEF x, y
  <2> QED BY <1>0, DivMod
<1>2. ASSUME b <= a, a < b + PsnMod
      PROVE  PsnDiff(Psn(a), Psn(b)) = a - b
  <2>1. y <= x /\ x < y + PsnMod
    BY <1>2, WindowFacts
  <2>2. x - y = IF x % PsnMod >= y % PsnMod THEN (x % PsnMod) - (y % PsnMod)
                ELSE (x % PsnMod) - (y % PsnMod) + PsnMod
    <3> HIDE DEF x, y
    <3> QED BY <1>0, <2>1, WrapDiff
  <2> HIDE DEF x, y
  <2> QED BY <1>0, <2>2 DEF PsnDiff
<1>3. ASSUME a < b, b < a + PsnMod
      PROVE  PsnDiff(Psn(a), Psn(b)) = PsnMod - (b - a)
  <2>1. x <= y /\ y < x + PsnMod
    BY <1>3, WindowFacts
  <2>2. y - x = IF y % PsnMod >= x % PsnMod THEN (y % PsnMod) - (x % PsnMod)
                ELSE (y % PsnMod) - (x % PsnMod) + PsnMod
    <3> HIDE DEF x, y
    <3> QED BY <1>0, <2>1, WrapDiff
  <2>3. y - x = b - a
    BY WindowFacts
  <2> HIDE DEF x, y
  <2> QED BY <1>0, <1>1, <1>3, <2>2, <2>3 DEF PsnDiff
<1> QED BY <1>2, <1>3

-----------------------------------------------------------------------------
(* Lemmas about queues.                                                    *)

(* A queue stays recent and ordered when its head is taken, and what is    *)
(* left is recent with respect to the head.                                *)
LEMMA TailRecent ==
    ASSUME NEW S, NEW s \in Seq(S), s # <<>>
    PROVE  /\ \A c : Recent(s, c) => Recent(Tail(s), c)
           /\ Ordered(s) => Ordered(Tail(s)) /\ Recent(Tail(s), Head(s).chunk)
<1>1. \A c : Recent(s, c) => Recent(Tail(s), c)
  BY TailFacts DEF Recent
<1>2. ASSUME Ordered(s) PROVE Ordered(Tail(s))
  <2>1. SUFFICES ASSUME NEW i \in 1 .. Len(Tail(s)), NEW j \in 1 .. Len(Tail(s)), i < j
        PROVE Tail(s)[j].chunk + WindowLimit > Tail(s)[i].chunk
    BY DEF Ordered
  <2>2. i + 1 \in 1 .. Len(s) /\ j + 1 \in 1 .. Len(s) /\ i + 1 < j + 1
    BY <2>1, TailFacts
  <2>3. s[j + 1].chunk + WindowLimit > s[i + 1].chunk
    BY <1>2, <2>2 DEF Ordered
  <2> QED BY <2>3, TailFacts
<1>3. ASSUME Ordered(s) PROVE Recent(Tail(s), Head(s).chunk)
  <2>1. SUFFICES ASSUME NEW i \in 1 .. Len(Tail(s))
        PROVE Tail(s)[i].chunk + WindowLimit > Head(s).chunk
    BY DEF Recent
  <2>2. i + 1 \in 1 .. Len(s) /\ 1 \in 1 .. Len(s) /\ 1 < i + 1
    BY <2>1, TailFacts
  <2>3. s[i + 1].chunk + WindowLimit > s[1].chunk
    BY <1>3, <2>2 DEF Ordered
  <2> QED BY <2>3, TailFacts
<1> QED BY <1>1, <1>2, <1>3

(* A queue stays recent and ordered when a recent enough element is added. *)
LEMMA AppendRecent ==
    ASSUME NEW S, NEW s \in Seq(S), NEW e \in S
    PROVE  /\ \A c : Recent(s, c) /\ e.chunk + WindowLimit > c => Recent(Append(s, e), c)
           /\ /\ Ordered(s)
              /\ \A i \in 1 .. Len(s) : e.chunk + WindowLimit > s[i].chunk
              => Ordered(Append(s, e))
<1> DEFINE t == Append(s, e)
<1>0. /\ Len(s) \in Nat /\ Len(t) = Len(s) + 1
      /\ \A i \in 1 .. Len(s) : t[i] = s[i]
      /\ t[Len(s) + 1] = e
  BY AppendFacts
<1> HIDE DEF t
<1>1. \A c : Recent(s, c) /\ e.chunk + WindowLimit > c => Recent(t, c)
  <2>1. SUFFICES ASSUME NEW c, Recent(s, c), e.chunk + WindowLimit > c,
                        NEW i \in 1 .. Len(t)
        PROVE  t[i].chunk + WindowLimit > c
    BY DEF Recent
  <2>2. CASE i = Len(s) + 1
    BY <1>0, <2>1, <2>2
  <2>3. CASE i \in 1 .. Len(s)
    BY <1>0, <2>1, <2>3 DEF Recent
  <2> QED BY <1>0, <2>2, <2>3
<1>2. ASSUME Ordered(s), \A i \in 1 .. Len(s) : e.chunk + WindowLimit > s[i].chunk
      PROVE  Ordered(t)
  <2>1. SUFFICES ASSUME NEW i \in 1 .. Len(t), NEW j \in 1 .. Len(t), i < j
        PROVE  t[j].chunk + WindowLimit > t[i].chunk
    BY DEF Ordered
  <2>2. i \in 1 .. Len(s)
    BY <1>0, <2>1
  <2>3. CASE j = Len(s) + 1
    BY <1>0, <1>2, <2>2, <2>3
  <2>4. CASE j \in 1 .. Len(s)
    BY <1>0, <1>2, <2>1, <2>2, <2>4 DEF Ordered
  <2> QED BY <1>0, <2>3, <2>4
<1> QED BY <1>1, <1>2 DEF t
(* What the type invariant says of the entries of queues and windows.      *)
LEMMA Types ==
    ASSUME TypeOK
    PROVE  /\ \A c \in Chunk : c \in Nat /\ c < NChunks
           /\ \A r \in Ranks :
                /\ up[r] \in Seq(Packet) /\ down[r] \in Seq(Frame)
                /\ left[r] \in Nat /\ sent[r] \in Nat /\ sent[r] <= NChunks
                /\ acked[r] \subseteq Chunk
                /\ \A i \in 1 .. Len(up[r]) : up[r][i].chunk \in Chunk
                /\ \A i \in 1 .. Len(down[r]) : down[r][i].chunk \in Chunk
           /\ recirc \in Seq(Recirculated)
           /\ \A i \in 1 .. Len(recirc) : recirc[i].chunk \in Chunk
           /\ \A a \in AggAddrs : /\ owner[a] \in Int
                                   /\ owner[a] \in Chunk \cup {NoChunk}
                                   /\ reg_bitmap[a].bitmap \subseteq Ranks
<1>1. \A c \in Chunk : c \in Nat /\ c < NChunks
  BY WindowFacts DEF Chunk
<1>2. ASSUME NEW r \in Ranks
      PROVE  /\ up[r] \in Seq(Packet) /\ down[r] \in Seq(Frame)
             /\ left[r] \in 0 .. NChunks /\ sent[r] \in 0 .. NChunks
             /\ acked[r] \subseteq Chunk
  BY DEF TypeOK, LinkTypeOK, HostTypeOK
<1>3. ASSUME NEW r \in Ranks, NEW i \in 1 .. Len(up[r]) PROVE up[r][i].chunk \in Chunk
  <2>1. up[r][i] \in Packet
    BY <1>2, <1>3
  <2> QED BY <2>1 DEF Packet
<1>4. ASSUME NEW r \in Ranks, NEW i \in 1 .. Len(down[r]) PROVE down[r][i].chunk \in Chunk
  <2>1. down[r][i] \in Frame
    BY <1>2, <1>4
  <2> QED BY <2>1 DEF Frame
<1>5. recirc \in Seq(Recirculated)
  BY DEF TypeOK, SwitchTypeOK
<1>6. ASSUME NEW i \in 1 .. Len(recirc) PROVE recirc[i].chunk \in Chunk
  <2>1. recirc[i] \in Recirculated
    BY <1>5, <1>6
  <2> QED BY <2>1 DEF Recirculated
<1>7. ASSUME NEW a \in AggAddrs
      PROVE  /\ owner[a] \in Chunk \cup {NoChunk}
             /\ reg_bitmap[a].bitmap \subseteq Ranks
  BY DEF TypeOK, SwitchTypeOK
<1>8. \A a \in AggAddrs : owner[a] \in Int
  BY <1>1, <1>7 DEF NoChunk
<1>9. \A r \in Ranks : left[r] \in Nat /\ sent[r] \in Nat /\ sent[r] <= NChunks
  BY <1>2, WindowFacts
<1> QED BY <1>1, <1>2, <1>3, <1>4, <1>5, <1>6, <1>7, <1>8, <1>9

-----------------------------------------------------------------------------
(* What the invariant says of the oldest unacknowledged chunk.             *)

(* The chunk before the window of a rank was acknowledged, so it left the  *)
(* switch.                                                                 *)
LEMMA BeforeWindow ==
    ASSUME IndInv, NEW x \in Ranks, NEW c \in 0 .. left[x] - 1
    PROVE  c \in acked[x] /\ c \in Chunk /\ Served(c) /\ Recent(down[x], c)
<1>1. c \in acked[x]
  BY DEF IndInv, WindowInv
<1> QED BY <1>1 DEF IndInv, AckInv, TypeOK, HostTypeOK

(* A packet on an uplink is less than a cycle of the slots behind the      *)
(* newest chunk of any rank.                                               *)
LEMMA UplinkRecent ==
    ASSUME IndInv, NEW q \in Ranks, NEW x \in Ranks, NEW i \in 1 .. Len(up[q])
    PROVE  up[q][i].chunk + 2 * WindowLimit >= sent[x]
<1> DEFINE n == up[q][i].chunk
<1>0. n \in Nat /\ left[x] \in Nat /\ sent[x] \in Nat /\ sent[x] <= left[x] + WindowLimit
  BY Types DEF IndInv, WindowInv
<1>1. CASE left[x] = 0
  BY <1>0, <1>1, WindowFacts
<1>2. CASE left[x] # 0
  <2>1. left[x] - 1 \in 0 .. left[x] - 1
    BY <1>0, <1>2
  <2>2. Recent(up[q], left[x] - 1)
    BY <2>1, BeforeWindow DEF Served, Reached, SentBy
  <2>3. n + WindowLimit > left[x] - 1
    BY <2>2 DEF Recent
  <2>4. WindowLimit \in Nat
    BY WindowFacts
  <2> HIDE DEF n
  <2>5. n + WindowLimit >= left[x]
    BY <1>0, <2>3, <2>4
  <2>6. n + 2 * WindowLimit >= left[x] + WindowLimit
    BY <1>0, <2>4, <2>5
  <2>7. n + 2 * WindowLimit >= sent[x]
    BY <1>0, <2>4, <2>6
  <2> QED BY <2>7 DEF n
<1> QED BY <1>1, <1>2

(* A packet that reaches the switch finds in its slot nothing, its own     *)
(* chunk, or the chunk one cycle earlier; and then that one is no longer   *)
(* in the recirculation port.                                              *)
LEMMA Arrival ==
    ASSUME Aligned, IndInv, NEW q \in Ranks, up[q] # <<>>,
           NEW n \in Chunk, n = Head(up[q]).chunk
    PROVE  LET a == AggAddr(n)
               c == owner[a]
           IN  \/ c = NoChunk
               \/ c = n
               \/ /\ n = c + AggLen
                  /\ \A i \in 1 .. Len(recirc) : recirc[i].chunk # c
<1> DEFINE a == AggAddr(n)
           c == owner[a]
<1>0. /\ n \in Nat /\ a \in AggAddrs /\ c \in Chunk \cup {NoChunk}
      /\ up[q] \in Seq(Packet)
      /\ \A x \in Ranks : sent[x] \in Nat
      /\ sent[q] \in Nat /\ left[q] \in Nat /\ sent[q] <= left[q] + WindowLimit
  BY AddrType, Types DEF IndInv, WindowInv
<1>1. 1 \in 1 .. Len(up[q]) /\ up[q][1].chunk = n /\ n < sent[q]
  BY <1>0, TailFacts DEF IndInv, UpInv
<1>2. SUFFICES ASSUME c # NoChunk, c # n
      PROVE  /\ n = c + AggLen
             /\ \A i \in 1 .. Len(recirc) : recirc[i].chunk # c
  OBVIOUS
<1>3. c \in Nat /\ AggAddr(c) = a
  BY <1>0, <1>2, Types DEF IndInv, SlotInv, OwnedSlot
<1>4. n > c
  <2>1. PICK x \in reg_bitmap[a].bitmap : c < sent[x]
    BY <1>0, <1>2 DEF IndInv, SlotInv, OwnedSlot, SentBy
  <2>2. x \in Ranks
    BY <1>0, <2>1, Types DEF IndInv
  <2>3. n + 2 * WindowLimit >= sent[x]
    BY <1>1, <2>2, UplinkRecent
  <2>4. n + AggLen > c
    BY <1>0, <1>3, <2>1, <2>2, <2>3, WindowFacts
  <2>5. ~(n < c)
    BY <1>0, <1>3, <2>4, SlotSeparation, WindowFacts
  <2> QED BY <1>0, <1>2, <1>3, <2>5
<1>5. n >= c + AggLen
  BY <1>0, <1>3, <1>4, SlotSeparation
<1>6. n - AggLen \in 0 .. left[q] - 1 /\ n - AggLen + WindowLimit < left[q]
  <2> HIDE DEF c, a
  <2>0. /\ n \in Nat /\ n < sent[q] /\ sent[q] \in Nat /\ left[q] \in Nat
        /\ sent[q] <= left[q] + WindowLimit
        /\ AggLen \in Nat /\ WindowLimit \in Nat /\ 2 * WindowLimit <= AggLen
    BY <1>0, <1>1, WindowFacts
  <2>1. n - AggLen + WindowLimit < left[q]
    BY <2>0
  <2>2. n - AggLen >= 0
    BY <1>0, <1>3, <1>5, WindowFacts
  <2>3. n - AggLen < left[q]
    BY <2>0, <2>1
  <2>4. n - AggLen \in Int /\ left[q] \in Int
    BY <2>0
  <2> QED BY <2>1, <2>2, <2>3, <2>4
<1>7. n = c + AggLen
  <2> DEFINE m == n - AggLen
  <2>1. m \in Nat /\ m + AggLen = n
    BY <1>0, <1>6, WindowFacts
  <2>2. AggAddr(m) = a
    <3> HIDE DEF m
    <3> QED BY <2>1, SlotCycle DEF a
  <2>3. owner[AggAddr(m)] >= m
    BY <1>6, BeforeWindow DEF Served
  <2>4. c >= m
    BY <2>2, <2>3
  <2>5. c \in Int /\ n \in Int /\ AggLen \in Nat
    BY <1>0, <1>3, WindowFacts
  <2> HIDE DEF m, c, a
  <2> QED BY <1>5, <2>1, <2>4, <2>5
<1>8. ASSUME NEW i \in 1 .. Len(recirc) PROVE recirc[i].chunk # c
  <2>1. left[q] - 1 \in 0 .. left[q] - 1
    BY <1>0, <1>6
  <2>2. Recent(recirc, left[q] - 1)
    BY <2>1, BeforeWindow DEF Served
  <2>3. recirc[i].chunk + WindowLimit > left[q] - 1
    BY <2>2 DEF Recent
  <2>4. recirc[i].chunk \in Nat
    BY <1>8, Types DEF IndInv
  <2>5. /\ c \in Int /\ n \in Int /\ left[q] \in Int
        /\ AggLen \in Nat /\ WindowLimit \in Nat
    BY <1>0, <1>3, WindowFacts
  <2> HIDE DEF c, a
  <2>6. c + WindowLimit < left[q]
    BY <1>6, <1>7, <2>5
  <2> QED BY <2>3, <2>4, <2>5, <2>6
<1> QED BY <1>7, <1>8
-----------------------------------------------------------------------------
(* The initial states satisfy the invariant.                               *)
LEMMA InitInd == Init => IndInv
<1> SUFFICES ASSUME Init PROVE IndInv
  OBVIOUS
<1> USE DEF Init, LinkInit, SwitchInit, HostInit
<1>1. TypeOK
  <2>1. ZeroAgg \in Agg
    BY DEF ZeroAgg, Agg
  <2>2. InitVersion \in Versions
    BY WindowFacts DEF InitVersion, Versions
  <2>3. LinkTypeOK
    BY DEF LinkTypeOK
  <2>4. SwitchTypeOK
    BY <2>1, <2>2 DEF SwitchTypeOK
  <2>5. HostTypeOK
    BY WindowFacts DEF HostTypeOK, Data
  <2> QED BY <2>3, <2>4, <2>5 DEF TypeOK
<1>2. WindowInv
  BY WindowFacts DEF WindowInv
<1>3. UpInv /\ RecircInv /\ DownInv
  BY DEF UpInv, RecircInv, DownInv, Ordered
<1>4. SlotInv
  BY DEF SlotInv, EmptySlot, NoChunk
<1>5. AckInv /\ ResultCorrect
  BY DEF AckInv, ResultCorrect
<1> QED BY <1>1, <1>2, <1>3, <1>4, <1>5 DEF IndInv

-----------------------------------------------------------------------------
(* The steps of the hosts.                                                 *)

(* Sending a chunk of the window, for the first time or again.             *)
LEMMA TransmitInd ==
    ASSUME IndInv, NEW r \in Ranks, NEW p \in Chunk, left[r] <= p,
           Transmit(r, p), p < sent'[r],
           sent' \in [Ranks -> 0 .. NChunks],
           \A q \in Ranks : sent[q] <= sent'[q] /\ sent'[q] <= left[q] + WindowLimit,
           UNCHANGED <<left, acked, data, down, losses>>, UNCHANGED switchVars
    PROVE  IndInv'
<1> DEFINE e == [rank |-> r, chunk |-> p]
<1> USE DEF switchVars
<1>0. /\ up[r] \in Seq(Packet) /\ e \in Packet
      /\ up' = [up EXCEPT ![r] = Append(up[r], e)]
      /\ up \in [Ranks -> Seq(Packet)]
  BY DEF Transmit, IndInv, TypeOK, LinkTypeOK, Packet
<1>1. p \in Nat /\ sent[r] \in Nat /\ left[r] \in Nat /\ sent[r] <= p + WindowLimit
  BY Types, WindowFacts DEF IndInv, WindowInv
<1>2. TypeOK'
  BY <1>0, AppendFacts DEF IndInv, TypeOK, LinkTypeOK, SwitchTypeOK, HostTypeOK
<1>3. ASSUME NEW q \in Ranks, NEW c \in Chunk, SentBy(q, c) PROVE SentBy(q, c)'
  <2>1. c < sent'[q]
    BY <1>2, <1>3, Types DEF SentBy, IndInv, TypeOK, HostTypeOK
  <2>2. Recent(up'[q], c)
    <3>1. CASE q # r
      BY <1>0, <1>3, <3>1 DEF SentBy
    <3>2. CASE q = r
      <4>0. c \in Nat /\ c < sent[r] /\ WindowLimit \in Nat
        BY <1>3, <3>2, Types, WindowFacts DEF SentBy, IndInv
      <4>1. e.chunk + WindowLimit > c
        BY <1>1, <4>0
      <4>2. Recent(Append(up[r], e), c)
        BY <1>0, <1>3, <3>2, <4>1, AppendRecent DEF SentBy
      <4> QED BY <1>0, <3>2, <4>2
    <3> QED BY <3>1, <3>2
  <2> QED BY <2>1, <2>2 DEF SentBy
<1>4. \A c \in Chunk : Reached(c) => Reached(c)'
  BY <1>3 DEF Reached
<1>5. WindowInv'
  <2>1. SUFFICES ASSUME NEW q \in Ranks
        PROVE  /\ left[q] <= sent'[q] /\ acked[q] \subseteq 0 .. sent'[q] - 1
               /\ 0 .. left[q] - 1 \subseteq acked[q] /\ left[q] \notin acked[q]
    BY DEF WindowInv
  <2>2. sent[q] \in Nat /\ sent'[q] \in Nat /\ sent[q] <= sent'[q] /\ left[q] \in Nat
    BY Types, WindowFacts DEF IndInv
  <2> QED BY <2>2 DEF IndInv, WindowInv
<1>6. UpInv'
  <2>1. SUFFICES ASSUME NEW q \in Ranks
        PROVE  /\ \A i \in 1 .. Len(up'[q]) : up'[q][i].rank = q /\ up'[q][i].chunk < sent'[q]
               /\ Ordered(up'[q])
    BY DEF UpInv
  <2>2. CASE q # r
    <3>1. up'[q] = up[q]
      BY <1>0, <2>2
    <3>2. sent[q] \in Nat /\ sent'[q] \in Nat /\ sent[q] <= sent'[q]
      BY Types, WindowFacts DEF IndInv
    <3>3. \A i \in 1 .. Len(up[q]) : /\ up[q][i].chunk \in Nat /\ up[q][i].chunk < sent[q]
                                     /\ up[q][i].rank = q
      BY Types DEF IndInv, UpInv
    <3>4. Ordered(up[q])
      BY DEF IndInv, UpInv
    <3> QED BY <3>1, <3>2, <3>3, <3>4
  <2>3. CASE q = r
    <3>1. \A i \in 1 .. Len(up[r]) : /\ up[r][i].chunk \in Nat /\ up[r][i].chunk < sent[r]
                                     /\ up[r][i].rank = r
      BY Types DEF IndInv, UpInv
    <3>2. \A i \in 1 .. Len(up[r]) : e.chunk + WindowLimit > up[r][i].chunk
      <4>1. SUFFICES ASSUME NEW i \in 1 .. Len(up[r])
            PROVE  p + WindowLimit > up[r][i].chunk
        OBVIOUS
      <4>2. WindowLimit \in Nat
        BY WindowFacts
      <4>3. up[r][i].chunk \in Nat /\ up[r][i].chunk < sent[r]
        BY <3>1
      <4>4. \A a, b, c, d \in Nat : a < b /\ b <= c + d => c + d > a
        OBVIOUS
      <4> QED BY <1>1, <4>2, <4>3, <4>4
    <3>3. Ordered(Append(up[r], e))
      BY <1>0, <3>2, AppendRecent DEF IndInv, UpInv
    <3>4. sent[r] <= sent'[r] /\ sent'[r] \in Nat
      BY WindowFacts
    <3>5. up'[r] = Append(up[r], e)
      BY <1>0
    <3>6. ASSUME NEW i \in 1 .. Len(up'[r])
          PROVE  up'[r][i].rank = r /\ up'[r][i].chunk < sent'[r]
      <4>1. CASE i \in 1 .. Len(up[r])
        <5>1. up'[r][i] = up[r][i]
          BY <1>0, <3>5, <4>1, AppendFacts
        <5> QED BY <1>1, <3>1, <3>4, <4>1, <5>1
      <4>2. CASE i = Len(up[r]) + 1
        <5>1. up'[r][i] = e
          BY <1>0, <3>5, <4>2, AppendFacts
        <5> QED BY <5>1
      <4> QED BY <1>0, <3>5, <3>6, <4>1, <4>2, AppendFacts
    <3> QED BY <2>3, <3>3, <3>5, <3>6
  <2> QED BY <2>2, <2>3
<1>7. SlotInv'
  BY <1>3, Types DEF IndInv, SlotInv, EmptySlot, OwnedSlot
<1>8. RecircInv'
  BY <1>4, Types DEF IndInv, RecircInv
<1>9. DownInv'
  BY <1>4, Types DEF IndInv, DownInv, Served
<1>10. AckInv'
  BY <1>4, Types DEF IndInv, AckInv, Served
<1>11. ResultCorrect'
  BY DEF IndInv, ResultCorrect
<1> QED BY <1>2, <1>5, <1>6, <1>7, <1>8, <1>9, <1>10, <1>11 DEF IndInv

(* shift_send() keeps the invariant.                                       *)
LEMMA ShiftSendInd ==
    ASSUME IndInv, NEW r \in Ranks, ShiftSend(r), UNCHANGED switchVars
    PROVE  IndInv'
<1>1. sent[r] \in Chunk /\ left[r] <= sent[r] /\ sent[r] < NChunks
  BY Types, WindowFacts DEF IndInv, WindowInv, ShiftSend, Chunk
<1>2. sent' = [sent EXCEPT ![r] = sent[r] + 1] /\ sent \in [Ranks -> 0 .. NChunks]
  BY DEF ShiftSend, IndInv, TypeOK, HostTypeOK
<1>3. sent[r] < sent'[r] /\ sent' \in [Ranks -> 0 .. NChunks]
  BY <1>1, <1>2, WindowFacts
<1>4. \A q \in Ranks : sent[q] <= sent'[q] /\ sent'[q] <= left[q] + WindowLimit
  BY <1>2, Types, WindowFacts DEF IndInv, WindowInv, ShiftSend
<1> QED BY <1>1, <1>3, <1>4, TransmitInd DEF ShiftSend

(* full_retrans() and collect_retrans() keep the invariant.                *)
LEMMA RetransmitInd ==
    ASSUME IndInv, NEW r \in Ranks, NEW p \in Chunk, Retransmit(r, p),
           UNCHANGED switchVars
    PROVE  IndInv'
<1>1. left[r] <= p /\ p < sent'[r]
  BY Types DEF Retransmit, IndInv
<1>2. sent' \in [Ranks -> 0 .. NChunks]
  BY DEF Retransmit, IndInv, TypeOK, HostTypeOK
<1>3. \A q \in Ranks : sent[q] <= sent'[q] /\ sent'[q] <= left[q] + WindowLimit
  BY Types DEF IndInv, WindowInv, Retransmit
<1> QED BY <1>1, <1>2, <1>3, TransmitInd DEF Retransmit

(* Taking the head of an uplink.                                           *)
LEMMA UpTail ==
    ASSUME TypeOK, UpInv, NEW r \in Ranks, up[r] # <<>>,
           up' = [up EXCEPT ![r] = Tail(@)], UNCHANGED sent
    PROVE  /\ up' \in [Ranks -> Seq(Packet)]
           /\ UpInv'
           /\ \A q \in Ranks, c \in Chunk : SentBy(q, c) => SentBy(q, c)'
<1>0. up \in [Ranks -> Seq(Packet)] /\ up[r] \in Seq(Packet) /\ up'[r] = Tail(up[r])
      /\ \A q \in Ranks : q # r => up'[q] = up[q]
  BY DEF TypeOK, LinkTypeOK
<1>1. up' \in [Ranks -> Seq(Packet)]
  BY <1>0, TailFacts
<1>2. \A q \in Ranks, c \in Chunk : SentBy(q, c) => SentBy(q, c)'
  <2>1. SUFFICES ASSUME NEW q \in Ranks, NEW c \in Chunk, SentBy(q, c)
        PROVE  Recent(up'[q], c)
    BY DEF SentBy
  <2>2. CASE q = r
    BY <1>0, <2>1, <2>2, TailRecent DEF SentBy
  <2>3. CASE q # r
    BY <1>0, <2>1, <2>3 DEF SentBy
  <2> QED BY <2>2, <2>3
<1>3. UpInv'
  <2>1. SUFFICES ASSUME NEW q \in Ranks
        PROVE  /\ \A i \in 1 .. Len(up'[q]) : up'[q][i].rank = q /\ up'[q][i].chunk < sent[q]
               /\ Ordered(up'[q])
    BY DEF UpInv
  <2>2. CASE q = r
    <3>1. Ordered(Tail(up[r]))
      BY <1>0, TailRecent DEF UpInv
    <3>2. \A i \in 1 .. Len(Tail(up[r])) : Tail(up[r])[i] = up[r][i + 1] /\ i + 1 \in 1 .. Len(up[r])
      BY <1>0, TailFacts
    <3>3. \A i \in 1 .. Len(Tail(up[r])) :
             Tail(up[r])[i].rank = r /\ Tail(up[r])[i].chunk < sent[r]
      BY <3>2 DEF UpInv
    <3> QED BY <1>0, <2>2, <3>1, <3>3
  <2>3. CASE q # r
    BY <1>0, <2>3 DEF UpInv
  <2> QED BY <2>2, <2>3
<1> QED BY <1>1, <1>2, <1>3

(* Taking the head of a downlink.                                          *)
LEMMA DownTail ==
    ASSUME TypeOK, DownInv, NEW r \in Ranks, down[r] # <<>>,
           down' = [down EXCEPT ![r] = Tail(@)]
    PROVE  /\ down' \in [Ranks -> Seq(Frame)]
           /\ \A q \in Ranks : /\ Ordered(down'[q])
                               /\ \A c \in Chunk : Recent(down[q], c) => Recent(down'[q], c)
                               /\ \A i \in 1 .. Len(down'[q]) :
                                    \E j \in 1 .. Len(down[q]) : down'[q][i] = down[q][j]
           /\ Head(down[r]) = down[r][1] /\ 1 \in 1 .. Len(down[r])
           /\ Recent(down'[r], Head(down[r]).chunk)
<1>0. down \in [Ranks -> Seq(Frame)] /\ down[r] \in Seq(Frame) /\ down'[r] = Tail(down[r])
      /\ \A q \in Ranks : q # r => down'[q] = down[q]
  BY DEF TypeOK, LinkTypeOK
<1>1. down' \in [Ranks -> Seq(Frame)]
  BY <1>0, TailFacts
<1>2. ASSUME NEW q \in Ranks
      PROVE  /\ Ordered(down'[q])
             /\ \A c \in Chunk : Recent(down[q], c) => Recent(down'[q], c)
             /\ \A i \in 1 .. Len(down'[q]) :
                   \E j \in 1 .. Len(down[q]) : down'[q][i] = down[q][j]
  <2>1. CASE q = r
    <3>1. Ordered(down'[r]) /\ \A c \in Chunk : Recent(down[r], c) => Recent(down'[r], c)
      BY <1>0, TailRecent DEF DownInv
    <3>2. \A i \in 1 .. Len(down'[r]) : down'[r][i] = down[r][i + 1] /\ i + 1 \in 1 .. Len(down[r])
      BY <1>0, TailFacts
    <3> QED BY <2>1, <3>1, <3>2
  <2>2. CASE q # r
    BY <1>0, <2>2 DEF DownInv
  <2> QED BY <2>1, <2>2
<1>3. Recent(down'[r], Head(down[r]).chunk)
  BY <1>0, TailRecent DEF DownInv
<1>4. Head(down[r]) = down[r][1] /\ 1 \in 1 .. Len(down[r])
  BY <1>0, TailFacts
<1> QED BY <1>1, <1>2, <1>3, <1>4

(* get_position() finds the chunk of a frame when it is in the window, and *)
(* rejects every other frame.                                              *)
LEMMA PositionExact ==
    ASSUME IndInv, NEW r \in Ranks, NEW c \in Chunk,
           c < sent[r], left[r] <= c + WindowLimit
    PROVE  GetPosition(r, Psn(c)) =
             IF c \in left[r] .. sent[r] - 1 THEN c ELSE INVALID_POSITION
<1> DEFINE l == left[r]
           t == sent[r] - 1
<1>0. /\ c \in Nat /\ l \in Nat /\ sent[r] \in Nat /\ l <= sent[r]
      /\ sent[r] <= l + WindowLimit /\ WindowLimit \in Nat /\ WindowLimit >= 1
      /\ l <= c + WindowLimit
      /\ 2 * WindowLimit <= PsnMod /\ PsnMod \in Nat
  BY Types, WindowFacts DEF IndInv, WindowInv
<1>1. CASE l = sent[r]
  <2>1. c \notin l .. t
    BY <1>0, <1>1
  <2> QED BY <1>0, <1>1, <2>1 DEF GetPosition
<1>2. CASE l < sent[r]
  <2>1. PsnDiff(Psn(t), Psn(l)) = t - l /\ t - l < WindowLimit
    <3>1. t \in Nat /\ l <= t /\ t < l + PsnMod /\ t - l < WindowLimit
      BY <1>0, <1>2
    <3> HIDE DEF t, l
    <3> QED BY <1>0, <3>1, PsnDistance
  <2>2. CASE l <= c
    <3>1. PsnDiff(Psn(c), Psn(l)) = c - l
      <4>1. c < l + PsnMod
        BY <1>0, <2>2
      <4> HIDE DEF l
      <4> QED BY <1>0, <2>2, <4>1, PsnDistance
    <3>2. c \in l .. t /\ c - l <= t - l
      BY <1>0, <2>2
    <3>3. GetPosition(r, Psn(c)) = l + (c - l)
      BY <1>2, <2>1, <3>1, <3>2 DEF GetPosition
    <3> QED BY <1>0, <3>2, <3>3
  <2>3. CASE c < l
    <3>1. PsnDiff(Psn(c), Psn(l)) = PsnMod - (l - c)
      <4>1. l < c + PsnMod
        BY <1>0
      <4> HIDE DEF l
      <4> QED BY <1>0, <2>3, <4>1, PsnDistance
    <3>2. c \notin l .. t
      BY <1>0, <2>3
    <3>3. ~(PsnDiff(Psn(c), Psn(l)) <= PsnDiff(Psn(t), Psn(l)))
      <4>1. t \in Int
        BY <1>0
      <4> HIDE DEF t, l
      <4>2. PsnMod - (l - c) >= WindowLimit
        BY <1>0
      <4> QED BY <1>0, <2>1, <3>1, <4>1, <4>2
    <3> QED BY <3>2, <3>3 DEF GetPosition
  <2> QED BY <1>0, <2>2, <2>3
<1> QED BY <1>0, <1>1, <1>2

(* The switch keeps the payload of every frame its receiver needs: the     *)
(* daemon's need_rx() and egress.p4 agree.                                 *)
LEMMA PayloadKept ==
    \A op, r : NeedRx(op, r) => KeepPayload(op, r) = TRUE
BY DEF NeedRx, KeepPayload

(* What is known of the frame a host takes from its downlink.              *)
LEMMA FrameFacts ==
    ASSUME IndInv, NEW r \in Ranks, down[r] # <<>>
    PROVE  LET f == Head(down[r])
               c == f.chunk
           IN  /\ f \in Frame /\ c \in Chunk
               /\ Served(c)
               /\ c < sent[r]
               /\ left[r] <= c + WindowLimit
               /\ f.agg0 = SumOver(c, Ranks) /\ f.agg1 = SumOver(c, Ranks)
               /\ f.payload = KeepPayload(OpOf(c), r)
<1> DEFINE f == Head(down[r])
           c == f.chunk
<1>1. down[r] \in Seq(Frame) /\ f = down[r][1] /\ 1 \in 1 .. Len(down[r]) /\ f \in Frame
  BY Types, TailFacts DEF IndInv
<1>2. c \in Chunk /\ c \in Nat
  BY <1>1, Types DEF IndInv
<1>3. /\ Served(c) /\ f.agg0 = SumOver(c, Ranks) /\ f.agg1 = SumOver(c, Ranks)
      /\ f.payload = KeepPayload(OpOf(c), r)
  BY <1>1 DEF IndInv, DownInv
<1>4. c < sent[r]
  BY <1>3 DEF Served, Reached, SentBy
<1>5. left[r] <= c + WindowLimit
  <2>1. left[r] \in Nat
    BY Types DEF IndInv
  <2>2. CASE left[r] = 0
    BY <1>2, <2>2, WindowFacts
  <2>3. CASE left[r] # 0
    <3>1. left[r] - 1 \in 0 .. left[r] - 1
      BY <2>1, <2>3
    <3>2. Recent(down[r], left[r] - 1)
      BY <3>1, BeforeWindow
    <3>3. c + WindowLimit > left[r] - 1
      BY <1>1, <3>2 DEF Recent
    <3> QED BY <1>2, <2>1, <3>3, WindowFacts
  <2> QED BY <2>2, <2>3
<1> QED BY <1>1, <1>2, <1>3, <1>4, <1>5

(* Frames leave a downlink and the hosts' windows stay as they are.        *)
LEMMA DownTailInd ==
    ASSUME IndInv, NEW r \in Ranks, down[r] # <<>>,
           down' = [down EXCEPT ![r] = Tail(@)], losses' \in Nat,
           UNCHANGED up, UNCHANGED switchVars, UNCHANGED hostVars
    PROVE  IndInv'
<1> USE DEF switchVars, hostVars
<1>1. TypeOK'
  BY DownTail DEF IndInv, TypeOK, LinkTypeOK, SwitchTypeOK, HostTypeOK
<1>2. WindowInv' /\ UpInv'
  BY DEF IndInv, WindowInv, UpInv
<1>3. SlotInv' /\ RecircInv'
  BY DEF IndInv, SlotInv, EmptySlot, OwnedSlot, SentBy, RecircInv, Reached
<1>4. \A c : Served(c) => Served(c)'
  BY DEF Served, Reached, SentBy
<1>5. DownInv'
  <2>1. SUFFICES ASSUME NEW q \in Ranks, NEW i \in 1 .. Len(down'[q])
        PROVE  (/\ Served(down[q][i].chunk)
                /\ down[q][i].agg0 = SumOver(down[q][i].chunk, Ranks)
                /\ down[q][i].agg1 = SumOver(down[q][i].chunk, Ranks)
                /\ down[q][i].payload = KeepPayload(OpOf(down[q][i].chunk), q))'
    BY DownTail DEF DownInv, IndInv
  <2>2. PICK j \in 1 .. Len(down[q]) : down'[q][i] = down[q][j]
    BY DownTail DEF IndInv
  <2> QED BY <1>4, <2>2 DEF IndInv, DownInv
<1>6. AckInv'
  BY <1>4, DownTail, Types DEF IndInv, AckInv
<1>7. ResultCorrect'
  BY DEF IndInv, ResultCorrect
<1> QED BY <1>1, <1>2, <1>3, <1>5, <1>6, <1>7 DEF IndInv

(* rx_process_one() and shift_ack() keep the invariant.                    *)
LEMMA RxProcessInd ==
    ASSUME IndInv, NEW r \in Ranks, RxProcess(r), UNCHANGED switchVars
    PROVE  IndInv'
<1> DEFINE f == Head(down[r])
           c == f.chunk
           pos == GetPosition(r, Psn(c))
           new == acked[r] \cup {pos}
<1>0. /\ down[r] # <<>> /\ down' = [down EXCEPT ![r] = Tail(@)]
      /\ up' = up /\ losses' = losses /\ losses \in Nat
  BY DEF RxProcess, IndInv, TypeOK, LinkTypeOK
<1>1. pos = IF c \in left[r] .. sent[r] - 1 THEN c ELSE INVALID_POSITION
  BY <1>0, FrameFacts, PositionExact
<1>2. CASE UNCHANGED hostVars
  BY <1>0, <1>2, DownTailInd
<1>3. CASE /\ pos # INVALID_POSITION /\ pos \notin acked[r]
           /\ acked' = [acked EXCEPT ![r] = new]
           /\ data' = IF NeedRx(OpOf(pos), r)
                      THEN [data EXCEPT ![r][pos] =
                               [agg0 |-> f.agg0, agg1 |-> f.agg1, payload |-> f.payload]]
                      ELSE data
           /\ \E l \in left[r] .. sent[r] :
                 /\ left[r] .. l - 1 \subseteq new
                 /\ l \notin new
                 /\ left' = [left EXCEPT ![r] = l]
           /\ UNCHANGED sent
  <2> USE DEF switchVars
  <2>1. pos = c /\ c \in left[r] .. sent[r] - 1 /\ c \in Chunk /\ f \in Frame
    BY <1>0, <1>1, <1>3, FrameFacts
  <2>2. PICK l \in left[r] .. sent[r] :
           left[r] .. l - 1 \subseteq new /\ l \notin new /\ left' = [left EXCEPT ![r] = l]
    BY <1>3
  <2>3. /\ acked \in [Ranks -> SUBSET Chunk] /\ left \in [Ranks -> 0 .. NChunks]
        /\ data \in [Ranks -> [Chunk -> Data]] /\ sent \in [Ranks -> 0 .. NChunks]
        /\ \A q \in Ranks : left[q] \in Nat /\ sent[q] \in Nat
    BY Types DEF IndInv, TypeOK, HostTypeOK
  <2>4. acked'[r] = acked[r] \cup {c} /\ \A q \in Ranks : q # r => acked'[q] = acked[q]
    BY <1>3, <2>1, <2>3
  <2>5. TypeOK'
    <3>1. l \in 0 .. NChunks
      BY <2>2, <2>3, WindowFacts
    <3>2. left' \in [Ranks -> 0 .. NChunks]
      BY <2>2, <2>3, <3>1
    <3>3. acked' \in [Ranks -> SUBSET Chunk]
      BY <1>3, <2>1, <2>3
    <3>4. data' \in [Ranks -> [Chunk -> Data]]
      <4>1. [agg0 |-> f.agg0, agg1 |-> f.agg1, payload |-> f.payload] \in Data
        BY <2>1 DEF Data, Frame
      <4> HIDE DEF f, pos
      <4> QED BY <1>3, <2>1, <2>3, <4>1
    <3>5. HostTypeOK'
      BY <1>3, <2>3, <3>2, <3>3, <3>4 DEF HostTypeOK
    <3>6. LinkTypeOK' /\ SwitchTypeOK'
      BY <1>0, DownTail DEF IndInv, TypeOK, LinkTypeOK, SwitchTypeOK
    <3> QED BY <3>5, <3>6 DEF TypeOK
  <2>6. WindowInv'
    <3>1. SUFFICES ASSUME NEW q \in Ranks
          PROVE  /\ left'[q] <= sent[q] /\ sent[q] <= left'[q] + WindowLimit
                 /\ 0 .. left'[q] - 1 \subseteq acked'[q]
                 /\ acked'[q] \subseteq 0 .. sent[q] - 1
                 /\ left'[q] \notin acked'[q]
      BY <1>3 DEF WindowInv
    <3>2. CASE q # r
      BY <2>2, <2>3, <2>4, <3>2 DEF IndInv, WindowInv
    <3>3. CASE q = r
      <4>1. left'[r] = l /\ left[r] <= l /\ l <= sent[r] /\ l \in Nat
        BY <2>2, <2>3
      <4>2. /\ 0 .. left[r] - 1 \subseteq acked[r] /\ acked[r] \subseteq 0 .. sent[r] - 1
            /\ sent[r] <= left[r] + WindowLimit
        BY DEF IndInv, WindowInv
      <4>3. new = acked'[r]
        BY <2>1, <2>4
      <4>4. 0 .. l - 1 \subseteq acked'[r]
        <5>1. SUFFICES ASSUME NEW x \in 0 .. l - 1 PROVE x \in acked'[r]
          OBVIOUS
        <5>2. x \in 0 .. left[r] - 1 \/ x \in left[r] .. l - 1
          BY <2>3, <4>1
        <5> QED BY <2>2, <2>4, <4>2, <4>3, <5>2
      <4>5. acked'[r] \subseteq 0 .. sent[r] - 1
        BY <2>1, <2>3, <2>4, <4>2
      <4>6. l \notin acked'[r] /\ sent[r] <= l + WindowLimit
        BY <2>2, <2>3, <4>1, <4>2, <4>3, WindowFacts
      <4> QED BY <3>3, <4>1, <4>4, <4>5, <4>6
    <3> QED BY <3>2, <3>3
  <2>7. UpInv'
    BY <1>0, <1>3 DEF IndInv, UpInv
  <2>8. SlotInv' /\ RecircInv'
    BY <1>0, <1>3 DEF IndInv, SlotInv, EmptySlot, OwnedSlot, SentBy, RecircInv, Reached
  <2>9. \A x : Served(x) => Served(x)'
    BY <1>0, <1>3 DEF Served, Reached, SentBy
  <2>10. DownInv'
    <3>1. SUFFICES ASSUME NEW q \in Ranks, NEW i \in 1 .. Len(down'[q])
          PROVE  (/\ Served(down[q][i].chunk)
                  /\ down[q][i].agg0 = SumOver(down[q][i].chunk, Ranks)
                  /\ down[q][i].agg1 = SumOver(down[q][i].chunk, Ranks)
                  /\ down[q][i].payload = KeepPayload(OpOf(down[q][i].chunk), q))'
      BY <1>0, DownTail DEF DownInv, IndInv
    <3>2. PICK j \in 1 .. Len(down[q]) : down'[q][i] = down[q][j]
      BY <1>0, DownTail DEF IndInv
    <3> QED BY <2>9, <3>2 DEF IndInv, DownInv
  <2>11. AckInv'
    <3>1. SUFFICES ASSUME NEW q \in Ranks, NEW x \in acked'[q]
          PROVE  Served(x)' /\ Recent(down'[q], x)
      BY DEF AckInv
    <3>2. CASE x \in acked[q]
      BY <1>0, <2>9, <3>2, DownTail, Types DEF IndInv, AckInv
    <3>3. CASE x \notin acked[q]
      <4>1. q = r /\ x = c
        BY <2>4, <3>1, <3>3
      <4> QED BY <1>0, <2>9, <4>1, FrameFacts, DownTail DEF IndInv
    <3> QED BY <3>2, <3>3
  <2>12. ResultCorrect'
    <3>1. SUFFICES ASSUME NEW q \in Ranks, NEW x \in acked'[q], NeedRx(OpOf(x), q)
          PROVE  data'[q][x] = [agg0 |-> SumOver(x, Ranks), agg1 |-> SumOver(x, Ranks),
                                payload |-> TRUE]
      BY DEF ResultCorrect
    <3>2. CASE x \in acked[q]
      <4>1. x \in Chunk
        BY <2>3, <3>2
      <4>2. ~(q = r /\ x = c)
        BY <1>3, <2>1, <3>2
      <4>3. data'[q][x] = data[q][x]
        <5> HIDE DEF f, pos, c
        <5> QED BY <1>3, <2>1, <2>3, <4>1, <4>2
      <4> QED BY <3>1, <3>2, <4>3 DEF IndInv, ResultCorrect
    <3>3. CASE x \notin acked[q]
      <4>1. q = r /\ x = c
        BY <2>4, <3>1, <3>3
      <4>2. data'[r][c] = [agg0 |-> f.agg0, agg1 |-> f.agg1, payload |-> f.payload]
        <5>1. NeedRx(OpOf(c), r)
          BY <3>1, <4>1
        <5> HIDE DEF f, pos, c
        <5> QED BY <1>3, <2>1, <2>3, <5>1
      <4>3. f.agg0 = SumOver(c, Ranks) /\ f.agg1 = SumOver(c, Ranks)
            /\ f.payload = KeepPayload(OpOf(c), r)
        BY <1>0, FrameFacts
      <4>4. f.payload = TRUE
        BY <3>1, <4>1, <4>3, PayloadKept
      <4> QED BY <4>1, <4>2, <4>3, <4>4
    <3> QED BY <3>2, <3>3
  <2> QED BY <2>5, <2>6, <2>7, <2>8, <2>10, <2>11, <2>12 DEF IndInv
<1> QED BY <1>2, <1>3 DEF RxProcess

-----------------------------------------------------------------------------
(* The steps of the links and of the recirculation port.                   *)

(* The loss of a packet on an uplink keeps the invariant.                  *)
LEMMA LoseUpInd ==
    ASSUME IndInv, NEW r \in Ranks, LoseUp(r), UNCHANGED <<switchVars, hostVars>>
    PROVE  IndInv'
<1> USE DEF switchVars, hostVars
<1>0. /\ up[r] # <<>> /\ up' = [up EXCEPT ![r] = Tail(@)] /\ down' = down
      /\ losses' \in Nat /\ UNCHANGED sent
  BY DEF LoseUp, IndInv, TypeOK, LinkTypeOK
<1>1. /\ up' \in [Ranks -> Seq(Packet)] /\ UpInv'
      /\ \A q \in Ranks, c \in Chunk : SentBy(q, c) => SentBy(q, c)'
  BY <1>0, UpTail DEF IndInv
<1>2. TypeOK'
  BY <1>0, <1>1 DEF IndInv, TypeOK, LinkTypeOK, SwitchTypeOK, HostTypeOK
<1>3. \A c \in Chunk : (Reached(c) => Reached(c)') /\ (Served(c) => Served(c)')
  BY <1>1 DEF Served, Reached
<1>4. WindowInv' /\ ResultCorrect'
  BY DEF IndInv, WindowInv, ResultCorrect
<1>5. SlotInv'
  BY <1>1, Types DEF IndInv, SlotInv, EmptySlot, OwnedSlot
<1>6. RecircInv'
  BY <1>3, Types DEF IndInv, RecircInv
<1>7. DownInv'
  BY <1>0, <1>3, Types DEF IndInv, DownInv
<1>8. AckInv'
  BY <1>0, <1>3, Types DEF IndInv, AckInv
<1> QED BY <1>1, <1>2, <1>4, <1>5, <1>6, <1>7, <1>8 DEF IndInv

(* The loss of a frame on a downlink keeps the invariant.                  *)
LEMMA LoseDownInd ==
    ASSUME IndInv, NEW r \in Ranks, LoseDown(r), UNCHANGED <<switchVars, hostVars>>
    PROVE  IndInv'
<1>1. /\ down[r] # <<>> /\ down' = [down EXCEPT ![r] = Tail(@)] /\ up' = up
      /\ losses' \in Nat /\ UNCHANGED switchVars /\ UNCHANGED hostVars
  BY DEF LoseDown, IndInv, TypeOK, LinkTypeOK
<1> QED BY <1>1, DownTailInd

(* Taking the head of the recirculation port.                              *)
LEMMA RecircTail ==
    ASSUME TypeOK, RecircInv, recirc # <<>>, recirc' = Tail(recirc)
    PROVE  /\ recirc' \in Seq(Recirculated) /\ Head(recirc) \in Recirculated
           /\ Ordered(recirc')
           /\ \A c \in Chunk : Recent(recirc, c) => Recent(recirc', c)
           /\ \A i \in 1 .. Len(recirc') : \E j \in 1 .. Len(recirc) : recirc'[i] = recirc[j]
           /\ Head(recirc) = recirc[1] /\ 1 \in 1 .. Len(recirc)
           /\ Recent(recirc', Head(recirc).chunk)
<1>0. recirc \in Seq(Recirculated)
  BY DEF TypeOK, SwitchTypeOK
<1>1. /\ Head(recirc) = recirc[1] /\ 1 \in 1 .. Len(recirc)
      /\ recirc' \in Seq(Recirculated) /\ Head(recirc) \in Recirculated
  BY <1>0, TailFacts
<1>2. /\ Ordered(recirc') /\ Recent(recirc', Head(recirc).chunk)
      /\ \A c \in Chunk : Recent(recirc, c) => Recent(recirc', c)
  BY <1>0, TailRecent DEF RecircInv
<1>3. \A i \in 1 .. Len(recirc') : recirc'[i] = recirc[i + 1] /\ i + 1 \in 1 .. Len(recirc)
  BY <1>0, TailFacts
<1> QED BY <1>1, <1>2, <1>3

(* What stays in the recirculation port keeps its part of the invariant.   *)
LEMMA RecircTailInd ==
    ASSUME IndInv, recirc # <<>>, recirc' = Tail(recirc),
           UNCHANGED <<up, reg_bitmap, aggregator_array, owner, hostVars>>
    PROVE  /\ WindowInv' /\ UpInv' /\ SlotInv' /\ RecircInv' /\ ResultCorrect'
           /\ \A c \in Chunk : Served(c) => Served(c)'
<1> USE DEF hostVars
<1>1. WindowInv' /\ UpInv' /\ ResultCorrect'
  BY DEF IndInv, WindowInv, UpInv, ResultCorrect
<1>2. SlotInv'
  BY DEF IndInv, SlotInv, EmptySlot, OwnedSlot, SentBy
<1>3. \A c : Reached(c) => Reached(c)'
  BY DEF Reached, SentBy
<1>4. \A c \in Chunk : Served(c) => Served(c)'
  BY <1>3, RecircTail DEF Served, IndInv
<1>5. RecircInv'
  <2>1. SUFFICES ASSUME NEW i \in 1 .. Len(recirc')
        PROVE  (/\ Reached(recirc[i].chunk)
                /\ owner[AggAddr(recirc[i].chunk)] = recirc[i].chunk
                /\ reg_bitmap[AggAddr(recirc[i].chunk)].bitmap = Ranks
                /\ recirc[i].agg0 = SumOver(recirc[i].chunk, Ranks))'
    BY RecircTail DEF IndInv, RecircInv
  <2>2. PICK j \in 1 .. Len(recirc) : recirc'[i] = recirc[j]
    BY RecircTail DEF IndInv
  <2> QED BY <1>3, <2>2 DEF IndInv, RecircInv
<1> QED BY <1>1, <1>2, <1>4, <1>5

(* The loss of a packet between its two passes keeps the invariant.        *)
LEMMA LoseRecircInd ==
    ASSUME IndInv, LoseRecirc, UNCHANGED hostVars
    PROVE  IndInv'
<1>0. /\ recirc # <<>> /\ recirc' = Tail(recirc) /\ losses' \in Nat /\ down' = down
      /\ UNCHANGED <<up, reg_bitmap, aggregator_array, owner, hostVars>>
  BY DEF LoseRecirc, IndInv, TypeOK, LinkTypeOK
<1>1. /\ WindowInv' /\ UpInv' /\ SlotInv' /\ RecircInv' /\ ResultCorrect'
      /\ \A c \in Chunk : Served(c) => Served(c)'
  BY <1>0, RecircTailInd
<1> USE DEF hostVars
<1>2. TypeOK'
  BY <1>0, RecircTail DEF IndInv, TypeOK, LinkTypeOK, SwitchTypeOK, HostTypeOK
<1>3. DownInv'
  BY <1>0, <1>1, Types DEF IndInv, DownInv
<1>4. AckInv'
  BY <1>0, <1>1, Types DEF IndInv, AckInv
<1> QED BY <1>1, <1>2, <1>3, <1>4 DEF IndInv

(* The second pass and the egress keep the invariant.                      *)
LEMMA IngressPass2Ind ==
    ASSUME IndInv, IngressPass2, UNCHANGED hostVars
    PROVE  IndInv'
<1> DEFINE pkt == Head(recirc)
           c == pkt.chunk
           s1 == aggregator_array[AggAddr(c)].agg1
           frame(q) == [chunk |-> c, agg0 |-> pkt.agg0, agg1 |-> s1,
                        payload |-> KeepPayload(OpOf(c), q)]
<1>0. /\ recirc # <<>> /\ recirc' = Tail(recirc) /\ losses' = losses
      /\ UNCHANGED <<up, reg_bitmap, aggregator_array, owner, hostVars>>
      /\ down' = [q \in Ranks |-> IF q \in Destinations(pkt)
                                  THEN Append(down[q], frame(q)) ELSE down[q]]
  BY DEF IngressPass2
<1>1. /\ WindowInv' /\ UpInv' /\ SlotInv' /\ RecircInv' /\ ResultCorrect'
      /\ \A x \in Chunk : Served(x) => Served(x)'
  BY <1>0, RecircTailInd
<1>2. /\ pkt \in Recirculated /\ pkt = recirc[1] /\ 1 \in 1 .. Len(recirc)
      /\ Recent(recirc', c) /\ recirc' \in Seq(Recirculated)
  BY <1>0, RecircTail DEF IndInv
<1>3. /\ c \in Chunk /\ c \in Nat /\ AggAddr(c) \in AggAddrs /\ pkt.agg0 \in Agg
      /\ Reached(c) /\ owner[AggAddr(c)] = c /\ reg_bitmap[AggAddr(c)].bitmap = Ranks
      /\ pkt.agg0 = SumOver(c, Ranks)
  BY <1>2, Types, AddrType DEF IndInv, RecircInv, Recirculated
<1>4. s1 = SumOver(c, Ranks) /\ s1 \in Agg
  <2>1. OwnedSlot(AggAddr(c))
    BY <1>3 DEF IndInv, SlotInv, NoChunk
  <2> QED BY <1>3, <2>1 DEF OwnedSlot
<1>5. \A q \in Ranks : frame(q) \in Frame
  BY <1>3, <1>4 DEF Frame, KeepPayload
<1>6. ASSUME NEW k \in Chunk, k = c PROVE Served(k)'
  <2>1. Reached(k)'
    BY <1>0, <1>3, <1>6 DEF Reached, SentBy, hostVars
  <2> QED BY <1>0, <1>2, <1>3, <1>6, <2>1 DEF Served
<1>7. \A q \in Ranks : down[q] \in Seq(Frame)
  BY Types DEF IndInv
<1>8. TypeOK'
  <2>1. down' \in [Ranks -> Seq(Frame)]
    <3> HIDE DEF frame
    <3> QED BY <1>0, <1>5, <1>7, AppendFacts
  <2> QED BY <1>0, <1>2, <2>1 DEF IndInv, TypeOK, LinkTypeOK, SwitchTypeOK, HostTypeOK, hostVars
<1>9. ASSUME NEW q \in Ranks, NEW x \in Chunk, Served(x), Recent(down[q], x)
      PROVE  Recent(down'[q], x)
  <2>1. frame(q).chunk + WindowLimit > x
    <3>1. recirc[1].chunk + WindowLimit > x
      BY <1>2, <1>9 DEF Served, Recent
    <3> QED BY <1>2, <3>1
  <2>2. Recent(Append(down[q], frame(q)), x)
    <3> HIDE DEF frame
    <3> QED BY <1>5, <1>7, <1>9, <2>1, AppendRecent
  <2> QED BY <1>0, <1>9, <2>2
<1>10. AckInv'
  BY <1>0, <1>1, <1>9, Types DEF IndInv, AckInv, hostVars
<1>11. DownInv'
  <2>1. SUFFICES ASSUME NEW q \in Ranks
        PROVE  /\ \A i \in 1 .. Len(down'[q]) :
                    (/\ Served(down[q][i].chunk)
                     /\ down[q][i].agg0 = SumOver(down[q][i].chunk, Ranks)
                     /\ down[q][i].agg1 = SumOver(down[q][i].chunk, Ranks)
                     /\ down[q][i].payload = KeepPayload(OpOf(down[q][i].chunk), q))'
               /\ Ordered(down'[q])
    BY DEF DownInv
  <2>2. \A i \in 1 .. Len(down[q]) :
             /\ down[q][i].chunk \in Chunk
             /\ Served(down[q][i].chunk)
             /\ down[q][i].agg0 = SumOver(down[q][i].chunk, Ranks)
             /\ down[q][i].agg1 = SumOver(down[q][i].chunk, Ranks)
             /\ down[q][i].payload = KeepPayload(OpOf(down[q][i].chunk), q)
    BY Types DEF IndInv, DownInv
  <2>3. Ordered(down[q])
    BY DEF IndInv, DownInv
  <2>4. CASE down'[q] = down[q]
    BY <1>1, <2>2, <2>3, <2>4
  <2>5. CASE down'[q] = Append(down[q], frame(q))
    <3>1. \A i \in 1 .. Len(down[q]) : frame(q).chunk + WindowLimit > down[q][i].chunk
      <4>1. \A i \in 1 .. Len(down[q]) : recirc[1].chunk + WindowLimit > down[q][i].chunk
        BY <1>2, <2>2 DEF Served, Recent
      <4> QED BY <1>2, <4>1
    <3>2. Ordered(down'[q])
      <4> HIDE DEF frame
      <4> QED BY <1>5, <1>7, <2>3, <2>5, <3>1, AppendRecent
    <3>3. ASSUME NEW i \in 1 .. Len(down'[q])
          PROVE  (/\ Served(down[q][i].chunk)
                  /\ down[q][i].agg0 = SumOver(down[q][i].chunk, Ranks)
                  /\ down[q][i].agg1 = SumOver(down[q][i].chunk, Ranks)
                  /\ down[q][i].payload = KeepPayload(OpOf(down[q][i].chunk), q))'
      <4>1. CASE i \in 1 .. Len(down[q])
        <5>1. down'[q][i] = down[q][i]
          <6> HIDE DEF frame
          <6> QED BY <1>5, <1>7, <2>5, <4>1, AppendFacts
        <5> QED BY <1>1, <2>2, <4>1, <5>1
      <4>2. CASE i = Len(down[q]) + 1
        <5>1. down'[q][i] = frame(q)
          <6> HIDE DEF frame
          <6> QED BY <1>5, <1>7, <2>5, <4>2, AppendFacts
        <5> QED BY <1>3, <1>4, <1>6, <5>1
      <4>3. i \in 1 .. Len(down[q]) \/ i = Len(down[q]) + 1
        <5> HIDE DEF frame
        <5> QED BY <1>5, <1>7, <2>5, <3>3, AppendFacts
      <4> QED BY <4>1, <4>2, <4>3
    <3> QED BY <3>2, <3>3
  <2> QED BY <1>0, <2>4, <2>5
<1> QED BY <1>1, <1>8, <1>10, <1>11 DEF IndInv

-----------------------------------------------------------------------------
(* The first pass.                                                         *)

(* The payload of one rank is the sum over that rank.                      *)
LEMMA OwnIsSum == \A r, n : OwnPayload(r, n) = SumOver(n, {r})
BY DEF OwnPayload, SumOver

(* reg_aggregate adds the chunk of a new rank to the sum.                  *)
LEMMA AggregateIsSum ==
    ASSUME NEW r \in Ranks, NEW n \in Chunk, NEW B, r \notin B
    PROVE  Aggregate(SumOver(n, B), [rank |-> r, chunk |-> n]) = SumOver(n, B \cup {r})
<1>1. <<n>> \o <<>> = <<n>> /\ <<>> \o <<n>> = <<n>> /\ <<>> \o <<>> = <<>>
  <2>1. <<n>> \in Seq(Chunk) /\ <<>> \in Seq(Chunk)
    OBVIOUS
  <2> QED BY <2>1
<1> QED BY <1>1 DEF Aggregate, SumOver, OwnPayload

(* A sum is of the aggregator's type.                                      *)
LEMMA SumType == \A n \in Chunk : \A B : SumOver(n, B) \in Agg
<1>1. SUFFICES ASSUME NEW n \in Chunk, NEW B PROVE SumOver(n, B) \in Agg
  OBVIOUS
<1>2. <<n>> \in Seq(Chunk) /\ <<>> \in Seq(Chunk)
  OBVIOUS
<1> QED BY <1>2 DEF SumOver, Agg

(* What a packet does to the slot it reaches: whether the slot was empty,  *)
(* its own or of the cycle before, it afterwards holds the sum of the      *)
(* packet's chunk over the ranks of the new bitmap.                        *)
LEMMA SlotStep ==
    ASSUME Aligned, IndInv, NEW r \in Ranks, up[r] # <<>>,
           NEW n \in Chunk, Head(up[r]) = [rank |-> r, chunk |-> n],
           NEW a, a = AggAddr(n),
           NEW old, old = BitmapOld(reg_bitmap[a], [rank |-> r, chunk |-> n])
    PROVE  /\ a \in AggAddrs /\ old \subseteq Ranks
           /\ \A q \in old : SentBy(q, n)
           /\ AggAction(aggregator_array[a].agg0, old, [rank |-> r, chunk |-> n])
                = SumOver(n, old \cup {r})
           /\ AggAction(aggregator_array[a].agg1, old, [rank |-> r, chunk |-> n])
                = SumOver(n, old \cup {r})
           /\ owner[a] <= n
           /\ \A i \in 1 .. Len(recirc) :
                recirc[i].chunk = owner[a] => n = owner[a] /\ old = Ranks
<1> DEFINE pkt == [rank |-> r, chunk |-> n]
           c == owner[a]
<1>0. /\ n \in Nat /\ a \in AggAddrs /\ c \in Int /\ c \in Chunk \cup {NoChunk}
      /\ reg_bitmap[a].bitmap \subseteq Ranks
      /\ \A i \in 1 .. Len(recirc) : recirc[i].chunk \in Nat
  BY AddrType, Types DEF IndInv
<1>1. \/ c = NoChunk
      \/ c = n
      \/ n = c + AggLen /\ \A i \in 1 .. Len(recirc) : recirc[i].chunk # c
  BY Arrival
<1>2. ASSUME old = {}
      PROVE  /\ AggAction(aggregator_array[a].agg0, old, pkt) = SumOver(n, old \cup {r})
             /\ AggAction(aggregator_array[a].agg1, old, pkt) = SumOver(n, old \cup {r})
  BY <1>2, OwnIsSum DEF AggAction, FirstPacket
<1>3. CASE c = NoChunk
  <2>1. EmptySlot(a)
    BY <1>0, <1>3 DEF IndInv, SlotInv
  <2>2. old = {}
    BY <1>0, <2>1, AddrType DEF EmptySlot, BitmapOld
  <2>3. c <= n /\ \A i \in 1 .. Len(recirc) : recirc[i].chunk # c
    BY <1>0, <1>3 DEF NoChunk
  <2> QED BY <1>0, <1>2, <2>2, <2>3
<1>4. CASE c = n
  <2>1. OwnedSlot(a)
    BY <1>0, <1>4 DEF IndInv, SlotInv, NoChunk
  <2>2. old = reg_bitmap[a].bitmap /\ old # {} /\ \A q \in old : SentBy(q, n)
    BY <1>4, <2>1 DEF OwnedSlot, BitmapOld
  <2>3. /\ aggregator_array[a].agg0 = SumOver(n, old)
        /\ aggregator_array[a].agg1 = SumOver(n, old)
    BY <1>4, <2>1, <2>2 DEF OwnedSlot
  <2>4. AggAction(SumOver(n, old), old, pkt) = SumOver(n, old \cup {r})
    <3>1. CASE r \in old
      <4>1. old \cup {r} = old
        BY <3>1
      <4> QED BY <2>2, <3>1, <4>1 DEF AggAction, FirstPacket, NewPacket
    <3>2. CASE r \notin old
      <4>1. Aggregate(SumOver(n, old), pkt) = SumOver(n, old \cup {r})
        BY <3>2, AggregateIsSum
      <4> QED BY <2>2, <3>2, <4>1 DEF AggAction, FirstPacket, NewPacket
    <3> QED BY <3>1, <3>2
  <2>5. \A i \in 1 .. Len(recirc) : recirc[i].chunk = c => n = c /\ old = Ranks
    BY <1>4, <2>2 DEF IndInv, RecircInv
  <2> QED BY <1>0, <1>4, <2>2, <2>3, <2>4, <2>5
<1>5. CASE n = c + AggLen /\ \A i \in 1 .. Len(recirc) : recirc[i].chunk # c
  <2>1. CASE c = NoChunk
    BY <1>3, <2>1
  <2>2. CASE c # NoChunk
    <3>1. c \in Nat
      BY <1>0, <2>2 DEF Chunk
    <3>2. Version(n) # Version(c)
      <4>1. Version(c + AggLen) # Version(c)
        <5> HIDE DEF c
        <5> QED BY <3>1, SlotCycle
      <4> QED BY <1>5, <4>1
    <3>3. OwnedSlot(a)
      BY <1>0, <2>2 DEF IndInv, SlotInv
    <3>4. old = {}
      BY <3>2, <3>3 DEF OwnedSlot, BitmapOld
    <3>5. c <= n
      BY <1>0, <1>5, <3>1, WindowFacts
    <3> QED BY <1>0, <1>2, <1>5, <3>4, <3>5
  <2> QED BY <2>1, <2>2
<1> QED BY <1>1, <1>3, <1>4, <1>5

(* The first pass keeps the invariant, and no slot goes back to an older   *)
(* chunk.                                                                  *)
LEMMA IngressPass1Ind ==
    ASSUME Aligned, IndInv, NEW r \in Ranks, IngressPass1(r), UNCHANGED hostVars
    PROVE  IndInv' /\ \A b \in AggAddrs : owner'[b] >= owner[b]
<1> USE DEF hostVars
<1>0. /\ up[r] # <<>> /\ up' = [up EXCEPT ![r] = Tail(@)]
      /\ down' = down /\ losses' = losses
      /\ up[r] \in Seq(Packet) /\ Head(up[r]) \in Packet
      /\ Head(up[r]) = up[r][1] /\ 1 \in 1 .. Len(up[r])
  BY Types, TailFacts DEF IngressPass1, IndInv
<1>1. PICK n \in Chunk : Head(up[r]) = [rank |-> r, chunk |-> n]
  <2>1. Head(up[r]).rank = r
    BY <1>0 DEF IndInv, UpInv
  <2> QED BY <1>0, <2>1 DEF Packet
<1> DEFINE pkt == [rank |-> r, chunk |-> n]
<1>2. PICK a : a = AggAddr(n)
  OBVIOUS
<1>3. PICK old : old = BitmapOld(reg_bitmap[a], pkt)
  OBVIOUS
<1>4. PICK S : S = SumOver(n, old \cup {r})
  OBVIOUS
<1>5. PICK B : B = old \cup {r}
  OBVIOUS
<1>6. /\ a \in AggAddrs /\ old \subseteq Ranks
      /\ \A q \in old : SentBy(q, n)
      /\ AggAction(aggregator_array[a].agg0, old, pkt) = S
      /\ AggAction(aggregator_array[a].agg1, old, pkt) = S
      /\ owner[a] <= n
      /\ \A i \in 1 .. Len(recirc) :
           recirc[i].chunk = owner[a] => n = owner[a] /\ old = Ranks
  BY <1>0, <1>1, <1>2, <1>3, <1>4, SlotStep
<1> DEFINE e == [rank |-> r, chunk |-> n, agg0 |-> S,
                 enable_multicast |-> NewPacket(old, pkt)]
<1>7. /\ reg_bitmap' = [reg_bitmap EXCEPT ![a] = [version |-> Version(n), bitmap |-> B]]
      /\ aggregator_array' = [aggregator_array EXCEPT ![a] = [agg0 |-> S, agg1 |-> S]]
      /\ owner' = [owner EXCEPT ![a] = n]
      /\ recirc' = IF Full(old, pkt) THEN Append(recirc, e) ELSE recirc
  <2>0. pkt.chunk = n /\ pkt.rank = r /\ Head(up[r]) = pkt
    BY <1>1
  <2>1. /\ reg_bitmap' = [reg_bitmap EXCEPT ![a] = RegBitmapUpdate(reg_bitmap[a], pkt)]
        /\ owner' = [owner EXCEPT ![a] = n]
    BY <1>2, <2>0 DEF IngressPass1
  <2>2. RegBitmapUpdate(reg_bitmap[a], pkt) = [version |-> Version(n), bitmap |-> B]
    BY <1>3, <1>5 DEF RegBitmapUpdate
  <2>3. aggregator_array' = [aggregator_array EXCEPT ![a] = [agg0 |-> S, agg1 |-> S]]
    <3> HIDE DEF pkt
    <3> QED BY <1>2, <1>3, <1>6, <2>0 DEF IngressPass1
  <2>4. recirc' = IF Full(old, pkt) THEN Append(recirc, e) ELSE recirc
    <3> HIDE DEF pkt
    <3> QED BY <1>2, <1>3, <1>6, <2>0 DEF IngressPass1
  <2> QED BY <2>1, <2>2, <2>3, <2>4
<1>8. /\ up' \in [Ranks -> Seq(Packet)] /\ UpInv'
      /\ \A q \in Ranks, c \in Chunk : SentBy(q, c) => SentBy(q, c)'
  BY <1>0, UpTail DEF IndInv
<1>9. /\ reg_bitmap \in [AggAddrs -> [version : Versions, bitmap : SUBSET Ranks]]
      /\ aggregator_array \in [AggAddrs -> [agg0 : Agg, agg1 : Agg]]
      /\ owner \in [AggAddrs -> Chunk \cup {NoChunk}]
      /\ recirc \in Seq(Recirculated)
      /\ n \in Nat /\ Version(n) \in Versions /\ S \in Agg
  BY <1>4, Types, AddrType, SumType DEF IndInv, TypeOK, SwitchTypeOK
<1>10. e \in Recirculated
  BY <1>9 DEF Recirculated, NewPacket
<1>11. TypeOK'
  <2>1. recirc' \in Seq(Recirculated)
    <3> HIDE DEF e
    <3> QED BY <1>7, <1>9, <1>10, AppendFacts
  <2>2. B \in SUBSET Ranks
    BY <1>5, <1>6
  <2>3. SwitchTypeOK'
    BY <1>6, <1>7, <1>9, <2>1, <2>2 DEF SwitchTypeOK
  <2> QED BY <1>0, <1>8, <2>3 DEF IndInv, TypeOK, LinkTypeOK, HostTypeOK
<1>12. SentBy(r, n)'
  <2>1. n < sent[r]
    BY <1>0, <1>1 DEF IndInv, UpInv
  <2>2. Recent(Tail(up[r]), Head(up[r]).chunk)
    BY <1>0, TailRecent DEF IndInv, UpInv
  <2>3. up'[r] = Tail(up[r])
    BY <1>0 DEF IndInv, TypeOK, LinkTypeOK
  <2> QED BY <1>1, <2>1, <2>2, <2>3 DEF SentBy
<1>13. \A q \in B : SentBy(q, n)'
  BY <1>5, <1>6, <1>8, <1>12
<1>14. \A b \in AggAddrs : owner'[b] >= owner[b]
  BY <1>6, <1>7, <1>9, Types DEF IndInv
<1>15. \A c \in Chunk : Reached(c) => Reached(c)'
  BY <1>8 DEF Reached
<1>16. ASSUME NEW c \in Chunk, Reached(c) PROVE e.chunk + WindowLimit > c
  <2>1. Recent(up[r], c)
    BY <1>16 DEF Reached, SentBy
  <2>2. up[r][1].chunk + WindowLimit > c
    BY <1>0, <2>1 DEF Recent
  <2> QED BY <1>0, <1>1, <2>2
<1>17. \A c \in Chunk : Reached(c) /\ Recent(recirc, c) => Recent(recirc', c)
  <2>1. SUFFICES ASSUME NEW c \in Chunk, Reached(c), Recent(recirc, c)
        PROVE  Recent(recirc', c)
    OBVIOUS
  <2>2. e.chunk + WindowLimit > c
    BY <1>16, <2>1
  <2> HIDE DEF e
  <2>3. Recent(Append(recirc, e), c)
    BY <1>9, <1>10, <2>1, <2>2, AppendRecent
  <2> QED BY <1>7, <2>1, <2>3
<1>18. \A c \in Chunk : Served(c) => Served(c)'
  <2>1. SUFFICES ASSUME NEW c \in Chunk, Served(c) PROVE owner'[AggAddr(c)] >= c
    BY <1>15, <1>17 DEF Served
  <2>2. AggAddr(c) \in AggAddrs /\ c \in Nat /\ owner[AggAddr(c)] \in Int
        /\ owner[AggAddr(c)] >= c
    BY <2>1, AddrType, Types DEF IndInv, Served
  <2>3. owner'[AggAddr(c)] \in Int
    BY <1>6, <1>7, <1>9, <2>2
  <2> QED BY <1>14, <2>2, <2>3
<1>19. WindowInv' /\ ResultCorrect'
  BY DEF IndInv, WindowInv, ResultCorrect
<1>20. SlotInv'
  <2>1. SUFFICES ASSUME NEW b \in AggAddrs
        PROVE  (IF owner[b] = NoChunk THEN EmptySlot(b) ELSE OwnedSlot(b))'
    BY DEF SlotInv
  <2>2. CASE b = a
    <3>1. /\ owner'[b] = n /\ reg_bitmap'[b] = [version |-> Version(n), bitmap |-> B]
          /\ aggregator_array'[b] = [agg0 |-> S, agg1 |-> S] /\ AggAddr(n) = b
      BY <1>2, <1>6, <1>7, <1>9, <2>2
    <3>2. B # {} /\ S = SumOver(n, B)
      BY <1>4, <1>5
    <3>3. OwnedSlot(b)'
      BY <1>13, <3>1, <3>2 DEF OwnedSlot
    <3> QED BY <1>9, <3>1, <3>3 DEF NoChunk
  <2>3. CASE b # a
    <3>1. /\ owner'[b] = owner[b] /\ reg_bitmap'[b] = reg_bitmap[b]
          /\ aggregator_array'[b] = aggregator_array[b]
      BY <1>6, <1>7, <1>9, <2>3
    <3>2. CASE owner[b] = NoChunk
      BY <3>1, <3>2 DEF IndInv, SlotInv, EmptySlot
    <3>3. CASE owner[b] # NoChunk
      <4>1. OwnedSlot(b) /\ owner[b] \in Chunk /\ reg_bitmap[b].bitmap \subseteq Ranks
        BY <3>3, Types DEF IndInv, SlotInv
      <4>2. OwnedSlot(b)'
        BY <1>8, <3>1, <4>1 DEF OwnedSlot
      <4> QED BY <3>1, <3>3, <4>2
    <3> QED BY <3>2, <3>3
  <2> QED BY <2>2, <2>3
<1>21. RecircInv'
  <2>1. \A i \in 1 .. Len(recirc) :
            /\ recirc[i].chunk \in Chunk /\ recirc[i].chunk \in Nat
            /\ AggAddr(recirc[i].chunk) \in AggAddrs
            /\ Reached(recirc[i].chunk)
            /\ owner[AggAddr(recirc[i].chunk)] = recirc[i].chunk
            /\ reg_bitmap[AggAddr(recirc[i].chunk)].bitmap = Ranks
            /\ recirc[i].agg0 = SumOver(recirc[i].chunk, Ranks)
    BY Types, AddrType DEF IndInv, RecircInv
  <2>2. ASSUME NEW i \in 1 .. Len(recirc), NEW x \in Recirculated, x = recirc[i]
        PROVE  /\ Reached(x.chunk)'
               /\ owner'[AggAddr(x.chunk)] = x.chunk
               /\ reg_bitmap'[AggAddr(x.chunk)].bitmap = Ranks
               /\ x.agg0 = SumOver(x.chunk, Ranks)
    <3>1. Reached(x.chunk)' /\ x.agg0 = SumOver(x.chunk, Ranks)
      BY <1>15, <2>1, <2>2
    <3>2. CASE AggAddr(x.chunk) = a
      <4>1. n = x.chunk /\ old = Ranks
        BY <1>6, <2>1, <2>2, <3>2
      <4>2. B = Ranks
        BY <1>5, <4>1
      <4>3. owner'[a] = n /\ reg_bitmap'[a].bitmap = B
        BY <1>6, <1>7, <1>9
      <4> QED BY <3>1, <3>2, <4>1, <4>2, <4>3
    <3>3. CASE AggAddr(x.chunk) # a
      BY <1>7, <1>9, <2>1, <2>2, <3>1, <3>3
    <3> QED BY <3>2, <3>3
  <2>3. ASSUME Full(old, pkt)
        PROVE  /\ Reached(n)' /\ owner'[AggAddr(n)] = n
               /\ reg_bitmap'[AggAddr(n)].bitmap = Ranks /\ S = SumOver(n, Ranks)
    <3>1. B = Ranks
      BY <1>5, <1>6, <2>3 DEF Full
    <3>2. Reached(n)'
      BY <1>13, <3>1 DEF Reached
    <3> QED BY <1>2, <1>4, <1>5, <1>6, <1>7, <1>9, <3>1, <3>2
  <2>4. Ordered(recirc')
    <3>1. \A i \in 1 .. Len(recirc) : e.chunk + WindowLimit > recirc[i].chunk
      BY <1>16, <2>1
    <3>2. Ordered(recirc)
      BY DEF IndInv, RecircInv
    <3> HIDE DEF e
    <3>3. Ordered(Append(recirc, e))
      BY <1>9, <1>10, <3>1, <3>2, AppendRecent
    <3> QED BY <1>7, <3>2, <3>3
  <2>5. ASSUME NEW i \in 1 .. Len(recirc')
        PROVE  (/\ Reached(recirc[i].chunk)
                /\ owner[AggAddr(recirc[i].chunk)] = recirc[i].chunk
                /\ reg_bitmap[AggAddr(recirc[i].chunk)].bitmap = Ranks
                /\ recirc[i].agg0 = SumOver(recirc[i].chunk, Ranks))'
    <3>1. CASE i \in 1 .. Len(recirc)
      <4>1. recirc'[i] = recirc[i] /\ recirc[i] \in Recirculated
        <5> HIDE DEF e
        <5> QED BY <1>7, <1>9, <1>10, <3>1, AppendFacts
      <4> QED BY <2>2, <3>1, <4>1
    <3>2. CASE i \notin 1 .. Len(recirc)
      <4>1. Full(old, pkt) /\ recirc'[i] = e
        <5> HIDE DEF e
        <5>1. Full(old, pkt)
          BY <1>7, <2>5, <3>2
        <5>2. i = Len(recirc) + 1
          BY <1>7, <1>9, <1>10, <2>5, <3>2, <5>1, AppendFacts
        <5> QED BY <1>7, <1>9, <1>10, <5>1, <5>2, AppendFacts
      <4>2. recirc'[i].chunk = n /\ recirc'[i].agg0 = S
        BY <4>1
      <4> QED BY <2>3, <4>1, <4>2
    <3> QED BY <3>1, <3>2
  <2> QED BY <2>4, <2>5 DEF RecircInv
<1>22. DownInv'
  BY <1>0, <1>18, Types DEF IndInv, DownInv
<1>23. AckInv'
  BY <1>0, <1>18, Types DEF IndInv, AckInv
<1> QED BY <1>8, <1>11, <1>14, <1>19, <1>20, <1>21, <1>22, <1>23 DEF IndInv

-----------------------------------------------------------------------------
(* The theorems.                                                           *)

(* Every step of the hosts, the switch and the links keeps the invariant.  *)
LEMMA NextInd ==
    ASSUME Aligned, IndInv, [Next]_vars
    PROVE  IndInv'
<1>1. ASSUME NEW r \in Ranks, HostStep(r) PROVE IndInv'
  BY <1>1, ShiftSendInd, RetransmitInd, RxProcessInd DEF HostStep
<1>2. CASE SwitchStep
  BY <1>2, IngressPass1Ind, IngressPass2Ind, LoseRecircInd DEF SwitchStep
<1>3. CASE LinkStep
  BY <1>3, LoseUpInd, LoseDownInd DEF LinkStep
<1>4. CASE UNCHANGED vars
  BY <1>4 DEF vars, IndInv, TypeOK, LinkTypeOK, SwitchTypeOK, HostTypeOK, WindowInv,
              UpInv, SlotInv, EmptySlot, OwnedSlot, SentBy, RecircInv, Reached,
              DownInv, Served, AckInv, ResultCorrect
<1> QED BY <1>1, <1>2, <1>3, <1>4 DEF Next, Terminating

(* The invariant holds in every reachable state.                           *)
THEOREM Invariance ==
    ASSUME Aligned
    PROVE  Spec => []IndInv
<1>1. Init => IndInv
  BY InitInd
<1>2. IndInv /\ [Next]_vars => IndInv'
  BY NextInd
<1> QED BY <1>1, <1>2, PTL DEF Spec

(* Type correctness: get_position() never yields a position outside the    *)
(* window, so no state is indexed outside its domain.                      *)
THEOREM TypeCorrect ==
    ASSUME Aligned
    PROVE  Spec => []TypeOK
<1>1. IndInv => TypeOK
  BY DEF IndInv
<1> QED BY <1>1, Invariance, PTL

(* Every acknowledged chunk a rank needs holds exactly one copy of the     *)
(* chunk of every contributing rank, in both halves.                       *)
THEOREM Correctness ==
    ASSUME Aligned
    PROVE  Spec => []ResultCorrect
<1>1. IndInv => ResultCorrect
  BY DEF IndInv
<1> QED BY <1>1, Invariance, PTL

(* No host is more than one cycle of the slots ahead of another.           *)
THEOREM HostsInLockstep ==
    ASSUME Aligned
    PROVE  Spec => []Lockstep
<1>1. ASSUME IndInv, NEW r \in Ranks, NEW q \in Ranks
      PROVE  sent[r] <= left[q] + AggLen
  <2>0. /\ left[r] \in Nat /\ sent[r] \in Nat /\ left[q] \in Nat /\ sent[q] \in Nat
        /\ sent[r] <= left[r] + WindowLimit /\ sent[q] <= left[q] + WindowLimit
    BY <1>1, Types DEF IndInv, WindowInv
  <2>1. CASE left[r] = 0
    BY <2>0, <2>1, WindowFacts
  <2>2. CASE left[r] # 0
    <3>1. left[r] - 1 \in 0 .. left[r] - 1
      BY <2>0, <2>2
    <3>2. left[r] - 1 < sent[q]
      BY <1>1, <3>1, BeforeWindow DEF Served, Reached, SentBy
    <3> QED BY <2>0, <3>2, WindowFacts
  <2> QED BY <2>1, <2>2
<1>2. IndInv => Lockstep
  BY <1>1 DEF Lockstep
<1> QED BY <1>2, Invariance, PTL

(* Between its two passes a packet still finds the complete aggregate of   *)
(* its chunk in its slot.                                                  *)
THEOREM SecondPassSafe ==
    ASSUME Aligned
    PROVE  Spec => []RecircStable
<1>1. ASSUME IndInv, NEW i \in 1 .. Len(recirc)
      PROVE  LET c == recirc[i].chunk
             IN  /\ owner[AggAddr(c)] = c
                 /\ reg_bitmap[AggAddr(c)].bitmap = Ranks
                 /\ aggregator_array[AggAddr(c)].agg1 = SumOver(c, Ranks)
  <2> DEFINE c == recirc[i].chunk
  <2>1. c \in Nat /\ AggAddr(c) \in AggAddrs
    BY <1>1, Types, AddrType DEF IndInv
  <2>2. owner[AggAddr(c)] = c /\ reg_bitmap[AggAddr(c)].bitmap = Ranks
    BY <1>1 DEF IndInv, RecircInv
  <2>3. OwnedSlot(AggAddr(c))
    BY <1>1, <2>1, <2>2 DEF IndInv, SlotInv, NoChunk
  <2> QED BY <2>2, <2>3 DEF OwnedSlot
<1>2. IndInv => RecircStable
  BY <1>1 DEF RecircStable
<1> QED BY <1>2, Invariance, PTL

(* A slot is never taken back by an older chunk.                           *)
THEOREM SlotsMoveForward ==
    ASSUME Aligned
    PROVE  Spec => SlotMonotone
<1>1. ASSUME IndInv, [Next]_vars
      PROVE  [\A a \in AggAddrs : owner'[a] >= owner[a]]_vars
  <2>1. ASSUME NEW r \in Ranks, IngressPass1(r), UNCHANGED hostVars
        PROVE  \A a \in AggAddrs : owner'[a] >= owner[a]
    BY <1>1, <2>1, IngressPass1Ind
  <2>2. ASSUME owner' = owner PROVE \A a \in AggAddrs : owner'[a] >= owner[a]
    BY <1>1, <2>2, Types DEF IndInv
  <2>3. \/ \E r \in Ranks : IngressPass1(r) /\ UNCHANGED hostVars
        \/ owner' = owner
    BY <1>1 DEF Next, HostStep, SwitchStep, LinkStep, Terminating, vars, switchVars,
                IngressPass2, LoseRecirc
  <2> QED BY <2>1, <2>2, <2>3
<1>2. IndInv /\ [Next]_vars => [\A a \in AggAddrs : owner'[a] >= owner[a]]_vars
  BY <1>1
<1> QED BY <1>2, Invariance, PTL DEF Spec, SlotMonotone

-----------------------------------------------------------------------------
(* The collective.                                                         *)

(* What the hosts hold is all the collective sees.                         *)
LEMMA HostsIdle ==
    ASSUME UNCHANGED hostVars
    PROVE  UNCHANGED C!vars
BY DEF hostVars, C!vars, Value

(* Before anything was sent nobody has contributed or received.            *)
LEMMA CollectiveInit == Init => C!Init
BY DEF Init, HostInit, C!Init, C!NoValue, Value, Chunk

(* A new chunk in the window of a rank is its contribution.                *)
LEMMA ShiftSendContributes ==
    ASSUME IndInv, NEW r \in Ranks, ShiftSend(r)
    PROVE  C!Contribute(r)
BY DEF ShiftSend, C!Contribute, Value

(* A retransmission is invisible to the collective.                        *)
LEMMA RetransmitInvisible ==
    ASSUME NEW r \in Ranks, NEW p \in Chunk, Retransmit(r, p)
    PROVE  UNCHANGED C!vars
BY HostsIdle DEF Retransmit, hostVars

(* A frame a host accepts is the answer to its own chunk: it finds the     *)
(* position of that chunk, every rank has sent it, and what is copied is   *)
(* the result.                                                             *)
LEMMA AcceptedFrame ==
    ASSUME IndInv, NEW r \in Ranks, RxProcess(r)
    PROVE  \/ UNCHANGED hostVars
           \/ \E c \in Chunk :
                /\ c \in left[r] .. sent[r] - 1 /\ c \notin acked[r]
                /\ \A q \in Ranks : c < sent[q]
                /\ sent' = sent
                /\ acked' = [acked EXCEPT ![r] = @ \cup {c}]
                /\ data' = IF NeedRx(OpOf(c), r)
                           THEN [data EXCEPT ![r][c] = CollectiveResult(c)]
                           ELSE data
                /\ left' \in [Ranks -> Nat]
                /\ \A q \in Ranks : q # r => left'[q] = left[q]
                /\ left'[r] \in left[r] .. sent[r]
                /\ left[r] .. left'[r] - 1 \subseteq acked'[r]
<1> DEFINE f == Head(down[r])
           c == f.chunk
           pos == GetPosition(r, Psn(c))
           new == acked[r] \cup {pos}
<1>1. down[r] # <<>>
  BY DEF RxProcess
<1>2. /\ c \in Chunk /\ Served(c)
      /\ c < sent[r] /\ left[r] <= c + WindowLimit
      /\ f.agg0 = SumOver(c, Ranks) /\ f.agg1 = SumOver(c, Ranks)
      /\ f.payload = KeepPayload(OpOf(c), r)
  BY <1>1, FrameFacts
<1>3. pos = IF c \in left[r] .. sent[r] - 1 THEN c ELSE INVALID_POSITION
  BY <1>2, PositionExact
<1>4. SUFFICES ASSUME ~UNCHANGED hostVars
               PROVE  /\ c \in left[r] .. sent[r] - 1 /\ c \notin acked[r]
                      /\ \A q \in Ranks : c < sent[q]
                      /\ sent' = sent
                      /\ acked' = [acked EXCEPT ![r] = @ \cup {c}]
                      /\ data' = IF NeedRx(OpOf(c), r)
                                 THEN [data EXCEPT ![r][c] = CollectiveResult(c)]
                                 ELSE data
                      /\ left' \in [Ranks -> Nat]
                      /\ \A q \in Ranks : q # r => left'[q] = left[q]
                      /\ left'[r] \in left[r] .. sent[r]
                      /\ left[r] .. left'[r] - 1 \subseteq acked'[r]
  BY <1>2
<1>5. /\ pos # INVALID_POSITION /\ pos \notin acked[r]
      /\ acked' = [acked EXCEPT ![r] = new]
      /\ data' = IF NeedRx(OpOf(pos), r)
                 THEN [data EXCEPT ![r][pos] = [agg0 |-> f.agg0, agg1 |-> f.agg1,
                                                payload |-> f.payload]]
                 ELSE data
      /\ \E l \in left[r] .. sent[r] :
            /\ left[r] .. l - 1 \subseteq new
            /\ left' = [left EXCEPT ![r] = l]
      /\ sent' = sent
  BY <1>4 DEF RxProcess
<1>6. c \in left[r] .. sent[r] - 1 /\ pos = c
  BY <1>3, <1>5
<1>7. \A q \in Ranks : c < sent[q]
  BY <1>2 DEF Served, Reached, SentBy
<1>8. NeedRx(OpOf(c), r) =>
        [agg0 |-> f.agg0, agg1 |-> f.agg1, payload |-> f.payload] = CollectiveResult(c)
  BY <1>2, PayloadKept DEF CollectiveResult
<1>9. data' = IF NeedRx(OpOf(c), r)
              THEN [data EXCEPT ![r][c] = CollectiveResult(c)] ELSE data
  BY <1>5, <1>6, <1>8
<1>10. /\ left \in [Ranks -> Nat] /\ acked \in [Ranks -> SUBSET Chunk]
       /\ sent[r] \in Nat
  BY WindowFacts DEF IndInv, TypeOK, HostTypeOK
<1>11. /\ left' \in [Ranks -> Nat]
       /\ \A q \in Ranks : q # r => left'[q] = left[q]
       /\ left'[r] \in left[r] .. sent[r]
       /\ left[r] .. left'[r] - 1 \subseteq acked'[r]
  BY <1>5, <1>10
<1> QED BY <1>5, <1>6, <1>7, <1>9, <1>11

(* Accepting a frame delivers the result of its chunk, once.               *)
LEMMA RxProcessDelivers ==
    ASSUME IndInv, NEW r \in Ranks, RxProcess(r)
    PROVE  (\E p \in 0 .. NChunks - 1 : C!Deliver(r, p)) \/ UNCHANGED C!vars
<1>1. CASE UNCHANGED hostVars
  BY <1>1, HostsIdle
<1>2. ASSUME NEW c \in Chunk,
             c \notin acked[r],
             \A q \in Ranks : c < sent[q],
             sent' = sent,
             acked' = [acked EXCEPT ![r] = @ \cup {c}],
             data' = IF NeedRx(OpOf(c), r)
                     THEN [data EXCEPT ![r][c] = CollectiveResult(c)]
                     ELSE data
      PROVE  C!Deliver(r, c)
  <2> DEFINE value == [s \in Ranks |-> [p \in Chunk |-> Value(s, p)]]
  <2>1. acked \in [Ranks -> SUBSET Chunk] /\ data \in [Ranks -> [Chunk -> Data]]
    BY DEF IndInv, TypeOK, HostTypeOK
  <2>2. ASSUME NEW s \in Ranks, NEW p \in Chunk, s # r \/ p # c
        PROVE  Value(s, p)' = Value(s, p)
    <3>1. (p \in acked'[s]) = (p \in acked[s]) /\ data'[s][p] = data[s][p]
      BY <1>2, <2>1, <2>2
    <3> QED BY <3>1 DEF Value
  <2>3. CASE NeedRx(OpOf(c), r)
    <3>1. c \in acked'[r] /\ data'[r][c] = CollectiveResult(c)
      BY <1>2, <2>1, <2>3
    <3>2. Value(r, c)' = CollectiveResult(c)
      BY <2>3, <3>1 DEF Value, CollectiveResult
    <3>3. value' = [value EXCEPT ![r][c] = CollectiveResult(c)]
      BY <2>2, <3>2
    <3> QED BY <1>2, <2>3, <3>3 DEF C!Deliver, CollectiveNeeds, Chunk
  <2>4. CASE ~NeedRx(OpOf(c), r)
    <3>1. Value(r, c)' = Value(r, c)
      BY <2>4 DEF Value
    <3>2. value' = value
      BY <2>2, <3>1
    <3> QED BY <1>2, <2>4, <3>2 DEF C!Deliver, CollectiveNeeds, Chunk
  <2> QED BY <2>3, <2>4
<1> QED BY <1>1, <1>2, AcceptedFrame DEF Chunk

(* Every step of the system is a step of the collective.                   *)
LEMMA CollectiveStep ==
    ASSUME IndInv, [Next]_vars
    PROVE  [C!Next]_C!vars
<1>1. ASSUME NEW r \in Ranks, HostStep(r) PROVE C!Next \/ UNCHANGED C!vars
  BY <1>1, ShiftSendContributes, RetransmitInvisible, RxProcessDelivers
     DEF HostStep, C!Next
<1>2. CASE SwitchStep \/ LinkStep \/ UNCHANGED vars
  <2>1. UNCHANGED hostVars
    BY <1>2 DEF SwitchStep, LinkStep, vars, hostVars
  <2> QED BY <2>1, HostsIdle
<1> QED BY <1>1, <1>2 DEF Next, Terminating

(* The hosts, the links and the switch together implement the collective   *)
(* that the callers of the daemons see: rx_process_one() answers a chunk   *)
(* once at each rank, not before every rank has sent it, and with the sum  *)
(* over the ranks, for any number of ranks, chunks, slots and losses.      *)
THEOREM CollectiveRefinement ==
    ASSUME Aligned
    PROVE  Spec => ImplementsCollective
<1>1. Init => C!Init
  BY CollectiveInit
<1>2. IndInv /\ [Next]_vars => [C!Next]_C!vars
  BY CollectiveStep
<1> QED BY <1>1, <1>2, Invariance, PTL DEF Spec, ImplementsCollective, C!Spec

-----------------------------------------------------------------------------
(* The windows of the hosts.                                               *)

(* The chunks of a queue of packets.                                       *)
LEMMA ChunksType ==
    ASSUME NEW s \in Seq(Packet)
    PROVE  /\ [n \in 1 .. Len(s) |-> s[n].chunk] \in Seq(Chunk)
           /\ Len([n \in 1 .. Len(s) |-> s[n].chunk]) = Len(s)
<1> DEFINE a == [n \in 1 .. Len(s) |-> s[n].chunk]
<1>0. Len(s) \in Nat /\ \A n \in 1 .. Len(s) : s[n] \in Packet
  BY ElementOfSeq
<1>1. \A n \in 1 .. Len(s) : s[n].chunk \in Chunk
  BY <1>0 DEF Packet
<1>2. a \in [1 .. Len(s) -> Chunk]
  BY <1>1
<1>3. a \in Seq(Chunk)
  BY <1>0, <1>2
<1> QED BY <1>0, <1>2, <1>3

(* ... when a packet is added.                                            *)
LEMMA ChunksAppend ==
    ASSUME NEW s \in Seq(Packet), NEW e \in Packet
    PROVE  [n \in 1 .. Len(Append(s, e)) |-> Append(s, e)[n].chunk]
             = Append([n \in 1 .. Len(s) |-> s[n].chunk], e.chunk)
<1> DEFINE t == Append(s, e)
           a == [n \in 1 .. Len(s) |-> s[n].chunk]
           b == [n \in 1 .. Len(t) |-> t[n].chunk]
<1>1. t \in Seq(Packet) /\ Len(t) = Len(s) + 1 /\ Len(s) \in Nat
      /\ t[Len(s) + 1] = e /\ \A n \in 1 .. Len(s) : t[n] = s[n]
  BY AppendFacts
<1>2. a \in Seq(Chunk) /\ Len(a) = Len(s) /\ e.chunk \in Chunk
  BY ChunksType DEF Packet
<1>3. b \in Seq(Chunk) /\ Len(b) = Len(t)
  BY <1>1, ChunksType
<1>4. /\ Append(a, e.chunk) \in Seq(Chunk) /\ Len(Append(a, e.chunk)) = Len(s) + 1
      /\ \A n \in 1 .. Len(s) : Append(a, e.chunk)[n] = a[n]
      /\ Append(a, e.chunk)[Len(s) + 1] = e.chunk
  BY <1>2
<1>5. \A n \in 1 .. Len(s) : a[n] = s[n].chunk
  OBVIOUS
<1>6. \A n \in 1 .. Len(t) : b[n] = t[n].chunk
  OBVIOUS
<1>7. ASSUME NEW n \in 1 .. Len(t) PROVE b[n] = Append(a, e.chunk)[n]
  <2>1. CASE n \in 1 .. Len(s)
    BY <1>1, <1>4, <1>5, <1>6, <2>1
  <2>2. CASE n = Len(s) + 1
    BY <1>1, <1>4, <1>6, <2>2
  <2> QED BY <1>1, <2>1, <2>2
<1> HIDE DEF a, b, t
<1>8. b = Append(a, e.chunk)
  BY <1>1, <1>3, <1>4, <1>7, SeqEqual
<1> QED BY <1>8 DEF a, b, t

(* Nothing is sent and nothing is queued at the start.                     *)
LEMMA WindowInit == Init => \A r \in Ranks : H(r)!Init
BY DEF Init, HostInit, LinkInit, H!Init

(* What a step does to a host it does not concern.                         *)
LEMMA WindowIdle ==
    ASSUME NEW r \in Ranks, sent'[r] = sent[r], left'[r] = left[r],
           acked'[r] = acked[r], up'[r] = up[r]
    PROVE  UNCHANGED H(r)!vars
BY DEF H!vars

(* The switch, or a loss, takes the oldest packet of an uplink.            *)
LEMMA DepartStep ==
    ASSUME IndInv, NEW r \in Ranks, up[r] # <<>>, up' = [up EXCEPT ![r] = Tail(@)],
           UNCHANGED hostVars
    PROVE  H(r)!Depart
BY Types, TailFacts DEF IndInv, H!Depart, hostVars, TypeOK, LinkTypeOK

(* shift_send() generates the next chunk.                                  *)
LEMMA GenerateStep ==
    ASSUME IndInv, NEW r \in Ranks, ShiftSend(r)
    PROVE  H(r)!Generate
<1>0. sent[r] \in Chunk
  BY WindowFacts DEF IndInv, TypeOK, HostTypeOK, ShiftSend, Chunk
<1>1. /\ up \in [Ranks -> Seq(Packet)] /\ sent \in [Ranks -> 0 .. NChunks]
      /\ up[r] \in Seq(Packet) /\ [rank |-> r, chunk |-> sent[r]] \in Packet
  BY <1>0 DEF IndInv, TypeOK, LinkTypeOK, HostTypeOK, Packet
<1>2. up'[r] = Append(up[r], [rank |-> r, chunk |-> sent[r]])
  BY <1>1 DEF ShiftSend, Transmit
<1>3. [n \in 1 .. Len(up'[r]) |-> up'[r][n].chunk]
        = Append([n \in 1 .. Len(up[r]) |-> up[r][n].chunk], sent[r])
  BY <1>1, <1>2, ChunksAppend
<1> QED BY <1>1, <1>3 DEF ShiftSend, H!Generate

(* full_retrans() and collect_retrans() queue a packet of the window that  *)
(* has no answer.                                                          *)
LEMMA RetransmitStep ==
    ASSUME IndInv, NEW r \in Ranks, NEW p \in Chunk, Retransmit(r, p)
    PROVE  H(r)!Retransmit
<1>1. /\ up \in [Ranks -> Seq(Packet)]
      /\ up[r] \in Seq(Packet) /\ [rank |-> r, chunk |-> p] \in Packet
  BY DEF IndInv, TypeOK, LinkTypeOK, Packet
<1>2. up'[r] = Append(up[r], [rank |-> r, chunk |-> p])
  BY <1>1 DEF Retransmit, Transmit
<1> DEFINE tx == [n \in 1 .. Len(up[r]) |-> up[r][n].chunk]
<1>3. tx' = Append(tx, p) /\ tx \in Seq(Chunk)
  BY <1>1, <1>2, ChunksAppend, ChunksType
<1>4. /\ Len(tx') >= Len(tx) /\ SubSeq(tx', 1, Len(tx)) = tx
      /\ \A n \in Len(tx) + 1 .. Len(tx') : tx'[n] = p
  <2> HIDE DEF tx
  <2> QED BY <1>3
<1> QED BY <1>4 DEF Retransmit, H!Retransmit, H!Again, H!Window

(* rx_process_one() and shift_ack() acknowledge a packet and move the      *)
(* window.                                                                 *)
LEMMA AcknowledgeStep ==
    ASSUME IndInv, NEW r \in Ranks, RxProcess(r)
    PROVE  H(r)!Acknowledge \/ UNCHANGED H(r)!vars
<1> DEFINE tx == [n \in 1 .. Len(up[r]) |-> up[r][n].chunk]
<1>1. UNCHANGED up
  BY DEF RxProcess
<1>2. CASE UNCHANGED hostVars
  BY <1>1, <1>2, WindowIdle DEF hostVars
<1>3. ASSUME NEW c \in Chunk,
             c \in left[r] .. sent[r] - 1, c \notin acked[r],
             sent' = sent,
             acked' = [acked EXCEPT ![r] = @ \cup {c}],
             left'[r] \in left[r] .. sent[r],
             left[r] .. left'[r] - 1 \subseteq acked'[r]
      PROVE  H(r)!Acknowledge
  <2>1. acked'[r] = acked[r] \cup {c}
    BY <1>3 DEF IndInv, TypeOK, HostTypeOK
  <2>2. up[r] \in Seq(Packet)
    BY Types DEF IndInv
  <2>3. tx' = tx /\ tx \in Seq(Chunk)
    BY <1>1, <2>2, ChunksType
  <2>4. Len(tx) \in Nat /\ SubSeq(tx, 1, Len(tx)) = tx
    BY <2>3
  <2> QED BY <1>3, <2>1, <2>3, <2>4
          DEF H!Acknowledge, H!Slide, H!Again, H!Window
<1> QED BY <1>2, <1>3, AcceptedFrame

(* Every step of the system is a step, or a stutter, of each window.       *)
LEMMA WindowStep ==
    ASSUME IndInv, [Next]_vars, NEW r \in Ranks
    PROVE  H(r)!Next \/ UNCHANGED H(r)!vars
<1> USE DEF IndInv, TypeOK, HostTypeOK, LinkTypeOK
<1>1. ASSUME NEW x \in Ranks, HostStep(x) PROVE H(r)!Next \/ UNCHANGED H(r)!vars
  <2>1. CASE x = r
    BY <1>1, <2>1, GenerateStep, RetransmitStep, AcknowledgeStep DEF HostStep, H!Next
  <2>2. CASE x # r
    <3>1. /\ sent'[r] = sent[r] /\ left'[r] = left[r]
          /\ acked'[r] = acked[r] /\ up'[r] = up[r]
      <4>1. CASE ShiftSend(x)
        BY <2>2, <4>1 DEF ShiftSend, Transmit
      <4>2. ASSUME NEW p \in Chunk, Retransmit(x, p)
            PROVE  /\ sent'[r] = sent[r] /\ left'[r] = left[r]
                   /\ acked'[r] = acked[r] /\ up'[r] = up[r]
        BY <2>2, <4>2 DEF Retransmit, Transmit
      <4>3. CASE RxProcess(x)
        <5>1. up' = up
          BY <4>3 DEF RxProcess
        <5>2. CASE UNCHANGED hostVars
          BY <5>1, <5>2 DEF hostVars
        <5>3. CASE ~UNCHANGED hostVars
          BY <2>2, <4>3, <5>1, <5>3, AcceptedFrame
        <5> QED BY <5>2, <5>3
      <4> QED BY <1>1, <4>1, <4>2, <4>3 DEF HostStep
    <3> QED BY <3>1, WindowIdle
  <2> QED BY <2>1, <2>2
<1>2. ASSUME NEW x \in Ranks, up[x] # <<>>, up' = [up EXCEPT ![x] = Tail(@)],
             UNCHANGED hostVars
      PROVE  H(r)!Next \/ UNCHANGED H(r)!vars
  <2>1. CASE x = r
    BY <1>2, <2>1, DepartStep DEF H!Next
  <2>2. CASE x # r
    BY <1>2, <2>2, WindowIdle DEF hostVars
  <2> QED BY <2>1, <2>2
<1>3. ASSUME UNCHANGED up, UNCHANGED hostVars
      PROVE  H(r)!Next \/ UNCHANGED H(r)!vars
  BY <1>3, WindowIdle DEF hostVars
<1>4. CASE SwitchStep
  BY <1>2, <1>3, <1>4 DEF SwitchStep, IngressPass1, IngressPass2, LoseRecirc
<1>5. CASE LinkStep
  BY <1>2, <1>3, <1>5 DEF LinkStep, LoseUp, LoseDown, hostVars
<1>6. CASE UNCHANGED vars
  BY <1>3, <1>6 DEF vars, hostVars
<1> QED BY <1>1, <1>4, <1>5, <1>6 DEF Next, Terminating

(* Each host is a sliding window, the same that module Worker implements   *)
(* in detail: chunks are generated in order within the limit               *)
(* of shift_send(), only unanswered packets of the window are queued       *)
(* again, and the left edge passes answered packets only.                  *)
THEOREM WindowRefinement ==
    ASSUME Aligned
    PROVE  Spec => HostsImplementWindow
<1>1. Init => \A r \in Ranks : H(r)!Init
  BY WindowInit
<1>2. IndInv /\ [Next]_vars =>
          [\A r \in Ranks : H(r)!Next \/ UNCHANGED H(r)!vars]_vars
  BY WindowStep
<1> QED BY <1>1, <1>2, Invariance, PTL DEF Spec, HostsImplementWindow
=============================================================================
