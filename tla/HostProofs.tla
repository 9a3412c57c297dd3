----------------------------- MODULE HostProofs -----------------------------
(***************************************************************************)
(* Proofs about the daemon of a host.                                      *)
(*                                                                         *)
(* CongestionControl, for all constants: the timers, the signals and the   *)
(* lower bound of the congestion window without further assumption, its    *)
(* upper bound if the ring is large enough for cwnd to overshoot what the  *)
(* switch allows.                                                          *)
(*                                                                         *)
(* Daemon, for any number of threads, processors and tags: every thread    *)
(* has a processor of its own on the socket of the NIC, and once a worker  *)
(* runs the flow rules send it its answers and nothing else.               *)
(*                                                                         *)
(* Payload, for any base, word, payload, number of ranks and contents:     *)
(* sums and broadcasts are exact to the byte and write nothing else.       *)
(***************************************************************************)
EXTENDS CongestionControl, Daemon, Payload, ProofLemmas, FiniteSetTheorems

-----------------------------------------------------------------------------
(* TIMERS AND CONGESTION WINDOW                                            *)

-----------------------------------------------------------------------------
(* The invariant.                                                          *)

(* The age of the time stamp against the time the window has waited.  The  *)
(* two differ by the round in which an empty window was filled.            *)
TimerInv ==
    /\ pc # "tx" =>
        /\ ~new_ack
        /\ waited <= ack_age /\ ack_age <= waited + MaxGap
        /\ ack_age < TIMEOUT_TIME
        /\ win_len = 0 => ack_age = 0 /\ waited = 0
    /\ pc = "tx" =>
        /\ new_ack => waited = 0
        /\ ~new_ack => ack_age <= waited + MaxGap
        /\ win_len = 0 => waited = 0 /\ (new_ack \/ ack_age <= MaxGap)
        /\ ack_age < TIMEOUT_TIME => waited <= ack_age

(* A signal that congestion_control() will react to is news.               *)
NewsInv == Congested => fresh

(* cwnd below what shift_send() reaches and above the minimum; target_cwnd *)
(* is never behind.                                                        *)
Ceiling == (WinLimit + 1) * U

CwndInv ==
    /\ CC_CWND_MIN * U <= cwnd /\ cwnd <= target_cwnd
    /\ cwnd_achieved => cwnd < Ceiling

RateInv == RateTypeOK /\ TimerInv /\ NewsInv /\ CwndInv

(* An increase goes at most half of the way to target_cwnd, which a        *)
(* decrease leaves at most half of the window ahead; so cwnd stays below   *)
(* the ring if the ring is a third larger than the switch allows.          *)
Ring == MAX_WIN_LEN * U

RoomToGrow ==
    /\ 4 * Ceiling + 2 * CC_AI <= 3 * Ring
    /\ Ceiling + CC_AI <= Ring

GrowthInv ==
    /\ cwnd < Ring
    /\ 2 * (target_cwnd - cwnd) <= Ring \/ target_cwnd - cwnd <= CC_AI

-----------------------------------------------------------------------------
(* The constants, and the arithmetic of the rate.                          *)

LEMMA RateConstants ==
    /\ U \in Nat /\ U >= 1 /\ L \in Nat /\ L >= 1 /\ GInv \in Nat /\ GInv >= 1
    /\ CC_CWND_MIN \in Nat /\ CC_CWND_MIN >= 1 /\ CwndInit \in Nat
    /\ CC_CWND_MIN <= CwndInit /\ CwndInit <= WinLimit
    /\ CC_AI \in Nat /\ CC_FAST_RECOVERY_CNT \in Nat
    /\ CC_REACTION_TIME \in Nat /\ CC_REACTION_TIME >= 1
    /\ TIMEOUT_TIME \in Nat /\ TIMEOUT_TIME >= 1
    /\ MAX_WIN_LEN \in Nat /\ MAX_PKT_BURST \in Nat /\ WinLimit \in Nat
    /\ MaxGap \in Nat /\ MaxGap < TIMEOUT_TIME
BY RateAssumption DEF RateAssumption

LEMMA ProductFacts ==
    ASSUME NEW a \in Nat, NEW b \in Nat, NEW c \in Nat, a <= b
    PROVE  /\ a * c \in Nat /\ b * c \in Nat /\ a * c <= b * c
           /\ c * a \in Nat /\ c * b \in Nat /\ c * a <= c * b
<1>1. PICK d \in Nat : b = a + d
  BY \A x, y \in Nat : x <= y => y - x \in Nat /\ y = x + (y - x)
<1>2. /\ a * c \in Nat /\ d * c \in Nat /\ (a + d) * c = a * c + d * c
      /\ c * a = a * c /\ c * (a + d) = (a + d) * c
  OBVIOUS
<1> QED BY <1>1, <1>2

(* A quotient is at most k if the dividend is at most k times the divisor. *)
LEMMA DivAtMost ==
    ASSUME NEW a \in Nat, NEW m \in Nat \ {0}, NEW k \in Nat, a <= m * k
    PROVE  a \div m \in Nat /\ a \div m <= k
<1> DEFINE q == a \div m
<1>1. q \in Nat /\ a % m \in 0 .. m - 1 /\ a = m * q + (a % m)
  BY DivMod
<1>2. SUFFICES ASSUME ~(q <= k) PROVE FALSE
  BY <1>1
<1> DEFINE r == a % m
<1>3. q \in Nat /\ r \in Nat /\ a = m * q + r
  BY <1>1
<1> HIDE DEF q, r
<1>4. k + 1 <= q /\ k + 1 \in Nat
  BY <1>2, <1>3
<1>5. m * (k + 1) <= m * q /\ m * (k + 1) \in Nat /\ m * q \in Nat
  BY <1>3, <1>4, ProductFacts
<1>6. m * (k + 1) = m * k + m /\ m * k \in Nat
  OBVIOUS
<1> QED BY <1>3, <1>5, <1>6

(* The loss ratio is a mean: it stays between 0 and 1.                     *)
LEMMA RatioInRange ==
    ASSUME NEW r \in 0 .. L
    PROVE  /\ ((GInv - 1) * r + L) \div GInv \in 0 .. L
           /\ ((GInv - 1) * r) \div GInv \in 0 .. L
<1> DEFINE p == (GInv - 1) * r
           g == GInv - 1
<1>1. L \in Nat /\ GInv \in Nat \ {0} /\ r \in Nat /\ r <= L /\ g \in Nat /\ GInv = g + 1
  BY RateConstants
<1>2. p \in Nat /\ p <= g * L /\ g * L \in Nat
  <2>1. p = g * r
    OBVIOUS
  <2> HIDE DEF g, p
  <2> QED BY <1>1, <2>1, ProductFacts
<1>3. GInv * L = g * L + L
  <2> HIDE DEF g
  <2>1. (g + 1) * L = g * L + L
    BY <1>1
  <2> QED BY <1>1, <2>1
<1> HIDE DEF p
<1>4. p + L \in Nat /\ p + L <= GInv * L /\ p <= GInv * L
  <2> DEFINE x == g * L
             y == GInv * L
  <2>1. x \in Nat /\ y = x + L /\ p \in Nat /\ p <= x
    BY <1>2, <1>3
  <2> HIDE DEF x, y
  <2>2. p + L \in Nat /\ p + L <= y /\ p <= y
    BY <1>1, <2>1
  <2> QED BY <2>2 DEF y
<1>5. (p + L) \div GInv \in Nat /\ (p + L) \div GInv <= L
  <2> DEFINE a == p + L
  <2>1. a \in Nat /\ a <= GInv * L
    BY <1>4
  <2> HIDE DEF a
  <2>2. a \div GInv \in Nat /\ a \div GInv <= L
    BY <1>1, <2>1, DivAtMost
  <2> QED BY <2>2 DEF a
<1>6. p \div GInv \in Nat /\ p \div GInv <= L
  BY <1>1, <1>2, <1>4, DivAtMost
<1> QED BY <1>1, <1>5, <1>6 DEF p

(* A decrease takes off at most half of the window.                        *)
LEMMA HalfAtMost ==
    ASSUME NEW c \in Nat, NEW r \in 0 .. L
    PROVE  LET q == (c * (2 * L - r)) \div (2 * L)
           IN  q \in Nat /\ q <= c /\ c <= 2 * q + 1
<1> DEFINE m == 2 * L
           k == m - r
           y == c * k
           q == y \div m
<1>1. L \in Nat /\ L >= 1 /\ m \in Nat \ {0} /\ k \in Nat /\ k <= m /\ L <= k
  BY RateConstants
<1>2. y \in Nat /\ y <= c * m /\ c * L <= y /\ c * L \in Nat /\ c * m \in Nat
  <2> HIDE DEF m, k
  <2>1. c * k \in Nat /\ c * k <= c * m /\ c * m \in Nat
    BY <1>1, ProductFacts
  <2>2. c * L <= c * k /\ c * L \in Nat
    BY <1>1, ProductFacts
  <2> QED BY <2>1, <2>2
<1>3. c * m = m * c
  BY <1>1
<1> HIDE DEF y, k
<1>4. q \in Nat /\ q <= c
  <2> HIDE DEF m
  <2> QED BY <1>1, <1>2, <1>3, DivAtMost
<1>5. y % m \in Nat /\ y % m < m /\ y = m * q + (y % m)
  <2> HIDE DEF m
  <2> QED BY <1>1, <1>2, DivMod
<1>6. c <= 2 * q + 1
  <2> DEFINE x == y % m
             u == 2 * q + 2
  <2>1. SUFFICES ASSUME u <= c PROVE FALSE
    <3> HIDE DEF q
    <3> QED BY <1>4
  <2>2. u \in Nat
    <3> HIDE DEF q
    <3> QED BY <1>4
  <2>3. L * u <= L * c /\ L * u \in Nat /\ L * c \in Nat
    <3> HIDE DEF u
    <3> QED BY <1>1, <2>1, <2>2, ProductFacts
  <2>4. L * u = m * q + m
    <3> HIDE DEF q
    <3> QED BY <1>1, <1>4
  <2>5. L * c = c * L
    BY <1>1
  <2>6. m * q + m <= y
    BY <1>2, <2>3, <2>4, <2>5
  <2>7. m * q \in Nat /\ m \in Nat
    <3> HIDE DEF m, q
    <3> QED BY <1>1, <1>4
  <2> HIDE DEF x, q, m
  <2> QED BY <1>5, <2>6, <2>7 DEF x
<1> QED BY <1>4, <1>6 DEF m, k, y, q

(* What shift_send() reached shows in cwnd.                                *)
LEMMA AchievedBelow ==
    ASSUME NEW c \in Nat, NEW len \in 0 .. WinLimit, Achieved(len, c)
    PROVE  c < Ceiling
<1> DEFINE q == c \div U
           r == c % U
<1>1. U \in Nat \ {0} /\ WinLimit \in Nat
  BY RateConstants
<1>2. q \in Nat /\ r \in 0 .. U - 1 /\ c = U * q + r
  BY <1>1, DivMod
<1>3. q <= WinLimit
  BY <1>1, <1>2 DEF Achieved
<1> HIDE DEF q, r
<1>4. U * q <= U * WinLimit /\ U * q \in Nat /\ U * WinLimit \in Nat
  BY <1>1, <1>2, <1>3, ProductFacts
<1>5. (WinLimit + 1) * U = U * WinLimit + U
  BY <1>1
<1> QED BY <1>1, <1>2, <1>4, <1>5 DEF Ceiling

-----------------------------------------------------------------------------
(* Every step keeps the invariant.                                         *)

(* A time stamp that ages by d, up to where it stops to count.             *)
LEMMA Aging ==
    ASSUME NEW a \in Nat, NEW d \in Nat, NEW m \in Nat, a <= m
    PROVE  /\ Min2(a + d, m) \in 0 .. m /\ a <= Min2(a + d, m)
           /\ Min2(a + d, m) <= a + d
           /\ Min2(a + d, m) < m => Min2(a + d, m) = a + d
BY DEF Min2

LEMMA InitRate == RateInit => RateInv
<1> SUFFICES ASSUME RateInit PROVE RateInv
  OBVIOUS
<1>1. CwndInit * U \in Nat /\ CC_CWND_MIN * U <= CwndInit * U
  BY RateConstants, ProductFacts
<1>2. RateTypeOK
  <2>1. cwnd \in Nat /\ target_cwnd \in Nat
    BY <1>1 DEF RateInit
  <2>2. loss_ratio \in 0 .. L /\ adjust_cnt \in -CC_FAST_RECOVERY_CNT .. 0 /\ win_len \in 0 .. WinLimit
    BY RateConstants DEF RateInit
  <2>3. /\ ack_age \in 0 .. TIMEOUT_TIME
        /\ decrease_age \in 0 .. CC_REACTION_TIME /\ adjust_age \in 0 .. CC_REACTION_TIME
        /\ waited \in 0 .. TIMEOUT_TIME + 2 * MaxGap
    BY RateConstants DEF RateInit
  <2>4. /\ pc = "rx" /\ cwnd_achieved = FALSE /\ new_ack = FALSE /\ new_ack_cc = FALSE
        /\ pkt_loss_flag = FALSE /\ fresh = FALSE /\ calm = FALSE /\ tos_minitor = 0
    BY DEF RateInit
  <2> QED BY <2>1, <2>2, <2>3, <2>4 DEF RateTypeOK
<1>3. TimerInv /\ NewsInv
  BY RateConstants DEF RateInit, TimerInv, NewsInv, Congested
<1>4. CwndInv
  <2> DEFINE x == CwndInit * U
             y == CC_CWND_MIN * U
  <2>1. cwnd = x /\ target_cwnd = x /\ ~cwnd_achieved /\ x \in Nat /\ y <= x
    BY <1>1 DEF RateInit
  <2> HIDE DEF x
  <2> QED BY <2>1 DEF CwndInv
<1> QED BY <1>2, <1>3, <1>4 DEF RateInv

LEMMA RxRate ==
    ASSUME RateInv, NEW d \in 0 .. MaxGap, NEW acked \in BOOLEAN, NEW slide \in 0 .. WinLimit,
           NEW marked \in BOOLEAN, NEW lost \in BOOLEAN,
           RxProcess(d, acked, slide, marked, lost)
    PROVE  RateInv'
<1>1. /\ ack_age \in Nat /\ ack_age <= TIMEOUT_TIME /\ waited \in Nat
      /\ waited <= TIMEOUT_TIME + 2 * MaxGap /\ d \in Nat /\ d <= MaxGap
      /\ decrease_age \in Nat /\ decrease_age <= CC_REACTION_TIME
      /\ adjust_age \in Nat /\ adjust_age <= CC_REACTION_TIME
      /\ win_len \in Nat /\ win_len <= WinLimit
      /\ TIMEOUT_TIME + 2 * MaxGap \in Nat
  BY RateConstants DEF RateInv, RateTypeOK
<1> DEFINE limit == TIMEOUT_TIME + 2 * MaxGap
<1>2. /\ Min2(ack_age + d, TIMEOUT_TIME) \in 0 .. TIMEOUT_TIME
      /\ ack_age <= Min2(ack_age + d, TIMEOUT_TIME)
      /\ Min2(ack_age + d, TIMEOUT_TIME) <= ack_age + d
      /\ Min2(ack_age + d, TIMEOUT_TIME) < TIMEOUT_TIME
            => Min2(ack_age + d, TIMEOUT_TIME) = ack_age + d
  BY <1>1, RateConstants, Aging
<1>3. /\ Min2(waited + d, limit) \in 0 .. limit
      /\ waited <= Min2(waited + d, limit)
      /\ Min2(waited + d, limit) <= waited + d
      /\ Min2(waited + d, limit) < limit => Min2(waited + d, limit) = waited + d
  <2> HIDE DEF limit
  <2>1. limit \in Nat /\ waited <= limit
    BY <1>1 DEF limit
  <2> QED BY <1>1, <2>1, Aging
<1>4. /\ Min2(decrease_age + d, CC_REACTION_TIME) \in 0 .. CC_REACTION_TIME
      /\ Min2(adjust_age + d, CC_REACTION_TIME) \in 0 .. CC_REACTION_TIME
  BY <1>1, RateConstants, Aging
<1>5. RateTypeOK'
  <2>1. ack_age' \in 0 .. TIMEOUT_TIME /\ decrease_age' \in 0 .. CC_REACTION_TIME
        /\ adjust_age' \in 0 .. CC_REACTION_TIME
    BY <1>2, <1>4 DEF RxProcess
  <2>2. waited' \in 0 .. TIMEOUT_TIME + 2 * MaxGap
    BY <1>1, <1>3 DEF RxProcess
  <2>3. win_len' \in 0 .. WinLimit
    BY <1>1, RateConstants DEF RxProcess
  <2>4. /\ cwnd_achieved' \in BOOLEAN /\ new_ack' \in BOOLEAN /\ new_ack_cc' \in BOOLEAN
        /\ pkt_loss_flag' \in BOOLEAN /\ fresh' \in BOOLEAN /\ calm' \in BOOLEAN
    BY DEF RxProcess, RateInv, RateTypeOK
  <2>5. tos_minitor' \in {0, 1, 3} /\ pc' = "tx"
    BY DEF RxProcess, RateInv, RateTypeOK
  <2>6. /\ cwnd' \in Nat /\ target_cwnd' \in Nat /\ loss_ratio' \in 0 .. L
        /\ adjust_cnt' \in -CC_FAST_RECOVERY_CNT .. 0
    BY DEF RxProcess, RateInv, RateTypeOK
  <2> QED BY <2>1, <2>2, <2>3, <2>4, <2>5, <2>6 DEF RateTypeOK
<1>6. TimerInv'
  <2>1. pc = "rx" /\ pc' = "tx" /\ (new_ack' <=> acked)
        /\ waited <= ack_age /\ ack_age <= waited + MaxGap /\ ack_age < TIMEOUT_TIME
        /\ (win_len = 0 => ack_age = 0 /\ waited = 0)
    BY DEF RateInv, TimerInv, RxProcess
  <2>2. CASE acked
    <3>1. waited' = 0 /\ new_ack'
      BY <2>1, <2>2 DEF RxProcess
    <3>2. ack_age' \in Nat
      BY <1>2 DEF RxProcess
    <3> QED BY <2>1, <3>1, <3>2 DEF TimerInv
  <2>3. CASE ~acked /\ win_len = 0
    <3>1. waited' = 0 /\ ~new_ack' /\ ack_age' \in Nat /\ ack_age' <= ack_age + d
      BY <1>2, <2>1, <2>3 DEF RxProcess
    <3>2. ack_age' <= MaxGap
      BY <1>1, <2>1, <2>3, <3>1, RateConstants
    <3> QED BY <2>1, <3>1, <3>2, RateConstants DEF TimerInv
  <2>4. CASE ~acked /\ win_len # 0
    <3> DEFINE x == Min2(ack_age + d, TIMEOUT_TIME)
               y == Min2(waited + d, limit)
    <3>1. ack_age' = x /\ waited' = y /\ win_len' = win_len /\ ~new_ack'
      BY <1>1, <2>1, <2>4 DEF RxProcess
    <3>2. /\ x \in Nat /\ x <= TIMEOUT_TIME /\ x <= ack_age + d
          /\ x < TIMEOUT_TIME => x = ack_age + d
          /\ y \in Nat /\ y <= limit /\ y <= waited + d
          /\ y < limit => y = waited + d
      BY <1>1, <1>2, <1>3
    <3>3. limit = TIMEOUT_TIME + 2 * MaxGap
      OBVIOUS
    <3> HIDE DEF x, y, limit
    <3>4. x <= y + MaxGap
      BY <1>1, <2>1, <3>2, <3>3, RateConstants
    <3>5. x < TIMEOUT_TIME => y <= x
      BY <1>1, <2>1, <3>2, <3>3, RateConstants
    <3> QED BY <2>1, <2>4, <3>1, <3>4, <3>5 DEF TimerInv
  <2> QED BY <2>2, <2>3, <2>4
<1>7. NewsInv'
  BY DEF RxProcess, RateInv, NewsInv, Congested, RateTypeOK
<1>8. CwndInv'
  BY DEF RxProcess, RateInv, CwndInv
<1> QED BY <1>5, <1>6, <1>7, <1>8 DEF RateInv

(* The window after shift_send(): as long as before or up to the limit of  *)
(* the switch.                                                             *)
FilledLen(n, w) ==
    LET expect == ExpectWinLen(w)
    IN  IF win_len + n <= expect THEN win_len + n
        ELSE IF win_len > expect THEN win_len ELSE expect

LEMMA FilledInRange ==
    ASSUME win_len \in 0 .. WinLimit, NEW n \in Nat, NEW w \in Nat
    PROVE  FilledLen(n, w) \in 0 .. WinLimit /\ win_len <= FilledLen(n, w)
<1> DEFINE q == w \div U
           expect == ExpectWinLen(w)
<1>1. q \in Nat /\ U \in Nat \ {0}
  BY RateConstants, DivMod
<1> HIDE DEF q
<1>2. expect = Min2(MAX_WIN_LEN - 1, Min2(WinLimit, Min2(q, win_len + MAX_PKT_BURST)))
  BY DEF ExpectWinLen, q
<1>3. expect \in Int /\ expect <= WinLimit
  BY <1>1, <1>2, RateConstants DEF Min2
<1> HIDE DEF expect
<1>4. FilledLen(n, w) = IF win_len + n <= expect THEN win_len + n
                        ELSE IF win_len > expect THEN win_len ELSE expect
  BY DEF FilledLen, expect
<1>5. win_len \in Nat /\ win_len <= WinLimit /\ WinLimit \in Nat
  BY RateConstants
<1> QED BY <1>3, <1>4, <1>5

LEMMA ReinitCwnd ==
    /\ CwndInit * U \in Nat /\ CC_CWND_MIN * U <= CwndInit * U
    /\ CwndInit * U < Ceiling /\ CC_CWND_MIN * U \in Nat
<1>1. /\ CwndInit * U \in Nat /\ CC_CWND_MIN * U <= CwndInit * U /\ CC_CWND_MIN * U \in Nat
      /\ CwndInit * U <= WinLimit * U /\ WinLimit * U \in Nat
  BY RateConstants, ProductFacts
<1>2. (WinLimit + 1) * U = WinLimit * U + U
  BY RateConstants
<1> DEFINE x == CwndInit * U
           y == WinLimit * U
<1>3. x \in Nat /\ y \in Nat /\ x <= y /\ Ceiling = y + U
  BY <1>1, <1>2 DEF Ceiling
<1> HIDE DEF x, y
<1>4. x < Ceiling
  BY <1>3, RateConstants
<1> QED BY <1>1, <1>4 DEF x

LEMMA TxRate ==
    ASSUME RateInv, NEW n \in 0 .. MAX_WIN_LEN, TxProcess(n)
    PROVE  RateInv'
<1> DEFINE len == FilledLen(n, cwnd')
<1>1. /\ win_len' = len /\ cwnd_achieved' = (cwnd_achieved \/ Achieved(len, cwnd'))
      /\ ack_age' = AckAge(len)
  BY DEF TxProcess, FilledLen
<1>2. /\ cwnd \in Nat /\ target_cwnd \in Nat /\ loss_ratio \in 0 .. L
      /\ adjust_cnt \in -CC_FAST_RECOVERY_CNT .. 0
      /\ decrease_age \in 0 .. CC_REACTION_TIME /\ adjust_age \in 0 .. CC_REACTION_TIME
      /\ win_len \in 0 .. WinLimit /\ n \in Nat
  BY RateConstants DEF RateInv, RateTypeOK
<1>3. /\ CC_CWND_MIN * U <= cwnd /\ cwnd <= target_cwnd
      /\ cwnd_achieved => cwnd < Ceiling
  BY DEF RateInv, CwndInv
<1>4. /\ cwnd' \in Nat /\ target_cwnd' \in Nat /\ loss_ratio' \in 0 .. L
      /\ adjust_cnt' \in -CC_FAST_RECOVERY_CNT .. 0
      /\ decrease_age' \in 0 .. CC_REACTION_TIME /\ adjust_age' \in 0 .. CC_REACTION_TIME
      /\ CC_CWND_MIN * U <= cwnd' /\ cwnd' <= target_cwnd'
      /\ cwnd_achieved => cwnd' < Ceiling
  <2>1. CASE FullRetrans
    <3>1. /\ cwnd' = CwndInit * U /\ target_cwnd' = CwndInit * U
          /\ loss_ratio' = L /\ adjust_cnt' = 0 /\ decrease_age' = 0 /\ adjust_age' = 0
      BY <2>1 DEF TxProcess, Reinit
    <3>2. /\ loss_ratio' \in 0 .. L
          /\ adjust_cnt' \in -CC_FAST_RECOVERY_CNT .. 0
          /\ decrease_age' \in 0 .. CC_REACTION_TIME /\ adjust_age' \in 0 .. CC_REACTION_TIME
      BY <3>1, RateConstants
    <3>3. cwnd' \in Nat /\ target_cwnd' \in Nat /\ cwnd' = target_cwnd'
          /\ CC_CWND_MIN * U <= cwnd' /\ cwnd' < Ceiling
      BY <3>1, ReinitCwnd
    <3>4. cwnd' <= target_cwnd'
      BY <3>3
    <3> QED BY <3>2, <3>3, <3>4
  <2>2. CASE ~FullRetrans
    BY <1>2, <1>3, <2>2 DEF TxProcess, ccVars
  <2> QED BY <2>1, <2>2
<1>5. len \in 0 .. WinLimit /\ win_len <= len
  BY <1>2, <1>4, FilledInRange
<1> HIDE DEF len
<1>6. /\ pc = "tx" /\ pc' = "cc" /\ new_ack' = FALSE
      /\ waited' = IF FullRetrans THEN 0 ELSE waited
      /\ UNCHANGED <<new_ack_cc, tos_minitor, pkt_loss_flag, fresh, calm>>
  BY DEF TxProcess
<1>7. /\ ack_age \in Nat /\ ack_age <= TIMEOUT_TIME
      /\ waited \in 0 .. TIMEOUT_TIME + 2 * MaxGap
      /\ new_ack => waited = 0
      /\ ~new_ack => ack_age <= waited + MaxGap
      /\ win_len = 0 => waited = 0 /\ (new_ack \/ ack_age <= MaxGap)
      /\ ack_age < TIMEOUT_TIME => waited <= ack_age
  BY <1>6, RateConstants DEF RateInv, RateTypeOK, TimerInv
<1>8. ack_age' \in 0 .. TIMEOUT_TIME /\ waited' \in 0 .. TIMEOUT_TIME + 2 * MaxGap
  BY <1>1, <1>6, <1>7, RateConstants DEF AckAge
<1>9. RateTypeOK'
  <2>1. /\ cwnd_achieved' \in BOOLEAN /\ new_ack' \in BOOLEAN /\ new_ack_cc' \in BOOLEAN
        /\ pkt_loss_flag' \in BOOLEAN /\ fresh' \in BOOLEAN /\ calm' \in BOOLEAN
        /\ tos_minitor' \in {0, 1, 3} /\ pc' = "cc"
    BY <1>1, <1>6 DEF RateInv, RateTypeOK
  <2> QED BY <1>1, <1>4, <1>5, <1>8, <2>1 DEF RateTypeOK
<1>10. TimerInv'
  <2>1. CASE new_ack
    <3>1. ack_age' = 0 /\ waited' = 0
      BY <1>1, <1>6, <1>7, <2>1 DEF AckAge, FullRetrans
    <3> QED BY <1>6, <3>1, RateConstants DEF TimerInv
  <2>2. CASE ~new_ack /\ ack_age >= TIMEOUT_TIME /\ win_len > 0
    <3>1. ack_age' = 0 /\ waited' = 0
      BY <1>1, <1>6, <2>2 DEF AckAge, FullRetrans
    <3> QED BY <1>6, <3>1, RateConstants DEF TimerInv
  <2>3. CASE ~new_ack /\ ~(ack_age >= TIMEOUT_TIME /\ win_len > 0)
    <3>1. waited' = waited
      BY <1>6, <2>3 DEF FullRetrans
    <3>2. ack_age' = IF len = 0 THEN 0 ELSE ack_age
      BY <1>1, <2>3 DEF AckAge
    <3>3. ack_age < TIMEOUT_TIME
      BY <1>2, <1>7, <2>3, RateConstants
    <3>4. len = 0 => win_len = 0
      BY <1>2, <1>5, RateConstants
    <3>5. CASE len = 0
      <4>1. ack_age' = 0 /\ waited' = 0
        BY <1>7, <3>1, <3>2, <3>4, <3>5
      <4> QED BY <1>6, <4>1, RateConstants DEF TimerInv
    <3>6. CASE len # 0
      <4>1. ack_age' = ack_age /\ win_len' # 0
        BY <1>1, <3>2, <3>6
      <4> QED BY <1>6, <1>7, <2>3, <3>1, <3>3, <4>1 DEF TimerInv
    <3> QED BY <3>5, <3>6
  <2> QED BY <2>1, <2>2, <2>3
<1>11. NewsInv'
  BY <1>6 DEF RateInv, NewsInv, Congested
<1>12. CwndInv'
  <2>1. cwnd_achieved' => cwnd' < Ceiling
    <3>1. Achieved(len, cwnd') => cwnd' < Ceiling
      BY <1>4, <1>5, AchievedBelow
    <3> QED BY <1>1, <1>4, <3>1
  <2> QED BY <1>4, <2>1 DEF CwndInv, Ceiling
<1> QED BY <1>9, <1>10, <1>11, <1>12 DEF RateInv

(* The middle of cwnd and a target that is not behind.                     *)
LEMMA Halfway ==
    ASSUME NEW c \in Nat, NEW t \in Nat, c <= t
    PROVE  /\ (t + c) \div 2 \in Nat /\ c <= (t + c) \div 2 /\ (t + c) \div 2 <= t
           /\ 2 * ((t + c) \div 2) <= t + c /\ t + c <= 2 * ((t + c) \div 2) + 1
OBVIOUS

(* adjust_rate(true) sets target_cwnd to the window it leaves, and takes   *)
(* off at most half of it.                                                 *)
LEMMA DecreaseFacts ==
    ASSUME RateInv, Decrease
    PROVE  /\ loss_ratio' \in 0 .. L /\ adjust_cnt' \in -CC_FAST_RECOVERY_CNT .. 0
           /\ cwnd' \in Nat /\ target_cwnd' = cwnd
           /\ CC_CWND_MIN * U <= cwnd' /\ cwnd' <= cwnd /\ cwnd <= 2 * cwnd' + 1
<1> DEFINE ratio == ((GInv - 1) * loss_ratio + L) \div GInv
           q == (cwnd * (2 * L - ratio)) \div (2 * L)
           m == CC_CWND_MIN * U
<1>1. loss_ratio \in 0 .. L /\ cwnd \in Nat /\ m <= cwnd /\ m \in Nat
  BY ReinitCwnd DEF RateInv, RateTypeOK, CwndInv
<1>2. ratio \in 0 .. L
  BY <1>1, RatioInRange
<1>3. loss_ratio' = ratio /\ target_cwnd' = cwnd /\ cwnd' = AtLeastMin(q)
      /\ adjust_cnt' = -CC_FAST_RECOVERY_CNT
  BY DEF Decrease
<1>4. q \in Nat /\ q <= cwnd /\ cwnd <= 2 * q + 1
  <2> HIDE DEF ratio
  <2> QED BY <1>1, <1>2, HalfAtMost
<1>5. AtLeastMin(q) = IF q < m THEN m ELSE q
  BY DEF AtLeastMin
<1>6. adjust_cnt' \in -CC_FAST_RECOVERY_CNT .. 0
  BY <1>3, RateConstants
<1> HIDE DEF q, m
<1>7. cwnd' \in Nat /\ m <= cwnd' /\ cwnd' <= cwnd /\ cwnd <= 2 * cwnd' + 1
  BY <1>1, <1>3, <1>4, <1>5
<1> QED BY <1>2, <1>3, <1>6, <1>7 DEF m

(* adjust_rate(false) never lowers cwnd; a window that was not as large as *)
(* cwnd keeps it, any other goes half of the way to target_cwnd.           *)
LEMMA IncreaseFacts ==
    ASSUME RateInv, Increase
    PROVE  /\ loss_ratio' \in 0 .. L /\ adjust_cnt' \in -CC_FAST_RECOVERY_CNT .. 0
           /\ cwnd' \in Nat /\ target_cwnd' \in Nat
           /\ CC_CWND_MIN * U <= cwnd' /\ cwnd <= cwnd' /\ cwnd' <= target_cwnd'
           /\ \/ cwnd' = cwnd /\ target_cwnd' = target_cwnd
              \/ /\ cwnd < Ceiling
                 /\ target_cwnd' <= target_cwnd + CC_AI
                 /\ 2 * cwnd' <= target_cwnd' + cwnd
                 /\ target_cwnd' + cwnd <= 2 * cwnd' + 1
<1> DEFINE target == IF adjust_cnt >= 0 THEN target_cwnd + CC_AI ELSE target_cwnd
           h == (target + cwnd) \div 2
           m == CC_CWND_MIN * U
<1>1. /\ loss_ratio \in 0 .. L /\ cwnd \in Nat /\ target_cwnd \in Nat /\ m <= cwnd
      /\ m \in Nat /\ cwnd <= target_cwnd /\ adjust_cnt \in -CC_FAST_RECOVERY_CNT .. 0
  BY ReinitCwnd DEF RateInv, RateTypeOK, CwndInv
<1>2. loss_ratio' \in 0 .. L
  BY <1>1, RatioInRange DEF Increase
<1>3. target \in Nat /\ cwnd <= target /\ target <= target_cwnd + CC_AI
  <2> HIDE DEF m
  <2> QED BY <1>1, RateConstants
<1>4. /\ h \in Nat /\ cwnd <= h /\ h <= target
      /\ 2 * h <= target + cwnd /\ target + cwnd <= 2 * h + 1
  <2> HIDE DEF target
  <2> QED BY <1>1, <1>3, Halfway
<1>5. AtLeastMin(h) = (IF h < m THEN m ELSE h) /\ AtLeastMin(cwnd) = (IF cwnd < m THEN m ELSE cwnd)
  BY DEF AtLeastMin
<1>6. CASE cwnd_achieved
  <2>1. target_cwnd' = target /\ adjust_cnt' = Min2(adjust_cnt + 1, 0) /\ cwnd' = AtLeastMin(h)
    BY <1>6 DEF Increase
  <2>2. adjust_cnt' \in -CC_FAST_RECOVERY_CNT .. 0
    <3> HIDE DEF target, h, m
    <3> QED BY <1>1, <2>1, RateConstants DEF Min2
  <2> HIDE DEF h, m
  <2>3. cwnd' = h /\ m <= h
    BY <1>1, <1>4, <1>5, <2>1
  <2>4. cwnd < Ceiling
    BY <1>6 DEF RateInv, CwndInv
  <2> HIDE DEF target
  <2> QED BY <1>2, <1>3, <1>4, <2>1, <2>2, <2>3, <2>4 DEF m
<1>7. CASE ~cwnd_achieved
  <2>1. cwnd' = AtLeastMin(cwnd) /\ target_cwnd' = target_cwnd /\ adjust_cnt' = adjust_cnt
    BY <1>7 DEF Increase
  <2> HIDE DEF m, h, target
  <2>2. cwnd' = cwnd /\ cwnd <= cwnd'
    BY <1>1, <1>5, <2>1
  <2> QED BY <1>1, <1>2, <2>1, <2>2 DEF m
<1> QED BY <1>6, <1>7

(* The three outcomes of congestion_control().                             *)
LEMMA CtlCases ==
    ASSUME CongestionCtl
    PROVE  /\ pc = "cc" /\ pc' = "rx"
           /\ UNCHANGED <<win_len, new_ack, ack_age, waited, calm>>
           /\ \/ UNCHANGED <<ccVars, cwnd_achieved, new_ack_cc, signals, fresh>>
              \/ /\ Congested /\ Decrease /\ cwnd_achieved' = FALSE
                 /\ decrease_age' = 0 /\ adjust_age' = 0
                 /\ ClearSignals /\ fresh' = FALSE /\ new_ack_cc' = FALSE
              \/ /\ ~Congested /\ Increase /\ cwnd_achieved' = FALSE
                 /\ adjust_age' = 0 /\ new_ack_cc' = FALSE
                 /\ UNCHANGED <<decrease_age, signals, fresh>>
BY DEF CongestionCtl

LEMMA CtlRate ==
    ASSUME RateInv, CongestionCtl
    PROVE  RateInv'
<1>1. /\ pc = "cc" /\ pc' = "rx" /\ win_len' = win_len /\ new_ack' = new_ack
      /\ ack_age' = ack_age /\ waited' = waited /\ calm' = calm
  BY CtlCases
<1>2. TimerInv'
  BY <1>1 DEF RateInv, TimerInv
<1>3. RateTypeOK /\ CwndInv /\ NewsInv
  BY DEF RateInv
<1>4. CASE UNCHANGED <<ccVars, cwnd_achieved, new_ack_cc, signals, fresh>>
  <2>1. RateTypeOK'
    BY <1>1, <1>3, <1>4 DEF RateTypeOK, ccVars, signals
  <2>2. NewsInv'
    BY <1>3, <1>4 DEF NewsInv, Congested, signals
  <2>3. CwndInv'
    BY <1>3, <1>4 DEF CwndInv, ccVars
  <2> QED BY <1>2, <2>1, <2>2, <2>3 DEF RateInv
<1>5. ASSUME Decrease, cwnd_achieved' = FALSE, decrease_age' = 0, adjust_age' = 0,
             ClearSignals, fresh' = FALSE, new_ack_cc' = FALSE
      PROVE  RateInv'
  <2>1. /\ loss_ratio' \in 0 .. L /\ adjust_cnt' \in -CC_FAST_RECOVERY_CNT .. 0
        /\ cwnd' \in Nat /\ target_cwnd' = cwnd
        /\ CC_CWND_MIN * U <= cwnd' /\ cwnd' <= cwnd
    BY <1>5, DecreaseFacts
  <2>2. decrease_age' \in 0 .. CC_REACTION_TIME /\ adjust_age' \in 0 .. CC_REACTION_TIME
    BY <1>5, RateConstants
  <2>3. tos_minitor' = 0 /\ pkt_loss_flag' = FALSE
    BY <1>5 DEF ClearSignals
  <2>4. RateTypeOK'
    BY <1>1, <1>3, <1>5, <2>1, <2>2, <2>3 DEF RateTypeOK
  <2>5. NewsInv' /\ CwndInv'
    BY <1>5, <2>1, <2>3 DEF NewsInv, Congested, CwndInv
  <2> QED BY <1>2, <2>4, <2>5 DEF RateInv
<1>6. ASSUME Increase, cwnd_achieved' = FALSE, adjust_age' = 0, new_ack_cc' = FALSE,
             UNCHANGED <<decrease_age, signals, fresh>>
      PROVE  RateInv'
  <2>1. /\ loss_ratio' \in 0 .. L /\ adjust_cnt' \in -CC_FAST_RECOVERY_CNT .. 0
        /\ cwnd' \in Nat /\ target_cwnd' \in Nat
        /\ CC_CWND_MIN * U <= cwnd' /\ cwnd' <= target_cwnd'
    BY <1>6, IncreaseFacts
  <2>2. adjust_age' \in 0 .. CC_REACTION_TIME
    BY <1>6, RateConstants
  <2>3. RateTypeOK'
    BY <1>1, <1>3, <1>6, <2>1, <2>2 DEF RateTypeOK, signals
  <2>4. NewsInv'
    BY <1>3, <1>6 DEF NewsInv, Congested, signals
  <2>5. CwndInv'
    BY <1>6, <2>1 DEF CwndInv
  <2> QED BY <1>2, <2>3, <2>4, <2>5 DEF RateInv
<1> QED BY <1>4, <1>5, <1>6, CtlCases

LEMMA NextRate == RateInv /\ [RateNext]_rateVars => RateInv'
<1> SUFFICES ASSUME RateInv, [RateNext]_rateVars PROVE RateInv'
  OBVIOUS
<1>1. ASSUME NEW d \in 0 .. MaxGap, RxAfter(d) PROVE RateInv'
  BY <1>1, RxRate DEF RxAfter
<1>2. ASSUME NEW n \in 0 .. MAX_WIN_LEN, TxProcess(n) PROVE RateInv'
  BY <1>2, TxRate
<1>3. CASE CongestionCtl
  BY <1>3, CtlRate
<1>4. CASE Calm
  <2>1. RateTypeOK'
    BY <1>4 DEF Calm, RateInv, RateTypeOK, ccVars
  <2>2. TimerInv' /\ NewsInv' /\ CwndInv'
    BY <1>4 DEF Calm, RateInv, TimerInv, NewsInv, Congested, CwndInv, ccVars
  <2> QED BY <2>1, <2>2 DEF RateInv
<1>5. CASE UNCHANGED rateVars
  <2>1. RateTypeOK'
    BY <1>5 DEF rateVars, RateInv, RateTypeOK, ccVars
  <2>2. TimerInv' /\ NewsInv' /\ CwndInv'
    BY <1>5 DEF rateVars, RateInv, TimerInv, NewsInv, Congested, CwndInv, ccVars
  <2> QED BY <2>1, <2>2 DEF RateInv
<1> QED BY <1>1, <1>2, <1>3, <1>4, <1>5 DEF RateNext

(* The timers, the signals and cwnd of a worker fit together in every      *)
(* state, for all constants: the inductive invariant of tx_process(),      *)
(* adjust_rate() and congestion_control().                                 *)
THEOREM RateInvariance == RateSpec => []RateInv
BY InitRate, NextRate, PTL DEF RateSpec

(* A window without answers is retransmitted within the timeout and one    *)
(* round (the timer of tx_process()).                                      *)
THEOREM NoLateTimeout == RateSpec => []TimeoutPrompt
<1>1. RateInv => TimeoutPrompt
  BY RateConstants DEF RateInv, RateTypeOK, TimerInv, TimeoutPrompt
<1> QED BY <1>1, RateInvariance, PTL

(* A full retransmission is never premature, also not after an idle time   *)
(* (the timer of tx_process()).                                            *)
THEOREM NoEarlyTimeout == RateSpec => TimeoutNotEarly
<1>1. RateInv => (pc = "tx" /\ FullRetrans => waited >= TIMEOUT_TIME - MaxGap)
  BY RateConstants DEF RateInv, RateTypeOK, TimerInv, FullRetrans
<1>2. RateInv /\ [RateNext]_rateVars
        => [pc = "tx" /\ FullRetrans => waited >= TIMEOUT_TIME - MaxGap]_rateVars
  BY <1>1
<1> QED BY <1>2, RateInvariance, PTL DEF RateSpec, TimeoutNotEarly

(* congestion_control() lowers cwnd only for a mark or a loss that was     *)
(* seen after the last decrease.                                           *)
THEOREM NoStaleDecrease == RateSpec => DecreaseNeedsNews
<1>1. RateInv /\ [RateNext]_rateVars => [pc = "cc" /\ cwnd' < cwnd => fresh]_rateVars
  <2> SUFFICES ASSUME RateInv, RateNext, pc = "cc", cwnd' < cwnd PROVE fresh
    OBVIOUS
  <2>1. cwnd \in Nat
    BY DEF RateInv, RateTypeOK
  <2>2. CongestionCtl \/ cwnd' = cwnd
    BY DEF RateNext, RxAfter, RxProcess, TxProcess, Calm, ccVars
  <2>3. CongestionCtl
    BY <2>1, <2>2
  <2>4. CASE UNCHANGED ccVars
    BY <2>1, <2>4 DEF ccVars
  <2>5. CASE Congested
    BY <2>5 DEF RateInv, NewsInv
  <2>6. CASE Increase
    <3>1. cwnd' \in Nat /\ cwnd <= cwnd'
      BY <2>6, IncreaseFacts
    <3> QED BY <2>1, <3>1
  <2> QED BY <2>3, <2>4, <2>5, <2>6, CtlCases
<1> QED BY <1>1, RateInvariance, PTL DEF RateSpec, DecreaseNeedsNews

-----------------------------------------------------------------------------
(* The upper bound of cwnd.                                                *)

LEMMA RingFacts ==
    ASSUME RoomToGrow
    PROVE  Ring \in Nat /\ Ceiling \in Nat /\ Ceiling <= Ring /\ CwndInit * U < Ring
<1>1. Ring \in Nat /\ Ceiling \in Nat
  <2>1. MAX_WIN_LEN * U \in Nat
    BY RateConstants
  <2>2. (WinLimit + 1) * U \in Nat
    BY RateConstants, \A w \in Nat : w + 1 \in Nat
  <2> QED BY <2>1, <2>2 DEF Ring, Ceiling
<1>2. Ceiling <= Ring
  BY <1>1, RateConstants DEF RoomToGrow
<1>3. CwndInit * U \in Nat /\ CwndInit * U < Ceiling
  BY ReinitCwnd
<1> DEFINE x == CwndInit * U
<1> HIDE DEF x
<1>4. x < Ring
  BY <1>1, <1>2, <1>3 DEF x
<1> QED BY <1>1, <1>2, <1>4 DEF x

LEMMA ReinitGrowth ==
    ASSUME RoomToGrow, NEW c, c = CwndInit * U
    PROVE  c < Ring /\ 2 * (c - c) <= Ring
<1> DEFINE x == CwndInit * U
<1>1. x \in Nat /\ x < Ring /\ Ring \in Nat
  BY RingFacts, ReinitCwnd
<1> HIDE DEF x
<1>2. x < Ring /\ 2 * (x - x) <= Ring
  BY <1>1
<1> QED BY <1>2 DEF x

(* A decrease leaves target_cwnd at most half of the ring ahead.           *)
LEMMA DecreaseGrowth ==
    ASSUME RoomToGrow, RateInv, GrowthInv, Decrease
    PROVE  GrowthInv'
<1>1. /\ cwnd \in Nat /\ cwnd' \in Nat /\ target_cwnd' = cwnd /\ cwnd' <= cwnd
      /\ cwnd <= 2 * cwnd' + 1 /\ cwnd < Ring /\ Ring \in Nat
  BY DecreaseFacts, RingFacts DEF RateInv, RateTypeOK, GrowthInv
<1>2. \A c, d, r \in Nat : d <= c /\ c <= 2 * d + 1 /\ c < r => d < r /\ 2 * (c - d) <= r
  OBVIOUS
<1>3. cwnd' < Ring /\ 2 * (target_cwnd' - cwnd') <= Ring
  BY <1>1, <1>2
<1> QED BY <1>3 DEF GrowthInv, Ring

(* An increase starts below the ceiling and goes half of the way.          *)
LEMMA IncreaseGrowth ==
    ASSUME RoomToGrow, RateInv, GrowthInv, Increase
    PROVE  GrowthInv'
<1>1. CASE cwnd' = cwnd /\ target_cwnd' = target_cwnd
  BY <1>1 DEF GrowthInv, Ring
<1>2. CASE /\ cwnd < Ceiling
           /\ target_cwnd' <= target_cwnd + CC_AI
           /\ 2 * cwnd' <= target_cwnd' + cwnd
           /\ target_cwnd' + cwnd <= 2 * cwnd' + 1
  <2>1. /\ cwnd \in Nat /\ target_cwnd \in Nat /\ cwnd <= target_cwnd
        /\ cwnd' \in Nat /\ target_cwnd' \in Nat /\ cwnd' <= target_cwnd'
        /\ Ring \in Nat /\ Ceiling \in Nat /\ CC_AI \in Nat
    BY IncreaseFacts, RingFacts, RateConstants DEF RateInv, RateTypeOK, CwndInv
  <2>2. 4 * Ceiling + 2 * CC_AI <= 3 * Ring /\ Ceiling + CC_AI <= Ring
    BY DEF RoomToGrow
  <2>3. cwnd < Ring /\ (2 * (target_cwnd - cwnd) <= Ring \/ target_cwnd - cwnd <= CC_AI)
    BY DEF GrowthInv
  <2>4. \A c, t, c1, t1, r, e, a \in Nat :
          /\ c <= t /\ c1 <= t1 /\ c < e /\ t1 <= t + a
          /\ 2 * c1 <= t1 + c /\ t1 + c <= 2 * c1 + 1
          /\ 4 * e + 2 * a <= 3 * r /\ e + a <= r
          /\ 2 * (t - c) <= r \/ t - c <= a
          => c1 < r /\ (2 * (t1 - c1) <= r \/ t1 - c1 <= a)
    OBVIOUS
  <2>5. cwnd' < Ring /\ (2 * (target_cwnd' - cwnd') <= Ring \/ target_cwnd' - cwnd' <= CC_AI)
    BY <1>2, <2>1, <2>2, <2>3, <2>4
  <2> QED BY <2>5 DEF GrowthInv, Ring
<1> QED BY <1>1, <1>2, IncreaseFacts

LEMMA NextGrowth ==
    ASSUME RoomToGrow, RateInv, GrowthInv, [RateNext]_rateVars
    PROVE  GrowthInv'
<1>1. CASE cwnd' = cwnd /\ target_cwnd' = target_cwnd
  BY <1>1 DEF GrowthInv, Ring
<1>2. ASSUME NEW n \in 0 .. MAX_WIN_LEN, TxProcess(n) PROVE GrowthInv'
  <2>1. CASE FullRetrans
    <3>1. cwnd' = CwndInit * U /\ target_cwnd' = cwnd'
      BY <1>2, <2>1 DEF TxProcess, Reinit
    <3>2. cwnd' < Ring /\ 2 * (cwnd' - cwnd') <= Ring
      BY <3>1, ReinitGrowth
    <3> QED BY <3>1, <3>2 DEF GrowthInv, Ring
  <2>2. CASE ~FullRetrans
    BY <1>1, <1>2, <2>2 DEF TxProcess, ccVars
  <2> QED BY <2>1, <2>2
<1>3. CASE CongestionCtl
  <2>1. CASE UNCHANGED ccVars
    BY <1>1, <2>1 DEF ccVars
  <2> QED BY <1>3, <2>1, CtlCases, DecreaseGrowth, IncreaseGrowth
<1>4. CASE UNCHANGED rateVars
  BY <1>1, <1>4 DEF rateVars, ccVars
<1>5. ASSUME NEW d \in 0 .. MaxGap, RxAfter(d) PROVE GrowthInv'
  BY <1>1, <1>5 DEF RxAfter, RxProcess
<1>6. CASE Calm
  BY <1>1, <1>6 DEF Calm, ccVars
<1> QED BY <1>2, <1>3, <1>4, <1>5, <1>6 DEF RateNext

(* cwnd never falls below one packet and never reaches the length of the   *)
(* ring, although target_cwnd is not limited (the commented assertion of   *)
(* adjust_rate()), if the ring is a third larger than what the switch      *)
(* allows.                                                                 *)
THEOREM CwndBounded ==
    ASSUME RoomToGrow
    PROVE  RateSpec => []CwndInRange
<1>1. RateInit => GrowthInv
  <2> SUFFICES ASSUME RateInit PROVE GrowthInv
    OBVIOUS
  <2>1. cwnd = CwndInit * U /\ target_cwnd = cwnd
    BY DEF RateInit
  <2>2. cwnd < Ring /\ 2 * (cwnd - cwnd) <= Ring
    BY <2>1, ReinitGrowth
  <2> QED BY <2>1, <2>2 DEF GrowthInv
<1>2. RateInv /\ GrowthInv /\ [RateNext]_rateVars => GrowthInv'
  BY NextGrowth
<1>3. RateInv /\ GrowthInv => CwndInRange
  BY DEF RateInv, CwndInv, GrowthInv, CwndInRange, Ring
<1> QED BY <1>1, <1>2, <1>3, RateInvariance, PTL DEF RateSpec

-----------------------------------------------------------------------------
(* THE START OF THE DAEMON                                                 *)

-----------------------------------------------------------------------------
(* The loop over the processors.                                           *)

(* One round of the loop, with the list f[n - 1] the rounds before it made. *)
Round(f, s, n) ==
    IF n = 0 THEN <<>>
    ELSE IF SocketList[n] = s THEN Append(f[n - 1], n - 1)
    ELSE f[n - 1]

(* The recursive function of GetCpuListBySocket exists.                    *)
LEMMA ScanExists ==
    ASSUME NEW s
    PROVE  \E f : /\ f = [n \in 0 .. Len(SocketList) |-> Round(f, s, n)]
                  /\ GetCpuListBySocket(s) = f[Len(SocketList)]
<1> DEFINE N == Len(SocketList)
           T == {n \in Nat : \E f : f = [i \in 0 .. n |-> Round(f, s, i)]}
<1>1. N \in Nat
  BY DaemonAssumption
<1>2. 0 \in T
  <2> DEFINE f == [i \in 0 .. 0 |-> <<>>]
  <2>1. f = [i \in 0 .. 0 |-> Round(f, s, i)]
    BY DEF Round
  <2> QED BY <2>1
<1>3. ASSUME NEW n \in T PROVE n + 1 \in T
  <2>1. n \in Nat /\ n + 1 \in Nat
    OBVIOUS
  <2>2. PICK f : f = [i \in 0 .. n |-> Round(f, s, i)]
    OBVIOUS
  <2> DEFINE g == [i \in 0 .. n + 1 |-> IF i <= n THEN f[i] ELSE Round(f, s, i)]
  <2>3. ASSUME NEW i \in 0 .. n + 1 PROVE g[i] = Round(g, s, i)
    <3>1. i = 0 \/ (i - 1 \in 0 .. n /\ g[i - 1] = f[i - 1])
      BY <2>1
    <3>2. Round(g, s, i) = Round(f, s, i)
      BY <3>1 DEF Round
    <3>3. g[i] = Round(f, s, i)
      <4>1. CASE i <= n
        <5>1. i \in 0 .. n
          BY <2>1, <4>1
        <5>2. f[i] = Round(f, s, i)
          BY <2>2, <5>1
        <5> QED BY <5>2, <4>1
      <4>2. CASE ~ (i <= n)
        BY <4>2
      <4> QED BY <4>1, <4>2
    <3> QED BY <3>2, <3>3
  <2>4. g = [i \in 0 .. n + 1 |-> Round(g, s, i)]
    BY <2>3
  <2> HIDE DEF g
  <2> QED BY <2>1, <2>4
<1>4. N \in T
  <2>1. T \subseteq Nat
    OBVIOUS
  <2> HIDE DEF T
  <2> QED BY <1>1, <1>2, <1>3, <2>1, NatSetInduction
<1> DEFINE F == CHOOSE f : f = [n \in 0 .. Len(SocketList) |-> Round(f, s, n)]
<1>5. F = [n \in 0 .. Len(SocketList) |-> Round(F, s, n)]
  BY <1>4
<1>6. GetCpuListBySocket(s) = F[Len(SocketList)]
  BY Zenon DEF GetCpuListBySocket, Round
<1> QED BY <1>5, <1>6

(* A list of processors of socket s below n, in order.                     *)
Collected(list, s, n) ==
    /\ list \in Seq(Nat)
    /\ \A i \in 1 .. Len(list) :
          list[i] < n /\ list[i] \in Cpus /\ SocketList[list[i] + 1] = s
    /\ \A i, j \in 1 .. Len(list) : i < j => list[i] < list[j]

(* One more round adds the next processor, or nothing.                     *)
LEMMA CollectMore ==
    ASSUME NEW s, NEW n \in Nat, n < Len(SocketList),
           NEW list, Collected(list, s, n)
    PROVE  /\ Collected(list, s, n + 1)
           /\ SocketList[n + 1] = s => Collected(Append(list, n), s, n + 1)
<1>1. list \in Seq(Nat) /\ Len(list) \in Nat /\ Len(SocketList) \in Nat
  BY DaemonAssumption DEF Collected
<1>2. Collected(list, s, n + 1)
  BY <1>1 DEF Collected
<1>3. ASSUME SocketList[n + 1] = s PROVE Collected(Append(list, n), s, n + 1)
  <2> DEFINE new == Append(list, n)
  <2>1. /\ new \in Seq(Nat) /\ Len(new) = Len(list) + 1
        /\ \A i \in 1 .. Len(list) : new[i] = list[i]
        /\ new[Len(list) + 1] = n
    BY <1>1, AppendFacts
  <2> HIDE DEF new
  <2>2. ASSUME NEW i \in 1 .. Len(new)
        PROVE  /\ new[i] \in Nat /\ new[i] < n + 1 /\ new[i] \in Cpus
               /\ SocketList[new[i] + 1] = s
    <3>1. CASE i = Len(list) + 1
      BY <1>1, <1>3, <2>1, <3>1 DEF Cpus
    <3>2. CASE i \in 1 .. Len(list)
      <4>1. new[i] = list[i] /\ list[i] < n /\ list[i] \in Nat
        BY <1>1, <2>1, <3>2 DEF Collected
      <4> QED BY <4>1, <3>2 DEF Collected
    <3> QED BY <1>1, <2>1, <3>1, <3>2
  <2>3. ASSUME NEW i \in 1 .. Len(new), NEW j \in 1 .. Len(new), i < j
        PROVE  new[i] < new[j]
    <3>1. i \in 1 .. Len(list) /\ new[i] = list[i] /\ list[i] < n
      BY <1>1, <2>1, <2>3 DEF Collected
    <3>2. CASE j = Len(list) + 1
      BY <2>1, <3>1, <3>2
    <3>3. CASE j \in 1 .. Len(list)
      BY <2>1, <2>3, <3>1, <3>3 DEF Collected
    <3> QED BY <1>1, <2>1, <3>2, <3>3
  <2> QED BY <2>1, <2>2, <2>3 DEF Collected, new
<1> QED BY <1>2, <1>3

(* get_cpu_list_by_socket() lists processors of the socket, each once.     *)
LEMMA CpuListFacts ==
    ASSUME NEW s
    PROVE  Collected(GetCpuListBySocket(s), s, Len(SocketList))
<1> DEFINE N == Len(SocketList)
<1>1. N \in Nat
  BY DaemonAssumption
<1>2. PICK f : /\ f = [n \in 0 .. N |-> Round(f, s, n)]
               /\ GetCpuListBySocket(s) = f[N]
  BY ScanExists
<1> DEFINE T == {n \in Nat : n <= N => Collected(f[n], s, n)}
<1>3. 0 \in T
  <2>1. f[0] = <<>>
    BY <1>1, <1>2 DEF Round
  <2>2. Collected(<<>>, s, 0)
    BY DEF Collected
  <2>3. Collected(f[0], s, 0)
    BY <2>1, <2>2
  <2> QED BY <2>3
<1>4. ASSUME NEW n \in T PROVE n + 1 \in T
  <2>1. SUFFICES ASSUME n + 1 <= N PROVE Collected(f[n + 1], s, n + 1)
    OBVIOUS
  <2>2. n \in Nat /\ n < N /\ n + 1 \in 0 .. N /\ n + 1 # 0 /\ (n + 1) - 1 = n
    BY <1>1, <2>1
  <2>3. Collected(f[n], s, n)
    BY <2>2, <1>1
  <2>4. f[n + 1] = Round(f, s, n + 1)
    BY <1>2, <2>2
  <2>5. f[n + 1] = IF SocketList[n + 1] = s THEN Append(f[n], n) ELSE f[n]
    BY <2>2, <2>4 DEF Round
  <2> QED BY <2>2, <2>3, <2>5, CollectMore
<1>5. N \in T
  <2>1. T \subseteq Nat
    OBVIOUS
  <2> HIDE DEF T
  <2> QED BY <1>1, <1>3, <1>4, <2>1, NatSetInduction
<1> QED BY <1>1, <1>2, <1>5

(* cpu_list_on_node() gives each thread a processor of its own.            *)
LEMMA CpuListOnNodeFacts ==
    ASSUME NEW s, nthread \in Int, CpuListOnNode(s) # <<>>
    PROVE  /\ CpuListOnNode(s) \in Seq(Cpus) /\ Len(CpuListOnNode(s)) = nthread
           /\ nthread > 0
           /\ IsInjective(CpuListOnNode(s))
           /\ \A i \in 1 .. nthread : SocketList[CpuListOnNode(s)[i] + 1] = s
<1> DEFINE g   == GetCpuListBySocket(s)
           nl   == Len(g)
           all == Reverse(g)
           r   == CpuListOnNode(s)
<1>1. Collected(g, s, Len(SocketList))
  BY CpuListFacts
<1>2. g \in Seq(Nat) /\ nl \in Nat
  BY <1>1 DEF Collected
<1>3. \A i \in 1 .. nl : g[i] \in Cpus /\ SocketList[g[i] + 1] = s
  BY <1>1 DEF Collected
<1>4. \A i, j \in 1 .. nl : i < j => g[i] < g[j]
  BY <1>1 DEF Collected
<1> HIDE DEF g
<1>5. all = [i \in 1 .. nl |-> g[(nl - i) + 1]]
  BY DEF Reverse
<1>6. \A i \in 1 .. nl : (nl - i) + 1 \in 1 .. nl
  BY <1>2
<1>7. all \in Seq(Cpus) /\ Len(all) = nl
  <2>1. \A i \in 1 .. nl : g[(nl - i) + 1] \in Cpus
    BY <1>3, <1>6
  <2> HIDE DEF nl
  <2> QED BY <1>2, <1>5, <2>1
<1>8. nthread > 0 /\ nthread <= nl /\ r = SubSeq(all, 1, nthread)
  BY <1>7 DEF CpuListOnNode, g
<1>9. /\ r \in Seq(Cpus) /\ Len(r) = nthread
      /\ \A i \in 1 .. nthread : r[i] = all[i]
  <2>1. nthread \in Nat
    BY <1>8
  <2>2. /\ SubSeq(all, 1, nthread) \in Seq(Cpus)
        /\ Len(SubSeq(all, 1, nthread)) = nthread - 1 + 1
        /\ \A i \in 1 .. nthread - 1 + 1 : SubSeq(all, 1, nthread)[i] = all[1 + i - 1]
    <3> HIDE DEF all, nl
    <3> QED BY <1>2, <1>7, <1>8, <2>1, SubSeqFacts
  <2> HIDE DEF all, nl, r
  <2> QED BY <1>8, <2>1, <2>2
<1>10. \A i \in 1 .. nthread : i \in 1 .. nl /\ r[i] = g[(nl - i) + 1]
  <2> HIDE DEF r, nl, all
  <2> QED BY <1>2, <1>5, <1>8, <1>9
<1> HIDE DEF r, nl, all
<1>11. \A i \in 1 .. nthread : SocketList[r[i] + 1] = s
  BY <1>3, <1>6, <1>10
<1>12. ASSUME NEW i \in 1 .. nthread, NEW j \in 1 .. nthread, i < j
       PROVE  r[i] # r[j]
  <2>1. i \in 1 .. nl /\ j \in 1 .. nl
    BY <1>10
  <2>2. (nl - j) + 1 < (nl - i) + 1 /\ (nl - i) + 1 \in 1 .. nl /\ (nl - j) + 1 \in 1 .. nl
    BY <1>2, <1>12, <2>1, <1>6
  <2>3. g[(nl - j) + 1] < g[(nl - i) + 1]
    BY <2>2, <1>4
  <2>4. g[(nl - j) + 1] \in Nat /\ g[(nl - i) + 1] \in Nat
    BY <1>2, <2>2 DEF nl
  <2> QED BY <1>10, <2>3, <2>4
<1>13. IsInjective(r)
  <2>1. DOMAIN r = 1 .. nthread
    BY <1>9
  <2>2. \A i, j \in 1 .. nthread : r[i] = r[j] => i = j
    <3>1. \A i, j \in 1 .. nthread : i < j \/ j < i \/ i = j
      BY <1>8
    <3> QED BY <3>1, <1>12
  <2> QED BY <2>1, <2>2 DEF IsInjective
<1> QED BY <1>8, <1>9, <1>11, <1>13 DEF r

-----------------------------------------------------------------------------
(* The invariant.                                                          *)

(* The rules of the first n queues are installed.                          *)
RulesUpTo(n) == \A q \in 0 .. n - 1 : QueueRule(q) \in rules

(* Nothing is launched before flow_init() has installed all rules.         *)
StageInv ==
    /\ stage \in {"cpus", "port", "rules"} => launched = {} /\ thread_ctx = {}
    /\ stage = "cpus" => cpu_list = <<>>
    /\ stage \in {"cpus", "port"} => queue_id = 0
    /\ stage = "rules" => RulesUpTo(queue_id)
    /\ stage \in {"launch", "balance"} \/ launched # {} => RulesUpTo(nworker)

StartInv ==
    /\ TypeOK
    /\ rx_queue \in [Worker -> Seq(Packet)] /\ received \in [Worker -> Seq(Packet)]
    /\ sent \in [Worker -> Nat]
    /\ CpusOnSocket
    /\ StageInv

LEMMA DaemonConstants ==
    /\ Tags \in Nat /\ Tags >= 1 /\ MaxStray \in Nat /\ MaxSend \in Nat
    /\ 0 \in Worker /\ Worker \subseteq Nat
    /\ \A n \in ThreadArgs : n \in Int /\ n - 1 <= Tags
BY DaemonAssumption DEF Worker

(* A worker's tag is its number.                                           *)
LEMMA TagIsNumber == \A w \in Worker : TagOf(w) = w
BY DaemonConstants DEF Worker, TagOf

LEMMA PacketTypes ==
    /\ Stray \subseteq Packet
    /\ \A w \in Worker, mark \in Marks : Answer(w, mark) \in Packet
<1>1. Stray \subseteq Packet
  BY DEF Stray, Packet, Marks
<1>2. ASSUME NEW w \in Worker, NEW mark \in Marks PROVE Answer(w, mark) \in Packet
  <2>1. TagOf(w) \in 0 .. Tags - 1
    BY TagIsNumber DEF Worker
  <2> QED BY <2>1 DEF Answer, Packet
<1> QED BY <1>1, <1>2

(* The queues there are rules for are queues of workers.                   *)
LEMMA QueuesAreWorkers ==
    ASSUME StartInv
    PROVE  /\ nthread \in Int /\ nworker \in Int /\ nworker <= Tags
           /\ 0 .. nworker - 1 \subseteq Worker /\ queue_id \in Nat
BY DaemonConstants DEF StartInv, TypeOK, nworker, Worker

(* The NIC puts a packet into a queue or drops it, and puts it into a      *)
(* queue only if its rule matches or no rule does.                         *)
LEMMA TargetFacts ==
    ASSUME StartInv, NEW p, NEW q \in Targets(p), q # NoWorker
    PROVE  /\ q \in Worker
           /\ \/ \A r \in rules : ~Matches(r, p)
              \/ p.netccl /\ p.tag = TagOf(q)
<1> DEFINE hits == {r \in rules : Matches(r, p)}
<1>1. CASE hits = {}
  <2>1. q = 0
    BY <1>1 DEF Targets
  <2> QED BY <1>1, <2>1, DaemonConstants
<1>2. CASE hits # {}
  <2>1. PICK r \in rules : Matches(r, p) /\ q = r.target
    BY <1>2 DEF Targets
  <2>2. r # DropRule
    BY <2>1 DEF DropRule
  <2>3. PICK k \in 0 .. nworker - 1 : r = QueueRule(k)
    BY <2>2 DEF StartInv, TypeOK
  <2>4. r.target = k /\ r.tag = TagOf(k)
    BY <2>3 DEF QueueRule
  <2>5. k \in Worker /\ TagOf(k) = k /\ k \in Nat
    BY QueuesAreWorkers, TagIsNumber, DaemonConstants
  <2>6. r.tag # -1
    BY <2>4, <2>5
  <2>7. p.netccl /\ p.tag = r.tag
    BY <2>1, <2>6 DEF Matches
  <2> QED BY <2>1, <2>4, <2>5, <2>7
<1> QED BY <1>1, <1>2

-----------------------------------------------------------------------------
(* Every action keeps the invariant.                                       *)

LEMMA InitStart == Init => StartInv
<1> SUFFICES ASSUME Init PROVE StartInv
  OBVIOUS
<1>1. TypeOK
  <2>1. /\ nthread \in ThreadArgs /\ shm \in BOOLEAN
        /\ stage \in {"cpus", "port", "rules", "launch", "balance", "dead"}
        /\ port_started \in BOOLEAN /\ drop \in BOOLEAN
        /\ thread_ctx \subseteq 0 .. nworker - 1 /\ launched \subseteq thread_ctx
        /\ rules \subseteq {DropRule} \cup {QueueRule(q) : q \in 0 .. nworker - 1}
        /\ flying \subseteq Packet
    BY DEF Init
  <2>2. queue_id \in 0 .. Tags /\ cpu_list \in Seq(Cpus)
    BY DaemonConstants DEF Init
  <2>3. \A w \in Worker : rx_queue[w] \in Seq(Packet) /\ received[w] \in Seq(Packet)
    BY DEF Init
  <2> QED BY <2>1, <2>2, <2>3 DEF TypeOK
<1>2. rx_queue \in [Worker -> Seq(Packet)] /\ received \in [Worker -> Seq(Packet)]
  BY DEF Init
<1>3. sent \in [Worker -> Nat] /\ CpusOnSocket
  BY DEF Init, CpusOnSocket
<1>4. StageInv
  BY DEF Init, StageInv
<1> QED BY <1>1, <1>2, <1>3, <1>4 DEF StartInv

LEMMA DieStart == ASSUME StartInv, Die PROVE StartInv'
<1>1. TypeOK'
  BY DEF StartInv, Die, TypeOK, startVars, netVars, nworker
<1>2. CpusOnSocket'
  BY DEF StartInv, Die, CpusOnSocket, startVars
<1>3. StageInv'
  BY DEF StartInv, Die, StageInv, startVars, RulesUpTo, nworker
<1> QED BY <1>1, <1>2, <1>3 DEF StartInv, Die, netVars

LEMMA FindCpusStart == ASSUME StartInv, FindCpus PROVE StartInv'
<1> DEFINE dev  == GetDevByIp(bind_addr)
           pci  == GetPciByDev(dev)
           node == GetSocketByPci(pci)
           list == CpuListOnNode(node)
<1>1. CASE dev = "" \/ pci = "" \/ node = -1 \/ list = <<>>
  <2>1. Die
    BY <1>1 DEF FindCpus
  <2> QED BY <2>1, DieStart
<1>2. CASE ~ (dev = "" \/ pci = "" \/ node = -1 \/ list = <<>>)
  <2>1. /\ stage = "cpus" /\ stage' = "port" /\ cpu_list' = list
        /\ UNCHANGED <<nthread, shm, port_started, rules, drop, queue_id,
                       thread_ctx, launched, netVars>>
    BY <1>2 DEF FindCpus
  <2>2. dev = DevOf[bind_addr]
    BY <1>2 DEF GetDevByIp, Lookup
  <2>3. pci = PciOf[dev]
    BY <1>2 DEF GetPciByDev, Lookup
  <2>4. node = NodeOf[pci]
    BY <1>2 DEF GetSocketByPci, Lookup
  <2>5. node = NodeOf[PciOf[DevOf[bind_addr]]]
    BY <2>2, <2>3, <2>4
  <2> HIDE DEF node, pci, dev
  <2>6. /\ list \in Seq(Cpus) /\ Len(list) = nthread /\ IsInjective(list)
        /\ \A i \in 1 .. nthread : SocketList[list[i] + 1] = node
    BY <1>2, QueuesAreWorkers, CpuListOnNodeFacts
  <2> HIDE DEF list
  <2>7. TypeOK'
    BY <2>1, <2>6 DEF StartInv, TypeOK, nworker, netVars
  <2>8. CpusOnSocket'
    BY <2>1, <2>5, <2>6 DEF CpusOnSocket
  <2>9. StageInv'
    BY <2>1 DEF StartInv, StageInv
  <2> QED BY <2>1, <2>7, <2>8, <2>9 DEF StartInv, netVars
<1> QED BY <1>1, <1>2

LEMMA PortInitStart == ASSUME StartInv, PortInit PROVE StartInv'
<1> USE DEF PortInit
<1>1. TypeOK'
  BY DEF StartInv, TypeOK, nworker, netVars
<1>2. CpusOnSocket'
  BY DEF StartInv, CpusOnSocket
<1>3. StageInv'
  BY DEF StartInv, StageInv, RulesUpTo
<1> QED BY <1>1, <1>2, <1>3 DEF StartInv, netVars

LEMMA FlowInitQueueStart == ASSUME StartInv, FlowInitQueue PROVE StartInv'
<1>1. /\ stage = "rules" /\ queue_id < nworker /\ drop' = FALSE
      /\ UNCHANGED <<nthread, shm, cpu_list, port_started, thread_ctx, launched, netVars>>
      /\ rules \subseteq rules'
      /\ rules' \subseteq rules \cup {DropRule, QueueRule(queue_id)}
      /\ \/ /\ queue_id' = queue_id + 1 /\ stage' = stage
            /\ QueueRule(queue_id) \in rules'
         \/ stage' = "dead" /\ queue_id' = queue_id
  BY DEF FlowInitQueue
<1>2. /\ queue_id \in Nat /\ nworker \in Int /\ nworker <= Tags /\ Tags \in Nat
      /\ queue_id \in 0 .. nworker - 1 /\ queue_id' \in 0 .. Tags
  BY <1>1, QueuesAreWorkers, DaemonConstants
<1>3. TypeOK'
  <2>1. rules' \subseteq {DropRule} \cup {QueueRule(q) : q \in 0 .. nworker - 1}
    BY <1>1, <1>2 DEF StartInv, TypeOK
  <2>2. nworker' = nworker
    BY <1>1 DEF nworker
  <2> QED BY <1>1, <1>2, <2>1, <2>2 DEF StartInv, TypeOK, netVars
<1>4. CpusOnSocket'
  BY <1>1 DEF StartInv, CpusOnSocket
<1>5. StageInv'
  <2>1. launched = {} /\ thread_ctx = {} /\ RulesUpTo(queue_id)
    BY <1>1 DEF StartInv, StageInv
  <2>2. CASE stage' = "dead"
    BY <1>1, <2>1, <2>2 DEF StageInv
  <2>3. CASE queue_id' = queue_id + 1 /\ stage' = stage /\ QueueRule(queue_id) \in rules'
    <3>1. \A q \in 0 .. queue_id' - 1 : q \in 0 .. queue_id - 1 \/ q = queue_id
      BY <1>2, <2>3
    <3>2. RulesUpTo(queue_id)'
      BY <1>1, <2>1, <2>3, <3>1 DEF RulesUpTo
    <3> QED BY <1>1, <2>1, <2>3, <3>2 DEF StageInv
  <2> QED BY <1>1, <2>2, <2>3
<1> QED BY <1>1, <1>3, <1>4, <1>5 DEF StartInv, netVars

LEMMA FlowInitDoneStart == ASSUME StartInv, FlowInitDone PROVE StartInv'
<1> USE DEF FlowInitDone
<1>1. TypeOK'
  BY DaemonConstants DEF StartInv, TypeOK, nworker, netVars
<1>2. CpusOnSocket'
  BY DEF StartInv, CpusOnSocket
<1>3. StageInv'
  <2>1. RulesUpTo(queue_id) /\ launched = {} /\ thread_ctx = {}
    BY DEF StartInv, StageInv
  <2>2. \A q \in 0 .. nworker - 1 : q \in 0 .. queue_id - 1
    BY QueuesAreWorkers
  <2>3. RulesUpTo(nworker)
    BY <2>1, <2>2 DEF RulesUpTo
  <2>4. RulesUpTo(nworker)'
    BY <2>3 DEF RulesUpTo, nworker
  <2> QED BY <2>1, <2>4 DEF StageInv
<1> QED BY <1>1, <1>2, <1>3 DEF StartInv, netVars

LEMMA FillContextStart == ASSUME StartInv, FillContext PROVE StartInv'
<1> USE DEF FillContext
<1>1. TypeOK'
  <2>1. queue_id \in 0 .. nworker - 1 /\ nworker' = nworker
    BY QueuesAreWorkers DEF nworker
  <2> QED BY <2>1 DEF StartInv, TypeOK, netVars
<1>2. CpusOnSocket'
  BY DEF StartInv, CpusOnSocket
<1>3. StageInv'
  BY DEF StartInv, StageInv, RulesUpTo, nworker
<1> QED BY <1>1, <1>2, <1>3 DEF StartInv, netVars

LEMMA RemoteLaunchStart == ASSUME StartInv, RemoteLaunch PROVE StartInv'
<1> USE DEF RemoteLaunch
<1>1. TypeOK'
  <2>1. queue_id' \in 0 .. Tags /\ nworker' = nworker
    BY QueuesAreWorkers, DaemonConstants DEF nworker
  <2> QED BY <2>1 DEF StartInv, TypeOK, netVars
<1>2. CpusOnSocket'
  BY DEF StartInv, CpusOnSocket
<1>3. StageInv'
  BY DEF StartInv, StageInv, RulesUpTo, nworker
<1> QED BY <1>1, <1>2, <1>3 DEF StartInv, netVars

LEMMA ShmInitStart == ASSUME StartInv, ShmInit PROVE StartInv'
<1> USE DEF ShmInit
<1>1. TypeOK'
  BY DEF StartInv, TypeOK, nworker, netVars, startVars
<1>2. CpusOnSocket'
  BY DEF StartInv, CpusOnSocket, startVars
<1>3. StageInv'
  BY DEF StartInv, StageInv, RulesUpTo, nworker, startVars
<1> QED BY <1>1, <1>2, <1>3 DEF StartInv, netVars

(* What happens to packets leaves the start-up alone.                      *)
LEMMA NetKeepsStart ==
    ASSUME StartInv, UNCHANGED <<stage, startVars>>, shm' \in BOOLEAN,
           rx_queue' \in [Worker -> Seq(Packet)],
           received' \in [Worker -> Seq(Packet)],
           sent' \in [Worker -> Nat], flying' \subseteq Packet
    PROVE  StartInv'
<1>1. TypeOK'
  BY DEF StartInv, TypeOK, nworker, startVars
<1>2. CpusOnSocket'
  BY DEF StartInv, CpusOnSocket, startVars
<1>3. StageInv'
  BY DEF StartInv, StageInv, RulesUpTo, nworker, startVars
<1> QED BY <1>1, <1>2, <1>3 DEF StartInv

LEMMA NicReceiveStart ==
    ASSUME StartInv, NEW p \in flying, NicReceive(p) PROVE StartInv'
<1>1. p \in Packet /\ rx_queue \in [Worker -> Seq(Packet)]
  BY DEF StartInv, TypeOK
<1>2. PICK q \in Targets(p) :
        rx_queue' = IF q = NoWorker THEN rx_queue
                    ELSE [rx_queue EXCEPT ![q] = Append(@, p)]
  BY DEF NicReceive
<1>3. q # NoWorker => q \in Worker
  BY TargetFacts
<1>4. rx_queue' \in [Worker -> Seq(Packet)]
  BY <1>1, <1>2, <1>3
<1> QED BY <1>4, NetKeepsStart DEF NicReceive, StartInv, TypeOK

LEMMA StrayArrivesStart ==
    ASSUME StartInv, NEW p \in Stray, StrayArrives(p) PROVE StartInv'
BY PacketTypes, NetKeepsStart DEF StrayArrives, StartInv, TypeOK

LEMMA WorkerSendStart ==
    ASSUME StartInv, NEW w \in Worker, WorkerSend(w) PROVE StartInv'
<1>1. flying' \subseteq Packet
  BY PacketTypes DEF WorkerSend, StartInv, TypeOK
<1>2. sent' \in [Worker -> Nat]
  BY DEF WorkerSend, StartInv
<1> QED BY <1>1, <1>2, NetKeepsStart DEF WorkerSend, StartInv, TypeOK

LEMMA WorkerPollStart ==
    ASSUME StartInv, NEW w \in Worker, WorkerPoll(w) PROVE StartInv'
<1>1. rx_queue[w] \in Seq(Packet) /\ received[w] \in Seq(Packet) /\ rx_queue[w] # <<>>
  BY DEF WorkerPoll, StartInv
<1>2. Tail(rx_queue[w]) \in Seq(Packet) /\ Head(rx_queue[w]) \in Packet
  BY <1>1, TailFacts
<1>3. Append(received[w], Head(rx_queue[w])) \in Seq(Packet)
  BY <1>1, <1>2
<1>4. rx_queue' \in [Worker -> Seq(Packet)] /\ received' \in [Worker -> Seq(Packet)]
  BY <1>2, <1>3 DEF WorkerPoll, StartInv
<1> QED BY <1>4, NetKeepsStart DEF WorkerPoll, StartInv, TypeOK

LEMMA NextStart == StartInv /\ [Next]_vars => StartInv'
<1> SUFFICES ASSUME StartInv, [Next]_vars PROVE StartInv'
  OBVIOUS
<1>1. CASE Main
  BY <1>1, FindCpusStart, PortInitStart, FlowInitQueueStart, FlowInitDoneStart,
     FillContextStart, RemoteLaunchStart, ShmInitStart DEF Main
<1>2. CASE FrontEnd
  BY <1>2, NetKeepsStart DEF FrontEnd, StartInv, TypeOK, netVars
<1>3. ASSUME NEW p \in flying, NicReceive(p) PROVE StartInv'
  BY <1>3, NicReceiveStart
<1>4. ASSUME NEW p \in Stray, StrayArrives(p) PROVE StartInv'
  BY <1>4, StrayArrivesStart
<1>5. ASSUME NEW w \in Worker, WorkerSend(w) \/ WorkerPoll(w) PROVE StartInv'
  BY <1>5, WorkerSendStart, WorkerPollStart
<1>6. CASE UNCHANGED vars
  BY <1>6, NetKeepsStart DEF vars, netVars, StartInv, TypeOK
<1> QED BY <1>1, <1>2, <1>3, <1>4, <1>5, <1>6 DEF Next

LEMMA StartInvariance == Spec => []StartInv
BY InitStart, NextStart, PTL DEF Spec

-----------------------------------------------------------------------------
(* The rules of a launched worker are there and no other rule of the best  *)
(* priority matches its answers.                                           *)
LEMMA InvImpliesSteered == StartInv => SteeredHome
<1> SUFFICES ASSUME StartInv, NEW w \in launched
             PROVE  w \in thread_ctx /\ \A mark \in Marks : Targets(Answer(w, mark)) = {w}
  BY DEF SteeredHome, StartInv
<1>1. w \in thread_ctx /\ w \in 0 .. nworker - 1
  BY DEF StartInv, TypeOK
<1>2. QueueRule(w) \in rules
  BY <1>1 DEF StartInv, StageInv, RulesUpTo
<1>3. \A q \in 0 .. nworker - 1 : q \in Nat /\ TagOf(q) = q
  BY QueuesAreWorkers, TagIsNumber, DaemonConstants
<1>4. ASSUME NEW mark \in Marks PROVE Targets(Answer(w, mark)) = {w}
  <2> DEFINE p    == Answer(w, mark)
             hits == {r \in rules : Matches(r, p)}
             best == {r \in hits : \A s \in hits : r.priority <= s.priority}
  <2>1. p.netccl = TRUE /\ p.tag = w
    BY <1>1, <1>3 DEF Answer
  <2> HIDE DEF p
  <2>2. QueueRule(w) \in hits
    BY <1>1, <1>2, <1>3, <2>1 DEF Matches, QueueRule
  <2>3. ASSUME NEW r \in hits PROVE r = QueueRule(w) \/ r = DropRule
    <3>1. CASE r # DropRule
      <4>1. PICK k \in 0 .. nworker - 1 : r = QueueRule(k)
        BY <3>1 DEF StartInv, TypeOK
      <4>2. r.tag = k /\ k # -1
        BY <1>3, <4>1 DEF QueueRule
      <4>3. k = w
        BY <2>1, <4>2 DEF Matches
      <4> QED BY <4>1, <4>3
    <3> QED BY <3>1
  <2>4. QueueRule(w).priority = 0 /\ DropRule.priority = 1 /\ QueueRule(w).target = w
    BY DEF QueueRule, DropRule
  <2>5. best = {QueueRule(w)}
    <3> HIDE DEF hits
    <3> QED BY <2>2, <2>3, <2>4
  <2>6. Targets(p) = {r.target : r \in best}
    BY <2>2 DEF Targets
  <2> HIDE DEF best
  <2> QED BY <2>4, <2>5, <2>6 DEF p
<1> QED BY <1>1, <1>4

(* Each thread of a daemon that went past its look-up has a processor of   *)
(* its own on the socket of the NIC (main.cpp cpu_list_on_node).           *)
THEOREM ThreadsHaveCpus == Spec => []CpusOnSocket
<1>1. StartInv => CpusOnSocket
  BY DEF StartInv
<1> QED BY <1>1, StartInvariance, PTL

(* From its launch on, the NIC sends a worker's answers to its queue and   *)
(* to no other, marked or not (main.cpp flow_init, the launch loop).       *)
THEOREM AnswersFindWorker == Spec => []SteeredHome
BY InvImpliesSteered, StartInvariance, PTL

(* If the rule that drops the rest is installed, a worker's queue gets     *)
(* NetCCL packets with its tag only (main.cpp flow_init_queue).            *)
THEOREM NothingForeignArrives == Spec => OnlyOwnArrive
<1> DEFINE Own == launched # {} /\ DropRule \in rules =>
                    \A w \in Worker : Len(rx_queue'[w]) > Len(rx_queue[w]) =>
                       LET p == rx_queue'[w][Len(rx_queue'[w])]
                       IN  p.netccl /\ p.tag = TagOf(w)
<1>1. StartInv /\ [Next]_vars => [Own]_vars
  <2> SUFFICES ASSUME StartInv, Next, DropRule \in rules, NEW w \in Worker,
                      Len(rx_queue'[w]) > Len(rx_queue[w])
               PROVE  LET p == rx_queue'[w][Len(rx_queue'[w])]
                      IN  p.netccl /\ p.tag = TagOf(w)
    OBVIOUS
  <2>1. rx_queue \in [Worker -> Seq(Packet)] /\ Len(rx_queue[w]) \in Nat
    BY DEF StartInv
  <2>2. ASSUME rx_queue' = rx_queue PROVE FALSE
    BY <2>1, <2>2
  <2>3. ~ (Main \/ FrontEnd)
    BY <2>2 DEF Main, FrontEnd, FindCpus, Die, PortInit, FlowInitQueue, FlowInitDone,
                FillContext, RemoteLaunch, ShmInit, netVars
  <2>4. ASSUME NEW v \in Worker, WorkerPoll(v) PROVE FALSE
    <3>1. rx_queue[v] \in Seq(Packet) /\ rx_queue[v] # <<>>
          /\ rx_queue' = [rx_queue EXCEPT ![v] = Tail(@)]
      BY <2>1, <2>4 DEF WorkerPoll
    <3>2. Len(Tail(rx_queue[v])) = Len(rx_queue[v]) - 1 /\ Len(rx_queue[v]) \in Nat
      BY <3>1, TailFacts
    <3>3. rx_queue'[w] = IF w = v THEN Tail(rx_queue[v]) ELSE rx_queue[w]
      BY <2>1, <3>1
    <3> QED BY <2>1, <3>2, <3>3
  <2>5. PICK p \in flying : NicReceive(p)
    BY <2>2, <2>3, <2>4 DEF Next, StrayArrives, WorkerSend
  <2>6. PICK q \in Targets(p) :
          rx_queue' = IF q = NoWorker THEN rx_queue
                      ELSE [rx_queue EXCEPT ![q] = Append(@, p)]
    BY <2>5 DEF NicReceive
  <2>7. q # NoWorker
    BY <2>2, <2>6
  <2>8. Matches(DropRule, p)
    BY DEF Matches, DropRule
  <2>9. p.netccl /\ p.tag = TagOf(q) /\ q \in Worker
    BY <2>7, <2>8, TargetFacts
  <2>10. q = w /\ rx_queue'[w] = Append(rx_queue[w], p)
    BY <2>1, <2>6, <2>7, <2>9
  <2>11. rx_queue'[w][Len(rx_queue'[w])] = p
    <3>1. rx_queue[w] \in Seq(Packet) /\ p \in Packet
      BY <2>1 DEF StartInv, TypeOK
    <3> QED BY <2>10, <3>1, AppendFacts
  <2> QED BY <2>9, <2>10, <2>11
<1> QED BY <1>1, StartInvariance, PTL DEF Spec, OnlyOwnArrive

-----------------------------------------------------------------------------
(* BYTES OF A PACKET                                                       *)

-----------------------------------------------------------------------------
(* Numbers and their digits.                                               *)

Digit(f, d, k) == IF k = 0 THEN 0 ELSE Base * f[k - 1] + d[k - 1]

(* f computes the number with digits d, up to n digits.                    *)
Computes(f, d, n) == n \in Nat /\ f = [k \in 0 .. n |-> Digit(f, d, k)]

LEMMA PayloadConstants ==
    /\ Base \in Nat \ {0} /\ Base >= 2 /\ WORD \in Nat \ {0}
    /\ PAYLOAD_LEN \in Nat \ {0} /\ Spare \in Nat /\ IsFiniteSet(Rank)
    /\ PAYLOAD_SIZE \in Nat \ {0} /\ PAYLOAD_SIZE = PAYLOAD_LEN * WORD
<1>1. Base \in Nat /\ Base # 0 /\ Base # 1
  BY PayloadAssumption
<1>2. Base >= 2
  BY <1>1
<1>3. \A a, b \in Nat \ {0} : a * b \in Nat \ {0}
  OBVIOUS
<1>4. PAYLOAD_LEN \in Nat \ {0} /\ WORD \in Nat \ {0}
  BY PayloadAssumption
<1>5. PAYLOAD_SIZE \in Nat \ {0} /\ PAYLOAD_SIZE = PAYLOAD_LEN * WORD
  BY <1>3, <1>4 DEF PAYLOAD_SIZE
<1> QED BY <1>1, <1>2, <1>5, PayloadAssumption

(* The recursive function of Value exists.                                 *)
LEMMA ValueExists ==
    ASSUME NEW d
    PROVE  \A n \in Nat : \E f : f = [k \in 0 .. n |-> Digit(f, d, k)]
<1> DEFINE T == {n \in Nat : \E f : f = [k \in 0 .. n |-> Digit(f, d, k)]}
<1>1. 0 \in T
  <2> DEFINE f == [k \in 0 .. 0 |-> 0]
  <2>1. f = [k \in 0 .. 0 |-> Digit(f, d, k)]
    BY DEF Digit
  <2> QED BY <2>1
<1>2. ASSUME NEW n \in T PROVE n + 1 \in T
  <2>1. n \in Nat /\ n + 1 \in Nat
    OBVIOUS
  <2>2. PICK f : f = [k \in 0 .. n |-> Digit(f, d, k)]
    OBVIOUS
  <2> DEFINE g == [k \in 0 .. n + 1 |-> IF k <= n THEN f[k] ELSE Digit(f, d, k)]
  <2>3. ASSUME NEW k \in 0 .. n + 1 PROVE g[k] = Digit(g, d, k)
    <3>1. k = 0 \/ (k - 1 \in 0 .. n /\ g[k - 1] = f[k - 1])
      BY <2>1
    <3>2. Digit(g, d, k) = Digit(f, d, k)
      BY <3>1 DEF Digit
    <3>3. g[k] = Digit(f, d, k)
      <4>1. CASE k <= n
        <5>1. k \in 0 .. n
          BY <2>1, <4>1
        <5>2. f[k] = Digit(f, d, k)
          BY <2>2, <5>1
        <5> QED BY <5>2, <4>1
      <4>2. CASE ~ (k <= n)
        BY <4>2
      <4> QED BY <4>1, <4>2
    <3> QED BY <3>2, <3>3
  <2>4. g = [k \in 0 .. n + 1 |-> Digit(g, d, k)]
    BY <2>3
  <2> HIDE DEF g
  <2> QED BY <2>1, <2>4
<1>3. T \subseteq Nat
  OBVIOUS
<1>4. \A n \in Nat : n \in T
  <2> HIDE DEF T
  <2> QED BY <1>1, <1>2, <1>3, NatSetInduction
<1> QED BY <1>4

(* Such a function is the same on what two of them have in common, also    *)
(* for two numbers with the same leading digits.                           *)
LEMMA ValueAgree ==
    ASSUME NEW d, NEW e, NEW m, NEW n, NEW f, NEW g,
           Computes(f, d, m), Computes(g, e, n), m <= n,
           \A k \in 0 .. m - 1 : d[k] = e[k]
    PROVE  f[m] = g[m]
<1> USE DEF Computes
<1> DEFINE T == {k \in Nat : k <= m => f[k] = g[k]}
<1>1. 0 \in T
  <2>1. 0 \in 0 .. m /\ 0 \in 0 .. n
    OBVIOUS
  <2>2. f[0] = Digit(f, d, 0) /\ g[0] = Digit(g, e, 0)
    BY <2>1
  <2> QED BY <2>2 DEF Digit
<1>2. ASSUME NEW k \in T PROVE k + 1 \in T
  <2>1. SUFFICES ASSUME k + 1 <= m PROVE f[k + 1] = g[k + 1]
    OBVIOUS
  <2>2. k \in Nat /\ k + 1 \in 0 .. m /\ k + 1 \in 0 .. n /\ k \in 0 .. m - 1 /\ k <= m
    BY <2>1
  <2>3. f[k + 1] = Digit(f, d, k + 1) /\ g[k + 1] = Digit(g, e, k + 1)
    BY <2>2
  <2>4. k + 1 # 0 /\ (k + 1) - 1 = k
    BY <2>2
  <2>5. f[k] = g[k] /\ d[k] = e[k]
    BY <2>2
  <2> QED BY <2>3, <2>4, <2>5 DEF Digit
<1>3. T \subseteq Nat
  OBVIOUS
<1>4. \A k \in Nat : k \in T
  <2> HIDE DEF T
  <2> QED BY <1>1, <1>2, <1>3, NatSetInduction
<1> QED BY <1>4

LEMMA ValueIs ==
    ASSUME NEW d, NEW n \in Nat
    PROVE  \E f : Computes(f, d, n) /\ Value(d, n) = f[n]
<1> DEFINE F == CHOOSE f : f = [k \in 0 .. n |-> Digit(f, d, k)]
<1>1. F = [k \in 0 .. n |-> Digit(F, d, k)]
  BY ValueExists
<1>2. Value(d, n) = F[n]
  BY Zenon DEF Value, Digit
<1> QED BY <1>1, <1>2 DEF Computes

LEMMA ValueSame ==
    ASSUME NEW d, NEW e, NEW n \in Nat, \A k \in 0 .. n - 1 : d[k] = e[k]
    PROVE  Value(d, n) = Value(e, n)
<1>1. PICK f : Computes(f, d, n) /\ Value(d, n) = f[n]
  BY ValueIs
<1>2. PICK g : Computes(g, e, n) /\ Value(e, n) = g[n]
  BY ValueIs
<1>3. n <= n
  OBVIOUS
<1>4. f[n] = g[n]
  BY <1>1, <1>2, <1>3, ValueAgree
<1> QED BY <1>1, <1>2, <1>4

LEMMA ValueStep ==
    ASSUME NEW d, NEW n \in Nat
    PROVE  /\ Value(d, 0) = 0
           /\ Value(d, n + 1) = Base * Value(d, n) + d[n]
<1>1. Value(d, 0) = 0
  <2>1. PICK f : Computes(f, d, 0) /\ Value(d, 0) = f[0]
    BY ValueIs
  <2>2. f[0] = Digit(f, d, 0)
    BY <2>1 DEF Computes
  <2> QED BY <2>1, <2>2 DEF Digit
<1>2. Value(d, n + 1) = Base * Value(d, n) + d[n]
  <2>1. n + 1 \in Nat /\ n <= n + 1 /\ n + 1 \in 0 .. n + 1 /\ n + 1 # 0 /\ (n + 1) - 1 = n
    OBVIOUS
  <2>2. PICK f : Computes(f, d, n) /\ Value(d, n) = f[n]
    BY ValueIs
  <2>3. PICK g : Computes(g, d, n + 1) /\ Value(d, n + 1) = g[n + 1]
    BY <2>1, ValueIs
  <2>4. f[n] = g[n]
    BY <2>1, <2>2, <2>3, ValueAgree
  <2>5. g[n + 1] = Digit(g, d, n + 1)
    BY <2>1, <2>3 DEF Computes
  <2> QED BY <2>1, <2>2, <2>3, <2>4, <2>5 DEF Digit
<1> QED BY <1>1, <1>2

LEMMA PowerStep ==
    /\ Power(0) = 1
    /\ \A n \in Nat : Power(n) \in Nat \ {0} /\ Power(n + 1) = Base * Power(n)
<1> DEFINE one(n) == [k \in 0 .. n |-> IF k = 0 THEN 1 ELSE 0]
<1>0. Base \in Nat \ {0}
  BY PayloadConstants
<1>1. \A n : Power(n) = Value(one(n), n + 1)
  BY DEF Power
<1>2. Power(0) = 1
  <2>1. Value(one(0), 0) = 0 /\ Value(one(0), 0 + 1) = Base * Value(one(0), 0) + one(0)[0]
    BY ValueStep
  <2>2. one(0)[0] = 1
    OBVIOUS
  <2> HIDE DEF one
  <2> QED BY <1>0, <1>1, <2>1, <2>2
<1>3. ASSUME NEW n \in Nat PROVE Power(n + 1) = Base * Power(n) + 0
  <2>1. n + 1 \in Nat
    OBVIOUS
  <2>2. Value(one(n + 1), (n + 1) + 1) = Base * Value(one(n + 1), n + 1) + one(n + 1)[n + 1]
    <3> HIDE DEF one
    <3> QED BY <2>1, ValueStep
  <2>3. one(n + 1)[n + 1] = 0
    OBVIOUS
  <2>4. \A k \in 0 .. (n + 1) - 1 : one(n + 1)[k] = one(n)[k]
    OBVIOUS
  <2>5. Value(one(n + 1), n + 1) = Value(one(n), n + 1)
    <3> HIDE DEF one
    <3> QED BY <2>1, <2>4, ValueSame
  <2> HIDE DEF one
  <2> QED BY <1>1, <2>1, <2>2, <2>3, <2>5
<1> DEFINE T == {n \in Nat : Power(n) \in Nat \ {0}}
<1>4. 0 \in T
  BY <1>2
<1>5. ASSUME NEW n \in T PROVE n + 1 \in T
  <2>1. Power(n) \in Nat \ {0} /\ n \in Nat /\ n + 1 \in Nat
    OBVIOUS
  <2>2. \A a, b \in Nat \ {0} : a * b + 0 \in Nat \ {0}
    OBVIOUS
  <2> QED BY <1>0, <1>3, <2>1, <2>2
<1>6. T \subseteq Nat
  OBVIOUS
<1>7. \A n \in Nat : n \in T
  <2> HIDE DEF T
  <2> QED BY <1>4, <1>5, <1>6, NatSetInduction
<1>8. ASSUME NEW n \in Nat PROVE Power(n) \in Nat \ {0} /\ Power(n + 1) = Base * Power(n)
  <2>1. Power(n) \in Nat \ {0}
    BY <1>7
  <2>2. \A a, b \in Nat : a * b + 0 = a * b
    OBVIOUS
  <2> QED BY <1>0, <1>3, <2>1, <2>2
<1> QED BY <1>2, <1>8

(* One more digit.                                                         *)
LEMMA DigitRange ==
    ASSUME NEW P \in Nat \ {0}, NEW v \in 0 .. P - 1, NEW x \in Byte
    PROVE  Base * v + x \in 0 .. Base * P - 1
<1>1. Base \in Nat /\ x \in Nat /\ x < Base /\ v \in Nat /\ v + 1 <= P
  BY PayloadConstants DEF Byte
<1>2. \A a, b, c \in Nat : b <= c => a * b <= a * c
  OBVIOUS
<1>3. Base * (v + 1) <= Base * P
  BY <1>1, <1>2
<1>4. Base * (v + 1) = Base * v + Base
  BY <1>1
<1>5. Base * v \in Nat /\ Base * P \in Nat
  BY <1>1
<1> HIDE DEF Byte
<1> QED BY <1>1, <1>3, <1>4, <1>5

LEMMA DigitUnique ==
    ASSUME NEW v \in Nat, NEW w \in Nat, NEW x \in Byte, NEW y \in Byte,
           Base * v + x = Base * w + y
    PROVE  v = w /\ x = y
<1>1. Base \in Nat \ {0} /\ x \in 0 .. Base - 1 /\ y \in 0 .. Base - 1
  BY PayloadConstants DEF Byte
<1>2. (Base * v + x) % Base = x /\ (Base * w + y) % Base = y
  BY <1>1, ModUnique
<1>3. x = y
  BY <1>2
<1>4. Base * v = Base * w
  BY <1>1, <1>3
<1>5. \A a \in Nat \ {0}, b, c \in Nat : a * b = a * c => b = c
  OBVIOUS
<1> QED BY <1>1, <1>3, <1>4, <1>5

LEMMA ValueRange ==
    ASSUME NEW n \in Nat, NEW d, \A k \in 0 .. n - 1 : d[k] \in Byte
    PROVE  Value(d, n) \in 0 .. Power(n) - 1
<1> DEFINE T == {m \in Nat : m <= n => Value(d, m) \in 0 .. Power(m) - 1}
<1>1. 0 \in T
  BY ValueStep, PowerStep
<1>2. ASSUME NEW m \in T PROVE m + 1 \in T
  <2>1. SUFFICES ASSUME m + 1 <= n PROVE Value(d, m + 1) \in 0 .. Power(m + 1) - 1
    OBVIOUS
  <2>2. m \in Nat /\ m <= n /\ m \in 0 .. n - 1
    BY <2>1
  <2>3. Value(d, m) \in 0 .. Power(m) - 1 /\ d[m] \in Byte
    BY <2>2
  <2>4. Value(d, m + 1) = Base * Value(d, m) + d[m] /\ Power(m + 1) = Base * Power(m)
        /\ Power(m) \in Nat \ {0}
    BY <2>2, ValueStep, PowerStep
  <2> QED BY <2>3, <2>4, DigitRange
<1>3. T \subseteq Nat
  OBVIOUS
<1>4. \A m \in Nat : m \in T
  <2> HIDE DEF T
  <2> QED BY <1>1, <1>2, <1>3, NatSetInduction
<1> QED BY <1>4

LEMMA DigitsUnique ==
    ASSUME NEW n \in Nat, NEW d, NEW e,
           \A k \in 0 .. n - 1 : d[k] \in Byte /\ e[k] \in Byte,
           Value(d, n) = Value(e, n)
    PROVE  \A k \in 0 .. n - 1 : d[k] = e[k]
<1> DEFINE T == {m \in Nat : m <= n /\ Value(d, m) = Value(e, m) =>
                                \A k \in 0 .. m - 1 : d[k] = e[k]}
<1>1. 0 \in T
  OBVIOUS
<1>2. ASSUME NEW m \in T PROVE m + 1 \in T
  <2>1. SUFFICES ASSUME m + 1 <= n, Value(d, m + 1) = Value(e, m + 1)
                 PROVE  \A k \in 0 .. (m + 1) - 1 : d[k] = e[k]
    OBVIOUS
  <2>2. m \in Nat /\ m <= n /\ m \in 0 .. n - 1 /\ \A k \in 0 .. m - 1 : k \in 0 .. n - 1
    BY <2>1
  <2>3. d[m] \in Byte /\ e[m] \in Byte
    BY <2>2
  <2>4. Value(d, m) \in 0 .. Power(m) - 1 /\ Value(e, m) \in 0 .. Power(m) - 1
    BY <2>2, ValueRange
  <2>5. Value(d, m) \in Nat /\ Value(e, m) \in Nat
    BY <2>4
  <2>6. Base * Value(d, m) + d[m] = Base * Value(e, m) + e[m]
    BY <2>1, <2>2, ValueStep
  <2>7. Value(d, m) = Value(e, m) /\ d[m] = e[m]
    BY <2>3, <2>5, <2>6, DigitUnique
  <2>8. \A k \in 0 .. m - 1 : d[k] = e[k]
    BY <2>2, <2>7
  <2>9. \A k \in 0 .. (m + 1) - 1 : k \in 0 .. m - 1 \/ k = m
    BY <2>2
  <2> QED BY <2>7, <2>8, <2>9
<1>3. T \subseteq Nat
  OBVIOUS
<1>4. \A m \in Nat : m \in T
  <2> HIDE DEF T
  <2> QED BY <1>1, <1>2, <1>3, NatSetInduction
<1> QED BY <1>4

LEMMA DigitsExist ==
    \A n \in Nat : \A x \in 0 .. Power(n) - 1 :
        \E d \in [0 .. n - 1 -> Byte] : Value(d, n) = x
<1> DEFINE T == {n \in Nat : \A x \in 0 .. Power(n) - 1 :
                                \E d \in [0 .. n - 1 -> Byte] : Value(d, n) = x}
<1>0. Base \in Nat \ {0} /\ 0 \in Byte
  BY PayloadConstants DEF Byte
<1>1. 0 \in T
  <2> DEFINE d == [k \in 0 .. 0 - 1 |-> 0]
  <2>1. d \in [0 .. 0 - 1 -> Byte]
    BY <1>0
  <2>2. Value(d, 0) = 0
    BY ValueStep
  <2>3. \A x \in 0 .. Power(0) - 1 : x = 0
    BY PowerStep
  <2> HIDE DEF d
  <2> QED BY <2>1, <2>2, <2>3
<1>2. ASSUME NEW n \in T PROVE n + 1 \in T
  <2>0. n \in Nat /\ n + 1 \in Nat
    OBVIOUS
  <2>1. SUFFICES ASSUME NEW x \in 0 .. Power(n + 1) - 1
                 PROVE  \E d \in [0 .. (n + 1) - 1 -> Byte] : Value(d, n + 1) = x
    BY <2>0
  <2> DEFINE q == x \div Base
             y == x % Base
             P == Power(n)
  <2>2. P \in Nat \ {0} /\ x \in Nat /\ x < Base * P
    <3>1. P \in Nat \ {0} /\ Power(n + 1) = Base * P
      BY <2>0, PowerStep
    <3>2. Base * P \in Nat
      BY <1>0, <3>1
    <3> HIDE DEF P
    <3> QED BY <2>1, <3>1, <3>2
  <2>3. y \in 0 .. Base - 1 /\ q \in Nat /\ x = Base * q + y
    BY <1>0, <2>2, DivMod
  <2>4. y \in Byte
    BY <2>3 DEF Byte
  <2> HIDE DEF q, y, P
  <2>5. q < P
    <3>1. SUFFICES ASSUME P <= q PROVE FALSE
      BY <2>2, <2>3
    <3>2. \A a, b, c \in Nat : b <= c => a * b <= a * c
      OBVIOUS
    <3>3. Base * P <= Base * q /\ Base * P \in Nat /\ Base * q \in Nat
      BY <1>0, <2>2, <2>3, <3>1, <3>2
    <3> QED BY <1>0, <2>2, <2>3, <3>3
  <2>6. q \in 0 .. P - 1
    BY <2>2, <2>3, <2>5
  <2>7. PICK e \in [0 .. n - 1 -> Byte] : Value(e, n) = q
    BY <2>6 DEF P
  <2> DEFINE d == [k \in 0 .. (n + 1) - 1 |-> IF k < n THEN e[k] ELSE y]
  <2>8. d \in [0 .. (n + 1) - 1 -> Byte]
    <3>1. \A k \in 0 .. (n + 1) - 1 : k < n => k \in 0 .. n - 1
      BY <2>0
    <3> QED BY <2>4, <2>7, <3>1
  <2>9. d[n] = y /\ \A k \in 0 .. n - 1 : d[k] = e[k]
    BY <2>0
  <2> HIDE DEF d
  <2>10. Value(d, n) = q
    BY <2>0, <2>7, <2>9, ValueSame
  <2>11. Value(d, n + 1) = Base * Value(d, n) + d[n]
    BY <2>0, ValueStep
  <2> QED BY <2>3, <2>8, <2>9, <2>10, <2>11
<1>3. T \subseteq Nat
  OBVIOUS
<1>4. \A n \in Nat : n \in T
  <2> HIDE DEF T
  <2> QED BY <1>1, <1>2, <1>3, NatSetInduction
<1> QED BY <1>4

Word == MinWord .. MaxWord

(* The numbers of a word, of which there are as many as of its bytes.      *)
LEMMA WordRange ==
    /\ Power(WORD) \in Nat /\ MaxWord \in Nat /\ MinWord \in Int /\ MinWord < 0
    /\ MinWord = (MaxWord + 1) - Power(WORD) /\ MaxWord < Power(WORD)
<1>1. WORD - 1 \in Nat /\ (WORD - 1) + 1 = WORD /\ Base \in Nat /\ Base >= 2
  BY PayloadConstants
<1>2. Power(WORD - 1) \in Nat \ {0} /\ Power(WORD) = Base * Power(WORD - 1)
  BY <1>1, PowerStep
<1>3. \A b \in Nat, p \in Nat \ {0} : b >= 2 => b * p \in Nat /\ b * p >= 2
  <2> SUFFICES ASSUME NEW b \in Nat, NEW p \in Nat \ {0}, b >= 2
               PROVE  b * p \in Nat /\ b * p >= 2
    OBVIOUS
  <2>1. \A x, y, z \in Nat : x <= y => x * z <= y * z
    OBVIOUS
  <2>2. 2 * p <= b * p /\ b * p \in Nat
    BY <2>1
  <2> QED BY <2>2
<1>4. Power(WORD) \in Nat /\ Power(WORD) >= 2
  BY <1>1, <1>2, <1>3
<1>5. \A p \in Nat : p >= 2 => (p \div 2) - 1 \in Nat /\ (p \div 2) < p
  OBVIOUS
<1>6. MaxWord \in Nat /\ MaxWord + 1 < Power(WORD)
  BY <1>4, <1>5 DEF MaxWord
<1> QED BY <1>4, <1>6 DEF MinWord

(* The signed numbers of a word and its unsigned ones are one to one.      *)
LEMMA SignedFacts ==
    /\ \A v \in 0 .. Power(WORD) - 1 : Signed(v) \in Word
    /\ \A v, w \in 0 .. Power(WORD) - 1 : Signed(v) = Signed(w) => v = w
    /\ \A n \in Word : \E v \in 0 .. Power(WORD) - 1 : Signed(v) = n
<1> DEFINE P == Power(WORD)
           M == MaxWord
<1>1. P \in Nat /\ M \in Nat /\ M < P /\ MinWord = (M + 1) - P
  BY WordRange
<1>2. \A v : Signed(v) = IF v > M THEN v - P ELSE v
  BY DEF Signed
<1>3. Word = (M + 1) - P .. M
  BY <1>1 DEF Word
<1> HIDE DEF P, M
<1>4. \A v \in 0 .. P - 1 : Signed(v) \in Word
  BY <1>1, <1>2, <1>3
<1>5. \A v, w \in 0 .. P - 1 : Signed(v) = Signed(w) => v = w
  BY <1>1, <1>2
<1>6. ASSUME NEW n \in Word PROVE \E v \in 0 .. P - 1 : Signed(v) = n
  <2>1. n \in Int /\ n <= M /\ (M + 1) - P <= n
    BY <1>1, <1>3
  <2>2. CASE n >= 0
    <3>1. n \in 0 .. P - 1 /\ Signed(n) = n
      BY <1>1, <1>2, <2>1, <2>2
    <3> QED BY <3>1
  <2>3. CASE n < 0
    <3>1. n + P \in 0 .. P - 1 /\ n + P > M
      BY <1>1, <2>1, <2>3
    <3>2. Signed(n + P) = n
      BY <1>1, <1>2, <2>1, <3>1
    <3> QED BY <3>1, <3>2
  <2> QED BY <2>1, <2>2, <2>3
<1> QED BY <1>4, <1>5, <1>6 DEF P

(* The bytes of a word are those with its value, and no others are.        *)
LEMMA WordFacts ==
    /\ \A word \in Word :
          BytesOf(word) \in WordBytes /\ Signed(Value(BytesOf(word), WORD)) = word
    /\ \A bytes \in WordBytes :
          /\ Signed(Value(bytes, WORD)) \in Word
          /\ BytesOf(Signed(Value(bytes, WORD))) = bytes
<1>0. WORD \in Nat
  BY PayloadConstants
<1>1. ASSUME NEW bytes \in WordBytes
      PROVE  /\ \A k \in 0 .. WORD - 1 : bytes[k] \in Byte
             /\ Value(bytes, WORD) \in 0 .. Power(WORD) - 1
  <2>1. \A k \in 0 .. WORD - 1 : bytes[k] \in Byte
    BY DEF WordBytes
  <2> QED BY <1>0, <2>1, ValueRange
<1>2. ASSUME NEW word \in Word
      PROVE  BytesOf(word) \in WordBytes /\ Signed(Value(BytesOf(word), WORD)) = word
  <2>1. PICK v \in 0 .. Power(WORD) - 1 : Signed(v) = word
    BY SignedFacts
  <2>2. \E d \in WordBytes : Value(d, WORD) = v
    BY <1>0, DigitsExist DEF WordBytes
  <2>3. \E d \in WordBytes : Signed(Value(d, WORD)) = word
    BY <2>1, <2>2
  <2> QED BY <2>3 DEF BytesOf
<1>3. ASSUME NEW bytes \in WordBytes
      PROVE  /\ Signed(Value(bytes, WORD)) \in Word
             /\ BytesOf(Signed(Value(bytes, WORD))) = bytes
  <2> DEFINE word == Signed(Value(bytes, WORD))
             d == BytesOf(word)
  <2>1. (\A k \in 0 .. WORD - 1 : bytes[k] \in Byte) /\ Value(bytes, WORD) \in 0 .. Power(WORD) - 1
    BY <1>1
  <2>2. word \in Word
    BY <2>1, SignedFacts
  <2> HIDE DEF word
  <2>3. d \in WordBytes /\ Signed(Value(d, WORD)) = word
    BY <1>2, <2>2
  <2> HIDE DEF d
  <2>4. (\A k \in 0 .. WORD - 1 : d[k] \in Byte) /\ Value(d, WORD) \in 0 .. Power(WORD) - 1
    BY <1>1, <2>3
  <2>5. Value(d, WORD) = Value(bytes, WORD)
    BY <2>1, <2>3, <2>4, SignedFacts DEF word
  <2>6. \A k \in 0 .. WORD - 1 : d[k] = bytes[k]
    BY <1>0, <2>1, <2>4, <2>5, DigitsUnique
  <2>7. d = bytes
    <3>1. /\ d = [k \in 0 .. WORD - 1 |-> d[k]]
          /\ bytes = [k \in 0 .. WORD - 1 |-> bytes[k]]
      BY <2>3 DEF WordBytes
    <3>2. [k \in 0 .. WORD - 1 |-> d[k]] = [k \in 0 .. WORD - 1 |-> bytes[k]]
      BY <2>6
    <3> QED BY <3>1, <3>2
  <2> QED BY <2>2, <2>7 DEF word, d
<1> QED BY <1>2, <1>3

-----------------------------------------------------------------------------
(* Sums over finite sets.                                                  *)

(* Induction over the subsets of a finite set.                             *)
LEMMA SubsetInduction ==
    ASSUME NEW R, IsFiniteSet(R), NEW Q, {} \in Q,
           \A S \in SUBSET R : S # {} /\ (\A x \in S : S \ {x} \in Q) => S \in Q
    PROVE  \A S \in SUBSET R : S \in Q
<1> DEFINE T == {n \in Nat : \A S \in SUBSET R : Cardinality(S) = n => S \in Q}
<1>0. \A S \in SUBSET R : IsFiniteSet(S) /\ Cardinality(S) \in Nat
  BY FS_Subset, FS_CardinalityType
<1>1. 0 \in T
  BY <1>0, FS_EmptySet
<1>2. ASSUME NEW n \in T PROVE n + 1 \in T
  <2>1. n \in Nat /\ n + 1 \in Nat
    OBVIOUS
  <2>2. ASSUME NEW S \in SUBSET R, Cardinality(S) = n + 1 PROVE S \in Q
    <3>1. S # {}
      BY <2>1, <2>2, FS_EmptySet
    <3>2. ASSUME NEW x \in S PROVE S \ {x} \in Q
      <4>1. Cardinality(S \ {x}) = Cardinality(S) - 1
        BY <1>0, FS_RemoveElement
      <4>2. Cardinality(S \ {x}) = n
        BY <2>1, <2>2, <4>1
      <4>3. S \ {x} \in SUBSET R
        OBVIOUS
      <4> QED BY <4>2, <4>3
    <3> QED BY <3>1, <3>2
  <2> QED BY <2>1, <2>2
<1>3. T \subseteq Nat
  OBVIOUS
<1>4. \A n \in Nat : n \in T
  <2> HIDE DEF T
  <2> QED BY <1>1, <1>2, <1>3, NatSetInduction
<1> QED BY <1>0, <1>4

OneOf(s) == CHOOSE x \in s : TRUE

Rest(s) == s \ {OneOf(s)}

Adds(f, v, s) == IF s = {} THEN 0 ELSE v[OneOf(s)] + f[Rest(s)]

(* f computes the sums of v over the sets of D.                            *)
Sums(f, v, D) == f = [s \in D |-> Adds(f, v, s)]

LEMMA RestFacts ==
    ASSUME NEW S, S # {}, IsFiniteSet(S)
    PROVE  /\ OneOf(S) \in S /\ Rest(S) \in SUBSET S /\ IsFiniteSet(Rest(S))
           /\ Cardinality(S) \in Nat /\ Cardinality(Rest(S)) = Cardinality(S) - 1
<1>1. OneOf(S) \in S
  BY DEF OneOf
<1> QED BY <1>1, FS_RemoveElement, FS_CardinalityType DEF Rest

LEMMA SumsExist ==
    ASSUME NEW v, NEW R, IsFiniteSet(R)
    PROVE  \E f : Sums(f, v, SUBSET R)
<1> DEFINE D(n) == {s \in SUBSET R : Cardinality(s) <= n}
           T == {n \in Nat : \E f : Sums(f, v, D(n))}
<1>0. \A S \in SUBSET R : IsFiniteSet(S) /\ Cardinality(S) \in Nat
  BY FS_Subset, FS_CardinalityType
<1>1. 0 \in T
  <2> DEFINE f == [s \in D(0) |-> 0]
  <2>1. \A s \in D(0) : s = {}
    BY <1>0, FS_EmptySet
  <2>2. \A s \in D(0) : Adds(f, v, s) = 0
    BY <2>1 DEF Adds
  <2>3. f = [s \in D(0) |-> Adds(f, v, s)]
    BY <2>2
  <2> HIDE DEF f
  <2> QED BY <2>3 DEF Sums
<1>2. ASSUME NEW n \in T PROVE n + 1 \in T
  <2>1. n \in Nat /\ n + 1 \in Nat
    OBVIOUS
  <2>2. PICK f : Sums(f, v, D(n))
    OBVIOUS
  <2> DEFINE g == [s \in D(n + 1) |-> IF Cardinality(s) <= n THEN f[s] ELSE Adds(f, v, s)]
  <2>3. ASSUME NEW s \in D(n + 1) PROVE g[s] = Adds(g, v, s)
    <3>1. s = {} \/ g[Rest(s)] = f[Rest(s)]
      <4>1. SUFFICES ASSUME s # {} PROVE g[Rest(s)] = f[Rest(s)]
        OBVIOUS
      <4>2. /\ Rest(s) \in SUBSET R /\ Cardinality(Rest(s)) = Cardinality(s) - 1
            /\ Cardinality(s) \in Nat /\ Cardinality(s) <= n + 1
        BY <1>0, <4>1, RestFacts
      <4>3. Cardinality(Rest(s)) <= n /\ Cardinality(Rest(s)) <= n + 1
        BY <2>1, <4>2
      <4> QED BY <4>2, <4>3
    <3>2. Adds(g, v, s) = Adds(f, v, s)
      BY <3>1 DEF Adds
    <3>3. g[s] = Adds(f, v, s)
      <4>1. CASE Cardinality(s) <= n
        <5>1. s \in D(n)
          BY <4>1
        <5>2. f[s] = Adds(f, v, s)
          BY <2>2, <5>1 DEF Sums
        <5> QED BY <4>1, <5>2
      <4>2. CASE ~ (Cardinality(s) <= n)
        BY <4>2
      <4> QED BY <4>1, <4>2
    <3> QED BY <3>2, <3>3
  <2>4. g = [s \in D(n + 1) |-> Adds(g, v, s)]
    BY <2>3
  <2> HIDE DEF g
  <2> QED BY <2>1, <2>4 DEF Sums
<1>3. T \subseteq Nat
  OBVIOUS
<1>4. \A n \in Nat : n \in T
  <2> HIDE DEF T
  <2> QED BY <1>1, <1>2, <1>3, NatSetInduction
<1>5. D(Cardinality(R)) = SUBSET R /\ Cardinality(R) \in Nat
  BY FS_Subset, FS_CardinalityType
<1> QED BY <1>4, <1>5

(* f computes the sums of v over R, and g those over a larger set.         *)
Extended(f, g, v, R, S) ==
    /\ IsFiniteSet(R) /\ R \subseteq S
    /\ Sums(f, v, SUBSET R) /\ Sums(g, v, SUBSET S)

LEMMA SumsAgree ==
    ASSUME NEW v, NEW R, NEW S, NEW f, NEW g, Extended(f, g, v, R, S)
    PROVE  f[R] = g[R]
<1> USE DEF Extended
<1> DEFINE Q == {s \in SUBSET R : f[s] = g[s]}
<1>1. \A s \in SUBSET R : f[s] = Adds(f, v, s) /\ g[s] = Adds(g, v, s)
  BY DEF Sums
<1>2. {} \in Q
  BY <1>1 DEF Adds
<1>3. ASSUME NEW s \in SUBSET R, s # {}, \A x \in s : s \ {x} \in Q PROVE s \in Q
  <2>1. OneOf(s) \in s
    BY <1>3 DEF OneOf
  <2>2. f[Rest(s)] = g[Rest(s)]
    BY <1>3, <2>1 DEF Rest
  <2> QED BY <1>1, <2>2 DEF Adds
<1>4. \A s \in SUBSET R : s \in Q
  <2> HIDE DEF Q
  <2> QED BY <1>2, <1>3, SubsetInduction
<1> QED BY <1>4

LEMMA SumIs ==
    ASSUME NEW v, NEW R, IsFiniteSet(R)
    PROVE  \E f : Sums(f, v, SUBSET R) /\ SumFunctionOnSet(v, R) = f[R]
<1> DEFINE F == CHOOSE f : Sums(f, v, SUBSET R)
<1>1. Sums(F, v, SUBSET R)
  BY SumsExist
<1>2. SumFunctionOnSet(v, R) = F[R]
  BY Zenon DEF SumFunctionOnSet, FoldFunctionOnSet, MapThenFoldSet, Sums, Adds, OneOf, Rest
<1> QED BY <1>1, <1>2

LEMMA SumStep ==
    ASSUME NEW v, NEW R, IsFiniteSet(R)
    PROVE  SumFunctionOnSet(v, R) =
              IF R = {} THEN 0 ELSE v[OneOf(R)] + SumFunctionOnSet(v, Rest(R))
<1>1. PICK f : Sums(f, v, SUBSET R) /\ SumFunctionOnSet(v, R) = f[R]
  BY SumIs
<1>2. f[R] = Adds(f, v, R)
  BY <1>1 DEF Sums
<1>3. CASE R = {}
  BY <1>1, <1>2, <1>3 DEF Adds
<1>4. CASE R # {}
  <2>1. Rest(R) \subseteq R /\ IsFiniteSet(Rest(R))
    BY <1>4, RestFacts
  <2>2. PICK g : Sums(g, v, SUBSET Rest(R)) /\ SumFunctionOnSet(v, Rest(R)) = g[Rest(R)]
    BY <2>1, SumIs
  <2>3. g[Rest(R)] = f[Rest(R)]
    <3>1. IsFiniteSet(Rest(R)) /\ Rest(R) \in SUBSET R
      BY <2>1
    <3>2. Sums(g, v, SUBSET Rest(R)) /\ Sums(f, v, SUBSET R)
      BY <1>1, <2>2
    <3>3. Extended(g, f, v, Rest(R), R)
      BY <3>1, <3>2 DEF Extended
    <3> QED BY <3>3, SumsAgree
  <2> QED BY <1>1, <1>2, <1>4, <2>2, <2>3 DEF Adds
<1> QED BY <1>3, <1>4

(* Sums of numbers of a set that is closed under addition are in the set.  *)
LEMMA SumIn ==
    ASSUME NEW v, NEW R, IsFiniteSet(R), NEW D, 0 \in D, \A x, y \in D : x + y \in D,
           \A x \in R : v[x] \in D
    PROVE  \A S \in SUBSET R : SumFunctionOnSet(v, S) \in D
<1> DEFINE Q == {S \in SUBSET R : SumFunctionOnSet(v, S) \in D}
<1>0. \A S \in SUBSET R : IsFiniteSet(S)
  BY FS_Subset
<1>1. {} \in Q
  <2>1. SumFunctionOnSet(v, {}) = 0
    BY FS_EmptySet, SumStep
  <2> QED BY <2>1
<1>2. ASSUME NEW S \in SUBSET R, S # {}, \A x \in S : S \ {x} \in Q PROVE S \in Q
  <2>1. OneOf(S) \in S
    BY <1>2 DEF OneOf
  <2>2. SumFunctionOnSet(v, Rest(S)) \in D /\ v[OneOf(S)] \in D
    BY <1>2, <2>1 DEF Rest
  <2>3. SumFunctionOnSet(v, S) = v[OneOf(S)] + SumFunctionOnSet(v, Rest(S))
    BY <1>0, <1>2, SumStep
  <2> QED BY <2>2, <2>3
<1>3. \A S \in SUBSET R : S \in Q
  <2> HIDE DEF Q
  <2> QED BY <1>1, <1>2, SubsetInduction
<1> QED BY <1>3

LEMMA SumInt ==
    ASSUME NEW v, NEW R, IsFiniteSet(R), \A x \in R : v[x] \in Int
    PROVE  \A S \in SUBSET R : SumFunctionOnSet(v, S) \in Int
<1>1. 0 \in Int /\ \A x, y \in Int : x + y \in Int
  OBVIOUS
<1> QED BY <1>1, SumIn

(* The sum does not depend on the order in which it is added up.           *)
LEMMA SumRemove ==
    ASSUME NEW v, NEW R, IsFiniteSet(R), \A x \in R : v[x] \in Int
    PROVE  \A S \in SUBSET R : \A r \in S :
              SumFunctionOnSet(v, S) = v[r] + SumFunctionOnSet(v, S \ {r})
<1> DEFINE Tot(S) == SumFunctionOnSet(v, S)
           Q == {S \in SUBSET R : \A r \in S : Tot(S) = v[r] + Tot(S \ {r})}
<1>0. \A S \in SUBSET R : IsFiniteSet(S) /\ Tot(S) \in Int
  BY FS_Subset, SumInt
<1>1. {} \in Q
  OBVIOUS
<1>2. ASSUME NEW S \in SUBSET R, S # {}, \A x \in S : S \ {x} \in Q PROVE S \in Q
  <2>1. SUFFICES ASSUME NEW r \in S PROVE Tot(S) = v[r] + Tot(S \ {r})
    OBVIOUS
  <2>2. PICK x : x = OneOf(S)
    OBVIOUS
  <2>3. x \in S
    BY <1>2, <2>2 DEF OneOf
  <2>4. Tot(S) = v[x] + Tot(S \ {x})
    BY <1>0, <1>2, <2>2, SumStep DEF Rest
  <2>5. CASE r = x
    BY <2>4, <2>5
  <2>6. CASE r # x
    <3>1. S \ {x} \in Q /\ r \in S \ {x} /\ S \ {r} \in Q /\ x \in S \ {r}
      BY <1>2, <2>1, <2>3, <2>6
    <3>2. Tot(S \ {x}) = v[r] + Tot((S \ {x}) \ {r})
      BY <3>1
    <3>3. Tot(S \ {r}) = v[x] + Tot((S \ {r}) \ {x})
      BY <3>1
    <3>4. (S \ {x}) \ {r} = (S \ {r}) \ {x}
      OBVIOUS
    <3>5. /\ Tot((S \ {x}) \ {r}) \in Int /\ v[x] \in Int /\ v[r] \in Int
      <4>1. (S \ {x}) \ {r} \in SUBSET R
        OBVIOUS
      <4> HIDE DEF Tot
      <4> QED BY <1>0, <2>1, <2>3, <4>1
    <3> HIDE DEF Tot
    <3>6. \A a, b, c \in Int : a + (b + c) = b + (a + c)
      OBVIOUS
    <3>7. PICK t : t = Tot((S \ {x}) \ {r})
      OBVIOUS
    <3>8. v[x] + (v[r] + t) = v[r] + (v[x] + t)
      BY <3>5, <3>6, <3>7
    <3> QED BY <2>4, <3>2, <3>3, <3>4, <3>7, <3>8
  <2> QED BY <2>5, <2>6
<1>3. \A S \in SUBSET R : S \in Q
  <2> HIDE DEF Q
  <2> QED BY <1>1, <1>2, SubsetInduction
<1> QED BY <1>3

-----------------------------------------------------------------------------
(* The saturating additions of the switch.                                 *)

LEMMA SaturateFacts ==
    /\ \A n \in Int : Saturate(n) \in Word
    /\ \A n \in Word : Saturate(n) = n /\ n \in Int
    /\ 0 \in Word
    /\ \A n \in Int, w \in Word :
          (n >= 0 /\ w >= 0) \/ (n <= 0 /\ w <= 0) =>
              Saturate(Saturate(n) + w) = Saturate(n + w)
BY WordRange DEF Saturate, Word

(* Numbers of words, as many as there are ranks.                           *)
Addends(v) == \A s \in Rank : v[s] \in Word

LEMMA AddendFacts ==
    ASSUME NEW v, Addends(v)
    PROVE  /\ \A S \in SUBSET Rank : SumFunctionOnSet(v, S) \in Int
           /\ \A S \in SUBSET Rank : (\A s \in S : v[s] >= 0) => SumFunctionOnSet(v, S) >= 0
           /\ \A S \in SUBSET Rank : (\A s \in S : v[s] <= 0) => SumFunctionOnSet(v, S) <= 0
           /\ \A S \in SUBSET Rank, r \in Rank : r \notin S =>
                 SumFunctionOnSet(v, S \cup {r}) = v[r] + SumFunctionOnSet(v, S)
           /\ SumFunctionOnSet(v, {}) = 0
<1>0. IsFiniteSet(Rank) /\ \A s \in Rank : v[s] \in Int
  BY PayloadConstants, SaturateFacts DEF Addends
<1>1. \A S \in SUBSET Rank : SumFunctionOnSet(v, S) \in Int
  BY <1>0, SumInt
<1>2. ASSUME NEW S \in SUBSET Rank, \A s \in S : v[s] >= 0 PROVE SumFunctionOnSet(v, S) >= 0
  <2> DEFINE D == {n \in Int : n >= 0}
  <2>1. 0 \in D /\ \A x, y \in D : x + y \in D
    OBVIOUS
  <2>2. IsFiniteSet(S) /\ S \in SUBSET S /\ \A s \in S : v[s] \in D
    BY <1>0, <1>2, FS_Subset
  <2>3. SumFunctionOnSet(v, S) \in D
    <3> HIDE DEF D
    <3> QED BY <2>1, <2>2, SumIn
  <2> QED BY <2>3
<1>3. ASSUME NEW S \in SUBSET Rank, \A s \in S : v[s] <= 0 PROVE SumFunctionOnSet(v, S) <= 0
  <2> DEFINE D == {n \in Int : n <= 0}
  <2>1. 0 \in D /\ \A x, y \in D : x + y \in D
    OBVIOUS
  <2>2. IsFiniteSet(S) /\ S \in SUBSET S /\ \A s \in S : v[s] \in D
    BY <1>0, <1>3, FS_Subset
  <2>3. SumFunctionOnSet(v, S) \in D
    <3> HIDE DEF D
    <3> QED BY <2>1, <2>2, SumIn
  <2> QED BY <2>3
<1>4. ASSUME NEW S \in SUBSET Rank, NEW r \in Rank, r \notin S
      PROVE  SumFunctionOnSet(v, S \cup {r}) = v[r] + SumFunctionOnSet(v, S)
  <2> DEFINE W == S \cup {r}
  <2>1. W \in SUBSET Rank /\ r \in W /\ W \ {r} = S
    BY <1>4
  <2> HIDE DEF W
  <2>2. SumFunctionOnSet(v, W) = v[r] + SumFunctionOnSet(v, W \ {r})
    BY <1>0, <2>1, SumRemove
  <2> QED BY <2>1, <2>2 DEF W
<1>5. SumFunctionOnSet(v, {}) = 0
  BY FS_EmptySet, SumStep
<1> QED BY <1>1, <1>2, <1>3, <1>4, <1>5

(* A packet more: whatever the order, the promise of SumOf is kept.        *)
LEMMA SumOfMore ==
    ASSUME NEW v, Addends(v), NEW S \in SUBSET Rank, NEW r \in Rank, r \notin S,
           NEW x, SumOf(x, v, S)
    PROVE  SumOf(Add(x, v[r]), v, S \cup {r})
<1> DEFINE Tot(T) == SumFunctionOnSet(v, T)
           W == S \cup {r}
           n == Tot(S)
           w == v[r]
<1>1. Tot(W) = w + n
  BY AddendFacts
<1>2. n \in Int /\ w \in Word /\ w \in Int
  BY AddendFacts, SaturateFacts DEF Addends
<1>3. w + n = n + w
  BY <1>2
<1>4. /\ (\A T \in SUBSET S : Tot(T) \in MinWord .. MaxWord) => x = n
      /\ (\A s \in S : v[s] >= 0) => x = Saturate(n)
      /\ (\A s \in S : v[s] <= 0) => x = Saturate(n)
  BY DEF SumOf
<1>5. Add(x, w) = Saturate(x + w)
  BY DEF Add
<1>6. ASSUME \A T \in SUBSET W : Tot(T) \in MinWord .. MaxWord PROVE Add(x, w) = Tot(W)
  <2>1. \A T \in SUBSET S : T \in SUBSET W
    OBVIOUS
  <2>2. x = n /\ Tot(W) \in Word
    <3> HIDE DEF Tot, n
    <3> QED BY <1>4, <1>6, <2>1 DEF Word
  <2> HIDE DEF Tot, n, w, W
  <2> QED BY <1>1, <1>3, <1>5, <2>2, SaturateFacts
<1>7. ASSUME \A s \in W : v[s] >= 0 PROVE Add(x, w) = Saturate(Tot(W))
  <2>1. (\A s \in S : v[s] >= 0) /\ w >= 0
    BY <1>7
  <2>2. n >= 0 /\ x = Saturate(n)
    BY <1>4, <2>1, AddendFacts
  <2> HIDE DEF Tot, n, w, W
  <2> QED BY <1>1, <1>2, <1>3, <1>5, <2>1, <2>2, SaturateFacts
<1>8. ASSUME \A s \in W : v[s] <= 0 PROVE Add(x, w) = Saturate(Tot(W))
  <2>1. (\A s \in S : v[s] <= 0) /\ w <= 0
    BY <1>8
  <2>2. n <= 0 /\ x = Saturate(n)
    BY <1>4, <2>1, AddendFacts
  <2> HIDE DEF Tot, n, w, W
  <2> QED BY <1>1, <1>2, <1>3, <1>5, <2>1, <2>2, SaturateFacts
<1> QED BY <1>6, <1>7, <1>8 DEF SumOf

LEMMA SumOfFew ==
    ASSUME NEW v, Addends(v)
    PROVE  /\ SumOf(0, v, {})
           /\ \A r \in Rank : SumOf(v[r], v, {r})
<1>1. SumFunctionOnSet(v, {}) = 0 /\ Saturate(0) = 0
  BY AddendFacts, SaturateFacts
<1>2. SumOf(0, v, {})
  BY <1>1 DEF SumOf
<1>3. ASSUME NEW r \in Rank PROVE SumOf(v[r], v, {r})
  <2>1. {} \in SUBSET Rank /\ r \notin {} /\ {} \cup {r} = {r}
    OBVIOUS
  <2>2. SumOf(Add(0, v[r]), v, {} \cup {r})
    BY <1>2, <2>1, SumOfMore
  <2>3. v[r] \in Word
    BY DEF Addends
  <2>4. Add(0, v[r]) = v[r]
    <3>1. v[r] \in Int /\ Saturate(v[r]) = v[r]
      BY <2>3, SaturateFacts
    <3>2. 0 + v[r] = v[r]
      BY <3>1
    <3> QED BY <3>1, <3>2 DEF Add
  <2> QED BY <2>1, <2>2, <2>4
<1> QED BY <1>2, <1>3

-----------------------------------------------------------------------------
(* Bytes and words of a payload.                                           *)

(* A product and a remainder determine the factor.                         *)
LEMMA DivUnique ==
    ASSUME NEW m \in Nat \ {0}, NEW k \in Nat, NEW x \in 0 .. m - 1
    PROVE  (k * m + x) \div m = k /\ (k * m + x) % m = x
OBVIOUS

LEMMA WordIndex ==
    ASSUME NEW i \in Nat, NEW k \in 0 .. WORD - 1
    PROVE  /\ (i * WORD + k) \div WORD = i /\ (i * WORD + k) % WORD = k
           /\ (WORD - 1) - k \in 0 .. WORD - 1
           /\ Mirror(i * WORD + k) = i * WORD + ((WORD - 1) - k)
           /\ Mirror(i * WORD + ((WORD - 1) - k)) = i * WORD + k
           /\ \A n \in Nat : i < n => i * WORD + k \in 0 .. n * WORD - 1
<1>0. WORD \in Nat \ {0}
  BY PayloadConstants
<1>1. PICK m : m = (WORD - 1) - k
  OBVIOUS
<1>2. m \in 0 .. WORD - 1 /\ (WORD - 1) - m = k
  BY <1>0, <1>1
<1>3. (i * WORD + k) \div WORD = i /\ (i * WORD + k) % WORD = k
  BY <1>0, DivUnique
<1>4. (i * WORD + m) \div WORD = i /\ (i * WORD + m) % WORD = m
  BY <1>0, <1>2, DivUnique
<1>5. ASSUME NEW n \in Nat, i < n PROVE i * WORD + k \in 0 .. n * WORD - 1
  <2>1. i + 1 <= n
    BY <1>5
  <2>2. \A a, b, c \in Nat : a <= b => a * c <= b * c
    OBVIOUS
  <2>3. (i + 1) * WORD <= n * WORD
    BY <1>0, <2>1, <2>2
  <2>4. (i + 1) * WORD = i * WORD + WORD
    BY <1>0
  <2>5. i * WORD \in Nat /\ n * WORD \in Nat
    BY <1>0
  <2> QED BY <1>0, <2>3, <2>4, <2>5
<1> QED BY <1>1, <1>2, <1>3, <1>4, <1>5 DEF Mirror

(* Every offset is a byte of a word.                                       *)
LEMMA OffsetIndex ==
    ASSUME NEW n \in Nat, NEW j \in 0 .. n * WORD - 1
    PROVE  \E i \in 0 .. n - 1, k \in 0 .. WORD - 1 : j = i * WORD + k
<1>0. WORD \in Nat \ {0} /\ j \in Nat /\ n * WORD \in Nat /\ j < n * WORD
  BY PayloadConstants
<1> DEFINE i == j \div WORD
           k == j % WORD
<1>1. k \in 0 .. WORD - 1 /\ i \in Nat /\ j = WORD * i + k
  BY <1>0, DivMod
<1> HIDE DEF i, k
<1>2. j = i * WORD + k
  BY <1>0, <1>1
<1>3. i < n
  <2>1. SUFFICES ASSUME n <= i PROVE FALSE
    BY <1>1
  <2>2. \A a, b, c \in Nat : a <= b => a * c <= b * c
    OBVIOUS
  <2>3. n * WORD <= i * WORD /\ i * WORD \in Nat
    BY <1>0, <1>1, <2>1, <2>2
  <2> QED BY <1>0, <1>1, <1>2, <2>3
<1>4. i \in 0 .. n - 1
  BY <1>1, <1>3
<1> QED BY <1>1, <1>2, <1>4

(* The byte of the source that byte j of a copy is.                        *)
Source(j) == IF op.code \in {"ALL_REDUCE", "REDUCE"} THEN Mirror(j) ELSE j

LEMMA SizeFacts ==
    ASSUME op \in Operation
    PROVE  /\ op.size \in 0 .. PAYLOAD_SIZE /\ op.code \in OpCode /\ op.root \in Rank
           /\ op.code # "BROADCAST" => op.size = (op.size \div WORD) * WORD
           /\ op.size \div WORD \in 0 .. PAYLOAD_LEN
           /\ \A j \in 0 .. op.size - 1 : Source(j) \in 0 .. op.size - 1 /\ Source(j) \in Offset
<1>1. /\ op.size \in 0 .. PAYLOAD_SIZE /\ op.code \in OpCode /\ op.root \in Rank
      /\ op.code # "BROADCAST" => op.size % WORD = 0
  BY DEF Operation
<1>2. /\ WORD \in Nat \ {0} /\ PAYLOAD_LEN \in Nat /\ PAYLOAD_SIZE \in Nat
      /\ PAYLOAD_SIZE = PAYLOAD_LEN * WORD
  BY PayloadConstants
<1> DEFINE w == op.size \div WORD
<1>3. op.size \in Nat /\ op.size <= PAYLOAD_SIZE
  BY <1>1, <1>2
<1>4. w \in Nat /\ op.size % WORD \in 0 .. WORD - 1 /\ op.size = WORD * w + (op.size % WORD)
  BY <1>2, <1>3, DivMod
<1>5. op.code # "BROADCAST" => op.size = w * WORD
  <2> HIDE DEF w
  <2> QED BY <1>1, <1>2, <1>4
<1>6. w <= PAYLOAD_LEN
  <2> HIDE DEF w
  <2>1. SUFFICES ASSUME PAYLOAD_LEN + 1 <= w PROVE FALSE
    BY <1>2, <1>4
  <2>2. \A a, b, c \in Nat : a <= b => c * a <= c * b
    OBVIOUS
  <2>3. WORD * (PAYLOAD_LEN + 1) <= WORD * w
    BY <1>2, <1>4, <2>1, <2>2
  <2>4. WORD * (PAYLOAD_LEN + 1) = PAYLOAD_SIZE + WORD /\ WORD * w \in Nat
    BY <1>2, <1>4
  <2> QED BY <1>2, <1>3, <1>4, <2>3, <2>4
<1>7. ASSUME NEW j \in 0 .. op.size - 1 PROVE Source(j) \in 0 .. op.size - 1
  <2>1. CASE op.code = "BROADCAST"
    BY <2>1 DEF Source
  <2>2. CASE op.code # "BROADCAST"
    <3>1. op.size = w * WORD
      BY <1>5, <2>2
    <3> HIDE DEF w
    <3>2. j \in 0 .. w * WORD - 1
      BY <3>1
    <3>3. PICK i \in 0 .. w - 1, k \in 0 .. WORD - 1 : j = i * WORD + k
      BY <1>4, <3>2, OffsetIndex
    <3>4. i \in Nat /\ i < w
      BY <1>4, <3>3
    <3>5. PICK m : m = (WORD - 1) - k
      OBVIOUS
    <3>6. m \in 0 .. WORD - 1 /\ Mirror(j) = i * WORD + m
      BY <3>3, <3>4, <3>5, WordIndex
    <3>7. i * WORD + m \in 0 .. w * WORD - 1
      BY <1>4, <3>4, <3>6, WordIndex
    <3>8. Source(j) = Mirror(j)
      BY <1>1, <2>2 DEF Source, OpCode
    <3> QED BY <3>1, <3>6, <3>7, <3>8
  <2> QED BY <2>1, <2>2
<1>8. ASSUME NEW j \in 0 .. op.size - 1 PROVE Source(j) \in Offset
  <2>1. \A x \in 0 .. op.size - 1 : x \in 0 .. PAYLOAD_SIZE - 1
    BY <1>2, <1>3
  <2> QED BY <1>7, <2>1 DEF Offset
<1>9. w \in 0 .. PAYLOAD_LEN
  <2> HIDE DEF w
  <2> QED BY <1>2, <1>4, <1>6
<1> QED BY <1>1, <1>5, <1>7, <1>8, <1>9

(* What a copy of the operation's size does.                               *)
LEMMA CopyIs ==
    ASSUME op \in Operation, NEW dst, NEW src
    PROVE  Copy(dst, src, op.size) =
              [j \in DOMAIN dst |-> IF j < op.size THEN src[Source(j)] ELSE dst[j]]
<1>1. op.code \in OpCode /\ (op.code # "BROADCAST" => op.size = (op.size \div WORD) * WORD)
  BY SizeFacts
<1>2. CASE op.code \in {"ALL_REDUCE", "REDUCE"}
  <2>1. op.size = (op.size \div WORD) * WORD
    BY <1>1, <1>2
  <2>2. \A j : Source(j) = Mirror(j)
    BY <1>2 DEF Source
  <2>3. Copy(dst, src, op.size) =
          [j \in DOMAIN dst |->
              IF j < (op.size \div WORD) * WORD THEN src[Mirror(j)] ELSE dst[j]]
    BY <1>2 DEF Copy, MemcpyHtobe32
  <2> QED BY <2>1, <2>2, <2>3
<1>3. CASE op.code \notin {"ALL_REDUCE", "REDUCE"}
  BY <1>3 DEF Source, Copy, Memcpy
<1> QED BY <1>2, <1>3

LEMMA FillIs ==
    ASSUME op \in Operation, NEW src, \A j \in Offset : src[j] \in Byte
    PROVE  /\ FillPkt(src) \in [Offset -> Byte]
           /\ \A j \in Offset :
                 FillPkt(src)[j] = IF j < op.size THEN src[Source(j)] ELSE 0
<1>1. op.size \in Nat /\ \A j \in Offset : j < op.size => src[Source(j)] \in Byte
  <2>1. op.size \in Nat /\ \A j \in Offset : j < op.size => j \in 0 .. op.size - 1
    BY SizeFacts, PayloadConstants DEF Offset
  <2> QED BY <2>1, SizeFacts
<1> DEFINE zeros == [j \in Offset |-> 0]
           filled == Copy(zeros, src, op.size)
<1>2. filled = [j \in DOMAIN zeros |-> IF j < op.size THEN src[Source(j)] ELSE zeros[j]]
  <2> HIDE DEF zeros
  <2> QED BY CopyIs
<1>3. FillPkt(src) = [j \in Offset |-> IF j >= op.size THEN 0 ELSE filled[j]]
  BY DEF FillPkt
<1>4. \A j \in Offset : j < op.size => filled[j] = src[Source(j)]
  <2>1. DOMAIN zeros = Offset
    OBVIOUS
  <2> HIDE DEF zeros, filled
  <2> QED BY <1>2, <2>1
<1>5. \A j \in Offset : ~ (j >= op.size) <=> j < op.size
  BY <1>1, PayloadConstants DEF Offset
<1>6. 0 \in Byte
  BY PayloadConstants DEF Byte
<1> HIDE DEF filled
<1> QED BY <1>1, <1>3, <1>4, <1>5, <1>6

Index == 0 .. PAYLOAD_LEN - 1

LEMMA IndexOffset ==
    /\ \A i \in Index, k \in 0 .. WORD - 1 :
          /\ i \in Nat /\ i * WORD + k \in Offset
          /\ (i * WORD + k) \div WORD = i /\ (i * WORD + k) % WORD = k
    /\ \A j \in Offset : \E i \in Index, k \in 0 .. WORD - 1 : j = i * WORD + k
<1>0. PAYLOAD_LEN \in Nat /\ PAYLOAD_SIZE = PAYLOAD_LEN * WORD
  BY PayloadConstants
<1>1. ASSUME NEW i \in Index, NEW k \in 0 .. WORD - 1
      PROVE  /\ i \in Nat /\ i * WORD + k \in Offset
             /\ (i * WORD + k) \div WORD = i /\ (i * WORD + k) % WORD = k
  <2>1. i \in Nat /\ i < PAYLOAD_LEN
    BY <1>0 DEF Index
  <2> QED BY <1>0, <2>1, WordIndex DEF Offset
<1>2. ASSUME NEW j \in Offset
      PROVE  \E i \in Index, k \in 0 .. WORD - 1 : j = i * WORD + k
  <2>1. j \in 0 .. PAYLOAD_LEN * WORD - 1
    BY <1>0 DEF Offset
  <2> QED BY <1>0, <2>1, OffsetIndex DEF Index
<1> QED BY <1>1, <1>2

(* What the switch reads from a packet, and that the packet it sends with  *)
(* these words is the same.                                                *)
LEMMA WordAtFacts ==
    ASSUME NEW p \in [Offset -> Byte], NEW i \in Index
    PROVE  /\ WordAt(p, i) \in Word
           /\ \A k \in 0 .. WORD - 1 : BytesOf(WordAt(p, i))[k] = p[i * WORD + k]
<1> DEFINE b == [k \in 0 .. WORD - 1 |-> p[i * WORD + k]]
<1>1. b \in WordBytes
  BY IndexOffset DEF WordBytes
<1>2. WordAt(p, i) = Signed(Value(b, WORD))
  BY DEF WordAt
<1>3. \A k \in 0 .. WORD - 1 : b[k] = p[i * WORD + k]
  OBVIOUS
<1> HIDE DEF b
<1> QED BY <1>1, <1>2, <1>3, WordFacts

LEMMA SerialiseFacts ==
    ASSUME NEW words \in [Index -> Word]
    PROVE  /\ Serialise(words) \in [Offset -> Byte]
           /\ \A i \in Index, k \in 0 .. WORD - 1 :
                 Serialise(words)[i * WORD + k] = BytesOf(words[i])[k]
<1>1. ASSUME NEW i \in Index, NEW k \in 0 .. WORD - 1
      PROVE  /\ BytesOf(words[i])[k] \in Byte
             /\ Serialise(words)[i * WORD + k] = BytesOf(words[i])[k]
  <2>1. words[i] \in Word
    OBVIOUS
  <2>2. BytesOf(words[i]) \in WordBytes
    BY <2>1, WordFacts
  <2>3. BytesOf(words[i])[k] \in Byte
    BY <2>2 DEF WordBytes
  <2>4. /\ i * WORD + k \in Offset
        /\ (i * WORD + k) \div WORD = i /\ (i * WORD + k) % WORD = k
    BY IndexOffset
  <2>5. \A j \in Offset : Serialise(words)[j] = BytesOf(words[j \div WORD])[j % WORD]
    BY DEF Serialise
  <2> QED BY <2>3, <2>4, <2>5
<1>2. \A j \in Offset : Serialise(words)[j] \in Byte
  BY <1>1, IndexOffset
<1>3. Serialise(words) = [j \in Offset |-> Serialise(words)[j]]
  BY DEF Serialise
<1> QED BY <1>1, <1>2, <1>3

-----------------------------------------------------------------------------
(* The invariant: a register holds the saturating sum of the words of the  *)
(* packets that have arrived, and a buffer is as the caller left it until the      *)
(* answer is copied into it.                                               *)

PacketWords(i) == [s \in Rank |-> WordAt(FillPkt(before[s]), i)]

Senders(R) == {s \in R : NeedTx(op, s)}

Registers ==
    arrived # {} => \A i \in Index : SumOf(register[i], PacketWords(i), Senders(arrived))

Buffers ==
    \A r \in Rank :
        data[r] = IF r \in answered /\ NeedRx(op, r)
                  THEN Copy(before[r], Serialise(register), op.size)
                  ELSE before[r]

BytesInv ==
    /\ BytesTypeOK
    /\ answered # {} => arrived = Rank
    /\ Registers
    /\ Buffers

LEMMA BufferRange ==
    ASSUME BytesTypeOK, NEW s \in Rank
    PROVE  /\ \A j \in Offset : before[s][j] \in Byte /\ data[s][j] \in Byte
           /\ FillPkt(before[s]) \in [Offset -> Byte]
           /\ FillPkt(data[s]) \in [Offset -> Byte]
<1>1. \A j \in Offset : j \in 0 .. PAYLOAD_SIZE + Spare - 1
  BY PayloadConstants DEF Offset
<1>2. before[s] \in Buffer /\ data[s] \in Buffer /\ op \in Operation
  BY DEF BytesTypeOK
<1>3. \A j \in Offset : before[s][j] \in Byte /\ data[s][j] \in Byte
  BY <1>1, <1>2 DEF Buffer
<1> QED BY <1>2, <1>3, FillIs

LEMMA WordsRange ==
    ASSUME BytesTypeOK, NEW i \in Index
    PROVE  /\ Addends(PacketWords(i))
           /\ \A s \in Rank : /\ PacketWords(i)[s] = WordAt(FillPkt(before[s]), i)
                              /\ WordAt(FillPkt(data[s]), i) \in Word
<1>1. ASSUME NEW s \in Rank
      PROVE  /\ PacketWords(i)[s] \in Word
             /\ PacketWords(i)[s] = WordAt(FillPkt(before[s]), i)
             /\ WordAt(FillPkt(data[s]), i) \in Word
  <2>1. PacketWords(i)[s] = WordAt(FillPkt(before[s]), i)
    BY DEF PacketWords
  <2>2. /\ FillPkt(before[s]) \in [Offset -> Byte]
        /\ FillPkt(data[s]) \in [Offset -> Byte]
    BY BufferRange
  <2> QED BY <2>1, <2>2, WordAtFacts
<1> QED BY <1>1 DEF Addends

LEMMA BytesInvInit == BytesInit => BytesInv
BY DEF BytesInit, BytesInv, BytesTypeOK, Registers, Buffers

(* What depends on the operation and the callers' buffers stays the same.  *)
LEMMA SameWords ==
    ASSUME op' = op, before' = before
    PROVE  /\ \A i : PacketWords(i)' = PacketWords(i)
           /\ \A R : {s \in R : NeedTx(op', s)} = Senders(R)
BY DEF PacketWords, FillPkt, Copy, MemcpyHtobe32, Memcpy, Senders

LEMMA SendKeeps ==
    ASSUME BytesInv, NEW r \in Rank, Send(r)
    PROVE  BytesInv'
<1>0. BytesTypeOK /\ r \notin arrived /\ arrived \subseteq Rank
  BY DEF BytesInv, BytesTypeOK, Send
<1>1. answered = {} /\ answered' = {} /\ data[r] = before[r]
  BY <1>0 DEF BytesInv, Buffers, Send
<1>2. op' = op /\ before' = before /\ data' = data /\ arrived' = arrived \cup {r}
  BY DEF Send
<1>3. register \in [Index -> Word] /\ DOMAIN register = Index
  BY <1>0 DEF BytesTypeOK, Index, Word
<1>4. \A i \in Index : Words(r)[i] = IF NeedTx(op, r) THEN PacketWords(i)[r] ELSE 0
  BY <1>0, <1>1, <1>3, WordsRange DEF Words
<1>5. Senders(arrived') = IF NeedTx(op, r) THEN Senders(arrived) \cup {r} ELSE Senders(arrived)
  BY <1>2 DEF Senders
<1>6. Senders(arrived) \in SUBSET Rank /\ r \notin Senders(arrived)
      /\ (arrived = {} => Senders(arrived) = {})
  BY <1>0 DEF Senders
<1>7. /\ DOMAIN register' = Index
      /\ \A i \in Index : register'[i] = IF arrived = {} THEN Words(r)[i]
                                         ELSE Add(register[i], Words(r)[i])
      /\ register' = [i \in Index |-> register'[i]]
  BY <1>3 DEF Send
<1>8. ASSUME NEW i \in Index
      PROVE  /\ register'[i] \in Word
             /\ SumOf(register'[i], PacketWords(i), Senders(arrived'))
  <2>1. Addends(PacketWords(i)) /\ PacketWords(i)[r] \in Word
    BY <1>0, WordsRange DEF Addends
  <2>2. register[i] \in Word
    BY <1>3
  <2>3. arrived # {} => SumOf(register[i], PacketWords(i), Senders(arrived))
    BY DEF BytesInv, Registers
  <2>4. \A x, y \in Word : Add(x, y) \in Word /\ Add(x, 0) = x
    <3> SUFFICES ASSUME NEW x \in Word, NEW y \in Word PROVE Add(x, y) \in Word /\ Add(x, 0) = x
      OBVIOUS
    <3>1. x \in Int /\ y \in Int /\ Saturate(x) = x
      BY SaturateFacts
    <3>2. x + y \in Int /\ x + 0 = x
      BY <3>1
    <3> QED BY <3>1, <3>2, SaturateFacts DEF Add
  <2>5. CASE arrived = {} /\ NeedTx(op, r)
    <3>1. register'[i] = PacketWords(i)[r] /\ Senders(arrived') = {r}
      BY <1>4, <1>5, <1>6, <1>7, <2>5
    <3> QED BY <2>1, <3>1, SumOfFew
  <2>6. CASE arrived = {} /\ ~ NeedTx(op, r)
    <3>1. register'[i] = 0 /\ Senders(arrived') = {}
      BY <1>4, <1>5, <1>6, <1>7, <2>6
    <3> QED BY <2>1, <3>1, SumOfFew, SaturateFacts
  <2>7. CASE arrived # {} /\ NeedTx(op, r)
    <3>1. register'[i] = Add(register[i], PacketWords(i)[r])
          /\ Senders(arrived') = Senders(arrived) \cup {r}
      BY <1>4, <1>5, <1>7, <2>7
    <3>2. SumOf(Add(register[i], PacketWords(i)[r]), PacketWords(i), Senders(arrived) \cup {r})
      BY <1>6, <2>1, <2>3, <2>7, SumOfMore
    <3> QED BY <2>1, <2>2, <2>4, <3>1, <3>2
  <2>8. CASE arrived # {} /\ ~ NeedTx(op, r)
    <3>1. register'[i] = register[i] /\ Senders(arrived') = Senders(arrived)
      BY <1>4, <1>5, <1>7, <2>2, <2>4, <2>8
    <3> QED BY <2>2, <2>3, <2>8, <3>1
  <2> QED BY <2>5, <2>6, <2>7, <2>8
<1>9. Registers'
  <2>1. Senders(arrived)' = Senders(arrived')
    BY <1>2 DEF Senders
  <2>2. \A i : PacketWords(i)' = PacketWords(i)
    BY <1>2, SameWords
  <2>3. Index' = Index /\ \A x, v, S : SumOf(x, v, S)' = SumOf(x, v, S)
    BY DEF Index
  <2> QED BY <1>8, <2>1, <2>2, <2>3 DEF Registers
<1>10. Buffers'
  BY <1>1, <1>2 DEF BytesInv, Buffers
<1>11. register' \in [0 .. PAYLOAD_LEN - 1 -> MinWord .. MaxWord]
  BY <1>7, <1>8 DEF Index, Word
<1>12. BytesTypeOK'
  BY <1>0, <1>2, <1>11 DEF BytesTypeOK, Send
<1> QED BY <1>1, <1>9, <1>10, <1>12 DEF BytesInv

LEMMA ReceiveKeeps ==
    ASSUME BytesInv, NEW r \in Rank, Receive(r)
    PROVE  BytesInv'
<1>0. BytesTypeOK /\ op \in Operation /\ data \in [Rank -> Buffer]
  BY DEF BytesInv, BytesTypeOK
<1>1. op' = op /\ before' = before /\ arrived' = arrived /\ register' = register
      /\ answered' = answered \cup {r} /\ r \notin answered /\ arrived = Rank
  BY DEF Receive
<1>2. data[r] = before[r]
  BY <1>1 DEF BytesInv, Buffers
<1>3. data' = IF NeedRx(op, r)
              THEN [data EXCEPT ![r] = Copy(data[r], Serialise(register), op.size)]
              ELSE data
  BY DEF Receive, RxSize
<1>4. Registers'
  <2>1. Senders(arrived)' = Senders(arrived)
    BY <1>1 DEF Senders
  <2>2. \A i : PacketWords(i)' = PacketWords(i)
    BY <1>1, SameWords
  <2> QED BY <1>1, <2>1, <2>2 DEF BytesInv, Registers
<1>5. Buffers'
  <2>1. \A a, b : Copy(a, b, op.size)' = Copy(a, b, op.size)
    BY <1>1 DEF Copy, MemcpyHtobe32, Memcpy
  <2>2. Serialise(register)' = Serialise(register)
    BY <1>1
  <2>3. ASSUME NEW s \in Rank
        PROVE  data'[s] = IF s \in answered' /\ NeedRx(op, s)
                          THEN Copy(before[s], Serialise(register), op.size)
                          ELSE before[s]
    <3>1. CASE s = r
      BY <1>0, <1>1, <1>2, <1>3, <3>1
    <3>2. CASE s # r
      <4>1. data'[s] = data[s]
        BY <1>0, <1>3, <3>2
      <4> QED BY <1>1, <3>2, <4>1 DEF BytesInv, Buffers
    <3> QED BY <3>1, <3>2
  <2> QED BY <1>1, <2>1, <2>2, <2>3 DEF Buffers, Copy, MemcpyHtobe32, Memcpy
<1>6. data' \in [Rank -> Buffer]
  <2>1. register \in [Index -> Word]
    BY <1>0 DEF BytesTypeOK, Index, Word
  <2>2. Serialise(register) \in [Offset -> Byte]
    BY <2>1, SerialiseFacts
  <2>3. data[r] \in [0 .. PAYLOAD_SIZE + Spare - 1 -> Byte]
    BY <1>0 DEF Buffer
  <2>4. Copy(data[r], Serialise(register), op.size) =
          [j \in 0 .. PAYLOAD_SIZE + Spare - 1 |->
              IF j < op.size THEN Serialise(register)[Source(j)] ELSE data[r][j]]
    <3>1. DOMAIN data[r] = 0 .. PAYLOAD_SIZE + Spare - 1
      BY <2>3
    <3>2. Copy(data[r], Serialise(register), op.size) =
            [j \in DOMAIN data[r] |->
                IF j < op.size THEN Serialise(register)[Source(j)] ELSE data[r][j]]
      BY <1>0, CopyIs, Zenon
    <3> QED BY <3>1, <3>2
  <2>5. \A j \in 0 .. PAYLOAD_SIZE + Spare - 1 : j < op.size => j \in 0 .. op.size - 1
    BY <1>0, SizeFacts, PayloadConstants
  <2>6. \A j \in 0 .. PAYLOAD_SIZE + Spare - 1 :
            j < op.size => Serialise(register)[Source(j)] \in Byte
    BY <1>0, <2>2, <2>5, SizeFacts
  <2>7. Copy(data[r], Serialise(register), op.size) \in Buffer
    BY <2>3, <2>4, <2>6 DEF Buffer
  <2> QED BY <1>0, <1>3, <2>7
<1>7. BytesTypeOK'
  BY <1>0, <1>1, <1>6 DEF BytesTypeOK
<1> QED BY <1>1, <1>4, <1>5, <1>7 DEF BytesInv

LEMMA DoneKeeps ==
    ASSUME BytesInv, UNCHANGED bytesVars
    PROVE  BytesInv'
<1>1. op' = op /\ before' = before /\ data' = data /\ arrived' = arrived
      /\ register' = register /\ answered' = answered
  BY DEF bytesVars
<1>2. (\A i : PacketWords(i)' = PacketWords(i)) /\ Senders(arrived)' = Senders(arrived)
  BY <1>1, SameWords DEF Senders
<1> QED BY <1>1, <1>2
        DEF BytesInv, BytesTypeOK, Registers, Buffers, Copy, MemcpyHtobe32, Memcpy

(* Every step of fill_pkt(), the registers and rx_process_one() keeps the  *)
(* invariant.                                                              *)
THEOREM BytesInvariance == BytesSpec => []BytesInv
<1>1. BytesInv /\ [BytesNext]_bytesVars => BytesInv'
  <2> SUFFICES ASSUME BytesInv, [BytesNext]_bytesVars PROVE BytesInv'
    OBVIOUS
  <2>1. CASE UNCHANGED bytesVars
    BY <2>1, DoneKeeps
  <2>2. CASE Done
    BY <2>2, DoneKeeps DEF Done
  <2>3. ASSUME NEW r \in Rank, Send(r) PROVE BytesInv'
    BY <2>3, SendKeeps
  <2>4. ASSUME NEW r \in Rank, Receive(r) PROVE BytesInv'
    BY <2>4, ReceiveKeeps
  <2> QED BY <2>1, <2>2, <2>3, <2>4 DEF BytesNext
<1> QED BY <1>1, BytesInvInit, PTL DEF BytesSpec


(* OnlyOwnBytes for all ranks, sizes and contents: the copy in             *)
(* rx_process_one() ends where the data of the packet ends.                *)
THEOREM OwnBytesOnly == BytesSpec => []OnlyOwnBytes
<1>1. BytesInv => OnlyOwnBytes
  <2> SUFFICES ASSUME BytesInv PROVE OnlyOwnBytes
    OBVIOUS
  <2>1. BytesTypeOK /\ op \in Operation
    BY DEF BytesInv, BytesTypeOK
  <2>2. ASSUME NEW r \in Rank, NEW j \in DOMAIN data[r], data[r][j] # before[r][j]
        PROVE  j < op.size /\ NeedRx(op, r)
    <3>1. NeedRx(op, r) /\ data[r] = Copy(before[r], Serialise(register), op.size)
      BY <2>2 DEF BytesInv, Buffers
    <3>2. DOMAIN data[r] = DOMAIN before[r]
      BY <2>1 DEF BytesTypeOK, Buffer
    <3>3. Copy(before[r], Serialise(register), op.size) =
            [k \in DOMAIN before[r] |->
                IF k < op.size THEN Serialise(register)[Source(k)] ELSE before[r][k]]
      BY <2>1, CopyIs, Zenon
    <3> QED BY <2>2, <3>1, <3>2, <3>3
  <2> QED BY <2>1, <2>2 DEF OnlyOwnBytes
<1> QED BY <1>1, BytesInvariance, PTL

(* What a rank that received has in its buffer.                            *)
LEMMA Received ==
    ASSUME BytesInv, NEW r \in answered, NeedRx(op, r)
    PROVE  /\ r \in Rank /\ arrived = Rank
           /\ \A j \in 0 .. op.size - 1 :
                 data[r][j] = Serialise(register)[Source(j)]
<1>1. BytesTypeOK /\ op \in Operation /\ r \in Rank /\ before[r] \in Buffer
  BY DEF BytesInv, BytesTypeOK
<1>2. data[r] = Copy(before[r], Serialise(register), op.size)
  BY <1>1 DEF BytesInv, Buffers
<1>3. Copy(before[r], Serialise(register), op.size) =
        [k \in DOMAIN before[r] |->
            IF k < op.size THEN Serialise(register)[Source(k)] ELSE before[r][k]]
  BY <1>1, CopyIs, Zenon
<1>4. \A j \in 0 .. op.size - 1 : j \in DOMAIN before[r] /\ j < op.size
  <2>1. \A j \in 0 .. op.size - 1 : j \in 0 .. PAYLOAD_SIZE + Spare - 1 /\ j < op.size
    BY <1>1, SizeFacts, PayloadConstants
  <2>2. DOMAIN before[r] = 0 .. PAYLOAD_SIZE + Spare - 1
    BY <1>1 DEF Buffer
  <2> QED BY <2>1, <2>2
<1>5. arrived = Rank
  BY DEF BytesInv
<1> QED BY <1>1, <1>2, <1>3, <1>4, <1>5

(* BroadcastExact for all ranks, sizes and contents: the root alone adds   *)
(* to the registers, and its bytes come back as they went in.              *)
THEOREM BroadcastsExact == BytesSpec => []BroadcastExact
<1>1. BytesInv => BroadcastExact
  <2> SUFFICES ASSUME BytesInv, NEW r \in answered, op.code = "BROADCAST", NeedRx(op, r),
                      NEW j \in 0 .. op.size - 1
               PROVE  data[r][j] = before[op.root][j]
    BY DEF BroadcastExact
  <2>1. BytesTypeOK /\ op \in Operation /\ op.root \in Rank
        /\ register \in [Index -> Word]
    BY SizeFacts DEF BytesInv, BytesTypeOK, Index, Word
  <2> DEFINE p == FillPkt(before[op.root])
  <2>2. p \in [Offset -> Byte]
    BY <2>1, BufferRange
  <2>3. arrived = Rank /\ data[r][j] = Serialise(register)[Source(j)]
    BY Received
  <2>4. Source(j) = j /\ j \in Offset
    <3>1. Source(j) = j
      BY DEF Source
    <3> QED BY <2>1, <3>1, SizeFacts
  <2>5. Senders(arrived) = {op.root}
    BY <2>1, <2>3 DEF Senders, NeedTx
  <2>6. ASSUME NEW i \in Index PROVE register[i] = WordAt(p, i)
    <3>1. PacketWords(i)[op.root] = WordAt(p, i) /\ Addends(PacketWords(i))
      BY <2>1, WordsRange
    <3>2. arrived # {} /\ SumOf(register[i], PacketWords(i), {op.root})
      BY <2>1, <2>3, <2>5 DEF BytesInv, Registers
    <3>3. SumOf(WordAt(p, i), PacketWords(i), {op.root})
      BY <2>1, <3>1, SumOfFew
    <3>4. WordAt(p, i) \in Word
      BY <2>2, WordAtFacts
    <3>5. (\A s \in {op.root} : PacketWords(i)[s] >= 0) \/ (\A s \in {op.root} : PacketWords(i)[s] <= 0)
      BY <3>1, <3>4, SaturateFacts
    <3> QED BY <3>2, <3>3, <3>5 DEF SumOf
  <2>7. PICK i \in Index, k \in 0 .. WORD - 1 : j = i * WORD + k
    BY <2>4, IndexOffset
  <2>8. Serialise(register)[i * WORD + k] = BytesOf(register[i])[k]
    BY <2>1, SerialiseFacts
  <2>9. BytesOf(WordAt(p, i))[k] = p[i * WORD + k]
    <3> HIDE DEF p
    <3> QED BY <2>2, WordAtFacts
  <2>10. p[j] = before[op.root][j]
    <3>1. \A x \in Offset : before[op.root][x] \in Byte
      BY <2>1, BufferRange
    <3>2. p[j] = IF j < op.size THEN before[op.root][Source(j)] ELSE 0
      BY <2>1, <2>4, <3>1, FillIs
    <3>3. j < op.size
      BY <2>1, SizeFacts
    <3> QED BY <2>4, <3>2, <3>3
  <2> HIDE DEF p
  <2> QED BY <2>3, <2>4, <2>6, <2>7, <2>8, <2>9, <2>10
<1> QED BY <1>1, BytesInvariance, PTL


(* Where the bytes of a whole word of a reduction are.                     *)
LEMMA ReducedWord ==
    ASSUME op \in Operation, op.code # "BROADCAST",
           NEW i \in 0 .. (op.size \div WORD) - 1, NEW k \in 0 .. WORD - 1
    PROVE  /\ i \in Index
           /\ i * WORD + k \in Offset /\ i * WORD + k < op.size
           /\ Source(i * WORD + k) = i * WORD + ((WORD - 1) - k)
           /\ i * WORD + ((WORD - 1) - k) \in 0 .. op.size - 1
           /\ Source(i * WORD + ((WORD - 1) - k)) = i * WORD + k
<1> DEFINE w == op.size \div WORD
<1>1. w \in 0 .. PAYLOAD_LEN /\ op.size = w * WORD /\ op.code \in OpCode
  BY SizeFacts
<1> HIDE DEF w
<1>2. i \in Nat /\ i < w /\ w \in Nat /\ i \in Index
  BY <1>1, PayloadConstants DEF w, Index
<1>3. PICK m : m = (WORD - 1) - k
  OBVIOUS
<1>4. /\ m \in 0 .. WORD - 1
      /\ Mirror(i * WORD + k) = i * WORD + m /\ Mirror(i * WORD + m) = i * WORD + k
  BY <1>2, <1>3, WordIndex
<1>5. i * WORD + k \in 0 .. w * WORD - 1 /\ i * WORD + m \in 0 .. w * WORD - 1
  BY <1>2, <1>4, WordIndex
<1>6. \A j : Source(j) = Mirror(j)
  BY <1>1 DEF Source, OpCode
<1>7. i * WORD + k \in Offset
  BY <1>2, IndexOffset
<1>8. i * WORD + k < op.size
  <2>1. w * WORD \in Nat
    BY <1>2, PayloadConstants
  <2> QED BY <1>1, <1>5, <2>1
<1> QED BY <1>1, <1>2, <1>3, <1>4, <1>5, <1>6, <1>7, <1>8

(* SumExact for all ranks, sizes and contents: the number the switch adds  *)
(* is the number of the host, and so is the one that comes back.           *)
THEOREM SumsExact == BytesSpec => []SumExact
<1>1. BytesInv => SumExact
  <2> SUFFICES ASSUME BytesInv, NEW r \in answered, op.code # "BROADCAST", NeedRx(op, r),
                      NEW i \in 0 .. (op.size \div WORD) - 1
               PROVE  SumOf(HostWord(data[r], i), [s \in Rank |-> HostWord(before[s], i)],
                            {s \in Rank : NeedTx(op, s)})
    BY DEF SumExact
  <2>1. BytesTypeOK /\ op \in Operation /\ register \in [Index -> Word]
    BY DEF BytesInv, BytesTypeOK, Index, Word
  <2>2. arrived = Rank /\ \A j \in 0 .. op.size - 1 : data[r][j] = Serialise(register)[Source(j)]
    BY Received
  <2>3. WORD \in Nat /\ 0 \in 0 .. WORD - 1
    BY PayloadConstants
  <2>4. i \in Index
    BY <2>1, <2>3, ReducedWord
  <2>5. HostWord(data[r], i) = register[i]
    <3> DEFINE d == [k \in 0 .. WORD - 1 |-> data[r][i * WORD + ((WORD - 1) - k)]]
               e == BytesOf(register[i])
    <3>1. ASSUME NEW k \in 0 .. WORD - 1 PROVE d[k] = e[k]
      <4>1. PICK j : j = i * WORD + ((WORD - 1) - k)
        OBVIOUS
      <4>2. j \in 0 .. op.size - 1 /\ Source(j) = i * WORD + k
        BY <2>1, <4>1, ReducedWord
      <4>3. data[r][j] = Serialise(register)[i * WORD + k]
        BY <2>2, <4>2
      <4>4. Serialise(register)[i * WORD + k] = BytesOf(register[i])[k]
        BY <2>1, <2>4, SerialiseFacts
      <4> QED BY <4>1, <4>3, <4>4
    <3>2. Signed(Value(e, WORD)) = register[i]
      BY <2>1, <2>4, WordFacts
    <3>3. HostWord(data[r], i) = Signed(Value(d, WORD))
      BY DEF HostWord
    <3> HIDE DEF d, e
    <3>4. Value(d, WORD) = Value(e, WORD)
      BY <2>3, <3>1, ValueSame
    <3> QED BY <3>2, <3>3, <3>4
  <2>6. ASSUME NEW s \in Rank PROVE WordAt(FillPkt(before[s]), i) = HostWord(before[s], i)
    <3> DEFINE d == [k \in 0 .. WORD - 1 |-> FillPkt(before[s])[i * WORD + k]]
               e == [k \in 0 .. WORD - 1 |-> before[s][i * WORD + ((WORD - 1) - k)]]
    <3>1. ASSUME NEW k \in 0 .. WORD - 1 PROVE d[k] = e[k]
      <4>1. PICK j : j = i * WORD + k
        OBVIOUS
      <4>2. j \in Offset /\ j < op.size /\ Source(j) = i * WORD + ((WORD - 1) - k)
        BY <2>1, <4>1, ReducedWord
      <4>3. \A x \in Offset : before[s][x] \in Byte
        BY <2>1, BufferRange
      <4>4. FillPkt(before[s])[j] = before[s][Source(j)]
        BY <2>1, <4>2, <4>3, FillIs
      <4> QED BY <4>1, <4>2, <4>4
    <3>2. /\ WordAt(FillPkt(before[s]), i) = Signed(Value(d, WORD))
          /\ HostWord(before[s], i) = Signed(Value(e, WORD))
      BY DEF WordAt, HostWord
    <3> HIDE DEF d, e
    <3>3. Value(d, WORD) = Value(e, WORD)
      BY <2>3, <3>1, ValueSame
    <3> QED BY <3>2, <3>3
  <2>7. PacketWords(i) = [s \in Rank |-> HostWord(before[s], i)]
    BY <2>6 DEF PacketWords
  <2>8. SumOf(register[i], PacketWords(i), Senders(Rank))
    <3>1. arrived # {}
      BY <2>1, <2>2 DEF BytesTypeOK
    <3> QED BY <2>2, <2>4, <3>1 DEF BytesInv, Registers
  <2> QED BY <2>5, <2>7, <2>8 DEF Senders
<1> QED BY <1>1, BytesInvariance, PTL
=============================================================================
