------------------------- MODULE CongestionControl -------------------------
(***************************************************************************)
(* The timers of a worker and its congestion window (worker.cpp: the timer *)
(* of tx_process(), full_retrans(), the limits of shift_send(),            *)
(* adjust_rate() and congestion_control()), a DCQCN-like control driven by *)
(* marks of the switch and by losses.  Of the sliding window only its      *)
(* length matters here; Worker and HostWindow model the rest.              *)
(*                                                                         *)
(* A round of the poll loop is RxProcess, TxProcess, CongestionCtl.  All   *)
(* of them use global_ts, which get_time_stamp() renews every fourth round *)
(* only: d is how far it advances before a round, 0 in the rounds between  *)
(* and MaxGap at most, so that a gap is the time from one renewal to the   *)
(* next.  Time stamps are replaced by their age at global_ts, which stops  *)
(* to count where the code no longer tells it apart.  The doubles are      *)
(* fixed-point numbers, rounded down: cwnd and target_cwnd in 1/U packets, *)
(* loss_ratio in 1/L.                                                      *)
(*                                                                         *)
(* External: the header with the constants and with cc.reinit() is not in  *)
(* the repository; reinit() is taken to start again with CwndInit.         *)
(***************************************************************************)
EXTENDS Integers

CONSTANTS
    U, L,                       \* units of cwnd and of loss_ratio
    CC_CWND_MIN, CwndInit,      \* in packets
    CC_AI,                      \* additive increase, in 1/U packets
    GInv,                       \* 1 / CC_G
    CC_FAST_RECOVERY_CNT,
    CC_REACTION_TIME, TIMEOUT_TIME,
    MAX_WIN_LEN, MAX_PKT_BURST,
    WinLimit,                   \* current_switch_window_limit
    MaxGap                      \* bound: time between two values of global_ts

ASSUME RateAssumption ==
    /\ U \in Nat \ {0} /\ L \in Nat \ {0} /\ GInv \in Nat \ {0}
    /\ CC_CWND_MIN \in Nat \ {0} /\ CwndInit \in Nat /\ CC_CWND_MIN <= CwndInit
    /\ CC_AI \in Nat \ {0} /\ CC_FAST_RECOVERY_CNT \in Nat
    /\ CC_REACTION_TIME \in Nat \ {0} /\ TIMEOUT_TIME \in Nat \ {0}
    /\ MAX_WIN_LEN \in Nat /\ MAX_PKT_BURST \in Nat \ {0}
    /\ WinLimit \in Nat /\ CC_CWND_MIN <= WinLimit /\ CwndInit <= WinLimit
    /\ MaxGap \in Nat \ {0} /\ MaxGap < TIMEOUT_TIME

VARIABLES
    pc,
    win_len,                    \* window_len()
    cwnd, target_cwnd, loss_ratio, adjust_cnt,
    cwnd_achieved,
    new_ack, new_ack_cc,        \* ack_cnt # prev_ack_cnt, # prev_ack_cnt_cc
    tos_minitor,                \* the congestion bits: 0, 1 or 3
    pkt_loss_flag,
    ack_age, decrease_age, adjust_age,
    waited,                     \* auxiliary: how long the oldest packet has
                                \* been without answer or retransmission
    fresh,                      \* auxiliary: a mark or a loss was seen since
                                \* the last decrease
    calm                        \* the network stays calm from now on

ccVars   == <<cwnd, target_cwnd, loss_ratio, adjust_cnt, decrease_age, adjust_age>>
signals  == <<tos_minitor, pkt_loss_flag>>
rateVars == <<pc, win_len, ccVars, cwnd_achieved, new_ack, new_ack_cc, tos_minitor,
          pkt_loss_flag, ack_age, waited, fresh, calm>>

Min2(a, b) == IF a < b THEN a ELSE b

RateInit ==
    /\ pc = "rx" /\ win_len = 0
    /\ cwnd = CwndInit * U /\ target_cwnd = CwndInit * U
    /\ loss_ratio = L /\ adjust_cnt = 0 /\ cwnd_achieved = FALSE
    /\ new_ack = FALSE /\ new_ack_cc = FALSE
    /\ tos_minitor = 0 /\ pkt_loss_flag = FALSE
    /\ ack_age = 0 /\ decrease_age = 0 /\ adjust_age = 0
    /\ waited = 0 /\ fresh = FALSE /\ calm = FALSE

-----------------------------------------------------------------------------
(* The next round begins with global_ts advanced by d: get_time_stamp(),   *)
(* then rx_process().  Packets may be acknowledged, and the window may     *)
(* move by slide packets; an answer may be marked, and may show that one   *)
(* before it was lost.  The conditions on a calm network are those of      *)
(* Calm.                                                                   *)
RxProcess(d, acked, slide, marked, lost) ==
    /\ pc = "rx"
    /\ acked => win_len > 0
    /\ ~acked => slide = 0 /\ ~lost
    /\ slide <= win_len
    /\ calm => /\ ~marked /\ ~lost /\ slide < MAX_PKT_BURST
               /\ acked \/ win_len = 0 \/ waited + d < TIMEOUT_TIME - MaxGap
    /\ ack_age'      = Min2(ack_age + d, TIMEOUT_TIME)
    /\ decrease_age' = Min2(decrease_age + d, CC_REACTION_TIME)
    /\ adjust_age'   = Min2(adjust_age + d, CC_REACTION_TIME)
    /\ waited' = IF acked \/ win_len = 0 THEN 0
                 ELSE Min2(waited + d, TIMEOUT_TIME + 2 * MaxGap)
    /\ win_len' = win_len - slide
    /\ new_ack' = (new_ack \/ acked) /\ new_ack_cc' = (new_ack_cc \/ acked)
    /\ tos_minitor' = IF marked THEN 3
                      ELSE IF acked /\ tos_minitor = 0 THEN 1 ELSE tos_minitor
    /\ pkt_loss_flag' = (pkt_loss_flag \/ lost)
    /\ fresh' = (fresh \/ marked \/ lost)
    /\ pc' = "tx"
    /\ UNCHANGED <<cwnd, target_cwnd, loss_ratio, adjust_cnt, cwnd_achieved, calm>>

(* Two faulty refreshes: the time stamp ages while the window is empty, or *)
(* it is renewed whenever a packet is sent.                                *)
AckAgeStale(len) ==
    IF new_ack \/ (ack_age >= TIMEOUT_TIME /\ win_len > 0) THEN 0 ELSE ack_age
AckAgeSending(len) ==
    IF \/ new_ack \/ len = 0 \/ len > win_len
       \/ ack_age >= TIMEOUT_TIME /\ win_len > 0
    THEN 0 ELSE ack_age

(* ack_age at the end of tx_process(): fresh if a new answer came, after   *)
(* a full retransmission, and as long as there is nothing to wait for.     *)
AckAge(len) ==
    IF \/ new_ack
       \/ ack_age >= TIMEOUT_TIME /\ win_len > 0
       \/ len = 0
    THEN 0 ELSE ack_age

(* The timeout of tx_process(), with the check of full_retrans().          *)
FullRetrans == ~new_ack /\ ack_age >= TIMEOUT_TIME /\ win_len > 0

(* The volume shift_send() may fill the window up to.                      *)
ExpectWinLen(w) ==
    Min2(MAX_WIN_LEN - 1, Min2(WinLimit, Min2(w \div U, win_len + MAX_PKT_BURST)))

(* cc.reinit()                                                             *)
Reinit ==
    /\ cwnd' = CwndInit * U /\ target_cwnd' = CwndInit * U
    /\ loss_ratio' = L /\ adjust_cnt' = 0
    /\ decrease_age' = 0 /\ adjust_age' = 0

(* A faulty comparison that wants the window to be larger than cwnd.       *)
AchievedStrict(len, w) == len > w \div U

Achieved(len, w) == len >= w \div U

(* tx_process(): n new packets are available.                              *)
TxProcess(n) ==
    /\ pc = "tx"
    /\ calm => n = MAX_WIN_LEN
    /\ IF FullRetrans THEN Reinit ELSE UNCHANGED ccVars
    /\ LET expect == ExpectWinLen(cwnd')
           len    == IF win_len + n <= expect THEN win_len + n
                     ELSE IF win_len > expect THEN win_len ELSE expect
       IN  /\ win_len' = len
           /\ cwnd_achieved' = (cwnd_achieved \/ Achieved(len, cwnd'))
           /\ ack_age' = AckAge(len)
    /\ new_ack' = FALSE
    /\ waited' = IF FullRetrans THEN 0 ELSE waited
    /\ pc' = "cc"
    /\ UNCHANGED <<new_ack_cc, tos_minitor, pkt_loss_flag, fresh, calm>>

-----------------------------------------------------------------------------
(* A faulty decrease without the lower bound.                              *)
AtLeastMinDropped(w) == w
AtLeastMin(w) == IF w < CC_CWND_MIN * U THEN CC_CWND_MIN * U ELSE w

(* adjust_rate(true)                                                       *)
Decrease ==
    LET ratio == ((GInv - 1) * loss_ratio + L) \div GInv
    IN  /\ loss_ratio' = ratio
        /\ target_cwnd' = cwnd
        /\ cwnd' = AtLeastMin((cwnd * (2 * L - ratio)) \div (2 * L))
        /\ adjust_cnt' = -CC_FAST_RECOVERY_CNT

(* adjust_rate(false): fast recovery towards target_cwnd, then additive    *)
(* increase; nothing unless the window was as large as cwnd.  Only the     *)
(* sign of adjust_cnt matters (CC_HYPER_INCREASE is not modelled).         *)
Increase ==
    LET target == IF adjust_cnt >= 0 THEN target_cwnd + CC_AI ELSE target_cwnd
    IN  /\ loss_ratio' = ((GInv - 1) * loss_ratio) \div GInv
        /\ IF cwnd_achieved
           THEN /\ target_cwnd' = target /\ adjust_cnt' = Min2(adjust_cnt + 1, 0)
                /\ cwnd' = AtLeastMin((target + cwnd) \div 2)
           ELSE cwnd' = AtLeastMin(cwnd) /\ UNCHANGED <<target_cwnd, adjust_cnt>>

(* A faulty reaction that keeps the mark it has reacted to.                *)
ClearLossOnly == pkt_loss_flag' = FALSE /\ UNCHANGED tos_minitor
ClearSignals == tos_minitor' = 0 /\ pkt_loss_flag' = FALSE

Congested == tos_minitor = 3 \/ pkt_loss_flag

(* congestion_control(): not within the reaction time of a decrease, not   *)
(* without a new answer; an increase not within that of any adjustment.    *)
CongestionCtl ==
    /\ pc = "cc" /\ pc' = "rx"
    /\ \/ /\ decrease_age < CC_REACTION_TIME \/ ~new_ack_cc
          /\ UNCHANGED <<ccVars, cwnd_achieved, new_ack_cc, signals, fresh>>
       \/ /\ decrease_age >= CC_REACTION_TIME /\ new_ack_cc
          /\ Congested
          /\ Decrease /\ cwnd_achieved' = FALSE
          /\ decrease_age' = 0 /\ adjust_age' = 0
          /\ ClearSignals /\ fresh' = FALSE /\ new_ack_cc' = FALSE
       \/ /\ decrease_age >= CC_REACTION_TIME /\ new_ack_cc
          /\ ~Congested /\ adjust_age >= CC_REACTION_TIME
          /\ Increase /\ cwnd_achieved' = FALSE
          /\ adjust_age' = 0 /\ new_ack_cc' = FALSE
          /\ UNCHANGED <<decrease_age, signals, fresh>>
       \/ /\ decrease_age >= CC_REACTION_TIME /\ new_ack_cc
          /\ ~Congested /\ adjust_age < CC_REACTION_TIME
          /\ UNCHANGED <<ccVars, cwnd_achieved, new_ack_cc, signals, fresh>>
    /\ UNCHANGED <<win_len, new_ack, ack_age, waited, calm>>

(* From some time on there is no congestion, there is always more to send, *)
(* answers keep coming, with pauses shorter than the timeout, and fewer    *)
(* packets are answered in a round than a burst may send: the window may   *)
(* grow past a burst.                                                      *)
Calm ==
    /\ ~calm /\ calm' = TRUE
    /\ UNCHANGED <<pc, win_len, ccVars, cwnd_achieved, new_ack, new_ack_cc,
                   tos_minitor, pkt_loss_flag, ack_age, waited, fresh>>

RxAfter(d) ==
    \E acked, marked, lost \in BOOLEAN : \E slide \in 0 .. WinLimit :
        RxProcess(d, acked, slide, marked, lost)

RateNext ==
    \/ \E d \in 0 .. MaxGap : RxAfter(d)
    \/ \E n \in 0 .. MAX_WIN_LEN : TxProcess(n)
    \/ CongestionCtl
    \/ Calm

(* The worker polls for ever, and time goes on.                            *)
RateSpec ==
    /\ RateInit /\ [][RateNext]_rateVars
    /\ WF_rateVars(\E n \in 0 .. MAX_WIN_LEN : TxProcess(n))
    /\ WF_rateVars(CongestionCtl)
    /\ SF_rateVars(\E d \in 1 .. MaxGap : RxAfter(d))

-----------------------------------------------------------------------------
RateTypeOK ==
    /\ pc \in {"rx", "tx", "cc"} /\ win_len \in 0 .. WinLimit
    /\ cwnd \in Nat /\ target_cwnd \in Nat /\ loss_ratio \in 0 .. L
    /\ adjust_cnt \in -CC_FAST_RECOVERY_CNT .. 0
    /\ {cwnd_achieved, new_ack, new_ack_cc, pkt_loss_flag, fresh, calm} \subseteq BOOLEAN
    /\ tos_minitor \in {0, 1, 3}
    /\ ack_age \in 0 .. TIMEOUT_TIME
    /\ decrease_age \in 0 .. CC_REACTION_TIME /\ adjust_age \in 0 .. CC_REACTION_TIME
    /\ waited \in 0 .. TIMEOUT_TIME + 2 * MaxGap

(* The worker can always send: cwnd never falls below one packet; and      *)
(* never rises past the ring although target_cwnd has no bound of its own  *)
(* (the commented assertion at worker.cpp:525).                            *)
CwndInRange == RateTypeOK /\ CC_CWND_MIN * U <= cwnd /\ cwnd < MAX_WIN_LEN * U

(* A full retransmission is not premature: by the values of global_ts the  *)
(* window has been waiting for at least the timeout less one renewal of    *)
(* global_ts, also after an idle time of any length.                       *)
TimeoutNotEarly ==
    [][pc = "tx" /\ FullRetrans => waited >= TIMEOUT_TIME - MaxGap]_rateVars

(* ... and not late: a window without answers is retransmitted in the      *)
(* first round whose global_ts is the timeout later.                       *)
TimeoutPrompt == pc # "tx" => waited <= TIMEOUT_TIME

(* The window shrinks only on news: a mark or a loss seen after the last   *)
(* decrease.  What was seen within the reaction time counts, but only once. *)
DecreaseNeedsNews == [][pc = "cc" /\ cwnd' < cwnd => fresh]_rateVars

(* After congestion the window opens again up to what the switch allows,   *)
(* although it grows by a burst a round at most and cwnd grows only after  *)
(* the window was as large as cwnd.                                        *)
WindowReopens == calm ~> cwnd \div U >= WinLimit
=============================================================================
