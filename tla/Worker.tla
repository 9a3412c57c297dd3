------------------------------- MODULE Worker -------------------------------
(***************************************************************************)
(* One worker thread (worker.cpp): the poll loop rx_process, tx_process,   *)
(* with its ring of packet states, its group switching and its two kinds   *)
(* of retransmission, and the transmit queue below it, which holds         *)
(* POINTERS to the packets of the ring and reads them when they depart.    *)
(*                                                                         *)
(* The load balancer pushes the sub-operations 1, 2, ... into the work     *)
(* queue.  The other ranks and the switch are an environment that may      *)
(* answer a packet that has departed, more than once, in any order and at  *)
(* any time, or never; what it may not do is stated by Timely, which       *)
(* module AggregationProofs proves of the composed system.  Time and the   *)
(* congestion window are abstract: a timeout may happen in any round, and  *)
(* cwnd has in each round any value congestion_control() can give it.      *)
(***************************************************************************)
EXTENDS Integers, Sequences

CONSTANTS
    NSubOps,            \* number of sub-operations of a behaviour
    GroupOf(_),         \* sub_op->op->group.group_id
    SizeOf(_),          \* sub_op->size
    PAYLOAD_SIZE,
    AggLen,             \* sub_op->agg_len, the same for all groups
    MAX_WIN_LEN,
    CC_CWND_MIN,
    CwndMax,            \* bound on the integer part of cwnd
    Groups,
    StartPsn(_),        \* group_ctx[g].psn at the start
    PsnMod,             \* 2^32 in the code
    Barrier,            \* the callers complete one group before the next
    TxCap,              \* bound on the pointers queued for transmission
    MaxLoss             \* bound on the packets or answers lost

SubOp == 1 .. NSubOps

ASSUME WorkerAssumption ==
    /\ NSubOps \in Nat
    /\ PAYLOAD_SIZE \in Nat \ {0}
    /\ AggLen \in Nat
    /\ CC_CWND_MIN \in Nat \ {0} /\ CwndMax \in Nat /\ CC_CWND_MIN <= CwndMax
    /\ AggLen \div 2 >= CC_CWND_MIN
    /\ MAX_WIN_LEN \in Nat /\ MAX_WIN_LEN >= 2
    /\ PsnMod \in Nat /\ PsnMod > MAX_WIN_LEN
    /\ TxCap \in Nat /\ MaxLoss \in Nat
    /\ Barrier \in BOOLEAN
    /\ 0 \notin Groups
    /\ \A g \in Groups : StartPsn(g) \in 0 .. PsnMod - 1
    /\ \A i \in SubOp : GroupOf(i) \in Groups /\ SizeOf(i) \in Nat

(* The ring has room for two windows, and a transmit queue for one.        *)
ASSUME RingAssumption ==
    /\ MAX_WIN_LEN >= 2 * (AggLen \div 2)
    /\ TxCap >= AggLen \div 2

VARIABLES
    posted, popped,     \* sub-operations pushed to, and popped from, the wq
    cq,                 \* completed sub-operations, as push_resp() got them
    psn,                \* psn[g]: group_ctx[g].psn
    sub_op, pkt_sent, start_psn,       \* the statics of gen_pkt()
    current_group_id, current_switch_window_limit,
    window,             \* to_ack, to_send, left_psn, right_psn
    state,              \* the ring: state[position]
    pc,                 \* where the poll loop is
    loop,               \* to_send, win_len and limit, locals of shift_send()
    txq,                \* queued pointers, with the packet each stood for
    wire,               \* packets that departed and may be answered
    answer,             \* answer[i][k]: the packet whose answer acknowledged,
                        \* and was copied to, piece k of sub-operation i
    losses

genVars == <<sub_op, pkt_sent, start_psn, psn, popped, current_group_id,
             current_switch_window_limit>>

vars == <<posted, popped, cq, psn, sub_op, pkt_sent, start_psn,
          current_group_id, current_switch_window_limit, window, state, pc,
          loop, txq, wire, answer, losses>>

Position == 0 .. MAX_WIN_LEN - 1

INVALID_POSITION == -1

NoSubOp == 0

(* A faulty count that leaves out the last, partial packet.                *)
PktCntRoundedDown(i) ==
    LET n == SizeOf(i) \div PAYLOAD_SIZE IN IF n = 0 THEN 1 ELSE n

(* pkt_cnt: an empty sub-operation still has one packet.                   *)
PktCnt(i) ==
    LET n == (SizeOf(i) + PAYLOAD_SIZE - 1) \div PAYLOAD_SIZE
    IN  IF n = 0 THEN 1 ELSE n

(* What fill_pkt() writes to the mbuf: the group and the PSN, and piece k  *)
(* of sub-operation i as its payload.                                      *)
Pkt == [group : Groups, psn : 0 .. PsnMod - 1, sub_op : SubOp, piece : Nat]

NoPkt == [group |-> 0, psn |-> 0, sub_op |-> NoSubOp, piece |-> 0]

(* get_next_position() and get_prev_position()                             *)
Next1(pos) == (pos + 1) % MAX_WIN_LEN

Prev1(pos) == (pos - 1) % MAX_WIN_LEN

PsnDiff(a, b) == (a - b) % PsnMod

window_tx_empty == window.to_ack = window.to_send

window_len == (window.to_send - window.to_ack) % MAX_WIN_LEN

(* The positions from b up to, not including, e, in order.                 *)
Positions(b, e) ==
    [k \in 1 .. (e - b) % MAX_WIN_LEN |-> (b + k - 1) % MAX_WIN_LEN]

(* The elements of a sequence that are in S, in order.                     *)
Pick(s, S) ==
    LET pick[k \in 0 .. Len(s)] ==
            IF k = 0 THEN <<>>
            ELSE IF s[k] \in S THEN Append(pick[k - 1], s[k]) ELSE pick[k - 1]
    IN  pick[Len(s)]

Init ==
    /\ posted = 0 /\ popped = 0 /\ cq = <<>>
    /\ psn = [g \in Groups |-> StartPsn(g)]
    /\ sub_op = NoSubOp /\ pkt_sent = 0 /\ start_psn = 0
    /\ current_group_id = 0
    /\ current_switch_window_limit = CC_CWND_MIN
    /\ window = [to_ack |-> 0, to_send |-> 0, left_psn |-> 0, right_psn |-> 0]
    /\ state = [pos \in Position |->
                   [pkt |-> NoPkt, acked |-> FALSE, is_last |-> FALSE]]
    /\ pc = "rx"
    /\ loop = [to_send |-> 0, win_len |-> 0, limit |-> 0]
    /\ txq = <<>> /\ wire = {} /\ losses = 0
    /\ answer = [i \in SubOp |-> [k \in 0 .. PktCnt(i) - 1 |-> NoPkt]]

-----------------------------------------------------------------------------
(* The load balancer pushes the next sub-operation.                        *)
PushReq ==
    /\ posted < NSubOps
    /\ \/ ~Barrier
       \/ posted = 0
       \/ GroupOf(posted + 1) = GroupOf(posted)
       \/ Len(cq) = posted
    /\ posted' = posted + 1
    /\ UNCHANGED <<popped, cq, psn, sub_op, pkt_sent, start_psn,
                   current_group_id, current_switch_window_limit, window,
                   state, pc, loop, txq, wire, answer, losses>>

(* transmit(): queue the pointers of the positions of a sequence.          *)
Transmit(positions) ==
    /\ Len(txq) + Len(positions) <= TxCap
    /\ txq' = txq \o [k \in 1 .. Len(positions) |->
                         [position |-> positions[k], pkt |-> state'[positions[k]].pkt]]

(* The NIC sends what the oldest pointer points to by now.                 *)
Depart ==
    /\ txq # <<>>
    /\ txq' = Tail(txq)
    /\ wire' = wire \cup {state[Head(txq).position].pkt}
    /\ UNCHANGED <<posted, cq, genVars, window, state, pc, loop, answer, losses>>

Lose(p) ==
    /\ losses < MaxLoss
    /\ losses' = losses + 1
    /\ wire' = wire \ {p}
    /\ UNCHANGED <<posted, cq, genVars, window, state, pc, loop, txq, answer>>

-----------------------------------------------------------------------------
(* get_position()                                                          *)
GetPosition(p) ==
    IF \/ window_tx_empty
       \/ current_group_id # p.group
       \/ PsnDiff(p.psn, window.left_psn) > PsnDiff(window.right_psn, window.left_psn)
    THEN INVALID_POSITION
    ELSE LET pos == PsnDiff(p.psn, window.left_psn) + window.to_ack
         IN  IF pos >= MAX_WIN_LEN THEN pos - MAX_WIN_LEN ELSE pos

(* collect_retrans(): the unacknowledged positions just before pos.        *)
Gap(pos) ==
    LET all  == Positions(window.to_ack, pos)
        last == {k \in 1 .. Len(all) : state[all[k]].acked}
        from == CHOOSE k \in 0 .. Len(all) :
                    k \in last \cup {0} /\ \A j \in last : j <= k
    IN  SubSeq(all, from + 1, Len(all))

(* Packets of the first n sub-operations that belong to a group of S.      *)
PacketsOf(S, n) ==
    LET sum[j \in 0 .. NSubOps] ==
            IF j = 0 THEN 0
            ELSE sum[j - 1] + (IF GroupOf(j) \in S THEN PktCnt(j) ELSE 0)
    IN  sum[n]

(* Packets of its group before sub-operation i.                            *)
ChunksBefore(i) == PacketsOf({GroupOf(i)}, i - 1)

ChunkOf(p) == ChunksBefore(p.sub_op) + p.piece

(* An answer the network can still deliver: it is less than a window older *)
(* than any chunk of its group this worker has acknowledged.  (AckInv and  *)
(* DownInv of module AggregationInv.)                                      *)
Timely(p) ==
    \A i \in SubOp : \A k \in DOMAIN answer[i] :
        LET q == answer[i][k]
        IN  q.group = p.group => ChunkOf(p) + AggLen \div 2 > ChunkOf(q)

(* rx_process_one() on the answer to p, which may be answered again.       *)
RxProcessOne(p) ==
    /\ pc = "rx"
    /\ p \in wire
    /\ Timely(p)
    /\ LET pos == GetPosition(p)
       IN  IF pos # INVALID_POSITION /\ ~state[pos].acked
           THEN /\ state' = [state EXCEPT ![pos].acked = TRUE]
                /\ answer' = [answer EXCEPT
                                 ![state[pos].pkt.sub_op][state[pos].pkt.piece] = p]
                /\ IF pos = window.to_ack \/ state[Prev1(pos)].acked
                   THEN UNCHANGED txq
                   ELSE Transmit(Gap(pos))
           ELSE UNCHANGED <<state, answer, txq>>
    /\ wire' \in {wire, wire \ {p}}
    /\ UNCHANGED <<posted, cq, genVars, window, pc, loop, losses>>

(* How many packets at the left of the window are acknowledged.            *)
AckedRun ==
    LET all == Positions(window.to_ack, window.to_send)
    IN  CHOOSE n \in 0 .. Len(all) :
            /\ \A k \in 1 .. n : state[all[k]].acked
            /\ n < Len(all) => ~state[all[n + 1]].acked

(* A faulty left edge that is not refreshed.                               *)
LeftPsnKept(to_ack) == window.left_psn

(* left_psn once the window begins at to_ack.                              *)
LeftPsn(to_ack) == IF to_ack = window.to_send THEN 0 ELSE state[to_ack].pkt.psn

(* shift_ack(), which ends rx_process(), and complete_pkt().               *)
ShiftAck ==
    /\ pc = "rx"
    /\ LET to_ack == (window.to_ack + AckedRun) % MAX_WIN_LEN
           done   == Pick(Positions(window.to_ack, to_ack),
                          {pos \in Position : state[pos].is_last})
       IN  /\ cq' = cq \o [k \in 1 .. Len(done) |-> state[done[k]].pkt.sub_op]
           /\ window' = [window EXCEPT !.to_ack = to_ack, !.left_psn = LeftPsn(to_ack)]
    /\ pc' = "tx"
    /\ UNCHANGED <<posted, genVars, state, loop, txq, wire, answer, losses>>

-----------------------------------------------------------------------------
(* A faulty retransmission that begins after the oldest packet.            *)
UnackedTail ==
    Pick(Positions(window.to_ack, window.to_send),
         {pos \in Position : pos # window.to_ack /\ ~state[pos].acked})

(* A faulty one that sends the whole window, as transmit(begin, end) does. *)
UnackedAll == Positions(window.to_ack, window.to_send)

(* transmit_unacked() over the whole window.                               *)
Unacked ==
    Pick(Positions(window.to_ack, window.to_send),
         {pos \in Position : ~state[pos].acked})

(* A faulty length that forgets the memory of the switch.                  *)
ExpectWinLenAnySwitch(cwnd) == IF cwnd < MAX_WIN_LEN THEN cwnd ELSE MAX_WIN_LEN - 1

(* expect_win_len of shift_send(), with a burst as large as the window.    *)
ExpectWinLen(cwnd) ==
    CHOOSE n \in {MAX_WIN_LEN - 1, current_switch_window_limit, cwnd} :
        n <= MAX_WIN_LEN - 1 /\ n <= current_switch_window_limit /\ n <= cwnd

(* tx_process() up to the loop of shift_send(): full_retrans() when no     *)
(* acknowledgement came for a long time, and the limit of this round.      *)
TxProcess(timeout, cwnd) ==
    /\ pc = "tx"
    /\ IF timeout
       THEN UNCHANGED state /\ Transmit(Unacked)
       ELSE UNCHANGED <<state, txq>>
    /\ loop' = [to_send |-> window.to_send, win_len |-> window_len,
                limit |-> ExpectWinLen(cwnd)]
    /\ pc' = "send"
    /\ UNCHANGED <<posted, cq, genVars, window, wire, answer, losses>>

(* gen_pkt() has a packet to send.  window_tx_empty() reads the window,    *)
(* which shift_send() updates only after its loop.                         *)
CanGen ==
    \/ sub_op # NoSubOp
    \/ /\ popped < posted
       /\ current_group_id = GroupOf(popped + 1) \/ window_tx_empty

(* A faulty PSN that counts operations instead of packets.                 *)
PsnAfterOne(i) == (psn[GroupOf(i)] + 1) % PsnMod

(* group_ctx[].psn once the packets of sub-operation i have theirs.        *)
PsnAfter(i) == (psn[GroupOf(i)] + PktCnt(i)) % PsnMod

(* One round of the loop of shift_send(): gen_pkt() and transmit().        *)
SendOne ==
    /\ pc = "send"
    /\ loop.win_len < loop.limit
    /\ CanGen
    /\ LET fresh   == sub_op = NoSubOp
           i       == IF fresh THEN popped + 1 ELSE sub_op
           g       == GroupOf(i)
           start   == IF fresh THEN psn[g] ELSE start_psn
           k       == IF fresh THEN 0 ELSE pkt_sent
           is_last == k + 1 = PktCnt(i)
           p       == [group |-> g, psn |-> (start + k) % PsnMod, sub_op |-> i, piece |-> k]
       IN  /\ IF fresh
              THEN /\ current_group_id' = g
                   /\ current_switch_window_limit' = AggLen \div 2
                   /\ psn' = [psn EXCEPT ![g] = PsnAfter(i)]
              ELSE UNCHANGED <<current_group_id, current_switch_window_limit, psn>>
           /\ start_psn' = start
           /\ pkt_sent' = k + 1
           /\ sub_op' = IF is_last THEN NoSubOp ELSE i
           /\ popped' = IF is_last THEN popped + 1 ELSE popped
           /\ state' = [state EXCEPT ![loop.to_send] =
                           [pkt |-> p, acked |-> FALSE, is_last |-> is_last]]
    /\ window' = IF loop.win_len = 0
                 THEN [window EXCEPT !.left_psn = state'[window.to_ack].pkt.psn]
                 ELSE window
    /\ Transmit(<<loop.to_send>>)
    /\ loop' = [loop EXCEPT !.to_send = Next1(@), !.win_len = @ + 1]
    /\ UNCHANGED <<posted, cq, pc, wire, answer, losses>>

(* The end of shift_send() and of a round of the poll loop.                *)
EndSend ==
    /\ pc = "send"
    /\ loop.win_len >= loop.limit \/ ~CanGen
    /\ window' = [window EXCEPT
                     !.to_send = loop.to_send,
                     !.right_psn = IF loop.to_send = window.to_ack THEN 0
                                   ELSE state[Prev1(loop.to_send)].pkt.psn]
    /\ loop' = [to_send |-> 0, win_len |-> 0, limit |-> 0]
    /\ pc' = "rx"
    /\ UNCHANGED <<posted, cq, genVars, state, txq, wire, answer, losses>>

Next ==
    \/ PushReq
    \/ Depart
    \/ \E p \in wire : Lose(p) \/ RxProcessOne(p)
    \/ ShiftAck
    \/ \E timeout \in BOOLEAN, cwnd \in CC_CWND_MIN .. CwndMax : TxProcess(timeout, cwnd)
    \/ SendOne
    \/ EndSend

Spec == Init /\ [][Next]_vars

(* The poll loop and the NIC never stop.  A packet sent again and again is *)
(* answered (AllComplete of module Aggregation), and while the window has  *)
(* unacknowledged packets the timeout expires again and again.             *)
Fairness ==
    /\ WF_vars(PushReq) /\ WF_vars(Depart)
    /\ WF_vars(ShiftAck) /\ WF_vars(SendOne) /\ WF_vars(EndSend)
    /\ WF_vars(\E cwnd \in CC_CWND_MIN .. CwndMax : TxProcess(FALSE, cwnd))
    /\ SF_vars(\E cwnd \in CC_CWND_MIN .. CwndMax : TxProcess(TRUE, cwnd))
    /\ \A i \in SubOp : \A k \in 0 .. PktCnt(i) - 1 :
        SF_vars(\E p \in wire : p.sub_op = i /\ p.piece = k /\ RxProcessOne(p))

FairSpec == Spec /\ Fairness

-----------------------------------------------------------------------------
TypeOK ==
    /\ popped \in 0 .. NSubOps /\ posted \in popped .. NSubOps
    /\ cq \in Seq(SubOp)
    /\ psn \in [Groups -> 0 .. PsnMod - 1]
    /\ sub_op \in SubOp \cup {NoSubOp}
    /\ pkt_sent \in Nat /\ start_psn \in 0 .. PsnMod - 1
    /\ current_group_id \in Groups \cup {0}
    /\ current_switch_window_limit \in Nat
    /\ window \in [to_ack : Position, to_send : Position,
                   left_psn : 0 .. PsnMod - 1, right_psn : 0 .. PsnMod - 1]
    /\ state \in [Position -> [pkt : Pkt \cup {NoPkt}, acked : BOOLEAN, is_last : BOOLEAN]]
    /\ pc \in {"rx", "tx", "send"}
    /\ loop \in [to_send : Position, win_len : Nat, limit : Nat]
    /\ txq \in Seq([position : Position, pkt : Pkt])
    /\ wire \subseteq Pkt
    /\ losses \in Nat

(* The positions of the window, the ones of a shift_send() that has not    *)
(* ended included.                                                         *)
LivePositions ==
    Positions(window.to_ack, IF pc = "send" THEN loop.to_send ELSE window.to_send)

(* The window only contains packets of one group, so the PSN in the window *)
(* is continuous and get_position() may find a packet by subtraction       *)
(* (worker.cpp get_position, gen_pkt).                                     *)
WindowOneGroup ==
    \A k \in 1 .. Len(LivePositions) :
        LET p == state[LivePositions[k]].pkt
        IN  /\ p.group = current_group_id
            /\ p.psn = (window.left_psn + k - 1) % PsnMod

(* A piece of a sub-operation is only ever acknowledged by, and filled     *)
(* from, the answer to its own packet, although answers come late and      *)
(* twice, and are matched by a 32-bit PSN only (worker.cpp rx_process_one).*)
AnswersMatch ==
    \A i \in SubOp : \A k \in 0 .. PktCnt(i) - 1 :
        answer[i][k] # NoPkt => answer[i][k].sub_op = i /\ answer[i][k].piece = k

(* Sub-operations complete in the order they were pushed, each once, and   *)
(* not before every byte of them is answered (worker.cpp complete_pkt; the *)
(* load balancer relies on this order).                                    *)
CompleteInOrder ==
    \A n \in 1 .. Len(cq) :
        /\ cq[n] = n
        /\ \A b \in 0 .. SizeOf(n) - 1 :
              /\ b \div PAYLOAD_SIZE \in DOMAIN answer[n]
              /\ answer[n][b \div PAYLOAD_SIZE] # NoPkt

(* A queued pointer still points to the packet it was queued for: the ring *)
(* is not written at a position that a late retransmission still refers to *)
(* (worker.cpp transmit, which takes a reference to the mbuf, not a copy). *)
TxContentStable ==
    TypeOK /\ \A n \in 1 .. Len(txq) : state[txq[n].position].pkt = txq[n].pkt

(* Every sub-operation is completed, although packets and answers are lost *)
(* (worker.cpp full_retrans, shift_ack).                                   *)
AllSubOpsComplete == <>(Len(cq) = NSubOps)

-----------------------------------------------------------------------------
(* The packets of all sub-operations in the order they are generated.      *)
PacketsBefore(i) == PacketsOf(Groups, i - 1)

Number(p) == PacketsBefore(p.sub_op) + p.piece

Generated == PacketsBefore(popped + 1) + (IF sub_op = NoSubOp THEN 0 ELSE pkt_sent)

(* The packets whose piece has its answer.                                 *)
Answered ==
    UNION {{PacketsBefore(i) + k : k \in {j \in DOMAIN answer[i] : answer[i][j] # NoPkt}} :
              i \in SubOp}

W == INSTANCE SlidingWindow WITH
        Total <- PacketsBefore(NSubOps + 1), Limit <- AggLen \div 2,
        sent  <- Generated,
        left  <- Generated - Len(LivePositions),
        acked <- Answered,
        tx    <- [n \in 1 .. Len(txq) |-> Number(state[txq[n].position].pkt)]

(* The worker is a sliding window over its packets, although it keeps them *)
(* in a ring it reuses, finds them by PSN, and queues pointers to them:    *)
(* the answered pieces, the ring and the queue agree (worker.cpp).         *)
ImplementsWindow == W!Spec
=============================================================================
