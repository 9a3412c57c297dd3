----------------------------- MODULE HostWindow -----------------------------
(***************************************************************************)
(* The sliding window of one worker thread per rank (worker.cpp), at the   *)
(* level the switch protocol depends on: chunks are sent in order within   *)
(* the window limit, any unacknowledged chunk of the window may be sent    *)
(* again at any moment, and a returning frame is matched by its PSN with a *)
(* position of the window.  The ring buffer, the groups, the batching of   *)
(* the poll loop and the rules that choose when to retransmit are the      *)
(* subject of module Worker; what they do is one of the steps allowed      *)
(* here.                                                                   *)
(***************************************************************************)
EXTENDS Fabric

VARIABLES
    sent,    \* sent[r]: chunks generated so far; to_send and right_psn
    left,    \* left[r]: the oldest unacknowledged chunk; to_ack and left_psn
    acked,   \* acked[r]: the chunks of rank r that were acknowledged
    data     \* data[r][p]: what rx_process_one copied for chunk p

hostVars == <<sent, left, acked, data>>

NoData == [agg0 |-> <<>>, agg1 |-> <<>>, payload |-> FALSE]

Data == [agg0 : Agg, agg1 : Agg, payload : BOOLEAN] \cup {NoData}

HostInit ==
    /\ sent = [r \in Ranks |-> 0]
    /\ left = [r \in Ranks |-> 0]
    /\ acked = [r \in Ranks |-> {}]
    /\ data = [r \in Ranks |-> [p \in Chunk |-> NoData]]

HostTypeOK ==
    /\ sent \in [Ranks -> 0 .. NChunks]
    /\ left \in [Ranks -> 0 .. NChunks]
    /\ acked \in [Ranks -> SUBSET Chunk]
    /\ data \in [Ranks -> [Chunk -> Data]]

(* The network takes the packet of rank r for chunk p.                     *)
Transmit(r, p) ==
    /\ Len(up[r]) < UpCap
    /\ up' = [up EXCEPT ![r] = Append(@, [rank |-> r, chunk |-> p])]

(* One round of the loop of shift_send(): gen_pkt() and transmit().        *)
ShiftSend(r) ==
    /\ sent[r] < NChunks
    /\ sent[r] - left[r] < WindowLimit
    /\ Transmit(r, sent[r])
    /\ sent' = [sent EXCEPT ![r] = @ + 1]
    /\ UNCHANGED <<left, acked, data, down, losses>>

(* A faulty retransmission that also sends acknowledged chunks.            *)
RetransmitAny(r, p) ==
    /\ p \in 0 .. sent[r] - 1
    /\ Transmit(r, p)
    /\ UNCHANGED <<sent, left, acked, data, down, losses>>

(* full_retrans() and collect_retrans() send packets of the window that    *)
(* are not acknowledged.                                                   *)
Retransmit(r, p) ==
    /\ p \in left[r] .. sent[r] - 1
    /\ p \notin acked[r]
    /\ Transmit(r, p)
    /\ UNCHANGED <<sent, left, acked, data, down, losses>>

INVALID_POSITION == -1

(* Subtraction of two psn_t.                                               *)
PsnDiff(a, b) == IF a >= b THEN a - b ELSE a - b + PsnMod

(* A faulty position that is not checked against the window.               *)
GetPositionUnchecked(r, psn) == left[r] + PsnDiff(psn, Psn(left[r]))

(* get_position(): the chunk of the window a PSN stands for.               *)
GetPosition(r, psn) ==
    LET left_psn  == Psn(left[r])
        right_psn == Psn(sent[r] - 1)
    IN  IF left[r] < sent[r] /\ PsnDiff(psn, left_psn) <= PsnDiff(right_psn, left_psn)
        THEN left[r] + PsnDiff(psn, left_psn)
        ELSE INVALID_POSITION

(* rx_process_one() on the frame at the head of r's downlink, and          *)
(* shift_ack().  A frame outside the window or of an acknowledged chunk is *)
(* dropped.  A frame of the wrong length is only logged: it is copied.     *)
RxProcess(r) ==
    /\ down[r] # <<>>
    /\ LET frame == Head(down[r])
           pos   == GetPosition(r, Psn(frame.chunk))
           new   == acked[r] \cup {pos}
       IN  \/ /\ pos = INVALID_POSITION \/ pos \in acked[r]
              /\ UNCHANGED hostVars
           \/ /\ pos # INVALID_POSITION /\ pos \notin acked[r]
              /\ acked' = [acked EXCEPT ![r] = new]
              /\ data' = IF NeedRx(OpOf(pos), r)
                         THEN [data EXCEPT ![r][pos] =
                                  [agg0 |-> frame.agg0, agg1 |-> frame.agg1,
                                   payload |-> frame.payload]]
                         ELSE data
              /\ \E l \in left[r] .. sent[r] :
                    /\ left[r] .. l - 1 \subseteq new
                    /\ l \notin new
                    /\ left' = [left EXCEPT ![r] = l]
              /\ UNCHANGED sent
    /\ down' = [down EXCEPT ![r] = Tail(@)]
    /\ UNCHANGED <<up, losses>>
=============================================================================
