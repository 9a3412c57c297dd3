---------------------------- MODULE LoadBalancer ----------------------------
(***************************************************************************)
(* The daemon's load balancer thread (load_balancer.cpp) between the       *)
(* application, with which it shares a queue pair in shared memory, and    *)
(* the worker threads, with each of which it has a queue pair              *)
(* (common.hpp, queue_pair_t).  It splits each operation into one          *)
(* sub-operation per worker, and answers the operation when every worker   *)
(* has answered its part.  A worker answers in order, as module Worker     *)
(* shows, and pops a request some time before it answers it.               *)
(***************************************************************************)
EXTENDS Integers, Sequences

CONSTANTS
    NWorker,         \* worker threads, numbered from 0
    NOps,            \* operations the application submits in a behaviour
    OpSize(_),       \* op->size, in bytes
    GroupAggAddr,    \* op->group.agg_addr
    GroupAggLen,     \* op->group.agg_len
    QUEUE_SIZE       \* capacity of all queue pairs

Workers == 0 .. NWorker - 1

Op == 1 .. NOps

ASSUME LoadBalancerAssumption ==
    /\ NWorker \in Nat \ {0}
    /\ NOps \in Nat
    /\ QUEUE_SIZE \in Nat \ {0}
    /\ GroupAggAddr \in Nat /\ GroupAggLen \in Nat
    /\ \A op \in Op : OpSize(op) \in Nat

VARIABLES
    shm_qp,     \* the application's queue pair: operations
    qp,         \* qp[w]: the queue pair of worker w: sub-operations
    posting,    \* the loop of try_post_op(): its operation, i and offset
    working,    \* working[w]: popped by worker w and not yet answered
    finished,   \* finished[w]: the operations worker w has answered
    split,      \* split[op]: the sub-operations made of op so far
    submitted,  \* number of operations submitted so far
    collected   \* the operations answered to the application so far

vars == <<shm_qp, qp, posting, working, finished, split, submitted, collected>>

EmptyQp == [wq |-> <<>>, cq |-> <<>>, num_in_queue |-> 0]

Idle == [op |-> 0, i |-> 0, offset |-> 0]

Init ==
    /\ shm_qp = EmptyQp
    /\ qp = [w \in Workers |-> EmptyQp]
    /\ posting = Idle
    /\ working = [w \in Workers |-> <<>>]
    /\ finished = [w \in Workers |-> {}]
    /\ split = [op \in Op |-> <<>>]
    /\ submitted = 0
    /\ collected = <<>>

-----------------------------------------------------------------------------
(* A faulty push_req() that does not count what is outstanding.            *)
PushReqUncounted(q, size, e) == [q EXCEPT !.wq = Append(@, e)]

(* queue_pair_t::push_req(), which does nothing when the pair is full.     *)
PushReq(q, size, e) ==
    IF q.num_in_queue = size THEN q
    ELSE [q EXCEPT !.wq = Append(@, e), !.num_in_queue = @ + 1]

PopReq(q) == [q EXCEPT !.wq = Tail(@)]

PushResp(q, e) == [q EXCEPT !.cq = Append(@, e)]

PopResp(q) == [q EXCEPT !.cq = Tail(@), !.num_in_queue = @ - 1]

-----------------------------------------------------------------------------
(* A faulty split that loses the remainder of the division.                *)
SubSizeNoRest(size, i) ==
    ((size \div 4) \div NWorker) * 4 + (IF i = NWorker - 1 THEN size % 4 ELSE 0)

(* The share of worker i: whole int32 as even as possible, the bytes that  *)
(* are left over for the last worker.                                      *)
SubSize(size, i) ==
    LET words == size \div 4
    IN  (words \div NWorker + (IF i < words % NWorker THEN 1 ELSE 0)) * 4
            + (IF i = NWorker - 1 THEN size % 4 ELSE 0)

SubAggLen == GroupAggLen \div NWorker

NewSubOp(op, i, offset) ==
    [op |-> op, data |-> offset, size |-> SubSize(OpSize(op), i),
     agg_addr |-> GroupAggAddr + SubAggLen * i, agg_len |-> SubAggLen]

(* The application submits its next operation, when there is room.         *)
Submit ==
    /\ submitted < NOps
    /\ shm_qp.num_in_queue < QUEUE_SIZE
    /\ submitted' = submitted + 1
    /\ shm_qp' = PushReq(shm_qp, QUEUE_SIZE, submitted + 1)
    /\ UNCHANGED <<qp, posting, working, finished, split, collected>>

(* The application takes the answer to an operation.                       *)
Collect ==
    /\ shm_qp.cq # <<>>
    /\ collected' = Append(collected, Head(shm_qp.cq))
    /\ shm_qp' = PopResp(shm_qp)
    /\ UNCHANGED <<qp, posting, working, finished, split, submitted>>

(* try_post_op() up to its loop.                                           *)
TryPostOp ==
    /\ posting = Idle
    /\ shm_qp.wq # <<>>
    /\ posting' = [op |-> Head(shm_qp.wq), i |-> 0, offset |-> 0]
    /\ shm_qp' = PopReq(shm_qp)
    /\ UNCHANGED <<qp, working, finished, split, submitted, collected>>

(* A faulty loop that leaves out the last worker.                          *)
LastRoundEarly(i) == i + 1 >= NWorker - 1

(* The condition of the loop of try_post_op().                             *)
LastRound(i) == i + 1 >= NWorker

(* One round of its loop; the workers run meanwhile.                       *)
PostSubOp ==
    /\ posting # Idle
    /\ LET i   == posting.i
           sub == NewSubOp(posting.op, i, posting.offset)
       IN  /\ qp' = [qp EXCEPT ![i] = PushReq(@, QUEUE_SIZE, sub)]
           /\ split' = [split EXCEPT ![posting.op] = Append(@, sub)]
           /\ posting' = IF LastRound(i) THEN Idle
                         ELSE [posting EXCEPT !.i = @ + 1, !.offset = @ + sub.size]
    /\ UNCHANGED <<shm_qp, working, finished, submitted, collected>>

(* The first loop of try_complete_op().                                    *)
AllAnswered == \A w \in Workers : qp[w].cq # <<>>

(* A faulty completion that only waits for the last worker.                *)
TryCompleteOpLastOnly ==
    /\ posting = Idle
    /\ qp[NWorker - 1].cq # <<>>
    /\ shm_qp' = PushResp(shm_qp, Head(qp[NWorker - 1].cq).op)
    /\ qp' = [w \in Workers |-> IF qp[w].cq = <<>> THEN qp[w] ELSE PopResp(qp[w])]
    /\ UNCHANGED <<posting, working, finished, split, submitted, collected>>

(* try_complete_op(): the operation of the last sub-operation is answered. *)
TryCompleteOp ==
    /\ posting = Idle
    /\ AllAnswered
    /\ shm_qp' = PushResp(shm_qp, Head(qp[NWorker - 1].cq).op)
    /\ qp' = [w \in Workers |-> PopResp(qp[w])]
    /\ UNCHANGED <<posting, working, finished, split, submitted, collected>>

(* Worker w generates the last packet of a sub-operation.                  *)
WorkerPop(w) ==
    /\ qp[w].wq # <<>>
    /\ working' = [working EXCEPT ![w] = Append(@, Head(qp[w].wq))]
    /\ qp' = [qp EXCEPT ![w] = PopReq(@)]
    /\ UNCHANGED <<shm_qp, posting, finished, split, submitted, collected>>

(* Worker w completes its oldest sub-operation.                            *)
WorkerComplete(w) ==
    /\ working[w] # <<>>
    /\ qp' = [qp EXCEPT ![w] = PushResp(@, Head(working[w]))]
    /\ finished' = [finished EXCEPT ![w] = @ \cup {Head(working[w]).op}]
    /\ working' = [working EXCEPT ![w] = Tail(@)]
    /\ UNCHANGED <<shm_qp, posting, split, submitted, collected>>

(* A round of the load balancer that finds nothing to do.                  *)
Poll ==
    /\ posting = Idle
    /\ shm_qp.wq = <<>>
    /\ ~AllAnswered
    /\ UNCHANGED vars

Next ==
    \/ Submit
    \/ Collect
    \/ TryPostOp
    \/ PostSubOp
    \/ TryCompleteOp
    \/ \E w \in Workers : WorkerPop(w) \/ WorkerComplete(w)
    \/ Poll

Spec == Init /\ [][Next]_vars

(* The threads poll, the application takes its answers, and every worker   *)
(* completes what it was given (module Worker, AllSubOpsComplete).         *)
Fairness ==
    /\ WF_vars(Submit) /\ WF_vars(Collect)
    /\ WF_vars(TryPostOp) /\ WF_vars(PostSubOp) /\ WF_vars(TryCompleteOp)
    /\ \A w \in Workers : WF_vars(WorkerPop(w)) /\ WF_vars(WorkerComplete(w))

FairSpec == Spec /\ Fairness

-----------------------------------------------------------------------------
SubOpType == [op : Op, data : Nat, size : Nat, agg_addr : Nat, agg_len : Nat]

TypeOK ==
    /\ shm_qp \in [wq : Seq(Op), cq : Seq(Op), num_in_queue : 0 .. QUEUE_SIZE]
    /\ qp \in [Workers -> [wq : Seq(SubOpType), cq : Seq(SubOpType),
                           num_in_queue : 0 .. QUEUE_SIZE]]
    /\ posting \in [op : Op \cup {0}, i : Workers, offset : Nat]
    /\ working \in [Workers -> Seq(SubOpType)]
    /\ finished \in [Workers -> SUBSET Op]
    /\ split \in [Op -> Seq(SubOpType)]
    /\ submitted \in 0 .. NOps
    /\ collected \in Seq(Op)

(* No queue ever overflows: the assertions on push() in push_req() and     *)
(* push_resp() never fail, although nothing checks for room in a           *)
(* completion queue (common.hpp, queue_pair_t).                            *)
QueuesFit ==
    /\ TypeOK
    /\ Len(shm_qp.wq) <= QUEUE_SIZE /\ Len(shm_qp.cq) <= QUEUE_SIZE
    /\ \A w \in Workers :
        /\ Len(qp[w].wq) <= QUEUE_SIZE
        /\ Len(qp[w].cq) <= QUEUE_SIZE

(* When every worker has an answer, the oldest ones belong to the same     *)
(* operation: try_complete_op() takes the operation from the last one.     *)
FrontsAgree ==
    (\A w \in Workers : qp[w].cq # <<>>) =>
        \A w, v \in Workers : Head(qp[w].cq).op = Head(qp[v].cq).op

(* The oldest answers agree, and operations are answered in the order of   *)
(* their submission, each once, and only when every worker has finished    *)
(* its part: no sub-operation is dropped by a full queue or counted for    *)
(* its neighbour (load_balancer.cpp, try_post_op and try_complete_op).     *)
AnsweredWhole ==
    /\ FrontsAgree
    /\ LET answered == collected \o shm_qp.cq
       IN  \A n \in 1 .. Len(answered) :
               answered[n] = n /\ \A w \in Workers : n \in finished[w]

(* The sub-operations of an operation cover its buffer, each byte once,    *)
(* and the slots of two workers are disjoint and within those of the group *)
(* (load_balancer.cpp, try_post_op).                                       *)
SplitExact ==
    \A op \in Op : Len(split[op]) = NWorker =>
        /\ \A b \in 0 .. OpSize(op) - 1 :
            \E i \in 1 .. NWorker :
                /\ b \in split[op][i].data .. split[op][i].data + split[op][i].size - 1
                /\ \A j \in 1 .. NWorker \ {i} :
                    b \notin split[op][j].data .. split[op][j].data + split[op][j].size - 1
        /\ \A i \in 1 .. NWorker :
            /\ split[op][i].data + split[op][i].size <= OpSize(op)
            /\ split[op][i].agg_addr + split[op][i].agg_len <= GroupAggAddr + GroupAggLen
            /\ \A j \in 1 .. i - 1 :
                split[op][j].agg_addr + split[op][j].agg_len <= split[op][i].agg_addr

(* Every operation is answered and taken (load_balancer.cpp).              *)
AllOpsAnswered == <>(Len(collected) = NOps)
=============================================================================
