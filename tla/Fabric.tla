------------------------------- MODULE Fabric -------------------------------
(***************************************************************************)
(* What the hosts and the switch share: the packet header, the arithmetic  *)
(* that derives the wire PSN, the aggregator address and the window limit, *)
(* and the links between the hosts and the switch.                         *)
(*                                                                         *)
(* One group, one worker thread per rank.  A CHUNK is the n-th packet a    *)
(* worker thread generates for the group since the group was created; it   *)
(* stands for the payload, and every header field is a function of the     *)
(* chunk and of the rank.  All ranks issue the same operations in the same *)
(* order, so chunk n belongs to the same operation, OpOf(n), everywhere.   *)
(***************************************************************************)
EXTENDS Integers, Sequences, Collectives

CONSTANTS
    Ranks,      \* the members of the group
    NChunks,    \* how many chunks the operations of a behaviour add up to
    OpOf(_),    \* the operation a chunk belongs to
    AggLen,     \* sub_op->agg_len: aggregator slots of this worker thread
    StartPsn,   \* the group's psn when its first chunk is generated
    PsnMod,     \* 2^32 in the code: psn_t is a uint32_t
    VerMod,     \* 2^24 in the code: the switch compares psn[23:0]
    UpCap,      \* bound on the packets queued from one host to the switch
    RecircCap,  \* bound on the packets queued in the recirculation port
    DownCap,    \* bound on the frames queued from the switch to one host
    MaxLoss     \* bound on the packets the network loses in a behaviour

ASSUME FabricAssumption ==
    /\ Ranks # {}
    /\ NChunks \in Nat
    /\ AggLen \in Nat /\ AggLen >= 2
    /\ PsnMod \in Nat /\ PsnMod >= AggLen
    /\ StartPsn \in 0 .. PsnMod - 1
    /\ VerMod \in Nat /\ VerMod >= 2
    /\ UpCap \in Nat /\ RecircCap \in Nat /\ DownCap \in Nat
    /\ MaxLoss \in Nat
    /\ \A p \in 0 .. NChunks - 1 : OpOf(p) \in [code : OpCode, root : Ranks]

VARIABLES
    up,         \* up[r]: packets on their way from rank r to the switch
    down,       \* down[r]: packets on their way from the switch to rank r
    losses      \* number of packets lost so far

linkVars == <<up, down, losses>>

Chunk == 0 .. NChunks - 1

(* state->psn = start_psn + pkt_sent, in 32 bits.  group_ctx[].psn is not  *)
(* reset when a group id is used again, so a group may start at any PSN.   *)
Psn(p) == (StartPsn + p) % PsnMod

(* header->inc.agg_addr, relative to sub_op->agg_addr.                     *)
AggAddr(p) == Psn(p) % AggLen

AggAddrs == 0 .. AggLen - 1

(* A faulty limit that lets one window fill all the slots.                 *)
WholeWindow == AggLen

(* current_switch_window_limit, set by gen_pkt().                          *)
WindowLimit == AggLen \div 2

(***************************************************************************)
(* The data of a payload is abstracted to where it comes from: for each    *)
(* rank the sequence of chunks of that rank that were added up.  The value *)
(* a rank must receive for chunk p has, for each rank that contributes a   *)
(* payload, exactly one copy of its chunk p, and nothing from the others.  *)
(***************************************************************************)
Agg == [Ranks -> Seq(Chunk)]

(* The value of the payload that rank r sends for chunk p (zeros when the  *)
(* packet carries no payload).                                             *)
OwnPayload(r, p) ==
    [q \in Ranks |-> IF q = r /\ NeedTx(OpOf(p), r) THEN <<p>> ELSE <<>>]

(* The sum of chunk p over the ranks of a set B.                           *)
SumOver(p, B) ==
    [q \in Ranks |-> IF q \in B /\ NeedTx(OpOf(p), q) THEN <<p>> ELSE <<>>]

Packet == [rank : Ranks, chunk : Chunk]

(* A frame on its way to a rank; payload says whether the frame carries    *)
(* one or was cut to its headers.                                          *)
Frame == [chunk : Chunk, agg0 : Agg, agg1 : Agg, payload : BOOLEAN]

LinkInit ==
    /\ up = [r \in Ranks |-> <<>>]
    /\ down = [r \in Ranks |-> <<>>]
    /\ losses = 0

LinkTypeOK ==
    /\ up \in [Ranks -> Seq(Packet)]
    /\ down \in [Ranks -> Seq(Frame)]
    /\ losses \in Nat

(* A host's uplink or a switch port drops a packet (full queue, bit error, *)
(* random_drop.p4).                                                        *)
LoseUp(r) ==
    /\ losses < MaxLoss
    /\ up[r] # <<>>
    /\ up' = [up EXCEPT ![r] = Tail(@)]
    /\ losses' = losses + 1
    /\ UNCHANGED down

LoseDown(r) ==
    /\ losses < MaxLoss
    /\ down[r] # <<>>
    /\ down' = [down EXCEPT ![r] = Tail(@)]
    /\ losses' = losses + 1
    /\ UNCHANGED up
=============================================================================
