--------------------------- MODULE AggregationInv ---------------------------
(***************************************************************************)
(* The inductive invariant behind the safety of Aggregation.  The idea is  *)
(* that packets and frames never trail far behind: queues are FIFO and a   *)
(* host only resends chunks of its window, so once a chunk c was sent by a *)
(* rank, what is behind it in that rank's queues is younger than c by less *)
(* than a window (Recent).  Two windows fit in one cycle of the slots, so  *)
(* a packet can only meet its own chunk, or the one a cycle earlier, in    *)
(* its slot.                                                               *)
(***************************************************************************)
EXTENDS Aggregation

(* What the proofs need of the constants: the slots and the versions go on *)
(* without a jump where the PSN wraps, and the version of a slot changes   *)
(* from one cycle of the slots to the next.  In the code PsnMod is 2^32    *)
(* and VerMod 2^24, so this is AggLen being a power of two below 2^24.     *)
Aligned ==
    /\ PsnMod % AggLen = 0
    /\ PsnMod % VerMod = 0
    /\ AggLen % VerMod # 0

(* Nothing in queue s is a whole window older than chunk c.                *)
Recent(s, c) == \A i \in 1 .. Len(s) : s[i].chunk + WindowLimit > c

Ordered(s) ==
    \A i, j \in 1 .. Len(s) : i < j => s[j].chunk + WindowLimit > s[i].chunk

(* Rank q has sent chunk c, and what it sends from now on is recent.       *)
SentBy(q, c) == c < sent[q] /\ Recent(up[q], c)

Reached(c) == \A q \in Ranks : SentBy(q, c)

WindowInv ==
    \A r \in Ranks :
        /\ left[r] <= sent[r]
        /\ sent[r] <= left[r] + WindowLimit
        /\ 0 .. left[r] - 1 \subseteq acked[r]
        /\ acked[r] \subseteq 0 .. sent[r] - 1
        /\ left[r] \notin acked[r]

UpInv ==
    \A r \in Ranks :
        /\ \A i \in 1 .. Len(up[r]) : up[r][i].rank = r /\ up[r][i].chunk < sent[r]
        /\ Ordered(up[r])

EmptySlot(a) == reg_bitmap[a] = [version |-> InitVersion, bitmap |-> {}]

(* Slot a holds the sum of its owner's chunk over the ranks of its bitmap. *)
OwnedSlot(a) ==
    LET c == owner[a]
        B == reg_bitmap[a].bitmap
    IN  /\ AggAddr(c) = a
        /\ reg_bitmap[a].version = Version(c)
        /\ B # {}
        /\ \A q \in B : SentBy(q, c)
        /\ aggregator_array[a] = [agg0 |-> SumOver(c, B), agg1 |-> SumOver(c, B)]

SlotInv ==
    \A a \in AggAddrs : IF owner[a] = NoChunk THEN EmptySlot(a) ELSE OwnedSlot(a)

RecircInv ==
    /\ \A i \in 1 .. Len(recirc) :
        LET c == recirc[i].chunk
        IN  /\ Reached(c)
            /\ owner[AggAddr(c)] = c
            /\ reg_bitmap[AggAddr(c)].bitmap = Ranks
            /\ recirc[i].agg0 = SumOver(c, Ranks)
    /\ Ordered(recirc)

(* Chunk c has left the switch: its slot will never again hold an older    *)
(* chunk, and what is still to come is recent.                             *)
Served(c) ==
    /\ Reached(c)
    /\ Recent(recirc, c)
    /\ owner[AggAddr(c)] >= c

DownInv ==
    \A r \in Ranks :
        /\ \A i \in 1 .. Len(down[r]) :
            LET f == down[r][i]
            IN  /\ Served(f.chunk)
                /\ f.agg0 = SumOver(f.chunk, Ranks)
                /\ f.agg1 = SumOver(f.chunk, Ranks)
                /\ f.payload = KeepPayload(OpOf(f.chunk), r)
        /\ Ordered(down[r])

AckInv ==
    \A r \in Ranks : \A c \in acked[r] :
        Served(c) /\ Recent(down[r], c)

(* Everything that is in flight or acknowledged fits the windows and the   *)
(* slots: the invariant that each step of the hosts, the links and the     *)
(* switch preserves, from which ResultCorrect, Lockstep, RecircStable and  *)
(* SlotMonotone follow.                                                    *)
IndInv ==
    /\ TypeOK
    /\ WindowInv
    /\ UpInv
    /\ SlotInv
    /\ RecircInv
    /\ DownInv
    /\ AckInv
    /\ ResultCorrect
=============================================================================
