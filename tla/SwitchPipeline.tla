--------------------------- MODULE SwitchPipeline ---------------------------
(***************************************************************************)
(* The programmable switch: the two ingress passes of a NetCCL packet and  *)
(* the egress that sends the result back (switch/ingress.p4,               *)
(* aggregator.p4, forward.p4, egress.p4).                                  *)
(*                                                                         *)
(* A packet of rank r traverses the ingress pipeline once (pass_cnt = 1),  *)
(* where the bitmap of its slot is updated and its payload is added, and   *)
(* is dropped unless the slot is complete.  The packet that completes the  *)
(* slot, or finds it complete, is recirculated and traverses the ingress a *)
(* second time (pass_cnt = 2), reading the second half of the aggregator,  *)
(* before it is multicast to the group or returned to its sender.  One     *)
(* traversal is atomic in the hardware; the two traversals are not.        *)
(***************************************************************************)
EXTENDS Fabric

VARIABLES
    reg_bitmap,        \* reg_bitmap[a]: the version and bitmap of slot a
    aggregator_array,  \* aggregator_array[a]: its agg0 and agg1 halves
    owner,             \* auxiliary: the chunk that last captured slot a
    recirc             \* the recirculation port of the group, a FIFO

switchVars == <<reg_bitmap, aggregator_array, owner, recirc>>

NoChunk == -1

(* md.version: group_id ++ psn[23:0].  The group id is 1; group 0 is never *)
(* used, so no packet has the version of a cleared register.               *)
Version(p) == <<1, Psn(p) % VerMod>>

InitVersion == <<0, 0>>

Versions == {0, 1} \X (0 .. VerMod - 1)

ZeroAgg == [q \in Ranks |-> <<>>]

SwitchInit ==
    /\ reg_bitmap = [a \in AggAddrs |-> [version |-> InitVersion, bitmap |-> {}]]
    /\ aggregator_array = [a \in AggAddrs |-> [agg0 |-> ZeroAgg, agg1 |-> ZeroAgg]]
    /\ owner = [a \in AggAddrs |-> NoChunk]
    /\ recirc = <<>>

Recirculated ==
    [rank : Ranks, chunk : Chunk, agg0 : Agg, enable_multicast : BOOLEAN]

SwitchTypeOK ==
    /\ reg_bitmap \in [AggAddrs -> [version : Versions, bitmap : SUBSET Ranks]]
    /\ aggregator_array \in [AggAddrs -> [agg0 : Agg, agg1 : Agg]]
    /\ owner \in [AggAddrs -> Chunk \cup {NoChunk}]
    /\ recirc \in Seq(Recirculated)

(* What reg_bitmap_update returns: the bitmap before this packet, empty    *)
(* when the slot holds another version.                                    *)
BitmapOld(cell, pkt) ==
    IF cell.version = Version(pkt.chunk) THEN cell.bitmap ELSE {}

(* A faulty update that keeps the ranks of the slot's previous version.    *)
RegBitmapUpdateNoReset(cell, pkt) ==
    [version |-> Version(pkt.chunk), bitmap |-> cell.bitmap \cup {pkt.rank}]

(* What reg_bitmap_update stores.                                          *)
RegBitmapUpdate(cell, pkt) ==
    [version |-> Version(pkt.chunk),
     bitmap  |-> BitmapOld(cell, pkt) \cup {pkt.rank}]

(* A faulty test that takes a retransmission for a new packet.             *)
AlwaysNew(old, pkt) == TRUE

(* check_new_packet: this rank has not yet been aggregated.                *)
NewPacket(old, pkt) == pkt.rank \notin old

FirstPacket(old) == old = {}

(* Faulty tests: a retransmission to a complete slot is not answered; the  *)
(* second rank already completes the slot.                                 *)
FullOnlyOnce(old, pkt) == old = Ranks \ {pkt.rank}

FullTooEarly(old, pkt) == old # {}

(* md.full; bitmap_flip = bitmap ^ bitmap_mask is every rank but this one. *)
Full(old, pkt) == old = Ranks \ {pkt.rank} \/ old = Ranks

(* reg_aggregate: the payload is added to what the slot holds.             *)
Aggregate(agg, pkt) ==
    [q \in Ranks |-> agg[q] \o OwnPayload(pkt.rank, pkt.chunk)[q]]

(* agg_action in the first pass: overwrite on the first packet of a slot,  *)
(* aggregate on a new one, otherwise read0, which leaves the slot alone.   *)
AggAction(agg, old, pkt) ==
    CASE FirstPacket(old) -> OwnPayload(pkt.rank, pkt.chunk)
      [] ~FirstPacket(old) /\ NewPacket(old, pkt) -> Aggregate(agg, pkt)
      [] OTHER -> agg

(* The first ingress traversal of the packet at the head of r's uplink.    *)
(* In each case of agg_action the packet leaves with agg0 as it is in the  *)
(* slot afterwards.  A packet of a slot that is not full is dropped.       *)
IngressPass1(r) ==
    /\ up[r] # <<>>
    /\ LET pkt == Head(up[r])
           a   == AggAddr(pkt.chunk)
           old == BitmapOld(reg_bitmap[a], pkt)
           agg == [agg0 |-> AggAction(aggregator_array[a].agg0, old, pkt),
                   agg1 |-> AggAction(aggregator_array[a].agg1, old, pkt)]
       IN  /\ Full(old, pkt) => Len(recirc) < RecircCap
           /\ reg_bitmap' = [reg_bitmap EXCEPT ![a] = RegBitmapUpdate(@, pkt)]
           /\ aggregator_array' = [aggregator_array EXCEPT ![a] = agg]
           /\ owner' = [owner EXCEPT ![a] = pkt.chunk]
           /\ recirc' = IF Full(old, pkt)
                        THEN Append(recirc,
                                 [rank  |-> pkt.rank,
                                  chunk |-> pkt.chunk,
                                  agg0  |-> agg.agg0,
                                  enable_multicast |-> NewPacket(old, pkt)])
                        ELSE recirc
    /\ up' = [up EXCEPT ![r] = Tail(@)]
    /\ UNCHANGED <<down, losses>>

(* Egress cuts the payload of a frame whose receiver does not need it.     *)
KeepPayload(op, r) ==
    ~ \/ op.code = "REDUCE" /\ r # op.root
      \/ op.code = "BROADCAST" /\ r = op.root

(* The ranks a packet of the second pass is sent to.                       *)
Destinations(pkt) == IF pkt.enable_multicast THEN Ranks ELSE {pkt.rank}

(* The second ingress traversal (read1) and the egress of its copies.      *)
IngressPass2 ==
    /\ recirc # <<>>
    /\ \A q \in Destinations(Head(recirc)) : Len(down[q]) < DownCap
    /\ LET pkt == Head(recirc)
           agg1 == aggregator_array[AggAddr(pkt.chunk)].agg1
       IN  down' = [q \in Ranks |->
                       IF q \in Destinations(pkt)
                       THEN Append(down[q],
                                [chunk |-> pkt.chunk,
                                 agg0  |-> pkt.agg0,
                                 agg1  |-> agg1,
                                 payload |-> KeepPayload(OpOf(pkt.chunk), q)])
                       ELSE down[q]]
    /\ recirc' = Tail(recirc)
    /\ UNCHANGED <<reg_bitmap, aggregator_array, owner, up, losses>>

(* The recirculation port drops a packet.                                  *)
LoseRecirc ==
    /\ losses < MaxLoss
    /\ recirc # <<>>
    /\ recirc' = Tail(recirc)
    /\ losses' = losses + 1
    /\ UNCHANGED <<reg_bitmap, aggregator_array, owner, up, down>>
=============================================================================
