---------------------------- MODULE Collectives ----------------------------
(***************************************************************************)
(* The collective operations of NetCCL and who sends and who receives a    *)
(* payload in each.  The daemon's op_t is reduced to its code and its root *)
(* rank; OP_REDUCE_SCATTER and OP_ALL_GATHER are left out because the      *)
(* daemon never moves a payload for them (the front end builds them from   *)
(* reduce and broadcast).                                                  *)
(***************************************************************************)

OpCode == {"ALL_REDUCE", "REDUCE", "BROADCAST"}

(* Does rank r put its data into the packets of operation op?              *)
NeedTx(op, r) ==
    \/ op.code = "ALL_REDUCE"
    \/ op.code = "REDUCE"    /\ op.root # r
    \/ op.code = "BROADCAST" /\ op.root = r

(* Does rank r copy the payload of the returning packets of operation op?  *)
NeedRx(op, r) ==
    \/ op.code = "ALL_REDUCE"
    \/ op.code = "REDUCE"    /\ op.root = r
    \/ op.code = "BROADCAST" /\ op.root # r
=============================================================================
