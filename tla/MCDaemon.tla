------------------------------ MODULE MCDaemon ------------------------------
(* Five processors on two sockets; the NIC is on socket 1, which has three *)
(* of them.                                                                *)
EXTENDS Daemon, TLC

MCDevOf == "10.0.0.1" :> "ens10f1"
MCPciOf == "ens10f1" :> "e3:00.1"
MCNodeOf == "e3:00.1" :> 1
MCSocketList == <<0, 1, 1, 0, 1>>
=============================================================================
