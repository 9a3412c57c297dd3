--------------------------- MODULE MCProcessBuffer ---------------------------
(* Queues of the NIC shorter and longer than a burst.                      *)
EXTENDS ProcessBuffer

MCPorts == {[count |-> FALSE, txd |-> 2], [count |-> TRUE, txd |-> 4]}
=============================================================================
