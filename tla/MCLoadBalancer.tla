--------------------------- MODULE MCLoadBalancer ---------------------------
(***************************************************************************)
(* Small instances of LoadBalancer for TLC.                                *)
(***************************************************************************)
EXTENDS LoadBalancer

(* A size with a remainder in words and in bytes, an empty operation, and  *)
(* one smaller than the number of workers.                                 *)
OddSizes(op) == CASE op = 1 -> 22 [] op = 2 -> 0 [] op = 3 -> 4 [] OTHER -> 16
=============================================================================
