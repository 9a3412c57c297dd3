------------------------ MODULE MCCongestionControl ------------------------
(* Half packets as the unit; a switch window of five packets, more than    *)
(* two bursts of two packets.                                              *)
EXTENDS CongestionControl
=============================================================================
