-------------------------- MODULE MCGroupLifecycle --------------------------
(***************************************************************************)
(* Small instances of GroupLifecycle for TLC.                              *)
(***************************************************************************)
EXTENDS GroupLifecycle
=============================================================================
