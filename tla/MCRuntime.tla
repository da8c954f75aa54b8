------------------------------ MODULE MCRuntime ------------------------------
(***************************************************************************)
(* An instance of Desktop for TLC.                                         *)
(***************************************************************************)
EXTENDS Desktop
=============================================================================
