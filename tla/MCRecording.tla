---------------------------- MODULE MCRecording ----------------------------
(* Small instances of Recording for TLC.                                   *)
EXTENDS Recording, TLC

(* Requests are interchangeable.                                           *)
Symmetry == Permutations(Client)
=============================================================================
