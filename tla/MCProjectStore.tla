--------------------------- MODULE MCProjectStore ---------------------------
(* Small instances of ProjectStore for TLC.                                *)
EXTENDS ProjectStore, TLC

(* Every request can find an object: one per thread and per cached view.   *)
ASSUME EnoughSlots == Cardinality(Slot) >= Cardinality(Thread) + MaxViews

(* The legacy project and the process-wide store are not interchangeable   *)
(* with the others; threads and the remaining objects are.                 *)
Symmetry == Permutations(Thread) \cup Permutations(Slot)
=============================================================================
