---------------------------- MODULE MCImportLock ----------------------------
(* Model checking of ImportLock. *)
EXTENDS ImportLock, TLC

(* Threads are interchangeable. *)
Symmetry == Permutations(Thread)
=============================================================================
