------------------------------ MODULE MCRLock ------------------------------
(* Model checking of RLock. *)
EXTENDS RLock
=============================================================================
