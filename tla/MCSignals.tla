----------------------------- MODULE MCSignals -----------------------------
(* Model checking of Signals. *)
EXTENDS Signals
=============================================================================
