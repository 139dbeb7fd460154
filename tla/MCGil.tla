-------------------------------- MODULE MCGil --------------------------------
(* Model checking of Gil. *)
EXTENDS Gil
=============================================================================
