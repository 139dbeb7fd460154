--------------------------- MODULE MCIncMinimark ---------------------------
(* Model checking of IncMinimark.  The blocks of the heap are interchangeable. *)
EXTENDS IncMinimark, TLC

CONSTANTS n1, h1, h2, h3, p1

Symmetry == Permutations(Heap)

(* Bound of the run about copies: the first major collection up to its     *)
(* sweep, in which the second item of an array may hold only the array,    *)
(* and the first one only another object.                                  *)
FirstMarking ==
    /\ gc_state \in {"SCANNING", "MARKING"}
    /\ \A a \in Addr : ptr[a][2] \in {NULL, a} /\ ptr[a][1] # a
============================================================================
