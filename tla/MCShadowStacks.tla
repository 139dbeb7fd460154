--------------------------- MODULE MCShadowStacks ---------------------------
(* Model checking of ShadowStacks. *)
EXTENDS ShadowStacks, TLC

(* Idents are interchangeable. *)
Symmetry == Permutations(Tid)

(* So are buffers: with Buffer a set of numbers, it is enough to let        *)
(* raw_malloc return the smallest free one. *)
SmallestFree ==
    \A b \in Buffer : size[b] = 0 /\ size'[b] > 0 =>
        \A c \in Buffer : c < b => size[c] > 0
=============================================================================
