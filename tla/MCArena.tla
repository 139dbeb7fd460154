------------------------------ MODULE MCArena ------------------------------
EXTENDS ArenaCollection, TLC

CONSTANTS a1, a2

Symmetry == Permutations(Arenas)
============================================================================
