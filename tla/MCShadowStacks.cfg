CONSTANTS
    Tid = {t1, t2}
    NoTid = none
    Buffer = {1, 2, 3, 4, 5, 6}
    NULL = null
    InitialDepth = 1
    MaxDepth = 3
SPECIFICATION Spec
SYMMETRY Symmetry
ACTION_CONSTRAINT SmallestFree
INVARIANTS RunsOnOwnStack RootsKept BuffersOwnedOnce RestoredStackExists StacksLargeEnough
