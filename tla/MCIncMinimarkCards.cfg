SPECIFICATION Spec
CONSTANTS
    n1 = n1
    h1 = h1
    h2 = h2
    h3 = h3
    p1 = p1
    NULL = NULL
    Nursery = {n1}
    Heap = {h1, h2, h3}
    Prebuilt = {}
    Index = {1}
    Kinds = {"large"}
    MaxRoots = 2
    MaxCopies = 1
    MaxShadows = 0
    NonSmall = {}
    JitFrames = TRUE
SYMMETRY Symmetry
INVARIANTS
    BlackNeverPointsToWhite
    CleanAfterMinor
