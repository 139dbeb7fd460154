SPECIFICATION Spec
CONSTANTS
    n1 = n1
    h1 = h1
    h2 = h2
    h3 = h3
    p1 = p1
    NULL = NULL
    Nursery = {n1}
    Heap = {h1, h2}
    Prebuilt = {p1}
    Index = {1}
    Kinds = {"small", "large"}
    MaxRoots = 1
    MaxCopies = 1
    MaxShadows = 0
    NonSmall = {}
    JitFrames = TRUE
SYMMETRY Symmetry
INVARIANTS
    NothingReachableFreed
PROPERTIES
    NoGarbageSurvives
