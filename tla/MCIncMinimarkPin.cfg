SPECIFICATION FairSpec
CONSTANTS
    n1 = n1
    h1 = h1
    h2 = h2
    h3 = h3
    p1 = p1
    NULL = NULL
    Nursery = {n1}
    Heap = {h1, h2}
    Prebuilt = {}
    Index = {1}
    Kinds = {"small", "leaf"}
    MaxRoots = 2
    MaxCopies = 0
    MaxShadows = 1
    NonSmall = {"small"}
    JitFrames = TRUE
INVARIANTS
    NothingReachableFreed
    ListsAgreeWithFlags
    ShadowsKept
PROPERTIES
    CollectionEnds
    SweepingEnds
