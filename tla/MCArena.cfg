SPECIFICATION Spec
CONSTANTS
    a1 = a1
    a2 = a2
    NULL = NULL
    Arenas = {a1, a2}
    max_pages_per_arena = 2
    PageWords = 3
    MaxSize = 2
SYMMETRY Symmetry
CHECK_DEADLOCK FALSE
INVARIANTS
    BlocksDisjoint
    PagesAccounted
    FreeBlocksInOrder
    ArenasAccounted
