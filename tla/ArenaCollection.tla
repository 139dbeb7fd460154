-------------------------- MODULE ArenaCollection --------------------------
(***************************************************************************)
(* The allocator of rpython/memory/gc/minimarkpage.py, which gives         *)
(* incminimark.py the memory of small old objects.  Arenas hold pages, and *)
(* a page holds blocks of one size.  A mass free walks the pages that were *)
(* in use when it began, a few per call, and the program allocates between *)
(* the calls.                                                              *)
(*                                                                         *)
(* The chained lists of pages and of arenas are sets: which of their       *)
(* members comes first does not matter here.  The chained list of the free *)
(* blocks in a page is a sequence; nfree and nfreepages are lengths.       *)
(***************************************************************************)
EXTENDS Integers, Sequences, FiniteSets

CONSTANTS
    Arenas,                \* the addresses the operating system may return
    NULL,
    max_pages_per_arena,
    PageWords,             \* the size of a page without its header, in words
    MaxSize                \* small_request_threshold, in words

ASSUME ArenaAssumption ==
    /\ NULL \notin Arenas
    /\ max_pages_per_arena \in Nat /\ max_pages_per_arena > 1
    /\ MaxSize \in Nat /\ MaxSize > 0
    /\ PageWords \in Nat /\ PageWords >= MaxSize

Classes == 1..MaxSize
Page == Arenas \X (1..max_pages_per_arena)
nblocks_for_size(c) == PageWords \div c

VARIABLES
    arenas_lists,                \* by the number of free pages
    current_arena, num_uninitialized_pages, min_empty_nfreepages,
    totalpages,                  \* of each arena; 0 if it is not allocated
    freepages,                   \* the pages of each arena that are free again
    size,                        \* the size class of each page; 0 if not in use
    freeblock,                   \* the chained free blocks of each page ...
    uninitialized,               \* ... and the first block never used
    page_for_size, full_page_for_size,
    old_page_for_size, old_full_page_for_size,
    size_class_with_old_pages,
    total_memory_used,
    request,                     \* the size malloc is looking for a page for
    rehashed,                    \* allocate_new_arena has tried twice
    walk,                        \* the locals of walk_page while it runs
    live                         \* history: the <<page, word, size>> in use

lists == <<page_for_size, full_page_for_size>>
old == <<old_page_for_size, old_full_page_for_size, size_class_with_old_pages>>
arenas == <<arenas_lists, current_arena, num_uninitialized_pages, min_empty_nfreepages,
            totalpages>>
pages == <<size, freeblock, uninitialized>>
client == <<total_memory_used, live>>
vars == <<lists, old, arenas, freepages, pages, client, request, rehashed, walk>>

nfreepages(a) == Cardinality(freepages[a])
Empty == [c \in Classes |-> {}]
NoWalk == [class |-> 0]

Init ==
    /\ arenas_lists = [i \in 0..max_pages_per_arena - 1 |-> {}]
    /\ current_arena = NULL /\ num_uninitialized_pages = 0
    /\ min_empty_nfreepages = max_pages_per_arena
    /\ totalpages = [a \in Arenas |-> 0] /\ freepages = [a \in Arenas |-> {}]
    /\ size = [p \in Page |-> 0]
    /\ freeblock = [p \in Page |-> << >>] /\ uninitialized = [p \in Page |-> 1]
    /\ page_for_size = Empty /\ full_page_for_size = Empty
    /\ old_page_for_size = Empty /\ old_full_page_for_size = Empty
    /\ size_class_with_old_pages = -1
    /\ total_memory_used = 0 /\ live = {}
    /\ request = 0 /\ rehashed = FALSE /\ walk = NoWalk

----------------------------------------------------------------------------
(* malloc.  When page_for_size is empty it first calls allocate_new_page,  *)
(* and that calls allocate_new_arena.                                      *)

IsFull(c, chain, fresh) == chain = << >> /\ fresh > nblocks_for_size(c)

malloc(c, p) ==
    LET reuse == freeblock[p] # << >>
        b == IF reuse THEN Head(freeblock[p]) ELSE uninitialized[p]
        chain == IF reuse THEN Tail(freeblock[p]) ELSE << >>
        fresh == IF reuse THEN uninitialized[p] ELSE b + 1
    IN /\ request \in {0, c} /\ p \in page_for_size[c]
       /\ request' = 0
       /\ freeblock' = [freeblock EXCEPT ![p] = chain]
       /\ uninitialized' = [uninitialized EXCEPT ![p] = fresh]
       /\ IF IsFull(c, chain, fresh)
            THEN /\ page_for_size' = [page_for_size EXCEPT ![c] = @ \ {p}]
                 /\ full_page_for_size' = [full_page_for_size EXCEPT ![c] = @ \cup {p}]
            ELSE UNCHANGED lists
       /\ live' = live \cup {<<p, (b - 1) * c, c>>}
       /\ total_memory_used' = total_memory_used + c
       /\ UNCHANGED <<old, arenas, freepages, size, rehashed>>

NeedsPage(c) == request \in {0, c} /\ page_for_size[c] = {}

(* The next page of the current arena is one that was freed, if there is   *)
(* any.  An arena without pages goes to arenas_lists[0].                   *)
allocate_new_page(c, n) ==
    LET a == current_arena
        p == <<a, n>>
    IN /\ NeedsPage(c) /\ a # NULL
       /\ request' = c
       /\ IF freepages[a] # {}
            THEN n \in freepages[a] /\ UNCHANGED num_uninitialized_pages
            ELSE /\ n = totalpages[a] - num_uninitialized_pages + 1
                 /\ num_uninitialized_pages' = num_uninitialized_pages - 1
       /\ freepages' = [freepages EXCEPT ![a] = @ \ {n}]
       /\ IF freepages'[a] = {} /\ num_uninitialized_pages' = 0
            THEN /\ arenas_lists' = [arenas_lists EXCEPT ![0] = @ \cup {a}]
                 /\ current_arena' = NULL
            ELSE UNCHANGED <<arenas_lists, current_arena>>
       /\ size' = [size EXCEPT ![p] = c]
       /\ freeblock' = [freeblock EXCEPT ![p] = << >>]
       /\ uninitialized' = [uninitialized EXCEPT ![p] = 1]
       /\ page_for_size' = [page_for_size EXCEPT ![c] = {p}]
       /\ UNCHANGED <<full_page_for_size, old, min_empty_nfreepages, totalpages, client,
                      rehashed>>

(* The i that _pick_next_arena looks at, upwards, and that have an arena.  *)
Candidates == {i \in min_empty_nfreepages..max_pages_per_arena - 1 : arenas_lists[i] # {}}

_pick_next_arena(c) ==
    /\ NeedsPage(c) /\ current_arena = NULL
    /\ request' = c /\ rehashed' = FALSE
    /\ \E i \in Candidates : \E a \in arenas_lists[i] :
         /\ \A j \in Candidates : i <= j
         /\ min_empty_nfreepages' = i
         /\ current_arena' = a
         /\ arenas_lists' = [arenas_lists EXCEPT ![i] = @ \ {a}]
    /\ UNCHANGED <<lists, old, num_uninitialized_pages, totalpages, freepages, pages, client>>

(* Mutant: min_empty_nfreepages is left as it is.                          *)
MinEmptyKept == min_empty_nfreepages

MinEmptyAfterRehash == 1

(* Arenas move to the list for the pages they have now; those whose pages  *)
(* are all free are given back.  The current arena stays.                  *)
_rehash_arenas_lists ==
    LET inLists == UNION {arenas_lists[i] : i \in DOMAIN arenas_lists}
        empty == {a \in inLists : nfreepages(a) = totalpages[a]}
    IN /\ arenas_lists' = [i \in DOMAIN arenas_lists |->
                             {a \in inLists \ empty : nfreepages(a) = i}]
       /\ totalpages' = [a \in Arenas |-> IF a \in empty THEN 0 ELSE totalpages[a]]
       /\ freepages' = [a \in Arenas |-> IF a \in empty THEN {} ELSE freepages[a]]
       /\ min_empty_nfreepages' = MinEmptyAfterRehash

RehashAndRetry(c) ==
    /\ NeedsPage(c) /\ current_arena = NULL /\ Candidates = {} /\ ~rehashed
    /\ request' = c /\ rehashed' = TRUE
    /\ _rehash_arenas_lists
    /\ UNCHANGED <<lists, old, current_arena, num_uninitialized_pages, pages, client>>

(* The first page is aligned, which may cost the arena one page.  When     *)
(* there is no memory the program is aborted.                              *)
NewArena(c, a, n) ==
    /\ NeedsPage(c) /\ current_arena = NULL /\ Candidates = {} /\ rehashed
    /\ totalpages[a] = 0 /\ n \in {max_pages_per_arena - 1, max_pages_per_arena}
    /\ request' = c /\ rehashed' = FALSE
    /\ totalpages' = [totalpages EXCEPT ![a] = n]
    /\ num_uninitialized_pages' = n
    /\ current_arena' = a
    /\ min_empty_nfreepages' = max_pages_per_arena
    /\ UNCHANGED <<lists, old, arenas_lists, freepages, pages, client>>

----------------------------------------------------------------------------
(* The mass free.                                                          *)

(* Mutant: the program keeps allocating from the pages to be walked.       *)
mass_free_prepare_shared ==
    /\ request = 0 /\ size_class_with_old_pages = -1
    /\ size_class_with_old_pages' = MaxSize
    /\ old_page_for_size' = page_for_size /\ old_full_page_for_size' = full_page_for_size
    /\ UNCHANGED <<lists, arenas, freepages, pages, client, request, rehashed>>

mass_free_prepare ==
    /\ request = 0 /\ size_class_with_old_pages = -1
    /\ size_class_with_old_pages' = MaxSize
    /\ old_page_for_size' = page_for_size /\ old_full_page_for_size' = full_page_for_size
    /\ page_for_size' = Empty /\ full_page_for_size' = Empty
    /\ UNCHANGED <<arenas, freepages, pages, client, request, rehashed>>

(* The classes that mass_free_incremental has still to look at.            *)
Unwalked == {c \in 1..size_class_with_old_pages :
               old_full_page_for_size[c] \cup old_page_for_size[c] # {}}

(* mass_free_in_pages takes the next page.  A call does max_pages of them; *)
(* max_pages = 1 allows every interleaving.  prevfreeblockat is the end of *)
(* the part of the chain that the walk has passed, which has length        *)
(* linked.  The walk works on its own copy of the chain, since nothing     *)
(* else runs until it ends.                                                *)
StartWalk(c, p) ==
    /\ request = 0 /\ c \in Unwalked /\ \A d \in Unwalked : d <= c
    /\ p \in IF old_full_page_for_size[c] # {} THEN old_full_page_for_size[c]
                                               ELSE old_page_for_size[c]
    /\ walk = NoWalk
    /\ walk' = [class |-> c, page |-> p, obj |-> 1, chain |-> freeblock[p], linked |-> 0,
                freed |-> {}, surviving |-> 0]
    /\ UNCHANGED <<lists, old, arenas, freepages, pages, client, request, rehashed>>

(* What the last block passed points to: after the free blocks, the first  *)
(* block never used.  skip_free_blocks is the number of those left.        *)
skip_free_blocks == Len(walk.chain) - walk.linked
NextFree == IF skip_free_blocks > 0 THEN walk.chain[walk.linked + 1]
                                    ELSE uninitialized[walk.page]

SkipFreeBlock ==
    /\ walk # NoWalk /\ walk.obj = NextFree /\ skip_free_blocks > 0
    /\ walk' = [walk EXCEPT !.obj = @ + 1, !.linked = @ + 1]
    /\ UNCHANGED <<lists, old, arenas, freepages, pages, client, request, rehashed>>

(* Mutant: a freed block becomes the first of the chain.                   *)
LinkFirst(chain, i, b) ==
    [j \in 1..Len(chain) + 1 |-> IF j = 1 THEN b ELSE chain[j - 1]]

(* The chain with b after its first i blocks.                              *)
Link(chain, i, b) ==
    [j \in 1..Len(chain) + 1 |->
       IF j <= i THEN chain[j] ELSE IF j = i + 1 THEN b ELSE chain[j - 1]]

(* A block that is not the next free one is taken for an object.           *)
FreeObject ==
    /\ walk # NoWalk /\ walk.obj # NextFree
    /\ walk' = [walk EXCEPT !.obj = @ + 1, !.linked = @ + 1, !.freed = @ \cup {walk.obj},
                            !.chain = Link(@, walk.linked, walk.obj)]
    /\ UNCHANGED <<lists, old, arenas, freepages, pages, client, request, rehashed>>

KeepObject ==
    /\ walk # NoWalk /\ walk.obj # NextFree
    /\ walk' = [walk EXCEPT !.obj = @ + 1, !.surviving = @ + 1]
    /\ UNCHANGED <<lists, old, arenas, freepages, pages, client, request, rehashed>>

(* The walk has come to the first block never used.  The page goes to the  *)
(* list that the surviving objects call for.                               *)
mass_free_in_pages ==
    LET c == walk.class
        p == walk.page
        surviving == walk.surviving
    IN /\ walk # NoWalk /\ walk.obj = NextFree /\ skip_free_blocks = 0
       /\ walk' = NoWalk
       /\ size_class_with_old_pages' = c
       /\ old_full_page_for_size' = [old_full_page_for_size EXCEPT ![c] = @ \ {p}]
       /\ old_page_for_size' = [old_page_for_size EXCEPT ![c] = @ \ {p}]
       /\ full_page_for_size' = [full_page_for_size EXCEPT ![c] =
            IF surviving = nblocks_for_size(c) THEN @ \cup {p} ELSE @]
       /\ page_for_size' = [page_for_size EXCEPT ![c] =
            IF surviving \in 1..nblocks_for_size(c) - 1 THEN @ \cup {p} ELSE @]
       /\ freepages' = [freepages EXCEPT ![p[1]] =
            IF surviving = 0 THEN @ \cup {p[2]} ELSE @]
       /\ size' = [size EXCEPT ![p] = IF surviving = 0 THEN 0 ELSE c]
       /\ freeblock' = [freeblock EXCEPT ![p] = IF surviving = 0 THEN << >> ELSE walk.chain]
       /\ uninitialized' = [uninitialized EXCEPT ![p] = IF surviving = 0 THEN 1 ELSE @]
       /\ total_memory_used' = total_memory_used - c * Cardinality(walk.freed)
       /\ live' = live \ {<<p, (b - 1) * c, c>> : b \in walk.freed}
       /\ UNCHANGED <<arenas, request, rehashed>>

mass_free_complete ==
    /\ request = 0 /\ size_class_with_old_pages >= 0 /\ Unwalked = {}
    /\ _rehash_arenas_lists
    /\ size_class_with_old_pages' = -1
    /\ UNCHANGED <<lists, old_page_for_size, old_full_page_for_size, current_arena,
                   num_uninitialized_pages, pages, client, request, rehashed>>

(* Nothing else runs while a page is walked.                               *)
OutsideWalk ==
    /\ walk = NoWalk /\ UNCHANGED walk
    /\ \/ \E c \in Classes :
            \/ \E p \in page_for_size[c] : malloc(c, p)
            \/ \E n \in 1..max_pages_per_arena :
                 allocate_new_page(c, n) \/ \E a \in Arenas : NewArena(c, a, n)
            \/ _pick_next_arena(c) \/ RehashAndRetry(c)
       \/ mass_free_prepare \/ mass_free_complete

Next ==
    \/ OutsideWalk
    \/ \E c \in Classes, p \in Page : StartWalk(c, p)
    \/ SkipFreeBlock \/ FreeObject \/ KeepObject \/ mass_free_in_pages

Spec == Init /\ [][Next]_vars

----------------------------------------------------------------------------
(* The words of the blocks in use.                                         *)
WordsInUse == UNION {{x[1]} \X (x[2]..(x[2] + x[3] - 1)) : x \in live}

(* malloc returns memory that nobody uses: no two blocks in use share a    *)
(* word, though pages are freed, given to another size class and walked    *)
(* by the mass free between two allocations, and every block lies in a     *)
(* page of an arena that was not given back.  total_memory_used is the     *)
(* number of words in these blocks.                                        *)
BlocksDisjoint ==
    /\ \A x \in live :
         /\ totalpages[x[1][1]] >= x[1][2]
         /\ x[2] + x[3] <= PageWords
         /\ \A y \in live : x # y /\ x[1] = y[1] => x[2] + x[3] <= y[2] \/ y[2] + y[3] <= x[2]
    /\ total_memory_used = Cardinality(WordsInUse)

(* The pages of size class c in each of the chained lists.                 *)
Chains(c) == <<page_for_size[c], full_page_for_size[c],
               old_page_for_size[c], old_full_page_for_size[c]>>

(* Every page of every arena is in one place: never touched, free, or in   *)
(* one of the four chained lists of its size class, and the list says      *)
(* whether it has room.  So malloc never finds a full page, the mass free  *)
(* reaches every page once, and no page is lost.                           *)
PagesAccounted ==
    \A a \in Arenas, n \in 1..max_pages_per_arena :
      LET p == <<a, n>>
          fresh == a = current_arena /\ n > totalpages[a] - num_uninitialized_pages
          chained == {x \in Classes \X (1..4) : p \in Chains(x[1])[x[2]]}
      IN IF n > totalpages[a] \/ fresh \/ n \in freepages[a]
           THEN /\ chained = {} /\ size[p] = 0
                /\ ~(fresh /\ n \in freepages[a])
           ELSE \E i \in 1..4 :
                  /\ chained = {<<size[p], i>>}
                  /\ i \in {2, 4} <=> IsFull(size[p], freeblock[p], uninitialized[p])

(* The ll_assert of walk_page: when it takes a block for an object, the    *)
(* next free block lies behind it.  So the free blocks of a page must be   *)
(* linked in the order of their addresses when a walk begins, whatever was *)
(* allocated and freed since the page was walked last: a free block met    *)
(* out of its turn would be counted as an object, and freed twice.         *)
FreeBlocksInOrder ==
    /\ walk # NoWalk /\ walk.obj # NextFree => NextFree > walk.obj
    /\ \A p \in Page :
         /\ \A i, j \in DOMAIN freeblock[p] : i < j => freeblock[p][i] < freeblock[p][j]
         /\ \A i \in DOMAIN freeblock[p] : freeblock[p][i] < uninitialized[p]

(* An arena is found when a page is needed: it is the current one, which   *)
(* has a page to give, or in the list of the pages that it had free when   *)
(* it was put there, and it has gained pages since only during a mass      *)
(* free; min_empty_nfreepages hides no arena with free pages.              *)
ArenasAccounted ==
    /\ current_arena # NULL => nfreepages(current_arena) + num_uninitialized_pages > 0
    /\ \A i \in 1..min_empty_nfreepages - 1 : arenas_lists[i] = {}
    /\ \A a \in Arenas :
         LET in == {i \in DOMAIN arenas_lists : a \in arenas_lists[i]} IN
         IF totalpages[a] = 0 \/ a = current_arena THEN in = {}
         ELSE \E i \in in :
                /\ in = {i} /\ i <= nfreepages(a)
                /\ size_class_with_old_pages = -1 =>
                     i = nfreepages(a) /\ i < totalpages[a]
=============================================================================
