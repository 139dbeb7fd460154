---------------------------- MODULE ArenaProofs ----------------------------
(***************************************************************************)
(* Proofs about ArenaCollection: for any number of arenas, pages and size  *)
(* classes.                                                                *)
(***************************************************************************)
EXTENDS ArenaCollection, FiniteSetTheorems, TLAPS

----------------------------------------------------------------------------
(* The inductive invariant, in parts.                                      *)

Blocks(chain) == {chain[i] : i \in DOMAIN chain}

(* The blocks of p, and of these the ones that hold an object.             *)
Initialized(p) == 1..uninitialized[p] - 1
Used(p) == Initialized(p) \ {freeblock[p][i] : i \in DOMAIN freeblock[p]}

StoreType ==
    /\ arenas_lists \in [0..max_pages_per_arena - 1 -> SUBSET Arenas]
    /\ current_arena \in Arenas \cup {NULL}
    /\ num_uninitialized_pages \in 0..max_pages_per_arena
    /\ min_empty_nfreepages \in 1..max_pages_per_arena
    /\ totalpages \in [Arenas -> 0..max_pages_per_arena]
    /\ freepages \in [Arenas -> SUBSET (1..max_pages_per_arena)]
    /\ size \in [Page -> 0..MaxSize]
    /\ freeblock \in [Page -> Seq(Nat \ {0})]
    /\ uninitialized \in [Page -> Nat \ {0}]
    /\ page_for_size \in [Classes -> SUBSET Page]
    /\ full_page_for_size \in [Classes -> SUBSET Page]
    /\ old_page_for_size \in [Classes -> SUBSET Page]
    /\ old_full_page_for_size \in [Classes -> SUBSET Page]
    /\ size_class_with_old_pages \in {-1} \cup Classes
    /\ total_memory_used \in Nat
    /\ live \in SUBSET (Page \X Nat \X Classes)
    /\ request \in 0..MaxSize
    /\ rehashed \in BOOLEAN

(* A page that is not in use looks like one that was never used; of one    *)
(* that is, no block was ever used beyond its end.                         *)
PageShape ==
    \A p \in Page :
      /\ size[p] = 0 => freeblock[p] = << >> /\ uninitialized[p] = 1
      /\ size[p] # 0 => uninitialized[p] <= nblocks_for_size(size[p]) + 1

(* The blocks in use are those the headers of the pages say are in use.    *)
LiveAreUsed ==
    live = UNION {{<<p, (b - 1) * size[p], size[p]>> : b \in Used(p)} : p \in Page}

WordsCounted ==
    IsFiniteSet(WordsInUse) /\ total_memory_used = Cardinality(WordsInUse)

ArenaPages ==
    /\ current_arena = NULL => num_uninitialized_pages = 0
    /\ current_arena # NULL => num_uninitialized_pages <= totalpages[current_arena]
    /\ \A a \in Arenas : freepages[a] \subseteq 1..totalpages[a]

(* The mass free leaves no page behind.                                    *)
OldEmpty ==
    \A c \in Classes : c > size_class_with_old_pages =>
      old_page_for_size[c] = {} /\ old_full_page_for_size[c] = {}

Fresh(p) ==
    p[1] = current_arena /\ p[2] > totalpages[p[1]] - num_uninitialized_pages

(* A page has a size class if it is in use, and is then in one list of     *)
(* this class, the one for its being full or not.                          *)
PagesPlaced ==
    /\ \A p \in Page :
         /\ size[p] = 0 <=> p[2] > totalpages[p[1]] \/ Fresh(p) \/ p[2] \in freepages[p[1]]
         /\ ~(Fresh(p) /\ p[2] \in freepages[p[1]])
         /\ size[p] # 0 => p \in page_for_size[size[p]] \cup full_page_for_size[size[p]]
                             \cup old_page_for_size[size[p]] \cup old_full_page_for_size[size[p]]
    /\ \A c \in Classes :
         /\ \A p \in page_for_size[c] \cup old_page_for_size[c] :
              size[p] = c /\ ~IsFull(c, freeblock[p], uninitialized[p])
         /\ \A p \in full_page_for_size[c] \cup old_full_page_for_size[c] :
              size[p] = c /\ IsFull(c, freeblock[p], uninitialized[p])
         /\ page_for_size[c] \cap old_page_for_size[c] = {}
         /\ full_page_for_size[c] \cap old_full_page_for_size[c] = {}

(* An arena is in one list, or current, or not allocated.                  *)
ArenasPlaced ==
    /\ current_arena # NULL => nfreepages(current_arena) + num_uninitialized_pages > 0
    /\ \A i \in 1..min_empty_nfreepages - 1 : arenas_lists[i] = {}
    /\ \A i \in 0..max_pages_per_arena - 1 : \A a \in arenas_lists[i] :
         /\ totalpages[a] # 0 /\ a # current_arena
         /\ i <= nfreepages(a)
         /\ size_class_with_old_pages = -1 => i = nfreepages(a) /\ i < totalpages[a]
         /\ \A j \in 0..max_pages_per_arena - 1 : a \in arenas_lists[j] => i = j
    /\ \A a \in Arenas : totalpages[a] = 0 \/ a = current_arena
                         \/ \E i \in 0..max_pages_per_arena - 1 : a \in arenas_lists[i]

ChainsSorted ==
    \A p \in Page :
      /\ \A i, j \in DOMAIN freeblock[p] : i < j => freeblock[p][i] < freeblock[p][j]
      /\ \A i \in DOMAIN freeblock[p] : freeblock[p][i] < uninitialized[p]

(* What holds of the pages and the arenas, between two steps of a walk as  *)
(* well.                                                                   *)
StoreInv ==
    /\ StoreType /\ PageShape /\ LiveAreUsed /\ WordsCounted /\ ArenaPages /\ OldEmpty
    /\ PagesPlaced /\ ChainsSorted /\ ArenasPlaced

(* A walk over page p that has come to the block obj: the chain holds the  *)
(* blocks that were free and those that were freed, in order, and the part *)
(* that is linked is what lies before obj.                                 *)
Walk == [class : Classes, page : Page, obj : Nat \ {0}, chain : Seq(Nat \ {0}),
         linked : Nat, freed : SUBSET (Nat \ {0}), surviving : Nat]

WalkAt(c, p, obj, chain, linked, freed, surviving) ==
    /\ c \in Unwalked /\ \A d \in Unwalked : d <= c
    /\ p \in old_full_page_for_size[c] \cup old_page_for_size[c]
    /\ linked <= Len(chain) /\ obj <= uninitialized[p]
    /\ \A i, j \in 1..Len(chain) : i < j => chain[i] < chain[j]
    /\ \A i \in 1..Len(chain) : chain[i] < uninitialized[p] /\ (i <= linked <=> chain[i] < obj)
    /\ Blocks(chain) = Blocks(freeblock[p]) \cup freed
    /\ freed \subseteq Used(p)
    /\ surviving = Cardinality({b \in Used(p) \ freed : b < obj})

WalkOK ==
    walk # NoWalk =>
      /\ walk \in Walk
      /\ WalkAt(walk.class, walk.page, walk.obj, walk.chain, walk.linked, walk.freed,
                walk.surviving)

TypeOK == StoreType /\ walk \in {NoWalk} \cup Walk

IInv == StoreInv /\ WalkOK

----------------------------------------------------------------------------
(* Arithmetic of blocks and words.                                         *)

(* A page has room for a block of any class, and its blocks fit into it.   *)
LEMMA BlocksFit ==
    ASSUME NEW c \in Classes
    PROVE  /\ c \in Nat /\ c > 0
           /\ nblocks_for_size(c) \in Nat /\ nblocks_for_size(c) >= 1
           /\ nblocks_for_size(c) * c <= PageWords
  BY ArenaAssumption, Z3 DEF Classes, nblocks_for_size

LEMMA MultMonotone ==
    ASSUME NEW b \in Nat, NEW d \in Nat, NEW c \in Nat, b <= d
    PROVE  b * c \in Nat /\ b * c <= d * c
  <1>1. PICK k \in Nat : d = b + k
    BY d - b \in Nat
  <1>2. d * c = b * c + k * c
    BY <1>1, Z3
  <1>3. k * c \in Nat /\ b * c \in Nat
    BY Z3
  <1> QED
    BY <1>2, <1>3

(* Two blocks of the same size share no word.                              *)
LEMMA BlocksApart ==
    ASSUME NEW b \in Nat \ {0}, NEW d \in Nat \ {0}, NEW c \in Nat, b < d
    PROVE  (b - 1) * c \in Nat /\ (d - 1) * c \in Nat /\ (b - 1) * c + c <= (d - 1) * c
  <1>1. /\ b \in Nat /\ d - 1 \in Nat /\ b <= d - 1 /\ b - 1 \in Nat
    OBVIOUS
  <1>2. b * c <= (d - 1) * c
    BY <1>1, MultMonotone
  <1>3. b * c = (b - 1) * c + c
    BY <1>1, Z3
  <1>4. (b - 1) * c \in Nat /\ (d - 1) * c \in Nat
    BY <1>1, MultMonotone
  <1> QED
    BY <1>2, <1>3, <1>4

(* The last block of a page ends in it.                                    *)
LEMMA BlockInPage ==
    ASSUME NEW c \in Classes, NEW b \in Nat \ {0}, b <= nblocks_for_size(c)
    PROVE  (b - 1) * c \in Nat /\ (b - 1) * c + c <= PageWords
  <1>1. b * c <= nblocks_for_size(c) * c
    BY BlocksFit, MultMonotone
  <1>2. c \in Nat /\ b - 1 \in Nat /\ (b - 1) * c \in Nat
    BY BlocksFit, MultMonotone
  <1>3. b * c = (b - 1) * c + c
    BY <1>2, Z3
  <1>4. nblocks_for_size(c) * c \in Nat /\ b * c \in Nat
    BY BlocksFit, MultMonotone
  <1> QED
    BY <1>1, <1>2, <1>3, <1>4, BlocksFit, ArenaAssumption

(* The words of the blocks D of page p, if their size is c.                *)
BlockWords(p, D, c) == UNION {{p} \X (((b - 1) * c)..((b - 1) * c + c - 1)) : b \in D}

LEMMA CountWords ==
    ASSUME NEW p, NEW c \in Nat, c > 0, NEW D \in SUBSET (Nat \ {0}), IsFiniteSet(D)
    PROVE  /\ IsFiniteSet(BlockWords(p, D, c))
           /\ Cardinality(BlockWords(p, D, c)) = c * Cardinality(D)
  <1> DEFINE f == [x \in D \X (0..c - 1) |-> <<p, (x[1] - 1) * c + x[2]>>]
             W == BlockWords(p, D, c)
  <1>1. \A b \in D : (b - 1) * c \in Nat
    BY MultMonotone
  <1>2. f \in [D \X (0..c - 1) -> W]
    <2> SUFFICES ASSUME NEW b \in D, NEW k \in 0..c - 1
                 PROVE  <<p, (b - 1) * c + k>> \in W
      OBVIOUS
    <2>1. (b - 1) * c + k \in ((b - 1) * c)..((b - 1) * c + c - 1)
      BY <1>1
    <2> QED
      BY <2>1 DEF BlockWords
  <1>3. ASSUME NEW x \in D \X (0..c - 1), NEW y \in D \X (0..c - 1), f[x] = f[y]
        PROVE  x = y
    <2> DEFINE b == x[1]  k == x[2]  d == y[1]  l == y[2]
    <2>1. /\ x = <<b, k>> /\ b \in D /\ k \in 0..c - 1
          /\ y = <<d, l>> /\ d \in D /\ l \in 0..c - 1
      OBVIOUS
    <2>2. (b - 1) * c + k = (d - 1) * c + l
      BY <1>3, <2>1
    <2> HIDE DEF b, k, d, l
    <2>3. ~(b < d)
      BY <2>1, <2>2, <1>1, BlocksApart
    <2>4. ~(d < b)
      BY <2>1, <2>2, <1>1, BlocksApart
    <2>5. b = d
      BY <2>1, <2>3, <2>4
    <2> QED
      BY <2>1, <2>2, <2>5, <1>1
  <1>4. ASSUME NEW w \in W
        PROVE  \E x \in D \X (0..c - 1) : f[x] = w
    <2>1. PICK b \in D : w \in {p} \X (((b - 1) * c)..((b - 1) * c + c - 1))
      BY DEF BlockWords
    <2>2. PICK v \in ((b - 1) * c)..((b - 1) * c + c - 1) : w = <<p, v>>
      BY <2>1
    <2>3. v - (b - 1) * c \in 0..c - 1 /\ (b - 1) * c + (v - (b - 1) * c) = v
      BY <1>1
    <2>4. <<b, v - (b - 1) * c>> \in D \X (0..c - 1)
      BY <2>3
    <2>5. f[<<b, v - (b - 1) * c>>] = w
      BY <2>2, <2>3, <2>4
    <2> QED
      BY <2>4, <2>5
  <1>5. f \in Bijection(D \X (0..c - 1), W)
    <2> HIDE DEF f, W
    <2> QED
      BY <1>2, <1>3, <1>4 DEF Bijection, Injection, Surjection, IsInjective
  <1>6. /\ IsFiniteSet(0..c - 1) /\ Cardinality(0..c - 1) = c
    BY FS_Interval
  <1>7. /\ IsFiniteSet(D \X (0..c - 1))
        /\ Cardinality(D \X (0..c - 1)) = Cardinality(D) * c
    BY <1>6, FS_Product
  <1>8. IsFiniteSet(W) /\ Cardinality(W) = Cardinality(D) * c
    BY <1>5, <1>7, FS_Bijection DEF ExistsBijection
  <1>9. Cardinality(D) \in Nat
    BY FS_CardinalityType
  <1> QED
    BY <1>8, <1>9

----------------------------------------------------------------------------
(* Words and blocks in use.                                                *)

LEMMA BlockWordsParts ==
    ASSUME NEW p, NEW c \in Nat, NEW D \in SUBSET (Nat \ {0}), NEW E \in SUBSET (Nat \ {0})
    PROVE  /\ BlockWords(p, D \cup E, c) = BlockWords(p, D, c) \cup BlockWords(p, E, c)
           /\ D \cap E = {} => BlockWords(p, D, c) \cap BlockWords(p, E, c) = {}
           /\ BlockWords(p, {}, c) = {}
           /\ \A z \in BlockWords(p, D, c) : z[1] = p
  <1>1. BlockWords(p, D \cup E, c) = BlockWords(p, D, c) \cup BlockWords(p, E, c)
    BY DEF BlockWords
  <1>2. BlockWords(p, {}, c) = {}
    BY DEF BlockWords
  <1>3. \A z \in BlockWords(p, D, c) : z[1] = p
    BY DEF BlockWords
  <1>4. ASSUME D \cap E = {}, NEW z \in BlockWords(p, D, c), z \in BlockWords(p, E, c)
        PROVE  FALSE
    <2>1. PICK b \in D : z \in {p} \X (((b - 1) * c)..((b - 1) * c + c - 1))
      BY <1>4 DEF BlockWords
    <2>2. PICK d \in E : z \in {p} \X (((d - 1) * c)..((d - 1) * c + c - 1))
      BY <1>4 DEF BlockWords
    <2>3. z[2] \in ((b - 1) * c)..((b - 1) * c + c - 1)
      BY <2>1
    <2>4. z[2] \in ((d - 1) * c)..((d - 1) * c + c - 1)
      BY <2>2
    <2>5. b \in Nat \ {0} /\ d \in Nat \ {0} /\ b # d
      BY <1>4
    <2>6. (b - 1) * c \in Nat /\ (d - 1) * c \in Nat
      BY <2>5, MultMonotone
    <2>7. b < d => (b - 1) * c + c <= (d - 1) * c
      BY <2>5, BlocksApart
    <2>8. d < b => (d - 1) * c + c <= (b - 1) * c
      BY <2>5, BlocksApart
    <2> QED
      BY <2>3, <2>4, <2>5, <2>6, <2>7, <2>8
  <1> QED
    BY <1>1, <1>2, <1>3, <1>4

LEMMA UsedFacts ==
    ASSUME StoreType, NEW p \in Page
    PROVE  /\ Used(p) = Initialized(p) \ Blocks(freeblock[p])
           /\ Initialized(p) \in SUBSET (Nat \ {0}) /\ IsFiniteSet(Initialized(p))
           /\ Used(p) \in SUBSET (Nat \ {0}) /\ IsFiniteSet(Used(p))
           /\ uninitialized[p] = 1 => Used(p) = {}
  <1>1. uninitialized[p] \in Nat \ {0}
    BY DEF StoreType
  <1>2. IsFiniteSet(Initialized(p))
    BY <1>1, FS_Interval DEF Initialized
  <1>3. Initialized(p) \in SUBSET (Nat \ {0}) /\ (uninitialized[p] = 1 => Initialized(p) = {})
    BY <1>1 DEF Initialized
  <1>4. Used(p) = Initialized(p) \ Blocks(freeblock[p])
    BY DEF Used, Blocks
  <1>5. IsFiniteSet(Used(p))
    BY <1>2, <1>4, FS_Subset
  <1> QED
    BY <1>2, <1>3, <1>4, <1>5

(* The words in use are those of the used blocks of each page.             *)
LEMMA WordsOfPages ==
    ASSUME LiveAreUsed
    PROVE  WordsInUse = UNION {BlockWords(p, Used(p), size[p]) : p \in Page}
  <1>1. ASSUME NEW z \in WordsInUse
        PROVE  \E p \in Page : z \in BlockWords(p, Used(p), size[p])
    <2>1. PICK x \in live : z \in {x[1]} \X (x[2]..(x[2] + x[3] - 1))
      BY DEF WordsInUse
    <2>2. PICK p \in Page : \E b \in Used(p) : x = <<p, (b - 1) * size[p], size[p]>>
      BY <2>1 DEF LiveAreUsed
    <2> QED
      BY <2>1, <2>2 DEF BlockWords
  <1>2. ASSUME NEW p \in Page, NEW z \in BlockWords(p, Used(p), size[p])
        PROVE  z \in WordsInUse
    <2>1. PICK b \in Used(p) :
             z \in {p} \X (((b - 1) * size[p])..((b - 1) * size[p] + size[p] - 1))
      BY <1>2 DEF BlockWords
    <2>2. <<p, (b - 1) * size[p], size[p]>> \in live
      BY DEF LiveAreUsed
    <2> QED
      BY <2>1, <2>2 DEF WordsInUse
  <1> QED
    BY <1>1, <1>2

(* What changes when only page p does.  S is what its blocks in use become *)
(* with size c: D was added to them, or taken from them.                   *)
LEMMA WordsOfOnePage ==
    ASSUME StoreType, LiveAreUsed, WordsCounted, LiveAreUsed',
           NEW p \in Page, NEW c \in Nat, c > 0, NEW D \in SUBSET (Nat \ {0}), IsFiniteSet(D),
           size[p] = c \/ Used(p) = {}, size'[p] = c \/ Used(p)' = {},
           \A q \in Page \ {p} : Used(q)' = Used(q) /\ size'[q] = size[q]
    PROVE  /\ Used(p)' = Used(p) \cup D /\ D \cap Used(p) = {} =>
                /\ IsFiniteSet(WordsInUse')
                /\ Cardinality(WordsInUse') = Cardinality(WordsInUse) + c * Cardinality(D)
           /\ Used(p)' = Used(p) \ D /\ D \subseteq Used(p) =>
                /\ IsFiniteSet(WordsInUse')
                /\ Cardinality(WordsInUse') = Cardinality(WordsInUse) - c * Cardinality(D)
  <1> DEFINE W == BlockWords(p, D, c)
             Rest == UNION {BlockWords(q, Used(q), size[q]) : q \in Page \ {p}}
  <1>1. Used(p) \in SUBSET (Nat \ {0})
    BY UsedFacts
  <1>2. BlockWords(p, Used(p), size[p]) = BlockWords(p, Used(p), c)
    BY DEF BlockWords
  <1>3. BlockWords(p, Used(p)', size'[p]) = BlockWords(p, Used(p)', c)
    BY DEF BlockWords
  <1>4. WordsInUse = Rest \cup BlockWords(p, Used(p), c)
    BY <1>2, WordsOfPages
  <1>5. WordsInUse' = Rest \cup BlockWords(p, Used(p)', c)
    <2>1. WordsInUse' = UNION {BlockWords(q, Used(q)', size'[q]) : q \in Page}
      <3>1. ASSUME NEW z \in WordsInUse'
            PROVE  \E q \in Page : z \in BlockWords(q, Used(q)', size'[q])
        <4>1. PICK x \in live' : z \in {x[1]} \X (x[2]..(x[2] + x[3] - 1))
          BY DEF WordsInUse
        <4>2. PICK q \in Page : \E b \in Used(q)' : x = <<q, (b - 1) * size'[q], size'[q]>>
          BY <4>1 DEF LiveAreUsed
        <4> QED
          BY <4>1, <4>2 DEF BlockWords
      <3>2. ASSUME NEW q \in Page, NEW z \in BlockWords(q, Used(q)', size'[q])
            PROVE  z \in WordsInUse'
        <4>1. PICK b \in Used(q)' :
                 z \in {q} \X (((b - 1) * size'[q])..((b - 1) * size'[q] + size'[q] - 1))
          BY <3>2 DEF BlockWords
        <4>2. <<q, (b - 1) * size'[q], size'[q]>> \in live'
          BY DEF LiveAreUsed
        <4> QED
          BY <4>1, <4>2 DEF WordsInUse
      <3> QED
        BY <3>1, <3>2
    <2> QED
      BY <2>1, <1>3
  <1>6. \A z \in Rest : z[1] # p
    <2> SUFFICES ASSUME NEW q \in Page \ {p}, NEW z \in BlockWords(q, Used(q), size[q])
                 PROVE  z[1] # p
      OBVIOUS
    <2>1. z[1] = q
      BY DEF BlockWords
    <2> QED
      BY <2>1
  <1>7. \A z \in W : z[1] = p
    BY BlockWordsParts
  <1>8. Rest \cap W = {}
    BY <1>6, <1>7
  <1>9. IsFiniteSet(W) /\ Cardinality(W) = c * Cardinality(D)
    BY CountWords
  <1>10. IsFiniteSet(WordsInUse) /\ Cardinality(WordsInUse) \in Nat
    BY FS_CardinalityType DEF WordsCounted
  <1>11. Cardinality(W) \in Nat
    BY <1>9, FS_CardinalityType
  <1>12. ASSUME Used(p)' = Used(p) \cup D, D \cap Used(p) = {}
         PROVE  /\ IsFiniteSet(WordsInUse')
                /\ Cardinality(WordsInUse') = Cardinality(WordsInUse) + c * Cardinality(D)
    <2>0. BlockWords(p, Used(p) \cup D, c) = BlockWords(p, Used(p), c) \cup W
      BY <1>1, BlockWordsParts, SMTT(20)
    <2>1. /\ BlockWords(p, Used(p)', c) = BlockWords(p, Used(p), c) \cup W
          /\ BlockWords(p, Used(p), c) \cap W = {}
      BY <2>0, <1>1, <1>12, BlockWordsParts
    <2> HIDE DEF W, Rest
    <2>2. WordsInUse' = WordsInUse \cup W /\ WordsInUse \cap W = {}
      BY <2>1, <1>4, <1>5, <1>8
    <2>3. Cardinality(WordsInUse \cap W) = 0
      BY <2>2, FS_EmptySet
    <2>4. /\ IsFiniteSet(WordsInUse')
          /\ Cardinality(WordsInUse')
               = Cardinality(WordsInUse) + Cardinality(W) - Cardinality(WordsInUse \cap W)
      BY <2>2, <1>9, <1>10, FS_Union
    <2> QED
      BY <2>3, <2>4, <1>9, <1>10, <1>11
  <1>13. ASSUME Used(p)' = Used(p) \ D, D \subseteq Used(p)
         PROVE  /\ IsFiniteSet(WordsInUse')
                /\ Cardinality(WordsInUse') = Cardinality(WordsInUse) - c * Cardinality(D)
    <2>0. /\ Used(p)' \in SUBSET (Nat \ {0}) /\ Used(p)' \cup D = Used(p)
          /\ Used(p)' \cap D = {}
      BY <1>13, <1>1
    <2>1. /\ BlockWords(p, Used(p), c) = BlockWords(p, Used(p)', c) \cup W
          /\ BlockWords(p, Used(p)', c) \cap W = {}
      <3>1. BlockWords(p, Used(p)' \cup D, c) = BlockWords(p, Used(p)', c) \cup W
        BY <2>0, BlockWordsParts
      <3>2. BlockWords(p, Used(p)', c) \cap W = {}
        BY <2>0, BlockWordsParts
      <3> QED
        BY <3>1, <3>2, <2>0
    <2> HIDE DEF W, Rest
    <2>2. WordsInUse' = WordsInUse \ W /\ WordsInUse \cap W = W
      BY <2>1, <1>4, <1>5, <1>8
    <2>3. /\ IsFiniteSet(WordsInUse')
          /\ Cardinality(WordsInUse')
               = Cardinality(WordsInUse) - Cardinality(WordsInUse \cap W)
      BY <2>2, <1>10, FS_Difference
    <2> QED
      BY <2>2, <2>3, <1>9, <1>10
  <1> QED
    BY <1>12, <1>13

----------------------------------------------------------------------------
(* Steps that leave the pages alone.                                       *)

LEMMA PagesUnchanged ==
    ASSUME StoreInv, UNCHANGED <<pages, client>>
    PROVE  PageShape' /\ LiveAreUsed' /\ WordsCounted' /\ ChainsSorted'
  <1>1. \A p \in Page : Used(p)' = Used(p)
    BY DEF pages, Used, Initialized
  <1>2. PageShape' /\ ChainsSorted'
    BY DEF StoreInv, pages, PageShape, ChainsSorted
  <1>3. LiveAreUsed'
    BY <1>1 DEF StoreInv, pages, client, LiveAreUsed
  <1>4. WordsCounted'
    BY DEF StoreInv, client, WordsCounted, WordsInUse
  <1> QED
    BY <1>2, <1>3, <1>4

LEMMA FreePagesFinite ==
    ASSUME StoreType, ArenaPages, NEW a \in Arenas
    PROVE  /\ IsFiniteSet(freepages[a]) /\ nfreepages(a) \in Nat
           /\ nfreepages(a) <= totalpages[a]
           /\ nfreepages(a) = totalpages[a] => freepages[a] = 1..totalpages[a]
           /\ nfreepages(a) = 0 <=> freepages[a] = {}
  <1>1. totalpages[a] \in Nat
    BY ArenaAssumption DEF StoreType
  <1>2. IsFiniteSet(1..totalpages[a]) /\ Cardinality(1..totalpages[a]) = totalpages[a]
    BY <1>1, FS_Interval
  <1>3. freepages[a] \in SUBSET (1..totalpages[a])
    BY DEF ArenaPages
  <1>4. /\ IsFiniteSet(freepages[a]) /\ nfreepages(a) <= totalpages[a]
        /\ nfreepages(a) = totalpages[a] => freepages[a] = 1..totalpages[a]
    BY <1>2, <1>3, FS_Subset DEF nfreepages
  <1> QED
    BY <1>4, FS_CardinalityType, FS_EmptySet DEF nfreepages

(* _rehash_arenas_lists gives back only arenas whose pages are all free,   *)
(* and puts every other one where its number of free pages says.           *)
LEMMA Rehash ==
    ASSUME StoreInv, _rehash_arenas_lists,
           UNCHANGED <<lists, current_arena, num_uninitialized_pages, pages,
                       old_page_for_size, old_full_page_for_size>>
    PROVE  /\ ArenaPages' /\ PagesPlaced' /\ ArenasPlaced'
           /\ arenas_lists' \in [0..max_pages_per_arena - 1 -> SUBSET Arenas]
           /\ totalpages' \in [Arenas -> 0..max_pages_per_arena]
           /\ freepages' \in [Arenas -> SUBSET (1..max_pages_per_arena)]
           /\ min_empty_nfreepages' \in 1..max_pages_per_arena
  <1> DEFINE inLists == UNION {arenas_lists[i] : i \in DOMAIN arenas_lists}
             empty == {a \in inLists : nfreepages(a) = totalpages[a]}
             I == 0..max_pages_per_arena - 1
  <1>0. StoreType /\ ArenaPages /\ PagesPlaced /\ ArenasPlaced
    BY DEF StoreInv
  <1>1. /\ inLists \subseteq Arenas /\ DOMAIN arenas_lists = I
        /\ \A a \in inLists : \E i \in I : a \in arenas_lists[i]
        /\ \A i \in I : arenas_lists[i] \subseteq inLists
    BY <1>0 DEF StoreType
  <1>2. arenas_lists' = [i \in I |-> {a \in inLists \ empty : nfreepages(a) = i}]
    BY <1>1 DEF _rehash_arenas_lists
  <1>3. totalpages' = [a \in Arenas |-> IF a \in empty THEN 0 ELSE totalpages[a]]
    BY DEF _rehash_arenas_lists
  <1>4. freepages' = [a \in Arenas |-> IF a \in empty THEN {} ELSE freepages[a]]
    BY DEF _rehash_arenas_lists
  <1>5. min_empty_nfreepages' = 1
    BY DEF _rehash_arenas_lists, MinEmptyAfterRehash
  <1>6. current_arena \notin inLists
    BY <1>0, <1>1 DEF ArenasPlaced
  <1>7. \A a \in empty : freepages[a] = 1..totalpages[a]
    BY <1>0, <1>1, FreePagesFinite
  <1>8. \A a \in Arenas : nfreepages(a) \in Nat /\ nfreepages(a) <= totalpages[a]
    BY <1>0, FreePagesFinite
  <1>9. \A a \in Arenas \ empty : nfreepages(a)' = nfreepages(a)
    BY <1>4 DEF nfreepages
  <1>10. \A a \in inLists : totalpages[a] # 0
    BY <1>0, <1>1 DEF ArenasPlaced
  <1>11. \A a \in Arenas : totalpages[a] \in 0..max_pages_per_arena
    BY <1>0 DEF StoreType
  <1>12. empty \subseteq inLists
    OBVIOUS
  <1>13. \A a \in inLists \ empty : nfreepages(a) \in I /\ nfreepages(a) < totalpages[a]
    <2> SUFFICES ASSUME NEW a \in inLists \ empty
                 PROVE  nfreepages(a) \in I /\ nfreepages(a) < totalpages[a]
      OBVIOUS
    <2>1. nfreepages(a) # totalpages[a]
      OBVIOUS
    <2> QED
      BY <2>1, <1>1, <1>8, <1>11, ArenaAssumption
  <1>14. current_arena \in Arenas \cup {NULL} /\ NULL \notin Arenas
    BY <1>0, ArenaAssumption DEF StoreType
  <1> HIDE DEF empty, inLists
  <1>20. ArenaPages'
    <2>1. \A a \in Arenas : freepages'[a] \subseteq 1..totalpages'[a]
      BY <1>0, <1>3, <1>4 DEF ArenaPages
    <2> QED
      BY <2>1, <1>0, <1>3, <1>6, <1>12, <1>14 DEF ArenaPages
  <1>21. PagesPlaced'
    <2>1. \A p \in Page : p[1] \in Arenas /\ p[2] \in 1..max_pages_per_arena
      BY DEF Page
    <2>2. \A p \in Page : Fresh(p)' <=> Fresh(p)
      BY <2>1, <1>3, <1>6, <1>12 DEF Fresh
    <2>3. ASSUME NEW p \in Page
          PROVE  (p[2] > totalpages'[p[1]] \/ p[2] \in freepages'[p[1]])
                   <=> (p[2] > totalpages[p[1]] \/ p[2] \in freepages[p[1]])
      <3>1. CASE p[1] \in empty
        <4>1. totalpages'[p[1]] = 0 /\ p[2] > totalpages'[p[1]]
          BY <3>1, <2>1, <1>3
        <4>2. freepages[p[1]] = 1..totalpages[p[1]]
          BY <3>1, <1>7
        <4> QED
          BY <4>1, <4>2, <2>1, <1>11
      <3>2. CASE p[1] \notin empty
        BY <3>2, <2>1, <1>3, <1>4
      <3> QED
        BY <3>1, <3>2
    <2>4. \A p \in Page : Fresh(p) /\ p[2] \in freepages'[p[1]] => p[2] \in freepages[p[1]]
      BY <2>1, <1>4
    <2>5. \A p \in Page :
            size[p] = 0 <=> p[2] > totalpages'[p[1]] \/ Fresh(p)' \/ p[2] \in freepages'[p[1]]
      BY <2>2, <2>3, <1>0 DEF PagesPlaced
    <2>6. \A p \in Page : ~(Fresh(p)' /\ p[2] \in freepages'[p[1]])
      BY <2>2, <2>4, <1>0 DEF PagesPlaced
    <2> QED
      BY <2>5, <2>6, <1>0 DEF PagesPlaced, pages, lists, IsFull, nblocks_for_size
  <1>22. ArenasPlaced'
    <2>1. ASSUME NEW i \in I, NEW a \in arenas_lists'[i]
          PROVE  /\ totalpages'[a] # 0 /\ a # current_arena' /\ nfreepages(a)' = i
                 /\ i < totalpages'[a] /\ i \in Nat
      <3>1. a \in inLists \ empty /\ nfreepages(a) = i /\ a \in Arenas
        BY <1>1, <1>2
      <3>2. totalpages'[a] = totalpages[a] /\ nfreepages(a)' = nfreepages(a)
        BY <3>1, <1>3, <1>9
      <3> QED
        BY <3>1, <3>2, <1>6, <1>10, <1>13
    <2>2. ASSUME NEW a \in Arenas
          PROVE  totalpages'[a] = 0 \/ a = current_arena' \/ \E i \in I : a \in arenas_lists'[i]
      <3>1. CASE a \in empty
        BY <3>1, <1>3
      <3>2. CASE a \in inLists \ empty
        BY <3>2, <1>2, <1>13
      <3>3. CASE a \notin inLists
        BY <3>3, <1>0, <1>1, <1>3, <1>12 DEF ArenasPlaced
      <3> QED
        BY <3>1, <3>2, <3>3
    <2>3. current_arena' # NULL
            => nfreepages(current_arena)' + num_uninitialized_pages' > 0
      <3>1. current_arena # NULL => nfreepages(current_arena)' = nfreepages(current_arena)
        <4> SUFFICES ASSUME current_arena # NULL
                     PROVE  freepages'[current_arena] = freepages[current_arena]
          BY DEF nfreepages
        <4> QED
          BY <1>4, <1>6, <1>12, <1>14
      <3> QED
        BY <3>1, <1>0 DEF ArenasPlaced, nfreepages
    <2>4. \A i \in 1..min_empty_nfreepages' - 1 : arenas_lists'[i] = {}
      BY <1>5
    <2> QED
      BY <2>1, <2>2, <2>3, <2>4 DEF ArenasPlaced, nfreepages
  <1>23. /\ arenas_lists' \in [I -> SUBSET Arenas]
         /\ totalpages' \in [Arenas -> 0..max_pages_per_arena]
         /\ freepages' \in [Arenas -> SUBSET (1..max_pages_per_arena)]
         /\ min_empty_nfreepages' \in 1..max_pages_per_arena
    <2>1. arenas_lists' \in [I -> SUBSET Arenas]
      BY <1>1, <1>2
    <2>2. totalpages' \in [Arenas -> 0..max_pages_per_arena]
      BY <1>3, <1>11, ArenaAssumption
    <2>3. freepages' \in [Arenas -> SUBSET (1..max_pages_per_arena)]
      BY <1>0, <1>4 DEF StoreType
    <2> QED
      BY <2>1, <2>2, <2>3, <1>5, ArenaAssumption
  <1> QED
    BY <1>20, <1>21, <1>22, <1>23

----------------------------------------------------------------------------
(* The invariant holds initially, and every action keeps it.               *)

LEMMA InitStoreInv ==
    ASSUME Init
    PROVE  StoreInv
  <1> USE ArenaAssumption
  <1>1. StoreType
    <2>1. << >> \in Seq(Nat \ {0})
      OBVIOUS
    <2>2. rehashed \in BOOLEAN
      BY Zenon DEF Init
    <2>3. /\ size_class_with_old_pages \in {-1} \cup Classes
          /\ live \in SUBSET (Page \X Nat \X Classes)
          /\ page_for_size \in [Classes -> SUBSET Page]
          /\ full_page_for_size \in [Classes -> SUBSET Page]
          /\ old_page_for_size \in [Classes -> SUBSET Page]
          /\ old_full_page_for_size \in [Classes -> SUBSET Page]
      BY DEF Init, Empty
    <2>4. /\ arenas_lists \in [0..max_pages_per_arena - 1 -> SUBSET Arenas]
          /\ current_arena \in Arenas \cup {NULL}
          /\ totalpages \in [Arenas -> 0..max_pages_per_arena]
          /\ freepages \in [Arenas -> SUBSET (1..max_pages_per_arena)]
          /\ size \in [Page -> 0..MaxSize]
          /\ uninitialized \in [Page -> Nat \ {0}]
          /\ freeblock \in [Page -> Seq(Nat \ {0})]
      BY <2>1 DEF Init
    <2> QED
      BY <2>2, <2>3, <2>4 DEF Init, StoreType
  <1>2. PageShape /\ ChainsSorted
    BY DEF Init, PageShape, ChainsSorted
  <1>3. \A p \in Page : Used(p) = {}
    BY <1>1, UsedFacts DEF Init
  <1>4. LiveAreUsed
    BY <1>3 DEF Init, LiveAreUsed
  <1>5. WordsCounted
    <2>1. WordsInUse = {}
      BY DEF Init, WordsInUse
    <2> QED
      BY <2>1, FS_EmptySet DEF Init, WordsCounted
  <1>6. ArenaPages /\ OldEmpty
    BY DEF Init, ArenaPages, OldEmpty, Empty
  <1>7. PagesPlaced
    <2>1. \A p \in Page : p[1] \in Arenas /\ p[2] \in 1..max_pages_per_arena
      BY DEF Page
    <2> QED
      BY <2>1 DEF Init, PagesPlaced, Empty, Fresh
  <1>8. ArenasPlaced
    BY DEF Init, ArenasPlaced
  <1> QED
    BY <1>1, <1>2, <1>4, <1>5, <1>6, <1>7, <1>8 DEF StoreInv

LEMMA PickStoreInv ==
    ASSUME StoreInv, NEW c \in Classes, _pick_next_arena(c)
    PROVE  StoreInv'
  <1> USE ArenaAssumption
  <1>1. PICK i \in Candidates : \E a \in arenas_lists[i] :
            /\ \A j \in Candidates : i <= j
            /\ min_empty_nfreepages' = i
            /\ current_arena' = a
            /\ arenas_lists' = [arenas_lists EXCEPT ![i] = @ \ {a}]
    BY DEF _pick_next_arena
  <1>2. PICK a \in arenas_lists[i] :
            /\ \A j \in Candidates : i <= j
            /\ min_empty_nfreepages' = i
            /\ current_arena' = a
            /\ arenas_lists' = [arenas_lists EXCEPT ![i] = @ \ {a}]
    BY <1>1
  <1>3. StoreType /\ ArenaPages /\ PagesPlaced /\ ArenasPlaced
    BY DEF StoreInv
  <1>4. /\ i \in 1..max_pages_per_arena - 1 /\ i \in 0..max_pages_per_arena - 1
        /\ i >= min_empty_nfreepages
    BY <1>3 DEF Candidates, StoreType
  <1>5. a \in Arenas /\ a # NULL
    BY <1>2, <1>3, <1>4 DEF StoreType
  <1>6. current_arena = NULL /\ num_uninitialized_pages = 0
    BY <1>3 DEF _pick_next_arena, ArenaPages
  <1>7. UNCHANGED <<pages, client, lists, old, num_uninitialized_pages, totalpages, freepages>>
    BY DEF _pick_next_arena
  <1>8. PageShape' /\ LiveAreUsed' /\ WordsCounted' /\ ChainsSorted'
    BY <1>7, PagesUnchanged
  <1>9. StoreType'
    <2>1. arenas_lists' \in [0..max_pages_per_arena - 1 -> SUBSET Arenas]
      BY <1>2, <1>3 DEF StoreType
    <2>2. request' \in 0..MaxSize
      BY DEF _pick_next_arena, Classes
    <2>3. rehashed' \in BOOLEAN
      BY Zenon DEF _pick_next_arena
    <2> QED
      <3>1. current_arena' \in Arenas \cup {NULL} /\ min_empty_nfreepages' \in 1..max_pages_per_arena
        BY <1>2, <1>4, <1>5
      <3> QED
        BY <3>1, <2>1, <2>2, <2>3, <1>3, <1>7 DEF StoreType, pages, client, lists, old
  <1>10. ArenaPages'
    BY <1>2, <1>3, <1>5, <1>6, <1>7 DEF ArenaPages, StoreType
  <1>11. OldEmpty'
    BY <1>7 DEF StoreInv, OldEmpty, old
  <1>12. PagesPlaced'
    <2>1. \A p \in Page : p[1] \in Arenas /\ p[2] \in 1..max_pages_per_arena
      BY DEF Page
    <2>2. \A p \in Page : ~Fresh(p)
      BY <2>1, <1>6 DEF Fresh
    <2>3. ASSUME NEW p \in Page, Fresh(p)'
          PROVE  p[2] > totalpages[p[1]] /\ p[2] \notin freepages[p[1]]
      <3>1. p[2] > totalpages[p[1]] - 0 /\ totalpages[p[1]] \in Nat
        BY <2>1, <2>3, <1>3, <1>6, <1>7 DEF Fresh, StoreType
      <3> QED
        BY <3>1, <2>1, <1>3 DEF ArenaPages
    <2>4. \A p \in Page :
            /\ size'[p] = 0 <=> p[2] > totalpages'[p[1]] \/ Fresh(p)' \/ p[2] \in freepages'[p[1]]
            /\ ~(Fresh(p)' /\ p[2] \in freepages'[p[1]])
      BY <2>2, <2>3, <1>3, <1>7 DEF PagesPlaced, pages
    <2> QED
      BY <2>4, <1>3, <1>7 DEF PagesPlaced, pages, lists, old, IsFull, nblocks_for_size
  <1>13. ArenasPlaced'
    <2>1. \A b : nfreepages(b)' = nfreepages(b)
      BY <1>7 DEF nfreepages
    <2>2. nfreepages(a) >= i /\ nfreepages(a) \in Nat
      BY <1>2, <1>3, <1>4, <1>5, FreePagesFinite DEF ArenasPlaced
    <2>3. current_arena' # NULL
            => nfreepages(current_arena)' + num_uninitialized_pages' > 0
      <3>1. nfreepages(current_arena)' = nfreepages(a)
        BY <1>2, <1>7 DEF nfreepages
      <3> QED
        BY <3>1, <2>2, <1>4, <1>6, <1>7
    <2>4. ASSUME NEW k \in 1..min_empty_nfreepages' - 1
          PROVE  arenas_lists'[k] = {}
      <3>1. k \in 0..max_pages_per_arena - 1 /\ k < i /\ k # i
        BY <1>2, <1>4
      <3>2. arenas_lists'[k] = arenas_lists[k]
        BY <3>1, <1>2, <1>3 DEF StoreType
      <3>3. k < min_empty_nfreepages => arenas_lists[k] = {}
        BY <1>3 DEF ArenasPlaced, StoreType
      <3>4. k >= min_empty_nfreepages => arenas_lists[k] = {}
        BY <3>1, <1>2, <1>4, <1>3 DEF Candidates, StoreType
      <3> QED
        BY <3>2, <3>3, <3>4, <1>3 DEF StoreType
    <2>5. \A k \in 0..max_pages_per_arena - 1 : arenas_lists'[k] = arenas_lists[k] \ {a}
      BY <1>2, <1>3, <1>4 DEF ArenasPlaced, StoreType
    <2>6. size_class_with_old_pages' = size_class_with_old_pages
      BY <1>7 DEF old
    <2>7. ASSUME NEW k \in 0..max_pages_per_arena - 1, NEW b \in arenas_lists'[k]
          PROVE  /\ totalpages'[b] # 0 /\ b # current_arena'
                 /\ k <= nfreepages(b)'
                 /\ size_class_with_old_pages' = -1
                      => k = nfreepages(b)' /\ k < totalpages'[b]
                 /\ \A j \in 0..max_pages_per_arena - 1 : b \in arenas_lists'[j] => k = j
      BY <2>1, <2>5, <2>6, <1>2, <1>3, <1>7 DEF ArenasPlaced
    <2>8. ASSUME NEW b \in Arenas
          PROVE  totalpages'[b] = 0 \/ b = current_arena'
                 \/ \E k \in 0..max_pages_per_arena - 1 : b \in arenas_lists'[k]
      <3>1. totalpages[b] = 0 \/ \E k \in 0..max_pages_per_arena - 1 : b \in arenas_lists[k]
        BY <1>3, <1>6, <1>5 DEF ArenasPlaced
      <3> QED
        BY <3>1, <2>5, <1>2, <1>7
    <2> QED
      BY <2>3, <2>4, <2>7, <2>8 DEF ArenasPlaced, nfreepages
  <1> QED
    BY <1>8, <1>9, <1>10, <1>11, <1>12, <1>13 DEF StoreInv

LEMMA RehashAndRetryStoreInv ==
    ASSUME StoreInv, NEW c \in Classes, RehashAndRetry(c)
    PROVE  StoreInv'
  <1>1. PageShape' /\ LiveAreUsed' /\ WordsCounted' /\ ChainsSorted'
    BY PagesUnchanged DEF RehashAndRetry
  <1>2. UNCHANGED <<lists, current_arena, num_uninitialized_pages, pages,
                    old_page_for_size, old_full_page_for_size>>
    BY DEF RehashAndRetry, old
  <1>3. _rehash_arenas_lists
    BY DEF RehashAndRetry
  <1>4. OldEmpty'
    BY DEF StoreInv, RehashAndRetry, OldEmpty, old
  <1>5. StoreType'
    <2>1. /\ arenas_lists' \in [0..max_pages_per_arena - 1 -> SUBSET Arenas]
          /\ totalpages' \in [Arenas -> 0..max_pages_per_arena]
          /\ freepages' \in [Arenas -> SUBSET (1..max_pages_per_arena)]
          /\ min_empty_nfreepages' \in 1..max_pages_per_arena
      BY <1>2, <1>3, Rehash
    <2>2. request' \in 0..MaxSize
      BY ArenaAssumption DEF RehashAndRetry, Classes
    <2>3. rehashed' \in BOOLEAN
      BY Zenon DEF RehashAndRetry
    <2>4. UNCHANGED <<lists, old, current_arena, num_uninitialized_pages, pages, client>>
      BY DEF RehashAndRetry
    <2>5. StoreType
      BY DEF StoreInv
    <2> QED
      BY <2>1, <2>2, <2>3, <2>4, <2>5 DEF StoreType, old, pages, client, lists
  <1> QED
    BY <1>1, <1>2, <1>3, <1>4, <1>5, Rehash DEF StoreInv

LEMMA CompleteStoreInv ==
    ASSUME StoreInv, mass_free_complete
    PROVE  StoreInv'
  <1>1. PageShape' /\ LiveAreUsed' /\ WordsCounted' /\ ChainsSorted'
    BY PagesUnchanged DEF mass_free_complete
  <1>2. UNCHANGED <<lists, current_arena, num_uninitialized_pages, pages,
                    old_page_for_size, old_full_page_for_size>>
    BY DEF mass_free_complete
  <1>3. _rehash_arenas_lists
    BY DEF mass_free_complete
  <1>4. OldEmpty'
    <2> SUFFICES ASSUME NEW c \in Classes
                 PROVE  old_page_for_size[c] = {} /\ old_full_page_for_size[c] = {}
      BY <1>2 DEF OldEmpty
    <2>1. CASE c > size_class_with_old_pages
      BY <2>1 DEF StoreInv, OldEmpty
    <2>2. CASE ~(c > size_class_with_old_pages)
      <3>1. c \in 1..size_class_with_old_pages
        BY <2>2, ArenaAssumption DEF StoreInv, StoreType, Classes
      <3> QED
        BY <3>1 DEF mass_free_complete, Unwalked
    <2> QED
      BY <2>1, <2>2
  <1>5. StoreType'
    BY <1>2, <1>3, Rehash, ArenaAssumption
      DEF StoreInv, mass_free_complete, StoreType, pages, client, lists
  <1> QED
    BY <1>1, <1>2, <1>3, <1>4, <1>5, Rehash DEF StoreInv

LEMMA PrepareStoreInv ==
    ASSUME StoreInv, mass_free_prepare
    PROVE  StoreInv'
  <1> USE ArenaAssumption
  <1>1. PageShape' /\ LiveAreUsed' /\ WordsCounted' /\ ChainsSorted'
    BY PagesUnchanged DEF mass_free_prepare
  <1>2. UNCHANGED <<arenas, freepages, pages, client, request, rehashed>>
    BY DEF mass_free_prepare
  <1>3. /\ page_for_size' = Empty /\ full_page_for_size' = Empty
        /\ old_page_for_size' = page_for_size /\ old_full_page_for_size' = full_page_for_size
        /\ size_class_with_old_pages = -1 /\ size_class_with_old_pages' = MaxSize
    BY DEF mass_free_prepare
  <1>4. StoreType'
    BY <1>2, <1>3 DEF StoreInv, StoreType, arenas, pages, client, Empty, Classes
  <1>5. ArenaPages'
    BY <1>2 DEF StoreInv, ArenaPages, arenas
  <1>6. OldEmpty'
    BY <1>3 DEF OldEmpty, Classes
  <1>7. \A c \in Classes : old_page_for_size[c] = {} /\ old_full_page_for_size[c] = {}
    BY <1>3 DEF StoreInv, OldEmpty, Classes
  <1>8. PagesPlaced'
    <2>1. PagesPlaced /\ StoreType
      BY DEF StoreInv
    <2>2. \A p \in Page : Fresh(p)' <=> Fresh(p)
      BY <1>2 DEF Fresh, arenas
    <2>3. \A p \in Page : size[p] # 0 => size[p] \in Classes
      BY <2>1 DEF StoreType, Classes
    <2>4. \A p \in Page :
            /\ size'[p] = 0 <=> p[2] > totalpages'[p[1]] \/ Fresh(p)' \/ p[2] \in freepages'[p[1]]
            /\ ~(Fresh(p)' /\ p[2] \in freepages'[p[1]])
            /\ size'[p] # 0 => p \in old_page_for_size'[size[p]] \cup old_full_page_for_size'[size[p]]
      BY <2>1, <2>2, <2>3, <1>2, <1>3, <1>7 DEF PagesPlaced, arenas, pages
    <2>5. \A c \in Classes : page_for_size'[c] = {} /\ full_page_for_size'[c] = {}
      BY <1>3 DEF Empty
    <2> QED
      BY <2>1, <2>4, <2>5, <1>2, <1>3 DEF PagesPlaced, pages, IsFull, nblocks_for_size
  <1>9. ArenasPlaced'
    BY <1>2, <1>3 DEF StoreInv, ArenasPlaced, arenas, nfreepages
  <1> QED
    BY <1>1, <1>4, <1>5, <1>6, <1>8, <1>9 DEF StoreInv

LEMMA NewArenaStoreInv ==
    ASSUME StoreInv, NEW c \in Classes, NEW a \in Arenas, NEW n \in 1..max_pages_per_arena,
           NewArena(c, a, n)
    PROVE  StoreInv'
  <1> USE ArenaAssumption
  <1>1. StoreType /\ ArenaPages /\ PagesPlaced /\ ArenasPlaced
    BY DEF StoreInv
  <1>2. /\ current_arena = NULL /\ num_uninitialized_pages = 0 /\ totalpages[a] = 0
        /\ Candidates = {}
    BY <1>1 DEF NewArena, ArenaPages
  <1>3. /\ totalpages' = [totalpages EXCEPT ![a] = n]
        /\ num_uninitialized_pages' = n /\ current_arena' = a
        /\ min_empty_nfreepages' = max_pages_per_arena
        /\ UNCHANGED <<lists, old, arenas_lists, freepages, pages, client>>
    BY DEF NewArena
  <1>4. /\ totalpages'[a] = n
        /\ \A b \in Arenas \ {a} : totalpages'[b] = totalpages[b]
    BY <1>1, <1>3 DEF StoreType
  <1>5. freepages[a] = {}
    BY <1>1, <1>2 DEF ArenaPages
  <1>6. a # NULL
    OBVIOUS
  <1>7. PageShape' /\ LiveAreUsed' /\ WordsCounted' /\ ChainsSorted'
    BY <1>3, PagesUnchanged
  <1>8. StoreType'
    <2>1. totalpages' \in [Arenas -> 0..max_pages_per_arena]
      BY <1>1, <1>3 DEF StoreType
    <2>2. request' \in 0..MaxSize
      BY DEF NewArena, Classes
    <2>3. rehashed' \in BOOLEAN
      BY Zenon DEF NewArena
    <2> QED
      BY <2>1, <2>2, <2>3, <1>1, <1>3 DEF StoreType, pages, client, lists, old
  <1>9. ArenaPages'
    <2>1. \A b \in Arenas : freepages[b] \subseteq 1..totalpages'[b]
      BY <1>1, <1>4, <1>5 DEF ArenaPages
    <2> QED
      BY <2>1, <1>3, <1>4, <1>6 DEF ArenaPages
  <1>10. OldEmpty'
    BY <1>3 DEF StoreInv, OldEmpty, old
  <1>11. PagesPlaced'
    <2>1. \A p \in Page : p[1] \in Arenas /\ p[2] \in 1..max_pages_per_arena
      BY DEF Page
    <2>2. \A p \in Page : ~Fresh(p)
      BY <2>1, <1>2 DEF Fresh
    <2>3. ASSUME NEW p \in Page
          PROVE  /\ size'[p] = 0 <=> p[2] > totalpages'[p[1]] \/ Fresh(p)' \/ p[2] \in freepages'[p[1]]
                 /\ ~(Fresh(p)' /\ p[2] \in freepages'[p[1]])
      <3>1. CASE p[1] = a
        <4>1. size[p] = 0
          BY <3>1, <2>1, <1>1, <1>2 DEF PagesPlaced
        <4>2. Fresh(p)'
          BY <3>1, <2>1, <1>3, <1>4 DEF Fresh
        <4> QED
          BY <4>1, <4>2, <3>1, <1>3, <1>5 DEF pages
      <3>2. CASE p[1] # a
        <4>1. ~Fresh(p)'
          BY <3>2, <1>3 DEF Fresh
        <4> QED
          BY <4>1, <3>2, <2>1, <2>2, <1>1, <1>3, <1>4 DEF PagesPlaced, pages
      <3> QED
        BY <3>1, <3>2
    <2> QED
      BY <2>3, <1>1, <1>3 DEF PagesPlaced, pages, lists, old, IsFull, nblocks_for_size
  <1>12. ArenasPlaced'
    <2>1. \A b : nfreepages(b)' = nfreepages(b)
      BY <1>3 DEF nfreepages
    <2>2. current_arena' # NULL
            => nfreepages(current_arena)' + num_uninitialized_pages' > 0
      <3>1. nfreepages(current_arena)' = nfreepages(a)
        BY <1>3 DEF nfreepages
      <3>2. nfreepages(a) = 0
        BY <1>5, FS_EmptySet DEF nfreepages
      <3> QED
        BY <3>1, <3>2, <1>3
    <2>3. ASSUME NEW i \in 1..min_empty_nfreepages' - 1
          PROVE  arenas_lists'[i] = {}
      <3>1. i \in 1..max_pages_per_arena - 1
        BY <1>3
      <3>2. i < min_empty_nfreepages => arenas_lists[i] = {}
        BY <1>1 DEF ArenasPlaced, StoreType
      <3>3. i >= min_empty_nfreepages => arenas_lists[i] = {}
        <4>1. i >= min_empty_nfreepages
                => i \in min_empty_nfreepages..max_pages_per_arena - 1
          BY <3>1, <1>1 DEF StoreType
        <4> QED
          BY <4>1, <1>2 DEF Candidates
      <3> QED
        BY <3>2, <3>3, <1>1, <1>3 DEF StoreType
    <2>4. ASSUME NEW i \in 0..max_pages_per_arena - 1, NEW b \in arenas_lists'[i]
          PROVE  /\ totalpages'[b] # 0 /\ b # current_arena'
                 /\ i <= nfreepages(b)'
                 /\ size_class_with_old_pages' = -1
                      => i = nfreepages(b)' /\ i < totalpages'[b]
                 /\ \A j \in 0..max_pages_per_arena - 1 : b \in arenas_lists'[j] => i = j
      <3>1. b \in arenas_lists[i] /\ b \in Arenas
        BY <1>1, <1>3 DEF StoreType
      <3>2. b # a
        BY <3>1, <1>1, <1>2 DEF ArenasPlaced
      <3> QED
        BY <3>1, <3>2, <2>1, <1>1, <1>3, <1>4 DEF ArenasPlaced, old
    <2>5. ASSUME NEW b \in Arenas
          PROVE  totalpages'[b] = 0 \/ b = current_arena'
                 \/ \E i \in 0..max_pages_per_arena - 1 : b \in arenas_lists'[i]
      <3>1. totalpages[b] = 0 \/ \E i \in 0..max_pages_per_arena - 1 : b \in arenas_lists[i]
        BY <1>1, <1>2 DEF ArenasPlaced
      <3> QED
        BY <3>1, <1>3, <1>4
    <2> QED
      BY <2>2, <2>3, <2>4, <2>5 DEF ArenasPlaced, nfreepages
  <1> QED
    BY <1>7, <1>8, <1>9, <1>10, <1>11, <1>12 DEF StoreInv

(* A page that is given to a size class was in no list.                    *)
LEMMA AllocatePageStoreInv ==
    ASSUME StoreInv, NEW c \in Classes, NEW n \in 1..max_pages_per_arena, allocate_new_page(c, n)
    PROVE  StoreInv'
  <1> USE ArenaAssumption
  <1>1. StoreType /\ ArenaPages /\ PagesPlaced /\ ArenasPlaced /\ PageShape
    BY DEF StoreInv
  <1>a. PICK a \in Arenas : a = current_arena
    BY <1>1 DEF allocate_new_page, StoreType
  <1>p. PICK p \in Page : p = <<a, n>>
    BY DEF Page
  <1> USE <1>a, <1>p
  <1>2. a \in Arenas /\ a # NULL /\ page_for_size[c] = {}
    BY <1>1 DEF allocate_new_page, NeedsPage, StoreType
  <1>3. p \in Page /\ p[1] = a /\ p[2] = n
    BY <1>2 DEF Page
  <1>4. /\ IF freepages[a] # {}
             THEN n \in freepages[a] /\ UNCHANGED num_uninitialized_pages
             ELSE /\ n = totalpages[a] - num_uninitialized_pages + 1
                  /\ num_uninitialized_pages' = num_uninitialized_pages - 1
        /\ freepages' = [freepages EXCEPT ![a] = @ \ {n}]
        /\ IF freepages'[a] = {} /\ num_uninitialized_pages' = 0
             THEN /\ arenas_lists' = [arenas_lists EXCEPT ![0] = @ \cup {a}]
                  /\ current_arena' = NULL
             ELSE UNCHANGED <<arenas_lists, current_arena>>
        /\ size' = [size EXCEPT ![p] = c]
        /\ freeblock' = [freeblock EXCEPT ![p] = << >>]
        /\ uninitialized' = [uninitialized EXCEPT ![p] = 1]
        /\ page_for_size' = [page_for_size EXCEPT ![c] = {p}]
        /\ UNCHANGED <<full_page_for_size, old, min_empty_nfreepages, totalpages, client>>
    BY DEF allocate_new_page
  <1>5. request' \in 0..MaxSize /\ rehashed' = rehashed
    BY DEF allocate_new_page, Classes
  <1>6. /\ totalpages[a] \in 0..max_pages_per_arena
        /\ num_uninitialized_pages \in 0..max_pages_per_arena
        /\ num_uninitialized_pages <= totalpages[a]
        /\ freepages[a] \subseteq 1..totalpages[a]
    BY <1>1, <1>2 DEF StoreType, ArenaPages
  <1>7. freepages[a] = {} => num_uninitialized_pages > 0
    <2>1. nfreepages(a) + num_uninitialized_pages > 0
      BY <1>1, <1>2 DEF ArenasPlaced
    <2>2. freepages[a] = {} => nfreepages(a) = 0
      BY <1>1, <1>2, FreePagesFinite
    <2> QED
      BY <2>1, <2>2, <1>6
  <1>8. /\ num_uninitialized_pages' \in 0..max_pages_per_arena
        /\ num_uninitialized_pages' <= totalpages[a]
    BY <1>4, <1>6, <1>7
  <1>9. /\ freepages'[a] = freepages[a] \ {n}
        /\ \A b \in Arenas \ {a} : freepages'[b] = freepages[b]
    BY <1>1, <1>2, <1>4 DEF StoreType
  <1>10. size[p] = 0
    <2>1. CASE freepages[a] # {}
      BY <2>1, <1>1, <1>3, <1>4 DEF PagesPlaced
    <2>2. CASE freepages[a] = {}
      <3>1. Fresh(p)
        BY <2>2, <1>3, <1>4, <1>6 DEF Fresh
      <3> QED
        BY <3>1, <1>1, <1>3 DEF PagesPlaced
    <2> QED
      BY <2>1, <2>2
  <1>11. freeblock' = freeblock /\ uninitialized' = uninitialized
    BY <1>1, <1>3, <1>4, <1>10 DEF PageShape, StoreType
  <1>12. \A q \in Page : Used(q)' = Used(q)
    BY <1>11 DEF Used, Initialized
  <1>13. size'[p] = c /\ \A q \in Page \ {p} : size'[q] = size[q]
    BY <1>1, <1>3, <1>4 DEF StoreType
  <1>14. Used(p) = {}
    BY <1>1, <1>3, <1>10, UsedFacts DEF PageShape
  <1>15. c \in Nat /\ c > 0 /\ nblocks_for_size(c) \in Nat /\ nblocks_for_size(c) >= 1
    BY BlocksFit
  <1>20. StoreType'
    <2>1. arenas_lists' \in [0..max_pages_per_arena - 1 -> SUBSET Arenas]
      <3>1. arenas_lists \in [0..max_pages_per_arena - 1 -> SUBSET Arenas]
        BY <1>1 DEF StoreType
      <3>2. CASE UNCHANGED arenas_lists
        BY <3>1, <3>2
      <3>3. CASE arenas_lists' = [arenas_lists EXCEPT ![0] = @ \cup {a}]
        <4>1. arenas_lists[0] \cup {a} \in SUBSET Arenas
          BY <3>1
        <4> QED
          BY <3>1, <3>3, <4>1
      <3> QED
        BY <3>2, <3>3, <1>4
    <2>2. current_arena' \in Arenas \cup {NULL}
      BY <1>1, <1>4 DEF StoreType
    <2>3. freepages' \in [Arenas -> SUBSET (1..max_pages_per_arena)]
      BY <1>1, <1>2, <1>4 DEF StoreType
    <2>4. size' \in [Page -> 0..MaxSize]
      BY <1>1, <1>3, <1>4 DEF StoreType, Classes
    <2>5. page_for_size' \in [Classes -> SUBSET Page]
      BY <1>1, <1>3, <1>4 DEF StoreType
    <2> QED
      BY <2>1, <2>2, <2>3, <2>4, <2>5, <1>1, <1>4, <1>5, <1>8, <1>11 DEF StoreType, client, old
  <1>21. PageShape'
    BY <1>1, <1>3, <1>10, <1>11, <1>13, <1>15 DEF PageShape, nblocks_for_size
  <1>22. ChainsSorted'
    BY <1>11 DEF StoreInv, ChainsSorted
  <1>23. LiveAreUsed'
    <2>1. live = UNION {{<<q, (b - 1) * size[q], size[q]>> : b \in Used(q)} : q \in Page}
      BY DEF StoreInv, LiveAreUsed
    <2>2. live' = live
      BY <1>4 DEF client
    <2>3. \A q \in Page : {<<q, (b - 1) * size'[q], size'[q]>> : b \in Used(q)'}
                            = {<<q, (b - 1) * size[q], size[q]>> : b \in Used(q)}
      BY <1>12, <1>13, <1>14
    <2> QED
      BY <2>1, <2>2, <2>3 DEF LiveAreUsed
  <1>24. WordsCounted'
    BY <1>4 DEF StoreInv, WordsCounted, WordsInUse, client
  <1>25. ArenaPages'
    <2>1. \A b \in Arenas : freepages'[b] \subseteq 1..totalpages[b]
      BY <1>1, <1>6, <1>9 DEF ArenaPages
    <2>2. current_arena' = NULL => num_uninitialized_pages' = 0
      BY <1>2, <1>4
    <2>3. current_arena' # NULL => current_arena' = a
      BY <1>4
    <2> QED
      BY <2>1, <2>2, <2>3, <1>4, <1>8 DEF ArenaPages
  <1>26. OldEmpty'
    BY <1>4 DEF StoreInv, OldEmpty, old
  <1>27. PagesPlaced'
    <2>1. \A q \in Page : q[1] \in Arenas /\ q[2] \in 1..max_pages_per_arena /\ q = <<q[1], q[2]>>
      BY DEF Page
    <2>2. p = <<a, n>>
      OBVIOUS
    <2>3. ASSUME NEW q \in Page \ {p}
          PROVE  /\ q[2] \in freepages'[q[1]] <=> q[2] \in freepages[q[1]]
                 /\ Fresh(q) => p[2] \in freepages[a] \/ q[1] # a \/ q[2] > n
      <3>1. q[1] # a \/ q[2] # n
        BY <2>1, <2>2
      <3> QED
        BY <3>1, <2>1, <1>3, <1>4, <1>6, <1>9 DEF Fresh
    <2>4. ASSUME NEW q \in Page \ {p}
          PROVE  (q[2] > totalpages[q[1]] \/ Fresh(q)') <=> (q[2] > totalpages[q[1]] \/ Fresh(q))
      <3>1. q[1] # a \/ q[2] # n
        BY <2>1, <2>2
      <3>2. CASE q[1] # a
        <4>1. q[1] # current_arena' 
          BY <3>2, <2>1, <1>4
        <4> QED
          BY <4>1, <3>2, <1>4 DEF Fresh
      <3>3. CASE q[1] = a
        <4>1. CASE current_arena' = a
          BY <4>1, <3>1, <3>3, <2>1, <1>4, <1>6 DEF Fresh
        <4>2. CASE current_arena' # a
          <5>1. num_uninitialized_pages' = 0 /\ ~Fresh(q)'
            BY <4>2, <3>3, <1>4 DEF Fresh
          <5>2. Fresh(q) => q[2] > totalpages[a]
            BY <5>1, <3>1, <3>3, <2>1, <1>4, <1>6 DEF Fresh
          <5> QED
            BY <5>1, <5>2, <3>3
        <4> QED
          BY <4>1, <4>2
      <3> QED
        BY <3>2, <3>3
    <2>5. ASSUME NEW q \in Page \ {p}
          PROVE  /\ size'[q] = 0 <=> q[2] > totalpages'[q[1]] \/ Fresh(q)' \/ q[2] \in freepages'[q[1]]
                 /\ ~(Fresh(q)' /\ q[2] \in freepages'[q[1]])
      <3>1. q[2] > totalpages[q[1]] => q[2] \notin freepages[q[1]]
        BY <2>1, <1>1 DEF ArenaPages, StoreType
      <3> QED
        BY <3>1, <2>3, <2>4, <1>1, <1>4, <1>13 DEF PagesPlaced
    <2>6. ~(p[2] > totalpages'[p[1]]) /\ ~Fresh(p)' /\ p[2] \notin freepages'[p[1]]
      <3>1. p[2] \notin freepages'[p[1]]
        BY <1>3, <1>9
      <3>2. ~(p[2] > totalpages'[p[1]])
        BY <1>3, <1>4, <1>6, <1>7
      <3>3. CASE freepages[a] # {}
        <4>1. ~Fresh(p)
          BY <3>3, <1>1, <1>3, <1>4 DEF PagesPlaced
        <4> QED
          BY <4>1, <3>1, <3>2, <3>3, <1>2, <1>3, <1>4 DEF Fresh
      <3>4. CASE freepages[a] = {}
        BY <3>4, <3>1, <3>2, <1>2, <1>3, <1>4, <1>6 DEF Fresh
      <3> QED
        BY <3>3, <3>4
    <2>7. /\ page_for_size'[c] = {p}
          /\ \A d \in Classes \ {c} : page_for_size'[d] = page_for_size[d]
          /\ full_page_for_size' = full_page_for_size
          /\ old_page_for_size' = old_page_for_size
          /\ old_full_page_for_size' = old_full_page_for_size
      BY <1>1, <1>4 DEF StoreType, old
    <2>8. \A d \in Classes :
            p \notin page_for_size[d] \cup full_page_for_size[d]
                       \cup old_page_for_size[d] \cup old_full_page_for_size[d]
      BY <1>1, <1>10 DEF PagesPlaced, Classes
    <2>9. ~IsFull(c, freeblock'[p], uninitialized'[p])
      BY <1>1, <1>3, <1>10, <1>11, <1>15 DEF PageShape, IsFull
    <2>10. \A d \in Classes : page_for_size'[d] \subseteq Page /\ page_for_size[d] \subseteq Page
             /\ full_page_for_size[d] \subseteq Page /\ old_page_for_size[d] \subseteq Page
             /\ old_full_page_for_size[d] \subseteq Page
      BY <1>1, <1>20 DEF StoreType
    <2>11. ASSUME NEW d \in Classes
           PROVE  /\ \A q \in page_for_size'[d] \cup old_page_for_size'[d] :
                       size'[q] = d /\ ~IsFull(d, freeblock'[q], uninitialized'[q])
                  /\ \A q \in full_page_for_size'[d] \cup old_full_page_for_size'[d] :
                       size'[q] = d /\ IsFull(d, freeblock'[q], uninitialized'[q])
                  /\ page_for_size'[d] \cap old_page_for_size'[d] = {}
                  /\ full_page_for_size'[d] \cap old_full_page_for_size'[d] = {}
      <3>1. \A q \in page_for_size[d] \cup old_page_for_size[d] :
              size'[q] = d /\ ~IsFull(d, freeblock'[q], uninitialized'[q])
        BY <2>8, <2>10, <1>1, <1>11, <1>13 DEF PagesPlaced
      <3>2. \A q \in full_page_for_size[d] \cup old_full_page_for_size[d] :
              size'[q] = d /\ IsFull(d, freeblock'[q], uninitialized'[q])
        BY <2>8, <2>10, <1>1, <1>11, <1>13 DEF PagesPlaced
      <3>3. page_for_size[d] \cap old_page_for_size[d] = {}
            /\ full_page_for_size[d] \cap old_full_page_for_size[d] = {}
        BY <1>1 DEF PagesPlaced
      <3> QED
        BY <3>1, <3>2, <3>3, <2>7, <2>8, <2>9, <1>13
    <2>12. ASSUME NEW q \in Page, size'[q] # 0
           PROVE  q \in page_for_size'[size'[q]] \cup full_page_for_size'[size'[q]]
                     \cup old_page_for_size'[size'[q]] \cup old_full_page_for_size'[size'[q]]
      <3>1. CASE q = p
        BY <3>1, <2>7, <1>13
      <3>2. CASE q # p
        <4>1. size[q] # 0 /\ size[q] = size'[q] /\ size[q] \in Classes
          BY <3>2, <2>12, <1>1, <1>13 DEF StoreType, Classes
        <4>2. q \in page_for_size[size[q]] \cup full_page_for_size[size[q]]
                     \cup old_page_for_size[size[q]] \cup old_full_page_for_size[size[q]]
          BY <4>1, <1>1 DEF PagesPlaced
        <4>3. size[q] = c => q \notin page_for_size[size[q]]
          BY <1>2
        <4> QED
          BY <4>1, <4>2, <4>3, <2>7
      <3> QED
        BY <3>1, <3>2
    <2>13. \A q \in Page :
             /\ size'[q] = 0 <=> q[2] > totalpages'[q[1]] \/ Fresh(q)' \/ q[2] \in freepages'[q[1]]
             /\ ~(Fresh(q)' /\ q[2] \in freepages'[q[1]])
      BY <2>5, <2>6, <1>13, <1>15
    <2> QED
      BY <2>11, <2>12, <2>13 DEF PagesPlaced, IsFull, nblocks_for_size
  <1>28. ArenasPlaced'
    <2>1. \A b \in Arenas \ {a} : nfreepages(b)' = nfreepages(b)
      BY <1>9 DEF nfreepages
    <2>2. IsFiniteSet(freepages'[a]) /\ Cardinality(freepages'[a]) \in Nat
          /\ (Cardinality(freepages'[a]) = 0 <=> freepages'[a] = {})
      <3>1. IsFiniteSet(freepages[a])
        BY <1>1, <1>2, FreePagesFinite
      <3>2. IsFiniteSet(freepages'[a])
        BY <3>1, <1>9, FS_Subset
      <3> QED
        BY <3>2, FS_CardinalityType, FS_EmptySet
    <2>3. current_arena' # NULL
            => nfreepages(current_arena)' + num_uninitialized_pages' > 0
      <3>1. current_arena' # NULL
              => current_arena' = a /\ ~(freepages'[a] = {} /\ num_uninitialized_pages' = 0)
        BY <1>4
      <3> QED
        BY <3>1, <2>2, <1>8 DEF nfreepages
    <2>4. a \notin arenas_lists[0] /\ \A i \in 0..max_pages_per_arena - 1 : a \notin arenas_lists[i]
      BY <1>1 DEF ArenasPlaced
    <2>5. totalpages[a] # 0
      BY <1>4, <1>6, <1>7
    <2>6. min_empty_nfreepages' = min_empty_nfreepages /\ totalpages' = totalpages
          /\ size_class_with_old_pages' = size_class_with_old_pages
      BY <1>4 DEF old
    <2>7. CASE UNCHANGED <<arenas_lists, current_arena>>
      <3>1. \A i \in 0..max_pages_per_arena - 1 : arenas_lists'[i] \subseteq Arenas \ {a}
        BY <2>4, <2>7, <1>1 DEF StoreType
      <3>2. ASSUME NEW i \in 0..max_pages_per_arena - 1, NEW b \in arenas_lists'[i]
            PROVE  /\ totalpages'[b] # 0 /\ b # current_arena'
                   /\ i <= nfreepages(b)'
                   /\ size_class_with_old_pages' = -1
                        => i = nfreepages(b)' /\ i < totalpages'[b]
                   /\ \A j \in 0..max_pages_per_arena - 1 : b \in arenas_lists'[j] => i = j
        BY <3>1, <2>1, <2>6, <2>7, <1>1 DEF ArenasPlaced
      <3>3. \A i \in 1..min_empty_nfreepages' - 1 : arenas_lists'[i] = {}
        BY <2>6, <2>7, <1>1 DEF ArenasPlaced
      <3>4. \A b \in Arenas : totalpages'[b] = 0 \/ b = current_arena'
                         \/ \E i \in 0..max_pages_per_arena - 1 : b \in arenas_lists'[i]
        BY <2>6, <2>7, <1>1 DEF ArenasPlaced
      <3> QED
        BY <3>2, <3>3, <3>4, <2>3 DEF ArenasPlaced, nfreepages
    <2>8. CASE /\ freepages'[a] = {} /\ current_arena' = NULL
               /\ arenas_lists' = [arenas_lists EXCEPT ![0] = @ \cup {a}]
      <3>0. /\ arenas_lists'[0] = arenas_lists[0] \cup {a}
            /\ \A i \in 1..max_pages_per_arena - 1 : arenas_lists'[i] = arenas_lists[i]
        BY <2>8, <1>1 DEF StoreType
      <3>1. \A i \in 0..max_pages_per_arena - 1 : arenas_lists[i] \subseteq Arenas \ {a}
        BY <2>4, <1>1 DEF StoreType
      <3>2. ASSUME NEW i \in 0..max_pages_per_arena - 1, NEW b \in arenas_lists'[i]
            PROVE  /\ totalpages'[b] # 0 /\ b # current_arena'
                   /\ i <= nfreepages(b)'
                   /\ size_class_with_old_pages' = -1
                        => i = nfreepages(b)' /\ i < totalpages'[b]
                   /\ \A j \in 0..max_pages_per_arena - 1 : b \in arenas_lists'[j] => i = j
        <4>1. CASE b = a
          <5>1. \A j \in 0..max_pages_per_arena - 1 : b \in arenas_lists'[j] => j = 0
            BY <4>1, <3>0, <3>1
          <5>2. i = 0 /\ nfreepages(b)' = 0
            BY <5>1, <4>1, <2>2, <2>8 DEF nfreepages
          <5> QED
            BY <5>1, <5>2, <4>1, <2>5, <2>6, <2>8, <1>2, <1>6
        <4>2. CASE b # a
          <5>1. b \in arenas_lists[i] /\ b \in Arenas \ {a} /\ b # NULL
            BY <4>2, <3>0, <3>1
          <5>2. \A j \in 0..max_pages_per_arena - 1 : b \in arenas_lists'[j] => b \in arenas_lists[j]
            BY <4>2, <3>0
          <5> QED
            BY <5>1, <5>2, <2>1, <2>6, <2>8, <1>1 DEF ArenasPlaced
        <4> QED
          BY <4>1, <4>2
      <3>3. \A i \in 1..min_empty_nfreepages' - 1 : arenas_lists'[i] = {}
        BY <3>0, <2>6, <1>1 DEF ArenasPlaced, StoreType
      <3>4. \A b \in Arenas : totalpages'[b] = 0 \/ b = current_arena'
                         \/ \E i \in 0..max_pages_per_arena - 1 : b \in arenas_lists'[i]
        <4> SUFFICES ASSUME NEW b \in Arenas, totalpages[b] # 0
                     PROVE  \E i \in 0..max_pages_per_arena - 1 : b \in arenas_lists'[i]
          BY <2>6
        <4>1. CASE b = a
          BY <4>1, <3>0
        <4>2. CASE b # a
          <5>1. PICK i \in 0..max_pages_per_arena - 1 : b \in arenas_lists[i]
            BY <4>2, <1>1 DEF ArenasPlaced
          <5> QED
            BY <5>1, <3>0
        <4> QED
          BY <4>1, <4>2
      <3> QED
        BY <3>2, <3>3, <3>4, <2>3 DEF ArenasPlaced, nfreepages
    <2> QED
      BY <2>7, <2>8, <1>4
  <1> QED
    BY <1>20, <1>21, <1>22, <1>23, <1>24, <1>25, <1>26, <1>27, <1>28 DEF StoreInv

(* Taking the first block off a chain that is in order.                    *)
LEMMA TailChain ==
    ASSUME NEW s \in Seq(Nat \ {0}), s # << >>,
           \A i, j \in DOMAIN s : i < j => s[i] < s[j]
    PROVE  /\ Tail(s) \in Seq(Nat \ {0})
           /\ \A i, j \in DOMAIN Tail(s) : i < j => Tail(s)[i] < Tail(s)[j]
           /\ Head(s) \in Blocks(s) /\ Head(s) \in Nat \ {0}
           /\ Blocks(Tail(s)) = Blocks(s) \ {Head(s)}
  <1>1. /\ Len(s) \in Nat /\ Len(s) >= 1 /\ DOMAIN s = 1..Len(s) /\ Head(s) = s[1]
        /\ s \in [1..Len(s) -> Nat \ {0}]
    OBVIOUS
  <1>2. /\ Tail(s) \in Seq(Nat \ {0}) /\ DOMAIN Tail(s) = 1..Len(s) - 1
        /\ \A i \in 1..Len(s) - 1 : Tail(s)[i] = s[i + 1]
    OBVIOUS
  <1>3. \A i, j \in DOMAIN Tail(s) : i < j => Tail(s)[i] < Tail(s)[j]
    BY <1>1, <1>2
  <1>4. Head(s) \in Blocks(s) /\ Head(s) \in Nat \ {0}
    BY <1>1 DEF Blocks
  <1>5. ASSUME NEW i \in 1..Len(s) - 1
        PROVE  Tail(s)[i] \in Blocks(s) /\ Tail(s)[i] # Head(s)
    <2>1. i + 1 \in DOMAIN s /\ 1 \in DOMAIN s /\ 1 < i + 1
      BY <1>1
    <2>2. s[1] < s[i + 1] /\ s[1] \in Nat /\ s[i + 1] \in Nat
      BY <2>1, <1>1
    <2>3. s[i + 1] \in Blocks(s)
      BY <2>1 DEF Blocks
    <2> QED
      BY <2>2, <2>3, <1>1, <1>2
  <1>6. ASSUME NEW x \in Blocks(s), x # Head(s)
        PROVE  x \in Blocks(Tail(s))
    <2>1. PICK i \in 1..Len(s) : x = s[i]
      BY <1>1 DEF Blocks
    <2>2. i # 1
      BY <2>1, <1>1, <1>6
    <2>3. i - 1 \in 1..Len(s) - 1 /\ (i - 1) + 1 = i
      BY <2>1, <2>2, <1>1
    <2>4. Tail(s)[i - 1] = x
      BY <2>1, <2>3, <1>2
    <2> QED
      BY <2>3, <2>4, <1>2 DEF Blocks
  <1>7. \A x \in Blocks(Tail(s)) : \E i \in 1..Len(s) - 1 : x = Tail(s)[i]
    BY <1>2 DEF Blocks
  <1> QED
    BY <1>2, <1>3, <1>4, <1>5, <1>6, <1>7

LEMMA MallocStoreInv ==
    ASSUME StoreInv, NEW c \in Classes, NEW p \in page_for_size[c], malloc(c, p)
    PROVE  StoreInv'
  <1> USE ArenaAssumption
  <1> DEFINE reuse == freeblock[p] # << >>
             b == IF reuse THEN Head(freeblock[p]) ELSE uninitialized[p]
             chain == IF reuse THEN Tail(freeblock[p]) ELSE << >>
             fresh == IF reuse THEN uninitialized[p] ELSE b + 1
  <1>1. StoreType /\ PageShape /\ PagesPlaced /\ ChainsSorted /\ LiveAreUsed /\ WordsCounted
    BY DEF StoreInv
  <1>2. p \in Page /\ size[p] = c /\ ~IsFull(c, freeblock[p], uninitialized[p])
    BY <1>1 DEF StoreType, PagesPlaced
  <1>3. c \in Nat /\ c > 0 /\ c <= MaxSize /\ nblocks_for_size(c) \in Nat
    BY BlocksFit DEF Classes
  <1>4. /\ freeblock' = [freeblock EXCEPT ![p] = chain]
        /\ uninitialized' = [uninitialized EXCEPT ![p] = fresh]
        /\ IF IsFull(c, chain, fresh)
             THEN /\ page_for_size' = [page_for_size EXCEPT ![c] = @ \ {p}]
                  /\ full_page_for_size' = [full_page_for_size EXCEPT ![c] = @ \cup {p}]
             ELSE UNCHANGED lists
        /\ live' = live \cup {<<p, (b - 1) * c, c>>}
        /\ total_memory_used' = total_memory_used + c
        /\ UNCHANGED <<old, arenas, freepages, size, rehashed>>
        /\ request' = 0
    BY DEF malloc
  <1>5. /\ uninitialized[p] \in Nat \ {0} /\ uninitialized[p] <= nblocks_for_size(c) + 1
        /\ freeblock[p] \in Seq(Nat \ {0})
    BY <1>1, <1>2, <1>3 DEF StoreType, PageShape
  <1>6. /\ \A i, j \in DOMAIN freeblock[p] : i < j => freeblock[p][i] < freeblock[p][j]
        /\ \A x \in Blocks(freeblock[p]) : x < uninitialized[p]
    BY <1>1, <1>2 DEF ChainsSorted, Blocks
  <1>7. /\ chain \in Seq(Nat \ {0})
        /\ \A i, j \in DOMAIN chain : i < j => chain[i] < chain[j]
        /\ \A x \in Blocks(chain) : x < fresh
        /\ b \in Nat \ {0} /\ b <= nblocks_for_size(c)
        /\ fresh \in Nat \ {0} /\ fresh <= nblocks_for_size(c) + 1
        /\ b \notin Used(p)
        /\ (1..fresh - 1) \ Blocks(chain) = Used(p) \cup {b}
    <2>1. Used(p) = (1..uninitialized[p] - 1) \ Blocks(freeblock[p])
      BY <1>1, <1>2, UsedFacts DEF Initialized
    <2>2. CASE reuse
      <3>1. /\ Tail(freeblock[p]) \in Seq(Nat \ {0})
            /\ \A i, j \in DOMAIN Tail(freeblock[p]) :
                  i < j => Tail(freeblock[p])[i] < Tail(freeblock[p])[j]
            /\ Head(freeblock[p]) \in Blocks(freeblock[p]) /\ Head(freeblock[p]) \in Nat \ {0}
            /\ Blocks(Tail(freeblock[p])) = Blocks(freeblock[p]) \ {Head(freeblock[p])}
        BY <2>2, <1>5, <1>6, TailChain
      <3>2. b = Head(freeblock[p]) /\ chain = Tail(freeblock[p]) /\ fresh = uninitialized[p]
        BY <2>2
      <3> HIDE DEF b, chain, fresh, reuse
      <3>3. b < uninitialized[p] /\ b \in Blocks(freeblock[p]) /\ b \in Nat \ {0}
        BY <3>1, <3>2, <1>6
      <3>4. b <= nblocks_for_size(c) /\ b \notin Used(p)
        BY <3>3, <2>1, <1>3, <1>5
      <3>5. b \in 1..uninitialized[p] - 1
        BY <3>3, <1>5
      <3>6. (1..fresh - 1) \ Blocks(chain) = Used(p) \cup {b}
        BY <3>1, <3>2, <3>5, <2>1
      <3>7. \A x \in Blocks(chain) : x < fresh
        BY <3>1, <3>2, <1>6
      <3> QED
        BY <3>1, <3>2, <3>3, <3>4, <3>6, <3>7, <1>5
    <2>3. CASE ~reuse
      <3>1. b = uninitialized[p] /\ chain = << >> /\ fresh = uninitialized[p] + 1
        BY <2>3
      <3>2. uninitialized[p] <= nblocks_for_size(c)
        BY <2>3, <1>2, <1>3, <1>5 DEF IsFull
      <3>3. Blocks(freeblock[p]) = {} /\ Blocks(<< >>) = {} /\ DOMAIN << >> = {}
            /\ << >> \in Seq(Nat \ {0})
        BY <2>3 DEF Blocks
      <3> HIDE DEF b, chain, fresh, reuse
      <3>4. (1..fresh - 1) = (1..uninitialized[p] - 1) \cup {b}
        BY <3>1, <1>5
      <3>5. fresh \in Nat \ {0} /\ fresh <= nblocks_for_size(c) + 1 /\ b \notin Used(p)
        BY <3>1, <3>2, <2>1, <1>3, <1>5
      <3> QED
        BY <3>1, <3>2, <3>3, <3>4, <3>5, <2>1, <1>5
    <2> QED
      BY <2>2, <2>3
  <1> HIDE DEF b, chain, fresh, reuse
  <1>8. /\ freeblock'[p] = chain /\ uninitialized'[p] = fresh /\ size' = size
        /\ \A q \in Page \ {p} : freeblock'[q] = freeblock[q] /\ uninitialized'[q] = uninitialized[q]
    BY <1>1, <1>2, <1>4 DEF StoreType
  <1>9. /\ Used(p)' = Used(p) \cup {b}
        /\ \A q \in Page \ {p} : Used(q)' = Used(q)
    <2>1. Used(p)' = (1..fresh - 1) \ Blocks(chain)
      BY <1>8 DEF Used, Initialized, Blocks
    <2>2. \A q \in Page \ {p} : Used(q)' = Used(q)
      BY <1>8 DEF Used, Initialized
    <2> QED
      BY <2>1, <2>2, <1>7
  <1>10. (b - 1) * c \in Nat
    BY <1>3, <1>7, MultMonotone
  <1>11. /\ page_for_size' \in [Classes -> SUBSET Page]
         /\ full_page_for_size' \in [Classes -> SUBSET Page]
    <2>1. /\ page_for_size \in [Classes -> SUBSET Page]
          /\ full_page_for_size \in [Classes -> SUBSET Page]
      BY <1>1 DEF StoreType
    <2>2. /\ page_for_size[c] \ {p} \in SUBSET Page
          /\ full_page_for_size[c] \cup {p} \in SUBSET Page
      BY <2>1, <1>2
    <2>3. CASE IsFull(c, chain, fresh)
      BY <2>1, <2>2, <2>3, <1>4
    <2>4. CASE ~IsFull(c, chain, fresh)
      BY <2>1, <2>4, <1>4 DEF lists
    <2> QED
      BY <2>3, <2>4
  <1>20. StoreType'
    <2>1. freeblock' \in [Page -> Seq(Nat \ {0})] /\ uninitialized' \in [Page -> Nat \ {0}]
      BY <1>1, <1>4, <1>7 DEF StoreType
    <2>2. live' \in SUBSET (Page \X Nat \X Classes) /\ total_memory_used' \in Nat
      BY <1>1, <1>2, <1>3, <1>4, <1>10 DEF StoreType
    <2> QED
      BY <2>1, <2>2, <1>1, <1>4, <1>11 DEF StoreType, old, arenas
  <1>21. PageShape'
    <2> SUFFICES ASSUME NEW q \in Page
                 PROVE  /\ size[q] = 0 => freeblock'[q] = << >> /\ uninitialized'[q] = 1
                        /\ size[q] # 0 => uninitialized'[q] <= nblocks_for_size(size[q]) + 1
      BY <1>8 DEF PageShape, nblocks_for_size
    <2>1. CASE q = p
      BY <2>1, <1>2, <1>3, <1>7, <1>8
    <2>2. CASE q # p
      BY <2>2, <1>1, <1>8 DEF PageShape
    <2> QED
      BY <2>1, <2>2
  <1>22. ChainsSorted'
    <2>1. \A i \in DOMAIN chain : chain[i] < fresh
      BY <1>7 DEF Blocks
    <2> QED
      BY <2>1, <1>1, <1>7, <1>8 DEF ChainsSorted
  <1>23. LiveAreUsed'
    <2>1. live = UNION {{<<q, (d - 1) * size[q], size[q]>> : d \in Used(q)} : q \in Page}
      BY <1>1 DEF LiveAreUsed
    <2>2. ASSUME NEW x \in live'
          PROVE  \E q \in Page : \E d \in Used(q)' : x = <<q, (d - 1) * size'[q], size'[q]>>
      <3>1. CASE x \in live
        <4>1. PICK q \in Page : \E d \in Used(q) : x = <<q, (d - 1) * size[q], size[q]>>
          BY <3>1, <2>1
        <4>2. \A d \in Used(q) : d \in Used(q)'
          BY <1>9
        <4> QED
          BY <4>1, <4>2, <1>8
      <3>2. CASE x = <<p, (b - 1) * c, c>>
        BY <3>2, <1>2, <1>8, <1>9
      <3> QED
        BY <3>1, <3>2, <1>4
    <2>3. ASSUME NEW q \in Page, NEW d \in Used(q)'
          PROVE  <<q, (d - 1) * size'[q], size'[q]>> \in live'
      <3>1. CASE d \in Used(q)
        BY <3>1, <2>1, <1>4, <1>8
      <3>2. CASE q = p /\ d = b
        BY <3>2, <1>2, <1>4, <1>8
      <3> QED
        BY <3>1, <3>2, <1>9
    <2> QED
      BY <2>2, <2>3 DEF LiveAreUsed
  <1>24. WordsCounted'
    <2>0. IsFiniteSet({b}) /\ Cardinality({b}) = 1
      BY FS_Singleton
    <2>1. /\ {b} \in SUBSET (Nat \ {0}) /\ IsFiniteSet({b}) /\ Cardinality({b}) = 1
          /\ {b} \cap Used(p) = {}
      BY <2>0, <1>7
    <2>2. /\ IsFiniteSet(WordsInUse')
          /\ Cardinality(WordsInUse') = Cardinality(WordsInUse) + c * Cardinality({b})
      BY <2>1, <1>1, <1>2, <1>3, <1>8, <1>9, <1>23, WordsOfOnePage
    <2> QED
      BY <2>1, <2>2, <1>1, <1>3, <1>4 DEF WordsCounted, StoreType
  <1>25. ArenaPages' /\ ArenasPlaced' /\ OldEmpty'
    BY <1>4 DEF StoreInv, ArenaPages, ArenasPlaced, OldEmpty, arenas, old, nfreepages
  <1>26. PagesPlaced'
    <2>1. \A q \in Page : Fresh(q)' <=> Fresh(q)
      BY <1>4 DEF Fresh, arenas
    <2>2. \A q \in Page :
            /\ size'[q] = 0 <=> q[2] > totalpages'[q[1]] \/ Fresh(q)' \/ q[2] \in freepages'[q[1]]
            /\ ~(Fresh(q)' /\ q[2] \in freepages'[q[1]])
      BY <2>1, <1>1, <1>4, <1>8 DEF PagesPlaced, arenas
    <2>3. /\ old_page_for_size' = old_page_for_size
          /\ old_full_page_for_size' = old_full_page_for_size
          /\ \A d \in Classes \ {c} : /\ page_for_size'[d] = page_for_size[d]
                                      /\ full_page_for_size'[d] = full_page_for_size[d]
      BY <1>1, <1>4 DEF old, lists, StoreType
    <2>4. /\ page_for_size'[c] = IF IsFull(c, chain, fresh)
                                   THEN page_for_size[c] \ {p} ELSE page_for_size[c]
          /\ full_page_for_size'[c] = IF IsFull(c, chain, fresh)
                                        THEN full_page_for_size[c] \cup {p}
                                        ELSE full_page_for_size[c]
      BY <1>1, <1>4 DEF lists, StoreType
    <2>5. \A d \in Classes : d # c =>
            p \notin page_for_size[d] \cup old_page_for_size[d]
                       \cup full_page_for_size[d] \cup old_full_page_for_size[d]
      BY <1>1, <1>2 DEF PagesPlaced
    <2>6. p \notin old_page_for_size[c] \cup full_page_for_size[c] \cup old_full_page_for_size[c]
      BY <1>1, <1>2 DEF PagesPlaced
    <2>7. \A d \in Classes : page_for_size[d] \subseteq Page /\ full_page_for_size[d] \subseteq Page
            /\ old_page_for_size[d] \subseteq Page /\ old_full_page_for_size[d] \subseteq Page
      BY <1>1 DEF StoreType
    <2>8. ASSUME NEW d \in Classes
          PROVE  /\ \A q \in (page_for_size[d] \cup old_page_for_size[d]) \ {p} :
                      size'[q] = d /\ ~IsFull(d, freeblock'[q], uninitialized'[q])
                 /\ \A q \in full_page_for_size[d] \cup old_full_page_for_size[d] :
                      size'[q] = d /\ IsFull(d, freeblock'[q], uninitialized'[q])
                 /\ page_for_size[d] \cap old_page_for_size[d] = {}
                 /\ full_page_for_size[d] \cap old_full_page_for_size[d] = {}
      BY <2>5, <2>6, <2>7, <1>1, <1>8 DEF PagesPlaced
    <2>9. ASSUME NEW d \in Classes
          PROVE  /\ \A q \in page_for_size'[d] \cup old_page_for_size'[d] :
                      size'[q] = d /\ ~IsFull(d, freeblock'[q], uninitialized'[q])
                 /\ \A q \in full_page_for_size'[d] \cup old_full_page_for_size'[d] :
                      size'[q] = d /\ IsFull(d, freeblock'[q], uninitialized'[q])
                 /\ page_for_size'[d] \cap old_page_for_size'[d] = {}
                 /\ full_page_for_size'[d] \cap old_full_page_for_size'[d] = {}
      <3>1. CASE d # c
        BY <3>1, <2>3, <2>5, <2>8
      <3>2. CASE d = c
        BY <3>2, <2>3, <2>4, <2>6, <2>8, <1>2, <1>8
      <3> QED
        BY <3>1, <3>2
    <2>10. ASSUME NEW q \in Page, size'[q] # 0
           PROVE  q \in page_for_size'[size'[q]] \cup full_page_for_size'[size'[q]]
                     \cup old_page_for_size'[size'[q]] \cup old_full_page_for_size'[size'[q]]
      <3>1. size[q] \in Classes /\ size'[q] = size[q]
        BY <2>10, <1>1, <1>8 DEF StoreType, Classes
      <3>2. q \in page_for_size[size[q]] \cup full_page_for_size[size[q]]
                   \cup old_page_for_size[size[q]] \cup old_full_page_for_size[size[q]]
        BY <2>10, <3>1, <1>1 DEF PagesPlaced
      <3> QED
        BY <3>1, <3>2, <2>3, <2>4
    <2> QED
      BY <2>2, <2>9, <2>10 DEF PagesPlaced, IsFull, nblocks_for_size
  <1> QED
    BY <1>20, <1>21, <1>22, <1>23, <1>24, <1>25, <1>26 DEF StoreInv

(* What mass_free_in_pages does with a page after the walk.                *)
PageReturned(c, p, linkage, dead, surviving) ==
    /\ size_class_with_old_pages' = c
    /\ old_full_page_for_size' = [old_full_page_for_size EXCEPT ![c] = @ \ {p}]
    /\ old_page_for_size' = [old_page_for_size EXCEPT ![c] = @ \ {p}]
    /\ full_page_for_size' = [full_page_for_size EXCEPT ![c] =
         IF surviving = nblocks_for_size(c) THEN @ \cup {p} ELSE @]
    /\ page_for_size' = [page_for_size EXCEPT ![c] =
         IF surviving \in 1..nblocks_for_size(c) - 1 THEN @ \cup {p} ELSE @]
    /\ freepages' = [freepages EXCEPT ![p[1]] =
         IF surviving = 0 THEN @ \cup {p[2]} ELSE @]
    /\ size' = [size EXCEPT ![p] = IF surviving = 0 THEN 0 ELSE c]
    /\ freeblock' = [freeblock EXCEPT ![p] =
         IF surviving = 0 THEN << >> ELSE linkage]
    /\ uninitialized' = [uninitialized EXCEPT ![p] =
         IF surviving = 0 THEN 1 ELSE @]
    /\ total_memory_used' = total_memory_used - c * Cardinality(dead)
    /\ live' = live \ {<<p, (b - 1) * c, c>> : b \in dead}
    /\ UNCHANGED <<arenas, request, rehashed>>

(* The end of a walk: the page goes to the list for the blocks that        *)
(* survive in it, or is free.                                              *)
LEMMA MassFreeStoreInv ==
    ASSUME StoreInv, NEW c \in Classes, NEW p \in Page, NEW dead \in SUBSET (Nat \ {0}),
           NEW linkage \in Seq(Nat \ {0}), NEW surviving \in Nat, NEW last,
           WalkAt(c, p, uninitialized[p], linkage, last, dead, surviving),
           PageReturned(c, p, linkage, dead, surviving)
    PROVE  StoreInv'
  <1> USE ArenaAssumption
  <1> DEFINE kept == Used(p) \ dead
             chain == IF surviving = 0 THEN << >> ELSE linkage
             fresh == IF surviving = 0 THEN 1 ELSE uninitialized[p]
             n == nblocks_for_size(c)
  <1>1. StoreType /\ PageShape /\ PagesPlaced /\ ChainsSorted /\ LiveAreUsed /\ WordsCounted
        /\ ArenaPages /\ ArenasPlaced /\ OldEmpty
    BY DEF StoreInv
  <1>2. /\ p \in old_full_page_for_size[c] \cup old_page_for_size[c]
        /\ c \in Unwalked /\ \A d \in Unwalked : d <= c
        /\ dead \subseteq Used(p)
    BY DEF WalkAt
  <1>3. /\ size_class_with_old_pages' = c
        /\ old_full_page_for_size' = [old_full_page_for_size EXCEPT ![c] = @ \ {p}]
        /\ old_page_for_size' = [old_page_for_size EXCEPT ![c] = @ \ {p}]
        /\ full_page_for_size' = [full_page_for_size EXCEPT ![c] =
             IF surviving = n THEN @ \cup {p} ELSE @]
        /\ page_for_size' = [page_for_size EXCEPT ![c] =
             IF surviving \in 1..n - 1 THEN @ \cup {p} ELSE @]
        /\ freepages' = [freepages EXCEPT ![p[1]] =
             IF surviving = 0 THEN @ \cup {p[2]} ELSE @]
        /\ size' = [size EXCEPT ![p] = IF surviving = 0 THEN 0 ELSE c]
        /\ freeblock' = [freeblock EXCEPT ![p] = chain]
        /\ uninitialized' = [uninitialized EXCEPT ![p] =
             IF surviving = 0 THEN 1 ELSE @]
        /\ total_memory_used' = total_memory_used - c * Cardinality(dead)
        /\ live' = live \ {<<p, (b - 1) * c, c>> : b \in dead}
        /\ UNCHANGED <<arenas, request, rehashed>>
    BY DEF PageReturned
  <1>4. size[p] = c
    BY <1>1, <1>2 DEF PagesPlaced
  <1>5. c \in Nat /\ c > 0 /\ c <= MaxSize /\ n \in Nat /\ n >= 1
    BY BlocksFit DEF Classes
  <1>6. uninitialized[p] \in Nat \ {0} /\ uninitialized[p] <= n + 1
    BY <1>1, <1>4, <1>5 DEF StoreType, PageShape
  <1>7. /\ Initialized(p) = 1..uninitialized[p] - 1 /\ IsFiniteSet(Initialized(p))
        /\ Used(p) \subseteq Initialized(p) /\ IsFiniteSet(Used(p))
        /\ Used(p) \in SUBSET (Nat \ {0})
    BY <1>1, UsedFacts DEF Initialized
  <1>8. IsFiniteSet(dead) /\ dead \in SUBSET (Nat \ {0}) /\ dead \subseteq Used(p)
    BY <1>2, <1>7, FS_Subset
  <1>9. /\ kept \subseteq Initialized(p) /\ IsFiniteSet(kept) /\ surviving = Cardinality(kept)
        /\ surviving = 0 <=> kept = {}
    <2>1. IsFiniteSet(kept) /\ kept \subseteq Initialized(p)
      BY <1>7, FS_Subset
    <2>2. surviving = Cardinality(kept)
      <3>1. \A b \in Used(p) : b < uninitialized[p]
        BY <1>6, <1>7
      <3>2. {b \in Used(p) \ dead : b < uninitialized[p]} = kept
        BY <3>1
      <3> QED
        BY <3>2 DEF WalkAt
    <2> QED
      BY <2>1, <2>2, FS_CardinalityType, FS_EmptySet
  <1>10. /\ surviving <= n
         /\ surviving = n <=> Initialized(p) = kept /\ uninitialized[p] = n + 1
    <2>1. IsFiniteSet(1..n) /\ Cardinality(1..n) = n
      BY <1>5, FS_Interval
    <2>2. Initialized(p) \subseteq 1..n
      BY <1>5, <1>6, <1>7
    <2>3. kept \in SUBSET (1..n)
      BY <2>2, <1>9
    <2>4. surviving <= n /\ (surviving = n => kept = 1..n)
      <3>1. Cardinality(kept) <= Cardinality(1..n) /\ (Cardinality(kept) = Cardinality(1..n) => kept = 1..n)
        BY <2>1, <2>3, FS_Subset
      <3> QED
        BY <3>1, <2>1, <1>9
    <2>5. kept = 1..n => Initialized(p) = 1..n
      BY <2>2, <1>9
    <2>6. Initialized(p) = 1..n <=> uninitialized[p] = n + 1
      <3>1. Initialized(p) = 1..n => uninitialized[p] - 1 >= n
        <4>1. n \in 1..n
          BY <1>5
        <4> QED
          BY <4>1, <1>5, <1>6, <1>7
      <3> QED
        BY <3>1, <1>5, <1>6, <1>7
    <2> QED
      BY <2>1, <2>4, <2>5, <2>6, <1>9
  <1> DEFINE B == Initialized(p) \ kept
  <1>11. Blocks(linkage) = B
    <2>1. Blocks(linkage) = Blocks(freeblock[p]) \cup dead
      BY DEF WalkAt
    <2>2. /\ Used(p) = Initialized(p) \ Blocks(freeblock[p])
          /\ Blocks(freeblock[p]) \subseteq Initialized(p)
      <3>1. \A x \in Blocks(freeblock[p]) : x \in Nat \ {0} /\ x < uninitialized[p]
        BY <1>1 DEF ChainsSorted, StoreType, Blocks
      <3> QED
        BY <3>1, <1>1, <1>6, UsedFacts DEF Initialized
    <2> QED
      BY <2>1, <2>2, <1>2
  <1>12. /\ linkage = << >> <=> B = {}
         /\ \A i, j \in DOMAIN linkage : i < j => linkage[i] < linkage[j]
    <2>1. DOMAIN linkage = 1..Len(linkage)
      OBVIOUS
    <2>2. linkage = << >> <=> Blocks(linkage) = {}
      <3>1. linkage # << >> => linkage[1] \in Blocks(linkage)
        BY <2>1 DEF Blocks
      <3> QED
        BY <3>1 DEF Blocks
    <2> QED
      BY <2>1, <2>2, <1>11 DEF WalkAt
  <1>13. /\ chain \in Seq(Nat \ {0})
         /\ \A i, j \in DOMAIN chain : i < j => chain[i] < chain[j]
         /\ \A x \in Blocks(chain) : x < fresh
         /\ fresh \in Nat \ {0} /\ fresh <= n + 1
         /\ (1..fresh - 1) \ Blocks(chain) = kept
         /\ surviving = 0 => chain = << >> /\ fresh = 1
         /\ surviving # 0 => (IsFull(c, chain, fresh) <=> surviving = n)
    <2>1. CASE surviving = 0
      <3>1. chain = << >> /\ fresh = 1 /\ kept = {}
        BY <2>1, <1>9
      <3>2. Blocks(<< >>) = {} /\ DOMAIN << >> = {} /\ << >> \in Seq(Nat \ {0})
        BY DEF Blocks
      <3> HIDE DEF chain, fresh, kept
      <3> QED
        BY <3>1, <3>2, <2>1, <1>5
    <2>2. CASE surviving # 0
      <3>1. chain = linkage /\ fresh = uninitialized[p]
        BY <2>2
      <3>2. \A x \in B : x < uninitialized[p]
        BY <1>6, <1>7
      <3>3. Initialized(p) \ B = kept
        BY <1>9
      <3>4. B = {} <=> Initialized(p) = kept
        BY <1>9
      <3> HIDE DEF chain, fresh, kept, B, n
      <3>5. IsFull(c, chain, fresh) <=> surviving = n
        <4>1. IsFull(c, chain, fresh) <=> B = {} /\ uninitialized[p] > n
          BY <3>1, <1>12 DEF IsFull, n
        <4> QED
          BY <4>1, <3>4, <1>5, <1>6, <1>10
      <3> QED
        BY <3>1, <3>2, <3>3, <3>5, <2>2, <1>6, <1>7, <1>11, <1>12
    <2> QED
      BY <2>1, <2>2
  <1>14. fresh = IF surviving = 0 THEN 1 ELSE uninitialized[p]
    OBVIOUS
  <1> HIDE DEF chain, fresh, kept, B, n
  <1>15. /\ freeblock'[p] = chain /\ uninitialized'[p] = fresh
         /\ size'[p] = (IF surviving = 0 THEN 0 ELSE c)
         /\ \A q \in Page \ {p} : /\ freeblock'[q] = freeblock[q] /\ size'[q] = size[q]
                                  /\ uninitialized'[q] = uninitialized[q]
    BY <1>1, <1>3, <1>14 DEF StoreType
  <1>16. /\ Used(p)' = kept
         /\ \A q \in Page \ {p} : Used(q)' = Used(q)
    <2>1. Used(p)' = (1..fresh - 1) \ Blocks(chain)
      BY <1>15 DEF Used, Initialized, Blocks
    <2>2. \A q \in Page \ {p} : Used(q)' = Used(q)
      BY <1>15 DEF Used, Initialized
    <2> QED
      BY <2>1, <2>2, <1>13
  <1>17. p[1] \in Arenas /\ p[2] \in 1..max_pages_per_arena /\ p = <<p[1], p[2]>>
    BY DEF Page
  <1>18. /\ p \notin page_for_size[c] /\ p \notin full_page_for_size[c]
         /\ \A d \in Classes : d # c =>
              p \notin page_for_size[d] \cup old_page_for_size[d]
                         \cup full_page_for_size[d] \cup old_full_page_for_size[d]
         /\ ~(p[2] > totalpages[p[1]]) /\ ~Fresh(p) /\ p[2] \notin freepages[p[1]]
    <2>1. p \notin page_for_size[c] /\ p \notin full_page_for_size[c]
      BY <1>1, <1>2 DEF PagesPlaced
    <2>2. \A d \in Classes : d # c =>
              p \notin page_for_size[d] \cup old_page_for_size[d]
                         \cup full_page_for_size[d] \cup old_full_page_for_size[d]
      BY <1>1, <1>4 DEF PagesPlaced
    <2>3. ~(p[2] > totalpages[p[1]]) /\ ~Fresh(p) /\ p[2] \notin freepages[p[1]]
      BY <1>1, <1>4, <1>5 DEF PagesPlaced
    <2> QED
      BY <2>1, <2>2, <2>3
  <1>19. /\ \A a \in Arenas \ {p[1]} : freepages'[a] = freepages[a]
         /\ freepages'[p[1]] = IF surviving = 0 THEN freepages[p[1]] \cup {p[2]}
                                                ELSE freepages[p[1]]
    BY <1>1, <1>3, <1>17 DEF StoreType
  <1>20. LiveAreUsed'
    <2>1. live = UNION {{<<q, (d - 1) * size[q], size[q]>> : d \in Used(q)} : q \in Page}
      BY <1>1 DEF LiveAreUsed
    <2>2. kept = Used(p) \ dead
      BY DEF kept
    <2>3. kept # {} => size'[p] = c
      BY <1>9, <1>15
    <2>4. ASSUME NEW x \in live'
          PROVE  \E q \in Page : \E d \in Used(q)' : x = <<q, (d - 1) * size'[q], size'[q]>>
      <3>1. x \in live /\ x \notin {<<p, (b - 1) * c, c>> : b \in dead}
        BY <1>3
      <3>2. PICK q \in Page : \E d \in Used(q) : x = <<q, (d - 1) * size[q], size[q]>>
        BY <3>1, <2>1
      <3>3. PICK d \in Used(q) : x = <<q, (d - 1) * size[q], size[q]>>
        BY <3>2
      <3>4. CASE q = p
        <4>1. d \in kept
          BY <3>1, <3>3, <3>4, <2>2, <1>4
        <4> QED
          BY <4>1, <3>3, <3>4, <2>3, <1>4, <1>16
      <3>5. CASE q # p
        BY <3>3, <3>5, <1>15, <1>16
      <3> QED
        BY <3>4, <3>5
    <2>5. ASSUME NEW q \in Page, NEW d \in Used(q)'
          PROVE  <<q, (d - 1) * size'[q], size'[q]>> \in live'
      <3>1. CASE q = p
        <4>1. d \in Used(p) /\ d \notin dead /\ size'[p] = c
          BY <3>1, <2>2, <2>3, <1>16
        <4>2. <<p, (d - 1) * c, c>> \in live
          BY <4>1, <2>1, <1>4
        <4>3. ASSUME NEW b \in dead
              PROVE  (b - 1) * c # (d - 1) * c
          <5>1. b \in Nat \ {0} /\ d \in Nat \ {0} /\ b # d
            BY <4>1, <1>7, <1>8
          <5>2. b < d => (b - 1) * c + c <= (d - 1) * c
            BY <5>1, <1>5, BlocksApart
          <5>3. d < b => (d - 1) * c + c <= (b - 1) * c
            BY <5>1, <1>5, BlocksApart
          <5>4. (b - 1) * c \in Nat /\ (d - 1) * c \in Nat
            BY <5>1, <1>5, MultMonotone
          <5> QED
            BY <5>1, <5>2, <5>3, <5>4, <1>5
        <4>4. <<p, (d - 1) * c, c>> \notin {<<p, (b - 1) * c, c>> : b \in dead}
          BY <4>3
        <4> QED
          BY <4>1, <4>2, <4>4, <3>1, <1>3
      <3>2. CASE q # p
        <4>1. <<q, (d - 1) * size[q], size[q]>> \in live
          BY <3>2, <2>1, <1>16
        <4>2. <<q, (d - 1) * size[q], size[q]>> \notin {<<p, (b - 1) * c, c>> : b \in dead}
          BY <3>2
        <4> QED
          BY <4>1, <4>2, <3>2, <1>3, <1>15
      <3> QED
        BY <3>1, <3>2
    <2> QED
      BY <2>4, <2>5 DEF LiveAreUsed
  <1>21. WordsCounted' /\ total_memory_used' \in Nat
    <2>1. Used(p)' = Used(p) \ dead
      BY <1>16 DEF kept
    <2>2. size'[p] = c \/ Used(p)' = {}
      BY <1>9, <1>15, <1>16
    <2>3. /\ IsFiniteSet(WordsInUse')
          /\ Cardinality(WordsInUse') = Cardinality(WordsInUse) - c * Cardinality(dead)
      BY <2>1, <2>2, <1>1, <1>4, <1>5, <1>8, <1>15, <1>16, <1>20, WordsOfOnePage
    <2>4. total_memory_used' = Cardinality(WordsInUse')
      BY <2>3, <1>1, <1>3 DEF WordsCounted
    <2> QED
      BY <2>3, <2>4, FS_CardinalityType DEF WordsCounted
  <1>22. StoreType'
    <2>1. freeblock' \in [Page -> Seq(Nat \ {0})]
      BY <1>1, <1>3, <1>13 DEF StoreType
    <2>2. uninitialized' \in [Page -> Nat \ {0}]
      BY <1>1, <1>3 DEF StoreType
    <2>3. size' \in [Page -> 0..MaxSize]
      BY <1>1, <1>3, <1>5 DEF StoreType
    <2>4. freepages' \in [Arenas -> SUBSET (1..max_pages_per_arena)]
      BY <1>1, <1>3, <1>17 DEF StoreType
    <2>5. page_for_size' \in [Classes -> SUBSET Page]
      BY <1>1, <1>3 DEF StoreType
    <2>6. full_page_for_size' \in [Classes -> SUBSET Page]
      BY <1>1, <1>3 DEF StoreType
    <2>7. /\ old_page_for_size' \in [Classes -> SUBSET Page]
          /\ old_full_page_for_size' \in [Classes -> SUBSET Page]
      BY <1>1, <1>3 DEF StoreType
    <2>8. live' \in SUBSET (Page \X Nat \X Classes)
      BY <1>1, <1>3 DEF StoreType
    <2>9. size_class_with_old_pages' \in {-1} \cup Classes
      BY <1>3
    <2> QED
      BY <2>1, <2>2, <2>3, <2>4, <2>5, <2>6, <2>7, <2>8, <2>9, <1>1, <1>3, <1>21
        DEF StoreType, arenas
  <1>23. PageShape'
    <2> SUFFICES ASSUME NEW q \in Page
                 PROVE  /\ size'[q] = 0 => freeblock'[q] = << >> /\ uninitialized'[q] = 1
                        /\ size'[q] # 0 => uninitialized'[q] <= nblocks_for_size(size'[q]) + 1
      BY DEF PageShape, nblocks_for_size
    <2>1. CASE q = p
      BY <2>1, <1>5, <1>13, <1>15 DEF n
    <2>2. CASE q # p
      BY <2>2, <1>1, <1>15 DEF PageShape
    <2> QED
      BY <2>1, <2>2
  <1>24. ChainsSorted'
    <2>1. \A i \in DOMAIN chain : chain[i] < fresh
      BY <1>13 DEF Blocks
    <2> QED
      BY <2>1, <1>1, <1>13, <1>15 DEF ChainsSorted
  <1>25. ArenaPages'
    <2>1. totalpages[p[1]] \in Nat /\ p[2] \in 1..totalpages[p[1]]
      BY <1>1, <1>17, <1>18 DEF StoreType
    <2>2. \A a \in Arenas : freepages'[a] \subseteq 1..totalpages[a]
      BY <2>1, <1>1, <1>17, <1>19 DEF ArenaPages
    <2> QED
      BY <2>2, <1>1, <1>3 DEF ArenaPages, arenas
  <1>26. OldEmpty'
    <2> SUFFICES ASSUME NEW d \in Classes, d > c
                 PROVE  old_page_for_size'[d] = {} /\ old_full_page_for_size'[d] = {}
      BY <1>3 DEF OldEmpty
    <2>1. d # c /\ d \notin Unwalked
      BY <1>2, <1>5 DEF Classes
    <2>2. old_page_for_size[d] = {} /\ old_full_page_for_size[d] = {}
      <3>1. CASE d > size_class_with_old_pages
        BY <3>1, <1>1 DEF OldEmpty
      <3>2. CASE ~(d > size_class_with_old_pages)
        <4>1. d \in 1..size_class_with_old_pages
          BY <3>2, <1>1 DEF StoreType, Classes
        <4> QED
          BY <4>1, <2>1 DEF Unwalked
      <3> QED
        BY <3>1, <3>2
    <2> QED
      BY <2>1, <2>2, <1>1, <1>3 DEF StoreType
  <1>27. PagesPlaced'
    <2>1. \A q \in Page : Fresh(q)' <=> Fresh(q)
      BY <1>3 DEF Fresh, arenas
    <2>2. ASSUME NEW q \in Page
          PROVE  /\ size'[q] = 0 <=> q[2] > totalpages'[q[1]] \/ Fresh(q)' \/ q[2] \in freepages'[q[1]]
                 /\ ~(Fresh(q)' /\ q[2] \in freepages'[q[1]])
      <3>1. CASE q = p
        BY <3>1, <2>1, <1>3, <1>5, <1>15, <1>18, <1>19 DEF arenas
      <3>2. CASE q # p
        <4>1. q[1] \in Arenas /\ q = <<q[1], q[2]>>
          BY DEF Page
        <4>2. q[1] # p[1] \/ q[2] # p[2]
          BY <4>1, <3>2, <1>17
        <4>3. q[2] \in freepages'[q[1]] <=> q[2] \in freepages[q[1]]
          BY <4>1, <4>2, <1>19
        <4> QED
          BY <4>3, <3>2, <2>1, <1>1, <1>3, <1>15 DEF PagesPlaced, arenas
      <3> QED
        BY <3>1, <3>2
    <2>3. \A d \in Classes \ {c} :
             /\ page_for_size'[d] = page_for_size[d]
             /\ full_page_for_size'[d] = full_page_for_size[d]
             /\ old_page_for_size'[d] = old_page_for_size[d]
             /\ old_full_page_for_size'[d] = old_full_page_for_size[d]
      BY <1>1, <1>3 DEF StoreType
    <2>4. /\ page_for_size'[c] = (IF surviving \in 1..n - 1
                                    THEN page_for_size[c] \cup {p} ELSE page_for_size[c])
          /\ full_page_for_size'[c] = (IF surviving = n
                                    THEN full_page_for_size[c] \cup {p} ELSE full_page_for_size[c])
          /\ old_page_for_size'[c] = old_page_for_size[c] \ {p}
          /\ old_full_page_for_size'[c] = old_full_page_for_size[c] \ {p}
      BY <1>1, <1>3 DEF StoreType
    <2>5. \A d \in Classes : page_for_size[d] \subseteq Page /\ full_page_for_size[d] \subseteq Page
            /\ old_page_for_size[d] \subseteq Page /\ old_full_page_for_size[d] \subseteq Page
      BY <1>1 DEF StoreType
    <2>6. ASSUME NEW d \in Classes
          PROVE  /\ \A q \in (page_for_size[d] \cup old_page_for_size[d]) \ {p} :
                      size'[q] = d /\ ~IsFull(d, freeblock'[q], uninitialized'[q])
                 /\ \A q \in (full_page_for_size[d] \cup old_full_page_for_size[d]) \ {p} :
                      size'[q] = d /\ IsFull(d, freeblock'[q], uninitialized'[q])
                 /\ page_for_size[d] \cap old_page_for_size[d] = {}
                 /\ full_page_for_size[d] \cap old_full_page_for_size[d] = {}
      BY <2>5, <1>1, <1>15 DEF PagesPlaced
    <2>7. surviving # 0 /\ surviving \notin 1..n - 1 => surviving = n
      BY <1>5, <1>9, <1>10
    <2>8. surviving = n => surviving # 0 /\ surviving \notin 1..n - 1
      BY <1>5, <1>9
    <2>9. ASSUME NEW d \in Classes
          PROVE  /\ \A q \in page_for_size'[d] \cup old_page_for_size'[d] :
                      size'[q] = d /\ ~IsFull(d, freeblock'[q], uninitialized'[q])
                 /\ \A q \in full_page_for_size'[d] \cup old_full_page_for_size'[d] :
                      size'[q] = d /\ IsFull(d, freeblock'[q], uninitialized'[q])
                 /\ page_for_size'[d] \cap old_page_for_size'[d] = {}
                 /\ full_page_for_size'[d] \cap old_full_page_for_size'[d] = {}
      <3>1. CASE d # c
        BY <3>1, <2>3, <2>6, <1>18
      <3>2. CASE d = c
        <4>1. surviving \in 1..n - 1
                => size'[p] = c /\ ~IsFull(c, freeblock'[p], uninitialized'[p])
          BY <2>8, <1>5, <1>13, <1>15
        <4>2. surviving = n => size'[p] = c /\ IsFull(c, freeblock'[p], uninitialized'[p])
          BY <2>8, <1>13, <1>15
        <4>3. \A q \in page_for_size'[c] \cup old_page_for_size'[c] :
                size'[q] = c /\ ~IsFull(c, freeblock'[q], uninitialized'[q])
          BY <4>1, <2>4, <2>6, <1>18
        <4>4. \A q \in full_page_for_size'[c] \cup old_full_page_for_size'[c] :
                size'[q] = c /\ IsFull(c, freeblock'[q], uninitialized'[q])
          BY <4>2, <2>4, <2>6, <1>18
        <4>5. /\ page_for_size'[c] \cap old_page_for_size'[c] = {}
              /\ full_page_for_size'[c] \cap old_full_page_for_size'[c] = {}
          <5>1. /\ page_for_size[c] \cap old_page_for_size[c] = {}
                /\ full_page_for_size[c] \cap old_full_page_for_size[c] = {}
            BY <2>6
          <5>2. /\ page_for_size'[c] \subseteq page_for_size[c] \cup {p}
                /\ full_page_for_size'[c] \subseteq full_page_for_size[c] \cup {p}
            BY <2>4
          <5> QED
            BY <5>1, <5>2, <2>4
        <4> QED
          BY <4>3, <4>4, <4>5, <3>2
      <3> QED
        BY <3>1, <3>2
    <2>10. ASSUME NEW q \in Page, size'[q] # 0
           PROVE  q \in page_for_size'[size'[q]] \cup full_page_for_size'[size'[q]]
                     \cup old_page_for_size'[size'[q]] \cup old_full_page_for_size'[size'[q]]
      <3>1. CASE q = p
        BY <3>1, <2>4, <2>7, <2>10, <1>15
      <3>2. CASE q # p
        <4>1. size[q] \in Classes /\ size'[q] = size[q]
          BY <3>2, <2>10, <1>1, <1>15 DEF StoreType, Classes
        <4>2. q \in page_for_size[size[q]] \cup full_page_for_size[size[q]]
                     \cup old_page_for_size[size[q]] \cup old_full_page_for_size[size[q]]
          BY <2>10, <4>1, <1>1 DEF PagesPlaced
        <4> QED
          BY <4>1, <4>2, <3>2, <2>3, <2>4
      <3> QED
        BY <3>1, <3>2
    <2> QED
      BY <2>2, <2>9, <2>10 DEF PagesPlaced, IsFull, nblocks_for_size
  <1>28. ArenasPlaced'
    <2>1. ASSUME NEW a \in Arenas
          PROVE  nfreepages(a)' \in Nat /\ nfreepages(a) <= nfreepages(a)' /\ nfreepages(a) \in Nat
      <3>1. nfreepages(a) \in Nat /\ IsFiniteSet(freepages[a])
        BY <1>1, FreePagesFinite
      <3>2. IsFiniteSet(freepages[a] \cup {p[2]})
            /\ Cardinality(freepages[a] \cup {p[2]}) >= Cardinality(freepages[a])
        <4>1. /\ IsFiniteSet(freepages[a] \cup {p[2]})
              /\ Cardinality(freepages[a] \cup {p[2]})
                   = IF p[2] \in freepages[a] THEN Cardinality(freepages[a])
                                              ELSE Cardinality(freepages[a]) + 1
          BY <3>1, FS_AddElement
        <4>2. Cardinality(freepages[a]) \in Nat
          BY <3>1 DEF nfreepages
        <4> QED
          BY <4>1, <4>2
      <3>3. freepages'[a] = freepages[a] \/ freepages'[a] = freepages[a] \cup {p[2]}
        BY <1>19
      <3>4. Cardinality(freepages'[a]) \in Nat
        BY <3>1, <3>2, <3>3, FS_CardinalityType
      <3>5. Cardinality(freepages'[a]) >= Cardinality(freepages[a])
        <4>1. Cardinality(freepages[a]) \in Nat
          BY <3>1 DEF nfreepages
        <4>2. CASE freepages'[a] = freepages[a]
          BY <4>1, <4>2
        <4>3. CASE freepages'[a] = freepages[a] \cup {p[2]}
          BY <4>3, <3>2
        <4> QED
          BY <4>2, <4>3, <3>3
      <3> QED
        BY <3>1, <3>4, <3>5 DEF nfreepages
    <2>2. UNCHANGED <<arenas_lists, current_arena, num_uninitialized_pages,
                      min_empty_nfreepages, totalpages>>
      BY <1>3 DEF arenas
    <2>3. size_class_with_old_pages' # -1
      BY <1>3, <1>5
    <2>4. \A i \in 0..max_pages_per_arena - 1 : arenas_lists[i] \subseteq Arenas
      BY <1>1 DEF StoreType
    <2>5. current_arena' # NULL
            => nfreepages(current_arena)' + num_uninitialized_pages' > 0
      <3>1. ASSUME current_arena # NULL
            PROVE  nfreepages(current_arena)' >= nfreepages(current_arena)
        <4>1. PICK a \in Arenas : a = current_arena
          BY <3>1, <1>1 DEF StoreType
        <4>2. nfreepages(current_arena)' = nfreepages(a)'
          BY <4>1, <2>2 DEF nfreepages
        <4> QED
          BY <4>1, <4>2, <2>1
      <3>2. ASSUME current_arena # NULL
            PROVE  /\ nfreepages(current_arena) \in Nat /\ nfreepages(current_arena)' \in Nat
                   /\ num_uninitialized_pages \in Nat
        <4>1. PICK a \in Arenas : a = current_arena
          BY <3>2, <1>1 DEF StoreType
        <4>2. nfreepages(current_arena)' = nfreepages(a)'
          BY <4>1, <2>2 DEF nfreepages
        <4> QED
          BY <4>1, <4>2, <2>1, <1>1 DEF StoreType
      <3> QED
        BY <3>1, <3>2, <2>2, <1>1 DEF ArenasPlaced
    <2>6. ASSUME NEW i \in 0..max_pages_per_arena - 1, NEW b \in arenas_lists'[i]
          PROVE  /\ totalpages'[b] # 0 /\ b # current_arena'
                 /\ i <= nfreepages(b)'
                 /\ \A j \in 0..max_pages_per_arena - 1 : b \in arenas_lists'[j] => i = j
      <3>1. b \in arenas_lists[i] /\ b \in Arenas
        BY <2>2, <2>4
      <3>2. i <= nfreepages(b)
        BY <3>1, <1>1 DEF ArenasPlaced
      <3>3. i <= nfreepages(b)'
        BY <3>1, <3>2, <2>1
      <3> QED
        BY <3>1, <3>3, <2>2, <1>1 DEF ArenasPlaced
    <2>7. \A i \in 1..min_empty_nfreepages' - 1 : arenas_lists'[i] = {}
      BY <2>2, <1>1 DEF ArenasPlaced
    <2>8. \A a \in Arenas : totalpages'[a] = 0 \/ a = current_arena'
                         \/ \E i \in 0..max_pages_per_arena - 1 : a \in arenas_lists'[i]
      BY <2>2, <1>1 DEF ArenasPlaced
    <2> QED
      BY <2>3, <2>5, <2>6, <2>7, <2>8 DEF ArenasPlaced, nfreepages
  <1> QED
    BY <1>20, <1>21, <1>22, <1>23, <1>24, <1>25, <1>26, <1>27, <1>28 DEF StoreInv

----------------------------------------------------------------------------
(* The walk over a page.                                                   *)

(* A walk begins with nothing linked and nothing freed.                    *)
LEMMA WalkStarts ==
    ASSUME StoreInv, NEW c \in Classes, NEW p \in Page, StartWalk(c, p)
    PROVE  WalkAt(c, p, 1, freeblock[p], 0, {}, 0)
  <1>1. StoreType /\ ChainsSorted
    BY DEF StoreInv
  <1>2. /\ freeblock[p] \in Seq(Nat \ {0}) /\ uninitialized[p] \in Nat \ {0}
        /\ DOMAIN freeblock[p] = 1..Len(freeblock[p]) /\ Len(freeblock[p]) \in Nat
    BY <1>1 DEF StoreType
  <1>3. \A i \in 1..Len(freeblock[p]) : freeblock[p][i] \in Nat /\ freeblock[p][i] >= 1
    BY <1>2
  <1>4. {b \in Used(p) \ {} : b < 1} = {}
    BY <1>1, UsedFacts
  <1>5. Cardinality({b \in Used(p) \ {} : b < 1}) = 0
    BY <1>4, FS_EmptySet
  <1>6. /\ c \in Unwalked /\ \A d \in Unwalked : d <= c
        /\ p \in old_full_page_for_size[c] \cup old_page_for_size[c]
    BY DEF StartWalk
  <1>7. \A i, j \in 1..Len(freeblock[p]) : i < j => freeblock[p][i] < freeblock[p][j]
    BY <1>1, <1>2 DEF ChainsSorted
  <1>8. \A i \in 1..Len(freeblock[p]) :
          freeblock[p][i] < uninitialized[p] /\ (i <= 0 <=> freeblock[p][i] < 1)
    BY <1>1, <1>2, <1>3 DEF ChainsSorted
  <1>9. 0 <= Len(freeblock[p]) /\ 1 <= uninitialized[p]
    BY <1>2
  <1>10. Blocks(freeblock[p]) = Blocks(freeblock[p]) \cup {} /\ {} \subseteq Used(p)
    OBVIOUS
  <1>11. 0 = Cardinality({b \in Used(p) \ {} : b < 1})
    BY <1>5
  <1> QED
    BY <1>6, <1>7, <1>8, <1>9, <1>10, <1>11, Zenon DEF WalkAt

(* The walk comes to a free block.                                         *)
LEMMA WalkSkips ==
    ASSUME StoreInv, NEW c \in Classes, NEW p \in Page, NEW obj \in Nat \ {0},
           NEW chain \in Seq(Nat \ {0}), NEW linked \in Nat,
           NEW freed \in SUBSET (Nat \ {0}), NEW surviving \in Nat,
           WalkAt(c, p, obj, chain, linked, freed, surviving),
           linked < Len(chain), obj = chain[linked + 1]
    PROVE  WalkAt(c, p, obj + 1, chain, linked + 1, freed, surviving)
  <1>1. Len(chain) \in Nat /\ linked + 1 \in 1..Len(chain)
    OBVIOUS
  <1>2. uninitialized[p] \in Nat /\ obj < uninitialized[p]
    BY <1>1 DEF WalkAt, StoreInv, StoreType
  <1>3. \A i \in 1..Len(chain) : chain[i] \in Nat
    OBVIOUS
  <1>4. ASSUME NEW i \in 1..Len(chain)
        PROVE  i <= linked + 1 <=> chain[i] < obj + 1
    <2>1. i <= linked <=> chain[i] < obj
      BY DEF WalkAt
    <2>2. i > linked + 1 => chain[i] > chain[linked + 1]
      BY <1>1, <1>3 DEF WalkAt
    <2>3. CASE i = linked + 1
      BY <2>3, <1>3
    <2>4. CASE i # linked + 1
      BY <2>1, <2>2, <2>4, <1>3
    <2> QED
      BY <2>3, <2>4
  <1>5. obj \notin Used(p) \ freed
    <2>1. obj \in Blocks(freeblock[p]) \cup freed
      BY <1>1 DEF WalkAt, Blocks
    <2> QED
      BY <2>1, UsedFacts DEF StoreInv
  <1>6. {b \in Used(p) \ freed : b < obj + 1} = {b \in Used(p) \ freed : b < obj}
    <2>1. \A b \in Used(p) \ freed : b \in Nat /\ b # obj
      BY <1>5, UsedFacts DEF StoreInv
    <2> QED
      BY <2>1
  <1>7. /\ c \in Unwalked /\ \A d \in Unwalked : d <= c
        /\ p \in old_full_page_for_size[c] \cup old_page_for_size[c]
        /\ \A i, j \in 1..Len(chain) : i < j => chain[i] < chain[j]
        /\ \A i \in 1..Len(chain) : chain[i] < uninitialized[p]
        /\ Blocks(chain) = Blocks(freeblock[p]) \cup freed
        /\ freed \subseteq Used(p)
        /\ surviving = Cardinality({b \in Used(p) \ freed : b < obj + 1})
    BY <1>6 DEF WalkAt
  <1>8. linked + 1 <= Len(chain) /\ obj + 1 <= uninitialized[p]
    BY <1>1, <1>2
  <1> QED
    BY <1>4, <1>7, <1>8 DEF WalkAt

(* A block that is not the next free one holds an object that the walk has *)
(* not met.                                                                *)
LEMMA WalkMeetsObject ==
    ASSUME StoreInv, NEW c \in Classes, NEW p \in Page, NEW obj \in Nat \ {0},
           NEW chain \in Seq(Nat \ {0}), NEW linked \in Nat,
           NEW freed \in SUBSET (Nat \ {0}), NEW surviving \in Nat,
           WalkAt(c, p, obj, chain, linked, freed, surviving),
           obj # IF linked < Len(chain) THEN chain[linked + 1] ELSE uninitialized[p]
    PROVE  /\ uninitialized[p] \in Nat /\ obj < uninitialized[p]
           /\ obj \in Used(p) \ freed
           /\ \A i \in 1..Len(chain) : i > linked => chain[i] > obj
  <1>1. uninitialized[p] \in Nat /\ Len(chain) \in Nat /\ \A i \in 1..Len(chain) : chain[i] \in Nat
    BY DEF StoreInv, StoreType
  <1>4. /\ obj < uninitialized[p]
        /\ \A i \in 1..Len(chain) : i > linked => chain[i] > obj
    <2>1. CASE linked < Len(chain)
      <3>1. linked + 1 \in 1..Len(chain) /\ ~(linked + 1 <= linked)
        BY <1>1, <2>1
      <3>2. chain[linked + 1] > obj
        BY <3>1, <2>1, <1>1 DEF WalkAt
      <3>3. chain[linked + 1] < uninitialized[p]
        BY <3>1 DEF WalkAt
      <3>4. ASSUME NEW i \in 1..Len(chain), i > linked
            PROVE  chain[i] >= chain[linked + 1]
        <4>1. i # linked + 1 => chain[linked + 1] < chain[i]
          BY <3>1, <3>4, <1>1 DEF WalkAt
        <4> QED
          BY <4>1, <3>1, <1>1
      <3> QED
        BY <3>1, <3>2, <3>3, <3>4, <1>1
    <2>2. CASE ~(linked < Len(chain))
      BY <2>2, <1>1 DEF WalkAt
    <2> QED
      BY <2>1, <2>2
  <1>5. obj \notin Blocks(chain)
    <2>1. \A i \in 1..Len(chain) : chain[i] # obj
      BY <1>1, <1>4 DEF WalkAt
    <2> QED
      BY <2>1 DEF Blocks
  <1>6. obj \in Initialized(p)
    BY <1>1, <1>4 DEF Initialized
  <1> QED
    BY <1>1, <1>4, <1>5, <1>6, UsedFacts DEF StoreInv, WalkAt

(* The object survives.                                                    *)
LEMMA WalkKeeps ==
    ASSUME StoreInv, NEW c \in Classes, NEW p \in Page, NEW obj \in Nat \ {0},
           NEW chain \in Seq(Nat \ {0}), NEW linked \in Nat,
           NEW freed \in SUBSET (Nat \ {0}), NEW surviving \in Nat,
           WalkAt(c, p, obj, chain, linked, freed, surviving),
           obj # IF linked < Len(chain) THEN chain[linked + 1] ELSE uninitialized[p]
    PROVE  WalkAt(c, p, obj + 1, chain, linked, freed, surviving + 1)
  <1> DEFINE S(k) == {b \in Used(p) \ freed : b < k}
  <1>1. /\ uninitialized[p] \in Nat /\ obj < uninitialized[p] /\ obj \in Used(p) \ freed
        /\ \A i \in 1..Len(chain) : i > linked => chain[i] > obj
    BY WalkMeetsObject
  <1>2. /\ Len(chain) \in Nat /\ \A i \in 1..Len(chain) : chain[i] \in Nat
        /\ \A i \in 1..Len(chain) : i <= linked <=> chain[i] < obj
    BY DEF WalkAt
  <1>3. \A i \in 1..Len(chain) : i <= linked <=> chain[i] < obj + 1
    BY <1>1, <1>2
  <1>4. IsFiniteSet(Used(p)) /\ Used(p) \in SUBSET (Nat \ {0})
    BY UsedFacts DEF StoreInv
  <1>5. S(obj + 1) = S(obj) \cup {obj} /\ obj \notin S(obj)
    <2>1. \A b \in Used(p) : b < obj + 1 <=> b < obj \/ b = obj
      BY <1>4
    <2>2. \A b : b \in S(obj + 1) <=> b \in S(obj) \/ b = obj
      BY <2>1, <1>1
    <2>3. obj \notin S(obj)
      OBVIOUS
    <2> HIDE DEF S
    <2> QED
      BY <2>2, <2>3
  <1>6. IsFiniteSet(S(obj))
    BY <1>4, FS_Subset
  <1>7. Cardinality(S(obj + 1)) = Cardinality(S(obj)) + 1
    BY <1>5, <1>6, FS_AddElement
  <1>8. surviving = Cardinality(S(obj))
    BY DEF WalkAt
  <1> QED
    BY <1>1, <1>3, <1>7, <1>8 DEF WalkAt

(* The object dies: its block is linked where it belongs.                  *)
LEMMA WalkFrees ==
    ASSUME StoreInv, NEW c \in Classes, NEW p \in Page, NEW obj \in Nat \ {0},
           NEW chain \in Seq(Nat \ {0}), NEW linked \in Nat,
           NEW freed \in SUBSET (Nat \ {0}), NEW surviving \in Nat,
           WalkAt(c, p, obj, chain, linked, freed, surviving),
           obj # IF linked < Len(chain) THEN chain[linked + 1] ELSE uninitialized[p]
    PROVE  /\ Link(chain, linked, obj) \in Seq(Nat \ {0})
           /\ WalkAt(c, p, obj + 1, Link(chain, linked, obj), linked + 1,
                     freed \cup {obj}, surviving)
  <1> DEFINE new == Link(chain, linked, obj)
  <1>1. /\ uninitialized[p] \in Nat /\ obj < uninitialized[p] /\ obj \in Used(p) \ freed
        /\ \A i \in 1..Len(chain) : i > linked => chain[i] > obj
    BY WalkMeetsObject
  <1>2. /\ Len(chain) \in Nat /\ linked <= Len(chain)
        /\ \A i \in 1..Len(chain) : chain[i] \in Nat \ {0} /\ chain[i] < uninitialized[p]
        /\ \A i \in 1..Len(chain) : i <= linked <=> chain[i] < obj
        /\ \A i, j \in 1..Len(chain) : i < j => chain[i] < chain[j]
    BY DEF WalkAt
  <1>3. /\ \A j \in 1..Len(chain) + 1 : new[j] = IF j <= linked THEN chain[j]
                                                 ELSE IF j = linked + 1 THEN obj ELSE chain[j - 1]
        /\ DOMAIN new = 1..Len(chain) + 1
    BY DEF Link
  <1>4. \A j \in 1..Len(chain) + 1 : /\ j <= linked => j \in 1..Len(chain)
                                     /\ j > linked + 1 => j - 1 \in 1..Len(chain) /\ j - 1 > linked
    BY <1>2
  <1>5. \A j \in 1..Len(chain) + 1 : new[j] \in Nat \ {0} /\ new[j] < uninitialized[p]
    <2> HIDE DEF new
    <2> SUFFICES ASSUME NEW j \in 1..Len(chain) + 1
                 PROVE  new[j] \in Nat \ {0} /\ new[j] < uninitialized[p]
      OBVIOUS
    <2>1. CASE j <= linked
      BY <2>1, <1>2, <1>3, <1>4
    <2>2. CASE j = linked + 1
      BY <2>2, <1>1, <1>3
    <2>3. CASE j > linked + 1
      <3>1. new[j] = chain[j - 1] /\ j - 1 \in 1..Len(chain)
        BY <2>3, <1>3, <1>4
      <3> QED
        BY <3>1, <1>2
    <2> QED
      BY <2>1, <2>2, <2>3
  <1>6. new \in Seq(Nat \ {0}) /\ Len(new) = Len(chain) + 1
    <2>1. new \in [1..Len(chain) + 1 -> Nat \ {0}]
      BY <1>3, <1>5 DEF Link
    <2> QED
      BY <2>1, <1>2, <1>3
  <1> HIDE DEF new
  <1>7. \A j \in 1..Len(chain) + 1 : j <= linked + 1 <=> new[j] < obj + 1
    <2> SUFFICES ASSUME NEW j \in 1..Len(chain) + 1
                 PROVE  j <= linked + 1 <=> new[j] < obj + 1
      OBVIOUS
    <2>1. CASE j <= linked
      BY <2>1, <1>2, <1>3, <1>4, SMTT(20)
    <2>2. CASE j = linked + 1
      BY <2>2, <1>3, SMTT(20)
    <2>3. CASE j > linked + 1
      <3>1. new[j] = chain[j - 1] /\ j - 1 \in 1..Len(chain) /\ j - 1 > linked
        BY <2>3, <1>3, <1>4
      <3>2. chain[j - 1] > obj /\ chain[j - 1] \in Nat
        BY <3>1, <1>1, <1>2
      <3> QED
        BY <3>1, <3>2, <2>3
    <2> QED
      BY <2>1, <2>2, <2>3
  <1>8. ASSUME NEW i \in 1..Len(chain) + 1, NEW j \in 1..Len(chain) + 1, i < j
        PROVE  new[i] < new[j]
    <2>1. CASE j <= linked
      <3>1. /\ i \in 1..Len(chain) /\ j \in 1..Len(chain)
            /\ new[i] = chain[i] /\ new[j] = chain[j]
        BY <2>1, <1>3, <1>4, <1>8
      <3> QED
        BY <3>1, <1>2, <1>8
    <2>2. CASE j = linked + 1
      <3>1. i <= linked /\ i \in 1..Len(chain) /\ new[i] = chain[i] /\ new[j] = obj
        BY <2>2, <1>3, <1>4, <1>8
      <3> QED
        BY <3>1, <1>2
    <2>3. CASE j > linked + 1
      <3>1. new[j] = chain[j - 1] /\ j - 1 \in 1..Len(chain) /\ chain[j - 1] > obj
        BY <2>3, <1>1, <1>3, <1>4
      <3>2. CASE i <= linked
        <4>1. new[i] = chain[i] /\ i \in 1..Len(chain) /\ i < j - 1
          BY <3>2, <2>3, <1>3, <1>4
        <4> QED
          BY <4>1, <3>1, <1>2
      <3>3. CASE i = linked + 1
        BY <3>3, <3>1, <1>3, SMTT(20)
      <3>4. CASE i > linked + 1
        <4>1. new[i] = chain[i - 1] /\ i - 1 \in 1..Len(chain) /\ i - 1 < j - 1
          BY <3>4, <1>3, <1>4, <1>8
        <4> QED
          BY <4>1, <3>1, <1>2
      <3> QED
        BY <3>2, <3>3, <3>4
    <2> QED
      BY <2>1, <2>2, <2>3, <1>2
  <1>9. Blocks(new) = Blocks(chain) \cup {obj}
    <2>1. \A j \in 1..Len(chain) + 1 : new[j] \in Blocks(chain) \cup {obj}
      <3> SUFFICES ASSUME NEW j \in 1..Len(chain) + 1, new[j] # obj
                   PROVE  \E i \in 1..Len(chain) : new[j] = chain[i]
        BY DEF Blocks
      <3>1. CASE j <= linked
        BY <3>1, <1>3, <1>4
      <3>2. CASE j > linked + 1
        BY <3>2, <1>3, <1>4
      <3> QED
        BY <3>1, <3>2, <1>2, <1>3
    <2>2. new[linked + 1] = obj /\ linked + 1 \in 1..Len(chain) + 1
      BY <1>2, <1>3
    <2>3. ASSUME NEW i \in 1..Len(chain)
          PROVE  \E j \in 1..Len(chain) + 1 : new[j] = chain[i]
      <3>1. CASE i <= linked
        <4>1. i \in 1..Len(chain) + 1 /\ new[i] = chain[i]
          BY <3>1, <1>2, <1>3
        <4> QED
          BY <4>1
      <3>2. CASE i > linked
        <4>1. i + 1 \in 1..Len(chain) + 1 /\ new[i + 1] = chain[i]
          <5>1. i + 1 \in 1..Len(chain) + 1 /\ ~(i + 1 <= linked) /\ i + 1 # linked + 1
                /\ (i + 1) - 1 = i
            BY <3>2, <1>2
          <5> QED
            BY <5>1, <1>3
        <4> QED
          BY <4>1
      <3> QED
        BY <3>1, <3>2, <1>2
    <2>4. DOMAIN chain = 1..Len(chain) /\ DOMAIN new = 1..Len(chain) + 1
      BY <1>3
    <2> QED
      BY <2>1, <2>2, <2>3, <2>4, ZenonT(30) DEF Blocks
  <1>10. {b \in Used(p) \ (freed \cup {obj}) : b < obj + 1} = {b \in Used(p) \ freed : b < obj}
    <2>1. \A b \in Used(p) : b \in Nat
      BY UsedFacts DEF StoreInv
    <2>2. \A b \in Used(p) : b # obj => (b < obj + 1 <=> b < obj)
      BY <2>1
    <2> QED
      BY <2>1, <2>2
  <1>11. /\ c \in Unwalked /\ \A d \in Unwalked : d <= c
         /\ p \in old_full_page_for_size[c] \cup old_page_for_size[c]
         /\ Blocks(new) = Blocks(freeblock[p]) \cup (freed \cup {obj})
         /\ freed \cup {obj} \subseteq Used(p)
         /\ surviving = Cardinality({b \in Used(p) \ (freed \cup {obj}) : b < obj + 1})
    BY <1>1, <1>9, <1>10 DEF WalkAt
  <1>12. linked + 1 <= Len(new) /\ obj + 1 <= uninitialized[p]
    BY <1>1, <1>2, <1>6
  <1>13. WalkAt(c, p, obj + 1, new, linked + 1, freed \cup {obj}, surviving)
    BY <1>5, <1>6, <1>7, <1>8, <1>11, <1>12 DEF WalkAt
  <1> QED
    BY <1>6, <1>13 DEF new

(* The steps of a walk change nothing else.                                *)
LEMMA NothingElse ==
    ASSUME IInv, UNCHANGED <<lists, old, arenas, freepages, pages, client, request, rehashed>>
    PROVE  /\ StoreInv'
           /\ \A c, p, obj, chain, linked, freed, surviving :
                WalkAt(c, p, obj, chain, linked, freed, surviving)
                  => WalkAt(c, p, obj, chain, linked, freed, surviving)'
  <1>1. PageShape' /\ LiveAreUsed' /\ WordsCounted' /\ ChainsSorted'
    BY PagesUnchanged DEF IInv
  <1>2. StoreType'
    BY DEF IInv, StoreInv, StoreType, lists, old, arenas, pages, client
  <1>3. ArenaPages' /\ OldEmpty' /\ ArenasPlaced'
    BY DEF IInv, StoreInv, ArenaPages, OldEmpty, ArenasPlaced, arenas, old, nfreepages
  <1>4. PagesPlaced'
    BY DEF IInv, StoreInv, PagesPlaced, Fresh, lists, old, arenas, pages, IsFull, nblocks_for_size
  <1>5. UNCHANGED <<freeblock, uninitialized, old_page_for_size, old_full_page_for_size,
                    size_class_with_old_pages>>
    BY DEF pages, old
  <1>6. \A c, p, obj, chain, linked, freed, surviving :
          WalkAt(c, p, obj, chain, linked, freed, surviving)
            => WalkAt(c, p, obj, chain, linked, freed, surviving)'
    BY <1>5 DEF WalkAt, Unwalked, Used, Initialized
  <1> QED
    BY <1>1, <1>2, <1>3, <1>4, <1>6 DEF StoreInv

(* IInv is inductive.                                                      *)
LEMMA NextIInv ==
    ASSUME IInv, [Next]_vars
    PROVE  IInv'
  <1>1. StoreInv /\ WalkOK
    BY DEF IInv
  <1>2. CASE UNCHANGED vars
    <2>1. UNCHANGED <<lists, old, arenas, freepages, pages, client, request, rehashed>> /\ walk' = walk
      BY <1>2 DEF vars
    <2> QED
      BY <2>1, <1>1, NothingElse DEF IInv, WalkOK
  <1>3. CASE OutsideWalk
    <2>1. WalkOK'
      BY <1>3 DEF OutsideWalk, WalkOK
    <2>2. StoreInv'
      <3>2. CASE \E c \in Classes : \E p \in page_for_size[c] : malloc(c, p)
        BY <3>2, <1>1, MallocStoreInv
      <3>3. CASE \E c \in Classes : \E n \in 1..max_pages_per_arena : allocate_new_page(c, n)
        BY <3>3, <1>1, AllocatePageStoreInv
      <3>4. CASE \E c \in Classes : \E n \in 1..max_pages_per_arena :
                   \E a \in Arenas : NewArena(c, a, n)
        BY <3>4, <1>1, NewArenaStoreInv
      <3>5. CASE \E c \in Classes : _pick_next_arena(c)
        BY <3>5, <1>1, PickStoreInv
      <3>6. CASE \E c \in Classes : RehashAndRetry(c)
        BY <3>6, <1>1, RehashAndRetryStoreInv
      <3>7. CASE mass_free_prepare
        BY <3>7, <1>1, PrepareStoreInv
      <3>8. CASE mass_free_complete
        BY <3>8, <1>1, CompleteStoreInv
      <3> QED
        BY <1>3, <3>2, <3>3, <3>4, <3>5, <3>6, <3>7, <3>8 DEF OutsideWalk
    <2> QED
      BY <2>1, <2>2 DEF IInv
  <1>4. ASSUME NEW c \in Classes, NEW p \in Page, StartWalk(c, p)
        PROVE  IInv'
    <2>1. /\ walk' = [class |-> c, page |-> p, obj |-> 1, chain |-> freeblock[p], linked |-> 0,
                      freed |-> {}, surviving |-> 0]
          /\ UNCHANGED <<lists, old, arenas, freepages, pages, client, request, rehashed>>
      BY <1>4 DEF StartWalk
    <2>2. WalkAt(c, p, 1, freeblock[p], 0, {}, 0)
      BY <1>1, <1>4, WalkStarts
    <2>3. PICK chain \in Seq(Nat \ {0}) : chain = freeblock[p]
      BY <1>1 DEF StoreInv, StoreType
    <2>4. StoreInv' /\ WalkAt(c, p, 1, chain, 0, {}, 0)'
      BY <2>1, <2>2, <2>3, NothingElse
    <2>5. walk' \in Walk
      BY <2>1, <2>3 DEF Walk
    <2> QED
      BY <2>1, <2>3, <2>4, <2>5 DEF IInv, WalkOK
  <1>5. ASSUME walk # NoWalk, SkipFreeBlock \/ FreeObject \/ KeepObject \/ mass_free_in_pages
        PROVE  IInv'
    <2>1. walk \in Walk
      BY <1>1, <1>5 DEF WalkOK
    <2>2. PICK c \in Classes, p \in Page, obj \in Nat \ {0}, chain \in Seq(Nat \ {0}),
               linked \in Nat, freed \in SUBSET (Nat \ {0}), surviving \in Nat :
             walk = [class |-> c, page |-> p, obj |-> obj, chain |-> chain, linked |-> linked,
                     freed |-> freed, surviving |-> surviving]
      BY <2>1 DEF Walk
    <2>3. WalkAt(c, p, obj, chain, linked, freed, surviving)
      BY <2>2, <1>1, <1>5 DEF WalkOK
    <2>4. /\ Len(chain) \in Nat
          /\ skip_free_blocks = Len(chain) - linked
          /\ NextFree = IF linked < Len(chain) THEN chain[linked + 1] ELSE uninitialized[p]
      BY <2>2 DEF skip_free_blocks, NextFree
    <2>5. CASE SkipFreeBlock
      <3>1. /\ walk' = [class |-> c, page |-> p, obj |-> obj + 1, chain |-> chain,
                        linked |-> linked + 1, freed |-> freed, surviving |-> surviving]
            /\ obj = NextFree /\ linked < Len(chain)
            /\ UNCHANGED <<lists, old, arenas, freepages, pages, client, request, rehashed>>
        <4>1. /\ walk' = [walk EXCEPT !.obj = @ + 1, !.linked = @ + 1]
              /\ walk.obj = NextFree /\ skip_free_blocks > 0
              /\ UNCHANGED <<lists, old, arenas, freepages, pages, client, request, rehashed>>
          BY <2>5 DEF SkipFreeBlock
        <4>2. walk.obj = obj
          BY <2>2
        <4>3. linked < Len(chain)
          BY <4>1, <2>4
        <4>4. walk' = [class |-> c, page |-> p, obj |-> obj + 1, chain |-> chain,
                       linked |-> linked + 1, freed |-> freed, surviving |-> surviving]
          BY <4>1, <2>2
        <4> QED
          BY <4>1, <4>2, <4>3, <4>4
      <3>2. WalkAt(c, p, obj + 1, chain, linked + 1, freed, surviving)
        BY <3>1, <2>3, <2>4, <1>1, WalkSkips
      <3>3. StoreInv' /\ WalkAt(c, p, obj + 1, chain, linked + 1, freed, surviving)'
        BY <3>1, <3>2, NothingElse
      <3>4. walk' \in Walk
        BY <3>1 DEF Walk
      <3> QED
        BY <3>1, <3>3, <3>4 DEF IInv, WalkOK
    <2>6. CASE KeepObject
      <3>1. /\ walk' = [class |-> c, page |-> p, obj |-> obj + 1, chain |-> chain,
                        linked |-> linked, freed |-> freed, surviving |-> surviving + 1]
            /\ obj # NextFree
            /\ UNCHANGED <<lists, old, arenas, freepages, pages, client, request, rehashed>>
        BY <2>2, <2>6 DEF KeepObject
      <3>2. WalkAt(c, p, obj + 1, chain, linked, freed, surviving + 1)
        BY <3>1, <2>3, <2>4, <1>1, WalkKeeps
      <3>3. StoreInv' /\ WalkAt(c, p, obj + 1, chain, linked, freed, surviving + 1)'
        BY <3>1, <3>2, NothingElse
      <3>4. walk' \in Walk
        BY <3>1 DEF Walk
      <3> QED
        BY <3>1, <3>3, <3>4 DEF IInv, WalkOK
    <2>7. CASE FreeObject
      <3>1. /\ walk' = [class |-> c, page |-> p, obj |-> obj + 1,
                        chain |-> Link(chain, linked, obj), linked |-> linked + 1,
                        freed |-> freed \cup {obj}, surviving |-> surviving]
            /\ obj # NextFree
            /\ UNCHANGED <<lists, old, arenas, freepages, pages, client, request, rehashed>>
        <4>1. walk.obj = obj /\ walk.linked = linked
          BY <2>2
        <4>2. walk' = [walk EXCEPT !.obj = @ + 1, !.linked = @ + 1, !.freed = @ \cup {obj},
                                   !.chain = Link(@, linked, obj)]
          BY <4>1, <2>7 DEF FreeObject
        <4>3. /\ obj # NextFree
              /\ UNCHANGED <<lists, old, arenas, freepages, pages, client, request, rehashed>>
          BY <4>1, <2>7 DEF FreeObject
        <4>4. walk' = [class |-> c, page |-> p, obj |-> obj + 1,
                       chain |-> Link(chain, linked, obj), linked |-> linked + 1,
                       freed |-> freed \cup {obj}, surviving |-> surviving]
          BY <4>2, <2>2
        <4> QED
          BY <4>3, <4>4
      <3>2. /\ Link(chain, linked, obj) \in Seq(Nat \ {0})
            /\ WalkAt(c, p, obj + 1, Link(chain, linked, obj), linked + 1, freed \cup {obj},
                      surviving)
        BY <3>1, <2>3, <2>4, <1>1, WalkFrees
      <3>3. PICK new \in Seq(Nat \ {0}) : new = Link(chain, linked, obj)
        BY <3>2
      <3>4. StoreInv' /\ WalkAt(c, p, obj + 1, new, linked + 1, freed \cup {obj}, surviving)'
        BY <3>1, <3>2, <3>3, NothingElse
      <3>5. walk' \in Walk
        <4>1. obj + 1 \in Nat \ {0} /\ linked + 1 \in Nat
              /\ freed \cup {obj} \in SUBSET (Nat \ {0})
          OBVIOUS
        <4>2. walk' = [class |-> c, page |-> p, obj |-> obj + 1, chain |-> new,
                       linked |-> linked + 1, freed |-> freed \cup {obj},
                       surviving |-> surviving]
          BY <3>1, <3>3
        <4>3. \A o \in Nat \ {0}, l \in Nat, f \in SUBSET (Nat \ {0}) :
                [class |-> c, page |-> p, obj |-> o, chain |-> new, linked |-> l,
                 freed |-> f, surviving |-> surviving] \in Walk
          BY DEF Walk
        <4> QED
          BY <4>1, <4>2, <4>3
      <3> QED
        BY <3>1, <3>3, <3>4, <3>5 DEF IInv, WalkOK
    <2>8. CASE mass_free_in_pages
      <3>1. obj = uninitialized[p] /\ walk' = NoWalk
        <4>1. obj = NextFree /\ skip_free_blocks = 0 /\ walk' = NoWalk
          BY <2>2, <2>8 DEF mass_free_in_pages
        <4> QED
          BY <4>1, <2>4
      <3>2. WalkAt(c, p, uninitialized[p], chain, linked, freed, surviving)
        BY <3>1, <2>3
      <3>3. StoreInv'
        <4>1. PageReturned(c, p, chain, freed, surviving)
          <5>1. /\ walk.class = c /\ walk.page = p /\ walk.surviving = surviving
                /\ walk.chain = chain /\ walk.freed = freed
            BY <2>2
          <5> QED
            BY <5>1, <2>8 DEF mass_free_in_pages, PageReturned
        <4> QED
          BY <4>1, <3>2, <1>1, MassFreeStoreInv
      <3> QED
        BY <3>1, <3>3 DEF IInv, WalkOK
    <2> QED
      BY <1>5, <2>5, <2>6, <2>7, <2>8
  <1> QED
    BY <1>2, <1>3, <1>4, <1>5 DEF Next, SkipFreeBlock, FreeObject, KeepObject, mass_free_in_pages

LEMMA AlwaysIInv == Spec => []IInv
  <1>1. Init => IInv
    BY InitStoreInv DEF Init, IInv, WalkOK
  <1>2. IInv /\ [Next]_vars => IInv'
    BY NextIInv
  <1> QED
    BY <1>1, <1>2, PTL DEF Spec

----------------------------------------------------------------------------
(* The variables keep their types.                                         *)
THEOREM TypesHold == Spec => []TypeOK
  <1>1. IInv => TypeOK
    BY DEF IInv, StoreInv, WalkOK, TypeOK
  <1> QED
    BY <1>1, AlwaysIInv, PTL

(* The ll_assert of walk_page holds for any page size and size class: the  *)
(* loop finds the free blocks of a page linked in the order of their       *)
(* addresses, whatever was allocated and freed since it linked them.       *)
THEOREM ChainsInOrder == Spec => []FreeBlocksInOrder
  <1>1. IInv => FreeBlocksInOrder
    <2> SUFFICES ASSUME IInv
                 PROVE  FreeBlocksInOrder
      OBVIOUS
    <2>1. StoreType /\ ChainsSorted /\ WalkOK
      BY DEF IInv, StoreInv
    <2>2. ASSUME walk # NoWalk, walk.obj # NextFree
          PROVE  NextFree > walk.obj
      <3>1. walk \in Walk
        BY <2>1, <2>2 DEF WalkOK
      <3>2. WalkAt(walk.class, walk.page, walk.obj, walk.chain, walk.linked, walk.freed,
                   walk.surviving)
        BY <2>1, <2>2 DEF WalkOK
      <3>3. /\ walk.linked \in Nat /\ walk.chain \in Seq(Nat \ {0}) /\ walk.obj \in Nat
            /\ uninitialized[walk.page] \in Nat
        BY <3>1, <2>1 DEF Walk, StoreType
      <3>4. CASE skip_free_blocks > 0
        <4>1. walk.linked + 1 \in 1..Len(walk.chain) /\ ~(walk.linked + 1 <= walk.linked)
          BY <3>3, <3>4 DEF skip_free_blocks
        <4>2. ~(walk.chain[walk.linked + 1] < walk.obj)
          BY <4>1, <3>2 DEF WalkAt
        <4>3. walk.chain[walk.linked + 1] \in Nat
          BY <4>1, <3>3
        <4> QED
          BY <4>2, <4>3, <3>3, <3>4, <2>2 DEF NextFree
      <3>5. CASE ~(skip_free_blocks > 0)
        BY <3>2, <3>3, <3>5, <2>2 DEF NextFree, WalkAt
      <3> QED
        BY <3>4, <3>5
    <2> QED
      BY <2>1, <2>2 DEF FreeBlocksInOrder, ChainsSorted
  <1> QED
    BY <1>1, AlwaysIInv, PTL

(* No memory is given out twice, whatever is freed between two calls of    *)
(* malloc, and total_memory_used counts every word in use once.            *)
THEOREM MemoryNotShared == Spec => []BlocksDisjoint
  <1>1. IInv => BlocksDisjoint
    <2> SUFFICES ASSUME IInv
                 PROVE  BlocksDisjoint
      OBVIOUS
    <2>1. StoreType /\ PageShape /\ LiveAreUsed /\ PagesPlaced /\ WordsCounted
      BY DEF IInv, StoreInv
    <2>2. ASSUME NEW x \in live
          PROVE  \E b \in Used(x[1]) :
                   /\ x[1] \in Page /\ size[x[1]] \in Classes /\ x[3] = size[x[1]]
                   /\ x[2] = (b - 1) * size[x[1]] /\ b \in Nat \ {0}
                   /\ b <= nblocks_for_size(size[x[1]])
      <3>1. PICK p \in Page : \E b \in Used(p) : x = <<p, (b - 1) * size[p], size[p]>>
        BY <2>1 DEF LiveAreUsed
      <3>2. PICK b \in Used(p) : x = <<p, (b - 1) * size[p], size[p]>>
        BY <3>1
      <3>3. /\ b \in 1..uninitialized[p] - 1 /\ uninitialized[p] \in Nat \ {0}
            /\ b \in Nat \ {0}
        BY <2>1, UsedFacts DEF Initialized, StoreType
      <3>4. size[p] # 0
        BY <3>3, <2>1 DEF PageShape
      <3>5. size[p] \in Classes
        BY <3>4, <2>1, ArenaAssumption DEF StoreType, Classes
      <3>6. b <= nblocks_for_size(size[p])
        <4>1. uninitialized[p] <= nblocks_for_size(size[p]) + 1
          BY <3>4, <2>1 DEF PageShape
        <4> QED
          BY <4>1, <3>3, <3>5, BlocksFit
      <3> QED
        BY <3>2, <3>3, <3>5, <3>6
    <2>3. ASSUME NEW x \in live
          PROVE  totalpages[x[1][1]] >= x[1][2] /\ x[2] + x[3] <= PageWords
      <3>1. PICK b \in Used(x[1]) :
                   /\ x[1] \in Page /\ size[x[1]] \in Classes /\ x[3] = size[x[1]]
                   /\ x[2] = (b - 1) * size[x[1]] /\ b \in Nat \ {0}
                   /\ b <= nblocks_for_size(size[x[1]])
        BY <2>2
      <3>2. size[x[1]] # 0 /\ size[x[1]] \in Nat
        BY <3>1, BlocksFit
      <3>3. ~(x[1][2] > totalpages[x[1][1]])
        BY <3>1, <3>2, <2>1 DEF PagesPlaced
      <3>4. x[1][1] \in Arenas /\ x[1][2] \in Nat /\ totalpages[x[1][1]] \in Nat
        BY <3>1, <2>1, ArenaAssumption DEF Page, StoreType
      <3> QED
        BY <3>1, <3>3, <3>4, BlockInPage
    <2>4. ASSUME NEW x \in live, NEW y \in live, x # y, x[1] = y[1]
          PROVE  x[2] + x[3] <= y[2] \/ y[2] + y[3] <= x[2]
      <3>1. PICK b \in Used(x[1]) :
                   /\ x[1] \in Page /\ size[x[1]] \in Classes /\ x[3] = size[x[1]]
                   /\ x[2] = (b - 1) * size[x[1]] /\ b \in Nat \ {0}
        BY <2>2
      <3>2. PICK d \in Used(y[1]) :
                   /\ y[3] = size[y[1]]
                   /\ y[2] = (d - 1) * size[y[1]] /\ d \in Nat \ {0}
        BY <2>2
      <3>3. b # d
        <4>1. x = <<x[1], x[2], x[3]>> /\ y = <<y[1], y[2], y[3]>>
          BY <2>1 DEF StoreType
        <4> QED
          BY <4>1, <3>1, <3>2, <2>4
      <3>4. size[x[1]] \in Nat
        BY <3>1, BlocksFit
      <3>5. b < d => x[2] + x[3] <= y[2]
        BY <3>1, <3>2, <3>4, <2>4, BlocksApart
      <3>6. d < b => y[2] + y[3] <= x[2]
        BY <3>1, <3>2, <3>4, <2>4, BlocksApart
      <3> QED
        BY <3>1, <3>2, <3>3, <3>5, <3>6
    <2> QED
      BY <2>1, <2>3, <2>4 DEF BlocksDisjoint, WordsCounted
  <1> QED
    BY <1>1, AlwaysIInv, PTL

(* No page is lost and none is in two places, for any number of arenas and *)
(* pages: malloc, the mass free and the rehashing of the arenas, in any    *)
(* order, leave every page untouched, free, or in the list it belongs to.  *)
THEOREM NoPageLost == Spec => []PagesAccounted
  <1>1. IInv => PagesAccounted
    <2> SUFFICES ASSUME IInv, NEW a \in Arenas, NEW n \in 1..max_pages_per_arena
                 PROVE  LET p == <<a, n>>
                            fresh == a = current_arena
                                       /\ n > totalpages[a] - num_uninitialized_pages
                            chained == {x \in Classes \X (1..4) : p \in Chains(x[1])[x[2]]}
                        IN IF n > totalpages[a] \/ fresh \/ n \in freepages[a]
                             THEN /\ chained = {} /\ size[p] = 0
                                  /\ ~(fresh /\ n \in freepages[a])
                             ELSE \E i \in 1..4 :
                                    /\ chained = {<<size[p], i>>}
                                    /\ i \in {2, 4}
                                         <=> IsFull(size[p], freeblock[p], uninitialized[p])
      BY DEF PagesAccounted
    <2> DEFINE p == <<a, n>>
               fresh == a = current_arena /\ n > totalpages[a] - num_uninitialized_pages
               chained == {x \in Classes \X (1..4) : p \in Chains(x[1])[x[2]]}
    <2>1. StoreType /\ PagesPlaced
      BY DEF IInv, StoreInv
    <2>2. p \in Page /\ p[1] = a /\ p[2] = n /\ (Fresh(p) <=> fresh)
      BY DEF Page, Fresh
    <2>3. \A c \in Classes :
            /\ p \in page_for_size[c] \cup old_page_for_size[c] =>
                 size[p] = c /\ ~IsFull(c, freeblock[p], uninitialized[p])
            /\ p \in full_page_for_size[c] \cup old_full_page_for_size[c] =>
                 size[p] = c /\ IsFull(c, freeblock[p], uninitialized[p])
            /\ ~(p \in page_for_size[c] /\ p \in old_page_for_size[c])
            /\ ~(p \in full_page_for_size[c] /\ p \in old_full_page_for_size[c])
      BY <2>1 DEF PagesPlaced
    <2>4. \A c \in Classes :
            /\ Chains(c)[1] = page_for_size[c] /\ Chains(c)[2] = full_page_for_size[c]
            /\ Chains(c)[3] = old_page_for_size[c] /\ Chains(c)[4] = old_full_page_for_size[c]
      BY DEF Chains
    <2>5. \A i \in 1..4 : i \in {1, 2, 3, 4}
      OBVIOUS
    <2>6. \A x \in Classes \X (1..4) : x[1] \in Classes /\ x[2] \in {1, 2, 3, 4} /\ x = <<x[1], x[2]>>
      BY <2>5
    <2>7. \A c \in Classes : c # 0
      BY DEF Classes
    <2>8. CASE n > totalpages[a] \/ fresh \/ n \in freepages[a]
      <3>1. size[p] = 0 /\ ~(fresh /\ n \in freepages[a])
        BY <2>8, <2>1, <2>2 DEF PagesPlaced
      <3>2. chained = {}
        BY <3>1, <2>3, <2>4, <2>6, <2>7
      <3> QED
        BY <3>1, <3>2, <2>8
    <2>9. CASE ~(n > totalpages[a] \/ fresh \/ n \in freepages[a])
      <3>1. size[p] # 0 /\ size[p] \in Classes
        <4> HIDE DEF p
        <4>1. size[p] # 0
          BY <2>9, <2>1, <2>2 DEF PagesPlaced
        <4>2. size[p] \in 0..MaxSize
          BY <2>1, <2>2 DEF StoreType
        <4> QED
          BY <4>1, <4>2, ArenaAssumption DEF Classes
      <3>2. p \in page_for_size[size[p]] \cup full_page_for_size[size[p]]
                   \cup old_page_for_size[size[p]] \cup old_full_page_for_size[size[p]]
        BY <3>1, <2>1, <2>2 DEF PagesPlaced
      <3>3. PICK i \in {1, 2, 3, 4} : p \in Chains(size[p])[i]
        BY <3>1, <3>2, <2>4
      <3>4. \A j \in {1, 2, 3, 4} : p \in Chains(size[p])[j] => j = i
        BY <3>1, <3>3, <2>3, <2>4
      <3>5. i \in {2, 4} <=> IsFull(size[p], freeblock[p], uninitialized[p])
        BY <3>1, <3>3, <2>3, <2>4
      <3>6. \A x \in Classes \X (1..4) : p \in Chains(x[1])[x[2]] => x[1] = size[p]
        BY <2>3, <2>4, <2>6
      <3>7. chained = {<<size[p], i>>}
        <4>1. i \in 1..4 /\ <<size[p], i>> \in chained
          BY <3>1, <3>3
        <4>2. \A x \in chained : x = <<size[p], i>>
          BY <3>4, <3>6, <2>6
        <4> QED
          BY <4>1, <4>2
      <3>8. i \in 1..4
        OBVIOUS
      <3> QED
        BY <3>5, <3>7, <3>8, <2>9
    <2> QED
      BY <2>8, <2>9
  <1> QED
    BY <1>1, AlwaysIInv, PTL

(* No arena with a free page is hidden from allocate_new_arena, and none   *)
(* is in two lists, whenever the arenas are rehashed.                      *)
THEOREM NoArenaLost == Spec => []ArenasAccounted
  <1>1. IInv => ArenasAccounted
    <2> SUFFICES ASSUME IInv
                 PROVE  ArenasAccounted
      OBVIOUS
    <2>1. StoreType /\ ArenasPlaced
      BY DEF IInv, StoreInv
    <2>2. DOMAIN arenas_lists = 0..max_pages_per_arena - 1
      BY <2>1 DEF StoreType
    <2>3. ASSUME NEW a \in Arenas
          PROVE  LET in == {i \in DOMAIN arenas_lists : a \in arenas_lists[i]} IN
                 IF totalpages[a] = 0 \/ a = current_arena THEN in = {}
                 ELSE \E i \in in :
                        /\ in = {i} /\ i <= nfreepages(a)
                        /\ size_class_with_old_pages = -1 =>
                             i = nfreepages(a) /\ i < totalpages[a]
      <3> DEFINE in == {i \in DOMAIN arenas_lists : a \in arenas_lists[i]}
      <3>1. CASE totalpages[a] = 0 \/ a = current_arena
        <4>1. in = {}
          BY <3>1, <2>1, <2>2 DEF ArenasPlaced
        <4> QED
          BY <4>1, <3>1
      <3>2. CASE ~(totalpages[a] = 0 \/ a = current_arena)
        <4>1. PICK i \in DOMAIN arenas_lists : a \in arenas_lists[i]
          BY <3>2, <2>1, <2>2 DEF ArenasPlaced
        <4>2. \A j \in in : j = i
          BY <4>1, <2>1, <2>2 DEF ArenasPlaced
        <4>3. i \in in /\ in = {i}
          BY <4>1, <4>2
        <4>4. /\ i <= nfreepages(a)
              /\ size_class_with_old_pages = -1 => i = nfreepages(a) /\ i < totalpages[a]
          BY <4>1, <2>1, <2>2 DEF ArenasPlaced
        <4> QED
          BY <4>3, <4>4, <3>2
      <3> QED
        BY <3>1, <3>2
    <2> QED
      BY <2>1, <2>3 DEF ArenasAccounted, ArenasPlaced
  <1> QED
    BY <1>1, AlwaysIInv, PTL
============================================================================
