------------------------- MODULE IncMinimarkProofs -------------------------
(***************************************************************************)
(* Proofs about IncMinimark, for any memory areas, numbers of pointers and *)
(* kinds of objects.                                                       *)
(***************************************************************************)
EXTENDS IncMinimark, FiniteSetTheorems, TLAPS

(* A copy between arrays with card marking may leave a marked array with a *)
(* pointer that the marking does not know of (MCIncMinimarkCopy.cfg shows  *)
(* it): what follows is about programs that make no copies, or that have   *)
(* no arrays with card marking.                                            *)
NoCardCopies == MaxCopies = 0 \/ "large" \notin Kinds

----------------------------------------------------------------------------
(* The inductive invariant, in parts.                                      *)

Old == Heap \cup Prebuilt
Young == Nursery \cup young_rawmalloced_objects
InMinor == pc \in {"cards", "oldrefs"}
InMajor == pc \in {"minor_done", "marking", "visit_all", "last"}
Traced == objects_to_trace \cup more_objects_to_trace

(* The sweep is going to free a.                                           *)
Condemned(a) == a \in unswept \cup raw_malloc_might_sweep /\ ~Has(a, "VISITED")

(* a is the shadow of a nursery object that has not moved there yet.       *)
IsShadow(a) == \E o \in Nursery : forw[o] = NULL /\ nursery_objects_shadows[o] = a

(* An old object that was a shadow when its owner died, as the flags tell. *)
Forgotten(a) ==
    \/ /\ has_gcptr(a) /\ ~Has(a, "TRACK_YOUNG_PTRS")
       /\ a \notin old_objects_pointing_to_young /\ a \notin young_rawmalloced_objects
    \/ Has(a, "PINNED") /\ a \notin old_objects_pointing_to_pinned

(* What the program may still use.  All that can be reached from the stack *)
(* is live; not all that is live can be reached.                           *)
Live(a) ==
    /\ a \in Addr /\ kind[a] # "free"
    /\ ~Condemned(a) /\ ~IsShadow(a) /\ (a \in Old => ~Forgotten(a))

Flag == {"NO_HEAP_PTRS", "TRACK_YOUNG_PTRS", "HAS_CARDS", "CARDS_SET", "PINNED", "HAS_SHADOW",
         "VISITED", "VISITED_RMY"}

TypeOK ==
    /\ pc \in {"run", "cards", "oldrefs", "minor_done", "marking", "visit_all", "last"}
    /\ gc_state \in {"SCANNING", "MARKING", "SWEEPING", "FINALIZING"}
    /\ kind \in [Addr -> {"free", "small", "large", "leaf"}]
    /\ ptr \in [Addr -> [Index -> Addr \cup {NULL}]]
    /\ flags \in [Addr -> SUBSET Flag]
    /\ card \in [Addr -> SUBSET Index]
    /\ forw \in [Nursery -> Heap \cup {NULL}]
    /\ nursery_objects_shadows \in [Nursery -> Heap \cup {NULL}]
    /\ surviving_pinned_objects \subseteq Nursery
    /\ prebuilt_root_objects \subseteq Prebuilt
    /\ updated_old_objects_pointing_to_pinned \in BOOLEAN

(* The header, the cards and the pointers of any address.                  *)
ObjectsOK ==
    \A a \in Addr :
        /\ kind[a] = "free" => flags[a] = {} /\ card[a] = {} /\ ptr[a] = NoPtr
        /\ kind[a] = "leaf" => ptr[a] = NoPtr
        /\ kind[a] = "large" => /\ "large" \in Kinds
                                /\ Has(a, "HAS_CARDS") /\ Has(a, "TRACK_YOUNG_PTRS")
        /\ Has(a, "HAS_CARDS") => kind[a] = "large"
        /\ card[a] # {} => Has(a, "CARDS_SET")
        /\ Has(a, "CARDS_SET") => \/ a \in old_objects_with_cards_set
                                  \/ /\ a \in young_rawmalloced_objects
                                     /\ ~Has(a, "VISITED_RMY") /\ Has(a, "HAS_CARDS")
        /\ Has(a, "NO_HEAP_PTRS") => /\ a \in Prebuilt /\ ptr[a] = NoPtr
                                     /\ ~Has(a, "VISITED") /\ Has(a, "TRACK_YOUNG_PTRS")
        /\ Has(a, "VISITED_RMY") => a \in young_rawmalloced_objects /\ InMinor

NurseryOK ==
    \A o \in Nursery :
        /\ kind[o] # "large" /\ flags[o] \subseteq {"PINNED", "HAS_SHADOW", "VISITED"}
        /\ Has(o, "PINNED") => kind[o] = "leaf"
        /\ Has(o, "VISITED") => o \in surviving_pinned_objects
        /\ InMajor => kind[o] = "free" \/ Has(o, "PINNED")
        /\ forw[o] # NULL => /\ InMinor /\ o \notin surviving_pinned_objects
                             /\ Live(forw[o]) /\ forw[o] \notin young_rawmalloced_objects
        /\ o \in surviving_pinned_objects => InMinor /\ Has(o, "PINNED") /\ Live(o)

(* A shadow is an allocated block without pointers that only the table     *)
(* knows of; the marking makes it black in time.                           *)
ShadowOK(o, s) ==
    /\ kind[s] = kind[o] /\ kind[o] # "free" /\ ptr[s] = NoPtr /\ ~Condemned(s)
    /\ ~Has(s, "TRACK_YOUNG_PTRS") /\ (Has(s, "VISITED") => kind[o] = "leaf")
    /\ Marking /\ InMajor => Has(s, "VISITED")

ShadowsOK ==
    /\ \A o \in Nursery :
          /\ nursery_objects_shadows[o] = NULL <=> ~Has(o, "HAS_SHADOW")
          /\ nursery_objects_shadows[o] # NULL /\ forw[o] = NULL
               => ShadowOK(o, nursery_objects_shadows[o])
    /\ \A o, n \in Nursery :
          nursery_objects_shadows[o] = nursery_objects_shadows[n] =>
             o = n \/ nursery_objects_shadows[o] = NULL

PrebuiltOK ==
    \A a \in Prebuilt : /\ kind[a] = "small" /\ Live(a)
                        /\ Has(a, "NO_HEAP_PTRS") <=> a \notin prebuilt_root_objects

RootsOK == \A r \in roots : Live(r)

RememberedOK ==
    /\ \A a \in old_objects_pointing_to_young :
          /\ a \in Old /\ Live(a) /\ ~Has(a, "TRACK_YOUNG_PTRS")
          /\ has_gcptr(a) \/ a \in young_rawmalloced_objects
    /\ InMajor => old_objects_pointing_to_young = {}

CardsOK ==
    /\ \A a \in old_objects_with_cards_set :
          a \in Old /\ Live(a) /\ Has(a, "HAS_CARDS") /\ Has(a, "CARDS_SET")
    /\ InMajor => old_objects_with_cards_set = {}

PinnedOK ==
    \A a \in old_objects_pointing_to_pinned :
        /\ a \in Old /\ Live(a) /\ has_gcptr(a) /\ (~InMinor => ~Has(a, "PINNED"))
        /\ \/ updated_old_objects_pointing_to_pinned
           \/ pc = "run" /\ ~Has(a, "TRACK_YOUNG_PTRS")

(* A young array has cards.  Any other young object is not tracked before  *)
(* the minor collection has seen it.                                       *)
YoungOK ==
    /\ \A a \in young_rawmalloced_objects :
          /\ a \in Heap /\ Live(a) /\ ~Has(a, "VISITED")
          /\ Has(a, "TRACK_YOUNG_PTRS") \/ ~Has(a, "VISITED_RMY")
                \/ a \in old_objects_pointing_to_young
          /\ ~Has(a, "VISITED_RMY") =>
                /\ IF kind[a] = "large" THEN Has(a, "CARDS_SET")
                                        ELSE ~Has(a, "TRACK_YOUNG_PTRS")
                /\ a \notin old_objects_pointing_to_young
                /\ a \notin old_objects_with_cards_set
                /\ a \notin old_objects_pointing_to_pinned /\ a \notin Traced
                /\ \A i \in Index : <<a, i>> \notin work
    /\ InMajor => young_rawmalloced_objects = {}

SweepOK ==
    /\ \A a \in unswept \cup raw_malloc_might_sweep \cup old_rawmalloced_objects :
          a \in Heap /\ kind[a] # "free" /\ a \notin young_rawmalloced_objects
    /\ unswept \cap raw_malloc_might_sweep = {}
    /\ \A a \in unswept \cup raw_malloc_might_sweep :
          gc_state = "SWEEPING" /\ a \notin old_rawmalloced_objects
    /\ gc_state # "MARKING" =>
          \A a \in Old : Has(a, "VISITED") =>
             /\ gc_state = "SWEEPING"
             /\ a \in unswept \cup raw_malloc_might_sweep \cup prebuilt_root_objects

(* Live objects point to live objects.                                     *)
ClosedOK == \A a \in Addr : \A i \in Index : Live(a) /\ ptr[a][i] # NULL => Live(ptr[a][i])

(* Where the minor collection still has to look.                           *)
WorkOK ==
    /\ work # {} => InMinor
    /\ work \subseteq ({NULL} \X roots) \cup (Old \X Index)
    /\ \A p \in Old, i \in Index :
          <<p, i>> \in work => Live(p) /\ (Marking => ~Has(p, "VISITED"))
    /\ Marking /\ InMinor => \A a \in old_objects_pointing_to_young : ~Has(a, "VISITED")

(* As long as a root is left, no object that moved or is a young array is  *)
(* known to point to a pinned one.                                         *)
RootsFirst ==
    \A r \in roots : <<NULL, r>> \in work =>
        /\ \A o \in Nursery : /\ forw[o] \notin old_objects_pointing_to_pinned
                              /\ \A i \in Index : forw[o] # NULL => <<forw[o], i>> \notin work
        /\ \A a \in young_rawmalloced_objects :
              /\ a \notin old_objects_pointing_to_pinned
              /\ \A i \in Index : <<a, i>> \notin work

(* Nothing is left to do about the pointer to b in a: b is pinned, or a    *)
(* young array that was seen.                                              *)
Settled(a, b) ==
    \/ /\ b \in Nursery /\ a \in old_objects_pointing_to_pinned
       /\ InMinor => b \in surviving_pinned_objects
    \/ Has(b, "VISITED_RMY")

(* a is young and is traced as a whole if it is reached at all.            *)
Untouched(a) ==
    a \in young_rawmalloced_objects /\ ~Has(a, "TRACK_YOUNG_PTRS") /\ ~Has(a, "VISITED_RMY")

(* The minor collection finds every pointer from an old to a young object. *)
YoungPointersKnown ==
    \A a \in Old : \A i \in Index :
        Live(a) /\ ptr[a][i] \in Young =>
            \/ a \in old_objects_pointing_to_young \/ i \in card[a] \/ <<a, i>> \in work
            \/ Settled(a, ptr[a][i]) \/ Untouched(a)

YoungRootsKnown ==
    InMinor => \A r \in roots :
        r \in Young => \/ <<NULL, r>> \in work \/ r \in surviving_pinned_objects
                       \/ Has(r, "VISITED_RMY")

(* The marking has seen b or is going to.                                  *)
KnownToMarking(b) ==
    \/ b \notin Nursery /\ Has(b, "VISITED")
    \/ b \in Traced \/ b \in prebuilt_root_objects \/ Has(b, "NO_HEAP_PTRS")

(* A black object points to no white one, or the minor collection is going *)
(* to make it gray.                                                        *)
BlackPointersKnown ==
    Marking => \A a \in Old : \A i \in Index :
        Live(a) /\ Has(a, "VISITED") /\ ptr[a][i] # NULL =>
            \/ KnownToMarking(ptr[a][i]) \/ i \in card[a]
            \/ ~InMinor /\ a \in old_objects_pointing_to_young
            \/ ~InMinor /\ ptr[a][i] \in Nursery /\ a \in old_objects_pointing_to_pinned

RootsMarked ==
    Marking /\ pc # "run" => \A r \in roots :
        \/ KnownToMarking(r) \/ <<NULL, r>> \in work
        \/ r \in Nursery /\ (InMinor => r \in surviving_pinned_objects)

(* What the next minor collection may leave out on the stack is old, and   *)
(* the marking knows of it.                                                *)
StoppedOK ==
    /\ stopped \subseteq roots /\ (InMinor => stopped = {})
    /\ \A r \in stopped : /\ r \in Old /\ r \notin young_rawmalloced_objects
                          /\ Marking => KnownToMarking(r)

GrayOK ==
    /\ \A a \in Traced : Marking /\ a \in Old /\ Live(a)
    /\ pc \in {"marking", "visit_all", "last"} => Marking
    /\ pc = "last" => /\ more_objects_to_trace = {}
                      /\ \A a \in prebuilt_root_objects :
                            Has(a, "VISITED") \/ a \in objects_to_trace

(* What was garbage when the marking began is not marked.                  *)
DoomedOK ==
    /\ \A a \in doomed :
          /\ a \in Heap /\ kind[a] # "free" /\ ~Has(a, "VISITED") /\ a \notin roots
          /\ a \notin Traced /\ a \notin old_objects_with_cards_set /\ ~IsShadow(a)
          /\ a \notin young_rawmalloced_objects
          /\ gc_state \in {"MARKING", "SWEEPING"}
          /\ gc_state = "SWEEPING" => a \in unswept \cup raw_malloc_might_sweep
    /\ \A o \in Nursery : forw[o] \notin doomed
    /\ \A a \in Addr : \A i \in Index : a \notin doomed => ptr[a][i] \notin doomed

IInv ==
    /\ TypeOK /\ ObjectsOK /\ NurseryOK /\ ShadowsOK /\ PrebuiltOK /\ RootsOK
    /\ RememberedOK /\ CardsOK /\ PinnedOK /\ YoungOK /\ SweepOK /\ ClosedOK
    /\ WorkOK /\ RootsFirst /\ YoungPointersKnown /\ YoungRootsKnown
    /\ BlackPointersKnown /\ RootsMarked /\ StoppedOK /\ GrayOK /\ DoomedOK

----------------------------------------------------------------------------
LEMMA Areas ==
    ASSUME IncMinimarkAssumption
    PROVE  /\ Addr = Nursery \cup Old /\ Old = Heap \cup Prebuilt
           /\ Nursery \cap Old = {} /\ Heap \cap Prebuilt = {}
           /\ NULL \notin Addr
  BY DEF IncMinimarkAssumption, Addr, Old

LEMMA InitIInv ==
    ASSUME IncMinimarkAssumption, Init
    PROVE  IInv
  <1> USE Areas
  <1>1. TypeOK
    BY DEF Init, TypeOK, Flag, NoPtr
  <1>2. \A a \in Addr : ptr[a] = NoPtr /\ card[a] = {}
    BY DEF Init
  <1>3. \A a \in Nursery \cup Heap : kind[a] = "free" /\ flags[a] = {}
    BY DEF Init
  <1>4. \A a \in Prebuilt : kind[a] = "small" /\ flags[a] = {"NO_HEAP_PTRS", "TRACK_YOUNG_PTRS"}
    BY DEF Init
  <1>5. \A o \in Nursery : forw[o] = NULL /\ nursery_objects_shadows[o] = NULL
    BY DEF Init
  <1>6. \A a \in Addr : Live(a) <=> a \in Prebuilt
    BY <1>3, <1>4, <1>5 DEF Init, Live, Condemned, IsShadow, Forgotten, Has, has_gcptr
  <1>7. ObjectsOK
    BY <1>2, <1>3, <1>4 DEF ObjectsOK, Has
  <1>8. NurseryOK
    BY <1>3, <1>5 DEF NurseryOK, Has, Init
  <1>9. ShadowsOK
    BY <1>3, <1>5 DEF ShadowsOK, Has
  <1>10. PrebuiltOK
    BY <1>4, <1>6 DEF PrebuiltOK, Has, Init
  <1>11. ClosedOK /\ YoungPointersKnown /\ BlackPointersKnown
    BY <1>2, <1>6 DEF ClosedOK, YoungPointersKnown, BlackPointersKnown, NoPtr, Young, Init, Marking
  <1>12. SweepOK
    BY <1>3, <1>4 DEF SweepOK, Init, Has
  <1>13. DoomedOK
    BY DEF Init, DoomedOK
  <1>14. RootsOK /\ RememberedOK /\ CardsOK /\ PinnedOK /\ YoungOK /\ WorkOK /\ RootsFirst
         /\ YoungRootsKnown /\ RootsMarked /\ StoppedOK /\ GrayOK
    BY DEF Init, RootsOK, RememberedOK, CardsOK, PinnedOK, YoungOK, WorkOK, RootsFirst,
       YoungRootsKnown, RootsMarked, StoppedOK, GrayOK, Traced, InMinor, InMajor
  <1> QED
    BY <1>1, <1>7, <1>8, <1>9, <1>10, <1>11, <1>12, <1>13, <1>14 DEF IInv

----------------------------------------------------------------------------
(* Steps that change neither an object nor what is known of it: the        *)
(* program's reads, and the marking between two objects.                   *)

HeapSame == UNCHANGED <<kind, ptr, flags, card, forw, nursery_objects_shadows, unswept,
                        old_objects_pointing_to_young, old_objects_with_cards_set,
                        prebuilt_root_objects, young_rawmalloced_objects,
                        old_rawmalloced_objects, raw_malloc_might_sweep,
                        old_objects_pointing_to_pinned, surviving_pinned_objects,
                        updated_old_objects_pointing_to_pinned, work>>

HeapParts ==
    /\ TypeOK /\ ObjectsOK /\ NurseryOK /\ ShadowsOK /\ PrebuiltOK
    /\ RememberedOK /\ CardsOK /\ PinnedOK /\ YoungOK /\ SweepOK /\ ClosedOK
    /\ WorkOK /\ RootsFirst /\ YoungPointersKnown /\ YoungRootsKnown

LEMMA Quiet ==
    ASSUME IncMinimarkAssumption, IInv, HeapSame, ~InMinor,
           \/ pc' = "run"
           \/ InMajor /\ pc' \in {"minor_done", "marking", "visit_all", "last"},
           \/ UNCHANGED gc_state
           \/ gc_state = "FINALIZING" /\ gc_state' = "SCANNING"
           \/ gc_state = "SCANNING" /\ gc_state' = "MARKING" /\ pc' = "run",
           Traced' \subseteq Traced \/ InMajor
    PROVE  HeapParts' /\ \A a : Live(a)' <=> Live(a)
  <1> USE Areas DEF HeapSame
  <1>0. \A a : /\ Has(a, "VISITED")' <=> Has(a, "VISITED")
               /\ Has(a, "PINNED")' <=> Has(a, "PINNED")
    BY DEF Has
  <1>1. \A a : Live(a)' <=> Live(a)
    BY DEF Live, Condemned, IsShadow, Forgotten, Has, has_gcptr
  <1>2. ~InMinor' /\ (InMajor' => InMajor) /\ work = {} /\ work' = {}
    BY DEF InMinor, InMajor, IInv, WorkOK
  <1>2a. Marking' /\ InMajor' => Marking /\ InMajor
    BY <1>2 DEF Marking, InMajor
  <1>3. TypeOK'
    BY DEF IInv, TypeOK, InMajor
  <1>4. ObjectsOK'
    BY <1>2 DEF IInv, ObjectsOK, Has
  <1>5. NurseryOK'
    BY <1>1, <1>2 DEF IInv, NurseryOK, Has
  <1>6. ShadowsOK'
    <2>1. ASSUME NEW o, NEW s, ShadowOK(o, s) PROVE ShadowOK(o, s)'
      BY <1>2a, <2>1 DEF ShadowOK, Condemned, Has
    <2> QED
      BY <2>1 DEF IInv, ShadowsOK, Has
  <1>7. PrebuiltOK'
    BY <1>1 DEF IInv, PrebuiltOK, Has
  <1>8. RememberedOK' /\ CardsOK'
    BY <1>1, <1>2 DEF IInv, RememberedOK, CardsOK, Has, has_gcptr
  <1>9. PinnedOK'
    BY <1>1, <1>2 DEF IInv, PinnedOK, Has, InMajor, has_gcptr
  <1>10. YoungOK'
    BY <1>1, <1>2 DEF IInv, YoungOK, Has
  <1>11. SweepOK'
    BY DEF IInv, SweepOK, Has
  <1>12. ClosedOK'
    BY <1>1 DEF IInv, ClosedOK
  <1>13. WorkOK' /\ RootsFirst' /\ YoungRootsKnown'
    BY <1>2 DEF WorkOK, RootsFirst, YoungRootsKnown
  <1>14. YoungPointersKnown'
    BY <1>1, <1>2 DEF IInv, YoungPointersKnown, Settled, Untouched, Has, Young
  <1> QED
    BY <1>1, <1>3, <1>4, <1>5, <1>6, <1>7, <1>8, <1>9, <1>10, <1>11, <1>12, <1>13, <1>14
       DEF HeapParts

LEMMA ReadSteps ==
    ASSUME IncMinimarkAssumption, IInv,
           \/ \E a \in Known, i \in Index : GetField(a, i)
           \/ \E a \in roots : DropRoot(a)
    PROVE  IInv'
  <1> USE Areas
  <1>1. pc = "run" /\ pc' = "run" /\ HeapSame /\ UNCHANGED <<gc_state, Traced, doomed>>
    BY DEF GetField, DropRoot, heap, header, barrier, tracing, raw, sweep, shadows, pinning,
           HeapSame, Traced
  <1>2. HeapParts' /\ \A a : Live(a)' <=> Live(a)
    BY <1>1, Quiet DEF InMinor
  <1>3. \A r \in roots' : Live(r) /\ r \notin doomed
    <2>1. ASSUME NEW a \in Known, NEW i \in Index, GetField(a, i)
          PROVE  \A r \in roots' : Live(r) /\ r \notin doomed
      <3>1. Live(a) /\ a \notin doomed /\ a \in Addr
        BY <2>1 DEF Known, IInv, RootsOK, PrebuiltOK, DoomedOK, Live
      <3>2. Live(ptr[a][i]) /\ ptr[a][i] \notin doomed
        BY <2>1, <3>1 DEF GetField, IInv, ClosedOK, DoomedOK
      <3> QED
        BY <2>1, <3>2 DEF GetField, IInv, RootsOK, DoomedOK
    <2>2. ASSUME NEW a \in roots, DropRoot(a)
          PROVE  \A r \in roots' : Live(r) /\ r \notin doomed
      BY <2>2 DEF DropRoot, IInv, RootsOK, DoomedOK
    <2> QED
      BY <2>1, <2>2
  <1>4a. StoppedOK'
    <2>1. stopped' \subseteq stopped /\ stopped' \subseteq roots'
      BY DEF GetField, DropRoot, IInv, StoppedOK
    <2>2. \A r : KnownToMarking(r) => KnownToMarking(r)'
      BY <1>1 DEF KnownToMarking, HeapSame, Has
    <2> QED
      BY <1>1, <2>1, <2>2 DEF IInv, StoppedOK, HeapSame, InMinor, Marking
  <1>4. RootsOK' /\ RootsMarked'
    BY <1>1, <1>2, <1>3 DEF RootsOK, RootsMarked
  <1>5. BlackPointersKnown'
    BY <1>1, <1>2 DEF IInv, BlackPointersKnown, KnownToMarking, HeapSame, Has, InMinor, Marking
  <1>6. GrayOK'
    BY <1>1, <1>2 DEF IInv, GrayOK, Marking
  <1>7. DoomedOK'
    BY <1>1, <1>3 DEF IInv, DoomedOK, HeapSame, Has, IsShadow
  <1> QED
    BY <1>2, <1>4, <1>4a, <1>5, <1>6, <1>7 DEF IInv, HeapParts

LEMMA MarkingControlSteps ==
    ASSUME IncMinimarkAssumption, IInv,
           \/ StopMarking \/ VisitMoreObjects \/ RescanNonstackRoots \/ ReturnToProgram
           \/ StepFinalizing
    PROVE  IInv'
  <1> USE Areas
  <1> USE DEF heap, header, barrier, tracing, raw, sweep, shadows, pinning, stack
  <1>1. /\ InMajor /\ ~InMinor /\ HeapSame /\ UNCHANGED <<roots, stopped, doomed>>
        /\ pc' \in {"run", "minor_done", "marking", "visit_all", "last"}
        /\ \/ UNCHANGED gc_state
           \/ gc_state = "FINALIZING" /\ gc_state' = "SCANNING"
    BY DEF StopMarking, VisitMoreObjects, RescanNonstackRoots, ReturnToProgram, StepFinalizing,
           HeapSame, InMajor, InMinor, IInv, TypeOK
  <1>2. HeapParts' /\ \A a : Live(a)' <=> Live(a)
    BY <1>1, Quiet
  <1>3. Marking' <=> Marking
    BY <1>1 DEF Marking
  <1>4. /\ Traced \subseteq Traced'
        /\ \A a \in Traced' : a \in Traced \/ (a \in prebuilt_root_objects /\ Marking)
    BY DEF StopMarking, VisitMoreObjects, RescanNonstackRoots, ReturnToProgram,
           StepFinalizing, Traced, _collect_obj, collect_nonstack_roots
  <1>5. \A b : KnownToMarking(b) => KnownToMarking(b)'
    BY <1>1, <1>4 DEF KnownToMarking, HeapSame, Has
  <1>6. RootsOK'
    BY <1>1, <1>2 DEF IInv, RootsOK
  <1>7. BlackPointersKnown'
    BY <1>1, <1>2, <1>3, <1>5 DEF IInv, BlackPointersKnown, HeapSame, Has, InMinor
  <1>8. RootsMarked'
    BY <1>1, <1>3, <1>5 DEF IInv, RootsMarked, HeapSame, InMinor, InMajor
  <1>8a. StoppedOK'
    BY <1>1, <1>3, <1>5 DEF IInv, StoppedOK, HeapSame, InMinor
  <1>9. GrayOK'
    <2>1. \A a \in Traced' : Marking' /\ a \in Old /\ Live(a)'
      BY <1>2, <1>3, <1>4 DEF IInv, GrayOK, PrebuiltOK, TypeOK
    <2>2. pc' \in {"marking", "visit_all", "last"} => Marking'
      BY <1>3 DEF StopMarking, VisitMoreObjects, RescanNonstackRoots, ReturnToProgram,
                  StepFinalizing
    <2>3. pc' = "last" => /\ more_objects_to_trace' = {}
                          /\ \A a \in prebuilt_root_objects' : a \in objects_to_trace'
      BY DEF StopMarking, VisitMoreObjects, RescanNonstackRoots, ReturnToProgram,
             StepFinalizing, _collect_obj, collect_nonstack_roots, IInv, TypeOK
    <2> QED
      BY <2>1, <2>2, <2>3 DEF GrayOK
  <1>10. DoomedOK'
    <2>1. gc_state = "FINALIZING" => doomed = {}
      BY DEF IInv, DoomedOK
    <2>2. \A a \in doomed : a \notin Traced'
      BY <1>4 DEF IInv, DoomedOK, TypeOK
    <2> QED
      BY <1>1, <2>1, <2>2 DEF IInv, DoomedOK, HeapSame, Has, IsShadow
  <1> QED
    BY <1>2, <1>6, <1>7, <1>8, <1>8a, <1>9, <1>10 DEF IInv, HeapParts

(* Reachable is the smallest set with the roots that is closed; what is    *)
(* live is such a set.                                                     *)
LEMMA ReachableClosed ==
    ASSUME IncMinimarkAssumption, TypeOK, NEW a \in Reachable
    PROVE  Targets(a) \subseteq Reachable
  <1>1. ASSUME NEW b \in Targets(a), NEW S \in SUBSET Addr, RootSet \subseteq S, Closed(S)
        PROVE  b \in S
    BY <1>1 DEF Reachable, Closed
  <1>2. Targets(a) \subseteq Addr
    BY DEF Targets, Reachable, TypeOK
  <1> QED
    BY <1>1, <1>2 DEF Reachable

LEMMA ReachableLive ==
    ASSUME IncMinimarkAssumption, IInv, NEW a \in Reachable
    PROVE  Live(a)
  <1> DEFINE S == {b \in Addr : Live(b)}
  <1>1. RootSet \subseteq S
    BY Areas DEF RootSet, IInv, RootsOK, PrebuiltOK, Live
  <1>2. Closed(S)
    <2>1. ASSUME NEW b \in S, NEW c \in Targets(b) PROVE c \in S
      <3>1. PICK i \in Index : c = ptr[b][i] /\ c # NULL
        BY <2>1 DEF Targets
      <3>2. Live(c)
        BY <3>1 DEF IInv, ClosedOK
      <3> QED
        BY <3>2 DEF Live
    <2> QED
      BY <2>1 DEF Closed
  <1> QED
    BY <1>1, <1>2 DEF Reachable

LEMMA ScanningStep ==
    ASSUME IncMinimarkAssumption, IInv, StepScanning
    PROVE  IInv'
  <1> USE Areas
  <1> USE DEF heap, header, barrier, raw, shadows, pinning, stack
  <1>1. /\ InMajor /\ ~InMinor /\ HeapSame /\ UNCHANGED <<roots, stopped>>
        /\ pc' = "run" /\ gc_state = "SCANNING" /\ gc_state' = "MARKING" /\ pc = "minor_done"
    BY DEF StepScanning, HeapSame, InMajor, InMinor
  <1>2. HeapParts' /\ \A a : Live(a)' <=> Live(a)
    BY <1>1, Quiet
  <1>3. \A a \in Old : ~Has(a, "VISITED") /\ ~Has(a, "VISITED")'
    BY <1>1 DEF IInv, SweepOK, HeapSame, Has
  <1>4. RootsOK' /\ BlackPointersKnown' /\ RootsMarked'
    BY <1>1, <1>2, <1>3 DEF IInv, RootsOK, RootsMarked, BlackPointersKnown
  <1>4a. StoppedOK'
    <2>1. \A r \in stopped : r \in Old /\ r \in roots /\ r \in objects_to_trace'
      BY DEF StepScanning, _collect_obj, IInv, StoppedOK
    <2> QED
      BY <1>1, <2>1 DEF IInv, StoppedOK, KnownToMarking, Traced, HeapSame, InMinor
  <1>5. GrayOK'
    <2>1. \A a \in Traced' : a \in Old /\ Live(a)
      BY DEF StepScanning, Traced, _collect_obj, collect_nonstack_roots, IInv, RootsOK,
             PrebuiltOK, TypeOK, Live
    <2> QED
      BY <1>1, <1>2, <2>1 DEF GrayOK, Marking
  <1>6. DoomedOK'
    <2>1. doomed' = {a \in Objects \cap Heap : /\ a \notin Reachable
                                               /\ \A o \in Nursery : nursery_objects_shadows[o] # a}
      BY DEF StepScanning
    <2>2. RootSet \subseteq Reachable
      BY DEF Reachable, RootSet, IInv, RootsOK, Live
    <2>3. \A a \in doomed' : /\ a \in Heap /\ kind[a] # "free" /\ a \notin roots
                             /\ a \notin Traced' /\ ~IsShadow(a)
      BY <2>1, <2>2 DEF Objects, RootSet, StepScanning, Traced, _collect_obj,
         collect_nonstack_roots, IsShadow, IInv, TypeOK
    <2>4. ASSUME NEW a \in Addr, a \notin doomed', NEW i \in Index, ptr[a][i] # NULL
          PROVE  ptr[a][i] \notin doomed'
      <3>1. CASE a \in Reachable
        <4>1. ptr[a][i] \in Reachable
          BY <2>4, <3>1, ReachableClosed DEF Targets, IInv
        <4> QED
          BY <4>1, <2>1
      <3>2. CASE a \notin Reachable
        <4>1. ptr[a] # NoPtr
          BY <2>4 DEF NoPtr
        <4>2. kind[a] \notin {"free", "leaf"}
          BY <4>1 DEF IInv, ObjectsOK
        <4>3. a \notin Nursery
          BY <4>2, <1>1 DEF IInv, NurseryOK
        <4>4. a \in Heap
          BY <4>3, <3>2, <2>2 DEF RootSet
        <4>5. PICK o \in Nursery : nursery_objects_shadows[o] = a
          BY <2>1, <2>4, <3>2, <4>2, <4>4 DEF Objects
        <4>6. forw[o] = NULL
          BY <1>1 DEF IInv, NurseryOK
        <4>7. ptr[a] = NoPtr
          BY <4>4, <4>5, <4>6 DEF IInv, ShadowsOK, ShadowOK
        <4> QED
          BY <4>1, <4>7
      <3> QED
        BY <3>1, <3>2
    <2>5. NULL \notin doomed'
      BY <2>3
    <2>6. \A a \in doomed' : a \notin old_objects_with_cards_set /\ a \notin young_rawmalloced_objects
      BY <1>1 DEF IInv, CardsOK, YoungOK
    <2>7. \A o \in Nursery : forw[o] = NULL
      BY <1>1 DEF IInv, NurseryOK
    <2> QED
      BY <1>1, <1>3, <2>3, <2>4, <2>5, <2>6, <2>7 DEF DoomedOK, HeapSame, Has, IsShadow
  <1> QED
    BY <1>2, <1>4, <1>4a, <1>5, <1>6 DEF IInv, HeapParts

----------------------------------------------------------------------------
(* The program.                                                            *)

LEMMA AllocationSteps ==
    ASSUME IncMinimarkAssumption, IInv, NEW a \in Addr,
           \E k \in Kinds : \/ malloc_fixedsize(a, k)
                           \/ ExternalMallocYoung(a, k) \/ ExternalMallocOld(a, k)
    PROVE  IInv'
  <1> USE Areas
  <1> USE DEF barrier, tracing, raw, sweep, shadows, pinning, stack
  <1>1. PICK k, fl :
          /\ pc = "run" /\ kind[a] = "free" /\ init_gc_object(a, k, fl)
          /\ UNCHANGED raw_malloc_might_sweep /\ k \in Kinds
          /\ \/ UNCHANGED old_rawmalloced_objects
             \/ a \in Heap /\ a \notin young_rawmalloced_objects'
                /\ old_rawmalloced_objects' = old_rawmalloced_objects \cup {a}
          /\ \/ /\ a \in Nursery /\ k # "large" /\ fl = {}
                /\ UNCHANGED young_rawmalloced_objects
             \/ /\ a \in Heap
                /\ fl = IF k = "large" THEN {"HAS_CARDS", "TRACK_YOUNG_PTRS", "CARDS_SET"} ELSE {}
                /\ young_rawmalloced_objects' = young_rawmalloced_objects \cup {a}
             \/ /\ a \in Heap /\ k # "large" /\ fl = {"TRACK_YOUNG_PTRS"}
                /\ UNCHANGED young_rawmalloced_objects
    BY DEF malloc_fixedsize, ExternalMallocYoung, ExternalMallocOld, MallocOld, CanAllocate, IInv,
           YoungOK, Live
  <1>2. k \in {"small", "large", "leaf"} /\ fl \in SUBSET Flag
    BY <1>1 DEF IncMinimarkAssumption, Flag
  <1>3. /\ UNCHANGED <<pc, ptr, card, forw, gc_state, old_objects_pointing_to_young,
                       old_objects_with_cards_set, prebuilt_root_objects, objects_to_trace,
                       more_objects_to_trace, unswept, doomed, nursery_objects_shadows,
                       old_objects_pointing_to_pinned, surviving_pinned_objects,
                       updated_old_objects_pointing_to_pinned, work, stopped>>
        /\ roots' = roots \cup {a}
    BY <1>1 DEF init_gc_object
  <1>4. /\ kind' = [kind EXCEPT ![a] = k] /\ flags' = [flags EXCEPT ![a] = fl]
        /\ kind'[a] = k /\ flags'[a] = fl
        /\ \A b \in Addr : b # a => kind'[b] = kind[b] /\ flags'[b] = flags[b]
    BY <1>1 DEF init_gc_object, IInv, TypeOK
  <1>5. \A b \in Addr : \A f : Has(b, f)' <=> IF b = a THEN f \in fl ELSE Has(b, f)
    BY <1>4 DEF Has
  <1>6. flags[a] = {} /\ card[a] = {} /\ ptr[a] = NoPtr
    BY <1>1 DEF IInv, ObjectsOK
  <1>7. /\ a \notin unswept /\ a \notin raw_malloc_might_sweep /\ a \notin old_rawmalloced_objects
        /\ ~IsShadow(a) /\ a \notin Prebuilt /\ a \notin doomed
    BY <1>1 DEF IInv, SweepOK, IsShadow, ShadowsOK, ShadowOK, PrebuiltOK, DoomedOK
  <1>8. ~Live(a) /\ \A b : Live(b) => b \in Addr /\ b # a
    BY <1>1 DEF Live
  <1>9. \A b : IsShadow(b)' <=> IsShadow(b)
    BY <1>3 DEF IsShadow
  <1>10. \A b : Live(b)' <=> (Live(b) \/ b = a)
    <2>1. \A b \in Addr : b # a => (Condemned(b)' <=> Condemned(b)) /\ (Forgotten(b)' <=> Forgotten(b))
      BY <1>1, <1>3, <1>4, <1>5 DEF Condemned, Forgotten, has_gcptr
    <2>2. \A b \in Addr : b # a => (Live(b)' <=> Live(b))
      BY <2>1, <1>4, <1>9 DEF Live
    <2>3. Live(a)'
      <3>1. ~Condemned(a)'
        BY <1>1, <1>3, <1>7 DEF Condemned
      <3>2. a \in Old => ~Forgotten(a)'
        BY <1>1, <1>5 DEF Forgotten
      <3> QED
        BY <3>1, <3>2, <1>2, <1>4, <1>7, <1>9 DEF Live
    <2> QED
      BY <2>2, <2>3 DEF Live
  <1>11. ~InMinor /\ ~InMinor' /\ ~InMajor /\ ~InMajor' /\ work = {} /\ work' = {}
    BY <1>1, <1>3 DEF InMinor, InMajor, IInv, WorkOK
  <1>12. Marking' <=> Marking
    BY <1>3 DEF Marking
  <1>13. TypeOK'
    BY <1>2, <1>3, <1>4 DEF IInv, TypeOK
  <1>14. ObjectsOK'
    <2>1. ASSUME NEW b \in Addr, b # a
          PROVE  Has(b, "CARDS_SET")' => \/ b \in old_objects_with_cards_set'
                                         \/ /\ b \in young_rawmalloced_objects'
                                            /\ ~Has(b, "VISITED_RMY")' /\ Has(b, "HAS_CARDS")'
      BY <1>1, <1>3, <1>5, <2>1 DEF IInv, ObjectsOK
    <2> QED
      BY <1>1, <1>3, <1>4, <1>5, <1>6, <1>7, <1>11, <2>1 DEF IInv, ObjectsOK
  <1>15. NurseryOK'
    <2>1. \A o \in Nursery : forw[o] = NULL /\ o \notin surviving_pinned_objects
      BY <1>11 DEF IInv, NurseryOK
    <2> QED
      BY <1>1, <1>3, <1>4, <1>5, <1>11, <2>1 DEF IInv, NurseryOK
  <1>16. ShadowsOK'
    <2>1. ASSUME NEW o \in Nursery
          PROVE  nursery_objects_shadows[o] = NULL <=> ~Has(o, "HAS_SHADOW")'
      BY <1>1, <1>5, <1>6 DEF IInv, ShadowsOK, Has
    <2>2. ASSUME NEW o \in Nursery, NEW s \in Heap, s # a, ShadowOK(o, s) PROVE ShadowOK(o, s)'
      <3>1. o # a
        BY <1>1, <2>2 DEF ShadowOK
      <3> QED
        BY <1>1, <1>3, <1>4, <1>5, <1>11, <2>2, <3>1 DEF ShadowOK, Condemned
    <2> QED
      BY <1>3, <1>7, <2>1, <2>2 DEF IInv, ShadowsOK, IsShadow, TypeOK
  <1>17. PrebuiltOK'
    BY <1>3, <1>4, <1>5, <1>7, <1>10 DEF IInv, PrebuiltOK
  <1>18. RootsOK'
    BY <1>3, <1>10 DEF IInv, RootsOK
  <1>19. RememberedOK' /\ CardsOK'
    <2>1. young_rawmalloced_objects \subseteq young_rawmalloced_objects'
      BY <1>1
    <2> QED
      BY <1>3, <1>4, <1>5, <1>8, <1>10, <1>11, <2>1 DEF IInv, RememberedOK, CardsOK, has_gcptr
  <1>20. PinnedOK'
    BY <1>3, <1>4, <1>5, <1>8, <1>10, <1>11 DEF IInv, PinnedOK, has_gcptr
  <1>21. YoungOK'
    <2>1. a \notin old_objects_with_cards_set /\ a \notin old_objects_pointing_to_pinned
          /\ a \notin Traced /\ a \notin old_objects_pointing_to_young
      BY <1>8 DEF IInv, CardsOK, PinnedOK, GrayOK, RememberedOK
    <2>2. a \in young_rawmalloced_objects' =>
             /\ a \in Heap /\ ~Has(a, "VISITED")' /\ ~Has(a, "VISITED_RMY")'
             /\ IF kind'[a] = "large" THEN Has(a, "CARDS_SET")'
                                      ELSE ~Has(a, "TRACK_YOUNG_PTRS")'
      <3>1. a \notin young_rawmalloced_objects
        BY <1>8 DEF IInv, YoungOK
      <3> QED
        BY <1>1, <1>4, <1>5, <3>1
    <2>3. \A b \in young_rawmalloced_objects' :
             b = a \/ (b \in young_rawmalloced_objects /\ b # a /\ b \in Addr)
      BY <1>1, <1>8 DEF IInv, YoungOK
    <2>4. Traced' = Traced
      BY <1>3 DEF Traced
    <2> QED
      BY <1>3, <1>4, <1>5, <1>10, <1>11, <2>1, <2>2, <2>3, <2>4 DEF IInv, YoungOK
  <1>22. SweepOK'
    BY <1>1, <1>3, <1>4, <1>5, <1>7 DEF IInv, SweepOK
  <1>23. ClosedOK'
    BY <1>3, <1>6, <1>10 DEF IInv, ClosedOK, NoPtr
  <1>24. WorkOK' /\ RootsFirst' /\ YoungRootsKnown' /\ RootsMarked'
    BY <1>1, <1>3, <1>11 DEF WorkOK, RootsFirst, YoungRootsKnown, RootsMarked
  <1>25. YoungPointersKnown'
    <2>1. ASSUME NEW b \in Old, NEW i \in Index, Live(b)', ptr'[b][i] \in Young'
          PROVE  \/ b \in old_objects_pointing_to_young \/ i \in card[b]
                 \/ Settled(b, ptr[b][i])' \/ Untouched(b)'
      <3>0. Young' \subseteq Addr
        BY <1>1 DEF Young, IInv, YoungOK
      <3>1. b # a /\ Live(b) /\ ptr[b][i] \in Addr
        BY <2>1, <3>0, <1>3, <1>6, <1>10 DEF NoPtr
      <3>2. ptr[b][i] # a
        BY <3>1, <1>8 DEF IInv, ClosedOK
      <3>3. ptr[b][i] \in Young
        BY <2>1, <3>2, <1>1, <1>3 DEF Young
      <3>4. Untouched(b) => Untouched(b)'
        BY <3>1, <1>1, <1>5 DEF Untouched
      <3>5. Settled(b, ptr[b][i]) => Settled(b, ptr[b][i])'
        BY <3>1, <3>2, <1>3, <1>5, <1>11 DEF Settled
      <3> QED
        BY <3>1, <3>3, <3>4, <3>5, <1>11 DEF IInv, YoungPointersKnown
    <2> QED
      BY <1>3, <2>1 DEF YoungPointersKnown
  <1>26. BlackPointersKnown'
    <2>1. \A b \in Addr : KnownToMarking(b) => KnownToMarking(b)'
      BY <1>3, <1>5, <1>6 DEF KnownToMarking, Traced, Has
    <2>2. ~Has(a, "VISITED")'
      BY <1>1, <1>5
    <2> QED
      BY <1>3, <1>5, <1>10, <1>11, <1>12, <2>1, <2>2 DEF IInv, BlackPointersKnown, ClosedOK, Live
  <1>26a. StoppedOK'
    <2>1. \A b \in Addr : KnownToMarking(b) => KnownToMarking(b)'
      BY <1>3, <1>5, <1>6 DEF KnownToMarking, Traced, Has
    <2>2. \A r \in stopped : r \in Addr /\ r # a
      BY <1>8 DEF IInv, StoppedOK, RootsOK
    <2> QED
      BY <1>1, <1>3, <1>11, <1>12, <2>1, <2>2 DEF IInv, StoppedOK
  <1>27. GrayOK'
    BY <1>1, <1>3, <1>10, <1>12 DEF IInv, GrayOK, Traced
  <1>28. DoomedOK'
    <2>1. \A b \in doomed : b # a /\ b \in Addr
      BY <1>7 DEF IInv, DoomedOK
    <2> QED
      BY <1>1, <1>3, <1>4, <1>5, <1>9, <2>1 DEF IInv, DoomedOK, Traced
  <1> QED
    BY <1>13, <1>14, <1>15, <1>16, <1>17, <1>18, <1>19, <1>20, <1>21, <1>22, <1>23, <1>24,
       <1>25, <1>26, <1>26a, <1>27, <1>28 DEF IInv

LEMMA PinSteps ==
    ASSUME IncMinimarkAssumption, IInv, NEW o \in roots, pin(o) \/ unpin(o)
    PROVE  IInv'
  <1> USE Areas
  <1> USE DEF heap, barrier, tracing, raw, sweep, shadows, pinning, Others, stack
  <1>1. /\ UNCHANGED <<pc, kind, ptr, card, forw, roots, stopped, gc_state, old_objects_pointing_to_young,
                       old_objects_with_cards_set, prebuilt_root_objects, objects_to_trace,
                       more_objects_to_trace, young_rawmalloced_objects,
                       old_rawmalloced_objects, raw_malloc_might_sweep, unswept, doomed,
                       nursery_objects_shadows, old_objects_pointing_to_pinned,
                       surviving_pinned_objects, updated_old_objects_pointing_to_pinned, work>>
        /\ pc = "run" /\ o \in Nursery
    BY DEF pin, unpin
  <1>2. PICK fl : /\ flags' = [flags EXCEPT ![o] = fl]
                  /\ fl \cup {"PINNED"} = flags[o] \cup {"PINNED"}
                  /\ "PINNED" \in fl => kind[o] = "leaf"
    <2>1. CASE pin(o)
      <3>1. /\ flags' = [flags EXCEPT ![o] = (flags[o] \cup {"PINNED"})]
            /\ (flags[o] \cup {"PINNED"}) \cup {"PINNED"} = flags[o] \cup {"PINNED"}
            /\ "PINNED" \in (flags[o] \cup {"PINNED"}) => kind[o] = "leaf"
        BY <2>1 DEF pin, SetFlags, has_gcptr
      <3> QED
        BY <3>1
    <2>2. CASE unpin(o)
      <3>1. /\ flags' = [flags EXCEPT ![o] = (flags[o] \ {"PINNED"})]
            /\ (flags[o] \ {"PINNED"}) \cup {"PINNED"} = flags[o] \cup {"PINNED"}
            /\ "PINNED" \in (flags[o] \ {"PINNED"}) => kind[o] = "leaf"
        BY <2>2 DEF unpin, SetFlags, has_gcptr
      <3> QED
        BY <3>1
    <2> QED
      BY <2>1, <2>2
  <1>3. /\ flags'[o] = fl /\ \A b \in Addr : b # o => flags'[b] = flags[b]
    BY <1>1, <1>2 DEF IInv, TypeOK
  <1>4. /\ \A b \in Addr : \A f : b # o => (Has(b, f)' <=> Has(b, f))
        /\ \A f : f # "PINNED" => (Has(o, f)' <=> Has(o, f))
    BY <1>2, <1>3 DEF Has
  <1>5. \A b : (IsShadow(b)' <=> IsShadow(b))
    BY <1>1 DEF IsShadow
  <1>6. \A b \in Addr : /\ Condemned(b)' <=> Condemned(b)
                        /\ b # o => (Forgotten(b)' <=> Forgotten(b))
    BY <1>1, <1>4 DEF Condemned, Forgotten, has_gcptr
  <1>7. \A b : Live(b)' <=> Live(b)
    BY <1>1, <1>5, <1>6 DEF Live
  <1>8. ~InMinor /\ ~InMinor' /\ ~InMajor /\ ~InMajor' /\ work = {} /\ work' = {}
        /\ (Marking' <=> Marking)
    BY <1>1 DEF InMinor, InMajor, IInv, WorkOK, Marking
  <1>9. TypeOK'
    <2>1. fl \in SUBSET Flag
      BY <1>1, <1>2 DEF IInv, TypeOK, Flag
    <2> QED
      BY <1>1, <1>2, <2>1 DEF IInv, TypeOK
  <1>10. ObjectsOK'
    <2>1. ASSUME NEW b \in Addr, kind[b] = "free" PROVE flags'[b] = {}
      <3>1. b # o
        BY <2>1 DEF IInv, RootsOK, Live
      <3> QED
        BY <1>3, <2>1, <3>1 DEF IInv, ObjectsOK
    <2> QED
      BY <1>1, <1>4, <1>8, <2>1 DEF IInv, ObjectsOK
  <1>11. NurseryOK'
    <2>1. \A n \in Nursery : forw[n] = NULL /\ n \notin surviving_pinned_objects
      BY <1>8 DEF IInv, NurseryOK
    <2>2. fl \subseteq {"PINNED", "HAS_SHADOW", "VISITED"} /\ "VISITED" \notin fl
      BY <1>1, <1>2, <2>1 DEF IInv, NurseryOK, Has
    <2> QED
      BY <1>1, <1>2, <1>3, <1>8, <2>1, <2>2 DEF IInv, NurseryOK, Has
  <1>12. ShadowsOK'
    <2>1. ASSUME NEW n \in Nursery, NEW s \in Heap, ShadowOK(n, s) PROVE ShadowOK(n, s)'
      BY <1>1, <1>4, <1>6, <1>8, <2>1 DEF ShadowOK
    <2> QED
      BY <1>1, <1>4, <2>1 DEF IInv, ShadowsOK, TypeOK
  <1>13. PrebuiltOK' /\ RootsOK'
    BY <1>1, <1>4, <1>7 DEF IInv, PrebuiltOK, RootsOK
  <1>14. RememberedOK' /\ CardsOK' /\ PinnedOK'
    BY <1>1, <1>4, <1>7, <1>8 DEF IInv, RememberedOK, CardsOK, PinnedOK, has_gcptr
  <1>15. YoungOK' /\ SweepOK'
    BY <1>1, <1>4, <1>7, <1>8 DEF IInv, YoungOK, SweepOK, Traced
  <1>16. ClosedOK'
    BY <1>1, <1>7 DEF IInv, ClosedOK
  <1>17. WorkOK' /\ RootsFirst' /\ YoungRootsKnown' /\ RootsMarked'
    BY <1>1, <1>8 DEF WorkOK, RootsFirst, YoungRootsKnown, RootsMarked
  <1>18. YoungPointersKnown'
    <2>1. ASSUME NEW b \in Addr PROVE \A c : Settled(c, b) => Settled(c, b)'
      BY <1>1, <1>4, <1>8 DEF Settled
    <2>2. ASSUME NEW b \in Old, Untouched(b) PROVE Untouched(b)'
      BY <1>1, <1>4, <2>2 DEF Untouched
    <2> QED
      BY <1>1, <1>7, <2>1, <2>2 DEF IInv, YoungPointersKnown, Young, YoungOK
  <1>19. BlackPointersKnown'
    <2>1. \A b \in Addr : KnownToMarking(b) => KnownToMarking(b)'
      BY <1>1, <1>4 DEF KnownToMarking, Traced
    <2> QED
      BY <1>1, <1>4, <1>7, <1>8, <2>1 DEF IInv, BlackPointersKnown, ClosedOK, Live
  <1>19a. StoppedOK'
    <2>1. \A b \in Old : KnownToMarking(b) => KnownToMarking(b)'
      BY <1>1, <1>4 DEF KnownToMarking, Traced
    <2> QED
      BY <1>1, <1>8, <2>1 DEF IInv, StoppedOK
  <1>20. GrayOK'
    BY <1>1, <1>7, <1>8 DEF IInv, GrayOK, Traced
  <1>21. DoomedOK'
    <2>1. \A b \in doomed : b \in Addr /\ b # o
      BY DEF IInv, DoomedOK
    <2> QED
      BY <1>1, <1>4, <1>5, <2>1 DEF IInv, DoomedOK, Traced
  <1> QED
    BY <1>9, <1>10, <1>11, <1>12, <1>13, <1>14, <1>15, <1>16, <1>17, <1>18, <1>19, <1>19a, <1>20, <1>21
       DEF IInv

LEMMA ShadowStep ==
    ASSUME IncMinimarkAssumption, IInv, NEW o \in roots, NEW s \in Heap, _allocate_shadow(o, s)
    PROVE  IInv'
  <1> USE Areas
  <1> USE DEF barrier, tracing, raw, sweep, pinning, stack
  <1>1. /\ UNCHANGED <<pc, ptr, card, forw, roots, stopped, gc_state, old_objects_pointing_to_young,
                       old_objects_with_cards_set, prebuilt_root_objects, objects_to_trace,
                       more_objects_to_trace, young_rawmalloced_objects,
                       raw_malloc_might_sweep, unswept, doomed,
                       old_objects_pointing_to_pinned, surviving_pinned_objects,
                       updated_old_objects_pointing_to_pinned, work>>
        /\ pc = "run" /\ o \in Nursery /\ kind[s] = "free" /\ ~Has(o, "HAS_SHADOW")
        /\ kind' = [kind EXCEPT ![s] = kind[o]]
        /\ flags' = [flags EXCEPT ![s] = flags[o], ![o] = @ \cup {"HAS_SHADOW"}]
        /\ nursery_objects_shadows' = [nursery_objects_shadows EXCEPT ![o] = s]
        /\ old_rawmalloced_objects' \subseteq old_rawmalloced_objects \cup {s}
    BY DEF _allocate_shadow, MallocOld
  <1>2. s # o /\ s \in Addr /\ o \in Addr /\ s \notin Nursery /\ o \notin Old /\ Live(o)
    BY <1>1 DEF IInv, RootsOK
  <1>3. /\ kind'[s] = kind[o] /\ \A b \in Addr : b # s => kind'[b] = kind[b]
        /\ kind[o] # "free" /\ kind[o] # "large"
    BY <1>1, <1>2 DEF IInv, TypeOK, NurseryOK, Live
  <1>4. /\ flags'[s] = flags[o] /\ flags'[o] = flags[o] \cup {"HAS_SHADOW"}
        /\ \A b \in Addr : b \notin {s, o} => flags'[b] = flags[b]
    BY <1>1, <1>2 DEF IInv, TypeOK
  <1>5. /\ \A b \in Addr : \A f : b \notin {s, o} => (Has(b, f)' <=> Has(b, f))
        /\ \A f : f # "HAS_SHADOW" => (Has(o, f)' <=> Has(o, f))
        /\ Has(o, "HAS_SHADOW")'
        /\ \A f : Has(s, f)' <=> Has(o, f)
    BY <1>4 DEF Has
  <1>6. flags[s] = {} /\ card[s] = {} /\ ptr[s] = NoPtr /\ ~Live(s)
    BY <1>1, <1>2 DEF IInv, ObjectsOK, Live
  <1>7. /\ s \notin unswept /\ s \notin raw_malloc_might_sweep /\ s \notin old_rawmalloced_objects
        /\ ~IsShadow(s) /\ s \notin Prebuilt /\ s \notin doomed /\ s \notin roots
        /\ s \notin young_rawmalloced_objects
    BY <1>1, <1>6 DEF IInv, SweepOK, IsShadow, ShadowsOK, ShadowOK, PrebuiltOK, DoomedOK,
                      RootsOK, YoungOK
  <1>8. ~InMinor /\ ~InMinor' /\ ~InMajor /\ ~InMajor' /\ work = {} /\ work' = {}
        /\ (Marking' <=> Marking)
    BY <1>1 DEF InMinor, InMajor, IInv, WorkOK, Marking
  <1>9. \A n \in Nursery : /\ forw[n] = NULL /\ n \notin surviving_pinned_objects
                           /\ nursery_objects_shadows'[n] = IF n = o THEN s
                                                            ELSE nursery_objects_shadows[n]
    BY <1>1, <1>8 DEF IInv, NurseryOK, TypeOK
  <1>10. nursery_objects_shadows[o] = NULL
    BY <1>1 DEF IInv, ShadowsOK
  <1>11. \A b \in Addr : IsShadow(b)' <=> (IsShadow(b) \/ b = s)
    BY <1>1, <1>9, <1>10 DEF IsShadow
  <1>12. \A b \in Addr : b # s => (Condemned(b)' <=> Condemned(b))
    BY <1>1, <1>5 DEF Condemned
  <1>13. \A b \in Old : b # s => (Forgotten(b)' <=> Forgotten(b))
    BY <1>1, <1>2, <1>3, <1>5 DEF Forgotten, has_gcptr
  <1>14. \A b : Live(b)' <=> Live(b)
    BY <1>2, <1>3, <1>6, <1>11, <1>12, <1>13 DEF Live
  <1>15. TypeOK'
    <2>1. flags'[s] \in SUBSET Flag /\ flags'[o] \in SUBSET Flag
      BY <1>2, <1>4 DEF IInv, TypeOK, Flag
    <2>2. flags' \in [Addr -> SUBSET Flag]
      BY <1>1, <1>2, <1>4, <2>1 DEF IInv, TypeOK
    <2>3. kind' \in [Addr -> {"free", "small", "large", "leaf"}]
      BY <1>1, <1>2 DEF IInv, TypeOK
    <2> QED
      BY <1>1, <2>2, <2>3 DEF IInv, TypeOK
  <1>16. ObjectsOK'
    <2>1. ASSUME NEW b \in Addr, b # s, kind[b] = "free" PROVE flags'[b] = {}
      <3>1. b # o
        BY <2>1, <1>3
      <3> QED
        BY <1>4, <2>1, <3>1 DEF IInv, ObjectsOK
    <2>2. flags[o] \subseteq {"PINNED", "HAS_SHADOW", "VISITED"} /\ ~Has(o, "VISITED")
      BY <1>1, <1>9 DEF IInv, NurseryOK
    <2>3. \A f \in {"HAS_CARDS", "TRACK_YOUNG_PTRS", "CARDS_SET", "NO_HEAP_PTRS", "VISITED_RMY"} :
             ~Has(o, f) /\ ~Has(s, f)'
      BY <1>5, <2>2 DEF Has
    <2>4. \A f \in {"HAS_CARDS", "TRACK_YOUNG_PTRS", "CARDS_SET", "NO_HEAP_PTRS", "VISITED_RMY",
                    "VISITED"} : \A b \in Addr : b # s => (Has(b, f)' <=> Has(b, f))
      BY <1>5
    <2> QED
      BY <1>1, <1>3, <1>6, <1>8, <2>1, <2>3, <2>4, ZenonT(30) DEF IInv, ObjectsOK
  <1>17. NurseryOK'
    <2>1. \A n \in Nursery : n # s /\ kind'[n] = kind[n] /\ (Has(n, "PINNED")' <=> Has(n, "PINNED"))
                             /\ (Has(n, "VISITED")' <=> Has(n, "VISITED"))
      BY <1>2, <1>3, <1>5
    <2>2. \A n \in Nursery : flags'[n] \subseteq {"PINNED", "HAS_SHADOW", "VISITED"}
      BY <1>2, <1>4 DEF IInv, NurseryOK
    <2> QED
      BY <1>1, <1>8, <1>9, <2>1, <2>2 DEF IInv, NurseryOK
  <1>18. ShadowsOK'
    <2>1. ASSUME NEW n \in Nursery, NEW z \in Heap, z # s, ShadowOK(n, z) PROVE ShadowOK(n, z)'
      BY <1>1, <1>2, <1>3, <1>5, <1>8, <1>12, <2>1 DEF ShadowOK
    <2>2. ShadowOK(o, s)'
      <3>1. ~Has(o, "TRACK_YOUNG_PTRS") /\ ~Has(o, "VISITED")
        BY <1>1, <1>9 DEF IInv, NurseryOK, Has
      <3> QED
        BY <1>1, <1>2, <1>3, <1>5, <1>6, <1>7, <1>8, <3>1 DEF ShadowOK, Condemned
    <2>3. \A n \in Nursery : n # o => /\ nursery_objects_shadows'[n] = nursery_objects_shadows[n]
                                      /\ nursery_objects_shadows[n] # s
      BY <1>7, <1>9 DEF IsShadow
    <2>4. nursery_objects_shadows'[o] = s
      BY <1>1, <1>9
    <2>5. \A n \in Nursery : nursery_objects_shadows'[n] = NULL <=> ~Has(n, "HAS_SHADOW")'
      BY <1>2, <1>5, <2>3, <2>4 DEF IInv, ShadowsOK
    <2>7. ASSUME NEW n \in Nursery, (nursery_objects_shadows[n] # NULL)'
          PROVE  ShadowOK(n, nursery_objects_shadows[n])'
      <3>1. CASE n = o
        BY <2>2, <2>4, <3>1
      <3>2. CASE n # o
        <4>1. ShadowOK(n, nursery_objects_shadows[n])
          BY <1>9, <2>3, <2>7, <3>2 DEF IInv, ShadowsOK
        <4>2. nursery_objects_shadows[n] \in Heap \ {s}
          BY <2>3, <2>7, <3>2 DEF IInv, TypeOK
        <4> QED
          BY <2>1, <2>3, <3>2, <4>1, <4>2
      <3> QED
        BY <3>1, <3>2
    <2>6. \A n, m \in Nursery :
             nursery_objects_shadows'[n] = nursery_objects_shadows'[m] =>
                n = m \/ nursery_objects_shadows'[n] = NULL
      BY <2>3, <2>4 DEF IInv, ShadowsOK
    <2> QED
      BY <2>5, <2>6, <2>7 DEF ShadowsOK
  <1>19. PrebuiltOK' /\ RootsOK'
    BY <1>1, <1>2, <1>3, <1>5, <1>7, <1>14 DEF IInv, PrebuiltOK, RootsOK
  <1>20. RememberedOK' /\ CardsOK'
    BY <1>1, <1>2, <1>3, <1>5, <1>6, <1>8, <1>14 DEF IInv, RememberedOK, CardsOK, has_gcptr
  <1>21. PinnedOK'
    BY <1>1, <1>2, <1>3, <1>5, <1>6, <1>8, <1>14 DEF IInv, PinnedOK, has_gcptr
  <1>22. YoungOK'
    BY <1>1, <1>2, <1>3, <1>5, <1>7, <1>8, <1>14 DEF IInv, YoungOK, Traced
  <1>23. SweepOK'
    <2>1. ~Has(s, "VISITED")'
      BY <1>1, <1>5, <1>9 DEF IInv, NurseryOK
    <2>2. \A b \in Heap : b # s => kind'[b] = kind[b]
      BY <1>3
    <2>3. \A b \in Old : Has(b, "VISITED")' => Has(b, "VISITED")
      BY <1>2, <1>5, <2>1
    <2>4. kind'[s] # "free" /\ UNCHANGED <<unswept, raw_malloc_might_sweep, gc_state,
                                            young_rawmalloced_objects, prebuilt_root_objects>>
      BY <1>1, <1>3
    <2> QED
      BY <1>1, <1>7, <2>2, <2>3, <2>4 DEF IInv, SweepOK
  <1>24. ClosedOK'
    BY <1>1, <1>14 DEF IInv, ClosedOK
  <1>25. WorkOK' /\ RootsFirst' /\ YoungRootsKnown' /\ RootsMarked'
    BY <1>1, <1>8 DEF WorkOK, RootsFirst, YoungRootsKnown, RootsMarked
  <1>26. YoungPointersKnown'
    <2>1. ASSUME NEW b \in Addr, b # s PROVE \A c : Settled(c, b) => Settled(c, b)'
      BY <1>1, <1>2, <1>5, <1>8, <2>1 DEF Settled
    <2>2. \A b \in Young : b # s /\ b \in Addr
      BY <1>2, <1>7 DEF Young, IInv, YoungOK
    <2>3. ASSUME NEW b \in Old, Untouched(b) PROVE Untouched(b)'
      BY <1>1, <1>2, <1>5, <1>7, <2>3 DEF Untouched
    <2> QED
      BY <1>1, <1>14, <2>1, <2>2, <2>3 DEF IInv, YoungPointersKnown, Young
  <1>27. BlackPointersKnown'
    <2>1. \A b \in Addr : b # s /\ KnownToMarking(b) => KnownToMarking(b)'
      BY <1>1, <1>2, <1>5 DEF KnownToMarking, Traced
    <2> QED
      BY <1>1, <1>2, <1>5, <1>6, <1>8, <1>14, <2>1 DEF IInv, BlackPointersKnown, ClosedOK, Live
  <1>27a. StoppedOK'
    <2>1. \A b \in Old : b # s /\ KnownToMarking(b) => KnownToMarking(b)'
      BY <1>1, <1>2, <1>5 DEF KnownToMarking, Traced
    <2>2. s \notin stopped
      BY <1>7 DEF IInv, StoppedOK
    <2> QED
      BY <1>1, <1>8, <2>1, <2>2 DEF IInv, StoppedOK
  <1>28. GrayOK'
    BY <1>1, <1>8, <1>14 DEF IInv, GrayOK, Traced
  <1>29. DoomedOK'
    <2>1. \A b \in doomed : b \in Addr /\ b # s /\ b # o
      BY <1>2, <1>7 DEF IInv, DoomedOK
    <2> QED
      BY <1>1, <1>3, <1>5, <1>11, <2>1 DEF IInv, DoomedOK, Traced
  <1> QED
    BY <1>15, <1>16, <1>17, <1>18, <1>19, <1>20, <1>21, <1>22, <1>23, <1>24, <1>25, <1>26,
       <1>27, <1>27a, <1>28, <1>29 DEF IInv

(* The pointers of d become q.  The barrier is right when it remembers d,  *)
(* or notes the card, for each pointer that is new, unless the pointer is  *)
(* to an old object and no marking is going on.                            *)
Suffices(d, q, R, P, C, cards) ==
    /\ d \in Known /\ has_gcptr(d) /\ q \in [Index -> Addr \cup {NULL}]
    /\ R \in SUBSET Old /\ P \in SUBSET Prebuilt /\ C \in SUBSET {d}
    /\ \A a \in R : Live(a) /\ Has(a, "TRACK_YOUNG_PTRS") /\ has_gcptr(a) /\ kind[a] # "large"
    /\ cards \in [Addr -> SUBSET Index]
    /\ \A a \in Addr : a # d => cards[a] = card[a]
    /\ card[d] \subseteq cards[d]
    /\ cards[d] # {} => Has(d, "CARDS_SET") \/ d \in C
    /\ d \in C => kind[d] = "large"
    /\ \A i \in Index : q[i] # NULL => Live(q[i]) /\ q[i] \notin doomed
    /\ Has(d, "NO_HEAP_PTRS") /\ d \notin R \cup P => q = NoPtr
    /\ \A i \in Index : \/ q[i] = ptr[d][i] \/ d \in R
                        \/ d \in old_objects_pointing_to_young \/ d \in Nursery \/ Untouched(d)
                        \/ i \in cards[d] \/ (q[i] \notin Young /\ ~Marking)

LEMMA Written ==
    ASSUME IncMinimarkAssumption, IInv, pc = "run",
           NEW d, NEW q, NEW R, NEW P, NEW C, NEW cards,
           Suffices(d, q, R, P, C, cards),
           Barrier(R, P, C, cards), ptr' = [ptr EXCEPT ![d] = q], UNCHANGED Others,
           UNCHANGED <<old_objects_pointing_to_pinned, surviving_pinned_objects>>,
           updated_old_objects_pointing_to_pinned' \in BOOLEAN,
           \A a \in old_objects_pointing_to_pinned :
              \/ updated_old_objects_pointing_to_pinned'
              \/ a \in R \/ ~Has(a, "TRACK_YOUNG_PTRS")
    PROVE  IInv'
  <1> SUFFICES
        ASSUME d \in Known, has_gcptr(d), q \in [Index -> Addr \cup {NULL}],
               R \in SUBSET Old, P \in SUBSET Prebuilt, C \in SUBSET {d},
               \A a \in R : Live(a) /\ Has(a, "TRACK_YOUNG_PTRS") /\ has_gcptr(a)
                            /\ kind[a] # "large",
               cards \in [Addr -> SUBSET Index],
               \A a \in Addr : a # d => cards[a] = card[a],
               card[d] \subseteq cards[d],
               cards[d] # {} => Has(d, "CARDS_SET") \/ d \in C,
               d \in C => kind[d] = "large",
               \A i \in Index : q[i] # NULL => Live(q[i]) /\ q[i] \notin doomed,
               Has(d, "NO_HEAP_PTRS") /\ d \notin R \cup P => q = NoPtr,
               \A i \in Index : \/ q[i] = ptr[d][i] \/ d \in R
                                \/ d \in old_objects_pointing_to_young \/ d \in Nursery
                                \/ Untouched(d)
                                \/ i \in cards[d] \/ (q[i] \notin Young /\ ~Marking)
        PROVE  IInv'
    BY DEF Suffices
  <1> USE Areas
  <1> USE DEF tracing, raw, sweep, shadows, Others, stack
  <1>1. /\ UNCHANGED <<pc, kind, forw, roots, stopped, gc_state, objects_to_trace,
                       more_objects_to_trace, young_rawmalloced_objects,
                       old_rawmalloced_objects, raw_malloc_might_sweep, unswept, doomed,
                       nursery_objects_shadows, work>>
        /\ card' = cards
        /\ old_objects_pointing_to_young' = old_objects_pointing_to_young \cup R
        /\ old_objects_with_cards_set' =
             old_objects_with_cards_set \cup {a \in C : ~Has(a, "CARDS_SET")}
        /\ prebuilt_root_objects' =
             prebuilt_root_objects \cup {a \in R \cup P : Has(a, "NO_HEAP_PTRS")}
        /\ flags' = [a \in Addr |->
             (flags[a] \ ((IF a \in R THEN {"TRACK_YOUNG_PTRS"} ELSE {})
                          \cup (IF a \in R \cup P THEN {"NO_HEAP_PTRS"} ELSE {})))
             \cup (IF a \in C THEN {"CARDS_SET"} ELSE {})]
    BY DEF Barrier
  <1>2. Live(d) /\ d \in Addr /\ d \notin doomed
    BY DEF Known, IInv, RootsOK, PrebuiltOK, Live, DoomedOK
  <1>3. ptr'[d] = q /\ \A b \in Addr : b # d => ptr'[b] = ptr[b]
    BY <1>2 DEF IInv, TypeOK
  <1>4. /\ \A b \in Addr : Has(b, "TRACK_YOUNG_PTRS")' <=> (Has(b, "TRACK_YOUNG_PTRS") /\ b \notin R)
        /\ \A b \in Addr : Has(b, "NO_HEAP_PTRS")' <=> (Has(b, "NO_HEAP_PTRS") /\ b \notin R \cup P)
        /\ \A b \in Addr : Has(b, "CARDS_SET")' <=> (Has(b, "CARDS_SET") \/ b \in C)
    BY <1>1 DEF Has
  <1>5. \A b \in Addr : \A f \in {"VISITED", "VISITED_RMY", "PINNED", "HAS_CARDS", "HAS_SHADOW"} :
           Has(b, f)' <=> Has(b, f)
    BY <1>1 DEF Has
  <1>6. \A b : IsShadow(b)' <=> IsShadow(b)
    BY <1>1 DEF IsShadow
  <1>7. \A b \in Addr : Condemned(b)' <=> Condemned(b)
    BY <1>1, <1>5 DEF Condemned
  <1>8. \A b \in Old : Forgotten(b)' <=> Forgotten(b)
    BY <1>1, <1>4, <1>5 DEF Forgotten, has_gcptr
  <1>9. \A b : Live(b)' <=> Live(b)
    BY <1>1, <1>6, <1>7, <1>8 DEF Live
  <1>10. ~InMinor /\ ~InMinor' /\ ~InMajor /\ ~InMajor' /\ work = {} /\ work' = {}
         /\ (Marking' <=> Marking)
    BY <1>1 DEF InMinor, InMajor, IInv, WorkOK, Marking
  <1>11. TypeOK'
    <2>1. flags' \in [Addr -> SUBSET Flag]
      BY <1>1 DEF IInv, TypeOK, Flag
    <2>2. ptr' \in [Addr -> [Index -> Addr \cup {NULL}]]
      BY DEF IInv, TypeOK
    <2>3. prebuilt_root_objects' \subseteq Prebuilt
      BY <1>1 DEF IInv, TypeOK, ObjectsOK
    <2> QED
      BY <1>1, <2>1, <2>2, <2>3 DEF IInv, TypeOK
  <1>12. ObjectsOK'
    <2>1. \A b \in Addr : kind[b] = "free" =>
             flags'[b] = {} /\ cards[b] = {} /\ ptr'[b] = NoPtr
      <3>1. ASSUME NEW b \in Addr, kind[b] = "free"
            PROVE  flags'[b] = {} /\ cards[b] = {} /\ ptr'[b] = NoPtr
        <4>1. b # d
          BY <1>2, <3>1 DEF Live
        <4> QED
          BY <1>1, <1>3, <3>1, <4>1 DEF IInv, ObjectsOK
      <3> QED
        BY <3>1
    <2>2. \A b \in Addr : /\ kind[b] = "leaf" => ptr'[b] = NoPtr
                          /\ kind[b] = "large" =>
                                /\ "large" \in Kinds
                                /\ Has(b, "HAS_CARDS")' /\ Has(b, "TRACK_YOUNG_PTRS")'
                          /\ Has(b, "HAS_CARDS")' => kind[b] = "large"
      BY <1>3, <1>4, <1>5 DEF IInv, ObjectsOK, has_gcptr
    <2>3. \A b \in Addr : cards[b] # {} => Has(b, "CARDS_SET")'
      BY <1>4 DEF IInv, ObjectsOK
    <2>4. \A b \in Addr : Has(b, "CARDS_SET")' =>
             \/ b \in old_objects_with_cards_set'
             \/ /\ b \in young_rawmalloced_objects' /\ ~Has(b, "VISITED_RMY")'
                /\ Has(b, "HAS_CARDS")'
      BY <1>1, <1>4, <1>5 DEF IInv, ObjectsOK
    <2>5. \A b \in Addr : Has(b, "NO_HEAP_PTRS")' =>
             /\ b \in Prebuilt /\ ptr'[b] = NoPtr
             /\ ~Has(b, "VISITED")' /\ Has(b, "TRACK_YOUNG_PTRS")'
      BY <1>3, <1>4, <1>5 DEF IInv, ObjectsOK
    <2>6. \A b \in Addr : ~Has(b, "VISITED_RMY")'
      BY <1>5, <1>10 DEF IInv, ObjectsOK
    <2> QED
      BY <1>1, <2>1, <2>2, <2>3, <2>4, <2>5, <2>6 DEF ObjectsOK
  <1>13. NurseryOK'
    <2>1. \A o \in Nursery : forw[o] = NULL /\ o \notin surviving_pinned_objects
      BY <1>10 DEF IInv, NurseryOK
    <2>2. ASSUME NEW o \in Nursery PROVE flags'[o] = flags[o]
      <3>1. o \notin R \cup P \cup C
        <4>1. o \in C => kind[o] = "large"
          BY DEF IInv
        <4> QED
          BY <4>1 DEF IInv, NurseryOK
      <3>2. o \in Addr
        OBVIOUS
      <3>3. flags'[o] = (flags[o] \ ({} \cup {})) \cup {}
        BY <1>1, <3>1, <3>2
      <3> QED
        BY <3>3
    <2> QED
      BY <1>1, <1>10, <2>1, <2>2 DEF IInv, NurseryOK, Has
  <1>14. ShadowsOK'
    <2>1. ASSUME NEW o \in Nursery, NEW s \in Heap, ShadowOK(o, s), IsShadow(s) PROVE ShadowOK(o, s)'
      <3>1. s # d
        BY <1>2, <2>1 DEF Live
      <3> QED
        BY <1>1, <1>3, <1>4, <1>5, <1>7, <1>10, <2>1, <3>1 DEF ShadowOK
    <2> QED
      BY <1>1, <1>5, <2>1 DEF IInv, ShadowsOK, TypeOK, IsShadow
  <1>15. PrebuiltOK' /\ RootsOK'
    BY <1>1, <1>4, <1>9 DEF IInv, PrebuiltOK, RootsOK
  <1>16. RememberedOK'
    BY <1>1, <1>4, <1>9, <1>10 DEF IInv, RememberedOK, has_gcptr
  <1>17. CardsOK'
    <2>1. d \in C => d \in Old /\ Has(d, "HAS_CARDS")
      BY <1>2 DEF IInv, ObjectsOK, NurseryOK
    <2> QED
      BY <1>1, <1>2, <1>4, <1>5, <1>9, <1>10, <2>1 DEF IInv, CardsOK
  <1>18. PinnedOK'
    BY <1>1, <1>4, <1>5, <1>9, <1>10 DEF IInv, PinnedOK, has_gcptr
  <1>19. YoungOK'
    <2>1. \A a \in young_rawmalloced_objects :
             a \in Addr /\ a \notin R /\ ~Has(a, "VISITED_RMY") /\ (a \in C => Has(a, "CARDS_SET"))
      BY <1>10 DEF IInv, YoungOK, ObjectsOK
    <2> QED
      BY <1>1, <1>4, <1>5, <1>9, <1>10, <2>1 DEF IInv, YoungOK, Traced
  <1>20. SweepOK'
    <2>1. \A b \in Old : Has(b, "VISITED")' <=> Has(b, "VISITED")
      BY <1>5
    <2> QED
      BY <1>1, <2>1 DEF IInv, SweepOK
  <1>21. ClosedOK'
    BY <1>3, <1>9 DEF IInv, ClosedOK
  <1>22. WorkOK' /\ RootsFirst' /\ YoungRootsKnown' /\ RootsMarked'
    BY <1>1, <1>10 DEF WorkOK, RootsFirst, YoungRootsKnown, RootsMarked
  <1>23. YoungPointersKnown'
    <2>1. ASSUME NEW b \in Young PROVE \A c : Settled(c, b) => Settled(c, b)'
      <3>1. b \in Addr
        BY DEF Young, IInv, YoungOK
      <3> QED
        BY <1>1, <1>5, <1>10, <3>1 DEF Settled
    <2>2. ASSUME NEW b \in Old, NEW i \in Index, Live(b), ptr'[b][i] \in Young
          PROVE  \/ b \in old_objects_pointing_to_young' \/ i \in cards[b]
                 \/ Settled(b, ptr'[b][i]) \/ Untouched(b)
      <3>1. CASE ptr'[b][i] = ptr[b][i]
        <4>1. card[b] \subseteq cards[b]
          OBVIOUS
        <4> QED
          BY <1>1, <1>10, <2>2, <3>1, <4>1 DEF IInv, YoungPointersKnown
      <3>2. CASE ptr'[b][i] # ptr[b][i]
        <4>1. b = d
          BY <1>3, <3>2
        <4> QED
          BY <1>1, <1>3, <2>2, <3>2, <4>1
      <3> QED
        BY <3>1, <3>2
    <2>3. Young' = Young
      BY <1>1 DEF Young
    <2>4. ASSUME NEW b \in Old, Untouched(b) PROVE Untouched(b)'
      BY <1>1, <1>4, <1>5, <2>4 DEF Untouched
    <2> QED
      BY <1>1, <1>9, <2>1, <2>2, <2>3, <2>4 DEF YoungPointersKnown
  <1>24. BlackPointersKnown'
    <2>1. \A b \in Addr : KnownToMarking(b) => KnownToMarking(b)'
      BY <1>1, <1>4, <1>5 DEF KnownToMarking, Traced
    <2>2. ASSUME Marking, NEW b \in Old, NEW i \in Index, Live(b), Has(b, "VISITED"),
                 ptr'[b][i] # NULL
          PROVE  \/ KnownToMarking(ptr'[b][i]) \/ i \in cards[b]
                 \/ b \in old_objects_pointing_to_young'
                 \/ ptr'[b][i] \in Nursery /\ b \in old_objects_pointing_to_pinned
      <3>1. CASE ptr'[b][i] = ptr[b][i]
        <4>1. card[b] \subseteq cards[b]
          OBVIOUS
        <4> QED
          BY <1>1, <2>2, <3>1, <4>1 DEF IInv, BlackPointersKnown
      <3>2. CASE ptr'[b][i] # ptr[b][i]
        <4>1. b = d
          BY <1>3, <3>2
        <4>2. ~Untouched(b)
          BY <2>2 DEF Untouched, IInv, YoungOK
        <4> QED
          BY <1>1, <1>3, <2>2, <3>2, <4>1, <4>2
      <3> QED
        BY <3>1, <3>2
    <2>3. \A b \in Old : \A i \in Index : ptr'[b][i] # NULL /\ Live(b) => ptr'[b][i] \in Addr
      BY <1>9, <1>21 DEF ClosedOK, Live
    <2> QED
      BY <1>1, <1>5, <1>9, <1>10, <2>1, <2>2, <2>3 DEF BlackPointersKnown
  <1>24a. StoppedOK'
    <2>1. \A b \in Old : KnownToMarking(b) => KnownToMarking(b)'
      BY <1>1, <1>4, <1>5 DEF KnownToMarking, Traced
    <2> QED
      BY <1>1, <1>10, <2>1 DEF IInv, StoppedOK
  <1>25. GrayOK'
    BY <1>1, <1>9, <1>10 DEF IInv, GrayOK, Traced
  <1>26. DoomedOK'
    <2>1. \A b \in doomed : b \in Addr
      BY DEF IInv, DoomedOK
    <2>2. \A b \in Addr : \A i \in Index : b \notin doomed => ptr'[b][i] \notin doomed
      BY <1>3, <2>1 DEF IInv, DoomedOK
    <2> QED
      BY <1>1, <1>2, <1>5, <1>6, <2>1, <2>2 DEF IInv, DoomedOK, Traced
  <1> QED
    BY <1>11, <1>12, <1>13, <1>14, <1>15, <1>16, <1>17, <1>18, <1>19, <1>20, <1>21, <1>22,
       <1>23, <1>24, <1>24a, <1>25, <1>26 DEF IInv

LEMMA Untracked ==
    ASSUME IncMinimarkAssumption, IInv, NEW a, Live(a), has_gcptr(a),
           ~Has(a, "TRACK_YOUNG_PTRS")
    PROVE  \/ a \in Nursery \/ a \in old_objects_pointing_to_young
           \/ pc = "run" => Untouched(a)
  BY Areas DEF Live, Forgotten, Untouched, IInv, ObjectsOK, InMinor

LEMMA FieldStep ==
    ASSUME IncMinimarkAssumption, IInv, NEW a \in Known, NEW i \in Index,
           NEW v \in Known \cup {NULL}, SetField(a, i, v)
    PROVE  IInv'
  <1> DEFINE q == [ptr[a] EXCEPT ![i] = v]
             R == Tracked({a})
  <1> USE Areas
  <1>1. Live(a) /\ a \in Addr /\ a \notin doomed
    BY DEF Known, IInv, RootsOK, PrebuiltOK, Live, DoomedOK
  <1>2. v # NULL => Live(v) /\ v \in Addr /\ v \notin doomed
    BY DEF Known, IInv, RootsOK, PrebuiltOK, Live, DoomedOK
  <1>3. /\ pc = "run" /\ kind[a] = "small" /\ Barrier(R, {}, {}, card)
        /\ ptr' = [ptr EXCEPT ![a] = q] /\ UNCHANGED Others /\ UNCHANGED pinning
    BY <1>1 DEF SetField, Write, write_barrier, IInv, TypeOK
  <1>4. q \in [Index -> Addr \cup {NULL}]
        /\ \A j \in Index : q[j] # NULL => Live(q[j]) /\ q[j] \notin doomed
    BY <1>1, <1>2 DEF IInv, TypeOK, ClosedOK, DoomedOK
  <1>5. a \in R <=> Has(a, "TRACK_YOUNG_PTRS")
    BY DEF Tracked
  <1>6. Has(a, "TRACK_YOUNG_PTRS") => a \notin Nursery
    BY DEF IInv, NurseryOK, Has
  <1>7. R \in SUBSET Old /\ \A b \in R : /\ Live(b) /\ Has(b, "TRACK_YOUNG_PTRS") /\ has_gcptr(b)
                                         /\ kind[b] # "large"
    BY <1>1, <1>3, <1>6 DEF Tracked, has_gcptr
  <1>8. a \in R \/ a \in Nursery \/ a \in old_objects_pointing_to_young \/ Untouched(a)
    BY <1>1, <1>3, <1>5, Untracked DEF has_gcptr
  <1>9. Has(a, "NO_HEAP_PTRS") => a \in R
    BY <1>1, <1>5 DEF IInv, ObjectsOK
  <1>10. card \in [Addr -> SUBSET Index] /\ (card[a] # {} => Has(a, "CARDS_SET"))
    BY <1>1 DEF IInv, TypeOK, ObjectsOK
  <1>11. /\ UNCHANGED <<old_objects_pointing_to_pinned, surviving_pinned_objects>>
         /\ updated_old_objects_pointing_to_pinned' \in BOOLEAN
         /\ \A b \in old_objects_pointing_to_pinned :
               updated_old_objects_pointing_to_pinned' \/ ~Has(b, "TRACK_YOUNG_PTRS")
    BY <1>3 DEF pinning, IInv, TypeOK, PinnedOK
  <1>12. has_gcptr(a) /\ {} \in SUBSET Prebuilt /\ {} \in SUBSET {a}
    BY <1>3 DEF has_gcptr
  <1> HIDE DEF q, R
  <1>13. Suffices(a, q, R, {}, {}, card)
    BY <1>4, <1>7, <1>8, <1>9, <1>10, <1>12 DEF Suffices
  <1> QED
    BY <1>3, <1>11, <1>13, Written

LEMMA ArrayStep ==
    ASSUME IncMinimarkAssumption, IInv, NEW a \in Known, NEW i \in Index,
           NEW v \in Known \cup {NULL}, SetArrayItem(a, i, v)
    PROVE  IInv'
  <1> DEFINE q == [ptr[a] EXCEPT ![i] = v]
             C == IF {i} \subseteq card[a] THEN {} ELSE {a}
             cards == [card EXCEPT ![a] = @ \cup {i}]
  <1> USE Areas
  <1>1. Live(a) /\ a \in Addr /\ a \notin doomed
    BY DEF Known, IInv, RootsOK, PrebuiltOK, Live, DoomedOK
  <1>2. v # NULL => Live(v) /\ v \in Addr /\ v \notin doomed
    BY DEF Known, IInv, RootsOK, PrebuiltOK, Live, DoomedOK
  <1>3. /\ pc = "run" /\ kind[a] = "large" /\ write_barrier_from_array(a, i)
        /\ ptr' = [ptr EXCEPT ![a] = q] /\ UNCHANGED Others /\ UNCHANGED pinning
    BY <1>1 DEF SetArrayItem, Write, IInv, TypeOK
  <1>4. Has(a, "TRACK_YOUNG_PTRS") /\ Has(a, "HAS_CARDS") /\ ~Has(a, "NO_HEAP_PTRS")
    BY <1>1, <1>3 DEF IInv, ObjectsOK, PrebuiltOK
  <1>5. Barrier({}, {}, C, cards)
    BY <1>3, <1>4 DEF write_barrier_from_array, ItemBarriers
  <1>6. q \in [Index -> Addr \cup {NULL}]
        /\ \A j \in Index : /\ q[j] # NULL => Live(q[j]) /\ q[j] \notin doomed
                            /\ q[j] = ptr[a][j] \/ j = i
    BY <1>1, <1>2 DEF IInv, TypeOK, ClosedOK, DoomedOK
  <1>7. /\ cards \in [Addr -> SUBSET Index] /\ \A b \in Addr : b # a => cards[b] = card[b]
        /\ card[a] \subseteq cards[a] /\ i \in cards[a]
    BY <1>1 DEF IInv, TypeOK
  <1>8. a \in C \/ Has(a, "CARDS_SET")
    BY <1>1 DEF IInv, ObjectsOK
  <1>9. /\ UNCHANGED <<old_objects_pointing_to_pinned, surviving_pinned_objects>>
        /\ updated_old_objects_pointing_to_pinned' \in BOOLEAN
        /\ \A b \in old_objects_pointing_to_pinned :
              updated_old_objects_pointing_to_pinned' \/ ~Has(b, "TRACK_YOUNG_PTRS")
    BY <1>3 DEF pinning, IInv, TypeOK, PinnedOK
  <1>10. has_gcptr(a) /\ {} \in SUBSET Prebuilt /\ {} \in SUBSET Old /\ C \in SUBSET {a}
    BY <1>3 DEF has_gcptr
  <1> HIDE DEF q, C, cards
  <1>11. Suffices(a, q, {}, {}, C, cards)
    BY <1>3, <1>4, <1>6, <1>7, <1>8, <1>10 DEF Suffices
  <1> QED
    BY <1>3, <1>5, <1>9, <1>11, Written

LEMMA CopyStep ==
    ASSUME IncMinimarkAssumption, NoCardCopies, copies \in Nat, IInv, NEW s \in Known,
           NEW d \in Known, NEW from \in Index, NEW to \in Index, NEW n \in Index,
           ll_arraycopy(s, d, from, to, n)
    PROVE  IInv'
  <1> DEFINE I == from..(from + n - 1)
             J == to..(to + n - 1)
             q == [i \in Index |-> IF i \in J THEN ptr[s][i - to + from] ELSE ptr[d][i]]
             known == IF updated_old_objects_pointing_to_pinned
                        THEN Tracked(old_objects_pointing_to_pinned) ELSE {}
             tracked(a) == Has(a, "TRACK_YOUNG_PTRS") /\ a \notin known
             noHeap(a) == Has(a, "NO_HEAP_PTRS") /\ a \notin known
             R == IF tracked(d) /\ (~tracked(s) \/ Marking) THEN known \cup {d} ELSE known
             P == IF tracked(d) /\ noHeap(d) /\ ~noHeap(s) THEN {d} ELSE {}
  <1> USE Areas
  <1>1. /\ Live(s) /\ s \in Addr /\ s \notin doomed
        /\ Live(d) /\ d \in Addr /\ d \notin doomed
    BY DEF Known, IInv, RootsOK, PrebuiltOK, Live, DoomedOK
  <1>2. /\ pc = "run" /\ has_gcptr(s) /\ has_gcptr(d) /\ CopyBarrier(s, d, I, J)
        /\ UNCHANGED Others
        /\ UNCHANGED <<old_objects_pointing_to_pinned, surviving_pinned_objects>>
        /\ updated_old_objects_pointing_to_pinned' = FALSE
        /\ copies < MaxCopies
    BY DEF ll_arraycopy, has_gcptr
  <1>2a. \A i \in Index : i \in J => i - to + from \in Index
    <2>0. Index \subseteq Int
      <3>1. Cardinality(Index) \in Nat /\ Index = 1..Cardinality(Index)
        BY FS_CardinalityType DEF IncMinimarkAssumption
      <3>2. 1..Cardinality(Index) \subseteq Int
        BY <3>1
      <3> QED
        BY <3>1, <3>2
    <2>1. Index \subseteq Int /\ I \subseteq Index
      BY <2>0 DEF ll_arraycopy
    <2>2. \A i \in J : i - to + from \in I
      <3>1. from \in Int /\ to \in Int /\ n \in Int
        BY <2>1
      <3>2. \A x, y, m \in Int : \A i \in y..y + m - 1 : i - y + x \in x..x + m - 1
        OBVIOUS
      <3> QED
        BY <3>1, <3>2
    <2> QED
      BY <2>1, <2>2
  <1>2b. \A i \in Index : q[i] = ptr[d][i] \/ \E j \in Index : q[i] = ptr[s][j]
    BY <1>2a
  <1>3. ptr' = [ptr EXCEPT ![d] = q]
    BY <1>1 DEF ll_arraycopy, IInv, TypeOK
  <1>4. \A a \in Addr : kind[a] # "large" /\ ~Has(a, "HAS_CARDS")
    <2>1. "large" \notin Kinds
      BY <1>2 DEF NoCardCopies, IncMinimarkAssumption
    <2> QED
      BY <2>1 DEF IInv, ObjectsOK
  <1>5. Barrier(R, P, {}, card)
    <2>1. CASE ~tracked(d)
      BY <1>2, <2>1 DEF CopyBarrier
    <2>2. CASE tracked(d)
      <3>1. Barrier(known \cup (IF ~tracked(s) \/ Marking THEN {d} ELSE {}),
                    IF noHeap(d) /\ ~noHeap(s) THEN {d} ELSE {}, {}, card)
        BY <1>1, <1>2, <1>4, <2>2 DEF CopyBarrier
      <3>2. known \cup (IF ~tracked(s) \/ Marking THEN {d} ELSE {}) = R
        BY <2>2
      <3>3. (IF noHeap(d) /\ ~noHeap(s) THEN {d} ELSE {}) = P
        BY <2>2
      <3> HIDE DEF R, P, known, tracked, noHeap
      <3> QED
        BY <3>1, <3>2, <3>3
    <2> QED
      BY <2>1, <2>2
  <1>6. q \in [Index -> Addr \cup {NULL}]
        /\ \A j \in Index : q[j] # NULL => Live(q[j]) /\ q[j] \notin doomed
    BY <1>1, <1>2a DEF IInv, TypeOK, ClosedOK, DoomedOK
  <1>7. \A a \in known : /\ a \in Old /\ Live(a) /\ has_gcptr(a) /\ Has(a, "TRACK_YOUNG_PTRS")
                         /\ a \in old_objects_pointing_to_pinned
    BY DEF Tracked, IInv, PinnedOK
  <1>8. \A a \in old_objects_pointing_to_pinned : a \in known \/ ~Has(a, "TRACK_YOUNG_PTRS")
    BY <1>2 DEF Tracked, IInv, PinnedOK
  <1> HIDE DEF known
  <1>9. \A a \in Addr : Has(a, "TRACK_YOUNG_PTRS") => a \notin Nursery
    BY DEF IInv, NurseryOK, Has
  <1>10. R \in SUBSET Old /\ \A a \in R : /\ Live(a) /\ Has(a, "TRACK_YOUNG_PTRS") /\ has_gcptr(a)
                                          /\ kind[a] # "large"
    BY <1>1, <1>2, <1>4, <1>7, <1>9
  <1>11. P \in SUBSET Prebuilt
    BY <1>1 DEF IInv, ObjectsOK
  <1>12. Has(d, "NO_HEAP_PTRS") /\ d \notin R \cup P => q = NoPtr
    <2>1. ASSUME Has(d, "NO_HEAP_PTRS"), d \notin R \cup P PROVE q = NoPtr
      <3>1. ptr[d] = NoPtr /\ Has(d, "TRACK_YOUNG_PTRS") /\ d \notin known
        BY <1>1, <2>1 DEF IInv, ObjectsOK
      <3>2. Has(s, "NO_HEAP_PTRS")
        BY <2>1, <3>1
      <3>3. ptr[s] = NoPtr
        BY <1>1, <3>2 DEF IInv, ObjectsOK
      <3> QED
        BY <3>1, <3>3, <1>2a DEF NoPtr
    <2> QED
      BY <2>1
  <1>13. ASSUME NEW i \in Index, tracked(s)
         PROVE  ptr[s][i] \notin Young
    <2>1. s \in Old /\ s \notin old_objects_pointing_to_pinned
      BY <1>1, <1>8, <1>9, <1>13
    <2>2. s \notin old_objects_pointing_to_young /\ ~InMinor /\ work = {}
      BY <1>2, <1>13 DEF IInv, RememberedOK, WorkOK, InMinor
    <2>3. ASSUME ptr[s][i] \in Young PROVE FALSE
      <3>1. i \in card[s] \/ Has(ptr[s][i], "VISITED_RMY")
        BY <1>1, <1>13, <2>1, <2>2, <2>3 DEF IInv, YoungPointersKnown, Settled, Untouched
      <3>2. ptr[s][i] \in Addr
        BY <2>3 DEF Young, IInv, YoungOK
      <3>3. i \in card[s]
        BY <2>2, <3>1, <3>2 DEF IInv, ObjectsOK
      <3>4. Has(s, "HAS_CARDS")
        BY <1>1, <3>3 DEF IInv, ObjectsOK, CardsOK
      <3> QED
        BY <1>1, <1>4, <3>4
    <2> QED
      BY <2>3
  <1>14. \A i \in Index : \/ q[i] = ptr[d][i] \/ d \in R
                          \/ d \in old_objects_pointing_to_young \/ d \in Nursery \/ Untouched(d)
                          \/ q[i] \notin Young /\ ~Marking
    <2>1. CASE ~Has(d, "TRACK_YOUNG_PTRS")
      BY <1>1, <1>2, <2>1, Untracked
    <2>2. CASE d \in known
      BY <2>2
    <2>3. CASE tracked(d)
      <3>1. CASE d \in R
        BY <3>1
      <3>2. CASE d \notin R
        <4>1. tracked(s) /\ ~Marking
          BY <2>3, <3>2
        <4> QED
          BY <1>2b, <1>13, <4>1
      <3> QED
        BY <3>1, <3>2
    <2> QED
      BY <2>1, <2>2, <2>3
  <1>15. card \in [Addr -> SUBSET Index] /\ (card[d] # {} => Has(d, "CARDS_SET"))
    BY <1>1 DEF IInv, TypeOK, ObjectsOK
  <1>16. \A a \in old_objects_pointing_to_pinned : a \in R \/ ~Has(a, "TRACK_YOUNG_PTRS")
    BY <1>8
  <1>17. {} \in SUBSET {d} /\ updated_old_objects_pointing_to_pinned' \in BOOLEAN
    BY <1>2
  <1> HIDE DEF q, R, P
  <1>18. Suffices(d, q, R, P, {}, card)
    BY <1>2, <1>6, <1>10, <1>11, <1>12, <1>14, <1>15, <1>17 DEF Suffices
  <1> QED
    BY <1>2, <1>3, <1>5, <1>16, <1>17, <1>18, Written

----------------------------------------------------------------------------
(* The major collection runs when a minor one has ended.                   *)

LEMMA MajorFacts ==
    ASSUME IncMinimarkAssumption, IInv, InMajor
    PROVE  /\ young_rawmalloced_objects = {} /\ old_objects_with_cards_set = {}
           /\ old_objects_pointing_to_young = {} /\ work = {} /\ ~InMinor
           /\ \A a \in Addr : card[a] = {} /\ ~Has(a, "CARDS_SET") /\ ~Has(a, "VISITED_RMY")
           /\ \A o \in Nursery : /\ forw[o] = NULL /\ o \notin surviving_pinned_objects
                                 /\ ~Has(o, "VISITED") /\ ptr[o] = NoPtr
           /\ \A a \in Old : Live(a) /\ has_gcptr(a) => Has(a, "TRACK_YOUNG_PTRS")
           /\ \A a \in Old : \A i \in Index :
                 Live(a) /\ ptr[a][i] \in Nursery => a \in old_objects_pointing_to_pinned
  <1> USE Areas
  <1>1. young_rawmalloced_objects = {} /\ old_objects_with_cards_set = {}
        /\ old_objects_pointing_to_young = {} /\ ~InMinor
    BY DEF IInv, YoungOK, CardsOK, RememberedOK, InMinor, InMajor
  <1>2. work = {}
    BY <1>1 DEF IInv, WorkOK
  <1>3. \A a \in Addr : card[a] = {} /\ ~Has(a, "CARDS_SET") /\ ~Has(a, "VISITED_RMY")
    BY <1>1 DEF IInv, ObjectsOK
  <1>4. \A o \in Nursery : /\ forw[o] = NULL /\ o \notin surviving_pinned_objects
                           /\ ~Has(o, "VISITED")
    BY <1>1 DEF IInv, NurseryOK
  <1>5. \A o \in Nursery : ptr[o] = NoPtr
    BY DEF IInv, NurseryOK, ObjectsOK
  <1>6. \A a \in Old : Live(a) /\ has_gcptr(a) => Has(a, "TRACK_YOUNG_PTRS")
    BY <1>1 DEF Live, Forgotten
  <1>7. \A a \in Old : \A i \in Index :
           Live(a) /\ ptr[a][i] \in Nursery => a \in old_objects_pointing_to_pinned
    BY <1>1, <1>2, <1>3 DEF IInv, YoungPointersKnown, Settled, Untouched, Young
  <1> QED
    BY <1>1, <1>2, <1>3, <1>4, <1>5, <1>6, <1>7

LEMMA VisitStep ==
    ASSUME IncMinimarkAssumption, IInv, NEW o \in objects_to_trace, visit(o)
    PROVE  IInv'
  <1> DEFINE white == flags[o] \cap {"VISITED", "NO_HEAP_PTRS"} = {}
  <1> USE Areas
  <1> USE DEF heap, header, barrier, tracing, raw, sweep, shadows, pinning, stack
  <1>1. /\ UNCHANGED <<kind, ptr, card, forw, roots, stopped, gc_state, old_objects_pointing_to_young,
                       old_objects_with_cards_set, prebuilt_root_objects,
                       more_objects_to_trace, young_rawmalloced_objects,
                       old_rawmalloced_objects, raw_malloc_might_sweep, unswept, doomed,
                       nursery_objects_shadows, old_objects_pointing_to_pinned,
                       updated_old_objects_pointing_to_pinned, surviving_pinned_objects, work>>
        /\ Marking /\ InMajor /\ InMajor' /\ ~InMinor'
        /\ (pc' = "last" => pc = "last")
    BY DEF visit, InMajor, InMinor
  <1>2. /\ objects_to_trace' = (objects_to_trace \ {o})
                               \cup (IF white THEN Targets(o) \ Nursery ELSE {})
        /\ flags' = [flags EXCEPT ![o] = flags[o] \cup
                        (IF white THEN {"VISITED", "TRACK_YOUNG_PTRS"} ELSE {})]
    BY DEF visit, _collect_obj, SetFlags, BlackFlags
  <1>3. Live(o) /\ o \in Old /\ o \in Addr /\ ~IsShadow(o) /\ ~Forgotten(o) /\ o \notin doomed
    BY DEF IInv, GrayOK, Traced, Live, DoomedOK
  <1>4. white <=> ~Has(o, "VISITED") /\ ~Has(o, "NO_HEAP_PTRS")
    BY DEF Has
  <1>5. /\ \A b \in Addr : b # o => flags'[b] = flags[b]
        /\ flags'[o] = flags[o] \cup (IF white THEN {"VISITED", "TRACK_YOUNG_PTRS"} ELSE {})
    BY <1>2, <1>3 DEF IInv, TypeOK
  <1> HIDE DEF white
  <1>6. \A b \in Addr : \A f \in {"NO_HEAP_PTRS", "HAS_CARDS", "CARDS_SET", "PINNED",
                                  "HAS_SHADOW", "VISITED_RMY"} : Has(b, f)' <=> Has(b, f)
    BY <1>5 DEF Has
  <1>7. /\ \A b \in Addr : Has(b, "VISITED")' <=> (Has(b, "VISITED") \/ (b = o /\ white))
        /\ \A b \in Addr : Has(b, "TRACK_YOUNG_PTRS")' <=>
              (Has(b, "TRACK_YOUNG_PTRS") \/ (b = o /\ white))
    BY <1>5 DEF Has
  <1>8. unswept \cup raw_malloc_might_sweep = {}
    BY <1>1 DEF IInv, SweepOK, Marking
  <1>9. \A b : IsShadow(b)' <=> IsShadow(b)
    BY <1>1 DEF IsShadow
  <1>10. \A b : ~Condemned(b) /\ ~Condemned(b)'
    BY <1>1, <1>8 DEF Condemned
  <1>11. \A b \in Old : Forgotten(b)' <=> Forgotten(b)
    BY <1>1, <1>3, <1>6, <1>7 DEF Forgotten, has_gcptr
  <1>12. \A b : Live(b)' <=> Live(b)
    BY <1>1, <1>9, <1>10, <1>11 DEF Live
  <1>13. /\ young_rawmalloced_objects = {} /\ old_objects_with_cards_set = {}
         /\ old_objects_pointing_to_young = {} /\ work = {} /\ ~InMinor
         /\ \A a \in Addr : card[a] = {} /\ ~Has(a, "CARDS_SET") /\ ~Has(a, "VISITED_RMY")
    BY <1>1, MajorFacts
  <1>14. Marking' /\ gc_state = "MARKING"
    BY <1>1 DEF Marking
  <1>15. \A c \in Targets(o) : Live(c) /\ c \in Addr /\ c \notin doomed
    <2>1. \A i \in Index : ptr[o][i] # NULL => Live(ptr[o][i]) /\ ptr[o][i] \notin doomed
      BY <1>3 DEF IInv, ClosedOK, DoomedOK
    <2> QED
      BY <2>1 DEF Targets, Live
  <1>16. \A b \in Addr : KnownToMarking(b) => KnownToMarking(b)'
    BY <1>1, <1>2, <1>3, <1>4, <1>6, <1>7 DEF KnownToMarking, Traced
  <1>20. TypeOK'
    <2>1. flags' \in [Addr -> SUBSET Flag]
      BY <1>2, <1>3 DEF IInv, TypeOK, Flag
    <2> QED
      BY <1>1, <2>1 DEF IInv, TypeOK, InMajor
  <1>21. ObjectsOK'
    <2>1. \A b \in Addr : kind[b] = "free" => flags'[b] = {}
      BY <1>3, <1>5 DEF IInv, ObjectsOK, Live
    <2>2. \A b \in Addr : /\ kind[b] = "large" => /\ "large" \in Kinds /\ Has(b, "HAS_CARDS")'
                                                  /\ Has(b, "TRACK_YOUNG_PTRS")'
                          /\ Has(b, "HAS_CARDS")' => kind[b] = "large"
      BY <1>6, <1>7 DEF IInv, ObjectsOK
    <2>3. \A b \in Addr : Has(b, "NO_HEAP_PTRS")' =>
             /\ b \in Prebuilt /\ ptr[b] = NoPtr
             /\ ~Has(b, "VISITED")' /\ Has(b, "TRACK_YOUNG_PTRS")'
      BY <1>4, <1>6, <1>7 DEF IInv, ObjectsOK
    <2> QED
      BY <1>1, <1>6, <1>13, <2>1, <2>2, <2>3 DEF IInv, ObjectsOK
  <1>22. NurseryOK'
    <2>1. \A n \in Nursery : flags'[n] = flags[n]
      BY <1>3, <1>5
    <2> QED
      BY <1>1, <1>12, <1>13, <2>1 DEF IInv, NurseryOK, Has
  <1>23. ShadowsOK'
    <2>1. ASSUME NEW n \in Nursery, NEW s \in Heap, ShadowOK(n, s), IsShadow(s) PROVE ShadowOK(n, s)'
      <3>1. s # o
        BY <1>3, <2>1
      <3> QED
        BY <1>1, <1>7, <1>10, <1>14, <2>1, <3>1 DEF ShadowOK
    <2> QED
      BY <1>1, <1>6, <2>1 DEF IInv, ShadowsOK, TypeOK, IsShadow
  <1>24. PrebuiltOK' /\ RootsOK'
    BY <1>1, <1>6, <1>12 DEF IInv, PrebuiltOK, RootsOK
  <1>25. RememberedOK' /\ CardsOK' /\ YoungOK'
    BY <1>1, <1>13 DEF RememberedOK, CardsOK, YoungOK
  <1>26. PinnedOK'
    BY <1>1, <1>6, <1>12, <1>13 DEF IInv, PinnedOK, has_gcptr, InMajor
  <1>27. SweepOK'
    BY <1>1, <1>14 DEF IInv, SweepOK
  <1>28. ClosedOK'
    BY <1>1, <1>12 DEF IInv, ClosedOK
  <1>29. WorkOK' /\ RootsFirst' /\ YoungRootsKnown'
    BY <1>1, <1>13 DEF WorkOK, RootsFirst, YoungRootsKnown
  <1>30. YoungPointersKnown'
    <2>1. ASSUME NEW b \in Young PROVE \A c : Settled(c, b) => Settled(c, b)'
      BY <1>1, <1>6, <1>13 DEF Settled, Young
    <2> QED
      BY <1>1, <1>12, <1>13, <2>1 DEF IInv, YoungPointersKnown, Young, Untouched
  <1>31. BlackPointersKnown'
    <2>1. ASSUME NEW b \in Old, NEW i \in Index, Live(b), Has(b, "VISITED")', ptr[b][i] # NULL
          PROVE  \/ KnownToMarking(ptr[b][i])'
                 \/ ptr[b][i] \in Nursery /\ b \in old_objects_pointing_to_pinned
      <3>1. CASE b = o /\ white
        <4>1. ptr[b][i] \in Targets(o)
          BY <2>1, <3>1 DEF Targets
        <4>2. CASE ptr[b][i] \in Nursery
          BY <1>1, <2>1, <4>2, MajorFacts
        <4>3. CASE ptr[b][i] \notin Nursery
          BY <1>1, <1>2, <3>1, <4>1, <4>3 DEF KnownToMarking, Traced
        <4> QED
          BY <4>2, <4>3
      <3>2. CASE ~(b = o /\ white)
        <4>1. Has(b, "VISITED") /\ ptr[b][i] \in Addr
          BY <1>7, <2>1, <3>2 DEF IInv, ClosedOK, Live
        <4>2. card[b] = {}
          BY <1>13
        <4> QED
          BY <1>1, <1>13, <1>16, <2>1, <4>1, <4>2 DEF IInv, BlackPointersKnown
      <3> QED
        BY <3>1, <3>2
    <2> QED
      BY <1>1, <1>12, <2>1 DEF BlackPointersKnown
  <1>32. RootsMarked'
    <2>1. roots \subseteq Addr
      BY DEF IInv, RootsOK, Live
    <2> QED
      BY <1>1, <1>13, <1>16, <2>1 DEF IInv, RootsMarked, InMajor
  <1>32a. StoppedOK'
    BY <1>1, <1>14, <1>16 DEF IInv, StoppedOK
  <1>33. GrayOK'
    <2>1. \A a \in Traced' : a \in Old /\ Live(a)
      BY <1>1, <1>2, <1>15 DEF IInv, GrayOK, Traced
    <2>2. pc = "last" => \A a \in prebuilt_root_objects : Has(a, "VISITED")' \/ a \in objects_to_trace'
      <3>1. \A a \in prebuilt_root_objects : a \in Addr /\ ~Has(a, "NO_HEAP_PTRS")
        BY DEF IInv, PrebuiltOK, TypeOK
      <3> QED
        BY <1>2, <1>4, <1>7, <3>1 DEF IInv, GrayOK
    <2> QED
      BY <1>1, <1>12, <1>14, <2>1, <2>2 DEF IInv, GrayOK
  <1>34. DoomedOK'
    <2>1. \A a \in doomed : a \in Addr /\ ~Has(a, "VISITED")'
      BY <1>3, <1>7 DEF IInv, DoomedOK
    <2>2. \A a \in doomed : a \notin Traced'
      BY <1>1, <1>2, <1>15 DEF IInv, DoomedOK, Traced
    <2> QED
      BY <1>1, <1>9, <2>1, <2>2 DEF IInv, DoomedOK
  <1> QED
    BY <1>20, <1>21, <1>22, <1>23, <1>24, <1>25, <1>26, <1>27, <1>28, <1>29, <1>30, <1>31,
       <1>32, <1>32a, <1>33, <1>34 DEF IInv

(* When the marking ends, the live objects of the heap are the black ones. *)
LEMMA FinishMarkingStep ==
    ASSUME IncMinimarkAssumption, IInv, FinishMarking
    PROVE  IInv'
  <1> USE Areas
  <1> USE DEF heap, header, barrier, tracing, raw, sweep, shadows, pinning, stack
  <1>1. /\ UNCHANGED <<kind, ptr, flags, card, forw, roots, stopped, old_objects_pointing_to_young,
                       old_objects_with_cards_set, prebuilt_root_objects, objects_to_trace,
                       more_objects_to_trace, young_rawmalloced_objects, doomed,
                       nursery_objects_shadows, surviving_pinned_objects, work>>
        /\ pc = "last" /\ pc' = "run" /\ InMajor /\ ~InMajor' /\ ~InMinor'
        /\ gc_state' = "SWEEPING" /\ ~Marking'
    BY DEF FinishMarking, InMajor, InMinor, Marking
  <1>2. /\ unswept' = (Objects \cap Heap) \ old_rawmalloced_objects
        /\ raw_malloc_might_sweep' = old_rawmalloced_objects
        /\ old_rawmalloced_objects' = {}
        /\ old_objects_pointing_to_pinned' =
             {a \in old_objects_pointing_to_pinned : Has(a, "VISITED")}
        /\ updated_old_objects_pointing_to_pinned' =
             (updated_old_objects_pointing_to_pinned \/ old_objects_pointing_to_pinned # {})
    BY DEF FinishMarking
  <1>3. Marking /\ gc_state = "MARKING" /\ Traced = {} /\ Traced' = {}
    BY <1>1 DEF FinishMarking, IInv, GrayOK, Traced, Marking
  <1>4. \A b, f : Has(b, f)' <=> Has(b, f)
    BY <1>1 DEF Has
  <1>5. /\ young_rawmalloced_objects = {} /\ old_objects_with_cards_set = {}
        /\ old_objects_pointing_to_young = {} /\ work = {} /\ ~InMinor
        /\ \A a \in Addr : card[a] = {} /\ ~Has(a, "CARDS_SET") /\ ~Has(a, "VISITED_RMY")
        /\ \A o \in Nursery : /\ forw[o] = NULL /\ o \notin surviving_pinned_objects
                              /\ ptr[o] = NoPtr
    BY <1>1, MajorFacts
  <1>6. \A b : ~Condemned(b)
    BY <1>3 DEF Condemned, IInv, SweepOK
  <1>7. \A b \in Addr : Condemned(b)' <=> b \in Heap /\ kind[b] # "free" /\ ~Has(b, "VISITED")
    BY <1>2, <1>4 DEF Condemned, Objects, IInv, SweepOK
  <1>8. \A b : IsShadow(b)' <=> IsShadow(b)
    BY <1>1 DEF IsShadow
  <1>9. \A b \in Old : Forgotten(b)' <=> Forgotten(b)
    BY <1>1, <1>2, <1>4, <1>5 DEF Forgotten, has_gcptr, IInv, PinnedOK
  <1>10. \A b \in Addr : Live(b)' <=> Live(b) /\ (b \in Heap => Has(b, "VISITED"))
    BY <1>1, <1>6, <1>7, <1>8, <1>9 DEF Live
  <1>11. \A b \in Prebuilt : Has(b, "VISITED") \/ ptr[b] = NoPtr
    BY <1>1, <1>3 DEF IInv, PrebuiltOK, ObjectsOK, GrayOK, Traced
  <1>12. \A b \in Heap : ~Has(b, "NO_HEAP_PTRS") /\ b \notin prebuilt_root_objects
    BY DEF IInv, ObjectsOK, TypeOK
  <1>20. TypeOK'
    <2>1. updated_old_objects_pointing_to_pinned' \in BOOLEAN
      BY <1>2, Zenon
    <2> QED
      BY <1>1, <2>1 DEF IInv, TypeOK
  <1>21. ObjectsOK'
    BY <1>1, <1>4, <1>5 DEF IInv, ObjectsOK
  <1>22. NurseryOK'
    BY <1>1, <1>4, <1>5 DEF IInv, NurseryOK
  <1>23. ShadowsOK'
    <2>1. ASSUME NEW n \in Nursery, NEW s \in Heap, ShadowOK(n, s) PROVE ShadowOK(n, s)'
      BY <1>1, <1>3, <1>4, <1>7, <2>1 DEF ShadowOK
    <2> QED
      BY <1>1, <1>4, <2>1 DEF IInv, ShadowsOK, TypeOK
  <1>24. PrebuiltOK'
    BY <1>1, <1>4, <1>10 DEF IInv, PrebuiltOK
  <1>25. RootsOK'
    <2>1. \A r \in roots : r \in Addr /\ (r \in Heap => Has(r, "VISITED"))
      BY <1>1, <1>3, <1>5, <1>12 DEF IInv, RootsOK, RootsMarked, KnownToMarking, Live
    <2> QED
      BY <1>1, <1>10, <2>1 DEF IInv, RootsOK
  <1>26. RememberedOK' /\ CardsOK' /\ YoungOK'
    BY <1>1, <1>5 DEF RememberedOK, CardsOK, YoungOK
  <1>27. PinnedOK'
    BY <1>1, <1>2, <1>4, <1>5, <1>10 DEF IInv, PinnedOK, has_gcptr
  <1>28. SweepOK'
    <2>1. \A a \in unswept' \cup raw_malloc_might_sweep' :
             a \in Heap /\ kind[a] # "free" /\ a \notin young_rawmalloced_objects
      BY <1>2, <1>5 DEF Objects, IInv, SweepOK
    <2>2. unswept' \cap raw_malloc_might_sweep' = {}
      BY <1>2
    <2>3. \A a \in Old : Has(a, "VISITED")' =>
             a \in unswept' \cup raw_malloc_might_sweep' \cup prebuilt_root_objects
      <3>1. \A a \in Prebuilt : Has(a, "VISITED") => a \in prebuilt_root_objects
        BY DEF IInv, PrebuiltOK, ObjectsOK
      <3>2. \A a \in Heap : Has(a, "VISITED") => a \in unswept' \cup raw_malloc_might_sweep'
        BY <1>2 DEF IInv, ObjectsOK, Objects, Has
      <3> QED
        BY <1>4, <3>1, <3>2
    <2> QED
      BY <1>1, <1>2, <2>1, <2>2, <2>3 DEF SweepOK
  <1>29. ClosedOK'
    <2>1. ASSUME NEW a \in Addr, NEW i \in Index, NEW c, Live(a)', c = ptr[a][i], c # NULL
          PROVE  Live(c)'
      <3>1. Live(a) /\ Live(c) /\ c \in Addr
        BY <1>10, <2>1 DEF IInv, ClosedOK, Live
      <3>2. Has(a, "VISITED") /\ a \in Old
        BY <1>5, <1>10, <1>11, <2>1 DEF NoPtr
      <3>3. c \in Heap => Has(c, "VISITED")
        BY <1>1, <1>3, <1>5, <1>12, <2>1, <3>1, <3>2 DEF IInv, BlackPointersKnown, KnownToMarking
      <3> QED
        BY <1>10, <3>1, <3>3
    <2> QED
      BY <1>1, <2>1 DEF ClosedOK
  <1>30. WorkOK' /\ RootsFirst' /\ YoungRootsKnown' /\ BlackPointersKnown' /\ RootsMarked'
    BY <1>1, <1>5 DEF WorkOK, RootsFirst, YoungRootsKnown, BlackPointersKnown, RootsMarked
  <1>31. YoungPointersKnown'
    <2>1. ASSUME NEW a \in Old, NEW i \in Index, Live(a)', ptr[a][i] \in Nursery
          PROVE  a \in old_objects_pointing_to_pinned'
      <3>1. Live(a) /\ ptr[a] # NoPtr
        BY <1>10, <2>1 DEF NoPtr
      <3>2. Has(a, "VISITED")
        BY <1>10, <1>11, <2>1, <3>1
      <3> QED
        BY <1>1, <1>2, <2>1, <3>1, <3>2, MajorFacts
    <2> QED
      BY <1>1, <1>5, <2>1 DEF YoungPointersKnown, Young, Settled
  <1>31a. StoppedOK'
    BY <1>1 DEF IInv, StoppedOK
  <1>32. GrayOK'
    BY <1>1, <1>3 DEF GrayOK
  <1>33. DoomedOK'
    <2>1. \A a \in doomed : a \in unswept' \cup raw_malloc_might_sweep'
      BY <1>2 DEF IInv, DoomedOK, Objects
    <2> QED
      BY <1>1, <1>3, <1>4, <1>8, <2>1 DEF IInv, DoomedOK
  <1> QED
    BY <1>20, <1>21, <1>22, <1>23, <1>24, <1>25, <1>26, <1>27, <1>28, <1>29, <1>30, <1>31,
       <1>31a, <1>32, <1>33 DEF IInv

(* A step of the sweep frees what was not live, so that the same objects   *)
(* are live after it.                                                      *)
LEMMA Swept ==
    ASSUME IncMinimarkAssumption, IInv, pc = "minor_done", gc_state = "SWEEPING",
           NEW S \in SUBSET (unswept \cup raw_malloc_might_sweep), NEW cleared, Sweep(S, cleared),
           cleared \subseteq prebuilt_root_objects,
           unswept' = unswept \ S, raw_malloc_might_sweep' = raw_malloc_might_sweep \ S,
           \A a \in old_rawmalloced_objects' : \/ a \in old_rawmalloced_objects
                                               \/ a \in S /\ Has(a, "VISITED"),
           \/ gc_state' = "SWEEPING"
           \/ /\ gc_state' \in {"FINALIZING", "SCANNING"} /\ cleared = prebuilt_root_objects
              /\ unswept' \cup raw_malloc_might_sweep' = {},
           pc' = "run",
           UNCHANGED <<forw, roots, stopped, barrier, tracing, young_rawmalloced_objects,
                       shadows, pinning, work>>
    PROVE  IInv' /\ (gc_state' # "SWEEPING" => doomed' = {})
  <1> DEFINE dead == {a \in S : ~Has(a, "VISITED")}
  <1> USE Areas
  <1> USE DEF heap, header, barrier, tracing, raw, shadows, pinning, stack
  <1>1. /\ UNCHANGED <<forw, roots, stopped, old_objects_pointing_to_young,
                       old_objects_with_cards_set, prebuilt_root_objects, objects_to_trace,
                       more_objects_to_trace, young_rawmalloced_objects,
                       nursery_objects_shadows, old_objects_pointing_to_pinned,
                       updated_old_objects_pointing_to_pinned, surviving_pinned_objects, work>>
        /\ InMajor /\ ~InMajor' /\ ~InMinor' /\ ~Marking /\ ~Marking'
    BY DEF InMajor, InMinor, Marking
  <1>2. /\ kind' = [a \in Addr |-> IF a \in dead THEN "free" ELSE kind[a]]
        /\ ptr' = [a \in Addr |-> IF a \in dead THEN NoPtr ELSE ptr[a]]
        /\ card' = [a \in Addr |-> IF a \in dead THEN {} ELSE card[a]]
        /\ flags' = [a \in Addr |-> IF a \in dead THEN {} ELSE
                        IF a \in S \cup cleared THEN flags[a] \ {"VISITED"} ELSE flags[a]]
        /\ doomed' = doomed \ dead
    BY DEF Sweep, Free
  <1>3. \A a \in dead : Condemned(a) /\ a \in Heap /\ ~Live(a) /\ a \in S
    BY DEF Condemned, Live, IInv, SweepOK
  <1>4. \A a \in S : Has(a, "VISITED") \/ a \in dead
    OBVIOUS
  <1>5. \A a \in S : a \in Heap /\ kind[a] # "free"
    BY DEF IInv, SweepOK
  <1> HIDE DEF dead
  <1>6. \A a \in Addr : a \notin dead =>
           kind'[a] = kind[a] /\ ptr'[a] = ptr[a] /\ card'[a] = card[a]
    BY <1>2
  <1>7. \A a \in dead : a \in Addr /\ kind'[a] = "free" /\ ptr'[a] = NoPtr /\ card'[a] = {}
                        /\ flags'[a] = {}
    BY <1>2, <1>3
  <1>8. \A a \in Addr : a \notin dead =>
           \A f : f # "VISITED" => (Has(a, f)' <=> Has(a, f))
    BY <1>2 DEF Has
  <1>9. \A a \in Addr : Has(a, "VISITED")' <=> Has(a, "VISITED") /\ a \notin S \cup cleared
    BY <1>2, <1>3, <1>4 DEF Has
  <1>10. \A b : IsShadow(b)' <=> IsShadow(b)
    BY <1>1 DEF IsShadow
  <1>11. \A b \in Addr : b \notin dead => (Condemned(b)' <=> Condemned(b))
    <2>1. \A b \in unswept \cup raw_malloc_might_sweep : b \notin cleared
      BY DEF IInv, TypeOK, SweepOK
    <2> QED
      BY <1>4, <1>9, <2>1 DEF Condemned
  <1>12. \A b \in Old : b \notin dead => (Forgotten(b)' <=> Forgotten(b))
    <2>1. ASSUME NEW b \in Old, b \notin dead PROVE Forgotten(b)' <=> Forgotten(b)
      <3>1. /\ Has(b, "PINNED")' <=> Has(b, "PINNED")
            /\ Has(b, "TRACK_YOUNG_PTRS")' <=> Has(b, "TRACK_YOUNG_PTRS")
        BY <1>8, <2>1
      <3> QED
        BY <1>1, <1>6, <2>1, <3>1 DEF Forgotten, has_gcptr
    <2> QED
      BY <2>1
  <1>13. \A b : Live(b)' <=> Live(b)
    BY <1>3, <1>6, <1>7, <1>10, <1>11, <1>12 DEF Live
  <1>14. /\ young_rawmalloced_objects = {} /\ old_objects_with_cards_set = {}
         /\ old_objects_pointing_to_young = {} /\ work = {} /\ ~InMinor
         /\ \A a \in Addr : card[a] = {} /\ ~Has(a, "CARDS_SET") /\ ~Has(a, "VISITED_RMY")
         /\ \A o \in Nursery : forw[o] = NULL /\ o \notin surviving_pinned_objects
    BY <1>1, MajorFacts
  <1>15. \A a \in Addr : Live(a) => a \notin dead
    BY <1>3
  <1>20. TypeOK'
    <2>1. flags' \in [Addr -> SUBSET Flag]
      BY <1>2 DEF IInv, TypeOK
    <2>2. kind' \in [Addr -> {"free", "small", "large", "leaf"}]
      BY <1>2 DEF IInv, TypeOK
    <2>3. ptr' \in [Addr -> [Index -> Addr \cup {NULL}]]
      <3>1. NoPtr \in [Index -> Addr \cup {NULL}]
        BY DEF NoPtr
      <3> QED
        BY <1>2, <3>1 DEF IInv, TypeOK
    <2>4. card' \in [Addr -> SUBSET Index]
      BY <1>2 DEF IInv, TypeOK
    <2> QED
      BY <1>1, <2>1, <2>2, <2>3, <2>4 DEF IInv, TypeOK
  <1>21. ObjectsOK'
    <2>1. ASSUME NEW a \in Addr, a \notin dead
          PROVE  /\ kind'[a] = "free" => flags'[a] = {} /\ card'[a] = {} /\ ptr'[a] = NoPtr
                 /\ kind'[a] = "leaf" => ptr'[a] = NoPtr
                 /\ kind'[a] = "large" => /\ "large" \in Kinds
                                          /\ Has(a, "HAS_CARDS")' /\ Has(a, "TRACK_YOUNG_PTRS")'
                 /\ Has(a, "HAS_CARDS")' => kind'[a] = "large"
                 /\ card'[a] = {} /\ ~Has(a, "CARDS_SET")' /\ ~Has(a, "VISITED_RMY")'
                 /\ Has(a, "NO_HEAP_PTRS")' =>
                      /\ a \in Prebuilt /\ ptr'[a] = NoPtr
                      /\ ~Has(a, "VISITED")' /\ Has(a, "TRACK_YOUNG_PTRS")'
      <3>1. kind'[a] = "free" => flags'[a] = {}
        BY <1>2, <1>6, <2>1 DEF IInv, ObjectsOK
      <3> QED
        BY <1>6, <1>8, <1>9, <1>14, <2>1, <3>1 DEF IInv, ObjectsOK
    <2>2. ASSUME NEW a \in dead PROVE kind'[a] = "free" /\ \A f : ~Has(a, f)'
      BY <1>7 DEF Has
    <2> QED
      BY <1>7, <2>1, <2>2 DEF ObjectsOK
  <1>22. NurseryOK'
    <2>1. \A n \in Nursery : n \notin S \cup cleared /\ n \notin dead
      BY <1>3, <1>5 DEF IInv, TypeOK
    <2>2. \A n \in Nursery : flags'[n] = flags[n] /\ kind'[n] = kind[n]
      BY <1>2, <2>1
    <2> QED
      BY <1>1, <1>14, <2>2 DEF IInv, NurseryOK, Has
  <1>23. ShadowsOK'
    <2>1. ASSUME NEW n \in Nursery, NEW s \in Heap, ShadowOK(n, s) PROVE ShadowOK(n, s)'
      <3>1. s \notin dead /\ n \notin dead
        BY <1>3, <2>1 DEF ShadowOK
      <3> QED
        BY <1>1, <1>6, <1>8, <1>9, <1>11, <2>1, <3>1 DEF ShadowOK
    <2>2. \A n \in Nursery : Has(n, "HAS_SHADOW")' <=> Has(n, "HAS_SHADOW")
      BY <1>3, <1>8
    <2> QED
      BY <1>1, <2>1, <2>2 DEF IInv, ShadowsOK, TypeOK
  <1>24. PrebuiltOK' /\ RootsOK'
    <2>1. \A b \in Prebuilt : b \notin dead
      BY <1>3
    <2> QED
      BY <1>1, <1>6, <1>8, <1>13, <2>1 DEF IInv, PrebuiltOK, RootsOK
  <1>25. RememberedOK' /\ CardsOK' /\ YoungOK'
    BY <1>1, <1>14 DEF RememberedOK, CardsOK, YoungOK
  <1>26. PinnedOK'
    <2>1. \A b \in old_objects_pointing_to_pinned : b \in Addr /\ b \notin dead
      BY <1>15 DEF IInv, PinnedOK, Live
    <2> QED
      BY <1>1, <1>6, <1>8, <1>13, <1>14, <2>1 DEF IInv, PinnedOK, has_gcptr
  <1>27. SweepOK'
    <2>1. \A a \in unswept' \cup raw_malloc_might_sweep' \cup old_rawmalloced_objects' :
             a \notin dead /\ a \in unswept \cup raw_malloc_might_sweep \cup old_rawmalloced_objects
      <3>1. \A a \in dead : ~Has(a, "VISITED") /\ a \in S
        BY DEF dead
      <3> QED
        BY <3>1 DEF IInv, SweepOK
    <2>2. \A a \in unswept' \cup raw_malloc_might_sweep' \cup old_rawmalloced_objects' :
             a \in Heap /\ kind'[a] # "free" /\ a \notin young_rawmalloced_objects
      BY <1>6, <2>1 DEF IInv, SweepOK
    <2>3. \A a \in unswept' \cup raw_malloc_might_sweep' :
             gc_state' = "SWEEPING" /\ a \notin old_rawmalloced_objects'
      BY DEF IInv, SweepOK
    <2>4. \A a \in Old : Has(a, "VISITED")' =>
             /\ gc_state' = "SWEEPING"
             /\ a \in unswept' \cup raw_malloc_might_sweep' \cup prebuilt_root_objects
      <3>1. ASSUME NEW a \in Old, Has(a, "VISITED")'
            PROVE  a \in unswept' \cup raw_malloc_might_sweep' \cup (prebuilt_root_objects \ cleared)
        BY <1>9, <3>1 DEF IInv, SweepOK
      <3> QED
        BY <3>1
    <2> QED
      BY <1>1, <2>2, <2>3, <2>4 DEF IInv, SweepOK
  <1>28. ClosedOK'
    BY <1>6, <1>13, <1>15 DEF IInv, ClosedOK
  <1>29. WorkOK' /\ RootsFirst' /\ YoungRootsKnown' /\ BlackPointersKnown' /\ RootsMarked'
    BY <1>1, <1>14 DEF WorkOK, RootsFirst, YoungRootsKnown, BlackPointersKnown, RootsMarked
  <1>30. YoungPointersKnown'
    <2>1. \A a \in Old : \A i \in Index : Live(a) /\ ptr'[a][i] \in Nursery =>
             a \in old_objects_pointing_to_pinned
      BY <1>1, <1>6, <1>15, MajorFacts
    <2> QED
      BY <1>1, <1>13, <1>14, <2>1 DEF YoungPointersKnown, Young, Settled
  <1>30a. StoppedOK'
    BY <1>1 DEF IInv, StoppedOK
  <1>31. GrayOK'
    BY <1>1, <1>13 DEF IInv, GrayOK, Traced
  <1>32. \A a \in doomed' : a \in doomed /\ a \notin S /\ a \in Addr /\ a \notin dead
    BY <1>2, <1>4 DEF IInv, DoomedOK
  <1>33. \A a \in doomed' : a \in unswept' \cup raw_malloc_might_sweep' /\ gc_state' = "SWEEPING"
    BY <1>32 DEF IInv, DoomedOK
  <1>34. DoomedOK'
    <2>1. \A a \in Addr : \A i \in Index : a \notin doomed' => ptr'[a][i] \notin doomed'
      <3>1. NULL \notin doomed
        BY DEF IInv, DoomedOK
      <3>2. ASSUME NEW a \in Addr, NEW i \in Index, a \notin doomed' PROVE ptr'[a][i] \notin doomed'
        <4>1. CASE a \in dead
          BY <1>7, <1>32, <3>1, <4>1 DEF NoPtr
        <4>2. CASE a \notin dead
          BY <1>2, <1>6, <3>2, <4>2 DEF IInv, DoomedOK
        <4> QED
          BY <4>1, <4>2
      <3> QED
        BY <3>2
    <2>2. \A a \in doomed' : a \in Heap /\ kind'[a] # "free" /\ ~Has(a, "VISITED")'
      BY <1>6, <1>9, <1>32 DEF IInv, DoomedOK
    <2> QED
      BY <1>1, <1>10, <1>32, <1>33, <2>1, <2>2 DEF IInv, DoomedOK, Traced
  <1>35. gc_state' # "SWEEPING" => doomed' = {}
    BY <1>33
  <1> QED
    BY <1>20, <1>21, <1>22, <1>23, <1>24, <1>25, <1>26, <1>27, <1>28, <1>29, <1>30, <1>30a, <1>31,
       <1>34, <1>35 DEF IInv

LEMMA SweepSteps ==
    ASSUME IncMinimarkAssumption, IInv, NEW S,
           \/ free_unvisited_rawmalloc_objects_step(S)
           \/ \E done \in BOOLEAN : mass_free_incremental(S, done)
    PROVE  IInv' /\ (gc_state' # "SWEEPING" => doomed' = {})
  <1> USE DEF raw, stack
  <1>1. unswept \cap raw_malloc_might_sweep = {}
    BY DEF IInv, SweepOK
  <1>2. CASE free_unvisited_rawmalloc_objects_step(S)
    <2>1. /\ pc = "minor_done" /\ gc_state = "SWEEPING" /\ gc_state' = "SWEEPING" /\ pc' = "run"
          /\ S \in SUBSET (unswept \cup raw_malloc_might_sweep) /\ Sweep(S, {})
          /\ unswept' = unswept \ S /\ raw_malloc_might_sweep' = raw_malloc_might_sweep \ S
          /\ {} \subseteq prebuilt_root_objects
      BY <1>1, <1>2 DEF free_unvisited_rawmalloc_objects_step
    <2>2. \A a \in old_rawmalloced_objects' : \/ a \in old_rawmalloced_objects
                                              \/ a \in S /\ Has(a, "VISITED")
      BY <1>2 DEF free_unvisited_rawmalloc_objects_step
    <2>3. UNCHANGED <<forw, roots, stopped, barrier, tracing, young_rawmalloced_objects,
                      shadows, pinning, work>>
      BY <1>2 DEF free_unvisited_rawmalloc_objects_step
    <2> QED
      BY <2>1, <2>2, <2>3, Swept
  <1>3. ASSUME NEW done \in BOOLEAN, mass_free_incremental(S, done)
        PROVE  IInv' /\ (gc_state' # "SWEEPING" => doomed' = {})
    <2> DEFINE cleared == IF done THEN prebuilt_root_objects ELSE {}
    <2>1. /\ pc = "minor_done" /\ gc_state = "SWEEPING" /\ pc' = "run"
          /\ S \in SUBSET (unswept \cup raw_malloc_might_sweep) /\ Sweep(S, cleared)
          /\ unswept' = unswept \ S /\ raw_malloc_might_sweep' = raw_malloc_might_sweep \ S
      BY <1>1, <1>3 DEF mass_free_incremental
    <2>2. cleared \subseteq prebuilt_root_objects
      OBVIOUS
    <2>3. \/ gc_state' = "SWEEPING"
          \/ /\ gc_state' \in {"FINALIZING", "SCANNING"} /\ cleared = prebuilt_root_objects
             /\ unswept' \cup raw_malloc_might_sweep' = {}
      BY <1>3 DEF mass_free_incremental, SweepLimit
    <2>4. UNCHANGED <<forw, roots, stopped, barrier, tracing, young_rawmalloced_objects,
                      old_rawmalloced_objects, shadows, pinning, work>>
      BY <1>3 DEF mass_free_incremental
    <2>5. \A a \in old_rawmalloced_objects' : \/ a \in old_rawmalloced_objects
                                              \/ a \in S /\ Has(a, "VISITED")
      BY <2>4
    <2> HIDE DEF cleared
    <2> QED
      BY <2>1, <2>2, <2>3, <2>4, <2>5, Swept
  <1> QED
    BY <1>2, <1>3

----------------------------------------------------------------------------
(* The minor collection.                                                   *)

LEMMA InPlaces ==
    ASSUME NEW S, NEW p, NEW i
    PROVE  <<p, i>> \in Places(S) <=> <<p, i>> \in S /\ Content(p, i) \in Young
  BY DEF Places, Young

LEMMA StartStep ==
    ASSUME IncMinimarkAssumption, IInv, NEW skip, StartMinor(skip)
    PROVE  IInv'
  <1> DEFINE black == IF Marking THEN {a \in old_objects_pointing_to_young
                                            \cup old_objects_pointing_to_pinned : Has(a, "VISITED")}
                                 ELSE {}
             todo == Places(({NULL} \X (roots \ skip)) \cup (old_objects_pointing_to_pinned \X Index))
  <1> USE Areas
  <1> USE DEF heap, header, barrier, tracing, raw, sweep, shadows, pinning, stack
  <1>1. /\ UNCHANGED <<kind, ptr, card, forw, roots, gc_state, old_objects_with_cards_set,
                       prebuilt_root_objects, objects_to_trace, young_rawmalloced_objects,
                       old_rawmalloced_objects, raw_malloc_might_sweep, unswept, doomed,
                       nursery_objects_shadows, updated_old_objects_pointing_to_pinned>>
        /\ pc = "run" /\ pc' = "cards" /\ InMinor' /\ ~InMajor' /\ ~InMinor /\ ~InMajor
        /\ surviving_pinned_objects' = {} /\ old_objects_pointing_to_pinned' = {}
        /\ (Marking' <=> Marking) /\ stopped' = {} /\ skip \subseteq stopped
    BY DEF StartMinor, InMinor, InMajor, Marking
  <1>2. old_objects_pointing_to_young \ young_rawmalloced_objects = old_objects_pointing_to_young
    <2>1. \A a \in young_rawmalloced_objects : a \in Addr /\ ~Has(a, "VISITED_RMY")
      BY <1>1 DEF IInv, YoungOK, ObjectsOK
    <2>2. \A a \in young_rawmalloced_objects : a \notin old_objects_pointing_to_young
      BY <2>1 DEF IInv, YoungOK
    <2> QED
      BY <2>2
  <1>3. /\ old_objects_pointing_to_young' = old_objects_pointing_to_young
        /\ flags' = [a \in Addr |-> IF a \in black THEN flags[a] \ {"VISITED"} ELSE flags[a]]
        /\ work' = todo
        /\ more_objects_to_trace' = more_objects_to_trace \cup black
             \cup {r \in roots \ skip : Marking /\ <<NULL, r>> \notin todo /\ Unmarked(flags'[r])}
    BY <1>2 DEF StartMinor
  <1>4. \A a \in black : /\ Marking /\ Has(a, "VISITED") /\ a \in Old /\ Live(a) /\ ~IsShadow(a)
                         /\ \/ a \in old_objects_pointing_to_young
                            \/ a \in old_objects_pointing_to_pinned
    BY DEF IInv, RememberedOK, PinnedOK, Live
  <1>5. \A a \in Addr : Marking /\ Has(a, "VISITED") /\ a \notin black =>
           /\ a \notin old_objects_pointing_to_young
           /\ a \notin old_objects_pointing_to_pinned
    OBVIOUS
  <1>6. \A r \in roots : <<NULL, r>> \in todo <=> r \in Young
    <2>1. ASSUME NEW r \in roots PROVE <<NULL, r>> \in todo <=> r \in Young
      <3>1. r \in skip => r \notin Young
        BY <1>1 DEF IInv, StoppedOK, Young
      <3>2. <<NULL, r>> \in todo <=> r \notin skip /\ r \in Young
        <4>1. NULL \notin old_objects_pointing_to_pinned
          BY DEF IInv, PinnedOK
        <4>2. Content(NULL, r) = r
          BY DEF Content
        <4> QED
          BY <4>1, <4>2, InPlaces
      <3> QED
        BY <3>1, <3>2
    <2> QED
      BY <2>1
  <1>7. \A a \in Old, i \in Index :
           <<a, i>> \in todo <=> a \in old_objects_pointing_to_pinned /\ ptr[a][i] \in Young
    <2>1. ASSUME NEW a \in Old, NEW i \in Index
          PROVE  <<a, i>> \in todo <=> a \in old_objects_pointing_to_pinned /\ ptr[a][i] \in Young
      <3>1. a # NULL
        OBVIOUS
      <3> QED
        BY <3>1, InPlaces DEF Content
    <2> QED
      BY <2>1
  <1>8. todo \subseteq ({NULL} \X roots) \cup (Old \X Index)
    BY DEF Places, IInv, PinnedOK
  <1> HIDE DEF black, todo
  <1>9. \A b \in Addr : \A f : f # "VISITED" => (Has(b, f)' <=> Has(b, f))
    BY <1>3 DEF Has
  <1>10. \A b \in Addr : Has(b, "VISITED")' <=> Has(b, "VISITED") /\ b \notin black
    BY <1>3 DEF Has
  <1>11. /\ \A b \in Addr : Has(b, "PINNED")' <=> Has(b, "PINNED")
         /\ \A b \in Addr : Has(b, "TRACK_YOUNG_PTRS")' <=> Has(b, "TRACK_YOUNG_PTRS")
    BY <1>9
  <1>12. /\ \A o \in Nursery : /\ forw[o] = NULL /\ o \notin surviving_pinned_objects
                               /\ ~Has(o, "VISITED") /\ flags'[o] = flags[o]
         /\ \A a \in Addr : ~Has(a, "VISITED_RMY")
         /\ work = {}
    BY <1>1, <1>3, <1>4 DEF IInv, NurseryOK, ObjectsOK, WorkOK
  <1>13. \A b : IsShadow(b)' <=> IsShadow(b)
    BY <1>1 DEF IsShadow
  <1>14. \A b \in Addr : Condemned(b)' <=> Condemned(b)
    BY <1>1, <1>4, <1>10 DEF Condemned, IInv, SweepOK, Marking
  <1>15. \A b \in Old : Forgotten(b)' <=> Forgotten(b)
    BY <1>1, <1>3, <1>11 DEF Forgotten, has_gcptr, IInv, PinnedOK
  <1>16. \A b : Live(b)' <=> Live(b)
    BY <1>1, <1>13, <1>14, <1>15 DEF Live
  <1>17. \A a \in roots : Live(a) /\ a \in Addr
    BY DEF IInv, RootsOK, Live
  <1>18. \A a \in Traced' : \/ a \in Traced \/ a \in black
                            \/ Marking /\ a \in roots /\ a \notin Young
    BY <1>1, <1>3, <1>6 DEF Traced
  <1>19. \A b \in Addr : KnownToMarking(b) => KnownToMarking(b)'
    BY <1>1, <1>3, <1>9, <1>10 DEF KnownToMarking, Traced
  <1>20. TypeOK'
    <2>1. flags' \in [Addr -> SUBSET Flag]
      BY <1>3 DEF IInv, TypeOK
    <2> QED
      BY <1>1, <2>1 DEF IInv, TypeOK
  <1>21. ObjectsOK'
    <2>1. \A b \in Addr : kind[b] = "free" => flags'[b] = {}
      BY <1>3 DEF IInv, ObjectsOK
    <2> QED
      BY <1>1, <1>9, <1>10, <1>12, <2>1 DEF IInv, ObjectsOK
  <1>22. NurseryOK'
    BY <1>1, <1>12 DEF IInv, NurseryOK, Has
  <1>23. ShadowsOK'
    <2>1. ASSUME NEW n \in Nursery, NEW s \in Heap, ShadowOK(n, s) PROVE ShadowOK(n, s)'
      BY <1>1, <1>10, <1>11, <1>14, <2>1 DEF ShadowOK
    <2> QED
      BY <1>1, <1>9, <2>1 DEF IInv, ShadowsOK, TypeOK
  <1>24. PrebuiltOK' /\ RootsOK'
    BY <1>1, <1>9, <1>16 DEF IInv, PrebuiltOK, RootsOK
  <1>25. RememberedOK'
    BY <1>1, <1>3, <1>11, <1>16 DEF IInv, RememberedOK, has_gcptr
  <1>26. CardsOK'
    BY <1>1, <1>9, <1>16 DEF IInv, CardsOK
  <1>27. PinnedOK'
    BY <1>1 DEF PinnedOK
  <1>28. YoungOK'
    <2>1. \A a \in young_rawmalloced_objects : a \notin black /\ a \notin Traced'
                                               /\ \A i \in Index : <<a, i>> \notin todo
      BY <1>4, <1>7, <1>12, <1>18 DEF IInv, YoungOK, Young
    <2> QED
      BY <1>1, <1>3, <1>9, <1>10, <1>12, <1>16, <2>1 DEF IInv, YoungOK
  <1>29. SweepOK'
    <2>1. \A b \in Old : Has(b, "VISITED")' => Has(b, "VISITED")
      BY <1>10
    <2> QED
      BY <1>1, <2>1 DEF IInv, SweepOK
  <1>30. ClosedOK'
    BY <1>1, <1>16 DEF IInv, ClosedOK
  <1>31. WorkOK'
    <2>1. \A a \in old_objects_pointing_to_young \cup old_objects_pointing_to_pinned :
             Live(a) /\ a \in Addr /\ (Marking => ~Has(a, "VISITED")')
      BY <1>5, <1>10 DEF IInv, RememberedOK, PinnedOK, Live
    <2> QED
      BY <1>1, <1>3, <1>7, <1>8, <1>16, <2>1 DEF WorkOK
  <1>32. RootsFirst'
    <2>1. \A a \in young_rawmalloced_objects : \A i \in Index : <<a, i>> \notin todo
      BY <1>7, <1>12 DEF IInv, YoungOK
    <2> QED
      BY <1>1, <1>3, <1>12, <2>1 DEF RootsFirst
  <1>33. YoungPointersKnown'
    <2>1. ASSUME NEW a \in Old, NEW i \in Index, Live(a), ptr[a][i] \in Young
          PROVE  \/ a \in old_objects_pointing_to_young \/ i \in card[a] \/ <<a, i>> \in todo
                 \/ Untouched(a)
      <3>1. ptr[a][i] \in Addr
        BY <2>1 DEF Young, IInv, YoungOK
      <3> QED
        BY <1>1, <1>7, <1>12, <2>1, <3>1 DEF IInv, YoungPointersKnown, Settled
    <2>2. ASSUME NEW a \in Old, Untouched(a) PROVE Untouched(a)'
      BY <1>1, <1>9, <2>2 DEF Untouched
    <2> QED
      BY <1>1, <1>3, <1>16, <2>1, <2>2 DEF YoungPointersKnown, Young
  <1>34. YoungRootsKnown'
    BY <1>1, <1>3, <1>6 DEF YoungRootsKnown, Young
  <1>35. BlackPointersKnown'
    <2>1. ASSUME Marking, NEW a \in Old, NEW i \in Index, Live(a), Has(a, "VISITED")',
                 ptr[a][i] # NULL
          PROVE  ptr[a][i] \in Addr /\ (KnownToMarking(ptr[a][i]) \/ i \in card[a])
      <3>1. /\ Has(a, "VISITED") /\ a \notin old_objects_pointing_to_young
            /\ a \notin old_objects_pointing_to_pinned
        BY <1>5, <1>10, <2>1
      <3> QED
        BY <1>1, <2>1, <3>1 DEF IInv, BlackPointersKnown, ClosedOK, Live
    <2> QED
      BY <1>1, <1>16, <1>19, <2>1 DEF BlackPointersKnown
  <1>36. RootsMarked'
    <2>1. ASSUME Marking, NEW r \in roots, <<NULL, r>> \notin todo PROVE KnownToMarking(r)'
      <3>1. r \in Old /\ r \in Addr
        BY <1>6, <1>17, <2>1 DEF Young
      <3>2. ~Has(r, "PINNED")'
        BY <1>1, <1>11, <1>17, <3>1 DEF IInv, PinnedOK, Live, Forgotten
      <3>5. CASE r \in skip
        BY <1>1, <1>19, <2>1, <3>1, <3>5 DEF IInv, StoppedOK
      <3>3. CASE r \notin skip /\ Unmarked(flags'[r])
        BY <1>3, <2>1, <3>3 DEF KnownToMarking, Traced
      <3>4. CASE ~Unmarked(flags'[r])
        BY <3>1, <3>2, <3>4 DEF Unmarked, KnownToMarking, Has
      <3> QED
        BY <3>3, <3>4, <3>5
    <2> QED
      BY <1>1, <1>3, <2>1 DEF RootsMarked
  <1>36a. StoppedOK'
    BY <1>1 DEF StoppedOK
  <1>37. GrayOK'
    <2>1. \A a \in Traced' : Marking /\ a \in Old /\ Live(a)
      BY <1>4, <1>17, <1>18 DEF IInv, GrayOK, Young
    <2> QED
      BY <1>1, <1>16, <2>1 DEF GrayOK
  <1>38. DoomedOK'
    <2>1. \A a \in doomed : a \in Addr /\ ~Has(a, "VISITED")' /\ a \notin Traced'
      BY <1>4, <1>10, <1>18 DEF IInv, DoomedOK
    <2> QED
      BY <1>1, <1>13, <2>1 DEF IInv, DoomedOK
  <1> QED
    BY <1>20, <1>21, <1>22, <1>23, <1>24, <1>25, <1>26, <1>27, <1>28, <1>29, <1>30, <1>31,
       <1>32, <1>33, <1>34, <1>35, <1>36, <1>36a, <1>37, <1>38 DEF IInv

LEMMA CardrefsStep ==
    ASSUME IncMinimarkAssumption, IInv, NEW o \in old_objects_with_cards_set,
           collect_cardrefs_to_nursery(o)
    PROVE  IInv'
  <1> USE Areas
  <1> USE DEF heap, header, barrier, tracing, raw, sweep, shadows, pinning, stack
  <1>1. /\ UNCHANGED <<kind, ptr, forw, roots, stopped, gc_state, old_objects_pointing_to_young,
                       prebuilt_root_objects, objects_to_trace, young_rawmalloced_objects,
                       old_rawmalloced_objects, raw_malloc_might_sweep, unswept, doomed,
                       nursery_objects_shadows, old_objects_pointing_to_pinned,
                       updated_old_objects_pointing_to_pinned, surviving_pinned_objects>>
        /\ pc' = "cards" /\ pc # "run" /\ InMinor' /\ ~InMajor' /\ InMinor /\ ~InMajor
        /\ old_objects_with_cards_set' = old_objects_with_cards_set \ {o}
        /\ (Marking' <=> Marking) /\ work = {}
    BY DEF collect_cardrefs_to_nursery, InMinor, InMajor, Marking
  <1>2. o \in Old /\ o \in Addr /\ Live(o) /\ ~IsShadow(o) /\ kind[o] = "large" /\ o \notin doomed
    BY DEF IInv, CardsOK, ObjectsOK, Live, DoomedOK
  <1>3. Has(o, "TRACK_YOUNG_PTRS")
    BY <1>2 DEF IInv, ObjectsOK
  <1>4. /\ work' = Places({o} \X card[o])
        /\ card' = [card EXCEPT ![o] = {}]
        /\ more_objects_to_trace' = IF Marking THEN more_objects_to_trace \cup {o}
                                               ELSE more_objects_to_trace
        /\ flags' = [flags EXCEPT ![o] = flags[o] \
                        (IF Marking THEN {"CARDS_SET", "VISITED"} ELSE {"CARDS_SET"})]
    BY <1>3 DEF collect_cardrefs_to_nursery, TurnGray, SetFlags
  <1>5. /\ card'[o] = {} /\ \A b \in Addr : b # o => card'[b] = card[b]
        /\ flags'[o] = flags[o] \ (IF Marking THEN {"CARDS_SET", "VISITED"} ELSE {"CARDS_SET"})
        /\ \A b \in Addr : b # o => flags'[b] = flags[b]
    BY <1>2, <1>4 DEF IInv, TypeOK
  <1>6. /\ \A b \in Addr : Has(b, "CARDS_SET")' <=> Has(b, "CARDS_SET") /\ b # o
        /\ \A b \in Addr : Has(b, "VISITED")' <=> Has(b, "VISITED") /\ ~(Marking /\ b = o)
    BY <1>5 DEF Has
  <1>7. \A b \in Addr : \A f \in {"NO_HEAP_PTRS", "TRACK_YOUNG_PTRS", "HAS_CARDS", "PINNED",
                                  "HAS_SHADOW", "VISITED_RMY"} : Has(b, f)' <=> Has(b, f)
    BY <1>5 DEF Has
  <1>8. \A a \in Old, i \in Index :
           <<a, i>> \in work' <=> a = o /\ i \in card[o] /\ ptr[o][i] \in Young
    <2>1. ASSUME NEW a \in Old, NEW i \in Index
          PROVE  <<a, i>> \in work' <=> a = o /\ i \in card[o] /\ ptr[o][i] \in Young
      <3>1. a # NULL
        OBVIOUS
      <3> QED
        BY <1>4, <3>1, InPlaces DEF Content
    <2> QED
      BY <2>1
  <1>9. work' \subseteq {o} \X card[o] /\ card[o] \subseteq Index
    BY <1>2, <1>4 DEF Places, IInv, TypeOK
  <1>10. \A b : IsShadow(b)' <=> IsShadow(b)
    BY <1>1 DEF IsShadow
  <1>11. \A b \in Addr : Condemned(b)' <=> Condemned(b)
    BY <1>1, <1>6 DEF Condemned, IInv, SweepOK, Marking
  <1>12. \A b \in Old : Forgotten(b)' <=> Forgotten(b)
    BY <1>1, <1>7 DEF Forgotten, has_gcptr
  <1>13. \A b : Live(b)' <=> Live(b)
    BY <1>1, <1>10, <1>11, <1>12 DEF Live
  <1>14. Traced \subseteq Traced' /\ \A a \in Traced' : a \in Traced \/ (Marking /\ a = o)
    BY <1>1, <1>4 DEF Traced
  <1>15. \A b \in Addr : KnownToMarking(b) => KnownToMarking(b)'
    <2>1. Marking => o \in Traced'
      BY <1>4 DEF Traced
    <2> QED
      BY <1>1, <1>6, <1>7, <1>14, <2>1 DEF KnownToMarking
  <1>16. o \in young_rawmalloced_objects => Has(o, "VISITED_RMY")
    BY DEF IInv, YoungOK
  <1>20. TypeOK'
    <2>1. flags' \in [Addr -> SUBSET Flag] /\ card' \in [Addr -> SUBSET Index]
      BY <1>2, <1>4 DEF IInv, TypeOK
    <2> QED
      BY <1>1, <2>1 DEF IInv, TypeOK
  <1>21. ObjectsOK'
    <2>1. \A b \in Addr : kind[b] = "free" => flags'[b] = {} /\ card'[b] = {}
      BY <1>2, <1>5 DEF IInv, ObjectsOK
    <2>2. \A b \in Addr : card'[b] # {} => Has(b, "CARDS_SET")'
      BY <1>5, <1>6 DEF IInv, ObjectsOK
    <2>3. \A b \in Addr : Has(b, "CARDS_SET")' =>
             \/ b \in old_objects_with_cards_set'
             \/ /\ b \in young_rawmalloced_objects' /\ ~Has(b, "VISITED_RMY")'
                /\ Has(b, "HAS_CARDS")'
      BY <1>1, <1>6, <1>7 DEF IInv, ObjectsOK
    <2>4. \A b \in Addr : Has(b, "NO_HEAP_PTRS")' =>
             /\ b \in Prebuilt /\ ptr[b] = NoPtr
             /\ ~Has(b, "VISITED")' /\ Has(b, "TRACK_YOUNG_PTRS")'
      BY <1>6, <1>7 DEF IInv, ObjectsOK
    <2> QED
      BY <1>1, <1>7, <2>1, <2>2, <2>3, <2>4 DEF IInv, ObjectsOK
  <1>22. NurseryOK'
    <2>1. \A n \in Nursery : flags'[n] = flags[n]
      BY <1>2, <1>5
    <2> QED
      BY <1>1, <1>13, <2>1 DEF IInv, NurseryOK, Has
  <1>23. ShadowsOK'
    <2>1. ASSUME NEW n \in Nursery, NEW s \in Heap, ShadowOK(n, s) PROVE ShadowOK(n, s)'
      BY <1>1, <1>6, <1>7, <1>11, <2>1 DEF ShadowOK
    <2> QED
      BY <1>1, <1>7, <2>1 DEF IInv, ShadowsOK, TypeOK
  <1>24. PrebuiltOK' /\ RootsOK'
    BY <1>1, <1>7, <1>13 DEF IInv, PrebuiltOK, RootsOK
  <1>25. RememberedOK'
    BY <1>1, <1>7, <1>13 DEF IInv, RememberedOK, has_gcptr
  <1>26. CardsOK'
    BY <1>1, <1>6, <1>7, <1>13 DEF IInv, CardsOK
  <1>27. PinnedOK'
    BY <1>1, <1>7, <1>13 DEF IInv, PinnedOK, has_gcptr
  <1>28. YoungOK'
    <2>1. \A a \in young_rawmalloced_objects : ~Has(a, "VISITED_RMY") =>
             a # o /\ a \notin Traced' /\ \A i \in Index : <<a, i>> \notin work'
      BY <1>8, <1>14, <1>16 DEF IInv, YoungOK
    <2> QED
      BY <1>1, <1>6, <1>7, <1>13, <2>1 DEF IInv, YoungOK
  <1>29. SweepOK'
    <2>1. \A b \in Old : Has(b, "VISITED")' => Has(b, "VISITED")
      BY <1>6
    <2> QED
      BY <1>1, <2>1 DEF IInv, SweepOK
  <1>30. ClosedOK'
    BY <1>1, <1>13 DEF IInv, ClosedOK
  <1>31. WorkOK'
    <2>1. Marking => ~Has(o, "VISITED")'
      BY <1>2, <1>6
    <2>2. Marking => \A a \in old_objects_pointing_to_young : ~Has(a, "VISITED")'
      BY <1>1, <1>6 DEF IInv, WorkOK, RememberedOK
    <2> QED
      BY <1>1, <1>2, <1>8, <1>9, <1>13, <2>1, <2>2 DEF WorkOK
  <1>32. RootsFirst'
    BY <1>2, <1>9 DEF RootsFirst
  <1>33. YoungPointersKnown'
    <2>1. ASSUME NEW b \in Young PROVE \A c : Settled(c, b) => Settled(c, b)'
      <3>1. b \in Addr
        BY DEF Young, IInv, YoungOK
      <3> QED
        BY <1>1, <1>7, <3>1 DEF Settled
    <2>2. ASSUME NEW a \in Old, NEW i \in Index, Live(a), ptr[a][i] \in Young
          PROVE  \/ a \in old_objects_pointing_to_young \/ i \in card'[a] \/ <<a, i>> \in work'
                 \/ Settled(a, ptr[a][i]) \/ Untouched(a)
      <3>1. CASE a = o
        BY <1>1, <1>8, <2>2, <3>1 DEF IInv, YoungPointersKnown
      <3>2. CASE a # o
        BY <1>1, <1>5, <2>2, <3>2 DEF IInv, YoungPointersKnown
      <3> QED
        BY <3>1, <3>2
    <2>3. ASSUME NEW a \in Old, Untouched(a) PROVE Untouched(a)'
      BY <1>1, <1>7, <2>3 DEF Untouched
    <2> QED
      BY <1>1, <1>13, <2>1, <2>2, <2>3 DEF YoungPointersKnown, Young
  <1>34. YoungRootsKnown'
    <2>1. \A r \in Young : Has(r, "VISITED_RMY")' <=> Has(r, "VISITED_RMY")
      BY <1>7 DEF Young, IInv, YoungOK
    <2> QED
      BY <1>1, <2>1 DEF IInv, YoungRootsKnown, Young
  <1>35. BlackPointersKnown'
    <2>1. ASSUME Marking, NEW a \in Old, NEW i \in Index, Live(a), Has(a, "VISITED")',
                 ptr[a][i] # NULL
          PROVE  ptr[a][i] \in Addr /\ (KnownToMarking(ptr[a][i]) \/ i \in card'[a])
      <3>1. Has(a, "VISITED") /\ a # o
        BY <1>6, <2>1
      <3> QED
        BY <1>1, <1>5, <2>1, <3>1 DEF IInv, BlackPointersKnown, ClosedOK, Live
    <2> QED
      BY <1>1, <1>13, <1>15, <2>1 DEF BlackPointersKnown
  <1>36. RootsMarked'
    <2>1. roots \subseteq Addr
      BY DEF IInv, RootsOK, Live
    <2> QED
      BY <1>1, <1>15, <2>1 DEF IInv, RootsMarked
  <1>36a. StoppedOK'
    BY <1>1 DEF IInv, StoppedOK
  <1>37. GrayOK'
    BY <1>1, <1>2, <1>13, <1>14 DEF IInv, GrayOK
  <1>38. DoomedOK'
    <2>1. \A a \in doomed : a \in Addr /\ ~Has(a, "VISITED")' /\ a \notin Traced'
      BY <1>2, <1>6, <1>14 DEF IInv, DoomedOK
    <2> QED
      BY <1>1, <1>10, <2>1 DEF IInv, DoomedOK
  <1> QED
    BY <1>20, <1>21, <1>22, <1>23, <1>24, <1>25, <1>26, <1>27, <1>28, <1>29, <1>30, <1>31,
       <1>32, <1>33, <1>34, <1>35, <1>36, <1>36a, <1>37, <1>38 DEF IInv

LEMMA OldrefsStep ==
    ASSUME IncMinimarkAssumption, IInv, NEW o \in old_objects_pointing_to_young,
           collect_oldrefs_to_nursery(o)
    PROVE  IInv'
  <1> USE Areas
  <1> USE DEF heap, header, barrier, tracing, raw, sweep, shadows, pinning, stack
  <1>1. /\ UNCHANGED <<kind, ptr, card, forw, roots, stopped, gc_state, old_objects_with_cards_set,
                       prebuilt_root_objects, objects_to_trace, more_objects_to_trace,
                       young_rawmalloced_objects, old_rawmalloced_objects,
                       raw_malloc_might_sweep, unswept, doomed,
                       nursery_objects_shadows, old_objects_pointing_to_pinned,
                       updated_old_objects_pointing_to_pinned, surviving_pinned_objects>>
        /\ pc' = "oldrefs" /\ pc # "run" /\ InMinor' /\ ~InMajor' /\ InMinor /\ ~InMajor
        /\ old_objects_pointing_to_young' = old_objects_pointing_to_young \ {o}
        /\ flags' = [flags EXCEPT ![o] = flags[o] \cup {"TRACK_YOUNG_PTRS"}]
        /\ work' = Places({o} \X Index)
        /\ (Marking' <=> Marking) /\ work = {}
    BY DEF collect_oldrefs_to_nursery, InMinor, InMajor, Marking, SetFlags
  <1>2. /\ o \in Old /\ o \in Addr /\ Live(o) /\ ~IsShadow(o) /\ ~Forgotten(o)
        /\ ~Has(o, "TRACK_YOUNG_PTRS") /\ kind[o] # "free"
    BY DEF IInv, RememberedOK, Live
  <1>3. /\ flags'[o] = flags[o] \cup {"TRACK_YOUNG_PTRS"}
        /\ \A b \in Addr : b # o => flags'[b] = flags[b]
    BY <1>1, <1>2 DEF IInv, TypeOK
  <1>4. \A b \in Addr : Has(b, "TRACK_YOUNG_PTRS")' <=> (Has(b, "TRACK_YOUNG_PTRS") \/ b = o)
    BY <1>3 DEF Has
  <1>5. \A b \in Addr : \A f \in {"NO_HEAP_PTRS", "CARDS_SET", "HAS_CARDS", "PINNED",
                                  "HAS_SHADOW", "VISITED", "VISITED_RMY"} :
           Has(b, f)' <=> Has(b, f)
    BY <1>3 DEF Has
  <1>6. \A a \in Old, i \in Index : <<a, i>> \in work' <=> a = o /\ ptr[o][i] \in Young
    <2>1. ASSUME NEW a \in Old, NEW i \in Index
          PROVE  <<a, i>> \in work' <=> a = o /\ ptr[o][i] \in Young
      <3>1. a # NULL
        OBVIOUS
      <3> QED
        BY <1>1, <3>1, InPlaces DEF Content
    <2> QED
      BY <2>1
  <1>7. work' \subseteq {o} \X Index
    BY <1>1 DEF Places
  <1>8. \A b : IsShadow(b)' <=> IsShadow(b)
    BY <1>1 DEF IsShadow
  <1>9. \A b \in Addr : Condemned(b)' <=> Condemned(b)
    BY <1>1, <1>5 DEF Condemned
  <1>10. \A b \in Old : Forgotten(b)' <=> Forgotten(b)
    BY <1>1, <1>2, <1>4, <1>5 DEF Forgotten, has_gcptr
  <1>11. \A b : Live(b)' <=> Live(b)
    BY <1>1, <1>8, <1>9, <1>10 DEF Live
  <1>12. \A b \in Addr : KnownToMarking(b) <=> KnownToMarking(b)'
    BY <1>1, <1>5 DEF KnownToMarking, Traced
  <1>13. o \in young_rawmalloced_objects => Has(o, "VISITED_RMY")
    BY DEF IInv, YoungOK
  <1>20. TypeOK'
    <2>1. flags' \in [Addr -> SUBSET Flag]
      BY <1>1, <1>2 DEF IInv, TypeOK, Flag
    <2> QED
      BY <1>1, <2>1 DEF IInv, TypeOK
  <1>21. ObjectsOK'
    <2>1. \A b \in Addr : kind[b] = "free" => flags'[b] = {}
      BY <1>2, <1>3 DEF IInv, ObjectsOK
    <2> QED
      BY <1>1, <1>4, <1>5, <2>1 DEF IInv, ObjectsOK
  <1>22. NurseryOK'
    <2>1. \A n \in Nursery : flags'[n] = flags[n]
      BY <1>2, <1>3
    <2> QED
      BY <1>1, <1>11, <2>1 DEF IInv, NurseryOK, Has
  <1>23. ShadowsOK'
    <2>1. ASSUME NEW n \in Nursery, NEW s \in Heap, ShadowOK(n, s), IsShadow(s) PROVE ShadowOK(n, s)'
      BY <1>1, <1>2, <1>4, <1>5, <1>9, <2>1 DEF ShadowOK
    <2> QED
      BY <1>1, <1>5, <2>1 DEF IInv, ShadowsOK, TypeOK, IsShadow
  <1>24. PrebuiltOK' /\ RootsOK'
    BY <1>1, <1>5, <1>11 DEF IInv, PrebuiltOK, RootsOK
  <1>25. RememberedOK'
    BY <1>1, <1>4, <1>11 DEF IInv, RememberedOK, has_gcptr
  <1>26. CardsOK'
    BY <1>1, <1>5, <1>11 DEF IInv, CardsOK
  <1>27. PinnedOK'
    BY <1>1, <1>5, <1>11 DEF IInv, PinnedOK, has_gcptr
  <1>28. YoungOK'
    <2>1. \A a \in young_rawmalloced_objects : ~Has(a, "VISITED_RMY") =>
             a # o /\ \A i \in Index : <<a, i>> \notin work'
      BY <1>6, <1>13 DEF IInv, YoungOK
    <2> QED
      BY <1>1, <1>4, <1>5, <1>11, <2>1 DEF IInv, YoungOK, Traced
  <1>29. SweepOK'
    <2>1. \A b \in Old : Has(b, "VISITED")' <=> Has(b, "VISITED")
      BY <1>5
    <2> QED
      BY <1>1, <2>1 DEF IInv, SweepOK
  <1>30. ClosedOK'
    BY <1>1, <1>11 DEF IInv, ClosedOK
  <1>31. WorkOK'
    <2>1. Marking => \A a \in old_objects_pointing_to_young : ~Has(a, "VISITED")'
      BY <1>1, <1>5 DEF IInv, WorkOK, RememberedOK
    <2> QED
      BY <1>1, <1>2, <1>6, <1>7, <1>11, <2>1 DEF WorkOK
  <1>32. RootsFirst'
    BY <1>2, <1>7 DEF RootsFirst
  <1>33. YoungPointersKnown'
    <2>1. ASSUME NEW b \in Young PROVE \A c : Settled(c, b) => Settled(c, b)'
      <3>1. b \in Addr
        BY DEF Young, IInv, YoungOK
      <3> QED
        BY <1>1, <1>5, <3>1 DEF Settled
    <2>2. ASSUME NEW a \in Old, NEW i \in Index, Live(a), ptr[a][i] \in Young
          PROVE  \/ a \in old_objects_pointing_to_young' \/ i \in card[a] \/ <<a, i>> \in work'
                 \/ Settled(a, ptr[a][i]) \/ Untouched(a)
      BY <1>1, <1>6, <2>2 DEF IInv, YoungPointersKnown
    <2>3. ASSUME NEW a \in Old, Untouched(a) PROVE Untouched(a)'
      <3>1. a # o
        BY <1>13, <2>3 DEF Untouched
      <3> QED
        BY <1>1, <1>4, <1>5, <2>3, <3>1 DEF Untouched
    <2> QED
      BY <1>1, <1>11, <2>1, <2>2, <2>3 DEF YoungPointersKnown, Young
  <1>34. YoungRootsKnown'
    <2>1. \A r \in Young : Has(r, "VISITED_RMY")' <=> Has(r, "VISITED_RMY")
      BY <1>5 DEF Young, IInv, YoungOK
    <2> QED
      BY <1>1, <2>1 DEF IInv, YoungRootsKnown, Young
  <1>35. BlackPointersKnown'
    <2>1. ASSUME Marking, NEW a \in Old, NEW i \in Index, Live(a), Has(a, "VISITED"),
                 ptr[a][i] # NULL
          PROVE  ptr[a][i] \in Addr /\ (KnownToMarking(ptr[a][i]) \/ i \in card[a])
      BY <1>1, <2>1 DEF IInv, BlackPointersKnown, ClosedOK, Live
    <2> QED
      BY <1>1, <1>5, <1>11, <1>12, <2>1 DEF BlackPointersKnown
  <1>36. RootsMarked'
    <2>1. roots \subseteq Addr
      BY DEF IInv, RootsOK, Live
    <2> QED
      BY <1>1, <1>12, <2>1 DEF IInv, RootsMarked
  <1>36a. StoppedOK'
    BY <1>1 DEF IInv, StoppedOK
  <1>37. GrayOK'
    BY <1>1, <1>11 DEF IInv, GrayOK, Traced
  <1>38. DoomedOK'
    <2>1. \A a \in doomed : a \in Addr /\ ~Has(a, "VISITED")'
      BY <1>5 DEF IInv, DoomedOK
    <2> QED
      BY <1>1, <1>8, <2>1 DEF IInv, DoomedOK, Traced
  <1> QED
    BY <1>20, <1>21, <1>22, <1>23, <1>24, <1>25, <1>26, <1>27, <1>28, <1>29, <1>30, <1>31,
       <1>32, <1>33, <1>34, <1>35, <1>36, <1>36a, <1>37, <1>38 DEF IInv

(* The end of the minor collection.  What dies is not live, because every  *)
(* young object that is pointed to by a live one was seen.                 *)
LEMMA FinishMinorStep ==
    ASSUME IncMinimarkAssumption, IInv, FinishMinor
    PROVE  IInv'
  <1> DEFINE pinned == surviving_pinned_objects
             marked == MarkShadows(pinned)
             seen == {a \in young_rawmalloced_objects : Has(a, "VISITED_RMY")}
             dead == (Nursery \ pinned) \cup (young_rawmalloced_objects \ seen)
             cleared(a) == (IF a \in pinned THEN {"VISITED"} ELSE {"VISITED_RMY"})
                           \cup (IF a \in old_objects_pointing_to_pinned THEN {"PINNED"} ELSE {})
  <1> USE Areas
  <1> USE DEF heap, header, barrier, tracing, raw, sweep, shadows, pinning, stack
  <1>1. /\ UNCHANGED <<roots, gc_state, old_objects_pointing_to_young,
                       old_objects_with_cards_set, prebuilt_root_objects, objects_to_trace,
                       more_objects_to_trace, raw_malloc_might_sweep, unswept,
                       old_objects_pointing_to_pinned,
                       updated_old_objects_pointing_to_pinned, work>>
        /\ InMinor /\ ~InMajor /\ pc' = "minor_done" /\ InMajor' /\ ~InMinor' /\ pc # "run"
        /\ work = {} /\ old_objects_with_cards_set = {} /\ old_objects_pointing_to_young = {}
        /\ young_rawmalloced_objects' = {} /\ surviving_pinned_objects' = {}
        /\ (Marking' <=> Marking) /\ stopped' = StoppedAt(surviving_pinned_objects)
    BY DEF FinishMinor, InMinor, InMajor, Marking
  <1>2. /\ nursery_objects_shadows' =
             [o \in Nursery |-> IF o \in pinned THEN nursery_objects_shadows[o] ELSE NULL]
        /\ old_rawmalloced_objects' = old_rawmalloced_objects \cup seen
        /\ forw' = [o \in Nursery |-> NULL]
        /\ kind' = [a \in Addr |-> IF a \in dead THEN "free" ELSE kind[a]]
        /\ ptr' = [a \in Addr |-> IF a \in dead THEN NoPtr ELSE ptr[a]]
        /\ card' = [a \in Addr |-> IF a \in dead THEN {} ELSE card[a]]
        /\ doomed' = doomed \ dead
    BY DEF FinishMinor, Free
  <1>3. flags' = [a \in Addr |-> IF a \in dead THEN {} ELSE
                     (flags[a] \ cleared(a)) \cup (IF a \in marked THEN {"VISITED"} ELSE {})]
    BY DEF FinishMinor, Free
  <1>4. /\ \A o \in Nursery : o \in dead <=> o \notin pinned
        /\ \A a \in Old : a \in dead <=> a \in young_rawmalloced_objects /\ ~Has(a, "VISITED_RMY")
        /\ \A a \in seen : a \in young_rawmalloced_objects /\ Has(a, "VISITED_RMY")
        /\ dead \subseteq Addr
    BY DEF IInv, YoungOK
  <1>5. \A a \in marked : \E o \in pinned : Marking /\ nursery_objects_shadows[o] = a /\ a # NULL
    BY DEF MarkShadows
  <1>6. Marking => \A o \in pinned : nursery_objects_shadows[o] # NULL =>
                      nursery_objects_shadows[o] \in marked
    BY DEF MarkShadows
  <1>7. \A o \in pinned : /\ o \in Nursery /\ forw[o] = NULL /\ Has(o, "PINNED") /\ Live(o)
                          /\ kind[o] = "leaf"
    BY DEF IInv, NurseryOK, TypeOK
  <1>8. \A a \in Addr : \A f \in Flag : a \notin dead => (Has(a, f)' <=>
           \/ Has(a, f) /\ f \notin cleared(a)
           \/ f = "VISITED" /\ a \in marked)
    BY <1>3 DEF Has
  <1>9. \A a \in Addr : \A f \in Flag :
           f \in cleared(a) <=> \/ f = "VISITED" /\ a \in pinned
                                \/ f = "VISITED_RMY" /\ a \notin pinned
                                \/ f = "PINNED" /\ a \in old_objects_pointing_to_pinned
    OBVIOUS
  <1> HIDE DEF marked, seen, dead, cleared
  <1>10. /\ \A a \in Addr : a \notin dead => (Has(a, "VISITED")' <=>
               (Has(a, "VISITED") /\ a \notin pinned) \/ a \in marked)
         /\ \A a \in Addr : a \notin dead => (Has(a, "PINNED")' <=>
               Has(a, "PINNED") /\ a \notin old_objects_pointing_to_pinned)
         /\ \A a \in Addr : ~Has(a, "VISITED_RMY")'
    <2>1. \A a \in pinned : ~Has(a, "VISITED_RMY")
      BY <1>7 DEF IInv, NurseryOK, Has
    <2>2. \A a \in dead : ~Has(a, "VISITED_RMY")'
      BY <1>3, <1>4 DEF Has
    <2> QED
      BY <1>8, <1>9, <2>1, <2>2 DEF Flag
  <1>11. \A a \in Addr : a \notin dead =>
            \A f \in {"NO_HEAP_PTRS", "TRACK_YOUNG_PTRS", "HAS_CARDS", "CARDS_SET",
                      "HAS_SHADOW"} : Has(a, f)' <=> Has(a, f)
    BY <1>8, <1>9 DEF Flag
  <1>12. \A a \in dead : /\ a \in Addr /\ kind'[a] = "free" /\ ptr'[a] = NoPtr
                         /\ card'[a] = {} /\ flags'[a] = {} /\ \A f : ~Has(a, f)'
    BY <1>2, <1>3, <1>4 DEF Has
  <1>13. \A a \in Addr : a \notin dead =>
            kind'[a] = kind[a] /\ ptr'[a] = ptr[a] /\ card'[a] = card[a]
    BY <1>2
  <1>14. \A o \in Nursery : forw'[o] = NULL
                            /\ (nursery_objects_shadows'[o] # NULL => o \in pinned)
                            /\ (o \in pinned => nursery_objects_shadows'[o] = nursery_objects_shadows[o])
    BY <1>2
  <1>15. \A a \in marked : Marking /\ IsShadow(a) /\ a \in Heap
    BY <1>5, <1>7 DEF IsShadow, IInv, TypeOK
  <1>16. \A a \in Addr : a \notin dead =>
            card[a] = {} /\ ~Has(a, "CARDS_SET")
    BY <1>1, <1>4 DEF IInv, ObjectsOK, YoungOK
  <1>17. \A b \in Addr : IsShadow(b)' => IsShadow(b)
    BY <1>7, <1>14 DEF IsShadow
  <1>18. \A b \in Addr : b \notin dead => (Condemned(b)' <=> Condemned(b))
    <2>1. \A b \in unswept \cup raw_malloc_might_sweep : b \notin marked /\ b \notin pinned
      BY <1>7, <1>15 DEF IInv, SweepOK, Marking
    <2> QED
      BY <1>1, <1>10, <2>1 DEF Condemned
  <1>19. \A b \in Old : b \notin dead => (Forgotten(b)' <=> Forgotten(b))
    <2>1. \A b \in young_rawmalloced_objects : b \notin dead => Has(b, "TRACK_YOUNG_PTRS")
      BY <1>1, <1>4 DEF IInv, YoungOK
    <2> QED
      BY <1>1, <1>10, <1>11, <1>13, <2>1 DEF Forgotten, has_gcptr
  <1>20. \A b \in Addr : b \notin dead /\ Live(b) => Live(b)'
    BY <1>13, <1>17, <1>18, <1>19 DEF Live
  <1>21. \A b \in Addr : Live(b)' => b \notin dead /\ (Live(b) \/ ptr[b] = NoPtr)
    <2>1. ASSUME NEW b \in Addr, Live(b)' PROVE b \notin dead
      BY <1>12, <2>1 DEF Live
    <2>2. ASSUME NEW b \in Addr, Live(b)', ~Live(b) PROVE ptr[b] = NoPtr
      <3>1. IsShadow(b)
        BY <1>13, <1>18, <1>19, <2>1, <2>2 DEF Live
      <3> QED
        BY <3>1 DEF IsShadow, IInv, ShadowsOK, ShadowOK
    <2> QED
      BY <2>1, <2>2
  <1>22. ASSUME NEW a \in Addr, NEW i \in Index, NEW c, Live(a)', c = ptr[a][i], c # NULL
         PROVE  /\ Live(a) /\ a \in Old /\ Live(c) /\ c \in Addr /\ c \notin dead
                /\ (c \in Nursery => a \in old_objects_pointing_to_pinned)
    <2>1. Live(a) /\ a \notin dead
      BY <1>21, <1>22 DEF NoPtr
    <2>2. a \in Old
      BY <1>4, <1>7, <1>22, <2>1 DEF IInv, ObjectsOK, NoPtr
    <2>3. Live(c) /\ c \in Addr
      BY <1>22, <2>1 DEF IInv, ClosedOK, Live
    <2>4. c \in Young => Settled(a, c)
      BY <1>1, <1>4, <1>16, <1>22, <2>1, <2>2 DEF IInv, YoungPointersKnown, Untouched
    <2>5. Has(c, "VISITED_RMY") => c \in young_rawmalloced_objects /\ c \in Old
      BY <2>3 DEF IInv, ObjectsOK, YoungOK
    <2> QED
      BY <1>1, <1>4, <2>1, <2>2, <2>3, <2>4, <2>5 DEF Settled, Young
  <1>23. \A r \in roots : Live(r) /\ r \in Addr /\ r \notin dead
    <2>1. \A r \in roots : Live(r) /\ r \in Addr
      BY DEF IInv, RootsOK, Live
    <2>2. \A r \in roots : r \in Young => r \in pinned \/ Has(r, "VISITED_RMY")
      BY <1>1 DEF IInv, YoungRootsKnown
    <2>3. \A r \in roots : Has(r, "VISITED_RMY") => r \in Old
      BY <2>1 DEF IInv, ObjectsOK, YoungOK
    <2> QED
      BY <1>4, <1>7, <2>1, <2>2, <2>3 DEF Young
  <1>24. \A a \in old_objects_pointing_to_pinned \cup Traced : a \in Old /\ Live(a) /\ a \notin dead
    BY <1>4 DEF IInv, PinnedOK, GrayOK, YoungOK
  <1>25. \A b \in Addr : b \notin dead /\ KnownToMarking(b) => KnownToMarking(b)'
    BY <1>1, <1>7, <1>10, <1>11 DEF KnownToMarking, Traced
  <1>30. TypeOK'
    <2>1. flags' \in [Addr -> SUBSET Flag]
      BY <1>3 DEF IInv, TypeOK, Flag
    <2>2. kind' \in [Addr -> {"free", "small", "large", "leaf"}]
      BY <1>2 DEF IInv, TypeOK
    <2>3. ptr' \in [Addr -> [Index -> Addr \cup {NULL}]]
      <3>1. NoPtr \in [Index -> Addr \cup {NULL}]
        BY DEF NoPtr
      <3> QED
        BY <1>2, <3>1 DEF IInv, TypeOK
    <2>4. card' \in [Addr -> SUBSET Index]
      BY <1>2 DEF IInv, TypeOK
    <2>5. /\ forw' \in [Nursery -> Heap \cup {NULL}]
          /\ nursery_objects_shadows' \in [Nursery -> Heap \cup {NULL}]
      BY <1>2 DEF IInv, TypeOK
    <2> QED
      BY <1>1, <2>1, <2>2, <2>3, <2>4, <2>5 DEF IInv, TypeOK
  <1>31. ObjectsOK'
    <2>1. ASSUME NEW a \in Addr, a \notin dead
          PROVE  /\ kind'[a] = "free" => flags'[a] = {} /\ card'[a] = {} /\ ptr'[a] = NoPtr
                 /\ kind'[a] = "leaf" => ptr'[a] = NoPtr
                 /\ kind'[a] = "large" => /\ "large" \in Kinds
                                          /\ Has(a, "HAS_CARDS")' /\ Has(a, "TRACK_YOUNG_PTRS")'
                 /\ Has(a, "HAS_CARDS")' => kind'[a] = "large"
                 /\ card'[a] = {} /\ ~Has(a, "CARDS_SET")' /\ ~Has(a, "VISITED_RMY")'
                 /\ Has(a, "NO_HEAP_PTRS")' =>
                      /\ a \in Prebuilt /\ ptr'[a] = NoPtr
                      /\ ~Has(a, "VISITED")' /\ Has(a, "TRACK_YOUNG_PTRS")'
      <3>1. kind'[a] = "free" => flags'[a] = {}
        <4>1. a \in marked => kind[a] # "free"
          BY <1>15 DEF IsShadow, IInv, ShadowsOK, ShadowOK
        <4> QED
          BY <1>3, <1>13, <2>1, <4>1 DEF IInv, ObjectsOK
      <3> QED
        BY <1>10, <1>11, <1>13, <1>15, <1>16, <2>1, <3>1 DEF IInv, ObjectsOK
    <2> QED
      BY <1>12, <2>1 DEF ObjectsOK
  <1>32. NurseryOK'
    <2>1. ASSUME NEW o \in Nursery, o \notin dead
          PROVE  /\ kind'[o] # "large" /\ flags'[o] \subseteq {"PINNED", "HAS_SHADOW", "VISITED"}
                 /\ kind'[o] = "leaf" /\ ~Has(o, "VISITED")' /\ Has(o, "PINNED")'
      <3>1. flags'[o] \subseteq {"PINNED", "HAS_SHADOW", "VISITED"}
        BY <1>3, <2>1 DEF IInv, NurseryOK
      <3>2. o \in pinned /\ o \notin marked /\ o \notin old_objects_pointing_to_pinned
        BY <1>4, <1>15, <1>24, <2>1
      <3> QED
        BY <1>7, <1>10, <1>13, <2>1, <3>1, <3>2
    <2> QED
      BY <1>1, <1>12, <1>14, <2>1 DEF NurseryOK
  <1>33. ShadowsOK'
    <2>1. ASSUME NEW o \in pinned, NEW s, s = nursery_objects_shadows[o], s # NULL
          PROVE  ShadowOK(o, s)'
      <3>1. ShadowOK(o, s) /\ IsShadow(s) /\ s \in Heap /\ o \in Nursery /\ s \notin pinned
        BY <1>7, <2>1 DEF IInv, ShadowsOK, TypeOK, IsShadow
      <3>2. s \notin dead /\ o \notin dead
        BY <1>4, <3>1 DEF IInv, YoungOK, Live
      <3> QED
        BY <1>1, <1>6, <1>7, <1>10, <1>11, <1>13, <1>18, <2>1, <3>1, <3>2 DEF ShadowOK
    <2>2. \A o \in Nursery : nursery_objects_shadows'[o] = NULL <=> ~Has(o, "HAS_SHADOW")'
      BY <1>4, <1>11, <1>12, <1>14 DEF IInv, ShadowsOK
    <2>3. \A o, n \in Nursery :
             nursery_objects_shadows'[o] = nursery_objects_shadows'[n] =>
                o = n \/ nursery_objects_shadows'[o] = NULL
      BY <1>14 DEF IInv, ShadowsOK
    <2>4. ASSUME NEW o \in Nursery, NEW s, s = nursery_objects_shadows'[o], s # NULL
          PROVE  ShadowOK(o, s)'
      BY <1>14, <2>1, <2>4
    <2> QED
      BY <2>2, <2>3, <2>4 DEF ShadowsOK
  <1>34. PrebuiltOK'
    <2>1. \A a \in Prebuilt : a \notin dead
      BY <1>4 DEF IInv, YoungOK
    <2> QED
      BY <1>1, <1>11, <1>13, <1>20, <2>1 DEF IInv, PrebuiltOK
  <1>35. RootsOK'
    BY <1>1, <1>20, <1>23 DEF RootsOK
  <1>36. RememberedOK' /\ CardsOK' /\ YoungOK'
    BY <1>1 DEF RememberedOK, CardsOK, YoungOK
  <1>37. PinnedOK'
    BY <1>1, <1>10, <1>13, <1>20, <1>24 DEF IInv, PinnedOK, has_gcptr
  <1>38. SweepOK'
    <2>1. \A a \in unswept \cup raw_malloc_might_sweep \cup old_rawmalloced_objects' :
             a \in Heap /\ kind'[a] # "free"
      BY <1>2, <1>4, <1>13 DEF IInv, SweepOK, YoungOK, Live
    <2>2. \A a \in unswept \cup raw_malloc_might_sweep : a \notin old_rawmalloced_objects'
      BY <1>2, <1>4 DEF IInv, SweepOK
    <2>3. ~Marking => \A b \in Old : Has(b, "VISITED")' => Has(b, "VISITED")
      BY <1>10, <1>12, <1>15
    <2> QED
      BY <1>1, <2>1, <2>2, <2>3 DEF IInv, SweepOK, Marking
  <1>39. ClosedOK'
    <2>1. ASSUME NEW a \in Addr, NEW i \in Index, NEW c, Live(a)', c = ptr'[a][i], c # NULL
          PROVE  Live(c)'
      BY <1>13, <1>20, <1>21, <1>22, <2>1
    <2> QED
      BY <2>1 DEF ClosedOK
  <1>40. WorkOK' /\ RootsFirst' /\ YoungRootsKnown'
    BY <1>1 DEF WorkOK, RootsFirst, YoungRootsKnown
  <1>41. YoungPointersKnown'
    <2>1. ASSUME NEW a \in Old, NEW i \in Index, Live(a)', ptr'[a][i] \in Nursery
          PROVE  a \in old_objects_pointing_to_pinned
      BY <1>13, <1>21, <1>22, <2>1
    <2> QED
      BY <1>1, <2>1 DEF YoungPointersKnown, Young, Settled
  <1>42. BlackPointersKnown'
    <2>1. ASSUME Marking, NEW a \in Old, NEW i \in Index, NEW c, c = ptr'[a][i],
                 Live(a)', Has(a, "VISITED")', c # NULL
          PROVE  KnownToMarking(c)'
      <3>1. a \notin dead /\ c = ptr[a][i]
        BY <1>13, <1>21, <2>1
      <3>2. Live(a) /\ c \in Addr /\ c \notin dead
        BY <1>22, <2>1, <3>1
      <3>3. Has(a, "VISITED") /\ i \notin card[a]
        BY <1>10, <1>15, <1>16, <2>1, <3>1, <3>2 DEF Live
      <3>4. KnownToMarking(c)
        BY <1>1, <2>1, <3>1, <3>2, <3>3 DEF IInv, BlackPointersKnown
      <3> QED
        BY <1>25, <3>2, <3>4
    <2> QED
      BY <1>1, <2>1 DEF BlackPointersKnown
  <1>43. RootsMarked'
    BY <1>1, <1>23, <1>25 DEF IInv, RootsMarked
  <1>43a. StoppedOK'
    <2>1. ASSUME surviving_pinned_objects = {}, NEW r \in roots
          PROVE  r \in Old /\ (Marking => KnownToMarking(r)')
      <3>1. r \in Old
        <4>1. r \in Young => Has(r, "VISITED_RMY")
          BY <1>1, <2>1 DEF IInv, YoungRootsKnown
        <4> QED
          BY <1>23, <4>1 DEF IInv, ObjectsOK, YoungOK, Young
      <3>2. Marking => KnownToMarking(r)
        BY <1>1, <3>1 DEF IInv, RootsMarked
      <3> QED
        BY <1>23, <1>25, <3>1, <3>2
    <2>2. stopped' = {} \/ (stopped' = roots /\ surviving_pinned_objects = {})
      BY <1>1 DEF StoppedAt
    <2> QED
      BY <1>1, <2>1, <2>2 DEF StoppedOK
  <1>44. GrayOK'
    BY <1>1, <1>20, <1>24 DEF IInv, GrayOK, Traced
  <1>45. DoomedOK'
    <2>1. \A a \in doomed : a \in Heap /\ a \notin dead /\ a \notin marked
      BY <1>4, <1>15 DEF IInv, DoomedOK
    <2>2. doomed' = doomed
      BY <1>2, <2>1
    <2>3. \A a \in doomed : kind'[a] # "free" /\ ~Has(a, "VISITED")' /\ ~IsShadow(a)'
      BY <1>10, <1>13, <1>17, <2>1 DEF IInv, DoomedOK
    <2>4. NULL \notin doomed
      BY <2>1
    <2>5. \A a \in Addr : \A i \in Index : a \notin doomed => ptr'[a][i] \notin doomed
      BY <1>12, <1>13, <2>4 DEF IInv, DoomedOK, NoPtr
    <2> QED
      BY <1>1, <1>14, <2>1, <2>2, <2>3, <2>4, <2>5 DEF IInv, DoomedOK, Traced
  <1> QED
    BY <1>30, <1>31, <1>32, <1>33, <1>34, <1>35, <1>36, <1>37, <1>38, <1>39, <1>40, <1>41,
       <1>42, <1>43, <1>43a, <1>44, <1>45 DEF IInv

(* The place <<p, i>> that _trace_drag_out is called for, and the young    *)
(* object o that it holds.                                                 *)
AtPlace(p, i, o) ==
    /\ <<p, i>> \in work /\ o = Content(p, i) /\ o \in Young

LEMMA AtRootOrObject ==
    ASSUME IncMinimarkAssumption, IInv, NEW p, NEW i, NEW o, AtPlace(p, i, o)
    PROVE  /\ InMinor /\ pc # "run" /\ ~InMajor
           /\ Live(o) /\ o \in Addr /\ o \notin doomed
           /\ p = NULL => i \in roots /\ o = i
           /\ p # NULL => /\ p \in Old /\ p \in Addr /\ i \in Index /\ o = ptr[p][i]
                          /\ Live(p) /\ ~IsShadow(p) /\ ~Forgotten(p)
                          /\ (Marking => ~Has(p, "VISITED"))
                          /\ kind[p] # "free" /\ kind[p] # "leaf" /\ ~Has(p, "NO_HEAP_PTRS")
  <1> USE Areas
  <1>1. InMinor /\ pc # "run" /\ ~InMajor
    BY DEF AtPlace, IInv, WorkOK, InMinor, InMajor
  <1>2. p = NULL => i \in roots /\ o = i
    BY DEF AtPlace, Content, IInv, WorkOK
  <1>3. p # NULL => p \in Old /\ i \in Index /\ o = ptr[p][i]
    BY DEF AtPlace, Content, IInv, WorkOK
  <1>4. p # NULL => Live(p) /\ (Marking => ~Has(p, "VISITED"))
    BY <1>3 DEF AtPlace, IInv, WorkOK
  <1>5. o \in Addr /\ o # NULL /\ o \notin doomed
    BY DEF AtPlace, Young, IInv, YoungOK, DoomedOK
  <1>6. Live(o)
    BY <1>2, <1>3, <1>4, <1>5 DEF IInv, RootsOK, ClosedOK
  <1>7. p # NULL => ptr[p] # NoPtr
    BY <1>3, <1>5 DEF NoPtr
  <1>8. p # NULL => kind[p] # "free" /\ kind[p] # "leaf" /\ ~Has(p, "NO_HEAP_PTRS")
    BY <1>3, <1>7 DEF IInv, ObjectsOK
  <1> QED
    BY <1>1, <1>2, <1>3, <1>4, <1>5, <1>6, <1>8 DEF Live

LEMMA ForwardedStep ==
    ASSUME IncMinimarkAssumption, IInv, NEW p, NEW i, NEW o, AtPlace(p, i, o),
           DragForwarded(p, i)
    PROVE  IInv'
  <1> DEFINE c == forw[o]
  <1> USE Areas
  <1> USE DEF heap, header, barrier, tracing, raw, sweep, shadows, pinning, stack
  <1>1. /\ UNCHANGED <<pc, kind, flags, card, forw, gc_state, old_objects_pointing_to_young,
                       old_objects_with_cards_set, prebuilt_root_objects, objects_to_trace,
                       young_rawmalloced_objects, old_rawmalloced_objects,
                       raw_malloc_might_sweep, unswept, doomed, nursery_objects_shadows,
                       old_objects_pointing_to_pinned, updated_old_objects_pointing_to_pinned,
                       surviving_pinned_objects, stopped>>
        /\ work' = work \ {<<p, i>>}
        /\ ptr' = IF p = NULL THEN ptr ELSE [ptr EXCEPT ![p][i] = c]
        /\ roots' = IF p = NULL THEN (roots \ {i}) \cup {c} ELSE roots
        /\ more_objects_to_trace' =
             IF Marking /\ p = NULL /\ Unmarked(flags[c]) THEN more_objects_to_trace \cup {c}
                                                         ELSE more_objects_to_trace
        /\ o \in Nursery /\ c # NULL
    BY DEF DragForwarded, Dragged, AddIf, AtPlace
  <1>2. /\ InMinor /\ pc # "run" /\ ~InMajor
        /\ Live(o) /\ o \in Addr /\ o \notin doomed
        /\ p = NULL => i \in roots /\ o = i
        /\ p # NULL => /\ p \in Old /\ p \in Addr /\ i \in Index /\ o = ptr[p][i]
                       /\ Live(p) /\ ~IsShadow(p) /\ ~Forgotten(p)
                       /\ (Marking => ~Has(p, "VISITED"))
                       /\ kind[p] # "free" /\ kind[p] # "leaf" /\ ~Has(p, "NO_HEAP_PTRS")
    BY AtRootOrObject
  <1>3. InMinor' /\ ~InMajor' /\ (Marking' <=> Marking) /\ <<p, i>> \in work
    BY <1>1, <1>2 DEF InMinor, InMajor, Marking, AtPlace
  <1>4. /\ c \in Heap /\ c \in Addr /\ Live(c) /\ c \notin young_rawmalloced_objects
        /\ c \notin doomed /\ c \notin Young /\ c \in Old
    BY <1>1 DEF IInv, NurseryOK, TypeOK, DoomedOK, Young
  <1>5. p = NULL => ~Has(c, "PINNED")
    <2>1. p = NULL => c \notin old_objects_pointing_to_pinned
      BY <1>1, <1>2, <1>3 DEF IInv, RootsFirst
    <2> QED
      BY <1>4, <2>1 DEF Live, Forgotten
  <1>6. /\ \A b \in Addr : b # p => ptr'[b] = ptr[b]
        /\ \A b \in Addr : \A j \in Index : ~(b = p /\ j = i) => ptr'[b][j] = ptr[b][j]
        /\ p # NULL => ptr'[p][i] = c
    BY <1>1, <1>2 DEF IInv, TypeOK
  <1> HIDE DEF c
  <1>7. \A b, f : Has(b, f)' <=> Has(b, f)
    BY <1>1 DEF Has
  <1>8. \A b : IsShadow(b)' <=> IsShadow(b)
    BY <1>1 DEF IsShadow
  <1>9. \A b : Condemned(b)' <=> Condemned(b)
    BY <1>1, <1>7 DEF Condemned
  <1>10. \A b : Live(b)' <=> Live(b)
    BY <1>1, <1>7, <1>8, <1>9 DEF Live, Forgotten, has_gcptr
  <1>11. Traced \subseteq Traced' /\ \A a \in Traced' : a \in Traced \/ (Marking /\ a = c)
    BY <1>1 DEF Traced
  <1>12. \A b : KnownToMarking(b) => KnownToMarking(b)'
    BY <1>1, <1>7, <1>11 DEF KnownToMarking
  <1>13. /\ \A r \in roots' : r \in roots \/ r = c
         /\ \A r \in roots : r \in roots' \/ (p = NULL /\ r = i)
    BY <1>1
  <1>14. \A q, j : <<q, j>> \in work' <=> <<q, j>> \in work /\ ~(q = p /\ j = i)
    BY <1>1
  <1>20. TypeOK'
    <2>1. ptr' \in [Addr -> [Index -> Addr \cup {NULL}]]
      BY <1>1, <1>4 DEF IInv, TypeOK
    <2> QED
      BY <1>1, <2>1 DEF IInv, TypeOK
  <1>21. ObjectsOK'
    BY <1>1, <1>2, <1>3, <1>6, <1>7 DEF IInv, ObjectsOK
  <1>22. NurseryOK'
    BY <1>1, <1>2, <1>3, <1>7, <1>10 DEF IInv, NurseryOK
  <1>23. ShadowsOK'
    <2>1. ASSUME NEW n \in Nursery, NEW s \in Heap, ShadowOK(n, s), IsShadow(s) PROVE ShadowOK(n, s)'
      <3>1. s # p
        BY <1>2, <2>1
      <3> QED
        BY <1>1, <1>3, <1>6, <1>7, <1>9, <2>1, <3>1 DEF ShadowOK
    <2> QED
      BY <1>1, <1>7, <2>1 DEF IInv, ShadowsOK, TypeOK, IsShadow
  <1>24. PrebuiltOK'
    BY <1>1, <1>7, <1>10 DEF IInv, PrebuiltOK
  <1>25. RootsOK'
    BY <1>4, <1>10, <1>13 DEF IInv, RootsOK
  <1>26. RememberedOK' /\ CardsOK'
    BY <1>1, <1>3, <1>7, <1>10 DEF IInv, RememberedOK, CardsOK, has_gcptr
  <1>27. PinnedOK'
    BY <1>1, <1>2, <1>3, <1>7, <1>10 DEF IInv, PinnedOK, has_gcptr
  <1>28. YoungOK'
    BY <1>1, <1>3, <1>4, <1>7, <1>10, <1>11 DEF IInv, YoungOK
  <1>29. SweepOK'
    BY <1>1, <1>7 DEF IInv, SweepOK
  <1>30. ClosedOK'
    <2>1. ASSUME NEW a \in Addr, NEW j \in Index, Live(a), ptr'[a][j] # NULL PROVE Live(ptr'[a][j])
      <3>1. CASE a = p /\ j = i
        BY <1>2, <1>4, <1>6, <3>1
      <3>2. CASE ~(a = p /\ j = i)
        BY <1>6, <2>1, <3>2 DEF IInv, ClosedOK
      <3> QED
        BY <3>1, <3>2
    <2> QED
      BY <1>10, <2>1 DEF ClosedOK
  <1>31. WorkOK'
    <2>1. \A q \in Old, j \in Index : <<q, j>> \in work' => Live(q) /\ (Marking => ~Has(q, "VISITED"))
      BY <1>14 DEF IInv, WorkOK
    <2>2. work' \subseteq ({NULL} \X roots') \cup (Old \X Index)
      BY <1>1, <1>13 DEF IInv, WorkOK
    <2>3. Marking => \A a \in old_objects_pointing_to_young : ~Has(a, "VISITED")
      BY <1>2 DEF IInv, WorkOK
    <2> QED
      BY <1>1, <1>3, <1>7, <1>10, <2>1, <2>2, <2>3 DEF WorkOK
  <1>32. RootsFirst'
    <2>1. \A r : <<NULL, r>> \in work' => r \in roots /\ <<NULL, r>> \in work
      BY <1>14 DEF IInv, WorkOK
    <2> QED
      BY <1>1, <1>14, <2>1 DEF IInv, RootsFirst
  <1>33. YoungPointersKnown'
    <2>1. ASSUME NEW b PROVE \A a : Settled(a, b) => Settled(a, b)'
      <3>1. Has(b, "VISITED_RMY")' <=> Has(b, "VISITED_RMY")
        BY <1>7
      <3> QED
        BY <1>1, <1>2, <1>3, <3>1 DEF Settled
    <2>2. ASSUME NEW a \in Old, NEW j \in Index, Live(a), ptr'[a][j] \in Young
          PROVE  \/ a \in old_objects_pointing_to_young \/ j \in card[a] \/ <<a, j>> \in work'
                 \/ Settled(a, ptr'[a][j]) \/ Untouched(a)
      <3>1. ~(a = p /\ j = i)
        BY <1>4, <1>6, <2>2
      <3> QED
        BY <1>6, <1>14, <2>2, <3>1 DEF IInv, YoungPointersKnown
    <2> QED
      BY <1>1, <1>7, <1>10, <2>1, <2>2 DEF YoungPointersKnown, Young, Untouched
  <1>34. YoungRootsKnown'
    <2>1. ASSUME NEW r \in roots', r \in Young
          PROVE  <<NULL, r>> \in work' \/ r \in surviving_pinned_objects \/ Has(r, "VISITED_RMY")
      <3>1. r \in roots /\ r # c
        BY <1>4, <1>13, <2>1
      <3>2. ~(p = NULL /\ r = i)
        BY <1>1, <3>1
      <3> QED
        BY <1>2, <1>14, <2>1, <3>1, <3>2 DEF IInv, YoungRootsKnown
    <2> QED
      BY <1>1, <1>7, <2>1 DEF YoungRootsKnown, Young
  <1>35. BlackPointersKnown'
    <2>1. ASSUME Marking, NEW a \in Old, NEW j \in Index, Live(a), Has(a, "VISITED"),
                 ptr'[a][j] # NULL
          PROVE  KnownToMarking(ptr'[a][j]) \/ j \in card[a]
      <3>1. a # p
        BY <1>2, <2>1
      <3> QED
        BY <1>2, <1>6, <2>1, <3>1 DEF IInv, BlackPointersKnown
    <2> QED
      BY <1>1, <1>3, <1>7, <1>10, <1>12, <2>1 DEF BlackPointersKnown
  <1>36. RootsMarked'
    <2>1. ASSUME Marking, NEW r \in roots'
          PROVE  KnownToMarking(r)' \/ <<NULL, r>> \in work' \/ r \in surviving_pinned_objects
      <3>1. CASE p = NULL /\ r = c
        <4>1. CASE Unmarked(flags[c])
          BY <1>1, <2>1, <3>1, <4>1 DEF KnownToMarking, Traced
        <4>2. CASE ~Unmarked(flags[c])
          <5>1. Has(c, "VISITED")
            BY <1>5, <3>1, <4>2 DEF Unmarked, Has
          <5> QED
            BY <1>4, <1>7, <3>1, <5>1 DEF KnownToMarking
        <4> QED
          BY <4>1, <4>2
      <3>2. CASE ~(p = NULL /\ r = c)
        <4>1. r \in roots /\ ~(p = NULL /\ r = i)
          BY <1>1, <3>2, <2>1
        <4>2. KnownToMarking(r) \/ <<NULL, r>> \in work \/ r \in surviving_pinned_objects
          BY <1>2, <2>1, <4>1 DEF IInv, RootsMarked
        <4> QED
          BY <1>12, <1>14, <4>1, <4>2
      <3> QED
        BY <3>1, <3>2
    <2>2. surviving_pinned_objects \subseteq Nursery
      BY DEF IInv, TypeOK
    <2> QED
      BY <1>1, <1>3, <2>1, <2>2 DEF RootsMarked
  <1>36a. StoppedOK'
    BY <1>1, <1>2 DEF IInv, StoppedOK
  <1>37. GrayOK'
    BY <1>1, <1>2, <1>3, <1>4, <1>10, <1>11 DEF IInv, GrayOK, InMinor
  <1>38. DoomedOK'
    <2>1. \A a \in doomed : a \notin roots' /\ a \notin Traced'
      BY <1>4, <1>11, <1>13 DEF IInv, DoomedOK
    <2>2. \A a \in Addr : \A j \in Index : a \notin doomed => ptr'[a][j] \notin doomed
      BY <1>4, <1>6 DEF IInv, DoomedOK
    <2> QED
      BY <1>1, <1>7, <1>8, <2>1, <2>2 DEF IInv, DoomedOK
  <1> QED
    BY <1>20, <1>21, <1>22, <1>23, <1>24, <1>25, <1>26, <1>27, <1>28, <1>29, <1>30, <1>31,
       <1>32, <1>33, <1>34, <1>35, <1>36, <1>36a, <1>37, <1>38 DEF IInv

(* The place holds the same object afterwards.                             *)
LEMMA SamePlace ==
    ASSUME IncMinimarkAssumption, IInv, NEW p, NEW i, NEW o, AtPlace(p, i, o),
           Dragged(p, i, ptr, o)
    PROVE  /\ ptr' = ptr /\ roots' = roots /\ work' = work \ {<<p, i>>}
           /\ more_objects_to_trace' =
                IF Marking /\ p = NULL /\ Unmarked(flags'[o]) THEN more_objects_to_trace \cup {o}
                                                              ELSE more_objects_to_trace
           /\ UNCHANGED <<pc, card, gc_state, prebuilt_root_objects, objects_to_trace, unswept,
                          doomed, nursery_objects_shadows, stopped>>
  <1>1. /\ p = NULL => i \in roots /\ o = i
        /\ p # NULL => p \in Addr /\ i \in Index /\ o = ptr[p][i]
    BY AtRootOrObject
  <1>2. ptr' = ptr
    BY <1>1 DEF Dragged, IInv, TypeOK
  <1>3. roots' = roots
    BY <1>1 DEF Dragged
  <1> QED
    BY <1>2, <1>3 DEF Dragged, AddIf, sweep, shadows

LEMMA VisitYoungStep ==
    ASSUME IncMinimarkAssumption, IInv, NEW p, NEW i, NEW o, AtPlace(p, i, o),
           _visit_young_rawmalloced_object(p, i)
    PROVE  IInv'
  <1> USE Areas
  <1> USE DEF pinning, raw
  <1>0. /\ o \in young_rawmalloced_objects /\ Dragged(p, i, ptr, o)
        /\ flags' = [flags EXCEPT ![o] = flags[o] \cup {"VISITED_RMY"}]
        /\ old_objects_pointing_to_young' =
             AddIf(old_objects_pointing_to_young,
                   ~Has(o, "VISITED_RMY") /\ ~Has(o, "TRACK_YOUNG_PTRS"), o)
        /\ old_objects_with_cards_set' =
             AddIf(old_objects_with_cards_set,
                   ~Has(o, "VISITED_RMY") /\ Has(o, "HAS_CARDS"), o)
        /\ UNCHANGED <<kind, forw, young_rawmalloced_objects, old_rawmalloced_objects,
                       raw_malloc_might_sweep, old_objects_pointing_to_pinned,
                       updated_old_objects_pointing_to_pinned, surviving_pinned_objects>>
    BY DEF _visit_young_rawmalloced_object, AtPlace, SetFlags
  <1>1. /\ UNCHANGED <<pc, kind, ptr, card, forw, roots, gc_state, prebuilt_root_objects,
                       objects_to_trace, young_rawmalloced_objects, old_rawmalloced_objects,
                       raw_malloc_might_sweep, unswept, doomed, nursery_objects_shadows,
                       old_objects_pointing_to_pinned, updated_old_objects_pointing_to_pinned,
                       surviving_pinned_objects, stopped>>
        /\ work' = work \ {<<p, i>>}
        /\ more_objects_to_trace' =
             IF Marking /\ p = NULL /\ Unmarked(flags'[o]) THEN more_objects_to_trace \cup {o}
                                                           ELSE more_objects_to_trace
    BY <1>0, SamePlace
  <1>2. /\ InMinor /\ pc # "run" /\ ~InMajor
        /\ Live(o) /\ o \in Addr /\ o \notin doomed
        /\ p = NULL => i \in roots /\ o = i
        /\ p # NULL => p \in Old /\ i \in Index /\ o = ptr[p][i]
    BY AtRootOrObject
  <1>3. InMinor' /\ ~InMajor' /\ (Marking' <=> Marking) /\ <<p, i>> \in work
    BY <1>1, <1>2 DEF InMinor, InMajor, Marking, AtPlace
  <1>4. /\ o \in Heap /\ o \in Old /\ kind[o] # "free" /\ ~IsShadow(o)
        /\ ~Has(o, "VISITED") /\ (Has(o, "HAS_CARDS") => kind[o] = "large")
    BY <1>0, <1>2 DEF IInv, YoungOK, ObjectsOK, Live
  <1>5. /\ \A b : b \in old_objects_pointing_to_young' <=>
              \/ b \in old_objects_pointing_to_young
              \/ b = o /\ ~Has(o, "VISITED_RMY") /\ ~Has(o, "TRACK_YOUNG_PTRS")
        /\ \A b : b \in old_objects_with_cards_set' <=>
              \/ b \in old_objects_with_cards_set
              \/ b = o /\ ~Has(o, "VISITED_RMY") /\ Has(o, "HAS_CARDS")
    BY <1>0 DEF AddIf
  <1>6. \A b \in Addr : \A f \in Flag :
           Has(b, f)' <=> (Has(b, f) \/ (b = o /\ f = "VISITED_RMY"))
    BY <1>0, <1>2 DEF Has, IInv, TypeOK
  <1>7. /\ \A b \in Addr : \A f \in {"NO_HEAP_PTRS", "TRACK_YOUNG_PTRS", "HAS_CARDS",
                                     "CARDS_SET", "PINNED", "HAS_SHADOW", "VISITED"} :
              Has(b, f)' <=> Has(b, f)
        /\ \A b \in Addr : Has(b, "VISITED_RMY")' <=> (Has(b, "VISITED_RMY") \/ b = o)
    BY <1>6 DEF Flag
  <1>8. \A b : IsShadow(b)' <=> IsShadow(b)
    BY <1>1 DEF IsShadow
  <1>9. \A b \in Addr : Condemned(b)' <=> Condemned(b)
    BY <1>1, <1>7 DEF Condemned
  <1>10. \A b \in Old : Forgotten(b)' <=> Forgotten(b)
    BY <1>0, <1>1, <1>5, <1>7 DEF Forgotten, has_gcptr
  <1>11. \A b : Live(b)' <=> Live(b)
    BY <1>1, <1>8, <1>9, <1>10 DEF Live
  <1>12. Traced \subseteq Traced' /\ \A a \in Traced' : a \in Traced \/ (Marking /\ a = o)
    BY <1>1 DEF Traced
  <1>13. \A b \in Addr : KnownToMarking(b) => KnownToMarking(b)'
    BY <1>1, <1>7, <1>12 DEF KnownToMarking
  <1>14. \A q, j : <<q, j>> \in work' <=> <<q, j>> \in work /\ ~(q = p /\ j = i)
    BY <1>1
  <1>15. p = NULL => ~Has(o, "PINNED")
    <2>1. p = NULL => o \notin old_objects_pointing_to_pinned
      BY <1>0, <1>2, <1>3 DEF IInv, RootsFirst
    <2> QED
      BY <1>2, <1>4, <2>1 DEF Live, Forgotten
  <1>20. TypeOK'
    <2>1. flags' \in [Addr -> SUBSET Flag]
      BY <1>0, <1>2 DEF IInv, TypeOK, Flag
    <2> QED
      BY <1>1, <2>1 DEF IInv, TypeOK
  <1>21. ObjectsOK'
    <2>1. \A b \in Addr : kind[b] = "free" => flags'[b] = {}
      BY <1>0, <1>4 DEF IInv, ObjectsOK, TypeOK
    <2>2. \A b \in Addr : Has(b, "CARDS_SET")' =>
             \/ b \in old_objects_with_cards_set'
             \/ /\ b \in young_rawmalloced_objects /\ ~Has(b, "VISITED_RMY")'
                /\ Has(b, "HAS_CARDS")'
      BY <1>5, <1>7 DEF IInv, ObjectsOK
    <2> QED
      BY <1>0, <1>1, <1>3, <1>7, <2>1, <2>2 DEF IInv, ObjectsOK
  <1>22. NurseryOK'
    <2>1. \A n \in Nursery : flags'[n] = flags[n]
      BY <1>0, <1>4 DEF IInv, TypeOK
    <2> QED
      BY <1>1, <1>2, <1>3, <1>11, <2>1 DEF IInv, NurseryOK, Has
  <1>23. ShadowsOK'
    <2>1. ASSUME NEW n \in Nursery, NEW s \in Heap, ShadowOK(n, s) PROVE ShadowOK(n, s)'
      BY <1>1, <1>3, <1>7, <1>9, <2>1 DEF ShadowOK
    <2> QED
      BY <1>1, <1>7, <2>1 DEF IInv, ShadowsOK, TypeOK
  <1>24. PrebuiltOK' /\ RootsOK'
    BY <1>1, <1>7, <1>11 DEF IInv, PrebuiltOK, RootsOK
  <1>25. RememberedOK'
    BY <1>0, <1>1, <1>2, <1>3, <1>4, <1>5, <1>7, <1>11 DEF IInv, RememberedOK, has_gcptr
  <1>26. CardsOK'
    <2>1. ~Has(o, "VISITED_RMY") /\ Has(o, "HAS_CARDS") => Has(o, "CARDS_SET")
      BY <1>0, <1>4 DEF IInv, YoungOK
    <2> QED
      BY <1>1, <1>2, <1>3, <1>4, <1>5, <1>7, <1>11, <2>1 DEF IInv, CardsOK
  <1>27. PinnedOK'
    BY <1>1, <1>2, <1>3, <1>7, <1>11 DEF IInv, PinnedOK, has_gcptr
  <1>28. YoungOK'
    <2>1. \A a \in young_rawmalloced_objects : ~Has(a, "VISITED_RMY")' =>
             /\ a # o /\ ~Has(a, "VISITED_RMY")
             /\ a \notin Traced' /\ a \notin old_objects_with_cards_set'
             /\ a \notin old_objects_pointing_to_young'
             /\ \A j \in Index : <<a, j>> \notin work'
      BY <1>5, <1>7, <1>12, <1>14 DEF IInv, YoungOK
    <2>2. \A a \in young_rawmalloced_objects :
             \/ Has(a, "TRACK_YOUNG_PTRS")' \/ ~Has(a, "VISITED_RMY")'
             \/ a \in old_objects_pointing_to_young'
      BY <1>2, <1>5, <1>7 DEF IInv, YoungOK
    <2> QED
      BY <1>1, <1>3, <1>7, <1>11, <2>1, <2>2 DEF IInv, YoungOK
  <1>29. SweepOK'
    <2>1. \A b \in Old : Has(b, "VISITED")' <=> Has(b, "VISITED")
      BY <1>7
    <2> QED
      BY <1>1, <2>1 DEF IInv, SweepOK
  <1>30. ClosedOK'
    BY <1>1, <1>11 DEF IInv, ClosedOK
  <1>31. WorkOK'
    <2>1. \A q \in Old, j \in Index : <<q, j>> \in work' =>
             Live(q) /\ (Marking => ~Has(q, "VISITED")')
      BY <1>7, <1>14 DEF IInv, WorkOK
    <2>2. work' \subseteq ({NULL} \X roots) \cup (Old \X Index)
      BY <1>1 DEF IInv, WorkOK
    <2>3. Marking => \A a \in old_objects_pointing_to_young' : ~Has(a, "VISITED")'
      BY <1>2, <1>4, <1>5, <1>7 DEF IInv, WorkOK, RememberedOK
    <2> QED
      BY <1>1, <1>3, <1>11, <2>1, <2>2, <2>3 DEF WorkOK
  <1>32. RootsFirst'
    BY <1>1, <1>14 DEF IInv, RootsFirst
  <1>33. YoungPointersKnown'
    <2>1. ASSUME NEW b \in Young PROVE \A a : Settled(a, b) \/ b = o => Settled(a, b)'
      <3>1. b \in Addr
        BY DEF Young, IInv, YoungOK
      <3> QED
        BY <1>1, <1>2, <1>3, <1>7, <3>1 DEF Settled
    <2>2. ASSUME NEW a \in Old, NEW j \in Index, Live(a), ptr[a][j] \in Young
          PROVE  \/ a \in old_objects_pointing_to_young \/ j \in card[a] \/ <<a, j>> \in work'
                 \/ Settled(a, ptr[a][j]) \/ ptr[a][j] = o \/ Untouched(a)
      BY <1>2, <1>14, <2>2 DEF IInv, YoungPointersKnown
    <2>3. \A a \in Old : Untouched(a) => Untouched(a)' \/ a \in old_objects_pointing_to_young'
      BY <1>1, <1>5, <1>7 DEF Untouched
    <2> QED
      BY <1>1, <1>5, <1>11, <2>1, <2>2, <2>3 DEF YoungPointersKnown, Young
  <1>34. YoungRootsKnown'
    <2>1. \A r \in Young : Has(r, "VISITED_RMY") \/ r = o => Has(r, "VISITED_RMY")'
      BY <1>7 DEF Young, IInv, YoungOK
    <2> QED
      BY <1>1, <1>2, <1>14, <2>1 DEF IInv, YoungRootsKnown, Young
  <1>35. BlackPointersKnown'
    <2>1. ASSUME Marking, NEW a \in Old, NEW j \in Index, Live(a), Has(a, "VISITED"),
                 ptr[a][j] # NULL
          PROVE  ptr[a][j] \in Addr /\ (KnownToMarking(ptr[a][j]) \/ j \in card[a])
      BY <1>2, <2>1 DEF IInv, BlackPointersKnown, ClosedOK, Live
    <2> QED
      BY <1>1, <1>3, <1>7, <1>11, <1>13, <2>1 DEF BlackPointersKnown
  <1>36. RootsMarked'
    <2>1. ASSUME Marking, NEW r \in roots
          PROVE  KnownToMarking(r)' \/ <<NULL, r>> \in work' \/ r \in surviving_pinned_objects
      <3>1. CASE p = NULL /\ r = o
        <4>1. CASE Unmarked(flags'[o])
          BY <1>1, <2>1, <3>1, <4>1 DEF KnownToMarking, Traced
        <4>2. CASE ~Unmarked(flags'[o])
          <5>1. Has(o, "VISITED")'
            BY <1>2, <1>7, <1>15, <3>1, <4>2 DEF Unmarked, Has
          <5> QED
            BY <1>4, <3>1, <5>1 DEF KnownToMarking
        <4> QED
          BY <4>1, <4>2
      <3>2. CASE ~(p = NULL /\ r = o)
        <4>1. KnownToMarking(r) \/ <<NULL, r>> \in work \/ r \in surviving_pinned_objects
          BY <1>2, <2>1 DEF IInv, RootsMarked
        <4>2. r \in Addr
          BY DEF IInv, RootsOK, Live
        <4> QED
          BY <1>2, <1>13, <1>14, <3>2, <4>1, <4>2
      <3> QED
        BY <3>1, <3>2
    <2>2. surviving_pinned_objects \subseteq Nursery
      BY DEF IInv, TypeOK
    <2> QED
      BY <1>1, <1>3, <2>1, <2>2 DEF RootsMarked
  <1>36a. StoppedOK'
    BY <1>1, <1>2 DEF IInv, StoppedOK
  <1>37. GrayOK'
    BY <1>1, <1>2, <1>3, <1>4, <1>11, <1>12 DEF IInv, GrayOK, InMinor
  <1>38. DoomedOK'
    <2>1. \A a \in doomed : /\ a \in Addr /\ a \notin Traced' /\ a \notin old_objects_with_cards_set'
                            /\ ~Has(a, "VISITED")'
      BY <1>2, <1>5, <1>7, <1>12 DEF IInv, DoomedOK
    <2> QED
      BY <1>1, <1>8, <2>1 DEF IInv, DoomedOK
  <1> QED
    BY <1>20, <1>21, <1>22, <1>23, <1>24, <1>25, <1>26, <1>27, <1>28, <1>29, <1>30, <1>31,
       <1>32, <1>33, <1>34, <1>35, <1>36, <1>36a, <1>37, <1>38 DEF IInv

LEMMA PinnedStep ==
    ASSUME IncMinimarkAssumption, IInv, NEW p, NEW i, NEW o, AtPlace(p, i, o),
           DragPinned(p, i)
    PROVE  IInv'
  <1> DEFINE new == p # NULL /\ ~Has(p, "PINNED")
  <1> USE Areas
  <1>0. /\ o \in Nursery /\ forw[o] = NULL /\ Has(o, "PINNED") /\ Dragged(p, i, ptr, o)
        /\ flags' = [flags EXCEPT ![o] = @ \cup {"VISITED"},
                                  ![IF new THEN p ELSE o] = @ \cup {"PINNED"}]
        /\ old_objects_pointing_to_pinned' = IF new THEN old_objects_pointing_to_pinned \cup {p}
                                                    ELSE old_objects_pointing_to_pinned
        /\ updated_old_objects_pointing_to_pinned' =
             (updated_old_objects_pointing_to_pinned \/ new)
        /\ surviving_pinned_objects' = surviving_pinned_objects \cup {o}
        /\ UNCHANGED <<kind, forw, old_objects_pointing_to_young, old_objects_with_cards_set,
                       young_rawmalloced_objects, old_rawmalloced_objects,
                       raw_malloc_might_sweep>>
    BY DEF DragPinned, AtPlace, AddIf, raw
  <1>2. /\ InMinor /\ pc # "run" /\ ~InMajor
        /\ Live(o) /\ o \in Addr /\ o \notin doomed
        /\ p = NULL => i \in roots /\ o = i
        /\ p # NULL => /\ p \in Old /\ p \in Addr /\ i \in Index /\ o = ptr[p][i]
                       /\ Live(p) /\ ~IsShadow(p) /\ ~Forgotten(p)
                       /\ (Marking => ~Has(p, "VISITED"))
                       /\ kind[p] # "free" /\ kind[p] # "leaf" /\ ~Has(p, "NO_HEAP_PTRS")
    BY AtRootOrObject
  <1>4. \A b \in Addr : \A f \in Flag :
           Has(b, f)' <=> \/ Has(b, f) \/ (b = o /\ f = "VISITED")
                          \/ (new /\ b = p /\ f = "PINNED")
    <2>1. CASE new
      BY <1>0, <1>2, <2>1 DEF Has, IInv, TypeOK
    <2>2. CASE ~new
      BY <1>0, <1>2, <2>2 DEF Has, IInv, TypeOK
    <2> QED
      BY <2>1, <2>2
  <1>5. flags' \in [Addr -> SUBSET Flag]
    <2>1. CASE new
      BY <1>0, <1>2, <2>1 DEF IInv, TypeOK, Flag
    <2>2. CASE ~new
      BY <1>0, <1>2, <2>2 DEF IInv, TypeOK, Flag
    <2> QED
      BY <2>1, <2>2
  <1>6. \A b \in Addr : b # o /\ ~(new /\ b = p) => flags'[b] = flags[b]
    <2>1. CASE new
      BY <1>0, <1>2, <2>1 DEF IInv, TypeOK
    <2>2. CASE ~new
      BY <1>0, <1>2, <2>2 DEF IInv, TypeOK
    <2> QED
      BY <2>1, <2>2
  <1>7. p # NULL /\ ~new => p \in old_objects_pointing_to_pinned
    BY <1>2 DEF Forgotten
  <1>7a. new => p # NULL
    OBVIOUS
  <1>7b. ~Unmarked(flags'[o])
    BY <1>2, <1>0, <1>4 DEF Unmarked, Has, Flag
  <1> HIDE DEF new
  <1>1. /\ UNCHANGED <<pc, kind, ptr, card, forw, roots, gc_state, prebuilt_root_objects,
                       objects_to_trace, more_objects_to_trace, young_rawmalloced_objects,
                       old_rawmalloced_objects, raw_malloc_might_sweep, unswept, doomed,
                       nursery_objects_shadows, old_objects_pointing_to_young,
                       old_objects_with_cards_set, stopped>>
        /\ work' = work \ {<<p, i>>}
    BY <1>0, <1>7b, SamePlace
  <1>3. InMinor' /\ ~InMajor' /\ (Marking' <=> Marking) /\ <<p, i>> \in work
    BY <1>1, <1>2 DEF InMinor, InMajor, Marking, AtPlace
  <1>8. /\ \A b \in Addr : \A f \in {"NO_HEAP_PTRS", "TRACK_YOUNG_PTRS", "HAS_CARDS",
                                     "CARDS_SET", "VISITED_RMY", "HAS_SHADOW"} :
              Has(b, f)' <=> Has(b, f)
        /\ \A b \in Addr : Has(b, "VISITED")' <=> (Has(b, "VISITED") \/ b = o)
        /\ \A b \in Addr : Has(b, "PINNED")' <=> (Has(b, "PINNED") \/ (new /\ b = p))
    BY <1>4 DEF Flag
  <1>9. \A b \in Old : Has(b, "VISITED")' <=> Has(b, "VISITED")
    BY <1>0, <1>8
  <1>10. \A b : IsShadow(b)' <=> IsShadow(b)
    BY <1>1 DEF IsShadow
  <1>11. \A b \in Addr : Condemned(b)' <=> Condemned(b)
    BY <1>0, <1>1, <1>8 DEF Condemned, IInv, SweepOK
  <1>12. \A b \in Old : Forgotten(b)' <=> Forgotten(b)
    BY <1>0, <1>1, <1>2, <1>7a, <1>8 DEF Forgotten, has_gcptr
  <1>13. \A b : Live(b)' <=> Live(b)
    BY <1>1, <1>10, <1>11, <1>12 DEF Live
  <1>14. \A b \in Addr : KnownToMarking(b) => KnownToMarking(b)'
    BY <1>1, <1>8 DEF KnownToMarking, Traced
  <1>15. \A q, j : <<q, j>> \in work' <=> <<q, j>> \in work /\ ~(q = p /\ j = i)
    BY <1>1
  <1>16. updated_old_objects_pointing_to_pinned => updated_old_objects_pointing_to_pinned' = TRUE
    BY <1>0, Zenon
  <1>16a. new => updated_old_objects_pointing_to_pinned' = TRUE
    BY <1>0, Zenon
  <1>20. TypeOK'
    <2>1. updated_old_objects_pointing_to_pinned' \in BOOLEAN
      BY <1>0, Zenon
    <2> QED
      BY <1>0, <1>1, <1>5, <2>1 DEF IInv, TypeOK
  <1>21. ObjectsOK'
    <2>1. \A b \in Addr : kind[b] = "free" => flags'[b] = {}
      <3>1. kind[o] # "free"
        BY <1>2 DEF Live
      <3> QED
        BY <1>2, <1>6, <1>7a, <3>1 DEF IInv, ObjectsOK
    <2>2. ~Has(o, "NO_HEAP_PTRS")
      BY <1>0 DEF IInv, NurseryOK, Has
    <2> QED
      BY <1>1, <1>3, <1>8, <2>1, <2>2 DEF IInv, ObjectsOK, InMinor
  <1>22. NurseryOK'
    <2>1. \A n \in Nursery : /\ n # o => flags'[n] = flags[n]
                             /\ flags'[n] \subseteq {"PINNED", "HAS_SHADOW", "VISITED"}
      <3>1. \A n \in Nursery : n # o => flags'[n] = flags[n]
        BY <1>2, <1>6, <1>7a
      <3>2. flags'[o] \subseteq {"PINNED", "HAS_SHADOW", "VISITED"}
        BY <1>0, <1>2, <1>4, <1>5 DEF IInv, NurseryOK, Has
      <3> QED
        BY <3>1, <3>2 DEF IInv, NurseryOK
    <2>2. \A n \in Nursery : Has(n, "PINNED")' <=> Has(n, "PINNED")
      BY <1>2, <1>7a, <1>8
    <2> QED
      BY <1>0, <1>1, <1>2, <1>3, <1>8, <1>13, <2>1, <2>2, ZenonT(30) DEF IInv, NurseryOK
  <1>23. ShadowsOK'
    <2>1. ASSUME NEW n \in Nursery, NEW s \in Heap, ShadowOK(n, s) PROVE ShadowOK(n, s)'
      BY <1>0, <1>1, <1>3, <1>8, <1>11, <2>1 DEF ShadowOK
    <2> QED
      BY <1>1, <1>8, <2>1 DEF IInv, ShadowsOK, TypeOK
  <1>24. PrebuiltOK' /\ RootsOK'
    BY <1>1, <1>8, <1>13 DEF IInv, PrebuiltOK, RootsOK
  <1>25. RememberedOK' /\ CardsOK'
    BY <1>1, <1>3, <1>8, <1>13 DEF IInv, RememberedOK, CardsOK, has_gcptr
  <1>26. PinnedOK'
    <2>1. \A a \in old_objects_pointing_to_pinned' :
             /\ a \in Old /\ Live(a) /\ kind[a] # "leaf"
             /\ updated_old_objects_pointing_to_pinned' = TRUE
      BY <1>0, <1>2, <1>7a, <1>16, <1>16a DEF IInv, PinnedOK, has_gcptr
    <2> QED
      BY <1>1, <1>3, <1>13, <2>1 DEF PinnedOK, has_gcptr
  <1>27. YoungOK'
    <2>1. \A a \in young_rawmalloced_objects : ~Has(a, "VISITED_RMY") =>
             a \notin old_objects_pointing_to_pinned'
      <3>1. \A a \in young_rawmalloced_objects : ~Has(a, "VISITED_RMY") =>
               a \notin old_objects_pointing_to_pinned /\ \A j \in Index : <<a, j>> \notin work
        BY DEF IInv, YoungOK
      <3> QED
        BY <1>0, <1>2, <1>3, <1>7a, <3>1
    <2> QED
      BY <1>1, <1>3, <1>8, <1>9, <1>13, <2>1 DEF IInv, YoungOK, Traced
  <1>28. SweepOK'
    BY <1>1, <1>9 DEF IInv, SweepOK
  <1>29. ClosedOK'
    BY <1>1, <1>13 DEF IInv, ClosedOK
  <1>30. WorkOK'
    <2>1. \A q \in Old, j \in Index : <<q, j>> \in work' =>
             Live(q) /\ (Marking => ~Has(q, "VISITED")')
      BY <1>9, <1>15 DEF IInv, WorkOK
    <2>2. work' \subseteq ({NULL} \X roots) \cup (Old \X Index)
      BY <1>1 DEF IInv, WorkOK
    <2>3. Marking => \A a \in old_objects_pointing_to_young : ~Has(a, "VISITED")'
      BY <1>2, <1>9 DEF IInv, WorkOK, RememberedOK
    <2> QED
      BY <1>1, <1>3, <1>13, <2>1, <2>2, <2>3 DEF WorkOK
  <1>31. RootsFirst'
    <2>1. ASSUME NEW r \in roots, <<NULL, r>> \in work
          PROVE  /\ \A n \in Nursery : forw[n] \notin old_objects_pointing_to_pinned'
                 /\ \A a \in young_rawmalloced_objects : a \notin old_objects_pointing_to_pinned'
      <3>1. /\ \A n \in Nursery : forw[n] \notin old_objects_pointing_to_pinned
            /\ \A a \in young_rawmalloced_objects : a \notin old_objects_pointing_to_pinned
        BY <2>1 DEF IInv, RootsFirst
      <3>2. p # NULL => /\ \A n \in Nursery : forw[n] # p
                        /\ p \notin young_rawmalloced_objects
        BY <1>2, <1>3, <2>1 DEF IInv, RootsFirst
      <3> QED
        BY <1>0, <1>7a, <3>1, <3>2
    <2> QED
      BY <1>1, <1>15, <2>1 DEF IInv, RootsFirst
  <1>32. YoungPointersKnown'
    <2>1. ASSUME NEW b \in Young PROVE \A a : Settled(a, b) => Settled(a, b)'
      <3>1. b \in Addr
        BY DEF Young, IInv, YoungOK
      <3> QED
        BY <1>0, <1>2, <1>3, <1>8, <3>1 DEF Settled
    <2>2. p # NULL => Settled(p, o)'
      BY <1>0, <1>7 DEF Settled
    <2>3. ASSUME NEW a \in Old, NEW j \in Index, Live(a), ptr[a][j] \in Young
          PROVE  \/ a \in old_objects_pointing_to_young \/ j \in card[a] \/ <<a, j>> \in work'
                 \/ Settled(a, ptr[a][j]) \/ (a = p /\ ptr[a][j] = o) \/ Untouched(a)
      BY <1>2, <1>15, <2>3 DEF IInv, YoungPointersKnown
    <2>4. \A a \in Old : Untouched(a) => Untouched(a)'
      BY <1>1, <1>8 DEF Untouched
    <2> QED
      BY <1>1, <1>13, <2>1, <2>2, <2>3, <2>4 DEF YoungPointersKnown, Young
  <1>33. YoungRootsKnown'
    <2>1. \A r \in Young : Has(r, "VISITED_RMY") => Has(r, "VISITED_RMY")'
      BY <1>8 DEF Young, IInv, YoungOK
    <2> QED
      BY <1>0, <1>1, <1>2, <1>15, <2>1 DEF IInv, YoungRootsKnown, Young
  <1>34. BlackPointersKnown'
    <2>1. ASSUME Marking, NEW a \in Old, NEW j \in Index, Live(a), Has(a, "VISITED"),
                 ptr[a][j] # NULL
          PROVE  ptr[a][j] \in Addr /\ (KnownToMarking(ptr[a][j]) \/ j \in card[a])
      BY <1>2, <2>1 DEF IInv, BlackPointersKnown, ClosedOK, Live
    <2> QED
      BY <1>1, <1>3, <1>9, <1>13, <1>14, <2>1 DEF BlackPointersKnown
  <1>35. RootsMarked'
    <2>1. roots \subseteq Addr
      BY DEF IInv, RootsOK, Live
    <2> QED
      BY <1>0, <1>1, <1>2, <1>3, <1>14, <1>15, <2>1 DEF IInv, RootsMarked
  <1>35a. StoppedOK'
    BY <1>1, <1>2 DEF IInv, StoppedOK
  <1>36. GrayOK'
    BY <1>1, <1>2, <1>3, <1>13 DEF IInv, GrayOK, Traced, InMinor
  <1>37. DoomedOK'
    <2>1. \A a \in doomed : a \in Old /\ ~Has(a, "VISITED")'
      BY <1>9 DEF IInv, DoomedOK
    <2> QED
      BY <1>1, <1>10, <2>1 DEF IInv, DoomedOK, Traced
  <1> QED
    BY <1>20, <1>21, <1>22, <1>23, <1>24, <1>25, <1>26, <1>27, <1>28, <1>29, <1>30, <1>31,
       <1>32, <1>33, <1>34, <1>35, <1>35a, <1>36, <1>37 DEF IInv

LEMMA MoveStep ==
    ASSUME IncMinimarkAssumption, IInv, NEW p, NEW i, NEW o, AtPlace(p, i, o),
           NEW a \in Heap, DragMove(p, i, a)
    PROVE  IInv'
  <1> USE Areas
  <1> USE DEF heap, header, barrier, tracing, raw, sweep, shadows, pinning, stack
  <1>1. /\ UNCHANGED <<pc, card, gc_state, old_objects_with_cards_set, prebuilt_root_objects,
                       objects_to_trace, young_rawmalloced_objects,
                       raw_malloc_might_sweep, unswept, doomed, nursery_objects_shadows,
                       old_objects_pointing_to_pinned, updated_old_objects_pointing_to_pinned,
                       surviving_pinned_objects, stopped>>
        /\ o \in Nursery /\ forw[o] = NULL /\ ~Has(o, "PINNED")
        /\ IF Has(o, "HAS_SHADOW") THEN a = nursery_objects_shadows[o] ELSE kind[a] = "free"
        /\ kind' = [kind EXCEPT ![a] = kind[o]]
        /\ flags' = [flags EXCEPT ![a] = MovedFlags(o, a)]
        /\ forw' = [forw EXCEPT ![o] = a]
        /\ old_objects_pointing_to_young' = IF has_gcptr(o)
             THEN old_objects_pointing_to_young \cup {a} ELSE old_objects_pointing_to_young
        /\ work' = work \ {<<p, i>>}
        /\ roots' = IF p = NULL THEN (roots \ {i}) \cup {a} ELSE roots
        /\ more_objects_to_trace' =
             IF Marking /\ p = NULL /\ Unmarked(flags'[a]) THEN more_objects_to_trace \cup {a}
                                                           ELSE more_objects_to_trace
    BY DEF DragMove, MallocOld, Dragged, AddIf, AtPlace, SetFlags
  <1>1a. \/ old_rawmalloced_objects' = old_rawmalloced_objects
         \/ kind[a] = "free" /\ old_rawmalloced_objects' = old_rawmalloced_objects \cup {a}
    BY DEF DragMove, MallocOld
  <1>2. ptr' = IF p = NULL THEN [ptr EXCEPT ![a] = ptr[o]]
                           ELSE [[ptr EXCEPT ![a] = ptr[o]] EXCEPT ![p][i] = a]
    BY DEF DragMove, Dragged, AtPlace
  <1>3. /\ InMinor /\ pc # "run" /\ ~InMajor
        /\ Live(o) /\ o \in Addr /\ o \notin doomed
        /\ p = NULL => i \in roots /\ o = i
        /\ p # NULL => /\ p \in Old /\ p \in Addr /\ i \in Index /\ o = ptr[p][i]
                       /\ Live(p) /\ ~IsShadow(p) /\ ~Forgotten(p)
                       /\ (Marking => ~Has(p, "VISITED"))
                       /\ kind[p] # "free" /\ kind[p] # "leaf" /\ ~Has(p, "NO_HEAP_PTRS")
    BY AtRootOrObject
  <1>4. InMinor' /\ ~InMajor' /\ (Marking' <=> Marking) /\ <<p, i>> \in work
    BY <1>1, <1>3 DEF InMinor, InMajor, Marking, AtPlace
  <1>5. /\ flags[o] \subseteq {"HAS_SHADOW"} /\ kind[o] # "free" /\ kind[o] # "large"
        /\ o \notin surviving_pinned_objects
    <2>1. flags[o] \subseteq {"PINNED", "HAS_SHADOW", "VISITED"} /\ ~Has(o, "VISITED")
      BY <1>1 DEF IInv, NurseryOK
    <2> QED
      BY <1>1, <1>3, <2>1 DEF IInv, NurseryOK, Has, Live
  <1>6. /\ a \in Addr /\ a \in Old /\ a # o /\ ~Live(a) /\ ~Condemned(a)
        /\ (kind[a] # "free" => nursery_objects_shadows[o] = a)
        /\ (Has(a, "VISITED") => kind[o] = "leaf")
    <2>1. CASE Has(o, "HAS_SHADOW")
      <3>1. ShadowOK(o, a) /\ IsShadow(a) /\ nursery_objects_shadows[o] = a
        BY <1>1, <2>1 DEF IInv, ShadowsOK, IsShadow
      <3> QED
        BY <1>1, <3>1 DEF ShadowOK, Live
    <2>2. CASE ~Has(o, "HAS_SHADOW")
      <3>1. kind[a] = "free" /\ flags[a] = {}
        BY <1>1, <2>2 DEF IInv, ObjectsOK
      <3> QED
        BY <1>1, <3>1 DEF Live, Has, Condemned, IInv, SweepOK
    <2> QED
      BY <2>1, <2>2
  <1>7. a # p /\ p # o
    BY <1>1, <1>3, <1>6
  <1>8. \A n \in Nursery : n # o /\ forw[n] = NULL => nursery_objects_shadows[n] # a
    <2>1. CASE Has(o, "HAS_SHADOW")
      BY <1>1, <2>1 DEF IInv, ShadowsOK
    <2>2. CASE ~Has(o, "HAS_SHADOW")
      BY <1>1, <2>2 DEF IInv, ShadowsOK, ShadowOK
    <2> QED
      BY <2>1, <2>2
  <1>9. /\ \A b \in Addr : b # a => kind'[b] = kind[b] /\ flags'[b] = flags[b]
        /\ kind'[a] = kind[o] /\ flags'[a] = flags[o] \cup (flags[a] \cap {"VISITED"})
        /\ forw'[o] = a /\ \A n \in Nursery : n # o => forw'[n] = forw[n]
    BY <1>1, <1>6 DEF IInv, TypeOK, MovedFlags
  <1>10. /\ \A b \in Addr : b # a /\ b # p => ptr'[b] = ptr[b]
         /\ \A b \in Addr : \A j \in Index : b # a /\ ~(b = p /\ j = i) => ptr'[b][j] = ptr[b][j]
         /\ p # NULL => ptr'[p][i] = a
         /\ ptr'[a] = ptr[o]
    <2>1. CASE p = NULL
      BY <1>2, <1>6, <2>1 DEF IInv, TypeOK
    <2>2. CASE p # NULL
      <3>1. ptr \in [Addr -> [Index -> Addr \cup {NULL}]] /\ ptr[o] \in [Index -> Addr \cup {NULL}]
        BY <1>3 DEF IInv, TypeOK
      <3> QED
        BY <1>2, <1>3, <1>6, <1>7, <2>2, <3>1
    <2> QED
      BY <2>1, <2>2
  <1>11. /\ \A b \in Addr : b # a => \A f : Has(b, f)' <=> Has(b, f)
         /\ \A b \in Addr : Has(b, "VISITED")' <=> Has(b, "VISITED")
         /\ \A f : Has(a, f)' => f \in {"HAS_SHADOW", "VISITED"}
    BY <1>5, <1>6, <1>9 DEF Has
  <1>12. \A b \in Addr : IsShadow(b)' <=> IsShadow(b) /\ b # a
    <2>1. \A b \in Addr : IsShadow(b) /\ b # a => IsShadow(b)'
      <3>1. nursery_objects_shadows[o] = a \/ nursery_objects_shadows[o] = NULL
        BY <1>1 DEF IInv, ShadowsOK
      <3> QED
        BY <1>1, <1>9, <3>1 DEF IsShadow
    <2>2. \A b \in Addr : IsShadow(b)' => IsShadow(b) /\ b # a
      BY <1>1, <1>8, <1>9 DEF IsShadow
    <2> QED
      BY <2>1, <2>2
  <1>13. \A b \in Addr : Condemned(b)' <=> Condemned(b)
    BY <1>1, <1>11 DEF Condemned
  <1>14. Live(a)'
    <2>1. ~Forgotten(a)'
      BY <1>1, <1>9, <1>11 DEF Forgotten, has_gcptr
    <2> QED
      BY <1>5, <1>6, <1>9, <1>12, <1>13, <2>1 DEF Live
  <1>15. \A b \in Addr : b # a => (Live(b)' <=> Live(b))
    <2>1. \A b \in Old : b # a => (Forgotten(b)' <=> Forgotten(b))
      <3>1. \A b \in Old : b # a => /\ Has(b, "PINNED")' <=> Has(b, "PINNED")
                                    /\ Has(b, "TRACK_YOUNG_PTRS")' <=> Has(b, "TRACK_YOUNG_PTRS")
        BY <1>11
      <3> QED
        BY <1>1, <1>9, <3>1 DEF Forgotten, has_gcptr
    <2> QED
      BY <1>9, <1>12, <1>13, <2>1 DEF Live
  <1>16. \A b : Live(b) => b \in Addr /\ b # a /\ Live(b)'
    <2>1. \A b : Live(b) => b \in Addr
      BY DEF Live
    <2> QED
      BY <1>6, <1>15, <2>1
  <1>17. /\ a \notin young_rawmalloced_objects /\ a \notin old_objects_with_cards_set
         /\ a \notin old_objects_pointing_to_young /\ a \notin old_objects_pointing_to_pinned
         /\ a \notin Traced /\ a \notin roots /\ a \notin doomed /\ a \notin Young
         /\ \A j \in Index : <<a, j>> \notin work
    <2>1. a \notin doomed
      BY <1>1, <1>6 DEF IInv, DoomedOK, IsShadow
    <2> QED
      BY <1>6, <2>1 DEF IInv, YoungOK, CardsOK, RememberedOK, PinnedOK, GrayOK, RootsOK, WorkOK, Young
  <1>18. card[a] = {}
    BY <1>6, <1>17 DEF IInv, ObjectsOK
  <1>19. Traced \subseteq Traced' /\ \A b \in Traced' : b \in Traced \/ (Marking /\ b = a)
    BY <1>1 DEF Traced
  <1>20. \A b \in Addr : b # a /\ KnownToMarking(b) => KnownToMarking(b)'
    <2>1. \A b \in Addr : b # a => (Has(b, "NO_HEAP_PTRS")' <=> Has(b, "NO_HEAP_PTRS"))
      BY <1>11
    <2> QED
      BY <1>1, <1>11, <1>19, <2>1 DEF KnownToMarking
  <1>21. /\ \A r \in roots' : r \in roots \/ r = a
         /\ \A r \in roots : r \in roots' \/ (p = NULL /\ r = i)
    BY <1>1
  <1>22. \A q, j : <<q, j>> \in work' <=> <<q, j>> \in work /\ ~(q = p /\ j = i)
    BY <1>1
  <1>30. TypeOK'
    <2>1. ptr' \in [Addr -> [Index -> Addr \cup {NULL}]]
      <3>1. ptr \in [Addr -> [Index -> Addr \cup {NULL}]] /\ ptr[o] \in [Index -> Addr \cup {NULL}]
        BY <1>3 DEF IInv, TypeOK
      <3>2. CASE p = NULL
        BY <1>2, <3>1, <3>2
      <3>3. CASE p # NULL
        BY <1>2, <1>3, <1>6, <1>7, <3>1, <3>3
      <3> QED
        BY <3>2, <3>3
    <2>2. flags' \in [Addr -> SUBSET Flag]
      BY <1>1, <1>3, <1>6 DEF IInv, TypeOK, MovedFlags
    <2>3. kind' \in [Addr -> {"free", "small", "large", "leaf"}]
      BY <1>1, <1>3 DEF IInv, TypeOK
    <2>4. forw' \in [Nursery -> Heap \cup {NULL}]
      BY <1>1 DEF IInv, TypeOK
    <2> QED
      BY <1>1, <2>1, <2>2, <2>3, <2>4 DEF IInv, TypeOK
  <1>31. ObjectsOK'
    <2>1. /\ kind'[a] # "free" /\ kind'[a] # "large" /\ card'[a] = {}
          /\ (kind'[a] = "leaf" => ptr'[a] = NoPtr)
          /\ \A f : Has(a, f)' => f \in {"HAS_SHADOW", "VISITED"}
      BY <1>1, <1>3, <1>5, <1>9, <1>10, <1>11, <1>18 DEF IInv, ObjectsOK
    <2>2. ASSUME NEW b \in Addr, b # a
          PROVE  /\ kind'[b] = "free" => flags'[b] = {} /\ card'[b] = {} /\ ptr'[b] = NoPtr
                 /\ kind'[b] = "leaf" => ptr'[b] = NoPtr
                 /\ kind'[b] = "large" => /\ "large" \in Kinds
                                          /\ Has(b, "HAS_CARDS")' /\ Has(b, "TRACK_YOUNG_PTRS")'
                 /\ Has(b, "HAS_CARDS")' => kind'[b] = "large"
                 /\ card'[b] # {} => Has(b, "CARDS_SET")'
                 /\ Has(b, "CARDS_SET")' => \/ b \in old_objects_with_cards_set
                                            \/ /\ b \in young_rawmalloced_objects
                                               /\ ~Has(b, "VISITED_RMY")'
                                               /\ Has(b, "HAS_CARDS")'
                 /\ Has(b, "NO_HEAP_PTRS")' => /\ b \in Prebuilt /\ ptr'[b] = NoPtr
                                               /\ ~Has(b, "VISITED")' /\ Has(b, "TRACK_YOUNG_PTRS")'
                 /\ Has(b, "VISITED_RMY")' => b \in young_rawmalloced_objects
      <3>1. kind'[b] = kind[b] /\ flags'[b] = flags[b] /\ card'[b] = card[b]
        BY <1>1, <1>9, <2>2
      <3>2. b # p => ptr'[b] = ptr[b]
        BY <1>10, <2>2
      <3>3. b = p => kind[b] # "free" /\ kind[b] # "leaf" /\ ~Has(b, "NO_HEAP_PTRS")
        BY <1>3
      <3> QED
        BY <2>2, <3>1, <3>2, <3>3 DEF IInv, ObjectsOK, Has
    <2> QED
      BY <1>1, <1>4, <2>1, <2>2 DEF ObjectsOK
  <1>32. NurseryOK'
    <2>1. \A n \in Nursery : flags'[n] = flags[n] /\ kind'[n] = kind[n]
      BY <1>9
    <2>2. ASSUME NEW n \in Nursery, NEW c, c = forw'[n], c # NULL
          PROVE  /\ n \notin surviving_pinned_objects /\ Live(c)'
                 /\ c \notin young_rawmalloced_objects
      <3>1. CASE n = o
        BY <1>5, <1>9, <1>14, <1>17, <2>2, <3>1
      <3>2. CASE n # o
        BY <1>9, <1>16, <2>2, <3>2 DEF IInv, NurseryOK
      <3> QED
        BY <3>1, <3>2
    <2>3. \A n \in Nursery : n \in surviving_pinned_objects => Has(n, "PINNED") /\ Live(n)'
      BY <1>16 DEF IInv, NurseryOK
    <2> QED
      BY <1>1, <1>4, <2>1, <2>2, <2>3 DEF IInv, NurseryOK, Has
  <1>33. ShadowsOK'
    <2>1. ASSUME NEW n \in Nursery, forw'[n] = NULL, NEW s, s = nursery_objects_shadows[n], s # NULL
          PROVE  ShadowOK(n, s)'
      <3>1. n # o /\ forw[n] = NULL
        BY <1>6, <1>9, <2>1
      <3>2. ShadowOK(n, s) /\ IsShadow(s) /\ s \in Heap /\ s # a
        BY <1>8, <2>1, <3>1 DEF IInv, ShadowsOK, TypeOK, IsShadow
      <3>3. s # p /\ n # a
        BY <1>3, <3>2
      <3>4. kind'[s] = kind[s] /\ kind'[n] = kind[n] /\ flags'[s] = flags[s] /\ ptr'[s] = ptr[s]
        BY <1>9, <1>10, <3>2, <3>3
      <3> QED
        BY <1>1, <1>4, <1>13, <3>2, <3>4 DEF ShadowOK, Has
    <2>2. \A n \in Nursery : Has(n, "HAS_SHADOW")' <=> Has(n, "HAS_SHADOW")
      BY <1>6, <1>11
    <2> QED
      BY <1>1, <2>1, <2>2 DEF IInv, ShadowsOK
  <1>34. PrebuiltOK'
    BY <1>1, <1>9, <1>11, <1>15 DEF IInv, PrebuiltOK
  <1>35. RootsOK'
    BY <1>14, <1>16, <1>21 DEF IInv, RootsOK
  <1>36. RememberedOK'
    <2>1. \A b \in old_objects_pointing_to_young : b # a /\ b \in Addr
      BY <1>17 DEF IInv, RememberedOK
    <2>2. \A b \in old_objects_pointing_to_young :
             ~Has(b, "TRACK_YOUNG_PTRS")' /\ kind'[b] = kind[b] /\ Live(b)'
      BY <1>9, <1>11, <1>16, <2>1 DEF IInv, RememberedOK
    <2> QED
      BY <1>1, <1>4, <1>6, <1>9, <1>11, <1>14, <2>2 DEF IInv, RememberedOK, has_gcptr
  <1>37. CardsOK'
    <2>1. \A b \in old_objects_with_cards_set : b # a /\ b \in Addr
      BY <1>17 DEF IInv, CardsOK
    <2> QED
      BY <1>1, <1>4, <1>11, <1>16, <2>1 DEF IInv, CardsOK
  <1>38. PinnedOK'
    <2>1. \A b \in old_objects_pointing_to_pinned : b # a /\ b \in Addr
      BY <1>17 DEF IInv, PinnedOK
    <2> QED
      BY <1>1, <1>3, <1>4, <1>9, <1>16, <2>1 DEF IInv, PinnedOK, has_gcptr
  <1>39. YoungOK'
    <2>1. \A b \in young_rawmalloced_objects : b # a /\ b \in Addr
      BY <1>17 DEF IInv, YoungOK
    <2>2. \A b \in young_rawmalloced_objects : \A f : Has(b, f)' <=> Has(b, f)
      BY <1>11, <2>1
    <2>3. \A b \in young_rawmalloced_objects : kind'[b] = kind[b] /\ Live(b)'
      BY <1>9, <1>16, <2>1 DEF IInv, YoungOK
    <2> QED
      BY <1>1, <1>4, <1>19, <2>1, <2>2, <2>3 DEF IInv, YoungOK
  <1>40. SweepOK'
    <2>1. \A b \in Addr : kind[b] # "free" => kind'[b] # "free"
      BY <1>5, <1>9
    <2>2. \A b \in Old : Has(b, "VISITED")' <=> Has(b, "VISITED")
      BY <1>11
    <2>3. \A b \in unswept \cup raw_malloc_might_sweep \cup old_rawmalloced_objects' :
             b \in Heap /\ kind'[b] # "free" /\ b \notin young_rawmalloced_objects
      BY <1>1a, <1>5, <1>9, <1>17, <2>1 DEF IInv, SweepOK
    <2>4. \A b \in unswept \cup raw_malloc_might_sweep : b \notin old_rawmalloced_objects'
      BY <1>1a DEF IInv, SweepOK
    <2> QED
      BY <1>1, <2>2, <2>3, <2>4 DEF IInv, SweepOK
  <1>41. ClosedOK'
    <2>1. ASSUME NEW b \in Addr, NEW j \in Index, NEW c, c = ptr'[b][j], Live(b)', c # NULL
          PROVE  Live(c)'
      <3>1. CASE b = a
        BY <1>3, <1>10, <1>16, <2>1, <3>1 DEF IInv, ClosedOK
      <3>2. CASE b = p /\ j = i
        BY <1>3, <1>10, <1>14, <2>1, <3>2
      <3>3. CASE b # a /\ ~(b = p /\ j = i)
        BY <1>10, <1>15, <1>16, <2>1, <3>3 DEF IInv, ClosedOK
      <3> QED
        BY <3>1, <3>2, <3>3
    <2> QED
      BY <2>1 DEF ClosedOK
  <1>42. WorkOK'
    <2>1. \A q \in Old, j \in Index : <<q, j>> \in work' =>
             Live(q)' /\ (Marking => ~Has(q, "VISITED")')
      BY <1>11, <1>16, <1>22 DEF IInv, WorkOK
    <2>2. work' \subseteq ({NULL} \X roots') \cup (Old \X Index)
      BY <1>1, <1>21 DEF IInv, WorkOK
    <2>3. Marking => \A b \in old_objects_pointing_to_young' : ~Has(b, "VISITED")'
      BY <1>1, <1>3, <1>6, <1>11 DEF IInv, WorkOK, RememberedOK, has_gcptr
    <2> QED
      BY <1>4, <2>1, <2>2, <2>3 DEF WorkOK
  <1>43. RootsFirst'
    <2>1. \A r : <<NULL, r>> \in work' => r \in roots /\ <<NULL, r>> \in work
      BY <1>22 DEF IInv, WorkOK
    <2>2. ASSUME NEW r \in roots, <<NULL, r>> \in work, NEW n \in Nursery
          PROVE  /\ forw'[n] \notin old_objects_pointing_to_pinned
                 /\ \A j \in Index : forw'[n] # NULL => <<forw'[n], j>> \notin work
      <3>1. CASE n = o
        BY <1>9, <1>17, <3>1
      <3>2. CASE n # o
        BY <1>9, <2>2, <3>2 DEF IInv, RootsFirst
      <3> QED
        BY <3>1, <3>2
    <2> QED
      BY <1>1, <1>22, <2>1, <2>2 DEF IInv, RootsFirst
  <1>44. YoungPointersKnown'
    <2>1. ASSUME NEW b \in Young PROVE \A c : Settled(c, b) => Settled(c, b)'
      <3>1. b \in Addr /\ b # a
        BY <1>17 DEF Young, IInv, YoungOK
      <3>2. Has(b, "VISITED_RMY")' <=> Has(b, "VISITED_RMY")
        BY <1>11, <3>1
      <3> QED
        BY <1>1, <1>3, <3>2 DEF Settled
    <2>2. ASSUME NEW b \in Old, NEW j \in Index, Live(b)', ptr'[b][j] \in Young
          PROVE  \/ b \in old_objects_pointing_to_young' \/ j \in card[b] \/ <<b, j>> \in work'
                 \/ Settled(b, ptr'[b][j]) \/ Untouched(b)
      <3>1. CASE b = a
        <4>1. ptr[o] # NoPtr
          BY <1>10, <2>2, <3>1 DEF NoPtr, Young, IInv, YoungOK
        <4>2. has_gcptr(o)
          BY <1>3, <4>1 DEF IInv, ObjectsOK, has_gcptr
        <4> QED
          BY <1>1, <3>1, <4>2
      <3>2. CASE b # a
        <4>1. ~(b = p /\ j = i)
          BY <1>3, <1>10, <1>17, <2>2
        <4>2. ptr'[b][j] = ptr[b][j] /\ Live(b)
          BY <1>10, <1>15, <2>2, <3>2, <4>1
        <4>3. \/ b \in old_objects_pointing_to_young \/ j \in card[b] \/ <<b, j>> \in work
              \/ Settled(b, ptr[b][j]) \/ Untouched(b)
          BY <2>2, <4>2 DEF IInv, YoungPointersKnown
        <4> QED
          BY <1>1, <1>22, <4>1, <4>2, <4>3
      <3> QED
        BY <3>1, <3>2
    <2>3. \A b \in Old : Untouched(b) => Untouched(b)'
      BY <1>1, <1>11, <1>17 DEF Untouched
    <2> QED
      BY <1>1, <2>1, <2>2, <2>3 DEF YoungPointersKnown, Young
  <1>45. YoungRootsKnown'
    <2>1. ASSUME NEW r \in roots', r \in Young
          PROVE  <<NULL, r>> \in work' \/ r \in surviving_pinned_objects \/ Has(r, "VISITED_RMY")'
      <3>1. r \in roots /\ r # a /\ r \in Addr
        BY <1>17, <1>21, <2>1 DEF Young, IInv, YoungOK
      <3>2. ~(p = NULL /\ r = i)
        BY <1>1, <2>1, <3>1
      <3>3. Has(r, "VISITED_RMY")' <=> Has(r, "VISITED_RMY")
        BY <1>11, <3>1
      <3> QED
        BY <1>3, <1>22, <2>1, <3>1, <3>2, <3>3 DEF IInv, YoungRootsKnown
    <2> QED
      BY <1>1, <2>1 DEF YoungRootsKnown, Young
  <1>46. BlackPointersKnown'
    <2>1. ASSUME Marking, NEW b \in Old, NEW j \in Index, NEW c, c = ptr'[b][j], Live(b)',
                 Has(b, "VISITED")', c # NULL
          PROVE  KnownToMarking(c)' \/ j \in card[b]
      <3>1. b # p
        BY <1>3, <1>11, <2>1
      <3>2. b # a
        <4>1. ASSUME b = a PROVE FALSE
          <5>1. ptr'[a] = NoPtr
            BY <1>3, <1>6, <1>10, <1>11, <2>1, <4>1 DEF IInv, ObjectsOK
          <5> QED
            BY <2>1, <4>1, <5>1 DEF NoPtr
        <4> QED
          BY <4>1
      <3>3. c = ptr[b][j] /\ Live(b) /\ Has(b, "VISITED")
        BY <1>10, <1>11, <1>15, <2>1, <3>1, <3>2
      <3>4. KnownToMarking(c) \/ j \in card[b]
        BY <1>3, <2>1, <3>3 DEF IInv, BlackPointersKnown
      <3>5. c \in Addr /\ c # a
        BY <1>16, <2>1, <3>3 DEF IInv, ClosedOK
      <3> QED
        BY <1>20, <3>4, <3>5
    <2> QED
      BY <1>1, <1>4, <2>1 DEF BlackPointersKnown
  <1>47. RootsMarked'
    <2>1. ASSUME Marking, NEW r \in roots'
          PROVE  KnownToMarking(r)' \/ <<NULL, r>> \in work' \/ r \in surviving_pinned_objects
      <3>1. CASE p = NULL /\ r = a
        <4>1. CASE Unmarked(flags'[a])
          BY <1>1, <2>1, <3>1, <4>1 DEF KnownToMarking, Traced
        <4>2. CASE ~Unmarked(flags'[a])
          <5>1. Has(a, "VISITED")'
            BY <1>11, <4>2 DEF Unmarked, Has
          <5> QED
            BY <1>6, <3>1, <5>1 DEF KnownToMarking
        <4> QED
          BY <4>1, <4>2
      <3>2. CASE ~(p = NULL /\ r = a)
        <4>1. r \in roots /\ ~(p = NULL /\ r = i) /\ r # a /\ r \in Addr
          BY <1>1, <1>17, <3>2, <2>1 DEF IInv, RootsOK, Live
        <4>2. KnownToMarking(r) \/ <<NULL, r>> \in work \/ r \in surviving_pinned_objects
          BY <1>3, <2>1, <4>1 DEF IInv, RootsMarked
        <4> QED
          BY <1>20, <1>22, <4>1, <4>2
      <3> QED
        BY <3>1, <3>2
    <2>2. surviving_pinned_objects \subseteq Nursery
      BY DEF IInv, TypeOK
    <2> QED
      BY <1>1, <1>4, <2>1, <2>2 DEF RootsMarked
  <1>47a. StoppedOK'
    BY <1>1, <1>3 DEF IInv, StoppedOK
  <1>48. GrayOK'
    BY <1>1, <1>3, <1>4, <1>6, <1>14, <1>16, <1>19 DEF IInv, GrayOK, InMinor
  <1>49. DoomedOK'
    <2>1. \A b \in doomed : /\ b \in Addr /\ b # a /\ b \notin roots' /\ b \notin Traced'
      BY <1>17, <1>19, <1>21 DEF IInv, DoomedOK
    <2>2. \A b \in doomed : ~Has(b, "VISITED")' /\ ~IsShadow(b)' /\ kind'[b] # "free"
      BY <1>9, <1>11, <1>12, <2>1 DEF IInv, DoomedOK
    <2>3. \A b \in Addr : \A j \in Index : b \notin doomed => ptr'[b][j] \notin doomed
      BY <1>3, <1>10, <1>17 DEF IInv, DoomedOK
    <2>4. \A n \in Nursery : forw'[n] \notin doomed
      BY <1>9, <1>17 DEF IInv, DoomedOK
    <2> QED
      BY <1>1, <2>1, <2>2, <2>3, <2>4 DEF IInv, DoomedOK
  <1> QED
    BY <1>30, <1>31, <1>32, <1>33, <1>34, <1>35, <1>36, <1>37, <1>38, <1>39, <1>40, <1>41,
       <1>42, <1>43, <1>44, <1>45, <1>46, <1>47, <1>47a, <1>48, <1>49 DEF IInv

----------------------------------------------------------------------------
(* Every step keeps the invariant.                                         *)

LEMMA DragSteps ==
    ASSUME IncMinimarkAssumption, IInv, NEW s \in work, _trace_drag_out(s[1], s[2])
    PROVE  IInv'
  <1> DEFINE p == s[1]
             i == s[2]
             o == Content(p, i)
  <1>1. <<p, i>> \in work
    BY DEF IInv, WorkOK
  <1>2. o \in Young => AtPlace(p, i, o)
    BY <1>1 DEF AtPlace
  <1>3. \/ o \in Young /\ DragForwarded(p, i)
        \/ o \in Young /\ _visit_young_rawmalloced_object(p, i)
        \/ o \in Young /\ DragPinned(p, i)
        \/ o \in Young /\ \E a \in Heap : DragMove(p, i, a)
    <2>1. CASE DragForwarded(p, i)
      BY <2>1 DEF DragForwarded, Young
    <2>2. CASE _visit_young_rawmalloced_object(p, i)
      BY <2>2 DEF _visit_young_rawmalloced_object, Young
    <2>3. CASE DragPinned(p, i)
      BY <2>3 DEF DragPinned, Young
    <2>4. ASSUME NEW a \in Heap, DragMove(p, i, a) PROVE o \in Young
      BY <2>4 DEF DragMove, Young
    <2> QED
      BY <2>1, <2>2, <2>3, <2>4 DEF _trace_drag_out
  <1> HIDE DEF p, i, o
  <1> QED
    BY <1>2, <1>3, ForwardedStep, VisitYoungStep, PinnedStep, MoveStep

LEMMA NextIInv ==
    ASSUME IncMinimarkAssumption, NoCardCopies, copies \in Nat, IInv, [Next]_vars
    PROVE  IInv'
  <1>1. CASE Program
    <2>1. ASSUME NEW a \in Nursery, NEW k \in Kinds, malloc_fixedsize(a, k) PROVE IInv'
      BY <2>1, AllocationSteps DEF Addr
    <2>2. ASSUME NEW a \in Heap, NEW k \in Kinds,
                 ExternalMallocYoung(a, k) \/ ExternalMallocOld(a, k)
          PROVE  IInv'
      BY <2>2, AllocationSteps DEF Addr
    <2>3. CASE \E a \in Known, i \in Index : GetField(a, i)
      BY <2>3, ReadSteps
    <2>4. ASSUME NEW a \in roots, DropRoot(a) \/ pin(a) \/ unpin(a) PROVE IInv'
      BY <2>4, ReadSteps, PinSteps
    <2>5. ASSUME NEW a \in Known, NEW i \in Index, NEW v \in Known \cup {NULL},
                 SetField(a, i, v) \/ SetArrayItem(a, i, v)
          PROVE  IInv'
      BY <2>5, FieldStep, ArrayStep
    <2>6. ASSUME NEW s \in Known, NEW d \in Known, NEW from \in Index, NEW to \in Index,
                 NEW n \in Index, ll_arraycopy(s, d, from, to, n)
          PROVE  IInv'
      BY <2>6, CopyStep
    <2>7. ASSUME NEW o \in roots, NEW s \in Heap, _allocate_shadow(o, s) PROVE IInv'
      BY <2>7, ShadowStep
    <2> QED
      BY <1>1, <2>1, <2>2, <2>3, <2>4, <2>5, <2>6, <2>7 DEF Program
  <1>2. ASSUME NEW skip, StartMinor(skip) PROVE IInv'
    BY <1>2, StartStep
  <1>3. CASE _minor_collection
    <2>1. ASSUME NEW s \in work, _trace_drag_out(s[1], s[2]) PROVE IInv'
      BY <2>1, DragSteps
    <2>2. ASSUME NEW o \in old_objects_with_cards_set, collect_cardrefs_to_nursery(o) PROVE IInv'
      BY <2>2, CardrefsStep
    <2>3. ASSUME NEW o \in old_objects_pointing_to_young, collect_oldrefs_to_nursery(o) PROVE IInv'
      BY <2>3, OldrefsStep
    <2>4. CASE FinishMinor
      BY <2>4, FinishMinorStep
    <2> QED
      BY <1>3, <2>1, <2>2, <2>3, <2>4 DEF _minor_collection
  <1>4. CASE ReturnToProgram
    BY <1>4, MarkingControlSteps
  <1>5. CASE major_collection_step
    <2>1. CASE StepScanning
      BY <2>1, ScanningStep
    <2>2. ASSUME NEW o \in objects_to_trace, visit(o) PROVE IInv'
      BY <2>2, VisitStep
    <2>3. CASE StopMarking \/ VisitMoreObjects \/ RescanNonstackRoots \/ StepFinalizing
      BY <2>3, MarkingControlSteps
    <2>4. CASE FinishMarking
      BY <2>4, FinishMarkingStep
    <2>5. ASSUME NEW S, \/ free_unvisited_rawmalloc_objects_step(S)
                        \/ \E done \in BOOLEAN : mass_free_incremental(S, done)
          PROVE  IInv'
      BY <2>5, SweepSteps
    <2> QED
      BY <1>5, <2>1, <2>2, <2>3, <2>4, <2>5 DEF major_collection_step
  <1>6. CASE UNCHANGED vars
    <2>1. /\ UNCHANGED <<pc, kind, ptr, flags, card, forw, roots, stopped, gc_state,
                         old_objects_pointing_to_young, old_objects_with_cards_set,
                         prebuilt_root_objects, objects_to_trace, more_objects_to_trace>>
          /\ UNCHANGED <<young_rawmalloced_objects, old_rawmalloced_objects,
                         raw_malloc_might_sweep, unswept, doomed, nursery_objects_shadows,
                         old_objects_pointing_to_pinned, surviving_pinned_objects,
                         updated_old_objects_pointing_to_pinned, work>>
      BY <1>6 DEF vars, heap, header, barrier, tracing, raw, sweep, shadows, pinning, stack
    <2> USE <2>1 DEF Has, has_gcptr, InMinor, InMajor, Marking, Traced, Young
    <2>2. \A a : Condemned(a)' <=> Condemned(a)
      BY DEF Condemned
    <2>3. \A a : IsShadow(a)' <=> IsShadow(a)
      BY DEF IsShadow
    <2>4. \A a : Live(a)' <=> Live(a)
      BY <2>2, <2>3 DEF Live, Forgotten
    <2>5. \A o, s : ShadowOK(o, s)' <=> ShadowOK(o, s)
      BY <2>2 DEF ShadowOK
    <2>6. \A b : KnownToMarking(b)' <=> KnownToMarking(b)
      BY DEF KnownToMarking
    <2>7. \A a, b : Settled(a, b)' <=> Settled(a, b)
      BY DEF Settled
    <2>8. TypeOK' /\ ObjectsOK' /\ SweepOK'
      BY DEF IInv, TypeOK, ObjectsOK, SweepOK
    <2>9. NurseryOK' /\ PrebuiltOK' /\ RootsOK'
      BY <2>4 DEF IInv, NurseryOK, PrebuiltOK, RootsOK
    <2>10. ShadowsOK'
      BY <2>5 DEF IInv, ShadowsOK
    <2>11. RememberedOK' /\ CardsOK' /\ PinnedOK' /\ YoungOK' /\ ClosedOK'
      BY <2>4 DEF IInv, RememberedOK, CardsOK, PinnedOK, YoungOK, ClosedOK
    <2>12. WorkOK' /\ RootsFirst' /\ YoungRootsKnown'
      BY <2>4 DEF IInv, WorkOK, RootsFirst, YoungRootsKnown
    <2>7a. \A a : Untouched(a)' <=> Untouched(a)
      BY DEF Untouched
    <2>13. YoungPointersKnown'
      BY <2>4, <2>7, <2>7a DEF IInv, YoungPointersKnown
    <2>14. BlackPointersKnown' /\ RootsMarked' /\ StoppedOK'
      BY <2>4, <2>6 DEF IInv, BlackPointersKnown, RootsMarked, StoppedOK
    <2>15. GrayOK' /\ DoomedOK'
      BY <2>3, <2>4 DEF IInv, GrayOK, DoomedOK
    <2> QED
      BY <2>8, <2>9, <2>10, <2>11, <2>12, <2>13, <2>14, <2>15 DEF IInv
  <1> QED
    BY <1>1, <1>2, <1>3, <1>4, <1>5, <1>6 DEF Next

LEMMA CopiesCounted ==
    ASSUME copies \in Nat, [Next]_vars
    PROVE  copies' \in Nat
  <1>1. CASE Program
    <2>1. ASSUME NEW a, NEW k, malloc_fixedsize(a, k) PROVE copies' = copies
      BY <2>1 DEF malloc_fixedsize, init_gc_object
    <2>2. ASSUME NEW a, NEW k, \/ ExternalMallocYoung(a, k) \/ ExternalMallocOld(a, k)
                               \/ DropRoot(a) \/ pin(a) \/ unpin(a)
          PROVE  copies' = copies
      BY <2>2 DEF ExternalMallocYoung, ExternalMallocOld, init_gc_object, DropRoot, pin, unpin
    <2>3. ASSUME NEW a, NEW i, GetField(a, i) PROVE copies' = copies
      BY <2>3 DEF GetField
    <2>4. ASSUME NEW a, NEW i, NEW v, SetField(a, i, v) \/ SetArrayItem(a, i, v)
          PROVE  copies' = copies
      BY <2>4 DEF SetField, SetArrayItem, Write
    <2>5. ASSUME NEW s, NEW d, NEW from, NEW to, NEW n, ll_arraycopy(s, d, from, to, n)
          PROVE  copies' = copies + 1
      BY <2>5 DEF ll_arraycopy
    <2>6. ASSUME NEW o, NEW s, _allocate_shadow(o, s) PROVE copies' = copies
      BY <2>6 DEF _allocate_shadow
    <2>7. copies' = copies \/ copies' = copies + 1
      BY <1>1, <2>1, <2>2, <2>3, <2>4, <2>5, <2>6 DEF Program
    <2> QED
      BY <2>7
  <1>2. CASE (\E skip : StartMinor(skip)) \/ ReturnToProgram
    BY <1>2 DEF StartMinor, ReturnToProgram
  <1>3. CASE _minor_collection
    BY <1>3, ZenonT(30) DEF _minor_collection, _trace_drag_out, DragForwarded, DragPinned,
       DragMove, Dragged,
       _visit_young_rawmalloced_object, collect_cardrefs_to_nursery, collect_oldrefs_to_nursery,
       FinishMinor
  <1>4. CASE major_collection_step
    BY <1>4 DEF major_collection_step, StepScanning, visit, StopMarking, VisitMoreObjects,
       RescanNonstackRoots, FinishMarking, free_unvisited_rawmalloc_objects_step,
       mass_free_incremental, StepFinalizing
  <1>5. CASE UNCHANGED vars
    BY <1>5 DEF vars
  <1> QED
    BY <1>1, <1>2, <1>3, <1>4, <1>5 DEF Next

(* The inductive invariant holds of every program that makes no copies or  *)
(* has no arrays with cards: the lists, flags, card bits of incminimark.py *)
(* say, at each step of a minor or a major collection, which pointers are  *)
(* still to be looked at.                                                  *)
THEOREM InvariantHolds ==
    ASSUME NoCardCopies
    PROVE  Spec => []IInv
  <1>1. Init => IInv /\ copies \in Nat
    <2>1. Init => copies \in Nat
      BY DEF Init
    <2> QED
      BY <2>1, InitIInv, IncMinimarkAssumption
  <1>2. IInv /\ copies \in Nat /\ [Next]_vars => (IInv /\ copies \in Nat)'
    BY NextIInv, CopiesCounted, IncMinimarkAssumption
  <1> QED
    BY <1>1, <1>2, PTL DEF Spec

(* After a minor collection only the pinned objects have GCFLAG_PINNED:    *)
(* the same bit on an old object would say that it is in the list of those *)
(* that point to pinned ones.                                              *)
LEMMA PinnedAreYoung ==
    ASSUME IncMinimarkAssumption, IInv, InMajor, NEW a, Live(a)
    PROVE  Has(a, "PINNED") <=> a \in Nursery
  <1>1. a \in Nursery => Has(a, "PINNED")
    BY DEF IInv, NurseryOK, Live
  <1>2. a \in Old => ~Has(a, "PINNED")
    BY MajorFacts DEF IInv, PinnedOK, Live, Forgotten
  <1> QED
    BY <1>1, <1>2, Areas DEF Live

(* Neither a minor collection nor a sweep frees an object that the program *)
(* can reach: the write barrier, the card bits and the lists of            *)
(* incminimark.py miss no pointer to a young object, and the incremental   *)
(* marking reaches all that was reachable when it ended.                   *)
THEOREM ReachableKept ==
    ASSUME NoCardCopies
    PROVE  Spec => []NothingReachableFreed
  <1>1. IInv => NothingReachableFreed
    BY ReachableLive, IncMinimarkAssumption DEF NothingReachableFreed, Live, Objects
  <1> QED
    BY <1>1, InvariantHolds, PTL

(* When a step of the marking starts, an object it has passed points to    *)
(* nothing that it does not know of, whatever the program wrote since the  *)
(* last step: what _debug_check_object_marking asserts.                    *)
THEOREM MarkingMissesNothing ==
    ASSUME NoCardCopies
    PROVE  Spec => []BlackNeverPointsToWhite
  <1>1. ASSUME IInv, pc = "minor_done", Marking, NEW a \in Reachable, Has(a, "VISITED")
        PROVE  /\ has_gcptr(a) => Has(a, "TRACK_YOUNG_PTRS")
               /\ \A b \in Targets(a) \ Gray :
                     flags[b] \cap {"VISITED", "NO_HEAP_PTRS", "PINNED"} # {}
    <2> USE IncMinimarkAssumption
    <2>1. InMajor /\ Live(a) /\ a \in Addr
      BY <1>1, ReachableLive DEF InMajor, Live
    <2>2. a \in Old
      BY <1>1, <2>1, MajorFacts, Areas
    <2>3. has_gcptr(a) => Has(a, "TRACK_YOUNG_PTRS")
      BY <1>1, <2>1, <2>2, MajorFacts
    <2>4. ASSUME NEW b \in Targets(a) \ Gray
          PROVE  Has(b, "VISITED") \/ Has(b, "NO_HEAP_PTRS") \/ Has(b, "PINNED")
      <3>1. PICK i \in Index : b = ptr[a][i] /\ b # NULL
        BY <2>4 DEF Targets
      <3>2. Live(b)
        BY <1>1, <2>1, <3>1 DEF IInv, ClosedOK
      <3>3. KnownToMarking(b) \/ b \in Nursery
        BY <1>1, <2>1, <2>2, <3>1, MajorFacts DEF IInv, BlackPointersKnown
      <3>4. CASE b \in Nursery
        BY <1>1, <2>1, <3>2, <3>4, PinnedAreYoung
      <3>5. CASE KnownToMarking(b)
        BY <2>4, <3>5 DEF KnownToMarking, Gray, Traced
      <3> QED
        BY <3>3, <3>4, <3>5
    <2> QED
      BY <2>3, <2>4 DEF Has
  <1>2. IInv => BlackNeverPointsToWhite
    BY <1>1 DEF BlackNeverPointsToWhite
  <1> QED
    BY <1>2, InvariantHolds, PTL

(* What debug_check_object asserts after every minor collection holds of   *)
(* every reachable object: no stale mark, card or missing                  *)
(* GCFLAG_TRACK_YOUNG_PTRS is left behind.                                 *)
THEOREM NothingStale ==
    ASSUME NoCardCopies
    PROVE  Spec => []CleanAfterMinor
  <1>1. ASSUME IInv, pc = "minor_done", NEW a \in Reachable
        PROVE  /\ is_in_nursery(a) <=> Has(a, "PINNED")
               /\ ~Has(a, "VISITED_RMY")
               /\ has_gcptr(a) => Has(a, "TRACK_YOUNG_PTRS")
               /\ ~Has(a, "CARDS_SET") /\ card[a] = {}
               /\ gc_state \in {"SCANNING", "FINALIZING"} => ~Has(a, "VISITED")
    <2> USE IncMinimarkAssumption
    <2>1. InMajor /\ Live(a) /\ a \in Addr
      BY <1>1, ReachableLive DEF InMajor, Live
    <2>2. Has(a, "PINNED") <=> a \in Nursery
      BY <1>1, <2>1, PinnedAreYoung
    <2>3. ~Has(a, "VISITED_RMY") /\ ~Has(a, "CARDS_SET") /\ card[a] = {}
      BY <1>1, <2>1, MajorFacts
    <2>4. CASE a \in Old
      <3>1. has_gcptr(a) => Has(a, "TRACK_YOUNG_PTRS")
        BY <1>1, <2>1, <2>4, MajorFacts
      <3>2. gc_state \in {"SCANNING", "FINALIZING"} => ~Has(a, "VISITED")
        BY <1>1, <2>4 DEF IInv, SweepOK
      <3> QED
        BY <2>2, <2>3, <3>1, <3>2 DEF is_in_nursery
    <2>5. CASE a \in Nursery
      <3>1. ~has_gcptr(a)
        BY <1>1, <2>2, <2>5 DEF IInv, NurseryOK, has_gcptr
      <3>2. ~Has(a, "VISITED")
        BY <1>1, <2>1, <2>5, MajorFacts
      <3> QED
        BY <2>2, <2>3, <3>1, <3>2 DEF is_in_nursery
    <2> QED
      BY <2>1, <2>4, <2>5, Areas
  <1>2. ASSUME IInv, pc = "minor_done"
        PROVE  /\ young_rawmalloced_objects = {}
               /\ raw_malloc_might_sweep # {} => gc_state = "SWEEPING"
    BY <1>2 DEF IInv, YoungOK, SweepOK, InMajor
  <1>3. IInv => CleanAfterMinor
    BY <1>1, <1>2 DEF CleanAfterMinor
  <1> QED
    BY <1>3, InvariantHolds, PTL

(* The assertions of the loops of incminimark.py that empty the lists      *)
(* never fail.                                                             *)
THEOREM ListsRight ==
    ASSUME NoCardCopies
    PROVE  Spec => []ListsAgreeWithFlags
  <1>1. ASSUME IInv, InMajor, NEW a \in objects_to_trace \cup more_objects_to_trace
        PROVE  a \notin Nursery /\ ~Has(a, "PINNED") /\ kind[a] # "free"
    <2>1. a \in Old /\ Live(a) /\ a \notin Nursery
      BY <1>1, Areas, IncMinimarkAssumption DEF IInv, GrayOK, Traced
    <2> QED
      BY <1>1, <2>1, PinnedAreYoung, IncMinimarkAssumption DEF Live
  <1>2. IInv => \A a \in old_objects_pointing_to_young : ~Has(a, "TRACK_YOUNG_PTRS")
    BY DEF IInv, RememberedOK
  <1>3. IInv => \A a \in old_objects_with_cards_set : {"HAS_CARDS", "CARDS_SET"} \subseteq flags[a]
    BY DEF IInv, CardsOK, Has
  <1>4. IInv => ListsAgreeWithFlags
    BY <1>1, <1>2, <1>3 DEF ListsAgreeWithFlags, InMajor
  <1> QED
    BY <1>4, InvariantHolds, PTL

(* The block that id() of a nursery object has promised stays reserved for *)
(* it, through minor collections with the object pinned and through major  *)
(* ones, though no pointer leads to the block.                             *)
THEOREM IdsKept ==
    ASSUME NoCardCopies
    PROVE  Spec => []ShadowsKept
  <1>1. ASSUME IInv, pc = "run", NEW o \in Nursery, Has(o, "HAS_SHADOW"), NEW s,
               s = nursery_objects_shadows[o]
        PROVE  /\ s \in Objects /\ kind[s] = kind[o] /\ s \notin Reachable
               /\ \A n \in Nursery \ {o} : nursery_objects_shadows[n] # s
    <2>1. forw[o] = NULL /\ s # NULL /\ s \in Addr
      BY <1>1 DEF IInv, NurseryOK, ShadowsOK, TypeOK, InMinor, Addr
    <2>2. ShadowOK(o, s) /\ IsShadow(s)
      BY <1>1, <2>1 DEF IInv, ShadowsOK, IsShadow
    <2>3. s \notin Reachable
      BY <1>1, <2>2, ReachableLive, IncMinimarkAssumption DEF Live
    <2>4. \A n \in Nursery \ {o} : nursery_objects_shadows[n] # s
      BY <1>1, <2>1 DEF IInv, ShadowsOK
    <2> QED
      BY <2>1, <2>2, <2>3, <2>4 DEF ShadowOK, Objects
  <1>2. IInv => ShadowsKept
    BY <1>1 DEF ShadowsKept
  <1> QED
    BY <1>2, InvariantHolds, PTL

(* The end of a sweep: only the last step of mass_free_incremental leaves  *)
(* that state.                                                             *)
LEMMA SweepEndsClean ==
    ASSUME IncMinimarkAssumption, IInv, Next, gc_state = "SWEEPING", gc_state' # "SWEEPING"
    PROVE  doomed' = {}
  <1>1. ~Program
    <2>1. ASSUME NEW a, NEW k, malloc_fixedsize(a, k) PROVE FALSE
      BY <2>1 DEF malloc_fixedsize, init_gc_object
    <2>2. ASSUME NEW a, NEW k, \/ ExternalMallocYoung(a, k) \/ ExternalMallocOld(a, k)
                               \/ DropRoot(a) \/ pin(a) \/ unpin(a)
          PROVE  FALSE
      BY <2>2 DEF ExternalMallocYoung, ExternalMallocOld, init_gc_object, DropRoot, pin, unpin,
         Others
    <2>3. ASSUME NEW a, NEW i, GetField(a, i) PROVE FALSE
      BY <2>3 DEF GetField
    <2>4. ASSUME NEW a, NEW i, NEW v, SetField(a, i, v) \/ SetArrayItem(a, i, v) PROVE FALSE
      BY <2>4 DEF SetField, SetArrayItem, Write, Others
    <2>5. ASSUME NEW s, NEW d, NEW from, NEW to, NEW n, ll_arraycopy(s, d, from, to, n) PROVE FALSE
      BY <2>5 DEF ll_arraycopy, Others
    <2>6. ASSUME NEW o, NEW s, _allocate_shadow(o, s) PROVE FALSE
      BY <2>6 DEF _allocate_shadow
    <2> QED
      BY <2>1, <2>2, <2>3, <2>4, <2>5, <2>6 DEF Program
  <1>2. (\A skip : ~StartMinor(skip)) /\ ~ReturnToProgram
    BY DEF StartMinor, ReturnToProgram
  <1>3. ~_minor_collection
    BY ZenonT(30) DEF _minor_collection, _trace_drag_out, DragForwarded, DragPinned,
       DragMove, Dragged,
       _visit_young_rawmalloced_object, collect_cardrefs_to_nursery, collect_oldrefs_to_nursery,
       FinishMinor
  <1>4. ~StepScanning /\ ~StopMarking /\ ~VisitMoreObjects /\ ~RescanNonstackRoots
        /\ ~FinishMarking /\ ~StepFinalizing /\ \A o : ~visit(o)
    BY DEF StepScanning, StopMarking, VisitMoreObjects, RescanNonstackRoots, FinishMarking,
       StepFinalizing, visit
  <1>5. major_collection_step
    BY <1>1, <1>2, <1>3 DEF Next
  <1>6. PICK S : \/ free_unvisited_rawmalloc_objects_step(S)
                 \/ \E done \in BOOLEAN : mass_free_incremental(S, done)
    BY <1>4, <1>5 DEF major_collection_step
  <1> QED
    BY <1>6, SweepSteps

(* What was garbage when a marking began is free at the end of the sweep   *)
(* that follows it, whatever the program did in between.                   *)
THEOREM GarbageFreed ==
    ASSUME NoCardCopies
    PROVE  Spec => NoGarbageSurvives
  <1>1. IInv /\ [Next]_vars =>
           [gc_state = "SWEEPING" /\ gc_state' # "SWEEPING" => doomed' = {}]_vars
    BY SweepEndsClean, IncMinimarkAssumption
  <1> QED
    BY <1>1, InvariantHolds, PTL DEF Spec, NoGarbageSurvives
============================================================================
