---------------------------- MODULE IncMinimark ----------------------------
(***************************************************************************)
(* The incremental generational collector of rpython/memory/gc/            *)
(* incminimark.py.  Young objects live in the nursery, or are raw-malloced *)
(* when they are large; a minor collection moves the nursery objects that  *)
(* are still used to the heap and updates every pointer to them.  A major  *)
(* collection marks and sweeps the heap in steps, and the program runs     *)
(* between the steps.  The write barrier tells both what it has changed.   *)
(*                                                                         *)
(* An object is its address.  A step of the program or of the collector's  *)
(* inner loops is an action: the program runs only at pc = "run", so every *)
(* collection is one uninterrupted sequence of actions, as in the code.    *)
(* The stacks and deques of addresses are sets: the order of their         *)
(* entries, and an entry that is there twice, do not matter here.          *)
(***************************************************************************)
EXTENDS Integers, FiniteSets

CONSTANTS
    Nursery, Heap, Prebuilt,  \* the addresses of the three areas
    NULL,
    Index,                    \* the GC pointers of an object: 1..n
    Kinds,                    \* the kinds of objects the program allocates
    NonSmall,                 \* the kinds above small_request_threshold
    JitFrames,                \* the stack has frames of compiled code
    MaxRoots,                 \* bound: pointers on the stack
    MaxCopies,                \* bound: calls of ll_arraycopy
    MaxShadows                \* bound: nursery objects with a shadow

(* "small": a small struct or array of GC pointers.  "large": an array of  *)
(* GC pointers with card marking; an index stands for the items that share *)
(* a byte of card bits.  "leaf": no pointer.  The arenas hold only small   *)
(* objects: one of a kind in NonSmall, or "large", is raw-malloced.        *)
ASSUME IncMinimarkAssumption ==
    /\ Nursery \cap (Heap \cup Prebuilt) = {} /\ Heap \cap Prebuilt = {}
    /\ NULL \notin Nursery \cup Heap \cup Prebuilt \cup Index
    /\ Kinds \subseteq {"small", "large", "leaf"} /\ NonSmall \subseteq Kinds \ {"large"}
    /\ JitFrames \in BOOLEAN
    /\ MaxRoots \in Nat /\ MaxCopies \in Nat /\ MaxShadows \in Nat
    /\ IsFiniteSet(Index) /\ Index = 1..Cardinality(Index)

VARIABLES
    pc,          \* "run": the program; else a place in the collector
    kind,        \* what is at each address; "free" if nothing is
    ptr,         \* the pointers of each object
    flags,       \* the GCFLAG_xxx of each header
    card,        \* the card bits that are set
    forw,        \* the forwarding address of a nursery object, or NULL
    roots,       \* the stack
    stopped,     \* the part of it below a JIT frame whose marker is set
    gc_state,
    old_objects_pointing_to_young, old_objects_with_cards_set,
    prebuilt_root_objects,
    objects_to_trace, more_objects_to_trace,
    young_rawmalloced_objects, old_rawmalloced_objects,
    raw_malloc_might_sweep,
    unswept,     \* arena: the blocks mass_free_incremental has not reached
    nursery_objects_shadows,
    old_objects_pointing_to_pinned, updated_old_objects_pointing_to_pinned,
    surviving_pinned_objects,
    work,        \* the places _trace_drag_out is still to be called for
    copies,      \* how often ll_arraycopy was called
    doomed       \* history: the heap objects that were unreachable when
                 \* the marking began and are still allocated

heap == <<kind, ptr>>
stack == <<roots, stopped>>
header == <<flags, card>>
barrier == <<old_objects_pointing_to_young, old_objects_with_cards_set,
             prebuilt_root_objects>>
tracing == <<objects_to_trace, more_objects_to_trace>>
raw == <<young_rawmalloced_objects, old_rawmalloced_objects, raw_malloc_might_sweep>>
sweep == <<unswept, doomed>>
shadows == <<nursery_objects_shadows>>
pinning == <<old_objects_pointing_to_pinned, updated_old_objects_pointing_to_pinned,
             surviving_pinned_objects>>
vars == <<pc, heap, header, forw, stack, gc_state, barrier, tracing, raw, sweep, shadows,
          pinning, work, copies>>

Addr == Nursery \cup Heap \cup Prebuilt
NoPtr == [i \in Index |-> NULL]
Objects == {a \in Addr : kind[a] # "free"}
Has(a, flag) == flag \in flags[a]
is_in_nursery(a) == a \in Nursery
has_gcptr(a) == kind[a] # "leaf"
Targets(a) == {ptr[a][i] : i \in Index} \ {NULL}
Marking == gc_state = "MARKING"

(* init_gc_object_immortal gives the prebuilt objects their flags.         *)
Init ==
    /\ pc = "run"
    /\ kind = [a \in Addr |-> IF a \in Prebuilt THEN "small" ELSE "free"]
    /\ ptr = [a \in Addr |-> NoPtr]
    /\ flags = [a \in Addr |-> IF a \in Prebuilt
                               THEN {"NO_HEAP_PTRS", "TRACK_YOUNG_PTRS"} ELSE {}]
    /\ card = [a \in Addr |-> {}]
    /\ forw = [a \in Nursery |-> NULL]
    /\ roots = {} /\ stopped = {}
    /\ gc_state = "SCANNING"
    /\ old_objects_pointing_to_young = {} /\ old_objects_with_cards_set = {}
    /\ prebuilt_root_objects = {}
    /\ objects_to_trace = {} /\ more_objects_to_trace = {}
    /\ young_rawmalloced_objects = {} /\ old_rawmalloced_objects = {}
    /\ raw_malloc_might_sweep = {} /\ unswept = {} /\ doomed = {}
    /\ nursery_objects_shadows = [a \in Nursery |-> NULL]
    /\ old_objects_pointing_to_pinned = {} /\ surviving_pinned_objects = {}
    /\ updated_old_objects_pointing_to_pinned = FALSE
    /\ work = {} /\ copies = 0

----------------------------------------------------------------------------
(* Allocation.  The new object is on the stack.                            *)

init_gc_object(a, k, fl) ==
    /\ kind' = [kind EXCEPT ![a] = k]
    /\ flags' = [flags EXCEPT ![a] = fl]
    /\ roots' = roots \cup {a}
    /\ UNCHANGED <<pc, stopped, ptr, card, forw, gc_state, barrier, tracing, sweep, shadows,
                   pinning, work, copies>>

(* Bound: there is always room in the heap for what is in the nursery (a   *)
(* collection that runs out of memory aborts the program).                 *)
CanAllocate(a) ==
    /\ pc = "run" /\ kind[a] = "free" /\ Cardinality(roots) < MaxRoots
    /\ Cardinality({h \in Heap : kind[h] = "free"})
         > Cardinality({o \in Nursery : kind[o] # "free" /\ ~Has(o, "HAS_SHADOW")})

malloc_fixedsize(a, k) ==
    /\ CanAllocate(a) /\ a \in Nursery /\ k \in Kinds \ {"large"}
    /\ init_gc_object(a, k, {})
    /\ UNCHANGED raw

(* What does not fit in the nursery is raw-malloced and young.  An array   *)
(* with cards has CARDS_SET without being in old_objects_with_cards_set.   *)
ExternalMallocYoung(a, k) ==
    /\ CanAllocate(a) /\ a \in Heap /\ k \in (NonSmall \cup {"large"}) \cap Kinds
    /\ init_gc_object(a, k, IF k = "large" THEN {"HAS_CARDS", "TRACK_YOUNG_PTRS", "CARDS_SET"}
                                           ELSE {})
    /\ young_rawmalloced_objects' = young_rawmalloced_objects \cup {a}
    /\ UNCHANGED <<old_rawmalloced_objects, raw_malloc_might_sweep>>

(* The block a is given to an old object of kind k: it comes from an arena *)
(* or is raw-malloced.                                                     *)
MallocOld(a, k) ==
    /\ old_rawmalloced_objects' =
         IF k \in NonSmall THEN old_rawmalloced_objects \cup {a} ELSE old_rawmalloced_objects
    /\ UNCHANGED <<young_rawmalloced_objects, raw_malloc_might_sweep>>

(* An object with an old-style finalizer, which has a fixed size, is old   *)
(* from the start.                                                         *)
ExternalMallocOld(a, k) ==
    /\ CanAllocate(a) /\ a \in Heap /\ k \in Kinds \ {"large"}
    /\ init_gc_object(a, k, {"TRACK_YOUNG_PTRS"})
    /\ MallocOld(a, k)

----------------------------------------------------------------------------
(* The program's reads and writes.  Prebuilt objects are always at hand.   *)

Known == roots \cup Prebuilt

GetField(a, i) ==
    /\ pc = "run" /\ a \in Known /\ ptr[a][i] # NULL
    /\ Cardinality(roots \cup {ptr[a][i]}) <= MaxRoots
    /\ roots' = roots \cup {ptr[a][i]}
    /\ UNCHANGED <<pc, stopped, heap, header, forw, gc_state, barrier, tracing, raw, sweep, shadows,
                   pinning, work, copies>>

DropRoot(a) ==
    /\ pc = "run" /\ a \in roots
    /\ roots' = roots \ {a} /\ stopped' = stopped \ {a}
    /\ UNCHANGED <<pc, heap, header, forw, gc_state, barrier, tracing, raw, sweep, shadows,
                   pinning, work, copies>>

(* What a write barrier may do: remember objects, and give the prebuilt    *)
(* ones among them to prebuilt_root_objects; only the latter; set          *)
(* GCFLAG_CARDS_SET; set card bits.                                        *)
Barrier(remembered, rooted, carded, cards) ==
    /\ flags' = [a \in Addr |->
         (flags[a] \ ((IF a \in remembered THEN {"TRACK_YOUNG_PTRS"} ELSE {})
                      \cup (IF a \in remembered \cup rooted THEN {"NO_HEAP_PTRS"} ELSE {})))
         \cup (IF a \in carded THEN {"CARDS_SET"} ELSE {})]
    /\ card' = cards
    /\ old_objects_pointing_to_young' = old_objects_pointing_to_young \cup remembered
    /\ old_objects_with_cards_set' =
         old_objects_with_cards_set \cup {a \in carded : ~Has(a, "CARDS_SET")}
    /\ prebuilt_root_objects' =
         prebuilt_root_objects \cup {a \in remembered \cup rooted : Has(a, "NO_HEAP_PTRS")}

(* The members of S whose write barrier calls remember_young_pointer.      *)
Tracked(S) == {a \in S : Has(a, "TRACK_YOUNG_PTRS")}

write_barrier(a) == Barrier(Tracked({a}), {}, {}, card)

(* write_barrier_from_array for the items I of an array that is tracked,   *)
(* after the objects S were remembered.                                    *)
ItemBarriers(S, a, I) ==
    IF Has(a, "HAS_CARDS")
      THEN Barrier(S, {}, IF I \subseteq card[a] THEN {} ELSE {a},
                   [card EXCEPT ![a] = @ \cup I])
      ELSE Barrier(S \cup {a}, {}, {}, card)

write_barrier_from_array(a, i) ==
    IF Has(a, "TRACK_YOUNG_PTRS") THEN ItemBarriers({}, a, {i})
                                  ELSE UNCHANGED <<header, barrier>>

Others == <<pc, kind, forw, stack, gc_state, tracing, raw, sweep, shadows, work>>

(* The program writes v to one pointer of an object.                       *)
Write(a, i, v, k) ==
    /\ pc = "run" /\ a \in Known /\ v \in Known \cup {NULL}
    /\ kind[a] = k /\ ptr[a][i] # v
    /\ ptr' = [ptr EXCEPT ![a][i] = v]
    /\ UNCHANGED <<Others, pinning, copies>>

(* Mutant: nothing is remembered when what is written is old.              *)
SetFieldYoungOnly(a, i, v) ==
    /\ Write(a, i, v, "small")
    /\ IF v \in Nursery \cup young_rawmalloced_objects
         THEN write_barrier(a) ELSE UNCHANGED <<header, barrier>>

SetField(a, i, v) == Write(a, i, v, "small") /\ write_barrier(a)

(* Mutant: an array with cards does not note which card was written.       *)
SetArrayItemNoCard(a, i, v) ==
    Write(a, i, v, "large") /\ UNCHANGED <<header, barrier>>

SetArrayItem(a, i, v) == Write(a, i, v, "large") /\ write_barrier_from_array(a, i)

(* writebarrier_before_copy, and, when it returns False, the barriers of   *)
(* the items that ll_arraycopy then copies one by one.  The items I of s   *)
(* go to the items J of d.                                                 *)
CopyBarrier(s, d, I, J) ==
    LET known == IF updated_old_objects_pointing_to_pinned
                   THEN Tracked(old_objects_pointing_to_pinned) ELSE {}
        tracked(a) == Has(a, "TRACK_YOUNG_PTRS") /\ a \notin known
        noHeap(a) == Has(a, "NO_HEAP_PTRS") /\ a \notin known
    IN IF ~tracked(d) THEN Barrier(known, {}, {}, card)
       ELSE IF Has(s, "HAS_CARDS") THEN
         IF ~tracked(s) \/ ~Has(d, "HAS_CARDS") THEN ItemBarriers(known, d, J)
         ELSE IF ~Has(s, "CARDS_SET") THEN
           Barrier(known, {}, IF Marking THEN {d} ELSE {}, card)
         ELSE IF 1 \notin I \cap J THEN ItemBarriers(known, d, J)
         ELSE Barrier(known, {}, IF card[s] \cap I = {} THEN {} ELSE {d},
                      [card EXCEPT ![d] = @ \cup (card[s] \cap I)])
       ELSE Barrier(known \cup (IF ~tracked(s) \/ Marking THEN {d} ELSE {}),
                    IF noHeap(d) /\ ~noHeap(s) THEN {d} ELSE {}, {}, card)

(* n items of s, from the first one on, go to d, to the item to and those  *)
(* after it; within one array the two parts must not overlap.              *)
ll_arraycopy(s, d, from, to, n) ==
    LET I == from..(from + n - 1)
        J == to..(to + n - 1)
    IN
    /\ pc = "run" /\ copies < MaxCopies /\ {s, d} \subseteq Known
    /\ I \cup J \subseteq Index /\ (s = d => I \cap J = {})
    /\ kind[s] # "leaf" /\ kind[d] # "leaf"
    /\ CopyBarrier(s, d, I, J)
    /\ ptr' = [ptr EXCEPT ![d] =
                 [i \in Index |-> IF i \in J THEN ptr[s][i - to + from] ELSE @[i]]]
    /\ copies' = copies + 1
    /\ updated_old_objects_pointing_to_pinned' = FALSE
    /\ UNCHANGED <<Others, old_objects_pointing_to_pinned, surviving_pinned_objects>>

----------------------------------------------------------------------------
(* Pinning and id().                                                       *)

SetFlags(a, fl) == flags' = [flags EXCEPT ![a] = fl]

pin(o) ==
    /\ pc = "run" /\ o \in roots \cap Nursery
    /\ ~Has(o, "PINNED") /\ ~has_gcptr(o)
    /\ SetFlags(o, flags[o] \cup {"PINNED"})
    /\ UNCHANGED <<heap, card, barrier, pinning, copies, Others>>

unpin(o) ==
    /\ pc = "run" /\ o \in roots \cap Nursery /\ Has(o, "PINNED")
    /\ SetFlags(o, flags[o] \ {"PINNED"})
    /\ UNCHANGED <<heap, card, barrier, pinning, copies, Others>>

(* id() of a nursery object reserves the place s it will be moved to.  The *)
(* shadow gets all the flags of the object.                                *)
_allocate_shadow(o, s) ==
    /\ pc = "run" /\ o \in roots \cap Nursery /\ ~Has(o, "HAS_SHADOW")
    /\ Cardinality({n \in Nursery : Has(n, "HAS_SHADOW")}) < MaxShadows
    /\ s \in Heap /\ kind[s] = "free"
    /\ kind' = [kind EXCEPT ![s] = kind[o]]
    /\ flags' = [flags EXCEPT ![s] = flags[o], ![o] = @ \cup {"HAS_SHADOW"}]
    /\ nursery_objects_shadows' = [nursery_objects_shadows EXCEPT ![o] = s]
    /\ MallocOld(s, kind[o])
    /\ UNCHANGED <<pc, ptr, card, forw, stack, gc_state, barrier, tracing, sweep,
                   pinning, work, copies>>

----------------------------------------------------------------------------
(* The minor collection.                                                   *)

AddIf(S, cond, a) == IF cond THEN S \cup {a} ELSE S

(* The place <<p, i>>: pointer i of object p, or the root i if p is NULL.  *)
Content(p, i) == IF p = NULL THEN i ELSE ptr[p][i]

(* The places of S that _trace_drag_out does not leave at once.            *)
Places(S) ==
    {s \in S : Content(s[1], s[2]) \in Nursery \cup young_rawmalloced_objects}

Unmarked(fl) == fl \cap {"VISITED", "PINNED"} = {}

(* First modified objects that marking has passed are gray again.  Then    *)
(* _trace_drag_out is called for the roots and for the objects known to    *)
(* point to pinned ones.  A root that is not marked must be traced by the  *)
(* marking in progress.  The walk leaves out the roots in skip: it goes    *)
(* down the stack, stops at the first marker that is set, and sets those   *)
(* it meets.                                                               *)
StartMinor(skip) ==
    LET opy == old_objects_pointing_to_young \ young_rawmalloced_objects
        black == IF Marking
                   THEN {a \in opy \cup old_objects_pointing_to_pinned : Has(a, "VISITED")}
                   ELSE {}
        walked == roots \ skip
        todo == Places(({NULL} \X walked) \cup (old_objects_pointing_to_pinned \X Index))
    IN /\ pc = "run" /\ skip \subseteq stopped
       /\ pc' = "cards"
       /\ old_objects_pointing_to_young' = opy
       /\ flags' = [a \in Addr |-> IF a \in black THEN flags[a] \ {"VISITED"} ELSE flags[a]]
       /\ work' = todo
       /\ more_objects_to_trace' =
            more_objects_to_trace \cup black
            \cup {r \in walked : Marking /\ <<NULL, r>> \notin todo /\ Unmarked(flags'[r])}
       /\ surviving_pinned_objects' = {} /\ old_objects_pointing_to_pinned' = {}
       /\ stopped' = {}
       /\ UNCHANGED <<heap, card, forw, roots, gc_state, old_objects_with_cards_set,
                      prebuilt_root_objects, objects_to_trace, raw, sweep, shadows,
                      updated_old_objects_pointing_to_pinned, copies>>

(* The place <<p, i>>, when the pointers are P, is done and holds c.       *)
Dragged(p, i, P, c) ==
    /\ work' = work \ {<<p, i>>}
    /\ ptr' = IF p = NULL THEN P ELSE [P EXCEPT ![p][i] = c]
    /\ roots' = IF p = NULL THEN (roots \ {i}) \cup {c} ELSE roots
    /\ more_objects_to_trace' =
         AddIf(more_objects_to_trace, Marking /\ p = NULL /\ Unmarked(flags'[c]), c)
    /\ UNCHANGED <<pc, card, stopped, gc_state, prebuilt_root_objects, objects_to_trace,
                   sweep, shadows, copies>>

DragForwarded(p, i) ==
    LET o == Content(p, i) IN
    /\ o \in Nursery /\ forw[o] # NULL
    /\ UNCHANGED <<kind, flags, forw, old_objects_pointing_to_young,
                   old_objects_with_cards_set, raw, pinning>>
    /\ Dragged(p, i, ptr, forw[o])

_visit_young_rawmalloced_object(p, i) ==
    LET o == Content(p, i)
        first == ~Has(o, "VISITED_RMY")
    IN /\ o \in young_rawmalloced_objects
       /\ SetFlags(o, flags[o] \cup {"VISITED_RMY"})
       /\ old_objects_pointing_to_young' =
            AddIf(old_objects_pointing_to_young, first /\ ~Has(o, "TRACK_YOUNG_PTRS"), o)
       /\ old_objects_with_cards_set' =
            AddIf(old_objects_with_cards_set, first /\ Has(o, "HAS_CARDS"), o)
       /\ UNCHANGED <<kind, forw, raw, pinning>>
       /\ Dragged(p, i, ptr, o)

(* A pinned object stays where it is.  "PINNED" on a parent, of which      *)
(* there may be several, is PINNED_OBJECT_PARENT_KNOWN, the same bit.      *)
DragPinned(p, i) ==
    LET o == Content(p, i)
        new == p # NULL /\ ~Has(p, "PINNED")
    IN /\ o \in Nursery /\ forw[o] = NULL /\ Has(o, "PINNED")
       /\ flags' = [flags EXCEPT ![o] = @ \cup {"VISITED"},
                                 ![IF new THEN p ELSE o] = @ \cup {"PINNED"}]
       /\ old_objects_pointing_to_pinned' = AddIf(old_objects_pointing_to_pinned, new, p)
       /\ updated_old_objects_pointing_to_pinned' =
            (updated_old_objects_pointing_to_pinned \/ new)
       /\ surviving_pinned_objects' = surviving_pinned_objects \cup {o}
       /\ UNCHANGED <<kind, forw, old_objects_pointing_to_young, old_objects_with_cards_set,
                      raw>>
       /\ Dragged(p, i, ptr, o)

(* The flags of o after it was copied over a.                              *)
MovedFlags(o, a) == flags[o] \cup (flags[a] \cap {"VISITED"})

(* The object is copied to a, its shadow or a new block.                   *)
DragMove(p, i, a) ==
    LET o == Content(p, i) IN
       /\ o \in Nursery /\ forw[o] = NULL /\ ~Has(o, "PINNED")
       /\ IF Has(o, "HAS_SHADOW")
            THEN a = nursery_objects_shadows[o] /\ UNCHANGED raw
            ELSE kind[a] = "free" /\ MallocOld(a, kind[o])
       /\ kind' = [kind EXCEPT ![a] = kind[o]]
       /\ SetFlags(a, MovedFlags(o, a))
       /\ forw' = [forw EXCEPT ![o] = a]
       /\ old_objects_pointing_to_young' =
            AddIf(old_objects_pointing_to_young, has_gcptr(o), a)
       /\ UNCHANGED <<old_objects_with_cards_set, pinning>>
       /\ Dragged(p, i, [ptr EXCEPT ![a] = ptr[o]], a)

_trace_drag_out(p, i) ==
    \/ DragForwarded(p, i)
    \/ _visit_young_rawmalloced_object(p, i)
    \/ DragPinned(p, i)
    \/ \E a \in Heap : DragMove(p, i, a)

(* Mutant: an array that is traced by its cards stays black.               *)
KeepBlack(o) == UNCHANGED more_objects_to_trace /\ SetFlags(o, flags[o] \ {"CARDS_SET"})

(* Mutant: GCFLAG_CARDS_SET stays on when the array is not tracked.        *)
KeepCardsSet(o) ==
    IF Marking /\ Has(o, "TRACK_YOUNG_PTRS")
      THEN /\ more_objects_to_trace' = more_objects_to_trace \cup {o}
           /\ SetFlags(o, flags[o] \ {"CARDS_SET", "VISITED"})
      ELSE UNCHANGED <<more_objects_to_trace, flags>>

(* An array that is traced by its cards is gray again.                     *)
TurnGray(o) ==
    IF Marking /\ Has(o, "TRACK_YOUNG_PTRS")
      THEN /\ more_objects_to_trace' = more_objects_to_trace \cup {o}
           /\ SetFlags(o, flags[o] \ {"CARDS_SET", "VISITED"})
      ELSE UNCHANGED more_objects_to_trace /\ SetFlags(o, flags[o] \ {"CARDS_SET"})

collect_cardrefs_to_nursery(o) ==
    /\ work = {} /\ o \in old_objects_with_cards_set
    /\ pc = "cards" \/ (pc = "oldrefs" /\ old_objects_pointing_to_young = {})
    /\ pc' = "cards"
    /\ old_objects_with_cards_set' = old_objects_with_cards_set \ {o}
    /\ work' = IF Has(o, "TRACK_YOUNG_PTRS") THEN Places({o} \X card[o]) ELSE {}
    /\ card' = [card EXCEPT ![o] = {}]
    /\ TurnGray(o)
    /\ UNCHANGED <<heap, forw, stack, gc_state, old_objects_pointing_to_young,
                   prebuilt_root_objects, objects_to_trace, raw, sweep, shadows, pinning,
                   copies>>

collect_oldrefs_to_nursery(o) ==
    /\ work = {} /\ o \in old_objects_pointing_to_young
    /\ pc = "oldrefs" \/ (pc = "cards" /\ old_objects_with_cards_set = {})
    /\ pc' = "oldrefs"
    /\ old_objects_pointing_to_young' = old_objects_pointing_to_young \ {o}
    /\ SetFlags(o, flags[o] \cup {"TRACK_YOUNG_PTRS"})
    /\ work' = Places({o} \X Index)
    /\ UNCHANGED <<heap, card, forw, stack, gc_state, old_objects_with_cards_set,
                   prebuilt_root_objects, tracing, raw, sweep, shadows, pinning, copies>>

(* The addresses in dead are free, the headers of the others become fl.    *)
Free(dead, fl) ==
    /\ kind' = [a \in Addr |-> IF a \in dead THEN "free" ELSE kind[a]]
    /\ ptr' = [a \in Addr |-> IF a \in dead THEN NoPtr ELSE ptr[a]]
    /\ flags' = [a \in Addr |-> IF a \in dead THEN {} ELSE fl[a]]
    /\ card' = [a \in Addr |-> IF a \in dead THEN {} ELSE card[a]]
    /\ doomed' = doomed \ dead

(* Mutant: the shadow of a pinned object is not marked.                    *)
MarkNoShadow(S) == {}

(* record_pinned_object_with_shadow: the shadows of pinned objects that    *)
(* become black.                                                           *)
MarkShadows(S) == IF Marking THEN {nursery_objects_shadows[o] : o \in S} \ {NULL} ELSE {}

(* Mutant: the stack is not walked completely for pinned objects.          *)
StoppedAlways(pinned) == IF JitFrames THEN roots ELSE {}

(* The roots that the next minor collection may leave out, which walks the *)
(* complete stack if any_pinned_object_from_earlier, after a switch of     *)
(* threads, and where no marker is left: it may also leave out none.       *)
StoppedAt(pinned) == IF JitFrames /\ pinned = {} THEN roots ELSE {}

(* What is left of the nursery is free.  Shadows are kept for pinned       *)
(* objects only; young raw-malloced objects become old or die.             *)
FinishMinor ==
    LET pinned == surviving_pinned_objects
        marked == MarkShadows(pinned)
        seen == {a \in young_rawmalloced_objects : Has(a, "VISITED_RMY")}
        cleared(a) == (IF a \in pinned THEN {"VISITED"} ELSE {"VISITED_RMY"})
                      \cup (IF a \in old_objects_pointing_to_pinned THEN {"PINNED"} ELSE {})
    IN /\ pc \in {"cards", "oldrefs"} /\ work = {}
       /\ old_objects_with_cards_set = {} /\ old_objects_pointing_to_young = {}
       /\ pc' = "minor_done"
       /\ nursery_objects_shadows' =
            [o \in Nursery |-> IF o \in pinned THEN nursery_objects_shadows[o] ELSE NULL]
       /\ Free((Nursery \ pinned) \cup (young_rawmalloced_objects \ seen),
               [a \in Addr |-> (flags[a] \ cleared(a))
                               \cup (IF a \in marked THEN {"VISITED"} ELSE {})])
       /\ young_rawmalloced_objects' = {}
       /\ old_rawmalloced_objects' = old_rawmalloced_objects \cup seen
       /\ surviving_pinned_objects' = {}
       /\ forw' = [o \in Nursery |-> NULL]
       /\ stopped' = StoppedAt(pinned)
       /\ UNCHANGED <<roots, gc_state, barrier, tracing, raw_malloc_might_sweep, unswept,
                      old_objects_pointing_to_pinned,
                      updated_old_objects_pointing_to_pinned, work, copies>>

(* collect(-1), or no major collection is due.                             *)
ReturnToProgram ==
    /\ pc = "minor_done"
    /\ pc' = "run"
    /\ UNCHANGED <<heap, header, forw, stack, gc_state, barrier, tracing, raw, sweep, shadows,
                   pinning, work, copies>>

----------------------------------------------------------------------------
(* The major collection: major_collection_step in each gc_state.           *)

RootSet == roots \cup Prebuilt
Closed(S) == \A a \in S : Targets(a) \subseteq S
Reachable == LET C == {S \in SUBSET Addr : RootSet \subseteq S /\ Closed(S)}
             IN {a \in Addr : \A S \in C : a \in S}

collect_nonstack_roots == prebuilt_root_objects

(* Mutant: pinned objects are not ignored.                                 *)
CollectAll(S) == S

_collect_obj(S) == S \ Nursery

StepScanning ==
    /\ pc = "minor_done" /\ gc_state = "SCANNING"
    /\ objects_to_trace' = _collect_obj(collect_nonstack_roots \cup roots)
    /\ more_objects_to_trace' = {}
    /\ gc_state' = "MARKING"
    /\ doomed' = ((Objects \cap Heap) \ Reachable) \ {nursery_objects_shadows[o] : o \in Nursery}
    /\ pc' = "run"
    /\ UNCHANGED <<heap, header, forw, stack, barrier, raw, unswept, shadows, pinning, work,
                   copies>>

(* Mutant: an object that is traced does not become black.                 *)
TracedOnly == {"TRACK_YOUNG_PTRS"}

BlackFlags == {"VISITED", "TRACK_YOUNG_PTRS"}

(* visit_all_objects_step, which pc = "marking" may leave after an object  *)
(* that was white; visit_all_objects at pc = "visit_all" and pc = "last".  *)
visit(o) ==
    LET white == flags[o] \cap {"VISITED", "NO_HEAP_PTRS"} = {} IN
    /\ Marking /\ pc \in {"minor_done", "marking", "visit_all", "last"}
    /\ o \in objects_to_trace
    /\ objects_to_trace' = (objects_to_trace \ {o})
                           \cup (IF white THEN _collect_obj(Targets(o)) ELSE {})
    /\ SetFlags(o, flags[o] \cup (IF white THEN BlackFlags ELSE {}))
    /\ pc' = IF pc = "minor_done" /\ white THEN "marking" ELSE pc
    /\ UNCHANGED <<heap, card, forw, stack, gc_state, barrier, more_objects_to_trace, raw,
                   sweep, shadows, pinning, work, copies>>

StopMarking ==
    /\ pc = "marking" /\ objects_to_trace \cup more_objects_to_trace # {}
    /\ pc' = "run"
    /\ UNCHANGED <<heap, header, forw, stack, gc_state, barrier, tracing, raw, sweep, shadows,
                   pinning, work, copies>>

(* Less than half of the step was used: visit the rest.                    *)
VisitMoreObjects ==
    /\ Marking /\ pc \in {"minor_done", "marking"}
    /\ objects_to_trace = {} /\ more_objects_to_trace # {}
    /\ objects_to_trace' = more_objects_to_trace
    /\ more_objects_to_trace' = {}
    /\ pc' = "visit_all"
    /\ UNCHANGED <<heap, header, forw, stack, gc_state, barrier, raw, sweep, shadows, pinning,
                   work, copies>>

RescanNonstackRoots ==
    /\ Marking /\ pc \in {"minor_done", "marking", "visit_all"}
    /\ objects_to_trace = {} /\ more_objects_to_trace = {}
    /\ objects_to_trace' = _collect_obj(collect_nonstack_roots)
    /\ pc' = "last"
    /\ UNCHANGED <<heap, header, forw, stack, gc_state, barrier, more_objects_to_trace, raw,
                   sweep, shadows, pinning, work, copies>>

(* mass_free_prepare takes the blocks of the arenas, and                   *)
(* start_free_rawmalloc_objects the raw-malloced objects.                  *)
FinishMarking ==
    /\ pc = "last" /\ objects_to_trace = {}
    /\ unswept' = (Objects \cap Heap) \ old_rawmalloced_objects
    /\ raw_malloc_might_sweep' = old_rawmalloced_objects
    /\ old_rawmalloced_objects' = {}
    /\ old_objects_pointing_to_pinned' =
         {a \in old_objects_pointing_to_pinned : Has(a, "VISITED")}
    /\ updated_old_objects_pointing_to_pinned' =
         (updated_old_objects_pointing_to_pinned \/ old_objects_pointing_to_pinned # {})
    /\ gc_state' = "SWEEPING"
    /\ pc' = "run"
    /\ UNCHANGED <<heap, header, forw, stack, barrier, tracing, young_rawmalloced_objects,
                   doomed, shadows, surviving_pinned_objects, work, copies>>

(* Mutant: the survivors keep GCFLAG_VISITED.                              *)
SweepKeepMarks(S, cleared) == Free({a \in S : ~Has(a, "VISITED")}, flags)

(* Of the objects in S, those with GCFLAG_VISITED lose it and the others   *)
(* are freed.  In the same step it is reset on the objects in cleared.     *)
Sweep(S, cleared) ==
    Free({a \in S : ~Has(a, "VISITED")},
         [a \in Addr |-> IF a \in S \cup cleared THEN flags[a] \ {"VISITED"} ELSE flags[a]])

free_unvisited_rawmalloc_objects_step(S) ==
    /\ pc = "minor_done" /\ gc_state = "SWEEPING" /\ S # {}
    /\ S \subseteq raw_malloc_might_sweep
    /\ raw_malloc_might_sweep' = raw_malloc_might_sweep \ S
    /\ old_rawmalloced_objects' = old_rawmalloced_objects \cup {a \in S : Has(a, "VISITED")}
    /\ Sweep(S, {})
    /\ pc' = "run"
    /\ UNCHANGED <<forw, stack, gc_state, barrier, tracing, young_rawmalloced_objects, unswept,
                   shadows, pinning, work, copies>>

(* Mutant: a step may sweep nothing.                                       *)
NoMinimum(S, done) == done => S = unswept

(* A step sweeps at least one page, and the last one all that is left; a   *)
(* step that has seen every block need not be the last.                    *)
SweepLimit(S, done) == (S # {} \/ done) /\ (done => S = unswept)

(* A MemoryError skips FINALIZING.                                         *)
mass_free_incremental(S, done) ==
    /\ pc = "minor_done" /\ gc_state = "SWEEPING" /\ raw_malloc_might_sweep = {}
    /\ S \subseteq unswept /\ SweepLimit(S, done)
    /\ unswept' = unswept \ S
    /\ Sweep(S, IF done THEN prebuilt_root_objects ELSE {})
    /\ gc_state' \in IF done THEN {"FINALIZING", "SCANNING"} ELSE {"SWEEPING"}
    /\ pc' = "run"
    /\ UNCHANGED <<forw, stack, barrier, tracing, raw, shadows, pinning, work, copies>>

(* collect(1) goes on to a step in SCANNING.                               *)
StepFinalizing ==
    /\ pc = "minor_done" /\ gc_state = "FINALIZING"
    /\ gc_state' = "SCANNING"
    /\ pc' \in {"run", "minor_done"}
    /\ UNCHANGED <<heap, header, forw, stack, barrier, tracing, raw, sweep, shadows, pinning,
                   work, copies>>

major_collection_step ==
    \/ StepScanning
    \/ \E o \in objects_to_trace : visit(o)
    \/ StopMarking \/ VisitMoreObjects \/ RescanNonstackRoots \/ FinishMarking
    \/ \E S \in SUBSET raw_malloc_might_sweep : free_unvisited_rawmalloc_objects_step(S)
    \/ \E S \in SUBSET unswept, done \in BOOLEAN : mass_free_incremental(S, done)
    \/ StepFinalizing

_minor_collection ==
    \/ \E s \in work : _trace_drag_out(s[1], s[2])
    \/ \E o \in old_objects_with_cards_set : collect_cardrefs_to_nursery(o)
    \/ \E o \in old_objects_pointing_to_young : collect_oldrefs_to_nursery(o)
    \/ FinishMinor

Program ==
    \/ \E a \in Nursery, k \in Kinds : malloc_fixedsize(a, k)
    \/ \E a \in Heap, k \in Kinds : ExternalMallocYoung(a, k) \/ ExternalMallocOld(a, k)
    \/ \E a \in Known, i \in Index : GetField(a, i)
    \/ \E a \in roots : DropRoot(a) \/ pin(a) \/ unpin(a)
    \/ \E a \in Known, i \in Index, v \in Known \cup {NULL} :
         SetField(a, i, v) \/ SetArrayItem(a, i, v)
    \/ \E s, d \in Known, from, to, n \in Index : ll_arraycopy(s, d, from, to, n)
    \/ \E o \in roots, s \in Heap : _allocate_shadow(o, s)

Next ==
    \/ Program \/ (\E skip \in SUBSET stopped : StartMinor(skip))
    \/ _minor_collection \/ ReturnToProgram \/ major_collection_step

Spec == Init /\ [][Next]_vars

(* The program keeps filling the nursery, a collection runs to its end,    *)
(* and of the collections infinitely many go on with the major one, as     *)
(* every collection does that a full nursery starts.                       *)
Fairness ==
    /\ WF_vars(\E skip \in SUBSET stopped : StartMinor(skip))
    /\ WF_vars(_minor_collection)
    /\ SF_vars(major_collection_step)

FairSpec == Spec /\ Fairness

----------------------------------------------------------------------------
(* Every object that the program can still reach, through any chain of     *)
(* pointers, is allocated: neither a minor collection, which must find     *)
(* all pointers into the nursery, nor a sweep after an incremental marking *)
(* during which the program kept changing the pointers, frees one.         *)
NothingReachableFreed == pc = "run" => Reachable \subseteq Objects

Gray == objects_to_trace \cup more_objects_to_trace \cup prebuilt_root_objects

(* _debug_check_object_marking, which debug_check_consistency calls for    *)
(* every reachable object when a major step starts: an object that is      *)
(* marked points to no object that the marking does not know of, and the   *)
(* write barrier will notice a change of it.                               *)
BlackNeverPointsToWhite ==
    pc = "minor_done" /\ Marking =>
        \A a \in Reachable : Has(a, "VISITED") =>
            /\ has_gcptr(a) => Has(a, "TRACK_YOUNG_PTRS")
            /\ \A b \in Targets(a) \ Gray :
                  flags[b] \cap {"VISITED", "NO_HEAP_PTRS", "PINNED"} # {}

(* debug_check_object after a minor collection, in the other states: only  *)
(* pinned objects are in the nursery, and no reachable object has a card,  *)
(* a mark of the cycle that has ended or a missing TRACK_YOUNG_PTRS.       *)
CleanAfterMinor ==
    pc = "minor_done" =>
        /\ young_rawmalloced_objects = {}
        /\ raw_malloc_might_sweep # {} => gc_state = "SWEEPING"
        /\ \A a \in Reachable :
             /\ is_in_nursery(a) <=> Has(a, "PINNED")
             /\ ~Has(a, "VISITED_RMY")
             /\ ~Marking =>
                  /\ has_gcptr(a) => Has(a, "TRACK_YOUNG_PTRS")
                  /\ ~Has(a, "CARDS_SET") /\ card[a] = {}
             /\ gc_state \in {"SCANNING", "FINALIZING"} => ~Has(a, "VISITED")

(* The ll_assert of the loops that empty the lists: nothing that the       *)
(* marking will visit is in the nursery or has GCFLAG_PINNED (a shadow     *)
(* copies that flag), and the flags of a remembered object say so.         *)
ListsAgreeWithFlags ==
    /\ \A a \in old_objects_pointing_to_young : ~Has(a, "TRACK_YOUNG_PTRS")
    /\ \A a \in old_objects_with_cards_set : {"HAS_CARDS", "CARDS_SET"} \subseteq flags[a]
    /\ Marking /\ pc \in {"minor_done", "marking", "visit_all", "last"} =>
         \A a \in objects_to_trace \cup more_objects_to_trace :
            a \notin Nursery /\ ~Has(a, "PINNED") /\ kind[a] # "free"

(* An object with an id() keeps the block that the id is the address of,   *)
(* though nothing but the table points to that block: the sweep leaves it  *)
(* alone as long as the object is pinned in the nursery.                   *)
ShadowsKept ==
    pc = "run" => \A o \in Nursery : Has(o, "HAS_SHADOW") =>
        /\ nursery_objects_shadows[o] \in Objects
        /\ kind[nursery_objects_shadows[o]] = kind[o]
        /\ nursery_objects_shadows[o] \notin Reachable
        /\ \A p \in Nursery \ {o} : nursery_objects_shadows[p] # nursery_objects_shadows[o]

(* What was unreachable when a major collection began is free when it      *)
(* ends, though the program and the minor collections ran in between.      *)
NoGarbageSurvives ==
    [][gc_state = "SWEEPING" /\ gc_state' # "SWEEPING" => doomed' = {}]_vars

(* Every collection comes to an end: the lists that its loops empty are    *)
(* filled by the same loops.                                               *)
CollectionEnds == pc # "run" ~> pc = "run"

(* A sweep ends, whatever the program allocates meanwhile.                 *)
SweepingEnds == gc_state = "SWEEPING" ~> gc_state # "SWEEPING"
=============================================================================
