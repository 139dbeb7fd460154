---------------------------- MODULE ShadowStacks ----------------------------
(***************************************************************************)
(* The shadow stacks of rpython/memory/gctransform/shadowstack.py: every   *)
(* thread keeps its GC roots on a stack of its own, but only one stack is  *)
(* installed, in gcdata.root_stack_base/top.  It is exchanged whenever the *)
(* interpreter lock was given to another thread, a dying thread switches   *)
(* to the main thread's stack on its behalf, a forked child drops the      *)
(* stacks of the threads that are gone, and sys.setrecursionlimit() moves  *)
(* all of them to larger buffers.                                          *)
(*                                                                         *)
(* A thread is its ident, which the system gives to a later thread when    *)
(* the first one has ended.                                                *)
(***************************************************************************)
EXTENDS Integers, FiniteSets

CONSTANTS
    Tid,        \* thread idents
    NoTid,
    Buffer,     \* what raw_malloc can return
    NULL,
    InitialDepth,  \* the root_stack_depth of the start, 163840 in the code
    MaxDepth       \* bound: the largest root_stack_depth

ASSUME ShadowStacksAssumption ==
    /\ NoTid \notin Tid /\ NULL \notin Buffer
    /\ MaxDepth \in Nat \ {0} /\ InitialDepth \in 1..MaxDepth

VARIABLES
    gil,               \* the holder of the interpreter lock
    pc,                \* where each thread is
    depth,             \* history: how many roots each thread has pushed
    active_tid, main_tid,
    root_stack_base, root_stack_top,    \* the installed stack
    unused_full_stack,
    thread_stacks,     \* the idents with a SHADOWSTACKREF; {} stands for None too
    ref_base, ref_top, \* the fields of the SHADOWSTACKREFs
    garbage,           \* the buffers of SHADOWSTACKREFs nothing refers to any more
    mem,               \* the thread that pushed each entry of each buffer; NoTid
                       \* for what the stack's top says is not an entry
    size,              \* the entries of each buffer; 0 when it is not allocated
    root_stack_depth,
    new_depth, todo    \* increase_root_stack_depth: target, stacks to move

current == <<active_tid, root_stack_base, root_stack_top>>
refs == <<thread_stacks, ref_base, ref_top>>
heap == <<mem, size, garbage>>
resizing == <<root_stack_depth, new_depth, todo>>
vars == <<gil, pc, depth, main_tid, current, unused_full_stack, refs, heap, resizing>>

(* "none": no thread has this ident.  "out": without the lock.  "run": in  *)
(* thread_run, "switch": in switch_shadow_stacks after its last            *)
(* allocation.  "in": running RPython code.  "dead": after thread_die.     *)
Points == {"none", "out", "run", "switch", "in", "resize", "dead"}

Blank == [i \in 1..MaxDepth |-> NoTid]
Free == {b \in Buffer : size[b] = 0}

Init ==
    \E t \in Tid, b \in Buffer :
        /\ gil = t
        /\ pc = [u \in Tid |-> IF u = t THEN "in" ELSE "none"]
        /\ depth = [u \in Tid |-> 0]
        /\ active_tid = t /\ main_tid = t
        /\ root_stack_base = b /\ root_stack_top = 0
        /\ unused_full_stack = NULL
        /\ thread_stacks = {}
        /\ ref_base = [u \in Tid |-> NULL] /\ ref_top = [u \in Tid |-> 0]
        /\ garbage = {}
        /\ mem = [c \in Buffer |-> Blank]
        /\ size = [c \in Buffer |-> IF c = b THEN InitialDepth ELSE 0]
        /\ root_stack_depth = InitialDepth
        /\ new_depth = 0 /\ todo = {}

Goto(t, point) == pc' = [pc EXCEPT ![t] = point]

----------------------------------------------------------------------------
(* Threads come and go, and take and release the interpreter lock.         *)

ThreadStarts(t) ==
    /\ pc[t] = "none"
    /\ Goto(t, "out")
    /\ UNCHANGED <<gil, depth, main_tid, current, unused_full_stack, refs, heap, resizing>>

AcquireGil(t) ==
    /\ pc[t] = "out" /\ gil = NoTid
    /\ gil' = t
    /\ Goto(t, "run")
    /\ UNCHANGED <<depth, main_tid, current, unused_full_stack, refs, heap, resizing>>

ReleaseGil(t) ==
    /\ pc[t] = "in"
    /\ gil' = NoTid
    /\ Goto(t, "out")
    /\ UNCHANGED <<depth, main_tid, current, unused_full_stack, refs, heap, resizing>>

(* A thread ends after thread_die, or, when it was not started by RPython  *)
(* code, by returning from a callback.                                     *)
ThreadEnds(t) ==
    /\ pc[t] = "dead" \/ (pc[t] = "in" /\ depth[t] = 0)
    /\ gil' = NoTid
    /\ Goto(t, "none")
    /\ UNCHANGED <<depth, main_tid, current, unused_full_stack, refs, heap, resizing>>

(* push_roots: the check of the machine stack keeps the number of roots    *)
(* within root_stack_depth.                                                *)
PushRoot(t) ==
    /\ pc[t] = "in" /\ depth[t] < root_stack_depth
    /\ depth' = [depth EXCEPT ![t] = @ + 1]
    /\ root_stack_top' = root_stack_top + 1
    /\ mem' = [mem EXCEPT ![root_stack_base][root_stack_top + 1] = t]
    /\ UNCHANGED <<gil, pc, main_tid, active_tid, root_stack_base, unused_full_stack,
                   refs, size, garbage, resizing>>

PopRoot(t) ==
    /\ pc[t] = "in" /\ depth[t] > 0
    /\ depth' = [depth EXCEPT ![t] = @ - 1]
    /\ root_stack_top' = root_stack_top - 1
    /\ mem' = [mem EXCEPT ![root_stack_base][root_stack_top] = NoTid]
    /\ UNCHANGED <<gil, pc, main_tid, active_tid, root_stack_base, unused_full_stack,
                   refs, size, garbage, resizing>>

----------------------------------------------------------------------------
(* thread_run, with the first half of switch_shadow_stacks: allocate a     *)
(* SHADOWSTACKREF for the thread whose stack is installed.                 *)
RunUnless(t, installed) ==
    /\ pc[t] = "run"
    /\ IF installed
         THEN Goto(t, "in") /\ UNCHANGED thread_stacks
         ELSE /\ Goto(t, "switch")
              /\ thread_stacks' = thread_stacks \cup {active_tid}
    /\ UNCHANGED <<gil, depth, main_tid, current, unused_full_stack, ref_base, ref_top,
                   heap, resizing>>

(* Mutant: nothing is switched while thread_stacks is None.                *)
RunWithoutSwitch(t) == RunUnless(t, active_tid = t \/ thread_stacks = {})

thread_run(t) == RunUnless(t, active_tid = t)

(* The operations of the pool.  b is the buffer _prepare_unused_stack      *)
(* leaves in unused_full_stack.                                            *)
_prepare_unused_stack(b) ==
    IF unused_full_stack = NULL
      THEN b \in Free /\ size' = [size EXCEPT ![b] = root_stack_depth]
      ELSE b = unused_full_stack /\ UNCHANGED size

(* One field of the reference of the thread whose stack is installed.      *)
save_current_state_away(field, value) == [field EXCEPT ![active_tid] = value]

(* Not modelled: can_look_at_partial_stack = False, which makes the next   *)
(* minor collection walk the whole stack, as every walk here does.         *)
restore_state_from(t) ==
    root_stack_base' = ref_base[t] /\ root_stack_top' = ref_top[t]

start_fresh_new_state(b) ==
    root_stack_base' = b /\ root_stack_top' = 0 /\ unused_full_stack' = NULL

forget_current_state(freed) ==
    /\ size' = [b \in Buffer |-> IF b = freed THEN 0 ELSE size[b]]
    /\ unused_full_stack' = root_stack_base

(* The second half, with no GC operation: save_current_state_away, then    *)
(* restore_state_from or start_fresh_new_state.                            *)
RestoreOld(t) ==
    /\ pc[t] = "switch" /\ t \in thread_stacks
    /\ \E b \in Buffer : _prepare_unused_stack(b) /\ unused_full_stack' = b
    /\ Goto(t, "in")
    /\ active_tid' = t
    /\ restore_state_from(t)
    /\ ref_base' = [save_current_state_away(ref_base, root_stack_base) EXCEPT ![t] = NULL]
    /\ ref_top' = [save_current_state_away(ref_top, root_stack_top) EXCEPT ![t] = 0]
    /\ UNCHANGED <<gil, depth, main_tid, thread_stacks, mem, garbage, resizing>>

StartFresh(t) ==
    /\ pc[t] = "switch" /\ t \notin thread_stacks
    /\ \E b \in Buffer : _prepare_unused_stack(b) /\ start_fresh_new_state(b)
    /\ Goto(t, "in")
    /\ active_tid' = t
    /\ ref_base' = save_current_state_away(ref_base, root_stack_base)
    /\ ref_top' = save_current_state_away(ref_top, root_stack_top)
    /\ UNCHANGED <<gil, depth, main_tid, thread_stacks, mem, garbage, resizing>>

----------------------------------------------------------------------------
(* thread_die: forget the current stack, install the main thread's.        *)
DieInMain(t) ==
    /\ pc[t] = "in" /\ depth[t] = 0 /\ t = main_tid
    /\ Goto(t, "dead")
    /\ UNCHANGED <<gil, depth, main_tid, current, unused_full_stack, refs, heap, resizing>>

(* 'next' becomes the active ident, the stack installed is that of 'from', *)
(* and the buffer 'freed' is given back.                                   *)
Die(t, next, from, freed) ==
    /\ pc[t] = "in" /\ depth[t] = 0 /\ t # main_tid
    /\ Goto(t, "dead")
    /\ active_tid' = next
    /\ thread_stacks' = thread_stacks \ {t}
    /\ forget_current_state(freed)
    /\ restore_state_from(from)
    /\ ref_base' = [ref_base EXCEPT ![from] = NULL]
    /\ ref_top' = [ref_top EXCEPT ![from] = 0]
    /\ UNCHANGED <<gil, depth, main_tid, mem, garbage, resizing>>

(* Mutants: active_tid is not changed; the stack that was unused so far is *)
(* not freed.                                                              *)
DieKeepsActive(t) == Die(t, t, main_tid, unused_full_stack)
DieLeaksUnused(t) == Die(t, main_tid, main_tid, NULL)

thread_die(t) == Die(t, main_tid, main_tid, unused_full_stack)

----------------------------------------------------------------------------
(* thread_after_fork, in the child: the other threads are gone, and their  *)
(* SHADOWSTACKREFs are left to the collector.  Bound: it has collected the *)
(* ones of an earlier fork.                                                *)
AfterFork(t, main) ==
    /\ pc[t] = "in" /\ garbage = {}
    /\ pc' = [u \in Tid |-> IF u = t THEN "in" ELSE "none"]
    /\ depth' = [u \in Tid |-> IF u = t THEN depth[t] ELSE 0]
    /\ thread_stacks' = {}
    /\ ref_base' = [u \in Tid |-> NULL] /\ ref_top' = [u \in Tid |-> 0]
    /\ garbage' = {ref_base[u] : u \in thread_stacks} \ {NULL}
    /\ main_tid' = main /\ active_tid' = t
    /\ UNCHANGED <<gil, root_stack_base, root_stack_top, unused_full_stack, mem, size,
                   resizing>>

(* Mutant: the main thread stays the one of the parent.                    *)
ForkKeepsMain(t) == AfterFork(t, main_tid)

thread_after_fork(t) == AfterFork(t, t)

(* A major collection calls the destructor of the unreachable              *)
(* SHADOWSTACKREFs.  It may run in an allocation of the running thread or  *)
(* in the one of switch_shadow_stacks.                                     *)
shadowstack_destructor(t) ==
    /\ pc[t] \in {"in", "switch"} /\ garbage # {}
    /\ size' = [b \in Buffer |-> IF b \in garbage THEN 0 ELSE size[b]]
    /\ mem' = [b \in Buffer |-> IF b \in garbage THEN Blank ELSE mem[b]]
    /\ garbage' = {}
    /\ UNCHANGED <<gil, pc, depth, main_tid, current, unused_full_stack, refs, resizing>>

----------------------------------------------------------------------------
(* increase_root_stack_depth: drop the unused stack, then move every stack *)
(* to a larger buffer, the installed one first.                            *)
Increase(t, unused, saved) ==
    /\ pc[t] = "in"
    /\ new_depth' \in (root_stack_depth + 1)..MaxDepth
    /\ size' = [b \in Buffer |-> IF b = unused_full_stack THEN 0 ELSE size[b]]
    /\ unused_full_stack' = unused
    /\ todo' = {active_tid} \cup saved
    /\ Goto(t, "resize")
    /\ UNCHANGED <<gil, depth, main_tid, current, refs, mem, garbage, root_stack_depth>>

WithStack == {u \in thread_stacks : ref_base[u] # NULL}

(* Mutant: only the installed stack is moved.                              *)
IncreaseOnlyInstalled(t) == Increase(t, NULL, {})

increase_root_stack_depth(t) == Increase(t, NULL, WithStack)

(* _resize: a new buffer with the entries below 'used', the old one freed. *)
Move(old, used, new) ==
    /\ new \in Free
    /\ mem' = [mem EXCEPT ![new] = [i \in 1..MaxDepth |->
                                      IF i <= used THEN mem[old][i] ELSE NoTid],
                         ![old] = Blank]
    /\ size' = [size EXCEPT ![new] = new_depth, ![old] = 0]

_resize(old, used, new) == Move(old, used, new)

ResizeInstalled(t) ==
    /\ pc[t] = "resize" /\ active_tid \in todo
    /\ \E b \in Buffer : _resize(root_stack_base, root_stack_top, b)
                         /\ root_stack_base' = b
    /\ todo' = todo \ {active_tid}
    /\ UNCHANGED <<gil, pc, depth, main_tid, active_tid, root_stack_top,
                   unused_full_stack, refs, garbage, root_stack_depth, new_depth>>

_resize_thread_shadowstacks(t, u) ==
    /\ pc[t] = "resize" /\ active_tid \notin todo /\ u \in todo
    /\ \E b \in Buffer : _resize(ref_base[u], ref_top[u], b)
                         /\ ref_base' = [ref_base EXCEPT ![u] = b]
    /\ todo' = todo \ {u}
    /\ UNCHANGED <<gil, pc, depth, main_tid, current, unused_full_stack, thread_stacks,
                   ref_top, garbage, root_stack_depth, new_depth>>

ResizeDone(t) ==
    /\ pc[t] = "resize" /\ todo = {}
    /\ root_stack_depth' = new_depth
    /\ new_depth' = 0
    /\ Goto(t, "in")
    /\ UNCHANGED <<gil, depth, main_tid, current, unused_full_stack, refs, heap, todo>>

----------------------------------------------------------------------------
Step(t) ==
    \/ ThreadStarts(t) \/ AcquireGil(t) \/ ReleaseGil(t) \/ ThreadEnds(t)
    \/ PushRoot(t) \/ PopRoot(t)
    \/ thread_run(t) \/ RestoreOld(t) \/ StartFresh(t)
    \/ DieInMain(t) \/ thread_die(t)
    \/ thread_after_fork(t) \/ shadowstack_destructor(t)
    \/ increase_root_stack_depth(t) \/ ResizeInstalled(t)
    \/ (\E u \in Tid : _resize_thread_shadowstacks(t, u)) \/ ResizeDone(t)

Next == \E t \in Tid : Step(t)

Spec == Init /\ [][Next]_vars

----------------------------------------------------------------------------
(* Every variable has its type.                                            *)
TypeOK ==
    /\ gil \in Tid \cup {NoTid}
    /\ pc \in [Tid -> Points]
    /\ depth \in [Tid -> 0..MaxDepth]
    /\ active_tid \in Tid /\ main_tid \in Tid
    /\ root_stack_base \in Buffer /\ root_stack_top \in 0..MaxDepth
    /\ unused_full_stack \in Buffer \cup {NULL}
    /\ thread_stacks \subseteq Tid
    /\ ref_base \in [Tid -> Buffer \cup {NULL}] /\ ref_top \in [Tid -> 0..MaxDepth]
    /\ garbage \subseteq Buffer
    /\ mem \in [Buffer -> [1..MaxDepth -> Tid \cup {NoTid}]]
    /\ size \in [Buffer -> 0..MaxDepth]
    /\ root_stack_depth \in 1..MaxDepth
    /\ new_depth \in 0..MaxDepth /\ todo \subseteq Tid

BaseOf(t) == IF t = active_tid THEN root_stack_base ELSE ref_base[t]
TopOf(t) == IF t = active_tid THEN root_stack_top ELSE ref_top[t]

(* thread_run "should ensure that the shadow stack installed in            *)
(* gcdata.root_stack_top/root_stack_base is the one corresponding to the   *)
(* current thread": code that pushes roots runs on its own thread's stack. *)
RunsOnOwnStack == \A t \in Tid : pc[t] \in {"in", "resize"} => active_tid = t

(* No root is ever lost, seen twice or mixed up with another thread's: at  *)
(* every point where the collector may run, the roots each thread has      *)
(* pushed are exactly the entries of its stack, installed or referenced    *)
(* from thread_stacks.                                                     *)
RootsKept ==
    \A t \in Tid :
        /\ TopOf(t) = depth[t]
        /\ \A i \in 1..depth[t] : BaseOf(t) \in Buffer /\ mem[BaseOf(t)][i] = t

(* No buffer is used twice, after it was freed, or leaked: the allocated   *)
(* buffers are the installed stack, the unused one, those of the           *)
(* SHADOWSTACKREFs and those the collector still has to free, all          *)
(* different.                                                              *)
Saved == {t \in Tid : ref_base[t] # NULL}
BuffersOwnedOnce ==
    /\ root_stack_base \notin garbage \cup {unused_full_stack}
    /\ unused_full_stack \notin garbage
    /\ \A t \in Saved :
        /\ ref_base[t] \notin garbage \cup {root_stack_base, unused_full_stack}
        /\ \A u \in Saved \ {t} : ref_base[u] # ref_base[t]
    /\ \A b \in Buffer : size[b] > 0 <=>
          \/ b \in garbage \cup {root_stack_base, unused_full_stack}
          \/ \E t \in Saved : ref_base[t] = b

(* rgc.increase_root_stack_depth: "make sure the size of the shadowstack   *)
(* is at least 'new_depth' pointers", for the stacks of all threads, also  *)
(* of those that were saved away or not yet begun when it was called.      *)
StacksLargeEnough ==
    /\ size[root_stack_base] >= root_stack_depth
    /\ unused_full_stack # NULL => size[unused_full_stack] >= root_stack_depth
    /\ \A t \in Saved : size[ref_base[t]] >= root_stack_depth

(* The asserts of restore_state_from, and the lookup of the main thread in *)
(* thread_die: a thread that switches to a stack finds one there.          *)
RestoredStackExists ==
    \A t \in Tid :
        /\ pc[t] = "switch" /\ t \in thread_stacks => ref_base[t] # NULL
        /\ pc[t] = "in" /\ t # main_tid =>
               main_tid \in thread_stacks /\ ref_base[main_tid] # NULL

(* The rest of the inductive invariant.  The lock is held where the code   *)
(* believes so; a reference is filled exactly while its thread's stack is  *)
(* not the installed one; the main thread has a stack; a switch goes to    *)
(* another thread and has a reference to save the old stack in; while      *)
(* stacks are moved, the ones not moved yet are known.                     *)
Inside == {"run", "switch", "in", "resize", "dead"}
LockHeldInside == \A t \in Tid : pc[t] \in Inside <=> gil = t
FilledWhileAway ==
    \A t \in Tid : /\ ref_base[t] # NULL <=> (t \in thread_stacks /\ t # active_tid)
                   /\ ref_base[t] = NULL => ref_top[t] = 0
MainHasStack == main_tid \in thread_stacks \cup {active_tid}
SwitchIsReady ==
    \A t \in Tid : pc[t] = "switch" => t # active_tid /\ active_tid \in thread_stacks
ResizeIsPartial ==
    /\ todo # {} => \E t \in Tid : pc[t] = "resize"
    /\ \A t \in Tid : pc[t] = "resize" =>
        /\ new_depth > root_stack_depth /\ unused_full_stack = NULL
        /\ todo \subseteq {active_tid} \cup Saved
        /\ active_tid \notin todo => size[root_stack_base] >= new_depth
        /\ \A u \in Saved \ todo : size[ref_base[u]] >= new_depth

IInv ==
    /\ TypeOK /\ LockHeldInside /\ RunsOnOwnStack /\ FilledWhileAway
    /\ MainHasStack /\ SwitchIsReady /\ RootsKept /\ BuffersOwnedOnce
    /\ StacksLargeEnough /\ ResizeIsPartial
=============================================================================
