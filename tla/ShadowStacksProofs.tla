-------------------------- MODULE ShadowStacksProofs --------------------------
(***************************************************************************)
(* Proofs about ShadowStacks, for any set of idents and buffers and any    *)
(* depth.  IInv is inductive: one lemma per action, one step per part of   *)
(* it.  The actions that exchange or move stacks first spell out what they *)
(* do to each buffer and each reference.                                   *)
(***************************************************************************)
EXTENDS ShadowStacks, TLAPS

(* thread_setup and initial_setup establish the invariant.                 *)
LEMMA InitIInv == Init => IInv
<1> SUFFICES ASSUME Init PROVE IInv
    OBVIOUS
<1> USE ShadowStacksAssumption
<1>1. TypeOK
    BY DEF Init, TypeOK, Points, Blank
<1>2. LockHeldInside /\ RunsOnOwnStack /\ FilledWhileAway /\ MainHasStack
      /\ SwitchIsReady
    BY DEF Init, LockHeldInside, RunsOnOwnStack, FilledWhileAway, MainHasStack,
           SwitchIsReady, Inside
<1>3. RootsKept /\ BuffersOwnedOnce /\ StacksLargeEnough /\ ResizeIsPartial
    BY DEF Init, RootsKept, BuffersOwnedOnce, StacksLargeEnough, ResizeIsPartial,
           BaseOf, TopOf, Saved
<1> QED BY <1>1, <1>2, <1>3 DEF IInv

(* A new thread: only its point changes.                                   *)
LEMMA ThreadStartsKeeps ==
    ASSUME NEW t \in Tid, IInv, ThreadStarts(t)
    PROVE  IInv'
<1> USE ShadowStacksAssumption
<1> USE DEF IInv, current, refs, heap, resizing, Goto, ThreadStarts
<1>1. TypeOK'
    BY DEF TypeOK, Points, Blank
<1>2. LockHeldInside' /\ RunsOnOwnStack' /\ SwitchIsReady'
    BY DEF TypeOK, LockHeldInside, Inside, RunsOnOwnStack, SwitchIsReady
<1>3. FilledWhileAway' /\ MainHasStack'
    BY DEF TypeOK, FilledWhileAway, MainHasStack, RunsOnOwnStack, SwitchIsReady
<1>4. RootsKept'
    BY DEF TypeOK, RootsKept, BaseOf, TopOf, BuffersOwnedOnce, Saved,
           FilledWhileAway, RunsOnOwnStack, SwitchIsReady, MainHasStack
<1>5. BuffersOwnedOnce'
    BY DEF TypeOK, BuffersOwnedOnce, Saved, FilledWhileAway, RunsOnOwnStack,
           SwitchIsReady, MainHasStack, StacksLargeEnough, ResizeIsPartial
<1>6. StacksLargeEnough'
    BY DEF TypeOK, StacksLargeEnough, BuffersOwnedOnce, Saved, FilledWhileAway,
           RunsOnOwnStack, SwitchIsReady, MainHasStack, ResizeIsPartial
<1>7. ResizeIsPartial'
    BY DEF TypeOK, ResizeIsPartial, Saved, BuffersOwnedOnce, LockHeldInside,
           Inside, FilledWhileAway, RunsOnOwnStack, SwitchIsReady
<1> QED BY <1>1, <1>2, <1>3, <1>4, <1>5, <1>6, <1>7

(* Taking the lock keeps the invariant: the stack installed need not be    *)
(* the new holder's yet.                                                   *)
LEMMA AcquireGilKeeps ==
    ASSUME NEW t \in Tid, IInv, AcquireGil(t)
    PROVE  IInv'
<1> USE ShadowStacksAssumption
<1> USE DEF IInv, current, refs, heap, resizing, Goto, AcquireGil
<1>1. TypeOK'
    BY DEF TypeOK, Points, Blank
<1>2. LockHeldInside' /\ RunsOnOwnStack' /\ SwitchIsReady'
    BY DEF TypeOK, LockHeldInside, Inside, RunsOnOwnStack, SwitchIsReady
<1>3. FilledWhileAway' /\ MainHasStack'
    BY DEF TypeOK, FilledWhileAway, MainHasStack, RunsOnOwnStack, SwitchIsReady
<1>4. RootsKept'
    BY DEF TypeOK, RootsKept, BaseOf, TopOf, BuffersOwnedOnce, Saved,
           FilledWhileAway, RunsOnOwnStack, SwitchIsReady, MainHasStack
<1>5. BuffersOwnedOnce'
    BY DEF TypeOK, BuffersOwnedOnce, Saved, FilledWhileAway, RunsOnOwnStack,
           SwitchIsReady, MainHasStack, StacksLargeEnough, ResizeIsPartial
<1>6. StacksLargeEnough'
    BY DEF TypeOK, StacksLargeEnough, BuffersOwnedOnce, Saved, FilledWhileAway,
           RunsOnOwnStack, SwitchIsReady, MainHasStack, ResizeIsPartial
<1>7. ResizeIsPartial'
    BY DEF TypeOK, ResizeIsPartial, Saved, BuffersOwnedOnce, LockHeldInside,
           Inside, FilledWhileAway, RunsOnOwnStack, SwitchIsReady
<1> QED BY <1>1, <1>2, <1>3, <1>4, <1>5, <1>6, <1>7

(* Releasing the lock keeps the invariant: the thread's stack stays        *)
(* installed until another thread runs.                                    *)
LEMMA ReleaseGilKeeps ==
    ASSUME NEW t \in Tid, IInv, ReleaseGil(t)
    PROVE  IInv'
<1> USE ShadowStacksAssumption
<1> USE DEF IInv, current, refs, heap, resizing, Goto, ReleaseGil
<1>1. TypeOK'
    BY DEF TypeOK, Points, Blank
<1>2. LockHeldInside' /\ RunsOnOwnStack' /\ SwitchIsReady'
    BY DEF TypeOK, LockHeldInside, Inside, RunsOnOwnStack, SwitchIsReady
<1>3. FilledWhileAway' /\ MainHasStack'
    BY DEF TypeOK, FilledWhileAway, MainHasStack, RunsOnOwnStack, SwitchIsReady
<1>4. RootsKept'
    BY DEF TypeOK, RootsKept, BaseOf, TopOf, BuffersOwnedOnce, Saved,
           FilledWhileAway, RunsOnOwnStack, SwitchIsReady, MainHasStack
<1>5. BuffersOwnedOnce'
    BY DEF TypeOK, BuffersOwnedOnce, Saved, FilledWhileAway, RunsOnOwnStack,
           SwitchIsReady, MainHasStack, StacksLargeEnough, ResizeIsPartial
<1>6. StacksLargeEnough'
    BY DEF TypeOK, StacksLargeEnough, BuffersOwnedOnce, Saved, FilledWhileAway,
           RunsOnOwnStack, SwitchIsReady, MainHasStack, ResizeIsPartial
<1>7. ResizeIsPartial'
    BY DEF TypeOK, ResizeIsPartial, Saved, BuffersOwnedOnce, LockHeldInside,
           Inside, FilledWhileAway, RunsOnOwnStack, SwitchIsReady
<1> QED BY <1>1, <1>2, <1>3, <1>4, <1>5, <1>6, <1>7

(* A thread that ends leaves its stack behind, installed or in             *)
(* thread_stacks.                                                          *)
LEMMA ThreadEndsKeeps ==
    ASSUME NEW t \in Tid, IInv, ThreadEnds(t)
    PROVE  IInv'
<1> USE ShadowStacksAssumption
<1> USE DEF IInv, current, refs, heap, resizing, Goto, ThreadEnds
<1>1. TypeOK'
    BY DEF TypeOK, Points, Blank
<1>2. LockHeldInside' /\ RunsOnOwnStack' /\ SwitchIsReady'
    BY DEF TypeOK, LockHeldInside, Inside, RunsOnOwnStack, SwitchIsReady
<1>3. FilledWhileAway' /\ MainHasStack'
    BY DEF TypeOK, FilledWhileAway, MainHasStack, RunsOnOwnStack, SwitchIsReady
<1>4. RootsKept'
    BY DEF TypeOK, RootsKept, BaseOf, TopOf, BuffersOwnedOnce, Saved,
           FilledWhileAway, RunsOnOwnStack, SwitchIsReady, MainHasStack
<1>5. BuffersOwnedOnce'
    BY DEF TypeOK, BuffersOwnedOnce, Saved, FilledWhileAway, RunsOnOwnStack,
           SwitchIsReady, MainHasStack, StacksLargeEnough, ResizeIsPartial
<1>6. StacksLargeEnough'
    BY DEF TypeOK, StacksLargeEnough, BuffersOwnedOnce, Saved, FilledWhileAway,
           RunsOnOwnStack, SwitchIsReady, MainHasStack, ResizeIsPartial
<1>7. ResizeIsPartial'
    BY DEF TypeOK, ResizeIsPartial, Saved, BuffersOwnedOnce, LockHeldInside,
           Inside, FilledWhileAway, RunsOnOwnStack, SwitchIsReady
<1> QED BY <1>1, <1>2, <1>3, <1>4, <1>5, <1>6, <1>7

(* thread_die does nothing in the main thread.                             *)
LEMMA DieInMainKeeps ==
    ASSUME NEW t \in Tid, IInv, DieInMain(t)
    PROVE  IInv'
<1> USE ShadowStacksAssumption
<1> USE DEF IInv, current, refs, heap, resizing, Goto, DieInMain
<1>1. TypeOK'
    BY DEF TypeOK, Points, Blank
<1>2. LockHeldInside' /\ RunsOnOwnStack' /\ SwitchIsReady'
    BY DEF TypeOK, LockHeldInside, Inside, RunsOnOwnStack, SwitchIsReady
<1>3. FilledWhileAway' /\ MainHasStack'
    BY DEF TypeOK, FilledWhileAway, MainHasStack, RunsOnOwnStack, SwitchIsReady
<1>4. RootsKept'
    BY DEF TypeOK, RootsKept, BaseOf, TopOf, BuffersOwnedOnce, Saved,
           FilledWhileAway, RunsOnOwnStack, SwitchIsReady, MainHasStack
<1>5. BuffersOwnedOnce'
    BY DEF TypeOK, BuffersOwnedOnce, Saved, FilledWhileAway, RunsOnOwnStack,
           SwitchIsReady, MainHasStack, StacksLargeEnough, ResizeIsPartial
<1>6. StacksLargeEnough'
    BY DEF TypeOK, StacksLargeEnough, BuffersOwnedOnce, Saved, FilledWhileAway,
           RunsOnOwnStack, SwitchIsReady, MainHasStack, ResizeIsPartial
<1>7. ResizeIsPartial'
    BY DEF TypeOK, ResizeIsPartial, Saved, BuffersOwnedOnce, LockHeldInside,
           Inside, FilledWhileAway, RunsOnOwnStack, SwitchIsReady
<1> QED BY <1>1, <1>2, <1>3, <1>4, <1>5, <1>6, <1>7

(* A pushed root is on the pushing thread's own stack, within its buffer.  *)
LEMMA PushRootKeeps ==
    ASSUME NEW t \in Tid, IInv, PushRoot(t)
    PROVE  IInv'
<1> USE ShadowStacksAssumption
<1> USE DEF IInv, current, refs, heap, resizing, Goto, PushRoot
<1>1. TypeOK'
  <2>1. root_stack_top = depth[t] /\ root_stack_top + 1 \in 1..MaxDepth
      BY DEF TypeOK, RootsKept, TopOf, RunsOnOwnStack
  <2>2. mem' \in [Buffer -> [1..MaxDepth -> Tid \cup {NoTid}]]
      BY <2>1 DEF TypeOK
  <2>3. depth' \in [Tid -> 0..MaxDepth]
      BY DEF TypeOK
  <2> QED BY <2>1, <2>2, <2>3 DEF TypeOK
<1>2. LockHeldInside' /\ RunsOnOwnStack' /\ SwitchIsReady'
    BY DEF TypeOK, LockHeldInside, Inside, RunsOnOwnStack, SwitchIsReady
<1>3. FilledWhileAway' /\ MainHasStack'
    BY DEF TypeOK, FilledWhileAway, MainHasStack, RunsOnOwnStack, SwitchIsReady
<1>4. RootsKept'
    BY DEF TypeOK, RootsKept, BaseOf, TopOf, BuffersOwnedOnce, Saved,
           FilledWhileAway, RunsOnOwnStack, SwitchIsReady, MainHasStack
<1>5. BuffersOwnedOnce'
    BY DEF TypeOK, BuffersOwnedOnce, Saved, FilledWhileAway, RunsOnOwnStack,
           SwitchIsReady, MainHasStack, StacksLargeEnough, ResizeIsPartial
<1>6. StacksLargeEnough'
    BY DEF TypeOK, StacksLargeEnough, BuffersOwnedOnce, Saved, FilledWhileAway,
           RunsOnOwnStack, SwitchIsReady, MainHasStack, ResizeIsPartial
<1>7. ResizeIsPartial'
    BY DEF TypeOK, ResizeIsPartial, Saved, BuffersOwnedOnce, LockHeldInside,
           Inside, FilledWhileAway, RunsOnOwnStack, SwitchIsReady
<1> QED BY <1>1, <1>2, <1>3, <1>4, <1>5, <1>6, <1>7

(* A popped root was the pushing thread's own.                             *)
LEMMA PopRootKeeps ==
    ASSUME NEW t \in Tid, IInv, PopRoot(t)
    PROVE  IInv'
<1> USE ShadowStacksAssumption
<1> USE DEF IInv, current, refs, heap, resizing, Goto, PopRoot
<1>1. TypeOK'
    BY DEF TypeOK, Points, Blank, RootsKept, TopOf, RunsOnOwnStack
<1>2. LockHeldInside' /\ RunsOnOwnStack' /\ SwitchIsReady'
    BY DEF TypeOK, LockHeldInside, Inside, RunsOnOwnStack, SwitchIsReady
<1>3. FilledWhileAway' /\ MainHasStack'
    BY DEF TypeOK, FilledWhileAway, MainHasStack, RunsOnOwnStack, SwitchIsReady
<1>4. RootsKept'
    BY DEF TypeOK, RootsKept, BaseOf, TopOf, BuffersOwnedOnce, Saved,
           FilledWhileAway, RunsOnOwnStack, SwitchIsReady, MainHasStack
<1>5. BuffersOwnedOnce'
    BY DEF TypeOK, BuffersOwnedOnce, Saved, FilledWhileAway, RunsOnOwnStack,
           SwitchIsReady, MainHasStack, StacksLargeEnough, ResizeIsPartial
<1>6. StacksLargeEnough'
    BY DEF TypeOK, StacksLargeEnough, BuffersOwnedOnce, Saved, FilledWhileAway,
           RunsOnOwnStack, SwitchIsReady, MainHasStack, ResizeIsPartial
<1>7. ResizeIsPartial'
    BY DEF TypeOK, ResizeIsPartial, Saved, BuffersOwnedOnce, LockHeldInside,
           Inside, FilledWhileAway, RunsOnOwnStack, SwitchIsReady
<1> QED BY <1>1, <1>2, <1>3, <1>4, <1>5, <1>6, <1>7

(* thread_run goes on with its own stack or begins a switch, for which the *)
(* thread installed has a reference.                                       *)
LEMMA ThreadRunKeeps ==
    ASSUME NEW t \in Tid, IInv, thread_run(t)
    PROVE  IInv'
<1> USE ShadowStacksAssumption
<1> USE DEF IInv, current, refs, heap, resizing, Goto, thread_run, RunUnless
<1>1. TypeOK'
    BY DEF TypeOK, Points, Blank
<1>2. LockHeldInside' /\ RunsOnOwnStack' /\ SwitchIsReady'
    BY DEF TypeOK, LockHeldInside, Inside, RunsOnOwnStack, SwitchIsReady
<1>3. FilledWhileAway' /\ MainHasStack'
    BY DEF TypeOK, FilledWhileAway, MainHasStack, RunsOnOwnStack, SwitchIsReady
<1>4. RootsKept'
    BY DEF TypeOK, RootsKept, BaseOf, TopOf, BuffersOwnedOnce, Saved,
           FilledWhileAway, RunsOnOwnStack, SwitchIsReady, MainHasStack
<1>5. BuffersOwnedOnce'
    BY DEF TypeOK, BuffersOwnedOnce, Saved, FilledWhileAway, RunsOnOwnStack,
           SwitchIsReady, MainHasStack, StacksLargeEnough, ResizeIsPartial
<1>6. StacksLargeEnough'
    BY DEF TypeOK, StacksLargeEnough, BuffersOwnedOnce, Saved, FilledWhileAway,
           RunsOnOwnStack, SwitchIsReady, MainHasStack, ResizeIsPartial
<1>7. ResizeIsPartial'
    BY DEF TypeOK, ResizeIsPartial, Saved, BuffersOwnedOnce, LockHeldInside,
           Inside, FilledWhileAway, RunsOnOwnStack, SwitchIsReady
<1> QED BY <1>1, <1>2, <1>3, <1>4, <1>5, <1>6, <1>7

(* A thread without a reference starts on the unused stack, after the old  *)
(* one was saved.                                                          *)
LEMMA StartFreshKeeps ==
    ASSUME NEW t \in Tid, IInv, StartFresh(t)
    PROVE  IInv'
<1> USE ShadowStacksAssumption
<1> USE DEF IInv, current, refs, heap, resizing, Goto, StartFresh,
            _prepare_unused_stack, Free, save_current_state_away,
            start_fresh_new_state
<1>1. TypeOK'
  <2>a. PICK b \in Buffer : _prepare_unused_stack(b) /\ start_fresh_new_state(b)
      OBVIOUS
  <2>b. root_stack_base' \in Buffer
      BY <2>a
  <2>1. size' \in [Buffer -> 0..MaxDepth]
    <3>1. size \in [Buffer -> 0..MaxDepth] /\ root_stack_depth \in 0..MaxDepth
        BY DEF TypeOK
    <3>2. size' = size \/ size' = [size EXCEPT ![b] = root_stack_depth]
        BY <2>a
    <3> QED BY <3>1, <3>2
  <2>2. ref_base' \in [Tid -> Buffer \cup {NULL}]
      BY DEF TypeOK
  <2>3. ref_top' \in [Tid -> 0..MaxDepth]
      BY DEF TypeOK
  <2>4. pc' \in [Tid -> Points] /\ active_tid' \in Tid /\ root_stack_top' = 0
        /\ unused_full_stack' = NULL
      BY DEF TypeOK, Points
  <2>5. UNCHANGED <<gil, depth, main_tid, thread_stacks, mem, garbage,
                    root_stack_depth, new_depth, todo>>
      OBVIOUS
  <2>6. /\ gil \in Tid \cup {NoTid} /\ depth \in [Tid -> 0..MaxDepth]
        /\ main_tid \in Tid /\ thread_stacks \subseteq Tid /\ garbage \subseteq Buffer
        /\ mem \in [Buffer -> [1..MaxDepth -> Tid \cup {NoTid}]]
        /\ root_stack_depth \in 1..MaxDepth
        /\ new_depth \in 0..MaxDepth /\ todo \subseteq Tid
      BY DEF TypeOK
  <2>7. 0 \in 0..MaxDepth
      OBVIOUS
  <2> HIDE ShadowStacksAssumption
  <2> HIDE DEF IInv, StartFresh, Goto
  <2> QED BY <2>b, <2>1, <2>2, <2>3, <2>4, <2>5, <2>6, <2>7 DEF TypeOK
<1>2. LockHeldInside' /\ RunsOnOwnStack' /\ SwitchIsReady'
    BY DEF TypeOK, LockHeldInside, Inside, RunsOnOwnStack, SwitchIsReady
<1>3. FilledWhileAway' /\ MainHasStack'
    BY DEF TypeOK, FilledWhileAway, MainHasStack, RunsOnOwnStack, SwitchIsReady
<1>4. RootsKept'
    BY DEF TypeOK, RootsKept, BaseOf, TopOf, BuffersOwnedOnce, Saved,
           FilledWhileAway, RunsOnOwnStack, SwitchIsReady, MainHasStack
<1>5. BuffersOwnedOnce'
    BY DEF TypeOK, BuffersOwnedOnce, Saved, FilledWhileAway, RunsOnOwnStack,
           SwitchIsReady, MainHasStack, StacksLargeEnough, ResizeIsPartial
<1>6. StacksLargeEnough'
  <2>a. PICK b \in Buffer : _prepare_unused_stack(b) /\ start_fresh_new_state(b)
      OBVIOUS
  <2>1. /\ root_stack_depth \in 1..MaxDepth /\ size \in [Buffer -> 0..MaxDepth]
        /\ root_stack_base \in Buffer /\ active_tid \in Tid
        /\ ref_base \in [Tid -> Buffer \cup {NULL}]
        /\ root_stack_depth' = root_stack_depth
      BY DEF TypeOK
  <2>2. /\ size'[b] >= root_stack_depth
        /\ \A c \in Buffer : size[c] >= root_stack_depth => size'[c] >= root_stack_depth
    <3>1. CASE unused_full_stack = NULL
      <4>1. size' = [size EXCEPT ![b] = root_stack_depth]
          BY <2>a, <3>1
      <4> QED BY <2>1, <4>1
    <3>2. CASE unused_full_stack # NULL
      <4>1. b = unused_full_stack /\ size' = size
          BY <2>a, <3>2
      <4>2. size[b] >= root_stack_depth
          BY <3>2, <4>1 DEF StacksLargeEnough
      <4> QED BY <4>1, <4>2
    <3> QED BY <3>1, <3>2
  <2>3. root_stack_base' = b /\ unused_full_stack' = NULL
      BY <2>a
  <2>4. ASSUME NEW v \in Saved' PROVE size'[ref_base'[v]] >= root_stack_depth
    <3>1. v \in Tid /\ (ref_base'[v] = root_stack_base \/ (v \in Saved /\ ref_base'[v] = ref_base[v]))
        BY <2>1 DEF Saved
    <3>2. size[root_stack_base] >= root_stack_depth
          /\ \A w \in Saved : size[ref_base[w]] >= root_stack_depth
        BY DEF StacksLargeEnough
    <3>3. \A w \in Saved : ref_base[w] \in Buffer
        BY <2>1 DEF Saved
    <3> QED BY <2>1, <2>2, <3>1, <3>2, <3>3
  <2> QED BY <2>1, <2>2, <2>3, <2>4 DEF StacksLargeEnough
<1>7. ResizeIsPartial'
    BY DEF TypeOK, ResizeIsPartial, Saved, BuffersOwnedOnce, LockHeldInside,
           Inside, FilledWhileAway, RunsOnOwnStack, SwitchIsReady
<1> QED BY <1>1, <1>2, <1>3, <1>4, <1>5, <1>6, <1>7

(* A dying thread gives its empty stack to the pool and installs the main  *)
(* thread's.                                                               *)
LEMMA ThreadDieKeeps ==
    ASSUME NEW t \in Tid, IInv, thread_die(t)
    PROVE  IInv'
<1> USE ShadowStacksAssumption
<1> USE DEF IInv, current, refs, heap, resizing, Goto, thread_die, Die,
            forget_current_state, restore_state_from
<1>1. TypeOK'
    BY DEF TypeOK, Points, Blank, FilledWhileAway, MainHasStack, RunsOnOwnStack
<1>2. LockHeldInside' /\ RunsOnOwnStack' /\ SwitchIsReady'
    BY DEF TypeOK, LockHeldInside, Inside, RunsOnOwnStack, SwitchIsReady
<1>3. FilledWhileAway' /\ MainHasStack'
    BY DEF TypeOK, FilledWhileAway, MainHasStack, RunsOnOwnStack, SwitchIsReady
<1>4. RootsKept'
    BY DEF TypeOK, RootsKept, BaseOf, TopOf, BuffersOwnedOnce, Saved,
           FilledWhileAway, RunsOnOwnStack, SwitchIsReady, MainHasStack
<1>5. BuffersOwnedOnce'
    BY DEF TypeOK, BuffersOwnedOnce, Saved, FilledWhileAway, RunsOnOwnStack,
           SwitchIsReady, MainHasStack, StacksLargeEnough, ResizeIsPartial
<1>6. StacksLargeEnough'
    BY DEF TypeOK, StacksLargeEnough, BuffersOwnedOnce, Saved, FilledWhileAway,
           RunsOnOwnStack, SwitchIsReady, MainHasStack, ResizeIsPartial
<1>7. ResizeIsPartial'
    BY DEF TypeOK, ResizeIsPartial, Saved, BuffersOwnedOnce, LockHeldInside,
           Inside, FilledWhileAway, RunsOnOwnStack, SwitchIsReady
<1> QED BY <1>1, <1>2, <1>3, <1>4, <1>5, <1>6, <1>7

(* In the child, the stacks of the other threads become garbage and no     *)
(* live stack does.                                                        *)
LEMMA AfterForkKeeps ==
    ASSUME NEW t \in Tid, IInv, thread_after_fork(t)
    PROVE  IInv'
<1> USE ShadowStacksAssumption
<1> USE DEF IInv, current, refs, heap, resizing, Goto, thread_after_fork, AfterFork
<1>1. TypeOK'
    BY DEF TypeOK, Points, Blank
<1>2. LockHeldInside' /\ RunsOnOwnStack' /\ SwitchIsReady'
    BY DEF TypeOK, LockHeldInside, Inside, RunsOnOwnStack, SwitchIsReady
<1>3. FilledWhileAway' /\ MainHasStack'
    BY DEF TypeOK, FilledWhileAway, MainHasStack, RunsOnOwnStack, SwitchIsReady
<1>4. RootsKept'
    BY DEF TypeOK, RootsKept, BaseOf, TopOf, BuffersOwnedOnce, Saved,
           FilledWhileAway, RunsOnOwnStack, SwitchIsReady, MainHasStack
<1>5. BuffersOwnedOnce'
    BY DEF TypeOK, BuffersOwnedOnce, Saved, FilledWhileAway, RunsOnOwnStack,
           SwitchIsReady, MainHasStack, StacksLargeEnough, ResizeIsPartial
<1>6. StacksLargeEnough'
    BY DEF TypeOK, StacksLargeEnough, BuffersOwnedOnce, Saved, FilledWhileAway,
           RunsOnOwnStack, SwitchIsReady, MainHasStack, ResizeIsPartial
<1>7. ResizeIsPartial'
    BY DEF TypeOK, ResizeIsPartial, Saved, BuffersOwnedOnce, LockHeldInside,
           Inside, FilledWhileAway, RunsOnOwnStack, SwitchIsReady
<1> QED BY <1>1, <1>2, <1>3, <1>4, <1>5, <1>6, <1>7

(* The collector frees buffers nothing uses.                               *)
LEMMA DestructorKeeps ==
    ASSUME NEW t \in Tid, IInv, shadowstack_destructor(t)
    PROVE  IInv'
<1> USE ShadowStacksAssumption
<1> USE DEF IInv, current, refs, heap, resizing, Goto, shadowstack_destructor
<1>1. TypeOK'
    BY DEF TypeOK, Points, Blank
<1>2. LockHeldInside' /\ RunsOnOwnStack' /\ SwitchIsReady'
    BY DEF TypeOK, LockHeldInside, Inside, RunsOnOwnStack, SwitchIsReady
<1>3. FilledWhileAway' /\ MainHasStack'
    BY DEF TypeOK, FilledWhileAway, MainHasStack, RunsOnOwnStack, SwitchIsReady
<1>4. RootsKept'
    BY DEF TypeOK, RootsKept, BaseOf, TopOf, BuffersOwnedOnce, Saved,
           FilledWhileAway, RunsOnOwnStack, SwitchIsReady, MainHasStack
<1>5. BuffersOwnedOnce'
    BY DEF TypeOK, BuffersOwnedOnce, Saved, FilledWhileAway, RunsOnOwnStack,
           SwitchIsReady, MainHasStack, StacksLargeEnough, ResizeIsPartial
<1>6. StacksLargeEnough'
    BY DEF TypeOK, StacksLargeEnough, BuffersOwnedOnce, Saved, FilledWhileAway,
           RunsOnOwnStack, SwitchIsReady, MainHasStack, ResizeIsPartial
<1>7. ResizeIsPartial'
    BY DEF TypeOK, ResizeIsPartial, Saved, BuffersOwnedOnce, LockHeldInside,
           Inside, FilledWhileAway, RunsOnOwnStack, SwitchIsReady
<1> QED BY <1>1, <1>2, <1>3, <1>4, <1>5, <1>6, <1>7

(* Before the stacks are moved, all of them are known.                     *)
LEMMA IncreaseKeeps ==
    ASSUME NEW t \in Tid, IInv, increase_root_stack_depth(t)
    PROVE  IInv'
<1> USE ShadowStacksAssumption
<1> USE DEF IInv, current, refs, heap, resizing, Goto, increase_root_stack_depth,
            Increase, WithStack
<1>1. TypeOK'
    BY DEF TypeOK, Points, Blank
<1>2. LockHeldInside' /\ RunsOnOwnStack' /\ SwitchIsReady'
    BY DEF TypeOK, LockHeldInside, Inside, RunsOnOwnStack, SwitchIsReady
<1>3. FilledWhileAway' /\ MainHasStack'
    BY DEF TypeOK, FilledWhileAway, MainHasStack, RunsOnOwnStack, SwitchIsReady
<1>4. RootsKept'
    BY DEF TypeOK, RootsKept, BaseOf, TopOf, BuffersOwnedOnce, Saved,
           FilledWhileAway, RunsOnOwnStack, SwitchIsReady, MainHasStack
<1>5. BuffersOwnedOnce'
    BY DEF TypeOK, BuffersOwnedOnce, Saved, FilledWhileAway, RunsOnOwnStack,
           SwitchIsReady, MainHasStack, StacksLargeEnough, ResizeIsPartial
<1>6. StacksLargeEnough'
    BY DEF TypeOK, StacksLargeEnough, BuffersOwnedOnce, Saved, FilledWhileAway,
           RunsOnOwnStack, SwitchIsReady, MainHasStack, ResizeIsPartial
<1>7. ResizeIsPartial'
    BY DEF TypeOK, ResizeIsPartial, Saved, BuffersOwnedOnce, LockHeldInside,
           Inside, FilledWhileAway, RunsOnOwnStack, SwitchIsReady
<1> QED BY <1>1, <1>2, <1>3, <1>4, <1>5, <1>6, <1>7

(* When all stacks have been moved, all of them have the new size.         *)
LEMMA ResizeDoneKeeps ==
    ASSUME NEW t \in Tid, IInv, ResizeDone(t)
    PROVE  IInv'
<1> USE ShadowStacksAssumption
<1> USE DEF IInv, current, refs, heap, resizing, Goto, ResizeDone
<1>1. TypeOK'
    BY DEF TypeOK, Points, Blank, ResizeIsPartial
<1>2. LockHeldInside' /\ RunsOnOwnStack' /\ SwitchIsReady'
    BY DEF TypeOK, LockHeldInside, Inside, RunsOnOwnStack, SwitchIsReady
<1>3. FilledWhileAway' /\ MainHasStack'
    BY DEF TypeOK, FilledWhileAway, MainHasStack, RunsOnOwnStack, SwitchIsReady
<1>4. RootsKept'
    BY DEF TypeOK, RootsKept, BaseOf, TopOf, BuffersOwnedOnce, Saved,
           FilledWhileAway, RunsOnOwnStack, SwitchIsReady, MainHasStack
<1>5. BuffersOwnedOnce'
    BY DEF TypeOK, BuffersOwnedOnce, Saved, FilledWhileAway, RunsOnOwnStack,
           SwitchIsReady, MainHasStack, StacksLargeEnough, ResizeIsPartial
<1>6. StacksLargeEnough'
    BY DEF TypeOK, StacksLargeEnough, BuffersOwnedOnce, Saved, FilledWhileAway,
           RunsOnOwnStack, SwitchIsReady, MainHasStack, ResizeIsPartial
<1>7. ResizeIsPartial'
    BY DEF TypeOK, ResizeIsPartial, Saved, BuffersOwnedOnce, LockHeldInside,
           Inside, FilledWhileAway, RunsOnOwnStack, SwitchIsReady
<1> QED BY <1>1, <1>2, <1>3, <1>4, <1>5, <1>6, <1>7

(* _resize copies the entries below 'used' to the new buffer and touches   *)
(* no buffer other than the two.                                           *)
LEMMA MoveCopies ==
    ASSUME NEW old \in Buffer, NEW new \in Buffer, NEW used \in 0..MaxDepth,
           mem \in [Buffer -> [1..MaxDepth -> Tid \cup {NoTid}]],
           old # new, Move(old, used, new)
    PROVE  /\ mem' \in [Buffer -> [1..MaxDepth -> Tid \cup {NoTid}]]
           /\ \A i \in 1..used : mem'[new][i] = mem[old][i]
           /\ \A c \in Buffer \ {new, old} : mem'[c] = mem[c]
<1> USE ShadowStacksAssumption
<1> DEFINE copy == [i \in 1..MaxDepth |-> IF i <= used THEN mem[old][i] ELSE NoTid]
<1>1. copy \in [1..MaxDepth -> Tid \cup {NoTid}] /\ Blank \in [1..MaxDepth -> Tid \cup {NoTid}]
    BY DEF Blank
<1>2. mem' = [mem EXCEPT ![new] = copy, ![old] = Blank]
    BY DEF Move
<1>3. \A i \in 1..used : copy[i] = mem[old][i]
    OBVIOUS
<1> HIDE DEF copy
<1>4. mem' \in [Buffer -> [1..MaxDepth -> Tid \cup {NoTid}]]
    BY <1>1, <1>2
<1>5. mem'[new] = copy /\ \A c \in Buffer \ {new, old} : mem'[c] = mem[c]
    BY <1>2
<1> QED BY <1>3, <1>4, <1>5

(* A thread with a reference gets its own stack back, and the old stack is *)
(* saved in the reference of its thread.                                   *)
LEMMA RestoreOldKeeps ==
    ASSUME NEW t \in Tid, IInv, RestoreOld(t)
    PROVE  IInv'
<1> USE ShadowStacksAssumption
<1>a. /\ TypeOK /\ LockHeldInside /\ RunsOnOwnStack /\ FilledWhileAway /\ MainHasStack
      /\ SwitchIsReady /\ RootsKept /\ BuffersOwnedOnce /\ StacksLargeEnough
      /\ ResizeIsPartial
    BY DEF IInv
<1>b. PICK b \in Buffer :
        /\ unused_full_stack' = b
        /\ IF unused_full_stack = NULL THEN b \in Free ELSE b = unused_full_stack
        /\ size' = IF unused_full_stack = NULL
                     THEN [size EXCEPT ![b] = root_stack_depth] ELSE size
    BY DEF RestoreOld, _prepare_unused_stack
<1>c. t # active_tid /\ pc[t] = "switch" /\ t \in thread_stacks /\ ref_base[t] \in Buffer
    BY <1>a DEF RestoreOld, TypeOK, FilledWhileAway, SwitchIsReady
<1>d. /\ active_tid' = t
      /\ root_stack_base' = ref_base[t] /\ root_stack_top' = ref_top[t]
      /\ pc' = [pc EXCEPT ![t] = "in"]
      /\ ref_base' = [ref_base EXCEPT ![active_tid] = root_stack_base, ![t] = NULL]
      /\ ref_top' = [ref_top EXCEPT ![active_tid] = root_stack_top, ![t] = 0]
      /\ UNCHANGED <<gil, depth, main_tid, thread_stacks, mem, garbage>>
      /\ UNCHANGED <<root_stack_depth, new_depth, todo>>
    BY DEF RestoreOld, Goto, resizing, restore_state_from, save_current_state_away
<1>e. /\ ref_base' \in [Tid -> Buffer \cup {NULL}]
      /\ \A v \in Tid : ref_base'[v] = IF v = t THEN NULL
                                       ELSE IF v = active_tid THEN root_stack_base
                                       ELSE ref_base[v]
    BY <1>a, <1>c, <1>d DEF TypeOK
<1>f. /\ ref_top' \in [Tid -> 0..MaxDepth]
      /\ \A v \in Tid : ref_top'[v] = IF v = t THEN 0
                                      ELSE IF v = active_tid THEN root_stack_top
                                      ELSE ref_top[v]
  <2>1. /\ ref_top \in [Tid -> 0..MaxDepth] /\ active_tid \in Tid
        /\ root_stack_top \in 0..MaxDepth /\ 0 \in 0..MaxDepth
      BY <1>a DEF TypeOK
  <2> HIDE ShadowStacksAssumption
  <2>2. ref_top' = [v \in Tid |-> IF v = t THEN 0 ELSE IF v = active_tid
                                 THEN root_stack_top ELSE ref_top[v]]
      BY <1>c, <1>d, <2>1
  <2> QED BY <2>1, <2>2
<1>g. /\ size' \in [Buffer -> 0..MaxDepth]
      /\ \A c \in Buffer : size'[c] > 0 <=> size[c] > 0 \/ c = b
      /\ \A c \in Buffer : size[c] >= root_stack_depth => size'[c] >= root_stack_depth
      /\ size'[b] >= root_stack_depth
      /\ \A c \in Buffer : c # b => size'[c] = size[c]
    BY <1>a, <1>b DEF TypeOK, Free, BuffersOwnedOnce, StacksLargeEnough
<1>h. /\ b \notin garbage \cup {root_stack_base}
      /\ \A v \in Tid : ref_base[v] # b
  <2>1. CASE unused_full_stack = NULL
    <3>1. ~(size[b] > 0)
        BY <1>b, <2>1 DEF Free
    <3>2. b \notin garbage \cup {root_stack_base} /\ \A v \in Saved : ref_base[v] # b
        BY <1>a, <3>1 DEF BuffersOwnedOnce
    <3> QED BY <3>2 DEF Saved
  <2>2. CASE unused_full_stack # NULL
    <3>1. b = unused_full_stack
        BY <1>b, <2>2
    <3>2. b \notin garbage \cup {root_stack_base} /\ \A v \in Saved : ref_base[v] # b
        BY <1>a, <3>1 DEF BuffersOwnedOnce
    <3> QED BY <3>2 DEF Saved
  <2> QED BY <2>1, <2>2
<1>1. TypeOK'
    BY <1>a, <1>b, <1>c, <1>d, <1>e, <1>f, <1>g DEF TypeOK, Points
<1>2. LockHeldInside' /\ RunsOnOwnStack' /\ SwitchIsReady'
    BY <1>a, <1>c, <1>d DEF TypeOK, LockHeldInside, Inside, RunsOnOwnStack, SwitchIsReady
<1>3. FilledWhileAway' /\ MainHasStack'
  <2>1. /\ active_tid \in Tid /\ active_tid # t /\ root_stack_base # NULL
        /\ t \in thread_stacks /\ active_tid \in thread_stacks
        /\ main_tid \in thread_stacks \cup {active_tid}
        /\ \A v \in Tid : /\ ref_base[v] # NULL <=> (v \in thread_stacks /\ v # active_tid)
                          /\ ref_base[v] = NULL => ref_top[v] = 0
      BY <1>a, <1>c DEF TypeOK, FilledWhileAway, MainHasStack, SwitchIsReady
  <2>2. active_tid' = t /\ thread_stacks' = thread_stacks /\ main_tid' = main_tid
      BY <1>d
  <2>3. ASSUME NEW v \in Tid
        PROVE  /\ ref_base'[v] # NULL <=> (v \in thread_stacks /\ v # t)
               /\ ref_base'[v] = NULL => ref_top'[v] = 0
    <3>1. ref_base'[v] = (IF v = t THEN NULL ELSE IF v = active_tid
                          THEN root_stack_base ELSE ref_base[v])
        BY <1>e
    <3>2. ref_top'[v] = (IF v = t THEN 0 ELSE IF v = active_tid
                         THEN root_stack_top ELSE ref_top[v])
        BY <1>f
    <3>3. /\ ref_base[v] # NULL <=> (v \in thread_stacks /\ v # active_tid)
          /\ ref_base[v] = NULL => ref_top[v] = 0
        BY <2>1
    <3> HIDE ShadowStacksAssumption
    <3> QED BY <2>1, <3>1, <3>2, <3>3, Zenon
  <2>4. FilledWhileAway'
      BY <2>2, <2>3 DEF FilledWhileAway
  <2> QED BY <2>1, <2>2, <2>4 DEF MainHasStack
<1>4. RootsKept'
  <2> SUFFICES ASSUME NEW v \in Tid
               PROVE  /\ (TopOf(v))' = depth'[v]
                      /\ \A i \in 1..depth'[v] : (BaseOf(v))' \in Buffer
                                                 /\ mem'[(BaseOf(v))'][i] = v
      BY DEF RootsKept
  <2>1. active_tid' = t /\ active_tid # t /\ mem' = mem /\ depth' = depth
        /\ root_stack_base' = ref_base[t] /\ root_stack_top' = ref_top[t]
      BY <1>c, <1>d
  <2>2. (TopOf(v))' = TopOf(v) /\ (BaseOf(v))' = BaseOf(v)
      BY <1>e, <1>f, <2>1 DEF TopOf, BaseOf
  <2> QED BY <1>a, <2>1, <2>2 DEF RootsKept
<1>5. BuffersOwnedOnce'
  <2>1. root_stack_base' \notin garbage' \cup {unused_full_stack'}
        /\ unused_full_stack' \notin garbage'
      BY <1>a, <1>b, <1>c, <1>d, <1>h DEF TypeOK, BuffersOwnedOnce, Saved
  <2>2. \A v \in Saved' : /\ ref_base'[v] \notin garbage' \cup {root_stack_base', unused_full_stack'}
                          /\ \A w \in Saved' \ {v} : ref_base'[w] # ref_base'[v]
    <3>1. /\ t \in Saved /\ root_stack_base \in Buffer
          /\ \A v \in Saved : /\ ref_base[v] \notin garbage \cup {root_stack_base}
                             /\ \A w \in Saved \ {v} : ref_base[w] # ref_base[v]
          /\ root_stack_base \notin garbage
        BY <1>a, <1>c DEF TypeOK, BuffersOwnedOnce, Saved
    <3>2. \A v \in Saved' : v # t /\ v \in Tid /\ (v = active_tid \/ v \in Saved)
        BY <1>c, <1>e DEF Saved
    <3>3. ASSUME NEW v \in Saved'
          PROVE  ref_base'[v] \notin garbage' \cup {root_stack_base', unused_full_stack'}
        BY <1>b, <1>d, <1>e, <1>h, <3>1, <3>2
    <3>4. ASSUME NEW v \in Saved', NEW w \in Saved' \ {v}
          PROVE  ref_base'[w] # ref_base'[v]
        BY <1>e, <3>1, <3>2
    <3> QED BY <3>3, <3>4
  <2>3. ASSUME NEW c \in Buffer
        PROVE  (\E v \in Saved' : ref_base'[v] = c) <=>
                 (c = root_stack_base \/ \E v \in Saved \ {t, active_tid} : ref_base[v] = c)
      BY <1>a, <1>c, <1>e DEF TypeOK, Saved
  <2>4. ASSUME NEW c \in Buffer
        PROVE  size'[c] > 0 <=>
                 \/ c \in garbage' \cup {root_stack_base', unused_full_stack'}
                 \/ \E v \in Saved' : ref_base'[v] = c
    <3>1. active_tid \notin Saved /\ t \in Saved
        BY <1>a, <1>c DEF TypeOK, FilledWhileAway, Saved
    <3>2. (\E v \in Saved : ref_base[v] = c) <=>
            (c = ref_base[t] \/ \E v \in Saved \ {t, active_tid} : ref_base[v] = c)
        BY <3>1
    <3>3. size[c] > 0 <=> \/ c \in garbage \cup {root_stack_base, unused_full_stack}
                          \/ \E v \in Saved : ref_base[v] = c
        BY <1>a DEF BuffersOwnedOnce
    <3>4. unused_full_stack = NULL \/ unused_full_stack = b
        BY <1>b
    <3> QED BY <1>b, <1>d, <1>g, <2>3, <3>2, <3>3, <3>4
  <2> QED BY <2>1, <2>2, <2>4 DEF BuffersOwnedOnce
<1>6. StacksLargeEnough'
    BY <1>a, <1>b, <1>c, <1>d, <1>e, <1>g DEF TypeOK, StacksLargeEnough, Saved
<1>7. ResizeIsPartial'
    BY <1>a, <1>c, <1>d DEF TypeOK, ResizeIsPartial, LockHeldInside, Inside
<1> QED BY <1>1, <1>2, <1>3, <1>4, <1>5, <1>6, <1>7 DEF IInv

(* Moving the installed stack keeps its entries and nobody else's buffer.  *)
LEMMA ResizeInstalledKeeps ==
    ASSUME NEW t \in Tid, IInv, ResizeInstalled(t)
    PROVE  IInv'
<1> USE ShadowStacksAssumption
<1>a. /\ TypeOK /\ LockHeldInside /\ RunsOnOwnStack /\ FilledWhileAway /\ MainHasStack
      /\ SwitchIsReady /\ RootsKept /\ BuffersOwnedOnce /\ StacksLargeEnough
      /\ ResizeIsPartial
    BY DEF IInv
<1>b. PICK b \in Buffer : Move(root_stack_base, root_stack_top, b) /\ root_stack_base' = b
    BY DEF ResizeInstalled, _resize
<1>c. /\ pc[t] = "resize" /\ active_tid \in todo /\ todo' = todo \ {active_tid}
      /\ UNCHANGED <<gil, pc, depth, main_tid, active_tid, root_stack_top>>
      /\ UNCHANGED <<unused_full_stack, thread_stacks, ref_base, ref_top, garbage>>
      /\ UNCHANGED <<root_stack_depth, new_depth>>
    BY DEF ResizeInstalled, refs
<1>d. /\ b # root_stack_base /\ size[b] = 0 /\ b \notin garbage \cup {unused_full_stack}
      /\ \A v \in Tid : ref_base[v] # b /\ ref_base[v] # root_stack_base
      /\ new_depth > root_stack_depth /\ unused_full_stack = NULL
      /\ size[root_stack_base] > 0
  <2>1. new_depth > root_stack_depth /\ unused_full_stack = NULL
      BY <1>a, <1>c DEF ResizeIsPartial
  <2>2. size[b] = 0 /\ ~(size[b] > 0)
      BY <1>b DEF Move, Free
  <2>3. size[root_stack_base] > 0 /\ root_stack_base \in Buffer
      BY <1>a DEF TypeOK, BuffersOwnedOnce
  <2>4. b \notin garbage \cup {unused_full_stack} /\ \A v \in Saved : ref_base[v] # b
      BY <1>a, <2>2 DEF BuffersOwnedOnce
  <2>5. \A v \in Saved : ref_base[v] # root_stack_base
      BY <1>a DEF BuffersOwnedOnce
  <2>6. \A v \in Tid : ref_base[v] # b /\ ref_base[v] # root_stack_base
      BY <2>3, <2>4, <2>5 DEF Saved
  <2> QED BY <2>1, <2>2, <2>3, <2>4, <2>6
<1>e. /\ size' \in [Buffer -> 0..MaxDepth]
      /\ \A c \in Buffer : size'[c] = IF c = b THEN new_depth
                                      ELSE IF c = root_stack_base THEN 0 ELSE size[c]
    BY <1>a, <1>b, <1>d DEF TypeOK, Move
<1>f. /\ mem' \in [Buffer -> [1..MaxDepth -> Tid \cup {NoTid}]]
      /\ \A i \in 1..root_stack_top : mem'[b][i] = mem[root_stack_base][i]
      /\ \A c \in Buffer \ {b, root_stack_base} : mem'[c] = mem[c]
    BY <1>a, <1>b, <1>d, MoveCopies DEF TypeOK
<1>1. TypeOK'
    BY <1>a, <1>b, <1>c, <1>e, <1>f DEF TypeOK
<1>2. LockHeldInside' /\ RunsOnOwnStack' /\ SwitchIsReady'
    BY <1>a, <1>c DEF LockHeldInside, Inside, RunsOnOwnStack, SwitchIsReady
<1>3. FilledWhileAway' /\ MainHasStack'
    BY <1>a, <1>c DEF FilledWhileAway, MainHasStack
<1>4. RootsKept'
    BY <1>a, <1>b, <1>c, <1>d, <1>f DEF TypeOK, RootsKept, BaseOf, TopOf
<1>5. BuffersOwnedOnce'
    BY <1>a, <1>b, <1>c, <1>d, <1>e DEF TypeOK, BuffersOwnedOnce, Saved
<1>6. StacksLargeEnough'
    BY <1>a, <1>b, <1>c, <1>d, <1>e DEF TypeOK, StacksLargeEnough, Saved
<1>7. ResizeIsPartial'
    BY <1>a, <1>b, <1>c, <1>d, <1>e DEF TypeOK, ResizeIsPartial, Saved, FilledWhileAway
<1> QED BY <1>1, <1>2, <1>3, <1>4, <1>5, <1>6, <1>7 DEF IInv

(* So does moving a stack that was saved away.                             *)
LEMMA ResizeSavedKeeps ==
    ASSUME NEW t \in Tid, NEW u \in Tid, IInv, _resize_thread_shadowstacks(t, u)
    PROVE  IInv'
<1> USE ShadowStacksAssumption
<1>a. /\ TypeOK /\ LockHeldInside /\ RunsOnOwnStack /\ FilledWhileAway /\ MainHasStack
      /\ SwitchIsReady /\ RootsKept /\ BuffersOwnedOnce /\ StacksLargeEnough
      /\ ResizeIsPartial
    BY DEF IInv
<1>b. PICK b \in Buffer : Move(ref_base[u], ref_top[u], b)
                          /\ ref_base' = [ref_base EXCEPT ![u] = b]
    BY DEF _resize_thread_shadowstacks, _resize
<1>c. /\ pc[t] = "resize" /\ active_tid \notin todo /\ u \in todo /\ todo' = todo \ {u}
      /\ UNCHANGED <<gil, pc, depth, main_tid, active_tid, root_stack_base, root_stack_top>>
      /\ UNCHANGED <<unused_full_stack, thread_stacks, ref_top, garbage>>
      /\ UNCHANGED <<root_stack_depth, new_depth>>
    BY DEF _resize_thread_shadowstacks, current
<1>d. /\ u \in Saved /\ u # active_tid /\ ref_base[u] \in Buffer
      /\ new_depth > root_stack_depth /\ unused_full_stack = NULL
    BY <1>a, <1>c DEF TypeOK, ResizeIsPartial, Saved
<1>e. /\ size[b] = 0 /\ size[ref_base[u]] > 0 /\ b # ref_base[u]
      /\ b \notin garbage \cup {root_stack_base}
      /\ ref_base[u] \notin garbage \cup {root_stack_base}
      /\ \A v \in Tid : ref_base[v] # b
      /\ \A v \in Tid \ {u} : ref_base[v] # ref_base[u]
    BY <1>a, <1>b, <1>d DEF TypeOK, Move, Free, BuffersOwnedOnce, Saved
<1>f. /\ size' \in [Buffer -> 0..MaxDepth]
      /\ \A c \in Buffer : size'[c] = IF c = b THEN new_depth
                                      ELSE IF c = ref_base[u] THEN 0 ELSE size[c]
    BY <1>a, <1>b, <1>d, <1>e DEF TypeOK, Move
<1>g. /\ mem' \in [Buffer -> [1..MaxDepth -> Tid \cup {NoTid}]]
      /\ \A i \in 1..ref_top[u] : mem'[b][i] = mem[ref_base[u]][i]
      /\ \A c \in Buffer \ {b, ref_base[u]} : mem'[c] = mem[c]
    BY <1>a, <1>b, <1>d, <1>e, MoveCopies DEF TypeOK
<1>h. /\ ref_base' \in [Tid -> Buffer \cup {NULL}]
      /\ \A v \in Tid : ref_base'[v] = IF v = u THEN b ELSE ref_base[v]
    BY <1>a, <1>b DEF TypeOK
<1>1. TypeOK'
    BY <1>a, <1>c, <1>f, <1>g, <1>h DEF TypeOK
<1>2. LockHeldInside' /\ RunsOnOwnStack' /\ SwitchIsReady'
    BY <1>a, <1>c DEF LockHeldInside, Inside, RunsOnOwnStack, SwitchIsReady
<1>3. FilledWhileAway' /\ MainHasStack'
    BY <1>a, <1>c, <1>d, <1>h DEF FilledWhileAway, MainHasStack, Saved
<1>4. RootsKept'
  <2> SUFFICES ASSUME NEW v \in Tid
               PROVE  /\ (TopOf(v))' = depth'[v]
                      /\ \A i \in 1..depth'[v] : (BaseOf(v))' \in Buffer
                                                 /\ mem'[(BaseOf(v))'][i] = v
      BY DEF RootsKept
  <2>1. (TopOf(v))' = TopOf(v) /\ TopOf(v) = depth[v] /\ depth' = depth
      BY <1>a, <1>c DEF TopOf, RootsKept
  <2>2. CASE v = u
      BY <1>a, <1>c, <1>d, <1>g, <1>h, <2>1, <2>2 DEF TypeOK, RootsKept, BaseOf, TopOf
  <2>3. CASE v # u
    <3>1. (BaseOf(v))' = BaseOf(v)
        BY <1>c, <1>h, <2>3 DEF BaseOf
    <3>2. BaseOf(v) # b /\ BaseOf(v) # ref_base[u]
        BY <1>e, <2>3 DEF BaseOf
    <3>3. \A i \in 1..depth[v] : BaseOf(v) \in Buffer /\ mem[BaseOf(v)][i] = v
        BY <1>a DEF RootsKept
    <3>4. BaseOf(v) \in Buffer => mem'[BaseOf(v)] = mem[BaseOf(v)]
        BY <1>g, <3>2
    <3> QED BY <2>1, <3>1, <3>3, <3>4
  <2> QED BY <2>2, <2>3
<1>5. BuffersOwnedOnce'
  <2>1. Saved' = Saved
      BY <1>d, <1>h DEF Saved
  <2>2. \A v \in Saved : /\ ref_base'[v] \notin garbage \cup {root_stack_base, unused_full_stack}
                         /\ \A w \in Saved \ {v} : ref_base'[w] # ref_base'[v]
    <3>1. \A v \in Saved :
             /\ v \in Tid /\ ref_base[v] \notin garbage \cup {root_stack_base}
             /\ ref_base[v] # NULL
             /\ \A w \in Saved \ {v} : ref_base[w] # ref_base[v]
        BY <1>a DEF BuffersOwnedOnce, Saved
    <3>2. b # NULL
        OBVIOUS
    <3> QED BY <1>d, <1>e, <1>h, <3>1, <3>2
  <2>3. ASSUME NEW c \in Buffer
        PROVE  size'[c] > 0 <=> \/ c \in garbage \cup {root_stack_base, unused_full_stack}
                                \/ \E v \in Saved : ref_base'[v] = c
    <3>1. size[c] > 0 <=> \/ c \in garbage \cup {root_stack_base, unused_full_stack}
                          \/ \E v \in Saved : ref_base[v] = c
        BY <1>a DEF BuffersOwnedOnce
    <3>2. new_depth > 0
        BY <1>a, <1>d DEF TypeOK
    <3>3. CASE c = b
        BY <1>d, <1>f, <1>h, <3>2, <3>3 DEF Saved
    <3>4. CASE c = ref_base[u]
        BY <1>d, <1>e, <1>f, <1>h, <3>4 DEF Saved
    <3>5. CASE c # b /\ c # ref_base[u]
        BY <1>d, <1>f, <1>h, <3>1, <3>5 DEF Saved
    <3> QED BY <3>3, <3>4, <3>5
  <2> QED BY <1>a, <1>c, <2>1, <2>2, <2>3 DEF BuffersOwnedOnce
<1>6. StacksLargeEnough'
  <2>1. size'[root_stack_base'] >= root_stack_depth' /\ unused_full_stack' = NULL
      BY <1>a, <1>c, <1>d, <1>e, <1>f DEF TypeOK, StacksLargeEnough
  <2>2. ASSUME NEW v \in Saved' PROVE size'[ref_base'[v]] >= root_stack_depth'
    <3>1. v \in Tid /\ (v # u => v \in Saved)
        BY <1>h DEF Saved
    <3>2. CASE v = u
        BY <1>a, <1>c, <1>d, <1>f, <1>h, <3>2 DEF TypeOK
    <3>3. CASE v # u
      <4>1. ref_base'[v] = ref_base[v] /\ ref_base[v] \in Buffer
            /\ size[ref_base[v]] >= root_stack_depth
          BY <1>a, <1>h, <3>1, <3>3 DEF TypeOK, StacksLargeEnough, Saved
      <4>2. size'[ref_base[v]] = size[ref_base[v]]
          BY <1>e, <1>f, <3>1, <3>3, <4>1
      <4> QED BY <1>c, <4>1, <4>2
    <3> QED BY <3>2, <3>3
  <2> QED BY <2>1, <2>2 DEF StacksLargeEnough
<1>7. ResizeIsPartial'
  <2>1. Saved' = Saved /\ new_depth' = new_depth /\ new_depth \in Nat
      BY <1>a, <1>c, <1>d, <1>h DEF TypeOK, Saved
  <2>2. /\ todo \subseteq {active_tid} \cup Saved
        /\ size[root_stack_base] >= new_depth
        /\ \A v \in Saved \ todo : size[ref_base[v]] >= new_depth
      BY <1>a, <1>c DEF ResizeIsPartial
  <2>3. todo' \subseteq {active_tid'} \cup Saved'
      BY <1>c, <2>1, <2>2
  <2>4. size'[root_stack_base'] >= new_depth'
    <3>1. root_stack_base \in Buffer /\ root_stack_base # b
          /\ root_stack_base # ref_base[u]
        BY <1>a, <1>e DEF TypeOK
    <3>2. size'[root_stack_base] = size[root_stack_base]
        BY <1>f, <3>1
    <3> QED BY <1>c, <2>1, <2>2, <3>2
  <2>5. ASSUME NEW v \in Saved \ todo' PROVE size'[ref_base'[v]] >= new_depth
    <3>1. CASE v = u
      <4>1. ref_base'[v] = b /\ size'[b] = new_depth
          BY <1>f, <1>h, <3>1
      <4> QED BY <2>1, <4>1
    <3>2. CASE v # u
      <4>1. v \in Saved \ todo /\ v \in Tid /\ ref_base[v] \in Buffer
          BY <1>a, <1>c, <3>2 DEF TypeOK, Saved
      <4>2. ref_base'[v] = ref_base[v] /\ size'[ref_base[v]] = size[ref_base[v]]
          BY <1>e, <1>f, <1>h, <3>2, <4>1
      <4> QED BY <2>2, <4>1, <4>2
    <3> QED BY <3>1, <3>2
  <2>6. pc'[t] = "resize" /\ new_depth' > root_stack_depth' /\ unused_full_stack' = NULL
      BY <1>c, <1>d
  <2> QED BY <2>1, <2>3, <2>4, <2>5, <2>6 DEF ResizeIsPartial
<1> QED BY <1>1, <1>2, <1>3, <1>4, <1>5, <1>6, <1>7 DEF IInv

(* Every step, and every stuttering step, keeps the invariant.             *)
LEMMA NextKeeps == IInv /\ [Next]_vars => IInv'
<1>1. ASSUME IInv, UNCHANGED vars PROVE IInv'
    BY <1>1 DEF IInv, vars, current, refs, heap, resizing, TypeOK, LockHeldInside,
       RunsOnOwnStack, FilledWhileAway, MainHasStack, SwitchIsReady, RootsKept,
       BuffersOwnedOnce, StacksLargeEnough, ResizeIsPartial, Saved, BaseOf, TopOf
<1>2. ASSUME IInv, NEW t \in Tid, Step(t) PROVE IInv'
    BY <1>2, ThreadStartsKeeps, AcquireGilKeeps, ReleaseGilKeeps, ThreadEndsKeeps,
       DieInMainKeeps, PushRootKeeps, PopRootKeeps, ThreadRunKeeps, RestoreOldKeeps,
       StartFreshKeeps, ThreadDieKeeps, AfterForkKeeps, DestructorKeeps, IncreaseKeeps,
       ResizeInstalledKeeps, ResizeSavedKeeps, ResizeDoneKeeps DEF Step
<1> QED BY <1>1, <1>2 DEF Next

(* IInv holds in every reachable state.                                    *)
THEOREM Invariance == Spec => []IInv
BY InitIInv, NextKeeps, PTL DEF Spec

(* Every variable keeps its type; the installed stack is never NULL.       *)
THEOREM TypeCorrect == Spec => []TypeOK
<1>1. IInv => TypeOK
    BY DEF IInv
<1> QED BY <1>1, Invariance, PTL

(* Code that pushes roots runs on the stack of its own thread.             *)
THEOREM OwnStackInstalled == Spec => []RunsOnOwnStack
<1>1. IInv => RunsOnOwnStack
    BY DEF IInv
<1> QED BY <1>1, Invariance, PTL

(* The collector finds exactly the roots each thread has pushed.           *)
THEOREM NoRootLost == Spec => []RootsKept
<1>1. IInv => RootsKept
    BY DEF IInv
<1> QED BY <1>1, Invariance, PTL

(* No stack is shared, freed while in use, or leaked.                      *)
THEOREM NoSharedOrLeakedStack == Spec => []BuffersOwnedOnce
<1>1. IInv => BuffersOwnedOnce
    BY DEF IInv
<1> QED BY <1>1, Invariance, PTL

(* Every stack holds root_stack_depth entries.                             *)
THEOREM EveryStackLargeEnough == Spec => []StacksLargeEnough
<1>1. IInv => StacksLargeEnough
    BY DEF IInv
<1> QED BY <1>1, Invariance, PTL

(* The stack a thread switches to exists: restore_state_from's assert and  *)
(* the lookup in thread_die succeed.                                       *)
THEOREM RestoreSucceeds == Spec => []RestoredStackExists
<1>1. IInv => RestoredStackExists
    BY DEF IInv, RestoredStackExists, FilledWhileAway, SwitchIsReady, MainHasStack,
           RunsOnOwnStack, TypeOK
<1> QED BY <1>1, Invariance, PTL

=============================================================================
