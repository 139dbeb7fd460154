----------------------------- MODULE GilProofs -----------------------------
(***************************************************************************)
(* Proofs about Gil for any number of threads and any polling bounds.      *)
(***************************************************************************)
EXTENDS Gil, FiniteSetTheorems, TLAPS

(* Who owns each of the two pthread mutexes is determined by where the     *)
(* threads are.                                                            *)
MutexesOwned ==
    /\ MutexOwnersAreInside
    /\ \A t \in Thread : pc[t] \in HoldsMut => mut = t
    /\ \A t \in Thread : pc[t] \in HoldsStealer => stealer = t

(* While some thread holds the lock, mutex_gil is locked: this is the      *)
(* invariant of point (4) that a release relies on.                        *)
HolderKeepsMutexLocked ==
    \A t \in Thread : pc[t] \in HoldsGil => locked

(* Before RPyGilAllocate no thread is at a point that uses the mutexes.    *)
IdleBeforeAllocate ==
    waiting = NotAllocated =>
        /\ locked
        /\ \A t \in Thread : pc[t] \in NotRunning \cup {"run", "slow"}

(* What a thread is about to store in rpy_early_poll_n is not exhausted.    *)
StoredCountIsFresh ==
    \A t \in Thread : pc[t] = "poll_store" => n[t] >= 0

(* A thread that decided to yield still has somebody to yield to.          *)
YieldersSeeWaiters ==
    \A t \in Thread : pc[t] \in {"yield_lock", "yield_clear"} => waiting >= 1

SafeInv ==
    /\ TypeOK
    /\ MutualExclusion
    /\ NeverBothUnlocked
    /\ HolderIsFastgil
    /\ MutexesOwned
    /\ HolderKeepsMutexLocked
    /\ IdleBeforeAllocate
    /\ StoredCountIsFresh
    /\ YieldersSeeWaiters

(* The inductive invariant.                                                *)
IInv == SafeInv /\ WaitingIsExact

Waiters == {t \in Thread : pc[t] \in InSlowPath}

USE DEF NotRunning, YieldPoints, PollPoints, MutexPoints, Points, InSlowPath,
        HoldsStealer, HoldsMut, HoldsGil, NotAllocated, Locals, Goto, Moves,
        SwapSucceeds, SwapFails, LocksMut, rpy_init_mutexes

----------------------------------------------------------------------------
(* The polling count computed by the slow path is a positive number below  *)
(* POKE_MAX, whatever the count of the previous caller.                    *)
LEMMA PollCountBound ==
    ASSUME NEW m \in 0..(POKE_MAX - 1)
    PROVE  PollCount(m) \in 1..(POKE_MAX - 1)
<1> DEFINE k == 2 * m + 1
           d == POKE_MAX - POKE_MIN
<1>1. k \in Nat /\ k >= 1 /\ d \in Nat \ {0}
  BY PokeAssumption
<1>2. CASE k < POKE_MAX
  BY <1>1, <1>2, PokeAssumption DEF PollCount
<1>3. CASE k >= POKE_MAX
  <2>1. k - POKE_MIN \in Nat
    BY <1>1, <1>3, PokeAssumption
  <2>2. (k - POKE_MIN) % d \in 0..(d - 1)
    BY <1>1, <2>1, Z3
  <2> QED
    BY <1>1, <1>3, <2>2, PokeAssumption DEF PollCount
<1> QED
  BY <1>1, <1>2, <1>3, PokeAssumption

(* The registered waiters are finitely many.                               *)
LEMMA WaitersFinite ==
    /\ IsFiniteSet(Waiters)
    /\ Cardinality(Waiters) \in Nat
    /\ \A t \in Waiters : Cardinality(Waiters) >= 1
<1>1. IsFiniteSet(Waiters) /\ Cardinality(Waiters) \in Nat
  BY ThreadAssumption, FS_Subset, FS_CardinalityType DEF Waiters
<1>2. ASSUME NEW t \in Waiters PROVE Cardinality(Waiters) >= 1
  BY <1>1, <1>2, FS_EmptySet
<1> QED
  BY <1>1, <1>2

----------------------------------------------------------------------------
(* The initial state satisfies the invariant.                              *)
LEMMA InitIInv == Init => IInv
<1> SUFFICES ASSUME Init PROVE IInv
  OBVIOUS
<1>1. SafeInv
  BY ThreadAssumption, PokeAssumption
  DEF Init, SafeInv, TypeOK, MutualExclusion, NeverBothUnlocked, HolderIsFastgil,
      MutexesOwned, MutexOwnersAreInside, HolderKeepsMutexLocked,
      IdleBeforeAllocate, StoredCountIsFresh, YieldersSeeWaiters
<1>2. WaitingIsExact
  BY DEF Init, WaitingIsExact
<1> QED
  BY <1>1, <1>2 DEF IInv

(* Every step of a thread keeps the safety part of the invariant.          *)
LEMMA StepSafeInv ==
    ASSUME IInv, NEW t \in Thread, ThreadStep(t)
    PROVE  SafeInv'
<1> USE ThreadAssumption, PokeAssumption
    DEF SafeInv, TypeOK, MutualExclusion, NeverBothUnlocked, HolderIsFastgil,
        MutexesOwned, MutexOwnersAreInside, HolderKeepsMutexLocked,
        IdleBeforeAllocate, StoredCountIsFresh, YieldersSeeWaiters
<1>0. SafeInv
  BY DEF IInv
<1>1. CASE ThreadAppears(t)
  BY <1>0, <1>1 DEF ThreadAppears
<1>2. CASE ThreadExits(t)
  BY <1>0, <1>2 DEF ThreadExits
<1>3. CASE RPyGilAllocate(t)
  BY <1>0, <1>3 DEF RPyGilAllocate
<1>4. CASE Fork(t)
  <2>1. TypeOK'
    <3>1. pc' \in [Thread -> Points]
      BY <1>4 DEF Fork
    <3>2. CASE waiting >= 0
      BY <1>0, <1>4, <3>1, <3>2 DEF Fork
    <3>3. CASE ~(waiting >= 0)
      BY <1>0, <1>4, <3>1, <3>3 DEF Fork
    <3> QED
      BY <3>2, <3>3
  <2>4. StoredCountIsFresh' /\ YieldersSeeWaiters'
    BY <1>0, <1>4 DEF Fork
  <2>2. MutualExclusion' /\ HolderIsFastgil' /\ NeverBothUnlocked'
    BY <1>0, <1>4 DEF Fork
  <2>3. MutexesOwned' /\ HolderKeepsMutexLocked' /\ IdleBeforeAllocate'
    BY <1>0, <1>4 DEF Fork
  <2> QED
    BY <2>1, <2>2, <2>3, <2>4
<1>5. CASE BeginAcquire(t)
  BY <1>0, <1>5 DEF BeginAcquire
<1>6. CASE RPyGilRelease(t)
  BY <1>0, <1>6 DEF RPyGilRelease
<1>7. CASE RPyGilYieldThread(t)
  BY <1>0, <1>7 DEF RPyGilYieldThread
<1>8. CASE AcquireFastPath(t)
  BY <1>0, <1>8 DEF AcquireFastPath
<1>9. CASE AcquireFails(t)
  BY <1>0, <1>9 DEF AcquireFails
<1>10. CASE SlowPathAbort(t)
  BY <1>0, <1>10 DEF SlowPathAbort
<1>11. CASE RegisterWaiting(t)
  BY <1>0, <1>11 DEF RegisterWaiting
<1>12. CASE PollRead(t)
  <2>1. PollCount(early_poll_n) \in 1..(POKE_MAX - 1)
    BY <1>0, PollCountBound
  <2> QED
    BY <1>0, <1>12, <2>1 DEF PollRead
<1>13. CASE PollStore(t)
  BY <1>0, <1>13 DEF PollStore
<1>14. CASE PollIterate(t)
  BY <1>0, <1>14 DEF PollIterate
<1>15. CASE PollTakes(t)
  BY <1>0, <1>15 DEF PollTakes
<1>16. CASE PollMisses(t)
  BY <1>0, <1>16 DEF PollMisses
<1>17. CASE PollUnlocks(t)
  <2>1. CASE LocksMut(t, "poll_lock", "poll_clear")
    BY <1>0, <2>1
  <2>2. CASE Mutex2UnlockClear(t, "poll_clear", "poll_signal")
    <3>1. pc[t] \in HoldsGil /\ fastgil = t /\ mut = t
      BY <1>0, <2>2 DEF Mutex2UnlockClear
    <3>2. TypeOK' /\ NeverBothUnlocked' /\ StoredCountIsFresh' /\ YieldersSeeWaiters'
      BY <1>0, <2>2, <3>1 DEF Mutex2UnlockClear
    <3>3. \A s \in Thread : pc'[s] \notin HoldsGil
      BY <1>0, <2>2, <3>1 DEF Mutex2UnlockClear
    <3>4. MutexesOwned' /\ IdleBeforeAllocate'
      BY <1>0, <2>2, <3>1 DEF Mutex2UnlockClear
    <3> QED
      BY <3>2, <3>3, <3>4
  <2>3. CASE Mutex2UnlockSignal(t, "poll_signal", "lock_stealer")
    BY <1>0, <2>3 DEF Mutex2UnlockSignal
  <2> QED
    BY <1>17, <2>1, <2>2, <2>3 DEF PollUnlocks
<1>18. CASE YieldUnlocks(t)
  <2>1. CASE LocksMut(t, "yield_lock", "yield_clear")
    BY <1>0, <2>1
  <2>2. CASE Mutex2UnlockClear(t, "yield_clear", "yield_signal")
    <3>1. pc[t] \in HoldsGil /\ fastgil = t /\ mut = t
      BY <1>0, <2>2 DEF Mutex2UnlockClear
    <3>2. TypeOK' /\ NeverBothUnlocked' /\ StoredCountIsFresh' /\ YieldersSeeWaiters'
      BY <1>0, <2>2, <3>1 DEF Mutex2UnlockClear
    <3>3. \A s \in Thread : pc'[s] \notin HoldsGil
      BY <1>0, <2>2, <3>1 DEF Mutex2UnlockClear
    <3>4. MutexesOwned' /\ IdleBeforeAllocate'
      BY <1>0, <2>2, <3>1 DEF Mutex2UnlockClear
    <3> QED
      BY <3>2, <3>3, <3>4
  <2>3. CASE Mutex2UnlockSignal(t, "yield_signal", "acquire")
    BY <1>0, <2>3 DEF Mutex2UnlockSignal
  <2> QED
    BY <1>18, <2>1, <2>2, <2>3 DEF YieldUnlocks
<1>19. CASE LockStealer(t)
  BY <1>0, <1>19 DEF LockStealer
<1>20. CASE Mutex2LoopStart(t)
  BY <1>0, <1>20 DEF Mutex2LoopStart
<1>21. CASE StealFastPath(t)
  BY <1>0, <1>21 DEF StealFastPath
<1>22. CASE StealMisses(t)
  BY <1>0, <1>22 DEF StealMisses
<1>23. CASE LockTimeoutSleeps(t)
  BY <1>0, <1>23 DEF LockTimeoutSleeps
<1>24. CASE TimedWaitExpires(t)
  BY <1>0, <1>24 DEF TimedWaitExpires
<1>25. CASE TimedWaitRelocks(t)
  BY <1>0, <1>25 DEF TimedWaitRelocks
<1>26. CASE LockTimeoutResult(t)
  BY <1>0, <1>26 DEF LockTimeoutResult
<1>27. CASE StealClaims(t)
  BY <1>0, <1>27 DEF StealClaims
<1>28. CASE DecrementWaiting(t)
  <2>1. t \in Waiters
    BY <1>28 DEF DecrementWaiting, Waiters
  <2>2. waiting >= 1
    BY <1>0, <1>28, <2>1, WaitersFinite DEF IInv, WaitingIsExact, Waiters, DecrementWaiting
  <2> QED
    BY <1>0, <1>28, <2>2 DEF DecrementWaiting
<1>29. CASE Mutex2LoopStop(t)
  BY <1>0, <1>29 DEF Mutex2LoopStop
<1>30. CASE UnlockStealer(t)
  BY <1>0, <1>30 DEF UnlockStealer
<1> QED
  BY <1>1, <1>2, <1>3, <1>4, <1>5, <1>6, <1>7, <1>8, <1>9, <1>10, <1>11, <1>12, <1>13, <1>14, <1>15, <1>16, <1>17, <1>18, <1>19, <1>20, <1>21, <1>22, <1>23, <1>24, <1>25, <1>26, <1>27, <1>28, <1>29, <1>30 DEF ThreadStep, InCall, SlowPath

(* Every step of a thread keeps the count of waiting threads exact.  Only  *)
(* four operations change the count or the set of threads it counts.       *)
LEMMA StepWaiting ==
    ASSUME IInv, NEW t \in Thread, ThreadStep(t)
    PROVE  WaitingIsExact'
<1>0. TypeOK /\ (waiting = NotAllocated \/ waiting = Cardinality(Waiters))
  BY DEF IInv, SafeInv, WaitingIsExact, Waiters
<1>1. CASE RPyGilAllocate(t)
  <2>1. Waiters' = {}
    BY <1>0, <1>1 DEF RPyGilAllocate, IInv, SafeInv, IdleBeforeAllocate, TypeOK,
                      Waiters
  <2> QED
    BY <1>1, <2>1, FS_EmptySet DEF RPyGilAllocate, WaitingIsExact, Waiters
<1>2. CASE Fork(t)
  <2>1. Waiters' = {}
    BY <1>2 DEF Fork, Waiters
  <2>2. (waiting' = waiting /\ waiting = NotAllocated) \/ waiting' = 0
    BY <1>0, <1>2 DEF Fork, TypeOK
  <2> QED
    BY <2>1, <2>2, FS_EmptySet DEF WaitingIsExact, Waiters
<1>3. CASE RegisterWaiting(t)
  <2>1. t \notin Waiters /\ Waiters' = Waiters \cup {t}
    BY <1>0, <1>3 DEF RegisterWaiting, Waiters, TypeOK
  <2>2. waiting = Cardinality(Waiters) /\ waiting' = waiting + 1
    BY <1>0, <1>3 DEF RegisterWaiting, TypeOK
  <2>3. Cardinality(Waiters') = Cardinality(Waiters) + 1
    BY <2>1, WaitersFinite, FS_AddElement
  <2> QED
    BY <2>2, <2>3 DEF WaitingIsExact, Waiters
<1>4. CASE DecrementWaiting(t)
  <2>1. t \in Waiters /\ Waiters' = Waiters \ {t}
    BY <1>0, <1>4 DEF DecrementWaiting, Waiters, TypeOK
  <2>2. waiting = Cardinality(Waiters) /\ waiting' = waiting - 1
    BY <1>0, <1>4 DEF DecrementWaiting, IInv, SafeInv, IdleBeforeAllocate, TypeOK
  <2>3. Cardinality(Waiters') = Cardinality(Waiters) - 1
    BY <2>1, WaitersFinite, FS_RemoveElement
  <2> QED
    BY <2>2, <2>3 DEF WaitingIsExact, Waiters
<1>5. CASE ThreadAppears(t)
  BY <1>0, <1>5 DEF ThreadAppears, Waiters, TypeOK, WaitingIsExact
<1>6. CASE ThreadExits(t)
  BY <1>0, <1>6 DEF ThreadExits, Waiters, TypeOK, WaitingIsExact
<1>7. CASE BeginAcquire(t)
  BY <1>0, <1>7 DEF BeginAcquire, Waiters, TypeOK, WaitingIsExact
<1>8. CASE RPyGilRelease(t)
  BY <1>0, <1>8 DEF RPyGilRelease, Waiters, TypeOK, WaitingIsExact
<1>9. CASE AcquireFastPath(t)
  BY <1>0, <1>9 DEF AcquireFastPath, Waiters, TypeOK, WaitingIsExact
<1>10. CASE AcquireFails(t)
  BY <1>0, <1>10 DEF AcquireFails, Waiters, TypeOK, WaitingIsExact
<1>11. CASE SlowPathAbort(t)
  BY <1>0, <1>11 DEF SlowPathAbort, Waiters, TypeOK, WaitingIsExact
<1>12. CASE RPyGilYieldThread(t)
  BY <1>0, <1>12 DEF RPyGilYieldThread, Waiters, TypeOK, WaitingIsExact
<1>13. CASE PollRead(t)
  BY <1>0, <1>13 DEF PollRead, Waiters, TypeOK, WaitingIsExact
<1>14. CASE PollStore(t)
  BY <1>0, <1>14 DEF PollStore, Waiters, TypeOK, WaitingIsExact
<1>15. CASE PollIterate(t)
  BY <1>0, <1>15 DEF PollIterate, Waiters, TypeOK, WaitingIsExact
<1>16. CASE PollTakes(t)
  BY <1>0, <1>16 DEF PollTakes, Waiters, TypeOK, WaitingIsExact
<1>17. CASE PollMisses(t)
  BY <1>0, <1>17 DEF PollMisses, Waiters, TypeOK, WaitingIsExact
<1>18. CASE PollUnlocks(t)
  <2>1. waiting' = waiting
    BY <1>18 DEF PollUnlocks, Mutex2UnlockClear, Mutex2UnlockSignal
  <2>2. Waiters' = Waiters
    BY <1>0, <1>18 DEF PollUnlocks, Mutex2UnlockClear, Mutex2UnlockSignal, Waiters, TypeOK
  <2> QED
    BY <1>0, <2>1, <2>2 DEF WaitingIsExact, Waiters
<1>19. CASE YieldUnlocks(t)
  BY <1>0, <1>19 DEF YieldUnlocks, Mutex2UnlockClear, Mutex2UnlockSignal, Waiters, TypeOK, WaitingIsExact
<1>20. CASE LockStealer(t)
  BY <1>0, <1>20 DEF LockStealer, Waiters, TypeOK, WaitingIsExact
<1>21. CASE Mutex2LoopStart(t)
  BY <1>0, <1>21 DEF Mutex2LoopStart, Waiters, TypeOK, WaitingIsExact
<1>22. CASE StealFastPath(t)
  BY <1>0, <1>22 DEF StealFastPath, Waiters, TypeOK, WaitingIsExact
<1>23. CASE StealMisses(t)
  BY <1>0, <1>23 DEF StealMisses, Waiters, TypeOK, WaitingIsExact
<1>24. CASE LockTimeoutSleeps(t)
  BY <1>0, <1>24 DEF LockTimeoutSleeps, Waiters, TypeOK, WaitingIsExact
<1>25. CASE TimedWaitExpires(t)
  BY <1>0, <1>25 DEF TimedWaitExpires, Waiters, TypeOK, WaitingIsExact
<1>26. CASE TimedWaitRelocks(t)
  BY <1>0, <1>26 DEF TimedWaitRelocks, Waiters, TypeOK, WaitingIsExact
<1>27. CASE LockTimeoutResult(t)
  <2>1. waiting' = waiting
    BY <1>27 DEF LockTimeoutResult
  <2>2. Waiters' = Waiters
    BY <1>0, <1>27 DEF LockTimeoutResult, Waiters, TypeOK
  <2> QED
    BY <1>0, <2>1, <2>2 DEF WaitingIsExact, Waiters
<1>28. CASE StealClaims(t)
  BY <1>0, <1>28 DEF StealClaims, Waiters, TypeOK, WaitingIsExact
<1>29. CASE Mutex2LoopStop(t)
  BY <1>0, <1>29 DEF Mutex2LoopStop, Waiters, TypeOK, WaitingIsExact
<1>30. CASE UnlockStealer(t)
  BY <1>0, <1>30 DEF UnlockStealer, Waiters, TypeOK, WaitingIsExact
<1> QED
  BY <1>1, <1>2, <1>3, <1>4, <1>5, <1>6, <1>7, <1>8, <1>9, <1>10, <1>11, <1>12, <1>13, <1>14, <1>15, <1>16, <1>17, <1>18, <1>19, <1>20, <1>21, <1>22, <1>23, <1>24, <1>25, <1>26, <1>27, <1>28, <1>29, <1>30 DEF ThreadStep, InCall, SlowPath

(* IInv is inductive.                                                      *)
LEMMA NextIInv == IInv /\ [Next]_vars => IInv'
<1> SUFFICES ASSUME IInv, [Next]_vars PROVE IInv'
  OBVIOUS
<1>1. ASSUME NEW t \in Thread, ThreadStep(t) PROVE IInv'
  BY <1>1, StepSafeInv, StepWaiting DEF IInv
<1>2. CASE UNCHANGED vars
  BY <1>2 DEF vars, IInv, SafeInv, TypeOK, MutualExclusion, NeverBothUnlocked,
      HolderIsFastgil, MutexesOwned, MutexOwnersAreInside, HolderKeepsMutexLocked,
      IdleBeforeAllocate, StoredCountIsFresh, YieldersSeeWaiters, WaitingIsExact
<1> QED
  BY <1>1, <1>2 DEF Next

(* IInv holds in every reachable state.                                    *)
THEOREM Invariance == Spec => []IInv
  BY InitIInv, NextIInv, PTL DEF Spec

(* The pthread mutexes are owned by threads that are inside the calls that *)
(* took them: a fork leaves none locked by a thread that is gone.          *)
THEOREM MutexesOfThreadsInside == Spec => []MutexOwnersAreInside
<1>1. IInv => MutexOwnersAreInside
  BY DEF IInv, SafeInv, MutexesOwned
<1> QED
  BY <1>1, Invariance, PTL

(* Every variable keeps its type: in particular rpy_waiting_threads never  *)
(* becomes negative again and the polling count stays below POKE_MAX.      *)
THEOREM TypeCorrect == Spec => []TypeOK
<1>1. IInv => TypeOK
  BY DEF IInv, SafeInv
<1> QED
  BY <1>1, Invariance, PTL

(* The global interpreter lock is exclusive for any number of threads,     *)
(* through fast path, early poll, stealing, yield and fork.                *)
THEOREM GilIsExclusive == Spec => []MutualExclusion
<1>1. IInv => MutualExclusion
  BY DEF IInv, SafeInv
<1> QED
  BY <1>1, Invariance, PTL

(* rpy_fastgil and mutex_gil are never both unlocked.                      *)
THEOREM OneSideLocked == Spec => []NeverBothUnlocked
<1>1. IInv => NeverBothUnlocked
  BY DEF IInv, SafeInv
<1> QED
  BY <1>1, Invariance, PTL

(* General code can find out whether it holds the lock by comparing        *)
(* rpy_fastgil with its own identity, and the slow path's asserts hold.    *)
THEOREM FastgilNamesHolder == Spec => []HolderIsFastgil
<1>1. IInv => HolderIsFastgil
  BY DEF IInv, SafeInv
<1> QED
  BY <1>1, Invariance, PTL

(* rpy_waiting_threads is exactly the number of registered threads.        *)
THEOREM WaitingCounts == Spec => []WaitingIsExact
<1>1. IInv => WaitingIsExact
  BY DEF IInv
<1> QED
  BY <1>1, Invariance, PTL
----------------------------------------------------------------------------
(* Gil implements InterpreterLock.                                         *)

(* Exclusion makes the holder the one thread at a point of HoldsGil, now   *)
(* and after a step.                                                       *)
LEMMA HolderNow ==
    ASSUME MutualExclusion, NEW t \in Thread
    PROVE  /\ pc[t] \in HoldsGil => Holder = t
           /\ Holder = t => pc[t] \in HoldsGil
           /\ (\A s \in Thread : pc[s] \notin HoldsGil) => Holder = NoThread
<1> QED
  BY ThreadAssumption, Zenon DEF Holder, MutualExclusion

LEMMA HolderNext ==
    ASSUME MutualExclusion', NEW t \in Thread
    PROVE  /\ pc'[t] \in HoldsGil => Holder' = t
           /\ (\A s \in Thread : pc'[s] \notin HoldsGil) => Holder' = NoThread
<1> QED
  BY ThreadAssumption, Zenon DEF Holder, MutualExclusion

(* A step that changes neither the threads at HoldsGil or InSlowPath nor   *)
(* mutex_gil.locked is invisible to the users of the lock.                 *)
LEMMA Invisible ==
    ASSUME \A s \in Thread : /\ pc'[s] \in HoldsGil <=> pc[s] \in HoldsGil
                             /\ pc'[s] \in InSlowPath <=> pc[s] \in InSlowPath,
           locked' = locked
    PROVE  UNCHANGED Lock!lockVars
<1> HIDE DEF HoldsGil, InSlowPath
<1>1. Holder' = Holder
  BY DEF Holder
<1>2. Waiters' = Waiters
  BY DEF Waiters
<1> QED
  BY <1>1, <1>2 DEF Lock!lockVars, Waiters

(* Every step of a thread is a step of the abstract lock or invisible.     *)
LEMMA StepRefines ==
    ASSUME IInv, IInv', NEW t \in Thread, ThreadStep(t)
    PROVE  [Lock!LockNext]_(Lock!lockVars)
<1>0. /\ TypeOK /\ MutualExclusion /\ MutualExclusion' /\ HolderKeepsMutexLocked
      /\ HolderIsFastgil /\ NeverBothUnlocked /\ WaitingIsExact
  BY DEF IInv, SafeInv
<1>1. CASE AcquireFastPath(t)
  <2>1. \A s \in Thread : pc[s] \notin HoldsGil
    BY <1>0, <1>1, ThreadAssumption DEF AcquireFastPath, HolderIsFastgil, TypeOK
  <2>2. Holder = NoThread /\ Holder' = t /\ locked /\ locked' = locked
    BY <1>0, <1>1, <2>1, HolderNow, HolderNext DEF AcquireFastPath, TypeOK, NeverBothUnlocked
  <2>3. Waiters' = Waiters
    BY <1>0, <1>1 DEF AcquireFastPath, Waiters, TypeOK
  <2> QED
    BY <2>2, <2>3 DEF Waiters, Lock!LockNext, Lock!Take
<1>2. CASE PollTakes(t)
  <2>1. \A s \in Thread : pc[s] \notin HoldsGil
    BY <1>0, <1>2, ThreadAssumption DEF PollTakes, HolderIsFastgil, TypeOK
  <2>2. Holder = NoThread /\ Holder' = t /\ locked /\ locked' = locked
    BY <1>0, <1>2, <2>1, HolderNow, HolderNext DEF PollTakes, TypeOK, NeverBothUnlocked
  <2>3. Waiters' = Waiters
    BY <1>0, <1>2 DEF PollTakes, Waiters, TypeOK
  <2> QED
    BY <2>2, <2>3 DEF Waiters, Lock!LockNext, Lock!Take
<1>3. CASE StealFastPath(t)
  <2>1. \A s \in Thread : pc[s] \notin HoldsGil
    BY <1>0, <1>3, ThreadAssumption DEF StealFastPath, HolderIsFastgil, TypeOK
  <2>2. Holder = NoThread /\ Holder' = t /\ locked /\ locked' = locked
    BY <1>0, <1>3, <2>1, HolderNow, HolderNext DEF StealFastPath, TypeOK, NeverBothUnlocked
  <2>3. Waiters' = Waiters
    BY <1>0, <1>3 DEF StealFastPath, Waiters, TypeOK
  <2> QED
    BY <2>2, <2>3 DEF Waiters, Lock!LockNext, Lock!Take
<1>4. CASE RegisterWaiting(t)
  <2>1. Holder # t /\ Holder' = Holder /\ locked' = locked
    <3>1. \A s \in Thread : pc'[s] \in HoldsGil <=> pc[s] \in HoldsGil
      BY <1>0, <1>4 DEF RegisterWaiting, TypeOK
    <3>2. Holder' = Holder
      BY <3>1, Zenon DEF Holder
    <3> QED
      BY <1>0, <1>4, <3>2, HolderNow DEF RegisterWaiting
  <2>2. t \notin Waiters /\ Waiters' = Waiters \cup {t}
    BY <1>0, <1>4 DEF RegisterWaiting, Waiters, TypeOK
  <2> QED
    BY <2>1, <2>2 DEF Waiters, Lock!LockNext, Lock!Enqueue
<1>5. CASE DecrementWaiting(t)
  <2>1. Holder = t /\ Holder' = t /\ locked' = locked
    BY <1>0, <1>5, HolderNow, HolderNext DEF DecrementWaiting, TypeOK
  <2>2. t \in Waiters /\ Waiters' = Waiters \ {t}
    BY <1>0, <1>5 DEF DecrementWaiting, Waiters, TypeOK
  <2> QED
    BY <2>1, <2>2 DEF Waiters, Lock!LockNext, Lock!Dequeue
<1>6. CASE RPyGilRelease(t)
  <2>1. \A s \in Thread : pc'[s] \notin HoldsGil
    BY <1>0, <1>6 DEF RPyGilRelease, MutualExclusion, TypeOK
  <2>2. Holder = t /\ Holder' = NoThread /\ locked' = locked
    BY <1>0, <1>6, <2>1, HolderNow, HolderNext DEF RPyGilRelease
  <2>3. t \notin Waiters /\ Waiters' = Waiters
    BY <1>0, <1>6 DEF RPyGilRelease, Waiters, TypeOK
  <2> QED
    BY <2>2, <2>3 DEF Waiters, Lock!LockNext, Lock!Release
<1>7. CASE Fork(t)
  <2>1. Holder = t /\ Holder' = t
    BY <1>0, <1>7, HolderNow, HolderNext DEF Fork
  <2>2. locked' = locked
    BY <1>0, <1>7 DEF Fork, HolderKeepsMutexLocked, TypeOK
  <2>3. t \notin Waiters /\ Waiters' = {}
    BY <1>7 DEF Fork, Waiters
  <2> QED
    BY <2>1, <2>2, <2>3 DEF Waiters, Lock!LockNext, Lock!Survive
<1>8. CASE PollUnlocks(t)
  <2>1. CASE LocksMut(t, "poll_lock", "poll_clear")
    BY <1>0, <2>1, Invisible DEF TypeOK
  <2>2. CASE Mutex2UnlockClear(t, "poll_clear", "poll_signal")
    <3>1. \A s \in Thread : pc'[s] \notin HoldsGil
      BY <1>0, <2>2 DEF Mutex2UnlockClear, MutualExclusion, TypeOK
    <3>2. Holder = t /\ Holder' = NoThread /\ ~locked'
      BY <1>0, <2>2, <3>1, HolderNow, HolderNext DEF Mutex2UnlockClear
    <3>3. Waiters # {}
      BY <2>2 DEF Mutex2UnlockClear, Waiters
    <3>4. Waiters' = Waiters
      BY <1>0, <2>2 DEF Mutex2UnlockClear, Waiters, TypeOK
    <3> QED
      BY <3>2, <3>3, <3>4 DEF Waiters, Lock!LockNext, Lock!Offer
  <2>3. CASE Mutex2UnlockSignal(t, "poll_signal", "lock_stealer")
    BY <1>0, <2>3, Invisible DEF Mutex2UnlockSignal, TypeOK
  <2> QED
    BY <1>8, <2>1, <2>2, <2>3 DEF PollUnlocks
<1>9. CASE YieldUnlocks(t)
  <2>1. CASE LocksMut(t, "yield_lock", "yield_clear")
    BY <1>0, <2>1, Invisible DEF TypeOK
  <2>2. CASE Mutex2UnlockClear(t, "yield_clear", "yield_signal")
    <3>1. \A s \in Thread : pc'[s] \notin HoldsGil
      BY <1>0, <2>2 DEF Mutex2UnlockClear, MutualExclusion, TypeOK
    <3>2. Holder = t /\ Holder' = NoThread /\ ~locked'
      BY <1>0, <2>2, <3>1, HolderNow, HolderNext DEF Mutex2UnlockClear
    <3>3. Waiters # {}
      <4>1. waiting >= 1
        BY <2>2 DEF IInv, SafeInv, YieldersSeeWaiters, Mutex2UnlockClear
      <4> QED
        BY <1>0, <4>1, FS_EmptySet DEF WaitingIsExact, Waiters
    <3>4. Waiters' = Waiters
      BY <1>0, <2>2 DEF Mutex2UnlockClear, Waiters, TypeOK
    <3> QED
      BY <3>2, <3>3, <3>4 DEF Waiters, Lock!LockNext, Lock!Offer
  <2>3. CASE Mutex2UnlockSignal(t, "yield_signal", "acquire")
    BY <1>0, <2>3, Invisible DEF Mutex2UnlockSignal, TypeOK
  <2> QED
    BY <1>9, <2>1, <2>2, <2>3 DEF YieldUnlocks
<1>10. CASE LockTimeoutResult(t)
  <2>1. CASE locked
    BY <1>0, <1>10, <2>1, Invisible DEF LockTimeoutResult, TypeOK
  <2>2. CASE ~locked
    <3>1. \A s \in Thread : pc[s] \notin HoldsGil
      BY <1>0, <2>2 DEF HolderKeepsMutexLocked
    <3>2. Holder = NoThread /\ Holder' = t /\ locked'
      BY <1>0, <1>10, <2>2, <3>1, HolderNow, HolderNext DEF LockTimeoutResult, TypeOK
    <3>3. t \in Waiters /\ Waiters' = Waiters
      BY <1>0, <1>10, <2>2 DEF LockTimeoutResult, Waiters, TypeOK
    <3> QED
      BY <2>2, <3>2, <3>3 DEF Waiters, Lock!LockNext, Lock!TakeOffered
  <2> QED
    BY <2>1, <2>2
<1>11. CASE ThreadAppears(t)
  BY <1>0, <1>11, Invisible DEF ThreadAppears, TypeOK
<1>12. CASE ThreadExits(t)
  BY <1>0, <1>12, Invisible DEF ThreadExits, TypeOK
<1>13. CASE RPyGilAllocate(t)
  BY <1>0, <1>13, Invisible DEF RPyGilAllocate, TypeOK, HolderKeepsMutexLocked
<1>14. CASE BeginAcquire(t)
  BY <1>0, <1>14, Invisible DEF BeginAcquire, TypeOK
<1>15. CASE AcquireFails(t)
  BY <1>0, <1>15, Invisible DEF AcquireFails, TypeOK
<1>16. CASE SlowPathAbort(t)
  BY <1>0, <1>16, Invisible DEF SlowPathAbort, TypeOK
<1>17. CASE RPyGilYieldThread(t)
  BY <1>0, <1>17, Invisible DEF RPyGilYieldThread, TypeOK
<1>18. CASE PollRead(t)
  BY <1>0, <1>18, Invisible DEF PollRead, TypeOK
<1>19. CASE PollStore(t)
  BY <1>0, <1>19, Invisible DEF PollStore, TypeOK
<1>20. CASE PollIterate(t)
  BY <1>0, <1>20, Invisible DEF PollIterate, TypeOK
<1>21. CASE PollMisses(t)
  BY <1>0, <1>21, Invisible DEF PollMisses, TypeOK
<1>22. CASE LockStealer(t)
  BY <1>0, <1>22, Invisible DEF LockStealer, TypeOK
<1>23. CASE Mutex2LoopStart(t)
  BY <1>0, <1>23, Invisible DEF Mutex2LoopStart, TypeOK
<1>24. CASE StealMisses(t)
  BY <1>0, <1>24, Invisible DEF StealMisses, TypeOK
<1>25. CASE LockTimeoutSleeps(t)
  BY <1>0, <1>25, Invisible DEF LockTimeoutSleeps, TypeOK
<1>26. CASE TimedWaitExpires(t)
  BY <1>0, <1>26, Invisible DEF TimedWaitExpires, TypeOK
<1>27. CASE TimedWaitRelocks(t)
  BY <1>0, <1>27, Invisible DEF TimedWaitRelocks, TypeOK
<1>28. CASE StealClaims(t)
  BY <1>0, <1>28, Invisible DEF StealClaims, TypeOK
<1>29. CASE Mutex2LoopStop(t)
  BY <1>0, <1>29, Invisible DEF Mutex2LoopStop, TypeOK
<1>30. CASE UnlockStealer(t)
  BY <1>0, <1>30, Invisible DEF UnlockStealer, TypeOK
<1> QED
  BY <1>1, <1>2, <1>3, <1>4, <1>5, <1>6, <1>7, <1>8, <1>9, <1>10, <1>11, <1>12, <1>13, <1>14, <1>15, <1>16, <1>17, <1>18, <1>19, <1>20, <1>21, <1>22, <1>23, <1>24, <1>25, <1>26, <1>27, <1>28, <1>29, <1>30 DEF ThreadStep, InCall, SlowPath

(* The two-sided lock of thread_gil.c implements the abstract lock: it is  *)
(* taken when free, and when it was offered only by a registered thread.   *)
THEOREM GilImplementsLock == Spec => ImplementsLock
<1>1. Init => Lock!LockInit
  BY ThreadAssumption DEF Init, Lock!LockInit, Holder
<1>2. IInv /\ IInv' /\ [Next]_vars => [Lock!LockNext]_(Lock!lockVars)
  <2> SUFFICES ASSUME IInv, IInv', [Next]_vars
               PROVE  [Lock!LockNext]_(Lock!lockVars)
    OBVIOUS
  <2>1. ASSUME NEW t \in Thread, ThreadStep(t)
        PROVE  [Lock!LockNext]_(Lock!lockVars)
    BY <2>1, StepRefines
  <2>2. CASE UNCHANGED vars
    BY <2>2, Invisible DEF vars
  <2> QED
    BY <2>1, <2>2 DEF Next
<1> QED
  BY <1>1, <1>2, Invariance, PTL DEF Spec, ImplementsLock, Lock!LockSpec
=============================================================================
