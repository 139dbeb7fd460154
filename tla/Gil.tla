-------------------------------- MODULE Gil --------------------------------
(***************************************************************************)
(* The global interpreter lock of a translated PyPy: thread_gil.c, its     *)
(* pthread primitives in thread_pthread.c and the inlined fast path in     *)
(* threadlocal.h.                                                          *)
(*                                                                         *)
(* The lock is spread over two places.  rpy_fastgil holds the identity of  *)
(* the holder, or 0; mutex_gil is a flag 'locked' guarded by a pthread     *)
(* mutex 'mut' and a condition variable.  A plain release clears           *)
(* rpy_fastgil and leaves mutex_gil locked, so that whoever compares-and-  *)
(* swaps first takes the lock; a yield unlocks mutex_gil and leaves        *)
(* rpy_fastgil set, so that only the thread at the head of the queue (the  *)
(* stealer) can take it.                                                   *)
(*                                                                         *)
(* A read of rpy_fastgil followed by a compare-and-swap is one step: a     *)
(* failed swap has the effect of having read a non-zero value.  Everything *)
(* else another thread can observe is a step of its own.                   *)
(***************************************************************************)
EXTENDS Integers, FiniteSets

CONSTANTS
    Thread,       \* the threads that may exist
    Main,         \* the thread that runs the entry point
    NoThread,     \* the value 0 of rpy_fastgil, and "unlocked" for a mutex
    POKE_MIN,     \* RPY_GIL_POKE_MIN, 40 in the code
    POKE_MAX      \* RPY_GIL_POKE_MAX, 400 in the code

ASSUME ThreadAssumption ==
    IsFiniteSet(Thread) /\ Main \in Thread /\ NoThread \notin Thread
ASSUME PokeAssumption ==
    POKE_MIN \in Nat \ {0} /\ POKE_MAX \in Nat /\ POKE_MIN < POKE_MAX

VARIABLES
    fastgil,      \* rpy_fastgil
    waiting,      \* rpy_waiting_threads
    early_poll_n, \* rpy_early_poll_n
    stealer,      \* owner of the pthread mutex mutex_gil_stealer
    locked,       \* mutex_gil.locked
    mut,          \* owner of the pthread mutex mutex_gil.mut
    pc,           \* where each thread is
    n,            \* the local n of RPyGilAcquireSlowPath
    old_waiting   \* the local old_waiting_threads

vars == <<fastgil, waiting, early_poll_n, stealer, locked, mut, pc, n,
          old_waiting>>

NotAllocated == -42

(***************************************************************************)
(* Program points.  A thread holds the lock at the points of HoldsGil; the *)
(* slow path registers it as waiting at the points of InSlowPath.          *)
(***************************************************************************)
NotRunning == {"new", "released", "acquire", "abort"}
YieldPoints == {"yield_lock", "yield_clear", "yield_signal"}
PollPoints == {"poll_read", "poll_store", "poll", "poll_swap",
               "poll_lock", "poll_clear", "poll_signal"}
MutexPoints == {"loop_start", "steal", "lock_timeout", "wait", "relock",
                "woken", "claim", "decrement", "loop_stop", "unlock_stealer"}
Points == NotRunning \cup {"run", "slow", "lock_stealer"}
              \cup YieldPoints \cup PollPoints \cup MutexPoints

InSlowPath == PollPoints \cup {"lock_stealer"}
                  \cup (MutexPoints \ {"loop_stop", "unlock_stealer"})
HoldsStealer == MutexPoints
HoldsMut == {"yield_clear", "poll_clear", "steal", "lock_timeout", "woken",
             "claim", "decrement", "loop_stop"}
HoldsGil == {"run", "yield_lock", "yield_clear", "poll_lock", "poll_clear",
             "claim", "decrement", "loop_stop", "unlock_stealer"}

Init ==
    /\ fastgil = NoThread
    /\ waiting = NotAllocated
    /\ early_poll_n = 0
    /\ stealer = NoThread
    /\ locked = TRUE
    /\ mut = NoThread
    /\ pc = [t \in Thread |-> IF t = Main THEN "acquire" ELSE "new"]
    /\ n = [t \in Thread |-> 0]
    /\ old_waiting = [t \in Thread |-> 0]

Locals == <<n, old_waiting>>

Goto(t, from, to) == pc[t] = from /\ pc' = [pc EXCEPT ![t] = to]

(* A step that changes nothing but where the thread is.                    *)
Moves(t, from, to) ==
    /\ Goto(t, from, to)
    /\ UNCHANGED <<fastgil, waiting, early_poll_n, stealer, locked, mut, Locals>>

(* A release store instead of a compare-and-swap.                          *)
SwapWithoutCompare(t, from, to) ==
    /\ fastgil' = t
    /\ Goto(t, from, to)
    /\ UNCHANGED <<waiting, early_poll_n, stealer, locked, mut, Locals>>

(* _rpygil_acquire_fast_path: the compare-and-swap of rpy_fastgil.         *)
SwapSucceeds(t, from, to) ==
    /\ fastgil = NoThread
    /\ fastgil' = t
    /\ Goto(t, from, to)
    /\ UNCHANGED <<waiting, early_poll_n, stealer, locked, mut, Locals>>

SwapFails(t, from, to) == fastgil # NoThread /\ Moves(t, from, to)

(* pthread_mutex_lock(&mutex_gil.mut)                                      *)
LocksMut(t, from, to) ==
    /\ mut = NoThread
    /\ mut' = t
    /\ Goto(t, from, to)
    /\ UNCHANGED <<fastgil, waiting, early_poll_n, stealer, locked, Locals>>

(* Reinitialisation that forgets the counter.                              *)
InitKeepsWaiting ==
    /\ stealer' = NoThread
    /\ locked' = TRUE
    /\ mut' = NoThread
    /\ waiting' = IF waiting < 0 THEN 0 ELSE waiting

(* rpy_init_mutexes: when the lock is allocated and in the child of a fork *)
rpy_init_mutexes ==
    /\ stealer' = NoThread
    /\ locked' = TRUE
    /\ mut' = NoThread
    /\ waiting' = 0

----------------------------------------------------------------------------
(* Threads come and go.  A thread not started by the interpreter may call  *)
(* back into it at any time, even before RPyGilAllocate.                   *)

ThreadAppears(t) == Moves(t, "new", "acquire")

ThreadExits(t) == Moves(t, "released", "new")

RPyGilAllocate(t) ==
    /\ pc[t] = "run"
    /\ waiting < 0
    /\ rpy_init_mutexes
    /\ UNCHANGED <<fastgil, early_poll_n, pc, Locals>>

(***************************************************************************)
(* fork() is called with the lock held.  The behaviour goes on in the      *)
(* child: only the forking thread exists there, and the handler that       *)
(* RPyGilAllocate registered with pthread_atfork runs.                     *)
(***************************************************************************)
Fork(t) ==
    /\ pc[t] = "run"
    /\ pc' = [s \in Thread |-> IF s = t THEN "run" ELSE "new"]
    /\ IF waiting >= 0 THEN rpy_init_mutexes
                       ELSE UNCHANGED <<stealer, locked, mut, waiting>>
    /\ UNCHANGED <<fastgil, early_poll_n, Locals>>

----------------------------------------------------------------------------
(* Acquire and release, the fast path.                                     *)

BeginAcquire(t) == Moves(t, "released", "acquire")

AcquireFastPath(t) == SwapSucceeds(t, "acquire", "run")

AcquireFails(t) == SwapFails(t, "acquire", "slow")

(* A release that also unlocks mutex_gil.                                  *)
ReleaseBothSides(t) ==
    /\ Goto(t, "run", "released")
    /\ fastgil' = NoThread
    /\ locked' = FALSE
    /\ UNCHANGED <<waiting, early_poll_n, stealer, mut, Locals>>

RPyGilRelease(t) ==
    /\ Goto(t, "run", "released")
    /\ fastgil' = NoThread
    /\ UNCHANGED <<waiting, early_poll_n, stealer, locked, mut, Locals>>

----------------------------------------------------------------------------
(* RPyGilAcquireSlowPath: register, then poll rpy_fastgil for a while.     *)

SlowPathAbort(t) == waiting < 0 /\ Moves(t, "slow", "abort")

RegisterWaiting(t) ==
    /\ waiting >= 0
    /\ Goto(t, "slow", "poll_read")
    /\ waiting' = waiting + 1
    /\ old_waiting' = [old_waiting EXCEPT ![t] = waiting + 1]
    /\ UNCHANGED <<fastgil, early_poll_n, stealer, locked, mut, n>>

(* "while (n >= POKE_MAX) n -= POKE_MAX - POKE_MIN": the value below       *)
(* POKE_MAX that is a whole number of subtractions away.                   *)
PollCount(m) ==
    LET k == 2 * m + 1
    IN IF k < POKE_MAX THEN k
       ELSE POKE_MIN + ((k - POKE_MIN) % (POKE_MAX - POKE_MIN))

(* rpy_early_poll_n is read and written without a lock.                    *)
PollRead(t) ==
    /\ Goto(t, "poll_read", "poll_store")
    /\ n' = [n EXCEPT ![t] = PollCount(early_poll_n)]
    /\ UNCHANGED <<fastgil, waiting, early_poll_n, stealer, locked, mut,
                   old_waiting>>

PollStore(t) ==
    /\ Goto(t, "poll_store", "poll")
    /\ early_poll_n' = n[t]
    /\ UNCHANGED <<fastgil, waiting, stealer, locked, mut, Locals>>

(* One iteration: stop when the count is used up or another thread entered *)
(* or left the slow path.                                                  *)
PollIterate(t) ==
    /\ n' = IF n[t] >= 0 THEN [n EXCEPT ![t] = @ - 1] ELSE n
    /\ Goto(t, "poll", IF n[t] >= 0 /\ old_waiting[t] = waiting
                         THEN "poll_swap" ELSE "lock_stealer")
    /\ UNCHANGED <<fastgil, waiting, early_poll_n, stealer, locked, mut,
                   old_waiting>>

PollTakes(t) == SwapSucceeds(t, "poll_swap", "poll_lock")

PollMisses(t) == SwapFails(t, "poll_swap", "poll")

----------------------------------------------------------------------------
(* mutex2_unlock(&mutex_gil), from the early poll and from a yield.        *)

(* An unlock that opens the lock to everybody instead of offering it.      *)
UnlockOpensFastgil(t, from, to) ==
    /\ fastgil' = NoThread
    /\ mut' = NoThread
    /\ Goto(t, from, to)
    /\ UNCHANGED <<locked, waiting, early_poll_n, stealer, Locals>>

Mutex2UnlockClear(t, from, to) ==
    /\ locked' = FALSE
    /\ mut' = NoThread
    /\ Goto(t, from, to)
    /\ UNCHANGED <<fastgil, waiting, early_poll_n, stealer, Locals>>

(* pthread_cond_signal: only the stealer can be waiting on the condition.  *)
Mutex2UnlockSignal(t, from, to) ==
    /\ pc[t] = from
    /\ pc' = [s \in Thread |-> CASE s = t -> to
                                 [] s # t /\ pc[s] = "wait" -> "relock"
                                 [] OTHER -> pc[s]]
    /\ UNCHANGED <<fastgil, waiting, early_poll_n, stealer, locked, mut, Locals>>

PollUnlocks(t) ==
    \/ LocksMut(t, "poll_lock", "poll_clear")
    \/ Mutex2UnlockClear(t, "poll_clear", "poll_signal")
    \/ Mutex2UnlockSignal(t, "poll_signal", "lock_stealer")

(* RPyGilYieldThread returns 0 at once when nobody waits; else it offers   *)
(* mutex_gil and queues up again through RPyGilAcquire.                    *)
RPyGilYieldThread(t) ==
    /\ pc[t] = "run"
    /\ Moves(t, "run", IF waiting <= 0 THEN "run" ELSE "yield_lock")

YieldUnlocks(t) ==
    \/ LocksMut(t, "yield_lock", "yield_clear")
    \/ Mutex2UnlockClear(t, "yield_clear", "yield_signal")
    \/ Mutex2UnlockSignal(t, "yield_signal", "acquire")

----------------------------------------------------------------------------
(* The stealer loop.                                                       *)

LockStealer(t) ==
    /\ stealer = NoThread
    /\ stealer' = t
    /\ Goto(t, "lock_stealer", "loop_start")
    /\ UNCHANGED <<fastgil, waiting, early_poll_n, locked, mut, Locals>>

Mutex2LoopStart(t) == LocksMut(t, "loop_start", "steal")

(* Point (8.A). *)
StealFastPath(t) == SwapSucceeds(t, "steal", "decrement")

StealMisses(t) == SwapFails(t, "steal", "lock_timeout")

(* mutex2_lock_timeout: sleep on the condition while mutex_gil is locked.  *)
(* The wait ends by a signal, by the timeout of 0.1 ms, or spuriously.     *)
LockTimeoutSleeps(t) ==
    /\ locked
    /\ mut' = NoThread
    /\ Goto(t, "lock_timeout", "wait")
    /\ UNCHANGED <<fastgil, waiting, early_poll_n, stealer, locked, Locals>>

TimedWaitExpires(t) == Moves(t, "wait", "relock")

TimedWaitRelocks(t) == LocksMut(t, "relock", "woken")

(* A timed lock that sleeps although mutex_gil is free, and does not look  *)
(* again when it wakes up: the offer of a yielding thread is lost.         *)
LockTimeoutForgets(t) ==
    /\ \/ Goto(t, "woken", "steal")
       \/ ~locked /\ Goto(t, "lock_timeout", "wait")
    /\ mut' = IF pc[t] = "woken" THEN mut ELSE NoThread
    /\ UNCHANGED <<fastgil, waiting, early_poll_n, stealer, locked, Locals>>

(* "result = !locked; locked = 1", after the sleep or without one.         *)
LockTimeoutResult(t) ==
    /\ \/ Goto(t, "woken", IF locked THEN "steal" ELSE "claim")
       \/ ~locked /\ Goto(t, "lock_timeout", "claim")
    /\ locked' = TRUE
    /\ UNCHANGED <<fastgil, waiting, early_poll_n, stealer, mut, Locals>>

(* Point (8.B): restore "rpy_fastgil is the holder".                       *)
StealClaims(t) ==
    /\ Goto(t, "claim", "decrement")
    /\ fastgil' = t
    /\ UNCHANGED <<waiting, early_poll_n, stealer, locked, mut, Locals>>

DecrementWaiting(t) ==
    /\ Goto(t, "decrement", "loop_stop")
    /\ waiting' = waiting - 1
    /\ UNCHANGED <<fastgil, early_poll_n, stealer, locked, mut, Locals>>

Mutex2LoopStop(t) ==
    /\ Goto(t, "loop_stop", "unlock_stealer")
    /\ mut' = NoThread
    /\ UNCHANGED <<fastgil, waiting, early_poll_n, stealer, locked, Locals>>

UnlockStealer(t) ==
    /\ Goto(t, "unlock_stealer", "run")
    /\ stealer' = NoThread
    /\ UNCHANGED <<fastgil, waiting, early_poll_n, locked, mut, Locals>>

----------------------------------------------------------------------------
SlowPath(t) ==
    \/ SlowPathAbort(t) \/ RegisterWaiting(t)
    \/ PollRead(t) \/ PollStore(t) \/ PollIterate(t)
    \/ PollTakes(t) \/ PollMisses(t) \/ PollUnlocks(t)
    \/ LockStealer(t) \/ Mutex2LoopStart(t)
    \/ StealFastPath(t) \/ StealMisses(t)
    \/ LockTimeoutSleeps(t) \/ TimedWaitExpires(t) \/ TimedWaitRelocks(t)
    \/ LockTimeoutResult(t) \/ StealClaims(t)
    \/ DecrementWaiting(t) \/ Mutex2LoopStop(t) \/ UnlockStealer(t)

(* The steps a thread takes once it has called an operation of the lock.   *)
InCall(t) == AcquireFastPath(t) \/ AcquireFails(t) \/ YieldUnlocks(t) \/ SlowPath(t)

Aborted == \E t \in Thread : pc[t] = "abort"

ThreadStep(t) ==
    \/ ThreadAppears(t) \/ ThreadExits(t) \/ RPyGilAllocate(t) \/ Fork(t)
    \/ BeginAcquire(t) \/ RPyGilRelease(t) \/ RPyGilYieldThread(t)
    \/ InCall(t)

(* abort() ends the process: nothing moves any more.                       *)
Next ==
    \/ ~Aborted /\ \E t \in Thread : ThreadStep(t)
    \/ Aborted /\ UNCHANGED vars

Spec == Init /\ [][Next]_vars

(***************************************************************************)
(* Fairness.  A thread inside a call keeps running.  A pthread mutex that  *)
(* is free again and again is eventually given to a thread that waits for  *)
(* it (the code: "assuming a roughly first-in-first-out order").  A thread *)
(* that runs again and again while others wait eventually yields: that is  *)
(* what GILReleaseAction does every sys.checkinterval bytecodes.           *)
(***************************************************************************)
Fairness ==
    \A t \in Thread :
        /\ WF_vars(~Aborted /\ InCall(t))
        /\ SF_vars(~Aborted /\ LockStealer(t))
        /\ SF_vars(~Aborted /\ (Mutex2LoopStart(t) \/ TimedWaitRelocks(t)
                     \/ LocksMut(t, "poll_lock", "poll_clear")
                     \/ LocksMut(t, "yield_lock", "yield_clear")))
        /\ SF_vars(~Aborted /\ RPyGilYieldThread(t))

FairSpec == Spec /\ Fairness
----------------------------------------------------------------------------
(* Every variable has its type; the poll counter stays below POKE_MAX.     *)
TypeOK ==
    /\ fastgil \in Thread \cup {NoThread}
    /\ waiting \in Nat \cup {NotAllocated}
    /\ early_poll_n \in 0..(POKE_MAX - 1)
    /\ stealer \in Thread \cup {NoThread}
    /\ locked \in BOOLEAN
    /\ mut \in Thread \cup {NoThread}
    /\ pc \in [Thread -> Points]
    /\ n \in [Thread -> -1..(POKE_MAX - 1)]
    /\ old_waiting \in [Thread -> Nat]

(* At most one thread is between the acquisition and the release of the    *)
(* lock, whichever of the four ways in it took: fast path, early poll,     *)
(* point (8.A) or point (8.B).                                             *)
MutualExclusion ==
    \A s, t \in Thread : pc[s] \in HoldsGil /\ pc[t] \in HoldsGil => s = t

(* thread_gil.c: "It should never be the case that both are unlocked at    *)
(* the same time": the lock is free in at most one of its two places.      *)
NeverBothUnlocked == locked \/ fastgil # NoThread

(* Point (3) of thread_gil.c and the asserts of the slow path: a holder    *)
(* finds its own identity in rpy_fastgil, except for the stealer that just *)
(* relocked mutex_gil, which must find it set.                             *)
HolderIsFastgil ==
    \A t \in Thread : pc[t] \in HoldsGil =>
        IF pc[t] = "claim" THEN fastgil # NoThread ELSE fastgil = t

(* rpy_waiting_threads counts the threads registered in the slow path,     *)
(* through every exit of it and across fork(): a count left too low makes  *)
(* RPyGilYieldThread ignore a waiting thread.                              *)
WaitingIsExact ==
    waiting = NotAllocated \/
        waiting = Cardinality({t \in Thread : pc[t] \in InSlowPath})

(* No thread waits for a pthread mutex that its owner can no longer unlock *)
(* because the owner is gone, which is what reinitialising the mutexes in  *)
(* the child of a fork is for.                                             *)
MutexOwnersAreInside ==
    /\ mut # NoThread => pc[mut] \in HoldsMut
    /\ stealer # NoThread => pc[stealer] \in HoldsStealer

(* A thread that has called RPyGilAcquire, or that yielded, gets the lock  *)
(* (or its process forks it away, or aborts) however often the others      *)
(* release and retake it on the fast path.                                 *)
AcquireReturns ==
    \A t \in Thread :
        pc[t] \in {"acquire", "slow"} \cup InSlowPath
            ~> pc[t] \in {"run", "new"} \/ Aborted

(***************************************************************************)
(* The abstract lock this implements.                                      *)
(***************************************************************************)
Holder == IF \E t \in Thread : pc[t] \in HoldsGil
            THEN CHOOSE t \in Thread : pc[t] \in HoldsGil
            ELSE NoThread

Lock == INSTANCE InterpreterLock
            WITH holder <- Holder,
                 offered <- ~locked,
                 queue <- {t \in Thread : pc[t] \in InSlowPath}

ImplementsLock == Lock!LockSpec
=============================================================================
