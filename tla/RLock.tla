------------------------------- MODULE RLock -------------------------------
(***************************************************************************)
(* _thread.RLock (pypy/module/thread/os_lock.py) on top of the semaphore   *)
(* of rpython/translator/c/src/thread_pthread.c.  The fields rlock_count   *)
(* and rlock_owner are protected by the interpreter lock, the semaphore is *)
(* not: a blocking acquire releases the interpreter lock around sem_wait() *)
(* and records the owner only after it has it back.  A signal interrupts   *)
(* the wait; its Python handler runs inside the acquire, and may use the   *)
(* same lock.                                                              *)
(***************************************************************************)
EXTENDS Integers, Sequences

CONSTANTS
    Thread,
    NoThread,
    MaxCount,       \* bound: recursion depth (maxint in the code)
    MaxTime,        \* bound: the longest timeout, in microseconds
    MaxSignals,     \* bound: waits interrupted by a signal
    MaxForks,       \* bound: forks
    ForkInHandlers  \* a handler that interrupted an acquire may fork

ASSUME RLockAssumption ==
    /\ NoThread \notin Thread
    /\ MaxCount \in Nat \ {0} /\ MaxTime \in Nat /\ MaxSignals \in Nat
    /\ MaxForks \in Nat
    /\ ForkInHandlers \in BOOLEAN

Generation == 0..MaxForks       \* self.lock is replaced in a forked child
Microseconds == -1..MaxTime     \* -1 is no timeout

VARIABLES
    gil,            \* the holder of the interpreter lock
    sem,            \* the value of the semaphore of each generation
    lock,           \* the generation self.lock refers to
    rlock_count, rlock_owner,
    pc,             \* where each thread is
    call,           \* the arguments of each thread's pending acquire_timed
    frames,         \* the calls of acquire_timed that wait for a handler
    saved,          \* the count each thread got from release_save_w
    signals         \* how many waits may still be interrupted

fields == <<rlock_count, rlock_owner>>
stack == <<call, frames>>
vars == <<gil, sem, lock, fields, pc, stack, saved, signals>>

(* "run": Python code.  "wait": in sem_wait() without the interpreter      *)
(* lock.  "acquired", "failed", "intr": sem_wait() returned, the           *)
(* interpreter lock is not yet back.  "rwait", "racquired": the same in    *)
(* acquire_restore_w.  "release", "post": in RPyThreadReleaseLock, before  *)
(* and after sem_getvalue().  "gone": no such thread.                      *)
Points == {"run", "wait", "acquired", "failed", "intr", "rwait", "racquired",
           "release", "post", "gone"}

Call == [us : Microseconds, lock : Generation]
NoCall == [us |-> -1, lock |-> 0]

TypeOK ==
    /\ gil \in Thread \cup {NoThread}
    /\ sem \in [Generation -> {0, 1}]
    /\ lock \in Generation
    /\ rlock_count \in 0..MaxCount
    /\ rlock_owner \in Thread \cup {NoThread}
    /\ pc \in [Thread -> Points]
    /\ call \in [Thread -> Call]
    /\ frames \in [Thread -> Seq(Call)]
    /\ saved \in [Thread -> 0..MaxCount]
    /\ signals \in 0..MaxSignals

Init ==
    /\ gil = NoThread
    /\ sem = [g \in Generation |-> 1]
    /\ lock = 0
    /\ rlock_count = 0 /\ rlock_owner = NoThread
    /\ pc = [t \in Thread |-> "run"]
    /\ call = [t \in Thread |-> NoCall]
    /\ frames = [t \in Thread |-> << >>]
    /\ saved = [t \in Thread |-> 0]
    /\ signals = MaxSignals

Goto(t, point) == pc' = [pc EXCEPT ![t] = point]
Runs(t) == gil = t /\ pc[t] = "run"
Owned == rlock_count > 0

(* W_RLock's two fields. *)
Record(t, n) == rlock_owner' = t /\ rlock_count' = n
Free == rlock_owner' = NoThread /\ rlock_count' = 0

----------------------------------------------------------------------------
(* Python code takes and releases the interpreter lock.                    *)

GilAcquire(t) ==
    /\ gil = NoThread /\ pc[t] = "run"
    /\ gil' = t
    /\ UNCHANGED <<sem, lock, fields, pc, stack, saved, signals>>

GilRelease(t) ==
    /\ Runs(t)
    /\ gil' = NoThread
    /\ UNCHANGED <<sem, lock, fields, pc, stack, saved, signals>>

(* A call that released the interpreter lock ends when it has it again.    *)
CallReturns(t, point) ==
    /\ pc[t] = point /\ Goto(t, "run")
    /\ gil = NoThread /\ gil' = t
    /\ call' = [call EXCEPT ![t] = NoCall]

----------------------------------------------------------------------------
(* The semaphore. *)

SemTake(g) == sem[g] > 0 /\ sem' = [sem EXCEPT ![g] = @ - 1]

SemWaitReturns(t) ==
    /\ \/ pc[t] = "wait" /\ Goto(t, "acquired")
       \/ pc[t] = "rwait" /\ Goto(t, "racquired")
    /\ SemTake(call[t].lock)
    /\ UNCHANGED <<gil, lock, fields, stack, saved, signals>>

(* ETIMEDOUT of sem_timedwait(), or EAGAIN of sem_trywait().               *)
SemFails(t) ==
    /\ pc[t] = "wait"
    /\ \/ call[t].us > 0
       \/ call[t].us = 0 /\ sem[call[t].lock] = 0
    /\ Goto(t, "failed")
    /\ UNCHANGED <<gil, sem, lock, fields, stack, saved, signals>>

(* EINTR, which acquire_timed asks for.  acquire_restore_w does not: its   *)
(* wait starts again inside RPyThreadAcquireLockTimed.                     *)
InterruptedAfterSuccess(t) ==
    /\ pc[t] \in {"wait", "acquired"} /\ call[t].us # 0
    /\ signals > 0 /\ signals' = signals - 1
    /\ Goto(t, "intr")
    /\ UNCHANGED <<gil, sem, lock, fields, stack, saved>>

SemInterrupted(t) ==
    /\ pc[t] = "wait" /\ call[t].us # 0
    /\ signals > 0 /\ signals' = signals - 1
    /\ Goto(t, "intr")
    /\ UNCHANGED <<gil, sem, lock, fields, stack, saved>>

(* RPyThreadReleaseLock, with the interpreter lock: the caller gets an     *)
(* error if the value is not 0.                                            *)
SemGetValue(t) ==
    /\ pc[t] = "release" /\ gil = t
    /\ Goto(t, IF sem[lock] > 0 THEN "run" ELSE "post")
    /\ UNCHANGED <<gil, sem, lock, fields, stack, saved, signals>>

SemPost(t) ==
    /\ pc[t] = "post" /\ gil = t
    /\ sem' = [sem EXCEPT ![lock] = @ + 1]
    /\ Goto(t, "run")
    /\ UNCHANGED <<gil, lock, fields, stack, saved, signals>>

----------------------------------------------------------------------------
(* acquire_w.  A non-blocking call that cannot have the lock, and a        *)
(* counter overflow, change nothing.                                       *)

AcquireAgain(t) ==
    /\ Runs(t) /\ Owned /\ rlock_owner = t
    /\ rlock_count < MaxCount
    /\ rlock_count' = rlock_count + 1
    /\ UNCHANGED <<gil, sem, lock, rlock_owner, pc, stack, saved, signals>>

AcquireFree(t) ==
    /\ Runs(t) /\ ~Owned
    /\ SemTake(lock)
    /\ Record(t, 1)
    /\ UNCHANGED <<gil, lock, pc, stack, saved, signals>>

AcquireBlocks(t) ==
    /\ Runs(t)
    /\ ~(Owned /\ rlock_owner = t)
    /\ Owned \/ sem[lock] = 0
    /\ \E us \in Microseconds : call' = [call EXCEPT ![t] = [us |-> us, lock |-> lock]]
    /\ Goto(t, "wait")
    /\ gil' = NoThread
    /\ UNCHANGED <<sem, lock, fields, frames, saved, signals>>

(* The assert before the assignments is the property AssertsHold.          *)
AcquireRecords(t) ==
    /\ CallReturns(t, "acquired")
    /\ Record(t, 1)
    /\ UNCHANGED <<sem, lock, frames, saved, signals>>

AcquireFails(t) ==
    /\ CallReturns(t, "failed")
    /\ UNCHANGED <<sem, lock, fields, frames, saved, signals>>

(* acquire_timed calls checksignals(): a handler starts.                   *)
HandlerStarts(t) ==
    /\ CallReturns(t, "intr")
    /\ frames' = [frames EXCEPT ![t] = <<call[t]>> \o @]
    /\ UNCHANGED <<sem, lock, fields, saved, signals>>

PopFrame(t) == frames' = [frames EXCEPT ![t] = Tail(@)]

HandlerRaises(t) ==
    /\ Runs(t) /\ frames[t] # << >>
    /\ PopFrame(t)
    /\ UNCHANGED <<gil, sem, lock, fields, pc, call, saved, signals>>

(* The time left when the handler returns; -1 stands for every negative    *)
(* number.                                                                 *)
Remaining(us) == IF us >= 0 THEN -1..us ELSE {us}
ExpiredAtZeroOnly(us, left) == us >= 0 /\ left = 0
Expired(us, left) == us >= 0 /\ left <= 0

(* A handler gives back what it took of the lock.                          *)
HandlerReturns(t) ==
    /\ Runs(t) /\ frames[t] # << >>
    /\ rlock_owner # t
    /\ PopFrame(t)
    /\ LET c == Head(frames[t]) IN
       \E left \in Remaining(c.us) :
          \/ Expired(c.us, left) /\ UNCHANGED <<gil, pc, call>>
          \/ /\ ~Expired(c.us, left)
             /\ call' = [call EXCEPT ![t] = [c EXCEPT !.us = left]]
             /\ Goto(t, "wait")
             /\ gil' = NoThread
    /\ UNCHANGED <<sem, lock, fields, saved, signals>>

----------------------------------------------------------------------------
(* release_w; a thread that is not the owner gets an error. *)
release_w(t) ==
    /\ Runs(t) /\ Owned /\ rlock_owner = t
    /\ IF rlock_count = 1 THEN Free /\ Goto(t, "release")
                          ELSE Record(t, rlock_count - 1) /\ UNCHANGED pc
    /\ UNCHANGED <<gil, sem, lock, stack, saved, signals>>

(* threading.Condition.wait() calls release_save_w after _is_owned(), and  *)
(* acquire_restore_w in the end.                                           *)
SaveKeepsCount(t) ==
    /\ Runs(t) /\ Owned /\ rlock_owner = t
    /\ saved[t] = 0 /\ frames[t] = << >>
    /\ saved' = [saved EXCEPT ![t] = rlock_count]
    /\ rlock_owner' = NoThread /\ UNCHANGED rlock_count
    /\ Goto(t, "release")
    /\ UNCHANGED <<gil, sem, lock, stack, signals>>

release_save_w(t) ==
    /\ Runs(t) /\ Owned /\ rlock_owner = t
    /\ saved[t] = 0 /\ frames[t] = << >>
    /\ saved' = [saved EXCEPT ![t] = rlock_count]
    /\ Free
    /\ Goto(t, "release")
    /\ UNCHANGED <<gil, sem, lock, stack, signals>>

RestoreOneLevel(t) == Record(t, 1) /\ saved' = [saved EXCEPT ![t] = 0]
Restore(t) == Record(t, saved[t]) /\ saved' = [saved EXCEPT ![t] = 0]
CanRestore(t) == Runs(t) /\ saved[t] > 0 /\ frames[t] = << >> /\ rlock_owner # t

RestoreFree(t) ==
    /\ CanRestore(t)
    /\ SemTake(lock)
    /\ Restore(t)
    /\ UNCHANGED <<gil, lock, pc, stack, signals>>

RestoreBlocks(t) ==
    /\ CanRestore(t) /\ sem[lock] = 0
    /\ call' = [call EXCEPT ![t] = [us |-> -1, lock |-> lock]]
    /\ Goto(t, "rwait")
    /\ gil' = NoThread
    /\ UNCHANGED <<sem, lock, fields, frames, saved, signals>>

RestoreRecords(t) ==
    /\ CallReturns(t, "racquired")
    /\ Restore(t)
    /\ UNCHANGED <<sem, lock, frames, signals>>

----------------------------------------------------------------------------
(* The child of a fork: only t exists, and the hooks that threading and    *)
(* logging register there reinitialise the lock.                           *)
descr_at_fork_reinit(t) ==
    /\ Runs(t)
    /\ ForkInHandlers \/ frames[t] = << >>
    /\ lock < MaxForks /\ lock' = lock + 1
    /\ Free
    /\ pc' = [u \in Thread |-> IF u = t THEN "run" ELSE "gone"]
    /\ call' = [u \in Thread |-> NoCall]
    /\ frames' = [u \in Thread |-> IF u = t THEN frames[t] ELSE << >>]
    /\ saved' = [u \in Thread |-> IF u = t THEN saved[t] ELSE 0]
    /\ UNCHANGED <<gil, sem, signals>>

ThreadStarts(t) ==
    /\ pc[t] = "gone" /\ Goto(t, "run")
    /\ UNCHANGED <<gil, sem, lock, fields, stack, saved, signals>>

----------------------------------------------------------------------------
Next == \E t \in Thread :
    \/ GilAcquire(t) \/ GilRelease(t)
    \/ SemWaitReturns(t) \/ SemFails(t) \/ SemInterrupted(t)
    \/ SemGetValue(t) \/ SemPost(t)
    \/ AcquireAgain(t) \/ AcquireFree(t) \/ AcquireBlocks(t)
    \/ AcquireRecords(t) \/ AcquireFails(t)
    \/ HandlerStarts(t) \/ HandlerRaises(t) \/ HandlerReturns(t)
    \/ release_w(t) \/ release_save_w(t)
    \/ RestoreFree(t) \/ RestoreBlocks(t) \/ RestoreRecords(t)
    \/ descr_at_fork_reinit(t) \/ ThreadStarts(t)

Spec == Init /\ [][Next]_vars

(* A holder of the interpreter lock gives it up (GILReleaseAction), and    *)
(* whoever waits for it gets it (Gil!AcquireReturns).  The clock reaches   *)
(* every deadline.  A call in progress goes on.  Nothing is assumed of the *)
(* program: an owner may keep the lock for ever.                           *)
Reacquires(t) ==
    \/ GilAcquire(t) \/ AcquireRecords(t) \/ AcquireFails(t)
    \/ HandlerStarts(t) \/ RestoreRecords(t)

InSemaphoreCall(t) ==
    SemFails(t) \/ SemWaitReturns(t) \/ SemGetValue(t) \/ SemPost(t)

Fairness == \A t \in Thread :
    SF_vars(GilRelease(t)) /\ SF_vars(Reacquires(t)) /\ WF_vars(InSemaphoreCall(t))

LiveSpec == Spec /\ Fairness

----------------------------------------------------------------------------
(* The assert of acquire_w and of acquire_restore_w: a thread that comes   *)
(* back from the semaphore finds rlock_count = 0.  It is evaluated in the  *)
(* step that gets the interpreter lock.                                    *)
AssertsHold ==
    \A t \in Thread :
        pc[t] \in {"acquired", "racquired"} /\ gil = NoThread => rlock_count = 0

(* The threads that took the semaphore and have not posted it: on the way  *)
(* to record it, as the owner, or on the way to release it.                *)
Takers ==
    {t \in Thread : pc[t] \in {"acquired", "racquired", "release", "post"}}
      \cup {t \in Thread : Owned /\ rlock_owner = t}

(* No call of acquire_w, acquire_restore_w, release_w or release_save_w,   *)
(* interrupted or not, loses the semaphore or duplicates it: it is taken   *)
(* exactly when one thread answers for it.                                 *)
SemaphoreAccounted ==
    /\ sem[lock] = 1 <=> Takers = {}
    /\ \A t, u \in Takers : t = u

(* Why SemaphoreAccounted is kept.  The count and the owner agree; the     *)
(* owner and the releaser are where only they can go on; pending calls use *)
(* the present semaphore; the semaphores of later children are new; and    *)
(* acquire_restore_w has something to restore.                             *)
CountOfOwner == Owned <=> rlock_owner # NoThread
OwnerRuns == \A t \in Thread : rlock_owner = t => pc[t] = "run"
ReleaserHasGil == \A t \in Thread : pc[t] \in {"release", "post"} => gil = t
CurrentCall == [us : Microseconds, lock : {lock}]
CallsAreCurrent == \A t \in Thread :
    /\ pc[t] \in {"wait", "acquired", "failed", "intr", "rwait", "racquired"} =>
          call[t] \in CurrentCall
    /\ frames[t] \in Seq(CurrentCall)
LaterSemaphoresFree == \A g \in Generation : g > lock => sem[g] = 1
RestoresSomething == \A t \in Thread :
    pc[t] \in {"rwait", "racquired"} => saved[t] > 0

(* The inductive invariant, when no handler forks.                         *)
IInv ==
    /\ TypeOK
    /\ SemaphoreAccounted
    /\ CountOfOwner
    /\ OwnerRuns
    /\ ReleaserHasGil
    /\ CallsAreCurrent
    /\ LaterSemaphoresFree
    /\ RestoresSomething

(* W_RLock implements the abstract reentrant lock. *)
Abstract == INSTANCE ReentrantLock
                WITH owner <- rlock_owner, count <- rlock_count, parked <- saved
ImplementsRLock == Abstract!RLockSpec

(* An acquire with a timeout returns, even when the owner never releases   *)
(* the lock and signal handlers run past the deadline, unless a handler    *)
(* itself does not return.                                                 *)
TimedAcquireReturns ==
    \A t \in Thread :
        (pc[t] = "wait" /\ call[t].us >= 0 /\ frames[t] = << >>) ~>
            \/ pc[t] \in {"run", "gone"} /\ frames[t] = << >>
            \/ [](frames[t] # << >>)
=============================================================================
