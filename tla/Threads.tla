------------------------------ MODULE Threads ------------------------------
(***************************************************************************)
(* The life of Python threads: start_new_thread and the bootstrapper       *)
(* (pypy/module/thread/os_thread.py), the execution contexts               *)
(* (threadlocals.py), the sentinel lock that tells joiners that a thread   *)
(* has ended (os_local.py) and what a forked child does with all of them.  *)
(*                                                                         *)
(* A thread is its ident, which the system gives to a later thread when    *)
(* the first one has ended.  Everything but the wait for bootstrapper.lock *)
(* and the system call that creates a thread is done with the interpreter  *)
(* lock.                                                                   *)
(***************************************************************************)
EXTENDS Integers, FiniteSets

CONSTANTS
    Thread,
    Main,           \* the thread the process starts with
    NoThread,
    Job,            \* the callables given to start_new_thread, each once
    NoJob,
    MaxForks,       \* bound: forks
    ThreadsInHooks  \* callbacks given to os.register_at_fork start threads

ASSUME ThreadsAssumption ==
    /\ Main \in Thread /\ NoThread \notin Thread /\ NoJob \notin Job
    /\ MaxForks \in Nat
    /\ ThreadsInHooks \in BOOLEAN

VARIABLES
    gil,                \* the holder of the interpreter lock
    pc,                 \* where each thread is
    booted,             \* the threads that run inside bootstrap()
    lock,               \* bootstrapper.lock: "None", "free" or "held"
    w_callable,         \* bootstrapper.w_callable, with args
    nbthreads,
    job,                \* what each thread is starting
    jobs,               \* history: what became of each job
    valuedict,          \* the idents in threadlocals._valuedict
    contexts,           \* the threads whose raw_thread_local has a value
    mainthreadident,
    signals_enabled,    \* the field of each execution context
    sentinel,           \* the sentinel lock of each thread, or of the last
                        \* thread with that ident, and who holds it
    finalizing,         \* space.sys.finalizing
    abandoned,          \* history: the idents whose last thread ended without
                        \* leave_thread()
    forks,
    hooks               \* the runs of the child hooks that the main thread is
                        \* in, nested, before thread.reinit_threads

bootstrapper == <<lock, w_callable, nbthreads>>
threadlocals == <<valuedict, contexts, mainthreadident, signals_enabled>>
history == <<jobs, abandoned>>
forking == <<forks, hooks>>
vars == <<gil, pc, booted, bootstrapper, job, history, threadlocals, sentinel, finalizing, forking>>

(* "none": no thread has this ident.  "run": Python code.  "wait": in      *)
(* bootstrapper.lock.acquire(), "locked": it has returned.  "creating": in *)
(* RPyThreadStart(), "created", "failed": it has returned.  "born": the    *)
(* new thread, before its callback has the interpreter lock.               *)
Points == {"none", "run", "wait", "locked", "creating", "created", "failed", "born"}

TypeOK ==
    /\ gil \in Thread \cup {NoThread}
    /\ pc \in [Thread -> Points]
    /\ booted \subseteq Thread
    /\ lock \in {"None", "free", "held"}
    /\ w_callable \in Job \cup {NoJob}
    /\ nbthreads \in Int
    /\ job \in [Thread -> Job \cup {NoJob}]
    /\ jobs \in [Job -> {"new", "given", "running", "failed"}]
    /\ valuedict \subseteq Thread /\ contexts \subseteq Thread
    /\ mainthreadident \in Thread
    /\ signals_enabled \in [Thread -> 0..1]
    /\ sentinel \in [Thread -> {"None", "free", "self", "other"}]
    /\ finalizing \in BOOLEAN /\ abandoned \subseteq Thread
    /\ forks \in 0..MaxForks /\ hooks \in 0..MaxForks

(* The main thread has an execution context. *)
Init ==
    /\ gil = Main
    /\ pc = [t \in Thread |-> IF t = Main THEN "run" ELSE "none"]
    /\ booted = {}
    /\ lock = "None" /\ w_callable = NoJob /\ nbthreads = 0
    /\ job = [t \in Thread |-> NoJob]
    /\ jobs = [j \in Job |-> "new"]
    /\ valuedict = {Main} /\ contexts = {Main} /\ mainthreadident = Main
    /\ signals_enabled = [t \in Thread |-> IF t = Main THEN 1 ELSE 0]
    /\ sentinel = [t \in Thread |-> "None"]
    /\ finalizing = FALSE /\ abandoned = {}
    /\ forks = 0 /\ hooks = 0

Goto(t, point) == pc' = [pc EXCEPT ![t] = point]
Runs(t) == gil = t /\ pc[t] = "run"
InHooks(t) == t = mainthreadident /\ hooks > 0
CallReturns(t, point) == pc[t] = point /\ gil = NoThread /\ gil' = t /\ Goto(t, "run")
Outcome(j, what) == jobs' = [jobs EXCEPT ![j] = what]

----------------------------------------------------------------------------
GilAcquire(t) ==
    /\ pc[t] = "run" /\ gil = NoThread
    /\ gil' = t
    /\ UNCHANGED <<pc, booted, bootstrapper, job, history, threadlocals, sentinel, finalizing, forking>>

GilRelease(t) ==
    /\ Runs(t)
    /\ gil' = NoThread
    /\ UNCHANGED <<pc, booted, bootstrapper, job, history, threadlocals, sentinel, finalizing, forking>>

----------------------------------------------------------------------------
(* start_new_thread: after the check of sys.finalizing and                 *)
(* bootstrapper.setup(), the wait for bootstrapper.lock releases the       *)
(* interpreter lock.                                                       *)
start_new_thread(t) ==
    /\ Runs(t)
    /\ ~finalizing
    /\ InHooks(t) => ThreadsInHooks
    /\ \E j \in Job :
          /\ jobs[j] = "new"
          /\ job' = [job EXCEPT ![t] = j]
          /\ Outcome(j, "given")
    /\ lock' = IF lock = "None" THEN "free" ELSE lock
    /\ Goto(t, "wait")
    /\ gil' = NoThread
    /\ UNCHANGED <<booted, w_callable, nbthreads, abandoned, threadlocals,
                   sentinel, finalizing, forking>>

AcquiredTwice(t) ==
    /\ pc[t] = "wait" /\ lock' = "held"
    /\ Goto(t, "locked")
    /\ UNCHANGED <<gil, booted, w_callable, nbthreads, job, history, threadlocals,
                   sentinel, finalizing, forking>>

LockAcquired(t) ==
    /\ pc[t] = "wait" /\ lock = "free"
    /\ lock' = "held"
    /\ Goto(t, "locked")
    /\ UNCHANGED <<gil, booted, w_callable, nbthreads, job, history, threadlocals,
                   sentinel, finalizing, forking>>

(* bootstrapper.acquire() stores the start-up data; RPyThreadStart()       *)
(* releases the interpreter lock again.                                    *)
StoreStartupData(t) ==
    /\ pc[t] = "locked" /\ gil = NoThread
    /\ w_callable' = job[t]
    /\ Goto(t, "creating")
    /\ UNCHANGED <<gil, booted, lock, nbthreads, job, history, threadlocals,
                   sentinel, finalizing, forking>>

ThreadCreated(t) ==
    /\ pc[t] = "creating"
    /\ \E u \in Thread :
          /\ pc[u] = "none"
          /\ pc' = [pc EXCEPT ![t] = "created", ![u] = "born"]
          /\ job' = [job EXCEPT ![t] = NoJob]
    /\ UNCHANGED <<gil, booted, bootstrapper, history, threadlocals,
                   sentinel, finalizing, forking>>

CreateFails(t) ==
    /\ pc[t] = "creating"
    /\ Goto(t, "failed")
    /\ UNCHANGED <<gil, booted, bootstrapper, job, history, threadlocals,
                   sentinel, finalizing, forking>>

StartReturns(t) ==
    /\ CallReturns(t, "created")
    /\ UNCHANGED <<booted, bootstrapper, job, history, threadlocals, sentinel, finalizing, forking>>

(* bootstrapper.release(), which raises or crashes with any other lock.    *)
release == lock = "held" /\ lock' = "free" /\ w_callable' = NoJob

RaisesWithLock(t) ==
    /\ CallReturns(t, "failed")
    /\ w_callable' = NoJob /\ UNCHANGED lock
    /\ job' = [job EXCEPT ![t] = NoJob]
    /\ Outcome(job[t], "failed")
    /\ UNCHANGED <<booted, nbthreads, abandoned, threadlocals, sentinel, finalizing, forking>>

StartRaises(t) ==
    /\ CallReturns(t, "failed")
    /\ release
    /\ job' = [job EXCEPT ![t] = NoJob]
    /\ Outcome(job[t], "failed")
    /\ UNCHANGED <<booted, nbthreads, abandoned, threadlocals, sentinel, finalizing, forking>>

----------------------------------------------------------------------------
(* enter_thread, by way of _set_ec, with a new execution context. *)
EnabledInEveryThread(t) == 1
EnabledAtStart(t) == IF t = mainthreadident THEN 1 ELSE 0

enter_thread(t) ==
    /\ contexts' = contexts \cup {t}
    /\ valuedict' = valuedict \cup {t}
    /\ signals_enabled' = [signals_enabled EXCEPT ![t] = EnabledAtStart(t)]
    /\ sentinel' = [sentinel EXCEPT ![t] = "None"]
    /\ abandoned' = abandoned \ {t}
    /\ UNCHANGED mainthreadident

CallableRuns == jobs' = [j \in Job |-> IF j = w_callable THEN "running" ELSE jobs[j]]

bootstrap(t) ==
    /\ CallReturns(t, "born")
    /\ CallableRuns
    /\ booted' = booted \cup {t}
    /\ nbthreads' = nbthreads + 1
    /\ release
    /\ enter_thread(t)
    /\ UNCHANGED <<job, finalizing, forking>>

(* thread_is_stopping: Lock.is_acquired() takes a free lock and leaves it  *)
(* taken.                                                                  *)
is_acquired(s) == IF s = "free" THEN "self" ELSE s

Stopped(s) ==
    CASE s = "None" -> "None"
      [] s = "free" -> is_acquired(s)
      [] OTHER      -> "free"

(* threadlocals.leave_thread *)
LeaveKeepsEntry(t) ==
    /\ sentinel' = [sentinel EXCEPT ![t] = Stopped(@)]
    /\ contexts' = contexts \ {t}
    /\ signals_enabled' = [signals_enabled EXCEPT ![t] = 0]
    /\ UNCHANGED <<valuedict, mainthreadident, abandoned>>

leave_thread(t) ==
    /\ sentinel' = [sentinel EXCEPT ![t] = Stopped(@)]
    /\ contexts' = contexts \ {t}
    /\ valuedict' = valuedict \ {t}
    /\ signals_enabled' = [signals_enabled EXCEPT ![t] = 0]
    /\ UNCHANGED <<mainthreadident, abandoned>>

(* The "except Exception" of bootstrap(): anything but an OperationError   *)
(* out of run(), such as a MemoryError, skips leave_thread().  The         *)
(* thread-local value goes with the thread, its entry and its sentinel     *)
(* lock stay as they are.                                                  *)
skip_leave_thread(t) ==
    /\ contexts' = contexts \ {t}
    /\ signals_enabled' = [signals_enabled EXCEPT ![t] = 0]
    /\ abandoned' = abandoned \cup {t}
    /\ UNCHANGED <<valuedict, mainthreadident, sentinel>>

(* The callable returns or raises; bootstrap() ends and the callback       *)
(* wrapper releases the interpreter lock.                                  *)
ThreadEnds(t) ==
    /\ Runs(t) /\ t \in booted /\ ~InHooks(t)
    /\ leave_thread(t) \/ skip_leave_thread(t)
    /\ nbthreads' = nbthreads - 1
    /\ booted' = booted \ {t}
    /\ Goto(t, "none")
    /\ gil' = NoThread
    /\ UNCHANGED <<lock, w_callable, job, jobs, finalizing, forking>>

----------------------------------------------------------------------------
(* threading.Thread._set_tstate_lock creates the sentinel lock of the      *)
(* running thread, then acquires it.  A joiner takes the lock when it is   *)
(* free, and gives it back; threading lets nobody join before the thread   *)
(* has acquired it.                                                        *)
SetSentinel(t, who, from, to) ==
    /\ Runs(who) /\ sentinel[t] = from
    /\ sentinel' = [sentinel EXCEPT ![t] = to]
    /\ UNCHANGED <<gil, pc, booted, bootstrapper, job, history, threadlocals,
                   finalizing, forking>>

_set_sentinel(t) == t \in booted /\ SetSentinel(t, t, "None", "free")
SentinelAcquire(t) == t \in booted /\ SetSentinel(t, t, "free", "self")
JoinerTakes(t) == pc[t] = "none" /\ \E u \in Thread : SetSentinel(t, u, "free", "other")
JoinerReleases(t) == \E u \in Thread : SetSentinel(t, u, "other", "free")

(* ObjSpace.finish, in the main thread. *)
finish(t) ==
    /\ Runs(t) /\ t \notin booted /\ ~InHooks(t)
    /\ finalizing' = TRUE
    /\ UNCHANGED <<gil, pc, booted, bootstrapper, job, history, threadlocals,
                   sentinel, forking>>

----------------------------------------------------------------------------
(* What reinit_threads makes of the field _signals_enabled of the current  *)
(* context.                                                                *)
reinit_enabled(enabled, ident, main) == IF ident # main THEN enabled + 1 ELSE enabled

(* threadlocals.reinit_threads, in the only thread of the child. *)
reinit_threads(t) ==
    /\ valuedict' = {t} /\ mainthreadident' = t /\ abandoned' = {}
    /\ signals_enabled' =
          [signals_enabled EXCEPT ![t] = reinit_enabled(@, t, mainthreadident)]

(* bootstrapper.reinit() *)
reinit == lock' = "None" /\ nbthreads' = 0 /\ w_callable' = NoJob

(* The model goes on in the child: nothing here changes in the parent.     *)
(* There reinit_threads empties _valuedict and the bootstrapper; the child *)
(* hooks that follow are _mark_thread_disappeared, which goes through the  *)
(* emptied _valuedict and marks nothing, and the callbacks given to        *)
(* os.register_at_fork.                                                    *)
Fork(t) ==
    /\ Runs(t) /\ ~finalizing
    /\ forks < MaxForks /\ forks' = forks + 1
    /\ pc' = [u \in Thread |-> IF u = t THEN "run" ELSE "none"]
    /\ booted' = booted \cap {t}
    /\ contexts' = {t}
    /\ reinit_threads(t) /\ reinit
    /\ job' = [u \in Thread |-> NoJob]
    /\ jobs' = [j \in Job |-> IF jobs[j] = "given" THEN "failed" ELSE jobs[j]]
    /\ hooks' = (IF InHooks(t) THEN hooks ELSE 0) + 1
    /\ sentinel' = [u \in Thread |-> IF u = t THEN sentinel[t] ELSE "None"]
    /\ UNCHANGED <<gil, finalizing>>

(* The last of the child hooks is thread.reinit_threads again. *)
HooksEnd(t) ==
    /\ Runs(t) /\ InHooks(t)
    /\ hooks' = hooks - 1
    /\ reinit_threads(t) /\ reinit
    /\ UNCHANGED <<gil, pc, booted, job, jobs, contexts, sentinel, finalizing,
                   forks>>

----------------------------------------------------------------------------
(* The last thread of a child has left: the process is over. *)
ProcessEnded == (\A t \in Thread : pc[t] = "none") /\ UNCHANGED vars

Next == ProcessEnded \/ \E t \in Thread :
    \/ GilAcquire(t) \/ GilRelease(t)
    \/ start_new_thread(t) \/ LockAcquired(t) \/ StoreStartupData(t)
    \/ ThreadCreated(t) \/ CreateFails(t) \/ StartReturns(t) \/ StartRaises(t)
    \/ bootstrap(t) \/ ThreadEnds(t)
    \/ _set_sentinel(t) \/ SentinelAcquire(t) \/ JoinerTakes(t) \/ JoinerReleases(t)
    \/ finish(t) \/ Fork(t) \/ HooksEnd(t)

Spec == Init /\ [][Next]_vars

(* A holder of the interpreter lock gives it up (GILReleaseAction) and     *)
(* whoever waits for it gets it (Gil!AcquireReturns); RPyThreadStart()     *)
(* returns.                                                                *)
Reacquires(t) ==
    GilAcquire(t) \/ StoreStartupData(t) \/ StartReturns(t) \/ StartRaises(t) \/ bootstrap(t)

Fairness == \A t \in Thread :
    /\ SF_vars(GilRelease(t)) /\ SF_vars(Reacquires(t))
    /\ WF_vars(ThreadCreated(t) \/ CreateFails(t))

LiveSpec == Spec /\ Fairness

----------------------------------------------------------------------------
(* bootstrapper.lock keeps two starting threads from messing with each     *)
(* other's start-up data: a new thread finds a callable, a callable that   *)
(* was given is neither overwritten nor run twice.                         *)
StartupDataKept ==
    /\ \A u \in Thread : pc[u] = "born" => w_callable \in Job
    /\ \A j \in Job :
          /\ jobs[j] = "given" =>
                \/ w_callable = j
                \/ \E t \in Thread : pc[t] \in {"wait", "locked"} /\ job[t] = j
          /\ jobs[j] = "running" => w_callable # j

(* The threads that can run Python code are those with an execution        *)
(* context, and getallvalues() lists all of them, also after idents were   *)
(* used again and in a forked child.  What it lists besides are contexts   *)
(* of threads that ended without leave_thread(), until their ident is used *)
(* again.                                                                  *)
ContextsRegistered ==
    /\ contexts = {t \in Thread : pc[t] \notin {"none", "born"}}
    /\ valuedict = contexts \cup abandoned
    /\ contexts \cap abandoned = {}

(* Signal handlers run in the main thread and nowhere else, in the child   *)
(* of a thread too.                                                        *)
SignalsInMainThread ==
    \A t \in contexts : signals_enabled[t] = IF t = mainthreadident THEN 1 ELSE 0

(* The docstring of _set_sentinel: the lock "will be released when the     *)
(* current thread state is finalized".                                     *)
SentinelReleased == \A t \in Thread : pc[t] = "none" => sentinel[t] # "self"

(* bootstrapper.lock does not stay locked. *)
BootstrapLockReleased == lock = "held" ~> lock # "held"

----------------------------------------------------------------------------
(* The inductive invariant.  Whoever is between the return of              *)
(* bootstrapper.lock.acquire() and bootstrapper.release(), the new thread  *)
(* included, holds the lock, and is alone with the start-up data; the main *)
(* thread of a child is alone until its hooks have run, unless they start  *)
(* threads.                                                                *)
Starting(t) == pc[t] \in {"locked", "creating", "failed", "born"}
HasJob(t) == pc[t] \in {"wait", "locked", "creating", "failed"}

HolderRuns == \A t \in Thread : gil = t => pc[t] = "run"
OneStarts == \A t, u \in Thread :
    Starting(t) => lock = "held" /\ (Starting(u) => t = u)
JobsDistinct == \A t, u \in Thread :
    HasJob(t) =>
      /\ job[t] \in Job /\ jobs[job[t]] = "given"
      /\ HasJob(u) /\ job[t] = job[u] => t = u
CallableStored ==
    /\ w_callable \in Job => jobs[w_callable] = "given"
    /\ w_callable \in Job => \E t \in Thread : pc[t] \in {"creating", "failed", "born"}
    /\ \A t \in Thread :
          /\ pc[t] \in {"creating", "failed"} => w_callable = job[t]
          /\ pc[t] \in {"wait", "locked"} => w_callable # job[t]

HooksAlone ==
    /\ hooks <= forks
    /\ hooks > 0 =>
          \A t \in Thread : pc[t] = IF t = mainthreadident THEN "run" ELSE "none"

IInv ==
    /\ TypeOK /\ HolderRuns /\ HooksAlone
    /\ OneStarts /\ JobsDistinct /\ CallableStored
    /\ StartupDataKept
    /\ ContextsRegistered /\ SignalsInMainThread
=============================================================================
