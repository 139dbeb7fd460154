----------------------------- MODULE ImportLock -----------------------------
(***************************************************************************)
(* The import lock (pypy/module/imp/importing.py, ImportRLock) and the     *)
(* fork hooks that take it before a fork, give it back in the parent and   *)
(* rebuild it in the child (imp/moduledef.py, posix/interp_posix.py).      *)
(* Everything but the wait for the low-level lock is done with the         *)
(* interpreter lock.  The callbacks of os.register_at_fork start no        *)
(* threads here: Threads is about those that do.                           *)
(***************************************************************************)
EXTENDS Integers, Sequences

CONSTANTS
    Thread,
    NoThread,
    MaxLevels,      \* bound: how deep a thread nests imports and forks
    MaxForks        \* bound: forks

ASSUME ImportLockAssumption ==
    NoThread \notin Thread /\ MaxLevels \in Nat \ {0} /\ MaxForks \in Nat

VARIABLES
    gil,            \* the holder of the interpreter lock
    pc,             \* "none", "run", "wait": in lock.acquire(), "locked": it has
                    \* returned and the interpreter lock has not
    wants,          \* what a thread waits for the lock for
    lock,           \* the low-level lock: "None", "free" or "held"
    lockowner,
    lockcounter,
    levels,         \* history: what each thread took the lock for, last first
    forks

fields == <<lock, lockowner, lockcounter>>
vars == <<gil, pc, wants, fields, levels, forks>>

(* "import": importhook() or importlib.  "fork": between the before hook   *)
(* and fork().  "parent", "child": fork() has returned and the callbacks   *)
(* of os.register_at_fork run, the hooks of imp come after them.           *)
Purpose == {"import", "fork", "parent", "child"}

TypeOK ==
    /\ gil \in Thread \cup {NoThread}
    /\ pc \in [Thread -> {"none", "run", "wait", "locked"}]
    /\ wants \in [Thread -> {"import", "fork"}]
    /\ lock \in {"None", "free", "held"}
    /\ lockowner \in Thread \cup {NoThread}
    /\ lockcounter \in 0..MaxLevels
    /\ levels \in [Thread -> Seq(Purpose)]
    /\ forks \in 0..MaxForks

Init ==
    /\ gil = NoThread
    /\ pc = [t \in Thread |-> "run"]
    /\ wants = [t \in Thread |-> "import"]
    /\ lock = "None" /\ lockowner = NoThread /\ lockcounter = 0
    /\ levels = [t \in Thread |-> << >>]
    /\ forks = 0

Goto(t, point) == pc' = [pc EXCEPT ![t] = point]
In(t, what) == levels[t] # << >> /\ Head(levels[t]) = what
Runs(t) == gil = t /\ pc[t] = "run" /\ ~In(t, "fork")
Push(t, what) == levels' = [levels EXCEPT ![t] = <<what>> \o @]
Pop(t) == levels' = [levels EXCEPT ![t] = Tail(@)]

----------------------------------------------------------------------------
GilAcquire(t) ==
    /\ pc[t] = "run" /\ gil = NoThread
    /\ gil' = t
    /\ UNCHANGED <<pc, wants, fields, levels, forks>>

GilRelease(t) ==
    /\ Runs(t)
    /\ gil' = NoThread
    /\ UNCHANGED <<pc, wants, fields, levels, forks>>

(* A thread of the child, started when the hooks have run. *)
ThreadStarts(t) ==
    /\ pc[t] = "none"
    /\ \A u \in Thread : ~In(u, "child")
    /\ Goto(t, "run")
    /\ UNCHANGED <<gil, wants, fields, levels, forks>>

----------------------------------------------------------------------------
(* acquire_lock, when the current thread owns the lock already. *)
AcquireAgain(t, what) ==
    /\ Runs(t) /\ lockowner = t
    /\ lockcounter < MaxLevels
    /\ lockcounter' = lockcounter + 1
    /\ Push(t, what)
    /\ UNCHANGED <<gil, pc, wants, lock, lockowner, forks>>

(* acquire_lock otherwise: the wait releases the interpreter lock. *)
AcquireWaits(t, what) ==
    /\ Runs(t) /\ lockowner # t
    /\ lock' = IF lock = "None" THEN "free" ELSE lock
    /\ wants' = [wants EXCEPT ![t] = what]
    /\ Goto(t, "wait")
    /\ gil' = NoThread
    /\ UNCHANGED <<lockowner, lockcounter, levels, forks>>

LockTaken(t) ==
    /\ pc[t] = "wait" /\ lock = "free"
    /\ lock' = "held"
    /\ Goto(t, "locked")
    /\ UNCHANGED <<gil, wants, lockowner, lockcounter, levels, forks>>

AcquireRecords(t) ==
    /\ pc[t] = "locked" /\ gil = NoThread
    /\ gil' = t
    /\ Goto(t, "run")
    /\ lockowner' = t /\ lockcounter' = lockcounter + 1
    /\ Push(t, wants[t])
    /\ UNCHANGED <<wants, lock, forks>>

(* release_lock; the calls by a thread that does not own the lock change   *)
(* nothing, whether they are silent or raise.                              *)
ReleaseKeepsLock(t) ==
    IF lockowner = t
      THEN /\ lockcounter' = lockcounter - 1
           /\ lockowner' = IF lockcounter = 1 THEN NoThread ELSE lockowner
           /\ UNCHANGED lock
      ELSE UNCHANGED fields

release_lock(t) ==
    IF lockowner = t
      THEN /\ lockcounter' = lockcounter - 1
           /\ lockowner' = IF lockcounter = 1 THEN NoThread ELSE lockowner
           /\ lock' = IF lockcounter = 1 THEN "free" ELSE lock
      ELSE UNCHANGED fields

ImportEnds(t) ==
    /\ Runs(t) /\ In(t, "import")
    /\ release_lock(t)
    /\ Pop(t)
    /\ UNCHANGED <<gil, pc, wants, forks>>

----------------------------------------------------------------------------
Forks(t) == gil = t /\ pc[t] = "run" /\ In(t, "fork")
Becomes(what, t) == [levels EXCEPT ![t] = <<what>> \o Tail(@)]

(* fork() returns in the parent, or fails. *)
ForkParent(t) ==
    /\ Forks(t)
    /\ levels' = Becomes("parent", t)
    /\ UNCHANGED <<gil, pc, wants, fields, forks>>

(* fork() returns in the child, where the model goes on. *)
ForkChild(t) ==
    /\ Forks(t)
    /\ forks < MaxForks /\ forks' = forks + 1
    /\ levels' = [u \in Thread |-> IF u = t THEN Becomes("child", t)[t] ELSE << >>]
    /\ pc' = [u \in Thread |-> IF u = t THEN "run" ELSE "none"]
    /\ UNCHANGED <<gil, wants, fields>>

ParentHooksEnd(t) ==
    /\ Runs(t) /\ In(t, "parent")
    /\ release_lock(t)
    /\ Pop(t)
    /\ UNCHANGED <<gil, pc, wants, forks>>

(* reinit_lock *)
ReinitOwnsNothing(t) ==
    lock' = "None" /\ lockowner' = NoThread /\ lockcounter' = 0
ReinitAlwaysOwns(t) ==
    lock' = "held" /\ lockowner' = t /\ lockcounter' = lockcounter - 1

reinit_lock(t) ==
    IF lockcounter > 1
      THEN lock' = "held" /\ lockowner' = t /\ lockcounter' = lockcounter - 1
      ELSE lock' = "None" /\ lockowner' = NoThread /\ lockcounter' = 0

ChildHooksEnd(t) ==
    /\ Runs(t) /\ In(t, "child")
    /\ reinit_lock(t)
    /\ Pop(t)
    /\ UNCHANGED <<gil, pc, wants, forks>>

----------------------------------------------------------------------------
Next == \E t \in Thread :
    \/ GilAcquire(t) \/ GilRelease(t) \/ ThreadStarts(t)
    \/ \E what \in {"import", "fork"} : AcquireAgain(t, what) \/ AcquireWaits(t, what)
    \/ LockTaken(t) \/ AcquireRecords(t)
    \/ ImportEnds(t)
    \/ ForkParent(t) \/ ForkChild(t) \/ ParentHooksEnd(t) \/ ChildHooksEnd(t)

Spec == Init /\ [][Next]_vars

----------------------------------------------------------------------------
(* The asserts of acquire_lock and release_lock, also for a thread that    *)
(* waited while others imported and forked.                                *)
AssertsHold ==
    /\ \A t \in Thread : pc[t] = "locked" => lockowner = NoThread /\ lockcounter = 0
    /\ lockowner # NoThread <=> lockcounter > 0

(* Module-level code runs with the import lock and with as many levels as  *)
(* its thread has taken and not given back, in a child that was forked in  *)
(* the middle of imports too: no release finds the lock not held.          *)
LevelsKept == \A t \in Thread :
    /\ lockowner = t => lockcounter = Len(levels[t])
    /\ lockowner # t => levels[t] = << >>

(* The low-level lock is held exactly on behalf of one thread: the owner,  *)
(* or one that has acquired it and waits for the interpreter lock.         *)
LockAccounted ==
    /\ lock = "held" <=> (lockowner # NoThread \/ \E t \in Thread : pc[t] = "locked")
    /\ \A t, u \in Thread : pc[t] = "locked" /\ pc[u] = "locked" => t = u

(* The inductive invariant: the owner is there to release the lock, and a  *)
(* thread that forks is the owner.                                         *)
OwnerRuns ==
    /\ \A t \in Thread : lockowner = t => pc[t] = "run"
    /\ \A t \in Thread : gil = t => pc[t] = "run"
IInv == TypeOK /\ AssertsHold /\ LevelsKept /\ LockAccounted /\ OwnerRuns
=============================================================================
