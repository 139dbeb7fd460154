-------------------------- MODULE InterpreterLock --------------------------
(***************************************************************************)
(* What the global interpreter lock promises to the code that uses it.  At *)
(* most one thread holds it.  A free lock is either open, and anyone may   *)
(* take it, or offered by a thread that gave way, and then only a thread   *)
(* that had registered as waiting may take it.  A holder that leaves the   *)
(* queue was in it.                                                        *)
(***************************************************************************)
CONSTANTS Thread, NoThread

VARIABLES
    holder,     \* the thread that holds the lock, or NoThread
    offered,    \* the lock is free and reserved for a waiting thread
    queue       \* the threads registered as waiting

lockVars == <<holder, offered, queue>>

LockInit == holder = NoThread /\ offered = FALSE /\ queue = {}

Enqueue(t) ==
    /\ holder # t /\ t \notin queue
    /\ queue' = queue \cup {t}
    /\ UNCHANGED <<holder, offered>>

Take(t) ==
    /\ holder = NoThread /\ ~offered
    /\ holder' = t
    /\ UNCHANGED <<offered, queue>>

TakeOffered(t) ==
    /\ holder = NoThread /\ offered /\ t \in queue
    /\ holder' = t
    /\ offered' = FALSE
    /\ UNCHANGED queue

Dequeue(t) ==
    /\ holder = t /\ t \in queue
    /\ queue' = queue \ {t}
    /\ UNCHANGED <<holder, offered>>

(* A plain release is only made by a thread that is not in the queue.      *)
Release(t) ==
    /\ holder = t /\ t \notin queue
    /\ holder' = NoThread
    /\ UNCHANGED <<offered, queue>>

(* Nobody offers the lock when there is no other thread to take it: then   *)
(* a yield would be an offer to oneself.                                   *)
Offer(t) ==
    /\ holder = t /\ queue # {}
    /\ holder' = NoThread
    /\ offered' = TRUE
    /\ UNCHANGED queue

(* After fork() only the holder exists in the child.                       *)
Survive(t) ==
    /\ holder = t /\ t \notin queue
    /\ queue' = {}
    /\ UNCHANGED <<holder, offered>>

LockNext == \E t \in Thread :
    \/ Enqueue(t) \/ Take(t) \/ TakeOffered(t) \/ Dequeue(t)
    \/ Release(t) \/ Offer(t) \/ Survive(t)

LockSpec == LockInit /\ [][LockNext]_lockVars
=============================================================================
