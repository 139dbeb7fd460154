--------------------------- MODULE ReentrantLock ---------------------------
(***************************************************************************)
(* What _thread.RLock promises: it has at most one owner, which may take   *)
(* it again; it passes from one thread to another only by being free in    *)
(* between; and a thread that gives it up to wait on a condition gets back *)
(* as many levels of it as it had.                                         *)
(***************************************************************************)
EXTENDS Naturals

CONSTANTS Thread, NoThread

VARIABLES
    owner,      \* the thread that owns the lock, or NoThread
    count,      \* how often it has taken it
    parked      \* the levels each thread gave up and will ask back

rlockVars == <<owner, count, parked>>

RLockInit == owner = NoThread /\ count = 0 /\ parked = [t \in Thread |-> 0]

Take(t) ==
    /\ owner = NoThread
    /\ owner' = t /\ count' = 1
    /\ UNCHANGED parked

TakeAgain(t) ==
    /\ owner = t
    /\ count' = count + 1
    /\ UNCHANGED <<owner, parked>>

GiveBack(t) ==
    /\ owner = t
    /\ count' = count - 1
    /\ owner' = IF count = 1 THEN NoThread ELSE t
    /\ UNCHANGED parked

Park(t) ==
    /\ owner = t
    /\ owner' = NoThread /\ count' = 0
    /\ parked' = [parked EXCEPT ![t] = count]

Unpark(t) ==
    /\ owner = NoThread /\ parked[t] > 0
    /\ owner' = t /\ count' = parked[t]
    /\ parked' = [parked EXCEPT ![t] = 0]

(* A forked child starts with a new lock and only one thread.              *)
Renew(t) ==
    /\ owner' = NoThread /\ count' = 0
    /\ parked' = [u \in Thread |-> IF u = t THEN parked[t] ELSE 0]

RLockNext == \E t \in Thread :
    \/ Take(t) \/ TakeAgain(t) \/ GiveBack(t) \/ Park(t) \/ Unpark(t) \/ Renew(t)

RLockSpec == RLockInit /\ [][RLockNext]_rlockVars
=============================================================================
