-------------------------- MODULE ImportLockProofs --------------------------
(***************************************************************************)
(* Proofs about ImportLock for any number of threads, levels and forks.    *)
(***************************************************************************)
EXTENDS ImportLock, SequenceTheorems, TLAPS

USE ImportLockAssumption
USE DEF Purpose, Goto, Runs, Forks, fields

(* Entering and leaving a level. *)
LEMMA LevelTypes ==
    ASSUME NEW s \in Seq(Purpose), NEW what \in Purpose
    PROVE  /\ <<what>> \o s \in Seq(Purpose) /\ Len(<<what>> \o s) = Len(s) + 1
           /\ s # << >> =>
                /\ Tail(s) \in Seq(Purpose) /\ Len(Tail(s)) = Len(s) - 1
                /\ <<what>> \o Tail(s) \in Seq(Purpose)
                /\ Len(<<what>> \o Tail(s)) = Len(s)
<1>1. \A q \in Seq(Purpose) :
         <<what>> \o q \in Seq(Purpose) /\ Len(<<what>> \o q) = Len(q) + 1
  <2>1. <<what>> \in Seq(Purpose) /\ Len(<<what>>) = 1
    OBVIOUS
  <2> QED
    BY <2>1, ConcatProperties
<1>2. s # << >> => Tail(s) \in Seq(Purpose) /\ Len(Tail(s)) = Len(s) - 1
  BY HeadTailProperties
<1>3. Len(s) \in Nat
  BY LenProperties
<1> QED
  BY <1>1, <1>2, <1>3

(* A sequence without elements is the empty one. *)
LEMMA NoLevels ==
    ASSUME NEW s \in Seq(Purpose)
    PROVE  Len(s) \in Nat /\ (Len(s) = 0 <=> s = << >>)
BY EmptySeq, LenProperties

(* Every step keeps the inductive invariant. *)
LEMMA StepKeeps ==
    ASSUME IInv, [Next]_vars
    PROVE  IInv'
<1> USE DEF IInv
<1>1. ASSUME NEW t \in Thread, GilAcquire(t)
      PROVE  IInv'
  <2>1. TypeOK'
    BY <1>1 DEF GilAcquire, TypeOK
  <2>2. AssertsHold' /\ OwnerRuns'
    BY <1>1 DEF GilAcquire, TypeOK, AssertsHold, OwnerRuns,
       LevelsKept, LockAccounted
  <2>3. LevelsKept'
    BY <1>1 DEF GilAcquire, TypeOK, AssertsHold, LevelsKept
  <2>4. LockAccounted'
    BY <1>1 DEF GilAcquire, TypeOK, AssertsHold, OwnerRuns,
       LevelsKept, LockAccounted
  <2> QED
    BY <2>1, <2>2, <2>3, <2>4
<1>2. ASSUME NEW t \in Thread, GilRelease(t)
      PROVE  IInv'
  <2>1. TypeOK'
    BY <1>2 DEF GilRelease, TypeOK
  <2>2. AssertsHold' /\ OwnerRuns'
    BY <1>2 DEF GilRelease, TypeOK, AssertsHold, OwnerRuns,
       LevelsKept, LockAccounted
  <2>3. LevelsKept'
    BY <1>2 DEF GilRelease, TypeOK, AssertsHold, LevelsKept
  <2>4. LockAccounted'
    BY <1>2 DEF GilRelease, TypeOK, AssertsHold, OwnerRuns,
       LevelsKept, LockAccounted
  <2> QED
    BY <2>1, <2>2, <2>3, <2>4
<1>3. ASSUME NEW t \in Thread, ThreadStarts(t)
      PROVE  IInv'
  <2>1. TypeOK'
    BY <1>3 DEF ThreadStarts, TypeOK
  <2>2. AssertsHold' /\ OwnerRuns'
    BY <1>3 DEF ThreadStarts, TypeOK, AssertsHold, OwnerRuns,
       LevelsKept, LockAccounted
  <2>3. LevelsKept'
    BY <1>3 DEF ThreadStarts, TypeOK, AssertsHold, LevelsKept
  <2>4. LockAccounted'
    BY <1>3 DEF ThreadStarts, TypeOK, AssertsHold, OwnerRuns,
       LevelsKept, LockAccounted
  <2> QED
    BY <2>1, <2>2, <2>3, <2>4
<1>4. ASSUME NEW t \in Thread, NEW what \in {"import", "fork"},
             AcquireAgain(t, what)
      PROVE  IInv'
  <2>0. /\ <<what>> \o levels[t] \in Seq(Purpose)
        /\ Len(<<what>> \o levels[t]) = Len(levels[t]) + 1
    BY <1>4, LevelTypes DEF TypeOK
  <2>1. TypeOK'
    BY <1>4, <2>0 DEF AcquireAgain, Push, TypeOK, AssertsHold
  <2>2. AssertsHold' /\ OwnerRuns'
    BY <1>4, <2>0 DEF AcquireAgain, Push, TypeOK, AssertsHold, OwnerRuns,
       LevelsKept, LockAccounted
  <2>3. LevelsKept'
    BY <1>4, <2>0 DEF AcquireAgain, Push, TypeOK, AssertsHold, LevelsKept
  <2>4. LockAccounted'
    BY <1>4, <2>0 DEF AcquireAgain, Push, TypeOK, AssertsHold, OwnerRuns,
       LevelsKept, LockAccounted
  <2> QED
    BY <2>1, <2>2, <2>3, <2>4
<1>5. ASSUME NEW t \in Thread, NEW what \in {"import", "fork"},
             AcquireWaits(t, what)
      PROVE  IInv'
  <2>1. TypeOK'
    BY <1>5 DEF AcquireWaits, TypeOK
  <2>2. AssertsHold' /\ OwnerRuns'
    BY <1>5 DEF AcquireWaits, TypeOK, AssertsHold, OwnerRuns,
       LevelsKept, LockAccounted
  <2>3. LevelsKept'
    BY <1>5 DEF AcquireWaits, TypeOK, AssertsHold, LevelsKept
  <2>4. LockAccounted'
    BY <1>5 DEF AcquireWaits, TypeOK, AssertsHold, OwnerRuns,
       LevelsKept, LockAccounted
  <2> QED
    BY <2>1, <2>2, <2>3, <2>4
<1>6. ASSUME NEW t \in Thread, LockTaken(t)
      PROVE  IInv'
  <2>1. TypeOK'
    BY <1>6 DEF LockTaken, TypeOK
  <2>2. AssertsHold' /\ OwnerRuns'
    BY <1>6 DEF LockTaken, TypeOK, AssertsHold, OwnerRuns,
       LevelsKept, LockAccounted
  <2>3. LevelsKept'
    BY <1>6 DEF LockTaken, TypeOK, AssertsHold, LevelsKept
  <2>4. LockAccounted'
    BY <1>6 DEF LockTaken, TypeOK, AssertsHold, OwnerRuns,
       LevelsKept, LockAccounted
  <2> QED
    BY <2>1, <2>2, <2>3, <2>4
<1>7. ASSUME NEW t \in Thread, AcquireRecords(t)
      PROVE  IInv'
  <2>0. /\ <<wants[t]>> \o levels[t] \in Seq(Purpose)
        /\ Len(<<wants[t]>> \o levels[t]) = Len(levels[t]) + 1
    BY <1>7, LevelTypes DEF TypeOK
  <2>1. TypeOK'
    BY <1>7, <2>0 DEF AcquireRecords, Push, TypeOK, AssertsHold
  <2>2. AssertsHold' /\ OwnerRuns'
    BY <1>7, <2>0 DEF AcquireRecords, Push, TypeOK, AssertsHold, OwnerRuns,
       LevelsKept, LockAccounted
  <2>3. LevelsKept'
    BY <1>7, <2>0 DEF AcquireRecords, Push, TypeOK, AssertsHold, LevelsKept
  <2>4. LockAccounted'
    BY <1>7, <2>0 DEF AcquireRecords, Push, TypeOK, AssertsHold, OwnerRuns,
       LevelsKept, LockAccounted
  <2> QED
    BY <2>1, <2>2, <2>3, <2>4
<1>8. ASSUME NEW t \in Thread, ImportEnds(t)
      PROVE  IInv'
  <2>0. /\ Tail(levels[t]) \in Seq(Purpose)
        /\ Len(Tail(levels[t])) = Len(levels[t]) - 1
        /\ lockowner = t /\ Len(levels[t]) \in Nat \ {0}
        /\ Len(levels[t]) = 1 => Tail(levels[t]) = << >>
    <3>1. levels[t] \in Seq(Purpose) /\ levels[t] # << >>
      BY <1>8 DEF ImportEnds, In, TypeOK
    <3>2. Tail(levels[t]) \in Seq(Purpose) /\ Len(Tail(levels[t])) = Len(levels[t]) - 1
      BY <3>1, LevelTypes
    <3>3. lockowner = t
      BY <3>1 DEF LevelsKept
    <3>4. Len(levels[t]) \in Nat \ {0}
      BY <3>1, NoLevels
    <3>5. Len(Tail(levels[t])) = 0 => Tail(levels[t]) = << >>
      BY <3>2, NoLevels
    <3> QED
      BY <3>2, <3>3, <3>4, <3>5
  <2>1. TypeOK'
    BY <1>8, <2>0 DEF ImportEnds, Pop, release_lock, TypeOK, AssertsHold, LevelsKept
  <2>2. AssertsHold' /\ OwnerRuns'
    BY <1>8, <2>0 DEF ImportEnds, Pop, release_lock, TypeOK, AssertsHold, OwnerRuns,
       LevelsKept, LockAccounted
  <2>3. LevelsKept'
    BY <1>8, <2>0 DEF ImportEnds, Pop, release_lock, TypeOK, AssertsHold, LevelsKept
  <2>4. LockAccounted'
    BY <1>8, <2>0 DEF ImportEnds, Pop, release_lock, TypeOK, AssertsHold, OwnerRuns,
       LevelsKept, LockAccounted
  <2> QED
    BY <2>1, <2>2, <2>3, <2>4
<1>9. ASSUME NEW t \in Thread, ForkParent(t)
      PROVE  IInv'
  <2>0. /\ lockowner = t
        /\ <<"parent">> \o Tail(levels[t]) \in Seq(Purpose)
        /\ Len(<<"parent">> \o Tail(levels[t])) = Len(levels[t])
    <3>1. levels[t] \in Seq(Purpose) /\ levels[t] # << >>
      BY <1>9 DEF ForkParent, In, TypeOK
    <3> QED
      BY <3>1, LevelTypes DEF LevelsKept
  <2>1. TypeOK'
    BY <1>9, <2>0 DEF ForkParent, Becomes, TypeOK
  <2>2. AssertsHold' /\ OwnerRuns'
    BY <1>9, <2>0 DEF ForkParent, Becomes, TypeOK, AssertsHold, OwnerRuns,
       LevelsKept, LockAccounted
  <2>3. LevelsKept'
    BY <1>9, <2>0 DEF ForkParent, Becomes, TypeOK, AssertsHold, LevelsKept
  <2>4. LockAccounted'
    BY <1>9, <2>0 DEF ForkParent, Becomes, TypeOK, AssertsHold, OwnerRuns,
       LevelsKept, LockAccounted
  <2> QED
    BY <2>1, <2>2, <2>3, <2>4
<1>10. ASSUME NEW t \in Thread, ForkChild(t)
      PROVE  IInv'
  <2>0. /\ lockowner = t
        /\ <<"child">> \o Tail(levels[t]) \in Seq(Purpose)
        /\ Len(<<"child">> \o Tail(levels[t])) = Len(levels[t])
    <3>1. levels[t] \in Seq(Purpose) /\ levels[t] # << >>
      BY <1>10 DEF ForkChild, In, TypeOK
    <3> QED
      BY <3>1, LevelTypes DEF LevelsKept
  <2>1. TypeOK'
    <3>1. levels' \in [Thread -> Seq(Purpose)]
      <4>1. << >> \in Seq(Purpose)
        OBVIOUS
      <4>2. Becomes("child", t)[t] \in Seq(Purpose)
        BY <2>0 DEF Becomes, TypeOK
      <4> QED
        BY <1>10, <4>1, <4>2 DEF ForkChild
    <3> QED
      BY <1>10, <3>1 DEF ForkChild, TypeOK
  <2>2. AssertsHold' /\ OwnerRuns'
    BY <1>10, <2>0 DEF ForkChild, Becomes, TypeOK, AssertsHold, OwnerRuns,
       LevelsKept, LockAccounted
  <2>3. LevelsKept'
    BY <1>10, <2>0 DEF ForkChild, Becomes, TypeOK, AssertsHold, LevelsKept
  <2>4. LockAccounted'
    BY <1>10, <2>0 DEF ForkChild, Becomes, TypeOK, AssertsHold, OwnerRuns,
       LevelsKept, LockAccounted
  <2> QED
    BY <2>1, <2>2, <2>3, <2>4
<1>11. ASSUME NEW t \in Thread, ParentHooksEnd(t)
      PROVE  IInv'
  <2>0. /\ Tail(levels[t]) \in Seq(Purpose)
        /\ Len(Tail(levels[t])) = Len(levels[t]) - 1
        /\ lockowner = t /\ Len(levels[t]) \in Nat \ {0}
        /\ Len(levels[t]) = 1 => Tail(levels[t]) = << >>
    <3>1. levels[t] \in Seq(Purpose) /\ levels[t] # << >>
      BY <1>11 DEF ParentHooksEnd, In, TypeOK
    <3>2. Tail(levels[t]) \in Seq(Purpose) /\ Len(Tail(levels[t])) = Len(levels[t]) - 1
      BY <3>1, LevelTypes
    <3>3. lockowner = t
      BY <3>1 DEF LevelsKept
    <3>4. Len(levels[t]) \in Nat \ {0}
      BY <3>1, NoLevels
    <3>5. Len(Tail(levels[t])) = 0 => Tail(levels[t]) = << >>
      BY <3>2, NoLevels
    <3> QED
      BY <3>2, <3>3, <3>4, <3>5
  <2>1. TypeOK'
    BY <1>11, <2>0 DEF ParentHooksEnd, Pop, release_lock, TypeOK, AssertsHold, LevelsKept
  <2>2. AssertsHold' /\ OwnerRuns'
    BY <1>11, <2>0 DEF ParentHooksEnd, Pop, release_lock, TypeOK, AssertsHold, OwnerRuns,
       LevelsKept, LockAccounted
  <2>3. LevelsKept'
    BY <1>11, <2>0 DEF ParentHooksEnd, Pop, release_lock, TypeOK, AssertsHold, LevelsKept
  <2>4. LockAccounted'
    BY <1>11, <2>0 DEF ParentHooksEnd, Pop, release_lock, TypeOK, AssertsHold, OwnerRuns,
       LevelsKept, LockAccounted
  <2> QED
    BY <2>1, <2>2, <2>3, <2>4
<1>12. ASSUME NEW t \in Thread, ChildHooksEnd(t)
      PROVE  IInv'
  <2>0. /\ Tail(levels[t]) \in Seq(Purpose)
        /\ Len(Tail(levels[t])) = Len(levels[t]) - 1
        /\ lockowner = t /\ Len(levels[t]) \in Nat \ {0}
        /\ Len(levels[t]) = 1 => Tail(levels[t]) = << >>
    <3>1. levels[t] \in Seq(Purpose) /\ levels[t] # << >>
      BY <1>12 DEF ChildHooksEnd, In, TypeOK
    <3>2. Tail(levels[t]) \in Seq(Purpose) /\ Len(Tail(levels[t])) = Len(levels[t]) - 1
      BY <3>1, LevelTypes
    <3>3. lockowner = t
      BY <3>1 DEF LevelsKept
    <3>4. Len(levels[t]) \in Nat \ {0}
      BY <3>1, NoLevels
    <3>5. Len(Tail(levels[t])) = 0 => Tail(levels[t]) = << >>
      BY <3>2, NoLevels
    <3> QED
      BY <3>2, <3>3, <3>4, <3>5
  <2>1. TypeOK'
    BY <1>12, <2>0 DEF ChildHooksEnd, Pop, reinit_lock, TypeOK, AssertsHold, LevelsKept
  <2>2. AssertsHold' /\ OwnerRuns'
    BY <1>12, <2>0 DEF ChildHooksEnd, Pop, reinit_lock, TypeOK, AssertsHold, OwnerRuns,
       LevelsKept, LockAccounted
  <2>3. LevelsKept'
    BY <1>12, <2>0 DEF ChildHooksEnd, Pop, reinit_lock, TypeOK, AssertsHold, LevelsKept
  <2>4. LockAccounted'
    BY <1>12, <2>0 DEF ChildHooksEnd, Pop, reinit_lock, TypeOK, AssertsHold, OwnerRuns,
       LevelsKept, LockAccounted
  <2> QED
    BY <2>1, <2>2, <2>3, <2>4
<1>13. CASE UNCHANGED vars
  BY <1>13 DEF vars, TypeOK, AssertsHold, LevelsKept, LockAccounted, OwnerRuns
<1> QED
  BY <1>1, <1>2, <1>3, <1>4, <1>5, <1>6, <1>7, <1>8,
     <1>9, <1>10, <1>11, <1>12, <1>13 DEF Next

(* The inductive invariant holds in every reachable state. *)
LEMMA Invariance == Spec => []IInv
<1>1. Init => IInv
  BY NoLevels DEF Init, IInv, TypeOK, AssertsHold, LevelsKept, LockAccounted, OwnerRuns
<1> QED
  BY <1>1, StepKeeps, PTL DEF Spec

(* The fields of ImportRLock keep their types. *)
THEOREM ImportLockTypes == Spec => []TypeOK
<1>1. IInv => TypeOK
  BY DEF IInv
<1> QED
  BY <1>1, Invariance, PTL

(* The asserts of acquire_lock and release_lock cannot fail. *)
THEOREM ImportLockAsserts == Spec => []AssertsHold
<1>1. IInv => AssertsHold
  BY DEF IInv
<1> QED
  BY <1>1, Invariance, PTL

(* Every thread owns the import lock at the levels it has taken, through any
   nesting of imports and forks. *)
THEOREM LevelsAreKept == Spec => []LevelsKept
<1>1. IInv => LevelsKept
  BY DEF IInv
<1> QED
  BY <1>1, Invariance, PTL

(* The low-level lock is held on behalf of exactly one thread. *)
THEOREM ImportLockAccounted == Spec => []LockAccounted
<1>1. IInv => LockAccounted
  BY DEF IInv
<1> QED
  BY <1>1, Invariance, PTL
=============================================================================
