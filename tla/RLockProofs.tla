---------------------------- MODULE RLockProofs ----------------------------
(***************************************************************************)
(* Proofs about RLock for any number of threads, any recursion depth and   *)
(* any number of signals and forks.                                        *)
(***************************************************************************)
EXTENDS RLock, SequenceTheorems, TLAPS

USE RLockAssumption
USE DEF Generation, Points, fields, stack, Goto, Runs, Owned, Record, Free,
        CallReturns, SemTake, PopFrame, Restore, CanRestore, IInv

(* The arguments of a call in progress are well-typed, and stay so when    *)
(* the time left is computed again.                                        *)
LEMMA CallTypes ==
    /\ NoCall \in Call
    /\ \A g \in Generation : [us : Microseconds, lock : {g}] \subseteq Call
    /\ \A c \in Call : c.lock \in Generation /\ c.us \in Microseconds
    /\ \A g \in Generation, us \in Microseconds :
          [us |-> us, lock |-> g] \in [us : Microseconds, lock : {g}]
    /\ \A g \in Generation : \A c \in [us : Microseconds, lock : {g}] :
          /\ c.lock = g
          /\ \A left \in Remaining(c.us) :
                [c EXCEPT !.us = left] \in [us : Microseconds, lock : {g}]
BY DEF Call, NoCall, Microseconds, Remaining

(* Pushing a call on the frames of a thread and popping it.                *)
LEMMA FrameTypes ==
    ASSUME NEW S, NEW c \in S, NEW f \in Seq(S)
    PROVE  /\ <<c>> \o f \in Seq(S)
           /\ f # << >> => Tail(f) \in Seq(S) /\ Head(f) \in S
<1>1. <<c>> \in Seq(S)
  OBVIOUS
<1> QED
  BY <1>1, ConcatProperties, HeadTailProperties

(* Every step keeps the inductive invariant.                               *)
LEMMA StepKeeps ==
    ASSUME ~ForkInHandlers, IInv, [Next]_vars
    PROVE  IInv'
<1>1. ASSUME NEW t \in Thread, GilAcquire(t)
      PROVE  IInv'
  <2>1. TypeOK'
    BY <1>1 DEF GilAcquire, TypeOK
  <2>2. SemaphoreAccounted'
    BY <1>1 DEF GilAcquire, TypeOK, SemaphoreAccounted, Takers, CountOfOwner, OwnerRuns,
       ReleaserHasGil, CallsAreCurrent, CurrentCall, LaterSemaphoresFree
  <2>3. CountOfOwner' /\ OwnerRuns' /\ ReleaserHasGil' /\ RestoresSomething'
    BY <1>1 DEF GilAcquire, TypeOK, CountOfOwner, OwnerRuns, ReleaserHasGil,
       RestoresSomething, SemaphoreAccounted, Takers
  <2>4. CallsAreCurrent'
    BY <1>1 DEF GilAcquire, TypeOK, CallsAreCurrent, CurrentCall
  <2>5. LaterSemaphoresFree'
    BY <1>1 DEF GilAcquire, TypeOK, LaterSemaphoresFree, CallsAreCurrent, CurrentCall
  <2> QED
    BY <2>1, <2>2, <2>3, <2>4, <2>5
<1>2. ASSUME NEW t \in Thread, GilRelease(t)
      PROVE  IInv'
  <2>1. TypeOK'
    BY <1>2 DEF GilRelease, TypeOK
  <2>2. SemaphoreAccounted'
    BY <1>2 DEF GilRelease, TypeOK, SemaphoreAccounted, Takers, CountOfOwner, OwnerRuns,
       ReleaserHasGil, CallsAreCurrent, CurrentCall, LaterSemaphoresFree
  <2>3. CountOfOwner' /\ OwnerRuns' /\ ReleaserHasGil' /\ RestoresSomething'
    BY <1>2 DEF GilRelease, TypeOK, CountOfOwner, OwnerRuns, ReleaserHasGil,
       RestoresSomething, SemaphoreAccounted, Takers
  <2>4. CallsAreCurrent'
    BY <1>2 DEF GilRelease, TypeOK, CallsAreCurrent, CurrentCall
  <2>5. LaterSemaphoresFree'
    BY <1>2 DEF GilRelease, TypeOK, LaterSemaphoresFree, CallsAreCurrent, CurrentCall
  <2> QED
    BY <2>1, <2>2, <2>3, <2>4, <2>5
<1>3. ASSUME NEW t \in Thread, SemWaitReturns(t)
      PROVE  IInv'
  <2>1. TypeOK'
    <3>0. PICK g \in Generation : g = call[t].lock
      BY CallTypes DEF TypeOK
    <3>1. sem' \in [Generation -> {0, 1}]
      <4>1. sem[g] = 1 /\ sem' = [sem EXCEPT ![g] = @ - 1]
        BY <1>3, <3>0 DEF SemWaitReturns, TypeOK
      <4> QED
        BY <4>1 DEF TypeOK
    <3>2. pc' \in [Thread -> Points]
      BY <1>3 DEF SemWaitReturns, TypeOK
    <3> QED
      BY <1>3, <3>1, <3>2 DEF SemWaitReturns, TypeOK
  <2>2. SemaphoreAccounted'
    BY <1>3 DEF SemWaitReturns, TypeOK, SemaphoreAccounted, Takers, CountOfOwner, OwnerRuns,
       ReleaserHasGil, CallsAreCurrent, CurrentCall, LaterSemaphoresFree
  <2>3. CountOfOwner' /\ OwnerRuns' /\ ReleaserHasGil' /\ RestoresSomething'
    BY <1>3 DEF SemWaitReturns, TypeOK, CountOfOwner, OwnerRuns, ReleaserHasGil,
       RestoresSomething, SemaphoreAccounted, Takers
  <2>4. CallsAreCurrent'
    BY <1>3 DEF SemWaitReturns, TypeOK, CallsAreCurrent, CurrentCall
  <2>5. LaterSemaphoresFree'
    BY <1>3 DEF SemWaitReturns, TypeOK, LaterSemaphoresFree, CallsAreCurrent, CurrentCall
  <2> QED
    BY <2>1, <2>2, <2>3, <2>4, <2>5
<1>4. ASSUME NEW t \in Thread, SemFails(t)
      PROVE  IInv'
  <2>1. TypeOK'
    BY <1>4 DEF SemFails, TypeOK
  <2>2. SemaphoreAccounted'
    BY <1>4 DEF SemFails, TypeOK, SemaphoreAccounted, Takers, CountOfOwner, OwnerRuns,
       ReleaserHasGil, CallsAreCurrent, CurrentCall, LaterSemaphoresFree
  <2>3. CountOfOwner' /\ OwnerRuns' /\ ReleaserHasGil' /\ RestoresSomething'
    BY <1>4 DEF SemFails, TypeOK, CountOfOwner, OwnerRuns, ReleaserHasGil,
       RestoresSomething, SemaphoreAccounted, Takers
  <2>4. CallsAreCurrent'
    BY <1>4 DEF SemFails, TypeOK, CallsAreCurrent, CurrentCall
  <2>5. LaterSemaphoresFree'
    BY <1>4 DEF SemFails, TypeOK, LaterSemaphoresFree, CallsAreCurrent, CurrentCall
  <2> QED
    BY <2>1, <2>2, <2>3, <2>4, <2>5
<1>5. ASSUME NEW t \in Thread, SemInterrupted(t)
      PROVE  IInv'
  <2>1. TypeOK'
    BY <1>5 DEF SemInterrupted, TypeOK
  <2>2. SemaphoreAccounted'
    BY <1>5 DEF SemInterrupted, TypeOK, SemaphoreAccounted, Takers, CountOfOwner, OwnerRuns,
       ReleaserHasGil, CallsAreCurrent, CurrentCall, LaterSemaphoresFree
  <2>3. CountOfOwner' /\ OwnerRuns' /\ ReleaserHasGil' /\ RestoresSomething'
    BY <1>5 DEF SemInterrupted, TypeOK, CountOfOwner, OwnerRuns, ReleaserHasGil,
       RestoresSomething, SemaphoreAccounted, Takers
  <2>4. CallsAreCurrent'
    BY <1>5 DEF SemInterrupted, TypeOK, CallsAreCurrent, CurrentCall
  <2>5. LaterSemaphoresFree'
    BY <1>5 DEF SemInterrupted, TypeOK, LaterSemaphoresFree, CallsAreCurrent, CurrentCall
  <2> QED
    BY <2>1, <2>2, <2>3, <2>4, <2>5
<1>6. ASSUME NEW t \in Thread, SemGetValue(t)
      PROVE  IInv'
  <2>1. TypeOK'
    BY <1>6 DEF SemGetValue, TypeOK
  <2>2. SemaphoreAccounted'
    BY <1>6 DEF SemGetValue, TypeOK, SemaphoreAccounted, Takers, CountOfOwner, OwnerRuns,
       ReleaserHasGil, CallsAreCurrent, CurrentCall, LaterSemaphoresFree
  <2>3. CountOfOwner' /\ OwnerRuns' /\ ReleaserHasGil' /\ RestoresSomething'
    BY <1>6 DEF SemGetValue, TypeOK, CountOfOwner, OwnerRuns, ReleaserHasGil,
       RestoresSomething, SemaphoreAccounted, Takers
  <2>4. CallsAreCurrent'
    BY <1>6 DEF SemGetValue, TypeOK, CallsAreCurrent, CurrentCall
  <2>5. LaterSemaphoresFree'
    BY <1>6 DEF SemGetValue, TypeOK, LaterSemaphoresFree, CallsAreCurrent, CurrentCall
  <2> QED
    BY <2>1, <2>2, <2>3, <2>4, <2>5
<1>7. ASSUME NEW t \in Thread, SemPost(t)
      PROVE  IInv'
  <2>1. TypeOK'
    <3>1. sem[lock] = 0
      BY <1>7 DEF SemPost, TypeOK, SemaphoreAccounted, Takers
    <3>2. sem' \in [Generation -> {0, 1}]
      BY <1>7, <3>1 DEF SemPost, TypeOK
    <3> QED
      BY <1>7, <3>2 DEF SemPost, TypeOK
  <2>2. SemaphoreAccounted'
    BY <1>7 DEF SemPost, TypeOK, SemaphoreAccounted, Takers, CountOfOwner, OwnerRuns,
       ReleaserHasGil, CallsAreCurrent, CurrentCall, LaterSemaphoresFree
  <2>3. CountOfOwner' /\ OwnerRuns' /\ ReleaserHasGil' /\ RestoresSomething'
    BY <1>7 DEF SemPost, TypeOK, CountOfOwner, OwnerRuns, ReleaserHasGil,
       RestoresSomething, SemaphoreAccounted, Takers
  <2>4. CallsAreCurrent'
    BY <1>7 DEF SemPost, TypeOK, CallsAreCurrent, CurrentCall
  <2>5. LaterSemaphoresFree'
    BY <1>7 DEF SemPost, TypeOK, LaterSemaphoresFree, CallsAreCurrent, CurrentCall
  <2> QED
    BY <2>1, <2>2, <2>3, <2>4, <2>5
<1>8. ASSUME NEW t \in Thread, AcquireAgain(t)
      PROVE  IInv'
  <2>1. TypeOK'
    BY <1>8 DEF AcquireAgain, TypeOK
  <2>2. SemaphoreAccounted'
    BY <1>8 DEF AcquireAgain, TypeOK, SemaphoreAccounted, Takers, CountOfOwner, OwnerRuns,
       ReleaserHasGil, CallsAreCurrent, CurrentCall, LaterSemaphoresFree
  <2>3. CountOfOwner' /\ OwnerRuns' /\ ReleaserHasGil' /\ RestoresSomething'
    BY <1>8 DEF AcquireAgain, TypeOK, CountOfOwner, OwnerRuns, ReleaserHasGil,
       RestoresSomething, SemaphoreAccounted, Takers
  <2>4. CallsAreCurrent'
    BY <1>8 DEF AcquireAgain, TypeOK, CallsAreCurrent, CurrentCall
  <2>5. LaterSemaphoresFree'
    BY <1>8 DEF AcquireAgain, TypeOK, LaterSemaphoresFree, CallsAreCurrent, CurrentCall
  <2> QED
    BY <2>1, <2>2, <2>3, <2>4, <2>5
<1>9. ASSUME NEW t \in Thread, AcquireFree(t)
      PROVE  IInv'
  <2>1. TypeOK'
    BY <1>9 DEF AcquireFree, TypeOK
  <2>2. SemaphoreAccounted'
    BY <1>9 DEF AcquireFree, TypeOK, SemaphoreAccounted, Takers, CountOfOwner, OwnerRuns,
       ReleaserHasGil, CallsAreCurrent, CurrentCall, LaterSemaphoresFree
  <2>3. CountOfOwner' /\ OwnerRuns' /\ ReleaserHasGil' /\ RestoresSomething'
    BY <1>9 DEF AcquireFree, TypeOK, CountOfOwner, OwnerRuns, ReleaserHasGil,
       RestoresSomething, SemaphoreAccounted, Takers
  <2>4. CallsAreCurrent'
    BY <1>9 DEF AcquireFree, TypeOK, CallsAreCurrent, CurrentCall
  <2>5. LaterSemaphoresFree'
    BY <1>9 DEF AcquireFree, TypeOK, LaterSemaphoresFree, CallsAreCurrent, CurrentCall
  <2> QED
    BY <2>1, <2>2, <2>3, <2>4, <2>5
<1>10. ASSUME NEW t \in Thread, AcquireBlocks(t)
      PROVE  IInv'
  <2>1. TypeOK'
    <3>1. PICK us \in Microseconds :
             call' = [call EXCEPT ![t] = [us |-> us, lock |-> lock]]
      BY <1>10 DEF AcquireBlocks, Microseconds
    <3>2. [us |-> us, lock |-> lock] \in CurrentCall
      BY CallTypes DEF TypeOK, CurrentCall
    <3>3. call' \in [Thread -> Call]
      BY <3>1, <3>2, CallTypes DEF TypeOK, CurrentCall
    <3> QED
      BY <1>10, <3>3 DEF AcquireBlocks, TypeOK
  <2>2. SemaphoreAccounted'
    BY <1>10 DEF AcquireBlocks, TypeOK, SemaphoreAccounted, Takers, CountOfOwner, OwnerRuns,
       ReleaserHasGil, CallsAreCurrent, CurrentCall, LaterSemaphoresFree
  <2>3. CountOfOwner' /\ OwnerRuns' /\ ReleaserHasGil' /\ RestoresSomething'
    BY <1>10 DEF AcquireBlocks, TypeOK, CountOfOwner, OwnerRuns, ReleaserHasGil,
       RestoresSomething, SemaphoreAccounted, Takers
  <2>4. CallsAreCurrent'
    <3>1. PICK us \in Microseconds :
             call' = [call EXCEPT ![t] = [us |-> us, lock |-> lock]]
      BY <1>10 DEF AcquireBlocks, Microseconds
    <3>2. [us |-> us, lock |-> lock] \in CurrentCall
      BY CallTypes DEF TypeOK, CurrentCall
    <3>3. CurrentCall' = CurrentCall
      BY <1>10 DEF AcquireBlocks, CurrentCall
    <3> QED
      BY <1>10, <3>1, <3>2, <3>3 DEF AcquireBlocks, TypeOK, CallsAreCurrent
  <2>5. LaterSemaphoresFree'
    BY <1>10 DEF AcquireBlocks, TypeOK, LaterSemaphoresFree, CallsAreCurrent, CurrentCall
  <2> QED
    BY <2>1, <2>2, <2>3, <2>4, <2>5
<1>11. ASSUME NEW t \in Thread, AcquireRecords(t)
      PROVE  IInv'
  <2>1. TypeOK'
    BY <1>11, CallTypes, EmptySeq DEF AcquireRecords, TypeOK
  <2>2. SemaphoreAccounted'
    BY <1>11 DEF AcquireRecords, TypeOK, SemaphoreAccounted, Takers, CountOfOwner, OwnerRuns,
       ReleaserHasGil, CallsAreCurrent, CurrentCall, LaterSemaphoresFree
  <2>3. CountOfOwner' /\ OwnerRuns' /\ ReleaserHasGil' /\ RestoresSomething'
    BY <1>11 DEF AcquireRecords, TypeOK, CountOfOwner, OwnerRuns, ReleaserHasGil,
       RestoresSomething, SemaphoreAccounted, Takers
  <2>4. CallsAreCurrent'
    BY <1>11 DEF AcquireRecords, TypeOK, CallsAreCurrent, CurrentCall
  <2>5. LaterSemaphoresFree'
    BY <1>11 DEF AcquireRecords, TypeOK, LaterSemaphoresFree, CallsAreCurrent, CurrentCall
  <2> QED
    BY <2>1, <2>2, <2>3, <2>4, <2>5
<1>12. ASSUME NEW t \in Thread, AcquireFails(t)
      PROVE  IInv'
  <2>1. TypeOK'
    BY <1>12, CallTypes, EmptySeq DEF AcquireFails, TypeOK
  <2>2. SemaphoreAccounted'
    BY <1>12 DEF AcquireFails, TypeOK, SemaphoreAccounted, Takers, CountOfOwner, OwnerRuns,
       ReleaserHasGil, CallsAreCurrent, CurrentCall, LaterSemaphoresFree
  <2>3. CountOfOwner' /\ OwnerRuns' /\ ReleaserHasGil' /\ RestoresSomething'
    BY <1>12 DEF AcquireFails, TypeOK, CountOfOwner, OwnerRuns, ReleaserHasGil,
       RestoresSomething, SemaphoreAccounted, Takers
  <2>4. CallsAreCurrent'
    BY <1>12 DEF AcquireFails, TypeOK, CallsAreCurrent, CurrentCall
  <2>5. LaterSemaphoresFree'
    BY <1>12 DEF AcquireFails, TypeOK, LaterSemaphoresFree, CallsAreCurrent, CurrentCall
  <2> QED
    BY <2>1, <2>2, <2>3, <2>4, <2>5
<1>13. ASSUME NEW t \in Thread, HandlerStarts(t)
      PROVE  IInv'
  <2>1. TypeOK'
    <3>1. <<call[t]>> \o frames[t] \in Seq(Call)
      BY FrameTypes DEF TypeOK
    <3> QED
      BY <1>13, <3>1, CallTypes DEF HandlerStarts, TypeOK
  <2>2. SemaphoreAccounted'
    BY <1>13 DEF HandlerStarts, TypeOK, SemaphoreAccounted, Takers, CountOfOwner, OwnerRuns,
       ReleaserHasGil, CallsAreCurrent, CurrentCall, LaterSemaphoresFree
  <2>3. CountOfOwner' /\ OwnerRuns' /\ ReleaserHasGil' /\ RestoresSomething'
    BY <1>13 DEF HandlerStarts, TypeOK, CountOfOwner, OwnerRuns, ReleaserHasGil,
       RestoresSomething, SemaphoreAccounted, Takers
  <2>4. CallsAreCurrent'
    <3>1. <<call[t]>> \o frames[t] \in Seq(CurrentCall)
      BY <1>13, FrameTypes DEF HandlerStarts, CallsAreCurrent
    <3>2. CurrentCall' = CurrentCall
      BY <1>13 DEF HandlerStarts, CurrentCall
    <3> QED
      BY <1>13, <3>1, <3>2 DEF HandlerStarts, TypeOK, CallsAreCurrent
  <2>5. LaterSemaphoresFree'
    BY <1>13 DEF HandlerStarts, TypeOK, LaterSemaphoresFree, CallsAreCurrent, CurrentCall
  <2> QED
    BY <2>1, <2>2, <2>3, <2>4, <2>5
<1>14. ASSUME NEW t \in Thread, HandlerRaises(t)
      PROVE  IInv'
  <2>1. TypeOK'
    BY <1>14 DEF HandlerRaises, TypeOK
  <2>2. SemaphoreAccounted'
    BY <1>14 DEF HandlerRaises, TypeOK, SemaphoreAccounted, Takers, CountOfOwner, OwnerRuns,
       ReleaserHasGil, CallsAreCurrent, CurrentCall, LaterSemaphoresFree
  <2>3. CountOfOwner' /\ OwnerRuns' /\ ReleaserHasGil' /\ RestoresSomething'
    BY <1>14 DEF HandlerRaises, TypeOK, CountOfOwner, OwnerRuns, ReleaserHasGil,
       RestoresSomething, SemaphoreAccounted, Takers
  <2>4. CallsAreCurrent'
    <3>1. Tail(frames[t]) \in Seq(CurrentCall)
      BY <1>14, HeadTailProperties DEF HandlerRaises, CallsAreCurrent
    <3>2. CurrentCall' = CurrentCall
      BY <1>14 DEF HandlerRaises, CurrentCall
    <3> QED
      BY <1>14, <3>1, <3>2 DEF HandlerRaises, TypeOK, CallsAreCurrent
  <2>5. LaterSemaphoresFree'
    BY <1>14 DEF HandlerRaises, TypeOK, LaterSemaphoresFree, CallsAreCurrent, CurrentCall
  <2> QED
    BY <2>1, <2>2, <2>3, <2>4, <2>5
<1>15. ASSUME NEW t \in Thread, HandlerReturns(t)
      PROVE  IInv'
  <2>1. TypeOK'
    <3>1. Tail(frames[t]) \in Seq(CurrentCall) /\ Head(frames[t]) \in CurrentCall
      BY <1>15, HeadTailProperties DEF HandlerReturns, CallsAreCurrent
    <3>2. CurrentCall' = CurrentCall /\ CurrentCall \subseteq Call
      BY <1>15, CallTypes DEF HandlerReturns, CurrentCall, TypeOK
    <3>3. PICK left \in Remaining(Head(frames[t]).us) :
             \/ UNCHANGED <<gil, pc, call>>
             \/ /\ call' = [call EXCEPT ![t] = [Head(frames[t]) EXCEPT !.us = left]]
                /\ Goto(t, "wait")
                /\ gil' = NoThread
      BY <1>15 DEF HandlerReturns
    <3>4. [Head(frames[t]) EXCEPT !.us = left] \in CurrentCall
      BY <3>1, <3>3, CallTypes DEF CurrentCall, TypeOK
    <3>5. Tail(frames[t]) \in Seq(Call)
      BY <3>1, <3>2, SeqMonotonic
    <3>6. call' \in [Thread -> Call] /\ gil' \in Thread \cup {NoThread}
            /\ pc' \in [Thread -> Points]
      BY <1>15, <3>2, <3>3, <3>4 DEF HandlerReturns, TypeOK
    <3> QED
      BY <1>15, <3>5, <3>6 DEF HandlerReturns, TypeOK
  <2>2. SemaphoreAccounted'
    <3>1. /\ sem' = sem /\ lock' = lock
          /\ (Owned <=> Owned') /\ rlock_owner' = rlock_owner
      BY <1>15 DEF HandlerReturns, Owned, fields
    <3>2. pc[t] = "run" /\ (pc' = pc \/ pc' = [pc EXCEPT ![t] = "wait"])
      BY <1>15 DEF HandlerReturns, Runs, Goto, TypeOK
    <3>3. Takers' = Takers
      BY <3>1, <3>2 DEF Takers, TypeOK
    <3> QED
      BY <3>1, <3>3 DEF SemaphoreAccounted
  <2>3. CountOfOwner' /\ OwnerRuns' /\ ReleaserHasGil' /\ RestoresSomething'
    BY <1>15 DEF HandlerReturns, TypeOK, CountOfOwner, OwnerRuns, ReleaserHasGil,
       RestoresSomething, SemaphoreAccounted, Takers
  <2>4. CallsAreCurrent'
    <3>1. Tail(frames[t]) \in Seq(CurrentCall) /\ Head(frames[t]) \in CurrentCall
      BY <1>15, HeadTailProperties DEF HandlerReturns, CallsAreCurrent
    <3>2. CurrentCall' = CurrentCall /\ CurrentCall \subseteq Call
      BY <1>15, CallTypes DEF HandlerReturns, CurrentCall, TypeOK
    <3>3. PICK left \in Remaining(Head(frames[t]).us) :
             \/ UNCHANGED <<gil, pc, call>>
             \/ /\ call' = [call EXCEPT ![t] = [Head(frames[t]) EXCEPT !.us = left]]
                /\ Goto(t, "wait")
                /\ gil' = NoThread
      BY <1>15 DEF HandlerReturns
    <3>4. [Head(frames[t]) EXCEPT !.us = left] \in CurrentCall
      BY <3>1, <3>3, CallTypes DEF CurrentCall, TypeOK
    <3> QED
      BY <1>15, <3>1, <3>2, <3>3, <3>4 DEF HandlerReturns, TypeOK, CallsAreCurrent
  <2>5. LaterSemaphoresFree'
    BY <1>15 DEF HandlerReturns, TypeOK, LaterSemaphoresFree, CallsAreCurrent, CurrentCall
  <2> QED
    BY <2>1, <2>2, <2>3, <2>4, <2>5
<1>16. ASSUME NEW t \in Thread, release_w(t)
      PROVE  IInv'
  <2>1. TypeOK'
    <3>1. CASE rlock_count = 1
      <4>1. rlock_count' = 0 /\ rlock_owner' = NoThread
        BY <1>16, <3>1 DEF release_w
      <4>2. pc' \in [Thread -> Points]
        BY <1>16, <3>1 DEF release_w, TypeOK
      <4> QED
        BY <1>16, <4>1, <4>2 DEF release_w, TypeOK
    <3>2. CASE rlock_count # 1
      BY <1>16, <3>2 DEF release_w, TypeOK
    <3> QED
      BY <3>1, <3>2
  <2>2. SemaphoreAccounted'
    BY <1>16 DEF release_w, TypeOK, SemaphoreAccounted, Takers, CountOfOwner, OwnerRuns,
       ReleaserHasGil, CallsAreCurrent, CurrentCall, LaterSemaphoresFree
  <2>3. CountOfOwner' /\ OwnerRuns' /\ ReleaserHasGil' /\ RestoresSomething'
    BY <1>16 DEF release_w, TypeOK, CountOfOwner, OwnerRuns, ReleaserHasGil,
       RestoresSomething, SemaphoreAccounted, Takers
  <2>4. CallsAreCurrent'
    BY <1>16 DEF release_w, TypeOK, CallsAreCurrent, CurrentCall
  <2>5. LaterSemaphoresFree'
    BY <1>16 DEF release_w, TypeOK, LaterSemaphoresFree, CallsAreCurrent, CurrentCall
  <2> QED
    BY <2>1, <2>2, <2>3, <2>4, <2>5
<1>17. ASSUME NEW t \in Thread, release_save_w(t)
      PROVE  IInv'
  <2>1. TypeOK'
    BY <1>17 DEF release_save_w, TypeOK
  <2>2. SemaphoreAccounted'
    BY <1>17 DEF release_save_w, TypeOK, SemaphoreAccounted, Takers, CountOfOwner, OwnerRuns,
       ReleaserHasGil, CallsAreCurrent, CurrentCall, LaterSemaphoresFree
  <2>3. CountOfOwner' /\ OwnerRuns' /\ ReleaserHasGil' /\ RestoresSomething'
    BY <1>17 DEF release_save_w, TypeOK, CountOfOwner, OwnerRuns, ReleaserHasGil,
       RestoresSomething, SemaphoreAccounted, Takers
  <2>4. CallsAreCurrent'
    BY <1>17 DEF release_save_w, TypeOK, CallsAreCurrent, CurrentCall
  <2>5. LaterSemaphoresFree'
    BY <1>17 DEF release_save_w, TypeOK, LaterSemaphoresFree, CallsAreCurrent, CurrentCall
  <2> QED
    BY <2>1, <2>2, <2>3, <2>4, <2>5
<1>18. ASSUME NEW t \in Thread, RestoreFree(t)
      PROVE  IInv'
  <2>1. TypeOK'
    BY <1>18 DEF RestoreFree, TypeOK
  <2>2. SemaphoreAccounted'
    BY <1>18 DEF RestoreFree, TypeOK, SemaphoreAccounted, Takers, CountOfOwner, OwnerRuns,
       ReleaserHasGil, CallsAreCurrent, CurrentCall, LaterSemaphoresFree
  <2>3. CountOfOwner' /\ OwnerRuns' /\ ReleaserHasGil' /\ RestoresSomething'
    BY <1>18 DEF RestoreFree, TypeOK, CountOfOwner, OwnerRuns, ReleaserHasGil,
       RestoresSomething, SemaphoreAccounted, Takers
  <2>4. CallsAreCurrent'
    BY <1>18 DEF RestoreFree, TypeOK, CallsAreCurrent, CurrentCall
  <2>5. LaterSemaphoresFree'
    BY <1>18 DEF RestoreFree, TypeOK, LaterSemaphoresFree, CallsAreCurrent, CurrentCall
  <2> QED
    BY <2>1, <2>2, <2>3, <2>4, <2>5
<1>19. ASSUME NEW t \in Thread, RestoreBlocks(t)
      PROVE  IInv'
  <2>1. TypeOK'
    <3>1. call' = [call EXCEPT ![t] = [us |-> -1, lock |-> lock]]
      BY <1>19 DEF RestoreBlocks
    <3>2. [us |-> -1, lock |-> lock] \in CurrentCall
      BY DEF CurrentCall, Microseconds
    <3>3. call' \in [Thread -> Call]
      BY <3>1, <3>2, CallTypes DEF TypeOK, CurrentCall
    <3> QED
      BY <1>19, <3>3 DEF RestoreBlocks, TypeOK
  <2>2. SemaphoreAccounted'
    BY <1>19 DEF RestoreBlocks, TypeOK, SemaphoreAccounted, Takers, CountOfOwner, OwnerRuns,
       ReleaserHasGil, CallsAreCurrent, CurrentCall, LaterSemaphoresFree
  <2>3. CountOfOwner' /\ OwnerRuns' /\ ReleaserHasGil' /\ RestoresSomething'
    BY <1>19 DEF RestoreBlocks, TypeOK, CountOfOwner, OwnerRuns, ReleaserHasGil,
       RestoresSomething, SemaphoreAccounted, Takers
  <2>4. CallsAreCurrent'
    <3>1. call' = [call EXCEPT ![t] = [us |-> -1, lock |-> lock]]
      BY <1>19 DEF RestoreBlocks
    <3>2. [us |-> -1, lock |-> lock] \in CurrentCall
      BY DEF CurrentCall, Microseconds
    <3>3. CurrentCall' = CurrentCall
      BY <1>19 DEF RestoreBlocks, CurrentCall
    <3> QED
      BY <1>19, <3>1, <3>2, <3>3 DEF RestoreBlocks, TypeOK, CallsAreCurrent
  <2>5. LaterSemaphoresFree'
    BY <1>19 DEF RestoreBlocks, TypeOK, LaterSemaphoresFree, CallsAreCurrent, CurrentCall
  <2> QED
    BY <2>1, <2>2, <2>3, <2>4, <2>5
<1>20. ASSUME NEW t \in Thread, RestoreRecords(t)
      PROVE  IInv'
  <2>1. TypeOK'
    BY <1>20, CallTypes, EmptySeq DEF RestoreRecords, TypeOK
  <2>2. SemaphoreAccounted'
    <3>1. t \in Takers /\ sem[lock] # 1
      BY <1>20 DEF RestoreRecords, SemaphoreAccounted, Takers
    <3>2. Takers' = Takers
      BY <1>20, <3>1 DEF RestoreRecords, TypeOK, SemaphoreAccounted, Takers,
         CountOfOwner, RestoresSomething
    <3> QED
      BY <1>20, <3>2 DEF RestoreRecords, SemaphoreAccounted
  <2>3. CountOfOwner' /\ OwnerRuns' /\ ReleaserHasGil' /\ RestoresSomething'
    BY <1>20 DEF RestoreRecords, TypeOK, CountOfOwner, OwnerRuns, ReleaserHasGil,
       RestoresSomething, SemaphoreAccounted, Takers
  <2>4. CallsAreCurrent'
    BY <1>20 DEF RestoreRecords, TypeOK, CallsAreCurrent, CurrentCall
  <2>5. LaterSemaphoresFree'
    BY <1>20 DEF RestoreRecords, TypeOK, LaterSemaphoresFree, CallsAreCurrent, CurrentCall
  <2> QED
    BY <2>1, <2>2, <2>3, <2>4, <2>5
<1>21. ASSUME NEW t \in Thread, descr_at_fork_reinit(t)
      PROVE  IInv'
  <2>1. TypeOK'
    BY <1>21, CallTypes, EmptySeq DEF descr_at_fork_reinit, TypeOK
  <2>2. SemaphoreAccounted'
    BY <1>21 DEF descr_at_fork_reinit, TypeOK, SemaphoreAccounted, Takers, CountOfOwner, OwnerRuns,
       ReleaserHasGil, CallsAreCurrent, CurrentCall, LaterSemaphoresFree
  <2>3. CountOfOwner' /\ OwnerRuns' /\ ReleaserHasGil' /\ RestoresSomething'
    BY <1>21 DEF descr_at_fork_reinit, TypeOK, CountOfOwner, OwnerRuns, ReleaserHasGil,
       RestoresSomething, SemaphoreAccounted, Takers
  <2>4. CallsAreCurrent'
    BY <1>21 DEF descr_at_fork_reinit, TypeOK, CallsAreCurrent, CurrentCall
  <2>5. LaterSemaphoresFree'
    BY <1>21 DEF descr_at_fork_reinit, TypeOK, LaterSemaphoresFree, CallsAreCurrent, CurrentCall
  <2> QED
    BY <2>1, <2>2, <2>3, <2>4, <2>5
<1>22. ASSUME NEW t \in Thread, ThreadStarts(t)
      PROVE  IInv'
  <2>1. TypeOK'
    BY <1>22 DEF ThreadStarts, TypeOK
  <2>2. SemaphoreAccounted'
    BY <1>22 DEF ThreadStarts, TypeOK, SemaphoreAccounted, Takers, CountOfOwner, OwnerRuns,
       ReleaserHasGil, CallsAreCurrent, CurrentCall, LaterSemaphoresFree
  <2>3. CountOfOwner' /\ OwnerRuns' /\ ReleaserHasGil' /\ RestoresSomething'
    BY <1>22 DEF ThreadStarts, TypeOK, CountOfOwner, OwnerRuns, ReleaserHasGil,
       RestoresSomething, SemaphoreAccounted, Takers
  <2>4. CallsAreCurrent'
    BY <1>22 DEF ThreadStarts, TypeOK, CallsAreCurrent, CurrentCall
  <2>5. LaterSemaphoresFree'
    BY <1>22 DEF ThreadStarts, TypeOK, LaterSemaphoresFree, CallsAreCurrent, CurrentCall
  <2> QED
    BY <2>1, <2>2, <2>3, <2>4, <2>5
<1>23. CASE UNCHANGED vars
  BY <1>23 DEF vars, TypeOK, SemaphoreAccounted, Takers, CountOfOwner, OwnerRuns, ReleaserHasGil,
       CallsAreCurrent, CurrentCall, LaterSemaphoresFree, RestoresSomething
<1> QED
  BY <1>1, <1>2, <1>3, <1>4, <1>5, <1>6, <1>7, <1>8, <1>9, <1>10,
     <1>11, <1>12, <1>13, <1>14, <1>15, <1>16, <1>17, <1>18, <1>19, <1>20,
     <1>21, <1>22, <1>23 DEF Next

(* IInv is an invariant.                                                   *)
THEOREM Invariance == ASSUME ~ForkInHandlers PROVE Spec => []IInv
<1>1. Init => IInv
  BY EmptySeq, CallTypes DEF Init, TypeOK, SemaphoreAccounted, Takers, CountOfOwner,
     OwnerRuns, ReleaserHasGil, CallsAreCurrent, CurrentCall, LaterSemaphoresFree,
     RestoresSomething
<1>2. IInv /\ [Next]_vars => IInv'
  BY StepKeeps
<1> QED
  BY <1>1, <1>2, PTL DEF Spec

(* The semaphore is never lost nor taken twice: every interleaving of      *)
(* acquire_w, acquire_restore_w, release_w, release_save_w, signals,       *)
(* timeouts and forks keeps exactly one thread answerable for it.          *)
THEOREM SemaphoreIsAccounted == ASSUME ~ForkInHandlers PROVE Spec => []SemaphoreAccounted
<1>1. IInv => SemaphoreAccounted
  BY DEF IInv
<1> QED
  BY <1>1, Invariance, PTL

(* A thread that holds the semaphore but is not the owner finds the lock   *)
(* without owner.                                                          *)
LEMMA NoOwnerWhileInTransit ==
    ASSUME IInv, NEW t \in Thread, pc[t] \in {"acquired", "racquired"}
    PROVE  rlock_owner = NoThread /\ rlock_count = 0
<1>1. t \in Takers /\ rlock_owner # t
  BY DEF Takers, OwnerRuns
<1>2. Owned => rlock_owner \in Takers
  BY DEF Takers, CountOfOwner, TypeOK
<1>3. ~Owned
  BY <1>1, <1>2 DEF SemaphoreAccounted
<1> QED
  BY <1>3 DEF TypeOK, CountOfOwner

(* The asserts of acquire_w and acquire_restore_w never fail.              *)
THEOREM RLockAsserts == ASSUME ~ForkInHandlers PROVE Spec => []AssertsHold
<1>1. IInv => AssertsHold
  BY NoOwnerWhileInTransit DEF AssertsHold
<1> QED
  BY <1>1, Invariance, PTL

(* The types of the fields; in particular the semaphore is binary.         *)
THEOREM RLockTypes == ASSUME ~ForkInHandlers PROVE Spec => []TypeOK
<1>1. IInv => TypeOK
  BY DEF IInv
<1> QED
  BY <1>1, Invariance, PTL

----------------------------------------------------------------------------
(* RLock implements ReentrantLock: the steps that change the owner, the    *)
(* count or a saved count are steps of the abstract lock.                  *)
THEOREM RLockImplements == ASSUME ~ForkInHandlers PROVE Spec => ImplementsRLock
<1> USE DEF Abstract!RLockNext, Abstract!rlockVars
<1>1. Init => Abstract!RLockInit
  BY DEF Init, Abstract!RLockInit
<1>2. IInv /\ [Next]_vars => [Abstract!RLockNext]_(Abstract!rlockVars)
  <2> SUFFICES ASSUME IInv, [Next]_vars
               PROVE  [Abstract!RLockNext]_(Abstract!rlockVars)
    OBVIOUS
  <2>1. ASSUME NEW t \in Thread,
               \/ GilAcquire(t) \/ GilRelease(t)
               \/ SemWaitReturns(t) \/ SemFails(t) \/ SemInterrupted(t)
               \/ SemGetValue(t) \/ SemPost(t) \/ AcquireBlocks(t) \/ AcquireFails(t)
               \/ HandlerStarts(t) \/ HandlerRaises(t) \/ HandlerReturns(t)
               \/ RestoreBlocks(t) \/ ThreadStarts(t)
        PROVE  UNCHANGED Abstract!rlockVars
    BY <2>1 DEF GilAcquire, GilRelease, SemWaitReturns, SemFails, SemInterrupted,
       SemGetValue, SemPost, AcquireBlocks, AcquireFails, HandlerStarts,
       HandlerRaises, HandlerReturns, RestoreBlocks, ThreadStarts
  <2>2. ASSUME NEW t \in Thread, AcquireAgain(t)
        PROVE  Abstract!TakeAgain(t)
    BY <2>2 DEF AcquireAgain, Abstract!TakeAgain
  <2>3. ASSUME NEW t \in Thread, AcquireFree(t) \/ AcquireRecords(t)
        PROVE  Abstract!Take(t)
    BY <2>3, NoOwnerWhileInTransit DEF AcquireFree, AcquireRecords, Abstract!Take,
       CountOfOwner
  <2>4. ASSUME NEW t \in Thread, release_w(t)
        PROVE  Abstract!GiveBack(t)
    BY <2>4 DEF release_w, Abstract!GiveBack
  <2>5. ASSUME NEW t \in Thread, release_save_w(t)
        PROVE  Abstract!Park(t)
    BY <2>5 DEF release_save_w, Abstract!Park
  <2>6. ASSUME NEW t \in Thread, RestoreRecords(t)
        PROVE  Abstract!Unpark(t)
    BY <2>6, NoOwnerWhileInTransit DEF RestoreRecords, Abstract!Unpark,
       RestoresSomething
  <2>7. ASSUME NEW t \in Thread, RestoreFree(t)
        PROVE  Abstract!Unpark(t)
    <3>1. Takers = {}
      BY <2>7 DEF RestoreFree, SemaphoreAccounted, TypeOK
    <3>2. rlock_owner = NoThread
      BY <3>1 DEF Takers, CountOfOwner, TypeOK
    <3> QED
      BY <2>7, <3>2 DEF RestoreFree, Abstract!Unpark
  <2>8. ASSUME NEW t \in Thread, descr_at_fork_reinit(t)
        PROVE  Abstract!Renew(t)
    BY <2>8 DEF descr_at_fork_reinit, Abstract!Renew
  <2>9. CASE UNCHANGED vars
    BY <2>9 DEF vars
  <2> QED
    BY <2>1, <2>2, <2>3, <2>4, <2>5, <2>6, <2>7, <2>8, <2>9 DEF Next
<1> QED
  BY <1>1, <1>2, Invariance, PTL DEF Spec, ImplementsRLock, Abstract!RLockSpec
=============================================================================
