--------------------------- MODULE ThreadsProofs ---------------------------
(***************************************************************************)
(* Proofs about Threads for any number of idents, starts and forks, when   *)
(* no callback given to os.register_at_fork starts a thread.               *)
(***************************************************************************)
EXTENDS Threads, TLAPS

USE ThreadsAssumption
USE DEF Points, Goto, Runs, InHooks, CallReturns, Outcome, SetSentinel, Starting, HasJob,
        bootstrapper, threadlocals, history, forking

(* Every step keeps the inductive invariant.                               *)
LEMMA StepKeeps ==
    ASSUME ~ThreadsInHooks, IInv, [Next]_vars
    PROVE  IInv'
<1> USE DEF IInv
<1>1. ASSUME NEW t \in Thread, GilAcquire(t)
      PROVE  IInv'
  <2>1. TypeOK'
    BY <1>1 DEF GilAcquire, TypeOK
  <2>2. HolderRuns' /\ OneStarts' /\ HooksAlone'
    BY <1>1 DEF GilAcquire, TypeOK, HolderRuns, OneStarts, HooksAlone
  <2>3. JobsDistinct'
    BY <1>1 DEF GilAcquire, TypeOK, OneStarts, JobsDistinct, CallableStored
  <2>4. CallableStored'
    BY <1>1 DEF GilAcquire, TypeOK, OneStarts, JobsDistinct, CallableStored
  <2>5. StartupDataKept'
    BY <1>1 DEF GilAcquire, TypeOK, OneStarts, JobsDistinct,
       CallableStored, StartupDataKept
  <2>6. ContextsRegistered' /\ SignalsInMainThread'
    BY <1>1 DEF GilAcquire, TypeOK, HolderRuns, ContextsRegistered,
       SignalsInMainThread
  <2> QED
    BY <2>1, <2>2, <2>3, <2>4, <2>5, <2>6
<1>2. ASSUME NEW t \in Thread, GilRelease(t)
      PROVE  IInv'
  <2>1. TypeOK'
    BY <1>2 DEF GilRelease, TypeOK
  <2>2. HolderRuns' /\ OneStarts' /\ HooksAlone'
    BY <1>2 DEF GilRelease, TypeOK, HolderRuns, OneStarts, HooksAlone
  <2>3. JobsDistinct'
    BY <1>2 DEF GilRelease, TypeOK, OneStarts, JobsDistinct, CallableStored
  <2>4. CallableStored'
    BY <1>2 DEF GilRelease, TypeOK, OneStarts, JobsDistinct, CallableStored
  <2>5. StartupDataKept'
    BY <1>2 DEF GilRelease, TypeOK, OneStarts, JobsDistinct,
       CallableStored, StartupDataKept
  <2>6. ContextsRegistered' /\ SignalsInMainThread'
    BY <1>2 DEF GilRelease, TypeOK, HolderRuns, ContextsRegistered,
       SignalsInMainThread
  <2> QED
    BY <2>1, <2>2, <2>3, <2>4, <2>5, <2>6
<1>3. ASSUME NEW t \in Thread, start_new_thread(t)
      PROVE  IInv'
  <2>1. TypeOK'
    BY <1>3 DEF start_new_thread, TypeOK
  <2>2. HolderRuns' /\ OneStarts' /\ HooksAlone'
    BY <1>3 DEF start_new_thread, TypeOK, HolderRuns, OneStarts, HooksAlone
  <2>3. JobsDistinct'
    BY <1>3 DEF start_new_thread, TypeOK, OneStarts, JobsDistinct,
       CallableStored
  <2>4. CallableStored'
    BY <1>3 DEF start_new_thread, TypeOK, OneStarts, JobsDistinct,
       CallableStored
  <2>5. StartupDataKept'
    BY <1>3 DEF start_new_thread, TypeOK, OneStarts, JobsDistinct,
       CallableStored, StartupDataKept
  <2>6. ContextsRegistered' /\ SignalsInMainThread'
    BY <1>3 DEF start_new_thread, TypeOK, HolderRuns, ContextsRegistered,
       SignalsInMainThread
  <2> QED
    BY <2>1, <2>2, <2>3, <2>4, <2>5, <2>6
<1>4. ASSUME NEW t \in Thread, LockAcquired(t)
      PROVE  IInv'
  <2>1. TypeOK'
    BY <1>4 DEF LockAcquired, TypeOK
  <2>2. HolderRuns' /\ OneStarts' /\ HooksAlone'
    BY <1>4 DEF LockAcquired, TypeOK, HolderRuns, OneStarts, HooksAlone
  <2>3. JobsDistinct'
    BY <1>4 DEF LockAcquired, TypeOK, OneStarts, JobsDistinct,
       CallableStored
  <2>4. CallableStored'
    BY <1>4 DEF LockAcquired, TypeOK, OneStarts, JobsDistinct,
       CallableStored
  <2>5. StartupDataKept'
    BY <1>4 DEF LockAcquired, TypeOK, OneStarts, JobsDistinct,
       CallableStored, StartupDataKept
  <2>6. ContextsRegistered' /\ SignalsInMainThread'
    BY <1>4 DEF LockAcquired, TypeOK, HolderRuns, ContextsRegistered,
       SignalsInMainThread
  <2> QED
    BY <2>1, <2>2, <2>3, <2>4, <2>5, <2>6
<1>5. ASSUME NEW t \in Thread, StoreStartupData(t)
      PROVE  IInv'
  <2>1. TypeOK'
    BY <1>5 DEF StoreStartupData, TypeOK
  <2>2. HolderRuns' /\ OneStarts' /\ HooksAlone'
    BY <1>5 DEF StoreStartupData, TypeOK, HolderRuns, OneStarts, HooksAlone
  <2>3. JobsDistinct'
    BY <1>5 DEF StoreStartupData, TypeOK, OneStarts, JobsDistinct,
       CallableStored
  <2>4. CallableStored'
    BY <1>5 DEF StoreStartupData, TypeOK, OneStarts, JobsDistinct,
       CallableStored
  <2>5. StartupDataKept'
    BY <1>5 DEF StoreStartupData, TypeOK, OneStarts, JobsDistinct,
       CallableStored, StartupDataKept
  <2>6. ContextsRegistered' /\ SignalsInMainThread'
    BY <1>5 DEF StoreStartupData, TypeOK, HolderRuns, ContextsRegistered,
       SignalsInMainThread
  <2> QED
    BY <2>1, <2>2, <2>3, <2>4, <2>5, <2>6
<1>6. ASSUME NEW t \in Thread, ThreadCreated(t)
      PROVE  IInv'
  <2>1. TypeOK'
    BY <1>6 DEF ThreadCreated, TypeOK
  <2>2. HolderRuns' /\ OneStarts' /\ HooksAlone'
    BY <1>6 DEF ThreadCreated, TypeOK, HolderRuns, OneStarts, HooksAlone
  <2>3. JobsDistinct'
    BY <1>6 DEF ThreadCreated, TypeOK, OneStarts, JobsDistinct,
       CallableStored
  <2>4. CallableStored'
    BY <1>6 DEF ThreadCreated, TypeOK, OneStarts, JobsDistinct,
       CallableStored
  <2>5. StartupDataKept'
    BY <1>6 DEF ThreadCreated, TypeOK, OneStarts, JobsDistinct,
       CallableStored, StartupDataKept
  <2>6. ContextsRegistered' /\ SignalsInMainThread'
    BY <1>6 DEF ThreadCreated, TypeOK, HolderRuns, ContextsRegistered,
       SignalsInMainThread
  <2> QED
    BY <2>1, <2>2, <2>3, <2>4, <2>5, <2>6
<1>7. ASSUME NEW t \in Thread, CreateFails(t)
      PROVE  IInv'
  <2>1. TypeOK'
    BY <1>7 DEF CreateFails, TypeOK
  <2>2. HolderRuns' /\ OneStarts' /\ HooksAlone'
    BY <1>7 DEF CreateFails, TypeOK, HolderRuns, OneStarts, HooksAlone
  <2>3. JobsDistinct'
    BY <1>7 DEF CreateFails, TypeOK, OneStarts, JobsDistinct,
       CallableStored
  <2>4. CallableStored'
    BY <1>7 DEF CreateFails, TypeOK, OneStarts, JobsDistinct,
       CallableStored
  <2>5. StartupDataKept'
    BY <1>7 DEF CreateFails, TypeOK, OneStarts, JobsDistinct,
       CallableStored, StartupDataKept
  <2>6. ContextsRegistered' /\ SignalsInMainThread'
    BY <1>7 DEF CreateFails, TypeOK, HolderRuns, ContextsRegistered,
       SignalsInMainThread
  <2> QED
    BY <2>1, <2>2, <2>3, <2>4, <2>5, <2>6
<1>8. ASSUME NEW t \in Thread, StartReturns(t)
      PROVE  IInv'
  <2>1. TypeOK'
    BY <1>8 DEF StartReturns, TypeOK
  <2>2. HolderRuns' /\ OneStarts' /\ HooksAlone'
    BY <1>8 DEF StartReturns, TypeOK, HolderRuns, OneStarts, HooksAlone
  <2>3. JobsDistinct'
    BY <1>8 DEF StartReturns, TypeOK, OneStarts, JobsDistinct,
       CallableStored
  <2>4. CallableStored'
    BY <1>8 DEF StartReturns, TypeOK, OneStarts, JobsDistinct,
       CallableStored
  <2>5. StartupDataKept'
    BY <1>8 DEF StartReturns, TypeOK, OneStarts, JobsDistinct,
       CallableStored, StartupDataKept
  <2>6. ContextsRegistered' /\ SignalsInMainThread'
    BY <1>8 DEF StartReturns, TypeOK, HolderRuns, ContextsRegistered,
       SignalsInMainThread
  <2> QED
    BY <2>1, <2>2, <2>3, <2>4, <2>5, <2>6
<1>9. ASSUME NEW t \in Thread, StartRaises(t)
      PROVE  IInv'
  <2>1. TypeOK'
    BY <1>9 DEF StartRaises, release, TypeOK
  <2>2. HolderRuns' /\ OneStarts' /\ HooksAlone'
    BY <1>9 DEF StartRaises, release, TypeOK, HolderRuns, OneStarts,
       HooksAlone
  <2>3. JobsDistinct'
    BY <1>9 DEF StartRaises, release, TypeOK, OneStarts, JobsDistinct,
       CallableStored
  <2>4. CallableStored'
    BY <1>9 DEF StartRaises, release, TypeOK, OneStarts, JobsDistinct,
       CallableStored
  <2>5. StartupDataKept'
    BY <1>9 DEF StartRaises, release, TypeOK, OneStarts, JobsDistinct,
       CallableStored, StartupDataKept
  <2>6. ContextsRegistered' /\ SignalsInMainThread'
    BY <1>9 DEF StartRaises, release, TypeOK, HolderRuns,
       ContextsRegistered, SignalsInMainThread
  <2> QED
    BY <2>1, <2>2, <2>3, <2>4, <2>5, <2>6
<1>10. ASSUME NEW t \in Thread, bootstrap(t)
      PROVE  IInv'
  <2>1. TypeOK'
    BY <1>10 DEF bootstrap, release, enter_thread, CallableRuns,
       EnabledAtStart, TypeOK
  <2>2. HolderRuns' /\ OneStarts' /\ HooksAlone'
    BY <1>10 DEF bootstrap, release, enter_thread, CallableRuns,
       EnabledAtStart, TypeOK, HolderRuns, OneStarts, HooksAlone
  <2>3. JobsDistinct'
    BY <1>10 DEF bootstrap, release, enter_thread, CallableRuns,
       EnabledAtStart, TypeOK, OneStarts, JobsDistinct, CallableStored
  <2>4. CallableStored'
    BY <1>10 DEF bootstrap, release, enter_thread, CallableRuns,
       EnabledAtStart, TypeOK, OneStarts, JobsDistinct, CallableStored
  <2>5. StartupDataKept'
    BY <1>10 DEF bootstrap, release, enter_thread, CallableRuns,
       EnabledAtStart, TypeOK, OneStarts, JobsDistinct, CallableStored,
       StartupDataKept
  <2>6. ContextsRegistered' /\ SignalsInMainThread'
    BY <1>10 DEF bootstrap, release, enter_thread, CallableRuns,
       EnabledAtStart, TypeOK, HolderRuns, ContextsRegistered,
       SignalsInMainThread
  <2> QED
    BY <2>1, <2>2, <2>3, <2>4, <2>5, <2>6
<1>11. ASSUME NEW t \in Thread, ThreadEnds(t)
      PROVE  IInv'
  <2>1. TypeOK'
    BY <1>11 DEF ThreadEnds, leave_thread, skip_leave_thread, Stopped, is_acquired, TypeOK
  <2>2. HolderRuns' /\ OneStarts' /\ HooksAlone'
    BY <1>11 DEF ThreadEnds, leave_thread, skip_leave_thread, Stopped, is_acquired, TypeOK,
       HolderRuns, OneStarts, HooksAlone
  <2>3. JobsDistinct'
    BY <1>11 DEF ThreadEnds, leave_thread, skip_leave_thread, Stopped, is_acquired, TypeOK,
       OneStarts, JobsDistinct, CallableStored
  <2>4. CallableStored'
    BY <1>11 DEF ThreadEnds, leave_thread, skip_leave_thread, Stopped, is_acquired, TypeOK,
       OneStarts, JobsDistinct, CallableStored
  <2>5. StartupDataKept'
    BY <1>11 DEF ThreadEnds, leave_thread, skip_leave_thread, Stopped, is_acquired, TypeOK,
       OneStarts, JobsDistinct, CallableStored, StartupDataKept
  <2>6. ContextsRegistered' /\ SignalsInMainThread'
    BY <1>11 DEF ThreadEnds, leave_thread, skip_leave_thread, Stopped, is_acquired, TypeOK,
       HolderRuns, ContextsRegistered, SignalsInMainThread
  <2> QED
    BY <2>1, <2>2, <2>3, <2>4, <2>5, <2>6
<1>12. ASSUME NEW t \in Thread, _set_sentinel(t)
      PROVE  IInv'
  <2>1. TypeOK'
    BY <1>12 DEF _set_sentinel, TypeOK
  <2>2. HolderRuns' /\ OneStarts' /\ HooksAlone'
    BY <1>12 DEF _set_sentinel, TypeOK, HolderRuns, OneStarts, HooksAlone
  <2>3. JobsDistinct'
    BY <1>12 DEF _set_sentinel, TypeOK, OneStarts, JobsDistinct,
       CallableStored
  <2>4. CallableStored'
    BY <1>12 DEF _set_sentinel, TypeOK, OneStarts, JobsDistinct,
       CallableStored
  <2>5. StartupDataKept'
    BY <1>12 DEF _set_sentinel, TypeOK, OneStarts, JobsDistinct,
       CallableStored, StartupDataKept
  <2>6. ContextsRegistered' /\ SignalsInMainThread'
    BY <1>12 DEF _set_sentinel, TypeOK, HolderRuns, ContextsRegistered,
       SignalsInMainThread
  <2> QED
    BY <2>1, <2>2, <2>3, <2>4, <2>5, <2>6
<1>13. ASSUME NEW t \in Thread, SentinelAcquire(t)
      PROVE  IInv'
  <2>1. TypeOK'
    BY <1>13 DEF SentinelAcquire, TypeOK
  <2>2. HolderRuns' /\ OneStarts' /\ HooksAlone'
    BY <1>13 DEF SentinelAcquire, TypeOK, HolderRuns, OneStarts, HooksAlone
  <2>3. JobsDistinct'
    BY <1>13 DEF SentinelAcquire, TypeOK, OneStarts, JobsDistinct,
       CallableStored
  <2>4. CallableStored'
    BY <1>13 DEF SentinelAcquire, TypeOK, OneStarts, JobsDistinct,
       CallableStored
  <2>5. StartupDataKept'
    BY <1>13 DEF SentinelAcquire, TypeOK, OneStarts, JobsDistinct,
       CallableStored, StartupDataKept
  <2>6. ContextsRegistered' /\ SignalsInMainThread'
    BY <1>13 DEF SentinelAcquire, TypeOK, HolderRuns, ContextsRegistered,
       SignalsInMainThread
  <2> QED
    BY <2>1, <2>2, <2>3, <2>4, <2>5, <2>6
<1>14. ASSUME NEW t \in Thread, JoinerTakes(t)
      PROVE  IInv'
  <2>1. TypeOK'
    BY <1>14 DEF JoinerTakes, TypeOK
  <2>2. HolderRuns' /\ OneStarts' /\ HooksAlone'
    BY <1>14 DEF JoinerTakes, TypeOK, HolderRuns, OneStarts, HooksAlone
  <2>3. JobsDistinct'
    BY <1>14 DEF JoinerTakes, TypeOK, OneStarts, JobsDistinct,
       CallableStored
  <2>4. CallableStored'
    BY <1>14 DEF JoinerTakes, TypeOK, OneStarts, JobsDistinct,
       CallableStored
  <2>5. StartupDataKept'
    BY <1>14 DEF JoinerTakes, TypeOK, OneStarts, JobsDistinct,
       CallableStored, StartupDataKept
  <2>6. ContextsRegistered' /\ SignalsInMainThread'
    BY <1>14 DEF JoinerTakes, TypeOK, HolderRuns, ContextsRegistered,
       SignalsInMainThread
  <2> QED
    BY <2>1, <2>2, <2>3, <2>4, <2>5, <2>6
<1>15. ASSUME NEW t \in Thread, JoinerReleases(t)
      PROVE  IInv'
  <2>1. TypeOK'
    BY <1>15 DEF JoinerReleases, TypeOK
  <2>2. HolderRuns' /\ OneStarts' /\ HooksAlone'
    BY <1>15 DEF JoinerReleases, TypeOK, HolderRuns, OneStarts, HooksAlone
  <2>3. JobsDistinct'
    BY <1>15 DEF JoinerReleases, TypeOK, OneStarts, JobsDistinct,
       CallableStored
  <2>4. CallableStored'
    BY <1>15 DEF JoinerReleases, TypeOK, OneStarts, JobsDistinct,
       CallableStored
  <2>5. StartupDataKept'
    BY <1>15 DEF JoinerReleases, TypeOK, OneStarts, JobsDistinct,
       CallableStored, StartupDataKept
  <2>6. ContextsRegistered' /\ SignalsInMainThread'
    BY <1>15 DEF JoinerReleases, TypeOK, HolderRuns, ContextsRegistered,
       SignalsInMainThread
  <2> QED
    BY <2>1, <2>2, <2>3, <2>4, <2>5, <2>6
<1>16. ASSUME NEW t \in Thread, finish(t)
      PROVE  IInv'
  <2>1. TypeOK'
    BY <1>16 DEF finish, TypeOK
  <2>2. HolderRuns' /\ OneStarts' /\ HooksAlone'
    BY <1>16 DEF finish, TypeOK, HolderRuns, OneStarts, HooksAlone
  <2>3. JobsDistinct'
    BY <1>16 DEF finish, TypeOK, OneStarts, JobsDistinct, CallableStored
  <2>4. CallableStored'
    BY <1>16 DEF finish, TypeOK, OneStarts, JobsDistinct, CallableStored
  <2>5. StartupDataKept'
    BY <1>16 DEF finish, TypeOK, OneStarts, JobsDistinct, CallableStored,
       StartupDataKept
  <2>6. ContextsRegistered' /\ SignalsInMainThread'
    BY <1>16 DEF finish, TypeOK, HolderRuns, ContextsRegistered,
       SignalsInMainThread
  <2> QED
    BY <2>1, <2>2, <2>3, <2>4, <2>5, <2>6
<1>17. ASSUME NEW t \in Thread, Fork(t)
      PROVE  IInv'
  <2>1. TypeOK'
    <3>1. signals_enabled' \in [Thread -> 0..1]
      <4>1. t \in contexts
        BY <1>17 DEF Fork, ContextsRegistered
      <4> QED
        BY <1>17, <4>1 DEF Fork, reinit_threads, reinit_enabled, TypeOK, SignalsInMainThread
    <3>2. jobs' \in [Job -> {"new", "given", "running", "failed"}]
      BY <1>17 DEF Fork, TypeOK
    <3>3. forks' \in 0..MaxForks /\ hooks' \in 0..MaxForks
      BY <1>17 DEF Fork, TypeOK, HooksAlone
    <3> QED
      BY <1>17, <3>1, <3>2, <3>3 DEF Fork, reinit_threads, reinit,
         TypeOK
  <2>2. HolderRuns' /\ OneStarts' /\ HooksAlone'
    BY <1>17 DEF Fork, reinit_threads, reinit, reinit_enabled,
       TypeOK, HolderRuns, OneStarts, HooksAlone
  <2>3. JobsDistinct'
    BY <1>17 DEF Fork, reinit_threads, reinit, reinit_enabled,
       TypeOK, OneStarts, JobsDistinct,
       CallableStored
  <2>4. CallableStored'
    BY <1>17 DEF Fork, reinit_threads, reinit, reinit_enabled,
       TypeOK, OneStarts, JobsDistinct,
       CallableStored
  <2>5. StartupDataKept'
    BY <1>17 DEF Fork, reinit_threads, reinit, reinit_enabled,
       TypeOK, OneStarts, JobsDistinct,
       CallableStored, StartupDataKept
  <2>6. ContextsRegistered' /\ SignalsInMainThread'
    BY <1>17 DEF Fork, reinit_threads, reinit, reinit_enabled,
       TypeOK, HolderRuns, ContextsRegistered,
       SignalsInMainThread
  <2> QED
    BY <2>1, <2>2, <2>3, <2>4, <2>5, <2>6
<1>18. ASSUME NEW t \in Thread, HooksEnd(t)
      PROVE  IInv'
  <2>1. TypeOK'
    BY <1>18 DEF HooksEnd, reinit_threads, reinit, reinit_enabled, TypeOK
  <2>2. HolderRuns' /\ OneStarts' /\ HooksAlone'
    BY <1>18 DEF HooksEnd, reinit_threads, reinit, reinit_enabled, TypeOK,
       HolderRuns, OneStarts, HooksAlone
  <2>3. JobsDistinct'
    BY <1>18 DEF HooksEnd, reinit_threads, reinit, reinit_enabled, TypeOK,
       OneStarts, JobsDistinct, CallableStored
  <2>4. CallableStored'
    BY <1>18 DEF HooksEnd, reinit_threads, reinit, reinit_enabled, TypeOK,
       HooksAlone, OneStarts, JobsDistinct, CallableStored
  <2>5. StartupDataKept'
    BY <1>18 DEF HooksEnd, reinit_threads, reinit, reinit_enabled, TypeOK,
       HooksAlone, OneStarts, JobsDistinct, CallableStored, StartupDataKept
  <2>6. ContextsRegistered' /\ SignalsInMainThread'
    BY <1>18 DEF HooksEnd, reinit_threads, reinit, reinit_enabled, TypeOK,
       HooksAlone, HolderRuns, ContextsRegistered, SignalsInMainThread
  <2> QED
    BY <2>1, <2>2, <2>3, <2>4, <2>5, <2>6
<1>19. CASE UNCHANGED vars
  BY <1>19 DEF vars, TypeOK, HolderRuns, HooksAlone, OneStarts,
     JobsDistinct, CallableStored, StartupDataKept, ContextsRegistered,
     SignalsInMainThread
<1> QED
  BY <1>1, <1>2, <1>3, <1>4, <1>5, <1>6, <1>7, <1>8, <1>9, <1>10,
     <1>11, <1>12, <1>13, <1>14, <1>15, <1>16, <1>17, <1>18, <1>19 DEF Next, ProcessEnded

(* The inductive invariant holds in every reachable state.                 *)
LEMMA Invariance == ASSUME ~ThreadsInHooks PROVE Spec => []IInv
<1>1. Init => IInv
  <2> SUFFICES ASSUME Init
               PROVE  IInv
    OBVIOUS
  <2>1. TypeOK
    <3>1. /\ pc \in [Thread -> Points] /\ job \in [Thread -> Job \cup {NoJob}]
          /\ jobs \in [Job -> {"new", "given", "running", "failed"}]
          /\ signals_enabled \in [Thread -> 0..1]
          /\ sentinel \in [Thread -> {"None", "free", "self", "other"}]
      BY ThreadsAssumption DEF Init
    <3>2. gil \in Thread /\ mainthreadident \in Thread /\ booted \subseteq Thread
          /\ valuedict \subseteq Thread /\ contexts \subseteq Thread
      BY ThreadsAssumption DEF Init
    <3>3. nbthreads \in Int /\ forks \in 0..MaxForks /\ hooks \in 0..MaxForks
      BY ThreadsAssumption DEF Init
    <3>4. finalizing = FALSE /\ abandoned = {} /\ lock = "None" /\ w_callable = NoJob
      BY ThreadsAssumption DEF Init
    <3> QED
      BY <3>1, <3>2, <3>3, <3>4 DEF TypeOK
  <2>2. HolderRuns /\ HooksAlone /\ OneStarts /\ JobsDistinct
    BY ThreadsAssumption DEF Init, HolderRuns, HooksAlone, OneStarts, JobsDistinct
  <2>3. CallableStored /\ StartupDataKept
    BY ThreadsAssumption DEF Init, CallableStored, StartupDataKept
  <2>4. ContextsRegistered /\ SignalsInMainThread
    BY ThreadsAssumption DEF Init, ContextsRegistered, SignalsInMainThread
  <2> QED
    BY <2>1, <2>2, <2>3, <2>4 DEF IInv
<1> QED
  BY <1>1, StepKeeps, PTL DEF Spec

(* The fields keep their types, and signals are enabled at most once in    *)
(* every thread.                                                           *)
THEOREM ThreadTypes ==
    ASSUME ~ThreadsInHooks PROVE Spec => []TypeOK
<1>1. IInv => TypeOK
  BY DEF IInv
<1> QED
  BY <1>1, Invariance, PTL

(* bootstrapper.lock protects the start-up data through failed starts and  *)
(* forks: every callable reaches one new thread, and none gets another's.  *)
THEOREM StartupDataIsKept ==
    ASSUME ~ThreadsInHooks PROVE Spec => []StartupDataKept
<1>1. IInv => StartupDataKept
  BY DEF IInv
<1> QED
  BY <1>1, Invariance, PTL

(* Every living thread's execution context is registered, and besides them *)
(* only those that threads left behind which ended without leave_thread(). *)
THEOREM ContextsAreRegistered ==
    ASSUME ~ThreadsInHooks PROVE Spec => []ContextsRegistered
<1>1. IInv => ContextsRegistered
  BY DEF IInv
<1> QED
  BY <1>1, Invariance, PTL

(* Signal handlers belong to the main thread, through any sequence of      *)
(* forks from any thread.                                                  *)
THEOREM SignalsAreForMainThread ==
    ASSUME ~ThreadsInHooks PROVE Spec => []SignalsInMainThread
<1>1. IInv => SignalsInMainThread
  BY DEF IInv
<1> QED
  BY <1>1, Invariance, PTL
=============================================================================
