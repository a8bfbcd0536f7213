---------------------------- MODULE RollouterProofs ----------------------------
(***************************************************************************)
(* The invariant of the rollouter's event loop, proved for every number of *)
(* samples and every bound, and for any behaviour of the other actors: the *)
(* queue may report any size and answer any put_sample either way, and the *)
(* trainer may call reset_staleness at any time.                           *)
(***************************************************************************)
EXTENDS Rollouter, FiniteSetTheorems, TLAPS

-----------------------------------------------------------------------------
(* Facts about the data *)

LEMMA SamplesFinite == IsFiniteSet(Samples)
  BY RollouterAssumption, FS_Interval DEF Samples

LEMMA ActiveFinite ==
  ASSUME RollouterTypeOK
  PROVE  IsFiniteSet(active_tasks) /\ Cardinality(active_tasks) \in Nat
  BY SamplesFinite, FS_Subset, FS_CardinalityType DEF RollouterTypeOK

LEMMA CoroutineNames == {"processor", "monitor", "reset", "main"} \subseteq Coroutines
  BY DEF Coroutines

\* What the coroutines do to the lock leaves a list of coroutines.
LEMMA LockReleased ==
  ASSUME lock \in Seq(Coroutines)
  PROVE  Released \in Seq(Coroutines)
  BY DEF Released

LEMMA LockTypes ==
  ASSUME lock \in Seq(Coroutines), NEW c \in Coroutines
  PROVE  /\ HeldBy(c) \in Seq(Coroutines)
         /\ Append(lock, c) \in Seq(Coroutines)
         /\ lock # <<>> => /\ Tail(lock) \in Seq(Coroutines)
                           /\ Append(Tail(lock), c) \in Seq(Coroutines)
<1>1. <<c>> \in Seq(Coroutines) OBVIOUS
<1>2. lock # <<>> => Tail(lock) \in Seq(Coroutines) OBVIOUS
<1>3. Append(lock, c) \in Seq(Coroutines) OBVIOUS
<1>4. lock # <<>> => Append(Tail(lock), c) \in Seq(Coroutines) BY <1>2
<1>. QED BY <1>1, <1>2, <1>3, <1>4 DEF HeldBy

-----------------------------------------------------------------------------
(* The initial state *)

\* RollouterInv holds when the coroutines of fit start.
LEMMA RollouterInvInit == RollouterInit => RollouterInv
<1>. SUFFICES ASSUME RollouterInit PROVE RollouterInv
  OBVIOUS
<1>1. RollouterTypeOK
  <2>1. lock \in Seq(Coroutines) /\ pending_queue \in Seq(Samples \union {None})
    BY DEF RollouterInit
  <2>2. global_steps \in Samples
    BY RollouterAssumption DEF RollouterInit, Samples
  <2>3. task_state \in [Samples -> {"new", "generating", "put", "overflow", "done", "failed"}]
    BY DEF RollouterInit
  <2>4. active_tasks \in SUBSET Samples /\ rollout_sample \in Samples \union {None}
    BY DEF RollouterInit
  <2>. QED BY <2>1, <2>2, <2>3, <2>4 DEF RollouterTypeOK, RollouterInit
<1>2. HandInv /\ UnpausedInv /\ LockInv
  BY DEF RollouterInit, HandInv, UnpausedInv, LockInv, Admitting
<1>3. ActiveInv
  <2>1. Cardinality(active_tasks) = 0
    BY FS_EmptySet DEF RollouterInit
  <2>. QED BY <2>1, RollouterAssumption DEF RollouterInit, ActiveInv, Generating
<1>. QED BY <1>1, <1>2, <1>3 DEF RollouterInv

-----------------------------------------------------------------------------
(* The steps *)

\* Types.  HandInv is needed for the submission of the sample in hand.
LEMMA RollouterTypeStep ==
  ASSUME RollouterTypeOK, HandInv, RollouterNext
  PROVE  RollouterTypeOK'
<1>. USE DEF procVars, feedVars, taskVars, resetVars
<1>. SUFFICES ASSUME NEW queue_size \in Nat, RollouterStep(queue_size) \/ EnvironmentStep
              PROVE  RollouterTypeOK'
  BY DEF RollouterNext
<1>1. CASE FeedSample
  BY <1>1, RollouterAssumption DEF RollouterTypeOK, Samples, LastSample, FeedSample,
     OnLoop, PendingFull
<1>2. CASE FeedEnd
  BY <1>2 DEF RollouterTypeOK, FeedEnd, OnLoop, PendingFull
<1>3. CASE ProcessorTop(queue_size)
  BY <1>3 DEF RollouterTypeOK, ProcessorTop, OnLoop, procOthers
<1>4. CASE ProcessorAwaitLock
  <2>1. lock' \in Seq(Coroutines)
    BY <1>4, LockTypes, CoroutineNames DEF RollouterTypeOK, ProcessorAwaitLock, JoinLock
  <2>. QED BY <1>4, <2>1 DEF RollouterTypeOK, ProcessorAwaitLock, procOthers
<1>5. CASE ProcessorPause
  BY <1>5 DEF RollouterTypeOK, ProcessorPause, OnLoop, Acquires, Released,
     procOthers
<1>6. CASE ProcessorGet
  BY <1>6 DEF RollouterTypeOK, ProcessorGet, OnLoop, procOthers
<1>7. CASE ProcessorDrained
  BY <1>7 DEF RollouterTypeOK, ProcessorDrained, OnLoop, MustDrain, procOthers
<1>8. CASE ProcessorDrain
  <2>1. lock' \in Seq(Coroutines)
    BY <1>8, LockTypes, CoroutineNames DEF RollouterTypeOK, ProcessorDrain
  <2>. QED BY <1>8, <2>1 DEF RollouterTypeOK, ProcessorDrain, procOthers
<1>9. CASE ProcessorReap
  <2>1. lock' \in Seq(Coroutines)
    BY <1>9, LockReleased DEF RollouterTypeOK, ProcessorReap
  <2>2. CASE \E t \in FinishedTasks : task_state[t] = "failed"
    BY <1>9, <2>1, <2>2 DEF RollouterTypeOK, ProcessorReap, procOthers
  <2>3. CASE ~\E t \in FinishedTasks : task_state[t] = "failed"
    BY <1>9, <2>1, <2>3 DEF RollouterTypeOK, ProcessorReap, procOthers
  <2>. QED BY <2>2, <2>3
<1>10. CASE ProcessorHold
  BY <1>10 DEF RollouterTypeOK, ProcessorHold, OnLoop, Acquires, Released,
     procOthers
<1>11. CASE ProcessorWake
  BY <1>11 DEF RollouterTypeOK, ProcessorWake, OnLoop, procOthers
<1>12. CASE ProcessorSubmit
  <2>1. lock' \in Seq(Coroutines)
    BY <1>12, LockReleased DEF RollouterTypeOK, ProcessorSubmit
  <2>2. CASE paused
    BY <1>12, <2>1, <2>2 DEF RollouterTypeOK, ProcessorSubmit
  <2>3. CASE ~paused
    <3>1. rollout_sample \in Samples
      BY <1>12 DEF RollouterTypeOK, HandInv, Admitting, ProcessorSubmit
    <3>. QED BY <1>12, <2>1, <2>3, <3>1 DEF RollouterTypeOK, ProcessorSubmit
  <2>. QED BY <2>2, <2>3
<1>13. CASE ResetAwaitLock
  <2>1. lock' \in Seq(Coroutines)
    BY <1>13, LockTypes, CoroutineNames DEF RollouterTypeOK, ResetAwaitLock, JoinLock
  <2>. QED BY <1>13, <2>1 DEF RollouterTypeOK, ResetAwaitLock
<1>14. CASE ResetStart
  <2>1. lock' \in Seq(Coroutines)
    BY <1>14, LockTypes, CoroutineNames DEF RollouterTypeOK, ResetStart
  <2>2. Cardinality(active_tasks) \in Nat
    BY ActiveFinite
  <2>. QED BY <1>14, <2>1, <2>2 DEF RollouterTypeOK, ResetStart, Notified
<1>15. CASE ResetCount(queue_size)
  BY <1>15 DEF RollouterTypeOK, ResetCount
<1>16. CASE ResetFinish
  BY <1>16 DEF RollouterTypeOK, ResetFinish, Released
<1>17. CASE MonitorWake(queue_size)
  <2>1. lock' \in Seq(Coroutines)
    BY <1>17, LockTypes, CoroutineNames DEF RollouterTypeOK, MonitorWake, JoinLock
  <2>2. CASE lock = <<>>
    BY <1>17, <2>1, <2>2
       DEF RollouterTypeOK, MonitorWake, Notified, MonitorNext, monitorOthers
  <2>3. CASE lock # <<>>
    BY <1>17, <2>1, <2>3 DEF RollouterTypeOK, MonitorWake, monitorOthers
  <2>. QED BY <2>2, <2>3
<1>18. CASE MonitorResume
  <2>1. lock' \in Seq(Coroutines)
    <3>1. CASE Tail(lock) = <<>>
      BY <1>18, <3>1 DEF MonitorResume
    <3>2. CASE Tail(lock) # <<>>
      BY <1>18, <3>2, LockTypes, CoroutineNames DEF RollouterTypeOK, MonitorResume
    <3>. QED BY <3>1, <3>2
  <2>. QED
    BY <1>18, <2>1 DEF RollouterTypeOK, MonitorResume, Notified, MonitorNext, monitorOthers
<1>19. CASE MonitorCheck
  BY <1>19 DEF RollouterTypeOK, MonitorCheck, MonitorNext, monitorOthers
<1>20. CASE MainJoin
  BY <1>20 DEF RollouterTypeOK, MainJoin, mainOthers
<1>21. CASE MainAbort
  BY <1>21 DEF RollouterTypeOK, MainAbort, mainOthers
<1>22. CASE MainAwaitLock
  <2>1. lock' \in Seq(Coroutines)
    BY <1>22, LockTypes, CoroutineNames DEF RollouterTypeOK, MainAwaitLock, JoinLock
  <2>. QED BY <1>22, <2>1 DEF RollouterTypeOK, MainAwaitLock, mainOthers
<1>23. CASE MainStop
  <2>1. lock' \in Seq(Coroutines)
    BY <1>23, LockReleased DEF RollouterTypeOK, MainStop
  <2>2. running' \in BOOLEAN /\ main_pc' = "done" /\ UNCHANGED feed_pc
    BY <1>23 DEF MainStop
  <2>3. UNCHANGED <<loop, global_steps, pending_queue, paused, monitor_pc>>
    BY <1>23 DEF MainStop, mainOthers
  <2>4. UNCHANGED <<proc_pc, drain_for, rollout_sample, active_tasks, staleness_samples>>
    BY <1>23 DEF MainStop, mainOthers
  <2>5. UNCHANGED <<task_state, total_generated_samples, dropped_stale_samples,
                    reset_pc, reset_count>>
    BY <1>23 DEF MainStop, mainOthers
  <2>. QED BY <2>1, <2>2, <2>3, <2>4, <2>5 DEF RollouterTypeOK
<1>24. ASSUME NEW s \in Samples, TaskFinish(s)
      PROVE  RollouterTypeOK'
  BY <1>24 DEF RollouterTypeOK, TaskFinish, taskOthers
<1>25. ASSUME NEW s \in Samples, TaskFail(s)
      PROVE  RollouterTypeOK'
  BY <1>25 DEF RollouterTypeOK, TaskFail, taskOthers
<1>26. ASSUME NEW s \in Samples, NEW success \in BOOLEAN, TaskPut(s, success)
      PROVE  RollouterTypeOK'
  BY <1>26 DEF RollouterTypeOK, TaskPut, taskOthers
<1>27. CASE MainSignal
  BY <1>27 DEF RollouterTypeOK, MainSignal, mainOthers
<1>28. CASE ResetCalled
  BY <1>28 DEF RollouterTypeOK, ResetCalled
<1>29. CASE ResetReplied
  BY <1>29 DEF RollouterTypeOK, ResetReplied
<1>. QED
  BY <1>1, <1>2, <1>3, <1>4, <1>5, <1>6, <1>7, <1>8, <1>9, <1>10, <1>11, <1>12,
     <1>13, <1>14, <1>15, <1>16, <1>17, <1>18, <1>19, <1>20, <1>21, <1>22, <1>23,
     <1>24, <1>25, <1>26, <1>27, <1>28, <1>29 DEF RollouterStep, EnvironmentStep,
     FeedStep, ProcessorStep, ResetStep, MonitorStep, MainStep

\* Control.  Only the holder of the lock is suspended inside it, and nobody pauses
\* the processor but itself.
LEMMA RollouterControlStep ==
  ASSUME RollouterInv, RollouterNext
  PROVE  HandInv' /\ UnpausedInv' /\ LockInv'
<1>. USE DEF RollouterInv
<1>. USE DEF procVars, feedVars, taskVars, resetVars
<1>. SUFFICES ASSUME NEW queue_size \in Nat, RollouterStep(queue_size) \/ EnvironmentStep
              PROVE  HandInv' /\ UnpausedInv' /\ LockInv'
  BY DEF RollouterNext
<1>1. CASE FeedSample
  <2>1. HandInv' /\ UnpausedInv'
    BY <1>1 DEF RollouterTypeOK, HandInv, UnpausedInv, ActiveInv, Admitting,
       FeedSample, OnLoop, PendingFull
  <2>2. LockInv'
    BY <1>1 DEF RollouterTypeOK, LockInv, FeedSample, OnLoop, PendingFull
  <2>. QED BY <2>1, <2>2
<1>2. CASE FeedEnd
  <2>1. HandInv' /\ UnpausedInv'
    BY <1>2 DEF RollouterTypeOK, HandInv, UnpausedInv, ActiveInv, Admitting,
       FeedEnd, OnLoop, PendingFull
  <2>2. LockInv'
    BY <1>2 DEF RollouterTypeOK, LockInv, FeedEnd, OnLoop, PendingFull
  <2>. QED BY <2>1, <2>2
<1>3. CASE ProcessorTop(queue_size)
  <2>1. HandInv' /\ UnpausedInv'
    BY <1>3 DEF RollouterTypeOK, HandInv, UnpausedInv, ActiveInv, Admitting,
       ProcessorTop, OnLoop, procOthers
  <2>2. LockInv'
    BY <1>3 DEF RollouterTypeOK, LockInv, ProcessorTop, OnLoop, procOthers
  <2>. QED BY <2>1, <2>2
<1>4. CASE ProcessorAwaitLock
  <2>1. HandInv' /\ UnpausedInv'
    BY <1>4 DEF RollouterTypeOK, HandInv, UnpausedInv, ActiveInv, Admitting,
       ProcessorAwaitLock, MustWait, JoinLock, procLockLabels, procOthers
  <2>2. LockInv'
    BY <1>4 DEF RollouterTypeOK, LockInv, ProcessorAwaitLock, MustWait, JoinLock,
       procLockLabels, procOthers
  <2>. QED BY <2>1, <2>2
<1>5. CASE ProcessorPause
  <2>1. HandInv' /\ UnpausedInv'
    BY <1>5 DEF RollouterTypeOK, HandInv, UnpausedInv, ActiveInv, Admitting,
       ProcessorPause, OnLoop, Acquires, Released, procOthers
  <2>2. LockInv'
    BY <1>5 DEF RollouterTypeOK, LockInv, ProcessorPause, OnLoop, Acquires,
       Released, procOthers
  <2>. QED BY <2>1, <2>2
<1>6. CASE ProcessorGet
  <2>1. HandInv' /\ UnpausedInv'
    BY <1>6 DEF RollouterTypeOK, HandInv, UnpausedInv, ActiveInv, Admitting,
       ProcessorGet, OnLoop, procOthers
  <2>2. LockInv'
    BY <1>6 DEF RollouterTypeOK, LockInv, ProcessorGet, OnLoop, procOthers
  <2>. QED BY <2>1, <2>2
<1>7. CASE ProcessorDrained
  <2>1. HandInv' /\ UnpausedInv'
    BY <1>7 DEF RollouterTypeOK, HandInv, UnpausedInv, ActiveInv, Admitting,
       ProcessorDrained, OnLoop, MustDrain, procOthers
  <2>2. LockInv'
    BY <1>7 DEF RollouterTypeOK, LockInv, ProcessorDrained, OnLoop, MustDrain,
       procOthers
  <2>. QED BY <2>1, <2>2
<1>8. CASE ProcessorDrain
  <2>1. HandInv' /\ UnpausedInv'
    BY <1>8 DEF RollouterTypeOK, HandInv, UnpausedInv, ActiveInv, Admitting,
       ProcessorDrain, OnLoop, MustDrain, Acquires, HeldBy, procOthers
  <2>2. LockInv'
    BY <1>8 DEF RollouterTypeOK, LockInv, ProcessorDrain, OnLoop, MustDrain,
       Acquires, HeldBy, procOthers
  <2>. QED BY <2>1, <2>2
<1>9. CASE ProcessorReap
  <2>1. HandInv' /\ UnpausedInv'
    BY <1>9 DEF RollouterTypeOK, HandInv, UnpausedInv, ActiveInv, Admitting,
       ProcessorReap, OnLoop, FinishedTasks, Released, procOthers
  <2>2. LockInv'
    BY <1>9 DEF RollouterTypeOK, LockInv, ProcessorReap, OnLoop, FinishedTasks,
       Released, procOthers
  <2>. QED BY <2>1, <2>2
<1>10. CASE ProcessorHold
  <2>1. HandInv' /\ UnpausedInv'
    BY <1>10 DEF RollouterTypeOK, HandInv, UnpausedInv, ActiveInv, Admitting,
       ProcessorHold, OnLoop, Acquires, Released, procOthers
  <2>2. LockInv'
    BY <1>10 DEF RollouterTypeOK, LockInv, ProcessorHold, OnLoop, Acquires,
       Released, procOthers
  <2>. QED BY <2>1, <2>2
<1>11. CASE ProcessorWake
  <2>1. HandInv' /\ UnpausedInv'
    BY <1>11 DEF RollouterTypeOK, HandInv, UnpausedInv, ActiveInv, Admitting,
       ProcessorWake, OnLoop, procOthers
  <2>2. LockInv'
    BY <1>11 DEF RollouterTypeOK, LockInv, ProcessorWake, OnLoop, procOthers
  <2>. QED BY <2>1, <2>2
<1>12. CASE ProcessorSubmit
  <2>1. HandInv' /\ UnpausedInv'
    BY <1>12 DEF RollouterTypeOK, HandInv, UnpausedInv, ActiveInv, Admitting,
       ProcessorSubmit, OnLoop, Acquires, Released, procOthers
  <2>2. LockInv'
    BY <1>12 DEF RollouterTypeOK, LockInv, ProcessorSubmit, OnLoop, Acquires,
       Released, procOthers
  <2>. QED BY <2>1, <2>2
<1>13. CASE ResetAwaitLock
  <2>1. HandInv' /\ UnpausedInv'
    BY <1>13 DEF RollouterTypeOK, HandInv, UnpausedInv, ActiveInv, Admitting,
       ResetAwaitLock, MustWait, JoinLock
  <2>2. LockInv'
    BY <1>13 DEF RollouterTypeOK, LockInv, ResetAwaitLock, MustWait, JoinLock
  <2>. QED BY <2>1, <2>2
<1>14. CASE ResetStart
  <2>1. HandInv' /\ UnpausedInv'
    BY <1>14 DEF RollouterTypeOK, HandInv, UnpausedInv, ActiveInv, Admitting,
       ResetStart, Acquires, HeldBy, Notified
  <2>2. LockInv'
    BY <1>14 DEF RollouterTypeOK, LockInv, ResetStart, Acquires, HeldBy, Notified
  <2>. QED BY <2>1, <2>2
<1>15. CASE ResetCount(queue_size)
  <2>1. HandInv' /\ UnpausedInv'
    BY <1>15 DEF RollouterTypeOK, HandInv, UnpausedInv, ActiveInv, Admitting,
       ResetCount
  <2>2. LockInv'
    BY <1>15 DEF RollouterTypeOK, LockInv, ResetCount
  <2>. QED BY <2>1, <2>2
<1>16. CASE ResetFinish
  <2>1. HandInv' /\ UnpausedInv'
    BY <1>16 DEF RollouterTypeOK, HandInv, UnpausedInv, ActiveInv, Admitting,
       ResetFinish, Released
  <2>2. LockInv'
    BY <1>16 DEF RollouterTypeOK, LockInv, ResetFinish, Released
  <2>. QED BY <2>1, <2>2
<1>17. CASE MonitorWake(queue_size)
  <2>1. HandInv' /\ UnpausedInv'
    BY <1>17 DEF RollouterTypeOK, HandInv, UnpausedInv, ActiveInv, Admitting,
       MonitorWake, JoinLock, Notified, MonitorNext, monitorOthers
  <2>2. LockInv'
    BY <1>17 DEF RollouterTypeOK, LockInv, MonitorWake, JoinLock, Notified,
       MonitorNext, monitorOthers
  <2>. QED BY <2>1, <2>2
<1>18. CASE MonitorResume
  <2>1. HandInv' /\ UnpausedInv'
    BY <1>18 DEF RollouterTypeOK, HandInv, UnpausedInv, ActiveInv, Admitting,
       MonitorResume, Notified, MonitorNext, monitorOthers
  <2>2. LockInv'
    BY <1>18 DEF RollouterTypeOK, LockInv, MonitorResume, Notified, MonitorNext,
       monitorOthers
  <2>. QED BY <2>1, <2>2
<1>19. CASE MonitorCheck
  <2>1. HandInv' /\ UnpausedInv'
    BY <1>19 DEF RollouterTypeOK, HandInv, UnpausedInv, ActiveInv, Admitting,
       MonitorCheck, MonitorNext, monitorOthers
  <2>2. LockInv'
    BY <1>19 DEF RollouterTypeOK, LockInv, MonitorCheck, MonitorNext, monitorOthers
  <2>. QED BY <2>1, <2>2
<1>20. CASE MainJoin
  <2>1. HandInv' /\ UnpausedInv'
    BY <1>20 DEF RollouterTypeOK, HandInv, UnpausedInv, ActiveInv, Admitting,
       MainJoin, mainOthers
  <2>2. LockInv'
    BY <1>20 DEF RollouterTypeOK, LockInv, MainJoin, mainOthers
  <2>. QED BY <2>1, <2>2
<1>21. CASE MainAbort
  <2>1. HandInv' /\ UnpausedInv'
    BY <1>21 DEF RollouterTypeOK, HandInv, UnpausedInv, ActiveInv, Admitting,
       MainAbort, mainOthers
  <2>2. LockInv'
    BY <1>21 DEF RollouterTypeOK, LockInv, MainAbort, mainOthers
  <2>. QED BY <2>1, <2>2
<1>22. CASE MainAwaitLock
  <2>1. HandInv' /\ UnpausedInv'
    BY <1>22 DEF RollouterTypeOK, HandInv, UnpausedInv, ActiveInv, Admitting,
       MainAwaitLock, MustWait, JoinLock, mainOthers
  <2>2. LockInv'
    BY <1>22 DEF RollouterTypeOK, LockInv, MainAwaitLock, MustWait, JoinLock,
       mainOthers
  <2>. QED BY <2>1, <2>2
<1>23. CASE MainStop
  <2>1. HandInv' /\ UnpausedInv'
    BY <1>23 DEF RollouterTypeOK, HandInv, UnpausedInv, ActiveInv, Admitting,
       MainStop, Acquires, Released, mainOthers
  <2>2. LockInv'
    BY <1>23 DEF RollouterTypeOK, LockInv, MainStop, Acquires, Released, mainOthers
  <2>. QED BY <2>1, <2>2
<1>24. ASSUME NEW s \in Samples, TaskFinish(s)
      PROVE  HandInv' /\ UnpausedInv' /\ LockInv'
  <2>1. HandInv' /\ UnpausedInv'
    BY <1>24 DEF RollouterTypeOK, HandInv, UnpausedInv, ActiveInv, Admitting,
       TaskFinish, taskOthers
  <2>2. LockInv'
    BY <1>24 DEF RollouterTypeOK, LockInv, TaskFinish, taskOthers
  <2>. QED BY <2>1, <2>2
<1>25. ASSUME NEW s \in Samples, TaskFail(s)
      PROVE  HandInv' /\ UnpausedInv' /\ LockInv'
  <2>1. HandInv' /\ UnpausedInv'
    BY <1>25 DEF RollouterTypeOK, HandInv, UnpausedInv, ActiveInv, Admitting,
       TaskFail, taskOthers
  <2>2. LockInv'
    BY <1>25 DEF RollouterTypeOK, LockInv, TaskFail, taskOthers
  <2>. QED BY <2>1, <2>2
<1>26. ASSUME NEW s \in Samples, NEW success \in BOOLEAN, TaskPut(s, success)
      PROVE  HandInv' /\ UnpausedInv' /\ LockInv'
  <2>1. HandInv' /\ UnpausedInv'
    BY <1>26 DEF RollouterTypeOK, HandInv, UnpausedInv, ActiveInv, Admitting,
       TaskPut, taskOthers
  <2>2. LockInv'
    BY <1>26 DEF RollouterTypeOK, LockInv, TaskPut, taskOthers
  <2>. QED BY <2>1, <2>2
<1>27. CASE MainSignal
  <2>1. HandInv' /\ UnpausedInv'
    BY <1>27 DEF RollouterTypeOK, HandInv, UnpausedInv, ActiveInv, Admitting,
       MainSignal, mainOthers
  <2>2. LockInv'
    BY <1>27 DEF RollouterTypeOK, LockInv, MainSignal, mainOthers
  <2>. QED BY <2>1, <2>2
<1>28. CASE ResetCalled
  <2>1. HandInv' /\ UnpausedInv'
    BY <1>28 DEF RollouterTypeOK, HandInv, UnpausedInv, ActiveInv, Admitting,
       ResetCalled
  <2>2. LockInv'
    BY <1>28 DEF RollouterTypeOK, LockInv, ResetCalled
  <2>. QED BY <2>1, <2>2
<1>29. CASE ResetReplied
  <2>1. HandInv' /\ UnpausedInv'
    BY <1>29 DEF RollouterTypeOK, HandInv, UnpausedInv, ActiveInv, Admitting,
       ResetReplied
  <2>2. LockInv'
    BY <1>29 DEF RollouterTypeOK, LockInv, ResetReplied
  <2>. QED BY <2>1, <2>2
<1>. QED
  BY <1>1, <1>2, <1>3, <1>4, <1>5, <1>6, <1>7, <1>8, <1>9, <1>10, <1>11, <1>12,
     <1>13, <1>14, <1>15, <1>16, <1>17, <1>18, <1>19, <1>20, <1>21, <1>22, <1>23,
     <1>24, <1>25, <1>26, <1>27, <1>28, <1>29 DEF RollouterStep, EnvironmentStep,
     FeedStep, ProcessorStep, ResetStep, MonitorStep, MainStep

\* Tasks.  A submission follows a drain below the limit with no submission between
\* them, and a pause a drain to the end.
LEMMA RollouterActiveStep ==
  ASSUME RollouterInv, RollouterNext
  PROVE  ActiveInv'
<1>. USE DEF RollouterInv
<1>. USE DEF procVars, feedVars, taskVars, resetVars
<1>. SUFFICES ASSUME NEW queue_size \in Nat, RollouterStep(queue_size) \/ EnvironmentStep
              PROVE  ActiveInv'
  BY DEF RollouterNext
<1>1. CASE FeedSample
  BY <1>1 DEF RollouterTypeOK, ActiveInv, Generating, HandInv, Admitting,
     FeedSample, OnLoop, PendingFull
<1>2. CASE FeedEnd
  BY <1>2 DEF RollouterTypeOK, ActiveInv, Generating, HandInv, Admitting, FeedEnd,
     OnLoop, PendingFull
<1>3. CASE ProcessorTop(queue_size)
  BY <1>3 DEF RollouterTypeOK, ActiveInv, Generating, HandInv, Admitting,
     ProcessorTop, OnLoop, procOthers
<1>4. CASE ProcessorAwaitLock
  BY <1>4 DEF RollouterTypeOK, ActiveInv, Generating, HandInv, Admitting,
     ProcessorAwaitLock, MustWait, JoinLock, procLockLabels, procOthers
<1>5. CASE ProcessorPause
  BY <1>5 DEF RollouterTypeOK, ActiveInv, Generating, HandInv, Admitting,
     ProcessorPause, OnLoop, Acquires, Released, procOthers
<1>6. CASE ProcessorGet
  BY <1>6 DEF RollouterTypeOK, ActiveInv, Generating, HandInv, Admitting,
     ProcessorGet, OnLoop, procOthers
<1>7. CASE ProcessorDrained
  <2>1. proc_pc' = "submit" => Cardinality(active_tasks) < MaxConcurrentSamples
    BY <1>7, ActiveFinite, RollouterAssumption
       DEF RollouterTypeOK, ProcessorDrained, MustDrain
  <2>2. proc_pc' \notin {"paused", "notified"} /\ (proc_pc' = "hold" => active_tasks = {})
    BY <1>7 DEF RollouterTypeOK, ProcessorDrained, MustDrain
  <2>. QED BY <1>7, <2>1, <2>2 DEF ActiveInv, Generating, ProcessorDrained, procOthers
<1>8. CASE ProcessorDrain
  BY <1>8 DEF RollouterTypeOK, ActiveInv, Generating, HandInv, Admitting,
     ProcessorDrain, OnLoop, MustDrain, Acquires, HeldBy, procOthers
<1>9. CASE ProcessorReap
  <2>1. Cardinality(active_tasks') <= MaxConcurrentSamples
    <3>1. active_tasks' \subseteq active_tasks
      BY <1>9 DEF ProcessorReap
    <3>2. Cardinality(active_tasks') \in Nat /\ Cardinality(active_tasks') <= Cardinality(active_tasks)
      BY <3>1, ActiveFinite, FS_Subset, FS_CardinalityType
    <3>. QED BY <3>2, ActiveFinite, RollouterAssumption DEF ActiveInv
  <2>2. Generating' \subseteq active_tasks'
    BY <1>9 DEF RollouterTypeOK, ActiveInv, Generating, FinishedTasks, ProcessorReap, procOthers
  <2>3. proc_pc' \in {"drain", "failed"}
    BY <1>9 DEF ProcessorReap
  <2>. QED BY <2>1, <2>2, <2>3 DEF ActiveInv
<1>10. CASE ProcessorHold
  BY <1>10 DEF RollouterTypeOK, ActiveInv, Generating, HandInv, Admitting,
     ProcessorHold, OnLoop, Acquires, Released, procOthers
<1>11. CASE ProcessorWake
  BY <1>11 DEF RollouterTypeOK, ActiveInv, Generating, HandInv, Admitting,
     ProcessorWake, OnLoop, procOthers
<1>12. CASE ProcessorSubmit
  <2>1. ~paused
    BY <1>12 DEF UnpausedInv, Admitting, ProcessorSubmit
  <2>2. rollout_sample \in Samples
    BY <1>12 DEF RollouterTypeOK, HandInv, Admitting, ProcessorSubmit
  <2>3. active_tasks' = active_tasks \union {rollout_sample}
    BY <1>12, <2>1 DEF ProcessorSubmit
  <2>4. Cardinality(active_tasks') <= MaxConcurrentSamples
    <3>1. Cardinality(active_tasks') \in {Cardinality(active_tasks), Cardinality(active_tasks) + 1}
      BY <2>3, ActiveFinite, FS_AddElement
    <3>2. Cardinality(active_tasks) < MaxConcurrentSamples
      BY <1>12 DEF ActiveInv, ProcessorSubmit
    <3>. QED BY <3>1, <3>2, ActiveFinite, RollouterAssumption
  <2>5. Generating' \subseteq active_tasks'
    BY <1>12, <2>1, <2>2, <2>3 DEF RollouterTypeOK, ActiveInv, Generating, ProcessorSubmit
  <2>6. proc_pc' = "top"
    BY <1>12, <2>1 DEF ProcessorSubmit
  <2>. QED BY <2>4, <2>5, <2>6 DEF ActiveInv
<1>13. CASE ResetAwaitLock
  BY <1>13 DEF RollouterTypeOK, ActiveInv, Generating, HandInv, Admitting,
     ResetAwaitLock, MustWait, JoinLock
<1>14. CASE ResetStart
  BY <1>14 DEF RollouterTypeOK, ActiveInv, Generating, HandInv, Admitting,
     ResetStart, Acquires, HeldBy, Notified
<1>15. CASE ResetCount(queue_size)
  BY <1>15 DEF RollouterTypeOK, ActiveInv, Generating, HandInv, Admitting,
     ResetCount
<1>16. CASE ResetFinish
  BY <1>16 DEF RollouterTypeOK, ActiveInv, Generating, HandInv, Admitting,
     ResetFinish, Released
<1>17. CASE MonitorWake(queue_size)
  BY <1>17 DEF RollouterTypeOK, ActiveInv, Generating, HandInv, Admitting,
     MonitorWake, JoinLock, Notified, MonitorNext, monitorOthers
<1>18. CASE MonitorResume
  BY <1>18 DEF RollouterTypeOK, ActiveInv, Generating, HandInv, Admitting,
     MonitorResume, Notified, MonitorNext, monitorOthers
<1>19. CASE MonitorCheck
  BY <1>19 DEF RollouterTypeOK, ActiveInv, Generating, HandInv, Admitting,
     MonitorCheck, MonitorNext, monitorOthers
<1>20. CASE MainJoin
  BY <1>20 DEF RollouterTypeOK, ActiveInv, Generating, HandInv, Admitting, MainJoin,
     mainOthers
<1>21. CASE MainAbort
  BY <1>21 DEF RollouterTypeOK, ActiveInv, Generating, HandInv, Admitting,
     MainAbort, mainOthers
<1>22. CASE MainAwaitLock
  BY <1>22 DEF RollouterTypeOK, ActiveInv, Generating, HandInv, Admitting,
     MainAwaitLock, MustWait, JoinLock, mainOthers
<1>23. CASE MainStop
  BY <1>23 DEF RollouterTypeOK, ActiveInv, Generating, HandInv, Admitting, MainStop,
     Acquires, Released, mainOthers
<1>24. ASSUME NEW s \in Samples, TaskFinish(s)
      PROVE  ActiveInv'
  BY <1>24 DEF RollouterTypeOK, ActiveInv, Generating, HandInv, Admitting,
     TaskFinish, taskOthers
<1>25. ASSUME NEW s \in Samples, TaskFail(s)
      PROVE  ActiveInv'
  BY <1>25 DEF RollouterTypeOK, ActiveInv, Generating, HandInv, Admitting, TaskFail,
     taskOthers
<1>26. ASSUME NEW s \in Samples, NEW success \in BOOLEAN, TaskPut(s, success)
      PROVE  ActiveInv'
  BY <1>26 DEF RollouterTypeOK, ActiveInv, Generating, HandInv, Admitting, TaskPut,
     taskOthers
<1>27. CASE MainSignal
  BY <1>27 DEF RollouterTypeOK, ActiveInv, Generating, HandInv, Admitting,
     MainSignal, mainOthers
<1>28. CASE ResetCalled
  BY <1>28 DEF RollouterTypeOK, ActiveInv, Generating, HandInv, Admitting,
     ResetCalled
<1>29. CASE ResetReplied
  BY <1>29 DEF RollouterTypeOK, ActiveInv, Generating, HandInv, Admitting,
     ResetReplied
<1>. QED
  BY <1>1, <1>2, <1>3, <1>4, <1>5, <1>6, <1>7, <1>8, <1>9, <1>10, <1>11, <1>12,
     <1>13, <1>14, <1>15, <1>16, <1>17, <1>18, <1>19, <1>20, <1>21, <1>22, <1>23,
     <1>24, <1>25, <1>26, <1>27, <1>28, <1>29 DEF RollouterStep, EnvironmentStep,
     FeedStep, ProcessorStep, ResetStep, MonitorStep, MainStep

\* What leaves the rollouter alone leaves its invariant alone.
LEMMA RollouterInvStutter ==
  ASSUME RollouterInv, UNCHANGED rollouterVars
  PROVE  RollouterInv'
<1>. USE DEF rollouterVars, procVars, feedVars, taskVars, resetVars
<1>1. RollouterTypeOK'
  BY DEF RollouterInv, RollouterTypeOK
<1>2. HandInv' /\ UnpausedInv' /\ LockInv'
  BY DEF RollouterInv, HandInv, UnpausedInv, LockInv, Admitting
<1>3. ActiveInv'
  BY DEF RollouterInv, ActiveInv, Generating
<1>. QED BY <1>1, <1>2, <1>3 DEF RollouterInv

\* Every step of the rollouter or of its environment preserves the invariant.
LEMMA RollouterInvStep ==
  ASSUME RollouterInv, [RollouterNext]_rollouterVars
  PROVE  RollouterInv'
<1>1. CASE RollouterNext
  <2>1. RollouterTypeOK'
    BY <1>1, RollouterTypeStep DEF RollouterInv
  <2>2. HandInv' /\ UnpausedInv' /\ LockInv'
    BY <1>1, RollouterControlStep
  <2>3. ActiveInv'
    BY <1>1, RollouterActiveStep
  <2>. QED BY <2>1, <2>2, <2>3 DEF RollouterInv
<1>2. CASE UNCHANGED rollouterVars
  BY <1>2, RollouterInvStutter
<1>. QED BY <1>1, <1>2

\* Among any other actors the rollouter keeps its invariant: the concurrency limit,
\* the drained pause without a lost notification, the sample in hand, the lock.
THEOREM RollouterSafe == RollouterSpec => []RollouterInv
<1>1. RollouterInit => RollouterInv
  BY RollouterInvInit
<1>2. RollouterInv /\ [RollouterNext]_rollouterVars => RollouterInv'
  BY RollouterInvStep
<1>. QED BY <1>1, <1>2, PTL DEF RollouterSpec
=============================================================================
