--------------------------- MODULE FullyAsyncProofs ---------------------------
(***************************************************************************)
(* Theorems about the whole system, for every value of the constants:      *)
(* types, the rollouter's invariant inside the composition, the bound on   *)
(* how far the rollouter runs ahead of the trainer, and the way of the     *)
(* samples: on a run that did not fail the end signal is the last element  *)
(* to enter the message queue, every sample is in one place at a time, and *)
(* none is forgotten.                                                      *)
(***************************************************************************)
EXTENDS FullyAsync, RollouterProofs, SequenceFacts

-----------------------------------------------------------------------------
(* Types, and the rollouter inside the system *)

SafeInv == RollouterInv /\ TrainerTypeOK(Samples) /\ MQ!MQTypeOK(Samples \union {None})

LEMMA SafeInvInit == Init => SafeInv
<1>. SUFFICES ASSUME Init PROVE SafeInv
  OBVIOUS
<1>1. RollouterInv
  BY RollouterInvInit DEF Init
<1>2. TrainerTypeOK(Samples)
  BY TrainerAssumption DEF Init, TrainerInit, TrainerTypeOK
<1>3. MQ!MQTypeOK(Samples \union {None})
  BY RollouterAssumption DEF Init, MQ!MQInit, MQ!MQTypeOK
<1>. QED BY <1>1, <1>2, <1>3 DEF SafeInv

\* A step of the system is a step of the rollouter's specification, or leaves the
\* rollouter alone.
LEMMA RollouterPart ==
  ASSUME SafeInv, [Next]_vars
  PROVE  [RollouterNext]_rollouterVars
<1>1. Len(queue) \in Nat
  BY DEF SafeInv, MQ!MQTypeOK
<1>2. CASE RollouterAlone
  BY <1>1, <1>2 DEF RollouterAlone, RollouterNext
<1>3. CASE TrainerAlone
  BY <1>3 DEF TrainerAlone
<1>4. ASSUME NEW s \in Samples, PutGenerated(s)
      PROVE  RollouterNext
  BY <1>4 DEF PutGenerated, RollouterNext, EnvironmentStep, MQ!PutSucceeds
<1>5. ASSUME NEW s \in Samples, GetSample(s)
      PROVE  UNCHANGED rollouterVars
  BY <1>5 DEF GetSample
<1>6. CASE PutEndSignal
  BY <1>6 DEF PutEndSignal, RollouterNext, EnvironmentStep
<1>7. CASE GetEndSignal
  BY <1>7 DEF GetEndSignal
<1>8. CASE SyncParameters
  BY <1>8 DEF SyncParameters, RollouterNext, EnvironmentStep
<1>9. CASE SyncReturned
  BY <1>9 DEF SyncReturned, RollouterNext, EnvironmentStep
<1>10. CASE ClearAtEnd
  BY <1>10 DEF ClearAtEnd
<1>11. CASE UNCHANGED vars
  BY <1>11 DEF vars
<1>. QED
  BY <1>2, <1>3, <1>4, <1>5, <1>6, <1>7, <1>8, <1>9, <1>10, <1>11 DEF Next

\* What the queue's operations leave in the queue.
LEMMA QueueTypes ==
  ASSUME MQ!MQTypeOK(Samples \union {None})
  PROVE  /\ \A sample \in Samples \union {None} :
              MQ!PutSample(sample) => MQ!MQTypeOK(Samples \union {None})'
         /\ \A sample : MQ!TakeSample(sample) => MQ!MQTypeOK(Samples \union {None})'
         /\ MQ!ClearQueue => MQ!MQTypeOK(Samples \union {None})'
<1>. DEFINE Data == Samples \union {None}
<1>1. ASSUME NEW sample \in Data, MQ!PutSample(sample)
      PROVE  MQ!MQTypeOK(Data)'
  <2>. HIDE DEF Data
  <2>1. queue \in Seq(Data) /\ Len(queue) <= MaxRequiredSamples
    BY DEF MQ!MQTypeOK, Data
  <2>2. CASE MQ!QueueFull
    <3>1. queue # <<>>
      BY <2>1, <2>2, RollouterAssumption DEF MQ!QueueFull
    <3>2. Tail(queue) \in Seq(Data) /\ Len(Tail(queue)) = Len(queue) - 1
      BY <2>1, <3>1
    <3>3. queue' = Append(Tail(queue), sample)
      BY <1>1, <2>2 DEF MQ!PutSample, MQ!Room
    <3>4. queue' \in Seq(Data) /\ Len(queue') = Len(queue)
      BY <2>1, <3>2, <3>3
    <3>. QED BY <1>1, <2>1, <2>2, <3>4 DEF MQ!MQTypeOK, MQ!PutSample, MQ!Drops, Data
  <2>3. CASE ~MQ!QueueFull
    <3>1. queue' = Append(queue, sample)
      BY <1>1, <2>3 DEF MQ!PutSample, MQ!Room
    <3>2. queue' \in Seq(Data) /\ Len(queue') = Len(queue) + 1
      BY <2>1, <3>1
    <3>. QED
      BY <1>1, <2>1, <2>3, <3>2, RollouterAssumption
         DEF MQ!MQTypeOK, MQ!PutSample, MQ!Drops, MQ!QueueFull, Data
  <2>. QED BY <2>2, <2>3
<1>2. ASSUME NEW sample, MQ!TakeSample(sample)
      PROVE  MQ!MQTypeOK(Data)'
  <2>1. queue \in Seq(Data) /\ queue # <<>>
    BY <1>2 DEF MQ!MQTypeOK, MQ!TakeSample
  <2>2. Tail(queue) \in Seq(Data) /\ Len(Tail(queue)) = Len(queue) - 1
    BY <2>1
  <2>. QED
    BY <1>2, <2>1, <2>2, RollouterAssumption DEF MQ!MQTypeOK, MQ!TakeSample
<1>3. ASSUME MQ!ClearQueue
      PROVE  MQ!MQTypeOK(Data)'
  BY <1>3, RollouterAssumption DEF MQ!MQTypeOK, MQ!ClearQueue
<1>. QED BY <1>1, <1>2, <1>3

LEMMA SafeInvStep ==
  ASSUME SafeInv, [Next]_vars
  PROVE  SafeInv'
<1>1. RollouterInv'
  BY RollouterPart, RollouterInvStep DEF SafeInv
<1>2. TrainerTypeOK(Samples)'
  <2>. USE TrainerAssumption DEF SafeInv, TrainerTypeOK
  <2>1. CASE RollouterAlone
    BY <2>1 DEF RollouterAlone, trainerVars
  <2>2. CASE TrainerAlone
    <3>1. CASE TrainStep
      BY <3>1 DEF TrainStep, LastLocalStep
    <3>2. CASE StopTraining
      BY <3>2 DEF StopTraining
    <3>. QED BY <2>2, <3>1, <3>2 DEF TrainerAlone, TrainerStep
  <2>3. ASSUME NEW s \in Samples, PutGenerated(s) \/ GetSample(s)
        PROVE  TrainerTypeOK(Samples)'
    <3>1. CASE PutGenerated(s)
      BY <3>1 DEF PutGenerated, trainerVars
    <3>2. CASE GetSample(s)
      BY <3>2 DEF GetSample, CollectSample
    <3>. QED BY <2>3, <3>1, <3>2
  <2>4. CASE PutEndSignal
    BY <2>4 DEF PutEndSignal, trainerVars
  <2>5. CASE GetEndSignal
    BY <2>5 DEF GetEndSignal, CollectEnd
  <2>6. CASE SyncParameters
    BY <2>6 DEF SyncParameters, UpdateWeights
  <2>7. CASE SyncReturned
    BY <2>7 DEF SyncReturned, ResetReturned
  <2>8. CASE ClearAtEnd \/ UNCHANGED vars
    BY <2>8 DEF ClearAtEnd, vars, trainerVars
  <2>. QED BY <2>1, <2>2, <2>3, <2>4, <2>5, <2>6, <2>7, <2>8 DEF Next
<1>3. MQ!MQTypeOK(Samples \union {None})'
  <2>1. MQ!MQTypeOK(Samples \union {None})
    BY DEF SafeInv
  <2>2. CASE UNCHANGED mqVars
    BY <2>1, <2>2 DEF MQ!MQTypeOK, mqVars
  <2>3. ASSUME NEW s \in Samples, PutGenerated(s) \/ GetSample(s)
        PROVE  MQ!MQTypeOK(Samples \union {None})'
    BY <2>1, <2>3, QueueTypes DEF PutGenerated, GetSample
  <2>4. CASE PutEndSignal \/ GetEndSignal
    BY <2>1, <2>4, QueueTypes DEF PutEndSignal, GetEndSignal
  <2>5. CASE ClearAtEnd
    BY <2>1, <2>5, QueueTypes DEF ClearAtEnd
  <2>. QED
    BY <2>2, <2>3, <2>4, <2>5
       DEF Next, vars, RollouterAlone, TrainerAlone, SyncParameters, SyncReturned
<1>. QED BY <1>1, <1>2, <1>3 DEF SafeInv

LEMMA AlwaysSafe == Spec => []SafeInv
  BY SafeInvInit, SafeInvStep, PTL DEF Spec

\* Every variable keeps its type.
THEOREM TypesPreserved == Spec => []TypeOK
<1>1. SafeInv => TypeOK
  BY DEF SafeInv, TypeOK, RollouterInv
<1>. QED BY <1>1, AlwaysSafe, PTL

\* The system implements the specification of its rollouter among any others.
THEOREM ImplementsRollouter == Spec => RollouterSpec
<1>1. Init => RollouterInit
  BY DEF Init
<1>2. SafeInv /\ [Next]_vars => [RollouterNext]_rollouterVars
  BY RollouterPart
<1>. QED BY <1>1, <1>2, AlwaysSafe, PTL DEF Spec, RollouterSpec

\* active_tasks stays within max_concurrent_samples.
THEOREM ConcurrencySafe == Spec => []ConcurrencyBounded
<1>1. SafeInv => ConcurrencyBounded
  BY DEF SafeInv, RollouterInv, ActiveInv, ConcurrencyBounded
<1>. QED BY <1>1, AlwaysSafe, PTL

\* A processor asleep has drained its tasks and no notification to it was lost.
THEOREM PauseSafe == Spec => []PausedMeansQuiet
<1>1. SafeInv => PausedMeansQuiet
  BY DEF SafeInv, RollouterInv, ActiveInv, PausedMeansQuiet
<1>. QED BY <1>1, AlwaysSafe, PTL
-----------------------------------------------------------------------------
(* How far the rollouter runs ahead *)

\* Counts is inductive together with SafeInv.  Its last two conjuncts say that the
\* sum reset_staleness is computing cannot be overtaken: the lock it holds keeps
\* the processor from submitting, and a sample that leaves active_tasks meanwhile
\* was counted there.

\* The terms of Outstanding are natural numbers.
CountTypes ==
    /\ IsFiniteSet(Generating) /\ Cardinality(Generating) \in Nat
    /\ Len(queue) \in Nat
    /\ InHand \in {0, 1}
    /\ staleness_samples \in Nat /\ reset_count \in Nat

LEMMA CountsTyped == SafeInv => CountTypes
<1>. SUFFICES ASSUME SafeInv PROVE CountTypes
  OBVIOUS
<1>1. Generating \subseteq Samples
  BY DEF Generating
<1>2. IsFiniteSet(Generating) /\ Cardinality(Generating) \in Nat
  BY <1>1, SamplesFinite, FS_Subset, FS_CardinalityType
<1>3. Len(queue) \in Nat
  BY DEF SafeInv, MQ!MQTypeOK
<1>. QED
  BY <1>2, <1>3 DEF SafeInv, RollouterInv, RollouterTypeOK, InHand, CountTypes

LEMMA CountsTypedNext == SafeInv' => CountTypes'
  BY CountsTyped, PTL

LEMMA CountsInit == Init => Counts
<1>. SUFFICES ASSUME Init PROVE Counts
  OBVIOUS
<1>1. Generating = {} /\ queue = <<>> /\ InHand = 0
  BY DEF Init, RollouterInit, Generating, MQ!MQInit, InHand
<1>2. Outstanding = 0
  BY <1>1, FS_EmptySet DEF Outstanding
<1>3. staleness_samples = 0 /\ proc_pc = "top" /\ reset_pc = "idle"
  BY DEF Init, RollouterInit
<1>4. MaxRequiredSamples \in Nat
  BY RollouterAssumption
<1>. QED BY <1>2, <1>3, <1>4 DEF Counts

\* A step under which no term grows keeps the counts.
LEMMA CountsShrink ==
  ASSUME SafeInv, SafeInv', Counts,
         Streaming' => Streaming,
         Cardinality(Generating') <= Cardinality(Generating),
         Cardinality(Generating') + Len(queue') <= Cardinality(Generating) + Len(queue),
         InHand' <= InHand,
         UNCHANGED <<staleness_samples, reset_count>>,
         reset_pc' \in {"counting", "counted"} => reset_pc' = reset_pc,
         proc_pc' = "get" => proc_pc = "get"
  PROVE  Counts'
<1>1. Outstanding' <= Outstanding /\ Outstanding' \in Nat /\ Outstanding \in Nat
  BY CountsTyped, CountsTypedNext DEF Outstanding, CountTypes
<1>2. MaxRequiredSamples \in Nat
  BY RollouterAssumption
<1>. QED BY <1>1, <1>2, CountsTyped, CountsTypedNext DEF Counts, CountTypes

\* The steps of the rollouter that no term of the counts notices.
CalmStep(queue_size) ==
    \/ FeedStep \/ MonitorStep(queue_size) \/ MainStep
    \/ ProcessorAwaitLock \/ ProcessorPause \/ ProcessorDrained \/ ProcessorDrain
    \/ ProcessorReap \/ ProcessorHold \/ ProcessorWake
    \/ ResetAwaitLock \/ ResetCalled \/ ResetReplied
    \/ \E s \in Samples : TaskFinish(s) \/ TaskFail(s)

LEMMA CalmCounts ==
  ASSUME SafeInv, SafeInv', Counts, NEW queue_size, CalmStep(queue_size), UNCHANGED queue
  PROVE  Counts'
<1>. DEFINE Calm == /\ Generating' \subseteq Generating
                    /\ InHand' <= InHand
                    /\ Streaming' => Streaming
                    /\ UNCHANGED <<staleness_samples, reset_count>>
                    /\ reset_pc' \in {"counting", "counted"} => reset_pc' = reset_pc
                    /\ proc_pc' = "get" => proc_pc = "get"
<1>. USE DEF procVars, feedVars, taskVars, resetVars
<1>0. RollouterTypeOK
  BY DEF SafeInv, RollouterInv
<1>1. ASSUME FeedSample PROVE Calm
  BY <1>1, <1>0 DEF RollouterTypeOK, Generating, InHand, Streaming,
     FeedSample
<1>2. ASSUME FeedEnd PROVE Calm
  BY <1>2, <1>0 DEF RollouterTypeOK, Generating, InHand, Streaming,
     FeedEnd
<1>3. ASSUME MonitorWake(queue_size) PROVE Calm
  BY <1>3, <1>0 DEF RollouterTypeOK, Generating, InHand, Streaming,
     MonitorWake, Notified, monitorOthers
<1>4. ASSUME MonitorResume PROVE Calm
  BY <1>4, <1>0 DEF RollouterTypeOK, Generating, InHand, Streaming,
     MonitorResume, Notified, monitorOthers
<1>5. ASSUME MonitorCheck PROVE Calm
  BY <1>5, <1>0 DEF RollouterTypeOK, Generating, InHand, Streaming,
     MonitorCheck, monitorOthers
<1>6. ASSUME MainJoin PROVE Calm
  BY <1>6, <1>0 DEF RollouterTypeOK, Generating, InHand, Streaming,
     MainJoin, mainOthers
<1>7. ASSUME MainAbort PROVE Calm
  BY <1>7, <1>0 DEF RollouterTypeOK, Generating, InHand, Streaming,
     MainAbort, mainOthers
<1>8. ASSUME MainAwaitLock PROVE Calm
  BY <1>8, <1>0 DEF RollouterTypeOK, Generating, InHand, Streaming,
     MainAwaitLock, mainOthers
<1>9. ASSUME MainStop PROVE Calm
  BY <1>9, <1>0 DEF RollouterTypeOK, Generating, InHand, Streaming,
     MainStop, mainOthers
<1>10. ASSUME ProcessorAwaitLock PROVE Calm
  BY <1>10, <1>0 DEF RollouterTypeOK, Generating, InHand, Streaming,
     ProcessorAwaitLock, procOthers
<1>11. ASSUME ProcessorPause PROVE Calm
  BY <1>11, <1>0 DEF RollouterTypeOK, Generating, InHand, Streaming,
     ProcessorPause, procOthers
<1>12. ASSUME ProcessorDrained PROVE Calm
  BY <1>12, <1>0 DEF RollouterTypeOK, Generating, InHand, Streaming,
     ProcessorDrained, procOthers
<1>13. ASSUME ProcessorDrain PROVE Calm
  BY <1>13, <1>0 DEF RollouterTypeOK, Generating, InHand, Streaming,
     ProcessorDrain, procOthers
<1>14. ASSUME ProcessorReap PROVE Calm
  BY <1>14, <1>0 DEF RollouterTypeOK, Generating, InHand, Streaming,
     ProcessorReap, procOthers
<1>15. ASSUME ProcessorHold PROVE Calm
  BY <1>15, <1>0 DEF RollouterTypeOK, Generating, InHand, Streaming,
     ProcessorHold, procOthers
<1>16. ASSUME ProcessorWake PROVE Calm
  BY <1>16, <1>0 DEF RollouterTypeOK, Generating, InHand, Streaming,
     ProcessorWake, procOthers
<1>17. ASSUME ResetAwaitLock PROVE Calm
  BY <1>17, <1>0 DEF RollouterTypeOK, Generating, InHand, Streaming,
     ResetAwaitLock
<1>18. ASSUME ResetCalled PROVE Calm
  BY <1>18, <1>0 DEF RollouterTypeOK, Generating, InHand, Streaming,
     ResetCalled
<1>19. ASSUME ResetReplied PROVE Calm
  BY <1>19, <1>0 DEF RollouterTypeOK, Generating, InHand, Streaming,
     ResetReplied
<1>20. ASSUME NEW s \in Samples, TaskFinish(s) PROVE Calm
  BY <1>20, <1>0 DEF RollouterTypeOK, Generating, InHand, Streaming,
     TaskFinish, taskOthers
<1>21. ASSUME NEW s \in Samples, TaskFail(s) PROVE Calm
  BY <1>21, <1>0 DEF RollouterTypeOK, Generating, InHand, Streaming,
     TaskFail, taskOthers
<1>30. Calm
  BY <1>1, <1>2, <1>3, <1>4, <1>5, <1>6, <1>7, <1>8, <1>9, <1>10, <1>11, <1>12, <1>13,
     <1>14, <1>15, <1>16, <1>17, <1>18, <1>19, <1>20, <1>21
     DEF CalmStep, FeedStep, MonitorStep, MainStep
<1>31. Cardinality(Generating') <= Cardinality(Generating)
  BY <1>30, CountsTyped, FS_Subset DEF CountTypes
<1>. QED
  BY <1>30, <1>31, CountsTyped, CountsTypedNext, CountsShrink DEF CountTypes

\* The other steps of the rollouter: the sample that is taken or submitted, and the
\* sum of reset_staleness.
LEMMA RollouterCounts ==
  ASSUME SafeInv, SafeInv', Counts, RollouterAlone
  PROVE  Counts'
<1>. USE DEF procVars, feedVars, taskVars, resetVars
<1>. DEFINE qs == Len(queue)
            gen == Cardinality(Generating)
<1>1. RollouterInv /\ RollouterTypeOK
  BY DEF SafeInv, RollouterInv
<1>2. UNCHANGED queue /\ RollouterStep(qs)
  BY DEF RollouterAlone, mqVars
<1>3. /\ IsFiniteSet(Generating) /\ gen \in Nat /\ qs \in Nat /\ InHand \in {0, 1}
      /\ staleness_samples \in Nat /\ reset_count \in Nat /\ MaxRequiredSamples \in Nat
  BY CountsTyped, RollouterAssumption DEF CountTypes
<1>4. CASE ProcessorTop(qs)
  <2>1. InHand = 0
    BY <1>1, <1>4 DEF RollouterInv, HandInv, Admitting, ProcessorTop, InHand
  <2>2. /\ UNCHANGED <<staleness_samples, reset_pc, reset_count>>
        /\ Generating' = Generating /\ InHand' = InHand /\ (Streaming' => Streaming)
    BY <1>4 DEF ProcessorTop, procOthers, Generating, InHand, Streaming
  <2>3. Outstanding' = Outstanding
    BY <1>2, <2>2 DEF Outstanding
  <2>4. proc_pc' = "get" => staleness_samples < MaxRequiredSamples
    BY <1>3, <1>4 DEF ProcessorTop, ShouldPause
  <2>5. Outstanding \in Nat
    BY <1>3 DEF Outstanding
  <2>. QED BY <1>2, <1>3, <2>2, <2>3, <2>4, <2>5 DEF Counts
<1>5. CASE ProcessorGet
  <2>1. InHand = 0
    BY <1>1, <1>5 DEF RollouterInv, HandInv, Admitting, ProcessorGet, InHand
  <2>2. /\ staleness_samples' = staleness_samples + 1
        /\ UNCHANGED <<reset_pc, reset_count>>
        /\ proc_pc = "get" /\ proc_pc' = "drain"
        /\ Generating' = Generating /\ (Streaming' => Streaming)
    BY <1>5 DEF ProcessorGet, procOthers, Generating, Streaming
  <2>3. Outstanding' <= Outstanding + 1 /\ Outstanding \in Nat /\ Outstanding' \in Nat
    <3>1. InHand' \in {0, 1}
      BY DEF InHand
    <3>. QED BY <1>2, <1>3, <2>1, <2>2, <3>1 DEF Outstanding
  <2>. QED BY <1>2, <1>3, <2>2, <2>3 DEF Counts
<1>6. CASE ProcessorSubmit
  <2>1. ~paused /\ rollout_sample \in Samples /\ rollout_sample # None
    BY <1>1, <1>6, RollouterAssumption
       DEF RollouterInv, RollouterTypeOK, HandInv, UnpausedInv, Admitting, ProcessorSubmit
  <2>2. /\ UNCHANGED <<staleness_samples, reset_pc, reset_count>>
        /\ proc_pc' = "top" /\ rollout_sample' = None /\ (Streaming' => Streaming)
    BY <1>6, <2>1 DEF ProcessorSubmit, Streaming
  <2>3. reset_pc \notin {"counting", "counted"}
    BY <1>1, <1>6 DEF RollouterInv, LockInv, ProcessorSubmit, Acquires
  <2>4. Generating' = Generating \union {rollout_sample}
    BY <1>1, <1>6, <2>1 DEF RollouterTypeOK, ProcessorSubmit, Generating
  <2>5. Cardinality(Generating') \in Nat /\ Cardinality(Generating') <= gen + 1
    <3>1. Cardinality(Generating \union {rollout_sample}) \in {gen, gen + 1}
      BY <1>3, FS_AddElement
    <3>. QED BY <1>3, <2>4, <3>1
  <2>6. InHand = 1 /\ InHand' = 0
    BY <2>1, <2>2 DEF InHand
  <2>7. Outstanding' <= Outstanding /\ Outstanding \in Nat /\ Outstanding' \in Nat
    BY <1>2, <1>3, <2>5, <2>6 DEF Outstanding
  <2>. QED BY <1>3, <2>2, <2>3, <2>7 DEF Counts
<1>7. CASE ResetStart
  <2>1. /\ reset_pc' = "counting" /\ reset_count' = Cardinality(active_tasks)
        /\ UNCHANGED staleness_samples
        /\ Generating' = Generating /\ InHand' = InHand /\ (Streaming' => Streaming)
        /\ proc_pc' = "get" => proc_pc = "get"
    BY <1>7 DEF ResetStart, Notified, Generating, InHand, Streaming
  <2>2. Outstanding' = Outstanding
    BY <1>2, <2>1 DEF Outstanding
  <2>3. gen <= Cardinality(active_tasks) /\ Cardinality(active_tasks) \in Nat
    BY <1>1, ActiveFinite, FS_Subset DEF RollouterInv, ActiveInv
  <2>4. Outstanding \in Nat
    BY <1>3 DEF Outstanding
  <2>. QED BY <1>3, <2>1, <2>2, <2>3, <2>4 DEF Counts
<1>8. CASE ResetCount(qs)
  <2>1. /\ reset_pc = "counting" /\ reset_pc' = "counted" /\ reset_count' = reset_count + qs
        /\ UNCHANGED <<staleness_samples, proc_pc>>
        /\ Generating' = Generating /\ InHand' = InHand /\ (Streaming' => Streaming)
    BY <1>8 DEF ResetCount, Generating, InHand, Streaming
  <2>2. Outstanding' = Outstanding
    BY <1>2, <2>1 DEF Outstanding
  <2>3. Outstanding \in Nat
    BY <1>3 DEF Outstanding
  <2>. QED BY <1>2, <1>3, <2>1, <2>2, <2>3 DEF Counts
<1>9. CASE ResetFinish
  <2>1. /\ reset_pc = "counted" /\ reset_pc' = "replied"
        /\ staleness_samples' = reset_count /\ UNCHANGED proc_pc
        /\ Generating' = Generating /\ InHand' = InHand /\ (Streaming' => Streaming)
    BY <1>9 DEF ResetFinish, Generating, InHand, Streaming
  <2>2. Outstanding' = Outstanding /\ Outstanding = gen + qs + InHand
    BY <1>2, <2>1 DEF Outstanding
  <2>. QED BY <1>3, <2>1, <2>2 DEF Counts
<1>10. CASE CalmStep(qs)
  BY <1>2, <1>10, CalmCounts
<1>. QED
  BY <1>2, <1>4, <1>5, <1>6, <1>7, <1>8, <1>9, <1>10
     DEF RollouterStep, ProcessorStep, ResetStep, CalmStep

\* A sample that has been generated moves to the queue, at most in the place of an
\* older one.
LEMMA PutCounts ==
  ASSUME SafeInv, SafeInv', Counts, NEW s \in Samples, PutGenerated(s)
  PROVE  Counts'
<1>. USE DEF procVars, feedVars, taskVars, resetVars
<1>1. TaskPut(s, MQ!PutSucceeds) /\ MQ!PutSample(s)
  BY DEF PutGenerated
<1>2. /\ IsFiniteSet(Generating) /\ Cardinality(Generating) \in Nat /\ Len(queue) \in Nat
      /\ queue \in Seq(Samples \union {None}) /\ RollouterTypeOK
  BY CountsTyped DEF CountTypes, SafeInv, MQ!MQTypeOK, RollouterInv
<1>3. s \in Generating /\ Generating' = Generating \ {s}
  BY <1>1, <1>2 DEF TaskPut, Generating, RollouterTypeOK
<1>4. Cardinality(Generating') = Cardinality(Generating) - 1
  BY <1>2, <1>3, FS_RemoveElement
<1>5. Len(queue') <= Len(queue) + 1
  <2>. DEFINE Data == Samples \union {None}
  <2>1. s \in Data /\ queue \in Seq(Data)
    BY <1>2
  <2>. HIDE DEF Data
  <2>2. CASE queue = <<>>
    <3>1. queue' \in {Append(queue, s), Append(Tail(queue), s)}
      BY <1>1 DEF MQ!PutSample, MQ!Room
    <3>2. ~MQ!QueueFull
      BY <2>2, RollouterAssumption DEF MQ!QueueFull
    <3>3. queue' = Append(queue, s)
      BY <1>1, <3>2 DEF MQ!PutSample, MQ!Room
    <3>. QED BY <2>1, <3>3
  <2>3. CASE queue # <<>>
    <3>1. queue' \in {Append(queue, s), Append(Tail(queue), s)}
      BY <1>1 DEF MQ!PutSample, MQ!Room
    <3>2. Tail(queue) \in Seq(Data) /\ Len(Tail(queue)) = Len(queue) - 1
      BY <2>1, <2>3
    <3>3. Len(Append(queue, s)) = Len(queue) + 1 /\ Len(Append(Tail(queue), s)) = Len(queue)
      BY <2>1, <3>2
    <3>. QED BY <1>2, <3>1, <3>3
  <2>. QED BY <2>2, <2>3
<1>6. /\ UNCHANGED <<staleness_samples, reset_pc, reset_count, proc_pc, InHand>>
      /\ Streaming' => Streaming
  BY <1>1 DEF TaskPut, taskOthers, InHand, Streaming
<1>7. Len(queue') \in Nat /\ InHand \in {0, 1}
  BY CountsTyped, CountsTypedNext DEF CountTypes
<1>. QED BY <1>2, <1>4, <1>5, <1>6, <1>7, CountsShrink

LEMMA CountsStep ==
  ASSUME SafeInv, SafeInv', Counts, [Next]_vars
  PROVE  Counts'
<1>. USE DEF procVars, feedVars, taskVars, resetVars
<1>1. CASE RollouterAlone
  BY <1>1, RollouterCounts
<1>2. ASSUME NEW s \in Samples, PutGenerated(s)
      PROVE  Counts'
  BY <1>2, PutCounts
<1>3. CASE PutEndSignal
  <2>1. ~Streaming'
    BY <1>3 DEF PutEndSignal, MainSignal, Streaming
  <2>. QED BY <2>1 DEF Counts
<1>4. ASSUME NEW sample \in Samples \union {None}, MQ!TakeSample(sample),
             UNCHANGED rollouterVars
      PROVE  Counts'
  <2>1. queue \in Seq(Samples \union {None}) /\ queue # <<>> /\ queue' = Tail(queue)
    BY <1>4 DEF SafeInv, MQ!MQTypeOK, MQ!TakeSample
  <2>2. Len(queue') = Len(queue) - 1 /\ Len(queue) \in Nat
    BY <2>1
  <2>3. /\ Generating' = Generating /\ InHand' = InHand /\ (Streaming' => Streaming)
        /\ UNCHANGED <<staleness_samples, reset_pc, reset_count, proc_pc>>
    BY <1>4 DEF rollouterVars, Generating, InHand, Streaming
  <2>. QED BY <2>2, <2>3, CountsTyped, CountsShrink DEF CountTypes
<1>5. CASE SyncParameters
  BY <1>5, CalmCounts DEF SyncParameters, CalmStep, mqVars
<1>6. CASE SyncReturned
  BY <1>6, CalmCounts DEF SyncReturned, CalmStep, mqVars
<1>7. CASE ClearAtEnd
  <2>1. ~Streaming'
    BY <1>7 DEF ClearAtEnd, Finished, FitReturned, Streaming, rollouterVars
  <2>. QED BY <2>1 DEF Counts
<1>8. CASE UNCHANGED <<rollouterVars, mqVars>>
  <2>1. UNCHANGED <<Generating, InHand, Streaming, Outstanding>>
    BY <1>8 DEF rollouterVars, mqVars, Generating, InHand, Streaming, Outstanding
  <2>. QED BY <1>8, <2>1 DEF Counts, rollouterVars, mqVars
<1>. QED
  BY <1>1, <1>2, <1>3, <1>4, <1>5, <1>6, <1>7, <1>8
     DEF Next, vars, TrainerAlone, GetSample, GetEndSignal

LEMMA AlwaysCounts == Spec => []Counts
<1>1. Init => Counts
  BY CountsInit
<1>2. SafeInv /\ SafeInv' /\ Counts /\ [Next]_vars => Counts'
  BY CountsStep
<1>. QED BY <1>1, <1>2, AlwaysSafe, PTL DEF Spec

\* The rollouter is never more than one sample over max_required_samples ahead of
\* the trainer, whatever the sizes, the speeds and the failures.
THEOREM AheadBounded == Spec => []OutstandingBounded
<1>1. Counts => OutstandingBounded
  BY DEF Counts, OutstandingBounded
<1>. QED BY <1>1, AlwaysCounts, PTL

\* staleness_samples covers the samples it stands for, but for the one in hand.
THEOREM StalenessSound == Spec => []StalenessCovers
<1>1. Counts => StalenessCovers
  BY DEF Counts, StalenessCovers
<1>. QED BY <1>1, AlwaysCounts, PTL

-----------------------------------------------------------------------------
(* The rhythm of the synchronisation *)

\* The batch being collected is short, and complete when it is trained on; the
\* weights are only sent between two versions.
BatchInv ==
    /\ trainer_pc \in {"collect", "sync", "resetting"} =>
         Len(queue_samples) < RequiredSamples
    /\ trainer_pc = "train" => Len(queue_samples) = RequiredSamples
    /\ trainer_pc \in {"sync", "final_sync"} => local_trigger_step = 1

RhythmInv == BatchInv /\ SyncEveryTrigger

LEMMA RhythmInit == Init => RhythmInv
<1>. SUFFICES ASSUME Init PROVE RhythmInv
  OBVIOUS
<1>1. BatchInv
  BY TrainerAssumption DEF Init, TrainerInit, BatchInv
<1>2. SyncEveryTrigger
  BY TrainerAssumption DEF Init, TrainerInit, SyncEveryTrigger
<1>. QED BY <1>1, <1>2 DEF RhythmInv

\* The arithmetic of the count: one more step, and the last step of a version.
LEMMA OneMoreStep ==
  ASSUME NEW v \in Nat, NEW t \in Nat \ {0}, NEW r \in Nat \ {0}, NEW l \in 1 .. t
  PROVE  /\ (v * t + l - 1) * r + r = (v * t + (l + 1) - 1) * r
         /\ l = t => (v * t + l - 1) * r + r = ((v + 1) * t + 1 - 1) * r
<1>. DEFINE m == v * t
<1>1. m \in Nat /\ (v + 1) * t = m + t
  OBVIOUS
<1>2. ASSUME NEW k \in Nat
      PROVE  k * r + r = (k + 1) * r
  OBVIOUS
<1>3. m + l - 1 \in Nat /\ m + l = (m + l - 1) + 1
  BY <1>1
<1>. HIDE DEF m
<1>4. (m + l - 1) * r + r = (m + l) * r
  BY <1>2, <1>3
<1>5. m + (l + 1) - 1 = m + l /\ (l = t => (m + t) + 1 - 1 = m + l)
  BY <1>1
<1>. QED BY <1>1, <1>4, <1>5 DEF m

LEMMA RhythmStep ==
  ASSUME SafeInv, RhythmInv, [Next]_vars
  PROVE  RhythmInv'
<1>0. /\ TrainerTypeOK(Samples)
      /\ queue_samples \in Seq(Samples) /\ trained \in Seq(Samples)
      /\ RequiredSamples \in Nat \ {0} /\ TriggerSteps \in Nat \ {0}
  BY TrainerAssumption DEF SafeInv, TrainerTypeOK
<1>1. ASSUME NEW s \in Samples, GetSample(s)
      PROVE  RhythmInv'
  <2>1. CollectSample(s) /\ Len(Append(queue_samples, s)) = Len(queue_samples) + 1
    BY <1>0, <1>1 DEF GetSample
  <2>2. BatchInv'
    BY <1>0, <2>1 DEF RhythmInv, BatchInv, CollectSample
  <2>3. SyncEveryTrigger'
    BY <2>1 DEF RhythmInv, SyncEveryTrigger, CollectSample
  <2>. QED BY <2>2, <2>3 DEF RhythmInv
<1>2. CASE TrainStep
  <2>1. Len(trained') = Len(trained) + RequiredSamples
    <3>1. trained' = trained \o queue_samples /\ Len(queue_samples) = RequiredSamples
      BY <1>2 DEF RhythmInv, BatchInv, TrainStep
    <3>2. Len(trained \o queue_samples) = Len(trained) + Len(queue_samples)
      BY <1>0
    <3>. QED BY <3>1, <3>2
  <2>2. /\ local_trigger_step \in 1 .. TriggerSteps /\ current_param_version \in Nat
        /\ Len(trained) = (current_param_version * TriggerSteps + local_trigger_step - 1)
                            * RequiredSamples
    BY <1>0 DEF TrainerTypeOK, RhythmInv, SyncEveryTrigger
  <2>3. ASSUME ~LastLocalStep
        PROVE  SyncEveryTrigger'
    <3>1. local_trigger_step' = local_trigger_step + 1 /\ UNCHANGED current_param_version
      BY <1>2, <2>3 DEF TrainStep
    <3>2. (current_param_version * TriggerSteps + local_trigger_step - 1) * RequiredSamples
              + RequiredSamples
            = (current_param_version * TriggerSteps + (local_trigger_step + 1) - 1)
                * RequiredSamples
      BY <1>0, <2>2, OneMoreStep
    <3>3. Len(trained') = (current_param_version * TriggerSteps + (local_trigger_step + 1) - 1)
                            * RequiredSamples
      BY <2>1, <2>2, <3>2, Zenon
    <3>4. Len(trained) = served + (local_trigger_step - 1) * RequiredSamples
          /\ served' = served /\ served \in Nat
      BY <1>0, <1>2 DEF RhythmInv, SyncEveryTrigger, TrainStep, TrainerTypeOK
    <3>5. Len(trained') = served' + (local_trigger_step' - 1) * RequiredSamples
      <4>1. PICK l \in Nat \ {0}, n \in Nat \ {0} : l = local_trigger_step /\ n = RequiredSamples
        BY <1>0, <2>2
      <4>2. (l - 1) * n + n = l * n
        OBVIOUS
      <4>. QED BY <2>1, <3>1, <3>4, <4>1, <4>2
    <3>. QED BY <3>1, <3>3, <3>5 DEF SyncEveryTrigger
  <2>4. ASSUME LastLocalStep
        PROVE  SyncEveryTrigger'
    <3>1. local_trigger_step' = 1 /\ current_param_version' = current_param_version + 1
      BY <1>2, <2>4 DEF TrainStep
    <3>2. local_trigger_step = TriggerSteps
      BY <1>0, <2>2, <2>4 DEF LastLocalStep
    <3>3. (current_param_version * TriggerSteps + local_trigger_step - 1) * RequiredSamples
              + RequiredSamples
            = ((current_param_version + 1) * TriggerSteps + 1 - 1) * RequiredSamples
      BY <1>0, <2>2, <3>2, OneMoreStep
    <3>4. Len(trained') = ((current_param_version + 1) * TriggerSteps + 1 - 1) * RequiredSamples
      BY <2>1, <2>2, <3>3, Zenon
    <3>5. trainer_pc' = "sync"
      BY <1>2, <2>4 DEF TrainStep
    <3>. QED BY <3>1, <3>4, <3>5 DEF SyncEveryTrigger
  <2>5. BatchInv'
    BY <1>0, <1>2 DEF BatchInv, TrainStep
  <2>. QED BY <2>3, <2>4, <2>5 DEF RhythmInv
<1>3. CASE SyncParameters
  <2>1. local_trigger_step = 1 /\ served' = Len(trained) /\ Len(trained) \in Nat
        /\ UNCHANGED <<queue_samples, trained, local_trigger_step, current_param_version>>
        /\ trainer_pc' \in {"resetting", "final_resetting"}
        /\ (trainer_pc' = "resetting" => trainer_pc = "sync")
    BY <1>0, <1>3 DEF SyncParameters, UpdateWeights, RhythmInv, BatchInv
  <2>2. (1 - 1) * RequiredSamples = 0
    BY <1>0
  <2>3. SyncEveryTrigger'
    BY <2>1, <2>2 DEF RhythmInv, SyncEveryTrigger
  <2>. QED BY <2>1, <2>3 DEF RhythmInv, BatchInv
<1>4. CASE SyncReturned
  BY <1>4 DEF SyncReturned, ResetReturned, RhythmInv, BatchInv, SyncEveryTrigger
<1>5. CASE StopTraining
  BY <1>5 DEF StopTraining, RhythmInv, BatchInv, SyncEveryTrigger
<1>6. CASE GetEndSignal
  BY <1>6 DEF GetEndSignal, CollectEnd, RhythmInv, BatchInv, SyncEveryTrigger
<1>7. CASE UNCHANGED trainerVars
  BY <1>7 DEF trainerVars, RhythmInv, BatchInv, SyncEveryTrigger
<1>. QED
  BY <1>1, <1>2, <1>3, <1>4, <1>5, <1>6, <1>7
     DEF Next, vars, RollouterAlone, TrainerAlone, TrainerStep, PutGenerated,
         PutEndSignal, ClearAtEnd

LEMMA AlwaysRhythm == Spec => []RhythmInv
<1>1. Init => RhythmInv
  BY RhythmInit
<1>2. SafeInv /\ RhythmInv /\ [Next]_vars => RhythmInv'
  BY RhythmStep
<1>. QED BY <1>1, <1>2, AlwaysSafe, PTL DEF Spec

\* The trainer trains on exactly trigger_parameter_sync_step batches of
\* required_samples samples between two synchronisations.
THEOREM RhythmKept == Spec => []SyncEveryTrigger
<1>1. RhythmInv => SyncEveryTrigger
  BY DEF RhythmInv
<1>. QED BY <1>1, AlwaysRhythm, PTL

-----------------------------------------------------------------------------
(* The end of the feed on its way through the rollouter *)

\* In pending_queue the end signal comes last and closes the feed ...
PendingEnd ==
    \A i \in DOMAIN pending_queue :
        pending_queue[i] = None => i = Len(pending_queue) /\ feed_pc = "done"

\* ... the processor that took it drains, with nothing left to take ...
DrainEnd ==
    proc_pc \in {"drain", "wait"} /\ drain_for = "end" =>
        pending_queue = <<>> /\ feed_pc = "done"

\* ... until no task is active ...
DoneEnd ==
    proc_pc = "done" => pending_queue = <<>> /\ feed_pc = "done" /\ active_tasks = {}

\* ... and only then main goes on.
MainEnd == main_pc \in {"signal", "stop", "done"} => proc_pc = "done"

EndComes == PendingEnd /\ DrainEnd /\ DoneEnd /\ MainEnd

LEMMA EndComesInit == RollouterInit => EndComes
BY DEF RollouterInit, EndComes, PendingEnd, DrainEnd, DoneEnd, MainEnd

\* A step that leaves the feed alone, and does not let the processor or main reach
\* the end, keeps all four.
LEMMA EndCalm ==
  ASSUME EndComes,
         UNCHANGED <<feed_pc, pending_queue>>,
         proc_pc' \in {"drain", "wait"} /\ drain_for' = "end" =>
             proc_pc \in {"drain", "wait"} /\ drain_for = "end",
         proc_pc' = "done" => proc_pc = "done" /\ active_tasks' = active_tasks,
         main_pc' \in {"signal", "stop", "done"} =>
             /\ main_pc \in {"signal", "stop", "done"} \/ proc_pc = "done"
             /\ UNCHANGED proc_pc
  PROVE  EndComes'
BY DEF EndComes, PendingEnd, DrainEnd, DoneEnd, MainEnd

LEMMA FeedEnds ==
  ASSUME RollouterInv, EndComes, FeedStep
  PROVE  EndComes'
<1>. DEFINE D == Samples \union {None}
<1>1. /\ pending_queue \in Seq(D) /\ global_steps \in Samples /\ None \notin Samples
      /\ feed_pc # "done"
  BY RollouterAssumption DEF RollouterInv, RollouterTypeOK, FeedStep, FeedSample, FeedEnd
<1>. HIDE DEF D
<1>2. \A i \in DOMAIN pending_queue : pending_queue[i] # None
  BY <1>1 DEF EndComes, PendingEnd
<1>3. PendingEnd'
  <2>1. \/ pending_queue' = Append(pending_queue, global_steps)
        \/ pending_queue' = Append(pending_queue, None) /\ feed_pc' = "done"
    BY DEF FeedStep, FeedSample, FeedEnd
  <2>2. Len(pending_queue) \in Nat
    BY <1>1
  <2>3. CASE pending_queue' = Append(pending_queue, global_steps)
    BY <1>1, <1>2, <2>3, AppendIndices DEF PendingEnd
  <2>4. CASE pending_queue' = Append(pending_queue, None) /\ feed_pc' = "done"
    <3>1. Len(pending_queue') = Len(pending_queue) + 1
      BY <1>1, <2>4
    <3>. QED BY <1>1, <1>2, <2>4, <3>1, AppendIndices DEF PendingEnd
  <2>. QED BY <2>1, <2>3, <2>4
<1>4. UNCHANGED <<proc_pc, drain_for, active_tasks, main_pc>>
  BY DEF FeedStep, FeedSample, FeedEnd, procVars
<1>. QED BY <1>1, <1>3, <1>4 DEF EndComes, DrainEnd, DoneEnd, MainEnd

\* The processor takes the end signal when nothing follows it.
LEMMA GetEnds ==
  ASSUME RollouterInv, EndComes, ProcessorGet
  PROVE  EndComes'
<1>. DEFINE D == Samples \union {None}
<1>1. pending_queue \in Seq(D) /\ pending_queue # <<>>
  BY DEF RollouterInv, RollouterTypeOK, ProcessorGet
<1>. HIDE DEF D
<1>2. Len(pending_queue) \in Nat
  BY <1>1
<1>3. pending_queue' = Tail(pending_queue) /\ UNCHANGED <<feed_pc, main_pc>>
  BY DEF ProcessorGet, procOthers, feedVars
<1>4. PendingEnd'
  BY <1>1, <1>2, <1>3, TailIndices DEF EndComes, PendingEnd
<1>5. Head(pending_queue) = None => pending_queue' = <<>> /\ feed_pc' = "done"
  <2>1. ASSUME Head(pending_queue) = None
        PROVE  Len(pending_queue) = 1 /\ feed_pc = "done"
    BY <1>1, <2>1, TailIndices DEF EndComes, PendingEnd
  <2>2. Tail(pending_queue) \in Seq(D) /\ Len(Tail(pending_queue)) = Len(pending_queue) - 1
    BY <1>1, TailIndices
  <2>3. ASSUME NEW q \in Seq(D), Len(q) = 0
        PROVE  q = <<>>
    BY <2>3
  <2>. QED BY <1>2, <1>3, <2>1, <2>2, <2>3
<1>6. DrainEnd'
  BY <1>5 DEF ProcessorGet, DrainEnd
<1>7. DoneEnd' /\ MainEnd'
  BY <1>3 DEF ProcessorGet, EndComes, DoneEnd, MainEnd
<1>. QED BY <1>4, <1>6, <1>7 DEF EndComes

LEMMA ProcessorEnds ==
  ASSUME RollouterInv, EndComes, NEW queue_size, ProcessorStep(queue_size)
  PROVE  EndComes'
<1>. USE DEF procOthers, feedVars
<1>1. CASE ProcessorGet
  BY <1>1, GetEnds
<1>2. CASE ProcessorDrained
  <2>1. /\ UNCHANGED <<feed_pc, pending_queue, active_tasks, main_pc, drain_for>>
        /\ proc_pc = "drain" /\ proc_pc' \in {"hold", "submit", "done"}
        /\ proc_pc' = "done" => drain_for = "end" /\ active_tasks = {}
    BY <1>2 DEF RollouterInv, RollouterTypeOK, ProcessorDrained, MustDrain
  <2>. QED BY <2>1 DEF EndComes, PendingEnd, DrainEnd, DoneEnd, MainEnd
<1>3. CASE ProcessorTop(queue_size)
  BY <1>3, EndCalm DEF ProcessorTop, EndComes, MainEnd
<1>4. CASE ProcessorAwaitLock
  BY <1>4, EndCalm DEF ProcessorAwaitLock, procVars, EndComes, MainEnd
<1>5. CASE ProcessorPause
  BY <1>5, EndCalm DEF ProcessorPause, EndComes, MainEnd
<1>6. CASE ProcessorDrain
  BY <1>6, EndCalm DEF ProcessorDrain, EndComes, MainEnd
<1>7. CASE ProcessorReap
  BY <1>7, EndCalm DEF ProcessorReap, EndComes, MainEnd
<1>8. CASE ProcessorHold
  BY <1>8, EndCalm DEF ProcessorHold, EndComes, MainEnd
<1>9. CASE ProcessorWake
  BY <1>9, EndCalm DEF ProcessorWake, EndComes, MainEnd
<1>10. CASE ProcessorSubmit
  BY <1>10, EndCalm DEF ProcessorSubmit, EndComes, MainEnd
<1>. QED
  BY <1>1, <1>2, <1>3, <1>4, <1>5, <1>6, <1>7, <1>8, <1>9, <1>10 DEF ProcessorStep

\* The other coroutines: reset_staleness, the monitor and the tasks.
OtherStep(queue_size) ==
    \/ ResetStep(queue_size) \/ ResetCalled \/ ResetReplied
    \/ MonitorStep(queue_size)
    \/ \E s \in Samples : TaskFinish(s) \/ TaskFail(s)
    \/ \E s \in Samples, success \in BOOLEAN : TaskPut(s, success)

LEMMA OthersEnd ==
  ASSUME EndComes, NEW queue_size, OtherStep(queue_size)
  PROVE  EndComes'
<1>. USE DEF feedVars, procVars
<1>. DEFINE Calm == /\ UNCHANGED <<feed_pc, pending_queue, drain_for, active_tasks, main_pc>>
                    /\ proc_pc # "paused" => UNCHANGED proc_pc
                    /\ proc_pc' \in {proc_pc, "notified"}
<1>1. ASSUME ResetStep(queue_size) \/ ResetCalled \/ ResetReplied
      PROVE  Calm
  BY <1>1 DEF ResetStep, ResetAwaitLock, ResetStart, ResetCount, ResetFinish,
     ResetCalled, ResetReplied, Notified, resetVars
<1>2. ASSUME MonitorStep(queue_size)
      PROVE  Calm
  BY <1>2 DEF MonitorStep, MonitorWake, MonitorResume, MonitorCheck, Notified, monitorOthers
<1>3. ASSUME NEW s \in Samples, TaskFinish(s) \/ TaskFail(s)
      PROVE  Calm
  BY <1>3 DEF TaskFinish, TaskFail, taskOthers
<1>4. ASSUME NEW s \in Samples, NEW success \in BOOLEAN, TaskPut(s, success)
      PROVE  Calm
  BY <1>4 DEF TaskPut, taskOthers
<1>5. Calm
  BY <1>1, <1>2, <1>3, <1>4 DEF OtherStep
<1>. QED BY <1>5, EndCalm DEF EndComes, MainEnd

LEMMA MainEnds ==
  ASSUME EndComes, MainStep \/ MainSignal
  PROVE  EndComes'
<1>. USE DEF mainOthers, procVars
<1>1. CASE MainJoin
  BY <1>1, EndCalm DEF MainJoin
<1>2. CASE MainAbort
  BY <1>2 DEF MainAbort, EndComes, PendingEnd, DrainEnd, DoneEnd, MainEnd
<1>3. CASE MainAwaitLock \/ MainStop \/ MainSignal
  BY <1>3, EndCalm DEF MainAwaitLock, MainStop, MainSignal
<1>. QED BY <1>1, <1>2, <1>3 DEF MainStep

LEMMA EndComesStep ==
  ASSUME RollouterInv, EndComes, [RollouterNext]_rollouterVars
  PROVE  EndComes'
<1>1. ASSUME NEW queue_size \in Nat, RollouterStep(queue_size)
      PROVE  EndComes'
  BY <1>1, FeedEnds, ProcessorEnds, OthersEnd, MainEnds DEF RollouterStep, OtherStep
<1>2. CASE EnvironmentStep
  <2>1. CASE MainSignal
    BY <2>1, MainEnds
  <2>2. CASE ~MainSignal
    BY <1>2, <2>2, OthersEnd DEF EnvironmentStep, OtherStep
  <2>. QED BY <2>1, <2>2
<1>3. CASE UNCHANGED rollouterVars
  BY <1>3 DEF rollouterVars, EndComes, PendingEnd, DrainEnd, DoneEnd, MainEnd
<1>. QED BY <1>1, <1>2, <1>3 DEF RollouterNext

-----------------------------------------------------------------------------
(* ... and through the message queue *)

\* Once sent, the end signal stays the last element until it is taken.
LastIsNone ==
    main_pc \in {"stop", "done"} /\ queue # <<>> => queue[Len(queue)] = None

\* What comes out at the front leaves the last element.
LEMMA TakeKeepsLast ==
  ASSUME NEW D, queue \in Seq(D), NEW sample, MQ!TakeSample(sample)
  PROVE  queue' # <<>> => queue'[Len(queue')] = queue[Len(queue)]
<1>1. queue # <<>> /\ queue' = Tail(queue)
  BY DEF MQ!TakeSample
<1>2. Len(queue) \in Nat /\ Tail(queue) \in Seq(D) /\ Len(Tail(queue)) = Len(queue) - 1
  BY <1>1, TailIndices
<1>3. Tail(queue) # <<>> => Len(Tail(queue)) \in DOMAIN Tail(queue)
  BY <1>2
<1>. QED BY <1>1, <1>2, <1>3, TailIndices

LEMMA PutIsLast ==
  ASSUME NEW D, queue \in Seq(D), NEW sample \in D, MQ!PutSample(sample)
  PROVE  queue'[Len(queue')] = sample
<1>1. PICK q \in Seq(D) : queue' = Append(q, sample)
  <2>1. CASE MQ!QueueFull
    <3>1. queue # <<>>
      BY <2>1, RollouterAssumption DEF MQ!QueueFull
    <3>. QED BY <2>1, <3>1, TailIndices DEF MQ!PutSample, MQ!Room
  <2>2. CASE ~MQ!QueueFull
    BY <2>2 DEF MQ!PutSample, MQ!Room
  <2>. QED BY <2>1, <2>2
<1>2. Len(Append(q, sample)) = Len(q) + 1
  OBVIOUS
<1>. QED BY <1>1, <1>2, AppendIndices

LEMMA LastIsNoneStep ==
  ASSUME SafeInv, EndComes, LastIsNone, [Next]_vars
  PROVE  LastIsNone'
<1>. DEFINE Data == Samples \union {None}
<1>1. queue \in Seq(Data)
  BY DEF SafeInv, MQ!MQTypeOK
<1>. HIDE DEF Data
<1>2. ASSUME NEW sample, MQ!TakeSample(sample), UNCHANGED rollouterVars
      PROVE  LastIsNone'
  <2>1. queue # <<>> /\ UNCHANGED main_pc
    BY <1>2 DEF MQ!TakeSample, rollouterVars
  <2>. QED BY <1>1, <1>2, <2>1, TakeKeepsLast DEF LastIsNone
<1>3. CASE PutEndSignal
  <2>1. MQ!PutSample(None) /\ None \in Data
    BY <1>3 DEF PutEndSignal, Data
  <2>. QED BY <1>1, <2>1, PutIsLast DEF LastIsNone
<1>4. ASSUME NEW s \in Samples, PutGenerated(s)
      PROVE  LastIsNone'
  <2>1. s \in Generating /\ UNCHANGED main_pc
    BY <1>4 DEF PutGenerated, TaskPut, taskOthers, Generating
  <2>2. active_tasks # {}
    BY <2>1 DEF SafeInv, RollouterInv, ActiveInv
  <2>. QED BY <2>1, <2>2 DEF EndComes, DoneEnd, MainEnd, LastIsNone
<1>5. CASE ClearAtEnd
  BY <1>5 DEF ClearAtEnd, MQ!ClearQueue, LastIsNone
<1>6. ASSUME UNCHANGED <<main_pc, queue>>
      PROVE  LastIsNone'
  BY <1>6 DEF LastIsNone
<1>7. CASE RollouterAlone
  <2>1. UNCHANGED queue
    BY <1>7 DEF RollouterAlone, mqVars
  <2>2. main_pc' \in {"stop", "done"} => main_pc \in {"stop", "done"}
    <3>1. CASE MainStep
      BY <3>1 DEF MainStep, MainJoin, MainAbort, MainAwaitLock, MainStop
    <3>2. CASE FeedStep \/ ProcessorStep(Len(queue))
      BY <3>2 DEF FeedStep, FeedSample, FeedEnd, ProcessorStep, ProcessorTop,
         ProcessorAwaitLock, ProcessorPause, ProcessorGet, ProcessorDrained, ProcessorDrain,
         ProcessorReap, ProcessorHold, ProcessorWake, ProcessorSubmit, procOthers
    <3>3. CASE ResetStep(Len(queue)) \/ MonitorStep(Len(queue))
      BY <3>3 DEF ResetStep, ResetAwaitLock, ResetStart, ResetCount, ResetFinish,
         MonitorStep, MonitorWake, MonitorResume, MonitorCheck, monitorOthers
    <3>4. ASSUME NEW s \in Samples, TaskFinish(s) \/ TaskFail(s)
          PROVE  UNCHANGED main_pc
      BY <3>4 DEF TaskFinish, TaskFail, taskOthers
    <3>. QED BY <1>7, <3>1, <3>2, <3>3, <3>4 DEF RollouterAlone, RollouterStep
  <2>. QED BY <2>1, <2>2 DEF LastIsNone
<1>8. CASE TrainerAlone \/ SyncParameters \/ SyncReturned \/ UNCHANGED vars
  BY <1>6, <1>8
     DEF TrainerAlone, SyncParameters, SyncReturned, ResetCalled, ResetReplied, vars,
         rollouterVars, mqVars
<1>. QED
  BY <1>2, <1>3, <1>4, <1>5, <1>7, <1>8 DEF Next, GetSample, GetEndSignal

LEMMA EndsEntailed ==
  ASSUME SafeInv, EndComes, LastIsNone
  PROVE  EndSignalIsLast
BY DEF SafeInv, RollouterInv, HandInv, Admitting, ActiveInv, EndComes, DoneEnd, MainEnd,
       LastIsNone, EndSignalIsLast

\* When the streaming ends normally, nothing is pending, in hand or being generated,
\* and the end signal is the last element of the message queue until the trainer
\* takes it: _streaming_generation_main sends it after the processor's last drain.
THEOREM EndSignalSafe == Spec => []EndSignalIsLast
<1>1. Init => EndComes /\ LastIsNone
  BY EndComesInit DEF Init, RollouterInit, LastIsNone
<1>2. SafeInv /\ EndComes /\ LastIsNone /\ [Next]_vars => (EndComes /\ LastIsNone)'
  BY RollouterPart, EndComesStep, LastIsNoneStep DEF SafeInv
<1>3. SafeInv /\ EndComes /\ LastIsNone => EndSignalIsLast
  BY EndsEntailed
<1>. QED BY <1>1, <1>2, <1>3, AlwaysSafe, PTL DEF Spec

-----------------------------------------------------------------------------
(* Where the samples are, up to their generation *)

\* The samples that wait are new, wait once, and are not the one in hand ...
PendingNew ==
    /\ IsInjective(pending_queue)
    /\ \A s \in Range(pending_queue) \ {None} :
           s \in Fed /\ task_state[s] = "new" /\ s # rollout_sample

\* ... which is new too ...
HandNew ==
    rollout_sample # None => rollout_sample \in Fed /\ task_state[rollout_sample] = "new"

\* ... and nothing is generated that was not fed.
FedFirst == \A s \in Samples : task_state[s] # "new" => s \in Fed

\* Unless the processor failed, a sample that was fed waits until it is generated,
\* and the feed ends with the last one.
NewIsHeld ==
    proc_pc # "failed" =>
        /\ \A s \in Fed : task_state[s] = "new" =>
               s \in Range(pending_queue) \union {rollout_sample}
        /\ feed_pc # "sample" => global_steps = TotalRolloutSteps
        /\ main_pc \notin {"abort", "failed"}

UpstreamInv == PendingNew /\ HandNew /\ FedFirst /\ NewIsHeld

LEMMA UpstreamInit == RollouterInit => UpstreamInv
<1>. SUFFICES ASSUME RollouterInit PROVE UpstreamInv
  OBVIOUS
<1>1. /\ pending_queue = <<>> /\ rollout_sample = None /\ Fed = {}
      /\ feed_pc = "sample" /\ main_pc = "run" /\ \A s \in Samples : task_state[s] = "new"
  BY DEF RollouterInit, Fed
<1>2. DOMAIN pending_queue = {}
  BY <1>1
<1>. QED
  BY <1>1, <1>2
     DEF UpstreamInv, PendingNew, HandNew, FedFirst, NewIsHeld, Range, IsInjective

LEMMA FedSamples == RollouterTypeOK => Fed \subseteq Samples
<1>. SUFFICES ASSUME RollouterTypeOK PROVE Fed \subseteq Samples
  OBVIOUS
<1>1. TotalRolloutSteps \in Nat /\ global_steps \in 1 .. TotalRolloutSteps
  BY RollouterAssumption DEF RollouterTypeOK, Samples
<1>2. 1 .. global_steps - 1 \subseteq Samples /\ 1 .. global_steps \subseteq Samples
  BY <1>1 DEF Samples
<1>. QED BY <1>2 DEF Fed

\* A step that only moves samples that are no longer new keeps all four, and so does
\* the failure that loses the sample in hand.
LEMMA UpstreamCalm ==
  ASSUME UpstreamInv,
         UNCHANGED <<pending_queue, feed_pc, global_steps>>,
         \A s \in Samples : task_state'[s] = "new" <=> task_state[s] = "new",
         rollout_sample' # rollout_sample => rollout_sample' = None /\ proc_pc' = "failed",
         proc_pc = "failed" => proc_pc' = "failed",
         main_pc' \in {"abort", "failed"} =>
             main_pc \in {"abort", "failed"} \/ proc_pc = "failed",
         RollouterTypeOK
  PROVE  UpstreamInv'
<1>1. Fed' = Fed /\ Fed \subseteq Samples
  BY FedSamples DEF Fed
<1>2. Range(pending_queue) \ {None} \subseteq Samples
  BY DEF Range, RollouterTypeOK
<1>3. PendingNew'
  BY <1>1, <1>2, RollouterAssumption DEF UpstreamInv, PendingNew
<1>4. HandNew' /\ FedFirst'
  BY <1>1 DEF UpstreamInv, HandNew, FedFirst
<1>5. NewIsHeld'
  BY <1>1 DEF UpstreamInv, NewIsHeld
<1>. QED BY <1>3, <1>4, <1>5 DEF UpstreamInv

\* A sample that is fed is new and waits nowhere else.
LEMMA UpstreamFeed ==
  ASSUME RollouterTypeOK, EndComes, UpstreamInv, FeedStep
  PROVE  UpstreamInv'
<1>. DEFINE D == Samples \union {None}
<1>1. /\ pending_queue \in Seq(D) /\ global_steps \in Samples /\ None \notin Samples
      /\ feed_pc \in {"sample", "end"} /\ global_steps \in D /\ None \in D
      /\ UNCHANGED <<proc_pc, main_pc, rollout_sample, task_state>>
  BY RollouterAssumption DEF RollouterTypeOK, FeedStep, FeedSample, FeedEnd, procVars, taskVars
<1>2. Range(pending_queue) \ {None} \subseteq Samples
  BY DEF Range, RollouterTypeOK
<1>. HIDE DEF D
<1>3. CASE FeedSample
  <2>1. pending_queue' = Append(pending_queue, global_steps)
    BY <1>3 DEF FeedSample
  <2>2. /\ Fed' = Fed \union {global_steps} /\ global_steps \notin Fed
        /\ feed_pc' # "sample" => global_steps' = TotalRolloutSteps
    BY <1>1, <1>3, RollouterAssumption DEF FeedSample, LastSample, Fed, Samples
  <2>3. task_state[global_steps] = "new"
    BY <1>1, <2>2 DEF UpstreamInv, FedFirst
  <2>4. global_steps \notin Range(pending_queue) /\ global_steps # rollout_sample
    BY <1>1, <2>2 DEF UpstreamInv, PendingNew, HandNew
  <2>5. /\ Range(pending_queue') = Range(pending_queue) \union {global_steps}
        /\ IsInjective(pending_queue')
    BY <1>1, <2>1, <2>4, AppendElements DEF UpstreamInv, PendingNew
  <2>6. PendingNew'
    BY <1>1, <2>2, <2>3, <2>4, <2>5 DEF UpstreamInv, PendingNew
  <2>7. HandNew' /\ FedFirst'
    BY <1>1, <2>2 DEF UpstreamInv, HandNew, FedFirst
  <2>8. NewIsHeld'
    BY <1>1, <2>2, <2>5 DEF UpstreamInv, NewIsHeld
  <2>. QED BY <2>6, <2>7, <2>8 DEF UpstreamInv
<1>4. CASE FeedEnd
  <2>1. /\ pending_queue' = Append(pending_queue, None)
        /\ Fed' = Fed /\ UNCHANGED global_steps /\ feed_pc = "end"
    BY <1>4 DEF FeedEnd, Fed
  <2>2. None \notin Range(pending_queue)
    BY <1>1, <2>1 DEF EndComes, PendingEnd, Range
  <2>3. /\ Range(pending_queue') = Range(pending_queue) \union {None}
        /\ IsInjective(pending_queue')
    BY <1>1, <2>1, <2>2, AppendElements DEF UpstreamInv, PendingNew
  <2>4. PendingNew' /\ HandNew' /\ FedFirst'
    BY <1>1, <2>1, <2>3 DEF UpstreamInv, PendingNew, HandNew, FedFirst
  <2>5. NewIsHeld'
    BY <1>1, <2>1, <2>3 DEF UpstreamInv, NewIsHeld
  <2>. QED BY <2>4, <2>5 DEF UpstreamInv
<1>. QED BY <1>3, <1>4 DEF FeedStep

\* The sample that is taken is in hand, and the one submitted is no longer new.
LEMMA UpstreamProcessor ==
  ASSUME RollouterInv, UpstreamInv, NEW queue_size, ProcessorStep(queue_size)
  PROVE  UpstreamInv'
<1>. USE DEF procOthers, feedVars, taskVars
<1>. DEFINE D == Samples \union {None}
<1>0. RollouterTypeOK
  BY DEF RollouterInv
<1>1. CASE ProcessorGet
  <2>. DEFINE s == Head(pending_queue)
  <2>1. /\ pending_queue \in Seq(D) /\ pending_queue # <<>>
        /\ pending_queue' = Tail(pending_queue) /\ rollout_sample' = s
        /\ rollout_sample = None /\ proc_pc' = "drain" /\ proc_pc = "get"
        /\ UNCHANGED <<feed_pc, global_steps, task_state, main_pc>>
    BY <1>0, <1>1 DEF RollouterTypeOK, RollouterInv, HandInv, Admitting, ProcessorGet
  <2>. HIDE DEF D
  <2>2. Fed' = Fed /\ Fed \subseteq Samples /\ None \notin Samples
    BY <1>0, <2>1, FedSamples, RollouterAssumption DEF Fed
  <2>3. /\ Range(pending_queue) = Range(pending_queue') \union {s}
        /\ IsInjective(pending_queue') /\ s \notin Range(pending_queue')
    BY <2>1, TailElements DEF UpstreamInv, PendingNew
  <2>. HIDE DEF s
  <2>4. PendingNew' /\ HandNew' /\ FedFirst'
    BY <2>1, <2>2, <2>3 DEF UpstreamInv, PendingNew, HandNew, FedFirst
  <2>5. NewIsHeld'
    BY <2>1, <2>2, <2>3 DEF UpstreamInv, NewIsHeld, PendingNew
  <2>. QED BY <2>4, <2>5 DEF UpstreamInv
<1>2. CASE ProcessorSubmit
  <2>1. /\ ~paused /\ rollout_sample \in Samples /\ rollout_sample # None
    BY <1>0, <1>2, RollouterAssumption
       DEF RollouterInv, RollouterTypeOK, HandInv, UnpausedInv, Admitting, ProcessorSubmit
  <2>2. /\ task_state' = [task_state EXCEPT ![rollout_sample] = "generating"]
        /\ rollout_sample' = None /\ proc_pc = "submit" /\ proc_pc' = "top"
        /\ UNCHANGED <<pending_queue, feed_pc, global_steps, main_pc>>
    BY <1>2, <2>1 DEF ProcessorSubmit
  <2>3. Fed' = Fed /\ Fed \subseteq Samples /\ Range(pending_queue) \ {None} \subseteq Samples
    <3>1. Range(pending_queue) \ {None} \subseteq Samples
      BY <1>0 DEF RollouterTypeOK, Range
    <3>. QED BY <1>0, <2>2, <3>1, FedSamples DEF Fed
  <2>4. \A s \in Samples :
            task_state'[s] = IF s = rollout_sample THEN "generating" ELSE task_state[s]
    BY <1>0, <2>2 DEF RollouterTypeOK
  <2>5. PendingNew' /\ HandNew' /\ FedFirst'
    BY <2>1, <2>2, <2>3, <2>4 DEF UpstreamInv, PendingNew, HandNew, FedFirst
  <2>6. NewIsHeld'
    BY <2>1, <2>2, <2>3, <2>4 DEF UpstreamInv, NewIsHeld
  <2>. QED BY <2>5, <2>6 DEF UpstreamInv
<1>3. CASE ProcessorReap
  BY <1>0, <1>3, UpstreamCalm DEF ProcessorReap
<1>4. CASE ProcessorTop(queue_size)
  BY <1>0, <1>4, UpstreamCalm DEF ProcessorTop
<1>5. CASE ProcessorAwaitLock
  BY <1>0, <1>5, UpstreamCalm DEF ProcessorAwaitLock, procVars
<1>6. CASE ProcessorPause
  BY <1>0, <1>6, UpstreamCalm DEF ProcessorPause
<1>7. CASE ProcessorDrained
  BY <1>0, <1>7, UpstreamCalm DEF ProcessorDrained
<1>8. CASE ProcessorDrain
  BY <1>0, <1>8, UpstreamCalm DEF ProcessorDrain
<1>9. CASE ProcessorHold
  BY <1>0, <1>9, UpstreamCalm DEF ProcessorHold
<1>10. CASE ProcessorWake
  BY <1>0, <1>10, UpstreamCalm DEF ProcessorWake
<1>. QED
  BY <1>1, <1>2, <1>3, <1>4, <1>5, <1>6, <1>7, <1>8, <1>9, <1>10 DEF ProcessorStep

LEMMA UpstreamOthers ==
  ASSUME RollouterTypeOK, UpstreamInv, NEW queue_size, OtherStep(queue_size)
  PROVE  UpstreamInv'
<1>. USE DEF feedVars, procVars, taskVars
<1>. DEFINE Calm == /\ UNCHANGED <<pending_queue, feed_pc, global_steps, rollout_sample, main_pc>>
                    /\ \A s \in Samples : task_state'[s] = "new" <=> task_state[s] = "new"
                    /\ proc_pc = "failed" => proc_pc' = "failed"
<1>1. ASSUME ResetStep(queue_size) \/ ResetCalled \/ ResetReplied
      PROVE  Calm
  BY <1>1 DEF ResetStep, ResetAwaitLock, ResetStart, ResetCount, ResetFinish,
     ResetCalled, ResetReplied, Notified, resetVars
<1>2. ASSUME MonitorStep(queue_size)
      PROVE  Calm
  BY <1>2 DEF MonitorStep, MonitorWake, MonitorResume, MonitorCheck, Notified, monitorOthers
<1>3. ASSUME NEW s \in Samples, TaskFinish(s) \/ TaskFail(s)
      PROVE  Calm
  BY <1>3 DEF TaskFinish, TaskFail, taskOthers, RollouterTypeOK
<1>4. ASSUME NEW s \in Samples, NEW success \in BOOLEAN, TaskPut(s, success)
      PROVE  Calm
  BY <1>4 DEF TaskPut, taskOthers, RollouterTypeOK
<1>5. Calm
  BY <1>1, <1>2, <1>3, <1>4 DEF OtherStep
<1>. QED BY <1>5, UpstreamCalm

\* main aborts only when the processor failed.
LEMMA UpstreamMain ==
  ASSUME RollouterTypeOK, UpstreamInv, MainStep \/ MainSignal
  PROVE  UpstreamInv'
<1>. USE DEF mainOthers, procVars, taskVars
<1>1. CASE MainAbort
  <2>1. /\ proc_pc' = "failed" /\ feed_pc' = "done"
        /\ UNCHANGED <<pending_queue, rollout_sample, task_state, global_steps>>
    BY <1>1 DEF MainAbort
  <2>2. Fed \subseteq Fed'
    <3>1. global_steps \in Nat
      BY DEF RollouterTypeOK, Samples
    <3>. QED BY <2>1, <3>1 DEF Fed
  <2>3. Fed \subseteq Samples
    BY FedSamples
  <2>. QED
    BY <2>1, <2>2, <2>3 DEF UpstreamInv, PendingNew, HandNew, FedFirst, NewIsHeld
<1>2. CASE MainJoin
  BY <1>2, UpstreamCalm DEF MainJoin
<1>3. CASE MainAwaitLock \/ MainStop
  BY <1>3, UpstreamCalm DEF MainAwaitLock, MainStop
<1>4. CASE MainSignal
  <2>1. main_pc' = "failed" => main_pc = "abort"
    BY <1>4 DEF MainSignal
  <2>. QED BY <1>4, <2>1, UpstreamCalm DEF MainSignal
<1>. QED BY <1>1, <1>2, <1>3, <1>4 DEF MainStep

LEMMA UpstreamStep ==
  ASSUME RollouterInv, EndComes, UpstreamInv, [RollouterNext]_rollouterVars
  PROVE  UpstreamInv'
<1>0. RollouterTypeOK
  BY DEF RollouterInv
<1>1. ASSUME NEW queue_size \in Nat, RollouterStep(queue_size)
      PROVE  UpstreamInv'
  BY <1>0, <1>1, UpstreamFeed, UpstreamProcessor, UpstreamOthers, UpstreamMain
     DEF RollouterStep, OtherStep
<1>2. CASE EnvironmentStep
  <2>1. CASE MainSignal
    BY <1>0, <2>1, UpstreamMain
  <2>2. CASE ~MainSignal
    BY <1>0, <1>2, <2>2, UpstreamOthers DEF EnvironmentStep, OtherStep
  <2>. QED BY <2>1, <2>2
<1>3. CASE UNCHANGED rollouterVars
  BY <1>0, <1>3, UpstreamCalm DEF rollouterVars
<1>. QED BY <1>1, <1>2, <1>3 DEF RollouterNext

-----------------------------------------------------------------------------
(* ... and from their generation to their training *)

\* The samples whose generation has ended, and those that the queue kept for the
\* trainer.
Sent == {s \in Samples : task_state[s] \in {"put", "overflow", "done"}}
Reached == (Range(queue) \ {None}) \union Range(queue_samples) \union Range(trained)

\* A sample is in one place, once, and was generated ...
OnceEach ==
    /\ IsInjective(queue) /\ IsInjective(queue_samples) /\ IsInjective(trained)
    /\ Range(queue) \intersect Range(queue_samples) = {}
    /\ Range(queue) \intersect Range(trained) = {}
    /\ Range(queue_samples) \intersect Range(trained) = {}
    /\ Reached \subseteq Sent

\* ... the end signal is in the queue only once main has sent it ...
NoneIsSent == None \in Range(queue) => main_pc \in {"stop", "done", "failed"}

\* ... and unless the processor failed, what was generated and did not reach the
\* trainer was dropped and counted ...
DropsCounted == proc_pc # "failed" => Cardinality(Sent \ Reached) = dropped_samples

\* ... and the trainer stops when the queue is empty for good.
QueueSpent ==
    /\ proc_pc # "failed"
    /\ trainer_pc \in {"stopping", "final_sync", "final_resetting", "done"}
    => queue = <<>> /\ main_pc \in {"stop", "done"}

DownstreamInv == OnceEach /\ NoneIsSent /\ DropsCounted /\ QueueSpent

LEMMA DownstreamInit == Init => DownstreamInv
<1>. SUFFICES ASSUME Init PROVE DownstreamInv
  OBVIOUS
<1>1. /\ queue = <<>> /\ queue_samples = <<>> /\ trained = <<>> /\ dropped_samples = 0
      /\ trainer_pc = "collect" /\ Sent = {}
  BY DEF Init, RollouterInit, TrainerInit, MQ!MQInit, Sent
<1>2. Range(<<>>) = {} /\ IsInjective(<<>>)
  BY DEF Range, IsInjective
<1>3. Reached = {}
  BY <1>1, <1>2 DEF Reached
<1>. QED
  BY <1>1, <1>2, <1>3, FS_EmptySet
     DEF DownstreamInv, OnceEach, NoneIsSent, DropsCounted, QueueSpent

\* What the rollouter does alone sends nothing; its failure and its end are final.
RollouterKeeps ==
    /\ Sent' = Sent
    /\ proc_pc = "failed" => proc_pc' = "failed"
    /\ main_pc \in {"stop", "done"} => main_pc' \in {"stop", "done"}
    /\ main_pc = "failed" => main_pc' = "failed"

LEMMA RollouterKept ==
  ASSUME RollouterInv, UpstreamInv, NEW queue_size, RollouterStep(queue_size)
  PROVE  RollouterKeeps
<1>. USE DEF procVars, feedVars, taskVars, resetVars
<1>0. RollouterTypeOK
  BY DEF RollouterInv
<1>1. ASSUME UNCHANGED <<task_state, main_pc>>, proc_pc = "failed" => proc_pc' = "failed"
      PROVE  RollouterKeeps
  BY <1>1 DEF RollouterKeeps, Sent
<1>2. CASE FeedStep \/ ResetStep(queue_size)
  BY <1>1, <1>2 DEF FeedStep, FeedSample, FeedEnd, ResetStep, ResetAwaitLock, ResetStart,
     ResetCount, ResetFinish, Notified
<1>3. CASE MonitorStep(queue_size)
  BY <1>1, <1>3 DEF MonitorStep, MonitorWake, MonitorResume, MonitorCheck, Notified,
     monitorOthers
<1>4. CASE ProcessorSubmit
  <2>1. /\ ~paused /\ rollout_sample \in Samples /\ rollout_sample # None
    BY <1>0, <1>4, RollouterAssumption
       DEF RollouterInv, RollouterTypeOK, HandInv, UnpausedInv, Admitting, ProcessorSubmit
  <2>2. task_state[rollout_sample] = "new"
    BY <2>1 DEF UpstreamInv, HandNew
  <2>3. /\ task_state' = [task_state EXCEPT ![rollout_sample] = "generating"]
        /\ proc_pc = "submit" /\ UNCHANGED main_pc
    BY <1>4, <2>1 DEF ProcessorSubmit
  <2>4. Sent' = Sent
    BY <1>0, <2>2, <2>3 DEF Sent, RollouterTypeOK
  <2>. QED BY <2>3, <2>4 DEF RollouterKeeps
<1>5. CASE ProcessorStep(queue_size) /\ ~ProcessorSubmit
  BY <1>1, <1>5 DEF ProcessorStep, ProcessorTop, ProcessorAwaitLock, ProcessorPause,
     ProcessorGet, ProcessorDrained, ProcessorDrain, ProcessorReap, ProcessorHold,
     ProcessorWake, procOthers
<1>6. CASE MainStep
  BY <1>6 DEF MainStep, MainJoin, MainAbort, MainAwaitLock, MainStop, mainOthers,
     RollouterKeeps, Sent
<1>7. ASSUME NEW s \in Samples, TaskFinish(s) \/ TaskFail(s)
      PROVE  RollouterKeeps
  <2>1. UNCHANGED <<main_pc, proc_pc>>
    BY <1>7 DEF TaskFinish, TaskFail, taskOthers
  <2>2. Sent' = Sent
    BY <1>0, <1>7 DEF TaskFinish, TaskFail, Sent, RollouterTypeOK
  <2>. QED BY <2>1, <2>2 DEF RollouterKeeps
<1>. QED
  BY <1>2, <1>3, <1>4, <1>5, <1>6, <1>7 DEF RollouterStep

\* A step that sends nothing and moves no sample.
LEMMA DownstreamCalm ==
  ASSUME DownstreamInv, RollouterKeeps,
         UNCHANGED <<queue, queue_samples, trained, dropped_samples>>,
         trainer_pc' \in {"stopping", "final_sync", "final_resetting", "done"} =>
             trainer_pc \in {"stopping", "final_sync", "final_resetting", "done"}
  PROVE  DownstreamInv'
<1>1. Reached' = Reached
  BY DEF Reached
<1>. QED
  BY <1>1
     DEF RollouterKeeps, DownstreamInv, OnceEach, NoneIsSent, DropsCounted, QueueSpent

\* put_sample adds one element, and a full queue loses its oldest and counts it.
LEMMA PutElements ==
  ASSUME NEW D, queue \in Seq(D), NEW x \in D, IsInjective(queue), x \notin Range(queue),
         MQ!PutSample(x)
  PROVE  /\ IsInjective(queue')
         /\ IF MQ!QueueFull
            THEN /\ Head(queue) \in Range(queue)
                 /\ Range(queue') = (Range(queue) \ {Head(queue)}) \union {x}
                 /\ dropped_samples' = dropped_samples + 1
            ELSE /\ Range(queue') = Range(queue) \union {x}
                 /\ UNCHANGED dropped_samples
<1>1. CASE MQ!QueueFull
  <2>1. queue # <<>>
    BY <1>1, RollouterAssumption DEF MQ!QueueFull
  <2>2. queue' = Append(Tail(queue), x) /\ dropped_samples' = dropped_samples + 1
    BY <1>1 DEF MQ!PutSample, MQ!Room, MQ!Drops
  <2>3. /\ Tail(queue) \in Seq(D) /\ IsInjective(Tail(queue)) /\ Head(queue) \in Range(queue)
        /\ Range(Tail(queue)) = Range(queue) \ {Head(queue)}
    BY <2>1, TailElements
  <2>4. /\ Range(Append(Tail(queue), x)) = Range(Tail(queue)) \union {x}
        /\ IsInjective(Append(Tail(queue), x))
    BY <2>3, AppendElements
  <2>. QED BY <1>1, <2>2, <2>3, <2>4
<1>2. CASE ~MQ!QueueFull
  <2>1. queue' = Append(queue, x) /\ UNCHANGED dropped_samples
    BY <1>2 DEF MQ!PutSample, MQ!Room, MQ!Drops
  <2>. QED BY <1>2, <2>1, AppendElements
<1>. QED BY <1>1, <1>2

\* A set that gains the element that was lost.
LEMMA OneMoreLost ==
  ASSUME NEW x \in Samples, NEW S, NEW L, x \notin L, L \subseteq Samples,
         S = L \union {x}, NEW n, Cardinality(L) = n
  PROVE  Cardinality(S) = n + 1
<1>1. IsFiniteSet(L)
  BY SamplesFinite, FS_Subset
<1>. QED BY <1>1, FS_AddElement

\* A generated sample enters the queue.
LEMMA DownstreamPut ==
  ASSUME SafeInv, EndComes, UpstreamInv, DownstreamInv, NEW s \in Samples, PutGenerated(s)
  PROVE  DownstreamInv'
<1>. DEFINE D == Samples \union {None}
<1>1. /\ queue \in Seq(D) /\ RollouterTypeOK /\ s \in D /\ s # None
      /\ queue_samples \in Seq(Samples) /\ trained \in Seq(Samples)
  BY RollouterAssumption DEF SafeInv, MQ!MQTypeOK, RollouterInv, TrainerTypeOK
<1>2. /\ MQ!PutSample(s) /\ task_state[s] = "generating"
      /\ task_state' = [task_state EXCEPT ![s] = IF MQ!PutSucceeds THEN "put" ELSE "overflow"]
      /\ UNCHANGED <<queue_samples, trained, trainer_pc, main_pc, proc_pc>>
  BY DEF PutGenerated, TaskPut, taskOthers, procVars, trainerVars
<1>. HIDE DEF D
<1>3. Sent' = Sent \union {s} /\ s \notin Sent /\ Sent \subseteq Samples
  BY <1>1, <1>2 DEF Sent, RollouterTypeOK
<1>4. s \notin Range(queue) /\ s \notin Range(queue_samples) /\ s \notin Range(trained)
  BY <1>1, <1>3 DEF DownstreamInv, OnceEach, Reached
<1>5. /\ IsInjective(queue')
      /\ IF MQ!QueueFull
         THEN /\ Head(queue) \in Range(queue)
              /\ Range(queue') = (Range(queue) \ {Head(queue)}) \union {s}
              /\ dropped_samples' = dropped_samples + 1
         ELSE /\ Range(queue') = Range(queue) \union {s}
              /\ UNCHANGED dropped_samples
  BY <1>1, <1>2, <1>4, PutElements DEF DownstreamInv, OnceEach
<1>6. Range(queue') \subseteq Range(queue) \union {s}
  BY <1>5
<1>7. OnceEach'
  <2>1. Reached' \subseteq Reached \union {s}
    BY <1>2, <1>6 DEF Reached
  <2>. QED BY <1>2, <1>3, <1>4, <1>5, <1>6, <2>1 DEF DownstreamInv, OnceEach
<1>8. NoneIsSent'
  BY <1>1, <1>2, <1>6 DEF DownstreamInv, NoneIsSent
<1>9. s \in active_tasks
  BY <1>2 DEF SafeInv, RollouterInv, ActiveInv, Generating
<1>10. main_pc \notin {"stop", "done"}
  BY <1>9 DEF EndComes, DoneEnd, MainEnd
<1>11. QueueSpent'
  BY <1>2, <1>10 DEF DownstreamInv, QueueSpent
<1>12. DropsCounted'
  <2>. SUFFICES ASSUME proc_pc # "failed"
                PROVE  Cardinality(Sent' \ Reached') = dropped_samples'
    BY <1>2 DEF DropsCounted
  <2>1. None \notin Range(queue)
    BY <1>10 DEF UpstreamInv, NewIsHeld, DownstreamInv, NoneIsSent
  <2>2. Cardinality(Sent \ Reached) = dropped_samples
    BY DEF DownstreamInv, DropsCounted
  <2>3. CASE MQ!QueueFull
    <3>. DEFINE h == Head(queue)
    <3>1. h \in Reached /\ h \in Samples
      BY <1>3, <1>5, <2>1, <2>3 DEF Reached, DownstreamInv, OnceEach
    <3>2. Reached' = (Reached \ {h}) \union {s}
      BY <1>1, <1>2, <1>5, <2>1, <2>3 DEF Reached, DownstreamInv, OnceEach
    <3>. HIDE DEF h
    <3>3. Sent' \ Reached' = (Sent \ Reached) \union {h}
      BY <1>3, <1>4, <3>1, <3>2 DEF DownstreamInv, OnceEach
    <3>. QED BY <1>3, <1>5, <2>2, <2>3, <3>1, <3>3, OneMoreLost
  <2>4. CASE ~MQ!QueueFull
    <3>1. Reached' = Reached \union {s}
      BY <1>1, <1>2, <1>5, <2>4 DEF Reached
    <3>2. Sent' \ Reached' = Sent \ Reached
      BY <1>3, <3>1
    <3>. QED BY <1>5, <2>2, <2>4, <3>2
  <2>. QED BY <2>3, <2>4
<1>. QED BY <1>7, <1>8, <1>11, <1>12 DEF DownstreamInv

\* The end signal enters the queue, maybe in the place of a sample.
LEMMA DownstreamSignal ==
  ASSUME SafeInv, EndComes, UpstreamInv, DownstreamInv, PutEndSignal
  PROVE  DownstreamInv'
<1>. DEFINE D == Samples \union {None}
<1>1. /\ queue \in Seq(D) /\ None \in D /\ None \notin Samples
      /\ queue_samples \in Seq(Samples) /\ trained \in Seq(Samples)
  BY RollouterAssumption DEF SafeInv, MQ!MQTypeOK, TrainerTypeOK
<1>2. /\ MQ!PutSample(None) /\ main_pc \in {"signal", "abort"} /\ main_pc' \in {"stop", "failed"}
      /\ UNCHANGED <<queue_samples, trained, trainer_pc, proc_pc, task_state>>
  BY DEF PutEndSignal, MainSignal, mainOthers, procVars, taskVars, trainerVars
<1>. HIDE DEF D
<1>3. Sent' = Sent /\ Sent \subseteq Samples
  BY <1>2 DEF Sent
<1>4. None \notin Range(queue)
  BY <1>2 DEF DownstreamInv, NoneIsSent
<1>5. /\ IsInjective(queue')
      /\ IF MQ!QueueFull
         THEN /\ Head(queue) \in Range(queue)
              /\ Range(queue') = (Range(queue) \ {Head(queue)}) \union {None}
              /\ dropped_samples' = dropped_samples + 1
         ELSE /\ Range(queue') = Range(queue) \union {None}
              /\ UNCHANGED dropped_samples
  BY <1>1, <1>2, <1>4, PutElements DEF DownstreamInv, OnceEach
<1>6. None \notin Range(queue_samples) /\ None \notin Range(trained)
  BY <1>1, <1>3 DEF DownstreamInv, OnceEach, Reached
<1>7. OnceEach'
  <2>1. Range(queue') \subseteq Range(queue) \union {None}
    BY <1>5
  <2>2. Reached' \subseteq Reached
    BY <1>2, <2>1 DEF Reached
  <2>. QED BY <1>2, <1>3, <1>5, <1>6, <2>1, <2>2 DEF DownstreamInv, OnceEach
<1>8. NoneIsSent' /\ QueueSpent'
  BY <1>2 DEF DownstreamInv, NoneIsSent, QueueSpent
<1>9. DropsCounted'
  <2>. SUFFICES ASSUME proc_pc # "failed"
                PROVE  Cardinality(Sent' \ Reached') = dropped_samples'
    BY <1>2 DEF DropsCounted
  <2>1. Cardinality(Sent \ Reached) = dropped_samples
    BY DEF DownstreamInv, DropsCounted
  <2>2. CASE MQ!QueueFull
    <3>. DEFINE h == Head(queue)
    <3>1. h \in Reached /\ h \in Samples
      BY <1>3, <1>4, <1>5, <2>2 DEF Reached, DownstreamInv, OnceEach
    <3>2. Reached' = Reached \ {h}
      BY <1>2, <1>4, <1>5, <2>2 DEF Reached, DownstreamInv, OnceEach
    <3>. HIDE DEF h
    <3>3. Sent' \ Reached' = (Sent \ Reached) \union {h}
      BY <1>3, <3>1, <3>2 DEF DownstreamInv, OnceEach
    <3>. QED BY <1>3, <1>5, <2>1, <2>2, <3>1, <3>3, OneMoreLost
  <2>3. CASE ~MQ!QueueFull
    <3>1. Reached' = Reached
      BY <1>2, <1>4, <1>5, <2>3 DEF Reached
    <3>. QED BY <1>3, <1>5, <2>1, <2>3, <3>1
  <2>. QED BY <2>2, <2>3
<1>. QED BY <1>7, <1>8, <1>9 DEF DownstreamInv

\* What the trainer takes moves from the queue to its batch; the end signal is the
\* last it takes.
LEMMA DownstreamGet ==
  ASSUME SafeInv, EndComes, LastIsNone, UpstreamInv, DownstreamInv,
         \/ GetEndSignal
         \/ \E s \in Samples : GetSample(s)
  PROVE  DownstreamInv'
<1>. DEFINE D == Samples \union {None}
            h == Head(queue)
<1>1. /\ queue \in Seq(D) /\ queue # <<>> /\ queue' = Tail(queue) /\ None \notin Samples
      /\ queue_samples \in Seq(Samples) /\ Len(queue) \in Nat
  BY RollouterAssumption
     DEF SafeInv, MQ!MQTypeOK, TrainerTypeOK, GetEndSignal, GetSample, MQ!TakeSample
<1>. HIDE DEF D
<1>2. /\ UNCHANGED <<task_state, proc_pc, main_pc, trained, dropped_samples>>
      /\ trainer_pc = "collect"
  BY DEF GetEndSignal, GetSample, MQ!TakeSample, CollectEnd, CollectSample, rollouterVars
<1>3. /\ h \in Range(queue) /\ IsInjective(queue') /\ h \notin Range(queue')
      /\ Range(queue) = Range(queue') \union {h}
  BY <1>1, TailElements DEF DownstreamInv, OnceEach
<1>4. Sent' = Sent /\ Sent \subseteq Samples
  BY <1>2 DEF Sent
<1>5. ASSUME NEW s \in Samples, GetSample(s)
      PROVE  DownstreamInv'
  <2>1. s = h /\ queue_samples' = Append(queue_samples, s)
    BY <1>5 DEF GetSample, MQ!TakeSample, CollectSample
  <2>2. s \notin Range(queue_samples) /\ s \notin Range(trained)
    BY <1>3, <2>1 DEF DownstreamInv, OnceEach
  <2>3. /\ Range(queue_samples') = Range(queue_samples) \union {s}
        /\ IsInjective(queue_samples')
    BY <1>1, <2>1, <2>2, AppendElements DEF DownstreamInv, OnceEach
  <2>. HIDE DEF h
  <2>4. Reached' = Reached
    BY <1>1, <1>2, <1>3, <2>1, <2>3 DEF Reached
  <2>5. OnceEach'
    BY <1>2, <1>3, <1>4, <2>1, <2>2, <2>3, <2>4 DEF DownstreamInv, OnceEach
  <2>6. trainer_pc' \in {"collect", "train"}
    BY <1>5 DEF GetSample, CollectSample
  <2>. QED
    BY <1>2, <1>3, <1>4, <2>4, <2>5, <2>6
       DEF DownstreamInv, NoneIsSent, DropsCounted, QueueSpent
<1>6. CASE GetEndSignal
  <2>1. h = None /\ UNCHANGED queue_samples
    BY <1>6 DEF GetEndSignal, MQ!TakeSample, CollectEnd
  <2>2. proc_pc # "failed" => queue' = <<>> /\ main_pc \in {"stop", "done"}
    <3>. SUFFICES ASSUME proc_pc # "failed"
                  PROVE  queue' = <<>> /\ main_pc \in {"stop", "done"}
      OBVIOUS
    <3>1. main_pc \in {"stop", "done"}
      BY <1>3, <2>1 DEF UpstreamInv, NewIsHeld, DownstreamInv, NoneIsSent
    <3>2. queue[Len(queue)] = None /\ queue[1] = None /\ 1 \in DOMAIN queue
      BY <1>1, <2>1, <3>1, TailIndices DEF LastIsNone
    <3>3. Len(queue) \in DOMAIN queue
      BY <1>1
    <3>4. Len(queue) = 1
      BY <3>2, <3>3 DEF DownstreamInv, OnceEach, IsInjective
    <3>5. Tail(queue) \in Seq(D) /\ Len(Tail(queue)) = 0
      BY <1>1, <3>4, TailIndices
    <3>6. ASSUME NEW q \in Seq(D), Len(q) = 0
          PROVE  q = <<>>
      BY <3>6
    <3>. QED BY <1>1, <3>1, <3>5, <3>6
  <2>. HIDE DEF h
  <2>3. Reached' = Reached
    BY <1>2, <1>3, <2>1 DEF Reached
  <2>. QED
    BY <1>2, <1>3, <1>4, <2>1, <2>2, <2>3
       DEF DownstreamInv, OnceEach, NoneIsSent, DropsCounted, QueueSpent
<1>. QED BY <1>5, <1>6

\* A training step moves the batch to what was trained.
LEMMA DownstreamTrain ==
  ASSUME SafeInv, DownstreamInv, TrainerAlone
  PROVE  DownstreamInv'
<1>1. RollouterKeeps /\ UNCHANGED <<rollouterVars, queue, dropped_samples>>
  BY DEF TrainerAlone, RollouterKeeps, rollouterVars, mqVars, Sent
<1>2. CASE TrainStep
  <2>1. /\ trained' = trained \o queue_samples /\ queue_samples' = <<>>
        /\ trainer_pc' \in {"sync", "collect"}
    BY <1>2 DEF TrainStep
  <2>2. trained \in Seq(Samples) /\ queue_samples \in Seq(Samples)
    BY DEF SafeInv, TrainerTypeOK
  <2>3. Range(trained') = Range(trained) \union Range(queue_samples) /\ IsInjective(trained')
    BY <2>1, <2>2, JoinElements DEF DownstreamInv, OnceEach
  <2>4. Range(queue_samples') = {} /\ IsInjective(queue_samples')
    BY <2>1 DEF Range, IsInjective
  <2>5. Reached' = Reached
    BY <1>1, <2>3, <2>4 DEF Reached
  <2>. QED
    BY <1>1, <2>1, <2>3, <2>4, <2>5
       DEF RollouterKeeps, DownstreamInv, OnceEach, NoneIsSent, DropsCounted, QueueSpent
<1>3. CASE StopTraining
  BY <1>1, <1>3, DownstreamCalm DEF StopTraining
<1>. QED BY <1>2, <1>3 DEF TrainerAlone, TrainerStep

LEMMA DownstreamStep ==
  ASSUME SafeInv, EndComes, LastIsNone, UpstreamInv, DownstreamInv, [Next]_vars
  PROVE  DownstreamInv'
<1>1. CASE RollouterAlone
  <2>1. RollouterKeeps
    BY <1>1, RollouterKept DEF SafeInv, RollouterAlone
  <2>. QED BY <1>1, <2>1, DownstreamCalm DEF RollouterAlone, trainerVars, mqVars
<1>2. CASE TrainerAlone
  BY <1>2, DownstreamTrain
<1>3. ASSUME NEW s \in Samples, PutGenerated(s)
      PROVE  DownstreamInv'
  BY <1>3, DownstreamPut
<1>4. CASE GetEndSignal \/ \E s \in Samples : GetSample(s)
  BY <1>4, DownstreamGet
<1>5. CASE PutEndSignal
  BY <1>5, DownstreamSignal
<1>6. CASE SyncParameters
  <2>1. RollouterKeeps
    BY <1>6 DEF SyncParameters, ResetCalled, procVars, taskVars, RollouterKeeps, Sent
  <2>. QED BY <1>6, <2>1, DownstreamCalm DEF SyncParameters, UpdateWeights, mqVars
<1>7. CASE SyncReturned
  <2>1. RollouterKeeps
    BY <1>7 DEF SyncReturned, ResetReplied, procVars, taskVars, RollouterKeeps, Sent
  <2>. QED BY <1>7, <2>1, DownstreamCalm DEF SyncReturned, ResetReturned, mqVars
<1>8. CASE ClearAtEnd
  <2>1. RollouterKeeps /\ UNCHANGED <<rollouterVars, trainerVars, dropped_samples>>
    BY <1>8 DEF ClearAtEnd, MQ!ClearQueue, RollouterKeeps, rollouterVars, Sent
  <2>2. queue' = <<>> /\ trainer_pc = "done"
    BY <1>8 DEF ClearAtEnd, Finished, MQ!ClearQueue
  <2>3. CASE proc_pc # "failed"
    BY <2>1, <2>2, <2>3, DownstreamCalm DEF DownstreamInv, QueueSpent, trainerVars
  <2>4. CASE proc_pc = "failed"
    <3>1. Range(queue') = {} /\ IsInjective(queue')
      BY <2>2 DEF Range, IsInjective
    <3>. QED
      BY <2>1, <2>4, <3>1
         DEF RollouterKeeps, trainerVars, DownstreamInv, OnceEach, NoneIsSent, DropsCounted,
             QueueSpent, Reached
  <2>. QED BY <2>3, <2>4
<1>9. CASE UNCHANGED vars
  <2>1. RollouterKeeps
    BY <1>9 DEF vars, rollouterVars, RollouterKeeps, Sent
  <2>. QED BY <1>9, <2>1, DownstreamCalm DEF vars, trainerVars, mqVars
<1>. QED
  BY <1>1, <1>2, <1>3, <1>4, <1>5, <1>6, <1>7, <1>8, <1>9 DEF Next

-----------------------------------------------------------------------------
(* Every sample is accounted for *)

\* A failure waits among the active tasks until it fails the processor.
FailedIsActive ==
    proc_pc # "failed" => \A s \in Samples : task_state[s] = "failed" => s \in active_tasks

LEMMA FailedIsActiveStep ==
  ASSUME RollouterInv, FailedIsActive, [RollouterNext]_rollouterVars
  PROVE  FailedIsActive'
<1>. USE DEF procVars, feedVars, taskVars, resetVars
<1>0. RollouterTypeOK
  BY DEF RollouterInv
<1>1. ASSUME UNCHANGED <<task_state, active_tasks>>, proc_pc = "failed" => proc_pc' = "failed"
      PROVE  FailedIsActive'
  BY <1>1 DEF FailedIsActive
<1>2. ASSUME NEW queue_size, FeedStep \/ ResetStep(queue_size) \/ MonitorStep(queue_size)
      PROVE  FailedIsActive'
  BY <1>1, <1>2 DEF FeedStep, FeedSample, FeedEnd, ResetStep, ResetAwaitLock, ResetStart,
     ResetCount, ResetFinish, MonitorStep, MonitorWake, MonitorResume, MonitorCheck,
     Notified, monitorOthers
<1>3. CASE MainStep \/ MainSignal \/ ResetCalled \/ ResetReplied
  BY <1>1, <1>3 DEF MainStep, MainJoin, MainAbort, MainAwaitLock, MainStop, MainSignal,
     mainOthers, ResetCalled, ResetReplied
<1>4. CASE ProcessorReap
  BY <1>4 DEF ProcessorReap, FinishedTasks, FailedIsActive, procOthers
<1>5. CASE ProcessorSubmit
  BY <1>0, <1>5 DEF ProcessorSubmit, FailedIsActive, RollouterTypeOK
<1>6. ASSUME NEW queue_size, ProcessorStep(queue_size), ~ProcessorReap, ~ProcessorSubmit
      PROVE  FailedIsActive'
  BY <1>1, <1>6 DEF ProcessorStep, ProcessorTop, ProcessorAwaitLock, ProcessorPause,
     ProcessorGet, ProcessorDrained, ProcessorDrain, ProcessorHold, ProcessorWake, procOthers
<1>7. ASSUME NEW s \in Samples, TaskFinish(s)
      PROVE  FailedIsActive'
  BY <1>0, <1>7 DEF TaskFinish, taskOthers, FailedIsActive, RollouterTypeOK
<1>8. ASSUME NEW s \in Samples, TaskFail(s)
      PROVE  FailedIsActive'
  <2>1. s \in active_tasks
    BY <1>8 DEF TaskFail, RollouterInv, ActiveInv, Generating
  <2>. QED BY <1>0, <1>8, <2>1 DEF TaskFail, taskOthers, FailedIsActive, RollouterTypeOK
<1>9. ASSUME NEW s \in Samples, NEW success \in BOOLEAN, TaskPut(s, success)
      PROVE  FailedIsActive'
  BY <1>0, <1>9 DEF TaskPut, taskOthers, FailedIsActive, RollouterTypeOK
<1>10. CASE UNCHANGED rollouterVars
  BY <1>1, <1>10 DEF rollouterVars
<1>. QED
  BY <1>2, <1>3, <1>4, <1>5, <1>6, <1>7, <1>8, <1>9, <1>10
     DEF RollouterNext, RollouterStep, EnvironmentStep

\* What the two theorems rest on.
WhereInv == EndComes /\ LastIsNone /\ UpstreamInv /\ DownstreamInv /\ FailedIsActive

LEMMA AlwaysWhere == Spec => [](SafeInv /\ WhereInv)
<1>1. Init => WhereInv
  <2>1. Init => EndComes /\ LastIsNone /\ UpstreamInv /\ DownstreamInv
    BY EndComesInit, UpstreamInit, DownstreamInit DEF Init, RollouterInit, LastIsNone
  <2>2. Init => FailedIsActive
    BY DEF Init, RollouterInit, FailedIsActive
  <2>. QED BY <2>1, <2>2 DEF WhereInv
<1>2. SafeInv /\ WhereInv /\ [Next]_vars => WhereInv'
  BY RollouterPart, EndComesStep, LastIsNoneStep, UpstreamStep, DownstreamStep,
     FailedIsActiveStep DEF SafeInv, WhereInv
<1>. QED BY <1>1, <1>2, AlwaysSafe, PTL DEF Spec

\* Fed samples that are nowhere were sent and dropped, or failed.
LEMMA AccountedEntailed ==
  ASSUME SafeInv, WhereInv
  PROVE  SamplesAccounted
<1>. SUFFICES ASSUME proc_pc # "failed"
              PROVE  /\ IsInjective(Held)
                     /\ (Generating \union {rollout_sample}) \intersect Elements(Held) = {}
                     /\ Cardinality(Fed \ Present) = dropped_samples
                          + Cardinality({s \in Samples : task_state[s] = "failed"})
  BY DEF SamplesAccounted, IsInjective
<1>. DEFINE D == Samples \union {None}
            Failed == {s \in Samples : task_state[s] = "failed"}
<1>. USE DEF WhereInv
<1>1. /\ pending_queue \in Seq(D) /\ queue \in Seq(D)
      /\ queue_samples \in Seq(D) /\ trained \in Seq(D)
      /\ RollouterTypeOK /\ None \notin Samples
  BY RollouterAssumption DEF SafeInv, RollouterInv, RollouterTypeOK, MQ!MQTypeOK, TrainerTypeOK
<1>. HIDE DEF D
<1>2. Range(pending_queue) \intersect Sent = {}
  BY <1>1 DEF UpstreamInv, PendingNew, Sent
<1>3. /\ Range(queue_samples) \subseteq Sent /\ Range(trained) \subseteq Sent
      /\ Range(queue) \ {None} \subseteq Sent
  BY DEF DownstreamInv, OnceEach, Reached
<1>4. Range(pending_queue) \intersect Range(queue) = {}
  <2>1. ASSUME None \in Range(queue)
        PROVE  Range(pending_queue) = {}
    <3>1. main_pc \in {"stop", "done"}
      BY <2>1 DEF DownstreamInv, NoneIsSent, UpstreamInv, NewIsHeld
    <3>2. pending_queue = <<>>
      BY <3>1 DEF EndComes, MainEnd, DoneEnd
    <3>. QED BY <3>2 DEF Range
  <2>. QED BY <1>2, <1>3, <2>1
<1>5. /\ IsInjective(pending_queue \o queue) /\ pending_queue \o queue \in Seq(D)
      /\ Range(pending_queue \o queue) = Range(pending_queue) \union Range(queue)
  BY <1>1, <1>4, JoinElements DEF UpstreamInv, PendingNew, DownstreamInv, OnceEach
<1>6. /\ IsInjective(pending_queue \o queue \o queue_samples)
      /\ pending_queue \o queue \o queue_samples \in Seq(D)
      /\ Range(pending_queue \o queue \o queue_samples)
           = Range(pending_queue) \union Range(queue) \union Range(queue_samples)
  <2>1. Range(pending_queue \o queue) \intersect Range(queue_samples) = {}
    BY <1>2, <1>3, <1>5 DEF DownstreamInv, OnceEach
  <2>2. IsInjective(queue_samples)
    BY DEF DownstreamInv, OnceEach
  <2>. DEFINE p == pending_queue \o queue
  <2>3. p \in Seq(D) /\ IsInjective(p) /\ Range(p) \intersect Range(queue_samples) = {}
    BY <1>5, <2>1
  <2>. HIDE DEF p
  <2>4. /\ IsInjective(p \o queue_samples) /\ p \o queue_samples \in Seq(D)
        /\ Range(p \o queue_samples) = Range(p) \union Range(queue_samples)
    BY <1>1, <2>2, <2>3, JoinElements
  <2>. QED BY <1>5, <2>4 DEF p
<1>7. /\ IsInjective(Held)
      /\ Range(Held) = Range(pending_queue) \union Range(queue) \union Range(queue_samples)
                         \union Range(trained)
  <2>1. Range(pending_queue \o queue \o queue_samples) \intersect Range(trained) = {}
    BY <1>2, <1>3, <1>6 DEF DownstreamInv, OnceEach
  <2>2. IsInjective(trained)
    BY DEF DownstreamInv, OnceEach
  <2>. DEFINE p == pending_queue \o queue \o queue_samples
  <2>3. p \in Seq(D) /\ IsInjective(p) /\ Range(p) \intersect Range(trained) = {}
    BY <1>6, <2>1
  <2>4. Held = p \o trained
    BY DEF Held
  <2>. HIDE DEF p
  <2>5. IsInjective(Held) /\ Range(Held) = Range(p) \union Range(trained)
    BY <1>1, <2>2, <2>3, <2>4, JoinElements
  <2>. QED BY <1>6, <2>5 DEF p
<1>8. Elements(Held) = (Range(pending_queue) \ {None}) \union Reached
  <2>1. Elements(Held) = Range(Held) \ {None}
    BY DEF Elements, Range
  <2>2. None \notin Sent
    BY <1>1 DEF Sent
  <2>. QED BY <1>3, <1>7, <2>1, <2>2 DEF Reached
<1>9. (Generating \union {rollout_sample}) \intersect Elements(Held) = {}
  <2>1. Generating \intersect Elements(Held) = {}
    BY <1>8 DEF Generating, UpstreamInv, PendingNew, DownstreamInv, OnceEach, Sent
  <2>2. rollout_sample \notin Elements(Held)
    BY <1>1, <1>8 DEF UpstreamInv, PendingNew, HandNew, DownstreamInv, OnceEach, Sent
  <2>. QED BY <2>1, <2>2
<1>10. Fed \ Present = (Sent \ Reached) \union Failed
  <2>1. Present = (Range(pending_queue) \ {None}) \union Reached \union Generating
                    \union {rollout_sample}
    BY <1>8 DEF Present
  <2>2. Fed \subseteq Samples
    BY <1>1, FedSamples
  <2>3. ASSUME NEW s \in Fed, s \notin Present
        PROVE  s \in (Sent \ Reached) \union Failed
    <3>1. task_state[s] \notin {"new", "generating"} /\ s \notin Reached /\ s \in Samples
      BY <1>1, <2>1, <2>2, <2>3 DEF UpstreamInv, NewIsHeld, Generating
    <3>. QED BY <1>1, <3>1 DEF Sent, RollouterTypeOK
  <2>4. ASSUME NEW s \in (Sent \ Reached) \union Failed
        PROVE  s \in Fed /\ s \notin Present
    <3>1. s \in Samples /\ task_state[s] \notin {"new", "generating"} /\ s \notin Reached
      BY DEF Sent, DownstreamInv, OnceEach
    <3>. QED
      BY <1>1, <2>1, <3>1 DEF UpstreamInv, FedFirst, PendingNew, HandNew, Generating
  <2>. QED BY <2>3, <2>4
<1>11. Cardinality(Fed \ Present) = dropped_samples + Cardinality(Failed)
  <2>1. IsFiniteSet(Sent \ Reached) /\ IsFiniteSet(Failed)
    BY SamplesFinite, FS_Subset DEF Sent
  <2>2. (Sent \ Reached) \intersect Failed = {}
    BY DEF Sent
  <2>3. Cardinality(Sent \ Reached) = dropped_samples
    BY DEF DownstreamInv, DropsCounted
  <2>4. dropped_samples \in Nat /\ Cardinality(Failed) \in Nat
    BY <2>1, FS_CardinalityType DEF SafeInv, MQ!MQTypeOK
  <2>. HIDE DEF Failed
  <2>5. Cardinality((Sent \ Reached) \union Failed)
          = Cardinality(Sent \ Reached) + Cardinality(Failed) - 0
    BY <2>1, <2>2, FS_Union, FS_EmptySet
  <2>. QED BY <1>10, <2>3, <2>4, <2>5
<1>. QED BY <1>7, <1>9, <1>11

\* A sample is never in two places on its way through the system, and those that
\* were fed and are in none are the ones the full queue dropped and counted, and the
\* ones whose generation failed.
THEOREM SamplesSafe == Spec => []SamplesAccounted
<1>1. SafeInv /\ WhereInv => SamplesAccounted
  BY AccountedEntailed
<1>. QED BY <1>1, AlwaysWhere, PTL

LEMMA ForgottenEntailed ==
  ASSUME SafeInv, WhereInv
  PROVE  NothingForgotten
<1>. SUFFICES ASSUME trainer_pc = "done", main_pc = "done"
              PROVE  Len(trained) + Len(queue_samples) + dropped_samples = TotalRolloutSteps
  BY DEF NothingForgotten
<1>. USE DEF WhereInv
<1>1. proc_pc = "done" /\ pending_queue = <<>> /\ feed_pc = "done" /\ active_tasks = {}
  BY DEF EndComes, MainEnd, DoneEnd
<1>2. queue = <<>> /\ rollout_sample = None
  BY <1>1 DEF DownstreamInv, QueueSpent, SafeInv, RollouterInv, HandInv, Admitting
<1>3. Range(queue) = {} /\ Range(pending_queue) = {}
  BY <1>1, <1>2 DEF Range
<1>4. /\ RollouterTypeOK /\ None \notin Samples /\ TotalRolloutSteps \in Nat
      /\ trained \in Seq(Samples) /\ queue_samples \in Seq(Samples)
      /\ dropped_samples \in Nat
  BY RollouterAssumption DEF SafeInv, RollouterInv, TrainerTypeOK, MQ!MQTypeOK
<1>5. Fed = Samples
  BY <1>1 DEF UpstreamInv, NewIsHeld, Fed, Samples
<1>6. Sent = Samples
  <2>1. ASSUME NEW s \in Samples
        PROVE  task_state[s] \notin {"new", "generating", "failed"}
    <3>1. task_state[s] # "new"
      BY <1>1, <1>2, <1>3, <1>4, <1>5 DEF UpstreamInv, NewIsHeld
    <3>2. task_state[s] # "failed"
      BY <1>1 DEF FailedIsActive
    <3>3. task_state[s] # "generating"
      BY <1>1 DEF SafeInv, RollouterInv, ActiveInv, Generating
    <3>. QED BY <3>1, <3>2, <3>3
  <2>. QED BY <1>4, <2>1 DEF Sent, RollouterTypeOK
<1>. DEFINE T == Range(trained)
            B == Range(queue_samples)
<1>7. /\ IsFiniteSet(T) /\ Cardinality(T) = Len(trained)
      /\ IsFiniteSet(B) /\ Cardinality(B) = Len(queue_samples)
  BY <1>4, ElementsCounted DEF DownstreamInv, OnceEach
<1>8. /\ Reached = B \union T /\ B \intersect T = {} /\ B \union T \subseteq Samples
      /\ Cardinality(Samples \ (B \union T)) = dropped_samples
  BY <1>1, <1>3, <1>6 DEF Reached, DownstreamInv, OnceEach, DropsCounted
<1>. HIDE DEF T, B
<1>9. /\ IsFiniteSet(B \union T)
      /\ Cardinality(B \union T) = Len(queue_samples) + Len(trained) - 0
  <2>1. Cardinality(B \intersect T) = 0
    BY <1>8, FS_EmptySet
  <2>. QED BY <1>7, <2>1, FS_Union
<1>10. Cardinality(Samples) = TotalRolloutSteps
  BY <1>4, FS_Interval, RollouterAssumption DEF Samples
<1>11. Samples \intersect (B \union T) = B \union T
  BY <1>8
<1>12. Cardinality(Samples \ (B \union T)) = Cardinality(Samples) - Cardinality(B \union T)
  <2>1. \A X : Cardinality(Samples \ X)
                 = Cardinality(Samples) - Cardinality(Samples \intersect X)
    BY SamplesFinite, FS_Difference
  <2>. QED BY <1>11, <2>1
<1>13. Len(queue_samples) \in Nat /\ Len(trained) \in Nat
  BY <1>4
<1>. QED BY <1>4, <1>8, <1>9, <1>10, <1>12, <1>13

\* When both actors have finished without a failure, every sample of the run was
\* trained on, dropped and counted by the full queue, or left in the short last batch.
THEOREM NothingForgottenSafe == Spec => []NothingForgotten
<1>1. SafeInv /\ WhereInv => NothingForgotten
  BY ForgottenEntailed
<1>. QED BY <1>1, AlwaysWhere, PTL
=============================================================================
