------------------------------ MODULE FullyAsync ------------------------------
(***************************************************************************)
(* The fully asynchronous training system                                  *)
(* (verl/experimental/fully_async_policy): the rollouter produces samples  *)
(* into the message queue, the trainer consumes them and, every            *)
(* trigger_parameter_sync_step steps, synchronises the weights and resets  *)
(* the rollouter's count of stale samples.                                 *)
(*                                                                         *)
(* A run is the fit of both actors after the components are initialised    *)
(* and version 0 of the weights is in place.                               *)
(***************************************************************************)
EXTENDS Rollouter, Trainer

CONSTANT PromptLoop        \* TRUE: see Settled

VARIABLES queue, total_produced, total_consumed, dropped_samples

\* set_max_required_samples: max_queue_size = max_required_samples
MQ == INSTANCE MessageQueue WITH MaxQueueSize <- MaxRequiredSamples

\* max_required_samples = int(required * (staleness_threshold + 1) * trigger)
\* with staleness_threshold >= 0.  What the product rounds to stays a parameter.
ASSUME FreshnessAssumption ==
    /\ MaxRequiredSamples >= RequiredSamples * TriggerSteps
    /\ PromptLoop \in BOOLEAN

mqVars == <<queue, total_produced, total_consumed, dropped_samples>>
vars == <<rollouterVars, trainerVars, mqVars>>

Init == RollouterInit /\ TrainerInit /\ MQ!MQInit

-----------------------------------------------------------------------------
(* What the actors do together *)

\* A generated sample enters the message queue.
PutGenerated(s) ==
    /\ TaskPut(s, MQ!PutSucceeds)
    /\ MQ!PutSample(s)
    /\ UNCHANGED trainerVars

\* The rollouter's end signal enters the message queue.
PutEndSignal ==
    /\ MainSignal
    /\ MQ!PutSample(None)
    /\ UNCHANGED trainerVars

\* The trainer's get_sample returns a sample or the end signal.
GetSample(sample) ==
    /\ MQ!TakeSample(sample)
    /\ CollectSample(sample)
    /\ UNCHANGED rollouterVars

GetEndSignal ==
    /\ MQ!TakeSample(None)
    /\ CollectEnd
    /\ UNCHANGED rollouterVars

\* Nothing is left for the rollouter's event loop to run: only generations, the
\* trainer or the monitor's timer can move the system.
Settled ==
    /\ loop = "idle" /\ lock \in {<<>>, <<"processor">>}
    /\ \A s \in Samples : task_state[s] \notin {"put", "overflow"}
    /\ feed_pc = "done" \/ PendingFull
    /\ \/ proc_pc = "get" /\ pending_queue = <<>>
       \/ proc_pc = "wait" /\ FinishedTasks = {}
       \/ proc_pc \in {"paused", "done", "failed"}

\* The weights are sent and reset_staleness is called ...  A training step and
\* the transfer of the weights take seconds, a turn of the event loop far less:
\* with PromptLoop the loop has settled by then.  Without it the loop may lag
\* behind the trainer for as long as it likes.
SyncParameters ==
    /\ PromptLoop => Settled
    /\ UpdateWeights /\ ResetCalled /\ UNCHANGED mqVars

\* ... and its reply lets the trainer go on.
SyncReturned == ResetReturned /\ ResetReplied /\ UNCHANGED mqVars

\* Both fits have returned: nothing is left to do.
Finished == FitReturned /\ trainer_pc = "done"

\* The main task's clear_queue, after both fits.
ClearAtEnd ==
    /\ Finished
    /\ MQ!ClearQueue
    /\ UNCHANGED <<rollouterVars, trainerVars>>

RollouterAlone == RollouterStep(Len(queue)) /\ UNCHANGED <<trainerVars, mqVars>>
TrainerAlone == TrainerStep /\ UNCHANGED <<rollouterVars, mqVars>>

Next ==
    \/ RollouterAlone \/ TrainerAlone
    \/ \E s \in Samples : PutGenerated(s) \/ GetSample(s)
    \/ PutEndSignal \/ GetEndSignal
    \/ SyncParameters \/ SyncReturned
    \/ ClearAtEnd

Spec == Init /\ [][Next]_vars

\* The event loop schedules every ready coroutine, the timer of the monitor and
\* the RPCs between the actors fire, a generation ends, and the trainer runs.
\* A generation need not fail.
Fairness ==
    LET Alone(A) == A /\ UNCHANGED <<trainerVars, mqVars>> IN
    /\ WF_vars(Alone(FeedStep)) /\ WF_vars(Alone(ProcessorStep(Len(queue))))
    /\ WF_vars(Alone(ResetStep(Len(queue)))) /\ WF_vars(Alone(MonitorStep(Len(queue))))
    /\ WF_vars(Alone(MainStep))
    /\ \A s \in Samples : WF_vars(Alone(TaskFinish(s))) /\ WF_vars(PutGenerated(s))
    /\ WF_vars(PutEndSignal)
    /\ WF_vars(TrainerAlone)
    /\ WF_vars(\E s \in Samples : GetSample(s)) /\ WF_vars(GetEndSignal)
    /\ WF_vars(SyncParameters) /\ WF_vars(SyncReturned)

FairSpec == Spec /\ Fairness

-----------------------------------------------------------------------------
(* Where the samples are *)

InHand == IF rollout_sample = None THEN 0 ELSE 1
Elements(seq) == {seq[i] : i \in DOMAIN seq} \ {None}

\* Admitted by the rollouter and not yet taken by the trainer.
Outstanding == Cardinality(Generating) + Len(queue) + InHand

\* Every sequence a sample can be in, in the order of its way to the trainer.
Held == pending_queue \o queue \o queue_samples \o trained
Present == Elements(Held) \union Generating \union {rollout_sample}

Fed == 1 .. IF feed_pc = "sample" THEN global_steps - 1 ELSE global_steps

-----------------------------------------------------------------------------
(* Properties *)

\* Every variable has the type its use in the code gives it.
TypeOK ==
    /\ RollouterTypeOK
    /\ TrainerTypeOK(Samples)
    /\ MQ!MQTypeOK(Samples \union {None})

\* The end signal of the rollouter has not been sent.
Streaming == main_pc \in {"run", "signal", "abort"}

\* staleness_samples never falls behind the samples it stands for by more than
\* the one in the processor's hand, although reset_staleness recomputes it in two
\* reads with an RPC between them, tasks finish meanwhile, and the processor
\* increments it without the lock.
StalenessCovers == Streaming => Outstanding <= staleness_samples + 1

\* However the pause, the reset and the monitor interleave, the rollouter is never
\* more than one sample over max_required_samples ahead of the trainer.
OutstandingBounded == Streaming => Outstanding <= MaxRequiredSamples + 1

\* What keeps both: a sample is taken only when one more fits, and the sum that
\* reset_staleness is computing is not overtaken before it is stored.
Counts ==
    Streaming =>
        /\ Outstanding <= staleness_samples + 1
        /\ Outstanding <= MaxRequiredSamples + 1
        /\ proc_pc = "get" => Outstanding <= MaxRequiredSamples
        /\ reset_pc = "counting" => Cardinality(Generating) <= reset_count
        /\ reset_pc = "counted" => Cardinality(Generating) + Len(queue) <= reset_count

\* active_tasks, finished and not yet reaped tasks included, stays within
\* max_concurrent_samples whichever path of the processor reaps it.
ConcurrencyBounded == Cardinality(active_tasks) <= MaxConcurrentSamples

\* A processor that sleeps on the condition has drained its tasks, and no one has
\* cleared paused without waking it (no lost notification).
PausedMeansQuiet == proc_pc = "paused" => paused /\ active_tasks = {}

\* On the normal path the end signal enters the message queue after every sample:
\* nothing is pending, in hand or being generated once it is sent.
EndSignalIsLast ==
    main_pc \in {"stop", "done"} =>
        /\ Generating = {} /\ active_tasks = {} /\ rollout_sample = None
        /\ pending_queue = <<>>
        /\ queue # <<>> => queue[Len(queue)] = None

\* A sample is never in two places, and the samples fed and no longer anywhere are
\* exactly the ones the full queue dropped and the ones whose generation failed.
SamplesAccounted ==
    ~FitReturned /\ proc_pc # "failed" =>
        /\ \A i, j \in DOMAIN Held : Held[i] = Held[j] => i = j
        /\ (Generating \union {rollout_sample}) \intersect Elements(Held) = {}
        /\ Cardinality(Fed \ Present)
             = dropped_samples + Cardinality({s \in Samples : task_state[s] = "failed"})

\* Between two synchronisations the trainer trains on exactly
\* trigger_parameter_sync_step batches of required_samples samples, and the
\* rollouter's weights lack the local steps since: at the end, when fit's last
\* synchronisation returns at once inside a version, no more than its steps.
SyncEveryTrigger ==
    /\ Len(trained) = (current_param_version * TriggerSteps + local_trigger_step - 1) * RequiredSamples
    /\ trainer_pc # "sync" => Len(trained) = served + (local_trigger_step - 1) * RequiredSamples

\* When both actors have finished, every sample of the run was trained on, dropped
\* by the full queue, or left in the short last batch.
NothingForgotten ==
    trainer_pc = "done" /\ main_pc = "done" =>
        Len(trained) + Len(queue_samples) + dropped_samples = TotalRolloutSteps

\* The run ends: no pause is left without a resume, and no batch without samples.
Terminates == <>Finished

\* When the generation of a sample fails, the trainer gets an end signal and stops.
FailureStopsTrainer == proc_pc = "failed" ~> trainer_pc = "done"

-----------------------------------------------------------------------------
(* What the documentation says and the code does not do *)

\* docs/advance/fully_async.md:137-141: between two parameter updates the rollouter
\* generates at most max_required_samples samples, less the stale ones left from
\* before: what is generated or being generated, with what the trainer has taken
\* since the last update, stays within max_required_samples.
ConsumedSinceSync == (local_trigger_step - 1) * RequiredSamples + Len(queue_samples)

RolloutBudget ==
    trainer_pc \in {"collect", "train"} =>
        Cardinality(Generating) + Cardinality(Elements(queue)) + ConsumedSinceSync
            <= MaxRequiredSamples

\* docs/advance/fully_async.md:131-134: with staleness_threshold = 0 the rollouter
\* generates the whole of the next update's samples, so a waiting trainer is served.
TrainerServed == trainer_pc = "collect" ~> trainer_pc # "collect"

\* fully_async_rollouter.py:534-535: an early exit of the processor is detected
\* "instead of blocking", so the fit of the rollouter returns.
FailureEndsFit == proc_pc = "failed" ~> FitReturned
=============================================================================
