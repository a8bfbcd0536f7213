------------------------------- MODULE Trainer -------------------------------
(***************************************************************************)
(* The FullyAsyncTrainer actor                                             *)
(* (verl/experimental/fully_async_policy/fully_async_trainer.py): fit, the  *)
(* loop that collects a batch, trains on it and synchronises the weights.  *)
(*                                                                         *)
(* Every operation blocks the actor (ray.get), so the trainer is one       *)
(* sequential process.  What it calls on the other actors is conjoined to  *)
(* these actions in FullyAsync.                                            *)
(***************************************************************************)
EXTENDS Naturals, Sequences

CONSTANTS
    RequiredSamples,       \* required_samples: samples of one training step
    TriggerSteps,          \* trigger_parameter_sync_step
    TestFreq               \* trainer.test_freq (-1 behaves as 1 in this code)

ASSUME TrainerAssumption ==
    /\ RequiredSamples \in Nat \ {0}
    /\ TriggerSteps \in Nat \ {0}
    /\ TestFreq \in Nat \ {0}

VARIABLES
    trainer_pc,
    queue_samples,         \* the batch being collected
    trained,               \* every sample trained on so far, in order
    served,                \* how many of them the weights sent last are trained on
    local_trigger_step,
    current_param_version

trainerVars == <<trainer_pc, queue_samples, trained, served, local_trigger_step,
                 current_param_version>>

TrainerTypeOK(Sample) ==
    /\ trainer_pc \in {"collect", "train", "sync", "resetting", "stopping", "final_sync",
                       "final_resetting", "done"}
    /\ queue_samples \in Seq(Sample)
    /\ trained \in Seq(Sample)
    /\ served \in Nat
    /\ local_trigger_step \in 1 .. TriggerSteps
    /\ current_param_version \in Nat

\* fit starts after _initialize_components has synchronised version 0.
TrainerInit ==
    /\ trainer_pc = "collect"
    /\ queue_samples = <<>>
    /\ trained = <<>>
    /\ served = 0
    /\ local_trigger_step = 1
    /\ current_param_version = 0

\* One get_sample of _get_samples_from_queue.
CollectSample(sample) ==
    /\ trainer_pc = "collect"
    /\ queue_samples' = Append(queue_samples, sample)
    /\ trainer_pc' = IF Len(queue_samples') = RequiredSamples THEN "train" ELSE "collect"
    /\ UNCHANGED <<trained, served, local_trigger_step, current_param_version>>

\* get_sample returned the end signal: the batch stays short, which stops the
\* training loop and leaves its samples untrained.
CollectEnd ==
    /\ trainer_pc = "collect"
    /\ trainer_pc' = "stopping"
    /\ UNCHANGED <<queue_samples, trained, served, local_trigger_step, current_param_version>>

\* Fault: one step too few before the synchronisation.
LastLocalStepEarly == local_trigger_step + 1 >= TriggerSteps

\* _fit_update_local_step: whether the step completes a version.
LastLocalStep == local_trigger_step >= TriggerSteps

\* The rest of fit_step up to _fit_update_local_step: the update of the actor,
\* then the count of local steps that decides whether to synchronise.
TrainStep ==
    /\ trainer_pc = "train"
    /\ trained' = trained \o queue_samples
    /\ queue_samples' = <<>>
    /\ IF LastLocalStep
       THEN /\ local_trigger_step' = 1
            /\ current_param_version' = current_param_version + 1
            /\ trainer_pc' = "sync"
       ELSE /\ local_trigger_step' = local_trigger_step + 1
            /\ trainer_pc' = "collect"
            /\ UNCHANGED current_param_version
    /\ UNCHANGED served

\* _fit_update_weights: the weights are sent, then reset_staleness is called on
\* the rollouter and awaited.
UpdateWeights ==
    /\ trainer_pc \in {"sync", "final_sync"}
    /\ trainer_pc' = IF trainer_pc = "sync" THEN "resetting" ELSE "final_resetting"
    /\ served' = Len(trained)
    /\ UNCHANGED <<queue_samples, trained, local_trigger_step, current_param_version>>

ResetReturned ==
    /\ trainer_pc \in {"resetting", "final_resetting"}
    /\ trainer_pc' = IF trainer_pc = "resetting" THEN "collect" ELSE "done"
    /\ UNCHANGED <<queue_samples, trained, served, local_trigger_step, current_param_version>>

\* fit after the loop: one more synchronisation unless the last version was
\* validated, and none between two synchronisations (_fit_update_weights
\* returns at once when local_trigger_step is not 1).
StopTraining ==
    /\ trainer_pc = "stopping"
    /\ trainer_pc' = IF local_trigger_step = 1 /\ current_param_version % TestFreq # 0
                     THEN "final_sync" ELSE "done"
    /\ UNCHANGED <<queue_samples, trained, served, local_trigger_step, current_param_version>>

\* What it does without the other actors.
TrainerStep == TrainStep \/ StopTraining
=============================================================================
