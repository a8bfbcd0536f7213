------------------------------- MODULE Resume -------------------------------
(***************************************************************************)
(* Saving, crashing and resuming a fully asynchronous run: the trainer's   *)
(* _fit_save_checkpoint and load_checkpoint                                *)
(* (verl/experimental/fully_async_policy/fully_async_trainer.py) and the   *)
(* rollouter's _feed_samples, save_checkpoint and load_checkpoint          *)
(* (fully_async_rollouter.py), over the files of CheckpointFiles.          *)
(*                                                                         *)
(* The way of a sample from the feed to a training step is that of         *)
(* FullyAsync and is abstracted here: a sample that was read from the data *)
(* loader is in flight until a batch takes it, at most MaxInFlight are     *)
(* (the queues, the tasks and the batch being collected), and batches take *)
(* them in any order.  The data loader is a stream 1, 2, 3, ... that no    *)
(* run reads to its end.  trained is the history of the weights in memory: *)
(* it is saved and loaded with them, so that a run that resumes continues  *)
(* the history of the checkpoint and forgets what came after it.           *)
(*                                                                         *)
(* A run may crash between any two steps, and may be started again after a *)
(* crash or after its end, with resume_mode "auto".                        *)
(***************************************************************************)
EXTENDS CheckpointFiles, FiniteSets

CONSTANTS
    TotalRolloutSteps,     \* total_rollout_steps
    RequiredSamples,       \* required_samples: samples of one training step
    TriggerSteps,          \* trigger_parameter_sync_step
    SaveFreq,              \* trainer.save_freq
    MayExpire,             \* whether should_save_ckpt_esi may answer True
    MaxInFlight,           \* most samples read and not trained on
    MaxRestarts            \* bound: how often a run is started again

ASSUME ResumeAssumption ==
    /\ {TotalRolloutSteps, RequiredSamples, TriggerSteps, SaveFreq} \subseteq Nat \ {0}
    /\ MayExpire \in BOOLEAN
    /\ MaxInFlight \in Nat /\ MaxInFlight >= RequiredSamples
    /\ MaxRestarts \in Nat

VARIABLES
    run_pc,                \* "down" between two runs
    closing,               \* whether fit has left its loop
    current_param_version, local_trigger_step, last_ckpt_version,
    trained,               \* the samples the weights in memory were trained on
    fed,                   \* the position of the data loader
    global_steps, feed_done,
    inflight,              \* samples read and not trained on
    restarts

memoryVars == <<closing, current_param_version, local_trigger_step, last_ckpt_version,
                trained, fed, global_steps, feed_done, inflight>>
trainerVars == <<closing, current_param_version, local_trigger_step, trained>>
feedVars == <<fed, global_steps, feed_done>>
vars == <<diskVars, saveVars, run_pc, memoryVars, restarts>>

TypeOK ==
    /\ CheckpointTypeOK(SUBSET Nat)
    /\ run_pc \in {"down", "train", "save", "done", "failed"}
    /\ closing \in BOOLEAN /\ feed_done \in BOOLEAN
    /\ current_param_version \in Nat /\ last_ckpt_version \in Nat
    /\ local_trigger_step \in 1 .. TriggerSteps
    /\ trained \in SUBSET Nat /\ inflight \in SUBSET Nat
    /\ fed \in Nat /\ global_steps \in Nat
    /\ restarts \in 0 .. MaxRestarts

VersionSamples == RequiredSamples * TriggerSteps

\* Fault (the first of this module's, explained in MessageQueue): the feed of a
\* resumed run counts from one again.
FromOne(version) == 1

\* What load_checkpoint makes of a version for the feed's count of samples
ResumedSteps(version) == version * VersionSamples + 1

Init ==
    /\ NoCheckpoint /\ NothingSavedYet
    /\ current_param_version = 0 /\ last_ckpt_version = 0
    /\ local_trigger_step = 1 /\ trained = {}
    /\ fed = 0 /\ global_steps = 1 /\ feed_done = FALSE /\ inflight = {}
    /\ closing = FALSE /\ run_pc = "train"
    /\ restarts = 0

\* The memory of a run becomes that of one that starts from a version.
Load(version, content, position) ==
    /\ current_param_version' = version /\ last_ckpt_version' = version
    /\ local_trigger_step' = 1 /\ trained' = content
    /\ fed' = position /\ global_steps' = ResumedSteps(version)
    /\ feed_done' = FALSE /\ inflight' = {}
    /\ closing' = FALSE

Running == run_pc \in {"train", "save"}

-----------------------------------------------------------------------------
(* The rollouter *)

\* _feed_samples reads the next sample while there is room in the queues.
Feed ==
    /\ Running /\ ~feed_done /\ Cardinality(inflight) < MaxInFlight
    /\ fed' = fed + 1
    /\ inflight' = inflight \union {fed + 1}
    /\ IF global_steps >= TotalRolloutSteps
       THEN feed_done' = TRUE /\ UNCHANGED global_steps
       ELSE global_steps' = global_steps + 1 /\ UNCHANGED feed_done
    /\ UNCHANGED <<diskVars, saveVars, run_pc, trainerVars, last_ckpt_version, restarts>>

-----------------------------------------------------------------------------
(* The trainer *)

\* Fault: only the end of the run and of the instance make a save due.
SaveDueUnscheduled(version, force, expiring) ==
    /\ version # last_ckpt_version
    /\ force \/ expiring

\* The conditions of _fit_save_checkpoint
SaveDue(version, force, expiring) ==
    /\ version # last_ckpt_version
    /\ force \/ version % SaveFreq = 0 \/ expiring

\* Fault: one local step too many.
LastLocalStepLate == local_trigger_step > TriggerSteps

LastLocalStep == local_trigger_step >= TriggerSteps

\* One fit_step: a batch of the samples in flight, the count of the local
\* steps, and the decision to save.
Train(batch) ==
    /\ run_pc = "train" /\ ~closing
    /\ batch \subseteq inflight /\ Cardinality(batch) = RequiredSamples
    /\ trained' = trained \union batch
    /\ inflight' = inflight \ batch
    /\ IF LastLocalStep
       THEN /\ local_trigger_step' = 1
            /\ current_param_version' = current_param_version + 1
       ELSE /\ local_trigger_step' = local_trigger_step + 1
            /\ UNCHANGED current_param_version
    /\ \E expiring \in {FALSE, MayExpire} :
          run_pc' = IF SaveDue(current_param_version', FALSE, expiring) THEN "save" ELSE "train"
    /\ UNCHANGED <<diskVars, saveVars, closing, last_ckpt_version, feedVars, restarts>>

\* Fault: the loop is left when the loader's position is that of a complete run,
\* although a resumed run may have started behind samples that were lost.
LoaderAtTotal == fed = TotalRolloutSteps /\ inflight = {}

ShortBatch == Cardinality(inflight) < RequiredSamples

\* The end signal leaves the batch short: fit leaves its loop and calls
\* _fit_save_checkpoint(force=True).
Stop ==
    /\ run_pc = "train" /\ feed_done /\ ShortBatch
    /\ closing' = TRUE
    /\ run_pc' = IF SaveDue(current_param_version, TRUE, FALSE) THEN "save" ELSE "done"
    /\ UNCHANGED <<diskVars, saveVars, current_param_version, local_trigger_step,
                   last_ckpt_version, trained, feedVars, inflight, restarts>>

\* The steps of _save_checkpoint that are not its last one
SaveStep ==
    /\ run_pc = "save"
    /\ \/ OpenModel(current_param_version)
       \/ WriteModel(current_param_version, trained)
       \/ RegisterModel(current_param_version)
       \/ SaveData(current_param_version, fed)
       \/ TruncateTracker
    /\ UNCHANGED <<run_pc, memoryVars, restarts>>

Saved ==
    /\ run_pc = "save"
    /\ NameTracker(current_param_version)
    /\ last_ckpt_version' = current_param_version
    /\ run_pc' = IF closing THEN "done" ELSE "train"
    /\ UNCHANGED <<trainerVars, feedVars, inflight, restarts>>

-----------------------------------------------------------------------------
(* Crashes and restarts *)

Down ==
    /\ restarts < MaxRestarts
    /\ restarts' = restarts + 1
    /\ run_pc' = "down"
    /\ Load(0, {}, 0) /\ ForgetSaves
    /\ UNCHANGED diskVars

\* Every process of the run is gone, and its memory with it.
Crash == Running /\ Down

\* A finished run is started again.
Rerun == run_pc = "done" /\ Down

Loadable(version) == \A r \in Roles : version \in DOMAIN weights[r]

\* Fault: the loader starts behind the last sample trained on, as if nothing
\* had been in flight.
TrainedPosition(version) == Cardinality(weights["actor"][version])

\* Fault: the resumed loader skips one sample.
BeyondPosition(version) == IF version \in DOMAIN data THEN data[version] + 1 ELSE 0

\* The loader's position in data.pt; without the file it stays at the start.
SavedPosition(version) == IF version \in DOMAIN data THEN data[version] ELSE 0

\* Fault: the count of versions is not restored.
ForgottenVersion == 0

\* find_latest_ckpt_path names the version of the tracker's file.
ResumedVersion == tracker

\* load_checkpoint of the trainer, then of the rollouter.  An empty tracker is
\* no number, and a model whose directory is gone cannot be loaded.
Restart ==
    /\ run_pc = "down"
    /\ IF truncated \/ (tracker # 0 /\ ~Loadable(tracker))
       THEN run_pc' = "failed" /\ UNCHANGED memoryVars
       ELSE /\ run_pc' = "train"
            /\ IF tracker = 0
               THEN Load(0, {}, 0)
               ELSE Load(ResumedVersion, weights["actor"][tracker], SavedPosition(tracker))
    /\ UNCHANGED <<diskVars, saveVars, restarts>>

Next ==
    \/ Feed
    \/ \E batch \in SUBSET inflight : Train(batch)
    \/ Stop \/ SaveStep \/ Saved
    \/ Crash \/ Rerun \/ Restart

Spec == Init /\ [][Next]_vars

\* Whoever starts the runs again owes nothing; what runs goes on.
Fairness ==
    /\ WF_vars(Feed)
    /\ WF_vars(\E batch \in SUBSET inflight : Train(batch))
    /\ WF_vars(Stop \/ SaveStep \/ Saved)

FairSpec == Spec /\ Fairness

-----------------------------------------------------------------------------
(* Properties *)

\* The tracker names a checkpoint that is there, all of it, and of one save:
\* whenever a crash comes, and whichever directories an earlier run left half
\* written under the same version, actor and critic have the same history and
\* the loader's position is behind all of it.
TrackedWhole ==
    tracker # 0 =>
        /\ Loadable(tracker) /\ tracker \in DOMAIN data
        /\ \A r \in Roles : weights[r][tracker] = weights["actor"][tracker]
        /\ \A s \in weights["actor"][tracker] : s <= data[tracker]

\* Through any crashes and resumes no sample is trained on twice in the history
\* of the weights: what is read is never in that history already.
NoSampleTwice == inflight \intersect trained = {}

\* total_rollout_steps bounds the samples behind the weights, but a checkpoint
\* taken between two synchronisations is resumed as the version it is named
\* after: every restart may repeat its surplus steps, and a run that was
\* complete feeds one more sample.
WithinBudget ==
    Cardinality(trained)
        <= TotalRolloutSteps + restarts * ((TriggerSteps - 1) * RequiredSamples + 1)

SavedHistory == IF tracker = 0 THEN {} ELSE weights["actor"][tracker]

\* A crash costs at most the training of save_freq versions, and a run that has
\* ended leaves unsaved only the surplus steps of a version already saved.
WorkAtRisk ==
    /\ Running => Cardinality(trained \ SavedHistory) <= SaveFreq * VersionSamples
    /\ run_pc = "done" => Cardinality(trained \ SavedHistory) <= (TriggerSteps - 1) * RequiredSamples

\* The samples read, not trained on and no longer in flight were in flight when
\* a checkpoint was taken that some run resumed from.
LossBounded ==
    Cardinality((1 .. fed) \ (trained \union inflight)) <= restarts * MaxInFlight

\* No run, resumed or not, puts the tracker back to an older version.
TrackerForward == [][tracker' >= tracker]_vars

\* Every run that is not interrupted comes to its end, the last save included.
RunsEnd == Running ~> run_pc \in {"done", "down"}
=============================================================================
