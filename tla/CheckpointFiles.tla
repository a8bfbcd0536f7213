-------------------------- MODULE CheckpointFiles --------------------------
(***************************************************************************)
(* What the fully asynchronous trainer leaves on disk                      *)
(* (FullyAsyncTrainer._save_checkpoint and, for the models, the            *)
(* CheckpointManager of verl/utils/checkpoint/checkpoint_manager.py).      *)
(*                                                                         *)
(* A checkpoint of version v is the directory global_step_v: one           *)
(* subdirectory per model and data.pt, the position of the data loader.    *)
(* latest_checkpointed_iteration.txt, the tracker, names the version to    *)
(* resume from.  Only complete model directories are in weights: one that  *)
(* is being written, or was left half written by a crash, cannot be        *)
(* loaded.  Deleting the directories of a rotation is one step.            *)
(***************************************************************************)
EXTENDS Naturals, Sequences, Functions

CONSTANTS
    UseCritic,             \* whether a critic is trained and saved beside the actor
    MaxCkptToKeep          \* max_actor_ckpt_to_keep, max_critic_ckpt_to_keep; 0 for null

ASSUME CheckpointAssumption ==
    /\ UseCritic \in BOOLEAN
    /\ MaxCkptToKeep \in Nat

Roles == IF UseCritic THEN {"actor", "critic"} ELSE {"actor"}

VARIABLES
    weights,               \* on disk: per role, the samples behind each saved version
    data,                  \* on disk: the loader's position in data.pt of each version
    tracker,               \* on disk: the version the tracker names, 0 without a file
    truncated,             \* on disk: the tracker was opened for writing and is empty
    previous_saved_paths,  \* in memory: per role, the versions its manager has saved
    save_pc,               \* how far _save_checkpoint has come
    save_role              \* the model it is saving

diskVars == <<weights, data, tracker, truncated>>
saveVars == <<previous_saved_paths, save_pc, save_role>>

\* A function extended or changed at one version.
With(f, v, x) == [w \in DOMAIN f \union {v} |-> IF w = v THEN x ELSE f[w]]
Without(f, S) == Restrict(f, DOMAIN f \ S)

CheckpointTypeOK(Content) ==
    /\ DOMAIN weights = Roles
    /\ \A r \in Roles : /\ DOMAIN weights[r] \in SUBSET Nat
                        /\ \A v \in DOMAIN weights[r] : weights[r][v] \in Content
    /\ DOMAIN data \in SUBSET Nat
    /\ \A v \in DOMAIN data : data[v] \in Nat
    /\ tracker \in Nat
    /\ truncated \in BOOLEAN
    /\ previous_saved_paths \in [Roles -> Seq(Nat)]
    /\ save_pc \in {"open", "write", "register", "data", "truncate", "name"}
    /\ save_role \in Roles

\* The disk of a first run
NoCheckpoint ==
    /\ weights = [r \in Roles |-> [v \in {} |-> {}]]
    /\ data = [v \in {} |-> 0]
    /\ tracker = 0
    /\ truncated = FALSE

\* A process that starts knows of no earlier save.
NothingSavedYet ==
    /\ previous_saved_paths = [r \in Roles |-> <<>>]
    /\ save_pc = "open" /\ save_role = "actor"

ForgetSaves ==
    /\ previous_saved_paths' = [r \in Roles |-> <<>>]
    /\ save_pc' = "open" /\ save_role' = "actor"

-----------------------------------------------------------------------------
(* One operator per step of _save_checkpoint, for the given version *)

Latest(paths, n) == SubSeq(paths, Len(paths) - n + 1, Len(paths))

\* ensure_checkpoint_capacity: room for one more, but nothing when only one
\* checkpoint is kept
Capacity(paths) ==
    IF MaxCkptToKeep > 1 /\ Len(paths) >= MaxCkptToKeep
    THEN Latest(paths, MaxCkptToKeep - 1) ELSE paths

\* Fault (the first of this module's, explained in MessageQueue): all earlier
\* checkpoints are deleted on registration.
RetainedOne(paths) == Latest(paths, 1)

\* register_checkpoint: how many of the paths, the new one included, are kept
Retained(paths) ==
    IF MaxCkptToKeep > 0 /\ Len(paths) > MaxCkptToKeep
    THEN Latest(paths, MaxCkptToKeep) ELSE paths

Deleted(before, after) == Range(before) \ Range(after)

\* The manager of save_role makes room and starts to overwrite its directory.
OpenModel(version) ==
    LET paths == previous_saved_paths[save_role]
        gone  == Deleted(paths, Capacity(paths)) \union {version}
    IN
    /\ save_pc = "open"
    /\ previous_saved_paths' = [previous_saved_paths EXCEPT ![save_role] = Capacity(paths)]
    /\ weights' = [weights EXCEPT ![save_role] = Without(weights[save_role], gone)]
    /\ save_pc' = "write"
    /\ UNCHANGED <<data, tracker, truncated, save_role>>

WriteModel(version, content) ==
    /\ save_pc = "write"
    /\ weights' = [weights EXCEPT ![save_role] = With(weights[save_role], version, content)]
    /\ save_pc' = "register"
    /\ UNCHANGED <<data, tracker, truncated, previous_saved_paths, save_role>>

\* The directory is registered, which deletes those beyond the limit; the
\* critic follows the actor.
RegisterModel(version) ==
    LET paths == Append(previous_saved_paths[save_role], version)
        gone  == Deleted(paths, Retained(paths))
    IN
    /\ save_pc = "register"
    /\ previous_saved_paths' = [previous_saved_paths EXCEPT ![save_role] = Retained(paths)]
    /\ weights' = [weights EXCEPT ![save_role] = Without(weights[save_role], gone)]
    /\ IF save_role = "actor" /\ UseCritic
       THEN save_role' = "critic" /\ save_pc' = "open"
       ELSE save_role' = "actor" /\ save_pc' = "data"
    /\ UNCHANGED <<data, tracker, truncated>>

\* FullyAsyncRollouter.save_checkpoint writes data.pt.
SaveData(version, position) ==
    /\ save_pc = "data"
    /\ data' = With(data, version, position)
    /\ save_pc' = "truncate"
    /\ UNCHANGED <<weights, tracker, truncated, previous_saved_paths, save_role>>

\* open(tracker, "w") empties the file; the version is in it when it is closed.
TruncateTracker ==
    /\ save_pc = "truncate"
    /\ truncated' = TRUE
    /\ save_pc' = "name"
    /\ UNCHANGED <<weights, data, tracker, previous_saved_paths, save_role>>

NameTracker(version) ==
    /\ save_pc = "name"
    /\ tracker' = version
    /\ truncated' = FALSE
    /\ save_pc' = "open"
    /\ UNCHANGED <<weights, data, previous_saved_paths, save_role>>
=============================================================================
