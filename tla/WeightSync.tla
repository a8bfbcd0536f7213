------------------------------ MODULE WeightSync ------------------------------
(***************************************************************************)
(* CheckpointEngineManager.update_weights (verl/checkpoint_engine/base.py) *)
(* and what it does to the rollout replicas: the vLLM server of each       *)
(* (verl/workers/rollout/vllm_rollout/vllm_async_server.py) and the        *)
(* adapter that loads its weights (vllm_rollout.py), for a backend other   *)
(* than "naive" and standalone replicas, whose sleep and wake_up change    *)
(* nothing.                                                                *)
(*                                                                         *)
(* Each asyncio.gather and ray.get of the manager starts a step on every   *)
(* replica and waits for all of them: pending is what it still waits for.  *)
(* The engine is vLLM >= 0.12: a paused engine holds new requests back.    *)
(***************************************************************************)
EXTENDS RolloutServers

CONSTANT Torn              \* weights that are partly one version and partly another

ASSUME SyncAssumption == Torn \notin Nat

VARIABLES
    phase,                 \* where update_weights is
    version,               \* global_steps, its argument
    pending,
    paused,                \* the engine of each server
    weights,
    global_steps           \* the version each server reports with its outputs

syncVars == <<phase, version, pending, paused, weights, global_steps>>

SyncTypeOK ==
    /\ phase \in {"idle", "abort", "load", "resume"}
    /\ version \in Versions
    /\ pending \in SUBSET Servers
    /\ paused \in [Servers -> BOOLEAN]
    /\ weights \in [Servers -> Versions \union {Torn}]
    /\ global_steps \in [Servers -> Versions]

\* _initialize_components has synchronised version 0.
SyncInit ==
    /\ phase = "idle"
    /\ version = 0
    /\ pending = {}
    /\ paused = [s \in Servers |-> FALSE]
    /\ weights = [s \in Servers |-> 0]
    /\ global_steps = [s \in Servers |-> 0]

\* The trainer calls update_weights with its next version.
StartSync ==
    /\ phase = "idle" /\ version < MaxVersion
    /\ version' = version + 1
    /\ phase' = "abort" /\ pending' = Servers
    /\ UNCHANGED <<paused, weights, global_steps>>

\* abort_all_requests of one replica: pause_generation makes the engine accept no
\* request until resume_generation.  What it does to the requests in flight is
\* conjoined in PartialRollout.
AbortAllRequests(s) ==
    /\ phase = "abort" /\ s \in pending
    /\ paused' = [paused EXCEPT ![s] = TRUE]
    /\ pending' = pending \ {s}
    /\ UNCHANGED <<phase, version, weights, global_steps>>

\* Fault: the manager goes on without waiting for the slower replicas.
GatherNobody == TRUE

\* asyncio.gather has returned.
GatherReturned == pending = {}

\* sleep_replicas waits until every engine has drained, which Drained says; then
\* the process group is built and update_weights starts on every worker.
SleepReplicas(Drained) ==
    /\ phase = "abort" /\ GatherReturned
    /\ Drained
    /\ phase' = "load" /\ pending' = Servers
    /\ UNCHANGED <<version, paused, weights, global_steps>>

\* update_weights_from_ipc overwrites the weights of the engine in place ...
BeginLoad(s) ==
    /\ phase = "load" /\ s \in pending
    /\ weights[s] \notin {Torn, version}
    /\ weights' = [weights EXCEPT ![s] = Torn]
    /\ UNCHANGED <<phase, version, pending, paused, global_steps>>

\* ... until the last bucket is loaded and the prefix cache cleared.
EndLoad(s) ==
    /\ phase = "load" /\ s \in pending
    /\ weights[s] = Torn
    /\ weights' = [weights EXCEPT ![s] = version]
    /\ UNCHANGED <<phase, version, pending, paused, global_steps>>

\* Fault: the version that comes next.
AheadGlobalSteps(s) == global_steps' = [global_steps EXCEPT ![s] = version + 1]

\* set_global_steps
NewGlobalSteps(s) == global_steps' = [global_steps EXCEPT ![s] = version]

\* The end of the adapter's update_weights.
EndUpdate(s) ==
    /\ phase = "load" /\ s \in pending
    /\ weights[s] = version
    /\ NewGlobalSteps(s)
    /\ pending' = pending \ {s}
    /\ UNCHANGED <<phase, version, paused, weights>>

\* ray.get of all update_weights, finalize and wake_up_replicas.
FinalizeSync ==
    /\ phase = "load" /\ GatherReturned
    /\ phase' = "resume" /\ pending' = Servers
    /\ UNCHANGED <<version, paused, weights, global_steps>>

ResumeGeneration(s) ==
    /\ phase = "resume" /\ s \in pending
    /\ paused' = [paused EXCEPT ![s] = FALSE]
    /\ pending' = pending \ {s}
    /\ UNCHANGED <<phase, version, weights, global_steps>>

\* update_weights returns.
EndSync ==
    /\ phase = "resume" /\ GatherReturned
    /\ phase' = "idle"
    /\ UNCHANGED <<version, pending, paused, weights, global_steps>>

\* The steps that touch no request.
SyncStep ==
    \/ StartSync \/ FinalizeSync \/ EndSync
    \/ \E s \in Servers : BeginLoad(s) \/ EndLoad(s) \/ EndUpdate(s) \/ ResumeGeneration(s)
=============================================================================
