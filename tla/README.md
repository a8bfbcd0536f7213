# TLA+ specifications of verl's fully asynchronous training

This directory specifies the part of verl where its own concurrency lives: the
fully asynchronous trainer of `verl/experimental/fully_async_policy` and what it
drives. One actor generates samples, another trains on them, a queue actor stands
between them, and they meet only to synchronise weights. Five layers of it are
specified:

1. the *loop of samples*: queue, rollouter, trainer (`FullyAsync`);
2. *generation* while the weights are replaced: agent loops, load balancer, servers,
   synchronisation (`PartialRollout`);
3. the *transfer* of the weights itself, down to buffers and copies
   (`WeightTransfer`);
4. *checkpoints*: what a crash leaves on disk and what a resumed run makes of it
   (`Resume`);
5. a *call on the worker group*: what becomes of one training batch among the ranks,
   from its balancing to the optimizer (`WorkerGroupCall`).

The specifications are checked with TLC on small instances; the safety properties of
all five are proved with TLAPS for every value of the parameters. All paths below are relative to the repository.

## 1. The system

### Inventory

| component (file) | state | operations | interacts with |
| --- | --- | --- | --- |
| **MessageQueue** (`fully_async_policy/message_queue.py`) | deque `queue` with `maxlen`, `val_queue`, `running`, counters, a lock and a condition on it | `put_sample`, `get_sample` (blocks), `clear_queue`, `shutdown`, `put_validate`, `get_validate`, statistics | called by the rollouter (put), the trainer (get) and the main task (clear) |
| **FullyAsyncRollouter** (`fully_async_rollouter.py`) | `pending_queue`, `active_tasks`, `staleness_samples`, `paused`, `running`, one asyncio lock and a condition on it | coroutines `_feed_samples`, `_processor_worker`, `_process_single_sample_streaming` (one per sample), `_async_monitor_loop`, `_streaming_generation_main`; RPCs `reset_staleness`, `do_validate`, `save_checkpoint` | puts samples into the queue, reads its size, is reset by the trainer |
| **FullyAsyncTrainer** (`fully_async_trainer.py`) | `local_trigger_step`, `current_param_version`, the batch being collected | `fit`, `fit_step`, `_get_samples_from_queue`, `_fit_update_local_step`, `_fit_update_weights`, `_fit_validate`, `_fit_save_checkpoint` | takes samples, sends weights to the replicas, calls `reset_staleness` |
| **Task runner** (`fully_async_main.py`) | futures of both `fit`s | creates the components, joins both `fit`s, clears the queue | all of the above |
| **Server manager** for partial rollouts (`fully_async_policy/agent_loop/`) | tokens so far, min/max weight version of one generation | resumes an aborted generation until it is complete | load balancer, servers, agent loop |
| **Load balancer** (`experimental/agent_loop/agent_loop.py`) | in-flight count per server, LRU cache from request to server | `acquire_server`, `release_server` | called by the server managers of all workers |
| **Tool agent loop** (`experimental/agent_loop/tool_agent_loop.py`) | `AgentState`, prompt, response mask, turns, `extra_fields` | generating and tool states of a conversation | server manager, tools |
| **Rollout servers** (`workers/rollout/vllm_rollout/`) | requests in flight, paused engine, weights, `global_steps` | `generate`, `abort_all_requests`, `resume_generation`, `sleep`, `wake_up`, `set_global_steps` | synchronisation, server managers |
| **Weight synchronisation** (`checkpoint_engine/base.py`) | where `update_weights` is, what its gathers wait for | abort, sleep, build the process group, transfer, finalize, wake up, resume | trainer workers, servers |
| **Weight transfer** (`checkpoint_engine/nccl_checkpoint_engine.py`, `vllm_rollout/bucketed_weight_transfer.py`) | two buffers on each side of the broadcast, one shared buffer per inference worker, bucket metadata | `send_weights`, `receive_weights`, the `BroadcastOperation` threads, the IPC sender and receiver | devices, inference workers |
| **Checkpoints** (`*_trainer.py`, `*_rollouter.py`, `utils/checkpoint/`) | files on disk, tracker file, `previous_saved_paths`, dataloader position | save with rotation, load, resume | file system |
| Reward loop, one-step-off pipeline | see `PROJECT.json` | | |
| **Driver of a training step** (`trainer/ppo/ray_trainer.py`) | the batch, reordered in place | `_balance_batch`, `_compute_old_log_prob`, `_update_actor` | worker group |
| **Single controller** (`single_controller/base/decorator.py`, `single_controller/ray/base.py`) | dispatch and collect information of each mesh | split a batch over the ranks, call every worker, gather the outputs | driver, workers |
| **Sequence balancing** (`utils/seqlen_balancing.py`) | none | `karmarkar_karp`, `rearrange_micro_batches`, `restore_dynamic_batch` | driver, workers |
| **Training workers** (`workers/engine_workers.py`, `workers/engine/`) | sharded model, data loader of a call | `train_mini_batch`, `train_batch`, `infer_batch` | each other, by collective operations |
| PPO algorithms, models, recipes | tensors | | |

What is hard here:

- **Cooperative interleaving.** Six kinds of coroutine share one event loop. None
  of the accesses outside `async with self.lock` is protected, and what they may
  interleave with depends on which `await` really suspends.
- **A lock held across a wait.** `_processor_worker` awaits `asyncio.wait` and
  `reset_staleness` awaits an RPC with the lock held.
- **Stale decisions.** Pausing and resuming are decided before the lock is taken,
  and not revised after it.
- **A counter recomputed in two reads.** `staleness_samples` is rebuilt from
  `active_tasks` and from the queue's size, with an RPC in between, while the
  processor increments it without the lock.
- **Mutual waiting.** The rollouter pauses until the trainer resets it or the
  queue shrinks; the trainer waits for the rollouter's samples.
- **Overflow.** A full queue silently drops its oldest sample.
- **Failure.** One sample's exception ends the processor in the middle of
  everything else.
- **Aborted generations.** A synchronisation cuts every generation, which goes on
  with other weights, perhaps after tools ran, on another server, several times.
- **Replicas out of step.** Each replica aborts, loads and resumes at its own pace
  while requests keep coming.
- **Deferred device work.** Stores and copies of tensors are executed after the
  statement that issued them, from and into buffers that are used again.
- **Crashes.** A save is a sequence of writes and deletions on disk; a run may end
  between any two, and the next one starts from what is there.
- **Collective operations.** A forward pass of a sharded model is one step of all ranks.
  Each rank decides from its own rows how many it makes; a rank that makes one less
  than another stops them all.

What makes each component correct:

- queue: first in, first out, of the latest `maxlen` samples, each to one consumer;
  no blocked caller is forgotten; the counters add up;
- rollouter: never too far ahead of the trainer, never more than
  `max_concurrent_samples` tasks, no lost wake-up, the end signal is last;
- trainer: the same number of samples behind each version; the end of the
  stream stops it;
- together: no sample is lost or trained on twice except for the counted drops,
  and the run ends;
- load balancer: its counts are the leases held, and return to zero;
- synchronisation: no token from weights that are being replaced, no two versions
  served at once, and it ends although requests are held back meanwhile;
- server manager and agent loop: an abort loses and doubles no token, a sample's
  version range covers its tokens, every call has room and the context is kept;
- transfer: every worker loads every tensor intact and in order, and both sides end;
- checkpoints: the one the tracker names is whole at every instant, a resumed run
  trains on no sample twice, loses only what was in flight, and keeps its budget;
- worker group: the ranks have about equal work, come to the same collective operations,
  and the value computed for a row comes back to this row.

`PROJECT.json` lists the hazards one by one with their lines and the properties
that watch them.

## 2. The modules

| module | models |
| --- | --- |
| `MessageQueue` | the deque and its counters; one operator per operation |
| `MessageQueueActor` | the whole actor under concurrent consumers: blocked and notified `get_sample` calls, `clear_queue`, `shutdown`, validation results |
| `SampleStream` | abstract: what the queue promises, a numbered stream of which the latest `Capacity` samples are kept |
| `Rollouter` | the event loop of the rollouter, an open system: what the queue and the trainer answer is a parameter |
| `Trainer` | the sequential loop of the trainer |
| `FullyAsync` | `Rollouter`, `Trainer` and an instance of `MessageQueue`, composed; properties of the whole |
| `RolloutServers` | the servers and the versions, shared by the next three |
| `LoadBalancer` | `GlobalRequestLoadBalancer` and the leases of its callers |
| `WeightSync` | `CheckpointEngineManager.update_weights` and its steps on each replica |
| `ToolAgentLoop` | abstract: a tool agent loop whose generations nothing interrupts |
| `PartialRollout` | conversations, server manager, `LoadBalancer` and `WeightSync` composed; implements `ToolAgentLoop` |
| `DeviceMemory` | tensors in buckets: offsets, stores, copies, views |
| `NCCLCheckpointEngine` | the broadcast with two buffers on each side |
| `BucketedWeightTransfer` | the shared buffer between engine worker and inference worker |
| `WeightStream` | abstract: every worker loads the tensors intact and in order |
| `WeightTransfer` | the two transfers composed; implements `WeightStream` |
| `CheckpointFiles` | the steps of a save and of the rotation, on disk |
| `Resume` | training, saving, crashing and resuming over `CheckpointFiles` |
| `SeqlenBalancing` | Karmarkar-Karp and the micro-batches of a rank, as operators |
| `Dispatch` | dp and sp ranks, splitting a batch and gathering outputs, as operators |
| `WorkerGroupCall` | the driver's balancing and its calls, and every worker between two collective operations |
| `MessageQueueProofs`, `RollouterProofs`, `FullyAsyncProofs`, `PartialRolloutProofs`, `WeightTransferProofs`, `ResumeProofs`, `WorkerGroupCallProofs` | theorems |
| `SequenceFacts` | lemmas on the indices and elements of `Tail`, `Append`, `\o` and `FlattenSeq`, on sorting, on sums, and induction on the natural numbers |
| `MCMessageQueueActor`, `MCFullyAsync`, `MCPartialRollout`, `MCWeightTransfer`, `MCResume`, `MCWorkerGroupCall` | what TLC runs |

**MessageQueue and MessageQueueActor.** A handler of the queue actor holds
`_lock` from its start to its end except while `get_sample` waits on the
condition built on the same lock. So a handler is one step, and a blocked
`get_sample` takes a step of its own after its notification, when any number of
other handlers may have run. `put_sample` on a full deque drops the oldest
element, counts the drop, answers `False` and still enters the new element
(`PutSample`, `Room`, `Drops`, `PutSucceeds`).

**Rollouter.** The event loop is modelled explicitly. `loop` names the coroutine
that is in mid-run, or is `"idle"`, when any ready coroutine may be scheduled. A
coroutine keeps the loop until it really suspends, and that differs from "until
its next `await`":

- awaiting a free `asyncio.Lock` or a non-empty `asyncio.Queue` does not suspend,
- awaiting `_should_pause_generation` does not either, since its RPC
  (`get_statistics_sync`) is a blocking `ray.get`,
- awaiting a held lock, an empty or full queue, `asyncio.wait`, the condition or
  an RPC does.

`asyncio.Lock` is FIFO: `lock` is the sequence of coroutines that asked for it,
its holder first. A wake-up of the condition re-queues for the lock like any other
request (`ProcessorWake`). Blocks under the lock without a suspension inside are
one step; the two that suspend inside (`asyncio.wait` in the processor, the RPC
in `reset_staleness`) are split there. `proc_pc` names the place in
`_processor_worker`; its three copies of the drain loop (pause, concurrency limit,
end) are one with `drain_for` telling them apart. A task stays in `active_tasks`
until `asyncio.wait` returns it, so `active_tasks` holds finished tasks too.
`task_state` follows a sample from its submission: its generation ends when
`put_sample` has run in the queue actor (`TaskPut`), its own handling of the answer
comes later (`TaskFinish`), or it raises (`TaskFail`).

`reset_staleness` is `ResetCalled` (the RPC arrives), `ResetAwaitLock`/`ResetStart`
(lock, resume, first half of the sum), `ResetCount` (the size of the queue is read
in the queue actor), `ResetFinish` (the sum is stored), `ResetReplied`. The
monitor decides in `MonitorWake` and, if it has to wait for the lock, acts on the
old decision in `MonitorResume`.

**Trainer.** Every call of the trainer blocks its actor, so it is one sequential
process with the places `collect`, `train`, `sync`, `resetting` and the ones after
the end signal. `StopTraining` follows `fit` to the letter: its final
`_fit_update_weights` returns at once unless `local_trigger_step` is 1.

**FullyAsync.** Conjoins the actions that two actors take together:
`PutGenerated` (a task's `put_sample`), `PutEndSignal`, `GetSample`,
`GetEndSignal`, `SyncParameters` (weights sent, `reset_staleness` called),
`SyncReturned`, and `ClearAtEnd` of the task runner.

`SyncParameters` is one step there; `WeightSync` and `WeightTransfer` are what goes on
inside it, seen from the servers.

**LoadBalancer.** Each method of the actor is one step. `age` is the rank of an entry
in the LRU cache; an evicted conversation is routed afresh, although it may hold a
lease. `lease` is the caller's side: a generation call acquires, and its `finally`
sends the release without waiting for it, which reaches the actor some time later
(`Release`), but before the next acquire of the same worker.

**WeightSync.** `phase` is the place in `update_weights`; every `asyncio.gather` and
`ray.get` waits for the replicas in `pending`. Each replica takes its steps in any
order relative to the others: `AbortAllRequests`, `BeginLoad`/`EndLoad` (the weights
are `Torn` in between), `EndUpdate` (`set_global_steps`), `ResumeGeneration`.
`SleepReplicas` waits for the engines to drain.

**PartialRollout.** A conversation's coroutine is in `acquire`, `call` (sent and not
taken up), `running`, `reply`, `tools`, or over. `Start` needs an engine that is not
paused; `Generate` adds one token and records the weights it came from in `seen`, a
history variable. `Abort` answers the requests in flight on one server. `Continue` is
the body of the `while True` of `FullyAsyncLLMServerManager.generate` after an
aborted reply, `EndTurn` its last pass and the rest of `_handle_generating_state`.
`MaxTokens` is the computation of `max_tokens` in `vLLMHttpServer.generate`. Tokens are
counted, not named.

**ToolAgentLoop** is the same conversation as the agent loop sees it: tokens come
one by one until the model ends the turn. `Uninterrupted` maps `got + run` to its
`turn` and a completed reply to its `ended`.

**NCCLCheckpointEngine, BucketedWeightTransfer, WeightTransfer.** A buffer is an array
of cells. `FillBucket` issues a store that the device executes in `StoreTensor`;
`PackTensor` issues a copy that it executes in `ExecuteCopy`, from whatever is in the
source buffer by then. `torch.cuda.synchronize()` is the guard that nothing is left
to execute. `Publish`, `ReceiveMeta` and `Broadcast` are the threads of the
`BroadcastOperation`s: metadata by PUB/SUB, then the collective, which each receiver
enters and leaves for itself. `receive_weights` is a generator: `Pull`, `Flush`
and `NextBucket` interleave it with the IPC sender that draws from it in the same
coroutine. `CloneBucket`, `Reply` and `LoadBucket` are the inference worker.

**CheckpointFiles and Resume.** `save_pc` goes through a save one write at a
time: open and delete (`OpenModel`), write, register and rotate, per model; `data.pt`;
the tracker, opened (`TruncateTracker`) and written (`NameTracker`). `weights` maps a
version to the set of samples behind the saved weights, so a checkpoint carries its
own history. The memory of a run is lost in `Crash` at any step; `Restart` is
`load_checkpoint` of both actors. The way of a sample from feed to training is
`FullyAsync`'s and abstracted here to a set `inflight` from which batches are taken in
any order.

**SeqlenBalancing, Dispatch and WorkerGroupCall.** Rows are numbers, `seqlen` their lengths, and
the value computed for a row is the row itself, so that an output in the wrong place shows. The
driver's Karmarkar-Karp takes one step per state that is pushed (`PushState`) and per merge
(`MergeStates`), so that its intermediate states are checked; a worker's is the operator
`karmarkar_karp`, which `Partition` checks and orders with `get_seqlen_balanced_partitions` and
`micro_bsz_idx`. A set keeps its rows in the order they were added, since the code breaks ties by
it. `sort` is `list.sort` of elements that are all different, as all that are sorted here are:
each comes after as many as are below it. `Reorder` is the rest of `_balance_batch` and the dispatch of `compute_log_prob`;
`CollectLogProbs` gathers it and dispatches `update_actor`. `pc` is where a worker is between two
collective operations: `tokens` (the lengths and token counts of its data-parallel group), `check`
(its assertion on the lengths), `agree` (the all_reduce of the number of micro-batches),
`partition`, `forward`, `optimizer`, `postprocess`. A collective operation is one action of its whole
group, enabled when every member has come to it: `CountTokens` and `Agree` of a data-parallel
group, `Forward` and `OptimizerStep` of all workers, `ReduceMetrics` of the workers that
collect. `trained` counts the gradients of a row, and only where all workers of its
sequence-parallel group ran it together. `Shuffle` is the order that a data loader draws.

Definitions called *Fault* are not part of any specification. Each is a plausible
slip in the code (a missing notification, `>` for `>=`, a forgotten counter) that
is put in the place of the definition after it to see that a property fails; they
are the `mutants` of `PROJECT.json`.

## 3. What is checked

| run | instance | shows |
| --- | --- | --- |
| `queue_actor` | 2 consumers, capacity 2, 4 samples | the queue actor implements `SampleStream`; no notification is lost among consumers that overtake each other; the counters agree; `shutdown` releases every caller |
| `freshness` | R=1, trigger 1, max 2, 2 concurrent, 5 samples, any may fail, no `PromptLoop` | types, `StalenessCovers`, `OutstandingBounded`, `ConcurrencyBounded`, `PausedMeansQuiet`, `EndSignalIsLast`, `SamplesAccounted` under every interleaving, up to the abort after a failure; `FailureStopsTrainer` |
| `batches` | R=2, trigger 2, max 5, 1 concurrent, 7 samples, no `PromptLoop` | `SyncEveryTrigger` and `NothingForgotten` with batches of several samples, several steps per version, and a short last batch; `Terminates` however far the event loop lags, when `max_required_samples >= required_samples * trigger + max_concurrent_samples` |
| `terminates` | R=2, trigger 1, max 3, 2 concurrent, 5 samples, `PromptLoop` | `Terminates`: the pause and the reset never leave both actors waiting |
| `generation` | 2 conversations, 2 servers, 1 synchronisation, cache of 1, response of 3 tokens, 2 turns | `InflightExact`, `OneVersionServed`, `NeverTorn`, `VersionsBracket`, `RoomToGenerate`, the refinement `Uninterrupted`, `ConversationsEnd`, `SyncEnds` |
| `transfer` | 4 tensors of 1 or 2 cells, buckets of 2, 2 receivers | the refinement `Copies`, and `Terminates` |
| `resume` | 7 samples, R=1, trigger 2, save_freq 2, at most 2 in flight, actor and critic, 2 checkpoints kept, 2 restarts | `TrackedWhole`, `NoSampleTwice`, `WithinBudget`, `WorkAtRisk`, `LossBounded`, `TrackerForward`, `RunsEnd` |
| `worker_call` | 4 workers (dp 2 by sp 2), 8 rows, mini-batches of 4, budgets of 6 and 4 tokens | `RowsReturn`, `Balanced`, `CallSucceeds` |
| `budget`, `lag`, `hang`, `tokens` | section 5 | four statements of the documentation that do not hold |

R is `required_samples`, "trigger" `trigger_parameter_sync_step`, "max"
`max_required_samples`. Deadlock is checked in the runs of `FullyAsync`: their
only terminal state is `Finished`, where `ClearAtEnd` still steps. The runs of the
other layers end: with all conversations over and `MaxVersion` reached, with the weights loaded, or
with a run done and no restart left, with the call over. Their liveness properties say that they end
well.

**The properties that matter.**

- `OutstandingBounded`: what the rollouter has admitted and the trainer has not
  taken is at most `max_required_samples + 1`. The `+ 1` is real: the processor may
  hold a sample taken from `pending_queue` while a reset overwrites its increment.
- `StalenessCovers`: `staleness_samples` never undercounts by more than that one
  sample, although it is recomputed in two reads while tasks finish. It may
  overcount, which is the subject of `lag`.
- `SamplesAccounted`: a sample is in one place at a time, and those in none are
  exactly those counted as dropped or failed.
- `PausedMeansQuiet`: the processor sleeps on the condition only while `paused`
  is set, with no active task.
- `EndSignalIsLast`: on the normal path nothing enters the queue after `None`.
- `OneVersionServed`: whatever the replicas' progress, those that accept requests hold
  the same complete version and report it. So a sample's recorded versions mean
  the same on every server.
- `VersionsBracket`: `min_global_steps` and `max_global_steps` of a sample bracket
  every version in `seen`, over aborts, turns and servers. Staleness metrics and
  corrections rely on it.
- `RoomToGenerate`: each call computes `max_tokens` from the context it is given. It is
  never 0, which the engine refuses, and never lets a resumed conversation grow past its
  limit.
- `Uninterrupted`: the server manager hides the aborts from the agent loop.
- `Copies`: every worker has loaded a prefix of the tensors, each intact, at every
  moment. One early reuse of any of the five buffers breaks it.
- `TrackedWhole`: the tracker names a checkpoint that is there, with actor and critic
  of one history and a loader position behind it, at every step of any save.
- `SyncEveryTrigger`: a version is trained on exactly `trigger * R` samples, and the
  weights the rollouter has lack only the local steps since they were sent (`served`),
  which is also what a run that ends inside a version never sends.
- `NoSampleTwice`, `LossBounded`: what a resume repeats (nothing) and loses (what was in
  flight at the save it starts from, as the code's own warning says).
- `WithinBudget`: the slack of `total_rollout_steps` per restart: a checkpoint taken
  inside a version (at the end or when the instance expires) is resumed as that
  version, and its surplus steps are not counted; the rerun of a complete run feeds
  one more sample.
- `WorkAtRisk`: what a crash costs, at most `save_freq` versions, and what a finished run leaves
  unsaved: the surplus steps of a version that was saved already.

- `RowsReturn`: a row is moved by the balancing, the dispatch, the micro-batches with their
  placement and the collection; what the trainer gets for it was computed for it.
- `Balanced`: at every step of Karmarkar-Karp two ranks differ by no more work than two
  rows of one chunk do, that is, two of the rows that are next to each other in the
  order of their work. The imbalance does not grow with the number of rows.
- `CallSucceeds`: if all rows fit, the call comes to its end and every row was trained on
  once in every epoch, by all workers that share it; otherwise it raises. It does not hang.
  It depends on the agreement on the number of micro-batches, on Karmarkar-Karp never
  leaving one of that many parts empty, and on equal seeds in a sequence-parallel group.

**Bounds.** Samples are few but each run has more samples than the queue, the
concurrency and `max_required_samples` together require, so pausing, resuming
(by the reset and by the monitor), overflow of the queue, a reset in the middle
of a drain, at the concurrency limit and at the end of the run, a short last
batch and an unfinished version all occur. `PendingQueueSize` is 2 where the code has
128: what matters is that the feed blocks and that it does not. `MaxProduced` and
`MaxValidate` bound the calls made to the queue actor. A sample is a number;
its content, statistics and timing are left out, as no property is about them.
The runs with fairness are smaller than the others because liveness checking is
dearer; the safety runs cover the larger instances.

In `generation` one synchronisation interrupts two turns of two conversations at any
point; it aborts first, running and held calls, the cache of one entry evicts at every
change of conversation, and a response of 3 tokens is met at its limit by the model, by
tools and by resumed calls. In `transfer` all 16 combinations of sizes occur, with two to
four buckets, so every buffer is used again at least once. In `resume` each version trains
on 2 samples and 7 make three versions and an end inside a version, so the save of version
2 comes due before the work at risk passes 4 samples, and without it would pass them. The
instance may expire at any version, so all three may be saved, and the third save deletes
the first directory of the rotation of two; a directory half written by one run is written
again by the next, and a second restart resumes what a first one saved. A batch is one
sample there, of any two in flight, so that samples are trained on out of order; the short
last batch, which needs R > 1, is met in `batches` and `terminates`. In `worker_call` four
rows take all combinations of four lengths and the others one of each, so mini-batches of
a rank need between one and two micro-batches and its share of `compute_log_prob` up to
three, and ranks differ; in 16 more batches one row is too long for one or both methods.
The shuffle takes either of two orders, a different one on each rank. The proof covers
other sizes. `MaxRestarts`, `MaxVersion` and `MaxInFlight` (which stands for the room in
the queues and tasks) are the bounds of the models.

**Why queue overflow is reachable.** With `max_queue_size = max_required_samples` a
drop would not be expected; but because the sample in hand is not counted, one
sample too many can meet a full queue, and then so does the end signal, which is put
without asking. `freshness` reaches both, hence `dropped_samples` in
`NothingForgotten`.

## 4. Fairness, and what it stands on

`FairSpec` asks weak fairness of the event loop for each coroutine (asyncio
schedules every ready handle), of the RPCs and the monitor's timer, of the trainer,
and of the end of a generation. Nothing is asked of failures. Weak fairness is enough
because nothing that one of these actors waits for is taken away by another
before it is served; the FIFO lock gives every coroutine its turn.

`Terminates` also needs `PromptLoop`: `reset_staleness` is only called when the
rollouter's event loop has handled everything that is ready (`Settled`). A training
step and a transfer of weights take seconds to minutes, a turn of the event loop
micro- to milliseconds, so this is the normal case. It is an assumption
nevertheless. The loop is also blocked by its own synchronous calls, and run
`lag` shows that without it both actors can wait for ever. Run `batches` shows what
avoids that without the assumption: the overcount of a reset is at most the
unreaped tasks, so with `max_required_samples` at least one version's samples plus
`max_concurrent_samples` the trainer can always complete a version. The code takes
the minimum of 16 per server and `max_required_samples` for `max_concurrent_samples`
and does not ensure this. In that run the monitor's resume is indispensable: a
processor that pauses on a decision older than the reset has no one else to wake it.
No safety property or theorem uses `PromptLoop`.

`PartialRollout`: weak fairness for each conversation's next step, each release, the
abort of each replica, the drain and the rest of the synchronisation. None is disabled
for good by another actor once enabled, except by an abort, and there are finitely many
(`MaxVersion`). With synchronisations for ever a conversation could in principle be
aborted before every token; the code has no guard against that.

`WeightTransfer`: weak fairness for each thread and each device queue. A collective
that all its ranks have entered comes through.

`Resume`: weak fairness for the feed, the training and the saving of a run that is up.
Nobody owes a restart, and crashes are not fair.

`WorkerGroupCall`: `WF_vars(Next)`, that is, something happens as long as something can. No step
of driver or workers is repeated or undone, so every behaviour is finite, and weak fairness
of each worker would ask nothing more.

## 5. Where documentation and code differ

- `budget` (`RolloutBudget`). `docs/advance/fully_async.md` bounds what is generated
  between two updates by `rollout_num`. The sample in the processor's hand when
  `reset_staleness` runs escapes the count, so one more is generated.
- `lag` (`TrainerServed`). `len(self.active_tasks)` counts tasks that have
  delivered their samples and were not reaped. If the event loop lags behind a whole
  training step, the new `staleness_samples` is too high, the rollouter pauses
  before the next batch is complete, and only the trainer's next reset could
  resume it, for which the trainer needs that batch.
- `hang` (`FailureEndsFit`). After the exception of a sample, the end signal is sent
  but `running` stays `True`, because the exception leaves
  `_streaming_generation_main` before it is cleared. The monitor loop never ends,
  and `fit` gathers it with `return_exceptions=True`: it neither returns nor raises.
- `tokens` (`TokenBudget`). `docs/perf/perf_tuning.rst:134-138` calls the token budgets "the
  maximum number of tokens to be processed", and the docstring of `rearrange_micro_batches`
  "max sum of attention_mask per micro-batch". The code uses a budget for the number of
  micro-batches only, and Karmarkar-Karp, which does not know it, may fill one over it.

Other differences met while modelling, visible in the models and not given a run of
their own:

- **One checkpoint kept.** With `max_actor_ckpt_to_keep=1` (which the deprecated
  `remove_previous_ckpt_in_save` also means) `register_checkpoint` deletes the
  previous actor as soon as the new one is written, before critic, `data.pt` and
  tracker. A crash in between leaves a tracker that names a checkpoint without an actor.
  The docstring of `ensure_checkpoint_capacity` ("we keep the existing checkpoint
  until the new save completes successfully") holds for one model only. `TrackedWhole`
  fails for `MaxCkptToKeep = 1`, hence the hypothesis of the theorems in section 6.
- **The tracker is not written atomically.** Its comment says "for atomic usage", but it
  is opened with `"w"` and then written. A crash in between leaves an empty file,
  `int('')` raises, and the run does not resume by itself (`truncated`,
  `run_pc = "failed"`).
- **The last save may be skipped.** `_fit_save_checkpoint(force=True)` returns when the
  version was saved before, although more local steps may have been trained; its
  comment lists "the last training step" as a condition to save.
- **`partial_rollout=False`.** `docs/advance/fully_async.md:217-218` says that the
  rollouter then waits for the tasks to complete; `update_weights` aborts all the same,
  and the server manager returns the truncated generation as if complete. The
  refinement `Uninterrupted` therefore needs `PartialRollouts`.
- **The response budget of a resumed call.** Without `max_tokens` in `sampling_params`
  (the agent loops set none) `vLLMHttpServer.generate` gives a resumed call
  `response_length` afresh, capped by the total context; the response of a short
  prompt may pass `response_length` and is cut later. The bound of the
  context in `RoomToGenerate` is the one that holds.
- **Micro-batches of the legacy critic.** `workers/critic/dp_critic.py:169` and `:213` call
  `prepare_dynamic_batch` without `dp_group`, so its ranks do not agree on the number of
  micro-batches. In the model of the default engine, that is the mutant `OwnNumber`, for which
  `CallSucceeds` fails; the legacy workers are not modelled.
- **Interactions.** `_handle_interacting_state` appends without comparing to
  `response_length`, so the next call may have no room left.

## 6. What is proved

All proofs are checked by `tlapm` and hold for all values of the constants
satisfying `RollouterAssumption`, `TrainerAssumption` and `FreshnessAssumption` (for the
queue actor `MaxQueueSizeAssumption` and `ActorAssumption`):
positive sizes, `1 <= max_concurrent_samples <= max_required_samples` (the `min` in
`set_max_required_samples`), `None` is not a sample, and
`max_required_samples >= required_samples * trigger_parameter_sync_step`
(a staleness threshold is not negative). For the other layers they are
`ServersAssumption`, `BalancerAssumption`, `SyncAssumption` and `RolloutAssumption`
(finitely many servers and conversations, positive lengths, a context that fits the
model), `MemoryAssumption` (one tensor and one cell at least), `CheckpointAssumption` and `ResumeAssumption`,
`MeshAssumption` and `BatchAssumption` (sizes that divide as the code asserts, positive lengths) and
`ShuffleAssumption` (what a data loader draws is a permutation). `MayFail` and `PromptLoop` are arbitrary
Booleans, so the theorems hold with failures and with a lagging loop.

**`RollouterProofs`.** `RollouterSafe` is about the open system: other actors may
report any queue size and call `reset_staleness` at any time. The inductive
invariant `RollouterInv` has five parts, each needed for the next:

1. `RollouterTypeOK`;
2. `HandInv`: the processor holds a sample exactly while it is on its way to the
   submission;
3. `UnpausedInv`: it is not paused on that way. Only the processor sets `paused`, so
   the `while self.paused` in front of `safe_create_task` never waits;
4. `LockInv`: the two coroutines that suspend inside a critical section are at the
   head of `lock`. Without it a reset or the monitor could notify a processor in
   the middle of its drain;
5. `ActiveInv`: running generations are in `active_tasks`, which stays within
   `max_concurrent_samples`, strictly below it in front of the submission, and is
   empty from the end of a pause's drain to the end of the pause.

There is one lemma per group of actions (feed, processor, tasks, reset, monitor,
main) and a lemma on the cardinality of a set that grows by one element.

**`FullyAsyncProofs`.** `ImplementsRollouter` shows that the composition implements
the open specification (each joint step is a step of `RollouterNext` or leaves it
alone), which carries `RollouterInv` over. `TypesPreserved`, `ConcurrencySafe` and
`PauseSafe` follow from that and the types of the other actors.

`AheadBounded` and `StalenessSound` rest on `Counts`, inductive together with
`SafeInv`. Neither bound is inductive alone: `OutstandingBounded` needs to know what the
count promised when the processor decided not to pause, and `StalenessCovers` needs
to know that the half-computed sum of `reset_staleness` covers the generations it has
read (`counting`) and the queue as well (`counted`). Both halves only shrink in
between: `reset_staleness` holds the lock, so nothing is submitted, and a put moves
a sample from one side of the sum to the other. The last conjunct needed is that
between `get` and the decision before it `Outstanding` is at most
`max_required_samples`, so the sample taken is the one over.

`RhythmKept` proves `SyncEveryTrigger` from an invariant that relates the length
of the batch being trained on to `required_samples`, and says that the weights are only sent
between two versions.

The second half is about where the samples are. `EndSignalSafe` follows the end of the feed on its way: `None` is
the last element of `pending_queue` and closes the feed (`PendingEnd`); the processor
that has taken it drains with nothing left to take (`DrainEnd`); when it is done no task
is active (`DoneEnd`); and `_streaming_generation_main` goes on only after that
(`MainEnd`). This part is about the open system. In the composition, nothing is
being generated from then on, so nothing is put behind the signal (`LastIsNone`).

`SamplesSafe` says that the places a sample can be in do not overlap. Going upstream
(`UpstreamInv`): a sample that is pending or in hand is still new, and it is in one
place only. Going downstream (`DownstreamInv`): a sample is once among those
delivered, queued or on their way (`Reached`), all of these have been sent, and
`dropped_samples` counts the sent ones that are not there (`DropsCounted`), which is
what the eviction of a full queue must keep. `NothingForgottenSafe` combines both with
the end signal: a trainer that has stopped has taken it (`QueueSpent`), so nothing is
behind it in the queue, and nothing is in front of it upstream. It also needs that a
failed generation stays in `active_tasks` (`FailedIsActive`): the drain that precedes
the end signal then raises, and the signal is not sent on the normal path.

**`MessageQueueProofs`.** The types, `NoLostNotification` and `StatisticsConsistent` are
inductive together for any number of consumers. For the refinement of `SampleStream`,
`Ordered` (the deque is strictly increasing in production numbers) makes the deque a
bijection onto `Kept`, so its length is the abstract cardinality and its head the
abstract minimum. Then `put_sample` is `Produce`, with or without an eviction,
`get_sample` is `Deliver`, and a `get_sample` that only waits is a stutter.

**`PartialRolloutProofs`.** The invariant `IInv` has two halves. `SyncInv` says how far
each replica may be in each phase: until the load all servers hold the version before
and those that have aborted are paused, in the load all are paused and those that are
done hold the new version, in the resume all hold it. `Live` is the version that the servers
accepting requests hold. `ConversationInv` has three parts per conversation: `CallInv`
(a running call is on a server that is not paused), `VersionInv` (the versions
seen are covered by `fields`, `min_steps` and the reply, and none is above `Live`) and
`RoomInv` (the context has room where the code will ask for a token). The halves need
each other: what a running call sees is `Live` because its server is not
paused, and recorded versions only stay bounds because `Live` never decreases.
`InflightExact` is separate, over the cardinality of the leases.
`InterruptionsInvisible` shows each step to be a step of `ToolAgentLoop` or a
stutter; an abort and `Continue` are stutters.

**`WeightTransferProofs`.** `CopiesSafe` (`Copies`) is for any sizes of the tensors and the
buckets and any group of receivers. The invariant `Inv` follows the five buffers from rank 0
to the inference worker. `SenderInv`: the tensors of a bucket being filled lie in disjoint
places and each is there or has a store under way (`WellPlaced`, `Packed`), and the buffer
being filled is not that of the latest broadcast, whose bucket is intact. `InStep`: the last
bucket that reached a receiver is that latest one or, while the broadcast misses the
receiver, the one before it. `NextBucketInv` and `YieldInv`: the bucket that has come
follows the one being yielded, and both are intact in buffers of their own. `AdapterInv`:
the copies under way come out of the latter and are done before the shared buffer is handed
over, which is never empty. `WorkerInv`: the worker has loaded a prefix and cloned the
tensors after it, and the shared buffer is for those that follow. The parts need each other:
a receive into the other buffer is harmless only because the device was synchronised
before the buffers were swapped. Only `LoadBucket` changes `loaded`, and the
invariant makes it a step `Load` of `WeightStream`.

**`ResumeProofs`.** The invariant follows the save through its steps. `PathInv`: the latest
path a manager remembers is the tracker's version or, once it has registered the
version being saved, that one with the tracker's right before it. `SaveInv`: what the
save has written so far is whole and of one history. `VersionInv` and `FeedInv`
tie tracker, versions and the loader's position together. A rotation deletes all but the
latest paths, at least two of them unless `MaxCkptToKeep` is 1, so it never reaches the tracked
one: this is where the hypothesis is needed. `NoSampleTwice` follows because the loaded
position is behind the loaded history. `CountInv` adds the counts: of the samples
in memory, still to be read, and lost (`MemoryInv`), and of what the tracked
checkpoint may stand for, as many restarts ago as it was taken (`DiskInv`). It
proves `BudgetSafe` and `LossSafe`. `RiskSafe` (`WorkAtRisk`) adds how far the version is
ahead of the last one saved: no further than of the last multiple of `save_freq`
(`NotDue`), because remainders count up by one until the next multiple, where a save is due
(`DueInv`); what was trained since is that many versions and the local steps
(`UnsavedInv`). Only `TypesPreserved` holds for every rotation.

**`WorkerGroupCallProofs`.** All of it is for any batch, mesh, token limit and shuffle.
`BalanceSafe` rests on `Sound`: a state of the heap has its sums in
descending order, and no two differ by more than two rows of a chunk do. A merge pairs
the i-th largest set of one state with the i-th smallest of the other, so that of the two
differences between two merged sets one is not positive, and the other bounds their sum
(`MergedSound`). Sorting only exchanges sets (`SortedSound`). The descending order is
needed: the bound alone is not preserved by a merge.

`RowsReturnSafe` (`RowsReturn`) goes through every reordering between the trainer's batch and what
comes back, each with a theorem or lemma of its own:

1. `KarmarkarKarpPartitions`: the operator's recursive function is total (two states of a heap
   never tie, so that there is always one to pop: `SetOrder`, `MergedHeapsExist`) and its result
   shares out the rows. No set is empty when there are at least as many rows as sets, because
   a state has its empty sets last and a merge puts them opposite the full ones (`Filled`,
   `MergedGood`). So the checks of `get_seqlen_balanced_partitions` pass, and the `min` by which
   `rearrange_micro_batches` breaks ties meets no empty set.
2. `MicroBatchesCover`: sorted and rearranged, the micro-batches hold each place of the data
   once (`Cover`).
3. `RestoredInOrder`: joining the outputs of micro-batches that cover the data and indexing them
   by the inverse of the joined places is the identity (`FlattenPlaces`, `FlattenMapped`).
4. `CollectedShards`: what the collecting workers return, joined in the order of dp ranks, is the
   batch that was split, whatever the other workers return.

The invariant has a half for the driver and one for the workers. `BatchInv`: the states pushed so
far hold the first rows of the order, each once (`PushedHeap`); when all are pushed, the heap
holds every row once with as many in each set (`FullHeap`), and `batch` is then a
permutation of the rows. `RanksEqualSafe` follows: the assertion with which `karmarkar_karp`
returns for `equal_size` holds. `CallInv`: each worker (`WorkerInv`) has the rows it was sent or a
mini-batch of them, a number of micro-batches between 1 and that of its rows once it has checked
their lengths, micro-batches that cover them, and outputs of the first few; what it replies with is
its data. A worker has failed only for a row above the limit, so the assertions on
partitions and micro-batches never fail one. `AgreeStep` needs that the maximum over a
data-parallel group is within the rows of each member, which is so because all have as many.

Four more theorems are together the safety half of `CallSucceeds`; what they leave to TLC is that
a call which can go on does, and so comes to its end.

- `EqualLeftSafe`: workers in front of a forward pass have as many micro-batches and have run as
  many. The invariant is `InStep`: no worker is an iteration ahead (`Abreast`); the number of its
  micro-batches is the largest that its data-parallel group counts in that iteration (`Counted`);
  all are between the same forward passes (`Passing`); the members of a group, and the workers that
  collect, come to their collective operations together (`Grouped`, `Collecting`). The
  groups count independently, and agree because each has one member of every shard
  and a sequence-parallel group shuffles its shard alike (`SameNumbers`).
- `NeverHangsSafe`: until the calls have ended, the guard of some action holds. `NeverHangs`
  lists these guards (`DriverCanGo`, `WorkerCanGo`, `CollectiveCanGo`), since `ENABLED` cannot
  be reasoned about. That some worker can go on is `WorkersGo`; that the driver can, rests on
  `karmarkar_karp` having a chunk to push and a heap to merge.
- `FailsForLengthSafe`: a call fails only for a row longer than a token budget.
- `TrainedOnceAnEpochSafe`: if the calls end without failing, every row fits and its gradient was
  computed once an epoch. `TrainedInv` counts: `trained` of a row is the number
  of iterations in which each worker that has the row has run it (`TimesRun`, `Trained`). So one
  forward pass must run a row on all members of its sequence-parallel group or on none, which
  is so because they cut the same rows by the same number (`Checked`); and a data loader gives
  each row once an epoch, because mini-batches are disjoint blocks of a permutation (`OnceAnEpoch`).

**`SequenceFacts`.** What a recursive function computes for every input is out of reach of the
library's induction theorems, which take an operator as a parameter. Where a proof
needs it (`FlattenSeq`, the sums of `FoldSeq`, the heaps of `karmarkar_karp`), the facts are stated of the
set of numbers for which they hold, and `InductionOnNat` and `InductionFromOne`, which take
a set, are proved from the well-foundedness of the order on the natural numbers.

**Only model-checked:** all liveness (the progress in `CallSucceeds` among it). Liveness under fairness
and `ENABLED` are out of this prover's reach, as are modules with `RECURSIVE`
operators (none is used here).

## 7. Running

    tlc -workers 2 -config MCFullyAsync_freshness.cfg MCFullyAsync
    tlapm FullyAsyncProofs.tla

The configuration of every run is named in `PROJECT.json`. The largest runs take about
two minutes; `WorkerGroupCallProofs` takes about seven, each other proof module less than two.

## 8. Not modelled, and the plan

Assumed of code outside the repository: vLLM >= 0.12 answers all requests in flight on
`pause_generation` and holds new ones back until `resume_generation` (as the
docstring of `abort_all_requests` says); `cachetools.LRUCache` evicts the least
recently used entry; a collective broadcast returns on each rank when its part is
done; `ray.get` of several calls raises as soon as one has; PUB/SUB metadata reaches every subscriber in order; asyncio's lock is FIFO; the
calls of one Ray caller to one actor arrive in order.

Left out of the modelled components, each because it is another mode or a read:

- servers: vLLM < 0.12, whose `resume_generation` is a no-op; SGLang and TensorRT-LLM;
  hybrid and colocated replicas, whose sleep releases weights; the exceptions that
  `abort_all_requests` swallows; LoRA;
- synchronisation: the naive backend, elastic `add_replicas` and `remove_replicas`, the
  other checkpoint engines (nixl, hccl, kimi, mooncake), a subscriber that connects
  after the first message was published, tensors larger than a bucket (an assertion);
- agent loops: `INTERACTING`, multi-modal data, padding and post-processing;
  `max_assistant_turns` stands for the tighter of the limits of turns;
- checkpoints: `resume_path`, HDFS, `del_local_ckpt_after_load`, optimizer and RNG state,
  the end of an epoch in the data loader. The deletions of one rotation are one step
  and a half-written directory is an absent one. FSDP and Megatron managers share
  the rotation; the map names the FSDP one;
- worker group: the other dispatch modes, auto padding (which pads the caller's batch in place,
  `decorator.py:108`), futures; `keep_minibatch`, PrefixGrouper, `force_group_size`, batches
  without dynamic sizes; the Megatron and VeOmni engines, the legacy workers, losses and
  gradients, a rank that dies in the middle of a collective operation;
- rollouter and trainer: validation, which blocks the rollouter's event loop; metrics.

Next, in this order:

1. **Validation** in the rollouter and the trainer's use of it (`do_validate`).
2. `FullyAsync` with `WeightSync` in the place of `SyncParameters`, as a refinement.
3. `WorkerGroupCall`: the Megatron engine's rounding of the number of micro-batches.
4. Then, as the code allows: the reward loop's rate limiter and the one-step-off pipeline.

Left out for good: the PPO algorithms, the tensor code of engines, models, kernels and recipes. They are
floating-point tensor code or configuration, without a protocol that TLA+ would
express usefully. They are also most of the repository, so the specifications cover a
small share of its lines.
