------------------------------ MODULE Rollouter ------------------------------
(***************************************************************************)
(* The FullyAsyncRollouter actor                                           *)
(* (verl/experimental/fully_async_policy/fully_async_rollouter.py): the    *)
(* coroutines that share its asyncio event loop.                           *)
(*                                                                         *)
(*   feed        _feed_samples        fills pending_queue                  *)
(*   processor   _processor_worker    admits samples, pauses, drains       *)
(*   tasks       _process_single_sample_streaming, one per active sample   *)
(*   monitor     _async_monitor_loop  resumes a paused processor           *)
(*   main        _streaming_generation_main                                *)
(*   reset       reset_staleness, the RPC of the trainer                   *)
(*                                                                         *)
(* Asyncio is cooperative.  A coroutine keeps the event loop from one      *)
(* suspension to the next: loop names the coroutine in mid-run, "idle"     *)
(* when any ready one may be scheduled.  Awaiting a free lock, a non-empty *)
(* queue or _should_pause_generation (whose RPC blocks the whole loop)     *)
(* does not suspend.  self.lock is a FIFO asyncio.Lock: lock lists the     *)
(* coroutines that have asked for it, its holder first.                    *)
(*                                                                         *)
(* The module is an open system: queue_size and success are what the       *)
(* MessageQueue actor answers; FullyAsync closes it.                       *)
(***************************************************************************)
EXTENDS Naturals, FiniteSets, Sequences

CONSTANTS
    TotalRolloutSteps,     \* total_rollout_steps: samples fed in the run
    MaxRequiredSamples,    \* max_required_samples, also the queue's capacity
    MaxConcurrentSamples,  \* max_concurrent_samples
    PendingQueueSize,      \* maxsize of pending_queue
    MayFail,               \* whether the generation of a sample may raise
    None                   \* the end signal, and "no sample in hand"

Samples == 1 .. TotalRolloutSteps

ASSUME RollouterAssumption ==
    /\ TotalRolloutSteps \in Nat \ {0}
    /\ MaxRequiredSamples \in Nat \ {0}
    /\ MaxConcurrentSamples \in 1 .. MaxRequiredSamples
    /\ PendingQueueSize \in Nat \ {0}
    /\ MayFail \in BOOLEAN
    /\ None \notin Samples

VARIABLES
    loop,                  \* the coroutine in mid-run, or "idle"
    lock,                  \* self.lock: its holder, then the waiters
    feed_pc, global_steps, pending_queue,
    proc_pc,
    drain_for,             \* which of the three drains of active_tasks runs
    rollout_sample,        \* the sample the processor holds
    active_tasks,          \* self.active_tasks, finished tasks included
    task_state,            \* what became of every sample's task
    staleness_samples, paused, running,
    total_generated_samples, dropped_stale_samples,
    monitor_pc, main_pc,
    reset_pc, reset_count  \* reset_staleness and the sum it is computing

rollouterVars == <<loop, lock, feed_pc, global_steps, pending_queue, proc_pc, drain_for,
                   rollout_sample, active_tasks, task_state, staleness_samples, paused,
                   running, total_generated_samples, dropped_stale_samples, monitor_pc,
                   main_pc, reset_pc, reset_count>>

procVars == <<proc_pc, drain_for, rollout_sample, active_tasks, staleness_samples>>
feedVars == <<feed_pc, global_steps>>
taskVars == <<task_state, total_generated_samples, dropped_stale_samples>>
resetVars == <<reset_pc, reset_count>>

\* The coroutines that take self.lock
Coroutines == {"processor", "monitor", "reset", "main"}

RollouterTypeOK ==
    /\ loop \in {"idle", "feed", "processor"}
    /\ lock \in Seq(Coroutines)
    /\ feed_pc \in {"sample", "end", "done"}
    /\ global_steps \in Samples
    /\ pending_queue \in Seq(Samples \union {None})
    /\ proc_pc \in {"top", "pause", "get", "drain", "wait", "hold", "submit", "paused",
                    "notified", "done", "failed"}
    /\ drain_for \in {"pause", "limit", "end"}
    /\ rollout_sample \in Samples \union {None}
    /\ active_tasks \in SUBSET Samples
    /\ task_state \in [Samples -> {"new", "generating", "put", "overflow", "done", "failed"}]
    /\ staleness_samples \in Nat
    /\ paused \in BOOLEAN
    /\ running \in BOOLEAN
    /\ total_generated_samples \in Nat
    /\ dropped_stale_samples \in Nat
    /\ monitor_pc \in {"sleep", "resume", "check", "done"}
    /\ main_pc \in {"run", "signal", "abort", "stop", "done", "failed"}
    /\ reset_pc \in {"idle", "called", "counting", "counted", "replied"}
    /\ reset_count \in Nat

\* set_max_required_samples and fit have run: every coroutine is about to start.
RollouterInit ==
    /\ loop = "idle" /\ lock = <<>>
    /\ feed_pc = "sample" /\ global_steps = 1 /\ pending_queue = <<>>
    /\ proc_pc = "top" /\ drain_for = "pause" /\ rollout_sample = None
    /\ active_tasks = {} /\ task_state = [s \in Samples |-> "new"]
    /\ staleness_samples = 0 /\ paused = FALSE /\ running = TRUE
    /\ total_generated_samples = 0 /\ dropped_stale_samples = 0
    /\ monitor_pc = "sleep" /\ main_pc = "run"
    /\ reset_pc = "idle" /\ reset_count = 0

-----------------------------------------------------------------------------
(* The event loop and its lock *)

OnLoop(c) == loop \in {"idle", c}

\* c enters a block "async with self.lock": at once when nobody has asked for
\* the lock, else when its turn has come.
Acquires(c) == IF lock = <<>> THEN TRUE ELSE Head(lock) = c
HeldBy(c) == IF lock = <<>> THEN <<c>> ELSE lock
Released == IF lock = <<>> THEN <<>> ELSE Tail(lock)

MustWait(c) == lock # <<>> /\ \A i \in DOMAIN lock : lock[i] # c
JoinLock(c) == lock' = Append(lock, c)

\* Fault (the first of this module's, explained in MessageQueue): no notification.
NotifiedNobody == proc_pc

\* condition.notify_all(): only the processor waits on the condition.
Notified == IF proc_pc = "paused" THEN "notified" ELSE proc_pc

\* Fault: the limits are exceeded before they pause the generation.
ShouldPauseLate(queue_size) ==
    \/ queue_size > MaxRequiredSamples
    \/ staleness_samples > MaxRequiredSamples

\* _should_pause_generation, given the size of the message queue
ShouldPause(queue_size) ==
    \/ queue_size >= MaxRequiredSamples
    \/ staleness_samples >= MaxRequiredSamples

-----------------------------------------------------------------------------
(* _feed_samples *)

PendingFull == Len(pending_queue) >= PendingQueueSize

\* Fault: one sample too few.
LastSampleEarly == global_steps + 1 >= TotalRolloutSteps

LastSample == global_steps >= TotalRolloutSteps

FeedSample ==
    /\ feed_pc = "sample" /\ OnLoop("feed") /\ ~PendingFull
    /\ pending_queue' = Append(pending_queue, global_steps)
    /\ IF LastSample
       THEN feed_pc' = "end" /\ UNCHANGED global_steps
       ELSE global_steps' = global_steps + 1 /\ UNCHANGED feed_pc
    /\ loop' = IF PendingFull' THEN "idle" ELSE "feed"
    /\ UNCHANGED <<lock, procVars, taskVars, paused, running, monitor_pc, main_pc, resetVars>>

FeedEnd ==
    /\ feed_pc = "end" /\ OnLoop("feed") /\ ~PendingFull
    /\ pending_queue' = Append(pending_queue, None)
    /\ feed_pc' = "done"
    /\ loop' = "idle"
    /\ UNCHANGED <<lock, global_steps, procVars, taskVars, paused, running, monitor_pc,
                   main_pc, resetVars>>

-----------------------------------------------------------------------------
(* _processor_worker *)

procLockLabels == {"pause", "drain", "hold", "submit"}
procOthers == <<feedVars, taskVars, running, monitor_pc, main_pc, resetVars>>

\* The head of the loop: pause, or ask for the next sample.
ProcessorTop(queue_size) ==
    /\ proc_pc = "top" /\ OnLoop("processor")
    /\ IF paused \/ ShouldPause(queue_size)
       THEN proc_pc' = "pause" /\ loop' = "processor"
       ELSE /\ proc_pc' = "get"
            /\ loop' = IF pending_queue = <<>> THEN "idle" ELSE "processor"
    /\ UNCHANGED <<lock, pending_queue, drain_for, rollout_sample, active_tasks,
                   staleness_samples, paused, procOthers>>

\* Fault: one task too many is admitted.
MustDrainLate ==
    IF drain_for = "limit" THEN Cardinality(active_tasks) > MaxConcurrentSamples
                           ELSE active_tasks # {}

\* The condition of the loops "while self.active_tasks" (on a pause and at the
\* end) and "while len(self.active_tasks) >= self.max_concurrent_samples".
MustDrain ==
    IF drain_for = "limit" THEN Cardinality(active_tasks) >= MaxConcurrentSamples
                           ELSE active_tasks # {}

\* The lock is taken by somebody else: the processor queues for it.
ProcessorAwaitLock ==
    /\ proc_pc \in procLockLabels /\ loop = "processor" /\ MustWait("processor")
    /\ proc_pc = "drain" => MustDrain
    /\ JoinLock("processor")
    /\ loop' = "idle"
    /\ UNCHANGED <<pending_queue, procVars, paused, procOthers>>

ProcessorPause ==
    /\ proc_pc = "pause" /\ OnLoop("processor") /\ Acquires("processor")
    /\ paused' = TRUE
    /\ lock' = Released
    /\ proc_pc' = "drain" /\ drain_for' = "pause"
    /\ loop' = "processor"
    /\ UNCHANGED <<pending_queue, rollout_sample, active_tasks, staleness_samples, procOthers>>

\* The next sample counts as stale from the moment it is taken; the end signal
\* counts too.
ProcessorGet ==
    /\ proc_pc = "get" /\ OnLoop("processor") /\ pending_queue # <<>>
    /\ rollout_sample' = Head(pending_queue)
    /\ pending_queue' = Tail(pending_queue)
    /\ staleness_samples' = staleness_samples + 1
    /\ proc_pc' = "drain"
    /\ drain_for' = IF Head(pending_queue) = None THEN "end" ELSE "limit"
    /\ loop' = "processor"
    /\ UNCHANGED <<lock, active_tasks, paused, procOthers>>

ProcessorDrained ==
    /\ proc_pc = "drain" /\ OnLoop("processor") /\ ~MustDrain
    /\ proc_pc' = CASE drain_for = "pause" -> "hold"
                    [] drain_for = "limit" -> "submit"
                    [] drain_for = "end" -> "done"
    /\ loop' = IF drain_for = "end" THEN "idle" ELSE "processor"
    /\ UNCHANGED <<lock, pending_queue, drain_for, rollout_sample, active_tasks,
                   staleness_samples, paused, procOthers>>

\* asyncio.wait(active_tasks, FIRST_COMPLETED) is entered with the lock held ...
ProcessorDrain ==
    /\ proc_pc = "drain" /\ OnLoop("processor") /\ MustDrain /\ Acquires("processor")
    /\ lock' = HeldBy("processor")
    /\ proc_pc' = "wait"
    /\ loop' = "idle"
    /\ UNCHANGED <<pending_queue, drain_for, rollout_sample, active_tasks, staleness_samples,
                   paused, procOthers>>

FinishedTasks == {s \in active_tasks : task_state[s] \in {"done", "failed"}}

\* ... and returns every finished task; the exception of a failed one ends the
\* processor, whose sample in hand is lost.
ProcessorReap ==
    /\ proc_pc = "wait" /\ OnLoop("processor") /\ FinishedTasks # {}
    /\ active_tasks' = active_tasks \ FinishedTasks
    /\ lock' = Released
    /\ IF \E s \in FinishedTasks : task_state[s] = "failed"
       THEN proc_pc' = "failed" /\ rollout_sample' = None /\ loop' = "idle"
       ELSE proc_pc' = "drain" /\ loop' = "processor" /\ UNCHANGED rollout_sample
    /\ UNCHANGED <<pending_queue, drain_for, staleness_samples, paused, procOthers>>

\* while self.paused: await self.condition.wait(), which releases the lock
ProcessorHold ==
    /\ proc_pc = "hold" /\ OnLoop("processor") /\ Acquires("processor")
    /\ lock' = Released
    /\ IF paused THEN proc_pc' = "paused" /\ loop' = "idle"
                 ELSE proc_pc' = "top" /\ loop' = "processor"
    /\ UNCHANGED <<pending_queue, drain_for, rollout_sample, active_tasks, staleness_samples,
                   paused, procOthers>>

\* A notified waiter runs again and asks for the lock.
ProcessorWake ==
    /\ proc_pc = "notified" /\ OnLoop("processor")
    /\ proc_pc' = IF rollout_sample = None THEN "hold" ELSE "submit"
    /\ loop' = "processor"
    /\ UNCHANGED <<lock, pending_queue, drain_for, rollout_sample, active_tasks,
                   staleness_samples, paused, procOthers>>

\* The sample in hand becomes an active task, unless the rollouter is paused.
ProcessorSubmit ==
    /\ proc_pc = "submit" /\ OnLoop("processor") /\ Acquires("processor")
    /\ lock' = Released
    /\ IF paused
       THEN /\ proc_pc' = "paused" /\ loop' = "idle"
            /\ UNCHANGED <<active_tasks, task_state, rollout_sample>>
       ELSE /\ active_tasks' = active_tasks \union {rollout_sample}
            /\ task_state' = [task_state EXCEPT ![rollout_sample] = "generating"]
            /\ rollout_sample' = None
            /\ proc_pc' = "top" /\ loop' = "processor"
    /\ UNCHANGED <<feedVars, pending_queue, drain_for, staleness_samples, paused, running,
                   total_generated_samples, dropped_stale_samples, monitor_pc, main_pc,
                   resetVars>>

-----------------------------------------------------------------------------
(* _process_single_sample_streaming *)

taskOthers == <<lock, feedVars, pending_queue, procVars, paused, running, monitor_pc,
                main_pc, resetVars>>

\* The generation is over and put_sample runs in the queue's actor; its answer
\* is on the way back.
TaskPut(s, success) ==
    /\ task_state[s] = "generating"
    /\ task_state' = [task_state EXCEPT ![s] = IF success THEN "put" ELSE "overflow"]
    /\ UNCHANGED <<loop, total_generated_samples, dropped_stale_samples, taskOthers>>

TaskFinish(s) ==
    /\ task_state[s] \in {"put", "overflow"} /\ loop = "idle"
    /\ task_state' = [task_state EXCEPT ![s] = "done"]
    /\ IF task_state[s] = "put"
       THEN total_generated_samples' = total_generated_samples + 1
            /\ UNCHANGED dropped_stale_samples
       ELSE dropped_stale_samples' = dropped_stale_samples + 1
            /\ UNCHANGED total_generated_samples
    /\ UNCHANGED <<loop, taskOthers>>

TaskFail(s) ==
    /\ MayFail
    /\ task_state[s] = "generating" /\ loop = "idle"
    /\ task_state' = [task_state EXCEPT ![s] = "failed"]
    /\ UNCHANGED <<loop, total_generated_samples, dropped_stale_samples, taskOthers>>

-----------------------------------------------------------------------------
(* reset_staleness *)

\* The RPC of the trainer arrives; the trainer waits for its reply.
ResetCalled ==
    /\ reset_pc = "idle"
    /\ reset_pc' = "called"
    /\ UNCHANGED <<loop, lock, feedVars, pending_queue, procVars, taskVars, paused, running,
                   monitor_pc, main_pc, reset_count>>

ResetAwaitLock ==
    /\ reset_pc = "called" /\ loop = "idle" /\ MustWait("reset")
    /\ JoinLock("reset")
    /\ UNCHANGED <<loop, feedVars, pending_queue, procVars, taskVars, paused, running,
                   monitor_pc, main_pc, resetVars>>

\* The first half of the sum is read before the RPC to the queue, for which
\* the coroutine is suspended with the lock held ...
ResetStart ==
    /\ reset_pc = "called" /\ loop = "idle" /\ Acquires("reset")
    /\ lock' = HeldBy("reset")
    /\ paused' = FALSE
    /\ proc_pc' = Notified
    /\ reset_count' = Cardinality(active_tasks)
    /\ reset_pc' = "counting"
    /\ UNCHANGED <<loop, feedVars, pending_queue, drain_for, rollout_sample, active_tasks,
                   staleness_samples, taskVars, running, monitor_pc, main_pc>>

\* Fault: the active tasks are left out of the sum.
ResetCountQueueOnly(queue_size) ==
    /\ reset_pc = "counting"
    /\ reset_count' = queue_size
    /\ reset_pc' = "counted"
    /\ UNCHANGED <<loop, lock, feedVars, pending_queue, procVars, taskVars, paused, running,
                   monitor_pc, main_pc>>

\* ... get_queue_size runs in the queue's actor ...
ResetCount(queue_size) ==
    /\ reset_pc = "counting"
    /\ reset_count' = reset_count + queue_size
    /\ reset_pc' = "counted"
    /\ UNCHANGED <<loop, lock, feedVars, pending_queue, procVars, taskVars, paused, running,
                   monitor_pc, main_pc>>

\* ... and the sum replaces whatever staleness_samples has become meanwhile.
ResetFinish ==
    /\ reset_pc = "counted" /\ loop = "idle"
    /\ staleness_samples' = reset_count
    /\ reset_pc' = "replied" /\ reset_count' = 0
    /\ lock' = Released
    /\ UNCHANGED <<loop, feedVars, pending_queue, proc_pc, drain_for, rollout_sample,
                   active_tasks, taskVars, paused, running, monitor_pc, main_pc>>

\* The reply reaches the trainer.
ResetReplied ==
    /\ reset_pc = "replied"
    /\ reset_pc' = "idle"
    /\ UNCHANGED <<loop, lock, feedVars, pending_queue, procVars, taskVars, paused, running,
                   monitor_pc, main_pc, reset_count>>

-----------------------------------------------------------------------------
(* _async_monitor_loop *)

monitorOthers == <<loop, feedVars, pending_queue, drain_for, rollout_sample, active_tasks,
                   staleness_samples, taskVars, running, main_pc, resetVars>>

MonitorNext == IF running THEN "sleep" ELSE "done"

\* Fault: the monitor leaves resuming to reset_staleness.
NeverResume(queue_size) == FALSE

MustResume(queue_size) == paused /\ ~ShouldPause(queue_size)

\* Every check_interval: resume a processor that need not be paused, then look
\* at running; each takes the lock, and waits for it when it is taken.
MonitorWake(queue_size) ==
    LET recover == MustResume(queue_size) IN
    /\ monitor_pc = "sleep" /\ loop = "idle"
    /\ IF lock = <<>>
       THEN /\ paused' = (paused /\ ~recover)
            /\ proc_pc' = IF recover THEN Notified ELSE proc_pc
            /\ monitor_pc' = MonitorNext
            /\ UNCHANGED lock
       ELSE /\ monitor_pc' = IF recover THEN "resume" ELSE "check"
            /\ JoinLock("monitor")
            /\ UNCHANGED <<paused, proc_pc>>
    /\ UNCHANGED monitorOthers

\* The decision was taken before the wait for the lock and is not revised.
MonitorResume ==
    /\ monitor_pc = "resume" /\ loop = "idle" /\ lock # <<>> /\ Head(lock) = "monitor"
    /\ paused' = FALSE
    /\ proc_pc' = Notified
    /\ IF Tail(lock) = <<>>
       THEN monitor_pc' = MonitorNext /\ lock' = <<>>
       ELSE monitor_pc' = "check" /\ lock' = Append(Tail(lock), "monitor")
    /\ UNCHANGED monitorOthers

MonitorCheck ==
    /\ monitor_pc = "check" /\ loop = "idle" /\ lock # <<>> /\ Head(lock) = "monitor"
    /\ monitor_pc' = MonitorNext
    /\ lock' = Tail(lock)
    /\ UNCHANGED <<paused, proc_pc, monitorOthers>>

-----------------------------------------------------------------------------
(* _streaming_generation_main *)

mainOthers == <<loop, global_steps, pending_queue, procVars, taskVars, paused, monitor_pc,
                resetVars>>

\* Fault: the end of the feed is taken for the end of the streaming.
MainJoinFeed ==
    /\ main_pc = "run" /\ loop = "idle"
    /\ feed_pc = "done"
    /\ main_pc' = "signal"
    /\ UNCHANGED <<lock, feed_pc, running, mainOthers>>

\* Both tasks are over.
MainJoin ==
    /\ main_pc = "run" /\ loop = "idle"
    /\ feed_pc = "done" /\ proc_pc = "done"
    /\ main_pc' = "signal"
    /\ UNCHANGED <<lock, feed_pc, running, mainOthers>>

\* Fault: the exception skips the end signal.
MainAbortSilently ==
    /\ main_pc = "run" /\ loop = "idle"
    /\ proc_pc = "failed"
    /\ feed_pc' = "done"
    /\ main_pc' = "failed"
    /\ UNCHANGED <<lock, running, mainOthers>>

\* The processor raised: the feed is cancelled.
MainAbort ==
    /\ main_pc = "run" /\ loop = "idle"
    /\ proc_pc = "failed"
    /\ feed_pc' = "done"
    /\ main_pc' = "abort"
    /\ UNCHANGED <<lock, running, mainOthers>>

\* The end signal enters the message queue, on both paths.
MainSignal ==
    /\ main_pc \in {"signal", "abort"}
    /\ main_pc' = IF main_pc = "signal" THEN "stop" ELSE "failed"
    /\ UNCHANGED <<lock, feed_pc, running, mainOthers>>

\* Reached on the normal path only: an exception has already left the function.
MainAwaitLock ==
    /\ main_pc = "stop" /\ loop = "idle" /\ MustWait("main")
    /\ JoinLock("main")
    /\ UNCHANGED <<main_pc, feed_pc, running, mainOthers>>

MainStop ==
    /\ main_pc = "stop" /\ loop = "idle" /\ Acquires("main")
    /\ running' = FALSE
    /\ lock' = Released
    /\ main_pc' = "done"
    /\ UNCHANGED <<feed_pc, mainOthers>>

-----------------------------------------------------------------------------
(* The whole actor *)

\* What the event loop runs, given the size of the message queue.
FeedStep == FeedSample \/ FeedEnd
ProcessorStep(queue_size) ==
    \/ ProcessorTop(queue_size) \/ ProcessorAwaitLock \/ ProcessorPause \/ ProcessorGet
    \/ ProcessorDrained \/ ProcessorDrain \/ ProcessorReap \/ ProcessorHold
    \/ ProcessorWake \/ ProcessorSubmit
ResetStep(queue_size) ==
    ResetAwaitLock \/ ResetStart \/ ResetCount(queue_size) \/ ResetFinish
MonitorStep(queue_size) == MonitorWake(queue_size) \/ MonitorResume \/ MonitorCheck
MainStep == MainJoin \/ MainAbort \/ MainAwaitLock \/ MainStop

RollouterStep(queue_size) ==
    \/ FeedStep \/ ProcessorStep(queue_size) \/ ResetStep(queue_size)
    \/ MonitorStep(queue_size) \/ MainStep
    \/ \E s \in Samples : TaskFinish(s) \/ TaskFail(s)

\* What the other actors do to it: they answer put_sample, deliver the end signal,
\* and call reset_staleness and take its reply.
EnvironmentStep ==
    \/ \E s \in Samples, success \in BOOLEAN : TaskPut(s, success)
    \/ MainSignal \/ ResetCalled \/ ResetReplied

\* The actor among any others: they may report any size of the queue at any time.
RollouterNext == EnvironmentStep \/ \E queue_size \in Nat : RollouterStep(queue_size)

RollouterSpec == RollouterInit /\ [][RollouterNext]_rollouterVars

\* fit gathers the generation and the monitor.
FitReturned == main_pc \in {"done", "failed"} /\ monitor_pc = "done"

-----------------------------------------------------------------------------
(* What its coroutines keep, whatever the other actors answer and whenever *)

Generating == {s \in Samples : task_state[s] = "generating"}

\* The processor is between taking a sample and submitting it.
Admitting == proc_pc = "submit" \/ (proc_pc \in {"drain", "wait"} /\ drain_for = "limit")

\* It holds a sample exactly then.
HandInv == rollout_sample # None <=> Admitting

\* It is never paused on that way: pausing is its own decision, and the wait for
\* the end of the pause in front of the submission never happens.
UnpausedInv == Admitting \/ proc_pc = "get" => ~paused

\* The two coroutines that suspend inside "async with self.lock" hold the lock.
LockInv ==
    /\ proc_pc = "wait" => lock # <<>> /\ Head(lock) = "processor"
    /\ reset_pc \in {"counting", "counted"} => lock # <<>> /\ Head(lock) = "reset"

\* active_tasks holds every running generation within its bound, and is empty from
\* the end of a pause's drain to the end of the pause.
ActiveInv ==
    /\ Generating \subseteq active_tasks
    /\ Cardinality(active_tasks) <= MaxConcurrentSamples
    /\ proc_pc = "submit" => Cardinality(active_tasks) < MaxConcurrentSamples
    /\ proc_pc \in {"hold", "paused", "notified"} => active_tasks = {}
    /\ proc_pc = "paused" => paused

RollouterInv == RollouterTypeOK /\ HandInv /\ UnpausedInv /\ LockInv /\ ActiveInv
=============================================================================
