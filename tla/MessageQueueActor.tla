-------------------------- MODULE MessageQueueActor --------------------------
(***************************************************************************)
(* The whole MessageQueue actor under concurrent calls: put_sample,        *)
(* get_sample with the callers it blocks, clear_queue, shutdown and the    *)
(* queue of validation results.                                            *)
(*                                                                         *)
(* Every handler holds self._lock except while a get_sample waits on the   *)
(* condition, which is built on that lock; a handler is therefore one step *)
(* and a blocked get_sample is resumed by a step of its own, any number of *)
(* other handlers after the notification.  A sample is the number of its   *)
(* production.                                                             *)
(***************************************************************************)
EXTENDS MessageQueue, FiniteSets

CONSTANTS
    Consumers,             \* the callers of get_sample
    MaxProduced,           \* bound: calls of put_sample
    MaxValidate            \* bound: results waiting in val_queue

ASSUME ActorAssumption == MaxProduced \in Nat /\ MaxValidate \in Nat

VARIABLES
    running,
    val_queue,
    call,                  \* each consumer's get_sample call
    received               \* what its calls have returned so far

actorVars == <<mqVars, running, val_queue, call, received>>

Init ==
    /\ MQInit
    /\ running = TRUE
    /\ val_queue = 0
    /\ call = [c \in Consumers |-> "none"]
    /\ received = [c \in Consumers |-> <<>>]

\* Fault: nobody is notified.
WokenNobody == call

\* _consumer_condition.notify_all()
Woken == [c \in Consumers |-> IF call[c] = "waiting" THEN "notified" ELSE call[c]]

Put ==
    /\ total_produced < MaxProduced
    /\ PutSample(total_produced + 1)
    /\ call' = Woken
    /\ UNCHANGED <<running, val_queue, received>>

\* get_sample from its start or from a notification: both evaluate the same
\* conditions under the lock.
Runnable(c) == call[c] \in {"none", "notified"}

\* Fault: the wait does not look at running.
GetWaitsForever(c) ==
    /\ Runnable(c) /\ queue = <<>>
    /\ call' = [call EXCEPT ![c] = "waiting"]
    /\ UNCHANGED <<mqVars, running, val_queue, received>>

GetWaits(c) ==
    /\ Runnable(c) /\ queue = <<>> /\ running
    /\ call' = [call EXCEPT ![c] = "waiting"]
    /\ UNCHANGED <<mqVars, running, val_queue, received>>

GetClosed(c) ==
    /\ Runnable(c) /\ queue = <<>> /\ ~running
    /\ call' = [call EXCEPT ![c] = "closed"]
    /\ UNCHANGED <<mqVars, running, val_queue, received>>

GetSample(c) ==
    /\ Runnable(c) /\ queue # <<>>
    /\ TakeSample(Head(queue))
    /\ received' = [received EXCEPT ![c] = Append(@, Head(queue))]
    /\ call' = [call EXCEPT ![c] = "none"]
    /\ UNCHANGED <<running, val_queue>>

Clear == ClearQueue /\ UNCHANGED <<running, val_queue, call, received>>

Shutdown ==
    /\ running' = FALSE
    /\ call' = Woken
    /\ UNCHANGED <<mqVars, val_queue, received>>

PutValidate ==
    /\ val_queue < MaxValidate
    /\ val_queue' = val_queue + 1
    /\ UNCHANGED <<mqVars, running, call, received>>

\* get_validate never waits: an empty val_queue answers None.
GetValidate ==
    /\ val_queue' = IF val_queue = 0 THEN 0 ELSE val_queue - 1
    /\ UNCHANGED <<mqVars, running, call, received>>

Next ==
    \/ Put \/ Clear \/ Shutdown \/ PutValidate \/ GetValidate
    \/ \E c \in Consumers : GetWaits(c) \/ GetClosed(c) \/ GetSample(c)

Spec == Init /\ [][Next]_actorVars

\* The actor resumes a coroutine that was notified.
FairSpec == Spec /\ \A c \in Consumers :
    WF_actorVars(call[c] = "notified" /\ (GetWaits(c) \/ GetClosed(c) \/ GetSample(c)))

-----------------------------------------------------------------------------
(* Properties *)

\* Every variable has its type, and the deque never exceeds its maxlen.
TypeOK ==
    /\ queue \in Seq(1 .. MaxProduced) /\ Len(queue) <= MaxQueueSize
    /\ total_produced \in 0 .. MaxProduced
    /\ total_consumed \in Nat /\ dropped_samples \in Nat
    /\ running \in BOOLEAN
    /\ val_queue \in 0 .. MaxValidate
    /\ call \in [Consumers -> {"none", "waiting", "notified", "closed"}]
    /\ received \in [Consumers -> Seq(1 .. MaxProduced)]

\* A get_sample sleeps only while there is nothing to return to it: no
\* notification is lost, whatever happens between it and the resumption.
NoLostNotification ==
    \A c \in Consumers : call[c] = "waiting" => queue = <<>> /\ running

\* The statistics agree with the queue: what was produced and is neither consumed,
\* dropped nor queued was cleared.
StatisticsConsistent ==
    total_consumed + dropped_samples + Len(queue) <= total_produced

\* The samples that can still be delivered.
Kept == {queue[i] : i \in DOMAIN queue}

\* The actor implements the stream of the latest MaxQueueSize samples.
Stream == INSTANCE SampleStream WITH
    Capacity <- MaxQueueSize,
    produced <- total_produced,
    kept <- Kept,
    closed <- ~running

ImplementsStream == Stream!Spec

\* shutdown lets every blocked get_sample exit.
ShutdownReleases == ~running ~> \A c \in Consumers : call[c] \notin {"waiting", "notified"}
=============================================================================
