---------------------------- MODULE MessageQueue ----------------------------
(***************************************************************************)
(* The sample queue of the MessageQueue actor                              *)
(* (verl/experimental/fully_async_policy/message_queue.py).                *)
(*                                                                         *)
(* The actor is a single Ray process whose handlers run under one asyncio  *)
(* lock, so each operation below is one atomic step.  The module holds the *)
(* state and the operations; MessageQueueActor adds the blocked callers    *)
(* and the other handlers, and FullyAsync composes the queue with the      *)
(* rollouter that fills it and the trainer that empties it.                *)
(***************************************************************************)
EXTENDS Naturals, Sequences

CONSTANT MaxQueueSize      \* max_queue_size, the capacity of the deque

ASSUME MaxQueueSizeAssumption == MaxQueueSize \in Nat \ {0}

VARIABLES
    queue,                 \* self.queue: the deque of samples, oldest first
    total_produced,        \* statistics kept by the actor
    total_consumed,
    dropped_samples

mqVars == <<queue, total_produced, total_consumed, dropped_samples>>

MQInit ==
    /\ queue = <<>>
    /\ total_produced = 0
    /\ total_consumed = 0
    /\ dropped_samples = 0

MQTypeOK(Elements) ==
    /\ queue \in Seq(Elements)
    /\ Len(queue) <= MaxQueueSize
    /\ total_produced \in Nat /\ total_consumed \in Nat /\ dropped_samples \in Nat

\* Faults, here and in the other modules: what a plausible slip in the code would
\* make of the definition that follows.  No specification uses them; each one is
\* put in the place of that definition to see that a property catches it.
QueueFullLate == Len(queue) > MaxQueueSize

QueueFull == Len(queue) >= MaxQueueSize

\* What put_sample answers: False when it had to drop the oldest sample.
PutSucceeds == ~QueueFull

\* Fault: a full queue loses its newest element.
RoomAtTheEnd == IF QueueFull THEN SubSeq(queue, 1, Len(queue) - 1) ELSE queue

\* Room for one more: a full queue loses its oldest element.
Room == IF QueueFull THEN Tail(queue) ELSE queue

\* Fault: the loss is not counted.
DropsUncounted == dropped_samples

Drops == IF QueueFull THEN dropped_samples + 1 ELSE dropped_samples

\* put_sample: the new element always enters.
PutSample(sample) ==
    /\ queue' = Append(Room, sample)
    /\ dropped_samples' = Drops
    /\ total_produced' = total_produced + 1
    /\ UNCHANGED total_consumed

\* Fault: the element is returned and stays.
PeekSample(sample) ==
    /\ queue # <<>>
    /\ sample = Head(queue)
    /\ total_consumed' = total_consumed + 1
    /\ UNCHANGED <<queue, total_produced, dropped_samples>>

\* get_sample, once it no longer waits: the oldest element leaves the queue.
TakeSample(sample) ==
    /\ queue # <<>>
    /\ sample = Head(queue)
    /\ queue' = Tail(queue)
    /\ total_consumed' = total_consumed + 1
    /\ UNCHANGED <<total_produced, dropped_samples>>

\* clear_queue: neither a consumption nor a drop.
ClearQueue ==
    /\ queue' = <<>>
    /\ UNCHANGED <<total_produced, total_consumed, dropped_samples>>
=============================================================================
