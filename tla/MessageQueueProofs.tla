--------------------------- MODULE MessageQueueProofs ---------------------------
(***************************************************************************)
(* Theorems about the MessageQueue actor, for any number of consumers, any *)
(* capacity and any number of calls.                                       *)
(***************************************************************************)
EXTENDS MessageQueueActor, SequenceFacts, FiniteSetTheorems, TLAPS

ActorInv == TypeOK /\ NoLostNotification /\ StatisticsConsistent

\* What put_sample leaves in the deque, full or not.
LEMMA PutLength ==
  ASSUME NEW D, queue \in Seq(D), Len(queue) <= MaxQueueSize,
         dropped_samples \in Nat, NEW sample \in D, PutSample(sample)
  PROVE  /\ queue' \in Seq(D) /\ Len(queue') <= MaxQueueSize
         /\ dropped_samples' \in Nat
         /\ Len(queue') + dropped_samples' = Len(queue) + dropped_samples + 1
<1>1. CASE QueueFull
  <2>1. queue # <<>>
    BY <1>1, MaxQueueSizeAssumption DEF QueueFull
  <2>2. Tail(queue) \in Seq(D) /\ Len(Tail(queue)) = Len(queue) - 1
    BY <2>1
  <2>3. queue' = Append(Tail(queue), sample) /\ dropped_samples' = dropped_samples + 1
    BY <1>1 DEF PutSample, Room, Drops
  <2>4. queue' \in Seq(D) /\ Len(queue') = Len(queue)
    BY <2>2, <2>3
  <2>. QED BY <2>3, <2>4
<1>2. CASE ~QueueFull
  <2>1. queue' = Append(queue, sample) /\ dropped_samples' = dropped_samples
    BY <1>2 DEF PutSample, Room, Drops
  <2>. QED BY <1>2, <2>1, MaxQueueSizeAssumption DEF QueueFull
<1>. QED BY <1>1, <1>2

LEMMA ActorInvInit == Init => ActorInv
<1>. SUFFICES ASSUME Init PROVE ActorInv
  OBVIOUS
<1>. USE DEF Init, MQInit
<1>1. TypeOK
  BY MaxQueueSizeAssumption, ActorAssumption DEF TypeOK
<1>2. NoLostNotification
  BY DEF NoLostNotification
<1>3. StatisticsConsistent
  BY DEF StatisticsConsistent
<1>. QED BY <1>1, <1>2, <1>3 DEF ActorInv

\* The handlers that leave the deque and the callers alone, or only empty it.
LEMMA OtherHandlers ==
  ASSUME ActorInv, Clear \/ PutValidate \/ GetValidate \/ UNCHANGED actorVars
  PROVE  ActorInv'
<1>. USE DEF ActorInv
<1>1. CASE Clear
  <2>1. TypeOK'
    BY <1>1, MaxQueueSizeAssumption DEF Clear, ClearQueue, TypeOK
  <2>2. NoLostNotification'
    BY <1>1 DEF Clear, ClearQueue, NoLostNotification
  <2>3. StatisticsConsistent'
    BY <1>1 DEF Clear, ClearQueue, StatisticsConsistent, TypeOK
  <2>. QED BY <2>1, <2>2, <2>3
<1>2. CASE PutValidate \/ GetValidate \/ UNCHANGED actorVars
  <2>1. UNCHANGED <<mqVars, running, call, received>>
    BY <1>2 DEF PutValidate, GetValidate, actorVars
  <2>2. val_queue' \in 0 .. MaxValidate
    BY <1>2, ActorAssumption DEF PutValidate, GetValidate, actorVars, TypeOK
  <2>. QED BY <2>1, <2>2 DEF TypeOK, NoLostNotification, StatisticsConsistent, mqVars
<1>. QED BY <1>1, <1>2

\* A production reaches every sleeping consumer.
LEMMA PutKeeps ==
  ASSUME ActorInv, Put
  PROVE  ActorInv'
<1>. USE DEF ActorInv
<1>1. total_produced + 1 \in 1 .. MaxProduced
  BY ActorAssumption DEF Put, TypeOK
<1>2. /\ queue' \in Seq(1 .. MaxProduced) /\ Len(queue') <= MaxQueueSize
      /\ dropped_samples' \in Nat
      /\ Len(queue') + dropped_samples' = Len(queue) + dropped_samples + 1
  BY <1>1, PutLength DEF Put, TypeOK
<1>3. TypeOK'
  <2>1. call' \in [Consumers -> {"none", "waiting", "notified", "closed"}]
    BY DEF Put, Woken, TypeOK
  <2>. QED BY <1>1, <1>2, <2>1 DEF Put, PutSample, TypeOK
<1>4. NoLostNotification'
  BY DEF Put, Woken, NoLostNotification
<1>5. StatisticsConsistent'
  BY <1>2 DEF Put, PutSample, StatisticsConsistent, TypeOK
<1>. QED BY <1>3, <1>4, <1>5

LEMMA ShutdownKeeps ==
  ASSUME ActorInv, Shutdown
  PROVE  ActorInv'
<1>. USE DEF ActorInv, Shutdown
<1>1. TypeOK'
  BY DEF Woken, TypeOK, mqVars
<1>2. NoLostNotification'
  BY DEF Woken, NoLostNotification
<1>3. StatisticsConsistent'
  BY DEF StatisticsConsistent, mqVars
<1>. QED BY <1>1, <1>2, <1>3

\* A consumer falls asleep only on an empty queue of a running actor, and takes a
\* sample only when nobody sleeps.
LEMMA GetKeeps ==
  ASSUME ActorInv, NEW c \in Consumers, GetWaits(c) \/ GetClosed(c) \/ GetSample(c)
  PROVE  ActorInv'
<1>. USE DEF ActorInv
<1>1. CASE GetWaits(c) \/ GetClosed(c)
  <2>1. UNCHANGED <<mqVars, running, val_queue, received>>
    BY <1>1 DEF GetWaits, GetClosed
  <2>2. TypeOK'
    BY <1>1, <2>1 DEF GetWaits, GetClosed, TypeOK, mqVars
  <2>3. NoLostNotification'
    BY <1>1, <2>1 DEF GetWaits, GetClosed, NoLostNotification, TypeOK, mqVars
  <2>4. StatisticsConsistent'
    BY <2>1 DEF StatisticsConsistent, mqVars
  <2>. QED BY <2>2, <2>3, <2>4
<1>2. CASE GetSample(c)
  <2>. USE <1>2 DEF GetSample, TakeSample
  <2>1. queue \in Seq(1 .. MaxProduced) /\ queue # <<>>
    BY DEF TypeOK
  <2>2. /\ Tail(queue) \in Seq(1 .. MaxProduced)
        /\ Len(Tail(queue)) = Len(queue) - 1
        /\ Head(queue) \in 1 .. MaxProduced
    <3>. DEFINE D == 1 .. MaxProduced
    <3>. HIDE DEF D
    <3>1. queue \in Seq(D) /\ queue # <<>>
      BY <2>1 DEF D
    <3>2. Len(queue) \in Nat /\ Len(queue) # 0
      BY <3>1
    <3>3. Tail(queue) \in Seq(D) /\ Len(Tail(queue)) = Len(queue) - 1
      BY <3>1
    <3>4. Head(queue) \in D
      BY <3>1, <3>2
    <3>. QED BY <3>3, <3>4 DEF D
  <2>3. received' \in [Consumers -> Seq(1 .. MaxProduced)]
    BY <2>2 DEF TypeOK
  <2>4. TypeOK'
    BY <2>1, <2>2, <2>3, MaxQueueSizeAssumption DEF TypeOK
  <2>5. NoLostNotification'
    BY <2>1 DEF NoLostNotification, TypeOK
  <2>6. StatisticsConsistent'
    BY <2>2 DEF StatisticsConsistent, TypeOK
  <2>. QED BY <2>4, <2>5, <2>6
<1>. QED BY <1>1, <1>2

LEMMA ActorInvStep ==
  ASSUME ActorInv, [Next]_actorVars
  PROVE  ActorInv'
BY OtherHandlers, PutKeeps, ShutdownKeeps, GetKeeps DEF Next

LEMMA ActorSafe == Spec => []ActorInv
BY ActorInvInit, ActorInvStep, PTL DEF Spec

\* The deque keeps its capacity and every variable its type, whatever the handlers
\* of message_queue.py are called in.
THEOREM ActorTypes == Spec => []TypeOK
<1>1. ActorInv => TypeOK
  BY DEF ActorInv
<1>. QED BY <1>1, ActorSafe, PTL

\* A get_sample sleeps only on an empty queue of a running actor: neither put_sample
\* nor shutdown leaves a caller behind, and no consumer overtakes a sleeping one.
THEOREM NotificationsReach == Spec => []NoLostNotification
<1>1. ActorInv => NoLostNotification
  BY DEF ActorInv
<1>. QED BY <1>1, ActorSafe, PTL

\* Consumed, dropped and queued samples never exceed the produced ones.
THEOREM StatisticsSound == Spec => []StatisticsConsistent
<1>1. ActorInv => StatisticsConsistent
  BY DEF ActorInv
<1>. QED BY <1>1, ActorSafe, PTL

-----------------------------------------------------------------------------
(* The actor implements the stream of samples *)

\* The deque is ordered by production: what makes its head the oldest sample kept.
Ordered ==
    /\ \A i, j \in DOMAIN queue : i < j => queue[i] < queue[j]
    /\ \A i \in DOMAIN queue : queue[i] <= total_produced

StreamInv == ActorInv /\ Ordered

\* The deque holds numbers, and its head only once.
LEMMA Numbers ==
  ASSUME StreamInv
  PROVE  /\ queue \in Seq(1 .. MaxProduced) /\ Len(queue) \in Nat
         /\ DOMAIN queue = 1 .. Len(queue)
         /\ \A i \in DOMAIN queue : i \in Nat /\ queue[i] \in Nat
         /\ \A j \in DOMAIN queue : j # 1 => queue[j] # queue[1]
<1>. DEFINE D == 1 .. MaxProduced
<1>1. queue \in Seq(D) /\ D \subseteq Nat
  BY DEF StreamInv, ActorInv, TypeOK
<1>. HIDE DEF D
<1>2. Len(queue) \in Nat /\ DOMAIN queue = 1 .. Len(queue)
  BY <1>1
<1>3. \A i \in DOMAIN queue : i \in Nat /\ queue[i] \in Nat
  <2>1. \A i \in 1 .. Len(queue) : queue[i] \in D
    BY <1>1
  <2>2. \A i \in 1 .. Len(queue) : i \in Nat
    BY <1>2
  <2>. QED BY <1>1, <1>2, <2>1, <2>2, Zenon
<1>4. \A j \in DOMAIN queue : j # 1 => 1 \in DOMAIN queue /\ 1 < j
  BY <1>2
<1>5. \A j \in DOMAIN queue : j # 1 => queue[j] # queue[1]
  BY <1>3, <1>4 DEF StreamInv, Ordered
<1>. QED BY <1>1, <1>2, <1>3, <1>5 DEF D

\* The samples of an ordered deque are as many as its length, the oldest first.
LEMMA KeptOfOrdered ==
  ASSUME StreamInv
  PROVE  /\ IsFiniteSet(Kept) /\ Cardinality(Kept) = Len(queue)
         /\ queue # <<>> => Kept # {} /\ Stream!Min(Kept) = Head(queue)
<1>1. queue \in Seq(1 .. MaxProduced) /\ Len(queue) \in Nat /\ DOMAIN queue = 1 .. Len(queue)
  BY Numbers
<1>2. \A i \in DOMAIN queue : queue[i] \in Nat
  BY Numbers
<1>3. \A i, j \in DOMAIN queue : queue[i] = queue[j] => i = j
  BY <1>1, <1>2 DEF StreamInv, Ordered
<1>4. queue \in Bijection(1 .. Len(queue), Kept)
  <2>1. queue \in [1 .. Len(queue) -> Kept]
    BY <1>1 DEF Kept
  <2>2. IsInjective(queue)
    BY <1>3 DEF IsInjective
  <2>3. \A t \in Kept : \E s \in 1 .. Len(queue) : queue[s] = t
    BY <1>1 DEF Kept
  <2>. QED BY <2>1, <2>2, <2>3 DEF Bijection, Injection, Surjection
<1>5. IsFiniteSet(Kept) /\ Cardinality(Kept) = Len(queue)
  BY <1>1, <1>4, FS_Interval, FS_Bijection DEF ExistsBijection
<1>6. ASSUME queue # <<>>
      PROVE  Kept # {} /\ Stream!Min(Kept) = Head(queue)
  <2>1. 1 \in DOMAIN queue /\ Head(queue) = queue[1]
    BY <1>1, <1>6, TailIndices
  <2>2. Head(queue) \in Kept
    BY <2>1 DEF Kept
  <2>3. \A y \in Kept : y \in Nat /\ Head(queue) =< y
    BY <1>1, <1>2, <2>1 DEF Kept, StreamInv, Ordered
  <2>. DEFINE m == Stream!Min(Kept)
  <2>4. m \in Kept /\ \A y \in Kept : m =< y
    BY <2>2, <2>3 DEF Stream!Min
  <2>. QED BY <2>2, <2>3, <2>4
<1>. QED BY <1>5, <1>6

\* Without its head the deque keeps the other samples.
LEMMA TailKept ==
  ASSUME StreamInv, queue # <<>>
  PROVE  {Tail(queue)[i] : i \in DOMAIN Tail(queue)} = Kept \ {queue[1]}
<1>. DEFINE D == 1 .. MaxProduced
<1>. HIDE DEF D
<1>1. queue \in Seq(D)
  BY Numbers DEF D
<1>2. /\ 1 \in DOMAIN queue
      /\ \A i \in DOMAIN Tail(queue) : i + 1 \in DOMAIN queue /\ Tail(queue)[i] = queue[i + 1]
      /\ \A j \in DOMAIN queue :
            j # 1 => j - 1 \in DOMAIN Tail(queue) /\ Tail(queue)[j - 1] = queue[j]
      /\ DOMAIN Tail(queue) = 1 .. Len(queue) - 1
  BY <1>1, TailIndices
<1>3. Len(queue) \in Nat /\ \A j \in DOMAIN queue : j # 1 => queue[j] # queue[1]
  BY Numbers
<1>4. \A i \in DOMAIN Tail(queue) : i + 1 # 1
  BY <1>2, <1>3
<1>5. ASSUME NEW i \in DOMAIN Tail(queue)
      PROVE  Tail(queue)[i] \in Kept \ {queue[1]}
  BY <1>2, <1>3, <1>4 DEF Kept
<1>6. ASSUME NEW j \in DOMAIN queue, queue[j] # queue[1]
      PROVE  \E i \in DOMAIN Tail(queue) : queue[j] = Tail(queue)[i]
  BY <1>2, <1>6
<1>. QED BY <1>5, <1>6 DEF Kept

LEMMA StreamInvInit == Init => StreamInv
BY ActorInvInit DEF StreamInv, Ordered, Init, MQInit

LEMMA OrderedStep ==
  ASSUME StreamInv, [Next]_actorVars
  PROVE  Ordered'
<1>. DEFINE D == 1 .. MaxProduced
<1>1. queue \in Seq(D) /\ total_produced \in Nat /\ Ordered
  BY DEF StreamInv, ActorInv, TypeOK
<1>2. \A i \in DOMAIN queue : queue[i] \in Nat /\ i \in Nat
  BY Numbers
<1>. HIDE DEF D
<1>3. ASSUME queue # <<>>, queue' = Tail(queue), total_produced' = total_produced
      PROVE  Ordered'
  BY <1>1, <1>2, <1>3, TailIndices DEF Ordered
<1>4. CASE Put
  <2>1. \E q \in Seq(D) :
           /\ queue' = Append(q, total_produced + 1)
           /\ \A i, j \in DOMAIN q : i < j => q[i] < q[j]
           /\ \A i \in DOMAIN q : q[i] \in Nat /\ q[i] <= total_produced
    <3>1. CASE QueueFull
      <4>1. queue # <<>>
        BY <3>1, MaxQueueSizeAssumption DEF QueueFull
      <4>2. queue' = Append(Tail(queue), total_produced + 1)
        BY <1>4, <3>1 DEF Put, PutSample, Room
      <4>3. /\ \A i, j \in DOMAIN Tail(queue) : i < j => Tail(queue)[i] < Tail(queue)[j]
            /\ \A i \in DOMAIN Tail(queue) :
                  Tail(queue)[i] \in Nat /\ Tail(queue)[i] <= total_produced
        BY <1>1, <1>2, <4>1, TailIndices DEF Ordered
      <4>. QED BY <1>1, <4>1, <4>2, <4>3, TailIndices
    <3>2. CASE ~QueueFull
      BY <1>1, <1>2, <1>4, <3>2 DEF Put, PutSample, Room, Ordered
    <3>. QED BY <3>1, <3>2
  <2>2. PICK q \in Seq(D) :
           /\ queue' = Append(q, total_produced + 1)
           /\ \A i, j \in DOMAIN q : i < j => q[i] < q[j]
           /\ \A i \in DOMAIN q : q[i] \in Nat /\ q[i] <= total_produced
    BY <2>1
  <2>3. total_produced' = total_produced + 1
    BY <1>4 DEF Put, PutSample
  <2>4. Len(q) \in Nat /\ DOMAIN q = 1 .. Len(q)
    OBVIOUS
  <2>5. \A i \in DOMAIN queue' : queue'[i] <= total_produced'
    BY <1>1, <2>2, <2>3, <2>4, AppendIndices
  <2>6. \A i, j \in DOMAIN queue' : i < j => queue'[i] < queue'[j]
    BY <1>1, <2>2, <2>3, <2>4, AppendIndices
  <2>. QED BY <2>5, <2>6 DEF Ordered
<1>5. ASSUME NEW c \in Consumers, GetSample(c)
      PROVE  Ordered'
  BY <1>3, <1>5 DEF GetSample, TakeSample
<1>6. CASE Clear
  BY <1>6 DEF Clear, ClearQueue, Ordered
<1>7. ASSUME UNCHANGED <<queue, total_produced>>
      PROVE  Ordered'
  BY <1>1, <1>7 DEF Ordered
<1>8. ASSUME NEW c \in Consumers, GetWaits(c) \/ GetClosed(c)
      PROVE  Ordered'
  BY <1>7, <1>8 DEF GetWaits, GetClosed, mqVars
<1>9. CASE Shutdown \/ PutValidate \/ GetValidate \/ UNCHANGED actorVars
  BY <1>7, <1>9 DEF Shutdown, PutValidate, GetValidate, actorVars, mqVars
<1>. QED BY <1>4, <1>5, <1>6, <1>8, <1>9 DEF Next

LEMMA StreamInvStep ==
  ASSUME StreamInv, [Next]_actorVars
  PROVE  StreamInv'
BY ActorInvStep, OrderedStep DEF StreamInv

-----------------------------------------------------------------------------
(* Every step of the actor is a step of the stream or leaves it alone *)

streamVars == <<total_produced, Kept, received, ~running>>

\* The abstract module counts as this one does.
LEMMA SameCardinality == \A S : Stream!Cardinality(S) = Cardinality(S)
BY Zenon DEF Stream!Cardinality, Cardinality

\* A production over the capacity loses the oldest sample.
LEMMA PutProduces ==
  ASSUME StreamInv, Put
  PROVE  Stream!Produce
<1>1. queue \in Seq(1 .. MaxProduced) /\ Len(queue) \in Nat
  BY DEF StreamInv, ActorInv, TypeOK
<1>2. Cardinality(Kept) = Len(queue)
  BY KeptOfOrdered
<1>3. total_produced' = total_produced + 1 /\ UNCHANGED <<received, ~running>>
  <2>1. total_produced' = total_produced + 1
    BY DEF Put, PutSample
  <2>2. UNCHANGED <<received, ~running>>
    BY Zenon DEF Put
  <2>. QED BY <2>1, <2>2
<1>4. CASE QueueFull
  <2>1. queue # <<>>
    BY <1>4, MaxQueueSizeAssumption DEF QueueFull
  <2>2. queue' = Append(Tail(queue), total_produced + 1)
    BY <1>4 DEF Put, PutSample, Room
  <2>3. Stream!Min(Kept) = queue[1]
    BY <1>1, <2>1, KeptOfOrdered, TailIndices
  <2>4. {Tail(queue)[i] : i \in DOMAIN Tail(queue)} = Kept \ {queue[1]}
    BY <2>1, TailKept
  <2>5. Kept' = (Kept \ {queue[1]}) \union {total_produced + 1}
    <3>1. Tail(queue) \in Seq(1 .. MaxProduced)
      BY <1>1, <2>1, TailIndices
    <3>2. Kept' = {Tail(queue)[i] : i \in DOMAIN Tail(queue)} \union {total_produced + 1}
      BY <2>2, <3>1, AppendIndices DEF Kept
    <3>. QED BY <2>4, <3>2
  <2>6. ~(Cardinality(Kept) < MaxQueueSize)
    BY <1>1, <1>2, <1>4, MaxQueueSizeAssumption DEF QueueFull
  <2>. QED BY <1>3, <2>3, <2>5, <2>6, SameCardinality, Zenon DEF Stream!Produce
<1>5. CASE ~QueueFull
  <2>1. queue' = Append(queue, total_produced + 1)
    BY <1>5 DEF Put, PutSample, Room
  <2>2. Kept' = Kept \union {total_produced + 1}
    BY <1>1, <2>1, AppendIndices DEF Kept
  <2>3. Cardinality(Kept) < MaxQueueSize
    BY <1>1, <1>2, <1>5, MaxQueueSizeAssumption DEF QueueFull
  <2>. QED BY <1>3, <2>2, <2>3, SameCardinality, Zenon DEF Stream!Produce
<1>. QED BY <1>4, <1>5

\* A get_sample hands out the oldest sample kept.
LEMMA GetDelivers ==
  ASSUME StreamInv, NEW c \in Consumers, GetSample(c)
  PROVE  Stream!Deliver(c)
<1>1. queue \in Seq(1 .. MaxProduced) /\ queue # <<>>
  BY DEF StreamInv, ActorInv, TypeOK, GetSample
<1>2. Kept # {} /\ Stream!Min(Kept) = Head(queue) /\ Head(queue) = queue[1]
  BY <1>1, KeptOfOrdered, TailIndices
<1>3. queue' = Tail(queue)
  BY DEF GetSample, TakeSample
<1>4. Kept' = {Tail(queue)[i] : i \in DOMAIN Tail(queue)}
  BY <1>3 DEF Kept
<1>5. Kept' = Kept \ {queue[1]}
  BY <1>1, <1>4, TailKept
<1>. QED BY <1>2, <1>5 DEF Stream!Deliver, GetSample, TakeSample

LEMMA StepOfStream ==
  ASSUME StreamInv, [Next]_actorVars
  PROVE  [Stream!Next]_streamVars
<1>1. CASE Put
  BY <1>1, PutProduces DEF Stream!Next
<1>2. ASSUME NEW c \in Consumers, GetSample(c)
      PROVE  Stream!Next
  BY <1>2, GetDelivers DEF Stream!Next
<1>3. CASE Clear
  BY <1>3 DEF Clear, ClearQueue, Kept, Stream!Next, Stream!Clear
<1>4. CASE Shutdown
  BY <1>4 DEF Shutdown, mqVars, Kept, Stream!Next, Stream!Close
<1>5. ASSUME NEW c \in Consumers, GetWaits(c) \/ GetClosed(c)
      PROVE  UNCHANGED streamVars
  BY <1>5 DEF GetWaits, GetClosed, mqVars, Kept, streamVars
<1>6. CASE PutValidate \/ GetValidate \/ UNCHANGED actorVars
  BY <1>6 DEF PutValidate, GetValidate, actorVars, mqVars, Kept, streamVars
<1>. QED BY <1>1, <1>2, <1>3, <1>4, <1>5, <1>6 DEF Next

\* The queue actor of message_queue.py, with its deque, its blocked callers and its
\* evictions, is the stream of the latest max_queue_size samples.
THEOREM ImplementsSampleStream == Spec => ImplementsStream
<1>1. Init => Stream!Init
  BY DEF Init, MQInit, Kept, Stream!Init
<1>2. StreamInv /\ [Next]_actorVars => [Stream!Next]_streamVars
  BY StepOfStream
<1>3. Spec => []StreamInv
  BY StreamInvInit, StreamInvStep, PTL DEF Spec
<1>. QED BY <1>1, <1>2, <1>3, PTL DEF Spec, ImplementsStream, Stream!Spec, streamVars
=============================================================================
