----------------------- MODULE WorkerGroupCallProofs -----------------------
(***************************************************************************)
(* Proofs about a worker group's call, for any batch and any mesh: the     *)
(* data-parallel ranks get as many rows and about as much work; the        *)
(* workers cut their rows into as many micro-batches and never all wait;   *)
(* and each row comes back in its place and is trained on once an epoch.   *)
(***************************************************************************)
EXTENDS WorkerGroupCall, SequenceFacts

\* The number of data-parallel ranks is a positive natural number.
LEMMA DpSizeType == DpSize \in Nat \ {0}
BY MeshAssumption DEF DpSize

\* Workloads are natural numbers.
LEMMA WorkloadType ==
    ASSUME seqlen \in Batches
    PROVE  Workload \in [Rows -> Nat]
<1>1. seqlen \in [Rows -> Nat \ {0}]
  BY BatchAssumption
<1>2. ASSUME NEW r \in Rows PROVE calculate_workload(seqlen[r]) \in Nat
  <2>1. seqlen[r] \in Nat
    BY <1>1
  <2>. QED  BY <2>1 DEF calculate_workload
<1>. QED  BY <1>2 DEF Workload

-----------------------------------------------------------------------------
(* A state of the method *)

SetType == [sum : Int, items : Seq(Rows)]

StateType(s) == s \in [1 .. DpSize -> SetType]

Descending(s) == \A i, j \in 1 .. DpSize : i <= j => s[j].sum <= s[i].sum

\* No two of its sets differ by more than two rows of a chunk do.
Level(s) ==
    \A d, e \in 1 .. DpSize :
        \E r, t \in Rows : SameChunk(r, t) /\ s[d].sum - s[e].sum <= Workload[r] - Workload[t]

Sound(s) == StateType(s) /\ Descending(s) /\ Level(s)

\* The order of sets respects their sums.
LEMMA BelowBySum ==
    ASSUME NEW a \in SetType, NEW b \in SetType
    PROVE  /\ SetBelow(a, b) => a.sum <= b.sum
           /\ ~SetBelow(a, b) => b.sum <= a.sum
<1>1. a.sum \in Int /\ b.sum \in Int
  BY DEF SetType
<1>. QED  BY <1>1 DEF SetBelow

\* Sorting keeps the sets and puts their sums in descending order.
LEMMA SortedSound ==
    ASSUME NEW sets \in [1 .. DpSize -> SetType], NEW m \in Sorted(sets, DpSize)
    PROVE  /\ StateType(m) /\ Descending(m)
           /\ \A d \in 1 .. DpSize : \E i \in 1 .. DpSize : m[d] = sets[i]
<1>1. PICK p \in Bijection(1 .. DpSize, 1 .. DpSize) : m = [i \in 1 .. DpSize |-> sets[p[i]]]
  BY DEF Sorted
<1>2. p \in [1 .. DpSize -> 1 .. DpSize]
  BY <1>1 DEF Bijection, Injection
<1>3. StateType(m) /\ \A d \in 1 .. DpSize : \E i \in 1 .. DpSize : m[d] = sets[i]
  BY <1>1, <1>2 DEF StateType
<1>4. ASSUME NEW i \in 1 .. DpSize, NEW j \in 1 .. DpSize, i <= j PROVE m[j].sum <= m[i].sum
  <2>0. m[i] \in SetType /\ m[j] \in SetType /\ i \in Int /\ j \in Int
    BY <1>3, DpSizeType DEF StateType
  <2>1. m[i].sum \in Int
    BY <2>0 DEF SetType
  <2>2. i < j => ~SetBelow(m[i], m[j])
    BY DEF Sorted, Decreasing
  <2>3. i < j \/ i = j
    BY <1>4, <2>0
  <2>. QED  BY <2>0, <2>1, <2>2, <2>3, BelowBySum
<1>. QED  BY <1>3, <1>4 DEF Descending

\* Merging the largest sets of one state with the smallest of the other leaves no
\* more imbalance than one of the two had.
LEMMA MergedSound ==
    ASSUME seqlen \in Batches,
           NEW a, Sound(a), NEW b, Sound(b),
           NEW m \in Merged(a, b, DpSize)
    PROVE  Sound(m)
<1>. DEFINE opposite(i) == DpSize + 1 - i
            sets == [i \in 1 .. DpSize |-> MergedSet(a[i], b[opposite(i)])]
<1>1. \A i \in 1 .. DpSize : opposite(i) \in 1 .. DpSize
  BY DpSizeType
<1>2. a \in [1 .. DpSize -> SetType] /\ b \in [1 .. DpSize -> SetType]
  BY DEF Sound, StateType
<1>3. \A i \in 1 .. DpSize : a[i].sum \in Int /\ b[i].sum \in Int
  BY <1>2 DEF SetType
<1>4. \A i \in 1 .. DpSize : sets[i] \in SetType /\ sets[i].sum = a[i].sum + b[opposite(i)].sum
  <2> SUFFICES ASSUME NEW i \in 1 .. DpSize
               PROVE  sets[i] \in SetType /\ sets[i].sum = a[i].sum + b[opposite(i)].sum
    OBVIOUS
  <2>1. a[i] \in SetType /\ b[opposite(i)] \in SetType
    BY <1>1, <1>2
  <2>2. a[i].items \o b[opposite(i)].items \in Seq(Rows)
    BY <2>1 DEF SetType
  <2>. QED  BY <1>1, <1>3, <2>2 DEF MergedSet, SetType
<1>5. m \in Sorted(sets, DpSize)
  BY DEF Merged
<1>6. sets \in [1 .. DpSize -> SetType]
  BY <1>4
<1>. HIDE DEF sets
<1>7. /\ StateType(m) /\ Descending(m)
      /\ \A d \in 1 .. DpSize : \E i \in 1 .. DpSize : m[d] = sets[i]
  BY <1>5, <1>6, SortedSound
<1>8. ASSUME NEW d \in 1 .. DpSize, NEW e \in 1 .. DpSize
      PROVE  \E r, t \in Rows : SameChunk(r, t) /\ m[d].sum - m[e].sum <= Workload[r] - Workload[t]
  <2>1. PICK i \in 1 .. DpSize, j \in 1 .. DpSize : m[d] = sets[i] /\ m[e] = sets[j]
    BY <1>7
  <2>2. m[d].sum - m[e].sum = (a[i].sum - a[j].sum) + (b[opposite(i)].sum - b[opposite(j)].sum)
    BY <1>1, <1>3, <1>4, <2>1
  <2>3. opposite(i) \in 1 .. DpSize /\ opposite(j) \in 1 .. DpSize
    BY <1>1
  <2>4. Workload \in [Rows -> Nat]
    BY WorkloadType
  <2>5. CASE i <= j
    <3>1. b[opposite(i)].sum <= b[opposite(j)].sum
      <4>1. opposite(j) <= opposite(i)
        BY <2>5, DpSizeType
      <4>. QED  BY <2>3, <4>1 DEF Sound, Descending
    <3>2. PICK r \in Rows, t \in Rows :
             SameChunk(r, t) /\ a[i].sum - a[j].sum <= Workload[r] - Workload[t]
      BY DEF Sound, Level
    <3>3. m[d].sum - m[e].sum <= Workload[r] - Workload[t]
      BY <1>3, <2>2, <2>3, <2>4, <3>1, <3>2
    <3>. QED  BY <3>2, <3>3
  <2>6. CASE j < i
    <3>1. a[i].sum <= a[j].sum
      BY <2>6 DEF Sound, Descending
    <3>2. PICK r \in Rows, t \in Rows :
             /\ SameChunk(r, t)
             /\ b[opposite(i)].sum - b[opposite(j)].sum <= Workload[r] - Workload[t]
      BY <2>3 DEF Sound, Level
    <3>3. m[d].sum - m[e].sum <= Workload[r] - Workload[t]
      BY <1>3, <2>2, <2>3, <2>4, <3>1, <3>2
    <3>. QED  BY <3>2, <3>3
  <2>. QED  BY <2>5, <2>6
<1>. QED  BY <1>7, <1>8 DEF Sound, Level

\* A chunk's state holds one row of the chunk in each of its sets.
LEMMA ChunkSound ==
    ASSUME seqlen \in Batches, NEW n \in 0 .. RowsPerRank - 1,
           NEW s \in StatesOfChunk(Workload, ChunkAt(Workload, DpSize * n, DpSize), DpSize)
    PROVE  Sound(s)
<1>. DEFINE chunk == ChunkAt(Workload, DpSize * n, DpSize)
<1>1. Workload \in [Rows -> Nat]
  BY WorkloadType
<1>2. s \in [1 .. DpSize -> {Singleton(Workload, r) : r \in chunk}]
  BY DEF StatesOfChunk
<1>3. chunk \subseteq Rows
  BY <1>1 DEF ChunkAt
<1>. HIDE DEF chunk
<1>4. ASSUME NEW i \in 1 .. DpSize
      PROVE  s[i] \in SetType /\ \E r \in chunk : s[i].sum = Workload[r]
  <2>1. PICK r \in chunk : s[i] = Singleton(Workload, r)
    BY <1>2
  <2>2. Workload[r] \in Int /\ r \in Rows /\ <<r>> \in Seq(Rows)
    BY <1>1, <1>3
  <2>. QED  BY <2>1, <2>2 DEF Singleton, SetType
<1>5. StateType(s)
  BY <1>2, <1>4 DEF StateType
<1>6. Descending(s)
  <2> SUFFICES ASSUME NEW i \in 1 .. DpSize, NEW j \in 1 .. DpSize, i <= j
               PROVE  s[j].sum <= s[i].sum
    BY DEF Descending
  <2>1. s[i] \in SetType /\ s[j] \in SetType /\ i \in Int /\ j \in Int
    BY <1>4, DpSizeType
  <2>2. s[i].sum \in Int
    BY <2>1 DEF SetType
  <2>3. i < j => SetBelow(s[j], s[i])
    BY DEF StatesOfChunk
  <2>4. i < j \/ i = j
    BY <2>1
  <2>. QED  BY <2>1, <2>2, <2>3, <2>4, BelowBySum
<1>7. Level(s)
  <2> SUFFICES ASSUME NEW d \in 1 .. DpSize, NEW e \in 1 .. DpSize
               PROVE  \E r, t \in Rows :
                         SameChunk(r, t) /\ s[d].sum - s[e].sum <= Workload[r] - Workload[t]
    BY DEF Level
  <2>1. PICK r \in chunk, t \in chunk : s[d].sum = Workload[r] /\ s[e].sum = Workload[t]
    BY <1>4
  <2>2. SameChunk(r, t)
    BY DEF SameChunk, chunk
  <2>. QED  BY <1>1, <1>3, <2>1, <2>2
<1>. QED  BY <1>5, <1>6, <1>7 DEF Sound

-----------------------------------------------------------------------------
(* The heap *)

\* While _balance_batch pushes states there is another chunk to push.
HeapInv ==
    /\ seqlen \in Batches
    /\ IsFiniteSet(states_pq)
    /\ driver = "push" => Cardinality(states_pq) < RowsPerRank
    /\ \A s \in states_pq : Sound(s)

\* The number of rows of a rank is a positive natural number.
LEMMA RowsPerRankType == RowsPerRank \in Nat \ {0}
BY BatchAssumption, DpSizeType DEF RowsPerRank

\* Whether a state is sound depends on the lengths of the rows alone.
LEMMA SoundStable == seqlen' = seqlen => \A t : Sound(t)' <=> Sound(t)
BY DEF Sound, StateType, Descending, Level, Workload, SameChunk

\* Every step keeps the heap's states sound.
LEMMA HeapStep == HeapInv /\ [Next]_vars => HeapInv'
<1> SUFFICES ASSUME HeapInv, [Next]_vars PROVE HeapInv'
  OBVIOUS
<1>. USE DEF HeapInv
<1>1. CASE PushState
  <2>. DEFINE n == Cardinality(states_pq)
  <2>1. PICK s \in StatesOfChunk(Workload, ChunkAt(Workload, DpSize * n, DpSize), DpSize) :
           states_pq' = states_pq \cup {s}
    BY <1>1 DEF PushState
  <2>2. n \in 0 .. RowsPerRank - 1
    BY <1>1, FS_CardinalityType, RowsPerRankType DEF PushState
  <2>3. Sound(s)
    BY <2>1, <2>2, ChunkSound
  <2>4. seqlen' = seqlen
    BY <1>1 DEF PushState
  <2>5. IsFiniteSet(states_pq') /\ Cardinality(states_pq') \in {n, n + 1}
    BY <2>1, FS_AddElement
  <2>6. driver' = "push" => Cardinality(states_pq') < RowsPerRank
    BY <1>1, <2>2, <2>5, RowsPerRankType DEF PushState
  <2>. QED  BY <2>1, <2>3, <2>4, <2>5, <2>6, SoundStable
<1>2. CASE MergeStates
  <2>1. seqlen' = seqlen /\ driver = "merge" /\ driver' = driver
    BY <1>2 DEF MergeStates
  <2>2. PICK a, b, m :
           /\ a \in states_pq /\ b \in states_pq /\ m \in Merged(a, b, DpSize)
           /\ states_pq' = (states_pq \ {a, b}) \cup {m}
    BY <1>2 DEF MergeStates, MergedHeaps, Popped
  <2>3. Sound(m)
    BY <2>2, MergedSound
  <2>4. IsFiniteSet(states_pq \ {a, b})
    BY FS_Subset
  <2>5. IsFiniteSet(states_pq')
    BY <2>2, <2>4, FS_AddElement
  <2>. QED  BY <2>1, <2>2, <2>3, <2>5, SoundStable
<1>3. CASE UNCHANGED <<seqlen, states_pq>> /\ driver' # "push"
  BY <1>3, SoundStable
<1>4. CASE UNCHANGED <<seqlen, states_pq, driver>>
  BY <1>4, SoundStable
<1>5. CASE seqlen' = seqlen /\ states_pq' = {} /\ driver' # "push"
  BY <1>5, FS_EmptySet
<1>6. \/ PushState \/ MergeStates
      \/ seqlen' = seqlen /\ states_pq' = {} /\ driver' # "push"
      \/ UNCHANGED <<seqlen, states_pq>> /\ driver' # "push"
      \/ UNCHANGED <<seqlen, states_pq, driver>>
  BY DEF Next, DriverStep, Collectives, WorkerStep, Reorder, CollectLogProbs, CollectUpdate, CallRaises,
         Call, Forward, OptimizerStep, ReduceMetrics, ReturnNone, Finish, CountTokens, CheckLengths,
         Agree, Partition, vars, driverVars
<1>. QED  BY <1>1, <1>2, <1>3, <1>4, <1>5, <1>6

\* The heap's states are sound in every reachable state.
LEMMA HeapInvariant == Spec => []HeapInv
<1>1. Init => HeapInv
  BY RowsPerRankType, FS_EmptySet DEF Init, HeapInv
<1>. QED  BY <1>1, HeapStep, PTL DEF Spec

\* Karmarkar-Karp never leaves two ranks further apart than two rows of a chunk
\* are, for any batch, any number of ranks and of rows per rank.
THEOREM BalanceSafe == Spec => []Balanced
<1>1. HeapInv => Balanced
  BY DEF HeapInv, Sound, Level, Balanced
<1>. QED  BY <1>1, HeapInvariant, PTL

-----------------------------------------------------------------------------
(* Sets of rows in order *)

\* Python orders lists of numbers of one length by the first that differs: an order.
LEMMA LexicographicOrder ==
  ASSUME NEW n \in Nat
  PROVE  /\ \A s \in [1 .. n -> Nat] : ~LexicographicallyBelow(s, s)
         /\ \A s, t \in [1 .. n -> Nat] :
               s # t => LexicographicallyBelow(s, t) \/ LexicographicallyBelow(t, s)
         /\ \A s, t, u \in [1 .. n -> Nat] :
               LexicographicallyBelow(s, t) /\ LexicographicallyBelow(t, u)
                 => LexicographicallyBelow(s, u)
<1>1. ASSUME NEW s \in [1 .. n -> Nat] PROVE ~LexicographicallyBelow(s, s)
  BY DEF LexicographicallyBelow
<1>2. ASSUME NEW s \in [1 .. n -> Nat], NEW t \in [1 .. n -> Nat], s # t
      PROVE  LexicographicallyBelow(s, t) \/ LexicographicallyBelow(t, s)
  <2>. DEFINE D == {i \in 1 .. n : s[i] # t[i]}
  <2>1. D # {} /\ D \in SUBSET Nat
    BY <1>2
  <2>2. PICK i \in D : \A j \in D : i <= j
    <3>. HIDE DEF D
    <3>. QED BY <2>1, FirstExists
  <2>3. i \in 1 .. n /\ \A j \in 1 .. i - 1 : s[j] = t[j]
    BY <2>2
  <2>4. s[i] < t[i] \/ t[i] < s[i]
    BY <2>2
  <2>. QED BY <2>3, <2>4 DEF LexicographicallyBelow
<1>3. ASSUME NEW s \in [1 .. n -> Nat], NEW t \in [1 .. n -> Nat], NEW u \in [1 .. n -> Nat],
             LexicographicallyBelow(s, t), LexicographicallyBelow(t, u)
      PROVE  LexicographicallyBelow(s, u)
  <2>1. PICK i \in 1 .. n : s[i] < t[i] /\ \A l \in 1 .. i - 1 : s[l] = t[l]
    BY <1>3 DEF LexicographicallyBelow
  <2>2. PICK j \in 1 .. n : t[j] < u[j] /\ \A l \in 1 .. j - 1 : t[l] = u[l]
    BY <1>3 DEF LexicographicallyBelow
  <2>3. CASE i <= j
    <3>1. s[i] < u[i]
      <4>1. t[i] <= u[i]
        <5>1. CASE i = j
          BY <2>2, <5>1
        <5>2. CASE i # j
          <6>1. i \in 1 .. j - 1
            BY <2>3, <5>2
          <6>. QED BY <2>2, <6>1
        <5>. QED BY <5>1, <5>2
      <4>. QED BY <2>1, <4>1
    <3>2. \A l \in 1 .. i - 1 : s[l] = u[l]
      <4>1. \A l \in 1 .. i - 1 : l \in 1 .. j - 1
        BY <2>3
      <4>. QED BY <2>1, <2>2, <4>1
    <3>. QED BY <3>1, <3>2 DEF LexicographicallyBelow
  <2>4. CASE j < i
    <3>1. j \in 1 .. i - 1
      BY <2>4
    <3>2. s[j] < u[j]
      BY <2>1, <2>2, <3>1
    <3>3. \A l \in 1 .. j - 1 : s[l] = u[l]
      <4>1. \A l \in 1 .. j - 1 : l \in 1 .. i - 1
        BY <2>4
      <4>. QED BY <2>1, <2>2, <4>1
    <3>. QED BY <3>2, <3>3 DEF LexicographicallyBelow
  <2>. QED BY <2>3, <2>4
<1>. QED BY <1>1, <1>2, <1>3

SetOver(R) == [sum : Int, items : Seq(R)]

\* What a set of rows consists of
LEMMA SetTypes ==
  ASSUME NEW R \in SUBSET Nat, NEW a \in SetOver(R)
  PROVE  /\ a.sum \in Int /\ a.items \in Seq(R) /\ Len(a.items) \in Nat
         /\ a.items \in [1 .. Len(a.items) -> Nat]
         /\ a = [sum |-> a.sum, items |-> a.items]
<1>1. a.sum \in Int /\ a.items \in Seq(R) /\ a = [sum |-> a.sum, items |-> a.items]
  BY DEF SetOver
<1>2. PICK q \in Seq(R) : q = a.items
  BY <1>1
<1>3. Len(q) \in Nat /\ q \in [1 .. Len(q) -> R]
  OBVIOUS
<1>. QED BY <1>1, <1>2, <1>3

\* Set.__lt__ orders any two sets.
LEMMA SetOrder ==
  ASSUME NEW R \in SUBSET Nat
  PROVE  /\ \A a \in SetOver(R) : ~SetBelow(a, a)
         /\ \A a, b \in SetOver(R) : a # b => SetBelow(a, b) \/ SetBelow(b, a)
         /\ \A a, b, c \in SetOver(R) : SetBelow(a, b) /\ SetBelow(b, c) => SetBelow(a, c)
<1>1. ASSUME NEW a \in SetOver(R) PROVE ~SetBelow(a, a)
  <2>1. a.sum \in Int /\ Len(a.items) \in Nat
    BY SetTypes
  <2>2. ~LexicographicallyBelow(a.items, a.items)
    BY SetTypes, LexicographicOrder
  <2>. QED BY <2>1, <2>2 DEF SetBelow
<1>2. ASSUME NEW a \in SetOver(R), NEW b \in SetOver(R), a # b
      PROVE  SetBelow(a, b) \/ SetBelow(b, a)
  <2>1. a.sum \in Int /\ Len(a.items) \in Nat /\ b.sum \in Int /\ Len(b.items) \in Nat
    BY SetTypes
  <2>2. a.sum # b.sum \/ a.items # b.items
    BY <1>2, SetTypes
  <2>3. ASSUME Len(a.items) = Len(b.items), a.items # b.items
        PROVE  LexicographicallyBelow(a.items, b.items) \/ LexicographicallyBelow(b.items, a.items)
    BY <2>3, SetTypes, LexicographicOrder
  <2>. QED BY <2>1, <2>2, <2>3 DEF SetBelow
<1>3. ASSUME NEW a \in SetOver(R), NEW b \in SetOver(R), NEW c \in SetOver(R),
             SetBelow(a, b), SetBelow(b, c)
      PROVE  SetBelow(a, c)
  <2>1. /\ a.sum \in Int /\ Len(a.items) \in Nat /\ b.sum \in Int /\ Len(b.items) \in Nat
        /\ c.sum \in Int /\ Len(c.items) \in Nat
    BY SetTypes
  <2>2. ASSUME Len(a.items) = Len(b.items), Len(b.items) = Len(c.items),
               LexicographicallyBelow(a.items, b.items), LexicographicallyBelow(b.items, c.items)
        PROVE  LexicographicallyBelow(a.items, c.items)
    BY <2>2, SetTypes, LexicographicOrder
  <2>. QED BY <1>3, <2>1, <2>2 DEF SetBelow
<1>. QED BY <1>1, <1>2, <1>3

\* A state of k sets
StateOver(s, k, R) == s \in [1 .. k -> SetOver(R)]

\* Any k sets can be sorted.
LEMMA SortedExists ==
  ASSUME NEW R \in SUBSET Nat, NEW k \in Nat, NEW sets, StateOver(sets, k, R)
  PROVE  Sorted(sets, k) # {}
<1>. DEFINE Order == {pair \in (1 .. k) \X (1 .. k) :
                        \/ SetBelow(sets[pair[2]], sets[pair[1]])
                        \/ sets[pair[1]] = sets[pair[2]] /\ pair[1] < pair[2]}
<1>1. \A i, j \in 1 .. k : <<i, j>> \in Order <=>
         SetBelow(sets[j], sets[i]) \/ (sets[i] = sets[j] /\ i < j)
  OBVIOUS
<1>. HIDE DEF Order
<1>2. \A i \in 1 .. k : sets[i] \in SetOver(R) /\ i \in Int
  BY DEF StateOver
<1>3. StrictTotalOrder(Order, 1 .. k)
  <2>1. ASSUME NEW i \in 1 .. k PROVE <<i, i>> \notin Order
    BY <1>1, <1>2, SetOrder
  <2>2. ASSUME NEW i \in 1 .. k, NEW j \in 1 .. k, i # j
        PROVE  <<i, j>> \in Order \/ <<j, i>> \in Order
    <3>1. i < j \/ j < i
      BY <2>2
    <3>2. sets[i] = sets[j] \/ SetBelow(sets[j], sets[i]) \/ SetBelow(sets[i], sets[j])
      BY <1>2, SetOrder
    <3>. QED BY <1>1, <3>1, <3>2
  <2>3. ASSUME NEW i \in 1 .. k, NEW j \in 1 .. k, NEW l \in 1 .. k, <<i, j>> \in Order, <<j, l>> \in Order
        PROVE  <<i, l>> \in Order
    <3>1. sets[i] \in SetOver(R) /\ sets[j] \in SetOver(R) /\ sets[l] \in SetOver(R)
      BY <1>2
    <3>2. SetBelow(sets[j], sets[i]) \/ (sets[i] = sets[j] /\ i < j)
      BY <1>1, <2>3
    <3>3. SetBelow(sets[l], sets[j]) \/ (sets[j] = sets[l] /\ j < l)
      BY <1>1, <2>3
    <3>4. SetBelow(sets[l], sets[j]) /\ SetBelow(sets[j], sets[i]) => SetBelow(sets[l], sets[i])
      BY <3>1, SetOrder
    <3>5. i < j /\ j < l => i < l
      OBVIOUS
    <3>. QED BY <1>1, <3>2, <3>3, <3>4, <3>5
  <2>. QED BY <2>1, <2>2, <2>3 DEF StrictTotalOrder
<1>4. PICK p \in Bijection(1 .. k, 1 .. k) : \A i, j \in 1 .. k : i < j => <<p[i], p[j]>> \in Order
  BY <1>3, OrderedPlaces
<1>5. p \in [1 .. k -> 1 .. k]
  BY DEF Bijection, Injection
<1>. DEFINE m == [i \in 1 .. k |-> sets[p[i]]]
<1>6. ASSUME NEW i \in 1 .. k, NEW j \in 1 .. k, i < j PROVE ~SetBelow(m[i], m[j])
  <2>1. m[i] = sets[p[i]] /\ m[j] = sets[p[j]] /\ p[i] \in 1 .. k /\ p[j] \in 1 .. k
    BY <1>5
  <2>2. SetBelow(m[j], m[i]) \/ m[i] = m[j]
    BY <1>1, <1>4, <1>6, <2>1
  <2>3. m[i] \in SetOver(R) /\ m[j] \in SetOver(R)
    BY <1>2, <2>1
  <2>. QED BY <2>2, <2>3, SetOrder
<1>7. m \in Sorted(sets, k)
  BY <1>6 DEF Sorted, Decreasing
<1>. QED BY <1>7

-----------------------------------------------------------------------------
(* The method's states *)

\* The rows of a state's sets, none of them twice
Elements(s, k) == UNION {Range(s[i].items) : i \in 1 .. k}

Clean(s, k) ==
    /\ \A i \in 1 .. k : IsInjective(s[i].items)
    /\ \A i, j \in 1 .. k : i # j => Range(s[i].items) \intersect Range(s[j].items) = {}

\* Only an empty set has no work.
Weighed(s, k) ==
    \A i \in 1 .. k : IF s[i].items = <<>> THEN s[i].sum = 0 ELSE s[i].sum > 0

\* The sets before they are sorted
Paired(a, b, k) == [i \in 1 .. k |-> MergedSet(a[i], b[k + 1 - i])]

\* Combining the sets of two states keeps their rows apart.
LEMMA PairedSets ==
  ASSUME NEW R, NEW k \in Nat, NEW a, StateOver(a, k, R), NEW b, StateOver(b, k, R)
  PROVE  /\ StateOver(Paired(a, b, k), k, R)
         /\ Elements(Paired(a, b, k), k) = Elements(a, k) \union Elements(b, k)
         /\ Clean(a, k) /\ Clean(b, k) /\ Elements(a, k) \intersect Elements(b, k) = {}
              => Clean(Paired(a, b, k), k)
         /\ Weighed(a, k) /\ Weighed(b, k) => Weighed(Paired(a, b, k), k)
<1>. DEFINE sets == Paired(a, b, k)
            opposite(i) == k + 1 - i
<1>1. \A i \in 1 .. k : opposite(i) \in 1 .. k /\ opposite(opposite(i)) = i
  OBVIOUS
<1>2. \A i \in 1 .. k : /\ a[i].sum \in Int /\ a[i].items \in Seq(R)
                        /\ b[i].sum \in Int /\ b[i].items \in Seq(R)
  BY DEF StateOver, SetOver
<1>3. ASSUME NEW i \in 1 .. k
      PROVE  /\ sets[i].sum = a[i].sum + b[opposite(i)].sum
             /\ sets[i].items = a[i].items \o b[opposite(i)].items
             /\ sets[i] \in SetOver(R)
             /\ Range(sets[i].items) = Range(a[i].items) \union Range(b[opposite(i)].items)
             /\ IsInjective(a[i].items) /\ IsInjective(b[opposite(i)].items)
                /\ Range(a[i].items) \intersect Range(b[opposite(i)].items) = {}
                  => IsInjective(sets[i].items)
             /\ sets[i].items = <<>> <=> a[i].items = <<>> /\ b[opposite(i)].items = <<>>
  <2>1. PICK q \in Seq(R), r \in Seq(R) : q = a[i].items /\ r = b[opposite(i)].items
    BY <1>1, <1>2
  <2>2. /\ q \o r \in Seq(R)
        /\ Range(q \o r) = Range(q) \union Range(r)
        /\ IsInjective(q) /\ IsInjective(r) /\ Range(q) \intersect Range(r) = {} => IsInjective(q \o r)
    BY JoinElements
  <2>3. sets[i] = [sum |-> a[i].sum + b[opposite(i)].sum, items |-> q \o r]
    BY <2>1 DEF Paired, MergedSet
  <2>4. a[i].sum + b[opposite(i)].sum \in Int
    <3>1. a[i].sum \in Int
      BY <1>2
    <3>2. b[opposite(i)].sum \in Int
      BY <1>1, <1>2
    <3>. QED BY <3>1, <3>2
  <2>5. sets[i] \in SetOver(R)
    BY <2>2, <2>3, <2>4 DEF SetOver
  <2>6. q \o r = <<>> <=> q = <<>> /\ r = <<>>
    OBVIOUS
  <2>. HIDE DEF sets
  <2>7. sets[i].sum = a[i].sum + b[opposite(i)].sum /\ sets[i].items = q \o r
    BY <2>3
  <2>8. sets[i].items = a[i].items \o b[opposite(i)].items
    BY <2>1, <2>7
  <2>9. /\ Range(sets[i].items) = Range(a[i].items) \union Range(b[opposite(i)].items)
        /\ IsInjective(a[i].items) /\ IsInjective(b[opposite(i)].items)
                /\ Range(a[i].items) \intersect Range(b[opposite(i)].items) = {}
                  => IsInjective(sets[i].items)
    BY <2>1, <2>2, <2>7, Zenon
  <2>10. sets[i].items = <<>> <=> a[i].items = <<>> /\ b[opposite(i)].items = <<>>
    BY <2>1, <2>6, <2>7, Zenon
  <2>. QED BY <2>5, <2>7, <2>8, <2>9, <2>10, Zenon
<1>4. DOMAIN sets = 1 .. k /\ sets = [i \in 1 .. k |-> sets[i]]
  BY DEF Paired
<1>. HIDE DEF sets, opposite
<1>5. StateOver(sets, k, R)
  BY <1>3, <1>4 DEF StateOver
<1>6. Elements(sets, k) = Elements(a, k) \union Elements(b, k)
  <2>1. ASSUME NEW x \in Elements(sets, k) PROVE x \in Elements(a, k) \union Elements(b, k)
    <3>1. PICK i \in 1 .. k : x \in Range(sets[i].items)
      BY DEF Elements
    <3>2. x \in Range(a[i].items) \/ x \in Range(b[opposite(i)].items)
      BY <1>3, <3>1
    <3>. QED BY <1>1, <3>2 DEF Elements
  <2>2. ASSUME NEW x \in Elements(a, k) PROVE x \in Elements(sets, k)
    <3>1. PICK i \in 1 .. k : x \in Range(a[i].items)
      BY DEF Elements
    <3>2. x \in Range(sets[i].items)
      BY <1>3, <3>1
    <3>. QED BY <3>2 DEF Elements
  <2>3. ASSUME NEW x \in Elements(b, k) PROVE x \in Elements(sets, k)
    <3>1. PICK i \in 1 .. k : x \in Range(b[i].items)
      BY DEF Elements
    <3>2. x \in Range(sets[opposite(i)].items) /\ opposite(i) \in 1 .. k
      BY <1>1, <1>3, <3>1
    <3>. QED BY <3>2 DEF Elements
  <2>. QED BY <2>1, <2>2, <2>3
<1>7. ASSUME Clean(a, k), Clean(b, k), Elements(a, k) \intersect Elements(b, k) = {}
      PROVE  Clean(sets, k)
  <2>1. \A i, j \in 1 .. k : Range(a[i].items) \intersect Range(b[j].items) = {}
    BY <1>7 DEF Elements
  <2>2. ASSUME NEW i \in 1 .. k PROVE IsInjective(sets[i].items)
    BY <1>1, <1>3, <1>7, <2>1 DEF Clean
  <2>3. ASSUME NEW i \in 1 .. k, NEW j \in 1 .. k, i # j
        PROVE  Range(sets[i].items) \intersect Range(sets[j].items) = {}
    <3>1. opposite(i) # opposite(j) /\ opposite(i) \in 1 .. k /\ opposite(j) \in 1 .. k
      BY <1>1, <2>3
    <3>2. /\ Range(a[i].items) \intersect Range(a[j].items) = {}
          /\ Range(b[opposite(i)].items) \intersect Range(b[opposite(j)].items) = {}
      BY <1>7, <2>3, <3>1 DEF Clean
    <3>3. /\ Range(a[i].items) \intersect Range(b[opposite(j)].items) = {}
          /\ Range(a[j].items) \intersect Range(b[opposite(i)].items) = {}
      BY <2>1, <3>1
    <3>4. /\ Range(sets[i].items) = Range(a[i].items) \union Range(b[opposite(i)].items)
          /\ Range(sets[j].items) = Range(a[j].items) \union Range(b[opposite(j)].items)
      BY <1>3
    <3>. QED BY <3>2, <3>3, <3>4
  <2>. QED BY <2>2, <2>3 DEF Clean
<1>8. ASSUME Weighed(a, k), Weighed(b, k) PROVE Weighed(sets, k)
  <2>. SUFFICES ASSUME NEW i \in 1 .. k
                PROVE  IF sets[i].items = <<>> THEN sets[i].sum = 0 ELSE sets[i].sum > 0
    BY DEF Weighed
  <2>1. PICK x, y, z : x = a[i] /\ y = b[opposite(i)] /\ z = sets[i]
    OBVIOUS
  <2>2. /\ x.items = <<>> => x.sum = 0
        /\ x.items # <<>> => x.sum > 0
    BY <1>8, <2>1 DEF Weighed
  <2>3. /\ y.items = <<>> => y.sum = 0
        /\ y.items # <<>> => y.sum > 0
    BY <1>1, <1>8, <2>1 DEF Weighed
  <2>4. x.sum \in Int /\ y.sum \in Int
    BY <1>1, <1>2, <2>1
  <2>5. z.items = <<>> <=> x.items = <<>> /\ y.items = <<>>
    BY <1>3, <2>1, Zenon
  <2>6. z.sum = x.sum + y.sum
    BY <1>3, <2>1, Zenon
  <2>7. CASE x.items = <<>> /\ y.items = <<>>
    BY <2>1, <2>2, <2>3, <2>5, <2>6, <2>7
  <2>8. CASE ~(x.items = <<>> /\ y.items = <<>>)
    <3>1. x.sum + y.sum > 0
      BY <2>2, <2>3, <2>4, <2>8
    <3>. QED BY <2>1, <2>5, <2>6, <2>8, <3>1
  <2>. QED BY <2>7, <2>8
<1>. QED BY <1>5, <1>6, <1>7, <1>8 DEF sets

\* Sorting puts the same sets at other places.
LEMMA SortedSets ==
  ASSUME NEW R, NEW k \in Nat, NEW sets, StateOver(sets, k, R), NEW m \in Sorted(sets, k)
  PROVE  /\ StateOver(m, k, R) /\ Elements(m, k) = Elements(sets, k)
         /\ Clean(sets, k) => Clean(m, k)
         /\ Weighed(sets, k) => Weighed(m, k)
         /\ Decreasing(m, k)
<1>1. PICK p \in Bijection(1 .. k, 1 .. k) : m = [i \in 1 .. k |-> sets[p[i]]]
  BY DEF Sorted
<1>2. /\ p \in [1 .. k -> 1 .. k]
      /\ \A i, j \in 1 .. k : p[i] = p[j] => i = j
      /\ \A j \in 1 .. k : \E i \in 1 .. k : p[i] = j
  BY DEF Bijection, Injection, Surjection, IsInjective
<1>3. \A i \in 1 .. k : m[i] = sets[p[i]] /\ p[i] \in 1 .. k
  BY <1>1, <1>2
<1>4. StateOver(m, k, R)
  BY <1>1, <1>2 DEF StateOver
<1>5. Elements(m, k) = Elements(sets, k)
  <2>1. Elements(m, k) \subseteq Elements(sets, k)
    BY <1>3 DEF Elements
  <2>2. ASSUME NEW j \in 1 .. k PROVE Range(sets[j].items) \subseteq Elements(m, k)
    <3>1. PICK i \in 1 .. k : p[i] = j
      BY <1>2
    <3>. QED BY <1>3, <3>1 DEF Elements
  <2>3. Elements(sets, k) \subseteq Elements(m, k)
    BY <2>2 DEF Elements
  <2>. QED BY <2>1, <2>3
<1>6. ASSUME Clean(sets, k) PROVE Clean(m, k)
  <2>1. \A i \in 1 .. k : IsInjective(m[i].items)
    BY <1>3, <1>6 DEF Clean
  <2>2. ASSUME NEW i \in 1 .. k, NEW j \in 1 .. k, i # j
        PROVE  Range(m[i].items) \intersect Range(m[j].items) = {}
    <3>1. p[i] # p[j]
      BY <1>2, <2>2
    <3>2. Range(sets[p[i]].items) \intersect Range(sets[p[j]].items) = {}
      BY <1>3, <1>6, <3>1 DEF Clean
    <3>. QED BY <1>3, <3>2
  <2>. QED BY <2>1, <2>2 DEF Clean
<1>7. Weighed(sets, k) => Weighed(m, k)
  BY <1>3 DEF Weighed
<1>8. Decreasing(m, k)
  BY DEF Sorted
<1>. QED BY <1>3, <1>4, <1>5, <1>6, <1>7, <1>8

(* The sets that are not empty come first, and they are as many as there are rows *)

Filled(s, k) == \A i \in 1 .. k : i <= Cardinality(Elements(s, k)) => s[i].items # <<>>

\* The method's states of sets of rows of R
GoodState(s, k, R) ==
    /\ StateOver(s, k, R) /\ Clean(s, k) /\ Weighed(s, k) /\ Filled(s, k)
    /\ IsFiniteSet(Elements(s, k)) /\ Elements(s, k) # {}

\* Merging two states without common rows gives one over the rows of both.
LEMMA MergedGood ==
  ASSUME NEW R \in SUBSET Nat, NEW k \in Nat,
         NEW a, GoodState(a, k, R), NEW b, GoodState(b, k, R),
         Elements(a, k) \intersect Elements(b, k) = {},
         NEW m \in Merged(a, b, k)
  PROVE  GoodState(m, k, R) /\ Elements(m, k) = Elements(a, k) \union Elements(b, k)
<1>. DEFINE sets == Paired(a, b, k)
            A == Cardinality(Elements(a, k))
            B == Cardinality(Elements(b, k))
<1>1. m \in Sorted(sets, k)
  BY DEF Merged, Paired
<1>2. /\ StateOver(sets, k, R) /\ Clean(sets, k) /\ Weighed(sets, k)
      /\ Elements(sets, k) = Elements(a, k) \union Elements(b, k)
  BY PairedSets DEF GoodState
<1>. HIDE DEF sets
<1>3. /\ StateOver(m, k, R) /\ Clean(m, k) /\ Weighed(m, k) /\ Decreasing(m, k)
      /\ Elements(m, k) = Elements(a, k) \union Elements(b, k)
  BY <1>1, <1>2, SortedSets
<1>4. /\ IsFiniteSet(Elements(m, k)) /\ Elements(m, k) # {}
      /\ A \in Nat /\ B \in Nat /\ Cardinality(Elements(m, k)) = A + B
  <2>1. /\ IsFiniteSet(Elements(a, k)) /\ IsFiniteSet(Elements(b, k)) /\ Elements(a, k) # {}
    BY DEF GoodState
  <2>2. Cardinality(Elements(a, k) \intersect Elements(b, k)) = 0
    BY FS_EmptySet
  <2>3. A \in Nat /\ B \in Nat
    BY <2>1, FS_CardinalityType
  <2>4. /\ IsFiniteSet(Elements(m, k))
        /\ Cardinality(Elements(m, k)) = A + B - Cardinality(Elements(a, k) \intersect Elements(b, k))
    BY <1>3, <2>1, FS_Union
  <2>. QED BY <1>3, <2>1, <2>2, <2>3, <2>4
<1>5. PICK p \in Bijection(1 .. k, 1 .. k) : m = [i \in 1 .. k |-> sets[p[i]]]
  BY <1>1 DEF Sorted
<1>6. /\ p \in [1 .. k -> 1 .. k]
      /\ \A i, j \in 1 .. k : p[i] = p[j] => i = j
  BY DEF Bijection, Injection, IsInjective

\* The places of empty sets before sorting
<1>7. ASSUME NEW i \in 1 .. k, sets[i].items = <<>> PROVE i \in A + 1 .. k - B
  <2>1. k + 1 - i \in 1 .. k
    OBVIOUS
  <2>2. a[i].items \in Seq(R) /\ b[k + 1 - i].items \in Seq(R)
    BY <2>1 DEF GoodState, StateOver, SetOver
  <2>3. sets[i].items = a[i].items \o b[k + 1 - i].items
    BY DEF sets, Paired, MergedSet
  <2>4. PICK q \in Seq(R), r \in Seq(R) : q = a[i].items /\ r = b[k + 1 - i].items
    BY <2>2
  <2>5. q \o r = <<>>
    BY <1>7, <2>3, <2>4
  <2>6. q = <<>> /\ r = <<>>
    BY <2>5
  <2>7. ~(i <= A) /\ ~(k + 1 - i <= B)
    BY <2>1, <2>4, <2>6 DEF GoodState, Filled
  <2>. QED BY <1>4, <2>7

\* After sorting, nothing but empty sets follows an empty set.
<1>8. ASSUME NEW i \in 1 .. k, NEW j \in 1 .. k, i <= j, m[i].items = <<>> PROVE m[j].items = <<>>
  <2>1. m[i] \in SetOver(R) /\ m[j] \in SetOver(R)
    BY <1>3 DEF StateOver
  <2>2. m[i].sum = 0 /\ m[i].sum \in Int /\ m[j].sum \in Int
    BY <1>3, <1>8, <2>1, SetTypes DEF Weighed
  <2>3. i = j \/ ~SetBelow(m[i], m[j])
    BY <1>3, <1>8 DEF Decreasing
  <2>4. i = j \/ m[j].sum <= 0
    BY <2>2, <2>3 DEF SetBelow
  <2>. QED BY <1>3, <1>8, <2>2, <2>4 DEF Weighed
<1>9. ASSUME NEW i \in 1 .. k, i <= A + B, m[i].items = <<>> PROVE FALSE
  <2>. DEFINE f == [j \in i .. k |-> p[j]]
  <2>1. ASSUME NEW j \in i .. k PROVE j \in 1 .. k /\ p[j] \in A + 1 .. k - B
    <3>1. j \in 1 .. k /\ i <= j
      OBVIOUS
    <3>2. m[j].items = <<>>
      BY <1>8, <1>9, <3>1
    <3>3. p[j] \in 1 .. k /\ m[j] = sets[p[j]]
      BY <1>5, <1>6, <3>1
    <3>. QED BY <1>7, <3>1, <3>2, <3>3
  <2>2. f \in [i .. k -> A + 1 .. k - B] /\ \A j \in i .. k : f[j] = p[j]
    BY <2>1
  <2>. HIDE DEF f
  <2>3. /\ IsFiniteSet(i .. k) /\ Cardinality(i .. k) = k - i + 1
        /\ IsFiniteSet(A + 1 .. k - B)
        /\ Cardinality(A + 1 .. k - B) = IF A + 1 > k - B THEN 0 ELSE k - B - A
    <3>1. i \in Int /\ k \in Int /\ A + 1 \in Int /\ k - B \in Int /\ ~(i > k)
      BY <1>4
    <3>2. /\ IsFiniteSet(i .. k) /\ Cardinality(i .. k) = IF i > k THEN 0 ELSE k - i + 1
      BY <3>1, FS_Interval
    <3>3. /\ IsFiniteSet(A + 1 .. k - B)
          /\ Cardinality(A + 1 .. k - B) = IF A + 1 > k - B THEN 0 ELSE (k - B) - (A + 1) + 1
      BY <3>1, FS_Interval
    <3>. QED BY <1>4, <3>1, <3>2, <3>3
  <2>4. Cardinality(A + 1 .. k - B) < Cardinality(i .. k)
    BY <1>4, <1>9, <2>3
  <2>5. \E x, y \in i .. k : x # y /\ f[x] = f[y]
    <3>. DEFINE S == i .. k
                T == A + 1 .. k - B
    <3>1. IsFiniteSet(S) /\ IsFiniteSet(T) /\ Cardinality(T) < Cardinality(S) /\ f \in [S -> T]
      BY <2>2, <2>3, <2>4
    <3>. HIDE DEF S, T
    <3>2. \E x, y \in S : x # y /\ f[x] = f[y]
      BY <3>1, FS_PigeonHole
    <3>. QED BY <3>2 DEF S
  <2>. QED BY <1>6, <2>1, <2>2, <2>5
<1>10. Filled(m, k)
  BY <1>4, <1>9 DEF Filled
<1>. QED BY <1>3, <1>4, <1>10 DEF GoodState

-----------------------------------------------------------------------------
(* Its heap *)

\* A heap of such states, which share no rows
GoodHeap(H, k, R) ==
    /\ IsFiniteSet(H) /\ H # {}
    /\ \A s \in H : GoodState(s, k, R)
    /\ \A s, t \in H : s # t => Elements(s, k) \intersect Elements(t, k) = {}

HeapElements(H, k) == UNION {Elements(s, k) : s \in H}

\* The first set of a good state is not empty: states that share no rows differ in it.
LEMMA FirstSet ==
  ASSUME NEW R \in SUBSET Nat, NEW k \in Nat \ {0}, NEW s, GoodState(s, k, R)
  PROVE  /\ s[1] \in SetOver(R) /\ s[k] \in SetOver(R) /\ Spread(s, k) \in Int
         /\ s[1].items # <<>> /\ s[1].items \in Seq(R)
         /\ \E x \in Elements(s, k) : x \in Range(s[1].items)
<1>1. 1 \in 1 .. k /\ k \in 1 .. k
  OBVIOUS
<1>2. s[1] \in SetOver(R) /\ s[k] \in SetOver(R)
  BY <1>1 DEF GoodState, StateOver
<1>3. Spread(s, k) \in Int
  <2>1. s[1].sum \in Int /\ s[k].sum \in Int
    BY <1>2, SetTypes
  <2>. QED BY <2>1 DEF Spread
<1>4. s[1].items # <<>>
  <2>1. Cardinality(Elements(s, k)) \in Nat /\ Cardinality(Elements(s, k)) # 0
    BY FS_CardinalityType, FS_EmptySet DEF GoodState
  <2>. QED BY <1>1, <2>1 DEF GoodState, Filled
<1>5. \E x \in Elements(s, k) : x \in Range(s[1].items)
  <2>1. s[1].items \in Seq(R)
    BY <1>2, SetTypes
  <2>2. PICK q \in Seq(R) : q = s[1].items
    BY <2>1
  <2>3. Head(q) \in Range(q)
    BY <1>4, <2>2, TailElements
  <2>. QED BY <1>1, <2>2, <2>3 DEF Elements
<1>6. s[1].items \in Seq(R)
  BY <1>2, SetTypes
<1>. QED BY <1>2, <1>3, <1>4, <1>5, <1>6

\* One state is popped first.
LEMMA PoppedExists ==
  ASSUME NEW R \in SUBSET Nat, NEW k \in Nat \ {0}, NEW H, GoodHeap(H, k, R)
  PROVE  Popped(H, k) # {}
<1>. DEFINE Order == {pair \in H \X H : PoppedBefore(pair[2], pair[1], k)}
<1>1. \A s, t \in H : <<s, t>> \in Order <=> PoppedBefore(t, s, k)
  OBVIOUS
<1>. HIDE DEF Order
<1>2. \A s \in H : s[1] \in SetOver(R) /\ Spread(s, k) \in Int
  BY FirstSet DEF GoodHeap
<1>3. ASSUME NEW s \in H, NEW t \in H, s # t PROVE s[1] # t[1]
  <2>1. Elements(s, k) \intersect Elements(t, k) = {}
    BY <1>3 DEF GoodHeap
  <2>2. PICK x \in Elements(s, k) : x \in Range(s[1].items)
    BY FirstSet DEF GoodHeap
  <2>3. 1 \in 1 .. k
    OBVIOUS
  <2>4. s[1] = t[1] => x \in Elements(t, k)
    BY <2>2, <2>3 DEF Elements
  <2>. QED BY <2>1, <2>4
<1>4. StrictTotalOrder(Order, H)
  <2>1. ASSUME NEW s \in H PROVE <<s, s>> \notin Order
    BY <1>1, <1>2, SetOrder DEF PoppedBefore
  <2>2. ASSUME NEW s \in H, NEW t \in H, s # t PROVE <<s, t>> \in Order \/ <<t, s>> \in Order
    <3>1. SetBelow(s[1], t[1]) \/ SetBelow(t[1], s[1])
      BY <1>2, <1>3, <2>2, SetOrder
    <3>. QED BY <1>1, <1>2, <3>1 DEF PoppedBefore
  <2>3. ASSUME NEW s \in H, NEW t \in H, NEW u \in H, <<s, t>> \in Order, <<t, u>> \in Order
        PROVE  <<s, u>> \in Order
    <3>1. PoppedBefore(t, s, k) /\ PoppedBefore(u, t, k)
      BY <1>1, <2>3
    <3>2. SetBelow(s[1], t[1]) /\ SetBelow(t[1], u[1]) => SetBelow(s[1], u[1])
      BY <1>2, SetOrder
    <3>3. Spread(s, k) \in Int /\ Spread(t, k) \in Int /\ Spread(u, k) \in Int
      BY <1>2
    <3>4. PoppedBefore(u, s, k)
      BY <3>1, <3>2, <3>3 DEF PoppedBefore
    <3>. QED BY <1>1, <3>4
  <2>. QED BY <2>1, <2>2, <2>3 DEF StrictTotalOrder
<1>5. PICK x \in H : \A y \in H \ {x} : <<y, x>> \in Order
  BY <1>4, LastExists DEF GoodHeap
<1>6. x \in Popped(H, k)
  BY <1>1, <1>5 DEF Popped
<1>. QED BY <1>6

\* Merging the two states popped leaves one state less, over the same rows.
LEMMA MergedHeapGood ==
  ASSUME NEW R \in SUBSET Nat, NEW k \in Nat \ {0}, NEW H, GoodHeap(H, k, R),
         NEW a \in H, NEW b \in H, a # b, NEW m \in Merged(a, b, k),
         NEW h, h = (H \ {a, b}) \cup {m}
  PROVE  /\ GoodHeap(h, k, R) /\ HeapElements(h, k) = HeapElements(H, k)
         /\ Cardinality(h) = Cardinality(H) - 1
<1>1. /\ GoodState(a, k, R) /\ GoodState(b, k, R)
      /\ Elements(a, k) \intersect Elements(b, k) = {}
  BY DEF GoodHeap
<1>2. GoodState(m, k, R) /\ Elements(m, k) = Elements(a, k) \union Elements(b, k)
  BY <1>1, MergedGood
<1>3. ASSUME NEW s \in H, s # a, s # b PROVE Elements(s, k) \intersect Elements(m, k) = {} /\ s # m
  <2>1. Elements(s, k) \intersect Elements(a, k) = {} /\ Elements(s, k) \intersect Elements(b, k) = {}
    BY <1>3 DEF GoodHeap
  <2>2. Elements(s, k) # {}
    BY DEF GoodHeap, GoodState
  <2>. QED BY <1>2, <2>1, <2>2
<1>4. IsFiniteSet(h) /\ Cardinality(h) = Cardinality(H) - 1
  <2>1. /\ IsFiniteSet(H \ {a}) /\ Cardinality(H \ {a}) = Cardinality(H) - 1
        /\ Cardinality(H) \in Nat
    BY FS_RemoveElement, FS_CardinalityType DEF GoodHeap
  <2>2. /\ IsFiniteSet((H \ {a}) \ {b}) /\ Cardinality((H \ {a}) \ {b}) = Cardinality(H) - 1 - 1
    <3>1. b \in H \ {a}
      BY Zenon
    <3>. QED BY <2>1, <3>1, FS_RemoveElement
  <2>3. (H \ {a}) \ {b} = H \ {a, b} /\ m \notin H \ {a, b}
    BY <1>3
  <2>4. Cardinality(h) = Cardinality(H \ {a, b}) + 1 /\ IsFiniteSet(h)
    BY <2>2, <2>3, FS_AddElement
  <2>. QED BY <2>1, <2>2, <2>3, <2>4
<1>5. \A s \in h : GoodState(s, k, R)
  BY <1>2 DEF GoodHeap
<1>6. ASSUME NEW s \in h, NEW t \in h, s # t PROVE Elements(s, k) \intersect Elements(t, k) = {}
  BY <1>3, <1>6 DEF GoodHeap
<1>7. HeapElements(h, k) = HeapElements(H, k)
  <2>1. ASSUME NEW x \in HeapElements(h, k) PROVE x \in HeapElements(H, k)
    <3>1. PICK s \in h : x \in Elements(s, k)
      BY DEF HeapElements
    <3>2. \E t \in H : x \in Elements(t, k)
      BY <1>2, <3>1
    <3>. QED BY <3>2 DEF HeapElements
  <2>2. ASSUME NEW x \in HeapElements(H, k) PROVE x \in HeapElements(h, k)
    <3>1. PICK s \in H : x \in Elements(s, k)
      BY DEF HeapElements
    <3>2. \E t \in h : x \in Elements(t, k)
      BY <1>2, <3>1
    <3>. QED BY <3>2 DEF HeapElements
  <2>. QED BY <2>1, <2>2
<1>. QED BY <1>4, <1>5, <1>6, <1>7 DEF GoodHeap

MergedFrom(h, H, a, b, k) ==
    /\ a \in H /\ b \in H /\ a # b
    /\ \E m \in Merged(a, b, k) : h = (H \ {a, b}) \cup {m}

\* There is a state to pop, and another one after it, and a way to merge them.
LEMMA MergedHeapsExist ==
  ASSUME NEW R \in SUBSET Nat, NEW k \in Nat \ {0}, NEW H, GoodHeap(H, k, R)
  PROVE  /\ Cardinality(H) > 1 => MergedHeaps(H, k) # {}
         /\ \A h \in MergedHeaps(H, k) : \E a, b : MergedFrom(h, H, a, b, k)
<1>1. ASSUME Cardinality(H) > 1 PROVE MergedHeaps(H, k) # {}
  <2>1. PICK a : a \in Popped(H, k)
    BY PoppedExists
  <2>2. a \in H
    BY <2>1 DEF Popped
  <2>3. GoodHeap(H \ {a}, k, R)
    <3>1. IsFiniteSet(H \ {a}) /\ Cardinality(H \ {a}) = Cardinality(H) - 1 /\ Cardinality(H) \in Nat
      BY <2>2, FS_RemoveElement, FS_CardinalityType DEF GoodHeap
    <3>2. H \ {a} # {}
      BY <1>1, <3>1, FS_EmptySet
    <3>. QED BY <3>1, <3>2 DEF GoodHeap
  <2>4. PICK b : b \in Popped(H \ {a}, k)
    BY <2>3, PoppedExists
  <2>5. b \in H /\ b # a
    BY <2>4 DEF Popped
  <2>6. Merged(a, b, k) # {}
    <3>1. GoodState(a, k, R) /\ GoodState(b, k, R)
      BY <2>2, <2>5 DEF GoodHeap
    <3>2. StateOver(a, k, R) /\ StateOver(b, k, R)
      BY <3>1 DEF GoodState
    <3>3. StateOver(Paired(a, b, k), k, R)
      BY <3>2, PairedSets
    <3>4. Sorted(Paired(a, b, k), k) # {}
      BY <3>3, SortedExists
    <3>. QED BY <3>4 DEF Merged, Paired
  <2>7. PICK m : m \in Merged(a, b, k)
    BY <2>6
  <2>8. (H \ {a, b}) \cup {m} \in MergedHeaps(H, k)
    BY <2>1, <2>4, <2>7 DEF MergedHeaps
  <2>. QED BY <2>8
<1>2. ASSUME NEW h \in MergedHeaps(H, k)
      PROVE  \E a, b : MergedFrom(h, H, a, b, k)
  <2>1. PICK a \in Popped(H, k) : \E b \in Popped(H \ {a}, k) : \E m \in Merged(a, b, k) : h = (H \ {a, b}) \cup {m}
    BY DEF MergedHeaps
  <2>2. PICK b \in Popped(H \ {a}, k) : \E m \in Merged(a, b, k) : h = (H \ {a, b}) \cup {m}
    BY <2>1
  <2>3. a \in H /\ b \in H /\ a # b
    BY DEF Popped
  <2>. QED BY <2>2, <2>3 DEF MergedFrom
<1>. QED BY <1>1, <1>2

\* Every heap that merging can leave is good.
LEMMA MergedHeapsGood ==
  ASSUME NEW R \in SUBSET Nat, NEW k \in Nat \ {0}, NEW H, GoodHeap(H, k, R),
         NEW h \in MergedHeaps(H, k)
  PROVE  /\ GoodHeap(h, k, R) /\ HeapElements(h, k) = HeapElements(H, k)
         /\ Cardinality(h) = Cardinality(H) - 1
<1>1. PICK a, b : MergedFrom(h, H, a, b, k)
  BY MergedHeapsExist
<1>2. PICK m \in Merged(a, b, k) : h = (H \ {a, b}) \cup {m}
  BY <1>1 DEF MergedFrom
<1>3. a \in H /\ b \in H /\ a # b
  BY <1>1 DEF MergedFrom
<1>. QED BY <1>2, <1>3, MergedHeapGood

-----------------------------------------------------------------------------
(* karmarkar_karp *)

\* The state that karmarkar_karp starts from for a row
LEMMA StateOfRowGood ==
  ASSUME NEW R \in SUBSET Nat, NEW W \in [R -> Nat \ {0}], NEW k \in Nat \ {0}, NEW r \in R
  PROVE  GoodState(StateOfRow(W, r, k), k, R) /\ Elements(StateOfRow(W, r, k), k) = {r}
<1>. DEFINE s == StateOfRow(W, r, k)
<1>1. 1 \in 1 .. k
  OBVIOUS
<1>2. s[1] = [sum |-> W[r], items |-> <<r>>] /\ \A i \in 1 .. k : i # 1 => s[i] = [sum |-> 0, items |-> <<>>]
  BY <1>1 DEF StateOfRow, Singleton, EmptySet
<1>3. s \in [1 .. k -> SetOver(R)]
  <2>1. W[r] \in Int /\ <<r>> \in Seq(R) /\ <<>> \in Seq(R) /\ 0 \in Int
    OBVIOUS
  <2>2. [sum |-> W[r], items |-> <<r>>] \in SetOver(R) /\ [sum |-> 0, items |-> <<>>] \in SetOver(R)
    BY <2>1 DEF SetOver
  <2>. QED BY <2>2 DEF StateOfRow, Singleton, EmptySet
<1>. HIDE DEF s
<1>4. Range(s[1].items) = {r} /\ IsInjective(s[1].items) /\ s[1].items # <<>> /\ s[1].sum > 0
  <2>1. s[1].items = <<r>> /\ s[1].sum = W[r]
    BY <1>2
  <2>2. Range(<<r>>) = {r} /\ IsInjective(<<r>>) /\ <<r>> # <<>> /\ W[r] > 0
    BY DEF Range, IsInjective
  <2>. QED BY <2>1, <2>2
<1>5. ASSUME NEW i \in 1 .. k, i # 1
      PROVE  Range(s[i].items) = {} /\ IsInjective(s[i].items) /\ s[i].items = <<>> /\ s[i].sum = 0
  <2>1. s[i].items = <<>> /\ s[i].sum = 0
    BY <1>2, <1>5
  <2>. QED BY <2>1 DEF Range, IsInjective
<1>6. Elements(s, k) = {r}
  <2>1. \A e : e \in Elements(s, k) <=> \E i \in 1 .. k : e \in Range(s[i].items)
    BY DEF Elements
  <2>2. r \in Range(s[1].items) /\ \A e : e \in Range(s[1].items) => e = r
    BY <1>4
  <2>3. \A i \in 1 .. k : i # 1 => \A e : e \notin Range(s[i].items)
    BY <1>5
  <2>4. r \in Elements(s, k)
    BY <2>1, <2>2, <1>1
  <2>5. ASSUME NEW e \in Elements(s, k) PROVE e = r
    BY <2>1, <2>2, <2>3
  <2>. QED BY <2>4, <2>5
<1>7. Clean(s, k) /\ Weighed(s, k)
  BY <1>4, <1>5 DEF Clean, Weighed
<1>8. Filled(s, k)
  <2>1. Cardinality(Elements(s, k)) = 1
    BY <1>6, FS_Singleton
  <2>. QED BY <1>4, <2>1 DEF Filled
<1>9. IsFiniteSet(Elements(s, k)) /\ Elements(s, k) # {}
  BY <1>6, FS_Singleton
<1>. QED BY <1>3, <1>6, <1>7, <1>8, <1>9 DEF GoodState, StateOver, s

\* karmarkar_karp's first heap
LEMMA FirstHeap ==
  ASSUME NEW n \in Nat \ {0}, NEW W \in [1 .. n -> Nat \ {0}], NEW k \in Nat \ {0},
         NEW H, H = {StateOfRow(W, r, k) : r \in 1 .. n}
  PROVE  GoodHeap(H, k, 1 .. n) /\ HeapElements(H, k) = 1 .. n /\ Cardinality(H) = n
<1>1. \A r \in 1 .. n : GoodState(StateOfRow(W, r, k), k, 1 .. n) /\ Elements(StateOfRow(W, r, k), k) = {r}
  <2>1. 1 .. n \in SUBSET Nat
    OBVIOUS
  <2>. QED BY <2>1, StateOfRowGood
<1>. DEFINE f == [r \in 1 .. n |-> StateOfRow(W, r, k)]
<1>2. f \in Bijection(1 .. n, H)
  <2>1. f \in [1 .. n -> H] /\ \A t \in H : \E r \in 1 .. n : f[r] = t
    OBVIOUS
  <2>2. ASSUME NEW r \in 1 .. n, NEW t \in 1 .. n, f[r] = f[t] PROVE r = t
    <3>1. {r} = {t}
      BY <1>1, <2>2, Zenon
    <3>. QED BY <3>1
  <2>. HIDE DEF f
  <2>. QED BY <2>1, <2>2 DEF Bijection, Injection, Surjection, IsInjective
<1>3. IsFiniteSet(H) /\ Cardinality(H) = n
  <2>1. ExistsBijection(1 .. n, H)
    BY <1>2 DEF ExistsBijection
  <2>2. IsFiniteSet(1 .. n) /\ Cardinality(1 .. n) = n
    BY FS_Interval
  <2>. QED BY <2>1, <2>2, FS_Bijection
<1>4. H # {}
  <2>1. 1 \in 1 .. n
    OBVIOUS
  <2>. QED BY <2>1
<1>5. HeapElements(H, k) = 1 .. n
  <2>1. ASSUME NEW r \in 1 .. n PROVE r \in HeapElements(H, k)
    <3>1. StateOfRow(W, r, k) \in H /\ r \in Elements(StateOfRow(W, r, k), k)
      BY <1>1
    <3>. QED BY <3>1 DEF HeapElements
  <2>2. ASSUME NEW x \in HeapElements(H, k) PROVE x \in 1 .. n
    <3>1. PICK s \in H : x \in Elements(s, k)
      BY DEF HeapElements
    <3>2. PICK r \in 1 .. n : s = StateOfRow(W, r, k)
      OBVIOUS
    <3>. QED BY <1>1, <3>1, <3>2
  <2>. QED BY <2>1, <2>2
<1>6. ASSUME NEW s \in H, NEW t \in H, s # t PROVE Elements(s, k) \intersect Elements(t, k) = {}
  BY <1>1, <1>6
<1>. QED BY <1>1, <1>3, <1>4, <1>5, <1>6 DEF GoodHeap

\* The partitions of karmarkar_karp are as many as asked for, none is empty, and each
\* row is in one of them, at one place: the assertions of
\* get_seqlen_balanced_partitions never fail.
THEOREM KarmarkarKarpPartitions ==
  ASSUME NEW n \in Nat \ {0}, NEW W \in [1 .. n -> Nat \ {0}], NEW k \in 1 .. n
  PROVE  LET sets == karmarkar_karp(W, k)
         IN  /\ sets \in [1 .. k -> SetOver(1 .. n)]
             /\ Clean(sets, k)
             /\ Partitioned(sets, 1 .. n)
<1>. DEFINE first == {StateOfRow(W, r, k) : r \in DOMAIN W}
            next(h) == CHOOSE H \in UNION {MergedHeaps(g, k) : g \in {h}} : TRUE
            Step(g) == [m \in 1 .. Cardinality(DOMAIN W) |-> IF m = 1 THEN first ELSE next(g[m - 1])]
            heap == CHOOSE g : g = Step(g)
            Good(H, m) == /\ GoodHeap(H, k, 1 .. n) /\ HeapElements(H, k) = 1 .. n
                          /\ Cardinality(H) = n + 1 - m
            Heaps(m, g) == /\ g = [i \in 1 .. m |-> g[i]]
                           /\ \A i \in 1 .. m : /\ g[i] = IF i = 1 THEN first ELSE next(g[i - 1])
                                                /\ Good(g[i], i)
<1>1. /\ DOMAIN W = 1 .. n /\ Cardinality(DOMAIN W) = n
      /\ n \in Nat /\ n >= 1 /\ k \in Nat \ {0} /\ 1 .. n \in SUBSET Nat
  <2>1. DOMAIN W = 1 .. n
    OBVIOUS
  <2>2. Cardinality(1 .. n) = n
    BY FS_Interval
  <2>. QED BY <2>1, <2>2
<1>2. Good(first, 1)
  BY <1>1, FirstHeap
<1>3. ASSUME NEW H, NEW m \in 1 .. n - 1, Good(H, m) PROVE Good(next(H), m + 1)
  <2>1. Cardinality(H) > 1 /\ GoodHeap(H, k, 1 .. n)
    BY <1>3
  <2>2. MergedHeaps(H, k) # {}
    BY <1>1, <2>1, MergedHeapsExist
  <2>3. next(H) \in MergedHeaps(H, k)
    BY <2>2
  <2>. DEFINE h == next(H)
  <2>. HIDE DEF next
  <2>6. /\ GoodHeap(h, k, 1 .. n) /\ HeapElements(h, k) = HeapElements(H, k)
        /\ Cardinality(h) = Cardinality(H) - 1
    BY <1>1, <2>1, <2>3, MergedHeapsGood
  <2>. HIDE DEF h
  <2>7. Cardinality(h) = n + 1 - (m + 1)
    BY <1>1, <1>3, <2>6
  <2>. QED BY <1>3, <2>6, <2>7 DEF h
<1>. HIDE DEF first, next, Good
<1>4. \E g : Heaps(n, g)
  <2>. DEFINE S == {m \in Nat : m <= n => \E g : Heaps(m, g)}
  <2>1. 0 \in S
    <3>1. Heaps(0, [i \in 1 .. 0 |-> {}])
      OBVIOUS
    <3>. HIDE DEF Heaps
    <3>. QED BY <3>1
  <2>2. ASSUME NEW m \in Nat, m \in S PROVE m + 1 \in S
    <3>. SUFFICES ASSUME m + 1 <= n PROVE \E g : Heaps(m + 1, g)
      OBVIOUS
    <3>1. PICK f : Heaps(m, f)
      <4>. HIDE DEF Heaps
      <4>. QED BY <2>2
    <3>. DEFINE last == IF m = 0 THEN first ELSE next(f[m])
                g == [i \in 1 .. m + 1 |-> IF i = m + 1 THEN last ELSE f[i]]
    <3>2. Good(last, m + 1)
      <4>1. CASE m = 0
        BY <1>2, <4>1
      <4>2. CASE m # 0
        <5>1. m \in 1 .. n - 1 /\ m \in 1 .. m
          BY <4>2
        <5>2. Good(f[m], m)
          BY <3>1, <5>1
        <5>3. Good(next(f[m]), m + 1)
          BY <1>3, <5>1, <5>2
        <5>. QED BY <4>2, <5>3
      <4>. QED BY <4>1, <4>2
    <3>3. ASSUME NEW i \in 1 .. m + 1
          PROVE  g[i] = (IF i = 1 THEN first ELSE next(g[i - 1])) /\ Good(g[i], i)
      <4>1. CASE i = m + 1
        <5>1. g[i] = last
          BY <4>1
        <5>2. m # 0 => g[i - 1] = f[m]
          BY <4>1
        <5>3. i = 1 <=> m = 0
          BY <4>1
        <5>. QED BY <3>2, <4>1, <5>1, <5>2, <5>3
      <4>2. CASE i # m + 1
        <5>1. i \in 1 .. m /\ (i # 1 => i - 1 \in 1 .. m + 1 /\ i - 1 # m + 1)
          BY <4>2
        <5>. QED BY <3>1, <4>2, <5>1
      <4>. QED BY <4>1, <4>2
    <3>4. g = [i \in 1 .. m + 1 |-> g[i]]
      OBVIOUS
    <3>. HIDE DEF g
    <3>5. Heaps(m + 1, g)
      BY <3>3, <3>4
    <3>. HIDE DEF Heaps
    <3>. QED BY <3>5
  <2>. HIDE DEF S
  <2>3. n \in S
    BY <1>1, <2>1, <2>2, InductionOnNat
  <2>. QED BY <1>1, <2>3 DEF S
<1>5. PICK g : Heaps(n, g)
  BY <1>4
<1>6. g = Step(g)
  <2>1. \A i \in 1 .. n : g[i] = IF i = 1 THEN first ELSE next(g[i - 1])
    BY <1>5
  <2>2. [i \in 1 .. n |-> g[i]] = Step(g)
    BY <1>1, <2>1
  <2>. QED BY <1>5, <2>2
<1>7. heap = Step(heap)
  BY <1>6
<1>8. karmarkar_karp(W, k) = CHOOSE state \in heap[Cardinality(DOMAIN W)] : TRUE
  BY DEF karmarkar_karp, first, next
<1>. HIDE DEF heap
<1>9. \A m \in 1 .. n : heap[m] = IF m = 1 THEN first ELSE next(heap[m - 1])
  BY <1>1, <1>7
<1>10. Good(heap[n], n)
  <2>. DEFINE S == {m \in 1 .. n : Good(heap[m], m)}
  <2>1. 1 \in S
    BY <1>1, <1>2, <1>9
  <2>2. ASSUME NEW m \in 2 .. n, m - 1 \in S PROVE m \in S
    <3>1. m - 1 \in 1 .. n - 1 /\ m \in 1 .. n /\ m # 1 /\ (m - 1) + 1 = m
      BY <1>1
    <3>2. Good(heap[m - 1], m - 1)
      BY <2>2
    <3>3. Good(next(heap[m - 1]), (m - 1) + 1)
      BY <1>3, <3>1, <3>2
    <3>4. heap[m] = next(heap[m - 1])
      BY <1>9, <3>1
    <3>. QED BY <3>1, <3>3, <3>4
  <2>. HIDE DEF S
  <2>3. n \in S
    <3>1. \A m \in 1 .. n : m \in S
      BY <1>1, <2>1, <2>2, InductionFromOne
    <3>. QED BY <1>1, <3>1
  <2>. QED BY <2>3 DEF S
<1>11. PICK sets : heap[n] = {sets} /\ sets = karmarkar_karp(W, k)
  <2>1. IsFiniteSet(heap[n]) /\ Cardinality(heap[n]) = 1
    BY <1>1, <1>10 DEF Good, GoodHeap
  <2>2. PICK x : heap[n] = {x}
    BY <2>1, FS_Singleton
  <2>3. karmarkar_karp(W, k) = x
    BY <1>1, <1>8, <2>2
  <2>. QED BY <2>2, <2>3
<1>12. GoodState(sets, k, 1 .. n) /\ Elements(sets, k) = 1 .. n
  <2>1. GoodHeap({sets}, k, 1 .. n) /\ HeapElements({sets}, k) = 1 .. n
    BY <1>10, <1>11 DEF Good
  <2>. QED BY <2>1 DEF GoodHeap, HeapElements
<1>13. sets \in [1 .. k -> SetOver(1 .. n)] /\ Clean(sets, k)
  BY <1>12 DEF GoodState, StateOver
<1>14. Partitioned(sets, 1 .. n)
  <2>1. DOMAIN sets = 1 .. k
    BY <1>13
  <2>2. \A i \in 1 .. k : sets[i].items # <<>>
    <3>1. Cardinality(Elements(sets, k)) = n
      BY <1>1, <1>12
    <3>. QED BY <1>1, <1>12, <3>1 DEF GoodState, Filled
  <2>3. \A i \in 1 .. k : ToSet(sets[i].items) = Range(sets[i].items)
    BY DEF ToSet, Range
  <2>. QED BY <1>12, <2>1, <2>2, <2>3 DEF Partitioned, Elements
<1>. QED BY <1>11, <1>13, <1>14

-----------------------------------------------------------------------------
(* The partitions in order, and the micro-batches *)

\* The elements at the even and those at the odd places, counted from 0
LEMMA AlternatePlaces ==
  ASSUME NEW D, NEW q \in Seq(D)
  PROVE  /\ EvenPlaces(q) \in Seq(D) /\ OddPlaces(q) \in Seq(D)
         /\ Len(EvenPlaces(q)) + Len(OddPlaces(q)) = Len(q)
         /\ Range(EvenPlaces(q)) \union Range(OddPlaces(q)) = Range(q)
         /\ IsInjective(q) => /\ IsInjective(EvenPlaces(q)) /\ IsInjective(OddPlaces(q))
                              /\ Range(EvenPlaces(q)) \intersect Range(OddPlaces(q)) = {}
<1>. DEFINE n == Len(q)
            E == EvenPlaces(q)
            O == OddPlaces(q)
            e == (n + 1) \div 2
            o == n \div 2
<1>1. n \in Nat /\ q \in [1 .. n -> D] /\ DOMAIN q = 1 .. n
  OBVIOUS
<1>. HIDE DEF n
<1>2. /\ e \in Nat /\ o \in Nat /\ e + o = n
      /\ \A i \in 1 .. e : 2 * i - 1 \in 1 .. n
      /\ \A i \in 1 .. o : 2 * i \in 1 .. n
  BY <1>1
<1>3. ASSUME NEW x \in 1 .. n
      PROVE  (\E i \in 1 .. e : x = 2 * i - 1) \/ (\E i \in 1 .. o : x = 2 * i)
  <2>1. CASE x % 2 = 1
    <3>1. (x + 1) \div 2 \in 1 .. e /\ x = 2 * ((x + 1) \div 2) - 1
      BY <1>1, <2>1
    <3>. QED BY <3>1
  <2>2. CASE x % 2 = 0
    <3>1. x \div 2 \in 1 .. o /\ x = 2 * (x \div 2)
      BY <1>1, <2>2
    <3>. QED BY <3>1
  <2>. QED BY <1>1, <2>1, <2>2
<1>4. E = [i \in 1 .. e |-> q[2 * i - 1]] /\ O = [i \in 1 .. o |-> q[2 * i]]
  BY DEF EvenPlaces, OddPlaces, n
<1>. HIDE DEF E, O, e, o
<1>5. E \in [1 .. e -> D] /\ O \in [1 .. o -> D]
  BY <1>1, <1>2, <1>4
<1>6. E \in Seq(D) /\ O \in Seq(D) /\ Len(E) = e /\ Len(O) = o
  <2>1. PICK a \in [1 .. e -> D], b \in [1 .. o -> D] : a = E /\ b = O
    BY <1>5
  <2>2. a \in Seq(D) /\ Len(a) = e /\ b \in Seq(D) /\ Len(b) = o
    BY <1>2
  <2>. QED BY <2>1, <2>2
<1>7. /\ \A i \in 1 .. e : E[i] = q[2 * i - 1]
      /\ \A i \in 1 .. o : O[i] = q[2 * i]
      /\ DOMAIN E = 1 .. e /\ DOMAIN O = 1 .. o
  BY <1>4
<1>8. Range(E) \union Range(O) = Range(q)
  <2>1. ASSUME NEW x \in 1 .. n PROVE q[x] \in Range(E) \union Range(O)
    BY <1>3, <1>7 DEF Range
  <2>2. Range(q) = {q[x] : x \in 1 .. n}
    BY <1>1 DEF Range
  <2>3. ASSUME NEW i \in 1 .. e PROVE E[i] \in Range(q)
    BY <1>2, <1>7, <2>2
  <2>4. ASSUME NEW i \in 1 .. o PROVE O[i] \in Range(q)
    BY <1>2, <1>7, <2>2
  <2>5. Range(E) \subseteq Range(q) /\ Range(O) \subseteq Range(q)
    BY <1>7, <2>3, <2>4 DEF Range
  <2>. QED BY <2>1, <2>2, <2>5
<1>9. ASSUME IsInjective(q)
      PROVE  IsInjective(E) /\ IsInjective(O) /\ Range(E) \intersect Range(O) = {}
  <2>0. \A x, y \in 1 .. n : q[x] = q[y] => x = y
    BY <1>1, <1>9 DEF IsInjective
  <2>1. ASSUME NEW i \in 1 .. e, NEW j \in 1 .. e, E[i] = E[j] PROVE i = j
    <3>1. 2 * i - 1 = 2 * j - 1
      BY <1>2, <1>7, <2>0, <2>1
    <3>. QED BY <1>2, <3>1
  <2>2. ASSUME NEW i \in 1 .. o, NEW j \in 1 .. o, O[i] = O[j] PROVE i = j
    <3>0. O[i] = q[2 * i] /\ O[j] = q[2 * j] /\ 2 * i \in 1 .. n /\ 2 * j \in 1 .. n
      BY <1>2, <1>7
    <3>1. 2 * i = 2 * j
      BY <2>0, <2>2, <3>0
    <3>. QED BY <1>2, <3>1
  <2>3. ASSUME NEW i \in 1 .. e, NEW j \in 1 .. o, E[i] = O[j] PROVE FALSE
    <3>0. E[i] = q[2 * i - 1] /\ O[j] = q[2 * j] /\ 2 * i - 1 \in 1 .. n /\ 2 * j \in 1 .. n
      BY <1>2, <1>7
    <3>1. 2 * i - 1 = 2 * j
      BY <2>0, <2>3, <3>0
    <3>. QED BY <1>2, <3>1
  <2>. QED BY <1>7, <2>1, <2>2, <2>3 DEF IsInjective, Range
<1>. QED BY <1>2, <1>6, <1>8, <1>9 DEF E, O, n

\* The partitions with their rows in order
LEMMA BalancedPartitions ==
  ASSUME NEW R \in SUBSET Nat, NEW k \in Nat, NEW sets \in [1 .. k -> SetOver(R)], Clean(sets, k),
         \A i \in 1 .. k : sets[i].items # <<>>
  PROVE  LET partitions == get_seqlen_balanced_partitions(sets, k)
         IN  /\ partitions \in [1 .. k -> SetOver(R)] /\ Clean(partitions, k)
             /\ Elements(partitions, k) = Elements(sets, k)
             /\ \A i \in 1 .. k : partitions[i].items # <<>>
<1>. DEFINE partitions == get_seqlen_balanced_partitions(sets, k)
<1>1. ASSUME NEW i \in 1 .. k
      PROVE  /\ partitions[i] \in SetOver(R) /\ partitions[i].items # <<>>
             /\ Range(partitions[i].items) = Range(sets[i].items) /\ IsInjective(partitions[i].items)
  <2>1. sets[i].sum \in Int /\ sets[i].items \in Seq(R) /\ sets[i] = [sum |-> sets[i].sum, items |-> sets[i].items]
    BY SetTypes
  <2>2. PICK q \in Seq(R) : q = sets[i].items
    BY <2>1
  <2>3. IsInjective(q) /\ q # <<>>
    BY <2>2 DEF Clean
  <2>4. PICK r \in Seq(R) : /\ r = Ascending(q) /\ Len(r) = Len(q)
                            /\ Range(r) = Range(q) /\ IsInjective(r)
    BY <2>3, SortedItems
  <2>5. partitions[i] = [sum |-> sets[i].sum, items |-> Ascending(q)]
    BY <2>2 DEF get_seqlen_balanced_partitions, sort, Ascending
  <2>6. r # <<>>
    <3>1. Len(q) # 0
      BY <2>3
    <3>. QED BY <2>4, <3>1
  <2>. HIDE DEF partitions
  <2>7. partitions[i] = [sum |-> sets[i].sum, items |-> r]
    BY <2>4, <2>5
  <2>8. partitions[i] \in SetOver(R) /\ partitions[i].items = r
    BY <2>1, <2>7 DEF SetOver
  <2>. QED BY <2>2, <2>4, <2>6, <2>8
<1>2. partitions = [i \in 1 .. k |-> partitions[i]]
  BY DEF get_seqlen_balanced_partitions, sort
<1>. HIDE DEF partitions
<1>3. partitions \in [1 .. k -> SetOver(R)]
  BY <1>1, <1>2
<1>4. Clean(partitions, k)
  BY <1>1 DEF Clean
<1>5. Elements(partitions, k) = Elements(sets, k)
  BY <1>1 DEF Elements
<1>. QED BY <1>1, <1>3, <1>4, <1>5 DEF partitions

AbovePairs(R) ==
  {pair \in SetOver(R) \X SetOver(R) :
     \/ pair[1].sum > pair[2].sum
     \/ pair[1].sum = pair[2].sum /\ pair[1].items[1] > pair[2].items[1]}

\* The partitions can be put in order: they differ in their first row.
LEMMA PartitionsOrdered ==
  ASSUME NEW R \in SUBSET Nat, NEW k \in Nat, NEW P \in [1 .. k -> SetOver(R)], Clean(P, k),
         \A i \in 1 .. k : P[i].items # <<>>
  PROVE  /\ P \in Seq(SetOver(R)) /\ Len(P) = k /\ IsInjective(P)
         /\ StrictTotalOrder(AbovePairs(R), Range(P))
<1>1. P \in Seq(SetOver(R)) /\ Len(P) = k
  OBVIOUS
<1>2. ASSUME NEW i \in 1 .. k
      PROVE  /\ P[i] \in SetOver(R) /\ P[i].sum \in Int
             /\ P[i].items[1] \in R /\ P[i].items[1] \in Range(P[i].items)
  <2>1. P[i].sum \in Int /\ P[i].items \in Seq(R)
    BY SetTypes
  <2>2. PICK q \in Seq(R) : q = P[i].items
    BY <2>1
  <2>3. q[1] \in R /\ q[1] \in Range(q)
    <3>1. q # <<>>
      BY <2>2
    <3>. QED BY <3>1, TailElements, TailIndices
  <2>. QED BY <2>1, <2>2, <2>3
<1>3. ASSUME NEW i \in 1 .. k, NEW j \in 1 .. k, i # j PROVE P[i].items[1] # P[j].items[1]
  <2>1. Range(P[i].items) \intersect Range(P[j].items) = {}
    BY <1>3 DEF Clean
  <2>2. P[i].items[1] \in Range(P[i].items) /\ P[j].items[1] \in Range(P[j].items)
    BY <1>2
  <2>. QED BY <2>1, <2>2
<1>4. IsInjective(P)
  BY <1>3 DEF IsInjective
<1>5. \A i, j \in 1 .. k : <<P[i], P[j]>> \in AbovePairs(R) <=>
        P[i].sum > P[j].sum \/ (P[i].sum = P[j].sum /\ P[i].items[1] > P[j].items[1])
  <2>1. \A a, b \in SetOver(R) : <<a, b>> \in AbovePairs(R) <=>
          a.sum > b.sum \/ (a.sum = b.sum /\ a.items[1] > b.items[1])
    BY Zenon DEF AbovePairs
  <2>2. \A i \in 1 .. k : P[i] \in SetOver(R)
    BY <1>2
  <2>. QED BY <2>1, <2>2, Zenon
<1>6. \A i \in 1 .. k : P[i].sum \in Int /\ P[i].items[1] \in Int
  <2>1. \A x \in R : x \in Int
    OBVIOUS
  <2>. QED BY <1>2, <2>1
<1>7. \A x \in Range(P) : \E i \in 1 .. k : x = P[i]
  BY DEF Range
<1>8. \A i \in 1 .. k : <<P[i], P[i]>> \notin AbovePairs(R)
  BY <1>5, <1>6
<1>9. ASSUME NEW i \in 1 .. k, NEW j \in 1 .. k, P[i] # P[j]
      PROVE  <<P[i], P[j]>> \in AbovePairs(R) \/ <<P[j], P[i]>> \in AbovePairs(R)
  <2>1. P[i].items[1] # P[j].items[1]
    BY <1>3, <1>9
  <2>. QED BY <1>5, <1>6, <2>1
<1>10. ASSUME NEW i \in 1 .. k, NEW j \in 1 .. k, NEW l \in 1 .. k,
              <<P[i], P[j]>> \in AbovePairs(R), <<P[j], P[l]>> \in AbovePairs(R)
       PROVE  <<P[i], P[l]>> \in AbovePairs(R)
  <2>1. P[i].sum > P[j].sum \/ (P[i].sum = P[j].sum /\ P[i].items[1] > P[j].items[1])
    BY <1>5, <1>10
  <2>2. P[j].sum > P[l].sum \/ (P[j].sum = P[l].sum /\ P[j].items[1] > P[l].items[1])
    BY <1>5, <1>10
  <2>3. P[i].sum > P[l].sum \/ (P[i].sum = P[l].sum /\ P[i].items[1] > P[l].items[1])
    BY <1>6, <2>1, <2>2
  <2>. QED BY <1>5, <2>3
<1>11. StrictTotalOrder(AbovePairs(R), Range(P))
  <2>1. ASSUME NEW x \in Range(P) PROVE <<x, x>> \notin AbovePairs(R)
    BY <1>7, <1>8
  <2>2. ASSUME NEW x \in Range(P), NEW y \in Range(P), x # y
        PROVE  <<x, y>> \in AbovePairs(R) \/ <<y, x>> \in AbovePairs(R)
    BY <1>7, <1>9, <2>2
  <2>3. ASSUME NEW x \in Range(P), NEW y \in Range(P), NEW z \in Range(P),
               <<x, y>> \in AbovePairs(R), <<y, z>> \in AbovePairs(R)
        PROVE  <<x, z>> \in AbovePairs(R)
    BY <1>7, <1>10, <2>3
  <2>. QED BY <2>1, <2>2, <2>3 DEF StrictTotalOrder
<1>. QED BY <1>1, <1>4, <1>11

\* Taking them from both ends puts them at other places.
PlacedPartitions(R, P) ==
  LET ordered == SortedBy(AbovePairs(R), P)
  IN Reverse(EvenPlaces(ordered)) \o OddPlaces(ordered)

\* micro_bsz_idx takes each partition once.
LEMMA PartitionsPlaced ==
  ASSUME NEW R \in SUBSET Nat, NEW k \in Nat, NEW P \in [1 .. k -> SetOver(R)], Clean(P, k),
         \A i \in 1 .. k : P[i].items # <<>>
  PROVE  /\ micro_bsz_idx(P, k) = [i \in 1 .. k |-> PlacedPartitions(R, P)[i].items]
         /\ PlacedPartitions(R, P) \in Seq(SetOver(R)) /\ Len(PlacedPartitions(R, P)) = k
         /\ Range(PlacedPartitions(R, P)) = Range(P) /\ IsInjective(PlacedPartitions(R, P))
<1>1. /\ P \in Seq(SetOver(R)) /\ Len(P) = k /\ IsInjective(P)
      /\ StrictTotalOrder(AbovePairs(R), Range(P)) /\ DOMAIN P = 1 .. k
  BY PartitionsOrdered
<1>2. PICK ordered : ordered = SortedBy(AbovePairs(R), P)
  OBVIOUS
<1>3. /\ ordered \in Seq(SetOver(R)) /\ Len(ordered) = k
      /\ Range(ordered) = Range(P) /\ IsInjective(ordered)
  BY <1>1, <1>2, SortedDistinct
<1>4. PICK E \in Seq(SetOver(R)), O \in Seq(SetOver(R)) :
        E = EvenPlaces(ordered) /\ O = OddPlaces(ordered)
  BY <1>3, AlternatePlaces
<1>5. /\ Len(E) + Len(O) = k /\ Range(E) \union Range(O) = Range(P)
      /\ IsInjective(E) /\ IsInjective(O) /\ Range(E) \intersect Range(O) = {}
  BY <1>3, <1>4, AlternatePlaces
<1>6. PICK B \in Seq(SetOver(R)) : B = Reverse(E)
  BY ReversedElements
<1>7. Len(B) = Len(E) /\ Range(B) = Range(E) /\ IsInjective(B)
  BY <1>5, <1>6, ReversedElements
<1>8. B \o O \in Seq(SetOver(R)) /\ Range(B \o O) = Range(P) /\ IsInjective(B \o O)
  <2>1. Range(B) \intersect Range(O) = {} /\ Range(B) \union Range(O) = Range(P)
    BY <1>5, <1>7, Zenon
  <2>2. /\ B \o O \in Seq(SetOver(R)) /\ Range(B \o O) = Range(B) \union Range(O)
        /\ IsInjective(B \o O)
    BY <1>5, <1>7, <2>1, JoinElements
  <2>. QED BY <2>1, <2>2
<1>9. Len(B \o O) = k
  <2>1. Len(B \o O) = Len(B) + Len(O)
    BY JoinIndices
  <2>. QED BY <1>5, <1>7, <2>1
<1>10. PlacedPartitions(R, P) = B \o O
  BY <1>2, <1>4, <1>6 DEF PlacedPartitions
<1>11. micro_bsz_idx(P, k) = [i \in 1 .. k |-> PlacedPartitions(R, P)[i].items]
  <2>. DEFINE Above(a, b) == a.sum > b.sum \/ (a.sum = b.sum /\ a.items[1] > b.items[1])
              sorted == [m \in DOMAIN P |->
                P[CHOOSE i \in DOMAIN P : Cardinality({j \in DOMAIN P : Above(P[j], P[i])}) = m - 1]]
  <2>1. \A i, j \in DOMAIN P : <<P[j], P[i]>> \in AbovePairs(R) <=> Above(P[j], P[i])
    BY DEF AbovePairs
  <2>. HIDE DEF Above
  <2>2. ASSUME NEW i \in DOMAIN P
        PROVE  {j \in DOMAIN P : <<P[j], P[i]>> \in AbovePairs(R)} = {j \in DOMAIN P : Above(P[j], P[i])}
    BY <2>1
  <2>3. ASSUME NEW m \in DOMAIN P
        PROVE  (CHOOSE i \in DOMAIN P : Cardinality({j \in DOMAIN P : <<P[j], P[i]>> \in AbovePairs(R)}) = m - 1)
                 = CHOOSE i \in DOMAIN P : Cardinality({j \in DOMAIN P : Above(P[j], P[i])}) = m - 1
    <3>1. \A i : i \in DOMAIN P /\ Cardinality({j \in DOMAIN P : <<P[j], P[i]>> \in AbovePairs(R)}) = m - 1 <=>
                 i \in DOMAIN P /\ Cardinality({j \in DOMAIN P : Above(P[j], P[i])}) = m - 1
      BY <2>2
    <3>. QED BY <3>1
  <2>4. ASSUME NEW m \in DOMAIN P
        PROVE  P[CHOOSE i \in DOMAIN P : Cardinality({j \in DOMAIN P : <<P[j], P[i]>> \in AbovePairs(R)}) = m - 1]
                 = P[CHOOSE i \in DOMAIN P : Cardinality({j \in DOMAIN P : Above(P[j], P[i])}) = m - 1]
    BY <2>3, Zenon
  <2>5. ordered = sorted
    <3>. DEFINE one(m) == P[CHOOSE i \in DOMAIN P : Cardinality({j \in DOMAIN P : <<P[j], P[i]>> \in AbovePairs(R)}) = m - 1]
                two(m) == P[CHOOSE i \in DOMAIN P : Cardinality({j \in DOMAIN P : Above(P[j], P[i])}) = m - 1]
    <3>1. ordered = [m \in DOMAIN P |-> one(m)]
      BY <1>2, Zenon DEF SortedBy
    <3>2. sorted = [m \in DOMAIN P |-> two(m)]
      OBVIOUS
    <3>3. \A m \in DOMAIN P : one(m) = two(m)
      BY <2>4, Zenon
    <3>. HIDE DEF one, two, sorted
    <3>. QED BY <3>1, <3>2, <3>3
  <2>6. micro_bsz_idx(P, k) = [i \in 1 .. k |-> (Reverse(EvenPlaces(sorted)) \o OddPlaces(sorted))[i].items]
    BY DEF micro_bsz_idx, sort, Above
  <2>7. micro_bsz_idx(P, k) = [i \in 1 .. k |-> (Reverse(EvenPlaces(ordered)) \o OddPlaces(ordered))[i].items]
    <3>. HIDE DEF sorted
    <3>. QED BY <2>5, <2>6
  <2>8. PlacedPartitions(R, P) = Reverse(EvenPlaces(ordered)) \o OddPlaces(ordered)
    BY <1>2 DEF PlacedPartitions
  <2>. QED BY <2>7, <2>8
<1>. QED BY <1>8, <1>9, <1>10, <1>11

\* k sequences, none of them empty, that hold each number from 1 to n once
Cover(idx, n, k) ==
    /\ idx \in [1 .. k -> Seq(1 .. n)]
    /\ \A i \in 1 .. k : idx[i] # <<>>
    /\ FlattenSeq(idx) \in Seq(1 .. n)
    /\ Len(FlattenSeq(idx)) = n
    /\ FlattenSeq(idx) \in Bijection(1 .. n, 1 .. n)

\* The micro-batches hold each row of a worker once and none is empty, whatever the
\* lengths of the rows and the number of micro-batches.
THEOREM MicroBatchesCover ==
  ASSUME NEW n \in Nat \ {0}, NEW W \in [1 .. n -> Nat \ {0}], NEW k \in 1 .. n
  PROVE  Cover(micro_bsz_idx(get_seqlen_balanced_partitions(karmarkar_karp(W, k), k), k), n, k)
<1>. DEFINE R == 1 .. n
<1>0. R \in SUBSET Nat /\ k \in Nat
  OBVIOUS
<1>1. PICK sets : sets = karmarkar_karp(W, k)
  OBVIOUS
<1>2. sets \in [1 .. k -> SetOver(R)] /\ Clean(sets, k) /\ Partitioned(sets, R)
  BY <1>1, KarmarkarKarpPartitions
<1>. HIDE DEF R
<1>3. Elements(sets, k) = R /\ \A i \in 1 .. k : sets[i].items # <<>>
  <2>1. DOMAIN sets = 1 .. k
    BY <1>2
  <2>2. \A i \in 1 .. k : ToSet(sets[i].items) = Range(sets[i].items)
    BY DEF ToSet, Range
  <2>. QED BY <1>2, <2>1, <2>2 DEF Partitioned, Elements
<1>4. PICK P : P = get_seqlen_balanced_partitions(sets, k)
  OBVIOUS
<1>5. /\ P \in [1 .. k -> SetOver(R)] /\ Clean(P, k) /\ Elements(P, k) = R
      /\ \A i \in 1 .. k : P[i].items # <<>>
  BY <1>0, <1>2, <1>3, <1>4, BalancedPartitions
<1>6. PICK Q : Q = PlacedPartitions(R, P)
  OBVIOUS
<1>7. /\ micro_bsz_idx(P, k) = [i \in 1 .. k |-> Q[i].items]
      /\ Q \in Seq(SetOver(R)) /\ Len(Q) = k /\ Range(Q) = Range(P) /\ IsInjective(Q)
  BY <1>0, <1>5, <1>6, PartitionsPlaced
<1>8. PICK idx : idx = [i \in 1 .. k |-> Q[i].items]
  OBVIOUS
<1>9. \A i \in 1 .. k : \E j \in 1 .. k : Q[i] = P[j]
  <2>1. \A i \in 1 .. k : Q[i] \in Range(Q)
    BY <1>7 DEF Range
  <2>. QED BY <1>5, <1>7, <2>1 DEF Range
<1>10. \A i, j \in 1 .. k : Q[i] = Q[j] => i = j
  <2>1. DOMAIN Q = 1 .. k
    BY <1>7
  <2>. QED BY <1>7, <2>1 DEF IsInjective
<1>11. ASSUME NEW i \in 1 .. k
       PROVE  idx[i] \in Seq(R) /\ idx[i] # <<>> /\ IsInjective(idx[i])
  <2>1. PICK j \in 1 .. k : Q[i] = P[j]
    BY <1>9
  <2>2. P[j].items \in Seq(R)
    BY <1>5 DEF SetOver
  <2>. QED BY <1>5, <1>8, <2>1, <2>2 DEF Clean
<1>12. ASSUME NEW i \in 1 .. k, NEW j \in 1 .. k, i # j
       PROVE  Range(idx[i]) \intersect Range(idx[j]) = {}
  <2>1. PICK a \in 1 .. k : Q[i] = P[a]
    BY <1>9
  <2>2. PICK b \in 1 .. k : Q[j] = P[b]
    BY <1>9
  <2>3. a # b
    BY <1>10, <1>12, <2>1, <2>2
  <2>4. Range(P[a].items) \intersect Range(P[b].items) = {}
    BY <1>5, <2>3 DEF Clean
  <2>. QED BY <1>8, <2>1, <2>2, <2>4
<1>13. UNION {Range(idx[i]) : i \in 1 .. k} = R
  <2>1. ASSUME NEW x \in R PROVE \E i \in 1 .. k : x \in Range(idx[i])
    <3>1. PICK j \in 1 .. k : x \in Range(P[j].items)
      BY <1>5 DEF Elements
    <3>2. P[j] \in Range(Q)
      BY <1>5, <1>7 DEF Range
    <3>3. PICK i \in 1 .. k : Q[i] = P[j]
      BY <1>7, <3>2 DEF Range
    <3>. QED BY <1>8, <3>1, <3>3
  <2>2. ASSUME NEW i \in 1 .. k PROVE Range(idx[i]) \subseteq R
    BY <1>11 DEF Range
  <2>. QED BY <2>1, <2>2
<1>14. idx \in [1 .. k -> Seq(R)] /\ idx \in Seq(Seq(R)) /\ Len(idx) = k
  <2>1. idx \in [1 .. k -> Seq(R)]
    BY <1>8, <1>11
  <2>2. PICK x \in [1 .. k -> Seq(R)] : x = idx
    BY <2>1
  <2>3. x \in Seq(Seq(R)) /\ Len(x) = k
    BY <1>0
  <2>. QED BY <2>1, <2>2, <2>3
<1>15. PICK all \in Seq(R) : all = FlattenSeq(idx)
  BY <1>14, FlattenElements
<1>16. Range(all) = R /\ IsInjective(all)
  <2>1. Range(all) = UNION {Range(idx[i]) : i \in 1 .. k}
    BY <1>14, <1>15, FlattenElements
  <2>2. IsInjective(all)
    BY <1>11, <1>12, <1>14, <1>15, FlattenElements
  <2>. QED BY <1>13, <2>1, <2>2
<1>17. Len(all) = n
  <2>1. Cardinality(R) = Len(all)
    BY <1>16, ElementsCounted
  <2>2. Cardinality(1 .. n) = n
    BY FS_Interval
  <2>. QED BY <2>1, <2>2 DEF R
<1>18. all \in Bijection(1 .. n, R)
  <2>1. DOMAIN all = 1 .. n /\ all \in [1 .. n -> R]
    BY <1>17
  <2>. QED BY <1>16, <2>1 DEF Bijection, Injection, Surjection, IsInjective, Range
<1>19. Cover(idx, n, k)
  BY <1>11, <1>14, <1>15, <1>17, <1>18 DEF Cover, R
<1>. QED BY <1>1, <1>4, <1>7, <1>8, <1>19

\* Putting the micro-batches' rows back gives the rows as they were.
THEOREM RestoredInOrder ==
  ASSUME NEW n \in Nat, NEW k \in Nat, NEW idx, Cover(idx, n, k),
         NEW D, NEW rows \in Seq(D), Len(rows) = n
  PROVE  restore_dynamic_batch(FlattenSeq(Mapped(rows, idx)), idx) = rows
<1>1. idx \in Seq(Seq(1 .. n)) /\ Len(idx) = k
  <2>1. PICK x \in [1 .. k -> Seq(1 .. n)] : x = idx
    BY DEF Cover
  <2>2. x \in Seq(Seq(1 .. n)) /\ Len(x) = k
    OBVIOUS
  <2>. QED BY <2>1, <2>2
<1>2. rows \in [1 .. n -> D] /\ DOMAIN rows = 1 .. n
  OBVIOUS
<1>3. PICK all \in Seq(1 .. n) : all = FlattenSeq(idx) /\ Len(all) = n
  BY DEF Cover
<1>4. DOMAIN all = 1 .. n
  BY <1>3
<1>5. FlattenSeq(Mapped(rows, idx)) = [p \in 1 .. n |-> rows[all[p]]]
  <2>1. FlattenSeq(Mapped(rows, idx)) = Applied(rows, all)
    BY <1>1, <1>2, <1>3, FlattenMapped
  <2>. QED BY <1>4, <2>1 DEF Applied
<1>6. all \in [1 .. n -> 1 .. n] /\ \A i \in 1 .. n : \E j \in 1 .. n : all[j] = i
  BY <1>3 DEF Cover, Bijection, Injection, Surjection
<1>7. PICK reverse : reverse = [i \in 1 .. n |-> CHOOSE j \in 1 .. n : all[j] = i]
  OBVIOUS
<1>8. \A i \in 1 .. n : reverse[i] \in 1 .. n /\ all[reverse[i]] = i
  BY <1>6, <1>7
<1>9. PICK outputs : outputs = [p \in 1 .. n |-> rows[all[p]]]
  OBVIOUS
<1>10. restore_dynamic_batch(outputs, idx) = [i \in 1 .. n |-> outputs[reverse[i]]]
  BY <1>3, <1>4, <1>7, <1>9 DEF restore_dynamic_batch, get_reverse_idx
<1>11. \A i \in 1 .. n : outputs[reverse[i]] = rows[i]
  BY <1>8, <1>9
<1>12. rows = [i \in 1 .. n |-> rows[i]]
  BY <1>2
<1>. QED BY <1>5, <1>9, <1>10, <1>11, <1>12

-----------------------------------------------------------------------------
(* Sending a batch out and collecting it *)

\* The workers are SpSize times DpSize, and the ranks of the data-parallel groups are
\* below DpSize.
LEMMA MeshSizes ==
  /\ WorldSize \in Nat \ {0} /\ SpSize \in Nat \ {0} /\ DpSize \in Nat \ {0}
  /\ WorldSize = SpSize * DpSize
  /\ \A w \in Workers : w \in Nat /\ dp_rank(w) \in 0 .. DpSize - 1
  /\ dp_rank(WorldSize - 1) = DpSize - 1
<1>1. WorldSize \in Nat \ {0} /\ SpSize \in Nat \ {0} /\ WorldSize % SpSize = 0
  BY MeshAssumption
<1>2. WorldSize = SpSize * DpSize /\ DpSize \in Nat
  BY <1>1, Quotients DEF DpSize
<1>3. DpSize # 0
  BY <1>1, <1>2
<1>4. ASSUME NEW w \in Workers PROVE w \in Nat /\ dp_rank(w) \in 0 .. DpSize - 1
  <2>1. w \in Nat /\ w < WorldSize
    BY <1>1 DEF Workers
  <2>2. PICK d \in Nat, m \in 0 .. SpSize - 1 : d = dp_rank(w) /\ w = SpSize * d + m
    <3>1. w \div SpSize \in Nat /\ w % SpSize \in 0 .. SpSize - 1 /\ w = SpSize * (w \div SpSize) + (w % SpSize)
      BY <1>1, <2>1, Quotients
    <3>. QED BY <3>1 DEF dp_rank
  <2>3. ~(d >= DpSize)
    <3>1. d >= DpSize => SpSize * d >= SpSize * DpSize
      BY <1>1, <1>2
    <3>. QED BY <1>1, <1>2, <2>1, <2>2, <3>1
  <2>. QED BY <1>2, <2>1, <2>2, <2>3
<1>5. dp_rank(WorldSize - 1) = DpSize - 1
  <2>1. WorldSize \div SpSize = (WorldSize - 1) \div SpSize + 1
    BY <1>1, Quotients
  <2>2. (WorldSize - 1) \div SpSize \in Nat
    BY <1>1, Quotients
  <2>. QED BY <2>1, <2>2 DEF dp_rank, DpSize
<1>. QED BY <1>1, <1>2, <1>3, <1>4, <1>5

\* Each data-parallel rank has a worker at each place of its sequence-parallel group.
LEMMA RankHasWorker ==
  ASSUME NEW d \in 0 .. DpSize - 1, NEW m \in 0 .. SpSize - 1
  PROVE  \E x \in Workers : dp_rank(x) = d /\ x % SpSize = m
<1>1. SpSize \in Nat \ {0} /\ WorldSize = SpSize * DpSize /\ DpSize \in Nat \ {0}
  BY MeshSizes
<1>2. PICK x : x = SpSize * d + m
  OBVIOUS
<1>3. x \in Workers /\ d \in Nat
  <2>1. SpSize * DpSize = SpSize * d + SpSize + SpSize * (DpSize - 1 - d)
    BY <1>1
  <2>2. SpSize * (DpSize - 1 - d) \in Nat /\ SpSize * d \in Nat
    <3>1. PICK e \in Nat, d2 \in Nat : e = DpSize - 1 - d /\ d2 = d
      BY <1>1
    <3>2. SpSize * e \in Nat /\ SpSize * d2 \in Nat
      BY <1>1
    <3>. QED BY <3>1, <3>2
  <2>. QED BY <1>1, <1>2, <2>1, <2>2 DEF Workers
<1>4. x \div SpSize = d /\ x % SpSize = m
  BY <1>1, <1>2, <1>3, Quotients
<1>. QED BY <1>3, <1>4 DEF dp_rank

\* A worker's shard: a block of the batch
LEMMA ShardOf ==
  ASSUME NEW D, NEW L \in Nat, NEW rows \in Seq(D), Len(rows) = DpSize * L, NEW w \in Workers
  PROVE  LET shards == dispatch_nd_compute(rows)
         IN  /\ shards[w] \in Seq(D) /\ Len(shards[w]) = L
             /\ \A j \in 1 .. L : /\ dp_rank(w) * L + j \in 1 .. Len(rows)
                                  /\ shards[w][j] = rows[dp_rank(w) * L + j]
<1>. DEFINE d == dp_rank(w)
            shards == dispatch_nd_compute(rows)
<1>1. d \in 0 .. DpSize - 1 /\ DpSize \in Nat \ {0}
  BY MeshSizes
<1>2. Len(rows) \div DpSize = L
  <2>1. DpSize * L + 0 = Len(rows) /\ 0 \in 0 .. DpSize - 1
    BY <1>1
  <2>. QED BY <1>1, <2>1, Quotients
<1>3. shards[w] = SubSeq(rows, d * L + 1, (d + 1) * L)
  BY <1>1, <1>2 DEF dispatch_nd_compute, Chunk
<1>. HIDE DEF shards, d
<1>4. /\ d * L \in Nat /\ (d + 1) * L \in Nat /\ (d + 1) * L = d * L + L
      /\ (d + 1) * L <= Len(rows)
  <2>1. d * L \in Nat /\ (d + 1) * L \in Nat /\ (d + 1) * L = d * L + L
    BY <1>1
  <2>2. (DpSize - (d + 1)) * L \in Nat
    BY <1>1
  <2>3. DpSize * L = (d + 1) * L + (DpSize - (d + 1)) * L
    BY <1>1
  <2>. QED BY <2>1, <2>2, <2>3
<1>5. PICK a \in Nat, b \in Nat : a = d * L /\ b = (d + 1) * L
  BY <1>4
<1>6. shards[w] = SubSeq(rows, a + 1, b) /\ b = a + L /\ b <= Len(rows) /\ Len(rows) \in Nat
  BY <1>3, <1>4, <1>5
<1>7. /\ SubSeq(rows, a + 1, b) \in Seq(D) /\ Len(SubSeq(rows, a + 1, b)) = L
      /\ \A j \in 1 .. L : a + j \in 1 .. Len(rows) /\ SubSeq(rows, a + 1, b)[j] = rows[a + j]
  <2>1. \A j \in 1 .. L : a + j \in 1 .. Len(rows)
    BY <1>6
  <2>2. SubSeq(rows, a + 1, b) = [j \in 1 .. L |-> rows[a + j]]
    BY <1>6
  <2>3. \A j \in 1 .. L : rows[a + j] \in D
    BY <2>1
  <2>4. PICK t \in [1 .. L -> D] : t = SubSeq(rows, a + 1, b)
    BY <2>2, <2>3
  <2>5. t \in Seq(D) /\ Len(t) = L
    OBVIOUS
  <2>. QED BY <2>1, <2>2, <2>4, <2>5
<1>. QED BY <1>5, <1>6, <1>7 DEF shards, d

\* What the workers return for the rows they were sent is collected in the order of
\* the batch.
LEMMA CollectedShards ==
  ASSUME NEW D, NEW L \in Nat \ {0}, NEW rows \in Seq(D), Len(rows) = DpSize * L,
         NEW output, \A w \in Workers : output[w] = dispatch_nd_compute(rows)[w]
  PROVE  collect_nd_compute(output) = rows
<1>. DEFINE N == WorldSize
            seqs == [i \in 1 .. N |-> IF is_collect(i - 1) THEN output[i - 1] ELSE <<>>]
            count(i) == IF i = 0 THEN 0 ELSE dp_rank(i - 1) + 1
            at == [i \in 0 .. N |-> count(i) * L]
<1>1. /\ N \in Nat \ {0} /\ DpSize \in Nat \ {0} /\ SpSize \in Nat \ {0} /\ count(N) = DpSize
  BY MeshSizes
<1>2. ASSUME NEW i \in 1 .. N
      PROVE  /\ i - 1 \in Workers /\ dp_rank(i - 1) \in Nat
             /\ output[i - 1] \in Seq(D) /\ Len(output[i - 1]) = L
             /\ \A j \in 1 .. L : output[i - 1][j] = rows[dp_rank(i - 1) * L + j]
  <2>1. i - 1 \in Workers
    BY <1>1 DEF Workers
  <2>2. dp_rank(i - 1) \in Nat
    BY <2>1, MeshSizes
  <2>3. PICK w \in Workers : w = i - 1
    BY <2>1
  <2>4. output[w] = dispatch_nd_compute(rows)[w]
    OBVIOUS
  <2>5. /\ output[w] \in Seq(D) /\ Len(output[w]) = L
        /\ \A j \in 1 .. L : output[w][j] = rows[dp_rank(w) * L + j]
    BY <2>4, ShardOf
  <2>. QED BY <2>1, <2>2, <2>3, <2>5
<1>3. ASSUME NEW i \in 1 .. N
      PROVE  /\ count(i) \in Nat /\ count(i - 1) \in Nat
             /\ is_collect(i - 1) => count(i - 1) = dp_rank(i - 1) /\ count(i) = count(i - 1) + 1
             /\ ~is_collect(i - 1) => count(i) = count(i - 1)
  <2>1. CASE i = 1
    <3>1. 0 \div SpSize = 0 /\ 0 % SpSize = 0
      <4>1. SpSize * 0 + 0 = 0 /\ 0 \in 0 .. SpSize - 1
        BY <1>1
      <4>. QED BY <1>1, <4>1, Quotients
    <3>. QED BY <2>1, <3>1 DEF dp_rank, is_collect
  <2>2. CASE i # 1
    <3>1. i - 1 \in Nat \ {0} /\ i - 1 \in 1 .. N
      BY <1>1, <2>2
    <3>2. IF is_collect(i - 1) THEN dp_rank(i - 1) = dp_rank(i - 1 - 1) + 1
                               ELSE dp_rank(i - 1) = dp_rank(i - 1 - 1)
      BY <1>1, <3>1, Quotients DEF is_collect, dp_rank
    <3>3. dp_rank(i - 1) \in Nat /\ dp_rank(i - 1 - 1) \in Nat
      BY <1>2, <3>1
    <3>. QED BY <2>2, <3>1, <3>2, <3>3
  <2>. QED BY <2>1, <2>2
<1>. HIDE DEF count
<1>4. ASSUME NEW i \in 1 .. N
      PROVE  /\ seqs[i] \in Seq(D)
             /\ IF is_collect(i - 1) THEN Len(seqs[i]) = L ELSE Len(seqs[i]) = 0
             /\ seqs[i] = IF is_collect(i - 1) THEN output[i - 1] ELSE <<>>
  BY <1>2
<1>5. PICK blocks \in Seq(Seq(D)) : blocks = seqs /\ Len(blocks) = N
  <2>1. PICK t \in [1 .. N -> Seq(D)] : t = seqs
    BY <1>4
  <2>2. t \in Seq(Seq(D)) /\ Len(t) = N
    BY <1>1
  <2>. QED BY <2>1, <2>2
<1>6. collect_nd_compute(output) = FlattenSeq(blocks)
  BY <1>5 DEF collect_nd_compute
<1>. HIDE DEF seqs, N
<1>7. at \in [0 .. N -> Nat] /\ at[0] = 0 /\ \A i \in 0 .. N : at[i] = count(i) * L
  <2>1. count(0) = 0
    BY DEF count
  <2>2. ASSUME NEW i \in 0 .. N PROVE count(i) * L \in Nat
    <3>1. count(i) \in Nat
      BY <1>3, <2>1
    <3>. QED BY <3>1
  <2>. QED BY <1>1, <2>1, <2>2
<1>. HIDE DEF at
<1>8. Places(at, Lengths(blocks), Len(blocks))
  <2>1. ASSUME NEW i \in 1 .. N PROVE at[i] = at[i - 1] + Len(blocks[i])
    <3>1. at[i] = count(i) * L /\ at[i - 1] = count(i - 1) * L
      BY <1>1, <1>7
    <3>2. CASE is_collect(i - 1)
      <4>1. (count(i - 1) + 1) * L = count(i - 1) * L + L
        BY <1>3
      <4>. QED BY <1>3, <1>4, <1>5, <3>1, <3>2, <4>1
    <3>3. CASE ~is_collect(i - 1)
      <4>1. Len(blocks[i]) = 0 /\ count(i) = count(i - 1)
        BY <1>3, <1>4, <1>5, <3>3
      <4>2. count(i) * L \in Nat
        BY <1>3
      <4>. QED BY <3>1, <4>1, <4>2
    <3>. QED BY <3>2, <3>3
  <2>2. \A i \in 1 .. N : Lengths(blocks)[i] = Len(blocks[i])
    BY <1>5 DEF Lengths
  <2>. QED BY <1>5, <1>7, <2>1, <2>2 DEF Places
<1>9. PICK all \in Seq(D) : all = FlattenSeq(blocks) /\ LaidOut(blocks, at, all)
  BY <1>8, FlattenPlaces
<1>10. Len(all) = Len(rows)
  <2>1. Len(all) = at[N]
    BY <1>5, <1>9 DEF LaidOut
  <2>. QED BY <1>1, <1>7, <2>1
<1>11. ASSUME NEW p \in 1 .. Len(all) PROVE all[p] = rows[p]
  <2>0. Len(all) = at[N]
    BY <1>5, <1>9 DEF LaidOut
  <2>1. PICK i \in 1 .. N : \E j \in 1 .. Len(blocks[i]) : p = at[i - 1] + j
    BY <1>5, <1>9, <2>0 DEF LaidOut
  <2>2. PICK j \in 1 .. Len(blocks[i]) : p = at[i - 1] + j
    BY <2>1
  <2>3. all[p] = blocks[i][j]
    BY <1>5, <1>9, <2>2 DEF LaidOut
  <2>4. is_collect(i - 1) /\ j \in 1 .. L /\ blocks[i] = output[i - 1]
    BY <1>4, <1>5, <2>2
  <2>5. at[i - 1] = dp_rank(i - 1) * L
    BY <1>1, <1>3, <1>7, <2>4
  <2>6. output[i - 1][j] = rows[dp_rank(i - 1) * L + j]
    BY <1>2, <2>4
  <2>. QED BY <2>2, <2>3, <2>4, <2>5, <2>6
<1>12. all = rows
  BY <1>10, <1>11
<1>. QED BY <1>6, <1>9, <1>12

-----------------------------------------------------------------------------
(* The chunks that _balance_batch starts from *)

\* How many rows come before a row in the order of their work
RankOf(W, r) == Cardinality({s \in DOMAIN W : RowBelow(W, s, r)})

RowOrder(W, S) == {pair \in S \X S : RowBelow(W, pair[1], pair[2])}

\* No two rows come at one place in it.
LEMMA RowsOrdered ==
  ASSUME NEW N \in Nat, NEW W \in [1 .. N -> Nat]
  PROVE  /\ StrictTotalOrder(RowOrder(W, 1 .. N), 1 .. N)
         /\ \A r, s \in 1 .. N : <<s, r>> \in RowOrder(W, 1 .. N) <=> RowBelow(W, s, r)
         /\ \A r \in 1 .. N : RankOf(W, r) \in 0 .. N - 1
         /\ [r \in 1 .. N |-> RankOf(W, r)] \in Bijection(1 .. N, 0 .. N - 1)
<1>1. DOMAIN W = 1 .. N /\ \A r \in 1 .. N : W[r] \in Nat
  OBVIOUS
<1>2. \A r, s \in 1 .. N : <<s, r>> \in RowOrder(W, 1 .. N) <=> RowBelow(W, s, r)
  BY DEF RowOrder
<1>3. StrictTotalOrder(RowOrder(W, 1 .. N), 1 .. N)
  <2>1. ASSUME NEW x \in 1 .. N PROVE <<x, x>> \notin RowOrder(W, 1 .. N)
    BY <1>1, <1>2 DEF RowBelow
  <2>2. ASSUME NEW x \in 1 .. N, NEW y \in 1 .. N, x # y
        PROVE  <<x, y>> \in RowOrder(W, 1 .. N) \/ <<y, x>> \in RowOrder(W, 1 .. N)
    BY <1>1, <1>2, <2>2 DEF RowBelow
  <2>3. ASSUME NEW x \in 1 .. N, NEW y \in 1 .. N, NEW z \in 1 .. N,
               <<x, y>> \in RowOrder(W, 1 .. N), <<y, z>> \in RowOrder(W, 1 .. N)
        PROVE  <<x, z>> \in RowOrder(W, 1 .. N)
    <3>1. RowBelow(W, x, y) /\ RowBelow(W, y, z)
      BY <1>2, <2>3
    <3>2. RowBelow(W, x, z)
      BY <1>1, <3>1 DEF RowBelow
    <3>. QED BY <1>2, <3>2
  <2>. QED BY <2>1, <2>2, <2>3 DEF StrictTotalOrder
<1>. DEFINE rank == [r \in 1 .. N |-> Cardinality({s \in 1 .. N : <<s, r>> \in RowOrder(W, 1 .. N)})]
<1>4. IsFiniteSet(1 .. N) /\ Cardinality(1 .. N) = N
  BY FS_Interval
<1>5. rank \in Bijection(1 .. N, 0 .. N - 1)
  BY <1>3, <1>4, Ranks
<1>6. ASSUME NEW r \in 1 .. N PROVE RankOf(W, r) = Cardinality({s \in 1 .. N : <<s, r>> \in RowOrder(W, 1 .. N)})
  <2>1. {s \in DOMAIN W : RowBelow(W, s, r)} = {s \in 1 .. N : <<s, r>> \in RowOrder(W, 1 .. N)}
    BY <1>1, <1>2
  <2>. QED BY <2>1 DEF RankOf
<1>7. rank = [r \in 1 .. N |-> RankOf(W, r)]
  BY <1>6
<1>8. \A r \in 1 .. N : RankOf(W, r) \in 0 .. N - 1
  <2>1. rank \in [1 .. N -> 0 .. N - 1]
    BY <1>5 DEF Bijection, Injection
  <2>2. \A r \in 1 .. N : rank[r] = RankOf(W, r)
    BY <1>6
  <2>. HIDE DEF rank
  <2>. QED BY <2>1, <2>2
<1>. HIDE DEF rank
<1>. QED BY <1>2, <1>3, <1>5, <1>7, <1>8

\* A chunk has k rows.
LEMMA ChunkRows ==
  ASSUME NEW N \in Nat, NEW W \in [1 .. N -> Nat], NEW offset \in Nat, NEW k \in Nat, offset + k <= N
  PROVE  LET chunk == ChunkAt(W, offset, k)
         IN  /\ chunk = {r \in 1 .. N : RankOf(W, r) \in offset .. offset + k - 1}
             /\ IsFiniteSet(chunk) /\ Cardinality(chunk) = k
<1>. DEFINE chunk == ChunkAt(W, offset, k)
            places == offset .. offset + k - 1
            f == [r \in chunk |-> RankOf(W, r)]
<1>1. chunk = {r \in 1 .. N : RankOf(W, r) \in places}
  BY DEF ChunkAt, RankOf
<1>. HIDE DEF chunk
<1>2. PICK rank : rank = [r \in 1 .. N |-> RankOf(W, r)]
  OBVIOUS
<1>3. /\ \A r, s \in 1 .. N : rank[r] = rank[s] => r = s
      /\ \A m \in 0 .. N - 1 : \E r \in 1 .. N : rank[r] = m
      /\ \A r \in 1 .. N : rank[r] = RankOf(W, r)
  <2>1. rank \in Bijection(1 .. N, 0 .. N - 1)
    BY <1>2, RowsOrdered
  <2>. QED BY <1>2, <2>1 DEF Bijection, Injection, Surjection, IsInjective
<1>4. \A m \in places : m \in 0 .. N - 1
  OBVIOUS
<1>5. f \in Bijection(chunk, places)
  <2>1. f \in [chunk -> places]
    BY <1>1
  <2>2. ASSUME NEW r \in chunk, NEW s \in chunk, f[r] = f[s] PROVE r = s
    <3>1. r \in 1 .. N /\ s \in 1 .. N /\ RankOf(W, r) = RankOf(W, s)
      BY <1>1, <2>2
    <3>. QED BY <1>3, <3>1
  <2>3. \A m \in places : \E r \in chunk : f[r] = m
    BY <1>1, <1>3, <1>4
  <2>. HIDE DEF f, places
  <2>. QED BY <2>1, <2>2, <2>3 DEF Bijection, Injection, Surjection, IsInjective
<1>6. IsFiniteSet(places) /\ Cardinality(places) = k
  <2>1. offset \in Int /\ offset + k - 1 \in Int
    OBVIOUS
  <2>2. IsFiniteSet(places) /\ Cardinality(places) = IF offset > offset + k - 1 THEN 0 ELSE (offset + k - 1) - offset + 1
    BY <2>1, FS_Interval
  <2>. QED BY <2>2
<1>. HIDE DEF f, places
<1>7. IsFiniteSet(chunk) /\ Cardinality(chunk) = k
  <2>1. f \in Injection(chunk, places) /\ f \in Surjection(chunk, places)
    BY <1>5 DEF Bijection
  <2>. QED BY <1>6, <2>1, FS_Injection
<1>. QED BY <1>1, <1>7 DEF chunk, places

\* Every set of a state has as many rows.
EqualSets(s, k) == \E n \in Nat : \A i \in 1 .. k : Len(s[i].items) = n

\* A chunk's state holds its rows, one in each set.
LEMMA ChunkStateGood ==
  ASSUME NEW N \in Nat, NEW W \in [1 .. N -> Nat \ {0}], NEW k \in Nat \ {0},
         NEW chunk \in SUBSET (1 .. N), IsFiniteSet(chunk), Cardinality(chunk) = k,
         NEW s \in StatesOfChunk(W, chunk, k)
  PROVE  GoodState(s, k, 1 .. N) /\ Elements(s, k) = chunk /\ EqualSets(s, k)
<1>. DEFINE R == 1 .. N
            row == [i \in 1 .. k |-> CHOOSE r \in chunk : s[i] = Singleton(W, r)]
<1>0. R \in SUBSET Nat /\ 1 \in 1 .. k
  OBVIOUS
<1>1. ASSUME NEW i \in 1 .. k PROVE row[i] \in chunk /\ s[i] = Singleton(W, row[i])
  <2>1. \E r \in chunk : s[i] = Singleton(W, r)
    BY DEF StatesOfChunk
  <2>. QED BY <2>1
<1>2. row \in [1 .. k -> chunk]
  BY <1>1
<1>. HIDE DEF row
<1>3. ASSUME NEW i \in 1 .. k
      PROVE  /\ s[i] = [sum |-> W[row[i]], items |-> <<row[i]>>] /\ W[row[i]] > 0
             /\ s[i] \in SetOver(R)
  <2>1. PICK r \in R : r = row[i] /\ s[i] = Singleton(W, r)
    BY <1>1
  <2>2. W[r] \in Int /\ W[r] > 0 /\ <<r>> \in Seq(R)
    OBVIOUS
  <2>3. s[i] = [sum |-> W[r], items |-> <<r>>]
    BY <2>1 DEF Singleton
  <2>. QED BY <2>1, <2>2, <2>3 DEF SetOver
<1>4. ASSUME NEW i \in 1 .. k
      PROVE  /\ s[i].items # <<>> /\ s[i].sum > 0
             /\ Range(s[i].items) = {row[i]} /\ IsInjective(s[i].items) /\ Len(s[i].items) = 1
  <2>1. PICK r : r = row[i]
    OBVIOUS
  <2>2. s[i].items = <<r>> /\ s[i].sum = W[r] /\ W[r] > 0
    <3>1. s[i] = [sum |-> W[r], items |-> <<r>>] /\ W[r] > 0
      BY <1>3, <2>1
    <3>. QED BY <3>1
  <2>3. Range(<<r>>) = {r} /\ IsInjective(<<r>>) /\ Len(<<r>>) = 1 /\ <<r>> # <<>>
    BY DEF Range, IsInjective
  <2>. QED BY <2>1, <2>2, <2>3
<1>. HIDE DEF R
<1>5. ASSUME NEW i \in 1 .. k, NEW j \in 1 .. k, row[i] = row[j] PROVE i = j
  <2>1. s[i] = s[j] /\ s[i] \in SetOver(R)
    BY <1>1, <1>3, <1>5
  <2>2. ~SetBelow(s[i], s[j]) /\ ~SetBelow(s[j], s[i])
    BY <1>0, <2>1, SetOrder
  <2>3. ~(i < j) /\ ~(j < i)
    BY <2>2 DEF StatesOfChunk
  <2>. QED BY <2>3
<1>6. \A r \in chunk : \E i \in 1 .. k : row[i] = r
  <2>1. row \in Injection(1 .. k, chunk)
    BY <1>2, <1>5 DEF Injection, IsInjective
  <2>2. Cardinality(1 .. k) = k
    BY FS_Interval
  <2>3. row \in Surjection(1 .. k, chunk)
    BY <2>1, <2>2, FS_Injection
  <2>. QED BY <2>3 DEF Surjection
<1>7. Elements(s, k) = chunk
  <2>1. \A i \in 1 .. k : Range(s[i].items) = {row[i]} /\ row[i] \in chunk
    BY <1>2, <1>4
  <2>2. ASSUME NEW x \in Elements(s, k) PROVE x \in chunk
    <3>1. PICK i \in 1 .. k : x \in Range(s[i].items)
      BY DEF Elements
    <3>. QED BY <2>1, <3>1
  <2>3. ASSUME NEW x \in chunk PROVE x \in Elements(s, k)
    <3>1. PICK i \in 1 .. k : row[i] = x
      BY <1>6
    <3>2. x \in Range(s[i].items)
      BY <2>1, <3>1
    <3>. QED BY <3>2 DEF Elements
  <2>. QED BY <2>2, <2>3
<1>8. StateOver(s, k, R)
  BY <1>3 DEF StateOver, StatesOfChunk
<1>9. Clean(s, k)
  <2>1. \A i \in 1 .. k : Range(s[i].items) = {row[i]} /\ IsInjective(s[i].items)
    BY <1>4
  <2>2. ASSUME NEW i \in 1 .. k, NEW j \in 1 .. k, i # j
        PROVE  Range(s[i].items) \intersect Range(s[j].items) = {}
    <3>1. row[i] # row[j] /\ Range(s[i].items) = {row[i]} /\ Range(s[j].items) = {row[j]}
      BY <1>5, <2>1, <2>2
    <3>. QED BY <3>1
  <2>. QED BY <2>1, <2>2 DEF Clean
<1>10. Weighed(s, k) /\ Filled(s, k)
  BY <1>4 DEF Weighed, Filled
<1>11. chunk # {}
  BY <1>0, <1>2
<1>12. EqualSets(s, k)
  BY <1>4 DEF EqualSets
<1>. QED BY <1>7, <1>8, <1>9, <1>10, <1>11, <1>12 DEF GoodState, R

\* Merging adds up the rows.
LEMMA MergedEqual ==
  ASSUME NEW R, NEW k \in Nat, NEW a, StateOver(a, k, R), NEW b, StateOver(b, k, R),
         EqualSets(a, k), EqualSets(b, k), NEW m \in Merged(a, b, k)
  PROVE  EqualSets(m, k)
<1>1. PICK x \in Nat : \A i \in 1 .. k : Len(a[i].items) = x
  BY DEF EqualSets
<1>2. PICK y \in Nat : \A i \in 1 .. k : Len(b[i].items) = y
  BY DEF EqualSets
<1>3. PICK p \in Bijection(1 .. k, 1 .. k) : m = [i \in 1 .. k |-> Paired(a, b, k)[p[i]]]
  BY DEF Merged, Sorted, Paired
<1>4. p \in [1 .. k -> 1 .. k]
  BY DEF Bijection, Injection
<1>5. ASSUME NEW i \in 1 .. k PROVE Len(Paired(a, b, k)[i].items) = x + y
  <2>1. k + 1 - i \in 1 .. k
    OBVIOUS
  <2>2. a[i].items \in Seq(R) /\ b[k + 1 - i].items \in Seq(R)
    BY <2>1 DEF StateOver, SetOver
  <2>3. PICK q \in Seq(R), r \in Seq(R) : q = a[i].items /\ r = b[k + 1 - i].items
    BY <2>2
  <2>4. Len(q \o r) = Len(q) + Len(r)
    OBVIOUS
  <2>5. Paired(a, b, k)[i].items = q \o r
    BY <2>3 DEF Paired, MergedSet
  <2>. QED BY <1>1, <1>2, <2>1, <2>3, <2>4, <2>5
<1>6. \A i \in 1 .. k : Len(m[i].items) = x + y
  BY <1>3, <1>4, <1>5
<1>7. x + y \in Nat
  OBVIOUS
<1>. QED BY <1>6, <1>7 DEF EqualSets

-----------------------------------------------------------------------------
(* The rows of the batch *)

\* Every row has some work.
LEMMA WorkPositive ==
  ASSUME seqlen \in Batches
  PROVE  Workload \in [Rows -> Nat \ {0}] /\ NumRows \in Nat /\ Rows \in SUBSET Nat
<1>1. seqlen \in [Rows -> Nat \ {0}] /\ NumRows \in Nat
  BY BatchAssumption
<1>2. ASSUME NEW r \in Rows PROVE calculate_workload(seqlen[r]) \in Nat \ {0}
  <2>1. PICK n \in Nat \ {0} : n = seqlen[r]
    BY <1>1
  <2>2. n * n \in Nat
    OBVIOUS
  <2>. QED BY <2>1, <2>2 DEF calculate_workload
<1>. QED BY <1>1, <1>2 DEF Workload, Rows

\* A rank's rows in the order in which it gets them
SortedRows(q) == SortedBy(RowOrder(Workload, Rows), q)

\* _balance_batch gives a rank the rows of its partition, at other places.
LEMMA RankRows ==
  ASSUME seqlen \in Batches, NEW q \in Seq(Rows), IsInjective(q)
  PROVE  /\ OrderedPartition(q) \in Seq(Rows) /\ Len(OrderedPartition(q)) = Len(q)
         /\ Range(OrderedPartition(q)) = Range(q) /\ IsInjective(OrderedPartition(q))
<1>1. /\ StrictTotalOrder(RowOrder(Workload, Rows), Rows)
      /\ \A r, s \in Rows : <<s, r>> \in RowOrder(Workload, Rows) <=> RowBelow(Workload, s, r)
  <2>1. Workload \in [1 .. NumRows -> Nat] /\ NumRows \in Nat
    BY WorkPositive DEF Rows
  <2>. QED BY <2>1, RowsOrdered DEF Rows
<1>2. Range(q) \subseteq Rows
  BY DEF Range
<1>3. StrictTotalOrder(RowOrder(Workload, Rows), Range(q))
  BY <1>1, <1>2 DEF StrictTotalOrder
<1>4. PICK ordered : ordered = SortedRows(q)
  OBVIOUS
<1>5. /\ ordered \in Seq(Rows) /\ Len(ordered) = Len(q)
      /\ Range(ordered) = Range(q) /\ IsInjective(ordered)
  BY <1>3, <1>4, SortedDistinct DEF SortedRows
<1>6. PICK E \in Seq(Rows), O \in Seq(Rows) : E = EvenPlaces(ordered) /\ O = OddPlaces(ordered)
  BY <1>5, AlternatePlaces
<1>7. /\ Len(E) + Len(O) = Len(q) /\ Range(E) \union Range(O) = Range(q)
      /\ IsInjective(E) /\ IsInjective(O) /\ Range(E) \intersect Range(O) = {}
  BY <1>5, <1>6, AlternatePlaces
<1>8. PICK B \in Seq(Rows) : B = Reverse(O)
  BY ReversedElements
<1>9. Len(B) = Len(O) /\ Range(B) = Range(O) /\ IsInjective(B)
  BY <1>7, <1>8, ReversedElements
<1>10. E \o B \in Seq(Rows) /\ Range(E \o B) = Range(q) /\ IsInjective(E \o B)
  <2>1. Range(E) \intersect Range(B) = {} /\ Range(E) \union Range(B) = Range(q)
    BY <1>7, <1>9, Zenon
  <2>2. E \o B \in Seq(Rows) /\ Range(E \o B) = Range(E) \union Range(B) /\ IsInjective(E \o B)
    BY <1>7, <1>9, <2>1, JoinElements
  <2>. QED BY <2>1, <2>2
<1>11. Len(E \o B) = Len(q)
  <2>1. Len(E \o B) = Len(E) + Len(B)
    BY JoinIndices
  <2>. QED BY <1>7, <1>9, <2>1
<1>12. OrderedPartition(q) = E \o B
  <2>. DEFINE below(i) == {j \in DOMAIN q : <<q[j], q[i]>> \in RowOrder(Workload, Rows)}
              Below(r, s) == RowBelow(Workload, r, s)
              under(i) == {j \in DOMAIN q : Below(q[j], q[i])}
              one(m) == q[CHOOSE i \in DOMAIN q : Cardinality(below(i)) = m - 1]
              two(m) == q[CHOOSE i \in DOMAIN q : Cardinality(under(i)) = m - 1]
              sorted == [m \in DOMAIN q |-> two(m)]
  <2>1. \A i \in DOMAIN q : below(i) = under(i)
    <3>1. \A i, j \in DOMAIN q : <<q[j], q[i]>> \in RowOrder(Workload, Rows) <=> RowBelow(Workload, q[j], q[i])
      BY <1>1
    <3>. QED BY <3>1
  <2>2. OrderedPartition(q) = EvenPlaces(sorted) \o Reverse(OddPlaces(sorted))
    BY DEF OrderedPartition, sort
  <2>3. ordered = [m \in DOMAIN q |-> one(m)]
    BY <1>4, Zenon DEF SortedRows, SortedBy
  <2>4. ASSUME NEW m \in DOMAIN q PROVE one(m) = two(m)
    <3>. HIDE DEF below, under
    <3>1. \A i : i \in DOMAIN q /\ Cardinality(below(i)) = m - 1 <=> i \in DOMAIN q /\ Cardinality(under(i)) = m - 1
      BY <2>1
    <3>2. (CHOOSE i \in DOMAIN q : Cardinality(below(i)) = m - 1) = CHOOSE i \in DOMAIN q : Cardinality(under(i)) = m - 1
      BY <3>1
    <3>. QED BY <3>2, Zenon
  <2>5. ordered = sorted
    <3>. HIDE DEF one, two
    <3>. QED BY <2>3, <2>4
  <2>. HIDE DEF sorted
  <2>. QED BY <1>6, <1>8, <2>2, <2>5
<1>. QED BY <1>10, <1>11, <1>12

\* The n rows with the least work
FirstRows(n) == {r \in Rows : RankOf(Workload, r) < n}

\* The heap holds the rows of as many chunks as it has states, until it has them all.
PushedHeap(H) ==
  /\ H # {} => GoodHeap(H, DpSize, Rows)
  /\ \A s \in H : EqualSets(s, DpSize)
  /\ HeapElements(H, DpSize) = FirstRows(DpSize * Cardinality(H))

FullHeap(H) ==
  /\ GoodHeap(H, DpSize, Rows)
  /\ \A s \in H : EqualSets(s, DpSize)
  /\ HeapElements(H, DpSize) = Rows

\* Each rank gets RowsPerRank rows.
LEMMA RowNumbers ==
  /\ NumRows \in Nat \ {0} /\ DpSize \in Nat \ {0} /\ RowsPerRank \in Nat \ {0}
  /\ NumRows = DpSize * RowsPerRank /\ Rows \in SUBSET Nat
<1>1. NumRows \in Nat \ {0} /\ NumRows % DpSize = 0 /\ DpSize \in Nat \ {0}
  BY BatchAssumption, DpSizeType
<1>2. NumRows = DpSize * (NumRows \div DpSize) + (NumRows % DpSize) /\ NumRows \div DpSize \in Nat
  BY <1>1, Quotients
<1>. QED BY <1>1, <1>2, RowsPerRankType DEF RowsPerRank, Rows

\* Pushing the state of a chunk adds its rows, which no other state has.
LEMMA ChunkPushed ==
  ASSUME seqlen \in Batches, NEW H, IsFiniteSet(H), Cardinality(H) < RowsPerRank, PushedHeap(H),
         NEW s \in StatesOfChunk(Workload, ChunkAt(Workload, DpSize * Cardinality(H), DpSize), DpSize)
  PROVE  /\ PushedHeap(H \cup {s}) /\ Cardinality(H \cup {s}) = Cardinality(H) + 1
         /\ GoodHeap(H \cup {s}, DpSize, Rows)
<1>. DEFINE n == Cardinality(H)
            offset == DpSize * n
            chunk == ChunkAt(Workload, offset, DpSize)
<1>1. n \in Nat /\ n < RowsPerRank
  BY FS_CardinalityType
<1>2. offset \in Nat /\ offset + DpSize <= NumRows /\ DpSize * (n + 1) = offset + DpSize
  <2>1. DpSize * (n + 1) = offset + DpSize /\ offset \in Nat
    BY <1>1, RowNumbers
  <2>2. NumRows = DpSize * (n + 1) + DpSize * (RowsPerRank - (n + 1)) /\ DpSize * (RowsPerRank - (n + 1)) \in Nat
    BY <1>1, RowNumbers
  <2>3. DpSize * (n + 1) \in Nat
    BY <1>1, RowNumbers
  <2>. QED BY <2>1, <2>2, <2>3
<1>3. Workload \in [1 .. NumRows -> Nat \ {0}] /\ NumRows \in Nat
  BY WorkPositive DEF Rows
<1>. HIDE DEF n, offset
<1>4. /\ chunk = {r \in Rows : RankOf(Workload, r) \in offset .. offset + DpSize - 1}
      /\ IsFiniteSet(chunk) /\ Cardinality(chunk) = DpSize
  <2>1. Workload \in [1 .. NumRows -> Nat] /\ DpSize \in Nat
    BY <1>3, RowNumbers
  <2>. QED BY <1>2, <1>3, <2>1, ChunkRows DEF Rows
<1>5. ASSUME NEW r \in Rows PROVE RankOf(Workload, r) \in Nat
  <2>1. Workload \in [1 .. NumRows -> Nat]
    BY <1>3
  <2>2. RankOf(Workload, r) \in 0 .. NumRows - 1
    BY <1>3, <2>1, RowsOrdered DEF Rows
  <2>. QED BY <2>2
<1>6. s \in StatesOfChunk(Workload, chunk, DpSize)
  BY DEF n, offset
<1>. HIDE DEF chunk
<1>7. chunk \in SUBSET Rows
  BY <1>4
<1>8. GoodState(s, DpSize, Rows) /\ Elements(s, DpSize) = chunk /\ EqualSets(s, DpSize)
  BY <1>3, <1>4, <1>6, <1>7, RowNumbers, ChunkStateGood DEF Rows
<1>9. ASSUME NEW t \in H PROVE Elements(t, DpSize) \intersect chunk = {}
  <2>1. Elements(t, DpSize) \subseteq FirstRows(offset)
    BY DEF PushedHeap, HeapElements, offset, n
  <2>2. ASSUME NEW r \in chunk, r \in FirstRows(offset) PROVE FALSE
    <3>1. r \in Rows /\ RankOf(Workload, r) \in offset .. offset + DpSize - 1
      BY <1>4
    <3>2. RankOf(Workload, r) < offset
      BY <2>2 DEF FirstRows
    <3>. QED BY <1>2, <1>5, <3>1, <3>2
  <2>. QED BY <2>1, <2>2
<1>10. s \notin H
  <2>1. \E x \in chunk : TRUE
    BY <1>8 DEF GoodState
  <2>. QED BY <1>8, <1>9, <2>1
<1>11. IsFiniteSet(H \cup {s}) /\ Cardinality(H \cup {s}) = n + 1
  BY <1>10, FS_AddElement DEF n
<1>12. ASSUME NEW t \in H PROVE GoodState(t, DpSize, Rows)
  BY DEF PushedHeap, GoodHeap
<1>13. ASSUME NEW t \in H, NEW u \in H, t # u PROVE Elements(t, DpSize) \intersect Elements(u, DpSize) = {}
  BY <1>13 DEF PushedHeap, GoodHeap
<1>14. GoodHeap(H \cup {s}, DpSize, Rows)
  <2>1. \A t \in H \cup {s} : GoodState(t, DpSize, Rows)
    BY <1>8, <1>12
  <2>2. ASSUME NEW t \in H \cup {s}, NEW u \in H \cup {s}, t # u
        PROVE  Elements(t, DpSize) \intersect Elements(u, DpSize) = {}
    <3>1. CASE t \in H /\ u \in H
      BY <1>13, <2>2, <3>1
    <3>2. CASE t \in H /\ u = s
      BY <1>8, <1>9, <3>2
    <3>3. CASE t = s /\ u \in H
      BY <1>8, <1>9, <3>3
    <3>. QED BY <2>2, <3>1, <3>2, <3>3
  <2>. QED BY <1>11, <2>1, <2>2 DEF GoodHeap
<1>15. HeapElements(H \cup {s}, DpSize) = FirstRows(DpSize * (n + 1))
  <2>1. HeapElements(H \cup {s}, DpSize) = HeapElements(H, DpSize) \union Elements(s, DpSize)
    BY DEF HeapElements
  <2>2. HeapElements(H, DpSize) = FirstRows(offset)
    BY DEF PushedHeap, offset, n
  <2>3. FirstRows(offset + DpSize) = FirstRows(offset) \union chunk
    <3>1. \A r \in Rows : RankOf(Workload, r) < offset + DpSize <=>
            RankOf(Workload, r) < offset \/ RankOf(Workload, r) \in offset .. offset + DpSize - 1
      BY <1>2, <1>5, RowNumbers
    <3>. QED BY <1>4, <3>1 DEF FirstRows
  <2>. QED BY <1>2, <1>8, <2>1, <2>2, <2>3
<1>16. \A t \in H \cup {s} : EqualSets(t, DpSize)
  BY <1>8 DEF PushedHeap
<1>. QED BY <1>11, <1>14, <1>15, <1>16 DEF PushedHeap, n

\* All chunks together are all rows.
LEMMA ChunksComplete ==
  ASSUME seqlen \in Batches
  PROVE  /\ FirstRows(DpSize * RowsPerRank) = Rows /\ FirstRows(DpSize * 0) = {}
<1>1. Workload \in [1 .. NumRows -> Nat]
  BY WorkPositive DEF Rows
<1>2. \A r \in Rows : RankOf(Workload, r) \in 0 .. NumRows - 1
  BY <1>1, RowNumbers, RowsOrdered DEF Rows
<1>3. \A r \in Rows : RankOf(Workload, r) < NumRows /\ ~(RankOf(Workload, r) < 0)
  BY <1>2, RowNumbers
<1>4. DpSize * 0 = 0
  BY RowNumbers
<1>. QED BY <1>3, <1>4, RowNumbers DEF FirstRows

\* Merging two states leaves all rows in the heap.
LEMMA StatesMerged ==
  ASSUME NEW H, FullHeap(H), NEW h \in MergedHeaps(H, DpSize)
  PROVE  FullHeap(h) /\ Cardinality(h) = Cardinality(H) - 1
<1>1. GoodHeap(H, DpSize, Rows) /\ DpSize \in Nat \ {0} /\ Rows \in SUBSET Nat
  BY RowNumbers DEF FullHeap
<1>2. PICK a, b : MergedFrom(h, H, a, b, DpSize)
  BY <1>1, MergedHeapsExist
<1>3. PICK m \in Merged(a, b, DpSize) : h = (H \ {a, b}) \cup {m}
  BY <1>2 DEF MergedFrom
<1>4. a \in H /\ b \in H /\ a # b
  BY <1>2 DEF MergedFrom
<1>5. /\ GoodHeap(h, DpSize, Rows) /\ HeapElements(h, DpSize) = HeapElements(H, DpSize)
      /\ Cardinality(h) = Cardinality(H) - 1
  BY <1>1, <1>3, <1>4, MergedHeapGood
<1>6. EqualSets(m, DpSize)
  <2>1. StateOver(a, DpSize, Rows) /\ StateOver(b, DpSize, Rows)
    BY <1>1, <1>4 DEF GoodHeap, GoodState
  <2>2. EqualSets(a, DpSize) /\ EqualSets(b, DpSize)
    BY <1>4 DEF FullHeap
  <2>. QED BY <1>1, <1>3, <2>1, <2>2, MergedEqual
<1>. QED BY <1>3, <1>5, <1>6 DEF FullHeap

\* The last state: every rank gets as many rows, and each row goes to one rank.
LEMMA BatchReordered ==
  ASSUME seqlen \in Batches, NEW H, FullHeap(H), Cardinality(H) = 1,
         NEW state, state = CHOOSE s \in H : TRUE,
         NEW all, all = FlattenSeq([d \in 1 .. DpSize |-> OrderedPartition(state[d].items)])
  PROVE  /\ all \in Seq(Rows) /\ Len(all) = NumRows /\ IsInjective(all) /\ Range(all) = Rows
         /\ \A d \in 1 .. DpSize : Len(state[d].items) = RowsPerRank
<1>1. DpSize \in Nat \ {0} /\ Rows \in SUBSET Nat /\ GoodHeap(H, DpSize, Rows)
  BY RowNumbers DEF FullHeap
<1>2. state \in H /\ H = {state}
  <2>1. H # {}
    BY <1>1 DEF GoodHeap
  <2>2. PICK x : H = {x}
    BY <1>1, FS_Singleton DEF GoodHeap
  <2>. QED BY <2>1, <2>2
<1>3. GoodState(state, DpSize, Rows) /\ Elements(state, DpSize) = Rows /\ EqualSets(state, DpSize)
  <2>1. HeapElements(H, DpSize) = Elements(state, DpSize)
    BY <1>2 DEF HeapElements
  <2>. QED BY <1>1, <1>2, <2>1 DEF FullHeap, GoodHeap
<1>4. ASSUME NEW d \in 1 .. DpSize PROVE state[d].items \in Seq(Rows) /\ IsInjective(state[d].items)
  BY <1>3 DEF GoodState, StateOver, SetOver, Clean
<1>. DEFINE parts == [d \in 1 .. DpSize |-> OrderedPartition(state[d].items)]
<1>5. ASSUME NEW d \in 1 .. DpSize
      PROVE  /\ parts[d] \in Seq(Rows) /\ Len(parts[d]) = Len(state[d].items)
             /\ Range(parts[d]) = Range(state[d].items) /\ IsInjective(parts[d])
  <2>1. PICK q \in Seq(Rows) : q = state[d].items
    BY <1>4
  <2>2. parts[d] = OrderedPartition(q) /\ IsInjective(q)
    BY <1>4, <2>1
  <2>. QED BY <2>1, <2>2, RankRows
<1>6. parts \in Seq(Seq(Rows)) /\ Len(parts) = DpSize
  <2>1. PICK x \in [1 .. DpSize -> Seq(Rows)] : x = parts
    BY <1>5
  <2>2. x \in Seq(Seq(Rows)) /\ Len(x) = DpSize
    BY <1>1
  <2>. QED BY <2>1, <2>2
<1>7. all = FlattenSeq(parts)
  OBVIOUS
<1>. HIDE DEF parts
<1>8. all \in Seq(Rows) /\ Range(all) = UNION {Range(parts[d]) : d \in 1 .. DpSize}
  BY <1>6, <1>7, FlattenElements
<1>9. IsInjective(all)
  <2>1. ASSUME NEW d \in 1 .. DpSize, NEW e \in 1 .. DpSize, d # e
        PROVE  Range(parts[d]) \intersect Range(parts[e]) = {}
    <3>1. Range(state[d].items) \intersect Range(state[e].items) = {}
      BY <1>3, <2>1 DEF GoodState, Clean
    <3>. QED BY <1>5, <3>1
  <2>2. \A d \in 1 .. Len(parts) : IsInjective(parts[d])
    BY <1>5, <1>6
  <2>3. \A d, e \in 1 .. Len(parts) : d # e => Range(parts[d]) \intersect Range(parts[e]) = {}
    BY <1>6, <2>1
  <2>. QED BY <1>6, <1>7, <2>2, <2>3, FlattenElements
<1>10. Range(all) = Rows
  <2>1. ASSUME NEW x \in Range(all) PROVE x \in Rows
    BY <1>8 DEF Range
  <2>2. ASSUME NEW x \in Rows PROVE x \in Range(all)
    <3>1. PICK d \in 1 .. DpSize : x \in Range(state[d].items)
      BY <1>3 DEF Elements
    <3>2. x \in Range(parts[d])
      BY <1>5, <3>1
    <3>. QED BY <1>8, <3>2
  <2>. QED BY <2>1, <2>2
<1>11. Len(all) = NumRows
  <2>1. Cardinality(Rows) = Len(all)
    BY <1>8, <1>9, <1>10, ElementsCounted
  <2>2. Cardinality(1 .. NumRows) = NumRows
    <3>1. NumRows \in Nat
      BY RowNumbers
    <3>. QED BY <3>1, FS_Interval
  <2>. QED BY <2>1, <2>2 DEF Rows
<1>12. \A d \in 1 .. DpSize : Len(state[d].items) = RowsPerRank
  <2>1. PICK n \in Nat : \A d \in 1 .. DpSize : Len(state[d].items) = n
    BY <1>3 DEF EqualSets
  <2>2. \A d \in 1 .. DpSize : Len(parts[d]) = n
    BY <1>5, <2>1
  <2>3. NumRows = DpSize * n
    BY <1>6, <1>7, <1>11, <2>2, EqualBlocks
  <2>4. (DpSize * n) \div DpSize = n
    <3>1. DpSize * n + 0 = DpSize * n /\ 0 \in 0 .. DpSize - 1
      BY <1>1
    <3>. QED BY <1>1, <3>1, Quotients
  <2>. QED BY <2>1, <2>3, <2>4 DEF RowsPerRank
<1>. QED BY <1>8, <1>9, <1>10, <1>11, <1>12

-----------------------------------------------------------------------------
(* A worker's rows *)

WholeBatch(rows) ==
  /\ rows \in Seq(Rows) /\ Len(rows) = NumRows
  /\ IsInjective(rows) /\ Range(rows) = Rows

\* The rows a worker runs at a time
RowsUnderWay == IF Training THEN MiniBatchSizePerGpu ELSE RowsPerRank

\* A mini-batch has a row at least, and the mini-batches of an epoch are the rows of a
\* rank.
LEMMA Sizes ==
  /\ MiniBatchSizePerGpu \in Nat \ {0} /\ MiniBatches \in Nat \ {0}
  /\ RowsPerRank = MiniBatchSizePerGpu * MiniBatches
  /\ RowsUnderWay \in Nat \ {0} /\ RowsUnderWay <= RowsPerRank
<1>1. DpSize \in Nat \ {0} /\ RowsPerRank \in Nat \ {0} /\ MiniBatchSize \in Nat \ {0}
  BY RowNumbers, BatchAssumption
<1>2. /\ MiniBatchSizePerGpu \in Nat
      /\ MiniBatchSize = DpSize * MiniBatchSizePerGpu + (MiniBatchSize % DpSize)
  BY <1>1, Quotients DEF MiniBatchSizePerGpu
<1>3. MiniBatchSizePerGpu # 0
  <2>1. MiniBatchSize = DpSize * MiniBatchSizePerGpu
    BY <1>1, <1>2, BatchAssumption
  <2>. QED BY <1>1, <2>1
<1>4. /\ MiniBatches \in Nat
      /\ RowsPerRank = MiniBatchSizePerGpu * MiniBatches + (RowsPerRank % MiniBatchSizePerGpu)
  <2>1. MiniBatchSizePerGpu \in Nat \ {0}
    BY <1>2, <1>3
  <2>. QED BY <1>1, <2>1, Quotients DEF MiniBatches
<1>5. RowsPerRank = MiniBatchSizePerGpu * MiniBatches
  BY <1>2, <1>4, BatchAssumption
<1>6. MiniBatches # 0
  BY <1>1, <1>2, <1>5
<1>7. MiniBatchSizePerGpu <= RowsPerRank
  <2>1. RowsPerRank = MiniBatchSizePerGpu + MiniBatchSizePerGpu * (MiniBatches - 1)
    BY <1>2, <1>4, <1>5
  <2>2. MiniBatchSizePerGpu * (MiniBatches - 1) \in Nat
    BY <1>2, <1>4, <1>6
  <2>. QED BY <1>1, <1>2, <2>1, <2>2
<1>. QED BY <1>1, <1>2, <1>3, <1>4, <1>5, <1>6, <1>7 DEF RowsUnderWay

\* The rows a worker is sent
LEMMA ShardRows ==
  ASSUME NEW rows, WholeBatch(rows), NEW w \in Workers
  PROVE  /\ dispatch_nd_compute(rows)[w] \in Seq(Rows)
         /\ Len(dispatch_nd_compute(rows)[w]) = RowsPerRank
<1>1. rows \in Seq(Rows) /\ Len(rows) = DpSize * RowsPerRank /\ RowsPerRank \in Nat
  BY RowNumbers DEF WholeBatch
<1>. QED BY <1>1, ShardOf

\* Iteration n of a data loader is one of the turns of an epoch, and takes its rows from
\* places that are all in the shard.
LEMMA Turns ==
  ASSUME NEW w \in Workers, NEW n \in 1 .. Epochs * MiniBatches
  PROVE  LET epoch == (n - 1) \div MiniBatches + 1
             turn == (n - 1) % MiniBatches
         IN  /\ epoch \in 1 .. Epochs /\ turn \in 0 .. MiniBatches - 1
             /\ n - 1 = MiniBatches * (epoch - 1) + turn
             /\ Shuffle(Seed(w), epoch) \in Bijection(1 .. RowsPerRank, 1 .. RowsPerRank)
             /\ \A i \in 1 .. MiniBatchSizePerGpu : turn * MiniBatchSizePerGpu + i \in 1 .. RowsPerRank
<1>. DEFINE epoch == (n - 1) \div MiniBatches + 1
            turn == (n - 1) % MiniBatches
<1>0. /\ MiniBatchSizePerGpu \in Nat \ {0} /\ MiniBatches \in Nat \ {0} /\ Epochs \in Nat \ {0}
      /\ RowsPerRank = MiniBatchSizePerGpu * MiniBatches
  BY Sizes, BatchAssumption
<1>1. Epochs * MiniBatches \in Nat /\ n - 1 \in Nat /\ n - 1 < Epochs * MiniBatches
  BY <1>0
<1>2. PICK q \in Nat, t \in 0 .. MiniBatches - 1 :
        q = (n - 1) \div MiniBatches /\ t = turn /\ n - 1 = MiniBatches * q + t
  <2>1. /\ (n - 1) \div MiniBatches \in Nat /\ turn \in 0 .. MiniBatches - 1
        /\ n - 1 = MiniBatches * ((n - 1) \div MiniBatches) + turn
    BY <1>0, <1>1, Quotients
  <2>. QED BY <2>1
<1>3. q < Epochs
  <2>1. q >= Epochs => MiniBatches * q >= MiniBatches * Epochs
    BY <1>0
  <2>2. MiniBatches * Epochs = Epochs * MiniBatches /\ MiniBatches * Epochs \in Nat /\ MiniBatches * q \in Nat
    BY <1>0
  <2>. QED BY <1>0, <1>1, <1>2, <2>1, <2>2
<1>4. epoch \in 1 .. Epochs /\ epoch - 1 = q
  BY <1>0, <1>2, <1>3
<1>5. Seed(w) \in Workers
  <2>1. dp_rank(w) \in 0 .. DpSize - 1 /\ WorldSize = SpSize * DpSize /\ SpSize \in Nat \ {0} /\ DpSize \in Nat \ {0}
    BY MeshSizes
  <2>2. WorldSize >= DpSize /\ WorldSize \in Nat
    BY <2>1
  <2>. QED BY <2>1, <2>2 DEF Seed, Workers
<1>6. ASSUME NEW i \in 1 .. MiniBatchSizePerGpu PROVE t * MiniBatchSizePerGpu + i \in 1 .. RowsPerRank
  <2>1. t * MiniBatchSizePerGpu \in Nat
    BY <1>0, <1>2
  <2>2. RowsPerRank = t * MiniBatchSizePerGpu + (MiniBatches - t) * MiniBatchSizePerGpu
    BY <1>0
  <2>3. (MiniBatches - t) * MiniBatchSizePerGpu = MiniBatchSizePerGpu + (MiniBatches - t - 1) * MiniBatchSizePerGpu
    BY <1>0
  <2>4. (MiniBatches - t - 1) * MiniBatchSizePerGpu \in Nat
    BY <1>0
  <2>. QED BY <1>0, <2>1, <2>2, <2>3, <2>4
<1>. HIDE DEF epoch
<1>7. Shuffle(Seed(w), epoch) \in Bijection(1 .. RowsPerRank, 1 .. RowsPerRank)
  BY <1>4, <1>5, ShuffleAssumption
<1>. QED BY <1>2, <1>4, <1>6, <1>7 DEF epoch

\* A mini-batch has as many rows in every iteration.
LEMMA MiniBatchRows ==
  ASSUME NEW rows \in Seq(Rows), Len(rows) = RowsPerRank, NEW w \in Workers,
         NEW n \in 1 .. Epochs * MiniBatches
  PROVE  MiniBatch(w, rows, n) \in Seq(Rows) /\ Len(MiniBatch(w, rows, n)) = MiniBatchSizePerGpu
<1>. DEFINE epoch == (n - 1) \div MiniBatches + 1
            first == ((n - 1) % MiniBatches) * MiniBatchSizePerGpu
            order == Shuffle(Seed(w), epoch)
<1>0. MiniBatchSizePerGpu \in Nat
  BY Sizes
<1>1. order \in Bijection(1 .. RowsPerRank, 1 .. RowsPerRank)
  BY Turns
<1>2. \A i \in 1 .. MiniBatchSizePerGpu : first + i \in 1 .. RowsPerRank
  BY Turns
<1>. HIDE DEF order, first
<1>3. ASSUME NEW i \in 1 .. MiniBatchSizePerGpu PROVE rows[order[first + i]] \in Rows
  <2>1. order[first + i] \in 1 .. RowsPerRank
    BY <1>1, <1>2 DEF Bijection, Injection
  <2>. QED BY <2>1
<1>4. MiniBatch(w, rows, n) = [i \in 1 .. MiniBatchSizePerGpu |-> rows[order[first + i]]]
  BY DEF MiniBatch, order, first
<1>5. PICK t \in [1 .. MiniBatchSizePerGpu -> Rows] : t = MiniBatch(w, rows, n)
  BY <1>3, <1>4
<1>6. t \in Seq(Rows) /\ Len(t) = MiniBatchSizePerGpu
  BY <1>0
<1>. QED BY <1>5, <1>6

\* A worker has some tokens.
LEMMA TokensCounted ==
  ASSUME seqlen \in Batches, NEW q \in Seq(Rows), q # <<>>
  PROVE  FoldSeq(LAMBDA r, sum : sum + seqlen[r], 0, q) \in Nat \ {0}
<1>1. seqlen \in [Rows -> Nat \ {0}]
  BY BatchAssumption
<1>2. SumOver(seqlen, q) \in Nat \ {0}
  BY <1>1, FoldedSumPositive
<1>3. FoldSeq(LAMBDA r, sum : sum + seqlen[r], 0, q) = SumOver(seqlen, q)
  BY DEF FoldSeq, FoldFunction, FoldFunctionOnSet, MapThenFoldSet, SumOver
<1>. QED BY <1>2, <1>3, Zenon

\* A micro-batch may have some tokens.
LEMMA TokenLimit == max_token_len \in Nat \ {0}
<1>1. PICK a \in Nat \ {0} : a = IF Training THEN TrainMaxTokenLen ELSE InferMaxTokenLen
  BY BatchAssumption
<1>2. PICK b \in Nat \ {0} : b = SpSize
  BY MeshAssumption
<1>3. a * b \in Nat \ {0}
  OBVIOUS
<1>4. max_token_len = a * b
  BY <1>1, <1>2 DEF max_token_len
<1>. QED BY <1>3, <1>4

\* The number of micro-batches that a worker wants: at least one, and no more than
\* its rows
LEMMA NumberWanted ==
  ASSUME NEW total \in Nat \ {0}, NEW n \in Nat \ {0}, NEW wanted,
         wanted = ceildiv(total, max_token_len)
  PROVE  (IF wanted < n THEN wanted ELSE n) \in 1 .. n
<1>1. PICK m \in Nat \ {0} : m = max_token_len
  BY TokenLimit
<1>2. PICK a \in Nat : a = total + m - 1
  OBVIOUS
<1>3. wanted = a \div m
  BY <1>1, <1>2 DEF ceildiv
<1>4. wanted \in Nat /\ a % m \in 0 .. m - 1 /\ a = m * wanted + (a % m)
  BY <1>3, Quotients
<1>5. a >= m
  BY <1>2
<1>6. wanted = 0 => m * wanted = 0
  OBVIOUS
<1>7. wanted # 0
  BY <1>4, <1>5, <1>6
<1>. QED BY <1>4, <1>7

\* No assertion of rearrange_micro_batches fails, and its micro-batches hold each row
\* once.
LEMMA RowsCut ==
  ASSUME seqlen \in Batches, NEW q \in Seq(Rows), NEW n \in Nat \ {0}, Len(q) = n, NEW k \in 1 .. n,
         NEW workload, workload = [i \in DOMAIN q |-> calculate_workload(seqlen[q[i]])]
  PROVE  /\ Partitioned(karmarkar_karp(workload, k), DOMAIN q)
         /\ Cover(micro_bsz_idx(get_seqlen_balanced_partitions(karmarkar_karp(workload, k), k), k), n, k)
<1>1. DOMAIN q = 1 .. n
  OBVIOUS
<1>2. workload \in [1 .. n -> Nat \ {0}]
  <2>1. \A r \in Rows : Workload[r] \in Nat \ {0} /\ Workload[r] = calculate_workload(seqlen[r])
    BY WorkPositive DEF Workload
  <2>2. \A i \in DOMAIN q : q[i] \in Rows
    OBVIOUS
  <2>. QED BY <1>1, <2>1, <2>2
<1>3. Partitioned(karmarkar_karp(workload, k), 1 .. n)
  BY <1>2, KarmarkarKarpPartitions
<1>. QED BY <1>1, <1>2, <1>3, MicroBatchesCover

\* The first m of the micro-batches that a worker has cut its rows into
Ran(rows, idx, m) == [b \in 1 .. m |-> [j \in DOMAIN idx[b] |-> rows[idx[b][j]]]]

\* The rows of the one after them
NextRun(rows, idx, m) == [j \in DOMAIN idx[m + 1] |-> rows[idx[m + 1][j]]]

\* What running one more of its k micro-batches does to output_lst
RanGrows(rows, idx, k, m) ==
  /\ Len(Ran(rows, idx, m)) = m /\ Len(idx) = k
  /\ Append(Ran(rows, idx, m), NextRun(rows, idx, m)) = Ran(rows, idx, m + 1)
  /\ Len(Ran(rows, idx, m + 1)) = m + 1

\* Running the next micro-batch adds its rows to what has run.
LEMMA OneMoreRan ==
  ASSUME NEW n \in Nat, NEW rows \in Seq(Rows), Len(rows) = n, NEW idx, NEW k \in Nat,
         Cover(idx, n, k), NEW m \in Nat, m < k
  PROVE  RanGrows(rows, idx, k, m)
<1>. DEFINE part(b) == [j \in DOMAIN idx[b] |-> rows[idx[b][j]]]
<1>1. idx \in [1 .. k -> Seq(1 .. n)]
  BY DEF Cover
<1>2. Len(idx) = k
  <2>1. DOMAIN idx = 1 .. k
    BY <1>1
  <2>. QED BY <1>1, <2>1
<1>. DEFINE some == {part(b) : b \in 1 .. m + 1}
<1>. HIDE DEF part
<1>6. (\A b \in 1 .. m + 1 : part(b) \in some) /\ \A b \in 1 .. m : b \in 1 .. m + 1
  OBVIOUS
<1>. HIDE DEF some
<1>3. PICK s \in Seq(some) : s = [b \in 1 .. m |-> part(b)] /\ Len(s) = m
  <2>1. PICK s \in [1 .. m -> some] : s = [b \in 1 .. m |-> part(b)]
    BY <1>6
  <2>2. s \in Seq(some) /\ Len(s) = m
    OBVIOUS
  <2>. QED BY <2>1, <2>2
<1>4. PICK t \in Seq(some) : t = [b \in 1 .. m + 1 |-> part(b)] /\ Len(t) = m + 1
  <2>1. PICK s2 \in [1 .. m + 1 -> some] : s2 = [b \in 1 .. m + 1 |-> part(b)]
    BY <1>6
  <2>2. s2 \in Seq(some) /\ Len(s2) = m + 1
    OBVIOUS
  <2>. QED BY <2>1, <2>2
<1>5. Append(s, part(m + 1)) = t
  <2>1. part(m + 1) \in some
    BY <1>6
  <2>. QED BY <1>3, <1>4, <2>1
<1>. QED BY <1>2, <1>3, <1>4, <1>5 DEF RanGrows, Ran, NextRun, part

\* When it has run them all, what it returns is in the order of its rows.
LEMMA AllRan ==
  ASSUME NEW D, NEW n \in Nat, NEW rows \in Seq(D), Len(rows) = n, NEW idx, NEW k \in Nat,
         Cover(idx, n, k)
  PROVE  restore_dynamic_batch(FlattenSeq(Ran(rows, idx, k)), idx) = rows
<1>1. Len(idx) = k
  <2>1. DOMAIN idx = 1 .. k /\ idx \in Seq(Seq(1 .. n))
    BY DEF Cover
  <2>. QED BY <2>1
<1>2. Ran(rows, idx, k) = Mapped(rows, idx)
  BY <1>1 DEF Ran, Mapped
<1>. QED BY <1>2, RestoredInOrder

\* _balance_batch has the rows of some chunks in its heap, then all of them, and puts
\* them into the batch again.
BatchInv ==
  /\ driver = "push" => PushedHeap(states_pq)
  /\ driver = "merge" => FullHeap(states_pq)
  /\ WholeBatch(batch)

\* Which rows have the least work depends on the lengths of the rows alone.
LEMMA PushedStable ==
  /\ seqlen' = seqlen => \A H : PushedHeap(H)' <=> PushedHeap(H)
  /\ \A H : FullHeap(H)' <=> FullHeap(H)
  /\ \A rows : WholeBatch(rows)' <=> WholeBatch(rows)
BY DEF PushedHeap, FullHeap, FirstRows, Workload, WholeBatch

\* Every step keeps the rows together.
LEMMA BatchStep == HeapInv /\ BatchInv /\ [Next]_vars => BatchInv'
<1> SUFFICES ASSUME HeapInv, BatchInv, [Next]_vars PROVE BatchInv'
  OBVIOUS
<1>0. seqlen \in Batches /\ IsFiniteSet(states_pq)
  BY DEF HeapInv
<1>1. CASE PushState
  <2>1. driver = "push" /\ seqlen' = seqlen /\ batch' = batch
    BY <1>1 DEF PushState
  <2>2. PICK s \in StatesOfChunk(Workload, ChunkAt(Workload, DpSize * Cardinality(states_pq), DpSize), DpSize) :
           states_pq' = states_pq \cup {s}
    BY <1>1 DEF PushState
  <2>3. PushedHeap(states_pq) /\ Cardinality(states_pq) < RowsPerRank
    BY <2>1 DEF BatchInv, HeapInv
  <2>4. /\ PushedHeap(states_pq') /\ GoodHeap(states_pq', DpSize, Rows)
    BY <1>0, <2>2, <2>3, ChunkPushed
  <2>5. driver' = IF Cardinality(states_pq') = RowsPerRank THEN "merge" ELSE "push"
    BY <1>1 DEF PushState
  <2>6. ASSUME driver' = "merge" PROVE FullHeap(states_pq')
    <3>1. Cardinality(states_pq') = RowsPerRank
      BY <2>5, <2>6
    <3>2. HeapElements(states_pq', DpSize) = Rows
      BY <1>0, <2>4, <3>1, ChunksComplete DEF PushedHeap
    <3>. QED BY <2>4, <3>2 DEF FullHeap, PushedHeap
  <2>. QED BY <2>1, <2>4, <2>6, PushedStable DEF BatchInv
<1>2. CASE MergeStates
  <2>1. driver = "merge" /\ driver' = driver /\ seqlen' = seqlen /\ batch' = batch
    BY <1>2 DEF MergeStates
  <2>2. states_pq' \in MergedHeaps(states_pq, DpSize) /\ FullHeap(states_pq)
    BY <1>2, <2>1 DEF MergeStates, BatchInv
  <2>3. FullHeap(states_pq')
    BY <2>2, StatesMerged
  <2>. QED BY <2>1, <2>3, PushedStable DEF BatchInv
<1>3. CASE Reorder
  <2>1. driver = "merge" /\ Cardinality(states_pq) = 1 /\ driver' = "wait"
    BY <1>3 DEF Reorder, Call
  <2>2. PICK state : state = CHOOSE s \in states_pq : TRUE
    OBVIOUS
  <2>3. batch' = FlattenSeq([d \in 1 .. DpSize |-> OrderedPartition(state[d].items)])
    BY <1>3, <2>2 DEF Reorder
  <2>4. FullHeap(states_pq)
    BY <2>1 DEF BatchInv
  <2>5. WholeBatch(batch')
    BY <1>0, <2>1, <2>2, <2>3, <2>4, BatchReordered DEF WholeBatch
  <2>. QED BY <2>1, <2>5, PushedStable DEF BatchInv
<1>4. CASE UNCHANGED <<batch, seqlen, states_pq>> /\ driver' = driver
  BY <1>4, PushedStable DEF BatchInv
<1>5. CASE UNCHANGED batch /\ driver' \notin {"push", "merge"}
  BY <1>5, PushedStable DEF BatchInv
<1>6. \/ PushState \/ MergeStates \/ Reorder
      \/ UNCHANGED <<batch, seqlen, states_pq>> /\ driver' = driver
      \/ UNCHANGED batch /\ driver' \notin {"push", "merge"}
  BY DEF Next, DriverStep, Collectives, WorkerStep, CollectLogProbs, CollectUpdate, CallRaises,
         Call, Forward, OptimizerStep, ReduceMetrics, ReturnNone, Finish, CountTokens, CheckLengths,
         Agree, Partition, vars, driverVars
<1>. QED BY <1>1, <1>2, <1>3, <1>4, <1>5, <1>6

\* The first batch is whole, and the heap empty.
LEMMA BatchInit == Init => BatchInv
<1> SUFFICES ASSUME Init PROVE BatchInv
  OBVIOUS
<1>1. seqlen \in Batches /\ states_pq = {} /\ driver = "push" /\ batch = [i \in Rows |-> i]
  BY DEF Init
<1>2. PushedHeap(states_pq)
  <2>1. Cardinality(states_pq) = 0 /\ HeapElements(states_pq, DpSize) = {}
    BY <1>1, FS_EmptySet DEF HeapElements
  <2>. QED BY <1>1, <2>1, ChunksComplete DEF PushedHeap
<1>3. WholeBatch(batch)
  <2>1. PICK rows \in [1 .. NumRows -> Rows] : rows = batch
    BY <1>1 DEF Rows
  <2>2. rows \in Seq(Rows) /\ Len(rows) = NumRows
    BY RowNumbers
  <2>3. Range(rows) = Rows /\ IsInjective(rows)
    BY <1>1, <2>1 DEF Rows, Range, IsInjective
  <2>. QED BY <2>1, <2>2, <2>3 DEF WholeBatch
<1>. QED BY <1>1, <1>2, <1>3 DEF BatchInv

\* The rows stay together in every reachable state.
LEMMA BatchInvariant == Spec => [](HeapInv /\ BatchInv)
<1>1. Spec => []HeapInv
  BY HeapInvariant
<1>. QED BY <1>1, BatchInit, BatchStep, PTL DEF Spec

-----------------------------------------------------------------------------
(* The calls *)

Stages ==
  {"idle", "tokens", "check", "agree", "partition", "forward", "optimizer", "postprocess",
   "replied", "failed"}

\* The rows under way are those that the worker was sent.
Under(w) ==
  /\ iteration[w] \in 1 .. Epochs * MiniBatches
  /\ shard[w] = dispatch_nd_compute(batch)[w]
  /\ data[w] = IF Training THEN MiniBatch(w, shard[w], iteration[w]) ELSE shard[w]

\* They are cut into micro-batches, run one after the other and put back.
WorkerInv(w) ==
  /\ pc[w] # "idle"
  /\ pc[w] \in {"agree", "partition"} => num[w] \in 1 .. RowsUnderWay
  /\ pc[w] \in {"tokens", "check", "agree", "partition"} => output_lst[w] = <<>>
  /\ pc[w] \in {"forward", "optimizer", "postprocess"} =>
       \E k \in 1 .. RowsUnderWay, m \in Nat :
          /\ Cover(indices[w], RowsUnderWay, k)
          /\ output_lst[w] = Ran(data[w], indices[w], m)
          /\ m <= k /\ (m = k <=> pc[w] # "forward")
  /\ pc[w] = "replied" => reply[w] = data[w]
  /\ pc[w] = "failed" => \E r \in Rows : seqlen[r] > max_token_len

Typed ==
  /\ pc \in [Workers -> Stages]
  /\ DOMAIN num = Workers /\ DOMAIN indices = Workers

Working == \A w \in Workers : Under(w) /\ WorkerInv(w)

CallInv ==
  /\ Typed
  /\ method \in {"none", "compute_log_prob", "update_actor"}
  /\ driver \in {"push", "merge"} <=> method = "none"
  /\ IF method = "none" THEN \A w \in Workers : pc[w] = "idle" ELSE Working
  /\ RowsReturn

\* How many rows a worker runs at a time
LEMMA DataRows ==
  ASSUME BatchInv, NEW w \in Workers, Under(w)
  PROVE  data[w] \in Seq(Rows) /\ Len(data[w]) = RowsUnderWay
<1>1. shard[w] \in Seq(Rows) /\ Len(shard[w]) = RowsPerRank
  BY ShardRows DEF BatchInv, Under
<1>2. CASE Training
  <2>1. PICK rows \in Seq(Rows), n \in 1 .. Epochs * MiniBatches : rows = shard[w] /\ n = iteration[w]
    BY <1>1 DEF Under
  <2>. QED BY <1>1, <1>2, <2>1, MiniBatchRows DEF Under, RowsUnderWay
<1>3. CASE ~Training
  BY <1>1, <1>3 DEF Under, RowsUnderWay
<1>. QED BY <1>2, <1>3

\* What a worker's state is made of
Same(w) ==
  /\ pc'[w] = pc[w] /\ num'[w] = num[w] /\ indices'[w] = indices[w]
  /\ output_lst'[w] = output_lst[w] /\ data'[w] = data[w] /\ reply'[w] = reply[w]

\* A step that leaves a worker alone keeps what holds of it.
LEMMA WorkerFrame ==
  ASSUME NEW w \in Workers, WorkerInv(w), UNCHANGED <<method, seqlen>>, Same(w)
  PROVE  WorkerInv(w)'
BY DEF WorkerInv, Same, RowsUnderWay, Training, max_token_len

\* The rows under way change with the iteration only.
LEMMA UnderFrame ==
  ASSUME NEW w \in Workers, Under(w), UNCHANGED <<method, batch>>,
         shard'[w] = shard[w], iteration'[w] = iteration[w], data'[w] = data[w]
  PROVE  Under(w)'
BY DEF Under, Training

\* A call starts all workers on the rows they are sent.
LEMMA CallStarts ==
  ASSUME BatchInv', Typed, NEW name \in {"compute_log_prob", "update_actor"}, Call(name, batch'),
         UNCHANGED num
  PROVE  Typed' /\ Working' /\ method' = name /\ driver' = "wait"
<1>1. /\ pc' = [w \in Workers |-> "tokens"] /\ indices' = [w \in Workers |-> <<>>]
      /\ method' = name /\ driver' = "wait"
  BY DEF Call
<1>2. Typed'
  BY <1>1 DEF Typed, Stages
<1>3. ASSUME NEW w \in Workers PROVE Under(w)' /\ WorkerInv(w)'
  <2>1. WorkerInv(w)'
    <3>1. output_lst' = [v \in Workers |-> <<>>]
      BY DEF Call
    <3>. QED BY <1>1, <3>1 DEF WorkerInv
  <2>2. 1 \in 1 .. Epochs * MiniBatches
    <3>1. PICK a \in Nat \ {0}, b \in Nat \ {0} : a = Epochs /\ b = MiniBatches
      BY BatchAssumption, Sizes
    <3>2. a * b \in Nat \ {0}
      OBVIOUS
    <3>. QED BY <3>1, <3>2
  <2>3. /\ shard' = dispatch_nd_compute(batch') /\ iteration'[w] = 1
        /\ data'[w] = IF method' = "update_actor" THEN MiniBatch(w, shard'[w], 1) ELSE shard'[w]
    BY <1>1 DEF Call
  <2>4. Under(w)'
    BY <2>2, <2>3 DEF Under, Training
  <2>. QED BY <2>1, <2>4
<1>. QED BY <1>1, <1>2, <1>3 DEF Working

\* CountTokens leaves the rows under way, not yet cut.
LEMMA CountStep ==
  ASSUME Typed, Working, NEW w \in Workers, CountTokens(w)
  PROVE  Typed' /\ Working'
<1>1. /\ pc' = [v \in Workers |-> IF v \in dp_group(w) THEN "check" ELSE pc[v]]
      /\ \A v \in dp_group(w) : pc[v] = "tokens"
      /\ UNCHANGED <<driverVars, shard, iteration, data, num, indices, output_lst, reply>>
  BY DEF CountTokens, AtCollective
<1>2. Typed'
  BY <1>1 DEF Typed, Stages
<1>3. ASSUME NEW v \in Workers PROVE Under(v)' /\ WorkerInv(v)'
  <2>1. Under(v)'
    BY <1>1, UnderFrame DEF Working, driverVars
  <2>2. CASE v \in dp_group(w)
    <3>1. pc[v] = "tokens" /\ pc'[v] = "check" /\ output_lst' = output_lst
      BY <1>1, <2>2
    <3>2. output_lst[v] = <<>>
      BY <3>1 DEF Working, WorkerInv
    <3>3. WorkerInv(v)'
      BY <3>1, <3>2 DEF WorkerInv
    <3>. QED BY <2>1, <3>3
  <2>3. CASE v \notin dp_group(w)
    <3>1. Same(v)
      BY <1>1, <2>3 DEF Same
    <3>. QED BY <1>1, <2>1, <3>1, WorkerFrame DEF Working, driverVars
  <2>. QED BY <2>2, <2>3
<1>. QED BY <1>2, <1>3 DEF Working

\* CheckLengths fails for a row that is too long, and otherwise counts micro-batches.
LEMMA CheckStep ==
  ASSUME HeapInv, BatchInv, Typed, Working, NEW w \in Workers, CheckLengths(w)
  PROVE  Typed' /\ Working'
<1>1. /\ pc[w] = "check"
      /\ UNCHANGED <<driverVars, shard, iteration, data, indices, output_lst, reply>>
      /\ seqlen \in Batches
  BY DEF CheckLengths, HeapInv
<1>2. data[w] \in Seq(Rows) /\ Len(data[w]) = RowsUnderWay
  BY DataRows DEF Working
<1>3. CASE \E i \in DOMAIN data[w] : seqlen[data[w][i]] > max_token_len
  <2>1. pc' = [pc EXCEPT ![w] = "failed"] /\ num' = num
    BY <1>3 DEF CheckLengths
  <2>2. Typed'
    BY <1>1, <2>1 DEF Typed, Stages
  <2>3. ASSUME NEW v \in Workers PROVE Under(v)' /\ WorkerInv(v)'
    <3>1. Under(v)'
      BY <1>1, UnderFrame DEF Working, driverVars
    <3>2. CASE v = w
      <4>1. \E r \in Rows : seqlen[r] > max_token_len
        <5>1. PICK i \in DOMAIN data[w] : seqlen[data[w][i]] > max_token_len
          BY <1>3
        <5>2. data[w][i] \in Rows
          BY <1>2
        <5>. QED BY <5>1, <5>2
      <4>2. pc'[v] = "failed" /\ seqlen' = seqlen /\ max_token_len' = max_token_len
        BY <1>1, <2>1, <3>2 DEF Typed, driverVars, max_token_len, Training
      <4>3. WorkerInv(v)'
        BY <4>1, <4>2 DEF WorkerInv
      <4>. QED BY <3>1, <4>3
    <3>3. CASE v # w
      <4>1. Same(v)
        BY <1>1, <2>1, <3>3 DEF Same, Typed
      <4>. QED BY <1>1, <3>1, <4>1, WorkerFrame DEF Working, driverVars
    <3>. QED BY <3>2, <3>3
  <2>. QED BY <2>2, <2>3 DEF Working
<1>4. CASE ~\E i \in DOMAIN data[w] : seqlen[data[w][i]] > max_token_len
  <2>1. PICK total : total = FoldSeq(LAMBDA r, sum : sum + seqlen[r], 0, data[w])
    OBVIOUS
  <2>2. total \in Nat \ {0}
    <3>1. PICK q \in Seq(Rows) : q = data[w] /\ q # <<>>
      BY <1>2, Sizes
    <3>2. FoldSeq(LAMBDA r, sum : sum + seqlen[r], 0, q) \in Nat \ {0}
      BY <1>1, <3>1, TokensCounted
    <3>. QED BY <2>1, <3>1, <3>2, Zenon
  <2>3. PICK wanted : wanted = ceildiv(total, max_token_len)
    OBVIOUS
  <2>4. /\ pc' = [pc EXCEPT ![w] = "agree"]
        /\ num' = [num EXCEPT ![w] = IF wanted < Len(data[w]) THEN wanted ELSE Len(data[w])]
    BY <1>4, <2>1, <2>3, Zenon DEF CheckLengths
  <2>. HIDE <2>1
  <2>5. (IF wanted < Len(data[w]) THEN wanted ELSE Len(data[w])) \in 1 .. RowsUnderWay
    <3>1. RowsUnderWay \in Nat \ {0}
      BY Sizes
    <3>. QED BY <1>2, <2>2, <2>3, <3>1, NumberWanted
  <2>6. Typed'
    BY <1>1, <2>4 DEF Typed, Stages
  <2>7. ASSUME NEW v \in Workers PROVE Under(v)' /\ WorkerInv(v)'
    <3>1. Under(v)'
      BY <1>1, UnderFrame DEF Working, driverVars
    <3>2. CASE v = w
      <4>1. pc'[v] = "agree" /\ num'[v] \in 1 .. RowsUnderWay
        BY <2>4, <2>5, <3>2 DEF Typed
      <4>2. output_lst'[v] = <<>>
        BY <1>1, <3>2 DEF Working, WorkerInv
      <4>3. RowsUnderWay' = RowsUnderWay
        BY <1>1 DEF driverVars, RowsUnderWay, Training
      <4>4. WorkerInv(v)'
        BY <4>1, <4>2, <4>3 DEF WorkerInv
      <4>. QED BY <3>1, <4>4
    <3>3. CASE v # w
      <4>1. Same(v)
        BY <1>1, <2>4, <3>3 DEF Same, Typed
      <4>. QED BY <1>1, <3>1, <4>1, WorkerFrame DEF Working, driverVars
    <3>. QED BY <3>2, <3>3
  <2>. QED BY <2>6, <2>7 DEF Working
<1>. QED BY <1>3, <1>4

\* The number agreed on is the largest of the members of the group.
LEMMA NumberAgreed ==
  ASSUME NEW n \in Nat, NEW w \in Workers, \A v \in dp_group(w) : num[v] \in 1 .. n
  PROVE  /\ AgreedNumber(w) \in 1 .. n
         /\ AgreedNumber(w) \in {num[v] : v \in dp_group(w)}
         /\ \A v \in dp_group(w) : num[v] <= AgreedNumber(w)
<1>. DEFINE S == {num[v] : v \in dp_group(w)}
            R == {pair \in (1 .. n) \X (1 .. n) : pair[1] < pair[2]}
<1>1. w \in dp_group(w) /\ S \subseteq 1 .. n /\ num[w] \in S
  BY DEF dp_group
<1>2. IsFiniteSet(1 .. n)
  BY FS_Interval
<1>3. IsFiniteSet(S)
  BY <1>1, <1>2, FS_Subset
<1>. HIDE DEF S
<1>10. \A x, y \in S : x \in Int /\ y \in Int /\ (<<x, y>> \in R <=> x < y)
  BY <1>1
<1>. HIDE DEF R
<1>4. StrictTotalOrder(R, S) /\ S # {}
  BY <1>1, <1>10 DEF StrictTotalOrder
<1>5. PICK x \in S : \A y \in S \ {x} : <<y, x>> \in R
  BY <1>3, <1>4, LastExists
<1>6. \A y \in S : y <= x
  <2>1. ASSUME NEW y \in S PROVE y <= x
    <3>1. y = x \/ <<y, x>> \in R
      BY <1>5
    <3>. QED BY <1>10, <3>1
  <2>. QED BY <2>1
<1>7. \A v \in dp_group(w) : num[v] <= x
  BY <1>6 DEF S
<1>8. AgreedNumber(w) = CHOOSE k \in S : \A v \in dp_group(w) : num[v] <= k
  BY DEF AgreedNumber, S
<1>9. AgreedNumber(w) \in S /\ \A v \in dp_group(w) : num[v] <= AgreedNumber(w)
  BY <1>5, <1>7, <1>8
<1>. QED BY <1>1, <1>9 DEF S

\* The members of a data-parallel group have the same group.
LEMMA GroupOf ==
  ASSUME NEW w \in Workers, NEW v \in dp_group(w)
  PROVE  v \in Workers /\ dp_group(v) = dp_group(w)
BY DEF dp_group

\* Agreeing leaves each worker with a number it can partition into.
LEMMA AgreeStep ==
  ASSUME Typed, Working, NEW w \in Workers, Agree(w)
  PROVE  Typed' /\ Working'
<1>1. /\ pc' = [v \in Workers |-> IF v \in dp_group(w) THEN "partition" ELSE pc[v]]
      /\ num' = [v \in Workers |-> IF v \in dp_group(w) THEN AgreedNumber(v) ELSE num[v]]
      /\ \A v \in dp_group(w) : pc[v] = "agree"
      /\ UNCHANGED <<driverVars, shard, iteration, data, indices, output_lst, reply>>
  BY DEF Agree, AtCollective
<1>2. Typed'
  BY <1>1 DEF Typed, Stages
<1>3. RowsUnderWay \in Nat
  BY Sizes
<1>4. \A u \in dp_group(w) : num[u] \in 1 .. RowsUnderWay
  BY <1>1, GroupOf DEF Working, WorkerInv
<1>5. ASSUME NEW v \in Workers PROVE Under(v)' /\ WorkerInv(v)'
  <2>1. Under(v)'
    BY <1>1, UnderFrame DEF Working, driverVars
  <2>2. CASE v \in dp_group(w)
    <3>1. pc[v] = "agree" /\ pc'[v] = "partition" /\ num'[v] = AgreedNumber(v)
      BY <1>1, <2>2
    <3>2. AgreedNumber(v) \in 1 .. RowsUnderWay
      <4>1. dp_group(v) = dp_group(w)
        BY <2>2, GroupOf
      <4>. QED BY <1>3, <1>4, <4>1, NumberAgreed
    <3>3. output_lst'[v] = <<>>
      BY <1>1, <3>1 DEF Working, WorkerInv
    <3>4. RowsUnderWay' = RowsUnderWay
      BY <1>1 DEF driverVars, RowsUnderWay, Training
    <3>5. WorkerInv(v)'
      BY <3>1, <3>2, <3>3, <3>4 DEF WorkerInv
    <3>. QED BY <2>1, <3>5
  <2>3. CASE v \notin dp_group(w)
    <3>1. Same(v)
      BY <1>1, <2>3 DEF Same
    <3>. QED BY <1>1, <2>1, <3>1, WorkerFrame DEF Working, driverVars
  <2>. QED BY <2>2, <2>3
<1>. QED BY <1>2, <1>5 DEF Working

\* Partition never fails: it cuts the rows into the number of micro-batches agreed on.
LEMMA RowsPartitioned ==
  ASSUME HeapInv, BatchInv, Working, NEW w \in Workers, Partition(w)
  PROVE  \E idx : /\ Cover(idx, RowsUnderWay, num[w])
                  /\ indices' = [indices EXCEPT ![w] = idx] /\ pc' = [pc EXCEPT ![w] = "forward"]
<1>1. /\ pc[w] = "partition"
      /\ UNCHANGED <<driverVars, shard, iteration, data, num, output_lst, reply>>
      /\ seqlen \in Batches
  BY DEF Partition, HeapInv
<1>2. data[w] \in Seq(Rows) /\ Len(data[w]) = RowsUnderWay /\ RowsUnderWay \in Nat \ {0}
  BY DataRows, Sizes DEF Working
<1>3. num[w] \in 1 .. RowsUnderWay /\ output_lst[w] = <<>>
  BY <1>1 DEF Working, WorkerInv
<1>4. PICK workload : workload = [i \in DOMAIN data[w] |-> calculate_workload(seqlen[data[w][i]])]
  OBVIOUS
<1>5. PICK idx : idx = micro_bsz_idx(get_seqlen_balanced_partitions(karmarkar_karp(workload, num[w]), num[w]), num[w])
  OBVIOUS
<1>6. Partitioned(karmarkar_karp(workload, num[w]), DOMAIN data[w]) /\ Cover(idx, RowsUnderWay, num[w])
  <2>0. num[w] \in Nat
    BY <1>2, <1>3
  <2>1. PICK q \in Seq(Rows), n \in Nat \ {0}, k \in Nat : q = data[w] /\ n = RowsUnderWay /\ k = num[w]
    BY <1>2, <2>0
  <2>2. k \in 1 .. n /\ Len(q) = n
    BY <1>2, <1>3, <2>1
  <2>3. workload = [i \in DOMAIN q |-> calculate_workload(seqlen[q[i]])]
    BY <1>4, <2>1
  <2>. QED BY <1>1, <1>5, <2>1, <2>2, <2>3, RowsCut
<1>7. num[w] <= Len(data[w])
  BY <1>2, <1>3
<1>8. indices' = [indices EXCEPT ![w] = idx] /\ pc' = [pc EXCEPT ![w] = "forward"]
  BY <1>4, <1>5, <1>6, <1>7 DEF Partition
<1>. QED BY <1>6, <1>8

\* A partition leaves the rows in micro-batches of which none has run.
LEMMA PartitionStep ==
  ASSUME HeapInv, BatchInv, Typed, Working, NEW w \in Workers, Partition(w)
  PROVE  Typed' /\ Working'
<1>1. /\ pc[w] = "partition"
      /\ UNCHANGED <<driverVars, shard, iteration, data, num, output_lst, reply>>
  BY DEF Partition
<1>3. num[w] \in 1 .. RowsUnderWay /\ output_lst[w] = <<>>
  BY <1>1 DEF Working, WorkerInv
<1>6. PICK idx : /\ Cover(idx, RowsUnderWay, num[w])
                 /\ indices' = [indices EXCEPT ![w] = idx] /\ pc' = [pc EXCEPT ![w] = "forward"]
  BY RowsPartitioned
<1>8. indices' = [indices EXCEPT ![w] = idx] /\ pc' = [pc EXCEPT ![w] = "forward"]
  BY <1>6
<1>9. Typed'
  BY <1>1, <1>8 DEF Typed, Stages
<1>10. ASSUME NEW v \in Workers PROVE Under(v)' /\ WorkerInv(v)'
  <2>1. Under(v)'
    BY <1>1, UnderFrame DEF Working, driverVars
  <2>2. CASE v = w
    <3>1. pc'[v] = "forward" /\ indices'[v] = idx /\ output_lst'[v] = <<>> /\ data'[v] = data[v]
      BY <1>1, <1>3, <1>8, <2>2 DEF Typed
    <3>2. Ran(data[v], idx, 0) = <<>>
      BY DEF Ran
    <3>3. RowsUnderWay' = RowsUnderWay
      BY <1>1 DEF driverVars, RowsUnderWay, Training
    <3>4. \E k \in 1 .. RowsUnderWay', m \in Nat :
             /\ Cover(indices'[v], RowsUnderWay', k)
             /\ output_lst'[v] = Ran(data'[v], indices'[v], m)
             /\ m <= k /\ (m = k <=> pc'[v] # "forward")
      <4>1. 0 <= num[w] /\ 0 # num[w]
        BY <1>3
      <4>. QED BY <1>3, <1>6, <3>1, <3>2, <3>3, <4>1
    <3>5. WorkerInv(v)'
      BY <3>1, <3>4 DEF WorkerInv
    <3>. QED BY <2>1, <3>5
  <2>3. CASE v # w
    <3>1. Same(v)
      BY <1>1, <1>8, <2>3 DEF Same, Typed
    <3>. QED BY <1>1, <2>1, <3>1, WorkerFrame DEF Working, driverVars
  <2>. QED BY <2>2, <2>3
<1>. QED BY <1>9, <1>10 DEF Working

\* A worker that has run the first m of its k micro-batches runs the next one.
RunsNext(w, n, k, m) ==
  /\ m < k /\ Cover(indices[w], n, k) /\ Len(indices[w]) = k
  /\ output_lst[w] = Ran(data[w], indices[w], m) /\ Len(output_lst[w]) = m
  /\ output_lst'[w] = Ran(data[w], indices[w], m + 1) /\ Len(output_lst'[w]) = m + 1
  /\ pc'[w] \in {"forward", "optimizer", "postprocess"} /\ (pc'[w] = "forward" <=> m + 1 < k)

\* Forward runs the next micro-batch of every worker.
LEMMA NextBatchRuns ==
  ASSUME BatchInv, Working, Forward, NEW w \in Workers
  PROVE  \E k \in 1 .. RowsUnderWay, m \in Nat : RunsNext(w, RowsUnderWay, k, m)
<1>1. /\ pc[w] = "forward"
      /\ output_lst'[w] = Append(output_lst[w], MicroBatch(w))
      /\ pc'[w] = IF Len(output_lst'[w]) < Len(indices[w]) THEN "forward"
                  ELSE IF Training THEN "optimizer" ELSE "postprocess"
  BY DEF Forward, AtCollective
<1>2. PICK n \in Nat : n = RowsUnderWay
  BY Sizes
<1>3. PICK k \in 1 .. n, m \in Nat :
        /\ Cover(indices[w], n, k) /\ output_lst[w] = Ran(data[w], indices[w], m)
        /\ m <= k /\ m # k
  BY <1>1, <1>2 DEF Working, WorkerInv
<1>4. PICK rows \in Seq(Rows) : rows = data[w] /\ Len(rows) = n
  BY <1>2, DataRows DEF Working
<1>5. PICK idx \in [1 .. k -> Seq(1 .. n)] : idx = indices[w]
  BY <1>3 DEF Cover
<1>6. k \in Nat /\ m < k /\ Cover(idx, n, k)
  BY <1>3, <1>5
<1>7. RanGrows(rows, idx, k, m)
  BY <1>4, <1>6, OneMoreRan
<1>8. /\ Len(Ran(rows, idx, m)) = m /\ Len(idx) = k
      /\ Append(Ran(rows, idx, m), NextRun(rows, idx, m)) = Ran(rows, idx, m + 1)
      /\ Len(Ran(rows, idx, m + 1)) = m + 1
  BY <1>7 DEF RanGrows
<1>9. MicroBatch(w) = NextRun(rows, idx, m)
  BY <1>3, <1>4, <1>5, <1>8 DEF MicroBatch, NextRun
<1>10. output_lst'[w] = Ran(rows, idx, m + 1) /\ Len(output_lst'[w]) = m + 1
  BY <1>1, <1>3, <1>4, <1>5, <1>8, <1>9
<1>11. pc'[w] \in {"forward", "optimizer", "postprocess"} /\ (pc'[w] = "forward" <=> m + 1 < k)
  BY <1>1, <1>5, <1>8, <1>10
<1>12. RunsNext(w, n, k, m)
  BY <1>3, <1>4, <1>5, <1>6, <1>8, <1>10, <1>11 DEF RunsNext
<1>. QED BY <1>2, <1>12

\* Forward keeps what holds of the workers.
LEMMA ForwardStep ==
  ASSUME BatchInv, Typed, Working, Forward
  PROVE  Typed' /\ Working'
<1>1. /\ \A w \in Workers : pc[w] = "forward"
      /\ pc' = [w \in Workers |->
                  IF Len(output_lst'[w]) < Len(indices[w]) THEN "forward"
                  ELSE IF Training THEN "optimizer" ELSE "postprocess"]
      /\ UNCHANGED <<driverVars, shard, iteration, data, num, indices, reply>>
  BY DEF Forward, AtCollective
<1>2. Typed'
  BY <1>1 DEF Typed, Stages
<1>3. RowsUnderWay' = RowsUnderWay
  BY <1>1 DEF driverVars, RowsUnderWay, Training
<1>4. ASSUME NEW w \in Workers PROVE Under(w)' /\ WorkerInv(w)'
  <2>1. Under(w)'
    BY <1>1, UnderFrame DEF Working, driverVars
  <2>2. PICK k \in 1 .. RowsUnderWay, m \in Nat : RunsNext(w, RowsUnderWay, k, m)
    BY NextBatchRuns
  <2>3. m + 1 \in Nat /\ m + 1 <= k /\ (m + 1 = k <=> pc'[w] # "forward")
    <3>1. k \in Nat
      BY Sizes
    <3>. QED BY <2>2, <3>1 DEF RunsNext
  <2>4. \E l \in 1 .. RowsUnderWay', p \in Nat :
            /\ Cover(indices'[w], RowsUnderWay', l)
            /\ output_lst'[w] = Ran(data'[w], indices'[w], p)
            /\ p <= l /\ (p = l <=> pc'[w] # "forward")
    BY <1>1, <1>3, <2>2, <2>3 DEF RunsNext
  <2>5. WorkerInv(w)'
    BY <2>2, <2>4 DEF RunsNext, WorkerInv
  <2>. QED BY <2>1, <2>5
<1>. QED BY <1>2, <1>4 DEF Working

\* OptimizerStep leaves the outputs alone.
LEMMA OptimizerStepStep ==
  ASSUME Typed, Working, OptimizerStep
  PROVE  Typed' /\ Working'
<1>1. /\ \A w \in Workers : pc[w] = "optimizer"
      /\ pc' = [w \in Workers |-> "postprocess"]
      /\ UNCHANGED <<driverVars, shard, iteration, data, num, indices, output_lst, reply>>
  BY DEF OptimizerStep, AtCollective
<1>2. Typed'
  BY <1>1 DEF Typed, Stages
<1>3. RowsUnderWay' = RowsUnderWay
  BY <1>1 DEF driverVars, RowsUnderWay, Training
<1>4. ASSUME NEW w \in Workers PROVE Under(w)' /\ WorkerInv(w)'
  <2>1. Under(w)'
    BY <1>1, UnderFrame DEF Working, driverVars
  <2>2. pc'[w] = "postprocess" /\ pc[w] = "optimizer"
    BY <1>1
  <2>3. \E k \in 1 .. RowsUnderWay, m \in Nat :
          /\ Cover(indices[w], RowsUnderWay, k)
          /\ output_lst[w] = Ran(data[w], indices[w], m)
          /\ m <= k /\ (m = k <=> pc[w] # "forward")
    BY <2>2 DEF Working, WorkerInv
  <2>4. \E k \in 1 .. RowsUnderWay', m \in Nat :
          /\ Cover(indices'[w], RowsUnderWay', k)
          /\ output_lst'[w] = Ran(data'[w], indices'[w], m)
          /\ m <= k /\ (m = k <=> pc'[w] # "forward")
    BY <1>1, <1>3, <2>2, <2>3
  <2>5. WorkerInv(w)'
    BY <2>2, <2>4 DEF WorkerInv
  <2>. QED BY <2>1, <2>5
<1>. QED BY <1>2, <1>4 DEF Working

\* What a worker returns is in the order of the rows it had under way.
LEMMA ReplyInOrder ==
  ASSUME BatchInv, Working, NEW w \in Workers, pc[w] = "postprocess"
  PROVE  restore_dynamic_batch(FlattenSeq(output_lst[w]), indices[w]) = data[w]
<1>1. PICK n \in Nat : n = RowsUnderWay
  BY Sizes
<1>2. PICK k \in 1 .. n : Cover(indices[w], n, k) /\ output_lst[w] = Ran(data[w], indices[w], k)
  BY <1>1 DEF Working, WorkerInv
<1>3. PICK rows \in Seq(Rows) : rows = data[w] /\ Len(rows) = n
  BY <1>1, DataRows DEF Working
<1>4. k \in Nat
  OBVIOUS
<1>5. PICK idx : idx = indices[w]
  OBVIOUS
<1>6. restore_dynamic_batch(FlattenSeq(Ran(rows, idx, k)), idx) = rows
  BY <1>2, <1>3, <1>4, <1>5, AllRan
<1>. QED BY <1>2, <1>3, <1>5, <1>6

\* A worker that finishes replies in the order of its rows, or turns to the next rows.
LEMMA FinishStep ==
  ASSUME BatchInv, Typed, Working, NEW group \in SUBSET Workers,
         \A w \in group : pc[w] = "postprocess", Finish(group)
  PROVE  Typed' /\ Working'
<1>. DEFINE more(w) == w \in group /\ Training /\ iteration[w] < Epochs * MiniBatches
<1>1. /\ reply' = [w \in Workers |->
                     IF w \in group THEN restore_dynamic_batch(FlattenSeq(output_lst[w]), indices[w])
                     ELSE reply[w]]
      /\ output_lst' = [w \in Workers |-> IF w \in group THEN <<>> ELSE output_lst[w]]
      /\ indices' = [w \in Workers |-> IF w \in group THEN <<>> ELSE indices[w]]
      /\ pc' = [w \in Workers |->
                  IF w \notin group THEN pc[w] ELSE IF more(w) THEN "tokens" ELSE "replied"]
      /\ iteration' = [w \in Workers |-> IF more(w) THEN iteration[w] + 1 ELSE iteration[w]]
      /\ data' = [w \in Workers |->
                    IF more(w) THEN MiniBatch(w, shard[w], iteration'[w]) ELSE data[w]]
      /\ UNCHANGED <<driverVars, shard, num>>
  BY DEF Finish
<1>2. Typed'
  BY <1>1 DEF Typed, Stages
<1>3. ASSUME NEW w \in Workers PROVE Under(w)' /\ WorkerInv(w)'
  <2>0. Under(w) /\ WorkerInv(w)
    BY DEF Working
  <2>1. CASE w \notin group
    <3>1. Same(w) /\ iteration'[w] = iteration[w] /\ shard'[w] = shard[w]
      BY <1>1, <2>1 DEF Same
    <3>2. Under(w)'
      BY <1>1, <2>0, <3>1, UnderFrame DEF Same, driverVars
    <3>. QED BY <1>1, <2>0, <3>1, <3>2, WorkerFrame DEF driverVars
  <2>2. CASE w \in group /\ more(w)
    <3>1. pc'[w] = "tokens" /\ output_lst'[w] = <<>>
      BY <1>1, <2>2
    <3>2. WorkerInv(w)'
      BY <3>1 DEF WorkerInv
    <3>3. iteration'[w] = iteration[w] + 1 /\ data'[w] = MiniBatch(w, shard[w], iteration'[w]) /\ Training
      BY <1>1, <2>2
    <3>4. iteration'[w] \in 1 .. Epochs * MiniBatches
      <4>1. Epochs \in Nat /\ MiniBatches \in Nat
        BY BatchAssumption, Sizes
      <4>2. Epochs * MiniBatches \in Nat
        BY <4>1
      <4>. QED BY <2>0, <2>2, <3>3, <4>2 DEF Under
    <3>5. Under(w)'
      BY <1>1, <2>0, <3>3, <3>4 DEF Under, Training, driverVars
    <3>. QED BY <3>2, <3>5
  <2>3. CASE w \in group /\ ~more(w)
    <3>1. /\ pc'[w] = "replied" /\ data'[w] = data[w] /\ iteration'[w] = iteration[w]
          /\ reply'[w] = restore_dynamic_batch(FlattenSeq(output_lst[w]), indices[w])
      BY <1>1, <2>3
    <3>2. reply'[w] = data'[w]
      BY <2>3, <3>1, ReplyInOrder
    <3>3. WorkerInv(w)'
      BY <3>1, <3>2 DEF WorkerInv
    <3>4. Under(w)'
      BY <1>1, <2>0, <3>1, UnderFrame DEF driverVars
    <3>. QED BY <3>3, <3>4
  <2>. QED BY <2>1, <2>2, <2>3
<1>. QED BY <1>2, <1>3 DEF Working

\* What compute_log_prob returned is in the order of the batch.
LEMMA CollectLogProbsStep ==
  ASSUME BatchInv, BatchInv', CallInv, CollectLogProbs
  PROVE  CallInv'
<1>1. /\ method = "compute_log_prob" /\ \A w \in Workers : pc[w] = "replied"
      /\ result' = collect_nd_compute(reply) /\ Call("update_actor", batch)
      /\ UNCHANGED <<batch, num>>
  BY DEF CollectLogProbs, AllReplied
<1>2. Typed /\ Working
  BY <1>1 DEF CallInv
<1>3. ASSUME NEW w \in Workers PROVE reply[w] = dispatch_nd_compute(batch)[w]
  BY <1>1, <1>2 DEF Working, Under, WorkerInv, Training
<1>4. collect_nd_compute(reply) = batch
  <2>1. /\ batch \in Seq(Rows) /\ Len(batch) = DpSize * RowsPerRank /\ RowsPerRank \in Nat \ {0}
    BY RowNumbers DEF BatchInv, WholeBatch
  <2>2. PICK output : output = reply
    OBVIOUS
  <2>3. \A w \in Workers : output[w] = dispatch_nd_compute(batch)[w]
    BY <1>3, <2>2
  <2>4. PICK rows \in Seq(Rows) : rows = batch
    BY <2>1
  <2>5. collect_nd_compute(output) = rows
    BY <2>1, <2>3, <2>4, CollectedShards
  <2>. QED BY <2>2, <2>4, <2>5
<1>5. Typed' /\ Working' /\ method' = "update_actor" /\ driver' = "wait"
  <2>1. Call("update_actor", batch')
    BY <1>1 DEF Call
  <2>. QED BY <1>1, <1>2, <2>1, CallStarts
<1>6. RowsReturn'
  BY <1>1, <1>4 DEF RowsReturn
<1>. QED BY <1>5, <1>6 DEF CallInv

\* Every step keeps the rows of the calls in order.
LEMMA CallStep ==
  HeapInv /\ BatchInv /\ BatchInv' /\ CallInv /\ [Next]_vars => CallInv'
<1> SUFFICES ASSUME HeapInv, BatchInv, BatchInv', CallInv, [Next]_vars PROVE CallInv'
  OBVIOUS
<1>0. Typed
  BY DEF CallInv
<1>1. CASE Reorder
  <2>1. Call("compute_log_prob", batch') /\ UNCHANGED <<num, result>>
    BY <1>1 DEF Reorder
  <2>2. Typed' /\ Working' /\ method' = "compute_log_prob" /\ driver' = "wait"
    BY <1>0, <2>1, CallStarts
  <2>. QED BY <2>2 DEF CallInv, RowsReturn
<1>2. CASE CollectLogProbs
  BY <1>2, CollectLogProbsStep
<1>3. CASE /\ UNCHANGED <<seqlen, batch, method, result, workerVars>>
           /\ (driver' \in {"push", "merge"} <=> driver \in {"push", "merge"})
  <2>1. Typed' /\ RowsReturn'
    BY <1>3 DEF CallInv, Typed, RowsReturn, workerVars
  <2>2. ASSUME Working PROVE Working'
    <3>1. ASSUME NEW w \in Workers PROVE Under(w)' /\ WorkerInv(w)'
      <4>1. Same(w)
        BY <1>3 DEF Same, workerVars
      <4>. QED BY <1>3, <2>2, <4>1, UnderFrame, WorkerFrame DEF Working, workerVars
    <3>. QED BY <3>1 DEF Working
  <2>3. IF method' = "none" THEN \A w \in Workers : pc'[w] = "idle" ELSE Working'
    BY <1>3, <2>2 DEF CallInv, workerVars
  <2>. QED BY <1>3, <2>1, <2>3 DEF CallInv
<1>4. CASE Collectives \/ \E w \in Workers : WorkerStep(w)
  <2>1. driverVars' = driverVars
    BY <1>4 DEF Collectives, WorkerStep, Forward, OptimizerStep, ReduceMetrics, ReturnNone, Finish,
       CountTokens, CheckLengths, Agree, Partition
  <2>2. 0 \in Workers /\ is_collect(0)
    <3>1. SpSize * 0 + 0 = 0 /\ 0 \in 0 .. SpSize - 1 /\ SpSize \in Nat \ {0} /\ WorldSize \in Nat \ {0}
      BY MeshAssumption
    <3>2. 0 % SpSize = 0
      BY <3>1, Quotients
    <3>. QED BY <3>1, <3>2 DEF Workers, is_collect
  <2>3. \E w \in Workers : pc[w] # "idle"
    <3>1. CASE Forward \/ OptimizerStep \/ ReduceMetrics
      BY <2>2, <3>1 DEF Forward, OptimizerStep, ReduceMetrics, AtCollective
    <3>2. ASSUME NEW w \in Workers, WorkerStep(w) PROVE pc[w] # "idle"
      <4>1. w \in dp_group(w)
        BY DEF dp_group
      <4>. QED BY <3>2, <4>1 DEF WorkerStep, CountTokens, CheckLengths, Agree, Partition, ReturnNone, AtCollective
    <3>. QED BY <1>4, <3>1, <3>2 DEF Collectives
  <2>4. Working /\ method # "none"
    BY <2>3 DEF CallInv
  <2>5. Typed' /\ Working'
    <3>1. CASE Forward
      BY <1>0, <2>4, <3>1, ForwardStep
    <3>2. CASE OptimizerStep
      BY <1>0, <2>4, <3>2, OptimizerStepStep
    <3>3. CASE ReduceMetrics
      <4>1. PICK group \in SUBSET Workers :
              Finish(group) /\ \A w \in group : pc[w] = "postprocess"
        BY <3>3 DEF ReduceMetrics, AtCollective
      <4>. QED BY <1>0, <2>4, <4>1, FinishStep
    <3>4. ASSUME NEW w \in Workers, WorkerStep(w) PROVE Typed' /\ Working'
      <4>1. CASE CountTokens(w)
        BY <1>0, <2>4, <4>1, CountStep
      <4>2. CASE CheckLengths(w)
        BY <1>0, <2>4, <4>2, CheckStep
      <4>3. CASE Agree(w)
        BY <1>0, <2>4, <4>3, AgreeStep
      <4>4. CASE Partition(w)
        BY <1>0, <2>4, <4>4, PartitionStep
      <4>5. CASE ReturnNone(w)
        <5>1. pc[w] = "postprocess" /\ Finish({w})
          BY <4>5 DEF ReturnNone
        <5>. QED BY <1>0, <2>4, <5>1, FinishStep
      <4>. QED BY <3>4, <4>1, <4>2, <4>3, <4>4, <4>5 DEF WorkerStep
    <3>. QED BY <1>4, <3>1, <3>2, <3>3, <3>4 DEF Collectives
  <2>. QED BY <2>1, <2>4, <2>5 DEF CallInv, driverVars, RowsReturn
<1>5. \/ Reorder \/ CollectLogProbs
      \/ /\ UNCHANGED <<seqlen, batch, method, result, workerVars>>
         /\ (driver' \in {"push", "merge"} <=> driver \in {"push", "merge"})
      \/ Collectives \/ \E w \in Workers : WorkerStep(w)
  <2>1. CASE PushState
    BY <2>1 DEF PushState
  <2>2. CASE MergeStates \/ CollectUpdate \/ CallRaises
    BY <2>2 DEF MergeStates, CollectUpdate, CallRaises
  <2>3. CASE UNCHANGED vars
    BY <2>3 DEF vars, driverVars
  <2>. QED BY <2>1, <2>2, <2>3 DEF Next, DriverStep
<1>. QED BY <1>1, <1>2, <1>3, <1>4, <1>5

\* No call has started.
LEMMA CallInit == Init => CallInv
BY DEF Init, CallInv, Typed, Stages, RowsReturn

\* The rows are balanced, sent out, cut, run and collected, and what comes back
\* for a row is this row's.
THEOREM RowsReturnSafe == Spec => []RowsReturn
<1>1. HeapInv /\ BatchInv /\ [Next]_vars => BatchInv'
  BY BatchStep
<1>2. CallInv => RowsReturn
  BY DEF CallInv
<1>. QED BY <1>1, <1>2, BatchInvariant, CallInit, CallStep, PTL DEF Spec

\* The assertion with which karmarkar_karp returns when equal_size is set, len(partition) *
\* k_partitions == len(seqlen_list): when one state is left, every data-parallel rank has
\* RowsPerRank of the rows.
RanksEqual ==
  driver = "merge" /\ Cardinality(states_pq) = 1 =>
     \A state \in states_pq : \A d \in 1 .. DpSize : Len(state[d].items) = RowsPerRank

\* The driver's Karmarkar-Karp gives each data-parallel rank as many rows, whatever the
\* lengths of the batch.
THEOREM RanksEqualSafe == Spec => []RanksEqual
<1>1. HeapInv /\ BatchInv => RanksEqual
  <2> SUFFICES ASSUME HeapInv, BatchInv, driver = "merge", Cardinality(states_pq) = 1,
                      NEW state \in states_pq
               PROVE  \A d \in 1 .. DpSize : Len(state[d].items) = RowsPerRank
    BY DEF RanksEqual
  <2>1. seqlen \in Batches /\ FullHeap(states_pq) /\ IsFiniteSet(states_pq)
    BY DEF HeapInv, BatchInv
  <2>2. PICK x : states_pq = {x}
    BY <2>1, FS_Singleton
  <2>3. PICK s : s = CHOOSE y \in states_pq : TRUE
    OBVIOUS
  <2>4. state = s
    BY <2>2, <2>3
  <2>5. PICK all : all = FlattenSeq([d \in 1 .. DpSize |-> OrderedPartition(s[d].items)])
    OBVIOUS
  <2>6. \A d \in 1 .. DpSize : Len(s[d].items) = RowsPerRank
    BY <2>1, <2>3, <2>5, BatchReordered
  <2>. QED BY <2>4, <2>6
<1>. QED BY <1>1, BatchInvariant, PTL

-----------------------------------------------------------------------------
(* The workers keep in step *)

\* The rows that a worker has under way in an iteration
DataAt(w, n) == IF Training THEN MiniBatch(w, shard[w], n) ELSE shard[w]

Tokens(rows) == SumOver(seqlen, rows)

\* The number of micro-batches a worker counts for itself
NumberFor(rows) ==
  IF ceildiv(Tokens(rows), max_token_len) < Len(rows)
  THEN ceildiv(Tokens(rows), max_token_len) ELSE Len(rows)

\* Those that the members of its data-parallel group count in an iteration
Numbers(w, n) == {NumberFor(DataAt(v, n)) : v \in dp_group(w)}

Largest(k, S) == k \in S /\ \A x \in S : x <= k

\* Iterations of a call
Rounds == IF Training THEN Epochs * MiniBatches ELSE 1

Late(w) == pc[w] \in {"postprocess", "replied"}

\* No worker is an iteration ahead of another: some may have run their rows and others
\* have taken the next ones.
Abreast ==
  \E n \in Nat : \A w \in Workers : iteration[w] = IF Late(w) THEN n ELSE n + 1

\* The number of micro-batches a worker has is that of its data-parallel group in its
\* iteration.
Counted(w) ==
  \E n \in 1 .. Rounds :
    /\ iteration[w] = n /\ (pc[w] = "replied" => n = Rounds)
    /\ pc[w] = "agree" => num[w] = NumberFor(data[w])
    /\ pc[w] = "partition" => Largest(num[w], Numbers(w, n))
    /\ pc[w] = "forward" => Largest(Len(indices[w]), Numbers(w, n))

\* All workers are between the same forward passes.
Passing(v, w) ==
  /\ pc[w] = "optimizer" => pc[v] = "optimizer"
  /\ pc[w] = "forward" /\ output_lst[w] # <<>> =>
       pc[v] = "forward" /\ Len(output_lst[v]) = Len(output_lst[w])

\* The members of a data-parallel group come to its collective operations together.
Grouped(v, w) ==
  /\ pc[w] = "tokens" /\ ~Late(v) => pc[v] = "tokens"
  /\ Late(w) /\ ~Late(v) => pc[v] = "tokens"
  /\ pc[w] \in {"check", "agree"} => pc[v] \in {"check", "agree", "failed"}

\* So do the workers that collect.
Collecting(v, w) ==
  is_collect(v) /\ is_collect(w) /\ pc[w] = "postprocess" => pc[v] = "postprocess"

InStep ==
  /\ Abreast
  /\ \A w \in Workers : Counted(w)
  /\ \A v, w \in Workers : Passing(v, w) /\ Collecting(v, w)
  /\ \A w \in Workers : \A v \in dp_group(w) : Grouped(v, w)

\* All data-parallel groups count the same numbers, for they have the same rows: a
\* sequence-parallel group is sent one shard and shuffles it alike.
LEMMA SameNumbers ==
  ASSUME \A w \in Workers : Under(w), NEW u \in Workers, NEW w \in Workers, NEW n
  PROVE  Numbers(u, n) = Numbers(w, n)
<1>1. SpSize \in Nat \ {0} /\ WorldSize = SpSize * DpSize /\ DpSize \in Nat \ {0}
  BY MeshSizes
<1>2. ASSUME NEW a \in Workers, NEW b \in Workers, dp_rank(a) = dp_rank(b)
      PROVE  DataAt(a, n) = DataAt(b, n)
  <2>1. shard[a] = shard[b]
    BY <1>2 DEF Under, dispatch_nd_compute
  <2>. QED BY <1>2, <2>1 DEF DataAt, MiniBatch, Seed
<1>3. ASSUME NEW a \in Workers, NEW b \in Workers, NEW v \in dp_group(a)
      PROVE  \E x \in dp_group(b) : dp_rank(x) = dp_rank(v)
  <2>1. v \in Workers
    BY DEF dp_group
  <2>2. PICK d \in 0 .. DpSize - 1, m \in 0 .. SpSize - 1 : d = dp_rank(v) /\ m = b % SpSize
    BY <1>1, <2>1, MeshSizes, Quotients
  <2>3. \E x \in Workers : dp_rank(x) = d /\ x % SpSize = m
    BY RankHasWorker
  <2>. QED BY <2>2, <2>3 DEF dp_group
<1>4. ASSUME NEW a \in Workers, NEW b \in Workers PROVE Numbers(a, n) \subseteq Numbers(b, n)
  <2>1. ASSUME NEW v \in dp_group(a) PROVE NumberFor(DataAt(v, n)) \in Numbers(b, n)
    <3>1. PICK x \in dp_group(b) : dp_rank(x) = dp_rank(v)
      BY <1>3
    <3>2. v \in Workers /\ x \in Workers
      BY DEF dp_group
    <3>3. DataAt(v, n) = DataAt(x, n)
      BY <1>2, <3>1, <3>2
    <3>. QED BY <3>3 DEF Numbers
  <2>. QED BY <2>1 DEF Numbers
<1>. QED BY <1>4

\* What workers count is a natural number.
LEMMA NumbersCounted ==
  ASSUME HeapInv, BatchInv, NEW w \in Workers, Under(w), NEW n, n = iteration[w]
  PROVE  NumberFor(data[w]) \in 1 .. RowsUnderWay /\ data[w] = DataAt(w, n)
<1>1. seqlen \in Batches
  BY DEF HeapInv
<1>2. PICK rows \in Seq(Rows) : rows = data[w] /\ Len(rows) = RowsUnderWay
  BY DataRows
<1>3. RowsUnderWay \in Nat \ {0}
  BY Sizes
<1>4. rows # <<>>
  BY <1>2, <1>3
<1>5. PICK total : total = Tokens(rows)
  OBVIOUS
<1>6. total \in Nat \ {0}
  <2>1. seqlen \in [Rows -> Nat \ {0}]
    BY <1>1, BatchAssumption
  <2>. QED BY <1>4, <1>5, <2>1, FoldedSumPositive DEF Tokens
<1>7. PICK wanted : wanted = ceildiv(total, max_token_len)
  OBVIOUS
<1>8. (IF wanted < Len(rows) THEN wanted ELSE Len(rows)) \in 1 .. RowsUnderWay
  BY <1>2, <1>3, <1>6, <1>7, NumberWanted
<1>9. NumberFor(rows) = IF wanted < Len(rows) THEN wanted ELSE Len(rows)
  BY <1>5, <1>7 DEF NumberFor
<1>. QED BY <1>2, <1>8, <1>9 DEF Under, DataAt

\* What the members of a group count in an iteration does not depend on where they are.
LEMMA NumbersStable ==
  ASSUME UNCHANGED <<seqlen, method, shard>>, NEW w, NEW n
  PROVE  Numbers(w, n)' = Numbers(w, n) /\ Rounds' = Rounds
<1>1. \A v : DataAt(v, n)' = DataAt(v, n)
  BY DEF DataAt, Training
<1>2. \A rows : NumberFor(rows)' = NumberFor(rows)
  BY DEF NumberFor, Tokens, max_token_len, Training
<1>3. \A v \in dp_group(w) : NumberFor(DataAt(v, n))' = NumberFor(DataAt(v, n))
  BY <1>1, <1>2
<1>. QED BY <1>3 DEF Numbers, Rounds, Training

\* Whether workers are abreast depends on their iteration and on being late only.
LEMMA AbreastFrame ==
  ASSUME Abreast, \A w \in Workers : iteration'[w] = iteration[w] /\ (Late(w)' <=> Late(w))
  PROVE  Abreast'
BY DEF Abreast

\* What a worker has counted stays while it is left alone.
LEMMA CountedFrame ==
  ASSUME NEW w \in Workers, Counted(w), UNCHANGED <<seqlen, method, shard>>, Same(w),
         iteration'[w] = iteration[w]
  PROVE  Counted(w)'
<1>1. NumberFor(data[w])' = NumberFor(data[w])
  BY DEF Same, NumberFor, Tokens, max_token_len, Training
<1>2. \A n : Rounds' = Rounds /\ Numbers(w, n)' = Numbers(w, n)
  BY NumbersStable
<1>. QED BY <1>1, <1>2 DEF Counted, Same, Largest

\* The data-parallel groups share no worker.
LEMMA GroupsApart ==
  ASSUME NEW g \in Workers, NEW w \in Workers, NEW v \in dp_group(w)
  PROVE  v \in Workers /\ (v \in dp_group(g) <=> w \in dp_group(g))
BY DEF dp_group

\* A group counts its tokens together.
LEMMA CountInStep ==
  ASSUME Typed, Working, InStep, NEW g \in Workers, CountTokens(g)
  PROVE  InStep'
<1>1. /\ \A w \in Workers : pc'[w] = IF w \in dp_group(g) THEN "check" ELSE pc[w]
      /\ \A w \in dp_group(g) : pc[w] = "tokens"
      /\ UNCHANGED <<driverVars, shard, iteration, data, num, indices, output_lst, reply>>
  BY DEF CountTokens, AtCollective
<1>2. Abreast'
  <2>1. \A w \in Workers : Late(w)' <=> Late(w)
    BY <1>1 DEF Late
  <2>. QED BY <1>1, <2>1, AbreastFrame DEF InStep
<1>3. ASSUME NEW w \in Workers PROVE Counted(w)'
  <2>1. CASE w \in dp_group(g)
    <3>1. pc'[w] = "check"
      BY <1>1, <2>1
    <3>2. iteration'[w] \in 1 .. Rounds'
      BY <1>1 DEF InStep, Counted, driverVars, Rounds, Training
    <3>. QED BY <3>1, <3>2 DEF Counted
  <2>2. CASE w \notin dp_group(g)
    <3>1. Same(w)
      BY <1>1, <2>2 DEF Same
    <3>. QED BY <1>1, <3>1, CountedFrame DEF InStep, driverVars
  <2>. QED BY <2>1, <2>2
<1>4. ASSUME NEW v \in Workers, NEW w \in Workers PROVE Passing(v, w)' /\ Collecting(v, w)'
  <2>1. Passing(v, w) /\ Collecting(v, w)
    BY DEF InStep
  <2>. QED BY <1>1, <2>1 DEF Passing, Collecting
<1>5. ASSUME NEW w \in Workers, NEW v \in dp_group(w) PROVE Grouped(v, w)'
  <2>1. v \in Workers /\ (v \in dp_group(g) <=> w \in dp_group(g)) /\ Grouped(v, w)
    BY GroupsApart DEF InStep
  <2>. QED BY <1>1, <2>1 DEF Grouped, Late
<1>. QED BY <1>2, <1>3, <1>4, <1>5 DEF InStep

\* Checking the lengths, a worker counts the micro-batches it needs.
LEMMA CheckInStep ==
  ASSUME HeapInv, BatchInv, Typed, Working, InStep, NEW x \in Workers, CheckLengths(x)
  PROVE  InStep'
<1>1. /\ pc[x] = "check"
      /\ UNCHANGED <<driverVars, shard, iteration, data, indices, output_lst, reply>>
  BY DEF CheckLengths
<1>2. \/ pc' = [pc EXCEPT ![x] = "failed"] /\ num' = num
      \/ pc' = [pc EXCEPT ![x] = "agree"] /\ num' = [num EXCEPT ![x] = NumberFor(data[x])]
  <2>1. CASE \E i \in DOMAIN data[x] : seqlen[data[x][i]] > max_token_len
    BY <2>1 DEF CheckLengths
  <2>2. CASE ~\E i \in DOMAIN data[x] : seqlen[data[x][i]] > max_token_len
    <3>1. PICK total : total = FoldSeq(LAMBDA r, sum : sum + seqlen[r], 0, data[x])
      OBVIOUS
    <3>2. PICK wanted : wanted = ceildiv(total, max_token_len)
      OBVIOUS
    <3>3. /\ pc' = [pc EXCEPT ![x] = "agree"]
          /\ num' = [num EXCEPT ![x] = IF wanted < Len(data[x]) THEN wanted ELSE Len(data[x])]
      BY <2>2, <3>1, <3>2, Zenon DEF CheckLengths
    <3>4. total = Tokens(data[x])
      <4>1. FoldSeq(LAMBDA r, sum : sum + seqlen[r], 0, data[x]) = Tokens(data[x])
        BY DEF FoldSeq, FoldFunction, FoldFunctionOnSet, MapThenFoldSet, Tokens, SumOver
      <4>. QED BY <3>1, <4>1, Zenon
    <3>. HIDE <3>1
    <3>. QED BY <3>2, <3>3, <3>4 DEF NumberFor
  <2>. QED BY <2>1, <2>2
<1>3. \A w \in Workers : /\ w # x => pc'[w] = pc[w] /\ num'[w] = num[w]
                         /\ w = x => pc'[w] \in {"agree", "failed"} /\ (pc'[w] = "agree" => num'[w] = NumberFor(data[w]))
  BY <1>1, <1>2 DEF Typed
<1>. HIDE <1>2
<1>4. Abreast'
  <2>1. \A w \in Workers : Late(w)' <=> Late(w)
    BY <1>1, <1>3 DEF Late
  <2>. QED BY <1>1, <2>1, AbreastFrame DEF InStep
<1>5. ASSUME NEW w \in Workers PROVE Counted(w)'
  <2>1. CASE w = x
    <3>1. NumberFor(data[w])' = NumberFor(data[w])
      BY <1>1 DEF NumberFor, Tokens, max_token_len, Training, driverVars
    <3>2. iteration'[w] \in 1 .. Rounds'
      BY <1>1 DEF InStep, Counted, driverVars, Rounds, Training
    <3>. QED BY <1>3, <2>1, <3>1, <3>2 DEF Counted
  <2>2. CASE w # x
    <3>1. Same(w)
      BY <1>1, <1>3, <2>2 DEF Same
    <3>. QED BY <1>1, <3>1, CountedFrame DEF InStep, driverVars
  <2>. QED BY <2>1, <2>2
<1>6. ASSUME NEW v \in Workers, NEW w \in Workers PROVE Passing(v, w)' /\ Collecting(v, w)'
  <2>1. Passing(v, w) /\ Collecting(v, w)
    BY DEF InStep
  <2>2. Passing(v, w)'
    BY <1>1, <1>3, <2>1 DEF Passing
  <2>3. Collecting(v, w)'
    BY <1>1, <1>3, <2>1 DEF Collecting
  <2>. QED BY <2>2, <2>3
<1>7. ASSUME NEW w \in Workers, NEW v \in dp_group(w) PROVE Grouped(v, w)'
  <2>1. v \in Workers /\ Grouped(v, w)
    BY GroupsApart DEF InStep
  <2>2. (Late(v)' <=> Late(v)) /\ (Late(w)' <=> Late(w))
    BY <1>1, <1>3, <2>1 DEF Late
  <2>3. (pc'[w] = "tokens" <=> pc[w] = "tokens") /\ (pc'[v] = "tokens" <=> pc[v] = "tokens")
    BY <1>1, <1>3, <2>1
  <2>4. /\ pc'[w] \in {"check", "agree"} => pc[w] \in {"check", "agree"}
        /\ pc[v] \in {"check", "agree", "failed"} => pc'[v] \in {"check", "agree", "failed"}
    BY <1>1, <1>3, <2>1
  <2>. QED BY <2>1, <2>2, <2>3, <2>4 DEF Grouped
<1>. QED BY <1>4, <1>5, <1>6, <1>7 DEF InStep

\* A group agrees on the largest number of its members, and they are in one iteration.
LEMMA AgreeInStep ==
  ASSUME HeapInv, BatchInv, Typed, Working, InStep, NEW g \in Workers, Agree(g)
  PROVE  InStep'
<1>1. /\ \A w \in Workers : pc'[w] = IF w \in dp_group(g) THEN "partition" ELSE pc[w]
      /\ \A w \in Workers : num'[w] = IF w \in dp_group(g) THEN AgreedNumber(w) ELSE num[w]
      /\ \A w \in dp_group(g) : pc[w] = "agree"
      /\ UNCHANGED <<driverVars, shard, iteration, data, indices, output_lst, reply>>
  BY DEF Agree, AtCollective
<1>2. Abreast'
  <2>1. \A w \in Workers : Late(w)' <=> Late(w)
    BY <1>1 DEF Late
  <2>. QED BY <1>1, <2>1, AbreastFrame DEF InStep
<1>3. \A w \in Workers : \A n : Rounds' = Rounds /\ Numbers(w, n)' = Numbers(w, n)
  BY <1>1, NumbersStable DEF driverVars
<1>4. ASSUME NEW w \in Workers PROVE Counted(w)'
  <2>1. CASE w \in dp_group(g)
    <3>1. PICK n \in 1 .. Rounds : iteration[w] = n
      BY DEF InStep, Counted
    <3>2. ASSUME NEW v \in dp_group(w)
          PROVE  /\ v \in Workers /\ pc[v] = "agree" /\ iteration[v] = n
                 /\ num[v] \in 1 .. RowsUnderWay /\ num[v] = NumberFor(DataAt(v, n))
      <4>1. v \in Workers /\ pc[v] = "agree" /\ pc[w] = "agree"
        BY <1>1, <2>1, GroupsApart
      <4>2. iteration[v] = n
        BY <3>1, <4>1 DEF InStep, Abreast, Late
      <4>3. num[v] \in 1 .. RowsUnderWay
        BY <4>1 DEF Working, WorkerInv
      <4>4. num[v] = NumberFor(data[v])
        BY <4>1 DEF InStep, Counted
      <4>5. data[v] = DataAt(v, n)
        BY <4>1, <4>2, NumbersCounted DEF Working
      <4>. QED BY <4>1, <4>2, <4>3, <4>4, <4>5
    <3>3. /\ AgreedNumber(w) \in {num[v] : v \in dp_group(w)}
          /\ \A v \in dp_group(w) : num[v] <= AgreedNumber(w)
      <4>1. RowsUnderWay \in Nat
        BY Sizes
      <4>. QED BY <3>2, <4>1, NumberAgreed
    <3>4. Numbers(w, n) = {num[v] : v \in dp_group(w)}
      BY <3>2 DEF Numbers
    <3>5. Largest(AgreedNumber(w), Numbers(w, n))
      BY <3>3, <3>4 DEF Largest
    <3>6. pc'[w] = "partition" /\ num'[w] = AgreedNumber(w) /\ iteration'[w] = n
      BY <1>1, <2>1, <3>1
    <3>7. Largest(num'[w], Numbers(w, n)')
      BY <1>3, <3>5, <3>6
    <3>. QED BY <1>3, <3>6, <3>7 DEF Counted, Largest
  <2>2. CASE w \notin dp_group(g)
    <3>1. Same(w)
      BY <1>1, <2>2 DEF Same
    <3>. QED BY <1>1, <3>1, CountedFrame DEF InStep, driverVars
  <2>. QED BY <2>1, <2>2
<1>5. ASSUME NEW v \in Workers, NEW w \in Workers PROVE Passing(v, w)' /\ Collecting(v, w)'
  <2>1. Passing(v, w) /\ Collecting(v, w)
    BY DEF InStep
  <2>. QED BY <1>1, <2>1 DEF Passing, Collecting
<1>6. ASSUME NEW w \in Workers, NEW v \in dp_group(w) PROVE Grouped(v, w)'
  <2>1. v \in Workers /\ (v \in dp_group(g) <=> w \in dp_group(g)) /\ Grouped(v, w)
    BY GroupsApart DEF InStep
  <2>. QED BY <1>1, <2>1 DEF Grouped, Late
<1>. QED BY <1>2, <1>4, <1>5, <1>6 DEF InStep

\* A worker has as many micro-batches as its group agreed on.
LEMMA PartitionInStep ==
  ASSUME HeapInv, BatchInv, Typed, Working, InStep, NEW x \in Workers, Partition(x)
  PROVE  InStep'
<1>1. /\ pc[x] = "partition"
      /\ UNCHANGED <<driverVars, shard, iteration, data, num, output_lst, reply>>
  BY DEF Partition
<1>2. PICK idx : /\ Cover(idx, RowsUnderWay, num[x])
                 /\ indices' = [indices EXCEPT ![x] = idx] /\ pc' = [pc EXCEPT ![x] = "forward"]
  BY RowsPartitioned
<1>3. \A w \in Workers : /\ w # x => pc'[w] = pc[w] /\ indices'[w] = indices[w]
                         /\ w = x => pc'[w] = "forward" /\ indices'[w] = idx
  BY <1>2 DEF Typed
<1>4. Len(idx) = num[x] /\ output_lst[x] = <<>>
  <2>1. num[x] \in 1 .. RowsUnderWay /\ output_lst[x] = <<>> /\ RowsUnderWay \in Nat
    BY <1>1, Sizes DEF Working, WorkerInv
  <2>2. PICK k \in Nat, n \in Nat : k = num[x] /\ n = RowsUnderWay
    BY <2>1
  <2>3. idx \in [1 .. k -> Seq(1 .. n)]
    BY <1>2, <2>2 DEF Cover
  <2>4. Len(idx) = k
    BY <2>3
  <2>. QED BY <2>1, <2>2, <2>4
<1>5. Abreast'
  <2>1. \A w \in Workers : Late(w)' <=> Late(w)
    BY <1>1, <1>3 DEF Late
  <2>. QED BY <1>1, <2>1, AbreastFrame DEF InStep
<1>6. \A w \in Workers : \A n : Rounds' = Rounds /\ Numbers(w, n)' = Numbers(w, n)
  BY <1>1, NumbersStable DEF driverVars
<1>7. ASSUME NEW w \in Workers PROVE Counted(w)'
  <2>1. CASE w = x
    <3>1. PICK n \in 1 .. Rounds : iteration[w] = n /\ Largest(num[w], Numbers(w, n))
      BY <1>1, <2>1 DEF InStep, Counted
    <3>2. pc'[w] = "forward" /\ Len(indices'[w]) = num[w] /\ iteration'[w] = n
      BY <1>1, <1>3, <1>4, <2>1, <3>1
    <3>3. Largest(Len(indices'[w]), Numbers(w, n)')
      BY <1>6, <3>1, <3>2
    <3>. QED BY <1>6, <3>2, <3>3 DEF Counted, Largest
  <2>2. CASE w # x
    <3>1. Same(w)
      BY <1>1, <1>3, <2>2 DEF Same
    <3>. QED BY <1>1, <3>1, CountedFrame DEF InStep, driverVars
  <2>. QED BY <2>1, <2>2
<1>8. ASSUME NEW v \in Workers, NEW w \in Workers PROVE Passing(v, w)' /\ Collecting(v, w)'
  <2>1. Passing(v, w) /\ Collecting(v, w)
    BY DEF InStep
  <2>2. Passing(v, w)'
    BY <1>1, <1>3, <1>4, <2>1 DEF Passing
  <2>3. Collecting(v, w)'
    BY <1>1, <1>3, <2>1 DEF Collecting
  <2>. QED BY <2>2, <2>3
<1>9. ASSUME NEW w \in Workers, NEW v \in dp_group(w) PROVE Grouped(v, w)'
  <2>1. v \in Workers /\ Grouped(v, w)
    BY GroupsApart DEF InStep
  <2>2. (Late(v)' <=> Late(v)) /\ (Late(w)' <=> Late(w))
    BY <1>1, <1>3, <2>1 DEF Late
  <2>3. (pc'[w] = "tokens" <=> pc[w] = "tokens") /\ (pc'[v] = "tokens" <=> pc[v] = "tokens")
    BY <1>1, <1>3, <2>1
  <2>4. /\ pc'[w] \in {"check", "agree"} => pc[w] \in {"check", "agree"}
        /\ pc[v] \in {"check", "agree", "failed"} => pc'[v] \in {"check", "agree", "failed"}
    BY <1>1, <1>3, <2>1
  <2>. QED BY <2>1, <2>2, <2>3, <2>4 DEF Grouped
<1>. QED BY <1>5, <1>7, <1>8, <1>9 DEF InStep

\* The workers in front of a forward pass have as many micro-batches, and have run as
\* many of them.
EqualLeft ==
  (\A w \in Workers : pc[w] = "forward") =>
     \A v, w \in Workers : /\ Len(indices[v]) = Len(indices[w])
                           /\ Len(output_lst[v]) = Len(output_lst[w])

\* Those in step do.
LEMMA EqualLeftInStep ==
  ASSUME HeapInv, BatchInv, Working, InStep, \A w \in Workers : pc[w] = "forward",
         NEW v \in Workers, NEW w \in Workers
  PROVE  /\ iteration[v] = iteration[w] /\ Len(indices[v]) = Len(indices[w])
         /\ output_lst[v] # <<>> \/ output_lst[w] # <<>> => Len(output_lst[v]) = Len(output_lst[w])
<1>1. PICK n \in 1 .. Rounds : iteration[v] = n /\ Largest(Len(indices[v]), Numbers(v, n))
  BY DEF InStep, Counted
<1>2. iteration[w] = n
  BY <1>1 DEF InStep, Abreast, Late
<1>3. Largest(Len(indices[w]), Numbers(w, n))
  BY <1>2 DEF InStep, Counted
<1>4. Numbers(v, n) = Numbers(w, n)
  BY SameNumbers DEF Working
<1>5. \A x \in Workers : Len(indices[x]) \in Nat
  <2>1. ASSUME NEW x \in Workers PROVE Len(indices[x]) \in Nat
    <3>1. PICK n2 \in Nat : n2 = RowsUnderWay
      BY Sizes
    <3>2. PICK k \in 1 .. n2 : Cover(indices[x], n2, k)
      BY <3>1 DEF Working, WorkerInv
    <3>3. indices[x] \in Seq(Seq(1 .. n2))
      BY <3>2 DEF Cover
    <3>. QED BY <3>3
  <2>. QED BY <2>1
<1>6. Len(indices[v]) = Len(indices[w])
  BY <1>1, <1>3, <1>4, <1>5 DEF Largest
<1>7. output_lst[v] # <<>> \/ output_lst[w] # <<>> => Len(output_lst[v]) = Len(output_lst[w])
  BY DEF InStep, Passing
<1>. QED BY <1>1, <1>2, <1>6, <1>7

\* A forward pass takes all workers to the same place.
LEMMA ForwardInStep ==
  ASSUME HeapInv, BatchInv, Typed, Working, InStep, Forward
  PROVE  InStep'
<1>1. /\ \A w \in Workers : pc[w] = "forward"
      /\ UNCHANGED <<driverVars, shard, iteration, data, num, indices, reply>>
  BY DEF Forward, AtCollective
<1>2. PICK w0 \in Workers : TRUE
  BY MeshSizes DEF Workers
<1>3. PICK k \in 1 .. RowsUnderWay, m \in Nat : RunsNext(w0, RowsUnderWay, k, m)
  BY <1>2, NextBatchRuns
<1>4. ASSUME NEW w \in Workers
      PROVE  /\ iteration[w] = iteration[w0] /\ Len(indices[w]) = k
             /\ Len(output_lst'[w]) = m + 1 /\ output_lst'[w] # <<>>
  <2>1. PICK k2 \in 1 .. RowsUnderWay, m2 \in Nat : RunsNext(w, RowsUnderWay, k2, m2)
    BY NextBatchRuns
  <2>2. k2 = k /\ iteration[w] = iteration[w0]
    BY <1>1, <1>2, <1>3, <2>1, EqualLeftInStep DEF RunsNext
  <2>3. output_lst[w0] # <<>> \/ output_lst[w] # <<>> => m2 = m
    BY <1>1, <1>2, <1>3, <2>1, EqualLeftInStep DEF RunsNext
  <2>4. output_lst[w0] = <<>> /\ output_lst[w] = <<>> => m2 = m
    BY <1>3, <2>1 DEF RunsNext
  <2>5. Len(output_lst'[w]) = m + 1
    BY <2>1, <2>3, <2>4 DEF RunsNext
  <2>6. m + 1 # 0
    OBVIOUS
  <2>. QED BY <1>3, <2>1, <2>2, <2>5, <2>6 DEF RunsNext
<1>5. PICK stage \in {"forward", "optimizer", "postprocess"} : \A w \in Workers : pc'[w] = stage
  <2>1. \A w \in Workers : pc'[w] = IF m + 1 < k THEN "forward" ELSE IF Training THEN "optimizer" ELSE "postprocess"
    BY <1>1, <1>4 DEF Forward
  <2>. QED BY <2>1
<1>6. PICK n \in 1 .. Rounds : \A w \in Workers : iteration[w] = n
  <2>1. PICK n \in 1 .. Rounds : iteration[w0] = n
    BY <1>2 DEF InStep, Counted
  <2>. QED BY <1>4, <2>1
<1>7. Abreast'
  <2>1. n \in Nat /\ n - 1 \in Nat
    <3>1. Rounds \in Nat
      BY Sizes, BatchAssumption DEF Rounds
    <3>. QED BY <3>1
  <2>2. CASE stage = "postprocess"
    BY <1>1, <1>5, <1>6, <2>1, <2>2 DEF Abreast, Late
  <2>3. CASE stage # "postprocess"
    <3>1. \A w \in Workers : ~Late(w)' /\ iteration'[w] = (n - 1) + 1
      BY <1>1, <1>5, <1>6, <2>1, <2>3 DEF Late
    <3>. QED BY <2>1, <3>1 DEF Abreast
  <2>. QED BY <2>2, <2>3
<1>8. ASSUME NEW w \in Workers PROVE Counted(w)'
  <2>1. Rounds' = Rounds /\ Numbers(w, n)' = Numbers(w, n)
    BY <1>1, NumbersStable DEF driverVars
  <2>2. Largest(Len(indices[w]), Numbers(w, n))
    BY <1>1, <1>6 DEF InStep, Counted
  <2>3. indices'[w] = indices[w] /\ iteration'[w] = n
    BY <1>1, <1>6
  <2>4. Largest(Len(indices'[w]), Numbers(w, n)')
    BY <2>1, <2>2, <2>3
  <2>5. pc'[w] \notin {"agree", "partition", "replied"}
    BY <1>5
  <2>. QED BY <2>1, <2>3, <2>4, <2>5 DEF Counted, Largest
<1>9. ASSUME NEW v \in Workers, NEW w \in Workers PROVE Passing(v, w)' /\ Collecting(v, w)'
  BY <1>4, <1>5 DEF Passing, Collecting
<1>10. ASSUME NEW w \in Workers, NEW v \in dp_group(w) PROVE Grouped(v, w)'
  <2>1. v \in Workers
    BY GroupsApart
  <2>2. pc'[w] = stage /\ pc'[v] = stage
    BY <1>5, <2>1
  <2>. QED BY <2>2 DEF Grouped, Late
<1>. QED BY <1>7, <1>8, <1>9, <1>10 DEF InStep

\* The optimizer steps for all workers at once.
LEMMA OptimizerInStep ==
  ASSUME Typed, Working, InStep, OptimizerStep
  PROVE  InStep'
<1>1. /\ \A w \in Workers : pc[w] = "optimizer" /\ pc'[w] = "postprocess"
      /\ UNCHANGED <<driverVars, shard, iteration, data, num, indices, output_lst, reply>>
  BY DEF OptimizerStep, AtCollective
<1>2. Abreast'
  <2>1. PICK n \in Nat : \A w \in Workers : iteration[w] = n + 1
    BY <1>1 DEF InStep, Abreast, Late
  <2>2. \A w \in Workers : iteration'[w] = n + 1 /\ Late(w)'
    BY <1>1, <2>1 DEF Late
  <2>. QED BY <2>2 DEF Abreast
<1>3. ASSUME NEW w \in Workers PROVE Counted(w)'
  <2>1. PICK n \in 1 .. Rounds : iteration[w] = n
    BY DEF InStep, Counted
  <2>2. Rounds' = Rounds
    BY <1>1 DEF Rounds, Training, driverVars
  <2>. QED BY <1>1, <2>1, <2>2 DEF Counted
<1>4. ASSUME NEW v \in Workers, NEW w \in Workers PROVE Passing(v, w)' /\ Collecting(v, w)'
  BY <1>1 DEF Passing, Collecting
<1>5. ASSUME NEW w \in Workers, NEW v \in dp_group(w) PROVE Grouped(v, w)'
  <2>1. v \in Workers
    BY GroupsApart
  <2>. QED BY <1>1, <2>1 DEF Grouped, Late
<1>. QED BY <1>2, <1>3, <1>4, <1>5 DEF InStep

\* Workers that finish take the next rows, or are the last to do so.
LEMMA FinishInStep ==
  ASSUME Typed, Working, InStep, NEW group \in SUBSET Workers, NEW g \in group,
         \A w \in group : pc[w] = "postprocess", Finish(group),
         \/ group = {w \in Workers : is_collect(w)}
         \/ \A w \in group : ~is_collect(w)
  PROVE  InStep'
<1>. DEFINE more(w) == w \in group /\ Training /\ iteration[w] < Epochs * MiniBatches
<1>1. /\ \A w \in Workers : w \notin group => pc'[w] = pc[w] /\ output_lst'[w] = output_lst[w]
      /\ \A w \in group : pc'[w] = IF more(w) THEN "tokens" ELSE "replied"
      /\ \A w \in Workers : iteration'[w] = IF more(w) THEN iteration[w] + 1 ELSE iteration[w]
      /\ UNCHANGED <<driverVars, shard, num>>
  BY DEF Finish
<1>2. \A w \in Workers : Rounds' = Rounds /\ \A n : Numbers(w, n)' = Numbers(w, n)
  BY <1>1, NumbersStable DEF driverVars
<1>3. \A w \in Workers : /\ iteration[w] \in 1 .. Rounds /\ Rounds \in Nat
                         /\ ~more(w) /\ w \in group => iteration[w] = Rounds
                         /\ more(w) => iteration[w] + 1 \in 1 .. Rounds
  <2>1. Rounds \in Nat
    <3>1. PICK a \in Nat, b \in Nat : a = Epochs /\ b = MiniBatches
      BY Sizes, BatchAssumption
    <3>2. a * b \in Nat
      OBVIOUS
    <3>. QED BY <3>1, <3>2 DEF Rounds
  <2>2. ASSUME NEW w \in Workers PROVE iteration[w] \in 1 .. Rounds
    BY DEF InStep, Counted
  <2>3. CASE Training
    <3>1. Rounds = Epochs * MiniBatches
      BY <2>3 DEF Rounds
    <3>. QED BY <2>1, <2>2, <2>3, <3>1
  <2>4. CASE ~Training
    <3>1. Rounds = 1
      BY <2>4 DEF Rounds
    <3>. QED BY <2>2, <2>4, <3>1
  <2>. QED BY <2>3, <2>4
<1>. HIDE DEF more
<1>4. Abreast'
  <2>1. PICK n \in Nat : \A w \in Workers : iteration[w] = IF Late(w) THEN n ELSE n + 1
    BY DEF InStep, Abreast
  <2>2. ASSUME NEW w \in Workers PROVE iteration'[w] = IF Late(w)' THEN n ELSE n + 1
    <3>1. CASE w \in group
      BY <1>1, <2>1, <3>1 DEF Late
    <3>2. CASE w \notin group
      <4>1. ~more(w)
        BY <3>2 DEF more
      <4>. QED BY <1>1, <2>1, <3>2, <4>1 DEF Late
    <3>. QED BY <3>1, <3>2
  <2>. QED BY <2>2 DEF Abreast
<1>5. ASSUME NEW w \in Workers PROVE Counted(w)'
  <2>1. CASE w \in group
    <3>1. iteration'[w] \in 1 .. Rounds /\ (pc'[w] = "replied" => iteration'[w] = Rounds)
      BY <1>1, <1>3, <2>1
    <3>2. pc'[w] \in {"tokens", "replied"}
      BY <1>1, <2>1
    <3>. QED BY <1>2, <3>1, <3>2 DEF Counted
  <2>2. CASE w \notin group
    <3>1. Same(w) /\ iteration'[w] = iteration[w]
      BY <2>2 DEF Same, Finish, more
    <3>. QED BY <1>1, <3>1, CountedFrame DEF InStep, driverVars
  <2>. QED BY <2>1, <2>2
<1>6. ASSUME NEW v \in Workers, NEW w \in Workers PROVE Passing(v, w)' /\ Collecting(v, w)'
  <2>1. Passing(g, w) /\ Collecting(v, w) /\ pc[g] = "postprocess"
    BY DEF InStep
  <2>2. Passing(v, w)'
    <3>1. pc'[w] # "optimizer"
      BY <1>1, <2>1 DEF Passing
    <3>2. ~(pc'[w] = "forward" /\ output_lst'[w] # <<>>)
      BY <1>1, <2>1 DEF Passing
    <3>. QED BY <3>1, <3>2 DEF Passing
  <2>3. Collecting(v, w)'
    BY <1>1, <2>1 DEF Collecting
  <2>. QED BY <2>2, <2>3
<1>7. ASSUME NEW w \in Workers, NEW v \in dp_group(w) PROVE Grouped(v, w)'
  <2>1. v \in Workers /\ Grouped(v, w)
    BY GroupsApart DEF InStep
  <2>2. /\ v \in group => pc'[v] \in {"tokens", "replied"} /\ Late(v)
        /\ w \in group => pc'[w] \in {"tokens", "replied"} /\ Late(w)
        /\ v \notin group => pc'[v] = pc[v]
        /\ w \notin group => pc'[w] = pc[w]
    BY <1>1, <2>1 DEF Late
  <2>3. v \in group \/ v \notin group
    OBVIOUS
  <2>4. pc'[w] \in {"check", "agree"} => pc'[v] \in {"check", "agree", "failed"}
    BY <2>1, <2>2 DEF Grouped, Late
  <2>5. pc'[w] = "tokens" /\ ~Late(v)' => pc'[v] = "tokens"
    BY <2>1, <2>2 DEF Grouped, Late
  <2>6. Late(w)' /\ ~Late(v)' => pc'[v] = "tokens"
    BY <2>1, <2>2 DEF Grouped, Late
  <2>. QED BY <2>4, <2>5, <2>6 DEF Grouped
<1>. QED BY <1>4, <1>5, <1>6, <1>7 DEF InStep

\* A call starts all workers at once.
LEMMA CallInStep ==
  ASSUME NEW name \in {"compute_log_prob", "update_actor"}, NEW rows, Call(name, rows)
  PROVE  InStep'
<1>1. /\ pc' = [w \in Workers |-> "tokens"] /\ iteration' = [w \in Workers |-> 1]
  BY DEF Call
<1>2. 1 \in 1 .. Rounds'
  <2>1. PICK a \in Nat \ {0}, b \in Nat \ {0} : a = Epochs /\ b = MiniBatches
    BY BatchAssumption, Sizes
  <2>2. a * b \in Nat \ {0}
    OBVIOUS
  <2>3. Rounds' = a * b \/ Rounds' = 1
    BY <2>1 DEF Rounds
  <2>. QED BY <2>2, <2>3
<1>3. Abreast'
  <2>1. \A w \in Workers : iteration'[w] = 0 + 1 /\ ~Late(w)'
    BY <1>1 DEF Late
  <2>. QED BY <2>1 DEF Abreast
<1>4. ASSUME NEW w \in Workers PROVE Counted(w)'
  BY <1>1, <1>2 DEF Counted
<1>5. ASSUME NEW v \in Workers, NEW w \in Workers PROVE Passing(v, w)' /\ Collecting(v, w)'
  BY <1>1 DEF Passing, Collecting
<1>6. ASSUME NEW w \in Workers, NEW v \in dp_group(w) PROVE Grouped(v, w)'
  <2>1. v \in Workers
    BY GroupsApart
  <2>. QED BY <1>1, <2>1 DEF Grouped
<1>. QED BY <1>3, <1>4, <1>5, <1>6 DEF InStep

\* During the calls the workers are in step.
StepInv == method # "none" => InStep

\* Every step keeps them in step.
LEMMA StepStep ==
  HeapInv /\ BatchInv /\ CallInv /\ StepInv /\ [Next]_vars => StepInv'
<1> SUFFICES ASSUME HeapInv, BatchInv, CallInv, StepInv, [Next]_vars PROVE StepInv'
  OBVIOUS
<1>0. Typed /\ (method # "none" => Working /\ InStep)
  BY DEF CallInv, StepInv
<1>1. CASE Reorder
  BY <1>1, CallInStep DEF Reorder, StepInv
<1>2. CASE CollectLogProbs
  BY <1>2, CallInStep DEF CollectLogProbs, StepInv
<1>3. CASE UNCHANGED <<seqlen, method, workerVars>>
  <2>1. ASSUME InStep PROVE InStep'
    <3>1. Abreast'
      <4>1. \A w \in Workers : iteration'[w] = iteration[w] /\ (Late(w)' <=> Late(w))
        BY <1>3 DEF Late, workerVars
      <4>. QED BY <2>1, <4>1, AbreastFrame DEF InStep
    <3>2. ASSUME NEW w \in Workers PROVE Counted(w)'
      <4>1. Same(w)
        BY <1>3 DEF Same, workerVars
      <4>. QED BY <1>3, <2>1, <4>1, CountedFrame DEF InStep, workerVars
    <3>3. ASSUME NEW v \in Workers, NEW w \in Workers PROVE Passing(v, w)' /\ Collecting(v, w)'
      BY <1>3, <2>1 DEF InStep, Passing, Collecting, workerVars
    <3>4. ASSUME NEW w \in Workers, NEW v \in dp_group(w) PROVE Grouped(v, w)'
      BY <1>3, <2>1 DEF InStep, Grouped, Late, workerVars
    <3>. QED BY <3>1, <3>2, <3>3, <3>4 DEF InStep
  <2>. QED BY <1>0, <1>3, <2>1 DEF StepInv
<1>4. CASE Collectives \/ \E w \in Workers : WorkerStep(w)
  <2>1. 0 \in Workers /\ is_collect(0)
    <3>1. SpSize * 0 + 0 = 0 /\ 0 \in 0 .. SpSize - 1 /\ SpSize \in Nat \ {0} /\ WorldSize \in Nat \ {0}
      BY MeshAssumption
    <3>2. 0 % SpSize = 0
      BY <3>1, Quotients
    <3>. QED BY <3>1, <3>2 DEF Workers, is_collect
  <2>2. Working /\ InStep
    <3>1. \E w \in Workers : pc[w] # "idle"
      <4>1. CASE Forward \/ OptimizerStep \/ ReduceMetrics
        BY <2>1, <4>1 DEF Forward, OptimizerStep, ReduceMetrics, AtCollective
      <4>2. ASSUME NEW w \in Workers, WorkerStep(w) PROVE pc[w] # "idle"
        <5>1. w \in dp_group(w)
          BY DEF dp_group
        <5>. QED BY <4>2, <5>1 DEF WorkerStep, CountTokens, CheckLengths, Agree, Partition, ReturnNone, AtCollective
      <4>. QED BY <1>4, <4>1, <4>2 DEF Collectives
    <3>. QED BY <1>0, <3>1 DEF CallInv
  <2>3. CASE Forward
    BY <1>0, <2>2, <2>3, ForwardInStep DEF StepInv
  <2>4. CASE OptimizerStep
    BY <1>0, <2>2, <2>4, OptimizerInStep DEF StepInv
  <2>5. CASE ReduceMetrics
    <3>1. PICK group \in SUBSET Workers :
            /\ group = {w \in Workers : is_collect(w)} /\ Finish(group)
            /\ \A w \in group : pc[w] = "postprocess"
      BY <2>5 DEF ReduceMetrics, AtCollective
    <3>2. 0 \in group
      BY <2>1, <3>1
    <3>. QED BY <1>0, <2>2, <3>1, <3>2, FinishInStep DEF StepInv
  <2>6. ASSUME NEW w \in Workers, WorkerStep(w) PROVE StepInv'
    <3>1. CASE CountTokens(w)
      BY <1>0, <2>2, <3>1, CountInStep DEF StepInv
    <3>2. CASE CheckLengths(w)
      BY <1>0, <2>2, <3>2, CheckInStep DEF StepInv
    <3>3. CASE Agree(w)
      BY <1>0, <2>2, <3>3, AgreeInStep DEF StepInv
    <3>4. CASE Partition(w)
      BY <1>0, <2>2, <3>4, PartitionInStep DEF StepInv
    <3>5. CASE ReturnNone(w)
      <4>1. pc[w] = "postprocess" /\ ~is_collect(w) /\ Finish({w}) /\ w \in {w} /\ {w} \in SUBSET Workers
        BY <3>5 DEF ReturnNone
      <4>2. InStep'
        BY <1>0, <2>2, <4>1, FinishInStep
      <4>. QED BY <4>2 DEF StepInv
    <3>. QED BY <2>6, <3>1, <3>2, <3>3, <3>4, <3>5 DEF WorkerStep
  <2>. QED BY <1>4, <2>3, <2>4, <2>5, <2>6 DEF Collectives
<1>5. \/ Reorder \/ CollectLogProbs \/ UNCHANGED <<seqlen, method, workerVars>>
      \/ Collectives \/ \E w \in Workers : WorkerStep(w)
  <2>1. CASE PushState
    BY <2>1 DEF PushState
  <2>2. CASE MergeStates \/ CollectUpdate \/ CallRaises
    BY <2>2 DEF MergeStates, CollectUpdate, CallRaises
  <2>3. CASE UNCHANGED vars
    BY <2>3 DEF vars, driverVars
  <2>. QED BY <2>1, <2>2, <2>3 DEF Next, DriverStep
<1>. QED BY <1>1, <1>2, <1>3, <1>4, <1>5

\* The workers are in step in every reachable state.
LEMMA StepInvariant == Spec => [](HeapInv /\ BatchInv /\ CallInv /\ StepInv)
<1>1. Init => StepInv
  BY DEF Init, StepInv
<1>2. HeapInv /\ BatchInv /\ [Next]_vars => BatchInv'
  BY BatchStep
<1>. QED BY <1>1, <1>2, BatchInvariant, CallInit, CallStep, StepStep, PTL DEF Spec

\* Whatever the lengths of the rows, all workers cut them into the same number of
\* micro-batches: no worker comes to the collective operations of a forward pass once
\* more often than another.
THEOREM EqualLeftSafe == Spec => []EqualLeft
<1>1. HeapInv /\ BatchInv /\ CallInv /\ StepInv => EqualLeft
  <2> SUFFICES ASSUME HeapInv, BatchInv, CallInv, StepInv, \A w \in Workers : pc[w] = "forward",
                      NEW v \in Workers, NEW w \in Workers
               PROVE  Len(indices[v]) = Len(indices[w]) /\ Len(output_lst[v]) = Len(output_lst[w])
    BY DEF EqualLeft
  <2>1. Working /\ InStep
    <3>1. pc[w] # "idle"
      OBVIOUS
    <3>. QED BY <3>1 DEF CallInv, StepInv
  <2>2. Len(indices[v]) = Len(indices[w])
    BY <2>1, EqualLeftInStep
  <2>3. output_lst[v] # <<>> \/ output_lst[w] # <<>> => Len(output_lst[v]) = Len(output_lst[w])
    BY <2>1, EqualLeftInStep
  <2>4. output_lst[v] = <<>> /\ output_lst[w] = <<>> => Len(output_lst[v]) = Len(output_lst[w])
    OBVIOUS
  <2>. QED BY <2>2, <2>3, <2>4
<1>. QED BY <1>1, StepInvariant, PTL

-----------------------------------------------------------------------------
(* No worker waits for ever *)

\* There is a state of any chunk: its rows by falling work.
LEMMA ChunkStateExists ==
  ASSUME NEW N \in Nat, NEW W \in [1 .. N -> Nat \ {0}], NEW k \in Nat \ {0},
         NEW chunk \in SUBSET (1 .. N), IsFiniteSet(chunk), Cardinality(chunk) = k
  PROVE  StatesOfChunk(W, chunk, k) # {}
<1>. DEFINE R == 1 .. N
<1>1. PICK q : q \in Bijection(1 .. k, chunk)
  BY FS_CardinalityType DEF ExistsBijection
<1>2. \A i \in 1 .. k : q[i] \in chunk /\ \A j \in 1 .. k : q[i] = q[j] => i = j
  BY <1>1 DEF Bijection, Injection, IsInjective
<1>. DEFINE sets == [i \in 1 .. k |-> Singleton(W, q[i])]
<1>3. ASSUME NEW r \in R
      PROVE  Singleton(W, r) \in SetOver(R) /\ Singleton(W, r).items = <<r>>
  BY DEF Singleton, SetOver
<1>4. StateOver(sets, k, R)
  BY <1>2, <1>3 DEF StateOver
<1>5. PICK m : m \in Sorted(sets, k)
  BY <1>4, SortedExists
<1>6. PICK p \in Bijection(1 .. k, 1 .. k) : m = [i \in 1 .. k |-> sets[p[i]]]
  BY <1>5 DEF Sorted
<1>7. \A i \in 1 .. k : p[i] \in 1 .. k /\ \A j \in 1 .. k : p[i] = p[j] => i = j
  BY <1>6 DEF Bijection, Injection, IsInjective
<1>8. Decreasing(m, k)
  BY <1>5 DEF Sorted
<1>9. \A i \in 1 .. k : q[p[i]] \in chunk /\ m[i] = Singleton(W, q[p[i]])
  BY <1>2, <1>6, <1>7
<1>10. ASSUME NEW i \in 1 .. k, NEW j \in 1 .. k, i < j PROVE SetBelow(m[j], m[i])
  <2>1. q[p[i]] # q[p[j]]
    <3>1. p[i] # p[j]
      BY <1>7, <1>10
    <3>. QED BY <1>2, <1>7, <3>1
  <2>2. PICK r \in R, t \in R : r = q[p[i]] /\ t = q[p[j]]
    BY <1>9
  <2>3. m[i] # m[j]
    <3>1. m[i].items = <<r>> /\ m[j].items = <<t>>
      BY <1>3, <1>9, <2>2
    <3>. QED BY <2>1, <2>2, <3>1
  <2>4. m[i] \in SetOver(R) /\ m[j] \in SetOver(R)
    BY <1>3, <1>9, <2>2
  <2>5. ~SetBelow(m[i], m[j])
    BY <1>8, <1>10 DEF Decreasing
  <2>. QED BY <2>3, <2>4, <2>5, SetOrder
<1>11. m \in [1 .. k -> {Singleton(W, r) : r \in chunk}]
  BY <1>6, <1>9
<1>. QED BY <1>10, <1>11 DEF StatesOfChunk

\* While it pushes, _balance_batch has a next chunk, and the chunk a state.
LEMMA NextChunk ==
  ASSUME HeapInv, BatchInv, driver = "push"
  PROVE  StatesOfChunk(Workload, ChunkAt(Workload, DpSize * Cardinality(states_pq), DpSize), DpSize) # {}
<1>. DEFINE n == Cardinality(states_pq)
            offset == DpSize * n
            chunk == ChunkAt(Workload, offset, DpSize)
<1>1. n \in Nat /\ n < RowsPerRank
  BY FS_CardinalityType DEF HeapInv
<1>2. offset \in Nat /\ offset + DpSize <= NumRows
  <2>1. DpSize * (n + 1) = offset + DpSize /\ offset \in Nat
    BY <1>1, RowNumbers
  <2>2. NumRows = DpSize * (n + 1) + DpSize * (RowsPerRank - (n + 1)) /\ DpSize * (RowsPerRank - (n + 1)) \in Nat
    BY <1>1, RowNumbers
  <2>3. DpSize * (n + 1) \in Nat
    BY <1>1, RowNumbers
  <2>. QED BY <2>1, <2>2, <2>3
<1>3. Workload \in [1 .. NumRows -> Nat \ {0}] /\ NumRows \in Nat
  BY WorkPositive DEF Rows, HeapInv
<1>. HIDE DEF n, offset
<1>4. chunk \in SUBSET (1 .. NumRows) /\ IsFiniteSet(chunk) /\ Cardinality(chunk) = DpSize
  <2>1. Workload \in [1 .. NumRows -> Nat] /\ DpSize \in Nat
    BY <1>3, RowNumbers
  <2>2. /\ chunk = {r \in 1 .. NumRows : RankOf(Workload, r) \in offset .. offset + DpSize - 1}
        /\ IsFiniteSet(chunk) /\ Cardinality(chunk) = DpSize
    BY <1>2, <1>3, <2>1, ChunkRows
  <2>. QED BY <2>2
<1>. HIDE DEF chunk
<1>5. StatesOfChunk(Workload, chunk, DpSize) # {}
  BY <1>3, <1>4, RowNumbers, ChunkStateExists
<1>. QED BY <1>5 DEF chunk, offset, n

\* The guards of the actions: something can happen.
DriverCanGo ==
  \/ /\ driver = "push"
     /\ StatesOfChunk(Workload, ChunkAt(Workload, DpSize * Cardinality(states_pq), DpSize), DpSize) # {}
  \/ driver = "merge" /\ Cardinality(states_pq) > 1 /\ MergedHeaps(states_pq, DpSize) # {}
  \/ driver = "merge" /\ Cardinality(states_pq) = 1
  \/ driver = "wait" /\ method \in {"compute_log_prob", "update_actor"} /\ AllReplied
  \/ driver = "wait" /\ \E w \in Workers : pc[w] = "failed"

WorkerCanGo(w) ==
  \/ AtCollective(dp_group(w), "tokens")
  \/ pc[w] = "check"
  \/ AtCollective(dp_group(w), "agree")
  \/ pc[w] = "partition"
  \/ pc[w] = "postprocess" /\ ~is_collect(w)

CollectiveCanGo ==
  \/ AtCollective(Workers, "forward")
  \/ AtCollective(Workers, "optimizer")
  \/ AtCollective({w \in Workers : is_collect(w)}, "postprocess")

\* Until the calls have ended, the trainer or a worker can go on.
NeverHangs == ~Ended => DriverCanGo \/ CollectiveCanGo \/ \E w \in Workers : WorkerCanGo(w)

\* Workers in step do not all wait: those who wait for each other have all come.
LEMMA WorkersGo ==
  ASSUME Typed, Working, InStep, \A w \in Workers : pc[w] # "failed", ~AllReplied
  PROVE  CollectiveCanGo \/ \E w \in Workers : WorkerCanGo(w)
<1> SUFFICES ASSUME \A w \in Workers : ~WorkerCanGo(w) PROVE CollectiveCanGo
  OBVIOUS
<1>1. \A w \in Workers :
        /\ pc[w] \in {"tokens", "agree", "forward", "optimizer", "postprocess", "replied"}
        /\ pc[w] = "postprocess" => is_collect(w)
  BY DEF WorkerCanGo, Typed, Stages, Working, WorkerInv
<1>2. CASE \E w \in Workers : pc[w] = "postprocess"
  <2>1. PICK w \in Workers : pc[w] = "postprocess" /\ is_collect(w)
    BY <1>1, <1>2
  <2>2. \A v \in Workers : is_collect(v) => pc[v] = "postprocess"
    BY <2>1 DEF InStep, Collecting
  <2>. QED BY <2>2 DEF CollectiveCanGo, AtCollective
<1>3. ASSUME \A w \in Workers : pc[w] # "postprocess" PROVE \A w \in Workers : pc[w] # "replied"
  <2> SUFFICES ASSUME NEW w \in Workers, pc[w] = "replied" PROVE FALSE
    OBVIOUS
  <2>1. Rounds \in Nat /\ iteration[w] = Rounds
    <3>1. Rounds \in Nat
      <4>1. PICK a \in Nat, b \in Nat : a = Epochs /\ b = MiniBatches
        BY BatchAssumption, Sizes
      <4>2. a * b \in Nat
        OBVIOUS
      <4>. QED BY <4>1, <4>2 DEF Rounds
    <3>. QED BY <3>1 DEF InStep, Counted
  <2>2. PICK v \in Workers : pc[v] # "replied"
    BY DEF AllReplied
  <2>3. iteration[v] = Rounds + 1
    <3>1. ~Late(v) /\ Late(w)
      BY <1>3, <2>2 DEF Late
    <3>2. PICK n \in Nat : \A x \in Workers : iteration[x] = IF Late(x) THEN n ELSE n + 1
      BY DEF InStep, Abreast
    <3>. QED BY <2>1, <3>1, <3>2
  <2>4. iteration[v] \in 1 .. Rounds
    BY DEF InStep, Counted
  <2>. QED BY <2>1, <2>3, <2>4
<1>4. CASE \A w \in Workers : pc[w] \notin {"postprocess", "replied"}
  <2>1. ASSUME NEW w \in Workers, pc[w] = "optimizer" PROVE CollectiveCanGo
    BY <2>1 DEF InStep, Passing, CollectiveCanGo, AtCollective
  <2>2. ASSUME NEW w \in Workers, pc[w] = "tokens" PROVE FALSE
    <3>1. ASSUME NEW v \in dp_group(w) PROVE pc[v] = "tokens"
      <4>1. v \in Workers /\ Grouped(v, w)
        BY GroupOf DEF InStep
      <4>. QED BY <1>4, <2>2, <4>1 DEF Grouped, Late
    <3>. QED BY <3>1 DEF WorkerCanGo, AtCollective
  <2>3. ASSUME NEW w \in Workers, pc[w] = "agree" PROVE FALSE
    <3>1. ASSUME NEW v \in dp_group(w) PROVE pc[v] = "agree"
      <4>1. v \in Workers /\ Grouped(v, w)
        BY GroupOf DEF InStep
      <4>. QED BY <1>1, <2>3, <4>1 DEF Grouped
    <3>. QED BY <3>1 DEF WorkerCanGo, AtCollective
  <2>4. ASSUME \A w \in Workers : pc[w] # "optimizer" PROVE \A w \in Workers : pc[w] = "forward"
    BY <1>1, <1>4, <2>2, <2>3, <2>4
  <2>. QED BY <2>1, <2>4 DEF CollectiveCanGo, AtCollective
<1>. QED BY <1>2, <1>3, <1>4

\* What the trainer may be at
DriverType == driver \in {"push", "merge", "wait", "done", "failed"}

\* It is at one of these.
LEMMA DriverStepType == DriverType /\ [Next]_vars => DriverType'
BY DEF DriverType, Next, DriverStep, Collectives, WorkerStep, PushState, MergeStates, Reorder, CollectLogProbs,
       CollectUpdate, CallRaises, Call, Forward, OptimizerStep, ReduceMetrics, ReturnNone, Finish, CountTokens,
       CheckLengths, Agree, Partition, vars, driverVars

\* There is no deadlock among the collective operations, whatever the lengths of the
\* rows and the sizes of the mesh, with rows that fit or not: as long as the calls have
\* not ended, an action's guard holds.
THEOREM NeverHangsSafe == Spec => []NeverHangs
<1>1. HeapInv /\ BatchInv /\ CallInv /\ StepInv /\ DriverType => NeverHangs
  <2> SUFFICES ASSUME HeapInv, BatchInv, CallInv, StepInv, driver \in {"push", "merge", "wait"}
               PROVE  DriverCanGo \/ CollectiveCanGo \/ \E w \in Workers : WorkerCanGo(w)
    BY DEF NeverHangs, DriverType, Ended
  <2>1. CASE driver = "push"
    BY <2>1, NextChunk DEF DriverCanGo
  <2>2. CASE driver = "merge"
    <3>1. GoodHeap(states_pq, DpSize, Rows)
      BY <2>2 DEF BatchInv, FullHeap
    <3>2. Cardinality(states_pq) \in Nat /\ Cardinality(states_pq) # 0
      BY <3>1, FS_CardinalityType, FS_EmptySet DEF GoodHeap
    <3>3. Cardinality(states_pq) > 1 => MergedHeaps(states_pq, DpSize) # {}
      BY <3>1, RowNumbers, MergedHeapsExist
    <3>. QED BY <2>2, <3>2, <3>3 DEF DriverCanGo
  <2>3. CASE driver = "wait"
    <3>1. Typed /\ Working /\ InStep /\ method \in {"compute_log_prob", "update_actor"}
      BY <2>3 DEF CallInv, StepInv
    <3>2. CASE AllReplied \/ \E w \in Workers : pc[w] = "failed"
      BY <2>3, <3>1, <3>2 DEF DriverCanGo
    <3>3. CASE ~AllReplied /\ \A w \in Workers : pc[w] # "failed"
      BY <3>1, <3>3, WorkersGo
    <3>. QED BY <3>2, <3>3
  <2>. QED BY <2>1, <2>2, <2>3
<1>2. Init => DriverType
  BY DEF Init, DriverType
<1>. QED BY <1>1, <1>2, DriverStepType, StepInvariant, PTL DEF Spec

\* A call fails only if a row does not fit in the micro-batches of one of the methods.
FailsForLength == driver = "failed" => ~AllFit

\* No assertion but that on the length of a row ever fails a worker: neither those of
\* karmarkar_karp nor the one that the partitions are no more than the rows.
THEOREM FailsForLengthSafe == Spec => []FailsForLength
<1>1. Init => FailsForLength
  BY DEF Init, FailsForLength
<1>2. HeapInv /\ CallInv /\ FailsForLength /\ [Next]_vars => FailsForLength'
  <2> SUFFICES ASSUME HeapInv, CallInv, FailsForLength, [Next]_vars, driver' = "failed" PROVE ~AllFit'
    BY DEF FailsForLength
  <2>1. seqlen' = seqlen /\ (driver = "failed" \/ CallRaises)
    BY DEF Next, DriverStep, Collectives, WorkerStep, PushState, MergeStates, Reorder, CollectLogProbs,
       CollectUpdate, Call, CallRaises, Forward, OptimizerStep, ReduceMetrics, ReturnNone, Finish, CountTokens,
       CheckLengths, Agree, Partition, vars, driverVars
  <2>2. ASSUME CallRaises PROVE ~AllFit
    <3>1. PICK w \in Workers : pc[w] = "failed"
      BY <2>2 DEF CallRaises
    <3>2. PICK r \in Rows : seqlen[r] > max_token_len
      BY <3>1 DEF CallInv, Working, WorkerInv
    <3>3. PICK infer \in Nat, train \in Nat :
            infer = InferMaxTokenLen * SpSize /\ train = TrainMaxTokenLen * SpSize
      BY BatchAssumption, MeshAssumption
    <3>4. seqlen[r] \in Nat /\ (max_token_len = infer \/ max_token_len = train)
      BY <3>3, BatchAssumption DEF HeapInv, max_token_len
    <3>5. ~(seqlen[r] <= infer /\ seqlen[r] <= train)
      BY <3>2, <3>3, <3>4
    <3>. QED BY <3>3, <3>5 DEF AllFit
  <2>. QED BY <2>1, <2>2 DEF FailsForLength, AllFit
<1>. QED BY <1>1, <1>2, StepInvariant, PTL DEF Spec

-----------------------------------------------------------------------------
(* The rows of a data loader, and those of a batch *)

\* The iterations among the first n in which a worker runs a row
RunsOf(w, rows, n, r) == {m \in 1 .. n : r \in Range(MiniBatch(w, rows, m))}

\* A data loader gives each row of its shard once an epoch.
LEMMA OnceAnEpoch ==
  ASSUME NEW w \in Workers, NEW rows \in Seq(Rows), Len(rows) = RowsPerRank, IsInjective(rows),
         NEW r \in Range(rows)
  PROVE  Cardinality(RunsOf(w, rows, Epochs * MiniBatches, r)) = Epochs
<1>0. PICK L \in Nat, S \in Nat \ {0}, M \in Nat \ {0}, E \in Nat \ {0}, N \in Nat :
        /\ L = RowsPerRank /\ S = MiniBatchSizePerGpu /\ M = MiniBatches /\ E = Epochs /\ N = E * M
        /\ L = S * M
  <2>1. \A a, b \in Nat \ {0} : a * b \in Nat
    OBVIOUS
  <2>. QED BY <2>1, Sizes, BatchAssumption, RowNumbers
<1>. DEFINE order(e) == Shuffle(Seed(w), e)
            epoch(n) == (n - 1) \div M + 1
            turn(n) == (n - 1) % M
            runs == RunsOf(w, rows, N, r)
<1>1. PICK p \in 1 .. L : \A i \in 1 .. L : rows[i] = r <=> i = p
  <2>1. DOMAIN rows = 1 .. L
    BY <1>0
  <2>2. PICK p \in 1 .. L : rows[p] = r
    BY <2>1 DEF Range
  <2>3. \A i \in 1 .. L : rows[i] = rows[p] => i = p
    BY <2>1 DEF IsInjective
  <2>. QED BY <2>2, <2>3
<1>2. ASSUME NEW n \in 1 .. N
      PROVE  /\ epoch(n) \in 1 .. E /\ turn(n) \in 0 .. M - 1 /\ n - 1 = M * (epoch(n) - 1) + turn(n)
             /\ \A i \in 1 .. S : turn(n) * S + i \in 1 .. L
             /\ r \in Range(MiniBatch(w, rows, n)) <=> \E i \in 1 .. S : order(epoch(n))[turn(n) * S + i] = p
  <2>1. /\ epoch(n) \in 1 .. E /\ turn(n) \in 0 .. M - 1 /\ n - 1 = M * (epoch(n) - 1) + turn(n)
        /\ order(epoch(n)) \in Bijection(1 .. L, 1 .. L)
        /\ \A i \in 1 .. S : turn(n) * S + i \in 1 .. L
    BY <1>0, Turns
  <2>2. MiniBatch(w, rows, n) = [i \in 1 .. S |-> rows[order(epoch(n))[turn(n) * S + i]]]
    BY <1>0 DEF MiniBatch
  <2>. HIDE DEF order, epoch, turn
  <2>3. \A i \in 1 .. S : order(epoch(n))[turn(n) * S + i] \in 1 .. L
    BY <2>1 DEF Bijection, Injection
  <2>4. \A i \in 1 .. S : rows[order(epoch(n))[turn(n) * S + i]] = r <=> order(epoch(n))[turn(n) * S + i] = p
    BY <1>1, <2>3
  <2>5. r \in Range(MiniBatch(w, rows, n)) <=> \E i \in 1 .. S : rows[order(epoch(n))[turn(n) * S + i]] = r
    BY <2>2 DEF Range
  <2>. QED BY <2>1, <2>4, <2>5
<1>3. ASSUME NEW e \in 1 .. E
      PROVE  /\ M * (e - 1) \in Nat
             /\ \A t \in 0 .. M - 1 :
                  /\ M * (e - 1) + t + 1 \in 1 .. N
                  /\ epoch(M * (e - 1) + t + 1) = e /\ turn(M * (e - 1) + t + 1) = t
  <2>1. M * (e - 1) \in Nat /\ e - 1 \in Nat
    BY <1>0
  <2>2. ASSUME NEW t \in 0 .. M - 1
        PROVE  /\ M * (e - 1) + t + 1 \in 1 .. N
               /\ epoch(M * (e - 1) + t + 1) = e /\ turn(M * (e - 1) + t + 1) = t
    <3>1. N = M * (e - 1) + M + M * (E - e)
      BY <1>0
    <3>2. M * (E - e) \in Nat
      BY <1>0
    <3>3. (M * (e - 1) + t) \div M = e - 1 /\ (M * (e - 1) + t) % M = t
      BY <1>0, <2>1, Quotients
    <3>4. (M * (e - 1) + t + 1) - 1 = M * (e - 1) + t
      BY <2>1
    <3>. QED BY <1>0, <2>1, <3>1, <3>2, <3>3, <3>4
  <2>. QED BY <2>1, <2>2
<1>4. ASSUME NEW e \in 1 .. E
      PROVE  \E t \in 0 .. M - 1 : \A t2 \in 0 .. M - 1 :
               (\E i \in 1 .. S : order(e)[t2 * S + i] = p) <=> t2 = t
  <2>1. order(e) \in Bijection(1 .. L, 1 .. L)
    <3>1. M * (e - 1) + 0 + 1 \in 1 .. N /\ epoch(M * (e - 1) + 0 + 1) = e
      BY <1>0, <1>3
    <3>. QED BY <1>0, <3>1, Turns
  <2>. HIDE DEF order
  <2>2. PICK q \in 1 .. L : \A x \in 1 .. L : order(e)[x] = p <=> x = q
    BY <2>1 DEF Bijection, Injection, Surjection, IsInjective
  <2>3. PICK t \in Nat, j \in 0 .. S - 1 : q - 1 = S * t + j
    <3>1. PICK a \in Nat : a = q - 1
      OBVIOUS
    <3>2. a \div S \in Nat /\ a % S \in 0 .. S - 1 /\ a = S * (a \div S) + (a % S)
      BY Quotients
    <3>. QED BY <3>1, <3>2
  <2>4. t \in 0 .. M - 1
    <3>1. t >= M => S * t >= S * M
      BY <1>0
    <3>2. S * t \in Nat
      BY <1>0
    <3>. QED BY <1>0, <2>3, <3>1, <3>2
  <2>5. ASSUME NEW t2 \in 0 .. M - 1, NEW i \in 1 .. S, order(e)[t2 * S + i] = p PROVE t2 = t
    <3>1. t2 * S + i \in 1 .. L
      BY <1>2, <1>3
    <3>2. t2 * S + i = q
      BY <2>2, <2>5, <3>1
    <3>3. q - 1 = S * t2 + (i - 1) /\ i - 1 \in 0 .. S - 1 /\ t2 \in Nat
      BY <3>2
    <3>4. PICK j2 \in 0 .. S - 1 : j2 = i - 1
      BY <3>3
    <3>5. (S * t2 + j2) \div S = t2 /\ (S * t + j) \div S = t
      BY <3>3, Quotients
    <3>. QED BY <2>3, <3>3, <3>4, <3>5
  <2>6. \E i \in 1 .. S : order(e)[t * S + i] = p
    <3>1. j + 1 \in 1 .. S /\ t * S + (j + 1) = q
      BY <2>3
    <3>. QED BY <2>2, <3>1
  <2>. QED BY <2>4, <2>5, <2>6
<1>. DEFINE which == [e \in 1 .. E |-> CHOOSE t \in 0 .. M - 1 : \A t2 \in 0 .. M - 1 :
                        (\E i \in 1 .. S : order(e)[t2 * S + i] = p) <=> t2 = t]
            at == [e \in 1 .. E |-> M * (e - 1) + which[e] + 1]
<1>5. ASSUME NEW e \in 1 .. E
      PROVE  /\ which[e] \in 0 .. M - 1
             /\ \A t2 \in 0 .. M - 1 : (\E i \in 1 .. S : order(e)[t2 * S + i] = p) <=> t2 = which[e]
  BY <1>4
<1>. HIDE DEF which, order, epoch, turn
<1>6. ASSUME NEW e \in 1 .. E PROVE at[e] \in runs /\ epoch(at[e]) = e
  <2>1. at[e] \in 1 .. N /\ epoch(at[e]) = e /\ turn(at[e]) = which[e]
    BY <1>3, <1>5
  <2>2. r \in Range(MiniBatch(w, rows, at[e]))
    <3>1. PICK n \in 1 .. N : n = at[e]
      BY <2>1
    <3>2. \E i \in 1 .. S : order(e)[which[e] * S + i] = p
      BY <1>5
    <3>3. r \in Range(MiniBatch(w, rows, n)) <=> \E i \in 1 .. S : order(epoch(n))[turn(n) * S + i] = p
      BY <1>2
    <3>4. epoch(n) = e /\ turn(n) = which[e]
      BY <2>1, <3>1
    <3>. QED BY <3>1, <3>2, <3>3, <3>4
  <2>. QED BY <2>1, <2>2 DEF RunsOf
<1>7. ASSUME NEW n \in runs PROVE epoch(n) \in 1 .. E /\ at[epoch(n)] = n
  <2>1. n \in 1 .. N /\ r \in Range(MiniBatch(w, rows, n))
    BY DEF RunsOf
  <2>2. epoch(n) \in 1 .. E /\ turn(n) \in 0 .. M - 1 /\ n - 1 = M * (epoch(n) - 1) + turn(n)
    BY <1>2, <2>1
  <2>3. turn(n) = which[epoch(n)]
    BY <1>2, <1>5, <2>1, <2>2
  <2>4. M * (epoch(n) - 1) \in Nat
    BY <1>3, <2>2
  <2>. QED BY <2>1, <2>2, <2>3, <2>4
<1>8. at \in Bijection(1 .. E, runs)
  <2>. HIDE DEF runs
  <2>1. at \in [1 .. E -> runs]
    <3>1. at = [e \in 1 .. E |-> at[e]]
      OBVIOUS
    <3>. HIDE DEF at
    <3>. QED BY <1>6, <3>1
  <2>. HIDE DEF at
  <2>2. \A e, f \in 1 .. E : at[e] = at[f] => e = f
    BY <1>6
  <2>3. \A n \in runs : \E e \in 1 .. E : at[e] = n
    BY <1>7
  <2>. QED BY <2>1, <2>2, <2>3 DEF Bijection, Injection, Surjection, IsInjective
<1>. HIDE DEF at, runs
<1>9. Cardinality(runs) = E
  BY <1>8, FS_CountingElements DEF ExistsBijection
<1>. QED BY <1>0, <1>9 DEF runs

\* Each place is in one micro-batch.
LEMMA CoverParts ==
  ASSUME NEW n \in Nat, NEW k \in Nat, NEW idx, Cover(idx, n, k)
  PROVE  /\ \A b \in 1 .. k : idx[b] \in Seq(1 .. n)
         /\ \A i \in 1 .. n : \E b \in 1 .. k : i \in Range(idx[b])
         /\ \A a, b \in 1 .. k : a # b => Range(idx[a]) \intersect Range(idx[b]) = {}
<1>1. idx \in Seq(Seq(1 .. n)) /\ Len(idx) = k
  BY DEF Cover
<1>2. FlattenSeq(idx) \in Bijection(1 .. n, 1 .. n)
  BY DEF Cover
<1>3. ASSUME NEW a \in 1 .. k, NEW b \in 1 .. k, a < b PROVE Range(idx[a]) \intersect Range(idx[b]) = {}
  <2>1. IsInjective(FlattenSeq(idx))
    BY <1>2 DEF Bijection, Injection
  <2>. QED BY <1>1, <1>3, <2>1, FlattenApart
<1>4. ASSUME NEW i \in 1 .. n PROVE \E b \in 1 .. k : i \in Range(idx[b])
  <2>1. i \in Range(FlattenSeq(idx))
    BY <1>2 DEF Bijection, Surjection, Range
  <2>2. Range(FlattenSeq(idx)) = UNION {Range(idx[b]) : b \in 1 .. k}
    BY <1>1, FlattenElements
  <2>. QED BY <2>1, <2>2
<1>5. ASSUME NEW a \in 1 .. k, NEW b \in 1 .. k, a # b PROVE Range(idx[a]) \intersect Range(idx[b]) = {}
  <2>1. a < b \/ b < a
    BY <1>5
  <2>. QED BY <1>3, <2>1
<1>. QED BY <1>1, <1>4, <1>5

\* A rank's rows are its own, and each row is some rank's.
LEMMA ShardsApart ==
  ASSUME NEW rows, WholeBatch(rows)
  PROVE  LET shards == dispatch_nd_compute(rows)
         IN  /\ \A w \in Workers : IsInjective(shards[w])
             /\ \A v, w \in Workers : dp_rank(v) # dp_rank(w) => Range(shards[v]) \intersect Range(shards[w]) = {}
             /\ \A r \in Rows : \E w \in Workers : r \in Range(shards[w])
<1>. DEFINE shards == dispatch_nd_compute(rows)
<1>1. PICK L \in Nat \ {0} : L = RowsPerRank
  BY RowNumbers
<1>2. /\ rows \in Seq(Rows) /\ Len(rows) = DpSize * L /\ DpSize \in Nat \ {0}
      /\ \A i, j \in 1 .. Len(rows) : rows[i] = rows[j] => i = j
      /\ \A r \in Rows : \E i \in 1 .. Len(rows) : rows[i] = r
  <2>1. rows \in Seq(Rows) /\ Len(rows) = DpSize * L /\ DpSize \in Nat \ {0} /\ DOMAIN rows = 1 .. Len(rows)
    BY <1>1, RowNumbers DEF WholeBatch
  <2>. QED BY <2>1 DEF WholeBatch, IsInjective, Range
<1>3. ASSUME NEW w \in Workers
      PROVE  /\ DOMAIN shards[w] = 1 .. L /\ dp_rank(w) \in Nat
             /\ \A j \in 1 .. L : /\ dp_rank(w) * L + j \in 1 .. Len(rows)
                                  /\ shards[w][j] = rows[dp_rank(w) * L + j]
  <2>1. /\ shards[w] \in Seq(Rows) /\ Len(shards[w]) = L
        /\ \A j \in 1 .. L : /\ dp_rank(w) * L + j \in 1 .. Len(rows)
                             /\ shards[w][j] = rows[dp_rank(w) * L + j]
    BY <1>2, ShardOf
  <2>2. DOMAIN shards[w] = 1 .. L
    BY <2>1
  <2>3. dp_rank(w) \in Nat
    BY MeshSizes
  <2>. QED BY <2>1, <2>2, <2>3
<1>. HIDE DEF shards
<1>4. ASSUME NEW v \in Workers, NEW w \in Workers, NEW i \in 1 .. L, NEW j \in 1 .. L,
             shards[v][i] = shards[w][j]
      PROVE  dp_rank(v) = dp_rank(w) /\ i = j
  <2>1. PICK d \in Nat, e \in Nat : d = dp_rank(v) /\ e = dp_rank(w)
    BY <1>3
  <2>2. d * L + i = e * L + j
    <3>1. /\ dp_rank(v) * L + i \in 1 .. Len(rows) /\ dp_rank(w) * L + j \in 1 .. Len(rows)
          /\ rows[dp_rank(v) * L + i] = rows[dp_rank(w) * L + j]
      BY <1>3, <1>4
    <3>2. dp_rank(v) * L + i = dp_rank(w) * L + j
      BY <1>2, <3>1
    <3>. QED BY <2>1, <3>2
  <2>3. PICK a \in 0 .. L - 1, b \in 0 .. L - 1 : a = i - 1 /\ b = j - 1
    OBVIOUS
  <2>4. L * d + a = L * e + b
    BY <2>2, <2>3
  <2>5. d = e /\ a = b
    <3>1. (L * d + a) \div L = d /\ (L * d + a) % L = a /\ (L * e + b) \div L = e /\ (L * e + b) % L = b
      BY Quotients
    <3>. QED BY <2>4, <3>1
  <2>. QED BY <2>1, <2>3, <2>5
<1>5. ASSUME NEW r \in Rows PROVE \E w \in Workers : r \in Range(shards[w])
  <2>1. PICK i \in 1 .. Len(rows) : rows[i] = r
    BY <1>2
  <2>2. PICK a \in Nat : a = i - 1 /\ a < DpSize * L
    BY <1>2
  <2>3. PICK d \in Nat, j \in 0 .. L - 1 : a = L * d + j
    <3>1. a \div L \in Nat /\ a % L \in 0 .. L - 1 /\ a = L * (a \div L) + (a % L)
      BY Quotients
    <3>. QED BY <3>1
  <2>4. d < DpSize
    <3>1. d >= DpSize => L * d >= L * DpSize
      BY <1>2
    <3>2. L * DpSize = DpSize * L /\ L * d \in Nat /\ DpSize * L \in Nat
      BY <1>2
    <3>. QED BY <1>2, <2>2, <2>3, <3>1, <3>2
  <2>5. PICK w \in Workers : dp_rank(w) = d
    <3>1. d \in 0 .. DpSize - 1 /\ 0 \in 0 .. SpSize - 1
      BY <1>2, <2>4, MeshSizes
    <3>. QED BY <3>1, RankHasWorker
  <2>6. d * L + (j + 1) = i /\ j + 1 \in 1 .. L
    BY <2>2, <2>3
  <2>7. shards[w][j + 1] = r /\ j + 1 \in DOMAIN shards[w]
    BY <1>3, <2>1, <2>5, <2>6
  <2>. QED BY <2>7 DEF Range
<1>6. \A w \in Workers : IsInjective(shards[w])
  BY <1>3, <1>4 DEF IsInjective
<1>7. \A v, w \in Workers : dp_rank(v) # dp_rank(w) => Range(shards[v]) \intersect Range(shards[w]) = {}
  <2> SUFFICES ASSUME NEW v \in Workers, NEW w \in Workers, NEW r,
                      r \in Range(shards[v]), r \in Range(shards[w])
               PROVE  dp_rank(v) = dp_rank(w)
    OBVIOUS
  <2>1. PICK i \in 1 .. L : shards[v][i] = r
    BY <1>3 DEF Range
  <2>2. PICK j \in 1 .. L : shards[w][j] = r
    BY <1>3 DEF Range
  <2>. QED BY <1>4, <2>1, <2>2
<1>. QED BY <1>5, <1>6, <1>7 DEF shards

\* No row is in a mini-batch twice, and all are the shard's.
LEMMA MiniBatchDistinct ==
  ASSUME NEW rows \in Seq(Rows), Len(rows) = RowsPerRank, IsInjective(rows), NEW w \in Workers,
         NEW n \in 1 .. Epochs * MiniBatches
  PROVE  IsInjective(MiniBatch(w, rows, n)) /\ Range(MiniBatch(w, rows, n)) \subseteq Range(rows)
<1>. DEFINE epoch == (n - 1) \div MiniBatches + 1
            turn == (n - 1) % MiniBatches
            order == Shuffle(Seed(w), epoch)
<1>1. PICK L \in Nat, S \in Nat \ {0}, M \in Nat \ {0} :
        L = RowsPerRank /\ S = MiniBatchSizePerGpu /\ M = MiniBatches
  BY Sizes, RowNumbers
<1>2. PICK first \in Nat : first = turn * S
  <2>1. turn \in 0 .. M - 1
    BY <1>1, Turns
  <2>2. \A a \in Nat : a * S \in Nat
    OBVIOUS
  <2>. QED BY <2>1, <2>2
<1>3. order \in Bijection(1 .. L, 1 .. L) /\ \A i \in 1 .. S : first + i \in 1 .. L
  BY <1>1, <1>2, Turns
<1>4. MiniBatch(w, rows, n) = [i \in 1 .. S |-> rows[order[first + i]]]
  BY <1>1, <1>2 DEF MiniBatch
<1>. HIDE DEF order
<1>5. \A i \in 1 .. L : order[i] \in 1 .. L /\ \A j \in 1 .. L : order[i] = order[j] => i = j
  BY <1>3 DEF Bijection, Injection, IsInjective
<1>6. DOMAIN rows = 1 .. L
  BY <1>1
<1>7. ASSUME NEW i \in 1 .. S, NEW j \in 1 .. S, rows[order[first + i]] = rows[order[first + j]] PROVE i = j
  <2>1. first + i \in 1 .. L /\ first + j \in 1 .. L
    BY <1>3
  <2>2. order[first + i] = order[first + j]
    BY <1>5, <1>6, <1>7, <2>1 DEF IsInjective
  <2>3. first + i = first + j
    BY <1>5, <2>1, <2>2
  <2>. QED BY <2>3
<1>8. \A i \in 1 .. S : order[first + i] \in DOMAIN rows
  BY <1>3, <1>5, <1>6
<1>. QED BY <1>4, <1>7, <1>8 DEF IsInjective, Range

-----------------------------------------------------------------------------
(* How often a row is trained on *)

\* The rows of the first m micro-batches
RanSet(rows, idx, m) == UNION {Range(Ran(rows, idx, m)[b]) : b \in DOMAIN Ran(rows, idx, m)}

\* The next micro-batch has other rows, and together the micro-batches have all.
LEMMA RanSets ==
  ASSUME NEW n \in Nat, NEW rows \in Seq(Rows), Len(rows) = n, IsInjective(rows),
         NEW k \in Nat, NEW idx, Cover(idx, n, k), NEW m \in 0 .. k
  PROVE  /\ m = k => RanSet(rows, idx, m) = Range(rows)
         /\ m < k => /\ RanSet(rows, idx, m + 1) = RanSet(rows, idx, m) \cup Range(NextRun(rows, idx, m))
                     /\ RanSet(rows, idx, m) \cap Range(NextRun(rows, idx, m)) = {}
                     /\ Range(NextRun(rows, idx, m)) \subseteq Range(rows)
<1>. DEFINE part(b) == {rows[i] : i \in Range(idx[b])}
<1>1. /\ \A b \in 1 .. k : idx[b] \in Seq(1 .. n)
      /\ \A i \in 1 .. n : \E b \in 1 .. k : i \in Range(idx[b])
      /\ \A a, b \in 1 .. k : a # b => Range(idx[a]) \intersect Range(idx[b]) = {}
  BY CoverParts
<1>2. DOMAIN rows = 1 .. n
  OBVIOUS
<1>3. \A b \in 1 .. k : Range(idx[b]) \subseteq 1 .. n
  <2>1. ASSUME NEW b \in 1 .. k PROVE Range(idx[b]) \subseteq 1 .. n
    <3>1. PICK q \in Seq(1 .. n) : q = idx[b]
      BY <1>1
    <3>. QED BY <3>1 DEF Range
  <2>. QED BY <2>1
<1>4. ASSUME NEW l \in 0 .. k
      PROVE  RanSet(rows, idx, l) = UNION {part(b) : b \in 1 .. l}
  <2>1. DOMAIN Ran(rows, idx, l) = 1 .. l
    BY DEF Ran
  <2>2. ASSUME NEW b \in 1 .. l PROVE Range(Ran(rows, idx, l)[b]) = part(b)
    BY DEF Ran, Range
  <2>. HIDE DEF part
  <2>. QED BY <2>1, <2>2 DEF RanSet
<1>5. CASE m = k
  <2>1. \A b \in 1 .. k : part(b) \subseteq Range(rows)
    BY <1>2, <1>3 DEF Range
  <2>2. ASSUME NEW r \in Range(rows) PROVE \E b \in 1 .. k : r \in part(b)
    <3>1. PICK i \in 1 .. n : rows[i] = r
      BY <1>2 DEF Range
    <3>2. PICK b \in 1 .. k : i \in Range(idx[b])
      BY <1>1
    <3>. QED BY <3>1, <3>2
  <2>. HIDE DEF part
  <2>3. RanSet(rows, idx, k) = UNION {part(b) : b \in 1 .. k}
    BY <1>4, <1>5
  <2>4. UNION {part(b) : b \in 1 .. k} = Range(rows)
    BY <2>1, <2>2
  <2>. QED BY <1>5, <2>3, <2>4
<1>6. CASE m < k
  <2>1. Range(NextRun(rows, idx, m)) = part(m + 1)
    BY DEF NextRun, Range
  <2>2. m + 1 \in 1 .. k /\ m + 1 \in 0 .. k /\ 1 .. m + 1 = (1 .. m) \cup {m + 1} /\ m + 1 \notin 1 .. m /\ 1 .. m \subseteq 1 .. k
    BY <1>6
  <2>3. ASSUME NEW b \in 1 .. m PROVE part(b) \intersect part(m + 1) = {}
    <3>1. Range(idx[b]) \intersect Range(idx[m + 1]) = {}
      BY <1>1, <2>2
    <3>2. \A i \in Range(idx[b]) : \A j \in Range(idx[m + 1]) : rows[i] # rows[j]
      <4>1. \A i \in Range(idx[b]) : \A j \in Range(idx[m + 1]) : i \in DOMAIN rows /\ j \in DOMAIN rows /\ i # j
        BY <1>2, <1>3, <2>2, <3>1
      <4>. QED BY <4>1 DEF IsInjective
    <3>. QED BY <3>2
  <2>4. part(m + 1) \subseteq Range(rows)
    BY <1>2, <1>3, <2>2 DEF Range
  <2>. HIDE DEF part
  <2>5. RanSet(rows, idx, m + 1) = RanSet(rows, idx, m) \cup part(m + 1)
    BY <1>4, <2>2
  <2>6. RanSet(rows, idx, m) \cap part(m + 1) = {}
    BY <1>4, <2>3
  <2>. QED BY <1>6, <2>1, <2>4, <2>5, <2>6
<1>7. m = k \/ m < k
  OBVIOUS
<1>. QED BY <1>5, <1>6, <1>7

\* The rows that a worker has run, of those under way
RanRows(w) ==
  IF pc[w] = "replied" THEN Range(data[w]) ELSE UNION {Range(output_lst[w][b]) : b \in DOMAIN output_lst[w]}

\* How often it has run a row in a call of update_actor
TimesRun(w, r) ==
  Cardinality(RunsOf(w, shard[w], iteration[w] - 1, r)) + (IF r \in RanRows(w) THEN 1 ELSE 0)

\* A worker's rows are distinct.
LEMMA DistinctData ==
  ASSUME BatchInv, NEW w \in Workers, Under(w)
  PROVE  /\ shard[w] \in Seq(Rows) /\ Len(shard[w]) = RowsPerRank /\ IsInjective(shard[w])
         /\ IsInjective(data[w]) /\ Range(data[w]) \subseteq Range(shard[w])
         /\ \A v \in Workers : Under(v) => (dp_rank(v) = dp_rank(w) <=> Range(shard[v]) \cap Range(shard[w]) # {})
         /\ (\A v \in Workers : Under(v)) => \A r \in Rows : \E v \in Workers : r \in Range(shard[v])
<1>1. WholeBatch(batch) /\ shard[w] = dispatch_nd_compute(batch)[w] /\ iteration[w] \in 1 .. Epochs * MiniBatches
  BY DEF BatchInv, Under
<1>2. shard[w] \in Seq(Rows) /\ Len(shard[w]) = RowsPerRank /\ IsInjective(shard[w])
  BY <1>1, ShardRows, ShardsApart
<1>3. IsInjective(data[w]) /\ Range(data[w]) \subseteq Range(shard[w])
  <2>1. PICK rows, n : rows = shard[w] /\ n = iteration[w]
    OBVIOUS
  <2>2. IsInjective(MiniBatch(w, rows, n)) /\ Range(MiniBatch(w, rows, n)) \subseteq Range(rows)
    BY <1>1, <1>2, <2>1, MiniBatchDistinct
  <2>3. data[w] = MiniBatch(w, rows, n) \/ data[w] = rows
    BY <2>1 DEF Under
  <2>. QED BY <1>2, <2>1, <2>2, <2>3
<1>4. ASSUME NEW v \in Workers, Under(v)
      PROVE  dp_rank(v) = dp_rank(w) <=> Range(shard[v]) \cap Range(shard[w]) # {}
  <2>1. shard[v] = dispatch_nd_compute(batch)[v]
    BY <1>4 DEF Under
  <2>2. dp_rank(v) # dp_rank(w) => Range(shard[v]) \cap Range(shard[w]) = {}
    BY <1>1, <2>1, ShardsApart
  <2>3. dp_rank(v) = dp_rank(w) => shard[v] = shard[w]
    BY <1>1, <2>1 DEF dispatch_nd_compute
  <2>4. Range(shard[w]) # {}
    <3>1. 1 \in DOMAIN shard[w]
      BY <1>2, RowNumbers
    <3>. QED BY <3>1 DEF Range
  <2>. QED BY <2>2, <2>3, <2>4
<1>5. ASSUME \A v \in Workers : Under(v), NEW r \in Rows PROVE \E v \in Workers : r \in Range(shard[v])
  <2>1. PICK v \in Workers : r \in Range(dispatch_nd_compute(batch)[v])
    BY <1>1, ShardsApart
  <2>. QED BY <1>5, <2>1 DEF Under
<1>. QED BY <1>2, <1>3, <1>4, <1>5

\* A worker that has run all its micro-batches has run all its rows.
LEMMA AllRowsRan ==
  ASSUME BatchInv, Working, NEW w \in Workers, pc[w] \in {"optimizer", "postprocess"}
  PROVE  RanRows(w) = Range(data[w])
<1>1. PICK n \in Nat : n = RowsUnderWay
  BY Sizes
<1>2. PICK k \in 1 .. n : Cover(indices[w], n, k) /\ output_lst[w] = Ran(data[w], indices[w], k)
  BY <1>1 DEF Working, WorkerInv
<1>3. PICK rows \in Seq(Rows) : rows = data[w] /\ Len(rows) = n /\ IsInjective(rows)
  BY <1>1, DataRows, DistinctData DEF Working
<1>4. PICK idx, m : idx = indices[w] /\ m = k
  OBVIOUS
<1>5. Cover(idx, n, m) /\ m \in Nat /\ m \in 0 .. m
  BY <1>2, <1>4
<1>6. RanSet(rows, idx, m) = Range(rows)
  BY <1>3, <1>5, RanSets
<1>7. output_lst[w] = Ran(rows, idx, m) /\ pc[w] # "replied"
  BY <1>2, <1>3, <1>4
<1>8. RanRows(w) = RanSet(rows, idx, m)
  BY <1>7 DEF RanSet, RanRows
<1>. QED BY <1>3, <1>6, <1>8

\* A forward pass adds the rows of the micro-batch to those that a worker has run.
LEMMA RanRowsGrow ==
  ASSUME BatchInv, Working, Forward, NEW w \in Workers
  PROVE  /\ RanRows(w)' = RanRows(w) \cup Range(MicroBatch(w))
         /\ RanRows(w) \cap Range(MicroBatch(w)) = {}
         /\ Range(MicroBatch(w)) \subseteq Range(data[w])
<1>1. PICK n \in Nat : n = RowsUnderWay
  BY Sizes
<1>2. PICK k \in 1 .. n, m \in Nat : RunsNext(w, n, k, m)
  BY <1>1, NextBatchRuns
<1>3. PICK rows \in Seq(Rows) : rows = data[w] /\ Len(rows) = n /\ IsInjective(rows)
  BY <1>1, DataRows, DistinctData DEF Working
<1>4. PICK idx : idx = indices[w]
  OBVIOUS
<1>5. /\ m < k /\ Cover(idx, n, k) /\ output_lst[w] = Ran(rows, idx, m) /\ Len(output_lst[w]) = m
      /\ output_lst'[w] = Ran(rows, idx, m + 1) /\ pc[w] = "forward" /\ pc'[w] # "replied" /\ k \in Nat
  BY <1>2, <1>3, <1>4 DEF RunsNext, Forward, AtCollective
<1>6. m \in 0 .. k
  BY <1>5
<1>7. /\ RanSet(rows, idx, m + 1) = RanSet(rows, idx, m) \cup Range(NextRun(rows, idx, m))
      /\ RanSet(rows, idx, m) \cap Range(NextRun(rows, idx, m)) = {}
      /\ Range(NextRun(rows, idx, m)) \subseteq Range(rows)
  BY <1>3, <1>5, <1>6, RanSets
<1>8. MicroBatch(w) = NextRun(rows, idx, m)
  BY <1>3, <1>4, <1>5 DEF MicroBatch, NextRun
<1>9. RanRows(w) = RanSet(rows, idx, m) /\ RanRows(w)' = RanSet(rows, idx, m + 1)
  BY <1>5 DEF RanRows, RanSet
<1>. QED BY <1>3, <1>7, <1>8, <1>9

\* The micro-batches that a worker cuts rows into
IndicesFor(rows, n) ==
  LET workload == [i \in DOMAIN rows |-> calculate_workload(seqlen[rows[i]])]
  IN micro_bsz_idx(get_seqlen_balanced_partitions(karmarkar_karp(workload, n), n), n)

\* A worker that has checked its rows has found that they fit, and those that it has cut
\* are cut the way any worker does.
Checked(w) ==
  /\ pc[w] \in {"agree", "partition", "forward", "optimizer", "postprocess", "replied"} =>
       \A r \in Range(data[w]) : seqlen[r] <= max_token_len
  /\ pc[w] = "forward" => indices[w] = IndicesFor(data[w], Len(indices[w]))

\* A row's gradient was computed as often as each of the workers that have the row ran it.
Trained == \A w \in Workers : \A r \in Range(shard[w]) : trained[r] = TimesRun(w, r)

TrainedInv ==
  /\ trained \in [Rows -> Nat]
  /\ method # "update_actor" => \A r \in Rows : trained[r] = 0
  /\ method = "update_actor" => Trained /\ \A r \in Rows : seqlen[r] <= InferMaxTokenLen * SpSize
  /\ \A r \in Rows : trained[r] > 0 => seqlen[r] <= TrainMaxTokenLen * SpSize
  /\ method # "none" => \A w \in Workers : Checked(w)
  /\ driver = "done" => method = "update_actor" /\ AllReplied

\* How often a worker has run a row depends on where it is only.
LEMMA TimesRunFrame ==
  ASSUME NEW w, NEW r, shard'[w] = shard[w], iteration'[w] = iteration[w], data'[w] = data[w],
         output_lst'[w] = output_lst[w], pc'[w] = "replied" <=> pc[w] = "replied"
  PROVE  TimesRun(w, r)' = TimesRun(w, r)
<1>1. RanRows(w)' = RanRows(w)
  BY DEF RanRows
<1>. QED BY <1>1 DEF TimesRun

\* What a worker has checked stays while it is left alone.
LEMMA CheckedFrame ==
  ASSUME NEW w, Checked(w), UNCHANGED <<seqlen, method>>, Same(w)
  PROVE  Checked(w)'
<1>1. max_token_len' = max_token_len
  BY DEF max_token_len, Training
<1>2. IndicesFor(data[w], Len(indices[w]))' = IndicesFor(data[w], Len(indices[w]))
  BY DEF IndicesFor, Same
<1>. QED BY <1>1, <1>2 DEF Checked, Same

\* In one more iteration the rows of the iteration before have run once more.
LEMMA OneMoreRun ==
  ASSUME NEW w \in Workers, NEW rows, NEW n \in Nat \ {0}, NEW r
  PROVE  Cardinality(RunsOf(w, rows, n, r)) =
           Cardinality(RunsOf(w, rows, n - 1, r)) + (IF r \in Range(MiniBatch(w, rows, n)) THEN 1 ELSE 0)
<1>. DEFINE some == RunsOf(w, rows, n - 1, r)
<1>1. IsFiniteSet(some) /\ n \notin some
  <2>1. IsFiniteSet(1 .. n - 1) /\ some \subseteq 1 .. n - 1
    BY FS_Interval DEF RunsOf
  <2>2. n \notin 1 .. n - 1
    OBVIOUS
  <2>. HIDE DEF some
  <2>. QED BY <2>1, <2>2, FS_Subset
<1>2. RunsOf(w, rows, n, r) = IF r \in Range(MiniBatch(w, rows, n)) THEN some \cup {n} ELSE some
  <2>1. 1 .. n = (1 .. n - 1) \cup {n}
    OBVIOUS
  <2>. QED BY <2>1 DEF RunsOf
<1>. HIDE DEF some
<1>3. Cardinality(some) \in Nat /\ Cardinality(some \cup {n}) = Cardinality(some) + 1
  BY <1>1, FS_AddElement, FS_CardinalityType
<1>. QED BY <1>2, <1>3 DEF some

\* The workers that share rows run the same micro-batch.
LEMMA SameMicroBatch ==
  ASSUME HeapInv, BatchInv, Working, InStep, \A w \in Workers : pc[w] = "forward" /\ Checked(w),
         NEW v \in Workers, NEW w \in Workers, dp_rank(v) = dp_rank(w)
  PROVE  MicroBatch(v) = MicroBatch(w)
<1>1. /\ iteration[v] = iteration[w] /\ Len(indices[v]) = Len(indices[w])
      /\ output_lst[v] # <<>> \/ output_lst[w] # <<>> => Len(output_lst[v]) = Len(output_lst[w])
  BY EqualLeftInStep
<1>2. Len(output_lst[v]) = Len(output_lst[w])
  BY <1>1
<1>3. data[v] = data[w]
  <2>1. shard[v] = shard[w]
    BY DEF Working, Under, dispatch_nd_compute
  <2>2. \A rows, n : MiniBatch(v, rows, n) = MiniBatch(w, rows, n)
    BY DEF MiniBatch, Seed
  <2>3. Under(v) /\ Under(w)
    BY DEF Working
  <2>. QED BY <1>1, <2>1, <2>2, <2>3 DEF Under
<1>4. indices[v] = indices[w]
  BY <1>1, <1>3 DEF Checked
<1>. QED BY <1>2, <1>3, <1>4 DEF MicroBatch

\* Finishing, a worker goes to its next rows, or replies; how often it ran a row stays.
LEMMA TimesRunFinish ==
  ASSUME BatchInv, Typed, Working, Training, NEW group \in SUBSET Workers, Finish(group),
         NEW w \in group, pc[w] = "postprocess", NEW r \in Range(shard[w])
  PROVE  TimesRun(w, r)' = TimesRun(w, r)
<1>. DEFINE more == iteration[w] < Epochs * MiniBatches
<1>1. /\ output_lst'[w] = <<>> /\ shard' = shard
      /\ pc'[w] = IF more THEN "tokens" ELSE "replied"
      /\ iteration'[w] = IF more THEN iteration[w] + 1 ELSE iteration[w]
      /\ ~more => data'[w] = data[w]
  BY DEF Finish
<1>2. RanRows(w) = Range(data[w]) /\ iteration[w] \in Nat \ {0} /\ data[w] = MiniBatch(w, shard[w], iteration[w])
  BY AllRowsRan DEF Working, Under
<1>3. CASE more
  <2>1. RanRows(w)' = {}
    BY <1>1, <1>3 DEF RanRows
  <2>2. PICK n, rows : n \in Nat \ {0} /\ n = iteration[w] /\ rows = shard[w]
    BY <1>2
  <2>3. iteration'[w] - 1 = n /\ shard'[w] = rows
    BY <1>1, <1>3, <2>2
  <2>4. Cardinality(RunsOf(w, rows, n, r)) =
           Cardinality(RunsOf(w, rows, n - 1, r)) + (IF r \in Range(MiniBatch(w, rows, n)) THEN 1 ELSE 0)
    BY <2>2, OneMoreRun
  <2>5. TimesRun(w, r)' = Cardinality(RunsOf(w, rows, n, r)) + 0
    BY <2>1, <2>3 DEF TimesRun
  <2>6. TimesRun(w, r) = Cardinality(RunsOf(w, rows, n - 1, r)) + (IF r \in Range(MiniBatch(w, rows, n)) THEN 1 ELSE 0)
    BY <1>2, <2>2 DEF TimesRun
  <2>7. Cardinality(RunsOf(w, rows, n, r)) \in Nat
    <3>1. n \in Int
      BY <2>2
    <3>2. IsFiniteSet(1 .. n) /\ RunsOf(w, rows, n, r) \subseteq 1 .. n
      BY <3>1, FS_Interval DEF RunsOf
    <3>. QED BY <3>2, FS_Subset, FS_CardinalityType
  <2>. QED BY <2>4, <2>5, <2>6, <2>7
<1>4. CASE ~more
  <2>1. RanRows(w)' = RanRows(w) /\ iteration'[w] = iteration[w] /\ shard'[w] = shard[w]
    BY <1>1, <1>2, <1>4 DEF RanRows
  <2>. QED BY <2>1 DEF TimesRun
<1>. QED BY <1>3, <1>4

\* A forward pass of the training computes the gradient of the rows that the workers run.
LEMMA ForwardTrained ==
  ASSUME HeapInv, BatchInv, Typed, Working, InStep, method # "none", TrainedInv, Forward
  PROVE  /\ trained' \in [Rows -> Nat] /\ (~Training => trained' = trained)
         /\ Training => Trained'
         /\ \A r \in Rows : trained'[r] > 0 => seqlen[r] <= TrainMaxTokenLen * SpSize
<1>. DEFINE ran(r) == Training /\ \E u \in Workers : \A v \in sp_group(u) : r \in Range(MicroBatch(v))
<1>1. /\ \A w \in Workers : pc[w] = "forward" /\ Checked(w)
      /\ UNCHANGED <<driverVars, shard, iteration, data, num, indices, reply>>
  BY DEF Forward, AtCollective, TrainedInv
<1>2. trained' = [r \in Rows |-> IF ran(r) THEN trained[r] + 1 ELSE trained[r]]
  BY DEF Forward, ToSet, Range
<1>3. trained \in [Rows -> Nat]
  BY DEF TrainedInv
<1>4. \A v \in Workers : Range(MicroBatch(v)) \subseteq Range(data[v]) /\ v \in sp_group(v)
  BY RanRowsGrow DEF sp_group
<1>5. ~Training => trained' = trained
  <2>1. ~Training => trained' = [r \in Rows |-> trained[r]]
    BY <1>2
  <2>. QED BY <1>3, <2>1
<1>6. ASSUME Training, NEW w \in Workers, NEW r \in Range(shard[w])
      PROVE  ran(r) <=> r \in Range(MicroBatch(w))
  <2>1. ASSUME r \in Range(MicroBatch(w)), NEW v \in sp_group(w) PROVE r \in Range(MicroBatch(v))
    <3>1. v \in Workers /\ dp_rank(v) = dp_rank(w)
      BY DEF sp_group
    <3>2. MicroBatch(v) = MicroBatch(w)
      BY <1>1, <3>1, SameMicroBatch
    <3>. QED BY <2>1, <3>2
  <2>2. ASSUME NEW u \in Workers, \A v \in sp_group(u) : r \in Range(MicroBatch(v)) PROVE r \in Range(MicroBatch(w))
    <3>1. r \in Range(data[u])
      BY <1>4, <2>2
    <3>2. r \in Range(shard[u])
      BY <3>1, DistinctData DEF Working
    <3>3. dp_rank(u) = dp_rank(w)
      <4>1. Range(shard[u]) \cap Range(shard[w]) # {}
        BY <1>6, <3>2
      <4>. QED BY <4>1, DistinctData DEF Working
    <3>4. w \in sp_group(u)
      BY <3>3 DEF sp_group
    <3>. QED BY <2>2, <3>4
  <2>. QED BY <1>6, <2>1, <2>2
<1>7. ASSUME Training, NEW w \in Workers, NEW r \in Range(shard[w])
      PROVE  trained'[r] = TimesRun(w, r)'
  <2>1. r \in Rows /\ trained[r] = TimesRun(w, r)
    <3>1. shard[w] \in Seq(Rows)
      BY DistinctData DEF Working
    <3>2. r \in Rows
      BY <3>1, <1>7 DEF Range
    <3>3. method = "update_actor"
      BY <1>7 DEF Training
    <3>. QED BY <1>7, <3>2, <3>3 DEF TrainedInv, Trained
  <2>2. /\ RanRows(w)' = RanRows(w) \cup Range(MicroBatch(w))
        /\ RanRows(w) \cap Range(MicroBatch(w)) = {}
    BY RanRowsGrow
  <2>3. PICK c \in Int : c = Cardinality(RunsOf(w, shard[w], iteration[w] - 1, r))
    <3>1. trained[r] \in Nat
      BY <1>3, <2>1
    <3>2. iteration[w] - 1 \in Int
      BY DEF Working, Under
    <3>3. IsFiniteSet(1 .. iteration[w] - 1) /\ RunsOf(w, shard[w], iteration[w] - 1, r) \subseteq 1 .. iteration[w] - 1
      BY <3>2, FS_Interval DEF RunsOf
    <3>4. PICK some : some = RunsOf(w, shard[w], iteration[w] - 1, r)
      OBVIOUS
    <3>5. IsFiniteSet(some)
      BY <3>3, <3>4, FS_Subset
    <3>6. Cardinality(some) \in Int
      BY <3>5, FS_CardinalityType
    <3>. QED BY <3>4, <3>6
  <2>4. TimesRun(w, r) = c + (IF r \in RanRows(w) THEN 1 ELSE 0)
    BY <2>3 DEF TimesRun
  <2>5. TimesRun(w, r)' = c + (IF r \in RanRows(w)' THEN 1 ELSE 0)
    BY <1>1, <2>3 DEF TimesRun
  <2>6. trained'[r] = IF r \in Range(MicroBatch(w)) THEN trained[r] + 1 ELSE trained[r]
    BY <1>2, <1>6, <1>7, <2>1
  <2>. QED BY <2>1, <2>2, <2>4, <2>5, <2>6
<1>8. ASSUME NEW r \in Rows, trained'[r] > 0 PROVE seqlen[r] <= TrainMaxTokenLen * SpSize
  <2>1. CASE ran(r)
    <3>1. PICK u \in Workers : r \in Range(data[u])
      BY <1>4, <2>1
    <3>2. seqlen[r] <= max_token_len
      BY <1>1, <3>1 DEF Checked
    <3>. QED BY <2>1, <3>2 DEF max_token_len
  <2>2. CASE ~ran(r)
    <3>1. trained'[r] = trained[r]
      BY <1>2, <2>2
    <3>. QED BY <1>8, <3>1 DEF TrainedInv
  <2>. QED BY <2>1, <2>2
<1>9. trained' \in [Rows -> Nat]
  <2>. HIDE DEF ran
  <2>. QED BY <1>2, <1>3
<1>10. Training => Trained'
  BY <1>1, <1>7 DEF Trained
<1>. QED BY <1>5, <1>8, <1>9, <1>10

\* Partition cuts the rows the way any worker does.
LEMMA IndicesCut ==
  ASSUME HeapInv, BatchInv, Typed, Working, NEW w \in Workers, Partition(w)
  PROVE  /\ pc[w] = "partition" /\ data' = data /\ pc'[w] = "forward"
         /\ indices'[w] = IndicesFor(data[w], num[w]) /\ Len(indices'[w]) = num[w]
<1>1. pc[w] = "partition" /\ data' = data
  BY DEF Partition
<1>2. PICK idx : /\ Cover(idx, RowsUnderWay, num[w])
                 /\ indices' = [indices EXCEPT ![w] = idx] /\ pc' = [pc EXCEPT ![w] = "forward"]
  BY RowsPartitioned
<1>3. pc'[w] = "forward" /\ indices'[w] = idx
  BY <1>2 DEF Typed
<1>4. Len(idx) = num[w]
  <2>1. num[w] \in Nat
    BY <1>1, Sizes DEF Working, WorkerInv
  <2>2. DOMAIN idx = 1 .. num[w] /\ idx \in Seq(Seq(1 .. RowsUnderWay))
    <3>1. PICK k \in Nat, n \in Nat : k = num[w] /\ n = RowsUnderWay
      BY <2>1, Sizes
    <3>2. idx \in [1 .. k -> Seq(1 .. n)]
      BY <1>2, <3>1 DEF Cover
    <3>3. DOMAIN idx = 1 .. k /\ idx \in Seq(Seq(1 .. n))
      BY <3>2
    <3>. QED BY <3>1, <3>3
  <2>. QED BY <2>1, <2>2
<1>5. indices'[w] = IndicesFor(data[w], num[w])
  <2>1. PICK workload : workload = [i \in DOMAIN data[w] |-> calculate_workload(seqlen[data[w][i]])]
    OBVIOUS
  <2>2. PICK sets : sets = karmarkar_karp(workload, num[w])
    OBVIOUS
  <2>3. pc' # [pc EXCEPT ![w] = "failed"]
    BY <1>2 DEF Typed
  <2>4. indices' = [indices EXCEPT ![w] = micro_bsz_idx(get_seqlen_balanced_partitions(sets, num[w]), num[w])]
    BY <2>1, <2>2, <2>3 DEF Partition
  <2>5. indices'[w] = micro_bsz_idx(get_seqlen_balanced_partitions(sets, num[w]), num[w])
    BY <2>4 DEF Typed
  <2>. QED BY <2>1, <2>2, <2>5 DEF IndicesFor
<1>. QED BY <1>1, <1>3, <1>4, <1>5

\* The steps of the workers leave what they have checked.
LEMMA CheckedStep ==
  ASSUME HeapInv, BatchInv, Typed, Working, method # "none", \A w \in Workers : Checked(w),
         Collectives \/ \E w \in Workers : WorkerStep(w), NEW v \in Workers
  PROVE  Checked(v)'
<1>0. seqlen' = seqlen /\ method' = method
  BY DEF Collectives, WorkerStep, Forward, OptimizerStep, ReduceMetrics, ReturnNone, Finish,
     CountTokens, CheckLengths, Agree, Partition, driverVars
<1>1. CASE Same(v)
  BY <1>0, <1>1, CheckedFrame
<1>2. CASE pc'[v] \in {"tokens", "check", "failed"}
  BY <1>2 DEF Checked
<1>3. max_token_len' = max_token_len
  BY <1>0 DEF max_token_len, Training
<1>4. CASE /\ data'[v] = data[v] /\ pc'[v] # "forward"
           /\ pc[v] \in {"agree", "partition", "forward", "optimizer", "postprocess", "replied"}
  BY <1>0, <1>3, <1>4 DEF Checked
<1>5. CASE Forward
  <2>1. data' = data /\ indices' = indices /\ pc[v] = "forward"
    BY <1>5 DEF Forward, AtCollective
  <2>2. IndicesFor(data[v], Len(indices[v]))' = IndicesFor(data[v], Len(indices[v]))
    BY <1>0, <2>1 DEF IndicesFor
  <2>. QED BY <1>0, <1>3, <2>1, <2>2 DEF Checked
<1>6. CASE OptimizerStep
  BY <1>4, <1>6 DEF OptimizerStep, AtCollective
<1>7. ASSUME NEW group \in SUBSET Workers, \A w \in group : pc[w] = "postprocess", Finish(group)
      PROVE  Checked(v)'
  <2>1. CASE v \notin group
    BY <1>1, <1>7, <2>1 DEF Finish, Same
  <2>2. CASE v \in group
    <3>1. pc'[v] = "tokens" \/ (pc'[v] = "replied" /\ data'[v] = data[v])
      BY <1>7, <2>2 DEF Finish
    <3>. QED BY <1>2, <1>4, <1>7, <2>2, <3>1
  <2>. QED BY <2>1, <2>2
<1>8. CASE ReduceMetrics
  BY <1>7, <1>8 DEF ReduceMetrics, AtCollective
<1>9. ASSUME NEW w \in Workers, WorkerStep(w) PROVE Checked(v)'
  <2>1. CASE CountTokens(w)
    <3>1. Same(v) \/ pc'[v] = "check"
      BY <2>1 DEF CountTokens, Same
    <3>. QED BY <1>1, <1>2, <3>1
  <2>2. CASE CheckLengths(w)
    <3>1. CASE v # w
      BY <1>1, <2>2, <3>1 DEF CheckLengths, Same, Typed
    <3>2. CASE v = w
      <4>1. CASE \E i \in DOMAIN data[w] : seqlen[data[w][i]] > max_token_len
        BY <1>2, <2>2, <3>2, <4>1 DEF CheckLengths, Typed
      <4>2. CASE ~\E i \in DOMAIN data[w] : seqlen[data[w][i]] > max_token_len
        <5>1. pc' = [pc EXCEPT ![w] = "agree"] /\ data' = data
          <6>1. PICK total : total = FoldSeq(LAMBDA r, sum : sum + seqlen[r], 0, data[w])
            OBVIOUS
          <6>. QED BY <2>2, <4>2, <6>1, Zenon DEF CheckLengths
        <5>2. pc'[v] = "agree"
          BY <3>2, <5>1 DEF Typed
        <5>3. ASSUME NEW r \in Range(data[w]) PROVE seqlen[r] <= max_token_len
          <6>1. PICK i \in DOMAIN data[w] : r = data[w][i]
            BY DEF Range
          <6>2. data[w] \in Seq(Rows) /\ seqlen \in [Rows -> Nat]
            BY DataRows, BatchAssumption DEF Working, HeapInv
          <6>3. seqlen[r] \in Nat /\ max_token_len \in Nat
            BY <6>1, <6>2, TokenLimit
          <6>. QED BY <4>2, <6>1, <6>3
        <5>. QED BY <1>0, <1>3, <3>2, <5>1, <5>2, <5>3 DEF Checked
      <4>. QED BY <4>1, <4>2
    <3>. QED BY <3>1, <3>2
  <2>3. CASE Agree(w)
    <3>1. CASE v \in dp_group(w)
      BY <1>4, <2>3, <3>1 DEF Agree, AtCollective
    <3>2. CASE v \notin dp_group(w)
      BY <1>1, <2>3, <3>2 DEF Agree, Same
    <3>. QED BY <3>1, <3>2
  <2>4. CASE Partition(w)
    <3>1. CASE v # w
      <4>1. Same(v)
        BY <2>4, <3>1, RowsPartitioned DEF Partition, Same, Typed
      <4>. QED BY <1>1, <4>1
    <3>2. CASE v = w
      <4>1. /\ pc[w] = "partition" /\ data' = data /\ pc'[w] = "forward"
            /\ indices'[w] = IndicesFor(data[w], num[w]) /\ Len(indices'[w]) = num[w]
        BY <2>4, IndicesCut
      <4>2. IndicesFor(data[w], num[w])' = IndicesFor(data[w], num'[w])
        BY <1>0, <4>1 DEF IndicesFor
      <4>3. num' = num
        BY <2>4 DEF Partition
      <4>4. \A r \in Range(data[w]) : seqlen[r] <= max_token_len
        BY <4>1 DEF Checked
      <4>. QED BY <1>0, <1>3, <3>2, <4>1, <4>2, <4>3, <4>4 DEF Checked
    <3>. QED BY <3>1, <3>2
  <2>5. CASE ReturnNone(w)
    BY <1>7, <2>5 DEF ReturnNone
  <2>. QED BY <1>9, <2>1, <2>2, <2>3, <2>4, <2>5 DEF WorkerStep
<1>. QED BY <1>5, <1>6, <1>8, <1>9 DEF Collectives

\* Once all have replied, no worker moves until the trainer calls again.
LEMMA WorkersMove ==
  ASSUME Collectives \/ \E w \in Workers : WorkerStep(w)
  PROVE  /\ UNCHANGED <<driverVars, shard>> /\ ~AllReplied /\ \E w \in Workers : pc[w] # "idle"
         /\ ~Forward => trained' = trained
<1>1. UNCHANGED <<driverVars, shard>> /\ (~Forward => trained' = trained)
  BY DEF Collectives, WorkerStep, Forward, OptimizerStep, ReduceMetrics, ReturnNone, Finish,
     CountTokens, CheckLengths, Agree, Partition
<1>2. \E w \in Workers : pc[w] \notin {"idle", "replied"}
  <2>1. 0 \in Workers /\ is_collect(0)
    <3>1. SpSize * 0 + 0 = 0 /\ 0 \in 0 .. SpSize - 1 /\ SpSize \in Nat \ {0} /\ WorldSize \in Nat \ {0}
      BY MeshAssumption
    <3>2. 0 % SpSize = 0
      BY <3>1, Quotients
    <3>. QED BY <3>1, <3>2 DEF Workers, is_collect
  <2>2. CASE Forward \/ OptimizerStep \/ ReduceMetrics
    BY <2>1, <2>2 DEF Forward, OptimizerStep, ReduceMetrics, AtCollective
  <2>3. ASSUME NEW w \in Workers, WorkerStep(w) PROVE pc[w] \notin {"idle", "replied"}
    <3>1. w \in dp_group(w)
      BY DEF dp_group
    <3>. QED BY <2>3, <3>1 DEF WorkerStep, CountTokens, CheckLengths, Agree, Partition, ReturnNone, AtCollective
  <2>. QED BY <2>2, <2>3 DEF Collectives
<1>. QED BY <1>1, <1>2 DEF AllReplied

\* The other steps of the workers do not change how often a row was run.
LEMMA TimesRunStep ==
  ASSUME BatchInv, Typed, Working, Training, Collectives \/ \E w \in Workers : WorkerStep(w), ~Forward,
         NEW v \in Workers, NEW r \in Range(shard[v])
  PROVE  TimesRun(v, r)' = TimesRun(v, r)
<1>1. CASE /\ UNCHANGED <<shard, iteration, data, output_lst>>
           /\ pc'[v] = "replied" <=> pc[v] = "replied"
  BY <1>1, TimesRunFrame
<1>2. ASSUME NEW group \in SUBSET Workers, \A w \in group : pc[w] = "postprocess", Finish(group)
      PROVE  TimesRun(v, r)' = TimesRun(v, r)
  <2>1. CASE v \in group
    BY <1>2, <2>1, TimesRunFinish
  <2>2. CASE v \notin group
    <3>1. /\ shard'[v] = shard[v] /\ iteration'[v] = iteration[v] /\ data'[v] = data[v]
          /\ output_lst'[v] = output_lst[v] /\ pc'[v] = pc[v]
      BY <1>2, <2>2 DEF Finish
    <3>. QED BY <3>1, TimesRunFrame
  <2>. QED BY <2>1, <2>2
<1>3. CASE OptimizerStep
  BY <1>1, <1>3 DEF OptimizerStep, AtCollective
<1>4. CASE ReduceMetrics
  BY <1>2, <1>4 DEF ReduceMetrics, AtCollective
<1>5. ASSUME NEW w \in Workers, WorkerStep(w) PROVE TimesRun(v, r)' = TimesRun(v, r)
  <2>1. CASE CountTokens(w)
    BY <1>1, <2>1 DEF CountTokens, AtCollective
  <2>2. CASE CheckLengths(w)
    BY <1>1, <2>2 DEF CheckLengths, Typed
  <2>3. CASE Agree(w)
    BY <1>1, <2>3 DEF Agree, AtCollective
  <2>4. CASE Partition(w)
    BY <1>1, <2>4 DEF Partition, Typed
  <2>5. CASE ReturnNone(w)
    BY <1>2, <2>5 DEF ReturnNone
  <2>. QED BY <1>5, <2>1, <2>2, <2>3, <2>4, <2>5 DEF WorkerStep
<1>. QED BY <1>3, <1>4, <1>5 DEF Collectives

\* A call of update_actor starts with nothing run.
LEMMA UpdateStarts ==
  ASSUME BatchInv, Typed, Working, TrainedInv, CollectLogProbs
  PROVE  TrainedInv'
<1>1. /\ method = "compute_log_prob" /\ \A w \in Workers : pc[w] = "replied"
      /\ Call("update_actor", batch) /\ UNCHANGED <<seqlen, trained>>
  BY DEF CollectLogProbs, AllReplied
<1>2. /\ method' = "update_actor" /\ driver' = "wait" /\ pc' = [w \in Workers |-> "tokens"]
      /\ iteration' = [w \in Workers |-> 1] /\ output_lst' = [w \in Workers |-> <<>>]
      /\ shard' = dispatch_nd_compute(batch)
  BY <1>1 DEF Call
<1>3. \A w \in Workers : shard'[w] = shard[w] /\ data[w] = shard[w] /\ Under(w)
  BY <1>1, <1>2 DEF Working, Under, Training
<1>4. ASSUME NEW r \in Rows PROVE seqlen[r] <= InferMaxTokenLen * SpSize
  <2>1. PICK w \in Workers : r \in Range(shard[w])
    <3>1. 0 \in Workers
      BY MeshSizes DEF Workers
    <3>. QED BY <1>3, <3>1, DistinctData
  <2>2. seqlen[r] <= max_token_len
    BY <1>1, <1>3, <2>1 DEF TrainedInv, Checked
  <2>. QED BY <1>1, <2>2 DEF max_token_len, Training
<1>5. ASSUME NEW w \in Workers, NEW r \in Range(shard'[w]) PROVE trained'[r] = TimesRun(w, r)'
  <2>1. trained'[r] = 0
    <3>1. shard[w] \in Seq(Rows)
      BY <1>3, DistinctData
    <3>2. r \in Rows
      BY <1>3, <1>5, <3>1 DEF Range
    <3>. QED BY <1>1, <3>2 DEF TrainedInv
  <2>2. RanRows(w)' = {}
    BY <1>2 DEF RanRows
  <2>3. RunsOf(w, shard'[w], iteration'[w] - 1, r) = {}
    BY <1>2 DEF RunsOf
  <2>4. TimesRun(w, r)' = 0
    BY <2>2, <2>3, FS_EmptySet DEF TimesRun
  <2>. QED BY <2>1, <2>4
<1>6. \A w \in Workers : Checked(w)'
  BY <1>2 DEF Checked
<1>7. Trained'
  BY <1>5 DEF Trained
<1>. QED BY <1>1, <1>2, <1>4, <1>6, <1>7 DEF TrainedInv

\* Every step keeps count.
LEMMA TrainedStep ==
  HeapInv /\ BatchInv /\ CallInv /\ StepInv /\ TrainedInv /\ [Next]_vars => TrainedInv'
<1> SUFFICES ASSUME HeapInv, BatchInv, CallInv, StepInv, TrainedInv, [Next]_vars PROVE TrainedInv'
  OBVIOUS
<1>1. CASE Reorder
  <2>1. /\ method' = "compute_log_prob" /\ driver' = "wait" /\ pc' = [w \in Workers |-> "tokens"]
        /\ UNCHANGED <<seqlen, trained>> /\ driver = "merge"
    BY <1>1 DEF Reorder, Call
  <2>2. method # "update_actor"
    BY <2>1 DEF CallInv
  <2>3. \A w \in Workers : Checked(w)'
    BY <2>1 DEF Checked
  <2>. QED BY <2>1, <2>2, <2>3 DEF TrainedInv
<1>2. CASE CollectLogProbs
  <2>1. Typed /\ Working
    BY <1>2 DEF CollectLogProbs, CallInv
  <2>. QED BY <1>2, <2>1, UpdateStarts
<1>3. CASE UNCHANGED <<seqlen, method, workerVars, trained>> /\ (driver' = "done" => driver = "done" \/ CollectUpdate)
  <2>1. ASSUME NEW w \in Workers, Checked(w) PROVE Checked(w)'
    <3>1. Same(w)
      BY <1>3 DEF Same, workerVars
    <3>. QED BY <1>3, <2>1, <3>1, CheckedFrame
  <2>2. ASSUME Trained PROVE Trained'
    <3>1. ASSUME NEW w \in Workers, NEW r \in Range(shard[w]) PROVE TimesRun(w, r)' = TimesRun(w, r)
      BY <1>3, TimesRunFrame DEF workerVars
    <3>. QED BY <1>3, <2>2, <3>1 DEF Trained, workerVars
  <2>3. driver' = "done" => method' = "update_actor" /\ AllReplied'
    BY <1>3 DEF TrainedInv, CollectUpdate, AllReplied, workerVars
  <2>. QED BY <1>3, <2>1, <2>2, <2>3 DEF TrainedInv
<1>4. CASE Collectives \/ \E w \in Workers : WorkerStep(w)
  <2>1. /\ UNCHANGED <<driverVars, shard>> /\ ~AllReplied /\ \E w \in Workers : pc[w] # "idle"
        /\ ~Forward => trained' = trained
    BY <1>4, WorkersMove
  <2>2. Typed /\ Working /\ InStep /\ method # "none" /\ \A w \in Workers : Checked(w)
    BY <2>1 DEF CallInv, StepInv, TrainedInv
  <2>3. seqlen' = seqlen /\ method' = method /\ driver' = driver /\ driver # "done"
    BY <2>1 DEF driverVars, TrainedInv
  <2>4. \A w \in Workers : Checked(w)'
    BY <1>4, <2>2, CheckedStep
  <2>5. CASE Forward
    <3>1. /\ trained' \in [Rows -> Nat] /\ (~Training => trained' = trained)
          /\ Training => Trained'
          /\ \A r \in Rows : trained'[r] > 0 => seqlen[r] <= TrainMaxTokenLen * SpSize
      BY <2>2, <2>5, ForwardTrained
    <3>. QED BY <2>3, <2>4, <3>1 DEF TrainedInv, Training
  <2>6. CASE ~Forward
    <3>1. trained' = trained
      BY <2>1, <2>6
    <3>2. ASSUME Training PROVE Trained'
      <4>1. Trained
        BY <3>2 DEF Training, TrainedInv
      <4>2. ASSUME NEW v \in Workers, NEW r \in Range(shard[v]) PROVE TimesRun(v, r)' = TimesRun(v, r)
        BY <1>4, <2>2, <2>6, <3>2, TimesRunStep
      <4>. QED BY <2>1, <3>1, <4>1, <4>2 DEF Trained
    <3>. QED BY <2>3, <2>4, <3>1, <3>2 DEF TrainedInv, Training
  <2>. QED BY <2>5, <2>6
<1>5. \/ Reorder \/ CollectLogProbs \/ Collectives \/ \E w \in Workers : WorkerStep(w)
      \/ UNCHANGED <<seqlen, method, workerVars, trained>> /\ (driver' = "done" => driver = "done" \/ CollectUpdate)
  <2>1. CASE PushState
    BY <2>1 DEF PushState
  <2>2. CASE MergeStates \/ CollectUpdate \/ CallRaises
    BY <2>2 DEF MergeStates, CollectUpdate, CallRaises
  <2>3. CASE UNCHANGED vars
    BY <2>3 DEF vars, driverVars
  <2>. QED BY <2>1, <2>2, <2>3 DEF Next, DriverStep
<1>. QED BY <1>1, <1>2, <1>3, <1>4, <1>5

\* When the calls are over, every row fits and was trained on once in each epoch.
TrainedOnceAnEpoch == driver = "done" => AllFit /\ \A r \in Rows : trained[r] = Epochs

\* The gradient of each row is computed ppo_epochs times and no more, whatever the
\* lengths of the rows, the sizes of the mesh and the order a data loader draws: no row
\* is lost or taken twice in balancing, sending, shuffling and cutting.
THEOREM TrainedOnceAnEpochSafe == Spec => []TrainedOnceAnEpoch
<1>1. Init => TrainedInv
  BY DEF Init, TrainedInv
<1>2. HeapInv /\ BatchInv /\ CallInv /\ StepInv /\ TrainedInv => TrainedOnceAnEpoch
  <2> SUFFICES ASSUME HeapInv, BatchInv, CallInv, StepInv, TrainedInv, driver = "done", NEW r \in Rows
               PROVE  /\ trained[r] = Epochs
                      /\ seqlen[r] <= InferMaxTokenLen * SpSize /\ seqlen[r] <= TrainMaxTokenLen * SpSize
    BY DEF TrainedOnceAnEpoch, AllFit
  <2>1. /\ method = "update_actor" /\ \A w \in Workers : pc[w] = "replied"
        /\ Working /\ InStep /\ Trained /\ Training
    BY DEF TrainedInv, AllReplied, CallInv, StepInv, Training
  <2>2. PICK w \in Workers : r \in Range(shard[w])
    <3>1. 0 \in Workers
      BY MeshSizes DEF Workers
    <3>. QED BY <2>1, <3>1, DistinctData DEF Working
  <2>3. PICK rows \in Seq(Rows) : rows = shard[w] /\ Len(rows) = RowsPerRank /\ IsInjective(rows)
    BY <2>1, DistinctData DEF Working
  <2>4. PICK n \in Nat \ {0} : n = Epochs * MiniBatches
    <3>1. PICK a \in Nat \ {0}, b \in Nat \ {0} : a = Epochs /\ b = MiniBatches
      BY BatchAssumption, Sizes
    <3>2. a * b \in Nat \ {0}
      OBVIOUS
    <3>. QED BY <3>1, <3>2
  <2>5. iteration[w] = n /\ data[w] = MiniBatch(w, rows, n)
    BY <2>1, <2>3, <2>4 DEF InStep, Counted, Rounds, Working, Under
  <2>6. Cardinality(RunsOf(w, rows, n, r)) = Epochs
    BY <2>2, <2>3, <2>4, OnceAnEpoch
  <2>7. TimesRun(w, r) = Cardinality(RunsOf(w, rows, n - 1, r)) + (IF r \in Range(MiniBatch(w, rows, n)) THEN 1 ELSE 0)
    BY <2>1, <2>3, <2>5 DEF TimesRun, RanRows
  <2>8. TimesRun(w, r) = Epochs
    BY <2>6, <2>7, OneMoreRun
  <2>9. trained[r] = Epochs
    BY <2>1, <2>2, <2>8 DEF Trained
  <2>10. trained[r] > 0
    BY <2>9, BatchAssumption
  <2>. QED BY <2>1, <2>9, <2>10 DEF TrainedInv
<1>. QED BY <1>1, <1>2, TrainedStep, StepInvariant, PTL DEF Spec
=============================================================================
