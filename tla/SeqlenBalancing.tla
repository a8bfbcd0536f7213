-------------------------- MODULE SeqlenBalancing --------------------------
(***************************************************************************)
(* Balancing rows of different lengths over k partitions                   *)
(* (verl/utils/seqlen_balancing.py): the Karmarkar-Karp differencing       *)
(* method, used by the driver to give every data-parallel rank as many     *)
(* rows with about as much work, and by a rank to cut its rows into        *)
(* micro-batches.  Rows are numbered from 1 and `workload' is a function   *)
(* of the rows.                                                            *)
(***************************************************************************)
EXTENDS Integers, FiniteSets, Sequences, SequencesExt

calculate_workload(seqlen) == 24576 * seqlen + seqlen * seqlen

ceildiv(a, b) == (a + b - 1) \div b

\* A set of rows with the sum of their workloads; the rows in the order in which
\* they were added, which decides between sets that are otherwise equal
EmptySet == [sum |-> 0, items |-> <<>>]
Singleton(workload, r) == [sum |-> workload[r], items |-> <<r>>]
MergedSet(a, b) == [sum |-> a.sum + b.sum, items |-> a.items \o b.items]

LexicographicallyBelow(s, t) ==
    \E i \in DOMAIN s : s[i] < t[i] /\ \A j \in 1 .. i - 1 : s[j] = t[j]

SetBelow(a, b) ==
    \/ a.sum < b.sum
    \/ /\ a.sum = b.sum
       /\ \/ Len(a.items) < Len(b.items)
          \/ Len(a.items) = Len(b.items) /\ LexicographicallyBelow(a.items, b.items)

\* list.sort, of elements that the order tells apart: each comes after as many as
\* are below it
sort(s, Below(_, _)) ==
    [n \in DOMAIN s |->
        s[CHOOSE i \in DOMAIN s : Cardinality({j \in DOMAIN s : Below(s[j], s[i])}) = n - 1]]

\* A state of the method: k sets, in decreasing order
Decreasing(sets, k) == \A i, j \in 1 .. k : i < j => ~SetBelow(sets[i], sets[j])

Sorted(sets, k) ==
    {s \in {[i \in 1 .. k |-> sets[p[i]]] : p \in Bijection(1 .. k, 1 .. k)} : Decreasing(s, k)}

Spread(state, k) == state[1].sum - state[k].sum

\* Fault (the first of this module's, explained in MessageQueue): the largest sets
\* are combined with each other.
MergedUnreversed(state0, state1, k) ==
    Sorted([i \in 1 .. k |-> MergedSet(state0[i], state1[i])], k)

\* The largest set of one state is combined with the smallest of the other.
Merged(state0, state1, k) ==
    Sorted([i \in 1 .. k |-> MergedSet(state0[i], state1[k + 1 - i])], k)

\* The heap gives the state with the largest spread, then with the largest set.
PoppedBefore(s, t, k) ==
    \/ Spread(s, k) > Spread(t, k)
    \/ Spread(s, k) = Spread(t, k) /\ SetBelow(t[1], s[1])

Popped(states_pq, k) ==
    {s \in states_pq : \A t \in states_pq \ {s} : PoppedBefore(s, t, k)}

\* What the heap can hold after two states are popped and merged
MergedHeaps(states_pq, k) ==
    UNION {UNION {{(states_pq \ {state0, state1}) \cup {s} : s \in Merged(state0, state1, k)} :
                     state1 \in Popped(states_pq \ {state0}, k)} :
              state0 \in Popped(states_pq, k)}

\* The initial state of a single row, and the states of the k rows of a chunk of
\* the rows in increasing order
StateOfRow(workload, r, k) ==
    [i \in 1 .. k |-> IF i = 1 THEN Singleton(workload, r) ELSE EmptySet]

RowBelow(workload, r, s) ==
    workload[r] < workload[s] \/ (workload[r] = workload[s] /\ r < s)

ChunkAt(workload, offset, k) ==
    {r \in DOMAIN workload :
        Cardinality({s \in DOMAIN workload : RowBelow(workload, s, r)}) \in offset .. offset + k - 1}

StatesOfChunk(workload, chunk, k) ==
    {s \in [1 .. k -> {Singleton(workload, r) : r \in chunk}] :
        \A i, j \in 1 .. k : i < j => SetBelow(s[j], s[i])}

\* karmarkar_karp with equal_size = False: partitions of any sizes
karmarkar_karp(workload, k) ==
    LET heap[n \in 1 .. Cardinality(DOMAIN workload)] ==
            IF n = 1 THEN {StateOfRow(workload, r, k) : r \in DOMAIN workload}
            ELSE CHOOSE states_pq \in UNION {MergedHeaps(h, k) : h \in {heap[n - 1]}} : TRUE
    IN CHOOSE state \in heap[Cardinality(DOMAIN workload)] : TRUE

\* The assertions of get_seqlen_balanced_partitions
Partitioned(sets, rows) ==
    /\ \A i \in DOMAIN sets : sets[i].items # <<>>
    /\ UNION {ToSet(sets[i].items) : i \in DOMAIN sets} = rows

\* [::2] and [1::2] of a sequence
EvenPlaces(s) == [i \in 1 .. (Len(s) + 1) \div 2 |-> s[2 * i - 1]]
OddPlaces(s) == [i \in 1 .. Len(s) \div 2 |-> s[2 * i]]

\* The sets, each with its rows in order
get_seqlen_balanced_partitions(sets, k) ==
    [i \in 1 .. k |-> [sum |-> sets[i].sum, items |-> sort(sets[i].items, <)]]

\* The micro-batches, as sequences of rows: smaller ones at both ends
micro_bsz_idx(partitions, k) ==
    LET Above(a, b) == a.sum > b.sum \/ (a.sum = b.sum /\ a.items[1] > b.items[1])
        ordered == sort(partitions, Above)
        placed == Reverse(EvenPlaces(ordered)) \o OddPlaces(ordered)
    IN [i \in 1 .. k |-> placed[i].items]

get_reverse_idx(idx_map) ==
    [i \in DOMAIN idx_map |-> CHOOSE j \in DOMAIN idx_map : idx_map[j] = i]

\* Fault: the order of the micro-batches is applied once more, not undone.
restore_by_index(outputs, indices) ==
    LET idx == FlattenSeq(indices)
    IN [i \in DOMAIN outputs |-> outputs[idx[i]]]

\* restore_dynamic_batch: the outputs of the micro-batches, one after the other,
\* put back in the order of the rows
restore_dynamic_batch(outputs, indices) ==
    LET reverse == get_reverse_idx(FlattenSeq(indices))
    IN [i \in DOMAIN outputs |-> outputs[reverse[i]]]
=============================================================================
