-------------------------- MODULE WorkerGroupCall --------------------------
(***************************************************************************)
(* What happens to a training batch between the message queue and the      *)
(* optimizer.  The trainer balances the batch over the data-parallel ranks *)
(* (_balance_batch), calls compute_log_prob on the worker group and then   *)
(* update_actor.  Every worker cuts its rows into micro-batches, their     *)
(* number agreed on within its data-parallel group, and runs them through  *)
(* the sharded model: a forward pass is a collective operation of all      *)
(* workers, so that a worker with one micro-batch less leaves the others   *)
(* waiting for ever.                                                       *)
(*                                                                         *)
(* A collective operation is one action, enabled when every member of its  *)
(* group has come to it.                                                   *)
(***************************************************************************)
EXTENDS SeqlenBalancing, Dispatch

CONSTANTS
    NumRows,            \* rows of a batch: required_samples * rollout.n
    Batches,            \* the lengths rows may come in: functions of the rows
    InferMaxTokenLen,   \* infer_max_token_len_per_gpu
    TrainMaxTokenLen,   \* max_token_len_per_gpu
    MiniBatchSize,      \* ppo_mini_batch_size * rollout.n
    Epochs,             \* ppo_epochs
    Shuffle(_, _)       \* the order a data loader draws, of its seed and epoch

Rows == 1 .. NumRows
RowsPerRank == NumRows \div DpSize
MiniBatchSizePerGpu == MiniBatchSize \div DpSize
MiniBatches == RowsPerRank \div MiniBatchSizePerGpu

\* chunk, train_mini_batch and make_iterator assert that the sizes divide.
ASSUME BatchAssumption ==
    /\ NumRows \in Nat \ {0} /\ NumRows % DpSize = 0
    /\ Batches \subseteq [Rows -> Nat \ {0}]
    /\ InferMaxTokenLen \in Nat \ {0} /\ TrainMaxTokenLen \in Nat \ {0}
    /\ MiniBatchSize \in Nat \ {0} /\ MiniBatchSize % DpSize = 0
    /\ RowsPerRank % MiniBatchSizePerGpu = 0
    /\ Epochs \in Nat \ {0}

ASSUME ShuffleAssumption ==
    \A seed \in Workers, epoch \in 1 .. Epochs :
        Shuffle(seed, epoch) \in Bijection(1 .. RowsPerRank, 1 .. RowsPerRank)

VARIABLES
    seqlen,       \* the lengths of the rows
    batch,        \* the trainer's batch, reordered in place
    states_pq,    \* karmarkar_karp's heap in _balance_batch
    driver,       \* what the trainer does
    method,       \* the method it calls on the worker group
    result,       \* what compute_log_prob returned: row i holds the values of this row
    pc,           \* where each worker is
    shard,        \* the rows it was sent
    iteration,    \* of its data loader
    data,         \* the rows under way: the shard, or a mini-batch of it
    num,          \* its number of micro-batches
    indices,      \* batch_idx_list: places of the rows of each micro-batch
    output_lst,   \* the micro-batches it ran
    reply,        \* the rows of its model_output, in its order
    trained       \* how often a row's gradient was computed

driverVars == <<seqlen, batch, states_pq, driver, method, result>>
workerVars == <<pc, shard, iteration, data, num, indices, output_lst, reply>>
vars == <<driverVars, workerVars, trained>>

Workload == [r \in Rows |-> calculate_workload(seqlen[r])]

-----------------------------------------------------------------------------
\* Fault (the first of this module's, explained in MessageQueue): every worker has a
\* seed of its own.
SeedOfWorker(w) == w

\* seed + get_data_parallel_rank(): the workers that share rows shuffle alike.
Seed(w) == dp_rank(w)

\* make_iterator: the mini-batch a worker gets from the rows it was sent
MiniBatch(w, rows, n) ==
    LET epoch == (n - 1) \div MiniBatches + 1
        first == ((n - 1) % MiniBatches) * MiniBatchSizePerGpu
        order == Shuffle(Seed(w), epoch)
    IN [i \in 1 .. MiniBatchSizePerGpu |-> rows[order[first + i]]]

-----------------------------------------------------------------------------
(* The trainer *)

\* _balance_batch: karmarkar_karp with equal_size = True starts from chunks of the
\* rows in increasing order, one row per rank.
PushState ==
    /\ driver = "push"
    /\ LET chunk == ChunkAt(Workload, DpSize * Cardinality(states_pq), DpSize)
       IN \E state \in StatesOfChunk(Workload, chunk, DpSize) :
             states_pq' = states_pq \cup {state}
    /\ driver' = IF Cardinality(states_pq') = RowsPerRank THEN "merge" ELSE "push"
    /\ UNCHANGED <<seqlen, batch, method, result, workerVars, trained>>

MergeStates ==
    /\ driver = "merge" /\ Cardinality(states_pq) > 1
    /\ \E heap \in MergedHeaps(states_pq, DpSize) : states_pq' = heap
    /\ UNCHANGED <<seqlen, batch, driver, method, result, workerVars, trained>>

\* The rows of a rank: the light ones at both ends
OrderedPartition(items) ==
    LET Below(r, s) == RowBelow(Workload, r, s)
        partition == sort(items, Below)
    IN EvenPlaces(partition) \o Reverse(OddPlaces(partition))

\* What a call of the worker group starts: every worker runs the method.
Call(name, rows) ==
    /\ driver' = "wait" /\ method' = name
    /\ shard' = dispatch_nd_compute(rows)
    /\ pc' = [w \in Workers |-> "tokens"]
    /\ iteration' = [w \in Workers |-> 1]
    /\ data' = [w \in Workers |->
                  IF name = "update_actor" THEN MiniBatch(w, shard'[w], 1) ELSE shard'[w]]
    /\ indices' = [w \in Workers |-> <<>>]
    /\ output_lst' = [w \in Workers |-> <<>>]
    /\ reply' = [w \in Workers |-> <<>>]

Reorder ==
    /\ driver = "merge" /\ Cardinality(states_pq) = 1
    /\ LET state == CHOOSE s \in states_pq : TRUE
       IN batch' = FlattenSeq([d \in 1 .. DpSize |-> OrderedPartition(state[d].items)])
    /\ states_pq' = {}
    /\ Call("compute_log_prob", batch')
    /\ UNCHANGED <<seqlen, result, num, trained>>

AllReplied == \A w \in Workers : pc[w] = "replied"

\* ray.get returns when all have replied; the trainer goes on to update_actor.
CollectLogProbs ==
    /\ driver = "wait" /\ method = "compute_log_prob" /\ AllReplied
    /\ result' = collect_nd_compute(reply)
    /\ Call("update_actor", batch)
    /\ UNCHANGED <<seqlen, batch, states_pq, num, trained>>

CollectUpdate ==
    /\ driver = "wait" /\ method = "update_actor" /\ AllReplied
    /\ driver' = "done"
    /\ UNCHANGED <<seqlen, batch, states_pq, method, result, workerVars, trained>>

\* ray.get raises the exception of a worker as soon as there is one.
CallRaises ==
    /\ driver = "wait"
    /\ \E w \in Workers : pc[w] = "failed"
    /\ driver' = "failed"
    /\ UNCHANGED <<seqlen, batch, states_pq, method, result, workerVars, trained>>

-----------------------------------------------------------------------------
(* A worker *)

Training == method = "update_actor"

max_token_len == (IF Training THEN TrainMaxTokenLen ELSE InferMaxTokenLen) * SpSize

AtCollective(group, stage) == \A v \in group : pc[v] = stage

\* forward_backward_batch first sums the tokens of the data-parallel group; a
\* mini-batch gathers its lengths before.
CountTokens(w) ==
    /\ AtCollective(dp_group(w), "tokens")
    /\ pc' = [v \in Workers |-> IF v \in dp_group(w) THEN "check" ELSE pc[v]]
    /\ UNCHANGED <<driverVars, shard, iteration, data, num, indices, output_lst, reply, trained>>

\* rearrange_micro_batches: a row that is too long fails the worker, before it
\* comes to the collective that agrees on the number.
CheckLengths(w) ==
    /\ pc[w] = "check"
    /\ IF \E i \in DOMAIN data[w] : seqlen[data[w][i]] > max_token_len
       THEN pc' = [pc EXCEPT ![w] = "failed"] /\ UNCHANGED num
       ELSE /\ pc' = [pc EXCEPT ![w] = "agree"]
            /\ LET total == FoldSeq(LAMBDA r, sum : sum + seqlen[r], 0, data[w])
                   wanted == ceildiv(total, max_token_len)
               IN num' = [num EXCEPT ![w] = IF wanted < Len(data[w]) THEN wanted ELSE Len(data[w])]
    /\ UNCHANGED <<driverVars, shard, iteration, data, indices, output_lst, reply, trained>>

\* Fault: the number is not agreed on.
OwnNumber(w) == num[w]

\* all_reduce with MAX in the data-parallel group
AgreedNumber(w) == CHOOSE n \in {num[v] : v \in dp_group(w)} : \A v \in dp_group(w) : num[v] <= n

\* Each member then partitions its own rows.
Agree(w) ==
    /\ AtCollective(dp_group(w), "agree")
    /\ num' = [v \in Workers |-> IF v \in dp_group(w) THEN AgreedNumber(v) ELSE num[v]]
    /\ pc' = [v \in Workers |-> IF v \in dp_group(w) THEN "partition" ELSE pc[v]]
    /\ UNCHANGED <<driverVars, shard, iteration, data, indices, output_lst, reply, trained>>

Partition(w) ==
    /\ pc[w] = "partition"
    /\ LET workload == [i \in DOMAIN data[w] |-> calculate_workload(seqlen[data[w][i]])]
       IN \E sets \in {karmarkar_karp(workload, num[w])} :
             IF num[w] <= Len(data[w]) /\ Partitioned(sets, DOMAIN data[w])
             THEN /\ \E partitions \in {get_seqlen_balanced_partitions(sets, num[w])} :
                     indices' = [indices EXCEPT ![w] = micro_bsz_idx(partitions, num[w])]
                  /\ pc' = [pc EXCEPT ![w] = "forward"]
             ELSE pc' = [pc EXCEPT ![w] = "failed"] /\ UNCHANGED indices
    /\ UNCHANGED <<driverVars, shard, iteration, data, num, output_lst, reply, trained>>

\* The rows a worker is about to run
MicroBatch(w) ==
    LET places == indices[w][Len(output_lst[w]) + 1]
    IN [i \in DOMAIN places |-> data[w][places[i]]]

\* A forward (and backward) pass: parameters are gathered from all workers, and
\* the workers of a sequence-parallel group each take a part of the same rows.
Forward ==
    /\ AtCollective(Workers, "forward")
    /\ output_lst' = [w \in Workers |-> Append(output_lst[w], MicroBatch(w))]
    /\ pc' = [w \in Workers |->
                IF Len(output_lst'[w]) < Len(indices[w]) THEN "forward"
                ELSE IF Training THEN "optimizer" ELSE "postprocess"]
    /\ trained' = [r \in Rows |->
                     IF Training /\ \E w \in Workers : \A v \in sp_group(w) : r \in ToSet(MicroBatch(v))
                     THEN trained[r] + 1 ELSE trained[r]]
    /\ UNCHANGED <<driverVars, shard, iteration, data, num, indices, reply>>

\* optimizer_step: the norm of the gradients is reduced over all workers.
OptimizerStep ==
    /\ AtCollective(Workers, "optimizer")
    /\ pc' = [w \in Workers |-> "postprocess"]
    /\ UNCHANGED <<driverVars, shard, iteration, data, num, indices, output_lst, reply, trained>>

\* postprocess_batch_func, and the worker's return to its data loader or to the
\* trainer
Finish(group) ==
    LET more == [w \in Workers |-> w \in group /\ Training /\ iteration[w] < Epochs * MiniBatches]
    IN /\ reply' = [w \in Workers |->
                      IF w \in group
                      THEN restore_dynamic_batch(FlattenSeq(output_lst[w]), indices[w])
                      ELSE reply[w]]
       /\ output_lst' = [w \in Workers |-> IF w \in group THEN <<>> ELSE output_lst[w]]
       /\ indices' = [w \in Workers |-> IF w \in group THEN <<>> ELSE indices[w]]
       /\ pc' = [w \in Workers |->
                   IF w \notin group THEN pc[w] ELSE IF more[w] THEN "tokens" ELSE "replied"]
       /\ iteration' = [w \in Workers |-> IF more[w] THEN iteration[w] + 1 ELSE iteration[w]]
       /\ data' = [w \in Workers |->
                     IF more[w] THEN MiniBatch(w, shard[w], iteration'[w]) ELSE data[w]]
       /\ UNCHANGED <<driverVars, shard, num, trained>>

\* _postprocess_output: the workers that collect reduce the loss among them, the
\* others return None.
ReduceMetrics ==
    LET collecting == {w \in Workers : is_collect(w)}
    IN AtCollective(collecting, "postprocess") /\ Finish(collecting)

ReturnNone(w) == pc[w] = "postprocess" /\ ~is_collect(w) /\ Finish({w})

WorkerStep(w) ==
    CountTokens(w) \/ CheckLengths(w) \/ Agree(w) \/ Partition(w) \/ ReturnNone(w)

Collectives == Forward \/ OptimizerStep \/ ReduceMetrics

DriverStep ==
    PushState \/ MergeStates \/ Reorder \/ CollectLogProbs \/ CollectUpdate \/ CallRaises

-----------------------------------------------------------------------------
Init ==
    /\ seqlen \in Batches
    /\ batch = [i \in Rows |-> i]
    /\ states_pq = {} /\ driver = "push" /\ method = "none" /\ result = <<>>
    /\ pc = [w \in Workers |-> "idle"]
    /\ shard = [w \in Workers |-> <<>>]
    /\ iteration = [w \in Workers |-> 1]
    /\ data = [w \in Workers |-> <<>>]
    /\ num = [w \in Workers |-> 0]
    /\ indices = [w \in Workers |-> <<>>]
    /\ output_lst = [w \in Workers |-> <<>>]
    /\ reply = [w \in Workers |-> <<>>]
    /\ trained = [r \in Rows |-> 0]

Next == DriverStep \/ Collectives \/ \E w \in Workers : WorkerStep(w)

Spec == Init /\ [][Next]_vars

\* The trainer and the workers run on, and a collective comes through when all
\* take part: as long as something can happen, something does.  (No step is
\* ever undone, so that this is enough.)
Fairness == WF_vars(Next)

FairSpec == Spec /\ Fairness

-----------------------------------------------------------------------------
(* Properties *)

\* The value that comes back for a row of the trainer's batch is this row's,
\* through balancing, dispatch, two reorderings and collection.
RowsReturn == method = "update_actor" => result = batch

\* Two rows that _balance_batch started from together: at most DpSize places apart
\* in the order of their work
SameChunk(r, s) ==
    \E n \in 0 .. RowsPerRank - 1 : {r, s} \subseteq ChunkAt(Workload, DpSize * n, DpSize)

\* The work of two ranks differs by no more than that of two rows of one chunk,
\* however many rows a rank has.
Balanced ==
    \A state \in states_pq : \A d, e \in 1 .. DpSize :
        \E r, s \in Rows :
            SameChunk(r, s) /\ state[d].sum - state[e].sum <= Workload[r] - Workload[s]

Ended == driver \in {"done", "failed"}

AllFit ==
    \A r \in Rows :
        seqlen[r] <= InferMaxTokenLen * SpSize /\ seqlen[r] <= TrainMaxTokenLen * SpSize

\* If every row fits, no assertion fails, no worker waits for the others and each
\* row is trained on once an epoch; otherwise the call fails and does not hang.
CallSucceeds ==
    <>[](IF AllFit THEN driver = "done" /\ \A r \in Rows : trained[r] = Epochs
                   ELSE driver = "failed")

\* docs/perf/perf_tuning.rst: the token budget of a micro-batch
TokenBudget ==
    \A w \in Workers : pc[w] = "forward" =>
        FoldSeq(LAMBDA r, total : total + seqlen[r], 0, MicroBatch(w)) <= max_token_len
=============================================================================
