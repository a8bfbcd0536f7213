------------------------------ MODULE Dispatch ------------------------------
(***************************************************************************)
(* How a call on a worker group is spread over its workers and how their   *)
(* results are gathered (verl/single_controller/base/decorator.py, with    *)
(* DataProto of verl/protocol.py and the meshes of the FSDP engine).  A    *)
(* batch is a sequence of rows.                                            *)
(***************************************************************************)
EXTENDS Integers, Sequences, SequencesExt

CONSTANTS
    WorldSize,  \* workers of the group
    SpSize      \* ulysses_sequence_parallel_size: workers that share their rows

\* get_data_parallel_size divides; the mesh is dp x sp
ASSUME MeshAssumption ==
    /\ WorldSize \in Nat \ {0} /\ SpSize \in Nat \ {0}
    /\ WorldSize % SpSize = 0

Workers == 0 .. WorldSize - 1

DpSize == WorldSize \div SpSize

dp_rank(w) == w \div SpSize

\* Fault (explained in MessageQueue): the first DpSize workers collect.
is_collect_dp(w) == w < DpSize

\* is_mp_src_rank_with_outputs
is_collect(w) == w % SpSize = 0

\* The other workers of a worker's data-parallel group and of its rows
dp_group(w) == {v \in Workers : v % SpSize = w % SpSize}

sp_group(w) == {v \in Workers : dp_rank(v) = dp_rank(w)}

\* chunk: equal parts, one after the other
Chunk(batch, chunks) ==
    LET size == Len(batch) \div chunks
    IN [d \in 0 .. chunks - 1 |-> SubSeq(batch, d * size + 1, (d + 1) * size)]

dispatch_nd_compute(batch) == [w \in Workers |-> Chunk(batch, DpSize)[dp_rank(w)]]

\* The outputs of the workers that collect, in the order of the workers
collect_nd_compute(output) ==
    FlattenSeq([i \in 1 .. WorldSize |-> IF is_collect(i - 1) THEN output[i - 1] ELSE <<>>])
=============================================================================
