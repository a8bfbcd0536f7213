---------------------------- MODULE DeviceMemory ----------------------------
(***************************************************************************)
(* Tensors packed into the communication buffers of a weight transfer      *)
(* (send_weights of verl/checkpoint_engine/nccl_checkpoint_engine.py and   *)
(* async_send_weights of                                                   *)
(* verl/workers/rollout/vllm_rollout/bucketed_weight_transfer.py).         *)
(*                                                                         *)
(* The tensors are numbered in the order of the generator they come from.  *)
(* A buffer is an array of cells, each of which holds a piece of a tensor, *)
(* and a bucket_meta gives the offset of every tensor in a bucket.         *)
(***************************************************************************)
EXTENDS Naturals

CONSTANTS
    NumTensors,            \* the tensors of the model
    BucketSize             \* update_weights_bucket_megabytes, in cells

ASSUME MemoryAssumption == NumTensors \in Nat \ {0} /\ BucketSize \in Nat \ {0}

VARIABLE nbytes            \* the size of each tensor; larger ones are refused

Tensors == 1 .. NumTensors
Garbage == 0
Cells == 0 .. BucketSize - 1
Buffers == [Cells -> Tensors \union {Garbage}]
Empty == [c \in Cells |-> Garbage]

NoTensors == [t \in {} |-> 0]
Metas == UNION {[S -> Cells] : S \in SUBSET Tensors}

\* Fault (the first of this module's, explained in MessageQueue): one cell too
\* many.
FitsBarely(offset, t) == offset + nbytes[t] <= BucketSize + 1

\* offset + weight.nbytes > self.bucket_size closes a bucket.
Fits(offset, t) == offset + nbytes[t] <= BucketSize

Placed(meta, t, offset) ==
    [s \in DOMAIN meta \union {t} |-> IF s = t THEN offset ELSE meta[s]]

Place(offset, t) == offset .. offset + nbytes[t] - 1

Stored(buffer, offset, t) ==
    [c \in Cells |-> IF c \in Place(offset, t) THEN t ELSE buffer[c]]

\* A copy of what lies where the tensor should, be it the tensor or not.
Moved(from, at, to, offset, t) ==
    [c \in Cells |-> IF c \in Place(offset, t) THEN from[c - offset + at] ELSE to[c]]

\* What a view of the buffer shows at the tensor's place.
Content(buffer, offset, t) ==
    IF \A c \in Place(offset, t) : buffer[c] = t THEN t ELSE Garbage
=============================================================================
