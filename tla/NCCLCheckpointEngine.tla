------------------------ MODULE NCCLCheckpointEngine ------------------------
(***************************************************************************)
(* The broadcast of the weights from the trainer's rank 0 to the           *)
(* checkpoint engine of every rollout worker                               *)
(* (verl/checkpoint_engine/nccl_checkpoint_engine.py): send_weights,       *)
(* receive_weights and the threads of their BroadcastOperations.           *)
(*                                                                         *)
(* Each side has two buffers, 1 and 2.  Rank 0 fills one while the other   *)
(* is broadcast; a receiver yields tensors out of one while the next       *)
(* bucket arrives in the other.  Tensors are stored by the device, after   *)
(* the statement that does so.  The bucket metadata of rank 0 reaches      *)
(* every subscriber, in order, and a collective broadcast returns when the *)
(* bucket is where it belongs, on each side for itself.                    *)
(***************************************************************************)
EXTENDS DeviceMemory, Sequences

CONSTANT Receivers         \* the ranks above 0

VARIABLES
    filled,                \* rank 0: tensors taken from its generator
    offset, bucket_meta,
    send_buf,              \* the buffer being filled
    send_bufs,
    fills,                 \* tensors its device has still to store
    broadcast_op,          \* its latest BroadcastOperation
    inbox,                 \* receivers: metadata on the way to their SUB socket
    recv_buf,              \* the buffer a broadcast goes to
    recv_bufs,
    recv_op,               \* their BroadcastOperation, and ...
    op_meta,               \* ... the metadata it received
    metadata,              \* that of the bucket being yielded
    got                    \* tensors yielded

senderVars == <<filled, offset, bucket_meta, send_buf, fills>>
receiverVars == <<recv_buf, metadata, got>>
engineVars == <<senderVars, send_bufs, broadcast_op, inbox, recv_bufs, recv_op, op_meta, receiverVars>>

Messages == [bucket_meta : Metas, is_last : BOOLEAN]
Message(meta, last) == [bucket_meta |-> meta, is_last |-> last]
NoMessage == Message(NoTensors, FALSE)

EngineTypeOK ==
    /\ filled \in 0 .. NumTensors /\ offset \in 0 .. BucketSize
    /\ bucket_meta \in Metas /\ send_buf \in {1, 2}
    /\ send_bufs \in [{1, 2} -> Buffers]
    /\ fills \in Seq([tensor : Tensors, buf : {1, 2}, offset : Cells])
    /\ broadcast_op \in [stage : {"none", "meta", "data", "complete"}, buf : {1, 2},
                         metadata : Messages, missing : SUBSET Receivers]
    /\ inbox \in [Receivers -> Seq(Messages)]
    /\ recv_buf \in [Receivers -> {1, 2}]
    /\ recv_bufs \in [Receivers -> [{1, 2} -> Buffers]]
    /\ recv_op \in [Receivers -> {"none", "meta", "data", "complete"}]
    /\ op_meta \in [Receivers -> Messages] /\ metadata \in [Receivers -> Messages]
    /\ got \in [Receivers -> 0 .. NumTensors]

\* prepare has allocated the buffers, and every receiver has started the
\* operation for its first bucket.
EngineInit ==
    /\ filled = 0 /\ offset = 0 /\ bucket_meta = NoTensors /\ send_buf = 1
    /\ send_bufs = [b \in {1, 2} |-> Empty]
    /\ fills = <<>>
    /\ broadcast_op = [stage |-> "none", buf |-> 1, metadata |-> NoMessage, missing |-> {}]
    /\ inbox = [r \in Receivers |-> <<>>]
    /\ recv_buf = [r \in Receivers |-> 2]
    /\ recv_bufs = [r \in Receivers |-> [b \in {1, 2} |-> Empty]]
    /\ recv_op = [r \in Receivers |-> "meta"]
    /\ op_meta = [r \in Receivers |-> NoMessage]
    /\ metadata = [r \in Receivers |-> NoMessage]
    /\ got = [r \in Receivers |-> 0]

Other(b) == 3 - b

-----------------------------------------------------------------------------
(* Rank 0 *)

FillBucket ==
    LET t == filled + 1 IN
    /\ t \in Tensors /\ Fits(offset, t)
    /\ bucket_meta' = Placed(bucket_meta, t, offset)
    /\ fills' = Append(fills, [tensor |-> t, buf |-> send_buf, offset |-> offset])
    /\ offset' = offset + nbytes[t]
    /\ filled' = t
    /\ UNCHANGED <<send_buf, send_bufs, broadcast_op>>

\* The device gets to the next tensor.
StoreTensor ==
    /\ fills # <<>>
    /\ LET f == Head(fills) IN
          send_bufs' = [send_bufs EXCEPT ![f.buf] = Stored(@, f.offset, f.tensor)]
    /\ fills' = Tail(fills)
    /\ UNCHANGED <<filled, offset, bucket_meta, send_buf, broadcast_op>>

\* Fault: the previous broadcast is not awaited before the next one.
NotAwaited == TRUE

\* await broadcast_op.wait_for_complete()
Awaited == broadcast_op.stage \in {"none", "complete"}

StartBroadcast(last) ==
    /\ fills = <<>>        \* torch.cuda.synchronize()
    /\ Awaited
    /\ broadcast_op' = [stage |-> "meta", buf |-> send_buf,
                        metadata |-> Message(bucket_meta, last), missing |-> Receivers]
    /\ UNCHANGED <<filled, fills, send_bufs>>

\* The next tensor does not fit: the bucket is broadcast and the other buffer
\* filled.
SendBucket ==
    /\ filled < NumTensors /\ ~Fits(offset, filled + 1)
    /\ StartBroadcast(FALSE)
    /\ send_buf' = Other(send_buf) /\ bucket_meta' = NoTensors /\ offset' = 0

\* Fault: the last bucket is sent like the others.
NeverLast == FALSE

LastFlag == TRUE

SendLast ==
    /\ filled = NumTensors /\ ~broadcast_op.metadata.is_last
    /\ StartBroadcast(LastFlag)
    /\ UNCHANGED <<send_buf, bucket_meta, offset>>

SenderStep ==
    /\ FillBucket \/ StoreTensor \/ SendBucket \/ SendLast
    /\ UNCHANGED <<nbytes, inbox, recv_bufs, recv_op, op_meta, receiverVars>>

-----------------------------------------------------------------------------
(* The threads of the operations *)

\* Rank 0 publishes the metadata, then takes part in the broadcast.
Publish ==
    /\ broadcast_op.stage = "meta"
    /\ broadcast_op' = [broadcast_op EXCEPT !.stage = "data"]
    /\ inbox' = [r \in Receivers |-> Append(inbox[r], broadcast_op.metadata)]
    /\ UNCHANGED <<nbytes, senderVars, send_bufs, recv_bufs, recv_op, op_meta, receiverVars>>

ReceiveMeta(r) ==
    /\ recv_op[r] = "meta" /\ inbox[r] # <<>>
    /\ op_meta' = [op_meta EXCEPT ![r] = Head(inbox[r])]
    /\ inbox' = [inbox EXCEPT ![r] = Tail(@)]
    /\ recv_op' = [recv_op EXCEPT ![r] = "data"]
    /\ UNCHANGED <<nbytes, senderVars, send_bufs, broadcast_op, recv_bufs, receiverVars>>

\* The bucket reaches a receiver that takes part; rank 0 is through with the
\* last of them.
Broadcast(r) ==
    /\ broadcast_op.stage = "data" /\ r \in broadcast_op.missing /\ recv_op[r] = "data"
    /\ recv_bufs' = [recv_bufs EXCEPT ![r][recv_buf[r]] = send_bufs[broadcast_op.buf]]
    /\ recv_op' = [recv_op EXCEPT ![r] = "complete"]
    /\ broadcast_op' =
          [broadcast_op EXCEPT !.missing = @ \ {r},
                               !.stage = IF broadcast_op.missing = {r} THEN "complete" ELSE "data"]
    /\ UNCHANGED <<nbytes, senderVars, send_bufs, inbox, op_meta, receiverVars>>

-----------------------------------------------------------------------------
(* receive_weights, a generator *)

\* The bucket at hand has a tensor to yield.
HasTensor(r) == got[r] + 1 \in DOMAIN metadata[r].bucket_meta

Exhausted(r) == ~HasTensor(r) /\ metadata[r].is_last

YieldTensor(r) ==
    /\ HasTensor(r)
    /\ got' = [got EXCEPT ![r] = @ + 1]
    /\ UNCHANGED <<nbytes, senderVars, send_bufs, broadcast_op, inbox, recv_bufs, recv_op, op_meta,
                   recv_buf, metadata>>

\* The next bucket is there: the buffers are swapped and, unless it is the last,
\* the operation for the one after it is started into the buffer just yielded.
SwapBuffers(r) ==
    /\ ~HasTensor(r) /\ recv_op[r] = "complete"
    /\ metadata' = [metadata EXCEPT ![r] = op_meta[r]]
    /\ recv_buf' = [recv_buf EXCEPT ![r] = Other(@)]
    /\ recv_op' = [recv_op EXCEPT ![r] = IF op_meta[r].is_last THEN "none" ELSE "meta"]
    /\ UNCHANGED <<nbytes, senderVars, send_bufs, broadcast_op, inbox, recv_bufs, op_meta, got>>
=============================================================================
