----------------------- MODULE BucketedWeightTransfer -----------------------
(***************************************************************************)
(* The way of the tensors from a checkpoint engine worker to the inference *)
(* worker on the same device                                               *)
(* (verl/workers/rollout/vllm_rollout/bucketed_weight_transfer.py):        *)
(* BucketedWeightSender.async_send_weights and                             *)
(* BucketedWeightReceiver.receive_weights.  They share one buffer, and     *)
(* take turns through a REQ and a REP socket.  The sender's copies into    *)
(* the buffer are executed by the device, in order, some time after they   *)
(* were issued.                                                            *)
(***************************************************************************)
EXTENDS NCCLCheckpointEngine

VARIABLES
    copies,                \* issued, and not yet executed
    ipc_buf,
    ipc_offset, ipc_meta,  \* offset and bucket_meta of the sender
    ipc_state,             \* whether the sender fills, waits for its reply or has returned
    ipc_last,              \* is_last of the bucket sent
    worker,                \* what the inference worker does
    clones,                \* the tensors of its bucket
    loaded                 \* what it loaded under each tensor's name

ipcVars == <<copies, ipc_buf, ipc_offset, ipc_meta, ipc_state, ipc_last, worker, clones, loaded>>

Tensored == UNION {[S -> Tensors \union {Garbage}] : S \in SUBSET Tensors}

TransferTypeOK ==
    /\ copies \in [Receivers -> Seq([tensor : Tensors, buf : {1, 2}, at : Cells, offset : Cells])]
    /\ ipc_buf \in [Receivers -> Buffers]
    /\ ipc_offset \in [Receivers -> 0 .. BucketSize]
    /\ ipc_meta \in [Receivers -> Metas]
    /\ ipc_state \in [Receivers -> {"fill", "sent", "closed"}]
    /\ ipc_last \in [Receivers -> BOOLEAN]
    /\ worker \in [Receivers -> {"recv", "reply", "load", "done"}]
    /\ clones \in [Receivers -> Tensored] /\ loaded \in [Receivers -> Tensored]

\* The shared buffer has been handed over.
TransferInit ==
    /\ copies = [r \in Receivers |-> <<>>]
    /\ ipc_buf = [r \in Receivers |-> Empty]
    /\ ipc_offset = [r \in Receivers |-> 0]
    /\ ipc_meta = [r \in Receivers |-> NoTensors]
    /\ ipc_state = [r \in Receivers |-> "fill"]
    /\ ipc_last = [r \in Receivers |-> FALSE]
    /\ worker = [r \in Receivers |-> "recv"]
    /\ clones = [r \in Receivers |-> NoTensors]
    /\ loaded = [r \in Receivers |-> NoTensors]

-----------------------------------------------------------------------------
(* The sender *)

\* The copy of a tensor from a place in a buffer of the engine is issued.
PackTensor(r, t, buf, at) ==
    /\ ipc_state[r] = "fill" /\ Fits(ipc_offset[r], t)
    /\ copies' = [copies EXCEPT ![r] =
          Append(@, [tensor |-> t, buf |-> buf, at |-> at, offset |-> ipc_offset[r]])]
    /\ ipc_meta' = [ipc_meta EXCEPT ![r] = Placed(@, t, ipc_offset[r])]
    /\ ipc_offset' = [ipc_offset EXCEPT ![r] = @ + nbytes[t]]
    /\ UNCHANGED <<ipc_buf, ipc_state, ipc_last, worker, clones, loaded>>

ExecuteCopy(r) ==
    /\ copies[r] # <<>>
    /\ LET c == Head(copies[r]) IN
          ipc_buf' = [ipc_buf EXCEPT ![r] =
                         Moved(recv_bufs[r][c.buf], c.at, @, c.offset, c.tensor)]
    /\ copies' = [copies EXCEPT ![r] = Tail(@)]
    /\ UNCHANGED <<nbytes, engineVars, ipc_offset, ipc_meta, ipc_state, ipc_last, worker, clones, loaded>>

\* Fault: the device is not waited for.
NotSynchronized(r) == TRUE

\* synchronize() returns when the device has nothing left to do.
Synchronized(r) == copies[r] = <<>>

SendPyobj(r, last) ==
    /\ ipc_state[r] = "fill" /\ Synchronized(r)
    /\ ipc_state' = [ipc_state EXCEPT ![r] = "sent"]
    /\ ipc_last' = [ipc_last EXCEPT ![r] = last]
    /\ UNCHANGED <<copies, ipc_buf, ipc_offset, ipc_meta, worker, clones, loaded>>

-----------------------------------------------------------------------------
(* The inference worker *)

\* A request is answered when the clones of its tensors are made.
CloneBucket(r) ==
    /\ worker[r] = "recv" /\ ipc_state[r] = "sent"
    /\ clones' = [clones EXCEPT ![r] =
          [t \in DOMAIN ipc_meta[r] |-> Content(ipc_buf[r], ipc_meta[r][t], t)]]
    /\ worker' = [worker EXCEPT ![r] = "reply"]
    /\ UNCHANGED <<nbytes, engineVars, copies, ipc_buf, ipc_offset, ipc_meta, ipc_state, ipc_last, loaded>>

\* With the reply the sender goes on, in an empty bucket ...
Reply(r) ==
    /\ worker[r] = "reply"
    /\ worker' = [worker EXCEPT ![r] = "load"]
    /\ ipc_state' = [ipc_state EXCEPT ![r] = IF ipc_last[r] THEN "closed" ELSE "fill"]
    /\ ipc_meta' = [ipc_meta EXCEPT ![r] = NoTensors]
    /\ ipc_offset' = [ipc_offset EXCEPT ![r] = 0]
    /\ UNCHANGED <<nbytes, engineVars, copies, ipc_buf, ipc_last, clones, loaded>>

\* ... while on_bucket_received loads the old one.
LoadBucket(r) ==
    /\ worker[r] = "load"
    /\ loaded' = [loaded EXCEPT ![r] =
          [t \in DOMAIN @ \union DOMAIN clones[r] |->
              IF t \in DOMAIN clones[r] THEN clones[r][t] ELSE @[t]]]
    /\ worker' = [worker EXCEPT ![r] = IF ipc_state[r] = "closed" THEN "done" ELSE "recv"]
    /\ UNCHANGED <<nbytes, engineVars, copies, ipc_buf, ipc_offset, ipc_meta, ipc_state, ipc_last, clones>>
=============================================================================
