--------------------------- MODULE WeightTransfer ---------------------------
(***************************************************************************)
(* One transfer of the weights, from the trainer's rank 0 to the loaded    *)
(* model of every inference worker: CheckpointEngineWorker.update_weights  *)
(* (verl/checkpoint_engine/base.py) hands the generator of the checkpoint  *)
(* engine to the server adapter, whose BucketedWeightSender pulls the      *)
(* tensors out of it one by one.                                           *)
(***************************************************************************)
EXTENDS BucketedWeightTransfer

vars == <<nbytes, engineVars, ipcVars>>

TypeOK ==
    /\ nbytes \in [Tensors -> 1 .. BucketSize]
    /\ EngineTypeOK /\ TransferTypeOK

\* Models with any sizes of their tensors
Init ==
    /\ nbytes \in [Tensors -> 1 .. BucketSize]
    /\ EngineInit /\ TransferInit

\* The sender pulls a tensor: a view of the buffer that is not received into.
Pull(r) ==
    /\ YieldTensor(r)
    /\ PackTensor(r, got[r] + 1, Other(recv_buf[r]), metadata[r].bucket_meta[got[r] + 1])

\* It has one that does not fit, or the generator is at its end.
Flush(r) ==
    /\ \/ HasTensor(r) /\ ~Fits(ipc_offset[r], got[r] + 1) /\ SendPyobj(r, FALSE)
       \/ Exhausted(r) /\ SendPyobj(r, TRUE)
    /\ UNCHANGED <<nbytes, engineVars>>

\* The generator is asked for a tensor of the next bucket, and synchronises the
\* device before the bucket it is done with is received into.
NextBucket(r) ==
    /\ ipc_state[r] = "fill" /\ Synchronized(r)
    /\ SwapBuffers(r)
    /\ UNCHANGED ipcVars

Rank0Step == (SenderStep \/ Publish) /\ UNCHANGED ipcVars

OperationStep(r) == (ReceiveMeta(r) \/ Broadcast(r)) /\ UNCHANGED ipcVars

AdapterStep(r) == Pull(r) \/ Flush(r) \/ NextBucket(r)

WorkerStep(r) == CloneBucket(r) \/ Reply(r) \/ LoadBucket(r)

Next ==
    \/ Rank0Step
    \/ \E r \in Receivers : OperationStep(r) \/ AdapterStep(r) \/ ExecuteCopy(r) \/ WorkerStep(r)

Spec == Init /\ [][Next]_vars

\* Every thread runs on, the devices execute what was issued and a collective
\* that all take part in comes through.
Fairness ==
    /\ WF_vars(Rank0Step)
    /\ \A r \in Receivers :
          /\ WF_vars(OperationStep(r)) /\ WF_vars(AdapterStep(r))
          /\ WF_vars(ExecuteCopy(r)) /\ WF_vars(WorkerStep(r))

FairSpec == Spec /\ Fairness

-----------------------------------------------------------------------------
(* Properties *)

Stream == INSTANCE WeightStream WITH loaded <- loaded

\* Although two buffers per side are written and read at once by the device, by
\* broadcasts and by the adapter, every worker loads the tensors intact and in
\* order: nothing is overwritten before it was used, and no bucket is missed.
Copies == Stream!Spec

\* The transfer comes to its end on both sides, whatever the sizes: no one waits
\* for a bucket that is not sent.
Terminates ==
    <>(/\ broadcast_op.stage = "complete" /\ broadcast_op.metadata.is_last
       /\ \A r \in Receivers : worker[r] = "done" /\ DOMAIN loaded[r] = Tensors)
=============================================================================
