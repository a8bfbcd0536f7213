------------------------- MODULE WeightTransferProofs -------------------------
(***************************************************************************)
(* The weight transfer implements WeightStream: whatever the sizes of the  *)
(* tensors, the buckets and the group of receivers, and however broadcasts,*)
(* device copies, adapters and inference workers interleave, every worker  *)
(* loads all tensors intact and in order.                                  *)
(***************************************************************************)
EXTENDS WeightTransfer, SequenceFacts

-----------------------------------------------------------------------------
(* Buckets *)

\* The last tensor of a bucket, 0 for no bucket
EndOf(meta) ==
    CHOOSE n \in 0 .. NumTensors :
        IF DOMAIN meta = {} THEN n = 0
        ELSE n \in DOMAIN meta /\ \A t \in DOMAIN meta : t <= n

\* A bucket that was closed, and follows the n-th tensor
Bucket(meta, n) ==
    EndOf(meta) \in n + 1 .. NumTensors /\ DOMAIN meta = n + 1 .. EndOf(meta)

\* The tensors of a bucket being filled up to the cell end do not overlap.
WellPlaced(size, meta, end) ==
    /\ end <= BucketSize
    /\ DOMAIN meta = {} => end = 0
    /\ \A t \in DOMAIN meta : meta[t] + size[t] <= end
    /\ \A t, u \in DOMAIN meta :
          t # u => meta[t] + size[t] <= meta[u] \/ meta[u] + size[u] <= meta[t]

Span(size, at, t) == at .. at + size[t] - 1

InPlace(size, buffer, at, t) == \A c \in Span(size, at, t) : buffer[c] = t

Holds(size, buffer, meta) == \A t \in DOMAIN meta : InPlace(size, buffer, meta[t], t)

\* What a bucket holds, but for the writes the device has still to execute
Packed(size, buffer, meta, writes) ==
    /\ \A i \in DOMAIN writes :
          writes[i].tensor \in DOMAIN meta /\ writes[i].offset = meta[writes[i].tensor]
    /\ \A t \in DOMAIN meta :
          InPlace(size, buffer, meta[t], t) \/ \E i \in DOMAIN writes : writes[i].tensor = t

LEMMA ConstantFacts ==
  /\ NumTensors \in Nat /\ NumTensors >= 1 /\ BucketSize \in Nat /\ BucketSize >= 1
  /\ Tensors = 1 .. NumTensors /\ Cells = 0 .. BucketSize - 1 /\ Garbage = 0
<1>1. NumTensors \in Nat \ {0} /\ BucketSize \in Nat \ {0}
  BY MemoryAssumption
<1>. QED BY <1>1 DEF Tensors, Cells, Garbage

LEMMA EndIs ==
  ASSUME NEW meta, NEW k \in 0 .. NumTensors, NEW n \in k + 1 .. NumTensors, DOMAIN meta = k + 1 .. n
  PROVE  EndOf(meta) = n
<1>1. n \in DOMAIN meta /\ (\A t \in DOMAIN meta : t <= n) /\ n \in 0 .. NumTensors
  BY ConstantFacts
<1>2. \A m \in 0 .. NumTensors :
         (IF DOMAIN meta = {} THEN m = 0 ELSE m \in DOMAIN meta /\ \A t \in DOMAIN meta : t <= m)
           => m = n
  BY <1>1, ConstantFacts
<1>. QED BY <1>1, <1>2 DEF EndOf

LEMMA EndOfNone == ASSUME NEW meta, DOMAIN meta = {} PROVE EndOf(meta) = 0
<1>1. 0 \in 0 .. NumTensors
  BY ConstantFacts
<1>. QED BY <1>1 DEF EndOf

\* A tensor goes behind the others of a bucket ...
LEMMA PlacedWell ==
  ASSUME NEW size \in [Tensors -> 1 .. BucketSize], NEW meta \in Metas, NEW end \in 0 .. BucketSize,
         NEW t \in Tensors, t \notin DOMAIN meta, WellPlaced(size, meta, end), end + size[t] <= BucketSize
  PROVE  /\ WellPlaced(size, Placed(meta, t, end), end + size[t])
         /\ Placed(meta, t, end) \in Metas
         /\ end \in Cells /\ end + size[t] \in 0 .. BucketSize
<1>1. PICK S \in SUBSET Tensors : meta \in [S -> Cells]
  BY DEF Metas
<1>2. /\ DOMAIN meta = S /\ \A s \in S : meta[s] \in Nat /\ size[s] \in Nat /\ size[s] >= 1
      /\ size[t] \in Nat /\ size[t] >= 1 /\ end + size[t] <= BucketSize /\ end \in Nat
  BY <1>1, ConstantFacts
<1>3. end \in Cells /\ end + size[t] \in 0 .. BucketSize
  BY <1>2, ConstantFacts
<1> DEFINE new == Placed(meta, t, end)
<1>4. /\ DOMAIN new = S \union {t} /\ new[t] = end
      /\ \A s \in S : s # t /\ new[s] = meta[s]
  BY <1>2 DEF Placed
<1>5. new \in Metas
  <2>1. new \in [S \union {t} -> Cells]
    BY <1>1, <1>3 DEF Placed
  <2>2. S \union {t} \in SUBSET Tensors
    OBVIOUS
  <2>. QED BY <2>1, <2>2 DEF Metas
<1> HIDE DEF new
<1>6. \A s \in S : meta[s] + size[s] <= end
  BY <1>2 DEF WellPlaced
<1>7. \A s \in DOMAIN new : new[s] + size[s] <= end + size[t]
  <2>1. ASSUME NEW s \in S PROVE new[s] + size[s] <= end + size[t]
    BY <1>2, <1>4, <1>6
  <2>. QED BY <1>2, <1>4, <2>1
<1>8. ASSUME NEW s \in DOMAIN new, NEW u \in DOMAIN new, s # u
      PROVE  new[s] + size[s] <= new[u] \/ new[u] + size[u] <= new[s]
  <2>1. CASE s \in S /\ u \in S
    BY <1>2, <1>4, <1>8, <2>1 DEF WellPlaced
  <2>2. CASE s = t \/ u = t
    BY <1>4, <1>6, <1>8, <2>2
  <2>. QED BY <1>4, <2>1, <2>2
<1>9. DOMAIN new # {} /\ end + size[t] <= BucketSize
  BY <1>2, <1>4
<1>. QED BY <1>3, <1>5, <1>7, <1>8, <1>9 DEF WellPlaced, new

\* ... with its write behind the others.
LEMMA PlacedPacked ==
  ASSUME NEW size, NEW buffer, NEW meta, NEW D, NEW writes \in Seq(D), NEW t, NEW at, NEW w,
         t \notin DOMAIN meta, w.tensor = t, w.offset = at, Packed(size, buffer, meta, writes)
  PROVE  Packed(size, buffer, Placed(meta, t, at), Append(writes, w))
<1> DEFINE new == Placed(meta, t, at)
           all == Append(writes, w)
<1>1. /\ DOMAIN new = DOMAIN meta \union {t} /\ new[t] = at
      /\ \A s \in DOMAIN meta : s # t /\ new[s] = meta[s]
  BY DEF Placed
<1>2. /\ DOMAIN all = DOMAIN writes \union {Len(writes) + 1} /\ all[Len(writes) + 1] = w
      /\ \A i \in DOMAIN writes : all[i] = writes[i]
  BY AppendIndices
<1> HIDE DEF new, all
<1>3. \A i \in DOMAIN all : all[i].tensor \in DOMAIN new /\ all[i].offset = new[all[i].tensor]
  BY <1>1, <1>2 DEF Packed
<1>4. ASSUME NEW s \in DOMAIN new
      PROVE  InPlace(size, buffer, new[s], s) \/ \E i \in DOMAIN all : all[i].tensor = s
  <2>1. CASE s = t
    BY <1>2, <2>1
  <2>2. CASE s \in DOMAIN meta
    BY <1>1, <1>2, <2>2 DEF Packed
  <2>. QED BY <1>1, <2>1, <2>2
<1>. QED BY <1>3, <1>4 DEF Packed, new, all

\* The device executes the first write: its tensor is in place then, and the
\* others are not touched.
LEMMA WriteFirst ==
  ASSUME NEW meta \in Metas, NEW end \in 0 .. BucketSize, NEW D, NEW writes \in Seq(D), writes # <<>>,
         NEW size \in [Tensors -> 1 .. BucketSize], WellPlaced(size, meta, end),
         NEW buffer, NEW after, Packed(size, buffer, meta, writes),
         \A c \in Cells : after[c] = IF c \in Span(size, Head(writes).offset, Head(writes).tensor)
                                     THEN Head(writes).tensor ELSE buffer[c]
  PROVE  Packed(size, after, meta, Tail(writes))
<1> DEFINE rest == Tail(writes)
           w    == Head(writes)
           t    == w.tensor
<1>1. PICK S \in SUBSET Tensors : meta \in [S -> Cells]
  BY DEF Metas
<1>2. /\ 1 \in DOMAIN writes /\ w = writes[1]
      /\ \A i \in DOMAIN rest : i + 1 \in DOMAIN writes /\ rest[i] = writes[i + 1]
      /\ \A j \in DOMAIN writes : j # 1 => j - 1 \in DOMAIN rest /\ rest[j - 1] = writes[j]
  BY TailIndices
<1>3. t \in DOMAIN meta /\ w.offset = meta[t]
  BY <1>2 DEF Packed
<1> HIDE DEF rest, w
<1>4. /\ DOMAIN meta = S
      /\ \A s \in S : meta[s] \in Nat /\ size[s] \in Nat /\ size[s] >= 1
                      /\ meta[s] + size[s] <= BucketSize
  BY <1>1, ConstantFacts DEF WellPlaced
<1>5. \A s \in S : Span(size, meta[s], s) \subseteq Cells
  BY <1>4, ConstantFacts DEF Span
<1>6. InPlace(size, after, meta[t], t)
  BY <1>3, <1>4, <1>5 DEF InPlace, w
<1>7. ASSUME NEW s \in S, s # t, InPlace(size, buffer, meta[s], s)
      PROVE  InPlace(size, after, meta[s], s)
  <2>1. meta[s] + size[s] <= meta[t] \/ meta[t] + size[t] <= meta[s]
    BY <1>3, <1>4, <1>7 DEF WellPlaced
  <2>2. Span(size, meta[s], s) \intersect Span(size, meta[t], t) = {}
    BY <1>3, <1>4, <2>1 DEF Span
  <2>. QED BY <1>3, <1>5, <1>7, <2>2 DEF InPlace, w
<1>8. \A i \in DOMAIN rest : rest[i].tensor \in DOMAIN meta /\ rest[i].offset = meta[rest[i].tensor]
  BY <1>2 DEF Packed
<1>9. ASSUME NEW s \in DOMAIN meta
      PROVE  InPlace(size, after, meta[s], s) \/ \E i \in DOMAIN rest : rest[i].tensor = s
  <2>1. CASE s = t
    BY <1>6, <2>1
  <2>2. CASE s # t /\ InPlace(size, buffer, meta[s], s)
    BY <1>4, <1>7, <2>2
  <2>3. CASE s # t /\ \E j \in DOMAIN writes : writes[j].tensor = s
    <3>1. PICK j \in DOMAIN writes : writes[j].tensor = s
      BY <2>3
    <3>2. j # 1
      BY <1>2, <2>3, <3>1
    <3>. QED BY <1>2, <3>1, <3>2
  <2>. QED BY <2>1, <2>2, <2>3 DEF Packed
<1>. QED BY <1>8, <1>9 DEF Packed, rest

\* When the device has nothing left to write, the bucket is complete.
LEMMA NothingLeft ==
  ASSUME NEW size, NEW buffer, NEW meta, Packed(size, buffer, meta, <<>>)
  PROVE  Holds(size, buffer, meta)
BY DEF Packed, Holds

-----------------------------------------------------------------------------
(* The invariant *)

\* Rank 0 has sent the buckets up to that of its latest operation, whose buffer it
\* does not fill while there are buckets to come.
SenderInv ==
    LET sent == EndOf(broadcast_op.metadata.bucket_meta) IN
    /\ WellPlaced(nbytes, bucket_meta, offset)
    /\ Packed(nbytes, send_bufs[send_buf], bucket_meta, fills)
    /\ \A i \in DOMAIN fills : fills[i].buf = send_buf
    /\ Holds(nbytes, send_bufs[broadcast_op.buf], broadcast_op.metadata.bucket_meta)
    /\ IF broadcast_op.metadata.is_last
       THEN /\ filled = NumTensors /\ sent = NumTensors
            /\ fills = <<>>
       ELSE /\ DOMAIN bucket_meta = sent + 1 .. filled
            /\ sent \in Nat /\ sent <= filled /\ sent < NumTensors
            /\ \/ broadcast_op.buf = Other(send_buf)
               \/ broadcast_op.metadata = NoMessage

StageInv ==
    /\ broadcast_op.stage \in {"none", "complete"} => broadcast_op.missing = {}
    /\ broadcast_op.stage = "meta" => broadcast_op.missing = Receivers

\* The last message whose bucket has reached a receiver
Latest(r) == IF recv_op[r] = "complete" THEN op_meta[r] ELSE metadata[r]

\* That is the latest of rank 0, or the one before it.
InStep(r) ==
    IF r \in broadcast_op.missing
    THEN /\ Bucket(broadcast_op.metadata.bucket_meta, EndOf(Latest(r).bucket_meta))
         /\ ~Latest(r).is_last
         /\ \/ /\ recv_op[r] \in {"meta", "complete"}
               /\ inbox[r] = IF broadcast_op.stage = "meta" THEN <<>> ELSE <<broadcast_op.metadata>>
            \/ /\ recv_op[r] = "data" /\ op_meta[r] = broadcast_op.metadata
               /\ broadcast_op.stage = "data" /\ inbox[r] = <<>>
    ELSE /\ Latest(r) = broadcast_op.metadata
         /\ inbox[r] = <<>>
         /\ recv_op[r] \in {"complete", IF broadcast_op.metadata.is_last THEN "none" ELSE "meta"}

\* The bucket that has come follows the one being yielded ...
NextBucketInv(r) ==
    recv_op[r] = "complete" =>
        /\ Bucket(op_meta[r].bucket_meta, EndOf(metadata[r].bucket_meta))
        /\ ~metadata[r].is_last
        /\ Holds(nbytes, recv_bufs[r][recv_buf[r]], op_meta[r].bucket_meta)
        /\ op_meta[r].is_last => EndOf(op_meta[r].bucket_meta) = NumTensors

\* ... and nothing is received into the buffer of the latter.
YieldInv(r) ==
    /\ \/ metadata[r] = NoMessage /\ got[r] = 0
       \/ \E n \in 0 .. NumTensors :
             /\ Bucket(metadata[r].bucket_meta, n)
             /\ got[r] \in n .. EndOf(metadata[r].bucket_meta)
    /\ Holds(nbytes, recv_bufs[r][Other(recv_buf[r])], metadata[r].bucket_meta)
    /\ metadata[r].is_last => EndOf(metadata[r].bucket_meta) = NumTensors

ReceiverInv(r) == InStep(r) /\ NextBucketInv(r) /\ YieldInv(r)

\* The copies into the shared buffer come out of the bucket being yielded, and are
\* done before the shared buffer is handed over, which is never empty.
AdapterInv(r) ==
    /\ WellPlaced(nbytes, ipc_meta[r], ipc_offset[r])
    /\ Packed(nbytes, ipc_buf[r], ipc_meta[r], copies[r])
    /\ \A i \in DOMAIN copies[r] :
          /\ copies[r][i].buf = Other(recv_buf[r])
          /\ copies[r][i].tensor \in DOMAIN metadata[r].bucket_meta
          /\ copies[r][i].at = metadata[r].bucket_meta[copies[r][i].tensor]
    /\ ipc_state[r] # "fill" => copies[r] = <<>>
    /\ ipc_state[r] = "sent" => DOMAIN ipc_meta[r] # {}
    /\ ipc_state[r] = "fill" /\ DOMAIN ipc_meta[r] = {} => got[r] < NumTensors
    /\ ipc_state[r] = "sent" /\ ~ipc_last[r] => got[r] < NumTensors

\* The inference worker has loaded n tensors and cloned those up to the m-th; the
\* shared buffer is for the ones after them.
WorkerAt(r, n, m) ==
    /\ loaded[r] = Stream!Prefix(n)
    /\ IF worker[r] \in {"reply", "load"}
       THEN n < m /\ clones[r] = [t \in n + 1 .. m |-> t]
       ELSE m = n
    /\ m <= got[r]
    /\ worker[r] = "reply" => ipc_state[r] = "sent" /\ m = got[r]
    /\ worker[r] # "reply" /\ ipc_state[r] # "closed" => DOMAIN ipc_meta[r] = m + 1 .. got[r]
    /\ ipc_state[r] = "closed" => worker[r] \in {"load", "done"}
    /\ worker[r] = "done" => ipc_state[r] = "closed"

WorkerInv(r) == \E n, m \in 0 .. NumTensors : WorkerAt(r, n, m)

Inv ==
    /\ TypeOK /\ SenderInv /\ StageInv
    /\ \A r \in Receivers : ReceiverInv(r) /\ AdapterInv(r) /\ WorkerInv(r)

LEMMA NoTensorsFacts ==
  /\ DOMAIN NoTensors = {} /\ NoTensors \in Metas /\ NoTensors \in Tensored
  /\ EndOf(NoTensors) = 0 /\ NoMessage \in Messages
  /\ NoMessage.bucket_meta = NoTensors /\ NoMessage.is_last = FALSE
<1>1. DOMAIN NoTensors = {} /\ \A S : NoTensors \in [{} -> S]
  BY DEF NoTensors
<1>2. NoTensors \in Metas /\ NoTensors \in Tensored
  BY <1>1 DEF Metas, Tensored
<1>3. EndOf(NoTensors) = 0
  BY <1>1, EndOfNone
<1>. QED BY <1>1, <1>2, <1>3 DEF NoMessage, Message, Messages

LEMMA NothingPacked ==
  ASSUME NEW size, NEW buffer
  PROVE  /\ WellPlaced(size, NoTensors, 0) /\ Packed(size, buffer, NoTensors, <<>>)
         /\ Holds(size, buffer, NoTensors)
BY NoTensorsFacts, ConstantFacts DEF WellPlaced, Packed, Holds

LEMMA OtherFacts == \A b \in {1, 2} : Other(b) \in {1, 2} /\ Other(b) # b /\ Other(Other(b)) = b
BY DEF Other

LEMMA InitInv == Init => Inv
<1> SUFFICES ASSUME Init PROVE Inv
  OBVIOUS
<1>1. Empty \in Buffers
  BY DEF Empty, Buffers
<1>2. /\ 0 \in 0 .. NumTensors /\ 0 \in 0 .. BucketSize /\ 0 < NumTensors /\ 0 \in Nat
      /\ 1 .. 0 = {} /\ 0 + 1 .. 0 = {}
  BY ConstantFacts
<1>3. EngineTypeOK
  BY <1>1, <1>2, NoTensorsFacts DEF Init, EngineInit, EngineTypeOK
<1>4. TransferTypeOK
  BY <1>1, <1>2, NoTensorsFacts DEF Init, TransferInit, TransferTypeOK
<1>5. SenderInv
  <2>1. /\ filled = 0 /\ offset = 0 /\ bucket_meta = NoTensors /\ fills = <<>>
        /\ broadcast_op.metadata = NoMessage
    BY DEF Init, EngineInit
  <2>2. /\ DOMAIN bucket_meta = EndOf(broadcast_op.metadata.bucket_meta) + 1 .. filled
        /\ EndOf(broadcast_op.metadata.bucket_meta) = 0 /\ ~broadcast_op.metadata.is_last
    BY <1>2, <2>1, NoTensorsFacts
  <2>. QED BY <1>2, <2>1, <2>2, NoTensorsFacts, NothingPacked DEF SenderInv
<1>6. StageInv
  BY DEF Init, EngineInit, StageInv
<1>7. ASSUME NEW r \in Receivers PROVE ReceiverInv(r) /\ AdapterInv(r)
  BY <1>2, NoTensorsFacts, NothingPacked, ConstantFacts
  DEF Init, EngineInit, TransferInit, ReceiverInv, InStep, Latest, NextBucketInv, YieldInv, AdapterInv
<1>8. ASSUME NEW r \in Receivers PROVE WorkerInv(r)
  <2>1. Stream!Prefix(0) = NoTensors
    BY DEF Stream!Prefix, NoTensors
  <2>2. WorkerAt(r, 0, 0)
    BY <1>2, <2>1, NoTensorsFacts DEF Init, EngineInit, TransferInit, WorkerAt
  <2>. QED BY <1>2, <2>2 DEF WorkerInv
<1>. QED BY <1>3, <1>4, <1>5, <1>6, <1>7, <1>8 DEF Init, TypeOK, Inv

-----------------------------------------------------------------------------
(* What a step leaves alone *)

LEMMA SenderFrame ==
  ASSUME SenderInv, UNCHANGED <<nbytes, filled, offset, bucket_meta, send_buf, send_bufs, fills>>,
         broadcast_op'.metadata = broadcast_op.metadata, broadcast_op'.buf = broadcast_op.buf
  PROVE  SenderInv'
BY DEF SenderInv

LEMMA ReceiverFrame ==
  ASSUME NEW r \in Receivers, ReceiverInv(r), UNCHANGED <<nbytes, broadcast_op>>,
         UNCHANGED <<inbox[r], recv_op[r], op_meta[r], metadata[r], recv_bufs[r], recv_buf[r], got[r]>>
  PROVE  ReceiverInv(r)'
BY DEF ReceiverInv, InStep, Latest, NextBucketInv, YieldInv

\* What a receiver has, and where it yields from
LEMMA ReceivedFrame ==
  ASSUME NEW r \in Receivers, ReceiverInv(r), UNCHANGED nbytes,
         UNCHANGED <<recv_op[r], op_meta[r], metadata[r], recv_bufs[r], recv_buf[r], got[r]>>
  PROVE  NextBucketInv(r)' /\ YieldInv(r)' /\ Latest(r)' = Latest(r)
BY DEF ReceiverInv, Latest, NextBucketInv, YieldInv

LEMMA AdapterFrame ==
  ASSUME NEW r \in Receivers, AdapterInv(r), UNCHANGED nbytes,
         UNCHANGED <<ipc_meta[r], ipc_offset[r], ipc_buf[r], copies[r], ipc_state[r], ipc_last[r]>>,
         UNCHANGED <<recv_buf[r], metadata[r], got[r]>>
  PROVE  AdapterInv(r)'
BY DEF AdapterInv

LEMMA WorkerFrame ==
  ASSUME NEW r \in Receivers, WorkerInv(r),
         UNCHANGED <<loaded[r], clones[r], worker[r], ipc_state[r], ipc_meta[r], got[r]>>
  PROVE  WorkerInv(r)'
BY DEF WorkerInv, WorkerAt

\* Nothing is done by any receiver, its adapter or its inference worker.
LEMMA ReceiversFrame ==
  ASSUME Inv, UNCHANGED <<nbytes, receiverVars, recv_bufs, recv_op, op_meta, ipcVars>>
  PROVE  \A r \in Receivers : /\ NextBucketInv(r)' /\ YieldInv(r)' /\ Latest(r)' = Latest(r)
                              /\ AdapterInv(r)' /\ WorkerInv(r)'
<1> SUFFICES ASSUME NEW r \in Receivers
             PROVE  /\ NextBucketInv(r)' /\ YieldInv(r)' /\ Latest(r)' = Latest(r)
                    /\ AdapterInv(r)' /\ WorkerInv(r)'
  OBVIOUS
<1>1. /\ UNCHANGED nbytes
      /\ UNCHANGED <<recv_op[r], op_meta[r], metadata[r], recv_bufs[r], recv_buf[r], got[r]>>
      /\ UNCHANGED <<ipc_meta[r], ipc_offset[r], ipc_buf[r], copies[r], ipc_state[r], ipc_last[r]>>
      /\ UNCHANGED <<loaded[r], clones[r], worker[r]>>
  BY DEF receiverVars, ipcVars
<1>. QED BY <1>1, ReceivedFrame, AdapterFrame, WorkerFrame DEF Inv

-----------------------------------------------------------------------------
(* Rank 0 *)

\* The types that the steps of the engine rely on
LEMMA EngineTypes ==
  ASSUME Inv
  PROVE  /\ nbytes \in [Tensors -> 1 .. BucketSize]
         /\ filled \in 0 .. NumTensors /\ offset \in 0 .. BucketSize
         /\ bucket_meta \in Metas /\ send_buf \in {1, 2}
         /\ send_bufs \in [{1, 2} -> Buffers]
         /\ fills \in Seq([tensor : Tensors, buf : {1, 2}, offset : Cells])
         /\ broadcast_op \in [stage : {"none", "meta", "data", "complete"}, buf : {1, 2},
                              metadata : Messages, missing : SUBSET Receivers]
         /\ inbox \in [Receivers -> Seq(Messages)]
BY DEF Inv, TypeOK, EngineTypeOK

LEMMA FillBucketInv ==
  ASSUME Inv, FillBucket, UNCHANGED <<nbytes, inbox, recv_bufs, recv_op, op_meta, receiverVars, ipcVars>>
  PROVE  Inv'
<1> DEFINE t == filled + 1
           w == [tensor |-> t, buf |-> send_buf, offset |-> offset]
<1>1. /\ t \in Tensors /\ offset + nbytes[t] <= BucketSize
      /\ bucket_meta' = Placed(bucket_meta, t, offset) /\ fills' = Append(fills, w)
      /\ offset' = offset + nbytes[t] /\ filled' = t
      /\ UNCHANGED <<send_buf, send_bufs, broadcast_op>>
  BY DEF FillBucket, Fits
<1>2. ~broadcast_op.metadata.is_last
  BY <1>1, ConstantFacts DEF Inv, SenderInv
<1>3. /\ DOMAIN bucket_meta = EndOf(broadcast_op.metadata.bucket_meta) + 1 .. filled
      /\ EndOf(broadcast_op.metadata.bucket_meta) \in Nat
      /\ EndOf(broadcast_op.metadata.bucket_meta) <= filled
      /\ EndOf(broadcast_op.metadata.bucket_meta) < NumTensors
      /\ broadcast_op.buf = Other(send_buf) \/ broadcast_op.metadata = NoMessage
      /\ Holds(nbytes, send_bufs[broadcast_op.buf], broadcast_op.metadata.bucket_meta)
      /\ WellPlaced(nbytes, bucket_meta, offset)
      /\ Packed(nbytes, send_bufs[send_buf], bucket_meta, fills)
      /\ \A i \in DOMAIN fills : fills[i].buf = send_buf
  BY <1>2 DEF Inv, SenderInv
<1>4. t \notin DOMAIN bucket_meta /\ filled \in Nat
  BY <1>3, EngineTypes, ConstantFacts
<1> HIDE DEF t
<1>5. /\ WellPlaced(nbytes, bucket_meta', offset') /\ bucket_meta' \in Metas
      /\ offset \in Cells /\ offset' \in 0 .. BucketSize
  BY <1>1, <1>3, <1>4, PlacedWell, EngineTypes
<1>6. Packed(nbytes, send_bufs[send_buf], bucket_meta', fills')
  <2>1. w.tensor = t /\ w.offset = offset
    OBVIOUS
  <2> HIDE DEF w
  <2>. QED BY <1>1, <1>3, <1>4, <2>1, PlacedPacked, EngineTypes
<1>7. /\ fills' \in Seq([tensor : Tensors, buf : {1, 2}, offset : Cells])
      /\ \A i \in DOMAIN fills' : fills'[i].buf = send_buf
  <2>1. w \in [tensor : Tensors, buf : {1, 2}, offset : Cells] /\ w.buf = send_buf
    BY <1>1, <1>5, EngineTypes
  <2> HIDE DEF w
  <2>2. /\ DOMAIN fills' = DOMAIN fills \union {Len(fills) + 1} /\ fills'[Len(fills) + 1] = w
        /\ \A i \in DOMAIN fills : fills'[i] = fills[i]
    BY <1>1, EngineTypes, AppendIndices
  <2>. QED BY <1>1, <1>3, <2>1, <2>2, EngineTypes
<1>8. SenderInv'
  <2>1. DOMAIN bucket_meta' = DOMAIN bucket_meta \union {t}
    BY <1>1 DEF Placed
  <2>2. DOMAIN bucket_meta' = EndOf(broadcast_op.metadata.bucket_meta) + 1 .. t /\ filled <= t
    BY <1>3, <1>4, <2>1 DEF t
  <2>. QED BY <1>1, <1>2, <1>3, <1>4, <1>5, <1>6, <1>7, <2>2 DEF SenderInv, t
<1>9. TypeOK'
  <2>1. t \in 0 .. NumTensors
    BY <1>1, ConstantFacts
  <2>. QED BY <1>1, <1>5, <1>7, <2>1 DEF Inv, TypeOK, EngineTypeOK, TransferTypeOK, receiverVars, ipcVars
<1>10. \A r \in Receivers : ReceiverInv(r)' /\ AdapterInv(r)' /\ WorkerInv(r)'
  BY <1>1, ReceiversFrame DEF Inv, ReceiverInv, InStep
<1>. QED BY <1>1, <1>8, <1>9, <1>10 DEF Inv, StageInv

LEMMA StoreTensorInv ==
  ASSUME Inv, StoreTensor, UNCHANGED <<nbytes, inbox, recv_bufs, recv_op, op_meta, receiverVars, ipcVars>>
  PROVE  Inv'
<1> DEFINE f == Head(fills)
           b == send_bufs[f.buf]
<1>1. /\ fills # <<>> /\ fills' = Tail(fills)
      /\ send_bufs' = [send_bufs EXCEPT ![f.buf] = Stored(b, f.offset, f.tensor)]
      /\ UNCHANGED <<filled, offset, bucket_meta, send_buf, broadcast_op>>
  BY DEF StoreTensor
<1>2. /\ f \in [tensor : Tensors, buf : {1, 2}, offset : Cells] /\ f.buf = send_buf
      /\ Tail(fills) \in Seq([tensor : Tensors, buf : {1, 2}, offset : Cells])
      /\ \A i \in DOMAIN Tail(fills) : Tail(fills)[i].buf = send_buf
  <2> DEFINE D == [tensor : Tensors, buf : {1, 2}, offset : Cells]
  <2>1. fills \in Seq(D) /\ \A i \in DOMAIN fills : fills[i].buf = send_buf
    BY EngineTypes DEF Inv, SenderInv
  <2> HIDE DEF D
  <2>2. /\ Tail(fills) \in Seq(D) /\ 1 \in DOMAIN fills /\ f = fills[1]
        /\ \A i \in DOMAIN Tail(fills) : i + 1 \in DOMAIN fills /\ Tail(fills)[i] = fills[i + 1]
    BY <1>1, <2>1, TailIndices
  <2>3. f \in D
    BY <2>1, <2>2
  <2>. QED BY <2>1, <2>2, <2>3 DEF D
<1> HIDE DEF f
<1>3. /\ send_bufs' \in [{1, 2} -> Buffers]
      /\ send_bufs'[send_buf] = Stored(send_bufs[send_buf], f.offset, f.tensor)
      /\ \A c \in {1, 2} : c # send_buf => send_bufs'[c] = send_bufs[c]
  <2>1. Stored(b, f.offset, f.tensor) \in Buffers
    BY <1>2, EngineTypes DEF Stored, Buffers
  <2>. QED BY <1>1, <1>2, <2>1, EngineTypes
<1>4. Packed(nbytes, send_bufs'[send_buf], bucket_meta, Tail(fills))
  <2> DEFINE after == send_bufs'[send_buf]
  <2>1. \A c \in Cells : after[c] = IF c \in Span(nbytes, Head(fills).offset, Head(fills).tensor)
                                    THEN Head(fills).tensor ELSE send_bufs[send_buf][c]
    BY <1>3 DEF Stored, Place, Span, f
  <2> HIDE DEF after
  <2>2. WellPlaced(nbytes, bucket_meta, offset) /\ Packed(nbytes, send_bufs[send_buf], bucket_meta, fills)
    BY DEF Inv, SenderInv
  <2>3. Packed(nbytes, after, bucket_meta, Tail(fills))
    BY <1>1, <2>1, <2>2, EngineTypes, WriteFirst
  <2>. QED BY <2>3 DEF after
<1>5. SenderInv'
  <2>1. ~broadcast_op.metadata.is_last
    BY <1>1 DEF Inv, SenderInv
  <2>2. Holds(nbytes, send_bufs'[broadcast_op.buf], broadcast_op.metadata.bucket_meta)
    <3>1. CASE broadcast_op.buf = Other(send_buf)
      <4>1. send_bufs'[broadcast_op.buf] = send_bufs[broadcast_op.buf]
        BY <1>3, <3>1, EngineTypes, OtherFacts
      <4>. QED BY <4>1 DEF Inv, SenderInv
    <3>2. CASE broadcast_op.metadata = NoMessage
      BY <3>2, NoTensorsFacts, NothingPacked
    <3>. QED BY <2>1, <3>1, <3>2 DEF Inv, SenderInv
  <2>. QED BY <1>1, <1>2, <1>4, <2>1, <2>2 DEF Inv, SenderInv
<1>6. TypeOK'
  BY <1>1, <1>2, <1>3 DEF Inv, TypeOK, EngineTypeOK, TransferTypeOK, receiverVars, ipcVars
<1>7. \A r \in Receivers : ReceiverInv(r)' /\ AdapterInv(r)' /\ WorkerInv(r)'
  BY <1>1, ReceiversFrame DEF Inv, ReceiverInv, InStep
<1>. QED BY <1>1, <1>5, <1>6, <1>7 DEF Inv, StageInv

\* A new operation is awaited by receivers that are through with the one before.
LEMMA StartInv ==
  ASSUME Inv, NEW last \in BOOLEAN, StartBroadcast(last),
         ~broadcast_op.metadata.is_last, DOMAIN bucket_meta # {},
         UNCHANGED <<nbytes, inbox, recv_bufs, recv_op, op_meta, receiverVars, ipcVars>>
  PROVE  /\ broadcast_op' = [stage |-> "meta", buf |-> send_buf,
                             metadata |-> Message(bucket_meta, last), missing |-> Receivers]
         /\ UNCHANGED <<filled, fills, send_bufs>> /\ fills = <<>>
         /\ EndOf(bucket_meta) = filled
         /\ Holds(nbytes, send_bufs[send_buf], bucket_meta)
         /\ broadcast_op' \in [stage : {"none", "meta", "data", "complete"}, buf : {1, 2},
                               metadata : Messages, missing : SUBSET Receivers]
         /\ StageInv'
         /\ \A r \in Receivers : ReceiverInv(r)' /\ AdapterInv(r)' /\ WorkerInv(r)'
<1>1. /\ broadcast_op' = [stage |-> "meta", buf |-> send_buf,
                          metadata |-> Message(bucket_meta, last), missing |-> Receivers]
      /\ UNCHANGED <<filled, fills, send_bufs>> /\ fills = <<>> /\ Awaited
  BY DEF StartBroadcast
<1> DEFINE sent == EndOf(broadcast_op.metadata.bucket_meta)
<1>2. /\ DOMAIN bucket_meta = sent + 1 .. filled /\ sent \in Nat /\ sent < NumTensors
      /\ Packed(nbytes, send_bufs[send_buf], bucket_meta, fills)
  BY DEF Inv, SenderInv
<1> HIDE DEF sent
<1>3. EndOf(bucket_meta) = filled /\ filled \in sent + 1 .. NumTensors
  <2>1. filled \in sent + 1 .. NumTensors /\ sent \in 0 .. NumTensors
    BY <1>2, EngineTypes, ConstantFacts
  <2>. QED BY <1>2, <2>1, EndIs
<1>4. Holds(nbytes, send_bufs[send_buf], bucket_meta)
  BY <1>1, <1>2, NothingLeft
<1>5. /\ Message(bucket_meta, last) \in Messages
      /\ broadcast_op'.metadata.bucket_meta = bucket_meta /\ broadcast_op'.stage = "meta"
      /\ broadcast_op'.missing = Receivers
  BY <1>1, EngineTypes DEF Message, Messages
<1>6. broadcast_op' \in [stage : {"none", "meta", "data", "complete"}, buf : {1, 2},
                         metadata : Messages, missing : SUBSET Receivers]
  BY <1>1, <1>5, EngineTypes
<1>7. ASSUME NEW r \in Receivers PROVE InStep(r)'
  <2>1. r \notin broadcast_op.missing
    BY <1>1 DEF Awaited, Inv, StageInv
  <2>2. /\ Latest(r) = broadcast_op.metadata /\ inbox[r] = <<>> /\ recv_op[r] \in {"complete", "meta"}
    BY <2>1 DEF Inv, ReceiverInv, InStep
  <2>3. Latest(r)' = broadcast_op.metadata
    BY <2>2, ReceiversFrame
  <2>4. Bucket(bucket_meta, sent)
    BY <1>2, <1>3 DEF Bucket
  <2>. QED BY <1>5, <2>2, <2>3, <2>4 DEF InStep, sent
<1>. QED BY <1>1, <1>3, <1>4, <1>5, <1>6, <1>7, ReceiversFrame DEF StageInv, ReceiverInv

LEMMA SendBucketInv ==
  ASSUME Inv, SendBucket, UNCHANGED <<nbytes, inbox, recv_bufs, recv_op, op_meta, receiverVars, ipcVars>>
  PROVE  Inv'
<1>1. /\ filled < NumTensors /\ ~Fits(offset, filled + 1) /\ StartBroadcast(FALSE)
      /\ send_buf' = Other(send_buf) /\ bucket_meta' = NoTensors /\ offset' = 0
  BY DEF SendBucket
<1>2. ~broadcast_op.metadata.is_last /\ filled \in Nat
  <2>1. filled \in Nat /\ filled # NumTensors
    BY <1>1, EngineTypes, ConstantFacts
  <2>2. broadcast_op.metadata.is_last => filled = NumTensors
    BY DEF Inv, SenderInv
  <2>. QED BY <2>1, <2>2
<1>3. DOMAIN bucket_meta # {}
  <2>1. nbytes[filled + 1] \in 1 .. BucketSize
    BY <1>1, <1>2, EngineTypes, ConstantFacts
  <2>2. offset # 0
    BY <1>1, <2>1, ConstantFacts DEF Fits
  <2>. QED BY <2>2 DEF Inv, SenderInv, WellPlaced
<1>4. /\ broadcast_op' = [stage |-> "meta", buf |-> send_buf,
                          metadata |-> Message(bucket_meta, FALSE), missing |-> Receivers]
      /\ UNCHANGED <<filled, fills, send_bufs>> /\ fills = <<>>
      /\ EndOf(bucket_meta) = filled
      /\ Holds(nbytes, send_bufs[send_buf], bucket_meta)
      /\ broadcast_op' \in [stage : {"none", "meta", "data", "complete"}, buf : {1, 2},
                            metadata : Messages, missing : SUBSET Receivers]
      /\ StageInv'
      /\ \A r \in Receivers : ReceiverInv(r)' /\ AdapterInv(r)' /\ WorkerInv(r)'
  BY <1>1, <1>2, <1>3, StartInv
<1>5. /\ broadcast_op'.metadata.bucket_meta = bucket_meta /\ ~broadcast_op'.metadata.is_last
      /\ broadcast_op'.buf = send_buf
  BY <1>4 DEF Message
<1>6. SenderInv'
  <2>1. DOMAIN bucket_meta' = filled + 1 .. filled
    BY <1>1, <1>2, NoTensorsFacts
  <2>2. broadcast_op'.buf = Other(send_buf')
    BY <1>1, <1>5, EngineTypes, OtherFacts
  <2>3. /\ EndOf(broadcast_op'.metadata.bucket_meta) = filled
        /\ Holds(nbytes, send_bufs[broadcast_op'.buf], broadcast_op'.metadata.bucket_meta)
    BY <1>4, <1>5, Zenon
  <2>4. /\ WellPlaced(nbytes, bucket_meta', offset')
        /\ Packed(nbytes, send_bufs[send_buf'], bucket_meta', fills)
        /\ \A i \in DOMAIN fills : fills[i].buf = send_buf'
    BY <1>1, <1>4, NothingPacked
  <2> DEFINE sent == EndOf(broadcast_op.metadata.bucket_meta)
  <2>5. /\ DOMAIN bucket_meta' = sent' + 1 .. filled'
        /\ sent' \in Nat /\ sent' <= filled' /\ sent' < NumTensors
    <3>1. sent' = filled /\ filled' = filled
      BY <1>4, <2>3
    <3> HIDE DEF sent
    <3>. QED BY <1>1, <1>2, <2>1, <3>1
  <2>6. UNCHANGED <<nbytes, send_bufs, fills>>
    BY <1>4
  <2>. QED BY <1>5, <2>2, <2>3, <2>4, <2>5, <2>6, Zenon DEF SenderInv
<1>7. TypeOK'
  <2>1. offset' \in 0 .. BucketSize /\ send_buf' \in {1, 2} /\ bucket_meta' \in Metas
    BY <1>1, EngineTypes, OtherFacts, NoTensorsFacts, ConstantFacts
  <2>. QED BY <1>1, <1>4, <2>1 DEF Inv, TypeOK, EngineTypeOK, TransferTypeOK, receiverVars, ipcVars
<1>. QED BY <1>4, <1>6, <1>7 DEF Inv

LEMMA SendLastInv ==
  ASSUME Inv, SendLast, UNCHANGED <<nbytes, inbox, recv_bufs, recv_op, op_meta, receiverVars, ipcVars>>
  PROVE  Inv'
<1>1. /\ filled = NumTensors /\ ~broadcast_op.metadata.is_last /\ StartBroadcast(TRUE)
      /\ UNCHANGED <<send_buf, bucket_meta, offset>>
  BY DEF SendLast, LastFlag
<1>2. DOMAIN bucket_meta # {}
  <2>1. filled \in EndOf(broadcast_op.metadata.bucket_meta) + 1 .. filled
    BY <1>1, ConstantFacts DEF Inv, SenderInv
  <2>. QED BY <1>1, <2>1 DEF Inv, SenderInv
<1>3. /\ broadcast_op' = [stage |-> "meta", buf |-> send_buf,
                          metadata |-> Message(bucket_meta, TRUE), missing |-> Receivers]
      /\ UNCHANGED <<filled, fills, send_bufs>> /\ fills = <<>>
      /\ EndOf(bucket_meta) = filled
      /\ Holds(nbytes, send_bufs[send_buf], bucket_meta)
      /\ broadcast_op' \in [stage : {"none", "meta", "data", "complete"}, buf : {1, 2},
                            metadata : Messages, missing : SUBSET Receivers]
      /\ StageInv'
      /\ \A r \in Receivers : ReceiverInv(r)' /\ AdapterInv(r)' /\ WorkerInv(r)'
  BY <1>1, <1>2, StartInv
<1>4. /\ broadcast_op'.metadata.bucket_meta = bucket_meta /\ broadcast_op'.metadata.is_last
      /\ broadcast_op'.buf = send_buf
  BY <1>3 DEF Message
<1>5. SenderInv'
  BY <1>1, <1>3, <1>4 DEF Inv, SenderInv
<1>6. TypeOK'
  BY <1>1, <1>3 DEF Inv, TypeOK, EngineTypeOK, TransferTypeOK, receiverVars, ipcVars
<1>. QED BY <1>3, <1>5, <1>6 DEF Inv

-----------------------------------------------------------------------------
(* The operations *)

LEMMA ReceiverTypes ==
  ASSUME Inv
  PROVE  /\ recv_buf \in [Receivers -> {1, 2}]
         /\ recv_bufs \in [Receivers -> [{1, 2} -> Buffers]]
         /\ recv_op \in [Receivers -> {"none", "meta", "data", "complete"}]
         /\ op_meta \in [Receivers -> Messages] /\ metadata \in [Receivers -> Messages]
         /\ got \in [Receivers -> 0 .. NumTensors]
BY DEF Inv, TypeOK, EngineTypeOK

LEMMA PublishInv ==
  ASSUME Inv, Publish, UNCHANGED ipcVars
  PROVE  Inv'
<1>1. /\ broadcast_op.stage = "meta" /\ broadcast_op' = [broadcast_op EXCEPT !.stage = "data"]
      /\ inbox' = [r \in Receivers |-> Append(inbox[r], broadcast_op.metadata)]
      /\ UNCHANGED <<nbytes, filled, offset, bucket_meta, send_buf, fills, send_bufs, receiverVars,
                     recv_bufs, recv_op, op_meta>>
  BY DEF Publish, senderVars
<1>2. /\ broadcast_op'.stage = "data" /\ broadcast_op'.metadata = broadcast_op.metadata
      /\ broadcast_op'.buf = broadcast_op.buf /\ broadcast_op'.missing = broadcast_op.missing
      /\ broadcast_op.metadata \in Messages
      /\ broadcast_op' \in [stage : {"none", "meta", "data", "complete"}, buf : {1, 2},
                            metadata : Messages, missing : SUBSET Receivers]
  BY <1>1, EngineTypes
<1>3. broadcast_op.missing = Receivers
  BY <1>1 DEF Inv, StageInv
<1>4. ASSUME NEW r \in Receivers PROVE InStep(r)'
  <2>1. /\ Bucket(broadcast_op.metadata.bucket_meta, EndOf(Latest(r).bucket_meta))
        /\ ~Latest(r).is_last /\ recv_op[r] \in {"meta", "complete"} /\ inbox[r] = <<>>
    BY <1>1, <1>3 DEF Inv, ReceiverInv, InStep
  <2>2. inbox'[r] = <<broadcast_op.metadata>>
    <3>1. inbox'[r] = Append(<<>>, broadcast_op.metadata)
      BY <1>1, <2>1
    <3>2. \A x : Append(<<>>, x) = <<x>>
      OBVIOUS
    <3>. QED BY <3>1, <3>2
  <2>3. Latest(r)' = Latest(r)
    BY <1>1, ReceiversFrame
  <2>. QED BY <1>1, <1>2, <1>3, <2>1, <2>2, <2>3 DEF InStep
<1>5. inbox' \in [Receivers -> Seq(Messages)]
  BY <1>1, <1>2, EngineTypes
<1>6. TypeOK'
  BY <1>1, <1>2, <1>5 DEF Inv, TypeOK, EngineTypeOK, TransferTypeOK, receiverVars, ipcVars
<1>7. SenderInv' /\ StageInv'
  BY <1>1, <1>2, SenderFrame DEF Inv, StageInv
<1>. QED BY <1>1, <1>4, <1>6, <1>7, ReceiversFrame DEF Inv, ReceiverInv

LEMMA ReceiveMetaInv ==
  ASSUME Inv, NEW r \in Receivers, ReceiveMeta(r), UNCHANGED ipcVars
  PROVE  Inv'
<1>1. /\ recv_op[r] = "meta" /\ inbox[r] # <<>>
      /\ op_meta' = [op_meta EXCEPT ![r] = Head(inbox[r])]
      /\ inbox' = [inbox EXCEPT ![r] = Tail(inbox[r])]
      /\ recv_op' = [recv_op EXCEPT ![r] = "data"]
      /\ UNCHANGED <<nbytes, filled, offset, bucket_meta, send_buf, fills, send_bufs, broadcast_op,
                     recv_bufs, recv_buf, metadata, got>>
  BY DEF ReceiveMeta, senderVars, receiverVars
<1>2. /\ Bucket(broadcast_op.metadata.bucket_meta, EndOf(Latest(r).bucket_meta))
      /\ ~Latest(r).is_last /\ r \in broadcast_op.missing
      /\ inbox[r] = <<broadcast_op.metadata>> /\ broadcast_op.stage # "meta"
  BY <1>1 DEF Inv, ReceiverInv, InStep
<1>3. broadcast_op.stage = "data" /\ broadcast_op.metadata \in Messages
  BY <1>2, EngineTypes DEF Inv, StageInv
<1>4. Head(inbox[r]) = broadcast_op.metadata /\ Tail(inbox[r]) = <<>>
  BY <1>2
<1>5. /\ op_meta'[r] = broadcast_op.metadata /\ inbox'[r] = <<>> /\ recv_op'[r] = "data"
      /\ op_meta' \in [Receivers -> Messages] /\ inbox' \in [Receivers -> Seq(Messages)]
      /\ recv_op' \in [Receivers -> {"none", "meta", "data", "complete"}]
      /\ \A q \in Receivers : q # r =>
            UNCHANGED <<op_meta[q], inbox[q], recv_op[q]>>
  BY <1>1, <1>3, <1>4, EngineTypes, ReceiverTypes
<1>6. TypeOK'
  BY <1>1, <1>5 DEF Inv, TypeOK, EngineTypeOK, TransferTypeOK, ipcVars
<1>7. SenderInv' /\ StageInv'
  BY <1>1, SenderFrame DEF Inv, StageInv
<1>8. ReceiverInv(r)'
  <2>1. Latest(r)' = Latest(r)
    BY <1>1, <1>5 DEF Latest
  <2>2. InStep(r)'
    BY <1>1, <1>2, <1>3, <1>5, <2>1 DEF InStep
  <2>3. NextBucketInv(r)' /\ YieldInv(r)'
    BY <1>1, <1>5 DEF Inv, ReceiverInv, NextBucketInv, YieldInv
  <2>. QED BY <2>2, <2>3 DEF ReceiverInv
<1>9. ASSUME NEW q \in Receivers, q # r PROVE ReceiverInv(q)'
  BY <1>1, <1>5, <1>9, ReceiverFrame DEF Inv
<1>10. ASSUME NEW q \in Receivers PROVE AdapterInv(q)' /\ WorkerInv(q)'
  BY <1>1, AdapterFrame, WorkerFrame DEF Inv, ipcVars
<1>. QED BY <1>6, <1>7, <1>8, <1>9, <1>10 DEF Inv

LEMMA BroadcastInv ==
  ASSUME Inv, NEW r \in Receivers, Broadcast(r), UNCHANGED ipcVars
  PROVE  Inv'
<1> DEFINE bucket == send_bufs[broadcast_op.buf]
<1>1. /\ broadcast_op.stage = "data" /\ r \in broadcast_op.missing /\ recv_op[r] = "data"
      /\ recv_bufs' = [recv_bufs EXCEPT ![r][recv_buf[r]] = bucket]
      /\ recv_op' = [recv_op EXCEPT ![r] = "complete"]
      /\ broadcast_op' =
            [broadcast_op EXCEPT !.missing = broadcast_op.missing \ {r},
                                 !.stage = IF broadcast_op.missing = {r} THEN "complete" ELSE "data"]
      /\ UNCHANGED <<nbytes, filled, offset, bucket_meta, send_buf, fills, send_bufs, inbox, op_meta,
                     recv_buf, metadata, got>>
  BY DEF Broadcast, senderVars, receiverVars
<1>2. /\ broadcast_op'.metadata = broadcast_op.metadata /\ broadcast_op'.buf = broadcast_op.buf
      /\ broadcast_op'.missing = broadcast_op.missing \ {r}
      /\ broadcast_op'.stage = IF broadcast_op.missing = {r} THEN "complete" ELSE "data"
      /\ broadcast_op' \in [stage : {"none", "meta", "data", "complete"}, buf : {1, 2},
                            metadata : Messages, missing : SUBSET Receivers]
  BY <1>1, EngineTypes
<1>3. /\ Bucket(broadcast_op.metadata.bucket_meta, EndOf(metadata[r].bucket_meta))
      /\ ~metadata[r].is_last /\ op_meta[r] = broadcast_op.metadata /\ inbox[r] = <<>>
  BY <1>1 DEF Inv, ReceiverInv, InStep, Latest
<1>4. bucket \in Buffers
  BY EngineTypes
<1> HIDE DEF bucket
<1>5. /\ recv_op'[r] = "complete" /\ recv_bufs'[r][recv_buf[r]] = bucket
      /\ recv_bufs'[r][Other(recv_buf[r])] = recv_bufs[r][Other(recv_buf[r])]
      /\ recv_op' \in [Receivers -> {"none", "meta", "data", "complete"}]
      /\ recv_bufs' \in [Receivers -> [{1, 2} -> Buffers]]
      /\ \A q \in Receivers : q # r => UNCHANGED <<recv_op[q], recv_bufs[q]>>
  BY <1>1, <1>4, ReceiverTypes, OtherFacts
<1>6. TypeOK'
  BY <1>1, <1>2, <1>5 DEF Inv, TypeOK, EngineTypeOK, TransferTypeOK, ipcVars
<1>7. SenderInv'
  BY <1>1, <1>2, SenderFrame DEF Inv
<1>8. StageInv'
  BY <1>2 DEF StageInv
<1>9. ReceiverInv(r)'
  <2>1. Latest(r)' = broadcast_op.metadata
    BY <1>1, <1>3, <1>5 DEF Latest
  <2>2. InStep(r)'
    BY <1>1, <1>2, <1>3, <1>5, <2>1 DEF InStep
  <2>3. NextBucketInv(r)'
    <3>1. Holds(nbytes, bucket, broadcast_op.metadata.bucket_meta)
      BY DEF Inv, SenderInv, bucket
    <3>2. broadcast_op.metadata.is_last => EndOf(broadcast_op.metadata.bucket_meta) = NumTensors
      BY DEF Inv, SenderInv
    <3>. QED BY <1>1, <1>3, <1>5, <3>1, <3>2 DEF NextBucketInv
  <2>4. YieldInv(r)'
    BY <1>1, <1>5 DEF Inv, ReceiverInv, YieldInv
  <2>. QED BY <2>2, <2>3, <2>4 DEF ReceiverInv
<1>10. ASSUME NEW q \in Receivers, q # r PROVE ReceiverInv(q)'
  <2>1. NextBucketInv(q)' /\ YieldInv(q)' /\ Latest(q)' = Latest(q)
    BY <1>1, <1>5, <1>10, ReceivedFrame DEF Inv
  <2>2. q \in broadcast_op.missing => broadcast_op'.stage = broadcast_op.stage
    BY <1>1, <1>2, <1>10
  <2>3. InStep(q)
    BY DEF Inv, ReceiverInv
  <2>4. InStep(q)'
    BY <1>1, <1>2, <1>5, <1>10, <2>1, <2>2, <2>3 DEF InStep
  <2>. QED BY <2>1, <2>4 DEF ReceiverInv
<1>11. ASSUME NEW q \in Receivers PROVE AdapterInv(q)' /\ WorkerInv(q)'
  BY <1>1, AdapterFrame, WorkerFrame DEF Inv, ipcVars
<1>. QED BY <1>6, <1>7, <1>8, <1>9, <1>10, <1>11 DEF Inv

-----------------------------------------------------------------------------
(* The adapter of a receiver *)

LEMMA AdapterTypes ==
  ASSUME Inv
  PROVE  /\ copies \in [Receivers -> Seq([tensor : Tensors, buf : {1, 2}, at : Cells, offset : Cells])]
         /\ ipc_buf \in [Receivers -> Buffers]
         /\ ipc_offset \in [Receivers -> 0 .. BucketSize]
         /\ ipc_meta \in [Receivers -> Metas]
         /\ ipc_state \in [Receivers -> {"fill", "sent", "closed"}]
         /\ ipc_last \in [Receivers -> BOOLEAN]
         /\ worker \in [Receivers -> {"recv", "reply", "load", "done"}]
         /\ clones \in [Receivers -> Tensored] /\ loaded \in [Receivers -> Tensored]
BY DEF Inv, TypeOK, TransferTypeOK

\* A step of one receiver's adapter or worker leaves the others alone.
LEMMA OthersFrame ==
  ASSUME Inv, NEW r \in Receivers, UNCHANGED <<nbytes, broadcast_op, inbox, recv_bufs, op_meta>>,
         \A q \in Receivers : q # r =>
            /\ UNCHANGED <<recv_op[q], metadata[q], recv_buf[q], got[q]>>
            /\ UNCHANGED <<ipc_meta[q], ipc_offset[q], ipc_buf[q], copies[q], ipc_state[q], ipc_last[q]>>
            /\ UNCHANGED <<loaded[q], clones[q], worker[q]>>
  PROVE  \A q \in Receivers : q # r => ReceiverInv(q)' /\ AdapterInv(q)' /\ WorkerInv(q)'
<1> SUFFICES ASSUME NEW q \in Receivers, q # r PROVE ReceiverInv(q)' /\ AdapterInv(q)' /\ WorkerInv(q)'
  OBVIOUS
<1>1. ReceiverInv(q) /\ AdapterInv(q) /\ WorkerInv(q)
  BY DEF Inv
<1>2. UNCHANGED <<inbox[q], recv_bufs[q], op_meta[q]>>
  OBVIOUS
<1>. QED BY <1>1, <1>2, ReceiverFrame, AdapterFrame, WorkerFrame

\* The tensor at hand is in the buffer that nothing is received into.
LEMMA AtHand ==
  ASSUME Inv, NEW r \in Receivers, HasTensor(r)
  PROVE  /\ got[r] \in Nat /\ got[r] + 1 \in Tensors
         /\ got[r] + 1 <= EndOf(metadata[r].bucket_meta)
         /\ metadata[r].bucket_meta[got[r] + 1] \in Cells
         /\ metadata[r] # NoMessage
<1>1. got[r] + 1 \in DOMAIN metadata[r].bucket_meta /\ got[r] \in Nat
  BY ReceiverTypes, ConstantFacts DEF HasTensor
<1>2. metadata[r].bucket_meta \in Metas
  BY ReceiverTypes DEF Messages
<1>3. PICK S \in SUBSET Tensors : metadata[r].bucket_meta \in [S -> Cells]
  BY <1>2 DEF Metas
<1>4. metadata[r] # NoMessage
  BY <1>1, NoTensorsFacts
<1>5. PICK n \in 0 .. NumTensors : Bucket(metadata[r].bucket_meta, n)
  BY <1>4 DEF Inv, ReceiverInv, YieldInv
<1>6. got[r] + 1 <= EndOf(metadata[r].bucket_meta)
  BY <1>1, <1>5 DEF Bucket
<1>. QED BY <1>1, <1>3, <1>4, <1>6

LEMMA PullInv ==
  ASSUME Inv, NEW r \in Receivers, Pull(r)
  PROVE  Inv'
<1> DEFINE t  == got[r] + 1
           at == metadata[r].bucket_meta[t]
           w  == [tensor |-> t, buf |-> Other(recv_buf[r]), at |-> at, offset |-> ipc_offset[r]]
<1>1. /\ HasTensor(r) /\ ipc_state[r] = "fill" /\ ipc_offset[r] + nbytes[t] <= BucketSize
      /\ got' = [got EXCEPT ![r] = t]
      /\ copies' = [copies EXCEPT ![r] = Append(copies[r], w)]
      /\ ipc_meta' = [ipc_meta EXCEPT ![r] = Placed(ipc_meta[r], t, ipc_offset[r])]
      /\ ipc_offset' = [ipc_offset EXCEPT ![r] = ipc_offset[r] + nbytes[t]]
      /\ UNCHANGED <<nbytes, filled, offset, bucket_meta, send_buf, fills, send_bufs, broadcast_op,
                     inbox, recv_bufs, recv_op, op_meta, recv_buf, metadata>>
      /\ UNCHANGED <<ipc_buf, ipc_state, ipc_last, worker, clones, loaded>>
  BY DEF Pull, YieldTensor, PackTensor, Fits, senderVars
<1>2. /\ t \in Tensors /\ at \in Cells /\ t <= EndOf(metadata[r].bucket_meta) /\ metadata[r] # NoMessage
      /\ got[r] \in Nat /\ t \in 0 .. NumTensors
  BY <1>1, AtHand, ConstantFacts
<1>3. PICK n \in 0 .. NumTensors, m \in 0 .. NumTensors : WorkerAt(r, n, m)
  BY DEF Inv, WorkerInv
<1>4. DOMAIN ipc_meta[r] = m + 1 .. got[r] /\ m <= got[r]
  BY <1>1, <1>3 DEF WorkerAt
<1>5. t \notin DOMAIN ipc_meta[r]
  BY <1>2, <1>4
<1>6. /\ WellPlaced(nbytes, ipc_meta[r], ipc_offset[r])
      /\ Packed(nbytes, ipc_buf[r], ipc_meta[r], copies[r])
  BY DEF Inv, AdapterInv
<1>7. /\ t \in DOMAIN metadata[r].bucket_meta
      /\ DOMAIN Placed(ipc_meta[r], t, ipc_offset[r]) = m + 1 .. t
  <2>1. DOMAIN Placed(ipc_meta[r], t, ipc_offset[r]) = DOMAIN ipc_meta[r] \union {t}
    BY DEF Placed
  <2>2. (m + 1 .. got[r]) \union {got[r] + 1} = m + 1 .. got[r] + 1
    BY <1>2, <1>4
  <2>. QED BY <1>1, <1>4, <2>1, <2>2 DEF HasTensor
<1> HIDE DEF t, at
<1>8. /\ WellPlaced(nbytes, Placed(ipc_meta[r], t, ipc_offset[r]), ipc_offset[r] + nbytes[t])
      /\ Placed(ipc_meta[r], t, ipc_offset[r]) \in Metas
      /\ ipc_offset[r] \in Cells /\ ipc_offset[r] + nbytes[t] \in 0 .. BucketSize
  BY <1>1, <1>2, <1>5, <1>6, PlacedWell, EngineTypes, AdapterTypes
<1>9. /\ w.tensor = t /\ w.offset = ipc_offset[r] /\ w.at = at /\ w.buf = Other(recv_buf[r])
      /\ w \in [tensor : Tensors, buf : {1, 2}, at : Cells, offset : Cells]
  BY <1>2, <1>8, ReceiverTypes, OtherFacts
<1> HIDE DEF w
<1>10. /\ Packed(nbytes, ipc_buf[r], Placed(ipc_meta[r], t, ipc_offset[r]), Append(copies[r], w))
       /\ Append(copies[r], w) \in Seq([tensor : Tensors, buf : {1, 2}, at : Cells, offset : Cells])
  <2> DEFINE D == [tensor : Tensors, buf : {1, 2}, at : Cells, offset : Cells]
  <2>1. copies[r] \in Seq(D) /\ w \in D
    BY <1>9, AdapterTypes
  <2> HIDE DEF D
  <2>2. Packed(nbytes, ipc_buf[r], Placed(ipc_meta[r], t, ipc_offset[r]), Append(copies[r], w))
    BY <1>5, <1>6, <1>9, <2>1, PlacedPacked
  <2>3. Append(copies[r], w) \in Seq(D)
    BY <2>1
  <2>. QED BY <2>2, <2>3 DEF D
<1>11. /\ got'[r] = t /\ copies'[r] = Append(copies[r], w)
       /\ ipc_meta'[r] = Placed(ipc_meta[r], t, ipc_offset[r])
       /\ ipc_offset'[r] = ipc_offset[r] + nbytes[t]
       /\ \A q \in Receivers : q # r => UNCHANGED <<got[q], copies[q], ipc_meta[q], ipc_offset[q]>>
  BY <1>1, ReceiverTypes, AdapterTypes
<1>12. TypeOK'
  <2>1. got' \in [Receivers -> 0 .. NumTensors]
    BY <1>1, <1>2, ReceiverTypes
  <2>2. /\ copies' \in [Receivers -> Seq([tensor : Tensors, buf : {1, 2}, at : Cells, offset : Cells])]
        /\ ipc_meta' \in [Receivers -> Metas] /\ ipc_offset' \in [Receivers -> 0 .. BucketSize]
    BY <1>1, <1>8, <1>10, AdapterTypes
  <2>. QED BY <1>1, <2>1, <2>2 DEF Inv, TypeOK, EngineTypeOK, TransferTypeOK
<1>13. SenderInv' /\ StageInv'
  BY <1>1, SenderFrame DEF Inv, StageInv
<1>14. ReceiverInv(r)'
  <2>1. InStep(r)' /\ NextBucketInv(r)'
    BY <1>1 DEF Inv, ReceiverInv, InStep, Latest, NextBucketInv
  <2>2. PICK k \in 0 .. NumTensors :
           Bucket(metadata[r].bucket_meta, k) /\ got[r] \in k .. EndOf(metadata[r].bucket_meta)
    BY <1>2 DEF Inv, ReceiverInv, YieldInv
  <2>3. t \in k .. EndOf(metadata[r].bucket_meta)
    BY <1>2, <2>2 DEF t, Bucket
  <2>4. YieldInv(r)'
    BY <1>1, <1>11, <2>2, <2>3 DEF Inv, ReceiverInv, YieldInv
  <2>. QED BY <2>1, <2>4 DEF ReceiverInv
<1>15. AdapterInv(r)'
  <2>1. ASSUME NEW i \in DOMAIN copies'[r]
        PROVE  /\ copies'[r][i].buf = Other(recv_buf[r])
               /\ copies'[r][i].tensor \in DOMAIN metadata[r].bucket_meta
               /\ copies'[r][i].at = metadata[r].bucket_meta[copies'[r][i].tensor]
    <3>1. /\ DOMAIN copies'[r] = DOMAIN copies[r] \union {Len(copies[r]) + 1}
          /\ copies'[r][Len(copies[r]) + 1] = w
          /\ \A j \in DOMAIN copies[r] : copies'[r][j] = copies[r][j]
      BY <1>11, AdapterTypes, AppendIndices
    <3>2. CASE i \in DOMAIN copies[r]
      BY <3>1, <3>2 DEF Inv, AdapterInv
    <3>3. CASE i = Len(copies[r]) + 1
      BY <1>7, <1>9, <3>1, <3>3 DEF at
    <3>. QED BY <3>1, <3>2, <3>3
  <2>2. t \in m + 1 .. t
    BY <1>2, <1>4 DEF t
  <2>3. DOMAIN ipc_meta'[r] # {}
    BY <1>7, <1>11, <2>2
  <2>4. ipc_state'[r] = "fill"
    BY <1>1
  <2>. QED BY <1>1, <1>8, <1>10, <1>11, <2>1, <2>3, <2>4 DEF AdapterInv
<1>16. WorkerInv(r)'
  <2>1. m <= t
    BY <1>2, <1>4 DEF t
  <2>2. WorkerAt(r, n, m)'
    BY <1>1, <1>3, <1>7, <1>11, <2>1 DEF WorkerAt
  <2>. QED BY <2>2 DEF WorkerInv
<1>17. \A q \in Receivers : q # r => ReceiverInv(q)' /\ AdapterInv(q)' /\ WorkerInv(q)'
  BY <1>1, <1>11, OthersFrame
<1>. QED BY <1>12, <1>13, <1>14, <1>15, <1>16, <1>17 DEF Inv

\* Steps of the adapter and the inference worker that the engine does not notice
LEMMA EngineFrame ==
  ASSUME Inv, UNCHANGED <<nbytes, engineVars>>
  PROVE  /\ nbytes' \in [Tensors -> 1 .. BucketSize] /\ EngineTypeOK' /\ SenderInv' /\ StageInv'
         /\ \A q \in Receivers : ReceiverInv(q)'
<1>1. /\ UNCHANGED <<filled, offset, bucket_meta, send_buf, fills, send_bufs, broadcast_op>>
      /\ UNCHANGED <<inbox, recv_bufs, recv_op, op_meta, recv_buf, metadata, got>>
  BY DEF engineVars, senderVars, receiverVars
<1>2. nbytes' \in [Tensors -> 1 .. BucketSize] /\ EngineTypeOK'
  BY <1>1 DEF Inv, TypeOK, EngineTypeOK
<1>3. SenderInv' /\ StageInv'
  BY <1>1, SenderFrame DEF Inv, StageInv
<1>4. \A q \in Receivers : ReceiverInv(q)'
  BY <1>1, ReceiverFrame DEF Inv
<1>. QED BY <1>2, <1>3, <1>4

\* A bucket is exhausted with its last tensor.
LEMMA AllYielded ==
  ASSUME Inv, NEW r \in Receivers, ~HasTensor(r)
  PROVE  got[r] = EndOf(metadata[r].bucket_meta)
<1>1. CASE metadata[r] = NoMessage /\ got[r] = 0
  BY <1>1, NoTensorsFacts
<1>2. CASE \E n \in 0 .. NumTensors :
              /\ Bucket(metadata[r].bucket_meta, n)
              /\ got[r] \in n .. EndOf(metadata[r].bucket_meta)
  <2>1. PICK n \in 0 .. NumTensors :
               /\ Bucket(metadata[r].bucket_meta, n)
               /\ got[r] \in n .. EndOf(metadata[r].bucket_meta)
    BY <1>2
  <2> DEFINE k == EndOf(metadata[r].bucket_meta)
  <2>2. k \in n + 1 .. NumTensors /\ got[r] \in n .. k /\ got[r] + 1 \notin n + 1 .. k
    BY <2>1 DEF Bucket, HasTensor
  <2> HIDE DEF k
  <2>3. got[r] = k
    BY <2>2, ConstantFacts
  <2>. QED BY <2>3 DEF k
<1>. QED BY <1>1, <1>2 DEF Inv, ReceiverInv, YieldInv

LEMMA FlushInv ==
  ASSUME Inv, NEW r \in Receivers, Flush(r)
  PROVE  Inv'
<1>1. PICK last \in BOOLEAN :
         /\ IF last THEN Exhausted(r) ELSE HasTensor(r) /\ ~Fits(ipc_offset[r], got[r] + 1)
         /\ SendPyobj(r, last)
  BY DEF Flush
<1>2. /\ ipc_state[r] = "fill" /\ copies[r] = <<>>
      /\ ipc_state' = [ipc_state EXCEPT ![r] = "sent"]
      /\ ipc_last' = [ipc_last EXCEPT ![r] = last]
      /\ UNCHANGED <<copies, ipc_buf, ipc_offset, ipc_meta, worker, clones, loaded>>
      /\ UNCHANGED <<nbytes, engineVars>>
  BY <1>1 DEF Flush, SendPyobj, Synchronized
<1>3. UNCHANGED <<got, recv_buf, metadata, inbox, recv_op, op_meta, recv_bufs, broadcast_op>>
  BY <1>2 DEF engineVars, receiverVars
<1>4. /\ ipc_state'[r] = "sent" /\ ipc_last'[r] = last
      /\ ipc_state' \in [Receivers -> {"fill", "sent", "closed"}]
      /\ ipc_last' \in [Receivers -> BOOLEAN]
      /\ \A q \in Receivers : q # r => UNCHANGED <<ipc_state[q], ipc_last[q]>>
  BY <1>2, AdapterTypes
<1>5. TypeOK'
  BY <1>2, <1>4, EngineFrame DEF Inv, TypeOK, TransferTypeOK
<1>6. DOMAIN ipc_meta[r] # {} /\ (~last => got[r] < NumTensors)
  <2>1. CASE ~last
    <3>1. HasTensor(r) /\ ~Fits(ipc_offset[r], got[r] + 1)
      BY <1>1, <2>1
    <3>2. got[r] \in Nat /\ got[r] + 1 \in Tensors
      BY <3>1, AtHand
    <3>3. nbytes[got[r] + 1] \in 1 .. BucketSize
      BY <3>2, EngineTypes
    <3>4. ipc_offset[r] # 0
      BY <3>1, <3>3, ConstantFacts DEF Fits
    <3>5. DOMAIN ipc_meta[r] # {}
      BY <3>4 DEF Inv, AdapterInv, WellPlaced
    <3>. QED BY <3>2, <3>5, ConstantFacts
  <2>2. CASE last
    <3>1. ~HasTensor(r) /\ metadata[r].is_last
      BY <1>1, <2>2 DEF Exhausted
    <3>2. got[r] = NumTensors
      BY <3>1, AllYielded DEF Inv, ReceiverInv, YieldInv
    <3>. QED BY <1>2, <2>2, <3>2, ConstantFacts DEF Inv, AdapterInv
  <2>. QED BY <2>1, <2>2
<1>7. AdapterInv(r)'
  BY <1>2, <1>3, <1>4, <1>6 DEF Inv, AdapterInv
<1>8. WorkerInv(r)'
  <2>1. PICK n \in 0 .. NumTensors, m \in 0 .. NumTensors : WorkerAt(r, n, m)
    BY DEF Inv, WorkerInv
  <2>2. WorkerAt(r, n, m)'
    BY <1>2, <1>3, <1>4, <2>1 DEF WorkerAt
  <2>. QED BY <2>2 DEF WorkerInv
<1>9. \A q \in Receivers : q # r => AdapterInv(q)' /\ WorkerInv(q)'
  BY <1>2, <1>3, <1>4, OthersFrame
<1>. QED BY <1>2, <1>5, <1>7, <1>8, <1>9, EngineFrame DEF Inv

LEMMA SwapInv ==
  ASSUME Inv, NEW r \in Receivers, NextBucket(r)
  PROVE  Inv'
<1>1. /\ ipc_state[r] = "fill" /\ copies[r] = <<>> /\ ~HasTensor(r) /\ recv_op[r] = "complete"
      /\ metadata' = [metadata EXCEPT ![r] = op_meta[r]]
      /\ recv_buf' = [recv_buf EXCEPT ![r] = Other(recv_buf[r])]
      /\ recv_op' = [recv_op EXCEPT ![r] = IF op_meta[r].is_last THEN "none" ELSE "meta"]
      /\ UNCHANGED <<nbytes, filled, offset, bucket_meta, send_buf, fills, send_bufs, broadcast_op,
                     inbox, recv_bufs, op_meta, got>>
      /\ UNCHANGED <<copies, ipc_buf, ipc_offset, ipc_meta, ipc_state, ipc_last, worker, clones, loaded>>
  BY DEF NextBucket, SwapBuffers, Synchronized, senderVars, ipcVars
<1>2. /\ op_meta[r] \in Messages /\ Other(recv_buf[r]) \in {1, 2}
      /\ Other(Other(recv_buf[r])) = recv_buf[r]
  BY ReceiverTypes, OtherFacts
<1>3. /\ metadata'[r] = op_meta[r] /\ recv_buf'[r] = Other(recv_buf[r])
      /\ recv_op'[r] = IF op_meta[r].is_last THEN "none" ELSE "meta"
      /\ metadata' \in [Receivers -> Messages] /\ recv_buf' \in [Receivers -> {1, 2}]
      /\ recv_op' \in [Receivers -> {"none", "meta", "data", "complete"}]
      /\ \A q \in Receivers : q # r => UNCHANGED <<metadata[q], recv_buf[q], recv_op[q]>>
  BY <1>1, <1>2, ReceiverTypes
<1>4. TypeOK'
  BY <1>1, <1>3 DEF Inv, TypeOK, EngineTypeOK, TransferTypeOK
<1>5. SenderInv' /\ StageInv'
  BY <1>1, SenderFrame DEF Inv, StageInv
<1>6. ReceiverInv(r)'
  <2>1. /\ Bucket(op_meta[r].bucket_meta, EndOf(metadata[r].bucket_meta))
        /\ Holds(nbytes, recv_bufs[r][recv_buf[r]], op_meta[r].bucket_meta)
        /\ op_meta[r].is_last => EndOf(op_meta[r].bucket_meta) = NumTensors
    BY <1>1 DEF Inv, ReceiverInv, NextBucketInv
  <2>2. Latest(r) = op_meta[r] /\ Latest(r)' = op_meta[r]
    BY <1>1, <1>3 DEF Latest
  <2>3. InStep(r)'
    <3>1. recv_op'[r] \in {"meta", "none"} /\ (~op_meta[r].is_last => recv_op'[r] = "meta")
          /\ (op_meta[r].is_last => recv_op'[r] = "none")
      BY <1>3
    <3>2. InStep(r)
      BY DEF Inv, ReceiverInv
    <3>. QED BY <1>1, <2>2, <3>1, <3>2 DEF InStep
  <2>4. NextBucketInv(r)'
    BY <1>3 DEF NextBucketInv
  <2>5. got[r] = EndOf(metadata[r].bucket_meta) /\ got[r] \in 0 .. NumTensors
    BY <1>1, AllYielded, ReceiverTypes
  <2>6. /\ Bucket(op_meta[r].bucket_meta, got[r])
        /\ got[r] \in got[r] .. EndOf(op_meta[r].bucket_meta)
    BY <2>1, <2>5, ConstantFacts DEF Bucket
  <2>7. YieldInv(r)'
    BY <1>1, <1>2, <1>3, <2>1, <2>5, <2>6 DEF YieldInv
  <2>. QED BY <2>3, <2>4, <2>7 DEF ReceiverInv
<1>7. AdapterInv(r)'
  BY <1>1 DEF Inv, AdapterInv
<1>8. WorkerInv(r)'
  BY <1>1, WorkerFrame DEF Inv
<1>9. \A q \in Receivers : q # r => ReceiverInv(q)' /\ AdapterInv(q)' /\ WorkerInv(q)'
  BY <1>1, <1>3, OthersFrame
<1>. QED BY <1>4, <1>5, <1>6, <1>7, <1>8, <1>9 DEF Inv

\* The source of the first copy is in place.
LEMMA ExecuteCopyInv ==
  ASSUME Inv, NEW r \in Receivers, ExecuteCopy(r)
  PROVE  Inv'
<1> DEFINE D     == [tensor : Tensors, buf : {1, 2}, at : Cells, offset : Cells]
           c     == Head(copies[r])
           from  == recv_bufs[r][c.buf]
           after == Moved(from, c.at, ipc_buf[r], c.offset, c.tensor)
<1>1. /\ copies[r] # <<>>
      /\ ipc_buf' = [ipc_buf EXCEPT ![r] = after]
      /\ copies' = [copies EXCEPT ![r] = Tail(copies[r])]
      /\ UNCHANGED <<nbytes, engineVars>>
      /\ UNCHANGED <<ipc_offset, ipc_meta, ipc_state, ipc_last, worker, clones, loaded>>
  BY DEF ExecuteCopy
<1>2. copies[r] \in Seq(D)
  BY AdapterTypes
<1> HIDE DEF D
<1>3. /\ c \in D /\ Tail(copies[r]) \in Seq(D)
      /\ 1 \in DOMAIN copies[r] /\ c = copies[r][1]
      /\ \A i \in DOMAIN Tail(copies[r]) :
            i + 1 \in DOMAIN copies[r] /\ Tail(copies[r])[i] = copies[r][i + 1]
  BY <1>1, <1>2, TailIndices
<1>4. /\ c.tensor \in Tensors /\ c.buf \in {1, 2} /\ c.at \in Cells /\ c.offset \in Cells
  BY <1>3 DEF D
<1> HIDE DEF c
<1>5. /\ c.buf = Other(recv_buf[r]) /\ c.tensor \in DOMAIN metadata[r].bucket_meta
      /\ c.at = metadata[r].bucket_meta[c.tensor]
      /\ WellPlaced(nbytes, ipc_meta[r], ipc_offset[r])
      /\ Packed(nbytes, ipc_buf[r], ipc_meta[r], copies[r])
  BY <1>3 DEF Inv, AdapterInv
<1>6. from \in Buffers /\ ipc_buf[r] \in Buffers /\ nbytes[c.tensor] \in 1 .. BucketSize
  BY <1>4, ReceiverTypes, AdapterTypes, EngineTypes
<1>7. InPlace(nbytes, from, c.at, c.tensor)
  BY <1>5 DEF Inv, ReceiverInv, YieldInv, Holds
<1> HIDE DEF from
<1>8. \A x \in Cells : after[x] = IF x \in Span(nbytes, c.offset, c.tensor)
                                  THEN c.tensor ELSE ipc_buf[r][x]
  <2>1. ASSUME NEW x \in Cells, x \in Span(nbytes, c.offset, c.tensor) PROVE from[x - c.offset + c.at] = c.tensor
    <3>1. x - c.offset + c.at \in Span(nbytes, c.at, c.tensor)
      <4> DEFINE off == c.offset
                 at  == c.at
                 len == nbytes[c.tensor]
      <4>1. off \in Nat /\ at \in Nat /\ len \in Nat
        BY <1>4, <1>6, ConstantFacts
      <4>2. x \in off .. off + len - 1
        BY <2>1 DEF Span
      <4> HIDE DEF off, at, len
      <4>3. x - off + at \in at .. at + len - 1
        BY <4>1, <4>2
      <4>. QED BY <4>3 DEF Span, off, at, len
    <3>. QED BY <1>7, <3>1 DEF InPlace
  <2>. QED BY <2>1 DEF Moved, Place, Span
<1>9. after \in Buffers
  <2>1. after \in [Cells -> Tensors \union {Garbage}]
    <3>1. \A x \in Cells : after[x] \in Tensors \union {Garbage}
      BY <1>4, <1>6, <1>8 DEF Buffers
    <3>2. after = [x \in Cells |-> after[x]]
      BY DEF Moved
    <3> HIDE DEF after
    <3>. QED BY <3>1, <3>2
  <2>. QED BY <2>1 DEF Buffers
<1> HIDE DEF after
<1>10. /\ ipc_buf'[r] = after /\ copies'[r] = Tail(copies[r])
       /\ ipc_buf' \in [Receivers -> Buffers] /\ copies' \in [Receivers -> Seq(D)]
       /\ \A q \in Receivers : q # r => UNCHANGED <<ipc_buf[q], copies[q]>>
  <2>1. copies \in [Receivers -> Seq(D)]
    BY AdapterTypes DEF D
  <2>. QED BY <1>1, <1>3, <1>9, <2>1, AdapterTypes
<1>11. TypeOK'
  BY <1>1, <1>10, EngineFrame DEF Inv, TypeOK, TransferTypeOK, D
<1>12. Packed(nbytes, after, ipc_meta[r], Tail(copies[r]))
  <2>1. ipc_meta[r] \in Metas /\ ipc_offset[r] \in 0 .. BucketSize
    BY AdapterTypes
  <2>. QED BY <1>1, <1>2, <1>5, <1>8, <2>1, WriteFirst, EngineTypes DEF c
<1>13. UNCHANGED <<got, recv_buf, metadata, inbox, recv_op, op_meta, recv_bufs, broadcast_op>>
  BY <1>1 DEF engineVars, receiverVars
<1>14. AdapterInv(r)'
  <2>1. \A i \in DOMAIN copies'[r] :
           /\ copies'[r][i].buf = Other(recv_buf[r])
           /\ copies'[r][i].tensor \in DOMAIN metadata[r].bucket_meta
           /\ copies'[r][i].at = metadata[r].bucket_meta[copies'[r][i].tensor]
    BY <1>3, <1>10 DEF Inv, AdapterInv
  <2>2. ipc_state[r] = "fill"
    BY <1>1, AdapterTypes DEF Inv, AdapterInv
  <2>. QED BY <1>1, <1>10, <1>12, <1>13, <2>1, <2>2 DEF Inv, AdapterInv
<1>15. WorkerInv(r)'
  BY <1>1, <1>13, WorkerFrame DEF Inv
<1>16. \A q \in Receivers : q # r => AdapterInv(q)' /\ WorkerInv(q)'
  BY <1>1, <1>10, <1>13, OthersFrame
<1>. QED BY <1>1, <1>11, <1>14, <1>15, <1>16, EngineFrame DEF Inv

LEMMA CloneBucketInv ==
  ASSUME Inv, NEW r \in Receivers, CloneBucket(r)
  PROVE  Inv'
<1> DEFINE new == [t \in DOMAIN ipc_meta[r] |-> Content(ipc_buf[r], ipc_meta[r][t], t)]
<1>1. /\ worker[r] = "recv" /\ ipc_state[r] = "sent"
      /\ clones' = [clones EXCEPT ![r] = new]
      /\ worker' = [worker EXCEPT ![r] = "reply"]
      /\ UNCHANGED <<nbytes, engineVars>>
      /\ UNCHANGED <<copies, ipc_buf, ipc_offset, ipc_meta, ipc_state, ipc_last, loaded>>
  BY DEF CloneBucket
<1>2. PICK n \in 0 .. NumTensors, m \in 0 .. NumTensors : WorkerAt(r, n, m)
  BY DEF Inv, WorkerInv
<1>3. m = n /\ DOMAIN ipc_meta[r] = n + 1 .. got[r] /\ got[r] \in 0 .. NumTensors
  BY <1>1, <1>2, ReceiverTypes DEF WorkerAt
<1>4. DOMAIN ipc_meta[r] # {} /\ Holds(nbytes, ipc_buf[r], ipc_meta[r])
  <2>1. DOMAIN ipc_meta[r] # {} /\ Packed(nbytes, ipc_buf[r], ipc_meta[r], <<>>)
    BY <1>1 DEF Inv, AdapterInv
  <2>. QED BY <2>1, NothingLeft
<1>5. new = [t \in n + 1 .. got[r] |-> t]
  BY <1>3, <1>4 DEF Content, Holds, InPlace, Place, Span
<1> HIDE DEF new
<1>6. n < got[r]
  BY <1>3, <1>4, ConstantFacts
<1>7. new \in Tensored
  <2>1. n + 1 .. got[r] \in SUBSET Tensors
    BY <1>3, ConstantFacts
  <2>2. new \in [n + 1 .. got[r] -> Tensors \union {Garbage}]
    BY <1>5, <2>1
  <2>. QED BY <2>1, <2>2 DEF Tensored
<1>8. /\ clones'[r] = new /\ worker'[r] = "reply"
      /\ clones' \in [Receivers -> Tensored]
      /\ worker' \in [Receivers -> {"recv", "reply", "load", "done"}]
      /\ \A q \in Receivers : q # r => UNCHANGED <<clones[q], worker[q]>>
  BY <1>1, <1>7, AdapterTypes
<1>9. TypeOK'
  BY <1>1, <1>8, EngineFrame DEF Inv, TypeOK, TransferTypeOK
<1>10. UNCHANGED <<got, recv_buf, metadata, inbox, recv_op, op_meta, recv_bufs, broadcast_op>>
  BY <1>1 DEF engineVars, receiverVars
<1>11. AdapterInv(r)'
  BY <1>1, <1>10, AdapterFrame DEF Inv
<1>12. WorkerInv(r)'
  <2>1. WorkerAt(r, n, got[r])'
    BY <1>1, <1>2, <1>3, <1>5, <1>6, <1>8, <1>10, ConstantFacts DEF WorkerAt
  <2>2. got'[r] = got[r]
    BY <1>10
  <2>. QED BY <1>3, <2>1, <2>2 DEF WorkerInv
<1>13. \A q \in Receivers : q # r => AdapterInv(q)' /\ WorkerInv(q)'
  BY <1>1, <1>8, <1>10, OthersFrame
<1>. QED BY <1>1, <1>9, <1>11, <1>12, <1>13, EngineFrame DEF Inv

LEMMA ReplyInv ==
  ASSUME Inv, NEW r \in Receivers, Reply(r)
  PROVE  Inv'
<1>1. /\ worker[r] = "reply"
      /\ worker' = [worker EXCEPT ![r] = "load"]
      /\ ipc_state' = [ipc_state EXCEPT ![r] = IF ipc_last[r] THEN "closed" ELSE "fill"]
      /\ ipc_meta' = [ipc_meta EXCEPT ![r] = NoTensors]
      /\ ipc_offset' = [ipc_offset EXCEPT ![r] = 0]
      /\ UNCHANGED <<nbytes, engineVars>>
      /\ UNCHANGED <<copies, ipc_buf, ipc_last, clones, loaded>>
  BY DEF Reply
<1>2. PICK n \in 0 .. NumTensors, m \in 0 .. NumTensors : WorkerAt(r, n, m)
  BY DEF Inv, WorkerInv
<1>3. ipc_state[r] = "sent" /\ m = got[r] /\ copies[r] = <<>> /\ (~ipc_last[r] => got[r] < NumTensors)
  BY <1>1, <1>2 DEF WorkerAt, Inv, AdapterInv
<1>4. /\ worker'[r] = "load" /\ ipc_state'[r] = (IF ipc_last[r] THEN "closed" ELSE "fill")
      /\ ipc_meta'[r] = NoTensors /\ ipc_offset'[r] = 0
      /\ worker' \in [Receivers -> {"recv", "reply", "load", "done"}]
      /\ ipc_state' \in [Receivers -> {"fill", "sent", "closed"}]
      /\ ipc_meta' \in [Receivers -> Metas] /\ ipc_offset' \in [Receivers -> 0 .. BucketSize]
      /\ \A q \in Receivers : q # r =>
            UNCHANGED <<worker[q], ipc_state[q], ipc_meta[q], ipc_offset[q]>>
  BY <1>1, NoTensorsFacts, ConstantFacts, AdapterTypes
<1>5. TypeOK'
  BY <1>1, <1>4, EngineFrame DEF Inv, TypeOK, TransferTypeOK
<1>6. UNCHANGED <<got, recv_buf, metadata, inbox, recv_op, op_meta, recv_bufs, broadcast_op>>
  BY <1>1 DEF engineVars, receiverVars
<1>7. AdapterInv(r)'
  <2>1. WellPlaced(nbytes, NoTensors, 0) /\ Packed(nbytes, ipc_buf[r], NoTensors, <<>>)
    BY NothingPacked
  <2>. QED BY <1>1, <1>3, <1>4, <1>6, <2>1 DEF AdapterInv
<1>8. WorkerInv(r)'
  <2>1. DOMAIN NoTensors = m + 1 .. got[r]
    BY <1>3, NoTensorsFacts, ReceiverTypes, ConstantFacts
  <2>2. WorkerAt(r, n, m)'
    BY <1>1, <1>2, <1>3, <1>4, <1>6, <2>1 DEF WorkerAt
  <2>. QED BY <2>2 DEF WorkerInv
<1>9. \A q \in Receivers : q # r => AdapterInv(q)' /\ WorkerInv(q)'
  BY <1>1, <1>4, <1>6, OthersFrame
<1>. QED BY <1>1, <1>5, <1>7, <1>8, <1>9, EngineFrame DEF Inv

\* Tensors are loaded in order.
LEMMA LoadBucketInv ==
  ASSUME Inv, NEW r \in Receivers, LoadBucket(r)
  PROVE  /\ Inv'
         /\ \E n \in 1 .. NumTensors : Stream!Load(r, n)
<1> DEFINE new == [t \in DOMAIN loaded[r] \union DOMAIN clones[r] |->
                      IF t \in DOMAIN clones[r] THEN clones[r][t] ELSE loaded[r][t]]
<1>1. /\ worker[r] = "load"
      /\ loaded' = [loaded EXCEPT ![r] = new]
      /\ worker' = [worker EXCEPT ![r] = IF ipc_state[r] = "closed" THEN "done" ELSE "recv"]
      /\ UNCHANGED <<nbytes, engineVars>>
      /\ UNCHANGED <<copies, ipc_buf, ipc_offset, ipc_meta, ipc_state, ipc_last, clones>>
  BY DEF LoadBucket
<1>2. PICK n \in 0 .. NumTensors, m \in 0 .. NumTensors : WorkerAt(r, n, m)
  BY DEF Inv, WorkerInv
<1>3. /\ n < m /\ clones[r] = [t \in n + 1 .. m |-> t] /\ loaded[r] = [t \in 1 .. n |-> t]
      /\ n \in Nat /\ m \in Nat
  BY <1>1, <1>2, ConstantFacts DEF WorkerAt, Stream!Prefix
<1>4. new = Stream!Prefix(m)
  <2>1. (1 .. n) \union (n + 1 .. m) = 1 .. m
    BY <1>3
  <2>2. DOMAIN loaded[r] \union DOMAIN clones[r] = 1 .. m
    BY <1>3, <2>1
  <2>3. \A t \in 1 .. m : (IF t \in DOMAIN clones[r] THEN clones[r][t] ELSE loaded[r][t]) = t
    BY <1>3
  <2>. QED BY <2>2, <2>3 DEF Stream!Prefix
<1> HIDE DEF new
<1>5. new \in Tensored
  <2>1. 1 .. m \in SUBSET Tensors
    BY <1>2, ConstantFacts
  <2>2. new \in [1 .. m -> Tensors \union {Garbage}]
    BY <1>4, <2>1 DEF Stream!Prefix
  <2>. QED BY <2>1, <2>2 DEF Tensored
<1>6. /\ loaded'[r] = new /\ worker'[r] = (IF ipc_state[r] = "closed" THEN "done" ELSE "recv")
      /\ loaded' \in [Receivers -> Tensored]
      /\ worker' \in [Receivers -> {"recv", "reply", "load", "done"}]
      /\ \A q \in Receivers : q # r => UNCHANGED <<loaded[q], worker[q]>>
  BY <1>1, <1>5, AdapterTypes
<1>7. TypeOK'
  BY <1>1, <1>6, EngineFrame DEF Inv, TypeOK, TransferTypeOK
<1>8. UNCHANGED <<got, recv_buf, metadata, inbox, recv_op, op_meta, recv_bufs, broadcast_op>>
  BY <1>1 DEF engineVars, receiverVars
<1>9. AdapterInv(r)'
  BY <1>1, <1>8, AdapterFrame DEF Inv
<1>10. WorkerInv(r)'
  <2>1. WorkerAt(r, m, m)'
    BY <1>1, <1>2, <1>4, <1>6, <1>8 DEF WorkerAt
  <2>. QED BY <2>1 DEF WorkerInv
<1>11. \A q \in Receivers : q # r => AdapterInv(q)' /\ WorkerInv(q)'
  BY <1>1, <1>6, <1>8, OthersFrame
<1>12. Stream!Load(r, m) /\ m \in 1 .. NumTensors
  <2>1. n \in 0 .. m - 1 /\ m \in 1 .. NumTensors
    BY <1>2, <1>3, ConstantFacts
  <2>2. loaded[r] = Stream!Prefix(n)
    BY <1>2 DEF WorkerAt
  <2>. QED BY <1>1, <1>4, <2>1, <2>2 DEF Stream!Load
<1>. QED BY <1>1, <1>7, <1>9, <1>10, <1>11, <1>12, EngineFrame DEF Inv

-----------------------------------------------------------------------------
(* The theorems *)

LEMMA NextInv == Inv /\ [Next]_vars => Inv'
<1> SUFFICES ASSUME Inv, [Next]_vars PROVE Inv'
  OBVIOUS
<1>1. CASE UNCHANGED vars
  <2>1. UNCHANGED <<nbytes, engineVars>> /\ UNCHANGED ipcVars
    BY <1>1 DEF vars
  <2>2. UNCHANGED <<copies, ipc_buf, ipc_offset, ipc_meta, ipc_state, ipc_last, worker, clones, loaded>>
    BY <2>1 DEF ipcVars
  <2>3. TypeOK'
    BY <2>1, <2>2, EngineFrame DEF Inv, TypeOK, TransferTypeOK
  <2>4. UNCHANGED <<receiverVars, recv_bufs, recv_op, op_meta>>
    BY <2>1 DEF engineVars
  <2>. QED BY <2>1, <2>3, <2>4, EngineFrame, ReceiversFrame DEF Inv
<1>2. CASE Rank0Step
  <2>1. CASE SenderStep
    BY <1>2, <2>1, FillBucketInv, StoreTensorInv, SendBucketInv, SendLastInv DEF Rank0Step, SenderStep
  <2>2. CASE Publish
    BY <1>2, <2>2, PublishInv DEF Rank0Step
  <2>. QED BY <1>2, <2>1, <2>2 DEF Rank0Step
<1>3. ASSUME NEW r \in Receivers,
             OperationStep(r) \/ AdapterStep(r) \/ ExecuteCopy(r) \/ WorkerStep(r)
      PROVE  Inv'
  <2>1. CASE OperationStep(r)
    BY <2>1, ReceiveMetaInv, BroadcastInv DEF OperationStep
  <2>2. CASE AdapterStep(r)
    BY <2>2, PullInv, FlushInv, SwapInv DEF AdapterStep
  <2>3. CASE ExecuteCopy(r)
    BY <2>3, ExecuteCopyInv
  <2>4. CASE WorkerStep(r)
    BY <2>4, CloneBucketInv, ReplyInv, LoadBucketInv DEF WorkerStep
  <2>. QED BY <1>3, <2>1, <2>2, <2>3, <2>4
<1>. QED BY <1>1, <1>2, <1>3 DEF Next

LEMMA Invariant == Spec => []Inv
<1>1. Init => Inv
  BY InitInv
<1>2. Inv /\ [Next]_vars => Inv'
  BY NextInv
<1>. QED BY <1>1, <1>2, PTL DEF Spec

\* Every variable of a transfer keeps its type: in particular no offset leaves its
\* buffer.
THEOREM TypesPreserved == Spec => []TypeOK
<1>1. Inv => TypeOK
  BY DEF Inv
<1>. QED BY <1>1, Invariant, PTL

\* Only LoadBucket changes what the inference workers have loaded.
LEMMA LoadedFrame ==
  ASSUME [Next]_vars
  PROVE  UNCHANGED loaded \/ \E r \in Receivers : LoadBucket(r)
<1>1. UNCHANGED ipcVars => UNCHANGED loaded
  BY DEF ipcVars
<1>2. CASE UNCHANGED vars
  BY <1>1, <1>2 DEF vars
<1>3. CASE Rank0Step
  BY <1>1, <1>3 DEF Rank0Step
<1>4. ASSUME NEW r \in Receivers,
             OperationStep(r) \/ AdapterStep(r) \/ ExecuteCopy(r) \/ WorkerStep(r)
      PROVE  UNCHANGED loaded \/ LoadBucket(r)
  <2>1. CASE OperationStep(r)
    BY <1>1, <2>1 DEF OperationStep
  <2>2. CASE AdapterStep(r)
    BY <1>1, <2>2 DEF AdapterStep, Pull, PackTensor, Flush, SendPyobj, NextBucket
  <2>3. CASE ExecuteCopy(r)
    BY <2>3 DEF ExecuteCopy
  <2>4. CASE WorkerStep(r)
    BY <2>4 DEF WorkerStep, CloneBucket, Reply
  <2>. QED BY <1>4, <2>1, <2>2, <2>3, <2>4
<1>. QED BY <1>2, <1>3, <1>4 DEF Next

\* A transfer implements WeightStream: every worker loads all tensors it loads intact
\* and in order, for any sizes of tensors and buckets and any group of receivers.
THEOREM CopiesSafe == Spec => Copies
<1>1. Init => Stream!Init
  BY DEF Init, TransferInit, Stream!Init, Stream!Prefix, NoTensors
<1>2. Inv /\ [Next]_vars => [Stream!Next]_loaded
  BY LoadedFrame, LoadBucketInv DEF Stream!Next
<1>. QED BY <1>1, <1>2, Invariant, PTL DEF Spec, Copies, Stream!Spec
=============================================================================
