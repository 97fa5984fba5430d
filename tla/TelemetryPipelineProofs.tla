---------------------- MODULE TelemetryPipelineProofs ----------------------
(***************************************************************************)
(* Theorems about TelemetryPipeline, for all frames, satellites, sizes and *)
(* any number of faults.                                                   *)
(***************************************************************************)
EXTENDS TelemetryPipeline, FiniteSetTheorems, TLAPS

USE FrameAssumption, SatAssumption, BoundAssumption

----------------------------------------------------------------------------
(* Sequences                                                               *)

(* The elements of a sequence of messages, and its two ends.                *)
LEMMA Elements ==
  ASSUME NEW s \in Seq(Nat)
  PROVE  /\ ToSet(s) \subseteq Nat
         /\ \A m \in Nat : /\ Append(s, m) \in Seq(Nat)
                           /\ Len(Append(s, m)) = Len(s) + 1
                           /\ ToSet(Append(s, m)) = ToSet(s) \cup {m}
         /\ s # <<>> => /\ Head(s) \in ToSet(s)
                        /\ Tail(s) \in Seq(Nat)
                        /\ Len(Tail(s)) = Len(s) - 1
                        /\ Len(s) > 0
                        /\ ToSet(Tail(s)) \subseteq ToSet(s)
<1>1. ToSet(s) \subseteq Nat
  BY DEF ToSet
<1>2. ASSUME NEW m \in Nat
      PROVE  /\ Append(s, m) \in Seq(Nat)
             /\ Len(Append(s, m)) = Len(s) + 1
             /\ ToSet(Append(s, m)) = ToSet(s) \cup {m}
  <2>1. /\ Append(s, m) \in Seq(Nat)
        /\ Len(Append(s, m)) = Len(s) + 1
        /\ DOMAIN Append(s, m) = 1..Len(s) + 1 /\ DOMAIN s = 1..Len(s)
        /\ Append(s, m)[Len(s) + 1] = m
        /\ \A i \in 1..Len(s) : Append(s, m)[i] = s[i]
    OBVIOUS
  <2>2. Len(s) + 1 \in 1..Len(s) + 1 /\ 1..Len(s) + 1 = 1..Len(s) \cup {Len(s) + 1}
    OBVIOUS
  <2>3. \A x \in ToSet(Append(s, m)) : x \in ToSet(s) \cup {m}
    BY <2>1, <2>2 DEF ToSet
  <2>4. \A x \in ToSet(s) \cup {m} : x \in ToSet(Append(s, m))
    BY <2>1, <2>2 DEF ToSet
  <2> QED BY <2>1, <2>3, <2>4
<1>3. ASSUME s # <<>>
      PROVE  /\ Head(s) \in ToSet(s)
             /\ Tail(s) \in Seq(Nat)
             /\ Len(Tail(s)) = Len(s) - 1
             /\ Len(s) > 0
             /\ ToSet(Tail(s)) \subseteq ToSet(s)
  BY <1>3 DEF ToSet
<1> QED BY <1>1, <1>2, <1>3

\* A batch is the front of the queue; what is left is the rest of it (writer.py).
LEMMA Prefix ==
  ASSUME NEW s \in Seq(Nat), NEW k \in 0..Len(s)
  PROVE  /\ SubSeq(s, 1, k) \in Seq(Nat) /\ Len(SubSeq(s, 1, k)) = k
         /\ ToSet(SubSeq(s, 1, k)) \subseteq ToSet(s)
         /\ SubSeq(s, k + 1, Len(s)) \in Seq(Nat)
         /\ Len(SubSeq(s, k + 1, Len(s))) = Len(s) - k
         /\ ToSet(SubSeq(s, k + 1, Len(s))) \subseteq ToSet(s)
  BY SMTT(30) DEF ToSet

\* The smaller of two numbers, as the size of a batch is chosen.
LEMMA Smaller ==
  ASSUME NEW i \in Nat, NEW j \in Nat
  PROVE  Min({i, j}) = IF i <= j THEN i ELSE j
  BY DEF Min

\* An empty buffer.
LEMMA NoElements == ToSet(<<>>) = {} /\ <<>> \in Seq(Nat) /\ Len(<<>>) = 0
  BY DEF ToSet

(* How often a message is in the batch is a number, and not zero for those  *)
(* that are in it.                                                         *)
LEMMA TimesCounts ==
  ASSUME batch \in Seq(Nat), NEW m
  PROVE  /\ Times(m) \in Nat
         /\ m \in ToSet(batch) => Times(m) > 0
<1> DEFINE I == {i \in DOMAIN batch : batch[i] = m}
<1>1. IsFiniteSet(1..Len(batch)) /\ DOMAIN batch = 1..Len(batch)
  BY FS_Interval
<1>2. IsFiniteSet(I)
  BY <1>1, FS_Subset
<1>3. Cardinality(I) \in Nat /\ (Cardinality(I) = 0 <=> I = {})
  BY <1>2, FS_CardinalityType, FS_EmptySet
<1>4. m \in ToSet(batch) => I # {}
  BY DEF ToSet
<1> HIDE DEF I
<1> QED
  <2>1. Times(m) = Cardinality(I)
    BY DEF Times, I
  <2> QED BY <1>3, <1>4, <2>1

(* What a message is in the stream, it stays.                               *)
LEMMA StreamGrows ==
  ASSUME canon \in Seq(Frame), NEW f \in Frame
  PROVE  /\ Append(canon, f) \in Seq(Frame)
         /\ Len(Append(canon, f)) = Len(canon) + 1
         /\ f \in ToSet(Append(canon, f))
         /\ ToSet(canon) \subseteq ToSet(Append(canon, f))
         /\ \A m \in 1..Len(canon) : Append(canon, f)[m] = canon[m]
<1>1. /\ Append(canon, f) \in Seq(Frame)
      /\ Len(Append(canon, f)) = Len(canon) + 1
      /\ Append(canon, f)[Len(canon) + 1] = f
      /\ \A m \in 1..Len(canon) : Append(canon, f)[m] = canon[m]
  OBVIOUS
<1> QED
  BY <1>1 DEF ToSet

----------------------------------------------------------------------------
(* Types                                                                   *)

(* A written batch leaves one row count per message.                       *)
LEMMA RowsWritten ==
  ASSUME TypeOK
  PROVE  Inserted \in Seq(Nat) /\ Len(Inserted) = Len(canon)
<1>1. canon \in Seq(Frame) /\ Message = 1..Len(canon) /\ Len(canon) \in Nat
  BY DEF TypeOK, StreamTypeOK, Message
<1>2. \A m \in Message : rows[m] \in Nat
  BY <1>1 DEF TypeOK, StoreTypeOK
<1>3. \A m \in Message : rows[m] + Times(m) \in Nat
  BY <1>2, TimesCounts DEF TypeOK, WriterTypeOK
<1>4. Inserted \in [1..Len(canon) -> Nat]
  BY <1>1, <1>3 DEF Inserted
<1> QED
  BY <1>1, <1>4

(* A batch is a proper piece of the queue, and leaves the rest there.       *)
LEMMA BatchTaken ==
  ASSUME TypeOK, queue # <<>>
  PROVE  /\ NextBatch \in Seq(Nat) /\ Len(NextBatch) <= BatchSize
         /\ NextBatch # <<>>
         /\ ToSet(NextBatch) \subseteq ToSet(queue)
         /\ SubSeq(queue, Len(NextBatch) + 1, Len(queue)) \in Seq(Nat)
         /\ Len(SubSeq(queue, Len(NextBatch) + 1, Len(queue))) <= QueueSize
         /\ ToSet(SubSeq(queue, Len(NextBatch) + 1, Len(queue))) \subseteq ToSet(queue)
<1>1. queue \in Seq(Nat) /\ Len(queue) \in Nat /\ Len(queue) > 0 /\ Len(queue) <= QueueSize
  BY Elements DEF TypeOK, WriterTypeOK
<1>2. PICK k : k = Min({BatchSize, Len(queue)})
  OBVIOUS
<1>3. k \in 1..Len(queue) /\ k <= BatchSize
  BY <1>1, <1>2, Smaller
<1>4. NextBatch = SubSeq(queue, 1, k)
  BY <1>2 DEF NextBatch
<1>5. /\ NextBatch \in Seq(Nat) /\ Len(NextBatch) = k
      /\ ToSet(NextBatch) \subseteq ToSet(queue)
      /\ SubSeq(queue, k + 1, Len(queue)) \in Seq(Nat)
      /\ Len(SubSeq(queue, k + 1, Len(queue))) = Len(queue) - k
      /\ ToSet(SubSeq(queue, k + 1, Len(queue))) \subseteq ToSet(queue)
  BY <1>1, <1>3, <1>4, Prefix
<1> QED
  BY <1>1, <1>3, <1>5, NoElements

(* The message in the writer's hands was delivered and has a source.        *)
LEMMA HeadHeld ==
  ASSUME TypeOK, batch # <<>>
  PROVE  /\ Head(batch) \in ToSet(batch) /\ Head(batch) \in 1..cursor
         /\ Head(batch) \in Message
         /\ SatAt(Head(batch)) \in Sat
<1>1. Head(batch) \in ToSet(batch) /\ Head(batch) \in 1..cursor
  BY Elements DEF TypeOK, WriterTypeOK, Held
<1>2. Head(batch) \in 1..Len(canon) /\ canon \in Seq(Frame)
  BY <1>1 DEF TypeOK, StreamTypeOK
<1>3. canon[Head(batch)] \in Frame /\ Head(batch) \in Message
  BY <1>2 DEF Message
<1> QED
  BY <1>1, <1>3 DEF SatAt

(* Deleting a satellite leaves one row count per message.                   *)
LEMMA RowsDeleted ==
  ASSUME TypeOK, NEW s \in Sat, DeleteSatellite(s)
  PROVE  rows' \in Seq(Nat) /\ Len(rows') = Len(canon)
<1>1. rows' \in [1..Len(canon) -> Nat] /\ Len(canon) \in Nat
  BY DEF TypeOK, StreamTypeOK, StoreTypeOK, DeleteSatellite, Message
<1> QED
  BY <1>1

(* A published message is the last one of the stream and has no row yet.    *)
LEMMA MessageStored ==
  ASSUME TypeOK, step = "publish", Stored
  PROVE  /\ frame \in Frame
         /\ canon' \in Seq(Frame) /\ Len(canon') = Len(canon) + 1
         /\ frame \in ToSet(canon') /\ ToSet(canon) \subseteq ToSet(canon')
         /\ \A m \in 1..Len(canon) : canon'[m] = canon[m]
         /\ rows' \in Seq(Nat) /\ Len(rows') = Len(rows) + 1
         /\ \A m \in 1..Len(canon) : rows'[m] = rows[m]
<1>1. frame \in Frame
  BY DEF TypeOK, IngestionTypeOK
<1>2. canon \in Seq(Frame) /\ rows \in Seq(Nat) /\ Len(rows) = Len(canon)
  BY DEF TypeOK, StreamTypeOK, StoreTypeOK
<1>3. canon' = Append(canon, frame) /\ rows' = Append(rows, 0)
  BY DEF Stored
<1>4. \A m \in 1..Len(rows) : Append(rows, 0)[m] = rows[m]
  BY <1>2
<1> QED
  BY <1>1, <1>2, <1>3, <1>4, StreamGrows, Elements

(* A dropped batch leaves the writer's hands and is in the log.             *)
LEMMA BatchDropped ==
  ASSUME TypeOK, Dropped
  PROVE  WriterTypeOK'
<1>1. ToSet(batch) \subseteq 1..cursor /\ ToSet(queue) \subseteq 1..cursor
  BY DEF TypeOK, WriterTypeOK, Held
<1>2. batch' = <<>> /\ phase' \in {"sleep", "over"} /\ queue' = queue /\ cursor' = cursor
  BY DEF Dropped, FlushReturns
<1>3. refused' \subseteq 1..cursor
  BY <1>1 DEF TypeOK, WriterTypeOK, Dropped
<1>4. Held' \subseteq 1..cursor
  BY <1>1, <1>2, NoElements DEF Held
<1>5. batch' \in Seq(Nat) /\ Len(batch') <= BatchSize
  BY <1>2, NoElements
<1> QED
  BY <1>2, <1>3, <1>4, <1>5 DEF TypeOK, WriterTypeOK

\* The pipeline before the first packet.
LEMMA TypesInit == Init => TypeOK
<1> SUFFICES ASSUME Init PROVE TypeOK
  OBVIOUS
<1> USE DEF Init
<1>1. IngestionTypeOK
  BY DEF IngestionTypeOK
<1>2. StreamTypeOK
  BY DEF StreamTypeOK
<1>3. WriterTypeOK
  BY NoElements DEF WriterTypeOK, Held
<1>4. StoreTypeOK
  BY DEF StoreTypeOK
<1> QED
  BY <1>1, <1>2, <1>3, <1>4 DEF TypeOK

\* Every step of the ingestion services, the writer and the consumers keeps the types.
LEMMA TypesStep == TypeOK /\ [Next]_vars => TypeOK'
<1> SUFFICES ASSUME TypeOK, [Next]_vars PROVE TypeOK'
  OBVIOUS
<1> USE DEF TypeOK, Message, Fault, Returns, AckRaw, NakRaw, bus, registry, ingestion, writer, stores
<1>1. ASSUME NEW f \in Frame, Receive(f) PROVE TypeOK'
  <2>1. IngestionTypeOK'
    BY <1>1 DEF IngestionTypeOK, StreamTypeOK, Receive
  <2>2. StreamTypeOK'
    BY <1>1 DEF StreamTypeOK, Receive
  <2>3. WriterTypeOK'
    BY <1>1 DEF WriterTypeOK, Held, StreamTypeOK, Receive
  <2>4. StoreTypeOK'
    BY <1>1 DEF StoreTypeOK, StreamTypeOK, Receive
  <2> QED
    BY <1>1, <2>1, <2>2, <2>3, <2>4 DEF Receive
<1>2. CASE Recognise
  <2>1. IngestionTypeOK'
    BY <1>2 DEF IngestionTypeOK, StoreTypeOK, Recognise, Reject, Consulted
  <2>2. StreamTypeOK'
    BY <1>2 DEF StreamTypeOK, Recognise, Reject, Consulted
  <2>3. WriterTypeOK'
    BY <1>2 DEF WriterTypeOK, Held, StreamTypeOK, Recognise, Reject, Consulted
  <2>4. StoreTypeOK'
    BY <1>2 DEF StoreTypeOK, StreamTypeOK, Recognise, Reject, Consulted
  <2> QED
    BY <1>2, <2>1, <2>2, <2>3, <2>4 DEF Recognise, Reject, Consulted
<1>3. CASE LookUp
  <2>1. IngestionTypeOK'
    BY <1>3 DEF IngestionTypeOK, StreamTypeOK, LookUp, Reject
  <2>2. StreamTypeOK'
    BY <1>3 DEF StreamTypeOK, LookUp, Reject
  <2>3. WriterTypeOK'
    BY <1>3 DEF WriterTypeOK, Held, StreamTypeOK, LookUp, Reject
  <2>4. StoreTypeOK'
    BY <1>3 DEF StoreTypeOK, StreamTypeOK, LookUp, Reject
  <2> QED
    BY <1>3, <2>1, <2>2, <2>3, <2>4 DEF LookUp, Reject
<1>4. CASE HandlerRaises
  <2>1. IngestionTypeOK'
    BY <1>4 DEF IngestionTypeOK, StreamTypeOK, HandlerRaises
  <2>2. StreamTypeOK'
    BY <1>4 DEF StreamTypeOK, HandlerRaises
  <2>3. WriterTypeOK'
    BY <1>4 DEF WriterTypeOK, Held, StreamTypeOK, HandlerRaises
  <2>4. StoreTypeOK'
    BY <1>4 DEF StoreTypeOK, StreamTypeOK, HandlerRaises
  <2> QED
    BY <1>4, <2>1, <2>2, <2>3, <2>4 DEF HandlerRaises
<1>5. CASE Publish
  <2>1. IngestionTypeOK'
    BY <1>5, StreamGrows, Elements DEF IngestionTypeOK, StreamTypeOK, Publish, Stored
  <2>2. StreamTypeOK'
    BY <1>5, MessageStored, SMTT(30) DEF StreamTypeOK, Publish
  <2>3. WriterTypeOK'
    BY <1>5, StreamGrows, Elements DEF WriterTypeOK, Held, StreamTypeOK, Publish, Stored
  <2>4. StoreTypeOK'
    BY <1>5, StreamGrows, Elements DEF StoreTypeOK, StreamTypeOK, Publish, Stored
  <2> QED
    BY <1>5, <2>1, <2>2, <2>3, <2>4 DEF Publish, Stored
<1>6. CASE PublishFails
  <2>1. IngestionTypeOK'
    BY <1>6, StreamGrows, Elements DEF IngestionTypeOK, StreamTypeOK, PublishFails, Stored, AfterFailure
  <2>2. StreamTypeOK'
    BY <1>6, MessageStored DEF StreamTypeOK, PublishFails
  <2>3. WriterTypeOK'
    BY <1>6, StreamGrows, Elements DEF WriterTypeOK, Held, StreamTypeOK, PublishFails, Stored, AfterFailure
  <2>4. StoreTypeOK'
    BY <1>6, MessageStored DEF StoreTypeOK, StreamTypeOK, PublishFails
  <2> QED
    BY <1>6, <2>1, <2>2, <2>3, <2>4 DEF PublishFails, Stored, AfterFailure
<1>7. CASE AckFrame
  <2>1. IngestionTypeOK'
    BY <1>7 DEF IngestionTypeOK, StreamTypeOK, AckFrame
  <2>2. StreamTypeOK'
    BY <1>7 DEF StreamTypeOK, AckFrame
  <2>3. WriterTypeOK'
    BY <1>7 DEF WriterTypeOK, Held, StreamTypeOK, AckFrame
  <2>4. StoreTypeOK'
    BY <1>7 DEF StoreTypeOK, StreamTypeOK, AckFrame
  <2> QED
    BY <1>7, <2>1, <2>2, <2>3, <2>4 DEF AckFrame
<1>8. ASSUME NEW m \in Message, Enqueue(m) PROVE TypeOK'
  <2>1. IngestionTypeOK'
    BY <1>8, Elements DEF IngestionTypeOK, StreamTypeOK, Enqueue, Offer, Accept
  <2>2. StreamTypeOK'
    <3>1. m \in Nat /\ m <= Len(canon) /\ m > 0 /\ cursor \in Nat /\ cursor <= cursor' /\ m \in 1..cursor'
          /\ cursor' \in 0..Len(canon)
      BY <1>8 DEF StreamTypeOK, Enqueue
    <3>2. redo' \subseteq redo \cup {m} /\ out' \subseteq out \cup {m} /\ redo' \cap out' = {}
      <4>1. m \notin out
        BY <1>8 DEF StreamTypeOK, Enqueue
      <4>2. CASE Len(queue) < QueueSize
        BY <1>8, <4>2 DEF StreamTypeOK, Enqueue, Offer, Accept
      <4>3. CASE ~(Len(queue) < QueueSize)
        BY <1>8, <4>1, <4>3 DEF StreamTypeOK, Enqueue, Offer
      <4> QED BY <4>2, <4>3
    <3> QED
      BY <1>8, <3>1, <3>2 DEF StreamTypeOK, Enqueue
  <2>3. WriterTypeOK'
    <3>1. m \in Nat /\ m \in 1..cursor' /\ 1..cursor \subseteq 1..cursor'
      BY <1>8 DEF StreamTypeOK, Enqueue
    <3>2. /\ queue' \in Seq(Nat) /\ Len(queue') <= QueueSize
          /\ ToSet(queue') \subseteq ToSet(queue) \cup {m}
      <4>1. CASE Len(queue) < QueueSize
        <5>1. queue' = Append(queue, m)
          BY <1>8, <4>1 DEF Enqueue, Offer, Accept
        <5>2. /\ Append(queue, m) \in Seq(Nat) /\ Len(Append(queue, m)) = Len(queue) + 1
              /\ ToSet(Append(queue, m)) = ToSet(queue) \cup {m}
          BY <3>1, Elements DEF WriterTypeOK
        <5>3. Len(queue) \in Nat /\ QueueSize \in Nat
          BY BoundAssumption DEF WriterTypeOK
        <5> QED BY <4>1, <5>1, <5>2, <5>3
      <4>2. CASE ~(Len(queue) < QueueSize)
        BY <1>8, <4>2 DEF WriterTypeOK, Enqueue, Offer
      <4> QED BY <4>1, <4>2
    <3> QED
      BY <1>8, <3>1, <3>2 DEF WriterTypeOK, Held, Enqueue
  <2>4. StoreTypeOK'
    BY <1>8, Elements, SMTT(30) DEF StoreTypeOK, StreamTypeOK, Enqueue, Offer, Accept
  <2> QED
    BY <1>8, <2>1, <2>2, <2>3, <2>4 DEF Enqueue, Offer, Accept
<1>9. CASE Collect
  <2>1. IngestionTypeOK'
    BY <1>9, BatchTaken DEF IngestionTypeOK, StreamTypeOK, Collect
  <2>2. StreamTypeOK'
    BY <1>9, BatchTaken DEF StreamTypeOK, Collect
  <2>3. WriterTypeOK'
    BY <1>9, BatchTaken DEF WriterTypeOK, Held, StreamTypeOK, Collect
  <2>4. StoreTypeOK'
    BY <1>9, BatchTaken DEF StoreTypeOK, StreamTypeOK, Collect
  <2> QED
    BY <1>9, <2>1, <2>2, <2>3, <2>4 DEF Collect
<1>10. CASE NothingLeft
  <2>1. IngestionTypeOK'
    BY <1>10 DEF IngestionTypeOK, StreamTypeOK, NothingLeft
  <2>2. StreamTypeOK'
    BY <1>10 DEF StreamTypeOK, NothingLeft
  <2>3. WriterTypeOK'
    BY <1>10 DEF WriterTypeOK, Held, StreamTypeOK, NothingLeft
  <2>4. StoreTypeOK'
    BY <1>10 DEF StoreTypeOK, StreamTypeOK, NothingLeft
  <2> QED
    BY <1>10, <2>1, <2>2, <2>3, <2>4 DEF NothingLeft
<1>11. CASE WriteBatch
  <2>1. IngestionTypeOK'
    BY <1>11, RowsWritten DEF IngestionTypeOK, StreamTypeOK, WriteBatch
  <2>2. StreamTypeOK'
    BY <1>11, RowsWritten DEF StreamTypeOK, WriteBatch
  <2>3. WriterTypeOK'
    BY <1>11, RowsWritten DEF WriterTypeOK, Held, StreamTypeOK, WriteBatch
  <2>4. StoreTypeOK'
    BY <1>11, RowsWritten DEF StoreTypeOK, StreamTypeOK, WriteBatch
  <2> QED
    BY <1>11, <2>1, <2>2, <2>3, <2>4 DEF WriteBatch
<1>12. CASE WriteFails
  <2>1. IngestionTypeOK'
    BY <1>12, RowsWritten, NoElements DEF IngestionTypeOK, StreamTypeOK, WriteFails, Returned, Nak, FlushReturns
  <2>2. StreamTypeOK'
    BY <1>12, RowsWritten, NoElements DEF StreamTypeOK, WriteFails, Returned, Nak, FlushReturns
  <2>3. WriterTypeOK'
    BY <1>12, RowsWritten, NoElements DEF WriterTypeOK, Held, StreamTypeOK, WriteFails, Returned, Nak, FlushReturns
  <2>4. StoreTypeOK'
    BY <1>12, RowsWritten, NoElements DEF StoreTypeOK, StreamTypeOK, WriteFails, Returned, Nak, FlushReturns
  <2> QED
    BY <1>12, <2>1, <2>2, <2>3, <2>4 DEF WriteFails, Returned, Nak, FlushReturns
<1>13. CASE WriteRefused
  <2>1. IngestionTypeOK'
    BY <1>13, NoElements DEF IngestionTypeOK, StreamTypeOK, WriteRefused, Dropped, Ack, FlushReturns
  <2>2. StreamTypeOK'
    BY <1>13, NoElements DEF StreamTypeOK, WriteRefused, Dropped, Ack, FlushReturns
  <2>3. WriterTypeOK'
    BY <1>13, BatchDropped DEF WriteRefused, Dropped
  <2>4. StoreTypeOK'
    BY <1>13, NoElements DEF StoreTypeOK, StreamTypeOK, WriteRefused, Dropped, Ack, FlushReturns
  <2> QED
    BY <1>13, <2>1, <2>2, <2>3, <2>4 DEF WriteRefused, Dropped, Ack, FlushReturns
<1>14. CASE WriteStalls
  <2>1. IngestionTypeOK'
    BY <1>14, RowsWritten, NoElements DEF IngestionTypeOK, StreamTypeOK, WriteStalls, Dropped, Ack, FlushReturns
  <2>2. StreamTypeOK'
    BY <1>14, RowsWritten, NoElements DEF StreamTypeOK, WriteStalls, Dropped, Ack, FlushReturns
  <2>3. WriterTypeOK'
    BY <1>14, BatchDropped DEF WriteStalls, Dropped
  <2>4. StoreTypeOK'
    BY <1>14, RowsWritten, NoElements DEF StoreTypeOK, StreamTypeOK, WriteStalls, Dropped, Ack, FlushReturns
  <2> QED
    BY <1>14, <2>1, <2>2, <2>3, <2>4 DEF WriteStalls, Dropped, Ack, FlushReturns
<1>15. CASE UpdateCache
  <2>1. IngestionTypeOK'
    BY <1>15, HeadHeld DEF IngestionTypeOK, StreamTypeOK, UpdateCache, Shown
  <2>2. StreamTypeOK'
    BY <1>15, HeadHeld DEF StreamTypeOK, UpdateCache, Shown
  <2>3. WriterTypeOK'
    BY <1>15, HeadHeld DEF WriterTypeOK, Held, StreamTypeOK, UpdateCache, Shown
  <2>4. StoreTypeOK'
    <3>1. batch # <<>>
      BY <1>15 DEF WriterTypeOK, UpdateCache
    <3>2. cache' \in [Sat -> 0..cursor]
      <4>1. cache \in [Sat -> 0..cursor] /\ cursor \in Nat
        BY DEF StreamTypeOK, StoreTypeOK
      <4>2. SatAt(Head(batch)) \in Sat /\ Head(batch) \in 0..cursor
        BY <3>1, <4>1, HeadHeld
      <4>3. cache' = cache \/ cache' = [cache EXCEPT ![SatAt(Head(batch))] = Head(batch)]
        BY <1>15 DEF UpdateCache, Shown
      <4> QED BY <4>1, <4>2, <4>3
    <3> QED
      BY <1>15, <3>2 DEF StoreTypeOK, UpdateCache
  <2> QED
    BY <1>15, <2>1, <2>2, <2>3, <2>4 DEF UpdateCache, Shown
<1>16. CASE AckMessage
  <2>1. IngestionTypeOK'
    BY <1>16, Elements, NoElements DEF IngestionTypeOK, StreamTypeOK, AckMessage, Ack, FlushReturns
  <2>2. StreamTypeOK'
    BY <1>16, Elements, NoElements DEF StreamTypeOK, AckMessage, Ack, FlushReturns
  <2>3. WriterTypeOK'
    <3>1. batch # <<>>
      BY <1>16 DEF WriterTypeOK, AckMessage
    <3>2. CASE Len(batch) = 1
      BY <1>16, <3>2, NoElements DEF WriterTypeOK, Held, AckMessage, FlushReturns
    <3>3. CASE Len(batch) # 1
      <4>1. /\ Tail(batch) \in Seq(Nat) /\ Len(Tail(batch)) = Len(batch) - 1
            /\ ToSet(Tail(batch)) \subseteq ToSet(batch) /\ Len(batch) \in Nat /\ Len(batch) > 0
        BY <3>1, Elements DEF WriterTypeOK
      <4>2. Tail(batch) # <<>> /\ Len(Tail(batch)) <= BatchSize
        <5>1. PICK t : t = Tail(batch)
          OBVIOUS
        <5>2. Len(t) > 0 /\ Len(t) <= BatchSize
          BY <3>3, <4>1, <5>1, BoundAssumption DEF WriterTypeOK
        <5>3. t # <<>>
          BY <5>2, NoElements
        <5> QED BY <5>1, <5>2, <5>3, Zenon
      <4>3. batch' = Tail(batch) /\ phase' = "cache"
        BY <1>16, <3>3 DEF AckMessage
      <4> QED
        BY <1>16, <4>1, <4>2, <4>3 DEF WriterTypeOK, Held, AckMessage
    <3> QED BY <3>2, <3>3
  <2>4. StoreTypeOK'
    BY <1>16, Elements, NoElements DEF StoreTypeOK, StreamTypeOK, AckMessage, Ack, FlushReturns
  <2> QED
    BY <1>16, <2>1, <2>2, <2>3, <2>4 DEF AckMessage, Ack, FlushReturns
<1>17. ASSUME NEW f \in Frame, RedeliverRaw(f) PROVE TypeOK'
  <2>1. IngestionTypeOK'
    BY <1>17 DEF IngestionTypeOK, StreamTypeOK, RedeliverRaw
  <2>2. StreamTypeOK'
    BY <1>17 DEF StreamTypeOK, RedeliverRaw
  <2>3. WriterTypeOK'
    BY <1>17 DEF WriterTypeOK, Held, StreamTypeOK, RedeliverRaw
  <2>4. StoreTypeOK'
    BY <1>17 DEF StoreTypeOK, StreamTypeOK, RedeliverRaw
  <2> QED
    BY <1>17, <2>1, <2>2, <2>3, <2>4 DEF RedeliverRaw
<1>18. ASSUME NEW m \in Message, Redeliver(m) PROVE TypeOK'
  <2>1. IngestionTypeOK'
    BY <1>18 DEF IngestionTypeOK, StreamTypeOK, Redeliver, Nak
  <2>2. StreamTypeOK'
    BY <1>18 DEF StreamTypeOK, Redeliver, Nak
  <2>3. WriterTypeOK'
    BY <1>18 DEF WriterTypeOK, Held, StreamTypeOK, Redeliver, Nak
  <2>4. StoreTypeOK'
    BY <1>18 DEF StoreTypeOK, StreamTypeOK, Redeliver, Nak
  <2> QED
    BY <1>18, <2>1, <2>2, <2>3, <2>4 DEF Redeliver, Nak
<1>19. CASE Stop
  <2>1. IngestionTypeOK'
    BY <1>19, NoElements DEF IngestionTypeOK, StreamTypeOK, Stop
  <2>2. StreamTypeOK'
    BY <1>19, NoElements DEF StreamTypeOK, Stop
  <2>3. WriterTypeOK'
    BY <1>19, NoElements DEF WriterTypeOK, Held, StreamTypeOK, Stop
  <2>4. StoreTypeOK'
    BY <1>19, NoElements DEF StoreTypeOK, StreamTypeOK, Stop
  <2> QED
    BY <1>19, <2>1, <2>2, <2>3, <2>4 DEF Stop
<1>20. CASE Close
  <2>1. IngestionTypeOK'
    BY <1>20, NoElements DEF IngestionTypeOK, StreamTypeOK, Close, MemoryLost
  <2>2. StreamTypeOK'
    BY <1>20, NoElements DEF StreamTypeOK, Close, MemoryLost
  <2>3. WriterTypeOK'
    BY <1>20, NoElements DEF WriterTypeOK, Held, StreamTypeOK, Close, MemoryLost
  <2>4. StoreTypeOK'
    BY <1>20, NoElements DEF StoreTypeOK, StreamTypeOK, Close, MemoryLost
  <2> QED
    BY <1>20, <2>1, <2>2, <2>3, <2>4 DEF Close, MemoryLost
<1>21. CASE Crash
  <2>1. IngestionTypeOK'
    BY <1>21, NoElements DEF IngestionTypeOK, StreamTypeOK, Crash, MemoryLost
  <2>2. StreamTypeOK'
    BY <1>21, NoElements DEF StreamTypeOK, Crash, MemoryLost
  <2>3. WriterTypeOK'
    BY <1>21, NoElements DEF WriterTypeOK, Held, StreamTypeOK, Crash, MemoryLost
  <2>4. StoreTypeOK'
    BY <1>21, NoElements DEF StoreTypeOK, StreamTypeOK, Crash, MemoryLost
  <2> QED
    BY <1>21, <2>1, <2>2, <2>3, <2>4 DEF Crash, MemoryLost
<1>22. CASE Start
  <2>1. IngestionTypeOK'
    BY <1>22 DEF IngestionTypeOK, StreamTypeOK, Start
  <2>2. StreamTypeOK'
    BY <1>22 DEF StreamTypeOK, Start
  <2>3. WriterTypeOK'
    BY <1>22 DEF WriterTypeOK, Held, StreamTypeOK, Start
  <2>4. StoreTypeOK'
    BY <1>22 DEF StoreTypeOK, StreamTypeOK, Start
  <2> QED
    BY <1>22, <2>1, <2>2, <2>3, <2>4 DEF Start
<1>23. ASSUME NEW s \in Sat, CreateSatellite(s) PROVE TypeOK'
  <2>1. IngestionTypeOK'
    BY <1>23 DEF IngestionTypeOK, StreamTypeOK, CreateSatellite
  <2>2. StreamTypeOK'
    BY <1>23 DEF StreamTypeOK, CreateSatellite
  <2>3. WriterTypeOK'
    BY <1>23 DEF WriterTypeOK, Held, StreamTypeOK, CreateSatellite
  <2>4. StoreTypeOK'
    BY <1>23 DEF StoreTypeOK, StreamTypeOK, CreateSatellite
  <2> QED
    BY <1>23, <2>1, <2>2, <2>3, <2>4 DEF CreateSatellite
<1>24. ASSUME NEW s \in Sat, DeleteSatellite(s) PROVE TypeOK'
  <2>1. IngestionTypeOK'
    BY <1>24, RowsDeleted DEF IngestionTypeOK, StreamTypeOK, DeleteSatellite
  <2>2. StreamTypeOK'
    BY <1>24, RowsDeleted DEF StreamTypeOK, DeleteSatellite
  <2>3. WriterTypeOK'
    BY <1>24, RowsDeleted DEF WriterTypeOK, Held, StreamTypeOK, DeleteSatellite
  <2>4. StoreTypeOK'
    BY <1>24, RowsDeleted DEF StoreTypeOK, StreamTypeOK, DeleteSatellite
  <2> QED
    BY <1>24, <2>1, <2>2, <2>3, <2>4 DEF DeleteSatellite
<1>25. CASE UNCHANGED vars
  <2>1. IngestionTypeOK'
    BY <1>25 DEF IngestionTypeOK, StreamTypeOK, vars
  <2>2. StreamTypeOK'
    BY <1>25 DEF StreamTypeOK, vars
  <2>3. WriterTypeOK'
    BY <1>25 DEF WriterTypeOK, Held, StreamTypeOK, vars
  <2>4. StoreTypeOK'
    BY <1>25 DEF StoreTypeOK, StreamTypeOK, vars
  <2> QED
    BY <1>25, <2>1, <2>2, <2>3, <2>4 DEF vars
<1> QED
  BY <1>1, <1>2, <1>3, <1>4, <1>5, <1>6, <1>7, <1>8, <1>9, <1>10, <1>11, <1>12, <1>13, <1>14, <1>15, <1>16, <1>17, <1>18, <1>19, <1>20, <1>21, <1>22, <1>23, <1>24, <1>25
     DEF Next, Handler, Flusher

(* Every variable keeps its type: nothing is handed out or held that was    *)
(* not delivered, what is due again is not outstanding, and the queue and   *)
(* the batch keep their bounds.                                             *)
THEOREM PipelineTypeCorrect == Spec => []TypeOK
  BY TypesInit, TypesStep, PTL DEF Spec

----------------------------------------------------------------------------
(* What ingestion has established when                                     *)

(* A loaded registry knows every satellite that stays registered, so the    *)
(* handler looks up others only.                                           *)
StandingKnown ==
  /\ loaded => Standing \subseteq known
  /\ step = "lookup" => loaded /\ SatOf[frame] \notin Standing

(* The frame about to be acknowledged has its canonical form on the bus.    *)
Published == step = "ack" => frame \in ToSet(canon)

HeardInv == StandingKnown /\ StandingHeard
PublishedInv == Published /\ AckedAfterPublication

(* Only ingestion's own steps, and the end of the process, touch its state. *)
LEMMA IngestionAlone ==
  ASSUME [Next]_vars
  PROVE  \/ UNCHANGED ingestion
         \/ \E f \in Frame : Receive(f)
         \/ Recognise \/ LookUp \/ HandlerRaises
         \/ Publish \/ PublishFails \/ AckFrame \/ Close \/ Crash
  BY DEF Next, Handler, Flusher, vars, RedeliverRaw, Enqueue, Redeliver, Collect, NothingLeft,
         WriteBatch, WriteFails, WriteRefused, WriteStalls, Dropped, UpdateCache, AckMessage,
         Stop, Start, CreateSatellite, DeleteSatellite

\* A frame is looked up before it is published, and a satellite that stays registered is found
\* (ingestion/service.py).
LEMMA HeardStep == TypeOK /\ HeardInv /\ [Next]_vars => HeardInv'
<1> SUFFICES ASSUME TypeOK, HeardInv, [Next]_vars PROVE HeardInv'
  OBVIOUS
<1> USE DEF HeardInv, StandingKnown, StandingHeard, ingestion, registry, Returns
<1>1. CASE UNCHANGED ingestion
  BY <1>1
<1>2. ASSUME NEW f \in Frame, Receive(f) PROVE HeardInv'
  <2>1. step' # "lookup" /\ loaded' = loaded /\ known' = known
    BY <1>2 DEF Receive, TypeOK, IngestionTypeOK
  <2>2. \A g \in rejected' : g \in rejected \/ g \in Garbled
    BY <1>2 DEF Receive
  <2> QED BY <2>1, <2>2
<1>3. CASE Recognise
  <2>1. loaded' /\ Standing \subseteq known'
    BY <1>3 DEF Recognise, Consulted, TypeOK, StoreTypeOK
  <2>2. step' = "lookup" => SatOf[frame'] \notin Standing
    BY <1>3, <2>1 DEF Recognise, Reject
  <2>3. \A g \in rejected' : g \in rejected \/ SatOf[g] \notin Standing
    BY <1>3, <2>1 DEF Recognise, Reject
  <2> QED BY <2>1, <2>2, <2>3
<1>4. CASE LookUp
  <2>1. loaded' = loaded /\ known \subseteq known' /\ step' # "lookup"
    BY <1>4 DEF LookUp, Reject
  <2>2. \A g \in rejected' : g \in rejected \/ SatOf[g] \notin Standing
    BY <1>4 DEF LookUp, Reject
  <2> QED BY <2>1, <2>2
<1>5. CASE HandlerRaises \/ Publish \/ PublishFails \/ AckFrame
  BY <1>5 DEF HandlerRaises, Publish, PublishFails, AckFrame
<1>6. CASE Close \/ Crash
  BY <1>6 DEF Close, Crash, MemoryLost
<1> QED
  BY <1>1, <1>2, <1>3, <1>4, <1>5, <1>6, IngestionAlone

(* No frame of a satellite that stays registered is dropped because of what *)
(* the registry has cached, has cached as unknown, or may not look up.      *)
THEOREM StandingSatellitesHeard == Spec => []StandingHeard
<1>1. Init => HeardInv
  BY DEF Init, HeardInv, StandingKnown, StandingHeard
<1>2. HeardInv => StandingHeard
  BY DEF HeardInv
<1> QED
  BY <1>1, <1>2, HeardStep, PipelineTypeCorrect, PTL DEF Spec

(* The stream only grows.                                                  *)
LEMMA StreamOnlyGrows ==
  ASSUME TypeOK, [Next]_vars
  PROVE  /\ UNCHANGED canon \/ (step = "publish" /\ Stored)
         /\ ToSet(canon) \subseteq ToSet(canon')
         /\ Message \subseteq Message'
         /\ \A m \in Message : canon'[m] = canon[m]
<1>1. UNCHANGED canon \/ (step = "publish" /\ Stored)
  BY DEF Next, Handler, Flusher, vars, bus, Receive, RedeliverRaw, Recognise, LookUp,
         HandlerRaises, Publish, PublishFails, AckFrame, Enqueue, Redeliver, Collect,
         NothingLeft, WriteBatch, WriteFails, WriteRefused, WriteStalls, Dropped, UpdateCache,
         AckMessage, Stop, Close, Crash, Start, CreateSatellite, DeleteSatellite
<1>2. CASE UNCHANGED canon
  BY <1>2 DEF Message
<1>3. CASE step = "publish" /\ Stored
  <2>1. Message = 1..Len(canon) /\ Message' = 1..Len(canon') /\ Len(canon) \in Nat
    BY <1>3, MessageStored DEF Message, TypeOK, StreamTypeOK
  <2> QED
    BY <1>3, <2>1, MessageStored
<1> QED
  BY <1>1, <1>2, <1>3

\* A frame is acknowledged after its message is in the stream (ingestion/service.py).
LEMMA PublishedStep == TypeOK /\ PublishedInv /\ [Next]_vars => PublishedInv'
<1> SUFFICES ASSUME TypeOK, PublishedInv, [Next]_vars PROVE PublishedInv'
  OBVIOUS
<1>1. ToSet(canon) \subseteq ToSet(canon')
  BY StreamOnlyGrows
<1>2. Published'
  <2> USE DEF PublishedInv, Published
  <2>1. CASE UNCHANGED ingestion
    BY <1>1, <2>1 DEF ingestion
  <2>2. CASE Publish
    BY <2>2, MessageStored DEF Publish
  <2>3. ASSUME NEW f \in Frame, Receive(f) PROVE Published'
    BY <1>1, <2>3 DEF Receive
  <2>4. CASE Recognise \/ LookUp \/ HandlerRaises \/ PublishFails \/ AckFrame \/ Close \/ Crash
    BY <2>4 DEF Recognise, LookUp, Reject, HandlerRaises, PublishFails, AckFrame, Returns,
                Close, Crash, MemoryLost
  <2> QED
    BY <2>1, <2>2, <2>3, <2>4, IngestionAlone
<1>3. rejected \subseteq rejected'
  <2>1. CASE UNCHANGED ingestion
    BY <2>1 DEF ingestion
  <2>2. ASSUME NEW f \in Frame, Receive(f) PROVE rejected \subseteq rejected'
    BY <2>2 DEF Receive
  <2>3. CASE Recognise \/ LookUp \/ HandlerRaises \/ Publish \/ PublishFails \/ AckFrame
             \/ Close \/ Crash
    BY <2>3 DEF Recognise, LookUp, Reject, HandlerRaises, Publish, PublishFails, AckFrame,
                Close, Crash
  <2> QED
    BY <2>1, <2>2, <2>3, IngestionAlone
<1>4. ASSUME NEW g \in Frame, raw'[g] = "acked"
      PROVE  raw[g] = "acked" \/ g \in rejected' \/ g \in ToSet(canon)
  <2> USE DEF AckRaw, NakRaw
  <2>1. raw \in [Frame -> {"waiting", "out", "acked"}]
    BY DEF TypeOK, IngestionTypeOK
  <2>2. CASE UNCHANGED raw
    BY <1>4, <2>2
  <2>3. ASSUME NEW f \in Frame, Receive(f) \/ RedeliverRaw(f)
        PROVE  raw[g] = "acked" \/ g \in rejected'
    BY <1>4, <2>1, <2>3 DEF Receive, RedeliverRaw
  <2>4. CASE Recognise \/ LookUp
    BY <1>4, <2>1, <2>4 DEF Recognise, LookUp, Reject
  <2>5. CASE PublishFails
    BY <1>4, <2>1, <2>5 DEF PublishFails, AfterFailure
  <2>6. CASE AckFrame
    BY <1>4, <2>1, <2>6 DEF AckFrame, PublishedInv, Published
  <2> QED
    BY <2>2, <2>3, <2>4, <2>5, <2>6
       DEF Next, Handler, Flusher, vars, bus, HandlerRaises, Publish, Enqueue, Redeliver,
           Collect, NothingLeft, WriteBatch, WriteFails, WriteRefused, WriteStalls, Dropped,
           UpdateCache, AckMessage, Stop, Close, Crash, Start, CreateSatellite, DeleteSatellite
<1> QED
  BY <1>1, <1>2, <1>3, <1>4 DEF PublishedInv, AckedAfterPublication

(* A raw frame leaves the stream only when its canonical form is on it, or  *)
(* when ingestion decided to drop it: no failed publish loses a frame.      *)
THEOREM PublishedBeforeAck == Spec => []AckedAfterPublication
<1>1. Init => PublishedInv
  BY DEF Init, PublishedInv, Published, AckedAfterPublication
<1>2. PublishedInv => AckedAfterPublication
  BY DEF PublishedInv
<1> QED
  BY <1>1, <1>2, PublishedStep, PipelineTypeCorrect, PTL DEF Spec

----------------------------------------------------------------------------
(* What the writer has established when                                    *)

(* A batch past its transaction is in the table.                            *)
BatchWritten ==
  phase \in {"cache", "ack"} =>
    \A m \in ToSet(batch) : SatAt(m) \in Standing => rows[m] > 0

(* A mode key shows an observation of its own satellite.                    *)
CacheOwned == \A s \in Sat : cache[s] # 0 => SatAt(cache[s]) = s

WrittenInv == BatchWritten /\ AckedAfterWrite
CacheInv == CacheOwned /\ CacheAfterTable

(* What was delivered or is held is a message of the stream.                *)
LEMMA HeldMessages ==
  ASSUME TypeOK
  PROVE  /\ ToSet(batch) \subseteq 1..cursor /\ 1..cursor \subseteq Message
         /\ \A m \in Message : m \in Nat /\ rows[m] \in Nat
         /\ \A m \in 1..cursor : m # 0
<1>1. Message = 1..Len(canon) /\ Len(canon) \in Nat
  BY DEF Message, TypeOK, StreamTypeOK
<1>2. ToSet(batch) \subseteq 1..cursor
  BY DEF TypeOK, WriterTypeOK, Held
<1>3. cursor \in Nat /\ 1..cursor \subseteq Message /\ \A m \in 1..cursor : m # 0
  BY <1>1 DEF TypeOK, StreamTypeOK
<1>4. \A m \in Message : m \in Nat /\ rows[m] \in Nat
  BY <1>1 DEF TypeOK, StoreTypeOK
<1> QED
  BY <1>2, <1>3, <1>4

\* An insertion adds a row for every message of the batch (storage/writer.py).
LEMMA InsertedMore ==
  ASSUME TypeOK, NEW m \in Message
  PROVE  Inserted[m] >= rows[m] /\ (m \in ToSet(batch) => Inserted[m] > 0)
<1>1. Inserted[m] = rows[m] + Times(m)
  BY DEF Inserted
<1> QED
  BY <1>1, TimesCounts, HeldMessages DEF TypeOK, WriterTypeOK

(* The rows of a satellite that stays registered stay.                      *)
LEMMA RowsStay ==
  ASSUME TypeOK, [Next]_vars, NEW m \in Message, SatAt(m) \in Standing, rows[m] > 0
  PROVE  rows'[m] > 0
<1>1. rows[m] \in Nat
  BY HeldMessages
<1>2. CASE UNCHANGED rows
  BY <1>2
<1>3. CASE step = "publish" /\ Stored
  <2>1. m \in 1..Len(canon)
    BY DEF Message, TypeOK, StreamTypeOK
  <2> QED BY <1>3, <2>1, MessageStored
<1>4. CASE rows' = Inserted
  <2>1. Inserted[m] \in Nat
    BY RowsWritten DEF Message, TypeOK, StreamTypeOK
  <2> QED
    BY <1>1, <1>4, <2>1, InsertedMore
<1>5. ASSUME NEW s \in Sat, DeleteSatellite(s) PROVE rows'[m] > 0
  BY <1>5 DEF DeleteSatellite
<1> QED
  BY <1>2, <1>3, <1>4, <1>5
     DEF Next, Handler, Flusher, vars, stores, Receive, RedeliverRaw, Recognise, LookUp,
         HandlerRaises, Publish, PublishFails, AckFrame, Enqueue, Redeliver, Collect,
         NothingLeft, WriteBatch, WriteFails, WriteRefused, WriteStalls, UpdateCache,
         AckMessage, Stop, Close, Crash, Start, CreateSatellite

(* Who gives up what: the steps after which more is acknowledged.           *)
LEMMA AckedBy ==
  ASSUME TypeOK, [Next]_vars, NEW m \in Acked'
  PROVE  \/ m \in Acked
         \/ m \in ToSet(batch) /\ Dropped
         \/ batch # <<>> /\ m = Head(batch) /\ AckMessage
<1>1. cursor \in Nat /\ redo \subseteq 1..cursor /\ out \subseteq 1..cursor
  BY DEF TypeOK, StreamTypeOK
<1> USE DEF Acked
<1>2. CASE cursor' = cursor /\ redo \cup out \subseteq redo' \cup out'
  BY <1>2
<1>3. CASE Dropped
  BY <1>3 DEF Dropped, Ack
<1>4. CASE AckMessage
  BY <1>4 DEF AckMessage, Ack, TypeOK, WriterTypeOK
<1>5. ASSUME NEW k \in Message, Enqueue(k) PROVE m \in Acked
  <2>1. k \in redo' \cup out' /\ redo \cup out \subseteq redo' \cup out' \cup {k}
    BY <1>5 DEF Enqueue, Offer, Accept
  <2>2. cursor' = cursor \/ (cursor' = cursor + 1 /\ k = cursor + 1)
    BY <1>5 DEF Enqueue
  <2> QED
    BY <1>1, <2>1, <2>2
<1>6. CASE WriteFails
  BY <1>2, <1>6 DEF WriteFails, Returned, Nak
<1>7. ASSUME NEW k \in Message, Redeliver(k) PROVE m \in Acked
  BY <1>2, <1>7 DEF Redeliver, Nak
<1> QED
  BY <1>2, <1>3, <1>4, <1>5, <1>6, <1>7
     DEF Next, Handler, Flusher, vars, bus, Receive, RedeliverRaw, Recognise, LookUp,
         HandlerRaises, Publish, PublishFails, AckFrame, Collect, NothingLeft, WriteBatch,
         WriteRefused, WriteStalls, UpdateCache, Stop, Close, Crash, Start, CreateSatellite,
         DeleteSatellite

\* A message is acknowledged after its row is in the table (storage/writer.py).
LEMMA WrittenStep == TypeOK /\ WrittenInv /\ [Next]_vars => WrittenInv'
<1> SUFFICES ASSUME TypeOK, WrittenInv, [Next]_vars PROVE WrittenInv'
  OBVIOUS
<1>1. \A m \in Message : SatAt(m)' = SatAt(m)
  BY StreamOnlyGrows DEF SatAt
<1>2. ASSUME phase' \in {"cache", "ack"}, NEW m \in ToSet(batch'), SatAt(m)' \in Standing
      PROVE  rows'[m] > 0
  <2>1. \/ UNCHANGED <<batch, phase>> \/ WriteBatch
        \/ UpdateCache \/ AckMessage
    BY <1>2 DEF Next, Handler, Flusher, vars, writer, Receive, RedeliverRaw, Recognise, LookUp,
         HandlerRaises, Publish, PublishFails, AckFrame, Enqueue, Redeliver, Collect,
         NothingLeft, WriteFails, WriteRefused, WriteStalls, Dropped, FlushReturns, Stop,
         Close, Crash, MemoryLost, Start, CreateSatellite, DeleteSatellite
  <2>2. ToSet(batch') \subseteq ToSet(batch)
    <3>1. CASE UNCHANGED batch
      BY <3>1
    <3>2. CASE AckMessage
      <4>1. batch # <<>> /\ batch \in Seq(Nat)
        BY <3>2 DEF AckMessage, TypeOK, WriterTypeOK
      <4>2. batch' = <<>> \/ batch' = Tail(batch)
        BY <3>2 DEF AckMessage, FlushReturns
      <4> QED BY <4>1, <4>2, Elements, NoElements
    <3> QED BY <2>1, <3>1, <3>2 DEF WriteBatch, UpdateCache
  <2>3. m \in ToSet(batch) /\ m \in Message /\ SatAt(m) \in Standing
    BY <1>1, <1>2, <2>2, HeldMessages
  <2>4. CASE WriteBatch
    BY <2>3, <2>4, InsertedMore DEF WriteBatch
  <2>5. CASE phase \in {"cache", "ack"}
    BY <2>3, <2>5, RowsStay DEF WrittenInv, BatchWritten
  <2> QED
    BY <1>2, <2>1, <2>4, <2>5 DEF UpdateCache, AckMessage
<1>3. ASSUME NEW m \in Acked', SatAt(m)' \in Standing
      PROVE  rows'[m] > 0 \/ m \in refused'
  <2>1. refused \subseteq refused'
    BY DEF Next, Handler, Flusher, vars, writer, Receive, RedeliverRaw, Recognise, LookUp,
         HandlerRaises, Publish, PublishFails, AckFrame, Enqueue, Redeliver, Collect,
         NothingLeft, WriteBatch, WriteFails, WriteRefused, WriteStalls, Dropped, UpdateCache,
         AckMessage, Stop, Close, Crash, Start, CreateSatellite, DeleteSatellite
  <2>2. CASE m \in Acked
    <3>1. m \in Message
      BY <2>2, HeldMessages DEF Acked
    <3> QED
      BY <1>1, <1>3, <2>1, <2>2, <3>1, RowsStay DEF WrittenInv, AckedAfterWrite
  <2>3. CASE m \in ToSet(batch) /\ Dropped
    BY <2>3 DEF Dropped
  <2>4. CASE batch # <<>> /\ m = Head(batch) /\ AckMessage
    <3>1. m \in ToSet(batch) /\ m \in Message /\ phase = "ack"
      BY <2>4, HeadHeld DEF AckMessage
    <3> QED
      BY <1>1, <1>3, <3>1, RowsStay DEF WrittenInv, BatchWritten
  <2> QED
    BY <2>2, <2>3, <2>4, AckedBy
<1> QED
  BY <1>2, <1>3 DEF WrittenInv, BatchWritten, AckedAfterWrite

(* A canonical message leaves the stream only when its row is in the table  *)
(* or the failure of its batch is in the log: neither a lost connection,    *)
(* nor a cancelled flush, a crash or a full queue loses one.                *)
THEOREM WrittenBeforeAck == Spec => []AckedAfterWrite
<1>1. Init => WrittenInv
  BY DEF Init, WrittenInv, BatchWritten, AckedAfterWrite, Acked
<1>2. WrittenInv => AckedAfterWrite
  BY DEF WrittenInv
<1> QED
  BY <1>1, <1>2, WrittenStep, PipelineTypeCorrect, PTL DEF Spec

\* A mode reaches the cache after its row is in the table (storage/writer.py).
LEMMA CacheStep ==
  TypeOK /\ TypeOK' /\ WrittenInv /\ CacheInv /\ [Next]_vars => CacheInv'
<1> SUFFICES ASSUME TypeOK, TypeOK', WrittenInv, CacheInv, [Next]_vars PROVE CacheInv'
  OBVIOUS
<1>1. \A m \in Message : SatOf[canon'[m]] = SatAt(m)
  BY StreamOnlyGrows DEF SatAt
<1>2. cache \in [Sat -> 0..cursor] /\ cursor \in Nat
  BY DEF TypeOK, StreamTypeOK, StoreTypeOK
<1>3. ASSUME NEW s \in Sat, cache'[s] # 0
      PROVE  /\ SatOf[canon'[cache'[s]]] = s
             /\ s \in Standing => rows'[cache'[s]] > 0
  <2>1. CASE cache'[s] = cache[s]
    <3>1. cache[s] \in Message
      BY <1>2, <1>3, <2>1, HeldMessages
    <3>2. SatAt(cache[s]) = s /\ (s \in Standing => rows[cache[s]] > 0)
      BY <1>3, <2>1 DEF CacheInv, CacheOwned, CacheAfterTable
    <3> QED
      BY <1>1, <2>1, <3>1, <3>2, RowsStay
  <2>2. CASE phase = "cache" /\ batch # <<>> /\ Shown(Head(batch)) /\ cache'[s] # cache[s]
    <3>1. s = SatAt(Head(batch)) /\ cache'[s] = Head(batch)
      BY <1>2, <2>2 DEF Shown
    <3>2. Head(batch) \in ToSet(batch) /\ Head(batch) \in Message
      BY <2>2, HeadHeld
    <3>3. s \in Standing => rows[Head(batch)] > 0
      BY <2>2, <3>1, <3>2 DEF WrittenInv, BatchWritten
    <3> QED
      BY <1>1, <3>1, <3>2, <3>3, RowsStay
  <2>3. cache' = cache \/ UpdateCache
    BY DEF Next, Handler, Flusher, vars, stores, Receive, RedeliverRaw, Recognise, LookUp,
         HandlerRaises, Publish, PublishFails, AckFrame, Enqueue, Redeliver, Collect,
         NothingLeft, WriteBatch, WriteFails, WriteRefused, WriteStalls, Dropped,
         AckMessage, Stop, Close, Crash, Start, CreateSatellite, DeleteSatellite
  <2> QED
    BY <2>1, <2>2, <2>3 DEF UpdateCache, TypeOK, WriterTypeOK
<1> QED
  BY <1>3 DEF CacheInv, CacheOwned, CacheAfterTable, SatAt

(* The mode cache never shows an observation that the table does not have. *)
THEOREM CacheBehindTable == Spec => []CacheAfterTable
<1>1. Init => WrittenInv /\ CacheInv
  BY DEF Init, WrittenInv, BatchWritten, AckedAfterWrite, Acked, CacheInv, CacheOwned,
         CacheAfterTable
<1>2. CacheInv => CacheAfterTable
  BY DEF CacheInv
<1> QED
  BY <1>1, <1>2, CacheStep, WrittenStep, PipelineTypeCorrect, PTL DEF Spec

----------------------------------------------------------------------------
(* How often something is written                                          *)

(* How often a sequence has an element.                                    *)
Occ(s, x) == Cardinality({i \in DOMAIN s : s[i] = x})

(* Occurrences are a number, and none for what is not in the sequence.      *)
LEMMA OccCounts ==
  ASSUME NEW S, NEW s \in Seq(S), NEW x
  PROVE  /\ Occ(s, x) \in Nat
         /\ x \in ToSet(s) <=> Occ(s, x) > 0
<1> DEFINE I == {i \in DOMAIN s : s[i] = x}
<1>1. IsFiniteSet(1..Len(s)) /\ DOMAIN s = 1..Len(s)
  BY FS_Interval
<1>2. IsFiniteSet(I)
  BY <1>1, FS_Subset
<1>3. Cardinality(I) \in Nat /\ (Cardinality(I) = 0 <=> I = {})
  BY <1>2, FS_CardinalityType, FS_EmptySet
<1>4. x \in ToSet(s) <=> I # {}
  BY DEF ToSet
<1>5. Occ(s, x) = Cardinality(I)
  BY DEF Occ
<1> HIDE DEF I
<1> QED
  BY <1>3, <1>4, <1>5

\* An empty sequence has nothing.
LEMMA OccEmpty == \A x : Occ(<<>>, x) = 0
<1> TAKE x
<1>1. {i \in DOMAIN <<>> : <<>>[i] = x} = {}
  OBVIOUS
<1> QED BY <1>1, FS_EmptySet DEF Occ

(* What is appended occurs once more.                                      *)
LEMMA OccAppend ==
  ASSUME NEW S, NEW s \in Seq(S), NEW y \in S, NEW x
  PROVE  Occ(Append(s, y), x) = Occ(s, x) + (IF x = y THEN 1 ELSE 0)
<1> DEFINE I == {i \in DOMAIN s : s[i] = x}
           J == {i \in DOMAIN Append(s, y) : Append(s, y)[i] = x}
           n == Len(s) + 1
<1>1. /\ DOMAIN s = 1..Len(s) /\ DOMAIN Append(s, y) = 1..n /\ Len(s) \in Nat
      /\ Append(s, y)[n] = y
      /\ \A i \in 1..Len(s) : Append(s, y)[i] = s[i]
  OBVIOUS
<1>2. 1..n = 1..Len(s) \cup {n} /\ n \notin 1..Len(s)
  BY <1>1
<1>3. J = IF x = y THEN I \cup {n} ELSE I
  BY <1>1, <1>2
<1>4. IsFiniteSet(I) /\ n \notin I
  <2>1. IsFiniteSet(1..Len(s))
    BY <1>1, FS_Interval
  <2>2. I \subseteq 1..Len(s)
    BY <1>1
  <2> QED BY <1>2, <2>1, <2>2, FS_Subset
<1>5. Cardinality(I) \in Nat /\ Cardinality(I \cup {n}) = Cardinality(I) + 1
  BY <1>4, FS_AddElement, FS_CardinalityType
<1>6. Occ(s, x) = Cardinality(I) /\ Occ(Append(s, y), x) = Cardinality(J)
  BY DEF Occ
<1> HIDE DEF I, J
<1> QED BY <1>3, <1>5, <1>6

(* A sequence cut in two.                                                  *)
LEMMA OccCut ==
  ASSUME NEW s \in Seq(Nat), NEW k \in 0..Len(s), NEW x
  PROVE  Occ(s, x) = Occ(SubSeq(s, 1, k), x) + Occ(SubSeq(s, k + 1, Len(s)), x)
<1> DEFINE front == SubSeq(s, 1, k)
           rest == SubSeq(s, k + 1, Len(s))
           A == {i \in 1..k : s[i] = x}
           B == {i \in k + 1..Len(s) : s[i] = x}
           C == {j \in 1..Len(s) - k : rest[j] = x}
           shift == [j \in C |-> j + k]
<1>1. /\ Len(s) \in Nat /\ k \in Nat /\ k <= Len(s)
      /\ DOMAIN s = 1..Len(s) /\ DOMAIN front = 1..k /\ DOMAIN rest = 1..Len(s) - k
      /\ \A i \in 1..k : front[i] = s[i]
      /\ \A j \in 1..Len(s) - k : rest[j] = s[j + k]
  BY SMTT(30)
<1> HIDE DEF front, rest
<1>2. Occ(front, x) = Cardinality(A)
  BY <1>1 DEF Occ
<1>3. Occ(rest, x) = Cardinality(C)
  BY <1>1 DEF Occ
<1>4. shift \in Bijection(C, B)
  <2>1. shift \in [C -> B]
    BY <1>1
  <2>2. \A i, j \in C : i # j => shift[i] # shift[j]
    BY <1>1
  <2>3. \A i \in B : i - k \in C /\ shift[i - k] = i
    BY <1>1, SMTT(30)
  <2> QED
    <3> HIDE DEF B, C, shift
    <3> QED BY <2>1, <2>2, <2>3 DEF Bijection, Injection, Surjection, IsInjective
<1>5. IsFiniteSet(A) /\ IsFiniteSet(B) /\ IsFiniteSet(C)
  <2>1. IsFiniteSet(1..k) /\ IsFiniteSet(k + 1..Len(s)) /\ IsFiniteSet(1..Len(s) - k)
    <3>1. {1, k, k + 1, Len(s), Len(s) - k} \subseteq Int
      BY <1>1
    <3> QED BY <3>1, FS_Interval
  <2>2. A \subseteq 1..k /\ B \subseteq k + 1..Len(s) /\ C \subseteq 1..Len(s) - k
    OBVIOUS
  <2> HIDE DEF A, B, C
  <2> QED BY <2>1, <2>2, FS_Subset
<1>6. Cardinality(B) = Cardinality(C)
  BY <1>4, <1>5, FS_Bijection DEF ExistsBijection
<1>7. {i \in DOMAIN s : s[i] = x} = A \cup B /\ A \cap B = {}
  BY <1>1
<1>8. Occ(s, x) = Cardinality(A \cup B)
  BY <1>7 DEF Occ
<1> HIDE DEF A, B, C
<1>9. Cardinality(A \cup B) = Cardinality(A) + Cardinality(B) - Cardinality(A \cap B)
  BY <1>5, FS_Union
<1>10. Cardinality(A) \in Nat /\ Cardinality(B) \in Nat /\ Cardinality(A \cap B) = 0
  BY <1>5, <1>7, FS_CardinalityType, FS_EmptySet
<1>11. Occ(s, x) = Occ(front, x) + Occ(rest, x)
  BY <1>2, <1>3, <1>6, <1>8, <1>9, <1>10
<1> QED BY <1>11 DEF front, rest

----------------------------------------------------------------------------
(* Rows are written once, or a fault pays                                  *)

(* JetStream will hand the message to the writer.                           *)
Waits(m) == m > cursor \/ m \in redo \/ (m \in out /\ m \notin Held)

(* How many rows of a message are still to come if nothing else goes wrong. *)
ToWrite(m) ==
  Occ(queue, m) + (IF phase = "write" THEN Occ(batch, m) ELSE 0)
                + (IF Waits(m) THEN 1 ELSE 0)

RowsPaid == \A m \in Message : rows[m] + ToWrite(m) <= 1 + faults

(* The same for the copies of a frame on the stream; a process that stops   *)
(* drops the callback that runs.                                           *)
ToPublish(f) ==
  (IF raw[f] = "waiting" \/ (raw[f] = "out" /\ frame # f) THEN 1 ELSE 0)
  + (IF frame = f /\ step \in {"check", "lookup", "publish"} THEN 1 ELSE 0)
  + (IF up = "stopping" THEN 1 ELSE 0)

CopiesPaid == \A f \in Frame : Occ(canon, f) + ToPublish(f) <= 1 + faults

(* The last flush belongs to a process that is stopping.                    *)
LastFlush ==
  /\ phase \in {"final", "over"} => up = "stopping"
  /\ up = "down" => phase = "sleep"

DuplicateInv == RowsPaid /\ CopiesPaid /\ LastFlush

(* The writer's sequences as counts.                                       *)
LEMMA WriterCounts ==
  ASSUME TypeOK, NEW m
  PROVE  /\ Occ(queue, m) \in Nat /\ Occ(batch, m) \in Nat
         /\ m \in Held <=> Occ(queue, m) > 0 \/ Occ(batch, m) > 0
         /\ Times(m) = Occ(batch, m)
         /\ batch = <<>> => Occ(batch, m) = 0
<1>1. queue \in Seq(Nat) /\ batch \in Seq(Nat)
  BY DEF TypeOK, WriterTypeOK
<1>2. Times(m) = Occ(batch, m)
  BY DEF Times, Occ
<1> QED
  BY <1>1, <1>2, OccCounts, OccEmpty DEF Held

(* What the steps do that write rows, hand out messages or lose them.       *)
LEMMA NextRows ==
  ASSUME [Next]_vars
  PROVE  \/ UNCHANGED <<cursor, redo, out, queue, batch, phase>> /\ faults' \in {faults, faults + 1}
            /\ (UNCHANGED rows \/ (step = "publish" /\ Stored) \/ \E s \in Sat : DeleteSatellite(s))
         \/ \E k \in Message : Enqueue(k) \/ Redeliver(k)
         \/ Collect \/ NothingLeft \/ WriteBatch \/ WriteFails \/ WriteRefused \/ WriteStalls
         \/ UpdateCache \/ AckMessage \/ Stop \/ Close \/ Crash
  BY DEF Next, Handler, Flusher, vars, bus, writer, stores, Receive, RedeliverRaw, Recognise,
         LookUp, HandlerRaises, Publish, PublishFails, AckFrame, Start, CreateSatellite,
         DeleteSatellite, Fault

(* One message, one step.                                                  *)
LEMMA RowsStepPaid ==
  ASSUME TypeOK, TypeOK', [Next]_vars, LastFlush, NEW m \in Message
  PROVE  rows'[m] + ToWrite(m)' <= rows[m] + ToWrite(m) + (faults' - faults)
<1> DEFINE q == Occ(queue, m)
           b == Occ(batch, m)
           o == IF Waits(m) THEN 1 ELSE 0
           r == rows[m]
<1> HIDE FrameAssumption, SatAssumption, BoundAssumption
<1>1. /\ q \in Nat /\ b \in Nat /\ r \in Nat /\ q' \in Nat /\ b' \in Nat
      /\ o \in {0, 1} /\ o' \in {0, 1} /\ faults \in Nat
      /\ m \in Nat /\ cursor \in Nat /\ m \in 1..Len(canon) /\ redo \subseteq 1..cursor
  <2>1. q' = Occ(queue', m) /\ b' = Occ(batch', m)
    BY DEF Occ
  <2>2. queue' \in Seq(Nat) /\ batch' \in Seq(Nat)
    BY DEF TypeOK, WriterTypeOK
  <2>3. q' \in Nat /\ b' \in Nat
    BY <2>1, <2>2, OccCounts
  <2>4. q \in Nat /\ b \in Nat
    BY WriterCounts
  <2>5. m \in Nat /\ r \in Nat
    BY HeldMessages
  <2>6. faults \in Nat /\ cursor \in Nat /\ m \in 1..Len(canon) /\ redo \subseteq 1..cursor
    BY DEF TypeOK, StreamTypeOK, Message
  <2>7. o \in {0, 1} /\ o' \in {0, 1}
    OBVIOUS
  <2> HIDE DEF q, b, o, r
  <2> QED
    BY <2>3, <2>4, <2>5, <2>6, <2>7
<1>2. /\ ToWrite(m) = q + (IF phase = "write" THEN b ELSE 0) + o
      /\ ToWrite(m)' = q' + (IF phase' = "write" THEN b' ELSE 0) + o'
  BY DEF ToWrite
<1>3. /\ m \in Held <=> q > 0 \/ b > 0
      /\ batch = <<>> => b = 0
      /\ Times(m) = b
  BY WriterCounts
<1>4. /\ m \in Held' <=> q' > 0 \/ b' > 0
      /\ batch' = <<>> => b' = 0
      /\ UNCHANGED queue => q' = q
      /\ UNCHANGED batch => b' = b
  <2>1. q' = Occ(queue', m) /\ b' = Occ(batch', m)
    BY DEF Occ
  <2>2. queue' \in Seq(Nat) /\ batch' \in Seq(Nat)
    BY DEF TypeOK, WriterTypeOK
  <2>3. m \in Held' <=> m \in ToSet(queue') \/ m \in ToSet(batch')
    BY DEF Held, ToSet
  <2>4. batch' = <<>> => b' = 0
    BY <2>1, OccEmpty
  <2>5. (m \in ToSet(queue') <=> q' > 0) /\ (m \in ToSet(batch') <=> b' > 0)
    BY <2>1, <2>2, OccCounts
  <2>6. (UNCHANGED queue => q' = q) /\ (UNCHANGED batch => b' = b)
    BY <2>1
  <2> QED BY <2>3, <2>4, <2>5, <2>6
<1>5. /\ o = IF m > cursor \/ m \in redo \/ (m \in out /\ m \notin Held) THEN 1 ELSE 0
      /\ o' = IF m > cursor' \/ m \in redo' \/ (m \in out' /\ m \notin Held') THEN 1 ELSE 0
  BY DEF Waits
<1>6. /\ Inserted[m] = r + b
      /\ batch = <<>> <=> phase \in {"sleep", "final", "over"}
  BY <1>3 DEF Inserted, TypeOK, WriterTypeOK
<1> HIDE DEF q, b, o
<1> SUFFICES rows'[m] + (q' + (IF phase' = "write" THEN b' ELSE 0) + o')
               <= r + (q + (IF phase = "write" THEN b ELSE 0) + o) + (faults' - faults)
  BY <1>2
<1>7. CASE /\ UNCHANGED <<cursor, redo, out, queue, batch, phase>>
           /\ faults' \in {faults, faults + 1}
           /\ UNCHANGED rows \/ (step = "publish" /\ Stored) \/ \E s \in Sat : DeleteSatellite(s)
  <2>1. rows'[m] \in Nat /\ rows'[m] <= r
    <3>1. CASE step = "publish" /\ Stored
      BY <1>1, <3>1, MessageStored
    <3>2. ASSUME NEW s \in Sat, DeleteSatellite(s) PROVE rows'[m] \in Nat /\ rows'[m] <= r
      BY <1>1, <3>2 DEF DeleteSatellite
    <3> QED BY <1>1, <1>7, <3>1, <3>2
  <2>2. q' = q /\ b' = b
    BY <1>4, <1>7
  <2>3. o' = o
    BY <1>3, <1>4, <1>5, <1>7, <2>2
  <2> QED BY <1>1, <1>7, <2>1, <2>2, <2>3
<1>8. ASSUME NEW k \in Message, Enqueue(k)
      PROVE rows'[m] + (q' + (IF phase' = "write" THEN b' ELSE 0) + o')
               <= r + (q + (IF phase = "write" THEN b ELSE 0) + o) + (faults' - faults)
  <2>1. /\ UNCHANGED <<batch, phase, rows, faults>>
        /\ (k = cursor + 1 /\ cursor' = k) \/ (k \in redo /\ cursor' = cursor)
        /\ k \in Nat
    BY <1>8, HeldMessages DEF Enqueue, stores
  <2>2. b' = b
    BY <1>4, <2>1
  <2>3. CASE Accept(k)
    <3>1. q' = q + (IF m = k THEN 1 ELSE 0)
      <4>1. queue' = Append(queue, k) /\ queue \in Seq(Nat)
        BY <2>3 DEF Accept, TypeOK, WriterTypeOK
      <4>2. q' = Occ(queue', m)
        BY DEF q, Occ
      <4> QED BY <2>1, <4>1, <4>2, OccAppend DEF q
    <3>2. out' = out \cup {k} /\ redo' = redo \ {k}
      BY <2>3 DEF Accept
    <3>3. CASE m = k
      <4>1. o = 1
        BY <1>1, <1>5, <2>1, <3>3
      <4>2. o' = 0
        BY <1>1, <1>4, <1>5, <2>1, <3>1, <3>2, <3>3
      <4> QED BY <1>1, <2>1, <2>2, <3>1, <3>3, <4>1, <4>2
    <3>4. CASE m # k
      <4>1. o' = o
        BY <1>1, <1>3, <1>4, <1>5, <2>1, <2>2, <3>1, <3>2, <3>4
      <4> QED BY <1>1, <2>1, <2>2, <3>1, <3>4, <4>1
    <3> QED BY <3>3, <3>4
  <2>4. CASE redo' = redo \cup {k} /\ UNCHANGED <<queue, out>>
    <3>1. q' = q
      BY <1>4, <2>4
    <3>2. o' = o
      BY <1>1, <1>3, <1>4, <1>5, <2>1, <2>2, <2>4, <3>1
    <3> QED BY <1>1, <2>1, <2>2, <3>1, <3>2
  <2> QED BY <1>8, <2>3, <2>4 DEF Enqueue, Offer
<1>9. ASSUME NEW k \in Message, Redeliver(k)
      PROVE rows'[m] + (q' + (IF phase' = "write" THEN b' ELSE 0) + o')
               <= r + (q + (IF phase = "write" THEN b ELSE 0) + o) + (faults' - faults)
  <2>1. /\ UNCHANGED <<cursor, queue, batch, phase, rows>>
        /\ k \in out
        /\ redo' = redo \cup {k} /\ out' = out \ {k}
        /\ IF k \in Held THEN faults' = faults + 1 ELSE faults' = faults
    BY <1>9 DEF Redeliver, Nak, Fault, writer, stores
  <2>2. q' = q /\ b' = b
    BY <1>4, <2>1
  <2>3. CASE m = k /\ k \in Held
    BY <1>1, <2>1, <2>2, <2>3
  <2>4. CASE m # k \/ k \notin Held
    <3>1. o' = o
      BY <1>3, <1>4, <1>5, <2>1, <2>2, <2>4
    <3> QED BY <1>1, <2>1, <2>2, <3>1
  <2> QED BY <2>3, <2>4
<1>10. CASE Collect
  <2>1. /\ UNCHANGED <<cursor, redo, out, rows, faults>>
        /\ phase' = "write" /\ phase \in {"sleep", "final"} /\ queue # <<>>
        /\ batch' = NextBatch
        /\ queue' = SubSeq(queue, Len(NextBatch) + 1, Len(queue))
    BY <1>10 DEF Collect, bus, stores
  <2>2. b = 0
    BY <1>3, <1>6, <2>1
  <2>3. q = q' + b'
    <3>1. queue \in Seq(Nat) /\ Len(queue) > 0 /\ Len(queue) \in Nat
      BY <2>1, Elements DEF TypeOK, WriterTypeOK
    <3>2. PICK k : k = Min({BatchSize, Len(queue)})
      OBVIOUS
    <3>3. k \in 0..Len(queue)
      BY <3>1, <3>2, Smaller, BoundAssumption
    <3>4. NextBatch = SubSeq(queue, 1, k) /\ Len(NextBatch) = k
      BY <3>1, <3>2, <3>3, Prefix DEF NextBatch
    <3>5. q' = Occ(SubSeq(queue, k + 1, Len(queue)), m) /\ b' = Occ(SubSeq(queue, 1, k), m)
      <4>1. q' = Occ(queue', m) /\ b' = Occ(batch', m)
        BY DEF q, b, Occ
      <4> QED BY <2>1, <3>4, <4>1
    <3>6. q = Occ(queue, m)
      BY DEF q
    <3>7. Occ(queue, m) = Occ(SubSeq(queue, 1, k), m) + Occ(SubSeq(queue, k + 1, Len(queue)), m)
      BY <3>1, <3>3, OccCut
    <3> QED BY <1>1, <3>5, <3>6, <3>7
  <2>4. UNCHANGED <<cursor, redo, out, rows, faults>> /\ phase' = "write" /\ phase # "write"
    BY <2>1
  <2>5. m \in Held' <=> m \in Held
    <3>1. (q' > 0 \/ b' > 0) <=> (q > 0 \/ b > 0)
      <4>1. q \in Nat /\ b \in Nat /\ q' \in Nat /\ b' \in Nat
        BY <1>1
      <4>2. \A i, j, k \in Nat : k = i + j => (i > 0 \/ j > 0 <=> k > 0 \/ 0 > 0)
        OBVIOUS
      <4> QED BY <2>2, <2>3, <4>1, <4>2
    <3> QED BY <1>3, <1>4, <3>1
  <2>6. o' = o
    BY <1>5, <2>4, <2>5
  <2>7. \A i, j, k, l, n \in Nat : k = i + j => n + (i + j + l) <= n + (k + 0 + l)
    OBVIOUS
  <2>8. r + (q' + b' + o) <= r + (q + 0 + o)
    BY <1>1, <2>3, <2>7
  <2> QED BY SMTT(30), <1>1, <2>4, <2>6, <2>8
<1>11. CASE NothingLeft \/ UpdateCache
  <2>1. /\ UNCHANGED <<cursor, redo, out, queue, batch, rows>>
        /\ faults' \in {faults, faults + 1} /\ phase # "write" /\ phase' # "write"
    BY <1>11 DEF NothingLeft, UpdateCache, Fault, bus, stores
  <2>2. q' = q /\ b' = b
    BY <1>4, <2>1
  <2>3. o' = o
    BY <1>3, <1>4, <1>5, <2>1, <2>2
  <2> QED BY <1>1, <2>1, <2>2, <2>3
<1>12. CASE WriteBatch
  <2>1. /\ UNCHANGED <<cursor, redo, out, queue, batch, faults>>
        /\ rows' = Inserted /\ phase = "write" /\ phase' = "cache"
    BY <1>12 DEF WriteBatch, bus
  <2>2. q' = q /\ b' = b
    BY <1>4, <2>1
  <2>3. o' = o
    BY <1>3, <1>4, <1>5, <2>1, <2>2
  <2> QED BY <1>1, <1>6, <2>1, <2>2, <2>3
<1>13. CASE WriteFails \/ Stop \/ Crash
  <2>1. /\ rows' = rows \/ (rows' = Inserted /\ phase = "write")
        /\ phase' # "write" /\ faults' = faults + 1
    BY <1>13 DEF WriteFails, FlushReturns, Stop, Crash, MemoryLost, Fault, stores
  <2>2. q' <= q
    <3>1. CASE queue' = <<>>
      <4>1. q' = 0
        BY <3>1, OccEmpty DEF q, Occ
      <4> QED BY <1>1, <4>1
    <3> QED BY <1>1, <1>4, <1>13, <3>1 DEF WriteFails, Stop, Crash, MemoryLost
  <2>3. rows'[m] = r \/ (rows'[m] = r + b /\ phase = "write")
    BY <1>6, <2>1
  <2> QED BY SMTT(30), <1>1, <2>1, <2>2, <2>3
<1>14. CASE WriteRefused \/ WriteStalls
  <2>1. /\ \/ rows' = rows /\ faults' = faults
           \/ (rows' = rows \/ rows' = Inserted) /\ faults' = faults + 1
        /\ phase = "write" /\ phase' # "write" /\ cursor' = cursor /\ queue' = queue
        /\ redo' = redo \ ToSet(batch) /\ out' = out \ ToSet(batch) /\ batch' = <<>>
    BY <1>14 DEF WriteRefused, WriteStalls, Dropped, Ack, FlushReturns, Fault
  <2>2. q' = q /\ b' = 0
    BY <1>4, <2>1
  <2>3. m \in ToSet(batch) <=> b > 0
    BY OccCounts DEF b, TypeOK, WriterTypeOK
  <2>4. o' <= o
    BY <1>1, <1>3, <1>4, <1>5, <2>1, <2>2, <2>3
  <2>5. \A i, j, k, l, n \in Nat : l <= n => /\ i + (j + 0 + l) <= i + (j + k + n)
                                           /\ i + k + (j + 0 + l) <= i + (j + k + n) + 1
                                           /\ i + (j + 0 + l) <= i + (j + k + n) + 1
    OBVIOUS
  <2>6. /\ r + (q + 0 + o') <= r + (q + b + o)
        /\ r + (q + 0 + o') <= r + (q + b + o) + 1
        /\ r + b + (q + 0 + o') <= r + (q + b + o) + 1
    BY SMTT(30), <1>1, <2>4, <2>5
  <2>7. \/ rows'[m] = r /\ faults' - faults = 0
        \/ rows'[m] \in {r, r + b} /\ faults' - faults = 1
    BY <1>1, <1>6, <2>1
  <2>8. phase = "write" /\ phase' # "write"
    BY <2>1
  <2> QED BY SMTT(30), <1>1, <2>2, <2>6, <2>7, <2>8
<1>15. CASE AckMessage
  <2>1. /\ UNCHANGED <<cursor, queue, rows, faults>>
        /\ phase = "ack" /\ phase' # "write" /\ batch # <<>> /\ batch \in Seq(Nat)
        /\ redo' = redo \ {Head(batch)} /\ out' = out \ {Head(batch)}
        /\ IF Len(batch) = 1 THEN batch' = <<>> ELSE batch' = Tail(batch)
    BY <1>15 DEF AckMessage, Ack, FlushReturns, stores, TypeOK, WriterTypeOK
  <2>2. q' = q
    BY <1>4, <2>1
  <2>3. m = Head(batch) \/ b = 0 \/ b' > 0
    <3>1. b' = Occ(batch', m) /\ batch' \in Seq(Nat)
      BY DEF b, Occ, TypeOK, WriterTypeOK
    <3>2. (m \in ToSet(batch) <=> b > 0) /\ (m \in ToSet(batch') <=> b' > 0)
      BY <2>1, <3>1, OccCounts DEF b
    <3>3. m \in ToSet(batch) => m = Head(batch) \/ m \in ToSet(batch')
      <4> SUFFICES ASSUME NEW i \in 1..Len(batch), batch[i] = m, i # 1
                   PROVE  m \in ToSet(batch')
        BY <2>1 DEF ToSet
      <4>1. batch' = Tail(batch) /\ Len(batch) \in Nat
        BY <2>1
      <4>2. i - 1 \in 1..Len(batch') /\ batch'[i - 1] = m
        BY <2>1, <4>1
      <4> QED BY <3>1, <4>2 DEF ToSet
    <3> QED BY <1>1, <3>2, <3>3
  <2>4. o' <= o
    BY <1>1, <1>3, <1>4, <1>5, <2>1, <2>2, <2>3
  <2> QED BY <1>1, <2>1, <2>2, <2>4
<1>16. CASE Close
  <2>1. /\ UNCHANGED <<cursor, redo, out, rows, faults>>
        /\ phase = "over" /\ phase' = "sleep" /\ queue' = <<>> /\ batch' = <<>>
    BY <1>16 DEF Close, MemoryLost, bus, stores
  <2>2. b = 0 /\ b' = 0
    BY <1>3, <1>4, <1>6, <2>1
  <2>3. q' = 0
    BY <2>1, OccEmpty DEF q, Occ
  <2>4. q = 0 => o' = o
    BY <1>3, <1>4, <1>5, <2>1, <2>2, <2>3
  <2> QED BY <1>1, <2>1, <2>2, <2>3, <2>4
<1> QED
  BY <1>7, <1>8, <1>9, <1>10, <1>11, <1>12, <1>13, <1>14, <1>15, <1>16, NextRows

\* A message that has just been published has no row and waits for the writer.
LEMMA NewMessageWaits ==
  ASSUME TypeOK, TypeOK', step = "publish", Stored, NEW m \in Message' \ Message,
         UNCHANGED <<cursor, queue, batch>>
  PROVE  rows'[m] = 0 /\ ToWrite(m)' <= 1
<1>1. /\ m = Len(canon) + 1 /\ Len(canon) \in Nat /\ cursor \in Nat /\ cursor <= Len(canon)
      /\ Len(rows) = Len(canon) /\ rows \in Seq(Nat)
  <2>1. Message = 1..Len(canon) /\ Message' = 1..Len(canon') /\ Len(canon') = Len(canon) + 1
    BY MessageStored DEF Message, TypeOK, StreamTypeOK
  <2>2. Len(canon) \in Nat /\ cursor \in 0..Len(canon) /\ Len(rows) = Len(canon)
        /\ rows \in Seq(Nat)
    BY DEF TypeOK, StreamTypeOK, StoreTypeOK
  <2> QED BY <2>1, <2>2
<1>2. rows'[m] = 0
  BY <1>1 DEF Stored
<1>3. m \notin 1..cursor
  BY <1>1
<1>4. Occ(queue, m) = 0 /\ Occ(batch, m) = 0
  <2>1. m \notin Held
    BY <1>3 DEF TypeOK, WriterTypeOK
  <2> QED BY <2>1, WriterCounts
<1>5. Occ(queue, m)' = 0 /\ Occ(batch, m)' = 0
  <2>1. Occ(queue, m)' = Occ(queue', m) /\ Occ(batch, m)' = Occ(batch', m)
    BY DEF Occ
  <2> QED BY <1>4, <2>1
<1>6. ToWrite(m)' = 0 + (IF phase' = "write" THEN 0 ELSE 0) + (IF Waits(m)' THEN 1 ELSE 0)
  BY <1>5 DEF ToWrite
<1> QED BY <1>2, <1>6

\* Every row beyond the first was paid for by a fault (ingestion/writer.py).
LEMMA RowsPaidStep ==
  TypeOK /\ TypeOK' /\ LastFlush /\ RowsPaid /\ [Next]_vars => RowsPaid'
<1> SUFFICES ASSUME TypeOK, TypeOK', LastFlush, RowsPaid, [Next]_vars, NEW m \in Message'
             PROVE  rows'[m] + ToWrite(m)' <= 1 + faults'
  BY DEF RowsPaid
<1>0. rows'[m] \in Nat /\ ToWrite(m)' \in Nat /\ faults' \in Nat
  <2>1. rows'[m] \in Nat
    BY SMTT(30) DEF TypeOK, StreamTypeOK, StoreTypeOK, Message
  <2>2. Occ(queue, m)' \in Nat /\ Occ(batch, m)' \in Nat
    <3>1. Occ(queue, m)' = Occ(queue', m) /\ Occ(batch, m)' = Occ(batch', m)
      BY DEF Occ
    <3>2. queue' \in Seq(Nat) /\ batch' \in Seq(Nat)
      BY DEF TypeOK, WriterTypeOK
    <3> QED BY <3>1, <3>2, OccCounts
  <2> QED BY <2>1, <2>2 DEF ToWrite, TypeOK
<1>1. CASE m \in Message
  <2>1. rows'[m] + ToWrite(m)' <= rows[m] + ToWrite(m) + (faults' - faults)
    BY <1>1, RowsStepPaid
  <2>2. rows[m] + ToWrite(m) <= 1 + faults
    BY <1>1 DEF RowsPaid
  <2>3. rows[m] \in Nat /\ ToWrite(m) \in Nat /\ faults \in Nat
    BY <1>1, WriterCounts, HeldMessages DEF ToWrite, TypeOK
  <2>5. \A i, j, k, l, f, g \in Nat : i + j <= k + l + (g - f) /\ k + l <= 1 + f => i + j <= 1 + g
    OBVIOUS
  <2> QED BY <1>0, <2>1, <2>2, <2>3, <2>5
<1>2. CASE m \notin Message
  <2>1. step = "publish" /\ Stored
    BY <1>2, StreamOnlyGrows DEF Message
  <2>2. Publish \/ PublishFails
    <3>1. canon' # canon
      BY <1>2 DEF Message
    <3> QED
      BY <3>1 DEF Next, Handler, Flusher, vars, bus, Receive, RedeliverRaw, Recognise, LookUp,
         HandlerRaises, AckFrame, Enqueue, Redeliver, Collect, NothingLeft, WriteBatch,
         WriteFails, WriteRefused, WriteStalls, Dropped, UpdateCache,
         AckMessage, Stop, Close, Crash, Start, CreateSatellite, DeleteSatellite
  <2>3. UNCHANGED <<cursor, queue, batch>>
    BY <2>2 DEF Publish, PublishFails, writer
  <2>4. rows'[m] = 0 /\ ToWrite(m)' <= 1
    BY <1>2, <2>1, <2>3, NewMessageWaits
  <2>5. \A i, j \in Nat : i <= 1 => 0 + i <= 1 + j
    OBVIOUS
  <2> QED BY <1>0, <2>4, <2>5
<1> QED BY <1>1, <1>2

\* Only a process that is stopping flushes for the last time (ingestion/writer.py).
LEMMA LastFlushStep == TypeOK /\ LastFlush /\ [Next]_vars => LastFlush'
<1> SUFFICES ASSUME TypeOK, LastFlush, [Next]_vars PROVE LastFlush'
  OBVIOUS
<1> USE DEF LastFlush
<1>1. batch = <<>> <=> phase \in {"sleep", "final", "over"}
  BY DEF TypeOK, WriterTypeOK
<1>2. up \in {"up", "stopping", "down"}
  BY DEF TypeOK
<1>3. CASE UNCHANGED <<phase, up>>
  BY <1>3
<1>4. CASE WriteFails \/ WriteRefused \/ WriteStalls \/ AckMessage
  BY <1>2, <1>4 DEF WriteFails, WriteRefused, WriteStalls, Dropped, AckMessage, FlushReturns
<1>5. CASE Collect \/ NothingLeft \/ WriteBatch \/ UpdateCache
  BY <1>2, <1>5 DEF Collect, NothingLeft, WriteBatch, UpdateCache
<1>6. CASE Stop \/ Close \/ Crash \/ Start
  BY <1>6 DEF Stop, Close, Crash, Start, MemoryLost, writer
<1> QED
  BY <1>3, <1>4, <1>5, <1>6
     DEF Next, Handler, Flusher, vars, writer, Receive, RedeliverRaw, Recognise, LookUp,
         HandlerRaises, Publish, PublishFails, AckFrame, Enqueue, Redeliver, CreateSatellite,
         DeleteSatellite

\* Every copy of a frame beyond the first was paid for by a fault (ingestion/service.py).
LEMMA CopiesPaidStep ==
  TypeOK /\ TypeOK' /\ LastFlush /\ CopiesPaid /\ [Next]_vars => CopiesPaid'
<1> SUFFICES ASSUME TypeOK, TypeOK', LastFlush, CopiesPaid, [Next]_vars, NEW f \in Frame
             PROVE  (Occ(canon, f) + ToPublish(f) <= 1 + faults)'
  BY DEF CopiesPaid
<1> HIDE FrameAssumption, SatAssumption, BoundAssumption
<1> DEFINE c == Occ(canon, f)
           w == IF raw[f] = "waiting" \/ (raw[f] = "out" /\ frame # f) THEN 1 ELSE 0
           h == IF frame = f /\ step \in {"check", "lookup", "publish"} THEN 1 ELSE 0
           s == IF up = "stopping" THEN 1 ELSE 0
           p == w + h + s
<1>1. /\ c \in Nat /\ c' \in Nat
      /\ c' = c \/ (step = "publish" /\ c' = c + (IF f = frame THEN 1 ELSE 0))
      /\ UNCHANGED canon => c' = c
  <2>1. c' = Occ(canon', f)
    BY DEF Occ
  <2>2. canon \in Seq(Frame) /\ canon' \in Seq(Frame)
    BY DEF TypeOK, StreamTypeOK
  <2>3. c \in Nat /\ c' \in Nat
    BY <2>1, <2>2, OccCounts
  <2>4. CASE UNCHANGED canon
    BY <2>1, <2>3, <2>4
  <2>5. CASE step = "publish" /\ Stored
    <3>1. frame \in Frame /\ canon' = Append(canon, frame)
      BY <2>5, MessageStored DEF Stored
    <3>2. c' = c + (IF f = frame THEN 1 ELSE 0)
      BY <2>1, <2>2, <3>1, OccAppend
    <3>3. UNCHANGED canon => c' = c
      BY <2>1
    <3> QED BY <2>3, <2>5, <3>2, <3>3
  <2> QED BY <2>4, <2>5, StreamOnlyGrows
<1>2. /\ faults \in Nat /\ faults' \in Nat
      /\ raw \in [Frame -> {"waiting", "out", "acked"}]
      /\ step \in {"idle", "check", "lookup", "publish", "ack"}
      /\ IF step = "idle" THEN frame = NoFrame ELSE frame \in Frame
      /\ f # NoFrame
  BY FrameAssumption DEF TypeOK, IngestionTypeOK
<1>3. c + p <= 1 + faults
  BY DEF CopiesPaid, ToPublish
<1>4. p \in Nat /\ p' \in Nat
  <2>1. /\ w \in {0, 1} /\ h \in {0, 1} /\ s \in {0, 1}
        /\ w' \in {0, 1} /\ h' \in {0, 1} /\ s' \in {0, 1}
    OBVIOUS
  <2>2. \A i, j, k \in {0, 1} : i + j + k \in Nat
    OBVIOUS
  <2> HIDE DEF w, h, s
  <2> QED BY <2>1, <2>2
<1> HIDE DEF c
<1> SUFFICES c' + p' <= 1 + faults'
  BY DEF c, ToPublish
<1>5. ASSUME c' = c, \/ p' <= p /\ faults' \in {faults, faults + 1}
                     \/ p' <= p + 1 /\ faults' = faults + 1
      PROVE  c' + p' <= 1 + faults'
  <2> HIDE DEF p
  <2>1. \A i, j, k, l \in Nat : /\ i + j <= 1 + l /\ k <= j => i + k <= 1 + l
                                /\ i + j <= 1 + l /\ k <= j + 1 => i + k <= 1 + (l + 1)
    OBVIOUS
  <2>2. CASE p' <= p /\ faults' = faults
    BY <1>1, <1>2, <1>3, <1>4, <1>5, <2>1, <2>2
  <2>3. CASE p' <= p + 1 /\ faults' = faults + 1
    BY <1>1, <1>2, <1>3, <1>4, <1>5, <2>1, <2>3
  <2>4. p' <= p => p' <= p + 1
    BY <1>4
  <2> QED BY <1>5, <2>2, <2>3, <2>4
<1>6. CASE UNCHANGED <<canon, raw, step, frame, up>> /\ faults' \in {faults, faults + 1}
  <2>1. p' <= p
    BY <1>6
  <2> QED BY <1>1, <1>5, <1>6, <2>1
<1>7. ASSUME NEW g \in Frame, Receive(g)
      PROVE  c' + p' <= 1 + faults'
  <2>1. /\ UNCHANGED <<canon, up, faults>> /\ step = "idle" /\ raw[g] = "waiting"
        /\ \/ raw' = [raw EXCEPT ![g] = "acked"] /\ UNCHANGED <<step, frame>>
           \/ raw' = [raw EXCEPT ![g] = "out"] /\ step' = "check" /\ frame' = g
    BY <1>7 DEF Receive, AckRaw
  <2>2. p' <= p
    BY <1>2, <2>1
  <2> QED BY <1>1, <1>5, <2>1, <2>2
<1>8. CASE Recognise \/ LookUp
  <2>1. /\ UNCHANGED <<canon, up, faults>> /\ step \in {"check", "lookup"}
        /\ \/ step' \in {"lookup", "publish"} /\ UNCHANGED <<raw, frame>>
           \/ raw' = [raw EXCEPT ![frame] = "acked"] /\ step' = "idle" /\ frame' = NoFrame
    BY <1>8 DEF Recognise, LookUp, Reject, AckRaw, Returns
  <2>2. p' <= p
    BY <1>2, <2>1
  <2> QED BY <1>1, <1>5, <2>1, <2>2
<1>9. CASE HandlerRaises
  <2>1. /\ UNCHANGED <<canon, raw, up>> /\ faults' = faults + 1 /\ step \in {"check", "lookup"}
        /\ step' = "idle" /\ frame' = NoFrame
    BY <1>9 DEF HandlerRaises, Returns, Fault, bus
  <2>2. p' <= p
    BY <1>2, <2>1
  <2> QED BY <1>1, <1>5, <2>1, <2>2
<1>10. CASE Publish
  <2>1. /\ UNCHANGED <<raw, frame, up, faults>> /\ step = "publish" /\ step' = "ack"
    BY <1>10 DEF Publish
  <2>2. CASE f # frame
    <3>1. p' <= p /\ c' = c
      BY <1>1, <1>2, <2>1, <2>2
    <3> QED BY <1>5, <2>1, <3>1
  <2>3. CASE f = frame
    <3>1. p' + 1 <= p
      BY <2>1, <2>3
    <3>2. c' \in {c, c + 1} /\ faults' = faults
      BY <1>1, <2>1
    <3> HIDE DEF p
    <3>3. \A i, j, k, l \in Nat : i + j <= 1 + l /\ k + 1 <= j => i + 1 + k <= 1 + l /\ i + k <= 1 + l
      OBVIOUS
    <3> QED BY <1>1, <1>2, <1>3, <1>4, <3>1, <3>2, <3>3
  <2> QED BY <2>2, <2>3
<1>11. CASE PublishFails
  <2>1. /\ UNCHANGED up /\ faults' = faults + 1 /\ step = "publish"
        /\ raw' = [raw EXCEPT ![frame] = IF @ = "out" THEN "waiting" ELSE @]
        /\ step' = "idle" /\ frame' = NoFrame
    BY <1>11 DEF PublishFails, AfterFailure, NakRaw, Returns, Fault
  <2>2. p' <= p
    BY <1>2, <2>1
  <2>3. c' \in {c, c + 1} /\ faults' = faults + 1
    BY <1>1, <2>1
  <2> HIDE DEF p
  <2>4. \A i, j, k, l \in Nat :
          i + j <= 1 + l /\ k <= j => i + 1 + k <= 1 + (l + 1) /\ i + k <= 1 + (l + 1)
    OBVIOUS
  <2> QED BY <1>1, <1>2, <1>3, <1>4, <2>2, <2>3, <2>4
<1>12. CASE AckFrame
  <2>1. /\ UNCHANGED <<canon, up, faults>> /\ step = "ack"
        /\ \/ raw' = [raw EXCEPT ![frame] = "acked"]
           \/ raw[frame] = "waiting" /\ raw' = raw
        /\ step' = "idle" /\ frame' = NoFrame
    BY <1>12 DEF AckFrame, AckRaw, Returns
  <2>2. p' <= p
    BY <1>2, <2>1
  <2> QED BY <1>1, <1>5, <2>1, <2>2
<1>13. ASSUME NEW g \in Frame, RedeliverRaw(g)
       PROVE  c' + p' <= 1 + faults'
  <2>1. /\ UNCHANGED <<canon, step, frame, up>> /\ raw[g] = "out"
        /\ raw' = [raw EXCEPT ![g] = "waiting"]
        /\ IF frame = g THEN faults' = faults + 1 ELSE faults' = faults
    BY <1>13 DEF RedeliverRaw, Fault, ingestion
  <2>2. CASE frame = g
    <3>1. p' <= p + 1
      BY <1>2, <2>1, <2>2
    <3> QED BY <1>1, <1>5, <2>1, <2>2, <3>1
  <2>3. CASE frame # g
    <3>1. p' <= p
      BY <1>2, <2>1, <2>3
    <3> QED BY <1>1, <1>5, <2>1, <2>3, <3>1
  <2> QED BY <2>2, <2>3
<1>14. CASE Stop
  <2>1. /\ UNCHANGED <<canon, raw, step, frame>> /\ up = "up" /\ faults' = faults + 1
    BY <1>14 DEF Stop, Fault, bus, ingestion
  <2>2. p' <= p + 1
    BY <1>2, <2>1
  <2> QED BY <1>1, <1>5, <2>1, <2>2
<1>15. CASE Close \/ Crash
  <2>1. /\ UNCHANGED <<canon, raw>> /\ frame' = NoFrame /\ up' = "down"
        /\ \/ up = "stopping" /\ faults' = faults
           \/ faults' = faults + 1
    BY <1>15 DEF Close, Crash, MemoryLost, Fault, bus, LastFlush
  <2>2. CASE up = "stopping" /\ faults' = faults
    <3>1. p' <= p
      BY <1>2, <2>1, <2>2
    <3> QED BY <1>1, <1>5, <2>1, <2>2, <3>1
  <2>3. CASE faults' = faults + 1
    <3>1. p' <= p + 1
      BY <1>2, <2>1, <2>3
    <3> QED BY <1>1, <1>5, <2>1, <2>3, <3>1
  <2> QED BY <2>1, <2>2, <2>3
<1>16. CASE Start
  <2>1. UNCHANGED <<canon, raw, step, frame, faults>> /\ up' = "up"
    BY <1>16 DEF Start, bus, ingestion
  <2>2. p' <= p
    BY <1>2, <2>1
  <2> QED BY <1>1, <1>5, <2>1, <2>2
<1> QED
  BY <1>6, <1>7, <1>8, <1>9, <1>10, <1>11, <1>12, <1>13, <1>14, <1>15, <1>16
     DEF Next, Handler, Flusher, vars, bus, ingestion, Enqueue, Redeliver, Collect, NothingLeft,
         WriteBatch, WriteFails, WriteRefused, WriteStalls, Dropped, UpdateCache, AckMessage,
         CreateSatellite, DeleteSatellite, Fault

\* At the start every frame is to be published once, and no message exists.
LEMMA DuplicatesInit == Init => DuplicateInv
<1> SUFFICES ASSUME Init PROVE DuplicateInv
  OBVIOUS
<1>1. Message = {}
  BY DEF Init, Message
<1>2. CopiesPaid
  BY OccEmpty DEF Init, CopiesPaid, ToPublish
<1> QED
  BY <1>1, <1>2 DEF Init, DuplicateInv, RowsPaid, LastFlush

(* Every row and every copy of a frame beyond the first was paid for by a   *)
(* fault: without one, neither stream nor table has anything twice.         *)
THEOREM DuplicatesArePaid == Spec => []DuplicatesNeedFaults
<1>1. TypeOK /\ TypeOK' /\ DuplicateInv /\ [Next]_vars => DuplicateInv'
  BY RowsPaidStep, CopiesPaidStep, LastFlushStep DEF DuplicateInv
<1>2. TypeOK /\ DuplicateInv => DuplicatesNeedFaults
  <2> SUFFICES ASSUME TypeOK, DuplicateInv, NEW m \in Message
               PROVE  /\ rows[m] <= 1 + faults
                      /\ Cardinality({n \in Message : canon[n] = canon[m]}) <= 1 + faults
    BY DEF DuplicatesNeedFaults
  <2>1. rows[m] \in Nat /\ faults \in Nat
    BY HeldMessages DEF TypeOK
  <2>2. ToWrite(m) \in Nat
    BY WriterCounts DEF ToWrite
  <2>3. rows[m] <= 1 + faults
    BY <2>1, <2>2 DEF DuplicateInv, RowsPaid
  <2>4. canon[m] \in Frame /\ canon \in Seq(Frame)
    BY DEF TypeOK, StreamTypeOK, Message
  <2>5. Occ(canon, canon[m]) = Cardinality({n \in Message : canon[n] = canon[m]})
    BY DEF Occ, Message
  <2>6. Occ(canon, canon[m]) \in Nat /\ ToPublish(canon[m]) \in Nat
    BY <2>4, OccCounts DEF ToPublish
  <2>7. Occ(canon, canon[m]) + ToPublish(canon[m]) <= 1 + faults
    BY <2>4 DEF DuplicateInv, CopiesPaid
  <2> QED BY <2>1, <2>3, <2>5, <2>6, <2>7
<1> QED
  BY <1>1, <1>2, DuplicatesInit, PipelineTypeCorrect, PTL DEF Spec

============================================================================
