------------------------- MODULE TelemetryPipeline --------------------------
(***************************************************************************)
(* Telemetry on its way from the raw subject to the table: the handler of  *)
(* ingestion (ingestion/service.py) with its registry of satellites        *)
(* (registry.py), the writer's queue, batches and mode cache (writer.py,   *)
(* redis_client.py), and the two REST calls that create and delete         *)
(* satellites.                                                             *)
(*                                                                         *)
(* Both subscriptions call back one message at a time, but the handlers    *)
(* suspend, and what is handed out and not acknowledged comes again when   *)
(* JetStream's ack wait is over.  A canonical message is its number in the *)
(* stream; decode() stamps it, so a higher number is a later observation.  *)
(* New messages come in stream order, repeated ones at any time.           *)
(*                                                                         *)
(* The anomaly detector reads what the writer serves and touches none of   *)
(* this state; it is left out.                                             *)
(***************************************************************************)
EXTENDS Naturals, Sequences, FiniteSets, SequencesExt

CONSTANTS
  Frame,        \* raw frames on the stream
  NoFrame,
  Garbled,      \* those decode() rejects
  Unstorable,   \* those whose row Postgres refuses (a value out of range)
  Sat,
  Standing,     \* satellites that stay registered
  SatOf,        \* the satellite a frame names
  BatchSize,
  QueueSize,    \* ten batches in the code
  MaxFaults,    \* bound: how many faults occur
  FaultKinds    \* which ones

ASSUME FrameAssumption ==
  /\ Garbled \subseteq Frame /\ Unstorable \subseteq Frame /\ NoFrame \notin Frame
  /\ SatOf \in [Frame -> Sat]
ASSUME SatAssumption == Standing \subseteq Sat
ASSUME BoundAssumption ==
  /\ {BatchSize, QueueSize} \subseteq Nat \ {0}
  /\ MaxFaults \in Nat
  /\ FaultKinds \subseteq {"bus", "database", "stall", "redis", "slow", "stop", "crash"}

VARIABLES
  registered,           \* the satellites table
  raw,                  \* the raw consumer: what became of each frame
  step, frame,          \* the ingestion handler
  loaded, known,        \* the registry: filled once, the satellites it knows
  rejected,             \* frames ingestion dropped (counted and logged)
  canon,                \* the canonical messages: which frame each came from
  cursor, redo, out,    \* the writer's consumer: delivered, due again, not acked
  queue, batch, phase,  \* the writer
  refused,              \* messages dropped with a failed batch (logged)
  rows,                 \* the telemetry table: how often each message is in it
  cache,                \* the mode key of each satellite in Redis
  up,                   \* the process that runs the services
  faults

bus == <<raw, canon, cursor, redo, out>>
registry == <<loaded, known>>
ingestion == <<step, frame, rejected, registry>>
writer == <<queue, batch, phase, refused>>
stores == <<registered, rows, cache>>
vars == <<bus, ingestion, writer, stores, up, faults>>

Message == DOMAIN canon
SatAt(m) == SatOf[canon[m]]
Held == ToSet(queue) \cup ToSet(batch)
Acked == 1..cursor \ (redo \cup out)

IngestionTypeOK ==
  /\ raw \in [Frame -> {"waiting", "out", "acked"}]
  /\ step \in {"idle", "check", "lookup", "publish", "ack"}
  /\ IF step = "idle" THEN frame = NoFrame ELSE frame \in Frame
  /\ loaded \in BOOLEAN /\ known \subseteq Sat
  /\ rejected \subseteq Frame

StreamTypeOK ==
  /\ canon \in Seq(Frame)
  /\ cursor \in 0..Len(canon)
  /\ redo \subseteq 1..cursor /\ out \subseteq 1..cursor /\ redo \cap out = {}

WriterTypeOK ==
  /\ queue \in Seq(Nat) /\ Len(queue) <= QueueSize
  /\ batch \in Seq(Nat) /\ Len(batch) <= BatchSize
  /\ Held \subseteq 1..cursor
  /\ phase \in {"sleep", "write", "cache", "ack", "final", "over"}
  /\ batch = <<>> <=> phase \in {"sleep", "final", "over"}
  /\ refused \subseteq 1..cursor

StoreTypeOK ==
  /\ registered \subseteq Sat /\ Standing \subseteq registered
  /\ rows \in Seq(Nat) /\ Len(rows) = Len(canon)
  /\ cache \in [Sat -> 0..cursor]

TypeOK ==
  /\ IngestionTypeOK /\ StreamTypeOK /\ WriterTypeOK /\ StoreTypeOK
  /\ up \in {"up", "stopping", "down"}
  /\ faults \in 0..MaxFaults

Init ==
  /\ registered \in {S \in SUBSET Sat : Standing \subseteq S}
  /\ raw = [f \in Frame |-> "waiting"]
  /\ step = "idle" /\ frame = NoFrame
  /\ loaded = FALSE /\ known = {}
  /\ rejected = {}
  /\ canon = <<>> /\ cursor = 0 /\ redo = {} /\ out = {}
  /\ queue = <<>> /\ batch = <<>> /\ phase = "sleep" /\ refused = {}
  /\ rows = <<>>
  /\ cache = [s \in Sat |-> 0]
  /\ up = "up"
  /\ faults = 0

Fault(kind) == kind \in FaultKinds /\ faults < MaxFaults /\ faults' = faults + 1

----------------------------------------------------------------------------
(* Ingestion                                                               *)

Returns == step' = "idle" /\ frame' = NoFrame
AckRaw(f) == raw' = [raw EXCEPT ![f] = "acked"]
NakRaw(f) == raw' = [raw EXCEPT ![f] = IF @ = "out" THEN "waiting" ELSE @]

(* _handle begins: a frame that does not decode is acknowledged at once.    *)
Receive(f) ==
  /\ up # "down" /\ step = "idle" /\ raw[f] = "waiting"
  /\ IF f \in Garbled
       THEN AckRaw(f) /\ rejected' = rejected \cup {f} /\ UNCHANGED <<step, frame>>
       ELSE /\ raw' = [raw EXCEPT ![f] = "out"]
            /\ step' = "check" /\ frame' = f /\ UNCHANGED rejected
  /\ UNCHANGED <<registry, canon, cursor, redo, out, writer, stores, up, faults>>

Reject == rejected' = rejected \cup {frame} /\ AckRaw(frame) /\ Returns

NeverReloads == {known}   \* mutant: only lookups fill the cache
Consulted == IF loaded THEN {known, registered} ELSE {registered}

(* is_registered.  An empty cache is loaded, one of 30 s is loaded again.    *)
(* What it does not know is refused without asking when it is in the       *)
(* negative cache or the lookups of this second are spent (by frames of     *)
(* any satellite), and is looked up else.                                  *)
Recognise ==
  /\ step = "check"
  /\ loaded' = TRUE /\ known' \in Consulted
  /\ \/ /\ SatOf[frame] \in known'
        /\ step' = "publish" /\ UNCHANGED <<frame, rejected, raw>>
     \/ SatOf[frame] \notin known' /\ Reject
     \/ /\ SatOf[frame] \notin known'
        /\ step' = "lookup" /\ UNCHANGED <<frame, rejected, raw>>
  /\ UNCHANGED <<canon, cursor, redo, out, writer, stores, up, faults>>

LookUp ==
  /\ step = "lookup"
  /\ \/ /\ SatOf[frame] \in registered
        /\ known' = known \cup {SatOf[frame]}
        /\ step' = "publish" /\ UNCHANGED <<frame, rejected, raw>>
     \/ SatOf[frame] \notin registered /\ Reject /\ UNCHANGED known
  /\ UNCHANGED <<loaded, canon, cursor, redo, out, writer, stores, up, faults>>

(* A query of the registry fails: the exception leaves the callback.        *)
HandlerRaises ==
  /\ step \in {"check", "lookup"} /\ Fault("database")
  /\ Returns
  /\ UNCHANGED <<rejected, registry, bus, writer, stores, up>>

Stored == canon' = Append(canon, frame) /\ rows' = Append(rows, 0)

Publish ==
  /\ step = "publish"
  /\ Stored
  /\ step' = "ack"
  /\ UNCHANGED <<raw, cursor, redo, out, frame, rejected, registry, writer,
                 registered, cache, up, faults>>

AckAnyway(f) == AckRaw(f)   \* mutant: the frame is acked although publish() raised
AfterFailure(f) == NakRaw(f)

(* publish() raises; the stream may have stored the message all the same.   *)
PublishFails ==
  /\ step = "publish" /\ Fault("bus")
  /\ Stored \/ UNCHANGED <<canon, rows>>
  /\ AfterFailure(frame)
  /\ Returns
  /\ UNCHANGED <<cursor, redo, out, rejected, registry, writer, registered, cache, up>>

(* The frame may have come again already and wait behind this callback.     *)
AckFrame ==
  /\ step = "ack"
  /\ AckRaw(frame) \/ (raw[frame] = "waiting" /\ UNCHANGED raw)
  /\ Returns
  /\ UNCHANGED <<canon, cursor, redo, out, rejected, registry, writer, stores, up, faults>>

----------------------------------------------------------------------------
(* The writer                                                              *)

NeverAcks(S) == UNCHANGED <<redo, out>>   \* mutant: no msg.ack()
Ack(S) == redo' = redo \ S /\ out' = out \ S
Nak(S) == redo' = redo \cup (out \cap S) /\ out' = out \ S

Accept(m) == queue' = Append(queue, m) /\ out' = out \cup {m} /\ redo' = redo \ {m}

(* put_nowait, or NAK when the queue is full: due again at once.           *)
Offer(m) ==
  IF Len(queue) < QueueSize
    THEN Accept(m)
    ELSE redo' = redo \cup {m} /\ UNCHANGED <<queue, out>>

(* _enqueue, called with the next message or with one that is due again.    *)
Enqueue(m) ==
  /\ up # "down"
  /\ \/ m = cursor + 1 /\ cursor' = m
     \/ m \in redo /\ UNCHANGED cursor
  /\ Offer(m)
  /\ UNCHANGED <<raw, canon, ingestion, batch, phase, refused, stores, up, faults>>

NextBatch == SubSeq(queue, 1, Min({BatchSize, Len(queue)}))

(* _flush_once begins; on cancellation it runs once more ("final").         *)
Collect ==
  /\ \/ phase = "sleep" /\ up = "up" /\ queue # <<>>
     \/ phase = "final" /\ queue # <<>>
  /\ batch' = NextBatch
  /\ queue' = SubSeq(queue, Len(NextBatch) + 1, Len(queue))
  /\ phase' = "write"
  /\ UNCHANGED <<bus, ingestion, refused, stores, up, faults>>

NothingLeft ==
  /\ phase = "final" /\ queue = <<>>
  /\ phase' = "over"
  /\ UNCHANGED <<bus, ingestion, queue, batch, refused, stores, up, faults>>

FlushReturns == batch' = <<>> /\ phase' = IF up = "up" THEN "sleep" ELSE "over"

Times(m) == Cardinality({i \in DOMAIN batch : batch[i] = m})
FirstOnly ==   \* mutant: execute() with the first row instead of executemany()
  [m \in Message |-> rows[m] + IF m = Head(batch) THEN 1 ELSE 0]
Inserted == [m \in Message |-> rows[m] + Times(m)]
Poisoned == \E m \in ToSet(batch) : canon[m] \in Unstorable

(* One transaction for the whole batch.                                    *)
WriteBatch ==
  /\ phase = "write" /\ ~Poisoned
  /\ rows' = Inserted
  /\ phase' = "cache"
  /\ UNCHANGED <<bus, ingestion, queue, batch, refused, registered, cache, up, faults>>

AckLost(S) == Ack(S)   \* mutant: a batch that was not written is acknowledged
Returned(S) == Nak(S)

(* The connection is lost: nothing is written, or the commit went through.  *)
WriteFails ==
  /\ phase = "write" /\ Fault("database")
  /\ UNCHANGED rows \/ (~Poisoned /\ rows' = Inserted)
  /\ Returned(ToSet(batch))
  /\ FlushReturns
  /\ UNCHANGED <<raw, canon, cursor, ingestion, queue, refused, registered, cache, up>>

(* Any other exception: the batch is logged and acknowledged as a whole.    *)
Dropped ==
  /\ Ack(ToSet(batch))
  /\ refused' = refused \cup ToSet(batch)
  /\ FlushReturns
  /\ UNCHANGED <<raw, canon, cursor, ingestion, queue, registered, cache, up>>

(* Postgres refuses a row.                                                 *)
WriteRefused ==
  /\ phase = "write" /\ Poisoned
  /\ Dropped /\ UNCHANGED <<rows, faults>>

(* The statement takes longer than command_timeout (db.py 52), or Postgres  *)
(* is shutting down or starting up: no connection error to asyncpg.         *)
WriteStalls ==
  /\ phase = "write" /\ Fault("stall")
  /\ UNCHANGED rows \/ (~Poisoned /\ rows' = Inserted)
  /\ Dropped

Shown(m) == cache' = [cache EXCEPT ![SatAt(m)] = m]

(* The cache is written for each message of the batch; that Redis is down   *)
(* is swallowed.                                                           *)
UpdateCache ==
  /\ phase = "cache"
  /\ \/ Shown(Head(batch)) /\ UNCHANGED faults
     \/ Fault("redis") /\ UNCHANGED cache
  /\ phase' = "ack"
  /\ UNCHANGED <<bus, ingestion, queue, batch, refused, registered, rows, up>>

AckMessage ==
  /\ phase = "ack"
  /\ Ack({Head(batch)})
  /\ IF Len(batch) = 1 THEN FlushReturns ELSE batch' = Tail(batch) /\ phase' = "cache"
  /\ UNCHANGED <<raw, canon, cursor, ingestion, queue, refused, stores, up, faults>>

----------------------------------------------------------------------------
(* JetStream's ack wait                                                    *)

(* Nobody works on the message any more: it comes again.                    *)
RedeliverRaw(f) ==
  /\ raw[f] = "out"
  /\ frame = f => Fault("slow")
  /\ frame # f => UNCHANGED faults
  /\ raw' = [raw EXCEPT ![f] = "waiting"]
  /\ UNCHANGED <<canon, cursor, redo, out, ingestion, writer, stores, up>>

(* The same, or the writer is slow and still holds it.                      *)
Redeliver(m) ==
  /\ m \in out
  /\ m \in Held => Fault("slow")
  /\ m \notin Held => UNCHANGED faults
  /\ Nak({m})
  /\ UNCHANGED <<raw, canon, cursor, ingestion, writer, stores, up>>

----------------------------------------------------------------------------
(* The process and the satellites                                          *)

(* What the services have in memory is gone.                               *)
MemoryLost ==
  /\ step' = "idle" /\ frame' = NoFrame
  /\ loaded' = FALSE /\ known' = {}
  /\ queue' = <<>> /\ batch' = <<>> /\ phase' = "sleep"
  /\ up' = "down"

(* BackgroundServices.stop cancels the writer wherever it is: the batch in  *)
(* its hands is dropped, and one more flush follows.                       *)
Stop ==
  /\ up = "up" /\ Fault("stop")
  /\ up' = "stopping"
  /\ batch' = <<>> /\ phase' = "final"
  /\ UNCHANGED <<bus, ingestion, queue, refused, stores>>

(* Closing the connection ends the callbacks.                              *)
Close ==
  /\ phase = "over"
  /\ MemoryLost
  /\ UNCHANGED <<bus, rejected, refused, stores, faults>>

Crash ==
  /\ up # "down" /\ Fault("crash")
  /\ MemoryLost
  /\ UNCHANGED <<bus, rejected, refused, stores>>

Start ==
  /\ up = "down" /\ up' = "up"
  /\ UNCHANGED <<bus, ingestion, writer, stores, faults>>

CreateSatellite(s) ==
  /\ s \notin registered
  /\ registered' = registered \cup {s}
  /\ UNCHANGED <<bus, ingestion, writer, rows, cache, up, faults>>

(* The rows go with the satellite, the cache in Redis stays.                *)
DeleteSatellite(s) ==
  /\ s \in registered \ Standing
  /\ registered' = registered \ {s}
  /\ rows' = [m \in Message |-> IF SatAt(m) = s THEN 0 ELSE rows[m]]
  /\ UNCHANGED <<bus, ingestion, writer, cache, up, faults>>

----------------------------------------------------------------------------

Handler == Recognise \/ LookUp \/ Publish \/ AckFrame
Flusher ==
  Collect \/ NothingLeft \/ WriteBatch \/ WriteRefused \/ UpdateCache \/ AckMessage

Next ==
  \/ \E f \in Frame : Receive(f) \/ RedeliverRaw(f)
  \/ Handler \/ HandlerRaises \/ PublishFails
  \/ \E s \in Sat : CreateSatellite(s) \/ DeleteSatellite(s)
  \/ \E m \in Message : Enqueue(m)
  \/ \E m \in Message : Redeliver(m)
  \/ Flusher \/ WriteFails \/ WriteStalls
  \/ Stop \/ Close \/ Crash \/ Start

Spec == Init /\ [][Next]_vars

(* JetStream delivers and repeats, the coroutines run, and some process is  *)
(* elected again: one of them does what it can do.  Faults owe nothing.     *)
Progress ==
  \/ \E f \in Frame : Receive(f) \/ RedeliverRaw(f)
  \/ \E m \in Message : Enqueue(m) \/ Redeliver(m)
  \/ Handler \/ Flusher \/ Close \/ Start

FairSpec == Spec /\ WF_vars(Progress)

----------------------------------------------------------------------------

(* A raw frame is acknowledged only when its canonical form is on the bus,  *)
(* or when ingestion decided to drop it (service.py 114-152).              *)
AckedAfterPublication ==
  \A f \in Frame : raw[f] = "acked" => f \in rejected \/ f \in ToSet(canon)

(* A canonical message is acknowledged only when its row is in the table;   *)
(* nothing else is dropped than the batches the log names as failed,        *)
(* whatever fails or stops in between (writer.py 112-171).                 *)
AckedAfterWrite ==
  \A m \in Acked : SatAt(m) \in Standing => rows[m] > 0 \/ m \in refused

(* Neither an expired cache nor the negative cache nor the cap on lookups   *)
(* ever drops a frame of a satellite that stays registered (registry.py).  *)
StandingHeard ==
  \A f \in rejected : SatOf[f] \in Standing => f \in Garbled

(* A row is written twice only after something went wrong: a lost reply, a  *)
(* slow writer, a stop or a crash between write and acknowledgement.       *)
DuplicatesNeedFaults ==
  \A m \in Message :
    /\ rows[m] <= 1 + faults
    /\ Cardinality({n \in Message : canon[n] = canon[m]}) <= 1 + faults

(* The mode cache never shows an observation that the table does not have   *)
(* (writer.py 150-159, commands/mode.py 44).                               *)
CacheAfterTable ==
  \A s \in Standing : cache[s] # 0 => rows[cache[s]] > 0

(* Every frame of a standing satellite is in the table in the end, or its   *)
(* loss is in the log, however often bus, database and process fail.       *)
InTheEnd(f) ==
  \E m \in Message : canon[m] = f /\ (rows[m] > 0 \/ m \in refused)
FramesArrive ==
  \A f \in Frame : SatOf[f] \in Standing /\ f \notin Garbled => <>InTheEnd(f)

============================================================================
