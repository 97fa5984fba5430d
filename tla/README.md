# Verification of the CubeSat C2 backend

This directory holds TLA+ models of the parts of this repository whose correctness
depends on the order of events: what requests, coroutines, processes, browser tabs and
messages may do to each other when they interleave. TLC checks the models on small
instances; TLAPS proves nearly all of their safety properties for all instances.

Paths are relative to the repository root. `service.py` alone means
`backend/src/scheduler/service.py`, `commands.py` means
`backend/src/api/routes/commands.py`.

## 1. Inventory

| Component | State it keeps | Operations | Hard behaviours | What makes it correct |
|---|---|---|---|---|
| Command REST handlers (`commands.py`) | rows of `commands` | create, approve, cancel, transition (PATCH) | PATCH reads a row, validates, updates later; idempotency keys | two admins for critical types, overrides cannot bypass the state machine, one row per key |
| Command scheduler (`service.py`) | the same rows; per coroutine a list of selected rows | planner, executor, answer listener, timeout sweep | four coroutines, two nodes during failover, late and duplicate answers, failed publishes | never send twice what must not be repeated, bounded retries, no answer lost, nothing left in `sent` |
| Command tables and policy (`backend/src/commands/`) | none | state table, role and mode policy, mode freshness | mode may be unknown or stale | a verified mode is enforced at creation, approval and transmission |
| Leader election, background services (`storage/leader.py`, `api/background.py`) | advisory lock, task set | acquire, start, poll, stop | lost connection noticed late, `start` failing half way | one leader up to a poll interval; an ex-leader leaves the bus; the leader's services all run |
| Sessions (`api/auth.py`, `api/routes/auth.py`, `rate_limit.py`) | revoked tokens, token version, login counters | login, refresh, logout, password change | parallel refreshes, replayed tokens, revocation between check and mint | an ended session yields no token; a token rotates once |
| Users (`api/routes/users.py`) | roles, active flags | change role, disable | two admins removing each other | an active admin remains |
| WebSockets (`api/ws.py`) | tickets, open sockets | issue and redeem a ticket, guard | session ended while the socket streams | a ticket opens one socket; a socket outlives its session by at most one guard interval |
| Telemetry (`ingestion/service.py`, `writer.py`, `registry.py`) | queue, batch, mode cache, registry cache | decode, enqueue, flush, redeliver | full queue, lost acks, failing batch | nothing is acknowledged before it is stored or its loss is logged; a cached mode was observed |
| FDIR (`fdir/monitor.py`, `routes/fdir.py`) | alerts and their acknowledgement | assess, raise, acknowledge | telemetry arriving during the assessment | new evidence raises a new alert, old evidence does not |
| Anomaly detector (`anomaly/detector.py`) | windows, active bands, cooldowns | feed | eviction at the cap, cooldown per severity | a critical reading is reported within the cooldown |
| Passes (`routes/satellites.py`, `celestrak.py`) | `pass_schedule`, TLEs | store TLE, recompute | overlapping recomputations | the schedule is that of the newest TLE |
| Orbit (`orbit/`) | none | SGP4, pass search | numerical | out of reach of a finite model |
| Adapters (`ingestion/adapters/`) | KISS buffer | decode | framing | stateless but for KISS |
| SatNOGS import | last fetch | poll, insert | HTTP failures | idempotent inserts |
| Simulator (`simulator/src/`) | remembered command ids | execute, answer | duplicate deliveries, bounded memory, restart | executes a command id once while it remembers it |
| Web client (`frontend/src/`) | tokens, sockets | refresh, reconnect | parallel 401s, logins and logouts during a refresh | one refresh at a time; every request ends |
| Storage, configuration, metrics, audit, read-only queries | pools, counters | | | no protocol of their own |

How they interact. The REST handlers and the scheduler share nothing but the
`commands` table; every write of either is one SQL statement guarded by
`WHERE ... status = ...` (or, for the timeout sweep, one transaction that begins with
such a statement). The executor publishes on NATS `commands.<sat>`; the satellite answers
on `commands.ack.<sat>`, which the answer listener reads through a durable consumer. The
window queries read `pass_schedule` and `ground_stations`; the mode checks read the mode
cache that the telemetry writer fills. Every node runs the REST API; the elected leader
runs the rest, and after a partition two nodes may do so for a poll interval
(`storage/leader.py:12-14`).

## 2. Modules

| Part | Modules | Section |
|---|---|---|
| Scheduler and handlers on the `commands` table | `CommandPolicy`, `CommandScheduler`, `CommandLifecycle` (abstract), `MCCommandScheduler`, `CommandProofs` | 3 |
| Submission and execution end to end | `CommandIntake`, `CommandUplink`, composed in `CommandDelivery`; `MCCommandDelivery`, `CommandProofs` | 4 |
| Election | `LeaderElection`, `Leadership` (abstract), `LeaderElectionProofs` | 5 |
| Telemetry | `TelemetryPipeline`, `MCTelemetryPipeline`, `TelemetryPipelineProofs` | 6 |
| Sessions | `UserTable`, `AuthSessions`, `TokenLife` (abstract), `AuthSessionsProofs` | 7 |
| Accounts | `UserTable`, `UserAccounts`, `AccountTable` (abstract), `UserAccountsProofs` | 8 |
| Web client | `WebClient`, `WebClientProofs` | 9 |
| Health | `FdirMonitor`, `AnomalyDetector`, composed in `HealthWatch`; `MCHealthWatch`, `HealthWatchProofs` | 10 |
| Passes | `PassSchedule`, `MCPassSchedule`, `PassScheduleProofs` | 11 |

Components interact in pairs, so the compositions are small: `CommandDelivery` joins
submission, repeated publication and execution, `HealthWatch` the writer, the detector and
the monitor, `AuthSessions` and `UserAccounts` share `UserTable`. What a module needs of a
neighbour appears in it as the neighbour's contract (a window, a mode, a lock, an answer).

Type invariants of the modules with proofs are established by the theorems
`...TypeCorrect` and are not repeated as properties of the runs. Every safety property of
a passing run, invariant or action property, and each of the refinements is proved for all
values of the constants, under the hypotheses named with it; liveness is model-checked
only. Not yet modelled, and worth it: the KISS decoder's buffer, the reconnection of the ticketed socket, the counters
of the login throttle.

Each property of a passing run has a variant of one definition that a plausible mistake
would produce, kept just before the definition it varies and marked as a mutant (for
example `UpdateById`, an UPDATE without `AND status = ...`, or `AnswerableWhenSent`, the
rule of v0.1.0 that `service.py:54-58` describes). Nothing uses them; substituting one
makes TLC find the property violated.

## 3. The command subsystem

### Modules

- **`CommandPolicy`** — the constant tables: `Transitions` is `_TRANSITIONS`
  (`backend/src/commands/models.py:32-51`), `UnsafeRetryTypes`, `AdminOnlyCommands`,
  `TwoAdminCommands` the restricted types, `Denied` the mode policy applied to a reading.
- **`CommandScheduler`** — the `commands` table with one variable per column that
  decisions depend on, the two environment readings (`window`, `mode`), and the local
  state of the coroutines and handlers that hold a row across an `await`: the executor
  (`pc`, `batch`, `job`), the sweep (`swept`), the PATCH handler (`patch`). `flights`
  counts the messages stored on `commands.<sat>`; it is not a column but the thing the
  properties are about. One action per statement sequence between two awaits.
- **`CommandLifecycle`** — what the subsystem promises about one command, without rows
  and coroutines: `new`, `held`, `open`, finished; taken and flown. A finished command
  stays finished, only an open one is taken for transmission, a critical one flies only
  when signed, one that is not repeatable flies at most once.
- **`MCCommandScheduler`** — the requests and pass situations of the TLC instances.
- **`CommandProofs`** — the theorems of this section and of the next.

### How the code is cut into steps

| Code | Actions |
|---|---|
| `create_command`, `approve_command`, `cancel_command` | `Create`, `Approve`, `Cancel` |
| `transition_command` | `PatchRead` (SELECT and validation), then `PatchApplied` or `PatchConflict` (the guarded UPDATE) |
| `_schedule_once` | `Schedule` |
| `_execute_once` | `ExecSelect`, then per row `ExecNext`, `WindowOpen`/`WindowMissed`, `PolicyAllows`/`PolicyDenies`, `Claim`, `Publish`/`PublishFails`, `Record` or `Bounce`; `ExecDone` |
| `_mark_acked`, `_mark_rejected` | `AnswerApplied` |
| `_timeout_once`, `_mark_timed_out` | `SweepSelect`, then per row `SweepSkips`, `SweepReplans`, `SweepRetries` or `SweepGivesUp` |
| an exception ending a cycle, a crash, losing leadership | `ExecAborts`, `SweepAborts`, at any step |
| satellite, passes, telemetry, time | `SatelliteAnswers`, `WindowMoves`, `ModeReported`, `PlannedTimeArrives`, `AckTimeoutPasses` |

Where several awaits are one action, this is why nothing is lost:

- `Create`, `Approve`, `WindowMissed`, `PolicyDenies`: between the read of the mode or
  the window and the guarded UPDATE only the environment matters, and the environment may
  change the reading at any moment in the model as well; the guard of the UPDATE is part
  of the action.
- `Schedule`: the planner reads its rows and updates them one by one. The only column it
  carries over is `scheduled_at`. A pending row has one exactly when it was set by the
  operator (nothing else leaves a row in `pending` without clearing it), so a carried
  value is never out of date; a pass time computed early is the `window` of an earlier
  moment.
- `_mark_timed_out` is one transaction and holds the row lock from its first statement,
  so the states `timeout` and `retry` it passes through are seen by nobody. (Overrides
  can put rows into these states for longer; they do in the model.)

Abstractions. Times are what the queries compare: a planned time is absent, ahead or
reached, a transmission time absent, younger or older than `ACK_TIMEOUT_S`. `flights`
stops at 2 ("more than once"). Waiting answers are a set: two equal answers act like one
that is delivered twice, which the model has. `LIMIT 50` is kept where it can starve
someone (`BatchLimit` in the planner) and dropped in the executor and the sweep, whose
selected rows leave the selected state or are selected again. The planner's second sort
key (`created_at`) is left out: rows of equal priority do not wait for each other in the
model. A policy denial and a rejected answer both end in `dead`, and error messages,
metrics and audit entries are left out.

### Runs

| Run | Instance | What it shows |
|---|---|---|
| `overlap` | one critical command (unsafe type at a set time, or repeatable and planned by a pass), two nodes, two admins and an operator, two PATCHes at a time, at most 1 retry, a pass in progress | With two executors and two sweeps on the same row, overrides, cancellations, PATCHes that overtake each other, answers at any time and aborts at any step: `TwoAdminRule`, `UnsafeSentOnce`, `RetryBudget`, and the table implements `CommandLifecycle` |
| `answers` | one plain command (repeatable, not repeatable, planned by pass or by hand), one node, all windows, three mode readings, no overrides, fairness | `AlwaysPlanned`, `AnswersNotDropped`, and the liveness properties `SentResolves` and `ScheduledMoves` although every cycle may fail |
| `publish_lost` | as `overlap`, one node, no overrides, all windows, a failed publish may have stored the message | violates `UnsafeSentOnce` (finding 1) |

Bounds. Safety is about one row (no statement of the code touches two), so one command
is enough for it; commands meet only in the planner's batch of 50. Two
nodes are the most that leadership can overlap on, and two transmissions already break
"at most once". `MaxRetries = 1` reaches the bound, the step that exhausts it and the one refused
after it; the code's 3 adds repetitions of the same cycle, and the theorems hold for every
value. `overlap` takes place during a pass; the window moves in the two other runs. What
may go wrong between two PATCHes does not depend on it, and the theorems hold for every
`Sky`. The `answers` run leaves overrides out because the code promises no progress to
rows an operator moved by hand (see section 13).

`RetryBudget` says what the code keeps to, not what it intends. A PATCH compares the
*status* it has validated, not the row (`commands.py:296`): if the row left `timeout` and
came back meanwhile, the budget that was checked is an old one (ABA). Every PATCH in
progress beside another (`Overtakers`) is therefore good for one retry more than
`MAX_RETRIES`, and for no more than one; a bound of `MAX_RETRIES` itself is exceeded in
`overlap`.

Deadlock is not checked in `overlap`, where a finished command leaves nothing to do; it is
in the other two. `AnyOrder` is used in `overlap` only, which checks no liveness.

### Fairness

`FairSpec` assumes of the scheduler's loops that they run again after every cycle, which
`while True: sleep; try` in each of them does, whatever the cycle ended with. A statement
may fail in a cycle (`ExecAborts`, `SweepAborts`), even infinitely often, but not every
time it is reached: hence strong fairness for the steps that an abort may preempt, and
weak fairness for those in which the executor is certain to be (`Publish` or
`PublishFails`, either will do). `SF(Schedule(c))` says that a pass which is usable again
and again is eventually met by a poll (the interval is 5 s, a usable pass lasts at least
`_MIN_WINDOW_LEFT_S` = 30 s). Time passes (`PlannedTimeArrives`, `AckTimeoutPasses`).
Nothing is assumed of users, satellites, answers and passes; so "every sent command is
eventually answered" is not a property, "every sent command leaves `sent`" is.

### Proofs

`CommandProofs` proves, for every set of commands, users, nodes and requests and
every retry bound:

- `TypeCorrect`: `TypeOK`, which includes that an executor past its row query holds an
  existing row. It is inductive by itself.
- `FinishedStaysFinished`: no step moves an `acked` or `dead` command. It needs
  `PatchSane` (a PATCH in progress names an existing row and a transition out of the
  table, and the table has none out of a finished state).
- `TwoAdmins`: `TwoAdminRule`. On its own it is not inductive; the strengthening
  `ReleasedIsApproved` says that a critical command carries its approval as soon as it
  is in any state but `awaiting_approval` and `dead`, or an executor is about to publish
  it, or it flew, or it has a `sent_at`. The last part is needed because an answer
  accepts any unfinished row with a `sent_at`.
- `UnsafeOnce`: `UnsafeSentOnce`, provided a failed publish stores nothing
  (`PublishMayLie = FALSE`, exactly what finding 1 is about). The strengthening
  `SentOnceInv` says that a command which is not repeatable has never flown while it can
  still be claimed or an executor holds it, that at most one executor holds it, and that
  it is never in `retry`.
- `RetriesBounded`: `RetryBudget`, for every finite number of PATCHes in progress. The
  strengthening `BudgetInv` keeps an account: the retries beyond `MAX_RETRIES` and the
  PATCHes that still hold a permission to retry (`Permits`) are together no more than
  `Overtakers`. A permission is given only below the bound; if every PATCH holds one, none
  of them has been used since the row timed out.
- `Implementation`: `Spec => Lifecycle!Spec` under the assumption of `UnsafeOnce`. The
  mapping sends a row's status to its phase, and a row between its claim and its publish
  to `taken`. It uses all the invariants above and `HeldIsUnsent` (a command that waits
  for approval has no `sent_at`, so no answer finishes it as `acked`).

The assumptions on constants are the named `ASSUME`s of `CommandScheduler`: requests have
the shape of the REST schema, the null values are not members of the sets they stand
beside, the planner's limit is positive, PATCHes in progress are finitely many.

And of the way of a command through planning, transmission and answer:

- `SentRowsAreSwept`: `SentIsSwept`, with all overrides; inductive by itself.
- `PlansAreKept`: `AlwaysPlanned` without overrides (`Session = {}`; an override may move
  a row to `scheduled` without a time). The strengthening `PlannedInv` adds what the
  executor's and the sweep's local rows know of the plan.
- `AnswersCount`: `AnswersNotDropped` without overrides and with truthful publish errors.
  The strengthening `AnswerableInv` follows a command from its claim to its answer: while
  a message of it is in flight, its row is in a state the listener accepts, or finished.

Only model-checked: the liveness properties `SentResolves` and `ScheduledMoves` (fairness
and `ENABLED` are outside the prover's reach).

## 4. Command delivery

Section 3 follows one row. This section follows one wish of a client, from the requests
that carry it to the satellite that carries it out, past both mechanisms against
duplicates.

- **`CommandIntake`** — `create_command` under idempotency keys: each request is at one of
  four awaits (`lookup`, `checks`, `insert`, `again`), and `commands` numbers the rows
  there have been. What a request wants, its *intent*, is its author, satellite, type and
  parameters, which is what `_replay_of` compares (`commands.py:50-60`); `scheduled_at`
  and `priority` are not compared by the code and not part of it. The UNIQUE constraint
  is the guard of `Insert`.
- **`CommandUplink`** — the simulator's `CommandExecutor` and its listener: `wire` is what
  it has been sent, `done` the answers it remembers (`_HISTORY` of them, in memory),
  `effects` and `forgotten` count executions and forgotten executions.
- **`CommandDelivery`** — the two together. Between them stands a scheduler that may
  publish any existing command any number of times, also one whose row was deleted after
  its claim; how often the real one does it is the subject of section 3.
- **`MCCommandDelivery`** — the keys of the instance and its symmetry.

| Code | Actions |
|---|---|
| `create_command` | `Submit`, `Lookup`, `Checks` (satellite, role and mode policy), `Insert`, `LookupAgain`; `Dropped` when the process stops |
| `delete_satellite`, `create_satellite` | `DeleteSatellite` (commands go with it), `CreateSatellite` |
| `simulator/src/commands.py` | `Hear` (with `Execute`, or the remembered answer), `SendAnswer`; `Reboot` |

| Run | Instance | What it shows |
|---|---|---|
| `delivery` | three intents, two of them under one key; two requests at a time, four in all; three publications; a memory of one answer | `OncePerIntent`, `AnswersAgree` |

`OncePerIntent` relates the two ends and names its excuses. At one end, an intent never
has two commands with a row: without the UNIQUE constraint two requests that both found
nothing would insert two. At the other, the satellite executes a command once, and once
more for every time it forgot that it had (`_HISTORY` exceeded, restart), however often it
is published. A wish can so be executed again only by a satellite that forgot, or after its
row was deleted with its satellite and the client asked again.
`AnswersAgree` is what a client that repeats its request relies on.

Bounds. Two requests race for a key, a third one finds the winner's row, a fourth comes
after a deletion (`MaxCommands = 3` allows a row per deletion). A memory of one makes the
second command push out the first; the code's 1000 does the same later. Nothing is
assumed about fairness: a request may be dropped and an answer lost. Deadlock is checked.

Proved in `CommandProofs` for any number of clients, keys, intents, publications, deletions
and restarts, and any size of the memory: `DeliveryTypeCorrect`, `OnceForEveryIntent`,
`EverybodyIsToldOwn`. Neither property is inductive. Upstream, `AnswersAgree` follows from
`ToldOwn` (whoever was told of a command was told of one of their own) and from
`UniqueKeys` (two rows have two keys), which `Insert` preserves by its guard and a
deletion because it only removes rows; the interleavings of `Lookup` and `Insert` cannot
hurt because a reply is computed from the row as it is when the reply is read. Downstream,
`Counted` ties the number of executions to the memory: a command was executed as often as
it was forgotten, and once more while it is remembered. Keeping it needs `NoCopies`, that
the memory holds no command twice, or else pushing out one copy would count as forgetting.

## 5. Leader election

- **`LeaderElection`** — `LeaderElector.run` (`pc` is where its loop stands, `conn` its
  database session), `BackgroundServices.start` and `stop` (`nats`, `task`), and what the
  services need of the bus (`bind`, the durable consumers of ingestion, writer and answer
  listener). FDIR, TLE refresh and the SatNOGS fetcher start and stop in the same way and
  have no subscription. PostgreSQL and NATS appear as what the code relies on: a session-level lock goes with its session, a bound
  durable refuses a second subscriber (which `service.py:351` and
  `backend/tests/integration/test_leader.py:7` speak of). Either server may take
  its time to see that a client is gone: until then lock or binding belongs to a `Ghost`.
- **`Leadership`** — the contract: one is elected only while the office is vacant, is on
  the bus only while acting as leader, and leaves the role with its last connection. The
  office may be taken away before its holder knows, so two may act at a time, as
  `leader.py:12-14` says.
- **`LeaderElectionProofs`** — the theorems.

What the contract is about is the bus, `OnBus`: the connection, a subscription, or a task
that consumes from one. That a node which does not lead runs *nothing* is not true of this
code. An answer that is JSON but no object ends the scheduler's task without its loops
(`service.py:378`, `gather` in `:101-107`), and planner, executor and sweep go on until the
process ends: `stop()` cancels a task that is over. These loops are `orphans`. They work on
the table only, beside those of the next leader, so they are one more `Node` of
`CommandScheduler`, where any number of nodes may run at any time; section 12 says what this
contradicts.

Steps: `Connect`, `TryLock` (polling), `StartNats`, `StartTasks` (`ensure_stream` and the
tasks), `Watch` (`SELECT 1`), `StopTasks`, `CloseNats`, `Release` are the awaits of the
elector in their order. `Interrupted` is an exception of `start()` or of a query;
a cancellation at shutdown takes the same way and then the process ends. `Subscribe` is
the first await of each service. `OddAnswer` is an answer that is JSON but not an object.

| Run | Instance | What it shows |
|---|---|---|
| `failover` | two processes, two faults (lost session, failing start or query, crash) and odd answers at any step, fairness | `LossIsNoticed`, `ExLeaderLeavesBus`, `LeadershipSettles`, and the election implements `Leadership` |
| `takeover` | one fault, fairness | violates `ServicesSettle` (finding 2) |

Bounds. `MaxFaults` is the one bound of the model. Two faults give a second failover
during or after the first, on the same node or the other; nothing in the code counts
failovers, and the safety theorems hold for any number. Liveness needs an end of faults
anyway. Two nodes suffice: no step of a node looks at more than the lock and the bindings,
and a third would add a second waiting follower.

Fairness: the elector's loop is never left by itself, so its steps are weakly fair, and so
are the tasks' first steps; servers give up on vanished clients in the end. Faults and
odd answers owe nothing. The model has no clock: how long two leaders overlap is not
stated (`SELECT 1` has no timeout, see the hazards), only that the overlap ends.

Proved for any number of nodes and faults, with odd answers:

- `ElectionTypeCorrect` and `LeadershipImplemented` (`Spec => ImplementsLeadership`). The
  inductive invariant `IInv` adds `Stages` to the types: tasks exist only between
  `StartTasks` and `StopTasks`, subscriptions only between `StartTasks` and `CloseNats`,
  the connection only between `StartNats` and `CloseNats`. It is needed because a
  subscription is made by a task at any later moment, and a start may break off anywhere.
- `FollowersStayOffBus` (`FollowersOffBus`), which the contract implies: a node that does
  not act as leader consumes nothing and can publish nothing.
- `LossesAreNoticed` (`LossIsNoticed`): who acts as leader without the lock has a broken
  session, so that the next `SELECT 1` finds out. `Sessions` adds that no other node holds
  the lock without an open session. It is the safety half of `ExLeaderLeavesBus`; that the
  query is made, and liveness altogether, is model-checked only.

## 6. Telemetry

In this section `service.py` is `backend/src/ingestion/service.py`, the other files are
its neighbours.

- **`TelemetryPipeline`** — two consumers and two stores. The raw consumer: `raw` says of
  each frame whether it waits, is handed out, or is acknowledged; `step` and `frame` are
  the one callback of ingestion that runs (`service.py:114-152`), `loaded` and `known` the
  registry's cache. The canonical stream: `canon` lists the messages in stream order, and
  the writer's durable consumer has delivered the first `cursor` of them, of which `redo`
  are due again and `out` are not acknowledged. The writer: `queue`, `batch`, `phase`.
  The stores: `registered`, `rows` (how often each message is in the telemetry table) and
  `cache` (the mode key of each satellite).
- **`MCTelemetryPipeline`** — which satellite sends which frame.
- **`TelemetryPipelineProofs`** — the theorems.

| Code | Actions |
|---|---|
| `_handle` | `Receive` (decode), `Recognise` (cache, reload, negative cache, cap), `LookUp`, `Publish` or `PublishFails`, `AckFrame`; `HandlerRaises` when a query of the registry fails |
| `_enqueue` | `Enqueue` |
| `_flush_once` | `Collect`, then `WriteBatch`, `WriteFails` (transient), `WriteRefused` (a row Postgres refuses) or `WriteStalls` (any other exception), then per message `UpdateCache`, `AckMessage` |
| cancellation, `run`'s final flush, closing the connection | `Stop` (in any phase), `Collect`/`NothingLeft`, `Close` |
| JetStream's ack wait, process, REST | `RedeliverRaw`, `Redeliver`, `Crash`, `Start`, `CreateSatellite`, `DeleteSatellite` |

Abstractions. There is no clock: whether the registry's cache has expired, the negative
cache has an entry or the lookups of a second are spent is a choice at each frame.
`decode` stamps the message, and one callback runs at a time, so the number of a canonical
message is the order of the observations. A lost acknowledgement is a crash or a slow
writer whose message is delivered again. Raw frames may arrive in any order. A frame whose
NAK meets a full queue is due again at once. What ingestion publishes always parses, so the
writer's `term` branch is never taken. The detector is in
section 10.

| Run | Instance | What it shows |
|---|---|---|
| `telemetry` | a satellite that stays and one that comes and goes, a frame of each, the second one refused by Postgres, queue and batch of 2, two faults out of all seven kinds at any step | `AckedAfterPublication`, `AckedAfterWrite`, `StandingHeard`, `DuplicatesNeedFaults`, `CacheAfterTable`, `FramesArrive` |

The kinds of faults: `bus` (publish raises, stored or not), `database` (connection lost,
committed or not), `stall` (timeout), `redis`, `slow` (the ack wait ends while the message
is still worked on), `stop`, `crash`.

Bounds. A fault can duplicate a message, so two frames become up to four messages; a queue
of two fills up and a batch of two can be mixed. Two faults let one hit the recovery from
the other. `Garbled` is empty in the runs: a frame that does not decode is acknowledged in
one step that touches nothing else.

Properties speak of satellites that stay registered (`Standing`): the registry refuses a
satellite for up to 10 s after its creation and lets a deleted one through for up to 30 s,
by design. `AckedAfterWrite` and `FramesArrive` name what the writer may lose: batches
whose failure is logged (`refused`). Section 12 says which failures that includes, and that
the code's own documentation excludes them.

Fairness is one condition: as long as JetStream, the handler, the writer or the election
can take a step, one of them does (`Progress`). That is less than the code provides (each
of them runs by itself) and enough here, because without faults they cannot keep each
other busy for ever. No fault is assumed to happen or to stop by itself; `MaxFaults` bounds
them.

### Proofs

`TelemetryPipelineProofs` proves for every set of frames and satellites, every size of
queue and batch, and any number of faults of all kinds:

- `PipelineTypeCorrect`: `TypeOK`, which is inductive; the bound of the queue and
  "what is held was delivered" are part of it.
- `StandingSatellitesHeard`: `StandingHeard`. The strengthening `StandingKnown` says that
  a loaded registry knows all standing satellites and that a lookup is about others only;
  without it the refusal that follows a lookup could not be told from a wrong one.
- `PublishedBeforeAck`: `AckedAfterPublication`, with `Published`: the handler that is
  about to acknowledge has its frame's canonical form on the stream.
- `WrittenBeforeAck`: `AckedAfterWrite`, with `BatchWritten`: a batch past its
  transaction is in the table. The lemma `AckedBy` lists the only three ways in which a
  message becomes acknowledged, `RowsStay` that a standing satellite's rows never go.
- `CacheBehindTable`: `CacheAfterTable`, with `CacheOwned` (a mode key shows an
  observation of its own satellite, so a deletion of another one cannot empty it).
- `DuplicatesArePaid`: `DuplicatesNeedFaults`. The strengthening `DuplicateInv` is an
  account: the rows a message has and the writes still to come (`ToWrite`: in the queue,
  in the batch before its transaction, due on the stream) are at most one more than the
  faults that occurred, and likewise the copies of a frame on the stream with the
  publications still to come (`ToPublish`: the frame waiting, handed out or in hand, and
  one more while a process that still holds it is stopping).

Only model-checked: `FramesArrive` (liveness).

## 7. Sessions

In this section `auth.py` is `backend/src/api/auth.py`, `routes/auth.py` its handlers,
`ws.py` the ticketed sockets.

- **`UserTable`** — the columns of `users` that sessions and accounts share: role, active
  flag and `token_version`.
- **`AuthSessions`** — the tokens there are (`grants`, pairs minted together, and
  `tickets`), the rows of `revoked_tokens`, the open `sockets`, and every request (`req`)
  that holds something across an await. A grant remembers the one it was exchanged for and
  the password its first ancestor was given for, which the code does not store and only
  the properties look at.
- **`TokenLife`** — the contract: a token is issued once, the dead stay dead as long as it
  lasts, and when it has lapsed it does not come back.
- **`AuthSessionsProofs`** — the theorems.

| Code | Actions |
|---|---|
| `login` | `LoginTry`, `LoginRead` (row and password), `LoginMint` |
| `decode_token`, `check_session_state`, `load_session` | `Present` (signature and expiry, `Expired`, on arrival), `Check` (revoked, version, active) |
| `refresh_token_endpoint` | `Rotate` (claim and new pair), `EndSessionsAfterReplay` |
| `logout` | `Logout`, `LogoutLoad`, `LogoutClaim` |
| `change_password` | `VerifyPassword`, `ChangePassword` |
| `ws_ticket`, `_authenticate_ws`, `_serve`, `_guard` | `WsTicket`, `OpenSocket`, `Serve`, `Guard`, `Disconnect` |
| `revoke_token` with its clean-up (`Lapsed`) | part of `Rotate`, `LogoutClaim`, `OpenSocket` (`Revoke`) |
| administrators, time | `Administer`, `Tick` |

Two clocks. A JWT states its `exp` in whole seconds (`Whole`), and `decode_token` accepts it
until that second is over (`Expired`); the clean-up of `revoked_tokens` compares instants
(`Lapsed`, `auth.py:224`). The clock of the model ticks within a second (`Second` ticks of
it), so both moments are reached separately. Between them the row of a revoked token may be
gone while the token is still accepted: the contract ends at `exp`, and section 12 says what
happens after it.

| Run | Instance | What it shows |
|---|---|---|
| `sessions` | one user, two requests at a time and four in all, three pairs, one ticket, a clock of two seconds with two ticks each that starts in the middle of the first, sockets that close at the second error of their guard, fairness of the guard | `RotatesOnce`, `ReplayEndsSessions`, `LoggedOutIsDead`, `PasswordEndsOld`, `TicketOnce`, `SessionStaysOver`, `SocketFollowsSession`, and the tables implement `TokenLife` |

Bounds. Every property is about one user's tokens (no statement touches two users), two
requests meet in every pair of awaits, and three pairs make a chain of two rotations, so a
replay can hit the first link while the second is being exchanged. Ticket, access token and
refresh token lapse while they are still accepted (the clock reaches the tick after their
`exp`, not the second after it), hence rows are cleaned up on both sides of it.

Fairness. `_guard` sleeps and looks again in a loop that nothing but the end of the socket
leaves, so each socket's guard is weakly fair. `SocketFollowsSession`: a socket whose
session has ended is closed in the end, although the guard's query may fail a few times
(`GuardErrors`).

Proved for any number of users, requests, pairs and ticks of the clock:
`SessionsTypeCorrect`, `TokensStayDead` (`ImplementsTokenLife`), `OldPasswordsEnd`,
`RotationIsExclusive`, `TicketIsExclusive`, `ReplayIsFinal`, `LogoutIsFinal` and
`NoSessionReturns` (`SessionStaysOver`). The parts of the argument build on each other:

- `TypeInv`, and the step property `Advances`: tokens stay as they were minted, versions and
  clock only grow, a revocation stays on record until its token has lapsed, and who is
  disabled or chooses a password gets a new version in the same UPDATE;
- `DeathInv`: revocations last as long as their tokens, and no pair is ahead of its user's
  version; so none of the four reasons for which a token is dead goes away;
- `PasswordInv`: a pair of the current version rests on the current password, and so does a
  login that is about to mint one, because it reads version and hash in one row;
- `RotationInv`, `TicketInv`: a token that was exchanged is on record or has lapsed, and
  was exchanged once while it had not;
- `ReplayInv`: a pair has the version of the one it was exchanged for, so the new version
  after a replay ends them together;
- `LogoutInv`: a logout that was checked holds a token of an account in use, and once it has
  revoked it that token stays dead; the account can only be disabled with its sessions;
- `TicketsHeld`: a ticket was issued to such a session, so whoever is disabled or changes
  role while a socket is open also has a new version, which no later change takes back
  (`RoleEndsSessions`).

`SessionStaysOver` is what a guard needs that looks every few seconds and may fail in
between: what it missed it finds later. That it does look, `SocketFollowsSession`, is
liveness and model-checked only.

## 8. Accounts

- **`UserAccounts`** — administrators changing roles, flags and accounts
  (`routes/users.py`), and the bootstrap of the first administrator by several processes
  (`backend/src/api/bootstrap.py`). The file with the first password is left out: all
  processes of a deployment share one path (section 12). A change runs in a
  SERIALIZABLE transaction; it is modelled by its snapshot (`ReadTarget`), its `Commit`,
  which is possible only while what it has read is current, and `RollBack`.
- **`AccountTable`** — the contract: the users table alone, where every change happens at
  once. The first row is Root's, later ones are made while there is an active
  administrator, an administrator is demoted or disabled only while another stays, and a
  new role or a disabled account costs the sessions.
- **`UserAccountsProofs`** — the theorems.

| Code | Actions |
|---|---|
| `create_user`, `change_role`, `set_active` | `Authorise`, `CreateUser`, `ReadTarget`, `Commit`, `RollBack` |
| `ensure_admin_user` | `CountAdmins`, `InsertRoot`; `Restart` |
| `end_all_sessions` | `SessionsEnd` |

| Run | Instance | What it shows |
|---|---|---|
| `accounts` | the bootstrapped administrator and another account, two requests and two processes at a time, restarts at any step, two new versions of each account | the accounts implement `AccountTable` |

`ImplementsAccountTable`: although requests are authorised first, read later and commit
later still, and a process counts administrators before it inserts one, the table changes
as if each change were made at once. The snapshot variant of `Commit` violates it (write
skew), which is why the isolation level matters: two administrators who act on each other
at the same time would leave none.

Two requests and two accounts are the least with which administrators can remove each
other; a third actor adds a third concurrent snapshot, which the proofs cover:
`AccountsTypeCorrect`, `LastAdminStays` and `TableIsAtomic` hold for any number of users,
requests and processes.

- `LastAdminStays` (`AdminRemains`: once there is an active administrator there always is
  one) needs no more than types: a commit that counts administrators finds the table as its
  snapshot has it.
- `TableIsAtomic` maps each step to one of `AccountTable` or to none. `CommitIsAtomic` turns
  the snapshot into the table; a creation and a bootstrap need `Founded` too: there is no
  row and no request before Root's, and an active administrator from then on, so that no
  process founds a second administrator beside others.

## 9. Web client

- **`WebClient`** — `frontend/src/api/client.ts` in one tab: the store (`held`), the
  requests under way (`calls`), the shared promise (`refresh`), and of the server what
  section 7 shows a client: pairs with versions, access tokens that lapse, refresh tokens
  that may be used once.
- **`WebClientProofs`** — the theorems.

| Code | Actions |
|---|---|
| request interceptor | `Send` |
| response interceptor | `Settled`, `Refuse` (a 401: start or join the refresh, or fail) |
| `doRefresh` | `SharedRefresh` (it starts), `ServeRefresh` (the server), `RefreshGranted`, `RefreshRefused`, `RefreshTimesOut` |
| `login`, `changePassword`, `logout` | `LogIn`, `ChangePassword`, `LogOut` (the server), then `Store` |
| axios timeout, expiry, other sessions | `TimesOut`, `Lapse`, `SessionsEnd` |

| Run | Instance | What it shows |
|---|---|---|
| `client` | two requests at a time, three in all, of all kinds; one lost answer or session ended elsewhere; fairness | `UsedOnce`, `MovesOn`, `CallsSettle` |

Two requests can meet a 401 each, one before and one during or after the refresh; the
third may be the form (login, password, logout) that changes the store meanwhile. At most
one form is under way (a page shows one), and a login only without a session. Expiry of
refresh tokens is left out. Deadlock is not checked because a tab that has made
its last request is left alone.

Fairness: axios gives up after 15 s, so every request and the refresh come to an end.

`UsedOnce` is what keeps parallel 401s from being taken for theft: no refresh carries a
token that was sent before. `MovesOn`: a request waits for one refresh and is sent again
once, whatever the second answer is. That the store keeps a pair which is alive is not
among the properties, because the code does not see to it (section 12).

Proved for any number of requests, faults and pairs: `ClientTypeCorrect` and
`RefreshedOnce` (`UsedOnce`). `ClientInv` consists of `Flight` (a refresh under way is about
a pair), `Fresh` (what may still be presented was not) and `Forms` (the pair an answer brings
is nobody else's). `RequestsMoveOn` (`MovesOn`) adds `Waiting`: who waits has not been sent
again, and a refresh is in flight (`NobodyWaitsForNothing`, `WaitsForRefresh`). The two are
the safety half of `CallsSettle`, which is liveness and model-checked only.

## 10. Health

In this section `monitor.py` is `backend/src/fdir/monitor.py`, `routes/fdir.py` its
handlers, `detector.py` is `backend/src/anomaly/detector.py`.

- **`FdirMonitor`** — the checks of one satellite, possibly by two monitors during a
  failover, cut at their awaits, the alerts table, the operator's acknowledgement and a
  clock. Evidence is the time of what an alert rests on: the latest frame, or the pass
  that should have brought one; passes are part of the instance.
- **`AnomalyDetector`** — per satellite and parameter the length of the baseline, the
  active severity and the last report. A reading is the band its z-score falls in (noise,
  between the thresholds, warning, critical), and any band may follow any other.
- **`HealthWatch`** — both on the stream of one satellite's packets: `Packet` is stored
  and fed to the detector, `PacketUnfed` stored by a writer on another node.
- **`MCHealthWatch`** — the passes of the instance.
- **`HealthWatchProofs`** — the theorems.

| Code | Actions |
|---|---|
| `run`, `_check_satellite`, `_raise_alert` | `ReadLatest`, `Assess`, `Check` (open alerts), `Persist` or `PersistFails`, `Publish`; `Abandon` (an exception, a stop) |
| `acknowledge_alert`, telemetry, time | `Acknowledge`, `Insert` (of a reading), `Tick` |
| `feed` | `Feed` (`Window`, `Judged`, `InCooldown`, `Emits`) |
| eviction, new process | `Evict`, `NewDetector` |
| `_batch_write` and the detector behind it | `Packet`, `PacketUnfed` |

| Run | Instance | What it shows |
|---|---|---|
| `health` | a satellite without passes or one with a pass, one monitor, one key, baseline and cooldown of 2, a clock of 3, one fault, which may be an INSERT that is committed and reported as failed; fairness | `OneAlertPerMonitor`, `NewerEvidence`, `EventsMatchRows`, `FaultIsRaised`, `CriticalReported` |

Bounds. One monitor in the run, because all properties hold for each and the theorems
cover any number; clock, cooldown and baseline are as small as their comparisons allow
(a reading inside and one outside the window, a report inside and one after the cooldown).

Fairness: a monitor's loop never ends by itself, a failing check is logged and the next
cycle comes (`monitor.py:175`), so each monitor is weakly fair. `FaultIsRaised`: a fault
newer than every alert does not stay unreported while no alert is open.
`EventsMatchRows`: a fault costs at most one row its event and lets out at most one event
without a row; a committed INSERT whose answer is lost does both, because the event is
published all the same, under an id no row has (`monitor.py:219-238`).
`CriticalReported`: a critical reading with a full baseline behind it is reported now or
was within the cooldown.

Proved for any number of monitors, keys, readings and faults, and any clock:
`HealthTypeCorrect`, `AlertsBounded`, `OldEvidenceIsSilent`, `EventsFollowRows`,
`CriticalIsReported`. The invariant `HealthInv` has the types of the monitors, `Tally`
(two accounts against the faults that occurred: rows without their event, and events
without a row together with those about to be published), `AlertInv`
(`RaisesNews`: what a monitor is about to raise rests on data newer than its earlier alerts;
`OwnAlertsClosed`; `NewerEvidence`), and `EmittedInThePast`. `FaultIsRaised` is
model-checked only.

## 11. Passes

- **`PassSchedule`** — `pass_schedule` and `tle_history` of one satellite, and every
  job that recomputes the predictions: after a TLE came in by REST, from the periodic
  refresh (`backend/src/ingestion/celestrak.py`), after an import of ground stations. When
  a TLE shows the satellite is a constant (`Sky`): SGP4 is not modelled, only that
  different TLEs predict different passes.
- **`MCPassSchedule`** — the sky of the instance and its symmetry.
- **`PassScheduleProofs`** — the theorems.

| Code | Actions |
|---|---|
| `_compute_and_store_passes` | `Predict` (before the transaction), `Delete`, `DropCopies`, `Commit` (insert); `Fails` at any step |
| `set_tle`, `CelestrakRefresher` | `StoreTle`; `StartCycle`, `FetchTle`, `StoreFetched`, `EndCycle` |
| stations | `ImportStations`, `RecomputeAfterImport`, `CreateStation`, `DeleteStation` |
| time | `Tick` |

| Run | Instance | What it shows |
|---|---|---|
| `passes` | three jobs at a time, two TLEs that disagree on the end of a pass and the time of another, one station, a horizon of 3, a clock of 3 | `FreshSchedule`, `ScheduleIsSky`, `BegunPassesStay` |

Three jobs: two recomputations and the refresh that stores the TLE they disagree about.
`FreshSchedule` says that the predictions ahead are those of the recomputation that
committed last, but for rows that transactions overlapping with it inserted;
`ScheduleIsSky` that without overlap they show what the TLE shows of the sky;
`BegunPassesStay` that a pass which has begun keeps its row until a week is over, whatever
is recomputed, unless by a transaction older than the pass.

Proved for every sky and any number of jobs: `PassesTypeCorrect`, `ScheduleIsFresh`,
`BegunStay`, from `ScheduleInv`: what each transaction is aimed at, which ones overlap,
what was committed behind its back, and which rows are its own.

`SkyIsScheduled` proves `ScheduleIsSky`, in two parts. *What a prediction shows*: scanning
the sky from a horizon of rises to the setting that follows each of them yields intervals
that cover exactly the instants at which the satellite is visible (`SweepCovers`,
`ForecastIsSky`). *What the schedule shows*: the invariant `PlanInv` says that rows come
from recomputations that are over (`Settled`), that one on its way carries its whole
prediction (`Foretold`), that a transaction nobody overlapped works on the table as it is
(`Isolated`: it deletes what is to be deleted now and inserts its prediction without the
copies of what it kept), and the property itself from the NOW() of the recomputation on
(`SkySince`), which is stronger than from the present on and does not change as time
passes. The commit of an undisturbed transaction then shows the sky (`CommitShowsSky`), and
the steps of all others either leave the schedule alone or make themselves its newest.

## 12. Findings

1. **A command that must never be retried can be transmitted twice** (`publish_lost`).
   `service.py:246-263` takes every exception of `js.publish` for "not sent" and puts the
   row back to `scheduled`, also when the message was stored and only the stream's
   acknowledgement was lost. For the types `backend/src/commands/models.py:63` calls
   "Command types that must NEVER be retried" the next cycle sends it again. The payload
   carries no `Nats-Msg-Id`, so the stream does not suppress the duplicate either; a
   satellite that remembers ids (section 4) does.
2. **After a failover the new leader may lead without its services** (`takeover`).
   The durable consumers may still be bound to the old leader's connection when the new
   one subscribes. The answer listener logs the refusal and returns
   (`service.py:341-343`), ingestion and writer end with an exception nobody reads, and
   the elector, which only watches its database session, keeps leading.
   `backend/src/storage/leader.py:11-12` says that a follower takes over within `poll_s`.

Other places where the code does not do what it says, met while modelling. None of them has
a run: the properties of the sections above say what does hold beside them, and claim
nothing of these.

- **The retry budget can be exceeded.** Two PATCHes to `retry` are validated on the same
  row, one is applied, the command times out again, the other is applied: the row is back
  in `timeout`, but not with the count that was checked (`commands.py:295-298`). `README.md:64`
  promises at most 3 retries, `CHANGELOG.md:55` "Transitions are race-free."
- **Loops outlive the leadership.** After an answer that is JSON but no object
  (`service.py:378`; `orphans` in section 5) planner, executor and sweep run on a node that
  leads no more, and `stop()` cannot reach them. `background.py:2` says "started and stopped
  as one unit", lines 4-5 "Only the elected leader process runs them", `leader.py:4-7`
  "must run exactly once", and the overlap is not "at most poll_s" (`leader.py:12-14`).
- **A revoked token may be accepted again for up to a second.** `revoke_token` drops rows
  with `expires_at < NOW()` (`auth.py:224`), while the token's `exp` counts whole seconds
  and is accepted until its second is over. A logged-out access token whose `exp` has just
  passed is alive again when another revocation cleans up, until the second ends; the
  comment above the clean-up says it keeps "tokens still alive".
- **The first password may be lost.** Two workers of `docker-compose.prod.yml:18` bootstrap
  with one `ADMIN_BOOTSTRAP_FILE`. The one that loses the INSERT has written its own password
  over the winner's (`bootstrap.py:65`), and then removes the file (`:84`), taking the
  winner's row for a non-admin of that name. `bootstrap.py:61-63` writes the file first so
  that there is no "user whose password nobody could ever read".
- **A refresh may end the session a password change began.** `doRefresh` clears or overwrites
  whatever the store holds when it comes back (`client.ts:120-125`), not only the pair it
  started with. A request that meets a 401 after the new password was committed starts a
  refresh with the old token; if the answer of change-password is stored first, the failing
  refresh drops the fresh pair. `client.ts:83-84` and `routes/auth.py:158-160` say that this
  client stays logged in.
- **Batches may be acknowledged unwritten.** Transient, for `ingestion/writer.py:128`, are
  three exception types. A statement that exceeds the pool's `command_timeout`
  (`storage/db.py:52`) raises `TimeoutError`, a database that is starting up
  `CannotConnectNowError` (which `db.py:35-39` calls transient); both are taken for bad data
  (`writer.py:139-148`; `WriteStalls` in section 6). `writer.py:9-10` says "On DB failure,
  messages are NAK'ed (NATS will redeliver) instead of being silently ACK'ed and dropped".

## 13. Boundaries

What the models contain and the properties deliberately allow, because the code does:

- **PATCH and the retry budget.** `RetryBudget` (section 3) allows one retry more than
  `MAX_RETRIES` for every PATCH in progress beside another, because `transition_command`
  compares only the status (`commands.py:296`).
- **The planner's limit.** `_schedule_once` looks at 50 rows (`service.py:133`): that many
  commands without a pass ahead of another one keep it waiting. `ScheduledMoves` starts
  once a command is scheduled.
- **The mode cache** follows the order of the messages (`writer.py:267`): a batch sent back
  after a lost connection may bring back an older mode. `CacheAfterTable` says only that
  the cache shows something the table has.
- **Sessions.** Expiry is looked at when a token arrives, so `RotatesOnce` and
  `TicketOnce` are exact up to the token's `exp`; a socket may outlive the access token
  that bought its ticket; a logout that races a rotation leaves the rotated pair to its
  owner. A database error of a request is not modelled, only of the guard.
- **FDIR.** Overlapping monitors may open an alert each; an alert inside the grace window
  swallows the missed pass; after an insert that failed, or only seemed to, the event is
  published with a fresh id. `OneAlertPerMonitor` and `EventsMatchRows` count exactly that.
- **Detector.** The cooldown is kept for the last severity only (a warning, a critical
  reading, recovery and a warning again are three reports), eviction leaves the band
  active, a restart forgets everything.
- **Passes.** A pass that starts between the prediction and the DELETE, or that a new TLE
  moves, may appear twice; two overlapping transactions may leave both predictions;
  `create_station` recomputes nothing.
- **The satellite** forgets after 1000 ids and in a restart, and then executes again.
- **Rows left to operators.** States no loop reads (`transmitting` without an executor,
  `timeout`, `retry`, `scheduled` without a time) are left by overrides and crashes.
  Every safety property covers them; no liveness is claimed of them, and the code promises
  none.

Not modelled:

- protocol adapters (pure functions but for the KISS decoder's buffer), SGP4 and the pass
  search (numerical), telemetry and anomaly queries, health endpoint, metrics, audit
  entries and configuration (read-only or write-only);
- the HTTP client and the fetcher of SatNOGS, whose frames enter `TelemetryPipeline` like
  any others;
- the login throttle (`rate_limit.py:120`, a counter in Redis that no other component
  reads) and the pump of a socket from NATS to the browser;
- submissions without an idempotency key in section 4 (they are in section 3);
- the simulator's telemetry; pages, components and socket reconnection of the web client.
