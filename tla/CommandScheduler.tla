-------------------------- MODULE CommandScheduler -------------------------
(***************************************************************************)
(* The commands table and everything that writes to it: the REST handlers  *)
(* of api/routes/commands.py and the coroutines of scheduler/service.py    *)
(* (planner, executor, answer listener, timeout sweep), run by one backend *)
(* node or, while leadership changes hands, by several.                    *)
(*                                                                         *)
(* One step is the code between two awaits on the database or on the bus,  *)
(* except where only the environment could come in between (the mode or    *)
(* the window read just before a guarded UPDATE of a REST handler): the    *)
(* environment may move at any time, so nothing is lost by joining them.   *)
(* The executor keeps its separate steps, because the row it holds grows   *)
(* stale there, and so does the PATCH handler.                             *)
(*                                                                         *)
(* Times are abstracted to what the queries compare: a planned time is     *)
(* absent, ahead or reached; a transmission time is absent, younger or     *)
(* older than ACK_TIMEOUT_S.                                               *)
(***************************************************************************)
EXTENDS CommandPolicy, Naturals, FiniteSets

CONSTANTS
  Command,        \* ids of the commands
  Satellite,
  Admin,          \* users by role
  Operator,
  NoUser,         \* SQL NULL in approved_by
  Request,        \* the requests users may submit
  NoRequest,
  Node,           \* backend processes whose background services may run
  NoCommand,
  Session,        \* PATCH requests that can be in progress at a time
  NoPatch,
  Reading,        \* the mode readings that occur
  Sky,            \* the pass situations that occur
  MaxRetries,     \* MAX_RETRIES
  BatchLimit,     \* rows one planner cycle looks at (LIMIT 50)
  PublishMayLie   \* a failed publish may have stored the message

User == Admin \cup Operator
RequestShape ==
  [type : STRING, sat : Satellite, by : User, safe : BOOLEAN, manual : BOOLEAN,
   priority : Nat]

(* open: the satellite is inside a pass over a station that can transmit.  *)
(* next: what the planner finds - a pass in progress with enough time left *)
(* ("now"), one ahead ("later") or no usable pass.                         *)
Window == {w \in [open : BOOLEAN, next : {"none", "later", "now"}] :
             w.next = "now" => w.open}

ASSUME RequestAssumption == Request \subseteq RequestShape
ASSUME NullAssumption ==
  /\ NoUser \notin User
  /\ NoRequest \notin RequestShape
  /\ NoCommand \notin Command
ASSUME BoundAssumption == MaxRetries \in Nat /\ BatchLimit \in Nat \ {0}
ASSUME EnvironmentAssumption ==
  /\ Reading \subseteq ModeReading
  /\ Sky \subseteq Window
ASSUME SessionAssumption == IsFiniteSet(Session)
ASSUME SwitchAssumption == PublishMayLie \in BOOLEAN

VARIABLES
  \* the commands table, one function per column; flights is not a column
  status, req, approvedBy, plannedAt, sentAt, retries,
  flights,        \* messages stored on commands.<sat> per command, up to 2
  answers,        \* ACKs and NACKs waiting in the stream
  \* what the code reads from elsewhere
  window,         \* pass_schedule as the two window queries see it
  mode,           \* current_mode() per satellite
  \* local state of the executor, the timeout sweep and the PATCH handler
  pc, batch, job, swept, patch

row == <<status, req, approvedBy, plannedAt, sentAt, retries>>
env == <<window, mode>>
executor == <<pc, batch, job>>
vars == <<row, flights, answers, env, executor, swept, patch>>

Status == CommandStatus \cup {"none"}
PlannedAt == {"none", "later", "due"}
SentAt == {"none", "fresh", "old"}
Answer == [cmd : Command, ok : BOOLEAN]

Patch == [cmd : Command, from : CommandStatus, to : CommandStatus]
ExecutorStep ==
  {"idle", "next", "window", "policy", "claim", "publish", "record", "bounce"}

Critical(c) == req[c].type \in TwoAdminCommands
Repeatable(c) == req[c].safe /\ req[c].type \notin UnsafeRetryTypes

TypeOK ==
  /\ status \in [Command -> Status]
  /\ req \in [Command -> Request \cup {NoRequest}]
  /\ \A c \in Command : status[c] # "none" => req[c] \in Request
  /\ approvedBy \in [Command -> User \cup {NoUser}]
  /\ plannedAt \in [Command -> PlannedAt]
  /\ sentAt \in [Command -> SentAt]
  /\ retries \in [Command -> Nat]
  /\ flights \in [Command -> 0..2]
  /\ answers \subseteq Answer
  /\ window \in [Satellite -> Sky]
  /\ mode \in [Satellite -> Reading]
  /\ pc \in [Node -> ExecutorStep]
  /\ batch \in [Node -> SUBSET {c \in Command : status[c] # "none"}]
  /\ job \in [Node -> {c \in Command : status[c] # "none"} \cup {NoCommand}]
  /\ \A n \in Node : pc[n] \notin {"idle", "next"} => job[n] # NoCommand
  /\ swept \in [Node -> SUBSET {c \in Command : status[c] # "none"}]
  /\ patch \in [Session -> Patch \cup {NoPatch}]

Init ==
  /\ status = [c \in Command |-> "none"]
  /\ req = [c \in Command |-> NoRequest]
  /\ approvedBy = [c \in Command |-> NoUser]
  /\ plannedAt = [c \in Command |-> "none"]
  /\ sentAt = [c \in Command |-> "none"]
  /\ retries = [c \in Command |-> 0]
  /\ flights = [c \in Command |-> 0]
  /\ answers = {}
  /\ window \in [Satellite -> Sky]
  /\ mode \in [Satellite -> Reading]
  /\ pc = [n \in Node |-> "idle"]
  /\ batch = [n \in Node |-> {}]
  /\ job = [n \in Node |-> NoCommand]
  /\ swept = [n \in Node |-> {}]
  /\ patch = [s \in Session |-> NoPatch]

----------------------------------------------------------------------------
(* REST handlers                                                           *)

(* POST /commands.  An unverified mode is accepted when the operator        *)
(* confirms it, so only a fresh mode can refuse the request.               *)
Create(c, r) ==
  /\ status[c] = "none"
  /\ r.type \in AdminOnlyCommands \cup TwoAdminCommands => r.by \in Admin
  /\ ~Denied(r.type, mode[r.sat])
  /\ req' = [req EXCEPT ![c] = r]
  /\ status' = [status EXCEPT ![c] = IF r.type \in TwoAdminCommands
                                       THEN "awaiting_approval" ELSE "pending"]
  /\ \E t \in (IF r.manual THEN {"later", "due"} ELSE {"none"}) :
       plannedAt' = [plannedAt EXCEPT ![c] = t]
  /\ UNCHANGED <<approvedBy, sentAt, retries, flights, answers, env, executor,
                 swept, patch>>

(* POST /commands/{id}/approve                                             *)
AnyAdminApproves(c, u) == u \in Admin   \* mutant: the creator approves too
MayApprove(c, u) == u \in Admin /\ u # req[c].by

Approve(c, u) ==
  /\ status[c] = "awaiting_approval"
  /\ MayApprove(c, u)
  /\ ~Denied(req[c].type, mode[req[c].sat])
  /\ status' = [status EXCEPT ![c] = "pending"]
  /\ approvedBy' = [approvedBy EXCEPT ![c] = u]
  /\ UNCHANGED <<req, plannedAt, sentAt, retries, flights, answers, env, executor,
                 swept, patch>>

(* DELETE /commands/{id}                                                   *)
Cancel(c) ==
  /\ status[c] \in {"awaiting_approval", "pending", "scheduled"}
  /\ status' = [status EXCEPT ![c] = "dead"]
  /\ UNCHANGED <<req, approvedBy, plannedAt, sentAt, retries, flights, answers,
                 env, executor, swept, patch>>

PatchTargets == {"scheduled", "transmitting", "sent", "acked", "timeout", "retry"}

RetryTooMany(c) == retries[c] <= MaxRetries   \* mutant: off by one
RetryLeft(c) == retries[c] < MaxRetries

(* PATCH /commands/{id}/transition, first half: the row is read and the     *)
(* transition validated against it.                                        *)
PatchRead(s, c, to) ==
  /\ patch[s] = NoPatch
  /\ status[c] # "none"
  /\ to \in PatchTargets \cap Transitions(status[c])
  /\ to = "retry" => RetryLeft(c) /\ Repeatable(c)
  /\ patch' = [patch EXCEPT ![s] = [cmd |-> c, from |-> status[c], to |-> to]]
  /\ UNCHANGED <<row, flights, answers, env, executor, swept>>

(* Only the target 'sent' sets sent_at.                                    *)
Stamped(to) == to = "sent"

(* Second half: UPDATE ... WHERE id = $1 AND status = <the state read>.     *)
PatchApplied(s) ==
  /\ patch[s] # NoPatch
  /\ LET p == patch[s] IN
       /\ status[p.cmd] = p.from
       /\ status' = [status EXCEPT ![p.cmd] = p.to]
       /\ sentAt' = [sentAt EXCEPT ![p.cmd] = IF Stamped(p.to) THEN "fresh" ELSE @]
       /\ retries' = [retries EXCEPT ![p.cmd] = IF p.to = "retry" THEN @ + 1 ELSE @]
  /\ patch' = [patch EXCEPT ![s] = NoPatch]
  /\ UNCHANGED <<req, approvedBy, plannedAt, flights, answers, env, executor, swept>>

(* The row changed state in between: 409.                                  *)
PatchConflict(s) ==
  /\ patch[s] # NoPatch
  /\ status[patch[s].cmd] # patch[s].from
  /\ patch' = [patch EXCEPT ![s] = NoPatch]
  /\ UNCHANGED <<row, flights, answers, env, executor, swept>>

----------------------------------------------------------------------------
(* Planner: pending -> scheduled                                           *)

(* c is among the first BatchLimit pending rows by priority.               *)
Ahead(c) == {d \in Command : status[d] = "pending" /\ req[d].priority < req[c].priority}
InBatch(c) == Cardinality(Ahead(c)) < BatchLimit

Schedule(c) ==
  /\ status[c] = "pending"
  /\ InBatch(c)
  /\ \/ plannedAt[c] # "none" /\ UNCHANGED plannedAt
     \/ /\ plannedAt[c] = "none"
        /\ window[req[c].sat].next # "none"
        /\ plannedAt' = [plannedAt EXCEPT ![c] =
                           IF window[req[c].sat].next = "now" THEN "due" ELSE "later"]
  /\ status' = [status EXCEPT ![c] = "scheduled"]
  /\ UNCHANGED <<req, approvedBy, sentAt, retries, flights, answers, env, executor,
                 swept, patch>>

----------------------------------------------------------------------------
(* Executor: scheduled -> transmitting -> sent                             *)

ExecSelect(n) ==
  /\ pc[n] = "idle"
  /\ LET ready == {c \in Command : status[c] = "scheduled" /\ plannedAt[c] = "due"} IN
       /\ ready # {}
       /\ batch' = [batch EXCEPT ![n] = ready]
  /\ pc' = [pc EXCEPT ![n] = "next"]
  /\ UNCHANGED <<row, flights, answers, env, job, swept, patch>>

(* The next row of the batch: whether its window matters was decided when   *)
(* the command was created.                                                *)
ExecNext(n, c) ==
  /\ pc[n] = "next"
  /\ c \in batch[n]
  /\ batch' = [batch EXCEPT ![n] = @ \ {c}]
  /\ job' = [job EXCEPT ![n] = c]
  /\ pc' = [pc EXCEPT ![n] = IF req[c].manual THEN "policy" ELSE "window"]
  /\ UNCHANGED <<row, flights, answers, env, swept, patch>>

ExecDone(n) ==
  /\ pc[n] = "next"
  /\ batch[n] = {}
  /\ pc' = [pc EXCEPT ![n] = "idle"]
  /\ UNCHANGED <<row, flights, answers, env, batch, job, swept, patch>>

Goto(n, step) ==
  /\ pc' = [pc EXCEPT ![n] = step]
  /\ job' = [job EXCEPT ![n] = IF step = "next" THEN NoCommand ELSE @]
  /\ UNCHANGED batch

(* UPDATE ... SET status = <to> WHERE id = job AND status = <from>          *)
UpdateById(n, from, to) ==   \* mutant: no AND status = <from>
  status' = [status EXCEPT ![job[n]] = to]
Update(n, from, to) ==
  status' = [status EXCEPT ![job[n]] = IF @ = from THEN to ELSE @]

WindowOpen(n) ==
  /\ pc[n] = "window"
  /\ window[req[job[n]].sat].open
  /\ Goto(n, "policy")
  /\ UNCHANGED <<row, flights, answers, env, swept, patch>>

WindowMissed(n) ==
  /\ pc[n] = "window"
  /\ ~window[req[job[n]].sat].open
  /\ Update(n, "scheduled", "pending")
  /\ plannedAt' = [plannedAt EXCEPT ![job[n]] =
                     IF status[job[n]] = "scheduled" THEN "none" ELSE @]
  /\ Goto(n, "next")
  /\ UNCHANGED <<req, approvedBy, sentAt, retries, flights, answers, env, swept, patch>>

PolicyAllows(n) ==
  /\ pc[n] = "policy"
  /\ ~Denied(req[job[n]].type, mode[req[job[n]].sat])
  /\ Goto(n, "claim")
  /\ UNCHANGED <<row, flights, answers, env, swept, patch>>

PolicyDenies(n) ==
  /\ pc[n] = "policy"
  /\ Denied(req[job[n]].type, mode[req[job[n]].sat])
  /\ Update(n, "scheduled", "dead")
  /\ Goto(n, "next")
  /\ UNCHANGED <<req, approvedBy, plannedAt, sentAt, retries, flights, answers, env,
                 swept, patch>>

(* claimed = "UPDATE 1"                                                    *)
ResultIgnored(n) == TRUE   \* mutant: the row count is not looked at
Claimed(n) == status[job[n]] = "scheduled"

Claim(n) ==
  /\ pc[n] = "claim"
  /\ Update(n, "scheduled", "transmitting")
  /\ Goto(n, IF Claimed(n) THEN "publish" ELSE "next")
  /\ UNCHANGED <<req, approvedBy, plannedAt, sentAt, retries, flights, answers, env,
                 swept, patch>>

OneMoreFlight(c) == flights' = [flights EXCEPT ![c] = IF @ < 2 THEN @ + 1 ELSE @]

Publish(n) ==
  /\ pc[n] = "publish"
  /\ OneMoreFlight(job[n])
  /\ Goto(n, "record")
  /\ UNCHANGED <<row, answers, env, swept, patch>>

(* The publish raised.  The acknowledgement of the stream may be all that   *)
(* was lost: then the message is stored although the call failed.          *)
PublishFails(n) ==
  /\ pc[n] = "publish"
  /\ UNCHANGED flights \/ (PublishMayLie /\ OneMoreFlight(job[n]))
  /\ Goto(n, "bounce")
  /\ UNCHANGED <<row, answers, env, swept, patch>>

Record(n) ==
  /\ pc[n] = "record"
  /\ Update(n, "transmitting", "sent")
  /\ sentAt' = [sentAt EXCEPT ![job[n]] =
                  IF status[job[n]] = "transmitting" THEN "fresh" ELSE @]
  /\ Goto(n, "next")
  /\ UNCHANGED <<req, approvedBy, plannedAt, retries, flights, answers, env, swept,
                 patch>>

Bounce(n) ==
  /\ pc[n] = "bounce"
  /\ Update(n, "transmitting", "scheduled")
  /\ Goto(n, "next")
  /\ UNCHANGED <<req, approvedBy, plannedAt, sentAt, retries, flights, answers, env,
                 swept, patch>>

(* A database error ends the cycle, a crash or a loss of leadership ends    *)
(* the executor: either way the rest of the batch is forgotten.            *)
ExecAborts(n) ==
  /\ pc[n] # "idle"
  /\ pc' = [pc EXCEPT ![n] = "idle"]
  /\ batch' = [batch EXCEPT ![n] = {}]
  /\ job' = [job EXCEPT ![n] = NoCommand]
  /\ UNCHANGED <<row, flights, answers, env, swept, patch>>

----------------------------------------------------------------------------
(* Answers of the satellite                                                *)

AnswerableWhenSent(c) == status[c] = "sent"   \* mutant: the rule of v0.1.0
Answerable(c) ==
  /\ status[c] \notin {"none", "acked", "dead"}
  /\ status[c] = "transmitting" \/ sentAt[c] # "none"

(* The consumer applies one answer.  It leaves the stream unless the        *)
(* message acknowledgement is lost: then it is delivered once more.        *)
AnswerApplied(a) ==
  /\ a \in answers
  /\ IF Answerable(a.cmd)
       THEN /\ status' = [status EXCEPT ![a.cmd] = IF a.ok THEN "acked" ELSE "dead"]
            /\ sentAt' = [sentAt EXCEPT ![a.cmd] = IF @ = "none" THEN "fresh" ELSE @]
       ELSE UNCHANGED <<status, sentAt>>
  /\ answers' \in {answers, answers \ {a}}
  /\ UNCHANGED <<req, approvedBy, plannedAt, retries, flights, env, executor, swept,
                 patch>>

----------------------------------------------------------------------------
(* Timeout sweep                                                           *)

SweepSelect(n) ==
  /\ swept[n] = {}
  /\ LET late == {c \in Command : status[c] = "sent" /\ sentAt[c] = "old"} IN
       /\ late # {}
       /\ swept' = [swept EXCEPT ![n] = late]
  /\ UNCHANGED <<row, flights, answers, env, executor, patch>>

Swept(n, c) == swept' = [swept EXCEPT ![n] = @ \ {c}]

LostSignalAlways(c) == ~window[req[c].sat].open   \* mutant: manual times are replanned
LostSignal(c) == ~req[c].manual /\ ~window[req[c].sat].open

OutOfRetriesOnly(c) == ~LostSignal(c) /\ ~RetryLeft(c)   \* mutant: safe_retry forgotten
Exhausted(c) == ~Repeatable(c) \/ (~LostSignal(c) /\ ~RetryLeft(c))

(* A retry is scheduled at NOW() + backoff.                                *)
NoBackoff == "none"   \* mutant: scheduled_at is cleared
Backoff == "later"

(* One transaction per row.  The intermediate states 'timeout' and 'retry'  *)
(* are written and left inside it, so no other process sees them.          *)
SweepSkips(n, c) ==
  /\ c \in swept[n] /\ status[c] # "sent"
  /\ Swept(n, c)
  /\ UNCHANGED <<row, flights, answers, env, executor, patch>>

SweepReplans(n, c) ==
  /\ c \in swept[n] /\ status[c] = "sent"
  /\ Repeatable(c) /\ LostSignal(c)
  /\ Swept(n, c)
  /\ status' = [status EXCEPT ![c] = "pending"]
  /\ plannedAt' = [plannedAt EXCEPT ![c] = "none"]
  /\ UNCHANGED <<req, approvedBy, sentAt, retries, flights, answers, env, executor,
                 patch>>

SweepRetries(n, c) ==
  /\ c \in swept[n] /\ status[c] = "sent"
  /\ Repeatable(c) /\ ~LostSignal(c) /\ RetryLeft(c)
  /\ Swept(n, c)
  /\ status' = [status EXCEPT ![c] = "scheduled"]
  /\ plannedAt' = [plannedAt EXCEPT ![c] = Backoff]
  /\ retries' = [retries EXCEPT ![c] = @ + 1]
  /\ UNCHANGED <<req, approvedBy, sentAt, flights, answers, env, executor, patch>>

SweepGivesUp(n, c) ==
  /\ c \in swept[n] /\ status[c] = "sent"
  /\ Exhausted(c)
  /\ Swept(n, c)
  /\ status' = [status EXCEPT ![c] = "dead"]
  /\ UNCHANGED <<req, approvedBy, plannedAt, sentAt, retries, flights, answers, env,
                 executor, patch>>

SweepAborts(n) ==
  /\ swept[n] # {}
  /\ swept' = [swept EXCEPT ![n] = {}]
  /\ UNCHANGED <<row, flights, answers, env, executor, patch>>

----------------------------------------------------------------------------
(* Environment                                                             *)

(* The satellite answers a command it was sent; it may answer every         *)
(* transmission, or none.                                                  *)
SatelliteAnswers(a) ==
  /\ a \notin answers
  /\ flights[a.cmd] > 0
  /\ answers' = answers \cup {a}
  /\ UNCHANGED <<row, flights, env, executor, swept, patch>>

(* Passes begin and end, pass_schedule is recomputed, stations change.     *)
WindowMoves(s) ==
  /\ \E w \in Sky \ {window[s]} : window' = [window EXCEPT ![s] = w]
  /\ UNCHANGED <<row, flights, answers, mode, executor, swept, patch>>

ModeReported(s) ==
  /\ \E m \in Reading \ {mode[s]} : mode' = [mode EXCEPT ![s] = m]
  /\ UNCHANGED <<row, flights, answers, window, executor, swept, patch>>

PlannedTimeArrives(c) ==
  /\ plannedAt[c] = "later"
  /\ plannedAt' = [plannedAt EXCEPT ![c] = "due"]
  /\ UNCHANGED <<status, req, approvedBy, sentAt, retries, flights, answers, env,
                 executor, swept, patch>>

AckTimeoutPasses(c) ==
  /\ sentAt[c] = "fresh"
  /\ sentAt' = [sentAt EXCEPT ![c] = "old"]
  /\ UNCHANGED <<status, req, approvedBy, plannedAt, retries, flights, answers, env,
                 executor, swept, patch>>

----------------------------------------------------------------------------

Rest ==
  \/ \E c \in Command, r \in Request : Create(c, r)
  \/ \E c \in Command, u \in User : Approve(c, u)
  \/ \E c \in Command : Cancel(c)
  \/ \E s \in Session, c \in Command, to \in PatchTargets : PatchRead(s, c, to)
  \/ \E s \in Session : PatchApplied(s) \/ PatchConflict(s)

Executor(n) ==
  \/ ExecSelect(n) \/ ExecDone(n) \/ \E c \in Command : ExecNext(n, c)
  \/ WindowOpen(n) \/ WindowMissed(n) \/ PolicyAllows(n) \/ PolicyDenies(n)
  \/ Claim(n) \/ Publish(n) \/ PublishFails(n) \/ Record(n) \/ Bounce(n)
  \/ ExecAborts(n)

Sweep(n) ==
  \/ SweepSelect(n) \/ SweepAborts(n)
  \/ \E c \in Command :
       \/ SweepSkips(n, c) \/ SweepReplans(n, c)
       \/ SweepRetries(n, c) \/ SweepGivesUp(n, c)

Environment ==
  \/ \E a \in Answer : SatelliteAnswers(a)
  \/ \E s \in Satellite : WindowMoves(s) \/ ModeReported(s)
  \/ \E c \in Command : PlannedTimeArrives(c) \/ AckTimeoutPasses(c)

Next ==
  \/ Rest
  \/ \E c \in Command : Schedule(c)
  \/ \E n \in Node : Executor(n) \/ Sweep(n)
  \/ \E a \in answers : AnswerApplied(a)
  \/ Environment

Spec == Init /\ [][Next]_vars

(* Every loop of scheduler/service.py sleeps and runs again whatever its    *)
(* last cycle ended with, errors do not strike the same statement for      *)
(* ever, and time passes.  Users, satellites and passes owe nothing.       *)
Fairness ==
  /\ \A c \in Command :
       /\ SF_vars(Schedule(c))
       /\ WF_vars(PlannedTimeArrives(c))
       /\ WF_vars(AckTimeoutPasses(c))
  /\ \A n \in Node :
       /\ SF_vars(ExecSelect(n))
       /\ SF_vars(\E c \in Command : ExecNext(n, c))
       /\ SF_vars(WindowOpen(n) \/ WindowMissed(n))
       /\ SF_vars(PolicyAllows(n) \/ PolicyDenies(n))
       /\ SF_vars(Claim(n))
       /\ WF_vars(Publish(n) \/ PublishFails(n) \/ Record(n) \/ Bounce(n) \/ ExecDone(n))
       /\ SF_vars(SweepSelect(n))
       /\ SF_vars(\E c \in Command :
                    SweepReplans(n, c) \/ SweepRetries(n, c) \/ SweepGivesUp(n, c))

FairSpec == Spec /\ Fairness

----------------------------------------------------------------------------
(* Safety                                                                  *)

(* A critical command is on the uplink only after an admin other than its   *)
(* creator approved it, whatever PATCH, retries and failover do to it      *)
(* (approve_command; TWO_ADMIN_COMMANDS).                                  *)
TwoAdminRule ==
  \A c \in Command : flights[c] > 0 /\ Critical(c) =>
                      approvedBy[c] \in Admin \ {req[c].by}

(* A command that must never be retried is transmitted at most once, even   *)
(* with two executors, operator overrides and late answers: the claims     *)
(* "WHERE status = ..." are what prevents it (UNSAFE_RETRY_TYPES).         *)
UnsafeSentOnce ==
  \A c \in Command : status[c] # "none" /\ ~Repeatable(c) => flights[c] <= 1

(* A PATCH compares only the state of the row, not its retry count: one     *)
(* validated before the last retry may be applied after it, when the       *)
(* command has timed out again.  Every request in progress beside another  *)
(* one is good for one retry more than MAX_RETRIES.                        *)
Overtakers == IF Session = {} THEN 0 ELSE Cardinality(Session) - 1

(* Only repeatable commands are ever retried.  The sweep, and PATCHes that  *)
(* come one at a time, retry them MAX_RETRIES times at most; PATCHes in    *)
(* progress at the same time exceed that by one retry each, and no more    *)
(* (_mark_timed_out and the retry checks of transition_command).           *)
RetryBudget ==
  \A c \in Command :
    /\ retries[c] <= MaxRetries + Overtakers
    /\ retries[c] > 0 => Repeatable(c)

(* ACKED and DEAD are terminal: no answer, sweep, claim, override or        *)
(* recovery moves a finished command (the guards of every UPDATE).         *)
FinishedIsFinal ==
  [][\A c \in Command : status[c] \in {"acked", "dead"} => status'[c] = status[c]]_vars

(* Every row in 'sent' is visible to the timeout sweep, whose query needs a *)
(* sent_at; a row an operator moves to 'sent' is no exception.             *)
SentIsSwept == \A c \in Command : status[c] = "sent" => sentAt[c] # "none"

(* The time an operator set survives re-planning and loss of signal, and no *)
(* row is scheduled without a time the executor's query can reach.         *)
AlwaysPlanned ==
  \A c \in Command :
    status[c] = "scheduled" \/ (status[c] # "none" /\ req[c].manual) =>
      plannedAt[c] # "none"

(* An answer of the satellite leaves the stream only when its command is    *)
(* finished: ACKs that overtake the 'sent' update or come after a timeout  *)
(* are not dropped (_ANSWERABLE).                                          *)
AnswersNotDropped ==
  [][\A a \in answers \ answers' : status'[a.cmd] \in {"acked", "dead"}]_vars

(* The timeout sweep brings every command out of 'sent', answered or not.   *)
SentResolves == \A c \in Command : status[c] = "sent" ~> status[c] # "sent"

(* A scheduled command does not stay scheduled: it is sent, re-planned or   *)
(* dropped, whatever cycles of the executor fail in between.               *)
ScheduledMoves ==
  \A c \in Command : status[c] = "scheduled" ~> status[c] # "scheduled"

(* What the subsystem promises about one command, whatever the mechanism.   *)
PhaseOf(st) ==
  CASE st = "none" -> "new"
    [] st = "awaiting_approval" -> "held"
    [] st \in {"acked", "dead"} -> st
    [] OTHER -> "open"

Lifecycle == INSTANCE CommandLifecycle WITH
  phase <- [c \in Command |-> PhaseOf(status[c])],
  taken <- {c \in Command : \E n \in Node : pc[n] = "publish" /\ job[n] = c},
  critical <- {c \in Command : status[c] # "none" /\ Critical(c)},
  repeatable <- {c \in Command : status[c] # "none" /\ Repeatable(c)},
  signed <- {c \in Command : approvedBy[c] # NoUser}

(* The detailed system implements the lifecycle contract.                  *)
ImplementsLifecycle == Lifecycle!Spec

============================================================================
