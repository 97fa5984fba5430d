--------------------------- MODULE LeaderElection --------------------------
(***************************************************************************)
(* Leader election by a Postgres advisory lock (storage/leader.py) and the *)
(* background services the leader runs (api/background.py), with the       *)
(* subscriptions three of them need: ingestion, the telemetry writer and   *)
(* the answer listener of the scheduler.  The loops are the scheduler's    *)
(* other coroutines.                                                       *)
(*                                                                         *)
(* Postgres and NATS are modelled by what this code relies on: a lock      *)
(* belongs to a database session and goes with it, a durable consumer is   *)
(* bound to one NATS connection and a second subscriber is refused.  A     *)
(* server that has not noticed yet that its client is gone keeps lock or   *)
(* binding for a Ghost.                                                    *)
(***************************************************************************)
EXTENDS Naturals

CONSTANTS
  Node,         \* API processes
  Nobody,
  Ghost,
  MaxFaults,    \* bound: how many faults occur
  OddAnswers    \* answers occur that are JSON but not an object

ASSUME NodeAssumption == Nobody \notin Node /\ Ghost \notin Node /\ Nobody # Ghost
ASSUME FaultAssumption == MaxFaults \in Nat /\ OddAnswers \in BOOLEAN

VARIABLES
  lock,       \* whose session holds the advisory lock
  pc, conn,   \* the elector of each node and its database session
  nats,       \* the services' NATS connection is open
  task,       \* the services of each node
  orphans,    \* nodes whose scheduler task is over while its loops go on
  bind,       \* whose connection each durable consumer is bound to
  faults

vars == <<lock, pc, conn, nats, task, orphans, bind, faults>>

Durable == {"ingestion", "writer", "listener"}
Service == Durable \cup {"loops"}
Owner == Node \cup {Nobody, Ghost}
Idle == [s \in Service |-> "off"]

TypeOK ==
  /\ lock \in Owner
  /\ pc \in [Node -> {"connect", "try", "nats", "stream", "lead", "stop", "close", "release"}]
  /\ conn \in [Node -> {"none", "open", "broken"}]
  /\ nats \in [Node -> BOOLEAN]
  /\ task \in [Node -> [Service -> {"off", "subscribing", "running", "ended"}]]
  /\ orphans \subseteq Node
  /\ bind \in [Durable -> Owner]
  /\ \A s \in Durable : bind[s] \in Node => nats[bind[s]]
  /\ faults \in 0..MaxFaults

Init ==
  /\ lock = Nobody
  /\ pc = [n \in Node |-> "connect"]
  /\ conn = [n \in Node |-> "none"]
  /\ nats = [n \in Node |-> FALSE]
  /\ task = [n \in Node |-> Idle]
  /\ orphans = {}
  /\ bind = [s \in Durable |-> Nobody]
  /\ faults = 0

Goto(n, step) == pc' = [pc EXCEPT ![n] = step]
Fault == faults < MaxFaults /\ faults' = faults + 1

(* The server learns now or later that the client is gone.                 *)
LockWithout(n) == IF lock = n THEN {Nobody, Ghost} ELSE {lock}
KeepsSession(n) == {lock}   \* mutant: no conn.terminate()
Terminated(n) == LockWithout(n)

BindWithout(n) ==
  {b \in [Durable -> Owner] :
     \A s \in Durable : IF bind[s] = n THEN b[s] \in {Nobody, Ghost} ELSE b[s] = bind[s]}

----------------------------------------------------------------------------
(* The elector                                                             *)

(* asyncpg.connect; when it fails the node sleeps and tries again.         *)
Connect(n) ==
  /\ pc[n] = "connect"
  /\ conn' = [conn EXCEPT ![n] = "open"]
  /\ Goto(n, "try")
  /\ UNCHANGED <<lock, nats, task, orphans, bind, faults>>

(* Polled until the lock is free or the session is gone.                    *)
TryLock(n) ==
  /\ pc[n] = "try"
  /\ \/ /\ conn[n] = "open" /\ lock = Nobody
        /\ lock' = n
        /\ Goto(n, "nats")
     \/ conn[n] = "open" /\ lock # Nobody /\ UNCHANGED <<lock, pc>>
     \/ conn[n] = "broken" /\ Goto(n, "release") /\ UNCHANGED lock
  /\ UNCHANGED <<conn, nats, task, orphans, bind, faults>>

(* start(): connect_nats, then ensure_stream, then the tasks.              *)
StartNats(n) ==
  /\ pc[n] = "nats"
  /\ nats' = [nats EXCEPT ![n] = TRUE]
  /\ Goto(n, "stream")
  /\ UNCHANGED <<lock, conn, task, orphans, bind, faults>>

StartTasks(n) ==
  /\ pc[n] = "stream"
  /\ task' = [task EXCEPT ![n] =
               [s \in Service |-> IF s \in Durable THEN "subscribing" ELSE "running"]]
  /\ Goto(n, "lead")
  /\ UNCHANGED <<lock, conn, nats, orphans, bind, faults>>

NeverLooks(n) == FALSE   \* mutant: the leader's loop only sleeps
NoticesLoss(n) == conn[n] = "broken"

(* SELECT 1 on the session, once per poll interval.                         *)
Reconnects(n) ==   \* mutant: a lost session is replaced, and the lead goes on
  /\ pc[n] = "lead"
  /\ conn' = [conn EXCEPT ![n] = "open"]
  /\ UNCHANGED <<lock, pc, nats, task, orphans, bind, faults>>
Watch(n) ==
  /\ pc[n] = "lead"
  /\ IF NoticesLoss(n) THEN Goto(n, "stop") ELSE UNCHANGED pc
  /\ UNCHANGED <<lock, conn, nats, task, orphans, bind, faults>>

(* is_leader is set before start(), so that a start which fails half way    *)
(* is undone as well.                                                      *)
TerminateFirst(step) == "release"   \* mutant: the session goes before the services
Finally(step) == IF step \in {"nats", "stream", "lead"} THEN "stop" ELSE "release"

(* start() raises, or a query does on a session that lives.                *)
Interrupted(n) ==
  /\ pc[n] \in {"try", "nats", "stream", "lead"}
  /\ Fault
  /\ Goto(n, Finally(pc[n]))
  /\ UNCHANGED <<lock, conn, nats, task, orphans, bind>>

(* stop(): the tasks are cancelled, which ends the loops unless the task    *)
(* that would have to cancel them is over already.  The listener unbinds,  *)
(* the callbacks of ingestion and writer stay subscribed.                  *)
StopTasks(n) ==
  /\ pc[n] = "stop"
  /\ task' = [task EXCEPT ![n] = Idle]
  /\ IF bind["listener"] = n
       THEN \E o \in {Nobody, Ghost} : bind' = [bind EXCEPT !["listener"] = o]
       ELSE UNCHANGED bind
  /\ Goto(n, "close")
  /\ UNCHANGED <<lock, conn, nats, orphans, faults>>

(* Closing the connection is what ends the subscriptions.                  *)
CloseNats(n) ==
  /\ pc[n] = "close"
  /\ nats' = [nats EXCEPT ![n] = FALSE]
  /\ bind' \in BindWithout(n)
  /\ Goto(n, "release")
  /\ UNCHANGED <<lock, conn, task, orphans, faults>>

(* conn.terminate(), then the next attempt (or the next start).            *)
Release(n) ==
  /\ pc[n] = "release"
  /\ conn' = [conn EXCEPT ![n] = "none"]
  /\ lock' \in Terminated(n)
  /\ Goto(n, "connect")
  /\ UNCHANGED <<nats, task, orphans, bind, faults>>

----------------------------------------------------------------------------
(* The services                                                            *)

(* A durable that is still bound refuses a second subscriber; then the      *)
(* service is over, and nobody starts it again.                            *)
Subscribe(n, s) ==
  /\ task[n][s] = "subscribing"
  /\ IF bind[s] = Nobody
       THEN bind' = [bind EXCEPT ![s] = n] /\ task' = [task EXCEPT ![n][s] = "running"]
       ELSE UNCHANGED bind /\ task' = [task EXCEPT ![n][s] = "ended"]
  /\ UNCHANGED <<lock, pc, conn, nats, orphans, faults>>

(* data.get() raises in the listener: it leaves through its finally, and    *)
(* gather() ends the scheduler task without cancelling planner, executor   *)
(* and sweep.  Until the process ends they go on beside those of the next  *)
(* leader, as one more Node of CommandScheduler.                           *)
OddAnswer(n) ==
  /\ OddAnswers
  /\ task[n]["listener"] = "running"
  /\ task' = [task EXCEPT ![n]["listener"] = "ended", ![n]["loops"] = "ended"]
  /\ orphans' = orphans \cup {n}
  /\ IF bind["listener"] = n
       THEN \E o \in {Nobody, Ghost} : bind' = [bind EXCEPT !["listener"] = o]
       ELSE UNCHANGED bind
  /\ UNCHANGED <<lock, pc, conn, nats, faults>>

----------------------------------------------------------------------------
(* Faults                                                                  *)

DatabaseLost(n) ==
  /\ conn[n] = "open"
  /\ Fault
  /\ conn' = [conn EXCEPT ![n] = "broken"]
  /\ lock' \in LockWithout(n)
  /\ UNCHANGED <<pc, nats, task, orphans, bind>>

Crash(n) ==
  /\ Fault
  /\ pc' = [pc EXCEPT ![n] = "connect"]
  /\ conn' = [conn EXCEPT ![n] = "none"]
  /\ nats' = [nats EXCEPT ![n] = FALSE]
  /\ task' = [task EXCEPT ![n] = Idle]
  /\ orphans' = orphans \ {n}
  /\ lock' \in LockWithout(n)
  /\ bind' \in BindWithout(n)

GhostSessionEnds ==
  /\ lock = Ghost
  /\ lock' = Nobody
  /\ UNCHANGED <<pc, conn, nats, task, orphans, bind, faults>>

GhostBindingEnds(s) ==
  /\ bind[s] = Ghost
  /\ bind' = [bind EXCEPT ![s] = Nobody]
  /\ UNCHANGED <<lock, pc, conn, nats, task, orphans, faults>>

----------------------------------------------------------------------------

Elector(n) ==
  \/ Connect(n) \/ TryLock(n) \/ StartNats(n) \/ StartTasks(n) \/ Watch(n)
  \/ StopTasks(n) \/ CloseNats(n) \/ Release(n)

Next ==
  \/ \E n \in Node :
       \/ Elector(n) \/ Interrupted(n)
       \/ \E s \in Durable : Subscribe(n, s)
       \/ OddAnswer(n)
       \/ DatabaseLost(n) \/ Crash(n)
  \/ GhostSessionEnds
  \/ \E s \in Durable : GhostBindingEnds(s)

Spec == Init /\ [][Next]_vars

(* The elector's loop never ends by itself, tasks run, and servers give up  *)
(* on vanished clients in the end.  Faults owe nothing.                    *)
Fairness ==
  /\ \A n \in Node :
       /\ WF_vars(Elector(n))
       /\ \A s \in Durable : WF_vars(Subscribe(n, s))
  /\ WF_vars(GhostSessionEnds)
  /\ \A s \in Durable : WF_vars(GhostBindingEnds(s))

FairSpec == Spec /\ Fairness

----------------------------------------------------------------------------

(* What n's services have of the bus: the connection, a subscription, or a  *)
(* task that consumes from one.  The scheduler's other loops are not       *)
(* counted: an odd answer leaves them running where nobody can stop them   *)
(* (orphans), on a node that leads no more.                                *)
OnBus(n) ==
  \/ nats[n]
  \/ \E s \in Durable : bind[s] = n \/ task[n][s] \in {"subscribing", "running"}

Acting(n) == pc[n] \in {"nats", "stream", "lead", "stop", "close"}

(* A node that is not the leader, or not yet or no longer, is off the bus:  *)
(* it consumes nothing and can publish nothing, however its start or its   *)
(* lead ended (background.py 37-71, the finally block of leader.py).  It   *)
(* says nothing of loops that only read and write the database.            *)
FollowersOffBus == \A n \in Node : ~Acting(n) => ~OnBus(n)

(* Who acts as leader without the lock has lost the session that held it,   *)
(* so its next SELECT 1 fails: no cleanup and no retry leaves a session    *)
(* open that leads without the lock it was opened for (leader.py 46-71).   *)
LossIsNoticed ==
  \A n \in Node : Acting(n) => IF lock = n THEN conn[n] = "open" ELSE conn[n] = "broken"

(* A leader that lost its session leaves the bus: commands are published    *)
(* and frames consumed by two nodes only for a while (leader.py 12-14).    *)
(* Orphaned loops may work on the table for as long as the process lives.  *)
ExLeaderLeavesBus == \A n \in Node : (OnBus(n) /\ lock # n) ~> ~OnBus(n)

(* Once faults cease a node leads for good: no session, of this or of an    *)
(* earlier incarnation, keeps the lock from everybody (leader.py 46-71).   *)
LeadershipSettles == <>[](\E n \in Node : pc[n] = "lead" /\ lock = n)

(* The next leader takes over the work: the services of the leader that     *)
(* stays all run in the end.                                               *)
ServicesSettle ==
  <>[](\E n \in Node : pc[n] = "lead" /\ \A s \in Service : task[n][s] = "running")

Office == IF lock = Ghost THEN Nobody ELSE lock
Leaders == {n \in Node : Acting(n)}
Connected == {n \in Node : OnBus(n)}

Abstract == INSTANCE Leadership WITH
  office <- Office, acting <- Leaders, connected <- Connected

(* The sessions and subscriptions implement the contract of leadership.     *)
ImplementsLeadership == Abstract!Spec

============================================================================
