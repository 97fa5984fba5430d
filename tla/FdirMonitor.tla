---------------------------- MODULE FdirMonitor -----------------------------
(***************************************************************************)
(* The FDIR monitor (fdir/monitor.py) for one satellite, and the           *)
(* acknowledgement of its alerts (api/routes/fdir.py).  A check reads the  *)
(* latest telemetry, the passes and the alerts one after the other, and    *)
(* inserts and publishes later still; monitors of two processes overlap    *)
(* when leadership moves.  Time 0 stands for a frame that never came.      *)
(***************************************************************************)
EXTENDS Naturals, Sequences, FiniteSets

CONSTANTS
  Monitor,
  Schedules,    \* sets of passes over our own stations, [aos, los]
  Grace,        \* PASS_GRACE
  StaleAfter,   \* STALE_TELEMETRY_MINUTES
  MaxClock, MaxFaults   \* bounds

ASSUME MonitorAssumption ==
  /\ IsFiniteSet(Monitor)
  /\ \A passes \in Schedules : passes \subseteq [aos : Nat \ {0}, los : Nat \ {0}]
  /\ {Grace, StaleAfter, MaxFaults} \subseteq Nat
  /\ MaxClock \in Nat \ {0}

VARIABLES
  clock,
  schedule,     \* pass_schedule
  latest,       \* newest row of the telemetry table
  alerts,       \* fdir_alerts; which monitor inserted a row, on what evidence, is no column
  mon,          \* what each monitor is about to do
  announced, phantoms,   \* rows whose event is on the bus, and events without a row
  faults

tables == <<schedule, latest, alerts>>
events == <<announced, phantoms>>
vars == <<clock, tables, mon, events, faults>>

Alert == DOMAIN alerts
Open == {i \in Alert : ~alerts[i].acknowledged}
Frame == [time : 0..MaxClock, ok : BOOLEAN]
Idle == [pc |-> "idle", frame |-> [time |-> 0, ok |-> TRUE], evidence |-> 0, id |-> 0]

AlertsOK ==
  alerts \in Seq([at : 0..MaxClock, acknowledged : BOOLEAN, by : Monitor,
                  evidence : 1..MaxClock])
MonitorsOK ==
  mon \in [Monitor -> [pc : {"idle", "assess", "check", "raise", "publish"}, frame : Frame,
                       evidence : 0..MaxClock, id : 0..Len(alerts)]]
TypeOK ==
  /\ schedule \in Schedules
  /\ clock \in 1..MaxClock
  /\ latest \in Frame
  /\ AlertsOK
  /\ MonitorsOK
  /\ announced \subseteq Alert
  /\ phantoms \in 0..MaxFaults
  /\ faults \in 0..MaxFaults

Init ==
  /\ schedule \in Schedules
  /\ clock = 1
  /\ latest = Idle.frame
  /\ alerts = <<>>
  /\ mon = [m \in Monitor |-> Idle]
  /\ announced = {}
  /\ phantoms = 0
  /\ faults = 0

Fault == faults < MaxFaults /\ faults' = faults + 1
Goes(m, r) == mon' = [mon EXCEPT ![m] = r]
At(m, pc) == mon[m].pc = pc
Proceeds(m, pc) == Goes(m, [mon[m] EXCEPT !.pc = pc])

-----------------------------------------------------------------------------
(* assess() *)

Over == {p \in schedule : p.los + Grace < clock}
LastPass == CHOOSE p \in Over : \A q \in Over : q.los <= p.los

Missed(f) == Over # {} /\ f.time < LastPass.aos
Stale(f) == schedule = {} /\ clock - f.time > StaleAfter

Heard(f) == f.time > 0

\* The data points the warnings about f rest on; none, no warning.
Evidence(f) ==
  (IF Missed(f) THEN {LastPass.los} ELSE {})
    \cup (IF Heard(f) /\ (Stale(f) \/ ~f.ok) THEN {f.time} ELSE {})

Newest(times) == CHOOSE t \in times : \A s \in times : s <= t

\* Mutants: an acknowledged alert is over and done with; only the evidence counts.
OpenOnly(evidence) == Open # {}
NewerOnly(evidence) == \E i \in Alert : alerts[i].at >= evidence

AlreadyAlerted(evidence) == \E i \in Alert : i \in Open \/ alerts[i].at >= evidence

-----------------------------------------------------------------------------
(* One check *)

ReadLatest(m) ==
  /\ At(m, "idle")
  /\ Goes(m, [Idle EXCEPT !.pc = "assess", !.frame = latest])
  /\ UNCHANGED <<clock, tables, events, faults>>

Assess(m) ==
  /\ At(m, "assess")
  /\ LET times == Evidence(mon[m].frame) IN
       IF times = {}
         THEN Goes(m, Idle)
         ELSE Goes(m, [Idle EXCEPT !.pc = "check", !.evidence = Newest(times)])
  /\ UNCHANGED <<clock, tables, events, faults>>

Check(m) ==
  /\ At(m, "check")
  /\ IF AlreadyAlerted(mon[m].evidence)
       THEN Goes(m, Idle)
       ELSE Proceeds(m, "raise")
  /\ UNCHANGED <<clock, tables, events, faults>>

Inserts(m) ==
  alerts' = Append(alerts, [at |-> clock, acknowledged |-> FALSE,
                            by |-> m, evidence |-> mon[m].evidence])

\* Mutant: the event carries an id of its own, not the row's.
PersistUnderOwnId(m) ==
  /\ At(m, "raise")
  /\ Inserts(m)
  /\ Proceeds(m, "publish")
  /\ UNCHANGED <<clock, schedule, latest, events, faults>>

Persist(m) ==
  /\ At(m, "raise")
  /\ Inserts(m)
  /\ Goes(m, [mon[m] EXCEPT !.pc = "publish", !.id = Len(alerts')])
  /\ UNCHANGED <<clock, schedule, latest, events, faults>>

\* Whether the INSERT was committed, and only its answer lost, cannot be told: the event
\* is published all the same, under an id no row has.
PersistFails(m) ==
  /\ At(m, "raise")
  /\ Fault
  /\ Inserts(m) \/ UNCHANGED alerts
  /\ Proceeds(m, "publish")
  /\ UNCHANGED <<clock, schedule, latest, events>>

Publish(m) ==
  /\ At(m, "publish")
  /\ IF mon[m].id # 0
       THEN announced' = announced \cup {mon[m].id} /\ UNCHANGED phantoms
       ELSE phantoms' = phantoms + 1 /\ UNCHANGED announced
  /\ Goes(m, Idle)
  /\ UNCHANGED <<clock, tables, faults>>

\* Mutant: the exception ends the loop of the monitor.
LoopEnds(m) ==
  /\ ~At(m, "idle")
  /\ Fault
  /\ Proceeds(m, "over")
  /\ UNCHANGED <<clock, tables, events>>

\* A query or the publication raises, or the process stops: the check is over.
Abandon(m) ==
  /\ ~At(m, "idle")
  /\ Fault
  /\ Goes(m, Idle)
  /\ UNCHANGED <<clock, tables, events>>

MonitorStep(m) == ReadLatest(m) \/ Assess(m) \/ Check(m) \/ Persist(m) \/ Publish(m)

-----------------------------------------------------------------------------
\* UPDATE ... WHERE acknowledged = FALSE: a second acknowledgement finds nothing.
Acknowledge(i) ==
  /\ ~alerts[i].acknowledged
  /\ alerts' = [alerts EXCEPT ![i].acknowledged = TRUE]
  /\ UNCHANGED <<clock, schedule, latest, mon, events, faults>>

\* The writer inserts a row (TelemetryPipeline); rows may come late and twice.
Insert(f) ==
  /\ f.time \in 1..clock
  /\ latest' = IF f.time >= latest.time THEN f ELSE latest
  /\ UNCHANGED <<clock, schedule, alerts, mon, events, faults>>

Tick ==
  /\ clock < MaxClock
  /\ clock' = clock + 1
  /\ UNCHANGED <<tables, mon, events, faults>>

-----------------------------------------------------------------------------
Next ==
  \/ \E m \in Monitor : MonitorStep(m) \/ PersistFails(m) \/ Abandon(m)
  \/ \E i \in Alert : Acknowledge(i)
  \/ \E f \in Frame : Insert(f)
  \/ Tick

Spec == Init /\ [][Next]_vars

-----------------------------------------------------------------------------
\* One open alert at a time; monitors that overlap and look at the same instant may
\* add one each, never more, whatever is acknowledged meanwhile (monitor.py:19, :213).
OneAlertPerMonitor == Cardinality(Open) <= Cardinality(Monitor)

\* After an alert the same monitor raises another only for evidence newer than that
\* alert, acknowledged or not, also after a restart (monitor.py:19).
NewerEvidence ==
  \A i, j \in Alert :
    (i < j /\ alerts[i].by = alerts[j].by) => alerts[j].evidence > alerts[i].at

Unheard == {i \in Alert : i \notin announced /\ \A m \in Monitor : mon[m].id # i}

\* A failure costs at most one row its event, and lets out at most one event without a
\* row; a committed INSERT whose answer is lost does both (monitor.py:219, :235).
EventsMatchRows == Cardinality(Unheard) <= faults /\ phantoms <= faults

Unreported ==
  /\ Evidence(latest) # {}
  /\ ~AlreadyAlerted(Newest(Evidence(latest)))
=============================================================================
