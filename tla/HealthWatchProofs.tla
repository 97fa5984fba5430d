------------------------- MODULE HealthWatchProofs --------------------------
(***************************************************************************)
(* Theorems about HealthWatch, for any number of overlapping monitors, any *)
(* schedules, parameters and thresholds, and any number of failures.       *)
(***************************************************************************)
EXTENDS HealthWatch, FiniteSetTheorems, WellFoundedInduction, TLAPS

Row == [at : 0..MaxClock, acknowledged : BOOLEAN, by : Monitor, evidence : 1..MaxClock]
Stage == {"idle", "assess", "check", "raise", "publish"}
CheckState(n) == [pc : Stage, frame : Frame, evidence : 0..MaxClock, id : 0..n]

\* What a check holds: evidence once it has decided to warn, a row's id once it has one.
Stages ==
  \A m \in Monitor :
    /\ mon[m].pc \in {"check", "raise", "publish"} => mon[m].evidence > 0
    /\ mon[m].id # 0 => mon[m].pc = "publish"

\* The types without the bound of phantoms, which Tally gives.
MonitorTypes ==
  /\ schedule \in Schedules
  /\ clock \in 1..MaxClock
  /\ latest \in Frame
  /\ alerts \in Seq(Row)
  /\ mon \in [Monitor -> CheckState(Len(alerts))]
  /\ announced \subseteq Alert
  /\ phantoms \in Nat
  /\ faults \in 0..MaxFaults
  /\ Stages

-----------------------------------------------------------------------------
(* Instants *)

\* Thresholds and bounds are numbers (config.py, monitor.py, detector.py).
LEMMA Numbers == /\ {Grace, StaleAfter, MaxClock, MaxFaults, Cooldown} \subseteq Nat
                 /\ {Baseline, MaxClock} \subseteq Nat \ {0}
  BY MonitorAssumption, DetectorAssumption

\* A set of instants up to a bound has a latest one.
LEMMA LatestInstant ==
  ASSUME NEW S \in SUBSET Nat, S # {}, NEW n \in Nat, \A t \in S : t <= n
  PROVE  \E t \in S : \A s \in S : s <= t
<1> DEFINE T == {n - t : t \in S}
<1>1. T \subseteq Nat
  BY SMT
<1>2. T # {}
  <2>1. PICK t \in S : TRUE
    OBVIOUS
  <2>2. n - t \in T
    BY <2>1
  <2> QED BY <2>2
<1>3. IsWellFoundedOn(OpToRel(<, Nat), Nat)
  BY NatLessThanWellFounded
<1> HIDE DEF T
<1>4. PICK x \in T : \A y \in T : <<y, x>> \notin OpToRel(<, Nat)
  BY <1>1, <1>2, <1>3, WFMin
<1>5. PICK t \in S : x = n - t
  BY DEF T
<1>6. ASSUME NEW s \in S PROVE s <= t
  <2>1. n - s \in T
    BY DEF T
  <2>2. ~(n - s < n - t)
    BY <1>1, <1>4, <1>5, <2>1 DEF OpToRel
  <2> QED BY <2>2
<1> QED BY <1>6

\* The newest of some evidence is among it (monitor.py, AlertWarning.evidence_at).
LEMMA NewestOf ==
  ASSUME NEW S \in SUBSET (1..MaxClock), S # {}
  PROVE  Newest(S) \in 1..MaxClock
<1>1. S \in SUBSET Nat /\ MaxClock \in Nat /\ \A t \in S : t <= MaxClock
  BY Numbers
<1>2. \E t \in S : \A s \in S : s <= t
  BY <1>1, LatestInstant
<1> QED BY <1>2 DEF Newest

\* What warnings rest on lies between the first instant and now (monitor.py, assess).
LEMMA EvidenceTimes ==
  ASSUME MonitorTypes, NEW f \in Frame
  PROVE  Evidence(f) \in SUBSET (1..MaxClock)
<1>1. Over \subseteq [aos : Nat \ {0}, los : Nat \ {0}] /\ \A p \in Over : p.los <= MaxClock
  <2>1. schedule \subseteq [aos : Nat \ {0}, los : Nat \ {0}]
    BY MonitorAssumption DEF MonitorTypes
  <2>2. ASSUME NEW p \in Over PROVE p.los <= MaxClock
    <3>1. p.los \in Nat /\ p.los + Grace < clock
      BY <2>1 DEF Over
    <3>2. clock \in Nat /\ clock <= MaxClock /\ Grace \in Nat
      BY Numbers DEF MonitorTypes
    <3> QED BY <3>1, <3>2, Numbers
  <2> QED BY <2>1, <2>2 DEF Over
<1>2. ASSUME Over # {} PROVE LastPass \in Over
  <2> DEFINE S == {p.los : p \in Over}
  <2>1. S \in SUBSET Nat /\ S # {} /\ \A t \in S : t <= MaxClock
    BY <1>1, <1>2
  <2> HIDE DEF S
  <2>2. PICK t \in S : \A s \in S : s <= t
    BY <2>1, LatestInstant, Numbers
  <2>3. PICK p \in Over : t = p.los
    BY DEF S
  <2>4. \A q \in Over : q.los <= p.los
    BY <2>2, <2>3 DEF S
  <2> QED BY <2>4 DEF LastPass
<1>3. Missed(f) => LastPass.los \in 1..MaxClock
  BY <1>1, <1>2, Numbers DEF Missed
<1>4. Heard(f) => f.time \in 1..MaxClock
  BY Numbers DEF Heard, Frame
<1> QED BY <1>3, <1>4 DEF Evidence

-----------------------------------------------------------------------------
(* Types *)

\* The fields a check moves on with.
LEMMA CheckStates ==
  ASSUME NEW n \in Nat, NEW s \in CheckState(n)
  PROVE  /\ \A e \in 0..MaxClock :
              [s EXCEPT !.pc = "check", !.evidence = e] \in CheckState(n)
         /\ \A k \in Nat : [s EXCEPT !.pc = "publish", !.id = k] \in CheckState(k)
<1>1. s \in [pc : Stage, frame : Frame, evidence : 0..MaxClock, id : 0..n]
  BY DEF CheckState
<1>2. ASSUME NEW e \in 0..MaxClock
      PROVE  [s EXCEPT !.pc = "check", !.evidence = e] \in CheckState(n)
  BY <1>1 DEF CheckState, Stage
<1>3. ASSUME NEW k \in Nat
      PROVE  [s EXCEPT !.pc = "publish", !.id = k] \in CheckState(k)
  <2>1. k \in 0..k /\ "publish" \in Stage
    BY DEF Stage
  <2> QED BY <1>1, <2>1 DEF CheckState
<1> QED BY <1>2, <1>3

\* Before the first check.
LEMMA IdleState == \A n \in Nat : Idle \in CheckState(n)
  BY Numbers DEF Idle, CheckState, Stage, Frame

\* Nothing is open at the start.
LEMMA InitTypes == Init => MonitorTypes
<1> SUFFICES ASSUME Init PROVE MonitorTypes
  OBVIOUS
<1>1. Len(alerts) = 0 /\ alerts \in Seq(Row)
  BY DEF Init
<1>2. mon \in [Monitor -> CheckState(Len(alerts))]
  BY <1>1, IdleState DEF Init
<1>3. Stages
  BY DEF Init, Stages, Idle
<1>4. latest \in Frame /\ clock \in 1..MaxClock /\ phantoms \in Nat /\ faults \in 0..MaxFaults
  BY Numbers DEF Init, Idle, Frame
<1> QED BY <1>1, <1>2, <1>3, <1>4 DEF Init, MonitorTypes

\* The table with a row more, or with a row acknowledged, is a table (003_fdir_alerts.sql).
LEMMA TableKept ==
  ASSUME alerts \in Seq(Row)
  PROVE  /\ Alert = 1..Len(alerts)
         /\ \A i \in Alert : alerts[i] \in Row
         /\ \A i \in Alert :
              LET t == [alerts EXCEPT ![i].acknowledged = TRUE]
              IN  /\ t \in Seq(Row) /\ Len(t) = Len(alerts)
                  /\ t[i] = [alerts[i] EXCEPT !.acknowledged = TRUE]
                  /\ \A j \in Alert : j # i => t[j] = alerts[j]
         /\ \A r \in Row :
              LET t == Append(alerts, r)
              IN  /\ t \in Seq(Row) /\ Len(t) = Len(alerts) + 1
                  /\ t[Len(t)] = r
                  /\ \A j \in Alert : t[j] = alerts[j]
<1>1. Alert = 1..Len(alerts) /\ \A i \in Alert : alerts[i] \in Row
  BY DEF Alert
<1>2. ASSUME NEW i \in Alert
      PROVE  LET t == [alerts EXCEPT ![i].acknowledged = TRUE]
             IN  /\ t \in Seq(Row) /\ Len(t) = Len(alerts)
                 /\ t[i] = [alerts[i] EXCEPT !.acknowledged = TRUE]
                 /\ \A j \in Alert : j # i => t[j] = alerts[j]
  <2>1. alerts[i] \in Row
    BY <1>1
  <2> DEFINE u == [alerts[i] EXCEPT !.acknowledged = TRUE]
  <2>2. u \in Row
    BY <2>1 DEF Row
  <2> HIDE DEF u
  <2> DEFINE t == [alerts EXCEPT ![i] = u]
  <2>3. t \in Seq(Row) /\ Len(t) = Len(alerts)
    BY <1>1, <2>2
  <2>4. t[i] = u /\ \A j \in Alert : j # i => t[j] = alerts[j]
    BY DEF Alert
  <2>5. t = [alerts EXCEPT ![i].acknowledged = TRUE]
    BY DEF u
  <2> HIDE DEF t
  <2> QED BY <2>3, <2>4, <2>5 DEF u
<1>3. ASSUME NEW r \in Row
      PROVE  LET t == Append(alerts, r)
             IN  /\ t \in Seq(Row) /\ Len(t) = Len(alerts) + 1
                 /\ t[Len(t)] = r
                 /\ \A j \in Alert : t[j] = alerts[j]
  BY <1>1
<1> QED BY <1>1, <1>2, <1>3

\* The row of an alert is a row more (monitor.py:225).
LEMMA Inserted ==
  ASSUME MonitorTypes, NEW m \in Monitor, At(m, "raise"), Inserts(m)
  PROVE  /\ mon[m].evidence \in Nat /\ mon[m].id = 0
         /\ alerts' \in Seq(Row) /\ Len(alerts') = Len(alerts) + 1 /\ Len(alerts) \in Nat
         /\ Alert = 1..Len(alerts) /\ Alert' = 1..Len(alerts')
         /\ Alert' = Alert \cup {Len(alerts')}
         /\ alerts'[Len(alerts')] = [at |-> clock, acknowledged |-> FALSE,
                                     by |-> m, evidence |-> mon[m].evidence]
         /\ \A i \in Alert : alerts'[i] = alerts[i]
<1> DEFINE row == [at |-> clock, acknowledged |-> FALSE,
                   by |-> m, evidence |-> mon[m].evidence]
<1>1. mon[m] \in CheckState(Len(alerts)) /\ mon[m].evidence > 0 /\ mon[m].id = 0
  BY DEF At, MonitorTypes, Stages
<1>2. row \in Row /\ mon[m].evidence \in Nat
  BY <1>1, Numbers DEF Row, CheckState, MonitorTypes
<1>3. alerts' = Append(alerts, row)
  BY DEF Inserts
<1> HIDE DEF row
<1>4. /\ alerts' \in Seq(Row) /\ Len(alerts') = Len(alerts) + 1
      /\ alerts'[Len(alerts')] = row /\ \A i \in Alert : alerts'[i] = alerts[i]
  BY <1>2, <1>3, TableKept DEF MonitorTypes
<1>5. Len(alerts) \in Nat /\ Alert = 1..Len(alerts) /\ Alert' = 1..Len(alerts')
  BY <1>4 DEF MonitorTypes, Alert
<1>6. Alert' = Alert \cup {Len(alerts')}
  <2>1. PICK n \in Nat : n = Len(alerts)
    BY <1>5
  <2>2. Alert = 1..n /\ Alert' = 1..(n + 1) /\ Len(alerts') = n + 1
    BY <1>4, <1>5, <2>1
  <2>3. 1..(n + 1) = (1..n) \cup {n + 1}
    BY SMT
  <2> QED BY <2>2, <2>3, Zenon
<1> QED BY <1>1, <1>2, <1>4, <1>5, <1>6 DEF row

\* A check that goes on to publish when there is a row more.
LEMMA InsertTyped ==
  ASSUME MonitorTypes, NEW m \in Monitor, At(m, "raise"), Inserts(m),
         NEW r \in CheckState(Len(alerts')), Goes(m, r), r.pc = "publish", r.evidence > 0
  PROVE  /\ alerts' \in Seq(Row) /\ announced \subseteq Alert' /\ Stages'
         /\ mon' \in [Monitor -> CheckState(Len(alerts'))]
<1>1. /\ alerts' \in Seq(Row) /\ Len(alerts') = Len(alerts) + 1 /\ Len(alerts) \in Nat
      /\ Alert' = Alert \cup {Len(alerts')}
  BY Inserted, Zenon
<1>2. CheckState(Len(alerts)) \subseteq CheckState(Len(alerts'))
  BY <1>1 DEF CheckState
<1>3. /\ mon' \in [Monitor -> CheckState(Len(alerts'))]
      /\ mon'[m] = r
      /\ \A n \in Monitor : n # m => mon'[n] = mon[n]
  BY <1>2 DEF Goes, MonitorTypes
<1>4. Stages'
  BY <1>3 DEF Stages, MonitorTypes
<1> QED BY <1>1, <1>3, <1>4 DEF MonitorTypes

\* A check that moves on and leaves the table alone keeps to its stages.
LEMMA GoesTyped ==
  ASSUME MonitorTypes, UNCHANGED alerts, NEW m \in Monitor,
         NEW r \in CheckState(Len(alerts)), Goes(m, r),
         r.pc \in {"check", "raise", "publish"} => r.evidence > 0,
         r.id # 0 => r.pc = "publish"
  PROVE  mon' \in [Monitor -> CheckState(Len(alerts'))] /\ Stages'
<1>1. /\ mon' \in [Monitor -> CheckState(Len(alerts))]
      /\ mon'[m] = r
      /\ \A n \in Monitor : n # m => mon'[n] = mon[n]
  BY DEF MonitorTypes, Goes
<1>2. Stages'
  <2> SUFFICES ASSUME NEW n \in Monitor
               PROVE  /\ mon'[n].pc \in {"check", "raise", "publish"} => mon'[n].evidence > 0
                      /\ mon'[n].id # 0 => mon'[n].pc = "publish"
    BY DEF Stages
  <2>1. CASE n = m
    BY <1>1, <2>1
  <2>2. CASE n # m
    BY <1>1, <2>2 DEF MonitorTypes, Stages
  <2> QED BY <2>1, <2>2
<1> QED BY <1>1, <1>2

\* Moving the program counter alone.
LEMMA ProceedsTyped ==
  ASSUME MonitorTypes, UNCHANGED alerts, NEW m \in Monitor,
         NEW pc \in {"raise", "publish"}, Proceeds(m, pc),
         At(m, "check") \/ At(m, "raise")
  PROVE  mon' \in [Monitor -> CheckState(Len(alerts'))] /\ Stages'
<1> DEFINE r == [mon[m] EXCEPT !.pc = pc]
<1>1. mon[m] \in CheckState(Len(alerts)) /\ mon[m].evidence > 0 /\ mon[m].id = 0
  BY DEF MonitorTypes, Stages, At
<1>2. r \in CheckState(Len(alerts)) /\ r.evidence > 0 /\ r.id = 0
  BY <1>1 DEF CheckState, Stage
<1>3. Goes(m, r)
  BY DEF Proceeds
<1> HIDE DEF r
<1> QED BY <1>2, <1>3, GoesTyped

\* Going back to sleep.
LEMMA IdleTyped ==
  ASSUME MonitorTypes, UNCHANGED alerts, NEW m \in Monitor, Goes(m, Idle)
  PROVE  mon' \in [Monitor -> CheckState(Len(alerts'))] /\ Stages'
<1>1. Idle \in CheckState(Len(alerts)) /\ Idle.pc = "idle" /\ Idle.id = 0
  BY IdleState DEF MonitorTypes, Idle
<1> QED BY <1>1, GoesTyped

\* A step of a check, of an operator, of the writer or of time keeps the types.
LEMMA TypesKept ==
  ASSUME MonitorTypes, [Next]_vars
  PROVE  MonitorTypes'
<1> USE Numbers
<1>1. ASSUME NEW m \in Monitor, ReadLatest(m) PROVE MonitorTypes'
  <2> DEFINE r == [Idle EXCEPT !.pc = "assess", !.frame = latest]
  <2>1. r \in CheckState(Len(alerts)) /\ r.pc = "assess" /\ r.id = 0
    <3>1. Idle \in CheckState(Len(alerts)) /\ latest \in Frame /\ Idle.id = 0
      BY IdleState DEF MonitorTypes, Idle
    <3> QED BY <3>1 DEF CheckState, Stage
  <2>2. Goes(m, r) /\ UNCHANGED alerts
    BY <1>1 DEF ReadLatest, tables
  <2> HIDE DEF r
  <2>3. mon' \in [Monitor -> CheckState(Len(alerts'))] /\ Stages'
    BY <2>1, <2>2, GoesTyped
  <2> QED BY <1>1, <2>3 DEF ReadLatest, tables, events, MonitorTypes, Alert
<1>2. ASSUME NEW m \in Monitor, Assess(m) PROVE MonitorTypes'
  <2> DEFINE times == Evidence(mon[m].frame)
             r == [Idle EXCEPT !.pc = "check", !.evidence = Newest(times)]
  <2>1. UNCHANGED alerts /\ (Goes(m, Idle) \/ (times # {} /\ Goes(m, r)))
    BY <1>2 DEF Assess, tables
  <2>2. ASSUME times # {}
        PROVE  r \in CheckState(Len(alerts)) /\ r.pc = "check" /\ r.id = 0 /\ r.evidence > 0
    <3>1. mon[m].frame \in Frame
      BY DEF MonitorTypes, CheckState
    <3>2. times \in SUBSET (1..MaxClock)
      BY <3>1, EvidenceTimes
    <3> HIDE DEF times
    <3>3. Newest(times) \in 1..MaxClock
      BY <2>2, <3>2, NewestOf
    <3>4. Idle \in CheckState(Len(alerts)) /\ Idle.id = 0
      BY IdleState DEF MonitorTypes, Idle
    <3> DEFINE e == Newest(times)
    <3>5. e \in 0..MaxClock /\ e > 0
      BY <3>3
    <3>6. Idle.pc = "idle" /\ Len(alerts) \in Nat
      BY DEF Idle, MonitorTypes
    <3> HIDE DEF e
    <3>7. [Idle EXCEPT !.pc = "check", !.evidence = e] \in CheckState(Len(alerts))
      BY <3>4, <3>5, <3>6, CheckStates
    <3>8. r = [Idle EXCEPT !.pc = "check", !.evidence = e]
      BY DEF e
    <3> QED BY <3>4, <3>5, <3>7, <3>8 DEF CheckState
  <2> HIDE DEF r, times
  <2>3. mon' \in [Monitor -> CheckState(Len(alerts'))] /\ Stages'
    BY <2>1, <2>2, GoesTyped, IdleTyped
  <2> QED BY <1>2, <2>3 DEF Assess, tables, events, MonitorTypes, Alert
<1>3. ASSUME NEW m \in Monitor, Check(m) PROVE MonitorTypes'
  <2>1. mon' \in [Monitor -> CheckState(Len(alerts'))] /\ Stages'
    BY <1>3, IdleTyped, ProceedsTyped DEF Check, tables
  <2> QED BY <1>3, <2>1 DEF Check, tables, events, MonitorTypes, Alert
<1>4. ASSUME NEW m \in Monitor, Persist(m) PROVE MonitorTypes'
  <2> DEFINE k == Len(alerts')
             r == [mon[m] EXCEPT !.pc = "publish", !.id = k]
  <2>1. mon[m] \in CheckState(Len(alerts)) /\ mon[m].evidence > 0 /\ Len(alerts) \in Nat
    BY <1>4 DEF Persist, At, MonitorTypes, Stages
  <2>2. k \in Nat
    BY <1>4, Inserted DEF Persist
  <2>3. Goes(m, r)
    BY <1>4 DEF Persist
  <2> HIDE DEF k
  <2>4. r \in CheckState(k) /\ r.evidence > 0 /\ r.pc = "publish"
    BY <2>1, <2>2, CheckStates DEF CheckState
  <2> HIDE DEF r
  <2>5. /\ alerts' \in Seq(Row) /\ announced \subseteq Alert' /\ Stages'
        /\ mon' \in [Monitor -> CheckState(Len(alerts'))]
    BY <1>4, <2>3, <2>4, InsertTyped DEF Persist, k
  <2> QED BY <1>4, <2>5 DEF Persist, events, MonitorTypes
<1>5. ASSUME NEW m \in Monitor, PersistFails(m) PROVE MonitorTypes'
  <2> DEFINE r == [mon[m] EXCEPT !.pc = "publish"]
  <2>1. mon[m] \in CheckState(Len(alerts)) /\ mon[m].evidence > 0 /\ Len(alerts) \in Nat
    BY <1>5 DEF PersistFails, At, MonitorTypes, Stages
  <2>2. r \in CheckState(Len(alerts)) /\ r.evidence > 0 /\ r.pc = "publish" /\ Goes(m, r)
    BY <1>5, <2>1 DEF CheckState, Stage, PersistFails, Proceeds
  <2> HIDE DEF r
  <2>3. CASE Inserts(m)
    <3>1. Len(alerts') = Len(alerts) + 1
      BY <1>5, <2>3, Inserted DEF PersistFails
    <3>2. r \in CheckState(Len(alerts'))
      BY <2>1, <2>2, <3>1 DEF CheckState
    <3>3. /\ alerts' \in Seq(Row) /\ announced \subseteq Alert' /\ Stages'
          /\ mon' \in [Monitor -> CheckState(Len(alerts'))]
      BY <1>5, <2>2, <2>3, <3>2, InsertTyped DEF PersistFails
    <3> QED BY <1>5, <3>3 DEF PersistFails, Fault, events, MonitorTypes
  <2>4. CASE UNCHANGED alerts
    <3>1. mon' \in [Monitor -> CheckState(Len(alerts'))] /\ Stages'
      BY <1>5, <2>4, ProceedsTyped DEF PersistFails
    <3> QED BY <1>5, <2>4, <3>1 DEF PersistFails, Fault, events, MonitorTypes, Alert
  <2> QED BY <1>5, <2>3, <2>4 DEF PersistFails
<1>6. ASSUME NEW m \in Monitor, Publish(m) PROVE MonitorTypes'
  <2>1. mon' \in [Monitor -> CheckState(Len(alerts'))] /\ Stages'
    BY <1>6, IdleTyped DEF Publish, tables
  <2>2. mon[m].id # 0 => mon[m].id \in Alert
    BY TableKept DEF MonitorTypes, CheckState
  <2>3. announced' \subseteq Alert /\ phantoms' \in Nat
    BY <1>6, <2>2 DEF Publish, MonitorTypes
  <2> QED BY <1>6, <2>1, <2>3 DEF Publish, tables, MonitorTypes, Alert
<1>7. ASSUME NEW m \in Monitor, Abandon(m) PROVE MonitorTypes'
  <2>1. mon' \in [Monitor -> CheckState(Len(alerts'))] /\ Stages'
    BY <1>7, IdleTyped DEF Abandon, tables
  <2> QED BY <1>7, <2>1 DEF Abandon, Fault, tables, events, MonitorTypes, Alert
<1>8. ASSUME NEW i \in Alert, Acknowledge(i) PROVE MonitorTypes'
  <2>1. alerts' \in Seq(Row) /\ Len(alerts') = Len(alerts)
    BY <1>8, TableKept DEF Acknowledge, MonitorTypes
  <2>2. Alert' = Alert
    BY <2>1 DEF Alert, MonitorTypes
  <2> QED BY <1>8, <2>1, <2>2 DEF Acknowledge, events, MonitorTypes, Stages
<1>9. ASSUME NEW f \in Frame, Insert(f) PROVE MonitorTypes'
  BY <1>9 DEF Insert, events, MonitorTypes, Alert, Stages
<1>10. CASE Tick
  BY <1>10 DEF Tick, tables, events, MonitorTypes, Alert, Stages
<1>11. CASE UNCHANGED vars
  BY <1>11 DEF vars, tables, events, MonitorTypes, Alert, Stages
<1> QED BY <1>1, <1>2, <1>3, <1>4, <1>5, <1>6, <1>7, <1>8, <1>9, <1>10, <1>11
        DEF Next, MonitorStep

-----------------------------------------------------------------------------
(* Rows and events *)

\* Monitors about to publish an alert they could not insert.
Rowless == {m \in Monitor : mon[m].pc = "publish" /\ mon[m].id = 0}

\* Each failure costs one row its event and lets out one event without a row, at most.
Tally ==
  /\ Cardinality(Unheard) <= faults
  /\ phantoms + Cardinality(Rowless) <= faults

\* There are finitely many rows and monitors.
LEMMA Counts ==
  ASSUME MonitorTypes
  PROVE  /\ IsFiniteSet(Unheard) /\ Cardinality(Unheard) \in Nat
         /\ IsFiniteSet(Rowless) /\ Cardinality(Rowless) \in Nat
<1>1. Alert = 1..Len(alerts) /\ Len(alerts) \in Nat
  BY DEF MonitorTypes, Alert
<1>2. IsFiniteSet(Alert)
  BY <1>1, FS_Interval
<1>3. IsFiniteSet(Unheard)
  BY <1>2, FS_Subset DEF Unheard
<1>4. IsFiniteSet(Rowless)
  BY FS_Subset, MonitorAssumption DEF Rowless
<1> QED BY <1>3, <1>4, FS_CardinalityType

\* Subsets count no more.
LEMMA Fewer ==
  ASSUME NEW S, IsFiniteSet(S), NEW T, T \subseteq S
  PROVE  Cardinality(T) \in Nat /\ Cardinality(S) \in Nat /\ Cardinality(T) <= Cardinality(S)
<1>1. IsFiniteSet(T) /\ Cardinality(T) <= Cardinality(S)
  BY FS_Subset
<1> QED BY <1>1, FS_CardinalityType

\* One element more counts one more, at most.
LEMMA OneMore ==
  ASSUME NEW S, IsFiniteSet(S), NEW x, NEW T, T \subseteq S \cup {x}
  PROVE  Cardinality(T) \in Nat /\ Cardinality(T) <= Cardinality(S) + 1
<1>1. /\ IsFiniteSet(S \cup {x})
      /\ Cardinality(S \cup {x}) <= Cardinality(S) + 1
      /\ Cardinality(S) \in Nat
  BY FS_AddElement, FS_CardinalityType
<1>2. Cardinality(T) \in Nat /\ Cardinality(S \cup {x}) \in Nat
      /\ Cardinality(T) <= Cardinality(S \cup {x})
  BY <1>1, Fewer
<1> QED BY <1>1, <1>2

\* No row waits for its event but those that did, and no failure is forgotten.
LEMMA TallyBySets ==
  ASSUME MonitorTypes, Tally, Unheard' \subseteq Unheard, Rowless' \subseteq Rowless,
         UNCHANGED <<phantoms, faults>>
  PROVE  Tally'
<1>1. /\ Cardinality(Unheard') \in Nat /\ Cardinality(Unheard') <= Cardinality(Unheard)
      /\ Cardinality(Rowless') \in Nat /\ Cardinality(Rowless') <= Cardinality(Rowless)
      /\ Cardinality(Unheard) \in Nat /\ Cardinality(Rowless) \in Nat
  BY Counts, Fewer
<1> QED BY <1>1 DEF Tally, MonitorTypes

\* A check that goes on to a stage without a row, from one without a row, with the rows
\* and events as they are.
LEMMA TallyByCheck ==
  ASSUME MonitorTypes, Tally, UNCHANGED <<alerts, announced, phantoms, faults>>,
         NEW m \in Monitor, mon[m].id = 0,
         NEW r, Goes(m, r), r.id = 0, r.pc # "publish"
  PROVE  Tally'
<1>1. mon'[m] = r /\ \A n \in Monitor : n # m => mon'[n] = mon[n]
  BY DEF MonitorTypes, Goes
<1>2. \A n \in Monitor : mon'[n].id = mon[n].id
  BY <1>1
<1>3. Unheard' = Unheard
  BY <1>2 DEF Unheard, Alert
<1>4. Rowless' \subseteq Rowless
  BY <1>1 DEF Rowless
<1> QED BY <1>3, <1>4, TallyBySets

\* Nothing but a failure changes the balance.
LEMMA TallyKept ==
  ASSUME MonitorTypes, Tally, [Next]_vars
  PROVE  Tally'
<1>a. /\ faults \in Nat /\ phantoms \in Nat
      /\ \A n \in Monitor : mon[n].id # 0 => mon[n].pc = "publish"
      /\ Cardinality(Unheard) \in Nat /\ Cardinality(Rowless) \in Nat
      /\ IsFiniteSet(Unheard) /\ IsFiniteSet(Rowless)
  BY Counts DEF MonitorTypes, Stages
<1>b. Idle.id = 0 /\ Idle.pc = "idle"
  BY DEF Idle
<1>1. ASSUME NEW m \in Monitor, ReadLatest(m) PROVE Tally'
  <2> DEFINE r == [Idle EXCEPT !.pc = "assess", !.frame = latest]
  <2>1. r.id = 0 /\ r.pc # "publish"
    BY DEF Idle
  <2>2. Goes(m, r) /\ mon[m].id = 0 /\ UNCHANGED <<alerts, announced, phantoms, faults>>
    BY <1>1, <1>a DEF ReadLatest, At, tables, events
  <2> HIDE DEF r
  <2> QED BY <2>1, <2>2, TallyByCheck
<1>2. ASSUME NEW m \in Monitor, Assess(m) PROVE Tally'
  <2> DEFINE e == Newest(Evidence(mon[m].frame))
             r == [Idle EXCEPT !.pc = "check", !.evidence = e]
  <2>1. Goes(m, Idle) \/ Goes(m, r)
    BY <1>2 DEF Assess
  <2> HIDE DEF e
  <2>2. r.id = 0 /\ r.pc # "publish"
    BY DEF Idle
  <2>3. mon[m].id = 0 /\ UNCHANGED <<alerts, announced, phantoms, faults>>
    BY <1>2, <1>a DEF Assess, At, tables, events
  <2> HIDE DEF r
  <2> QED BY <1>b, <2>1, <2>2, <2>3, TallyByCheck
<1>3. ASSUME NEW m \in Monitor, Check(m) PROVE Tally'
  <2> DEFINE r == [mon[m] EXCEPT !.pc = "raise"]
  <2>1. Goes(m, Idle) \/ Goes(m, r)
    BY <1>3 DEF Check, Proceeds
  <2>2. mon[m].id = 0 /\ UNCHANGED <<alerts, announced, phantoms, faults>>
    BY <1>3, <1>a DEF Check, At, tables, events
  <2>3. r.id = 0 /\ r.pc # "publish"
    BY <2>2 DEF MonitorTypes, CheckState
  <2> HIDE DEF r
  <2> QED BY <1>b, <2>1, <2>2, <2>3, TallyByCheck
<1>4. ASSUME NEW m \in Monitor, Persist(m) PROVE Tally'
  <2> DEFINE k == Len(alerts')
  <2>1. Alert = 1..Len(alerts) /\ Alert' = Alert \cup {k} /\ k # 0
    <3>1. Len(alerts) \in Nat /\ k = Len(alerts) + 1
          /\ Alert = 1..Len(alerts) /\ Alert' = 1..k
      BY <1>4, Inserted DEF Persist
    <3> HIDE DEF k
    <3> QED BY <3>1
  <2>2. /\ mon'[m].id = k /\ \A n \in Monitor : n # m => mon'[n] = mon[n]
        /\ mon[m].id = 0
    BY <1>4, <1>a DEF Persist, Goes, At, MonitorTypes, CheckState
  <2> HIDE DEF k
  <2>3. Unheard' \subseteq Unheard
    BY <1>4, <2>1, <2>2 DEF Unheard, Persist, events
  <2>4. Rowless' \subseteq Rowless
    BY <2>1, <2>2 DEF Rowless
  <2> QED BY <1>4, <2>3, <2>4, TallyBySets DEF Persist, events
<1>5. ASSUME NEW m \in Monitor, PersistFails(m) PROVE Tally'
  <2>1. /\ \A n \in Monitor : n # m => mon'[n] = mon[n]
        /\ mon'[m].id = mon[m].id
    BY <1>5 DEF PersistFails, Proceeds, Goes, MonitorTypes, CheckState
  <2>2. \A n \in Monitor : mon'[n].id = mon[n].id
    BY <2>1
  <2>3. Unheard' \subseteq Unheard \cup {Len(alerts')}
    <3>1. Alert' \subseteq Alert \cup {Len(alerts')}
      <4>1. CASE Inserts(m)
        BY <1>5, <4>1, Inserted, Zenon DEF PersistFails
      <4>2. CASE UNCHANGED alerts
        BY <4>2 DEF Alert
      <4> QED BY <1>5, <4>1, <4>2 DEF PersistFails
    <3> QED BY <1>5, <2>2, <3>1 DEF Unheard, PersistFails, events
  <2>4. Rowless' \subseteq Rowless \cup {m}
    BY <2>1 DEF Rowless
  <2>5. /\ Cardinality(Unheard') \in Nat /\ Cardinality(Unheard') <= Cardinality(Unheard) + 1
        /\ Cardinality(Rowless') \in Nat /\ Cardinality(Rowless') <= Cardinality(Rowless) + 1
    BY <1>a, <2>3, <2>4, OneMore
  <2>6. faults' = faults + 1 /\ phantoms' = phantoms
    BY <1>5 DEF PersistFails, Fault, events
  <2> QED BY <1>a, <2>5, <2>6 DEF Tally
<1>6. ASSUME NEW m \in Monitor, Publish(m) PROVE Tally'
  <2>1. mon'[m] = Idle /\ \A n \in Monitor : n # m => mon'[n] = mon[n]
    BY <1>6 DEF Publish, Goes, MonitorTypes
  <2>2. Rowless' \subseteq Rowless \ {m}
    BY <1>b, <2>1 DEF Rowless
  <2>3. CASE mon[m].id # 0
    <3>1. announced' = announced \cup {mon[m].id} /\ UNCHANGED <<alerts, phantoms, faults>>
      BY <1>6, <2>3 DEF Publish, tables
    <3>2. Unheard' \subseteq Unheard
      BY <2>1, <3>1 DEF Unheard, Alert
    <3> QED BY <2>2, <3>1, <3>2, TallyBySets
  <2>4. CASE mon[m].id = 0
    <3>1. phantoms' = phantoms + 1 /\ UNCHANGED <<alerts, announced, faults>>
      BY <1>6, <2>4 DEF Publish, tables
    <3>2. \A n \in Monitor : mon'[n].id = mon[n].id
      BY <1>b, <2>1, <2>4
    <3>3. Unheard' = Unheard
      BY <3>1, <3>2 DEF Unheard, Alert
    <3>4. m \in Rowless
      BY <1>6, <2>4 DEF Publish, At, Rowless
    <3>5. Cardinality(Rowless \ {m}) = Cardinality(Rowless) - 1 /\ IsFiniteSet(Rowless \ {m})
      BY <1>a, <3>4, FS_RemoveElement
    <3>6. Cardinality(Rowless') \in Nat /\ Cardinality(Rowless') <= Cardinality(Rowless) - 1
      BY <2>2, <3>5, Fewer
    <3> QED BY <1>a, <3>1, <3>3, <3>6 DEF Tally
  <2> QED BY <2>3, <2>4
<1>7. ASSUME NEW m \in Monitor, Abandon(m) PROVE Tally'
  <2>1. mon'[m] = Idle /\ \A n \in Monitor : n # m => mon'[n] = mon[n]
    BY <1>7 DEF Abandon, Goes, MonitorTypes
  <2>2. faults' = faults + 1 /\ UNCHANGED <<alerts, announced, phantoms>>
    BY <1>7 DEF Abandon, Fault, tables, events
  <2>3. Unheard' \subseteq Unheard \cup {mon[m].id}
    BY <2>1, <2>2 DEF Unheard, Alert
  <2>4. Rowless' \subseteq Rowless
    BY <1>b, <2>1 DEF Rowless
  <2>5. /\ Cardinality(Unheard') \in Nat /\ Cardinality(Unheard') <= Cardinality(Unheard) + 1
        /\ Cardinality(Rowless') \in Nat /\ Cardinality(Rowless') <= Cardinality(Rowless)
    BY <1>a, <2>3, <2>4, OneMore, Fewer
  <2> QED BY <1>a, <2>2, <2>5 DEF Tally
<1>8. ASSUME NEW i \in Alert, Acknowledge(i) PROVE Tally'
  <2>1. DOMAIN alerts' = DOMAIN alerts /\ UNCHANGED <<mon, announced, phantoms, faults>>
    BY <1>8 DEF Acknowledge, events
  <2>2. Unheard' = Unheard /\ Rowless' = Rowless
    BY <2>1 DEF Unheard, Rowless, Alert
  <2> QED BY <2>1, <2>2, TallyBySets
<1>9. ASSUME UNCHANGED <<alerts, mon, events, faults>> PROVE Tally'
  <2>1. Unheard' = Unheard /\ Rowless' = Rowless /\ UNCHANGED <<phantoms, faults>>
    BY <1>9 DEF Unheard, Rowless, Alert, events
  <2> QED BY <2>1, TallyBySets
<1>10. ASSUME NEW f \in Frame, Insert(f) PROVE Tally'
  BY <1>9, <1>10 DEF Insert
<1>11. CASE Tick
  BY <1>9, <1>11 DEF Tick, tables
<1>12. CASE UNCHANGED vars
  BY <1>9, <1>12 DEF vars, tables
<1> QED BY <1>1, <1>2, <1>3, <1>4, <1>5, <1>6, <1>7, <1>8, <1>10, <1>11, <1>12
        DEF Next, MonitorStep

-----------------------------------------------------------------------------
(* Which alert a monitor may raise *)

\* A monitor about to raise an alert has seen each of its own acknowledged, and holds
\* newer evidence.  Other monitors may have raised theirs since it looked.
RaisesNews ==
  \A m \in Monitor : mon[m].pc = "raise" =>
    \A i \in Alert : alerts[i].by = m =>
      alerts[i].acknowledged /\ alerts[i].at < mon[m].evidence

OwnAlertsClosed == \A i, j \in Open : alerts[i].by = alerts[j].by => i = j

AlertInv == RaisesNews /\ OwnAlertsClosed /\ NewerEvidence

\* A step that leaves the table alone, and in which no monitor decides to raise an alert.
LEMMA AlertsUntouched ==
  ASSUME AlertInv, UNCHANGED alerts,
         \A n \in Monitor : mon'[n].pc = "raise" => mon'[n] = mon[n]
  PROVE  AlertInv'
  BY DEF AlertInv, RaisesNews, OwnAlertsClosed, NewerEvidence, Open, Alert

\* Whatever the monitors, the operators and the writer do in between (monitor.py:175).
LEMMA AlertsKept ==
  ASSUME MonitorTypes, AlertInv, [Next]_vars
  PROVE  AlertInv'
<1>a. \A m \in Monitor : \A r : Goes(m, r) =>
        mon'[m] = r /\ \A n \in Monitor : n # m => mon'[n] = mon[n]
  BY DEF MonitorTypes, Goes
<1>b. /\ Alert = 1..Len(alerts) /\ Len(alerts) \in Nat
      /\ \A i \in Alert : alerts[i] \in Row
  BY TableKept DEF MonitorTypes
<1>1. ASSUME NEW m \in Monitor, NEW r, Goes(m, r), r.pc # "raise", UNCHANGED alerts
      PROVE  AlertInv'
  <2>1. mon'[m] = r /\ \A n \in Monitor : n # m => mon'[n] = mon[n]
    BY <1>1, <1>a
  <2> QED BY <1>1, <2>1, AlertsUntouched
<1>2. Idle.pc = "idle"
  BY DEF Idle
<1>3. ASSUME NEW m \in Monitor, ReadLatest(m) PROVE AlertInv'
  <2> DEFINE r == [Idle EXCEPT !.pc = "assess", !.frame = latest]
  <2>1. r.pc # "raise" /\ Goes(m, r) /\ UNCHANGED alerts
    BY <1>3 DEF ReadLatest, Idle, tables
  <2> HIDE DEF r
  <2> QED BY <1>1, <2>1
<1>4. ASSUME NEW m \in Monitor, Assess(m) PROVE AlertInv'
  <2> DEFINE e == Newest(Evidence(mon[m].frame))
             r == [Idle EXCEPT !.pc = "check", !.evidence = e]
  <2>1. (Goes(m, Idle) \/ Goes(m, r)) /\ UNCHANGED alerts
    BY <1>4 DEF Assess, tables
  <2> HIDE DEF e
  <2>2. r.pc # "raise"
    BY DEF Idle
  <2> HIDE DEF r
  <2> QED BY <1>1, <1>2, <2>1, <2>2
<1>5. ASSUME NEW m \in Monitor, Check(m) PROVE AlertInv'
  <2>1. CASE Goes(m, Idle)
    BY <1>1, <1>2, <1>5, <2>1 DEF Check, tables
  <2>2. CASE Proceeds(m, "raise") /\ ~AlreadyAlerted(mon[m].evidence)
    <3>1. /\ mon'[m].evidence = mon[m].evidence
          /\ \A n \in Monitor : n # m => mon'[n] = mon[n]
          /\ mon[m].evidence \in Nat
      BY <2>2 DEF Proceeds, Goes, MonitorTypes, CheckState
    <3>2. \A i \in Alert : alerts[i].acknowledged /\ alerts[i].at < mon'[m].evidence
      <4> SUFFICES ASSUME NEW i \in Alert
                   PROVE  alerts[i].acknowledged /\ alerts[i].at < mon'[m].evidence
        OBVIOUS
      <4>1. i \notin Open /\ ~(alerts[i].at >= mon[m].evidence)
        BY <2>2 DEF AlreadyAlerted
      <4>2. alerts[i].at \in Nat
        BY <1>b, Numbers DEF Row
      <4> QED BY <3>1, <4>1, <4>2 DEF Open
    <3>3. UNCHANGED alerts
      BY <1>5 DEF Check, tables
    <3>4. RaisesNews'
      BY <3>1, <3>2, <3>3 DEF AlertInv, RaisesNews, Alert
    <3>5. OwnAlertsClosed' /\ NewerEvidence'
      BY <3>3 DEF AlertInv, OwnAlertsClosed, NewerEvidence, Open, Alert
    <3> QED BY <3>4, <3>5 DEF AlertInv
  <2> QED BY <1>5, <2>1, <2>2 DEF Check
<1>6. ASSUME NEW m \in Monitor, At(m, "raise"), Inserts(m), mon'[m].pc = "publish",
             \A n \in Monitor : n # m => mon'[n] = mon[n]
      PROVE  AlertInv'
  <2> DEFINE row == [at |-> clock, acknowledged |-> FALSE,
                     by |-> m, evidence |-> mon[m].evidence]
             k == Len(alerts')
  <2>1. k = Len(alerts) + 1 /\ mon[m].evidence \in Nat
    BY <1>6, Inserted
  <2>2. row.by = m /\ ~row.acknowledged /\ row.evidence = mon[m].evidence
    OBVIOUS
  <2>3. alerts'[k] = row /\ Alert' = 1..k /\ \A i \in Alert : alerts'[i] = alerts[i]
    BY <1>6, Inserted
  <2> HIDE DEF row, k
  <2>4. /\ Alert' = Alert \cup {k} /\ k \notin Alert /\ \A i \in Alert' : i <= k
        /\ alerts'[k] = row /\ \A i \in Alert : alerts'[i] = alerts[i]
    BY <1>b, <2>1, <2>3
  <2>5. mon'[m].pc = "publish" /\ \A n \in Monitor : n # m => mon'[n] = mon[n]
    BY <1>6
  <2>6. \A i \in Alert : alerts[i].by = m =>
          alerts[i].acknowledged /\ alerts[i].at < mon[m].evidence
    BY <1>6 DEF At, AlertInv, RaisesNews
  <2>7. RaisesNews'
    <3> SUFFICES ASSUME NEW n \in Monitor, mon'[n].pc = "raise",
                        NEW i \in Alert', alerts'[i].by = n
                 PROVE  alerts'[i].acknowledged /\ alerts'[i].at < mon'[n].evidence
      BY DEF RaisesNews
    <3>1. n # m /\ mon'[n] = mon[n]
      BY <2>5
    <3>2. i \in Alert /\ alerts'[i] = alerts[i]
      BY <2>2, <2>4, <3>1
    <3> QED BY <3>1, <3>2 DEF AlertInv, RaisesNews
  <2>8. OwnAlertsClosed'
    <3> SUFFICES ASSUME NEW i \in Open', NEW j \in Open', alerts'[i].by = alerts'[j].by
                 PROVE  i = j
      BY DEF OwnAlertsClosed
    <3>1. \A h \in Open' : h = k \/ (h \in Open /\ alerts'[h] = alerts[h])
      BY <2>4 DEF Open
    <3>2. \A h \in Open : alerts[h].by # m
      BY <2>6 DEF Open
    <3>3. alerts'[k].by = m
      BY <2>2, <2>4
    <3> QED BY <3>1, <3>2, <3>3 DEF AlertInv, OwnAlertsClosed
  <2>9. NewerEvidence'
    <3> SUFFICES ASSUME NEW i \in Alert', NEW j \in Alert', i < j,
                        alerts'[i].by = alerts'[j].by
                 PROVE  alerts'[j].evidence > alerts'[i].at
      BY DEF NewerEvidence
    <3>0. i < j
      OBVIOUS
    <3>1. i \in Alert /\ alerts'[i] = alerts[i]
      <4>1. i # k
        <5>1. j <= k /\ j \in Nat /\ i \in Nat
          BY <1>b, <2>1, <2>3, <2>4
        <5> QED BY <1>b, <2>1, <3>0, <5>1
      <4> QED BY <2>4, <4>1
    <3>2. CASE j = k
      <4>1. alerts'[j] = row /\ alerts[i].by = m
        BY <2>2, <2>4, <3>1, <3>2
      <4>2. alerts[i].at < mon[m].evidence /\ alerts[i].at \in Nat /\ mon[m].evidence \in Nat
        BY <1>b, <2>1, <2>6, <3>1, <4>1, Numbers DEF Row
      <4> QED BY <2>2, <3>1, <4>1, <4>2
    <3>3. CASE j # k
      <4>1. j \in Alert /\ alerts'[j] = alerts[j]
        BY <2>4, <3>3
      <4> QED BY <3>1, <4>1 DEF AlertInv, NewerEvidence
    <3> QED BY <3>2, <3>3
  <2> QED BY <2>7, <2>8, <2>9 DEF AlertInv
<1>7. ASSUME NEW m \in Monitor, Persist(m) \/ PersistFails(m) PROVE AlertInv'
  <2>1. /\ mon'[m].pc = "publish" /\ \A n \in Monitor : n # m => mon'[n] = mon[n]
        /\ At(m, "raise")
    BY <1>7 DEF Persist, PersistFails, Proceeds, Goes, MonitorTypes, CheckState
  <2>2. CASE Inserts(m)
    BY <1>6, <2>1, <2>2
  <2>3. CASE UNCHANGED alerts
    <3>1. \A n \in Monitor : mon'[n].pc = "raise" => mon'[n] = mon[n]
      BY <2>1
    <3> QED BY <2>3, <3>1, AlertsUntouched
  <2> QED BY <1>7, <2>2, <2>3 DEF Persist, PersistFails
<1>8. ASSUME NEW m \in Monitor, Publish(m) \/ Abandon(m) PROVE AlertInv'
  BY <1>1, <1>2, <1>8 DEF Publish, Abandon, tables
<1>9. ASSUME NEW a \in Alert, Acknowledge(a) PROVE AlertInv'
  <2>1. /\ Alert' = Alert /\ mon' = mon
        /\ \A i \in Alert : /\ alerts'[i].by = alerts[i].by /\ alerts'[i].at = alerts[i].at
                            /\ alerts'[i].evidence = alerts[i].evidence
                            /\ alerts[i].acknowledged => alerts'[i].acknowledged
    <3>1. alerts' = [alerts EXCEPT ![a].acknowledged = TRUE] /\ mon' = mon
      BY <1>9 DEF Acknowledge
    <3>2. /\ alerts'[a] = [alerts[a] EXCEPT !.acknowledged = TRUE]
          /\ \A j \in Alert : j # a => alerts'[j] = alerts[j]
          /\ Alert' = Alert
      BY <3>1 DEF Alert
    <3>3. alerts[a] \in Row
      BY <1>b
    <3>4. /\ alerts'[a].by = alerts[a].by /\ alerts'[a].at = alerts[a].at
          /\ alerts'[a].evidence = alerts[a].evidence /\ alerts'[a].acknowledged
      BY <3>2, <3>3 DEF Row
    <3> QED BY <3>1, <3>2, <3>4
  <2>2. RaisesNews'
    BY <2>1 DEF AlertInv, RaisesNews
  <2>3. OwnAlertsClosed'
    BY <2>1 DEF AlertInv, OwnAlertsClosed, Open
  <2>4. NewerEvidence'
    BY <2>1 DEF AlertInv, NewerEvidence
  <2> QED BY <2>2, <2>3, <2>4 DEF AlertInv
<1>10. ASSUME UNCHANGED <<alerts, mon>> PROVE AlertInv'
  BY <1>10, AlertsUntouched
<1>11. ASSUME NEW f \in Frame, Insert(f) PROVE AlertInv'
  BY <1>10, <1>11 DEF Insert
<1>12. CASE Tick
  BY <1>10, <1>12 DEF Tick, tables
<1>13. CASE UNCHANGED vars
  BY <1>10, <1>13 DEF vars, tables
<1> QED BY <1>3, <1>4, <1>5, <1>7, <1>8, <1>9, <1>11, <1>12, <1>13
        DEF Next, MonitorStep

\* One open alert per monitor makes no more open alerts than monitors.
LEMMA AlertsCounted ==
  ASSUME MonitorTypes, AlertInv
  PROVE  OneAlertPerMonitor
<1> DEFINE f == [i \in Open |-> alerts[i].by]
<1>1. \A i \in Open : alerts[i].by \in Monitor
  BY TableKept DEF MonitorTypes, Open, Row
<1>2. f \in Injection(Open, Monitor)
  BY <1>1 DEF Injection, IsInjective, AlertInv, OwnAlertsClosed
<1> HIDE DEF f
<1> QED BY <1>2, FS_Injection, MonitorAssumption DEF OneAlertPerMonitor

-----------------------------------------------------------------------------
(* The detector *)

\* The writer is one step of the monitor's world: it inserts the row.
LEMMA MonitorsView == ASSUME [HealthNext]_healthVars PROVE [Next]_vars
  BY DEF HealthNext, Packet, PacketUnfed, Next, healthVars

\* Nothing was emitted in the future, and what says "nothing yet" carries no time.
EmittedInThePast ==
  /\ samples \in [Key -> 0..Baseline]
  /\ severity \in [Key -> Severity]
  /\ last \in [Key -> [band : Severity, at : 0..clock]]
  /\ \A k \in Key : last[k].band = "none" => last[k].at = 0

\* The bands a warm detector tells apart.
LEMMA Severities == Severity = {"none", "warning", "critical"}
  BY DEF Severity, Rank

\* A clock that has not gone back, and a detector that has not moved.
LEMMA EmissionsAge ==
  ASSUME EmittedInThePast, UNCHANGED detectorVars, clock \in Nat, clock' \in Nat, clock' >= clock
  PROVE  EmittedInThePast'
<1>1. ASSUME NEW k \in Key PROVE last[k] \in [band : Severity, at : 0..clock']
  <2>1. last[k] \in [band : Severity, at : 0..clock]
    BY DEF EmittedInThePast
  <2> QED BY <2>1
<1>2. last \in [Key -> [band : Severity, at : 0..clock']]
  BY <1>1 DEF EmittedInThePast
<1> QED BY <1>2 DEF EmittedInThePast, detectorVars

\* What a packet does to the detector (detector.py:112-192).
LEMMA Fed ==
  ASSUME EmittedInThePast, clock \in Nat, NEW k \in Key, NEW z \in Score,
         Feed(k, z, clock), UNCHANGED clock
  PROVE  /\ EmittedInThePast'
         /\ \A j \in Key : last'[j] # last[j] =>
              j = k /\ z \in Severity \ {"none"} /\ last'[k] = [band |-> z, at |-> clock]
                    /\ ~InCooldown(k, z, clock)
<1>1. Window(k) \in 0..Baseline
  BY Numbers DEF Window, EmittedInThePast
<1>2. samples' \in [Key -> 0..Baseline]
  BY <1>1 DEF Feed, EmittedInThePast
<1>3. CASE UNCHANGED <<severity, last>>
  BY <1>2, <1>3 DEF EmittedInThePast
<1>4. CASE /\ z = "noise"
           /\ severity' = [severity EXCEPT ![k] = "none"]
           /\ UNCHANGED last
  <2>1. severity' \in [Key -> Severity]
    BY <1>4, Severities DEF EmittedInThePast
  <2> QED BY <1>2, <1>4, <2>1 DEF EmittedInThePast
<1>5. CASE /\ z \in {"warning", "critical"}
           /\ severity' = [severity EXCEPT ![k] = IF Rank[z] > Rank[@] THEN z ELSE @]
           /\ last' = [last EXCEPT ![k] =
                         IF Emits(k, z, clock) THEN [band |-> z, at |-> clock] ELSE @]
  <2>1. z \in Severity /\ z # "none"
    BY <1>5, Severities
  <2>2. severity' \in [Key -> Severity]
    BY <1>5, <2>1 DEF EmittedInThePast
  <2>3. CASE Emits(k, z, clock)
    <3>1. last' = [last EXCEPT ![k] = [band |-> z, at |-> clock]]
      BY <1>5, <2>3
    <3>2. [band |-> z, at |-> clock] \in [band : Severity, at : 0..clock]
      BY <2>1
    <3>3. last' \in [Key -> [band : Severity, at : 0..clock]]
      BY <3>1, <3>2 DEF EmittedInThePast
    <3>4. /\ last'[k] = [band |-> z, at |-> clock]
          /\ \A j \in Key : j # k => last'[j] = last[j]
      BY <3>1 DEF EmittedInThePast
    <3>5. EmittedInThePast'
      BY <1>2, <2>1, <2>2, <3>3, <3>4 DEF EmittedInThePast
    <3> QED BY <2>1, <2>3, <3>4, <3>5 DEF Emits
  <2>4. CASE ~Emits(k, z, clock)
    <3>1. last' = last
      BY <1>5, <2>4 DEF EmittedInThePast
    <3> QED BY <1>2, <2>2, <3>1 DEF EmittedInThePast
  <2> QED BY <2>3, <2>4
<1> QED BY <1>3, <1>4, <1>5 DEF Feed, Judged

\* A step of the detector, or of anything else.
LEMMA EmissionsKept ==
  ASSUME MonitorTypes, EmittedInThePast, [HealthNext]_healthVars
  PROVE  /\ EmittedInThePast'
         /\ \A k \in Key :
              (last'[k] # last[k] /\ last'[k].band = last[k].band)
                => last'[k].at - last[k].at >= Cooldown
<1>a. clock \in Nat
  BY Numbers DEF MonitorTypes
<1>1. ASSUME NEW f \in Frame, NEW k \in Key, NEW z \in Score, Packet(f, k, z)
      PROVE  /\ EmittedInThePast'
             /\ \A j \in Key :
                  (last'[j] # last[j] /\ last'[j].band = last[j].band)
                    => last'[j].at - last[j].at >= Cooldown
  <2>1. Feed(k, z, clock) /\ UNCHANGED clock
    BY <1>1 DEF Packet, Insert
  <2>2. EmittedInThePast'
    BY <1>a, <2>1, Fed
  <2>3. ASSUME NEW j \in Key, last'[j] # last[j], last'[j].band = last[j].band
        PROVE  last'[j].at - last[j].at >= Cooldown
    <3>1. /\ j = k /\ last'[k] = [band |-> z, at |-> clock]
          /\ ~InCooldown(k, z, clock)
      BY <1>a, <2>1, <2>3, Fed
    <3>2. last[k].band = z /\ last'[k].at = clock /\ last[k].at \in Nat
      BY <2>3, <3>1 DEF EmittedInThePast
    <3> QED BY <1>a, <3>1, <3>2, Numbers DEF InCooldown
  <2> QED BY <2>2, <2>3
<1>2. CASE UNCHANGED detectorVars
  <2>1. clock' \in Nat /\ clock' >= clock
    <3>1. [Next]_vars
      BY MonitorsView
    <3>2. CASE Tick
      BY <1>a, <3>2 DEF Tick
    <3>3. ASSUME NEW m \in Monitor, MonitorStep(m) \/ PersistFails(m) \/ Abandon(m)
          PROVE  UNCHANGED clock
      BY <3>3 DEF MonitorStep, ReadLatest, Assess, Check, Persist, PersistFails, Publish, Abandon
    <3>4. ASSUME NEW i \in Alert, Acknowledge(i) PROVE UNCHANGED clock
      BY <3>4 DEF Acknowledge
    <3>5. ASSUME NEW f \in Frame, Insert(f) PROVE UNCHANGED clock
      BY <3>5 DEF Insert
    <3> QED BY <1>a, <3>1, <3>2, <3>3, <3>4, <3>5 DEF Next, vars
  <2> QED BY <1>a, <1>2, <2>1, EmissionsAge DEF detectorVars
<1>3. ASSUME NewDetector, UNCHANGED vars
      PROVE  /\ EmittedInThePast'
             /\ \A k \in Key : last'[k] # last[k] => last'[k].band # last[k].band
  <2>1. UNCHANGED clock /\ 0 \in 0..Baseline /\ 0 \in 0..clock /\ "none" \in Severity
    BY <1>3, <1>a, Numbers, Severities DEF vars
  <2>2. EmittedInThePast'
    BY <1>3, <2>1 DEF NewDetector, EmittedInThePast
  <2>3. ASSUME NEW k \in Key, last'[k].band = last[k].band PROVE last'[k] = last[k]
    <3>1. last'[k] = [band |-> "none", at |-> 0]
      BY <1>3 DEF NewDetector
    <3>2. last[k] \in [band : Severity, at : 0..clock] /\ last[k].at = 0 /\ last[k].band = "none"
      BY <2>3, <3>1 DEF EmittedInThePast
    <3> QED BY <3>1, <3>2
  <2> QED BY <2>2, <2>3
<1>4. ASSUME NEW k \in Key, Evict(k), UNCHANGED vars
      PROVE  EmittedInThePast' /\ UNCHANGED last
  BY <1>4, Numbers DEF Evict, vars, EmittedInThePast
<1> QED BY <1>1, <1>2, <1>3, <1>4 DEF HealthNext, PacketUnfed, healthVars

\* A critical reading is emitted, or it is within the cooldown of one (detector.py:159-182).
LEMMA CriticalEmitted ==
  ASSUME EmittedInThePast, clock \in Nat
  PROVE  \A k \in Key :
           (Feed(k, "critical", clock) /\ samples'[k] = Baseline) =>
             last'[k].band = "critical" /\ clock - last'[k].at <= Cooldown
<1> SUFFICES ASSUME NEW k \in Key, Feed(k, "critical", clock), samples'[k] = Baseline
             PROVE  last'[k].band = "critical" /\ clock - last'[k].at <= Cooldown
  OBVIOUS
<1>1. Judged(k, "critical", clock)
  BY DEF Feed, EmittedInThePast
<1>2. last' = [last EXCEPT ![k] = IF Emits(k, "critical", clock)
                                    THEN [band |-> "critical", at |-> clock] ELSE @]
  BY <1>1 DEF Judged
<1>3. CASE Emits(k, "critical", clock)
  <2>1. last'[k] = [band |-> "critical", at |-> clock]
    BY <1>2, <1>3 DEF EmittedInThePast
  <2> QED BY <2>1, Numbers
<1>4. CASE ~Emits(k, "critical", clock)
  <2>1. last'[k] = last[k] /\ last[k].at \in Nat
    BY <1>2, <1>4 DEF EmittedInThePast
  <2>2. Rank["critical"] >= Rank[severity[k]]
    BY Severities DEF EmittedInThePast, Rank
  <2>3. InCooldown(k, "critical", clock)
    BY <1>4, <2>2 DEF Emits
  <2> QED BY <2>1, <2>3, Numbers DEF InCooldown
<1> QED BY <1>3, <1>4

-----------------------------------------------------------------------------
(* Theorems *)

HealthInv == MonitorTypes /\ Tally /\ AlertInv /\ EmittedInThePast

\* Before the first row nothing was emitted, raised or lost.
LEMMA HealthStarts == HealthInit => HealthInv
<1> SUFFICES ASSUME HealthInit PROVE HealthInv
  OBVIOUS
<1>1. MonitorTypes
  BY InitTypes DEF HealthInit
<1>2. Unheard = {} /\ Rowless = {} /\ phantoms = 0 /\ Alert = {}
  BY DEF HealthInit, Init, Unheard, Rowless, Alert, Idle
<1>3. Tally
  BY <1>1, <1>2, FS_EmptySet DEF Tally, MonitorTypes
<1>4. AlertInv
  BY <1>2 DEF AlertInv, RaisesNews, OwnAlertsClosed, NewerEvidence, Open
<1>5. EmittedInThePast
  BY Numbers, Severities DEF HealthInit, Init, DetectorInit, EmittedInThePast
<1> QED BY <1>1, <1>3, <1>4, <1>5 DEF HealthInv

\* Every reachable state is one in which the four parts of HealthInv hold.
THEOREM HealthInvariant == HealthSpec => []HealthInv
<1>1. HealthInit => HealthInv
  BY HealthStarts
<1>2. HealthInv /\ [HealthNext]_healthVars => HealthInv'
  BY TypesKept, TallyKept, AlertsKept, EmissionsKept, MonitorsView DEF HealthInv
<1> QED BY <1>1, <1>2, PTL DEF HealthSpec

\* Checks, alerts, events and the detector keep their types; no more events without a row
\* are published than failures allow (fdir/monitor.py, anomaly/detector.py).
THEOREM HealthTypeCorrect == HealthSpec => []HealthOK
<1>1. HealthInv => HealthOK
  <2> SUFFICES ASSUME HealthInv PROVE HealthOK
    OBVIOUS
  <2>1. phantoms \in 0..MaxFaults
    BY Counts, Numbers DEF HealthInv, Tally, MonitorTypes
  <2>2. AlertsOK /\ MonitorsOK
    BY DEF HealthInv, MonitorTypes, AlertsOK, MonitorsOK, Row, CheckState, Stage
  <2>3. TypeOK
    BY <2>1, <2>2 DEF HealthInv, MonitorTypes, TypeOK
  <2>4. 0..clock \subseteq 0..MaxClock
    BY Numbers DEF HealthInv, MonitorTypes
  <2>5. DetectorOK(0..MaxClock)
    BY <2>4 DEF HealthInv, EmittedInThePast, DetectorOK
  <2> QED BY <2>3, <2>5 DEF HealthOK
<1> QED BY <1>1, HealthInvariant, PTL

\* However many monitors overlap, each has one open alert at most (monitor.py:19, :213).
THEOREM AlertsBounded == HealthSpec => []OneAlertPerMonitor
<1>1. HealthInv => OneAlertPerMonitor
  BY AlertsCounted DEF HealthInv
<1> QED BY <1>1, HealthInvariant, PTL

\* A monitor's next alert rests on evidence newer than its last one (monitor.py:175).
THEOREM OldEvidenceIsSilent == HealthSpec => []NewerEvidence
<1>1. HealthInv => NewerEvidence
  BY DEF HealthInv, AlertInv
<1> QED BY <1>1, HealthInvariant, PTL

\* Rows without an event are no more than the failures, nor are events without a row
\* (monitor.py:219-240).
THEOREM EventsFollowRows == HealthSpec => []EventsMatchRows
<1>1. HealthInv => EventsMatchRows
  BY Counts DEF HealthInv, Tally, EventsMatchRows, MonitorTypes
<1> QED BY <1>1, HealthInvariant, PTL

\* No critical reading goes unreported for longer than the cooldown (detector.py:166).
THEOREM CriticalIsReported == HealthSpec => CriticalReported
<1>1. HealthInv =>
        [\A k \in Key :
           (Feed(k, "critical", clock) /\ samples'[k] = Baseline) =>
             /\ last'[k].band = "critical"
             /\ clock - last'[k].at <= Cooldown]_healthVars
  BY CriticalEmitted, Numbers DEF HealthInv, MonitorTypes
<1> QED BY <1>1, HealthInvariant, PTL DEF CriticalReported
=============================================================================
