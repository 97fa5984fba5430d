------------------------- MODULE PassScheduleProofs -------------------------
(***************************************************************************)
(* Theorems about PassSchedule, for every set of stations and jobs, every  *)
(* sky and every horizon.                                                  *)
(***************************************************************************)
EXTENDS PassSchedule, FiniteSetTheorems, TLAPS

\* The horizon is a number of instants, and so is an epoch (config.py).
LEMMA Numbers == {Horizon, KeepFor, MinAge, MaxClock} \subseteq Nat /\ Epoch \subseteq Nat
                 /\ MaxClock > 0
  BY HorizonAssumption, SkyAssumption

\* A set of instants has an earliest one; the sweep over the horizon relies on it
\* (passes.py).
LEMMA EarliestOf ==
  ASSUME NEW S \in SUBSET Nat, S # {}
  PROVE  Earliest(S) \in S /\ \A u \in S : Earliest(S) <= u
<1> DEFINE T == {0..n : n \in S}
           R == StrictSubsetOrdering(Nat)
<1>1. IsWellFoundedOn(R, FiniteSubsetsOf(Nat))
  BY FS_StrictSubsetOrderingWellFounded
<1>2. T \subseteq FiniteSubsetsOf(Nat)
  <2> SUFFICES ASSUME NEW n \in S PROVE 0..n \in FiniteSubsetsOf(Nat)
    OBVIOUS
  <2>1. IsFiniteSet(0..n)
    BY FS_Interval
  <2> QED BY <2>1 DEF FiniteSubsetsOf
<1>3. T # {}
  <2>1. PICK n \in S : TRUE
    OBVIOUS
  <2>2. 0..n \in T
    BY <2>1
  <2> QED BY <2>2
<1> HIDE DEF R, T
<1>4. PICK x \in T : \A y \in T : <<y, x>> \notin R
  BY <1>1, <1>2, <1>3, WFMin
<1>5. PICK n \in S : x = 0..n
  BY DEF T
<1>6. \A m \in S : n <= m
  <2> SUFFICES ASSUME NEW m \in S, m < n PROVE FALSE
    OBVIOUS
  <2>1. 0..m \in T /\ 0..m \subseteq 0..n /\ 0..m \in SUBSET Nat /\ 0..n \in SUBSET Nat
    BY DEF T
  <2>2. n \in 0..n /\ n \notin 0..m
    OBVIOUS
  <2>3. 0..m # 0..n
    BY <2>2
  <2>4. <<0..m, 0..n>> \in R
    BY <2>1, <2>3 DEF R, StrictSubsetOrdering
  <2> QED BY <1>4, <1>5, <2>1, <2>4
<1> QED BY <1>6 DEF Earliest

-----------------------------------------------------------------------------
(* Types *)

\* A prediction begins within the horizon and ends after it began, or with it.
LEMMA PredictedRows ==
  ASSUME NEW j \in Job, NEW e \in Epoch, NEW seen \in SUBSET Station, NEW from \in Nat
  PROVE  /\ Predicted(j, e, seen, from) \subseteq Row
         /\ \A r \in Predicted(j, e, seen, from) : r.aos <= r.los
<1> DEFINE end == from + Horizon
<1>1. ASSUME NEW visible, NEW p \in PassesOver(visible, from, end)
      PROVE  p \in [aos : Nat, los : Nat] /\ p.aos <= p.los
  <2>1. PICK a \in from..end : p = [aos |-> a, los |-> Los(visible, a, end)]
    BY DEF PassesOver
  <2> DEFINE S == {t \in (a + 1)..end : t \notin visible} \cup {end}
  <2>2. a \in Nat /\ S \in SUBSET Nat /\ S # {} /\ \A t \in S : a <= t
    BY Numbers
  <2>3. Los(visible, a, end) \in S
    BY <2>2, EarliestOf DEF Los
  <2> HIDE DEF S
  <2>4. a \in Nat /\ Los(visible, a, end) \in Nat /\ a <= Los(visible, a, end)
    BY <2>2, <2>3
  <2> QED BY <2>1, <2>4
<1>2. ASSUME NEW r \in Predicted(j, e, seen, from)
      PROVE  r \in Row /\ r.aos <= r.los
  <2>1. PICK s \in seen :
          r \in {[job |-> j, station |-> s, aos |-> p.aos, los |-> p.los] :
                  p \in PassesOver(Sky[e][s], from, end)}
    BY DEF Predicted
  <2>2. PICK p \in PassesOver(Sky[e][s], from, end) :
          r = [job |-> j, station |-> s, aos |-> p.aos, los |-> p.los]
    BY <2>1
  <2>3. p \in [aos : Nat, los : Nat] /\ p.aos <= p.los
    BY <1>1
  <2> QED BY <2>2, <2>3 DEF Row
<1> QED BY <1>2

\* Among the TLEs on file there is a latest one (satellites.py, ORDER BY epoch DESC LIMIT 1).
LEMMA LatestOf ==
  ASSUME NEW S \in SUBSET Nat, S # {}, IsFiniteSet(S)
  PROVE  Latest(S) \in S
<1> DEFINE T == {{m \in S : m > n} : n \in S}
           R == StrictSubsetOrdering(S)
<1>1. IsWellFoundedOn(R, SUBSET S)
  BY FS_StrictSubsetOrderingWellFounded, FS_FiniteSubsetsOfFinite
<1>2. T \subseteq SUBSET S
  OBVIOUS
<1>3. T # {}
  <2>1. PICK n \in S : TRUE
    OBVIOUS
  <2>2. {m \in S : m > n} \in T
    BY <2>1
  <2> QED BY <2>2
<1> HIDE DEF R, T
<1>4. PICK x \in T : \A y \in T : <<y, x>> \notin R
  BY <1>1, <1>2, <1>3, WFMin
<1>5. PICK n \in S : x = {m \in S : m > n}
  BY DEF T
<1>6. \A k \in S : k <= n
  <2> SUFFICES ASSUME NEW k \in S, n < k PROVE FALSE
    OBVIOUS
  <2> DEFINE y == {m \in S : m > k}
  <2>1. y \in T
    BY DEF T
  <2>2. y \in SUBSET S /\ x \in SUBSET S
    BY <1>5
  <2>5. y \subseteq x
    <3> SUFFICES ASSUME NEW m \in S, m > k PROVE m > n
      BY <1>5
    <3> QED BY n \in Nat, k \in Nat, m \in Nat
  <2>3. k \in x /\ k \notin y
    BY <1>5
  <2> HIDE DEF y
  <2>4. <<y, x>> \in R
    BY <2>2, <2>3, <2>5 DEF R, StrictSubsetOrdering
  <2> QED BY <1>4, <2>1, <2>4
<1> QED BY <1>6 DEF Latest

JobType ==
  [pc : {"none", "stations", "delete", "wait", "insert", "done"}, tle : Epoch \cup {0},
   stations : SUBSET Station, from : Nat, now : Nat, doomed : SUBSET Row, found : SUBSET Row]

FoundOK == \A j \in Job : \A r \in jobs[j].found : r.aos <= r.los

\* The types, and what is needed to keep them: found passes end after they began, and the
\* TLEs on file are finitely many.
TypeInv ==
  /\ TypeOK
  /\ jobs \in [Job -> JobType]
  /\ FoundOK
  /\ IsFiniteSet(tles)
  /\ refresher.pc = "store" => refresher.tle \in Epoch

\* Queueing a recomputation (satellites.py, satnogs.py, celestrak.py) keeps the jobs' types.
LEMMA QueueTypes ==
  ASSUME TypeInv, NEW j \in Job, NEW e \in Epoch, Queue(j, e), clock' = clock
  PROVE  JobsOK' /\ jobs' \in [Job -> JobType] /\ FoundOK'
<1> USE DEF TypeInv, TypeOK
<1> DEFINE r == [NotStarted EXCEPT !.pc = "stations", !.tle = e]
<1>1. jobs' = [jobs EXCEPT ![j] = r]
  BY DEF Queue, Goes
<1>2. /\ r \in JobType /\ r.pc = "stations" /\ r.tle = e
      /\ r.stations = {} /\ r.from = 0 /\ r.now = 0 /\ r.doomed = {} /\ r.found = {}
  BY DEF NotStarted, JobType
<1> HIDE DEF r
<1>3. jobs' \in [Job -> JobType]
  BY <1>1, <1>2
<1>4. clock \in Nat /\ clock' = clock
  OBVIOUS
<1>5. JobsOK' /\ FoundOK'
  BY <1>1, <1>2, <1>4 DEF JobsOK, FoundOK
<1> QED BY <1>3, <1>5

\* A recomputation that is over has forgotten its rows (satellites.py).
LEMMA EndedJob ==
  ASSUME NEW r \in JobType
  PROVE  [r EXCEPT !.pc = "done", !.doomed = {}, !.found = {}] \in JobType
  BY DEF JobType

\* Every step of a handler, a recomputation or the refresher keeps the types.
LEMMA StepTypes ==
  ASSUME TypeInv, [Next]_vars
  PROVE  TypeInv'
<1> USE DEF TypeInv, TypeOK
<1>1. ASSUME NEW j \in Job, Predict(j) PROVE TypeInv'
  <2> DEFINE found == Predicted(j, jobs[j].tle, stations, clock)
  <2>1. jobs[j].tle \in Epoch /\ clock \in Nat
    BY <1>1 DEF Predict, At, JobsOK
  <2>2. found \subseteq Row /\ \A r \in found : r.aos <= r.los
    BY <2>1, PredictedRows
  <2> HIDE DEF found
  <2>3. CASE stations = {}
    <3>1. /\ UNCHANGED <<clock, tables, importing, refresher, history>>
          /\ jobs' = [jobs EXCEPT ![j] = [jobs[j] EXCEPT !.pc = "done", !.doomed = {},
                                            !.found = {}]]
      BY <1>1, <2>3 DEF Predict, Ends, Goes
    <3>2. jobs' \in [Job -> JobType]
      <4>1. jobs'[j] \in JobType
        BY <3>1, EndedJob
      <4> QED BY <3>1, <4>1
    <3>3. JobsOK'
      BY <2>1, <3>1 DEF JobsOK, JobType
    <3>4. FoundOK'
      BY <3>1 DEF FoundOK, JobType
    <3> QED BY <3>1, <3>2, <3>3, <3>4 DEF tables, history
  <2>4. CASE stations # {}
    <3>1. /\ UNCHANGED <<clock, tables, importing, refresher, history>>
          /\ jobs' = [jobs EXCEPT ![j] = [jobs[j] EXCEPT !.pc = "delete", !.stations = stations,
                                            !.from = clock, !.found = found]]
      BY <1>1, <2>4 DEF Predict, Goes, found
    <3>2. jobs' \in [Job -> JobType]
      <4>1. jobs'[j] \in JobType
        <5>1. jobs[j] \in JobType /\ found \in SUBSET Row /\ stations \in SUBSET Station
          BY <2>2
        <5> QED BY <2>1, <3>1, <5>1 DEF JobType
      <4> QED BY <3>1, <4>1
    <3>3. JobsOK'
      BY <2>1, <2>2, <3>1 DEF JobsOK, JobType
    <3>4. FoundOK'
      BY <2>2, <3>1 DEF FoundOK, JobType
    <3> QED BY <3>1, <3>2, <3>3, <3>4 DEF tables, history
  <2> QED BY <2>3, <2>4
<1>2. ASSUME NEW j \in Job, Delete(j) PROVE TypeInv'
  <2> DEFINE doomed == Doomed(clock)
  <2>1. doomed \subseteq Row /\ clock \in Nat
    BY DEF Doomed
  <2> HIDE DEF doomed
  <2>2. /\ jobs[j].pc = "delete" /\ UNCHANGED <<clock, tables, importing, refresher, newest>>
        /\ jobs' = [jobs EXCEPT ![j] = [jobs[j] EXCEPT !.pc = "wait", !.now = clock,
                                          !.doomed = doomed]]
    BY <1>2 DEF Delete, At, Goes, doomed
  <2>3. jobs' \in [Job -> JobType]
    <3>1. jobs'[j] \in JobType
      <4>1. jobs[j] \in JobType /\ doomed \in SUBSET Row
        BY <2>1
      <4> QED BY <2>1, <2>2, <4>1 DEF JobType
    <3> QED BY <2>2, <3>1
  <2>4. JobsOK'
    BY <2>1, <2>2 DEF JobsOK, JobType
  <2>5. FoundOK'
    BY <2>2 DEF FoundOK, JobType
  <2> QED BY <2>2, <2>3, <2>4, <2>5 DEF tables
<1>3. ASSUME NEW j \in Job, DropCopies(j) PROVE TypeInv'
  <2> DEFINE fresh == Fresh(j)
  <2>1. fresh \subseteq jobs[j].found
    BY DEF Fresh
  <2> HIDE DEF fresh
  <2>2. /\ jobs[j].pc = "wait" /\ UNCHANGED <<clock, tables, importing, refresher, history>>
        /\ jobs' = [jobs EXCEPT ![j] = [jobs[j] EXCEPT !.pc = "insert", !.found = fresh]]
    BY <1>3 DEF DropCopies, At, Goes, fresh
  <2>3. jobs' \in [Job -> JobType]
    <3>1. jobs'[j] \in JobType
      <4>1. jobs[j] \in JobType
        OBVIOUS
      <4>2. fresh \in SUBSET Row
        BY <2>1, <4>1 DEF JobType
      <4> QED BY <2>2, <4>1, <4>2 DEF JobType
    <3> QED BY <2>2, <3>1
  <2>4. JobsOK'
    BY <2>1, <2>2 DEF JobsOK, JobType
  <2>5. FoundOK'
    BY <2>1, <2>2 DEF FoundOK, JobType
  <2> QED BY <2>2, <2>3, <2>4, <2>5 DEF tables, history
<1>4. ASSUME NEW j \in Job, Commit(j) PROVE TypeInv'
  <2>1. rows' \subseteq Row /\ \A r \in rows' : r.aos <= r.los
    BY <1>4 DEF Commit, JobsOK, FoundOK
  <2>2. jobs[j].pc = "insert" /\ UNCHANGED <<clock, tles, stations, importing, refresher, rivals>>
    BY <1>4 DEF Commit, At
  <2>3. jobs' = [jobs EXCEPT ![j] = [jobs[j] EXCEPT !.pc = "done", !.doomed = {}, !.found = {}]]
    BY <1>4 DEF Commit, Ends, Goes
  <2>4. jobs' \in [Job -> JobType]
    <3>1. jobs'[j] \in JobType
      BY <2>3, EndedJob
    <3> QED BY <2>3, <3>1
  <2>5. JobsOK'
    BY <2>2, <2>3 DEF JobsOK, JobType
  <2>6. FoundOK'
    BY <2>3 DEF FoundOK, JobType
  <2>7. newest' \in Job
    BY <1>4 DEF Commit
  <2> QED BY <2>1, <2>2, <2>4, <2>5, <2>6, <2>7
<1>5. ASSUME NEW j \in Job, Fails(j) PROVE TypeInv'
  <2>1. JobsOK' /\ FoundOK'
    BY <1>5 DEF Fails, Goes, NotStarted, JobsOK, FoundOK, JobType, tables, history
  <2> QED BY <1>5, <2>1 DEF Fails, Goes, NotStarted, JobType, tables, history
<1>6. ASSUME NEW j \in Job, NEW e \in Epoch, StoreTle(e, j) PROVE TypeInv'
  BY <1>6, QueueTypes, FS_AddElement DEF StoreTle, history
<1>7. ASSUME NEW j \in Job, RecomputeAfterImport(j) PROVE TypeInv'
  <2>1. CASE tles = {}
    BY <1>7, <2>1 DEF RecomputeAfterImport, tables, history, JobsOK, FoundOK
  <2>2. CASE tles # {}
    <3>1. Latest(tles) \in Epoch
      BY <2>2, LatestOf, Numbers
    <3> QED BY <1>7, <2>2, <3>1, QueueTypes DEF RecomputeAfterImport, tables, history
  <2> QED BY <2>1, <2>2
<1>8. ASSUME NEW j \in Job, StoreFetched(j) PROVE TypeInv'
  <2>1. refresher.tle \in Epoch
    BY <1>8 DEF StoreFetched
  <2> QED BY <1>8, <2>1, QueueTypes, FS_AddElement DEF StoreFetched, Refresher, history
<1>9. ASSUME NEW S \in SUBSET Station, ImportStations(S) PROVE TypeInv'
  BY <1>9 DEF ImportStations, history, JobsOK, FoundOK
<1>10. ASSUME NEW s \in Station, CreateStation(s) \/ DeleteStation(s) PROVE TypeInv'
  BY <1>10 DEF CreateStation, DeleteStation, history, JobsOK, FoundOK
<1>11. CASE StartCycle
  BY <1>11 DEF StartCycle, Refresher, tables, history, JobsOK, FoundOK
<1>12. ASSUME NEW e \in Epoch, FetchTle(e) PROVE TypeInv'
  BY <1>12 DEF FetchTle, Refresher, tables, history, JobsOK, FoundOK
<1>13. CASE EndCycle
  BY <1>13 DEF EndCycle, Refresher, tables, history, JobsOK, FoundOK
<1>14. CASE Tick
  BY <1>14, Numbers DEF Tick, tables, history, JobsOK, FoundOK
<1>15. CASE UNCHANGED vars
  BY <1>15 DEF vars, tables, history, JobsOK, FoundOK
<1> QED
  BY <1>1, <1>2, <1>3, <1>4, <1>5, <1>6, <1>7, <1>8, <1>9, <1>10, <1>11, <1>12, <1>13, <1>14,
     <1>15 DEF Next

\* Nothing is scheduled before the first TLE is stored (satellites.py).
LEMMA InitTypes == ASSUME Init PROVE TypeInv
<1>1. NotStarted \in JobType /\ jobs = [j \in Job |-> NotStarted]
  BY DEF Init, NotStarted, JobType
<1>2. /\ NotStarted.pc = "none" /\ NotStarted.stations = {} /\ NotStarted.from = 0
      /\ NotStarted.now = 0 /\ NotStarted.doomed = {} /\ NotStarted.found = {}
  BY DEF NotStarted
<1>3. clock = 1 /\ clock \in 1..MaxClock
  BY Numbers DEF Init
<1>4. JobsOK /\ FoundOK
  BY <1>1, <1>2, <1>3 DEF JobsOK, FoundOK
<1>5. jobs \in [Job -> JobType]
  BY <1>1
<1>6. IsFiniteSet(tles) /\ tles \subseteq Epoch
  BY FS_EmptySet DEF Init
<1> QED BY <1>3, <1>4, <1>5, <1>6 DEF Init, TypeInv, TypeOK

\* Jobs, stations, TLEs and the schedule keep their types, and no row ends before it begins
\* (satellites.py, celestrak.py, passes.py).
THEOREM PassesTypeCorrect == Spec => []TypeOK
<1>1. Init => TypeInv
  BY InitTypes
<1>2. TypeInv /\ [Next]_vars => TypeInv'
  BY StepTypes
<1> QED BY <1>1, <1>2, PTL DEF Spec, TypeInv

-----------------------------------------------------------------------------
(* What transactions do to each other *)

\* Who is in a transaction is after what was predicted or past a week at its NOW().
Aimed ==
  \A j \in Job : InTransaction(j) =>
    \A r \in jobs[j].doomed : r.aos > jobs[j].now \/ r.los + KeepFor < jobs[j].now

\* Transactions that are open at the same time overlap.
Overlapping ==
  \A j, k \in Job : (InTransaction(j) /\ InTransaction(k) /\ j # k) => {j, k} \in rivals

\* A prediction a transaction is not after came in behind its back.
BehindBack ==
  \A j \in Job : InTransaction(j) =>
    \A r \in rows : r.aos > jobs[j].now => r \in jobs[j].doomed \/ {r.job, j} \in rivals

OwnRows == \A j \in Job : \A r \in jobs[j].found : r.job = j

ScheduleInv == Aimed /\ Overlapping /\ BehindBack /\ OwnRows /\ FreshSchedule

\* Only recomputations that get no further (satellites.py, satnogs.py, celestrak.py):
\* a job that is touched is not in a transaction afterwards, and found nothing.
LEMMA OutsideTransactions ==
  ASSUME TypeInv, ScheduleInv, UNCHANGED <<rows, rivals, newest>>, clock' >= clock,
         clock' \in Nat, NEW j \in Job,
         \A k \in Job \ {j} : jobs'[k] = jobs[k],
         jobs'[j] = jobs[j] \/ (~InTransaction(j)' /\ \A r \in jobs'[j].found : r.job = j)
  PROVE  ScheduleInv'
<1> USE DEF ScheduleInv, InTransaction, At
<1>1. Aimed' /\ Overlapping' /\ BehindBack' /\ OwnRows'
  BY DEF Aimed, Overlapping, BehindBack, OwnRows
<1>2. FreshSchedule'
  BY DEF FreshSchedule, TypeInv, TypeOK, Row
<1> QED BY <1>1, <1>2

\* The DELETE, the INSERT and all other steps of overlapping recomputations.
LEMMA StepKeepsSchedule ==
  ASSUME TypeInv, [Next]_vars, ScheduleInv
  PROVE  ScheduleInv'
<1> USE DEF At, Goes
<1>0. /\ clock \in Nat /\ jobs \in [Job -> JobType] /\ JobsOK
      /\ \A j \in Job : jobs[j].now <= clock /\ jobs[j].now \in Nat
      /\ \A r \in rows : r.aos \in Nat /\ r.los \in Nat
      /\ \A j \in Job : \A r \in jobs[j].doomed : r.aos \in Nat /\ r.los \in Nat
  BY DEF TypeInv, TypeOK, JobsOK, Row
<1>1. ASSUME NEW j \in Job, Predict(j) PROVE ScheduleInv'
  <2>1. ~InTransaction(j)' /\ UNCHANGED <<rows, rivals, newest, clock>>
    <3>1. /\ UNCHANGED <<rows, rivals, newest, clock>>
          /\ \E r : jobs' = [jobs EXCEPT ![j] = r] /\ r.pc \in {"done", "delete"}
      <4>1. jobs[j] \in JobType
        BY <1>0
      <4>2. [jobs[j] EXCEPT !.pc = "done", !.doomed = {}, !.found = {}].pc = "done"
        BY <4>1 DEF JobType
      <4>3. [jobs[j] EXCEPT !.pc = "delete", !.stations = stations, !.from = clock,
               !.found = Predicted(j, jobs[j].tle, stations, clock)].pc = "delete"
        BY <4>1 DEF JobType
      <4> QED BY <1>1, <4>2, <4>3 DEF Predict, Ends, tables, history
    <3> QED BY <1>0, <3>1 DEF InTransaction
  <2>2. \A k \in Job \ {j} : jobs'[k] = jobs[k]
    BY <1>0, <1>1 DEF Predict, Ends
  <2>3. \A r \in jobs'[j].found : r.job = j
    <3>1. CASE stations = {}
      BY <1>0, <1>1, <3>1 DEF Predict, Ends, JobType
    <3>2. CASE stations # {}
      <4>1. jobs'[j].found = Predicted(j, jobs[j].tle, stations, clock)
        BY <1>0, <1>1, <3>2 DEF Predict, JobType
      <4>2. ASSUME NEW r \in Predicted(j, jobs[j].tle, stations, clock) PROVE r.job = j
        BY <4>2 DEF Predicted
      <4> QED BY <4>1, <4>2
    <3> QED BY <3>1, <3>2
  <2> QED BY <1>0, <2>1, <2>2, <2>3, OutsideTransactions
<1>2. ASSUME NEW j \in Job, Delete(j) PROVE ScheduleInv'
  <2> DEFINE doomed == Doomed(clock)
  <2>1. doomed = {r \in rows : r.aos > clock \/ r.los + KeepFor < clock}
    BY DEF Doomed
  <2> HIDE DEF doomed
  <2>2. /\ ~InTransaction(j) /\ InTransaction(j)' /\ UNCHANGED <<clock, rows, newest>>
        /\ \A k \in Job \ {j} : jobs'[k] = jobs[k] /\ (InTransaction(k)' <=> InTransaction(k))
        /\ jobs'[j].now = clock /\ jobs'[j].doomed = doomed /\ jobs'[j].found = jobs[j].found
    BY <1>0, <1>2 DEF Delete, InTransaction, JobType, tables, doomed
  <2>3. /\ rivals \subseteq rivals'
        /\ \A k \in Job : InTransaction(k) => {j, k} \in rivals'
    BY <1>2 DEF Delete
  <2>4. Aimed'
    BY <1>0, <2>1, <2>2 DEF ScheduleInv, Aimed
  <2>5. Overlapping'
    BY <2>2, <2>3 DEF ScheduleInv, Overlapping
  <2>6. BehindBack'
    BY <1>0, <2>1, <2>2, <2>3 DEF ScheduleInv, BehindBack
  <2>7. OwnRows' /\ FreshSchedule'
    BY <2>2, <2>3 DEF ScheduleInv, OwnRows, FreshSchedule
  <2> QED BY <2>4, <2>5, <2>6, <2>7 DEF ScheduleInv
<1>3. ASSUME NEW j \in Job, DropCopies(j) PROVE ScheduleInv'
  <2>1. /\ InTransaction(j) /\ UNCHANGED <<clock, rows, newest, rivals>>
        /\ \A k \in Job \ {j} : jobs'[k] = jobs[k]
        /\ \A k \in Job : InTransaction(k)' <=> InTransaction(k)
        /\ jobs'[j].now = jobs[j].now /\ jobs'[j].doomed = jobs[j].doomed
        /\ jobs'[j].found \subseteq jobs[j].found
    BY <1>0, <1>3 DEF DropCopies, Fresh, InTransaction, JobType, tables, history
  <2> QED
    BY <2>1 DEF ScheduleInv, Aimed, Overlapping, BehindBack, OwnRows, FreshSchedule
<1>4. ASSUME NEW j \in Job, Commit(j) PROVE ScheduleInv'
  <2>1. /\ InTransaction(j) /\ ~InTransaction(j)' /\ UNCHANGED <<clock, rivals>>
        /\ \A k \in Job \ {j} : jobs'[k] = jobs[k] /\ (InTransaction(k)' <=> InTransaction(k))
        /\ jobs'[j].found = {}
        /\ rows' = (rows \ jobs[j].doomed) \cup jobs[j].found /\ newest' = j
    BY <1>0, <1>4 DEF Commit, Ends, InTransaction, JobType
  <2>2. Aimed' /\ Overlapping' /\ OwnRows'
    BY <2>1 DEF ScheduleInv, Aimed, Overlapping, OwnRows
  <2>3. BehindBack'
    <3> SUFFICES ASSUME NEW k \in Job \ {j}, InTransaction(k), NEW r \in rows',
                        r.aos > jobs[k].now
                 PROVE  r \in jobs[k].doomed \/ {r.job, k} \in rivals
      BY <2>1 DEF BehindBack
    <3>1. CASE r \in rows
      BY <3>1 DEF ScheduleInv, BehindBack
    <3>2. CASE r \in jobs[j].found
      BY <2>1, <3>2 DEF ScheduleInv, Overlapping, OwnRows
    <3> QED BY <2>1, <3>1, <3>2
  <2>4. FreshSchedule'
    <3> SUFFICES ASSUME NEW r \in rows', r.aos > clock
                 PROVE  r.job = j \/ {r.job, j} \in rivals
      BY <2>1 DEF FreshSchedule
    <3>1. CASE r \in rows \ jobs[j].doomed
      BY <1>0, <2>1, <3>1 DEF ScheduleInv, BehindBack
    <3>2. CASE r \in jobs[j].found
      BY <3>2 DEF ScheduleInv, OwnRows
    <3> QED BY <2>1, <3>1, <3>2
  <2> QED BY <2>2, <2>3, <2>4 DEF ScheduleInv
<1>5. ASSUME NEW j \in Job, Fails(j) PROVE ScheduleInv'
  <2>1. /\ ~InTransaction(j)' /\ jobs'[j].found = {} /\ UNCHANGED <<rows, rivals, newest, clock>>
        /\ \A k \in Job \ {j} : jobs'[k] = jobs[k]
    BY <1>0, <1>5 DEF Fails, NotStarted, InTransaction, tables, history
  <2> QED BY <1>0, <2>1, OutsideTransactions
<1>6. ASSUME NEW j \in Job, NEW e, Queue(j, e), UNCHANGED <<rows, rivals, newest, clock>>
      PROVE  ScheduleInv'
  <2>1. /\ ~InTransaction(j)' /\ jobs'[j].found = {}
        /\ \A k \in Job \ {j} : jobs'[k] = jobs[k]
    BY <1>0, <1>6 DEF Queue, NotStarted, InTransaction
  <2> QED BY <1>0, <1>6, <2>1, OutsideTransactions
<1>7. ASSUME UNCHANGED <<rows, rivals, newest, jobs>>, clock' >= clock, clock' \in Nat
      PROVE  ScheduleInv'
  BY <1>0, <1>7
     DEF ScheduleInv, Aimed, Overlapping, BehindBack, OwnRows, FreshSchedule, InTransaction
<1>8. ASSUME NEW j \in Job, NEW e \in Epoch, StoreTle(e, j) PROVE ScheduleInv'
  BY <1>6, <1>8 DEF StoreTle, history
<1>9. ASSUME NEW j \in Job, RecomputeAfterImport(j) PROVE ScheduleInv'
  BY <1>0, <1>6, <1>7, <1>9 DEF RecomputeAfterImport, tables, history
<1>10. ASSUME NEW j \in Job, StoreFetched(j) PROVE ScheduleInv'
  BY <1>6, <1>10 DEF StoreFetched, history
<1>11. ASSUME NEW S \in SUBSET Station, ImportStations(S) PROVE ScheduleInv'
  BY <1>0, <1>7, <1>11 DEF ImportStations, history
<1>12. ASSUME NEW s \in Station, CreateStation(s) \/ DeleteStation(s) PROVE ScheduleInv'
  BY <1>0, <1>7, <1>12 DEF CreateStation, DeleteStation, history
<1>13. CASE StartCycle \/ EndCycle
  BY <1>0, <1>7, <1>13 DEF StartCycle, EndCycle, tables, history
<1>14. ASSUME NEW e \in Epoch, FetchTle(e) PROVE ScheduleInv'
  BY <1>0, <1>7, <1>14 DEF FetchTle, tables, history
<1>15. CASE Tick
  BY <1>0, <1>7, <1>15 DEF Tick, tables, history
<1>16. CASE UNCHANGED vars
  BY <1>0, <1>7, <1>16 DEF vars, tables, history
<1> QED
  BY <1>1, <1>2, <1>3, <1>4, <1>5, <1>8, <1>9, <1>10, <1>11, <1>12, <1>13, <1>14, <1>15,
     <1>16 DEF Next

\* In every reachable state the rows are those of the newest recomputation, but for what
\* overlapping ones left (satellites.py:258).
LEMMA ScheduleInvariant == Spec => [](TypeInv /\ ScheduleInv)
<1>1. Init => TypeInv /\ ScheduleInv
  <2>1. Init => ScheduleInv
    BY DEF Init, ScheduleInv, Aimed, Overlapping, BehindBack, OwnRows, FreshSchedule,
           InTransaction, At, NotStarted
  <2> QED BY <2>1, InitTypes
<1>2. TypeInv /\ ScheduleInv /\ [Next]_vars => TypeInv' /\ ScheduleInv'
  BY StepTypes, StepKeepsSchedule
<1> QED BY <1>1, <1>2, PTL DEF Spec

\* However many recomputations overlap, the predictions are those of the one that committed
\* last, but for what overlapping ones inserted (satellites.py:258).
THEOREM ScheduleIsFresh == Spec => []FreshSchedule
  BY ScheduleInvariant, PTL DEF ScheduleInv

\* A pass that has begun is deleted by no transaction that began after it, until a week has
\* gone by (satellites.py:260).
THEOREM BegunStay == Spec => BegunPassesStay
<1>1. TypeInv /\ ScheduleInv /\ [Next]_vars =>
        [\A r \in rows \ rows' :
           (r.aos <= clock /\ clock <= r.los + KeepFor) => jobs[newest'].now < r.aos]_vars
  <2> SUFFICES ASSUME TypeInv, ScheduleInv, Next, NEW r \in rows \ rows',
                      r.aos <= clock, clock <= r.los + KeepFor
               PROVE  jobs[newest'].now < r.aos
    OBVIOUS
  <2>1. PICK j \in Job : Commit(j)
    BY DEF Next, Predict, Delete, DropCopies, Fails, StoreTle, RecomputeAfterImport,
           StoreFetched, ImportStations, CreateStation, DeleteStation, StartCycle, FetchTle,
           EndCycle, Tick, tables
  <2>2. newest' = j /\ InTransaction(j) /\ r \in jobs[j].doomed
    BY <2>1 DEF Commit, InTransaction
  <2>3. r.aos > jobs[j].now \/ r.los + KeepFor < jobs[j].now
    BY <2>2 DEF ScheduleInv, Aimed
  <2>4. /\ clock \in Nat /\ jobs[j].now \in Nat /\ jobs[j].now <= clock
        /\ r.aos \in Nat /\ r.los \in Nat /\ KeepFor \in Nat
    BY Numbers DEF TypeInv, TypeOK, JobsOK, Row
  <2> QED BY <2>2, <2>3, <2>4
<1> QED BY <1>1, ScheduleInvariant, PTL DEF Spec, BegunPassesStay

-----------------------------------------------------------------------------
(* What a prediction shows *)

\* The sweep over the horizon stops looking for the end of a pass at the horizon's end.
LEMMA LosOf ==
  ASSUME NEW V, NEW a \in Nat, NEW end \in Nat, a <= end
  PROVE  /\ Los(V, a, end) \in a..end
         /\ \A t \in (a + 1)..end : t < Los(V, a, end) => t \in V
         /\ \A t \in a..(end - 1) :
              (\A u \in (a + 1)..t : u \in V) => t < Los(V, a, end)
<1> DEFINE S == {t \in (a + 1)..end : t \notin V} \cup {end}
<1>1. S \in SUBSET Nat /\ S # {} /\ end \in S /\ \A t \in S : a <= t /\ t <= end
  OBVIOUS
<1>2. Los(V, a, end) \in S /\ \A t \in S : Los(V, a, end) <= t
  BY <1>1, EarliestOf DEF Los
<1>3. Los(V, a, end) \in a..end
  <2> HIDE DEF S
  <2>1. Los(V, a, end) \in Nat
    BY <1>1, <1>2
  <2> QED BY <1>1, <1>2, <2>1
<1>4. ASSUME NEW t \in (a + 1)..end, t < Los(V, a, end), t \notin V PROVE FALSE
  <2>1. t \in S
    BY <1>4
  <2> HIDE DEF S
  <2> QED BY <1>2, <1>3, <1>4, <2>1
<1>5. ASSUME NEW t \in a..(end - 1), \A u \in (a + 1)..t : u \in V PROVE t < Los(V, a, end)
  <2>1. \A u \in S : u > t
    BY <1>5
  <2> HIDE DEF S
  <2> QED BY <1>2, <1>3, <2>1
<1> QED BY <1>3, <1>4, <1>5

\* The passes predicted from an instant on cover just the instants at which the TLE shows the
\* satellite (passes.py).
LEMMA SweepCovers ==
  ASSUME NEW V, NEW start \in Nat, NEW end \in Nat
  PROVE  /\ \A p \in PassesOver(V, start, end) :
              /\ p.aos \in start..end /\ p.los \in p.aos..end
              /\ \A t \in p.aos..end : t < p.los => t \in V
         /\ \A t \in start..(end - 1) :
              t \in V => \E p \in PassesOver(V, start, end) : p.aos <= t /\ t < p.los
<1>1. ASSUME NEW p \in PassesOver(V, start, end)
      PROVE  /\ p.aos \in start..end /\ p.los \in p.aos..end
             /\ \A t \in p.aos..end : t < p.los => t \in V
  <2>1. PICK a \in start..end : a \in V /\ p = [aos |-> a, los |-> Los(V, a, end)]
    BY DEF PassesOver
  <2>2. a \in Nat /\ a <= end /\ p.aos = a /\ p.los = Los(V, a, end)
    BY <2>1
  <2>3. /\ p.los \in a..end
        /\ \A t \in (a + 1)..end : t < p.los => t \in V
    BY <2>2, LosOf
  <2> QED BY <2>1, <2>2, <2>3
<1>2. ASSUME NEW t \in start..(end - 1), t \in V
      PROVE  \E p \in PassesOver(V, start, end) : p.aos <= t /\ t < p.los
  <2> DEFINE S == {b \in start..t : \A u \in b..t : u \in V}
             a == Earliest(S)
  <2>1. S \in SUBSET Nat /\ t \in S
    <3>1. \A u \in t..t : u = t
      OBVIOUS
    <3> QED BY <1>2, <3>1
  <2>2. a \in S /\ \A b \in S : a <= b
    BY <2>1, EarliestOf
  <2>3. a \in start..t /\ \A u \in a..t : u \in V
    BY <2>2
  <2>4. a = start \/ a - 1 \notin V
    <3> SUFFICES ASSUME a # start, a - 1 \in V PROVE FALSE
      OBVIOUS
    <3> HIDE DEF a
    <3>1. a - 1 \in start..t
      BY <2>3
    <3>2. \A u \in (a - 1)..t : u = a - 1 \/ u \in a..t
      BY <2>3
    <3>3. a - 1 \in S
      BY <2>3, <3>1, <3>2
    <3> HIDE DEF S
    <3> QED BY <2>2, <2>3, <3>1, <3>3
  <2> HIDE DEF a, S
  <2>5. a \in Nat /\ a \in start..end /\ a <= end /\ t \in a..(end - 1) /\ a \in V
    BY <2>3
  <2>6. t < Los(V, a, end)
    BY <2>3, <2>5, LosOf
  <2>7. [aos |-> a, los |-> Los(V, a, end)] \in PassesOver(V, start, end)
    BY <2>4, <2>5 DEF PassesOver
  <2> QED BY <2>5, <2>6, <2>7
<1> QED BY <1>1, <1>2

Shows(S, s, t) == \E r \in S : r.station = s /\ r.aos <= t /\ t < r.los

Forecast(j) == Predicted(j, jobs[j].tle, jobs[j].stations, jobs[j].from)

\* The rows of a prediction show at every instant of the horizon what the TLE shows
\* (passes.py, satellites.py).
LEMMA ForecastIsSky ==
  ASSUME NEW j \in Job, NEW e \in Epoch, NEW seen \in SUBSET Station, NEW from \in Nat
  PROVE  /\ \A r \in Predicted(j, e, seen, from) :
              /\ r.job = j /\ r.station \in seen
              /\ r.aos \in Nat /\ r.los \in Nat /\ from <= r.aos /\ r.los <= from + Horizon
              /\ \A t \in Nat : r.aos <= t /\ t < r.los => t \in Sky[e][r.station]
         /\ \A s \in seen : \A t \in from..(from + Horizon - 1) :
              t \in Sky[e][s] => Shows(Predicted(j, e, seen, from), s, t)
<1> DEFINE end == from + Horizon
           Of(s) == {[job |-> j, station |-> s, aos |-> p.aos, los |-> p.los] :
                       p \in PassesOver(Sky[e][s], from, end)}
<1>0. end \in Nat /\ Horizon \in Nat
  BY Numbers
<1>p. Predicted(j, e, seen, from) = UNION {Of(s) : s \in seen}
  BY DEF Predicted
<1>1. ASSUME NEW r \in Predicted(j, e, seen, from)
      PROVE  /\ r.job = j /\ r.station \in seen
             /\ r.aos \in Nat /\ r.los \in Nat /\ from <= r.aos /\ r.los <= from + Horizon
             /\ \A t \in Nat : r.aos <= t /\ t < r.los => t \in Sky[e][r.station]
  <2>1. PICK s \in seen : r \in Of(s)
    BY <1>p
  <2>2. PICK p \in PassesOver(Sky[e][s], from, end) :
          r = [job |-> j, station |-> s, aos |-> p.aos, los |-> p.los]
    BY <2>1
  <2>3. /\ p.aos \in from..end /\ p.los \in p.aos..end
        /\ \A t \in p.aos..end : t < p.los => t \in Sky[e][s]
    BY <1>0, <2>2, SweepCovers
  <2>4. r.job = j /\ r.station = s /\ r.aos = p.aos /\ r.los = p.los
    BY <2>2
  <2> QED BY <1>0, <2>3, <2>4
<1>2. ASSUME NEW s \in seen, NEW t \in from..(from + Horizon - 1), t \in Sky[e][s]
      PROVE  Shows(Predicted(j, e, seen, from), s, t)
  <2>0. t \in from..(end - 1)
    BY <1>0, <1>2
  <2> HIDE DEF end
  <2>1. PICK p \in PassesOver(Sky[e][s], from, end) : p.aos <= t /\ t < p.los
    BY <1>0, <1>2, <2>0, SweepCovers
  <2> DEFINE r == [job |-> j, station |-> s, aos |-> p.aos, los |-> p.los]
  <2>2. r \in Predicted(j, e, seen, from)
    BY <1>p
  <2>3. r.station = s /\ r.aos = p.aos /\ r.los = p.los
    OBVIOUS
  <2> QED BY <2>1, <2>2, <2>3 DEF Shows
<1> HIDE DEF end, Of
<1> QED BY <1>1, <1>2

-----------------------------------------------------------------------------
(* What the schedule shows *)

\* What job j is to insert: its prediction without the copies of what it kept.
Planned(j) ==
  {r \in Forecast(j) : ~(r.station \in KeptInProgress(j) /\ r.aos <= jobs[j].from)}

\* Rows come from recomputations that are over.
Settled ==
  /\ \A r \in rows : At(r.job, "done")
  /\ newest \in Job => At(newest, "done")

\* Up to the INSERT a recomputation carries its whole prediction, from before NOW() on.
Foretold(j) ==
  /\ jobs[j].pc \in {"delete", "wait"} => jobs[j].found = Forecast(j)
  /\ InTransaction(j) => jobs[j].from <= jobs[j].now

\* Alone, a transaction works on the table as it is.
Isolated(j) ==
  Undisturbed(j) =>
    /\ InTransaction(j) => jobs[j].doomed = Doomed(jobs[j].now)
    /\ At(j, "insert") => jobs[j].found = Planned(j)

\* ScheduleIsSky, from NOW() of the recomputation on.
SkySince(j) ==
  (j = newest /\ Undisturbed(j)) =>
    \A s \in jobs[j].stations :
      (\A r \in rows : r.station = s /\ InProgress(r, jobs[j].now) /\ r.job # j => Agrees(r, j))
        => \A t \in (jobs[j].now + 1)..(jobs[j].from + Horizon - 1) :
             t \in Sky[jobs[j].tle][s] <=> Shows(rows, s, t)

PlanInv == Settled /\ \A j \in Job : Foretold(j) /\ Isolated(j) /\ SkySince(j)

\* A recomputation that takes a step of its own leaves the others and the schedule alone
\* (satellites.py).
LEMMA OneJobMoves ==
  ASSUME TypeInv, PlanInv, NEW j \in Job, ~At(j, "done"),
         UNCHANGED <<rows, newest>>, rivals \subseteq rivals',
         \A k \in Job \ {j} : jobs'[k] = jobs[k],
         Foretold(j)', Isolated(j)'
  PROVE  PlanInv'
<1>0. \A r \in rows : r.job \in Job
  BY DEF TypeInv, TypeOK, Row
<1>1. Settled'
  BY <1>0 DEF PlanInv, Settled, At
<1>2. SkySince(j)'
  BY DEF PlanInv, Settled, SkySince
<1>3. ASSUME NEW k \in Job \ {j} PROVE Foretold(k)' /\ Isolated(k)' /\ SkySince(k)'
  <2>1. jobs'[k] = jobs[k] /\ (Undisturbed(k)' => Undisturbed(k))
    BY DEF Undisturbed
  <2>2. /\ Forecast(k)' = Forecast(k) /\ KeptInProgress(k)' = KeptInProgress(k)
        /\ (\A now : Doomed(now)' = Doomed(now)) /\ (\A r : Agrees(r, k)' = Agrees(r, k))
    BY <2>1 DEF Forecast, KeptInProgress, Doomed, Agrees, Predicted, InProgress
  <2>3. Foretold(k)'
    BY <2>1, <2>2 DEF PlanInv, Foretold, InTransaction, At
  <2>4. Isolated(k)'
    BY <2>1, <2>2 DEF PlanInv, Isolated, InTransaction, At, Planned
  <2>5. SkySince(k)'
    BY <2>1, <2>2 DEF PlanInv, SkySince, InProgress, Shows
  <2> QED BY <2>3, <2>4, <2>5
<1> QED BY <1>1, <1>2, <1>3 DEF PlanInv

\* COMMIT: the rows that stay and those inserted show the sky together (satellites.py).
LEMMA CommitShowsSky ==
  ASSUME TypeInv, ScheduleInv, PlanInv, NEW j \in Job, Commit(j), Undisturbed(j),
         NEW s \in jobs[j].stations,
         \A r \in rows' :
           r.station = s /\ InProgress(r, jobs[j].now) /\ r.job # j => Agrees(r, j),
         NEW t \in (jobs[j].now + 1)..(jobs[j].from + Horizon - 1)
  PROVE  t \in Sky[jobs[j].tle][s] <=> Shows(rows', s, t)
<1> DEFINE V == Sky[jobs[j].tle][s]
           now == jobs[j].now
           from == jobs[j].from
           kept == rows \ jobs[j].doomed
<1>1. /\ jobs[j].tle \in Epoch /\ jobs[j].stations \in SUBSET Station
      /\ from \in Nat /\ now \in Nat /\ from <= now
      /\ \A r \in rows : r.aos \in Nat /\ r.los \in Nat /\ r.job # j
      /\ Horizon \in Nat /\ KeepFor \in Nat
  BY Numbers DEF Commit, At, TypeInv, TypeOK, JobsOK, Row, PlanInv, Settled, Foretold,
       InTransaction
<1>2. /\ \A r \in Forecast(j) :
           /\ r.job = j /\ r.aos \in Nat /\ r.los \in Nat /\ from <= r.aos
           /\ \A u \in Nat : r.station = s /\ r.aos <= u /\ u < r.los => u \in V
      /\ \A u \in from..(from + Horizon - 1) : u \in V => Shows(Forecast(j), s, u)
  <2> DEFINE e == jobs[j].tle
             seen == jobs[j].stations
  <2>1. Forecast(j) = Predicted(j, e, seen, from)
    BY DEF Forecast
  <2>2. e \in Epoch /\ seen \in SUBSET Station /\ from \in Nat /\ s \in seen
    BY <1>1
  <2>3. V = Sky[e][s]
    OBVIOUS
  <2> HIDE DEF e, seen, from, V
  <2>4. /\ \A r \in Predicted(j, e, seen, from) :
             /\ r.job = j /\ r.station \in seen
             /\ r.aos \in Nat /\ r.los \in Nat /\ from <= r.aos /\ r.los <= from + Horizon
             /\ \A u \in Nat : r.aos <= u /\ u < r.los => u \in Sky[e][r.station]
        /\ \A z \in seen : \A u \in from..(from + Horizon - 1) :
             u \in Sky[e][z] => Shows(Predicted(j, e, seen, from), z, u)
    BY <2>2, ForecastIsSky, Zenon
  <2> QED BY <2>1, <2>2, <2>3, <2>4
<1>3. /\ rows' = kept \cup jobs[j].found
      /\ jobs[j].found = Planned(j)
      /\ kept = {r \in rows : r.aos <= now /\ now <= r.los + KeepFor}
  <2>1. jobs[j].doomed = Doomed(now) /\ jobs[j].found = Planned(j)
    BY DEF Commit, At, InTransaction, PlanInv, Isolated
  <2>2. kept = {r \in rows : r.aos <= now /\ now <= r.los + KeepFor}
    BY <1>1, <2>1 DEF Doomed
  <2> QED BY <2>1, <2>2 DEF Commit
<1>4. t \in Nat /\ now < t /\ from < t /\ t \in from..(from + Horizon - 1)
  BY <1>1
<1>5. ASSUME NEW r \in kept, r.station = s, t < r.los
      PROVE  t \in V
  <2>1. InProgress(r, now) /\ r \in rows' /\ r.job # j
    BY <1>1, <1>3, <1>4, <1>5 DEF InProgress
  <2>2. Agrees(r, j)
    BY <1>5, <2>1
  <2>3. t \in now..r.los
    BY <1>1, <1>3, <1>4, <1>5
  <2> QED BY <1>5, <2>2, <2>3 DEF Agrees
<1>6. Shows(rows', s, t) => t \in V
  <2> SUFFICES ASSUME NEW r \in rows', r.station = s, r.aos <= t, t < r.los
               PROVE  t \in V
    BY DEF Shows
  <2>1. CASE r \in kept
    BY <1>5, <2>1
  <2>2. CASE r \in jobs[j].found
    <3>1. r \in Forecast(j)
      BY <1>3, <2>2 DEF Planned
    <3> QED BY <1>2, <1>4, <3>1
  <2> QED BY <1>3, <2>1, <2>2
<1>7. t \in V => Shows(rows', s, t)
  <2> SUFFICES ASSUME t \in V PROVE Shows(rows', s, t)
    OBVIOUS
  <2>1. PICK p \in Forecast(j) : p.station = s /\ p.aos <= t /\ t < p.los
    BY <1>2, <1>4 DEF Shows
  <2>2. CASE p \in Planned(j)
    BY <1>3, <2>1, <2>2 DEF Shows
  <2>3. CASE p \notin Planned(j)
    <3>1. s \in KeptInProgress(j) /\ p.aos <= from
      BY <2>1, <2>3 DEF Planned
    <3>2. PICK x \in kept : x.station = s /\ InProgress(x, now)
      BY <3>1 DEF KeptInProgress
    <3>3. Agrees(x, j) /\ x \in rows' /\ x.aos \in Nat /\ x.los \in Nat
          /\ x.aos <= now /\ now < x.los
      BY <1>1, <1>3, <3>2 DEF InProgress
    <3>4. x.los \notin V
      <4>1. x.los \in now..x.los /\ ~(x.los < x.los)
        BY <1>1, <3>3
      <4> QED BY <3>2, <3>3, <4>1 DEF Agrees
    <3>5. t < x.los
      <4> SUFFICES ASSUME x.los <= t PROVE FALSE
        BY <1>4, <3>3
      <4>1. p.aos \in Nat /\ p.los \in Nat /\ p.aos <= x.los /\ x.los < p.los
        BY <1>1, <1>2, <1>4, <2>1, <3>1, <3>3
      <4>2. x.los \in V
        BY <1>2, <2>1, <3>3, <4>1
      <4> QED BY <3>4, <4>2
    <3>6. x.aos <= t
      BY <1>1, <1>4, <3>3
    <3> QED BY <3>2, <3>3, <3>5, <3>6 DEF Shows
  <2> QED BY <2>2, <2>3
<1> QED BY <1>6, <1>7

\* A recomputation is queued (satellites.py, satnogs.py, celestrak.py).
LEMMA QueueKeepsPlan ==
  ASSUME TypeInv, PlanInv, NEW j \in Job, NEW e, Queue(j, e), UNCHANGED <<rows, newest, rivals>>
  PROVE  PlanInv'
<1>1. jobs \in [Job -> JobType] /\ jobs[j].pc = "none"
  BY DEF TypeInv, Queue, At
<1>2. jobs'[j].pc = "stations" /\ \A k \in Job \ {j} : jobs'[k] = jobs[k]
  BY <1>1 DEF Queue, Goes, NotStarted
<1>3. Foretold(j)' /\ Isolated(j)'
  BY <1>2 DEF Foretold, Isolated, InTransaction, At
<1> QED BY <1>1, <1>2, <1>3, OneJobMoves DEF At

\* Handlers that start no recomputation leave all of them alone.
LEMMA NoJobMoves ==
  ASSUME PlanInv, UNCHANGED <<rows, newest, rivals, jobs>>
  PROVE  PlanInv'
  BY DEF PlanInv, Settled, Foretold, Isolated, SkySince, InTransaction, At, Undisturbed,
         Forecast, Predicted, Planned, KeptInProgress, InProgress, Doomed, Agrees, Shows

\* Every step of a handler, a recomputation or the refresher.
LEMMA StepKeepsPlan ==
  ASSUME TypeInv, ScheduleInv, PlanInv, [Next]_vars
  PROVE  PlanInv'
<1>0. /\ jobs \in [Job -> JobType] /\ clock \in Nat
      /\ \A j \in Job : jobs[j].from \in 0..clock
  BY DEF TypeInv, TypeOK, JobsOK
<1>1. ASSUME NEW j \in Job, Predict(j) PROVE PlanInv'
  <2>1. /\ jobs[j].pc = "stations" /\ jobs[j] \in JobType
        /\ UNCHANGED <<rows, newest, rivals>>
    BY <1>0, <1>1 DEF Predict, At, tables, history
  <2>2. CASE stations = {}
    <3>1. jobs'[j].pc = "done" /\ \A k \in Job \ {j} : jobs'[k] = jobs[k]
      <4>1. jobs' = [jobs EXCEPT ![j] = [jobs[j] EXCEPT !.pc = "done", !.doomed = {},
                                           !.found = {}]]
        BY <1>1, <2>2 DEF Predict, Ends, Goes
      <4> QED BY <1>0, <2>1, <4>1 DEF JobType
    <3>2. Foretold(j)' /\ Isolated(j)'
      BY <3>1 DEF Foretold, Isolated, InTransaction, At
    <3> QED BY <2>1, <3>1, <3>2, OneJobMoves DEF At
  <2>3. CASE stations # {}
    <3>1. /\ jobs'[j].pc = "delete" /\ \A k \in Job \ {j} : jobs'[k] = jobs[k]
          /\ jobs'[j].tle = jobs[j].tle /\ jobs'[j].stations = stations
          /\ jobs'[j].from = clock
          /\ jobs'[j].found = Predicted(j, jobs[j].tle, stations, clock)
      <4> DEFINE found == Predicted(j, jobs[j].tle, stations, clock)
      <4>1. jobs' = [jobs EXCEPT ![j] = [jobs[j] EXCEPT !.pc = "delete", !.stations = stations,
                                           !.from = clock, !.found = found]]
        BY <1>1, <2>3 DEF Predict, Goes
      <4> HIDE DEF found
      <4>2. /\ jobs'[j].pc = "delete" /\ \A k \in Job \ {j} : jobs'[k] = jobs[k]
            /\ jobs'[j].tle = jobs[j].tle /\ jobs'[j].stations = stations
            /\ jobs'[j].from = clock /\ jobs'[j].found = found
        BY <1>0, <2>1, <4>1 DEF JobType
      <4> QED BY <4>2 DEF found
    <3>2. jobs'[j].found = Forecast(j)'
      BY <3>1 DEF Forecast, Predicted
    <3>3. Foretold(j)' /\ Isolated(j)'
      BY <3>1, <3>2 DEF Foretold, Isolated, InTransaction, At
    <3> QED BY <2>1, <3>1, <3>3, OneJobMoves DEF At
  <2> QED BY <2>2, <2>3
<1>2. ASSUME NEW j \in Job, Delete(j) PROVE PlanInv'
  <2>1. /\ jobs[j].pc = "delete" /\ jobs[j] \in JobType
        /\ UNCHANGED <<clock, rows, newest>> /\ rivals \subseteq rivals'
    BY <1>0, <1>2 DEF Delete, At, tables
  <2>2. /\ jobs'[j].pc = "wait" /\ \A k \in Job \ {j} : jobs'[k] = jobs[k]
        /\ jobs'[j].tle = jobs[j].tle /\ jobs'[j].stations = jobs[j].stations
        /\ jobs'[j].from = jobs[j].from /\ jobs'[j].found = jobs[j].found
        /\ jobs'[j].now = clock /\ jobs'[j].doomed = Doomed(clock)
    BY <1>0, <1>2, <2>1 DEF Delete, Goes, JobType
  <2>3. jobs[j].found = Forecast(j) /\ Forecast(j)' = Forecast(j)
    BY <2>1, <2>2 DEF PlanInv, Foretold, Forecast, Predicted
  <2>4. Foretold(j)'
    BY <1>0, <2>2, <2>3 DEF Foretold, InTransaction, At
  <2>5. Doomed(clock) = Doomed(jobs[j].now)'
    BY <2>1, <2>2 DEF Doomed
  <2>6. Isolated(j)'
    BY <2>2, <2>5 DEF Isolated, InTransaction, At
  <2> QED BY <2>1, <2>2, <2>4, <2>6, OneJobMoves DEF At
<1>3. ASSUME NEW j \in Job, DropCopies(j) PROVE PlanInv'
  <2>1. /\ jobs[j].pc = "wait" /\ jobs[j] \in JobType
        /\ UNCHANGED <<rows, newest, rivals>>
    BY <1>0, <1>3 DEF DropCopies, At, tables, history
  <2>2. /\ jobs'[j].pc = "insert" /\ \A k \in Job \ {j} : jobs'[k] = jobs[k]
        /\ jobs'[j].tle = jobs[j].tle /\ jobs'[j].stations = jobs[j].stations
        /\ jobs'[j].from = jobs[j].from /\ jobs'[j].now = jobs[j].now
        /\ jobs'[j].doomed = jobs[j].doomed /\ jobs'[j].found = Fresh(j)
    BY <1>0, <1>3, <2>1 DEF DropCopies, Goes, JobType
  <2>3. jobs[j].found = Forecast(j) /\ Foretold(j)'
    BY <2>1, <2>2 DEF PlanInv, Foretold, InTransaction, At
  <2>4. Fresh(j) = Planned(j)
    BY <2>3 DEF Fresh, Planned
  <2>5. /\ Forecast(j)' = Forecast(j) /\ KeptInProgress(j)' = KeptInProgress(j)
        /\ Doomed(jobs[j].now)' = Doomed(jobs[j].now)
    BY <2>1, <2>2 DEF Forecast, Predicted, KeptInProgress, InProgress, Doomed
  <2>6. Planned(j)' = Planned(j)
    BY <2>2, <2>5 DEF Planned
  <2>7. Isolated(j)'
    BY <2>1, <2>2, <2>4, <2>5, <2>6 DEF PlanInv, Isolated, Undisturbed, InTransaction, At
  <2> QED BY <2>1, <2>2, <2>3, <2>7, OneJobMoves DEF At
<1>4. ASSUME NEW j \in Job, Commit(j) PROVE PlanInv'
  <2>1. /\ jobs[j].pc = "insert" /\ jobs[j] \in JobType /\ UNCHANGED rivals /\ newest' = j
        /\ rows' = (rows \ jobs[j].doomed) \cup jobs[j].found
    BY <1>0, <1>4 DEF Commit, At
  <2>2. /\ jobs'[j].pc = "done" /\ \A k \in Job \ {j} : jobs'[k] = jobs[k]
        /\ jobs'[j].tle = jobs[j].tle /\ jobs'[j].stations = jobs[j].stations
        /\ jobs'[j].from = jobs[j].from /\ jobs'[j].now = jobs[j].now
    BY <1>0, <1>4, <2>1 DEF Commit, Ends, Goes, JobType
  <2>3. Settled'
    <3>1. \A r \in rows : r.job \in Job
      BY DEF TypeInv, TypeOK, Row
    <3> QED BY <2>1, <2>2, <3>1 DEF PlanInv, Settled, ScheduleInv, OwnRows, At
  <2>4. Foretold(j)' /\ Isolated(j)'
    BY <2>2 DEF Foretold, Isolated, InTransaction, At
  <2>5. SkySince(j)'
    <3>1. \A r : InProgress(r, jobs[j].now)' <=> InProgress(r, jobs[j].now)
      BY <2>2 DEF InProgress
    <3>2. \A r : Agrees(r, j)' <=> Agrees(r, j)
      BY <2>2 DEF Agrees
    <3>3. \A s, t : Shows(rows, s, t)' <=> Shows(rows', s, t)
      BY DEF Shows
    <3> SUFFICES ASSUME Undisturbed(j)', NEW s \in jobs[j].stations,
                        \A r \in rows' : r.station = s /\ InProgress(r, jobs[j].now)
                                         /\ r.job # j => Agrees(r, j),
                        NEW t \in (jobs[j].now + 1)..(jobs[j].from + Horizon - 1)
                 PROVE  t \in Sky[jobs[j].tle][s] <=> Shows(rows', s, t)
      BY <2>2, <3>1, <3>2, <3>3 DEF SkySince
    <3>4. Undisturbed(j)
      BY <2>1 DEF Undisturbed
    <3> QED BY <1>4, <3>4, CommitShowsSky
  <2>6. ASSUME NEW k \in Job \ {j} PROVE Foretold(k)' /\ Isolated(k)' /\ SkySince(k)'
    <3>1. Forecast(k)' = Forecast(k)
      BY <2>2 DEF Forecast, Predicted
    <3>2. Foretold(k)'
      BY <2>2, <3>1 DEF PlanInv, Foretold, InTransaction, At
    <3>3. InTransaction(k) => {j, k} \in rivals
      BY <2>1 DEF ScheduleInv, Overlapping, InTransaction, At
    <3>4. InTransaction(k)' => ~Undisturbed(k)'
      <4>1. {k, j} = {j, k}
        OBVIOUS
      <4> QED BY <2>1, <2>2, <3>3, <4>1 DEF Undisturbed, InTransaction, At
    <3>5. Isolated(k)'
      BY <3>4 DEF Isolated, InTransaction
    <3>6. SkySince(k)'
      BY <2>1 DEF SkySince
    <3> QED BY <3>2, <3>5, <3>6
  <2> QED BY <2>3, <2>4, <2>5, <2>6 DEF PlanInv
<1>5. ASSUME NEW j \in Job, Fails(j) PROVE PlanInv'
  <2>1. /\ jobs[j].pc # "done" /\ UNCHANGED <<rows, newest, rivals>>
        /\ jobs'[j].pc = "done" /\ \A k \in Job \ {j} : jobs'[k] = jobs[k]
    BY <1>0, <1>5 DEF Fails, Goes, NotStarted, tables, history
  <2>2. Foretold(j)' /\ Isolated(j)'
    BY <2>1 DEF Foretold, Isolated, InTransaction, At
  <2> QED BY <2>1, <2>2, OneJobMoves DEF At
<1>6. ASSUME NEW j \in Job, NEW e \in Epoch, StoreTle(e, j) PROVE PlanInv'
  BY <1>6, QueueKeepsPlan DEF StoreTle, history
<1>7. ASSUME NEW j \in Job, RecomputeAfterImport(j) PROVE PlanInv'
  BY <1>7, QueueKeepsPlan, NoJobMoves DEF RecomputeAfterImport, tables, history
<1>8. ASSUME NEW j \in Job, StoreFetched(j) PROVE PlanInv'
  BY <1>8, QueueKeepsPlan DEF StoreFetched, history
<1>9. ASSUME NEW S \in SUBSET Station, ImportStations(S) PROVE PlanInv'
  BY <1>9, NoJobMoves DEF ImportStations, history
<1>10. ASSUME NEW s \in Station, CreateStation(s) \/ DeleteStation(s) PROVE PlanInv'
  BY <1>10, NoJobMoves DEF CreateStation, DeleteStation, history
<1>11. CASE StartCycle \/ EndCycle \/ Tick
  BY <1>11, NoJobMoves DEF StartCycle, EndCycle, Tick, tables, history
<1>12. ASSUME NEW e \in Epoch, FetchTle(e) PROVE PlanInv'
  BY <1>12, NoJobMoves DEF FetchTle, tables, history
<1>13. CASE UNCHANGED vars
  BY <1>13, NoJobMoves DEF vars, tables, history
<1> QED
  BY <1>1, <1>2, <1>3, <1>4, <1>5, <1>6, <1>7, <1>8, <1>9, <1>10, <1>11, <1>12, <1>13 DEF Next

\* After a recomputation that no other transaction overlapped, the schedule shows at every
\* later instant what its TLE shows over the stations it knew, unless it kept a pass in
\* progress that its TLE sees otherwise (satellites.py:219, passes.py:103).
THEOREM SkyIsScheduled == Spec => []ScheduleIsSky
<1>1. Init => PlanInv
  <2> SUFFICES ASSUME Init PROVE PlanInv
    OBVIOUS
  <2>1. /\ rows = {} /\ newest = NoJob /\ NoJob \notin Job
        /\ \A j \in Job : jobs[j].pc = "none"
    BY JobAssumption DEF Init, NotStarted
  <2> QED BY <2>1 DEF PlanInv, Settled, Foretold, Isolated, SkySince, InTransaction, At
<1>2. TypeInv /\ ScheduleInv /\ PlanInv /\ [Next]_vars => PlanInv'
  BY StepKeepsPlan
<1>3. TypeInv /\ PlanInv => ScheduleIsSky
  <2> SUFFICES ASSUME TypeInv, PlanInv, NEW j \in Job, NEW s \in jobs[j].stations,
                      j = newest, Undisturbed(j),
                      \A r \in rows : r.station = s /\ InProgress(r, jobs[j].now) /\ r.job # j
                                      => Agrees(r, j),
                      NEW t \in (clock + 1)..(jobs[j].from + Horizon - 1)
               PROVE  t \in Sky[jobs[j].tle][s] <=> Shows(rows, s, t)
    BY DEF ScheduleIsSky, Shows
  <2>1. /\ jobs[j].now \in Nat /\ jobs[j].from \in Nat /\ clock \in Nat
        /\ jobs[j].now <= clock /\ Horizon \in Nat
    BY Numbers DEF TypeInv, TypeOK, JobsOK
  <2>2. t \in (jobs[j].now + 1)..(jobs[j].from + Horizon - 1)
    BY <2>1
  <2> QED BY <2>2 DEF PlanInv, SkySince
<1> QED BY <1>1, <1>2, <1>3, ScheduleInvariant, PTL DEF Spec
=============================================================================
