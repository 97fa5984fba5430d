---------------------------- MODULE PassSchedule ----------------------------
(***************************************************************************)
(* TLEs and the pass schedule of one satellite: uploads and SatNOGS syncs  *)
(* (api/routes/satellites.py, satnogs.py), the Celestrak refresher         *)
(* (ingestion/celestrak.py), stations (stations.py, satnogs.py), and the   *)
(* recomputations they all start, several of which may run at once.        *)
(*                                                                         *)
(* A recomputation reads the stations, predicts in a thread, and replaces  *)
(* the schedule in one read-committed transaction: its DELETE works on the *)
(* rows committed when it starts, and waits for a transaction that is      *)
(* deleting one of them.  A TLE is known by its epoch.                     *)
(***************************************************************************)
EXTENDS Naturals, FiniteSets

CONSTANTS
  Station,
  Job,        \* recomputations
  NoJob,
  Sky,        \* Sky[e][s]: when TLE e shows the satellite above station s
  Horizon,    \* 48 hours
  KeepFor,    \* 7 days
  MinAge,     \* min_tle_age_hours
  MaxClock    \* bound

Epoch == DOMAIN Sky

ASSUME HorizonAssumption == {Horizon, KeepFor, MinAge, MaxClock} \subseteq Nat /\ MaxClock > 0
ASSUME SkyAssumption ==
  /\ Epoch \subseteq Nat \ {0}
  /\ Sky \in [Epoch -> [Station -> SUBSET Nat]]
ASSUME JobAssumption == NoJob \notin Job

VARIABLES
  clock,
  tles,        \* tle_history
  stations,    \* active ground stations
  rows,        \* pass_schedule; which job inserted a row is no column
  jobs,
  importing,   \* stations were imported, the recomputation is yet to be queued
  refresher,   \* what the Celestrak refresher is about to do
  rivals,      \* pairs of jobs whose transactions overlapped
  newest       \* the job that committed last

tables == <<tles, stations, rows>>
history == <<rivals, newest>>
vars == <<clock, tables, jobs, importing, refresher, history>>

Latest(S) == CHOOSE e \in S : \A f \in S : f <= e
Earliest(S) == CHOOSE t \in S : \A u \in S : t <= u

NotStarted == [pc |-> "none", tle |-> 0, stations |-> {}, from |-> 0, now |-> 0,
               doomed |-> {}, found |-> {}]

-----------------------------------------------------------------------------
(* predict_passes_multi: one sweep over the horizon. *)

Los(visible, aos, end) == Earliest({t \in (aos + 1)..end : t \notin visible} \cup {end})

PassesOver(visible, start, end) ==
  {[aos |-> a, los |-> Los(visible, a, end)] :
     a \in {t \in start..end : t \in visible /\ (t = start \/ t - 1 \notin visible)}}

\* The rows job j would insert when it predicts from an instant on.
Predicted(j, tle, seen, from) ==
  UNION {{[job |-> j, station |-> s, aos |-> p.aos, los |-> p.los] :
            p \in PassesOver(Sky[tle][s], from, from + Horizon)} : s \in seen}

InProgress(row, now) == row.aos <= now /\ row.los > now

-----------------------------------------------------------------------------
Row == [job : Job, station : Station, aos : Nat, los : Nat]

JobsOK ==
  \A j \in Job :
    /\ jobs[j].pc \in {"none", "stations", "delete", "wait", "insert", "done"}
    /\ jobs[j].pc # "none" => jobs[j].tle \in Epoch
    /\ jobs[j].stations \subseteq Station
    /\ jobs[j].from \in 0..clock /\ jobs[j].now \in 0..clock
    /\ jobs[j].doomed \subseteq Row /\ jobs[j].found \subseteq Row
TypeOK ==
  /\ clock \in 1..MaxClock
  /\ tles \subseteq Epoch
  /\ stations \subseteq Station
  /\ rows \subseteq Row /\ \A r \in rows : r.aos <= r.los
  /\ JobsOK
  /\ importing \in BOOLEAN
  /\ refresher \in [pc : {"sleep", "fetch", "store", "compute"}, tle : Epoch \cup {0},
                    job : Job \cup {NoJob}]
  /\ newest \in Job \cup {NoJob}

\* Some stations have been created, no TLE is known.
Init ==
  /\ clock = 1
  /\ tles = {}
  /\ stations \in SUBSET Station
  /\ rows = {}
  /\ jobs = [j \in Job |-> NotStarted]
  /\ importing = FALSE
  /\ refresher = [pc |-> "sleep", tle |-> 0, job |-> NoJob]
  /\ rivals = {}
  /\ newest = NoJob

Goes(j, r) == jobs' = [jobs EXCEPT ![j] = r]
Proceeds(j, pc) == Goes(j, [jobs[j] EXCEPT !.pc = pc])
At(j, pc) == jobs[j].pc = pc
Ends(j) == Goes(j, [jobs[j] EXCEPT !.pc = "done", !.doomed = {}, !.found = {}])

Queue(j, tle) ==
  /\ At(j, "none")
  /\ Goes(j, [NotStarted EXCEPT !.pc = "stations", !.tle = tle])

-----------------------------------------------------------------------------
(* _compute_and_store_passes *)

\* The stations are read; the prediction from that instant on runs in a worker thread and
\* touches nothing others see.
Predict(j) ==
  /\ At(j, "stations")
  /\ IF stations = {}
       THEN Ends(j)
       ELSE Goes(j, [jobs[j] EXCEPT !.pc = "delete", !.stations = stations, !.from = clock,
                       !.found = Predicted(j, jobs[j].tle, stations, clock)])
  /\ UNCHANGED <<clock, tables, importing, refresher, history>>

InTransaction(j) == At(j, "wait") \/ At(j, "insert")

\* Mutants: AND instead of OR; every row of the satellite.
DoomedBoth(now) == {r \in rows : r.aos > now /\ r.los + KeepFor < now}
DoomedAll(now) == rows

\* What DELETE is after at NOW(): predictions, and what is older than a week.
Doomed(now) == {r \in rows : r.aos > now \/ r.los + KeepFor < now}

\* BEGIN, and DELETE finds the rows that are committed now.
Delete(j) ==
  /\ At(j, "delete")
  /\ Goes(j, [jobs[j] EXCEPT !.pc = "wait", !.now = clock, !.doomed = Doomed(clock)])
  /\ rivals' = rivals \cup {{j, k} : k \in {i \in Job : InTransaction(i)}}
  /\ UNCHANGED <<clock, tables, importing, refresher, newest>>

Blocked(j) ==
  \E k \in Job : At(k, "insert") /\ jobs[k].doomed \cap jobs[j].doomed \cap rows # {}

\* Stations whose pass in progress stays, as the transaction sees the table.
KeptInProgress(j) ==
  {r.station : r \in {x \in rows \ jobs[j].doomed : InProgress(x, jobs[j].now)}}

\* Mutant: a station with a pass in progress gets no passes at all.
FreshElsewhere(j) == {r \in jobs[j].found : r.station \notin KeptInProgress(j)}

Fresh(j) == {r \in jobs[j].found : ~(r.station \in KeptInProgress(j) /\ r.aos <= jobs[j].from)}

\* The rows are deleted, those in progress read and their new copies dropped.
DropCopies(j) ==
  /\ At(j, "wait")
  /\ ~Blocked(j)
  /\ Goes(j, [jobs[j] EXCEPT !.pc = "insert", !.found = Fresh(j)])
  /\ UNCHANGED <<clock, tables, importing, refresher, history>>

\* INSERT, if there is anything to insert, and COMMIT.
Commit(j) ==
  /\ At(j, "insert")
  /\ rows' = (rows \ jobs[j].doomed) \cup jobs[j].found
  /\ newest' = j
  /\ Ends(j)
  /\ UNCHANGED <<clock, tles, stations, importing, refresher, rivals>>

\* The prediction fails, the transaction does, or the process stops: nothing changes.
Fails(j) ==
  /\ jobs[j].pc \notin {"none", "done"}
  /\ Goes(j, [NotStarted EXCEPT !.pc = "done", !.tle = jobs[j].tle])
  /\ UNCHANGED <<clock, tables, importing, refresher, history>>

-----------------------------------------------------------------------------
(* Handlers *)

\* set_tle, or the sync with SatNOGS: the row, then a recomputation with that very TLE.
StoreTle(e, j) ==
  /\ tles' = tles \cup {e}
  /\ Queue(j, e)
  /\ UNCHANGED <<clock, stations, rows, importing, refresher, history>>

\* import_satnogs_stations: only if a station is new, passes are computed again.
ImportStations(S) ==
  /\ S \ stations # {}
  /\ ~importing
  /\ stations' = stations \cup S
  /\ importing' = TRUE
  /\ UNCHANGED <<clock, tles, rows, jobs, refresher, history>>

\* With the TLE of the latest epoch, if there is one.
RecomputeAfterImport(j) ==
  /\ importing
  /\ importing' = FALSE
  /\ IF tles = {} THEN UNCHANGED jobs ELSE Queue(j, Latest(tles))
  /\ UNCHANGED <<clock, tables, refresher, history>>

\* create_station and delete_station leave the schedule alone.
CreateStation(s) ==
  /\ s \notin stations
  /\ stations' = stations \cup {s}
  /\ UNCHANGED <<clock, tles, rows, jobs, importing, refresher, history>>

DeleteStation(s) ==
  /\ s \in stations
  /\ stations' = stations \ {s}
  /\ UNCHANGED <<clock, tles, rows, jobs, importing, refresher, history>>

-----------------------------------------------------------------------------
(* CelestrakRefresher._cycle *)

TooFresh == tles # {} /\ clock < Latest(tles) + MinAge

Refresher(r) == refresher' = r

\* A cycle starts with the latest epoch known; fresh enough, the satellite is skipped.
StartCycle ==
  /\ refresher.pc = "sleep"
  /\ ~TooFresh
  /\ Refresher([refresher EXCEPT !.pc = "fetch"])
  /\ UNCHANGED <<clock, tables, jobs, importing, history>>

\* Celestrak answers with some TLE, or not at all; an epoch that is known is left.
FetchTle(e) ==
  /\ refresher.pc = "fetch"
  /\ \/ e \notin tles /\ Refresher([refresher EXCEPT !.pc = "store", !.tle = e])
     \/ Refresher([refresher EXCEPT !.pc = "sleep"])
  /\ UNCHANGED <<clock, tables, jobs, importing, history>>

StoreFetched(j) ==
  /\ refresher.pc = "store"
  /\ tles' = tles \cup {refresher.tle}
  /\ Queue(j, refresher.tle)
  /\ Refresher([refresher EXCEPT !.pc = "compute", !.job = j])
  /\ UNCHANGED <<clock, stations, rows, importing, history>>

\* The cycle waits for its recomputation.
EndCycle ==
  /\ refresher.pc = "compute"
  /\ At(refresher.job, "done")
  /\ Refresher([pc |-> "sleep", tle |-> 0, job |-> NoJob])
  /\ UNCHANGED <<clock, tables, jobs, importing, history>>

Tick ==
  /\ clock < MaxClock
  /\ clock' = clock + 1
  /\ UNCHANGED <<tables, jobs, importing, refresher, history>>

-----------------------------------------------------------------------------
Next ==
  \/ \E j \in Job :
       \/ Predict(j) \/ Delete(j) \/ DropCopies(j) \/ Commit(j) \/ Fails(j)
       \/ \E e \in Epoch : StoreTle(e, j)
       \/ RecomputeAfterImport(j)
       \/ StoreFetched(j)
  \/ \E S \in SUBSET Station : ImportStations(S)
  \/ \E s \in Station : CreateStation(s) \/ DeleteStation(s)
  \/ StartCycle
  \/ \E e \in Epoch : FetchTle(e)
  \/ EndCycle
  \/ Tick

Spec == Init /\ [][Next]_vars

-----------------------------------------------------------------------------
\* The predictions in the schedule are those of the recomputation that committed last,
\* but for what a transaction overlapping with it inserted behind its back
\* (satellites.py:258).
FreshSchedule ==
  \A r \in rows : r.aos > clock => r.job = newest \/ {r.job, newest} \in rivals

\* A pass that has begun stays in the schedule for a week, whatever TLE comes in; a
\* transaction that began before the pass is the only one to take it (satellites.py:260).
BegunPassesStay ==
  [][\A r \in rows \ rows' :
       (r.aos <= clock /\ clock <= r.los + KeepFor) => jobs[newest'].now < r.aos]_vars

Undisturbed(j) == \A k \in Job \ {j} : {j, k} \notin rivals

\* Job j's TLE shows the rest of the pass r as r itself does.
Agrees(r, j) == \A t \in jobs[j].now..r.los : t \in Sky[jobs[j].tle][r.station] <=> t < r.los

\* After a recomputation that no other transaction overlapped, the schedule shows at every
\* later instant what its TLE shows over the stations it knew, unless it kept a pass in
\* progress that its TLE sees otherwise (satellites.py:219, passes.py:103).
ScheduleIsSky ==
  \A j \in Job : \A s \in jobs[j].stations :
    /\ j = newest /\ Undisturbed(j)
    /\ \A r \in rows :
         r.station = s /\ InProgress(r, jobs[j].now) /\ r.job # j => Agrees(r, j)
    => \A t \in (clock + 1)..(jobs[j].from + Horizon - 1) :
         t \in Sky[jobs[j].tle][s]
           <=> \E r \in rows : r.station = s /\ r.aos <= t /\ t < r.los
=============================================================================
