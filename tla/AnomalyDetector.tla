-------------------------- MODULE AnomalyDetector ---------------------------
(***************************************************************************)
(* The anomaly detector (anomaly/detector.py) as the writer feeds it: per  *)
(* satellite and parameter a baseline, the active severity and the last    *)
(* severity emitted.  The z-score is floating-point arithmetic; a reading  *)
(* is the band its score falls in, and any band may follow any other.      *)
(***************************************************************************)
EXTENDS Naturals

CONSTANTS
  Key,        \* satellite and parameter
  Baseline,   \* readings a baseline takes (10)
  Cooldown    \* EMIT_COOLDOWN_S

ASSUME DetectorAssumption == Baseline \in Nat \ {0} /\ Cooldown \in Nat

VARIABLES
  samples,    \* readings in the window, up to Baseline
  severity,   \* _active
  last        \* _last_emit

detectorVars == <<samples, severity, last>>

Score == {"noise", "between", "warning", "critical"}
Rank == [none |-> 0, warning |-> 1, critical |-> 2]
Severity == DOMAIN Rank

DetectorOK(times) ==
  /\ samples \in [Key -> 0..Baseline]
  /\ severity \in [Key -> Severity]
  /\ last \in [Key -> [band : Severity, at : times]]

DetectorInit ==
  /\ samples = [k \in Key |-> 0]
  /\ severity = [k \in Key |-> "none"]
  /\ last = [k \in Key |-> [band |-> "none", at |-> 0]]

Window(k) == IF samples[k] < Baseline THEN samples[k] + 1 ELSE Baseline

\* Mutant: the cooldown is one for both severities.
OneCooldown(k, z, now) == last[k].band # "none" /\ now - last[k].at < Cooldown

InCooldown(k, z, now) == last[k].band = z /\ now - last[k].at < Cooldown

\* Escalation, or the heartbeat of the severity that is active; a lower one is silent.
Emits(k, z, now) == Rank[z] >= Rank[severity[k]] /\ ~InCooldown(k, z, now)

\* A reading with a baseline behind it.
Judged(k, z, now) ==
  \/ /\ z = "noise"
     /\ severity' = [severity EXCEPT ![k] = "none"]
     /\ UNCHANGED last
  \/ z = "between" /\ UNCHANGED <<severity, last>>
  \/ /\ z \in {"warning", "critical"}
     /\ severity' = [severity EXCEPT ![k] = IF Rank[z] > Rank[@] THEN z ELSE @]
     /\ last' = [last EXCEPT ![k] = IF Emits(k, z, now) THEN [band |-> z, at |-> now] ELSE @]

Feed(k, z, now) ==
  /\ samples' = [samples EXCEPT ![k] = Window(k)]
  /\ IF Window(k) = Baseline THEN Judged(k, z, now) ELSE UNCHANGED <<severity, last>>

\* Other keys push this one out of _stats; what is active and was emitted stays behind.
Evict(k) ==
  /\ samples[k] > 0
  /\ samples' = [samples EXCEPT ![k] = 0]
  /\ UNCHANGED <<severity, last>>

\* Another process takes over the writer, with a detector of its own.
NewDetector ==
  /\ samples' = [k \in Key |-> 0]
  /\ severity' = [k \in Key |-> "none"]
  /\ last' = [k \in Key |-> [band |-> "none", at |-> 0]]
=============================================================================
