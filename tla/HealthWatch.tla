----------------------------- MODULE HealthWatch ----------------------------
(***************************************************************************)
(* The two watchers of a satellite's health side by side: every packet the *)
(* writer stores is what the FDIR monitor reads from the table, and is fed *)
(* to the detector of the process (ingestion/writer.py).                   *)
(***************************************************************************)
EXTENDS FdirMonitor, AnomalyDetector

healthVars == <<vars, detectorVars>>

HealthOK == TypeOK /\ DetectorOK(0..MaxClock)

HealthInit == Init /\ DetectorInit

\* The row is committed, then the detector sees the packet.
Packet(f, k, z) == Insert(f) /\ Feed(k, z, clock)

\* Committed but not fed: the process stopped in between.
PacketUnfed(f) == Insert(f) /\ UNCHANGED detectorVars

HealthNext ==
  \/ \E f \in Frame, k \in Key, z \in Score : Packet(f, k, z)
  \/ \E f \in Frame : PacketUnfed(f)
  \/ /\ \/ \E m \in Monitor : MonitorStep(m) \/ PersistFails(m) \/ Abandon(m)
        \/ \E i \in Alert : Acknowledge(i)
        \/ Tick
     /\ UNCHANGED detectorVars
  \/ /\ NewDetector \/ \E k \in Key : Evict(k)
     /\ UNCHANGED vars

\* The loop of a monitor goes on after any exception.
Fairness == \A m \in Monitor : WF_healthVars(MonitorStep(m) /\ UNCHANGED detectorVars)

HealthSpec == HealthInit /\ [][HealthNext]_healthVars /\ Fairness

-----------------------------------------------------------------------------
\* A fault newer than every alert is reported when no alert is open, also when checks
\* fail or stop half way (monitor.py:175, :194).
FaultIsRaised == Unreported ~> ~Unreported

\* A critical reading has been reported as critical within the cooldown, whatever was
\* emitted, recovered or evicted before (detector.py:166).
CriticalReported ==
  [][\A k \in Key :
       (Feed(k, "critical", clock) /\ samples'[k] = Baseline) =>
         /\ last'[k].band = "critical"
         /\ clock - last'[k].at <= Cooldown]_healthVars
=============================================================================
