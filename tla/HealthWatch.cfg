\* One monitor and one parameter.
SPECIFICATION HealthSpec
CONSTANTS
  Monitor = {m1}
  Schedules <- PassOrNone
  Grace = 0
  StaleAfter = 1
  MaxClock = 3
  MaxFaults = 1
  Key = {k1}
  Baseline = 2
  Cooldown = 2
INVARIANTS OneAlertPerMonitor NewerEvidence EventsMatchRows
PROPERTIES FaultIsRaised CriticalReported
