\* Three recomputations, two TLEs, one station.
SPECIFICATION Spec
CONSTANTS
  s1 = s1
  j1 = j1
  j2 = j2
  j3 = j3
  Station = {s1}
  Job = {j1, j2, j3}
  NoJob = NoJob
  Sky <- TwoTles
  Horizon = 3
  KeepFor = 0
  MinAge = 1
  MaxClock = 3
SYMMETRY AnyJob
INVARIANTS FreshSchedule ScheduleIsSky
PROPERTIES BegunPassesStay
