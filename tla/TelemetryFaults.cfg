\* One frame of a standing satellite and one of a satellite that comes and
\* goes, whose row Postgres refuses; two faults of any kind.
SPECIFICATION FairSpec
CONSTANTS
  big = big
  a = a
  b = b
  Frame = {f1, big}
  NoFrame = NoFrame
  Garbled = {}
  Unstorable = {big}
  Sat = {a, b}
  Standing = {a}
  SatOf <- Source
  BatchSize = 2
  QueueSize = 2
  MaxFaults = 2
  FaultKinds = {"bus", "database", "stall", "redis", "slow", "stop", "crash"}
INVARIANTS AckedAfterPublication AckedAfterWrite StandingHeard DuplicatesNeedFaults CacheAfterTable
PROPERTIES FramesArrive
