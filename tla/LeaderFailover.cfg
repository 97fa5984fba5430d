\* Two processes, two faults of any kind, and answers that are JSON but not objects.
SPECIFICATION FairSpec
CONSTANTS
  Node = {n1, n2}
  Nobody = Nobody
  Ghost = Ghost
  MaxFaults = 2
  OddAnswers = TRUE
INVARIANTS LossIsNoticed
PROPERTIES ExLeaderLeavesBus LeadershipSettles ImplementsLeadership
