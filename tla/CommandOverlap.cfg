\* One command, two nodes whose background services overlap, two PATCH requests at a time,
\* during a pass.  A finished command leaves nothing to do: the run may stop.
SPECIFICATION Spec
CONSTANTS
  sat = sat
  admin1 = admin1
  admin2 = admin2
  oper = oper
  Command = {c1}
  Satellite = {sat}
  Admin = {admin1, admin2}
  Operator = {oper}
  NoUser = NoUser
  Request <- CriticalRequests
  NoRequest = NoRequest
  Node = {n1, n2}
  NoCommand = NoCommand
  Session = {p1, p2}
  NoPatch = NoPatch
  Reading = {"nominal"}
  Sky <- InPass
  MaxRetries = 1
  BatchLimit = 50
  PublishMayLie = FALSE
SYMMETRY AnyOrder
INVARIANTS TwoAdminRule UnsafeSentOnce RetryBudget
PROPERTIES ImplementsLifecycle
CHECK_DEADLOCK FALSE
