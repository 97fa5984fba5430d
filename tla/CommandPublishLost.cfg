\* A publish that failed may have reached the stream.
SPECIFICATION Spec
CONSTANTS
  sat = sat
  admin1 = admin1
  admin2 = admin2
  oper = oper
  Command = {c1}
  Satellite = {sat}
  Admin = {admin1, admin2}
  Operator = {oper}
  NoUser = NoUser
  Request <- CriticalRequests
  NoRequest = NoRequest
  Node = {n1}
  NoCommand = NoCommand
  Session = {}
  NoPatch = NoPatch
  Reading = {"nominal"}
  Sky <- Window
  MaxRetries = 1
  BatchLimit = 50
  PublishMayLie = TRUE
INVARIANTS UnsafeSentOnce
