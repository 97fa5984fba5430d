\* One node, no overrides: answers, windows and modes in full, and liveness.
SPECIFICATION FairSpec
CONSTANTS
  sat = sat
  admin1 = admin1
  admin2 = admin2
  oper = oper
  Command = {c1}
  Satellite = {sat}
  Admin = {admin1}
  Operator = {oper}
  NoUser = NoUser
  Request <- PlainRequests
  NoRequest = NoRequest
  Node = {n1}
  NoCommand = NoCommand
  Session = {}
  NoPatch = NoPatch
  Reading = {"nominal", "beacon", "unverified"}
  Sky <- Window
  MaxRetries = 1
  BatchLimit = 50
  PublishMayLie = FALSE
INVARIANTS AlwaysPlanned
PROPERTIES AnswersNotDropped SentResolves ScheduledMoves
