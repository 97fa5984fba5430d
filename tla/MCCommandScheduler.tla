------------------------ MODULE MCCommandScheduler -------------------------
(***************************************************************************)
(* Small instances of CommandScheduler: the requests users submit.         *)
(***************************************************************************)
EXTENDS CommandScheduler, TLC

CONSTANTS sat, admin1, admin2, oper

Req(type, by, safe, manual, priority) ==
  [type |-> type, sat |-> sat, by |-> by, safe |-> safe, manual |-> manual,
   priority |-> priority]

(* Both need a second admin.  One is of an unsafe type (although flagged    *)
(* safe) at a time set by hand, the other may be retried and waits for a   *)
(* pass.                                                                   *)
CriticalRequests ==
  { Req("separation", admin1, TRUE, TRUE, 5),
    Req("factory_reset", admin1, TRUE, FALSE, 5) }

(* The plain commands: retryable or not, planned by a pass or by hand, and  *)
(* one that the beacon mode denies and one that it admits.                 *)
PlainRequests ==
  { Req("ping", oper, TRUE, FALSE, 5),
    Req("ping", oper, FALSE, TRUE, 5),
    Req("mode_change", oper, TRUE, TRUE, 5) }

(* A pass is in progress, with time left.                                  *)
InPass == {[open |-> TRUE, next |-> "now"]}

(* Nodes and PATCH requests are interchangeable.                           *)
AnyOrder == Permutations(Node) \cup Permutations(Session)

============================================================================
