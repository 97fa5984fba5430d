----------------------------- MODULE Leadership ----------------------------
(***************************************************************************)
(* What leader election promises about the bus, without sessions,          *)
(* connections and subscriptions: a node's services are connected only     *)
(* while it acts as leader, a node becomes leader only while nobody else   *)
(* is in office, and gives its role up together with its last connection.  *)
(* An office can be taken away before its holder knows, so more than one   *)
(* node may act as leader; but none is elected again before it has left.   *)
(* What a node does to the database alone is no part of the contract.      *)
(***************************************************************************)
CONSTANTS Node, Nobody

VARIABLES
  office,     \* the node in office, or Nobody
  acting,     \* the nodes that take themselves for the leader
  connected   \* the nodes whose background services are on the bus

vars == <<office, acting, connected>>

Init == office = Nobody /\ acting = {} /\ connected = {}

Elect(n) ==
  /\ office = Nobody /\ n \notin acting
  /\ office' = n /\ acting' = acting \cup {n}
  /\ UNCHANGED connected

Attach(n) ==
  /\ n \in acting
  /\ connected' = connected \cup {n}
  /\ UNCHANGED <<office, acting>>

Detach(n) == connected' = connected \ {n} /\ UNCHANGED <<office, acting>>

(* A node ends its lead off the bus: it cleaned up, or crashed.            *)
Leave(n) ==
  /\ acting' = acting \ {n} /\ connected' = connected \ {n}
  /\ office' \in {office, Nobody}

(* The office falls vacant: its holder resigned, or was cut off.           *)
Vacate == office' = Nobody /\ UNCHANGED <<acting, connected>>

Next == Vacate \/ \E n \in Node : Elect(n) \/ Attach(n) \/ Detach(n) \/ Leave(n)

Spec == Init /\ [][Next]_vars

============================================================================
