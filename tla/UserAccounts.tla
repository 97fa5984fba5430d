---------------------------- MODULE UserAccounts ----------------------------
(***************************************************************************)
(* Administration of accounts (api/routes/users.py) and the bootstrap of   *)
(* the first administrator by every API process (api/bootstrap.py).        *)
(*                                                                         *)
(* A request is authorised by the session query; its transaction runs      *)
(* later, by when its author may be an administrator no more.  Serializable*)
(* transactions are modelled by their snapshot: reads are answered from it,*)
(* and one whose reads are stale at its commit is rolled back (Postgres    *)
(* commits some of those, each with the effect of a serial order, which is *)
(* another behaviour here).  What bootstrap writes into its password file  *)
(* is left out: all processes of a deployment share one path.              *)
(***************************************************************************)
EXTENDS UserTable

CONSTANTS
  Request,    \* administrative requests being handled at the same time
  Node,       \* API processes
  Root        \* the user called "admin"

ASSUME RootAssumption == Root \in User

VARIABLES
  req,      \* what each request is about to do
  boot      \* what the start-up of each process is about to do

vars == <<accounts, req, boot>>

Op == Role \cup {"enable", "disable", "create"}
Idle == [pc |-> "idle"]
Demotions == {"viewer", "operator"}

TypeOK ==
  /\ AccountsOK
  /\ \A q \in Request : req[q] # Idle =>
       /\ req[q].pc \in {"authorised", "reading"}
       /\ req[q].target \in User /\ req[q].op \in Op
       /\ req[q].pc = "reading" =>
            /\ req[q].role \in [User -> Role \cup {Absent}]
            /\ req[q].role[req[q].target] # Absent
            /\ req[q].op # "create"
  /\ boot \in [Node -> {"count", "insert", "up"}]
  /\ \A u \in User : role[u] = Absent => active[u] /\ version[u] = 0

Init ==
  /\ role = [u \in User |-> Absent]
  /\ active = [u \in User |-> TRUE]       \* column defaults
  /\ version = [u \in User |-> 0]
  /\ req = [q \in Request |-> Idle]
  /\ boot = [n \in Node |-> "count"]

Goes(q, r) == req' = [req EXCEPT ![q] = r]

-----------------------------------------------------------------------------
(* Requests *)

\* The session of u is checked and require_role passed; nobody demotes or disables themselves.
Authorise(q, u, target, op) ==
  /\ req[q] = Idle
  /\ role[u] = "admin" /\ active[u]
  /\ target = u => op \notin Demotions \cup {"disable"}
  /\ Goes(q, [pc |-> "authorised", target |-> target, op |-> op])
  /\ UNCHANGED <<accounts, boot>>

\* INSERT, or 409 when the name is taken.
CreateUser(q) ==
  /\ req[q].pc = "authorised" /\ req[q].op = "create"
  /\ LET u == req[q].target IN
       IF role[u] = Absent
         THEN \E r \in Role : role' = [role EXCEPT ![u] = r]
         ELSE UNCHANGED role
  /\ Goes(q, Idle)
  /\ UNCHANGED <<active, version, boot>>

\* SELECT ... FOR UPDATE is the first statement and takes the snapshot; 404 if there is no row.
ReadTarget(q) ==
  /\ req[q].pc = "authorised" /\ req[q].op # "create"
  /\ IF role[req[q].target] = Absent
       THEN Goes(q, Idle)
       ELSE Goes(q, [pc |-> "reading", target |-> req[q].target, op |-> req[q].op,
                     role |-> role, active |-> active, ver |-> version[req[q].target]])
  /\ UNCHANGED <<accounts, boot>>

\* Whether the transaction goes on to count the administrators.
Counts(r) == r.role[r.target] = "admin" /\ r.op \in Demotions \cup {"disable"}

\* The administrators left, as the transaction sees them after its own UPDATE.
Left(r) == ActiveAdmins(r.role, r.active) \ {r.target}

TargetUnchanged(r) ==
  /\ role[r.target] = r.role[r.target] /\ active[r.target] = r.active[r.target]
  /\ version[r.target] = r.ver

\* Mutant: snapshot isolation, where only a concurrent write of the target counts.
SnapshotOnly(r) == TargetUnchanged(r)

\* The rows read, the target's or all of them, are still current.
Serialises(r) ==
  /\ TargetUnchanged(r)
  /\ Counts(r) => role = r.role /\ active = r.active

Apply(u, op) ==
  CASE op \in Role     -> SetRole(u, op)
    [] op = "enable"   -> SetActive(u, TRUE)
    [] op = "disable"  -> SetActive(u, FALSE)

Commit(q) ==
  /\ req[q].pc = "reading"
  /\ Serialises(req[q])
  /\ Counts(req[q]) => Left(req[q]) # {}
  /\ Apply(req[q].target, req[q].op)
  /\ Goes(q, Idle)
  /\ UNCHANGED boot

\* 400, the last administrator, or a serialization failure: the transaction leaves nothing.
RollBack(q) ==
  /\ req[q].pc = "reading"
  /\ ~Serialises(req[q]) \/ (Counts(req[q]) /\ Left(req[q]) = {})
  /\ Goes(q, Idle)
  /\ UNCHANGED <<accounts, boot>>

\* A replayed refresh token or a password change ends the sessions of u (AuthSessions).
SessionsEnd(u) ==
  /\ role[u] # Absent
  /\ EndAllSessions(u)
  /\ UNCHANGED <<role, active, req, boot>>

-----------------------------------------------------------------------------
(* Bootstrap *)

Booting(n, pc) == boot' = [boot EXCEPT ![n] = pc]

\* If the file with the password cannot be written the process does not start.
CountAdmins(n) ==
  /\ boot[n] = "count"
  /\ Booting(n, IF ActiveAdmins(role, active) = {} THEN "insert" ELSE "up")
  /\ UNCHANGED <<accounts, req>>

\* INSERT ... ON CONFLICT (username) DO NOTHING.
InsertRoot(n) ==
  /\ boot[n] = "insert"
  /\ IF role[Root] = Absent
       THEN role' = [role EXCEPT ![Root] = "admin"]
       ELSE UNCHANGED role
  /\ Booting(n, "up")
  /\ UNCHANGED <<active, version, req>>

Restart(n) ==
  /\ boot[n] # "count"
  /\ Booting(n, "count")
  /\ UNCHANGED <<accounts, req>>

-----------------------------------------------------------------------------
Next ==
  \/ \E q \in Request :
       \/ \E u, target \in User, op \in Op : Authorise(q, u, target, op)
       \/ CreateUser(q) \/ ReadTarget(q) \/ Commit(q) \/ RollBack(q)
  \/ \E u \in User : SessionsEnd(u)
  \/ \E n \in Node :
       \/ CountAdmins(n) \/ InsertRoot(n) \/ Restart(n)

Spec == Init /\ [][Next]_vars

-----------------------------------------------------------------------------
HasAdmin == ActiveAdmins(role, active) # {}

\* Once there is an active administrator there always is one: not even two
\* administrators who demote or disable each other at the same time, each authorised
\* before, leave none (routes/users.py:109, :174).
AdminRemains == [][HasAdmin => HasAdmin']_vars

Table == INSTANCE AccountTable

\* Handlers that authorise first and read, change and commit later, and processes that
\* count first and found later, change the table as if each change were made at once
\* (routes/users.py:109, bootstrap.py:47).
ImplementsAccountTable == Table!TableSpec
=============================================================================
