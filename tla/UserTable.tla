------------------------------ MODULE UserTable -----------------------------
(***************************************************************************)
(* The users table as the session and administration handlers see it: role *)
(* (api/rbac.py), active flag and token_version, and the UPDATEs several   *)
(* handlers share.  Rows are created and never deleted.                    *)
(***************************************************************************)
EXTENDS Naturals

CONSTANTS
  User,
  MaxVersion    \* bound: how often the sessions of one user are ended

ASSUME VersionAssumption == MaxVersion \in Nat

VARIABLES role, active, version

accounts == <<role, active, version>>

Role == {"viewer", "operator", "admin"}
Absent == "absent"                       \* no row
Rank == [viewer |-> 0, operator |-> 1, admin |-> 2]

HasRole(minimum, r) == r \in Role /\ Rank[r] >= Rank[minimum]

AccountsOK ==
  /\ role \in [User -> Role \cup {Absent}]
  /\ active \in [User -> BOOLEAN]
  /\ version \in [User -> 0..MaxVersion]

ActiveAdmins(r, a) == {u \in User : r[u] = "admin" /\ a[u]}

EndAllSessions(u) ==
  /\ version[u] < MaxVersion
  /\ version' = [version EXCEPT ![u] = @ + 1]

\* Mutant: the role is changed and the sessions are left alone.
SetRoleOnly(u, r) == role' = [role EXCEPT ![u] = r] /\ UNCHANGED <<active, version>>

SetRole(u, r) ==
  /\ role' = [role EXCEPT ![u] = r]
  /\ IF role[u] # r THEN EndAllSessions(u) ELSE UNCHANGED version
  /\ UNCHANGED active

SetActive(u, b) ==
  /\ active' = [active EXCEPT ![u] = b]
  /\ IF b THEN UNCHANGED version ELSE EndAllSessions(u)
  /\ UNCHANGED role
=============================================================================
