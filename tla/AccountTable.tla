---------------------------- MODULE AccountTable ----------------------------
(***************************************************************************)
(* What user administration promises about the users table, without        *)
(* requests, snapshots and starting processes: every change happens at     *)
(* once, on the table as it is.  The first row is Root's, the others are   *)
(* made while there is an active administrator, and an administrator is    *)
(* demoted or disabled only while another one stays.                       *)
(***************************************************************************)
EXTENDS UserTable

CONSTANT Root

Exists(u) == role[u] # Absent

TableInit ==
  /\ role = [u \in User |-> Absent]
  /\ active = [u \in User |-> TRUE]
  /\ version = [u \in User |-> 0]

Found ==
  /\ \A u \in User : ~Exists(u)
  /\ role' = [role EXCEPT ![Root] = "admin"]
  /\ UNCHANGED <<active, version>>

Join(u, r) ==
  /\ ~Exists(u) /\ ActiveAdmins(role, active) # {}
  /\ role' = [role EXCEPT ![u] = r]
  /\ UNCHANGED <<active, version>>

Dispensable(u) == role[u] = "admin" => ActiveAdmins(role, active) \ {u} # {}

(* With its role an account loses its sessions, unless the role is the old  *)
(* one; so it does when it is disabled.                                    *)
ChangeRole(u, r) ==
  /\ Exists(u) /\ (r = "admin" \/ Dispensable(u))
  /\ SetRole(u, r)

ChangeActive(u, b) ==
  /\ Exists(u) /\ (b \/ Dispensable(u))
  /\ SetActive(u, b)

LogOut(u) ==
  /\ Exists(u) /\ EndAllSessions(u)
  /\ UNCHANGED <<role, active>>

TableNext ==
  \/ Found
  \/ \E u \in User :
       \/ \E r \in Role : Join(u, r) \/ ChangeRole(u, r)
       \/ \E b \in BOOLEAN : ChangeActive(u, b)
       \/ LogOut(u)

TableSpec == TableInit /\ [][TableNext]_accounts
=============================================================================
