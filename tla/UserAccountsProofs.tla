------------------------- MODULE UserAccountsProofs -------------------------
(***************************************************************************)
(* Theorems about UserAccounts, for every set of users, requests and       *)
(* processes.                                                              *)
(***************************************************************************)
EXTENDS UserAccounts, TLAPS

USE VersionAssumption, RootAssumption
USE DEF Role, Absent, Op, Demotions

\* A request that is not being handled (routes/users.py) has its own place.
LEMMA IdleFact == Idle.pc = "idle"
  BY DEF Idle

USE IdleFact

TypeInv == TypeOK /\ DOMAIN req = Request

\* What the UPDATE of one handler does to the table (routes/users.py:121, :172).
LEMMA ApplyTypes ==
  ASSUME AccountsOK, NEW u \in User, NEW op \in Op \ {"create"}, Apply(u, op)
  PROVE  /\ AccountsOK'
         /\ op \in Role => role' = [role EXCEPT ![u] = op] /\ active' = active
         /\ op = "enable" => role' = role /\ active' = [active EXCEPT ![u] = TRUE]
         /\ op = "disable" => role' = role /\ active' = [active EXCEPT ![u] = FALSE]
         /\ \A v \in User \ {u} : version'[v] = version[v]
<1>1. CASE op \in Role
  <2>1. SetRole(u, op)
    BY <1>1 DEF Apply
  <2> QED BY <1>1, <2>1 DEF SetRole, EndAllSessions, AccountsOK
<1>2. CASE op = "enable"
  <2>1. SetActive(u, TRUE)
    BY <1>2 DEF Apply
  <2> QED BY <1>2, <2>1 DEF SetActive, AccountsOK
<1>3. CASE op = "disable"
  <2>1. SetActive(u, FALSE)
    BY <1>3 DEF Apply
  <2> QED BY <1>3, <2>1 DEF SetActive, EndAllSessions, AccountsOK
<1> QED BY <1>1, <1>2, <1>3

\* The types, and that every request has its record.
LEMMA TypeInvariant == Spec => []TypeInv
<1>1. ASSUME Init PROVE TypeInv
  <2>1. AccountsOK
    BY <1>1 DEF Init, AccountsOK
  <2>2. \A q \in Request : req[q] = Idle
    BY <1>1 DEF Init
  <2>3. boot \in [Node -> {"count", "insert", "up"}]
    BY <1>1 DEF Init
  <2>4. \A u \in User : active[u] /\ version[u] = 0
    BY <1>1 DEF Init
  <2>5. DOMAIN req = Request
    BY <1>1 DEF Init
  <2> QED BY <2>1, <2>2, <2>3, <2>4, <2>5 DEF TypeInv, TypeOK
<1>2. TypeInv /\ [Next]_vars => TypeInv'
  <2> SUFFICES ASSUME TypeInv, [Next]_vars PROVE TypeInv'
    OBVIOUS
  <2> USE DEF TypeInv, TypeOK, Goes, Booting, accounts
  <2>1. ASSUME NEW q \in Request, NEW u \in User, NEW target \in User, NEW op \in Op,
               Authorise(q, u, target, op)
        PROVE  TypeInv'
    BY <2>1 DEF Authorise, AccountsOK
  <2>2. ASSUME NEW q \in Request, CreateUser(q) PROVE TypeInv'
    BY <2>2 DEF CreateUser, AccountsOK
  <2>3. ASSUME NEW q \in Request, ReadTarget(q) PROVE TypeInv'
    BY <2>3 DEF ReadTarget, AccountsOK
  <2>4. ASSUME NEW q \in Request, Commit(q) PROVE TypeInv'
    <3> DEFINE u == req[q].target
               op == req[q].op
    <3>1. /\ req[q].pc = "reading" /\ u \in User /\ op \in Op \ {"create"}
          /\ role[u] # Absent /\ Apply(u, op)
          /\ req' = [req EXCEPT ![q] = Idle] /\ UNCHANGED boot
      BY <2>4 DEF Commit, Serialises, TargetUnchanged
    <3>2. /\ AccountsOK'
          /\ role'[u] # Absent
          /\ \A v \in User \ {u} : /\ role'[v] = role[v] /\ active'[v] = active[v]
                                   /\ version'[v] = version[v]
      BY <3>1, ApplyTypes DEF AccountsOK
    <3> HIDE DEF u, op
    <3> QED BY <3>1, <3>2
  <2>5. ASSUME NEW q \in Request, RollBack(q) PROVE TypeInv'
    BY <2>5 DEF RollBack, AccountsOK
  <2>6. ASSUME NEW u \in User, SessionsEnd(u) PROVE TypeInv'
    BY <2>6 DEF SessionsEnd, EndAllSessions, AccountsOK
  <2>7. ASSUME NEW n \in Node, CountAdmins(n) PROVE TypeInv'
    BY <2>7 DEF CountAdmins, AccountsOK
  <2>8. ASSUME NEW n \in Node, InsertRoot(n) PROVE TypeInv'
    BY <2>8 DEF InsertRoot, AccountsOK
  <2>9. ASSUME NEW n \in Node, Restart(n) PROVE TypeInv'
    BY <2>9 DEF Restart, AccountsOK
  <2>10. CASE UNCHANGED vars
    BY <2>10 DEF vars, AccountsOK
  <2> QED
    BY <2>1, <2>2, <2>3, <2>4, <2>5, <2>6, <2>7, <2>8, <2>9, <2>10 DEF Next
<1> QED BY <1>1, <1>2, PTL DEF Spec

\* The accounts keep their types, a row that is read for an UPDATE exists, and no row
\* ever disappears from under the request that read it (routes/users.py, bootstrap.py).
THEOREM AccountsTypeCorrect == Spec => []TypeOK
  BY TypeInvariant, PTL DEF TypeInv

-----------------------------------------------------------------------------
(* The last administrator *)

\* Some administrator other than u stays one as long as only u's row changes.
LEMMA OtherAdmin ==
  ASSUME AccountsOK, NEW u \in User, ActiveAdmins(role, active) \ {u} # {},
         \A v \in User \ {u} : role'[v] = role[v] /\ active'[v] = active[v]
  PROVE  HasAdmin'
  BY DEF HasAdmin, ActiveAdmins

\* The transaction of a demotion or a disabling commits only on a table it has read
\* whole; any other leaves the administrators at least as they were.
LEMMA CommitKeepsAdmin ==
  ASSUME TypeInv, NEW q \in Request, Commit(q), HasAdmin
  PROVE  HasAdmin'
<1> DEFINE u == req[q].target
           op == req[q].op
<1>1. /\ u \in User /\ op \in Op \ {"create"} /\ Apply(u, op) /\ AccountsOK
      /\ role[u] = req[q].role[u]
  BY DEF Commit, TypeInv, TypeOK, Serialises, TargetUnchanged
<1>2. /\ op \in Role => role' = [role EXCEPT ![u] = op] /\ active' = active
      /\ op = "enable" => role' = role /\ active' = [active EXCEPT ![u] = TRUE]
      /\ op = "disable" => role' = role /\ active' = [active EXCEPT ![u] = FALSE]
  BY <1>1, ApplyTypes
<1>3. \A v \in User \ {u} : role'[v] = role[v] /\ active'[v] = active[v]
  BY <1>1, <1>2 DEF AccountsOK
<1>4. CASE Counts(req[q])
  <2>1. ActiveAdmins(role, active) \ {u} # {}
    BY <1>4 DEF Commit, Serialises, Left
  <2> QED BY <1>1, <1>3, <2>1, OtherAdmin
<1>5. CASE ~Counts(req[q])
  <2>1. role[u] # "admin" \/ op \in {"admin", "enable"}
    BY <1>1, <1>5 DEF Counts
  <2> HIDE DEF u, op
  <2>2. PICK v \in User : role[v] = "admin" /\ active[v]
    BY DEF HasAdmin, ActiveAdmins
  <2>3. role'[v] = "admin" /\ active'[v]
    BY <1>1, <1>2, <1>3, <2>1, <2>2 DEF AccountsOK
  <2> QED BY <2>2, <2>3 DEF HasAdmin, ActiveAdmins
<1> QED BY <1>4, <1>5

\* No step of a handler or of a starting process takes the last active administrator.
LEMMA StepKeepsAdmin ==
  ASSUME TypeInv, [Next]_vars, HasAdmin
  PROVE  HasAdmin'
<1> USE DEF TypeInv, TypeOK, AccountsOK, accounts, HasAdmin, ActiveAdmins
<1>1. ASSUME NEW q \in Request, NEW u \in User, NEW target \in User, NEW op \in Op,
             Authorise(q, u, target, op)
      PROVE  HasAdmin'
  BY <1>1 DEF Authorise
<1>2. ASSUME NEW q \in Request, CreateUser(q) PROVE HasAdmin'
  BY <1>2 DEF CreateUser
<1>3. ASSUME NEW q \in Request, ReadTarget(q) PROVE HasAdmin'
  BY <1>3 DEF ReadTarget
<1>4. ASSUME NEW q \in Request, Commit(q) PROVE HasAdmin'
  <2> HIDE DEF TypeInv, HasAdmin
  <2> QED BY <1>4, CommitKeepsAdmin
<1>5. ASSUME NEW q \in Request, RollBack(q) PROVE HasAdmin'
  BY <1>5 DEF RollBack
<1>6. ASSUME NEW u \in User, SessionsEnd(u) PROVE HasAdmin'
  BY <1>6 DEF SessionsEnd
<1>7. ASSUME NEW n \in Node, CountAdmins(n) PROVE HasAdmin'
  BY <1>7 DEF CountAdmins
<1>8. ASSUME NEW n \in Node, InsertRoot(n) PROVE HasAdmin'
  BY <1>8 DEF InsertRoot
<1>9. ASSUME NEW n \in Node, Restart(n) PROVE HasAdmin'
  BY <1>9 DEF Restart
<1>10. CASE UNCHANGED vars
  BY <1>10 DEF vars
<1> QED
  BY <1>1, <1>2, <1>3, <1>4, <1>5, <1>6, <1>7, <1>8, <1>9, <1>10 DEF Next

\* However many administrators act on each other at once, and however late their
\* transactions run, an active administrator is left (routes/users.py:109, :174).
THEOREM LastAdminStays == Spec => AdminRemains
<1>1. TypeInv /\ [Next]_vars => [HasAdmin => HasAdmin']_vars
  BY StepKeepsAdmin
<1> QED BY <1>1, TypeInvariant, PTL DEF Spec, AdminRemains

-----------------------------------------------------------------------------
(* The first administrator *)

\* There is no row before the administrator's, and from then on there is an administrator.
Founded ==
  /\ role[Root] = Absent =>
       /\ \A u \in User : role[u] = Absent
       /\ \A q \in Request : req[q] = Idle
  /\ role[Root] # Absent => HasAdmin

\* Requests come from an administrator, and so never before the first one (bootstrap.py).
LEMMA FoundedStep ==
  ASSUME TypeInv, [Next]_vars, Founded
  PROVE  Founded'
<1> USE DEF TypeInv, TypeOK, AccountsOK, Goes, Booting, accounts, Founded
<1>0. HasAdmin => HasAdmin'
  BY StepKeepsAdmin
<1>1. ASSUME NEW q \in Request, NEW u \in User, NEW target \in User, NEW op \in Op,
             Authorise(q, u, target, op)
      PROVE  Founded'
  BY <1>0, <1>1 DEF Authorise
<1>2. ASSUME NEW q \in Request, CreateUser(q) PROVE Founded'
  <2>1. role[Root] # Absent
    BY <1>2 DEF CreateUser
  <2> QED BY <1>0, <1>2, <2>1 DEF CreateUser
<1>3. ASSUME NEW q \in Request, ReadTarget(q) PROVE Founded'
  BY <1>0, <1>3 DEF ReadTarget
<1>4. ASSUME NEW q \in Request, Commit(q) PROVE Founded'
  <2>1. role[Root] # Absent
    BY <1>4 DEF Commit
  <2>2. role'[Root] # Absent
    <3>1. /\ req[q].target \in User /\ req[q].op \in Op \ {"create"}
          /\ Apply(req[q].target, req[q].op)
      BY <1>4 DEF Commit
    <3> QED BY <2>1, <3>1, ApplyTypes
  <2> QED BY <1>0, <1>4, <2>1, <2>2 DEF Commit
<1>5. ASSUME NEW q \in Request, RollBack(q) PROVE Founded'
  BY <1>0, <1>5 DEF RollBack
<1>6. ASSUME NEW u \in User, SessionsEnd(u) PROVE Founded'
  BY <1>0, <1>6 DEF SessionsEnd
<1>7. ASSUME NEW n \in Node, CountAdmins(n) PROVE Founded'
  BY <1>0, <1>7 DEF CountAdmins, HasAdmin
<1>8. ASSUME NEW n \in Node, InsertRoot(n) PROVE Founded'
  <2>1. CASE role[Root] = Absent
    <3>1. HasAdmin'
      BY <1>8, <2>1 DEF InsertRoot, HasAdmin, ActiveAdmins
    <3> QED BY <1>8, <2>1, <3>1 DEF InsertRoot
  <2>2. CASE role[Root] # Absent
    BY <1>0, <1>8, <2>2 DEF InsertRoot
  <2> QED BY <2>1, <2>2
<1>9. ASSUME NEW n \in Node, Restart(n) PROVE Founded'
  BY <1>0, <1>9 DEF Restart
<1>10. CASE UNCHANGED vars
  BY <1>0, <1>10 DEF vars
<1> QED
  BY <1>1, <1>2, <1>3, <1>4, <1>5, <1>6, <1>7, <1>8, <1>9, <1>10 DEF Next

\* This holds from the empty table on (bootstrap.py).
LEMMA FoundedInvariant == Spec => [](TypeInv /\ Founded)
<1>1. Init => Founded
  BY DEF Init, Founded
<1>2. TypeInv /\ Founded /\ [Next]_vars => Founded'
  BY FoundedStep
<1> QED BY <1>1, <1>2, TypeInvariant, PTL DEF Spec

-----------------------------------------------------------------------------
(* The table alone *)

\* A transaction that commits does so on the table it has read (routes/users.py).
LEMMA CommitIsAtomic ==
  ASSUME TypeInv, NEW q \in Request, Commit(q)
  PROVE  Table!TableNext
<1> DEFINE u == req[q].target
           op == req[q].op
<1>1. /\ u \in User /\ op \in Op \ {"create"} /\ Apply(u, op)
      /\ role[u] = req[q].role[u] /\ role[u] # Absent
  BY DEF Commit, TypeInv, TypeOK, Serialises, TargetUnchanged
<1>2. op \in {"viewer", "operator", "disable"} => Table!Dispensable(u)
  <2> SUFFICES ASSUME op \in {"viewer", "operator", "disable"}, role[u] = "admin"
               PROVE  Table!ActiveAdmins(role, active) \ {u} # {}
    BY DEF Table!Dispensable
  <2>1. Counts(req[q])
    BY <1>1 DEF Counts
  <2>2. ActiveAdmins(role, active) \ {u} # {}
    BY <2>1 DEF Commit, Serialises, Left
  <2> QED BY <2>2 DEF ActiveAdmins, Table!ActiveAdmins
<1> HIDE DEF u, op
<1>3. CASE op \in Role
  <2>1. SetRole(u, op)
    BY <1>1, <1>3 DEF Apply
  <2>2. Table!ChangeRole(u, op)
    BY <1>1, <1>2, <1>3, <2>1
       DEF Table!ChangeRole, Table!Exists, Table!Absent, Table!SetRole, SetRole,
           Table!EndAllSessions, EndAllSessions
  <2> QED BY <1>1, <1>3, <2>2 DEF Table!TableNext, Table!Role
<1>4. CASE op \in {"enable", "disable"}
  <2>1. PICK b \in BOOLEAN : SetActive(u, b) /\ (b \/ op = "disable")
    BY <1>1, <1>4 DEF Apply
  <2>2. Table!ChangeActive(u, b)
    BY <1>1, <1>2, <2>1
       DEF Table!ChangeActive, Table!Exists, Table!Absent, Table!SetActive, SetActive,
           Table!EndAllSessions, EndAllSessions
  <2> QED BY <1>1, <2>2 DEF Table!TableNext
<1> QED BY <1>1, <1>3, <1>4

\* Every step of a request or of a starting process is a step of the table, or none
\* (routes/users.py, bootstrap.py).
LEMMA TableStep ==
  ASSUME TypeInv, Founded, [Next]_vars
  PROVE  [Table!TableNext]_(Table!accounts)
<1> USE DEF Goes, Booting, accounts, Table!accounts, Founded
<1>0. ActiveAdmins(role, active) = Table!ActiveAdmins(role, active)
  BY DEF ActiveAdmins, Table!ActiveAdmins
<1>1. ASSUME NEW q \in Request, NEW u \in User, NEW target \in User, NEW op \in Op,
             Authorise(q, u, target, op)
      PROVE  UNCHANGED Table!accounts
  BY <1>1 DEF Authorise
<1>2. ASSUME NEW q \in Request, CreateUser(q) PROVE [Table!TableNext]_(Table!accounts)
  <2> DEFINE u == req[q].target
  <2>1. u \in User
    BY <1>2 DEF CreateUser, TypeInv, TypeOK
  <2>2. ActiveAdmins(role, active) # {}
    BY <1>2 DEF CreateUser, HasAdmin
  <2>3. CASE role[u] = Absent
    <3>1. PICK r \in Role : role' = [role EXCEPT ![u] = r]
      BY <1>2, <2>3 DEF CreateUser
    <3>2. Table!Join(u, r)
      BY <1>0, <1>2, <2>2, <2>3, <3>1 DEF CreateUser, Table!Join, Table!Exists, Table!Absent
    <3> QED BY <2>1, <3>2 DEF Table!TableNext, Table!Role
  <2>4. CASE role[u] # Absent
    BY <1>2, <2>4 DEF CreateUser
  <2> QED BY <2>3, <2>4
<1>3. ASSUME NEW q \in Request, ReadTarget(q) PROVE UNCHANGED Table!accounts
  BY <1>3 DEF ReadTarget
<1>4. ASSUME NEW q \in Request, Commit(q) PROVE Table!TableNext
  BY <1>4, CommitIsAtomic
<1>5. ASSUME NEW q \in Request, RollBack(q) PROVE UNCHANGED Table!accounts
  BY <1>5 DEF RollBack
<1>6. ASSUME NEW u \in User, SessionsEnd(u) PROVE Table!TableNext
  <2>1. Table!LogOut(u)
    BY <1>6 DEF SessionsEnd, Table!LogOut, Table!Exists, Table!Absent, EndAllSessions,
                Table!EndAllSessions
  <2> QED BY <2>1 DEF Table!TableNext
<1>7. ASSUME NEW n \in Node, CountAdmins(n) PROVE UNCHANGED Table!accounts
  BY <1>7 DEF CountAdmins
<1>8. ASSUME NEW n \in Node, InsertRoot(n) PROVE [Table!TableNext]_(Table!accounts)
  <2>1. CASE role[Root] = Absent
    <3>1. Table!Found
      BY <1>8, <2>1 DEF InsertRoot, Table!Found, Table!Exists, Table!Absent
    <3> QED BY <3>1 DEF Table!TableNext
  <2>2. CASE role[Root] # Absent
    BY <1>8, <2>2 DEF InsertRoot
  <2> QED BY <2>1, <2>2
<1>9. ASSUME NEW n \in Node, Restart(n) PROVE UNCHANGED Table!accounts
  BY <1>9 DEF Restart
<1>10. CASE UNCHANGED vars
  BY <1>10 DEF vars
<1> QED
  BY <1>1, <1>2, <1>3, <1>4, <1>5, <1>6, <1>7, <1>8, <1>9, <1>10 DEF Next

\* However many administrators, requests and starting processes there are, the users table
\* changes as AccountTable says: at once, and never losing the last administrator
\* (routes/users.py:109, bootstrap.py:47).
THEOREM TableIsAtomic == Spec => ImplementsAccountTable
<1>1. Init => Table!TableInit
  BY DEF Init, Table!TableInit, Table!Absent
<1>2. TypeInv /\ Founded /\ [Next]_vars => [Table!TableNext]_(Table!accounts)
  BY TableStep
<1> QED
  BY <1>1, <1>2, FoundedInvariant, PTL DEF Spec, ImplementsAccountTable, Table!TableSpec
=============================================================================
