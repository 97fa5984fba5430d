------------------------- MODULE AuthSessionsProofs -------------------------
(***************************************************************************)
(* Theorems about AuthSessions, for every set of users and requests, all   *)
(* lifetimes and any number of tokens.                                     *)
(***************************************************************************)
EXTENDS AuthSessions, FiniteSetTheorems, TLAPS

\* Lifetimes and bounds are numbers (config.py); endpoints ask for roles that exist.
LEMMA Numbers ==
  /\ AccessLife \in Nat /\ RefreshLife \in Nat /\ TicketLife \in Nat
  /\ GuardErrors \in Nat /\ GuardErrors > 0 /\ MaxVersion \in Nat
  /\ MaxRequests \in Nat /\ MaxGrants \in Nat /\ MaxTickets \in Nat /\ MaxClock \in Nat
  /\ Floors \subseteq Role /\ "viewer" \in Role
  BY LifeAssumption, LimitAssumption, BoundAssumption, VersionAssumption, FloorAssumption
     DEF Role

\* The second an instant falls into has begun, and what decode_token rejects has lapsed
\* (auth.py).
LEMMA Seconds ==
  /\ \A time \in Nat : Whole(time) \in Nat /\ Whole(time) <= time
  /\ \A t : Expiry(t) \in Nat /\ clock \in Nat /\ Expired(t) => Lapsed(t)
<1>1. ASSUME NEW time \in Nat PROVE Whole(time) \in Nat /\ Whole(time) <= time
  BY SecondAssumption DEF Whole
<1>2. ASSUME NEW t, Expiry(t) \in Nat, clock \in Nat, Expired(t) PROVE Lapsed(t)
  <2>1. Whole(clock) \in Nat /\ Whole(clock) <= clock /\ Whole(clock) > Expiry(t)
    BY <1>1, <1>2 DEF Expired
  <2> QED BY <1>2, <2>1 DEF Lapsed
<1> QED BY <1>1, <1>2

\* A request that is not being handled has a place of its own (routes/auth.py, ws.py).
LEMMA IdleFact == Idle.pc = "idle"
  BY DEF Idle

Op == {"refresh", "ticket", "logout", "password", "open"}
Kind == {"access", "refresh", "ws"}
GrantRow == [user : User, ver : 0..MaxVersion, pw : Nat, from : Nat, born : Nat]
TicketRow == [grant : Nat, born : Nat]
SocketRow == [ticket : Nat, floor : Role, errors : 0..(GuardErrors - 1),
              state : {"opening", "serving", "closed"}]
TokenRequest ==
  [pc : {"decoded", "checked", "replay", "logout load", "logout claim", "verified"},
   op : Op, token : Kind \X Nat, floor : Role]

\* What a request knows while it is handled, when these tokens are issued and these versions
\* are in the table.
RequestOK(r, issued, ver) ==
  \/ r = Idle
  \/ r.pc = "login" /\ r.user \in User
  \/ r.pc = "minting" /\ r.user \in User /\ r.ver \in 0..ver[r.user] /\ r.pw \in Nat
  \/ /\ r \in TokenRequest
     /\ r.token \in issued /\ r.token[1] = KindFor(r.op)
     /\ r.pc = "replay" => r.op = "refresh"
     /\ r.pc \in {"logout load", "logout claim"} => r.op = "logout"
     /\ r.pc = "verified" => r.op = "password"

GrantsOK ==
  /\ grants \in Seq(GrantRow)
  /\ \A g \in Grant : grants[g].from < g /\ grants[g].born <= clock
TicketsOK ==
  /\ tickets \in Seq(TicketRow)
  /\ \A k \in Ticket : tickets[k].grant \in Grant /\ tickets[k].born <= clock
SocketsOK ==
  /\ sockets \in Seq(SocketRow)
  /\ \A s \in Socket : sockets[s].ticket \in Ticket
RevokedOK == \A row \in revoked : row.token \in Issued /\ row.until \in Nat

TypeInv ==
  /\ AccountsOK /\ (\A u \in User : role[u] # Absent) /\ password \in [User -> Nat]
  /\ clock \in 0..MaxClock
  /\ GrantsOK /\ TicketsOK /\ SocketsOK /\ RevokedOK
  /\ started \in 0..MaxRequests
  /\ replayed \subseteq Grant /\ loggedOut \subseteq Grant
  /\ DOMAIN req = Request
  /\ \A q \in Request : RequestOK(req[q], Issued, version)

\* Every request that carries a token asks for the kind its endpoint takes (auth.py).
LEMMA Kinds ==
  /\ KindFor("refresh") = "refresh" /\ KindFor("open") = "ws"
  /\ \A op \in {"ticket", "logout", "password"} : KindFor(op) = "access"
  BY DEF KindFor

\* Pairs, tickets and sockets are numbered rows (auth.py, ws.py).
LEMMA Rows ==
  ASSUME TypeInv
  PROVE  /\ \A g \in Grant : /\ grants[g] \in GrantRow /\ grants[g].born \in Nat
                            /\ grants[g].user \in User /\ grants[g].ver \in Nat
                            /\ grants[g].from \in Nat /\ g \in Nat /\ g > 0
         /\ \A k \in Ticket : tickets[k] \in TicketRow /\ tickets[k].born \in Nat
         /\ \A s \in Socket : sockets[s] \in SocketRow
<1>1. /\ \A g \in Grant : grants[g] \in GrantRow /\ g \in Nat /\ g > 0
      /\ \A k \in Ticket : tickets[k] \in TicketRow
      /\ \A s \in Socket : sockets[s] \in SocketRow
  BY DEF TypeInv, GrantsOK, TicketsOK, SocketsOK, Grant, Ticket, Socket
<1>2. ASSUME NEW g \in Grant
      PROVE  /\ grants[g].born \in Nat /\ grants[g].user \in User /\ grants[g].ver \in Nat
             /\ grants[g].from \in Nat
  <2>1. grants[g] \in GrantRow
    BY <1>1
  <2> QED BY <2>1, Numbers DEF GrantRow
<1>3. ASSUME NEW k \in Ticket PROVE tickets[k].born \in Nat
  <2>1. tickets[k] \in TicketRow
    BY <1>1
  <2> QED BY <2>1 DEF TicketRow
<1> QED BY <1>1, <1>2, <1>3

\* A token belongs to a pair that was minted, and to a user (auth.py, ws.py).
LEMMA TokenFacts ==
  ASSUME TypeInv, NEW t \in Issued
  PROVE  /\ GrantOf(t) \in Grant /\ Subject(t) \in User /\ Version(t) \in 0..MaxVersion
         /\ Expiry(t) \in Nat /\ t \in Kind \X Nat /\ t = <<t[1], t[2]>>
         /\ t[1] # "ws" => t[2] \in Grant /\ GrantOf(t) = t[2]
         /\ t[1] = "ws" => t[2] \in Ticket /\ GrantOf(t) = tickets[t[2]].grant
<1> USE DEF TypeInv, GrantsOK, TicketsOK, Grant, Ticket
<1>1. CASE t \in {"access", "refresh"} \X Grant
  <2>1. t[1] \in {"access", "refresh"} /\ t[2] \in 1..Len(grants) /\ t = <<t[1], t[2]>>
    BY <1>1
  <2>2. grants[t[2]] \in GrantRow
    BY <2>1
  <2>3. \/ Expiry(t) = Whole(grants[t[2]].born + AccessLife)
        \/ Expiry(t) = Whole(grants[t[2]].born + RefreshLife)
    BY <2>1 DEF Expiry
  <2>7. grants[t[2]].born \in Nat
    BY <2>2 DEF GrantRow
  <2>8. grants[t[2]].born + AccessLife \in Nat /\ grants[t[2]].born + RefreshLife \in Nat
    <3>1. PICK b \in Nat : b = grants[t[2]].born
      BY <2>7
    <3>2. b + AccessLife \in Nat /\ b + RefreshLife \in Nat
      BY Numbers
    <3> QED BY <3>1, <3>2
  <2>4. Expiry(t) \in Nat
    BY <2>3, <2>8, Seconds
  <2>5. GrantOf(t) = t[2] /\ GrantOf(t) \in Grant
    BY <2>1 DEF GrantOf
  <2>6. Subject(t) \in User /\ Version(t) \in 0..MaxVersion
    BY <2>2, <2>5 DEF Subject, Version, GrantRow
  <2> QED BY <2>1, <2>4, <2>5, <2>6 DEF Kind
<1>2. CASE t \in {"ws"} \X Ticket
  <2>1. t[1] = "ws" /\ t[2] \in 1..Len(tickets) /\ t = <<t[1], t[2]>>
    BY <1>2
  <2>2. tickets[t[2]] \in TicketRow /\ tickets[t[2]].grant \in 1..Len(grants)
    BY <2>1
  <2>3. grants[tickets[t[2]].grant] \in GrantRow
    BY <2>2
  <2>4. Expiry(t) = Whole(tickets[t[2]].born + TicketLife)
    BY <2>1 DEF Expiry
  <2>8. tickets[t[2]].born \in Nat
    BY <2>2 DEF TicketRow
  <2>9. tickets[t[2]].born + TicketLife \in Nat
    BY <2>8, Numbers
  <2>5. Expiry(t) \in Nat
    BY <2>4, <2>9, Seconds
  <2>6. GrantOf(t) = tickets[t[2]].grant /\ GrantOf(t) \in Grant
    BY <2>1, <2>2 DEF GrantOf
  <2>7. Subject(t) \in User /\ Version(t) \in 0..MaxVersion
    BY <2>3, <2>6 DEF Subject, Version, GrantRow
  <2> QED BY <2>1, <2>5, <2>6, <2>7 DEF Kind
<1> QED BY <1>1, <1>2 DEF Issued

-----------------------------------------------------------------------------
(* What every step does to the tables *)

\* Pairs and tickets stay as they were made, clocks and versions only advance, a row of
\* revoked_tokens goes when its exp has passed, and who loses an account, or chooses
\* another password, gets another version.
Advances ==
  /\ clock' \in Nat /\ clock <= clock'
  /\ Grant \subseteq Grant' /\ \A g \in Grant : grants'[g] = grants[g]
  /\ Ticket \subseteq Ticket' /\ \A k \in Ticket : tickets'[k] = tickets[k]
  /\ version' \in [User -> 0..MaxVersion]
  /\ \A u \in User : version[u] <= version'[u]
  /\ \A u \in User : (active[u] /\ ~active'[u]) => version[u] < version'[u]
  /\ \A u \in User : password'[u] # password[u] => version[u] < version'[u]
  /\ \A row \in revoked : row.until >= clock => row \in revoked'

\* What Append does to what was there.
LEMMA Appended ==
  ASSUME NEW S, NEW s \in Seq(S), NEW e \in S
  PROVE  /\ Append(s, e) \in Seq(S)
         /\ DOMAIN s = 1..Len(s) /\ DOMAIN Append(s, e) = 1..(Len(s) + 1) /\ Len(s) \in Nat
         /\ DOMAIN s \subseteq DOMAIN Append(s, e)
         /\ \A i \in DOMAIN s : Append(s, e)[i] = s[i]
         /\ Append(s, e)[Len(s) + 1] = e
  OBVIOUS

\* A pair is minted (auth.py).
LEMMA Minted ==
  ASSUME TypeInv, NEW u \in User, NEW v \in 0..MaxVersion, NEW pw \in Nat, NEW from \in Nat,
         Mint(u, v, pw, from)
  PROVE  /\ grants' \in Seq(GrantRow) /\ Grant' = Grant \cup {Len(grants) + 1}
         /\ Grant = 1..Len(grants) /\ Len(grants) \in Nat
         /\ \A g \in Grant : grants'[g] = grants[g]
         /\ grants'[Len(grants) + 1] =
              [user |-> u, ver |-> v, pw |-> pw, from |-> from, born |-> clock]
<1> DEFINE e == [user |-> u, ver |-> v, pw |-> pw, from |-> from, born |-> clock]
<1>1. e \in GrantRow /\ grants \in Seq(GrantRow) /\ grants' = Append(grants, e)
  BY Numbers DEF TypeInv, GrantsOK, GrantRow, Mint
<1> HIDE DEF e
<1>2. /\ grants' \in Seq(GrantRow) /\ Grant = 1..Len(grants) /\ Len(grants) \in Nat
      /\ Grant' = 1..(Len(grants) + 1)
      /\ \A g \in Grant : grants'[g] = grants[g]
      /\ grants'[Len(grants) + 1] = e
  BY <1>1, Appended DEF Grant
<1>3. Grant' = Grant \cup {Len(grants) + 1}
  BY <1>2
<1> QED BY <1>2, <1>3 DEF e

\* A token is revoked (auth.py, revoke_token).
LEMMA Revoked ==
  ASSUME TypeInv, NEW t \in Issued, NEW until \in Nat, Revoke(t, until)
  PROVE  /\ \A row \in revoked' : row \in revoked \/ row = [token |-> t, until |-> until]
         /\ \A row \in revoked' : row.token \in Issued /\ row.until \in Nat
         /\ \A row \in revoked : row.until >= clock => row \in revoked'
         /\ \E row \in revoked' : row.token = t
<1> USE DEF Revoke
<1>1. \A row \in revoked' : row \in revoked \/ row = [token |-> t, until |-> until]
  BY DEF Kept
<1>2. \A row \in revoked' : row.token \in Issued /\ row.until \in Nat
  BY <1>1 DEF TypeInv, RevokedOK
<1>3. \A row \in revoked : row.until >= clock => row \in revoked'
  BY DEF Kept
<1>4. \E row \in revoked' : row.token = t
  <2>1. CASE Claims(t)
    <3>1. [token |-> t, until |-> until] \in revoked'
      BY <2>1
    <3> QED BY <3>1
  <2>2. CASE ~Claims(t)
    BY <2>2 DEF Claims
  <2> QED BY <2>1, <2>2
<1> QED BY <1>1, <1>2, <1>3, <1>4

\* Tokens stay issued.
LEMMA IssuedStays ==
  ASSUME Advances
  PROVE  Issued \subseteq Issued'
  BY DEF Advances, Issued

\* What a request knows stays true.
LEMMA RequestStays ==
  ASSUME TypeInv, Advances, NEW r, RequestOK(r, Issued, version)
  PROVE  RequestOK(r, Issued', version')
<1>1. CASE r = Idle
  BY <1>1 DEF RequestOK
<1>2. CASE r.pc = "login" /\ r.user \in User
  BY <1>2 DEF RequestOK
<1>3. CASE r.pc = "minting" /\ r.user \in User /\ r.ver \in 0..version[r.user] /\ r.pw \in Nat
  <2>1. /\ version[r.user] \in Nat /\ version'[r.user] \in Nat
        /\ version[r.user] <= version'[r.user]
    BY <1>3, Numbers DEF TypeInv, AccountsOK, Advances
  <2>2. r.ver \in 0..version'[r.user]
    BY <1>3, <2>1
  <2> QED BY <1>3, <2>2 DEF RequestOK
<1>4. CASE r \in TokenRequest /\ r.token \in Issued
  <2>1. r.token \in Issued'
    BY <1>4, IssuedStays
  <2>2. r.pc \notin {"idle", "login", "minting"}
    BY <1>4 DEF TokenRequest
  <2> QED BY <1>4, <2>1, <2>2, IdleFact DEF RequestOK
<1> QED BY <1>1, <1>2, <1>3, <1>4 DEF RequestOK

\* A step of one request leaves what the others know true (routes/auth.py, ws.py).
LEMMA RequestsStay ==
  ASSUME TypeInv, Advances, NEW q \in Request, NEW r, req' = [req EXCEPT ![q] = r],
         RequestOK(r, Issued', version')
  PROVE  DOMAIN req' = Request /\ \A p \in Request : RequestOK(req'[p], Issued', version')
<1>1. ASSUME NEW p \in Request, p # q PROVE RequestOK(req'[p], Issued', version')
  <2>1. RequestOK(req[p], Issued', version')
    BY RequestStays DEF TypeInv
  <2>2. req'[p] = req[p]
    BY <1>1 DEF TypeInv
  <2> QED BY <2>1, <2>2
<1>2. RequestOK(req'[q], Issued', version')
  BY DEF TypeInv
<1> QED BY <1>1, <1>2 DEF TypeInv

\* A step of one request that touches no table.
LEMMA RequestOnly ==
  ASSUME TypeInv, UNCHANGED <<accounts, tables, sockets, clock>>, NEW q \in Request, NEW r,
         req' = [req EXCEPT ![q] = r], RequestOK(r, Issued, version), started' \in 0..MaxRequests,
         replayed' \subseteq Grant, loggedOut' \subseteq Grant
  PROVE  TypeInv' /\ Advances
<1>1. Advances
  BY DEF Advances, TypeInv, AccountsOK, accounts, tables, Grant, Ticket
<1>2. RequestOK(r, Issued', version')
  BY <1>1, RequestStays
<1>3. DOMAIN req' = Request /\ \A p \in Request : RequestOK(req'[p], Issued', version')
  BY <1>1, <1>2, RequestsStay
<1> QED
  BY <1>1, <1>3 DEF TypeInv, AccountsOK, GrantsOK, TicketsOK, SocketsOK, RevokedOK, accounts,
                    tables, Grant, Ticket, Socket, Issued

\* No request moves and no pair, ticket or row of revoked_tokens comes or goes.
LEMMA NoRequest ==
  ASSUME TypeInv, Advances, UNCHANGED <<tables, req, started, history>>, AccountsOK',
         \A u \in User : role'[u] # Absent, clock' \in 0..MaxClock, SocketsOK'
  PROVE  TypeInv'
<1>1. \A p \in Request : RequestOK(req'[p], Issued', version')
  BY RequestStays DEF TypeInv
<1>2. GrantsOK' /\ TicketsOK'
  <2>1. clock \in Nat /\ clock' \in Nat /\ clock <= clock'
    BY Numbers DEF TypeInv, Advances
  <2>2. \A g \in Grant : grants[g].born \in Nat
    BY Rows
  <2>3. \A k \in Ticket : tickets[k].born \in Nat
    BY Rows
  <2> QED BY <2>1, <2>2, <2>3 DEF TypeInv, GrantsOK, TicketsOK, Grant, Ticket, tables
<1> QED
  BY <1>1, <1>2 DEF TypeInv, RevokedOK, tables, history, Grant, Ticket, Issued

-----------------------------------------------------------------------------
(* Every step keeps the types and advances *)

\* Login and the steps of a request that only read (routes/auth.py, auth.py, ws.py).
LEMMA ReadingSteps ==
  ASSUME TypeInv, NEW q \in Request,
         \/ \E u \in User : LoginTry(q, u)
         \/ LoginRead(q)
         \/ \E op \in Op, t \in Issued, floor \in Role : Present(q, op, t, floor)
         \/ Check(q)
         \/ VerifyPassword(q)
         \/ LogoutLoad(q)
  PROVE  TypeInv' /\ Advances
<1> USE IdleFact DEF Step, Goes, Starts, Answered, history
<1>0. RequestOK(req[q], Issued, version) /\ RequestOK(Idle, Issued, version)
      /\ started \in 0..MaxRequests /\ replayed \subseteq Grant /\ loggedOut \subseteq Grant
  BY DEF TypeInv, RequestOK
<1>1. ASSUME NEW u \in User, LoginTry(q, u) PROVE TypeInv' /\ Advances
  <2> DEFINE r == [pc |-> "login", user |-> u]
  <2>1. RequestOK(r, Issued, version)
    BY DEF RequestOK
  <2>2. started' \in 0..MaxRequests
    BY <1>0, <1>1, Numbers DEF LoginTry
  <2>3. /\ req' = [req EXCEPT ![q] = r] /\ UNCHANGED <<accounts, tables, sockets, clock>>
        /\ replayed' = replayed /\ loggedOut' = loggedOut
    BY <1>1 DEF LoginTry
  <2> HIDE DEF r
  <2> QED BY <1>0, <2>1, <2>2, <2>3, RequestOnly
<1>2. CASE LoginRead(q)
  <2>1. PICK r : /\ req' = [req EXCEPT ![q] = r]
                 /\ \/ r = Idle
                    \/ r = [pc |-> "minting", user |-> req[q].user,
                            ver |-> version[req[q].user], pw |-> password[req[q].user]]
    BY <1>2 DEF LoginRead
  <2>2. req[q].user \in User
    BY <1>0, <1>2 DEF LoginRead, RequestOK, TokenRequest
  <2>5. version[req[q].user] \in 0..MaxVersion /\ password[req[q].user] \in Nat
    BY <2>2 DEF TypeInv, AccountsOK
  <2>6. version[req[q].user] \in 0..version[req[q].user]
    BY <2>5, Numbers
  <2>3. RequestOK(r, Issued, version)
    <3>1. CASE r = Idle
      BY <1>0, <3>1
    <3>2. CASE r = [pc |-> "minting", user |-> req[q].user, ver |-> version[req[q].user],
                    pw |-> password[req[q].user]]
      <4>1. /\ r.pc = "minting" /\ r.user = req[q].user /\ r.ver = version[req[q].user]
            /\ r.pw = password[req[q].user]
        BY <3>2
      <4> QED BY <2>2, <2>5, <2>6, <4>1 DEF RequestOK
    <3> QED BY <2>1, <3>1, <3>2
  <2>4. /\ started' = started /\ UNCHANGED <<accounts, tables, sockets, clock>>
        /\ replayed' = replayed /\ loggedOut' = loggedOut
    BY <1>2 DEF LoginRead
  <2> QED BY <1>0, <2>1, <2>3, <2>4, RequestOnly
<1>3. ASSUME NEW op \in Op, NEW t \in Issued, NEW floor \in Role, Present(q, op, t, floor)
      PROVE  TypeInv' /\ Advances
  <2> DEFINE r == [pc |-> "decoded", op |-> op, token |-> t, floor |-> floor]
  <2>1. RequestOK(r, Issued, version)
    <3>1. t \in Kind \X Nat
      BY TokenFacts
    <3>2. r \in TokenRequest
      BY <3>1 DEF TokenRequest
    <3>3. t[1] = KindFor(op)
      BY <1>3 DEF Present
    <3> QED BY <3>2, <3>3 DEF RequestOK
  <2>2. started' \in 0..MaxRequests
    BY <1>0, <1>3, Numbers DEF Present
  <2>3. /\ req' = [req EXCEPT ![q] = r] /\ UNCHANGED <<accounts, tables, sockets, clock>>
        /\ replayed' = replayed /\ loggedOut' = loggedOut
    BY <1>3 DEF Present
  <2> HIDE DEF r
  <2> QED BY <1>0, <2>1, <2>2, <2>3, RequestOnly
<1>4. ASSUME NEW pc \in {"checked", "replay", "logout claim", "verified"},
             req[q] \in TokenRequest, req[q].token \in Issued,
             req[q].token[1] = KindFor(req[q].op),
             pc = "replay" => req[q].op = "refresh",
             pc = "logout claim" => req[q].op = "logout",
             pc = "verified" => req[q].op = "password"
      PROVE  RequestOK([req[q] EXCEPT !.pc = pc], Issued, version)
  <2> DEFINE r == [req[q] EXCEPT !.pc = pc]
  <2>1. r \in TokenRequest /\ r.token = req[q].token /\ r.op = req[q].op /\ r.pc = pc
    BY <1>4 DEF TokenRequest
  <2> HIDE DEF r
  <2>2. RequestOK(r, Issued, version)
    BY <1>4, <2>1 DEF RequestOK
  <2> QED BY <2>2 DEF r
<1>5. ASSUME req[q].pc \notin {"idle", "login", "minting"}
      PROVE  /\ req[q] \in TokenRequest /\ req[q].token \in Issued
             /\ req[q].token[1] = KindFor(req[q].op)
             /\ req[q].pc \in {"logout load", "logout claim"} => req[q].op = "logout"
  BY <1>0, <1>5 DEF RequestOK
<1>6. CASE Check(q)
  <2>1. \/ req' = [req EXCEPT ![q] = [req[q] EXCEPT !.pc = "checked"]]
        \/ req' = [req EXCEPT ![q] = [req[q] EXCEPT !.pc = "replay"]] /\ req[q].op = "refresh"
        \/ req' = [req EXCEPT ![q] = Idle]
    BY <1>6 DEF Check
  <2>2. /\ req[q].pc = "decoded" /\ started' = started
        /\ UNCHANGED <<accounts, tables, sockets, clock>>
        /\ replayed' = replayed /\ loggedOut' = loggedOut
    BY <1>6 DEF Check
  <2> QED BY <1>0, <1>4, <1>5, <2>1, <2>2, RequestOnly
<1>7. CASE VerifyPassword(q)
  <2>1. \/ req' = [req EXCEPT ![q] = [req[q] EXCEPT !.pc = "verified"]]
        \/ req' = [req EXCEPT ![q] = Idle]
    BY <1>7 DEF VerifyPassword
  <2>2. /\ req[q].pc = "checked" /\ req[q].op = "password" /\ started' = started
        /\ UNCHANGED <<accounts, tables, sockets, clock>>
        /\ replayed' = replayed /\ loggedOut' = loggedOut
    BY <1>7 DEF VerifyPassword, Checked
  <2> QED BY <1>0, <1>4, <1>5, <2>1, <2>2, RequestOnly
<1>8. CASE LogoutLoad(q)
  <2>1. \/ req' = [req EXCEPT ![q] = [req[q] EXCEPT !.pc = "logout claim"]] /\ UNCHANGED loggedOut
        \/ /\ req' = [req EXCEPT ![q] = Idle]
           /\ loggedOut' = loggedOut \cup {req[q].token[2]}
    BY <1>8 DEF LogoutLoad, LogoutDone
  <2>2. /\ req[q].pc = "logout load" /\ started' = started
        /\ UNCHANGED <<accounts, tables, sockets, clock>> /\ replayed' = replayed
    BY <1>8 DEF LogoutLoad, LogoutDone
  <2>3. /\ req[q] \in TokenRequest /\ req[q].op = "logout" /\ req[q].token \in Issued
        /\ req[q].token[1] = "access" /\ req[q].token[1] = KindFor(req[q].op)
    BY <1>5, <2>2, Kinds
  <2>4. loggedOut' \subseteq Grant
    BY <1>0, <2>1, <2>3, TokenFacts
  <2> QED BY <1>0, <1>4, <2>1, <2>2, <2>3, <2>4, RequestOnly
<1> QED BY <1>1, <1>2, <1>3, <1>6, <1>7, <1>8

\* The other steps of a request change its record and the tables it writes.
LEMMA WritingStep ==
  ASSUME TypeInv, Advances, NEW q \in Request, NEW r, req' = [req EXCEPT ![q] = r],
         RequestOK(r, Issued, version), started' = started, clock' = clock, AccountsOK',
         role' = role, password' \in [User -> Nat], GrantsOK', TicketsOK', SocketsOK',
         RevokedOK', replayed' \subseteq Grant, loggedOut' \subseteq Grant
  PROVE  TypeInv'
<1>1. RequestOK(r, Issued', version')
  BY RequestStays
<1>2. DOMAIN req' = Request /\ \A p \in Request : RequestOK(req'[p], Issued', version')
  BY <1>1, RequestsStay
<1>3. Grant \subseteq Grant'
  BY DEF Advances
<1> QED BY <1>2, <1>3 DEF TypeInv

\* A new pair has the types of a pair.
LEMMA MintTypes ==
  ASSUME TypeInv, NEW u \in User, NEW v \in 0..MaxVersion, NEW pw \in Nat,
         NEW from \in Grant \cup {0}, Mint(u, v, pw, from), clock' = clock
  PROVE  GrantsOK' /\ Grant \subseteq Grant' /\ \A g \in Grant : grants'[g] = grants[g]
<1> DEFINE new == Len(grants) + 1
<1>0. from \in Nat
  BY Rows
<1>1. /\ grants' \in Seq(GrantRow) /\ Grant' = Grant \cup {new}
      /\ Grant = 1..Len(grants) /\ Len(grants) \in Nat
      /\ \A g \in Grant : grants'[g] = grants[g]
      /\ grants'[new] = [user |-> u, ver |-> v, pw |-> pw, from |-> from, born |-> clock]
  BY <1>0, Minted
<1>2. from < new /\ grants'[new].from < new
  BY <1>1
<1>3. grants'[new].born <= clock'
  BY <1>1, Numbers DEF TypeInv
<1>4. ASSUME NEW g \in Grant' PROVE grants'[g].from < g /\ grants'[g].born <= clock'
  <2>1. CASE g \in Grant
    BY <1>1, <2>1 DEF TypeInv, GrantsOK
  <2>2. CASE g = new
    BY <1>2, <1>3, <2>2
  <2> QED BY <1>1, <2>1, <2>2
<1> QED BY <1>1, <1>4 DEF GrantsOK, Grant

\* Tables that do not change keep their types while tokens are issued.
LEMMA UntouchedTables ==
  ASSUME TypeInv, clock' = clock, Grant \subseteq Grant', Ticket \subseteq Ticket'
  PROVE  /\ UNCHANGED grants => GrantsOK'
         /\ UNCHANGED tickets => TicketsOK'
         /\ UNCHANGED sockets => SocketsOK'
         /\ Issued \subseteq Issued'
         /\ UNCHANGED revoked => RevokedOK'
<1>1. Issued \subseteq Issued'
  BY DEF Issued
<1> QED BY <1>1 DEF TypeInv, GrantsOK, TicketsOK, SocketsOK, RevokedOK, Grant, Ticket, Socket

\* Who has a token is a user with a version and a password.
LEMMA AccountFacts ==
  ASSUME TypeInv, NEW u \in User
  PROVE  version[u] \in 0..MaxVersion /\ version[u] \in Nat /\ password[u] \in Nat /\ clock \in Nat
  BY Numbers DEF TypeInv, AccountsOK

\* Ending the sessions of a user moves that user's version up by one and no other (auth.py:241).
LEMMA EndTypes ==
  ASSUME TypeInv, NEW u \in User, EndAllSessions(u)
  PROVE  /\ version' \in [User -> 0..MaxVersion] /\ version'[u] = version[u] + 1
         /\ \A v \in User \ {u} : version'[v] = version[v]
         /\ \A v \in User : version[v] <= version'[v] /\ version[v] \in Nat /\ version'[v] \in Nat
  BY Numbers DEF EndAllSessions, TypeInv, AccountsOK

\* Minting, revoking, ending sessions (routes/auth.py, auth.py, ws.py).
LEMMA WritingSteps ==
  ASSUME TypeInv, NEW q \in Request,
         \/ LoginMint(q) \/ Rotate(q) \/ EndSessionsAfterReplay(q) \/ WsTicket(q)
         \/ OpenSocket(q) \/ Logout(q) \/ LogoutClaim(q) \/ ChangePassword(q)
  PROVE  TypeInv' /\ Advances
<1> USE IdleFact DEF Step, Goes, Answered, history
<1>0. RequestOK(req[q], Issued, version) /\ RequestOK(Idle, Issued, version)
      /\ replayed \subseteq Grant /\ loggedOut \subseteq Grant /\ AccountsOK
      /\ GrantsOK /\ TicketsOK /\ SocketsOK /\ RevokedOK /\ password \in [User -> Nat]
      /\ clock \in Nat /\ \A u \in User : version[u] \in Nat
  <2>1. RequestOK(Idle, Issued, version)
    BY DEF RequestOK
  <2>2. clock \in Nat /\ \A u \in User : version[u] \in Nat
    BY Numbers DEF TypeInv, AccountsOK
  <2> QED BY <2>1, <2>2 DEF TypeInv
<1>5. ASSUME req[q].pc \notin {"idle", "login", "minting"}
      PROVE  /\ req[q] \in TokenRequest /\ req[q].token \in Issued
             /\ req[q].token[1] = KindFor(req[q].op)
             /\ req[q].pc = "replay" => req[q].op = "refresh"
             /\ req[q].pc \in {"logout load", "logout claim"} => req[q].op = "logout"
             /\ req[q].pc = "verified" => req[q].op = "password"
  BY <1>0, <1>5 DEF RequestOK
<1>6. ASSUME NEW pc \in {"replay", "logout load"}, req[q].pc \notin {"idle", "login", "minting"},
             pc = "replay" => req[q].op = "refresh",
             pc = "logout load" => req[q].op = "logout"
      PROVE  RequestOK([req[q] EXCEPT !.pc = pc], Issued, version)
  <2> DEFINE r == [req[q] EXCEPT !.pc = pc]
  <2>1. r \in TokenRequest /\ r.token = req[q].token /\ r.op = req[q].op /\ r.pc = pc
    BY <1>5, <1>6 DEF TokenRequest
  <2> HIDE DEF r
  <2>2. RequestOK(r, Issued, version)
    BY <1>5, <1>6, <2>1 DEF RequestOK
  <2> QED BY <2>2 DEF r
<1>7. CASE LoginMint(q)
  <2>1. /\ req[q].user \in User /\ req[q].ver \in 0..MaxVersion /\ req[q].pw \in Nat
    <3>1. /\ req[q].user \in User /\ req[q].ver \in 0..version[req[q].user] /\ req[q].pw \in Nat
      BY <1>0, <1>7 DEF LoginMint, RequestOK, TokenRequest
    <3> QED BY <3>1, AccountFacts, Numbers
  <2>2. /\ req' = [req EXCEPT ![q] = Idle] /\ started' = started /\ clock' = clock
        /\ UNCHANGED <<accounts, password, tickets, revoked, sockets, history>>
        /\ Mint(req[q].user, req[q].ver, req[q].pw, 0)
    BY <1>7 DEF LoginMint
  <2>3. GrantsOK' /\ Grant \subseteq Grant' /\ \A g \in Grant : grants'[g] = grants[g]
    BY <2>1, <2>2, MintTypes
  <2>4. TicketsOK' /\ SocketsOK' /\ RevokedOK' /\ AccountsOK' /\ Ticket' = Ticket
    BY <1>0, <2>2, <2>3, UntouchedTables DEF accounts, AccountsOK, Ticket
  <2>5. Advances
    BY <1>0, <2>2, <2>3 DEF Advances, accounts, AccountsOK, Ticket
  <2> QED BY <1>0, <2>2, <2>3, <2>4, <2>5, WritingStep DEF accounts
<1>8. CASE Rotate(q)
  <2> DEFINE t == req[q].token
  <2>1. /\ t \in Issued /\ t[1] = "refresh" /\ req[q].op = "refresh" /\ req[q].pc = "checked"
    BY <1>5, <1>8, Kinds DEF Rotate, Checked
  <2>2. /\ Subject(t) \in User /\ Version(t) \in 0..MaxVersion /\ t[2] \in Grant
        /\ grants[t[2]].pw \in Nat /\ Expiry(t) \in Nat
    BY <2>1, TokenFacts, Rows DEF GrantRow
  <2>3. /\ Revoke(t, Expiry(t)) /\ started' = started /\ clock' = clock
        /\ UNCHANGED <<accounts, password, tickets, sockets, history>>
        /\ \/ /\ Mint(Subject(t), Version(t), grants[t[2]].pw, t[2])
              /\ req' = [req EXCEPT ![q] = Idle]
           \/ /\ UNCHANGED grants
              /\ req' = [req EXCEPT ![q] = [req[q] EXCEPT !.pc = "replay"]]
    BY <1>8 DEF Rotate
  <2> HIDE DEF t
  <2>4. GrantsOK' /\ Grant \subseteq Grant' /\ \A g \in Grant : grants'[g] = grants[g]
    BY <1>0, <2>2, <2>3, MintTypes DEF GrantsOK, Grant
  <2>5. /\ \A row \in revoked' : row.token \in Issued /\ row.until \in Nat
        /\ \A row \in revoked : row.until >= clock => row \in revoked'
    BY <2>1, <2>2, <2>3, Revoked
  <2>6. TicketsOK' /\ SocketsOK' /\ RevokedOK' /\ AccountsOK' /\ Ticket' = Ticket
    BY <1>0, <2>3, <2>4, <2>5, UntouchedTables DEF accounts, AccountsOK, Ticket, RevokedOK
  <2>7. Advances
    BY <1>0, <2>3, <2>4, <2>5 DEF Advances, accounts, AccountsOK, Ticket
  <2>8. RequestOK([req[q] EXCEPT !.pc = "replay"], Issued, version)
    BY <1>6, <2>1
  <2> QED BY <1>0, <2>3, <2>4, <2>6, <2>7, <2>8, WritingStep DEF accounts
<1>9. CASE EndSessionsAfterReplay(q)
  <2> DEFINE t == req[q].token
  <2>1. t \in Issued /\ t[1] = "refresh"
    BY <1>5, <1>9, Kinds DEF EndSessionsAfterReplay
  <2>2. Subject(t) \in User /\ t[2] \in Grant
    BY <2>1, TokenFacts
  <2>3. /\ EndAllSessions(Subject(t)) /\ replayed' = replayed \cup {t[2]}
        /\ req' = [req EXCEPT ![q] = Idle] /\ started' = started /\ clock' = clock
        /\ UNCHANGED <<role, active, tables, sockets, loggedOut>>
    BY <1>9 DEF EndSessionsAfterReplay
  <2> HIDE DEF t
  <2>4. /\ version' \in [User -> 0..MaxVersion]
        /\ \A v \in User : version[v] <= version'[v]
    BY <2>2, <2>3, EndTypes
  <2>5. GrantsOK' /\ TicketsOK' /\ SocketsOK' /\ RevokedOK' /\ AccountsOK'
    BY <1>0, <2>3, <2>4, UntouchedTables DEF tables, AccountsOK, Grant, Ticket
  <2>6. Advances
    BY <1>0, <2>3, <2>4 DEF Advances, tables, Grant, Ticket
  <2> QED BY <1>0, <2>2, <2>3, <2>5, <2>6, WritingStep DEF tables
<1>10. CASE WsTicket(q)
  <2> DEFINE t == req[q].token
             e == [grant |-> t[2], born |-> clock]
  <2>1. t \in Issued /\ t[1] = "access"
    BY <1>5, <1>10, Kinds DEF WsTicket, Checked
  <2>2. t[2] \in Grant /\ t[2] \in Nat
    BY <2>1, TokenFacts, Rows
  <2>3. e \in TicketRow /\ e.grant = t[2] /\ e.born = clock
    BY <1>0, <2>2 DEF TicketRow
  <2>4. /\ tickets' = Append(tickets, e)
        /\ req' = [req EXCEPT ![q] = Idle] /\ started' = started /\ clock' = clock
        /\ UNCHANGED <<accounts, password, grants, revoked, sockets, history>>
    BY <1>10 DEF WsTicket
  <2> HIDE DEF t, e
  <2>5. /\ tickets' \in Seq(TicketRow) /\ Ticket = 1..Len(tickets) /\ Len(tickets) \in Nat
        /\ Ticket' = 1..(Len(tickets) + 1)
        /\ \A k \in Ticket : tickets'[k] = tickets[k]
        /\ tickets'[Len(tickets) + 1] = e
    BY <1>0, <2>3, <2>4, Appended DEF TicketsOK, Ticket
  <2>6. Ticket \subseteq Ticket' /\ Grant' = Grant
    BY <2>4, <2>5 DEF Grant
  <2>7. TicketsOK'
    <3> SUFFICES ASSUME NEW k \in Ticket'
                 PROVE  tickets'[k].grant \in Grant' /\ tickets'[k].born <= clock'
      BY <2>5 DEF TicketsOK, Ticket, Grant
    <3>1. CASE k \in Ticket
      BY <1>0, <2>4, <2>5, <2>6, <3>1 DEF TicketsOK
    <3>2. CASE k = Len(tickets) + 1
      BY <1>0, <2>2, <2>3, <2>4, <2>5, <2>6, <3>2
    <3> QED BY <2>5, <3>1, <3>2
  <2>8. GrantsOK' /\ SocketsOK' /\ RevokedOK' /\ AccountsOK'
    BY <1>0, <2>4, <2>6, UntouchedTables DEF accounts, AccountsOK
  <2>9. Advances
    BY <1>0, <2>4, <2>5, <2>6 DEF Advances, accounts, AccountsOK
  <2> QED BY <1>0, <2>4, <2>7, <2>8, <2>9, WritingStep DEF accounts
<1>11. CASE OpenSocket(q)
  <2> DEFINE t == req[q].token
             e == [ticket |-> t[2], floor |-> req[q].floor, state |-> "opening", errors |-> 0]
  <2>1. t \in Issued /\ t[1] = "ws" /\ req[q].floor \in Role
    BY <1>5, <1>11, Kinds DEF OpenSocket, Checked, TokenRequest
  <2>2. t[2] \in Ticket /\ t[2] \in Nat
    BY <1>0, <2>1, TokenFacts DEF TicketsOK, Ticket
  <2>3. e \in SocketRow /\ e.ticket = t[2]
    BY <2>1, <2>2, Numbers DEF SocketRow
  <2>4. /\ Revoke(t, clock + TicketLife)
        /\ sockets' = Append(sockets, e) \/ sockets' = sockets
        /\ req' = [req EXCEPT ![q] = Idle] /\ started' = started /\ clock' = clock
        /\ UNCHANGED <<accounts, password, grants, tickets, history>>
    BY <1>11 DEF OpenSocket
  <2> HIDE DEF t, e
  <2>5. /\ \A row \in revoked' : row.token \in Issued /\ row.until \in Nat
        /\ \A row \in revoked : row.until >= clock => row \in revoked'
    BY <1>0, <2>1, <2>4, Revoked, Numbers
  <2>6. SocketsOK'
    <3>1. CASE sockets' = sockets
      BY <1>0, <2>4, <3>1 DEF SocketsOK, Socket, Ticket
    <3>2. CASE sockets' = Append(sockets, e)
      <4>1. /\ sockets' \in Seq(SocketRow) /\ Socket = 1..Len(sockets) /\ Len(sockets) \in Nat
            /\ Socket' = 1..(Len(sockets) + 1)
            /\ \A s \in Socket : sockets'[s] = sockets[s]
            /\ sockets'[Len(sockets) + 1] = e
        BY <1>0, <2>3, <3>2, Appended DEF SocketsOK, Socket
      <4>2. ASSUME NEW s \in Socket' PROVE sockets'[s].ticket \in Ticket
        <5>1. CASE s \in Socket
          BY <1>0, <4>1, <5>1 DEF SocketsOK
        <5>2. CASE s = Len(sockets) + 1
          BY <2>2, <2>3, <4>1, <5>2
        <5> QED BY <4>1, <5>1, <5>2
      <4> QED BY <2>4, <4>1, <4>2 DEF SocketsOK, Socket, Ticket
    <3> QED BY <2>4, <3>1, <3>2
  <2>7. GrantsOK' /\ TicketsOK' /\ RevokedOK' /\ AccountsOK' /\ Grant' = Grant /\ Ticket' = Ticket
    BY <1>0, <2>4, <2>5, UntouchedTables DEF accounts, AccountsOK, Grant, Ticket, RevokedOK, Issued
  <2>8. Advances
    BY <1>0, <2>4, <2>5, <2>7 DEF Advances, accounts, AccountsOK
  <2> QED BY <1>0, <2>4, <2>6, <2>7, <2>8, WritingStep DEF accounts
<1>12. CASE Logout(q) \/ LogoutClaim(q)
  <2>1. /\ req[q].token \in Issued /\ req[q].token[1] = "access" /\ req[q].op = "logout"
        /\ req[q].pc \notin {"idle", "login", "minting"}
    BY <1>5, <1>12, Kinds DEF Logout, LogoutClaim, Checked
  <2>2. req[q].token[2] \in Grant
    BY <2>1, TokenFacts
  <2>3. RefreshOf(q) \in Issued
    BY <2>2 DEF RefreshOf, Issued
  <2>4. PICK t \in Issued :
          /\ Revoke(t, Expiry(t)) /\ started' = started /\ clock' = clock
          /\ UNCHANGED <<accounts, password, grants, tickets, sockets, replayed>>
          /\ \/ /\ req' = [req EXCEPT ![q] = [req[q] EXCEPT !.pc = "logout load"]]
                /\ loggedOut' = loggedOut
             \/ /\ req' = [req EXCEPT ![q] = Idle]
                /\ loggedOut' = loggedOut \cup {req[q].token[2]}
    BY <1>12, <2>1, <2>3 DEF Logout, LogoutClaim, LogoutDone
  <2>5. /\ \A row \in revoked' : row.token \in Issued /\ row.until \in Nat
        /\ \A row \in revoked : row.until >= clock => row \in revoked'
    BY <2>4, TokenFacts, Revoked
  <2>6. /\ GrantsOK' /\ TicketsOK' /\ SocketsOK' /\ RevokedOK' /\ AccountsOK'
        /\ Grant' = Grant /\ Ticket' = Ticket
    BY <1>0, <2>4, <2>5, UntouchedTables DEF accounts, AccountsOK, Grant, Ticket, RevokedOK, Issued
  <2>7. Advances
    <3>1. UNCHANGED <<clock, role, active, version, password, grants, tickets>>
      BY <2>4 DEF accounts
    <3> QED BY <1>0, <2>5, <2>6, <3>1 DEF Advances, AccountsOK
  <2>8. RequestOK([req[q] EXCEPT !.pc = "logout load"], Issued, version)
    BY <1>6, <2>1
  <2>9. loggedOut' \subseteq Grant
    BY <1>0, <2>2, <2>4
  <2> QED BY <1>0, <2>4, <2>6, <2>7, <2>8, <2>9, WritingStep DEF accounts
<1>13. CASE ChangePassword(q)
  <2> DEFINE t == req[q].token
             u == Subject(t)
  <2>1. t \in Issued
    BY <1>5, <1>13 DEF ChangePassword
  <2>2. u \in User
    BY <2>1, TokenFacts
  <2>3. /\ EndAllSessions(u) /\ password' = [password EXCEPT ![u] = @ + 1]
        /\ Mint(u, version'[u], password'[u], 0)
        /\ req' = [req EXCEPT ![q] = Idle] /\ started' = started /\ clock' = clock
        /\ UNCHANGED <<role, active, tickets, revoked, sockets, history>>
    BY <1>13 DEF ChangePassword
  <2> HIDE DEF t, u
  <2>4. /\ version' \in [User -> 0..MaxVersion] /\ version'[u] = version[u] + 1
        /\ \A v \in User : version[v] <= version'[v]
    BY <2>2, <2>3, EndTypes
  <2>5. /\ password' \in [User -> Nat] /\ password'[u] \in Nat
        /\ \A v \in User \ {u} : password'[v] = password[v]
    BY <1>0, <2>2, <2>3
  <2>6. version'[u] \in 0..MaxVersion
    BY <2>2, <2>4
  <2>7. GrantsOK' /\ Grant \subseteq Grant' /\ \A g \in Grant : grants'[g] = grants[g]
    BY <2>2, <2>3, <2>5, <2>6, MintTypes
  <2>8. TicketsOK' /\ SocketsOK' /\ RevokedOK' /\ AccountsOK' /\ Ticket' = Ticket
    BY <1>0, <2>3, <2>4, <2>7, UntouchedTables DEF AccountsOK, Ticket
  <2>9. version[u] < version'[u]
    BY <1>0, <2>2, <2>4
  <2>10. Advances
    BY <1>0, <2>3, <2>4, <2>5, <2>7, <2>8, <2>9 DEF Advances
  <2> QED BY <1>0, <2>3, <2>5, <2>7, <2>8, <2>10, WritingStep
<1> QED BY <1>7, <1>8, <1>9, <1>10, <1>11, <1>12, <1>13

\* The steps of a socket and its guard (ws.py).
LEMMA SocketSteps ==
  ASSUME TypeInv, NEW s \in Socket, Serve(s) \/ Disconnect(s) \/ Guard(s)
  PROVE  TypeInv' /\ Advances
<1>1. PICK state \in {"opening", "serving", "closed"}, errors \in 0..(GuardErrors - 1) :
        Becomes(s, state, errors)
  <2>1. sockets[s].errors \in 0..(GuardErrors - 1) /\ 0 \in 0..(GuardErrors - 1)
    BY Rows, Numbers DEF SocketRow
  <2>2. CASE Serve(s)
    BY <2>1, <2>2 DEF Serve
  <2>3. CASE Disconnect(s)
    BY <2>1, <2>3 DEF Disconnect
  <2>4. CASE Guard(s)
    <3>1. CASE GuardFails(s)
      <4>1. sockets[s].errors + 1 < GuardErrors =>
              sockets[s].errors + 1 \in 0..(GuardErrors - 1)
        BY <2>1, Numbers
      <4>2. sockets[s].errors + 1 >= GuardErrors \/ sockets[s].errors + 1 < GuardErrors
        BY <2>1, Numbers
      <4> QED BY <2>1, <3>1, <4>1, <4>2 DEF GuardFails
    <3> QED BY <2>1, <2>4, <3>1 DEF Guard
  <2> QED BY <2>2, <2>3, <2>4
<1>2. /\ UNCHANGED <<accounts, tables, clock, req, started, history>>
      /\ sockets' = [sockets EXCEPT ![s].state = state, ![s].errors = errors]
  BY <1>1 DEF Becomes
<1>3. SocketsOK'
  <2>1. /\ sockets \in Seq(SocketRow) /\ sockets[s] \in SocketRow /\ s \in 1..Len(sockets)
        /\ \A i \in Socket : sockets[i].ticket \in Ticket
    BY Rows DEF TypeInv, SocketsOK, Socket
  <2> DEFINE e == [sockets[s] EXCEPT !.state = state, !.errors = errors]
  <2>2. sockets' = [sockets EXCEPT ![s] = e]
    BY <1>2
  <2>3. e \in SocketRow /\ e.ticket = sockets[s].ticket
    BY <2>1 DEF SocketRow
  <2> HIDE DEF e
  <2>4. sockets' \in Seq(SocketRow) /\ DOMAIN sockets' = DOMAIN sockets
    BY <2>1, <2>2, <2>3
  <2>5. \A i \in Socket : sockets'[i].ticket \in Ticket
    BY <2>1, <2>2, <2>3 DEF Socket
  <2> QED BY <1>2, <2>4, <2>5 DEF SocketsOK, Socket, Ticket, tables
<1>4. Advances
  BY <1>2, Numbers DEF Advances, TypeInv, AccountsOK, accounts, tables, Grant, Ticket
<1>5. AccountsOK' /\ (\A u \in User : role'[u] # Absent) /\ clock' \in 0..MaxClock
  BY <1>2 DEF TypeInv, AccountsOK, accounts
<1> QED BY <1>2, <1>3, <1>4, <1>5, NoRequest

\* An administrator changes a role or an active flag (routes/users.py).
LEMMA AdminSteps ==
  ASSUME TypeInv, NEW u \in User, Administer(u)
  PROVE  TypeInv' /\ Advances
<1> USE Numbers
<1>1. /\ UNCHANGED <<tables, sockets, clock, req, started, history>>
      /\ \/ \E r \in {"viewer", "operator"} : SetRole(u, r)
         \/ \E b \in BOOLEAN : SetActive(u, b)
  BY DEF Administer
<1>2. /\ AccountsOK' /\ \A v \in User : role'[v] # Absent
      /\ \A v \in User : version[v] <= version'[v]
      /\ \A v \in User : (active[v] /\ ~active'[v]) => version[v] < version'[v]
  <2>1. ASSUME NEW r \in {"viewer", "operator"}, SetRole(u, r)
        PROVE  /\ AccountsOK' /\ \A v \in User : role'[v] # Absent
               /\ \A v \in User : version[v] <= version'[v]
               /\ active' = active
    <3>1. version' \in [User -> 0..MaxVersion] /\ \A v \in User : version[v] <= version'[v]
      BY <2>1, EndTypes DEF SetRole, TypeInv, AccountsOK
    <3>2. /\ role' = [role EXCEPT ![u] = r] /\ active' = active
      BY <2>1 DEF SetRole
    <3> QED BY <3>1, <3>2 DEF TypeInv, AccountsOK, Role, Absent
  <2>2. ASSUME NEW b \in BOOLEAN, SetActive(u, b)
        PROVE  /\ AccountsOK' /\ role' = role
               /\ \A v \in User : version[v] <= version'[v]
               /\ \A v \in User : (active[v] /\ ~active'[v]) => version[v] < version'[v]
    <3>1. role' = role /\ active' = [active EXCEPT ![u] = b]
      BY <2>2 DEF SetActive
    <3>2. CASE b
      BY <2>2, <3>1, <3>2 DEF SetActive, TypeInv, AccountsOK
    <3>3. CASE ~b
      <4>1. EndAllSessions(u)
        BY <2>2, <3>3 DEF SetActive
      <4>2. /\ version' \in [User -> 0..MaxVersion] /\ version'[u] = version[u] + 1
            /\ version[u] \in Nat
            /\ \A v \in User : version[v] <= version'[v]
        BY <4>1, EndTypes
      <4>3. AccountsOK'
        BY <3>1, <4>2 DEF TypeInv, AccountsOK
      <4>4. \A v \in User : v # u => (active'[v] <=> active[v])
        BY <3>1 DEF TypeInv, AccountsOK
      <4>5. version[u] < version'[u]
        BY <4>2
      <4> QED BY <3>1, <4>2, <4>3, <4>4, <4>5
    <3> QED BY <3>2, <3>3
  <2> QED BY <1>1, <2>1, <2>2 DEF TypeInv
<1>3. Advances
  BY <1>1, <1>2 DEF Advances, TypeInv, AccountsOK, tables, Grant, Ticket
<1>4. SocketsOK' /\ clock' \in 0..MaxClock
  BY <1>1 DEF TypeInv, SocketsOK, Socket, Ticket, tables
<1> QED BY <1>1, <1>2, <1>3, <1>4, NoRequest

\* Time passes: no row changes, and no row gets younger than the clock.
LEMMA TickStep ==
  ASSUME TypeInv, Tick
  PROVE  TypeInv' /\ Advances
<1>1. /\ UNCHANGED <<accounts, tables, sockets, req, started, history>>
      /\ clock' = clock + 1 /\ clock \in Nat /\ clock' \in 0..MaxClock
  BY Numbers DEF Tick, TypeInv
<1>2. Advances
  BY <1>1 DEF Advances, TypeInv, AccountsOK, accounts, tables, Grant, Ticket
<1>3. AccountsOK' /\ (\A u \in User : role'[u] # Absent) /\ SocketsOK'
  BY <1>1 DEF TypeInv, AccountsOK, SocketsOK, Socket, Ticket, accounts, tables
<1> QED BY <1>1, <1>2, <1>3, NoRequest

\* Every step of a request, a socket, an administrator or the clock.
LEMMA StepAdvances ==
  ASSUME TypeInv, [Next]_vars
  PROVE  TypeInv' /\ Advances
<1>1. CASE UNCHANGED vars
  <2>1. UNCHANGED <<accounts, tables, sockets, clock, req, started, history>>
    BY <1>1 DEF vars
  <2>2. Advances
    BY <2>1, Numbers DEF Advances, TypeInv, AccountsOK, accounts, tables, Grant, Ticket
  <2>3. /\ AccountsOK' /\ (\A u \in User : role'[u] # Absent) /\ SocketsOK'
        /\ clock' \in 0..MaxClock
    BY <2>1 DEF TypeInv, AccountsOK, SocketsOK, Socket, Ticket, accounts, tables
  <2> QED BY <2>1, <2>2, <2>3, NoRequest
<1>2. CASE Next
  <2>1. Floors \subseteq Role /\ "viewer" \in Role
        /\ {"refresh", "ticket", "logout", "password"} \subseteq Op /\ "open" \in Op
    BY Numbers DEF Op
  <2> QED BY <1>2, <2>1, ReadingSteps, WritingSteps, SocketSteps, AdminSteps, TickStep DEF Next
<1> QED BY <1>1, <1>2

\* A system in which nobody has logged in yet.
LEMMA InitTypes == Init => TypeInv
<1> SUFFICES ASSUME Init PROVE TypeInv
  OBVIOUS
<1>1. AccountsOK /\ (\A u \in User : role[u] # Absent) /\ password \in [User -> Nat]
  BY Numbers DEF Init, AccountsOK, Role, Absent
<1>2. grants = <<>> /\ tickets = <<>> /\ sockets = <<>> /\ Grant = {} /\ Ticket = {} /\ Socket = {}
  BY DEF Init, Grant, Ticket, Socket
<1>3. GrantsOK /\ TicketsOK /\ SocketsOK
  BY <1>2 DEF GrantsOK, TicketsOK, SocketsOK
<1>4. \A q \in Request : RequestOK(req[q], Issued, version)
  BY DEF Init, RequestOK
<1> QED BY <1>1, <1>3, <1>4, Numbers, StartAssumption DEF Init, TypeInv, RevokedOK

\* Every reachable state has these types, and requests know what they may know.
LEMMA TypeInvariant == Spec => []TypeInv
  BY InitTypes, StepAdvances, PTL DEF Spec

\* Accounts, pairs, tickets, sockets and requests keep their types; every pair comes from an
\* older one or a password, every ticket from a pair, every socket from a ticket (auth.py,
\* routes/auth.py, ws.py).
THEOREM SessionsTypeCorrect == Spec => []TypeOK
<1>1. TypeInv => TypeOK
  <2> SUFFICES ASSUME TypeInv PROVE TypeOK
    OBVIOUS
  <2>1. clock \in Nat /\ GrantsOK /\ TicketsOK /\ SocketsOK
    BY Numbers DEF TypeInv
  <2>2. ASSUME NEW g \in Grant
        PROVE  grants[g] \in [user : User, ver : 0..MaxVersion, pw : Nat, from : 0..(g - 1),
                              born : 0..clock]
    <3>1. /\ grants[g] \in GrantRow /\ grants[g].from \in 0..(g - 1)
          /\ grants[g].born \in 0..clock
      BY <2>1, Rows DEF GrantsOK
    <3> QED BY <3>1 DEF GrantRow
  <2>3. ASSUME NEW k \in Ticket PROVE tickets[k] \in [grant : Grant, born : 0..clock]
    <3>1. tickets[k] \in TicketRow /\ tickets[k].grant \in Grant /\ tickets[k].born \in 0..clock
      BY <2>1, Rows DEF TicketsOK
    <3> QED BY <3>1 DEF TicketRow
  <2>4. ASSUME NEW s \in Socket
        PROVE  sockets[s] \in [ticket : Ticket, floor : Role, errors : 0..(GuardErrors - 1),
                               state : {"opening", "serving", "closed"}]
    <3>1. sockets[s] \in SocketRow /\ sockets[s].ticket \in Ticket
      BY <2>1, Rows DEF SocketsOK
    <3> QED BY <3>1 DEF SocketRow
  <2>5. ASSUME NEW q \in Request, req[q] # Idle
        PROVE  req[q].pc \in {"login", "minting", "decoded", "checked", "replay",
                              "logout load", "logout claim", "verified"}
    BY <2>5 DEF TypeInv, RequestOK, TokenRequest
  <2> QED BY <2>2, <2>3, <2>4, <2>5 DEF TypeInv, TypeOK, RevokedOK
<1> QED BY <1>1, TypeInvariant, PTL

-----------------------------------------------------------------------------
(* Which steps write what *)

\* Pairs are minted by three handlers, tokens revoked by four, sockets opened by one
\* (routes/auth.py, ws.py).
LEMMA WhoWrites ==
  ASSUME TypeInv, [Next]_vars
  PROVE  /\ grants' = grants \/ \E q \in Request : LoginMint(q) \/ Rotate(q) \/ ChangePassword(q)
         /\ \/ revoked' = revoked
            \/ \E q \in Request : Rotate(q) \/ Logout(q) \/ LogoutClaim(q) \/ OpenSocket(q)
         /\ \/ /\ Socket' = Socket
               /\ \A s \in Socket : sockets'[s].ticket = sockets[s].ticket
            \/ \E q \in Request : OpenSocket(q)
         /\ replayed' = replayed \/ \E q \in Request : EndSessionsAfterReplay(q)
         /\ loggedOut' = loggedOut \/ \E q \in Request : LogoutLoad(q) \/ LogoutClaim(q)
<1> USE DEF Socket, tables, history
<1>1. CASE UNCHANGED vars
  BY <1>1 DEF vars
<1>2. ASSUME NEW q \in Request,
             \/ \E u \in User : LoginTry(q, u)
             \/ LoginRead(q) \/ Check(q) \/ WsTicket(q) \/ VerifyPassword(q)
             \/ \E op, t, floor : Present(q, op, t, floor)
      PROVE  UNCHANGED <<grants, revoked, sockets, replayed, loggedOut>>
  BY <1>2 DEF LoginTry, LoginRead, Check, WsTicket, VerifyPassword, Present
<1>3. ASSUME NEW q \in Request, LoginMint(q) \/ ChangePassword(q)
      PROVE  UNCHANGED <<revoked, sockets, replayed, loggedOut>>
  BY <1>3 DEF LoginMint, ChangePassword
<1>4. ASSUME NEW q \in Request, Rotate(q)
      PROVE  UNCHANGED <<sockets, replayed, loggedOut>>
  BY <1>4 DEF Rotate
<1>5. ASSUME NEW q \in Request, EndSessionsAfterReplay(q)
      PROVE  UNCHANGED <<grants, revoked, sockets, loggedOut>>
  BY <1>5 DEF EndSessionsAfterReplay
<1>6. ASSUME NEW q \in Request, OpenSocket(q)
      PROVE  UNCHANGED <<grants, replayed, loggedOut>>
  BY <1>6 DEF OpenSocket
<1>7. ASSUME NEW q \in Request, Logout(q)
      PROVE  UNCHANGED <<grants, sockets, replayed, loggedOut>>
  BY <1>7 DEF Logout
<1>8. ASSUME NEW q \in Request, LogoutLoad(q)
      PROVE  UNCHANGED <<grants, revoked, sockets, replayed>>
  BY <1>8 DEF LogoutLoad
<1>9. ASSUME NEW q \in Request, LogoutClaim(q)
      PROVE  UNCHANGED <<grants, sockets, replayed>>
  BY <1>9 DEF LogoutClaim, LogoutDone
<1>10. ASSUME NEW s \in Socket, Serve(s) \/ Disconnect(s) \/ Guard(s)
       PROVE  /\ UNCHANGED <<grants, revoked, replayed, loggedOut>> /\ Socket' = Socket
              /\ \A i \in Socket : sockets'[i].ticket = sockets[i].ticket
  <2>1. PICK state, errors : Becomes(s, state, errors)
    BY <1>10 DEF Serve, Disconnect, Guard, GuardFails
  <2>2. \A i \in Socket : sockets[i] \in SocketRow
    BY Rows
  <2> QED BY <2>1, <2>2 DEF Becomes, SocketRow
<1>11. ASSUME (\E u \in User : Administer(u)) \/ Tick
       PROVE  UNCHANGED <<grants, revoked, sockets, replayed, loggedOut>>
  BY <1>11 DEF Administer, Tick
<1> QED
  BY <1>1, <1>2, <1>3, <1>4, <1>5, <1>6, <1>7, <1>8, <1>9, <1>10, <1>11 DEF Next

\* The steps after which a request still has something to do.
LEMMA WhoActs ==
  ASSUME TypeInv, [Next]_vars, NEW p \in Request
  PROVE  \/ req'[p] = req[p] \/ req'[p] = Idle
         \/ \E u \in User : LoginTry(p, u)
         \/ LoginRead(p)
         \/ \E op, t, floor : Present(p, op, t, floor)
         \/ Check(p) \/ Rotate(p) \/ Logout(p) \/ LogoutLoad(p) \/ VerifyPassword(p)
<1> USE DEF Goes, Answered, history, TypeInv
<1>1. CASE UNCHANGED vars
  BY <1>1 DEF vars
<1>2. ASSUME NEW q \in Request,
             \/ \E u \in User : LoginTry(q, u)
             \/ LoginRead(q) \/ Check(q) \/ VerifyPassword(q)
             \/ \E op, t, floor : Present(q, op, t, floor)
             \/ Rotate(q) \/ Logout(q) \/ LogoutLoad(q)
      PROVE  q = p \/ req'[p] = req[p]
  BY <1>2 DEF LoginTry, LoginRead, Check, VerifyPassword, Present, Rotate, Logout, LogoutLoad,
              LogoutDone, Starts, Step
<1>3. ASSUME NEW q \in Request,
             \/ LoginMint(q) \/ ChangePassword(q) \/ EndSessionsAfterReplay(q) \/ OpenSocket(q)
             \/ WsTicket(q) \/ LogoutClaim(q)
      PROVE  req'[p] = Idle \/ req'[p] = req[p]
  BY <1>3 DEF LoginMint, ChangePassword, EndSessionsAfterReplay, OpenSocket, WsTicket,
              LogoutClaim, LogoutDone
<1>4. ASSUME \/ \E s \in Socket : Serve(s) \/ Disconnect(s) \/ Guard(s)
             \/ (\E u \in User : Administer(u)) \/ Tick
      PROVE  req'[p] = req[p]
  BY <1>4 DEF Serve, Disconnect, Guard, GuardFails, Becomes, Administer, Tick
<1> QED BY <1>1, <1>2, <1>3, <1>4 DEF Next

\* What a token is does not change.
LEMMA TokenStays ==
  ASSUME TypeInv, Advances, NEW t \in Issued
  PROVE  /\ t \in Issued' /\ GrantOf(t)' = GrantOf(t) /\ Subject(t)' = Subject(t)
         /\ Version(t)' = Version(t) /\ Expiry(t)' = Expiry(t)
         /\ Lapsed(t) => Lapsed(t)'
         /\ RevocationKeys(t)' = RevocationKeys(t)
<1>1. /\ GrantOf(t) \in Grant /\ Expiry(t) \in Nat
      /\ t[1] \in Kind
      /\ t[1] # "ws" => t[2] \in Grant /\ GrantOf(t) = t[2]
      /\ t[1] = "ws" => t[2] \in Ticket /\ GrantOf(t) = tickets[t[2]].grant
  BY TokenFacts
<1>2. GrantOf(t)' = GrantOf(t)
  BY <1>1 DEF Advances, GrantOf
<1>3. Subject(t)' = Subject(t) /\ Version(t)' = Version(t)
  BY <1>1, <1>2 DEF Advances, Subject, Version
<1>4. Expiry(t)' = Expiry(t)
  <2>1. CASE t[1] = "ws"
    BY <1>1, <2>1 DEF Advances, Expiry
  <2>2. CASE t[1] = "access"
    BY <1>1, <2>2 DEF Advances, Expiry
  <2>3. CASE t[1] = "refresh"
    BY <1>1, <2>3 DEF Advances, Expiry
  <2> QED BY <1>1, <2>1, <2>2, <2>3 DEF Kind
<1>5. Lapsed(t) => Lapsed(t)'
  <2>1. clock \in Nat /\ clock' \in Nat /\ clock <= clock'
    BY Numbers DEF TypeInv, Advances
  <2> QED BY <1>1, <1>4, <2>1 DEF Lapsed
<1>6. RevocationKeys(t)' = RevocationKeys(t)
  BY <1>2 DEF RevocationKeys
<1> QED BY <1>2, <1>3, <1>4, <1>5, <1>6, IssuedStays

\* Which tokens the four handlers revoke, and for how long.
LEMMA WhatIsRevoked ==
  ASSUME TypeInv, NEW q \in Request
  PROVE  /\ Rotate(q) => /\ req[q].token \in Issued /\ req[q].token[1] = "refresh"
                         /\ Revoke(req[q].token, Expiry(req[q].token))
         /\ Logout(q) => /\ req[q].token \in Issued /\ req[q].token[1] = "access"
                         /\ Revoke(req[q].token, Expiry(req[q].token))
         /\ LogoutClaim(q) => /\ req[q].token \in Issued /\ req[q].token[1] = "access"
                              /\ RefreshOf(q) \in Issued
                              /\ Revoke(RefreshOf(q), Expiry(RefreshOf(q)))
         /\ OpenSocket(q) => /\ req[q].token \in Issued /\ req[q].token[1] = "ws"
                             /\ Revoke(req[q].token, clock + TicketLife)
         /\ LogoutLoad(q) => /\ req[q].token \in Issued /\ req[q].token[1] = "access"
                             /\ RefreshOf(q) \in Issued
         /\ EndSessionsAfterReplay(q) => /\ req[q].token \in Issued
                                         /\ req[q].token[1] = "refresh"
<1>1. ASSUME req[q].pc \notin {"idle", "login", "minting"}
      PROVE  /\ req[q].token \in Issued /\ req[q].token[1] = KindFor(req[q].op)
             /\ req[q].pc = "replay" => req[q].op = "refresh"
             /\ req[q].pc \in {"logout load", "logout claim"} => req[q].op = "logout"
  BY <1>1, IdleFact DEF TypeInv, RequestOK
<1>2. ASSUME req[q].token \in Issued, req[q].token[1] = "access"
      PROVE  RefreshOf(q) \in Issued
  BY <1>2, TokenFacts DEF RefreshOf, Issued
<1> QED
  BY <1>1, <1>2, Kinds DEF Rotate, Logout, LogoutClaim, OpenSocket, LogoutLoad,
                           EndSessionsAfterReplay, Checked

\* Where a new pair comes from: a login, the exchange of a refresh token that was claimed, or
\* a new password (routes/auth.py).
LEMMA NewPair ==
  ASSUME TypeInv, [Next]_vars, NEW g \in Grant', g \notin Grant
  PROVE  /\ \A h \in Grant' : h \notin Grant => h = g
         /\ \/ /\ grants'[g].from = 0 /\ UNCHANGED <<version, password>>
               /\ \E q \in Request : /\ req[q].pc = "minting" /\ req[q].user \in User
                                     /\ req[q].ver \in 0..version[req[q].user]
                                     /\ grants'[g].user = req[q].user
                                     /\ grants'[g].ver = req[q].ver
                                     /\ grants'[g].pw = req[q].pw
            \/ /\ grants'[g].from \in Grant /\ UNCHANGED <<version, password, clock>>
               /\ <<"refresh", grants'[g].from>> \in Issued
               /\ Claims(<<"refresh", grants'[g].from>>)
               /\ \E row \in revoked' : row.token = <<"refresh", grants'[g].from>>
               /\ grants'[g].user = grants[grants'[g].from].user
               /\ grants'[g].ver = grants[grants'[g].from].ver
               /\ grants'[g].pw = grants[grants'[g].from].pw
            \/ /\ grants'[g].from = 0 /\ grants'[g].user \in User
               /\ grants'[g].ver = version'[grants'[g].user]
               /\ grants'[g].pw = password'[grants'[g].user]
<1>1. PICK q \in Request : LoginMint(q) \/ Rotate(q) \/ ChangePassword(q)
  BY WhoWrites DEF Grant
<1>2. RequestOK(req[q], Issued, version)
  BY DEF TypeInv
<1>3. CASE LoginMint(q)
  <2>1. /\ req[q].pc = "minting" /\ req[q].user \in User
        /\ req[q].ver \in 0..version[req[q].user] /\ req[q].pw \in Nat
    BY <1>2, <1>3, IdleFact DEF LoginMint, RequestOK, TokenRequest
  <2>2. req[q].ver \in 0..MaxVersion
    BY <2>1, AccountFacts, Numbers
  <2>3. Mint(req[q].user, req[q].ver, req[q].pw, 0) /\ UNCHANGED <<version, password>>
    BY <1>3 DEF LoginMint, accounts
  <2>4. /\ Grant' = Grant \cup {Len(grants) + 1}
        /\ grants'[Len(grants) + 1] = [user |-> req[q].user, ver |-> req[q].ver,
                                       pw |-> req[q].pw, from |-> 0, born |-> clock]
    BY <2>1, <2>2, <2>3, Minted
  <2> QED BY <2>1, <2>3, <2>4
<1>4. CASE Rotate(q)
  <2>1. PICK t : t = req[q].token
    OBVIOUS
  <2>2. t \in Issued /\ t[1] = "refresh" /\ Revoke(t, Expiry(t))
    BY <1>4, <2>1, WhatIsRevoked
  <2>3. /\ t[2] \in Grant /\ t = <<"refresh", t[2]>> /\ Expiry(t) \in Nat
        /\ Subject(t) = grants[t[2]].user /\ Version(t) = grants[t[2]].ver
        /\ Subject(t) \in User /\ Version(t) \in 0..MaxVersion
    BY <2>2, TokenFacts DEF Subject, Version
  <2>4. grants[t[2]].pw \in Nat /\ t[2] \in Nat
    BY <2>3, Rows DEF GrantRow
  <2>5. /\ Claims(t) /\ Mint(Subject(t), Version(t), grants[t[2]].pw, t[2])
        /\ UNCHANGED <<version, password, clock>>
    BY <1>4, <2>1 DEF Rotate, accounts, Grant
  <2>6. /\ Grant' = Grant \cup {Len(grants) + 1}
        /\ grants'[Len(grants) + 1] = [user |-> Subject(t), ver |-> Version(t),
                                       pw |-> grants[t[2]].pw, from |-> t[2], born |-> clock]
    BY <2>3, <2>4, <2>5, Minted
  <2>7. \E row \in revoked' : row.token = t
    BY <2>2, <2>3, Revoked
  <2>8. g = Len(grants) + 1 /\ grants'[g].from = t[2] /\ grants'[g].user = Subject(t)
        /\ grants'[g].ver = Version(t) /\ grants'[g].pw = grants[t[2]].pw
    BY <2>6
  <2> QED BY <2>2, <2>3, <2>5, <2>6, <2>7, <2>8
<1>5. CASE ChangePassword(q)
  <2>1. PICK u : u = Subject(req[q].token)
    OBVIOUS
  <2>2. u \in User
    <3>1. req[q].token \in Issued
      BY <1>2, <1>5, IdleFact DEF ChangePassword, RequestOK
    <3> QED BY <2>1, <3>1, TokenFacts
  <2>3. /\ EndAllSessions(u) /\ password' = [password EXCEPT ![u] = @ + 1]
        /\ Mint(u, version'[u], password'[u], 0)
    BY <1>5, <2>1 DEF ChangePassword
  <2>4. version'[u] \in 0..MaxVersion /\ password'[u] \in Nat
    BY <2>2, <2>3, EndTypes DEF TypeInv
  <2>5. /\ Grant' = Grant \cup {Len(grants) + 1}
        /\ grants'[Len(grants) + 1] = [user |-> u, ver |-> version'[u], pw |-> password'[u],
                                       from |-> 0, born |-> clock]
    BY <2>2, <2>3, <2>4, Minted
  <2> QED BY <2>2, <2>5
<1> QED BY <1>1, <1>3, <1>4, <1>5

-----------------------------------------------------------------------------
(* Dead tokens *)

\* A row of revoked_tokens lasts as long as its token, and no token is newer than the version
\* of its user.
RevokedLong == \A row \in revoked : Expiry(row.token) <= row.until
VersionsBelow == \A g \in Grant : grants[g].ver <= version[grants[g].user]
DeathInv == RevokedLong /\ VersionsBelow

Dead(t) ==
  \/ Lapsed(t) \/ IsRevoked(RevocationKeys(t)) \/ Version(t) # version[Subject(t)]
  \/ t[1] = "ws" /\ Lapsed(<<"access", GrantOf(t)>>)

Spent(t) == Lapsed(t) \/ \E row \in revoked : row.token = t

\* A token that was issued is gone for one of four reasons, or alive (auth.py:139).
LEMMA StatusOfIssued ==
  ASSUME NEW t \in Issued
  PROVE  /\ TokenStatus(t) \in {"live", "dead", "lapsed"}
         /\ TokenStatus(t) = "lapsed" <=> TokenLapsed(t)
         /\ TokenStatus(t) = "live" <=> ~Dead(t)
         /\ Gone(t) <=> Dead(t)
  BY DEF TokenStatus, Dead, TokenLapsed, Gone

\* What a handler revoked stays revoked up to its exp (auth.py:224).
LEMMA SpentStays ==
  ASSUME TypeInv, DeathInv, Advances, NEW t \in Issued, Spent(t)
  PROVE  Spent(t)'
<1>1. CASE Lapsed(t)
  BY <1>1, TokenStays DEF Spent
<1>2. ASSUME NEW row \in revoked, row.token = t PROVE Spent(t)'
  <2>1. CASE row.until >= clock
    BY <1>2, <2>1 DEF Advances, Spent
  <2>2. CASE ~(row.until >= clock)
    <3>1. Expiry(t) <= row.until /\ row.until \in Nat /\ Expiry(t) \in Nat /\ clock \in Nat
      BY <1>2, TokenFacts, Numbers DEF DeathInv, RevokedLong, TypeInv, RevokedOK
    <3>2. Lapsed(t)
      BY <2>2, <3>1 DEF Lapsed
    <3> QED BY <3>2, TokenStays DEF Spent
  <2> QED BY <2>1, <2>2
<1> QED BY <1>1, <1>2 DEF Spent

\* Only a token past its exp can be claimed twice (auth.py:224).
LEMMA ClaimOfSpent ==
  ASSUME TypeInv, DeathInv, NEW t \in Issued, Spent(t), Claims(t)
  PROVE  Lapsed(t)
<1> SUFFICES ASSUME NEW row \in revoked, row.token = t PROVE Lapsed(t)
  BY DEF Spent
<1>1. Expiry(t) <= row.until /\ row.until \in Nat /\ Expiry(t) \in Nat /\ clock \in Nat
  BY TokenFacts, Numbers DEF DeathInv, RevokedLong, TypeInv, RevokedOK
<1>2. row.until < clock
  BY <1>1 DEF Claims, Kept
<1> QED BY <1>1, <1>2 DEF Lapsed

\* A token that has lapsed does not come back, nor a ticket of a lapsed access token.
LEMMA LapsedStays ==
  ASSUME TypeInv, Advances, NEW t \in Issued, TokenLapsed(t)
  PROVE  TokenLapsed(t)'
<1>1. <<"access", GrantOf(t)>> \in Issued
  BY TokenFacts DEF Issued
<1> QED BY <1>1, TokenStays DEF TokenLapsed

\* A token that is dead stays dead in every step.
LEMMA DeadStays ==
  ASSUME TypeInv, DeathInv, Advances, NEW t \in Issued, Dead(t)
  PROVE  Dead(t)'
<1> DEFINE a == <<"access", GrantOf(t)>>
<1>0. /\ a \in Issued /\ GrantOf(t) \in Grant /\ Subject(t) \in User
      /\ Subject(t) = grants[GrantOf(t)].user /\ Version(t) = grants[GrantOf(t)].ver
  BY TokenFacts DEF Issued, Subject, Version
<1>1. CASE Lapsed(t)
  BY <1>1, TokenStays DEF Dead
<1>2. CASE t[1] = "ws" /\ Lapsed(a)
  <2>1. Lapsed(a)'
    BY <1>0, <1>2, TokenStays
  <2> QED BY <1>2, <2>1, TokenStays DEF Dead
<1>3. CASE Version(t) # version[Subject(t)]
  <2>1. /\ Version(t) <= version[Subject(t)] /\ version[Subject(t)] <= version'[Subject(t)]
        /\ version[Subject(t)] \in Nat /\ version'[Subject(t)] \in Nat /\ Version(t) \in Nat
    BY <1>0, AccountFacts, Rows, Numbers DEF DeathInv, VersionsBelow, Advances
  <2>2. Version(t) # version'[Subject(t)]
    BY <1>3, <2>1
  <2> QED BY <2>2, TokenStays DEF Dead
<1>4. CASE IsRevoked(RevocationKeys(t))
  <2>1. PICK k \in RevocationKeys(t) : \E row \in revoked : row.token = k
    BY <1>4 DEF IsRevoked
  <2>2. k \in Issued /\ (k = t \/ (t[1] = "ws" /\ k = a))
    BY <1>0, <2>1 DEF RevocationKeys
  <2>3. Spent(k)'
    BY <2>1, <2>2, SpentStays DEF Spent
  <2>4. CASE Lapsed(k)'
    <3>1. CASE k = t
      BY <2>4, <3>1 DEF Dead
    <3>2. CASE t[1] = "ws" /\ k = a
      <4>1. Lapsed(<<"access", GrantOf(t)>>)'
        BY <2>4, <3>2, TokenStays
      <4> QED BY <3>2, <4>1 DEF Dead
    <3> QED BY <2>2, <3>1, <3>2
  <2>5. CASE \E row \in revoked' : row.token = k
    BY <2>1, <2>5, TokenStays DEF Dead, IsRevoked
  <2> QED BY <2>3, <2>4, <2>5 DEF Spent
<1> QED BY <1>1, <1>2, <1>3, <1>4 DEF Dead

\* Revocation rows outlive their tokens, versions are those of the past (auth.py:224, :241).
LEMMA DeathStep ==
  ASSUME TypeInv, DeathInv, [Next]_vars
  PROVE  DeathInv'
<1>0. TypeInv' /\ Advances
  BY StepAdvances
<1>1. VersionsBelow'
  <2> SUFFICES ASSUME NEW g \in Grant' PROVE grants'[g].ver <= version'[grants'[g].user]
    BY DEF VersionsBelow
  <2>1. CASE g \in Grant
    <3>1. /\ grants'[g] = grants[g] /\ grants[g].ver <= version[grants[g].user]
          /\ grants[g].user \in User /\ grants[g].ver \in Nat
      BY <1>0, <2>1, Rows DEF Advances, DeathInv, VersionsBelow
    <3>2. /\ version[grants[g].user] <= version'[grants[g].user]
          /\ version[grants[g].user] \in Nat /\ version'[grants[g].user] \in Nat
      BY <1>0, <3>1, AccountFacts, Numbers DEF Advances
    <3> QED BY <3>1, <3>2
  <2>2. CASE g \notin Grant
    <3>1. grants'[g].user \in User /\ grants'[g].ver \in Nat
      <4>1. grants'[g] \in GrantRow
        BY <1>0 DEF TypeInv, GrantsOK, Grant
      <4> QED BY <4>1, Numbers DEF GrantRow
    <3>2. \A u \in User : version[u] \in Nat /\ version'[u] \in Nat
      BY <1>0, AccountFacts, Numbers DEF Advances
    <3>3. \A h \in Grant : grants[h].ver <= version[grants[h].user]
      BY DEF DeathInv, VersionsBelow
    <3>4. \/ grants'[g].ver = version'[grants'[g].user]
          \/ /\ version' = version
             /\ \E h \in Grant : /\ grants'[g].user = grants[h].user
                                 /\ grants'[g].ver = grants[h].ver
          \/ version' = version /\ grants'[g].ver \in 0..version[grants'[g].user]
      BY <2>2, NewPair
    <3> QED BY <3>1, <3>2, <3>3, <3>4
  <2> QED BY <2>1, <2>2
<1>2. RevokedLong'
  <2>1. ASSUME NEW t \in Issued, NEW until \in Nat, Revoke(t, until), Expiry(t) <= until,
               NEW row \in revoked'
        PROVE  Expiry(row.token)' <= row.until
    <3>1. row \in revoked \/ row = [token |-> t, until |-> until]
      BY <2>1, Revoked
    <3>2. row.token \in Issued /\ Expiry(row.token) <= row.until
      BY <2>1, <3>1 DEF TypeInv, RevokedOK, DeathInv, RevokedLong
    <3> QED BY <1>0, <3>2, TokenStays
  <2>2. CASE revoked' = revoked
    <3> SUFFICES ASSUME NEW row \in revoked PROVE Expiry(row.token)' <= row.until
      BY <2>2 DEF RevokedLong
    <3>1. row.token \in Issued /\ Expiry(row.token) <= row.until
      BY DEF TypeInv, RevokedOK, DeathInv, RevokedLong
    <3> QED BY <1>0, <3>1, TokenStays
  <2>3. ASSUME NEW q \in Request, Rotate(q) \/ Logout(q) \/ LogoutClaim(q) \/ OpenSocket(q)
        PROVE  \E t \in Issued, until \in Nat : Revoke(t, until) /\ Expiry(t) <= until
    <3>1. ASSUME NEW t \in Issued PROVE Expiry(t) \in Nat /\ Expiry(t) <= Expiry(t)
      BY TokenFacts
    <3>2. ASSUME NEW t \in Issued, t[1] = "ws"
          PROVE  clock + TicketLife \in Nat /\ Expiry(t) <= clock + TicketLife
      <4>1. /\ t[2] \in Ticket /\ tickets[t[2]].born \in Nat /\ tickets[t[2]].born <= clock
            /\ clock \in Nat
        <5>1. TicketsOK /\ clock \in Nat
          BY Numbers DEF TypeInv
        <5>2. t[2] \in Ticket
          BY <3>2, TokenFacts
        <5> QED BY <5>1, <5>2, Rows DEF TicketsOK
      <4>2. Expiry(t) = Whole(tickets[t[2]].born + TicketLife)
        BY <3>2 DEF Expiry
      <4>3. tickets[t[2]].born + TicketLife \in Nat
        BY <4>1, Numbers
      <4>4. Expiry(t) \in Nat /\ Expiry(t) <= tickets[t[2]].born + TicketLife
        BY <4>2, <4>3, Seconds
      <4> QED BY <4>1, <4>4, Numbers
    <3> QED BY <2>3, <3>1, <3>2, WhatIsRevoked
  <2> QED BY <2>1, <2>2, <2>3, WhoWrites DEF RevokedLong
<1> QED BY <1>1, <1>2 DEF DeathInv

\* In every reachable state a row of revoked_tokens outlives its token and no pair is ahead of its
\* user's version (auth.py:224, :241).
LEMMA DeathInvariant == Spec => [](TypeInv /\ DeathInv)
<1>1. Init => TypeInv /\ DeathInv
  <2>1. Init => DeathInv
    BY DEF Init, DeathInv, RevokedLong, VersionsBelow, Grant
  <2> QED BY <2>1, InitTypes
<1>2. TypeInv /\ DeathInv /\ [Next]_vars => TypeInv' /\ DeathInv'
  BY StepAdvances, DeathStep
<1> QED BY <1>1, <1>2, PTL DEF Spec

LifeStatus == [t \in Token |-> TokenStatus(t)]

\* A token comes to life at most once and never comes back to life: every step of the session
\* handlers, of an administrator and of the clock is a step of TokenLife.
LEMMA LifeStep ==
  ASSUME TypeInv, DeathInv, [Next]_vars
  PROVE  Life!Next
<1>0. TypeInv' /\ Advances
  BY StepAdvances
<1>1. \A t \in Token : TokenStatus(t)' \in {"unissued", "live", "dead", "lapsed"}
  BY DEF TokenStatus
<1>2. ASSUME NEW t \in Token
      PROVE  TokenStatus(t)' = TokenStatus(t)
               \/ <<TokenStatus(t), TokenStatus(t)'>> \in Life!Moves
  <2>1. CASE t \notin Issued
    <3>1. TokenStatus(t) = "unissued"
      BY <2>1 DEF TokenStatus
    <3> QED BY <1>1, <3>1 DEF Life!Moves
  <2>2. CASE t \in Issued
    <3>1. t \in Issued'
      BY <1>0, <2>2, IssuedStays
    <3>2. /\ TokenStatus(t) \in {"live", "dead", "lapsed"}
          /\ TokenStatus(t) = "lapsed" <=> TokenLapsed(t)
          /\ TokenStatus(t) = "live" <=> ~Dead(t)
      BY <2>2, StatusOfIssued
    <3>3. /\ TokenStatus(t)' \in {"live", "dead", "lapsed"}
          /\ TokenStatus(t)' = "lapsed" <=> TokenLapsed(t)'
          /\ TokenStatus(t)' = "live" <=> ~Dead(t)'
      BY <3>1 DEF TokenStatus, Dead, TokenLapsed
    <3>4. Dead(t) => Dead(t)'
      BY <1>0, <2>2, DeadStays
    <3>5. TokenLapsed(t) => TokenLapsed(t)'
      BY <1>0, <2>2, LapsedStays
    <3> QED BY <3>2, <3>3, <3>4, <3>5 DEF Life!Moves
  <2> QED BY <2>1, <2>2
<1> QED BY <1>1, <1>2 DEF Life!Next

\* A token that was revoked or whose session was ended stays dead up to its exp, whatever rows the
\* cleanup takes and however requests interleave (check_session_state, auth.py:139; revoke_token, :216).
THEOREM TokensStayDead == Spec => ImplementsTokenLife
<1>1. Init => Life!Init
  <2>1. Init => Issued = {}
    BY DEF Init, Issued, Grant, Ticket
  <2> QED BY <2>1 DEF Life!Init, TokenStatus
<1>2. TypeInv /\ DeathInv /\ [Next]_vars => [Life!Next]_(LifeStatus)
  BY LifeStep
<1> QED BY <1>1, <1>2, DeathInvariant, PTL DEF Spec, ImplementsTokenLife, Life!Spec, LifeStatus

-----------------------------------------------------------------------------
(* Passwords *)

\* A pair, or a login about to mint one, of the current version rests on the current password.
PasswordInv ==
  /\ \A g \in Grant : grants[g].ver = version[grants[g].user]
                        => grants[g].pw = password[grants[g].user]
  /\ \A q \in Request : (req[q].pc = "minting" /\ req[q].ver = version[req[q].user])
                        => req[q].pw = password[req[q].user]

\* A new password comes with a new version in one UPDATE, and a login carries the version it
\* read with the hash (routes/auth.py:82, :187).
LEMMA PasswordStep ==
  ASSUME TypeInv, DeathInv, PasswordInv, [Next]_vars
  PROVE  PasswordInv'
<1>0. TypeInv' /\ Advances
  BY StepAdvances
<1>1. \A u \in User : /\ version[u] \in Nat /\ version'[u] \in Nat /\ version[u] <= version'[u]
                      /\ password'[u] # password[u] => version[u] < version'[u]
  BY <1>0, AccountFacts, Numbers DEF Advances
<1>2. ASSUME NEW g \in Grant', grants'[g].ver = version'[grants'[g].user]
      PROVE  grants'[g].pw = password'[grants'[g].user]
  <2>1. CASE g \in Grant
    <3>1. /\ grants'[g] = grants[g] /\ grants[g].user \in User /\ grants[g].ver \in Nat
          /\ grants[g].ver <= version[grants[g].user]
          /\ grants[g].ver = version[grants[g].user] => grants[g].pw = password[grants[g].user]
      BY <1>0, <2>1, Rows DEF Advances, PasswordInv, DeathInv, VersionsBelow
    <3> QED BY <1>1, <1>2, <3>1
  <2>2. CASE g \notin Grant
    <3>1. \A h \in Grant : grants[h].ver = version[grants[h].user]
                             => grants[h].pw = password[grants[h].user]
      BY DEF PasswordInv
    <3>2. \A q \in Request : (req[q].pc = "minting" /\ req[q].ver = version[req[q].user])
                               => req[q].pw = password[req[q].user]
      BY DEF PasswordInv
    <3>3. \/ grants'[g].pw = password'[grants'[g].user]
          \/ /\ UNCHANGED <<version, password>>
             /\ \E h \in Grant : /\ grants'[g].user = grants[h].user
                                 /\ grants'[g].ver = grants[h].ver
                                 /\ grants'[g].pw = grants[h].pw
          \/ /\ UNCHANGED <<version, password>>
             /\ \E q \in Request : /\ req[q].pc = "minting"
                                   /\ grants'[g].user = req[q].user
                                   /\ grants'[g].ver = req[q].ver
                                   /\ grants'[g].pw = req[q].pw
      BY <2>2, NewPair
    <3> QED BY <1>2, <3>1, <3>2, <3>3
  <2> QED BY <2>1, <2>2
<1>3. ASSUME NEW q \in Request, req'[q].pc = "minting", req'[q].ver = version'[req'[q].user]
      PROVE  req'[q].pw = password'[req'[q].user]
  <2>1. CASE req'[q] = req[q]
    <3>1. req[q].user \in User /\ req[q].ver \in 0..version[req[q].user]
      <4>1. RequestOK(req[q], Issued, version)
        BY DEF TypeInv
      <4> QED BY <1>3, <2>1, <4>1, IdleFact DEF RequestOK, TokenRequest
    <3>2. req[q].ver = version[req[q].user] => req[q].pw = password[req[q].user]
      BY <1>3, <2>1 DEF PasswordInv
    <3> QED BY <1>1, <1>3, <2>1, <3>1, <3>2
  <2>2. CASE LoginRead(q)
    <3>1. req' = [req EXCEPT ![q] = [pc |-> "minting", user |-> req[q].user,
                    ver |-> version[req[q].user], pw |-> password[req[q].user]]]
      BY <1>3, <2>2, IdleFact DEF LoginRead, Goes, Answered, TypeInv
    <3>2. UNCHANGED <<version, password>>
      BY <2>2 DEF LoginRead, accounts, tables
    <3> QED BY <3>1, <3>2 DEF TypeInv
  <2>3. ASSUME NEW r \in TokenRequest, req'[q] = r PROVE FALSE
    BY <1>3, <2>3 DEF TokenRequest
  <2>4. CASE req'[q] # req[q] /\ ~LoginRead(q)
    <3>1. req'[q] = Idle \/ (\E u \in User : LoginTry(q, u)) \/ req'[q].pc # "minting"
      <4>1. ASSUME \/ \E op, t, floor : Present(q, op, t, floor)
                   \/ Check(q) \/ Rotate(q) \/ Logout(q) \/ LogoutLoad(q) \/ VerifyPassword(q)
            PROVE  req'[q].pc # "minting"
        <5>1. ASSUME req[q].pc \in {"decoded", "checked", "logout load"}
              PROVE  req[q] \in TokenRequest
          <6>1. RequestOK(req[q], Issued, version)
            BY DEF TypeInv
          <6> QED BY <5>1, <6>1, IdleFact DEF RequestOK
        <5> USE IdleFact DEF Starts, Step, Goes, Answered
        <5>2. ASSUME NEW op, NEW t, NEW floor, Present(q, op, t, floor)
              PROVE  req'[q].pc # "minting"
          BY <5>2 DEF Present, TypeInv
        <5>3. ASSUME NEW pc \in {"checked", "replay", "logout load", "logout claim", "verified"},
                     req[q] \in TokenRequest, Step(q, pc)
              PROVE  req'[q].pc # "minting"
          BY <5>3 DEF TypeInv, TokenRequest
        <5>4. ASSUME req' = [req EXCEPT ![q] = Idle] PROVE req'[q].pc # "minting"
          BY <5>4 DEF TypeInv
        <5> HIDE DEF Step
        <5>5. CASE Check(q)
          BY <5>1, <5>3, <5>4, <5>5 DEF Check
        <5>6. CASE Rotate(q)
          BY <5>1, <5>3, <5>4, <5>6 DEF Rotate, Checked
        <5>7. CASE Logout(q)
          BY <5>1, <5>3, <5>7 DEF Logout, Checked
        <5>8. CASE LogoutLoad(q)
          BY <5>1, <5>3, <5>4, <5>8 DEF LogoutLoad, LogoutDone
        <5>9. CASE VerifyPassword(q)
          BY <5>1, <5>3, <5>4, <5>9 DEF VerifyPassword, Checked
        <5> QED BY <4>1, <5>2, <5>5, <5>6, <5>7, <5>8, <5>9
      <4> QED BY <2>4, <4>1, WhoActs
    <3> QED BY <1>3, <3>1, IdleFact DEF LoginTry, Starts, Goes, TypeInv
  <2> QED BY <2>1, <2>2, <2>4
<1> QED BY <1>2, <1>3 DEF PasswordInv

\* A token that is alive rests on the current password of its user, whichever requests were
\* under way when it was changed (routes/auth.py:82, :187).
THEOREM OldPasswordsEnd == Spec => []PasswordEndsOld
<1>1. Init => PasswordInv
  BY IdleFact DEF Init, PasswordInv, Grant
<1>2. TypeInv /\ DeathInv /\ PasswordInv /\ [Next]_vars => PasswordInv'
  BY PasswordStep
<1>3. TypeInv /\ PasswordInv => PasswordEndsOld
  <2> SUFFICES ASSUME TypeInv, PasswordInv, NEW t \in Issued, TokenStatus(t) = "live"
               PROVE  grants[GrantOf(t)].pw = password[Subject(t)]
    BY DEF PasswordEndsOld
  <2>1. Version(t) = version[Subject(t)]
    BY DEF TokenStatus
  <2> QED BY <2>1, TokenFacts DEF PasswordInv, Version, Subject
<1> QED BY <1>1, <1>2, <1>3, DeathInvariant, PTL DEF Spec

-----------------------------------------------------------------------------
(* Exchanges and tickets *)

\* The pair another one was exchanged for was minted before.
LEMMA Parents ==
  ASSUME TypeInv, NEW c \in Grant, grants[c].from # 0
  PROVE  grants[c].from \in Grant
<1>1. grants[c].from \in Nat /\ grants[c].from < c /\ Grant = 1..Len(grants) /\ Len(grants) \in Nat
  BY Rows DEF TypeInv, GrantsOK, Grant
<1> QED BY <1>1

\* A refresh token that was exchanged is spent, and was exchanged once up to its exp.
RotationInv ==
  \A t \in Issued, c \in Grant : t = <<"refresh", grants[c].from>> =>
    /\ Spent(t)
    /\ \A d \in Grant : (c # d /\ grants[d].from = grants[c].from) => Lapsed(t)

\* An exchange claims its token first, so a second one finds the row of the first or comes
\* after the exp of the token (routes/auth.py:107).
LEMMA RotationStep ==
  ASSUME TypeInv, DeathInv, RotationInv, [Next]_vars
  PROVE  RotationInv'
<1>0. Advances
  BY StepAdvances
<1>1. 0 \notin Grant'
  <2>1. TypeInv'
    BY StepAdvances
  <2> QED BY <2>1 DEF TypeInv, GrantsOK, Grant
<1>2. ASSUME NEW t, NEW c \in Grant, t = <<"refresh", grants[c].from>>, grants[c].from \in Grant
      PROVE  t \in Issued /\ Spent(t) /\ Spent(t)'
  <2>1. t \in Issued
    BY <1>2 DEF Issued
  <2>2. Spent(t)
    BY <1>2, <2>1 DEF RotationInv
  <2> QED BY <1>0, <2>1, <2>2, SpentStays
<1>3. ASSUME NEW c \in Grant, grants'[c].from \in Grant'
      PROVE  grants'[c] = grants[c] /\ grants[c].from \in Grant
  <2>1. grants'[c] = grants[c]
    BY <1>0 DEF Advances
  <2>2. grants[c].from # 0
    BY <1>3, <1>1, <2>1
  <2> QED BY <2>1, <2>2, Parents
<1>4. ASSUME NEW t, NEW c \in Grant', t = <<"refresh", grants'[c].from>>,
             grants'[c].from \in Grant'
      PROVE  Spent(t)'
  <2>1. CASE c \in Grant
    BY <1>2, <1>3, <1>4, <2>1
  <2>2. CASE c \notin Grant
    <3>1. \E row \in revoked' : row.token = t
      BY <1>4, <1>1, <2>2, NewPair
    <3> QED BY <3>1 DEF Spent
  <2> QED BY <2>1, <2>2
<1>5. ASSUME NEW t, NEW c \in Grant, NEW d \in Grant', c # d, t = <<"refresh", grants'[c].from>>,
             grants'[c].from \in Grant', grants'[d].from = grants'[c].from
      PROVE  Lapsed(t)'
  <2>1. /\ grants'[c] = grants[c] /\ grants[c].from \in Grant
        /\ t = <<"refresh", grants[c].from>> /\ t \in Issued /\ Spent(t)
    BY <1>2, <1>3, <1>5
  <2>2. CASE d \in Grant
    <3>1. grants'[d] = grants[d]
      BY <1>0, <2>2 DEF Advances
    <3>2. Lapsed(t)
      BY <1>5, <2>1, <2>2, <3>1 DEF RotationInv
    <3> QED BY <1>0, <2>1, <3>2, TokenStays
  <2>3. CASE d \notin Grant
    <3>1. grants'[d].from # 0
      BY <1>5, <1>1
    <3>2. Claims(t)
      BY <1>5, <2>3, <3>1, NewPair
    <3>3. Lapsed(t)
      BY <2>1, <3>2, ClaimOfSpent
    <3> QED BY <1>0, <2>1, <3>3, TokenStays
  <2> QED BY <2>2, <2>3
<1>6. ASSUME NEW c \in Grant', NEW d \in Grant', c # d, c \notin Grant, d \notin Grant
      PROVE  FALSE
  BY <1>6, NewPair
<1>7. ASSUME NEW t \in Issued', NEW c \in Grant', t = <<"refresh", grants'[c].from>>
      PROVE  /\ Spent(t)'
             /\ \A d \in Grant' : (c # d /\ grants'[d].from = grants'[c].from) => Lapsed(t)'
  <2>1. grants'[c].from \in Grant'
    BY <1>7 DEF Issued
  <2>2. Spent(t)'
    BY <1>4, <1>7, <2>1
  <2>3. ASSUME NEW d \in Grant', c # d, grants'[d].from = grants'[c].from
        PROVE  Lapsed(t)'
    BY <1>5, <1>6, <1>7, <2>1, <2>3
  <2> QED BY <2>2, <2>3
<1> QED BY <1>7 DEF RotationInv

\* A set without two different members has at most one.
LEMMA AtMostOne ==
  ASSUME NEW S, \A x, y \in S : x = y
  PROVE  Cardinality(S) <= 1
<1>1. CASE S = {}
  BY <1>1, FS_EmptySet
<1>2. CASE S # {}
  <2>1. PICK x : S = {x}
    BY <1>2
  <2> QED BY <2>1, FS_Singleton
<1> QED BY <1>1, <1>2

\* A refresh token is exchanged for one pair at most while it is valid, however many requests
\* present it and wherever they are interrupted (routes/auth.py:107).
THEOREM RotationIsExclusive == Spec => []RotatesOnce
<1>1. Init => RotationInv
  BY DEF Init, RotationInv, Grant
<1>2. TypeInv /\ DeathInv /\ RotationInv /\ [Next]_vars => RotationInv'
  BY RotationStep
<1>3. TypeInv /\ RotationInv => RotatesOnce
  <2> SUFFICES ASSUME TypeInv, RotationInv, NEW g \in Grant, ~Lapsed(<<"refresh", g>>)
               PROVE  Cardinality(Children(g)) <= 1
    BY DEF RotatesOnce
  <2>1. PICK t : t = <<"refresh", g>>
    OBVIOUS
  <2>2. t \in Issued /\ ~Lapsed(t)
    BY <2>1 DEF Issued
  <2>3. \A c, d \in Children(g) : c = d
    BY <2>1, <2>2 DEF Children, RotationInv
  <2> QED BY <2>3, AtMostOne
<1> QED BY <1>1, <1>2, <1>3, DeathInvariant, PTL DEF Spec

\* The ticket of a socket is spent, and opened no other socket up to its exp.
TicketInv ==
  \A t \in Issued, s \in Socket : t = <<"ws", sockets[s].ticket>> =>
    /\ Spent(t)
    /\ \A r \in Socket : (s # r /\ sockets[r].ticket = sockets[s].ticket) => Lapsed(t)

\* A socket is opened by the request that claimed its ticket (ws.py).
LEMMA NewSocket ==
  ASSUME TypeInv, [Next]_vars
  PROVE  /\ Socket \subseteq Socket' /\ \A s \in Socket : sockets'[s].ticket = sockets[s].ticket
         /\ \A s, r \in Socket' : (s \notin Socket /\ r \notin Socket) => s = r
         /\ \A s \in Socket' : s \notin Socket =>
              \E t \in Issued : /\ t = <<"ws", sockets'[s].ticket>> /\ Claims(t)
                                /\ \E row \in revoked' : row.token = t
<1>1. CASE /\ Socket' = Socket
           /\ \A s \in Socket : sockets'[s].ticket = sockets[s].ticket
  BY <1>1
<1>2. ASSUME NEW q \in Request, OpenSocket(q),
             ~(Socket' = Socket /\ \A s \in Socket : sockets'[s].ticket = sockets[s].ticket)
      PROVE  /\ Socket \subseteq Socket' /\ \A s \in Socket : sockets'[s].ticket = sockets[s].ticket
             /\ \A s, r \in Socket' : (s \notin Socket /\ r \notin Socket) => s = r
             /\ \A s \in Socket' : s \notin Socket =>
                  \E t \in Issued : /\ t = <<"ws", sockets'[s].ticket>> /\ Claims(t)
                                    /\ \E row \in revoked' : row.token = t
  <2>1. PICK t : t = req[q].token
    OBVIOUS
  <2>2. t \in Issued /\ t[1] = "ws" /\ Revoke(t, clock + TicketLife)
    BY <1>2, <2>1, WhatIsRevoked
  <2>3. t = <<"ws", t[2]>>
    BY <2>2, TokenFacts
  <2>9. clock + TicketLife \in Nat
    <3>1. clock \in Nat
      BY Numbers DEF TypeInv
    <3> QED BY <3>1, Numbers
  <2> DEFINE e == [ticket |-> t[2], floor |-> req[q].floor, state |-> "opening", errors |-> 0]
  <2>4. sockets' = Append(sockets, e) /\ Claims(t)
    BY <1>2, <2>1 DEF OpenSocket, Socket
  <2>5. e.ticket = t[2]
    OBVIOUS
  <2> HIDE DEF e
  <2>6. /\ Socket = 1..Len(sockets) /\ Len(sockets) \in Nat /\ Socket' = 1..(Len(sockets) + 1)
        /\ \A s \in Socket : sockets'[s] = sockets[s]
        /\ sockets'[Len(sockets) + 1] = e
    BY <2>4 DEF TypeInv, SocketsOK, Socket
  <2>7. \E row \in revoked' : row.token = t
    BY <2>2, <2>9, Revoked
  <2>8. \A s \in Socket' : s \notin Socket => s = Len(sockets) + 1
    BY <2>6
  <2> QED BY <2>2, <2>3, <2>4, <2>5, <2>6, <2>7, <2>8
<1> QED BY <1>1, <1>2, WhoWrites

\* A connection claims its ticket before it becomes a socket (ws.py:121).
LEMMA TicketStep ==
  ASSUME TypeInv, DeathInv, TicketInv, [Next]_vars
  PROVE  TicketInv'
<1>0. Advances
  BY StepAdvances
<1>1. ASSUME NEW t, NEW s \in Socket, t = <<"ws", sockets[s].ticket>>
      PROVE  t \in Issued /\ Spent(t) /\ Spent(t)' /\ sockets'[s].ticket = sockets[s].ticket
  <2>1. t \in Issued
    BY <1>1 DEF TypeInv, SocketsOK, Issued
  <2>2. Spent(t)
    BY <1>1, <2>1 DEF TicketInv
  <2> QED BY <1>0, <2>1, <2>2, SpentStays, NewSocket
<1>2. ASSUME NEW t, NEW s \in Socket', t = <<"ws", sockets'[s].ticket>> PROVE Spent(t)'
  <2>1. CASE s \in Socket
    <3>1. sockets'[s].ticket = sockets[s].ticket
      BY <2>1, NewSocket
    <3> QED BY <1>1, <1>2, <2>1, <3>1
  <2>2. CASE s \notin Socket
    <3>1. \E row \in revoked' : row.token = t
      BY <1>2, <2>2, NewSocket
    <3> QED BY <3>1 DEF Spent
  <2> QED BY <2>1, <2>2
<1>3. ASSUME NEW t, NEW s \in Socket, NEW r \in Socket', s # r, t = <<"ws", sockets'[s].ticket>>,
             sockets'[r].ticket = sockets'[s].ticket
      PROVE  Lapsed(t)'
  <2>1. sockets'[s].ticket = sockets[s].ticket
    BY NewSocket
  <2>2. t = <<"ws", sockets[s].ticket>> /\ t \in Issued /\ Spent(t)
    BY <1>1, <1>3, <2>1
  <2>3. CASE r \in Socket
    <3>1. sockets'[r].ticket = sockets[r].ticket
      BY <2>3, NewSocket
    <3>2. Lapsed(t)
      BY <1>3, <2>1, <2>2, <2>3, <3>1 DEF TicketInv
    <3> QED BY <1>0, <2>2, <3>2, TokenStays
  <2>4. CASE r \notin Socket
    <3>1. Claims(t)
      BY <1>3, <2>4, NewSocket
    <3>2. Lapsed(t)
      BY <2>2, <3>1, ClaimOfSpent
    <3> QED BY <1>0, <2>2, <3>2, TokenStays
  <2> QED BY <2>3, <2>4
<1>4. ASSUME NEW s \in Socket', NEW r \in Socket', s # r, s \notin Socket, r \notin Socket
      PROVE  FALSE
  BY <1>4, NewSocket
<1>5. ASSUME NEW t \in Issued', NEW s \in Socket', t = <<"ws", sockets'[s].ticket>>
      PROVE  /\ Spent(t)'
             /\ \A r \in Socket' : (s # r /\ sockets'[r].ticket = sockets'[s].ticket)
                                     => Lapsed(t)'
  <2>1. Spent(t)'
    BY <1>2, <1>5
  <2>2. ASSUME NEW r \in Socket', s # r, sockets'[r].ticket = sockets'[s].ticket
        PROVE  Lapsed(t)'
    BY <1>3, <1>4, <1>5, <2>2
  <2> QED BY <2>1, <2>2
<1> QED BY <1>5 DEF TicketInv

\* A ticket whose exp has not passed opens one socket at most, however many connections present it
\* (ws.py:121).
THEOREM TicketIsExclusive == Spec => []TicketOnce
<1>1. Init => TicketInv
  BY DEF Init, TicketInv, Socket
<1>2. TypeInv /\ DeathInv /\ TicketInv /\ [Next]_vars => TicketInv'
  BY TicketStep
<1>3. TypeInv /\ TicketInv => TicketOnce
  <2> SUFFICES ASSUME TypeInv, TicketInv, NEW k \in Ticket, ~Lapsed(<<"ws", k>>)
               PROVE  Cardinality({s \in Socket : sockets[s].ticket = k}) <= 1
    BY DEF TicketOnce
  <2>1. PICK t : t = <<"ws", k>>
    OBVIOUS
  <2>2. t \in Issued /\ ~Lapsed(t)
    BY <2>1 DEF Issued
  <2>3. \A s, r \in {s \in Socket : sockets[s].ticket = k} : s = r
    BY <2>1, <2>2 DEF TicketInv
  <2> QED BY <2>3, AtMostOne
<1> QED BY <1>1, <1>2, <1>3, DeathInvariant, PTL DEF Spec

-----------------------------------------------------------------------------
(* Replay *)

\* A pair has the user and version of the one it was exchanged for, and the sessions of a
\* replayed one have ended.
ReplayInv ==
  /\ \A c \in Grant : grants[c].from # 0 =>
       /\ grants[c].user = grants[grants[c].from].user
       /\ grants[c].ver = grants[grants[c].from].ver
  /\ \A g \in replayed : grants[g].ver < version[grants[g].user]

\* An exchange copies user and version of the pair it was presented; a replay moves the version
\* past both (routes/auth.py:101-114).
LEMMA ReplayStep ==
  ASSUME TypeInv, DeathInv, ReplayInv, [Next]_vars
  PROVE  ReplayInv'
<1>0. Advances /\ replayed \subseteq Grant
  BY StepAdvances DEF TypeInv
<1>1. ASSUME NEW c \in Grant', grants'[c].from # 0
      PROVE  /\ grants'[c].user = grants'[grants'[c].from].user
             /\ grants'[c].ver = grants'[grants'[c].from].ver
  <2>1. CASE c \in Grant
    <3>1. grants'[c] = grants[c]
      BY <1>0, <2>1 DEF Advances
    <3>2. grants[c].from \in Grant
      BY <1>1, <2>1, <3>1, Parents
    <3>3. grants'[grants[c].from] = grants[grants[c].from]
      BY <1>0, <3>2 DEF Advances
    <3> QED BY <1>1, <2>1, <3>1, <3>3 DEF ReplayInv
  <2>2. CASE c \notin Grant
    <3>1. /\ grants'[c].from \in Grant
          /\ grants'[c].user = grants[grants'[c].from].user
          /\ grants'[c].ver = grants[grants'[c].from].ver
      BY <1>1, <2>2, NewPair
    <3>2. grants'[grants'[c].from] = grants[grants'[c].from]
      BY <1>0, <3>1 DEF Advances
    <3> QED BY <3>1, <3>2
  <2> QED BY <2>1, <2>2
<1>2. ASSUME NEW g \in Grant, \/ grants[g].ver < version[grants[g].user]
                              \/ version[grants[g].user] < version'[grants[g].user]
      PROVE  grants'[g].ver < version'[grants'[g].user]
  <2>1. /\ grants'[g] = grants[g] /\ grants[g].user \in User /\ grants[g].ver \in Nat
        /\ grants[g].ver <= version[grants[g].user]
    BY <1>0, Rows DEF Advances, DeathInv, VersionsBelow
  <2>2. /\ version[grants[g].user] \in Nat /\ version'[grants[g].user] \in Nat
        /\ version[grants[g].user] <= version'[grants[g].user]
    BY <1>0, <2>1, AccountFacts, Numbers DEF Advances
  <2> QED BY <1>2, <2>1, <2>2
<1>3. ASSUME NEW g \in replayed' PROVE grants'[g].ver < version'[grants'[g].user]
  <2>1. CASE g \in replayed
    BY <1>0, <1>2, <2>1 DEF ReplayInv
  <2>2. ASSUME NEW q \in Request, EndSessionsAfterReplay(q), g \notin replayed
        PROVE  g \in Grant /\ version[grants[g].user] < version'[grants[g].user]
    <3>1. PICK t : t = req[q].token
      OBVIOUS
    <3>2. t \in Issued /\ t[1] = "refresh"
      BY <2>2, <3>1, WhatIsRevoked
    <3>3. g = t[2] /\ EndAllSessions(Subject(t))
      BY <2>2, <3>1 DEF EndSessionsAfterReplay
    <3>4. t[2] \in Grant /\ Subject(t) = grants[t[2]].user /\ Subject(t) \in User
      BY <3>2, TokenFacts DEF Subject
    <3>5. version'[Subject(t)] = version[Subject(t)] + 1 /\ version[Subject(t)] \in Nat
      BY <3>3, <3>4, EndTypes
    <3> QED BY <3>3, <3>4, <3>5
  <2> QED BY <1>2, <2>1, <2>2, WhoWrites
<1> QED BY <1>1, <1>3 DEF ReplayInv

\* A second use of a refresh token ends the sessions of the pair and of whatever it was exchanged
\* for, also when that exchange is answered later (routes/auth.py:101-109).
THEOREM ReplayIsFinal == Spec => []ReplayEndsSessions
<1>1. Init => ReplayInv
  BY DEF Init, ReplayInv, Grant
<1>2. TypeInv /\ DeathInv /\ ReplayInv /\ [Next]_vars => ReplayInv'
  BY ReplayStep
<1>3. TypeInv /\ ReplayInv => ReplayEndsSessions
  <2> SUFFICES ASSUME TypeInv, ReplayInv, NEW g \in replayed
               PROVE  PairDead(g) /\ \A c \in Children(g) : PairDead(c)
    BY DEF ReplayEndsSessions
  <2>1. ASSUME NEW c \in Grant, grants[c].ver < version[grants[c].user] PROVE PairDead(c)
    <3>1. grants[c].ver # version[grants[c].user]
      BY <2>1, Rows, AccountFacts
    <3> QED BY <3>1 DEF PairDead, Gone, TokenStatus, Issued, Version, Subject, GrantOf
  <2>2. g \in Grant /\ g # 0 /\ grants[g].ver < version[grants[g].user]
    BY Rows DEF TypeInv, ReplayInv
  <2>3. ASSUME NEW c \in Children(g)
        PROVE  c \in Grant /\ grants[c].ver < version[grants[c].user]
    BY <2>2 DEF Children, ReplayInv
  <2> QED BY <2>1, <2>2, <2>3
<1> QED BY <1>1, <1>2, <1>3, DeathInvariant, PTL DEF Spec

-----------------------------------------------------------------------------
(* Logout *)

\* The session has ended, or its account may be used.
Held(t) == active[Subject(t)] \/ Version(t) # version[Subject(t)]

\* A request past the check with this token; a logout that has revoked its access token.
Passed(q, t) ==
  req[q].pc \in {"checked", "logout load", "logout claim"} /\ req[q].token = t
Revoking(q, t) == req[q].pc \in {"logout load", "logout claim"} /\ req[q].token = t

\* Whoever passed the check saw an account in use; the access token of a logout is dead once it
\* was revoked, and both tokens of the pair when the logout is answered.
LogoutInv ==
  /\ \A q \in Request, t \in Issued : Passed(q, t) => Held(t)
  /\ \A q \in Request, t \in Issued : Revoking(q, t) => Dead(t)
  /\ \A t \in Issued : (t[1] \in {"access", "refresh"} /\ t[2] \in loggedOut) => Dead(t)

\* An account is disabled together with its sessions (routes/users.py).
LEMMA HeldStays ==
  ASSUME TypeInv, DeathInv, Advances, NEW t \in Issued, Held(t)
  PROVE  Held(t)'
<1>1. /\ Subject(t) \in User /\ Subject(t) = grants[GrantOf(t)].user
      /\ Version(t) = grants[GrantOf(t)].ver /\ GrantOf(t) \in Grant
  BY TokenFacts DEF Subject, Version
<1>2. /\ Version(t) <= version[Subject(t)] /\ version[Subject(t)] <= version'[Subject(t)]
      /\ version[Subject(t)] \in Nat /\ version'[Subject(t)] \in Nat /\ Version(t) \in Nat
  BY <1>1, AccountFacts, Rows, Numbers DEF DeathInv, VersionsBelow, Advances
<1>3. CASE active'[Subject(t)]
  BY <1>3, TokenStays DEF Held
<1>4. CASE ~active'[Subject(t)]
  <2>1. version[Subject(t)] < version'[Subject(t)] \/ Version(t) # version[Subject(t)]
    BY <1>1, <1>4 DEF Advances, Held
  <2>2. Version(t) # version'[Subject(t)]
    BY <1>2, <2>1
  <2> QED BY <2>2, TokenStays DEF Held
<1> QED BY <1>3, <1>4

\* The steps that bring a request past the check and through a logout (routes/auth.py:139).
LEMMA LogoutMoves ==
  ASSUME TypeInv, [Next]_vars, NEW p \in Request, req'[p] # req[p],
         req'[p].pc \in {"checked", "logout load", "logout claim"}
  PROVE  /\ req[p] \in TokenRequest /\ req'[p].token = req[p].token /\ req[p].token \in Issued
         /\ \/ Check(p) /\ Judge(req[p].token) = "ok" /\ req'[p].pc = "checked"
            \/ Logout(p) /\ req[p].pc = "checked" /\ req'[p].pc = "logout load"
            \/ LogoutLoad(p) /\ req[p].pc = "logout load" /\ req'[p].pc = "logout claim"
<1>1. ASSUME req[p].pc \in {"decoded", "checked", "logout load"}
      PROVE  req[p] \in TokenRequest /\ req[p].token \in Issued
  <2>1. RequestOK(req[p], Issued, version)
    BY DEF TypeInv
  <2> QED BY <1>1, <2>1, IdleFact DEF RequestOK
<1>2. ASSUME NEW pc, req[p] \in TokenRequest, Step(p, pc)
      PROVE  req'[p].pc = pc /\ req'[p].token = req[p].token
  BY <1>2 DEF Step, Goes, TypeInv, TokenRequest
<1>3. req' # [req EXCEPT ![p] = Idle]
  BY IdleFact DEF TypeInv
<1>4. ASSUME LoginRead(p) \/ \E u \in User : LoginTry(p, u) PROVE FALSE
  <2> USE DEF Starts, Goes, Answered
  <2>1. CASE LoginRead(p)
    <3>1. req' = [req EXCEPT ![p] = [pc |-> "minting", user |-> req[p].user,
                    ver |-> version[req[p].user], pw |-> password[req[p].user]]]
      BY <1>3, <2>1 DEF LoginRead
    <3> QED BY <3>1 DEF TypeInv
  <2>2. ASSUME NEW u \in User, LoginTry(p, u) PROVE FALSE
    BY <2>2 DEF LoginTry, TypeInv
  <2> QED BY <1>4, <2>1, <2>2
<1>5. ASSUME NEW op, NEW t, NEW floor, Present(p, op, t, floor) PROVE FALSE
  <2>1. req'[p].pc = "decoded"
    BY <1>5 DEF Present, Starts, Goes, TypeInv
  <2> QED BY <2>1
<1>6. ASSUME VerifyPassword(p) \/ Rotate(p) PROVE FALSE
  <2>1. req[p].pc = "checked" /\ (Step(p, "verified") \/ Step(p, "replay"))
    BY <1>3, <1>6 DEF VerifyPassword, Rotate, Checked, Answered, Goes
  <2>2. req[p] \in TokenRequest
    BY <1>1, <2>1
  <2>3. req'[p].pc \in {"verified", "replay"}
    BY <1>2, <2>1, <2>2
  <2> QED BY <2>3
<1>7. CASE Check(p)
  <2>1. /\ req[p].pc = "decoded"
        /\ (Step(p, "checked") /\ Judge(req[p].token) = "ok") \/ Step(p, "replay")
    BY <1>3, <1>7 DEF Check, Answered, Goes
  <2>2. req[p] \in TokenRequest /\ req[p].token \in Issued
    BY <1>1, <2>1
  <2>3. ~Step(p, "replay")
    <3>1. ASSUME Step(p, "replay") PROVE req'[p].pc = "replay"
      BY <1>2, <2>2, <3>1
    <3> QED BY <3>1
  <2>4. req'[p].pc = "checked" /\ req'[p].token = req[p].token
    BY <1>2, <2>1, <2>2, <2>3
  <2> QED BY <1>7, <2>1, <2>2, <2>3, <2>4
<1>8. CASE Logout(p)
  <2>1. req[p].pc = "checked" /\ Step(p, "logout load")
    BY <1>8 DEF Logout, Checked
  <2>2. req[p] \in TokenRequest /\ req[p].token \in Issued
    BY <1>1, <2>1
  <2>3. req'[p].pc = "logout load" /\ req'[p].token = req[p].token
    BY <1>2, <2>1, <2>2
  <2> QED BY <1>8, <2>1, <2>2, <2>3
<1>9. CASE LogoutLoad(p)
  <2>1. req[p].pc = "logout load" /\ Step(p, "logout claim")
    BY <1>3, <1>9 DEF LogoutLoad, LogoutDone, Answered, Goes
  <2>2. req[p] \in TokenRequest /\ req[p].token \in Issued
    BY <1>1, <2>1
  <2>3. req'[p].pc = "logout claim" /\ req'[p].token = req[p].token
    BY <1>2, <2>1, <2>2
  <2> QED BY <1>9, <2>1, <2>2, <2>3
<1>10. req'[p] # Idle
  BY IdleFact
<1> QED BY <1>4, <1>5, <1>6, <1>7, <1>8, <1>9, <1>10, WhoActs

\* Every way a logout can be answered leaves the pair dead (routes/auth.py:139-147).
LEMMA LogoutStep ==
  ASSUME TypeInv, DeathInv, LogoutInv, [Next]_vars
  PROVE  LogoutInv'
<1>0. Advances /\ loggedOut \subseteq Grant
  BY StepAdvances DEF TypeInv
<1>1. ASSUME NEW q \in Request, NEW t, Passed(q, t)'
      PROVE  t \in Issued /\ Held(t)
  <2>1. CASE req'[q] = req[q]
    <3>1. RequestOK(req[q], Issued, version) /\ Passed(q, t)
      BY <1>1, <2>1 DEF TypeInv, Passed
    <3>2. t \in Issued
      BY <3>1, IdleFact DEF RequestOK, Passed
    <3> QED BY <3>1, <3>2 DEF LogoutInv
  <2>2. CASE req'[q] # req[q]
    <3>1. t = req[q].token /\ t \in Issued
      BY <1>1, <2>2, LogoutMoves DEF Passed
    <3>2. Judge(t) = "ok" \/ Passed(q, t)
      BY <1>1, <2>2, <3>1, LogoutMoves DEF Passed
    <3>3. Judge(t) = "ok" => active[Subject(t)]
      BY DEF Judge, Verdict
    <3> QED BY <3>1, <3>2, <3>3 DEF LogoutInv, Held
  <2> QED BY <2>1, <2>2
<1>2. ASSUME NEW q \in Request, NEW t, Revoking(q, t)' PROVE Dead(t)'
  <2>1. t \in Issued
    BY <1>1, <1>2 DEF Passed, Revoking
  <2>2. CASE Revoking(q, t)
    <3>1. Dead(t)
      BY <2>1, <2>2 DEF LogoutInv
    <3> QED BY <1>0, <2>1, <3>1, DeadStays
  <2>3. CASE Logout(q) /\ req[q].token = t
    <3>1. t[1] = "access" /\ Revoke(t, Expiry(t)) /\ Expiry(t) \in Nat
      BY <2>1, <2>3, TokenFacts, WhatIsRevoked
    <3>2. \E row \in revoked' : row.token = t
      BY <2>1, <3>1, Revoked
    <3>3. t \in RevocationKeys(t)'
      BY DEF RevocationKeys
    <3> QED BY <3>2, <3>3 DEF Dead, IsRevoked
  <2>4. CASE req'[q] = req[q]
    BY <1>2, <2>2, <2>4 DEF Revoking
  <2>5. CASE req'[q] # req[q]
    BY <1>2, <2>2, <2>3, <2>5, LogoutMoves DEF Revoking
  <2> QED BY <2>4, <2>5
<1>3. ASSUME NEW q \in Request, LogoutLoad(q) \/ LogoutClaim(q), NEW t,
             t[1] \in {"access", "refresh"}, t = <<t[1], t[2]>>, t[2] = req[q].token[2],
             req[q].token[2] \in loggedOut'
      PROVE  Dead(t)'
  <2>1. PICK a : a = req[q].token
    OBVIOUS
  <2>2. PICK r : r = RefreshOf(q)
    OBVIOUS
  <2>3. /\ a \in Issued /\ a[1] = "access" /\ r \in Issued /\ r = <<"refresh", a[2]>>
        /\ a = <<"access", a[2]>> /\ r[1] = "refresh" /\ r[2] = a[2]
    <3>1. a \in Issued /\ a[1] = "access" /\ r \in Issued
      BY <1>3, <2>1, <2>2, WhatIsRevoked
    <3> QED BY <2>1, <2>2, <3>1, TokenFacts DEF RefreshOf
  <2>4. Held(a) /\ Dead(a)
    BY <1>3, <2>1, <2>3 DEF LogoutInv, LogoutLoad, LogoutClaim, Passed, Revoking
  <2>5. Subject(r) = Subject(a) /\ Version(r) = Version(a)
    <3>1. GrantOf(r) = GrantOf(a)
      BY <2>3 DEF GrantOf
    <3> QED BY <3>1 DEF Subject, Version
  <2>6. CASE t = a
    BY <1>0, <2>3, <2>4, <2>6, DeadStays
  <2>7. CASE t = r /\ LogoutClaim(q)
    <3>1. Revoke(r, Expiry(r)) /\ Expiry(r) \in Nat
      BY <2>2, <2>3, <2>7, TokenFacts, WhatIsRevoked
    <3>2. \E row \in revoked' : row.token = t
      BY <2>3, <2>7, <3>1, Revoked
    <3>3. t \in RevocationKeys(t)'
      BY DEF RevocationKeys
    <3> QED BY <3>2, <3>3 DEF Dead, IsRevoked
  <2>8. CASE t = r /\ LogoutLoad(q)
    <3>1. Lapsed(r) \/ Judge(r) # "ok" \/ UNCHANGED loggedOut
      <4>1. Expired(r) => Lapsed(r)
        BY <2>3, TokenFacts, Numbers, Seconds DEF TypeInv
      <4> QED BY <2>2, <2>8, <4>1 DEF LogoutLoad
    <3>2. CASE UNCHANGED loggedOut
      <4>1. Dead(r)
        BY <1>3, <2>1, <2>3, <3>2 DEF LogoutInv
      <4> QED BY <1>0, <2>3, <2>8, <4>1, DeadStays
    <3>3. CASE Lapsed(r) \/ Judge(r) # "ok"
      <4>1. Held(r)
        BY <2>4, <2>5 DEF Held
      <4>2. Dead(r)
        BY <3>3, <4>1 DEF Held, Dead, Judge, Verdict
      <4> QED BY <1>0, <2>3, <2>8, <4>2, DeadStays
    <3> QED BY <3>1, <3>2, <3>3
  <2> QED BY <1>3, <2>1, <2>3, <2>6, <2>7, <2>8
<1>4. ASSUME NEW t \in Issued', t[1] \in {"access", "refresh"}, t[2] \in loggedOut'
      PROVE  Dead(t)'
  <2>1. t = <<t[1], t[2]>>
    BY DEF Issued
  <2>2. CASE t[2] \in loggedOut
    <3>1. t \in Issued
      BY <1>0, <1>4, <2>1, <2>2 DEF Issued
    <3>2. Dead(t)
      BY <1>4, <2>2, <3>1 DEF LogoutInv
    <3> QED BY <1>0, <3>1, <3>2, DeadStays
  <2>3. CASE t[2] \notin loggedOut
    <3>1. PICK q \in Request : LogoutLoad(q) \/ LogoutClaim(q)
      BY <1>4, <2>3, WhoWrites
    <3>2. t[2] = req[q].token[2]
      BY <1>4, <2>3, <3>1 DEF LogoutLoad, LogoutClaim, LogoutDone
    <3> QED BY <1>3, <1>4, <2>1, <3>1, <3>2
  <2> QED BY <2>2, <2>3
<1>5. ASSUME NEW q \in Request, NEW t \in Issued', Passed(q, t)' PROVE Held(t)'
  <2>1. t \in Issued /\ Held(t)
    BY <1>1, <1>5
  <2> QED BY <1>0, <2>1, HeldStays
<1> QED BY <1>2, <1>4, <1>5 DEF LogoutInv

\* A logout that has been answered leaves neither token of its pair alive, whatever rotated,
\* expired or was ended while it was under way (routes/auth.py:139-147).
THEOREM LogoutIsFinal == Spec => []LoggedOutIsDead
<1>1. Init => LogoutInv
  BY IdleFact DEF Init, LogoutInv, Passed, Revoking
<1>2. TypeInv /\ DeathInv /\ LogoutInv /\ [Next]_vars => LogoutInv'
  BY LogoutStep
<1>3. TypeInv /\ LogoutInv => LoggedOutIsDead
  <2> SUFFICES ASSUME TypeInv, LogoutInv, NEW g \in loggedOut PROVE PairDead(g)
    BY DEF LoggedOutIsDead
  <2>1. g \in Grant
    BY DEF TypeInv
  <2>2. ASSUME NEW kind \in {"access", "refresh"}, NEW t, t = <<kind, g>>
        PROVE  Gone(t)
    <3>1. t \in Issued
      BY <2>1, <2>2 DEF Issued
    <3>2. Dead(t)
      BY <2>2, <3>1 DEF LogoutInv
    <3> QED BY <3>1, <3>2, StatusOfIssued
  <2> QED BY <2>2 DEF PairDead
<1> QED BY <1>1, <1>2, <1>3, DeathInvariant, PTL DEF Spec

-----------------------------------------------------------------------------
(* Sockets *)

\* An administrator who changes a role ends the sessions of that user (routes/users.py:124),
\* and nobody else changes one.
LEMMA RoleEndsSessions ==
  ASSUME TypeInv, [Next]_vars
  PROVE  \A u \in User : role'[u] # role[u] => version[u] < version'[u]
<1>1. CASE role' = role
  BY <1>1
<1>2. ASSUME NEW u \in User, Administer(u)
      PROVE  \A v \in User : role'[v] # role[v] => version[v] < version'[v]
  <2>1. CASE role' = role
    BY <2>1
  <2>2. ASSUME NEW r \in {"viewer", "operator"}, SetRole(u, r), role[u] # r
        PROVE  \A v \in User : role'[v] # role[v] => version[v] < version'[v]
    <3>1. EndAllSessions(u) /\ role' = [role EXCEPT ![u] = r]
      BY <2>2 DEF SetRole
    <3>2. version[u] < version'[u]
      BY <3>1, EndTypes
    <3>3. \A v \in User \ {u} : role'[v] = role[v]
      BY <3>1 DEF TypeInv, AccountsOK
    <3> QED BY <3>2, <3>3
  <2>3. ASSUME NEW r \in {"viewer", "operator"}, SetRole(u, r), role[u] = r
        PROVE  role' = role
    BY <2>3 DEF SetRole, TypeInv, AccountsOK
  <2> QED BY <1>2, <2>1, <2>2, <2>3 DEF Administer, SetActive
<1>3. \/ role' = role
      \/ \E u \in User : Administer(u)
  <2> USE DEF accounts, tables, history
  <2>1. CASE UNCHANGED vars
    BY <2>1 DEF vars
  <2>2. ASSUME NEW q \in Request,
               \/ \E u \in User : LoginTry(q, u)
               \/ LoginRead(q) \/ LoginMint(q)
               \/ \E op, t, floor : Present(q, op, t, floor)
               \/ Check(q) \/ Rotate(q) \/ EndSessionsAfterReplay(q)
        PROVE  role' = role
    BY <2>2 DEF LoginTry, LoginRead, LoginMint, Present, Check, Rotate, EndSessionsAfterReplay
  <2>3. ASSUME NEW q \in Request,
               \/ WsTicket(q) \/ OpenSocket(q) \/ Logout(q) \/ LogoutLoad(q) \/ LogoutClaim(q)
               \/ VerifyPassword(q) \/ ChangePassword(q)
        PROVE  role' = role
    BY <2>3 DEF WsTicket, OpenSocket, Logout, LogoutLoad, LogoutClaim, VerifyPassword,
                ChangePassword
  <2>4. CASE Tick \/ \E s \in Socket : Serve(s) \/ Disconnect(s) \/ Guard(s)
    BY <2>4 DEF Tick, Serve, Disconnect, Guard, GuardFails, Becomes
  <2> QED BY <2>1, <2>2, <2>3, <2>4 DEF Next
<1> QED BY <1>1, <1>2, <1>3

\* Tickets are issued by one handler (ws.py).
LEMMA WhoIssuesTickets ==
  ASSUME TypeInv, [Next]_vars
  PROVE  tickets' = tickets \/ \E q \in Request : WsTicket(q)
<1> USE DEF tables, history
<1>1. CASE UNCHANGED vars
  BY <1>1 DEF vars
<1>2. ASSUME NEW q \in Request,
             \/ \E u \in User : LoginTry(q, u)
             \/ LoginRead(q) \/ LoginMint(q)
             \/ \E op, t, floor : Present(q, op, t, floor)
             \/ Check(q) \/ Rotate(q) \/ EndSessionsAfterReplay(q)
      PROVE  tickets' = tickets
  BY <1>2 DEF LoginTry, LoginRead, LoginMint, Present, Check, Rotate, EndSessionsAfterReplay
<1>3. ASSUME NEW q \in Request,
             \/ OpenSocket(q) \/ Logout(q) \/ LogoutLoad(q) \/ LogoutClaim(q)
             \/ VerifyPassword(q) \/ ChangePassword(q)
      PROVE  tickets' = tickets
  BY <1>3 DEF OpenSocket, Logout, LogoutLoad, LogoutClaim, VerifyPassword, ChangePassword
<1>4. CASE \/ Tick \/ \E u \in User : Administer(u)
           \/ \E s \in Socket : Serve(s) \/ Disconnect(s) \/ Guard(s)
  BY <1>4 DEF Tick, Administer, Serve, Disconnect, Guard, GuardFails, Becomes
<1> QED BY <1>1, <1>2, <1>3, <1>4 DEF Next

\* A ticket was issued to a session in use; who lost the account since lost the session too.
TicketsHeld == \A k \in Ticket : Held(<<"access", tickets[k].grant>>)

LEMMA TicketsHeldStep ==
  ASSUME TypeInv, DeathInv, LogoutInv, TicketsHeld, [Next]_vars
  PROVE  TicketsHeld'
<1>0. Advances
  BY StepAdvances
<1>1. ASSUME NEW k \in Ticket PROVE Held(<<"access", tickets[k].grant>>)'
  <2> DEFINE t == <<"access", tickets[k].grant>>
  <2>1. tickets[k].grant \in Grant
    BY DEF TypeInv, TicketsOK
  <2>2. PICK g \in Grant : g = tickets[k].grant
    BY <2>1
  <2>3. <<"access", g>> \in Issued /\ Held(<<"access", g>>)
    BY <2>2 DEF TicketsHeld, Issued
  <2>4. Held(<<"access", g>>)'
    BY <1>0, <2>3, HeldStays
  <2>5. tickets'[k].grant = g
    BY <1>0, <2>2 DEF Advances
  <2> QED BY <2>4, <2>5
<1>2. ASSUME NEW q \in Request, WsTicket(q), NEW k \in Ticket', k \notin Ticket
      PROVE  Held(<<"access", tickets[k].grant>>)'
  <2>1. /\ req[q].token \in Issued /\ req[q].token[1] = "access" /\ Held(req[q].token)
    <3>1. RequestOK(req[q], Issued, version) /\ req[q].pc = "checked" /\ req[q].op = "ticket"
      BY <1>2 DEF TypeInv, WsTicket, Checked
    <3>2. req[q].token \in Issued /\ req[q].token[1] = "access"
      BY <3>1, IdleFact, Kinds DEF RequestOK
    <3> QED BY <3>1, <3>2 DEF LogoutInv, Passed
  <2>2. PICK t \in Issued : t = req[q].token
    BY <2>1
  <2>3. t = <<"access", t[2]>>
    BY <2>1, <2>2, TokenFacts
  <2>4. tickets'[k].grant = t[2]
    <3> DEFINE e == [grant |-> t[2], born |-> clock]
    <3>1. tickets' = Append(tickets, e) /\ tickets \in Seq(TicketRow)
      BY <1>2, <2>2 DEF WsTicket, TypeInv, TicketsOK
    <3>2. DOMAIN tickets = 1..Len(tickets) /\ Len(tickets) \in Nat
      BY <3>1
    <3>3. DOMAIN tickets' = 1..(Len(tickets) + 1) /\ tickets'[Len(tickets) + 1] = e
      BY <3>1
    <3>4. k = Len(tickets) + 1
      BY <1>2, <3>2, <3>3 DEF Ticket
    <3> QED BY <3>3, <3>4
  <2>5. Held(t)'
    BY <1>0, <2>1, <2>2, HeldStays
  <2> QED BY <2>3, <2>4, <2>5
<1>3. tickets' = tickets => Ticket' = Ticket
  BY DEF Ticket
<1> QED BY <1>1, <1>2, <1>3, WhoIssuesTickets DEF TicketsHeld

\* The guard of a socket asks about one token and one role for as long as it runs (ws.py).
LEMMA SocketStays ==
  ASSUME TypeInv, [Next]_vars, NEW s \in Socket
  PROVE  /\ s \in Socket' /\ sockets'[s].floor = sockets[s].floor
         /\ AccessOf(s)' = AccessOf(s) /\ AccessOf(s) \in Issued
<1>0. Advances
  BY StepAdvances
<1>1. s \in Socket' /\ sockets'[s].floor = sockets[s].floor /\ sockets'[s].ticket = sockets[s].ticket
  <2>1. CASE sockets' = sockets
    BY <2>1 DEF Socket
  <2>2. ASSUME NEW i \in Socket, Serve(i) \/ Disconnect(i) \/ Guard(i)
        PROVE  /\ s \in Socket' /\ sockets'[s].floor = sockets[s].floor
               /\ sockets'[s].ticket = sockets[s].ticket
    <3>1. PICK state, errors : Becomes(i, state, errors)
      BY <2>2 DEF Serve, Disconnect, Guard, GuardFails
    <3>2. sockets[s] \in SocketRow /\ sockets[i] \in SocketRow
      BY Rows
    <3> QED BY <3>1, <3>2 DEF Becomes, SocketRow, Socket
  <2>3. ASSUME NEW q \in Request, OpenSocket(q)
        PROVE  s \in Socket' /\ sockets'[s] = sockets[s]
    <3> DEFINE e == [ticket |-> req[q].token[2], floor |-> req[q].floor, state |-> "opening",
                     errors |-> 0]
    <3>1. sockets' = sockets \/ sockets' = Append(sockets, e)
      BY <2>3 DEF OpenSocket
    <3>2. sockets \in Seq(SocketRow) /\ s \in 1..Len(sockets) /\ Len(sockets) \in Nat
      BY DEF TypeInv, SocketsOK, Socket
    <3> HIDE DEF e
    <3>3. CASE sockets' = Append(sockets, e)
      <4>1. DOMAIN sockets' = 1..(Len(sockets) + 1) /\ sockets'[s] = sockets[s]
        BY <3>2, <3>3
      <4> QED BY <3>2, <4>1 DEF Socket
    <3> QED BY <3>1, <3>3 DEF Socket
  <2>4. \/ sockets' = sockets
        \/ \E i \in Socket : Serve(i) \/ Disconnect(i) \/ Guard(i)
        \/ \E q \in Request : OpenSocket(q)
    <3>1. CASE UNCHANGED vars
      BY <3>1 DEF vars
    <3>2. ASSUME NEW q \in Request,
                 \/ \E u \in User : LoginTry(q, u)
                 \/ LoginRead(q) \/ LoginMint(q)
                 \/ \E op, t, floor : Present(q, op, t, floor)
                 \/ Check(q) \/ Rotate(q) \/ EndSessionsAfterReplay(q)
          PROVE  sockets' = sockets
      BY <3>2 DEF LoginTry, LoginRead, LoginMint, Present, Check, Rotate, EndSessionsAfterReplay
    <3>3. ASSUME NEW q \in Request,
                 \/ WsTicket(q) \/ Logout(q) \/ LogoutLoad(q) \/ LogoutClaim(q)
                 \/ VerifyPassword(q) \/ ChangePassword(q)
          PROVE  sockets' = sockets
      BY <3>3 DEF WsTicket, Logout, LogoutLoad, LogoutClaim, VerifyPassword, ChangePassword
    <3>4. CASE Tick \/ \E u \in User : Administer(u)
      BY <3>4 DEF Tick, Administer
    <3> QED BY <3>1, <3>2, <3>3, <3>4 DEF Next
  <2> QED BY <2>1, <2>2, <2>3, <2>4
<1>2. sockets[s].ticket \in Ticket /\ tickets[sockets[s].ticket].grant \in Grant
  BY DEF TypeInv, SocketsOK, TicketsOK
<1>3. AccessOf(s)' = AccessOf(s)
  BY <1>0, <1>1, <1>2 DEF AccessOf, Advances
<1>4. AccessOf(s) \in Issued
  BY <1>2 DEF AccessOf, Issued
<1> QED BY <1>1, <1>3, <1>4

\* What the guard may find: nothing that makes the session end is ever taken back.
LEMMA OverStays ==
  ASSUME TypeInv, DeathInv, TicketsHeld, [Next]_vars, NEW s \in Socket, SessionOver(s)
  PROVE  SessionOver(s)'
<1>0. TypeInv' /\ Advances
  BY StepAdvances
<1>1. PICK t \in Issued : t = AccessOf(s)
  BY SocketStays
<1>2. AccessOf(s)' = t /\ sockets'[s].floor = sockets[s].floor
  BY <1>1, SocketStays
<1>3. /\ t \in Issued' /\ Subject(t)' = Subject(t) /\ Version(t)' = Version(t)
      /\ Expiry(t)' = Expiry(t) /\ RevocationKeys(t)' = RevocationKeys(t)
      /\ Subject(t) \in User /\ Expiry(t) \in Nat
  BY <1>0, TokenStays, TokenFacts
<1>4. RevocationKeys(t) = {t}
  BY <1>1 DEF AccessOf, RevocationKeys
<1>5. Held(t)
  <2>1. sockets[s].ticket \in Ticket
    BY DEF TypeInv, SocketsOK
  <2> QED BY <1>1, <2>1 DEF TicketsHeld, AccessOf
<1>6. ASSUME clock' >= Expiry(t)' \/ Judge(t)' # "ok" \/ ~HasRole(sockets'[s].floor, role'[Subject(t)])
      PROVE  SessionOver(s)'
  BY <1>2, <1>3, <1>6 DEF SessionOver
<1>7. ASSUME Version(t) # version'[Subject(t)] PROVE SessionOver(s)'
  <2>1. Judge(t)' # "ok"
    BY <1>3, <1>7 DEF Judge, Verdict
  <2> QED BY <1>6, <2>1
<1>8. ASSUME Version(t) # version[Subject(t)] \/ version[Subject(t)] < version'[Subject(t)]
      PROVE  SessionOver(s)'
  <2>1. /\ Version(t) <= version[Subject(t)] /\ version[Subject(t)] <= version'[Subject(t)]
        /\ version[Subject(t)] \in Nat /\ version'[Subject(t)] \in Nat /\ Version(t) \in Nat
    <3>1. /\ Subject(t) = grants[GrantOf(t)].user /\ Version(t) = grants[GrantOf(t)].ver
          /\ GrantOf(t) \in Grant
      BY TokenFacts DEF Subject, Version
    <3> QED BY <1>0, <1>3, <3>1, AccountFacts, Rows, Numbers DEF DeathInv, VersionsBelow, Advances
  <2>2. Version(t) # version'[Subject(t)]
    BY <1>8, <2>1
  <2> QED BY <1>7, <2>2
<1>9. CASE clock >= Expiry(t)
  <2>1. clock \in Nat /\ clock' \in Nat /\ clock <= clock'
    BY <1>0, Numbers DEF TypeInv, Advances
  <2>2. clock' >= Expiry(t)'
    BY <1>3, <1>9, <2>1
  <2> QED BY <1>6, <2>2
<1>10. CASE Judge(t) = "disabled"
  <2>1. ~active[Subject(t)]
    BY <1>10 DEF Judge, Verdict
  <2> QED BY <1>5, <1>8, <2>1 DEF Held
<1>11. CASE Judge(t) = "revoked"
  <2>1. Spent(t)
    BY <1>4, <1>11 DEF Judge, Verdict, IsRevoked, Spent
  <2>2. Spent(t)'
    BY <1>0, <2>1, SpentStays
  <2>3. CASE Lapsed(t)'
    <3>1. clock' >= Expiry(t)'
      <4>1. clock' \in Nat
        BY <1>0 DEF Advances
      <4> QED BY <1>3, <2>3, <4>1 DEF Lapsed
    <3> QED BY <1>6, <3>1
  <2>4. CASE \E row \in revoked' : row.token = t
    <3>1. IsRevoked(RevocationKeys(t))'
      BY <1>3, <1>4, <2>4 DEF IsRevoked
    <3>2. Judge(t)' # "ok"
      BY <3>1 DEF Judge, Verdict
    <3> QED BY <1>6, <3>2
  <2> QED BY <2>2, <2>3, <2>4 DEF Spent
<1>12. CASE Judge(t) = "ended"
  <2>1. Version(t) # version[Subject(t)]
    BY <1>12 DEF Judge, Verdict
  <2> QED BY <1>8, <2>1
<1>13. CASE ~HasRole(sockets[s].floor, role[Subject(t)])
  <2>1. CASE role'[Subject(t)] = role[Subject(t)]
    BY <1>2, <1>6, <1>13, <2>1 DEF HasRole
  <2>2. CASE role'[Subject(t)] # role[Subject(t)]
    BY <1>3, <1>8, <2>2, RoleEndsSessions
  <2> QED BY <2>1, <2>2
<1>14. Judge(t) \in {"disabled", "revoked", "ended", "ok"}
  BY DEF Judge, Verdict
<1> QED BY <1>1, <1>9, <1>10, <1>11, <1>12, <1>13, <1>14 DEF SessionOver

\* A session that is over stays over: the role may be given back, the account enabled again and
\* the row that revoked the token deleted, but a guard that comes late or fails at times
\* still finds the session over (ws.py:127, routes/users.py:124).
THEOREM NoSessionReturns == Spec => SessionStaysOver
<1>1. Init => LogoutInv /\ TicketsHeld
  BY DEF Init, LogoutInv, TicketsHeld, Ticket, Passed, Revoking, Issued, Grant
<1>2. TypeInv /\ DeathInv /\ LogoutInv /\ TicketsHeld /\ [Next]_vars => LogoutInv' /\ TicketsHeld'
  BY LogoutStep, TicketsHeldStep
<1>3. TypeInv /\ DeathInv /\ TicketsHeld /\ [Next]_vars
        => [\A s \in Socket : SessionOver(s) => SessionOver(s)']_vars
  BY OverStays
<1> QED BY <1>1, <1>2, <1>3, DeathInvariant, PTL DEF Spec, SessionStaysOver
=============================================================================
