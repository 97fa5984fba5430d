---------------------------- MODULE AuthSessions ----------------------------
(***************************************************************************)
(* Sessions: login, refresh rotation, WebSocket tickets                    *)
(* and sockets, logout and password change (api/auth.py, api/routes/auth.py*)
(* api/ws.py).                                                             *)
(*                                                                         *)
(* A grant is a pair of access and refresh token minted together; a token  *)
(* is <<kind, number>>.  Signature and expiry are looked at when a request *)
(* arrives, the database is asked later, each UPDATE and INSERT later      *)
(* again: one action per await that touches shared state.  The transaction *)
(* of an administrator is one step here and taken apart in UserAccounts.   *)
(***************************************************************************)
EXTENDS UserTable, Sequences, FiniteSets

CONSTANTS
  Request,      \* requests being handled at the same time
  AccessLife, RefreshLife, TicketLife,   \* in ticks of the clock
  Second,       \* how many ticks make a second
  Start,        \* when the first request may come
  GuardErrors,  \* _GUARD_MAX_ERRORS
  Floors,       \* roles the socket endpoints ask for
  MaxRequests, MaxGrants, MaxTickets, MaxClock   \* bounds

ASSUME LifeAssumption == {AccessLife, RefreshLife, TicketLife} \subseteq Nat
ASSUME SecondAssumption == Second \in Nat \ {0}
ASSUME LimitAssumption == GuardErrors \in Nat \ {0}
ASSUME BoundAssumption == {MaxRequests, MaxGrants, MaxTickets, MaxClock} \subseteq Nat
ASSUME StartAssumption == Start \in 0..MaxClock
ASSUME FloorAssumption == Floors \subseteq Role

VARIABLES
  password,   \* how often each user has changed theirs
  clock,
  grants,     \* token pairs in the order they were minted
  tickets,    \* WebSocket tickets
  sockets,    \* the sockets opened with them
  revoked,    \* rows of revoked_tokens
  req,        \* what each request is about to do
  started,    \* how many requests there have been
  replayed, loggedOut   \* grants of which a replay, a logout has been answered

tables == <<password, grants, tickets, revoked>>
history == <<replayed, loggedOut>>
vars == <<accounts, tables, sockets, clock, req, started, history>>

Grant == DOMAIN grants
Ticket == DOMAIN tickets
Socket == DOMAIN sockets
Idle == [pc |-> "idle"]

Issued == ({"access", "refresh"} \X Grant) \cup ({"ws"} \X Ticket)

\* The grant a token belongs to; a ticket belongs to the access token it was issued under.
GrantOf(t) == IF t[1] = "ws" THEN tickets[t[2]].grant ELSE t[2]
Subject(t) == grants[GrantOf(t)].user
Version(t) == grants[GrantOf(t)].ver

\* The second an instant falls into.
Whole(time) == time - (time % Second)

\* A JWT states its exp in whole seconds.
Expiry(t) ==
  Whole(CASE t[1] = "access"  -> grants[t[2]].born + AccessLife
          [] t[1] = "refresh" -> grants[t[2]].born + RefreshLife
          [] t[1] = "ws"      -> tickets[t[2]].born + TicketLife)

\* The database compares instants; decode_token compares seconds, and accepts a token
\* until the second of its exp is over.
Lapsed(t) == clock > Expiry(t)
Expired(t) == Whole(clock) > Expiry(t)

RevocationKeys(t) == IF t[1] = "ws" THEN {t, <<"access", GrantOf(t)>>} ELSE {t}
IsRevoked(keys) == \E row \in revoked : row.token \in keys

\* check_session_state, in the order of its tests.
Verdict(u, v, keys) ==
  CASE ~active[u]                                            -> "disabled"
    [] active[u] /\ IsRevoked(keys)                          -> "revoked"
    [] active[u] /\ ~IsRevoked(keys) /\ v # version[u]       -> "ended"
    [] OTHER                                                 -> "ok"

Judge(t) == Verdict(Subject(t), Version(t), RevocationKeys(t))

\* Mutant: the cleanup takes a row at the exp of its token, not after it.
KeptTooShort == {row \in revoked : row.until > clock}

\* revoke_token: the rows left after its cleanup, and whether its INSERT takes effect.
\* The cleanup may take a row while decode_token still accepts the token.
Kept == {row \in revoked : row.until >= clock}
Claims(t) == \A row \in Kept : row.token # t
Revoke(t, until) ==
  revoked' = Kept \cup (IF Claims(t) THEN {[token |-> t, until |-> until]} ELSE {})

Mint(u, v, pw, from) ==
  /\ Len(grants) < MaxGrants
  /\ grants' = Append(grants, [user |-> u, ver |-> v, pw |-> pw, from |-> from, born |-> clock])

-----------------------------------------------------------------------------
TypeOK ==
  /\ AccountsOK
  /\ \A u \in User : role[u] # Absent
  /\ password \in [User -> Nat]
  /\ clock \in 0..MaxClock
  /\ \A g \in Grant : grants[g] \in
       [user : User, ver : 0..MaxVersion, pw : Nat, from : 0..(g - 1), born : 0..clock]
  /\ \A k \in Ticket : tickets[k] \in [grant : Grant, born : 0..clock]
  /\ \A s \in Socket : sockets[s] \in
       [ticket : Ticket, floor : Role, errors : 0..(GuardErrors - 1),
        state : {"opening", "serving", "closed"}]
  /\ \A row \in revoked : row.token \in Issued /\ row.until \in Nat
  /\ started \in 0..MaxRequests
  /\ replayed \cup loggedOut \subseteq Grant
  /\ \A q \in Request : req[q] # Idle =>
       req[q].pc \in {"login", "minting", "decoded", "checked", "replay",
                      "logout load", "logout claim", "verified"}

\* First use: accounts that have never ended a session.
Init ==
  /\ role \in [User -> {"operator"}]
  /\ active = [u \in User |-> TRUE]
  /\ version = [u \in User |-> 0]
  /\ password = [u \in User |-> 0]
  /\ clock = Start
  /\ grants = <<>>
  /\ tickets = <<>>
  /\ sockets = <<>>
  /\ revoked = {}
  /\ req = [q \in Request |-> Idle]
  /\ started = 0
  /\ replayed = {}
  /\ loggedOut = {}

Goes(q, r) == req' = [req EXCEPT ![q] = r]
Step(q, pc) == Goes(q, [req[q] EXCEPT !.pc = pc]) /\ UNCHANGED started
Answered(q) == Goes(q, Idle) /\ UNCHANGED started
Starts(q, r) ==
  /\ req[q] = Idle
  /\ started < MaxRequests
  /\ started' = started + 1
  /\ Goes(q, r)

-----------------------------------------------------------------------------
(* Login, once check_login_rate has let it through. *)

LoginTry(q, u) ==
  /\ Starts(q, [pc |-> "login", user |-> u])
  /\ UNCHANGED <<accounts, tables, sockets, clock, history>>

\* The row is read and the password compared with it; a wrong one ends the request.
LoginRead(q) ==
  /\ req[q].pc = "login"
  /\ LET u == req[q].user IN
       \/ /\ active[u]
          /\ Goes(q, [pc |-> "minting", user |-> u, ver |-> version[u], pw |-> password[u]])
          /\ UNCHANGED started
       \/ Answered(q)
  /\ UNCHANGED <<accounts, tables, sockets, clock, history>>

\* Mutant: the version is read when the pair is minted, long after the password was compared.
LoginMintLate(q) ==
  /\ req[q].pc = "minting"
  /\ Mint(req[q].user, version[req[q].user], req[q].pw, 0)
  /\ Answered(q)
  /\ UNCHANGED <<accounts, password, tickets, revoked, sockets, clock, history>>

LoginMint(q) ==
  /\ req[q].pc = "minting"
  /\ Mint(req[q].user, req[q].ver, req[q].pw, 0)
  /\ Answered(q)
  /\ UNCHANGED <<accounts, password, tickets, revoked, sockets, clock, history>>

-----------------------------------------------------------------------------
(* Requests that carry a token. *)

KindFor(op) ==
  CASE op = "refresh" -> "refresh"
    [] op = "open" -> "ws"
    [] op \in {"ticket", "logout", "password"} -> "access"

\* decode_token: signature, expiry and kind.
Present(q, op, t, floor) ==
  /\ t[1] = KindFor(op)
  /\ ~Expired(t)
  /\ Starts(q, [pc |-> "decoded", op |-> op, token |-> t, floor |-> floor])
  /\ UNCHANGED <<accounts, tables, sockets, clock, history>>

\* check_session_state, and for a socket the role its endpoint asks for.
Check(q) ==
  /\ req[q].pc = "decoded"
  /\ LET t == req[q].token IN
       \/ /\ Judge(t) = "ok"
          /\ IF req[q].op = "open" => HasRole(req[q].floor, role[Subject(t)])
               THEN Step(q, "checked")
               ELSE Answered(q)
       \/ /\ Judge(t) = "revoked"
          /\ IF req[q].op = "refresh" THEN Step(q, "replay") ELSE Answered(q)
       \/ Judge(t) \in {"disabled", "ended"} /\ Answered(q)
  /\ UNCHANGED <<accounts, tables, sockets, clock, history>>

Checked(q, op) == req[q].pc = "checked" /\ req[q].op = op

\* Mutants: the new pair carries the version of the row; whoever passed the check rotates.
RotateFresh(q) ==
  /\ Checked(q, "refresh")
  /\ LET t == req[q].token IN
       /\ Revoke(t, Expiry(t))
       /\ IF Claims(t)
            THEN Mint(Subject(t), version[Subject(t)], grants[t[2]].pw, t[2]) /\ Answered(q)
            ELSE Step(q, "replay") /\ UNCHANGED grants
  /\ UNCHANGED <<accounts, password, tickets, sockets, clock, history>>

RotateUnclaimed(q) ==
  /\ Checked(q, "refresh")
  /\ LET t == req[q].token IN
       /\ Revoke(t, Expiry(t))
       /\ Mint(Subject(t), Version(t), grants[t[2]].pw, t[2])
  /\ Answered(q)
  /\ UNCHANGED <<accounts, password, tickets, sockets, clock, history>>

\* The claim decides; the new pair carries the version of the token that was presented.
Rotate(q) ==
  /\ Checked(q, "refresh")
  /\ LET t == req[q].token IN
       /\ Revoke(t, Expiry(t))
       /\ IF Claims(t)
            THEN Mint(Subject(t), Version(t), grants[t[2]].pw, t[2]) /\ Answered(q)
            ELSE Step(q, "replay") /\ UNCHANGED grants
  /\ UNCHANGED <<accounts, password, tickets, sockets, clock, history>>

EndSessionsAfterReplay(q) ==
  /\ req[q].pc = "replay"
  /\ EndAllSessions(Subject(req[q].token))
  /\ replayed' = replayed \cup {req[q].token[2]}
  /\ Answered(q)
  /\ UNCHANGED <<role, active, tables, sockets, clock, loggedOut>>

WsTicket(q) ==
  /\ Checked(q, "ticket")
  /\ Len(tickets) < MaxTickets
  /\ tickets' = Append(tickets, [grant |-> req[q].token[2], born |-> clock])
  /\ Answered(q)
  /\ UNCHANGED <<accounts, password, grants, revoked, sockets, clock, history>>

-----------------------------------------------------------------------------
(* Logout of a client that sends its refresh token along. *)

RefreshOf(q) == <<"refresh", req[q].token[2]>>
LogoutDone(q) == loggedOut' = loggedOut \cup {req[q].token[2]} /\ Answered(q)

Logout(q) ==
  /\ Checked(q, "logout")
  /\ Revoke(req[q].token, Expiry(req[q].token))
  /\ Step(q, "logout load")
  /\ UNCHANGED <<accounts, password, grants, tickets, sockets, clock, history>>

\* Mutant: the refresh token the client sent along is left alone.
LogoutAccessOnly(q) ==
  /\ req[q].pc = "logout load"
  /\ LogoutDone(q)
  /\ UNCHANGED <<accounts, tables, sockets, clock, replayed>>

LogoutLoad(q) ==
  /\ req[q].pc = "logout load"
  /\ IF ~Expired(RefreshOf(q)) /\ Judge(RefreshOf(q)) = "ok"
       THEN Step(q, "logout claim") /\ UNCHANGED loggedOut
       ELSE LogoutDone(q)
  /\ UNCHANGED <<accounts, tables, sockets, clock, replayed>>

LogoutClaim(q) ==
  /\ req[q].pc = "logout claim"
  /\ Revoke(RefreshOf(q), Expiry(RefreshOf(q)))
  /\ LogoutDone(q)
  /\ UNCHANGED <<accounts, password, grants, tickets, sockets, clock, replayed>>

-----------------------------------------------------------------------------
(* Password change. *)

\* The old password is compared with the hash read now.
VerifyPassword(q) ==
  /\ Checked(q, "password")
  /\ Step(q, "verified") \/ Answered(q)
  /\ UNCHANGED <<accounts, tables, sockets, clock, history>>

ChangePassword(q) ==
  /\ req[q].pc = "verified"
  /\ LET u == Subject(req[q].token) IN
       /\ EndAllSessions(u)
       /\ password' = [password EXCEPT ![u] = @ + 1]
       /\ Mint(u, version'[u], password'[u], 0)
  /\ Answered(q)
  /\ UNCHANGED <<role, active, tickets, revoked, sockets, clock, history>>

-----------------------------------------------------------------------------
(* Sockets. *)

\* Mutant: a socket is opened whether or not the ticket was claimed.
OpenUnclaimed(q) ==
  /\ Checked(q, "open")
  /\ LET t == req[q].token IN
       /\ Revoke(t, clock + TicketLife)
       /\ sockets' = Append(sockets, [ticket |-> t[2], floor |-> req[q].floor,
                                      state |-> "opening", errors |-> 0])
  /\ Answered(q)
  /\ UNCHANGED <<accounts, password, grants, tickets, clock, history>>

\* _authenticate_ws spends the ticket; its row outlives the ticket itself.
OpenSocket(q) ==
  /\ Checked(q, "open")
  /\ LET t == req[q].token IN
       /\ Revoke(t, clock + TicketLife)
       /\ sockets' = IF Claims(t)
                       THEN Append(sockets, [ticket |-> t[2], floor |-> req[q].floor,
                                             state |-> "opening", errors |-> 0])
                       ELSE sockets
  /\ Answered(q)
  /\ UNCHANGED <<accounts, password, grants, tickets, clock, history>>

Becomes(s, state, errors) ==
  /\ sockets' = [sockets EXCEPT ![s].state = state, ![s].errors = errors]
  /\ UNCHANGED <<accounts, tables, clock, req, started, history>>

\* _serve has subscribed and starts pump, client watch and guard.
Serve(s) ==
  /\ sockets[s].state = "opening"
  /\ Becomes(s, "serving", 0)

\* The client leaves, the pump fails, or the subscription could not be made.
Disconnect(s) ==
  /\ sockets[s].state \in {"opening", "serving"}
  /\ Becomes(s, "closed", 0)

AccessOf(s) == <<"access", tickets[sockets[s].ticket].grant>>

\* What the guard would find: the session of the socket is over, or its role too low.
SessionOver(s) ==
  LET t == AccessOf(s) IN
    \/ clock >= Expiry(t)
    \/ Judge(t) # "ok"
    \/ ~HasRole(sockets[s].floor, role[Subject(t)])

\* Mutant: the count starts over instead of closing.
StartsOver(s) == Becomes(s, "serving", (sockets[s].errors + 1) % GuardErrors)

GuardFails(s) ==
  IF sockets[s].errors + 1 >= GuardErrors
    THEN Becomes(s, "closed", 0)
    ELSE Becomes(s, "serving", sockets[s].errors + 1)

\* One round of _guard; a database error is tolerated a few times in a row.
Guard(s) ==
  /\ sockets[s].state = "serving"
  /\ \/ SessionOver(s) /\ Becomes(s, "closed", 0)
     \/ ~SessionOver(s) /\ Becomes(s, "serving", 0)
     \/ clock < Expiry(AccessOf(s)) /\ GuardFails(s)

-----------------------------------------------------------------------------
Tick ==
  /\ clock < MaxClock
  /\ clock' = clock + 1
  /\ UNCHANGED <<accounts, tables, sockets, req, started, history>>

\* A committed role or active change of an administrator.
Administer(u) ==
  /\ \/ \E r \in {"viewer", "operator"} : SetRole(u, r)
     \/ \E b \in BOOLEAN : SetActive(u, b)
  /\ UNCHANGED <<tables, sockets, clock, req, started, history>>

Next ==
  \/ \E q \in Request :
       \/ \E u \in User : LoginTry(q, u)
       \/ LoginRead(q) \/ LoginMint(q)
       \/ \E op \in {"refresh", "ticket", "logout", "password"}, t \in Issued :
            Present(q, op, t, "viewer")
       \/ \E t \in Issued, floor \in Floors : Present(q, "open", t, floor)
       \/ Check(q)
       \/ Rotate(q) \/ EndSessionsAfterReplay(q)
       \/ WsTicket(q) \/ OpenSocket(q)
       \/ Logout(q) \/ LogoutLoad(q) \/ LogoutClaim(q)
       \/ VerifyPassword(q) \/ ChangePassword(q)
  \/ \E s \in Socket : Serve(s) \/ Disconnect(s) \/ Guard(s)
  \/ \E u \in User : Administer(u)
  \/ Tick

\* The guard of a socket runs for as long as the socket does.
Fairness == \A s \in 1..MaxRequests : WF_vars(s \in Socket /\ Guard(s))

Spec == Init /\ [][Next]_vars /\ Fairness

-----------------------------------------------------------------------------
\* A ticket lapses with the access token it was issued under.
TokenLapsed(t) == Lapsed(t) \/ (t[1] = "ws" /\ Lapsed(<<"access", GrantOf(t)>>))

TokenStatus(t) ==
  IF t \notin Issued THEN "unissued"
  ELSE IF TokenLapsed(t) THEN "lapsed"
  ELSE IF IsRevoked(RevocationKeys(t)) \/ Version(t) # version[Subject(t)] THEN "dead"
  ELSE "live"

Token == ({"access", "refresh"} \X (1..MaxGrants)) \cup ({"ws"} \X (1..MaxTickets))
Life == INSTANCE TokenLife WITH status <- [t \in Token |-> TokenStatus(t)]

\* Up to its exp a token once dead stays dead, although the row that revoked it is
\* deleted later, versions move on and accounts are enabled again (auth.py:139, :216).
\* After it the row may be gone while decode_token still accepts the token: for the rest
\* of that second nothing is promised.
ImplementsTokenLife == Life!Spec

Children(g) == {c \in Grant : grants[c].from = g}
Gone(t) == TokenStatus(t) \in {"dead", "lapsed"}
PairDead(g) == Gone(<<"access", g>>) /\ Gone(<<"refresh", g>>)

\* Up to its exp a refresh token is exchanged for at most one pair, however many requests
\* present it at once (routes/auth.py:107).
RotatesOnce ==
  \A g \in Grant : Cardinality(Children(g)) <= 1 \/ Lapsed(<<"refresh", g>>)

\* When a second use of a refresh token has been answered, neither the pair it
\* belongs to nor a pair it was exchanged for is alive, also when the exchange
\* was still on its way (routes/auth.py:101-109).
ReplayEndsSessions ==
  \A g \in replayed : PairDead(g) /\ \A c \in Children(g) : PairDead(c)

\* A logout that has been answered leaves neither token of its pair alive, whatever
\* rotated, expired or was ended meanwhile (routes/auth.py:139-147).
LoggedOutIsDead == \A g \in loggedOut : PairDead(g)

\* No token that is alive rests on a password its user has changed since, also when
\* the login or the exchange that minted it had begun before (routes/auth.py:82, :187).
PasswordEndsOld ==
  \A t \in Issued : TokenStatus(t) = "live" =>
    grants[GrantOf(t)].pw = password[Subject(t)]

\* Up to its exp a ticket opens at most one socket (ws.py:121).
TicketOnce ==
  \A k \in Ticket :
    Cardinality({s \in Socket : sockets[s].ticket = k}) <= 1 \/ Lapsed(<<"ws", k>>)

\* A session a guard would find over stays over: the role may be given back, the account
\* enabled again and the row that revoked the token deleted before a late or failing
\* guard looks (ws.py:127, routes/users.py:124).
SessionStaysOver == [][\A s \in Socket : SessionOver(s) => SessionOver(s)']_vars

\* A socket does not outlive its session: it is closed when the session expires, is
\* ended or loses the role, also if the guard's database fails at times (ws.py:127).
SocketFollowsSession ==
  \A s \in 1..MaxRequests :
    (s \in Socket /\ sockets[s].state = "serving" /\ SessionOver(s))
      ~> (s \in Socket /\ sockets[s].state = "closed")
=============================================================================
