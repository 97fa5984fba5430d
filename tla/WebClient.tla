------------------------------ MODULE WebClient -----------------------------
(***************************************************************************)
(* The session of one browser tab (frontend/src/api/client.ts): requests   *)
(* carry the access token of the store; a 401 starts one refresh, which    *)
(* all requests that meet a 401 meanwhile share, and each is sent again    *)
(* once.  Tokens live in memory only, so a tab has a session of its own.   *)
(* A token pair is known by its number, 0 is none.                         *)
(*                                                                         *)
(* The server is what AuthSessions shows of it: an access token lapses, a  *)
(* refresh token is exchanged once and ends all sessions when it comes     *)
(* again, a new password ends them and hands out a pair.                   *)
(***************************************************************************)
EXTENDS Naturals, Sequences

CONSTANTS
  Call,       \* requests under way at the same time
  Op,         \* what they may be, besides "get", an ordinary one
  MaxCalls,   \* bound: requests of the tab
  MaxFaults   \* bound: answers lost, sessions ended by others

ASSUME ClientAssumption ==
  /\ Op \subseteq {"login", "password", "logout"}
  /\ {MaxCalls, MaxFaults} \subseteq Nat

VARIABLES
  held,         \* the pair in the store
  calls,        \* what each request is waiting for
  refresh,      \* refreshInFlight
  pairs,        \* the token_version of every pair
  generation,   \* token_version
  lapsed, ended,   \* pairs whose access token has expired, pairs logged out
  presented, spent,   \* pairs whose refresh token came in, was exchanged
  made, faults

server == <<pairs, generation, lapsed, ended, presented, spent>>
vars == <<held, calls, refresh, server, made, faults>>

Pair == DOMAIN pairs
Request(pc, op, pair, again) == [pc |-> pc, op |-> op, pair |-> pair, again |-> again]
Idle == Request("idle", "get", 0, FALSE)
NoRefresh == [pc |-> "none", pair |-> 0]

TypeOK ==
  /\ pairs \in Seq(0..generation)
  /\ generation \in Nat
  /\ held \in Pair \cup {0}
  /\ calls \in [Call -> [pc : {"idle", "sent", "waits", "granted"}, op : Op \cup {"get"},
                         pair : Pair \cup {0}, again : BOOLEAN]]
  /\ refresh \in [pc : {"none", "sent", "granted", "refused"}, pair : Pair \cup {0}]
  /\ lapsed \cup ended \cup presented \subseteq Pair /\ spent \subseteq presented
  /\ made \in 0..MaxCalls
  /\ faults \in 0..MaxFaults

\* Logged in.
Init ==
  /\ held = 1
  /\ calls = [c \in Call |-> Idle]
  /\ refresh = NoRefresh
  /\ pairs = <<0>>
  /\ generation = 0
  /\ lapsed = {} /\ ended = {} /\ presented = {} /\ spent = {}
  /\ made = 0
  /\ faults = 0

Fault == faults < MaxFaults /\ faults' = faults + 1

Current(p) == p \in Pair /\ pairs[p] = generation /\ p \notin ended
AccessOk(p) == Current(p) /\ p \notin lapsed
RefreshOk(p) == Current(p) /\ p \notin spent

Becomes(c, pc, pair) ==
  calls' = [calls EXCEPT ![c] = Request(pc, calls[c].op, pair, calls[c].again)]
Settle(c) == calls' = [calls EXCEPT ![c] = Idle]
At(c, pc, ops) == calls[c].pc = pc /\ calls[c].op \in ops

-----------------------------------------------------------------------------
(* Requests *)

\* A page shows a form at a time; without a token there is only the login page.
Send(c, op) ==
  /\ calls[c] = Idle
  /\ made < MaxCalls
  /\ op = "login" <=> held = 0
  /\ op # "get" => \A d \in Call : calls[d].op = "get"
  /\ made' = made + 1
  /\ calls' = [calls EXCEPT ![c] = Request("sent", op, held, FALSE)]
  /\ UNCHANGED <<held, refresh, server, faults>>

\* Any answer but 401 to a request that changes no session, or a login refused.
Settled(c) ==
  /\ \/ At(c, "sent", {"get", "password"}) /\ AccessOk(calls[c].pair)
     \/ At(c, "sent", {"login"})
  /\ Settle(c)
  /\ UNCHANGED <<held, refresh, server, made, faults>>

LogIn(c) ==
  /\ At(c, "sent", {"login"})
  /\ pairs' = Append(pairs, generation)
  /\ Becomes(c, "granted", Len(pairs'))
  /\ UNCHANGED <<held, refresh, generation, lapsed, ended, presented, spent, made, faults>>

ChangePassword(c) ==
  /\ At(c, "sent", {"password"})
  /\ AccessOk(calls[c].pair)
  /\ generation' = generation + 1
  /\ pairs' = Append(pairs, generation')
  /\ Becomes(c, "granted", Len(pairs'))
  /\ UNCHANGED <<held, refresh, lapsed, ended, presented, spent, made, faults>>

\* Whatever the server makes of it, the client goes on to clear its store.
LogOut(c) ==
  /\ At(c, "sent", {"logout"})
  /\ ended' = IF AccessOk(calls[c].pair) THEN ended \cup {calls[c].pair} ELSE ended
  /\ Becomes(c, "granted", 0)
  /\ UNCHANGED <<held, refresh, pairs, generation, lapsed, presented, spent, made, faults>>

\* setAuth and setRefreshToken, or clearAuth.
Store(c) ==
  /\ calls[c].pc = "granted"
  /\ held' = calls[c].pair
  /\ Settle(c)
  /\ UNCHANGED <<refresh, server, made, faults>>

\* No answer within 15 s; logout() clears the store all the same.
TimesOut(c) ==
  /\ calls[c].pc \in {"sent", "granted"}
  /\ Fault
  /\ IF calls[c].op = "logout"
       THEN held' = 0
       ELSE UNCHANGED held
  /\ Settle(c)
  /\ UNCHANGED <<refresh, server, made>>

-----------------------------------------------------------------------------
(* The response interceptor and doRefresh *)

\* A 401: the token is no good, or the old password is wrong.
Refused(c) ==
  \/ At(c, "sent", {"get", "password"}) /\ ~AccessOk(calls[c].pair)
  \/ At(c, "sent", {"password"})

\* Mutant: every request that meets a 401 starts a refresh of its own.
OwnRefresh == [pc |-> "sent", pair |-> held]

\* refreshInFlight ??= doRefresh(), which reads the store when it starts.
SharedRefresh == IF refresh = NoRefresh THEN [pc |-> "sent", pair |-> held] ELSE refresh

\* Mutant: a request that is sent again may wait again.
MayWaitAgain(c) == refresh # NoRefresh \/ held # 0

\* Whether the request waits for a refresh: not a second time, not without a refresh token.
MayWait(c) == ~calls[c].again /\ (refresh # NoRefresh \/ held # 0)

Refuse(c) ==
  /\ Refused(c)
  /\ IF MayWait(c)
       THEN refresh' = SharedRefresh /\ Becomes(c, "waits", 0)
       ELSE Settle(c) /\ UNCHANGED refresh
  /\ UNCHANGED <<held, server, made, faults>>

\* The server exchanges the token; one exchanged or logged out before ends all sessions.
ServeRefresh ==
  /\ refresh.pc = "sent"
  /\ LET p == refresh.pair IN
       /\ presented' = presented \cup {p}
       /\ IF RefreshOk(p)
            THEN /\ pairs' = Append(pairs, pairs[p])
                 /\ spent' = spent \cup {p}
                 /\ refresh' = [pc |-> "granted", pair |-> Len(pairs')]
                 /\ UNCHANGED generation
            ELSE /\ generation' = IF p \in spent \cup ended THEN generation + 1 ELSE generation
                 /\ refresh' = [pc |-> "refused", pair |-> p]
                 /\ UNCHANGED <<pairs, spent>>
  /\ UNCHANGED <<held, calls, lapsed, ended, made, faults>>

\* The promise settles: who waits for it is sent again with the new token, or fails.
Resume(ok, pair) ==
  /\ held' = pair
  /\ refresh' = NoRefresh
  /\ calls' = [c \in Call |->
       IF calls[c].pc # "waits" THEN calls[c]
       ELSE IF ok THEN Request("sent", calls[c].op, pair, TRUE)
       ELSE Idle]

RefreshGranted ==
  /\ refresh.pc = "granted"
  /\ Resume(TRUE, refresh.pair)
  /\ UNCHANGED <<server, made, faults>>

\* Mutant: the refresh's own 401 waits for the refresh.
RefreshAwaitsItself ==
  /\ refresh.pc = "refused"
  /\ UNCHANGED vars

RefreshRefused ==
  /\ refresh.pc = "refused"
  /\ Resume(FALSE, 0)
  /\ UNCHANGED <<server, made, faults>>

\* No answer: the session is dropped as well.
RefreshTimesOut ==
  /\ refresh.pc \in {"sent", "granted"}
  /\ Fault
  /\ Resume(FALSE, 0)
  /\ UNCHANGED <<server, made>>

-----------------------------------------------------------------------------
(* What happens to a session elsewhere *)

Lapse(p) ==
  /\ p \notin lapsed
  /\ lapsed' = lapsed \cup {p}
  /\ UNCHANGED <<held, calls, refresh, pairs, generation, ended, presented, spent, made, faults>>

SessionsEnd ==
  /\ Fault
  /\ generation' = generation + 1
  /\ UNCHANGED <<held, calls, refresh, pairs, lapsed, ended, presented, spent, made>>

-----------------------------------------------------------------------------
Proceeds(c) ==
  \/ Settled(c) \/ LogIn(c) \/ ChangePassword(c) \/ LogOut(c) \/ Store(c)
  \/ Refuse(c) \/ TimesOut(c)

RefreshProceeds == ServeRefresh \/ RefreshGranted \/ RefreshRefused \/ RefreshTimesOut

Next ==
  \/ \E c \in Call : (\E op \in Op \cup {"get"} : Send(c, op)) \/ Proceeds(c)
  \/ RefreshProceeds
  \/ \E p \in Pair : Lapse(p)
  \/ SessionsEnd

\* Every request has an answer or its timeout in the end.
Fairness == WF_vars(RefreshProceeds) /\ \A c \in Call : WF_vars(Proceeds(c))

Spec == Init /\ [][Next]_vars /\ Fairness

-----------------------------------------------------------------------------
\* A refresh carries a token that was never sent before, whatever requests meet a 401 at the same time and
\* whatever is logged in, logged out or changed meanwhile (client.ts:102).
UsedOnce == refresh.pc = "sent" => refresh.pair \notin presented

\* How far a request is from its end.
Left(r) ==
  CASE r.pc = "sent" -> IF r.again THEN 2 ELSE 4
    [] r.pc = "waits" -> 3
    [] r.pc = "granted" -> 1
    [] r.pc = "idle" -> 0

\* A request only moves on: it waits for one refresh, is sent again once, and never waits a
\* second time, whatever the second answer is (client.ts:39).
MovesOn ==
  [][\A c \in Call : calls[c] # Idle /\ calls'[c] # calls[c] => Left(calls'[c]) < Left(calls[c])]_vars

\* A refresh is in flight while a request waits for one: the promise is dropped only when
\* everybody who waits for it has been told (client.ts:108).
WaitsForRefresh == \A c \in Call : calls[c].pc = "waits" => refresh.pc # "none"

\* Every request is answered or fails in the end, none waits for a refresh for ever
\* (client.ts:107).
CallsSettle == \A c \in Call : calls[c] # Idle ~> calls[c] = Idle
=============================================================================
