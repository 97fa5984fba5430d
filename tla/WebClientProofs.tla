-------------------------- MODULE WebClientProofs ---------------------------
(***************************************************************************)
(* Theorems about WebClient, for any number of requests under way, of      *)
(* lost answers and of sessions ended elsewhere.                           *)
(***************************************************************************)
EXTENDS WebClient, TLAPS

\* Bounds are numbers, an ordinary request has a name of its own.
LEMMA Numbers == MaxCalls \in Nat /\ MaxFaults \in Nat /\ "get" \notin Op
  BY ClientAssumption

CallRow == [pc : {"idle", "sent", "waits", "granted"}, op : Op \cup {"get"}, pair : Nat,
            again : BOOLEAN]
RefreshRow == [pc : {"none", "sent", "granted", "refused"}, pair : Nat]

PairsOK ==
  /\ pairs \in Seq(Nat) /\ generation \in Nat
  /\ \A p \in Pair : pairs[p] <= generation
  /\ lapsed \subseteq Pair /\ ended \subseteq Pair
  /\ presented \subseteq Pair /\ spent \subseteq presented
CallsOK ==
  /\ calls \in [Call -> CallRow]
  /\ \A c \in Call : calls[c].pair \in Pair \cup {0}
ClientOK ==
  /\ held \in Pair \cup {0}
  /\ refresh \in RefreshRow /\ refresh.pair \in Pair \cup {0}
  /\ made \in 0..MaxCalls /\ faults \in 0..MaxFaults

TypeInv == PairsOK /\ CallsOK /\ ClientOK

\* Pairs are numbered from 1 (routes/auth.py).
LEMMA PairFacts ==
  ASSUME PairsOK
  PROVE  /\ Pair = 1..Len(pairs) /\ Len(pairs) \in Nat
         /\ 0 \notin Pair /\ Len(pairs) + 1 \notin Pair /\ Pair \subseteq Nat
         /\ \A p \in Pair : pairs[p] \in Nat
<1>1. Pair = 1..Len(pairs) /\ Len(pairs) \in Nat
  BY DEF PairsOK, Pair
<1> QED BY <1>1 DEF PairsOK

\* No pair but a new one, and the version of a pair never changes (auth.py).
Minted(v) ==
  /\ pairs' = Append(pairs, v)
  /\ Pair' = Pair \cup {Len(pairs) + 1}
  /\ Len(pairs') = Len(pairs) + 1
  /\ pairs'[Len(pairs')] = v
  /\ \A p \in Pair : pairs'[p] = pairs[p]

LEMMA Minting ==
  ASSUME PairsOK, NEW v \in Nat, pairs' = Append(pairs, v)
  PROVE  Minted(v) /\ pairs' \in Seq(Nat)
<1>1. /\ pairs' \in Seq(Nat) /\ Len(pairs') = Len(pairs) + 1
      /\ pairs'[Len(pairs) + 1] = v
      /\ \A p \in 1..Len(pairs) : pairs'[p] = pairs[p]
  BY DEF PairsOK
<1>2. Pair' = 1..(Len(pairs) + 1)
  BY <1>1 DEF Pair
<1> QED BY <1>1, <1>2, PairFacts DEF Minted

\* What a step may do to the session tables.
Steady == UNCHANGED <<pairs, generation, lapsed, ended, presented, spent>>

LEMMA SteadyPairs ==
  ASSUME PairsOK, Steady
  PROVE  PairsOK' /\ Pair' = Pair
  BY DEF PairsOK, Steady, Pair

-----------------------------------------------------------------------------
(* Types *)

\* The rows of requests and of the refresh are what the actions make of them.
LEMMA Rows ==
  ASSUME TypeInv, NEW c \in Call
  PROVE  /\ Idle \in CallRow /\ Idle.pair = 0 /\ Idle.pc = "idle" /\ Idle.op = "get"
         /\ NoRefresh \in RefreshRow /\ NoRefresh.pair = 0 /\ NoRefresh.pc = "none"
         /\ calls[c] \in CallRow
  BY Numbers DEF TypeInv, CallsOK, CallRow, RefreshRow, Idle, NoRefresh, Request

LEMMA CallChanges ==
  ASSUME CallsOK, Pair \subseteq Pair', NEW c \in Call, NEW r \in CallRow,
         r.pair \in Pair' \cup {0}, calls' = [calls EXCEPT ![c] = r]
  PROVE  CallsOK'
  BY DEF CallsOK

LEMMA Becoming ==
  ASSUME CallsOK, Pair \subseteq Pair', NEW c \in Call,
         NEW pc \in {"idle", "sent", "waits", "granted"}, NEW p \in Nat, p \in Pair' \cup {0},
         Becomes(c, pc, p)
  PROVE  /\ CallsOK'
         /\ calls'[c].pc = pc /\ calls'[c].pair = p /\ calls'[c].op = calls[c].op
         /\ \A d \in Call \ {c} : calls'[d] = calls[d]
<1>1. calls[c] \in CallRow
  BY DEF CallsOK
<1> DEFINE r == Request(pc, calls[c].op, p, calls[c].again)
<1>2. r \in CallRow /\ r.pc = pc /\ r.pair = p /\ r.op = calls[c].op
  BY <1>1 DEF CallRow, Request
<1>3. calls' = [calls EXCEPT ![c] = r]
  BY DEF Becomes
<1> HIDE DEF r
<1> QED BY <1>2, <1>3, CallChanges DEF CallsOK

LEMMA Settling ==
  ASSUME TypeInv, Pair \subseteq Pair', NEW c \in Call, Settle(c)
  PROVE  CallsOK' /\ calls'[c] = Idle /\ \A d \in Call \ {c} : calls'[d] = calls[d]
  BY Rows, CallChanges DEF Settle, TypeInv, CallsOK

-----------------------------------------------------------------------------
(* The invariant *)

\* A refresh that is in flight is about a pair (client.ts:113).
Flight ==
  /\ refresh.pc = "none" => refresh = NoRefresh
  /\ refresh.pc # "none" => refresh.pair \in Pair

\* What the client may still present has not been presented.
Fresh ==
  /\ refresh.pc \in {"sent", "granted"} => refresh.pair \notin presented
  /\ refresh.pc = "none" => held \notin presented

\* The pair of a login or a new password is nobody else's.
Handed(c) ==
  /\ calls[c].op # "get"
  /\ calls[c].op = "logout" => calls[c].pair = 0
  /\ calls[c].op # "logout" =>
       calls[c].pair \in Pair \ (presented \cup ended \cup {held, refresh.pair})

Forms ==
  /\ \A c, d \in Call : calls[c].op # "get" /\ calls[d].op # "get" => c = d
  /\ \A c \in Call : calls[c].pc = "granted" => Handed(c)

ClientInv == TypeInv /\ Flight /\ Fresh /\ Forms

\* The parts that speak of the session tables say the same of the same tables.
LEMMA Undisturbed ==
  ASSUME ClientInv, Steady, UNCHANGED <<held, refresh>>
  PROVE  Flight' /\ Fresh'
  BY SteadyPairs DEF ClientInv, TypeInv, Steady, Flight, Fresh

\* A request that changes to something ordinary disturbs no other.
LEMMA FormsKept ==
  ASSUME ClientInv, Steady, UNCHANGED <<held, refresh>>, NEW c \in Call,
         \A d \in Call \ {c} : calls'[d] = calls[d],
         calls'[c].op \in {"get", calls[c].op}, calls'[c].pc # "granted"
  PROVE  Forms'
  BY SteadyPairs DEF ClientInv, TypeInv, Steady, Forms, Handed

LEMMA ClientStarts == Init => ClientInv
<1> SUFFICES ASSUME Init PROVE ClientInv
  OBVIOUS
<1> USE DEF Init, Idle, NoRefresh, Request
<1>1. PairsOK /\ Pair = {1}
  <2>1. pairs = <<0>> /\ pairs \in Seq(Nat) /\ Len(pairs) = 1
    OBVIOUS
  <2> QED BY <2>1 DEF PairsOK, Pair
<1>2. CallsOK
  BY DEF CallsOK, CallRow
<1>3. ClientOK
  <2>1. refresh \in RefreshRow /\ refresh.pair = 0
    BY DEF RefreshRow
  <2>2. 0 \in 0..MaxCalls /\ 0 \in 0..MaxFaults
    BY Numbers
  <2> QED BY <1>1, <2>1, <2>2 DEF ClientOK
<1>4. Flight /\ Fresh /\ Forms
  BY DEF Flight, Fresh, Forms
<1> QED BY <1>1, <1>2, <1>3, <1>4 DEF ClientInv, TypeInv

LEMMA SendStep ==
  ASSUME ClientInv, NEW c \in Call, NEW op \in Op \cup {"get"}, Send(c, op)
  PROVE  ClientInv'
<1> USE DEF Send
<1> DEFINE r == Request("sent", op, held, FALSE)
<1>1. Steady /\ PairsOK' /\ Pair' = Pair
  BY SteadyPairs DEF ClientInv, TypeInv, Steady, server
<1>2. r \in CallRow /\ r.pair = held /\ r.op = op /\ r.pc = "sent"
  BY PairFacts DEF ClientInv, TypeInv, ClientOK, CallRow, Request
<1>3. calls' = [calls EXCEPT ![c] = r]
  OBVIOUS
<1> HIDE DEF r
<1>4. CallsOK'
  BY <1>1, <1>2, <1>3, CallChanges DEF ClientInv, TypeInv, ClientOK
<1>5. ClientOK'
  BY <1>1, Numbers DEF ClientInv, TypeInv, ClientOK
<1>6. Flight' /\ Fresh'
  BY <1>1, Undisturbed
<1>7. calls'[c] = r /\ \A d \in Call \ {c} : calls'[d] = calls[d]
  BY <1>3 DEF ClientInv, TypeInv, CallsOK
<1>8. Forms'
  <2>1. \A d, e \in Call : calls'[d].op # "get" /\ calls'[e].op # "get" => d = e
    BY <1>2, <1>7, Rows DEF ClientInv, Forms
  <2>2. ASSUME NEW d \in Call, calls'[d].pc = "granted" PROVE Handed(d)'
    <3>1. d # c /\ Handed(d)
      BY <1>2, <1>7, <2>2 DEF ClientInv, Forms
    <3> QED BY <1>1, <1>7, <3>1 DEF Handed, Steady
  <2> QED BY <2>1, <2>2 DEF Forms
<1> QED BY <1>1, <1>4, <1>5, <1>6, <1>8 DEF ClientInv, TypeInv

\* A request comes to its end and nothing else happens.
LEMMA SettleStep ==
  ASSUME ClientInv, NEW c \in Call, Settle(c), Steady,
         UNCHANGED <<held, refresh, made>>, faults' \in 0..MaxFaults
  PROVE  ClientInv'
<1>1. PairsOK' /\ Pair' = Pair
  BY SteadyPairs DEF ClientInv, TypeInv
<1>2. CallsOK' /\ calls'[c] = Idle /\ \A d \in Call \ {c} : calls'[d] = calls[d]
  BY <1>1, Settling DEF ClientInv
<1>3. ClientOK'
  BY <1>1 DEF ClientInv, TypeInv, ClientOK
<1>4. Flight' /\ Fresh'
  BY Undisturbed
<1>5. Forms'
  BY <1>2, FormsKept, Rows DEF ClientInv
<1> QED BY <1>1, <1>2, <1>3, <1>4, <1>5 DEF ClientInv, TypeInv

LEMMA SettledStep ==
  ASSUME ClientInv, NEW c \in Call, Settled(c)
  PROVE  ClientInv'
  BY SettleStep DEF Settled, Steady, server, ClientInv, TypeInv, ClientOK

\* A pair is handed out to a request whose form is the only one.
LEMMA HandOut ==
  ASSUME ClientInv, NEW c \in Call, calls[c].op \notin {"get", "logout"},
         generation' \in {generation, generation + 1}, pairs' = Append(pairs, generation'),
         Becomes(c, "granted", Len(pairs')),
         UNCHANGED <<held, refresh, lapsed, ended, presented, spent, made, faults>>
  PROVE  ClientInv'
<1> DEFINE n == Len(pairs) + 1
<1>1. /\ generation \in Nat /\ generation' \in Nat /\ generation <= generation'
      /\ \A p \in Pair : pairs[p] \in Nat /\ pairs[p] <= generation
  BY PairFacts DEF ClientInv, TypeInv, PairsOK
<1>2. Minted(generation') /\ pairs' \in Seq(Nat)
  BY <1>1, Minting DEF ClientInv, TypeInv
<1>3. n \in Nat /\ n \notin Pair /\ n # 0 /\ Pair' = Pair \cup {n} /\ Len(pairs') = n
  BY <1>2, PairFacts DEF ClientInv, TypeInv, Minted
<1>4. pairs'[n] = generation' /\ \A p \in Pair : pairs'[p] = pairs[p]
  BY <1>2, <1>3 DEF Minted
<1> HIDE DEF n
<1>5. ASSUME NEW p \in Pair' PROVE pairs'[p] \in Nat /\ pairs'[p] <= generation'
  <2>1. CASE p = n
    <3>1. pairs'[p] = generation'
      BY <1>4, <2>1
    <3>2. generation' \in Nat /\ generation' <= generation'
      BY <1>1
    <3> QED BY <3>1, <3>2
  <2>2. CASE p \in Pair
    <3>1. pairs'[p] = pairs[p] /\ pairs[p] \in Nat /\ pairs[p] <= generation
      BY <1>1, <1>4, <2>2
    <3>2. generation \in Nat /\ generation' \in Nat /\ generation <= generation'
      BY <1>1
    <3> QED BY <3>1, <3>2
  <2> QED BY <1>3, <2>1, <2>2
<1>6. PairsOK'
  <2>1. ASSUME NEW p \in Pair' PROVE pairs'[p] <= generation'
    BY <1>5, <1>1
  <2>2. pairs' \in Seq(Nat) /\ generation' \in Nat
    BY <1>1, <1>2
  <2> QED BY <1>3, <2>1, <2>2 DEF ClientInv, TypeInv, PairsOK
<1>7. /\ CallsOK'
      /\ calls'[c].pc = "granted" /\ calls'[c].pair = n /\ calls'[c].op = calls[c].op
      /\ \A d \in Call \ {c} : calls'[d] = calls[d]
  BY <1>3, Becoming DEF ClientInv, TypeInv
<1>8. ClientOK'
  BY <1>3 DEF ClientInv, TypeInv, ClientOK
<1>9. held # n /\ refresh.pair # n /\ n \notin presented \cup ended
  BY <1>3 DEF ClientInv, TypeInv, ClientOK, PairsOK
<1>10. ASSUME NEW d \in Call, calls'[d].pc = "granted" PROVE Handed(d)'
  <2>1. CASE d = c
    BY <1>3, <1>7, <1>9, <2>1 DEF Handed
  <2>2. CASE d # c
    BY <1>7, <1>10, <2>2 DEF ClientInv, Forms, Handed
  <2> QED BY <2>1, <2>2
<1>11. Forms'
  BY <1>7, <1>10 DEF ClientInv, Forms
<1>12. Flight' /\ Fresh'
  BY <1>3 DEF ClientInv, Flight, Fresh
<1> QED BY <1>6, <1>7, <1>8, <1>11, <1>12 DEF ClientInv, TypeInv

LEMMA LogInStep ==
  ASSUME ClientInv, NEW c \in Call, LogIn(c) \/ ChangePassword(c)
  PROVE  ClientInv'
<1>1. CASE LogIn(c)
  BY <1>1, HandOut DEF LogIn, At
<1>2. CASE ChangePassword(c)
  BY <1>2, HandOut DEF ChangePassword, At
<1> QED BY <1>1, <1>2

LEMMA LogOutStep ==
  ASSUME ClientInv, NEW c \in Call, LogOut(c)
  PROVE  ClientInv'
<1> USE DEF LogOut, At
<1>1. PairsOK' /\ Pair' = Pair
  BY DEF ClientInv, TypeInv, PairsOK, CallsOK, AccessOk, Current, Pair
<1>2. /\ CallsOK'
      /\ calls'[c].pc = "granted" /\ calls'[c].pair = 0 /\ calls'[c].op = "logout"
      /\ \A d \in Call \ {c} : calls'[d] = calls[d]
  BY <1>1, Becoming DEF ClientInv, TypeInv
<1>3. ClientOK'
  BY <1>1 DEF ClientInv, TypeInv, ClientOK
<1>4. Flight' /\ Fresh'
  BY <1>1 DEF ClientInv, TypeInv, Flight, Fresh
<1>5. ASSUME NEW d \in Call, calls'[d].pc = "granted" PROVE Handed(d)'
  <2>1. CASE d = c
    BY <1>2, <2>1 DEF Handed
  <2>2. CASE d # c
    BY <1>2, <1>5, <2>2 DEF ClientInv, Forms, Handed
  <2> QED BY <2>1, <2>2
<1>6. Forms'
  BY <1>2, <1>5 DEF ClientInv, Forms
<1> QED BY <1>1, <1>2, <1>3, <1>4, <1>6 DEF ClientInv, TypeInv

\* The store takes over a pair and the request is done.
LEMMA StoreStep ==
  ASSUME ClientInv, NEW c \in Call, calls[c].op # "get", NEW p, held' = p,
         p \in (Pair \cup {0}) \ presented,
         Settle(c), Steady,
         UNCHANGED <<refresh, made>>, faults' \in 0..MaxFaults
  PROVE  ClientInv'
<1>1. PairsOK' /\ Pair' = Pair
  BY SteadyPairs DEF ClientInv, TypeInv
<1>2. CallsOK' /\ calls'[c] = Idle /\ \A d \in Call \ {c} : calls'[d] = calls[d]
  BY <1>1, Settling DEF ClientInv
<1>3. ClientOK'
  BY <1>1 DEF ClientInv, TypeInv, ClientOK
<1>4. Flight'
  BY <1>1 DEF ClientInv, Flight
<1>5. Fresh'
  BY <1>1 DEF ClientInv, Steady, Fresh
<1>6. \A d \in Call : calls'[d].op = "get" /\ calls'[d].pc # "granted"
  BY <1>2, Rows DEF ClientInv, Forms, Handed
<1>7. Forms'
  BY <1>6 DEF Forms
<1> QED BY <1>1, <1>2, <1>3, <1>4, <1>5, <1>7 DEF ClientInv, TypeInv

LEMMA ClearStep ==
  ASSUME ClientInv, NEW c \in Call, Store(c) \/ TimesOut(c)
  PROVE  ClientInv'
<1>1. 0 \notin presented /\ faults \in 0..MaxFaults
  BY PairFacts DEF ClientInv, TypeInv, PairsOK, ClientOK
<1>2. CASE Store(c)
  <2>1. Handed(c)
    BY <1>2 DEF Store, ClientInv, Forms
  <2>2. calls[c].pair \in (Pair \cup {0}) \ presented
    BY <1>1, <2>1 DEF Handed
  <2> QED BY <1>1, <1>2, <2>1, <2>2, StoreStep DEF Store, Handed, Steady, server
<1>3. CASE TimesOut(c)
  <2>1. faults' \in 0..MaxFaults
    BY <1>1, <1>3, Numbers DEF TimesOut, Fault
  <2>2. CASE calls[c].op = "logout"
    BY <1>1, <1>3, <2>1, <2>2, StoreStep DEF TimesOut, Steady, server
  <2>3. CASE calls[c].op # "logout"
    BY <1>3, <2>1, <2>3, SettleStep DEF TimesOut, Steady, server
  <2> QED BY <2>2, <2>3
<1> QED BY <1>2, <1>3

LEMMA RefuseStep ==
  ASSUME ClientInv, NEW c \in Call, Refuse(c)
  PROVE  ClientInv'
<1> USE DEF Refuse
<1>1. Steady /\ PairsOK' /\ Pair' = Pair
  BY SteadyPairs DEF ClientInv, TypeInv, Steady, server
<1>2. CASE ~MayWait(c)
  BY <1>1, <1>2, SettleStep DEF ClientInv, TypeInv, ClientOK
<1>3. CASE MayWait(c)
  <2>1. /\ CallsOK'
        /\ calls'[c].pc = "waits" /\ calls'[c].op = calls[c].op
        /\ \A d \in Call \ {c} : calls'[d] = calls[d]
    BY <1>1, <1>3, Becoming DEF ClientInv, TypeInv
  <2>2. CASE refresh # NoRefresh
    <3>1. refresh' = refresh
      BY <1>3, <2>2 DEF SharedRefresh
    <3>2. ClientOK'
      BY <1>1, <3>1 DEF ClientInv, TypeInv, ClientOK
    <3>3. Flight' /\ Fresh'
      BY <1>1, <3>1, Undisturbed
    <3>4. Forms'
      BY <1>1, <2>1, <3>1, FormsKept
    <3> QED BY <1>1, <2>1, <3>2, <3>3, <3>4 DEF ClientInv, TypeInv
  <2>3. CASE refresh = NoRefresh
    <3>1. /\ held \in Pair /\ held \in Nat /\ refresh.pc = "none"
          /\ refresh' = [pc |-> "sent", pair |-> held]
      BY <1>3, <2>3, PairFacts, Rows DEF MayWait, SharedRefresh, ClientInv, TypeInv, ClientOK
    <3>2. ClientOK'
      BY <1>1, <3>1 DEF ClientInv, TypeInv, ClientOK, RefreshRow
    <3>3. Flight' /\ Fresh'
      BY <1>1, <3>1 DEF ClientInv, Flight, Fresh, Steady
    <3>4. ASSUME NEW d \in Call, calls'[d].pc = "granted" PROVE Handed(d)'
      <4>1. d # c /\ Handed(d) /\ calls'[d] = calls[d]
        BY <2>1, <3>4 DEF ClientInv, Forms
      <4> QED BY <1>1, <3>1, <4>1 DEF Handed, Steady
    <3>5. Forms'
      BY <2>1, <3>4 DEF ClientInv, Forms
    <3> QED BY <1>1, <2>1, <3>2, <3>3, <3>5 DEF ClientInv, TypeInv
  <2> QED BY <2>2, <2>3
<1> QED BY <1>2, <1>3

\* An exchange makes a pair of the same version, a replay a new generation (auth.py).
LEMMA ServeStep ==
  ASSUME ClientInv, ServeRefresh
  PROVE  ClientInv'
<1> USE DEF ServeRefresh
<1> DEFINE p == refresh.pair
           n == Len(pairs) + 1
<1>1. /\ p \in Pair /\ p \notin presented
      /\ p \in Nat /\ generation \in Nat /\ pairs[p] \in Nat
  BY PairFacts DEF ClientInv, TypeInv, PairsOK, Flight, Fresh
<1>2. /\ \A d \in Call : calls[d].pc = "granted" => Handed(d)
      /\ \A d, e \in Call : calls[d].op # "get" /\ calls[e].op # "get" => d = e
  BY DEF ClientInv, Forms
<1>3. CASE RefreshOk(p)
  <2>1. pairs' = Append(pairs, pairs[p]) /\ spent' = spent \cup {p} /\ generation' = generation
    BY <1>3
  <2>2. Minted(pairs[p]) /\ pairs' \in Seq(Nat)
    BY <1>1, <2>1, Minting DEF ClientInv, TypeInv
  <2>3. /\ n \in Nat /\ n \notin Pair /\ n # 0 /\ Pair' = Pair \cup {n} /\ Len(pairs') = n
        /\ pairs'[n] = pairs[p] /\ \A q \in Pair : pairs'[q] = pairs[q]
    BY <2>2, PairFacts DEF ClientInv, TypeInv, Minted
  <2> HIDE DEF n
  <2>4. refresh' = [pc |-> "granted", pair |-> n]
    BY <1>3, <2>3
  <2>5. \A q \in Pair' : pairs'[q] <= generation'
    BY <1>1, <2>1, <2>3 DEF ClientInv, TypeInv, PairsOK
  <2>6. PairsOK'
    BY <1>1, <2>1, <2>2, <2>3, <2>5 DEF ClientInv, TypeInv, PairsOK
  <2>7. CallsOK' /\ ClientOK'
    BY <2>3, <2>4 DEF ClientInv, TypeInv, CallsOK, ClientOK, RefreshRow
  <2>8. n \notin presented /\ n # p
    BY <1>1, <2>3 DEF ClientInv, TypeInv, PairsOK
  <2>9. Flight' /\ Fresh'
    BY <1>1, <2>1, <2>3, <2>4, <2>8 DEF Flight, Fresh
  <2>10. ASSUME NEW d \in Call, calls'[d].pc = "granted" PROVE Handed(d)'
    <3>1. Handed(d) /\ calls' = calls
      BY <1>2, <2>10
    <3>2. CASE calls[d].op = "logout"
      BY <3>1, <3>2 DEF Handed
    <3>3. CASE calls[d].op # "logout"
      <4>1. /\ calls[d].pair \in Pair \ (presented \cup ended \cup {held, p})
            /\ calls[d].pair # n
        BY <2>3, <3>1, <3>3 DEF Handed
      <4> QED BY <2>3, <2>4, <3>1, <3>3, <4>1 DEF Handed
    <3> QED BY <3>2, <3>3
  <2> QED BY <1>2, <2>6, <2>7, <2>9, <2>10 DEF ClientInv, TypeInv, Forms
<1>4. CASE ~RefreshOk(p)
  <2>1. /\ refresh' = [pc |-> "refused", pair |-> p] /\ Pair' = Pair
        /\ generation' \in {generation, generation + 1}
    BY <1>4 DEF Pair
  <2>2. PairsOK'
    <3>1. \A q \in Pair : pairs[q] \in Nat /\ pairs[q] <= generation
      BY PairFacts DEF ClientInv, TypeInv, PairsOK
    <3>2. \A q \in Pair' : pairs'[q] <= generation'
      BY <1>1, <1>4, <2>1, <3>1
    <3> QED BY <1>1, <1>4, <2>1, <3>2 DEF ClientInv, TypeInv, PairsOK
  <2>3. CallsOK' /\ ClientOK'
    BY <1>1, <2>1 DEF ClientInv, TypeInv, CallsOK, ClientOK, RefreshRow
  <2>4. Flight' /\ Fresh'
    BY <1>1, <2>1 DEF Flight, Fresh
  <2>5. Forms'
    BY <1>1, <1>2, <1>4, <2>1 DEF Forms, Handed
  <2> QED BY <2>2, <2>3, <2>4, <2>5 DEF ClientInv, TypeInv
<1> QED BY <1>3, <1>4

\* The pair the promise settles with, if any, has not been presented.
LEMMA ResumeStep ==
  ASSUME ClientInv, Steady, NEW ok \in BOOLEAN, NEW p, Resume(ok, p),
         p = 0 \/ (refresh.pc = "granted" /\ p = refresh.pair),
         UNCHANGED made, faults' \in 0..MaxFaults
  PROVE  ClientInv'
<1> USE DEF Resume
<1>1. PairsOK' /\ Pair' = Pair
  BY SteadyPairs DEF ClientInv, TypeInv
<1>2. p \in (Pair \cup {0}) \ presented /\ p \in Nat
  BY PairFacts DEF ClientInv, TypeInv, PairsOK, Flight, Fresh
<1>3. ASSUME NEW c \in Call
      PROVE  /\ calls'[c] \in CallRow /\ calls'[c].pair \in Pair' \cup {0}
             /\ calls'[c].op \in {"get", calls[c].op}
             /\ calls'[c].pc = "granted" => calls'[c] = calls[c]
  <2>1. calls[c] \in CallRow /\ calls[c].pair \in Pair \cup {0}
    BY DEF ClientInv, TypeInv, CallsOK
  <2>2. calls'[c] \in {calls[c], Request("sent", calls[c].op, p, TRUE), Idle}
    OBVIOUS
  <2>3. CASE calls'[c] = calls[c]
    BY <1>1, <2>1, <2>3
  <2>4. CASE calls'[c] = Request("sent", calls[c].op, p, TRUE)
    <3>1. calls[c].op \in Op \cup {"get"}
      BY <2>1 DEF CallRow
    <3>2. /\ Request("sent", calls[c].op, p, TRUE) \in CallRow
          /\ calls'[c].pair = p /\ calls'[c].op = calls[c].op /\ calls'[c].pc = "sent"
      BY <1>2, <2>4, <3>1 DEF Request, CallRow
    <3> QED BY <1>1, <1>2, <2>4, <3>2
  <2>5. CASE calls'[c] = Idle
    BY <2>5, Rows DEF ClientInv
  <2> QED BY <2>2, <2>3, <2>4, <2>5
<1>4. CallsOK'
  BY <1>3 DEF CallsOK
<1>5. NoRefresh \in RefreshRow /\ NoRefresh.pair = 0 /\ NoRefresh.pc = "none"
  BY DEF NoRefresh, RefreshRow
<1>6. ClientOK'
  BY <1>1, <1>2, <1>5 DEF ClientInv, TypeInv, ClientOK
<1>7. Flight' /\ Fresh'
  BY <1>1, <1>2, <1>5 DEF Flight, Fresh, Steady
<1>8. ASSUME NEW d \in Call, calls'[d].pc = "granted" PROVE Handed(d)'
  <2>1. Handed(d) /\ calls'[d] = calls[d]
    BY <1>3, <1>8 DEF ClientInv, Forms
  <2>2. 0 \notin Pair
    BY PairFacts DEF ClientInv, TypeInv
  <2> QED BY <1>1, <1>5, <2>1, <2>2 DEF Handed, Steady
<1>9. Forms'
  BY <1>3, <1>8 DEF ClientInv, Forms
<1> QED BY <1>1, <1>4, <1>6, <1>7, <1>9 DEF ClientInv, TypeInv

LEMMA RefreshStep ==
  ASSUME ClientInv, RefreshProceeds
  PROVE  ClientInv'
<1>1. CASE ServeRefresh
  BY <1>1, ServeStep
<1>2. CASE RefreshGranted
  BY <1>2, ResumeStep DEF RefreshGranted, Steady, server, ClientInv, TypeInv, ClientOK
<1>3. CASE RefreshRefused
  BY <1>3, ResumeStep DEF RefreshRefused, Steady, server, ClientInv, TypeInv, ClientOK
<1>4. CASE RefreshTimesOut
  <2>1. faults' \in 0..MaxFaults
    BY <1>4, Numbers DEF RefreshTimesOut, Fault, ClientInv, TypeInv, ClientOK
  <2> QED BY <1>4, <2>1, ResumeStep DEF RefreshTimesOut, Steady, server
<1> QED BY <1>1, <1>2, <1>3, <1>4 DEF RefreshProceeds

LEMMA ElsewhereStep ==
  ASSUME ClientInv, (\E p \in Pair : Lapse(p)) \/ SessionsEnd
  PROVE  ClientInv'
<1>1. /\ UNCHANGED <<held, calls, refresh, pairs, ended, presented, spent, made>>
      /\ generation' \in {generation, generation + 1} /\ lapsed' \subseteq Pair
      /\ faults' \in 0..MaxFaults
  BY Numbers DEF Lapse, SessionsEnd, Fault, ClientInv, TypeInv, ClientOK, PairsOK
<1>2. Pair' = Pair /\ \A p \in Pair : pairs[p] \in Nat
  BY <1>1, PairFacts DEF ClientInv, TypeInv, Pair
<1>3. generation \in Nat /\ \A p \in Pair : pairs[p] <= generation
  BY DEF ClientInv, TypeInv, PairsOK
<1>4. \A p \in Pair' : pairs'[p] <= generation'
  BY <1>1, <1>2, <1>3
<1>5. PairsOK'
  BY <1>1, <1>2, <1>3, <1>4 DEF ClientInv, TypeInv, PairsOK
<1>6. CallsOK' /\ ClientOK'
  BY <1>1, <1>2 DEF ClientInv, TypeInv, CallsOK, ClientOK
<1>7. Flight' /\ Fresh'
  BY <1>1, <1>2 DEF ClientInv, TypeInv, Flight, Fresh
<1>8. Forms'
  BY <1>1, <1>2 DEF ClientInv, Forms, Handed
<1> QED BY <1>5, <1>6, <1>7, <1>8 DEF ClientInv, TypeInv

LEMMA ClientStep == ClientInv /\ [Next]_vars => ClientInv'
<1> SUFFICES ASSUME ClientInv, [Next]_vars PROVE ClientInv'
  OBVIOUS
<1>1. ASSUME NEW c \in Call, Proceeds(c) PROVE ClientInv'
  BY <1>1, SettledStep, LogInStep, LogOutStep, ClearStep, RefuseStep DEF Proceeds
<1>2. CASE UNCHANGED vars
  <2>1. Steady /\ UNCHANGED <<held, refresh, calls, made, faults>>
    BY <1>2 DEF vars, server, Steady
  <2>2. PairsOK' /\ Pair' = Pair /\ Flight' /\ Fresh'
    BY <2>1, SteadyPairs, Undisturbed DEF ClientInv, TypeInv
  <2> QED BY <2>1, <2>2 DEF ClientInv, TypeInv, CallsOK, ClientOK, Forms, Handed, Steady
<1> QED BY <1>1, <1>2, SendStep, RefreshStep, ElsewhereStep DEF Next

-----------------------------------------------------------------------------
(* Theorems *)

LEMMA ClientInvariance == Spec => []ClientInv
  BY ClientStarts, ClientStep, PTL DEF Spec

\* The client's variables have their types: it holds and sends pairs that exist, and no pair
\* is newer than the account's generation of tokens (client.ts, routes/auth.py).
THEOREM ClientTypeCorrect == Spec => []TypeOK
<1>1. ClientInv => TypeOK
  <2> SUFFICES ASSUME ClientInv PROVE TypeOK
    OBVIOUS
  <2>1. pairs \in Seq(0..generation)
    BY PairFacts DEF ClientInv, TypeInv, PairsOK
  <2>2. ASSUME NEW c \in Call
        PROVE  calls[c] \in [pc : {"idle", "sent", "waits", "granted"}, op : Op \cup {"get"},
                             pair : Pair \cup {0}, again : BOOLEAN]
    BY DEF ClientInv, TypeInv, CallsOK, CallRow
  <2>3. calls \in [Call -> [pc : {"idle", "sent", "waits", "granted"}, op : Op \cup {"get"},
                            pair : Pair \cup {0}, again : BOOLEAN]]
    BY <2>2 DEF ClientInv, TypeInv, CallsOK
  <2>4. refresh \in [pc : {"none", "sent", "granted", "refused"}, pair : Pair \cup {0}]
    BY DEF ClientInv, TypeInv, ClientOK, RefreshRow
  <2> QED BY <2>1, <2>3, <2>4 DEF ClientInv, TypeInv, PairsOK, ClientOK, TypeOK
<1> QED BY <1>1, ClientInvariance, PTL

\* However many requests meet a 401 at a time, the client presents a refresh token once
\* (client.ts:102).
THEOREM RefreshedOnce == Spec => []UsedOnce
<1>1. ClientInv => UsedOnce
  BY DEF ClientInv, Fresh, UsedOnce
<1> QED BY <1>1, ClientInvariance, PTL

-----------------------------------------------------------------------------
(* How requests move on *)

\* Who waits was sent once only, and waits for a refresh that is in flight.
Waiting == \A c \in Call : calls[c].pc = "waits" => ~calls[c].again /\ refresh.pc # "none"

\* A request that goes on alone has less left than before.
Moved(c) == \A d \in Call :
  /\ d # c => calls'[d] = calls[d]
  /\ d = c => Left(calls'[d]) < Left(calls[d])

\* The rank of each stage of a request.
LEMMA Ranks ==
  ASSUME NEW r
  PROVE  /\ r.pc = "sent" => Left(r) = IF r.again THEN 2 ELSE 4
         /\ r.pc = "waits" => Left(r) = 3
         /\ r.pc = "granted" => Left(r) = 1
         /\ r.pc = "idle" => Left(r) = 0
  BY DEF Left

\* A step of one request moves that request on.
LEMMA CallMoves ==
  ASSUME ClientInv, Waiting, NEW c \in Call, Proceeds(c)
  PROVE  Waiting' /\ Moved(c)
<1>1. calls[c] \in CallRow /\ Idle.pc = "idle"
  BY Rows DEF ClientInv
<1>2. CASE /\ Settle(c) /\ calls[c].pc \in {"sent", "granted"} /\ refresh' = refresh
  <2>1. calls'[c] = Idle /\ \A d \in Call \ {c} : calls'[d] = calls[d]
    BY <1>2 DEF Settle, ClientInv, TypeInv, CallsOK
  <2>2. Left(Idle) = 0 /\ Left(calls[c]) \in {1, 2, 4}
    BY <1>1, <1>2, Ranks
  <2>3. Left(calls'[c]) < Left(calls[c])
    BY <2>1, <2>2
  <2> QED BY <1>1, <1>2, <2>1, <2>3 DEF Waiting, Moved
<1>3. ASSUME NEW p, Becomes(c, "granted", p), calls[c].pc = "sent", refresh' = refresh
      PROVE  Waiting' /\ Moved(c)
  <2>1. calls'[c].pc = "granted" /\ \A d \in Call \ {c} : calls'[d] = calls[d]
    BY <1>3 DEF Becomes, Request, ClientInv, TypeInv, CallsOK
  <2>2. Left(calls'[c]) = 1 /\ Left(calls[c]) \in {2, 4}
    BY <1>3, <2>1, Ranks
  <2>3. Left(calls'[c]) < Left(calls[c])
    BY <2>2
  <2> QED BY <1>3, <2>1, <2>3 DEF Waiting, Moved
<1>4. CASE Refuse(c) /\ MayWait(c)
  <2>1. calls[c].pc = "sent" /\ ~calls[c].again
    BY <1>4 DEF Refuse, Refused, At, MayWait
  <2>2. /\ calls'[c].pc = "waits" /\ calls'[c].again = calls[c].again
        /\ \A d \in Call \ {c} : calls'[d] = calls[d]
    BY <1>4 DEF Refuse, Becomes, Request, ClientInv, TypeInv, CallsOK
  <2>3. refresh'.pc # "none"
    <3>1. refresh # NoRefresh => refresh.pc # "none"
      BY DEF ClientInv, Flight
    <3> QED BY <1>4, <3>1 DEF Refuse, SharedRefresh
  <2>4. Left(calls'[c]) = 3 /\ Left(calls[c]) = 4
    BY <2>1, <2>2, Ranks
  <2>5. Left(calls'[c]) < Left(calls[c])
    BY <2>4
  <2> QED BY <2>1, <2>2, <2>3, <2>5 DEF Waiting, Moved
<1>5. CASE Refuse(c) /\ ~MayWait(c)
  BY <1>2, <1>5 DEF Refuse, Refused, At
<1>6. CASE Settled(c) \/ Store(c) \/ TimesOut(c)
  BY <1>2, <1>6 DEF Settled, Store, TimesOut, At
<1>7. CASE LogIn(c) \/ ChangePassword(c) \/ LogOut(c)
  BY <1>3, <1>7 DEF LogIn, ChangePassword, LogOut, At
<1> QED BY <1>4, <1>5, <1>6, <1>7 DEF Proceeds

\* The refresh moves on everybody who waits for it, and nobody else.
LEMMA WaitersMove ==
  ASSUME ClientInv, Waiting, RefreshProceeds
  PROVE  Waiting' /\ \A c \in Call : calls'[c] # calls[c] => Left(calls'[c]) < Left(calls[c])
<1>1. CASE ServeRefresh
  BY <1>1 DEF ServeRefresh, Waiting
<1>2. ASSUME NEW ok, NEW p, Resume(ok, p)
      PROVE  Waiting' /\ \A c \in Call : calls'[c] # calls[c] => Left(calls'[c]) < Left(calls[c])
  <2>1. ASSUME NEW c \in Call
        PROVE  /\ calls[c].pc # "waits" => calls'[c] = calls[c]
               /\ calls[c].pc = "waits" =>
                    calls'[c] \in {Request("sent", calls[c].op, p, TRUE), Idle}
    BY <1>2 DEF Resume
  <2>2. ASSUME NEW c \in Call, calls[c].pc = "waits"
        PROVE  calls'[c].pc # "waits" /\ Left(calls'[c]) < Left(calls[c])
    <3> DEFINE r == Request("sent", calls[c].op, p, TRUE)
    <3>1. r.pc = "sent" /\ r.again = TRUE /\ Idle.pc = "idle"
      BY DEF Request, Idle
    <3>2. calls'[c] = r \/ calls'[c] = Idle
      BY <2>1, <2>2
    <3> HIDE DEF r
    <3>3. Left(r) = 2 /\ Left(Idle) = 0 /\ Left(calls[c]) = 3
      BY <2>2, <3>1, Ranks
    <3> QED BY <3>1, <3>2, <3>3
  <2> QED BY <2>1, <2>2 DEF Waiting
<1>3. CASE RefreshGranted \/ RefreshRefused \/ RefreshTimesOut
  BY <1>2, <1>3 DEF RefreshGranted, RefreshRefused, RefreshTimesOut
<1> QED BY <1>1, <1>3 DEF RefreshProceeds

LEMMA StepMoves ==
  ASSUME ClientInv, Waiting, Next
  PROVE  /\ Waiting'
         /\ \A c \in Call : calls[c] # Idle /\ calls'[c] # calls[c] => Left(calls'[c]) < Left(calls[c])
<1>1. ASSUME NEW c \in Call, NEW op, Send(c, op)
      PROVE  /\ Waiting'
             /\ \A d \in Call : calls[d] # Idle => calls'[d] = calls[d]
  <2>1. /\ calls[c] = Idle /\ calls'[c].pc = "sent" /\ refresh' = refresh
        /\ \A d \in Call \ {c} : calls'[d] = calls[d]
    BY <1>1 DEF Send, Request, ClientInv, TypeInv, CallsOK
  <2> QED BY <2>1 DEF Waiting
<1>2. ASSUME NEW c \in Call, Proceeds(c)
      PROVE  /\ Waiting'
             /\ \A d \in Call : calls'[d] # calls[d] => Left(calls'[d]) < Left(calls[d])
  BY <1>2, CallMoves DEF Moved
<1>3. CASE (\E p \in Pair : Lapse(p)) \/ SessionsEnd
  BY <1>3 DEF Lapse, SessionsEnd, Waiting
<1> QED BY <1>1, <1>2, <1>3, WaitersMove DEF Next

LEMMA WaitingInvariant == Spec => [](ClientInv /\ Waiting)
<1>1. Init => Waiting
  BY DEF Init, Waiting, Idle, Request
<1>2. ClientInv /\ Waiting /\ [Next]_vars => Waiting'
  <2>1. Waiting /\ UNCHANGED vars => Waiting'
    BY DEF vars, Waiting
  <2> QED BY <2>1, StepMoves
<1> QED BY <1>1, <1>2, ClientInvariance, PTL DEF Spec

\* Nobody waits for a refresh that is over (client.ts:108).
THEOREM NobodyWaitsForNothing == Spec => []WaitsForRefresh
<1>1. Waiting => WaitsForRefresh
  BY DEF Waiting, WaitsForRefresh
<1> QED BY <1>1, WaitingInvariant, PTL

\* A request waits for a refresh once at most and is sent twice at most (client.ts:39).
THEOREM RequestsMoveOn == Spec => MovesOn
<1>1. ClientInv /\ Waiting /\ [Next]_vars =>
        [\A c \in Call : calls[c] # Idle /\ calls'[c] # calls[c] => Left(calls'[c]) < Left(calls[c])]_vars
  BY StepMoves
<1> QED BY <1>1, WaitingInvariant, PTL DEF Spec, MovesOn
=============================================================================
