------------------------ MODULE LeaderElectionProofs -----------------------
(***************************************************************************)
(* Theorems about LeaderElection, for every set of nodes and any number of *)
(* faults.                                                                 *)
(***************************************************************************)
EXTENDS LeaderElection, TLAPS

USE DEF Durable, Service, Owner, Idle

(* How far a node's start and stop have come tells what it may hold: tasks  *)
(* only between StartTasks and StopTasks, subscriptions only between       *)
(* StartTasks and CloseNats, the connection between StartNats and          *)
(* CloseNats.  The last two parts of the type invariant follow from it.    *)
Stages ==
  \A n \in Node :
    /\ nats[n] => pc[n] \in {"stream", "lead", "stop", "close"}
    /\ pc[n] \in {"stream", "lead"} \/ task[n] # Idle => nats[n]
    /\ pc[n] \notin {"lead", "stop"} => task[n] = Idle
    /\ \A s \in Durable : bind[s] = n => pc[n] \in {"lead", "stop", "close"}

IInv == TypeOK /\ Stages

(* Every step preserves the stages and the types together: a subscription   *)
(* is made only by a task, and a task exists only over an open connection. *)
LEMMA StagesInvariant == Spec => []IInv
<1>1. Init => IInv
  BY NodeAssumption, FaultAssumption DEF Init, IInv, TypeOK, Stages
<1>2. IInv /\ [Next]_vars => IInv'
  <2> SUFFICES ASSUME IInv, [Next]_vars PROVE IInv'
    OBVIOUS
  <2> USE NodeAssumption, FaultAssumption DEF IInv, TypeOK, Stages, Goto, Fault
  <2>1. ASSUME NEW n \in Node, Connect(n) PROVE IInv'
    BY <2>1 DEF Connect
  <2>2. ASSUME NEW n \in Node, TryLock(n) PROVE IInv'
    BY <2>2 DEF TryLock
  <2>3. ASSUME NEW n \in Node, StartNats(n) PROVE IInv'
    BY <2>3 DEF StartNats
  <2>4. ASSUME NEW n \in Node, StartTasks(n) PROVE IInv'
    BY <2>4 DEF StartTasks
  <2>5. ASSUME NEW n \in Node, Watch(n) PROVE IInv'
    BY <2>5 DEF Watch
  <2>6. ASSUME NEW n \in Node, Interrupted(n) PROVE IInv'
    BY <2>6 DEF Interrupted, Finally
  <2>7. ASSUME NEW n \in Node, StopTasks(n) PROVE IInv'
    <3>1. /\ task' \in [Node -> [Service -> {"off", "subscribing", "running", "ended"}]]
          /\ task'[n] = Idle /\ \A m \in Node \ {n} : task'[m] = task[m]
      BY <2>7 DEF StopTasks
    <3>2. /\ bind' \in [Durable -> Owner]
          /\ \A d \in Durable : bind'[d] = bind[d] \/ bind'[d] \notin Node
      BY <2>7 DEF StopTasks
    <3> QED
      <4> HIDE DEF Idle
      <4> QED BY <2>7, <3>1, <3>2 DEF StopTasks
  <2>8. ASSUME NEW n \in Node, CloseNats(n) PROVE IInv'
    BY <2>8 DEF CloseNats, BindWithout
  <2>9. ASSUME NEW n \in Node, Release(n) PROVE IInv'
    BY <2>9 DEF Release, Terminated, LockWithout
  <2>10. ASSUME NEW n \in Node, NEW s \in Durable, Subscribe(n, s) PROVE IInv'
    <3>1. task[n] # Idle
      BY <2>10 DEF Subscribe
    <3>2. pc[n] \in {"lead", "stop"} /\ nats[n]
      BY <3>1
    <3>3. /\ task' \in [Node -> [Service -> {"off", "subscribing", "running", "ended"}]]
          /\ \A m \in Node \ {n} : task'[m] = task[m]
      BY <2>10, SMTT(30) DEF Subscribe
    <3>4. /\ bind' \in [Durable -> Owner]
          /\ \A d \in Durable : bind'[d] = bind[d] \/ bind'[d] = n
      BY <2>10 DEF Subscribe
    <3> QED
      <4> HIDE DEF Idle
      <4> QED BY <2>10, <3>2, <3>3, <3>4 DEF Subscribe
  <2>11. ASSUME NEW n \in Node, OddAnswer(n) PROVE IInv'
    <3>1. task[n] # Idle
      BY <2>11 DEF OddAnswer
    <3>2. pc[n] \in {"lead", "stop"} /\ nats[n]
      BY <3>1
    <3>3. /\ task' \in [Node -> [Service -> {"off", "subscribing", "running", "ended"}]]
          /\ \A m \in Node \ {n} : task'[m] = task[m]
      BY <2>11 DEF OddAnswer
    <3>4. /\ bind' \in [Durable -> Owner]
          /\ \A d \in Durable : bind'[d] = bind[d] \/ bind'[d] \notin Node
      BY <2>11 DEF OddAnswer
    <3> QED
      <4> HIDE DEF Idle
      <4> QED BY <2>11, <3>2, <3>3, <3>4 DEF OddAnswer
  <2>12. ASSUME NEW n \in Node, DatabaseLost(n) PROVE IInv'
    BY <2>12 DEF DatabaseLost, LockWithout
  <2>13. ASSUME NEW n \in Node, Crash(n) PROVE IInv'
    BY <2>13 DEF Crash, LockWithout, BindWithout
  <2>14. ASSUME NEW s \in Durable, GhostBindingEnds(s) PROVE IInv'
    BY <2>14 DEF GhostBindingEnds
  <2>15. CASE GhostSessionEnds \/ UNCHANGED vars
    BY <2>15 DEF GhostSessionEnds, vars
  <2> QED
    BY <2>1, <2>2, <2>3, <2>4, <2>5, <2>6, <2>7, <2>8, <2>9, <2>10, <2>11, <2>12,
       <2>13, <2>14, <2>15 DEF Next, Elector
<1> QED
  BY <1>1, <1>2, PTL DEF Spec

(* Every variable keeps its type, and a durable consumer is bound only to   *)
(* an open connection (leader.py, background.py).                          *)
THEOREM ElectionTypeCorrect == Spec => []TypeOK
<1>1. IInv => TypeOK
  BY DEF IInv
<1> QED
  BY <1>1, StagesInvariant, PTL

(* A node that does not lead is off the bus, without a NATS connection, a   *)
(* subscription or a consuming task, wherever its start, its lead or its   *)
(* session broke off and whatever the satellites answered (leader.py       *)
(* 46-71, background.py 37-71).                                            *)
THEOREM FollowersStayOffBus == Spec => []FollowersOffBus
<1>1. IInv => FollowersOffBus
  BY DEF IInv, TypeOK, Stages, FollowersOffBus, Acting, OnBus
<1> QED
  BY <1>1, StagesInvariant, PTL

(* A session is open exactly while a node tries or leads, and it is the     *)
(* session that holds the lock.                                            *)
Sessions ==
  /\ LossIsNoticed
  /\ \A n \in Node : lock = n => conn[n] = "open"
  /\ \A n \in Node : pc[n] = "connect" <=> conn[n] = "none"

LEMMA SessionsStep ==
  ASSUME IInv, Sessions, [Next]_vars
  PROVE  Sessions'
<1> USE NodeAssumption
    DEF IInv, TypeOK, Sessions, LossIsNoticed, Acting, Goto, Fault, LockWithout
<1>1. ASSUME NEW n \in Node,
             Connect(n) \/ StartNats(n) \/ StartTasks(n) \/ Watch(n) \/ StopTasks(n)
      PROVE  Sessions'
  BY <1>1 DEF Connect, StartNats, StartTasks, Watch, StopTasks
<1>2. ASSUME NEW n \in Node, TryLock(n) PROVE Sessions'
  BY <1>2 DEF TryLock
<1>3. ASSUME NEW n \in Node, CloseNats(n) \/ Interrupted(n) PROVE Sessions'
  BY <1>3 DEF CloseNats, Interrupted, Finally
<1>4. ASSUME NEW n \in Node, Release(n) PROVE Sessions'
  BY <1>4 DEF Release, Terminated
<1>5. ASSUME NEW n \in Node, DatabaseLost(n) \/ Crash(n) PROVE Sessions'
  BY <1>5 DEF DatabaseLost, Crash
<1>6. ASSUME NEW n \in Node, OddAnswer(n) \/ \E s \in Durable : Subscribe(n, s)
      PROVE  Sessions'
  BY <1>6 DEF OddAnswer, Subscribe
<1>7. CASE GhostSessionEnds \/ UNCHANGED vars \/ \E s \in Durable : GhostBindingEnds(s)
  BY <1>7 DEF GhostSessionEnds, GhostBindingEnds, vars
<1> QED
  BY <1>1, <1>2, <1>3, <1>4, <1>5, <1>6, <1>7 DEF Next, Elector

(* The safety half of ExLeaderLeavesBus: whoever acts as leader without the *)
(* lock has a broken session, which its next query finds (leader.py 55-71).*)
THEOREM LossesAreNoticed == Spec => []LossIsNoticed
<1>1. Init => Sessions
  BY NodeAssumption DEF Init, Sessions, LossIsNoticed, Acting
<1>2. IInv /\ Sessions /\ [Next]_vars => Sessions'
  BY SessionsStep
<1>3. Sessions => LossIsNoticed
  BY DEF Sessions
<1> QED
  BY <1>1, <1>2, <1>3, StagesInvariant, PTL DEF Spec

(* Every step of the electors is a step of the contract, or none.           *)
LEMMA LeadershipStep ==
  ASSUME IInv, IInv', [Next]_vars
  PROVE  [Abstract!Next]_(Abstract!vars)
<1> DEFINE Same(n) == \A m \in Node \ {n} :
                        (Acting(m)' <=> Acting(m)) /\ (OnBus(m)' <=> OnBus(m))
<1>a. ASSUME NEW n \in Node, Same(n), n \in Leaders, Leaders' = Leaders, Office' = Office
      PROVE  [Abstract!Next]_(Abstract!vars)
  <2>1. Connected' = Connected \cup {n} \/ Connected' = Connected \ {n}
    BY <1>a DEF Connected
  <2> QED
    BY <1>a, <2>1 DEF Abstract!Next, Abstract!Attach, Abstract!Detach, Abstract!vars
<1>b. ASSUME NEW n \in Node, Same(n), Acting(n)' <=> Acting(n), OnBus(n)' <=> OnBus(n),
             Office' \in {Office, Nobody}
      PROVE  [Abstract!Next]_(Abstract!vars)
  <2>1. Connected' = Connected /\ Leaders' = Leaders
    BY <1>b DEF Connected, Leaders
  <2> QED
    BY <1>b, <2>1 DEF Abstract!Next, Abstract!Vacate, Abstract!vars
<1>c. ASSUME NEW n \in Node, Same(n), ~Acting(n)', ~OnBus(n)', Office' \in {Office, Nobody}
      PROVE  [Abstract!Next]_(Abstract!vars)
  <2>1. Connected' = Connected \ {n} /\ Leaders' = Leaders \ {n}
    BY <1>c DEF Connected, Leaders
  <2> QED
    BY <1>c, <2>1 DEF Abstract!Next, Abstract!Leave
<1> USE NodeAssumption DEF IInv, TypeOK, Stages, Acting, OnBus, Goto
<1>1. ASSUME NEW n \in Node, TryLock(n) PROVE [Abstract!Next]_(Abstract!vars)
  <2>1. Same(n)
    BY <1>1 DEF TryLock
  <2>2. ~OnBus(n) /\ ~OnBus(n)' /\ ~Acting(n)
    BY <1>1 DEF TryLock
  <2>3. CASE lock = Nobody /\ lock' = n /\ Acting(n)'
    <3>1. Connected' = Connected /\ Leaders' = Leaders \cup {n} /\ n \notin Leaders
      BY <2>1, <2>2, <2>3 DEF Connected, Leaders
    <3>2. Office = Nobody /\ Office' = n
      BY <2>3 DEF Office
    <3> QED
      BY <3>1, <3>2 DEF Abstract!Next, Abstract!Elect
  <2>4. CASE lock' = lock /\ ~Acting(n)'
    BY <1>b, <2>1, <2>2, <2>4 DEF Office
  <2> QED
    BY <1>1, <2>3, <2>4 DEF TryLock
<1>2. ASSUME NEW n \in Node,
             Connect(n) \/ Watch(n) \/ Interrupted(n) \/ Release(n) \/ DatabaseLost(n)
      PROVE  [Abstract!Next]_(Abstract!vars)
  <2>1. Same(n) /\ (OnBus(n)' <=> OnBus(n))
    BY <1>2 DEF Connect, Watch, Interrupted, Release, DatabaseLost
  <2>2. Acting(n)' <=> Acting(n)
    BY <1>2 DEF Connect, Watch, Interrupted, Finally, Release, DatabaseLost
  <2>3. Office' \in {Office, Nobody}
    BY <1>2 DEF Connect, Watch, Interrupted, Release, Terminated, DatabaseLost,
       LockWithout, Office
  <2> QED
    BY <1>b, <2>1, <2>2, <2>3
<1>3. ASSUME NEW n \in Node, StartNats(n) \/ StartTasks(n) \/ StopTasks(n)
      PROVE  [Abstract!Next]_(Abstract!vars)
  <2>1. Same(n)
    BY <1>3 DEF StartNats, StartTasks, StopTasks
  <2>2. n \in Leaders /\ Leaders' = Leaders /\ Office' = Office
    BY <1>3 DEF StartNats, StartTasks, StopTasks, Leaders, Office
  <2> QED
    BY <1>a, <2>1, <2>2
<1>4. ASSUME NEW n \in Node, NEW s \in Durable, Subscribe(n, s)
      PROVE  [Abstract!Next]_(Abstract!vars)
  <2>1. Same(n)
    BY <1>4 DEF Subscribe
  <2>2. task[n] # Idle
    BY <1>4 DEF Subscribe
  <2>3. n \in Leaders /\ Leaders' = Leaders /\ Office' = Office
    BY <1>4, <2>2 DEF Subscribe, Leaders, Office
  <2> QED
    BY <1>a, <2>1, <2>3
<1>5. ASSUME NEW n \in Node, OddAnswer(n) PROVE [Abstract!Next]_(Abstract!vars)
  <2>1. Same(n)
    BY <1>5 DEF OddAnswer
  <2>2. task[n] # Idle
    BY <1>5 DEF OddAnswer
  <2>3. n \in Leaders /\ Leaders' = Leaders /\ Office' = Office
    BY <1>5, <2>2 DEF OddAnswer, Leaders, Office
  <2> QED
    BY <1>a, <2>1, <2>3
<1>6. ASSUME NEW n \in Node, CloseNats(n) \/ Crash(n) PROVE [Abstract!Next]_(Abstract!vars)
  <2>1. Same(n)
    BY <1>6 DEF CloseNats, Crash, BindWithout
  <2>2. ~Acting(n)' /\ ~OnBus(n)'
    BY <1>6 DEF CloseNats, Crash, BindWithout
  <2>3. Office' \in {Office, Nobody}
    BY <1>6 DEF CloseNats, Crash, LockWithout, Office
  <2> QED
    BY <1>c, <2>1, <2>2, <2>3
<1>7. ASSUME GhostSessionEnds \/ UNCHANGED vars \/ \E s \in Durable : GhostBindingEnds(s)
      PROVE  [Abstract!Next]_(Abstract!vars)
  <2>1. \A m \in Node : (Acting(m)' <=> Acting(m)) /\ (OnBus(m)' <=> OnBus(m))
    BY <1>7 DEF GhostSessionEnds, GhostBindingEnds, vars
  <2>2. Connected' = Connected /\ Leaders' = Leaders
    BY <2>1 DEF Connected, Leaders
  <2>3. Office' = Office
    BY <1>7 DEF GhostSessionEnds, GhostBindingEnds, vars, Office
  <2> QED
    BY <2>2, <2>3 DEF Abstract!vars
<1> QED
  <2> HIDE DEF IInv, TypeOK, Stages, Acting, OnBus, Goto, Durable
  <2>1. ASSUME NEW n \in Node, Elector(n) PROVE [Abstract!Next]_(Abstract!vars)
    BY <1>1, <1>2, <1>3, <1>6, <2>1 DEF Elector
  <2> QED
    BY <2>1, <1>2, <1>4, <1>6, <1>7, <1>5 DEF Next

(* The electors, sessions and subscriptions implement the contract of       *)
(* leadership: nobody is elected while another node is in office, only     *)
(* elected nodes have services on the bus, and a node gives its role up    *)
(* only when they have left it.                                            *)
THEOREM LeadershipImplemented == Spec => ImplementsLeadership
<1>1. Init => Abstract!Init
  BY NodeAssumption DEF Init, Abstract!Init, Office, Leaders, Connected, Acting, OnBus
<1>2. IInv /\ IInv' /\ [Next]_vars => [Abstract!Next]_(Abstract!vars)
  BY LeadershipStep
<1> QED
  BY <1>1, <1>2, StagesInvariant, PTL DEF Spec, ImplementsLeadership, Abstract!Spec

============================================================================
