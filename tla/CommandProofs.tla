---------------------------- MODULE CommandProofs ---------------------------
(***************************************************************************)
(* Theorems about CommandScheduler, for every set of commands, nodes,      *)
(* requests and PATCH sessions, and for every retry bound; and, in the     *)
(* last part, about CommandDelivery, for every set of intents, every       *)
(* choice of keys and every number of calls, messages and commands.        *)
(***************************************************************************)
EXTENDS CommandScheduler, CommandDelivery, SequenceTheorems, FiniteSetTheorems,
        TLAPS

USE DEF Status, CommandStatus

(* No step of a handler or a coroutine breaks the types.                   *)
LEMMA TypeStep == ASSUME TypeOK, [Next]_vars PROVE TypeOK'
<1> USE DEF TypeOK, row, env, executor
<1>1. ASSUME NEW c \in Command, NEW r \in Request, Create(c, r) PROVE TypeOK'
  BY <1>1 DEF Create, PlannedAt
<1>2. ASSUME NEW c \in Command, NEW u \in User, Approve(c, u) PROVE TypeOK'
  BY <1>2 DEF Approve
<1>3. ASSUME NEW c \in Command, Cancel(c) PROVE TypeOK'
  BY <1>3 DEF Cancel
<1>4. ASSUME NEW s \in Session, NEW c \in Command, NEW to \in PatchTargets,
             PatchRead(s, c, to)
      PROVE TypeOK'
  BY <1>4 DEF PatchRead, PatchTargets, Patch
<1>5. ASSUME NEW s \in Session, PatchApplied(s) PROVE TypeOK'
  BY <1>5 DEF PatchApplied, Patch, SentAt
<1>6. ASSUME NEW s \in Session, PatchConflict(s) PROVE TypeOK'
  BY <1>6 DEF PatchConflict
<1>7. ASSUME NEW c \in Command, Schedule(c) PROVE TypeOK'
  BY <1>7 DEF Schedule, PlannedAt
<1>8. ASSUME NEW n \in Node, Executor(n) PROVE TypeOK'
  <2>1. CASE ExecSelect(n)
    BY <2>1 DEF ExecSelect, ExecutorStep
  <2>2. ASSUME NEW c \in Command, ExecNext(n, c) PROVE TypeOK'
    BY <2>2, NullAssumption DEF ExecNext, ExecutorStep
  <2>3. CASE ExecDone(n)
    BY <2>3 DEF ExecDone, ExecutorStep
  <2>4. CASE WindowOpen(n)
    BY <2>4 DEF WindowOpen, Goto, ExecutorStep
  <2>5. CASE WindowMissed(n)
    BY <2>5 DEF WindowMissed, Goto, Update, ExecutorStep, PlannedAt
  <2>6. CASE PolicyAllows(n)
    BY <2>6 DEF PolicyAllows, Goto, ExecutorStep
  <2>7. CASE PolicyDenies(n)
    BY <2>7 DEF PolicyDenies, Goto, Update, ExecutorStep
  <2>8. CASE Claim(n)
    BY <2>8 DEF Claim, Goto, Update, ExecutorStep
  <2>9. CASE Publish(n)
    BY <2>9 DEF Publish, Goto, OneMoreFlight, ExecutorStep
  <2>10. CASE PublishFails(n)
    BY <2>10 DEF PublishFails, Goto, OneMoreFlight, ExecutorStep
  <2>11. CASE Record(n)
    BY <2>11 DEF Record, Goto, Update, ExecutorStep, SentAt
  <2>12. CASE Bounce(n)
    BY <2>12 DEF Bounce, Goto, Update, ExecutorStep
  <2>13. CASE ExecAborts(n)
    BY <2>13 DEF ExecAborts, ExecutorStep
  <2> QED
    BY <1>8, <2>1, <2>2, <2>3, <2>4, <2>5, <2>6, <2>7, <2>8, <2>9, <2>10, <2>11,
       <2>12, <2>13 DEF Executor
<1>9. ASSUME NEW n \in Node, Sweep(n) PROVE TypeOK'
  <2>1. CASE SweepSelect(n)
    BY <2>1 DEF SweepSelect
  <2>2. CASE SweepAborts(n)
    BY <2>2 DEF SweepAborts
  <2>3. ASSUME NEW c \in Command, SweepSkips(n, c) PROVE TypeOK'
    BY <2>3 DEF SweepSkips, Swept
  <2>4. ASSUME NEW c \in Command, SweepReplans(n, c) PROVE TypeOK'
    BY <2>4 DEF SweepReplans, Swept, PlannedAt
  <2>5. ASSUME NEW c \in Command, SweepRetries(n, c) PROVE TypeOK'
    BY <2>5 DEF SweepRetries, Swept, PlannedAt, Backoff
  <2>6. ASSUME NEW c \in Command, SweepGivesUp(n, c) PROVE TypeOK'
    BY <2>6 DEF SweepGivesUp, Swept
  <2> QED
    BY <1>9, <2>1, <2>2, <2>3, <2>4, <2>5, <2>6 DEF Sweep
<1>10. ASSUME NEW a \in answers, AnswerApplied(a) PROVE TypeOK'
  BY <1>10 DEF AnswerApplied, Answerable, Answer, SentAt
<1>11. ASSUME NEW a \in Answer, SatelliteAnswers(a) PROVE TypeOK'
  BY <1>11 DEF SatelliteAnswers
<1>12. ASSUME NEW s \in Satellite, WindowMoves(s) PROVE TypeOK'
  BY <1>12 DEF WindowMoves
<1>13. ASSUME NEW s \in Satellite, ModeReported(s) PROVE TypeOK'
  BY <1>13 DEF ModeReported
<1>14. ASSUME NEW c \in Command, PlannedTimeArrives(c) PROVE TypeOK'
  BY <1>14 DEF PlannedTimeArrives, PlannedAt
<1>15. ASSUME NEW c \in Command, AckTimeoutPasses(c) PROVE TypeOK'
  BY <1>15 DEF AckTimeoutPasses, SentAt
<1>16. CASE UNCHANGED vars
  BY <1>16 DEF vars
<1> QED
  BY <1>1, <1>2, <1>3, <1>4, <1>5, <1>6, <1>7, <1>8, <1>9, <1>10, <1>11, <1>12,
     <1>13, <1>14, <1>15, <1>16 DEF Next, Rest, Environment

(* Every column of the table and every local variable of the coroutines     *)
(* keeps its type; in particular an executor past its row query holds a     *)
(* row, and only rows that exist are held (service.py, commands.py).       *)
THEOREM TypeCorrect == Spec => []TypeOK
<1>1. Init => TypeOK
  BY NullAssumption DEF Init, TypeOK, PlannedAt, SentAt, ExecutorStep
<1>2. TypeOK /\ [Next]_vars => TypeOK'
  BY TypeStep
<1> QED
  BY <1>1, <1>2, PTL DEF Spec

----------------------------------------------------------------------------
(* Overrides                                                               *)

(* What the first half of a PATCH has established is still true of the row  *)
(* when its second half runs: the row exists, and 'retry' was only granted *)
(* to a repeatable command.  The row's type never changes.                 *)
PatchSane ==
  \A s \in Session : patch[s] # NoPatch =>
    /\ status[patch[s].cmd] # "none"
    /\ patch[s].to \in PatchTargets \cap Transitions(patch[s].from)
    /\ patch[s].to = "retry" => Repeatable(patch[s].cmd)

(* Rows are never deleted, and the request of a row is written once.       *)
LEMMA RowsPersist ==
  ASSUME TypeOK, [Next]_vars
  PROVE  \A c \in Command : status[c] # "none" => status'[c] # "none" /\ req'[c] = req[c]
<1> SUFFICES ASSUME NEW d \in Command, status[d] # "none"
             PROVE status'[d] # "none" /\ req'[d] = req[d]
  OBVIOUS
<1> USE DEF TypeOK, row, env, executor
<1>1. ASSUME NEW c \in Command, NEW r \in Request, Create(c, r)
      PROVE status'[d] # "none" /\ req'[d] = req[d]
  BY <1>1 DEF Create
<1>2. ASSUME NEW s \in Session, PatchApplied(s)
      PROVE status'[d] # "none" /\ req'[d] = req[d]
  BY <1>2 DEF PatchApplied, Patch
<1>3. ASSUME NEW n \in Node, Executor(n)
      PROVE status'[d] # "none" /\ req'[d] = req[d]
  BY <1>3 DEF Executor, ExecSelect, ExecDone, ExecNext, WindowOpen, WindowMissed,
     PolicyAllows, PolicyDenies, Claim, Publish, PublishFails, Record, Bounce,
     ExecAborts, Update
<1>4. ASSUME NEW n \in Node, Sweep(n)
      PROVE status'[d] # "none" /\ req'[d] = req[d]
  BY <1>4 DEF Sweep, SweepSelect, SweepAborts, SweepSkips, SweepReplans, SweepRetries,
     SweepGivesUp
<1>5. CASE Environment \/ UNCHANGED vars
  BY <1>5 DEF Environment, SatelliteAnswers, WindowMoves, ModeReported,
     PlannedTimeArrives, AckTimeoutPasses, vars
<1>6. ASSUME NEW a \in answers, AnswerApplied(a)
      PROVE status'[d] # "none" /\ req'[d] = req[d]
  BY <1>6 DEF AnswerApplied
<1>7. ASSUME NEW c \in Command, Schedule(c) \/ Cancel(c)
      PROVE status'[d] # "none" /\ req'[d] = req[d]
  BY <1>7 DEF Schedule, Cancel
<1>8. ASSUME NEW c \in Command, NEW u \in User, Approve(c, u)
      PROVE status'[d] # "none" /\ req'[d] = req[d]
  BY <1>8 DEF Approve
<1>9. ASSUME NEW s \in Session, NEW c \in Command, NEW to \in PatchTargets,
             PatchRead(s, c, to)
      PROVE status'[d] # "none" /\ req'[d] = req[d]
  BY <1>9 DEF PatchRead
<1>10. ASSUME NEW s \in Session, PatchConflict(s)
      PROVE status'[d] # "none" /\ req'[d] = req[d]
  BY <1>10 DEF PatchConflict
<1> QED
  BY <1>1, <1>2, <1>3, <1>4, <1>5, <1>6, <1>7, <1>8, <1>9, <1>10 DEF Next, Rest

(* Only the PATCH handler writes its own state.                            *)
LEMMA PatchKept ==
  ASSUME TypeOK, [Next]_vars,
         ~ \E s \in Session : PatchApplied(s) \/ PatchConflict(s)
                               \/ \E c \in Command, to \in PatchTargets : PatchRead(s, c, to)
  PROVE  patch' = patch
BY DEF Next, Rest, Environment, Executor, Sweep, vars, Create, Approve, Cancel, Schedule,
   ExecSelect, ExecDone, ExecNext, WindowOpen, WindowMissed, PolicyAllows,
   PolicyDenies, Claim, Publish, PublishFails, Record, Bounce, ExecAborts,
   SweepSelect, SweepAborts, SweepSkips, SweepReplans, SweepRetries, SweepGivesUp,
   AnswerApplied, SatelliteAnswers, WindowMoves, ModeReported, PlannedTimeArrives,
   AckTimeoutPasses

(* A PATCH in progress always names an existing row and a transition the    *)
(* table allows.                                                           *)
LEMMA PatchSaneInvariant == Spec => []PatchSane
<1>1. Init => PatchSane
  BY DEF Init, PatchSane
<1>2. TypeOK /\ PatchSane /\ [Next]_vars => PatchSane'
  <2> SUFFICES ASSUME TypeOK, PatchSane, [Next]_vars PROVE PatchSane'
    OBVIOUS
  <2>0. \A c \in Command : status[c] # "none" => status'[c] # "none" /\ req'[c] = req[c]
    BY RowsPersist
  <2>1. CASE patch' = patch
    BY <2>0, <2>1 DEF PatchSane, TypeOK, Patch, Repeatable
  <2>2. ASSUME NEW s \in Session, NEW c \in Command, NEW to \in PatchTargets,
               PatchRead(s, c, to)
        PROVE PatchSane'
    BY <2>2, <2>0 DEF PatchRead, PatchSane, TypeOK, Patch, Repeatable, row
  <2>3. ASSUME NEW s \in Session, PatchApplied(s) \/ PatchConflict(s) PROVE PatchSane'
    BY <2>3, <2>0 DEF PatchApplied, PatchConflict, PatchSane, TypeOK, Patch, Repeatable
  <2> QED
    BY <2>1, <2>2, <2>3, PatchKept
<1> QED
  BY <1>1, <1>2, TypeCorrect, PTL DEF Spec

----------------------------------------------------------------------------
(* Finished commands                                                       *)

(* ACKED and DEAD are terminal for every handler, coroutine and override:   *)
(* each guarded UPDATE excludes both, and a PATCH has no transition out of *)
(* them to hold on to.                                                     *)
THEOREM FinishedStaysFinished == Spec => FinishedIsFinal
<1> DEFINE Kept == \A c \in Command : status[c] \in {"acked", "dead"} => status'[c] = status[c]
<1>1. TypeOK /\ PatchSane /\ [Next]_vars => [Kept]_vars
  <2> SUFFICES ASSUME TypeOK, PatchSane, [Next]_vars,
                      NEW d \in Command, status[d] \in {"acked", "dead"}
               PROVE status'[d] = status[d]
    OBVIOUS
  <2> USE DEF TypeOK, row, env, executor
  <2>1. ASSUME NEW c \in Command, NEW r \in Request, Create(c, r)
        PROVE status'[d] = status[d]
    BY <2>1 DEF Create
  <2>2. ASSUME NEW c \in Command, NEW u \in User, Approve(c, u)
        PROVE status'[d] = status[d]
    BY <2>2 DEF Approve
  <2>3. ASSUME NEW c \in Command, Cancel(c) \/ Schedule(c)
        PROVE status'[d] = status[d]
    BY <2>3 DEF Cancel, Schedule
  <2>4. ASSUME NEW s \in Session, PatchApplied(s)
        PROVE status'[d] = status[d]
    BY <2>4 DEF PatchApplied, PatchSane, Patch, Transitions
  <2>5. ASSUME NEW s \in Session, NEW c \in Command, NEW to \in PatchTargets,
               PatchRead(s, c, to)
        PROVE status'[d] = status[d]
    BY <2>5 DEF PatchRead
  <2>6. ASSUME NEW s \in Session, PatchConflict(s)
        PROVE status'[d] = status[d]
    BY <2>6 DEF PatchConflict
  <2>7. ASSUME NEW n \in Node, Executor(n)
        PROVE status'[d] = status[d]
    BY <2>7 DEF Executor, ExecSelect, ExecDone, ExecNext, WindowOpen, WindowMissed,
       PolicyAllows, PolicyDenies, Claim, Publish, PublishFails, Record, Bounce,
       ExecAborts, Update
  <2>8. ASSUME NEW n \in Node, Sweep(n)
        PROVE status'[d] = status[d]
    BY <2>8 DEF Sweep, SweepSelect, SweepAborts, SweepSkips, SweepReplans, SweepRetries,
       SweepGivesUp
  <2>9. ASSUME NEW a \in answers, AnswerApplied(a)
        PROVE status'[d] = status[d]
    BY <2>9 DEF AnswerApplied, Answerable, Answer
  <2>10. CASE Environment \/ UNCHANGED vars
    BY <2>10 DEF Environment, SatelliteAnswers, WindowMoves, ModeReported,
       PlannedTimeArrives, AckTimeoutPasses, vars
  <2> QED
    BY <2>1, <2>2, <2>3, <2>4, <2>5, <2>6, <2>7, <2>8, <2>9, <2>10 DEF Next, Rest
<1> QED
  BY <1>1, TypeCorrect, PatchSaneInvariant, PTL DEF Spec, FinishedIsFinal

----------------------------------------------------------------------------
(* Approval                                                                *)

Approved(c) == approvedBy[c] \in Admin \ {req[c].by}

Publishing(c) == \E n \in Node : pc[n] = "publish" /\ job[n] = c

(* The inductive form of TwoAdminRule: the approval is there as soon as the *)
(* row is released to the scheduler, so also when an executor is about to  *)
(* publish it, and a row that does not exist yet has not been transmitted. *)
(* sent_at counts as a release: an answer revives any row that has one.    *)
ReleasedIsApproved ==
  \A c \in Command :
    /\ flights[c] > 0 \/ sentAt[c] # "none" => status[c] # "none"
    /\ /\ status[c] # "none" /\ Critical(c)
       /\ \/ status[c] \notin {"awaiting_approval", "dead"}
          \/ Publishing(c)
          \/ flights[c] > 0 \/ sentAt[c] # "none"
       => Approved(c)

(* Critical commands that left 'awaiting_approval' alive carry an approval. *)
LEMMA ApprovalInvariant == Spec => []ReleasedIsApproved
<1>1. Init => ReleasedIsApproved
  BY DEF Init, ReleasedIsApproved
<1>2. TypeOK /\ PatchSane /\ ReleasedIsApproved /\ [Next]_vars => ReleasedIsApproved'
  <2> SUFFICES ASSUME TypeOK, PatchSane, ReleasedIsApproved, [Next]_vars
               PROVE ReleasedIsApproved'
    OBVIOUS
  <2> USE DEF TypeOK, ReleasedIsApproved, row, env, executor, Approved, Publishing, Critical
  <2>1. ASSUME NEW c \in Command, NEW r \in Request, Create(c, r)
        PROVE ReleasedIsApproved'
    BY <2>1 DEF Create
  <2>2. ASSUME NEW c \in Command, NEW u \in User, Approve(c, u)
        PROVE ReleasedIsApproved'
    BY <2>2 DEF Approve, MayApprove
  <2>3. ASSUME NEW c \in Command, Cancel(c) \/ Schedule(c)
        PROVE ReleasedIsApproved'
    BY <2>3 DEF Cancel, Schedule
  <2>4. ASSUME NEW s \in Session, PatchApplied(s)
        PROVE ReleasedIsApproved'
    BY <2>4 DEF PatchApplied, PatchSane, Patch, Transitions, PatchTargets
  <2>5. ASSUME NEW s \in Session, NEW c \in Command, NEW to \in PatchTargets,
               PatchRead(s, c, to)
        PROVE ReleasedIsApproved'
    BY <2>5 DEF PatchRead
  <2>6. ASSUME NEW s \in Session, PatchConflict(s)
        PROVE ReleasedIsApproved'
    BY <2>6 DEF PatchConflict
  <2>7. ASSUME NEW n \in Node, Executor(n)
        PROVE ReleasedIsApproved'
    <3>1. CASE ExecSelect(n) \/ ExecDone(n) \/ ExecAborts(n)
      BY <3>1 DEF ExecSelect, ExecDone, ExecAborts
    <3>2. ASSUME NEW c \in Command, ExecNext(n, c) PROVE ReleasedIsApproved'
      BY <3>2 DEF ExecNext
    <3>3. CASE WindowOpen(n) \/ PolicyAllows(n)
      BY <3>3 DEF WindowOpen, PolicyAllows, Goto
    <3>4. CASE WindowMissed(n) \/ PolicyDenies(n)
      BY <3>4 DEF WindowMissed, PolicyDenies, Goto, Update
    <3>5. CASE Claim(n)
      BY <3>5 DEF Claim, Claimed, Goto, Update
    <3>6. CASE Publish(n) \/ PublishFails(n)
      BY <3>6 DEF Publish, PublishFails, OneMoreFlight, Goto
    <3>7. CASE Record(n) \/ Bounce(n)
      BY <3>7, SMTT(30) DEF Record, Bounce, Goto, Update
    <3> QED
      BY <2>7, <3>1, <3>2, <3>3, <3>4, <3>5, <3>6, <3>7 DEF Executor
  <2>8. ASSUME NEW n \in Node, Sweep(n)
        PROVE ReleasedIsApproved'
    BY <2>8 DEF Sweep, SweepSelect, SweepAborts, SweepSkips, SweepReplans, SweepRetries,
       SweepGivesUp
  <2>9. ASSUME NEW a \in answers, AnswerApplied(a)
        PROVE ReleasedIsApproved'
    BY <2>9 DEF AnswerApplied, Answerable, Answer
  <2>10. CASE Environment \/ UNCHANGED vars
    BY <2>10 DEF Environment, SatelliteAnswers, WindowMoves, ModeReported,
       PlannedTimeArrives, AckTimeoutPasses, vars
  <2> QED
    BY <2>1, <2>2, <2>3, <2>4, <2>5, <2>6, <2>7, <2>8, <2>9, <2>10 DEF Next, Rest
<1> QED
  BY <1>1, <1>2, TypeCorrect, PatchSaneInvariant, PTL DEF Spec

(* No path puts a critical command on the uplink without the approval of    *)
(* another admin: not the overrides, not retries, not answers that revive  *)
(* a row (approve_command, TWO_ADMIN_COMMANDS).                            *)
THEOREM TwoAdmins == Spec => []TwoAdminRule
<1>1. ReleasedIsApproved => TwoAdminRule
  BY DEF ReleasedIsApproved, TwoAdminRule, Approved
<1> QED
  BY <1>1, ApprovalInvariant, PTL

----------------------------------------------------------------------------
(* Commands that must not be repeated                                      *)

Holds(n, c) == pc[n] \in {"publish", "bounce"} /\ job[n] = c

(* The inductive form of UnsafeSentOnce.  A row the executor can still pick *)
(* up has not been transmitted; between its claim and the end of a publish *)
(* (or of the bounce after a failed one) one executor holds it, and nobody *)
(* brings it back to a claimable state meanwhile.                          *)
NotYetSent(c) ==
  /\ status[c] # "retry"
  /\ flights[c] <= 1
  /\ status[c] \in {"awaiting_approval", "pending", "scheduled"} => flights[c] = 0
  /\ \A n \in Node : Holds(n, c) =>
       /\ flights[c] = 0
       /\ status[c] \notin {"awaiting_approval", "pending", "scheduled"}
  /\ \A m, n \in Node : Holds(m, c) /\ Holds(n, c) => m = n

SentOnceInv ==
  \A c \in Command :
    /\ status[c] = "none" => flights[c] = 0
    /\ status[c] # "none" /\ ~Repeatable(c) => NotYetSent(c)

(* No step transmits a command that is not repeatable a second time, when a *)
(* publish that fails stores nothing.                                      *)
LEMMA SentOnceStep ==
  ASSUME PublishMayLie = FALSE, TypeOK, PatchSane, SentOnceInv, [Next]_vars
  PROVE  SentOnceInv'
<1> USE DEF TypeOK, SentOnceInv, NotYetSent, Holds, Repeatable, row, env, executor
<1>1. ASSUME NEW c \in Command, NEW r \in Request, Create(c, r)
      PROVE SentOnceInv'
  BY <1>1, NullAssumption DEF Create
<1>2. ASSUME NEW c \in Command, NEW u \in User, Approve(c, u)
      PROVE SentOnceInv'
  BY <1>2 DEF Approve
<1>3. ASSUME NEW c \in Command, Cancel(c) \/ Schedule(c)
      PROVE SentOnceInv'
  BY <1>3 DEF Cancel, Schedule
<1>4. ASSUME NEW s \in Session, PatchApplied(s)
      PROVE SentOnceInv'
  BY <1>4 DEF PatchApplied, PatchSane, Patch, Transitions, PatchTargets
<1>5. ASSUME NEW s \in Session, NEW c \in Command, NEW to \in PatchTargets,
             PatchRead(s, c, to)
      PROVE SentOnceInv'
  BY <1>5 DEF PatchRead
<1>6. ASSUME NEW s \in Session, PatchConflict(s)
      PROVE SentOnceInv'
  BY <1>6 DEF PatchConflict
<1>7. ASSUME NEW n \in Node, Executor(n)
      PROVE SentOnceInv'
  <2>1. CASE ExecSelect(n)
    BY <2>1 DEF ExecSelect
  <2>1a. CASE ExecDone(n)
    BY <2>1a DEF ExecDone
  <2>1b. CASE ExecAborts(n)
    BY <2>1b, NullAssumption DEF ExecAborts
  <2>2. ASSUME NEW c \in Command, ExecNext(n, c) PROVE SentOnceInv'
    BY <2>2 DEF ExecNext
  <2>3. CASE WindowOpen(n) \/ PolicyAllows(n)
    BY <2>3 DEF WindowOpen, PolicyAllows, Goto
  <2>4. CASE WindowMissed(n) \/ PolicyDenies(n)
    BY <2>4, SMTT(30) DEF WindowMissed, PolicyDenies, Goto, Update
  <2>5. CASE Claim(n)
    BY <2>5 DEF Claim, Claimed, Goto, Update
  <2>6. CASE Publish(n)
    BY <2>6 DEF Publish, OneMoreFlight, Goto
  <2>7. CASE PublishFails(n)
    BY <2>7 DEF PublishFails, OneMoreFlight, Goto
  <2>8. CASE Record(n)
    BY <2>8 DEF Record, Goto, Update
  <2>9. CASE Bounce(n)
    BY <2>9 DEF Bounce, Goto, Update
  <2> QED
    BY <1>7, <2>1, <2>1a, <2>1b, <2>2, <2>3, <2>4, <2>5, <2>6, <2>7, <2>8, <2>9 DEF Executor
<1>8. ASSUME NEW n \in Node, Sweep(n)
      PROVE SentOnceInv'
  <2>1. CASE SweepSelect(n) \/ SweepAborts(n)
    BY <2>1 DEF SweepSelect, SweepAborts
  <2>2. ASSUME NEW c \in Command,
               \/ SweepSkips(n, c) \/ SweepReplans(n, c)
               \/ SweepRetries(n, c) \/ SweepGivesUp(n, c)
        PROVE SentOnceInv'
    BY <2>2 DEF SweepSkips, SweepReplans, SweepRetries, SweepGivesUp
  <2> QED
    BY <1>8, <2>1, <2>2 DEF Sweep
<1>9. ASSUME NEW a \in answers, AnswerApplied(a)
      PROVE SentOnceInv'
  BY <1>9 DEF AnswerApplied, Answerable, Answer
<1>10. CASE Environment \/ UNCHANGED vars
  BY <1>10 DEF Environment, SatelliteAnswers, WindowMoves, ModeReported,
     PlannedTimeArrives, AckTimeoutPasses, vars
<1> QED
  BY <1>1, <1>2, <1>3, <1>4, <1>5, <1>6, <1>7, <1>8, <1>9, <1>10 DEF Next, Rest

(* The strengthened form of UnsafeSentOnce holds in every state.            *)
LEMMA SentOnceInvariant ==
  ASSUME PublishMayLie = FALSE
  PROVE  Spec => []SentOnceInv
<1>1. Init => SentOnceInv
  BY DEF Init, SentOnceInv
<1>2. TypeOK /\ PatchSane /\ SentOnceInv /\ [Next]_vars => SentOnceInv'
  BY SentOnceStep
<1> QED
  BY <1>1, <1>2, TypeCorrect, PatchSaneInvariant, PTL DEF Spec

(* A command that must never be retried is on the uplink at most once, with *)
(* any number of executors and overrides, as long as a publish that fails  *)
(* has not stored the message (service.py: claim, publish, bounce).        *)
THEOREM UnsafeOnce ==
  ASSUME PublishMayLie = FALSE
  PROVE  Spec => []UnsafeSentOnce
<1>1. SentOnceInv => UnsafeSentOnce
  BY DEF SentOnceInv, NotYetSent, UnsafeSentOnce
<1> QED
  BY <1>1, SentOnceInvariant, PTL

----------------------------------------------------------------------------
(* Retries                                                                 *)

(* The PATCH requests that have been allowed to retry c and have yet to     *)
(* write it.                                                               *)
Permits(c) ==
  {s \in Session : patch[s] # NoPatch /\ patch[s].cmd = c /\ patch[s].to = "retry"}

(* The inductive form of RetryBudget.  Beyond MAX_RETRIES the count is paid *)
(* for by requests that no longer hold a permission: a new one is not      *)
(* given.  If all of them hold one, none has been used since the row timed *)
(* out, and the count is still the one that was checked.                   *)
BudgetInv ==
  \A c \in Command :
    /\ status[c] = "retry" => Repeatable(c)
    /\ retries[c] > 0 => status[c] # "none" /\ Repeatable(c)
    /\ \/ retries[c] <= MaxRetries
       \/ retries[c] + Cardinality(Permits(c)) <= MaxRetries + Overtakers
    /\ Permits(c) = Session /\ Session # {} =>
         \/ status[c] \in {"acked", "dead"}
         \/ status[c] = "timeout" /\ retries[c] < MaxRetries

(* Permissions are few.                                                    *)
LEMMA PermitsCounted ==
  ASSUME NEW c \in Command
  PROVE  /\ Cardinality(Permits(c)) \in Nat
         /\ Overtakers \in Nat
         /\ Permits(c) # Session => Cardinality(Permits(c)) <= Overtakers
<1>1. IsFiniteSet(Session) /\ Permits(c) \in SUBSET Session
  BY SessionAssumption DEF Permits
<1>2. /\ IsFiniteSet(Permits(c))
      /\ Cardinality(Permits(c)) <= Cardinality(Session)
      /\ Cardinality(Session) = Cardinality(Permits(c)) => Session = Permits(c)
  BY <1>1, FS_Subset
<1>3. Cardinality(Session) \in Nat /\ Cardinality(Permits(c)) \in Nat
  BY <1>1, <1>2, FS_CardinalityType
<1>4. Session # {} => Cardinality(Session) # 0
  BY <1>1, FS_EmptySet
<1>5. Overtakers \in Nat
  BY <1>3, <1>4 DEF Overtakers
<1>6. Permits(c) # Session => Session # {}
  BY <1>1
<1> QED BY <1>2, <1>3, <1>4, <1>5, <1>6 DEF Overtakers

(* A step that gives and takes no permission, and retries a row only from   *)
(* 'sent' and within the bound, keeps the account.                         *)
LEMMA BudgetKept ==
  ASSUME TypeOK, PatchSane, BudgetInv, patch' = patch, retries' \in [Command -> Nat],
         \A c \in Command : status[c] # "none" => status'[c] # "none" /\ req'[c] = req[c],
         \A c \in Command :
           \/ retries'[c] = retries[c]
           \/ /\ retries'[c] <= MaxRetries /\ Repeatable(c)
              /\ status[c] = "sent",
         \A c \in Command : status'[c] = "retry" => status[c] = "retry",
         \A c \in Command :
           \/ status'[c] = status[c]
           \/ status[c] # "timeout" /\ status[c] \notin {"acked", "dead"}
           \/ status'[c] \in {"acked", "dead"}
  PROVE  BudgetInv'
<1> SUFFICES ASSUME NEW c \in Command
             PROVE /\ status'[c] = "retry" => Repeatable(c)'
                   /\ retries'[c] > 0 => status'[c] # "none" /\ Repeatable(c)'
                   /\ \/ retries'[c] <= MaxRetries
                      \/ retries'[c] + Cardinality(Permits(c)') <= MaxRetries + Overtakers
                   /\ Permits(c)' = Session /\ Session # {} =>
                        \/ status'[c] \in {"acked", "dead"}
                        \/ status'[c] = "timeout" /\ retries'[c] < MaxRetries
  BY DEF BudgetInv, Overtakers
<1>1. Permits(c)' = Permits(c)
  BY DEF Permits
<1>2. status'[c] = "retry" => Repeatable(c)'
  BY DEF BudgetInv, Repeatable
<1>3. retries'[c] > 0 => status'[c] # "none" /\ Repeatable(c)'
  BY DEF BudgetInv, Repeatable, TypeOK
<1>4. \/ retries'[c] <= MaxRetries
      \/ retries'[c] + Cardinality(Permits(c)) <= MaxRetries + Overtakers
  BY DEF BudgetInv
<1>5. Permits(c) = Session /\ Session # {} =>
        \/ status'[c] \in {"acked", "dead"}
        \/ status'[c] = "timeout" /\ retries'[c] < MaxRetries
  BY DEF BudgetInv
<1> QED BY <1>1, <1>2, <1>3, <1>4, <1>5

(* A validated PATCH is written.                                           *)
LEMMA BudgetPatched ==
  ASSUME TypeOK, PatchSane, BudgetInv, NEW s \in Session, PatchApplied(s)
  PROVE  BudgetInv'
<1> USE DEF Patch
<1> DEFINE d == patch[s].cmd
           to == patch[s].to
<1>1. /\ patch[s] # NoPatch /\ d \in Command /\ status[d] = patch[s].from
      /\ to \in PatchTargets \cap Transitions(status[d])
      /\ status[d] # "none" /\ (to = "retry" => Repeatable(d))
  BY DEF PatchApplied, PatchSane, TypeOK
<1>2. to = "retry" => status[d] = "timeout"
  BY <1>1 DEF Transitions, TypeOK
<1>3. /\ status' = [status EXCEPT ![d] = to]
      /\ retries' = [retries EXCEPT ![d] = IF to = "retry" THEN @ + 1 ELSE @]
      /\ patch' = [patch EXCEPT ![s] = NoPatch] /\ req' = req
  BY DEF PatchApplied
<1>4. patch \in [Session -> Patch \cup {NoPatch}] /\ retries \in [Command -> Nat]
      /\ status \in [Command -> Status]
  BY DEF TypeOK
<1> SUFFICES ASSUME NEW c \in Command
             PROVE /\ status'[c] = "retry" => Repeatable(c)'
                   /\ retries'[c] > 0 => status'[c] # "none" /\ Repeatable(c)'
                   /\ \/ retries'[c] <= MaxRetries
                      \/ retries'[c] + Cardinality(Permits(c)') <= MaxRetries + Overtakers
                   /\ Permits(c)' = Session /\ Session # {} =>
                        \/ status'[c] \in {"acked", "dead"}
                        \/ status'[c] = "timeout" /\ retries'[c] < MaxRetries
  BY DEF BudgetInv, Overtakers
<1>5. Permits(c)' = Permits(c) \ {s}
  BY <1>3, <1>4 DEF Permits
<1>6. Permits(c)' # Session
  BY <1>5
<1>7. /\ IsFiniteSet(Permits(c)) /\ Cardinality(Permits(c)) \in Nat /\ Overtakers \in Nat
      /\ Cardinality(Permits(c)') =
           IF s \in Permits(c) THEN Cardinality(Permits(c)) - 1 ELSE Cardinality(Permits(c))
  <2>1. IsFiniteSet(Permits(c))
    BY SessionAssumption, FS_Subset DEF Permits
  <2> QED BY <1>5, <2>1, FS_RemoveElement, PermitsCounted
<1>8. (c = d /\ to = "retry") <=> (s \in Permits(c) /\ c = d)
  BY <1>1 DEF Permits
<1>9. status'[c] = "retry" => Repeatable(c)'
  BY <1>1, <1>3, <1>4 DEF BudgetInv, Repeatable
<1>10. retries'[c] > 0 => status'[c] # "none" /\ Repeatable(c)'
  BY <1>1, <1>3, <1>4 DEF BudgetInv, Repeatable, PatchTargets
<1>11. \/ retries'[c] <= MaxRetries
       \/ retries'[c] + Cardinality(Permits(c)') <= MaxRetries + Overtakers
  <2>0. /\ retries[c] \in Nat /\ MaxRetries \in Nat
        /\ \/ retries[c] <= MaxRetries
           \/ retries[c] + Cardinality(Permits(c)) <= MaxRetries + Overtakers
    BY <1>4, BoundAssumption DEF BudgetInv
  <2>1. CASE c = d /\ to = "retry"
    <3>1. /\ retries'[c] = retries[c] + 1
          /\ Cardinality(Permits(c)') = Cardinality(Permits(c)) - 1
      BY <1>3, <1>4, <1>7, <1>8, <2>1
    <3>2. CASE Permits(c) = Session
      <4>1. retries[c] < MaxRetries
        BY <1>2, <2>1, <3>2 DEF BudgetInv
      <4> QED BY <2>0, <3>1, <4>1
    <3>3. CASE Permits(c) # Session
      <4>1. Cardinality(Permits(c)) <= Overtakers
        BY <3>3, PermitsCounted
      <4> QED BY <1>7, <2>0, <3>1, <4>1
    <3> QED BY <3>2, <3>3
  <2>2. CASE ~(c = d /\ to = "retry")
    <3>1. retries'[c] = retries[c] /\ Cardinality(Permits(c)') <= Cardinality(Permits(c))
      BY <1>3, <1>4, <1>7, <2>2
    <3> QED BY <1>7, <2>0, <3>1
  <2> QED BY <2>1, <2>2
<1> QED BY <1>6, <1>9, <1>10, <1>11

(* A PATCH is validated: a permission is given only below the bound, and    *)
(* only for a row in 'timeout'.                                            *)
LEMMA BudgetPermits ==
  ASSUME TypeOK, BudgetInv, NEW s \in Session, NEW d \in Command, NEW to \in PatchTargets,
         PatchRead(s, d, to)
  PROVE  BudgetInv'
<1>1. /\ patch[s] = NoPatch /\ to \in Transitions(status[d]) /\ status[d] \in Status
      /\ to = "retry" => retries[d] < MaxRetries
      /\ patch' = [patch EXCEPT ![s] = [cmd |-> d, from |-> status[d], to |-> to]]
      /\ UNCHANGED row /\ patch \in [Session -> Patch \cup {NoPatch}]
  BY DEF PatchRead, RetryLeft, TypeOK
<1> SUFFICES ASSUME NEW c \in Command
             PROVE /\ \/ retries[c] <= MaxRetries
                      \/ retries[c] + Cardinality(Permits(c)') <= MaxRetries + Overtakers
                   /\ Permits(c)' = Session /\ Session # {} =>
                        \/ status[c] \in {"acked", "dead"}
                        \/ status[c] = "timeout" /\ retries[c] < MaxRetries
  BY <1>1 DEF BudgetInv, Overtakers, Repeatable, row
<1>2. CASE c = d /\ to = "retry"
  <2>1. status[c] = "timeout"
    BY <1>1, <1>2 DEF Transitions
  <2> QED BY <1>1, <1>2, <2>1, BoundAssumption DEF TypeOK
<1>3. CASE ~(c = d /\ to = "retry")
  <2>1. patch'[s] # NoPatch => ~(patch'[s].cmd = c /\ patch'[s].to = "retry")
    BY <1>1, <1>3
  <2>2. Permits(c)' = Permits(c)
    BY <1>1, <2>1 DEF Permits
  <2> QED BY <2>2 DEF BudgetInv
<1> QED BY <1>2, <1>3

(* A permission is withdrawn: the row is not what was read (409).          *)
LEMMA BudgetConflict ==
  ASSUME TypeOK, BudgetInv, NEW s \in Session, PatchConflict(s)
  PROVE  BudgetInv'
<1>1. /\ patch' = [patch EXCEPT ![s] = NoPatch] /\ UNCHANGED row
      /\ patch \in [Session -> Patch \cup {NoPatch}]
  BY DEF PatchConflict, TypeOK
<1> SUFFICES ASSUME NEW c \in Command
             PROVE /\ \/ retries[c] <= MaxRetries
                      \/ retries[c] + Cardinality(Permits(c)') <= MaxRetries + Overtakers
                   /\ Permits(c)' # Session
  BY <1>1 DEF BudgetInv, Overtakers, Repeatable, row
<1>2. Permits(c)' = Permits(c) \ {s}
  BY <1>1 DEF Permits
<1>3. IsFiniteSet(Permits(c))
  BY SessionAssumption, FS_Subset DEF Permits
<1>4. Cardinality(Permits(c)') =
        IF s \in Permits(c) THEN Cardinality(Permits(c)) - 1 ELSE Cardinality(Permits(c))
  BY <1>2, <1>3, FS_RemoveElement
<1>5. retries[c] \in Nat /\ MaxRetries \in Nat
  BY BoundAssumption DEF TypeOK
<1> QED BY <1>2, <1>4, <1>5, PermitsCounted DEF BudgetInv

(* No step exceeds the retry budget.                                       *)
LEMMA BudgetStep ==
  ASSUME TypeOK, PatchSane, BudgetInv, [Next]_vars
  PROVE  BudgetInv'
<1> DEFINE Quiet(c) ==
      /\ \/ retries'[c] = retries[c]
         \/ retries'[c] <= MaxRetries /\ Repeatable(c) /\ status[c] = "sent"
      /\ status'[c] = "retry" => status[c] = "retry"
      /\ \/ status'[c] = status[c]
         \/ status[c] # "timeout" /\ status[c] \notin {"acked", "dead"}
         \/ status'[c] \in {"acked", "dead"}
<1>0. /\ \A c \in Command : status[c] # "none" => status'[c] # "none" /\ req'[c] = req[c]
      /\ retries' \in [Command -> Nat]
  BY RowsPersist, TypeStep DEF TypeOK
<1>1. ASSUME NEW s \in Session, PatchApplied(s) PROVE BudgetInv'
  BY <1>1, BudgetPatched
<1>2. ASSUME NEW s \in Session, NEW c \in Command, NEW to \in PatchTargets,
             PatchRead(s, c, to)
      PROVE BudgetInv'
  BY <1>2, BudgetPermits
<1>3. ASSUME NEW s \in Session, PatchConflict(s) PROVE BudgetInv'
  BY <1>3, BudgetConflict
<1>4. ASSUME ~ \E s \in Session : PatchApplied(s) \/ PatchConflict(s)
                  \/ \E c \in Command, to \in PatchTargets : PatchRead(s, c, to)
      PROVE BudgetInv'
  <2> SUFFICES ASSUME NEW d \in Command PROVE Quiet(d)
    <3>1. patch' = patch
      BY <1>4, PatchKept
    <3> QED BY <1>0, <3>1, BudgetKept
  <2> USE DEF TypeOK, row, env, executor
  <2>1. ASSUME NEW c \in Command, NEW r \in Request, Create(c, r) PROVE Quiet(d)
    BY <2>1 DEF Create
  <2>2. ASSUME NEW c \in Command, NEW u \in User, Approve(c, u) PROVE Quiet(d)
    BY <2>2 DEF Approve
  <2>3. ASSUME NEW c \in Command, Cancel(c) \/ Schedule(c) PROVE Quiet(d)
    BY <2>3 DEF Cancel, Schedule
  <2>4. ASSUME NEW n \in Node, Executor(n) PROVE Quiet(d)
    BY <2>4 DEF Executor, ExecSelect, ExecDone, ExecNext, WindowOpen, WindowMissed,
       PolicyAllows, PolicyDenies, Claim, Publish, PublishFails, Record, Bounce,
       ExecAborts, Update
  <2>5. ASSUME NEW n \in Node, Sweep(n) PROVE Quiet(d)
    <3>1. CASE SweepSelect(n) \/ SweepAborts(n)
      BY <3>1 DEF SweepSelect, SweepAborts
    <3>2. ASSUME NEW c \in Command,
                 SweepSkips(n, c) \/ SweepReplans(n, c) \/ SweepGivesUp(n, c)
          PROVE Quiet(d)
      BY <3>2 DEF SweepSkips, SweepReplans, SweepGivesUp
    <3>3. ASSUME NEW c \in Command, SweepRetries(n, c) PROVE Quiet(d)
      BY <3>3, BoundAssumption DEF SweepRetries, RetryLeft
    <3> QED BY <2>5, <3>1, <3>2, <3>3 DEF Sweep
  <2>6. ASSUME NEW a \in answers, AnswerApplied(a) PROVE Quiet(d)
    BY <2>6 DEF AnswerApplied, Answerable, Answer
  <2>7. CASE Environment \/ UNCHANGED vars
    BY <2>7 DEF Environment, SatelliteAnswers, WindowMoves, ModeReported,
       PlannedTimeArrives, AckTimeoutPasses, vars
  <2> QED
    BY <1>4, <2>1, <2>2, <2>3, <2>4, <2>5, <2>6, <2>7 DEF Next, Rest
<1> QED BY <1>1, <1>2, <1>3, <1>4

(* Only repeatable commands are retried: MAX_RETRIES times, and once more   *)
(* for every PATCH that was in progress beside another, however many there *)
(* are (service.py _mark_timed_out, commands.py transition_command).       *)
THEOREM RetriesBounded == Spec => []RetryBudget
<1>1. Init => BudgetInv
  BY BoundAssumption DEF Init, BudgetInv, Permits
<1>2. TypeOK /\ PatchSane /\ BudgetInv /\ [Next]_vars => BudgetInv'
  BY BudgetStep
<1>3. TypeOK /\ BudgetInv => RetryBudget
  <2> SUFFICES ASSUME TypeOK, BudgetInv, NEW c \in Command
               PROVE /\ retries[c] <= MaxRetries + Overtakers
                     /\ retries[c] > 0 => Repeatable(c)
    BY DEF RetryBudget
  <2>1. retries[c] \in Nat /\ MaxRetries \in Nat
    BY BoundAssumption DEF TypeOK
  <2> QED BY <2>1, PermitsCounted DEF BudgetInv
<1> QED
  BY <1>1, <1>2, <1>3, TypeCorrect, PatchSaneInvariant, PTL DEF Spec

----------------------------------------------------------------------------
(* Refinement                                                              *)

(* A row that waits for its second admin has never been marked as sent, so  *)
(* no answer can finish it.                                                *)
HeldIsUnsent == \A c \in Command : status[c] = "awaiting_approval" => sentAt[c] = "none"

(* No command that waits for its approval carries a transmission time, so   *)
(* no answer can finish it before it is approved.                          *)
LEMMA HeldInvariant == Spec => []HeldIsUnsent
<1>1. Init => HeldIsUnsent
  BY DEF Init, HeldIsUnsent
<1>2. TypeOK /\ PatchSane /\ ReleasedIsApproved /\ HeldIsUnsent /\ [Next]_vars => HeldIsUnsent'
  <2> SUFFICES ASSUME TypeOK, PatchSane, ReleasedIsApproved, HeldIsUnsent, [Next]_vars
               PROVE HeldIsUnsent'
    OBVIOUS
  <2> USE DEF TypeOK, HeldIsUnsent, row, env, executor
  <2>1. ASSUME NEW c \in Command, NEW r \in Request, Create(c, r)
        PROVE HeldIsUnsent'
    BY <2>1 DEF Create, ReleasedIsApproved
  <2>2. ASSUME NEW c \in Command, NEW u \in User, Approve(c, u)
        PROVE HeldIsUnsent'
    BY <2>2 DEF Approve
  <2>3. ASSUME NEW c \in Command, Cancel(c) \/ Schedule(c)
        PROVE HeldIsUnsent'
    BY <2>3 DEF Cancel, Schedule
  <2>4. ASSUME NEW s \in Session, PatchApplied(s)
        PROVE HeldIsUnsent'
    BY <2>4 DEF PatchApplied, PatchSane, Patch, Transitions, PatchTargets
  <2>5. ASSUME NEW s \in Session, NEW c \in Command, NEW to \in PatchTargets,
               PatchRead(s, c, to)
        PROVE HeldIsUnsent'
    BY <2>5 DEF PatchRead
  <2>6. ASSUME NEW s \in Session, PatchConflict(s)
        PROVE HeldIsUnsent'
    BY <2>6 DEF PatchConflict
  <2>7. ASSUME NEW n \in Node, Executor(n)
        PROVE HeldIsUnsent'
    BY <2>7 DEF Executor, ExecSelect, ExecDone, ExecNext, WindowOpen, WindowMissed,
       PolicyAllows, PolicyDenies, Claim, Publish, PublishFails, Record, Bounce,
       ExecAborts, Update
  <2>8. ASSUME NEW n \in Node, Sweep(n)
        PROVE HeldIsUnsent'
    BY <2>8 DEF Sweep, SweepSelect, SweepAborts, SweepSkips, SweepReplans, SweepRetries,
       SweepGivesUp
  <2>9. ASSUME NEW a \in answers, AnswerApplied(a)
        PROVE HeldIsUnsent'
    BY <2>9 DEF AnswerApplied, Answerable, Answer
  <2>10. CASE Environment \/ UNCHANGED vars
    BY <2>10 DEF Environment, SatelliteAnswers, WindowMoves, ModeReported,
       PlannedTimeArrives, AckTimeoutPasses, vars
  <2> QED
    BY <2>1, <2>2, <2>3, <2>4, <2>5, <2>6, <2>7, <2>8, <2>9, <2>10 DEF Next, Rest
<1> QED
  BY <1>1, <1>2, TypeCorrect, PatchSaneInvariant, ApprovalInvariant, PTL DEF Spec

(* Every step of the detailed system is a step of the contract, or none.   *)
LEMMA LifecycleStep ==
  ASSUME PublishMayLie = FALSE, TypeOK, PatchSane, ReleasedIsApproved, SentOnceInv,
         HeldIsUnsent, [Next]_vars
  PROVE  [Lifecycle!Next]_(Lifecycle!vars)
<1> DEFINE Goal == [Lifecycle!Next]_(Lifecycle!vars)
<1> USE DEF TypeOK, row, env, executor, Lifecycle!vars, PhaseOf, Critical, Repeatable
<1>1. ASSUME NEW c \in Command, NEW r \in Request, Create(c, r)
      PROVE Goal
  <2> DEFINE k == r.type \in TwoAdminCommands
             safe == r.safe /\ r.type \notin UnsafeRetryTypes
  <2>0. k \in BOOLEAN /\ safe \in BOOLEAN
    BY RequestAssumption DEF RequestShape
  <2>1. /\ status[c] = "none"
        /\ status' = [status EXCEPT ![c] = IF k THEN "awaiting_approval" ELSE "pending"]
        /\ req' = [req EXCEPT ![c] = r]
        /\ UNCHANGED <<approvedBy, flights, pc, job>>
    BY <1>1 DEF Create
  <2>2. {d \in Command : status[d] # "none" /\ Critical(d)}' =
          IF k THEN {d \in Command : status[d] # "none" /\ Critical(d)} \cup {c}
               ELSE {d \in Command : status[d] # "none" /\ Critical(d)}
    BY <2>1
  <2>3. {d \in Command : status[d] # "none" /\ Repeatable(d)}' =
          IF safe THEN {d \in Command : status[d] # "none" /\ Repeatable(d)} \cup {c}
                  ELSE {d \in Command : status[d] # "none" /\ Repeatable(d)}
    BY <2>1
  <2>4. /\ [d \in Command |-> PhaseOf(status[d])][c] = "new"
        /\ [d \in Command |-> PhaseOf(status[d])]' =
             [[d \in Command |-> PhaseOf(status[d])] EXCEPT
                ![c] = IF k THEN "held" ELSE "open"]
    BY <2>1
  <2>5. Lifecycle!Submit(c, k, safe)
    BY <2>1, <2>2, <2>3, <2>4 DEF Lifecycle!Submit
  <2> HIDE DEF k, safe
  <2> QED
    BY <2>0, <2>5 DEF Lifecycle!Next
<1>2. ASSUME NEW c \in Command, NEW u \in User, Approve(c, u)
      PROVE Goal
  <2>1. Lifecycle!Sign(c)
    <3>1. /\ status[c] = "awaiting_approval"
          /\ status' = [status EXCEPT ![c] = "pending"]
          /\ approvedBy' = [approvedBy EXCEPT ![c] = u]
          /\ UNCHANGED <<req, flights, pc, job>>
      BY <1>2 DEF Approve
    <3>2. {d \in Command : approvedBy[d] # NoUser}' =
            {d \in Command : approvedBy[d] # NoUser} \cup {c}
      BY <3>1, NullAssumption
    <3>3. /\ {d \in Command : status[d] # "none" /\ Critical(d)}' =
               {d \in Command : status[d] # "none" /\ Critical(d)}
          /\ {d \in Command : status[d] # "none" /\ Repeatable(d)}' =
               {d \in Command : status[d] # "none" /\ Repeatable(d)}
      BY <3>1
    <3> QED
      BY <3>1, <3>2, <3>3 DEF Lifecycle!Sign
  <2> QED
    BY <2>1 DEF Lifecycle!Next
<1>3. ASSUME NEW c \in Command, Cancel(c)
      PROVE Goal
  <2>1. Lifecycle!Finish(c, "dead")
    BY <1>3 DEF Cancel, Lifecycle!Finish
  <2> QED
    BY <2>1 DEF Lifecycle!Next
<1>4. ASSUME NEW c \in Command, Schedule(c)
      PROVE Goal
  BY <1>4 DEF Schedule
<1>5. ASSUME NEW s \in Session, PatchApplied(s)
      PROVE Goal
  <2> DEFINE c == patch[s].cmd
  <2>0. c \in Command /\ status[c] \notin {"none", "awaiting_approval", "acked", "dead"}
        /\ status'[c] \notin {"none", "awaiting_approval", "dead"}
    BY <1>5 DEF PatchApplied, PatchSane, Patch, Transitions, PatchTargets
  <2>1. CASE patch[s].to = "acked"
    <3>1. Lifecycle!Finish(c, "acked")
      BY <1>5, <2>0, <2>1 DEF PatchApplied, Lifecycle!Finish
    <3> QED
      BY <3>1, <2>0 DEF Lifecycle!Next
  <2>2. CASE patch[s].to # "acked"
    BY <1>5, <2>0, <2>2 DEF PatchApplied
  <2> QED
    BY <2>1, <2>2
<1>6. ASSUME NEW s \in Session, NEW c \in Command, NEW to \in PatchTargets,
             PatchRead(s, c, to)
      PROVE Goal
  BY <1>6 DEF PatchRead
<1>7. ASSUME NEW s \in Session, PatchConflict(s)
      PROVE Goal
  BY <1>7 DEF PatchConflict
<1>8. ASSUME NEW n \in Node, Executor(n)
      PROVE Goal
  <2>1. CASE ExecSelect(n) \/ ExecDone(n)
    BY <2>1 DEF ExecSelect, ExecDone
  <2>2. ASSUME NEW c \in Command, ExecNext(n, c) PROVE Goal
    BY <2>2 DEF ExecNext
  <2>3. CASE WindowOpen(n) \/ PolicyAllows(n)
    BY <2>3 DEF WindowOpen, PolicyAllows, Goto
  <2>4. CASE WindowMissed(n)
    BY <2>4 DEF WindowMissed, Goto, Update
  <2>5. CASE PolicyDenies(n)
    <3>1. CASE status[job[n]] = "scheduled"
      <4>1. Lifecycle!Finish(job[n], "dead")
        BY <2>5, <3>1 DEF PolicyDenies, Goto, Update, Lifecycle!Finish
      <4> QED
        BY <2>5, <4>1 DEF PolicyDenies, Lifecycle!Next
    <3>2. CASE status[job[n]] # "scheduled"
      BY <2>5, <3>2 DEF PolicyDenies, Goto, Update
    <3> QED
      BY <3>1, <3>2
  <2>6. CASE Claim(n)
    <3>1. CASE status[job[n]] = "scheduled"
      <4>1. PICK c \in Command : c = job[n]
        BY <2>6 DEF Claim
      <4>2. Lifecycle!Take(c)
        BY <2>6, <3>1, <4>1 DEF Claim, Claimed, Goto, Update, Lifecycle!Take
      <4> QED
        BY <4>2 DEF Lifecycle!Next
    <3>2. CASE status[job[n]] # "scheduled"
      BY <2>6, <3>2 DEF Claim, Claimed, Goto, Update
    <3> QED
      BY <3>1, <3>2
  <2>7. CASE Publish(n)
    <3>1. PICK c \in Command : c = job[n]
      BY <2>7 DEF Publish
    <3>2. Lifecycle!Fly(c)
      BY <2>7, <3>1, NullAssumption DEF Publish, Goto, OneMoreFlight, Lifecycle!Fly,
         ReleasedIsApproved, Approved, Publishing, SentOnceInv, NotYetSent, Holds, User
    <3> QED
      BY <3>2 DEF Lifecycle!Next
  <2>8. CASE PublishFails(n) \/ ExecAborts(n)
    <3> DEFINE taken == {c \in Command : \E m \in Node : pc[m] = "publish" /\ job[m] = c}
    <3>1. UNCHANGED <<status, req, approvedBy, flights>>
      BY <2>8 DEF PublishFails, ExecAborts
    <3>2. \A m \in Node \ {n} : pc'[m] = pc[m] /\ job'[m] = job[m]
      BY <2>8 DEF PublishFails, ExecAborts, Goto
    <3>3. pc'[n] # "publish"
      BY <2>8 DEF PublishFails, ExecAborts, Goto
    <3>4. CASE taken' = taken
      BY <3>1, <3>4
    <3>5. CASE taken' # taken
      <4>1. PICK c \in Command : c = job[n] /\ taken' = taken \ {c}
        BY <3>2, <3>3, <3>5
      <4>2. Lifecycle!Drop(c)
        BY <3>1, <4>1 DEF Lifecycle!Drop
      <4> QED
        BY <4>2 DEF Lifecycle!Next
    <3> QED
      BY <3>4, <3>5
  <2>9. CASE Record(n) \/ Bounce(n)
    BY <2>9 DEF Record, Bounce, Goto, Update
  <2> QED
    BY <1>8, <2>1, <2>2, <2>3, <2>4, <2>5, <2>6, <2>7, <2>8, <2>9 DEF Executor
<1>9. ASSUME NEW n \in Node, Sweep(n)
      PROVE Goal
  <2>1. CASE SweepSelect(n) \/ SweepAborts(n)
    BY <2>1 DEF SweepSelect, SweepAborts
  <2>2. ASSUME NEW c \in Command,
               SweepSkips(n, c) \/ SweepReplans(n, c) \/ SweepRetries(n, c)
        PROVE Goal
    BY <2>2 DEF SweepSkips, SweepReplans, SweepRetries
  <2>3. ASSUME NEW c \in Command, SweepGivesUp(n, c)
        PROVE Goal
    <3>1. Lifecycle!Finish(c, "dead")
      BY <2>3 DEF SweepGivesUp, Lifecycle!Finish
    <3> QED
      BY <3>1 DEF Lifecycle!Next
  <2> QED
    BY <1>9, <2>1, <2>2, <2>3 DEF Sweep
<1>10. ASSUME NEW a \in answers, AnswerApplied(a)
      PROVE Goal
  <2>1. CASE Answerable(a.cmd)
    <3> DEFINE c == a.cmd
               o == IF a.ok THEN "acked" ELSE "dead"
    <3>0. c \in Command /\ o \in {"acked", "dead"}
      BY DEF Answer
    <3>1. status[c] \notin {"none", "awaiting_approval", "acked", "dead"}
      BY <2>1, <3>0 DEF Answerable, HeldIsUnsent
    <3>2. status' = [status EXCEPT ![c] = o] /\ UNCHANGED <<req, approvedBy, flights, pc, job>>
      BY <1>10, <2>1 DEF AnswerApplied
    <3> HIDE DEF c, o
    <3>3. Lifecycle!Finish(c, o)
      BY <3>0, <3>1, <3>2 DEF Lifecycle!Finish
    <3> QED
      BY <3>0, <3>3 DEF Lifecycle!Next
  <2>2. CASE ~Answerable(a.cmd)
    BY <1>10, <2>2 DEF AnswerApplied
  <2> QED
    BY <2>1, <2>2
<1>11. CASE Environment \/ UNCHANGED vars
  BY <1>11 DEF Environment, SatelliteAnswers, WindowMoves, ModeReported,
     PlannedTimeArrives, AckTimeoutPasses, vars
<1> QED
  BY <1>1, <1>2, <1>3, <1>4, <1>5, <1>6, <1>7, <1>8, <1>9, <1>10, <1>11 DEF Next, Rest

(* The detailed system implements the contract of CommandLifecycle: with    *)
(* any number of nodes, overrides and answers a command is held until it is *)
(* signed, taken only while open, and never flown again unless repeatable. *)
THEOREM Implementation ==
  ASSUME PublishMayLie = FALSE
  PROVE  Spec => ImplementsLifecycle
<1>1. Init => Lifecycle!Init
  BY DEF Init, Lifecycle!Init, PhaseOf
<1>2. TypeOK /\ PatchSane /\ ReleasedIsApproved /\ SentOnceInv /\ HeldIsUnsent
        /\ [Next]_vars => [Lifecycle!Next]_(Lifecycle!vars)
  BY LifecycleStep
<1> QED
  BY <1>1, <1>2, TypeCorrect, PatchSaneInvariant, ApprovalInvariant, SentOnceInvariant,
     HeldInvariant, PTL DEF Spec, ImplementsLifecycle, Lifecycle!Spec

----------------------------------------------------------------------------
(* The sweep's query                                                       *)

(* Every way into 'sent', the executor's and the override's, stamps the     *)
(* row, and nothing removes a stamp (service.py:265, commands.py:284).     *)
THEOREM SentRowsAreSwept == Spec => []SentIsSwept
<1>1. Init => SentIsSwept
  BY DEF Init, SentIsSwept
<1>2. TypeOK /\ SentIsSwept /\ [Next]_vars => SentIsSwept'
  <2> SUFFICES ASSUME TypeOK, SentIsSwept, [Next]_vars PROVE SentIsSwept'
    OBVIOUS
  <2> USE DEF TypeOK, SentIsSwept, row, env, executor
  <2>1. ASSUME NEW c \in Command, NEW r \in Request, Create(c, r) PROVE SentIsSwept'
    BY <2>1 DEF Create
  <2>2. ASSUME NEW c \in Command, NEW u \in User, Approve(c, u) PROVE SentIsSwept'
    BY <2>2 DEF Approve
  <2>3. ASSUME NEW c \in Command, Cancel(c) \/ Schedule(c) PROVE SentIsSwept'
    BY <2>3 DEF Cancel, Schedule
  <2>4. ASSUME NEW s \in Session, PatchApplied(s) PROVE SentIsSwept'
    BY <2>4 DEF PatchApplied, Patch, Stamped
  <2>5. ASSUME NEW s \in Session, NEW c \in Command, NEW to \in PatchTargets,
               PatchRead(s, c, to)
        PROVE SentIsSwept'
    BY <2>5 DEF PatchRead
  <2>6. ASSUME NEW s \in Session, PatchConflict(s) PROVE SentIsSwept'
    BY <2>6 DEF PatchConflict
  <2>7. ASSUME NEW n \in Node, Executor(n) PROVE SentIsSwept'
    BY <2>7 DEF Executor, ExecSelect, ExecDone, ExecNext, WindowOpen, WindowMissed,
       PolicyAllows, PolicyDenies, Claim, Publish, PublishFails, Record, Bounce,
       ExecAborts, Update
  <2>8. ASSUME NEW n \in Node, Sweep(n) PROVE SentIsSwept'
    BY <2>8 DEF Sweep, SweepSelect, SweepAborts, SweepSkips, SweepReplans, SweepRetries,
       SweepGivesUp
  <2>9. ASSUME NEW a \in answers, AnswerApplied(a) PROVE SentIsSwept'
    BY <2>9 DEF AnswerApplied, Answer
  <2>10. CASE Environment \/ UNCHANGED vars
    BY <2>10 DEF Environment, SatelliteAnswers, WindowMoves, ModeReported,
       PlannedTimeArrives, AckTimeoutPasses, vars
  <2> QED
    BY <2>1, <2>2, <2>3, <2>4, <2>5, <2>6, <2>7, <2>8, <2>9, <2>10 DEF Next, Rest
<1> QED
  BY <1>1, <1>2, TypeCorrect, PTL DEF Spec

----------------------------------------------------------------------------
(* Types that the rest needs                                               *)

Rows ==
  /\ status \in [Command -> Status]
  /\ DOMAIN req = Command
  /\ DOMAIN plannedAt = Command
  /\ DOMAIN sentAt = Command
  /\ flights \in [Command -> 0..2]
  /\ answers \subseteq Answer
  /\ DOMAIN pc = Node /\ DOMAIN job = Node
  /\ \A n \in Node : pc[n] \notin {"idle", "next"} =>
                       job[n] \in Command /\ status[job[n]] # "none"
  /\ \A n \in Node : \A c \in batch[n] : c \in Command /\ status[c] # "none"

(* The part of the types that the invariants below rely on.                *)
LEMMA RowsTyped == TypeOK => Rows
  BY DEF TypeOK, Rows

----------------------------------------------------------------------------
(* Planned times                                                           *)

(* A row keeps its time while it is scheduled or being transmitted, because *)
(* a failed publish puts it back as it is; a window is only looked at for  *)
(* rows whose time the planner chose.                                      *)
PlannedInv ==
  /\ \A c \in Command :
       \/ status[c] \in {"scheduled", "transmitting"}
       \/ status[c] # "none" /\ req[c].manual
       => plannedAt[c] # "none"
  /\ \A n \in Node : pc[n] = "window" => ~req[job[n]].manual

(* Without overrides no step leaves a scheduled or manual row without time. *)
LEMMA PlannedStep ==
  ASSUME Session = {}, TypeOK, PlannedInv, [Next]_vars
  PROVE  PlannedInv'
<1>a. Rows
  BY RowsTyped
<1> USE <1>a DEF Rows, PlannedInv, row, env, executor
<1>1. ASSUME NEW c \in Command, NEW r \in Request, Create(c, r) PROVE PlannedInv'
  BY <1>1 DEF Create
<1>2. ASSUME NEW c \in Command, NEW u \in User, Approve(c, u) PROVE PlannedInv'
  BY <1>2 DEF Approve
<1>3. ASSUME NEW c \in Command, Cancel(c) \/ Schedule(c) PROVE PlannedInv'
  BY <1>3 DEF Cancel, Schedule
<1>4. ASSUME NEW n \in Node, Executor(n) PROVE PlannedInv'
  <2>1. CASE ExecSelect(n) \/ ExecDone(n) \/ ExecAborts(n)
    BY <2>1 DEF ExecSelect, ExecDone, ExecAborts
  <2>2. ASSUME NEW c \in Command, ExecNext(n, c) PROVE PlannedInv'
    BY <2>2 DEF ExecNext
  <2>3. CASE WindowOpen(n) \/ PolicyAllows(n)
    BY <2>3 DEF WindowOpen, PolicyAllows, Goto
  <2>4. CASE WindowMissed(n) \/ PolicyDenies(n)
    BY <2>4 DEF WindowMissed, PolicyDenies, Goto, Update
  <2>5. CASE Claim(n)
    BY <2>5 DEF Claim, Goto, Update
  <2>6. CASE Publish(n) \/ PublishFails(n)
    BY <2>6 DEF Publish, PublishFails, Goto
  <2>7. CASE Record(n) \/ Bounce(n)
    BY <2>7 DEF Record, Bounce, Goto, Update
  <2> QED
    BY <1>4, <2>1, <2>2, <2>3, <2>4, <2>5, <2>6, <2>7 DEF Executor
<1>5. ASSUME NEW n \in Node, Sweep(n) PROVE PlannedInv'
  BY <1>5 DEF Sweep, SweepSelect, SweepAborts, SweepSkips, SweepReplans, SweepRetries,
     SweepGivesUp, LostSignal, Backoff
<1>6. ASSUME NEW a \in answers, AnswerApplied(a) PROVE PlannedInv'
  BY <1>6 DEF AnswerApplied, Answerable, Answer
<1>7. CASE Environment \/ UNCHANGED vars
  BY <1>7 DEF Environment, SatelliteAnswers, WindowMoves, ModeReported,
     PlannedTimeArrives, AckTimeoutPasses, vars
<1> QED
  BY <1>1, <1>2, <1>3, <1>4, <1>5, <1>6, <1>7 DEF Next, Rest

(* With any number of nodes, aborted cycles and failed publishes, what the  *)
(* operator planned stays planned and what is scheduled can be selected.   *)
(* An override from 'pending' to 'scheduled' is what this does not cover.  *)
THEOREM PlansAreKept ==
  ASSUME Session = {}
  PROVE  Spec => []AlwaysPlanned
<1>1. Init => PlannedInv
  BY DEF Init, PlannedInv
<1>2. TypeOK /\ PlannedInv /\ [Next]_vars => PlannedInv'
  BY PlannedStep
<1>3. PlannedInv => AlwaysPlanned
  BY DEF PlannedInv, AlwaysPlanned
<1> QED
  BY <1>1, <1>2, <1>3, TypeCorrect, PTL DEF Spec

----------------------------------------------------------------------------
(* Answers                                                                 *)

Carries(n, c) == pc[n] \in {"publish", "record", "bounce"} /\ job[n] = c

(* An answer needs a flight, and a row that has flown is finished, still    *)
(* 'transmitting', or stamped.  The middle part makes this inductive: only *)
(* the executor that claimed a row can move it on before it is stamped, so *)
(* a row that is bounced unstamped has not flown.                          *)
AnswerableInv ==
  /\ \A a \in answers : flights[a.cmd] > 0
  /\ \A c \in Command :
       flights[c] > 0 =>
         /\ status[c] # "none"
         /\ status[c] \in {"transmitting", "acked", "dead"} \/ sentAt[c] # "none"
  /\ \A n \in Node, c \in Command :
       Carries(n, c) =>
         /\ status[c] \in {"transmitting", "acked", "dead"}
         /\ (pc[n] # "record" /\ status[c] = "transmitting" /\ flights[c] > 0)
              => sentAt[c] # "none"
  /\ \A m, n \in Node, c \in Command : Carries(m, c) /\ Carries(n, c) => m = n

(* Without overrides, and when a publish that fails stores nothing, every   *)
(* step keeps a flown row in a state that takes answers.                   *)
LEMMA AnswerableStep ==
  ASSUME Session = {}, PublishMayLie = FALSE, TypeOK, AnswerableInv, [Next]_vars
  PROVE  AnswerableInv'
<1>a. Rows
  BY RowsTyped
<1> USE <1>a DEF Rows, AnswerableInv, Carries, row, env, executor
<1>1. ASSUME NEW c \in Command, NEW r \in Request, Create(c, r) PROVE AnswerableInv'
  BY <1>1, NullAssumption DEF Create
<1>2. ASSUME NEW c \in Command, NEW u \in User, Approve(c, u) PROVE AnswerableInv'
  BY <1>2 DEF Approve
<1>3. ASSUME NEW c \in Command, Cancel(c) \/ Schedule(c) PROVE AnswerableInv'
  BY <1>3 DEF Cancel, Schedule
<1>4. ASSUME NEW n \in Node, Executor(n) PROVE AnswerableInv'
  <2>1. CASE ExecSelect(n)
    BY <2>1 DEF ExecSelect
  <2>2. CASE ExecDone(n)
    BY <2>2 DEF ExecDone
  <2>3. CASE ExecAborts(n)
    BY <2>3, NullAssumption DEF ExecAborts
  <2>4. ASSUME NEW c \in Command, ExecNext(n, c) PROVE AnswerableInv'
    BY <2>4 DEF ExecNext
  <2>5. CASE WindowOpen(n) \/ PolicyAllows(n)
    BY <2>5 DEF WindowOpen, PolicyAllows, Goto
  <2>6. CASE WindowMissed(n)
    BY <2>6 DEF WindowMissed, Goto, Update
  <2>7. CASE PolicyDenies(n)
    BY <2>7 DEF PolicyDenies, Goto, Update
  <2>8. CASE Claim(n)
    BY <2>8 DEF Claim, Claimed, Goto, Update
  <2>9. CASE Publish(n)
    BY <2>9 DEF Publish, OneMoreFlight, Goto
  <2>10. CASE PublishFails(n)
    BY <2>10 DEF PublishFails, Goto
  <2>11. CASE Record(n)
    BY <2>11 DEF Record, Goto, Update
  <2>12. CASE Bounce(n)
    BY <2>12 DEF Bounce, Goto, Update
  <2> QED
    BY <1>4, <2>1, <2>2, <2>3, <2>4, <2>5, <2>6, <2>7, <2>8, <2>9, <2>10, <2>11, <2>12
       DEF Executor
<1>5. ASSUME NEW n \in Node, Sweep(n) PROVE AnswerableInv'
  <2>1. CASE SweepSelect(n) \/ SweepAborts(n)
    BY <2>1 DEF SweepSelect, SweepAborts
  <2>2. ASSUME NEW c \in Command,
               \/ SweepSkips(n, c) \/ SweepReplans(n, c)
               \/ SweepRetries(n, c) \/ SweepGivesUp(n, c)
        PROVE AnswerableInv'
    BY <2>2 DEF SweepSkips, SweepReplans, SweepRetries, SweepGivesUp
  <2> QED
    BY <1>5, <2>1, <2>2 DEF Sweep
<1>6. ASSUME NEW a \in answers, AnswerApplied(a) PROVE AnswerableInv'
  BY <1>6 DEF AnswerApplied, Answerable, Answer
<1>7. CASE Environment \/ UNCHANGED vars
  BY <1>7 DEF Environment, SatelliteAnswers, WindowMoves, ModeReported,
     PlannedTimeArrives, AckTimeoutPasses, vars
<1> QED
  BY <1>1, <1>2, <1>3, <1>4, <1>5, <1>6, <1>7 DEF Next, Rest

(* Only the listener takes an answer off the stream.                       *)
LEMMA AnswersKept ==
  ASSUME TypeOK, [Next]_vars, ~ \E a \in answers : AnswerApplied(a)
  PROVE  answers \subseteq answers'
<1> USE DEF row, env, executor
<1>1. ASSUME NEW n \in Node, Executor(n) PROVE UNCHANGED answers
  BY <1>1 DEF Executor, ExecSelect, ExecDone, ExecNext, WindowOpen, WindowMissed,
     PolicyAllows, PolicyDenies, Claim, Publish, PublishFails, Record, Bounce, ExecAborts
<1>2. ASSUME NEW n \in Node, Sweep(n) PROVE UNCHANGED answers
  BY <1>2 DEF Sweep, SweepSelect, SweepAborts, SweepSkips, SweepReplans, SweepRetries,
     SweepGivesUp
<1>3. CASE Environment \/ UNCHANGED vars
  BY <1>3 DEF Environment, SatelliteAnswers, WindowMoves, ModeReported,
     PlannedTimeArrives, AckTimeoutPasses, vars
<1>4. CASE Rest \/ \E c \in Command : Schedule(c)
  BY <1>4 DEF Rest, Create, Approve, Cancel, PatchRead, PatchApplied, PatchConflict,
     Schedule
<1> QED
  BY <1>1, <1>2, <1>3, <1>4 DEF Next

(* An answer that leaves the stream finished its command: with any number   *)
(* of nodes and aborted cycles, ACKs that overtake the 'sent' update or    *)
(* come after a timeout count (service.py:54, :366).                       *)
THEOREM AnswersCount ==
  ASSUME Session = {}, PublishMayLie = FALSE
  PROVE  Spec => AnswersNotDropped
<1>1. Init => AnswerableInv
  BY DEF Init, AnswerableInv, Carries
<1>2. TypeOK /\ AnswerableInv /\ [Next]_vars => AnswerableInv'
  BY AnswerableStep
<1>3. TypeOK /\ AnswerableInv /\ [Next]_vars =>
        [\A a \in answers \ answers' : status'[a.cmd] \in {"acked", "dead"}]_vars
  <2> SUFFICES ASSUME TypeOK, AnswerableInv, [Next]_vars, NEW a \in answers \ answers'
               PROVE  status'[a.cmd] \in {"acked", "dead"}
    OBVIOUS
  <2>1. PICK b \in answers : AnswerApplied(b)
    BY AnswersKept
  <2>2. a = b
    BY <2>1 DEF AnswerApplied
  <2>3. a.cmd \in Command /\ status[a.cmd] # "none"
        /\ (status[a.cmd] \in {"transmitting", "acked", "dead"} \/ sentAt[a.cmd] # "none")
    BY DEF AnswerableInv, TypeOK, Answer
  <2>4. CASE Answerable(a.cmd)
    BY <2>1, <2>2, <2>3, <2>4 DEF AnswerApplied, TypeOK
  <2>5. CASE ~Answerable(a.cmd)
    <3>1. status[a.cmd] \in {"acked", "dead"}
      BY <2>3, <2>5 DEF Answerable
    <3>2. UNCHANGED status
      BY <2>1, <2>2, <2>5 DEF AnswerApplied
    <3> QED BY <3>1, <3>2
  <2> QED BY <2>4, <2>5
<1> QED
  BY <1>1, <1>2, <1>3, TypeCorrect, PTL DEF Spec, AnswersNotDropped


-----------------------------------------------------------------------------
(* CommandDelivery: keys at one end, memory at the other *)

\* The satellite has the answer to command c in its memory.
Remembers(c) == \E n \in 1..Len(done) : done[n] = c

\* UNIQUE (idempotency_key).
UniqueKeys == \A c, d \in table : KeyOf[commands[c]] = KeyOf[commands[d]] => c = d

\* Everybody was told of a command of their own.
ToldOwn == \A a \in told : commands[a[2]] = a[1]

\* A command was executed as often as it was forgotten, and once more while it is remembered.
Counted ==
  \A c \in CommandId :
    /\ Remembers(c) => effects[c] = forgotten[c] + 1
    /\ ~Remembers(c) => effects[c] = forgotten[c]

NoCopies == \A m, n \in 1..Len(done) : done[m] = done[n] => m = n

IntakeInv == IntakeOK /\ UniqueKeys /\ ToldOwn
UplinkInv == UplinkOK /\ Counted /\ NoCopies

\* The commands' numbers are those of their places in the list.
LEMMA IssuedNumbers ==
  ASSUME IntakeOK
  PROVE  Issued = 1..Len(commands) /\ Len(commands) \in Nat /\ Issued \subseteq CommandId
<1>1. commands \in Seq(Intent) /\ Len(commands) <= MaxCommands /\ MaxCommands \in Nat
  BY IntakeAssumption DEF IntakeOK
<1>2. Issued = 1..Len(commands) /\ Len(commands) \in Nat
  BY <1>1, LenProperties DEF Issued
<1> QED BY <1>1, <1>2, IdAssumption

\* The command that holds the key answers for it, to those who asked for that very command
\* (commands.py, _replay_of).
LEMMA ReplayKeeps ==
  ASSUME IntakeInv, NEW q \in Call, call[q] # Idle, Replay(q),
         UNCHANGED <<registered, commands, table, submitted>>
  PROVE  IntakeInv'
<1> USE DEF IntakeInv, IntakeOK
<1>1. call[q].intent \in Intent
  OBVIOUS
<1>2. PICK c \in Holders(KeyOf[call[q].intent]) :
        told' = IF Same(c, call[q].intent) THEN told \cup {<<call[q].intent, c>>} ELSE told
  BY DEF Replay
<1>3. c \in Issued
  BY <1>2 DEF Holders
<1>4. told' \subseteq Intent \X Issued /\ ToldOwn'
  <2>1. CASE Same(c, call[q].intent)
    BY <1>1, <1>2, <1>3, <2>1 DEF ToldOwn, Same
  <2>2. CASE ~Same(c, call[q].intent)
    BY <1>2, <2>2 DEF ToldOwn
  <2> QED BY <2>1, <2>2
<1>5. call' = [call EXCEPT ![q] = Idle]
  BY DEF Replay, Goes
<1>6. UniqueKeys'
  BY DEF UniqueKeys
<1> QED BY <1>4, <1>5, <1>6 DEF Issued

\* A step of a request that touches no table.
LEMMA CallMoves ==
  ASSUME IntakeInv, NEW q \in Call, UNCHANGED <<registered, commands, table, told>>,
         submitted' \in 0..MaxRequests,
         NEW r \in {Idle} \cup [pc : {"lookup", "checks", "insert", "again"}, intent : Intent],
         Goes(q, r)
  PROVE  IntakeInv'
  BY DEF IntakeInv, IntakeOK, Goes, UniqueKeys, ToldOwn, Issued

\* Further on its way, a request stays what it is.
LEMMA CallProceeds ==
  ASSUME IntakeInv, NEW q \in Call, call[q] # Idle, NEW at \in {"checks", "insert", "again"},
         Proceeds(q, at), UNCHANGED <<registered, commands, table, told, submitted>>
  PROVE  IntakeInv'
<1> DEFINE r == [call[q] EXCEPT !.pc = at]
<1>1. call[q] \in [pc : {"lookup", "checks", "insert", "again"}, intent : Intent]
  BY DEF IntakeInv, IntakeOK
<1>2. r \in [pc : {"lookup", "checks", "insert", "again"}, intent : Intent]
  BY <1>1
<1>3. Goes(q, r) /\ submitted' \in 0..MaxRequests
  BY DEF Proceeds, IntakeInv, IntakeOK
<1> HIDE DEF r
<1> QED BY <1>2, <1>3, CallMoves

\* INSERT: a new number, and a key that nobody holds.
LEMMA InsertKeeps ==
  ASSUME IntakeInv, NEW q \in Call, call[q] # Idle, Unknown(q), Len(commands) < MaxCommands,
         commands' = Append(commands, call[q].intent),
         table' = table \cup {Len(commands')},
         told' = told \cup {<<call[q].intent, Len(commands')>>},
         Goes(q, Idle), UNCHANGED <<registered, submitted>>
  PROVE  IntakeInv'
<1> USE DEF IntakeInv, IntakeOK
<1> DEFINE i == call[q].intent
           new == Len(commands) + 1
<1>1. i \in Intent
  OBVIOUS
<1>2. /\ Issued = 1..Len(commands) /\ Len(commands) \in Nat /\ MaxCommands \in Nat
      /\ new \in Nat /\ new \notin Issued
  BY IssuedNumbers, IntakeAssumption
<1> HIDE DEF i
<1>3. /\ commands' \in Seq(Intent) /\ Len(commands') = new /\ commands'[new] = i
      /\ \A c \in Issued : commands'[c] = commands[c]
  <2>1. commands' = Append(commands, i)
    BY DEF i
  <2> QED BY <1>1, <1>2, <2>1, AppendProperties
<1>4. Issued' = 1..new /\ Issued \subseteq Issued' /\ new \in Issued'
  <2>1. Issued' = 1..Len(commands')
    BY <1>3, LenProperties DEF Issued
  <2> QED BY <1>2, <1>3, <2>1
<1>5. table' = table \cup {new} /\ told' = told \cup {<<i, new>>}
  BY <1>3 DEF i
<1> HIDE DEF new
<1>6. table' \subseteq Issued' /\ told' \subseteq Intent \X Issued'
  <2>1. table \subseteq Issued /\ told \subseteq Intent \X Issued
    OBVIOUS
  <2>2. table' \subseteq Issued'
    BY <1>4, <1>5, <2>1, Zenon
  <2>3. told \subseteq Intent \X Issued' /\ <<i, new>> \in Intent \X Issued'
    BY <1>1, <1>4, <2>1
  <2> QED BY <1>5, <2>2, <2>3, Zenon
<1>7. UniqueKeys'
  <2>1. \A c \in table : KeyOf[commands[c]] # KeyOf[i]
    BY DEF Unknown, Holders, i
  <2>2. \A c \in table : commands'[c] = commands[c]
    BY <1>3
  <2> SUFFICES ASSUME NEW c \in table', NEW d \in table',
                      KeyOf[commands'[c]] = KeyOf[commands'[d]]
               PROVE  c = d
    BY DEF UniqueKeys
  <2>3. (c \in table \/ c = new) /\ (d \in table \/ d = new)
    BY <1>5, Zenon
  <2>4. c \in table /\ d \in table => c = d
    BY <2>2 DEF UniqueKeys
  <2>5. ~(c \in table /\ d = new) /\ ~(d \in table /\ c = new)
    BY <1>3, <2>1, <2>2
  <2> QED BY <2>3, <2>4, <2>5
<1>8. ToldOwn'
  <2> SUFFICES ASSUME NEW a \in told' PROVE commands'[a[2]] = a[1]
    BY DEF ToldOwn
  <2>1. CASE a \in told
    <3>1. a[2] \in Issued
      BY <2>1
    <3> QED BY <1>3, <2>1, <3>1 DEF ToldOwn
  <2>2. CASE a = <<i, new>>
    BY <1>3, <2>2
  <2> QED BY <1>5, <2>1, <2>2
<1>9. call' \in [Call -> {Idle} \cup
                   [pc : {"lookup", "checks", "insert", "again"}, intent : Intent]]
  BY DEF Goes
<1>10. Len(commands') <= MaxCommands
  BY <1>2, <1>3 DEF new
<1> QED BY <1>3, <1>6, <1>7, <1>8, <1>9, <1>10

\* Every step of a request, and the satellite that comes and goes (commands.py).
LEMMA IntakeStep == ASSUME IntakeInv, IntakeNext PROVE IntakeInv'
<1>0. Idle.pc = "idle"
  BY DEF Idle
<1>1. ASSUME NEW q \in Call, NEW i \in Intent, Submit(q, i) PROVE IntakeInv'
  <2>1. submitted' \in 0..MaxRequests
    BY <1>1, IntakeAssumption DEF Submit, IntakeInv, IntakeOK
  <2> QED BY <1>1, <2>1, CallMoves DEF Submit
<1>2. ASSUME NEW q \in Call, Lookup(q) PROVE IntakeInv'
  <2>1. call[q] # Idle
    BY <1>0, <1>2 DEF Lookup, At
  <2> QED BY <1>2, <2>1, ReplayKeeps, CallProceeds DEF Lookup
<1>3. ASSUME NEW q \in Call, Checks(q) PROVE IntakeInv'
  <2>1. call[q] # Idle /\ submitted' \in 0..MaxRequests
    BY <1>0, <1>3 DEF Checks, At, IntakeInv, IntakeOK
  <2> QED BY <1>3, <2>1, CallMoves, CallProceeds DEF Checks
<1>4. ASSUME NEW q \in Call, Insert(q) PROVE IntakeInv'
  <2>1. call[q] # Idle /\ submitted' \in 0..MaxRequests
    BY <1>0, <1>4 DEF Insert, At, IntakeInv, IntakeOK
  <2> QED BY <1>4, <2>1, InsertKeeps, CallMoves, CallProceeds DEF Insert
<1>5. ASSUME NEW q \in Call, LookupAgain(q) PROVE IntakeInv'
  <2>1. call[q] # Idle /\ submitted' \in 0..MaxRequests
    BY <1>0, <1>5 DEF LookupAgain, At, IntakeInv, IntakeOK
  <2> QED BY <1>5, <2>1, ReplayKeeps, CallMoves DEF LookupAgain
<1>6. ASSUME NEW q \in Call, Dropped(q) PROVE IntakeInv'
  <2>1. submitted' \in 0..MaxRequests
    BY <1>6 DEF Dropped, IntakeInv, IntakeOK
  <2> QED BY <1>6, <2>1, CallMoves DEF Dropped
<1>7. CASE DeleteSatellite
  BY <1>7 DEF DeleteSatellite, IntakeInv, IntakeOK, UniqueKeys, ToldOwn, Issued
<1>8. CASE CreateSatellite
  BY <1>8 DEF CreateSatellite, IntakeInv, IntakeOK, UniqueKeys, ToldOwn, Issued
<1> QED BY <1>1, <1>2, <1>3, <1>4, <1>5, <1>6, <1>7, <1>8 DEF IntakeNext

\* The satellite hears of a command that it does not remember: it executes it, and the oldest
\* answer makes room if need be (simulator/src/commands.py, execute).
LEMMA ExecuteCounts ==
  ASSUME UplinkInv, NEW c \in CommandId, ~Remembers(c), Execute(c)
  PROVE  /\ done' \in Seq(CommandId) /\ Len(done') <= History
         /\ effects' \in [CommandId -> Nat] /\ forgotten' \in [CommandId -> Nat]
         /\ Counted' /\ NoCopies'
<1>1. /\ done \in Seq(CommandId) /\ Len(done) \in Nat /\ Len(done) <= History
      /\ History \in Nat /\ History > 0
      /\ effects \in [CommandId -> Nat] /\ forgotten \in [CommandId -> Nat]
      /\ \A n \in 1..Len(done) : done[n] \in CommandId /\ done[n] # c
      /\ \A m, n \in 1..Len(done) : done[m] = done[n] => m = n
  BY UplinkAssumption, LenProperties DEF UplinkInv, UplinkOK, NoCopies, Remembers
<1>2. /\ effects' \in [CommandId -> Nat] /\ effects'[c] = effects[c] + 1
      /\ \A d \in CommandId \ {c} : effects'[d] = effects[d]
  BY <1>1 DEF Execute
<1>3. CASE Len(done) < History
  <2>1. done' = Append(done, c) /\ forgotten' = forgotten
    BY <1>3 DEF Execute
  <2>2. /\ done' \in Seq(CommandId) /\ Len(done') = Len(done) + 1
        /\ \A n \in 1..Len(done) : done'[n] = done[n]
        /\ done'[Len(done) + 1] = c
    BY <1>1, <2>1, AppendProperties
  <2>3. \A n \in 1..Len(done') : n \in 1..Len(done) \/ n = Len(done) + 1
    BY <1>1, <2>2
  <2>4. NoCopies'
    <3> SUFFICES ASSUME NEW m \in 1..Len(done'), NEW n \in 1..Len(done'), done'[m] = done'[n]
                 PROVE  m = n
      BY DEF NoCopies
    <3> QED BY <1>1, <2>2, <2>3
  <2>5. Remembers(c)' /\ \A d \in CommandId \ {c} : Remembers(d)' <=> Remembers(d)
    <3>1. Len(done) + 1 \in 1..Len(done')
      BY <1>1, <2>2
    <3>2. 1..Len(done) \subseteq 1..Len(done')
      BY <1>1, <2>2
    <3>3. Remembers(c)'
      BY <2>2, <3>1 DEF Remembers
    <3>4. ASSUME NEW d \in CommandId \ {c} PROVE Remembers(d)' <=> Remembers(d)
      BY <2>2, <2>3, <3>2 DEF Remembers
    <3> QED BY <3>3, <3>4
  <2>6. Counted'
    BY <1>1, <1>2, <2>1, <2>5 DEF UplinkInv, Counted
  <2> QED BY <1>1, <1>2, <1>3, <2>1, <2>2, <2>4, <2>6
<1>4. CASE Len(done) = History
  <2> DEFINE rest == Tail(done)
  <2>0. done # <<>> /\ 1 \in 1..Len(done) /\ Len(done) \in 1..Len(done)
    BY <1>1, <1>4
  <2> PICK old \in CommandId : old = Head(done)
    BY <1>1, <2>0, HeadTailProperties
  <2>1. done' = Append(rest, c) /\ Forgets({old})
    BY <1>1, <1>4 DEF Execute
  <2>2. /\ old = done[1] /\ old \in CommandId /\ old # c
        /\ rest \in Seq(CommandId) /\ Len(rest) = Len(done) - 1
        /\ \A n \in 1..(Len(done) - 1) : rest[n] = done[n + 1]
    <3>1. rest \in Seq(CommandId) /\ Len(rest) = Len(done) - 1
          /\ \A n \in 1..Len(rest) : rest[n] = done[n + 1]
      BY <1>1, <2>0, HeadTailProperties
    <3>2. old = done[1]
      BY <1>1, <2>0
    <3> QED BY <1>1, <2>0, <3>1, <3>2
  <2> HIDE DEF rest
  <2>3. /\ done' \in Seq(CommandId) /\ Len(done') = Len(done)
        /\ \A n \in 1..(Len(done) - 1) : done'[n] = done[n + 1]
        /\ done'[Len(done)] = c
    <3>1. /\ done' \in Seq(CommandId) /\ Len(done') = Len(rest) + 1
          /\ \A n \in 1..Len(rest) : done'[n] = rest[n]
          /\ done'[Len(rest) + 1] = c
      BY <2>1, <2>2, AppendProperties
    <3>2. Len(rest) = Len(done) - 1 /\ Len(rest) + 1 = Len(done)
      BY <1>1, <2>2
    <3> QED BY <2>2, <3>1, <3>2
  <2>4. \A n \in 1..Len(done) : n \in 1..(Len(done) - 1) \/ n = Len(done)
    BY <1>1
  <2>5. \A n \in 1..(Len(done) - 1) : n + 1 \in 1..Len(done) /\ n + 1 # 1
    BY <1>1
  <2>6. NoCopies'
    <3> SUFFICES ASSUME NEW m \in 1..Len(done'), NEW n \in 1..Len(done'), done'[m] = done'[n]
                 PROVE  m = n
      BY DEF NoCopies
    <3>1. m \in 1..Len(done) /\ n \in 1..Len(done)
      BY <2>3
    <3>2. ASSUME NEW k \in 1..(Len(done) - 1) PROVE done'[k] = done[k + 1] /\ done'[k] # c
      BY <1>1, <2>3, <2>5
    <3>3. CASE m # Len(done) /\ n # Len(done)
      <4>1. m \in 1..(Len(done) - 1) /\ n \in 1..(Len(done) - 1)
        BY <2>4, <3>1, <3>3
      <4>2. done[m + 1] = done[n + 1] /\ m + 1 \in 1..Len(done) /\ n + 1 \in 1..Len(done)
        BY <2>5, <3>2, <4>1
      <4>3. m + 1 = n + 1
        BY <1>1, <4>2
      <4> QED BY <4>1, <4>3
    <3> QED BY <2>3, <2>4, <3>1, <3>2, <3>3
  <2>7. Remembers(c)' /\ ~Remembers(old)' /\ Remembers(old)
    <3>1. 1 \in 1..Len(done) /\ Len(done) \in 1..Len(done')
      BY <2>0, <2>3
    <3>2. Remembers(c)' /\ Remembers(old)
      BY <2>2, <2>3, <3>1 DEF Remembers
    <3>3. ~Remembers(old)'
      <4> SUFFICES ASSUME NEW n \in 1..Len(done'), done'[n] = old PROVE FALSE
        BY DEF Remembers
      <4> QED BY <1>1, <2>2, <2>3, <2>4, <2>5, <3>1
    <3> QED BY <3>2, <3>3
  <2>8. ASSUME NEW d \in CommandId \ {c, old} PROVE Remembers(d)' <=> Remembers(d)
    <3>1. ASSUME Remembers(d) PROVE Remembers(d)'
      <4>1. PICK n \in 1..Len(done) : done[n] = d
        BY <3>1 DEF Remembers
      <4>2. n # 1 /\ n - 1 \in 1..(Len(done) - 1) /\ (n - 1) + 1 = n
        BY <1>1, <2>2, <4>1
      <4>3. PICK k \in 1..(Len(done) - 1) : k + 1 = n
        BY <4>2
      <4>4. done'[k] = d
        BY <2>3, <4>1, <4>3
      <4>5. k \in 1..Len(done')
        BY <1>1, <2>3
      <4> QED BY <4>4, <4>5 DEF Remembers
    <3>2. ASSUME Remembers(d)' PROVE Remembers(d)
      <4>1. PICK n \in 1..Len(done') : done'[n] = d
        BY <3>2 DEF Remembers
      <4>2. n \in 1..(Len(done) - 1)
        BY <2>3, <2>4, <4>1
      <4>3. done[n + 1] = d /\ n + 1 \in 1..Len(done)
        BY <2>3, <2>5, <4>1, <4>2
      <4> QED BY <4>3 DEF Remembers
    <3> QED BY <3>1, <3>2
  <2>9. /\ forgotten' \in [CommandId -> Nat] /\ forgotten'[old] = forgotten[old] + 1
        /\ \A d \in CommandId \ {old} : forgotten'[d] = forgotten[d]
    BY <1>1, <2>1, <2>2 DEF Forgets
  <2>10. Counted'
    <3> SUFFICES ASSUME NEW d \in CommandId
                 PROVE  /\ Remembers(d)' => effects'[d] = forgotten'[d] + 1
                        /\ ~Remembers(d)' => effects'[d] = forgotten'[d]
      BY DEF Counted
    <3>0. /\ Remembers(d) => effects[d] = forgotten[d] + 1
          /\ ~Remembers(d) => effects[d] = forgotten[d]
      BY DEF UplinkInv, Counted
    <3>1. CASE d = c
      <4>1. effects'[d] = forgotten'[d] + 1
        BY <1>1, <1>2, <2>2, <2>9, <3>0, <3>1
      <4> QED BY <2>7, <3>1, <4>1
    <3>2. CASE d = old
      <4>1. effects'[d] = forgotten'[d]
        BY <1>1, <1>2, <2>2, <2>7, <2>9, <3>0, <3>2
      <4> QED BY <2>7, <3>2, <4>1
    <3>3. CASE d \notin {c, old}
      <4>1. effects'[d] = effects[d] /\ forgotten'[d] = forgotten[d]
        BY <1>2, <2>9, <3>3
      <4> QED BY <2>8, <3>0, <3>3, <4>1
    <3> QED BY <3>1, <3>2, <3>3
  <2> QED BY <1>1, <1>2, <1>4, <2>3, <2>6, <2>9, <2>10
<1> QED BY <1>1, <1>3, <1>4

\* Every step of the executor's publications and of the satellite's listener
\* (service.py, simulator/src/commands.py).
LEMMA UplinkStep ==
  ASSUME UplinkInv, (\E c \in CommandId : Uplink(c)) \/ Hear \/ SendAnswer \/ Reboot
  PROVE  UplinkInv'
<1> USE DEF UplinkInv, UplinkOK
<1>0. /\ Len(wire) \in Nat /\ Len(done) \in Nat /\ MaxSends \in Nat /\ sent \in Nat
      /\ History \in Nat
  BY UplinkAssumption, LenProperties
<1>1. ASSUME NEW c \in CommandId, Uplink(c) PROVE UplinkInv'
  <2>1. sent' \in 0..MaxSends /\ sent' = sent + 1
    BY <1>0, <1>1 DEF Uplink
  <2>2. wire' \in Seq(CommandId) /\ Len(wire') <= sent'
    <3>1. Append(wire, c) \in Seq(CommandId) /\ Len(Append(wire, c)) = Len(wire) + 1
      BY AppendProperties
    <3>2. wire' = Append(wire, c) \/ wire' = wire
      BY <1>1 DEF Uplink
    <3>3. wire' \in Seq(CommandId)
      BY <3>1, <3>2
    <3>4. Len(wire') = Len(wire) + 1 \/ Len(wire') = Len(wire)
      BY <3>1, <3>2
    <3>5. Len(wire) <= sent
      OBVIOUS
    <3>6. Len(wire') <= sent'
      BY <1>0, <2>1, <3>4, <3>5
    <3> QED BY <3>3, <3>6
  <2>3. Counted' /\ NoCopies'
    BY <1>1 DEF Uplink, Counted, NoCopies, Remembers
  <2> QED BY <1>1, <2>1, <2>2, <2>3 DEF Uplink
<1>2. CASE Hear
  <2> DEFINE c == Head(wire)
  <2>1. c \in CommandId /\ Tail(wire) \in Seq(CommandId) /\ Len(Tail(wire)) = Len(wire) - 1
    BY <1>2, HeadTailProperties DEF Hear
  <2>2. /\ wire' = Tail(wire) /\ answering' = <<c>> /\ sent' = sent
        /\ IF Contains(done, c) THEN UNCHANGED <<done, effects, forgotten>> ELSE Execute(c)
    BY <1>2 DEF Hear
  <2> HIDE DEF c
  <2>3. wire' \in Seq(CommandId) /\ Len(wire') <= sent'
    BY <1>0, <2>1, <2>2
  <2>4. answering' \in Seq(CommandId) /\ Len(answering') <= 1
    BY <2>1, <2>2
  <2>5. CASE Contains(done, c)
    <3>1. Counted' /\ NoCopies'
      BY <2>2, <2>5 DEF Counted, NoCopies, Remembers
    <3> QED BY <2>2, <2>3, <2>4, <2>5, <3>1
  <2>6. CASE ~Contains(done, c)
    <3>1. ~Remembers(c)
      BY <2>6 DEF Contains, Remembers
    <3>2. /\ done' \in Seq(CommandId) /\ Len(done') <= History
          /\ effects' \in [CommandId -> Nat] /\ forgotten' \in [CommandId -> Nat]
          /\ Counted' /\ NoCopies'
      BY <2>1, <2>2, <2>6, <3>1, ExecuteCounts
    <3> QED BY <2>2, <2>3, <2>4, <3>2
  <2> QED BY <2>5, <2>6
<1>3. CASE SendAnswer
  BY <1>3 DEF SendAnswer, Counted, NoCopies, Remembers
<1>4. CASE Reboot
  <2>1. /\ done' = <<>> /\ wire' = <<>> /\ answering' = <<>> /\ UNCHANGED <<sent, effects>>
        /\ Forgets(ToSet(done))
    BY <1>4 DEF Reboot
  <2>2. \A c \in CommandId : c \in ToSet(done) <=> Remembers(c)
    <3>1. DOMAIN done = 1..Len(done)
      BY LenProperties
    <3> QED BY <3>1 DEF ToSet, Remembers
  <2>3. \A c \in CommandId : ~Remembers(c)'
    BY <2>1 DEF Remembers
  <2>4. /\ forgotten' \in [CommandId -> Nat]
        /\ \A c \in CommandId :
             forgotten'[c] = IF Remembers(c) THEN forgotten[c] + 1 ELSE forgotten[c]
    BY <2>1, <2>2 DEF Forgets
  <2>5. Counted'
    BY <2>1, <2>3, <2>4 DEF Counted
  <2>6. NoCopies' /\ Len(done') = 0
    BY <2>1 DEF NoCopies
  <2> QED BY <1>0, <2>1, <2>4, <2>5, <2>6
<1> QED BY <1>1, <1>2, <1>3, <1>4

DeliveryInv == IntakeInv /\ UplinkInv

\* At either end nothing is known at first.
LEMMA DeliveryStarts == ASSUME DeliveryInit PROVE DeliveryInv
<1>1. commands = <<>> /\ Len(commands) = 0 /\ commands \in Seq(Intent)
  BY DEF DeliveryInit, IntakeInit
<1>2. IntakeInv
  BY <1>1, IntakeAssumption
     DEF DeliveryInit, IntakeInit, IntakeInv, IntakeOK, UniqueKeys, ToldOwn
<1>3. Len(done) = 0 /\ Len(wire) = 0 /\ Len(answering) = 0
  BY DEF DeliveryInit, UplinkInit
<1>4. UplinkInv
  BY <1>3, UplinkAssumption
     DEF DeliveryInit, UplinkInit, UplinkInv, UplinkOK, Counted, NoCopies, Remembers
<1> QED BY <1>2, <1>4 DEF DeliveryInv

\* In every reachable state keys are unique and every execution is accounted for
\* (commands.py, simulator/src/commands.py).
LEMMA DeliveryInvariant == DeliverySpec => []DeliveryInv
<1>1. DeliveryInit => DeliveryInv
  BY DeliveryStarts
<1>2. DeliveryInv /\ [DeliveryNext]_deliveryVars => DeliveryInv'
  <2> SUFFICES ASSUME DeliveryInv, [DeliveryNext]_deliveryVars PROVE DeliveryInv'
    OBVIOUS
  <2> USE DEF DeliveryInv
  <2>1. UNCHANGED intakeVars => IntakeInv'
    BY DEF intakeVars, IntakeInv, IntakeOK, UniqueKeys, ToldOwn, Issued
  <2>2. UNCHANGED uplinkVars => UplinkInv'
    BY DEF uplinkVars, UplinkInv, UplinkOK, Counted, NoCopies, Remembers
  <2>3. CASE IntakeNext /\ UNCHANGED uplinkVars
    BY <2>2, <2>3, IntakeStep
  <2>4. CASE /\ (\E c \in Issued : Uplink(c)) \/ Hear \/ SendAnswer \/ Reboot
             /\ UNCHANGED intakeVars
    <3>1. Issued \subseteq CommandId
      BY IssuedNumbers DEF IntakeInv
    <3> QED BY <2>1, <2>4, <3>1, UplinkStep
  <2>5. CASE UNCHANGED deliveryVars
    BY <2>1, <2>2, <2>5 DEF deliveryVars
  <2> QED BY <2>3, <2>4, <2>5 DEF DeliveryNext
<1> QED BY <1>1, <1>2, PTL DEF DeliverySpec

\* Requests, commands, messages and what the satellite remembers keep their types, and no
\* command gets a number twice (commands.py, simulator/src/commands.py).
THEOREM DeliveryTypeCorrect == DeliverySpec => []DeliveryOK
  BY DeliveryInvariant, PTL DEF DeliveryInv, IntakeInv, UplinkInv, DeliveryOK

\* However often a request is repeated and its command published: as long as a command has
\* its row it is the only one for its request, and the satellite executes each command once,
\* and once more for every time it forgot that (commands.py:50, simulator/src/commands.py:10).
THEOREM OnceForEveryIntent == DeliverySpec => []OncePerIntent
<1>1. DeliveryInv => OncePerIntent
  <2> SUFFICES ASSUME DeliveryInv, NEW i \in Intent
               PROVE  /\ \A c, d \in CommandsFor(i) \cap table : c = d
                      /\ \A c \in CommandsFor(i) : effects[c] <= 1 + forgotten[c]
    BY DEF OncePerIntent
  <2> USE DEF DeliveryInv
  <2>1. \A c, d \in CommandsFor(i) \cap table : c = d
    BY DEF CommandsFor, IntakeInv, UniqueKeys
  <2>2. CommandsFor(i) \subseteq CommandId
    BY IssuedNumbers DEF CommandsFor, IntakeInv
  <2>3. \A c \in CommandId : effects[c] <= 1 + forgotten[c]
    <3> SUFFICES ASSUME NEW c \in CommandId PROVE effects[c] <= 1 + forgotten[c]
      OBVIOUS
    <3>1. effects[c] \in Nat /\ forgotten[c] \in Nat
      BY DEF UplinkInv, UplinkOK
    <3>2. effects[c] = forgotten[c] \/ effects[c] = forgotten[c] + 1
      BY DEF UplinkInv, Counted
    <3> QED BY <3>1, <3>2
  <2> QED BY <2>1, <2>2, <2>3
<1> QED BY <1>1, DeliveryInvariant, PTL

\* Whoever repeats a request is told of the one command it stands for while that has a row,
\* and nobody is told of somebody else's command (commands.py:96, :117).
THEOREM EverybodyIsToldOwn == DeliverySpec => []AnswersAgree
<1>1. DeliveryInv => AnswersAgree
  <2> SUFFICES ASSUME DeliveryInv, NEW a \in told, NEW b \in told
               PROVE  /\ commands[a[2]] = a[1]
                      /\ (a[1] = b[1] /\ a[2] \in table /\ b[2] \in table) => a[2] = b[2]
    BY DEF AnswersAgree
  <2>1. commands[a[2]] = a[1] /\ commands[b[2]] = b[1]
    BY DEF DeliveryInv, IntakeInv, ToldOwn
  <2> QED BY <2>1 DEF DeliveryInv, IntakeInv, UniqueKeys
<1> QED BY <1>1, DeliveryInvariant, PTL
=============================================================================
