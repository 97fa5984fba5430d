---------------------------- MODULE CommandUplink ---------------------------
(***************************************************************************)
(* The receiving end of the uplink, as the simulated satellite implements  *)
(* it (simulator/src/commands.py): it executes a command when it hears of  *)
(* it first, remembers its answer, and repeats the answer when the command *)
(* comes again.  What it remembers is bounded and lost in a restart.       *)
(* Messages that nobody listens to are gone.                               *)
(***************************************************************************)
EXTENDS Naturals, Sequences, SequencesExt

CONSTANTS
  CommandId,
  History,      \* _HISTORY
  MaxSends      \* bound: publications

ASSUME UplinkAssumption == {History, MaxSends} \subseteq Nat /\ History > 0

VARIABLES
  sent,         \* how often the executor has published
  wire,         \* messages on commands.<satellite>, in order
  done,         \* _done: the ids it remembers, the oldest first
  answering,    \* the answers whose publication the callback waits for
  effects,      \* how often each command was executed
  forgotten     \* how often a command it had executed was forgotten

uplinkVars == <<sent, wire, done, answering, effects, forgotten>>

UplinkOK ==
  /\ sent \in 0..MaxSends
  /\ wire \in Seq(CommandId) /\ Len(wire) <= sent
  /\ done \in Seq(CommandId) /\ Len(done) <= History
  /\ answering \in Seq(CommandId) /\ Len(answering) <= 1
  /\ effects \in [CommandId -> Nat]
  /\ forgotten \in [CommandId -> Nat]

UplinkInit ==
  /\ sent = 0
  /\ wire = <<>>
  /\ done = <<>>
  /\ answering = <<>>
  /\ effects = [c \in CommandId |-> 0]
  /\ forgotten = [c \in CommandId |-> 0]

\* The executor publishes (CommandScheduler); the listener may be away.
Uplink(c) ==
  /\ sent < MaxSends
  /\ sent' = sent + 1
  /\ wire' = Append(wire, c) \/ UNCHANGED wire
  /\ UNCHANGED <<done, answering, effects, forgotten>>

Forgets(ids) ==
  forgotten' = [c \in CommandId |-> IF c \in ids THEN forgotten[c] + 1 ELSE forgotten[c]]

\* Mutant: a refused command is not remembered.
ExecuteUnlessRefused(c) ==
  /\ effects' = [effects EXCEPT ![c] = @ + 1]
  /\ IF Len(done) < History
       THEN done' \in {done, Append(done, c)} /\ UNCHANGED forgotten
       ELSE done' = Append(Tail(done), c) /\ Forgets({Head(done)})

\* execute() of a command it does not remember; a refusal counts as the answer too.
Execute(c) ==
  /\ effects' = [effects EXCEPT ![c] = @ + 1]
  /\ IF Len(done) < History
       THEN done' = Append(done, c) /\ UNCHANGED forgotten
       ELSE done' = Append(Tail(done), c) /\ Forgets({Head(done)})

\* One callback at a time: execution, then the answer is on its way.
Hear ==
  /\ wire # <<>>
  /\ answering = <<>>
  /\ wire' = Tail(wire)
  /\ IF Contains(done, Head(wire)) THEN UNCHANGED <<done, effects, forgotten>>
                                   ELSE Execute(Head(wire))
  /\ answering' = <<Head(wire)>>
  /\ UNCHANGED sent

\* The answer is published or lost; a lost one is asked for again by the retry.
SendAnswer ==
  /\ answering # <<>>
  /\ answering' = <<>>
  /\ UNCHANGED <<sent, wire, done, effects, forgotten>>

\* The process stops and starts again: its memory and its subscription are new.
Reboot ==
  /\ Forgets(ToSet(done))
  /\ wire' = <<>>
  /\ done' = <<>>
  /\ answering' = <<>>
  /\ UNCHANGED <<sent, effects>>
=============================================================================
