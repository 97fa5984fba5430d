---------------------------- MODULE CommandIntake ---------------------------
(***************************************************************************)
(* Submission of commands under idempotency keys (api/routes/commands.py): *)
(* a client that got no answer sends its request again, also while the     *)
(* first one is still being handled.  A request is known by its author,    *)
(* satellite, type and parameters: this is its intent.  A command is known *)
(* by its number.                                                          *)
(***************************************************************************)
EXTENDS Naturals, Sequences, FiniteSets

CONSTANTS
  Intent,       \* what somebody wants of the satellite
  KeyOf,        \* the idempotency key it is sent under
  Call,         \* requests being handled at the same time
  MaxCommands, MaxRequests   \* bounds

ASSUME IntakeAssumption ==
  /\ DOMAIN KeyOf = Intent
  /\ {MaxCommands, MaxRequests} \subseteq Nat

VARIABLES
  registered,   \* the satellite has a row
  commands,     \* the intent of every command there has been
  table,        \* the commands that still have a row
  call,         \* what each request is about to do
  submitted,    \* how many requests there have been
  told          \* which command each request was answered with, by intent

intakeVars == <<registered, commands, table, call, submitted, told>>

Issued == DOMAIN commands
Idle == [pc |-> "idle"]

IntakeOK ==
  /\ registered \in BOOLEAN
  /\ commands \in Seq(Intent) /\ Len(commands) <= MaxCommands
  /\ table \subseteq Issued
  /\ call \in [Call -> {Idle} \cup
                        [pc : {"lookup", "checks", "insert", "again"}, intent : Intent]]
  /\ submitted \in 0..MaxRequests
  /\ told \subseteq Intent \X Issued

IntakeInit ==
  /\ registered = TRUE
  /\ commands = <<>>
  /\ table = {}
  /\ call = [q \in Call |-> Idle]
  /\ submitted = 0
  /\ told = {}

Goes(q, r) == call' = [call EXCEPT ![q] = r]
At(q, pc) == call[q].pc = pc
Proceeds(q, pc) == Goes(q, [call[q] EXCEPT !.pc = pc])

-----------------------------------------------------------------------------
Submit(q, i) ==
  /\ At(q, "idle")
  /\ submitted < MaxRequests
  /\ submitted' = submitted + 1
  /\ Goes(q, [pc |-> "lookup", intent |-> i])
  /\ UNCHANGED <<registered, commands, table, told>>

Holders(key) == {c \in table : KeyOf[commands[c]] = key}

Same(c, i) == commands[c] = i

\* _replay_of: the command with this key, to whom it belongs; 409 for everybody else.
Replay(q) ==
  /\ \E c \in Holders(KeyOf[call[q].intent]) :
       told' = IF Same(c, call[q].intent) THEN told \cup {<<call[q].intent, c>>} ELSE told
  /\ Goes(q, Idle)

Unknown(q) == Holders(KeyOf[call[q].intent]) = {}

Lookup(q) ==
  /\ At(q, "lookup")
  /\ \/ Replay(q)
     \/ Unknown(q) /\ Proceeds(q, "checks") /\ UNCHANGED told
  /\ UNCHANGED <<registered, commands, table, submitted>>

\* The satellite is looked up, then its mode is judged, which may go either way.
Checks(q) ==
  /\ At(q, "checks")
  /\ \/ registered /\ Proceeds(q, "insert")
     \/ Goes(q, Idle)
  /\ UNCHANGED <<registered, commands, table, submitted, told>>

\* Mutant: no UNIQUE constraint on the key.
InsertAnyway(q) ==
  /\ At(q, "insert")
  /\ Len(commands) < MaxCommands
  /\ commands' = Append(commands, call[q].intent)
  /\ table' = table \cup {Len(commands')}
  /\ told' = told \cup {<<call[q].intent, Len(commands')>>}
  /\ Goes(q, Idle)
  /\ UNCHANGED <<registered, submitted>>

\* The INSERT; another request may have won it, or the satellite may be gone (500).
Insert(q) ==
  /\ At(q, "insert")
  /\ \/ /\ Unknown(q) /\ registered
        /\ Len(commands) < MaxCommands
        /\ commands' = Append(commands, call[q].intent)
        /\ table' = table \cup {Len(commands')}
        /\ told' = told \cup {<<call[q].intent, Len(commands')>>}
        /\ Goes(q, Idle)
     \/ ~Unknown(q) /\ Proceeds(q, "again") /\ UNCHANGED <<commands, table, told>>
     \/ Unknown(q) /\ ~registered /\ Goes(q, Idle) /\ UNCHANGED <<commands, table, told>>
  /\ UNCHANGED <<registered, submitted>>

\* The winner's command; if it has gone meanwhile the violation is raised (500).
LookupAgain(q) ==
  /\ At(q, "again")
  /\ Replay(q) \/ (Unknown(q) /\ Goes(q, Idle) /\ UNCHANGED told)
  /\ UNCHANGED <<registered, commands, table, submitted>>

\* The process stops while it handles the request.
Dropped(q) ==
  /\ ~At(q, "idle")
  /\ Goes(q, Idle)
  /\ UNCHANGED <<registered, commands, table, submitted, told>>

\* delete_satellite takes its commands along (ON DELETE CASCADE).
DeleteSatellite ==
  /\ registered
  /\ registered' = FALSE
  /\ table' = {}
  /\ UNCHANGED <<commands, call, submitted, told>>

CreateSatellite ==
  /\ ~registered
  /\ registered' = TRUE
  /\ UNCHANGED <<commands, table, call, submitted, told>>

IntakeNext ==
  \/ \E q \in Call :
       \/ \E i \in Intent : Submit(q, i)
       \/ Lookup(q) \/ Checks(q) \/ Insert(q) \/ LookupAgain(q) \/ Dropped(q)
  \/ DeleteSatellite \/ CreateSatellite
=============================================================================
