--------------------------- MODULE CommandDelivery --------------------------
(***************************************************************************)
(* From the client to the satellite: submission under idempotency keys at  *)
(* one end, duplicate suppression at the other, and in between a scheduler *)
(* that may publish what it was given any number of times.                 *)
(***************************************************************************)
EXTENDS CommandIntake, CommandUplink

ASSUME IdAssumption == 1..MaxCommands \subseteq CommandId

deliveryVars == <<intakeVars, uplinkVars>>

DeliveryOK == IntakeOK /\ UplinkOK

DeliveryInit == IntakeInit /\ UplinkInit

\* The executor may have claimed a row before it was deleted.
DeliveryNext ==
  \/ IntakeNext /\ UNCHANGED uplinkVars
  \/ /\ (\E c \in Issued : Uplink(c)) \/ Hear \/ SendAnswer \/ Reboot
     /\ UNCHANGED intakeVars

DeliverySpec == DeliveryInit /\ [][DeliveryNext]_deliveryVars

-----------------------------------------------------------------------------
CommandsFor(i) == {c \in Issued : commands[c] = i}

\* However often a request is repeated and its command published: as long as a command has
\* its row it is the only one for its request, and the satellite executes each command once,
\* and once more for every time it forgot that (commands.py:50, simulator/src/commands.py:10).
OncePerIntent ==
  \A i \in Intent :
    /\ \A c, d \in CommandsFor(i) \cap table : c = d
    /\ \A c \in CommandsFor(i) : effects[c] <= 1 + forgotten[c]

\* Whoever repeats a request is told of the one command it stands for while that has a
\* row, and nobody is told of somebody else's command (commands.py:96, :117).
AnswersAgree ==
  \A a, b \in told :
    /\ commands[a[2]] = a[1]
    /\ (a[1] = b[1] /\ a[2] \in table /\ b[2] \in table) => a[2] = b[2]
=============================================================================
