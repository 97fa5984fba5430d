------------------------- MODULE CommandLifecycle --------------------------
(***************************************************************************)
(* What the command subsystem promises about one telecommand, with none of *)
(* its machinery: no database rows, no coroutines, no uplink windows.      *)
(*                                                                         *)
(*   phase[c]    where the command is in its life:                         *)
(*                 "new"   not submitted yet                               *)
(*                 "held"  waits for the second admin                      *)
(*                 "open"  released to the scheduler, not finished         *)
(*                 "acked", "dead"  finished                               *)
(*   flights[c]  how often it was put on the uplink (2 stands for "more    *)
(*               than once")                                               *)
(*   taken       the commands a transmitter holds, about to send them      *)
(*   critical, repeatable  the commands submitted as such                  *)
(*   signed      the commands a second admin has released                  *)
(*                                                                         *)
(* The promises: a finished command stays finished; only an open command   *)
(* is taken for transmission, so one that was cancelled or answered is not *)
(* started again; a critical command reaches the uplink only after the     *)
(* second signature; one that is not repeatable reaches it at most once.   *)
(***************************************************************************)
EXTENDS Naturals

CONSTANT Command

VARIABLES phase, flights, taken, critical, repeatable, signed

vars == <<phase, flights, taken, critical, repeatable, signed>>

Phase == {"new", "held", "open", "acked", "dead"}

Init ==
  /\ phase = [c \in Command |-> "new"]
  /\ flights = [c \in Command |-> 0]
  /\ taken = {}
  /\ critical = {}
  /\ repeatable = {}
  /\ signed = {}

Submit(c, isCritical, isRepeatable) ==
  /\ phase[c] = "new"
  /\ phase' = [phase EXCEPT ![c] = IF isCritical THEN "held" ELSE "open"]
  /\ critical' = IF isCritical THEN critical \cup {c} ELSE critical
  /\ repeatable' = IF isRepeatable THEN repeatable \cup {c} ELSE repeatable
  /\ UNCHANGED <<flights, taken, signed>>

Sign(c) ==
  /\ phase[c] = "held"
  /\ phase' = [phase EXCEPT ![c] = "open"]
  /\ signed' = signed \cup {c}
  /\ UNCHANGED <<flights, taken, critical, repeatable>>

(* The transmitter starts on the command, or gives it up unsent.           *)
Take(c) ==
  /\ phase[c] = "open"
  /\ taken' = taken \cup {c}
  /\ UNCHANGED <<phase, flights, critical, repeatable, signed>>

Drop(c) ==
  /\ taken' = taken \ {c}
  /\ UNCHANGED <<phase, flights, critical, repeatable, signed>>

(* One transmission.  The command may have been finished since it was       *)
(* taken, and a repeatable one may have been taken twice.                  *)
Fly(c) ==
  /\ c \in taken
  /\ c \in critical => c \in signed
  /\ c \in repeatable \/ flights[c] = 0
  /\ flights' = [flights EXCEPT ![c] = IF @ < 2 THEN @ + 1 ELSE @]
  /\ taken' \in {taken, taken \ {c}}
  /\ UNCHANGED <<phase, critical, repeatable, signed>>

(* An answer, a rejection, a cancellation, an exhausted retry budget.      *)
Finish(c, outcome) ==
  /\ phase[c] = "open" \/ (phase[c] = "held" /\ outcome = "dead")
  /\ phase' = [phase EXCEPT ![c] = outcome]
  /\ UNCHANGED <<flights, taken, critical, repeatable, signed>>

Next ==
  \E c \in Command :
    \/ \E k, r \in BOOLEAN : Submit(c, k, r)
    \/ Sign(c)
    \/ Take(c) \/ Drop(c) \/ Fly(c)
    \/ \E o \in {"acked", "dead"} : Finish(c, o)

Spec == Init /\ [][Next]_vars

============================================================================
