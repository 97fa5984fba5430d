--------------------------- MODULE CommandPolicy ---------------------------
(***************************************************************************)
(* The command tables of the backend: the states of a command and the      *)
(* transitions the REST layer accepts, the command types that are          *)
(* restricted, and the mode policy.  Everything here is a constant of the  *)
(* code (commands/models.py, commands/policy.py), so the module declares   *)
(* no variable and is extended by every module that handles commands.      *)
(***************************************************************************)

CommandStatus ==
  {"awaiting_approval", "pending", "scheduled", "transmitting", "sent",
   "acked", "timeout", "retry", "dead"}

(* The next states the state machine table allows.                         *)
Transitions(from) ==
  CASE from = "awaiting_approval" -> {"pending", "dead"}
    [] from = "pending"           -> {"scheduled", "dead"}
    [] from = "scheduled"         -> {"transmitting", "pending", "dead"}
    [] from = "transmitting"      -> {"sent", "timeout"}
    [] from = "sent"              -> {"acked", "timeout", "dead"}
    [] from = "timeout"           -> {"retry", "dead"}
    [] from = "retry"             -> {"transmitting", "scheduled", "pending", "dead"}
    [] OTHER                      -> {}

UnsafeRetryTypes ==
  {"engine_fire", "deploy_antenna", "deploy_solar_panel", "separation"}

AdminOnlyCommands ==
  {"engine_fire", "separation", "format_storage", "factory_reset"}

TwoAdminCommands == {"separation", "factory_reset"}

----------------------------------------------------------------------------

SatelliteMode == {"beacon", "deployment", "nominal", "science", "safe"}

(* The types a mode admits.  "nominal" is the table's "*": every type, so   *)
(* it has no row here.                                                     *)
PolicyTable(mode) ==
  CASE mode = "beacon"     -> {"mode_change"}
    [] mode = "deployment" -> {"mode_change", "deploy_antenna",
                               "deploy_solar_panel", "beacon_set"}
    [] mode = "science"    -> {"abort", "mode_change", "science_stop"}
    [] mode = "safe"       -> {"recovery", "mode_change", "diagnostic", "reset", "ping"}
    [] OTHER               -> {}

(* The policy engine's decision for a verified mode.                       *)
Evaluate(type, mode) == mode = "nominal" \/ type \in PolicyTable(mode)

(* A reading of the satellite's mode as current_mode() returns it: a fresh  *)
(* mode, or "unverified" when there is none or it is more than 2 h old.    *)
ModeReading == SatelliteMode \cup {"unverified"}

(* A fresh reading is enforced; nothing is denied on an unverified one.     *)
Denied(type, reading) == reading # "unverified" /\ ~Evaluate(type, reading)

============================================================================
