---------------------------- MODULE MCHealthWatch ---------------------------
(***************************************************************************)
(* The instance TLC checks.                                                *)
(***************************************************************************)
EXTENDS HealthWatch

\* A satellite with one pass, and one with a continuous link.
PassOrNone == {{}, {[aos |-> 2, los |-> 2]}}
=============================================================================
