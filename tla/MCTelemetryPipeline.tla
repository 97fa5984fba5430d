------------------------ MODULE MCTelemetryPipeline ------------------------
(***************************************************************************)
(* Values of the constants of TelemetryPipeline for the runs.              *)
(***************************************************************************)
EXTENDS TelemetryPipeline

CONSTANTS big, a, b

(* The frames of satellite a, and one of b.                                 *)
Source == [f \in Frame |-> IF f = big THEN b ELSE a]

============================================================================
