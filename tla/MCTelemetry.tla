---------------------------- MODULE MCTelemetry ----------------------------
(* Telemetry for TLC; the constants are in the cfg. *)
EXTENDS Telemetry
=============================================================================
