---------------------------- MODULE MCTelemetry ----------------------------
(* TLC instance of Telemetry: readings below, at and above the thresholds. *)
EXTENDS Telemetry
=============================================================================
