------------------------ MODULE MCTelemetryGenerator ------------------------
(* TelemetryGenerator for TLC. *)
EXTENDS TelemetryGenerator
=============================================================================
