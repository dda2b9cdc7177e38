---------------------------- MODULE MCFastestLap ----------------------------
(* FastestLap for TLC. *)
EXTENDS FastestLap
=============================================================================
