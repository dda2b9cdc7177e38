--------------------------- MODULE MCLapPipeline ----------------------------
(* LapPipeline for TLC. *)
EXTENDS LapPipeline
=============================================================================
