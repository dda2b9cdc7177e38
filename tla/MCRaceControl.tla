---------------------------- MODULE MCRaceControl ----------------------------
(* RaceControl for TLC: a grid of one driver. *)
EXTENDS RaceControl

CONSTANT d1
GridOfOne == <<d1>>
=============================================================================
