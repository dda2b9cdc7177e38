----------------------------- MODULE MCDisplay ------------------------------
(* Display, and the Leaderboard in it, for TLC. *)
EXTENDS Display
=============================================================================
