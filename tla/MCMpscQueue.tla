---------------------------- MODULE MCMpscQueue -----------------------------
(* MpscQueue for TLC. *)
EXTENDS MpscQueue
=============================================================================
