-------------------------- MODULE MCPenaltyEnforcer --------------------------
(* PenaltyEnforcer for TLC. *)
EXTENDS PenaltyEnforcer
=============================================================================
