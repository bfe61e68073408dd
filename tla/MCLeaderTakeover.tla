-------------------------- MODULE MCLeaderTakeover --------------------------
(* Small instances of LeaderTakeover for TLC. *)
EXTENDS LeaderTakeover

CONSTANTS h1, h2
=============================================================================
