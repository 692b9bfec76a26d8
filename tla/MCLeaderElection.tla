-------------------------- MODULE MCLeaderElection --------------------------
(***************************************************************************)
(* Two clients with durations as short as their conditions allow.          *)
(***************************************************************************)
EXTENDS LeaderElection
=============================================================================
