---------------------------- MODULE MCReplicaSet ----------------------------
(***************************************************************************)
(* One replica set, its pods, one sync at a time.                          *)
(***************************************************************************)
EXTENDS ReplicaSet
=============================================================================
