---------------------------- MODULE MCWorkQueue ----------------------------
(***************************************************************************)
(* Three keys and three workers: enough for a key that waits behind        *)
(* another, a key that is re-added while it is processed, and a worker     *)
(* that steals the item another worker was woken for while a third sleeps. *)
(***************************************************************************)
EXTENDS WorkQueue
=============================================================================
