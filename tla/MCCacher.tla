------------------------------ MODULE MCCacher ------------------------------
(***************************************************************************)
(* Every channel and the window hold one or two events, fewer than there   *)
(* are writes, so that each of them fills up and each blocks somebody.     *)
(***************************************************************************)
EXTENDS Cacher
=============================================================================
