----------------------------- MODULE MCReflector -----------------------------
(***************************************************************************)
(* Two keys, a few writes and a few failed requests, a list as stale as    *)
(* the server's whole history.                                             *)
(***************************************************************************)
EXTENDS Reflector
=============================================================================
