-------------------------- MODULE MCSharedInformer --------------------------
(***************************************************************************)
(* Two keys and two handlers, one of which can join late; a few deltas.    *)
(***************************************************************************)
EXTENDS SharedInformer
=============================================================================
