----------------------------- MODULE MCDeltaFIFO -----------------------------
(***************************************************************************)
(* Two keys and two versions, any sequence of calls with at most MaxDeltas *)
(* deltas queued for a key.                                                *)
(***************************************************************************)
EXTENDS DeltaFIFO, TLC

Symmetric == Permutations(Keys) \cup Permutations(Objects)
=============================================================================
