----------------------------- MODULE MCScheduler -----------------------------
(***************************************************************************)
(* Two pods, each of which may be deleted and created again, and two nodes *)
(* that hold one pod each.  Budget bounds what comes from outside: pods    *)
(* created or changed, calls that fail, watches listed again, nodes        *)
(* removed, and assumed pods that expire before the informer has told of   *)
(* them; MaxBack how many states of a pod a list may be behind the watch.  *)
(* The specification treats pods alike, and nodes.                         *)
(***************************************************************************)
EXTENDS Scheduler, TLC

Symmetry == Permutations(Pods) \cup Permutations(Nodes)
=============================================================================
