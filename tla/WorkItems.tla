------------------------------ MODULE WorkItems ------------------------------
(***************************************************************************)
(* What the queues of pkg/util/workqueue hold.                             *)
(***************************************************************************)
CONSTANTS
  Items,      \* the keys put on a queue
  NoItem      \* no key: what an idle worker holds, or an idle caller sends

ASSUME NoItemIsNoItem == NoItem \notin Items
=============================================================================
