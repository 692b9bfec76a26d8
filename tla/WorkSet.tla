------------------------------- MODULE WorkSet -------------------------------
(***************************************************************************)
(* What pkg/util/workqueue promises its users (doc.go), without order,     *)
(* locks or goroutines: a set of keys waiting to be processed and a set of *)
(* keys being processed.  A key may be in both: it was marked again while  *)
(* somebody works on it, and is then processed once more, never twice at   *)
(* the same time.                                                          *)
(***************************************************************************)
CONSTANT Items

VARIABLES
  pending,   \* keys that were marked and whose processing has not started
  active,    \* keys being processed
  closed     \* no key is accepted any more

vars == <<pending, active, closed>>

Init == pending = {} /\ active = {} /\ closed = FALSE

Mark(i) ==
  /\ ~closed
  /\ pending' = pending \cup {i}
  /\ UNCHANGED <<active, closed>>

Start(i) ==
  /\ i \in pending \ active
  /\ pending' = pending \ {i}
  /\ active' = active \cup {i}
  /\ UNCHANGED closed

Finish(i) ==
  /\ i \in active
  /\ active' = active \ {i}
  /\ UNCHANGED <<pending, closed>>

Close == closed' = TRUE /\ UNCHANGED <<pending, active>>

Next ==
  \/ \E i \in Items : Mark(i) \/ Start(i) \/ Finish(i)
  \/ Close

Safety == Init /\ [][Next]_vars

Spec == Safety /\ \A i \in Items : WF_vars(Start(i)) /\ WF_vars(Finish(i))
=============================================================================
