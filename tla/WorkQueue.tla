------------------------------ MODULE WorkQueue ------------------------------
(***************************************************************************)
(* The work queue every controller drains: pkg/util/workqueue/queue.go.    *)
(*                                                                         *)
(* Producers call Add from event handlers; a fixed pool of worker          *)
(* goroutines loops over Get and Done.  Every method runs with cond.L      *)
(* held, so each is one atomic step, except that Get gives the lock up     *)
(* inside cond.Wait: a worker whose wait is over ("woken") still has to    *)
(* take the lock again, and another worker may take the item first.        *)
(***************************************************************************)
EXTENDS WorkItems, DistinctSeq

CONSTANT Workers   \* the goroutines that loop over Get and Done

ASSUME WorkersFinite == IsFiniteSet(Workers) /\ Workers # {}

VARIABLES
  queue,         \* q.queue: the order in which the keys are handed out
  dirty,         \* q.dirty: the keys that need processing
  processing,    \* q.processing: the keys some worker is processing
  shuttingDown,  \* q.shuttingDown
  pc,            \* where each worker is in its loop
  held           \* the key each worker took from Get and has not yet Done'd

wqvars == <<queue, dirty, processing, shuttingDown, pc, held>>

(***************************************************************************)
(* "idle" is about to call Get, "waiting" is inside cond.Wait, "woken" has *)
(* been signalled and contends for the lock, "busy" runs the sync handler, *)
(* "exited" was told of the shutdown by Get.                               *)
(***************************************************************************)
PCs == {"idle", "waiting", "woken", "busy", "exited"}

At(p, l) == {w \in Workers : p[w] = l}

(***************************************************************************)
(* sync.Cond.  Signal moves one waiting goroutine, the runtime chooses     *)
(* which, to the lock's contenders, and does nothing when none waits.      *)
(***************************************************************************)
Signal(p) ==
  IF At(p, "waiting") = {} THEN {p}
  ELSE {[p EXCEPT ![w] = "woken"] : w \in At(p, "waiting")}

Broadcast(p) == [w \in Workers |-> IF p[w] = "waiting" THEN "woken" ELSE p[w]]

Init ==
  /\ queue = <<>>
  /\ dirty = {}
  /\ processing = {}
  /\ shuttingDown = FALSE
  /\ pc = [w \in Workers |-> "idle"]
  /\ held = [w \in Workers |-> NoItem]

(***************************************************************************)
(* Add.  Nothing happens while shutting down or when the key is already    *)
(* dirty; a key that is being processed is only marked, Done queues it.    *)
(***************************************************************************)
AddIgnored(i) ==
  /\ shuttingDown \/ i \in dirty
  /\ UNCHANGED wqvars

\* Seeded fault: the test of q.processing left out, so a key that is being
\* processed is appended to the queue as well.
AddMarked_Queues(i) ==
  /\ ~shuttingDown
  /\ i \notin dirty
  /\ i \in processing
  /\ dirty' = dirty \cup {i}
  /\ queue' = Append(queue, i)
  /\ pc' \in Signal(pc)
  /\ UNCHANGED <<processing, shuttingDown, held>>

AddMarked(i) ==
  /\ ~shuttingDown
  /\ i \notin dirty
  /\ i \in processing
  /\ dirty' = dirty \cup {i}
  /\ UNCHANGED <<queue, processing, shuttingDown, pc, held>>

\* Seeded fault: the append without cond.Signal.
AddQueued_NoSignal(i) ==
  /\ ~shuttingDown
  /\ i \notin dirty
  /\ i \notin processing
  /\ dirty' = dirty \cup {i}
  /\ queue' = Append(queue, i)
  /\ UNCHANGED <<processing, shuttingDown, pc, held>>

AddQueued(i) ==
  /\ ~shuttingDown
  /\ i \notin dirty
  /\ i \notin processing
  /\ dirty' = dirty \cup {i}
  /\ queue' = Append(queue, i)
  /\ pc' \in Signal(pc)
  /\ UNCHANGED <<processing, shuttingDown, held>>

Add(i) == AddIgnored(i) \/ AddMarked(i) \/ AddQueued(i)

(***************************************************************************)
(* Get.  The for loop around cond.Wait re-tests the condition after every  *)
(* wake-up, so a woken worker is where an idle one is.                     *)
(***************************************************************************)
InGet(w) == pc[w] \in {"idle", "woken"}

GetItem(w) ==
  /\ InGet(w)
  /\ queue # <<>>
  /\ queue' = Tail(queue)
  /\ processing' = processing \cup {Head(queue)}
  /\ dirty' = dirty \ {Head(queue)}
  /\ held' = [held EXCEPT ![w] = Head(queue)]
  /\ pc' = [pc EXCEPT ![w] = "busy"]
  /\ UNCHANGED shuttingDown

GetWait(w) ==
  /\ InGet(w)
  /\ queue = <<>>
  /\ ~shuttingDown
  /\ pc' = [pc EXCEPT ![w] = "waiting"]
  /\ UNCHANGED <<queue, dirty, processing, shuttingDown, held>>

\* Seeded fault: Get looks at shuttingDown before it looks at the queue.
GetShutdown_Early(w) ==
  /\ InGet(w)
  /\ shuttingDown
  /\ pc' = [pc EXCEPT ![w] = "exited"]
  /\ UNCHANGED <<queue, dirty, processing, shuttingDown, held>>

GetShutdown(w) ==
  /\ InGet(w)
  /\ queue = <<>>
  /\ shuttingDown
  /\ pc' = [pc EXCEPT ![w] = "exited"]
  /\ UNCHANGED <<queue, dirty, processing, shuttingDown, held>>

Get(w) == GetItem(w) \/ GetWait(w) \/ GetShutdown(w)

(***************************************************************************)
(* Done.  A key that became dirty while it was processed goes back on the  *)
(* queue here, also during a shutdown.                                     *)
(***************************************************************************)
\* Seeded fault: Done forgets to look at q.dirty.
DoneRequeued_Forgets(w) ==
  /\ pc[w] = "busy"
  /\ held[w] \in dirty
  /\ processing' = processing \ {held[w]}
  /\ pc' = [pc EXCEPT ![w] = "idle"]
  /\ held' = [held EXCEPT ![w] = NoItem]
  /\ UNCHANGED <<queue, dirty, shuttingDown>>

DoneRequeued(w) ==
  /\ pc[w] = "busy"
  /\ held[w] \in dirty
  /\ processing' = processing \ {held[w]}
  /\ queue' = Append(queue, held[w])
  /\ pc' \in Signal([pc EXCEPT ![w] = "idle"])
  /\ held' = [held EXCEPT ![w] = NoItem]
  /\ UNCHANGED <<dirty, shuttingDown>>

DoneClean(w) ==
  /\ pc[w] = "busy"
  /\ held[w] \notin dirty
  /\ processing' = processing \ {held[w]}
  /\ pc' = [pc EXCEPT ![w] = "idle"]
  /\ held' = [held EXCEPT ![w] = NoItem]
  /\ UNCHANGED <<queue, dirty, shuttingDown>>

Done(w) == DoneRequeued(w) \/ DoneClean(w)

\* Seeded fault: Signal where Broadcast is needed.
ShutDown_Signals ==
  /\ ~shuttingDown
  /\ shuttingDown' = TRUE
  /\ pc' \in Signal(pc)
  /\ UNCHANGED <<queue, dirty, processing, held>>

ShutDown ==
  /\ ~shuttingDown
  /\ shuttingDown' = TRUE
  /\ pc' = Broadcast(pc)
  /\ UNCHANGED <<queue, dirty, processing, held>>

Next ==
  \/ \E i \in Items : Add(i)
  \/ \E w \in Workers : Get(w) \/ Done(w)
  \/ ShutDown

(***************************************************************************)
(* A worker goroutine keeps running and its sync handler returns; nobody   *)
(* is obliged to add keys or to shut the queue down.                       *)
(***************************************************************************)
Fairness == \A w \in Workers : WF_wqvars(Get(w)) /\ WF_wqvars(Done(w))

Spec == Init /\ [][Next]_wqvars /\ Fairness

-----------------------------------------------------------------------------
TypeOK ==
  /\ queue \in Seq(Items)
  /\ dirty \in SUBSET Items
  /\ processing \in SUBSET Items
  /\ shuttingDown \in BOOLEAN
  /\ pc \in [Workers -> PCs]
  /\ held \in [Workers -> Items \cup {NoItem}]

\* The comment on Type.queue, and its converse: the queue holds each key that
\* is dirty and not being processed, exactly once.  A key missing here would
\* never be handed out again, because Add ignores a dirty key.
QueueIsPendingWork ==
  /\ Distinct(queue)
  /\ RangeOf(queue) = dirty \ processing

\* "A single item will not be processed multiple times concurrently"
\* (doc.go): two workers never hold the same key, and q.processing is exactly
\* what the workers hold.
OneWorkerPerKey ==
  /\ processing = {held[w] : w \in At(pc, "busy")}
  /\ \A v, w \in At(pc, "busy") : held[v] = held[w] => v = w

\* While a worker sleeps in cond.Wait, every queued key has a woken worker
\* coming for it: no Signal is lost, in whatever order the lock is taken.
NoLostWakeup ==
  At(pc, "waiting") # {} => Len(queue) <= Cardinality(At(pc, "woken"))

\* ShutDown's promise that workers leave only once the existing work is
\* drained: when the last worker has left, nothing is dirty, also not a key
\* that was re-added while it was processed.
ShutdownDrains ==
  At(pc, "exited") = Workers => dirty = {} /\ processing = {}

\* After ShutDown every worker is told to exit, those asleep in Get too.
ShutdownTerminates == shuttingDown ~> At(pc, "exited") = Workers

(***************************************************************************)
(* The queue implements WorkSet: dirty is what is pending, processing what *)
(* is active.                                                              *)
(***************************************************************************)
Promise == INSTANCE WorkSet
           WITH pending <- dirty, active <- processing, closed <- shuttingDown

\* The whole of doc.go's promise: every step is a step of WorkSet, and a key
\* that is pending and not active is started, an active one finished.
ImplementsWorkSet == Promise!Spec
=============================================================================
