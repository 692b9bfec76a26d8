---------------------------- MODULE SharedInformer ----------------------------
(***************************************************************************)
(* One cache shared by many handlers: pkg/client/cache/shared_informer.go. *)
(*                                                                         *)
(* HandleDeltas, called by the queue's Pop, updates the indexer and hands  *)
(* a notification to every listener.  Each listener has an unbounded list  *)
(* of pending notifications, a pop goroutine that takes them one by one    *)
(* and a run goroutine that calls the handler.  A handler may also be      *)
(* added while the informer runs.                                          *)
(***************************************************************************)
EXTENDS Integers, Sequences

CONSTANTS
  Keys,
  Absent,            \* no object
  Handlers,          \* what AddEventHandler is called with
  MaxVersion,        \* bound on the object versions
  JoinWhileStarting  \* may AddEventHandler run between the two steps of Run?

Versions == 1 .. MaxVersion
Threads == {1, 2}    \* the goroutines one listener can end up with
Nobody == "nobody"
Deltas == "deltas"

ASSUME InformerAssumption ==
  /\ MaxVersion \in Nat /\ Absent \notin Versions
  /\ Nobody \notin Handlers /\ Deltas \notin Handlers

VARIABLES
  indexer,      \* s.indexer
  started,      \* s.started
  running,      \* processor.run has started the listeners
  blockDeltas,  \* who holds s.blockDeltas
  listeners,    \* s.processor.listeners
  pending,      \* pendingNotifications of each listener
  popAt,        \* where each pop goroutine is
  popHolds,     \* the notification it offers on nextCh
  runAt,        \* where each run goroutine is
  calls,        \* the notification its handler is called with
  work,         \* the deltas HandleDeltas has still to process
  left,         \* the listeners that have still to get its notification
  notification, \* that notification
  toList,       \* the keys a joining listener has still to be told
  version,      \* the newest version of any object
  stopped,      \* stopCh is closed
  view          \* history: what the calls of each handler add up to

threads == <<popAt, popHolds, runAt, calls>>
deltavars == <<work, left, notification, version>>
vars == <<indexer, started, running, blockDeltas, listeners, pending, popAt,
          popHolds, runAt, calls, work, left, notification, toList, version,
          stopped, view>>

Nothing == [type |-> "none", key |-> Absent, obj |-> Absent]
Notification(t, k, o) == [type |-> t, key |-> k, obj |-> o]

\* What a handler then knows of the object.
Told(n) == IF n.type = "delete" THEN Absent ELSE n.obj

Init ==
  /\ indexer = [k \in Keys |-> Absent]
  /\ started = FALSE /\ running = FALSE
  /\ blockDeltas = Nobody
  /\ listeners = {}
  /\ pending = [h \in Handlers |-> <<>>]
  /\ popAt = [h \in Handlers |-> [t \in Threads |-> "off"]]
  /\ popHolds = [h \in Handlers |-> [t \in Threads |-> Nothing]]
  /\ runAt = [h \in Handlers |-> [t \in Threads |-> "off"]]
  /\ calls = [h \in Handlers |-> [t \in Threads |-> Nothing]]
  /\ work = <<>> /\ left = {} /\ notification = Nothing
  /\ toList = {}
  /\ version = 0
  /\ stopped = FALSE
  /\ view = [h \in Handlers |-> [k \in Keys |-> Absent]]

-----------------------------------------------------------------------------
(***************************************************************************)
(* cond.Broadcast of a listener: its sleeping pop goroutines look again.   *)
(***************************************************************************)
Woken(ats) == [t \in Threads |-> IF ats[t] = "waiting" THEN "get" ELSE ats[t]]

add(h, n) ==
  /\ pending' = [pending EXCEPT ![h] = Append(@, n)]
  /\ popAt' = [popAt EXCEPT ![h] = Woken(@)]

\* `go listener.run(stopCh); go listener.pop(stopCh)` for each of H.
Start(H) ==
  LET spawn(ats) == IF ats[1] = "off" THEN 1 ELSE 2
  IN  /\ popAt' = [h \in Handlers |-> IF h \in H
                     THEN [popAt[h] EXCEPT ![spawn(popAt[h])] = "get"] ELSE popAt[h]]
      /\ runAt' = [h \in Handlers |-> IF h \in H
                     THEN [runAt[h] EXCEPT ![spawn(runAt[h])] = "idle"] ELSE runAt[h]]

(***************************************************************************)
(* Run: started is set under startedLock; then processor.run starts the    *)
(* listeners there are, without a lock, and only then do deltas flow.      *)
(***************************************************************************)
Run ==
  /\ ~started
  /\ started' = TRUE
  /\ UNCHANGED <<indexer, running, blockDeltas, listeners, pending, threads,
                 deltavars, toList, stopped, view>>

ProcessorRun ==
  /\ started /\ ~running
  /\ running' = TRUE
  /\ Start(listeners)
  /\ UNCHANGED <<indexer, started, blockDeltas, listeners, pending, popHolds,
                 calls, deltavars, toList, stopped, view>>

(***************************************************************************)
(* AddEventHandler before Run, and after: under blockDeltas the listener   *)
(* joins, is started, and gets an Add for every object of the indexer.     *)
(***************************************************************************)
AddEventHandler(h) ==
  /\ ~started
  /\ h \notin listeners
  /\ listeners' = listeners \cup {h}
  /\ UNCHANGED <<indexer, started, running, blockDeltas, pending, threads,
                 deltavars, toList, stopped, view>>

\* Seeded fault: the late handler joins without taking blockDeltas.
Join_Unlocked(h) ==
  /\ started /\ (running \/ JoinWhileStarting)
  /\ h \notin listeners
  /\ toList = {}
  /\ blockDeltas \notin Handlers
  /\ blockDeltas' = IF blockDeltas = Nobody THEN h ELSE blockDeltas
  /\ listeners' = listeners \cup {h}
  /\ Start({h})
  /\ toList' = {k \in Keys : indexer[k] # Absent}
  /\ UNCHANGED <<indexer, started, running, pending, popHolds, calls, deltavars,
                 stopped, view>>

Join(h) ==
  /\ started /\ (running \/ JoinWhileStarting)
  /\ h \notin listeners
  /\ blockDeltas = Nobody
  /\ blockDeltas' = h
  /\ listeners' = listeners \cup {h}
  /\ Start({h})
  /\ toList' = {k \in Keys : indexer[k] # Absent}
  /\ UNCHANGED <<indexer, started, running, pending, popHolds, calls, deltavars,
                 stopped, view>>

JoinAdd(k) ==
  /\ blockDeltas \in Handlers
  /\ k \in toList
  /\ add(blockDeltas, Notification("add", k, indexer[k]))
  /\ toList' = toList \ {k}
  /\ UNCHANGED <<indexer, started, running, blockDeltas, listeners, popHolds,
                 runAt, calls, deltavars, stopped, view>>

JoinDone ==
  /\ blockDeltas \in Handlers
  /\ toList = {}
  /\ blockDeltas' = Nobody
  /\ UNCHANGED <<indexer, started, running, listeners, pending, threads,
                 deltavars, toList, stopped, view>>

-----------------------------------------------------------------------------
(***************************************************************************)
(* The deltas a Pop can hand over for a key, by type and object (see       *)
(* DeletionsAreOfSomething in DeltaFIFO).  A Sync may repeat an object.    *)
(***************************************************************************)
Delta(t, k, o) == [type |-> t, key |-> k, obj |-> o]

DeltasFor(k) ==
  LET v == version + 1
      new == Delta("Added", k, v)
      gone == Delta("Deleted", k, indexer[k])
  IN  IF indexer[k] = Absent
      THEN {<<new>>, <<new, Delta("Updated", k, v)>>, <<new, Delta("Deleted", k, v)>>}
      ELSE {<<Delta("Updated", k, v)>>, <<Delta("Sync", k, indexer[k])>>, <<gone>>,
            <<gone, new>>}

HandleDeltas(k) ==
  /\ running
  /\ blockDeltas = Nobody
  /\ version < MaxVersion
  /\ work' \in DeltasFor(k)
  /\ version' = version + 1
  /\ blockDeltas' = Deltas
  /\ UNCHANGED <<indexer, started, running, listeners, pending, threads, left,
                 notification, toList, stopped, view>>

\* Seeded fault: a Sync of a known object is taken for an addition.
HandleDelta_ByType ==
  LET d == Head(work)
  IN  /\ work # <<>> /\ left = {}
      /\ work' = Tail(work)
      /\ left' = listeners
      /\ IF d.type = "Deleted"
         THEN /\ indexer' = [indexer EXCEPT ![d.key] = Absent]
              /\ notification' = Notification("delete", d.key, d.obj)
         ELSE /\ indexer' = [indexer EXCEPT ![d.key] = d.obj]
              /\ notification' =
                   Notification(IF d.type = "Updated" THEN "update" ELSE "add", d.key, d.obj)
      /\ UNCHANGED <<started, running, blockDeltas, listeners, pending, threads,
                     toList, version, stopped, view>>

\* Seeded fault: the notification goes out before the indexer is updated.
HandleDelta_NotifiesFirst ==
  LET d == Head(work)
      known == indexer[d.key] # Absent
  IN  /\ work # <<>> /\ left = {}
      /\ IF notification.obj # d.obj
         THEN /\ left' = listeners
              /\ notification' = Notification(IF d.type = "Deleted" THEN "delete"
                                              ELSE IF known THEN "update" ELSE "add",
                                              d.key, d.obj)
              /\ UNCHANGED <<indexer, work>>
         ELSE /\ indexer' = [indexer EXCEPT ![d.key] =
                               IF d.type = "Deleted" THEN Absent ELSE d.obj]
              /\ work' = Tail(work)
              /\ UNCHANGED <<left, notification>>
      /\ UNCHANGED <<started, running, blockDeltas, listeners, pending, threads,
                     toList, version, stopped, view>>

\* One delta: the indexer first, then the notification is handed round.
HandleDelta ==
  LET d == Head(work)
      known == indexer[d.key] # Absent
  IN  /\ work # <<>> /\ left = {}
      /\ work' = Tail(work)
      /\ left' = listeners
      /\ IF d.type = "Deleted"
         THEN /\ indexer' = [indexer EXCEPT ![d.key] = Absent]
              /\ notification' = Notification("delete", d.key, d.obj)
         ELSE /\ indexer' = [indexer EXCEPT ![d.key] = d.obj]
              /\ notification' = Notification(IF known THEN "update" ELSE "add", d.key, d.obj)
      /\ UNCHANGED <<started, running, blockDeltas, listeners, pending, threads,
                     toList, version, stopped, view>>

distribute(h) ==
  /\ h \in left
  /\ add(h, notification)
  /\ left' = left \ {h}
  /\ UNCHANGED <<indexer, started, running, blockDeltas, listeners, popHolds,
                 runAt, calls, work, notification, toList, version, stopped, view>>

HandleDone ==
  /\ blockDeltas = Deltas
  /\ work = <<>> /\ left = {}
  /\ blockDeltas' = Nobody
  /\ notification' = Nothing
  /\ UNCHANGED <<indexer, started, running, listeners, pending, threads, work,
                 left, toList, version, stopped, view>>

-----------------------------------------------------------------------------
(***************************************************************************)
(* The listener's goroutines.  pop looks at stopCh and goes to sleep with  *)
(* the listener's lock held; nextCh has no buffer.                         *)
(***************************************************************************)
PopTake(h, t) ==
  /\ popAt[h][t] = "get"
  /\ pending[h] # <<>>
  /\ popHolds' = [popHolds EXCEPT ![h][t] = Head(pending[h])]
  /\ pending' = [pending EXCEPT ![h] = Tail(@)]
  /\ popAt' = [popAt EXCEPT ![h][t] = "send"]
  /\ UNCHANGED <<indexer, started, running, blockDeltas, listeners, runAt,
                 calls, deltavars, toList, stopped, view>>

PopWait(h, t) ==
  /\ popAt[h][t] = "get"
  /\ pending[h] = <<>>
  /\ popAt' = [popAt EXCEPT ![h][t] = IF stopped THEN "exited" ELSE "waiting"]
  /\ UNCHANGED <<indexer, started, running, blockDeltas, listeners, pending,
                 popHolds, runAt, calls, deltavars, toList, stopped, view>>

PopStop(h, t) ==
  /\ popAt[h][t] = "send"
  /\ stopped
  /\ popAt' = [popAt EXCEPT ![h][t] = "exited"]
  /\ UNCHANGED <<indexer, started, running, blockDeltas, listeners, pending,
                 popHolds, runAt, calls, deltavars, toList, stopped, view>>

\* The notification passes from pop goroutine t to run goroutine u, which
\* calls the handler.
Deliver(h, t, u) ==
  LET n == popHolds[h][t]
  IN  /\ popAt[h][t] = "send"
      /\ runAt[h][u] = "idle"
      /\ popAt' = [popAt EXCEPT ![h][t] = "get"]
      /\ popHolds' = [popHolds EXCEPT ![h][t] = Nothing]
      /\ runAt' = [runAt EXCEPT ![h][u] = "calling"]
      /\ calls' = [calls EXCEPT ![h][u] = n]
      /\ view' = [view EXCEPT ![h][n.key] = Told(n)]
      /\ UNCHANGED <<indexer, started, running, blockDeltas, listeners, pending,
                     deltavars, toList, stopped>>

HandlerReturns(h, u) ==
  /\ runAt[h][u] = "calling"
  /\ runAt' = [runAt EXCEPT ![h][u] = "idle"]
  /\ calls' = [calls EXCEPT ![h][u] = Nothing]
  /\ UNCHANGED <<indexer, started, running, blockDeltas, listeners, pending,
                 popAt, popHolds, deltavars, toList, stopped, view>>

\* Seeded fault: run leaves without waking pop.
RunStop_Silent(h, u) ==
  /\ runAt[h][u] = "idle"
  /\ stopped
  /\ runAt' = [runAt EXCEPT ![h][u] = "exited"]
  /\ UNCHANGED <<indexer, started, running, blockDeltas, listeners, pending,
                 popAt, popHolds, calls, deltavars, toList, stopped, view>>

RunStop(h, u) ==
  /\ runAt[h][u] = "idle"
  /\ stopped
  /\ runAt' = [runAt EXCEPT ![h][u] = "exited"]
  /\ popAt' = [popAt EXCEPT ![h] = Woken(@)]
  /\ UNCHANGED <<indexer, started, running, blockDeltas, listeners, pending,
                 popHolds, calls, deltavars, toList, stopped, view>>

pop(h) == \E t \in Threads : PopTake(h, t) \/ PopWait(h, t) \/ PopStop(h, t)

run(h) ==
  \E u \in Threads :
    (\E t \in Threads : Deliver(h, t, u)) \/ HandlerReturns(h, u) \/ RunStop(h, u)

\* stopCh is closed after the informer was started.
Stop ==
  /\ running /\ ~stopped
  /\ stopped' = TRUE
  /\ UNCHANGED <<indexer, started, running, blockDeltas, listeners, pending,
                 threads, deltavars, toList, view>>

Next ==
  \/ Run \/ ProcessorRun \/ Stop
  \/ \E h \in Handlers : AddEventHandler(h) \/ Join(h)
  \/ \E k \in Keys : JoinAdd(k) \/ HandleDeltas(k)
  \/ JoinDone \/ HandleDelta \/ HandleDone
  \/ \E h \in Handlers : distribute(h) \/ pop(h) \/ run(h)

(***************************************************************************)
(* The listeners' goroutines keep running and handlers return.             *)
(***************************************************************************)
Fairness == \A h \in Handlers : WF_vars(pop(h)) /\ WF_vars(run(h))

Safety == Init /\ [][Next]_vars

Spec == Safety /\ Fairness

-----------------------------------------------------------------------------
Notices == [type : {"add", "update", "delete"}, key : Keys, obj : Versions]
DeltaSet == [type : {"Added", "Updated", "Sync", "Deleted"}, key : Keys, obj : Versions]

TypeOK ==
  /\ indexer \in [Keys -> Versions \cup {Absent}] /\ version \in 0 .. MaxVersion
  /\ started \in BOOLEAN /\ running \in BOOLEAN /\ stopped \in BOOLEAN
  /\ blockDeltas \in Handlers \cup {Nobody, Deltas}
  /\ listeners \subseteq Handlers /\ left \subseteq listeners
  /\ toList \subseteq {k \in Keys : indexer[k] # Absent}
  /\ toList # {} => blockDeltas \in Handlers
  /\ work \in Seq(DeltaSet)
  /\ work # <<>> \/ left # {} => blockDeltas = Deltas
  /\ notification \in IF left = {} THEN Notices \cup {Nothing} ELSE Notices
  /\ pending \in [Handlers -> Seq(Notices)]
  /\ popAt \in [Handlers -> [Threads -> {"off", "get", "waiting", "send", "exited"}]]
  /\ runAt \in [Handlers -> [Threads -> {"off", "idle", "calling", "exited"}]]
  /\ popHolds \in [Handlers -> [Threads -> Notices \cup {Nothing}]]
  /\ calls \in [Handlers -> [Threads -> Notices \cup {Nothing}]]
  /\ view \in [Handlers -> [Keys -> Versions \cup {Absent}]]
  /\ \A h \in Handlers, t \in Threads :
       /\ popAt[h][t] = "send" => popHolds[h][t] # Nothing
       /\ popAt[h][t] \in {"off", "get", "waiting"} => popHolds[h][t] = Nothing

\* What a listener has not yet been called with, oldest first.
Undelivered(h) ==
  (IF popHolds[h][1] = Nothing THEN <<>> ELSE <<popHolds[h][1]>>)
    \o pending[h] \o (IF h \in left THEN <<notification>> ELSE <<>>)

\* The objects a handler knows after the first i of the notifications ns: of
\* each key what the last of them about it said.
After(state, ns, i) ==
  [k \in Keys |->
     LET about == {j \in 1 .. i : ns[j].key = k}
     IN  IF about = {} THEN state[k]
         ELSE Told(ns[CHOOSE j \in about : \A m \in about : m <= j])]

Replay(state, ns) == After(state, ns, Len(ns))

\* Nothing is lost and nothing comes twice, for handlers added before Run and
\* for those that join while deltas flow: the calls a handler got, followed by
\* those it still has to get, add up to the indexer.
ListenerMatchesIndexer ==
  \A h \in listeners :
    running /\ blockDeltas # h => Replay(view[h], Undelivered(h)) = indexer

\* A handler is never told of the update or deletion of an object it does not
\* know, nor of the addition of one it knows.
CallsMakeSense ==
  [][\A h \in Handlers, u \in Threads :
       calls'[h][u] # calls[h][u] /\ calls'[h][u] # Nothing =>
         (calls'[h][u].type = "add" <=> view[h][calls'[h][u].key] = Absent)]_vars

\* "When you receive a notification, the cache will be AT LEAST as fresh as
\* the notification" (SharedInformer): the indexer has the notified version, a
\* later one, or has lost the object since.
CacheAtLeastAsFresh ==
  \A h \in Handlers, u \in Threads :
    LET n == calls[h][u]
    IN  n.type \in {"add", "update"} => indexer[n.key] = Absent \/ indexer[n.key] >= n.obj

\* "events to a single handler are delivered sequentially" (SharedInformer).
OneCallAtATime ==
  \A h \in Handlers : \A t, u \in Threads :
    runAt[h][t] = "calling" /\ runAt[h][u] = "calling" => t = u

\* When stopCh is closed every goroutine of every listener ends, those asleep
\* on an empty list too.
StopEndsListeners ==
  stopped ~> \A h \in listeners : popAt[h][1] = "exited" /\ runAt[h][1] = "exited"
=============================================================================
