------------------------------- MODULE Cacher -------------------------------
(***************************************************************************)
(* The API server's watch cache: pkg/storage/cacher.go, watch_cache.go.    *)
(* One goroutine runs startCaching: a reflector that lists and watches the *)
(* storage and feeds the watchCache.  The dispatcher hands each event to   *)
(* the watchers, which have a goroutine (process) and two channels each.   *)
(*                                                                         *)
(* The storage is its history of writes.  The version of a write is its    *)
(* place in the history, an object is the version that wrote it.  An       *)
(* object has a value of the trigger's index (a pod's node name, say); a   *)
(* watcher selects one value, or everything.                               *)
(***************************************************************************)
EXTENDS DistinctSeq

CONSTANTS
  Keys,
  Values,       \* values of the trigger's index
  Everything,   \* the selector of a watcher without a trigger value
  Selectors,    \* what the watchers select: values, or Everything
  Watchers,     \* calls of Watch
  Capacity,     \* of the sliding window
  IncomingSize, \* of the channel incoming (100 in the code)
  ChanSize,     \* of a watcher's two channels (10 or 1000)
  MaxRV,        \* bound on the writes
  MaxFailures   \* bound on the lists that fail and the watches that end

ASSUME Sizes ==
  /\ {Capacity, IncomingSize, ChanSize} \subseteq Nat \ {0}
  /\ Everything \notin Values
  /\ IsFiniteSet(Keys)

VARIABLES
  log,              \* the storage's writes: <<[type, key, value], ...>>
  at,               \* where the reflector's goroutine is
  listed,           \* the version of the list it holds
  failures,         \* how many lists and watches have failed
  ready,
  cache, startIndex, endIndex, store, resourceVersion,  \* the watchCache
  incoming,
  dispatch,         \* dispatchEvent, which holds the Cacher's lock: the event
                    \* and the watchers left to give it to
  watcher,          \* per call of Watch: see NewWatcher
  view,             \* history: what the client makes of what it received
  got               \* history: the newest version the client knows of

storagevars == <<log>>
cachevars == <<cache, startIndex, endIndex, store, resourceVersion>>
reflvars == <<at, listed, failures, ready>>
watchvars == <<watcher, view, got>>
vars == <<storagevars, reflvars, cachevars, incoming, dispatch, watchvars>>

None == 0         \* no object
NoEvent == [rv |-> 0, type |-> "None", obj |-> None, prev |-> None]
Idle == [event |-> NoEvent, todo |-> {}, slow |-> {}]

NewWatcher ==
  [at |-> "idle",         \* -> called -> locked -> running -> closed, or gone
   listed |-> FALSE,      \* in the Cacher's maps
   done |-> FALSE,        \* done and input are closed
   sel |-> Everything, rv |-> 0,
   lostEdge |-> FALSE,    \* history: see NothingLost
   init |-> <<>>, hand |-> <<>>, input |-> <<>>, result |-> <<>>]

-----------------------------------------------------------------------------
(***************************************************************************)
(* The storage, with the history h of its writes: what there is at r.      *)
(***************************************************************************)
Writes(h, k, r) == {n \in 1 .. r : h[n].key = k}

Last(places) == CHOOSE n \in places : \A m \in places : m <= n

StateAt(h, r) ==
  [k \in Keys |->
     IF Writes(h, k, r) = {} \/ h[Last(Writes(h, k, r))].type = "Deleted" THEN None
     ELSE Last(Writes(h, k, r))]

\* A deleted object's last event still shows its value.
Write(k) ==
  LET cur == StateAt(log, Len(log))[k]
      new == [type : {IF cur = None THEN "Added" ELSE "Modified"}, key : {k}, value : Values]
      del == IF cur = None THEN {}
             ELSE {[type |-> "Deleted", key |-> k, value |-> log[cur].value]}
  IN  /\ Len(log) < MaxRV
      /\ \E e \in new \cup del : log' = Append(log, e)
      /\ UNCHANGED <<reflvars, cachevars, incoming, dispatch, watchvars>>

(***************************************************************************)
(* Locks.  The watchCache's write lock is held while an event waits for    *)
(* room in incoming, its read lock by a Watch that waits for the Cacher's  *)
(* lock, and that by dispatchEvent.                                        *)
(***************************************************************************)
CacheReadable == at # "send"
CacheWritable == \A w \in Watchers : watcher[w].at # "locked"
CacherFree == dispatch = Idle

-----------------------------------------------------------------------------
(***************************************************************************)
(* The filter, and the conversion to the event the client sees.            *)
(***************************************************************************)
Selects(h, sel, n) == n # None /\ (sel = Everything \/ h[n].value = sel)

curObjPasses(h, sel, e) == e.type # "Deleted" /\ Selects(h, sel, e.obj)
oldObjPasses(h, sel, e) == Selects(h, sel, e.prev)

Interested(h, sel, e) == curObjPasses(h, sel, e) \/ oldObjPasses(h, sel, e)

Converted(h, sel, e) ==
  [type |-> IF ~curObjPasses(h, sel, e) THEN "Deleted"
            ELSE IF oldObjPasses(h, sel, e) THEN "Modified" ELSE "Added",
   obj |-> e.obj, rv |-> e.rv]

Filtered(h, sel, state) ==
  [k \in Keys |-> IF Selects(h, sel, state[k]) THEN state[k] ELSE None]

-----------------------------------------------------------------------------
(***************************************************************************)
(* The watchCache: a cyclic buffer and the current state.                  *)
(***************************************************************************)
Size == endIndex - startIndex

CacheAt(i) == cache[(startIndex + i) % Capacity]

oldest == IF Size > 0 THEN CacheAt(0).rv ELSE resourceVersion

\* oldest is unsigned: oldest - 1 is the largest number when it is 0.
TooOld(rv) == rv # 0 /\ (oldest = 0 \/ rv < oldest - 1)

\* sort.Search, by its contract.
First(rv) ==
  CHOOSE i \in 0 .. Size : /\ \A j \in 0 .. i - 1 : CacheAt(j).rv <= rv
                           /\ i < Size => CacheAt(i).rv > rv

ListEvents(order) ==
  [i \in 1 .. Len(order) |->
     [rv |-> resourceVersion, type |-> "Added", obj |-> store[order[i]], prev |-> None]]

\* The possible results: the store is listed in any order.
GetAllEventsSince(rv) ==
  IF rv = 0
  THEN {ListEvents(order) : order \in Orders({k \in Keys : store[k] # None})}
  ELSE {[i \in 1 .. Size - First(rv) |-> CacheAt(First(rv) + i - 1)]}

updateCache(event) ==
  /\ startIndex' = IF endIndex = startIndex + Capacity THEN startIndex + 1 ELSE startIndex
  /\ cache' = [cache EXCEPT ![endIndex % Capacity] = event]
  /\ endIndex' = endIndex + 1

Init ==
  /\ log = <<>>
  /\ at = "start" /\ listed = 0 /\ failures = 0 /\ ready = FALSE
  /\ cache = [i \in 0 .. Capacity - 1 |-> NoEvent]
  /\ startIndex = 0 /\ endIndex = 0
  /\ store = [k \in Keys |-> None] /\ resourceVersion = 0
  /\ incoming = <<>> /\ dispatch = Idle
  /\ watcher = [w \in Watchers |-> NewWatcher]
  /\ view = [w \in Watchers |-> [k \in Keys |-> None]]
  /\ got = [w \in Watchers |-> 0]

-----------------------------------------------------------------------------
(***************************************************************************)
(* startCaching and the reflector.  wait.Until pauses for a second before  *)
(* it calls startCaching again; the model takes that to be longer than a   *)
(* Watch runs from ready.wait to its registration, and than what is queued *)
(* takes to be dispatched (whose waiting the time budget bounds).          *)
(***************************************************************************)
Settled ==
  /\ incoming = <<>> /\ CacherFree
  /\ \A w \in Watchers : watcher[w].at \notin {"called", "locked"}

startCaching ==
  /\ at = "start" /\ Settled
  /\ watcher' = [w \in Watchers |->
                   IF watcher[w].listed
                   THEN [watcher[w] EXCEPT !.listed = FALSE, !.done = TRUE]
                   ELSE watcher[w]]
  /\ at' = "list"
  /\ UNCHANGED <<storagevars, listed, failures, ready, cachevars, incoming, dispatch, view, got>>

Fail == failures < MaxFailures /\ failures' = failures + 1

List ==
  /\ at = "list"
  /\ listed' = Len(log)
  /\ at' = "replace"
  /\ UNCHANGED <<storagevars, failures, ready, cachevars, incoming, dispatch, watchvars>>

ListFails ==
  /\ at = "list"
  /\ Fail
  /\ at' = "start"
  /\ UNCHANGED <<storagevars, listed, ready, cachevars, incoming, dispatch, watchvars>>

Replace ==
  /\ at = "replace" /\ CacheWritable
  /\ startIndex' = 0 /\ endIndex' = 0
  /\ store' = StateAt(log, listed)
  /\ resourceVersion' = listed
  /\ ready' = TRUE
  /\ listed' = 0
  /\ at' = "watch"
  /\ UNCHANGED <<storagevars, failures, cache, incoming, dispatch, watchvars>>

\* The watchCache's processEvent, which waits for room in incoming while it
\* holds the lock, then updates window, version and store.
HasEvent == at = "watch" /\ CacheWritable /\ resourceVersion < Len(log)

processEvent ==
  LET n     == resourceVersion + 1
      k     == log[n].key
      event == [rv |-> n, type |-> log[n].type, obj |-> n, prev |-> store[k]]
  IN  /\ HasEvent \/ at = "send"
      /\ Len(incoming) < IncomingSize
      /\ incoming' = Append(incoming, event)
      /\ updateCache(event)
      /\ resourceVersion' = n
      /\ store' = [store EXCEPT ![k] = IF event.type = "Deleted" THEN None ELSE n]
      /\ at' = "watch"
      /\ UNCHANGED <<storagevars, listed, failures, ready, dispatch, watchvars>>

processEventWaits ==
  /\ HasEvent
  /\ Len(incoming) = IncomingSize
  /\ at' = "send"
  /\ UNCHANGED <<storagevars, listed, failures, ready, cachevars, incoming, dispatch, watchvars>>

ListAndWatchEnds ==
  /\ at = "watch"
  /\ Fail
  /\ at' = "start"
  /\ ready' = FALSE
  /\ UNCHANGED <<storagevars, listed, cachevars, incoming, dispatch, watchvars>>

-----------------------------------------------------------------------------
(***************************************************************************)
(* The dispatcher.                                                         *)
(***************************************************************************)
\* Seeded fault: an object that moves away is not told to whom it leaves.
triggerValues_CurrentOnly(e) == {log[e.obj].value}

triggerValues(e) == {log[n].value : n \in {e.obj, e.prev} \ {None}}

Targets(e) ==
  {w \in Watchers : watcher[w].listed /\ watcher[w].sel \in triggerValues(e) \cup {Everything}}

Room(w) == Len(watcher[w].input) < ChanSize

\* dispatchEvent goes on to the next watcher.
Served(w) == dispatch' = [dispatch EXCEPT !.todo = @ \ {w}, !.slow = {}]

dispatchEvent ==
  LET e == Head(incoming)
  IN  /\ incoming # <<>> /\ CacherFree
      /\ incoming' = Tail(incoming)
      /\ dispatch' = [event |-> e, todo |-> Targets(e), slow |-> {}]
      /\ UNCHANGED <<storagevars, reflvars, cachevars, watchvars>>

dispatchEventEnds ==
  /\ ~CacherFree /\ dispatch.todo = {}
  /\ dispatch' = Idle
  /\ UNCHANGED <<storagevars, reflvars, cachevars, incoming, watchvars>>

\* add, when there is room at once or while it waits.
add(w) ==
  /\ w \in dispatch.todo /\ dispatch.slow \subseteq {w}
  /\ Room(w)
  /\ watcher' = [watcher EXCEPT ![w].input = Append(@, dispatch.event)]
  /\ Served(w)
  /\ UNCHANGED <<storagevars, reflvars, cachevars, incoming, view, got>>

addWaits(w) ==
  /\ w \in dispatch.todo /\ dispatch.slow = {}
  /\ ~Room(w)
  /\ dispatch' = [dispatch EXCEPT !.slow = {w}]
  /\ UNCHANGED <<storagevars, reflvars, cachevars, incoming, watchvars>>

\* Seeded fault: no timeout.
addTimesOut_Never(w) == dispatch.slow = {w} /\ UNCHANGED vars

\* The time budget is used up: forget(false) and stop.
addTimesOut(w) ==
  /\ dispatch.slow = {w}
  /\ watcher' = [watcher EXCEPT ![w].listed = FALSE, ![w].done = TRUE]
  /\ Served(w)
  /\ UNCHANGED <<storagevars, reflvars, cachevars, incoming, view, got>>

-----------------------------------------------------------------------------
(***************************************************************************)
(* A client.  It asks for version 0, or for one that it knows the state    *)
(* of, from a list or an earlier watch.                                    *)
(***************************************************************************)
\* Watch, up to the return of ready.wait.
Watch(w, rv, sel) ==
  /\ watcher[w].at = "idle" /\ ready
  /\ watcher' = [watcher EXCEPT ![w] = [@ EXCEPT !.at = "called", !.rv = rv, !.sel = sel]]
  /\ view' = [view EXCEPT ![w] = Filtered(log, sel, StateAt(log, rv))]
  /\ got' = [got EXCEPT ![w] = rv]
  /\ UNCHANGED <<storagevars, reflvars, cachevars, incoming, dispatch>>

GetEvents(w) ==
  LET rv == watcher[w].rv
  IN  /\ watcher[w].at = "called" /\ CacheReadable
      /\ ~TooOld(rv)
      /\ \E events \in GetAllEventsSince(rv) :
           watcher' = [watcher EXCEPT ![w] =
             [@ EXCEPT !.init = events, !.listed = CacherFree,
                       !.at = IF CacherFree THEN "running" ELSE "locked",
                       !.lostEdge = Size = 0 /\ rv # 0 /\ rv = resourceVersion - 1]]
      /\ got' = [got EXCEPT ![w] = IF rv = 0 THEN resourceVersion ELSE rv]
      /\ UNCHANGED <<storagevars, reflvars, cachevars, incoming, dispatch, view>>

\* errWatcher: the client is told that its version is gone.
Gone(w) ==
  /\ watcher[w].at = "called" /\ CacheReadable
  /\ TooOld(watcher[w].rv)
  /\ watcher' = [watcher EXCEPT ![w] = [NewWatcher EXCEPT !.at = "gone"]]
  /\ view' = [view EXCEPT ![w] = [k \in Keys |-> None]]
  /\ got' = [got EXCEPT ![w] = 0]
  /\ UNCHANGED <<storagevars, reflvars, cachevars, incoming, dispatch>>

\* It had to wait for the Cacher's lock.
Register(w) ==
  /\ watcher[w].at = "locked" /\ CacherFree
  /\ watcher' = [watcher EXCEPT ![w] = [@ EXCEPT !.at = "running", !.listed = TRUE]]
  /\ UNCHANGED <<storagevars, reflvars, cachevars, incoming, dispatch, view, got>>

Apply(state, e) ==
  [state EXCEPT ![log[e.obj].key] = IF e.type = "Deleted" THEN None ELSE e.obj]

Receive(w) ==
  LET e == Head(watcher[w].result)
  IN  /\ watcher[w].result # <<>>
      /\ watcher' = [watcher EXCEPT ![w].result = Tail(@)]
      /\ view' = [view EXCEPT ![w] = Apply(@, e)]
      /\ got' = [got EXCEPT ![w] = IF e.rv > @ THEN e.rv ELSE @]
      /\ UNCHANGED <<storagevars, reflvars, cachevars, incoming, dispatch>>

\* Seeded fault: forget without the lock.
Stop_Unlocked(w) ==
  /\ watcher[w].listed
  /\ watcher' = [watcher EXCEPT ![w].listed = FALSE]
  /\ UNCHANGED <<storagevars, reflvars, cachevars, incoming, dispatch, view, got>>

\* Stop: forget, under the Cacher's lock, and then stop.
Stop(w) ==
  /\ watcher[w].listed /\ CacherFree
  /\ watcher' = [watcher EXCEPT ![w].listed = FALSE]
  /\ UNCHANGED <<storagevars, reflvars, cachevars, incoming, dispatch, view, got>>

stop(w) ==
  /\ watcher[w].at = "running" /\ ~watcher[w].listed /\ ~watcher[w].done
  /\ watcher' = [watcher EXCEPT ![w].done = TRUE]
  /\ UNCHANGED <<storagevars, reflvars, cachevars, incoming, dispatch, view, got>>

-----------------------------------------------------------------------------
(***************************************************************************)
(* A watcher's goroutine: process and sendWatchCacheEvent.  hand holds the *)
(* event that waits for room in result, having passed the test of done.    *)
(***************************************************************************)
HasRoom(me) == Len(me.result) < ChanSize

Send(me, e) == [me EXCEPT !.result = Append(@, Converted(log, me.sel, e))]

\* Seeded fault: done is only looked at while waiting.
sendWatchCacheEvent_SelectOnly(me, e) ==
  IF ~Interested(log, me.sel, e) THEN me
  ELSE IF HasRoom(me) THEN Send(me, e)
  ELSE [me EXCEPT !.hand = <<e>>]

sendWatchCacheEvent(me, e) ==
  IF ~Interested(log, me.sel, e) \/ me.done THEN me
  ELSE IF HasRoom(me) THEN Send(me, e)
  ELSE [me EXCEPT !.hand = <<e>>]

processInit(w) ==
  LET me == watcher[w]
  IN  /\ me.at = "running" /\ me.hand = <<>> /\ me.init # <<>>
      /\ watcher' = [watcher EXCEPT ![w] =
           sendWatchCacheEvent([me EXCEPT !.init = Tail(@)], Head(me.init))]
      /\ UNCHANGED <<storagevars, reflvars, cachevars, incoming, dispatch, view, got>>

processInput(w) ==
  LET me   == watcher[w]
      e    == Head(me.input)
      rest == [me EXCEPT !.input = Tail(@)]
  IN  /\ me.at = "running" /\ me.hand = <<>> /\ me.init = <<>> /\ me.input # <<>>
      /\ watcher' = [watcher EXCEPT ![w] =
           IF e.rv > me.rv THEN sendWatchCacheEvent(rest, e) ELSE rest]
      /\ UNCHANGED <<storagevars, reflvars, cachevars, incoming, dispatch, view, got>>

\* The select that waited: result has room, or done is closed.
sendUnblocked(w) ==
  LET me   == watcher[w]
      rest == [me EXCEPT !.hand = <<>>]
  IN  /\ me.hand # <<>>
      /\ \/ HasRoom(me) /\ watcher' = [watcher EXCEPT ![w] = Send(rest, me.hand[1])]
         \/ me.done     /\ watcher' = [watcher EXCEPT ![w] = rest]
      /\ UNCHANGED <<storagevars, reflvars, cachevars, incoming, dispatch, view, got>>

\* Seeded fault: result is not closed.
processEnds_LeavesOpen(w) ==
  LET me == watcher[w]
  IN  /\ me.at = "running" /\ me.done
      /\ me.hand = <<>> /\ me.init = <<>> /\ me.input = <<>>
      /\ CacherFree
      /\ watcher' = [watcher EXCEPT ![w].at = "ended"]
      /\ UNCHANGED <<storagevars, reflvars, cachevars, incoming, dispatch, view, got>>

\* The input is closed and drained: Stop, and close(result).
processEnds(w) ==
  LET me == watcher[w]
  IN  /\ me.at = "running" /\ me.done
      /\ me.hand = <<>> /\ me.init = <<>> /\ me.input = <<>>
      /\ CacherFree
      /\ watcher' = [watcher EXCEPT ![w].at = "closed"]
      /\ UNCHANGED <<storagevars, reflvars, cachevars, incoming, dispatch, view, got>>

process(w) == processInit(w) \/ processInput(w) \/ sendUnblocked(w) \/ processEnds(w)

-----------------------------------------------------------------------------
Reflect ==
  startCaching \/ List \/ ListFails \/ Replace \/ processEvent \/ processEventWaits \/ ListAndWatchEnds

dispatchEvents ==
  \/ dispatchEvent \/ dispatchEventEnds
  \/ \E w \in Watchers : add(w) \/ addWaits(w) \/ addTimesOut(w)

Client(w) ==
  \/ \E rv \in 0 .. Len(log), sel \in Selectors : Watch(w, rv, sel)
  \/ GetEvents(w) \/ Gone(w) \/ Register(w)
  \/ Receive(w)
  \/ Stop(w) \/ stop(w)

Next ==
  \/ \E k \in Keys : Write(k)
  \/ Reflect
  \/ dispatchEvents
  \/ \E w \in Watchers : Client(w) \/ process(w)

(***************************************************************************)
(* All goroutines run, and the storage answers; a Watch gets its locks.    *)
(* Clients need not read.                                                  *)
(***************************************************************************)
Fairness ==
  /\ WF_vars(startCaching) /\ WF_vars(List) /\ WF_vars(Replace)
  /\ WF_vars(processEvent) /\ WF_vars(processEventWaits)
  /\ WF_vars(dispatchEvents)
  /\ \A w \in Watchers :
       /\ WF_vars(GetEvents(w) \/ Gone(w)) /\ WF_vars(Register(w)) /\ WF_vars(stop(w))
       /\ WF_vars(processInit(w) \/ processInput(w)) /\ WF_vars(sendUnblocked(w))
       /\ WF_vars(processEnds(w))

Spec == Init /\ [][Next]_vars /\ Fairness

-----------------------------------------------------------------------------
\* Of the events of s, what a client sees that selects sel and asked for what
\* came after version rv.
Nothing == [type |-> "None", obj |-> None, rv |-> 0]

Seen(h, sel, rv, s) ==
  [i \in 1 .. Len(s) |->
     IF s[i].rv > rv /\ Interested(h, sel, s[i]) THEN Converted(h, sel, s[i]) ELSE Nothing]

\* What a client that has seen s makes of state: the last word on each key.
Told(h, k, s) == {i \in 1 .. Len(s) : s[i].type # "None" /\ h[s[i].obj].key = k}

After(h, state, s) ==
  [k \in Keys |->
     IF Told(h, k, s) = {} THEN state[k]
     ELSE IF s[Last(Told(h, k, s))].type = "Deleted" THEN None
     ELSE s[Last(Told(h, k, s))].obj]

\* The event watcher w is about to be given.
Given(w) == IF w \in dispatch.todo THEN <<dispatch.event>> ELSE <<>>

\* What the client of w will have when it has received all that is on its way:
\* what is in result, then the rest of the initial events, then the dispatched
\* ones, as far as they are newer than what it asked for.
Outcome(w) ==
  LET me      == watcher[w]
      result  == After(log, view[w], me.result)
      hand    == After(log, result, Seen(log, me.sel, 0, me.hand))
      initial == After(log, hand, Seen(log, me.sel, 0, me.init))
      input   == After(log, initial, Seen(log, me.sel, me.rv, me.input))
      given   == After(log, input, Seen(log, me.sel, me.rv, Given(w)))
  IN  After(log, given, Seen(log, me.sel, me.rv, incoming))

Current(w) == IF watcher[w].rv > resourceVersion THEN watcher[w].rv ELSE resourceVersion

NothingLostBy(w) ==
  Outcome(w) = Filtered(log, watcher[w].sel, StateAt(log, Current(w)))

\* "e.g. reconnecting without missing any updates": what a registered watcher's
\* client has received and what is on its way to it add up to the objects it
\* selects, as of the cache's version: nothing falls between the events of the
\* window and the dispatched ones.  Not claimed for a watch from one version
\* before that of an empty window, which loses a write.
NothingLost ==
  \A w \in Watchers : watcher[w].listed /\ ~watcher[w].lostEdge => NothingLostBy(w)

\* The same without the exception, as the comment on Watch has it.
ReconnectMissesNothing ==
  \A w \in Watchers : watcher[w].listed => NothingLostBy(w)

\* Write n concerns a client that selects sel.
Concerns(h, sel, n) ==
  Selects(h, sel, n) \/ Selects(h, sel, StateAt(h, n - 1)[h[n].key])

\* "We will deliver only consecutive events": also a watcher that is being
\* stopped never gives its client an event when it has dropped one before it.
\* (It may give an event again that was among the initial ones.)
OnlyConsecutive ==
  [][ \A w \in Watchers :
        got'[w] > got[w] /\ watcher[w].at \in {"running", "closed"} /\ ~watcher[w].lostEdge =>
          \A n \in got[w] + 1 .. got'[w] - 1 : ~Concerns(log, watcher[w].sel, n) ]_vars

\* The dispatcher never sends to a closed channel, which would end the process:
\* whoever stops a watcher has taken it out of the maps before.
NeverSendsOnClosed == \A w \in dispatch.todo : ~watcher[w].done

\* A client that keeps reading has in the end all that it selects as it is in
\* the storage, or its channel is closed.
ReaderCatchesUp ==
  \A w \in Watchers :
    []<>(watcher[w].result = <<>>) =>
      [](watcher[w].at = "running" =>
          <>(\/ watcher[w].at = "closed" \/ watcher[w].lostEdge
             \/ view[w] = Filtered(log, watcher[w].sel, StateAt(log, Len(log)))))

\* Whatever the clients do, the cache follows the storage: a watcher that
\* nobody reads holds up the dispatcher, and with it the cache's lock, only
\* until it is terminated.
CacheKeepsUp == []<>(resourceVersion = Len(log) /\ ready)
=============================================================================
