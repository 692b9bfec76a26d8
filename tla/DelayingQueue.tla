---------------------------- MODULE DelayingQueue ----------------------------
(***************************************************************************)
(* Delayed re-queueing: pkg/util/workqueue/delaying_queue.go.              *)
(*                                                                         *)
(* AddAfter hands an item and its readyAt to the waitingLoop goroutine     *)
(* over a buffered channel; the loop keeps a sorted slice of the waiting   *)
(* entries and Adds each to the contained queue once it is ready.  The     *)
(* contained queue is used through its promise, WorkSet.  Time is the      *)
(* clock's, in whole units; it passes between any two steps.               *)
(***************************************************************************)
EXTENDS WorkItems, Integers, SequencesExt

CONSTANTS
  Callers,    \* the goroutines that call AddAfter
  ChanCap,    \* capacity of waitingForAddCh (1000 in the code)
  Delays,     \* the durations AddAfter is called with
  Horizon     \* bound: no request becomes ready after this time

ASSUME Bounds == ChanCap \in Nat \ {0} /\ Horizon \in Nat /\ Delays \subseteq Nat

VARIABLES
  pending, active, closed,   \* the contained queue (WorkSet)
  clock,                     \* q.clock
  waitingForAdd,             \* the loop's sorted slice of entries
  waitingTimeByEntry,        \* the loop's map from a key to its readyAt
  waitingForAddCh,           \* the buffered channel
  stopped,                   \* stopCh is closed
  loop,                      \* where the loop is
  now, readyEntries,         \* the loop's locals, 0 where they are dead
  timer,                     \* when nextReadyAt fires
  caller,                    \* where each caller is, and what it sends
  earliest,                  \* history: the earliest readyAt ever sent for a key
  owed                       \* history: the <<key, readyAt>> no Add has answered yet

qvars == <<pending, active, closed>>
listvars == <<waitingForAdd, waitingTimeByEntry>>
history == <<earliest, owed>>
vars == <<pending, active, closed, clock, waitingForAdd, waitingTimeByEntry,
          waitingForAddCh, stopped, loop, now, readyEntries, timer,
          caller, earliest, owed>>

Queue == INSTANCE WorkSet

Times == 0 .. Horizon
Entry == [data : Items, readyAt : Times]
Never == Horizon + 1              \* nextReadyAt = never
Idle == [at |-> "idle", data |-> NoItem, readyAt |-> 0]

DelayingInit ==
  /\ Queue!Init
  /\ clock = 0
  /\ waitingForAdd = <<>>
  /\ waitingTimeByEntry = [k \in {} |-> 0]
  /\ waitingForAddCh = <<>>
  /\ stopped = FALSE
  /\ loop = "top"
  /\ now = 0 /\ readyEntries = 0 /\ timer = Never
  /\ caller = [c \in Callers |-> Idle]
  /\ earliest = [k \in Items |-> Never] /\ owed = {}

-----------------------------------------------------------------------------
(***************************************************************************)
(* sort.Search over n entries, of which those in hits pass a monotone      *)
(* test: the least of them, or one past the end.                           *)
(***************************************************************************)
Search(n, hits) == IF hits = {} THEN n + 1 ELSE CHOOSE i \in hits : \A j \in hits : i <= j

\* Seeded fault: the search for a strictly later entry misses the one sought.
findEntryIndex_Strict(entries, existingTime, data) ==
  LET n     == Len(entries)
      first == Search(n, {i \in 1 .. n : entries[i].readyAt > existingTime})
  IN  Search(n, {i \in first .. n : entries[i].data = data})

findEntryIndex(entries, existingTime, data) ==
  LET n     == Len(entries)
      first == Search(n, {i \in 1 .. n : entries[i].readyAt >= existingTime})
  IN  Search(n, {i \in first .. n : entries[i].data = data})

\* The map with the time of an entry.
With(known, e) ==
  [k \in DOMAIN known \cup {e.data} |-> IF k = e.data THEN e.readyAt ELSE known[k]]

\* Seeded fault: the comparison that keeps the earlier of two times reversed.
insert_KeepsLater(entries, known, e) ==
  LET exists  == e.data \in DOMAIN known
      at      == findEntryIndex(entries, known[e.data], e.data)
      without == IF exists /\ at <= Len(entries) THEN RemoveAt(entries, at) ELSE entries
      index   == Search(Len(without), {i \in DOMAIN without : e.readyAt < without[i].readyAt})
  IN  IF exists /\ known[e.data] > e.readyAt
      THEN <<entries, known>>
      ELSE <<InsertAt(without, index, e), With(known, e)>>

\* The new slice and the new map.  Of two times for a key the earlier stays.
insert(entries, known, e) ==
  LET exists  == e.data \in DOMAIN known
      at      == findEntryIndex(entries, known[e.data], e.data)
      without == IF exists /\ at <= Len(entries) THEN RemoveAt(entries, at) ELSE entries
      index   == Search(Len(without), {i \in DOMAIN without : e.readyAt < without[i].readyAt})
  IN  IF exists /\ known[e.data] < e.readyAt
      THEN <<entries, known>>
      ELSE <<InsertAt(without, index, e), With(known, e)>>

(***************************************************************************)
(* Add of the contained queue, which ignores the key once it is shutting   *)
(* down.  It answers every request for the key that was due no earlier.    *)
(***************************************************************************)
AddToQueue(k) == IF closed THEN UNCHANGED qvars ELSE Queue!Mark(k)

AddEntry(e) ==
  /\ AddToQueue(e.data)
  /\ owed' = {r \in owed : r[1] # e.data \/ r[2] < e.readyAt}
  /\ UNCHANGED earliest

-----------------------------------------------------------------------------
(***************************************************************************)
(* AddAfter.  The readyAt is computed once, when the select is entered; a  *)
(* caller blocks there while the channel is full, until stopCh is closed.  *)
(***************************************************************************)
AddAfterRefused(c) ==
  /\ caller[c] = Idle
  /\ closed
  /\ UNCHANGED vars

AddAfterNow(c, k) ==
  /\ caller[c] = Idle
  /\ ~closed
  /\ 0 \in Delays
  /\ AddToQueue(k)
  /\ UNCHANGED <<clock, listvars, waitingForAddCh, stopped, loop,
                 now, readyEntries, timer, caller, history>>

AddAfterSelect(c, k, d) ==
  /\ caller[c] = Idle
  /\ ~closed
  /\ d > 0
  /\ clock + d \in Times
  /\ caller' = [caller EXCEPT ![c] = [at |-> "select", data |-> k, readyAt |-> clock + d]]
  /\ UNCHANGED <<qvars, clock, listvars, waitingForAddCh, stopped,
                 loop, now, readyEntries, timer, history>>

AddAfterSend(c) ==
  LET e == [data |-> caller[c].data, readyAt |-> caller[c].readyAt]
  IN  /\ caller[c].at = "select"
      /\ Len(waitingForAddCh) < ChanCap
      /\ waitingForAddCh' = Append(waitingForAddCh, e)
      /\ caller' = [caller EXCEPT ![c] = Idle]
      /\ earliest' = [earliest EXCEPT ![e.data] = IF @ < e.readyAt THEN @ ELSE e.readyAt]
      /\ owed' = owed \cup {<<e.data, e.readyAt>>}
      /\ UNCHANGED <<qvars, clock, listvars, stopped, loop, now,
                     readyEntries, timer>>

\* Seeded fault: a plain send, which ShutDown does not unblock.
AddAfterUnblock_Never(c) == FALSE /\ UNCHANGED vars

AddAfterUnblock(c) ==
  /\ caller[c].at = "select"
  /\ stopped
  /\ caller' = [caller EXCEPT ![c] = Idle]
  /\ UNCHANGED <<qvars, clock, listvars, waitingForAddCh, stopped,
                 loop, now, readyEntries, timer, history>>

AddAfter(c) ==
  \/ AddAfterRefused(c)
  \/ \E k \in Items : AddAfterNow(c, k) \/ \E d \in Delays : AddAfterSelect(c, k, d)
  \/ AddAfterSend(c)
  \/ AddAfterUnblock(c)

\* ShutDown: first the contained queue's, then close(stopCh).
DelayingShutDown ==
  /\ ~closed
  /\ Queue!Close
  /\ UNCHANGED <<clock, listvars, waitingForAddCh, stopped, loop,
                 now, readyEntries, timer, caller, history>>

CloseStopCh ==
  /\ closed /\ ~stopped
  /\ stopped' = TRUE
  /\ UNCHANGED <<qvars, clock, listvars, waitingForAddCh, loop, now,
                 readyEntries, timer, caller, history>>

-----------------------------------------------------------------------------
(***************************************************************************)
(* waitingLoop.                                                            *)
(***************************************************************************)
LoopShutdown ==
  /\ loop = "top"
  /\ closed
  /\ loop' = "exited"
  /\ waitingForAdd' = <<>>
  /\ waitingTimeByEntry' = [k \in {} |-> 0]
  /\ UNCHANGED <<qvars, clock, waitingForAddCh, stopped, now,
                 readyEntries, timer, caller, history>>

LoopNow ==
  /\ loop = "top"
  /\ ~closed
  /\ loop' = "ready"
  /\ now' = clock
  /\ readyEntries' = 0
  /\ UNCHANGED <<qvars, clock, listvars, waitingForAddCh, stopped,
                 timer, caller, history>>

NextIsReady ==
  /\ readyEntries < Len(waitingForAdd)
  /\ waitingForAdd[readyEntries + 1].readyAt <= now

LoopAddReady ==
  LET e == waitingForAdd[readyEntries + 1]
  IN  /\ loop = "ready"
      /\ NextIsReady
      /\ AddEntry(e)
      /\ waitingTimeByEntry' = [k \in DOMAIN waitingTimeByEntry \ {e.data}
                                  |-> waitingTimeByEntry[k]]
      /\ readyEntries' = readyEntries + 1
      /\ UNCHANGED <<clock, waitingForAdd, waitingForAddCh, stopped,
                     loop, now, timer, caller>>

\* The timer runs for readyAt - now from here on, however old now is.
LoopSetTimer ==
  LET rest == SubSeq(waitingForAdd, readyEntries + 1, Len(waitingForAdd))
  IN  /\ loop = "ready"
      /\ ~NextIsReady
      /\ waitingForAdd' = rest
      /\ readyEntries' = 0 /\ now' = 0
      /\ timer' = IF rest = <<>> THEN Never ELSE clock + (rest[1].readyAt - now)
      /\ loop' = "select"
      /\ UNCHANGED <<qvars, clock, waitingTimeByEntry, waitingForAddCh, stopped,
                     caller, history>>

LoopStopped ==
  /\ loop = "select"
  /\ stopped
  /\ loop' = "exited"
  /\ UNCHANGED <<qvars, clock, listvars, waitingForAddCh, stopped,
                 now, readyEntries, timer, caller, history>>

\* A tick of the heartbeat may have arrived at any time.
LoopHeartbeat ==
  /\ loop = "select"
  /\ loop' = "top" /\ timer' = Never
  /\ UNCHANGED <<qvars, clock, listvars, waitingForAddCh, stopped, now,
                 readyEntries, caller, history>>

LoopTimer ==
  /\ loop = "select"
  /\ timer <= clock
  /\ loop' = "top" /\ timer' = Never
  /\ UNCHANGED <<qvars, clock, listvars, waitingForAddCh, stopped,
                 now, readyEntries, caller, history>>

\* Seeded fault: an entry that is due on arrival is dropped, not added.
Receive_DropsLate ==
  LET e == Head(waitingForAddCh)
      r == insert(waitingForAdd, waitingTimeByEntry, e)
  IN  /\ waitingForAddCh' = Tail(waitingForAddCh)
      /\ IF e.readyAt > clock
         THEN waitingForAdd' = r[1] /\ waitingTimeByEntry' = r[2] /\ UNCHANGED <<qvars, history>>
         ELSE UNCHANGED <<qvars, listvars, history>>

\* Seeded fault: what arrives over the channel is added whatever its time.
Receive_Early ==
  /\ waitingForAddCh' = Tail(waitingForAddCh)
  /\ AddEntry(Head(waitingForAddCh)) /\ UNCHANGED listvars

Receive ==
  LET e == Head(waitingForAddCh)
      r == insert(waitingForAdd, waitingTimeByEntry, e)
  IN  /\ waitingForAddCh' = Tail(waitingForAddCh)
      /\ IF e.readyAt > clock
         THEN waitingForAdd' = r[1] /\ waitingTimeByEntry' = r[2] /\ UNCHANGED <<qvars, history>>
         ELSE AddEntry(e) /\ UNCHANGED listvars

LoopReceive ==
  /\ loop \in {"select", "drain"}
  /\ waitingForAddCh # <<>>
  /\ Receive
  /\ loop' = "drain" /\ timer' = Never
  /\ UNCHANGED <<clock, stopped, now, readyEntries, caller>>

LoopDrained ==
  /\ loop = "drain"
  /\ waitingForAddCh = <<>>
  /\ loop' = "top"
  /\ UNCHANGED <<qvars, clock, listvars, waitingForAddCh, stopped,
                 now, readyEntries, timer, caller, history>>

waitingLoop ==
  \/ LoopShutdown \/ LoopNow \/ LoopAddReady \/ LoopSetTimer
  \/ LoopStopped \/ LoopHeartbeat \/ LoopTimer \/ LoopReceive \/ LoopDrained

-----------------------------------------------------------------------------
(***************************************************************************)
(* The surroundings: time, and the workers that take keys and give them    *)
(* back.                                                                   *)
(***************************************************************************)
Tick ==
  /\ clock < Horizon
  /\ clock' = clock + 1
  /\ UNCHANGED <<qvars, listvars, waitingForAddCh, stopped, loop,
                 now, readyEntries, timer, caller, history>>

Worker ==
  /\ \E k \in Items : Queue!Start(k) \/ Queue!Finish(k)
  /\ UNCHANGED <<clock, listvars, waitingForAddCh, stopped, loop,
                 now, readyEntries, timer, caller, history>>

DelayingNext ==
  \/ \E c \in Callers : AddAfter(c)
  \/ DelayingShutDown \/ CloseStopCh
  \/ waitingLoop
  \/ Tick \/ Worker

(***************************************************************************)
(* The loop's goroutine and a caller that can return keep running, time    *)
(* passes, and ShutDown, once called, returns.  A Go select chooses at     *)
(* random among the cases that are ready, so one that is ready again and   *)
(* again is taken: strong fairness of the receive.                         *)
(***************************************************************************)
DelayingFairness ==
  /\ WF_vars(waitingLoop) /\ SF_vars(LoopReceive)
  /\ WF_vars(Tick) /\ WF_vars(CloseStopCh)
  /\ \A c \in Callers : WF_vars(AddAfterSend(c) \/ AddAfterUnblock(c))

DelayingSafety == DelayingInit /\ [][DelayingNext]_vars

DelayingSpec == DelayingSafety /\ DelayingFairness

-----------------------------------------------------------------------------
DelayingTypeOK ==
  /\ pending \in SUBSET Items /\ active \in SUBSET Items /\ closed \in BOOLEAN
  /\ clock \in Times /\ now \in Times /\ timer \in Nat
  /\ waitingForAdd \in Seq(Entry)
  /\ DOMAIN waitingTimeByEntry \subseteq Items
  /\ \A k \in DOMAIN waitingTimeByEntry : waitingTimeByEntry[k] \in Times
  /\ waitingForAddCh \in Seq(Entry) /\ Len(waitingForAddCh) <= ChanCap
  /\ stopped \in BOOLEAN
  /\ loop \in {"top", "ready", "select", "drain", "exited"}
  /\ readyEntries \in 0 .. Len(waitingForAdd)
  /\ caller \in [Callers -> {Idle} \cup [at : {"select"}, data : Items, readyAt : Times]]
  /\ owed \subseteq Items \X Times /\ earliest \in [Items -> 0 .. Never]

\* The entries of the slice the loop has not yet added in this round.
Waiting == SubSeq(waitingForAdd, readyEntries + 1, Len(waitingForAdd))

\* The slice is sorted by time and has one entry per key, and the map says
\* exactly what the slice says: the binary searches and the break at the first
\* entry that is not ready depend on it, and an entry the map does not know
\* could never be moved to an earlier time.
SliceMatchesMap ==
  /\ \A i, j \in DOMAIN Waiting :
       i < j => Waiting[i].readyAt <= Waiting[j].readyAt /\ Waiting[i].data # Waiting[j].data
  /\ {<<e.data, e.readyAt>> : e \in ToSet(Waiting)}
       = {<<k, waitingTimeByEntry[k]>> : k \in DOMAIN waitingTimeByEntry}

\* A request that was not answered is still on its way, in the channel or in
\* the slice, and the time it is waiting for is no later than the one asked
\* for: merging two requests for a key never postpones it.
NoRequestPostponed ==
  loop # "exited" =>
    \A r \in owed : \E e \in ToSet(waitingForAddCh) \cup ToSet(Waiting) :
      e.data = r[1] /\ e.readyAt <= r[2]

\* The loop never adds a key before the earliest time anybody asked for.
NeverEarly ==
  [][ waitingLoop => \A k \in pending' \ pending : earliest[k] <= clock ]_vars

\* A key somebody asked for is put on the queue, or the queue shuts down.
DelayedKeysArrive ==
  \A k \in Items : (\E t \in Times : <<k, t>> \in owed) ~> (k \in pending \/ closed)

\* After ShutDown the loop ends and nobody stays blocked in AddAfter, also not
\* on a channel the loop no longer reads.
ShutdownReleasesAll ==
  closed ~> (loop = "exited" /\ \A c \in Callers : caller[c] = Idle)
=============================================================================
