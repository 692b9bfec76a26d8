------------------------------ MODULE DeltaFIFO ------------------------------
(***************************************************************************)
(* The queue of changes between a Reflector and its consumer:              *)
(* pkg/client/cache/delta_fifo.go, with knownObjects (the consumer's       *)
(* store) and without a compressor, as every informer creates it.          *)
(*                                                                         *)
(* Each method runs with f.lock held and is one step; Resync lists the     *)
(* known keys and then takes the lock once per key.  Pop runs the process  *)
(* function under the lock, so the consumer's store changes with it.       *)
(***************************************************************************)
EXTENDS DistinctSeq

CONSTANTS
  Keys,        \* what KeyOf returns
  Objects,     \* the versions of an object
  Absent,      \* no object
  MaxDeltas    \* bound on the deltas of one key, for model checking

ASSUME KeysFinite == IsFiniteSet(Keys)
ASSUME AbsentIsNoObject == Absent \notin Objects

VARIABLES
  items,                   \* f.items; an empty list is a key not in the map
  queue,                   \* f.queue
  populated,               \* f.populated
  initialPopulationCount,  \* f.initialPopulationCount
  known,                   \* f.knownObjects
  resync,                  \* the keys a Resync under way still has to sync
  told,                    \* history: what the calls last said of each key
  lossy,                   \* history: where the last Replace lost that
  unpopped                 \* history: keys of the first Replace not popped yet

fifovars == <<items, queue, populated, initialPopulationCount, known, resync,
              told, lossy, unpopped>>

DeltaTypes == {"Added", "Updated", "Deleted", "Sync"}

\* unknown marks an Object that is a DeletedFinalStateUnknown.
Delta == [type : DeltaTypes, obj : Objects, unknown : BOOLEAN]

NewDelta(t, o, u) == [type |-> t, obj |-> o, unknown |-> u]

Newest(deltas) == deltas[Len(deltas)]

willObjectBeDeleted(deltas) == deltas # <<>> /\ Newest(deltas).type = "Deleted"

\* Of two deletions in a row the one with the most information stays.
isDeletionDup(a, b) == IF b.unknown THEN a ELSE b

(***************************************************************************)
(* The deltas of a key after queueActionLocked: a Sync after a Deleted is  *)
(* ignored, a Deleted after a Deleted is merged with it (dedupDeltas).     *)
(***************************************************************************)
\* Seeded fault: no dedupDeltas.
newDeltas_NoDedup(deltas, d) ==
  IF d.type = "Sync" /\ willObjectBeDeleted(deltas) THEN deltas ELSE Append(deltas, d)

newDeltas(deltas, d) ==
  IF d.type = "Sync" /\ willObjectBeDeleted(deltas) THEN deltas
  ELSE IF d.type = "Deleted" /\ willObjectBeDeleted(deltas)
  THEN [deltas EXCEPT ![Len(deltas)] = isDeletionDup(d, @)]
  ELSE Append(deltas, d)

\* Seeded fault: the key is appended although it is in the queue.
queueActionLocked_Requeues(k, d) ==
  /\ items' = [items EXCEPT ![k] = newDeltas(@, d)]
  /\ queue' = Append(queue, k)

queueActionLocked(k, d) ==
  /\ items' = [items EXCEPT ![k] = newDeltas(@, d)]
  /\ queue' = IF items[k] = <<>> THEN Append(queue, k) ELSE queue

\* What the consumer's store will say of a key once its deltas are processed.
Outcome(deltas, old) ==
  IF deltas = <<>> THEN old
  ELSE IF Newest(deltas).type = "Deleted" THEN Absent ELSE Newest(deltas).obj

Init ==
  /\ items = [k \in Keys |-> <<>>]
  /\ queue = <<>>
  /\ populated = FALSE
  /\ initialPopulationCount = 0
  /\ known = [k \in Keys |-> Absent]
  /\ resync = {}
  /\ told = [k \in Keys |-> Absent]
  /\ lossy = {}
  /\ unpopped = {}

-----------------------------------------------------------------------------
Put(k, o, t) ==
  /\ queueActionLocked(k, NewDelta(t, o, FALSE))
  /\ populated' = TRUE
  /\ told' = [told EXCEPT ![k] = o]
  /\ lossy' = lossy \ {k}
  /\ UNCHANGED <<initialPopulationCount, known, resync, unpopped>>

Add(k, o) == Put(k, o, "Added")

Update(k, o) == Put(k, o, "Updated")

(***************************************************************************)
(* Delete.  o is the object the watch event carries.  A key that neither   *)
(* the store nor the queue has is ignored.                                 *)
(***************************************************************************)
Delete(k, o) ==
  /\ IF known[k] = Absent /\ items[k] = <<>>
     THEN UNCHANGED <<items, queue>>
     ELSE queueActionLocked(k, NewDelta("Deleted", o, FALSE))
  /\ populated' = TRUE
  /\ told' = [told EXCEPT ![k] = Absent]
  /\ lossy' = lossy \ {k}
  /\ UNCHANGED <<initialPopulationCount, known, resync, unpopped>>

(***************************************************************************)
(* AddIfNotPresent, with the single Sync delta of Controller.Requeue.      *)
(***************************************************************************)
addIfNotPresent(k, deltas) ==
  /\ populated' = TRUE
  /\ IF items[k] # <<>>
     THEN UNCHANGED <<items, queue>>
     ELSE items' = [items EXCEPT ![k] = deltas] /\ queue' = Append(queue, k)

AddIfNotPresent(k, o) ==
  /\ addIfNotPresent(k, <<NewDelta("Sync", o, FALSE)>>)
  /\ told' = IF items[k] # <<>> THEN told ELSE [told EXCEPT ![k] = o]
  /\ lossy' = IF items[k] # <<>> THEN lossy ELSE lossy \ {k}
  /\ UNCHANGED <<initialPopulationCount, known, resync, unpopped>>

LessOne(n) == IF n > 0 THEN n - 1 ELSE n

(***************************************************************************)
(* Replace.  list gives the object of every key the server listed.  Every  *)
(* listed object is queued as a Sync, then every key the store knows and   *)
(* the list has not as a Deleted.  The new keys enter the queue in the     *)
(* order of the list and of the store's map, which is no order.            *)
(***************************************************************************)
Gone(list) == {k \in Keys \ DOMAIN list : known[k] # Absent}

(***************************************************************************)
(* What a Replace leaves wrong: the Sync of a listed key is ignored when   *)
(* its deletion is still queued, and no Deleted is made for a key that is  *)
(* not listed, not in the store yet and still queued.                      *)
(***************************************************************************)
LostByReplace(list) ==
  {k \in DOMAIN list : willObjectBeDeleted(items[k])} \cup
  {k \in Keys \ DOMAIN list :
     known[k] = Absent /\ items[k] # <<>> /\ ~willObjectBeDeleted(items[k])}

\* Seeded fault: the count of the first population is one short.
Replace_CountsShort(list) ==
  /\ items' = [k \in Keys |->
       IF k \in DOMAIN list THEN newDeltas(items[k], NewDelta("Sync", list[k], FALSE))
       ELSE IF k \in Gone(list) THEN newDeltas(items[k], NewDelta("Deleted", known[k], TRUE))
       ELSE items[k]]
  /\ \E p \in Orders({k \in DOMAIN list : items[k] = <<>>}),
        r \in Orders({k \in Gone(list) : items[k] = <<>>}) : queue' = queue \o p \o r
  /\ populated' = TRUE
  /\ IF populated
     THEN UNCHANGED <<initialPopulationCount, unpopped>>
     ELSE /\ initialPopulationCount' = LessOne(Cardinality(DOMAIN list))
          /\ unpopped' = DOMAIN list \cup Gone(list)
  /\ told' = [k \in Keys |-> IF k \in DOMAIN list THEN list[k] ELSE Absent]
  /\ lossy' = LostByReplace(list)
  /\ UNCHANGED <<known, resync>>

Replace(list) ==
  /\ items' = [k \in Keys |->
       IF k \in DOMAIN list THEN newDeltas(items[k], NewDelta("Sync", list[k], FALSE))
       ELSE IF k \in Gone(list) THEN newDeltas(items[k], NewDelta("Deleted", known[k], TRUE))
       ELSE items[k]]
  /\ \E p \in Orders({k \in DOMAIN list : items[k] = <<>>}),
        r \in Orders({k \in Gone(list) : items[k] = <<>>}) : queue' = queue \o p \o r
  /\ populated' = TRUE
  /\ IF populated
     THEN UNCHANGED <<initialPopulationCount, unpopped>>
     ELSE /\ initialPopulationCount' = Cardinality(DOMAIN list) + Cardinality(Gone(list))
          /\ unpopped' = DOMAIN list \cup Gone(list)
  /\ told' = [k \in Keys |-> IF k \in DOMAIN list THEN list[k] ELSE Absent]
  /\ lossy' = LostByReplace(list)
  /\ UNCHANGED <<known, resync>>

(***************************************************************************)
(* Resync: the keys known now, then one syncKey for each.                  *)
(***************************************************************************)
ResyncKeys ==
  /\ resync = {}
  /\ resync' = {k \in Keys : known[k] # Absent}
  /\ UNCHANGED <<items, queue, populated, initialPopulationCount, known, told,
                 lossy, unpopped>>

\* Seeded fault: the store's object is queued behind a change that is newer.
syncKey_Always(k) ==
  /\ k \in resync
  /\ resync' = resync \ {k}
  /\ IF known[k] = Absent
     THEN UNCHANGED <<items, queue>>
     ELSE queueActionLocked(k, NewDelta("Sync", known[k], FALSE))
  /\ UNCHANGED <<populated, initialPopulationCount, known, told, lossy, unpopped>>

syncKey(k) ==
  /\ k \in resync
  /\ resync' = resync \ {k}
  /\ IF known[k] = Absent \/ items[k] # <<>>
     THEN UNCHANGED <<items, queue>>
     ELSE queueActionLocked(k, NewDelta("Sync", known[k], FALSE))
  /\ UNCHANGED <<populated, initialPopulationCount, known, told, lossy, unpopped>>

(***************************************************************************)
(* Pop.  process brings the store up to date with the deltas, or returns   *)
(* ErrRequeue without having done so.  The `!ok` branch of the code, for a *)
(* queued key without deltas, is never taken: see QueueMatchesItems.       *)
(***************************************************************************)
Pop ==
  LET id == Head(queue)
  IN  /\ queue # <<>>
      /\ queue' = Tail(queue)
      /\ items' = [items EXCEPT ![id] = <<>>]
      /\ known' = [known EXCEPT ![id] = Outcome(items[id], @)]
      /\ initialPopulationCount' = LessOne(initialPopulationCount)
      /\ unpopped' = unpopped \ {id}
      /\ UNCHANGED <<populated, resync, told, lossy>>

PopRequeue ==
  LET id == Head(queue)
  IN  /\ queue # <<>>
      /\ queue' = Append(Tail(queue), id)
      /\ initialPopulationCount' = LessOne(initialPopulationCount)
      /\ unpopped' = unpopped \ {id}
      /\ populated' = TRUE
      /\ UNCHANGED <<items, known, resync, told, lossy>>

HasSynced == populated /\ initialPopulationCount = 0

-----------------------------------------------------------------------------
\* The lists a server can return: an object for each key of some set.
Lists == UNION {[S -> Objects] : S \in SUBSET Keys}

HasRoom(k) == Len(items[k]) < MaxDeltas

Produce ==
  \/ \E k \in Keys, o \in Objects :
       HasRoom(k) /\ (Add(k, o) \/ Update(k, o) \/ Delete(k, o))
  \/ \E k \in Keys, o \in Objects : AddIfNotPresent(k, o)
  \/ (\A k \in Keys : HasRoom(k)) /\ \E list \in Lists : Replace(list)

Resync == ResyncKeys \/ \E k \in Keys : syncKey(k)

Consume == Pop \/ PopRequeue

Next == Produce \/ Resync \/ Consume

Spec == Init /\ [][Next]_fifovars

-----------------------------------------------------------------------------
TypeOK ==
  /\ items \in [Keys -> Seq(Delta)]
  /\ queue \in Seq(Keys)
  /\ populated \in BOOLEAN
  /\ initialPopulationCount \in Nat
  /\ known \in [Keys -> Objects \cup {Absent}]
  /\ resync \in SUBSET Keys
  /\ told \in [Keys -> Objects \cup {Absent}]
  /\ lossy \in SUBSET Keys
  /\ unpopped \in SUBSET Keys

\* "We depend on the property that items in the set are in the queue and vice
\* versa" (the comment on DeltaFIFO.items): a key is queued once if it has
\* deltas, and not at all if it has none.
QueueMatchesItems ==
  /\ Distinct(queue)
  /\ RangeOf(queue) = {k \in Keys : items[k] # <<>>}

\* Every deletion handed to the consumer is of an object it has: the store has
\* it when the list of deltas starts with a Deleted, and no two Deleted follow
\* each other, however re-lists and watch events meet.
DeletionsAreOfSomething ==
  \A k \in Keys : \A n \in 1 .. Len(items[k]) :
    items[k][n].type = "Deleted" =>
      IF n = 1 THEN known[k] # Absent ELSE items[k][n - 1].type # "Deleted"

\* Once its deltas are processed the store agrees with the last call about a
\* key, in whatever order lists, watch events, resyncs and pops meet, except
\* for a key the last Replace has lost and no later call has mentioned.
StoreCatchesUp ==
  \A k \in Keys \ lossy : Outcome(items[k], known[k]) = told[k]

\* "upon return, it will contain the items in the map" (Replace): what the
\* last call says exists will be in the store.
ListedIsKept ==
  \A k \in Keys : told[k] # Absent => Outcome(items[k], known[k]) # Absent

\* HasSynced answers true only when every key of the first Replace was popped:
\* the count is taken by the oldest keys of the queue, and by nothing a Resync
\* or a requeue puts behind them.
SyncedMeansPopped == HasSynced => unpopped = {}
=============================================================================
