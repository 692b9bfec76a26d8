------------------------------ MODULE Reflector ------------------------------
(***************************************************************************)
(* An informer's pipeline: pkg/client/cache/reflector.go lists and watches *)
(* the API server and feeds the DeltaFIFO, whose consumer pops into the    *)
(* store (controller.go processLoop), while a second goroutine resyncs.    *)
(*                                                                         *)
(* The server is its history of writes.  The resource version of a write   *)
(* is its place in the history, and an object is the version that wrote    *)
(* it.                                                                     *)
(***************************************************************************)
EXTENDS DeltaFIFO

CONSTANTS
  MaxRV,        \* bound on the writes; Objects is 1 .. MaxRV
  MaxFailures   \* bound on the lists and watches that fail

ASSUME ObjectsAreVersions == MaxRV \in Nat /\ Objects = 1 .. MaxRV

VARIABLES
  log,              \* the server's writes: <<[type, key], ...>>
  at,               \* where ListAndWatch is
  listed,           \* the version of the list it holds
  resourceVersion,  \* its local of the same name
  failures,         \* how many requests have failed
  backwards,        \* history: a list was older than what was seen before
  seen              \* history: the newest version of each key the store had

reflvars == <<log, at, listed, resourceVersion, failures, backwards, seen>>
vars == <<items, queue, populated, initialPopulationCount, known, resync,
          told, lossy, unpopped, log, at, listed, resourceVersion, failures,
          backwards, seen>>

(***************************************************************************)
(* The server's state at version r: each key's last writer, if that was    *)
(* not a deletion.                                                         *)
(***************************************************************************)
Writes(k, r) == {n \in 1 .. r : log[n].key = k}

StateAt(r) ==
  [k \in Keys |->
     IF Writes(k, r) = {} THEN Absent
     ELSE LET last == CHOOSE n \in Writes(k, r) : \A m \in Writes(k, r) : m <= n
          IN  IF log[last].type = "Deleted" THEN Absent ELSE last]

Write(k) ==
  LET exists == StateAt(Len(log))[k] # Absent
  IN  /\ Len(log) < MaxRV
      /\ \E t \in IF exists THEN {"Modified", "Deleted"} ELSE {"Added"} :
           log' = Append(log, [type |-> t, key |-> k])
      /\ UNCHANGED <<fifovars, at, listed, resourceVersion, failures, backwards, seen>>

ReflectorInit ==
  /\ Init
  /\ log = <<>>
  /\ at = "list" /\ listed = 0 /\ resourceVersion = 0
  /\ failures = 0
  /\ backwards = FALSE
  /\ seen = [k \in Keys |-> 0]

-----------------------------------------------------------------------------
(***************************************************************************)
(* ListAndWatch.  The list is served at version "0": from a cache that may *)
(* be any number of writes behind.  An error returns, and wait.Until calls *)
(* ListAndWatch again.                                                     *)
(***************************************************************************)
Fail == failures < MaxFailures /\ failures' = failures + 1

List ==
  /\ at = "list"
  /\ listed' \in 0 .. Len(log)
  /\ at' = "sync"
  /\ UNCHANGED <<fifovars, log, resourceVersion, failures, backwards, seen>>

ListFails ==
  /\ at = "list"
  /\ Fail
  /\ UNCHANGED <<fifovars, log, at, listed, resourceVersion, backwards, seen>>

syncWith ==
  LET state == StateAt(listed)
      list  == [k \in {k \in Keys : state[k] # Absent} |-> state[k]]
  IN  /\ at = "sync"
      /\ Replace(list)
      /\ at' = "watch"
      /\ resourceVersion' = listed
      /\ listed' = 0
      /\ backwards' = (backwards \/ listed < resourceVersion)
      /\ UNCHANGED <<log, failures, seen>>

\* Seeded fault: the watch is opened one version too late.
Watch_SkipsOne ==
  /\ at = "watch"
  /\ at' = "watching"
  /\ resourceVersion' = IF resourceVersion < Len(log) THEN resourceVersion + 1
                        ELSE resourceVersion
  /\ UNCHANGED <<fifovars, log, listed, failures, backwards, seen>>

\* Seeded fault: the watch is opened without a resource version.
Watch_FromStart ==
  /\ at = "watch"
  /\ at' = "watching"
  /\ resourceVersion' = 0
  /\ UNCHANGED <<fifovars, log, listed, failures, backwards, seen>>

Watch ==
  /\ at = "watch"
  /\ at' = "watching"
  /\ UNCHANGED <<fifovars, log, listed, resourceVersion, failures, backwards, seen>>

\* Connection refused: the watch is tried again; any other error re-lists.
WatchFails ==
  /\ at = "watch"
  /\ Fail
  /\ at' \in {"watch", "list"}
  /\ UNCHANGED <<fifovars, log, listed, resourceVersion, backwards, seen>>

\* watchHandler, for one event of the watch.
watchEvent ==
  LET n == resourceVersion + 1
      e == log[n]
  IN  /\ at = "watching"
      /\ resourceVersion < Len(log)
      /\ \/ e.type = "Added"    /\ Add(e.key, n)
         \/ e.type = "Modified" /\ Update(e.key, n)
         \/ e.type = "Deleted"  /\ Delete(e.key, n)
      /\ resourceVersion' = n
      /\ UNCHANGED <<log, at, listed, failures, backwards, seen>>

\* The watch ends: closed, it is opened again where it ended; after an error
\* event, or when it was very short, ListAndWatch returns and lists again.
WatchEnds ==
  /\ at = "watching"
  /\ Fail
  /\ at' \in {"watch", "list"}
  /\ UNCHANGED <<fifovars, log, listed, resourceVersion, backwards, seen>>

ListAndWatch ==
  List \/ ListFails \/ syncWith \/ Watch \/ WatchFails \/ watchEvent \/ WatchEnds

\* The resync goroutine, which runs once there is a first list.
ResyncLoop == at \in {"watch", "watching"} /\ ResyncKeys /\ UNCHANGED reflvars

SyncKey == (\E k \in Keys : syncKey(k)) /\ UNCHANGED reflvars

processLoop ==
  /\ Pop
  /\ seen' = [k \in Keys |-> IF known'[k] \in Objects /\ known'[k] > seen[k]
                            THEN known'[k] ELSE seen[k]]
  /\ UNCHANGED <<log, at, listed, resourceVersion, failures, backwards>>

ReflectorNext ==
  \/ \E k \in Keys : Write(k)
  \/ ListAndWatch
  \/ ResyncLoop \/ SyncKey
  \/ processLoop

(***************************************************************************)
(* The reflector's goroutine and the consumer keep running and requests    *)
(* are answered; that requests fail only so often is MaxFailures.          *)
(***************************************************************************)
Fairness ==
  /\ WF_vars(List) /\ WF_vars(syncWith) /\ WF_vars(Watch) /\ WF_vars(watchEvent)
  /\ WF_vars(processLoop)

ReflectorSpec == ReflectorInit /\ [][ReflectorNext]_vars /\ Fairness

-----------------------------------------------------------------------------
\* "Reflector watches a specified resource and causes all changes to be
\* reflected in the given store": whatever was lost, repeated or delivered
\* late, the queued deltas lead the store to the server's state at
\* resourceVersion, except where a Replace has lost a key.
StoreFollowsServer ==
  at \in {"watch", "watching"} =>
    \A k \in Keys \ lossy : Outcome(items[k], known[k]) = StateAt(resourceVersion)[k]

\* The store never goes back to an older version of an object, nor brings a
\* deleted one back, as long as no list was behind what the watch had said: a
\* resync that races newer events must not.
NeverBackInTime ==
  [][ ~backwards =>
      \A k \in Keys :
        known'[k] # Absent /\ known'[k] # known[k] => known'[k] > seen[k] ]_vars

\* Once the server rests and requests succeed, the store equals the server,
\* except for the keys a Replace has lost.
EventuallyConsistent ==
  <>[](\A k \in Keys \ lossy : known[k] = StateAt(Len(log))[k])
=============================================================================
