# The control loops of Kubernetes in TLA+

This directory specifies the machinery that Kubernetes' control loops are built
from: the watch cache that serves the API server's watches, the informers that
mirror the API server, the work queues, the expectations that let a controller
act on a stale mirror, the cache with which the scheduler runs ahead of its own
bindings, and the leader election that keeps one controller manager or scheduler
active. The repository
is Kubernetes at about version 1.5/1.6 (2.5 million lines of Go, most of them
generated, vendored or API types). What is modelled here is the part that is
concurrent, small, and used by everything else.

TLC model-checks the modules on small instances; the theorems in the `*Proofs`
modules are checked by TLAPS for every value of the constants. `PROJECT.json`
lists the components, runs, seeded faults, findings, hazards and theorems, and
maps every definition to the lines it models.

    tlc -workers 2 -config MCWorkQueue.cfg MCWorkQueue    # any pair below
    tlapm WorkQueueProofs.tla                             # any *Proofs module

## 1. Inventory

### How the parts interact

    storage --list/watch--> watch cache
                                |
                                v
    API server --list/watch--> Reflector --deltas--> DeltaFIFO --pop--> SharedInformer
        ^                                                                 |  indexer (the store)
        |                                                                 v
        |                                              event handlers --keys--> work queue
        |                                                                 |     (+ delaying, rate limiting)
        +------ create / delete / update <------ controller's sync <------+
                                                   (ReplicaSet, expectations)

A reflector lists the API server, then watches from the list's version, and
writes what it is told into a DeltaFIFO. One goroutine pops each key's deltas,
applies them to the indexer and distributes notifications to listeners; each
listener has two goroutines of its own. A controller's handlers turn
notifications into keys on a work queue; its workers take keys, read the indexer
and call the API server. The scheduler is such a loop with two watches of its
own: pods without a node go into a plain FIFO, pods with a node into its cache,
which also counts the pods it has only just decided about. Only the leader runs
these loops. On the other side of the watches the API server keeps one reflector
per resource, remembers the last events in a window, and hands each new event to
all who watch.

### Components, state, operations

| component | state | operations | hard behaviour |
|---|---|---|---|
| work queue, `pkg/util/workqueue/queue.go` | `queue`, `dirty`, `processing`, `shuttingDown`, a condition variable | Add, Get, Done, ShutDown | workers asleep or woken but without the lock; re-adding during processing; shutdown |
| delaying queue, `delaying_queue.go` | the above, a channel, a sorted slice and a map of waiting entries, timer | AddAfter, ShutDown, waitingLoop | clock read once a round; entries moved; full channel; two-step ShutDown |
| rate limiters, `default_rate_limiters.go` | failures per item | When, Forget, NumRequeues | overflow of the product |
| DeltaFIFO, `pkg/client/cache/delta_fifo.go` | `items`, `queue`, `populated`, `initialPopulationCount`, `knownObjects` | Add, Update, Delete, AddIfNotPresent, Replace, Resync, Pop | re-lists meeting queued deltas; resync against stale objects |
| reflector and controller, `reflector.go`, `controller.go` | last version seen, where in ListAndWatch | ListAndWatch, watchHandler, resync goroutine, processLoop | broken watches, stale lists, failed requests |
| shared informer, `shared_informer.go` | indexer, listeners, their pending notifications, `started`, `blockDeltas` | Run, AddEventHandler, HandleDeltas, pop, run | handlers joining while deltas flow; stopping sleepers |
| replica set controller and expectations, `replicaset/replica_set.go`, `controller_utils.go` | expectations and UID sets, the key, locals of a sync | handlers, syncReplicaSet, manageReplicas | store behind own writes; lost notifications; partial failure; restart |
| leader election, `pkg/client/leaderelection` | the lock object; each client's observed record and time | acquire, renew, tryAcquireOrRenew | time, calls that fail after being carried out, crashes |
| scheduler cache, `plugin/pkg/scheduler/schedulercache` | pod states, assumed pods, node information | AssumePod, FinishBinding, ForgetPod, AddPod, UpdatePod, RemovePod, node operations, expiry | pods known by name only; expiry racing confirmation; checks that end the process |
| scheduler, `scheduler.go`, `factory/factory.go` | the queue of pods, goroutines that bind and retry | scheduleOne, its binding goroutine, the error function, event handlers | two watches in no common order; bindings that fail after being carried out; pods created again |
| watch cache, `pkg/storage/cacher.go`, `watch_cache.go` | window and store, the channel to the dispatcher, watchers and their channels | startCaching, processEvent, dispatchEvent, Watch, Stop, process | window against dispatch; slow readers; locks held while waiting; termination |
| etcd stores, `pkg/storage/etcd*` | etcd | GuaranteedUpdate, watch, list | conditional writes |
| kubelet, `pkg/kubelet` | pod workers, status versions, volume world | syncLoop, UpdatePod, reconcilers | a goroutine per pod, external runtimes |
| other controllers, allocators, proxy, tools, federation | | | see `components` in PROJECT.json |

The properties that make each modelled part correct are listed with its module
in section 3. Not modelled, and why: section 7.

## 2. Plan

Done, in this order, so that what everything rests on comes first:

1. `WorkItems` (the keys), `WorkSet` (abstract), `WorkQueue`: the queue, its promise,
   and the refinement.
2. `DelayingQueue` (composes `WorkSet`), `RateLimiter`, and `RateLimitingQueue`,
   which composes the two; `WorkQueueProofs`, about all the queues of the package.
3. `DeltaFIFO`; `Reflector` (extends `DeltaFIFO` with the server and
   ListAndWatch); `ReflectorProofs`, about both.
4. `SharedInformer`, `SharedInformerProofs`.
5. `ReplicaSet` with the expectations, `ReplicaSetProofs`.
6. `LeaderElection`, `LeaderElectionProofs`.
7. `Cacher`: the watch cache; `CacherProofs`.
8. `SchedulerCache`, and `Scheduler`, which extends it with scheduleOne, the
   binding and retrying goroutines and the two watches; `SchedulerProofs`.

Candidates after that: pod workers of the kubelet, nested pending operations,
service IP allocation, GuaranteedUpdate, the scheduler's snapshots.

## 3. Modules and the code

Definitions keep the names of the code. An action is a critical section or the
stretch between two points where other goroutines can interfere. Operators with
a suffix (`AddMarked_Queues`) are seeded faults: plausible bugs that are used by
no specification; each property is violated when its fault replaces the
definition of the same name, which shows that the property depends on that line.

**WorkQueue** (`queue.go`). The lock makes Add, Done and ShutDown atomic. Get is
the loop around `cond.Wait`: a worker is *idle*, *waiting* (asleep), *woken* (has
to take the lock and test again), *busy*, or *exited*. Signal wakes any one
sleeper. `WorkSet` is the promise: a set of pending keys and a set of keys in
processing, where a pending key is eventually started. Properties:
`QueueIsPendingWork` (the slice is exactly the dirty keys not in processing, each
once), `OneWorkerPerKey`, `NoLostWakeup` (while somebody sleeps each queued key
has a woken worker coming for it), `ShutdownDrains`, `ShutdownTerminates`,
`ImplementsWorkSet` (with liveness). `DistinctSeq` has the few operators on
sequences without repetition that these modules share.

**DelayingQueue** (`delaying_queue.go`). The contained queue is `WorkSet`, which
`WorkQueue` implements. waitingLoop is split where it reads the clock, adds each
ready entry (every Add takes and leaves the queue's lock), sets its timer, and at each case of
its select; AddAfter where it blocks in its select; ShutDown between its two
statements. `findEntryIndex` is the binary search with `sort.Search` given by its
contract. Properties: `SliceMatchesMap`, `NoRequestPostponed`, `NeverEarly`,
`DelayedKeysArrive`, `ShutdownReleasesAll`. Two requests for one key are merged
into the earlier one: a key is guaranteed to arrive by the earliest time asked
for, not once for every request. A second ShutDown of a delaying queue would
close a closed channel; the model calls it once, as all callers do.

**RateLimiter** (`default_rate_limiters.go`). The exponential limiter's product is
computed in floating point, tested against the largest integer, and converted.
Width stands for 64. The test `backoff > MaxInt64` compares with 2^63 after
rounding, which a product meets exactly only when the base delay is a power of
two; the limiters in the repository do not use one. (The comments of the type
and its constructor say 10^failures; the code computes 2^failures. It is a
matter of wording only.)

**RateLimitingQueue** (`rate_limitting_queue.go`) puts the two together:
AddRateLimited asks the limiters and calls AddAfter with what they say. Limiters
count nanoseconds, the clock of the queue moves in ticks. It adds
`BackoffNeverShrinks`: the delays of an item that keeps failing never get shorter,
also beyond the range of the integer.

**DeltaFIFO** (`delta_fifo.go`). For a FIFO as informers create it: with
knownObjects, without a compressor. An object is a version, Resync lists the
known keys and then takes the lock key by key (`ResyncKeys`, `syncKey`), Pop
applies the deltas to the store while holding the lock, as NewInformer's Process
does, or fails with ErrRequeue. `told` records what the last call said of each
key. Properties: `QueueMatchesItems`, `DeletionsAreOfSomething`,
`StoreCatchesUp`, `SyncedMeansPopped`. `StoreCatchesUp` exempts `lossy`, the keys
of two losses of Replace:
- a listed object whose queued deltas end in Deleted: its Sync is dropped (finding
  `ListedIsKept`);
- an object that is queued but not yet in knownObjects and that the list lacks:
  Replace looks for deletions among the known objects only (lines 477-496), so
  no Deleted is queued, the object is added to the store when it is popped and
  stays there until the next list.

**Reflector** (`reflector.go`, `controller.go`). `DeltaFIFO` driven by
ListAndWatch against a server that is its history of writes; a list may be
served at any version of it, since it is asked for at version "0". Properties:
`StoreFollowsServer` (queue and store lead to the server's state at
resourceVersion), `NeverBackInTime` (resyncs do not revive old objects, outside
lists that are themselves older), `EventuallyConsistent`.

**SharedInformer** (`shared_informer.go`). Handlers are added before Run, or
join later under blockDeltas and get the indexer's contents as additions.
HandleDeltas updates the indexer and distributes, holding blockDeltas; distribute
and each listener's pop and run interleave. There are two places for goroutines
per listener because of the finding below. Properties: `ListenerMatchesIndexer`
(a handler's calls add up to the indexer), `CallsMakeSense`,
`CacheAtLeastAsFresh`, `StopEndsListeners`. `JoinWhileStarting` says whether
handlers may be added between Run's setting of `started` and its start of the
listeners: off in the main run, on in the run that shows the finding.

**ReplicaSet** (`replica_set.go`, `controller_utils.go`). One replica set. The
server's pods, the informer's store and the handlers each lag behind the one
before; the worker runs in steps StartSync (lookup and expectations), ListPods,
Manage (manageReplicas up to its goroutines), one step per call, and FinishSync.
A pod name is used again only when nobody has heard of the old pod any more.
Watches are lost and pods listed again at any time. A list is asked for at
version "0" (reflector.go:242), so that it may skip events the watch had not told
(`ListAhead`) or be behind those it had (`ListBehind`: `past` has the last
`MaxBack` events, which the new watch tells again). Calls fail with or without having been
carried out, others end pods, rescale or delete the replica set, at once or after a
while with a DeletionTimestamp (`doomed`), during which manageReplicas is not called,
and the controller restarts. Properties: `NoSurplus` (a sync never sets out to create a
pod too many), `NoShortage`, `EventuallyReplicas`, `DeletedLeavesNothing`.
The first two are not claimed after a list that went back, after a restart, or after a
call that was reported as failed though it was carried out (`unsure`). A list that goes
back really breaks them, and TLC shows how when it does not set `unsure`: it hides a pod
whose creation was observed, the expectations are met, and the sync creates another; or
it shows a deleted pod as active, and the sync deletes a live one. After a restart the code does not
give them: the workers start once the pods are listed, but the additions of the
listed pods may still be on their way to addPod, which counts them as the
creations the first sync expects. Convergence is claimed in all cases, after lists
that went back too. The informer applies a list to its store in one step, with no deltas
queued: how queued deltas and a list meet is DeltaFIFO's and Reflector's subject. Lists of
replica sets that go back are not modelled: an older number of replicas is a
rescaling, a deleted replica set shown again is left out. Expectations
expire (after five minutes) only when no call, event or notification is under
way: the model takes the timeout as longer than any delay.

**LeaderElection** (`leaderelection.go`, `endpointslock.go`, `wait.go`). Times
are ages (how long ago), so that the state is finite; clocks run at one rate and
processes are not suspended for longer than a call may take. A try
(tryAcquireOrRenew) takes up to CallTime from its start to its end. acquire tries at
the ticks of JitterUntil, renew polls until RenewDeadline; Poll lets a try that
is under way finish and makes a last one. Writes are conditional on the resource
version of the object the client got. Properties: `AtMostOneLeader`,
`EventuallyLed`. The result needs LeaseDuration > RenewDeadline + 3 CallTime,
where NewLeaderElector only tests LeaseDuration > RenewDeadline; the bound is
tight (TLC finds two leaders when the two sides are equal). With the default 15 s
and 10 s a try has to take less than 5/3 s. Not in the model: the
record's LeaderTransitions (which the first renewal resets to 0, as line 254 does
not copy it, although the package comment asks to monitor it), and the record's
times, which others do not read.

**Cacher** (`cacher.go`, `watch_cache.go`). The storage is its history of writes,
versions are consecutive, an object is the write that made it. startCaching's
goroutine lists, replaces, and passes on events one by one; processEvent updates
window and store under the cache's lock and, still holding it, waits for room in
`incoming`. dispatchEvent holds the Cacher's lock while it gives the event to each
watcher in some order, waiting for a full one until the time budget is used up.
Watch is three steps: it waits for ready, takes the cache's read lock and its
first events, then the Cacher's lock to register. A watcher's goroutine sends the
first events, then the dispatched ones; `done` may close at any point. `view` and
`got` are what a client makes of its events. Properties: `NothingLost` (what a
client has and what is on its way to it add up to what it selects),
`OnlyConsecutive`, `NeverSendsOnClosed`, `ReaderCatchesUp`, `CacheKeepsUp`.
`lostEdge` exempts a watch from one version before that of an empty window, which
loses a write (finding below). Events still in `incoming` when a watcher registers
are delivered a second time, as process compares with the version asked for and
not with the last initial event (line 926); clients end up in the right state,
and the properties allow it. `Settled` stands for wait.Until's pause of a second
before the next list: the model takes it that a Watch which was let through by
`ready` has registered by then, and the dispatcher has caught up.

**SchedulerCache** (`schedulercache/cache.go`, `node_info.go`). Each method holds
the lock and is one step. A NodeInfo is how often it counts each pod: the pods it
lists and the resources they request are added and subtracted together. nil
dereferences and Fatalf set `crashed`. Property: `NodesAddUp`.

**Scheduler** (`scheduler.go`, `factory/factory.go`). scheduleOne is split where
it calls AssumePod; a binding goroutine before Bind, FinishBinding and ForgetPod;
a retry between its wait, its Get and its AddIfNotPresent. `podQueue` is the FIFO
as a set, since the order is of no consequence here. The events of a pod keep their order on each
watch, those of different pods and different watches do not. Both watches end at
any time and are followed by a list at version "0", which may be ahead of the watch or up
to `MaxBack` states of the pod behind it (`unassignedPast`, `assignedPast`), and from
which the next watch goes on. `RelistUnassigned` is FIFO.Replace. `RelistAssigned` is
DeltaFIFO.Replace: of the events on their way, some were received and are queued as
deltas; they stay, and `Replace` puts behind them what the list says, with its three
weaknesses: `Lost` (a Sync is ignored behind a queued deletion, and no deletion is
detected of a pod that is queued but not yet known), `Mistaken` (a tombstone holds the
object the lister had, which need not be the last one queued) and `Moved` (deletion and
re-creation look like an update). A list of all pods is one step for each pod, and the
deltas of a pod are handed to the cache one by one, with a list possible in between;
both allow more than the code does. Pods are known by name, and are
created again under the same name. Properties, besides `NodesAddUp`:
`NoOvercommit`, `NeverKillsItself`, `NeverForgotten`, `CapacityComesBack`. Three
histories say where they are not claimed (`NodesAddUp` holds without exception):
- `doubt` has the pods of which the scheduler was told wrong: their Bind was
  carried out and reported as failed, they expired though bound or with events
  undelivered, a list of the informer was behind what the watch had told, hid that
  they were created again elsewhere or was got wrong by Replace, or
  FinishBinding of an earlier binding of the same name started the deadline of one
  that was under way. In these cases the code does overcommit (a list that goes back
  takes a bound pod out of the cache, and its room is given away before the watch tells
  of it again), and does end itself:
  in `ForgetPod`, which reads the state before testing that there is one (cache.go:164),
  or by Fatalf in UpdatePod and RemovePod (lines 264, 291), also because AddPod on
  another node than the assumed one keeps the assumed pod in the state (line 226). Section
  7 gives the steps to both ends. `NoOvercommit` and `NeverKillsItself` exempt `doubt`;
- `lossy`, some of those in doubt: the pods of which Replace lost or mistook a delta.
  `CapacityComesBack` exempts only these, and holds when a list merely goes back;
- `dropped` has the pods AssumePod refused: scheduleOne returns without a retry,
  as its comment admits, and the pod waits for its next event. A pod created again
  and seen before the deletion of its predecessor is enough.

An assumed pod expires 30 s after FinishBinding; the model takes that as longer
than a goroutine needs from Bind's return to ForgetPod, but not as longer than the
informer may lag.

## 4. Runs and bounds

| run | instance | distinct states | shows |
|---|---|---|---|
| workqueue | 3 keys, 3 workers | 2.3 thousand | everything under WorkQueue, refinement with liveness |
| ratelimitingqueue | 2 keys, 1 caller, channel of 2, delays 0 and 2 or the limiters', clock to 2, 3 calls, width 4, base 3 | 415 thousand | the delaying and rate limiting queue |
| deltafifo | 2 keys, 2 objects, up to 2 deltas queued | 108 thousand | everything under DeltaFIFO |
| reflector | 2 keys, 3 writes, 2 failures, up to 4 deltas | 663 thousand | the pipeline against the server |
| reflector_kept | the same | | **violated**: `ListedIsKept` |
| sharedinformer | 2 keys, 2 handlers, 2 versions | 593 thousand | everything under SharedInformer |
| sharedinformer_start | 1 key, 2 handlers, joining while starting | | **violated**: `OneCallAtATime` |
| replicaset | 3 pods, up to 2 replicas, burst 2, 1 failure, 1 disruption, lists up to 1 event behind | 1.1 million | everything under ReplicaSet |
| leaderelection | 2 clients, lease 6, deadline 2, retry 1, call 1, 3 failures | 252 thousand | everything under LeaderElection |
| cacher | 1 key, 2 values, 1 watch, window of 2, channels of 1, 3 writes, 1 failure | 444 thousand | everything under Cacher |
| cacher_reconnect | the same | | **violated**: `ReconnectMissesNothing` |
| scheduler | 2 pods, 2 nodes of capacity 1, 4 outside events, lists up to 1 state behind | 3.5 million | everything under SchedulerCache and Scheduler |

Why these are enough to be interesting:
- three workers are needed for one to sleep, one to be woken and one to barge in;
  with three keys all can be busy while more work is queued;
- two keys and delays that differ give every order in the sorted slice, ties
  included, and a clock that reaches the longest delay lets each entry become due
  in the channel or in the slice; three calls fill the channel of two and leave
  one caller blocked. With base 3 and width 4 the delays are 3, 6 and then 12,
  which no longer fits and is capped at 7;
- two deltas per key is where dedup, dropped syncs and requeues meet; `dedupDeltas`
  looks only at the last two. The proofs remove this bound;
- three writes contain create, delete, create again and an update in between, the
  longest history the losses of Replace need;
- two handlers let one join while the other is in the middle of a delta;
- with two replicas and a burst of two a sync makes two parallel calls of which
  one fails; a third pod name is one more than is wanted, so that a surplus is
  possible. One disruption already includes each single pod ended, rescaling in
  both directions, deletion, a list that goes back, and a restart at any step. One event
  back is enough to hide a pod that was created or to show one that was deleted. Names of
  pods in `past` are not used again, so that convergence needs MaxReplicas + MaxBack
  names;
- two clients suffice for rivalry; three failures allow a leader to miss all its
  renewals within the deadline (a crash counts as a failure);
- with channels of one, a window of two and three writes everything that can be
  full is full, and the window has dropped an event; two values let an object
  enter and leave a selection. There is one watch: watchers share only the
  dispatcher and the locks, so that a second one multiplies the states and adds
  that a Watch waits while another watcher is slow. A Watch that waits for the
  dispatcher, and a watcher so slow that it stops dispatcher and reflector, both
  occur with one;
- two pods for nodes of capacity one make each placement a rivalry. Four outside
  events allow both pods, one created again, and one fault; or one pod created
  twice and two faults or lists. One state back is a pod without its node, or an earlier
  pod of the same name; Budget and MaxBack are any numbers in the proofs. The cases under
  `doubt`, `lossy` and `dropped` all occur.

Symmetry is used in runs without liveness only, for keys and objects in
`deltafifo` and for pods and nodes in `scheduler`. Deadlock is checked for
`deltafifo` and `leaderelection`, whose systems never stop; the others end when
shut down, deleted, or at a bound.

## 5. Fairness

- Goroutines that can run do run (weak fairness of a worker's Get and Done, the
  waiting loop, pop and run of listeners, the consumer of the FIFO, the worker
  of the replica set). A worker that holds a key calls Done: all workers in the
  repository do so in a deferred call.
- A Go select picks at random among ready cases, hence strong fairness for
  receiving from the delaying queue's channel.
- In the API server the reflector, the dispatcher and the watchers' goroutines
  run and the time budget of a blocked send ends. Clients need not read:
  `ReaderCatchesUp` is about those that do, `CacheKeepsUp` holds whatever they do.
- Time passes; requests are answered, and fail only a bounded number of times
  (`MaxFailures`): convergence is claimed for when failures cease.
- Nobody is obliged to call Add, AddAfter, ShutDown, Resync or to write to the
  server, to crash, or to lose a watch.
- Pods that are being deleted are removed in the end (by the kubelet or the pod
  garbage collector), and expectations that stay unmet expire.

## 6. What is proved

All for arbitrary constants, under the named assumptions only.

**WorkQueueProofs**, first part (finitely many workers, at least one; `NoItem` no item):
the work queue.
`TypeCorrect`, `NoKeyLostOrDoubled`, `NoKeyTwiceAtOnce` (`OneWorkerPerKey`),
`WakeupsSuffice`, `ShutdownLeavesNothing`
and `Refinement` (`Spec => Promise!Safety`). The inductive invariant adds to the
checked ones that a worker exits only during shutdown. `WakeupsSuffice` rests on
counting: the number of queued keys is at most the number of woken workers while
one sleeps; `DistinctSeqProofs` has the lemmas on sequences without repetition
(appending, taking the head, concatenating, their length as a cardinality), and
that a set of numbers that is bounded has a least and a greatest element, which the
proofs about the reflector and the informer need for "the last delta such that".

**WorkQueueProofs**, second part (`Bounds`: the capacity of the channel is at least one;
any keys, callers and delays, whatever the limiters answer): the delaying and the rate
limiting queue. `DelayingInvariance`,
`SliceAndMapAgree` (`SliceMatchesMap`), `RequestsAreKept` (`NoRequestPostponed`) and
`NoKeyTooEarly` (the action property `NeverEarly`), all of `RateLimitingSpec`, whose
steps are the delaying queue's with any delay. `DelayingInv` has the types, that no entry
counts as added outside the loop over the ready ones and that the loop's `now` is not
ahead of the clock (`RoundOK`), order and agreement of slice and map (`SliceOK`), and
that no entry on its way is earlier than the earliest request for its key (`Timely`),
without which nothing says that an entry that is due was asked for. Under it are
lemmas on the code's own operators: `FindsEntry` (in an ordered slice the two searches
of findEntryIndex end at the entry sought, also among equal times), `PlaceIs`,
`InsertOrdered` and `InsertGood` (what insert keeps, and that of every entry the key
stays with its time or an earlier one). `AddEntryOwed` is the argument for
`NoRequestPostponed`: a request an Add does not answer has another entry.

**ReflectorProofs**, first part (finitely many keys; `Absent` no object; any number of
deltas): the DeltaFIFO. `FIFOInvariance`, `TypeCorrect`, `QueueAndItemsAgree`, `DeletionsMakeSense`,
`LastWordWins`, `SyncedNotTooEarly`. The strengthening is `CountCovers`: a key of
the first list that was not popped yet is among the first
`initialPopulationCount` of the queue. It is what makes HasSynced right although
every Pop lowers the count.

**ReflectorProofs**, second part (on top of the former; `ObjectsAreVersions`: an object is a
version of the server's history). `ReflectorInvariant`, `StoreIsLedToServer`
(`StoreFollowsServer`), `StoreNeverGoesBack` (the action property
`NeverBackInTime`), for any number of writes, failures and queued deltas. A step of
the pipeline is a step of the FIFO, so the invariant of the first part is kept.
To it come `ToldState` (what the FIFO was last told of a key is the server's state
at resourceVersion) and, as long as no list was older than what came before,
`NoneStale`: the store has the newest version it ever had of a key or none, and what
its queued deltas lead to is that version, a newer one, or none. The latter is
needed because a resync puts the store's object back into the queue: that it
revives nothing follows only from what else may be queued, and from what Replace
leaves of the keys it loses.

**SharedInformerProofs** (`InformerAssumption`: the names for "no object", "nobody"
and "HandleDeltas" are none of the versions and handlers). `BaseInvariant`,
`TypeCorrect` and `CacheIsFresh` (`CacheAtLeastAsFresh`) hold whatever
`JoinWhileStarting` is. `InformerInvariant`, `NothingLostOrTwice`
(`ListenerMatchesIndexer`) and `CallsSuitHandler` (`CallsMakeSense`) assume that no
handler joins while Run starts: otherwise a handler may have two pairs of
goroutines that overtake each other, which is the finding below. `Base` has the
types, who has no goroutines (`Spare`), that the deltas being handled fit the
indexer and one another (`WorkMakesSense`) and that no notification, wherever it is,
is newer than the indexer (`Freshness`). `IInv` adds `Quiet` (the second pair of
goroutines is unused, and nothing has happened to a handler that is no listener) and
`AllGood`: what is on its way to a handler, from the notification its pop holds
through the pending ones to the one being distributed, suits what the handler has
been called with, one by one (`Sense`), and ends in what the indexer has, apart from
the keys a joining handler has still to be told of (`Matches`). `CallsMakeSense`
alone is not inductive: whether a call suits depends on all that lie before it.

**ReplicaSetProofs** (`Sizes`: the bounds are numbers, the burst at least one; lists
any number of events ahead or behind).
`Invariance`, `TypeCorrect`, `ExpectationsStopSurplus` (`NoSurplus`) and
`ExpectationsStopShortage` (`NoShortage`), which like those properties claim nothing
after a list that went back. `IInv` has the types and, as long as the
controller is not `unsure`, `Sure`: how events, store and notifications of each pod
follow the server (`Chain`); that the creations expected are at least the calls still
to be made and the pods whose addition no handler has seen (`CreationsCounted`); that
the count of expected deletions is the size of the UID set (`DeletionsCounted`); and
that the pods the store shows though others ended them are no more than were ended
(`LossCounted`). So when the expectations are met, a sync sees all that the syncs
before it did (`SyncSeesAll`), and the pods it lists are those the server has, but for
what others ended (`ListIsGood`). The counts are cardinalities of finite sets; there
is a lemma for each action.

**LeaderElectionProofs** (any clients; `Durations`). `TypeCorrect`, `OneLeader`.
A leader's last write is at most RenewDeadline + 3 CallTime old; a client that
is about to overwrite another's record has seen it unchanged for LeaseDuration;
the two exclude each other. `IInv` adds that what was seen was seen after it was
written, that leaders and winners of a write hold the lock with a record whose
age is bounded by their own clocks, and where Poll can be at which age.

**CacherProofs** (`Sizes`: finitely many keys, `Everything` no value, window and channels
of any size but zero; any watchers, any bound on writes and failures). `CacherInvariant`,
`WatchLosesNothing` (`NothingLost`), `DispatcherNeverSendsOnClosed`
(`NeverSendsOnClosed`) and `DeliversOnlyConsecutive` (the action property
`OnlyConsecutive`). `NothingLost` is about the sum of all that is on its way to a client,
so each step has to be shown to move it along or to add to it what is right. The proof
follows a client through its queues: `Go` is what messages make of it, its state, the
versions it was told of (`S`) and those it was not told of although it was told of later
ones (`bad`), and going through one sequence and then another is going through both
(`GoJoined`). `Sent`, `Started`, `Queued` and `All` are the client after what is in
result and in hand, then the initial events, then the input, then what is dispatched and
in `incoming`. `Gapless` says that nothing in `bad` concerns it, `UpToDate` also that it
has the state of the version. For each watcher the invariant (`Fine`) has: what is sent is
gapless, whatever becomes of the watcher; so is what is queued while it is not stopped;
a registered one is up to date with the cache after `All`, and one that waits for the
Cacher's lock after its initial events alone. That registration closes the gap between
window and dispatcher is `SeenAgain`: a client that is up to date with the end of a run
of events stays so when it sees the run, or a part of it, again. `FineDispatch` is where
the trigger's index matters: a watcher that is not among the targets would have seen
nothing of the event. The cache's part (`CacheInv`) is that store, window and
`incoming` are the history's state and last events, also when the window has wrapped
around (`WindowMoves`, `WindowSince`); `ReflectorInv` has what the locks and the pause
before a list exclude. Recursion is avoided: the state at a version, and what a client
makes of messages, are given by the last write or message about each key.

**SchedulerProofs** (any nodes, capacity, Budget and MaxBack; `SchedulerAssumption`:
finitely many pods, `Unscheduled` and `NoPod` are neither nodes nor one another, `NoPod` is
no pod, a tombstone is no node).
`SchedulerInvariant`, `CountsAddUp` (`NodesAddUp`), `NoPodForgotten`
(`NeverForgotten`), `NoCapacityLost` (`CapacityComesBack`), and on top of them
`SchedulerSafe`, `NeverOvercommits` (`NoOvercommit`) and `ChecksHold`
(`NeverKillsItself`). That a pod is
counted once is not inductive by itself: forgetting and expiry subtract it on the
node of its state, an event on the node the lister has. So `IInv` says where: an
assumed pod on the node of its state, a confirmed one on the node the lister has
(its state may name another, cache.go:225), while the process runs and unless the pod
is `lossy`. `WatchesTrue`
gives the other two theorems their way out: the newest state on each watch, whether still
to come or the last it told, is the truth, also after a list that went back (`Told`,
`Announced`); unless the pod is lossy, the last event is, and without events the lister
has it; and for a pod not in doubt the watch has told exactly what lister and queued
deltas lead to (`Read`). That a list keeps this is `RelistIsListed` (the list is a state
of the log of the watch, `LogShape`), `ReplaceShape` and `ListedTrue`. `Owned` says that an assumed pod
is finished or has a goroutine that has not come to ForgetPod. The lemmas first
treat each operation of the cache for the pod it is about (`CacheStep`) and leave
the others alone (`Frame`, `Others`). The second invariant, `Safe`, is about the pods
not in `doubt`. `Held`: one that is bound has a state on its node. `Honest`: its
events say that node and at most the last says it is gone (`News`), so that no check of
the cache fails; and a binding that was not carried out is of an assumed pod of which no
event is on its way, does not expire before its answer, and is the only such one
(`UnderWay`). That a list which does not put the pod in doubt leaves no other news of it
is `NewsListed`. `Room`: the pods held on a node fit, and on the node of the pod
scheduleOne has decided about there is room for one more, because until AssumePod
no other step makes the scheduler hold more. A node's requested resources are defined as the number
of units counted on it, so that they can be compared with the pods held by an injection.

Only model-checked: all liveness (TLAPS does not prove it under fairness, nor
anything about ENABLED), and `BackoffNeverShrinks` (powers of two are induction over
data). Scheduler states no fairness: what must happen there is stated as
invariants that somebody is left to do it.

## 7. Findings

- `reflector_kept`: Replace drops a listed object whose deletion is still queued
  (delta_fifo.go:305, against the comment at line 433). The store lacks a live
  object until it changes again or is listed again.
- `sharedinformer_start`: a handler added while Run is starting gets two pairs of
  goroutines and is called concurrently (shared_informer.go:181-186, against the
  comment at line 40).
- `cacher_reconnect`: a watch that starts one version before that of an empty window
  is served although the write of that version is in no event
  (watch_cache.go:443, against the comment on Watch in interfaces.go:112). It takes
  a cache that has listed and seen no event since.

Two more ways in which the code goes wrong were met with the scheduler's model, behind
the exemption of `doubt` (no run of their own shows them):
- ForgetPod dereferences the state of a pod before it tests that
  there is one (cache.go:164), although its default branch (line 178) returns an
  error for such a pod. It takes a Bind that was carried out and reported as failed, and
  whose pod was added and removed by the informer meanwhile.
- An event names another node than the cache has the pod on, and
  RemovePod ends the process as corrupted (cache.go:291), where the interface expects
  that events are late or missing and pods expire (interface.go:53-57). A pod bound,
  deleted, created again, expired and assumed anew on another node before the informer
  tells of the first binding is enough: the late Added moves its count and leaves its
  state, and the late Deleted then names the first node. A list that goes back leads to
  the same.

## 8. What is not modelled, and why

PROJECT.json lists every part with its reason. In short: API types, conversion,
generated clients, scripts and vendored code have no control logic of their own;
the API server, kubelet runtimes, proxy and tools are mostly I/O or data
transformation; the other controllers are built from the parts modelled here, and
their own logic is future work.

Within the modelled parts: metrics, logging and events; key function errors;
DeltaFIFO's nil knownObjects and compressor branches (no informer uses them) and
RetryOnError (no caller sets it); more than one Resync at a time; adoption and
release of pods, overlapping selectors, label changes and MinReadySeconds in the
replica set controller; deletion of the lock object, and clocks of different
rates, in leader election; Cacher.Stop (only tests call it; with a full `incoming`
it would wait for a reflector that waits for the dispatcher that has left, line
630), dispatchEvent's branch for a trigger that is not supported (cacher.go:598-611, a
misconfiguration), and List and Get from the cache, which change nothing; in the scheduler the
predicates and priorities beyond whether a pod still fits, extenders, node
readiness, a Bind that is carried out after its call timed out, pods that get their node
from somebody else, and restarts.
Three hazards are known and outside the models: a Watch that is delayed for more
than a second between `ready` and its registration, while the cache lists again, survives
that list and misses what lies between (cacher.go:297); the scheduler's snapshot of a node
that was removed and added again may stay the old one, when the new NodeInfo's
generation, which starts at zero, meets the old number (cache.go:83); and a
restarted scheduler does not wait for the first list of the pods that have nodes
(factory.go:457). The API server, the processes' surroundings, `sync.Cond`,
`sort.Search` and time are modelled from how the code uses them and marked
external in the map.
