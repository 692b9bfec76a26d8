----------------------------- MODULE ReplicaSet -----------------------------
(***************************************************************************)
(* The controller of one replica set and its expectations:                 *)
(* pkg/controller/replicaset/replica_set.go, the expectations of           *)
(* pkg/controller/controller_utils.go.                                     *)
(*                                                                         *)
(* The pods are the API server's.  The informer's store (podLister) lags   *)
(* behind them, and the handlers (addPod, updatePod, deletePod) lag behind *)
(* the store.  A list takes the store to any later version of the server,  *)
(* or back to an earlier one.  One worker at a time syncs a key (see       *)
(* WorkQueue), while the informers and handlers go on.  No one else        *)
(* creates matching pods.                                                  *)
(***************************************************************************)
EXTENDS DistinctSeq

CONSTANTS
  MaxPods,        \* bound on the pods there may be (the quota)
  MaxReplicas,    \* bound on rs.Spec.Replicas
  burstReplicas,  \* rsc.burstReplicas
  MaxFailures,    \* bound on the API calls that fail
  MaxDisruptions, \* bound on what others do: pods ended, rescaling, the
                  \* replica set deleted, the controller restarted, and on
                  \* the lists that go back
  MaxBack         \* bound on how many events a list goes back

ASSUME Sizes ==
  /\ MaxPods \in Nat /\ MaxReplicas \in Nat /\ burstReplicas \in Nat \ {0}
  /\ MaxFailures \in Nat /\ MaxDisruptions \in Nat /\ MaxBack \in Nat

VARIABLES
  exists, replicas,  \* the replica set in rsLister, and its Spec.Replicas
  doomed,            \* it has a DeletionTimestamp
  rsNote,            \* its deletion is on its way to the handler
  pods,              \* the server's state of each pod
  events,            \* the server's events the informer has not seen
  past,              \* the last events it has seen
  store,             \* podLister: the state of each pod the informer has seen
  notes,             \* the informer's notifications not handled yet
  expectations,      \* the ControlleeExpectations of the key
  uids,              \* its UIDSet
  dirty,             \* the key is queued, or will be when its sync is done
  at,                \* where the worker is in syncReplicaSet
  want,              \* its copy of rs.Spec.Replicas
  needsSync,         \* its rsNeedsSync, and no DeletionTimestamp
  filteredPods,      \* its local of the same name
  creates, deletes,  \* the calls manageReplicas has still to make
  failed,            \* one of them failed
  failures, disruptions,
  killed,            \* history: how many pods others ended
  unsure             \* history: the controller was restarted, a list went back,
                     \* or a call was carried out and reported as failed

rsvars == <<exists, replicas, doomed, rsNote>>
informer == <<events, past, store, notes>>
expvars == <<expectations, uids>>
locals == <<want, needsSync, filteredPods, creates, deletes, failed>>
history == <<killed, unsure>>
vars == <<exists, replicas, doomed, rsNote, pods, events, past, store, notes,
          expectations, uids, dirty, at, want, needsSync, filteredPods, creates,
          deletes, failed, failures, disruptions, killed, unsure>>

Pods == 1 .. MaxPods
States == {"none", "active", "failed", "terminating"}

\* FilterActivePods: a pod that failed, or that is being deleted, is not active.
Active(s) == {p \in Pods : s[p] = "active"}

None == [set |-> FALSE, add |-> 0, del |-> 0, expired |-> FALSE]

Init ==
  /\ exists = TRUE /\ replicas \in 0 .. MaxReplicas
  /\ doomed = FALSE /\ rsNote = FALSE
  /\ pods = [p \in Pods |-> "none"]
  /\ events = <<>> /\ past = <<>> /\ store = pods /\ notes = <<>>
  /\ expectations = None /\ uids = {}
  /\ dirty = FALSE /\ at = "idle"
  /\ want = 0 /\ needsSync = FALSE /\ filteredPods = {}
  /\ creates = 0 /\ deletes = {} /\ failed = FALSE
  /\ failures = 0 /\ disruptions = 0 /\ killed = 0 /\ unsure = FALSE

-----------------------------------------------------------------------------
(***************************************************************************)
(* ControllerExpectations.                                                 *)
(***************************************************************************)
SetExpectations(add, del) ==
  expectations' = [set |-> TRUE, add |-> add, del |-> del, expired |-> FALSE]

\* Seeded fault: one of the two counts is enough.
Fulfilled_Either == expectations.add <= 0 \/ expectations.del <= 0

Fulfilled == expectations.add <= 0 /\ expectations.del <= 0

\* Seeded fault: expectations that are not met are waited for without end.
SatisfiedExpectations_NoExpiry == ~expectations.set \/ Fulfilled

SatisfiedExpectations == ~expectations.set \/ Fulfilled \/ expectations.expired

CreationObserved ==
  /\ expectations' = IF expectations.set THEN [expectations EXCEPT !.add = @ - 1]
                     ELSE expectations
  /\ UNCHANGED uids

DeletionObserved(p) ==
  IF p \in uids
  THEN /\ expectations' = IF expectations.set THEN [expectations EXCEPT !.del = @ - 1]
                          ELSE expectations
       /\ uids' = uids \ {p}
  ELSE UNCHANGED expvars

DeleteExpectations == expectations' = None /\ uids' = {}

\* Seeded fault: a key that is being synced is not queued again.
enqueueReplicaSet_OnlyIdle == dirty' = (dirty \/ at = "idle")

enqueueReplicaSet == dirty' = TRUE

(***************************************************************************)
(* Five minutes pass (isExpired).  Every call has returned and its events  *)
(* have been handled by then: ExpectationsTimeout "should be set based on  *)
(* the expected latency of watch events".                                  *)
(***************************************************************************)
Expire ==
  /\ expectations.set /\ ~Fulfilled /\ ~expectations.expired
  /\ creates = 0 /\ deletes = {} /\ events = <<>> /\ notes = <<>>
  /\ expectations' = [expectations EXCEPT !.expired = TRUE]
  /\ UNCHANGED <<rsvars, pods, informer, uids, dirty, at, locals,
                 failures, disruptions, history>>

-----------------------------------------------------------------------------
(***************************************************************************)
(* The server, and those who use it beside the controller.                 *)
(***************************************************************************)
Becomes(p, s) ==
  /\ pods' = [pods EXCEPT ![p] = s]
  /\ events' = Append(events, [pod |-> p, state |-> s, was |-> pods[p]])

Disrupt == disruptions < MaxDisruptions /\ disruptions' = disruptions + 1

\* A pod fails, or somebody else deletes it, gracefully or at once.
Kill(p) ==
  /\ Disrupt
  /\ pods[p] = "active"
  /\ \E s \in States \ {"active"} : Becomes(p, s)
  /\ killed' = killed + 1
  /\ UNCHANGED <<rsvars, past, store, notes, expvars, dirty, at, locals, failures,
                 unsure>>

\* The kubelet removes a pod whose grace period is over, the pod garbage
\* collector one that failed.
Remove(p) ==
  /\ pods[p] \in {"terminating", "failed"}
  /\ Becomes(p, "none")
  /\ UNCHANGED <<rsvars, past, store, notes, expvars, dirty, at, locals, failures,
                 disruptions, history>>

Scale ==
  /\ Disrupt
  /\ exists
  /\ replicas' \in 0 .. MaxReplicas \ {replicas}
  /\ UNCHANGED <<exists, doomed, rsNote, pods, informer, expvars, dirty, at, locals,
                 failures, history>>

\* The replica set is removed, or is to be removed when its finalizers are done.
DeleteRS ==
  /\ exists
  /\ IF doomed THEN UNCHANGED disruptions ELSE Disrupt
  /\ \/ exists' = FALSE /\ doomed' = FALSE /\ rsNote' = TRUE
     \/ ~doomed /\ doomed' = TRUE /\ UNCHANGED <<exists, rsNote>>
  /\ UNCHANGED <<replicas, pods, informer, expvars, dirty, at, locals,
                 failures, history>>

-----------------------------------------------------------------------------
(***************************************************************************)
(* The informers.                                                          *)
(***************************************************************************)
Note(p, old, new) ==
  [pod |-> p, state |-> new,
   type |-> IF new = "none" THEN "delete" ELSE IF old = "none" THEN "add" ELSE "update"]

\* The last events of a sequence, as many as a list may go back.
Recent(s) == IF Len(s) > MaxBack THEN SubSeq(s, Len(s) - MaxBack + 1, Len(s)) ELSE s

\* A watch event reaches the store, and its notification is on the way.
Observe ==
  LET e == Head(events)
  IN  /\ events # <<>>
      /\ events' = Tail(events)
      /\ past' = Recent(Append(past, e))
      /\ store' = [store EXCEPT ![e.pod] = e.state]
      /\ notes' = Append(notes, Note(e.pod, store[e.pod], e.state))
      /\ UNCHANGED <<rsvars, pods, expvars, dirty, at, locals, failures,
                     disruptions, history>>

\* The pods a list shows to be different, in any order.  A pod created and
\* removed since is never heard of.
Notes(old, new) ==
  {[n \in DOMAIN o |-> Note(o[n], old[o[n]], new[o[n]])] :
     o \in Orders({p \in Pods : old[p] # new[p]})}

(***************************************************************************)
(* A list has the state after the next k events, or the state before the   *)
(* last k that were seen: it is served from a cache (ResourceVersion "0"), *)
(* of a server that need not be the one the watch came from.  The watch    *)
(* goes on from the version of the list, so the k events come again.       *)
(***************************************************************************)
Listed(k) ==
  [p \in Pods |->
     LET seen == {n \in 1 .. k : events[n].pod = p}
     IN  IF seen = {} THEN store[p]
         ELSE events[CHOOSE n \in seen : \A m \in seen : m <= n].state]

Unlisted(k) ==
  [p \in Pods |->
     LET again == {n \in Len(past) - k + 1 .. Len(past) : past[n].pod = p}
     IN  IF again = {} THEN store[p]
         ELSE past[CHOOSE n \in again : \A m \in again : n <= m].was]

ListAhead(k) ==
  /\ store' = Listed(k)
  /\ events' = SubSeq(events, k + 1, Len(events))
  /\ past' = Recent(past \o SubSeq(events, 1, k))

ListBehind(k) ==
  /\ store' = Unlisted(k)
  /\ events' = SubSeq(past, Len(past) - k + 1, Len(past)) \o events
  /\ past' = SubSeq(past, 1, Len(past) - k)
  /\ unsure' = TRUE

\* The watch is lost and the informer lists again.
Relist ==
  /\ \/ \E k \in 1 .. Len(events) : ListAhead(k) /\ UNCHANGED <<disruptions, unsure>>
     \/ \E k \in 1 .. Len(past) : ListBehind(k) /\ Disrupt
  /\ \E ns \in Notes(store, store') : notes' = notes \o ns
  /\ UNCHANGED <<rsvars, pods, expvars, dirty, at, locals, failures, killed>>

\* The handler of the replica set's events.  Besides its addition and its
\* updates there are resyncs, and the updates of its status, at any time.
updateRS ==
  /\ exists
  /\ enqueueReplicaSet
  /\ UNCHANGED <<rsvars, pods, informer, expvars, at, locals, failures,
                 disruptions, history>>

\* The handler of its deletion is enqueueReplicaSet.
HandleDeletion ==
  /\ rsNote
  /\ rsNote' = FALSE
  /\ enqueueReplicaSet
  /\ UNCHANGED <<exists, replicas, doomed, pods, informer, expvars, at, locals, failures,
                 disruptions, history>>

deletePod(p) == DeletionObserved(p) /\ enqueueReplicaSet

addPod(n) ==
  IF n.state = "terminating" THEN deletePod(n.pod)
  ELSE CreationObserved /\ enqueueReplicaSet

updatePod(n) ==
  IF n.state = "terminating" THEN deletePod(n.pod)
  ELSE enqueueReplicaSet /\ UNCHANGED expvars

\* The handler of the oldest notification.  getPodReplicaSet finds nothing when
\* the replica set is not in rsLister.
HandlePod ==
  LET n == Head(notes)
  IN  /\ notes # <<>>
      /\ notes' = Tail(notes)
      /\ \/ ~exists /\ UNCHANGED <<expvars, dirty>>
         \/ exists /\ n.type = "add" /\ addPod(n)
         \/ exists /\ n.type = "update" /\ updatePod(n)
         \/ exists /\ n.type = "delete" /\ deletePod(n.pod)
      /\ UNCHANGED <<rsvars, pods, events, past, store, at, locals, failures,
                     disruptions, history>>

-----------------------------------------------------------------------------
(***************************************************************************)
(* The worker: processNextWorkItem, syncReplicaSet and manageReplicas.     *)
(***************************************************************************)
ClearLocals ==
  /\ want' = 0 /\ needsSync' = FALSE /\ filteredPods' = {}
  /\ creates' = 0 /\ deletes' = {} /\ failed' = FALSE

\* Get, the lookup of the replica set, and its expectations: what goes on
\* between the three reads could as well come before or after them.
StartSync ==
  /\ at = "idle" /\ dirty
  /\ dirty' = FALSE
  /\ \/ /\ ~exists
        /\ DeleteExpectations
        /\ UNCHANGED <<at, locals>>
     \/ /\ exists
        /\ at' = "list"
        /\ want' = replicas
        /\ needsSync' = (SatisfiedExpectations /\ ~doomed)
        /\ UNCHANGED <<expvars, filteredPods, creates, deletes, failed>>
  /\ UNCHANGED <<rsvars, pods, informer, failures, disruptions, history>>

ListPods ==
  /\ at = "list"
  /\ at' = "manage"
  /\ filteredPods' = Active(store)
  /\ UNCHANGED <<rsvars, pods, informer, expvars, dirty, want, needsSync, creates,
                 deletes, failed, failures, disruptions, history>>

AtMostBurst(n) == IF n > burstReplicas THEN burstReplicas ELSE n

ExpectCreations(n) == SetExpectations(n, 0) /\ UNCHANGED uids

ExpectDeletions(S) == SetExpectations(0, Cardinality(S)) /\ uids' = S

\* manageReplicas up to the first call.  Which pods go is a matter of their
\* readiness.
manageReplicas ==
  LET diff == Cardinality(filteredPods) - want
  IN  \/ /\ diff < 0
         /\ creates' = AtMostBurst(-diff)
         /\ ExpectCreations(creates')
         /\ UNCHANGED deletes
      \/ /\ diff > 0
         /\ \E S \in SUBSET filteredPods :
              /\ Cardinality(S) = AtMostBurst(diff)
              /\ deletes' = S
              /\ ExpectDeletions(S)
         /\ UNCHANGED creates
      \/ /\ diff = 0
         /\ UNCHANGED <<creates, deletes, expvars>>

\* Seeded fault: the expectations are read after the pods were listed.
Manage_ChecksLate ==
  /\ at = "manage"
  /\ at' = "call"
  /\ IF SatisfiedExpectations /\ ~doomed THEN manageReplicas
     ELSE UNCHANGED <<creates, deletes, expvars>>
  /\ UNCHANGED <<rsvars, pods, informer, dirty, want, needsSync, filteredPods,
                 failed, failures, disruptions, history>>

Manage ==
  /\ at = "manage"
  /\ at' = "call"
  /\ IF needsSync THEN manageReplicas
     ELSE UNCHANGED <<creates, deletes, expvars>>
  /\ UNCHANGED <<rsvars, pods, informer, dirty, want, needsSync, filteredPods,
                 failed, failures, disruptions, history>>

\* The names the server has not given to a pod that is still heard of.
Fresh ==
  {p \in Pods :
     /\ pods[p] = "none" /\ store[p] = "none"
     /\ p \notin uids \cup filteredPods
     /\ \A e \in RangeOf(events) \cup RangeOf(past) \cup RangeOf(notes) : e.pod # p}

\* A call that fails.  It may have been carried out all the same (Effect).
Fails(Effect) ==
  /\ failures < MaxFailures /\ failures' = failures + 1
  /\ failed' = TRUE
  /\ \/ Effect /\ unsure' = TRUE
     \/ UNCHANGED <<pods, events, unsure>>

NewPod ==
  /\ Fresh # {}
  /\ Becomes(CHOOSE p \in Fresh : \A q \in Fresh : p <= q, "active")

\* One of the goroutines that create a pod.  The server refuses when the quota
\* is used up.
CreatePod ==
  /\ at = "call" /\ creates > 0
  /\ creates' = creates - 1
  /\ \/ NewPod /\ UNCHANGED <<expvars, failed, failures, unsure>>
     \/ Fails(NewPod) /\ CreationObserved
     \/ /\ Fresh = {}
        /\ failed' = TRUE
        /\ CreationObserved
        /\ UNCHANGED <<pods, events, failures, unsure>>
  /\ UNCHANGED <<rsvars, past, store, notes, dirty, at, want, needsSync, filteredPods,
                 deletes, disruptions, killed>>

\* The server's DELETE: a pod that is being deleted stays as it is.
Delete(p) ==
  \/ /\ pods[p] \in {"active", "failed"}
     /\ \E s \in {"terminating", "none"} : Becomes(p, s)
  \/ pods[p] = "terminating" /\ UNCHANGED <<pods, events>>

\* One of the goroutines that delete a pod: it is deleted, not found, or the
\* call fails.
DeletePod(p) ==
  /\ at = "call" /\ p \in deletes
  /\ deletes' = deletes \ {p}
  /\ \/ Delete(p) /\ UNCHANGED <<expvars, failed, failures, unsure>>
     \/ /\ pods[p] = "none"
        /\ failed' = TRUE
        /\ DeletionObserved(p)
        /\ UNCHANGED <<pods, events, failures, unsure>>
     \/ Fails(Delete(p)) /\ DeletionObserved(p)
  /\ UNCHANGED <<rsvars, past, store, notes, dirty, at, want, needsSync, filteredPods,
                 creates, disruptions, killed>>

\* wg.Wait, the update of the status, and the end of processNextWorkItem.  An
\* error queues the key again.  The update may fail, must if it is needed and
\* the replica set is gone.
FinishSync ==
  /\ at = "call" /\ creates = 0 /\ deletes = {}
  /\ at' = "idle"
  /\ \/ dirty' = (dirty \/ failed) /\ UNCHANGED failures
     \/ ~exists /\ dirty' = TRUE /\ UNCHANGED failures
     \/ failures < MaxFailures /\ failures' = failures + 1 /\ dirty' = TRUE
  /\ ClearLocals
  /\ UNCHANGED <<rsvars, pods, informer, expvars, disruptions, history>>

(***************************************************************************)
(* The controller manager is started anew.  Its informers list the pods,   *)
(* and the workers start as soon as they are listed: the handlers may not  *)
(* have seen them yet.                                                     *)
(***************************************************************************)
Restart ==
  /\ Disrupt
  /\ \/ \E k \in 0 .. Len(events) : ListAhead(k)
     \/ \E k \in 1 .. Len(past) : ListBehind(k)
  /\ notes' \in Notes([p \in Pods |-> "none"], store')
  /\ expectations' = None /\ uids' = {}
  /\ dirty' = FALSE /\ at' = "idle" /\ ClearLocals
  /\ unsure' = TRUE
  /\ rsNote' = FALSE
  /\ UNCHANGED <<exists, replicas, doomed, pods, failures, killed>>

-----------------------------------------------------------------------------
Worker ==
  \/ StartSync \/ ListPods \/ Manage
  \/ CreatePod \/ (\E p \in Pods : DeletePod(p))
  \/ FinishSync

Next ==
  \/ Worker
  \/ Observe \/ Relist \/ HandlePod \/ updateRS \/ HandleDeletion
  \/ \E p \in Pods : Kill(p) \/ Remove(p)
  \/ Scale \/ DeleteRS
  \/ Expire \/ Restart

(***************************************************************************)
(* The workers and the informers keep running, the informers resync, time  *)
(* passes and pods that are to go are removed.                             *)
(***************************************************************************)
Fairness ==
  /\ WF_vars(Worker)
  /\ WF_vars(Observe) /\ WF_vars(HandlePod)
  /\ WF_vars(updateRS) /\ WF_vars(HandleDeletion)
  /\ WF_vars(Expire)
  /\ WF_vars(\E p \in Pods : Remove(p))

Spec == Init /\ [][Next]_vars /\ Fairness

-----------------------------------------------------------------------------
Event == [pod : Pods, state : States, was : States]
Notification == [pod : Pods, state : States, type : {"add", "update", "delete"}]

\* The types of the variables; UIDs are kept only beside expectations.
TypeOK ==
  /\ exists \in BOOLEAN /\ replicas \in 0 .. MaxReplicas
  /\ doomed \in BOOLEAN /\ rsNote \in BOOLEAN
  /\ pods \in [Pods -> States] /\ store \in [Pods -> States]
  /\ events \in Seq(Event) /\ past \in Seq(Event) /\ notes \in Seq(Notification)
  /\ expectations \in [set : BOOLEAN, add : Int, del : Int, expired : BOOLEAN]
  /\ uids \subseteq Pods /\ (~expectations.set => uids = {})
  /\ dirty \in BOOLEAN /\ at \in {"idle", "list", "manage", "call"}
  /\ want \in 0 .. MaxReplicas /\ needsSync \in BOOLEAN
  /\ filteredPods \subseteq Pods
  /\ creates \in 0 .. burstReplicas /\ deletes \subseteq filteredPods
  /\ failed \in BOOLEAN
  /\ failures \in 0 .. MaxFailures /\ disruptions \in 0 .. MaxDisruptions
  /\ killed \in 0 .. MaxDisruptions /\ unsure \in BOOLEAN

(***************************************************************************)
(* However late the informer and the handlers are, a sync never sets out   *)
(* to create a pod too many: those it will still create fit beside those   *)
(* the server has (the expectations keep a sync from acting on a store     *)
(* that does not show the pods created before).  They do not cover a list  *)
(* that goes back behind what they were lowered for, nor a restart.        *)
(***************************************************************************)
NoSurplus ==
  ~unsure /\ creates > 0 => Cardinality(Active(pods)) + creates <= want

(***************************************************************************)
(* A sync never sets out to delete a pod too many: apart from the pods     *)
(* that others ended, enough stay beside those it will still delete,       *)
(* unless a list went back.                                                *)
(***************************************************************************)
NoShortage ==
  ~unsure /\ deletes # {} => Cardinality(Active(pods) \ deletes) + killed >= want

(***************************************************************************)
(* Once others let it be, the replica set has and keeps the pods it asks   *)
(* for, whatever notifications were lost, lists went back, calls failed or *)
(* restarts came.                                                          *)
(***************************************************************************)
EventuallyReplicas == <>[](exists /\ ~doomed => Cardinality(Active(pods)) = replicas)

\* A replica set that was deleted, which is for good, leaves no expectations
\* behind in the end, even when it was deleted in the middle of a sync.
DeletedLeavesNothing == <>[](~exists => ~expectations.set)
=============================================================================
