----------------------------- MODULE Scheduler -----------------------------
(***************************************************************************)
(* The scheduler around its cache: plugin/pkg/scheduler/scheduler.go and   *)
(* factory/factory.go.                                                     *)
(*                                                                         *)
(* One goroutine schedules pods one at a time; every binding runs in a     *)
(* goroutine of its own, and so does every retry.  Two watches tell the    *)
(* scheduler about pods, one about the pods without a node (a Reflector    *)
(* that fills the queue of pods to schedule) and one about the pods with a *)
(* node (an informer that calls the cache).  Each keeps the order of the   *)
(* events of a pod; nothing orders them with each other.  A watch that     *)
(* ends is followed by a list at ResourceVersion 0, which may be newer     *)
(* than what the watch told or older.                                      *)
(***************************************************************************)
EXTENDS SchedulerCache, Sequences

CONSTANTS
  Capacity,      \* how many pods fit on a node
  Budget,        \* bound: how often the world outside acts or a call fails
  MaxBack,       \* bound: how many states of a pod a list may be behind
  Unscheduled,   \* the node of a pod that has none
  NoPod          \* there is no such pod

\* DeletedFinalStateUnknown, with the object that the lister had.
Tombstone(n) == [final |-> n]

ASSUME SchedulerAssumption ==
  /\ IsFiniteSet(Pods) /\ Capacity \in Nat \ {0}
  /\ Unscheduled # NoPod /\ Unscheduled \notin Nodes /\ NoPod \notin Nodes \cup Pods
  /\ Budget \in Nat /\ MaxBack \in Nat
  /\ \A n \in Nodes : Tombstone(n) \notin Nodes \cup {NoPod}

VARIABLES
  pod,           \* the API server: where each pod is
  unassigned,    \* events on their way to podQueue
  assigned,      \* events on their way to the cache: the node, or NoPod
  held,          \* how many of these are in the DeltaFIFO since a list
  unassignedPast,  \* the last states of each pod that the watch told
  assignedPast,
  lister,        \* ScheduledPodLister: what the informer has of each pod
  podQueue,      \* the pods in the FIFO; the order is not modelled
  current,       \* scheduleOne between Schedule and AssumePod
  binding,       \* the binding goroutines
  waiting,       \* the pods whose retry waits for its backoff
  got,           \* the retries that found their pod without a node
  budget,        \* what is left of Budget
  dropped,       \* history: the pods scheduleOne gave up, since told of nothing
  doubt,         \* history: the pods of which the scheduler was told wrong
  lossy          \* history: the pods of which Replace lost or mistook a delta

apivars == <<pod, unassigned, assigned, budget>>
watchvars == <<held, unassignedPast, assignedPast>>
retryvars == <<waiting, got>>
history == <<dropped, doubt, lossy>>
vars == <<cachevars, pod, unassigned, assigned, held, unassignedPast, assignedPast,
          lister, podQueue, current, binding, waiting, got, budget, dropped, doubt,
          lossy>>

Bound(p) == pod[p] \in Nodes
Pending(p) == pod[p] = Unscheduled

Idle == [pod |-> NoPod, node |-> NoPod]

Init ==
  /\ newSchedulerCache
  /\ pod = [p \in Pods |-> NoPod]
  /\ unassigned = [p \in Pods |-> <<>>]
  /\ assigned = [p \in Pods |-> <<>>]
  /\ held = [p \in Pods |-> 0]
  /\ unassignedPast = [p \in Pods |-> <<NoPod>>]
  /\ assignedPast = [p \in Pods |-> <<NoPod>>]
  /\ lister = [p \in Pods |-> NoPod]
  /\ podQueue = {}
  /\ current = Idle
  /\ binding = {}
  /\ waiting = {} /\ got = [p \in Pods |-> 0]
  /\ budget = Budget
  /\ dropped = {} /\ doubt = {} /\ lossy = {}

\* Nothing is modelled of what happens after the process has ended.
Running == ~crashed

Spend == budget > 0 /\ budget' = budget - 1

-----------------------------------------------------------------------------
(***************************************************************************)
(* The API server and its clients.  A watch with a field selector reports  *)
(* a pod that leaves the selection as deleted: a pod that gets a node      *)
(* disappears from one watch and appears on the other.                     *)
(***************************************************************************)
Tell(watch, p, e) == watch' = [watch EXCEPT ![p] = Append(@, e)]

CreatePod(p) ==
  /\ Running
  /\ pod[p] = NoPod
  /\ Spend
  /\ pod' = [pod EXCEPT ![p] = Unscheduled]
  /\ Tell(unassigned, p, Unscheduled)
  /\ UNCHANGED <<cachevars, assigned, lister, watchvars, podQueue, current,
                 binding, retryvars, history>>

DeletePod(p) ==
  /\ Running
  /\ pod[p] # NoPod
  /\ pod' = [pod EXCEPT ![p] = NoPod]
  /\ dropped' = dropped \ {p}
  /\ IF Bound(p) THEN Tell(assigned, p, NoPod) /\ UNCHANGED unassigned
     ELSE Tell(unassigned, p, NoPod) /\ UNCHANGED assigned
  /\ UNCHANGED <<cachevars, lister, watchvars, podQueue, current, binding,
                 retryvars, budget, doubt, lossy>>

\* Somebody changes the pod, and not its node.
TouchPod(p) ==
  /\ Running
  /\ pod[p] # NoPod
  /\ Spend
  /\ IF Bound(p) THEN Tell(assigned, p, pod[p]) /\ UNCHANGED unassigned
     ELSE Tell(unassigned, p, Unscheduled) /\ UNCHANGED assigned
  /\ UNCHANGED <<cachevars, pod, lister, watchvars, podQueue, current, binding,
                 retryvars, history>>

NodeAdded(n) ==
  /\ Running
  /\ AddNode(n)
  /\ UNCHANGED <<podvars, crashed, apivars, lister, watchvars, podQueue,
                 current, binding, retryvars, history>>

NodeDeleted(n) ==
  /\ Running
  /\ RemoveNode(n)
  /\ Spend
  /\ UNCHANGED <<podvars, crashed, pod, unassigned, assigned, lister,
                 watchvars, podQueue, current, binding, retryvars, history>>

-----------------------------------------------------------------------------
(***************************************************************************)
(* What a watch has told, of which a list may still return the last ones.  *)
(***************************************************************************)
Recent(s) == SubSeq(s, IF Len(s) > MaxBack + 1 THEN Len(s) - MaxBack ELSE 1, Len(s))

(***************************************************************************)
(* The Reflector of the pods without a node, which works on the FIFO.      *)
(***************************************************************************)
Queue(p, e) ==
  \/ e = NoPod /\ podQueue' = podQueue \ {p} /\ UNCHANGED dropped
  \/ e # NoPod /\ podQueue' = podQueue \cup {p} /\ dropped' = dropped \ {p}

DeliverUnassigned(p) ==
  /\ Running
  /\ unassigned[p] # <<>>
  /\ unassigned' = [unassigned EXCEPT ![p] = Tail(@)]
  /\ unassignedPast' = [unassignedPast EXCEPT ![p] = Recent(Append(@, Head(unassigned[p])))]
  /\ Queue(p, Head(unassigned[p]))
  /\ UNCHANGED <<cachevars, pod, assigned, held, assignedPast, lister, current,
                 binding, retryvars, budget, doubt, lossy>>

(***************************************************************************)
(* A list, and FIFO.Replace with it: the pod as it was at one time, from   *)
(* which the new watch goes on.  What the list overtakes is never seen,    *)
(* what it is behind is seen once more.  A list of all pods is one step    *)
(* for each.                                                               *)
(***************************************************************************)
RelistUnassigned(p) ==
  LET log == unassignedPast[p] \o unassigned[p]
  IN  /\ Running
      /\ Spend
      /\ \E v \in 1 .. Len(log) :
           /\ unassignedPast' = [unassignedPast EXCEPT ![p] = Recent(SubSeq(log, 1, v))]
           /\ unassigned' = [unassigned EXCEPT ![p] = SubSeq(log, v + 1, Len(log))]
           /\ Queue(p, log[v])
      /\ UNCHANGED <<cachevars, pod, assigned, held, assignedPast, lister, current,
                     binding, retryvars, doubt, lossy>>

(***************************************************************************)
(* The informer of the pods with a node: addPodToCache, updatePodInCache   *)
(* and deletePodFromCache, according to what the lister had.  The deletion *)
(* of a pod that is not known is dropped.                                  *)
(***************************************************************************)
PodEvent(p, old, e) ==
  \/ e \in Nodes /\ old = NoPod /\ AddPod(p, e)
  \/ e \in Nodes /\ old # NoPod /\ UpdatePod(p, old, e)
  \/ e = NoPod /\ old = NoPod /\ Ignore
  \/ e = NoPod /\ old # NoPod /\ RemovePod(p, old)
  \/ \E n \in Nodes : e = Tombstone(n) /\ RemovePod(p, n)

PodOf(e) == IF e \in Nodes THEN e ELSE NoPod

DeliverAssigned(p) ==
  LET e == Head(assigned[p])
  IN  /\ Running
      /\ assigned[p] # <<>>
      /\ PodEvent(p, lister[p], e)
      /\ lister' = [lister EXCEPT ![p] = PodOf(e)]
      /\ assigned' = [assigned EXCEPT ![p] = Tail(@)]
      /\ \/ held[p] > 0 /\ held' = [held EXCEPT ![p] = @ - 1] /\ UNCHANGED assignedPast
         \/ held[p] = 0 /\ assignedPast' = [assignedPast EXCEPT ![p] = Recent(Append(@, e))]
            /\ UNCHANGED held
      /\ UNCHANGED <<hasNode, pod, unassigned, unassignedPast, podQueue, current,
                     binding, retryvars, budget, history>>

(***************************************************************************)
(* DeltaFIFO.Replace with a list that has the pod on node s, or has it not *)
(* (NoPod), while some of its deltas are queued.                           *)
(***************************************************************************)
Newest(p, queued) ==
  IF queued = <<>> THEN lister[p] ELSE PodOf(queued[Len(queued)])

\* Sync is ignored behind a queued deletion, and a pod that is queued but not
\* yet known is not detected as deleted.  (A deletion that will be dropped as not
\* known counts as queued here; only lossy pods have one.)
Lost(p, queued, s) ==
  /\ queued # <<>>
  /\ \/ Newest(p, queued) = NoPod /\ s # NoPod
     \/ Newest(p, queued) # NoPod /\ s = NoPod /\ lister[p] = NoPod

\* The object of the tombstone is not the one that will be known by then.
Mistaken(p, queued, s) ==
  s = NoPod /\ lister[p] # NoPod /\ Newest(p, queued) \notin {NoPod, lister[p]}

\* A pod deleted, created and scheduled again in between looks like one that
\* moved.
Moved(p, queued, s) == s # NoPod /\ Newest(p, queued) \notin {NoPod, s}

Replace(p, queued, s) ==
  IF Lost(p, queued, s) \/ (s = NoPod /\ Newest(p, queued) = NoPod) THEN queued
  ELSE Append(queued, IF Mistaken(p, queued, s) THEN Tombstone(lister[p]) ELSE s)

(***************************************************************************)
(* A list, of one pod, when the first q of its events have been received   *)
(* and are deltas: they stay queued.  The list may be ahead of the watch   *)
(* or behind it, and the new watch goes on from there.  Pop hands over all *)
(* deltas of a pod before the next list; here the cache sees them one by   *)
(* one, and a list may come in between.                                    *)
(***************************************************************************)
RelistAssigned(p) ==
  /\ Running
  /\ Spend
  /\ \E q \in held[p] .. Len(assigned[p]) :
       LET queued == SubSeq(assigned[p], 1, q)
           told == assignedPast[p] \o SubSeq(assigned[p], held[p] + 1, q)
           log == told \o SubSeq(assigned[p], q + 1, Len(assigned[p]))
       IN  \E v \in 1 .. Len(log) :
             LET deltas == Replace(p, queued, log[v])
                 wrong == Lost(p, queued, log[v]) \/ Mistaken(p, queued, log[v])
             IN  /\ held' = [held EXCEPT ![p] = Len(deltas)]
                 /\ assigned' = [assigned EXCEPT ![p] = deltas \o SubSeq(log, v + 1, Len(log))]
                 /\ assignedPast' = [assignedPast EXCEPT ![p] = Recent(SubSeq(log, 1, v))]
                 /\ lossy' = IF wrong THEN lossy \cup {p} ELSE lossy
                 /\ doubt' = IF wrong \/ v < Len(told) \/ Moved(p, queued, log[v])
                             THEN doubt \cup {p} ELSE doubt
  /\ UNCHANGED <<cachevars, pod, unassigned, unassignedPast, lister, podQueue,
                 current, binding, retryvars, dropped>>

-----------------------------------------------------------------------------
(***************************************************************************)
(* scheduleOne.                                                            *)
(***************************************************************************)
Fitting == {n \in hasNode : Requested(n) < Capacity}

\* Config.Error: a retry, unless one is already waiting for its backoff.
Error(p) == waiting' = waiting \cup {p} /\ UNCHANGED got

\* PodConditionUpdater.Update: the server refuses it if the pod has changed,
\* and nothing is sent if the condition is the same.
UpdateCondition(p) ==
  \/ Pending(p) /\ Spend /\ Tell(unassigned, p, Unscheduled)
  \/ UNCHANGED <<unassigned, budget>>

Schedule(p) ==
  /\ Running
  /\ current = Idle /\ p \in podQueue
  /\ podQueue' = podQueue \ {p}
  /\ \E n \in Fitting : current' = [pod |-> p, node |-> n]
  /\ UNCHANGED <<cachevars, apivars, lister, watchvars, binding, retryvars,
                 history>>

ScheduleFails(p) ==
  /\ Running
  /\ current = Idle /\ p \in podQueue
  /\ podQueue' = podQueue \ {p}
  /\ Fitting = {}
  /\ Error(p)
  /\ UpdateCondition(p)
  /\ UNCHANGED <<cachevars, pod, assigned, lister, watchvars, current, binding,
                 history>>

Fresh == CHOOSE i \in 1 .. Cardinality(binding) + 1 : \A b \in binding : b.id # i

Assume ==
  /\ Running
  /\ current # Idle
  /\ AssumePod(current.pod, current.node)
  /\ binding' = binding \cup
       {[id |-> Fresh, pod |-> current.pod, node |-> current.node, at |-> "call"]}
  /\ current' = Idle
  /\ UNCHANGED <<hasNode, apivars, lister, watchvars, podQueue, retryvars,
                 history>>

\* AssumePod returns an error: scheduleOne returns, and nobody retries.
AssumeFails ==
  /\ Running
  /\ current # Idle
  /\ HasState(current.pod)
  /\ current' = Idle
  /\ dropped' = dropped \cup {current.pod}
  /\ UNCHANGED <<cachevars, apivars, lister, watchvars, podQueue, binding,
                 retryvars, doubt, lossy>>

-----------------------------------------------------------------------------
(***************************************************************************)
(* The binding goroutine: Bind, FinishBinding, and after an error          *)
(* ForgetPod and Error.                                                    *)
(***************************************************************************)
At(b, step) ==
  (binding \ {b}) \cup {[id |-> b.id, pod |-> b.pod, node |-> b.node, at |-> step]}

\* The server gives the pod its node; the answer may get lost.
BindCarriedOut(b) ==
  /\ Running
  /\ b.at = "call"
  /\ Pending(b.pod)
  /\ pod' = [pod EXCEPT ![b.pod] = b.node]
  /\ Tell(unassigned, b.pod, NoPod) /\ Tell(assigned, b.pod, b.node)
  /\ \/ binding' = At(b, "bound") /\ UNCHANGED <<budget, doubt>>
     \/ binding' = At(b, "error") /\ Spend /\ doubt' = doubt \cup {b.pod}
  /\ UNCHANGED <<cachevars, lister, watchvars, podQueue, current, retryvars,
                 dropped, lossy>>

\* The pod is gone or has a node, or the call does not get through.
BindFails(b) ==
  /\ Running
  /\ b.at = "call"
  /\ \/ ~Pending(b.pod) /\ UNCHANGED budget
     \/ Spend
  /\ binding' = At(b, "error")
  /\ UNCHANGED <<cachevars, pod, unassigned, assigned, lister, watchvars,
                 podQueue, current, retryvars, history>>

\* Seeded fault: FinishBinding's result overwrites the error of Bind.
FinishBinding_LosesError(b) ==
  /\ Running
  /\ b.at \in {"bound", "error"}
  /\ finishBinding(b.pod)
  /\ binding' = binding \ {b}
  /\ UNCHANGED <<hasNode, apivars, lister, watchvars, podQueue, current,
                 retryvars, history>>

\* A later binding of the same pod that is still under way loses the
\* protection against expiry that it has while it runs.
FinishBinding(b) ==
  /\ Running
  /\ b.at \in {"bound", "error"}
  /\ finishBinding(b.pod)
  /\ binding' = IF b.at = "bound" THEN binding \ {b} ELSE At(b, "forget")
  /\ doubt' = doubt \cup
       {c.pod : c \in {c \in binding \ {b} : c.pod = b.pod /\ c.at = "call"}}
  /\ UNCHANGED <<hasNode, apivars, lister, watchvars, podQueue, current,
                 retryvars, dropped, lossy>>

Forget(b) ==
  /\ Running
  /\ b.at = "forget"
  /\ ForgetPod(b.pod, b.node)
  /\ binding' = binding \ {b}
  /\ Error(b.pod)
  /\ UpdateCondition(b.pod)
  /\ UNCHANGED <<hasNode, pod, assigned, lister, watchvars, podQueue, current,
                 history>>

(***************************************************************************)
(* The retry: it waits, gets the pod, and puts it on the queue if it has   *)
(* no node.  A Get that fails is repeated.                                 *)
(***************************************************************************)
RetryGet(p) ==
  /\ Running
  /\ p \in waiting
  /\ waiting' = waiting \ {p}
  /\ got' = IF Pending(p) THEN [got EXCEPT ![p] = @ + 1] ELSE got
  /\ UNCHANGED <<cachevars, apivars, lister, watchvars, podQueue, current,
                 binding, history>>

RetryAdd(p) ==
  /\ Running
  /\ got[p] > 0
  /\ got' = [got EXCEPT ![p] = @ - 1]
  /\ podQueue' = podQueue \cup {p}
  /\ UNCHANGED <<cachevars, apivars, lister, watchvars, current, binding,
                 waiting, history>>

(***************************************************************************)
(* cleanupAssumedPods.  The deadline is 30 seconds after FinishBinding,    *)
(* longer than a goroutine takes from Bind's return to ForgetPod; that the *)
(* informer is even later is one of the things that go wrong.              *)
(***************************************************************************)
Expire(p) ==
  /\ Running
  /\ \A b \in binding : b.pod = p => b.at = "call"
  /\ expirePod(p)
  /\ IF Bound(p) \/ assigned[p] # <<>>
     THEN Spend /\ doubt' = doubt \cup {p}
     ELSE UNCHANGED <<budget, doubt>>
  /\ UNCHANGED <<hasNode, pod, unassigned, assigned, lister, watchvars,
                 podQueue, current, binding, retryvars, dropped, lossy>>

-----------------------------------------------------------------------------
Next ==
  \/ \E p \in Pods : \/ CreatePod(p) \/ DeletePod(p) \/ TouchPod(p)
                     \/ DeliverUnassigned(p) \/ DeliverAssigned(p)
                     \/ RelistUnassigned(p) \/ RelistAssigned(p)
                     \/ Schedule(p) \/ ScheduleFails(p)
                     \/ RetryGet(p) \/ RetryAdd(p) \/ Expire(p)
  \/ \E n \in Nodes : NodeAdded(n) \/ NodeDeleted(n)
  \/ Assume \/ AssumeFails
  \/ \E b \in binding : BindCarriedOut(b)
  \/ \E b \in binding : BindFails(b)
  \/ \E b \in binding : FinishBinding(b)
  \/ \E b \in binding : Forget(b)

Spec == Init /\ [][Next]_vars

-----------------------------------------------------------------------------
\* Of the pods whose binding the scheduler was told truly about, no more are
\* on a node than fit: the optimistic assumption covers every pod from the
\* decision until the informer reports its end, across failing bindings,
\* re-creation under the same name, lists that skip events and the removal of
\* the node.  Left out are the pods in doubt: the binding was carried out and
\* reported as failed, the assumed pod expired although it was bound or told of,
\* or a list was behind the watch, hid a re-creation or was lost by Replace.
NoOvercommit ==
  \A n \in Nodes : Cardinality({p \in Pods \ doubt : pod[p] = n}) <= Capacity

\* The cache's checks (Fatalf "corrupted") and its unchecked dereferences end
\* the process only after the scheduler was told wrong about a pod, in one of
\* the ways that put it in doubt.
NeverKillsItself == crashed => doubt # {}

\* A pod that waits for a node is on its way to being tried: announced, queued,
\* in work, or waiting for a retry, unless AssumePod refused it.  No list, however
\* far behind, takes it off the queue for good.
NeverForgotten ==
  \A p \in Pods : Pending(p) /\ ~crashed =>
    \/ unassigned[p] # <<>> \/ p \in podQueue \/ current.pod = p
    \/ \E b \in binding : b.pod = p /\ b.at # "bound"
    \/ p \in waiting \/ got[p] > 0
    \/ p \in dropped

\* What a pod without a node still occupies has somebody who gives it back:
\* its goroutine, an event on its way, or expiry where no event will ever come,
\* also when lists skip events or go back.  Left out are the pods of which
\* Replace lost a delta behind those queued, or took the wrong object for deleted.
CapacityComesBack ==
  \A p \in Pods : HasState(p) /\ ~Bound(p) /\ ~crashed =>
    \/ assigned[p] # <<>>
    \/ \E b \in binding : b.pod = p
    \/ Assumed(p) /\ podStates[p].finished
    \/ p \in lossy
=============================================================================
