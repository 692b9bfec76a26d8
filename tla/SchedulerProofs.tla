-------------------------- MODULE SchedulerProofs --------------------------
(***************************************************************************)
(* Theorems about the scheduler and its cache, for any pods, nodes and     *)
(* capacity, and any number of events and failures.                        *)
(***************************************************************************)
EXTENDS Scheduler, FiniteSetTheorems, SequenceTheorems, TLAPS

(***************************************************************************)
(* The inductive invariant.                                                *)
(***************************************************************************)
CacheTyped ==
  /\ DOMAIN podStates \subseteq Pods
  /\ podStates \in [DOMAIN podStates -> [node : Nodes, finished : BOOLEAN]]
  /\ assumedPods \subseteq DOMAIN podStates
  /\ count \in [Nodes -> [Pods -> Nat]]
  /\ crashed \in BOOLEAN

Steps == {"call", "bound", "error", "forget"}

Places == Nodes \cup {NoPod}
Events == Places \cup {Tombstone(n) : n \in Nodes}

WatchesTyped ==
  /\ unassigned \in [Pods -> Seq({Unscheduled, NoPod})]
  /\ unassignedPast \in [Pods -> Seq({Unscheduled, NoPod}) \ {<<>>}]
  /\ assigned \in [Pods -> Seq(Events)]
  /\ assignedPast \in [Pods -> Seq(Places) \ {<<>>}]
  /\ held \in [Pods -> Nat]
  /\ lister \in [Pods -> Places]

RestTyped ==
  /\ hasNode \subseteq Nodes
  /\ pod \in [Pods -> Nodes \cup {Unscheduled, NoPod}]
  /\ WatchesTyped
  /\ current = Idle \/ (current.pod \in Pods /\ current.node \in Nodes)
  /\ \A b \in binding : b.pod \in Pods /\ b.node \in Nodes /\ b.at \in Steps
  /\ got \in [Pods -> Nat]

CountedOnce(p, n) == count[n][p] = 1 /\ \A m \in Nodes \ {n} : count[m][p] = 0

\* A pod is counted once, while it is assumed on the node it is assumed on.
PodOK(p) ==
  /\ ~HasState(p) => \A n \in Nodes : count[n][p] = 0
  /\ Assumed(p) => CountedOnce(p, podStates[p].node)
  /\ Added(p) => \E n \in Nodes : CountedOnce(p, n)

\* Once confirmed it is counted on the node that the lister has, which need not
\* be the node of its state.
ConfirmedAt(p, n) == Added(p) => n \in Nodes /\ CountedOnce(p, n)

Counted ==
  \A p \in Pods : PodOK(p) /\ (~crashed /\ p \notin lossy => ConfirmedAt(p, lister[p]))

LastOf(s) == s[Len(s)]

Where(p) == IF Bound(p) THEN pod[p] ELSE NoPod

\* The newest state on the watch of the pods with a node, read or not.
Told(p) == IF held[p] < Len(assigned[p]) THEN LastOf(assigned[p]) ELSE LastOf(assignedPast[p])

\* And on the other watch.
Announced(p) == IF unassigned[p] # <<>> THEN LastOf(unassigned[p]) ELSE LastOf(unassignedPast[p])

\* What the informer has, or will have once the deltas are handed over.
Read(p) == IF held[p] = 0 THEN lister[p] ELSE PodOf(assigned[p][held[p]])

\* Tombstones are deltas, and come only to pods of which a delta was mistaken.
Plain(p) ==
  \A i \in 1 .. Len(assigned[p]) : assigned[p][i] \in Places \/ (p \in lossy /\ i <= held[p])

AssignedTrue(p) ==
  /\ held[p] <= Len(assigned[p]) /\ Plain(p)
  /\ Told(p) = Where(p)
  /\ p \notin lossy => /\ assigned[p] = <<>> => lister[p] = Where(p)
                       /\ assigned[p] # <<>> => LastOf(assigned[p]) = Where(p)
  /\ p \notin doubt => LastOf(assignedPast[p]) = Read(p)

UnassignedTrue(p) == Pending(p) => Announced(p) = Unscheduled

\* The last event of each watch tells the truth, and reaches the informer unless
\* Replace loses it.
WatchesTrue == lossy \subseteq doubt /\ \A p \in Pods : AssignedTrue(p) /\ UnassignedTrue(p)

\* An assumed pod may expire, or its binding is still to be finished.
OwnedPod(p) ==
  Assumed(p) => \/ podStates[p].finished
                \/ \E b \in binding : b.pod = p /\ b.at # "forget"

Owned == \A p \in Pods : OwnedPod(p)

IInv == CacheTyped /\ RestTyped /\ Counted /\ WatchesTrue /\ Owned /\ NeverForgotten

-----------------------------------------------------------------------------
(***************************************************************************)
(* What the operations of the cache do to the pod they are about, and that *)
(* they leave the others alone.                                            *)
(***************************************************************************)
Frame(p) ==
  \A q \in Pods \ {p} :
    /\ q \in DOMAIN podStates' <=> q \in DOMAIN podStates
    /\ q \in assumedPods' <=> q \in assumedPods
    /\ q \in DOMAIN podStates => podStates'[q] = podStates[q]
    /\ \A m \in Nodes : count'[m][q] = count[m][q]

CacheStep(p) == CacheTyped' /\ Frame(p) /\ PodOK(p)'

\* A step in which nothing about the pods is changed keeps their order.
LEMMA SameStep ==
  ASSUME NEW p \in Pods, CacheTyped, PodOK(p), UNCHANGED podvars, crashed' \in BOOLEAN
  PROVE  CacheStep(p)
BY DEF CacheTyped, PodOK, podvars, CacheStep, Frame, HasState, Assumed, Added, CountedOnce

\* AssumePod counts the pod on the chosen node.
LEMMA AssumeStep ==
  ASSUME NEW p \in Pods, NEW n \in Nodes, CacheTyped, PodOK(p), AssumePod(p, n)
  PROVE  CacheStep(p) /\ Assumed(p)'
<1>1. CacheTyped'
  BY DEF CacheTyped, AssumePod, WithState, State, addPod
<1>2. Frame(p)
  BY DEF CacheTyped, AssumePod, WithState, addPod, Frame, HasState
<1>3. PodOK(p)' /\ Assumed(p)'
  BY DEF CacheTyped, PodOK, AssumePod, WithState, State, addPod, HasState, Assumed, Added,
         CountedOnce
<1> QED  BY <1>1, <1>2, <1>3 DEF CacheStep

\* FinishBinding marks an assumed pod and changes nothing else.
LEMMA FinishStep ==
  ASSUME NEW p \in Pods, CacheTyped, PodOK(p), finishBinding(p)
  PROVE  /\ CacheStep(p)
         /\ Added(p)' <=> Added(p)
         /\ Assumed(p)' => podStates'[p].finished
         /\ count' = count
<1>1. CacheTyped'
  BY DEF CacheTyped, finishBinding, HasState, Assumed
<1>2. Frame(p) /\ (Added(p)' <=> Added(p)) /\ count' = count
  BY DEF CacheTyped, finishBinding, HasState, Assumed, Added, Frame
<1>3. PodOK(p)' /\ (Assumed(p)' => podStates'[p].finished)
  BY DEF CacheTyped, PodOK, finishBinding, HasState, Assumed, Added, CountedOnce
<1> QED  BY <1>1, <1>2, <1>3 DEF CacheStep

\* A pod that is dropped from where it is counted leaves nothing behind.
LEMMA DropStep ==
  ASSUME NEW p \in Pods, NEW n \in Nodes, CacheTyped, CountedOnce(p, n), Drop(p, n)
  PROVE  CacheStep(p) /\ ~HasState(p)'
<1>1. CacheTyped'
  BY DEF CacheTyped, Drop, Restrict, removePod, CountedOnce
<1>2. Frame(p)
  BY DEF CacheTyped, Drop, Restrict, removePod, Frame
<1>3. PodOK(p)' /\ ~HasState(p)'
  BY DEF CacheTyped, Drop, Restrict, removePod, PodOK, HasState, Assumed, Added, CountedOnce
<1> QED  BY <1>1, <1>2, <1>3 DEF CacheStep

\* An assumed pod that is forgotten or expires is gone, or nothing happens.
LEMMA ForgetStep ==
  ASSUME NEW p \in Pods, NEW n \in Nodes, CacheTyped, PodOK(p),
         ForgetPod(p, n) \/ expirePod(p)
  PROVE  CacheStep(p) /\ (UNCHANGED podvars \/ ~HasState(p)')
<1>1. CASE Crash \/ Ignore
  <2>1. UNCHANGED podvars /\ crashed' \in BOOLEAN
    BY <1>1 DEF Crash, Ignore, CacheTyped
  <2> QED  BY <2>1, SameStep
<1>2. CASE Assumed(p) /\ Drop(p, podStates[p].node)
  <2>1. podStates[p].node \in Nodes /\ CountedOnce(p, podStates[p].node)
    BY <1>2 DEF CacheTyped, PodOK, Assumed, HasState
  <2> QED  BY <1>2, <2>1, DropStep
<1> QED  BY <1>1, <1>2 DEF ForgetPod, expirePod, RemovePodThen, Added, Assumed

\* Moving the count of a pod from the node where it is to another.
LEMMA MoveStep ==
  ASSUME NEW p \in Pods, NEW at \in Nodes, NEW n \in Nodes, CacheTyped, CountedOnce(p, at),
         count' = addPod(removePod(p, at), p, n)
  PROVE  /\ count' \in [Nodes -> [Pods -> Nat]]
         /\ CountedOnce(p, n)'
         /\ \A q \in Pods \ {p}, m \in Nodes : count'[m][q] = count[m][q]
<1> DEFINE removed == removePod(p, at)
<1>1. /\ removed \in [Nodes -> [Pods -> Nat]]
      /\ \A m \in Nodes : removed[m][p] = 0
      /\ \A q \in Pods \ {p}, m \in Nodes : removed[m][q] = count[m][q]
  BY DEF CacheTyped, CountedOnce, removePod
<1>2. count' = [removed EXCEPT ![n][p] = removed[n][p] + 1]
  BY DEF addPod
<1> HIDE DEF removed
<1> QED  BY <1>1, <1>2 DEF CountedOnce

\* A confirmed pod is counted on no other node than one that counts it.
LEMMA CountedHere ==
  ASSUME NEW p \in Pods, NEW n \in Nodes, CacheTyped, PodOK(p), Added(p), count[n][p] > 0
  PROVE  CountedOnce(p, n)
<1>1. PICK m \in Nodes : CountedOnce(p, m)
  BY DEF PodOK
<1>2. m = n
  BY <1>1 DEF CountedOnce, CacheTyped
<1> QED  BY <1>1, <1>2

\* What the step does to the pod if it does not end it.
StillAssumed(p) == Assumed(p)' => Assumed(p) /\ podStates'[p] = podStates[p]

\* AddPod counts the pod where the informer has it, unless it is confirmed.
LEMMA AddStep ==
  ASSUME NEW p \in Pods, NEW new \in Nodes, CacheTyped, PodOK(p), ~Added(p), AddPod(p, new)
  PROVE  CacheStep(p) /\ ConfirmedAt(p, new)' /\ StillAssumed(p)
<1>2. CASE Assumed(p)
  <2>1. CountedOnce(p, podStates[p].node) /\ podStates[p].node \in Nodes
    BY <1>2 DEF PodOK, CacheTyped, Assumed, HasState
  <2>2. /\ count' = IF podStates[p].node = new THEN count
                    ELSE addPod(removePod(p, podStates[p].node), p, new)
        /\ crashed' = crashed
        /\ assumedPods' = assumedPods \ {p}
        /\ podStates' = podStates
    BY <1>2, <2>1 DEF AddPod, CountedOnce, Assumed, Added
  <2>3. /\ count' \in [Nodes -> [Pods -> Nat]]
        /\ CountedOnce(p, new)'
        /\ \A q \in Pods \ {p}, m \in Nodes : count'[m][q] = count[m][q]
    <3>1. CASE podStates[p].node = new
      BY <2>1, <2>2, <3>1 DEF CacheTyped, CountedOnce
    <3>2. CASE podStates[p].node # new
      BY <2>1, <2>2, <3>2, MoveStep
    <3> QED  BY <3>1, <3>2
  <2>4. CacheTyped'
    BY <2>2, <2>3 DEF CacheTyped
  <2>5. Frame(p)
    BY <2>2, <2>3 DEF CacheTyped, Frame
  <2>6. Added(p)' /\ ~Assumed(p)'
    BY <1>2, <2>2 DEF Added, Assumed, HasState
  <2>7. PodOK(p)'
    BY <2>3, <2>6 DEF PodOK, Added, Assumed
  <2> QED  BY <2>3, <2>4, <2>5, <2>6, <2>7 DEF CacheStep, ConfirmedAt, StillAssumed
<1>3. CASE ~HasState(p)
  <2>1. /\ count' = addPod(count, p, new)
        /\ podStates' = WithState(p, new)
        /\ assumedPods' = assumedPods /\ crashed' = crashed
    BY <1>3 DEF AddPod, Assumed, Added
  <2>2. CacheTyped'
    BY <2>1 DEF CacheTyped, addPod, WithState, State
  <2>3. CountedOnce(p, new)'
    BY <1>3, <2>1 DEF CacheTyped, PodOK, addPod, CountedOnce
  <2>4. Frame(p)
    BY <2>1 DEF CacheTyped, addPod, WithState, Frame
  <2>5. Added(p)' /\ ~Assumed(p)'
    BY <1>3, <2>1 DEF CacheTyped, Added, Assumed, HasState, WithState
  <2>6. PodOK(p)'
    BY <2>3, <2>5 DEF PodOK, Added, Assumed
  <2> QED  BY <2>2, <2>3, <2>4, <2>5, <2>6 DEF CacheStep, ConfirmedAt, StillAssumed
<1> QED  BY <1>2, <1>3 DEF Added, Assumed

\* UpdatePod moves the count of a confirmed pod, does nothing, or ends the process.
LEMMA UpdateStep ==
  ASSUME NEW p \in Pods, NEW old \in Nodes, NEW new \in Nodes, CacheTyped, PodOK(p),
         UpdatePod(p, old, new)
  PROVE  /\ CacheStep(p) /\ StillAssumed(p)
         /\ ConfirmedAt(p, old) => crashed' \/ ConfirmedAt(p, new)'
<1>1. CASE Crash
  BY <1>1, SameStep DEF Crash, podvars, Assumed, HasState, StillAssumed
<1>2. CASE Ignore /\ (Added(p) => count[old][p] = 0)
  <2>1. CacheStep(p)
    BY <1>2, SameStep DEF Ignore, CacheTyped
  <2> QED  BY <1>2, <2>1 DEF Ignore, podvars, Assumed, Added, HasState, StillAssumed, ConfirmedAt,
                             CountedOnce
<1>3. CASE /\ Added(p) /\ count[old][p] > 0
           /\ count' = addPod(removePod(p, old), p, new)
           /\ UNCHANGED <<podStates, assumedPods, crashed>>
  <2>1. CountedOnce(p, old)
    BY <1>3, CountedHere
  <2>3. /\ count' \in [Nodes -> [Pods -> Nat]]
        /\ CountedOnce(p, new)'
        /\ \A q \in Pods \ {p}, m \in Nodes : count'[m][q] = count[m][q]
    BY <1>3, <2>1, MoveStep
  <2>4. CacheTyped'
    BY <1>3, <2>3 DEF CacheTyped
  <2>5. Frame(p)
    BY <1>3, <2>3 DEF CacheTyped, Frame
  <2>6. Added(p)' /\ ~Assumed(p)'
    BY <1>3 DEF Added, Assumed, HasState
  <2>7. PodOK(p)'
    BY <2>3, <2>6 DEF PodOK, Added, Assumed
  <2> QED  BY <2>3, <2>4, <2>5, <2>6, <2>7 DEF CacheStep, ConfirmedAt, StillAssumed
<1> QED  BY <1>1, <1>2, <1>3 DEF UpdatePod, RemovePodThen

\* RemovePod ends a pod counted on the node, does nothing, or ends the process.
LEMMA RemoveStep ==
  ASSUME NEW p \in Pods, NEW n \in Nodes, CacheTyped, PodOK(p), RemovePod(p, n)
  PROVE  /\ CacheStep(p) /\ StillAssumed(p)
         /\ ConfirmedAt(p, n) => crashed' \/ ConfirmedAt(p, NoPod)'
<1>1. CASE Crash
  BY <1>1, SameStep DEF Crash, podvars, Assumed, HasState, StillAssumed
<1>2. CASE Ignore /\ (Added(p) => count[n][p] = 0)
  <2>1. CacheStep(p)
    BY <1>2, SameStep DEF Ignore, CacheTyped
  <2> QED  BY <1>2, <2>1 DEF Ignore, podvars, Assumed, Added, HasState, StillAssumed, ConfirmedAt,
                             CountedOnce
<1>3. CASE Added(p) /\ count[n][p] > 0 /\ Drop(p, n)
  <2>1. CountedOnce(p, n)
    BY <1>3, CountedHere
  <2>2. CacheStep(p) /\ ~HasState(p)'
    BY <1>3, <2>1, DropStep
  <2> QED  BY <2>2 DEF ConfirmedAt, Added, Assumed, StillAssumed
<1> QED  BY <1>1, <1>2, <1>3 DEF RemovePod, RemovePodThen

\* An event of the informer confirms, moves or removes the pod: afterwards a
\* confirmed pod is counted where the informer has it, or the process is gone,
\* unless a tombstone names another node.
LEMMA EventStep ==
  ASSUME NEW p \in Pods, NEW old \in Places, NEW e \in Events,
         CacheTyped, PodOK(p), PodEvent(p, old, e)
  PROVE  /\ CacheStep(p) /\ StillAssumed(p)
         /\ ConfirmedAt(p, old) /\ e \in Places => crashed' \/ ConfirmedAt(p, PodOf(e))'
<1>0. NoPod \notin Nodes /\ \A n \in Nodes : Tombstone(n) \notin Places
  BY SchedulerAssumption DEF Places
<1>1. CASE e \in Nodes /\ old = NoPod /\ AddPod(p, e)
  <2>1. CASE Added(p)
    <3>1. Ignore /\ ~ConfirmedAt(p, old)
      BY <1>0, <1>1, <2>1 DEF AddPod, ConfirmedAt, Added, Assumed
    <3>2. CacheStep(p)
      BY <3>1, SameStep DEF Ignore, CacheTyped
    <3> QED  BY <3>1, <3>2 DEF Ignore, podvars, Assumed, HasState, StillAssumed
  <2>2. CASE ~Added(p)
    BY <1>1, <2>2, AddStep DEF PodOf
  <2> QED  BY <2>1, <2>2
<1>2. CASE e \in Nodes /\ old # NoPod /\ UpdatePod(p, old, e)
  BY <1>2, UpdateStep DEF Places, PodOf
<1>3. CASE e = NoPod /\ old = NoPod /\ Ignore
  <2>1. CacheStep(p)
    BY <1>3, SameStep DEF Ignore, CacheTyped
  <2> QED  BY <1>0, <1>3, <2>1
           DEF Ignore, podvars, Assumed, Added, HasState, StillAssumed, ConfirmedAt, CountedOnce, PodOf
<1>4. CASE e = NoPod /\ old # NoPod /\ RemovePod(p, old)
  BY <1>0, <1>4, RemoveStep DEF Places, PodOf
<1>5. ASSUME NEW n \in Nodes, e = Tombstone(n), RemovePod(p, n)
      PROVE  CacheStep(p) /\ StillAssumed(p) /\ e \notin Places
  BY <1>0, <1>5, RemoveStep
<1> QED  BY <1>1, <1>2, <1>3, <1>4, <1>5 DEF PodEvent

\* The pods that an operation is not about stay as they are.
LEMMA Others ==
  ASSUME NEW p \in Pods, NEW q \in Pods \ {p}, CacheTyped, Frame(p)
  PROVE  /\ HasState(q)' <=> HasState(q)
         /\ Assumed(q)' <=> Assumed(q)
         /\ Assumed(q) => podStates'[q] = podStates[q]
         /\ PodOK(q) => PodOK(q)'
         /\ \A n \in Places : ConfirmedAt(q, n) => ConfirmedAt(q, n)'
<1>1. /\ HasState(q)' <=> HasState(q)
      /\ Assumed(q)' <=> Assumed(q)
      /\ Added(q)' <=> Added(q)
      /\ Assumed(q) => podStates'[q] = podStates[q] /\ podStates[q].node \in Nodes
  BY DEF CacheTyped, Frame, HasState, Assumed, Added
<1>2. \A n \in Nodes : CountedOnce(q, n)' <=> CountedOnce(q, n)
  BY DEF Frame, CountedOnce
<1>3. PodOK(q) => PodOK(q)'
  BY <1>1, <1>2 DEF PodOK, Frame
<1>4. \A n \in Places : ConfirmedAt(q, n) => ConfirmedAt(q, n)'
  BY <1>1, <1>2 DEF ConfirmedAt, Places
<1> QED  BY <1>1, <1>3, <1>4

-----------------------------------------------------------------------------
(***************************************************************************)
(* Sequences of events.                                                    *)
(***************************************************************************)
\* What is appended comes last.
LEMMA AppendLast ==
  ASSUME NEW S, NEW s \in Seq(S), NEW e \in S
  PROVE  Append(s, e) \in Seq(S) /\ Append(s, e) # <<>> /\ LastOf(Append(s, e)) = e
BY DEF LastOf

\* Taking the head leaves the last one last, unless it was the head.
LEMMA TailLast ==
  ASSUME NEW S, NEW s \in Seq(S), s # <<>>
  PROVE  /\ Head(s) \in S /\ Tail(s) \in Seq(S)
         /\ Tail(s) = <<>> => Head(s) = LastOf(s)
         /\ Tail(s) # <<>> => LastOf(Tail(s)) = LastOf(s)
<1>1. Head(s) \in S /\ Tail(s) \in Seq(S) /\ Len(s) \in Nat \ {0} /\ Len(Tail(s)) = Len(s) - 1
  OBVIOUS
<1>2. Tail(s) = <<>> => Len(s) = 1 /\ Head(s) = s[1]
  BY <1>1
<1>3. ASSUME Tail(s) # <<>>
      PROVE  LastOf(Tail(s)) = LastOf(s)
  <2>1. Len(Tail(s)) # 0
    BY <1>1, <1>3
  <2>2. Tail(s)[Len(Tail(s))] = s[Len(Tail(s)) + 1]
    BY <1>1, <2>1
  <2>3. Len(Tail(s)) + 1 = Len(s)
    BY <1>1
  <2> QED  BY <2>2, <2>3 DEF LastOf
<1> QED  BY <1>1, <1>2, <1>3 DEF LastOf

\* What is remembered of a watch ends with what it told last.
LEMMA RecentLast ==
  ASSUME NEW S, NEW s \in Seq(S), s # <<>>
  PROVE  /\ Recent(s) \in Seq(S) \ {<<>>}
         /\ LastOf(Recent(s)) = LastOf(s)
<1>0. MaxBack \in Nat
  BY SchedulerAssumption
<1>1. Len(s) \in Nat \ {0}
  OBVIOUS
<1>2. PICK m \in 1 .. Len(s) : Recent(s) = SubSeq(s, m, Len(s))
  <2>1. CASE Len(s) > MaxBack + 1
    <3>1. Len(s) - MaxBack \in 1 .. Len(s)
      BY <1>0, <1>1, <2>1
    <3>2. Recent(s) = SubSeq(s, Len(s) - MaxBack, Len(s))
      BY <2>1 DEF Recent
    <3> QED  BY <3>1, <3>2
  <2>2. CASE ~(Len(s) > MaxBack + 1)
    BY <1>0, <1>1, <2>2 DEF Recent
  <2> QED  BY <2>1, <2>2
<1>3. /\ SubSeq(s, m, Len(s)) \in Seq(S)
      /\ Len(SubSeq(s, m, Len(s))) = Len(s) - m + 1
      /\ \A i \in 1 .. Len(s) - m + 1 : SubSeq(s, m, Len(s))[i] = s[m + i - 1]
  BY <1>1, SubSeqProperties
<1>4. SubSeq(s, m, Len(s))[Len(s) - m + 1] = s[Len(s)]
  BY <1>1, <1>3
<1>5. SubSeq(s, m, Len(s)) # <<>>
  <2>1. Len(SubSeq(s, m, Len(s))) # 0
    BY <1>1, <1>3
  <2> QED  BY <2>1, EmptySeq
<1> QED  BY <1>2, <1>3, <1>4, <1>5 DEF LastOf

\* The states of a watch: what it told, then what it has still to tell.
LEMMA LogParts ==
  ASSUME NEW S, NEW told, told \in Seq(S), told # <<>>, NEW rest, rest \in Seq(S),
         NEW all, all = told \o rest
  PROVE  /\ all \in Seq(S) /\ all # <<>>
         /\ Len(all) = Len(told) + Len(rest)
         /\ \A i \in 1 .. Len(told) : all[i] = told[i]
         /\ \A i \in 1 .. Len(rest) : all[Len(told) + i] = rest[i]
         /\ LastOf(all) = IF rest # <<>> THEN LastOf(rest) ELSE LastOf(told)
<1>1. /\ all \in Seq(S) /\ Len(all) = Len(told) + Len(rest)
      /\ \A i \in 1 .. Len(told) : all[i] = told[i]
      /\ \A i \in 1 .. Len(rest) : all[Len(told) + i] = rest[i]
  OBVIOUS
<1>2. Len(told) \in Nat \ {0} /\ Len(rest) \in Nat /\ (Len(rest) = 0 <=> rest = <<>>)
  OBVIOUS
<1>3. all # <<>>
  BY <1>1, <1>2
<1>4. LastOf(all) = IF rest # <<>> THEN LastOf(rest) ELSE LastOf(told)
  <2>1. CASE rest = <<>>
    BY <1>1, <1>2, <2>1 DEF LastOf
  <2>2. CASE rest # <<>>
    <3>1. Len(rest) \in 1 .. Len(rest)
      BY <1>2, <2>2
    <3> QED  BY <1>1, <2>2, <3>1 DEF LastOf
  <2> QED  BY <2>1, <2>2
<1> QED  BY <1>1, <1>3, <1>4

\* The events from m to n, cut out.
LEMMA CutOut ==
  ASSUME NEW S, NEW A, NEW m \in Nat, NEW n \in Nat, m <= n,
         \A i \in m + 1 .. n : A[i] \in S,
         NEW cut, cut = SubSeq(A, m + 1, n)
  PROVE  /\ cut \in Seq(S) /\ Len(cut) = n - m
         /\ \A i \in 1 .. n - m : cut[i] = A[m + i]
<1>1. m + 1 \in Int /\ n \in Int
  OBVIOUS
<1>2. /\ cut \in Seq(S)
      /\ Len(cut) = IF m + 1 <= n THEN n - (m + 1) + 1 ELSE 0
      /\ \A i \in 1 .. n - (m + 1) + 1 : cut[i] = A[(m + 1) + i - 1]
  BY <1>1, SubSeqProperties
<1>3. Len(cut) = n - m
  BY <1>2
<1>4. \A i \in 1 .. n - m : i \in 1 .. n - (m + 1) + 1 /\ (m + 1) + i - 1 = m + i
  OBVIOUS
<1> QED  BY <1>2, <1>3, <1>4

\* A list splits the log: the watch has told what is up to it,
LEMMA UpToLast ==
  ASSUME NEW S, NEW log \in Seq(S), NEW v \in 1 .. Len(log)
  PROVE  /\ log[v] \in S
         /\ Recent(SubSeq(log, 1, v)) \in Seq(S) \ {<<>>}
         /\ LastOf(Recent(SubSeq(log, 1, v))) = log[v]
<1> DEFINE upto == SubSeq(log, 1, v)
<1>0. Len(log) \in Nat /\ v \in Nat /\ v <= Len(log) /\ v >= 1
  OBVIOUS
<1>1. log[v] \in S
  BY <1>0, ElementOfSeq
<1>2. upto \in Seq(S) /\ Len(upto) = v /\ \A i \in 1 .. v : upto[i] = log[i]
  BY <1>0, SubSeqProperties
<1>3. upto # <<>> /\ LastOf(upto) = log[v]
  BY <1>0, <1>2 DEF LastOf
<1>4. Recent(upto) \in Seq(S) \ {<<>>} /\ LastOf(Recent(upto)) = log[v]
  BY <1>2, <1>3, RecentLast
<1> QED  BY <1>1, <1>4

\* and has left the rest, which ends as the log does.
LEMMA LeftLast ==
  ASSUME NEW S, NEW left \in Seq(S), NEW log, Len(log) \in Nat,
         NEW v \in 1 .. Len(log), Len(left) = Len(log) - v,
         \A i \in 1 .. Len(log) - v : left[i] = log[v + i]
  PROVE  /\ left # <<>> => LastOf(left) = LastOf(log)
         /\ left = <<>> => log[v] = LastOf(log)
<1>0. v \in Nat /\ v <= Len(log) /\ v >= 1 /\ (left = <<>> <=> Len(left) = 0)
  BY EmptySeq
<1>1. ASSUME left # <<>> PROVE LastOf(left) = LastOf(log)
  <2>1. Len(log) - v \in 1 .. Len(log) - v /\ v + (Len(log) - v) = Len(log)
    BY <1>0, <1>1
  <2>2. left[Len(log) - v] = log[v + (Len(log) - v)]
    BY <2>1
  <2> QED  BY <2>1, <2>2 DEF LastOf
<1>2. ASSUME left = <<>> PROVE log[v] = LastOf(log)
  <2>1. v = Len(log)
    BY <1>0, <1>2
  <2> QED  BY <2>1 DEF LastOf
<1> QED  BY <1>1, <1>2

-----------------------------------------------------------------------------
(***************************************************************************)
(* The steps of the scheduler, one part of the invariant at a time.        *)
(***************************************************************************)
\* The next event of a pod whose deltas are all in order is a place.
LEMMA HeadPlace ==
  ASSUME IInv, NEW p \in Pods \ lossy, assigned[p] # <<>>
  PROVE  Head(assigned[p]) \in Places
<1>1. assigned[p] \in Seq(Events) /\ Plain(p)
  BY DEF IInv, RestTyped, WatchesTyped, WatchesTrue, AssignedTrue
<1>2. 1 \in 1 .. Len(assigned[p]) /\ Head(assigned[p]) = assigned[p][1]
  BY <1>1
<1> QED  BY <1>1, <1>2 DEF Plain

\* A pod that was told wrong about stays so.
LEMMA HistoryGrows ==
  ASSUME Next
  PROVE  /\ lossy \subseteq lossy' /\ doubt \subseteq doubt'
         /\ lossy \subseteq doubt => lossy' \subseteq doubt'
<1>1. ASSUME NEW p \in Pods, RelistAssigned(p)
      PROVE  /\ lossy \subseteq lossy' /\ doubt \subseteq doubt'
             /\ lossy \subseteq doubt => lossy' \subseteq doubt'
  <2>1. PICK wrong \in BOOLEAN, other \in BOOLEAN :
          /\ lossy' = IF wrong THEN lossy \cup {p} ELSE lossy
          /\ doubt' = IF wrong \/ other THEN doubt \cup {p} ELSE doubt
    BY <1>1 DEF RelistAssigned, Lost, Mistaken, Moved
  <2> QED  BY <2>1
<1>2. CASE \/ \E p \in Pods : \/ CreatePod(p) \/ DeletePod(p) \/ TouchPod(p)
                              \/ DeliverUnassigned(p) \/ RelistUnassigned(p) \/ DeliverAssigned(p)
                              \/ Schedule(p) \/ ScheduleFails(p) \/ RetryGet(p) \/ RetryAdd(p)
                              \/ Expire(p)
           \/ \E n \in Nodes : NodeAdded(n) \/ NodeDeleted(n)
           \/ Assume \/ AssumeFails
           \/ \E b \in binding : \/ BindCarriedOut(b) \/ BindFails(b) \/ FinishBinding(b)
                                 \/ Forget(b)
  <2>1. lossy' = lossy /\ doubt \subseteq doubt'
    BY <1>2 DEF CreatePod, DeletePod, TouchPod, DeliverUnassigned, RelistUnassigned,
                DeliverAssigned, Schedule, ScheduleFails, RetryGet, RetryAdd, Expire, NodeAdded,
                NodeDeleted, Assume, AssumeFails, BindCarriedOut, BindFails, FinishBinding, Forget,
                history
  <2> QED  BY <2>1
<1> QED  BY <1>1, <1>2 DEF Next

\* Every step keeps the counts of the cache right.
LEMMA CountedKept ==
  ASSUME IInv, Next
  PROVE  CacheTyped' /\ Counted'
<1> USE DEF IInv
<1>l. lossy \subseteq lossy'
  BY HistoryGrows
<1>1. ASSUME UNCHANGED <<podStates, assumedPods, count, crashed, lister>>
      PROVE  CacheTyped' /\ Counted'
  BY <1>l, <1>1 DEF CacheTyped, Counted, PodOK, ConfirmedAt, CountedOnce, HasState, Assumed, Added
<1>2. ASSUME NEW p \in Pods, Running, CacheStep(p),
             ~crashed' /\ p \notin lossy' => ConfirmedAt(p, lister[p])',
             \A q \in Pods \ {p} : lister'[q] = lister[q]
      PROVE  CacheTyped' /\ Counted'
  <2>1. ASSUME NEW q \in Pods \ {p}
        PROVE  PodOK(q)' /\ (q \notin lossy' => ConfirmedAt(q, lister[q])')
    <3>1. /\ PodOK(q) /\ lister[q] \in Places
          /\ q \notin lossy' => ConfirmedAt(q, lister[q])
      BY <1>2, <1>l DEF Counted, RestTyped, WatchesTyped, Running
    <3>2. PodOK(q)' /\ \A n \in Places : ConfirmedAt(q, n) => ConfirmedAt(q, n)'
      BY <1>2, <3>1, Others DEF CacheStep
    <3> QED  BY <1>2, <3>1, <3>2 DEF ConfirmedAt, CountedOnce
  <2> QED  BY <1>2, <2>1 DEF Counted, CacheStep
<1>3. ASSUME NEW p \in Pods, DeliverAssigned(p)
      PROVE  CacheTyped' /\ Counted'
  <2>1. PICK old \in Places, e \in Events : old = lister[p] /\ e = Head(assigned[p])
    BY <1>3, TailLast DEF RestTyped, WatchesTyped, DeliverAssigned
  <2>2. /\ PodOK(p) /\ PodEvent(p, old, e) /\ Running
        /\ p \notin lossy => ConfirmedAt(p, old)
    BY <1>3, <2>1 DEF Counted, DeliverAssigned, Running
  <2>3. CacheStep(p) /\ (ConfirmedAt(p, old) /\ e \in Places => crashed' \/ ConfirmedAt(p, PodOf(e))')
    BY <2>2, EventStep
  <2>4. lister'[p] = PodOf(e) /\ \A q \in Pods \ {p} : lister'[q] = lister[q]
    BY <1>3, <2>1 DEF DeliverAssigned, RestTyped, WatchesTyped
  <2>5. ASSUME ~crashed', p \notin lossy' PROVE ConfirmedAt(p, lister[p])'
    <3>1. p \in Pods \ lossy /\ assigned[p] # <<>>
      BY <1>3, <1>l, <2>5 DEF DeliverAssigned
    <3>2. e \in Places
      BY <2>1, <3>1, HeadPlace
    <3> QED  BY <2>2, <2>3, <2>4, <2>5, <3>1, <3>2 DEF ConfirmedAt, CountedOnce
  <2> QED  BY <1>2, <2>2, <2>3, <2>4, <2>5
<1>4. ASSUME Assume
      PROVE  CacheTyped' /\ Counted'
  <2>1. PICK p \in Pods, n \in Nodes : p = current.pod /\ n = current.node
    BY <1>4 DEF Assume, RestTyped
  <2>2. AssumePod(p, n) /\ Running /\ lister' = lister
    BY <1>4, <2>1 DEF Assume
  <2>3. CacheStep(p) /\ Assumed(p)'
    BY <2>2, AssumeStep DEF Counted
  <2> QED  BY <1>2, <2>2, <2>3 DEF ConfirmedAt, Added, Assumed
<1>5. ASSUME NEW b \in binding, FinishBinding(b)
      PROVE  CacheTyped' /\ Counted'
  <2>1. b.pod \in Pods
    BY DEF RestTyped
  <2>2. CacheStep(b.pod) /\ (Added(b.pod)' <=> Added(b.pod)) /\ count' = count
    BY <1>5, <2>1, FinishStep DEF FinishBinding, Counted
  <2>3. Running /\ lister' = lister
    BY <1>5 DEF FinishBinding
  <2>4. ASSUME b.pod \notin lossy' PROVE ConfirmedAt(b.pod, lister[b.pod])'
    BY <1>l, <2>1, <2>2, <2>3, <2>4 DEF Counted, Running, ConfirmedAt, CountedOnce
  <2> QED  BY <1>2, <2>1, <2>2, <2>3, <2>4
<1>6. ASSUME NEW p \in Pods, Running, lister' = lister,
             CacheStep(p) /\ (UNCHANGED podvars \/ ~HasState(p)')
      PROVE  CacheTyped' /\ Counted'
  <2>1. ASSUME p \notin lossy' PROVE ConfirmedAt(p, lister[p])'
    BY <1>6, <1>l, <2>1 DEF Counted, Running, ConfirmedAt, CountedOnce, Added, HasState, podvars
  <2> QED  BY <1>2, <1>6, <2>1
<1>7. ASSUME NEW b \in binding, Forget(b)
      PROVE  CacheTyped' /\ Counted'
  <2>1. b.pod \in Pods /\ b.node \in Nodes
    BY DEF RestTyped
  <2>2. CacheStep(b.pod) /\ (UNCHANGED podvars \/ ~HasState(b.pod)')
    BY <1>7, <2>1, ForgetStep DEF Forget, Counted
  <2> QED  BY <1>6, <1>7, <2>1, <2>2 DEF Forget
<1>8. ASSUME NEW p \in Pods, Expire(p)
      PROVE  CacheTyped' /\ Counted'
  <2>1. podStates[p].node \in Nodes
    BY <1>8 DEF Expire, expirePod, CacheTyped, Assumed, HasState
  <2>2. CacheStep(p) /\ (UNCHANGED podvars \/ ~HasState(p)')
    BY <1>8, <2>1, ForgetStep DEF Expire, Counted
  <2> QED  BY <1>6, <1>8, <2>2 DEF Expire
<1>9. CASE \/ \E p \in Pods : \/ CreatePod(p) \/ DeletePod(p) \/ TouchPod(p) \/ DeliverUnassigned(p)
                              \/ Schedule(p) \/ ScheduleFails(p) \/ RetryGet(p) \/ RetryAdd(p)
                              \/ RelistUnassigned(p) \/ RelistAssigned(p)
           \/ \E n \in Nodes : NodeAdded(n) \/ NodeDeleted(n)
           \/ AssumeFails
           \/ \E b \in binding : BindCarriedOut(b) \/ BindFails(b)
  <2>1. UNCHANGED <<podStates, assumedPods, count, crashed, lister>>
    BY <1>9 DEF CreatePod, DeletePod, TouchPod, DeliverUnassigned, Schedule, ScheduleFails,
                RetryGet, RetryAdd, NodeAdded, NodeDeleted, RelistUnassigned, RelistAssigned,
                AssumeFails, BindCarriedOut, BindFails, cachevars, podvars
  <2> QED  BY <1>1, <2>1
<1> QED  BY <1>3, <1>4, <1>5, <1>7, <1>8, <1>9 DEF Next

\* Nothing about the pod on the watch of the pods with a node is changed.
Silent(p) ==
  /\ assigned'[p] = assigned[p] /\ assignedPast'[p] = assignedPast[p]
  /\ held'[p] = held[p] /\ lister'[p] = lister[p]

\* What was true of that watch still is.
LEMMA SilentTrue ==
  ASSUME NEW p \in Pods, Silent(p), Where(p)' = Where(p), AssignedTrue(p),
         lossy \subseteq lossy', doubt \subseteq doubt'
  PROVE  AssignedTrue(p)'
BY DEF Silent, AssignedTrue, Plain, Told, Read, LastOf, PodOf

\* An event told to the watch of the pods with a node is the truth.
LEMMA ToldTrue ==
  ASSUME NEW p \in Pods, NEW e \in Places, WatchesTyped, AssignedTrue(p),
         Tell(assigned, p, e), UNCHANGED <<watchvars, lister>>, Where(p)' = e,
         lossy \subseteq lossy', doubt \subseteq doubt'
  PROVE  /\ assigned' \in [Pods -> Seq(Events)]
         /\ assigned'[p] # <<>>
         /\ AssignedTrue(p)'
         /\ \A q \in Pods \ {p} : Silent(q)
<1>1. /\ assigned[p] \in Seq(Events) /\ held[p] \in Nat /\ assigned \in [Pods -> Seq(Events)]
      /\ e \in Events
  BY DEF WatchesTyped, Events
<1> DEFINE s == assigned[p]
<1>2. /\ Append(s, e) \in Seq(Events) /\ Append(s, e) # <<>> /\ LastOf(Append(s, e)) = e
      /\ Len(Append(s, e)) = Len(s) + 1 /\ Len(s) \in Nat
      /\ \A i \in 1 .. Len(s) : Append(s, e)[i] = s[i]
      /\ Append(s, e)[Len(s) + 1] = e
  BY <1>1, AppendLast
<1>3. assigned' = [assigned EXCEPT ![p] = Append(s, e)] /\ UNCHANGED <<held, assignedPast, lister>>
  BY DEF Tell, watchvars
<1>4. /\ assigned' \in [Pods -> Seq(Events)] /\ assigned'[p] = Append(s, e)
      /\ \A q \in Pods \ {p} : Silent(q)
  BY <1>1, <1>2, <1>3 DEF Silent
<1>5. held[p] <= Len(s) /\ Plain(p)
  BY DEF AssignedTrue
<1>6. Plain(p)'
  <2> SUFFICES ASSUME NEW i \in 1 .. Len(s) + 1
               PROVE  Append(s, e)[i] \in Places \/ (p \in lossy' /\ i <= held'[p])
    BY <1>2, <1>4 DEF Plain
  <2>1. CASE i \in 1 .. Len(s)
    BY <1>2, <1>3, <1>5, <2>1 DEF Plain
  <2>2. CASE i = Len(s) + 1
    BY <1>2, <2>2
  <2> QED  BY <1>2, <2>1, <2>2
<1>7. Told(p)' = e
  BY <1>1, <1>2, <1>3, <1>4, <1>5 DEF Told
<1>8. p \notin doubt => Read(p)' = Read(p)
  BY <1>1, <1>2, <1>3, <1>4, <1>5 DEF Read, PodOf
<1>9. p \notin doubt' => LastOf(assignedPast[p])' = Read(p)'
  BY <1>3, <1>8 DEF AssignedTrue, LastOf
<1> HIDE DEF s
<1>10. held'[p] <= Len(assigned'[p])
  BY <1>1, <1>2, <1>3, <1>4, <1>5 DEF s
<1>11. LastOf(assigned[p])' = e
  BY <1>2, <1>4 DEF LastOf
<1> QED  BY <1>2, <1>4, <1>6, <1>7, <1>9, <1>10, <1>11 DEF AssignedTrue

\* The informer takes an event of the pod.
LEMMA TakenTrue ==
  ASSUME NEW p \in Pods, WatchesTyped, AssignedTrue(p), DeliverAssigned(p), Where(p)' = Where(p)
  PROVE  /\ WatchesTyped'
         /\ AssignedTrue(p)'
         /\ \A q \in Pods \ {p} : Silent(q)
<1>0. /\ assigned \in [Pods -> Seq(Events)] /\ assignedPast \in [Pods -> Seq(Places) \ {<<>>}]
      /\ held \in [Pods -> Nat] /\ lister \in [Pods -> Places]
  BY DEF WatchesTyped
<1> DEFINE s == assigned[p]
           e == Head(s)
<1>1. /\ s # <<>> /\ s \in Seq(Events)
      /\ assigned' = [assigned EXCEPT ![p] = Tail(s)]
      /\ lister' = [lister EXCEPT ![p] = PodOf(e)]
      /\ UNCHANGED <<unassigned, unassignedPast, lossy, doubt>>
  BY <1>0 DEF DeliverAssigned, history
<1>2. /\ e \in Events /\ Tail(s) \in Seq(Events) /\ e = s[1]
      /\ Len(s) \in Nat \ {0} /\ Len(Tail(s)) = Len(s) - 1
      /\ \A i \in 1 .. Len(s) - 1 : Tail(s)[i] = s[i + 1]
      /\ Tail(s) = <<>> => e = LastOf(s)
      /\ Tail(s) # <<>> => LastOf(Tail(s)) = LastOf(s)
  <2>1. /\ e \in Events /\ Tail(s) \in Seq(Events)
        /\ Tail(s) = <<>> => e = LastOf(s)
        /\ Tail(s) # <<>> => LastOf(Tail(s)) = LastOf(s)
    BY <1>1, TailLast
  <2> QED  BY <1>1, <2>1
<1>3. PodOf(e) \in Places /\ (e \in Places => PodOf(e) = e)
  BY DEF PodOf, Places
<1>4. held[p] <= Len(s) /\ held[p] \in Nat /\ Plain(p)
  BY <1>0 DEF AssignedTrue
<1>p. p \notin lossy => e \in Places
  BY <1>2, <1>4 DEF Plain
<1>5. /\ assigned'[p] = Tail(s) /\ lister'[p] = PodOf(e)
      /\ assigned' \in [Pods -> Seq(Events)] /\ lister' \in [Pods -> Places]
      /\ \A q \in Pods \ {p} : assigned'[q] = assigned[q] /\ lister'[q] = lister[q]
  BY <1>0, <1>1, <1>2, <1>3
<1> HIDE DEF s, e
<1>6. p \notin lossy => /\ assigned'[p] = <<>> => lister'[p] = Where(p)
                        /\ assigned'[p] # <<>> => LastOf(assigned'[p]) = Where(p)
  BY <1>1, <1>2, <1>3, <1>5, <1>p DEF AssignedTrue, s
<1>7. CASE held[p] > 0
  <2>1. held' = [held EXCEPT ![p] = @ - 1] /\ assignedPast' = assignedPast
    BY <1>0, <1>7 DEF DeliverAssigned
  <2>2. held' \in [Pods -> Nat] /\ held'[p] = held[p] - 1 /\ held'[p] <= Len(Tail(s))
    BY <1>0, <1>2, <1>4, <1>7, <2>1
  <2>3. Plain(p)'
    BY <1>1, <1>2, <1>4, <1>5, <1>7, <2>2 DEF Plain, s
  <2>4. Told(p)' = Told(p)
    <3>1. CASE held[p] < Len(s)
      <4>1. Tail(s) # <<>>
        BY <1>2, <1>7, <3>1, <1>4
      <4>2. held'[p] < Len(assigned'[p])
        BY <1>2, <1>4, <1>5, <2>2, <3>1
      <4> QED  BY <1>2, <1>5, <3>1, <4>1, <4>2 DEF Told, s, LastOf
    <3>2. CASE ~(held[p] < Len(s))
      BY <1>2, <1>4, <1>5, <2>1, <2>2, <3>2 DEF Told, s, LastOf
    <3> QED  BY <3>1, <3>2
  <2>5. Read(p)' = Read(p)
    <3>1. CASE held[p] = 1
      BY <1>2, <1>5, <2>2, <3>1 DEF Read, s
    <3>2. CASE held[p] > 1
      <4>1. held'[p] \in 1 .. Len(s) - 1 /\ held'[p] + 1 = held[p] /\ held'[p] # 0
        BY <1>2, <1>4, <2>2, <3>2
      <4>2. Tail(s)[held'[p]] = s[held[p]]
        BY <1>2, <4>1
      <4> QED  BY <1>5, <1>7, <4>1, <4>2 DEF Read, s, PodOf
    <3> QED  BY <1>4, <1>7, <3>1, <3>2
  <2>6. WatchesTyped' /\ \A q \in Pods \ {p} : Silent(q)
    BY <1>0, <1>1, <1>5, <2>1, <2>2 DEF WatchesTyped, Silent
  <2>7. /\ held'[p] <= Len(assigned'[p])
        /\ LastOf(assigned[p])' = LastOf(assigned'[p]) /\ LastOf(assignedPast[p])' = LastOf(assignedPast[p])
    BY <1>5, <2>1, <2>2 DEF LastOf
  <2> QED  BY <1>1, <1>6, <2>3, <2>4, <2>5, <2>6, <2>7 DEF AssignedTrue
<1>8. CASE held[p] = 0
  <2>0. e \in Places
    BY <1>2, <1>4, <1>8 DEF Plain, s
  <2> DEFINE past == Recent(Append(assignedPast[p], e))
  <2>1. held' = held /\ assignedPast' = [assignedPast EXCEPT ![p] = past]
    BY <1>0, <1>8 DEF DeliverAssigned, s, e
  <2>2. past \in Seq(Places) \ {<<>>} /\ LastOf(past) = e
    <3>1. /\ Append(assignedPast[p], e) \in Seq(Places) /\ Append(assignedPast[p], e) # <<>>
          /\ LastOf(Append(assignedPast[p], e)) = e
      BY <1>0, <2>0, AppendLast
    <3> QED  BY <3>1, RecentLast
  <2> HIDE DEF past
  <2>3. assignedPast' \in [Pods -> Seq(Places) \ {<<>>}] /\ assignedPast'[p] = past
    BY <1>0, <2>1, <2>2
  <2>4. Plain(p)'
    BY <1>1, <1>2, <1>4, <1>5, <1>8, <2>1 DEF Plain, s
  <2>5. Told(p)' = Told(p)
    <3>1. Told(p) = LastOf(s)
      BY <1>2, <1>8 DEF Told, s
    <3>2. CASE Tail(s) = <<>>
      <4>1. Len(Tail(s)) = 0 /\ e = LastOf(s)
        BY <1>2, <3>2
      <4>2. Told(p)' = LastOf(past)
        BY <1>5, <1>8, <2>1, <2>3, <4>1 DEF Told, LastOf
      <4> QED  BY <2>2, <3>1, <4>1, <4>2
    <3>3. CASE Tail(s) # <<>>
      <4>1. Len(Tail(s)) > 0
        BY <1>2, <3>3
      <4>2. Told(p)' = LastOf(Tail(s))
        BY <1>5, <1>8, <2>1, <4>1 DEF Told, LastOf
      <4> QED  BY <1>2, <3>1, <3>3, <4>2
    <3> QED  BY <3>2, <3>3
  <2>6. LastOf(assignedPast[p])' = Read(p)'
    BY <1>3, <1>5, <1>8, <2>0, <2>1, <2>2, <2>3 DEF Read, LastOf
  <2>7. WatchesTyped' /\ \A q \in Pods \ {p} : Silent(q)
    BY <1>0, <1>1, <1>5, <2>1, <2>3 DEF WatchesTyped, Silent
  <2>8. held'[p] <= Len(assigned'[p]) /\ LastOf(assigned[p])' = LastOf(assigned'[p])
    BY <1>2, <1>5, <1>8, <2>1 DEF LastOf
  <2> QED  BY <1>1, <1>6, <2>4, <2>5, <2>6, <2>7, <2>8 DEF AssignedTrue
<1> QED  BY <1>4, <1>7, <1>8

\* What a list of the pod does: the first q events stay queued, the list has the
\* pod at s, and rest is still to come.
Listed(p, q, s, rest) ==
  LET queued == SubSeq(assigned[p], 1, q)
      deltas == Replace(p, queued, s)
      wrong == Lost(p, queued, s) \/ Mistaken(p, queued, s)
  IN  /\ held' = [held EXCEPT ![p] = Len(deltas)]
      /\ assigned' = [assigned EXCEPT ![p] = deltas \o rest]
      /\ \E past \in Seq(Places) \ {<<>>} :
           assignedPast' = [assignedPast EXCEPT ![p] = past] /\ LastOf(past) = s
      /\ wrong => p \in lossy'
      /\ wrong \/ Moved(p, queued, s) => p \in doubt'
      /\ IF rest = <<>> THEN s = Told(p) ELSE LastOf(rest) = Told(p)

\* A list that does not put the pod in doubt is not behind what was received: it
\* has the state after the event w, and what comes is what came after w.
Ahead(p, q, s, rest) ==
  \E w \in q .. Len(assigned[p]) :
    /\ s = IF w > held[p] THEN assigned[p][w] ELSE LastOf(assignedPast[p])
    /\ Len(rest) = Len(assigned[p]) - w
    /\ \A i \in 1 .. Len(rest) : rest[i] = assigned[p][w + i]

\* The log of a watch when the first h of the events A are deltas already and q have
\* been received: P was told before, then fresh was, and later is still to come.
LogShape(A, P, h, q, fresh, later, told, log) ==
  /\ Len(A) \in Nat /\ Len(P) \in Nat \ {0} /\ h \in Nat /\ q \in Nat /\ h <= q /\ q <= Len(A)
  /\ Len(fresh) = q - h /\ \A i \in 1 .. q - h : fresh[i] = A[h + i]
  /\ Len(later) = Len(A) - q /\ \A i \in 1 .. Len(A) - q : later[i] = A[q + i]
  /\ Len(told) = Len(P) + Len(fresh)
  /\ \A i \in 1 .. Len(P) : told[i] = P[i]
  /\ \A i \in 1 .. Len(fresh) : told[Len(P) + i] = fresh[i]
  /\ Len(log) = Len(told) + Len(later)
  /\ \A i \in 1 .. Len(told) : log[i] = told[i]
  /\ \A i \in 1 .. Len(later) : log[Len(told) + i] = later[i]

\* The log, seen from the events.
LEMMA LogOfEvents ==
  ASSUME NEW A, NEW P, NEW h, NEW q, NEW fresh, NEW later, NEW told, NEW log,
         LogShape(A, P, h, q, fresh, later, told, log)
  PROVE  /\ Len(told) = Len(P) + (q - h) /\ Len(log) = Len(P) + (Len(A) - h)
         /\ \A i \in h + 1 .. Len(A) : log[Len(P) + (i - h)] = A[i]
         /\ log[Len(P)] = LastOf(P)
         /\ LastOf(log) = IF h < Len(A) THEN A[Len(A)] ELSE LastOf(P)
<1> USE DEF LogShape
<1>7. Len(told) = Len(P) + (q - h) /\ Len(log) = Len(P) + (Len(A) - h)
  OBVIOUS
<1>8. ASSUME NEW i \in h + 1 .. Len(A) PROVE log[Len(P) + (i - h)] = A[i]
  <2>1. CASE i <= q
    <3>0. i \in Nat /\ h + 1 <= i
      OBVIOUS
    <3>a. i - h >= 1 /\ i - h <= q - h /\ h + (i - h) = i
      BY <2>1, <3>0
    <3>b. Len(P) + (i - h) >= 1 /\ Len(P) + (i - h) <= Len(P) + (q - h)
      BY <3>a, <3>0
    <3>1. i - h \in 1 .. Len(fresh) /\ Len(P) + (i - h) \in 1 .. Len(told) /\ h + (i - h) = i
      BY <1>7, <3>0, <3>a, <3>b
    <3>2. log[Len(P) + (i - h)] = told[Len(P) + (i - h)]
      BY <3>1
    <3>3. told[Len(P) + (i - h)] = fresh[i - h]
      BY <3>1
    <3>4. fresh[i - h] = A[h + (i - h)]
      BY <3>1
    <3> QED  BY <3>1, <3>2, <3>3, <3>4
  <2>2. CASE i > q
    <3>1. i - q \in 1 .. Len(later) /\ Len(P) + (i - h) = Len(told) + (i - q) /\ q + (i - q) = i
      BY <1>7, <2>2
    <3>2. log[Len(told) + (i - q)] = later[i - q]
      BY <3>1
    <3>3. later[i - q] = A[q + (i - q)]
      BY <3>1
    <3> QED  BY <3>1, <3>2, <3>3
  <2> QED  BY <2>1, <2>2
<1>9. log[Len(P)] = LastOf(P)
  <2>1. Len(P) \in 1 .. Len(P) /\ Len(P) \in 1 .. Len(told)
    BY <1>7
  <2> QED  BY <2>1 DEF LastOf
<1>10. LastOf(log) = IF h < Len(A) THEN A[Len(A)] ELSE LastOf(P)
  <2>1. CASE h < Len(A)
    <3>1. Len(A) \in h + 1 .. Len(A)
      BY <2>1
    <3>2. log[Len(P) + (Len(A) - h)] = A[Len(A)]
      BY <1>8, <3>1
    <3> QED  BY <1>7, <2>1, <3>2 DEF LastOf
  <2>2. CASE ~(h < Len(A))
    <3>0. Len(A) = h /\ h \in Nat /\ Len(P) \in Nat
      BY <2>2
    <3>1. Len(log) = Len(P)
      <4> HIDE DEF LogShape
      <4> QED  BY <1>7, <3>0
    <3> QED  BY <1>9, <2>2, <3>1 DEF LastOf
  <2> QED  BY <2>1, <2>2
<1> QED  BY <1>7, <1>8, <1>9, <1>10

\* A relist is a list in this sense.
LEMMA RelistIsListed ==
  ASSUME NEW p \in Pods, WatchesTyped, AssignedTrue(p), RelistAssigned(p)
  PROVE  \E q \in held[p] .. Len(assigned[p]), s \in Places, rest \in Seq(Places) :
           Listed(p, q, s, rest) /\ (p \notin doubt' => Ahead(p, q, s, rest))
<1>1. PICK A, h, P : A = assigned[p] /\ h = held[p] /\ P = assignedPast[p]
  OBVIOUS
<1>0. /\ A \in Seq(Events) /\ P \in Seq(Places) /\ P # <<>> /\ h \in Nat /\ h <= Len(A)
      /\ Len(A) \in Nat /\ Len(P) \in Nat \ {0}
      /\ \A i \in h + 1 .. Len(A) : A[i] \in Places
  <2>1. /\ A \in Seq(Events) /\ P \in Seq(Places) /\ P # <<>> /\ h \in Nat /\ h <= Len(A)
    BY <1>1 DEF WatchesTyped, AssignedTrue
  <2>2. Len(A) \in Nat /\ Len(P) \in Nat \ {0}
    BY <2>1
  <2>3. \A i \in 1 .. Len(A) : A[i] \in Places \/ i <= h
    BY <1>1 DEF AssignedTrue, Plain
  <2> QED  BY <2>1, <2>2, <2>3
<1>k. PICK q \in h .. Len(A) : \E queued, told, log :
        /\ queued = SubSeq(A, 1, q)
        /\ told = P \o SubSeq(A, h + 1, q) /\ log = told \o SubSeq(A, q + 1, Len(A))
        /\ \E v \in 1 .. Len(log) :
             LET deltas == Replace(p, queued, log[v])
                 wrong == Lost(p, queued, log[v]) \/ Mistaken(p, queued, log[v])
             IN  /\ held' = [held EXCEPT ![p] = Len(deltas)]
                 /\ assigned' = [assigned EXCEPT ![p] = deltas \o SubSeq(log, v + 1, Len(log))]
                 /\ assignedPast' = [assignedPast EXCEPT ![p] = Recent(SubSeq(log, 1, v))]
                 /\ lossy' = IF wrong THEN lossy \cup {p} ELSE lossy
                 /\ doubt' = IF wrong \/ v < Len(told) \/ Moved(p, queued, log[v])
                             THEN doubt \cup {p} ELSE doubt
  <2>1. PICK q \in held[p] .. Len(assigned[p]) :
          LET queued == SubSeq(assigned[p], 1, q)
              told == assignedPast[p] \o SubSeq(assigned[p], held[p] + 1, q)
              log == told \o SubSeq(assigned[p], q + 1, Len(assigned[p]))
          IN  \E v \in 1 .. Len(log) :
                LET deltas == Replace(p, queued, log[v])
                    wrong == Lost(p, queued, log[v]) \/ Mistaken(p, queued, log[v])
                IN  /\ held' = [held EXCEPT ![p] = Len(deltas)]
                    /\ assigned' = [assigned EXCEPT ![p] = deltas \o SubSeq(log, v + 1, Len(log))]
                    /\ assignedPast' = [assignedPast EXCEPT ![p] = Recent(SubSeq(log, 1, v))]
                    /\ lossy' = IF wrong THEN lossy \cup {p} ELSE lossy
                    /\ doubt' = IF wrong \/ v < Len(told) \/ Moved(p, queued, log[v])
                                THEN doubt \cup {p} ELSE doubt
    BY Zenon DEF RelistAssigned
  <2> QED  BY <1>1, <2>1, Zenon
<1>2. PICK queued, told, log :
        /\ queued = SubSeq(A, 1, q)
        /\ told = P \o SubSeq(A, h + 1, q) /\ log = told \o SubSeq(A, q + 1, Len(A))
        /\ \E v \in 1 .. Len(log) :
             LET deltas == Replace(p, queued, log[v])
                 wrong == Lost(p, queued, log[v]) \/ Mistaken(p, queued, log[v])
             IN  /\ held' = [held EXCEPT ![p] = Len(deltas)]
                 /\ assigned' = [assigned EXCEPT ![p] = deltas \o SubSeq(log, v + 1, Len(log))]
                 /\ assignedPast' = [assignedPast EXCEPT ![p] = Recent(SubSeq(log, 1, v))]
                 /\ lossy' = IF wrong THEN lossy \cup {p} ELSE lossy
                 /\ doubt' = IF wrong \/ v < Len(told) \/ Moved(p, queued, log[v])
                             THEN doubt \cup {p} ELSE doubt
  BY <1>k, Zenon
<1>3. PICK v \in 1 .. Len(log) :
        LET s == log[v]
            wrong == Lost(p, queued, s) \/ Mistaken(p, queued, s)
        IN  /\ held' = [held EXCEPT ![p] = Len(Replace(p, queued, s))]
            /\ assigned' = [assigned EXCEPT ![p] = Replace(p, queued, s) \o SubSeq(log, v + 1, Len(log))]
            /\ assignedPast' = [assignedPast EXCEPT ![p] = Recent(SubSeq(log, 1, v))]
            /\ lossy' = IF wrong THEN lossy \cup {p} ELSE lossy
            /\ doubt' = IF wrong \/ v < Len(told) \/ Moved(p, queued, s)
                        THEN doubt \cup {p} ELSE doubt
  BY <1>2, Zenon
<1>s. PICK s, rest : s = log[v] /\ rest = SubSeq(log, v + 1, Len(log))
  OBVIOUS
<1>c. /\ held' = [held EXCEPT ![p] = Len(Replace(p, queued, s))]
      /\ assigned' = [assigned EXCEPT ![p] = Replace(p, queued, s) \o rest]
      /\ assignedPast' = [assignedPast EXCEPT ![p] = Recent(SubSeq(log, 1, v))]
  BY <1>3, <1>s, Zenon
<1>d. PICK wrong : /\ wrong = (Lost(p, queued, s) \/ Mistaken(p, queued, s))
                   /\ lossy' = IF wrong THEN lossy \cup {p} ELSE lossy
                   /\ doubt' = IF wrong \/ v < Len(told) \/ Moved(p, queued, s)
                               THEN doubt \cup {p} ELSE doubt
  BY <1>3, <1>s, Zenon
<1>q. q \in Nat /\ h <= q /\ q <= Len(A)
  BY <1>0
<1>4. /\ told \in Seq(Places) /\ told # <<>> /\ Len(told) = Len(P) + (q - h)
      /\ log \in Seq(Places) /\ log # <<>> /\ Len(log) = Len(P) + (Len(A) - h)
      /\ \A i \in h + 1 .. Len(A) : log[Len(P) + (i - h)] = A[i]
      /\ log[Len(P)] = LastOf(P)
      /\ LastOf(log) = IF h < Len(A) THEN A[Len(A)] ELSE LastOf(P)
  <2>1. PICK fresh, later : fresh = SubSeq(A, h + 1, q) /\ later = SubSeq(A, q + 1, Len(A))
    OBVIOUS
  <2>2. told = P \o fresh /\ log = told \o later
    BY <1>2, <2>1, Zenon
  <2>3. /\ \A i \in h + 1 .. q : A[i] \in Places
        /\ \A i \in q + 1 .. Len(A) : A[i] \in Places
    BY <1>0, <1>q
  <2>4. /\ fresh \in Seq(Places) /\ Len(fresh) = q - h
        /\ \A i \in 1 .. q - h : fresh[i] = A[h + i]
    BY <1>0, <1>q, <2>1, <2>3, CutOut
  <2>5. /\ later \in Seq(Places) /\ Len(later) = Len(A) - q
        /\ \A i \in 1 .. Len(A) - q : later[i] = A[q + i]
    BY <1>0, <1>q, <2>1, <2>3, CutOut
  <2>6. /\ told \in Seq(Places) /\ told # <<>> /\ Len(told) = Len(P) + Len(fresh)
        /\ \A i \in 1 .. Len(P) : told[i] = P[i]
        /\ \A i \in 1 .. Len(fresh) : told[Len(P) + i] = fresh[i]
    <3>1. P \in Seq(Places) /\ P # <<>> /\ fresh \in Seq(Places)
      BY <1>0, <2>4
    <3> QED  BY <2>2, <3>1, LogParts
  <2>7. /\ log \in Seq(Places) /\ log # <<>> /\ Len(log) = Len(told) + Len(later)
        /\ \A i \in 1 .. Len(told) : log[i] = told[i]
        /\ \A i \in 1 .. Len(later) : log[Len(told) + i] = later[i]
    <3>1. told \in Seq(Places) /\ told # <<>> /\ later \in Seq(Places)
      BY <2>5, <2>6
    <3> QED  BY <2>2, <3>1, LogParts
  <2>8. LogShape(A, P, h, q, fresh, later, told, log)
    BY <1>0, <1>q, <2>4, <2>5, <2>6, <2>7, Zenon DEF LogShape
  <2>9. /\ Len(told) = Len(P) + (q - h) /\ Len(log) = Len(P) + (Len(A) - h)
        /\ \A i \in h + 1 .. Len(A) : log[Len(P) + (i - h)] = A[i]
        /\ log[Len(P)] = LastOf(P)
        /\ LastOf(log) = IF h < Len(A) THEN A[Len(A)] ELSE LastOf(P)
    BY <2>8, LogOfEvents
  <2> QED  BY <2>6, <2>7, <2>9, Zenon
<1>5. /\ s \in Places /\ rest \in Seq(Places) /\ Len(rest) = Len(log) - v
      /\ \A i \in 1 .. Len(log) - v : rest[i] = log[v + i]
      /\ rest # <<>> => LastOf(rest) = LastOf(log)
      /\ rest = <<>> => s = LastOf(log)
      /\ Recent(SubSeq(log, 1, v)) \in Seq(Places) \ {<<>>}
      /\ LastOf(Recent(SubSeq(log, 1, v))) = s
  <2>1. log \in Seq(Places)
    BY <1>4
  <2>2. Len(log) \in Nat /\ v \in Nat /\ v <= Len(log) /\ \A i \in v + 1 .. Len(log) : log[i] \in Places
    BY <2>1
  <2>3. rest = SubSeq(log, v + 1, Len(log))
    BY <1>s
  <2>4. /\ rest \in Seq(Places) /\ Len(rest) = Len(log) - v
        /\ \A i \in 1 .. Len(log) - v : rest[i] = log[v + i]
    BY <2>2, <2>3, CutOut
  <2>5. /\ rest # <<>> => LastOf(rest) = LastOf(log)
        /\ rest = <<>> => log[v] = LastOf(log)
    BY <2>2, <2>4, LeftLast
  <2>6. /\ log[v] \in Places
        /\ Recent(SubSeq(log, 1, v)) \in Seq(Places) \ {<<>>}
        /\ LastOf(Recent(SubSeq(log, 1, v))) = log[v]
    BY <2>1, UpToLast, Zenon
  <2>7. s = log[v]
    BY <1>s
  <2> QED  BY <2>4, <2>5, <2>6, <2>7, Zenon
<1>6. Told(p) = LastOf(log)
  <2>1. Told(p) = IF h < Len(A) THEN A[Len(A)] ELSE LastOf(P)
    BY <1>1 DEF Told, LastOf
  <2> QED  BY <1>4, <2>1
<1>7. Listed(p, q, s, rest)
  <2>1. queued = SubSeq(assigned[p], 1, q)
    BY <1>1, <1>2
  <2>2. \E new \in Seq(Places) \ {<<>>} :
          assignedPast' = [assignedPast EXCEPT ![p] = new] /\ LastOf(new) = s
    BY <1>c, <1>5, Zenon
  <2>3. /\ Lost(p, queued, s) \/ Mistaken(p, queued, s) => p \in lossy'
        /\ (Lost(p, queued, s) \/ Mistaken(p, queued, s)) \/ Moved(p, queued, s) => p \in doubt'
    BY <1>d
  <2>4. IF rest = <<>> THEN s = Told(p) ELSE LastOf(rest) = Told(p)
    BY <1>5, <1>6
  <2> QED  BY <1>c, <2>1, <2>2, <2>3, <2>4, Zenon DEF Listed
<1>8. ASSUME p \notin doubt' PROVE Ahead(p, q, s, rest)
  <2>0. ~(v < Len(told))
    BY <1>d, <1>8
  <2>1. v \in Nat /\ v >= Len(told) /\ v <= Len(log) /\ q \in Nat /\ h <= q /\ q <= Len(A)
    <3>1. Len(told) \in Nat /\ Len(log) \in Nat
      BY <1>4
    <3> QED  BY <1>q, <2>0, <3>1
  <2>2. PICK w : w = v - Len(P) + h
    OBVIOUS
  <2>3. w \in q .. Len(A) /\ w \in Nat /\ v = Len(P) + (w - h) /\ w >= h
    BY <1>0, <1>4, <2>1, <2>2
  <2>4. s = IF w > h THEN A[w] ELSE LastOf(P)
    <3>1. CASE w > h
      <4>1. w \in h + 1 .. Len(A)
        BY <1>0, <2>3, <3>1
      <4>2. log[Len(P) + (w - h)] = A[w]
        BY <1>4, <4>1
      <4>3. s = log[v]
        BY <1>s
      <4> QED  BY <2>3, <3>1, <4>2, <4>3
    <3>2. CASE w = h
      <4>1. v = Len(P)
        BY <1>0, <2>3, <3>2
      <4>2. s = log[v] /\ log[Len(P)] = LastOf(P)
        BY <1>s, <1>4
      <4> QED  BY <1>0, <3>2, <4>1, <4>2
    <3> QED  BY <1>0, <2>3, <3>1, <3>2
  <2>5. Len(rest) = Len(A) - w
    BY <1>0, <1>4, <1>5, <2>3
  <2>6. ASSUME NEW i \in 1 .. Len(rest) PROVE rest[i] = A[w + i]
    <3>1. w + i \in h + 1 .. Len(A) /\ v + i = Len(P) + (w + i - h) /\ i \in 1 .. Len(log) - v
      BY <1>0, <1>5, <2>3, <2>5
    <3>2. rest[i] = log[v + i]
      BY <1>5, <3>1
    <3>3. PICK k \in h + 1 .. Len(A) : k = w + i
      BY <3>1
    <3>4. log[Len(P) + (k - h)] = A[k]
      BY <1>4
    <3>5. Len(P) + (k - h) = v + i
      BY <1>0, <2>3, <3>1, <3>3
    <3> QED  BY <3>2, <3>3, <3>4, <3>5
  <2> QED  BY <1>1, <2>3, <2>4, <2>5, <2>6 DEF Ahead
<1> QED  BY <1>1, <1>5, <1>7, <1>8

\* Replace keeps the deltas that are queued, and unless it goes wrong the last one
\* then says what the list says.
Replaced(p, queued, s, deltas) ==
  /\ deltas \in Seq(Events)
  /\ Len(deltas) = Len(queued) \/ Len(deltas) = Len(queued) + 1
  /\ \A i \in 1 .. Len(queued) : deltas[i] = queued[i]
  /\ Len(deltas) = Len(queued) + 1 => deltas[Len(deltas)] = s \/ Mistaken(p, queued, s)
  /\ ~Lost(p, queued, s) /\ ~Mistaken(p, queued, s) =>
       /\ deltas = <<>> => lister[p] = s
       /\ deltas # <<>> => PodOf(LastOf(deltas)) = s

\* That is what it does.
LEMMA ReplaceShape ==
  ASSUME NEW p \in Pods, NEW queued \in Seq(Events), NEW s \in Places, lister[p] \in Places,
         NEW deltas, deltas = Replace(p, queued, s)
  PROVE  Replaced(p, queued, s, deltas)
<1>0. Len(queued) \in Nat /\ s \in Events /\ PodOf(s) = s
  BY DEF Events, Places, PodOf
<1>1. CASE Lost(p, queued, s)
  <2>1. deltas = queued
    BY <1>1 DEF Replace
  <2> QED  BY <1>0, <1>1, <2>1 DEF Replaced
<1>2. CASE ~Lost(p, queued, s) /\ s = NoPod /\ Newest(p, queued) = NoPod
  <2>1. deltas = queued
    BY <1>2 DEF Replace
  <2>2. deltas = <<>> => lister[p] = s
    BY <1>2, <2>1 DEF Newest
  <2>3. deltas # <<>> => PodOf(LastOf(deltas)) = s
    BY <1>2, <2>1 DEF Newest, LastOf
  <2> QED  BY <1>0, <2>1, <2>2, <2>3 DEF Replaced
<1>3. CASE ~Lost(p, queued, s) /\ ~(s = NoPod /\ Newest(p, queued) = NoPod)
  <2>1. PICK e : e = IF Mistaken(p, queued, s) THEN Tombstone(lister[p]) ELSE s
    OBVIOUS
  <2>2. e \in Events /\ (e = s \/ Mistaken(p, queued, s))
    <3>1. CASE Mistaken(p, queued, s)
      <4>1. lister[p] \in Nodes
        BY <3>1 DEF Mistaken, Places
      <4> QED  BY <2>1, <3>1, <4>1 DEF Events
    <3>2. CASE ~Mistaken(p, queued, s)
      BY <1>0, <2>1, <3>2
    <3> QED  BY <3>1, <3>2
  <2>3. deltas = Append(queued, e)
    BY <1>3, <2>1 DEF Replace
  <2>4. /\ deltas \in Seq(Events) /\ deltas # <<>> /\ LastOf(deltas) = e
        /\ Len(deltas) = Len(queued) + 1
        /\ \A i \in 1 .. Len(queued) : deltas[i] = queued[i]
    BY <2>2, <2>3, AppendLast
  <2>5. deltas[Len(deltas)] = e
    BY <2>4 DEF LastOf
  <2>6. ~Mistaken(p, queued, s) => LastOf(deltas) = s
    BY <2>2, <2>4
  <2> QED  BY <1>0, <2>2, <2>4, <2>5, <2>6 DEF Replaced
<1> QED  BY <1>1, <1>2, <1>3

\* A list leaves the watch truthful.
LEMMA ListedTrue ==
  ASSUME NEW p \in Pods, WatchesTyped, AssignedTrue(p),
         NEW q \in held[p] .. Len(assigned[p]), NEW s \in Places, NEW rest \in Seq(Places),
         Listed(p, q, s, rest), lister' = lister, Where(p)' = Where(p),
         lossy \subseteq lossy', lossy' \subseteq doubt'
  PROVE  /\ assigned' \in [Pods -> Seq(Events)] /\ held' \in [Pods -> Nat]
         /\ assignedPast' \in [Pods -> Seq(Places) \ {<<>>}]
         /\ AssignedTrue(p)'
         /\ \A r \in Pods \ {p} : Silent(r)
<1>1. PICK A, queued, deltas :
        A = assigned[p] /\ queued = SubSeq(A, 1, q) /\ deltas = Replace(p, queued, s)
  OBVIOUS
<1>2. /\ A \in Seq(Events) /\ held[p] \in Nat /\ held[p] <= Len(A) /\ lister[p] \in Places
      /\ assigned \in [Pods -> Seq(Events)] /\ held \in [Pods -> Nat]
      /\ assignedPast \in [Pods -> Seq(Places) \ {<<>>}]
      /\ \A i \in 1 .. Len(A) : A[i] \in Places \/ (p \in lossy /\ i <= held[p])
  BY <1>1 DEF WatchesTyped, AssignedTrue, Plain
<1>3. q \in Nat /\ held[p] <= q /\ q <= Len(A)
  <2>1. Len(A) \in Nat /\ Len(assigned[p]) = Len(A)
    BY <1>1, <1>2
  <2> QED  BY <1>2, <2>1
<1>4. queued \in Seq(Events) /\ Len(queued) = q /\ \A i \in 1 .. q : queued[i] = A[i]
  <2>1. \A i \in 1 .. q : A[i] \in Events
    BY <1>2, <1>3, ElementOfSeq
  <2>2. 1 \in Int /\ q \in Int
    BY <1>3
  <2>3. /\ queued \in Seq(Events) /\ Len(queued) = IF 1 <= q THEN q - 1 + 1 ELSE 0
        /\ \A i \in 1 .. q - 1 + 1 : queued[i] = A[1 + i - 1]
    BY <1>1, <2>1, <2>2, SubSeqProperties
  <2>4. Len(queued) = q
    BY <1>3, <2>3
  <2>5. \A i \in 1 .. q : i \in 1 .. q - 1 + 1 /\ 1 + i - 1 = i
    BY <1>3
  <2> QED  BY <2>3, <2>4, <2>5
<1>5. /\ deltas \in Seq(Events)
      /\ Len(deltas) = q \/ Len(deltas) = q + 1
      /\ \A i \in 1 .. q : deltas[i] = A[i]
      /\ Len(deltas) = q + 1 => deltas[Len(deltas)] = s \/ Mistaken(p, queued, s)
      /\ ~Lost(p, queued, s) /\ ~Mistaken(p, queued, s) =>
           /\ deltas = <<>> => lister[p] = s
           /\ deltas # <<>> => PodOf(LastOf(deltas)) = s
  <2>1. Replaced(p, queued, s, deltas)
    <3>1. deltas = Replace(p, queued, s) /\ queued \in Seq(Events) /\ lister[p] \in Places
      BY <1>1, <1>2, <1>4
    <3> QED  BY <3>1, ReplaceShape
  <2> QED  BY <1>4, <2>1 DEF Replaced
<1>6. PICK past \in Seq(Places) \ {<<>>} :
        assignedPast' = [assignedPast EXCEPT ![p] = past] /\ LastOf(past) = s
  BY Zenon DEF Listed
<1>7. /\ held' = [held EXCEPT ![p] = Len(deltas)]
      /\ assigned' = [assigned EXCEPT ![p] = deltas \o rest]
      /\ Lost(p, queued, s) \/ Mistaken(p, queued, s) => p \in lossy'
      /\ IF rest = <<>> THEN s = Told(p) ELSE LastOf(rest) = Told(p)
  BY <1>1, Zenon DEF Listed
<1>8. PICK B : B = deltas \o rest
  OBVIOUS
<1>9. /\ B \in Seq(Events) /\ Len(B) = Len(deltas) + Len(rest)
      /\ \A i \in 1 .. Len(deltas) : B[i] = deltas[i]
      /\ \A i \in 1 .. Len(rest) : B[Len(deltas) + i] = rest[i]
  <2>1. rest \in Seq(Events)
    BY DEF Events
  <2>2. /\ deltas \o rest \in Seq(Events) /\ Len(deltas \o rest) = Len(deltas) + Len(rest)
        /\ \A i \in 1 .. Len(deltas) : (deltas \o rest)[i] = deltas[i]
        /\ \A i \in 1 .. Len(rest) : (deltas \o rest)[Len(deltas) + i] = rest[i]
    BY <1>5, <2>1
  <2> QED  BY <1>8, <2>2
<1>l. Len(deltas) \in Nat /\ Len(rest) \in Nat /\ (rest = <<>> <=> Len(rest) = 0)
      /\ (deltas = <<>> <=> Len(deltas) = 0) /\ (B = <<>> <=> Len(B) = 0)
  BY <1>5, <1>9, EmptySeq
<1>10. /\ assigned' \in [Pods -> Seq(Events)] /\ held' \in [Pods -> Nat]
       /\ assignedPast' \in [Pods -> Seq(Places) \ {<<>>}]
       /\ assigned'[p] = B /\ held'[p] = Len(deltas) /\ assignedPast'[p] = past
       /\ \A r \in Pods \ {p} : Silent(r)
  <2>1. assigned' = [assigned EXCEPT ![p] = B]
    BY <1>7, <1>8
  <2> QED  BY <1>2, <1>6, <1>7, <1>9, <1>l, <2>1 DEF Silent
<1>11. ASSUME NEW i \in 1 .. Len(B) PROVE B[i] \in Places \/ (p \in lossy' /\ i <= Len(deltas))
  <2>0. i \in Nat /\ i >= 1 /\ i <= Len(deltas) + Len(rest)
    BY <1>9, <1>l
  <2>1. CASE i <= q
    <3>1. i \in 1 .. q /\ i \in 1 .. Len(A) /\ i \in 1 .. Len(deltas) /\ i <= Len(deltas)
      BY <1>2, <1>3, <1>5, <2>0, <2>1
    <3>2. B[i] = A[i]
      BY <1>5, <1>9, <3>1
    <3> QED  BY <1>2, <3>1, <3>2
  <2>2. CASE i > q /\ i <= Len(deltas)
    <3>1. Len(deltas) = q + 1 /\ i = Len(deltas) /\ i \in 1 .. Len(deltas)
      BY <1>3, <1>5, <2>0, <2>2
    <3>2. B[i] = deltas[Len(deltas)]
      BY <1>9, <3>1
    <3> QED  BY <1>5, <1>7, <2>2, <3>1, <3>2
  <2>3. CASE i > Len(deltas)
    <3>1. PICK j \in 1 .. Len(rest) : i = Len(deltas) + j
      <4>1. i - Len(deltas) \in 1 .. Len(rest) /\ i = Len(deltas) + (i - Len(deltas))
        BY <1>l, <2>0, <2>3
      <4> QED  BY <4>1
    <3>2. B[i] = rest[j] /\ rest[j] \in Places
      BY <1>9, <3>1, ElementOfSeq
    <3> QED  BY <3>2
  <2> QED  BY <1>3, <1>l, <2>0, <2>1, <2>2, <2>3
<1>12. Plain(p)' /\ held'[p] <= Len(assigned'[p])
  <2>1. Len(deltas) <= Len(B)
    BY <1>9, <1>l
  <2> QED  BY <1>10, <1>11, <2>1 DEF Plain
<1>13. rest # <<>> => B # <<>> /\ Len(deltas) < Len(B) /\ LastOf(B) = LastOf(rest)
  <2> SUFFICES ASSUME rest # <<>> PROVE B # <<>> /\ Len(deltas) < Len(B) /\ LastOf(B) = LastOf(rest)
    OBVIOUS
  <2>1. Len(rest) \in 1 .. Len(rest) /\ Len(B) = Len(deltas) + Len(rest) /\ Len(B) # 0
        /\ Len(deltas) < Len(B)
    BY <1>9, <1>l
  <2>2. B[Len(deltas) + Len(rest)] = rest[Len(rest)]
    BY <1>9, <2>1
  <2> QED  BY <1>l, <2>1, <2>2 DEF LastOf
<1>14. rest = <<>> => Len(B) = Len(deltas)
  BY <1>9, <1>l
<1>15. deltas # <<>> => B[Len(deltas)] = LastOf(deltas)
  <2>1. deltas # <<>> => Len(deltas) \in 1 .. Len(deltas)
    BY <1>l
  <2> QED  BY <1>9, <2>1 DEF LastOf
<1>16. Told(p)' = Told(p)
  <2>1. Told(p)' = IF Len(deltas) < Len(B) THEN LastOf(B) ELSE LastOf(past)
    BY <1>10 DEF Told, LastOf
  <2>2. CASE rest = <<>>
    <3>1. ~(Len(deltas) < Len(B))
      BY <1>14, <1>l, <2>2
    <3> QED  BY <1>6, <1>7, <2>1, <2>2, <3>1
  <2>3. CASE rest # <<>>
    BY <1>7, <1>13, <2>1, <2>3
  <2> QED  BY <2>2, <2>3
<1>17. Told(p) = Where(p)
  BY DEF AssignedTrue
<1>18. ASSUME p \notin lossy'
       PROVE  /\ assigned'[p] = <<>> => lister'[p] = Where(p)
              /\ assigned'[p] # <<>> => LastOf(assigned'[p]) = Where(p)
  <2>1. /\ deltas = <<>> => lister[p] = s
        /\ deltas # <<>> => PodOf(LastOf(deltas)) = s
    BY <1>5, <1>7, <1>18
  <2>2. CASE rest # <<>>
    BY <1>7, <1>10, <1>13, <1>17, <2>2
  <2>3. CASE rest = <<>> /\ deltas = <<>>
    <3>1. B = <<>> /\ s = Where(p)
      BY <1>7, <1>14, <1>17, <1>l, <2>3
    <3> QED  BY <1>10, <2>1, <2>3, <3>1
  <2>4. CASE rest = <<>> /\ deltas # <<>>
    <3>1. Len(B) = Len(deltas) /\ Len(B) \in 1 .. Len(B) /\ B # <<>> /\ s = Where(p)
      BY <1>7, <1>14, <1>17, <1>l, <2>4
    <3>2. LastOf(B) = LastOf(deltas) /\ LastOf(B) \in Places
      BY <1>11, <1>15, <1>18, <2>4, <3>1 DEF LastOf
    <3>3. PodOf(LastOf(B)) = LastOf(B)
      BY <3>2 DEF PodOf, Places
    <3> QED  BY <1>10, <2>1, <2>4, <3>1, <3>2, <3>3
  <2> QED  BY <2>2, <2>3, <2>4
<1>19. ASSUME p \notin doubt' PROVE LastOf(past) = Read(p)'
  <2>1. /\ deltas = <<>> => lister[p] = s
        /\ deltas # <<>> => PodOf(LastOf(deltas)) = s
    BY <1>5, <1>7, <1>19
  <2>2. Read(p)' = IF Len(deltas) = 0 THEN lister[p] ELSE PodOf(B[Len(deltas)])
    BY <1>10 DEF Read, PodOf
  <2> QED  BY <1>6, <1>15, <1>l, <2>1, <2>2
<1>20. LastOf(assignedPast[p])' = LastOf(past) /\ LastOf(assigned[p])' = LastOf(assigned'[p])
  BY <1>10 DEF LastOf
<1> QED  BY <1>10, <1>12, <1>16, <1>17, <1>18, <1>19, <1>20 DEF AssignedTrue

\* Nothing about the pod on the watch of the pods without a node is changed.
Quiet(p) == unassigned'[p] = unassigned[p] /\ unassignedPast'[p] = unassignedPast[p]

\* What was true of that watch still is.
LEMMA QuietTrue ==
  ASSUME NEW p \in Pods, Quiet(p), Pending(p)' => Pending(p), UnassignedTrue(p)
  PROVE  UnassignedTrue(p)'
BY DEF Quiet, UnassignedTrue, Announced, LastOf, Pending

\* An event told to it is the truth.
LEMMA AnnouncedTrue ==
  ASSUME NEW p \in Pods, NEW e \in {Unscheduled, NoPod}, WatchesTyped,
         Tell(unassigned, p, e), UNCHANGED watchvars, Pending(p)' => e = Unscheduled
  PROVE  /\ unassigned' \in [Pods -> Seq({Unscheduled, NoPod})]
         /\ unassigned'[p] # <<>>
         /\ UnassignedTrue(p)'
         /\ \A q \in Pods \ {p} : Quiet(q)
<1>1. unassigned \in [Pods -> Seq({Unscheduled, NoPod})]
  BY DEF WatchesTyped
<1>2. /\ Append(unassigned[p], e) \in Seq({Unscheduled, NoPod})
      /\ Append(unassigned[p], e) # <<>> /\ LastOf(Append(unassigned[p], e)) = e
  BY <1>1, AppendLast
<1>3. /\ unassigned' \in [Pods -> Seq({Unscheduled, NoPod})]
      /\ unassigned'[p] = Append(unassigned[p], e)
      /\ \A q \in Pods \ {p} : Quiet(q)
  BY <1>1, <1>2 DEF Tell, watchvars, Quiet
<1>4. Announced(p)' = LastOf(unassigned'[p])
  BY <1>2, <1>3 DEF Announced, LastOf
<1> QED  BY <1>2, <1>3, <1>4 DEF UnassignedTrue

\* Its Reflector takes an event of the pod.
LEMMA FetchedTrue ==
  ASSUME NEW p \in Pods, WatchesTyped, UnassignedTrue(p), DeliverUnassigned(p)
  PROVE  /\ unassigned' \in [Pods -> Seq({Unscheduled, NoPod})]
         /\ unassignedPast' \in [Pods -> Seq({Unscheduled, NoPod}) \ {<<>>}]
         /\ Head(unassigned[p]) \in {Unscheduled, NoPod}
         /\ Announced(p)' = Announced(p) /\ UnassignedTrue(p)'
         /\ \A q \in Pods \ {p} : Quiet(q)
<1> DEFINE L == {Unscheduled, NoPod}
           s == unassigned[p]
           e == Head(s)
           past == Recent(Append(unassignedPast[p], e))
<1>0. /\ unassigned \in [Pods -> Seq(L)] /\ unassignedPast \in [Pods -> Seq(L) \ {<<>>}]
      /\ s # <<>> /\ unassigned' = [unassigned EXCEPT ![p] = Tail(s)]
      /\ unassignedPast' = [unassignedPast EXCEPT ![p] = past]
      /\ pod' = pod
  BY DEF WatchesTyped, DeliverUnassigned
<1>1. /\ e \in L /\ Tail(s) \in Seq(L)
      /\ Tail(s) = <<>> => e = LastOf(s)
      /\ Tail(s) # <<>> => LastOf(Tail(s)) = LastOf(s)
  BY <1>0, TailLast
<1>2. past \in Seq(L) \ {<<>>} /\ LastOf(past) = e
  <2>0. PICK told \in Seq(L) : told = unassignedPast[p]
    BY <1>0
  <2>1. /\ Append(unassignedPast[p], e) \in Seq(L) /\ Append(unassignedPast[p], e) # <<>>
        /\ LastOf(Append(unassignedPast[p], e)) = e
    <3> HIDE DEF L, e
    <3> QED  BY <1>1, <2>0, AppendLast
  <2> QED  BY <2>1, RecentLast
<1> HIDE DEF past, L, e
<1>3. /\ unassigned' \in [Pods -> Seq(L)] /\ unassignedPast' \in [Pods -> Seq(L) \ {<<>>}]
      /\ unassigned'[p] = Tail(s) /\ unassignedPast'[p] = past
      /\ \A q \in Pods \ {p} : Quiet(q)
  BY <1>0, <1>1, <1>2 DEF Quiet
<1>4. Announced(p) = LastOf(s)
  BY <1>0 DEF Announced
<1>5. Announced(p)' = IF Tail(s) # <<>> THEN LastOf(Tail(s)) ELSE LastOf(past)
  BY <1>3 DEF Announced, LastOf
<1>6. Announced(p)' = Announced(p)
  BY <1>1, <1>2, <1>4, <1>5
<1> QED  BY <1>0, <1>1, <1>3, <1>6 DEF UnassignedTrue, Pending, L, e

\* A list of the pod: it is told at e, and what is left ends as before.
LEMMA FetchedAnew ==
  ASSUME NEW p \in Pods, WatchesTyped, UnassignedTrue(p), RelistUnassigned(p)
  PROVE  /\ unassigned' \in [Pods -> Seq({Unscheduled, NoPod})]
         /\ unassignedPast' \in [Pods -> Seq({Unscheduled, NoPod}) \ {<<>>}]
         /\ Announced(p)' = Announced(p) /\ UnassignedTrue(p)'
         /\ \A q \in Pods \ {p} : Quiet(q)
         /\ \E e \in {Unscheduled, NoPod} :
              Queue(p, e) /\ (unassigned'[p] = <<>> => e = Announced(p))
<1>1. PICK L, A, P, log : /\ L = {Unscheduled, NoPod} /\ A = unassigned[p] /\ P = unassignedPast[p]
                          /\ log = P \o A
  OBVIOUS
<1>2. /\ A \in Seq(L) /\ P \in Seq(L) /\ P # <<>>
      /\ unassigned \in [Pods -> Seq(L)] /\ unassignedPast \in [Pods -> Seq(L) \ {<<>>}]
  BY <1>1 DEF WatchesTyped
<1>3. /\ log \in Seq(L) /\ log # <<>>
      /\ LastOf(log) = IF A # <<>> THEN LastOf(A) ELSE LastOf(P)
  <2>1. log = P \o A /\ A \in Seq(L) /\ P \in Seq(L) /\ P # <<>>
    BY <1>1, <1>2
  <2>2. /\ log \in Seq(L) /\ log # <<>>
        /\ LastOf(log) = IF A # <<>> THEN LastOf(A) ELSE LastOf(P)
    BY <2>1, LogParts
  <2> QED  BY <2>2
<1>4. Announced(p) = LastOf(log)
  BY <1>1, <1>3 DEF Announced, LastOf
<1>5. PICK v \in 1 .. Len(log) :
        /\ unassignedPast' = [unassignedPast EXCEPT ![p] = Recent(SubSeq(log, 1, v))]
        /\ unassigned' = [unassigned EXCEPT ![p] = SubSeq(log, v + 1, Len(log))]
        /\ Queue(p, log[v])
  <2>1. \E v \in 1 .. Len(unassignedPast[p] \o unassigned[p]) :
          /\ unassignedPast' = [unassignedPast EXCEPT ![p] =
                                  Recent(SubSeq(unassignedPast[p] \o unassigned[p], 1, v))]
          /\ unassigned' = [unassigned EXCEPT ![p] =
                              SubSeq(unassignedPast[p] \o unassigned[p], v + 1,
                                     Len(unassignedPast[p] \o unassigned[p]))]
          /\ Queue(p, (unassignedPast[p] \o unassigned[p])[v])
    BY Zenon DEF RelistUnassigned
  <2> QED  BY <1>1, <2>1, Zenon
<1>6. PICK left : left = SubSeq(log, v + 1, Len(log))
  OBVIOUS
<1>7. /\ log[v] \in L
      /\ Recent(SubSeq(log, 1, v)) \in Seq(L) \ {<<>>}
      /\ LastOf(Recent(SubSeq(log, 1, v))) = log[v]
  BY <1>3, UpToLast, Zenon
<1>8. /\ left \in Seq(L)
      /\ left # <<>> => LastOf(left) = LastOf(log)
      /\ left = <<>> => log[v] = LastOf(log)
  <2>1. Len(log) \in Nat /\ v \in Nat /\ v <= Len(log) /\ \A i \in v + 1 .. Len(log) : log[i] \in L
    BY <1>3
  <2>2. /\ left \in Seq(L) /\ Len(left) = Len(log) - v
        /\ \A i \in 1 .. Len(log) - v : left[i] = log[v + i]
    BY <1>6, <2>1, CutOut
  <2> QED  BY <2>1, <2>2, LeftLast
<1>9. PICK past : past = Recent(SubSeq(log, 1, v))
  OBVIOUS
<1>10. past \in Seq(L) \ {<<>>} /\ LastOf(past) = log[v]
  BY <1>7, <1>9
<1>11. /\ unassigned' = [unassigned EXCEPT ![p] = left]
       /\ unassignedPast' = [unassignedPast EXCEPT ![p] = past]
  BY <1>5, <1>6, <1>9
<1>12. /\ unassigned' \in [Pods -> Seq(L)] /\ unassignedPast' \in [Pods -> Seq(L) \ {<<>>}]
       /\ unassigned'[p] = left /\ unassignedPast'[p] = past
       /\ \A q \in Pods \ {p} : Quiet(q)
  BY <1>2, <1>8, <1>10, <1>11 DEF Quiet
<1>13. Announced(p)' = IF left # <<>> THEN LastOf(left) ELSE LastOf(past)
  BY <1>12 DEF Announced, LastOf
<1>14. Announced(p)' = Announced(p)
  BY <1>4, <1>8, <1>10, <1>13
<1>15. pod' = pod
  BY DEF RelistUnassigned
<1>16. UnassignedTrue(p)'
  BY <1>14, <1>15 DEF UnassignedTrue, Pending
<1>17. Queue(p, log[v]) /\ (unassigned'[p] = <<>> => log[v] = Announced(p))
  BY <1>4, <1>5, <1>8, <1>12
<1> QED  BY <1>1, <1>7, <1>12, <1>14, <1>16, <1>17

\* Every step keeps the watches truthful, and their types.
LEMMA WatchesKept ==
  ASSUME IInv, Next
  PROVE  /\ pod' \in [Pods -> Nodes \cup {Unscheduled, NoPod}]
         /\ WatchesTyped'
         /\ WatchesTrue'
<1> DEFINE Kept == /\ pod' \in [Pods -> Nodes \cup {Unscheduled, NoPod}]
                   /\ WatchesTyped'
                   /\ WatchesTrue'
<1> SUFFICES Kept  OBVIOUS
<1>0. /\ pod \in [Pods -> Nodes \cup {Unscheduled, NoPod}]
      /\ WatchesTyped
      /\ \A p \in Pods : AssignedTrue(p) /\ UnassignedTrue(p)
  BY DEF IInv, RestTyped, WatchesTrue
<1>h. lossy \subseteq lossy' /\ doubt \subseteq doubt' /\ lossy' \subseteq doubt'
  BY HistoryGrows DEF IInv, WatchesTrue
<1>n. Unscheduled # NoPod /\ Unscheduled \notin Nodes /\ NoPod \notin Nodes
  BY SchedulerAssumption
<1>k. ASSUME pod' \in [Pods -> Nodes \cup {Unscheduled, NoPod}], WatchesTyped',
             \A p \in Pods : AssignedTrue(p)' /\ UnassignedTrue(p)'
      PROVE  Kept
  BY <1>h, <1>k DEF WatchesTrue
<1>s. ASSUME NEW p \in Pods, Silent(p), pod'[p] = pod[p]
      PROVE  AssignedTrue(p)'
  <2>1. Where(p)' = Where(p)
    BY <1>s DEF Where, Bound
  <2> QED  BY <1>0, <1>h, <1>s, <2>1, SilentTrue
<1>q. ASSUME NEW p \in Pods, Quiet(p), pod'[p] = pod[p]
      PROVE  UnassignedTrue(p)'
  <2>1. Pending(p)' => Pending(p)
    BY <1>q DEF Pending
  <2> QED  BY <1>0, <1>q, <2>1, QuietTrue
<1>a. ASSUME UNCHANGED <<assigned, lister, watchvars>>
      PROVE  /\ \A p \in Pods : Silent(p)
             /\ assigned' \in [Pods -> Seq(Events)] /\ assignedPast' \in [Pods -> Seq(Places) \ {<<>>}]
             /\ held' \in [Pods -> Nat] /\ lister' \in [Pods -> Places]
             /\ unassignedPast' \in [Pods -> Seq({Unscheduled, NoPod}) \ {<<>>}]
  BY <1>0, <1>a DEF Silent, watchvars, WatchesTyped
<1>u. ASSUME UNCHANGED <<unassigned, unassignedPast>>
      PROVE  /\ \A p \in Pods : Quiet(p)
             /\ unassigned' \in [Pods -> Seq({Unscheduled, NoPod})]
             /\ unassignedPast' \in [Pods -> Seq({Unscheduled, NoPod}) \ {<<>>}]
  BY <1>0, <1>u DEF Quiet, WatchesTyped
<1>1. ASSUME UNCHANGED <<pod, unassigned, assigned, lister, watchvars>>
      PROVE  Kept
  <2>1. WatchesTyped'
    BY <1>0, <1>1 DEF WatchesTyped, watchvars
  <2>2. \A p \in Pods : AssignedTrue(p)' /\ UnassignedTrue(p)'
    BY <1>1, <1>a, <1>u, <1>s, <1>q DEF watchvars
  <2> QED  BY <1>0, <1>1, <1>k, <2>1, <2>2
<1>2. ASSUME NEW p \in Pods, pod' = pod, UNCHANGED <<assigned, lister, watchvars>>,
             \/ UNCHANGED unassigned
             \/ Tell(unassigned, p, Unscheduled)
      PROVE  Kept
  <2>1. CASE UNCHANGED unassigned
    BY <1>1, <1>2, <2>1
  <2>2. CASE Tell(unassigned, p, Unscheduled)
    <3>1. /\ unassigned' \in [Pods -> Seq({Unscheduled, NoPod})]
          /\ UnassignedTrue(p)' /\ \A q \in Pods \ {p} : Quiet(q)
      BY <1>0, <1>2, <2>2, AnnouncedTrue
    <3>2. WatchesTyped'
      BY <1>2, <1>a, <3>1 DEF WatchesTyped
    <3>3. \A q \in Pods : AssignedTrue(q)' /\ UnassignedTrue(q)'
      BY <1>2, <1>a, <1>s, <1>q, <3>1
    <3> QED  BY <1>0, <1>2, <1>k, <3>2, <3>3
  <2> QED  BY <1>2, <2>1, <2>2
<1>3. ASSUME NEW p \in Pods, CreatePod(p)
      PROVE  Kept
  <2>1. /\ pod[p] = NoPod /\ pod' = [pod EXCEPT ![p] = Unscheduled]
        /\ UNCHANGED <<assigned, lister, watchvars>> /\ Tell(unassigned, p, Unscheduled)
    BY <1>3 DEF CreatePod
  <2>2. /\ pod' \in [Pods -> Nodes \cup {Unscheduled, NoPod}] /\ pod'[p] = Unscheduled
        /\ \A q \in Pods \ {p} : pod'[q] = pod[q]
    BY <1>0, <2>1
  <2>3. /\ unassigned' \in [Pods -> Seq({Unscheduled, NoPod})]
        /\ UnassignedTrue(p)' /\ \A q \in Pods \ {p} : Quiet(q)
    BY <1>0, <2>1, AnnouncedTrue
  <2>4. WatchesTyped' /\ \A q \in Pods : Silent(q)
    BY <1>a, <2>1, <2>3 DEF WatchesTyped
  <2>5. Where(p)' = Where(p)
    BY <1>n, <2>1, <2>2 DEF Where, Bound
  <2>6. AssignedTrue(p)'
    BY <1>0, <1>h, <2>4, <2>5, SilentTrue
  <2>7. \A q \in Pods \ {p} : AssignedTrue(q)' /\ UnassignedTrue(q)'
    BY <1>s, <1>q, <2>2, <2>3, <2>4
  <2> QED  BY <1>k, <2>2, <2>3, <2>4, <2>6, <2>7
<1>4. ASSUME NEW p \in Pods, DeletePod(p)
      PROVE  Kept
  <2>1. pod' = [pod EXCEPT ![p] = NoPod] /\ UNCHANGED <<lister, watchvars>>
    BY <1>4 DEF DeletePod
  <2>2. /\ pod' \in [Pods -> Nodes \cup {Unscheduled, NoPod}] /\ pod'[p] = NoPod
        /\ \A q \in Pods \ {p} : pod'[q] = pod[q]
        /\ NoPod \in Places
    BY <1>0, <2>1 DEF Places
  <2>3. Where(p)' = NoPod /\ ~Pending(p)'
    BY <1>n, <2>2 DEF Where, Bound, Pending
  <2>4. CASE Bound(p)
    <3>1. Tell(assigned, p, NoPod) /\ UNCHANGED unassigned
      BY <1>4, <2>4 DEF DeletePod
    <3>2. /\ assigned' \in [Pods -> Seq(Events)] /\ AssignedTrue(p)'
          /\ \A q \in Pods \ {p} : Silent(q)
      BY <1>0, <1>h, <2>1, <2>2, <2>3, <3>1, ToldTrue
    <3>3. WatchesTyped' /\ \A q \in Pods : Quiet(q)
      BY <1>0, <1>u, <2>1, <3>1, <3>2 DEF WatchesTyped, watchvars
    <3>4. UnassignedTrue(p)'
      BY <2>3 DEF UnassignedTrue
    <3>5. \A q \in Pods \ {p} : AssignedTrue(q)' /\ UnassignedTrue(q)'
      BY <1>s, <1>q, <2>2, <3>2, <3>3
    <3> QED  BY <1>k, <2>2, <3>2, <3>3, <3>4, <3>5
  <2>5. CASE ~Bound(p)
    <3>1. Tell(unassigned, p, NoPod) /\ UNCHANGED assigned
      BY <1>4, <2>5 DEF DeletePod
    <3>2. /\ unassigned' \in [Pods -> Seq({Unscheduled, NoPod})]
          /\ UnassignedTrue(p)' /\ \A q \in Pods \ {p} : Quiet(q)
      BY <1>0, <2>1, <2>3, <3>1, AnnouncedTrue
    <3>3. WatchesTyped' /\ \A q \in Pods : Silent(q)
      BY <1>a, <2>1, <3>1, <3>2 DEF WatchesTyped
    <3>4. Where(p)' = Where(p)
      BY <2>3, <2>5 DEF Where
    <3>5. AssignedTrue(p)'
      BY <1>0, <1>h, <3>3, <3>4, SilentTrue
    <3>6. \A q \in Pods \ {p} : AssignedTrue(q)' /\ UnassignedTrue(q)'
      BY <1>s, <1>q, <2>2, <3>2, <3>3
    <3> QED  BY <1>k, <2>2, <3>2, <3>3, <3>5, <3>6
  <2> QED  BY <2>4, <2>5
<1>5. ASSUME NEW p \in Pods, TouchPod(p)
      PROVE  Kept
  <2>1. pod' = pod /\ UNCHANGED <<lister, watchvars>>
    BY <1>5 DEF TouchPod
  <2>2. CASE Bound(p)
    <3>1. PICK n \in Nodes : n = pod[p]
      BY <2>2 DEF Bound
    <3>2. Tell(assigned, p, n) /\ UNCHANGED unassigned
      BY <1>5, <2>2, <3>1 DEF TouchPod
    <3>3. Where(p)' = n /\ n \in Places
      BY <2>1, <3>1 DEF Where, Bound, Places
    <3>4. /\ assigned' \in [Pods -> Seq(Events)] /\ AssignedTrue(p)'
          /\ \A q \in Pods \ {p} : Silent(q)
      BY <1>0, <1>h, <2>1, <3>2, <3>3, ToldTrue
    <3>5. WatchesTyped' /\ \A q \in Pods : Quiet(q)
      BY <1>0, <1>u, <2>1, <3>2, <3>4 DEF WatchesTyped, watchvars
    <3>6. \A q \in Pods : AssignedTrue(q)' /\ UnassignedTrue(q)'
      BY <1>s, <1>q, <2>1, <3>4, <3>5
    <3> QED  BY <1>0, <1>k, <2>1, <3>5, <3>6
  <2>3. CASE ~Bound(p)
    BY <1>2, <1>5, <2>1, <2>3 DEF TouchPod
  <2> QED  BY <2>2, <2>3
<1>6. ASSUME NEW p \in Pods, DeliverUnassigned(p) \/ RelistUnassigned(p)
      PROVE  Kept
  <2>1. UNCHANGED <<pod, assigned, lister, held, assignedPast>>
    BY <1>6 DEF DeliverUnassigned, RelistUnassigned
  <2>2. /\ unassigned' \in [Pods -> Seq({Unscheduled, NoPod})]
        /\ unassignedPast' \in [Pods -> Seq({Unscheduled, NoPod}) \ {<<>>}]
        /\ UnassignedTrue(p)' /\ \A q \in Pods \ {p} : Quiet(q)
    BY <1>0, <1>6, FetchedTrue, FetchedAnew
  <2>3. WatchesTyped' /\ \A q \in Pods : Silent(q)
    BY <1>0, <2>1, <2>2 DEF WatchesTyped, Silent
  <2>4. \A q \in Pods : AssignedTrue(q)' /\ UnassignedTrue(q)'
    BY <1>s, <1>q, <2>1, <2>2, <2>3
  <2> QED  BY <1>0, <1>k, <2>1, <2>3, <2>4
<1>8. ASSUME NEW p \in Pods, DeliverAssigned(p)
      PROVE  Kept
  <2>1. UNCHANGED <<pod, unassigned, unassignedPast>>
    BY <1>8 DEF DeliverAssigned
  <2>2. Where(p)' = Where(p)
    BY <2>1 DEF Where, Bound
  <2>3. WatchesTyped' /\ AssignedTrue(p)' /\ \A q \in Pods \ {p} : Silent(q)
    BY <1>0, <1>8, <2>2, TakenTrue
  <2>4. \A q \in Pods : AssignedTrue(q)' /\ UnassignedTrue(q)'
    BY <1>s, <1>q, <1>u, <2>1, <2>3
  <2> QED  BY <1>0, <1>k, <2>1, <2>3, <2>4
<1>9. ASSUME NEW p \in Pods, RelistAssigned(p)
      PROVE  Kept
  <2>1. UNCHANGED <<pod, unassigned, unassignedPast, lister>>
    BY <1>9 DEF RelistAssigned
  <2>2. Where(p)' = Where(p)
    BY <2>1 DEF Where, Bound
  <2>3. PICK q \in held[p] .. Len(assigned[p]), s \in Places, rest \in Seq(Places) :
          Listed(p, q, s, rest)
    BY <1>0, <1>9, RelistIsListed
  <2>4. /\ assigned' \in [Pods -> Seq(Events)] /\ held' \in [Pods -> Nat]
        /\ assignedPast' \in [Pods -> Seq(Places) \ {<<>>}]
        /\ AssignedTrue(p)'
        /\ \A r \in Pods \ {p} : Silent(r)
    BY <1>0, <1>h, <2>1, <2>2, <2>3, ListedTrue
  <2>5. WatchesTyped'
    BY <1>0, <2>1, <2>4 DEF WatchesTyped
  <2>6. \A r \in Pods : AssignedTrue(r)' /\ UnassignedTrue(r)'
    BY <1>s, <1>q, <1>u, <2>1, <2>4
  <2> QED  BY <1>0, <1>k, <2>1, <2>5, <2>6
<1>10. ASSUME NEW b \in binding, BindCarriedOut(b)
       PROVE  Kept
  <2>1. PICK p \in Pods, n \in Nodes : p = b.pod /\ n = b.node
    BY DEF IInv, RestTyped
  <2>2. /\ pod' = [pod EXCEPT ![p] = n] /\ UNCHANGED <<lister, watchvars>>
        /\ Tell(unassigned, p, NoPod) /\ Tell(assigned, p, n)
    BY <1>10, <2>1 DEF BindCarriedOut
  <2>3. /\ pod' \in [Pods -> Nodes \cup {Unscheduled, NoPod}] /\ pod'[p] = n
        /\ \A q \in Pods \ {p} : pod'[q] = pod[q]
        /\ n \in Places
    BY <1>0, <2>2 DEF Places
  <2>4. Where(p)' = n /\ ~Pending(p)'
    BY <1>n, <2>3 DEF Where, Bound, Pending
  <2>5. /\ assigned' \in [Pods -> Seq(Events)] /\ AssignedTrue(p)'
        /\ \A q \in Pods \ {p} : Silent(q)
    BY <1>0, <1>h, <2>2, <2>3, <2>4, ToldTrue
  <2>6. /\ unassigned' \in [Pods -> Seq({Unscheduled, NoPod})]
        /\ UnassignedTrue(p)' /\ \A q \in Pods \ {p} : Quiet(q)
    BY <1>0, <2>2, <2>4, AnnouncedTrue
  <2>7. WatchesTyped'
    BY <1>0, <2>2, <2>5, <2>6 DEF WatchesTyped, watchvars
  <2>8. \A q \in Pods : AssignedTrue(q)' /\ UnassignedTrue(q)'
    BY <1>s, <1>q, <2>3, <2>5, <2>6
  <2> QED  BY <1>k, <2>3, <2>7, <2>8
<1>11. ASSUME NEW p \in Pods, ScheduleFails(p)
       PROVE  Kept
  BY <1>2, <1>11 DEF ScheduleFails, UpdateCondition
<1>12. ASSUME NEW b \in binding, Forget(b)
       PROVE  Kept
  <2>1. PICK p \in Pods : p = b.pod
    BY DEF IInv, RestTyped
  <2> QED  BY <1>2, <1>12, <2>1 DEF Forget, UpdateCondition
<1>13. CASE \/ \E p \in Pods : \/ Schedule(p) \/ RetryGet(p) \/ RetryAdd(p) \/ Expire(p)
            \/ \E n \in Nodes : NodeAdded(n) \/ NodeDeleted(n)
            \/ Assume \/ AssumeFails
            \/ \E b \in binding : BindFails(b) \/ FinishBinding(b)
  <2>1. UNCHANGED <<pod, unassigned, assigned, lister, watchvars>>
    BY <1>13 DEF Schedule, RetryGet, RetryAdd, Expire, NodeAdded, NodeDeleted, Assume,
                 AssumeFails, BindFails, FinishBinding, apivars
  <2> QED  BY <1>1, <2>1
<1> HIDE DEF Kept
<1> QED  BY <1>3, <1>4, <1>5, <1>6, <1>8, <1>9, <1>10, <1>11, <1>12, <1>13 DEF Next

\* Every step keeps the types of the rest.
LEMMA RestKept ==
  ASSUME IInv, Next
  PROVE  RestTyped'
<1> DEFINE Kept == /\ hasNode' \subseteq Nodes
                   /\ current' = Idle \/ (current'.pod \in Pods /\ current'.node \in Nodes)
                   /\ \A b \in binding' : b.pod \in Pods /\ b.node \in Nodes /\ b.at \in Steps
                   /\ got' \in [Pods -> Nat]
<1> SUFFICES Kept
  BY WatchesKept DEF RestTyped
<1>0. /\ hasNode \subseteq Nodes
      /\ current = Idle \/ (current.pod \in Pods /\ current.node \in Nodes)
      /\ \A b \in binding : b.pod \in Pods /\ b.node \in Nodes /\ b.at \in Steps
      /\ got \in [Pods -> Nat]
  BY DEF IInv, RestTyped
<1>1. ASSUME UNCHANGED <<hasNode, current, binding, got>>
      PROVE  Kept
  BY <1>0, <1>1
<1>2. ASSUME NEW n \in Nodes, NodeAdded(n) \/ NodeDeleted(n)
      PROVE  Kept
  BY <1>0, <1>2 DEF NodeAdded, NodeDeleted, AddNode, RemoveNode, retryvars
<1>3. ASSUME NEW p \in Pods, Schedule(p)
      PROVE  Kept
  BY <1>0, <1>3 DEF Schedule, Fitting, cachevars, retryvars
<1>4. ASSUME NEW p \in Pods, RetryGet(p) \/ RetryAdd(p)
      PROVE  Kept
  BY <1>0, <1>4 DEF RetryGet, RetryAdd, cachevars
<1>5. CASE Assume
  BY <1>0, <1>5 DEF Assume, Steps, retryvars
<1>6. CASE AssumeFails
  BY <1>0, <1>6 DEF AssumeFails, cachevars, retryvars
<1>7. ASSUME NEW b \in binding, BindCarriedOut(b) \/ BindFails(b) \/ FinishBinding(b) \/ Forget(b)
      PROVE  Kept
  <2>1. UNCHANGED <<hasNode, current, got>>
    BY <1>7 DEF BindCarriedOut, BindFails, FinishBinding, Forget, Error, cachevars, retryvars
  <2>2. binding' = binding \ {b} \/ \E at \in Steps : binding' = At(b, at)
    BY <1>7 DEF BindCarriedOut, BindFails, FinishBinding, Forget, Steps
  <2> QED  BY <1>0, <2>1, <2>2 DEF At
<1>8. CASE \/ \E p \in Pods : \/ CreatePod(p) \/ DeletePod(p) \/ TouchPod(p) \/ DeliverUnassigned(p)
                              \/ DeliverAssigned(p) \/ ScheduleFails(p) \/ Expire(p)
                              \/ RelistUnassigned(p) \/ RelistAssigned(p)
  <2>1. UNCHANGED <<hasNode, current, binding, got>>
    BY <1>8 DEF CreatePod, DeletePod, TouchPod, DeliverUnassigned, DeliverAssigned, ScheduleFails,
                Expire, RelistUnassigned, RelistAssigned, Error, cachevars, retryvars
  <2> QED  BY <1>1, <2>1
<1> HIDE DEF Kept
<1> QED  BY <1>2, <1>3, <1>4, <1>5, <1>6, <1>7, <1>8 DEF Next

\* Every step leaves an assumed pod somebody who finishes its binding.
LEMMA OwnedKept ==
  ASSUME IInv, Next
  PROVE  Owned'
<1> USE DEF IInv
<1>1. ASSUME UNCHANGED <<podStates, assumedPods>>,
             \A c \in binding : c.at # "forget" =>
               \E d \in binding' : d.pod = c.pod /\ d.at # "forget"
      PROVE  Owned'
  BY <1>1 DEF Owned, OwnedPod, Assumed, HasState
<1>2. ASSUME NEW p \in Pods, Frame(p), OwnedPod(p)',
             \A c \in binding : c.pod # p => c \in binding'
      PROVE  Owned'
  <2>1. ASSUME NEW q \in Pods \ {p} PROVE OwnedPod(q)'
    <3>1. (Assumed(q)' <=> Assumed(q)) /\ (Assumed(q) => podStates'[q] = podStates[q])
      BY <1>2, Others
    <3> QED  BY <1>2, <3>1 DEF Owned, OwnedPod
  <2> QED  BY <1>2, <2>1 DEF Owned
<1>3. ASSUME NEW p \in Pods, DeliverAssigned(p)
      PROVE  Owned'
  <2>1. PICK old \in Places, e \in Events : old = lister[p] /\ e = Head(assigned[p])
    BY <1>3, TailLast DEF RestTyped, WatchesTyped, DeliverAssigned
  <2>2. PodOK(p) /\ PodEvent(p, old, e) /\ binding' = binding
    BY <1>3, <2>1 DEF Counted, DeliverAssigned
  <2>3. Frame(p) /\ StillAssumed(p)
    BY <2>2, EventStep DEF CacheStep
  <2>4. OwnedPod(p)'
    BY <2>2, <2>3 DEF Owned, OwnedPod, StillAssumed
  <2> QED  BY <1>2, <2>2, <2>3, <2>4
<1>4. ASSUME Assume
      PROVE  Owned'
  <2>1. PICK p \in Pods, n \in Nodes : p = current.pod /\ n = current.node
    BY <1>4 DEF Assume, RestTyped
  <2>2. AssumePod(p, n)
        /\ binding' = binding \cup {[id |-> Fresh, pod |-> p, node |-> n, at |-> "call"]}
    BY <1>4, <2>1 DEF Assume
  <2>3. Frame(p)
    BY <2>2, AssumeStep DEF Counted, CacheStep
  <2>4. [id |-> Fresh, pod |-> p, node |-> n, at |-> "call"] \in binding'
    BY <2>2
  <2>5. OwnedPod(p)'
    BY <2>4 DEF OwnedPod
  <2> QED  BY <1>2, <2>2, <2>3, <2>5
<1>5. ASSUME NEW b \in binding, FinishBinding(b)
      PROVE  Owned'
  <2>1. b.pod \in Pods
    BY DEF RestTyped
  <2>2. Frame(b.pod) /\ (Assumed(b.pod)' => podStates'[b.pod].finished)
    BY <1>5, <2>1, FinishStep DEF FinishBinding, Counted, CacheStep
  <2>3. \A c \in binding : c.pod # b.pod => c \in binding'
    BY <1>5 DEF FinishBinding, At
  <2> QED  BY <1>2, <2>1, <2>2, <2>3 DEF OwnedPod
<1>6. ASSUME NEW p \in Pods, Frame(p), UNCHANGED podvars \/ ~HasState(p)',
             \A c \in binding : c.at # "forget" => c \in binding'
      PROVE  Owned'
  <2>1. CASE UNCHANGED podvars
    BY <1>1, <1>6, <2>1 DEF podvars
  <2>2. CASE ~HasState(p)'
    <3>1. ASSUME NEW q \in Pods \ {p} PROVE OwnedPod(q)'
      <4>1. (Assumed(q)' <=> Assumed(q)) /\ (Assumed(q) => podStates'[q] = podStates[q])
        BY <1>6, Others
      <4> QED  BY <1>6, <4>1 DEF Owned, OwnedPod
    <3> QED  BY <2>2, <3>1 DEF Owned, OwnedPod, Assumed
  <2> QED  BY <1>6, <2>1, <2>2
<1>7. ASSUME NEW b \in binding, Forget(b)
      PROVE  Owned'
  <2>1. b.pod \in Pods /\ b.node \in Nodes
    BY DEF RestTyped
  <2>2. Frame(b.pod) /\ (UNCHANGED podvars \/ ~HasState(b.pod)')
    BY <1>7, <2>1, ForgetStep DEF Forget, Counted, CacheStep
  <2>3. \A c \in binding : c.at # "forget" => c \in binding'
    BY <1>7 DEF Forget
  <2> QED  BY <1>6, <2>1, <2>2, <2>3
<1>8. ASSUME NEW p \in Pods, Expire(p)
      PROVE  Owned'
  <2>1. podStates[p].node \in Nodes
    BY <1>8 DEF Expire, expirePod, CacheTyped, Assumed, HasState
  <2>2. Frame(p) /\ (UNCHANGED podvars \/ ~HasState(p)')
    BY <1>8, <2>1, ForgetStep DEF Expire, Counted, CacheStep
  <2> QED  BY <1>6, <1>8, <2>2 DEF Expire
<1>9. ASSUME NEW b \in binding, BindCarriedOut(b) \/ BindFails(b)
      PROVE  Owned'
  <2>1. UNCHANGED <<podStates, assumedPods>> /\ \E at \in {"bound", "error"} : binding' = At(b, at)
    BY <1>9 DEF BindCarriedOut, BindFails, cachevars
  <2>2. \A c \in binding : \E d \in binding' : d.pod = c.pod /\ (c.at # "forget" => d.at # "forget")
    BY <2>1 DEF At
  <2> QED  BY <1>1, <2>1, <2>2
<1>10. CASE \/ \E p \in Pods : \/ CreatePod(p) \/ DeletePod(p) \/ TouchPod(p) \/ DeliverUnassigned(p)
                               \/ Schedule(p) \/ ScheduleFails(p) \/ RetryGet(p) \/ RetryAdd(p)
                               \/ RelistUnassigned(p) \/ RelistAssigned(p)
            \/ \E n \in Nodes : NodeAdded(n) \/ NodeDeleted(n)
            \/ AssumeFails
  <2>1. UNCHANGED <<podStates, assumedPods, binding>>
    BY <1>10 DEF CreatePod, DeletePod, TouchPod, DeliverUnassigned, Schedule, ScheduleFails,
                 RetryGet, RetryAdd, NodeAdded, NodeDeleted, RelistUnassigned, RelistAssigned,
                 AssumeFails, cachevars, podvars
  <2> QED  BY <1>1, <2>1
<1> QED  BY <1>3, <1>4, <1>5, <1>7, <1>8, <1>9, <1>10 DEF Next

\* A pod is on its way to being tried, or was dropped.
InHand(p) ==
  \/ unassigned[p] # <<>> \/ p \in podQueue \/ current.pod = p
  \/ \E b \in binding : b.pod = p /\ b.at # "bound"
  \/ p \in waiting \/ got[p] > 0
  \/ p \in dropped

\* Every step keeps in hand each pod that waits for a node.
LEMMA ForgottenKept ==
  ASSUME IInv, Next
  PROVE  NeverForgotten'
<1>0. /\ pod \in [Pods -> Nodes \cup {Unscheduled, NoPod}]
      /\ WatchesTyped /\ unassigned \in [Pods -> Seq({Unscheduled, NoPod})]
      /\ got \in [Pods -> Nat]
      /\ \A q \in Pods : Pending(q) /\ ~crashed => InHand(q)
      /\ \A q \in Pods : UnassignedTrue(q)
  BY DEF IInv, RestTyped, WatchesTyped, WatchesTrue, NeverForgotten, InHand
<1>t. ASSUME NEW p \in Pods, NEW e \in {Unscheduled, NoPod}, Tell(unassigned, p, e)
      PROVE  unassigned'[p] # <<>> /\ \A u \in Pods \ {p} : unassigned'[u] = unassigned[u]
  <2>1. Append(unassigned[p], e) # <<>>
    BY <1>0, AppendLast
  <2> QED  BY <1>0, <1>t, <2>1 DEF Tell
<1>n. Unscheduled # NoPod /\ Unscheduled \notin Nodes /\ NoPod \notin Pods
  BY SchedulerAssumption
<1>r. Running
  BY DEF Next, CreatePod, DeletePod, TouchPod, DeliverUnassigned, DeliverAssigned, Schedule,
         ScheduleFails, RetryGet, RetryAdd, Expire, NodeAdded, NodeDeleted, RelistUnassigned,
         RelistAssigned, Assume, AssumeFails, BindCarriedOut, BindFails, FinishBinding, Forget
<1> SUFFICES ASSUME NEW q \in Pods, Pending(q)', ~crashed'
             PROVE  InHand(q)'
  BY DEF NeverForgotten, InHand
<1>1. ASSUME Pending(q) PROVE InHand(q)
  BY <1>0, <1>1, <1>r DEF Running
<1>2. ASSUME UNCHANGED <<pod, podQueue, current, binding, waiting, got, dropped>>,
             unassigned' = unassigned \/ unassigned'[q] # <<>>
      PROVE  InHand(q)'
  BY <1>1, <1>2 DEF InHand, Pending
<1>3. ASSUME NEW p \in Pods, CreatePod(p)
      PROVE  InHand(q)'
  <2>1. /\ unassigned'[p] # <<>>
        /\ \A u \in Pods \ {p} : unassigned'[u] = unassigned[u]
    BY <1>3, <1>t DEF CreatePod
  <2>2. CASE q = p
    BY <2>1, <2>2 DEF InHand
  <2>3. CASE q # p
    <3>1. Pending(q) /\ unassigned'[q] = unassigned[q]
      BY <1>0, <1>3, <2>1, <2>3 DEF CreatePod, Pending
    <3> QED  BY <1>1, <1>3, <3>1 DEF CreatePod, InHand, retryvars, history
  <2> QED  BY <2>2, <2>3
<1>4. ASSUME NEW p \in Pods, DeletePod(p)
      PROVE  InHand(q)'
  <2>1. q # p /\ Pending(q)
    BY <1>0, <1>4, <1>n DEF DeletePod, Pending
  <2>2. unassigned'[q] = unassigned[q]
    <3>1. UNCHANGED unassigned \/ Tell(unassigned, p, NoPod)
      BY <1>4 DEF DeletePod
    <3> QED  BY <2>1, <3>1, <1>t
  <2> QED  BY <1>1, <1>4, <2>1, <2>2 DEF DeletePod, InHand, retryvars
<1>5. ASSUME NEW p \in Pods, UNCHANGED unassigned \/ Tell(unassigned, p, Unscheduled)
      PROVE  unassigned' = unassigned \/ unassigned'[q] # <<>> \/ unassigned'[q] = unassigned[q]
  BY <1>5, <1>t
<1>6. ASSUME NEW p \in Pods, TouchPod(p)
      PROVE  InHand(q)'
  <2>1. UNCHANGED unassigned \/ Tell(unassigned, p, Unscheduled)
    BY <1>6 DEF TouchPod
  <2>2. Pending(q)
    BY <1>6 DEF TouchPod, Pending
  <2> QED  BY <1>1, <1>5, <1>6, <2>1, <2>2 DEF TouchPod, InHand, retryvars, history
<1>7. ASSUME NEW p \in Pods, NEW e \in {Unscheduled, NoPod}, Queue(p, e),
             \A u \in Pods \ {p} : unassigned'[u] = unassigned[u],
             unassigned'[p] = <<>> /\ Pending(p) => e = Unscheduled,
             UNCHANGED <<pod, current, binding, waiting, got>>
      PROVE  InHand(q)'
  <2>1. Pending(q)
    BY <1>7 DEF Pending
  <2>2. CASE q # p
    <3>1. /\ unassigned'[q] = unassigned[q]
          /\ q \in podQueue => q \in podQueue'
          /\ q \in dropped => q \in dropped'
      BY <1>7, <2>2 DEF Queue
    <3> QED  BY <1>1, <1>7, <2>1, <3>1 DEF InHand
  <2>3. CASE q = p /\ unassigned'[p] # <<>>
    BY <2>3 DEF InHand
  <2>4. CASE q = p /\ unassigned'[p] = <<>>
    <3>1. q \in podQueue'
      BY <1>7, <1>n, <2>1, <2>4 DEF Queue
    <3> QED  BY <3>1 DEF InHand
  <2> QED  BY <2>2, <2>3, <2>4
<1>a. ASSUME NEW p \in Pods, DeliverUnassigned(p)
      PROVE  InHand(q)'
  <2>1. /\ Head(unassigned[p]) \in {Unscheduled, NoPod} /\ \A u \in Pods \ {p} : Quiet(u)
    BY <1>0, <1>a, FetchedTrue
  <2>2. /\ Queue(p, Head(unassigned[p])) /\ unassigned[p] # <<>> /\ unassigned'[p] = Tail(unassigned[p])
        /\ UNCHANGED <<pod, current, binding, waiting, got>>
    BY <1>0, <1>a DEF DeliverUnassigned, retryvars
  <2>3. unassigned'[p] = <<>> => Head(unassigned[p]) = LastOf(unassigned[p])
    BY <1>0, <2>2, TailLast
  <2>4. Pending(p) => LastOf(unassigned[p]) = Unscheduled
    BY <1>0, <2>2 DEF UnassignedTrue, Announced
  <2> QED  BY <1>7, <2>1, <2>2, <2>3, <2>4 DEF Quiet
<1>8. ASSUME NEW p \in Pods, RelistUnassigned(p)
      PROVE  InHand(q)'
  <2>1. PICK e \in {Unscheduled, NoPod} :
          Queue(p, e) /\ (unassigned'[p] = <<>> => e = Announced(p))
    BY <1>0, <1>8, FetchedAnew
  <2>2. \A u \in Pods \ {p} : Quiet(u)
    BY <1>0, <1>8, FetchedAnew
  <2>3. UNCHANGED <<pod, current, binding, waiting, got>>
    BY <1>8 DEF RelistUnassigned, retryvars
  <2>4. Pending(p) => Announced(p) = Unscheduled
    BY <1>0 DEF UnassignedTrue
  <2> QED  BY <1>7, <2>1, <2>2, <2>3, <2>4 DEF Quiet
<1>9. ASSUME NEW p \in Pods, Schedule(p)
      PROVE  InHand(q)'
  <2>1. Pending(q) /\ current.pod # q
    BY <1>9, <1>n DEF Schedule, apivars, Idle, Pending
  <2>2. /\ current'.pod = p /\ podQueue' = podQueue \ {p}
        /\ UNCHANGED <<unassigned, binding, waiting, got, dropped>>
    BY <1>9 DEF Schedule, apivars, retryvars, history
  <2> QED  BY <1>1, <2>1, <2>2 DEF InHand
<1>10. ASSUME NEW p \in Pods, ScheduleFails(p)
       PROVE  InHand(q)'
  <2>1. UNCHANGED unassigned \/ Tell(unassigned, p, Unscheduled)
    BY <1>10 DEF ScheduleFails, UpdateCondition
  <2>2. /\ Pending(q) /\ waiting' = waiting \cup {p} /\ podQueue' = podQueue \ {p}
        /\ UNCHANGED <<current, binding, got, dropped>>
    BY <1>10 DEF ScheduleFails, Error, Pending, history
  <2> QED  BY <1>1, <1>5, <2>1, <2>2 DEF InHand
<1>11. CASE Assume
  <2>1. /\ Pending(q)
        /\ UNCHANGED <<unassigned, podQueue, waiting, got, dropped>>
        /\ binding \subseteq binding'
        /\ [id |-> Fresh, pod |-> current.pod, node |-> current.node, at |-> "call"] \in binding'
    BY <1>11 DEF Assume, apivars, retryvars, history, Pending
  <2> QED  BY <1>1, <2>1 DEF InHand
<1>12. CASE AssumeFails
  <2>1. /\ Pending(q) /\ dropped' = dropped \cup {current.pod}
        /\ UNCHANGED <<unassigned, podQueue, binding, waiting, got>>
    BY <1>12 DEF AssumeFails, apivars, retryvars, Pending
  <2> QED  BY <1>1, <2>1 DEF InHand
<1>13. ASSUME NEW b \in binding, BindCarriedOut(b)
       PROVE  InHand(q)'
  <2>1. b.pod \in Pods /\ b.node \in Nodes
    BY DEF IInv, RestTyped
  <2>2. Tell(unassigned, b.pod, NoPod) /\ pod' = [pod EXCEPT ![b.pod] = b.node]
    BY <1>13 DEF BindCarriedOut
  <2>3. q # b.pod /\ Pending(q)
    BY <1>0, <1>n, <2>1, <2>2 DEF Pending
  <2>4. unassigned'[q] = unassigned[q]
    BY <2>1, <2>2, <2>3, <1>t
  <2>5. \A c \in binding : c.pod = q => c \in binding'
    BY <1>13, <2>3 DEF BindCarriedOut, At
  <2> QED  BY <1>1, <1>13, <2>3, <2>4, <2>5 DEF BindCarriedOut, InHand, retryvars
<1>14. ASSUME NEW b \in binding, BindFails(b) \/ FinishBinding(b)
       PROVE  InHand(q)'
  <2>1. /\ Pending(q)
        /\ UNCHANGED <<unassigned, podQueue, current, waiting, got, dropped>>
    BY <1>14 DEF BindFails, FinishBinding, apivars, retryvars, history, Pending
  <2>2. \/ binding' = At(b, "error") \/ binding' = At(b, "forget")
        \/ b.at = "bound" /\ binding' = binding \ {b}
    BY <1>14 DEF BindFails, FinishBinding
  <2>3. ASSUME NEW c \in binding, c.at # "bound"
        PROVE  \E d \in binding' : d.pod = c.pod /\ d.at # "bound"
    <3>1. CASE c # b
      <4>1. c \in binding'
        BY <2>2, <3>1 DEF At
      <4> QED  BY <2>3, <4>1
    <3>2. CASE c = b
      <4>1. PICK step \in {"error", "forget"} : binding' = At(b, step)
        BY <2>2, <2>3, <3>2
      <4>2. [id |-> b.id, pod |-> b.pod, node |-> b.node, at |-> step] \in binding'
        BY <4>1 DEF At
      <4> QED  BY <3>2, <4>2
    <3> QED  BY <3>1, <3>2
  <2> QED  BY <1>1, <2>1, <2>3 DEF InHand
<1>15. ASSUME NEW b \in binding, Forget(b)
       PROVE  InHand(q)'
  <2>1. PICK p \in Pods : p = b.pod
    BY DEF IInv, RestTyped
  <2>2. UNCHANGED unassigned \/ Tell(unassigned, p, Unscheduled)
    BY <1>15, <2>1 DEF Forget, UpdateCondition
  <2>3. /\ Pending(q) /\ waiting' = waiting \cup {p} /\ binding' = binding \ {b}
        /\ UNCHANGED <<podQueue, current, got, dropped>>
    BY <1>15, <2>1 DEF Forget, Error, Pending, history
  <2> QED  BY <1>1, <1>5, <2>1, <2>2, <2>3 DEF InHand
<1>16. ASSUME NEW p \in Pods, RetryGet(p)
       PROVE  InHand(q)'
  <2>1. /\ Pending(q) /\ p \in waiting /\ waiting' = waiting \ {p}
        /\ got' = IF Pending(p) THEN [got EXCEPT ![p] = @ + 1] ELSE got
        /\ UNCHANGED <<unassigned, podQueue, current, binding, dropped>>
    BY <1>16 DEF RetryGet, apivars, history, Pending
  <2> QED  BY <1>0, <1>1, <2>1 DEF InHand
<1>17. ASSUME NEW p \in Pods, RetryAdd(p)
       PROVE  InHand(q)'
  <2>1. /\ Pending(q) /\ podQueue' = podQueue \cup {p} /\ got' = [got EXCEPT ![p] = @ - 1]
        /\ UNCHANGED <<unassigned, waiting, current, binding, dropped>>
    BY <1>17 DEF RetryAdd, apivars, history, Pending
  <2> QED  BY <1>0, <1>1, <2>1 DEF InHand
<1>18. CASE \/ \E p \in Pods : DeliverAssigned(p) \/ RelistAssigned(p) \/ Expire(p)
            \/ \E n \in Nodes : NodeAdded(n) \/ NodeDeleted(n)
  <2>1. UNCHANGED <<pod, unassigned, podQueue, current, binding, waiting, got, dropped>>
    BY <1>18 DEF DeliverAssigned, Expire, NodeAdded, NodeDeleted, RelistAssigned, apivars,
                 retryvars, history
  <2> QED  BY <1>2, <2>1
<1> QED  BY <1>3, <1>4, <1>6, <1>a, <1>8, <1>9, <1>10, <1>11, <1>12, <1>13, <1>14, <1>15,
            <1>16, <1>17, <1>18 DEF Next

-----------------------------------------------------------------------------
(***************************************************************************)
(* The invariant is inductive, and what follows from it.                   *)
(***************************************************************************)
\* It holds of an empty cache and a server without pods.
LEMMA InitInvariant ==
  ASSUME Init
  PROVE  IInv
<1>1. CacheTyped
  BY DEF Init, newSchedulerCache, CacheTyped
<1>2. RestTyped
  <2>1. /\ <<NoPod>> \in Seq({Unscheduled, NoPod}) \ {<<>>} /\ <<NoPod>> \in Seq(Places) \ {<<>>}
        /\ <<>> \in Seq({Unscheduled, NoPod}) /\ <<>> \in Seq(Events)
    BY DEF Places
  <2>2. WatchesTyped
    BY <2>1 DEF Init, WatchesTyped, Places
  <2> QED  BY <2>2 DEF Init, newSchedulerCache, RestTyped
<1>3. Counted
  BY DEF Init, newSchedulerCache, Counted, PodOK, ConfirmedAt, HasState, Assumed, Added
<1>4. NoPod \notin Nodes /\ Unscheduled # NoPod
  BY SchedulerAssumption
<1>5. WatchesTrue
  <2>1. LastOf(<<NoPod>>) = NoPod
    BY DEF LastOf
  <2>2. \A p \in Pods : AssignedTrue(p)
    BY <1>4, <2>1 DEF Init, AssignedTrue, Plain, Told, Read, Where, Bound
  <2>3. \A p \in Pods : UnassignedTrue(p)
    BY <1>4 DEF Init, UnassignedTrue, Pending
  <2> QED  BY <2>2, <2>3 DEF Init, WatchesTrue
<1>6. Owned
  BY DEF Init, newSchedulerCache, Owned, OwnedPod, Assumed
<1>7. NeverForgotten
  BY <1>4 DEF Init, NeverForgotten, Pending
<1> QED  BY <1>1, <1>2, <1>3, <1>5, <1>6, <1>7 DEF IInv

\* No step of the scheduler, the watches or the server breaks it.
LEMMA NextInvariant ==
  ASSUME IInv, [Next]_vars
  PROVE  IInv'
<1>1. CASE Next
  BY <1>1, CountedKept, RestKept, WatchesKept, OwnedKept, ForgottenKept DEF IInv
<1>2. CASE UNCHANGED vars
  <2>1. CacheTyped' /\ RestTyped'
    BY <1>2 DEF IInv, vars, cachevars, CacheTyped, RestTyped, WatchesTyped
  <2>2. Counted' /\ Owned'
    BY <1>2 DEF IInv, vars, cachevars, Counted, PodOK, ConfirmedAt, CountedOnce, HasState, Assumed,
                Added, Owned, OwnedPod
  <2>3. WatchesTrue'
    <3>1. \A p \in Pods : /\ AssignedTrue(p) /\ UnassignedTrue(p)
                           /\ Silent(p) /\ Quiet(p) /\ Where(p)' = Where(p) /\ (Pending(p)' => Pending(p))
      BY <1>2 DEF IInv, WatchesTrue, vars, Silent, Quiet, Where, Bound, Pending
    <3>2. lossy' = lossy /\ doubt' = doubt /\ lossy \subseteq doubt
      BY <1>2 DEF IInv, WatchesTrue, vars
    <3> QED  BY <3>1, <3>2, SilentTrue, QuietTrue DEF WatchesTrue
  <2>4. NeverForgotten'
    BY <1>2 DEF IInv, vars, cachevars, Pending, NeverForgotten
  <2> QED  BY <2>1, <2>2, <2>3, <2>4 DEF IInv
<1> QED  BY <1>1, <1>2

\* The cache, the watches, the bindings and the queues always agree with one
\* another as the invariant says.
THEOREM SchedulerInvariant == Spec => []IInv
<1>1. Init => IInv
  BY InitInvariant
<1>2. IInv /\ [Next]_vars => IInv'
  BY NextInvariant
<1> QED  BY <1>1, <1>2, PTL DEF Spec

\* However assumption, confirmation, expiry, failing bindings, relists and
\* re-creation interleave, the cache counts a pod that it has a state for once
\* and no other pod: the requested resources of the nodes add up.
THEOREM CountsAddUp == Spec => []NodesAddUp
<1>1. IInv => NodesAddUp
  <2> SUFFICES ASSUME IInv, NEW p \in Pods
               PROVE  IF HasState(p) THEN \E n \in Nodes : CountedOnce(p, n)
                      ELSE \A n \in Nodes : count[n][p] = 0
    BY DEF NodesAddUp, CountedOnce
  <2>1. PodOK(p)
    BY DEF IInv, Counted
  <2>2. CASE Assumed(p)
    <3>1. podStates[p].node \in Nodes
      BY <2>2 DEF IInv, CacheTyped, Assumed, HasState
    <3> QED  BY <2>1, <2>2, <3>1 DEF PodOK, Assumed
  <2>3. CASE ~Assumed(p)
    BY <2>1, <2>3 DEF PodOK, Assumed, Added
  <2> QED  BY <2>2, <2>3
<1> QED  BY <1>1, SchedulerInvariant, PTL

\* A pod that waits for a node is announced, queued, in work or waiting for a
\* retry, whatever binding, condition update or watch fails, as long as
\* AssumePod did not refuse it.
THEOREM NoPodForgotten == Spec => []NeverForgotten
<1>1. IInv => NeverForgotten
  BY DEF IInv
<1> QED  BY <1>1, SchedulerInvariant, PTL

\* What a pod without a node occupies in the cache is given back by its binding
\* goroutine, by an event that is on its way, or by expiry, however far a list is
\* ahead or behind; left out are the pods of which Replace lost or mistook a delta.
THEOREM NoCapacityLost == Spec => []CapacityComesBack
<1>1. IInv => CapacityComesBack
  <2> SUFFICES ASSUME IInv, NEW p \in Pods, HasState(p), ~Bound(p), ~crashed, assigned[p] = <<>>,
                      p \notin lossy
               PROVE  \/ \E b \in binding : b.pod = p
                      \/ Assumed(p) /\ podStates[p].finished
    BY DEF CapacityComesBack
  <2>1. lister[p] = NoPod /\ NoPod \notin Nodes
    BY SchedulerAssumption DEF IInv, WatchesTrue, AssignedTrue, Where
  <2>2. ~Added(p)
    BY <2>1 DEF IInv, Counted, ConfirmedAt
  <2>3. Assumed(p)
    BY <2>2 DEF Added, Assumed
  <2> QED  BY <2>3 DEF IInv, Owned, OwnedPod
<1> QED  BY <1>1, SchedulerInvariant, PTL


-----------------------------------------------------------------------------
(***************************************************************************)
(* The second invariant: what the scheduler knows of the pods that it was  *)
(* not told wrong about, and that they fit.                                *)
(***************************************************************************)
\* The cache has the pod where the server has it.
Held(p) == Bound(p) => HasState(p) /\ podStates[p].node = pod[p]

\* The events s of a pod that the cache has on node n, and of which the lister
\* has l: they confirm it there, and at most the last one ends it.
News(s, n, l) ==
  /\ l \in {n, NoPod}
  /\ \A i \in 1 .. Len(s) :
       \/ s[i] = n
       \/ s[i] = NoPod /\ i = Len(s) /\ (i # 1 \/ l # NoPod)

\* A binding that was not carried out is of an assumed pod of which no event can
\* come, does not expire before its answer, and is the only one.
UnderWay(b) ==
  /\ Assumed(b.pod) /\ podStates[b.pod].node = b.node
  /\ ~Bound(b.pod) /\ assigned[b.pod] = <<>>
  /\ b.at = "call" => ~podStates[b.pod].finished
  /\ \A c \in binding : c.pod = b.pod /\ c.at # "bound" => c = b

Honest(p) ==
  /\ ~HasState(p) => assigned[p] = <<>>
  /\ Assumed(p) => lister[p] = NoPod
  /\ HasState(p) => News(assigned[p], podStates[p].node, lister[p])
  /\ \A b \in binding : b.pod = p /\ b.at # "bound" => UnderWay(b)

Trusted == \A p \in Pods \ doubt : Held(p) /\ (~crashed => Honest(p))

Holding(n) == {p \in Pods \ doubt : HasState(p) /\ podStates[p].node = n}

\* The pods held fit, and so does the one scheduleOne has decided about.
Room ==
  /\ \A n \in Nodes : Cardinality(Holding(n)) <= Capacity
  /\ current # Idle => Cardinality(Holding(current.node)) < Capacity

Safe == Trusted /\ NeverKillsItself /\ Room

-----------------------------------------------------------------------------
\* The watch of a pod that is not in doubt.
LEMMA TrustedWatch ==
  ASSUME IInv, NEW p \in Pods \ doubt
  PROVE  /\ assigned[p] \in Seq(Places) /\ lister[p] \in Places /\ p \notin lossy
         /\ assigned[p] = <<>> => lister[p] = Where(p)
         /\ assigned[p] # <<>> => LastOf(assigned[p]) = Where(p)
         /\ ~crashed => ConfirmedAt(p, lister[p])
<1>1. /\ p \notin lossy /\ AssignedTrue(p) /\ assigned[p] \in Seq(Events) /\ lister[p] \in Places
  BY DEF IInv, RestTyped, WatchesTyped, WatchesTrue
<1>2. \A i \in 1 .. Len(assigned[p]) : assigned[p][i] \in Places
  BY <1>1 DEF AssignedTrue, Plain
<1>3. assigned[p] \in Seq(Places)
  <2>1. PICK s : s = assigned[p]
    OBVIOUS
  <2>2. s \in Seq(Events) /\ \A i \in 1 .. Len(s) : s[i] \in Places
    BY <1>1, <1>2, <2>1
  <2>3. s \in Seq(Places)
    BY <2>2
  <2> QED  BY <2>1, <2>3
<1>4. ~crashed => ConfirmedAt(p, lister[p])
  BY <1>1 DEF IInv, Counted
<1> QED  BY <1>1, <1>3, <1>4 DEF AssignedTrue

\* One event more, of a pod whose end was not told.
LEMMA NewsAppend ==
  ASSUME NEW n \in Nodes, NEW l \in Places, NEW s \in Seq(Places),
         NEW e \in {n, NoPod}, News(s, n, l),
         s = <<>> => l = n \/ e = n, s # <<>> => LastOf(s) # NoPod
  PROVE  News(Append(s, e), n, l)
<1>0. NoPod \notin Nodes
  BY SchedulerAssumption
<1> DEFINE t == Append(s, e)
<1>1. Len(t) = Len(s) + 1 /\ t[Len(s) + 1] = e /\ \A i \in 1 .. Len(s) : t[i] = s[i]
  OBVIOUS
<1>2. Len(s) \in Nat /\ (Len(s) = 0 => s = <<>>)
  OBVIOUS
<1>3. ASSUME NEW i \in 1 .. Len(s) PROVE s[i] = n
  <2>1. CASE i = Len(s)
    <3>1. s # <<>>
      BY <1>2, <1>3, <2>1
    <3> QED  BY <1>3, <2>1, <3>1 DEF News, LastOf
  <2>2. CASE i # Len(s)
    BY <1>3, <2>2 DEF News
  <2> QED  BY <2>1, <2>2
<1>4. ASSUME NEW i \in 1 .. Len(t)
      PROVE  t[i] = n \/ (t[i] = NoPod /\ i = Len(t) /\ (i # 1 \/ l # NoPod))
  <2>1. CASE i \in 1 .. Len(s)
    BY <1>1, <1>3, <2>1
  <2>2. CASE i = Len(s) + 1
    <3>1. CASE e = n
      BY <1>1, <2>2, <3>1
    <3>2. CASE e = NoPod /\ e # n
      <4>1. i # 1 \/ l = n
        BY <1>2, <2>2, <3>2
      <4> QED  BY <1>0, <1>1, <2>2, <3>2, <4>1
    <3> QED  BY <3>1, <3>2
  <2> QED  BY <1>1, <1>2, <2>1, <2>2
<1> HIDE DEF t
<1>5. News(t, n, l)
  BY <1>4 DEF News
<1> QED  BY <1>5 DEF t

\* An event of the pod is taken: it confirms the pod, or it is the only one.
LEMMA NewsTail ==
  ASSUME NEW n \in Nodes, NEW l \in Places, NEW s \in Seq(Places),
         News(s, n, l), s # <<>>
  PROVE  \/ Head(s) = n /\ News(Tail(s), n, n)
         \/ Head(s) = NoPod /\ Tail(s) = <<>> /\ l = n
<1>0. NoPod \notin Nodes
  BY SchedulerAssumption
<1>1. PICK L \in Nat : Len(s) = L + 1
  <2>1. Len(s) \in Nat /\ Len(s) # 0
    OBVIOUS
  <2> QED  BY <2>1
<1>2. Head(s) = s[1] /\ Len(Tail(s)) = L /\ \A i \in 1 .. L : Tail(s)[i] = s[i + 1]
  BY <1>1
<1>3. CASE s[1] = n
  <2>1. ASSUME NEW i \in 1 .. Len(Tail(s))
        PROVE  Tail(s)[i] = n \/ (Tail(s)[i] = NoPod /\ i = Len(Tail(s)) /\ (i # 1 \/ n # NoPod))
    <3>1. i + 1 \in 1 .. Len(s) /\ Tail(s)[i] = s[i + 1]
      BY <1>1, <1>2, <2>1
    <3>2. s[i + 1] = n \/ (s[i + 1] = NoPod /\ i + 1 = Len(s))
      BY <3>1 DEF News
    <3> QED  BY <1>0, <1>1, <1>2, <3>1, <3>2
  <2> QED  BY <1>2, <1>3, <2>1 DEF News
<1>4. CASE s[1] # n
  <2>1. s[1] = NoPod /\ 1 = Len(s) /\ l # NoPod /\ l = n
    BY <1>1, <1>4 DEF News
  <2> QED  BY <1>1, <1>2, <2>1
<1> QED  BY <1>1, <1>3, <1>4

\* Nothing about the pod q is changed, nor about its bindings but that some end.
Untouched(q) ==
  /\ q \in DOMAIN podStates' <=> q \in DOMAIN podStates
  /\ q \in assumedPods' <=> q \in assumedPods
  /\ q \in DOMAIN podStates => podStates'[q] = podStates[q]
  /\ assigned'[q] = assigned[q] /\ lister'[q] = lister[q]
  /\ Bound(q)' => pod'[q] = pod[q]
  /\ \A c \in binding' : c.pod = q /\ c.at # "bound" => c \in binding

\* What was known of such a pod still is.
LEMMA UntouchedKept ==
  ASSUME NEW q \in Pods, Untouched(q)
  PROVE  (Held(q) => Held(q)') /\ (Honest(q) => Honest(q)')
<1>1. /\ HasState(q)' <=> HasState(q)
      /\ Assumed(q)' <=> Assumed(q)
      /\ HasState(q) => podStates'[q] = podStates[q]
      /\ Bound(q)' => Bound(q) /\ pod'[q] = pod[q]
  BY DEF Untouched, HasState, Assumed, Bound
<1>2. Held(q) => Held(q)'
  BY <1>1 DEF Held
<1>3. ASSUME NEW c \in binding', c.pod = q, c.at # "bound", Honest(q)
      PROVE  UnderWay(c)'
  <2>1. c \in binding /\ UnderWay(c)
    BY <1>3 DEF Untouched, Honest
  <2>2. \A d \in binding' : d.pod = q /\ d.at # "bound" => d = c
    BY <1>3, <2>1 DEF Untouched, UnderWay
  <2>3. Assumed(q)' /\ podStates'[q].node = c.node /\ ~Bound(q)' /\ assigned'[q] = <<>>
    BY <1>1, <1>3, <2>1 DEF Untouched, UnderWay, Assumed
  <2>4. c.at = "call" => ~podStates'[q].finished
    BY <1>1, <1>3, <2>1 DEF UnderWay, Assumed
  <2> QED  BY <1>3, <2>2, <2>3, <2>4 DEF UnderWay, Assumed, HasState, Bound
<1>4. ASSUME Honest(q) PROVE Honest(q)'
  <2>1. /\ ~HasState(q)' => assigned'[q] = <<>>
        /\ Assumed(q)' => lister'[q] = NoPod
    BY <1>1, <1>4 DEF Honest, Untouched
  <2>2. HasState(q)' => News(assigned'[q], podStates'[q].node, lister'[q])
    BY <1>1, <1>4 DEF Honest, Untouched
  <2> QED  BY <1>3, <1>4, <2>1, <2>2 DEF Honest, News, HasState, Assumed
<1> QED  BY <1>2, <1>4


\* A step after which no more is held fits as well as before.
LEMMA RoomKept ==
  ASSUME IInv, Room, doubt \subseteq doubt', current' = current \/ current' = Idle,
         \A q \in Pods \ doubt' :
           HasState(q)' => HasState(q) /\ podStates'[q].node = podStates[q].node
  PROVE  Room'
<1>1. ASSUME NEW n \in Nodes
      PROVE  /\ Cardinality(Holding(n)') <= Cardinality(Holding(n))
             /\ Cardinality(Holding(n)') \in Nat /\ Cardinality(Holding(n)) \in Nat
  <2>1. IsFiniteSet(Holding(n))
    BY SchedulerAssumption, FS_Subset DEF Holding
  <2>2. Holding(n)' \in SUBSET Holding(n)
    BY DEF Holding, HasState
  <2> QED  BY <2>1, <2>2, FS_Subset, FS_CardinalityType
<1>2. Capacity \in Nat
  BY SchedulerAssumption
<1>3. ASSUME NEW n \in Nodes PROVE Cardinality(Holding(n)') <= Capacity
  BY <1>1, <1>2, <1>3 DEF Room
<1>4. ASSUME current' # Idle PROVE Cardinality(Holding(current.node)') < Capacity
  <2>1. PICK n \in Nodes : n = current.node
    BY <1>4 DEF IInv, RestTyped
  <2>2. current' = current /\ current # Idle
    BY <1>4
  <2>3. Cardinality(Holding(n)) < Capacity
    BY <2>1, <2>2 DEF Room
  <2>4. Cardinality(Holding(n)') < Capacity
    BY <1>1, <1>2, <2>3
  <2>5. Holding(current.node)' = Holding(n)'
    BY <2>1, <2>2 DEF Holding
  <2> QED  BY <2>4, <2>5
<1> QED  BY <1>3, <1>4 DEF Room, Holding

\* What a step has to leave of a pod that is still not in doubt.
PodKept(p) ==
  /\ ~crashed' /\ Held(p)' /\ Honest(p)'
  /\ HasState(p)' => HasState(p) /\ podStates'[p].node = podStates[p].node

\* A step that is about one pod.
LEMMA SafeKept ==
  ASSUME IInv, Safe, Running, NEW p \in Pods, doubt \subseteq doubt',
         current' = current \/ current' = Idle,
         \A q \in Pods \ {p} : Untouched(q),
         p \notin doubt' => PodKept(p)
  PROVE  Safe'
<1>1. Trusted'
  <2> SUFFICES ASSUME NEW q \in Pods \ doubt' PROVE Held(q)' /\ (~crashed' => Honest(q)')
    BY DEF Trusted, Held, Honest, Bound, HasState
  <2>1. CASE q = p
    BY <2>1 DEF PodKept
  <2>2. CASE q # p
    <3>1. Held(q) /\ Honest(q)
      BY DEF Safe, Trusted, Running
    <3> QED  BY <2>2, <3>1, UntouchedKept
  <2> QED  BY <2>1, <2>2
<1>2. NeverKillsItself'
  BY DEF NeverKillsItself, PodKept
<1>3. Room'
  <2>1. \A q \in Pods \ doubt' :
          HasState(q)' => HasState(q) /\ podStates'[q].node = podStates[q].node
    BY DEF PodKept, Untouched, HasState
  <2> QED  BY <2>1, RoomKept DEF Safe
<1> QED  BY <1>1, <1>2, <1>3 DEF Safe

\* A step that is about none.
LEMMA SafeUntouched ==
  ASSUME IInv, Safe, Running, doubt \subseteq doubt', crashed' = crashed,
         \A q \in Pods : Untouched(q)
  PROVE  /\ Trusted' /\ NeverKillsItself'
         /\ current' = current \/ current' = Idle => Room'
<1>1. Trusted'
  <2> SUFFICES ASSUME NEW q \in Pods \ doubt' PROVE Held(q)' /\ (~crashed' => Honest(q)')
    BY DEF Trusted, Held, Honest, Bound, HasState
  <2>1. Held(q) /\ Honest(q)
    BY DEF Safe, Trusted, Running
  <2> QED  BY <2>1, UntouchedKept
<1>2. NeverKillsItself'
  BY DEF NeverKillsItself, Running
<1>3. ASSUME current' = current \/ current' = Idle PROVE Room'
  <2>1. \A q \in Pods \ doubt' :
          HasState(q)' => HasState(q) /\ podStates'[q].node = podStates[q].node
    BY DEF Untouched, HasState
  <2> QED  BY <1>3, <2>1, RoomKept DEF Safe
<1> QED  BY <1>1, <1>2, <1>3

-----------------------------------------------------------------------------
(***************************************************************************)
(* The steps, one by one.                                                  *)
(***************************************************************************)
\* A pod is created, deleted or changed.
LEMMA SafeApi ==
  ASSUME IInv, Safe, NEW p \in Pods, CreatePod(p) \/ DeletePod(p) \/ TouchPod(p)
  PROVE  Safe'
<1>0. /\ pod \in [Pods -> Nodes \cup {Unscheduled, NoPod}]
      /\ assigned \in [Pods -> Seq(Events)] /\ lister \in [Pods -> Places]
  BY DEF IInv, RestTyped, WatchesTyped
<1>n. NoPod \notin Nodes /\ Unscheduled \notin Nodes
  BY SchedulerAssumption
<1>1. /\ Running /\ UNCHANGED <<podStates, assumedPods, crashed, lister, current, binding, doubt>>
  BY DEF CreatePod, DeletePod, TouchPod, cachevars, history
<1>2. pod' = pod \/ \E e \in {Unscheduled, NoPod} : pod' = [pod EXCEPT ![p] = e]
  BY DEF CreatePod, DeletePod, TouchPod
<1>3. \/ UNCHANGED assigned
      \/ Bound(p) /\ \E e \in {pod[p], NoPod} : Tell(assigned, p, e)
  BY DEF CreatePod, DeletePod, TouchPod
<1>4. ASSUME NEW q \in Pods \ {p} PROVE Untouched(q)
  <2>1. pod'[q] = pod[q]
    BY <1>0, <1>2
  <2>2. assigned'[q] = assigned[q]
    BY <1>0, <1>3 DEF Tell
  <2> QED  BY <1>1, <2>1, <2>2 DEF Untouched
<1>5. Bound(p)' => Bound(p) /\ pod'[p] = pod[p]
  BY <1>0, <1>n, <1>2 DEF Bound
<1>6. ASSUME p \notin doubt PROVE PodKept(p)
  <2>1. Held(p) /\ Honest(p) /\ ~crashed
    BY <1>1, <1>6 DEF Safe, Trusted, Running
  <2>2. CASE UNCHANGED assigned
    <3>1. Untouched(p)
      BY <1>1, <1>5, <2>2 DEF Untouched
    <3> QED  BY <1>1, <2>1, <3>1, UntouchedKept DEF PodKept, HasState
  <2>3. CASE Bound(p) /\ \E e \in {pod[p], NoPod} : Tell(assigned, p, e)
    <3>1. PICK n \in Nodes : n = pod[p]
      BY <2>3 DEF Bound
    <3>2. PICK e \in {n, NoPod} : Tell(assigned, p, e)
      BY <2>3, <3>1
    <3>3. HasState(p) /\ podStates[p].node = n
      BY <2>1, <2>3, <3>1 DEF Held
    <3>4. /\ News(assigned[p], n, lister[p])
          /\ assigned[p] = <<>> => lister[p] = n
          /\ assigned[p] # <<>> => LastOf(assigned[p]) = n
      BY <1>6, <2>1, <2>3, <3>1, <3>3, TrustedWatch DEF Honest, Where
    <3>5. assigned[p] \in Seq(Places) /\ lister[p] \in Places
      BY <1>6, TrustedWatch
    <3>6. News(Append(assigned[p], e), n, lister[p])
      BY <1>n, <3>4, <3>5, NewsAppend
    <3>7. assigned'[p] = Append(assigned[p], e)
      BY <1>0, <3>2 DEF Tell
    <3>8. \A b \in binding : ~(b.pod = p /\ b.at # "bound")
      BY <2>1, <2>3 DEF Honest, UnderWay
    <3>9. Honest(p)'
      BY <1>1, <2>1, <3>3, <3>6, <3>7, <3>8 DEF Honest, News, HasState, Assumed
    <3>10. Held(p)'
      BY <1>1, <1>5, <2>1 DEF Held, HasState
    <3> QED  BY <1>1, <2>1, <3>9, <3>10 DEF PodKept, HasState
  <2> QED  BY <1>3, <2>2, <2>3
<1> QED  BY <1>1, <1>4, <1>6, SafeKept

\* An event of the informer confirms the pod where it is assumed, changes
\* nothing, or ends it: none of the checks of the cache fails.
LEMMA SafeDeliver ==
  ASSUME IInv, Safe, NEW p \in Pods, DeliverAssigned(p)
  PROVE  Safe'
<1>0. assigned \in [Pods -> Seq(Events)] /\ lister \in [Pods -> Places]
  BY DEF IInv, RestTyped, WatchesTyped
<1>n. NoPod \notin Nodes /\ \A m \in Nodes : Tombstone(m) \notin Places
  BY SchedulerAssumption DEF Places
<1>1. /\ Running /\ UNCHANGED <<pod, current, binding, doubt>> /\ assigned[p] # <<>>
      /\ lister' = [lister EXCEPT ![p] = PodOf(Head(assigned[p]))]
      /\ assigned' = [assigned EXCEPT ![p] = Tail(@)]
      /\ PodEvent(p, lister[p], Head(assigned[p]))
  BY DEF DeliverAssigned, history
<1>2. PICK old \in Places, new \in Events : old = lister[p] /\ new = Head(assigned[p])
  BY <1>0, <1>1, TailLast
<1>3. CacheTyped /\ PodOK(p) /\ PodEvent(p, old, new)
  BY <1>1, <1>2 DEF IInv, Counted
<1>4. Frame(p)
  BY <1>3, EventStep DEF CacheStep
<1>5. ASSUME NEW q \in Pods \ {p} PROVE Untouched(q)
  BY <1>0, <1>1, <1>4 DEF Untouched, Frame, Bound
<1>6. ASSUME p \notin doubt PROVE PodKept(p)
  <2>1. Held(p) /\ Honest(p) /\ ~crashed
    BY <1>1, <1>6 DEF Safe, Trusted, Running
  <2>2. HasState(p)
    BY <1>1, <2>1 DEF Honest
  <2>3. PICK n \in Nodes : n = podStates[p].node
    BY <1>3, <2>2 DEF CacheTyped, HasState
  <2>t. assigned[p] \in Seq(Places) /\ p \notin lossy /\ ConfirmedAt(p, old)
    BY <1>2, <1>6, <2>1, TrustedWatch
  <2>4. News(assigned[p], n, old)
    BY <1>2, <2>1, <2>2, <2>3 DEF Honest
  <2>5. \/ new = n /\ News(Tail(assigned[p]), n, n)
        \/ new = NoPod /\ Tail(assigned[p]) = <<>> /\ old = n
    BY <1>1, <1>2, <2>t, <2>4, NewsTail
  <2>6. \A b \in binding' : ~(b.pod = p /\ b.at # "bound")
    BY <1>1, <2>1 DEF Honest, UnderWay
  <2>7. lister'[p] = new /\ assigned'[p] = Tail(assigned[p])
    BY <1>0, <1>1, <1>2, <2>5 DEF PodOf
  <2>8. CASE new = n /\ News(Tail(assigned[p]), n, n)
    <3>1. /\ podStates' = podStates /\ crashed' = crashed
          /\ p \notin assumedPods'
      <4>1. CASE old = NoPod
        <5>1. Assumed(p)
          BY <1>n, <2>t, <2>2, <4>1 DEF ConfirmedAt, Added, Assumed
        <5> QED  BY <1>3, <1>n, <2>2, <2>3, <2>8, <4>1, <5>1
                 DEF PodEvent, AddPod, Added, Assumed, Places
      <4>2. CASE old # NoPod
        <5>1. Added(p) /\ old = n
          BY <1>2, <2>1, <2>2, <2>4, <4>2 DEF Honest, Added, Assumed, News
        <5>2. count[n][p] > 0
          BY <2>t, <5>1 DEF ConfirmedAt, CountedOnce
        <5> QED  BY <1>3, <1>n, <2>3, <2>8, <4>2, <5>1, <5>2
                 DEF PodEvent, UpdatePod, RemovePodThen, Added, Places
      <4> QED  BY <4>1, <4>2
    <3>2. Honest(p)'
      BY <2>2, <2>3, <2>6, <2>7, <2>8, <3>1 DEF Honest, News, HasState, Assumed
    <3>3. Held(p)'
      BY <1>1, <2>1, <3>1 DEF Held, HasState, Bound
    <3> QED  BY <2>1, <3>1, <3>2, <3>3 DEF PodKept, HasState
  <2>9. CASE new = NoPod /\ Tail(assigned[p]) = <<>> /\ old = n
    <3>1. Added(p)
      BY <1>2, <1>n, <2>1, <2>2, <2>9 DEF Honest, Added, Assumed
    <3>2. CountedOnce(p, n)
      BY <2>t, <2>9, <3>1 DEF ConfirmedAt
    <3>3. Drop(p, n)
      BY <1>3, <1>n, <2>3, <2>9, <3>1, <3>2 
         DEF PodEvent, RemovePod, RemovePodThen, CountedOnce, Places
    <3>4. ~HasState(p)' /\ crashed' = crashed
      BY <1>3, <3>2, <3>3, DropStep DEF Drop
    <3>5. ~Bound(p)'
      <4>1. LastOf(assigned[p]) = NoPod
        BY <1>0, <1>1, <1>2, <2>9, TailLast
      <4>2. Where(p) = NoPod
        BY <1>1, <1>6, <4>1, TrustedWatch
      <4> QED  BY <1>1, <1>n, <4>2 DEF Where, Bound
    <3>6. Honest(p)'
      BY <2>6, <2>7, <2>9, <3>4 DEF Honest, Assumed
    <3> QED  BY <2>1, <3>4, <3>5, <3>6 DEF PodKept, Held
  <2> QED  BY <2>5, <2>8, <2>9
<1> QED  BY <1>1, <1>5, <1>6, SafeKept


\* What a list that is not behind makes of the events A, when the first q of them
\* have been received, it has the pod as the event w left it, at s, and l is what
\* the informer has: the deltas are those q, then s unless they say so already, and
\* the events after w follow.
ListShape(A, l, q, w, s, B) ==
  /\ Len(A) \in Nat /\ q \in Nat /\ w \in Nat /\ q <= w /\ w <= Len(A)
  /\ s = IF w = 0 THEN l ELSE A[w]
  /\ \/ /\ s = NoPod /\ s = IF q = 0 THEN l ELSE A[q]
        /\ Len(B) = q + Len(A) - w
        /\ \A i \in 1 .. q : B[i] = A[i]
        /\ \A i \in 1 .. Len(A) - w : B[q + i] = A[w + i]
     \/ /\ s # NoPod \/ (IF q = 0 THEN l ELSE A[q]) # NoPod
        /\ Len(B) = q + 1 + Len(A) - w
        /\ \A i \in 1 .. q : B[i] = A[i]
        /\ B[q + 1] = s
        /\ \A i \in 1 .. Len(A) - w : B[q + 1 + i] = A[w + i]

\* It is no other news of the pod than before.
LEMMA NewsListed ==
  ASSUME NEW A, NEW B, NEW l, NEW q, NEW w, NEW s, NEW n \in Nodes,
         ListShape(A, l, q, w, s, B), News(A, n, l)
  PROVE  News(B, n, l)
<1>0. NoPod \notin Nodes /\ n # NoPod
  BY SchedulerAssumption
<1>1. /\ Len(A) \in Nat /\ q \in Nat /\ w \in Nat /\ q <= w /\ w <= Len(A)
      /\ s = IF w = 0 THEN l ELSE A[w]
  BY DEF ListShape
<1>2. /\ l \in {n, NoPod}
      /\ \A i \in 1 .. Len(A) : A[i] = n \/ (A[i] = NoPod /\ i = Len(A) /\ (i # 1 \/ l # NoPod))
  BY DEF News
<1>3. ASSUME s = NoPod, s = (IF q = 0 THEN l ELSE A[q]),
             Len(B) = q + Len(A) - w, \A i \in 1 .. q : B[i] = A[i],
             \A i \in 1 .. Len(A) - w : B[q + i] = A[w + i],
             NEW k \in 1 .. Len(B)
      PROVE  B[k] = n \/ (B[k] = NoPod /\ k = Len(B) /\ (k # 1 \/ l # NoPod))
  <2>1. q # 0 => q = Len(A)
    <3>1. CASE q # 0
      <4>1. q \in 1 .. Len(A) /\ A[q] = NoPod
        BY <1>1, <1>3, <3>1
      <4> QED  BY <1>0, <1>2, <4>1
    <3> QED  BY <3>1
  <2>2. w # 0 => w = Len(A)
    <3>1. CASE w # 0
      <4>1. w \in 1 .. Len(A) /\ A[w] = NoPod
        BY <1>1, <1>3, <3>1
      <4> QED  BY <1>0, <1>2, <4>1
    <3> QED  BY <3>1
  <2>3. q = w \/ (q = 0 /\ w = Len(A))
    BY <1>1, <2>1, <2>2
  <2>4. CASE q = w
    <3>1. Len(B) = Len(A) /\ k \in 1 .. Len(A) /\ (k \in 1 .. q \/ k - q \in 1 .. Len(A) - w)
      BY <1>1, <1>3, <2>4
    <3>2. B[k] = A[k]
      <4>1. CASE k \in 1 .. q
        BY <1>3, <4>1
      <4>2. CASE k - q \in 1 .. Len(A) - w
        <5>1. B[q + (k - q)] = A[w + (k - q)]
          BY <1>3, <4>2
        <5>2. q + (k - q) = k /\ w + (k - q) = k
          BY <1>1, <1>3, <2>4, <3>1
        <5> QED  BY <5>1, <5>2
      <4> QED  BY <3>1, <4>1, <4>2
    <3> QED  BY <1>2, <3>1, <3>2
  <2>5. CASE q = 0 /\ w = Len(A)
    <3>1. Len(B) = 0
      BY <1>1, <1>3, <2>5
    <3> QED  BY <1>3, <3>1
  <2> QED  BY <2>3, <2>4, <2>5
<1>4. ASSUME s # NoPod \/ (IF q = 0 THEN l ELSE A[q]) # NoPod,
             Len(B) = q + 1 + Len(A) - w, \A i \in 1 .. q : B[i] = A[i], B[q + 1] = s,
             \A i \in 1 .. Len(A) - w : B[q + 1 + i] = A[w + i],
             NEW k \in 1 .. Len(B)
      PROVE  B[k] = n \/ (B[k] = NoPod /\ k = Len(B) /\ (k # 1 \/ l # NoPod))
  <2>0. k \in Nat /\ 1 <= k /\ k <= Len(B) /\ Len(B) \in Nat
    BY <1>1, <1>4
  <2>1. CASE k <= q
    <3>1. k \in 1 .. q /\ k \in 1 .. Len(A)
      BY <1>1, <2>0, <2>1
    <3>2. B[k] = A[k]
      BY <1>4, <3>1
    <3>3. CASE A[k] # n
      <4>1. A[k] = NoPod /\ k = Len(A)
        BY <1>2, <3>1, <3>3
      <4>2. q = k /\ w = k /\ k # 0
        BY <1>1, <2>0, <2>1, <4>1
      <4>3. s = NoPod
        BY <1>1, <4>1, <4>2
      <4> QED  BY <1>4, <4>1, <4>2, <4>3
    <3> QED  BY <3>2, <3>3
  <2>2. CASE k = q + 1
    <3>1. B[k] = s
      BY <1>4, <2>2
    <3>2. CASE s # n
      <4>1. s = NoPod /\ w = Len(A)
        <5>1. CASE w = 0
          <6>1. q = 0 /\ s = l
            BY <1>1, <5>1
          <6> QED  BY <1>2, <1>4, <3>2, <6>1
        <5>2. CASE w # 0
          <6>1. w \in 1 .. Len(A) /\ s = A[w]
            BY <1>1, <5>2
          <6> QED  BY <1>2, <3>2, <6>1
        <5> QED  BY <5>1, <5>2
      <4>2. k = Len(B)
        BY <1>1, <1>4, <2>2, <4>1
      <4>3. k = 1 => l # NoPod
        BY <1>1, <1>4, <2>2, <4>1
      <4> QED  BY <3>1, <4>1, <4>2, <4>3
    <3> QED  BY <3>1, <3>2
  <2>3. CASE k > q + 1
    <3>1. PICK i \in Nat : i = k - (q + 1)
      BY <1>1, <2>0, <2>3
    <3>2. i \in 1 .. Len(A) - w /\ k = q + 1 + i /\ w + i \in 1 .. Len(A) /\ k # 1
      BY <1>1, <1>4, <2>0, <2>3, <3>1
    <3>3. B[k] = A[w + i]
      BY <1>4, <3>2
    <3>4. w + i = Len(A) => k = Len(B)
      BY <1>1, <1>4, <2>0, <3>2
    <3> QED  BY <1>2, <3>2, <3>3, <3>4
  <2> QED  BY <1>1, <2>0, <2>1, <2>2, <2>3
<1>5. \A k \in 1 .. Len(B) : B[k] = n \/ (B[k] = NoPod /\ k = Len(B) /\ (k # 1 \/ l # NoPod))
  BY <1>3, <1>4 DEF ListShape
<1> QED  BY <1>2, <1>5 DEF News

\* A list of a pod that is not in doubt is of that shape.
LEMMA ListIsShaped ==
  ASSUME IInv, NEW p \in Pods \ doubt', doubt \subseteq doubt',
         NEW q \in held[p] .. Len(assigned[p]), NEW s \in Places, NEW rest \in Seq(Places),
         Listed(p, q, s, rest), Ahead(p, q, s, rest)
  PROVE  \E w \in Nat : ListShape(assigned[p], lister[p], q, w, s, assigned'[p])
<1>1. PICK A, h, l, queued, deltas, B :
        /\ A = assigned[p] /\ h = held[p] /\ l = lister[p] /\ B = assigned'[p]
        /\ queued = SubSeq(A, 1, q) /\ deltas = Replace(p, queued, s)
  OBVIOUS
<1>2. /\ A \in Seq(Places) /\ h \in Nat /\ h <= Len(A) /\ l \in Places
      /\ assigned \in [Pods -> Seq(Events)]
      /\ LastOf(assignedPast[p]) = IF h = 0 THEN l ELSE PodOf(A[h])
  BY <1>1, TrustedWatch DEF IInv, RestTyped, WatchesTyped, WatchesTrue, AssignedTrue, Read
<1>3. Len(A) \in Nat /\ q \in Nat /\ h <= q /\ q <= Len(A)
  <2>1. Len(A) \in Nat /\ Len(assigned[p]) = Len(A)
    BY <1>1, <1>2
  <2>2. q \in h .. Len(A)
    BY <1>1
  <2> QED  BY <1>2, <2>1, <2>2
<1>4. PICK w \in q .. Len(A) :
        /\ s = IF w > h THEN A[w] ELSE LastOf(assignedPast[p])
        /\ Len(rest) = Len(A) - w
        /\ \A i \in 1 .. Len(rest) : rest[i] = A[w + i]
  BY <1>1 DEF Ahead
<1>5. w \in Nat /\ q <= w /\ w <= Len(A)
  BY <1>3, <1>4
<1>6. \A i \in 1 .. Len(A) : A[i] \in Places /\ PodOf(A[i]) = A[i]
  BY <1>2, ElementOfSeq DEF PodOf, Places
<1>7. s = IF w = 0 THEN l ELSE A[w]
  <2>1. CASE w > h
    BY <1>2, <1>4, <1>5, <2>1
  <2>2. CASE ~(w > h)
    <3>1. w = h
      BY <1>2, <1>3, <1>5, <2>2
    <3>2. w # 0 => w \in 1 .. Len(A)
      BY <1>3, <1>5
    <3> QED  BY <1>2, <1>4, <1>6, <2>2, <3>1, <3>2
  <2> QED  BY <2>1, <2>2
<1>8. queued \in Seq(Places) /\ Len(queued) = q /\ \A i \in 1 .. q : queued[i] = A[i]
  <2>1. \A i \in 1 .. q : A[i] \in Places
    BY <1>3, <1>6
  <2>2. 1 \in Int /\ q \in Int
    BY <1>3
  <2>3. queued \in Seq(Places)
    BY <1>1, <2>1, <2>2, SubSeqProperties
  <2> QED  BY <1>1, <1>2, <1>3, <2>3
<1>9. ~Lost(p, queued, s) /\ ~Mistaken(p, queued, s)
  BY <1>1 DEF Listed
<1>10. Newest(p, queued) = IF q = 0 THEN l ELSE A[q]
  <2>1. CASE q = 0
    <3>1. queued = <<>>
      BY <1>8, <2>1
    <3> QED  BY <1>1, <2>1, <3>1 DEF Newest
  <2>2. CASE q # 0
    <3>1. queued # <<>> /\ q \in 1 .. q /\ q \in 1 .. Len(A)
      BY <1>3, <1>8, <2>2
    <3> QED  BY <1>6, <1>8, <2>2, <3>1 DEF Newest
  <2> QED  BY <2>1, <2>2
<1>11. B = deltas \o rest
  BY <1>1, <1>2 DEF Listed
<1>12. CASE s = NoPod /\ Newest(p, queued) = NoPod
  <2>1. deltas = queued
    BY <1>1, <1>12 DEF Replace
  <2>2. /\ Len(B) = Len(queued) + Len(rest)
        /\ \A i \in 1 .. Len(queued) : B[i] = queued[i]
        /\ \A i \in 1 .. Len(rest) : B[Len(queued) + i] = rest[i]
    <3>1. queued \in Seq(Places) /\ rest \in Seq(Places) /\ B = queued \o rest
      BY <1>8, <1>11, <2>1
    <3> QED  BY <3>1
  <2>3. /\ Len(B) = q + Len(A) - w
        /\ \A i \in 1 .. q : B[i] = A[i]
        /\ \A i \in 1 .. Len(A) - w : B[q + i] = A[w + i]
    BY <1>3, <1>4, <1>5, <1>8, <2>2
  <2>4. ListShape(A, l, q, w, s, B)
    BY <1>3, <1>5, <1>7, <1>10, <1>12, <2>3 DEF ListShape
  <2> QED  BY <1>1, <1>5, <2>4
<1>13. CASE s # NoPod \/ Newest(p, queued) # NoPod
  <2>1. deltas = Append(queued, s)
    BY <1>1, <1>9, <1>13 DEF Replace
  <2>2. /\ deltas \in Seq(Places) /\ Len(deltas) = q + 1 /\ deltas[q + 1] = s
        /\ \A i \in 1 .. q : deltas[i] = queued[i]
    BY <1>8, <2>1
  <2>3. /\ Len(B) = Len(deltas) + Len(rest)
        /\ \A i \in 1 .. Len(deltas) : B[i] = deltas[i]
        /\ \A i \in 1 .. Len(rest) : B[Len(deltas) + i] = rest[i]
    <3>1. deltas \in Seq(Places) /\ rest \in Seq(Places) /\ B = deltas \o rest
      BY <1>11, <2>2
    <3> QED  BY <3>1
  <2>4. /\ Len(B) = q + 1 + Len(A) - w
        /\ B[q + 1] = s
        /\ \A i \in 1 .. q : B[i] = A[i]
        /\ \A i \in 1 .. Len(A) - w : B[q + 1 + i] = A[w + i]
    <3>1. Len(B) = q + 1 + Len(A) - w
      BY <1>3, <1>4, <1>5, <2>2, <2>3
    <3>2. q + 1 \in 1 .. Len(deltas) /\ \A i \in 1 .. q : i \in 1 .. Len(deltas)
      BY <1>3, <2>2
    <3>3. B[q + 1] = s /\ \A i \in 1 .. q : B[i] = A[i]
      BY <1>8, <2>2, <2>3, <3>2
    <3>4. ASSUME NEW i \in 1 .. Len(A) - w PROVE B[q + 1 + i] = A[w + i]
      <4>1. i \in 1 .. Len(rest)
        BY <1>4
      <4> QED  BY <1>4, <2>2, <2>3, <4>1
    <3> QED  BY <3>1, <3>3, <3>4
  <2>5. ListShape(A, l, q, w, s, B)
    BY <1>3, <1>5, <1>7, <1>10, <1>13, <2>4 DEF ListShape
  <2> QED  BY <1>1, <1>5, <2>5
<1> QED  BY <1>12, <1>13

\* A list of a pod that is not put in doubt confirms it, or ends it.
LEMMA SafeRelist ==
  ASSUME IInv, Safe, Next, NEW p \in Pods, RelistAssigned(p)
  PROVE  Safe'
<1>0. /\ Running /\ UNCHANGED <<podStates, assumedPods, crashed, pod, lister, current, binding>>
      /\ doubt \subseteq doubt' /\ lossy \subseteq lossy' /\ lossy' \subseteq doubt'
  BY HistoryGrows DEF RelistAssigned, cachevars, podvars, IInv, WatchesTrue
<1>1. WatchesTyped /\ AssignedTrue(p)
  BY DEF IInv, RestTyped, WatchesTrue
<1>2. PICK q \in held[p] .. Len(assigned[p]), s \in Places, rest \in Seq(Places) :
        Listed(p, q, s, rest) /\ (p \notin doubt' => Ahead(p, q, s, rest))
  BY <1>1, RelistIsListed
<1>3. lister' = lister /\ Where(p)' = Where(p)
  BY <1>0 DEF Where, Bound
<1>4. assigned' \in [Pods -> Seq(Events)] /\ \A r \in Pods \ {p} : Silent(r)
  BY <1>0, <1>1, <1>2, <1>3, ListedTrue
<1>5. ASSUME NEW r \in Pods \ {p} PROVE Untouched(r)
  BY <1>0, <1>4 DEF Untouched, Silent, Bound
<1>6. ASSUME p \notin doubt' PROVE PodKept(p)
  <2>1. Held(p) /\ Honest(p) /\ ~crashed /\ p \in Pods \ doubt
    BY <1>0, <1>6 DEF Safe, Trusted, Running
  <2>2. PICK w \in Nat : ListShape(assigned[p], lister[p], q, w, s, assigned'[p])
    BY <1>0, <1>2, <1>6, ListIsShaped
  <2>3. ASSUME assigned[p] = <<>>, ~Bound(p) PROVE assigned'[p] = <<>>
    <3>1. lister[p] = NoPod /\ Len(assigned[p]) = 0
      BY <2>1, <2>3, TrustedWatch DEF Where
    <3>2. Len(assigned'[p]) = 0
      BY <2>2, <3>1 DEF ListShape
    <3> QED  BY <1>4, <3>2
  <2>4. ASSUME HasState(p) PROVE News(assigned'[p], podStates[p].node, lister[p])
    <3>1. PICK n \in Nodes : n = podStates[p].node
      BY <2>4 DEF IInv, CacheTyped, HasState
    <3>2. News(assigned[p], n, lister[p])
      BY <2>1, <2>4, <3>1 DEF Honest
    <3> QED  BY <2>2, <3>1, <3>2, NewsListed
  <2>5. ~HasState(p)' => assigned'[p] = <<>>
    BY <1>0, <2>1, <2>3 DEF Held, Honest, HasState
  <2>6. ASSUME NEW b \in binding', b.pod = p, b.at # "bound" PROVE UnderWay(b)'
    <3>1. UnderWay(b)
      BY <1>0, <2>1, <2>6 DEF Honest
    <3>2. assigned'[b.pod] = <<>>
      BY <2>3, <2>6, <3>1 DEF UnderWay
    <3> QED  BY <1>0, <3>1, <3>2 DEF UnderWay, Assumed, HasState, Bound
  <2>7. Honest(p)'
    BY <1>0, <2>1, <2>4, <2>5, <2>6 DEF Honest, News, HasState, Assumed
  <2>8. Held(p)'
    BY <1>0, <2>1 DEF Held, HasState, Bound
  <2> QED  BY <1>0, <2>1, <2>7, <2>8 DEF PodKept, HasState
<1> QED  BY <1>0, <1>5, <1>6, SafeKept

\* What a node has been asked for covers the pods held on it.
LEMMA HeldIsRequested ==
  ASSUME IInv, Safe, Running, NEW n \in Nodes
  PROVE  /\ Cardinality(Holding(n)) <= Requested(n)
         /\ Cardinality(Holding(n)) \in Nat /\ Requested(n) \in Nat
<1> DEFINE unit == [p \in Pods |-> {p} \X (1 .. count[n][p])]
           Units == {unit[p] : p \in Pods}
           first == [p \in Holding(n) |-> <<p, 1>>]
<1>0. count \in [Nodes -> [Pods -> Nat]] /\ IsFiniteSet(Pods)
  BY SchedulerAssumption DEF IInv, CacheTyped
<1>1. IsFiniteSet(Units)
  <2>1. unit \in Surjection(Pods, Units)
    BY DEF Surjection
  <2> QED  BY <1>0, <2>1, FS_Surjection
<1>2. ASSUME NEW p \in Pods PROVE IsFiniteSet({p} \X (1 .. count[n][p]))
  <2>1. IsFiniteSet(1 .. count[n][p])
    BY <1>0, FS_Interval
  <2> QED  BY <2>1, FS_Singleton, FS_Product
<1>3. \A T \in Units : IsFiniteSet(T)
  BY <1>2
<1>4. UNION Units = UNION {{p} \X (1 .. count[n][p]) : p \in Pods}
  OBVIOUS
<1>5. IsFiniteSet(UNION Units) /\ Requested(n) = Cardinality(UNION Units)
  <2> HIDE DEF Units
  <2> QED  BY <1>1, <1>3, <1>4, FS_UNION DEF Requested
<1>6. ASSUME NEW p \in Holding(n) PROVE <<p, 1>> \in UNION Units
  <2>1. p \in Pods \ doubt /\ HasState(p) /\ podStates[p].node = n /\ Honest(p)
    BY DEF Holding, Safe, Trusted, Running
  <2>2. count[n][p] = 1
    <3>1. CASE Assumed(p)
      BY <2>1, <3>1 DEF IInv, Counted, PodOK, CountedOnce
    <3>2. CASE Added(p)
      <4>1. lister[p] \in Nodes /\ CountedOnce(p, lister[p])
        BY <2>1, <3>2, TrustedWatch DEF ConfirmedAt, Running
      <4>2. lister[p] = n
        BY <2>1, <4>1, SchedulerAssumption DEF Honest, News
      <4> QED  BY <4>1, <4>2 DEF CountedOnce
    <3> QED  BY <2>1, <3>1, <3>2 DEF Assumed, Added
  <2>3. <<p, 1>> \in unit[p] /\ unit[p] \in Units
    BY <2>1, <2>2
  <2> QED  BY <2>3
<1>7. first \in Injection(Holding(n), UNION Units)
  <2> HIDE DEF Units
  <2> QED  BY <1>6 DEF Injection, IsInjective
<1> HIDE DEF Units, first
<1>8. Cardinality(Holding(n)) <= Cardinality(UNION Units) /\ IsFiniteSet(Holding(n))
  BY <1>5, <1>7, FS_Injection
<1> QED  BY <1>5, <1>8, FS_CardinalityType

\* Schedule picks a node on which the pods held leave room.
LEMMA SafeSchedule ==
  ASSUME IInv, Safe, NEW p \in Pods, Schedule(p)
  PROVE  Safe'
<1>1. /\ Running
      /\ UNCHANGED <<podStates, assumedPods, crashed, pod, assigned, lister, binding, doubt>>
  BY DEF Schedule, cachevars, apivars, history
<1>2. \A q \in Pods : Untouched(q)
  BY <1>1 DEF Untouched
<1>3. Trusted' /\ NeverKillsItself'
  BY <1>1, <1>2, SafeUntouched
<1>4. PICK n \in Fitting : current' = [pod |-> p, node |-> n]
  BY DEF Schedule
<1>5. n \in Nodes /\ Requested(n) < Capacity
  BY <1>4 DEF Fitting, IInv, RestTyped
<1>6. Cardinality(Holding(n)) < Capacity
  BY <1>1, <1>5, HeldIsRequested, SchedulerAssumption
<1>7. \A m : Holding(m)' = Holding(m)
  BY <1>1 DEF Holding, HasState
<1>8. Cardinality(Holding(current.node)') < Capacity
  BY <1>4, <1>6, <1>7 DEF Holding
<1>9. Room'
  BY <1>7, <1>8 DEF Safe, Room, Holding
<1> QED  BY <1>3, <1>9 DEF Safe

\* AssumePod takes the room that Schedule found; nothing was known of the pod.
LEMMA SafeAssume ==
  ASSUME IInv, Safe, Assume
  PROVE  Safe'
<1>0. /\ current # Idle /\ Running /\ UNCHANGED <<pod, assigned, lister, doubt>> /\ current' = Idle
      /\ AssumePod(current.pod, current.node)
  BY DEF Assume, apivars, history
<1>1. PICK p \in Pods, n \in Nodes : p = current.pod /\ n = current.node
  BY <1>0 DEF IInv, RestTyped
<1>2. PICK b : /\ b.pod = p /\ b.node = n /\ b.at = "call" /\ binding' = binding \cup {b}
  BY <1>1 DEF Assume
<1>3. CacheTyped /\ PodOK(p) /\ AssumePod(p, n)
  BY <1>0, <1>1 DEF IInv, Counted
<1>4. Frame(p) /\ Assumed(p)'
  BY <1>3, AssumeStep DEF CacheStep
<1>5. ~HasState(p) /\ crashed' = crashed /\ podStates'[p] = State(n)
  BY <1>3 DEF AssumePod, WithState
<1>6. ASSUME NEW q \in Pods \ {p} PROVE Untouched(q)
  BY <1>0, <1>2, <1>4 DEF Untouched, Frame, Bound
<1>7. ASSUME p \notin doubt PROVE Held(p)' /\ Honest(p)'
  <2>1. Held(p) /\ Honest(p)
    BY <1>0, <1>7 DEF Safe, Trusted, Running
  <2>2. ~Bound(p)' /\ ~Bound(p)
    BY <1>0, <1>5, <2>1 DEF Held, Bound
  <2>3. assigned[p] = <<>> /\ lister[p] = NoPod
    BY <1>5, <1>7, <2>1, <2>2, TrustedWatch DEF Honest, Where
  <2>4. \A c \in binding : ~(c.pod = p /\ c.at # "bound")
    BY <1>5, <2>1 DEF Honest, UnderWay, Assumed
  <2>5. UnderWay(b)'
    BY <1>0, <1>2, <1>4, <1>5, <2>2, <2>3, <2>4 DEF UnderWay, State, Assumed, HasState, Bound
  <2>6. News(assigned[p], n, NoPod)
    BY <2>3 DEF News
  <2>7. Honest(p)'
    BY <1>0, <1>2, <1>4, <1>5, <2>3, <2>4, <2>5, <2>6 DEF Honest, News, State, Assumed, HasState
  <2> QED  BY <2>2, <2>7 DEF Held
<1>8. Trusted'
  <2> SUFFICES ASSUME NEW q \in Pods \ doubt' PROVE Held(q)' /\ Honest(q)'
    BY DEF Trusted, Held, Honest, Bound, HasState
  <2>1. CASE q = p
    BY <1>0, <1>7, <2>1
  <2>2. CASE q # p
    <3>1. Held(q) /\ Honest(q)
      BY <1>0 DEF Safe, Trusted, Running
    <3> QED  BY <1>6, <2>2, <3>1, UntouchedKept
  <2> QED  BY <2>1, <2>2
<1>9. NeverKillsItself'
  BY <1>0, <1>5 DEF NeverKillsItself, Running
<1>10. ASSUME NEW m \in Nodes PROVE Cardinality(Holding(m)') <= Capacity
  <2>1. IsFiniteSet(Holding(m)) /\ Cardinality(Holding(m)) \in Nat
    BY SchedulerAssumption, FS_Subset, FS_CardinalityType DEF Holding
  <2>2. Holding(m)' \in SUBSET (IF m = n THEN Holding(m) \cup {p} ELSE Holding(m))
    BY <1>0, <1>5, <1>6 DEF Holding, Untouched, HasState, State
  <2>3. CASE m = n
    <3>1. Cardinality(Holding(m)) < Capacity
      BY <1>0, <1>1, <2>3 DEF Safe, Room
    <3>2. /\ IsFiniteSet(Holding(m) \cup {p})
          /\ Cardinality(Holding(m) \cup {p}) = Cardinality(Holding(m)) + 1
      <4>1. p \notin Holding(m)
        BY <1>5 DEF Holding
      <4> HIDE DEF Holding
      <4> QED  BY <2>1, <4>1, FS_AddElement
    <3>3. Cardinality(Holding(m)') <= Cardinality(Holding(m) \cup {p})
      BY <2>2, <2>3, <3>2, FS_Subset
    <3>4. Cardinality(Holding(m)') \in Nat /\ Cardinality(Holding(m) \cup {p}) \in Nat
      BY <2>2, <2>3, <3>2, FS_Subset, FS_CardinalityType
    <3> QED  BY <2>1, <3>1, <3>2, <3>3, <3>4, SchedulerAssumption
  <2>4. CASE m # n
    <3>1. Cardinality(Holding(m)') <= Cardinality(Holding(m))
      BY <2>1, <2>2, <2>4, FS_Subset
    <3>2. Cardinality(Holding(m)') \in Nat
      BY <2>1, <2>2, <2>4, FS_Subset, FS_CardinalityType
    <3> QED  BY <2>1, <3>1, <3>2, SchedulerAssumption DEF Safe, Room
  <2> QED  BY <2>3, <2>4
<1>11. Room'
  BY <1>0, <1>10 DEF Room, Holding
<1> QED  BY <1>8, <1>9, <1>11 DEF Safe


\* What becomes of a binding goroutine: its next step, or its end.
LEMMA BindingsOfOthers ==
  ASSUME NEW b \in binding, NEW step \in Steps,
         binding' = At(b, step) \/ binding' = binding \ {b}
  PROVE  \A c \in binding' : c.pod # b.pod => c \in binding
BY DEF At

\* A binding is carried out: the pod is where it was assumed, and the first
\* event of it says so.
LEMMA SafeBind ==
  ASSUME IInv, Safe, NEW b \in binding, BindCarriedOut(b)
  PROVE  Safe'
<1>0. /\ pod \in [Pods -> Nodes \cup {Unscheduled, NoPod}]
      /\ assigned \in [Pods -> Seq(Events)] /\ lister \in [Pods -> Places]
  BY DEF IInv, RestTyped, WatchesTyped
<1>1. PICK p \in Pods, n \in Nodes : p = b.pod /\ n = b.node
  BY DEF IInv, RestTyped
<1>2. /\ Running /\ UNCHANGED <<podStates, assumedPods, crashed, lister, current>>
      /\ pod' = [pod EXCEPT ![p] = n] /\ assigned' = [assigned EXCEPT ![p] = Append(@, n)]
      /\ b.at = "call" /\ doubt \subseteq doubt'
      /\ binding' = At(b, "bound") \/ (binding' = At(b, "error") /\ p \in doubt')
  BY <1>1 DEF BindCarriedOut, Tell, cachevars
<1>3. \A c \in binding' : c.pod # p => c \in binding
  BY <1>1, <1>2, BindingsOfOthers DEF Steps
<1>4. ASSUME NEW q \in Pods \ {p} PROVE Untouched(q)
  BY <1>0, <1>2, <1>3 DEF Untouched
<1>5. ASSUME p \notin doubt' PROVE PodKept(p)
  <2>1. Held(p) /\ Honest(p) /\ ~crashed
    BY <1>2, <1>5 DEF Safe, Trusted, Running
  <2>2. UnderWay(b)
    BY <1>1, <1>2, <2>1 DEF Honest
  <2>3. Assumed(p) /\ podStates[p].node = n /\ assigned[p] = <<>>
    BY <1>1, <2>2 DEF UnderWay
  <2>4. ASSUME NEW c \in binding', c.pod = p PROVE c.at = "bound"
    <3>1. binding' = At(b, "bound")
      BY <1>2, <1>5
    <3>2. CASE c \in binding \ {b}
      BY <1>1, <2>2, <2>4, <3>2 DEF UnderWay
    <3>3. CASE c = [id |-> b.id, pod |-> b.pod, node |-> b.node, at |-> "bound"]
      BY <3>3
    <3> QED  BY <2>4, <3>1, <3>2, <3>3 DEF At
  <2>5. News(assigned'[p], n, lister[p]) /\ lister[p] = NoPod
    <3>1. News(assigned[p], n, lister[p]) /\ lister[p] = NoPod
      BY <2>1, <2>3 DEF Honest, Assumed
    <3>2. assigned[p] \in Seq(Places) /\ lister[p] \in Places
      BY <1>2, <1>5, TrustedWatch
    <3>3. News(Append(assigned[p], n), n, lister[p])
      BY <2>3, <3>1, <3>2, NewsAppend
    <3> QED  BY <1>0, <1>2, <3>1, <3>3
  <2>6. Honest(p)'
    BY <1>2, <2>3, <2>4, <2>5 DEF Honest, News, HasState, Assumed
  <2>7. Held(p)'
    BY <1>0, <1>2, <2>3 DEF Held, HasState, Assumed
  <2> QED  BY <1>2, <2>1, <2>6, <2>7 DEF PodKept, HasState
<1> QED  BY <1>2, <1>4, <1>5, SafeKept

\* A binding fails, or is finished.
LEMMA SafeFinish ==
  ASSUME IInv, Safe, NEW b \in binding, BindFails(b) \/ FinishBinding(b)
  PROVE  Safe'
<1>1. PICK p \in Pods, n \in Nodes : p = b.pod /\ n = b.node
  BY DEF IInv, RestTyped
<1>2. /\ Running /\ UNCHANGED <<assumedPods, crashed, pod, assigned, lister, current>>
      /\ doubt \subseteq doubt'
  BY DEF BindFails, FinishBinding, finishBinding, cachevars, apivars, history
<1>3. PICK step \in {"error", "forget"} :
        \/ binding' = At(b, step) /\ b.at # "bound"
        \/ binding' = binding \ {b} /\ b.at = "bound"
  BY DEF BindFails, FinishBinding
<1>4. \A c \in binding' : c.pod # p => c \in binding
  BY <1>1, <1>3, BindingsOfOthers DEF Steps
<1>5. podStates' = podStates \/ finishBinding(p)
  BY <1>1 DEF BindFails, FinishBinding, cachevars
<1>6. /\ DOMAIN podStates' = DOMAIN podStates
      /\ \A q \in Pods \ {p} : q \in DOMAIN podStates => podStates'[q] = podStates[q]
      /\ HasState(p) => podStates'[p].node = podStates[p].node
  BY <1>5 DEF finishBinding, Assumed, HasState, IInv, CacheTyped
<1>7. ASSUME NEW q \in Pods \ {p} PROVE Untouched(q)
  BY <1>2, <1>4, <1>6 DEF Untouched, Bound
<1>8. ASSUME p \notin doubt' PROVE PodKept(p)
  <2>1. Held(p) /\ Honest(p) /\ ~crashed
    BY <1>2, <1>8 DEF Safe, Trusted, Running
  <2>2. ASSUME NEW c \in binding', c.pod = p, c.at # "bound"
        PROVE  UnderWay(c)'
    <3>1. PICK d \in binding : /\ d.pod = p /\ d.node = c.node /\ d.at # "bound"
                               /\ c.at = "call" => d = c /\ d # b
                               /\ \/ c = d /\ d # b
                                  \/ /\ d = b /\ binding' = At(b, step)
                                     /\ c = [id |-> b.id, pod |-> b.pod, node |-> b.node, at |-> step]
      <4>1. CASE c \in binding \ {b}
        BY <2>2, <4>1
      <4>2. CASE c \notin binding \ {b}
        <5>1. /\ binding' = At(b, step) /\ b.at # "bound"
              /\ c = [id |-> b.id, pod |-> b.pod, node |-> b.node, at |-> step]
          BY <1>3, <2>2, <4>2 DEF At
        <5>2. c.pod = b.pod /\ c.node = b.node /\ c.at = step
          BY <5>1
        <5> QED  BY <2>2, <5>1, <5>2
      <4> QED  BY <4>1, <4>2
    <3>2. UnderWay(d)
      BY <2>1, <3>1 DEF Honest
    <3>3. /\ Assumed(p)' /\ podStates'[p].node = c.node /\ ~Bound(p)' /\ assigned'[p] = <<>>
      BY <1>2, <1>6, <3>1, <3>2 DEF UnderWay, Assumed, HasState, Bound
    <3>4. ASSUME c.at = "call" PROVE ~podStates'[p].finished
      <4>1. c \in binding \ {b} /\ UnderWay(c) /\ b.pod = c.pod
        BY <1>1, <2>2, <3>1, <3>2, <3>4
      <4>2. ~FinishBinding(b)
        BY <1>1, <1>8, <3>4, <4>1 DEF FinishBinding
      <4>3. podStates' = podStates
        BY <4>2 DEF BindFails, cachevars
      <4> QED  BY <2>2, <3>4, <4>1, <4>3 DEF UnderWay
    <3>5. ASSUME NEW e \in binding', e.pod = p, e.at # "bound" PROVE e = c
      <4>1. CASE e \in binding \ {b}
        <5>1. e = d
          BY <3>1, <3>2, <3>5, <4>1 DEF UnderWay
        <5> QED  BY <3>1, <4>1, <5>1
      <4>2. CASE e \notin binding \ {b}
        <5>1. /\ binding' = At(b, step) /\ b.at # "bound"
              /\ e = [id |-> b.id, pod |-> b.pod, node |-> b.node, at |-> step]
          BY <1>3, <3>5, <4>2 DEF At
        <5>2. d = b
          BY <1>1, <3>2, <3>1, <5>1 DEF UnderWay
        <5> QED  BY <3>1, <5>1, <5>2
      <4> QED  BY <4>1, <4>2
    <3> QED  BY <2>2, <3>3, <3>4, <3>5 DEF UnderWay, Assumed, HasState, Bound
  <2>3. HasState(p)' => News(assigned'[p], podStates'[p].node, lister'[p])
    BY <1>2, <1>6, <2>1 DEF Honest, HasState
  <2>4. Honest(p)'
    BY <1>2, <1>6, <2>1, <2>2, <2>3 DEF Honest, News, HasState, Assumed
  <2>5. Held(p)'
    BY <1>2, <1>6, <2>1 DEF Held, HasState, Bound
  <2> QED  BY <1>2, <1>6, <2>1, <2>4, <2>5 DEF PodKept, HasState
<1> QED  BY <1>2, <1>7, <1>8, SafeKept

\* A failed binding is forgotten: its pod is still the assumed one.
LEMMA SafeForget ==
  ASSUME IInv, Safe, NEW b \in binding, Forget(b)
  PROVE  Safe'
<1>1. PICK p \in Pods, n \in Nodes : p = b.pod /\ n = b.node
  BY DEF IInv, RestTyped
<1>2. /\ Running /\ UNCHANGED <<pod, assigned, lister, current, doubt>>
      /\ ForgetPod(p, n) /\ binding' = binding \ {b} /\ b.at = "forget"
  BY <1>1 DEF Forget, history
<1>3. CacheTyped /\ PodOK(p)
  BY DEF IInv, Counted
<1>4. Frame(p)
  BY <1>2, <1>3, ForgetStep DEF CacheStep
<1>5. ASSUME NEW q \in Pods \ {p} PROVE Untouched(q)
  BY <1>2, <1>4 DEF Untouched, Frame, Bound
<1>6. ASSUME p \notin doubt PROVE PodKept(p)
  <2>1. Honest(p) /\ ~crashed
    BY <1>2, <1>6 DEF Safe, Trusted, Running
  <2>2. UnderWay(b)
    BY <1>1, <1>2, <2>1 DEF Honest
  <2>3. Assumed(p) /\ podStates[p].node = n /\ ~Bound(p) /\ assigned[p] = <<>>
    BY <1>1, <2>2 DEF UnderWay
  <2>4. CountedOnce(p, n)
    BY <1>3, <2>3 DEF PodOK
  <2>5. Drop(p, n)
    BY <1>2, <2>3, <2>4 DEF ForgetPod, RemovePodThen, CountedOnce, Assumed, Added
  <2>6. ~HasState(p)' /\ crashed' = crashed
    BY <1>3, <2>4, <2>5, DropStep DEF Drop
  <2>7. \A c \in binding' : ~(c.pod = p /\ c.at # "bound")
    BY <1>1, <1>2, <2>2 DEF UnderWay
  <2>8. Honest(p)'
    BY <1>2, <2>3, <2>6, <2>7 DEF Honest, Assumed
  <2> QED  BY <1>2, <2>1, <2>3, <2>6, <2>8 DEF PodKept, Held, Bound
<1> QED  BY <1>2, <1>5, <1>6, SafeKept

\* A pod that expires and is not put in doubt by it has no binding under way.
LEMMA SafeExpire ==
  ASSUME IInv, Safe, NEW p \in Pods, Expire(p)
  PROVE  Safe'
<1>1. /\ Running /\ UNCHANGED <<pod, assigned, lister, current, binding>>
      /\ expirePod(p) /\ doubt \subseteq doubt'
  BY DEF Expire
<1>2. CacheTyped /\ PodOK(p) /\ Assumed(p)
  BY <1>1 DEF IInv, Counted, expirePod
<1>3. PICK n \in Nodes : n = podStates[p].node
  BY <1>2 DEF CacheTyped, Assumed, HasState
<1>4. Frame(p)
  BY <1>1, <1>2, <1>3, ForgetStep DEF CacheStep
<1>5. ASSUME NEW q \in Pods \ {p} PROVE Untouched(q)
  BY <1>1, <1>4 DEF Untouched, Frame, Bound
<1>6. ASSUME p \notin doubt' PROVE PodKept(p)
  <2>1. Honest(p) /\ ~crashed
    BY <1>1, <1>6 DEF Safe, Trusted, Running
  <2>2. ~Bound(p) /\ assigned[p] = <<>>
    BY <1>6 DEF Expire
  <2>3. CountedOnce(p, n)
    BY <1>2, <1>3 DEF PodOK
  <2>4. Drop(p, n)
    BY <1>1, <1>3, <2>3 DEF expirePod, RemovePodThen, CountedOnce
  <2>5. ~HasState(p)' /\ crashed' = crashed
    BY <1>2, <2>3, <2>4, DropStep DEF Drop
  <2>6. \A c \in binding : ~(c.pod = p /\ c.at # "bound")
    BY <1>1, <2>1 DEF Expire, expirePod, Honest, UnderWay
  <2>7. Honest(p)'
    BY <1>1, <2>2, <2>5, <2>6 DEF Honest, Assumed
  <2> QED  BY <1>1, <2>1, <2>2, <2>5, <2>7 DEF PodKept, Held, Bound
<1> QED  BY <1>1, <1>5, <1>6, SafeKept

\* No step breaks the second invariant.
LEMMA SafeNext ==
  ASSUME IInv, Safe, [Next]_vars
  PROVE  Safe'
<1>1. ASSUME Next, Running,
             UNCHANGED <<podStates, assumedPods, crashed, pod, assigned, lister, binding, doubt>>,
             current' = current \/ current' = Idle
      PROVE  Safe'
  <2>1. \A q \in Pods : Untouched(q)
    BY <1>1 DEF Untouched
  <2> QED  BY <1>1, <2>1, SafeUntouched DEF Safe
<1>2. ASSUME Next,
             \/ \E p \in Pods : \/ DeliverUnassigned(p) \/ RelistUnassigned(p) \/ ScheduleFails(p)
                                \/ RetryGet(p) \/ RetryAdd(p)
             \/ \E n \in Nodes : NodeAdded(n) \/ NodeDeleted(n)
             \/ AssumeFails
      PROVE  Safe'
  <2>1. /\ Running
        /\ UNCHANGED <<podStates, assumedPods, crashed, pod, assigned, lister, binding, doubt>>
        /\ current' = current \/ current' = Idle
    BY <1>2 DEF DeliverUnassigned, ScheduleFails, RetryGet, RetryAdd, NodeAdded, NodeDeleted,
                RelistUnassigned, AssumeFails, cachevars, podvars, apivars, history
  <2> QED  BY <1>1, <1>2, <2>1
<1>3. CASE Next
  BY <1>2, <1>3, SafeApi, SafeDeliver, SafeSchedule, SafeExpire, SafeRelist, SafeAssume, SafeBind,
     SafeFinish, SafeForget DEF Next
<1>4. CASE UNCHANGED vars
  <2>1. Trusted'
    BY <1>4 DEF Safe, vars, cachevars, Trusted, Held, Honest, News, UnderWay, Assumed, HasState, Bound
  <2>2. NeverKillsItself' /\ Room'
    BY <1>4 DEF Safe, vars, cachevars, NeverKillsItself, Room, Holding, HasState
  <2> QED  BY <2>1, <2>2 DEF Safe
<1> QED  BY <1>3, <1>4

\* A new scheduler holds nothing.
LEMMA SafeInit == Init => Safe
<1> SUFFICES ASSUME Init PROVE Safe
  OBVIOUS
<1>1. NoPod \notin Nodes
  BY SchedulerAssumption
<1>2. Trusted
  BY <1>1 DEF Init, newSchedulerCache, Trusted, Held, Honest, Assumed, HasState, Bound
<1>3. NeverKillsItself
  BY DEF Init, newSchedulerCache, NeverKillsItself
<1>4. Room
  <2>1. \A n : Holding(n) = {}
    BY DEF Init, newSchedulerCache, Holding, HasState
  <2>2. Cardinality({}) = 0
    BY FS_EmptySet
  <2>3. current = Idle
    BY DEF Init
  <2> QED  BY <2>1, <2>2, <2>3, SchedulerAssumption DEF Room
<1> QED  BY <1>2, <1>3, <1>4 DEF Safe

\* Of the pods that are not in doubt, the scheduler always has those that are bound
\* where they are, and all that it has fit.  In doubt are the pods whose binding
\* was carried out and reported as failed, that expired although they were bound or
\* told of, and those a list of the informer was behind on, hid a re-creation of, or
\* of which Replace lost or mistook a delta; every other list keeps this.
THEOREM SchedulerSafe == Spec => []Safe
<1>1. IInv /\ Safe /\ [Next]_vars => Safe'
  BY SafeNext
<1> QED  BY <1>1, SafeInit, SchedulerInvariant, PTL DEF Spec

\* Optimistic assumption never puts more of the pods that are not in doubt on a node
\* than fit there: neither failing bindings, nor re-creation under the same name, nor
\* late events, nor lists that skip some of them make room that the node has not.
\* A list that goes back, and takes a bound pod out of the cache, is exempted: the
\* pod is in doubt from then on.
THEOREM NeverOvercommits == Spec => []NoOvercommit
<1>1. Safe => NoOvercommit
  <2> SUFFICES ASSUME Safe, NEW n \in Nodes
               PROVE  Cardinality({p \in Pods \ doubt : pod[p] = n}) <= Capacity
    BY DEF NoOvercommit
  <2> DEFINE On == {p \in Pods \ doubt : pod[p] = n}
  <2>1. IsFiniteSet(Holding(n)) /\ Cardinality(Holding(n)) \in Nat
    BY SchedulerAssumption, FS_Subset, FS_CardinalityType DEF Holding
  <2>2. On \in SUBSET Holding(n)
    BY DEF Holding, Safe, Trusted, Held, Bound
  <2> HIDE DEF On
  <2>3. Cardinality(On) <= Cardinality(Holding(n)) /\ Cardinality(On) \in Nat
    BY <2>1, <2>2, FS_Subset, FS_CardinalityType
  <2>4. Cardinality(On) <= Capacity
    BY <2>1, <2>3, SchedulerAssumption DEF Safe, Room
  <2> QED  BY <2>4 DEF On
<1> QED  BY <1>1, SchedulerSafe, PTL

\* The checks of the cache that end the process (Fatalf in UpdatePod and
\* RemovePod, the dereferences in ForgetPod and removePod) do not fail before a pod
\* is in doubt: as long as no list of the informer goes back, hides a re-creation or
\* meets deltas that Replace gets wrong, no binding is misreported, and no assumed
\* pod expires too early, no order of events and calls ends the scheduler.
THEOREM ChecksHold == Spec => []NeverKillsItself
<1>1. Safe => NeverKillsItself
  BY DEF Safe
<1> QED  BY <1>1, SchedulerSafe, PTL
=============================================================================
