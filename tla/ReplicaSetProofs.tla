-------------------------- MODULE ReplicaSetProofs --------------------------
(***************************************************************************)
(* For any number of pods and replicas, any burst and any number of        *)
(* failures and disruptions: a sync of the replica set never sets out to   *)
(* create or to delete a pod too many.                                     *)
(***************************************************************************)
EXTENDS ReplicaSet, DistinctSeqProofs, FiniteSetTheorems, TLAPS

-----------------------------------------------------------------------------
(* The inductive invariant.                                                *)

\* The creation of p is still among the events.
Born(p) == \E n \in 1 .. Len(events) : events[n].pod = p /\ events[n].state = "active"

Noted(p) == \E n \in 1 .. Len(notes) : notes[n].pod = p

\* The last event about a pod says what the server says; where there is none,
\* the store does.
EventsLeadToPods ==
  \A p \in Pods :
    \/ store[p] = pods[p] /\ \A n \in 1 .. Len(events) : events[n].pod # p
    \/ \E n \in 1 .. Len(events) :
         /\ events[n].pod = p /\ events[n].state = pods[p]
         /\ \A m \in 1 .. Len(events) : m > n => events[m].pod # p

\* The first thing heard of a pod is that it is active, and the last that it is
\* gone.
LivesOnce ==
  \A n \in 1 .. Len(events) :
    /\ events[n].state = "active" =>
         /\ store[events[n].pod] = "none" /\ ~Noted(events[n].pod)
         /\ \A m \in 1 .. Len(events) : m < n => events[m].pod # events[n].pod
    /\ events[n].state # "active" =>
         /\ pods[events[n].pod] # "active"
         /\ store[events[n].pod] = "none" => Born(events[n].pod)
    /\ events[n].state = "none" =>
         /\ pods[events[n].pod] = "none"
         /\ \A m \in 1 .. Len(events) : m > n => events[m].pod # events[n].pod

\* What the store does not know yet of a pod is among the events.
KnownOrBorn ==
  \A p \in Pods : /\ pods[p] # "none" => store[p] # "none" \/ Born(p)
                  /\ pods[p] = "active" => store[p] = "active" \/ Born(p)

\* An addition is the first note about its pod, and a pod whose end is noted is
\* not active in the store.
NotesInOrder ==
  \A n \in 1 .. Len(notes) :
    /\ notes[n].type = "add" =>
         \A m \in 1 .. Len(notes) : m < n => notes[m].pod # notes[n].pod
    /\ notes[n].type = "delete" => notes[n].state = "none"
    /\ notes[n].state # "active" => store[notes[n].pod] # "active"

Chain == EventsLeadToPods /\ LivesOnce /\ KnownOrBorn /\ NotesInOrder

\* The pods whose creation the handlers have still to see.
Unseen ==
  {p \in Pods : Born(p) \/ \E n \in 1 .. Len(notes) : notes[n].pod = p /\ notes[n].type = "add"}

\* The expectations cover the calls to come and the creations not seen yet.
CreationsCounted ==
  exists => IF expectations.set /\ ~expectations.expired
            THEN creates + Cardinality(Unseen) <= expectations.add
            ELSE creates = 0 /\ Unseen = {}

\* The store shows p as active, or will.
Visible(p) == store[p] = "active" \/ Born(p)

\* The pods the controller has deleted and still expects to see deleted.
Deleting ==
  IF expectations.set /\ ~expectations.expired /\ expectations.del > 0
  THEN uids \ deletes ELSE {}

\* The pods that others have ended, as far as the store does not show it.
Lost == {p \in Pods : p \notin Deleting /\ pods[p] # "active" /\ Visible(p)}

DeletionsCounted ==
  /\ expectations.set /\ expectations.del > 0 => expectations.del = Cardinality(uids)
  /\ deletes # {} => /\ expectations.set /\ ~expectations.expired
                     /\ expectations.del = Cardinality(uids)
  /\ \A p \in deletes : p \in uids \/ ~Visible(p)

LossCounted == exists \/ at # "idle" => Cardinality(Lost) <= killed

\* A sync that may act sees the creations and the deletions of all syncs before.
SyncSeesAll ==
  at \in {"list", "manage"} /\ needsSync => Unseen = {} /\ Deleting = {}

\* The pods it has listed are those the server has, but for what others ended.
ListIsGood ==
  at = "manage" /\ needsSync =>
    /\ Active(pods) \subseteq filteredPods
    /\ Cardinality(filteredPods \ Active(pods)) <= killed

Sure ==
  /\ Chain
  /\ CreationsCounted
  /\ DeletionsCounted /\ LossCounted
  /\ SyncSeesAll /\ ListIsGood
  /\ NoSurplus /\ NoShortage

\* TypeOK, and what the worker has to do between two syncs: nothing.
Typed ==
  /\ TypeOK
  /\ at # "call" => creates = 0 /\ deletes = {}
  /\ killed <= disruptions

IInv == Typed /\ (~unsure => Sure)

-----------------------------------------------------------------------------
(* Types.                                                                  *)

\* Every set of pods is finite.
LEMMA PodSets ==
  ASSUME NEW S, S \subseteq Pods
  PROVE  IsFiniteSet(S) /\ Cardinality(S) \in Nat
<1>1. IsFiniteSet(Pods)
  BY Sizes, FS_Interval DEF Pods
<1>2. IsFiniteSet(S)
  BY <1>1, FS_Subset
<1> QED  BY <1>2, FS_CardinalityType

\* A write to the server.
LEMMA BecomesTyped ==
  ASSUME TypeOK, NEW p \in Pods, NEW s \in States, Becomes(p, s)
  PROVE  pods' \in [Pods -> States] /\ events' \in Seq(Event)
<1>1. pods[p] \in States /\ [pod |-> p, state |-> s, was |-> pods[p]] \in Event
  BY DEF Event, TypeOK
<1>2. pods' \in [Pods -> States]
  BY DEF TypeOK, Becomes
<1>3. events \in Seq(Event) /\ events' = Append(events, [pod |-> p, state |-> s, was |-> pods[p]])
  BY DEF TypeOK, Becomes
<1> HIDE DEF Event
<1> QED  BY <1>1, <1>2, <1>3

\* A notification.
LEMMA NoteTyped ==
  ASSUME NEW p \in Pods, NEW old \in States, NEW new \in States
  PROVE  Note(p, old, new) \in Notification
BY DEF Note, Notification

\* The notifications of a list.
LEMMA NotesTyped ==
  ASSUME NEW old \in [Pods -> States], NEW new \in [Pods -> States], NEW ns \in Notes(old, new)
  PROVE  /\ ns \in Seq(Notification)
         /\ \A n \in 1 .. Len(ns) : /\ ns[n].pod \in Pods /\ old[ns[n].pod] # new[ns[n].pod]
                                    /\ ns[n] = Note(ns[n].pod, old[ns[n].pod], new[ns[n].pod])
         /\ \A m, n \in 1 .. Len(ns) : ns[m].pod = ns[n].pod => m = n
<1> DEFINE D == {p \in Pods : old[p] # new[p]}
<1>1. D \subseteq Pods /\ Cardinality(D) \in Nat
  BY PodSets
<1>2. PICK o \in Orders(D) : ns = [n \in DOMAIN o |-> Note(o[n], old[o[n]], new[o[n]])]
  BY DEF Notes
<1>3. o \in Seq(Pods) /\ Distinct(o) /\ RangeOf(o) = D /\ Len(o) \in Nat /\ DOMAIN o = 1 .. Len(o)
  <2> HIDE DEF D
  <2> QED  BY <1>1, OrdersAreQueues
<1>4. \A n \in 1 .. Len(o) : o[n] \in Pods /\ old[o[n]] # new[o[n]]
  BY <1>3 DEF RangeOf
<1>5. \A n \in 1 .. Len(o) : /\ ns[n] = Note(o[n], old[o[n]], new[o[n]])
                             /\ ns[n].pod = o[n] /\ ns[n] \in Notification
  <2> SUFFICES ASSUME NEW n \in 1 .. Len(o)
               PROVE  /\ ns[n] = Note(o[n], old[o[n]], new[o[n]])
                      /\ ns[n].pod = o[n] /\ ns[n] \in Notification
    OBVIOUS
  <2>1. ns[n] = Note(o[n], old[o[n]], new[o[n]])
    BY <1>2, <1>3
  <2>2. o[n] \in Pods /\ old[o[n]] \in States /\ new[o[n]] \in States
    BY <1>4
  <2>3. ns[n].pod = o[n]
    BY <2>1 DEF Note
  <2> QED  BY <2>1, <2>2, <2>3, NoteTyped
<1>6. ns = [n \in 1 .. Len(o) |-> ns[n]]
  BY <1>2, <1>3
<1>7. ns \in Seq(Notification) /\ Len(ns) = Len(o)
  <2> HIDE DEF Notification
  <2> QED  BY <1>3, <1>5, <1>6
<1>8. \A m, n \in 1 .. Len(o) : o[m] = o[n] => m = n
  BY <1>3 DEF Distinct
<1> QED  BY <1>4, <1>5, <1>7, <1>8

\* What a list shows of a pod: the last of the events it is ahead, if there is
\* one about the pod.
LEMMA ListedPod ==
  ASSUME TypeOK, NEW k \in 0 .. Len(events), NEW p \in Pods
  PROVE  \/ Listed(k)[p] = store[p] /\ \A n \in 1 .. k : events[n].pod # p
         \/ \E c \in 1 .. k : /\ events[c].pod = p /\ Listed(k)[p] = events[c].state
                             /\ \A m \in 1 .. k : events[m].pod = p => m <= c
<1> DEFINE seen == {n \in 1 .. k : events[n].pod = p}
<1>1. events \in Seq(Event) /\ k \in Nat /\ Len(events) \in Nat
  BY DEF TypeOK
<1>2. CASE seen = {}
  BY <1>2 DEF Listed
<1>3. CASE seen # {}
  <2>1. PICK c : c = CHOOSE n \in seen : \A m \in seen : m <= n
    OBVIOUS
  <2>2. Listed(k)[p] = events[c].state
    BY <1>3, <2>1 DEF Listed
  <2>3. seen \in SUBSET (1 .. k)
    OBVIOUS
  <2>4. c \in seen /\ \A m \in seen : m <= c
    <3> HIDE DEF seen
    <3> QED  BY <1>1, <1>3, <2>1, <2>3, GreatestExists
  <2> QED  BY <2>2, <2>4
<1> QED  BY <1>2, <1>3

LEMMA ListedTyped ==
  ASSUME TypeOK, NEW k \in 0 .. Len(events)
  PROVE  Listed(k) \in [Pods -> States]
<1>1. events \in Seq(Event) /\ Len(events) \in Nat /\ store \in [Pods -> States]
  BY DEF TypeOK
<1>2. \A n \in 1 .. Len(events) : events[n] \in Event
  <2> HIDE DEF Event
  <2> QED  BY <1>1
<1>3. \A n \in 1 .. k : events[n].state \in States
  BY <1>1, <1>2 DEF Event
<1>4. \A p \in Pods : Listed(k)[p] \in States
  BY <1>1, <1>3, ListedPod
<1> QED  BY <1>4 DEF Listed

\* A list that goes back shows what was before the first of the events it goes
\* back over.
LEMMA UnlistedTyped ==
  ASSUME TypeOK, NEW k \in 0 .. Len(past)
  PROVE  Unlisted(k) \in [Pods -> States]
<1>1. past \in Seq(Event) /\ k \in Nat /\ Len(past) \in Nat
  BY DEF TypeOK
<1>2. SUFFICES ASSUME NEW p \in Pods, NEW again,
                      again = {n \in Len(past) - k + 1 .. Len(past) : past[n].pod = p}, again # {}
               PROVE  past[CHOOSE n \in again : \A m \in again : n <= m].was \in States
  BY DEF Unlisted, TypeOK
<1>3. PICK c : c = CHOOSE n \in again : \A m \in again : n <= m
  OBVIOUS
<1>4. again \in SUBSET Nat /\ again \subseteq 1 .. Len(past)
  BY <1>1, <1>2
<1>5. c \in again
  BY <1>2, <1>3, <1>4, LeastExists
<1>6. past[c] \in Event
  <2> HIDE DEF Event
  <2> QED  BY <1>1, <1>4, <1>5
<1> QED  BY <1>3, <1>6 DEF Event

\* The events remembered are a part of those seen.
LEMMA RecentTyped ==
  ASSUME NEW s \in Seq(Event)
  PROVE  Recent(s) \in Seq(Event)
<1>1. MaxBack \in Nat
  BY Sizes
<1> HIDE DEF Event
<1> QED  BY <1>1 DEF Recent

\* A list, ahead or behind.
LEMMA ListTyped ==
  ASSUME TypeOK, \/ \E k \in 0 .. Len(events) : ListAhead(k)
                 \/ \E k \in 0 .. Len(past) : ListBehind(k)
  PROVE  store' \in [Pods -> States] /\ events' \in Seq(Event) /\ past' \in Seq(Event)
<1>0. events \in Seq(Event) /\ past \in Seq(Event)
  BY DEF TypeOK
<1>1. ASSUME NEW k \in 0 .. Len(events), ListAhead(k)
      PROVE  store' \in [Pods -> States] /\ events' \in Seq(Event) /\ past' \in Seq(Event)
  <2>1. store' \in [Pods -> States]
    BY <1>1, ListedTyped DEF ListAhead
  <2>2. events' \in Seq(Event) /\ past \o SubSeq(events, 1, k) \in Seq(Event)
    <3>1. events' = SubSeq(events, k + 1, Len(events))
      BY <1>1 DEF ListAhead
    <3> HIDE DEF Event
    <3> QED  BY <1>0, <3>1
  <2> QED  BY <1>1, <2>1, <2>2, RecentTyped DEF ListAhead
<1>2. ASSUME NEW k \in 0 .. Len(past), ListBehind(k)
      PROVE  store' \in [Pods -> States] /\ events' \in Seq(Event) /\ past' \in Seq(Event)
  <2>1. store' \in [Pods -> States]
    BY <1>2, UnlistedTyped DEF ListBehind
  <2>2. SubSeq(past, Len(past) - k + 1, Len(past)) \in Seq(Event) /\ past' \in Seq(Event)
    <3>1. past' = SubSeq(past, 1, Len(past) - k)
      BY <1>2 DEF ListBehind
    <3> HIDE DEF Event
    <3> QED  BY <1>0, <3>1
  <2>3. events' \in Seq(Event)
    <3>1. events' = SubSeq(past, Len(past) - k + 1, Len(past)) \o events
      BY <1>2 DEF ListBehind
    <3> HIDE DEF Event
    <3> QED  BY <1>0, <2>2, <3>1
  <2> QED  BY <2>1, <2>2, <2>3
<1> QED  BY <1>1, <1>2

\* What is observed leaves expectations of their type.
LEMMA ObservedTyped ==
  ASSUME TypeOK, CreationObserved \/ (\E p \in Pods : DeletionObserved(p)) \/ UNCHANGED expvars
  PROVE  /\ expectations' \in [set : BOOLEAN, add : Int, del : Int, expired : BOOLEAN]
         /\ uids' \subseteq Pods /\ (~expectations'.set => uids' = {})
<1>1. /\ expectations \in [set : BOOLEAN, add : Int, del : Int, expired : BOOLEAN]
      /\ uids \subseteq Pods /\ (~expectations.set => uids = {})
  BY DEF TypeOK
<1> QED  BY <1>1 DEF CreationObserved, DeletionObserved, expvars

\* A failing call.
LEMMA FailsTyped ==
  ASSUME failures \in 0 .. MaxFailures, NEW E, Fails(E)
  PROVE  failures' \in 0 .. MaxFailures /\ failed' = TRUE
BY Sizes DEF Fails

\* All variables keep their types.
LEMMA TypedStep ==
  ASSUME Typed, [Next]_vars
  PROVE  Typed'
<1> USE DEF Typed
<1>0. /\ MaxPods \in Nat /\ MaxReplicas \in Nat /\ burstReplicas \in Nat \ {0}
      /\ MaxFailures \in Nat /\ MaxDisruptions \in Nat /\ MaxBack \in Nat
  BY Sizes
<1>1. CASE UNCHANGED vars
  BY <1>1 DEF vars, TypeOK
<1>2. CASE StartSync
  <2>1. /\ dirty' = FALSE /\ at = "idle"
        /\ UNCHANGED <<rsvars, pods, informer, failures, disruptions, history>>
    BY <1>2 DEF StartSync
  <2>2. CASE DeleteExpectations /\ UNCHANGED <<at, locals>>
    <3>1. /\ expectations' \in [set : BOOLEAN, add : Int, del : Int, expired : BOOLEAN]
          /\ uids' = {}
      BY <2>2 DEF DeleteExpectations, None
    <3> QED  BY <2>1, <2>2, <3>1 DEF TypeOK, rsvars, informer, locals, history
  <2>3. CASE /\ at' = "list" /\ want' = replicas /\ needsSync' = (SatisfiedExpectations /\ ~doomed)
             /\ UNCHANGED <<expvars, filteredPods, creates, deletes, failed>>
    <3>1. needsSync' \in BOOLEAN
      BY <2>3, Zenon
    <3> QED  BY <2>1, <2>3, <3>1 DEF TypeOK, rsvars, informer, expvars, history
  <2> QED  BY <1>2, <2>2, <2>3 DEF StartSync
<1>3. CASE ListPods
  BY <1>3 DEF ListPods, TypeOK, Active, rsvars, informer, expvars, history
<1>4. CASE Manage
  <2>1. /\ TypeOK /\ at' = "call"
        /\ UNCHANGED <<rsvars, pods, informer, dirty, want, needsSync, filteredPods,
                       failed, failures, disruptions, history>>
    BY <1>4 DEF Manage
  <2>2. creates = 0 /\ deletes = {}
    BY <1>4 DEF Manage
  <2>3. /\ expectations' \in [set : BOOLEAN, add : Int, del : Int, expired : BOOLEAN]
        /\ uids' \subseteq Pods /\ (~expectations'.set => uids' = {})
        /\ creates' \in 0 .. burstReplicas /\ deletes' \subseteq filteredPods
    <3>0. Cardinality(filteredPods) \in Nat /\ want \in Int /\ filteredPods \subseteq Pods
      BY <1>0, PodSets DEF TypeOK
    <3> DEFINE diff == Cardinality(filteredPods) - want
    <3>1. CASE UNCHANGED <<creates, deletes, expvars>>
      BY <1>0, <2>2, <3>1 DEF TypeOK, expvars
    <3>2. CASE needsSync /\ diff < 0
      <4>1. /\ creates' = AtMostBurst(-diff) /\ SetExpectations(creates', 0)
            /\ uids' = uids /\ deletes' = deletes
        BY <1>4, <3>0, <3>2 DEF Manage, manageReplicas, ExpectCreations
      <4>2. creates' \in 0 .. burstReplicas
        BY <1>0, <3>0, <3>2, <4>1 DEF AtMostBurst
      <4> QED  BY <2>2, <4>1, <4>2 DEF SetExpectations, TypeOK
    <3>3. CASE needsSync /\ diff > 0
      <4>1. PICK S \in SUBSET filteredPods : deletes' = S /\ ExpectDeletions(S)
        BY <1>4, <3>0, <3>3 DEF Manage, manageReplicas
      <4>2. creates' = creates
        BY <1>4, <3>0, <3>3 DEF Manage, manageReplicas
      <4>3. Cardinality(S) \in Nat
        BY <3>0, PodSets
      <4> QED  BY <1>0, <2>2, <3>0, <4>1, <4>2, <4>3 DEF ExpectDeletions, SetExpectations, TypeOK
    <3>4. CASE needsSync /\ diff = 0
      BY <1>4, <3>1, <3>4 DEF Manage, manageReplicas
    <3> QED  BY <1>4, <3>0, <3>1, <3>2, <3>3, <3>4 DEF Manage
  <2> QED  BY <2>1, <2>3 DEF TypeOK, rsvars, informer, history
<1>5. CASE CreatePod
  <2>1. /\ at = "call" /\ creates > 0 /\ creates' = creates - 1
        /\ UNCHANGED <<rsvars, past, store, notes, dirty, at, want, needsSync, filteredPods,
                       deletes, disruptions, killed>>
    BY <1>5 DEF CreatePod
  <2>2. CreationObserved \/ UNCHANGED expvars
    BY <1>5 DEF CreatePod
  <2>3. failures' \in 0 .. MaxFailures /\ failed' \in BOOLEAN /\ unsure' \in BOOLEAN
    <3>1. failures' = failures \/ (failures < MaxFailures /\ failures' = failures + 1)
      BY <1>5 DEF CreatePod, Fails
    <3>2. (failed' = failed \/ failed' = TRUE) /\ (unsure' = unsure \/ unsure' = TRUE)
      BY <1>5, Zenon DEF CreatePod, Fails
    <3>3. failed' \in BOOLEAN /\ unsure' \in BOOLEAN
      BY <3>2, Zenon DEF TypeOK
    <3>4. failures' \in 0 .. MaxFailures
      BY <1>0, <3>1 DEF TypeOK
    <3> QED  BY <3>3, <3>4
  <2>4. (NewPod \/ UNCHANGED <<pods, events>>)
    BY <1>5 DEF CreatePod, Fails
  <2>5. pods' \in [Pods -> States] /\ events' \in Seq(Event)
    <3>1. CASE NewPod
      <4>1. Fresh \subseteq Pods /\ Fresh \in SUBSET Nat /\ Fresh # {}
        BY <1>0, <3>1 DEF Fresh, Pods, NewPod
      <4>2. (CHOOSE p \in Fresh : \A q \in Fresh : p <= q) \in Pods
        BY <4>1, LeastExists
      <4>3. "active" \in States
        BY DEF States
      <4> QED  BY <3>1, <4>2, <4>3, BecomesTyped DEF NewPod
    <3> QED  BY <2>4, <3>1 DEF TypeOK
  <2>6. creates' \in 0 .. burstReplicas
    BY <1>0, <2>1 DEF TypeOK
  <2> QED  BY <2>1, <2>2, <2>3, <2>5, <2>6, ObservedTyped DEF TypeOK, rsvars
<1>6. ASSUME NEW p \in Pods, DeletePod(p) PROVE Typed'
  <2>1. /\ at = "call" /\ deletes' = deletes \ {p}
        /\ UNCHANGED <<rsvars, past, store, notes, dirty, at, want, needsSync, filteredPods,
                       creates, disruptions, killed>>
    BY <1>6 DEF DeletePod
  <2>2. DeletionObserved(p) \/ UNCHANGED expvars
    BY <1>6 DEF DeletePod
  <2>3. failures' \in 0 .. MaxFailures /\ failed' \in BOOLEAN /\ unsure' \in BOOLEAN
    <3>1. failures' = failures \/ (failures < MaxFailures /\ failures' = failures + 1)
      BY <1>6 DEF DeletePod, Fails
    <3>2. (failed' = failed \/ failed' = TRUE) /\ (unsure' = unsure \/ unsure' = TRUE)
      BY <1>6, Zenon DEF DeletePod, Fails
    <3>3. failed' \in BOOLEAN /\ unsure' \in BOOLEAN
      BY <3>2, Zenon DEF TypeOK
    <3>4. failures' \in 0 .. MaxFailures
      BY <1>0, <3>1 DEF TypeOK
    <3> QED  BY <3>3, <3>4
  <2>4. Delete(p) \/ UNCHANGED <<pods, events>>
    BY <1>6 DEF DeletePod, Fails
  <2>5. (\E s \in States : Becomes(p, s)) \/ UNCHANGED <<pods, events>>
    BY <2>4 DEF Delete, States
  <2>6. pods' \in [Pods -> States] /\ events' \in Seq(Event)
    BY <2>5, BecomesTyped DEF TypeOK
  <2> QED  BY <2>1, <2>2, <2>3, <2>6, ObservedTyped DEF TypeOK, rsvars
<1>7. CASE FinishSync
  <2>1. /\ at' = "idle" /\ ClearLocals /\ creates = 0 /\ deletes = {}
        /\ UNCHANGED <<rsvars, pods, informer, expvars, disruptions, history>>
    BY <1>7 DEF FinishSync
  <2>2. failures' = failures \/ (failures < MaxFailures /\ failures' = failures + 1)
    BY <1>7 DEF FinishSync
  <2>3. dirty' \in BOOLEAN
    BY <1>7, Zenon DEF FinishSync
  <2>4. failures' \in 0 .. MaxFailures /\ want' \in 0 .. MaxReplicas /\ creates' \in 0 .. burstReplicas
    BY <1>0, <2>1, <2>2 DEF TypeOK, ClearLocals
  <2> QED  BY <2>1, <2>3, <2>4 DEF ClearLocals, TypeOK, rsvars, informer, expvars, history
<1>8. CASE Observe
  <2>1. /\ events # <<>> /\ events' = Tail(events) /\ past' = Recent(Append(past, Head(events)))
        /\ store' = [store EXCEPT ![Head(events).pod] = Head(events).state]
        /\ notes' = Append(notes, Note(Head(events).pod, store[Head(events).pod], Head(events).state))
        /\ UNCHANGED <<rsvars, pods, expvars, dirty, at, locals, failures, disruptions, history>>
    BY <1>8 DEF Observe
  <2>2. Head(events) \in Event /\ events' \in Seq(Event) /\ past' \in Seq(Event)
    <3>1. events \in Seq(Event) /\ past \in Seq(Event)
      BY DEF TypeOK
    <3>2. Head(events) \in Event /\ events' \in Seq(Event)
      <4> HIDE DEF Event
      <4> QED  BY <2>1, <3>1
    <3>3. Append(past, Head(events)) \in Seq(Event)
      <4> HIDE DEF Event
      <4> QED  BY <3>1, <3>2
    <3> QED  BY <2>1, <3>2, <3>3, RecentTyped
  <2>3. Head(events).pod \in Pods /\ Head(events).state \in States /\ store[Head(events).pod] \in States
    BY <2>2 DEF Event, TypeOK
  <2>4. notes' \in Seq(Notification)
    <3> HIDE DEF Notification
    <3>1. notes \in Seq(Notification)
      BY DEF TypeOK
    <3> QED  BY <2>1, <2>3, <3>1, NoteTyped
  <2> QED  BY <2>1, <2>2, <2>3, <2>4 DEF TypeOK, rsvars, expvars, locals, history
<1>9. CASE Relist
  <2>1. UNCHANGED <<rsvars, pods, expvars, dirty, at, locals, failures, killed>>
    BY <1>9 DEF Relist
  <2>2. PICK ns \in Notes(store, store') : notes' = notes \o ns
    BY <1>9 DEF Relist
  <2>3. store' \in [Pods -> States] /\ events' \in Seq(Event) /\ past' \in Seq(Event)
    BY <1>9, ListTyped DEF Relist
  <2>4. notes' \in Seq(Notification)
    <3>1. ns \in Seq(Notification)
      BY <2>3, NotesTyped DEF TypeOK
    <3>2. notes \in Seq(Notification)
      BY DEF TypeOK
    <3> HIDE DEF Notification
    <3> QED  BY <2>2, <3>1, <3>2
  <2>5. unsure' = unsure \/ unsure' = TRUE
    BY <1>9, Zenon DEF Relist, ListBehind
  <2>6. disruptions' = disruptions \/ (disruptions < MaxDisruptions /\ disruptions' = disruptions + 1)
    BY <1>9 DEF Relist, Disrupt
  <2>7. disruptions' \in 0 .. MaxDisruptions /\ killed <= disruptions'
    BY <1>0, <2>6 DEF TypeOK
  <2>8. unsure' \in BOOLEAN
    BY <2>5, Zenon DEF TypeOK
  <2> QED  BY <2>1, <2>3, <2>4, <2>7, <2>8 DEF TypeOK, rsvars, expvars, locals
<1>10. CASE HandlePod
  <2>1. /\ notes # <<>> /\ notes' = Tail(notes)
        /\ UNCHANGED <<rsvars, pods, events, past, store, at, locals, failures, disruptions, history>>
    BY <1>10 DEF HandlePod
  <2>2. Head(notes) \in Notification /\ notes' \in Seq(Notification)
    <3> HIDE DEF Notification
    <3>1. notes \in Seq(Notification)
      BY DEF TypeOK
    <3> QED  BY <2>1, <3>1
  <2>3. Head(notes).pod \in Pods
    BY <2>2 DEF Notification
  <2>4. /\ CreationObserved \/ DeletionObserved(Head(notes).pod) \/ UNCHANGED expvars
        /\ dirty' \in BOOLEAN
    BY <1>10 DEF HandlePod, addPod, updatePod, deletePod, enqueueReplicaSet, TypeOK
  <2>5. /\ expectations' \in [set : BOOLEAN, add : Int, del : Int, expired : BOOLEAN]
        /\ uids' \subseteq Pods /\ (~expectations'.set => uids' = {})
    BY <2>3, <2>4, ObservedTyped
  <2> QED  BY <2>1, <2>2, <2>4, <2>5 DEF TypeOK, rsvars, locals, history
<1>11. CASE updateRS \/ HandleDeletion \/ Scale \/ DeleteRS
  <2>1. UNCHANGED <<pods, informer, expvars, at, locals, failures, history>>
    BY <1>11 DEF updateRS, HandleDeletion, Scale, DeleteRS
  <2>2. disruptions' = disruptions \/ (disruptions < MaxDisruptions /\ disruptions' = disruptions + 1)
    BY <1>11 DEF updateRS, HandleDeletion, Scale, DeleteRS, Disrupt
  <2>3. disruptions' \in 0 .. MaxDisruptions /\ killed <= disruptions'
    BY <1>0, <2>2 DEF TypeOK
  <2>4. exists' \in BOOLEAN /\ doomed' \in BOOLEAN /\ rsNote' \in BOOLEAN /\ dirty' \in BOOLEAN /\ replicas' \in 0 .. MaxReplicas
    <3>1. (exists' = exists \/ exists' = FALSE) /\ (rsNote' = rsNote \/ rsNote' \in BOOLEAN)
          /\ (dirty' = dirty \/ dirty' = TRUE) /\ (doomed' = doomed \/ doomed' \in BOOLEAN)
      BY <1>11, Zenon DEF updateRS, HandleDeletion, Scale, DeleteRS, enqueueReplicaSet, rsvars
    <3>2. replicas' = replicas \/ replicas' \in 0 .. MaxReplicas
      BY <1>11 DEF updateRS, HandleDeletion, Scale, DeleteRS, rsvars
    <3> QED  BY <3>1, <3>2 DEF TypeOK
  <2> QED  BY <2>1, <2>3, <2>4 DEF TypeOK, informer, expvars, locals, history
<1>12. ASSUME NEW p \in Pods, Kill(p) \/ Remove(p) PROVE Typed'
  <2>1. PICK s \in States : Becomes(p, s)
    BY <1>12 DEF Kill, Remove, States
  <2>2. pods' \in [Pods -> States] /\ events' \in Seq(Event)
    BY <2>1, BecomesTyped
  <2>3. /\ disruptions' \in 0 .. MaxDisruptions /\ killed' \in 0 .. MaxDisruptions /\ killed' <= disruptions'
        /\ UNCHANGED <<rsvars, past, store, notes, expvars, dirty, at, locals, failures, unsure>>
    BY <1>0, <1>12 DEF Kill, Remove, Disrupt, TypeOK, history
  <2> QED  BY <2>2, <2>3 DEF TypeOK, rsvars, expvars, locals
<1>13. CASE Expire
  BY <1>13 DEF Expire, TypeOK, rsvars, informer, locals, history
<1>14. CASE Restart
  <2>1. store' \in [Pods -> States] /\ events' \in Seq(Event) /\ past' \in Seq(Event)
    BY <1>14, ListTyped DEF Restart
  <2>4. notes' \in Seq(Notification)
    <3>1. [p \in Pods |-> "none"] \in [Pods -> States]
      BY DEF States
    <3>2. notes' \in Notes([p \in Pods |-> "none"], store')
      BY <1>14 DEF Restart
    <3> QED  BY <2>1, <3>1, <3>2, NotesTyped
  <2>5. /\ expectations' = None /\ uids' = {} /\ dirty' = FALSE /\ at' = "idle" /\ ClearLocals
        /\ unsure' = TRUE /\ rsNote' = FALSE
        /\ UNCHANGED <<exists, replicas, doomed, pods, failures, killed>>
        /\ disruptions' \in 0 .. MaxDisruptions /\ killed' <= disruptions'
    BY <1>0, <1>14 DEF Restart, Disrupt, TypeOK
  <2>6. /\ want' \in 0 .. MaxReplicas /\ creates' \in 0 .. burstReplicas
        /\ creates' = 0 /\ deletes' = {} /\ filteredPods' = {}
        /\ needsSync' \in BOOLEAN /\ failed' \in BOOLEAN
    <3>1. needsSync' \in BOOLEAN /\ failed' \in BOOLEAN
      BY <2>5, Zenon DEF ClearLocals
    <3>2. want' = 0 /\ creates' = 0 /\ deletes' = {} /\ filteredPods' = {}
      BY <2>5 DEF ClearLocals
    <3> QED  BY <1>0, <3>1, <3>2
  <2>7. expectations' \in [set : BOOLEAN, add : Int, del : Int, expired : BOOLEAN]
    BY <2>5 DEF None
  <2> QED  BY <2>1, <2>4, <2>5, <2>6, <2>7 DEF TypeOK
<1> QED
  BY <1>1, <1>2, <1>3, <1>4, <1>5, <1>6, <1>7, <1>8, <1>9, <1>10, <1>11, <1>12, <1>13, <1>14
     DEF Next, Worker

-----------------------------------------------------------------------------
(* What becomes of a pod, and how it is heard of.                          *)

\* The shape of the sequences.
LEMMA SequenceTypes ==
  ASSUME TypeOK
  PROVE  /\ events \in Seq(Event) /\ Len(events) \in Nat
         /\ notes \in Seq(Notification) /\ Len(notes) \in Nat
         /\ \A n \in 1 .. Len(events) : events[n].pod \in Pods /\ events[n].state \in States
         /\ \A n \in 1 .. Len(notes) : notes[n].pod \in Pods /\ notes[n].state \in States
<1>1. events \in Seq(Event) /\ notes \in Seq(Notification)
  BY DEF TypeOK
<1>2. /\ \A n \in 1 .. Len(events) : events[n] \in Event
      /\ \A n \in 1 .. Len(notes) : notes[n] \in Notification
  <2> HIDE DEF Event, Notification
  <2> QED  BY <1>1
<1>3. Len(events) \in Nat /\ Len(notes) \in Nat
  BY <1>1
<1> QED  BY <1>1, <1>2, <1>3 DEF Event, Notification

\* A write appends one event.
LEMMA BecomesAppends ==
  ASSUME TypeOK, NEW p \in Pods, NEW s \in States, Becomes(p, s)
  PROVE  /\ Len(events') = Len(events) + 1
         /\ \A n \in 1 .. Len(events) : events'[n] = events[n]
         /\ events'[Len(events) + 1].pod = p /\ events'[Len(events) + 1].state = s
         /\ pods'[p] = s /\ \A q \in Pods \ {p} : pods'[q] = pods[q]
<1>1. events \in Seq(Event) /\ events' = Append(events, [pod |-> p, state |-> s, was |-> pods[p]])
  BY DEF TypeOK, Becomes
<1>2. /\ Len(events') = Len(events) + 1
      /\ \A n \in 1 .. Len(events) : events'[n] = events[n]
      /\ events'[Len(events) + 1] = [pod |-> p, state |-> s, was |-> pods[p]]
  <2> HIDE DEF Event
  <2> QED  BY <1>1
<1>3. pods'[p] = s /\ \A q \in Pods \ {p} : pods'[q] = pods[q]
  BY DEF TypeOK, Becomes
<1> QED  BY <1>2, <1>3

\* A pod ends, or comes closer to its end.
LEMMA EndsChain ==
  ASSUME TypeOK, Chain, NEW p \in Pods, NEW s \in States \ {"active"}, pods[p] # "none",
         Becomes(p, s), store' = store, notes' = notes
  PROVE  /\ Chain'
         /\ \A q \in Pods : Born(q)' <=> Born(q)
         /\ Unseen' = Unseen
<1> DEFINE L == Len(events)
<1>1. /\ L \in Nat /\ Len(events') = L + 1
      /\ \A n \in 1 .. L : events'[n] = events[n] /\ n \in 1 .. L + 1 /\ n < L + 1
      /\ events'[L + 1].pod = p /\ events'[L + 1].state = s
      /\ pods'[p] = s /\ \A q \in Pods \ {p} : pods'[q] = pods[q]
  BY SequenceTypes, BecomesAppends
<1>2. \A n \in 1 .. L + 1 : n \in 1 .. L \/ n = L + 1
  BY <1>1
<1>3. L + 1 \in 1 .. L + 1
  BY <1>1
<1>4. \A n \in 1 .. L : events[n].pod \in Pods
  BY SequenceTypes
<1> HIDE DEF L
<1>5. \A q \in Pods : Born(q)' <=> Born(q)
  BY <1>1, <1>2 DEF Born, L
<1>6. \A q \in Pods : Noted(q)' <=> Noted(q)
  BY DEF Noted
<1>7. Unseen' = Unseen
  BY <1>5 DEF Unseen
<1>8. EventsLeadToPods'
  <2> SUFFICES ASSUME NEW q \in Pods
      PROVE \/ store'[q] = pods'[q] /\ \A n \in 1 .. L + 1 : events'[n].pod # q
            \/ \E n \in 1 .. L + 1 :
                 /\ events'[n].pod = q /\ events'[n].state = pods'[q]
                 /\ \A m \in 1 .. L + 1 : m > n => events'[m].pod # q
    BY <1>1 DEF EventsLeadToPods
  <2>1. CASE q = p
    BY <1>1, <1>2, <1>3, <2>1
  <2>2. CASE q # p
    <3>1. CASE store[q] = pods[q] /\ \A n \in 1 .. L : events[n].pod # q
      BY <1>1, <1>2, <2>2, <3>1
    <3>2. CASE \E n \in 1 .. L : /\ events[n].pod = q /\ events[n].state = pods[q]
                                 /\ \A m \in 1 .. L : m > n => events[m].pod # q
      BY <1>1, <1>2, <2>2, <3>2
    <3> QED  BY <3>1, <3>2 DEF Chain, EventsLeadToPods, L
  <2> QED  BY <2>1, <2>2
<1>9. LivesOnce'
  <2> SUFFICES ASSUME NEW n \in 1 .. L + 1, NEW q \in Pods, q = events'[n].pod
      PROVE /\ events'[n].state = "active" =>
                 /\ store[q] = "none" /\ ~Noted(q)
                 /\ \A m \in 1 .. L + 1 : m < n => events'[m].pod # q
            /\ events'[n].state # "active" =>
                 /\ pods'[q] # "active"
                 /\ store[q] = "none" => Born(q)
            /\ events'[n].state = "none" =>
                 /\ pods'[q] = "none"
                 /\ \A m \in 1 .. L + 1 : m > n => events'[m].pod # q
    <3>1. \A n \in 1 .. L + 1 : events'[n].pod \in Pods
      BY <1>1, <1>2, <1>4
    <3> QED  BY <1>1, <1>5, <1>6, <3>1 DEF LivesOnce
  <2>1. CASE n = L + 1
    BY <1>1, <1>2, <2>1 DEF Chain, KnownOrBorn
  <2>2. CASE n \in 1 .. L
    <3>1. /\ events[n].state = "active" =>
              /\ store[q] = "none" /\ ~Noted(q)
              /\ \A m \in 1 .. L : m < n => events[m].pod # q
          /\ events[n].state # "active" => pods[q] # "active" /\ (store[q] = "none" => Born(q))
          /\ events[n].state = "none" =>
               pods[q] = "none" /\ \A m \in 1 .. L : m > n => events[m].pod # q
      BY <1>1, <2>2 DEF Chain, LivesOnce, L
    <3>2. events'[n] = events[n] /\ (q # p => pods'[q] = pods[q])
      BY <1>1, <2>2
    <3>3. \A m \in 1 .. L + 1 : m < n => m \in 1 .. L
      BY <1>1, <2>2
    <3> QED  BY <1>1, <1>2, <3>1, <3>2, <3>3
  <2> QED  BY <1>2, <2>1, <2>2
<1>10. KnownOrBorn' /\ NotesInOrder'
  BY <1>1, <1>5 DEF Chain, KnownOrBorn, NotesInOrder
<1> QED  BY <1>5, <1>7, <1>8, <1>9, <1>10 DEF Chain

\* A pod is created under a name that nothing is heard of.
LEMMA BirthChain ==
  ASSUME TypeOK, Chain, NEW p \in Fresh, Becomes(p, "active"), store' = store, notes' = notes
  PROVE  /\ Chain'
         /\ \A q \in Pods : Born(q)' <=> Born(q) \/ q = p
         /\ Unseen' = Unseen \cup {p}
<1> DEFINE L == Len(events)
<1>0. p \in Pods /\ "active" \in States
  BY DEF Fresh, States
<1>1. /\ L \in Nat /\ Len(events') = L + 1
      /\ \A n \in 1 .. L : events'[n] = events[n] /\ n \in 1 .. L + 1 /\ n < L + 1
      /\ events'[L + 1].pod = p /\ events'[L + 1].state = "active"
      /\ pods'[p] = "active" /\ \A q \in Pods \ {p} : pods'[q] = pods[q]
  BY <1>0, SequenceTypes, BecomesAppends
<1>2. \A n \in 1 .. L + 1 : n \in 1 .. L \/ n = L + 1
  BY <1>1
<1>3. L + 1 \in 1 .. L + 1
  BY <1>1
<1>4. \A n \in 1 .. L : events[n].pod \in Pods /\ events[n].pod # p
  BY SequenceTypes DEF Fresh, RangeOf
<1>5. pods[p] = "none" /\ store[p] = "none" /\ ~Noted(p)
  BY SequenceTypes DEF Fresh, RangeOf, Noted
<1> HIDE DEF L
<1>6. \A q \in Pods : Born(q)' <=> Born(q) \/ q = p
  BY <1>1, <1>2, <1>3 DEF Born, L
<1>7. \A q \in Pods : Noted(q)' <=> Noted(q)
  BY DEF Noted
<1>8. Unseen' = Unseen \cup {p}
  BY <1>0, <1>6 DEF Unseen
<1>9. EventsLeadToPods'
  <2> SUFFICES ASSUME NEW q \in Pods
      PROVE \/ store'[q] = pods'[q] /\ \A n \in 1 .. L + 1 : events'[n].pod # q
            \/ \E n \in 1 .. L + 1 :
                 /\ events'[n].pod = q /\ events'[n].state = pods'[q]
                 /\ \A m \in 1 .. L + 1 : m > n => events'[m].pod # q
    BY <1>1 DEF EventsLeadToPods
  <2>1. CASE q = p
    BY <1>1, <1>2, <1>3, <2>1
  <2>2. CASE q # p
    <3>1. CASE store[q] = pods[q] /\ \A n \in 1 .. L : events[n].pod # q
      BY <1>1, <1>2, <2>2, <3>1
    <3>2. CASE \E n \in 1 .. L : /\ events[n].pod = q /\ events[n].state = pods[q]
                                 /\ \A m \in 1 .. L : m > n => events[m].pod # q
      BY <1>1, <1>2, <2>2, <3>2
    <3> QED  BY <3>1, <3>2 DEF Chain, EventsLeadToPods, L
  <2> QED  BY <2>1, <2>2
<1>10. LivesOnce'
  <2> SUFFICES ASSUME NEW n \in 1 .. L + 1, NEW q \in Pods, q = events'[n].pod
      PROVE /\ events'[n].state = "active" =>
                 /\ store[q] = "none" /\ ~Noted(q)
                 /\ \A m \in 1 .. L + 1 : m < n => events'[m].pod # q
            /\ events'[n].state # "active" =>
                 /\ pods'[q] # "active"
                 /\ store[q] = "none" => Born(q)
            /\ events'[n].state = "none" =>
                 /\ pods'[q] = "none"
                 /\ \A m \in 1 .. L + 1 : m > n => events'[m].pod # q
    <3>1. \A n \in 1 .. L + 1 : events'[n].pod \in Pods
      BY <1>0, <1>1, <1>2, <1>4
    <3> QED  BY <1>1, <1>6, <1>7, <3>1 DEF LivesOnce
  <2>1. CASE n = L + 1
    BY <1>1, <1>2, <1>4, <1>5, <2>1
  <2>2. CASE n \in 1 .. L
    <3>1. /\ events[n].state = "active" =>
              /\ store[q] = "none" /\ ~Noted(q)
              /\ \A m \in 1 .. L : m < n => events[m].pod # q
          /\ events[n].state # "active" => pods[q] # "active" /\ (store[q] = "none" => Born(q))
          /\ events[n].state = "none" =>
               pods[q] = "none" /\ \A m \in 1 .. L : m > n => events[m].pod # q
      BY <1>1, <2>2 DEF Chain, LivesOnce, L
    <3>2. events'[n] = events[n] /\ q # p /\ pods'[q] = pods[q]
      BY <1>1, <1>4, <2>2
    <3>3. \A m \in 1 .. L + 1 : m < n => m \in 1 .. L
      BY <1>1, <2>2
    <3> QED  BY <1>1, <1>2, <3>1, <3>2, <3>3
  <2> QED  BY <1>2, <2>1, <2>2
<1>11. KnownOrBorn' /\ NotesInOrder'
  BY <1>1, <1>6 DEF Chain, KnownOrBorn, NotesInOrder
<1> QED  BY <1>6, <1>8, <1>9, <1>10, <1>11 DEF Chain

\* The informer takes the oldest event.
LEMMA ObserveChain ==
  ASSUME TypeOK, Chain, Observe
  PROVE  /\ Chain' /\ Unseen' = Unseen
         /\ \A q \in Pods : Visible(q)' => Visible(q)
<1>0. /\ events # <<>> /\ Len(events) \in Nat /\ Len(notes) \in Nat /\ events' = Tail(events)
      /\ pods' = pods
  BY SequenceTypes DEF Observe
<1>1. PICK L \in Nat : Len(events) = L + 1
  <2>1. Len(events) # 0
    BY <1>0, SequenceTypes
  <2> QED  BY <1>0, <2>1
<1>2. /\ Len(events') = L /\ Head(events) = events[1]
      /\ \A n \in 1 .. L : events'[n] = events[n + 1]
  <2> HIDE DEF Event
  <2> QED  BY <1>0, <1>1, SequenceTypes
<1>3. PICK p \in Pods, s \in States : p = events[1].pod /\ s = events[1].state
  <2>1. 1 \in 1 .. Len(events)
    BY <1>1
  <2> QED  BY <2>1, SequenceTypes
<1>4. PICK M \in Nat : M = Len(notes)
  BY <1>0
<1>5. PICK note : note = Note(p, store[p], s)
  OBVIOUS
<1>6. /\ Len(notes') = M + 1 /\ notes'[M + 1] = note
      /\ \A n \in 1 .. M : notes'[n] = notes[n]
  <2> HIDE DEF Notification
  <2>1. notes' = Append(notes, note)
    BY <1>2, <1>3, <1>5 DEF Observe
  <2> QED  BY <1>4, <2>1, SequenceTypes
<1>7. store'[p] = s /\ \A q \in Pods \ {p} : store'[q] = store[q]
  BY <1>2, <1>3 DEF Observe, TypeOK
<1>8. note.pod = p /\ note.state = s
      /\ (note.type = "add" <=> s # "none" /\ store[p] = "none")
      /\ (note.type = "delete" <=> s = "none")
  BY <1>5 DEF Note
<1>9. \A n \in 1 .. L : n + 1 \in 1 .. L + 1 /\ n + 1 > 1
  BY <1>1
<1>10. 1 \in 1 .. L + 1 /\ \A n \in 1 .. L + 1 : n = 1 \/ (n - 1 \in 1 .. L /\ events[n] = events'[n - 1])
  BY <1>2
<1>11. \A n \in 1 .. M + 1 : n \in 1 .. M \/ n = M + 1
  OBVIOUS
<1>12. \A n \in 1 .. M : n \in 1 .. M + 1
  OBVIOUS
<1>13. M + 1 \in 1 .. M + 1
  OBVIOUS
\* Old facts, about the sequences of length L + 1 and M.
<1>20. /\ s = "active" => store[p] = "none" /\ ~Noted(p)
       /\ s # "active" => pods[p] # "active" /\ (store[p] = "none" => Born(p))
       /\ s = "none" => pods[p] = "none" /\ \A m \in 1 .. L + 1 : m > 1 => events[m].pod # p
  BY <1>1, <1>3, <1>10 DEF Chain, LivesOnce
<1>21. \A n \in 1 .. L + 1 : n > 1 /\ events[n].state = "active" => events[n].pod # p
  BY <1>1, <1>3, <1>10 DEF Chain, LivesOnce
<1>22. s # "active" => store[p] # "none"
  BY <1>1, <1>3, <1>10, <1>20, <1>21 DEF Born
<1>23. note.type = "add" <=> s = "active"
  BY <1>8, <1>20, <1>22
<1>24. \A q \in Pods : q # p => (Born(q)' <=> Born(q))
  BY <1>1, <1>2, <1>3, <1>9, <1>10 DEF Born
<1>25. ~Born(p)' /\ (s = "active" => Born(p))
  BY <1>1, <1>2, <1>3, <1>9, <1>10, <1>21 DEF Born
<1>26. \A q \in Pods : q # p => (Noted(q)' <=> Noted(q))
  BY <1>4, <1>6, <1>8, <1>11, <1>12 DEF Noted
<1>27. Unseen' = Unseen
  <2> DEFINE Added(q) == \E n \in 1 .. Len(notes) : notes[n].pod = q /\ notes[n].type = "add"
  <2>1. \A q \in Pods : q # p => (Added(q)' <=> Added(q))
    BY <1>4, <1>6, <1>8, <1>11, <1>12
  <2>2. s = "active" => Added(p)' /\ Born(p)
    BY <1>6, <1>8, <1>13, <1>23, <1>25
  <2>3. s # "active" => (Added(p)' <=> Added(p))
    BY <1>4, <1>6, <1>8, <1>11, <1>12, <1>23
  <2>4. s # "active" => ~Born(p)
    BY <1>1, <1>3, <1>10, <1>21 DEF Born
  <2>5. \A q \in Pods : Born(q)' \/ Added(q)' <=> Born(q) \/ Added(q)
    BY <1>24, <1>25, <2>1, <2>2, <2>3, <2>4
  <2> QED  BY <2>5 DEF Unseen
<1>28. \A q \in Pods : Visible(q)' => Visible(q)
  BY <1>7, <1>24, <1>25 DEF Visible
<1>29. EventsLeadToPods'
  <2> SUFFICES ASSUME NEW q \in Pods
      PROVE \/ store'[q] = pods'[q] /\ \A n \in 1 .. L : events'[n].pod # q
            \/ \E n \in 1 .. L :
                 /\ events'[n].pod = q /\ events'[n].state = pods'[q]
                 /\ \A m \in 1 .. L : m > n => events'[m].pod # q
    BY <1>2 DEF EventsLeadToPods
  <2>1. CASE store[q] = pods[q] /\ \A n \in 1 .. L + 1 : events[n].pod # q
    BY <1>0, <1>2, <1>3, <1>7, <1>9, <1>10, <2>1
  <2>2. ASSUME NEW n \in 1 .. L + 1, events[n].pod = q, events[n].state = pods[q],
               \A m \in 1 .. L + 1 : m > n => events[m].pod # q
        PROVE  \/ store'[q] = pods[q] /\ \A i \in 1 .. L : events'[i].pod # q
               \/ \E i \in 1 .. L :
                    /\ events'[i].pod = q /\ events'[i].state = pods[q]
                    /\ \A m \in 1 .. L : m > i => events'[m].pod # q
    <3>1. CASE n = 1
      BY <1>2, <1>3, <1>7, <1>9, <2>2, <3>1
    <3>2. CASE n # 1
      <4>1. n - 1 \in 1 .. L /\ events'[n - 1] = events[n]
        BY <1>10, <3>2
      <4>2. \A m \in 1 .. L : m > n - 1 => m + 1 > n
        OBVIOUS
      <4>3. \A m \in 1 .. L : m > n - 1 => events'[m].pod # q
        BY <1>2, <1>9, <2>2, <4>2
      <4> QED  BY <2>2, <4>1, <4>3
    <3> QED  BY <3>1, <3>2
  <2>3. \/ store[q] = pods[q] /\ \A n \in 1 .. L + 1 : events[n].pod # q
        \/ \E n \in 1 .. L + 1 :
             /\ events[n].pod = q /\ events[n].state = pods[q]
             /\ \A m \in 1 .. L + 1 : m > n => events[m].pod # q
    BY <1>1 DEF Chain, EventsLeadToPods
  <2> QED  BY <1>0, <2>1, <2>2, <2>3
<1>30. LivesOnce'
  <2> SUFFICES ASSUME NEW n \in 1 .. L, NEW q \in Pods, q = events'[n].pod
      PROVE /\ events'[n].state = "active" =>
                 /\ store'[q] = "none" /\ ~Noted(q)'
                 /\ \A m \in 1 .. L : m < n => events'[m].pod # q
            /\ events'[n].state # "active" =>
                 /\ pods'[q] # "active"
                 /\ store'[q] = "none" => Born(q)'
            /\ events'[n].state = "none" =>
                 /\ pods'[q] = "none"
                 /\ \A m \in 1 .. L : m > n => events'[m].pod # q
    <3>1. \A n \in 1 .. L : events'[n].pod \in Pods
      BY <1>1, <1>2, <1>9, SequenceTypes
    <3> QED  BY <1>2, <3>1 DEF LivesOnce
  <2>1. n + 1 \in 1 .. L + 1 /\ n + 1 > 1 /\ events'[n] = events[n + 1]
    BY <1>2, <1>9
  <2>2. /\ events[n + 1].state = "active" =>
             /\ store[q] = "none" /\ ~Noted(q)
             /\ \A m \in 1 .. L + 1 : m < n + 1 => events[m].pod # q
        /\ events[n + 1].state # "active" => pods[q] # "active" /\ (store[q] = "none" => Born(q))
        /\ events[n + 1].state = "none" =>
             pods[q] = "none" /\ \A m \in 1 .. L + 1 : m > n + 1 => events[m].pod # q
    BY <1>1, <2>1 DEF Chain, LivesOnce
  <2>3. \A m \in 1 .. L : (m < n => m + 1 < n + 1) /\ (m > n => m + 1 > n + 1)
    OBVIOUS
  <2>4. events'[n].state = "active" => q # p
    BY <1>21, <2>1
  <2>5. q = p => s # "none"
    BY <1>20, <2>1
  <2> QED  BY <1>0, <1>2, <1>7, <1>9, <1>24, <1>26, <2>1, <2>2, <2>3, <2>4, <2>5
<1>31. KnownOrBorn'
  BY <1>0, <1>7, <1>20, <1>24 DEF Chain, KnownOrBorn
<1>32. NotesInOrder'
  <2> SUFFICES ASSUME NEW n \in 1 .. M + 1
      PROVE /\ notes'[n].type = "add" =>
                 \A m \in 1 .. M + 1 : m < n => notes'[m].pod # notes'[n].pod
            /\ notes'[n].type = "delete" => notes'[n].state = "none"
            /\ notes'[n].state # "active" => store'[notes'[n].pod] # "active"
    BY <1>6 DEF NotesInOrder
  <2>1. CASE n = M + 1
    <3>1. \A m \in 1 .. M + 1 : m < n => m \in 1 .. M
      BY <2>1
    <3>2. note.type = "add" => \A m \in 1 .. M : notes[m].pod # p
      BY <1>4, <1>20, <1>23 DEF Noted
    <3> QED  BY <1>6, <1>7, <1>8, <2>1, <3>1, <3>2
  <2>2. CASE n \in 1 .. M
    <3>1. \A m \in 1 .. M + 1 : m < n => m \in 1 .. M
      BY <2>2
    <3>2. /\ notes[n].type = "add" => \A m \in 1 .. M : m < n => notes[m].pod # notes[n].pod
          /\ notes[n].type = "delete" => notes[n].state = "none"
          /\ notes[n].state # "active" => store[notes[n].pod] # "active"
      BY <1>4, <2>2 DEF Chain, NotesInOrder
    <3>3. notes[n].pod \in Pods /\ (notes[n].pod = p => s # "active")
      BY <1>4, <1>20, <2>2, SequenceTypes DEF Noted
    <3> QED  BY <1>6, <1>7, <2>2, <3>1, <3>2, <3>3
  <2> QED  BY <1>11, <2>1, <2>2
<1> QED  BY <1>27, <1>28, <1>29, <1>30, <1>31, <1>32 DEF Chain

\* The informer lists again, k events ahead.
LEMMA AheadChain ==
  ASSUME TypeOK, Chain, NEW k \in 1 .. Len(events), ListAhead(k), pods' = pods,
         NEW ns \in Notes(store, store'), notes' = notes \o ns
  PROVE  /\ Chain' /\ Unseen' \subseteq Unseen
         /\ \A q \in Pods : Visible(q)' => Visible(q)
<1>0. store' = Listed(k) /\ store' \in [Pods -> States] /\ store \in [Pods -> States]
  BY ListedTyped DEF ListAhead, TypeOK
<1>1. PICK R \in Nat : k \in Nat \ {0} /\ Len(events) = k + R
  <2>1. k \in Nat \ {0} /\ Len(events) - k \in Nat /\ Len(events) = k + (Len(events) - k)
    BY SequenceTypes
  <2> QED  BY <2>1
<1>2. Len(events') = R /\ \A n \in 1 .. R : events'[n] = events[n + k]
  <2>1. events' = SubSeq(events, k + 1, Len(events)) /\ events \in Seq(Event)
    BY SequenceTypes DEF ListAhead
  <2> HIDE DEF Event
  <2> QED  BY <1>1, <2>1
<1>3. /\ \A n \in 1 .. R : n + k \in 1 .. k + R /\ n + k > k
      /\ \A n \in 1 .. k : n \in 1 .. k + R
      /\ \A n \in 1 .. k + R : n \in 1 .. k \/ (n - k \in 1 .. R /\ events[n] = events'[n - k] /\ n > k)
  <2>1. \A n \in 1 .. k + R : n \in 1 .. k \/ (n - k \in 1 .. R /\ (n - k) + k = n /\ n > k)
    BY <1>1
  <2>2. (\A n \in 1 .. R : n + k \in 1 .. k + R /\ n + k > k) /\ \A n \in 1 .. k : n \in 1 .. k + R
    BY <1>1
  <2>3. \A n \in 1 .. k + R : n - k \in 1 .. R /\ (n - k) + k = n => events[n] = events'[n - k]
    BY <1>2
  <2> QED  BY <2>1, <2>2, <2>3
<1>4. /\ ns \in Seq(Notification)
      /\ \A n \in 1 .. Len(ns) : /\ ns[n].pod \in Pods /\ store[ns[n].pod] # store'[ns[n].pod]
                                 /\ ns[n] = Note(ns[n].pod, store[ns[n].pod], store'[ns[n].pod])
      /\ \A m, n \in 1 .. Len(ns) : ns[m].pod = ns[n].pod => m = n
  <2>1. PICK old \in [Pods -> States], new \in [Pods -> States] : old = store /\ new = store'
    BY <1>0
  <2>2. ns \in Notes(old, new)
    BY <2>1
  <2>3. /\ ns \in Seq(Notification)
        /\ \A n \in 1 .. Len(ns) : /\ ns[n].pod \in Pods /\ old[ns[n].pod] # new[ns[n].pod]
                                   /\ ns[n] = Note(ns[n].pod, old[ns[n].pod], new[ns[n].pod])
        /\ \A m, n \in 1 .. Len(ns) : ns[m].pod = ns[n].pod => m = n
    BY <2>2, NotesTyped
  <2> QED  BY <2>1, <2>3, Zenon
<1>5. PICK M \in Nat, K \in Nat : M = Len(notes) /\ K = Len(ns)
  BY <1>4, SequenceTypes
<1>6. /\ Len(notes') = M + K
      /\ \A n \in 1 .. M : notes'[n] = notes[n]
      /\ \A n \in M + 1 .. M + K : n - M \in 1 .. K /\ notes'[n] = ns[n - M]
  <2> HIDE DEF Notification
  <2> QED  BY <1>4, <1>5, SequenceTypes
<1>7. \A n \in 1 .. M + K : n \in 1 .. M \/ n \in M + 1 .. M + K
  OBVIOUS
\* What the list shows of each pod.
<1> DEFINE Touched(q) == \E n \in 1 .. k : events[n].pod = q
<1>10. \A q \in Pods :
         \/ ~Touched(q) /\ store'[q] = store[q]
         \/ \E c \in 1 .. k : /\ events[c].pod = q /\ store'[q] = events[c].state
                              /\ \A m \in 1 .. k : events[m].pod = q => m <= c
  <2>1. k \in 0 .. Len(events)
    BY <1>1
  <2> QED  BY <1>0, <2>1, ListedPod
<1>11. \A q \in Pods : Touched(q) => ~Born(q)'
  <2> SUFFICES ASSUME NEW q \in Pods, NEW i \in 1 .. k, events[i].pod = q,
                      NEW n \in 1 .. R, events'[n].pod = q, events'[n].state = "active"
               PROVE  FALSE
    BY <1>2 DEF Born
  <2>1. n + k \in 1 .. k + R /\ events[n + k].pod = q /\ events[n + k].state = "active" /\ i < n + k
    BY <1>2, <1>3
  <2>2. i \in 1 .. k + R
    BY <1>3
  <2> QED  BY <1>1, <2>1, <2>2 DEF Chain, LivesOnce
<1>12. \A q \in Pods : Born(q)' => Born(q)
  BY <1>1, <1>2, <1>3 DEF Born
<1>13. \A q \in Pods : Born(q) /\ ~Touched(q) => Born(q)'
  BY <1>1, <1>2, <1>3 DEF Born
<1>14. \A q \in Pods : Born(q) => store[q] = "none" /\ ~Noted(q)
  BY DEF Chain, LivesOnce, Born
<1>15. \A q \in Pods, c \in 1 .. k : events[c].pod = q =>
         /\ events[c].state = "active" => Born(q)
         /\ events[c].state # "active" => pods[q] # "active" /\ (store[q] = "none" => Born(q))
         /\ events[c].state = "none" =>
              pods[q] = "none" /\ \A m \in 1 .. k + R : m > c => events[m].pod # q
  BY <1>1, <1>3 DEF Chain, LivesOnce, Born
<1>16. \A q \in Pods : store'[q] # store[q] /\ store[q] = "none" => Born(q)
  BY <1>10, <1>15
<1>17. \A q \in Pods : store'[q] = "active" => store[q] = "active" \/ Born(q)
  BY <1>10, <1>15
<1>18. \A q \in Pods : Noted(q) /\ store[q] # "active" => store'[q] # "active"
  BY <1>14, <1>17
<1>19. ASSUME NEW n \in 1 .. K
       PROVE  /\ ns[n].pod \in Pods /\ ns[n].state = store'[ns[n].pod]
              /\ ns[n].type = "delete" => ns[n].state = "none"
              /\ ns[n].type = "add" => Born(ns[n].pod)
  <2>1. /\ ns[n].pod \in Pods /\ ns[n] = Note(ns[n].pod, store[ns[n].pod], store'[ns[n].pod])
        /\ store[ns[n].pod] # store'[ns[n].pod]
    BY <1>4, <1>5
  <2>2. PICK q \in Pods : q = ns[n].pod
    BY <2>1
  <2>3. /\ ns[n].state = store'[q] /\ (ns[n].type = "delete" => store'[q] = "none")
        /\ (ns[n].type = "add" => store'[q] # "none" /\ store[q] = "none")
    BY <2>1, <2>2 DEF Note
  <2> QED  BY <1>16, <2>1, <2>2, <2>3
<1>20. Unseen' \subseteq Unseen
  <2> SUFFICES ASSUME NEW q \in Pods, NEW n \in 1 .. M + K, notes'[n].pod = q, notes'[n].type = "add"
               PROVE  Born(q) \/ \E i \in 1 .. M : notes[i].pod = q /\ notes[i].type = "add"
    BY <1>5, <1>6, <1>12 DEF Unseen
  <2> QED  BY <1>6, <1>7, <1>19
<1>21. \A q \in Pods : Visible(q)' => Visible(q)
  BY <1>12, <1>17 DEF Visible
<1>22. EventsLeadToPods'
  <2> SUFFICES ASSUME NEW q \in Pods
      PROVE \/ store'[q] = pods[q] /\ \A n \in 1 .. R : events'[n].pod # q
            \/ \E n \in 1 .. R :
                 /\ events'[n].pod = q /\ events'[n].state = pods[q]
                 /\ \A m \in 1 .. R : m > n => events'[m].pod # q
    BY <1>2 DEF EventsLeadToPods
  <2>1. CASE store[q] = pods[q] /\ \A n \in 1 .. k + R : events[n].pod # q
    <3>1. \A n \in 1 .. k : events[n].pod # q
      BY <1>3, <2>1
    <3>2. \A n \in 1 .. R : events'[n].pod # q
      BY <1>2, <1>3, <2>1
    <3> QED  BY <1>10, <2>1, <3>1, <3>2
  <2>2. ASSUME NEW n \in 1 .. k + R, events[n].pod = q, events[n].state = pods[q],
               \A m \in 1 .. k + R : m > n => events[m].pod # q
        PROVE  \/ store'[q] = pods[q] /\ \A i \in 1 .. R : events'[i].pod # q
               \/ \E i \in 1 .. R :
                    /\ events'[i].pod = q /\ events'[i].state = pods[q]
                    /\ \A m \in 1 .. R : m > i => events'[m].pod # q
    <3>1. CASE n \in 1 .. k
      <4>1. PICK c \in 1 .. k : /\ events[c].pod = q /\ store'[q] = events[c].state
                                /\ \A m \in 1 .. k : events[m].pod = q => m <= c
        BY <1>10, <2>2, <3>1
      <4>2. n <= c /\ ~(c > n)
        BY <1>3, <2>2, <3>1, <4>1
      <4>3. c = n
        BY <1>1, <3>1, <4>2
      <4>4. \A i \in 1 .. R : events'[i].pod # q
        <5> SUFFICES ASSUME NEW i \in 1 .. R PROVE events'[i].pod # q
          OBVIOUS
        <5>1. i + k \in 1 .. k + R /\ i + k > n /\ events'[i] = events[i + k]
          BY <1>1, <1>2, <1>3, <3>1
        <5> QED  BY <2>2, <5>1
      <4> QED  BY <2>2, <4>1, <4>3, <4>4
    <3>2. CASE n \notin 1 .. k
      <4>1. n - k \in 1 .. R /\ events'[n - k] = events[n]
        BY <1>3, <3>2
      <4>2. \A m \in 1 .. R : m > n - k => m + k > n
        BY <1>1
      <4>3. \A m \in 1 .. R : m > n - k => events'[m].pod # q
        BY <1>2, <1>3, <2>2, <4>2
      <4> QED  BY <2>2, <4>1, <4>3
    <3> QED  BY <3>1, <3>2
  <2>3. \/ store[q] = pods[q] /\ \A n \in 1 .. k + R : events[n].pod # q
        \/ \E n \in 1 .. k + R :
             /\ events[n].pod = q /\ events[n].state = pods[q]
             /\ \A m \in 1 .. k + R : m > n => events[m].pod # q
    BY <1>1 DEF Chain, EventsLeadToPods
  <2> QED  BY <2>1, <2>2, <2>3
<1>23. \A q \in Pods : Noted(q)' => Noted(q) \/ store'[q] # store[q]
  <2> SUFFICES ASSUME NEW q \in Pods, NEW n \in 1 .. M + K, notes'[n].pod = q
               PROVE  Noted(q) \/ store'[q] # store[q]
    BY <1>6 DEF Noted
  <2> QED  BY <1>4, <1>5, <1>6, <1>7 DEF Noted
<1>24. LivesOnce'
  <2> SUFFICES ASSUME NEW n \in 1 .. R, NEW q \in Pods, q = events'[n].pod
      PROVE /\ events'[n].state = "active" =>
                 /\ store'[q] = "none" /\ ~Noted(q)'
                 /\ \A m \in 1 .. R : m < n => events'[m].pod # q
            /\ events'[n].state # "active" =>
                 /\ pods[q] # "active"
                 /\ store'[q] = "none" => Born(q)'
            /\ events'[n].state = "none" =>
                 /\ pods[q] = "none"
                 /\ \A m \in 1 .. R : m > n => events'[m].pod # q
    <3>1. \A i \in 1 .. R : events'[i].pod \in Pods
      BY <1>1, <1>2, <1>3, SequenceTypes
    <3> QED  BY <1>2, <3>1 DEF LivesOnce
  <2>1. n + k \in 1 .. k + R /\ n + k > k /\ events'[n] = events[n + k]
    BY <1>2, <1>3
  <2>2. /\ events[n + k].state = "active" =>
             /\ store[q] = "none" /\ ~Noted(q)
             /\ \A m \in 1 .. k + R : m < n + k => events[m].pod # q
        /\ events[n + k].state # "active" => pods[q] # "active" /\ (store[q] = "none" => Born(q))
        /\ events[n + k].state = "none" =>
             pods[q] = "none" /\ \A m \in 1 .. k + R : m > n + k => events[m].pod # q
    BY <1>1, <2>1 DEF Chain, LivesOnce
  <2>3. \A m \in 1 .. R : (m < n => m + k < n + k) /\ (m > n => m + k > n + k)
    BY <1>1
  <2>4. events[n + k].state = "active" => ~Touched(q)
    BY <1>1, <1>3, <2>1, <2>2
  <2>5. Touched(q) => store'[q] # "none"
    <3> SUFFICES ASSUME NEW c \in 1 .. k, events[c].pod = q, events[c].state = "none"
                 PROVE  FALSE
      BY <1>10
    <3>1. n + k > c
      BY <1>1, <2>1
    <3> QED  BY <1>15, <2>1, <3>1
  <2>6. \A m \in 1 .. R : m + k \in 1 .. k + R /\ events'[m] = events[m + k]
    BY <1>2, <1>3
  <2>7. ~Touched(q) => store'[q] = store[q]
    BY <1>10
  <2>8. CASE events'[n].state = "active"
    BY <1>23, <2>1, <2>2, <2>3, <2>4, <2>6, <2>7, <2>8
  <2>9. CASE events'[n].state # "active"
    BY <1>13, <2>1, <2>2, <2>3, <2>5, <2>6, <2>7, <2>9
  <2> QED  BY <2>8, <2>9
<1>25. KnownOrBorn'
  <2> SUFFICES ASSUME NEW q \in Pods
      PROVE /\ pods[q] # "none" => store'[q] # "none" \/ Born(q)'
            /\ pods[q] = "active" => store'[q] = "active" \/ Born(q)'
    BY DEF KnownOrBorn
  <2>1. CASE ~Touched(q) /\ store'[q] = store[q]
    BY <1>13, <2>1 DEF Chain, KnownOrBorn
  <2>2. CASE \E c \in 1 .. k : events[c].pod = q /\ store'[q] = events[c].state
    BY <1>15, <2>2
  <2> QED  BY <1>10, <2>1, <2>2
<1>26. NotesInOrder'
  <2> SUFFICES ASSUME NEW n \in 1 .. M + K
      PROVE /\ notes'[n].type = "add" =>
                 \A m \in 1 .. M + K : m < n => notes'[m].pod # notes'[n].pod
            /\ notes'[n].type = "delete" => notes'[n].state = "none"
            /\ notes'[n].state # "active" => store'[notes'[n].pod] # "active"
    BY <1>6 DEF NotesInOrder
  <2>1. CASE n \in 1 .. M
    <3>1. \A m \in 1 .. M + K : m < n => m \in 1 .. M
      BY <2>1
    <3>2. /\ notes[n].type = "add" => \A m \in 1 .. M : m < n => notes[m].pod # notes[n].pod
          /\ notes[n].type = "delete" => notes[n].state = "none"
          /\ notes[n].state # "active" => store[notes[n].pod] # "active"
      BY <1>5, <2>1 DEF Chain, NotesInOrder
    <3>3. notes[n].pod \in Pods /\ Noted(notes[n].pod)
      BY <1>5, <2>1, SequenceTypes DEF Noted
    <3>4. notes[n].state # "active" => store'[notes[n].pod] # "active"
      BY <1>18, <3>2, <3>3
    <3> QED  BY <1>6, <2>1, <3>1, <3>2, <3>4
  <2>2. CASE n \in M + 1 .. M + K
    <3>1. n - M \in 1 .. K /\ notes'[n] = ns[n - M]
      BY <1>6, <2>2
    <3>2. ASSUME notes'[n].type = "add", NEW m \in 1 .. M + K, m < n
          PROVE  notes'[m].pod # notes'[n].pod
      <4>1. Born(ns[n - M].pod) /\ ns[n - M].pod \in Pods
        BY <1>19, <3>1, <3>2
      <4>2. CASE m \in 1 .. M
        BY <1>5, <1>6, <1>14, <3>1, <4>1, <4>2 DEF Noted
      <4>3. CASE m \in M + 1 .. M + K
        <5>1. m - M \in 1 .. K /\ notes'[m] = ns[m - M] /\ m - M # n - M
          BY <1>6, <3>2, <4>3
        <5> QED  BY <1>4, <1>5, <3>1, <5>1
      <4> QED  BY <1>7, <4>2, <4>3
    <3> QED  BY <1>19, <3>1, <3>2
  <2> QED  BY <1>7, <2>1, <2>2
<1> QED  BY <1>20, <1>21, <1>22, <1>24, <1>25, <1>26 DEF Chain

\* The handler takes the oldest notification.
LEMMA HandleChain ==
  ASSUME TypeOK, Chain, notes # <<>>, notes' = Tail(notes), UNCHANGED <<pods, events, store>>
  PROVE  /\ Chain'
         /\ Unseen' = IF Head(notes).type = "add" THEN Unseen \ {Head(notes).pod} ELSE Unseen
         /\ \A q \in Pods : Visible(q)' <=> Visible(q)
         /\ Head(notes).pod \in Pods
         /\ Head(notes).type = "add" => Head(notes).pod \in Unseen
         /\ Head(notes).state = "terminating" \/ Head(notes).type = "delete" => ~Visible(Head(notes).pod)
<1>0. Len(notes) \in Nat /\ Len(notes) # 0
  BY SequenceTypes
<1>1. PICK M \in Nat : Len(notes) = M + 1
  <2>1. Len(notes) - 1 \in Nat /\ Len(notes) = (Len(notes) - 1) + 1
    BY <1>0
  <2> QED  BY <2>1
<1>2. /\ Len(notes') = M /\ Head(notes) = notes[1]
      /\ \A n \in 1 .. M : notes'[n] = notes[n + 1]
  <2> HIDE DEF Notification
  <2> QED  BY <1>1, SequenceTypes
<1>3. /\ 1 \in 1 .. M + 1
      /\ \A n \in 1 .. M : n + 1 \in 1 .. M + 1 /\ n + 1 > 1
      /\ \A n \in 1 .. M + 1 : n = 1 \/ (n - 1 \in 1 .. M /\ notes[n] = notes'[n - 1])
  BY <1>2
<1>4. PICK p \in Pods : p = notes[1].pod
  BY <1>1, <1>3, SequenceTypes
<1>5. \A n \in 1 .. M + 1 :
        /\ notes[n].type = "add" => \A m \in 1 .. M + 1 : m < n => notes[m].pod # notes[n].pod
        /\ notes[n].type = "delete" => notes[n].state = "none"
        /\ notes[n].state # "active" => store[notes[n].pod] # "active"
  BY <1>1 DEF Chain, NotesInOrder
<1>6. \A q \in Pods : /\ Noted(q)' => Noted(q)
                      /\ Born(q)' <=> Born(q)
                      /\ Visible(q)' <=> Visible(q)
                      /\ Born(q) => ~Noted(q)
  <2>1. \A q \in Pods : Noted(q)' => Noted(q)
    BY <1>1, <1>2, <1>3 DEF Noted
  <2>2. \A q \in Pods : Born(q)' <=> Born(q)
    BY DEF Born
  <2>3. \A q \in Pods : Visible(q)' <=> Visible(q)
    BY <2>2 DEF Visible
  <2>4. \A q \in Pods : Born(q) => ~Noted(q)
    BY DEF Chain, LivesOnce, Born
  <2> QED  BY <2>1, <2>2, <2>3, <2>4
<1>7. Noted(p)
  BY <1>1, <1>3, <1>4 DEF Noted
<1>8. \A n \in 1 .. M : notes'[n].type = "add" => notes'[n].pod # p
  BY <1>2, <1>3, <1>4, <1>5
<1>9. Unseen' = IF notes[1].type = "add" THEN Unseen \ {p} ELSE Unseen
  <2> DEFINE Added(q) == \E n \in 1 .. Len(notes) : notes[n].pod = q /\ notes[n].type = "add"
  <2>a. \A q : Added(q) <=> \E n \in 1 .. M + 1 : notes[n].pod = q /\ notes[n].type = "add"
    BY <1>1
  <2>b. \A q : Added(q)' <=> \E n \in 1 .. M : notes'[n].pod = q /\ notes'[n].type = "add"
    BY <1>2
  <2> HIDE DEF Added
  <2>1. ASSUME NEW q \in Pods, q # p \/ notes[1].type # "add" PROVE Added(q)' <=> Added(q)
    <3>1. ASSUME NEW n \in 1 .. M, notes'[n].pod = q, notes'[n].type = "add" PROVE Added(q)
      BY <1>2, <1>3, <2>a, <3>1
    <3>2. ASSUME NEW n \in 1 .. M + 1, notes[n].pod = q, notes[n].type = "add" PROVE Added(q)'
      <4>1. n - 1 \in 1 .. M /\ notes[n] = notes'[n - 1]
        BY <1>3, <1>4, <2>1, <3>2
      <4> QED  BY <2>b, <3>2, <4>1
    <3> QED  BY <2>a, <2>b, <3>1, <3>2
  <2>2. ~Added(p)' /\ ~Born(p)
    BY <1>6, <1>7, <1>8, <2>b
  <2>3. notes[1].type # "add" => ~Added(p)
    BY <2>1, <2>2
  <2>4. \A q \in Pods : Born(q)' \/ Added(q)' <=>
                          (Born(q) \/ Added(q)) /\ (notes[1].type = "add" => q # p)
    BY <1>6, <2>1, <2>2, <2>3
  <2> QED  BY <2>4 DEF Unseen, Added
<1>10. notes[1].type = "add" => p \in Unseen
  BY <1>1, <1>3, <1>4 DEF Unseen
<1>11. notes[1].state = "terminating" \/ notes[1].type = "delete" => ~Visible(p)
  BY <1>3, <1>4, <1>5, <1>6, <1>7 DEF Visible
<1>12. EventsLeadToPods' /\ KnownOrBorn'
  BY DEF Chain, EventsLeadToPods, KnownOrBorn, Born
<1>13. LivesOnce'
  <2> SUFFICES ASSUME NEW n \in 1 .. Len(events), events[n].state = "active"
               PROVE  ~Noted(events[n].pod)'
    BY DEF Chain, LivesOnce, Born
  <2>1. PICK q \in Pods : q = events[n].pod
    BY SequenceTypes
  <2>2. ~Noted(q)
    BY <2>1 DEF Chain, LivesOnce
  <2>3. ~Noted(q)'
    BY <1>6, <2>2
  <2> QED  BY <2>1, <2>3 DEF Noted
<1>14. NotesInOrder'
  <2> SUFFICES ASSUME NEW n \in 1 .. M
      PROVE /\ notes'[n].type = "add" =>
                 \A m \in 1 .. M : m < n => notes'[m].pod # notes'[n].pod
            /\ notes'[n].type = "delete" => notes'[n].state = "none"
            /\ notes'[n].state # "active" => store[notes'[n].pod] # "active"
    BY <1>2 DEF NotesInOrder
  <2>1. \A m \in 1 .. M : m < n => m + 1 < n + 1
    OBVIOUS
  <2> QED  BY <1>2, <1>3, <1>5, <2>1
<1> QED  BY <1>2, <1>4, <1>6, <1>9, <1>10, <1>11, <1>12, <1>13, <1>14 DEF Chain

-----------------------------------------------------------------------------
(* Every step keeps what is sure.                                          *)

\* Counting pods.
LEMMA Counts ==
  ASSUME NEW S, NEW T, S \subseteq Pods, T \subseteq Pods
  PROVE  /\ Cardinality(S) \in Nat /\ Cardinality(T) \in Nat
         /\ S \subseteq T => Cardinality(S) <= Cardinality(T)
         /\ \A p : S \subseteq T \cup {p} => Cardinality(S) <= Cardinality(T) + 1
         /\ \A p : p \in S => Cardinality(S \ {p}) = Cardinality(S) - 1
         /\ Cardinality(S) = 0 <=> S = {}
<1>1. IsFiniteSet(S) /\ IsFiniteSet(T) /\ Cardinality(S) \in Nat /\ Cardinality(T) \in Nat
  BY PodSets
<1>2. S \subseteq T => Cardinality(S) <= Cardinality(T)
  BY <1>1, FS_Subset
<1>3. ASSUME NEW p, S \subseteq T \cup {p} PROVE Cardinality(S) <= Cardinality(T) + 1
  <2>1. IsFiniteSet(T \cup {p}) /\ Cardinality(T \cup {p}) <= Cardinality(T) + 1
        /\ Cardinality(T \cup {p}) \in Nat
    <3>1. /\ IsFiniteSet(T \cup {p})
          /\ Cardinality(T \cup {p}) = IF p \in T THEN Cardinality(T) ELSE Cardinality(T) + 1
      BY <1>1, FS_AddElement
    <3> QED  BY <1>1, <3>1
  <2>2. Cardinality(S) <= Cardinality(T \cup {p})
    BY <1>3, <2>1, FS_Subset
  <2> QED  BY <1>1, <2>1, <2>2
<1>4. \A p : p \in S => Cardinality(S \ {p}) = Cardinality(S) - 1
  BY <1>1, FS_RemoveElement
<1>5. Cardinality(S) = 0 <=> S = {}
  BY <1>1, FS_EmptySet
<1> QED  BY <1>1, <1>2, <1>3, <1>4, <1>5

\* The sets of the invariant are sets of pods.
LEMMA SetsOfPods ==
  ASSUME TypeOK
  PROVE  /\ Unseen \subseteq Pods /\ Lost \subseteq Pods /\ uids \subseteq Pods
         /\ deletes \subseteq Pods /\ filteredPods \subseteq Pods /\ Active(pods) \subseteq Pods
         /\ Active(store) \subseteq Pods
         /\ creates \in Nat /\ killed \in Nat /\ want \in Nat
         /\ expectations.add \in Int /\ expectations.del \in Int
         /\ expectations \in [set : BOOLEAN, add : Int, del : Int, expired : BOOLEAN]
BY Sizes DEF TypeOK, Unseen, Lost, Active

\* A step that changes neither pods nor what is heard of them.
LEMMA SameChain ==
  ASSUME Chain, UNCHANGED <<pods, events, store, notes>>
  PROVE  Chain' /\ Unseen' = Unseen /\ \A q \in Pods : Visible(q)' <=> Visible(q)
<1>1. \A q : (Born(q)' <=> Born(q)) /\ (Noted(q)' <=> Noted(q))
  BY DEF Born, Noted
<1>2. Unseen' = Unseen /\ \A q \in Pods : Visible(q)' <=> Visible(q)
  BY <1>1 DEF Unseen, Visible
<1>3. EventsLeadToPods' /\ NotesInOrder' /\ KnownOrBorn'
  BY <1>1 DEF Chain, EventsLeadToPods, NotesInOrder, KnownOrBorn
<1>4. LivesOnce'
  BY DEF Chain, LivesOnce, Born, Noted
<1> QED  BY <1>2, <1>3, <1>4 DEF Chain

\* Handlers and writes of the replica set itself.
LEMMA QuietStep ==
  ASSUME Typed, Sure, UNCHANGED <<pods, informer, expvars, at, locals, history>>, exists' => exists
  PROVE  Sure'
<1> USE DEF Sure, informer, expvars, locals, history
<1>1. Chain' /\ Unseen' = Unseen /\ \A q \in Pods : Visible(q)' <=> Visible(q)
  BY SameChain
<1>2. Deleting' = Deleting /\ Active(pods)' = Active(pods)
  BY DEF Deleting, Active
<1>3. Lost' = Lost
  BY <1>1, <1>2 DEF Lost
<1>4. CreationsCounted' /\ SyncSeesAll' /\ ListIsGood' /\ LossCounted'
  BY <1>1, <1>2, <1>3 DEF CreationsCounted, SyncSeesAll, ListIsGood, LossCounted
<1>5. DeletionsCounted'
  <2>1. deletes \subseteq Pods
    BY SetsOfPods DEF Typed
  <2> QED  BY <1>1, <2>1 DEF DeletionsCounted
<1>6. NoSurplus' /\ NoShortage'
  BY <1>2 DEF NoSurplus, NoShortage
<1> QED  BY <1>1, <1>4, <1>5, <1>6

\* A sync begins; it may act only when all earlier syncs have been seen.
LEMMA StartSyncStep ==
  ASSUME Typed, Sure, StartSync
  PROVE  Sure'
<1> USE DEF Sure
<1>1. /\ at = "idle" /\ UNCHANGED <<pods, informer, exists, killed, unsure>>
      /\ creates = 0 /\ deletes = {}
  BY DEF StartSync, Typed, rsvars, history
<1>2. Chain' /\ Unseen' = Unseen /\ \A q \in Pods : Visible(q)' <=> Visible(q)
  BY <1>1, SameChain DEF informer
<1>3. CASE ~exists
  <2>1. /\ expectations' = None /\ uids' = {} /\ at' = at /\ creates' = 0 /\ deletes' = {}
    BY <1>1, <1>3 DEF StartSync, DeleteExpectations, locals
  <2>2. CreationsCounted' /\ LossCounted' /\ SyncSeesAll' /\ ListIsGood' /\ NoSurplus' /\ NoShortage'
    BY <1>1, <1>3, <2>1 DEF CreationsCounted, LossCounted, SyncSeesAll, ListIsGood, NoSurplus, NoShortage
  <2>3. DeletionsCounted'
    BY <2>1 DEF DeletionsCounted, None
  <2> QED  BY <1>2, <2>2, <2>3
<1>4. CASE exists
  <2>1. /\ at' = "list" /\ (needsSync' => SatisfiedExpectations) /\ creates' = 0 /\ deletes' = {}
        /\ expectations' = expectations /\ uids' = uids
    BY <1>1, <1>4 DEF StartSync, expvars
  <2>2. Deleting' = Deleting
    BY <1>1, <2>1 DEF Deleting
  <2>3. Lost' = Lost
    BY <1>1, <1>2, <2>2 DEF Lost
  <2>4. CreationsCounted' /\ LossCounted' /\ ListIsGood' /\ NoSurplus' /\ NoShortage'
    BY <1>1, <1>2, <1>4, <2>1, <2>3 DEF CreationsCounted, LossCounted, ListIsGood, NoSurplus, NoShortage
  <2>5. DeletionsCounted'
    BY <1>1, <2>1 DEF DeletionsCounted
  <2>6. ASSUME SatisfiedExpectations PROVE Unseen = {} /\ Deleting = {}
    <3>1. CASE ~expectations.set \/ expectations.expired
      BY <1>4, <3>1 DEF CreationsCounted, Deleting
    <3>2. CASE expectations.set /\ ~expectations.expired /\ Fulfilled
      <4>1. Cardinality(Unseen) <= 0 /\ ~(expectations.del > 0)
        BY <1>1, <1>4, <3>2, SetsOfPods, Counts DEF CreationsCounted, Fulfilled, Typed
      <4>2. Unseen = {}
        BY <4>1, SetsOfPods, Counts DEF Typed
      <4> QED  BY <4>1, <4>2 DEF Deleting
    <3> QED  BY <2>6, <3>1, <3>2 DEF SatisfiedExpectations
  <2>7. SyncSeesAll'
    BY <1>2, <2>1, <2>2, <2>6 DEF SyncSeesAll
  <2> QED  BY <1>2, <2>4, <2>5, <2>7
<1> QED  BY <1>3, <1>4

\* The pods are listed.
LEMMA ListPodsStep ==
  ASSUME Typed, Sure, ListPods
  PROVE  Sure'
<1> USE DEF Sure
<1>1. /\ at = "list" /\ at' = "manage" /\ filteredPods' = Active(store)
      /\ UNCHANGED <<pods, informer, exists, expvars, want, needsSync, creates, deletes, killed, unsure>>
      /\ creates = 0 /\ deletes = {}
  BY DEF ListPods, Typed, rsvars, history
<1>2. Chain' /\ Unseen' = Unseen /\ \A q \in Pods : Visible(q)' <=> Visible(q)
  BY <1>1, SameChain DEF informer
<1>3. Deleting' = Deleting
  BY <1>1 DEF Deleting, expvars
<1>4. Lost' = Lost
  BY <1>1, <1>2, <1>3 DEF Lost
<1>5. CreationsCounted' /\ LossCounted' /\ SyncSeesAll' /\ NoSurplus' /\ NoShortage' /\ DeletionsCounted'
  BY <1>1, <1>2, <1>3, <1>4
     DEF CreationsCounted, LossCounted, SyncSeesAll, NoSurplus, NoShortage, DeletionsCounted, expvars
<1>6. ASSUME needsSync
      PROVE  /\ Active(pods) \subseteq Active(store)
             /\ Cardinality(Active(store) \ Active(pods)) <= killed
  <2>1. Unseen = {} /\ Deleting = {}
    BY <1>1, <1>6 DEF SyncSeesAll
  <2>2. Active(pods) \subseteq Active(store)
    BY <2>1 DEF Active, Chain, KnownOrBorn, Unseen
  <2>3. Active(store) \ Active(pods) \subseteq Lost
    BY <2>1 DEF Active, Lost, Visible
  <2>4. Cardinality(Lost) <= killed /\ Cardinality(Lost) \in Nat /\ killed \in Nat
    BY <1>1, SetsOfPods, Counts DEF LossCounted, Typed
  <2>5. Cardinality(Active(store) \ Active(pods)) \in Nat
        /\ Cardinality(Active(store) \ Active(pods)) <= Cardinality(Lost)
    BY <2>3, SetsOfPods, Counts DEF Typed
  <2> QED  BY <2>2, <2>4, <2>5
<1>7. Active(pods)' = Active(pods)
  BY <1>1 DEF Active
<1>8. ListIsGood'
  BY <1>1, <1>6, <1>7 DEF ListIsGood
<1> QED  BY <1>2, <1>5, <1>8

\* manageReplicas sets out: it creates or deletes no more than the difference
\* between what is wanted and what there is.
LEMMA ManageStep ==
  ASSUME Typed, Sure, Manage
  PROVE  Sure'
<1> USE DEF Sure
<1>1. /\ at = "manage" /\ at' = "call" /\ creates = 0 /\ deletes = {}
      /\ UNCHANGED <<pods, informer, exists, want, needsSync, filteredPods, killed, unsure>>
  BY DEF Manage, Typed, rsvars, history
<1>2. Chain' /\ Unseen' = Unseen /\ \A q \in Pods : Visible(q)' <=> Visible(q)
  BY <1>1, SameChain DEF informer
<1>3. SyncSeesAll' /\ ListIsGood'
  BY <1>1 DEF SyncSeesAll, ListIsGood
<1>4. Active(pods)' = Active(pods)
  BY <1>1 DEF Active
<1>5. /\ Cardinality(Lost) <= killed
      /\ Cardinality(Lost) \in Nat /\ killed \in Nat /\ want \in Nat /\ Cardinality(filteredPods) \in Nat
      /\ burstReplicas \in Nat \ {0}
  BY <1>1, Sizes, SetsOfPods, Counts DEF LossCounted, Typed
<1>6. ASSUME Deleting' = Deleting PROVE LossCounted'
  <2>1. Lost' = Lost
    BY <1>1, <1>2, <1>6 DEF Lost
  <2> QED  BY <1>1, <1>5, <2>1 DEF LossCounted
<1> DEFINE diff == Cardinality(filteredPods) - want
<1>7. CASE UNCHANGED <<creates, deletes, expvars>>
  <2>1. LossCounted'
    BY <1>6, <1>7 DEF Deleting, expvars
  <2>2. CreationsCounted' /\ DeletionsCounted' /\ NoSurplus' /\ NoShortage'
    BY <1>1, <1>2, <1>7 DEF CreationsCounted, DeletionsCounted, NoSurplus, NoShortage, expvars
  <2> QED  BY <1>2, <1>3, <2>1, <2>2
<1>8. ASSUME needsSync
      PROVE  /\ Unseen = {} /\ Deleting = {} /\ Cardinality(Unseen) = 0
             /\ Active(pods) \subseteq filteredPods
             /\ Cardinality(filteredPods \ Active(pods)) <= killed
  BY <1>1, <1>8, FS_EmptySet DEF SyncSeesAll, ListIsGood
<1>9. CASE needsSync /\ diff < 0
  <2>1. /\ creates' = AtMostBurst(-diff) /\ uids' = uids /\ deletes' = deletes
        /\ expectations' = [set |-> TRUE, add |-> creates', del |-> 0, expired |-> FALSE]
    BY <1>5, <1>9 DEF Manage, manageReplicas, ExpectCreations, SetExpectations
  <2>2. creates' \in Nat /\ creates' <= want - Cardinality(filteredPods)
    BY <1>5, <1>9, <2>1 DEF AtMostBurst
  <2>3. CreationsCounted'
    BY <1>2, <1>8, <1>9, <2>1, <2>2 DEF CreationsCounted
  <2>4. Deleting' = {}
    BY <2>1 DEF Deleting
  <2>5. LossCounted'
    BY <1>6, <1>8, <1>9, <2>4
  <2>6. DeletionsCounted' /\ NoShortage'
    BY <1>1, <2>1 DEF DeletionsCounted, NoShortage
  <2>7. Cardinality(Active(pods)) <= Cardinality(filteredPods) /\ Cardinality(Active(pods)) \in Nat
    BY <1>8, <1>9, SetsOfPods, Counts DEF Typed
  <2>8. NoSurplus'
    BY <1>1, <1>4, <1>5, <2>2, <2>7 DEF NoSurplus
  <2> QED  BY <1>2, <1>3, <2>3, <2>5, <2>6, <2>8
<1>10. CASE needsSync /\ diff > 0
  <2>1. PICK S \in SUBSET filteredPods :
          /\ Cardinality(S) = AtMostBurst(diff) /\ deletes' = S /\ uids' = S /\ creates' = creates
          /\ expectations' = [set |-> TRUE, add |-> 0, del |-> Cardinality(S), expired |-> FALSE]
    BY <1>5, <1>10 DEF Manage, manageReplicas, ExpectDeletions, SetExpectations
  <2>2. Deleting' = {}
    BY <2>1 DEF Deleting
  <2>3. LossCounted'
    BY <1>6, <1>8, <1>10, <2>2
  <2>4. CreationsCounted' /\ NoSurplus'
    BY <1>1, <1>2, <1>8, <1>10, <2>1 DEF CreationsCounted, NoSurplus
  <2>5. DeletionsCounted'
    BY <2>1 DEF DeletionsCounted
  <2>6. Cardinality(Active(pods) \ S) + killed >= want
    <3>0. filteredPods \subseteq Pods /\ Active(pods) \subseteq Pods
      BY SetsOfPods DEF Typed
    <3> DEFINE A == Active(pods)
    <3> HIDE DEF A
    <3>1. A \subseteq Pods
      BY <3>0 DEF A
    <3>2. /\ IsFiniteSet(filteredPods) /\ IsFiniteSet(A \ S) /\ IsFiniteSet(filteredPods \ A)
          /\ IsFiniteSet(filteredPods \ S) /\ IsFiniteSet((A \ S) \cup (filteredPods \ A))
          /\ Cardinality(A \ S) \in Nat /\ Cardinality(filteredPods \ A) \in Nat
          /\ Cardinality(filteredPods \ S) \in Nat /\ Cardinality((A \ S) \cup (filteredPods \ A)) \in Nat
      BY <3>0, <3>1, PodSets
    <3>3. filteredPods \cap S = S
      OBVIOUS
    <3>4. Cardinality(filteredPods \ S) = Cardinality(filteredPods) - Cardinality(S)
      BY <3>2, <3>3, FS_Difference
    <3>5. Cardinality(filteredPods \ S) >= want
      BY <1>5, <1>10, <2>1, <3>4 DEF AtMostBurst
    <3>6. Cardinality(filteredPods \ S) <= Cardinality((A \ S) \cup (filteredPods \ A))
      <4>1. filteredPods \ S \in SUBSET ((A \ S) \cup (filteredPods \ A))
        OBVIOUS
      <4> QED  BY <3>2, <4>1, FS_Subset
    <3>7. (A \ S) \cap (filteredPods \ A) = {}
      OBVIOUS
    <3>8. Cardinality((A \ S) \cup (filteredPods \ A)) = Cardinality(A \ S) + Cardinality(filteredPods \ A)
      <4>1. Cardinality((A \ S) \cup (filteredPods \ A))
              = Cardinality(A \ S) + Cardinality(filteredPods \ A)
                - Cardinality((A \ S) \cap (filteredPods \ A))
        BY <3>2, FS_Union
      <4>2. Cardinality((A \ S) \cap (filteredPods \ A)) = 0
        BY <3>7, FS_EmptySet
      <4> QED  BY <3>2, <4>1, <4>2
    <3>9. Cardinality(filteredPods \ A) <= killed
      BY <1>8, <1>10 DEF A
    <3>10. Cardinality(A \ S) + killed >= want
      BY <1>5, <3>2, <3>5, <3>6, <3>8, <3>9
    <3> QED  BY <3>10 DEF A
  <2>7. NoShortage'
    BY <1>1, <1>4, <2>1, <2>6 DEF NoShortage
  <2> QED  BY <1>2, <1>3, <2>3, <2>4, <2>5, <2>7
<1>11. CASE needsSync /\ diff = 0
  BY <1>5, <1>7, <1>11 DEF Manage, manageReplicas
<1>12. CASE ~needsSync
  BY <1>7, <1>12 DEF Manage
<1> QED  BY <1>5, <1>9, <1>10, <1>11, <1>12

\* A pod is created, or the call fails.
LEMMA CreatePodStep ==
  ASSUME Typed, Sure, ~unsure', CreatePod
  PROVE  Sure'
<1> USE DEF Sure
<1>1. /\ at = "call" /\ at' = "call" /\ creates > 0 /\ creates' = creates - 1
      /\ UNCHANGED <<exists, store, notes, want, needsSync, filteredPods, deletes, killed>>
  BY DEF CreatePod, rsvars
<1>2. /\ deletes \subseteq filteredPods /\ creates \in Nat /\ killed \in Nat /\ want \in Nat
      /\ expectations \in [set : BOOLEAN, add : Int, del : Int, expired : BOOLEAN]
  BY SetsOfPods DEF Typed, TypeOK
<1>3. SyncSeesAll' /\ ListIsGood'
  BY <1>1 DEF SyncSeesAll, ListIsGood
<1>4. exists => expectations.set /\ ~expectations.expired
                /\ creates + Cardinality(Unseen) <= expectations.add
  BY <1>1, <1>2 DEF CreationsCounted
<1>5. ~unsure
  BY DEF CreatePod, Fails
<1>6. CASE NewPod /\ UNCHANGED expvars
  <2>1. PICK p \in Fresh : Becomes(p, "active")
    <3>1. Fresh \in SUBSET Nat /\ Fresh # {}
      BY <1>6, Sizes DEF Fresh, Pods, NewPod
    <3>2. (CHOOSE p \in Fresh : \A q \in Fresh : p <= q) \in Fresh
      BY <3>1, LeastExists
    <3> QED  BY <1>6, <3>2 DEF NewPod
  <2>2. /\ Chain' /\ Unseen' = Unseen \cup {p}
        /\ \A q \in Pods : Born(q)' <=> Born(q) \/ q = p
    BY <1>1, <2>1, BirthChain DEF Typed
  <2>3. p \in Pods /\ p \notin deletes /\ "active" \in States /\ pods[p] = "none"
    BY <1>2 DEF Fresh, States
  <2>4. pods'[p] = "active" /\ \A q \in Pods \ {p} : pods'[q] = pods[q]
    BY <2>1, <2>3, BecomesAppends DEF Typed
  <2>5. Deleting' = Deleting
    BY <1>1, <1>6 DEF Deleting, expvars
  <2>6. \A q \in Pods : q # p => (Visible(q)' <=> Visible(q))
    BY <1>1, <2>2 DEF Visible
  <2>7. Lost' \subseteq Lost
    BY <2>4, <2>5, <2>6 DEF Lost
  <2>8. LossCounted'
    <3>1. Cardinality(Lost) <= killed
      BY <1>1 DEF LossCounted
    <3>2. Cardinality(Lost') <= Cardinality(Lost) /\ Cardinality(Lost') \in Nat /\ Cardinality(Lost) \in Nat
      BY <2>7, SetsOfPods, Counts DEF Typed
    <3> QED  BY <1>1, <1>2, <3>1, <3>2 DEF LossCounted
  <2>9. DeletionsCounted'
    <3>1. \A q \in deletes : q \in Pods /\ q # p
      BY <2>3, SetsOfPods DEF Typed
    <3> QED  BY <1>1, <1>6, <2>6, <3>1 DEF DeletionsCounted, expvars
  <2>10. CreationsCounted'
    <3>1. /\ Cardinality(Unseen) \in Nat /\ Cardinality(Unseen') \in Nat
          /\ Cardinality(Unseen') <= Cardinality(Unseen) + 1
      <4>1. Unseen \subseteq Pods /\ Unseen' \subseteq Pods
        BY <2>2, <2>3, SetsOfPods DEF Typed
      <4> QED  BY <2>2, <4>1, Counts
    <3>2. expectations' = expectations
      BY <1>6 DEF expvars
    <3> QED  BY <1>1, <1>2, <1>4, <3>1, <3>2 DEF CreationsCounted
  <2>11. Active(pods)' = Active(pods) \cup {p}
    BY <2>3, <2>4 DEF Active
  <2>12. NoSurplus'
    <3>1. Cardinality(Active(pods)) + creates <= want
      BY <1>1, <1>5 DEF NoSurplus
    <3>2. /\ Cardinality(Active(pods)) \in Nat /\ Cardinality(Active(pods) \cup {p}) \in Nat
          /\ Cardinality(Active(pods) \cup {p}) <= Cardinality(Active(pods)) + 1
      <4>1. Active(pods) \subseteq Pods /\ Active(pods) \cup {p} \subseteq Pods
        BY <2>3 DEF Active
      <4> QED  BY <4>1, Counts
    <3> QED  BY <1>1, <1>2, <2>11, <3>1, <3>2 DEF NoSurplus
  <2>13. NoShortage'
    <3>1. /\ Cardinality(Active(pods) \ deletes) \in Nat
          /\ Cardinality((Active(pods) \cup {p}) \ deletes) \in Nat
          /\ Cardinality(Active(pods) \ deletes) <= Cardinality((Active(pods) \cup {p}) \ deletes)
      <4>1. Active(pods) \ deletes \subseteq Pods /\ (Active(pods) \cup {p}) \ deletes \subseteq Pods
            /\ Active(pods) \ deletes \subseteq (Active(pods) \cup {p}) \ deletes
        BY <2>3 DEF Active
      <4> QED  BY <4>1, Counts
    <3>2. deletes # {} => Cardinality(Active(pods) \ deletes) + killed >= want
      BY <1>5 DEF NoShortage
    <3> QED  BY <1>1, <1>2, <2>11, <3>1, <3>2 DEF NoShortage
  <2> QED  BY <1>3, <2>2, <2>8, <2>9, <2>10, <2>12, <2>13
<1>7. CASE UNCHANGED <<pods, events>> /\ CreationObserved
  <2>1. Chain' /\ Unseen' = Unseen /\ \A q \in Pods : Visible(q)' <=> Visible(q)
    BY <1>1, <1>7, SameChain
  <2>2. /\ uids' = uids /\ expectations'.set = expectations.set /\ expectations'.del = expectations.del
        /\ expectations'.expired = expectations.expired
        /\ expectations.set => expectations'.add = expectations.add - 1
    BY <1>2, <1>7 DEF CreationObserved
  <2>3. Deleting' = Deleting
    BY <1>1, <2>2 DEF Deleting
  <2>4. Lost' = Lost
    BY <1>7, <2>1, <2>3 DEF Lost
  <2>5. LossCounted'
    BY <1>1, <2>4 DEF LossCounted
  <2>6. DeletionsCounted'
    <3>1. deletes \subseteq Pods
      BY SetsOfPods DEF Typed
    <3> QED  BY <1>1, <2>1, <2>2, <3>1 DEF DeletionsCounted
  <2>7. CreationsCounted'
    <3>1. Cardinality(Unseen) \in Nat
      BY SetsOfPods, Counts DEF Typed
    <3> QED  BY <1>1, <1>2, <1>4, <2>1, <2>2, <3>1 DEF CreationsCounted
  <2>8. NoSurplus' /\ NoShortage'
    <3>1. Active(pods)' = Active(pods) /\ Cardinality(Active(pods)) \in Nat
      BY <1>7, SetsOfPods, Counts DEF Active, Typed
    <3> QED  BY <1>1, <1>2, <1>5, <3>1 DEF NoSurplus, NoShortage
  <2> QED  BY <1>3, <2>1, <2>5, <2>6, <2>7, <2>8
<1> QED  BY <1>6, <1>7 DEF CreatePod, Fails

\* What DeletionObserved does to the sets of the invariant.
LEMMA DeletionObservedEffect ==
  ASSUME Typed, DeletionsCounted, NEW p \in Pods, DeletionObserved(p)
  PROVE  /\ expectations'.set = expectations.set /\ expectations'.expired = expectations.expired
         /\ expectations'.add = expectations.add
         /\ uids' = uids \ {p}
         /\ expectations'.set /\ expectations'.del > 0 => expectations'.del = Cardinality(uids')
         /\ deletes # {} => expectations'.del = Cardinality(uids')
         /\ expectations.del <= 0 => expectations'.del <= 0
         /\ expectations.set /\ expectations.del > 0 /\ expectations'.del <= 0 => uids \subseteq {p}
<1>1. /\ expectations \in [set : BOOLEAN, add : Int, del : Int, expired : BOOLEAN]
      /\ uids \subseteq Pods /\ Cardinality(uids) \in Nat
      /\ ~expectations.set => uids = {}
  BY SetsOfPods, Counts DEF Typed, TypeOK
<1>2. CASE p \notin uids
  <2>1. expectations' = expectations /\ uids' = uids /\ uids \ {p} = uids
    BY <1>2 DEF DeletionObserved, expvars
  <2> QED  BY <1>1, <2>1 DEF DeletionsCounted
<1>3. CASE p \in uids
  <2>1. /\ expectations' = [expectations EXCEPT !.del = @ - 1] /\ uids' = uids \ {p}
        /\ expectations.set
    BY <1>1, <1>3 DEF DeletionObserved
  <2>2. Cardinality(uids \ {p}) = Cardinality(uids) - 1 /\ uids \ {p} \subseteq Pods
    BY <1>1, <1>3, Counts
  <2>3. Cardinality(uids \ {p}) = 0 => uids \subseteq {p}
    BY <2>2, Counts
  <2>4. /\ expectations'.set = expectations.set /\ expectations'.expired = expectations.expired
        /\ expectations'.add = expectations.add /\ expectations'.del = expectations.del - 1
        /\ expectations.del \in Int
    BY <1>1, <2>1
  <2>5. /\ expectations.del > 0 => expectations.del = Cardinality(uids)
        /\ deletes # {} => expectations.del = Cardinality(uids)
    BY <2>1 DEF DeletionsCounted
  <2>6. /\ expectations'.del > 0 => expectations'.del = Cardinality(uids')
        /\ deletes # {} => expectations'.del = Cardinality(uids')
        /\ expectations.del <= 0 => expectations'.del <= 0
        /\ expectations.del > 0 /\ expectations'.del <= 0 => uids \subseteq {p}
    <3> DEFINE d == expectations.del
               e == expectations'.del
               c == Cardinality(uids)
               f == Cardinality(uids \ {p})
    <3>1. /\ d \in Int /\ e = d - 1 /\ c \in Nat /\ f = c - 1 /\ (f = 0 => uids \subseteq {p})
          /\ (d > 0 => d = c) /\ (deletes # {} => d = c)
      BY <1>1, <2>2, <2>3, <2>4, <2>5
    <3>2. uids' = uids \ {p}
      BY <2>1
    <3> HIDE DEF c, d, e, f
    <3>3. /\ e > 0 => e = f
          /\ deletes # {} => e = f
          /\ d <= 0 => e <= 0
          /\ d > 0 /\ e <= 0 => uids \subseteq {p}
      BY <3>1
    <3> QED  BY <3>2, <3>3 DEF c, d, e, f
  <2> QED  BY <2>1, <2>4, <2>6
<1> QED  BY <1>2, <1>3

\* A pod is deleted, is not found, or the call fails.
LEMMA DeletePodStep ==
  ASSUME Typed, Sure, ~unsure', NEW p \in Pods, DeletePod(p)
  PROVE  Sure'
<1> USE DEF Sure
<1>1. /\ at = "call" /\ at' = "call" /\ p \in deletes /\ deletes' = deletes \ {p}
      /\ UNCHANGED <<exists, store, notes, want, needsSync, filteredPods, creates, killed>>
  BY DEF DeletePod, rsvars
<1>2. /\ deletes \subseteq Pods /\ creates \in Nat /\ killed \in Nat /\ want \in Nat
      /\ expectations \in [set : BOOLEAN, add : Int, del : Int, expired : BOOLEAN]
      /\ uids \subseteq Pods /\ Cardinality(uids) \in Nat /\ Cardinality(Active(pods)) \in Nat
      /\ Cardinality(Active(pods) \ deletes) \in Nat /\ Cardinality(Active(pods) \ deletes') \in Nat
  <2>1. Active(pods) \ deletes \subseteq Pods /\ Active(pods) \ deletes' \subseteq Pods
    BY DEF Active
  <2> QED  BY <2>1, SetsOfPods, Counts DEF Typed
<1>3. SyncSeesAll' /\ ListIsGood'
  BY <1>1 DEF SyncSeesAll, ListIsGood
<1>4. ~unsure
  BY DEF DeletePod, Fails
<1>5. /\ Cardinality(Active(pods) \ deletes) + killed >= want
      /\ expectations.set /\ ~expectations.expired /\ expectations.del = Cardinality(uids)
      /\ Cardinality(Lost) <= killed
  BY <1>1, <1>4 DEF NoShortage, DeletionsCounted, LossCounted
<1>6. ASSUME Lost' \subseteq Lost PROVE LossCounted'
  <2>1. Cardinality(Lost') <= Cardinality(Lost) /\ Cardinality(Lost') \in Nat /\ Cardinality(Lost) \in Nat
    BY <1>6, SetsOfPods, Counts DEF Typed
  <2> QED  BY <1>1, <1>2, <1>5, <2>1 DEF LossCounted
<1>7. ASSUME Active(pods)' \subseteq Active(pods), Active(pods) \ deletes \subseteq Active(pods)' \ deletes'
      PROVE  NoSurplus' /\ NoShortage'
  <2>1. /\ Active(pods)' \subseteq Pods /\ Active(pods) \subseteq Pods
        /\ Active(pods)' \ deletes' \subseteq Pods /\ Active(pods) \ deletes \subseteq Pods
    BY DEF Active
  <2>2. Cardinality(Active(pods)') <= Cardinality(Active(pods)) /\ Cardinality(Active(pods)') \in Nat
    BY <1>7, <2>1, Counts
  <2>3. Cardinality(Active(pods) \ deletes) <= Cardinality(Active(pods)' \ deletes')
        /\ Cardinality(Active(pods)' \ deletes') \in Nat
    BY <1>7, <2>1, Counts
  <2>4. creates > 0 => Cardinality(Active(pods)) + creates <= want
    BY <1>4 DEF NoSurplus
  <2> QED  BY <1>1, <1>2, <1>5, <2>2, <2>3, <2>4 DEF NoSurplus, NoShortage
<1>8. CASE UNCHANGED expvars /\ Delete(p)
  <2>1. /\ Chain' /\ Unseen' = Unseen /\ \A q \in Pods : Visible(q)' <=> Visible(q)
        /\ \A q \in Pods \ {p} : pods'[q] = pods[q]
        /\ pods'[p] # "active"
    <3>1. CASE pods[p] = "terminating" /\ UNCHANGED <<pods, events>>
      BY <1>1, <3>1, SameChain
    <3>2. CASE pods[p] \in {"active", "failed"} /\ \E s \in {"terminating", "none"} : Becomes(p, s)
      <4>1. PICK s \in {"terminating", "none"} : Becomes(p, s)
        BY <3>2
      <4>2. s \in States \ {"active"} /\ pods[p] # "none"
        BY <3>2 DEF States
      <4>3. Chain' /\ Unseen' = Unseen /\ \A q \in Pods : Born(q)' <=> Born(q)
        BY <1>1, <4>1, <4>2, EndsChain DEF Typed
      <4>4. pods'[p] = s /\ \A q \in Pods \ {p} : pods'[q] = pods[q]
        BY <4>1, <4>2, BecomesAppends DEF Typed
      <4> QED  BY <1>1, <4>2, <4>3, <4>4 DEF Visible
    <3> QED  BY <1>8, <3>1, <3>2 DEF Delete
  <2>2. expectations' = expectations /\ uids' = uids
    BY <1>8 DEF expvars
  <2>3. Visible(p) => p \in Deleting'
    <3>1. Visible(p) => p \in uids
      BY <1>1 DEF DeletionsCounted
    <3>2. p \in uids => Cardinality(uids) # 0
      BY <1>2, Counts
    <3> QED  BY <1>1, <1>2, <1>5, <2>2, <3>1, <3>2 DEF Deleting
  <2>4. Deleting \subseteq Deleting'
    BY <1>1, <2>2 DEF Deleting
  <2>5. Lost' \subseteq Lost
    BY <2>1, <2>3, <2>4 DEF Lost
  <2>6. Active(pods)' \subseteq Active(pods) /\ Active(pods) \ deletes \subseteq Active(pods)' \ deletes'
    BY <1>1, <2>1 DEF Active
  <2>7. DeletionsCounted'
    BY <1>1, <1>2, <1>5, <2>1, <2>2 DEF DeletionsCounted
  <2>8. CreationsCounted'
    BY <1>1, <2>1, <2>2 DEF CreationsCounted
  <2> QED  BY <1>3, <1>6, <1>7, <2>1, <2>5, <2>6, <2>7, <2>8
<1>9. CASE UNCHANGED <<pods, events>> /\ DeletionObserved(p)
  <2>1. Chain' /\ Unseen' = Unseen /\ \A q \in Pods : Visible(q)' <=> Visible(q)
    BY <1>1, <1>9, SameChain
  <2>2. /\ expectations'.set = expectations.set /\ expectations'.expired = expectations.expired
        /\ expectations'.add = expectations.add
        /\ uids' = uids \ {p} /\ expectations'.del = Cardinality(uids')
        /\ expectations.set /\ expectations.del > 0 /\ expectations'.del <= 0 => uids \subseteq {p}
    BY <1>1, <1>9, DeletionObservedEffect
  <2>3. expectations'.del \in Int
    <3>1. Cardinality(uids') \in Nat
      BY <1>2, <2>2, Counts
    <3> QED  BY <2>2, <3>1
  <2>4. Deleting \subseteq Deleting'
    BY <1>1, <1>2, <2>2, <2>3 DEF Deleting
  <2>5. Lost' \subseteq Lost
    BY <1>9, <2>1, <2>4 DEF Lost
  <2>6. Active(pods)' \subseteq Active(pods) /\ Active(pods) \ deletes \subseteq Active(pods)' \ deletes'
    BY <1>1, <1>9 DEF Active
  <2>7. DeletionsCounted'
    BY <1>1, <1>2, <1>5, <2>1, <2>2 DEF DeletionsCounted
  <2>8. CreationsCounted'
    BY <1>1, <2>1, <2>2 DEF CreationsCounted
  <2> QED  BY <1>3, <1>6, <1>7, <2>1, <2>5, <2>6, <2>7, <2>8
<1> QED  BY <1>8, <1>9 DEF DeletePod, Fails

\* The sync ends.
LEMMA FinishSyncStep ==
  ASSUME Typed, Sure, FinishSync
  PROVE  Sure'
<1> USE DEF Sure
<1>1. /\ at = "call" /\ at' = "idle" /\ creates = 0 /\ deletes = {} /\ creates' = 0 /\ deletes' = {}
      /\ UNCHANGED <<exists, pods, informer, expvars, killed, unsure>>
  BY DEF FinishSync, ClearLocals, rsvars, history
<1>2. Chain' /\ Unseen' = Unseen /\ \A q \in Pods : Visible(q)' <=> Visible(q)
  BY <1>1, SameChain DEF informer
<1>3. Deleting' = Deleting
  BY <1>1 DEF Deleting, expvars
<1>4. Lost' = Lost
  BY <1>1, <1>2, <1>3 DEF Lost
<1>5. CreationsCounted' /\ LossCounted' /\ SyncSeesAll' /\ ListIsGood'
  BY <1>1, <1>2, <1>4 DEF CreationsCounted, LossCounted, SyncSeesAll, ListIsGood, expvars
<1>6. DeletionsCounted' /\ NoSurplus' /\ NoShortage'
  BY <1>1 DEF DeletionsCounted, NoSurplus, NoShortage, expvars
<1> QED  BY <1>2, <1>5, <1>6

\* The informer's steps: less is unseen, less is lost.
LEMMA InformerStep ==
  ASSUME Typed, Sure, Chain', UNCHANGED <<exists, pods, expvars, at, locals, history>>,
         Unseen' \subseteq Unseen, \A q \in Pods : Visible(q)' => Visible(q)
  PROVE  Sure'
<1> USE DEF Sure, expvars, locals, history
<1>1. Deleting' = Deleting /\ Active(pods)' = Active(pods)
  BY DEF Deleting, Active
<1>2. Lost' \subseteq Lost
  BY <1>1 DEF Lost
<1>3. /\ Cardinality(Lost') <= Cardinality(Lost) /\ Cardinality(Lost') \in Nat /\ Cardinality(Lost) \in Nat
      /\ killed \in Nat
  BY <1>2, SetsOfPods, Counts DEF Typed
<1>4. /\ Cardinality(Unseen') <= Cardinality(Unseen) /\ Cardinality(Unseen') \in Nat
      /\ Cardinality(Unseen) \in Nat /\ creates \in Nat /\ expectations.add \in Int
  <2>1. Unseen \subseteq Pods /\ Unseen' \subseteq Pods
    BY SetsOfPods DEF Typed
  <2> QED  BY <2>1, SetsOfPods, Counts DEF Typed
<1>5. LossCounted' /\ CreationsCounted'
  BY <1>3, <1>4 DEF LossCounted, CreationsCounted
<1>6. SyncSeesAll' /\ ListIsGood'
  BY <1>1 DEF SyncSeesAll, ListIsGood
<1>7. DeletionsCounted'
  <2>1. deletes \subseteq Pods
    BY SetsOfPods DEF Typed
  <2> QED  BY <2>1 DEF DeletionsCounted
<1>8. NoSurplus' /\ NoShortage'
  BY <1>1 DEF NoSurplus, NoShortage
<1> QED  BY <1>5, <1>6, <1>7, <1>8

\* The handler of a notification.
LEMMA HandlePodStep ==
  ASSUME Typed, Sure, HandlePod
  PROVE  Sure'
<1> USE DEF Sure
<1>0. PICK n : n = Head(notes)
  OBVIOUS
<1>1. /\ notes # <<>> /\ notes' = Tail(notes)
      /\ UNCHANGED <<exists, pods, events, store, at, locals, history>>
  BY DEF HandlePod, rsvars
<1>2. /\ Chain'
      /\ Unseen' = IF n.type = "add" THEN Unseen \ {n.pod} ELSE Unseen
      /\ \A q \in Pods : Visible(q)' <=> Visible(q)
      /\ n.pod \in Pods
      /\ n.type = "add" => n.pod \in Unseen
      /\ n.state = "terminating" \/ n.type = "delete" => ~Visible(n.pod)
  BY <1>0, <1>1, HandleChain DEF Typed
<1>3. CASE UNCHANGED expvars
  BY <1>1, <1>2, <1>3, InformerStep
<1>4. /\ Active(pods)' = Active(pods)
      /\ expectations \in [set : BOOLEAN, add : Int, del : Int, expired : BOOLEAN]
      /\ deletes \subseteq Pods /\ uids \subseteq Pods /\ creates \in Nat /\ killed \in Nat
      /\ creates' = creates /\ deletes' = deletes /\ at' = at /\ killed' = killed
  BY <1>1, SetsOfPods DEF Active, Typed, locals, history
<1>5. ListIsGood' /\ NoSurplus' /\ NoShortage'
  BY <1>1, <1>4 DEF ListIsGood, NoSurplus, NoShortage, locals, history
<1>6. CASE exists /\ n.type = "add" /\ CreationObserved
  <2>1. /\ uids' = uids /\ expectations'.set = expectations.set /\ expectations'.del = expectations.del
        /\ expectations'.expired = expectations.expired
        /\ expectations.set => expectations'.add = expectations.add - 1
    BY <1>4, <1>6 DEF CreationObserved
  <2>2. expectations.set /\ ~expectations.expired /\ creates + Cardinality(Unseen) <= expectations.add
    BY <1>2, <1>6 DEF CreationsCounted
  <2>3. Cardinality(Unseen') = Cardinality(Unseen) - 1 /\ Cardinality(Unseen) \in Nat
    <3>1. Unseen \subseteq Pods /\ Unseen' = Unseen \ {n.pod} /\ n.pod \in Unseen
      BY <1>2, <1>6, SetsOfPods DEF Typed
    <3> QED  BY <3>1, Counts
  <2>4. CreationsCounted'
    BY <1>4, <2>1, <2>2, <2>3 DEF CreationsCounted
  <2>5. Deleting' = Deleting
    BY <1>4, <2>1 DEF Deleting
  <2>6. Lost' = Lost
    BY <1>1, <1>2, <2>5 DEF Lost
  <2>7. LossCounted'
    BY <1>1, <1>4, <2>6 DEF LossCounted
  <2>8. DeletionsCounted'
    BY <1>2, <1>4, <2>1 DEF DeletionsCounted
  <2>9. SyncSeesAll'
    BY <1>1, <1>2, <1>4, <2>5 DEF SyncSeesAll, locals
  <2> QED  BY <1>2, <1>5, <2>4, <2>7, <2>8, <2>9
<1>7. CASE exists /\ (n.state = "terminating" \/ n.type = "delete") /\ DeletionObserved(n.pod)
  <2>0. PICK p \in Pods : p = n.pod
    BY <1>2
  <2>1. /\ expectations'.set = expectations.set /\ expectations'.expired = expectations.expired
        /\ expectations'.add = expectations.add
        /\ uids' = uids \ {p}
        /\ expectations'.set /\ expectations'.del > 0 => expectations'.del = Cardinality(uids')
        /\ deletes # {} => expectations'.del = Cardinality(uids')
        /\ expectations.del <= 0 => expectations'.del <= 0
        /\ expectations.set /\ expectations.del > 0 /\ expectations'.del <= 0 => uids \subseteq {p}
    BY <1>7, <2>0, DeletionObservedEffect
  <2>2. expectations'.del \in Int
    BY <1>4, <1>7 DEF DeletionObserved, expvars
  <2>3. ~Visible(p)
    BY <1>2, <1>7, <2>0
  <2>4. Deleting' \subseteq Deleting /\ Deleting \subseteq Deleting' \cup {p}
    BY <1>4, <2>1, <2>2 DEF Deleting
  <2>5. Lost' \subseteq Lost
    BY <1>1, <1>2, <2>3, <2>4 DEF Lost
  <2>6. LossCounted'
    <3>1. Cardinality(Lost') <= Cardinality(Lost) /\ Cardinality(Lost') \in Nat /\ Cardinality(Lost) \in Nat
      BY <2>5, SetsOfPods, Counts DEF Typed
    <3> QED  BY <1>1, <1>4, <3>1 DEF LossCounted
  <2>7. CreationsCounted'
    <3>1. Unseen' \subseteq Unseen
      BY <1>2
    <3>2. Cardinality(Unseen') <= Cardinality(Unseen) /\ Cardinality(Unseen') \in Nat
          /\ Cardinality(Unseen) \in Nat
      <4>1. Unseen \subseteq Pods /\ Unseen' \subseteq Pods
        BY <3>1, SetsOfPods DEF Typed
      <4> QED  BY <3>1, <4>1, Counts
    <3> QED  BY <1>1, <1>4, <2>1, <3>1, <3>2 DEF CreationsCounted
  <2>8. DeletionsCounted'
    BY <1>2, <1>4, <2>1, <2>3 DEF DeletionsCounted
  <2>9. SyncSeesAll'
    BY <1>1, <1>2, <1>4, <2>4 DEF SyncSeesAll, locals
  <2> QED  BY <1>2, <1>5, <2>6, <2>7, <2>8, <2>9
<1> QED  BY <1>0, <1>3, <1>6, <1>7 DEF HandlePod, addPod, updatePod, deletePod, expvars

\* Others end a pod, or a pod that has ended is removed.
LEMMA EndStep ==
  ASSUME Typed, Sure, NEW p \in Pods, Kill(p) \/ Remove(p)
  PROVE  Sure'
<1> USE DEF Sure
<1>1. /\ UNCHANGED <<exists, store, notes, expvars, at, locals, unsure>>
      /\ Kill(p) => pods[p] = "active" /\ killed' = killed + 1
      /\ ~Kill(p) => pods[p] # "active" /\ killed' = killed
      /\ pods[p] # "none"
  BY DEF Kill, Remove, rsvars, history
<1>2. PICK s \in States \ {"active"} : Becomes(p, s)
  BY DEF Kill, Remove, States
<1>3. Chain' /\ Unseen' = Unseen /\ \A q \in Pods : Born(q)' <=> Born(q)
  BY <1>1, <1>2, EndsChain DEF Typed
<1>4. pods'[p] = s /\ \A q \in Pods \ {p} : pods'[q] = pods[q]
  BY <1>2, BecomesAppends DEF Typed
<1>5. \A q \in Pods : Visible(q)' <=> Visible(q)
  BY <1>1, <1>3 DEF Visible
<1>6. Deleting' = Deleting
  BY <1>1 DEF Deleting, expvars, locals
<1>7. /\ killed \in Nat /\ deletes \subseteq Pods /\ filteredPods \subseteq Pods
      /\ creates \in Nat /\ want \in Nat
      /\ creates' = creates /\ deletes' = deletes /\ filteredPods' = filteredPods /\ want' = want
      /\ at' = at /\ needsSync' = needsSync /\ expectations' = expectations /\ uids' = uids
  BY <1>1, SetsOfPods DEF Typed, locals, expvars
<1>8. CreationsCounted' /\ SyncSeesAll'
  BY <1>1, <1>3, <1>6, <1>7 DEF CreationsCounted, SyncSeesAll
<1>9. DeletionsCounted'
  BY <1>5, <1>7 DEF DeletionsCounted
<1> DEFINE A == Active(pods)
           B == Active(pods)'
<1>10. /\ A \subseteq Pods /\ B \subseteq Pods /\ B \subseteq A /\ A \subseteq B \cup {p}
       /\ ~Kill(p) => A = B
  BY <1>1, <1>2, <1>4 DEF Active
<1> HIDE DEF A, B
<1>11. /\ Cardinality(A) \in Nat /\ Cardinality(B) \in Nat /\ Cardinality(B) <= Cardinality(A)
  BY <1>10, Counts
<1>12. NoSurplus'
  BY <1>1, <1>7, <1>11 DEF NoSurplus, A, B
<1>13. NoShortage'
  <2>1. /\ Cardinality(A \ deletes) \in Nat /\ Cardinality(B \ deletes) \in Nat
        /\ Cardinality(A \ deletes) <= Cardinality(B \ deletes) + 1
    <3>1. A \ deletes \subseteq Pods /\ B \ deletes \subseteq Pods
          /\ A \ deletes \subseteq (B \ deletes) \cup {p}
      BY <1>10
    <3> QED  BY <3>1, Counts
  <2>2. ~Kill(p) => A \ deletes = B \ deletes
    BY <1>10
  <2>3. ~unsure /\ deletes # {} => Cardinality(A \ deletes) + killed >= want
    BY DEF NoShortage, A
  <2>4. ~unsure /\ deletes # {} => Cardinality(B \ deletes) + killed' >= want
    BY <1>1, <1>7, <2>1, <2>2, <2>3
  <2> QED  BY <1>1, <1>7, <2>4 DEF NoShortage, B
<1>14. ListIsGood'
  <2>1. /\ Cardinality(filteredPods \ A) \in Nat /\ Cardinality(filteredPods \ B) \in Nat
        /\ Cardinality(filteredPods \ B) <= Cardinality(filteredPods \ A) + 1
    <3>1. filteredPods \ A \subseteq Pods /\ filteredPods \ B \subseteq Pods
          /\ filteredPods \ B \subseteq (filteredPods \ A) \cup {p}
      BY <1>7, <1>10
    <3> QED  BY <3>1, Counts
  <2>2. ~Kill(p) => filteredPods \ A = filteredPods \ B
    BY <1>10
  <2>3. at = "manage" /\ needsSync => A \subseteq filteredPods /\ Cardinality(filteredPods \ A) <= killed
    BY DEF ListIsGood, A
  <2>4. at = "manage" /\ needsSync => B \subseteq filteredPods /\ Cardinality(filteredPods \ B) <= killed'
    BY <1>1, <1>7, <1>10, <2>1, <2>2, <2>3
  <2> QED  BY <1>7, <2>4 DEF ListIsGood, B
<1>15. LossCounted'
  <2>1. Lost' \subseteq Lost \cup {p} /\ (~Kill(p) => Lost' \subseteq Lost)
    BY <1>1, <1>4, <1>5, <1>6 DEF Lost
  <2>2. /\ Cardinality(Lost) \in Nat /\ Cardinality(Lost') \in Nat
        /\ Cardinality(Lost') <= Cardinality(Lost) + 1
        /\ ~Kill(p) => Cardinality(Lost') <= Cardinality(Lost)
    <3>1. Lost \subseteq Pods /\ Lost' \subseteq Pods
      BY DEF Lost
    <3> QED  BY <2>1, <3>1, Counts
  <2>3. exists \/ at # "idle" => Cardinality(Lost) <= killed
    BY DEF LossCounted
  <2>4. exists \/ at # "idle" => Cardinality(Lost') <= killed'
    BY <1>1, <1>7, <2>2, <2>3
  <2> QED  BY <1>1, <1>7, <2>4 DEF LossCounted
<1> QED  BY <1>3, <1>8, <1>9, <1>12, <1>13, <1>14, <1>15

\* The expectations expire, when all has been handled.
LEMMA ExpireStep ==
  ASSUME Typed, Sure, Expire
  PROVE  Sure'
<1> USE DEF Sure
<1>1. /\ expectations.set /\ creates = 0 /\ deletes = {} /\ events = <<>> /\ notes = <<>>
      /\ expectations' = [expectations EXCEPT !.expired = TRUE]
      /\ UNCHANGED <<exists, pods, informer, uids, at, locals, killed, unsure>>
  BY DEF Expire, rsvars, history
<1>2. Chain' /\ Unseen' = Unseen /\ \A q \in Pods : Visible(q)' <=> Visible(q)
  BY <1>1, SameChain DEF informer
<1>3. /\ expectations'.set = expectations.set /\ expectations'.add = expectations.add
      /\ expectations'.del = expectations.del /\ expectations'.expired = TRUE
      /\ killed \in Nat /\ killed' = killed /\ at' = at /\ creates' = 0 /\ deletes' = {} /\ uids' = uids
      /\ needsSync' = needsSync
  BY <1>1, SetsOfPods DEF Typed, locals
<1>4. Unseen = {} /\ \A q \in Pods : ~Born(q)
  BY <1>1 DEF Unseen, Born
<1>5. Deleting' = {}
  BY <1>3 DEF Deleting
<1>6. Lost' = {}
  <2>1. \A q \in Pods : store[q] = pods[q]
    BY <1>1 DEF Chain, EventsLeadToPods
  <2> QED  BY <1>1, <1>2, <1>4, <2>1 DEF Lost, Visible
<1>7. CreationsCounted' /\ SyncSeesAll' /\ NoSurplus' /\ NoShortage'
  BY <1>2, <1>3, <1>4, <1>5 DEF CreationsCounted, SyncSeesAll, NoSurplus, NoShortage
<1>8. DeletionsCounted'
  BY <1>1, <1>3 DEF DeletionsCounted
<1>9. LossCounted'
  BY <1>3, <1>6, FS_EmptySet DEF LossCounted
<1>10. ListIsGood'
  BY <1>1, <1>3 DEF ListIsGood, Active, locals
<1> QED  BY <1>2, <1>7, <1>8, <1>9, <1>10

\* Nothing is there yet.
LEMMA InitIInv == Init => IInv
<1> SUFFICES ASSUME Init PROVE IInv
  OBVIOUS
<1>1. /\ exists = TRUE /\ replicas \in 0 .. MaxReplicas /\ doomed = FALSE /\ rsNote = FALSE
      /\ pods = [p \in Pods |-> "none"] /\ events = <<>> /\ past = <<>> /\ store = pods /\ notes = <<>>
      /\ expectations = None /\ uids = {} /\ dirty = FALSE /\ at = "idle"
      /\ want = 0 /\ needsSync = FALSE /\ filteredPods = {}
      /\ creates = 0 /\ deletes = {} /\ failed = FALSE
      /\ failures = 0 /\ disruptions = 0 /\ killed = 0 /\ unsure = FALSE
  BY DEF Init
<1>2. Typed
  <2>1. pods \in [Pods -> States] /\ store \in [Pods -> States]
    BY <1>1 DEF States
  <2>2. events \in Seq(Event) /\ past \in Seq(Event) /\ notes \in Seq(Notification)
    BY <1>1
  <2>3. expectations \in [set : BOOLEAN, add : Int, del : Int, expired : BOOLEAN]
    BY <1>1 DEF None
  <2>4. /\ want \in 0 .. MaxReplicas /\ creates \in 0 .. burstReplicas /\ failures \in 0 .. MaxFailures
        /\ disruptions \in 0 .. MaxDisruptions /\ killed \in 0 .. MaxDisruptions /\ killed <= disruptions
    BY <1>1, Sizes
  <2> QED  BY <1>1, <2>1, <2>2, <2>3, <2>4 DEF Typed, TypeOK
<1>3. Chain
  BY <1>1 DEF Chain, EventsLeadToPods, LivesOnce, KnownOrBorn, NotesInOrder
<1>4. Unseen = {} /\ Lost = {} /\ ~expectations.set
  BY <1>1 DEF Unseen, Lost, Visible, Born, None
<1>5. CreationsCounted /\ SyncSeesAll /\ ListIsGood /\ NoSurplus /\ NoShortage
  BY <1>1, <1>4 DEF CreationsCounted, SyncSeesAll, ListIsGood, NoSurplus, NoShortage
<1>6. DeletionsCounted /\ LossCounted
  BY <1>1, <1>4, FS_EmptySet DEF DeletionsCounted, LossCounted
<1> QED  BY <1>2, <1>3, <1>5, <1>6 DEF IInv, Sure

\* Every step keeps the invariant.
LEMMA StepIInv == IInv /\ [Next]_vars => IInv'
<1> SUFFICES ASSUME IInv, [Next]_vars PROVE IInv'
  OBVIOUS
<1>1. Typed /\ Typed'
  BY TypedStep DEF IInv
<1>2. SUFFICES ASSUME ~unsure' PROVE Sure'
  BY <1>1 DEF IInv
<1>3. ~unsure
  BY <1>2, Zenon DEF Next, Worker, StartSync, ListPods, Manage, CreatePod, DeletePod, Fails, FinishSync, Observe,
    Relist, ListBehind, HandlePod, updateRS, HandleDeletion, Kill, Remove, Scale, DeleteRS, Expire, Restart, history, vars
<1>4. Sure
  BY <1>3 DEF IInv
<1>5. CASE UNCHANGED vars \/ updateRS \/ HandleDeletion \/ Scale \/ DeleteRS
  <2>1. UNCHANGED <<pods, informer, expvars, at, locals, history>>
    BY <1>5 DEF vars, updateRS, HandleDeletion, Scale, DeleteRS, informer, expvars, locals, history
  <2>2. exists' => exists
    BY <1>5 DEF vars, updateRS, HandleDeletion, Scale, DeleteRS, rsvars
  <2> QED  BY <1>1, <1>4, <2>1, <2>2, QuietStep
<1>6. CASE Observe
  <2>1. UNCHANGED <<exists, pods, expvars, at, locals, history>>
    BY <1>6 DEF Observe, rsvars
  <2> QED  BY <1>1, <1>4, <1>6, <2>1, ObserveChain, InformerStep DEF Typed, Sure
<1>7. CASE Relist
  <2>1. UNCHANGED <<exists, pods, expvars, at, locals, killed>>
    BY <1>7 DEF Relist, rsvars
  <2>2. PICK k \in 1 .. Len(events) : ListAhead(k) /\ unsure' = unsure
    BY <1>2, <1>7 DEF Relist, ListBehind
  <2>3. PICK ns \in Notes(store, store') : notes' = notes \o ns
    BY <1>7 DEF Relist
  <2>4. Chain' /\ Unseen' \subseteq Unseen /\ \A q \in Pods : Visible(q)' => Visible(q)
    BY <1>1, <1>4, <2>1, <2>2, <2>3, AheadChain DEF Typed, Sure
  <2> QED  BY <1>1, <1>4, <2>1, <2>2, <2>4, InformerStep DEF history
<1>8. CASE Restart
  BY <1>2, <1>8 DEF Restart
<1>9. CASE Worker
  BY <1>1, <1>2, <1>4, <1>9, StartSyncStep, ListPodsStep, ManageStep, CreatePodStep, DeletePodStep,
     FinishSyncStep DEF Worker
<1> QED
  BY <1>1, <1>4, <1>5, <1>6, <1>7, <1>8, <1>9, HandlePodStep, EndStep, ExpireStep DEF Next

-----------------------------------------------------------------------------
\* The invariant holds of every replica set and its controller.
THEOREM Invariance == Spec => []IInv
BY InitIInv, StepIInv, PTL DEF Spec

\* The controller's variables keep their types; expectations that are not set
\* keep no UIDs.
THEOREM TypeCorrect == Spec => []TypeOK
<1>1. IInv => TypeOK
  BY DEF IInv, Typed
<1> QED  BY <1>1, Invariance, PTL

\* However late the informer and the handlers are, manageReplicas never sets
\* out to create a pod too many, unless the controller was restarted, a list
\* went back behind what had been seen, or a call that had been carried out was
\* reported as failed.
THEOREM ExpectationsStopSurplus == Spec => []NoSurplus
<1>1. IInv => NoSurplus
  BY DEF IInv, Sure, NoSurplus
<1> QED  BY <1>1, Invariance, PTL

\* Nor does it, with the same exceptions, ever set out to delete a pod too many:
\* apart from those others ended, enough stay.
THEOREM ExpectationsStopShortage == Spec => []NoShortage
<1>1. IInv => NoShortage
  BY DEF IInv, Sure, NoShortage
<1> QED  BY <1>1, Invariance, PTL
=============================================================================
