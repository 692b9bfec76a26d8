--------------------------- MODULE WorkQueueProofs ---------------------------
(***************************************************************************)
(* The queues of pkg/util/workqueue.                                       *)
(*                                                                         *)
(* The work queue, for every set of keys and every finite pool of workers: *)
(* its safety invariants, and that it implements WorkSet (without          *)
(* WorkSet's liveness, which stays with TLC).                              *)
(*                                                                         *)
(* The delaying queue and the rate limiting queue that contains it, for    *)
(* any number of keys, callers and requests and any delays: the sorted     *)
(* slice and the map agree, no request is lost or postponed, and no key    *)
(* comes too early.                                                        *)
(***************************************************************************)
EXTENDS WorkQueue, RateLimitingQueue, DistinctSeqProofs,
        FiniteSetTheorems, SequenceTheorems, TLAPS

-----------------------------------------------------------------------------
(* Facts about counting workers.                                           *)

\* The workers at one place of their loop can be counted.
LEMMA AtFinite ==
  ASSUME NEW p, NEW l
  PROVE  IsFiniteSet(At(p, l)) /\ Cardinality(At(p, l)) \in Nat
BY WorkersFinite, FS_Subset, FS_CardinalityType DEF At

\* What cond.Signal does to the workers: nothing, or one sleeper more contends
\* for the lock.  Nobody who runs a handler or has left is touched.
LEMMA SignalEffect ==
  ASSUME NEW p \in [Workers -> PCs], NEW r \in Signal(p)
  PROVE  /\ r \in [Workers -> PCs]
         /\ At(r, "busy") = At(p, "busy")
         /\ At(r, "exited") = At(p, "exited")
         /\ \/ At(p, "waiting") = {} /\ r = p
            \/ Cardinality(At(r, "woken")) = Cardinality(At(p, "woken")) + 1
<1>1. CASE At(p, "waiting") = {}
  BY <1>1 DEF Signal
<1>2. CASE At(p, "waiting") # {}
  <2>1. PICK w \in At(p, "waiting") : r = [p EXCEPT ![w] = "woken"]
    BY <1>2 DEF Signal
  <2>2. w \in Workers /\ p[w] = "waiting"
    BY DEF At
  <2>3. r \in [Workers -> PCs]
    BY <2>1, <2>2 DEF PCs
  <2>4. \A v \in Workers : r[v] = IF v = w THEN "woken" ELSE p[v]
    BY <2>1, <2>2
  <2>5. At(r, "busy") = At(p, "busy") /\ At(r, "exited") = At(p, "exited")
    BY <2>2, <2>4 DEF At
  <2>6. At(r, "woken") = At(p, "woken") \cup {w} /\ w \notin At(p, "woken")
    BY <2>2, <2>4 DEF At
  <2>7. Cardinality(At(r, "woken")) = Cardinality(At(p, "woken")) + 1
    BY <2>6, AtFinite, FS_AddElement
  <2>8. QED
    BY <2>3, <2>5, <2>7
<1>3. QED
  BY <1>1, <1>2

\* Moving one worker away from "woken" lowers their number by at most one, and
\* by none when it was not woken.
LEMMA LeaveWoken ==
  ASSUME NEW p \in [Workers -> PCs], NEW w \in Workers, NEW l \in PCs, l # "woken"
  PROVE  LET r == [p EXCEPT ![w] = l]
         IN  /\ p[w] # "woken" => At(r, "woken") = At(p, "woken")
             /\ Cardinality(At(r, "woken")) >= Cardinality(At(p, "woken")) - 1
<1> DEFINE r == [p EXCEPT ![w] = l]
<1>1. \A v \in Workers : r[v] = IF v = w THEN l ELSE p[v]
  OBVIOUS
<1>2. At(r, "woken") = At(p, "woken") \ {w}
  BY <1>1 DEF At
<1>3. p[w] # "woken" => At(r, "woken") = At(p, "woken")
  BY <1>2 DEF At
<1>4. Cardinality(At(r, "woken")) >= Cardinality(At(p, "woken")) - 1
  <2> HIDE DEF r
  <2>1. IsFiniteSet(At(p, "woken")) /\ Cardinality(At(p, "woken")) \in Nat
    BY AtFinite
  <2>2. CASE w \in At(p, "woken")
    <3>1. Cardinality(At(p, "woken") \ {w}) = Cardinality(At(p, "woken")) - 1
      BY <2>1, <2>2, FS_RemoveElement
    <3>2. QED
      BY <1>2, <2>1, <3>1
  <2>3. CASE w \notin At(p, "woken")
    <3>1. At(r, "woken") = At(p, "woken")
      BY <1>2, <2>3
    <3>2. QED
      BY <2>1, <3>1
  <2>4. QED
    BY <2>2, <2>3
<1>5. QED
  BY <1>3, <1>4

-----------------------------------------------------------------------------
(***************************************************************************)
(* The inductive invariant.  QueueIsPendingWork and OneWorkerPerKey need   *)
(* each other: Done may append because the key it releases was in nobody   *)
(* else's hands.  ShutdownDrains needs both, and that a worker only leaves *)
(* during a shutdown, after which Add does nothing.                        *)
(***************************************************************************)
ExitedInShutdown == At(pc, "exited") # {} => shuttingDown

IInv ==
  /\ TypeOK
  /\ QueueIsPendingWork
  /\ OneWorkerPerKey
  /\ NoLostWakeup
  /\ ExitedInShutdown
  /\ ShutdownDrains

\* The new queue satisfies the invariant.
LEMMA InitIInv == Init => IInv
<1> SUFFICES ASSUME Init PROVE IInv
  OBVIOUS
<1>1. TypeOK
  <2>1. queue \in Seq(Items) /\ pc \in [Workers -> PCs]
    BY DEF Init, PCs
  <2>2. shuttingDown \in BOOLEAN /\ dirty \in SUBSET Items /\ processing \in SUBSET Items
    BY DEF Init
  <2>3. held \in [Workers -> Items \cup {NoItem}]
    BY DEF Init
  <2>4. QED
    BY <2>1, <2>2, <2>3 DEF TypeOK
<1>2. /\ At(pc, "busy") = {}
      /\ At(pc, "waiting") = {}
      /\ At(pc, "exited") = {}
  BY DEF Init, At
<1>3. QueueIsPendingWork
  BY DEF Init, QueueIsPendingWork, Distinct, RangeOf
<1>4. OneWorkerPerKey
  BY <1>2 DEF Init, OneWorkerPerKey
<1>5. NoLostWakeup /\ ExitedInShutdown /\ ShutdownDrains
  BY <1>2, WorkersFinite DEF NoLostWakeup, ExitedInShutdown, ShutdownDrains
<1>6. QED
  BY <1>1, <1>3, <1>4, <1>5 DEF IInv

\* Add keeps the invariant.
LEMMA AddIInv ==
  ASSUME IInv, NEW i \in Items, Add(i)
  PROVE  IInv'
<1> USE DEF IInv
<1>1. CASE AddIgnored(i)
  BY <1>1 DEF AddIgnored, wqvars, TypeOK, QueueIsPendingWork, OneWorkerPerKey,
              NoLostWakeup, ExitedInShutdown, ShutdownDrains, At
<1>2. CASE AddMarked(i)
  <2> USE <1>2 DEF AddMarked
  <2>1. TypeOK'
    BY DEF TypeOK
  <2>2. QueueIsPendingWork'
    BY DEF QueueIsPendingWork, RangeOf
  <2>3. OneWorkerPerKey' /\ NoLostWakeup' /\ ExitedInShutdown'
    BY DEF OneWorkerPerKey, NoLostWakeup, ExitedInShutdown, At
  <2>4. ShutdownDrains'
    BY WorkersFinite DEF ShutdownDrains, ExitedInShutdown, At
  <2>5. QED
    BY <2>1, <2>2, <2>3, <2>4
<1>3. CASE AddQueued(i)
  <2> USE <1>3 DEF AddQueued
  <2>1. /\ pc' \in [Workers -> PCs]
        /\ At(pc, "busy")' = At(pc, "busy")
        /\ At(pc, "exited")' = At(pc, "exited")
        /\ \/ At(pc, "waiting") = {} /\ pc' = pc
           \/ Cardinality(At(pc, "woken")') = Cardinality(At(pc, "woken")) + 1
    BY SignalEffect DEF TypeOK, At
  <2>2. /\ i \notin RangeOf(queue)
        /\ Distinct(queue)' /\ RangeOf(queue)' = RangeOf(queue) \cup {i}
    <3>1. i \notin RangeOf(queue) /\ Distinct(queue) /\ queue \in Seq(Items)
      BY DEF QueueIsPendingWork, TypeOK
    <3>2. Distinct(Append(queue, i)) /\ RangeOf(Append(queue, i)) = RangeOf(queue) \cup {i}
      BY <3>1, AppendDistinct
    <3>3. QED
      BY <3>1, <3>2 DEF Distinct, RangeOf
  <2>3. TypeOK'
    BY <2>1 DEF TypeOK
  <2>4. QueueIsPendingWork'
    BY <2>2 DEF QueueIsPendingWork
  <2>5. OneWorkerPerKey'
    BY <2>1 DEF OneWorkerPerKey
  <2>6. NoLostWakeup'
    <3>1. Len(queue') = Len(queue) + 1 /\ Len(queue) \in Nat
      BY DEF TypeOK
    <3>2. CASE At(pc, "waiting") = {} /\ pc' = pc
      BY <3>2 DEF NoLostWakeup, At
    <3>3. CASE Cardinality(At(pc, "woken")') = Cardinality(At(pc, "woken")) + 1
      <4>1. CASE At(pc, "waiting") = {}
        <5>1. pc' = pc
          BY <4>1 DEF Signal
        <5>2. QED
          BY <4>1, <5>1 DEF NoLostWakeup, At
      <4>2. CASE At(pc, "waiting") # {}
        BY <3>1, <3>3, <4>2, AtFinite DEF NoLostWakeup
      <4>3. QED
        BY <4>1, <4>2
    <3>4. QED
      BY <2>1, <3>2, <3>3
  <2>7. ExitedInShutdown' /\ ShutdownDrains'
    BY <2>1, WorkersFinite DEF ExitedInShutdown, ShutdownDrains
  <2>8. QED
    BY <2>3, <2>4, <2>5, <2>6, <2>7
<1>4. QED
  BY <1>1, <1>2, <1>3 DEF Add

\* Get keeps the invariant.
LEMMA GetIInv ==
  ASSUME IInv, NEW w \in Workers, Get(w)
  PROVE  IInv'
<1> USE DEF IInv
<1>1. CASE GetItem(w)
  <2> USE <1>1 DEF GetItem
  <2>1. /\ Head(queue) \in Items /\ Head(queue) \in RangeOf(queue)
        /\ queue' \in Seq(Items) /\ Len(queue') = Len(queue) - 1
        /\ Distinct(queue') /\ RangeOf(queue') = RangeOf(queue) \ {Head(queue)}
        /\ Len(queue) \in Nat
    BY TailDistinct DEF TypeOK, QueueIsPendingWork
  <2>2. Head(queue) \in dirty /\ Head(queue) \notin processing
    BY <2>1 DEF QueueIsPendingWork
  <2>3. pc' \in [Workers -> PCs] /\ pc[w] \in {"idle", "woken"}
    BY DEF TypeOK, PCs, InGet
  <2>4. TypeOK'
    BY <2>1, <2>3 DEF TypeOK
  <2>5. QueueIsPendingWork'
    BY <2>1, <2>2 DEF QueueIsPendingWork
  <2>6. At(pc, "busy")' = At(pc, "busy") \cup {w} /\ w \notin At(pc, "busy")
    BY <2>3 DEF At, TypeOK
  <2>7. \A v \in Workers : held'[v] = IF v = w THEN Head(queue) ELSE held[v]
    BY DEF TypeOK
  <2>8. \A v \in At(pc, "busy") : v \in Workers /\ v # w /\ held[v] \in processing
    BY <2>6 DEF At, OneWorkerPerKey
  <2>9. OneWorkerPerKey'
    <3>1. processing' = processing \cup {Head(queue)}
      OBVIOUS
    <3> HIDE <1>1 DEF GetItem
    <3>2. \A v \in At(pc, "busy")' : v \in Workers /\ (v = w \/ v \in At(pc, "busy"))
      BY <2>6, <2>8
    <3>3. \A v \in At(pc, "busy") : held'[v] = held[v] /\ held[v] # Head(queue)
      BY <2>2, <2>7, <2>8
    <3>4. held'[w] = Head(queue)
      BY <2>7
    <3>5. processing' = {held'[v] : v \in At(pc, "busy")'}
      BY <2>6, <3>1, <3>3, <3>4 DEF OneWorkerPerKey
    <3>6. \A u, v \in At(pc, "busy")' : held'[u] = held'[v] => u = v
      BY <3>2, <3>3, <3>4 DEF OneWorkerPerKey
    <3>7. QED
      BY <3>5, <3>6 DEF OneWorkerPerKey
  <2>10. NoLostWakeup'
    <3>1. Cardinality(At(pc, "woken")') >= Cardinality(At(pc, "woken")) - 1
      BY LeaveWoken DEF TypeOK, PCs
    <3>2. At(pc, "waiting")' = At(pc, "waiting")
      BY <2>3 DEF At, TypeOK
    <3>3. Cardinality(At(pc, "woken")) \in Nat /\ Cardinality(At(pc, "woken")') \in Nat
      BY AtFinite
    <3> HIDE <1>1 DEF GetItem
    <3>4. SUFFICES ASSUME At(pc, "waiting")' # {}
                   PROVE  Len(queue') <= Cardinality(At(pc, "woken")')
      BY DEF NoLostWakeup
    <3>5. Len(queue) <= Cardinality(At(pc, "woken"))
      BY <3>2, <3>4 DEF NoLostWakeup
    <3>6. QED
      BY <2>1, <3>1, <3>3, <3>5
  <2>11. At(pc, "exited")' = At(pc, "exited") /\ w \notin At(pc, "exited")
    BY <2>3 DEF At, TypeOK
  <2>12. ExitedInShutdown' /\ ShutdownDrains'
    BY <2>11 DEF ExitedInShutdown, ShutdownDrains
  <2>13. QED
    BY <2>4, <2>5, <2>9, <2>10, <2>12
<1>2. ASSUME \/ GetWait(w) \/ GetShutdown(w)
      PROVE  IInv'
  <2>1. /\ queue = <<>> /\ UNCHANGED <<queue, dirty, processing, shuttingDown, held>>
        /\ pc[w] \in {"idle", "woken"}
        /\ \/ pc' = [pc EXCEPT ![w] = "waiting"] /\ ~shuttingDown
           \/ pc' = [pc EXCEPT ![w] = "exited"] /\ shuttingDown
    BY <1>2 DEF GetWait, GetShutdown, InGet
  <2>2. TypeOK'
    BY <2>1 DEF TypeOK, PCs
  <2>3. QueueIsPendingWork'
    BY <2>1 DEF QueueIsPendingWork, RangeOf, Distinct
  <2>4. At(pc, "busy")' = At(pc, "busy")
    BY <2>1 DEF At, TypeOK
  <2>5. OneWorkerPerKey'
    BY <2>1, <2>4 DEF OneWorkerPerKey
  <2>6. NoLostWakeup'
    <3>1. Len(queue') = 0 /\ Cardinality(At(pc, "woken")') \in Nat
      BY <2>1, AtFinite
    <3>2. QED
      BY <3>1 DEF NoLostWakeup
  <2>7. ExitedInShutdown'
    BY <2>1 DEF ExitedInShutdown, At, TypeOK
  <2>8. ShutdownDrains'
    <3>1. SUFFICES ASSUME At(pc, "exited")' = Workers
                   PROVE  dirty' = {} /\ processing' = {}
      BY DEF ShutdownDrains
    <3>2. At(pc, "busy")' = {}
      BY <3>1 DEF At
    <3>3. processing' = {}
      BY <2>5, <3>2 DEF OneWorkerPerKey
    <3>4. RangeOf(queue)' = {}
      BY <2>1 DEF RangeOf
    <3>5. QED
      BY <2>3, <3>3, <3>4 DEF QueueIsPendingWork
  <2>9. QED
    BY <2>2, <2>3, <2>5, <2>6, <2>7, <2>8
<1>3. QED
  BY <1>1, <1>2 DEF Get

\* Done keeps the invariant.
LEMMA DoneIInv ==
  ASSUME IInv, NEW w \in Workers, Done(w)
  PROVE  IInv'
<1> USE DEF IInv
<1> DEFINE k == held[w]
           p == [pc EXCEPT ![w] = "idle"]
<1>1. /\ pc[w] = "busy" /\ UNCHANGED <<dirty, shuttingDown>>
      /\ processing' = processing \ {k}
      /\ held' = [held EXCEPT ![w] = NoItem]
      /\ \/ k \in dirty /\ queue' = Append(queue, k) /\ pc' \in Signal(p)
         \/ k \notin dirty /\ queue' = queue /\ pc' = p
  BY DEF Done, DoneRequeued, DoneClean
<1>2. w \in At(pc, "busy") /\ k \in processing /\ k \in Items
  BY <1>1 DEF At, OneWorkerPerKey, TypeOK
<1>3. /\ p \in [Workers -> PCs]
      /\ At(p, "busy") = At(pc, "busy") \ {w}
      /\ At(p, "exited") = At(pc, "exited")
      /\ At(p, "waiting") = At(pc, "waiting")
      /\ At(p, "woken") = At(pc, "woken")
  BY <1>1 DEF At, TypeOK, PCs
<1> HIDE DEF p
<1>4. /\ pc' \in [Workers -> PCs]
      /\ At(pc, "busy")' = At(p, "busy")
      /\ At(pc, "exited")' = At(p, "exited")
  <2>1. CASE pc' \in Signal(p)
    <3>1. /\ pc' \in [Workers -> PCs]
          /\ At(pc', "busy") = At(p, "busy")
          /\ At(pc', "exited") = At(p, "exited")
      BY <1>3, <2>1, SignalEffect
    <3>2. QED
      BY <3>1 DEF At
  <2>2. CASE pc' = p
    BY <1>3, <2>2 DEF At
  <2>3. QED
    BY <1>1, <2>1, <2>2
<1>5. /\ k \in dirty => Distinct(queue') /\ RangeOf(queue') = RangeOf(queue) \cup {k}
      /\ k \in dirty => queue' \in Seq(Items) /\ Len(queue') = Len(queue) + 1
      /\ k \notin RangeOf(queue)
  <2>1. k \notin RangeOf(queue) /\ Distinct(queue) /\ queue \in Seq(Items)
    BY <1>2 DEF QueueIsPendingWork, TypeOK
  <2>2. CASE k \in dirty
    <3>1. queue' = Append(queue, k)
      BY <1>1, <2>2
    <3>2. Append(queue, k) \in Seq(Items) /\ Len(Append(queue, k)) = Len(queue) + 1
      BY <1>2, <2>1
    <3> HIDE DEF k
    <3>3. Distinct(Append(queue, k)) /\ RangeOf(Append(queue, k)) = RangeOf(queue) \cup {k}
      BY <1>2, <2>1, AppendDistinct
    <3>4. QED
      BY <2>1, <3>1, <3>2, <3>3
  <2>3. QED
    BY <2>1, <2>2
<1>6. TypeOK'
  BY <1>1, <1>2, <1>4, <1>5 DEF TypeOK
<1>7. QueueIsPendingWork'
  BY <1>1, <1>2, <1>5 DEF QueueIsPendingWork
<1>8. OneWorkerPerKey'
  <2>1. \A v \in Workers : held'[v] = IF v = w THEN NoItem ELSE held[v]
    BY <1>1 DEF TypeOK
  <2>2. \A v \in At(pc, "busy")' : v \in At(pc, "busy") /\ v \in Workers /\ v # w /\ held'[v] = held[v]
    BY <1>3, <1>4, <2>1 DEF At
  <2>3. \A v \in At(pc, "busy") : v # w => v \in At(pc, "busy")' /\ held[v] # k
    BY <1>2, <1>3, <1>4 DEF OneWorkerPerKey
  <2>4. QED
    BY <1>1, <1>2, <2>2, <2>3 DEF OneWorkerPerKey
<1>9. NoLostWakeup'
  <2>1. CASE k \notin dirty
    <3>1. pc' = p /\ queue' = queue
      BY <1>1, <2>1
    <3>2. At(pc, "waiting")' = At(pc, "waiting") /\ At(pc, "woken")' = At(pc, "woken")
      BY <1>3, <3>1 DEF At
    <3>3. QED
      BY <3>1, <3>2 DEF NoLostWakeup
  <2>2. CASE k \in dirty
    <3>1. pc' \in Signal(p) /\ Len(queue') = Len(queue) + 1 /\ Len(queue) \in Nat
      BY <1>1, <1>5, <2>2 DEF TypeOK
    <3>2. CASE At(p, "waiting") = {}
      <4>1. pc' = p
        BY <3>1, <3>2 DEF Signal
      <4>2. At(pc, "waiting")' = {}
        BY <3>2, <4>1 DEF At
      <4>3. QED
        BY <4>2 DEF NoLostWakeup
    <3>3. CASE At(p, "waiting") # {}
      <4>1. Cardinality(At(pc', "woken")) = Cardinality(At(p, "woken")) + 1
        BY <1>3, <3>1, <3>3, SignalEffect
      <4>2. Cardinality(At(pc, "woken")') = Cardinality(At(pc, "woken")) + 1
        BY <1>3, <4>1 DEF At
      <4>3. Cardinality(At(pc, "woken")) \in Nat
        BY AtFinite
      <4>4. Len(queue) <= Cardinality(At(pc, "woken"))
        BY <1>3, <3>3 DEF NoLostWakeup
      <4>5. QED
        BY <3>1, <4>2, <4>3, <4>4 DEF NoLostWakeup
    <3>4. QED
      BY <3>2, <3>3
  <2>3. QED
    BY <2>1, <2>2
<1>10. ExitedInShutdown' /\ ShutdownDrains'
  <2>1. w \notin At(pc, "exited")
    BY <1>1 DEF At
  <2>2. QED
    BY <1>1, <1>3, <1>4, <2>1 DEF ExitedInShutdown, ShutdownDrains
<1>11. QED
  BY <1>6, <1>7, <1>8, <1>9, <1>10

\* ShutDown keeps the invariant.
LEMMA ShutDownIInv ==
  ASSUME IInv, ShutDown
  PROVE  IInv'
<1> USE DEF IInv, ShutDown
<1>1. \A w \in Workers : pc'[w] = IF pc[w] = "waiting" THEN "woken" ELSE pc[w]
  BY DEF Broadcast
<1>2. pc' \in [Workers -> PCs]
  BY DEF Broadcast, TypeOK, PCs
<1>3. /\ At(pc, "busy")' = At(pc, "busy")
      /\ At(pc, "exited")' = At(pc, "exited")
      /\ At(pc, "waiting")' = {}
  BY <1>1 DEF At
<1>4. TypeOK'
  BY <1>2 DEF TypeOK
<1>5. QueueIsPendingWork' /\ OneWorkerPerKey'
  BY <1>3 DEF QueueIsPendingWork, OneWorkerPerKey, Distinct, RangeOf
<1>6. NoLostWakeup' /\ ExitedInShutdown' /\ ShutdownDrains'
  BY <1>3 DEF NoLostWakeup, ExitedInShutdown, ShutdownDrains
<1>7. QED
  BY <1>4, <1>5, <1>6

\* Every step keeps the invariant.
LEMMA NextIInv == IInv /\ [Next]_wqvars => IInv'
<1> SUFFICES ASSUME IInv, [Next]_wqvars PROVE IInv'
  OBVIOUS
<1>1. CASE UNCHANGED wqvars
  <2> USE <1>1 DEF wqvars, IInv
  <2>1. TypeOK'
    BY DEF TypeOK
  <2>2. QueueIsPendingWork'
    BY DEF QueueIsPendingWork, Distinct, RangeOf
  <2>4. At(pc, "busy")' = At(pc, "busy") /\ At(pc, "exited")' = At(pc, "exited")
    BY DEF At
  <2>5. At(pc, "waiting")' = At(pc, "waiting") /\ At(pc, "woken")' = At(pc, "woken")
    BY DEF At
  <2>6. OneWorkerPerKey'
    BY <2>4 DEF OneWorkerPerKey
  <2>7. NoLostWakeup' /\ ExitedInShutdown' /\ ShutdownDrains'
    BY <2>4, <2>5 DEF NoLostWakeup, ExitedInShutdown, ShutdownDrains
  <2>8. QED
    BY <2>1, <2>2, <2>6, <2>7
<1>2. QED
  BY <1>1, AddIInv, GetIInv, DoneIInv, ShutDownIInv DEF Next

\* The inductive invariant holds in every reachable state of the work queue.
THEOREM Invariance == Spec => []IInv
BY InitIInv, NextIInv, PTL DEF Spec

\* Type correctness of the queue's fields and of the workers' positions.
THEOREM TypeCorrect == Spec => []TypeOK
<1>1. IInv => TypeOK
  BY DEF IInv
<1>2. QED
  BY <1>1, Invariance, PTL

\* No key is lost or doubled (Add, Get and Done in queue.go), for any keys and
\* any workers.
THEOREM NoKeyLostOrDoubled == Spec => []QueueIsPendingWork
<1>1. IInv => QueueIsPendingWork
  BY DEF IInv
<1>2. QED
  BY <1>1, Invariance, PTL

\* No key is processed by two workers at once, and processing holds exactly the
\* keys the workers have (Get and Done in queue.go).
THEOREM NoKeyTwiceAtOnce == Spec => []OneWorkerPerKey
<1>1. IInv => OneWorkerPerKey
  BY DEF IInv
<1>2. QED
  BY <1>1, Invariance, PTL

\* No wake-up is lost: while a worker sleeps in cond.Wait, each queued key has
\* a woken worker coming for it.
THEOREM WakeupsSuffice == Spec => []NoLostWakeup
<1>1. IInv => NoLostWakeup
  BY DEF IInv
<1>2. QED
  BY <1>1, Invariance, PTL

\* The workers leave no work behind when they exit after ShutDown.
THEOREM ShutdownLeavesNothing == Spec => []ShutdownDrains
<1>1. IInv => ShutdownDrains
  BY DEF IInv
<1>2. QED
  BY <1>1, Invariance, PTL

-----------------------------------------------------------------------------
\* The queue implements the safety part of WorkSet: each method's effect on
\* dirty, processing and shuttingDown is a step of the promise or none.
THEOREM Refinement == Spec => Promise!Safety
<1>1. Init => Promise!Init
  BY DEF Init, Promise!Init
<1>2. IInv /\ [Next]_wqvars => [Promise!Next]_Promise!vars
  <2> SUFFICES ASSUME IInv, [Next]_wqvars PROVE [Promise!Next]_Promise!vars
    OBVIOUS
  <2>1. ASSUME NEW i \in Items, Add(i) PROVE [Promise!Next]_Promise!vars
    BY <2>1 DEF Add, AddIgnored, AddMarked, AddQueued, wqvars,
                Promise!Next, Promise!Mark, Promise!vars
  <2>2. ASSUME NEW w \in Workers, Get(w) PROVE [Promise!Next]_Promise!vars
    <3>1. CASE GetItem(w)
      <4>1. Head(queue) \in Items /\ Head(queue) \in RangeOf(queue)
        BY <3>1, TailDistinct DEF GetItem, IInv, TypeOK, QueueIsPendingWork
      <4>2. Head(queue) \in dirty \ processing
        BY <4>1 DEF IInv, QueueIsPendingWork
      <4>3. Promise!Start(Head(queue))
        BY <3>1, <4>2 DEF GetItem, Promise!Start
      <4>4. QED
        BY <4>1, <4>3 DEF Promise!Next
    <3>2. CASE GetWait(w) \/ GetShutdown(w)
      BY <3>2 DEF GetWait, GetShutdown, Promise!vars
    <3>3. QED
      BY <2>2, <3>1, <3>2 DEF Get
  <2>3. ASSUME NEW w \in Workers, Done(w) PROVE [Promise!Next]_Promise!vars
    <3>1. held[w] \in processing /\ held[w] \in Items
      BY <2>3 DEF Done, DoneRequeued, DoneClean, IInv, OneWorkerPerKey, TypeOK, At
    <3>2. Promise!Finish(held[w])
      BY <2>3, <3>1 DEF Done, DoneRequeued, DoneClean, Promise!Finish
    <3>3. QED
      BY <3>1, <3>2 DEF Promise!Next
  <2>4. CASE ShutDown
    BY <2>4 DEF ShutDown, Promise!Next, Promise!Close
  <2>5. CASE UNCHANGED wqvars
    BY <2>5 DEF wqvars, Promise!vars
  <2>6. QED
    BY <2>1, <2>2, <2>3, <2>4, <2>5 DEF Next
<1>3. QED
  BY <1>1, <1>2, Invariance, PTL DEF Spec, Promise!Safety

-----------------------------------------------------------------------------
(* The delaying queue.                                                     *)

-----------------------------------------------------------------------------
(* Removing from a slice, and inserting into it.                           *)

\* The entries from m to n.
LEMMA SubSeqIs ==
  ASSUME NEW S, NEW s \in Seq(S), NEW m \in 1 .. Len(s) + 1, NEW n \in m - 1 .. Len(s)
  PROVE  /\ SubSeq(s, m, n) \in Seq(S)
         /\ Len(SubSeq(s, m, n)) = n - m + 1
         /\ \A i \in 1 .. n - m + 1 : SubSeq(s, m, n)[i] = s[m + i - 1]
<1>1. Len(s) \in Nat
  OBVIOUS
<1>2. m \in Int /\ n \in Int /\ m <= n + 1 /\ n <= Len(s) /\ m >= 1
  BY <1>1
<1>3. \A i \in m .. n : s[i] \in S
  BY <1>1, <1>2
<1>4. /\ SubSeq(s, m, n) \in Seq(S)
      /\ Len(SubSeq(s, m, n)) = IF m <= n THEN n - m + 1 ELSE 0
      /\ \A i \in 1 .. n - m + 1 : SubSeq(s, m, n)[i] = s[m + i - 1]
  BY <1>2, <1>3, SubSeqProperties
<1>5. Len(SubSeq(s, m, n)) = n - m + 1
  BY <1>2, <1>4
<1> QED  BY <1>4, <1>5

\* A slice from its first entry to its last.
LEMMA WholeIs ==
  ASSUME NEW S, NEW s \in Seq(S)
  PROVE  SubSeq(s, 0 + 1, Len(s)) = s
<1>1. Len(s) \in Nat /\ 0 + 1 = 1 /\ 1 \in 1 .. Len(s) + 1 /\ Len(s) \in 1 - 1 .. Len(s)
  OBVIOUS
<1>2. /\ SubSeq(s, 1, Len(s)) \in Seq(S)
      /\ Len(SubSeq(s, 1, Len(s))) = Len(s) - 1 + 1
      /\ \A i \in 1 .. Len(s) - 1 + 1 : SubSeq(s, 1, Len(s))[i] = s[1 + i - 1]
  BY <1>1, SubSeqIs
<1>3. /\ Len(SubSeq(s, 1, Len(s))) = Len(s)
      /\ \A i \in 1 .. Len(s) : SubSeq(s, 1, Len(s))[i] = s[i]
  BY <1>1, <1>2
<1> QED  BY <1>1, <1>2, <1>3, SeqEqual

\* append(entries[:i], entries[i+1:]...): what follows moves up by one.
LEMMA RemoveIs ==
  ASSUME NEW S, NEW s \in Seq(S), NEW i \in 1 .. Len(s)
  PROVE  /\ RemoveAt(s, i) \in Seq(S)
         /\ Len(RemoveAt(s, i)) = Len(s) - 1
         /\ \A j \in 1 .. i - 1 : RemoveAt(s, i)[j] = s[j]
         /\ \A j \in i .. Len(s) - 1 : RemoveAt(s, i)[j] = s[j + 1]
<1> DEFINE a == SubSeq(s, 1, i - 1)
           b == SubSeq(s, i + 1, Len(s))
<1>1. Len(s) \in Nat /\ i \in Nat /\ 1 <= i /\ i <= Len(s)
  OBVIOUS
<1>2. a \in Seq(S) /\ Len(a) = i - 1 /\ \A j \in 1 .. i - 1 : a[j] = s[j]
  <2>1. 1 \in 1 .. Len(s) + 1 /\ i - 1 \in 1 - 1 .. Len(s)
    BY <1>1
  <2>2. /\ a \in Seq(S) /\ Len(a) = (i - 1) - 1 + 1
        /\ \A j \in 1 .. (i - 1) - 1 + 1 : a[j] = s[1 + j - 1]
    BY <2>1, SubSeqIs
  <2> QED  BY <1>1, <2>2
<1>3. b \in Seq(S) /\ Len(b) = Len(s) - i /\ \A j \in 1 .. Len(s) - i : b[j] = s[j + i]
  <2>1. i + 1 \in 1 .. Len(s) + 1 /\ Len(s) \in (i + 1) - 1 .. Len(s)
    BY <1>1
  <2>2. /\ b \in Seq(S) /\ Len(b) = Len(s) - (i + 1) + 1
        /\ \A j \in 1 .. Len(s) - (i + 1) + 1 : b[j] = s[(i + 1) + j - 1]
    BY <2>1, SubSeqIs
  <2> QED  BY <1>1, <2>2
<1>4. RemoveAt(s, i) = a \o b
  BY DEF RemoveAt
<1> HIDE DEF a, b
<1>5. /\ a \o b \in Seq(S) /\ Len(a \o b) = Len(a) + Len(b)
      /\ \A j \in 1 .. Len(a) + Len(b) :
           (a \o b)[j] = IF j <= Len(a) THEN a[j] ELSE b[j - Len(a)]
  BY <1>2, <1>3, ConcatProperties
<1>6. ASSUME NEW j \in 1 .. i - 1 PROVE (a \o b)[j] = s[j]
  BY <1>1, <1>2, <1>3, <1>5
<1>7. ASSUME NEW j \in i .. Len(s) - 1 PROVE (a \o b)[j] = s[j + 1]
  <2>1. j \in 1 .. Len(a) + Len(b) /\ ~(j <= Len(a)) /\ j - Len(a) = j - i + 1
    BY <1>1, <1>2, <1>3
  <2>2. (a \o b)[j] = b[j - i + 1]
    BY <1>5, <2>1
  <2>3. j - i + 1 \in 1 .. Len(s) - i /\ (j - i + 1) + i = j + 1
    BY <1>1
  <2> QED  BY <1>3, <2>2, <2>3
<1> QED  BY <1>1, <1>2, <1>3, <1>4, <1>5, <1>6, <1>7

\* insert grows the slice by one and shifts what follows.
LEMMA InsertIs ==
  ASSUME NEW S, NEW s \in Seq(S), NEW e \in S, NEW i \in 1 .. Len(s) + 1
  PROVE  /\ InsertAt(s, i, e) \in Seq(S)
         /\ Len(InsertAt(s, i, e)) = Len(s) + 1
         /\ \A j \in 1 .. i - 1 : InsertAt(s, i, e)[j] = s[j]
         /\ InsertAt(s, i, e)[i] = e
         /\ \A j \in i + 1 .. Len(s) + 1 : InsertAt(s, i, e)[j] = s[j - 1]
<1> DEFINE a == SubSeq(s, 1, i - 1)
           b == SubSeq(s, i, Len(s))
           c == a \o <<e>>
<1>1. Len(s) \in Nat /\ i \in Nat /\ 1 <= i /\ i <= Len(s) + 1
  OBVIOUS
<1>2. a \in Seq(S) /\ Len(a) = i - 1 /\ \A j \in 1 .. i - 1 : a[j] = s[j]
  <2>1. 1 \in 1 .. Len(s) + 1 /\ i - 1 \in 1 - 1 .. Len(s)
    BY <1>1
  <2>2. /\ a \in Seq(S) /\ Len(a) = (i - 1) - 1 + 1
        /\ \A j \in 1 .. (i - 1) - 1 + 1 : a[j] = s[1 + j - 1]
    BY <2>1, SubSeqIs
  <2> QED  BY <1>1, <2>2
<1>3. b \in Seq(S) /\ Len(b) = Len(s) - i + 1 /\ \A j \in 1 .. Len(s) - i + 1 : b[j] = s[i + j - 1]
  <2>1. Len(s) \in i - 1 .. Len(s)
    BY <1>1
  <2> QED  BY <2>1, SubSeqIs
<1>4. InsertAt(s, i, e) = c \o b
  BY DEF InsertAt
<1>5. /\ c \in Seq(S) /\ Len(c) = i /\ c[i] = e
      /\ \A j \in 1 .. i - 1 : c[j] = s[j]
  <2>1. <<e>> \in Seq(S) /\ Len(<<e>>) = 1 /\ <<e>>[1] = e
    OBVIOUS
  <2> HIDE DEF a
  <2>2. /\ c \in Seq(S) /\ Len(c) = Len(a) + Len(<<e>>)
        /\ \A j \in 1 .. Len(a) + Len(<<e>>) :
             c[j] = IF j <= Len(a) THEN a[j] ELSE <<e>>[j - Len(a)]
    BY <1>2, <2>1, ConcatProperties
  <2>3. c[i] = e
    BY <1>1, <1>2, <2>1, <2>2
  <2>4. ASSUME NEW j \in 1 .. i - 1 PROVE c[j] = s[j]
    BY <1>1, <1>2, <2>1, <2>2
  <2> QED  BY <1>1, <1>2, <2>1, <2>2, <2>3, <2>4
<1> HIDE DEF b, c
<1>6. /\ c \o b \in Seq(S) /\ Len(c \o b) = Len(c) + Len(b)
      /\ \A j \in 1 .. Len(c) + Len(b) :
           (c \o b)[j] = IF j <= Len(c) THEN c[j] ELSE b[j - Len(c)]
  BY <1>3, <1>5, ConcatProperties
<1>7. ASSUME NEW j \in 1 .. i PROVE (c \o b)[j] = c[j]
  BY <1>1, <1>3, <1>5, <1>6
<1>8. ASSUME NEW j \in i + 1 .. Len(s) + 1 PROVE (c \o b)[j] = s[j - 1]
  <2>1. j \in 1 .. Len(c) + Len(b) /\ ~(j <= Len(c))
    BY <1>1, <1>3, <1>5
  <2>2. (c \o b)[j] = b[j - i]
    BY <1>5, <1>6, <2>1
  <2>3. j - i \in 1 .. Len(s) - i + 1 /\ i + (j - i) - 1 = j - 1
    BY <1>1
  <2> QED  BY <1>3, <2>2, <2>3
<1>9. i \in 1 .. i /\ \A j \in 1 .. i - 1 : j \in 1 .. i
  BY <1>1
<1> QED  BY <1>1, <1>3, <1>4, <1>5, <1>6, <1>7, <1>8, <1>9


-----------------------------------------------------------------------------
(* The slice and the map.                                                  *)

\* Earlier times come first, and no key comes twice.
Ordered(w) ==
  \A i, j \in 1 .. Len(w) : i < j => w[i].readyAt <= w[j].readyAt /\ w[i].data # w[j].data

\* The map t has the time of every entry, and no other.
Mapped(w, t) ==
  /\ \A x \in ToSet(w) : x.data \in DOMAIN t /\ t[x.data] = x.readyAt
  /\ \A k \in DOMAIN t : \E x \in ToSet(w) : x.data = k

MapTyped(t) == DOMAIN t \subseteq Items /\ \A k \in DOMAIN t : t[k] \in Times

\* The entries of a slice and its places.
LEMMA Members ==
  ASSUME NEW S, NEW w \in Seq(S)
  PROVE  /\ ToSet(w) \subseteq S /\ Len(w) \in Nat
         /\ \A i \in 1 .. Len(w) : w[i] \in ToSet(w)
         /\ \A x \in ToSet(w) : \E i \in 1 .. Len(w) : w[i] = x
BY DEF ToSet

\* The parts of an entry.
LEMMA EntryIs ==
  ASSUME NEW e \in Entry
  PROVE  e.data \in Items /\ e.readyAt \in Times /\ e.readyAt \in Nat /\ e.readyAt <= Horizon
BY Bounds DEF Entry, Times

\* Only what was asked for is found, and the first of it.
LEMMA SearchIs ==
  ASSUME NEW n \in Nat, NEW hits \in SUBSET (1 .. n)
  PROVE  /\ Search(n, hits) \in 1 .. n + 1
         /\ hits = {} => Search(n, hits) = n + 1
         /\ hits # {} => Search(n, hits) \in hits /\ \A j \in hits : Search(n, hits) <= j
<1>1. CASE hits = {}
  BY <1>1 DEF Search
<1>2. CASE hits # {}
  <2>1. \E i \in hits : \A j \in hits : i <= j
    BY <1>2, LeastExists
  <2> DEFINE s == CHOOSE i \in hits : \A j \in hits : i <= j
  <2>2. s \in hits /\ \A j \in hits : s <= j
    BY <2>1
  <2>3. Search(n, hits) = s
    BY <1>2 DEF Search
  <2> HIDE DEF s
  <2> QED  BY <1>2, <2>2, <2>3
<1> QED  BY <1>1, <1>2

\* The binary search for a key the map knows finds its entry, as the entries
\* before the ones at its time are strictly earlier.
LEMMA FindsEntry ==
  ASSUME NEW w \in Seq(Entry), NEW i \in 1 .. Len(w), Ordered(w)
  PROVE  findEntryIndex(w, w[i].readyAt, w[i].data) = i
<1> DEFINE n == Len(w)
           late == {j \in 1 .. n : w[j].readyAt >= w[i].readyAt}
           first == Search(n, late)
           same == {j \in first .. n : w[j].data = w[i].data}
<1>0. n \in Nat /\ \A j \in 1 .. n : w[j].readyAt \in Nat /\ w[j].data \in Items
  <2>1. n \in Nat /\ \A j \in 1 .. n : w[j] \in Entry
    OBVIOUS
  <2> QED  BY <2>1, EntryIs
<1>1. i \in late /\ late \in SUBSET (1 .. n)
  BY <1>0
<1>2. first \in 1 .. n /\ first <= i
  <2> HIDE DEF late
  <2>1. late # {}
    BY <1>1
  <2>2. Search(n, late) \in late /\ \A j \in late : Search(n, late) <= j
    BY <1>0, <1>1, <2>1, SearchIs
  <2> QED  BY <1>1, <2>2
<1>3. findEntryIndex(w, w[i].readyAt, w[i].data) = Search(n, same)
  BY DEF findEntryIndex
<1> HIDE DEF first
<1>4. same = {i}
  <2>1. i \in same
    BY <1>0, <1>2
  <2>2. ASSUME NEW j \in same PROVE j = i
    BY <1>0, <1>2, <2>2 DEF Ordered
  <2> QED  BY <2>1, <2>2
<1>5. Search(n, same) \in same
  <2>1. same \in SUBSET (1 .. n)
    BY <1>4
  <2> QED  BY <1>0, <1>4, <2>1, SearchIs
<1> QED  BY <1>3, <1>4, <1>5

\* Without one entry the slice stays ordered.
LEMMA RemoveOrdered ==
  ASSUME NEW w \in Seq(Entry), NEW i \in 1 .. Len(w), Ordered(w)
  PROVE  /\ RemoveAt(w, i) \in Seq(Entry) /\ Ordered(RemoveAt(w, i))
         /\ ToSet(RemoveAt(w, i)) = {x \in ToSet(w) : x.data # w[i].data}
<1> DEFINE u == RemoveAt(w, i)
           from(j) == IF j < i THEN j ELSE j + 1
<1>1. Len(w) \in Nat /\ i \in Nat /\ 1 <= i /\ i <= Len(w)
  OBVIOUS
<1>2. /\ u \in Seq(Entry) /\ Len(u) = Len(w) - 1
      /\ \A j \in 1 .. i - 1 : u[j] = w[j]
      /\ \A j \in i .. Len(w) - 1 : u[j] = w[j + 1]
  BY RemoveIs
<1> HIDE DEF u
<1>3. ASSUME NEW j \in 1 .. Len(u)
      PROVE  from(j) \in 1 .. Len(w) /\ from(j) # i /\ u[j] = w[from(j)]
  <2>1. CASE j < i
    <3>1. j \in 1 .. i - 1 /\ j \in 1 .. Len(w) /\ j # i /\ from(j) = j
      BY <1>1, <2>1
    <3> QED  BY <1>2, <3>1
  <2>2. CASE ~(j < i)
    <3>1. j \in i .. Len(w) - 1 /\ j + 1 \in 1 .. Len(w) /\ j + 1 # i /\ from(j) = j + 1
      BY <1>1, <1>2, <2>2
    <3> QED  BY <1>2, <3>1
  <2> QED  BY <2>1, <2>2
<1>4. ASSUME NEW j \in 1 .. Len(w), j # i
      PROVE  \E m \in 1 .. Len(u) : u[m] = w[j]
  <2>1. CASE j < i
    <3>1. j \in 1 .. i - 1 /\ j \in 1 .. Len(u)
      BY <1>1, <1>2, <2>1
    <3> QED  BY <1>2, <3>1
  <2>2. CASE j > i
    <3>1. j - 1 \in i .. Len(w) - 1 /\ (j - 1) + 1 = j /\ j - 1 \in 1 .. Len(u)
      BY <1>1, <1>2, <2>2
    <3>2. u[j - 1] = w[j]
      BY <1>2, <3>1
    <3> QED  BY <3>1, <3>2
  <2> QED  BY <1>1, <1>4, <2>1, <2>2
<1>5. Ordered(u)
  <2> SUFFICES ASSUME NEW j \in 1 .. Len(u), NEW m \in 1 .. Len(u), j < m
               PROVE  u[j].readyAt <= u[m].readyAt /\ u[j].data # u[m].data
    BY DEF Ordered
  <2>1. from(j) < from(m)
    BY <1>1, <1>2
  <2>2. /\ from(j) \in 1 .. Len(w) /\ u[j] = w[from(j)]
        /\ from(m) \in 1 .. Len(w) /\ u[m] = w[from(m)]
    BY <1>3
  <2> HIDE DEF from
  <2> QED  BY <2>1, <2>2 DEF Ordered
<1>6. ASSUME NEW j \in 1 .. Len(w) PROVE j # i <=> w[j].data # w[i].data
  BY <1>1 DEF Ordered
<1>7. ASSUME NEW x \in ToSet(u) PROVE x \in ToSet(w) /\ x.data # w[i].data
  <2>1. PICK j \in 1 .. Len(u) : u[j] = x
    BY <1>2, Members
  <2>2. from(j) \in 1 .. Len(w) /\ from(j) # i /\ x = w[from(j)]
    BY <1>3, <2>1
  <2> HIDE DEF from
  <2> QED  BY <1>6, <2>2, Members
<1>8. ASSUME NEW x \in ToSet(w), x.data # w[i].data PROVE x \in ToSet(u)
  <2>1. PICK j \in 1 .. Len(w) : w[j] = x
    BY Members
  <2>2. j # i
    BY <1>8, <2>1
  <2>3. PICK m \in 1 .. Len(u) : u[m] = x
    BY <1>4, <2>1, <2>2
  <2> QED  BY <1>2, <2>3, Members
<1>9. ToSet(u) = {x \in ToSet(w) : x.data # w[i].data}
  BY <1>7, <1>8
<1> QED  BY <1>2, <1>5, <1>9 DEF u

Place(w, e) == Search(Len(w), {i \in DOMAIN w : e.readyAt < w[i].readyAt})

\* Where the binary search for the place of an entry ends.
LEMMA PlaceIs ==
  ASSUME NEW w \in Seq(Entry), NEW e \in Entry, Ordered(w)
  PROVE  /\ Place(w, e) \in 1 .. Len(w) + 1
         /\ \A j \in 1 .. Len(w) : j < Place(w, e) => w[j].readyAt <= e.readyAt
         /\ \A j \in 1 .. Len(w) : j >= Place(w, e) => e.readyAt <= w[j].readyAt
<1> DEFINE later == {i \in DOMAIN w : e.readyAt < w[i].readyAt}
           i == Search(Len(w), later)
<1>0. /\ Len(w) \in Nat /\ DOMAIN w = 1 .. Len(w)
      /\ \A j \in 1 .. Len(w) : w[j].readyAt \in Nat
      /\ e.readyAt \in Nat
  <2>1. Len(w) \in Nat /\ DOMAIN w = 1 .. Len(w) /\ \A j \in 1 .. Len(w) : w[j] \in Entry
    OBVIOUS
  <2> QED  BY <2>1, EntryIs
<1>1. /\ i \in 1 .. Len(w) + 1
      /\ later = {} => i = Len(w) + 1
      /\ later # {} => i \in later /\ \A j \in later : i <= j
  <2>1. later \in SUBSET (1 .. Len(w))
    BY <1>0
  <2> HIDE DEF later
  <2> QED  BY <1>0, <2>1, SearchIs
<1> HIDE DEF i
<1>2. ASSUME NEW j \in 1 .. Len(w), j < i PROVE w[j].readyAt <= e.readyAt
  <2>1. j \notin later
    <3> SUFFICES ASSUME j \in later PROVE FALSE
      OBVIOUS
    <3>1. i <= j /\ i \in Nat
      BY <1>0, <1>1
    <3> QED  BY <1>2, <3>1
  <2> QED  BY <1>0, <2>1
<1>3. ASSUME NEW j \in 1 .. Len(w), j >= i PROVE e.readyAt <= w[j].readyAt
  <2>1. i \in later /\ i \in 1 .. Len(w)
    BY <1>0, <1>1, <1>3
  <2>2. w[i].readyAt <= w[j].readyAt
    BY <1>0, <1>3, <2>1 DEF Ordered
  <2> QED  BY <1>0, <2>1, <2>2
<1>4. Place(w, e) = i
  BY DEF Place, i
<1> QED  BY <1>1, <1>2, <1>3, <1>4

\* An entry put before the first one that is later keeps the slice ordered.
LEMMA InsertOrdered ==
  ASSUME NEW w \in Seq(Entry), NEW e \in Entry, Ordered(w), \A x \in ToSet(w) : x.data # e.data,
         NEW i \in 1 .. Len(w) + 1,
         \A j \in 1 .. Len(w) : j < i => w[j].readyAt <= e.readyAt,
         \A j \in 1 .. Len(w) : j >= i => e.readyAt <= w[j].readyAt
  PROVE  /\ InsertAt(w, i, e) \in Seq(Entry) /\ Ordered(InsertAt(w, i, e))
         /\ ToSet(InsertAt(w, i, e)) = ToSet(w) \cup {e}
<1> DEFINE v == InsertAt(w, i, e)
<1>0. Len(w) \in Nat
  OBVIOUS
<1>1. i \in 1 .. Len(w) + 1
  OBVIOUS
<1>2. /\ \A j \in 1 .. Len(w) : j < i => w[j].readyAt <= e.readyAt
      /\ \A j \in 1 .. Len(w) : j >= i => e.readyAt <= w[j].readyAt
  OBVIOUS
<1>3. /\ v \in Seq(Entry) /\ Len(v) = Len(w) + 1
      /\ \A j \in 1 .. i - 1 : v[j] = w[j]
      /\ v[i] = e
      /\ \A j \in i + 1 .. Len(w) + 1 : v[j] = w[j - 1]
  BY <1>1, InsertIs
<1> HIDE DEF v
<1>4. \A j \in 1 .. Len(w) : w[j].data # e.data
  BY Members
<1>5. Ordered(v)
  <2> SUFFICES ASSUME NEW j \in 1 .. Len(v), NEW m \in 1 .. Len(v), j < m
               PROVE  v[j].readyAt <= v[m].readyAt /\ v[j].data # v[m].data
    BY DEF Ordered
  <2>1. CASE m < i
    <3>1. j \in 1 .. i - 1 /\ m \in 1 .. i - 1 /\ j \in 1 .. Len(w) /\ m \in 1 .. Len(w)
      BY <1>0, <1>1, <1>3, <2>1
    <3> QED  BY <1>3, <3>1 DEF Ordered
  <2>2. CASE m = i
    <3>1. j \in 1 .. i - 1 /\ j \in 1 .. Len(w) /\ j < i
      BY <1>0, <1>1, <1>3, <2>2
    <3>2. v[j] = w[j] /\ v[m] = e
      BY <1>3, <2>2, <3>1
    <3>3. w[j].readyAt <= e.readyAt
      BY <1>2, <3>1
    <3>4. w[j].data # e.data
      BY <1>4, <3>1
    <3> QED  BY <3>2, <3>3, <3>4
  <2>3. CASE m > i /\ j = i
    <3>1. m \in i + 1 .. Len(w) + 1 /\ m - 1 \in 1 .. Len(w) /\ m - 1 >= i
      BY <1>0, <1>1, <1>3, <2>3
    <3>2. v[m] = w[m - 1]
      BY <1>3, <3>1
    <3> QED  BY <1>2, <1>3, <1>4, <2>3, <3>1, <3>2
  <2>4. CASE m > i /\ j < i
    <3>1. /\ m \in i + 1 .. Len(w) + 1 /\ m - 1 \in 1 .. Len(w)
          /\ j \in 1 .. i - 1 /\ j \in 1 .. Len(w) /\ j < m - 1
      BY <1>0, <1>1, <1>3, <2>4
    <3>2. v[m] = w[m - 1] /\ v[j] = w[j]
      BY <1>3, <3>1
    <3> QED  BY <3>1, <3>2 DEF Ordered
  <2>5. CASE m > i /\ j > i
    <3>1. /\ m \in i + 1 .. Len(w) + 1 /\ m - 1 \in 1 .. Len(w)
          /\ j \in i + 1 .. Len(w) + 1 /\ j - 1 \in 1 .. Len(w) /\ j - 1 < m - 1
      BY <1>0, <1>1, <1>3, <2>5
    <3>2. v[m] = w[m - 1] /\ v[j] = w[j - 1]
      BY <1>3, <3>1
    <3> QED  BY <3>1, <3>2 DEF Ordered
  <2>6. i \in Nat /\ j \in Nat /\ m \in Nat
    BY <1>0, <1>1, <1>3
  <2>7. m < i \/ m = i \/ (m > i /\ j = i) \/ (m > i /\ j < i) \/ (m > i /\ j > i)
    BY <2>6
  <2> QED  BY <2>1, <2>2, <2>3, <2>4, <2>5, <2>7
<1>6. ASSUME NEW x \in ToSet(v) PROVE x \in ToSet(w) \cup {e}
  <2>1. PICK j \in 1 .. Len(v) : v[j] = x
    BY <1>3, Members
  <2>2. CASE j < i
    <3>1. j \in 1 .. i - 1 /\ j \in 1 .. Len(w)
      BY <1>0, <1>1, <2>2
    <3> QED  BY <1>3, <2>1, <3>1, Members
  <2>3. CASE j = i
    BY <1>3, <2>1, <2>3
  <2>4. CASE j > i
    <3>1. j \in i + 1 .. Len(w) + 1 /\ j - 1 \in 1 .. Len(w)
      BY <1>0, <1>1, <1>3, <2>4
    <3>2. x = w[j - 1]
      BY <1>3, <2>1, <3>1
    <3> QED  BY <3>1, <3>2, Members
  <2> QED  BY <1>1, <1>3, <2>2, <2>3, <2>4
<1>7. ASSUME NEW x \in ToSet(w) PROVE x \in ToSet(v)
  <2>1. PICK j \in 1 .. Len(w) : w[j] = x
    BY Members
  <2>2. CASE j < i
    <3>1. j \in 1 .. i - 1 /\ j \in 1 .. Len(v)
      BY <1>0, <1>1, <1>3, <2>2
    <3>2. v[j] = x
      BY <1>3, <2>1, <3>1
    <3> QED  BY <1>3, <3>1, <3>2, Members
  <2>3. CASE j >= i
    <3>1. j + 1 \in i + 1 .. Len(w) + 1 /\ j + 1 \in 1 .. Len(v) /\ (j + 1) - 1 = j
      BY <1>0, <1>1, <1>3, <2>3
    <3>2. v[j + 1] = x
      BY <1>3, <2>1, <3>1
    <3> QED  BY <1>3, <3>1, <3>2, Members
  <2> QED  BY <1>1, <2>2, <2>3
<1>8. e \in ToSet(v)
  <2>1. i \in 1 .. Len(v)
    BY <1>0, <1>1, <1>3
  <2> QED  BY <1>3, <2>1, Members
<1> QED  BY <1>3, <1>5, <1>6, <1>7, <1>8 DEF v


\* insert keeps slice and map in agreement.  Nothing comes into the slice but
\* the new entry, and of each entry, the new one included, the key stays with
\* that time or an earlier one.
LEMMA InsertGood ==
  ASSUME NEW w \in Seq(Entry), NEW t, NEW e \in Entry, Ordered(w), Mapped(w, t), MapTyped(t)
  PROVE  LET r == insert(w, t, e)
         IN  /\ r[1] \in Seq(Entry) /\ Ordered(r[1])
             /\ Mapped(r[1], r[2]) /\ MapTyped(r[2])
             /\ ToSet(r[1]) \subseteq ToSet(w) \cup {e}
             /\ \A x \in ToSet(w) \cup {e} :
                  \E y \in ToSet(r[1]) : y.data = x.data /\ y.readyAt <= x.readyAt
<1> DEFINE r == insert(w, t, e)
           exists == e.data \in DOMAIN t
           at == findEntryIndex(w, t[e.data], e.data)
           u == IF exists /\ at <= Len(w) THEN RemoveAt(w, at) ELSE w
           index == Place(u, e)
<1>0. /\ e.data \in Items /\ e.readyAt \in Times /\ e.readyAt \in Nat
      /\ \A x \in ToSet(w) : x \in Entry /\ x.readyAt \in Nat
  BY Members, EntryIs
<1>1. r = IF exists /\ t[e.data] < e.readyAt THEN <<w, t>>
          ELSE <<InsertAt(u, index, e), With(t, e)>>
  BY DEF insert, Place
<1>2. CASE exists /\ t[e.data] < e.readyAt
  <2>1. r[1] = w /\ r[2] = t
    BY <1>1, <1>2
  <2>2. PICK y \in ToSet(w) : y.data = e.data
    BY <1>2 DEF Mapped
  <2>3. y.readyAt <= e.readyAt
    BY <1>0, <1>2, <2>2 DEF Mapped
  <2>4. \A x \in ToSet(w) : x.readyAt <= x.readyAt
    BY <1>0
  <2> HIDE DEF r
  <2> QED  BY <2>1, <2>2, <2>3, <2>4 DEF r
<1>3. CASE ~(exists /\ t[e.data] < e.readyAt)
  <2>1. /\ u \in Seq(Entry) /\ Ordered(u)
        /\ ToSet(u) = {x \in ToSet(w) : x.data # e.data}
    <3>1. CASE exists
      <4>1. PICK x \in ToSet(w) : x.data = e.data
        BY <3>1 DEF Mapped
      <4>2. PICK i \in 1 .. Len(w) : w[i] = x
        BY <4>1, Members
      <4>3. t[e.data] = w[i].readyAt /\ w[i].data = e.data
        BY <4>1, <4>2 DEF Mapped
      <4>4. at = i
        BY <4>3, FindsEntry
      <4>5. u = RemoveAt(w, i)
        BY <3>1, <4>4, Members
      <4> HIDE DEF u
      <4> QED  BY <4>3, <4>5, RemoveOrdered
    <3>2. CASE ~exists
      <4>1. u = w
        BY <3>2
      <4>2. \A x \in ToSet(w) : x.data # e.data
        BY <3>2 DEF Mapped
      <4> HIDE DEF u
      <4> QED  BY <4>1, <4>2
    <3> QED  BY <3>1, <3>2
  <2> HIDE DEF u
  <2>2. /\ index \in 1 .. Len(u) + 1
        /\ \A j \in 1 .. Len(u) : j < index => u[j].readyAt <= e.readyAt
        /\ \A j \in 1 .. Len(u) : j >= index => e.readyAt <= u[j].readyAt
    BY <2>1, PlaceIs
  <2> HIDE DEF index
  <2>3. \A x \in ToSet(u) : x.data # e.data
    BY <2>1
  <2> DEFINE v == InsertAt(u, index, e)
  <2>4. v \in Seq(Entry) /\ Ordered(v) /\ ToSet(v) = ToSet(u) \cup {e}
    BY <2>1, <2>2, <2>3, InsertOrdered
  <2>5. r[1] = v /\ r[2] = With(t, e)
    BY <1>1, <1>3
  <2> HIDE DEF v, r
  <2>6. ToSet(v) = {x \in ToSet(w) : x.data # e.data} \cup {e}
    BY <2>1, <2>4
  <2>7. Mapped(v, With(t, e))
    BY <2>6 DEF Mapped, With
  <2>8. MapTyped(With(t, e))
    BY <1>0 DEF MapTyped, With
  <2>9. ASSUME NEW x \in ToSet(w) \cup {e}
        PROVE  \E y \in ToSet(v) : y.data = x.data /\ y.readyAt <= x.readyAt
    <3>1. CASE x.data # e.data
      BY <1>0, <2>6, <2>9, <3>1
    <3>2. CASE x.data = e.data
      <4>1. e.readyAt <= x.readyAt
        BY <1>0, <1>3, <3>2 DEF Mapped
      <4> QED  BY <2>6, <3>2, <4>1
    <3> QED  BY <3>1, <3>2
  <2> QED  BY <2>4, <2>5, <2>6, <2>7, <2>8, <2>9 DEF r
<1> QED  BY <1>2, <1>3

\* The first entry leaves slice and map.
LEMMA TailGood ==
  ASSUME NEW w \in Seq(Entry), w # <<>>, NEW t, Ordered(w), Mapped(w, t), MapTyped(t),
         NEW u, u = [k \in DOMAIN t \ {Head(w).data} |-> t[k]]
  PROVE  /\ Tail(w) \in Seq(Entry) /\ Ordered(Tail(w))
         /\ Mapped(Tail(w), u) /\ MapTyped(u)
         /\ Head(w) \in ToSet(w)
         /\ ToSet(Tail(w)) = {x \in ToSet(w) : x.data # Head(w).data}
<1>1. /\ 1 \in 1 .. Len(w) /\ Len(w) \in Nat /\ Head(w) = w[1]
      /\ Tail(w) \in Seq(Entry) /\ Len(Tail(w)) = Len(w) - 1
      /\ \A j \in 1 .. Len(w) - 1 : Tail(w)[j] = w[j + 1]
  OBVIOUS
<1>2. Head(w) \in ToSet(w)
  BY <1>1, Members
<1>3. Ordered(Tail(w))
  <2> SUFFICES ASSUME NEW i \in 1 .. Len(w) - 1, NEW j \in 1 .. Len(w) - 1, i < j
               PROVE  /\ Tail(w)[i].readyAt <= Tail(w)[j].readyAt
                      /\ Tail(w)[i].data # Tail(w)[j].data
    BY <1>1 DEF Ordered
  <2>1. i + 1 \in 1 .. Len(w) /\ j + 1 \in 1 .. Len(w) /\ i + 1 < j + 1
    BY <1>1
  <2>2. Tail(w)[i] = w[i + 1] /\ Tail(w)[j] = w[j + 1]
    BY <1>1
  <2> QED  BY <2>1, <2>2 DEF Ordered
<1>4. ASSUME NEW x \in ToSet(Tail(w)) PROVE x \in ToSet(w) /\ x.data # Head(w).data
  <2>1. PICK j \in 1 .. Len(Tail(w)) : Tail(w)[j] = x
    BY <1>1, Members
  <2>2. j + 1 \in 1 .. Len(w) /\ 1 < j + 1 /\ w[j + 1] = x
    BY <1>1, <2>1
  <2>3. w[1].data # w[j + 1].data
    BY <1>1, <2>2 DEF Ordered
  <2> QED  BY <1>1, <2>2, <2>3, Members
<1>5. ASSUME NEW x \in ToSet(w), x.data # Head(w).data PROVE x \in ToSet(Tail(w))
  <2>1. PICK j \in 1 .. Len(w) : w[j] = x
    BY Members
  <2>2. j # 1
    BY <1>1, <1>5, <2>1
  <2>3. j - 1 \in 1 .. Len(Tail(w)) /\ j - 1 \in 1 .. Len(w) - 1 /\ (j - 1) + 1 = j
    BY <1>1, <2>2
  <2>4. Tail(w)[j - 1] = x
    BY <1>1, <2>1, <2>3
  <2> QED  BY <1>1, <2>3, <2>4, Members
<1>6. ToSet(Tail(w)) = {x \in ToSet(w) : x.data # Head(w).data}
  BY <1>4, <1>5
<1>7. Mapped(Tail(w), u) /\ MapTyped(u)
  BY <1>6 DEF Mapped, MapTyped
<1> QED  BY <1>1, <1>2, <1>3, <1>6, <1>7


-----------------------------------------------------------------------------
(* The invariant.                                                          *)

\* Outside the loop over the ready entries none is counted as added, and in it
\* now is not ahead of the clock.
RoundOK ==
  /\ loop # "ready" => readyEntries = 0
  /\ loop = "ready" => now <= clock

\* The slice that is still to be added is ordered, and the map is its own.
SliceOK == Ordered(Waiting) /\ Mapped(Waiting, waitingTimeByEntry)

\* No entry on its way comes before the earliest request for its key.
Timely ==
  \A e \in ToSet(waitingForAddCh) \cup ToSet(Waiting) : earliest[e.data] <= e.readyAt

DelayingInv == DelayingTypeOK /\ RoundOK /\ SliceOK /\ Timely /\ NoRequestPostponed

\* Waiting is a slice of the same entries: all of them outside the loop over
\* the ready ones, and inside it one less with every Add.
LEMMA WaitingIs ==
  ASSUME DelayingTypeOK
  PROVE  /\ Waiting \in Seq(Entry)
         /\ Len(Waiting) = Len(waitingForAdd) - readyEntries
         /\ readyEntries = 0 => Waiting = waitingForAdd
         /\ readyEntries < Len(waitingForAdd) =>
              /\ Waiting # <<>>
              /\ Head(Waiting) = waitingForAdd[readyEntries + 1]
              /\ Tail(Waiting) = SubSeq(waitingForAdd, readyEntries + 2, Len(waitingForAdd))
<1> DEFINE s == waitingForAdd
           m == readyEntries + 1
           n == Len(s)
<1>1. /\ s \in Seq(Entry) /\ n \in Nat /\ readyEntries \in Nat
      /\ m \in 1 .. n + 1 /\ n \in m - 1 .. n
  BY DEF DelayingTypeOK
<1>2. /\ SubSeq(s, m, n) \in Seq(Entry)
      /\ Len(SubSeq(s, m, n)) = n - m + 1
      /\ \A i \in 1 .. n - m + 1 : SubSeq(s, m, n)[i] = s[m + i - 1]
  <2> HIDE DEF s, m, n
  <2>1. n = Len(s)
    BY DEF n
  <2> QED  BY <1>1, <2>1, SubSeqIs
<1>3. Waiting = SubSeq(s, m, n)
  BY DEF Waiting
<1>4. Len(Waiting) = n - readyEntries
  BY <1>1, <1>2, <1>3
<1>5. ASSUME readyEntries = 0 PROVE Waiting = s
  BY <1>1, <1>3, <1>5, WholeIs
<1>6. ASSUME readyEntries < n
      PROVE  Waiting # <<>> /\ Head(Waiting) = s[m] /\ Tail(Waiting) = SubSeq(s, m + 1, n)
  <2>1. m \in 1 .. n /\ n \in m .. n
    BY <1>1, <1>6
  <2>2. Head(SubSeq(s, m, n)) = s[m] /\ Tail(SubSeq(s, m, n)) = SubSeq(s, m + 1, n)
    <3> HIDE DEF s, m
    <3> QED  BY <1>1, <2>1, HeadTailOfSubSeq
  <2>3. Len(Waiting) # 0
    BY <1>1, <1>4, <1>6
  <2> QED  BY <1>2, <1>3, <2>2, <2>3
<1>7. m + 1 = readyEntries + 2
  BY <1>1
<1> QED  BY <1>2, <1>3, <1>4, <1>5, <1>6, <1>7

\* A send adds one entry to those in the channel.
LEMMA ChannelAppend ==
  ASSUME NEW S, NEW s \in Seq(S), NEW e \in S
  PROVE  Append(s, e) \in Seq(S) /\ ToSet(Append(s, e)) = ToSet(s) \cup {e}
<1>1. /\ Append(s, e) \in Seq(S) /\ DOMAIN Append(s, e) = 1 .. Len(s) + 1
      /\ Len(s) \in Nat /\ DOMAIN s = 1 .. Len(s)
      /\ \A i \in 1 .. Len(s) : Append(s, e)[i] = s[i]
      /\ Append(s, e)[Len(s) + 1] = e
  OBVIOUS
<1> QED  BY <1>1 DEF ToSet

\* A receive takes the first entry out of the channel.
LEMMA ChannelTail ==
  ASSUME NEW S, NEW s \in Seq(S), s # <<>>
  PROVE  /\ Head(s) \in S /\ Tail(s) \in Seq(S) /\ Len(Tail(s)) <= Len(s)
         /\ ToSet(s) = {Head(s)} \cup ToSet(Tail(s))
<1>1. /\ Head(s) = s[1] /\ Tail(s) \in Seq(S) /\ Len(Tail(s)) = Len(s) - 1
      /\ Len(s) \in Nat /\ 1 \in 1 .. Len(s)
      /\ \A i \in 1 .. Len(s) - 1 : Tail(s)[i] = s[i + 1]
  OBVIOUS
<1>2. ASSUME NEW x \in ToSet(s) PROVE x \in {Head(s)} \cup ToSet(Tail(s))
  <2>1. PICK i \in 1 .. Len(s) : s[i] = x
    BY Members
  <2>2. CASE i = 1
    BY <1>1, <2>1, <2>2
  <2>3. CASE i # 1
    <3>1. i - 1 \in 1 .. Len(Tail(s)) /\ (i - 1) + 1 = i
      BY <1>1, <2>3
    <3>2. Tail(s)[i - 1] = x
      BY <1>1, <2>1, <3>1
    <3> QED  BY <1>1, <3>1, <3>2, Members
  <2> QED  BY <2>2, <2>3
<1>3. ASSUME NEW x \in ToSet(Tail(s)) PROVE x \in ToSet(s)
  <2>1. PICK i \in 1 .. Len(Tail(s)) : Tail(s)[i] = x
    BY <1>1, Members
  <2>2. i + 1 \in 1 .. Len(s) /\ s[i + 1] = x
    BY <1>1, <2>1
  <2> QED  BY <2>2, Members
<1>4. Head(s) \in ToSet(s)
  BY <1>1, Members
<1> QED  BY <1>1, <1>2, <1>3, <1>4

\* What the properties say, from the invariant.
LEMMA DelayingInvImplies == DelayingInv => SliceMatchesMap
<1> SUFFICES ASSUME DelayingInv PROVE SliceMatchesMap
  OBVIOUS
<1>1. Waiting \in Seq(Entry) /\ DOMAIN Waiting = 1 .. Len(Waiting)
  BY WaitingIs DEF DelayingInv
<1>2. \A i, j \in DOMAIN Waiting :
        i < j => Waiting[i].readyAt <= Waiting[j].readyAt /\ Waiting[i].data # Waiting[j].data
  BY <1>1 DEF DelayingInv, SliceOK, Ordered
<1>3. {<<e.data, e.readyAt>> : e \in ToSet(Waiting)}
        = {<<k, waitingTimeByEntry[k]>> : k \in DOMAIN waitingTimeByEntry}
  <2>1. ASSUME NEW e \in ToSet(Waiting)
        PROVE  <<e.data, e.readyAt>> \in {<<k, waitingTimeByEntry[k]>> : k \in DOMAIN waitingTimeByEntry}
    BY DEF DelayingInv, SliceOK, Mapped
  <2>2. ASSUME NEW k \in DOMAIN waitingTimeByEntry
        PROVE  <<k, waitingTimeByEntry[k]>> \in {<<e.data, e.readyAt>> : e \in ToSet(Waiting)}
    BY DEF DelayingInv, SliceOK, Mapped
  <2> QED  BY <2>1, <2>2
<1> QED  BY <1>2, <1>3 DEF SliceMatchesMap

\* A new queue has nothing on its way.
LEMMA DelayingInitInv == DelayingInit => DelayingInv
<1> SUFFICES ASSUME DelayingInit PROVE DelayingInv
  OBVIOUS
<1>1. DelayingTypeOK
  <2>1. /\ <<>> \in Seq(Entry) /\ Len(<<>>) = 0 /\ 0 \in Times
        /\ Never \in Nat /\ Never \in 0 .. Never /\ 0 <= ChanCap
    BY Bounds DEF Times, Never
  <2>2. DOMAIN waitingTimeByEntry = {} /\ readyEntries \in 0 .. Len(waitingForAdd)
    BY <2>1 DEF DelayingInit
  <2>3. caller \in [Callers -> {Idle} \cup [at : {"select"}, data : Items, readyAt : Times]]
    BY DEF DelayingInit
  <2>4. earliest \in [Items -> 0 .. Never] /\ owed \subseteq Items \X Times
    BY <2>1 DEF DelayingInit
  <2> QED  BY <2>1, <2>2, <2>3, <2>4 DEF DelayingInit, Queue!Init, DelayingTypeOK
<1>2. Waiting = <<>>
  BY <1>1, WaitingIs DEF DelayingInit
<1>3. ToSet(<<>>) = {}
  BY DEF ToSet
<1>4. Len(<<>>) = 0 /\ DOMAIN waitingTimeByEntry = {}
  BY DEF DelayingInit
<1>5. SliceOK
  BY <1>2, <1>3, <1>4 DEF SliceOK, Ordered, Mapped
<1> QED  BY <1>1, <1>2, <1>3, <1>5 DEF DelayingInv, DelayingInit, RoundOK, Timely, NoRequestPostponed


-----------------------------------------------------------------------------
(* The steps.                                                              *)

\* The contained queue stays well typed.
LEMMA QueueTyped ==
  ASSUME DelayingTypeOK, NEW k \in Items,
         AddToQueue(k) \/ Queue!Start(k) \/ Queue!Finish(k) \/ Queue!Close \/ UNCHANGED qvars
  PROVE  /\ pending' \in SUBSET Items /\ active' \in SUBSET Items /\ closed' \in BOOLEAN
         /\ AddToQueue(k) => pending' \subseteq pending \cup {k}
BY DEF DelayingTypeOK, AddToQueue, Queue!Mark, Queue!Start, Queue!Finish, Queue!Close, qvars

\* A step that moves no entry and forgets no request keeps the invariant.
LEMMA QuietStep ==
  ASSUME DelayingInv, DelayingTypeOK', RoundOK', Waiting' = Waiting,
         UNCHANGED <<waitingTimeByEntry, waitingForAddCh, history>>,
         loop' # "exited" => loop # "exited"
  PROVE  DelayingInv'
<1>1. SliceOK'
  BY DEF DelayingInv, SliceOK, Ordered, Mapped
<1>2. Timely'
  BY DEF DelayingInv, Timely, history
<1>3. NoRequestPostponed'
  BY DEF DelayingInv, NoRequestPostponed, history
<1> QED  BY <1>1, <1>2, <1>3 DEF DelayingInv

\* AddAfter computes a readyAt and waits in its select: nothing is on its way yet.
LEMMA AddAfterSelectStep ==
  ASSUME DelayingInv, NEW c \in Callers, NEW k \in Items, NEW d, AddAfterSelect(c, k, d)
  PROVE  DelayingInv'
<1>1. caller' \in [Callers -> {Idle} \cup [at : {"select"}, data : Items, readyAt : Times]]
  BY DEF DelayingInv, DelayingTypeOK, AddAfterSelect
<1>2. DelayingTypeOK'
  BY <1>1 DEF DelayingInv, DelayingTypeOK, AddAfterSelect, qvars, listvars, history
<1>3. RoundOK' /\ Waiting' = Waiting
  BY DEF DelayingInv, RoundOK, AddAfterSelect, Waiting, listvars
<1> QED  BY <1>2, <1>3, QuietStep DEF AddAfterSelect, listvars

\* AddAfter gives up on a closed stopCh.
LEMMA AddAfterUnblockStep ==
  ASSUME DelayingInv, NEW c \in Callers, AddAfterUnblock(c)
  PROVE  DelayingInv'
<1>1. caller' \in [Callers -> {Idle} \cup [at : {"select"}, data : Items, readyAt : Times]]
  BY DEF DelayingInv, DelayingTypeOK, AddAfterUnblock
<1>2. DelayingTypeOK'
  BY <1>1 DEF DelayingInv, DelayingTypeOK, AddAfterUnblock, qvars, listvars, history
<1>3. RoundOK' /\ Waiting' = Waiting
  BY DEF DelayingInv, RoundOK, AddAfterUnblock, Waiting, listvars
<1> QED  BY <1>2, <1>3, QuietStep DEF AddAfterUnblock, listvars

\* The steps on the contained queue alone.
LEMMA ContainedStep ==
  ASSUME DelayingInv, NEW k \in Items,
         AddToQueue(k) \/ Queue!Start(k) \/ Queue!Finish(k) \/ Queue!Close \/ UNCHANGED qvars,
         UNCHANGED <<clock, listvars, waitingForAddCh, loop, now, readyEntries, timer,
                     caller, history>>,
         stopped' \in BOOLEAN
  PROVE  DelayingInv'
<1>1. pending' \in SUBSET Items /\ active' \in SUBSET Items /\ closed' \in BOOLEAN
  BY QueueTyped DEF DelayingInv
<1>2. DelayingTypeOK'
  BY <1>1 DEF DelayingInv, DelayingTypeOK, listvars, history
<1>3. RoundOK' /\ Waiting' = Waiting
  BY DEF DelayingInv, RoundOK, Waiting, listvars
<1> QED  BY <1>2, <1>3, QuietStep DEF listvars

\* Time passes, also while the loop works with an older now.
LEMMA TickStep == ASSUME DelayingInv, Tick PROVE DelayingInv'
<1>1. clock' \in Times /\ clock <= clock' /\ clock \in Nat /\ clock' \in Nat /\ now \in Nat
  BY Bounds DEF DelayingInv, DelayingTypeOK, Tick, Times
<1>2. DelayingTypeOK'
  BY <1>1 DEF DelayingInv, DelayingTypeOK, Tick, qvars, listvars, history
<1>3. RoundOK' /\ Waiting' = Waiting
  BY <1>1 DEF DelayingInv, RoundOK, Tick, Waiting, listvars
<1> QED  BY <1>2, <1>3, QuietStep DEF Tick, listvars

\* A request enters the channel, and its time the history.
LEMMA AddAfterSendStep ==
  ASSUME DelayingInv, NEW c \in Callers, AddAfterSend(c)
  PROVE  DelayingInv'
<1> DEFINE e == [data |-> caller[c].data, readyAt |-> caller[c].readyAt]
<1>1. /\ e \in Entry /\ e.data \in Items /\ e.readyAt \in Times /\ e.readyAt \in Nat
      /\ e.readyAt \in 0 .. Never
  <2>1. caller[c] \in {Idle} \cup [at : {"select"}, data : Items, readyAt : Times]
    BY DEF DelayingInv, DelayingTypeOK
  <2>2. caller[c].at = "select" /\ Idle.at = "idle"
    BY DEF AddAfterSend, Idle
  <2>3. caller[c] \in [at : {"select"}, data : Items, readyAt : Times]
    BY <2>1, <2>2
  <2> QED  BY <2>3, Bounds DEF Entry, Times, Never
<1>2. /\ waitingForAddCh' = Append(waitingForAddCh, e)
      /\ earliest' = [earliest EXCEPT ![e.data] = IF @ < e.readyAt THEN @ ELSE e.readyAt]
      /\ owed' = owed \cup {<<e.data, e.readyAt>>}
  BY DEF AddAfterSend
<1>3. Waiting' = Waiting /\ UNCHANGED <<waitingTimeByEntry, waitingForAdd, loop>>
  BY DEF AddAfterSend, Waiting, listvars
<1> HIDE DEF e
<1>4. /\ waitingForAddCh' \in Seq(Entry) /\ Len(waitingForAddCh') <= ChanCap
      /\ ToSet(waitingForAddCh') = ToSet(waitingForAddCh) \cup {e}
  <2>1. waitingForAddCh \in Seq(Entry) /\ Len(waitingForAddCh) < ChanCap /\ ChanCap \in Nat
    BY Bounds DEF DelayingInv, DelayingTypeOK, AddAfterSend
  <2>2. Len(waitingForAddCh') = Len(waitingForAddCh) + 1
    BY <1>1, <1>2, <2>1
  <2> QED  BY <1>1, <1>2, <2>1, <2>2, ChannelAppend
<1>5. /\ earliest \in [Items -> 0 .. Never] /\ earliest' \in [Items -> 0 .. Never]
      /\ earliest'[e.data] <= e.readyAt
      /\ \A k \in Items : earliest'[k] <= earliest[k]
  <2>1. earliest \in [Items -> 0 .. Never]
    BY DEF DelayingInv, DelayingTypeOK
  <2> QED  BY <1>1, <1>2, <2>1
<1>6. DelayingTypeOK'
  <2>1. caller' \in [Callers -> {Idle} \cup [at : {"select"}, data : Items, readyAt : Times]]
    BY DEF DelayingInv, DelayingTypeOK, AddAfterSend
  <2>2. owed' \subseteq Items \X Times
    BY <1>1, <1>2 DEF DelayingInv, DelayingTypeOK
  <2> QED  BY <1>4, <1>5, <2>1, <2>2 DEF DelayingInv, DelayingTypeOK, AddAfterSend, qvars, listvars
<1>7. RoundOK'
  BY DEF DelayingInv, RoundOK, AddAfterSend
<1>8. SliceOK'
  BY <1>3 DEF DelayingInv, SliceOK, Ordered, Mapped
<1>9. Timely'
  <2> SUFFICES ASSUME NEW x \in ToSet(waitingForAddCh) \cup {e} \cup ToSet(Waiting)
               PROVE  earliest'[x.data] <= x.readyAt
    BY <1>3, <1>4 DEF Timely
  <2>1. CASE x = e
    BY <1>5, <2>1
  <2>2. CASE x # e
    <3>1. earliest[x.data] <= x.readyAt
      BY <2>2 DEF DelayingInv, Timely
    <3>2. x \in Entry
      BY <2>2, WaitingIs, Members DEF DelayingInv, DelayingTypeOK
    <3>3. x.data \in Items /\ x.readyAt \in Nat
      BY <3>2, EntryIs
    <3>4. earliest'[x.data] \in Int /\ earliest[x.data] \in Int /\ earliest'[x.data] <= earliest[x.data]
      BY <1>5, <3>3, Bounds DEF Never
    <3> QED  BY <3>1, <3>3, <3>4
  <2> QED  BY <2>1, <2>2
<1>10. NoRequestPostponed'
  <2> SUFFICES ASSUME loop # "exited", NEW r \in owed'
               PROVE  \E x \in ToSet(waitingForAddCh') \cup ToSet(Waiting) :
                        x.data = r[1] /\ x.readyAt <= r[2]
    BY <1>3 DEF NoRequestPostponed
  <2>1. CASE r \in owed
    BY <1>4, <2>1 DEF DelayingInv, NoRequestPostponed
  <2>2. CASE r = <<e.data, e.readyAt>>
    BY <1>1, <1>4, <2>2
  <2> QED  BY <1>2, <2>1, <2>2
<1> QED  BY <1>6, <1>7, <1>8, <1>9, <1>10 DEF DelayingInv


\* The loop moves on and leaves the entries alone.
LEMMA LoopMoves ==
  ASSUME DelayingInv, UNCHANGED <<qvars, clock, listvars, waitingForAddCh, stopped, caller, history>>,
         loop' \in {"top", "select", "drain", "exited"} \/ (loop' = "ready" /\ now' <= clock),
         loop' # "exited" => loop # "exited",
         readyEntries' = 0, readyEntries = 0, now' \in Times, timer' \in Nat
  PROVE  DelayingInv'
<1>1. 0 \in 0 .. Len(waitingForAdd)
  BY DEF DelayingInv, DelayingTypeOK
<1>2. DelayingTypeOK'
  BY <1>1 DEF DelayingInv, DelayingTypeOK, qvars, listvars, history
<1>3. RoundOK' /\ Waiting' = Waiting
  BY DEF RoundOK, Waiting, listvars
<1> QED  BY <1>2, <1>3, QuietStep DEF listvars

\* The loop ends: nothing it was owed matters any more.
LEMMA LoopShutdownStep == ASSUME DelayingInv, LoopShutdown PROVE DelayingInv'
<1>1. /\ <<>> \in Seq(Entry) /\ Len(<<>>) = 0 /\ ToSet(<<>>) = {}
      /\ readyEntries = 0 /\ DOMAIN waitingTimeByEntry' = {}
  BY DEF DelayingInv, RoundOK, LoopShutdown, ToSet
<1>2. DelayingTypeOK'
  BY <1>1 DEF DelayingInv, DelayingTypeOK, LoopShutdown, qvars, history
<1>3. Waiting' = <<>>
  <2>1. waitingForAdd' = <<>> /\ readyEntries' = 0
    BY <1>1 DEF LoopShutdown
  <2>2. SubSeq(<<>>, 0 + 1, 0) = <<>>
    BY SubSeqEmpty
  <2> QED  BY <1>1, <2>1, <2>2 DEF Waiting
<1>4. SliceOK'
  BY <1>1, <1>3 DEF SliceOK, Ordered, Mapped
<1>5. RoundOK' /\ Timely' /\ NoRequestPostponed'
  BY <1>1, <1>3 DEF DelayingInv, RoundOK, Timely, NoRequestPostponed, LoopShutdown, history
<1> QED  BY <1>2, <1>4, <1>5 DEF DelayingInv

\* What the loop cuts off the slice is what it has added.
LEMMA LoopSetTimerStep == ASSUME DelayingInv, LoopSetTimer PROVE DelayingInv'
<1>1. waitingForAdd' = Waiting /\ readyEntries' = 0
  BY DEF LoopSetTimer, Waiting
<1>2. Waiting \in Seq(Entry) /\ Len(Waiting) = Len(waitingForAdd) - readyEntries
  BY WaitingIs DEF DelayingInv
<1>3. /\ clock \in Nat /\ now \in Nat /\ Len(waitingForAdd) \in Nat
      /\ readyEntries \in Nat /\ 0 \in Times /\ Never \in Nat
  BY Bounds DEF DelayingInv, DelayingTypeOK, Times, Never
<1>4. timer' \in Nat
  <2>1. CASE Waiting = <<>>
    BY <1>3, <2>1 DEF LoopSetTimer, Waiting
  <2>2. CASE Waiting # <<>>
    <3>1. Len(Waiting) # 0
      BY <1>2, <2>2
    <3>2. readyEntries < Len(waitingForAdd)
      BY <1>2, <1>3, <3>1
    <3>3. Waiting[1] = waitingForAdd[readyEntries + 1] /\ Waiting[1] \in Entry
      BY <1>2, <2>2, <3>2, WaitingIs DEF DelayingInv
    <3>4. Waiting[1].readyAt \in Nat
      BY <3>3, EntryIs
    <3>5. now < Waiting[1].readyAt
      BY <1>3, <3>2, <3>3, <3>4 DEF LoopSetTimer, NextIsReady
    <3>6. timer' = clock + (Waiting[1].readyAt - now)
      BY <2>2 DEF LoopSetTimer, Waiting
    <3> QED  BY <1>3, <3>4, <3>5, <3>6
  <2> QED  BY <2>1, <2>2
<1>5. DelayingTypeOK'
  <2>1. readyEntries' \in 0 .. Len(waitingForAdd')
    BY <1>1, <1>2
  <2>2. /\ loop' = "select" /\ now' = 0
        /\ UNCHANGED <<qvars, clock, waitingTimeByEntry, waitingForAddCh, stopped, caller, history>>
    BY DEF LoopSetTimer
  <2> QED  BY <1>1, <1>2, <1>3, <1>4, <2>1, <2>2 DEF DelayingInv, DelayingTypeOK, qvars, history
<1>6. Waiting' = Waiting
  <2>1. Waiting' = SubSeq(Waiting, 0 + 1, Len(Waiting))
    BY <1>1 DEF Waiting
  <2> QED  BY <1>2, <2>1, WholeIs
<1>7. RoundOK'
  BY <1>1 DEF RoundOK, LoopSetTimer
<1> QED  BY <1>5, <1>6, <1>7, QuietStep DEF LoopSetTimer


\* AddEntry takes an entry out of what is on its way.  A request that is still
\* owed has another entry: the one added would have answered it.
LEMMA AddEntryOwed ==
  ASSUME DelayingInv, NEW e \in Entry, AddEntry(e),
         NEW Rest, loop # "exited",
         \A x \in ToSet(waitingForAddCh) \cup ToSet(Waiting) :
           x \in Rest \/ (x.data = e.data /\ x.readyAt = e.readyAt)
  PROVE  \A r \in owed' : \E x \in Rest : x.data = r[1] /\ x.readyAt <= r[2]
<1> SUFFICES ASSUME NEW r \in owed'
             PROVE  \E x \in Rest : x.data = r[1] /\ x.readyAt <= r[2]
  OBVIOUS
<1>1. r \in owed /\ (r[1] # e.data \/ r[2] < e.readyAt)
  BY DEF AddEntry
<1>2. r[2] \in Nat /\ e.readyAt \in Nat
  <2>1. r[2] \in Times
    BY <1>1 DEF DelayingInv, DelayingTypeOK
  <2> QED  BY <2>1, Bounds, EntryIs DEF Times
<1>3. PICK x \in ToSet(waitingForAddCh) \cup ToSet(Waiting) : x.data = r[1] /\ x.readyAt <= r[2]
  BY <1>1 DEF DelayingInv, NoRequestPostponed
<1>4. ~(x.data = e.data /\ x.readyAt = e.readyAt)
  BY <1>1, <1>2, <1>3
<1> QED  BY <1>3, <1>4

\* The first ready entry is added, and leaves the slice and the map.
LEMMA LoopAddReadyStep ==
  ASSUME DelayingInv, LoopAddReady
  PROVE  /\ DelayingInv'
         /\ \A k \in pending' \ pending : earliest[k] <= clock
<1> DEFINE e == waitingForAdd[readyEntries + 1]
<1>1. /\ loop = "ready" /\ readyEntries < Len(waitingForAdd) /\ e.readyAt <= now
      /\ AddEntry(e) /\ readyEntries' = readyEntries + 1
      /\ waitingTimeByEntry' = [k \in DOMAIN waitingTimeByEntry \ {e.data}
                                  |-> waitingTimeByEntry[k]]
      /\ UNCHANGED <<clock, waitingForAdd, waitingForAddCh, stopped, loop, now, timer, caller>>
  BY DEF LoopAddReady, NextIsReady
<1>2. /\ Waiting \in Seq(Entry) /\ Waiting # <<>> /\ Head(Waiting) = e
      /\ Tail(Waiting) = SubSeq(waitingForAdd, readyEntries + 2, Len(waitingForAdd))
  BY <1>1, WaitingIs DEF DelayingInv
<1> HIDE DEF e
<1>3. /\ clock \in Nat /\ now \in Nat /\ now <= clock
      /\ Len(waitingForAdd) \in Nat /\ readyEntries \in Nat
  BY <1>1, Bounds DEF DelayingInv, DelayingTypeOK, RoundOK, Times
<1>4. Waiting' = Tail(Waiting)
  <2>1. (readyEntries + 1) + 1 = readyEntries + 2
    BY <1>3
  <2>2. Waiting' = SubSeq(waitingForAdd, (readyEntries + 1) + 1, Len(waitingForAdd))
    BY <1>1 DEF Waiting
  <2> QED  BY <1>2, <2>1, <2>2
<1>5. Ordered(Waiting) /\ Mapped(Waiting, waitingTimeByEntry) /\ MapTyped(waitingTimeByEntry)
  BY DEF DelayingInv, SliceOK, DelayingTypeOK, MapTyped
<1>6. /\ Ordered(Tail(Waiting))
      /\ Mapped(Tail(Waiting), waitingTimeByEntry') /\ MapTyped(waitingTimeByEntry')
      /\ e \in ToSet(Waiting)
      /\ ToSet(Tail(Waiting)) = {x \in ToSet(Waiting) : x.data # e.data}
  BY <1>1, <1>2, <1>5, TailGood
<1>7. e \in Entry /\ e.data \in Items /\ e.readyAt \in Nat /\ earliest[e.data] <= e.readyAt
  <2>1. e \in Entry
    BY <1>2, <1>6, Members
  <2> QED  BY <1>6, <2>1, EntryIs DEF DelayingInv, Timely
<1>8. /\ AddToQueue(e.data) /\ earliest' = earliest /\ owed' \subseteq owed
      /\ pending' \in SUBSET Items /\ active' \in SUBSET Items /\ closed' \in BOOLEAN
      /\ pending' \subseteq pending \cup {e.data}
  <2>1. AddToQueue(e.data) /\ earliest' = earliest /\ owed' \subseteq owed
    BY <1>1 DEF AddEntry
  <2> QED  BY <1>7, <2>1, QueueTyped DEF DelayingInv
<1>9. DelayingTypeOK'
  <2>1. readyEntries' \in 0 .. Len(waitingForAdd')
    BY <1>1, <1>3
  <2> QED  BY <1>1, <1>6, <1>8, <2>1 DEF DelayingInv, DelayingTypeOK, MapTyped
<1>10. RoundOK'
  BY <1>1 DEF DelayingInv, RoundOK
<1>11. SliceOK'
  BY <1>4, <1>6 DEF SliceOK, Ordered, Mapped
<1>12. Timely'
  BY <1>1, <1>4, <1>6, <1>8 DEF DelayingInv, Timely
<1>13. NoRequestPostponed'
  <2> DEFINE Rest == ToSet(waitingForAddCh) \cup ToSet(Tail(Waiting))
  <2>1. ASSUME NEW x \in ToSet(waitingForAddCh) \cup ToSet(Waiting)
        PROVE  x \in Rest \/ (x.data = e.data /\ x.readyAt = e.readyAt)
    <3>1. CASE x \in ToSet(Waiting) /\ x.data = e.data
      BY <1>5, <1>6, <3>1 DEF Mapped
    <3>2. CASE ~(x \in ToSet(Waiting) /\ x.data = e.data)
      BY <1>6, <2>1, <3>2
    <3> QED  BY <3>1, <3>2
  <2> HIDE DEF Rest
  <2>2. \A r \in owed' : \E x \in Rest : x.data = r[1] /\ x.readyAt <= r[2]
    BY <1>1, <1>7, <2>1, AddEntryOwed
  <2> QED  BY <1>1, <1>4, <2>2 DEF NoRequestPostponed, Rest
<1>14. earliest[e.data] <= clock
  <2>1. earliest[e.data] \in Int
    BY <1>7, Bounds DEF DelayingInv, DelayingTypeOK, Never
  <2> QED  BY <1>1, <1>3, <1>7, <2>1
<1> QED  BY <1>8, <1>9, <1>10, <1>11, <1>12, <1>13, <1>14 DEF DelayingInv

\* What arrives over the channel is added when it is due, and goes into slice
\* and map when it is not.
LEMMA LoopReceiveStep ==
  ASSUME DelayingInv, LoopReceive
  PROVE  /\ DelayingInv'
         /\ \A k \in pending' \ pending : earliest[k] <= clock
<1> DEFINE e == Head(waitingForAddCh)
           q == insert(waitingForAdd, waitingTimeByEntry, e)
<1>1. /\ loop \in {"select", "drain"} /\ loop' = "drain" /\ timer' = Never
      /\ waitingForAddCh # <<>> /\ waitingForAddCh' = Tail(waitingForAddCh)
      /\ UNCHANGED <<clock, stopped, now, readyEntries, caller>>
  BY DEF LoopReceive, Receive
<1>2. \/ /\ e.readyAt > clock /\ waitingForAdd' = q[1] /\ waitingTimeByEntry' = q[2]
         /\ UNCHANGED <<qvars, history>>
      \/ ~(e.readyAt > clock) /\ AddEntry(e) /\ UNCHANGED listvars
  BY DEF LoopReceive, Receive
<1> HIDE DEF e, q
<1>3. /\ waitingForAddCh \in Seq(Entry) /\ Len(waitingForAddCh) <= ChanCap
      /\ readyEntries = 0 /\ clock \in Nat /\ Never \in Nat /\ ChanCap \in Nat
      /\ Waiting = waitingForAdd /\ waitingForAdd \in Seq(Entry)
  <2>1. readyEntries = 0
    BY <1>1 DEF DelayingInv, RoundOK
  <2> QED  BY <2>1, WaitingIs, Bounds DEF DelayingInv, DelayingTypeOK, Times, Never
<1>4. /\ e \in Entry /\ waitingForAddCh' \in Seq(Entry)
      /\ Len(waitingForAddCh') <= Len(waitingForAddCh)
      /\ ToSet(waitingForAddCh) = {e} \cup ToSet(waitingForAddCh')
  BY <1>1, <1>3, ChannelTail DEF e
<1>5. /\ e.data \in Items /\ e.readyAt \in Nat /\ Len(waitingForAddCh') <= ChanCap
      /\ earliest[e.data] \in Int /\ earliest[e.data] <= e.readyAt
  <2>1. e.data \in Items /\ e.readyAt \in Nat
    BY <1>4, EntryIs
  <2>2. Len(waitingForAddCh') <= ChanCap
    BY <1>3, <1>4
  <2>3. earliest[e.data] <= e.readyAt
    BY <1>4 DEF DelayingInv, Timely
  <2>4. earliest[e.data] \in Int
    BY <2>1, Bounds DEF DelayingInv, DelayingTypeOK, Never
  <2> QED  BY <2>1, <2>2, <2>3, <2>4
<1>6. RoundOK'
  BY <1>1, <1>3 DEF RoundOK
<1>7. CASE /\ e.readyAt > clock /\ waitingForAdd' = q[1] /\ waitingTimeByEntry' = q[2]
           /\ UNCHANGED <<qvars, history>>
  <2>1. Ordered(waitingForAdd) /\ Mapped(waitingForAdd, waitingTimeByEntry) /\ MapTyped(waitingTimeByEntry)
    BY <1>3 DEF DelayingInv, SliceOK, DelayingTypeOK, MapTyped
  <2>2. /\ waitingForAdd' \in Seq(Entry) /\ Ordered(waitingForAdd')
        /\ Mapped(waitingForAdd', waitingTimeByEntry') /\ MapTyped(waitingTimeByEntry')
        /\ ToSet(waitingForAdd') \subseteq ToSet(waitingForAdd) \cup {e}
        /\ \A x \in ToSet(waitingForAdd) \cup {e} :
             \E y \in ToSet(waitingForAdd') : y.data = x.data /\ y.readyAt <= x.readyAt
    BY <1>3, <1>4, <1>7, <2>1, InsertGood DEF q
  <2>3. Waiting' = waitingForAdd'
    <3>1. Waiting' = SubSeq(waitingForAdd', 0 + 1, Len(waitingForAdd'))
      BY <1>1, <1>3 DEF Waiting
    <3> QED  BY <2>2, <3>1, WholeIs
  <2>4. DelayingTypeOK'
    <3>1. readyEntries' \in 0 .. Len(waitingForAdd')
      BY <1>1, <1>3, <2>2
    <3> QED  BY <1>1, <1>3, <1>4, <1>5, <1>7, <2>2, <3>1
             DEF DelayingInv, DelayingTypeOK, MapTyped, qvars, history
  <2>5. SliceOK'
    BY <2>2, <2>3 DEF SliceOK, Ordered, Mapped
  <2>6. Timely'
    BY <1>3, <1>4, <1>7, <2>2, <2>3 DEF DelayingInv, Timely, history
  <2>7. NoRequestPostponed'
    <3> SUFFICES ASSUME NEW r \in owed
                 PROVE  \E y \in ToSet(waitingForAddCh') \cup ToSet(waitingForAdd') :
                          y.data = r[1] /\ y.readyAt <= r[2]
      BY <1>7, <2>3 DEF NoRequestPostponed, history
    <3>1. PICK x \in ToSet(waitingForAddCh) \cup ToSet(waitingForAdd) :
                 x.data = r[1] /\ x.readyAt <= r[2]
      BY <1>1, <1>3 DEF DelayingInv, NoRequestPostponed
    <3>2. CASE x \in ToSet(waitingForAddCh')
      BY <3>1, <3>2
    <3>3. CASE x \in ToSet(waitingForAdd) \cup {e}
      <4>1. PICK y \in ToSet(waitingForAdd') : y.data = x.data /\ y.readyAt <= x.readyAt
        BY <2>2, <3>3
      <4>2. x \in Entry /\ y \in Entry /\ r[2] \in Times
        BY <1>3, <1>4, <2>2, <3>3, <4>1, Members DEF DelayingInv, DelayingTypeOK
      <4>3. x.readyAt \in Nat /\ y.readyAt \in Nat /\ r[2] \in Nat
        BY <4>2, EntryIs, Bounds DEF Times
      <4> QED  BY <3>1, <4>1, <4>3
    <3> QED  BY <1>4, <3>1, <3>2, <3>3
  <2> QED  BY <1>6, <1>7, <2>4, <2>5, <2>6, <2>7 DEF DelayingInv, qvars
<1>8. CASE ~(e.readyAt > clock) /\ AddEntry(e) /\ UNCHANGED listvars
  <2>1. Waiting' = Waiting
    BY <1>1, <1>8 DEF Waiting, listvars
  <2>2. AddToQueue(e.data) /\ earliest' = earliest /\ owed' \subseteq owed
    BY <1>8 DEF AddEntry
  <2>3. /\ pending' \in SUBSET Items /\ active' \in SUBSET Items /\ closed' \in BOOLEAN
        /\ pending' \subseteq pending \cup {e.data}
    BY <1>5, <2>2, QueueTyped DEF DelayingInv
  <2>4. DelayingTypeOK'
    BY <1>1, <1>3, <1>4, <1>5, <1>8, <2>2, <2>3 DEF DelayingInv, DelayingTypeOK, listvars
  <2>5. SliceOK'
    BY <1>8, <2>1 DEF DelayingInv, SliceOK, Ordered, Mapped, listvars
  <2>6. Timely'
    BY <1>4, <2>1, <2>2 DEF DelayingInv, Timely
  <2>7. NoRequestPostponed'
    <3> DEFINE Rest == ToSet(waitingForAddCh') \cup ToSet(Waiting)
    <3>1. \A x \in ToSet(waitingForAddCh) \cup ToSet(Waiting) :
            x \in Rest \/ (x.data = e.data /\ x.readyAt = e.readyAt)
      BY <1>4
    <3> HIDE DEF Rest
    <3>2. \A r \in owed' : \E x \in Rest : x.data = r[1] /\ x.readyAt <= r[2]
      BY <1>1, <1>4, <1>8, <3>1, AddEntryOwed
    <3> QED  BY <2>1, <3>2 DEF NoRequestPostponed, Rest
  <2>8. earliest[e.data] <= clock
    BY <1>3, <1>5, <1>8
  <2> QED  BY <1>6, <2>3, <2>4, <2>5, <2>6, <2>7, <2>8 DEF DelayingInv
<1> QED  BY <1>2, <1>7, <1>8


\* The steps of the loop that move no entry.
LEMMA LoopQuietStep ==
  ASSUME DelayingInv, LoopNow \/ LoopStopped \/ LoopHeartbeat \/ LoopTimer \/ LoopDrained
  PROVE  DelayingInv'
<1>1. /\ clock \in Times /\ clock \in Nat /\ now \in Times /\ timer \in Nat /\ Never \in Nat
      /\ clock <= clock
  BY Bounds DEF DelayingInv, DelayingTypeOK, Times, Never
<1>2. CASE LoopNow
  <2>1. readyEntries = 0
    BY <1>2 DEF DelayingInv, RoundOK, LoopNow
  <2> QED  BY <1>1, <1>2, <2>1, LoopMoves DEF LoopNow
<1>3. CASE LoopStopped \/ LoopHeartbeat \/ LoopTimer \/ LoopDrained
  <2>1. readyEntries = 0 /\ readyEntries' = 0
    BY <1>3 DEF DelayingInv, RoundOK, LoopStopped, LoopHeartbeat, LoopTimer, LoopDrained
  <2> QED  BY <1>1, <1>3, <2>1, LoopMoves DEF LoopStopped, LoopHeartbeat, LoopTimer, LoopDrained
<1> QED  BY <1>2, <1>3

\* Forget and a refused AddAfter change nothing here.
LEMMA UnchangedStep == ASSUME DelayingInv, UNCHANGED vars PROVE DelayingInv'
<1>1. DelayingTypeOK' /\ RoundOK' /\ Waiting' = Waiting
  BY DEF DelayingInv, DelayingTypeOK, RoundOK, Waiting, vars
<1> QED  BY <1>1, QuietStep DEF vars, history

\* Every step of the rate limiting queue keeps the invariant.
LEMMA DelayingStepInv == DelayingInv /\ [RateLimitingNext]_allVars => DelayingInv'
<1> SUFFICES ASSUME DelayingInv, [RateLimitingNext]_allVars PROVE DelayingInv'
  OBVIOUS
<1>1. ASSUME NEW c \in Callers, NEW k \in Items, AddAfterNow(c, k) PROVE DelayingInv'
  BY <1>1, ContainedStep DEF DelayingInv, DelayingTypeOK, AddAfterNow
<1>2. ASSUME NEW c \in Callers, NEW k \in Items, AddRateLimited(c, k) PROVE DelayingInv'
  BY <1>1, <1>2, UnchangedStep, AddAfterSelectStep DEF AddRateLimited, AddAfterRefused
<1>3. ASSUME NEW k \in Items, ForgetItem(k) PROVE DelayingInv'
  BY <1>3, UnchangedStep DEF ForgetItem
<1>4. ASSUME NEW c \in Callers, AddAfterCalled(c) PROVE DelayingInv'
  BY <1>1, <1>4, AddAfterSelectStep DEF AddAfterCalled
<1>5. ASSUME NEW c \in Callers, Inside(AddAfterSend(c)) \/ Inside(AddAfterUnblock(c)) PROVE DelayingInv'
  BY <1>5, AddAfterSendStep, AddAfterUnblockStep DEF Inside
<1>6. CASE Inside(DelayingShutDown) \/ Inside(CloseStopCh)
  <2>1. CASE Items = {}
    <3>1. DelayingTypeOK'
      BY <1>6 DEF DelayingInv, DelayingTypeOK, Inside, DelayingShutDown, CloseStopCh, Queue!Close, qvars, listvars, history
    <3>2. RoundOK' /\ Waiting' = Waiting
      BY <1>6 DEF DelayingInv, RoundOK, Waiting, Inside, DelayingShutDown, CloseStopCh, listvars
    <3> QED  BY <1>6, <3>1, <3>2, QuietStep DEF Inside, DelayingShutDown, CloseStopCh, listvars
  <2>2. CASE Items # {}
    <3>1. PICK k \in Items : TRUE
      BY <2>2
    <3> QED  BY <1>6, ContainedStep DEF DelayingInv, DelayingTypeOK, Inside, DelayingShutDown, CloseStopCh
  <2> QED  BY <2>1, <2>2
<1>7. CASE Inside(Worker)
  BY <1>7, ContainedStep DEF DelayingInv, DelayingTypeOK, Inside, Worker
<1>8. CASE Inside(Tick)
  BY <1>8, TickStep DEF Inside
<1>9. CASE Inside(LoopShutdown)
  BY <1>9, LoopShutdownStep DEF Inside
<1>10. CASE \/ Inside(LoopNow) \/ Inside(LoopStopped) \/ Inside(LoopHeartbeat)
            \/ Inside(LoopTimer) \/ Inside(LoopDrained)
  BY <1>10, LoopQuietStep DEF Inside
<1>11. CASE Inside(LoopAddReady)
  BY <1>11, LoopAddReadyStep DEF Inside
<1>12. CASE Inside(LoopSetTimer)
  BY <1>12, LoopSetTimerStep DEF Inside
<1>13. CASE Inside(LoopReceive)
  BY <1>13, LoopReceiveStep DEF Inside
<1>14. CASE UNCHANGED allVars
  BY <1>14, UnchangedStep DEF allVars
<1> QED
  BY <1>2, <1>3, <1>4, <1>5, <1>6, <1>7, <1>8, <1>9, <1>10, <1>11, <1>12, <1>13, <1>14
  DEF RateLimitingNext

-----------------------------------------------------------------------------
(* The theorems.                                                           *)

\* The invariant holds of the rate limiting queue, so also of the delaying
\* queue it contains, whatever the limiters answer.
THEOREM DelayingInvariance == RateLimitingSpec => []DelayingInv
<1>1. NewRateLimitingQueue => DelayingInv
  BY DelayingInitInv DEF NewRateLimitingQueue
<1> QED  BY <1>1, DelayingStepInv, PTL DEF RateLimitingSpec

\* The loop's sorted slice and its map always say the same, so insert finds the
\* entry it has to move and the loop stops at the first entry that is not due.
THEOREM SliceAndMapAgree == RateLimitingSpec => []SliceMatchesMap
BY DelayingInvariance, DelayingInvImplies, PTL

\* As long as the loop runs, no request that AddAfter accepted is dropped or
\* moved to a later time, however requests for a key are merged.
THEOREM RequestsAreKept == RateLimitingSpec => []NoRequestPostponed
<1>1. DelayingInv => NoRequestPostponed
  BY DEF DelayingInv
<1> QED  BY <1>1, DelayingInvariance, PTL

\* waitingLoop puts no key on the queue before the earliest time that was asked
\* for.
THEOREM NoKeyTooEarly == RateLimitingSpec => NeverEarly
<1>1. DelayingInv /\ waitingLoop => \A k \in pending' \ pending : earliest[k] <= clock
  <2> SUFFICES ASSUME DelayingInv, waitingLoop
               PROVE  \A k \in pending' \ pending : earliest[k] <= clock
    OBVIOUS
  <2>1. CASE LoopAddReady
    BY <2>1, LoopAddReadyStep
  <2>2. CASE LoopReceive
    BY <2>2, LoopReceiveStep
  <2>3. CASE \/ LoopShutdown \/ LoopNow \/ LoopSetTimer \/ LoopStopped
             \/ LoopHeartbeat \/ LoopTimer \/ LoopDrained
    BY <2>3 DEF LoopShutdown, LoopNow, LoopSetTimer, LoopStopped, LoopHeartbeat,
                LoopTimer, LoopDrained, qvars
  <2> QED  BY <2>1, <2>2, <2>3 DEF waitingLoop
<1>2. DelayingInv => [waitingLoop => \A k \in pending' \ pending : earliest[k] <= clock]_vars
  BY <1>1
<1> QED  BY <1>2, DelayingInvariance, PTL DEF NeverEarly
=============================================================================
