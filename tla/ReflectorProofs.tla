--------------------------- MODULE ReflectorProofs ---------------------------
(***************************************************************************)
(* For every finite set of keys, any versions, and deltas, writes and      *)
(* failures without a bound: the invariants of the DeltaFIFO, and that the *)
(* reflector leads the store to the server's state, and never back.  The   *)
(* second part rests on the first: every step of the pipeline keeps the    *)
(* invariant of the DeltaFIFO.                                             *)
(***************************************************************************)
EXTENDS Reflector, DistinctSeqProofs, FiniteSetTheorems, TLAPS

-----------------------------------------------------------------------------
(* What queueActionLocked does to the deltas of one key.                   *)

\* Every deletion among deltas is of something, for a key the store has as old.
Sensible(deltas, old) ==
  \A n \in 1 .. Len(deltas) :
    deltas[n].type = "Deleted" =>
      IF n = 1 THEN old # Absent ELSE deltas[n - 1].type # "Deleted"

\* The deltas after queueActionLocked are never empty, say what the call said
\* unless it was a Sync behind a Deleted, and keep deletions sensible when a
\* key without deltas is only deleted if the store has it.
LEMMA NewDeltasEffect ==
  ASSUME NEW deltas \in Seq(Delta), NEW d \in Delta
  PROVE  /\ newDeltas(deltas, d) \in Seq(Delta)
         /\ newDeltas(deltas, d) # <<>>
         /\ d.type = "Deleted" => Newest(newDeltas(deltas, d)).type = "Deleted"
         /\ d.type # "Deleted" /\ ~(d.type = "Sync" /\ willObjectBeDeleted(deltas))
              => Newest(newDeltas(deltas, d)) = d
         /\ \A old : /\ Sensible(deltas, old)
                     /\ d.type = "Deleted" /\ deltas = <<>> => old # Absent
                     => Sensible(newDeltas(deltas, d), old)
<1> DEFINE r == newDeltas(deltas, d)
<1>1. Len(deltas) \in Nat /\ (deltas # <<>> => Len(deltas) \in 1 .. Len(deltas))
  OBVIOUS
<1>2. CASE d.type = "Sync" /\ willObjectBeDeleted(deltas)
  <2>1. r = deltas /\ deltas # <<>>
    BY <1>2 DEF newDeltas, willObjectBeDeleted
  <2>2. QED
    BY <1>2, <2>1
<1>3. CASE d.type = "Deleted" /\ willObjectBeDeleted(deltas)
  <2> DEFINE l == Len(deltas)
             x == isDeletionDup(d, deltas[l])
  <2>1. deltas # <<>> /\ l \in 1 .. l /\ deltas[l] \in Delta /\ deltas[l].type = "Deleted"
    BY <1>1, <1>3 DEF willObjectBeDeleted, Newest
  <2>2. x \in Delta /\ x.type = "Deleted"
    BY <1>3, <2>1 DEF isDeletionDup
  <2>3. r = [deltas EXCEPT ![l] = x]
    BY <1>3 DEF newDeltas
  <2> HIDE DEF x
  <2>4. r \in Seq(Delta) /\ Len(r) = l /\ r[l] = x
    BY <1>1, <2>1, <2>2, <2>3
  <2>5. \A n \in 1 .. l : r[n].type = deltas[n].type
    BY <1>1, <2>1, <2>2, <2>3
  <2>6. Newest(r).type = "Deleted" /\ r # <<>>
    BY <1>1, <2>1, <2>2, <2>4 DEF Newest
  <2>7. ASSUME NEW old, Sensible(deltas, old)
        PROVE  Sensible(r, old)
    <3>1. \A n \in 1 .. l : n = 1 \/ n - 1 \in 1 .. l
      BY <1>1
    <3>2. QED
      BY <2>4, <2>5, <2>7, <3>1 DEF Sensible
  <2>8. QED
    BY <1>3, <2>4, <2>6, <2>7
<1>4. CASE ~(d.type \in {"Sync", "Deleted"} /\ willObjectBeDeleted(deltas))
  <2> DEFINE l == Len(deltas)
  <2>1. r = Append(deltas, d)
    BY <1>4 DEF newDeltas
  <2>2. /\ r \in Seq(Delta) /\ r # <<>> /\ Len(r) = l + 1 /\ r[l + 1] = d
        /\ \A n \in 1 .. l : r[n] = deltas[n]
    BY <1>1, <2>1
  <2>3. Newest(r) = d
    BY <2>2 DEF Newest
  <2>4. ASSUME NEW old, Sensible(deltas, old),
               d.type = "Deleted" /\ deltas = <<>> => old # Absent
        PROVE  Sensible(r, old)
    <3>1. SUFFICES ASSUME NEW n \in 1 .. l + 1, r[n].type = "Deleted"
                   PROVE  IF n = 1 THEN old # Absent ELSE r[n - 1].type # "Deleted"
      BY <2>2 DEF Sensible
    <3>2. CASE n \in 1 .. l
      <4>1. n = 1 \/ n - 1 \in 1 .. l
        BY <1>1, <3>2
      <4>2. QED
        BY <2>2, <2>4, <3>1, <3>2, <4>1 DEF Sensible
    <3>3. CASE n = l + 1
      <4>1. d.type = "Deleted"
        BY <2>2, <3>1, <3>3
      <4>2. CASE l = 0
        BY <2>4, <3>3, <4>1, <4>2
      <4>3. CASE l # 0
        <5>1. n # 1 /\ n - 1 = l /\ l \in 1 .. l /\ deltas # <<>>
          BY <1>1, <3>3, <4>3
        <5>2. deltas[l].type # "Deleted"
          BY <1>4, <4>1, <5>1 DEF willObjectBeDeleted, Newest
        <5>3. QED
          BY <2>2, <5>1, <5>2
      <4>4. QED
        BY <4>2, <4>3
    <3>4. QED
      BY <1>1, <3>2, <3>3
  <2>5. QED
    BY <1>4, <2>2, <2>3, <2>4
<1>5. QED
  BY <1>2, <1>3, <1>4 DEF Delta, DeltaTypes

-----------------------------------------------------------------------------
(* The inductive invariant.                                                *)

\* s is the beginning of t.
Extended(s, t) == \A n \in DOMAIN s : n \in DOMAIN t /\ t[n] = s[n]

\* Why HasSynced is right: a key of the first list that was not popped yet is
\* among the first initialPopulationCount keys of the queue, since nothing is
\* ever put before it.
CountCovers ==
  /\ ~populated => queue = <<>> /\ unpopped = {} /\ \A k \in Keys : known[k] = Absent
  /\ \A k \in unpopped :
       \E n \in 1 .. initialPopulationCount : n \in DOMAIN queue /\ queue[n] = k

IInv ==
  TypeOK /\ QueueMatchesItems /\ DeletionsAreOfSomething /\ StoreCatchesUp /\ CountCovers

\* Giving a key deltas, and a place in the queue if it had none, keeps queue
\* and items in agreement (queueActionLocked and addIfNotPresent).
LEMMA Enqueue ==
  ASSUME TypeOK, QueueMatchesItems, NEW k \in Keys, NEW x \in Seq(Delta), x # <<>>,
         items' = [items EXCEPT ![k] = x],
         queue' = IF items[k] = <<>> THEN Append(queue, k) ELSE queue
  PROVE  /\ items' \in [Keys -> Seq(Delta)] /\ queue' \in Seq(Keys)
         /\ QueueMatchesItems'
         /\ Extended(queue, queue')
<1>1. items' \in [Keys -> Seq(Delta)] /\ queue \in Seq(Keys) /\ queue' \in Seq(Keys)
  BY DEF TypeOK
<1>2. {y \in Keys : items'[y] # <<>>} = {y \in Keys : items[y] # <<>>} \cup {k}
  BY DEF TypeOK
<1>3. CASE items[k] = <<>>
  <2>1. k \notin RangeOf(queue)
    BY <1>3 DEF QueueMatchesItems
  <2>2. Distinct(queue') /\ RangeOf(queue') = RangeOf(queue) \cup {k}
    BY <1>1, <1>3, <2>1, AppendDistinct DEF QueueMatchesItems
  <2>3. QueueMatchesItems'
    BY <1>2, <2>2 DEF QueueMatchesItems
  <2>4. Extended(queue, queue')
    BY <1>1, <1>3 DEF Extended
  <2>5. QED
    BY <1>1, <2>3, <2>4
<1>4. CASE items[k] # <<>>
  <2>1. queue' = queue /\ {y \in Keys : items'[y] # <<>>} = {y \in Keys : items[y] # <<>>}
    BY <1>2, <1>4
  <2>2. QED
    BY <1>1, <2>1 DEF QueueMatchesItems, Extended
<1>5. QED
  BY <1>3, <1>4

\* Adding to the end of the queue leaves the first keys where they are.
LEMMA CountStays ==
  ASSUME TypeOK, CountCovers, Extended(queue, queue'),
         initialPopulationCount' = initialPopulationCount, unpopped' = unpopped,
         populated' = TRUE
  PROVE  CountCovers'
BY DEF CountCovers, Extended

\* The steps of queueActionLocked that Add, Update, Delete and syncKey share.
LEMMA QueueAction ==
  ASSUME TypeOK, QueueMatchesItems, DeletionsAreOfSomething,
         NEW k \in Keys, NEW d \in Delta, queueActionLocked(k, d),
         known' = known,
         d.type = "Deleted" /\ items[k] = <<>> => known[k] # Absent
  PROVE  /\ items' \in [Keys -> Seq(Delta)] /\ queue' \in Seq(Keys)
         /\ QueueMatchesItems' /\ DeletionsAreOfSomething'
         /\ Extended(queue, queue')
         /\ items'[k] = newDeltas(items[k], d)
         /\ \A y \in Keys : y # k => items'[y] = items[y]
<1> DEFINE x == newDeltas(items[k], d)
<1>1. items[k] \in Seq(Delta) /\ items' = [items EXCEPT ![k] = x]
  BY DEF queueActionLocked, TypeOK
<1>2. /\ x \in Seq(Delta) /\ x # <<>>
      /\ Sensible(items[k], known[k]) => Sensible(x, known[k])
  BY <1>1, NewDeltasEffect
<1> HIDE DEF x
<1>3. /\ items' \in [Keys -> Seq(Delta)] /\ queue' \in Seq(Keys)
      /\ QueueMatchesItems' /\ Extended(queue, queue')
  BY <1>1, <1>2, Enqueue DEF queueActionLocked
<1>4. items'[k] = x /\ \A y \in Keys : y # k => items'[y] = items[y]
  BY <1>1 DEF TypeOK
<1>5. \A y \in Keys : Sensible(items[y], known[y])
  BY DEF DeletionsAreOfSomething, Sensible
<1>6. \A y \in Keys : Sensible(items'[y], known[y])
  BY <1>2, <1>4, <1>5
<1>7. DeletionsAreOfSomething'
  BY <1>6 DEF DeletionsAreOfSomething, Sensible
<1>8. QED
  BY <1>3, <1>4, <1>7 DEF x

\* The initial states satisfy the invariant.
LEMMA InitIInv == Init => IInv
<1> SUFFICES ASSUME Init PROVE IInv
  OBVIOUS
<1>1. TypeOK
  <2>1. <<>> \in Seq(Delta) /\ <<>> \in Seq(Keys)
    OBVIOUS
  <2>2. items \in [Keys -> Seq(Delta)] /\ queue \in Seq(Keys)
    BY <2>1, Zenon DEF Init
  <2>3. QED
    BY <2>2 DEF Init, TypeOK
<1>2. QueueMatchesItems
  BY DEF Init, QueueMatchesItems, Distinct, RangeOf
<1>3. DeletionsAreOfSomething /\ StoreCatchesUp /\ CountCovers
  BY DEF Init, DeletionsAreOfSomething, StoreCatchesUp, Outcome, CountCovers
<1>4. QED
  BY <1>1, <1>2, <1>3 DEF IInv

\* Add and Update.
LEMMA PutIInv ==
  ASSUME IInv, NEW k \in Keys, NEW o \in Objects, NEW t \in {"Added", "Updated"},
         Put(k, o, t)
  PROVE  IInv'
<1> DEFINE d == NewDelta(t, o, FALSE)
<1>1. d \in Delta /\ d.type \notin {"Sync", "Deleted"} /\ d.obj = o
  BY DEF NewDelta, Delta, DeltaTypes
<1>2. /\ queueActionLocked(k, d) /\ known' = known /\ populated' = TRUE
      /\ told' = [told EXCEPT ![k] = o] /\ lossy' = lossy \ {k}
      /\ initialPopulationCount' = initialPopulationCount /\ resync' = resync
      /\ unpopped' = unpopped
  BY DEF Put
<1> HIDE DEF d
<1>3. /\ items' \in [Keys -> Seq(Delta)] /\ queue' \in Seq(Keys)
      /\ QueueMatchesItems' /\ DeletionsAreOfSomething' /\ Extended(queue, queue')
      /\ items'[k] = newDeltas(items[k], d)
      /\ \A y \in Keys : y # k => items'[y] = items[y]
  BY <1>1, <1>2, QueueAction DEF IInv
<1>4. TypeOK'
  BY <1>2, <1>3 DEF IInv, TypeOK
<1>5. items'[k] # <<>> /\ Newest(items'[k]) = d
  <2>1. items[k] \in Seq(Delta)
    BY DEF IInv, TypeOK
  <2>2. newDeltas(items[k], d) # <<>> /\ Newest(newDeltas(items[k], d)) = d
    BY <1>1, <2>1, NewDeltasEffect
  <2>3. QED
    BY <1>3, <2>2
<1>6. StoreCatchesUp'
  <2>1. Outcome(items'[k], known'[k]) = o
    BY <1>1, <1>5 DEF Outcome
  <2>2. QED
    BY <1>2, <1>3, <2>1 DEF IInv, TypeOK, StoreCatchesUp
<1>7. CountCovers'
  BY <1>2, <1>3, CountStays DEF IInv
<1>8. QED
  BY <1>3, <1>4, <1>6, <1>7 DEF IInv

\* Delete.
LEMMA DeleteIInv ==
  ASSUME IInv, NEW k \in Keys, NEW o \in Objects, Delete(k, o)
  PROVE  IInv'
<1> DEFINE d == NewDelta("Deleted", o, FALSE)
<1>1. d \in Delta /\ d.type = "Deleted"
  BY DEF NewDelta, Delta, DeltaTypes
<1>2. /\ known' = known /\ populated' = TRUE
      /\ told' = [told EXCEPT ![k] = Absent] /\ lossy' = lossy \ {k}
      /\ initialPopulationCount' = initialPopulationCount /\ resync' = resync
      /\ unpopped' = unpopped
  BY DEF Delete
<1>3. CASE known[k] = Absent /\ items[k] = <<>>
  <2>1. items' = items /\ queue' = queue
    BY <1>3 DEF Delete
  <2>2. TypeOK'
    BY <1>2, <2>1 DEF IInv, TypeOK
  <2>3. QueueMatchesItems' /\ DeletionsAreOfSomething'
    BY <1>2, <2>1 DEF IInv, QueueMatchesItems, DeletionsAreOfSomething
  <2>4. StoreCatchesUp'
    BY <1>2, <1>3, <2>1 DEF IInv, TypeOK, StoreCatchesUp, Outcome
  <2>5. CountCovers'
    BY <1>2, <2>1, CountStays DEF IInv, Extended
  <2>6. QED
    BY <2>2, <2>3, <2>4, <2>5 DEF IInv
<1>4. CASE ~(known[k] = Absent /\ items[k] = <<>>)
  <2>1. queueActionLocked(k, d)
    BY <1>4 DEF Delete
  <2> HIDE DEF d
  <2>2. /\ items' \in [Keys -> Seq(Delta)] /\ queue' \in Seq(Keys)
        /\ QueueMatchesItems' /\ DeletionsAreOfSomething' /\ Extended(queue, queue')
        /\ items'[k] = newDeltas(items[k], d)
        /\ \A y \in Keys : y # k => items'[y] = items[y]
    BY <1>1, <1>2, <1>4, <2>1, QueueAction DEF IInv
  <2>3. TypeOK'
    BY <1>2, <2>2 DEF IInv, TypeOK
  <2>4. items'[k] # <<>> /\ Newest(items'[k]).type = "Deleted"
    <3>1. items[k] \in Seq(Delta)
      BY DEF IInv, TypeOK
    <3>2. /\ newDeltas(items[k], d) # <<>>
          /\ Newest(newDeltas(items[k], d)).type = "Deleted"
      BY <1>1, <3>1, NewDeltasEffect
    <3>3. QED
      BY <2>2, <3>2
  <2>5. StoreCatchesUp'
    <3>1. Outcome(items'[k], known'[k]) = Absent
      BY <2>4 DEF Outcome
    <3>2. QED
      BY <1>2, <2>2, <3>1 DEF IInv, TypeOK, StoreCatchesUp
  <2>6. CountCovers'
    BY <1>2, <2>2, CountStays DEF IInv
  <2>7. QED
    BY <2>2, <2>3, <2>5, <2>6 DEF IInv
<1>5. QED
  BY <1>3, <1>4
\* AddIfNotPresent.
LEMMA AddIfNotPresentIInv ==
  ASSUME IInv, NEW k \in Keys, NEW o \in Objects, AddIfNotPresent(k, o)
  PROVE  IInv'
<1> DEFINE d == NewDelta("Sync", o, FALSE)
<1>1. d \in Delta /\ d.type = "Sync" /\ d.obj = o
  BY DEF NewDelta, Delta, DeltaTypes
<1>2. /\ known' = known /\ populated' = TRUE /\ resync' = resync
      /\ initialPopulationCount' = initialPopulationCount /\ unpopped' = unpopped
  BY DEF AddIfNotPresent, addIfNotPresent
<1>3. CASE items[k] # <<>>
  <2>1. items' = items /\ queue' = queue /\ told' = told /\ lossy' = lossy
    BY <1>3 DEF AddIfNotPresent, addIfNotPresent
  <2>2. TypeOK' /\ QueueMatchesItems' /\ DeletionsAreOfSomething' /\ StoreCatchesUp'
    BY <1>2, <2>1
       DEF IInv, TypeOK, QueueMatchesItems, DeletionsAreOfSomething, StoreCatchesUp
  <2>3. CountCovers'
    BY <1>2, <2>1, CountStays DEF IInv, Extended
  <2>4. QED
    BY <2>2, <2>3 DEF IInv
<1>4. CASE items[k] = <<>>
  <2>1. /\ items' = [items EXCEPT ![k] = <<d>>] /\ queue' = Append(queue, k)
        /\ told' = [told EXCEPT ![k] = o] /\ lossy' = lossy \ {k}
    BY <1>4 DEF AddIfNotPresent, addIfNotPresent
  <2> HIDE DEF d
  <2>2. <<d>> \in Seq(Delta) /\ <<d>> # <<>> /\ Len(<<d>>) = 1 /\ <<d>>[1] = d
    BY <1>1
  <2>3. /\ items' \in [Keys -> Seq(Delta)] /\ queue' \in Seq(Keys)
        /\ QueueMatchesItems' /\ Extended(queue, queue')
    BY <1>4, <2>1, <2>2, Enqueue DEF IInv
  <2>4. items'[k] = <<d>> /\ \A y \in Keys : y # k => items'[y] = items[y]
    BY <2>1 DEF IInv, TypeOK
  <2>5. TypeOK'
    BY <1>2, <2>1, <2>3 DEF IInv, TypeOK
  <2>6. DeletionsAreOfSomething'
    BY <1>1, <1>2, <2>2, <2>4 DEF IInv, DeletionsAreOfSomething
  <2>7. StoreCatchesUp'
    <3>1. Outcome(items'[k], known'[k]) = o
      BY <1>1, <2>2, <2>4 DEF Outcome, Newest
    <3>2. QED
      BY <1>2, <2>1, <2>4, <3>1 DEF IInv, TypeOK, StoreCatchesUp
  <2>8. CountCovers'
    BY <1>2, <2>3, CountStays DEF IInv
  <2>9. QED
    BY <2>3, <2>5, <2>6, <2>7, <2>8 DEF IInv
<1>5. QED
  BY <1>3, <1>4

\* Resync: the list of keys, and one key.
LEMMA ResyncIInv ==
  ASSUME IInv, Resync
  PROVE  IInv'
<1>1. CASE ResyncKeys
  <2>1. TypeOK'
    BY <1>1 DEF ResyncKeys, IInv, TypeOK
  <2>2. QueueMatchesItems' /\ DeletionsAreOfSomething' /\ StoreCatchesUp' /\ CountCovers'
    BY <1>1 DEF ResyncKeys, IInv, QueueMatchesItems, DeletionsAreOfSomething,
                StoreCatchesUp, CountCovers
  <2>3. QED
    BY <2>1, <2>2 DEF IInv
<1>2. ASSUME NEW k \in Keys, syncKey(k)
      PROVE  IInv'
  <2>1. /\ resync' = resync \ {k} /\ populated' = populated /\ known' = known
        /\ initialPopulationCount' = initialPopulationCount /\ told' = told
        /\ lossy' = lossy /\ unpopped' = unpopped
    BY <1>2 DEF syncKey
  <2>2. CASE known[k] = Absent \/ items[k] # <<>>
    <3>1. items' = items /\ queue' = queue
      BY <1>2, <2>2 DEF syncKey
    <3>2. TypeOK'
      BY <2>1, <3>1 DEF IInv, TypeOK
    <3>3. QueueMatchesItems' /\ DeletionsAreOfSomething' /\ StoreCatchesUp' /\ CountCovers'
      BY <2>1, <3>1 DEF IInv, QueueMatchesItems, DeletionsAreOfSomething,
                        StoreCatchesUp, CountCovers
    <3>4. QED
      BY <3>2, <3>3 DEF IInv
  <2>3. CASE known[k] # Absent /\ items[k] = <<>>
    <3> DEFINE d == NewDelta("Sync", known[k], FALSE)
    <3>1. queueActionLocked(k, d)
      BY <1>2, <2>3 DEF syncKey
    <3>2. d \in Delta /\ d.type = "Sync" /\ d.obj = known[k]
      BY <2>3 DEF NewDelta, Delta, DeltaTypes, IInv, TypeOK
    <3> HIDE DEF d
    <3>3. /\ items' \in [Keys -> Seq(Delta)] /\ queue' \in Seq(Keys)
          /\ QueueMatchesItems' /\ DeletionsAreOfSomething' /\ Extended(queue, queue')
          /\ items'[k] = newDeltas(items[k], d)
          /\ \A y \in Keys : y # k => items'[y] = items[y]
      BY <2>1, <3>1, <3>2, QueueAction DEF IInv
    <3>4. TypeOK'
      BY <2>1, <3>3 DEF IInv, TypeOK
    <3>5. items'[k] # <<>> /\ Newest(items'[k]) = d
      <4>1. items[k] \in Seq(Delta) /\ ~willObjectBeDeleted(items[k])
        BY <2>3 DEF IInv, TypeOK, willObjectBeDeleted
      <4>2. QED
        BY <3>2, <3>3, <4>1, NewDeltasEffect
    <3>6. StoreCatchesUp'
      <4>1. Outcome(items'[k], known'[k]) = Outcome(items[k], known[k])
        BY <2>3, <3>2, <3>5 DEF Outcome
      <4>2. QED
        BY <2>1, <3>3, <4>1 DEF IInv, StoreCatchesUp
    <3>7. CountCovers'
      <4>1. populated
        BY <2>3 DEF IInv, CountCovers
      <4>2. QED
        BY <2>1, <3>3, <4>1, CountStays DEF IInv
    <3>8. QED
      BY <3>3, <3>4, <3>6, <3>7 DEF IInv
  <2>4. QED
    BY <2>2, <2>3
<1>3. QED
  BY <1>1, <1>2 DEF Resync
\* Taking the head of the queue lowers the count by one and moves every key of
\* the first list one place forward (Pop, whether it requeues or not).
LEMMA CountMoves ==
  ASSUME IInv, queue # <<>>, NEW q \in Seq(Keys),
         \A n \in 1 .. Len(queue) - 1 : n \in DOMAIN q /\ q[n] = queue[n + 1],
         queue' = q, populated' = TRUE,
         initialPopulationCount' = LessOne(initialPopulationCount),
         unpopped' = unpopped \ {Head(queue)}
  PROVE  CountCovers'
<1>1. /\ queue \in Seq(Keys) /\ Len(queue) \in Nat /\ DOMAIN queue = 1 .. Len(queue)
      /\ Head(queue) = queue[1] /\ initialPopulationCount \in Nat
  BY DEF IInv, TypeOK
<1>2. SUFFICES ASSUME NEW k \in unpopped, k # Head(queue)
               PROVE  \E n \in 1 .. LessOne(initialPopulationCount) :
                        n \in DOMAIN q /\ q[n] = k
  BY DEF CountCovers
<1>3. PICK n \in 1 .. initialPopulationCount : n \in DOMAIN queue /\ queue[n] = k
  BY DEF IInv, CountCovers
<1>4. n # 1
  BY <1>1, <1>2, <1>3
<1>5. /\ n - 1 \in 1 .. Len(queue) - 1 /\ (n - 1) + 1 = n
      /\ n - 1 \in 1 .. LessOne(initialPopulationCount)
  BY <1>1, <1>3, <1>4 DEF LessOne
<1>6. QED
  BY <1>3, <1>5

\* Pop, when process succeeds.
LEMMA PopIInv ==
  ASSUME IInv, Pop
  PROVE  IInv'
<1> DEFINE id == Head(queue)
<1>1. /\ queue # <<>> /\ queue' = Tail(queue)
      /\ items' = [items EXCEPT ![id] = <<>>]
      /\ known' = [known EXCEPT ![id] = Outcome(items[id], @)]
      /\ initialPopulationCount' = LessOne(initialPopulationCount)
      /\ unpopped' = unpopped \ {id}
      /\ populated' = populated /\ resync' = resync /\ told' = told /\ lossy' = lossy
  BY DEF Pop
<1>2. queue \in Seq(Keys) /\ Distinct(queue)
  BY DEF IInv, TypeOK, QueueMatchesItems
<1>3. /\ id \in Keys /\ id \in RangeOf(queue) /\ Tail(queue) \in Seq(Keys)
      /\ Distinct(Tail(queue)) /\ RangeOf(Tail(queue)) = RangeOf(queue) \ {id}
  BY <1>1, <1>2, TailDistinct
<1>4. populated
  BY <1>1 DEF IInv, CountCovers
<1>5. CountCovers'
  <2>1. \A n \in 1 .. Len(queue) - 1 :
          n \in DOMAIN Tail(queue) /\ Tail(queue)[n] = queue[n + 1]
    BY <1>1, <1>2
  <2>2. QED
    BY <1>1, <1>3, <1>4, <2>1, CountMoves
<1> HIDE DEF id
<1>6. items[id] \in Seq(Delta) /\ items[id] # <<>>
  BY <1>3 DEF IInv, TypeOK, QueueMatchesItems
<1>7. Newest(items[id]) \in Delta
  BY <1>6 DEF Newest
<1>8. Outcome(items[id], known[id]) \in Objects \cup {Absent}
  BY <1>6, <1>7 DEF Outcome, Delta
<1>9. /\ items'[id] = <<>> /\ \A y \in Keys : y # id => items'[y] = items[y]
      /\ known'[id] = Outcome(items[id], known[id])
      /\ \A y \in Keys : y # id => known'[y] = known[y]
  BY <1>1, <1>3 DEF IInv, TypeOK
<1>10. TypeOK'
  <2>1. <<>> \in Seq(Delta)
    OBVIOUS
  <2>2. items' \in [Keys -> Seq(Delta)]
    BY <1>1, <1>3, <2>1 DEF IInv, TypeOK
  <2>3. known' \in [Keys -> Objects \cup {Absent}]
    BY <1>1, <1>3, <1>8 DEF IInv, TypeOK
  <2>4. initialPopulationCount' \in Nat
    BY <1>1 DEF IInv, TypeOK, LessOne
  <2>5. QED
    BY <1>1, <1>3, <2>2, <2>3, <2>4 DEF IInv, TypeOK
<1>11. QueueMatchesItems'
  <2>1. {y \in Keys : items'[y] # <<>>} = {y \in Keys : items[y] # <<>>} \ {id}
    BY <1>9
  <2>2. QED
    BY <1>1, <1>3, <2>1 DEF IInv, QueueMatchesItems
<1>12. DeletionsAreOfSomething'
  <2>1. Len(items'[id]) = 0
    BY <1>9
  <2>2. QED
    BY <1>9, <2>1 DEF IInv, DeletionsAreOfSomething
<1>13. StoreCatchesUp'
  <2>1. Outcome(items'[id], known'[id]) = Outcome(items[id], known[id])
    BY <1>9 DEF Outcome
  <2>2. QED
    BY <1>1, <1>9, <2>1 DEF IInv, StoreCatchesUp
<1>14. QED
  BY <1>5, <1>10, <1>11, <1>12, <1>13 DEF IInv

\* Pop, when process asks for the item to be requeued.
LEMMA PopRequeueIInv ==
  ASSUME IInv, PopRequeue
  PROVE  IInv'
<1> DEFINE id == Head(queue)
<1>1. /\ queue # <<>> /\ queue' = Append(Tail(queue), id)
      /\ initialPopulationCount' = LessOne(initialPopulationCount)
      /\ unpopped' = unpopped \ {id} /\ populated' = TRUE
      /\ items' = items /\ known' = known /\ resync' = resync /\ told' = told
      /\ lossy' = lossy
  BY DEF PopRequeue
<1>2. queue \in Seq(Keys) /\ Distinct(queue)
  BY DEF IInv, TypeOK, QueueMatchesItems
<1>3. /\ id \in Keys /\ id \in RangeOf(queue) /\ Tail(queue) \in Seq(Keys)
      /\ Distinct(Tail(queue)) /\ RangeOf(Tail(queue)) = RangeOf(queue) \ {id}
  BY <1>1, <1>2, TailDistinct
<1>4. /\ Append(Tail(queue), id) \in Seq(Keys) /\ Distinct(Append(Tail(queue), id))
      /\ RangeOf(Append(Tail(queue), id)) = RangeOf(queue)
  <2> DEFINE t == Tail(queue)
  <2>1. t \in Seq(Keys) /\ Distinct(t) /\ RangeOf(t) = RangeOf(queue) \ {id}
    BY <1>3
  <2>2. id \in Keys /\ id \notin RangeOf(t) /\ id \in RangeOf(queue)
    BY <1>3, <2>1
  <2> HIDE DEF id, t
  <2>3. /\ Append(t, id) \in Seq(Keys) /\ Distinct(Append(t, id))
        /\ RangeOf(Append(t, id)) = RangeOf(t) \cup {id}
    BY <2>1, <2>2, AppendDistinct
  <2>4. RangeOf(Append(t, id)) = RangeOf(queue)
    BY <2>1, <2>2, <2>3
  <2>5. QED
    BY <2>3, <2>4 DEF t
<1>5. CountCovers'
  <2>1. \A n \in 1 .. Len(queue) - 1 : /\ n \in DOMAIN Append(Tail(queue), id)
                                       /\ Append(Tail(queue), id)[n] = queue[n + 1]
    BY <1>1, <1>2, <1>3
  <2>2. QED
    BY <1>1, <1>4, <2>1, CountMoves
<1> HIDE DEF id
<1>6. TypeOK'
  <2>1. initialPopulationCount' \in Nat
    BY <1>1 DEF IInv, TypeOK, LessOne
  <2>2. QED
    BY <1>1, <1>4, <2>1 DEF IInv, TypeOK
<1>7. QueueMatchesItems' /\ DeletionsAreOfSomething' /\ StoreCatchesUp'
  BY <1>1, <1>4 DEF IInv, QueueMatchesItems, DeletionsAreOfSomething, StoreCatchesUp
<1>8. QED
  BY <1>5, <1>6, <1>7 DEF IInv
\* Replace, for the deltas of one key.
LEMMA ReplaceDeltas ==
  ASSUME IInv, NEW list \in Lists, Replace(list), NEW k \in Keys
  PROVE  /\ items'[k] \in Seq(Delta)
         /\ items'[k] # <<>> <=> items[k] # <<>> \/ k \in DOMAIN list \/ k \in Gone(list)
         /\ Sensible(items'[k], known[k])
         /\ k \notin LostByReplace(list) =>
              Outcome(items'[k], known[k]) = IF k \in DOMAIN list THEN list[k] ELSE Absent
<1>1. DOMAIN list \subseteq Keys /\ \A y \in DOMAIN list : list[y] \in Objects
  BY DEF Lists
<1>2. items[k] \in Seq(Delta) /\ Sensible(items[k], known[k])
  BY DEF IInv, TypeOK, DeletionsAreOfSomething, Sensible
<1>3. known[k] \in Objects \cup {Absent}
  BY DEF IInv, TypeOK
<1>4. CASE k \in DOMAIN list
  <2> DEFINE d == NewDelta("Sync", list[k], FALSE)
  <2>1. d \in Delta /\ d.type = "Sync" /\ d.obj = list[k]
    BY <1>1, <1>4 DEF NewDelta, Delta, DeltaTypes
  <2>2. items'[k] = newDeltas(items[k], d)
    BY <1>4 DEF Replace
  <2> HIDE DEF d
  <2>3. /\ newDeltas(items[k], d) \in Seq(Delta) /\ newDeltas(items[k], d) # <<>>
        /\ ~willObjectBeDeleted(items[k]) => Newest(newDeltas(items[k], d)) = d
        /\ Sensible(newDeltas(items[k], d), known[k])
    BY <1>2, <2>1, NewDeltasEffect
  <2>4. k \notin LostByReplace(list) => ~willObjectBeDeleted(items[k])
    BY <1>4 DEF LostByReplace
  <2>5. k \notin LostByReplace(list) => Outcome(newDeltas(items[k], d), known[k]) = list[k]
    BY <2>1, <2>3, <2>4 DEF Outcome
  <2>6. QED
    BY <1>4, <2>2, <2>3, <2>5
<1>5. CASE k \in Gone(list)
  <2> DEFINE d == NewDelta("Deleted", known[k], TRUE)
  <2>1. k \notin DOMAIN list /\ known[k] # Absent
    BY <1>5 DEF Gone
  <2>2. d \in Delta /\ d.type = "Deleted"
    BY <1>3, <2>1 DEF NewDelta, Delta, DeltaTypes
  <2>3. items'[k] = newDeltas(items[k], d)
    BY <1>5, <2>1 DEF Replace
  <2> HIDE DEF d
  <2>4. /\ newDeltas(items[k], d) \in Seq(Delta) /\ newDeltas(items[k], d) # <<>>
        /\ Newest(newDeltas(items[k], d)).type = "Deleted"
        /\ Sensible(newDeltas(items[k], d), known[k])
    BY <1>2, <2>1, <2>2, NewDeltasEffect
  <2>5. Outcome(newDeltas(items[k], d), known[k]) = Absent
    BY <2>4 DEF Outcome
  <2>6. QED
    BY <1>5, <2>1, <2>3, <2>4, <2>5
<1>6. CASE k \notin DOMAIN list /\ k \notin Gone(list)
  <2>1. items'[k] = items[k]
    BY <1>6 DEF Replace
  <2>2. known[k] = Absent
    BY <1>6 DEF Gone
  <2>3. k \notin LostByReplace(list) => items[k] = <<>> \/ willObjectBeDeleted(items[k])
    BY <1>6, <2>2 DEF LostByReplace
  <2>4. k \notin LostByReplace(list) => Outcome(items[k], known[k]) = Absent
    BY <2>2, <2>3 DEF Outcome, willObjectBeDeleted
  <2>5. QED
    BY <1>2, <1>6, <2>1, <2>4
<1>7. QED
  BY <1>4, <1>5, <1>6

\* Replace.
LEMMA ReplaceIInv ==
  ASSUME IInv, NEW list \in Lists, Replace(list)
  PROVE  IInv'
<1> DEFINE A == {k \in DOMAIN list : items[k] = <<>>}
           B == {k \in Gone(list) : items[k] = <<>>}
<1>1. /\ DOMAIN list \subseteq Keys /\ Gone(list) \subseteq Keys
      /\ DOMAIN list \cap Gone(list) = {} /\ LostByReplace(list) \subseteq Keys
      /\ \A k \in DOMAIN list : list[k] \in Objects
  BY DEF Lists, Gone, LostByReplace
<1>2. /\ IsFiniteSet(A) /\ Cardinality(A) \in Nat
      /\ IsFiniteSet(B) /\ Cardinality(B) \in Nat
      /\ Cardinality(DOMAIN list) \in Nat /\ Cardinality(Gone(list)) \in Nat
  <2>1. A \subseteq Keys /\ B \subseteq Keys
    BY <1>1
  <2>2. QED
    BY <1>1, <2>1, KeysFinite, FS_Subset, FS_CardinalityType
<1>3. PICK p \in Orders(A), r \in Orders(B) : queue' = queue \o p \o r
  BY DEF Replace
<1>4. /\ known' = known /\ resync' = resync /\ populated' = TRUE
      /\ told' = [k \in Keys |-> IF k \in DOMAIN list THEN list[k] ELSE Absent]
      /\ lossy' = LostByReplace(list)
      /\ items' = [k \in Keys |-> items'[k]]
  BY DEF Replace
<1>5. /\ \A k \in Keys : items'[k] \in Seq(Delta)
      /\ {k \in Keys : items'[k] # <<>>} = {k \in Keys : items[k] # <<>>} \cup A \cup B
      /\ \A k \in Keys : Sensible(items'[k], known[k])
      /\ \A k \in Keys \ LostByReplace(list) :
           Outcome(items'[k], known[k]) = IF k \in DOMAIN list THEN list[k] ELSE Absent
  BY <1>1, ReplaceDeltas
<1>6. /\ p \in Seq(Keys) /\ Distinct(p) /\ RangeOf(p) = A /\ Len(p) = Cardinality(A)
      /\ r \in Seq(Keys) /\ Distinct(r) /\ RangeOf(r) = B /\ Len(r) = Cardinality(B)
  <2>1. A \subseteq Keys /\ B \subseteq Keys
    BY <1>1
  <2> HIDE DEF A, B
  <2>2. QED
    BY <1>2, <2>1, OrdersAreQueues
<1>7. /\ queue \in Seq(Keys) /\ Distinct(queue)
      /\ RangeOf(queue) = {k \in Keys : items[k] # <<>>}
  BY DEF IInv, TypeOK, QueueMatchesItems
<1>8. /\ queue' \in Seq(Keys) /\ Distinct(queue')
      /\ RangeOf(queue') = RangeOf(queue) \cup A \cup B
  <2>1. RangeOf(queue) \cap A = {} /\ (RangeOf(queue) \cup A) \cap B = {}
    BY <1>1, <1>7
  <2> HIDE DEF A, B
  <2> DEFINE t == queue \o p
  <2>2. t \in Seq(Keys) /\ Distinct(t) /\ RangeOf(t) = RangeOf(queue) \cup A
    BY <1>6, <1>7, <2>1, ConcatDistinct
  <2>3. queue' = t \o r
    BY <1>3
  <2> HIDE DEF t
  <2>4. /\ t \o r \in Seq(Keys) /\ Distinct(t \o r)
        /\ RangeOf(t \o r) = RangeOf(t) \cup RangeOf(r)
    BY <1>6, <2>1, <2>2, ConcatDistinct
  <2>5. QED
    BY <1>6, <2>2, <2>3, <2>4
<1>9. QueueMatchesItems'
  BY <1>5, <1>7, <1>8 DEF QueueMatchesItems
<1>10. DeletionsAreOfSomething'
  BY <1>4, <1>5 DEF DeletionsAreOfSomething, Sensible
<1>11. StoreCatchesUp'
  BY <1>4, <1>5 DEF StoreCatchesUp
<1>12. TypeOK' /\ CountCovers'
  <2>1. items' \in [Keys -> Seq(Delta)]
    BY <1>4, <1>5
  <2>2. told' \in [Keys -> Objects \cup {Absent}]
    BY <1>1, <1>4
  <2>3. CASE populated
    <3>1. initialPopulationCount' = initialPopulationCount /\ unpopped' = unpopped
      BY <2>3 DEF Replace
    <3>2. Extended(queue, queue')
      BY <1>3, <1>6, <1>7 DEF Extended
    <3>3. TypeOK'
      BY <1>1, <1>4, <1>8, <2>1, <2>2, <3>1 DEF IInv, TypeOK
    <3>4. QED
      BY <1>4, <3>1, <3>2, <3>3, CountStays DEF IInv
  <2>4. CASE ~populated
    <3>1. /\ initialPopulationCount' = Cardinality(DOMAIN list) + Cardinality(Gone(list))
          /\ unpopped' = DOMAIN list \cup Gone(list)
      BY <2>4 DEF Replace
    <3>2. queue = <<>> /\ \A k \in Keys : known[k] = Absent
      BY <2>4 DEF IInv, CountCovers
    <3>3. Gone(list) = {} /\ B = {} /\ A = DOMAIN list
      <4>1. RangeOf(queue) = {}
        BY <3>2 DEF RangeOf
      <4>2. \A k \in Keys : items[k] = <<>>
        BY <1>7, <4>1
      <4>3. QED
        BY <1>1, <3>2, <4>2 DEF Gone
    <3>4. initialPopulationCount' = Len(p) /\ unpopped' = RangeOf(p) /\ Len(p) \in Nat
      <4>1. Cardinality(Gone(list)) = 0
        BY <3>3, FS_EmptySet
      <4>2. Len(p) = Cardinality(DOMAIN list) /\ RangeOf(p) = DOMAIN list
        BY <1>6, <3>3
      <4>3. QED
        BY <1>2, <3>1, <3>3, <4>1, <4>2
    <3>5. Extended(p, queue')
      <4>1. queue' = p \o r
        BY <1>3, <1>6, <3>2
      <4>2. QED
        BY <1>6, <4>1 DEF Extended
    <3>6. CountCovers'
      <4>1. DOMAIN p = 1 .. Len(p)
        BY <1>6
      <4>2. QED
        BY <1>4, <3>4, <3>5, <4>1 DEF CountCovers, Extended, RangeOf
    <3>7. TypeOK'
      <4>1. unpopped' \in SUBSET Keys
        BY <1>1, <3>1
      <4>2. QED
        BY <1>1, <1>4, <1>8, <2>1, <2>2, <3>4, <4>1 DEF IInv, TypeOK
    <3>8. QED
      BY <3>6, <3>7
  <2>5. QED
    BY <2>3, <2>4
<1>13. QED
  BY <1>9, <1>10, <1>11, <1>12 DEF IInv

\* Every step keeps the invariant.
LEMMA StepIInv == IInv /\ [Next]_fifovars => IInv'
<1> SUFFICES ASSUME IInv, [Next]_fifovars PROVE IInv'
  OBVIOUS
<1>1. CASE Produce
  <2>1. ASSUME NEW k \in Keys, NEW o \in Objects, Add(k, o) \/ Update(k, o)
        PROVE  IInv'
    BY <2>1, PutIInv DEF Add, Update
  <2>2. QED
    BY <1>1, <2>1, DeleteIInv, AddIfNotPresentIInv, ReplaceIInv DEF Produce
<1>2. CASE Resync
  BY <1>2, ResyncIInv
<1>3. CASE Consume
  BY <1>3, PopIInv, PopRequeueIInv DEF Consume
<1>4. CASE UNCHANGED fifovars
  BY <1>4 DEF fifovars, IInv, TypeOK, QueueMatchesItems, DeletionsAreOfSomething,
              StoreCatchesUp, CountCovers
<1>5. QED
  BY <1>1, <1>2, <1>3, <1>4 DEF Next

\* The strengthened invariant holds of every DeltaFIFO.
THEOREM FIFOInvariance == Spec => []IInv
<1>1. QED
  BY InitIInv, StepIInv, PTL DEF Spec

\* The fields of a DeltaFIFO keep their types; the count is never negative.
THEOREM TypeCorrect == Spec => []TypeOK
<1>1. IInv => TypeOK
  BY DEF IInv
<1>2. QED
  BY <1>1, FIFOInvariance, PTL

\* Every key with deltas is in the queue, once, and no other key is: the
\* property the comment on DeltaFIFO.items depends on.
THEOREM QueueAndItemsAgree == Spec => []QueueMatchesItems
<1>1. IInv => QueueMatchesItems
  BY DEF IInv
<1>2. QED
  BY <1>1, FIFOInvariance, PTL

\* The consumer is never handed a deletion of what it does not have.
THEOREM DeletionsMakeSense == Spec => []DeletionsAreOfSomething
<1>1. IInv => DeletionsAreOfSomething
  BY DEF IInv
<1>2. QED
  BY <1>1, FIFOInvariance, PTL

\* The consumer's store ends up with what was last said of every key that no
\* Replace has lost.
THEOREM LastWordWins == Spec => []StoreCatchesUp
<1>1. IInv => StoreCatchesUp
  BY DEF IInv
<1>2. QED
  BY <1>1, FIFOInvariance, PTL

\* HasSynced is never true before every key of the first list was popped.
THEOREM SyncedNotTooEarly == Spec => []SyncedMeansPopped
<1>1. IInv => SyncedMeansPopped
  BY DEF IInv, CountCovers, SyncedMeansPopped, HasSynced
<1>2. QED
  BY <1>1, FIFOInvariance, PTL

-----------------------------------------------------------------------------
(* The server's state at a version.                                        *)

LogTyped == log \in Seq([type : {"Added", "Modified", "Deleted"}, key : Keys])

LastWrite(k, r) == CHOOSE n \in Writes(k, r) : \A m \in Writes(k, r) : m <= n

\* The last write of a key is one of its writes, and none is later.
LEMMA LastWriteIsLast ==
  ASSUME LogTyped, NEW k \in Keys, NEW r \in 0 .. Len(log), Writes(k, r) # {}
  PROVE  /\ LastWrite(k, r) \in Writes(k, r)
         /\ \A m \in Writes(k, r) : m <= LastWrite(k, r)
<1>1. Writes(k, r) \in SUBSET (1 .. r) /\ r \in Nat
  BY DEF Writes, LogTyped
<1>2. \E n \in Writes(k, r) : \A m \in Writes(k, r) : m <= n
  BY <1>1, GreatestExists
<1> QED  BY <1>2 DEF LastWrite

\* StateAt without its CHOOSE.
LEMMA StateAtIs ==
  ASSUME NEW k \in Keys, NEW r
  PROVE  StateAt(r)[k] = IF Writes(k, r) = {} THEN Absent
                         ELSE IF log[LastWrite(k, r)].type = "Deleted" THEN Absent
                         ELSE LastWrite(k, r)
BY DEF StateAt, LastWrite

\* An object is the version of a write up to r.
LEMMA StateIsVersion ==
  ASSUME LogTyped, NEW k \in Keys, NEW r \in 0 .. Len(log), StateAt(r)[k] # Absent
  PROVE  StateAt(r)[k] \in 1 .. r
BY StateAtIs, LastWriteIsLast DEF Writes

\* What one write does.
LEMMA NextState ==
  ASSUME LogTyped, NEW k \in Keys, NEW r \in 0 .. Len(log), r + 1 <= Len(log)
  PROVE  StateAt(r + 1)[k] = IF log[r + 1].key # k THEN StateAt(r)[k]
                             ELSE IF log[r + 1].type = "Deleted" THEN Absent
                             ELSE r + 1
<1>0. r \in Nat /\ r + 1 \in 0 .. Len(log) /\ Len(log) \in Nat
  BY DEF LogTyped
<1>1. CASE log[r + 1].key # k
  <2>1. Writes(k, r + 1) = Writes(k, r)
    BY <1>0, <1>1 DEF Writes
  <2> QED  BY <1>1, <2>1, StateAtIs DEF LastWrite
<1>2. CASE log[r + 1].key = k
  <2>1. r + 1 \in Writes(k, r + 1) /\ \A m \in Writes(k, r + 1) : m <= r + 1 /\ m \in Nat
    BY <1>0, <1>2 DEF Writes
  <2>2. LastWrite(k, r + 1) = r + 1
    BY <1>0, <2>1, LastWriteIsLast
  <2> QED  BY <1>2, <2>1, <2>2, StateAtIs
<1> QED  BY <1>1, <1>2

\* An object that a later state still has, an earlier one had.
LEMMA OldState ==
  ASSUME LogTyped, NEW k \in Keys, NEW r \in 0 .. Len(log), NEW s \in 0 .. Len(log), r <= s,
         StateAt(s)[k] # Absent, StateAt(s)[k] <= r
  PROVE  StateAt(r)[k] = StateAt(s)[k]
<1>0. r \in Nat /\ s \in Nat
  BY DEF LogTyped
<1> DEFINE v == LastWrite(k, s)
<1>1. /\ Writes(k, s) # {} /\ StateAt(s)[k] = v /\ log[v].type # "Deleted"
      /\ v \in Writes(k, s) /\ \A m \in Writes(k, s) : m <= v
  BY StateAtIs, LastWriteIsLast
<1> HIDE DEF v
<1>2. v \in Writes(k, r) /\ Writes(k, r) \subseteq Writes(k, s)
  BY <1>0, <1>1 DEF Writes
<1>3. LastWrite(k, r) \in Writes(k, r) /\ v <= LastWrite(k, r)
  BY <1>2, LastWriteIsLast
<1>4. LastWrite(k, r) = v
  BY <1>0, <1>1, <1>2, <1>3 DEF Writes
<1> QED  BY <1>1, <1>2, <1>4, StateAtIs

\* A new write changes no earlier state.
LEMMA StateStays ==
  ASSUME LogTyped, NEW k \in Keys, NEW r \in 0 .. Len(log),
         NEW e, log' = Append(log, e)
  PROVE  StateAt(r)'[k] = StateAt(r)[k]
<1>1. r \in Nat /\ \A n \in 1 .. r : log'[n] = log[n]
  BY DEF LogTyped
<1>2. Writes(k, r)' = Writes(k, r)
  BY <1>1 DEF Writes
<1>3. Writes(k, r) # {} => LastWrite(k, r) \in 1 .. r
  BY LastWriteIsLast DEF Writes
<1>4. LastWrite(k, r)' = LastWrite(k, r)
  BY <1>2 DEF LastWrite
<1> QED  BY <1>1, <1>2, <1>3, <1>4 DEF StateAt, LastWrite

-----------------------------------------------------------------------------
(* The inductive invariant.                                                *)

ReflectorTyped ==
  /\ LogTyped /\ Len(log) <= MaxRV
  /\ listed \in 0 .. Len(log) /\ resourceVersion \in 0 .. Len(log)
  /\ backwards \in BOOLEAN
  /\ seen \in [Keys -> Nat]

\* What the calls told the DeltaFIFO is the server's state at resourceVersion,
\* wherever ListAndWatch is.
ToldState == \A k \in Keys : told[k] = StateAt(resourceVersion)[k]

Coming(k) == Outcome(items[k], known[k])

\* As long as no list was older than what came before: the store has the newest
\* version it ever had of a key, or none; what its deltas lead to is that
\* version, a newer one or none, and so is what was said of it last.  Where a
\* Replace has lost a key that was listed, a deletion of it is still queued, or
\* was popped, and the version listed is new.
NotStale(k) ==
  ~backwards =>
    /\ seen[k] <= resourceVersion
    /\ known[k] # Absent => known[k] = seen[k]
    /\ Coming(k) # Absent => Coming(k) <= resourceVersion
    /\ Coming(k) # Absent /\ Coming(k) # known[k] => Coming(k) > seen[k]
    /\ told[k] # Absent /\ told[k] # known[k] => told[k] > seen[k]
    /\ k \in lossy /\ told[k] # Absent => Coming(k) = Absent /\ told[k] > seen[k]

NoneStale == \A k \in Keys : NotStale(k)

ReflectorInv == IInv /\ ReflectorTyped /\ ToldState /\ NoneStale

-----------------------------------------------------------------------------
(* What the calls of the DeltaFIFO make of the outcome for a key.          *)

\* It is an object or none.
LEMMA ComingTyped ==
  ASSUME IInv, NEW k \in Keys
  PROVE  Coming(k) \in Objects \cup {Absent}
<1>1. items[k] \in Seq(Delta) /\ known[k] \in Objects \cup {Absent}
  BY DEF IInv, TypeOK
<1>2. items[k] # <<>> => Newest(items[k]) \in Delta
  BY <1>1 DEF Newest
<1> QED  BY <1>1, <1>2 DEF Coming, Outcome, Delta

\* A delta that is queued is what its key comes to.
LEMMA QueuedComing ==
  ASSUME IInv, NEW k \in Keys, NEW d \in Delta, queueActionLocked(k, d), known' = known,
         ~(d.type = "Sync" /\ willObjectBeDeleted(items[k]))
  PROVE  /\ Coming(k)' = IF d.type = "Deleted" THEN Absent ELSE d.obj
         /\ \A q \in Keys \ {k} : Coming(q)' = Coming(q)
<1>1. items \in [Keys -> Seq(Delta)]
  BY DEF IInv, TypeOK
<1>2. items'[k] = newDeltas(items[k], d) /\ \A q \in Keys \ {k} : items'[q] = items[q]
  BY <1>1 DEF queueActionLocked
<1>3. /\ items'[k] # <<>>
      /\ d.type = "Deleted" => Newest(items'[k]).type = "Deleted"
      /\ d.type # "Deleted" => Newest(items'[k]) = d
  BY <1>1, <1>2, NewDeltasEffect
<1> QED  BY <1>2, <1>3 DEF Coming, Outcome

\* Add and Update.
LEMMA PutComing ==
  ASSUME IInv, NEW k \in Keys, NEW o \in Objects, NEW t \in {"Added", "Updated"}, Put(k, o, t)
  PROVE  Coming(k)' = o /\ \A q \in Keys \ {k} : Coming(q)' = Coming(q)
<1>1. NewDelta(t, o, FALSE) \in Delta
  BY DEF NewDelta, Delta, DeltaTypes
<1>2. NewDelta(t, o, FALSE).type = t /\ NewDelta(t, o, FALSE).obj = o
  BY DEF NewDelta
<1>3. queueActionLocked(k, NewDelta(t, o, FALSE)) /\ known' = known
  BY DEF Put
<1> QED  BY <1>1, <1>2, <1>3, QueuedComing

\* Delete, of a key that nobody has too.
LEMMA DeleteComing ==
  ASSUME IInv, NEW k \in Keys, NEW o \in Objects, Delete(k, o)
  PROVE  Coming(k)' = Absent /\ \A q \in Keys \ {k} : Coming(q)' = Coming(q)
<1>1. CASE known[k] = Absent /\ items[k] = <<>>
  BY <1>1 DEF Delete, Coming, Outcome
<1>2. CASE ~(known[k] = Absent /\ items[k] = <<>>)
  <2>1. NewDelta("Deleted", o, FALSE) \in Delta /\ NewDelta("Deleted", o, FALSE).type = "Deleted"
    BY DEF NewDelta, Delta, DeltaTypes
  <2>2. queueActionLocked(k, NewDelta("Deleted", o, FALSE)) /\ known' = known
    BY <1>2 DEF Delete
  <2> QED  BY <2>1, <2>2, QueuedComing
<1> QED  BY <1>1, <1>2

\* A resync repeats what the store has and changes no outcome.
LEMMA SyncComing ==
  ASSUME IInv, NEW k \in Keys, syncKey(k)
  PROVE  known' = known /\ told' = told /\ lossy' = lossy /\ \A q \in Keys : Coming(q)' = Coming(q)
<1>1. known' = known /\ told' = told /\ lossy' = lossy
  BY DEF syncKey
<1>2. CASE known[k] = Absent \/ items[k] # <<>>
  BY <1>1, <1>2 DEF syncKey, Coming
<1>3. CASE known[k] # Absent /\ items[k] = <<>>
  <2> DEFINE d == NewDelta("Sync", known[k], FALSE)
  <2>1. d \in Delta /\ d.type = "Sync" /\ d.obj = known[k]
    BY <1>3 DEF NewDelta, Delta, DeltaTypes, IInv, TypeOK
  <2>2. queueActionLocked(k, d) /\ ~willObjectBeDeleted(items[k])
    BY <1>3 DEF syncKey, willObjectBeDeleted
  <2> HIDE DEF d
  <2>3. Coming(k)' = known[k] /\ \A q \in Keys \ {k} : Coming(q)' = Coming(q)
    BY <1>1, <2>1, <2>2, QueuedComing
  <2> QED  BY <1>1, <1>3, <2>3 DEF Coming, Outcome
<1> QED  BY <1>2, <1>3

\* A Pop brings about what was coming.
LEMMA PopComing ==
  ASSUME IInv, Pop, NEW k \in Keys
  PROVE  /\ told' = told /\ lossy' = lossy
         /\ Coming(k)' = Coming(k)
         /\ known'[k] = known[k] \/ known'[k] = Coming(k)
<1>1. Head(queue) \in Keys /\ items \in [Keys -> Seq(Delta)] /\ known \in [Keys -> Objects \cup {Absent}]
  BY DEF IInv, TypeOK, Pop
<1>2. told' = told /\ lossy' = lossy
  BY DEF Pop
<1>3. CASE k = Head(queue)
  <2>1. items'[k] = <<>> /\ known'[k] = Coming(k)
    BY <1>1, <1>3 DEF Pop, Coming
  <2> QED  BY <1>2, <2>1 DEF Coming, Outcome
<1>4. CASE k # Head(queue)
  BY <1>1, <1>2, <1>4 DEF Pop, Coming
<1> QED  BY <1>3, <1>4

\* A Replace.
LEMMA ReplaceComing ==
  ASSUME IInv, NEW list \in Lists, Replace(list), NEW k \in Keys
  PROVE  /\ known' = known
         /\ k \in DOMAIN list => told'[k] = list[k] /\ list[k] \in Objects
         /\ k \notin DOMAIN list => told'[k] = Absent
         /\ k \in DOMAIN list /\ willObjectBeDeleted(items[k])
              => Coming(k)' = Absent /\ Coming(k) = Absent
         /\ k \in DOMAIN list /\ ~willObjectBeDeleted(items[k])
              => Coming(k)' = list[k] /\ k \notin lossy'
         /\ k \notin DOMAIN list => Coming(k)' \in {Absent, Coming(k)}
<1>1. items \in [Keys -> Seq(Delta)] /\ known \in [Keys -> Objects \cup {Absent}]
  BY DEF IInv, TypeOK
<1>2. known' = known /\ (k \in DOMAIN list => told'[k] = list[k] /\ list[k] \in Objects)
      /\ (k \notin DOMAIN list => told'[k] = Absent)
  BY DEF Replace, Lists
<1>3. CASE k \in DOMAIN list
  <2> DEFINE d == NewDelta("Sync", list[k], FALSE)
  <2>1. d \in Delta /\ d.type = "Sync" /\ d.obj = list[k]
    BY <1>2, <1>3 DEF NewDelta, Delta, DeltaTypes
  <2>2. items'[k] = newDeltas(items[k], d)
    BY <1>3 DEF Replace
  <2> HIDE DEF d
  <2>3. CASE willObjectBeDeleted(items[k])
    <3>1. items'[k] = items[k] /\ items[k] # <<>> /\ Newest(items[k]).type = "Deleted"
      BY <2>1, <2>2, <2>3 DEF newDeltas, willObjectBeDeleted
    <3> QED  BY <1>2, <1>3, <2>3, <3>1 DEF Coming, Outcome
  <2>4. CASE ~willObjectBeDeleted(items[k])
    <3>1. items'[k] # <<>> /\ Newest(items'[k]) = d
      BY <1>1, <2>1, <2>2, <2>4, NewDeltasEffect
    <3>2. k \notin lossy'
      BY <1>3, <2>4 DEF Replace, LostByReplace
    <3> QED  BY <1>2, <1>3, <2>1, <2>4, <3>1, <3>2 DEF Coming, Outcome
  <2> QED  BY <2>3, <2>4
<1>4. CASE k \notin DOMAIN list
  <2>1. CASE k \in Gone(list)
    <3> DEFINE d == NewDelta("Deleted", known[k], TRUE)
    <3>1. d \in Delta /\ d.type = "Deleted"
      BY <1>1, <2>1 DEF NewDelta, Delta, DeltaTypes, Gone
    <3>2. items'[k] = newDeltas(items[k], d)
      BY <1>4, <2>1 DEF Replace
    <3> HIDE DEF d
    <3>3. items'[k] # <<>> /\ Newest(items'[k]).type = "Deleted"
      BY <1>1, <3>1, <3>2, NewDeltasEffect
    <3> QED  BY <1>2, <1>4, <3>3 DEF Coming, Outcome
  <2>2. CASE k \notin Gone(list)
    <3>1. items'[k] = items[k]
      BY <1>4, <2>2 DEF Replace
    <3> QED  BY <1>2, <1>4, <3>1 DEF Coming
  <2> QED  BY <2>1, <2>2
<1> QED  BY <1>3, <1>4

-----------------------------------------------------------------------------
(* Every step keeps the invariant.                                         *)

\* The reflector starts with an empty store and has been told nothing.
LEMMA InitReflectorInv ==
  ASSUME ReflectorInit
  PROVE  ReflectorInv
<1>1. IInv
  BY InitIInv DEF ReflectorInit
<1>2. ReflectorTyped
  <2>1. log = <<>> /\ Len(log) = 0 /\ LogTyped
    BY DEF ReflectorInit, LogTyped
  <2>2. 0 \in 0 .. Len(log) /\ Len(log) <= MaxRV
    BY <2>1, ObjectsAreVersions
  <2>3. seen \in [Keys -> Nat]
    BY DEF ReflectorInit
  <2> QED  BY <2>1, <2>2, <2>3 DEF ReflectorInit, ReflectorTyped
<1>3. \A k \in Keys : Writes(k, 0) = {}
  BY DEF Writes
<1>4. ToldState
  BY <1>3, StateAtIs DEF ReflectorInit, Init, ToldState
<1>5. NoneStale
  BY DEF ReflectorInit, Init, NoneStale, NotStale, Coming, Outcome
<1> QED  BY <1>1, <1>2, <1>4, <1>5 DEF ReflectorInv

\* A step that leaves the DeltaFIFO and the version alone.
LEMMA QuietStep ==
  ASSUME ReflectorInv, UNCHANGED <<fifovars, resourceVersion, backwards, seen>>,
         log' = log /\ listed' \in 0 .. Len(log)
  PROVE  ReflectorInv'
<1>1. IInv'
  BY StepIInv DEF ReflectorInv
<1>2. ReflectorTyped'
  BY DEF ReflectorInv, ReflectorTyped, LogTyped
<1>3. ToldState'
  <2>1. StateAt(resourceVersion)' = StateAt(resourceVersion)
    BY DEF StateAt, Writes
  <2>2. told' = told
    BY DEF fifovars
  <2> QED  BY <2>1, <2>2 DEF ReflectorInv, ToldState
<1>4. NoneStale'
  BY DEF ReflectorInv, NoneStale, NotStale, Coming, Outcome, Newest, fifovars
<1> QED  BY <1>1, <1>2, <1>3, <1>4 DEF ReflectorInv

\* A write of the server.
LEMMA WriteStep ==
  ASSUME ReflectorInv, NEW k \in Keys, Write(k)
  PROVE  ReflectorInv'
<1> USE DEF ReflectorInv
<1>1. PICK t \in {"Added", "Modified", "Deleted"} : log' = Append(log, [type |-> t, key |-> k])
  BY DEF Write
<1>2. /\ UNCHANGED <<fifovars, listed, resourceVersion, backwards, seen>>
      /\ Len(log) < MaxRV
  BY DEF Write
<1>3. IInv'
  BY <1>2, StepIInv
<1>4. ReflectorTyped'
  BY <1>1, <1>2, ObjectsAreVersions DEF ReflectorTyped, LogTyped
<1>5. ToldState'
  <2> SUFFICES ASSUME NEW q \in Keys PROVE told'[q] = StateAt(resourceVersion)'[q]
    BY DEF ToldState
  <2>1. told'[q] = StateAt(resourceVersion)[q] /\ resourceVersion' = resourceVersion
    BY <1>2 DEF ToldState, fifovars
  <2>2. PICK r \in 0 .. Len(log) : r = resourceVersion
    BY DEF ReflectorTyped
  <2>3. StateAt(r)'[q] = StateAt(r)[q]
    BY <1>1, StateStays DEF ReflectorTyped
  <2>4. StateAt(resourceVersion)' = StateAt(r)'
    BY <2>1, <2>2 DEF StateAt, Writes
  <2> QED  BY <2>1, <2>2, <2>3, <2>4
<1>6. NoneStale'
  BY <1>2 DEF NoneStale, NotStale, Coming, Outcome, Newest, fifovars
<1> QED  BY <1>3, <1>4, <1>5, <1>6

\* syncWith: the list is one the server could return, and a listed version that
\* is not newer than the last version was already what had been said.
LEMMA syncWithStep ==
  ASSUME ReflectorInv, syncWith
  PROVE  ReflectorInv'
<1> USE DEF ReflectorInv
<1> DEFINE state == StateAt(listed)
           list == [k \in {k \in Keys : state[k] # Absent} |-> state[k]]
<1>0. /\ LogTyped /\ listed \in 0 .. Len(log) /\ Len(log) \in Nat /\ Len(log) <= MaxRV
      /\ resourceVersion \in 0 .. Len(log) /\ MaxRV \in Nat /\ Objects = 1 .. MaxRV
  BY ObjectsAreVersions DEF ReflectorTyped, LogTyped
<1>1. /\ Replace(list) /\ resourceVersion' = listed /\ listed' = 0
      /\ backwards' = (backwards \/ listed < resourceVersion)
      /\ log' = log /\ seen' = seen
  BY DEF syncWith
<1>2. \A k \in Keys : state[k] # Absent => state[k] \in 1 .. listed
  BY <1>0, StateIsVersion
<1>3. DOMAIN list = {k \in Keys : state[k] # Absent} /\ \A k \in DOMAIN list : list[k] = state[k]
  OBVIOUS
<1>4. list \in Lists
  <2>1. list \in [DOMAIN list -> Objects]
    BY <1>0, <1>2
  <2> QED  BY <2>1 DEF Lists
<1> HIDE DEF list, state
<1>5. IInv'
  BY <1>1, <1>4, ReplaceIInv
<1>6. ReflectorTyped'
  BY <1>0, <1>1 DEF ReflectorTyped, LogTyped
<1>7. ToldState'
  <2> SUFFICES ASSUME NEW k \in Keys PROVE told'[k] = StateAt(resourceVersion)'[k]
    BY DEF ToldState
  <2>1. told'[k] = state[k]
    BY <1>1, <1>3, <1>4, ReplaceComing
  <2>2. StateAt(resourceVersion)' = state
    BY <1>1 DEF StateAt, Writes, state
  <2> QED  BY <2>1, <2>2
<1>8. ASSUME NEW k \in Keys PROVE NotStale(k)'
  <2> SUFFICES ASSUME ~backwards' PROVE NotStale(k)'
    BY DEF NotStale
  <2>1. ~backwards /\ resourceVersion <= listed
    <3>1. ~backwards /\ ~(listed < resourceVersion)
      BY <1>1, Zenon
    <3> QED  BY <1>0, <3>1
  <2>2. /\ seen[k] <= resourceVersion /\ seen[k] \in Nat
        /\ known[k] # Absent => known[k] = seen[k]
        /\ Coming(k) # Absent => Coming(k) <= resourceVersion
        /\ Coming(k) # Absent /\ Coming(k) # known[k] => Coming(k) > seen[k]
        /\ told[k] # Absent /\ told[k] # known[k] => told[k] > seen[k]
        /\ k \in lossy /\ told[k] # Absent => Coming(k) = Absent /\ told[k] > seen[k]
    BY <2>1 DEF NoneStale, NotStale, ReflectorTyped
  <2>3. known'[k] = known[k] /\ seen'[k] = seen[k] /\ seen[k] <= listed /\ resourceVersion' = listed
    BY <1>0, <1>1, <1>4, <2>1, <2>2, ReplaceComing
  <2>4. CASE k \notin DOMAIN list
    <3>1. told'[k] = Absent /\ Coming(k)' \in {Absent, Coming(k)}
      BY <1>1, <1>4, <2>4, ReplaceComing
    <3>2. Coming(k) # Absent => Coming(k) \in Int
      BY <1>0, ComingTyped
    <3> QED  BY <1>0, <2>1, <2>2, <2>3, <3>1, <3>2 DEF NotStale
  <2>5. CASE k \in DOMAIN list
    <3> DEFINE v == list[k]
    <3>1. v = state[k] /\ v # Absent /\ v \in 1 .. listed /\ told'[k] = v
      BY <1>1, <1>2, <1>3, <1>4, <2>5, ReplaceComing
    <3>2. v <= resourceVersion => told[k] = v
      BY <1>0, <2>1, <3>1, OldState DEF ToldState, state
    <3>3. CASE willObjectBeDeleted(items[k])
      <4>1. Coming(k)' = Absent /\ Coming(k) = Absent
        BY <1>1, <1>4, <2>5, <3>3, ReplaceComing
      <4>2. v <= resourceVersion => k \in lossy
        BY <3>1, <3>2, <4>1 DEF IInv, StoreCatchesUp, Coming
      <4>3. v > seen[k]
        BY <1>0, <2>2, <3>1, <3>2, <4>2
      <4> QED  BY <2>2, <2>3, <3>1, <4>1, <4>3 DEF NotStale
    <3>4. CASE ~willObjectBeDeleted(items[k])
      <4>1. Coming(k)' = v /\ k \notin lossy'
        BY <1>1, <1>4, <2>5, <3>4, ReplaceComing
      <4>2. v = known[k] \/ v > seen[k]
        BY <1>0, <2>2, <3>1, <3>2
      <4> QED  BY <2>2, <2>3, <3>1, <4>1, <4>2 DEF NotStale
    <3> QED  BY <3>3, <3>4
  <2> QED  BY <2>4, <2>5
<1> QED  BY <1>5, <1>6, <1>7, <1>8 DEF NoneStale

\* An event of the watch is the next version, newer than all that was seen.
LEMMA watchEventStep ==
  ASSUME ReflectorInv, watchEvent
  PROVE  ReflectorInv'
<1> USE DEF ReflectorInv
<1>0. /\ LogTyped /\ Len(log) \in Nat /\ Len(log) <= MaxRV /\ resourceVersion \in 0 .. Len(log)
      /\ MaxRV \in Nat /\ Objects = 1 .. MaxRV /\ resourceVersion < Len(log)
      /\ seen \in [Keys -> Nat]
  BY ObjectsAreVersions DEF ReflectorTyped, LogTyped, watchEvent
<1>a. PICK n \in 1 .. Len(log) : n = resourceVersion + 1
  BY <1>0
<1>b. n \in Objects /\ n \in Nat
  BY <1>0
<1>c. log[n] \in [type : {"Added", "Modified", "Deleted"}, key : Keys]
  <2> DEFINE W == [type : {"Added", "Modified", "Deleted"}, key : Keys]
  <2>1. log \in Seq(W)
    BY <1>0 DEF LogTyped
  <2> HIDE DEF W
  <2>2. log[n] \in W
    BY <2>1
  <2> QED  BY <2>2 DEF W
<1>d. PICK k \in Keys : k = log[n].key
  BY <1>c
<1>1. /\ n \in 1 .. Len(log) /\ n \in Objects /\ n \in Nat
      /\ k \in Keys /\ log[n].type \in {"Added", "Modified", "Deleted"}
  BY <1>b, <1>c
<1>2. resourceVersion' = n /\ log' = log /\ listed' = listed /\ backwards' = backwards /\ seen' = seen
  BY <1>a DEF watchEvent
<1>3. /\ log[n].type # "Deleted" => \E t \in {"Added", "Updated"} : Put(k, n, t)
      /\ log[n].type = "Deleted" => Delete(k, n)
  BY <1>a, <1>d DEF watchEvent, Add, Update
<1>4. IInv'
  BY <1>1, <1>3, PutIInv, DeleteIInv
<1>5. /\ \A q \in Keys \ {k} : told'[q] = told[q] /\ Coming(q)' = Coming(q)
      /\ known' = known /\ lossy' = lossy \ {k}
      /\ log[n].type # "Deleted" => told'[k] = n /\ Coming(k)' = n
      /\ log[n].type = "Deleted" => told'[k] = Absent /\ Coming(k)' = Absent
  <2>0. told \in [Keys -> Objects \cup {Absent}]
    BY DEF IInv, TypeOK
  <2>1. CASE log[n].type # "Deleted"
    <3>1. PICK t \in {"Added", "Updated"} : Put(k, n, t)
      BY <1>3, <2>1
    <3>2. told' = [told EXCEPT ![k] = n] /\ known' = known /\ lossy' = lossy \ {k}
      BY <3>1 DEF Put
    <3>3. Coming(k)' = n /\ \A q \in Keys \ {k} : Coming(q)' = Coming(q)
      BY <1>1, <3>1, PutComing
    <3>4. told'[k] = n /\ \A q \in Keys \ {k} : told'[q] = told[q]
      BY <1>1, <2>0, <3>2
    <3> QED  BY <2>1, <3>2, <3>3, <3>4
  <2>2. CASE log[n].type = "Deleted"
    <3>1. told' = [told EXCEPT ![k] = Absent] /\ known' = known /\ lossy' = lossy \ {k}
      BY <1>3, <2>2 DEF Delete
    <3>3. Coming(k)' = Absent /\ \A q \in Keys \ {k} : Coming(q)' = Coming(q)
      BY <1>1, <1>3, <2>2, DeleteComing
    <3>4. told'[k] = Absent /\ \A q \in Keys \ {k} : told'[q] = told[q]
      BY <1>1, <2>0, <3>1
    <3> QED  BY <2>2, <3>1, <3>3, <3>4
  <2> QED  BY <2>1, <2>2
<1>6. ReflectorTyped'
  BY <1>0, <1>1, <1>2 DEF ReflectorTyped, LogTyped
<1>7. ToldState'
  <2> SUFFICES ASSUME NEW q \in Keys PROVE told'[q] = StateAt(resourceVersion)'[q]
    BY DEF ToldState
  <2>1. StateAt(resourceVersion)' = StateAt(n)
    BY <1>2 DEF StateAt, Writes
  <2>2. StateAt(n)[q] = IF k # q THEN StateAt(resourceVersion)[q]
                        ELSE IF log[n].type = "Deleted" THEN Absent ELSE n
    BY <1>0, <1>1, <1>a, <1>d, NextState
  <2>3. told[q] = StateAt(resourceVersion)[q]
    BY DEF ToldState
  <2> QED  BY <1>5, <2>1, <2>2, <2>3
<1>8. ASSUME NEW q \in Keys PROVE NotStale(q)'
  <2> SUFFICES ASSUME ~backwards' PROVE NotStale(q)'
    BY DEF NotStale
  <2>1. ~backwards
    BY <1>2
  <2>2. NotStale(q) /\ ~backwards /\ seen[q] \in Nat /\ n > seen[q]
    BY <1>0, <1>a, <2>1 DEF NoneStale, NotStale
  <2>3. Coming(q) # Absent => Coming(q) \in Int
    BY <1>0, ComingTyped
  <2>4. CASE q # k
    <3>1. /\ told'[q] = told[q] /\ Coming(q)' = Coming(q) /\ known' = known /\ seen' = seen
          /\ (q \in lossy' <=> q \in lossy) /\ resourceVersion' = n /\ resourceVersion < n
      BY <1>0, <1>2, <1>5, <1>a, <2>4
    <3> QED  BY <1>0, <1>1, <2>2, <2>3, <3>1 DEF NotStale
  <2>5. CASE q = k
    BY <1>0, <1>1, <1>2, <1>5, <2>2, <2>5 DEF NotStale
  <2> QED  BY <2>4, <2>5
<1> QED  BY <1>4, <1>6, <1>7, <1>8 DEF NoneStale

\* The resync goroutine says nothing new.
LEMMA ResyncStep ==
  ASSUME ReflectorInv, Resync, UNCHANGED reflvars
  PROVE  ReflectorInv'
<1> USE DEF ReflectorInv
<1>1. IInv'
  BY ResyncIInv
<1>2. known' = known /\ told' = told /\ lossy' = lossy /\ \A q \in Keys : Coming(q)' = Coming(q)
  BY SyncComing DEF Resync, ResyncKeys, Coming
<1>3. /\ log' = log /\ listed' = listed /\ resourceVersion' = resourceVersion
      /\ backwards' = backwards /\ seen' = seen
  BY DEF reflvars
<1>4. ReflectorTyped'
  BY <1>3 DEF ReflectorTyped, LogTyped
<1>5. ToldState'
  <2>1. StateAt(resourceVersion)' = StateAt(resourceVersion)
    BY <1>3 DEF StateAt, Writes
  <2> QED  BY <1>2, <2>1 DEF ToldState
<1>6. NoneStale'
  BY <1>2, <1>3 DEF NoneStale, NotStale
<1> QED  BY <1>1, <1>4, <1>5, <1>6

\* What processLoop puts into the store is new, or was there already.
LEMMA processLoopIsNew ==
  ASSUME ReflectorInv, processLoop, ~backwards, NEW k \in Keys
  PROVE  known'[k] # Absent /\ known'[k] # known[k] => known'[k] > seen[k]
BY PopComing DEF ReflectorInv, NoneStale, NotStale, processLoop

\* processLoop.
LEMMA processLoopStep ==
  ASSUME ReflectorInv, processLoop
  PROVE  ReflectorInv'
<1> USE DEF ReflectorInv
<1>1. Pop /\ log' = log /\ listed' = listed /\ resourceVersion' = resourceVersion /\ backwards' = backwards
  BY DEF processLoop
<1>2. \A k \in Keys : seen'[k] = IF known'[k] \in Objects /\ known'[k] > seen[k]
                                 THEN known'[k] ELSE seen[k]
  BY DEF processLoop
<1>3. IInv'
  BY <1>1, PopIInv
<1>4. told' = told /\ lossy' = lossy
  BY <1>1 DEF Pop
<1>5. Objects = 1 .. MaxRV /\ MaxRV \in Nat /\ seen \in [Keys -> Nat]
  BY ObjectsAreVersions DEF ReflectorTyped
<1>6. ReflectorTyped'
  <2>1. seen' \in [Keys -> Nat]
    BY <1>5 DEF processLoop
  <2> QED  BY <1>1, <2>1 DEF ReflectorTyped, LogTyped
<1>7. ToldState'
  <2>1. StateAt(resourceVersion)' = StateAt(resourceVersion)
    BY <1>1 DEF StateAt, Writes
  <2> QED  BY <1>4, <2>1 DEF ToldState
<1>8. ASSUME NEW k \in Keys PROVE NotStale(k)'
  <2> SUFFICES ASSUME ~backwards' PROVE NotStale(k)'
    BY DEF NotStale
  <2>0. ~backwards
    BY <1>1
  <2>1. NotStale(k) /\ ~backwards /\ seen[k] \in Nat
    BY <1>5, <2>0 DEF NoneStale
  <2>2. Coming(k)' = Coming(k) /\ (known'[k] = known[k] \/ known'[k] = Coming(k))
    BY <1>1, PopComing
  <2>3. Coming(k) \in Objects \cup {Absent} /\ known[k] \in Objects \cup {Absent}
    BY ComingTyped DEF IInv, TypeOK
  <2>4. k \notin lossy => Coming(k) = told[k]
    BY DEF IInv, StoreCatchesUp, Coming
  <2>5. told'[k] = told[k] /\ lossy' = lossy /\ resourceVersion' = resourceVersion
    BY <1>1, <1>4
  <2>6. CASE known'[k] = known[k]
    <3>1. seen'[k] = seen[k]
      BY <1>2, <1>5, <2>1, <2>3, <2>6, AbsentIsNoObject DEF NotStale
    <3> QED  BY <2>1, <2>2, <2>5, <2>6, <3>1 DEF NotStale
  <2>7. CASE known'[k] = Coming(k) /\ Coming(k) = Absent
    <3>1. seen'[k] = seen[k]
      BY <1>2, <2>7, AbsentIsNoObject
    <3>2. told[k] # Absent => told[k] > seen[k]
      BY <2>1, <2>4, <2>7 DEF NotStale
    <3> QED  BY <2>1, <2>2, <2>5, <2>7, <3>1, <3>2 DEF NotStale
  <2>8. CASE known'[k] = Coming(k) /\ Coming(k) # Absent /\ Coming(k) # known[k]
    <3>1. Coming(k) \in Objects /\ Coming(k) > seen[k] /\ Coming(k) <= resourceVersion
      BY <2>1, <2>3, <2>8 DEF NotStale
    <3>2. seen'[k] = Coming(k)
      BY <1>2, <2>8, <3>1
    <3>3. told[k] = Absent \/ told[k] = Coming(k)
      BY <2>1, <2>4, <2>8 DEF NotStale
    <3>4. ~(k \in lossy /\ told[k] # Absent)
      BY <2>1, <2>8 DEF NotStale
    <3> QED  BY <2>2, <2>5, <2>8, <3>1, <3>2, <3>3, <3>4 DEF NotStale
  <2> QED  BY <2>2, <2>6, <2>7, <2>8
<1> QED  BY <1>3, <1>6, <1>7, <1>8 DEF NoneStale

\* Every step of the pipeline keeps the invariant.
LEMMA StepReflectorInv == ReflectorInv /\ [ReflectorNext]_vars => ReflectorInv'
<1> SUFFICES ASSUME ReflectorInv, [ReflectorNext]_vars PROVE ReflectorInv'
  OBVIOUS
<1>0. listed \in 0 .. Len(log)
  BY DEF ReflectorInv, ReflectorTyped
<1>1. CASE UNCHANGED vars
  <2>1. UNCHANGED <<fifovars, resourceVersion, backwards, seen>> /\ log' = log /\ listed' = listed
    BY <1>1 DEF vars, fifovars
  <2> QED  BY <1>0, <2>1, QuietStep
<1>2. CASE List \/ ListFails \/ Watch \/ WatchFails \/ WatchEnds
  <2>1. UNCHANGED <<fifovars, resourceVersion, backwards, seen>> /\ log' = log
    BY <1>2 DEF List, ListFails, Watch, WatchFails, WatchEnds
  <2>2. listed' \in 0 .. Len(log)
    BY <1>0, <1>2 DEF List, ListFails, Watch, WatchFails, WatchEnds
  <2> QED  BY <2>1, <2>2, QuietStep
<1>3. CASE ResyncLoop \/ SyncKey
  BY <1>3, ResyncStep DEF ResyncLoop, SyncKey, Resync
<1> QED
  BY <1>1, <1>2, <1>3, WriteStep, syncWithStep, watchEventStep, processLoopStep
     DEF ReflectorNext, ListAndWatch

-----------------------------------------------------------------------------
\* The invariant holds of every informer's pipeline.
THEOREM ReflectorInvariant == ReflectorSpec => []ReflectorInv
BY InitReflectorInv, StepReflectorInv, PTL DEF ReflectorSpec

\* Whatever was lost, repeated or delivered late, the queued deltas lead the
\* store to the server's state at resourceVersion, except where a Replace has
\* lost a key.
THEOREM StoreIsLedToServer == ReflectorSpec => []StoreFollowsServer
<1>1. ReflectorInv => StoreFollowsServer
  BY DEF ReflectorInv, IInv, StoreCatchesUp, ToldState, StoreFollowsServer
<1> QED  BY <1>1, ReflectorInvariant, PTL

\* As long as no list was older than what was seen before it, the store never
\* goes back to an older version, nor brings a deleted object back.
THEOREM StoreNeverGoesBack == ReflectorSpec => NeverBackInTime
<1>1. ASSUME ReflectorInv, [ReflectorNext]_vars
      PROVE  [ ~backwards =>
               \A k \in Keys :
                 known'[k] # Absent /\ known'[k] # known[k] => known'[k] > seen[k] ]_vars
  <2>1. CASE known' = known
    BY <2>1
  <2>2. CASE processLoop
    BY <1>1, <2>2, processLoopIsNew
  <2>3. CASE ReflectorNext /\ ~processLoop
    <3>1. known' = known
      BY <2>3 DEF ReflectorNext, ListAndWatch, Write, List, ListFails, syncWith, Watch, WatchFails,
        watchEvent, WatchEnds, ResyncLoop, SyncKey, fifovars, Replace, Add, Update, Put, Delete,
        ResyncKeys, syncKey
    <3> QED  BY <3>1
  <2> QED  BY <1>1, <2>1, <2>2, <2>3
<1> QED  BY <1>1, ReflectorInvariant, PTL DEF ReflectorSpec, NeverBackInTime
=============================================================================
