------------------------ MODULE SharedInformerProofs ------------------------
(***************************************************************************)
(* For any number of keys, handlers and versions: the indexer is never     *)
(* behind what a handler is called with; and, where no handler is added    *)
(* while Run is starting, the calls of each handler make sense one by one  *)
(* and add up to the indexer.                                              *)
(***************************************************************************)
EXTENDS SharedInformer, DistinctSeqProofs, SequenceTheorems, TLAPS

-----------------------------------------------------------------------------
(* What a sequence of notifications makes of a handler's objects.          *)

About(ns, i, k) == {j \in 1 .. i : ns[j].key = k}

\* After without its CHOOSE.
LEMMA AfterIs ==
  ASSUME NEW s, NEW ns, NEW i \in Nat, NEW k \in Keys
  PROVE  /\ About(ns, i, k) = {} => After(s, ns, i)[k] = s[k]
         /\ \A j \in About(ns, i, k) :
              (\A m \in About(ns, i, k) : m <= j) => After(s, ns, i)[k] = Told(ns[j])
<1> DEFINE A == About(ns, i, k)
           Last == CHOOSE j \in A : \A m \in A : m <= j
<1>1. After(s, ns, i)[k] = IF A = {} THEN s[k] ELSE Told(ns[Last])
  BY DEF After, About
<1>2. ASSUME NEW j \in A, \A m \in A : m <= j
      PROVE  Last = j
  <2>1. A \subseteq Int
    BY DEF About
  <2>2. Last \in A /\ \A m \in A : m <= Last
    BY <1>2
  <2> QED  BY <1>2, <2>1, <2>2
<1> HIDE DEF Last, A
<1>3. About(ns, i, k) = A
  BY DEF A
<1> QED  BY <1>1, <1>2, <1>3

\* A notification that is about the key is the last one, or there is one.
LEMMA LastAbout ==
  ASSUME NEW ns, NEW i \in Nat, NEW k \in Keys, About(ns, i, k) # {}
  PROVE  \E j \in About(ns, i, k) : \A m \in About(ns, i, k) : m <= j
<1>1. About(ns, i, k) \in SUBSET (1 .. i)
  BY DEF About
<1> QED  BY <1>1, GreatestExists

\* No notification changes nothing.
LEMMA AfterNone ==
  ASSUME NEW s, NEW ns, NEW k \in Keys
  PROVE  After(s, ns, 0)[k] = s[k]
<1>1. About(ns, 0, k) = {}
  BY DEF About
<1> QED  BY <1>1, AfterIs

\* One notification more.
LEMMA AfterStep ==
  ASSUME NEW s, NEW ns, NEW i \in Nat, NEW k \in Keys
  PROVE  /\ ns[i + 1].key = k => After(s, ns, i + 1)[k] = Told(ns[i + 1])
         /\ ns[i + 1].key # k => After(s, ns, i + 1)[k] = After(s, ns, i)[k]
<1>1. CASE ns[i + 1].key = k
  <2>1. i + 1 \in About(ns, i + 1, k) /\ \A m \in About(ns, i + 1, k) : m <= i + 1
    BY <1>1 DEF About
  <2> QED  BY <1>1, <2>1, AfterIs
<1>2. CASE ns[i + 1].key # k
  <2>1. About(ns, i + 1, k) = About(ns, i, k)
    BY <1>2 DEF About
  <2>2. CASE About(ns, i, k) = {}
    BY <1>2, <2>1, <2>2, AfterIs
  <2>3. CASE About(ns, i, k) # {}
    <3>1. PICK j \in About(ns, i, k) : \A m \in About(ns, i, k) : m <= j
      BY <2>3, LastAbout
    <3> QED  BY <1>2, <2>1, <3>1, AfterIs
  <2> QED  BY <2>2, <2>3
<1> QED  BY <1>1, <1>2

\* Only the first i matter.
LEMMA AfterSame ==
  ASSUME NEW s, NEW ns, NEW ms, NEW i \in Nat, NEW k \in Keys,
         \A j \in 1 .. i : ms[j] = ns[j]
  PROVE  After(s, ms, i)[k] = After(s, ns, i)[k]
<1>1. About(ms, i, k) = About(ns, i, k)
  BY DEF About
<1>2. CASE About(ns, i, k) = {}
  BY <1>1, <1>2, AfterIs
<1>3. CASE About(ns, i, k) # {}
  <2>1. PICK j \in About(ns, i, k) : \A m \in About(ns, i, k) : m <= j
    BY <1>3, LastAbout
  <2>2. ms[j] = ns[j]
    BY <2>1 DEF About
  <2> QED  BY <1>1, <2>1, <2>2, AfterIs
<1> QED  BY <1>2, <1>3

\* The first notification may as well be part of the state.
LEMMA AfterShift ==
  ASSUME NEW s, NEW t, NEW ns, NEW ms, NEW i \in Nat, NEW k \in Keys,
         \A j \in 1 .. i : ms[j] = ns[j + 1],
         t[k] = IF ns[1].key = k THEN Told(ns[1]) ELSE s[k]
  PROVE  After(t, ms, i)[k] = After(s, ns, i + 1)[k]
<1>1. \A j \in 1 .. i : j \in About(ms, i, k) <=> j + 1 \in About(ns, i + 1, k)
  BY DEF About
<1>2. CASE About(ms, i, k) = {}
  <2>1. \A j \in About(ns, i + 1, k) : j = 1
    <3> SUFFICES ASSUME NEW j \in About(ns, i + 1, k), j # 1 PROVE FALSE
      OBVIOUS
    <3>1. j - 1 \in 1 .. i /\ (j - 1) + 1 = j
      BY DEF About
    <3> QED  BY <1>1, <1>2, <3>1
  <2>2. 1 \in About(ns, i + 1, k) <=> ns[1].key = k
    BY DEF About
  <2>3. After(t, ms, i)[k] = t[k]
    BY <1>2, AfterIs
  <2>4. CASE ns[1].key = k
    <3>1. After(s, ns, i + 1)[k] = Told(ns[1])
      BY <2>1, <2>2, <2>4, AfterIs
    <3> QED  BY <2>3, <2>4, <3>1
  <2>5. CASE ns[1].key # k
    <3>1. About(ns, i + 1, k) = {}
      BY <2>1, <2>2, <2>5
    <3>2. After(s, ns, i + 1)[k] = s[k]
      BY <3>1, AfterIs
    <3> QED  BY <2>3, <2>5, <3>2
  <2> QED  BY <2>4, <2>5
<1>3. CASE About(ms, i, k) # {}
  <2>1. PICK j \in About(ms, i, k) : \A m \in About(ms, i, k) : m <= j
    BY <1>3, LastAbout
  <2>2. j \in 1 .. i
    BY <2>1 DEF About
  <2>3. j + 1 \in About(ns, i + 1, k)
    BY <1>1, <2>1, <2>2
  <2>4. ASSUME NEW m \in About(ns, i + 1, k) PROVE m <= j + 1
    <3>1. m \in 1 .. (i + 1)
      BY DEF About
    <3>2. CASE m = 1
      BY <2>2, <3>2
    <3>3. CASE m # 1
      <4>1. m - 1 \in 1 .. i /\ (m - 1) + 1 = m
        BY <3>1, <3>3
      <4>2. m - 1 \in About(ms, i, k)
        BY <1>1, <4>1
      <4>3. m - 1 <= j
        BY <2>1, <4>2
      <4> QED  BY <2>2, <3>1, <4>3
    <3> QED  BY <3>2, <3>3
  <2>5. After(s, ns, i + 1)[k] = Told(ns[j + 1])
    BY <2>3, <2>4, AfterIs
  <2>6. After(t, ms, i)[k] = Told(ms[j])
    BY <2>1, AfterIs
  <2> QED  BY <2>2, <2>5, <2>6
<1> QED  BY <1>2, <1>3

\* The parts of a notification.
LEMMA NoticeIs ==
  ASSUME NEW n \in Notices
  PROVE  /\ n.key \in Keys /\ n.obj \in Versions
         /\ n.type \in {"add", "update", "delete"} /\ n # Nothing
BY DEF Notices, Nothing

\* Each notification suits what the ones before it left.
Sense(s, ns) ==
  \A i \in 1 .. Len(ns) :
    ns[i].type = "add" <=> After(s, ns, i - 1)[ns[i].key] = Absent

\* A notification at the end.
LEMMA SenseAppend ==
  ASSUME NEW s, NEW ns \in Seq(Notices), NEW n \in Notices, Sense(s, ns),
         n.type = "add" <=> Replay(s, ns)[n.key] = Absent
  PROVE  /\ Sense(s, Append(ns, n))
         /\ \A k \in Keys : Replay(s, Append(ns, n))[k] =
                              IF n.key = k THEN Told(n) ELSE Replay(s, ns)[k]
<1>0. n.key \in Keys /\ \A i \in 1 .. Len(ns) : ns[i].key \in Keys
  BY NoticeIs
<1> DEFINE ms == Append(ns, n)
<1>1. /\ Len(ns) \in Nat /\ Len(ms) = Len(ns) + 1 /\ ms[Len(ns) + 1] = n
      /\ \A j \in 1 .. Len(ns) : ms[j] = ns[j]
  OBVIOUS
<1> HIDE DEF ms
<1>2. ASSUME NEW i \in 0 .. Len(ns), NEW k \in Keys
      PROVE  After(s, ms, i)[k] = After(s, ns, i)[k]
  BY <1>1, AfterSame
<1>3. Sense(s, ms)
  <2> SUFFICES ASSUME NEW i \in 1 .. Len(ms)
               PROVE  ms[i].type = "add" <=> After(s, ms, i - 1)[ms[i].key] = Absent
    BY DEF Sense
  <2>1. CASE i \in 1 .. Len(ns)
    <3>1. i - 1 \in 0 .. Len(ns) /\ ms[i] = ns[i] /\ ns[i].key \in Keys
      BY <1>0, <1>1, <2>1
    <3> QED  BY <1>2, <2>1, <3>1 DEF Sense
  <2>2. CASE i = Len(ns) + 1
    <3>1. i - 1 = Len(ns) /\ ms[i] = n /\ Len(ns) \in 0 .. Len(ns)
      BY <1>1, <2>2
    <3> QED  BY <1>0, <1>2, <3>1 DEF Replay
  <2> QED  BY <1>1, <2>1, <2>2
<1>4. ASSUME NEW k \in Keys
      PROVE  Replay(s, ms)[k] = IF n.key = k THEN Told(n) ELSE Replay(s, ns)[k]
  <2>1. PICK L \in Nat : L = Len(ns)
    BY <1>1
  <2>2. After(s, ms, L)[k] = After(s, ns, L)[k]
    BY <1>1, <1>2, <2>1
  <2>3. /\ ms[L + 1].key = k => After(s, ms, L + 1)[k] = Told(ms[L + 1])
        /\ ms[L + 1].key # k => After(s, ms, L + 1)[k] = After(s, ms, L)[k]
    BY AfterStep
  <2> QED  BY <1>1, <2>1, <2>2, <2>3 DEF Replay
<1> QED  BY <1>3, <1>4 DEF ms

\* The first notification is delivered.
LEMMA SenseTail ==
  ASSUME NEW s, NEW t, NEW ns \in Seq(Notices), ns # <<>>, Sense(s, ns),
         \A k \in Keys : t[k] = IF ns[1].key = k THEN Told(ns[1]) ELSE s[k]
  PROVE  /\ ns[1].type = "add" <=> s[ns[1].key] = Absent
         /\ Sense(t, Tail(ns))
         /\ \A k \in Keys : Replay(t, Tail(ns))[k] = Replay(s, ns)[k]
<1>0. \A i \in 1 .. Len(ns) : ns[i].key \in Keys
  BY NoticeIs
<1> DEFINE ms == Tail(ns)
<1>1. PICK L \in Nat : Len(ns) = L + 1
  <2>1. Len(ns) \in Nat /\ Len(ns) # 0
    OBVIOUS
  <2>2. Len(ns) - 1 \in Nat /\ Len(ns) = (Len(ns) - 1) + 1
    BY <2>1
  <2> QED  BY <2>2
<1>2. Len(ms) = L /\ \A j \in 1 .. L : ms[j] = ns[j + 1]
  BY <1>1
<1> HIDE DEF ms
<1>3. ASSUME NEW i \in 0 .. L, NEW k \in Keys
      PROVE  After(t, ms, i)[k] = After(s, ns, i + 1)[k]
  <2>1. i \in Nat /\ \A j \in 1 .. i : ms[j] = ns[j + 1]
    BY <1>2
  <2> QED  BY <2>1, AfterShift
<1>4. ns[1].type = "add" <=> s[ns[1].key] = Absent
  <2>1. 1 \in 1 .. Len(ns) /\ 1 - 1 = 0
    BY <1>1
  <2>2. ns[1].type = "add" <=> After(s, ns, 0)[ns[1].key] = Absent
    BY <2>1 DEF Sense
  <2> QED  BY <1>0, <2>1, <2>2, AfterNone
<1>5. Sense(t, ms)
  <2> SUFFICES ASSUME NEW i \in 1 .. Len(ms)
               PROVE  ms[i].type = "add" <=> After(t, ms, i - 1)[ms[i].key] = Absent
    BY DEF Sense
  <2>1. i - 1 \in 0 .. L /\ (i - 1) + 1 = i /\ i + 1 \in 1 .. Len(ns) /\ (i + 1) - 1 = i
    BY <1>1, <1>2
  <2>2. ms[i] = ns[i + 1] /\ ms[i].key \in Keys
    BY <1>0, <1>2, <2>1
  <2>3. ns[i + 1].type = "add" <=> After(s, ns, i)[ns[i + 1].key] = Absent
    BY <2>1 DEF Sense
  <2> QED  BY <1>3, <2>1, <2>2, <2>3
<1>6. ASSUME NEW k \in Keys PROVE Replay(t, ms)[k] = Replay(s, ns)[k]
  BY <1>1, <1>2, <1>3 DEF Replay
<1> QED  BY <1>4, <1>5, <1>6 DEF ms


-----------------------------------------------------------------------------
(* Types.                                                                  *)

PopStates == {"off", "get", "waiting", "send", "exited"}
RunStates == {"off", "idle", "calling", "exited"}

\* Where pop goroutines hold a notification.
HoldsOnlyToSend(at, holds) ==
  \A h \in Handlers, t \in Threads :
    /\ at[h][t] = "send" => holds[h][t] # Nothing
    /\ at[h][t] \in {"off", "get", "waiting"} => holds[h][t] = Nothing

PopTyped ==
  /\ popAt \in [Handlers -> [Threads -> PopStates]]
  /\ popHolds \in [Handlers -> [Threads -> Notices \cup {Nothing}]]
  /\ HoldsOnlyToSend(popAt, popHolds)

RunTyped ==
  /\ runAt \in [Handlers -> [Threads -> RunStates]]
  /\ calls \in [Handlers -> [Threads -> Notices \cup {Nothing}]]
  /\ view \in [Handlers -> [Keys -> Versions \cup {Absent}]]

Flags == started \in BOOLEAN /\ running \in BOOLEAN /\ stopped \in BOOLEAN

IndexerTyped ==
  /\ indexer \in [Keys -> Versions \cup {Absent}] /\ version \in 0 .. MaxVersion
  /\ blockDeltas \in Handlers \cup {Nobody, Deltas}
  /\ listeners \subseteq Handlers /\ left \subseteq listeners
  /\ toList \subseteq {k \in Keys : indexer[k] # Absent}
  /\ toList # {} => blockDeltas \in Handlers
  /\ work # <<>> \/ left # {} => blockDeltas = Deltas

NotificationTyped == notification \in IF left = {} THEN Notices \cup {Nothing} ELSE Notices

WorkTyped == work \in Seq(DeltaSet)

PendingTyped == pending \in [Handlers -> Seq(Notices)]

\* The type invariant, part by part.
LEMMA TypeParts ==
  TypeOK <=> /\ PopTyped /\ RunTyped /\ Flags /\ IndexerTyped
             /\ NotificationTyped /\ WorkTyped /\ PendingTyped
BY DEF TypeOK, PopTyped, RunTyped, Flags, IndexerTyped, NotificationTyped, WorkTyped,
       PendingTyped, HoldsOnlyToSend, PopStates, RunStates

\* The same after a step.
LEMMA TypePartsNext ==
  TypeOK' <=> /\ PopTyped' /\ RunTyped' /\ Flags' /\ IndexerTyped'
              /\ NotificationTyped' /\ WorkTyped' /\ PendingTyped'
BY DEF TypeOK, PopTyped, RunTyped, Flags, IndexerTyped, NotificationTyped, WorkTyped,
       PendingTyped, HoldsOnlyToSend, PopStates, RunStates

\* A new informer is well typed.
LEMMA TypeInit == Init => TypeOK
<1> SUFFICES ASSUME Init PROVE TypeOK
  OBVIOUS
<1> USE DEF Init
<1>1. PopTyped
  BY DEF PopTyped, HoldsOnlyToSend, PopStates
<1>2. RunTyped
  BY DEF RunTyped, RunStates
<1>3. Flags
  BY DEF Flags
<1>4. IndexerTyped
  BY InformerAssumption DEF IndexerTyped
<1>5. NotificationTyped
  BY DEF NotificationTyped
<1>6. WorkTyped
  BY DEF WorkTyped
<1>7. PendingTyped
  BY DEF PendingTyped
<1> QED  BY <1>1, <1>2, <1>3, <1>4, <1>5, <1>6, <1>7, TypeParts

\* A listener gets a notification.
LEMMA AddTyped ==
  ASSUME TypeOK, NEW h \in Handlers, NEW n \in Notices, add(h, n),
         popHolds' = popHolds
  PROVE  /\ PendingTyped' /\ PopTyped'
         /\ pending'[h] = Append(pending[h], n)
         /\ \A g \in Handlers : g # h => pending'[g] = pending[g]
<1>1. PendingTyped /\ PopTyped
  BY TypeParts
<1>2. PendingTyped'
  BY <1>1 DEF PendingTyped, add
<1>3. popAt' \in [Handlers -> [Threads -> PopStates]]
  BY <1>1 DEF PopTyped, add, Woken, PopStates
<1>4. HoldsOnlyToSend(popAt', popHolds')
  BY <1>1 DEF PopTyped, add, Woken, HoldsOnlyToSend
<1> QED  BY <1>1, <1>2, <1>3, <1>4 DEF PendingTyped, PopTyped, add

\* Goroutines of listeners start.
LEMMA StartTyped ==
  ASSUME TypeOK, NEW H \in SUBSET Handlers, Start(H), popHolds' = popHolds,
         \A h \in H : popAt[h][1] = "off" \/ popAt[h][2] = "off"
  PROVE  PopTyped' /\ runAt' \in [Handlers -> [Threads -> RunStates]]
<1>1. PopTyped /\ RunTyped
  BY TypeParts
<1>2. popAt' \in [Handlers -> [Threads -> PopStates]]
  BY <1>1 DEF PopTyped, Start, PopStates, Threads
<1>3. runAt' \in [Handlers -> [Threads -> RunStates]]
  BY <1>1 DEF RunTyped, Start, RunStates, Threads
<1>4. HoldsOnlyToSend(popAt', popHolds')
  BY <1>1 DEF PopTyped, Start, HoldsOnlyToSend, Threads
<1> QED  BY <1>1, <1>2, <1>3, <1>4 DEF PopTyped


-----------------------------------------------------------------------------
(* The first invariant: goroutines, the deltas being handled, and how fresh *)
(* the indexer is.                                                          *)

\* A handler that is no listener has no goroutines, and none has a second pair
\* before the listeners were started.
Spare ==
  \A h \in Handlers :
    /\ h \notin listeners => popAt[h][1] = "off" /\ runAt[h][1] = "off"
    /\ h \notin listeners \/ ~running => popAt[h][2] = "off" /\ runAt[h][2] = "off"

\* Where in HandleDeltas a deletion is next, there is something to delete; a
\* new object has the newest version, or is the one the indexer has.
WorkMakesSense ==
  \A i \in 1 .. Len(work) :
    /\ work[i].type = "Deleted" =>
         IF i = 1 THEN indexer[work[1].key] # Absent
                  ELSE work[i - 1].type # "Deleted" /\ work[i - 1].key = work[i].key
    /\ work[i].type # "Deleted" =>
         work[i].obj = version \/ (i = 1 /\ work[1].obj = indexer[work[1].key])

\* The notification n is on its way, or a handler is being called with it.
Somewhere(n) ==
  \/ n = notification
  \/ \E h \in Handlers :
       \/ \E i \in 1 .. Len(pending[h]) : n = pending[h][i]
       \/ \E t \in Threads : n = popHolds[h][t] \/ n = calls[h][t]

FreshNote(n) ==
  n.type \in {"add", "update"} =>
    n.obj <= version /\ (indexer[n.key] = Absent \/ indexer[n.key] >= n.obj)

Freshness ==
  /\ \A k \in Keys : indexer[k] # Absent => indexer[k] <= version
  /\ \A n \in Notices : Somewhere(n) => FreshNote(n)

Base == TypeOK /\ Spare /\ WorkMakesSense /\ Freshness

\* A new informer has no notification newer than its indexer.
LEMMA BaseInit == Init => Base
<1> SUFFICES ASSUME Init PROVE Base
  OBVIOUS
<1>1. TypeOK
  BY TypeInit
<1>2. Spare
  BY DEF Init, Spare, Threads
<1>3. WorkMakesSense
  BY DEF Init, WorkMakesSense
<1>4. Freshness
  <2>1. ASSUME NEW n \in Notices PROVE ~Somewhere(n)
    <3>1. n # Nothing
      BY NoticeIs
    <3> QED  BY <3>1 DEF Init, Somewhere
  <2> QED  BY <2>1 DEF Init, Freshness
<1> QED  BY <1>1, <1>2, <1>3, <1>4 DEF Base

\* Steps that leave the indexer alone and bring up no notification.
LEMMA FreshKept ==
  ASSUME Freshness, indexer' = indexer, version' = version,
         \A n \in Notices : Somewhere(n)' => Somewhere(n) \/ FreshNote(n)
  PROVE  Freshness'
BY DEF Freshness, FreshNote

\* Deltas that are left alone still make sense.
LEMMA WorkKept ==
  ASSUME WorkMakesSense, indexer' = indexer, version' = version, work' = work
  PROVE  WorkMakesSense'
BY DEF WorkMakesSense

\* Run, AddEventHandler, JoinDone and HandleDone, Stop: the goroutines stay
\* where they are.
LEMMA BaseFlags ==
  ASSUME Base, \/ Run \/ Stop \/ JoinDone \/ HandleDone
               \/ \E h \in Handlers : AddEventHandler(h)
  PROVE  Base'
<1> USE DEF Base
<1>0. PopTyped /\ RunTyped /\ Flags /\ IndexerTyped /\ NotificationTyped /\ WorkTyped /\ PendingTyped
  BY TypeParts
<1> USE DEF Run, Stop, JoinDone, HandleDone, AddEventHandler, threads, deltavars
<1>1. PopTyped' /\ RunTyped'
  BY <1>0 DEF PopTyped, RunTyped, HoldsOnlyToSend
<1>2. Flags'
  BY <1>0 DEF Flags
<1>3. IndexerTyped'
  <2>1. CASE \E h \in Handlers : AddEventHandler(h)
    BY <1>0, <2>1 DEF IndexerTyped
  <2>2. CASE Run \/ Stop \/ JoinDone \/ HandleDone
    BY <1>0, <2>2, InformerAssumption DEF IndexerTyped, Nobody, Deltas
  <2> QED  BY <2>1, <2>2
<1>4. NotificationTyped'
  BY <1>0 DEF NotificationTyped
<1>5. WorkTyped' /\ PendingTyped'
  BY <1>0 DEF WorkTyped, PendingTyped
<1>6. Spare'
  BY <1>0 DEF Spare, Flags
<1>7. WorkMakesSense'
  BY WorkKept
<1>8. Freshness'
  <2>1. \A n \in Notices : Somewhere(n)' => Somewhere(n)
    BY NoticeIs DEF Somewhere
  <2> QED  BY <2>1, FreshKept
<1> QED  BY <1>1, <1>2, <1>3, <1>4, <1>5, <1>6, <1>7, <1>8, TypePartsNext

\* The listeners' goroutines start.
LEMMA BaseStart ==
  ASSUME Base, ProcessorRun \/ \E h \in Handlers : Join(h)
  PROVE  Base'
<1> USE DEF Base
<1>0. PopTyped /\ RunTyped /\ Flags /\ IndexerTyped /\ NotificationTyped /\ WorkTyped /\ PendingTyped
  BY TypeParts
<1>1. PICK H \in SUBSET Handlers :
        /\ Start(H)
        /\ \/ H = listeners /\ ProcessorRun
           \/ \E h \in Handlers : H = {h} /\ Join(h)
  BY <1>0 DEF ProcessorRun, Join, IndexerTyped
<1>2. \A h \in H : popAt[h][2] = "off"
  BY <1>1 DEF Spare, ProcessorRun, Join
<1>3. popHolds' = popHolds /\ calls' = calls /\ view' = view
  BY <1>1 DEF ProcessorRun, Join
<1>4. PopTyped' /\ RunTyped'
  BY <1>0, <1>1, <1>2, <1>3, StartTyped DEF RunTyped
<1>5. Flags'
  BY <1>0, <1>1 DEF Flags, ProcessorRun, Join
<1>6. IndexerTyped'
  <2>1. CASE ProcessorRun
    BY <1>0, <2>1 DEF IndexerTyped, ProcessorRun, deltavars
  <2>2. CASE \E h \in Handlers : Join(h)
    BY <1>0, <2>2, InformerAssumption DEF IndexerTyped, Nobody, Deltas, Join, deltavars
  <2> QED  BY <1>1, <2>1, <2>2
<1>7. NotificationTyped' /\ WorkTyped' /\ PendingTyped'
  BY <1>0, <1>1 DEF NotificationTyped, WorkTyped, PendingTyped, ProcessorRun, Join, deltavars
<1>8. Spare'
  <2>1. CASE ProcessorRun
    BY <1>0, <2>1 DEF Spare, ProcessorRun, Start, IndexerTyped
  <2>2. CASE \E h \in Handlers : Join(h)
    BY <1>0, <2>2 DEF Spare, Join, Start, PopTyped, RunTyped, Threads
  <2> QED  BY <2>1, <2>2, <1>1
<1>9. WorkMakesSense'
  BY <1>1, WorkKept DEF ProcessorRun, Join, deltavars
<1>10. Freshness'
  <2>1. \A n \in Notices : Somewhere(n)' => Somewhere(n)
    BY <1>1 DEF Somewhere, ProcessorRun, Join, deltavars
  <2> QED  BY <1>1, <2>1, FreshKept DEF ProcessorRun, Join, deltavars
<1> QED  BY <1>4, <1>5, <1>6, <1>7, <1>8, <1>9, <1>10, TypePartsNext


\* A listener gets a notification that is about, or an object of the indexer.
LEMMA BaseAdd ==
  ASSUME Base, \/ \E k \in Keys : JoinAdd(k)
               \/ \E h \in Handlers : distribute(h)
  PROVE  Base'
<1> USE DEF Base
<1>0. PopTyped /\ RunTyped /\ Flags /\ IndexerTyped /\ NotificationTyped /\ WorkTyped /\ PendingTyped
  BY TypeParts
<1>1. PICK h \in Handlers, n \in Notices :
        add(h, n) /\ (Somewhere(n) \/ FreshNote(n))
  <2>1. CASE \E k \in Keys : JoinAdd(k)
    <3>1. PICK k \in Keys : JoinAdd(k)
      BY <2>1
    <3>2. indexer[k] \in Versions /\ indexer[k] # Absent
      BY <1>0, <3>1 DEF IndexerTyped, JoinAdd
    <3>3. indexer[k] <= version /\ indexer[k] \in Int
      BY <3>1, <3>2 DEF Freshness, Versions
    <3>4. Notification("add", k, indexer[k]) \in Notices
      BY <3>2 DEF Notification, Notices
    <3>5. FreshNote(Notification("add", k, indexer[k]))
      BY <3>3 DEF FreshNote, Notification
    <3> QED  BY <3>1, <3>4, <3>5 DEF JoinAdd
  <2>2. CASE \E h \in Handlers : distribute(h)
    BY <1>0, <2>2 DEF distribute, NotificationTyped, Somewhere
  <2> QED  BY <2>1, <2>2
<1>2. /\ popHolds' = popHolds /\ runAt' = runAt /\ calls' = calls /\ view' = view
      /\ started' = started /\ running' = running /\ stopped' = stopped
      /\ indexer' = indexer /\ version' = version /\ blockDeltas' = blockDeltas
      /\ listeners' = listeners /\ work' = work /\ notification' = notification
      /\ toList' \subseteq toList /\ left' \subseteq left
  BY DEF JoinAdd, distribute, deltavars
<1>3. PopTyped' /\ PendingTyped'
  BY <1>1, <1>2, AddTyped
<1>4. RunTyped'
  BY <1>0, <1>2 DEF RunTyped
<1>5. Flags' /\ WorkTyped'
  BY <1>0, <1>2 DEF Flags, WorkTyped
<1>6. IndexerTyped'
  BY <1>0, <1>2 DEF IndexerTyped
<1>7. NotificationTyped'
  BY <1>0, <1>2 DEF NotificationTyped
<1>8. Spare'
  BY <1>0, <1>1, <1>2 DEF Spare, add, Woken, PopTyped, Threads
<1>9. WorkMakesSense'
  BY <1>2, WorkKept
<1>10. Freshness'
  <2>1. ASSUME NEW m \in Notices, Somewhere(m)' PROVE Somewhere(m) \/ m = n
    <3>1. CASE m = notification' \/ \E g \in Handlers, t \in Threads : m = popHolds'[g][t] \/ m = calls'[g][t]
      BY <1>2, <3>1 DEF Somewhere
    <3>2. CASE \E g \in Handlers : \E i \in 1 .. Len(pending'[g]) : m = pending'[g][i]
      <4>1. PICK g \in Handlers : \E i \in 1 .. Len(pending'[g]) : m = pending'[g][i]
        BY <3>2
      <4>2. PICK i \in 1 .. Len(pending'[g]) : m = pending'[g][i]
        BY <4>1
      <4>3. CASE g # h
        BY <1>1, <1>2, <4>2, <4>3, AddTyped DEF Somewhere
      <4>4. CASE g = h
        <5>1. pending'[h] = Append(pending[h], n) /\ pending[h] \in Seq(Notices)
          BY <1>0, <1>1, <1>2, AddTyped DEF PendingTyped
        <5>2. m = n \/ \E j \in 1 .. Len(pending[h]) : m = pending[h][j]
          BY <4>2, <4>4, <5>1
        <5> QED  BY <5>2 DEF Somewhere
      <4> QED  BY <4>3, <4>4
    <3> QED  BY <2>1, <3>1, <3>2 DEF Somewhere
  <2> QED  BY <1>1, <1>2, <2>1, FreshKept
<1> QED  BY <1>3, <1>4, <1>5, <1>6, <1>7, <1>8, <1>9, <1>10, TypePartsNext

\* The deltas a Pop hands over.
LEMMA BaseHandleDeltas ==
  ASSUME Base, NEW k \in Keys, HandleDeltas(k)
  PROVE  Base'
<1> USE DEF Base
<1>0. PopTyped /\ RunTyped /\ Flags /\ IndexerTyped /\ NotificationTyped /\ WorkTyped /\ PendingTyped
  BY TypeParts
<1>1. PopTyped' /\ RunTyped'
  BY <1>0 DEF PopTyped, RunTyped, HoldsOnlyToSend, HandleDeltas, threads
<1>2. Flags' /\ PendingTyped'
  BY <1>0 DEF Flags, PendingTyped, HandleDeltas
<1>3. version \in Nat /\ version + 1 \in Versions /\ version' = version + 1
  BY <1>0, InformerAssumption DEF IndexerTyped, HandleDeltas, Versions
<1>4. IndexerTyped'
  BY <1>0, <1>3, InformerAssumption DEF IndexerTyped, HandleDeltas, Nobody, Deltas, Versions
<1>5. NotificationTyped'
  BY <1>0 DEF NotificationTyped, HandleDeltas
<1>6. WorkTyped' /\ WorkMakesSense'
  <2> DEFINE new == Delta("Added", k, version + 1)
             upd == Delta("Updated", k, version + 1)
             del == Delta("Deleted", k, version + 1)
             syn == Delta("Sync", k, indexer[k])
             gone == Delta("Deleted", k, indexer[k])
  <2>1. new \in DeltaSet /\ upd \in DeltaSet /\ del \in DeltaSet
    BY <1>3 DEF Delta, DeltaSet
  <2>2. indexer[k] # Absent => syn \in DeltaSet /\ gone \in DeltaSet
    BY <1>0 DEF Delta, DeltaSet, IndexerTyped
  <2>3. \/ work' \in {<<new>>, <<new, upd>>, <<new, del>>} /\ indexer[k] = Absent
        \/ work' \in {<<upd>>, <<syn>>, <<gone>>, <<gone, new>>} /\ indexer[k] # Absent
    BY DEF HandleDeltas, DeltasFor
  <2>4. /\ \A d \in {new, upd, del, syn, gone} : d.key = k
        /\ new.type # "Deleted" /\ upd.type # "Deleted" /\ syn.type # "Deleted"
        /\ del.type = "Deleted" /\ gone.type = "Deleted"
        /\ new.obj = version + 1 /\ upd.obj = version + 1 /\ syn.obj = indexer[k]
    BY DEF Delta
  <2> HIDE DEF new, upd, del, syn, gone
  <2>5. WorkTyped'
    <3>1. \A d, e \in DeltaSet : <<d>> \in Seq(DeltaSet) /\ <<d, e>> \in Seq(DeltaSet)
      OBVIOUS
    <3>2. work' \in Seq(DeltaSet)
      BY <2>1, <2>2, <2>3, <3>1
    <3> QED  BY <3>2 DEF WorkTyped
  <2>6. indexer' = indexer
    BY DEF HandleDeltas
  <2>7. WorkMakesSense'
    BY <1>3, <2>3, <2>4, <2>6 DEF WorkMakesSense
  <2> QED  BY <2>5, <2>7
<1>7. Spare'
  BY DEF Spare, HandleDeltas, threads
<1>8. Freshness'
  <2>1. \A n \in Notices : Somewhere(n)' => Somewhere(n)
    BY DEF Somewhere, HandleDeltas, threads
  <2>2. \A n \in Notices : FreshNote(n) => FreshNote(n)'
    <3> SUFFICES ASSUME NEW n \in Notices, FreshNote(n) PROVE FreshNote(n)'
      OBVIOUS
    <3>1. n.obj \in Int
      BY NoticeIs DEF Versions
    <3> QED  BY <1>3, <3>1 DEF FreshNote, HandleDeltas
  <2>3. \A j \in Keys : indexer'[j] # Absent => indexer'[j] <= version'
    BY <1>0, <1>3 DEF Freshness, HandleDeltas, IndexerTyped, Versions
  <2> QED  BY <2>1, <2>2, <2>3 DEF Freshness
<1> QED  BY <1>1, <1>2, <1>4, <1>5, <1>6, <1>7, <1>8, TypePartsNext


\* What HandleDelta does with the next delta.
LEMMA NextDelta ==
  ASSUME Base, HandleDelta
  PROVE  LET d == Head(work)
         IN  /\ d = work[1] /\ d \in DeltaSet /\ d.key \in Keys /\ d.obj \in Versions
             /\ notification' \in Notices
             /\ notification'.key = d.key /\ notification'.obj = d.obj
             /\ notification'.type = "add" <=> indexer[d.key] = Absent
             /\ notification'.type = "delete" <=> d.type = "Deleted"
             /\ indexer' = [indexer EXCEPT ![d.key] = Told(notification')]
<1> USE DEF Base
<1>0. WorkTyped /\ work # <<>>
  BY TypeParts DEF HandleDelta
<1>1. Head(work) = work[1] /\ Head(work) \in DeltaSet /\ 1 \in 1 .. Len(work)
  BY <1>0 DEF WorkTyped
<1> DEFINE d == Head(work)
<1>2. d.key \in Keys /\ d.obj \in Versions
  BY <1>1 DEF DeltaSet
<1>3. d.type = "Deleted" => indexer[d.key] # Absent
  BY <1>1 DEF WorkMakesSense
<1>4. CASE d.type = "Deleted"
  <2>1. notification' = Notification("delete", d.key, d.obj) /\ indexer' = [indexer EXCEPT ![d.key] = Absent]
    BY <1>4 DEF HandleDelta
  <2> HIDE DEF d
  <2> QED  BY <1>1, <1>2, <1>3, <1>4, <2>1 DEF Notification, Notices, Told, d
<1>5. CASE d.type # "Deleted"
  <2>1. /\ notification' = Notification(IF indexer[d.key] # Absent THEN "update" ELSE "add", d.key, d.obj)
        /\ indexer' = [indexer EXCEPT ![d.key] = d.obj]
    BY <1>5 DEF HandleDelta
  <2> QED  BY <1>1, <1>2, <1>5, <2>1 DEF Notification, Notices, Told
<1> QED  BY <1>4, <1>5

\* HandleDeltas takes up a delta: indexer and notification change together.
LEMMA BaseHandleDelta ==
  ASSUME Base, HandleDelta
  PROVE  Base'
<1> USE DEF Base
<1>0. PopTyped /\ RunTyped /\ Flags /\ IndexerTyped /\ NotificationTyped /\ WorkTyped /\ PendingTyped
  BY TypeParts
<1> DEFINE d == Head(work)
<1>1. /\ d = work[1] /\ d.key \in Keys /\ d.obj \in Versions
      /\ notification' \in Notices
      /\ notification'.key = d.key /\ notification'.obj = d.obj
      /\ notification'.type = "delete" <=> d.type = "Deleted"
      /\ indexer' = [indexer EXCEPT ![d.key] = Told(notification')]
  BY NextDelta
<1>2. /\ work # <<>> /\ left = {} /\ work' = Tail(work) /\ left' = listeners
      /\ UNCHANGED <<started, running, blockDeltas, listeners, pending, popAt, popHolds,
                     runAt, calls, toList, version, stopped, view>>
  BY DEF HandleDelta, threads
<1> HIDE DEF d
<1>3. PICK L \in Nat : Len(work) = L + 1
  <2>1. Len(work) \in Nat /\ Len(work) # 0
    BY <1>0, <1>2 DEF WorkTyped
  <2>2. Len(work) - 1 \in Nat /\ Len(work) = (Len(work) - 1) + 1
    BY <2>1
  <2> QED  BY <2>2
<1>4. Len(work') = L /\ \A i \in 1 .. L : work'[i] = work[i + 1]
  BY <1>0, <1>2, <1>3 DEF WorkTyped
<1>5. PopTyped' /\ RunTyped'
  BY <1>0, <1>2 DEF PopTyped, RunTyped, HoldsOnlyToSend
<1>6. Flags' /\ PendingTyped'
  BY <1>0, <1>2 DEF Flags, PendingTyped
<1>7. Told(notification') \in Versions \cup {Absent}
  BY <1>1 DEF Told
<1>8. IndexerTyped'
  BY <1>0, <1>1, <1>2, <1>7, InformerAssumption DEF IndexerTyped, Deltas
<1>9. NotificationTyped'
  BY <1>1 DEF NotificationTyped
<1>10. WorkTyped'
  BY <1>0, <1>2 DEF WorkTyped
<1>11. WorkMakesSense'
  <2> SUFFICES ASSUME NEW i \in 1 .. Len(work')
               PROVE  /\ work'[i].type = "Deleted" =>
                           IF i = 1 THEN indexer'[work'[1].key] # Absent
                           ELSE work'[i - 1].type # "Deleted" /\ work'[i - 1].key = work'[i].key
                      /\ work'[i].type # "Deleted" =>
                           work'[i].obj = version' \/ (i = 1 /\ work'[1].obj = indexer'[work'[1].key])
    BY DEF WorkMakesSense
  <2>1. i \in 1 .. L /\ i + 1 \in 1 .. Len(work) /\ i + 1 # 1 /\ (i + 1) - 1 = i
    BY <1>3, <1>4
  <2>2. /\ work[i + 1].type = "Deleted" => work[i].type # "Deleted" /\ work[i].key = work[i + 1].key
        /\ work[i + 1].type # "Deleted" => work[i + 1].obj = version
    BY <2>1 DEF WorkMakesSense
  <2>3. work'[i] = work[i + 1]
    BY <1>4, <2>1
  <2>4. work'[i].type # "Deleted" => work'[i].obj = version'
    BY <1>2, <2>2, <2>3
  <2>5. CASE i = 1
    <3>1. work[2].type = "Deleted" => d.type # "Deleted" /\ d.key = work[2].key
      BY <1>1, <2>2, <2>5
    <3>2. d.type # "Deleted" => indexer'[d.key] # Absent
      BY <1>0, <1>1, InformerAssumption DEF Told, IndexerTyped
    <3> QED  BY <2>3, <2>4, <2>5, <3>1, <3>2
  <2>6. CASE i # 1
    <3>1. i - 1 \in 1 .. L /\ (i - 1) + 1 = i
      BY <2>1, <2>6
    <3>2. work'[i - 1] = work[i]
      BY <1>4, <3>1
    <3> QED  BY <2>2, <2>3, <2>4, <2>6, <3>2
  <2> QED  BY <2>5, <2>6
<1>12. Spare'
  BY <1>2 DEF Spare
<1>13. version \in Nat /\ version' = version
  BY <1>0, <1>2, InformerAssumption DEF IndexerTyped
<1>14. d.type # "Deleted" => d.obj \in Int /\ (d.obj = version \/ d.obj = indexer[d.key])
  <2>1. 1 \in 1 .. Len(work)
    BY <1>3
  <2> QED  BY <1>1, <2>1 DEF WorkMakesSense, Versions
<1>15. \A k \in Keys : indexer'[k] # Absent => indexer'[k] <= version'
  BY <1>0, <1>1, <1>13, <1>14 DEF Freshness, IndexerTyped, Told, Versions
<1>16. ASSUME NEW n \in Notices, Somewhere(n)' PROVE FreshNote(n)'
  <2>0. n.key \in Keys /\ n.obj \in Int
    BY NoticeIs DEF Versions
  <2>1. CASE n = notification'
    <3>1. n.type # "delete" => indexer'[n.key] = n.obj /\ n.obj <= version'
      <4>1. d.type # "Deleted" => indexer'[d.key] = d.obj
        BY <1>0, <1>1 DEF Told, IndexerTyped
      <4>2. d.type # "Deleted" => d.obj <= version'
        BY <1>1, <1>15, <4>1, InformerAssumption
      <4> QED  BY <1>1, <2>1, <4>1, <4>2
    <3> QED  BY <2>0, <3>1 DEF FreshNote
  <2>2. CASE n # notification'
    <3>1. Somewhere(n)
      BY <1>2, <1>16, <2>2 DEF Somewhere
    <3>2. FreshNote(n)
      BY <3>1 DEF Freshness
    <3>3. CASE n.type \in {"add", "update"} /\ n.key = d.key /\ d.type # "Deleted"
      <4>1. indexer'[n.key] = d.obj
        BY <1>0, <1>1, <3>3 DEF Told, IndexerTyped
      <4>2. n.obj <= version /\ (indexer[n.key] = Absent \/ indexer[n.key] >= n.obj)
        BY <3>2, <3>3 DEF FreshNote
      <4>3. d.obj >= n.obj
        BY <1>1, <1>13, <1>14, <2>0, <3>3, <4>2, InformerAssumption
      <4> QED  BY <1>13, <4>1, <4>2, <4>3 DEF FreshNote
    <3>4. CASE n.key = d.key /\ d.type = "Deleted"
      <4>1. indexer'[n.key] = Absent
        BY <1>0, <1>1, <3>4 DEF Told, IndexerTyped
      <4> QED  BY <1>13, <3>2, <4>1 DEF FreshNote
    <3>5. CASE n.key # d.key
      <4>1. indexer'[n.key] = indexer[n.key]
        BY <1>0, <1>1, <2>0, <3>5 DEF IndexerTyped
      <4> QED  BY <1>13, <3>2, <4>1 DEF FreshNote
    <3>6. CASE n.type \notin {"add", "update"}
      BY <3>6 DEF FreshNote
    <3> QED  BY <3>3, <3>4, <3>5, <3>6
  <2> QED  BY <2>1, <2>2
<1>17. Freshness'
  BY <1>15, <1>16 DEF Freshness
<1> QED  BY <1>5, <1>6, <1>8, <1>9, <1>10, <1>11, <1>12, <1>17, TypePartsNext


\* The goroutines of a listener.
LEMMA BasePop ==
  ASSUME Base, NEW h \in Handlers, pop(h)
  PROVE  Base'
<1> USE DEF Base
<1>0. PopTyped /\ RunTyped /\ Flags /\ IndexerTyped /\ NotificationTyped /\ WorkTyped /\ PendingTyped
  BY TypeParts
<1>1. /\ UNCHANGED <<indexer, started, running, blockDeltas, listeners, runAt, calls, work,
                     left, notification, version, toList, stopped, view>>
  BY DEF pop, PopTake, PopWait, PopStop, deltavars
<1>2. PICK t \in Threads : PopTake(h, t) \/ PopWait(h, t) \/ PopStop(h, t)
  BY DEF pop
<1>3. /\ popAt[h][t] # "off" /\ popAt' = [popAt EXCEPT ![h][t] = popAt'[h][t]]
      /\ popAt'[h][t] \in PopStates \ {"off"}
  BY <1>0, <1>2 DEF PopTake, PopWait, PopStop, PopTyped, PopStates
<1>4. PopTyped' /\ PendingTyped'
  <2>1. CASE PopTake(h, t)
    <3>1. Head(pending[h]) \in Notices /\ Tail(pending[h]) \in Seq(Notices)
      BY <1>0, <2>1 DEF PopTake, PendingTyped
    <3>2. Head(pending[h]) # Nothing
      BY <3>1, NoticeIs
    <3>3. PendingTyped'
      BY <1>0, <2>1, <3>1 DEF PopTake, PendingTyped
    <3>4. /\ popAt' \in [Handlers -> [Threads -> PopStates]]
          /\ popHolds' \in [Handlers -> [Threads -> Notices \cup {Nothing}]]
      BY <1>0, <2>1, <3>1 DEF PopTake, PopTyped, PopStates
    <3>5. HoldsOnlyToSend(popAt', popHolds')
      BY <1>0, <2>1, <3>1, <3>2 DEF PopTake, PopTyped, HoldsOnlyToSend
    <3> QED  BY <3>3, <3>4, <3>5 DEF PopTyped
  <2>2. CASE PopWait(h, t) \/ PopStop(h, t)
    <3>1. PendingTyped'
      BY <1>0, <2>2 DEF PopWait, PopStop, PendingTyped
    <3>2. PICK s \in {"exited", "waiting"} :
            /\ popAt' = [popAt EXCEPT ![h][t] = s] /\ popHolds' = popHolds
            /\ s = "waiting" => popAt[h][t] = "get"
      BY <2>2 DEF PopWait, PopStop
    <3>3. popAt' \in [Handlers -> [Threads -> PopStates]]
      BY <1>0, <3>2 DEF PopTyped, PopStates
    <3>4. HoldsOnlyToSend(popAt', popHolds')
      BY <1>0, <3>2 DEF PopTyped, HoldsOnlyToSend
    <3> QED  BY <1>0, <3>1, <3>2, <3>3, <3>4 DEF PopTyped
  <2> QED  BY <1>2, <2>1, <2>2
<1>5. RunTyped'
  BY <1>0, <1>1 DEF RunTyped
<1>6. Flags' /\ WorkTyped'
  BY <1>0, <1>1 DEF Flags, WorkTyped
<1>7. IndexerTyped' /\ NotificationTyped'
  BY <1>0, <1>1 DEF IndexerTyped, NotificationTyped
<1>8. Spare'
  BY <1>0, <1>1, <1>3 DEF Spare, PopTyped, Threads
<1>9. WorkMakesSense'
  BY <1>1, WorkKept
<1>10. ASSUME NEW n \in Notices, Somewhere(n)' PROVE Somewhere(n)
  <2>1. CASE PopTake(h, t)
    <3>1. Head(pending[h]) = pending[h][1] /\ 1 \in 1 .. Len(pending[h])
      BY <1>0, <2>1 DEF PopTake, PendingTyped
    <3>2. ASSUME NEW g \in Handlers, NEW i \in 1 .. Len(pending'[g])
          PROVE  \E j \in 1 .. Len(pending[g]) : pending'[g][i] = pending[g][j]
      <4>1. CASE g = h
        <5>1. pending'[g] = Tail(pending[h]) /\ pending[h] \in Seq(Notices) /\ pending[h] # <<>>
          BY <1>0, <2>1, <4>1 DEF PopTake, PendingTyped
        <5>2. i + 1 \in 1 .. Len(pending[h]) /\ pending'[g][i] = pending[h][i + 1]
          BY <5>1
        <5> QED  BY <4>1, <5>2
      <4>2. CASE g # h
        <5>1. pending'[g] = pending[g]
          BY <1>0, <2>1, <4>2 DEF PopTake, PendingTyped
        <5> QED  BY <5>1
      <4> QED  BY <4>1, <4>2
    <3>3. ASSUME NEW g \in Handlers, NEW u \in Threads
          PROVE  popHolds'[g][u] = popHolds[g][u] \/ (g = h /\ popHolds'[g][u] = pending[h][1])
      BY <1>0, <2>1, <3>1 DEF PopTake, PopTyped
    <3> QED  BY <1>1, <1>10, <3>1, <3>2, <3>3 DEF Somewhere
  <2>2. CASE PopWait(h, t) \/ PopStop(h, t)
    BY <1>1, <1>10, <2>2 DEF Somewhere, PopWait, PopStop
  <2> QED  BY <1>2, <2>1, <2>2
<1>11. Freshness'
  BY <1>1, <1>10, FreshKept
<1> QED  BY <1>4, <1>5, <1>6, <1>7, <1>8, <1>9, <1>11, TypePartsNext

\* A listener's run hands a notification to its handler.
LEMMA BaseRun ==
  ASSUME Base, NEW h \in Handlers, run(h)
  PROVE  Base'
<1> USE DEF Base
<1>0. PopTyped /\ RunTyped /\ Flags /\ IndexerTyped /\ NotificationTyped /\ WorkTyped /\ PendingTyped
  BY TypeParts
<1>1. /\ UNCHANGED <<indexer, started, running, blockDeltas, listeners, pending, work,
                     left, notification, version, toList, stopped>>
  BY DEF run, Deliver, HandlerReturns, RunStop, deltavars
<1>2. PICK u \in Threads : (\E t \in Threads : Deliver(h, t, u)) \/ HandlerReturns(h, u) \/ RunStop(h, u)
  BY DEF run
<1>3. PopTyped' /\ RunTyped'
  <2>1. CASE \E t \in Threads : Deliver(h, t, u)
    <3>1. PICK t \in Threads : Deliver(h, t, u)
      BY <2>1
    <3>2. popHolds[h][t] \in Notices
      BY <1>0, <3>1 DEF Deliver, PopTyped, HoldsOnlyToSend
    <3>3. popHolds[h][t].key \in Keys /\ Told(popHolds[h][t]) \in Versions \cup {Absent}
      BY <3>2, NoticeIs DEF Told
    <3>4. /\ popAt' \in [Handlers -> [Threads -> PopStates]]
          /\ popHolds' \in [Handlers -> [Threads -> Notices \cup {Nothing}]]
      BY <1>0, <3>1 DEF Deliver, PopTyped, PopStates
    <3>5. HoldsOnlyToSend(popAt', popHolds')
      BY <1>0, <3>1 DEF Deliver, PopTyped, HoldsOnlyToSend
    <3>6. RunTyped'
      BY <1>0, <3>1, <3>2, <3>3 DEF Deliver, RunTyped, RunStates
    <3> QED  BY <3>4, <3>5, <3>6 DEF PopTyped
  <2>2. CASE HandlerReturns(h, u)
    BY <1>0, <2>2 DEF HandlerReturns, PopTyped, RunTyped, RunStates
  <2>3. CASE RunStop(h, u)
    <3>1. popAt' \in [Handlers -> [Threads -> PopStates]] /\ popHolds' = popHolds
      BY <1>0, <2>3 DEF RunStop, PopTyped, PopStates, Woken
    <3>2. HoldsOnlyToSend(popAt', popHolds')
      BY <1>0, <2>3 DEF RunStop, PopTyped, HoldsOnlyToSend, Woken
    <3>3. RunTyped'
      BY <1>0, <2>3 DEF RunStop, RunTyped, RunStates
    <3> QED  BY <1>0, <3>1, <3>2, <3>3 DEF PopTyped
  <2> QED  BY <1>2, <2>1, <2>2, <2>3
<1>4. Flags' /\ WorkTyped' /\ PendingTyped'
  BY <1>0, <1>1 DEF Flags, WorkTyped, PendingTyped
<1>5. IndexerTyped' /\ NotificationTyped'
  BY <1>0, <1>1 DEF IndexerTyped, NotificationTyped
<1>6. Spare'
  <2>1. /\ \A g \in Handlers, t \in Threads : popAt[g][t] = "off" => popAt'[g][t] = "off"
        /\ \A g \in Handlers, t \in Threads : runAt[g][t] = "off" => runAt'[g][t] = "off"
    <3>1. CASE \E t \in Threads : Deliver(h, t, u)
      BY <1>0, <3>1 DEF Deliver, PopTyped, RunTyped
    <3>2. CASE HandlerReturns(h, u)
      BY <1>0, <3>2 DEF HandlerReturns, PopTyped, RunTyped
    <3>3. CASE RunStop(h, u)
      BY <1>0, <3>3 DEF RunStop, PopTyped, RunTyped, Woken
    <3> QED  BY <1>2, <3>1, <3>2, <3>3
  <2> QED  BY <1>1, <2>1 DEF Spare, Threads
<1>7. WorkMakesSense'
  BY <1>1, WorkKept
<1>8. ASSUME NEW n \in Notices, Somewhere(n)' PROVE Somewhere(n)
  <2>0. n # Nothing
    BY NoticeIs
  <2>1. ASSUME NEW g \in Handlers, NEW v \in Threads, n = popHolds'[g][v] PROVE Somewhere(n)
    <3>1. n = popHolds[g][v]
      BY <1>0, <1>2, <2>0, <2>1 DEF Deliver, HandlerReturns, RunStop, PopTyped
    <3> QED  BY <3>1 DEF Somewhere
  <2>2. ASSUME NEW g \in Handlers, NEW v \in Threads, n = calls'[g][v] PROVE Somewhere(n)
    <3>1. n = calls[g][v] \/ \E t \in Threads : n = popHolds[h][t]
      <4>1. CASE \E t \in Threads : Deliver(h, t, u)
        BY <1>0, <2>2, <4>1 DEF Deliver, RunTyped
      <4>2. CASE HandlerReturns(h, u)
        BY <1>0, <2>0, <2>2, <4>2 DEF HandlerReturns, RunTyped
      <4>3. CASE RunStop(h, u)
        BY <2>2, <4>3 DEF RunStop
      <4> QED  BY <1>2, <4>1, <4>2, <4>3
    <3> QED  BY <3>1 DEF Somewhere
  <2> QED  BY <1>1, <1>8, <2>1, <2>2 DEF Somewhere
<1>9. Freshness'
  BY <1>1, <1>8, FreshKept
<1> QED  BY <1>3, <1>4, <1>5, <1>6, <1>7, <1>9, TypePartsNext

\* Every step keeps the base invariant.
LEMMA BaseNext == Base /\ [Next]_vars => Base'
<1> SUFFICES ASSUME Base, [Next]_vars PROVE Base'
  OBVIOUS
<1>1. CASE \/ Run \/ Stop \/ JoinDone \/ HandleDone
           \/ \E h \in Handlers : AddEventHandler(h)
  BY <1>1, BaseFlags
<1>2. CASE ProcessorRun \/ \E h \in Handlers : Join(h)
  BY <1>2, BaseStart
<1>3. CASE (\E k \in Keys : JoinAdd(k)) \/ \E h \in Handlers : distribute(h)
  BY <1>3, BaseAdd
<1>4. CASE \E k \in Keys : HandleDeltas(k)
  BY <1>4, BaseHandleDeltas
<1>5. CASE HandleDelta
  BY <1>5, BaseHandleDelta
<1>6. CASE \E h \in Handlers : pop(h)
  BY <1>6, BasePop
<1>7. CASE \E h \in Handlers : run(h)
  BY <1>7, BaseRun
<1>8. CASE UNCHANGED vars
  <2>1. TypeOK'
    BY <1>8 DEF Base, TypeOK, vars
  <2>2. Spare' /\ WorkMakesSense'
    BY <1>8 DEF Base, Spare, WorkMakesSense, vars
  <2>3. Freshness'
    BY <1>8 DEF Base, Freshness, FreshNote, Somewhere, vars
  <2> QED  BY <2>1, <2>2, <2>3 DEF Base
<1> QED  BY <1>1, <1>2, <1>3, <1>4, <1>5, <1>6, <1>7, <1>8 DEF Next

\* Type correctness, the state of the goroutines and the freshness of the
\* indexer, whenever handlers are added.
THEOREM BaseInvariant == Safety => []Base
<1>1. Init => Base
  BY BaseInit
<1>2. Base /\ [Next]_vars => Base'
  BY BaseNext
<1> QED  BY <1>1, <1>2, PTL DEF Safety

\* The variables of the informer and its listeners keep their types.
THEOREM TypeCorrect == Safety => []TypeOK
<1>1. Base => TypeOK
  BY DEF Base
<1> QED  BY <1>1, BaseInvariant, PTL

\* The promise of SharedInformer's comment: when a handler is called, the
\* indexer has what it is told of, or something newer, or has lost it since;
\* also for a handler that was added while Run was starting.
THEOREM CacheIsFresh == Safety => []CacheAtLeastAsFresh
<1>1. Base => CacheAtLeastAsFresh
  <2> SUFFICES ASSUME Base, NEW h \in Handlers, NEW u \in Threads,
                      calls[h][u].type \in {"add", "update"}
               PROVE  \/ indexer[calls[h][u].key] = Absent
                      \/ indexer[calls[h][u].key] >= calls[h][u].obj
    BY DEF CacheAtLeastAsFresh
  <2>1. RunTyped
    BY TypeParts DEF Base
  <2>2. calls[h][u] \in Notices \cup {Nothing} /\ calls[h][u] # Nothing
    BY <2>1 DEF RunTyped, Nothing
  <2>3. Somewhere(calls[h][u])
    BY DEF Somewhere
  <2> QED  BY <2>2, <2>3 DEF Base, Freshness, FreshNote
<1> QED  BY <1>1, BaseInvariant, PTL


-----------------------------------------------------------------------------
(* The second invariant, for when no handler is added while Run is starting: *)
(* each listener has one pair of goroutines, and what it has been called     *)
(* with and what is on its way to it make sense and add up to the indexer.   *)

\* Nobody uses the second pair of goroutines.  Nothing has happened to a handler
\* that is no listener, nor to any before the listeners were started.
Quiet ==
  /\ \A h \in Handlers : popAt[h][2] = "off" /\ runAt[h][2] = "off"
  /\ \A h \in Handlers : h \notin listeners \/ ~running =>
       /\ popAt[h][1] = "off" /\ runAt[h][1] = "off"
       /\ pending[h] = <<>> /\ \A k \in Keys : view[h][k] = Absent
  /\ ~started => ~running
  /\ blockDeltas \in Handlers => blockDeltas \in listeners
  /\ ~running => blockDeltas = Nobody /\ \A k \in Keys : indexer[k] = Absent

\* A handler that is joining has still to hear of the keys in toList.
Matches(h) ==
  \A k \in Keys : Replay(view[h], Undelivered(h))[k] =
                    IF blockDeltas = h /\ k \in toList THEN Absent ELSE indexer[k]

Good(h) == Sense(view[h], Undelivered(h)) /\ Matches(h)

AllGood == \A h \in listeners : Good(h)

IInv == Base /\ Quiet /\ AllGood

\* What is on its way to a handler is a sequence of notifications.
LEMMA UndeliveredTyped ==
  ASSUME TypeOK, NEW h \in Handlers
  PROVE  Undelivered(h) \in Seq(Notices)
<1>0. PopTyped /\ PendingTyped /\ NotificationTyped
  BY TypeParts
<1>1. (IF popHolds[h][1] = Nothing THEN <<>> ELSE <<popHolds[h][1]>>) \in Seq(Notices)
  <2>1. popHolds[h][1] \in Notices \cup {Nothing}
    BY <1>0 DEF PopTyped, Threads
  <2> QED  BY <2>1
<1>2. (IF h \in left THEN <<notification>> ELSE <<>>) \in Seq(Notices)
  BY <1>0 DEF NotificationTyped
<1>3. pending[h] \in Seq(Notices)
  BY <1>0 DEF PendingTyped
<1> QED  BY <1>1, <1>2, <1>3, ConcatProperties DEF Undelivered

\* What the steps do to the notifications on their way to a listener.
LEMMA UndeliveredKept ==
  ASSUME NEW h \in Handlers,
         popHolds'[h][1] = popHolds[h][1], pending'[h] = pending[h],
         h \in left' <=> h \in left, h \in left => notification' = notification
  PROVE  Undelivered(h)' = Undelivered(h)
BY DEF Undelivered

\* Nothing is on its way.
LEMMA UndeliveredNone ==
  ASSUME NEW h \in Handlers, popHolds[h][1] = Nothing, pending[h] = <<>>, h \notin left
  PROVE  /\ Undelivered(h) = <<>> /\ Sense(view[h], <<>>)
         /\ \A k \in Keys : Replay(view[h], Undelivered(h))[k] = view[h][k]
<1>1. Undelivered(h) = <<>>
  <2>1. <<>> \in Seq({}) /\ <<>> \o <<>> = <<>>
    BY ConcatEmptySeq
  <2> QED  BY <2>1 DEF Undelivered
<1>2. Len(<<>>) = 0
  OBVIOUS
<1>3. Sense(view[h], <<>>)
  BY <1>2 DEF Sense
<1> QED  BY <1>1, <1>2, <1>3, AfterNone DEF Replay

\* A listener about which nothing changes.
LEMMA GoodKept ==
  ASSUME NEW h \in Handlers, Good(h), Undelivered(h)' = Undelivered(h),
         view'[h] = view[h], indexer' = indexer,
         \A k \in Keys : blockDeltas' = h /\ k \in toList' <=> blockDeltas = h /\ k \in toList
  PROVE  Good(h)'
<1>1. Sense(view[h], Undelivered(h))'
  <2>1. Sense(view'[h], Undelivered(h)')
    BY DEF Good
  <2> QED  BY <2>1
<1>2. \A k \in Keys : Replay(view[h], Undelivered(h))[k]' = Replay(view[h], Undelivered(h))[k]
  BY DEF Replay, After, Told
<1>3. Matches(h)'
  BY <1>2 DEF Good, Matches
<1> QED  BY <1>1, <1>3 DEF Good

\* A new informer owes nobody anything.
LEMMA IInvInit == Init => IInv
<1> SUFFICES ASSUME Init PROVE IInv
  OBVIOUS
<1>1. Base
  BY BaseInit
<1>2. Quiet
  BY InformerAssumption DEF Init, Quiet, Threads
<1>3. AllGood
  BY DEF Init, AllGood
<1> QED  BY <1>1, <1>2, <1>3 DEF IInv

\* Steps that bring no notification and change no indexer: Run, Stop, JoinDone,
\* HandleDone, HandleDeltas, and what the goroutines do besides taking and
\* delivering.
LEMMA GoodIdle ==
  ASSUME IInv,
         \/ Run \/ Stop \/ JoinDone \/ HandleDone \/ ProcessorRun
         \/ \E k \in Keys : HandleDeltas(k)
         \/ \E h \in Handlers, t \in Threads :
              PopWait(h, t) \/ PopStop(h, t) \/ HandlerReturns(h, t) \/ RunStop(h, t)
  PROVE  AllGood'
<1>0. IndexerTyped
  BY TypeParts DEF IInv, Base
<1>1. /\ UNCHANGED <<popHolds, pending, left, view, indexer, listeners, toList>>
      /\ left # {} => notification' = notification
      /\ toList # {} => blockDeltas' = blockDeltas
  BY <1>0, InformerAssumption
     DEF Run, Stop, JoinDone, HandleDone, ProcessorRun, HandleDeltas, PopWait, PopStop,
         HandlerReturns, RunStop, threads, deltavars, IndexerTyped
<1> SUFFICES ASSUME NEW h \in listeners PROVE Good(h)'
  BY <1>1 DEF AllGood
<1>2. h \in Handlers /\ Good(h)
  BY <1>0 DEF IndexerTyped, IInv, AllGood
<1>3. Undelivered(h)' = Undelivered(h)
  BY <1>1, <1>2, UndeliveredKept
<1> QED  BY <1>1, <1>2, <1>3, GoodKept

\* A new listener.
LEMMA GoodNew ==
  ASSUME IInv, NEW h \in Handlers, AddEventHandler(h) \/ Join(h)
  PROVE  AllGood'
<1>0. IndexerTyped /\ PopTyped
  BY TypeParts DEF IInv, Base
<1>1. /\ UNCHANGED <<popHolds, pending, left, notification, view, indexer>>
      /\ h \notin listeners /\ listeners' = listeners \cup {h}
  BY DEF AddEventHandler, Join, threads, deltavars
<1>2. ASSUME NEW g \in listeners PROVE Good(g)'
  <2>1. g \in Handlers /\ g # h /\ Good(g)
    BY <1>0, <1>1 DEF IndexerTyped, IInv, AllGood
  <2>2. Undelivered(g)' = Undelivered(g)
    BY <1>1, <2>1, UndeliveredKept
  <2>3. \A k \in Keys : blockDeltas' = g /\ k \in toList' <=> blockDeltas = g /\ k \in toList
    BY <1>0, <2>1, InformerAssumption DEF AddEventHandler, Join, IndexerTyped
  <2> QED  BY <1>1, <2>1, <2>2, <2>3, GoodKept
<1>3. Good(h)'
  <2>1. /\ popAt[h][1] = "off" /\ pending[h] = <<>> /\ \A k \in Keys : view[h][k] = Absent
    BY <1>1 DEF IInv, Quiet
  <2>2. popHolds[h][1] = Nothing /\ h \notin left
    BY <1>0, <1>1, <2>1 DEF PopTyped, HoldsOnlyToSend, Threads, IndexerTyped
  <2>3. /\ Undelivered(h) = <<>> /\ Sense(view[h], <<>>)
        /\ \A k \in Keys : Replay(view[h], Undelivered(h))[k] = view[h][k]
    BY <2>1, <2>2, UndeliveredNone
  <2>4. Undelivered(h)' = Undelivered(h) /\ view'[h] = view[h]
    BY <1>1, UndeliveredKept
  <2>5. Sense(view[h], Undelivered(h))'
    BY <2>3, <2>4 DEF Sense, After, Told
  <2>6. \A k \in Keys : Replay(view[h], Undelivered(h))[k]' = Absent
    BY <2>1, <2>3, <2>4 DEF Replay, After, Told
  <2>7. \A k \in Keys : (blockDeltas' = h /\ k \in toList') \/ indexer'[k] = Absent
    BY <1>1 DEF AddEventHandler, Join, IInv, Quiet
  <2>8. Matches(h)'
    BY <2>6, <2>7 DEF Matches
  <2> QED  BY <2>5, <2>8 DEF Good
<1> QED  BY <1>1, <1>2, <1>3 DEF AllGood


\* A notification at the end of what is on its way to h.
LEMMA GoodAppend ==
  ASSUME TypeOK, NEW h \in Handlers, Good(h), NEW n \in Notices,
         Undelivered(h)' = Append(Undelivered(h), n), view'[h] = view[h],
         n.type = "add" <=> Replay(view[h], Undelivered(h))[n.key] = Absent,
         \A k \in Keys :
           (IF n.key = k THEN Told(n) ELSE Replay(view[h], Undelivered(h))[k]) =
             IF blockDeltas' = h /\ k \in toList' THEN Absent ELSE indexer'[k]
  PROVE  Good(h)'
<1>1. Undelivered(h) \in Seq(Notices)
  BY UndeliveredTyped
<1>2. /\ Sense(view[h], Append(Undelivered(h), n))
      /\ \A k \in Keys : Replay(view[h], Append(Undelivered(h), n))[k] =
                           IF n.key = k THEN Told(n) ELSE Replay(view[h], Undelivered(h))[k]
  BY <1>1, SenseAppend DEF Good
<1>3. Sense(view'[h], Undelivered(h)')
  BY <1>2
<1>4. \A k \in Keys : Replay(view'[h], Undelivered(h)')[k] =
                        IF blockDeltas' = h /\ k \in toList' THEN Absent ELSE indexer'[k]
  BY <1>2
<1> QED  BY <1>3, <1>4 DEF Good, Matches

\* Joining sequences with a single notification.
LEMMA ConcatOne ==
  ASSUME NEW ns \in Seq(Notices), NEW ms \in Seq(Notices), NEW n \in Notices
  PROVE  /\ (ns \o ms) \o <<n>> = ns \o (ms \o <<n>>)
         /\ (<<n>> \o ns) \o ms = <<n>> \o (ns \o ms)
<1>1. <<n>> \in Seq(Notices)
  OBVIOUS
<1> QED  BY <1>1, ConcatAssociative

\* The parts of what is on its way to h.
Held(h) == IF popHolds[h][1] = Nothing THEN <<>> ELSE <<popHolds[h][1]>>
Due(h) == IF h \in left THEN <<notification>> ELSE <<>>

\* What is on its way, from the nearest to the farthest.
LEMMA UndeliveredParts ==
  ASSUME TypeOK, NEW h \in Handlers
  PROVE  /\ Held(h) \in Seq(Notices) /\ pending[h] \in Seq(Notices) /\ Due(h) \in Seq(Notices)
         /\ Undelivered(h) = (Held(h) \o pending[h]) \o Due(h)
<1>0. PopTyped /\ PendingTyped /\ NotificationTyped
  BY TypeParts
<1>1. Held(h) \in Seq(Notices)
  <2>1. popHolds[h][1] \in Notices \cup {Nothing}
    BY <1>0 DEF PopTyped, Threads
  <2> QED  BY <2>1 DEF Held
<1>2. Due(h) \in Seq(Notices)
  BY <1>0 DEF NotificationTyped, Due
<1>3. pending[h] \in Seq(Notices)
  BY <1>0 DEF PendingTyped
<1> QED  BY <1>1, <1>2, <1>3 DEF Undelivered, Held, Due

\* JoinAdd: the joining handler hears of one object more.
LEMMA GoodJoinAdd ==
  ASSUME IInv, NEW k \in Keys, JoinAdd(k)
  PROVE  AllGood'
<1>0. IndexerTyped /\ TypeOK
  BY TypeParts DEF IInv, Base
<1>1. PICK h \in Handlers : h = blockDeltas
  BY DEF JoinAdd
<1>2. /\ UNCHANGED <<popHolds, left, notification, view, indexer, listeners, blockDeltas>>
      /\ toList' = toList \ {k} /\ k \in toList /\ add(h, Notification("add", k, indexer[k]))
  BY <1>1 DEF JoinAdd, deltavars
<1> DEFINE n == Notification("add", k, indexer[k])
<1>3. left = {} /\ indexer[k] \in Versions /\ indexer[k] # Absent
  BY <1>0, <1>1, <1>2, InformerAssumption DEF IndexerTyped
<1>4. n \in Notices /\ n.type = "add" /\ n.key = k /\ Told(n) = indexer[k]
  BY <1>3 DEF Notification, Notices, Told
<1> HIDE DEF n
<1>5. pending'[h] = Append(pending[h], n) /\ \A g \in Handlers : g # h => pending'[g] = pending[g]
  BY <1>0, <1>2, <1>4, AddTyped DEF n
<1> SUFFICES ASSUME NEW g \in listeners PROVE Good(g)'
  BY <1>2 DEF AllGood
<1>6. g \in Handlers /\ Good(g)
  BY <1>0 DEF IndexerTyped, IInv, AllGood
<1>7. CASE g # h
  <2>1. Undelivered(g)' = Undelivered(g)
    BY <1>2, <1>5, <1>6, <1>7, UndeliveredKept
  <2> QED  BY <1>1, <1>2, <1>6, <1>7, <2>1, GoodKept
<1>8. CASE g = h
  <2>1. /\ Held(h) \in Seq(Notices) /\ pending[h] \in Seq(Notices)
        /\ Undelivered(h) = (Held(h) \o pending[h]) \o <<>>
    BY <1>0, <1>3, UndeliveredParts DEF Due
  <2>2. Undelivered(h)' = (Held(h) \o Append(pending[h], n)) \o <<>>
    BY <1>2, <1>3, <1>5 DEF Undelivered, Held
  <2>3. Held(h) \o pending[h] \in Seq(Notices) /\ <<n>> \in Seq(Notices)
    BY <1>4, <2>1, ConcatProperties
  <2>4. Held(h) \o Append(pending[h], n) = (Held(h) \o pending[h]) \o <<n>>
    BY <1>4, <2>1, <2>3, AppendIsConcat, ConcatAssociative
  <2>5. (Held(h) \o pending[h]) \o <<n>> \in Seq(Notices)
    BY <2>3, ConcatProperties
  <2>6. Undelivered(h)' = Append(Undelivered(h), n)
    <3>1. Undelivered(h) = Held(h) \o pending[h]
      BY <2>1, <2>3, ConcatEmptySeq
    <3>2. Undelivered(h)' = (Held(h) \o pending[h]) \o <<n>>
      BY <2>2, <2>4, <2>5, ConcatEmptySeq
    <3>3. Append(Held(h) \o pending[h], n) = (Held(h) \o pending[h]) \o <<n>>
      BY <1>4, <2>3, AppendIsConcat
    <3> QED  BY <3>1, <3>2, <3>3
  <2>7. \A j \in Keys : Replay(view[h], Undelivered(h))[j] = IF j \in toList THEN Absent ELSE indexer[j]
    BY <1>1, <1>6, <1>8 DEF Good, Matches
  <2>8. n.type = "add" <=> Replay(view[h], Undelivered(h))[n.key] = Absent
    BY <1>2, <1>4, <2>7
  <2>9. \A j \in Keys : (IF n.key = j THEN Told(n) ELSE Replay(view[h], Undelivered(h))[j]) =
                          IF blockDeltas' = h /\ j \in toList' THEN Absent ELSE indexer'[j]
    BY <1>1, <1>2, <1>4, <2>7
  <2>10. view'[h] = view[h] /\ Good(h)
    BY <1>2, <1>6, <1>8
  <2> QED  BY <1>0, <1>4, <1>8, <2>6, <2>8, <2>9, <2>10, GoodAppend
<1> QED  BY <1>7, <1>8

\* HandleDelta: the indexer changes and a notification of it is due to all.
LEMMA GoodHandleDelta ==
  ASSUME IInv, HandleDelta
  PROVE  AllGood'
<1>0. IndexerTyped /\ TypeOK /\ Base
  BY TypeParts DEF IInv, Base
<1> DEFINE d == Head(work)
<1>1. /\ notification' \in Notices /\ d.key \in Keys
      /\ notification'.key = d.key
      /\ notification'.type = "add" <=> indexer[d.key] = Absent
      /\ indexer' = [indexer EXCEPT ![d.key] = Told(notification')]
  BY <1>0, NextDelta
<1>2. /\ UNCHANGED <<pending, popHolds, listeners, view, blockDeltas, toList>>
      /\ left = {} /\ left' = listeners /\ work # <<>>
  BY DEF HandleDelta, threads
<1> HIDE DEF d
<1>3. blockDeltas = Deltas
  BY <1>0, <1>2 DEF IndexerTyped
<1> SUFFICES ASSUME NEW h \in listeners PROVE Good(h)'
  BY <1>2 DEF AllGood
<1>4. h \in Handlers /\ Good(h) /\ blockDeltas # h
  BY <1>0, <1>3, InformerAssumption DEF IndexerTyped, IInv, AllGood
<1>5. PICK n \in Notices : n = notification'
  BY <1>1
<1>6. Undelivered(h)' = Append(Undelivered(h), n)
  <2>1. /\ Held(h) \in Seq(Notices) /\ pending[h] \in Seq(Notices)
        /\ Undelivered(h) = (Held(h) \o pending[h]) \o <<>>
    BY <1>0, <1>2, <1>4, UndeliveredParts DEF Due
  <2>2. Undelivered(h)' = (Held(h) \o pending[h]) \o <<n>>
    BY <1>2, <1>5 DEF Undelivered, Held
  <2>3. Held(h) \o pending[h] \in Seq(Notices)
    BY <2>1, ConcatProperties
  <2>4. Undelivered(h) = Held(h) \o pending[h]
    BY <2>1, <2>3, ConcatEmptySeq
  <2>5. Append(Held(h) \o pending[h], n) = (Held(h) \o pending[h]) \o <<n>>
    BY <2>3, AppendIsConcat
  <2> QED  BY <2>2, <2>4, <2>5
<1>7. \A k \in Keys : Replay(view[h], Undelivered(h))[k] = indexer[k]
  BY <1>4 DEF Good, Matches
<1>8. n.type = "add" <=> Replay(view[h], Undelivered(h))[n.key] = Absent
  BY <1>1, <1>5, <1>7
<1>9. \A k \in Keys : (IF n.key = k THEN Told(n) ELSE Replay(view[h], Undelivered(h))[k]) =
                        IF blockDeltas' = h /\ k \in toList' THEN Absent ELSE indexer'[k]
  BY <1>0, <1>1, <1>2, <1>4, <1>5, <1>7 DEF IndexerTyped
<1> QED  BY <1>0, <1>2, <1>4, <1>6, <1>8, <1>9, GoodAppend

\* distribute: the notification that was due to h is pending.
LEMMA GoodDistribute ==
  ASSUME IInv, NEW h \in Handlers, distribute(h)
  PROVE  AllGood'
<1>0. IndexerTyped /\ TypeOK /\ NotificationTyped
  BY TypeParts DEF IInv, Base
<1>1. /\ UNCHANGED <<popHolds, notification, view, indexer, listeners, blockDeltas, toList>>
      /\ left' = left \ {h} /\ h \in left /\ notification \in Notices /\ add(h, notification)
  BY <1>0 DEF distribute, NotificationTyped
<1>2. /\ pending'[h] = Append(pending[h], notification)
      /\ \A g \in Handlers : g # h => pending'[g] = pending[g]
  BY <1>0, <1>1, AddTyped
<1> SUFFICES ASSUME NEW g \in listeners PROVE Good(g)'
  BY <1>1 DEF AllGood
<1>3. g \in Handlers /\ Good(g)
  BY <1>0 DEF IndexerTyped, IInv, AllGood
<1>4. Undelivered(g)' = Undelivered(g)
  <2>1. CASE g # h
    BY <1>1, <1>2, <1>3, <2>1, UndeliveredKept
  <2>2. CASE g = h
    <3>1. /\ Held(h) \in Seq(Notices) /\ pending[h] \in Seq(Notices)
          /\ Undelivered(h) = (Held(h) \o pending[h]) \o <<notification>>
      BY <1>0, <1>1, UndeliveredParts DEF Due
    <3>2. Undelivered(h)' = (Held(h) \o Append(pending[h], notification)) \o <<>>
      BY <1>1, <1>2 DEF Undelivered, Held
    <3>4. Append(pending[h], notification) = pending[h] \o <<notification>>
      BY <1>1, <3>1, AppendIsConcat
    <3>5. Held(h) \o (pending[h] \o <<notification>>) = (Held(h) \o pending[h]) \o <<notification>>
      BY <1>1, <3>1, ConcatOne
    <3>6. Held(h) \o Append(pending[h], notification) \in Seq(Notices)
      BY <1>1, <3>1, ConcatProperties, AppendProperties
    <3> QED  BY <2>2, <3>1, <3>2, <3>4, <3>5, <3>6, ConcatEmptySeq
  <2> QED  BY <2>1, <2>2
<1> QED  BY <1>1, <1>3, <1>4, GoodKept


\* pop: the first pending notification is held instead.
LEMMA GoodTake ==
  ASSUME IInv, NEW h \in Handlers, NEW t \in Threads, PopTake(h, t)
  PROVE  AllGood'
<1>0. IndexerTyped /\ TypeOK /\ PopTyped /\ PendingTyped
  BY TypeParts DEF IInv, Base
<1>1. t = 1
  BY DEF PopTake, IInv, Quiet, Threads
<1>2. /\ UNCHANGED <<left, notification, view, indexer, listeners, blockDeltas, toList>>
      /\ pending[h] # <<>> /\ popHolds[h][1] = Nothing
      /\ popHolds'[h][1] = Head(pending[h]) /\ pending'[h] = Tail(pending[h])
      /\ \A g \in Handlers : g # h => popHolds'[g] = popHolds[g] /\ pending'[g] = pending[g]
  BY <1>0, <1>1 DEF PopTake, deltavars, PopTyped, PendingTyped, HoldsOnlyToSend
<1> SUFFICES ASSUME NEW g \in listeners PROVE Good(g)'
  BY <1>2 DEF AllGood
<1>3. g \in Handlers /\ Good(g)
  BY <1>0 DEF IndexerTyped, IInv, AllGood
<1>4. Undelivered(g)' = Undelivered(g)
  <2>1. CASE g # h
    BY <1>2, <1>3, <2>1, UndeliveredKept
  <2>2. CASE g = h
    <3>1. pending[h] \in Seq(Notices) /\ Undelivered(h) = (<<>> \o pending[h]) \o Due(h)
      BY <1>0, <1>2, UndeliveredParts DEF Held
    <3>2. Head(pending[h]) \in Notices /\ Head(pending[h]) # Nothing
      BY <1>2, <3>1, NoticeIs, HeadTailProperties
    <3>3. Undelivered(h)' = (<<Head(pending[h])>> \o Tail(pending[h])) \o Due(h)
      BY <1>2, <3>2 DEF Undelivered, Due
    <3>4. <<Head(pending[h])>> \o Tail(pending[h]) = pending[h]
      BY <1>2, <3>1
    <3>5. <<>> \o pending[h] = pending[h]
      BY <3>1, ConcatEmptySeq
    <3> QED  BY <2>2, <3>1, <3>3, <3>4, <3>5
  <2> QED  BY <2>1, <2>2
<1> QED  BY <1>2, <1>3, <1>4, GoodKept

\* The first notification on its way to h is delivered; it suits what the
\* handler knows.
LEMMA GoodDeliver ==
  ASSUME IInv, NEW h \in Handlers, NEW t \in Threads, NEW u \in Threads, Deliver(h, t, u)
  PROVE  /\ AllGood'
         /\ popHolds[h][t].type = "add" <=> view[h][popHolds[h][t].key] = Absent
<1>0. IndexerTyped /\ TypeOK /\ PopTyped /\ RunTyped
  BY TypeParts DEF IInv, Base
<1>1. t = 1 /\ h \in listeners
  BY DEF Deliver, IInv, Quiet, Threads
<1>2. PICK n \in Notices : n = popHolds[h][1] /\ n # Nothing
  BY <1>0, <1>1 DEF Deliver, PopTyped, HoldsOnlyToSend
<1>3. /\ UNCHANGED <<left, notification, indexer, listeners, blockDeltas, toList, pending>>
      /\ popHolds'[h][1] = Nothing
      /\ view' = [view EXCEPT ![h][n.key] = Told(n)]
      /\ \A g \in Handlers : g # h => popHolds'[g] = popHolds[g]
  BY <1>0, <1>1, <1>2 DEF Deliver, deltavars, PopTyped
<1>4. n.key \in Keys
  BY NoticeIs
<1>5. /\ \A g \in Handlers : g # h => view'[g] = view[g]
      /\ \A k \in Keys : view'[h][k] = IF n.key = k THEN Told(n) ELSE view[h][k]
  BY <1>0, <1>3, <1>4 DEF RunTyped
<1>6. /\ pending[h] \in Seq(Notices) /\ Due(h) \in Seq(Notices)
      /\ Undelivered(h) = (<<n>> \o pending[h]) \o Due(h)
  BY <1>0, <1>2, UndeliveredParts DEF Held
<1>7. PICK rest \in Seq(Notices) : rest = pending[h] \o Due(h)
  BY <1>6, ConcatProperties
<1>8. Undelivered(h)' = rest
  <2>1. Undelivered(h)' = (<<>> \o pending[h]) \o Due(h)
    BY <1>3 DEF Undelivered, Due
  <2>2. <<>> \o pending[h] = pending[h]
    BY <1>6, ConcatEmptySeq
  <2> QED  BY <1>7, <2>1, <2>2
<1>9. PICK ns \in Seq(Notices) : ns = Undelivered(h) /\ ns # <<>> /\ ns[1] = n /\ Tail(ns) = rest
  <2>2. (<<n>> \o pending[h]) \o Due(h) = <<n>> \o rest
    BY <1>6, <1>7, ConcatOne
  <2>3. <<n>> \o rest \in Seq(Notices) /\ <<n>> \o rest # <<>> /\ (<<n>> \o rest)[1] = n
    OBVIOUS
  <2>4. Tail(<<n>> \o rest) = rest
    OBVIOUS
  <2> QED  BY <1>6, <2>2, <2>3, <2>4
<1>10. Good(h)
  BY <1>1 DEF IInv, AllGood
<1>11. /\ n.type = "add" <=> view[h][n.key] = Absent
       /\ Sense(view'[h], rest)
       /\ \A k \in Keys : Replay(view'[h], rest)[k] = Replay(view[h], ns)[k]
  <2>1. Sense(view[h], ns)
    BY <1>9, <1>10 DEF Good
  <2>2. PICK s, v : s = view[h] /\ v = view'[h]
    OBVIOUS
  <2>3. Sense(s, ns) /\ \A k \in Keys : v[k] = IF ns[1].key = k THEN Told(ns[1]) ELSE s[k]
    BY <1>5, <1>9, <2>1, <2>2
  <2>4. /\ ns[1].type = "add" <=> s[ns[1].key] = Absent
        /\ Sense(v, Tail(ns))
        /\ \A k \in Keys : Replay(v, Tail(ns))[k] = Replay(s, ns)[k]
    BY <1>9, <2>3, SenseTail
  <2> QED  BY <1>9, <2>2, <2>4
<1>12. ASSUME NEW g \in listeners PROVE Good(g)'
  <2>1. CASE g = h
    <3>1. Sense(view'[h], Undelivered(h)')
      BY <1>8, <1>11
    <3>2. \A k \in Keys : Replay(view'[h], Undelivered(h)')[k] =
                            IF blockDeltas' = h /\ k \in toList' THEN Absent ELSE indexer'[k]
      BY <1>3, <1>8, <1>9, <1>10, <1>11 DEF Good, Matches
    <3> QED  BY <2>1, <3>1, <3>2 DEF Good, Matches
  <2>2. CASE g # h
    <3>1. g \in Handlers /\ Good(g)
      BY <1>0 DEF IndexerTyped, IInv, AllGood
    <3>2. Undelivered(g)' = Undelivered(g)
      BY <1>3, <2>2, <3>1, UndeliveredKept
    <3> QED  BY <1>3, <1>5, <2>2, <3>1, <3>2, GoodKept
  <2> QED  BY <2>1, <2>2
<1>13. AllGood'
  BY <1>3, <1>12 DEF AllGood
<1> QED  BY <1>1, <1>2, <1>11, <1>13

\* Nobody gets a second pair of goroutines.
LEMMA QuietNext ==
  ASSUME IInv, Next, JoinWhileStarting = FALSE
  PROVE  Quiet'
<1>0. IndexerTyped /\ TypeOK /\ PopTyped /\ RunTyped /\ PendingTyped
  BY TypeParts DEF IInv, Base
<1> USE DEF IInv
<1>1. CASE Run \/ Stop \/ JoinDone \/ HandleDone \/ HandleDelta \/ \E k \in Keys : HandleDeltas(k)
  <2>1. UNCHANGED <<popAt, runAt, pending, view, listeners, running>> /\ (started => started')
    BY <1>1 DEF Run, Stop, JoinDone, HandleDone, HandleDelta, HandleDeltas, threads
  <2>2. /\ ~running => blockDeltas' = Nobody /\ indexer' = indexer
        /\ blockDeltas' \in Handlers => blockDeltas \in Handlers /\ blockDeltas' = blockDeltas
    BY <1>0, InformerAssumption, <1>1 DEF Run, Stop, JoinDone, HandleDone, HandleDelta, HandleDeltas, Quiet,
                      IndexerTyped, Nobody, Deltas
  <2> QED  BY <1>0, <2>1, <2>2 DEF Quiet
<1>2. CASE \E h \in Handlers : AddEventHandler(h)
  BY <1>2 DEF AddEventHandler, Quiet, threads
<1>3. CASE ProcessorRun
  BY <1>0, <1>3 DEF ProcessorRun, Start, Quiet, PopTyped, RunTyped, Threads, IndexerTyped
<1>4. CASE \E h \in Handlers : Join(h)
  <2>1. PICK h \in Handlers : Join(h)
    BY <1>4
  <2>2. /\ started /\ running /\ h \notin listeners /\ listeners' = listeners \cup {h}
        /\ blockDeltas' = h
    BY <2>1 DEF Join
  <2>3. UNCHANGED <<started, running, pending, view, indexer>>
    BY <2>1 DEF Join
  <2>4. /\ \A g \in Handlers : popAt'[g][2] = popAt[g][2] /\ runAt'[g][2] = runAt[g][2]
        /\ \A g \in Handlers : g # h => popAt'[g] = popAt[g] /\ runAt'[g] = runAt[g]
    BY <1>0, <2>1, <2>2 DEF Join, Start, Quiet, PopTyped, RunTyped, Threads
  <2> QED  BY <2>2, <2>3, <2>4 DEF Quiet
<1>5. CASE (\E k \in Keys : JoinAdd(k)) \/ \E h \in Handlers : distribute(h)
  <2>1. PICK h \in Handlers : \E n : add(h, n) /\ h \in listeners /\ running
    <3>1. CASE \E k \in Keys : JoinAdd(k)
      BY <3>1, InformerAssumption DEF JoinAdd, Quiet
    <3>2. CASE \E h \in Handlers : distribute(h)
      BY <1>0, <3>2, InformerAssumption DEF distribute, IndexerTyped, Quiet, Nobody, Deltas
    <3> QED  BY <1>5, <3>1, <3>2
  <2>2. UNCHANGED <<started, running, listeners, runAt, view, indexer, blockDeltas>>
    BY <1>5 DEF JoinAdd, distribute
  <2>3. /\ \A g \in Handlers : g # h => popAt'[g] = popAt[g] /\ pending'[g] = pending[g]
        /\ popAt'[h][2] = popAt[h][2]
    BY <1>0, <2>1 DEF add, Woken, PopTyped, PendingTyped, Threads, Quiet
  <2> QED  BY <2>1, <2>2, <2>3 DEF Quiet
<1>6. CASE \E h \in Handlers : pop(h) \/ run(h)
  <2>1. PICK h \in Handlers : pop(h) \/ run(h)
    BY <1>6
  <2>2. UNCHANGED <<started, running, listeners, indexer, blockDeltas>>
    BY <2>1 DEF pop, run, PopTake, PopWait, PopStop, Deliver, HandlerReturns, RunStop
  <2>3. h \in listeners /\ running
    BY <2>1 DEF pop, run, PopTake, PopWait, PopStop, Deliver, HandlerReturns, RunStop, Quiet, Threads
  <2>4. \A g \in Handlers : g # h => /\ popAt'[g] = popAt[g] /\ runAt'[g] = runAt[g]
                                     /\ pending'[g] = pending[g] /\ view'[g] = view[g]
    BY <1>0, <2>1 DEF pop, run, PopTake, PopWait, PopStop, Deliver, HandlerReturns, RunStop,
                      PopTyped, RunTyped, PendingTyped
  <2>5. popAt'[h][2] = popAt[h][2] /\ runAt'[h][2] = runAt[h][2]
    BY <1>0, <2>1 DEF pop, run, PopTake, PopWait, PopStop, Deliver, HandlerReturns, RunStop,
                      PopTyped, RunTyped, Threads, Woken, Quiet
  <2> QED  BY <2>2, <2>3, <2>4, <2>5 DEF Quiet
<1> QED  BY <1>1, <1>2, <1>3, <1>4, <1>5, <1>6 DEF Next


\* Every step keeps the invariant when no handler joins during the start.
LEMMA IInvNext ==
  ASSUME IInv, [Next]_vars, JoinWhileStarting = FALSE
  PROVE  IInv'
<1>1. Base'
  BY BaseNext DEF IInv
<1>2. CASE Next
  <2>1. Quiet'
    BY <1>2, QuietNext
  <2>2. AllGood'
    <3>1. CASE \/ Run \/ Stop \/ JoinDone \/ HandleDone \/ ProcessorRun
               \/ \E k \in Keys : HandleDeltas(k)
      BY <3>1, GoodIdle
    <3>2. CASE \E h \in Handlers : AddEventHandler(h) \/ Join(h)
      BY <3>2, GoodNew
    <3>3. CASE \E k \in Keys : JoinAdd(k)
      BY <3>3, GoodJoinAdd
    <3>4. CASE HandleDelta
      BY <3>4, GoodHandleDelta
    <3>5. CASE \E h \in Handlers : distribute(h)
      BY <3>5, GoodDistribute
    <3>6. CASE \E h \in Handlers : pop(h)
      <4>1. PICK h \in Handlers, t \in Threads : PopTake(h, t) \/ PopWait(h, t) \/ PopStop(h, t)
        BY <3>6 DEF pop
      <4>2. CASE PopTake(h, t)
        BY <4>2, GoodTake
      <4>3. CASE PopWait(h, t) \/ PopStop(h, t)
        BY <4>3, GoodIdle
      <4> QED  BY <4>1, <4>2, <4>3
    <3>7. CASE \E h \in Handlers : run(h)
      <4>1. PICK h \in Handlers, u \in Threads :
              (\E t \in Threads : Deliver(h, t, u)) \/ HandlerReturns(h, u) \/ RunStop(h, u)
        BY <3>7 DEF run
      <4>2. CASE \E t \in Threads : Deliver(h, t, u)
        BY <4>2, GoodDeliver
      <4>3. CASE HandlerReturns(h, u) \/ RunStop(h, u)
        BY <4>3, GoodIdle
      <4> QED  BY <4>1, <4>2, <4>3
    <3> QED  BY <1>2, <3>1, <3>2, <3>3, <3>4, <3>5, <3>6, <3>7 DEF Next
  <2> QED  BY <1>1, <2>1, <2>2 DEF IInv
<1>3. CASE UNCHANGED vars
  <2>1. Quiet'
    BY <1>3 DEF IInv, Quiet, vars
  <2>2. AllGood'
    <3> SUFFICES ASSUME NEW h \in listeners PROVE Good(h)'
      BY <1>3 DEF AllGood, vars
    <3>1. h \in Handlers /\ Good(h)
      BY TypeParts DEF IInv, Base, AllGood, IndexerTyped
    <3>2. Undelivered(h)' = Undelivered(h)
      BY <1>3, <3>1, UndeliveredKept DEF vars
    <3> QED  BY <1>3, <3>1, <3>2, GoodKept DEF vars
  <2> QED  BY <1>1, <2>1, <2>2 DEF IInv
<1> QED  BY <1>2, <1>3

\* The invariant behind the two theorems below.
THEOREM InformerInvariant ==
  ASSUME JoinWhileStarting = FALSE
  PROVE  Safety => []IInv
<1>1. Init => IInv
  BY IInvInit
<1>2. IInv /\ [Next]_vars => IInv'
  BY IInvNext
<1> QED  BY <1>1, <1>2, PTL DEF Safety

\* Handlers added before Run or once the listeners run hear of everything once:
\* the calls a handler got and those it still has to get add up to the indexer,
\* except while it is joining.
THEOREM NothingLostOrTwice ==
  ASSUME JoinWhileStarting = FALSE
  PROVE  Safety => []ListenerMatchesIndexer
<1>1. IInv => ListenerMatchesIndexer
  <2> SUFFICES ASSUME IInv, NEW h \in listeners, blockDeltas # h
               PROVE  Replay(view[h], Undelivered(h)) = indexer
    BY DEF ListenerMatchesIndexer
  <2>1. \A k \in Keys : Replay(view[h], Undelivered(h))[k] = indexer[k]
    BY DEF IInv, AllGood, Good, Matches
  <2>2. IndexerTyped
    BY TypeParts DEF IInv, Base
  <2> QED  BY <2>1, <2>2 DEF Replay, After, IndexerTyped
<1> QED  BY <1>1, InformerInvariant, PTL

\* Such a handler is called with an addition exactly when it does not know the
\* object, and with an update or a deletion when it does.
THEOREM CallsSuitHandler ==
  ASSUME JoinWhileStarting = FALSE
  PROVE  Safety => CallsMakeSense
<1> DEFINE Suits ==
      \A h \in Handlers, u \in Threads :
        calls'[h][u] # calls[h][u] /\ calls'[h][u] # Nothing =>
          (calls'[h][u].type = "add" <=> view[h][calls'[h][u].key] = Absent)
<1>1. IInv /\ [Next]_vars => [Suits]_vars
  <2> SUFFICES ASSUME IInv, Next, NEW g \in Handlers, NEW v \in Threads,
                      calls'[g][v] # calls[g][v], calls'[g][v] # Nothing
               PROVE  calls'[g][v].type = "add" <=> view[g][calls'[g][v].key] = Absent
    OBVIOUS
  <2>0. RunTyped
    BY TypeParts DEF IInv, Base
  <2>1. \E h \in Handlers : run(h)
    BY DEF Next, Run, ProcessorRun, Stop, AddEventHandler, Join, JoinAdd, HandleDeltas,
           JoinDone, HandleDelta, HandleDone, distribute, pop, PopTake, PopWait, PopStop, threads
  <2>2. PICK h \in Handlers, t \in Threads, u \in Threads : Deliver(h, t, u)
    <3>1. PICK h \in Handlers, u \in Threads :
            (\E t \in Threads : Deliver(h, t, u)) \/ HandlerReturns(h, u) \/ RunStop(h, u)
      BY <2>1 DEF run
    <3>2. ~RunStop(h, u)
      BY DEF RunStop
    <3>3. ~HandlerReturns(h, u)
      BY <2>0 DEF HandlerReturns, RunTyped
    <3> QED  BY <3>1, <3>2, <3>3
  <2>3. g = h /\ v = u /\ calls'[g][v] = popHolds[h][t]
    BY <2>0, <2>2 DEF Deliver, RunTyped
  <2> QED  BY <2>2, <2>3, GoodDeliver
<1> QED  BY <1>1, InformerInvariant, PTL DEF Safety, CallsMakeSense
=============================================================================
