---------------------------- MODULE CacherProofs ----------------------------
(***************************************************************************)
(* For any finite set of keys, any watchers, any sizes of the window and   *)
(* of the channels, and any number of writes and failures: a watcher loses *)
(* nothing between window and dispatcher, gets only consecutive events,    *)
(* and is never sent to once it is closed.                                 *)
(***************************************************************************)
EXTENDS Cacher, DistinctSeqProofs, FiniteSetTheorems, TLAPS

-----------------------------------------------------------------------------
(* The storage's history: what there is at a version.                      *)

\* What the storage keeps of a write.
WriteType == [type : {"Added", "Modified", "Deleted"}, key : Keys, value : Values]

\* Last is the greatest of a bounded set of positions.
LEMMA LastIs ==
  ASSUME NEW n \in Nat, NEW T, T \subseteq 1 .. n, T # {}
  PROVE  Last(T) \in T /\ \A m \in T : m <= Last(T)
<1>1. \E x \in T : \A m \in T : m <= x
  BY GreatestExists
<1>2. QED
  BY <1>1 DEF Last

\* A member that is not exceeded is the last.
LEMMA LastUnique ==
  ASSUME NEW T, T \subseteq Int, NEW x \in T, \A m \in T : m <= x
  PROVE  Last(T) = x
<1>1. Last(T) \in T /\ \A m \in T : m <= Last(T)
  BY DEF Last
<1>2. Last(T) \in Int /\ x \in Int /\ Last(T) <= x /\ x <= Last(T)
  BY <1>1
<1>3. QED
  BY <1>2

\* An object of the state is one of the versions so far, the last write of its
\* key, and not a deletion.
LEMMA StateIsVersion ==
  ASSUME NEW h \in Seq(WriteType), NEW r \in 0 .. Len(h), NEW k \in Keys
  PROVE  /\ StateAt(h, r)[k] \in 0 .. r
         /\ StateAt(h, r)[k] # None => /\ StateAt(h, r)[k] \in 1 .. r
                                       /\ h[StateAt(h, r)[k]].key = k
                                       /\ h[StateAt(h, r)[k]].type # "Deleted"
<1>1. CASE Writes(h, k, r) = {}
  BY <1>1 DEF StateAt, None
<1>2. CASE Writes(h, k, r) # {}
  <2>1. r \in Nat /\ Writes(h, k, r) \subseteq 1 .. r
    BY DEF Writes
  <2>2. Last(Writes(h, k, r)) \in Writes(h, k, r)
    BY <1>2, <2>1, LastIs
  <2>3. QED
    BY <1>2, <2>2 DEF StateAt, None, Writes
<1>3. QED
  BY <1>1, <1>2

\* The state is a function of the keys.
LEMMA StateTyped ==
  ASSUME NEW h \in Seq(WriteType), NEW r \in 0 .. Len(h)
  PROVE  StateAt(h, r) \in [Keys -> 0 .. Len(h)]
<1>1. StateAt(h, r) = [k \in Keys |-> StateAt(h, r)[k]]
  BY DEF StateAt
<1>2. \A k \in Keys : StateAt(h, r)[k] \in 0 .. Len(h)
  BY StateIsVersion
<1>3. QED
  BY <1>1, <1>2

\* Before the first write there is nothing.
LEMMA StateAtZero ==
  ASSUME NEW h
  PROVE  StateAt(h, 0) = [k \in Keys |-> None]
<1>1. \A k : Writes(h, k, 0) = {}
  BY DEF Writes
<1>2. QED
  BY <1>1 DEF StateAt

\* One more write changes its own key and no other.
LEMMA NextState ==
  ASSUME NEW h \in Seq(WriteType), NEW n \in 1 .. Len(h), NEW k \in Keys
  PROVE  StateAt(h, n)[k] = IF h[n].key # k THEN StateAt(h, n - 1)[k]
                            ELSE IF h[n].type = "Deleted" THEN None ELSE n
<1>1. CASE h[n].key = k
  <2>1. n \in Writes(h, k, n) /\ Writes(h, k, n) \subseteq Int
        /\ \A m \in Writes(h, k, n) : m <= n
    BY <1>1 DEF Writes
  <2>2. Last(Writes(h, k, n)) = n /\ Writes(h, k, n) # {}
    BY <2>1, LastUnique
  <2>3. QED
    BY <1>1, <2>2 DEF StateAt
<1>2. CASE h[n].key # k
  <2>1. Writes(h, k, n) = Writes(h, k, n - 1)
    <3>1. \A m \in 1 .. n : m \in 1 .. n - 1 \/ m = n
      OBVIOUS
    <3>2. \A m \in 1 .. n - 1 : m \in 1 .. n
      OBVIOUS
    <3>3. QED
      BY <1>2, <3>1, <3>2 DEF Writes
  <2>2. QED
    BY <1>2, <2>1 DEF StateAt
<1>3. QED
  BY <1>1, <1>2

\* A new write leaves the past as it was.
LEMMA StateStays ==
  ASSUME NEW h \in Seq(WriteType), NEW e \in WriteType, NEW r \in 0 .. Len(h)
  PROVE  StateAt(Append(h, e), r) = StateAt(h, r)
<1>1. \A n \in 1 .. r : Append(h, e)[n] = h[n]
  OBVIOUS
<1>2. ASSUME NEW k \in Keys
      PROVE  Writes(Append(h, e), k, r) = Writes(h, k, r)
  BY <1>1 DEF Writes
<1>3. ASSUME NEW k \in Keys, Writes(h, k, r) # {}
      PROVE  Append(h, e)[Last(Writes(h, k, r))] = h[Last(Writes(h, k, r))]
  <2>1. r \in Nat /\ Writes(h, k, r) \subseteq 1 .. r
    BY DEF Writes
  <2>2. Last(Writes(h, k, r)) \in 1 .. r
    BY <1>3, <2>1, LastIs
  <2>3. QED
    BY <1>1, <2>2
<1>4. QED
  BY <1>2, <1>3 DEF StateAt

-----------------------------------------------------------------------------
(* What a client makes of the messages on their way to it.                 *)

\* Of messages s, the versions told and the versions passed over: those below
\* a message's that were neither in S nor told before it.
Rvs(s) == {n \in Nat \ {0} : \E i \in 1 .. Len(s) : s[i].rv = n}

Skipped(S, s) ==
  {n \in Nat \ {0} : /\ n \notin S
                     /\ \E i \in 1 .. Len(s) :
                          n < s[i].rv /\ \A j \in 1 .. i - 1 : s[j].rv # n}

\* A client with state p.v, that was told the versions p.S and not those of
\* p.bad although it was told later ones, after the messages s.
Go(h, p, s) ==
  [v   |-> After(h, p.v, s),
   S   |-> p.S \cup Rvs(s),
   bad |-> p.bad \cup Skipped(p.S, s)]

Client0(x) == [v |-> x, S |-> {}, bad |-> {}]

\* u is s followed by t.
Joins(s, t, u) ==
  /\ Len(u) = Len(s) + Len(t)
  /\ \A i \in 1 .. Len(s) : u[i] = s[i]
  /\ \A i \in 1 .. Len(t) : u[Len(s) + i] = t[i]

\* A position of the joined sequence is one of the first or of the second.
LEMMA JoinedPlace ==
  ASSUME NEW a \in Nat, NEW b \in Nat, NEW i \in 1 .. a + b
  PROVE  i \in 1 .. a \/ (i - a \in 1 .. b /\ a + (i - a) = i)
OBVIOUS

\* Of a state, the last word on each key counts: first s and then t is the same
\* as both at once.
LEMMA AfterJoined ==
  ASSUME NEW X, NEW s \in Seq(X), NEW t \in Seq(X), NEW u \in Seq(X), Joins(s, t, u),
         NEW h, NEW x
  PROVE  After(h, x, u) = After(h, After(h, x, s), t)
<1> DEFINE a == Len(s)
           b == Len(t)
<1>1. a \in Nat /\ b \in Nat /\ Len(u) = a + b
  BY DEF Joins
<1> SUFFICES ASSUME NEW k \in Keys
             PROVE  After(h, x, u)[k] = After(h, After(h, x, s), t)[k]
  BY DEF After
<1>2. /\ \A i \in 1 .. a : i \in Told(h, k, u) <=> i \in Told(h, k, s)
      /\ \A i \in 1 .. b : a + i \in Told(h, k, u) <=> i \in Told(h, k, t)
  <2>1. \A i \in 1 .. a : i \in 1 .. a + b
    BY <1>1
  <2>2. \A i \in 1 .. b : a + i \in 1 .. a + b
    BY <1>1
  <2>3. QED
    BY <1>1, <2>1, <2>2 DEF Told, Joins
<1>3. Told(h, k, u) \subseteq 1 .. a + b /\ Told(h, k, s) \subseteq 1 .. a /\ Told(h, k, t) \subseteq 1 .. b
  BY <1>1 DEF Told
<1> HIDE DEF a, b
<1>4. CASE Told(h, k, t) # {}
  <2> DEFINE l == Last(Told(h, k, t))
  <2>1. l \in Told(h, k, t) /\ \A m \in Told(h, k, t) : m <= l
    BY <1>1, <1>3, <1>4, LastIs
  <2> HIDE DEF l
  <2>2. l \in 1 .. b /\ a + l \in Told(h, k, u)
    BY <1>2, <1>3, <2>1
  <2>3. ASSUME NEW m \in Told(h, k, u)
        PROVE  m <= a + l
    <3>1. m \in 1 .. a + b
      BY <1>3
    <3>2. m \in 1 .. a \/ (m - a \in 1 .. b /\ a + (m - a) = m)
      BY <1>1, <3>1
    <3>3. CASE m \in 1 .. a
      BY <1>1, <2>2, <3>3
    <3>4. CASE m - a \in 1 .. b /\ a + (m - a) = m
      <4>1. m - a \in Told(h, k, t)
        BY <1>2, <3>4
      <4>2. m - a <= l
        BY <2>1, <4>1
      <4>3. QED
        BY <1>1, <2>2, <3>1, <4>2
    <3>5. QED
      BY <3>2, <3>3, <3>4
  <2>4. Last(Told(h, k, u)) = a + l
    BY <1>1, <1>3, <2>2, <2>3, LastUnique
  <2>5. u[a + l] = t[l]
    BY <2>2 DEF Joins, a, b
  <2>6. Told(h, k, u) # {}
    BY <2>2
  <2>7. QED
    BY <1>4, <2>4, <2>5, <2>6 DEF After, l
<1>5. CASE Told(h, k, t) = {}
  <2>1. Told(h, k, u) = Told(h, k, s)
    <3>1. ASSUME NEW m \in Told(h, k, u) PROVE m \in Told(h, k, s)
      <4>1. m \in 1 .. a + b
        BY <1>3
      <4>2. m \in 1 .. a \/ (m - a \in 1 .. b /\ a + (m - a) = m)
        BY <1>1, <4>1
      <4>3. QED
        BY <1>2, <1>5, <4>2
    <3>2. QED
      BY <1>2, <1>3, <3>1
  <2>2. CASE Told(h, k, s) = {}
    BY <1>5, <2>1, <2>2 DEF After
  <2>3. CASE Told(h, k, s) # {}
    <3>1. Last(Told(h, k, s)) \in 1 .. a
      BY <1>1, <1>3, <2>3, LastIs
    <3>2. u[Last(Told(h, k, s))] = s[Last(Told(h, k, s))]
      BY <3>1 DEF Joins, a
    <3>3. QED
      BY <1>5, <2>1, <2>3, <3>2 DEF After
  <2>4. QED
    BY <2>2, <2>3
<1>6. QED
  BY <1>4, <1>5

\* The versions told, and those passed over, in the same way.
LEMMA RvsJoined ==
  ASSUME NEW X, NEW s \in Seq(X), NEW t \in Seq(X), NEW u \in Seq(X), Joins(s, t, u)
  PROVE  Rvs(u) = Rvs(s) \cup Rvs(t)
<1> DEFINE a == Len(s)
           b == Len(t)
<1>1. a \in Nat /\ b \in Nat /\ Len(u) = a + b
  BY DEF Joins
<1>2. ASSUME NEW n \in Rvs(u) PROVE n \in Rvs(s) \cup Rvs(t)
  <2>1. PICK i \in 1 .. a + b : u[i].rv = n
    BY <1>1 DEF Rvs
  <2>2. i \in 1 .. a \/ (i - a \in 1 .. b /\ a + (i - a) = i)
    BY <1>1, JoinedPlace
  <2>3. QED
    BY <2>1, <2>2 DEF Rvs, Joins
<1>3. ASSUME NEW n \in Rvs(s) PROVE n \in Rvs(u)
  <2>1. PICK i \in 1 .. a : s[i].rv = n
    BY DEF Rvs
  <2>2. i \in 1 .. a + b /\ u[i].rv = n
    BY <1>1, <2>1 DEF Joins
  <2>3. QED
    BY <1>1, <2>2 DEF Rvs
<1>4. ASSUME NEW n \in Rvs(t) PROVE n \in Rvs(u)
  <2>1. PICK i \in 1 .. b : t[i].rv = n
    BY DEF Rvs
  <2>2. a + i \in 1 .. a + b /\ u[a + i].rv = n
    BY <1>1, <2>1 DEF Joins
  <2>3. QED
    BY <1>1, <2>2 DEF Rvs
<1>5. QED
  BY <1>2, <1>3, <1>4

\* What is skipped in a joined sequence: in the first part, or in the second by
\* one who has seen the first.
LEMMA SkippedJoined ==
  ASSUME NEW X, NEW s \in Seq(X), NEW t \in Seq(X), NEW u \in Seq(X), Joins(s, t, u), NEW S
  PROVE  Skipped(S, u) = Skipped(S, s) \cup Skipped(S \cup Rvs(s), t)
<1> DEFINE a == Len(s)
           b == Len(t)
<1>1. a \in Nat /\ b \in Nat /\ Len(u) = a + b
  BY DEF Joins
<1>2. ASSUME NEW n \in Skipped(S, u) PROVE n \in Skipped(S, s) \cup Skipped(S \cup Rvs(s), t)
  <2>1. PICK i \in 1 .. a + b : n < u[i].rv /\ \A j \in 1 .. i - 1 : u[j].rv # n
    BY <1>1 DEF Skipped
  <2>2. n \in Nat \ {0} /\ n \notin S
    BY DEF Skipped
  <2>3. CASE i \in 1 .. a
    <3>1. \A j \in 1 .. i - 1 : j \in 1 .. a
      BY <1>1, <2>3
    <3>2. n < s[i].rv /\ \A j \in 1 .. i - 1 : s[j].rv # n
      BY <2>1, <2>3, <3>1 DEF Joins
    <3>3. QED
      BY <2>2, <2>3, <3>2 DEF Skipped
  <2>4. CASE i - a \in 1 .. b /\ a + (i - a) = i
    <3>1. \A j \in 1 .. a : j \in 1 .. i - 1
      BY <1>1, <2>4
    <3>2. n \notin Rvs(s)
      BY <2>1, <3>1 DEF Rvs, Joins
    <3>3. \A j \in 1 .. (i - a) - 1 : a + j \in 1 .. i - 1 /\ j \in 1 .. b
      BY <1>1, <2>4
    <3>4. n < t[i - a].rv /\ \A j \in 1 .. (i - a) - 1 : t[j].rv # n
      BY <2>1, <2>4, <3>3 DEF Joins
    <3>5. QED
      BY <2>2, <2>4, <3>2, <3>4 DEF Skipped
  <2>5. QED
    BY <1>1, <2>3, <2>4, JoinedPlace
<1>3. ASSUME NEW n \in Skipped(S, s) PROVE n \in Skipped(S, u)
  <2>1. PICK i \in 1 .. a : n < s[i].rv /\ \A j \in 1 .. i - 1 : s[j].rv # n
    BY DEF Skipped
  <2>2. i \in 1 .. a + b /\ \A j \in 1 .. i - 1 : j \in 1 .. a
    BY <1>1
  <2>3. n < u[i].rv /\ \A j \in 1 .. i - 1 : u[j].rv # n
    BY <2>1, <2>2 DEF Joins
  <2>4. QED
    BY <1>1, <2>2, <2>3 DEF Skipped
<1>4. ASSUME NEW n \in Skipped(S \cup Rvs(s), t) PROVE n \in Skipped(S, u)
  <2>1. PICK i \in 1 .. b : n < t[i].rv /\ \A j \in 1 .. i - 1 : t[j].rv # n
    BY DEF Skipped
  <2>2. n \in Nat \ {0} /\ n \notin S /\ n \notin Rvs(s)
    BY DEF Skipped
  <2>3. a + i \in 1 .. a + b /\ n < u[a + i].rv
    BY <1>1, <2>1 DEF Joins
  <2>4. ASSUME NEW j \in 1 .. (a + i) - 1 PROVE u[j].rv # n
    <3>1. j \in 1 .. a \/ (j - a \in 1 .. i - 1 /\ j - a \in 1 .. b /\ a + (j - a) = j)
      BY <1>1
    <3>2. \A m \in 1 .. a : s[m].rv # n
      BY <2>2 DEF Rvs
    <3>3. QED
      BY <2>1, <3>1, <3>2 DEF Joins
  <2>5. QED
    BY <1>1, <2>2, <2>3, <2>4 DEF Skipped
<1>5. QED
  BY <1>2, <1>3, <1>4

\* Hence what the messages of two sequences do is what those of the one do and
\* then those of the other.
LEMMA GoJoined ==
  ASSUME NEW X, NEW s \in Seq(X), NEW t \in Seq(X), NEW u \in Seq(X), Joins(s, t, u),
         NEW h, NEW p
  PROVE  Go(h, p, u) = Go(h, Go(h, p, s), t)
<1>1. After(h, p.v, u) = After(h, After(h, p.v, s), t)
  BY AfterJoined
<1>2. Rvs(u) = Rvs(s) \cup Rvs(t)
  BY RvsJoined
<1>3. Skipped(p.S, u) = Skipped(p.S, s) \cup Skipped(p.S \cup Rvs(s), t)
  BY SkippedJoined
<1>4. QED
  BY <1>1, <1>2, <1>3 DEF Go

\* Nothing on its way changes nothing, and neither does a message that says
\* nothing.
LEMMA GoEmpty ==
  ASSUME NEW h, NEW x, x = [k \in Keys |-> x[k]], NEW S, NEW b,
         NEW p, p = [v |-> x, S |-> S, bad |-> b]
  PROVE  Go(h, p, <<>>) = p /\ Go(h, p, <<Nothing>>) = p
<1>1. \A k : Told(h, k, <<>>) = {} /\ Told(h, k, <<Nothing>>) = {}
  BY DEF Told, Nothing
<1>2. After(h, x, <<>>) = x /\ After(h, x, <<Nothing>>) = x
  BY <1>1 DEF After
<1>3. Rvs(<<>>) = {} /\ Rvs(<<Nothing>>) = {}
  BY DEF Rvs, Nothing
<1>4. Skipped(S, <<>>) = {} /\ Skipped(S, <<Nothing>>) = {}
  BY DEF Skipped, Nothing
<1>5. QED
  BY <1>2, <1>3, <1>4 DEF Go

\* The record that Go makes.
LEMMA GoShape ==
  ASSUME NEW h, NEW p, NEW s
  PROVE  /\ Go(h, p, s) = [v |-> Go(h, p, s).v, S |-> Go(h, p, s).S, bad |-> Go(h, p, s).bad]
         /\ Go(h, p, s).v = [k \in Keys |-> Go(h, p, s).v[k]]
         /\ p.bad \subseteq Go(h, p, s).bad
         /\ p.S \subseteq Go(h, p, s).S
BY DEF Go, After

\* The records that make sense as p.
Proper(p) == p = [v |-> p.v, S |-> p.S, bad |-> p.bad] /\ p.v = [k \in Keys |-> p.v[k]]

\* A client that has gone through messages is one.
LEMMA GoProper ==
  ASSUME NEW h, NEW p, NEW s
  PROVE  Proper(Go(h, p, s))
BY GoShape DEF Proper

\* An empty sequence, or a message that says nothing, from a proper record.
LEMMA GoNothing ==
  ASSUME NEW h, NEW p, Proper(p)
  PROVE  Go(h, p, <<>>) = p /\ Go(h, p, <<Nothing>>) = p
BY GoEmpty DEF Proper

\* First the head and then the rest.
LEMMA GoHead ==
  ASSUME NEW X, NEW s \in Seq(X), s # <<>>, NEW h, NEW p
  PROVE  Go(h, p, s) = Go(h, Go(h, p, <<Head(s)>>), Tail(s))
<1>1. /\ Head(s) \in X /\ <<Head(s)>> \in Seq(X) /\ Tail(s) \in Seq(X)
      /\ Len(<<Head(s)>>) = 1 /\ Len(s) = 1 + Len(Tail(s)) /\ <<Head(s)>>[1] = s[1]
      /\ \A i \in 1 .. Len(Tail(s)) : s[1 + i] = Tail(s)[i]
  OBVIOUS
<1>2. Joins(<<Head(s)>>, Tail(s), s)
  <2>1. \A i \in 1 .. 1 : i = 1
    OBVIOUS
  <2>2. QED
    BY <1>1, <2>1 DEF Joins
<1> DEFINE a == <<Head(s)>>
           b == Tail(s)
<1>3. a \in Seq(X) /\ b \in Seq(X) /\ Joins(a, b, s)
  BY <1>1, <1>2
<1> HIDE DEF a, b
<1>4. Go(h, p, s) = Go(h, Go(h, p, a), b)
  BY <1>3, GoJoined
<1>5. QED
  BY <1>4 DEF a, b

\* First the front and then what was appended.
LEMMA GoAppend ==
  ASSUME NEW X, NEW s \in Seq(X), NEW e \in X, NEW h, NEW p
  PROVE  Go(h, p, Append(s, e)) = Go(h, Go(h, p, s), <<e>>)
<1>1. /\ Append(s, e) \in Seq(X) /\ <<e>> \in Seq(X)
      /\ Len(Append(s, e)) = Len(s) + 1 /\ Len(<<e>>) = 1 /\ <<e>>[1] = e
      /\ \A i \in 1 .. Len(s) : Append(s, e)[i] = s[i]
      /\ Append(s, e)[Len(s) + 1] = e
  OBVIOUS
<1>2. Joins(s, <<e>>, Append(s, e))
  <2>1. \A i \in 1 .. 1 : i = 1
    OBVIOUS
  <2>2. QED
    BY <1>1, <2>1 DEF Joins
<1> DEFINE a == Append(s, e)
           b == <<e>>
<1>3. a \in Seq(X) /\ b \in Seq(X) /\ Joins(s, b, a)
  BY <1>1, <1>2
<1> HIDE DEF a, b
<1>4. Go(h, p, a) = Go(h, Go(h, p, s), b)
  BY <1>3, GoJoined
<1>5. QED
  BY <1>4 DEF a, b

\* The messages that can be on their way when h was written.
Letter(h) == [type : {"Added", "Modified", "Deleted"}, obj : 1 .. Len(h), rv : 1 .. Len(h)]

Msg(h) == Letter(h) \cup {Nothing}

\* The events of h in the cache and its queues.
Event(h) ==
  [rv : 1 .. Len(h), type : {"Added", "Modified", "Deleted"}, obj : 1 .. Len(h), prev : 0 .. Len(h)]

\* What is seen of one event.
Sight(h, sel, rv, e) ==
  IF e.rv > rv /\ Interested(h, sel, e) THEN Converted(h, sel, e) ELSE Nothing

\* What is seen of an event is a message, what it is converted to a letter.
LEMMA SightTyped ==
  ASSUME NEW h \in Seq(WriteType), NEW sel, NEW rv, NEW e \in Event(h)
  PROVE  Sight(h, sel, rv, e) \in Msg(h) /\ Converted(h, sel, e) \in Letter(h)
<1>1. e.obj \in 1 .. Len(h) /\ e.rv \in 1 .. Len(h)
  BY DEF Event
<1>2. Converted(h, sel, e) \in Letter(h)
  BY <1>1 DEF Converted, Letter
<1>3. QED
  BY <1>2 DEF Sight, Msg

\* Seen goes event by event.
LEMMA SeenIs ==
  ASSUME NEW h \in Seq(WriteType), NEW sel, NEW rv, NEW s \in Seq(Event(h))
  PROVE  /\ Seen(h, sel, rv, s) \in Seq(Msg(h))
         /\ Len(Seen(h, sel, rv, s)) = Len(s)
         /\ \A i \in 1 .. Len(s) : Seen(h, sel, rv, s)[i] = Sight(h, sel, rv, s[i])
         /\ (s = <<>>) <=> (Seen(h, sel, rv, s) = <<>>)
<1>1. Seen(h, sel, rv, s) = [i \in 1 .. Len(s) |-> Sight(h, sel, rv, s[i])]
  BY DEF Seen, Sight
<1>2. \A i \in 1 .. Len(s) : Sight(h, sel, rv, s[i]) \in Msg(h)
  BY SightTyped
<1>3. Len(s) \in Nat
  OBVIOUS
<1>4. QED
  BY <1>1, <1>2, <1>3

\* Of no events nothing is seen.
LEMMA SeenEmpty ==
  ASSUME NEW h \in Seq(WriteType), NEW sel, NEW rv
  PROVE  Seen(h, sel, rv, <<>>) = <<>>
<1>1. <<>> \in Seq(Event(h))
  OBVIOUS
<1>2. QED
  BY <1>1, SeenIs, Zenon

\* What is seen of a single event.
LEMMA SeenOne ==
  ASSUME NEW h \in Seq(WriteType), NEW sel, NEW rv, NEW e \in Event(h)
  PROVE  Seen(h, sel, rv, <<e>>) = <<Sight(h, sel, rv, e)>>
<1>1. <<e>> \in Seq(Event(h)) /\ Len(<<e>>) = 1 /\ <<e>>[1] = e
  OBVIOUS
<1>2. /\ Seen(h, sel, rv, <<e>>) \in Seq(Msg(h))
      /\ Len(Seen(h, sel, rv, <<e>>)) = 1
      /\ Seen(h, sel, rv, <<e>>)[1] = Sight(h, sel, rv, e)
  <2> DEFINE s == <<e>>
  <2>1. s \in Seq(Event(h)) /\ Len(s) = 1 /\ s[1] = e /\ 1 \in 1 .. 1
    BY <1>1
  <2> HIDE DEF s
  <2>2. /\ Seen(h, sel, rv, s) \in Seq(Msg(h))
        /\ Len(Seen(h, sel, rv, s)) = 1
        /\ Seen(h, sel, rv, s)[1] = Sight(h, sel, rv, e)
    BY <2>1, SeenIs
  <2>3. QED
    BY <2>2 DEF s
<1>3. QED
  BY <1>2

\* A queue's head is seen, and then the rest.
LEMMA SeenHead ==
  ASSUME NEW h \in Seq(WriteType), NEW sel, NEW rv, NEW s \in Seq(Event(h)), s # <<>>, NEW p
  PROVE  Go(h, p, Seen(h, sel, rv, s))
           = Go(h, Go(h, p, <<Sight(h, sel, rv, Head(s))>>), Seen(h, sel, rv, Tail(s)))
<1> DEFINE t == Seen(h, sel, rv, s)
           u == Seen(h, sel, rv, Tail(s))
<1>1. /\ Tail(s) \in Seq(Event(h)) /\ Head(s) = s[1] /\ Len(s) = Len(Tail(s)) + 1 /\ 1 \in 1 .. Len(s)
      /\ \A i \in 1 .. Len(Tail(s)) : Tail(s)[i] = s[i + 1] /\ i + 1 \in 1 .. Len(s)
  OBVIOUS
<1>2. /\ t \in Seq(Msg(h)) /\ Len(t) = Len(s) /\ t # <<>>
      /\ \A i \in 1 .. Len(s) : t[i] = Sight(h, sel, rv, s[i])
  BY SeenIs
<1>3. /\ u \in Seq(Msg(h)) /\ Len(u) = Len(Tail(s))
      /\ \A i \in 1 .. Len(Tail(s)) : u[i] = Sight(h, sel, rv, Tail(s)[i])
  <2> DEFINE w == Tail(s)
  <2>1. w \in Seq(Event(h))
    BY <1>1
  <2> HIDE DEF w
  <2>2. /\ Seen(h, sel, rv, w) \in Seq(Msg(h)) /\ Len(Seen(h, sel, rv, w)) = Len(w)
        /\ \A i \in 1 .. Len(w) : Seen(h, sel, rv, w)[i] = Sight(h, sel, rv, w[i])
    BY <2>1, SeenIs
  <2>3. QED
    BY <2>2 DEF w
<1> HIDE DEF t, u
<1>4. Head(t) = Sight(h, sel, rv, Head(s))
  BY <1>1, <1>2
<1>5. u = Tail(t)
  <2>1. Tail(t) \in Seq(Msg(h)) /\ Len(Tail(t)) = Len(Tail(s))
    BY <1>1, <1>2
  <2>2. \A i \in 1 .. Len(Tail(s)) : Tail(t)[i] = t[i + 1]
    BY <1>1, <1>2
  <2>3. \A i \in 1 .. Len(Tail(s)) : u[i] = Tail(t)[i]
    BY <1>1, <1>2, <1>3, <2>2
  <2>4. QED
    BY <1>3, <2>1, <2>3
<1>6. QED
  BY <1>2, <1>4, <1>5, GoHead DEF t, u

\* An event that is queued is seen last.
LEMMA SeenAppend ==
  ASSUME NEW h \in Seq(WriteType), NEW sel, NEW rv, NEW s \in Seq(Event(h)), NEW e \in Event(h), NEW p
  PROVE  Go(h, p, Seen(h, sel, rv, Append(s, e)))
           = Go(h, Go(h, p, Seen(h, sel, rv, s)), <<Sight(h, sel, rv, e)>>)
<1> DEFINE t == Seen(h, sel, rv, s)
           u == Seen(h, sel, rv, Append(s, e))
           m == Sight(h, sel, rv, e)
<1>1. /\ Append(s, e) \in Seq(Event(h)) /\ Len(Append(s, e)) = Len(s) + 1
      /\ \A i \in 1 .. Len(s) : Append(s, e)[i] = s[i] /\ i \in 1 .. Len(s) + 1
      /\ Append(s, e)[Len(s) + 1] = e /\ Len(s) + 1 \in 1 .. Len(s) + 1
  OBVIOUS
<1>2. /\ t \in Seq(Msg(h)) /\ Len(t) = Len(s)
      /\ \A i \in 1 .. Len(s) : t[i] = Sight(h, sel, rv, s[i])
  BY SeenIs
<1>3. /\ u \in Seq(Msg(h)) /\ Len(u) = Len(s) + 1
      /\ \A i \in 1 .. Len(s) : u[i] = Sight(h, sel, rv, s[i])
      /\ u[Len(s) + 1] = m
  <2> DEFINE w == Append(s, e)
  <2>1. w \in Seq(Event(h)) /\ Len(w) = Len(s) + 1
    BY <1>1
  <2>2. /\ \A i \in 1 .. Len(s) : w[i] = s[i] /\ i \in 1 .. Len(w)
        /\ w[Len(s) + 1] = e /\ Len(s) + 1 \in 1 .. Len(w)
    BY <1>1
  <2> HIDE DEF w
  <2>3. /\ Seen(h, sel, rv, w) \in Seq(Msg(h)) /\ Len(Seen(h, sel, rv, w)) = Len(w)
        /\ \A i \in 1 .. Len(w) : Seen(h, sel, rv, w)[i] = Sight(h, sel, rv, w[i])
    BY <2>1, SeenIs
  <2>4. QED
    BY <2>1, <2>2, <2>3 DEF w
<1>4. m \in Msg(h)
  BY SightTyped
<1> HIDE DEF t, u, m
<1>5. u = Append(t, m)
  <2>1. /\ Append(t, m) \in Seq(Msg(h)) /\ Len(Append(t, m)) = Len(s) + 1
        /\ \A i \in 1 .. Len(s) : Append(t, m)[i] = t[i]
        /\ Append(t, m)[Len(s) + 1] = m
    BY <1>2, <1>4
  <2>2. \A i \in 1 .. Len(s) + 1 : i \in 1 .. Len(s) \/ i = Len(s) + 1
    OBVIOUS
  <2>3. \A i \in 1 .. Len(s) + 1 : u[i] = Append(t, m)[i]
    BY <1>2, <1>3, <2>1, <2>2
  <2>4. QED
    BY <1>3, <2>1, <2>3
<1>6. QED
  BY <1>2, <1>4, <1>5, GoAppend DEF t, u, m

-----------------------------------------------------------------------------
(* The events of a history, and what a client that sees them in order has. *)

\* Only what there is gets deleted, and the event shows its last value (Write).
DeletesWhatIs(h) ==
  \A n \in 1 .. Len(h) :
    h[n].type = "Deleted" =>
      /\ StateAt(h, n - 1)[h[n].key] # None
      /\ h[n].value = h[StateAt(h, n - 1)[h[n].key]].value

History(h) == h \in Seq(WriteType) /\ DeletesWhatIs(h)

\* The event that processEvent makes of write n.
Ev(h, n) == [rv |-> n, type |-> h[n].type, obj |-> n, prev |-> StateAt(h, n - 1)[h[n].key]]

\* What a client that selects sel should have at version n.
Right(h, sel, n) == Filtered(h, sel, StateAt(h, n))

\* The event of a write is an event, about a key, with an earlier object or none.
LEMMA EvTyped ==
  ASSUME NEW h \in Seq(WriteType), NEW n \in 1 .. Len(h)
  PROVE  /\ Ev(h, n) \in Event(h) /\ h[n] \in WriteType /\ h[n].key \in Keys
         /\ StateAt(h, n - 1)[h[n].key] \in 0 .. n - 1
<1>1. h[n] \in WriteType /\ n - 1 \in 0 .. Len(h) /\ Len(h) \in Nat
  OBVIOUS
<1>2. h[n].key \in Keys /\ h[n].type \in {"Added", "Modified", "Deleted"}
  BY <1>1 DEF WriteType
<1>3. StateAt(h, n - 1)[h[n].key] \in 0 .. n - 1
  BY <1>1, <1>2, StateIsVersion
<1>4. QED
  BY <1>1, <1>2, <1>3 DEF Ev, Event

\* sendWatchCacheEvent lets pass exactly the events that concern the client: a
\* deleted object still shows the value that the client selected it by.
LEMMA EvConcerns ==
  ASSUME NEW h, History(h), NEW n \in 1 .. Len(h), NEW sel
  PROVE  Interested(h, sel, Ev(h, n)) <=> Concerns(h, sel, n)
<1>1. CASE h[n].type # "Deleted"
  BY <1>1 DEF Interested, curObjPasses, oldObjPasses, Ev, Concerns
<1>2. CASE h[n].type = "Deleted"
  <2>1. Selects(h, sel, n) => Selects(h, sel, StateAt(h, n - 1)[h[n].key])
    BY <1>2 DEF History, DeletesWhatIs, Selects
  <2>2. QED
    BY <1>2, <2>1 DEF Interested, curObjPasses, oldObjPasses, Ev, Concerns
<1>3. QED
  BY <1>1, <1>2

\* From one version to the next, what a client should have changes only in the
\* key of the write, and only if it concerns the client.
LEMMA RightStep ==
  ASSUME NEW h, History(h), NEW n \in 1 .. Len(h), NEW sel, NEW k \in Keys
  PROVE  Right(h, sel, n)[k] = IF h[n].key = k /\ Concerns(h, sel, n)
                               THEN IF curObjPasses(h, sel, Ev(h, n)) THEN n ELSE None
                               ELSE Right(h, sel, n - 1)[k]
<1>1. h \in Seq(WriteType)
  BY DEF History
<1>2. StateAt(h, n)[k] = IF h[n].key # k THEN StateAt(h, n - 1)[k]
                         ELSE IF h[n].type = "Deleted" THEN None ELSE n
  BY <1>1, NextState
<1>3. CASE h[n].key # k
  BY <1>2, <1>3 DEF Right, Filtered
<1>4. CASE h[n].key = k /\ ~Concerns(h, sel, n)
  <2>1. ~Selects(h, sel, n) /\ ~Selects(h, sel, StateAt(h, n - 1)[k]) /\ ~Selects(h, sel, None)
    BY <1>4 DEF Concerns, Selects
  <2>2. Right(h, sel, n - 1)[k] = None
    BY <2>1 DEF Right, Filtered
  <2>3. Right(h, sel, n)[k] = None
    BY <1>2, <1>4, <2>1 DEF Right, Filtered
  <2>4. QED
    BY <1>4, <2>2, <2>3
<1>5. CASE h[n].key = k /\ Concerns(h, sel, n)
  <2>1. n # None
    BY DEF None
  <2>2. ~Selects(h, sel, None)
    BY DEF Selects
  <2>3. curObjPasses(h, sel, Ev(h, n)) <=> h[n].type # "Deleted" /\ Selects(h, sel, n)
    BY DEF curObjPasses, Ev
  <2>4. QED
    BY <1>2, <1>5, <2>2, <2>3 DEF Right, Filtered
<1>6. QED
  BY <1>3, <1>4, <1>5

\* While no write concerns the client, what it should have of a key stays.
LEMMA Unconcerned ==
  ASSUME NEW h, History(h), NEW q \in 0 .. Len(h), NEW r \in q .. Len(h), NEW sel, NEW k \in Keys,
         \A n \in q + 1 .. r : ~(h[n].key = k /\ Concerns(h, sel, n))
  PROVE  Right(h, sel, r)[k] = Right(h, sel, q)[k]
<1> DEFINE T == {m \in q .. r : Right(h, sel, m)[k] # Right(h, sel, q)[k]}
<1>0. Len(h) \in Nat
  BY DEF History
<1>1. SUFFICES ASSUME T # {} PROVE FALSE
  BY <1>0
<1>2. T \in SUBSET Nat
  BY <1>0
<1>3. PICK m \in T : \A y \in T : m <= y
  BY <1>1, <1>2, LeastExists
<1>4. m \in q .. r /\ m # q /\ Right(h, sel, m)[k] # Right(h, sel, q)[k]
  BY <1>3
<1>5. /\ m \in 1 .. Len(h) /\ m \in q + 1 .. r /\ m - 1 \in q .. r
      /\ ~(m <= m - 1)
  BY <1>0, <1>4
<1>6. m - 1 \notin T
  BY <1>3, <1>5
<1>7. Right(h, sel, m - 1)[k] = Right(h, sel, q)[k]
  BY <1>5, <1>6
<1>8. Right(h, sel, m)[k] = Right(h, sel, m - 1)[k]
  BY <1>5, RightStep
<1>9. QED
  BY <1>4, <1>7, <1>8

\* One message.
LEMMA AfterOne ==
  ASSUME NEW h, NEW x, NEW c, NEW k \in Keys
  PROVE  After(h, x, <<c>>)[k] = IF c.type = "None" \/ h[c.obj].key # k THEN x[k]
                                 ELSE IF c.type = "Deleted" THEN None ELSE c.obj
<1>1. Told(h, k, <<c>>) = IF c.type = "None" \/ h[c.obj].key # k THEN {} ELSE {1}
  BY DEF Told
<1>2. Last({1}) = 1
  BY LastUnique
<1>3. QED
  BY <1>1, <1>2 DEF After

\* What one event tells of a write that concerns the client.
LEMMA SightOfEv ==
  ASSUME NEW h, History(h), NEW n \in 1 .. Len(h), NEW sel, NEW rv
  PROVE  IF n > rv /\ Concerns(h, sel, n)
         THEN /\ Sight(h, sel, rv, Ev(h, n)).type # "None"
              /\ Sight(h, sel, rv, Ev(h, n)).obj = n
              /\ Sight(h, sel, rv, Ev(h, n)).rv = n
              /\ (Sight(h, sel, rv, Ev(h, n)).type = "Deleted") <=> ~curObjPasses(h, sel, Ev(h, n))
         ELSE Sight(h, sel, rv, Ev(h, n)) = Nothing
<1>1. Ev(h, n).rv = n /\ Ev(h, n).obj = n
  BY DEF Ev
<1>2. Interested(h, sel, Ev(h, n)) <=> Concerns(h, sel, n)
  BY EvConcerns
<1>3. /\ Converted(h, sel, Ev(h, n)).type # "None"
      /\ Converted(h, sel, Ev(h, n)).obj = n /\ Converted(h, sel, Ev(h, n)).rv = n
      /\ (Converted(h, sel, Ev(h, n)).type = "Deleted") <=> ~curObjPasses(h, sel, Ev(h, n))
  BY <1>1 DEF Converted
<1>4. QED
  BY <1>1, <1>2, <1>3 DEF Sight

\* s holds the events of the writes after b, in order.
RunFrom(h, b, s) ==
  /\ s \in Seq(Event(h)) /\ b \in Nat /\ b + Len(s) <= Len(h)
  /\ \A i \in 1 .. Len(s) : s[i] = Ev(h, b + i)

\* What of such a run is told about a key.
LEMMA ToldOfRun ==
  ASSUME NEW h, History(h), NEW b, NEW s, RunFrom(h, b, s), NEW sel, NEW m \in Nat, NEW k \in Keys,
         NEW i \in 1 .. Len(s)
  PROVE  /\ b + i \in 1 .. Len(h)
         /\ Seen(h, sel, m, s)[i] = Sight(h, sel, m, Ev(h, b + i))
         /\ (i \in Told(h, k, Seen(h, sel, m, s)))
              <=> (b + i > m /\ Concerns(h, sel, b + i) /\ h[b + i].key = k)
<1>1. h \in Seq(WriteType) /\ s \in Seq(Event(h)) /\ b \in Nat /\ Len(s) \in Nat /\ Len(h) \in Nat
      /\ b + Len(s) <= Len(h)
  BY DEF History, RunFrom
<1>2. b + i \in 1 .. Len(h)
  BY <1>1
<1>3. /\ Len(Seen(h, sel, m, s)) = Len(s)
      /\ Seen(h, sel, m, s)[i] = Sight(h, sel, m, Ev(h, b + i))
  BY <1>1, SeenIs DEF RunFrom
<1>4. Nothing.type = "None"
  BY DEF Nothing
<1>5. QED
  BY <1>2, <1>3, <1>4, SightOfEv DEF Told

\* After a run of events up to version r a client has what it should have of
\* each key that the run tells of, whatever it had before; of the others, no
\* write of the run concerns it.
LEMMA AfterRun ==
  ASSUME NEW h, History(h), NEW b, NEW s, RunFrom(h, b, s), NEW sel, NEW m \in Nat, NEW k \in Keys, NEW x
  PROVE  \/ After(h, x, Seen(h, sel, m, s))[k] = Right(h, sel, b + Len(s))[k]
         \/ /\ After(h, x, Seen(h, sel, m, s))[k] = x[k]
            /\ \A n \in b + 1 .. b + Len(s) : ~(n > m /\ h[n].key = k /\ Concerns(h, sel, n))
<1> DEFINE t == Seen(h, sel, m, s)
           r == b + Len(s)
<1>1. /\ h \in Seq(WriteType) /\ s \in Seq(Event(h)) /\ b \in Nat /\ Len(s) \in Nat /\ Len(h) \in Nat
      /\ r \in 0 .. Len(h)
  BY DEF History, RunFrom
<1>2. Len(t) = Len(s) /\ Told(h, k, t) \subseteq 1 .. Len(s)
  BY <1>1, SeenIs DEF Told
<1>3. CASE Told(h, k, t) = {}
  <2>1. After(h, x, t)[k] = x[k]
    BY <1>3 DEF After
  <2>2. ASSUME NEW n \in b + 1 .. r PROVE ~(n > m /\ h[n].key = k /\ Concerns(h, sel, n))
    <3>1. n - b \in 1 .. Len(s) /\ b + (n - b) = n
      BY <1>1
    <3>2. QED
      BY <1>3, <3>1, ToldOfRun
  <2>3. QED
    BY <2>1, <2>2
<1>4. CASE Told(h, k, t) # {}
  <2> DEFINE l == Last(Told(h, k, t))
             n == b + l
  <2>1. l \in Told(h, k, t) /\ \A i \in Told(h, k, t) : i <= l
    BY <1>1, <1>2, <1>4, LastIs
  <2>2. After(h, x, t)[k] = IF t[l].type = "Deleted" THEN None ELSE t[l].obj
    BY <1>4 DEF After
  <2> HIDE DEF l, t
  <2>3. /\ l \in 1 .. Len(s) /\ n \in 1 .. Len(h) /\ t[l] = Sight(h, sel, m, Ev(h, n))
        /\ n > m /\ Concerns(h, sel, n) /\ h[n].key = k
    BY <1>2, <2>1, ToldOfRun DEF t
  <2>4. t[l].obj = n /\ (t[l].type = "Deleted" <=> ~curObjPasses(h, sel, Ev(h, n)))
    BY <2>3, SightOfEv
  <2>5. After(h, x, t)[k] = Right(h, sel, n)[k]
    BY <2>2, <2>3, <2>4, RightStep
  <2>6. ASSUME NEW j \in n + 1 .. r PROVE ~(h[j].key = k /\ Concerns(h, sel, j))
    <3>1. j - b \in 1 .. Len(s) /\ b + (j - b) = j /\ j > n /\ ~(j - b <= l)
      BY <1>1, <2>3
    <3>2. j - b \notin Told(h, k, t)
      BY <2>1, <3>1
    <3>3. n \in Nat /\ j \in Nat
      BY <2>3
    <3>4. ~(j > m /\ Concerns(h, sel, j) /\ h[j].key = k)
      BY <3>1, <3>2, ToldOfRun DEF t
    <3>5. QED
      BY <2>3, <3>1, <3>3, <3>4
  <2>7. n \in 0 .. Len(h) /\ r \in n .. Len(h)
    BY <1>1, <2>3
  <2>8. Right(h, sel, r)[k] = Right(h, sel, n)[k]
    BY <2>6, <2>7, Unconcerned
  <2>9. QED
    BY <2>5, <2>8 DEF t
<1>5. QED
  BY <1>3, <1>4

-----------------------------------------------------------------------------
(* A client that knows version g, and what it has when it has seen all that *)
(* is on its way.                                                          *)

\* Nothing newer than g that concerns the client is passed over.
Gapless(h, sel, g, p) == \A n \in p.bad : n > g => ~Concerns(h, sel, n)

\* It has been told all that concerns it up to c, in order, and has the state
\* of c.
UpToDate(h, sel, g, c, p) ==
  /\ Gapless(h, sel, g, p)
  /\ \A n \in g + 1 .. c : Concerns(h, sel, n) => n \in p.S
  /\ p.v = Right(h, sel, c)

\* The version the client is up to date with: Current.
Later(rv, r) == IF rv > r THEN rv ELSE r

\* The state a client should have is one of the keys.
LEMMA RightShape ==
  ASSUME NEW h, NEW sel, NEW n
  PROVE  Right(h, sel, n) = [k \in Keys |-> Right(h, sel, n)[k]]
BY DEF Right, Filtered

\* The versions that a run tells of.
LEMMA RunRvs ==
  ASSUME NEW h, History(h), NEW b, NEW s, RunFrom(h, b, s), NEW sel, NEW m \in Nat,
         NEW i \in 1 .. Len(s)
  PROVE  /\ b + i \in 1 .. Len(h) /\ i \in 1 .. Len(Seen(h, sel, m, s))
         /\ Seen(h, sel, m, s)[i].rv \in {0, b + i}
         /\ b + i > m /\ Concerns(h, sel, b + i) => Seen(h, sel, m, s)[i].rv = b + i
<1>1. h \in Seq(WriteType) /\ s \in Seq(Event(h)) /\ b \in Nat /\ Len(s) \in Nat /\ Len(h) \in Nat
      /\ b + Len(s) <= Len(h)
  BY DEF History, RunFrom
<1>2. b + i \in 1 .. Len(h)
  BY <1>1
<1>3. Len(Seen(h, sel, m, s)) = Len(s) /\ Seen(h, sel, m, s)[i] = Sight(h, sel, m, Ev(h, b + i))
  BY <1>1, SeenIs DEF RunFrom
<1>4. Nothing.rv = 0
  BY DEF Nothing
<1>5. QED
  BY <1>2, <1>3, <1>4, SightOfEv

\* A client that has the state of b and sees the events after b, one by one, is
\* up to date: GetAllEventsSinceThreadUnsafe from the window.
LEMMA CatchUp ==
  ASSUME NEW h, History(h), NEW b, NEW s, RunFrom(h, b, s), NEW sel
  PROVE  UpToDate(h, sel, b, b + Len(s), Go(h, Client0(Right(h, sel, b)), Seen(h, sel, 0, s)))
<1> DEFINE r == b + Len(s)
           t == Seen(h, sel, 0, s)
           p == Client0(Right(h, sel, b))
<1>1. /\ h \in Seq(WriteType) /\ s \in Seq(Event(h)) /\ b \in Nat /\ Len(s) \in Nat /\ Len(h) \in Nat
      /\ r \in b .. Len(h) /\ b \in 0 .. Len(h)
  BY DEF History, RunFrom
<1>2. Go(h, p, t) = [v |-> After(h, Right(h, sel, b), t), S |-> Rvs(t), bad |-> Skipped({}, t)]
  BY DEF Go, Client0
<1>3. Len(t) = Len(s)
  BY <1>1, SeenIs
<1>4. After(h, Right(h, sel, b), t) = Right(h, sel, r)
  <2>1. ASSUME NEW k \in Keys PROVE After(h, Right(h, sel, b), t)[k] = Right(h, sel, r)[k]
    <3>1. \/ After(h, Right(h, sel, b), t)[k] = Right(h, sel, r)[k]
          \/ /\ After(h, Right(h, sel, b), t)[k] = Right(h, sel, b)[k]
             /\ \A n \in b + 1 .. r : ~(n > 0 /\ h[n].key = k /\ Concerns(h, sel, n))
      BY AfterRun
    <3>2. ASSUME \A n \in b + 1 .. r : ~(n > 0 /\ h[n].key = k /\ Concerns(h, sel, n))
          PROVE  Right(h, sel, r)[k] = Right(h, sel, b)[k]
      <4>1. \A n \in b + 1 .. r : n > 0
        BY <1>1
      <4>2. QED
        BY <1>1, <3>2, <4>1, Unconcerned
    <3>3. QED
      BY <3>1, <3>2
  <2>2. QED
    BY <2>1, RightShape DEF After
<1>5. ASSUME NEW n \in b + 1 .. r, Concerns(h, sel, n) PROVE n \in Rvs(t) /\ t[n - b].rv = n
  <2>1. n - b \in 1 .. Len(s) /\ b + (n - b) = n /\ n > 0 /\ n \in Nat \ {0}
    BY <1>1
  <2>2. t[n - b].rv = n
    BY <1>5, <2>1, RunRvs
  <2>3. QED
    BY <1>3, <2>1, <2>2 DEF Rvs
<1>6. ASSUME NEW n \in Skipped({}, t), n > b PROVE ~Concerns(h, sel, n)
  <2>1. PICK i \in 1 .. Len(s) : n < t[i].rv /\ \A j \in 1 .. i - 1 : t[j].rv # n
    BY <1>3 DEF Skipped
  <2>2. n \in Nat \ {0}
    BY DEF Skipped
  <2>3. t[i].rv \in {0, b + i}
    BY RunRvs
  <2>4. n - b \in 1 .. i - 1 /\ n \in b + 1 .. r
    BY <1>1, <1>6, <2>1, <2>2, <2>3
  <2>5. QED
    BY <1>5, <2>1, <2>4
<1>7. QED
  BY <1>2, <1>4, <1>5, <1>6 DEF UpToDate, Gapless

\* A client that is up to date stays so when it sees a run of events again that
\* ends at the cache's version: what is still in incoming when Watch registers.
LEMMA SeenAgain ==
  ASSUME NEW h, History(h), NEW b, NEW s, RunFrom(h, b, s), NEW sel, NEW m \in Nat, NEW g \in Nat,
         NEW p, Proper(p), UpToDate(h, sel, g, Later(m, b + Len(s)), p)
  PROVE  UpToDate(h, sel, g, Later(m, b + Len(s)), Go(h, p, Seen(h, sel, m, s)))
<1> DEFINE r == b + Len(s)
           c == Later(m, r)
           t == Seen(h, sel, m, s)
<1>1. /\ h \in Seq(WriteType) /\ s \in Seq(Event(h)) /\ b \in Nat /\ Len(s) \in Nat /\ Len(h) \in Nat
      /\ r \in Nat /\ c \in Nat /\ r <= c
  BY DEF History, RunFrom, Later
<1>2. Go(h, p, t) = [v |-> After(h, p.v, t), S |-> p.S \cup Rvs(t), bad |-> p.bad \cup Skipped(p.S, t)]
  BY DEF Go
<1>3. Len(t) = Len(s)
  BY <1>1, SeenIs
<1>4. ASSUME NEW n \in Skipped(p.S, t), n > g PROVE ~Concerns(h, sel, n)
  <2>1. PICK i \in 1 .. Len(s) : n < t[i].rv
    BY <1>3 DEF Skipped
  <2>2. n \in Nat \ {0} /\ n \notin p.S
    BY DEF Skipped
  <2>3. t[i].rv \in {0, b + i}
    BY RunRvs
  <2>4. n \in g + 1 .. c
    BY <1>1, <1>4, <2>1, <2>2, <2>3
  <2>5. QED
    BY <2>2, <2>4 DEF UpToDate
<1>5. After(h, p.v, t) = Right(h, sel, c)
  <2>1. ASSUME NEW k \in Keys PROVE After(h, p.v, t)[k] = Right(h, sel, c)[k]
    <3>1. CASE m > r
      <4>1. \A i \in 1 .. Len(s) : ~(b + i > m)
        BY <1>1, <3>1
      <4>2. Told(h, k, t) \subseteq 1 .. Len(s)
        BY <1>3 DEF Told
      <4>3. Told(h, k, t) = {}
        BY <4>1, <4>2, ToldOfRun
      <4>4. QED
        BY <4>3 DEF After, UpToDate
    <3>2. CASE ~(m > r)
      <4>1. c = r
        BY <3>2 DEF Later
      <4>2. After(h, p.v, t)[k] = Right(h, sel, r)[k] \/ After(h, p.v, t)[k] = p.v[k]
        BY AfterRun
      <4>3. QED
        BY <4>1, <4>2 DEF UpToDate
    <3>3. QED
      BY <3>1, <3>2
  <2>2. QED
    BY <2>1, RightShape DEF After
<1>6. QED
  BY <1>2, <1>4, <1>5 DEF UpToDate, Gapless

\* A client that is up to date with the cache stays so when the cache's next
\* event is put in the queue for it: processEvent.
LEMMA SeesNext ==
  ASSUME NEW h, History(h), NEW r \in Nat, r < Len(h), NEW sel, NEW m \in Nat, NEW g \in Nat,
         NEW p, Proper(p), UpToDate(h, sel, g, Later(m, r), p)
  PROVE  UpToDate(h, sel, g, Later(m, r + 1), Go(h, p, <<Sight(h, sel, m, Ev(h, r + 1))>>))
<1> DEFINE n == r + 1
           c == Sight(h, sel, m, Ev(h, n))
<1>1. h \in Seq(WriteType) /\ Len(h) \in Nat /\ n \in 1 .. Len(h) /\ n - 1 = r
  BY DEF History
<1>2. IF n > m /\ Concerns(h, sel, n)
      THEN c.type # "None" /\ c.obj = n /\ c.rv = n
           /\ (c.type = "Deleted" <=> ~curObjPasses(h, sel, Ev(h, n)))
      ELSE c = Nothing
  BY <1>1, SightOfEv
<1> HIDE DEF c
<1>3. CASE m > r
  <2>1. ~(n > m) /\ Later(m, n) = Later(m, r)
    BY <1>3 DEF Later
  <2>2. c = Nothing
    BY <1>2, <2>1
  <2>3. QED
    BY <2>1, <2>2, GoNothing DEF c
<1>4. CASE ~(m > r)
  <2>1. n > m /\ Later(m, n) = n /\ Later(m, r) = r
    BY <1>4 DEF Later
  <2>2. Go(h, p, <<c>>) = [v |-> After(h, p.v, <<c>>), S |-> p.S \cup Rvs(<<c>>),
                           bad |-> p.bad \cup Skipped(p.S, <<c>>)]
    BY DEF Go
  <2>3. c.rv \in {0, n} /\ (Concerns(h, sel, n) => c.rv = n)
    BY <1>2, <2>1 DEF Nothing
  <2>4. Concerns(h, sel, n) => n \in Rvs(<<c>>)
    BY <2>3 DEF Rvs
  <2>5. ASSUME NEW j \in Skipped(p.S, <<c>>), j > g PROVE ~Concerns(h, sel, j)
    <3>1. j \in Nat \ {0} /\ j \notin p.S /\ j < c.rv
      BY DEF Skipped
    <3>2. j \in g + 1 .. r
      BY <2>3, <2>5, <3>1
    <3>3. QED
      BY <2>1, <3>1, <3>2 DEF UpToDate
  <2>6. ASSUME NEW k \in Keys PROVE After(h, p.v, <<c>>)[k] = Right(h, sel, n)[k]
    <3>1. After(h, p.v, <<c>>)[k] = IF c.type = "None" \/ h[c.obj].key # k THEN p.v[k]
                                    ELSE IF c.type = "Deleted" THEN None ELSE c.obj
      BY AfterOne
    <3>2. p.v[k] = Right(h, sel, n - 1)[k]
      BY <1>1, <2>1 DEF UpToDate
    <3>3. Right(h, sel, n)[k] = IF h[n].key = k /\ Concerns(h, sel, n)
                                THEN IF curObjPasses(h, sel, Ev(h, n)) THEN n ELSE None
                                ELSE Right(h, sel, n - 1)[k]
      BY <1>1, RightStep
    <3>4. CASE Concerns(h, sel, n)
      BY <1>2, <2>1, <3>1, <3>2, <3>3, <3>4
    <3>5. CASE ~Concerns(h, sel, n)
      <4>1. c.type = "None"
        BY <1>2, <3>5 DEF Nothing
      <4>2. QED
        BY <3>1, <3>2, <3>3, <3>5, <4>1
    <3>6. QED
      BY <3>4, <3>5
  <2>7. After(h, p.v, <<c>>) = Right(h, sel, n)
    BY <2>6, RightShape DEF After
  <2>8. \A j \in g + 1 .. n : Concerns(h, sel, j) => j \in p.S \cup Rvs(<<c>>)
    <3>1. \A j \in g + 1 .. n : j \in g + 1 .. r \/ j = n
      OBVIOUS
    <3>2. QED
      BY <2>1, <2>4, <3>1 DEF UpToDate
  <2>9. Gapless(h, sel, g, Go(h, p, <<c>>))
    BY <2>2, <2>5 DEF UpToDate, Gapless
  <2>10. QED
    BY <2>1, <2>2, <2>7, <2>8, <2>9 DEF UpToDate, c
<1>5. QED
  BY <1>3, <1>4

\* The initial events of a watch from version 0: one for each object there is.
Listing(h, r, order) ==
  [i \in 1 .. Len(order) |->
     [rv |-> r, type |-> "Added", obj |-> StateAt(h, r)[order[i]], prev |-> None]]

\* They are events, and leave a client that had nothing up to date.
LEMMA ListingTells ==
  ASSUME NEW h, History(h), NEW r \in 0 .. Len(h), NEW sel,
         NEW order \in Seq(Keys), Distinct(order),
         RangeOf(order) = {k \in Keys : StateAt(h, r)[k] # None}
  PROVE  /\ Listing(h, r, order) \in Seq(Event(h))
         /\ UpToDate(h, sel, r, r, Go(h, Client0(Right(h, sel, 0)), Seen(h, sel, 0, Listing(h, r, order))))
<1> DEFINE s == Listing(h, r, order)
           t == Seen(h, sel, 0, s)
           p == Client0(Right(h, sel, 0))
           o(i) == StateAt(h, r)[order[i]]
<1>1. h \in Seq(WriteType) /\ Len(h) \in Nat /\ r \in Nat /\ r <= Len(h) /\ Len(order) \in Nat
      /\ DOMAIN order = 1 .. Len(order)
  BY DEF History
<1>2. ASSUME NEW i \in 1 .. Len(order)
      PROVE  /\ order[i] \in Keys /\ o(i) # None /\ o(i) \in 1 .. r /\ h[o(i)].key = order[i]
             /\ o(i) \in 1 .. Len(h) /\ r \in 1 .. Len(h)
  <2>1. order[i] \in Keys /\ o(i) # None
    BY <1>1 DEF RangeOf
  <2>2. o(i) \in 1 .. r /\ h[o(i)].key = order[i]
    BY <1>1, <2>1, StateIsVersion
  <2>3. QED
    BY <1>1, <2>1, <2>2
<1>3. ASSUME NEW i \in 1 .. Len(order)
      PROVE  s[i] = [rv |-> r, type |-> "Added", obj |-> o(i), prev |-> None] /\ s[i] \in Event(h)
  BY <1>1, <1>2 DEF Listing, Event, None
<1>4. Len(s) = Len(order) /\ s \in Seq(Event(h))
  <2>1. s \in [1 .. Len(order) -> Event(h)]
    BY <1>3 DEF Listing
  <2>2. QED
    BY <1>1, <2>1
<1> HIDE DEF s
<1>5. Len(t) = Len(order) /\ \A i \in 1 .. Len(order) : t[i] = Sight(h, sel, 0, s[i])
  BY <1>1, <1>4, SeenIs
<1>6. ASSUME NEW i \in 1 .. Len(order)
      PROVE  /\ t[i].rv \in {0, r}
             /\ IF Selects(h, sel, o(i)) THEN t[i].type = "Added" /\ t[i].obj = o(i)
                ELSE t[i].type = "None"
  <2>0. r > 0
    BY <1>1, <1>2
  <2>1. s[i].rv > 0 /\ s[i].rv = r /\ s[i].obj = o(i) /\ s[i].type = "Added" /\ s[i].prev = None
    <3>1. s[i] = [rv |-> r, type |-> "Added", obj |-> o(i), prev |-> None]
      BY <1>3
    <3>2. QED
      BY <2>0, <3>1
  <2>2. ~oldObjPasses(h, sel, s[i]) /\ (curObjPasses(h, sel, s[i]) <=> Selects(h, sel, o(i)))
    BY <2>1 DEF oldObjPasses, curObjPasses, Selects
  <2>3. t[i] = Sight(h, sel, 0, s[i])
    BY <1>5
  <2>4. CASE Selects(h, sel, o(i))
    <3>1. t[i] = [type |-> "Added", obj |-> o(i), rv |-> r]
      BY <2>1, <2>2, <2>3, <2>4 DEF Sight, Interested, Converted
    <3>2. QED
      BY <2>4, <3>1
  <2>5. CASE ~Selects(h, sel, o(i))
    <3>1. t[i] = Nothing
      BY <2>2, <2>3, <2>5 DEF Sight, Interested
    <3>2. QED
      BY <2>5, <3>1 DEF Nothing
  <2>6. QED
    BY <2>4, <2>5
<1> HIDE DEF t
<1>7. Go(h, p, t) = [v |-> After(h, Right(h, sel, 0), t), S |-> Rvs(t), bad |-> Skipped({}, t)]
  BY DEF Go, Client0
<1>8. ASSUME NEW n \in Skipped({}, t) PROVE ~(n > r)
  <2>1. PICK i \in 1 .. Len(order) : n < t[i].rv
    BY <1>5 DEF Skipped
  <2>2. n \in Nat /\ t[i].rv \in {0, r}
    BY <1>6 DEF Skipped
  <2>3. QED
    BY <1>1, <2>1, <2>2
<1>9. ASSUME NEW k \in Keys PROVE After(h, Right(h, sel, 0), t)[k] = Right(h, sel, r)[k]
  <2>1. Right(h, sel, 0)[k] = None
    BY StateAtZero DEF Right, Filtered
  <2>2. ASSUME NEW i \in Told(h, k, t)
        PROVE  i \in 1 .. Len(order) /\ order[i] = k /\ Selects(h, sel, StateAt(h, r)[k])
               /\ t[i].type = "Added" /\ t[i].obj = StateAt(h, r)[k]
    <3>1. i \in 1 .. Len(order) /\ t[i].type # "None" /\ h[t[i].obj].key = k
      BY <1>5 DEF Told
    <3>2. Selects(h, sel, o(i)) /\ t[i].type = "Added" /\ t[i].obj = o(i)
      BY <1>6, <3>1
    <3>3. order[i] = k
      BY <1>2, <3>1, <3>2
    <3>4. QED
      BY <3>1, <3>2, <3>3
  <2>3. CASE Told(h, k, t) = {}
    <3>1. ~Selects(h, sel, StateAt(h, r)[k])
      <4>1. SUFFICES ASSUME Selects(h, sel, StateAt(h, r)[k]) PROVE FALSE
        OBVIOUS
      <4>2. StateAt(h, r)[k] # None
        BY <4>1 DEF Selects
      <4>3. PICK i \in 1 .. Len(order) : order[i] = k
        BY <1>1, <4>2 DEF RangeOf
      <4>4. t[i].type = "Added" /\ t[i].obj = o(i) /\ h[o(i)].key = k
        BY <1>2, <1>6, <4>1, <4>3
      <4>5. i \in Told(h, k, t)
        BY <1>5, <4>4 DEF Told
      <4>6. QED
        BY <2>3, <4>5
    <3>2. QED
      BY <2>1, <2>3, <3>1 DEF After, Right, Filtered
  <2>4. CASE Told(h, k, t) # {}
    <3>1. Told(h, k, t) \subseteq 1 .. Len(order)
      BY <2>2
    <3>2. Last(Told(h, k, t)) \in Told(h, k, t)
      BY <1>1, <2>4, <3>1, LastIs
    <3>3. QED
      BY <2>2, <2>4, <3>2 DEF After, Right, Filtered
  <2>5. QED
    BY <2>3, <2>4
<1>10. After(h, Right(h, sel, 0), t) = Right(h, sel, r)
  BY <1>9, RightShape DEF After
<1>11. \A n \in r + 1 .. r : FALSE
  BY <1>1
<1>12. UpToDate(h, sel, r, r, Go(h, p, t))
  BY <1>7, <1>8, <1>10, <1>11 DEF UpToDate, Gapless
<1>13. QED
  BY <1>4, <1>12 DEF s, t

\* Receiving the head of the queue: the client knows its version, and is
\* where it was, as to what is newer.
Alike(b, p, q) ==
  /\ p.v = q.v
  /\ \A n \in Nat : n > b => (n \in p.S <=> n \in q.S) /\ (n \in p.bad <=> n \in q.bad)

\* A client that receives e is, beyond e's version, like one that starts from
\* what it then has.
LEMMA ReceivedAlike ==
  ASSUME NEW h, NEW x, NEW e, e.rv \in Nat
  PROVE  Alike(e.rv, Go(h, Client0(x), <<e>>), Client0(After(h, x, <<e>>)))
<1>1. \A n \in Nat : n > e.rv => n \notin Rvs(<<e>>)
  <2> SUFFICES ASSUME NEW n \in Nat, n > e.rv, n \in Rvs(<<e>>) PROVE FALSE
    OBVIOUS
  <2>1. e.rv = n
    BY DEF Rvs
  <2>2. QED
    BY <2>1
<1>2. \A n \in Nat : n > e.rv => n \notin Skipped({}, <<e>>)
  <2> SUFFICES ASSUME NEW n \in Nat, n > e.rv, n \in Skipped({}, <<e>>) PROVE FALSE
    OBVIOUS
  <2>1. n < e.rv
    BY DEF Skipped
  <2>2. QED
    BY <2>1
<1>3. QED
  BY <1>1, <1>2 DEF Alike, Go, Client0

\* Clients that are alike stay so.
LEMMA GoAlike ==
  ASSUME NEW h, NEW b, NEW p, NEW q, Alike(b, p, q), NEW s
  PROVE  Alike(b, Go(h, p, s), Go(h, q, s))
<1>1. ASSUME NEW n \in Nat, n > b PROVE n \in Skipped(p.S, s) <=> n \in Skipped(q.S, s)
  BY <1>1 DEF Alike, Skipped
<1>2. QED
  BY <1>1 DEF Alike, Go

\* Being without gaps carries over to a client that is alike.
LEMMA AlikeGapless ==
  ASSUME NEW h, NEW sel, NEW g \in Nat, NEW b \in Nat, NEW p, NEW q, Alike(b, p, q),
         q.bad \subseteq Nat, Gapless(h, sel, g, p)
  PROVE  Gapless(h, sel, IF b > g THEN b ELSE g, q)
BY DEF Alike, Gapless

\* And so does being up to date.
LEMMA AlikeUpToDate ==
  ASSUME NEW h, NEW sel, NEW g \in Nat, NEW b \in Nat, NEW p, NEW q, Alike(b, p, q),
         q.bad \subseteq Nat, NEW c \in Nat, UpToDate(h, sel, g, c, p)
  PROVE  UpToDate(h, sel, IF b > g THEN b ELSE g, c, q)
<1> DEFINE d == IF b > g THEN b ELSE g
<1>1. Gapless(h, sel, d, q)
  BY AlikeGapless DEF UpToDate
<1>2. \A n \in d + 1 .. c : n \in g + 1 .. c /\ n > b /\ n \in Nat
  OBVIOUS
<1>3. QED
  BY <1>1, <1>2 DEF UpToDate, Alike

-----------------------------------------------------------------------------
(* One more write leaves what is on its way, and what it says, as it was.  *)

\* One more write keeps the history, and what was an event of it.
LEMMA LongerTypes ==
  ASSUME NEW h \in Seq(WriteType), NEW e \in WriteType
  PROVE  /\ Append(h, e) \in Seq(WriteType) /\ Len(Append(h, e)) = Len(h) + 1 /\ Len(h) \in Nat
         /\ \A n \in 1 .. Len(h) : Append(h, e)[n] = h[n]
         /\ Append(h, e)[Len(h) + 1] = e
         /\ Event(h) \subseteq Event(Append(h, e))
         /\ Letter(h) \subseteq Letter(Append(h, e))
         /\ Msg(h) \subseteq Msg(Append(h, e))
<1>1. /\ Append(h, e) \in Seq(WriteType) /\ Len(Append(h, e)) = Len(h) + 1 /\ Len(h) \in Nat
      /\ \A n \in 1 .. Len(h) : Append(h, e)[n] = h[n]
      /\ Append(h, e)[Len(h) + 1] = e
  OBVIOUS
<1>2. 1 .. Len(h) \subseteq 1 .. Len(Append(h, e)) /\ 0 .. Len(h) \subseteq 0 .. Len(Append(h, e))
  BY <1>1
<1>3. Event(h) \subseteq Event(Append(h, e))
  BY <1>2 DEF Event
<1>4. Letter(h) \subseteq Letter(Append(h, e))
  BY <1>2 DEF Letter
<1>5. QED
  BY <1>1, <1>3, <1>4 DEF Msg

\* A sequence over a set is one over a larger set.
LEMMA SeqMono ==
  ASSUME NEW A, NEW B, A \subseteq B, NEW s \in Seq(A)
  PROVE  s \in Seq(B)
<1>1. s \in [1 .. Len(s) -> A] /\ Len(s) \in Nat
  OBVIOUS
<1>2. s \in [1 .. Len(s) -> B]
  BY <1>1
<1>3. QED
  BY <1>1, <1>2

\* One more write does not change what a selector selects of the earlier ones.
LEMMA LongerSelects ==
  ASSUME NEW h \in Seq(WriteType), NEW e \in WriteType, NEW sel, NEW n \in 0 .. Len(h)
  PROVE  Selects(Append(h, e), sel, n) <=> Selects(h, sel, n)
<1>1. CASE n = 0
  BY <1>1 DEF Selects, None
<1>2. CASE n # 0
  <2>1. n \in 1 .. Len(h)
    BY <1>2
  <2>2. Append(h, e)[n] = h[n]
    BY <2>1, LongerTypes
  <2>3. QED
    BY <2>2 DEF Selects
<1>3. QED
  BY <1>1, <1>2

\* Nor what is seen of earlier events.
LEMMA LongerSeen ==
  ASSUME NEW h \in Seq(WriteType), NEW e \in WriteType, NEW sel, NEW rv, NEW s \in Seq(Event(h))
  PROVE  /\ Seen(Append(h, e), sel, rv, s) = Seen(h, sel, rv, s)
         /\ \A i \in 1 .. Len(s) : Interested(Append(h, e), sel, s[i]) <=> Interested(h, sel, s[i])
<1>1. ASSUME NEW i \in 1 .. Len(s)
      PROVE  /\ Interested(Append(h, e), sel, s[i]) <=> Interested(h, sel, s[i])
             /\ Converted(Append(h, e), sel, s[i]) = Converted(h, sel, s[i])
  <2>1. s[i] \in Event(h)
    OBVIOUS
  <2>2. s[i].obj \in 0 .. Len(h) /\ s[i].prev \in 0 .. Len(h)
    BY <2>1 DEF Event
  <2>3. /\ curObjPasses(Append(h, e), sel, s[i]) <=> curObjPasses(h, sel, s[i])
        /\ oldObjPasses(Append(h, e), sel, s[i]) <=> oldObjPasses(h, sel, s[i])
    BY <2>2, LongerSelects DEF curObjPasses, oldObjPasses
  <2>4. QED
    BY <2>3 DEF Interested, Converted
<1>2. QED
  BY <1>1 DEF Seen

\* Nor what a client makes of earlier messages.
LEMMA LongerGo ==
  ASSUME NEW h \in Seq(WriteType), NEW e \in WriteType, NEW p, NEW s \in Seq(Msg(h))
  PROVE  Go(Append(h, e), p, s) = Go(h, p, s)
<1>1. ASSUME NEW k \in Keys PROVE Told(Append(h, e), k, s) = Told(h, k, s)
  <2>1. ASSUME NEW i \in 1 .. Len(s), s[i].type # "None"
        PROVE  Append(h, e)[s[i].obj] = h[s[i].obj]
    <3>1. s[i] \in Msg(h) /\ s[i] # Nothing
      BY <2>1 DEF Nothing
    <3>2. s[i].obj \in 1 .. Len(h)
      BY <3>1 DEF Msg, Letter
    <3>3. QED
      BY <3>2, LongerTypes
  <2>2. QED
    BY <2>1 DEF Told
<1>2. After(Append(h, e), p.v, s) = After(h, p.v, s)
  BY <1>1 DEF After
<1>3. QED
  BY <1>2 DEF Go

\* Nor what a client should have at an earlier version.
LEMMA LongerRight ==
  ASSUME NEW h \in Seq(WriteType), NEW e \in WriteType, NEW sel, NEW n \in 0 .. Len(h)
  PROVE  Right(Append(h, e), sel, n) = Right(h, sel, n)
<1>1. StateAt(Append(h, e), n) = StateAt(h, n)
  BY StateStays
<1>2. \A k \in Keys : StateAt(h, n)[k] \in 0 .. Len(h)
  BY StateIsVersion
<1>3. QED
  BY <1>1, <1>2, LongerSelects DEF Right, Filtered

\* Nor whom an earlier write concerns and which event it made.
LEMMA LongerConcerns ==
  ASSUME NEW h \in Seq(WriteType), NEW e \in WriteType, NEW sel, NEW n \in 1 .. Len(h)
  PROVE  /\ Concerns(Append(h, e), sel, n) <=> Concerns(h, sel, n)
         /\ Ev(Append(h, e), n) = Ev(h, n)
<1>1. Append(h, e)[n] = h[n] /\ n - 1 \in 0 .. Len(h) /\ n \in 0 .. Len(h)
  BY LongerTypes
<1>2. StateAt(Append(h, e), n - 1) = StateAt(h, n - 1)
  BY <1>1, StateStays
<1>3. StateAt(h, n - 1)[h[n].key] \in 0 .. Len(h)
  BY EvTyped
<1>4. QED
  BY <1>1, <1>2, <1>3, LongerSelects DEF Concerns, Ev

\* Nor which events are a run.
LEMMA LongerRun ==
  ASSUME NEW h \in Seq(WriteType), NEW e \in WriteType, NEW b, NEW s, RunFrom(h, b, s)
  PROVE  RunFrom(Append(h, e), b, s)
<1>1. s \in Seq(Event(h)) /\ b \in Nat /\ Len(s) \in Nat /\ Len(h) \in Nat /\ b + Len(s) <= Len(h)
  BY DEF RunFrom
<1>2. s \in Seq(Event(Append(h, e))) /\ b + Len(s) <= Len(Append(h, e))
  BY <1>1, LongerTypes, SeqMono
<1>3. ASSUME NEW i \in 1 .. Len(s) PROVE s[i] = Ev(Append(h, e), b + i)
  <2>1. b + i \in 1 .. Len(h)
    BY <1>1
  <2>2. QED
    BY <2>1, LongerConcerns DEF RunFrom
<1>4. QED
  BY <1>1, <1>2, <1>3 DEF RunFrom

\* What Write appends keeps the history one.
LEMMA LongerHistory ==
  ASSUME NEW h, History(h), NEW e \in WriteType,
         e.type = "Deleted" => /\ StateAt(h, Len(h))[e.key] # None
                               /\ e.value = h[StateAt(h, Len(h))[e.key]].value
  PROVE  History(Append(h, e))
<1>1. h \in Seq(WriteType) /\ Len(h) \in Nat
  BY DEF History
<1> DEFINE H == Append(h, e)
<1>2. H \in Seq(WriteType) /\ Len(H) = Len(h) + 1
      /\ (\A n \in 1 .. Len(h) : H[n] = h[n]) /\ H[Len(h) + 1] = e
  BY <1>1, LongerTypes
<1>3. \A r \in 0 .. Len(h) : StateAt(H, r) = StateAt(h, r)
  BY <1>1, StateStays
<1> HIDE DEF H
<1>4. ASSUME NEW n \in 1 .. Len(H), H[n].type = "Deleted"
      PROVE  /\ StateAt(H, n - 1)[H[n].key] # None
             /\ H[n].value = H[StateAt(H, n - 1)[H[n].key]].value
  <2>1. n - 1 \in 0 .. Len(h) /\ StateAt(H, n - 1) = StateAt(h, n - 1)
    BY <1>1, <1>2, <1>3
  <2>2. H[n].key \in Keys
    BY <1>2, EvTyped
  <2>3. /\ StateAt(h, n - 1)[H[n].key] # None
        /\ H[n].value = h[StateAt(h, n - 1)[H[n].key]].value
    <3>1. CASE n \in 1 .. Len(h)
      BY <1>2, <1>4, <3>1 DEF History, DeletesWhatIs
    <3>2. CASE n = Len(h) + 1
      <4>1. n - 1 = Len(h) /\ H[n] = e
        BY <1>1, <1>2, <3>2
      <4>2. QED
        BY <1>4, <4>1
    <3>3. QED
      BY <1>1, <1>2, <3>1, <3>2
  <2>4. StateAt(h, n - 1)[H[n].key] \in 1 .. Len(h)
    BY <1>1, <2>1, <2>2, <2>3, StateIsVersion
  <2>5. QED
    BY <1>2, <2>1, <2>3, <2>4
<1>5. DeletesWhatIs(H)
  BY <1>4 DEF DeletesWhatIs
<1>6. QED
  BY <1>2, <1>5 DEF History, H

\* What is passed over was written.
LEMMA SkippedWritten ==
  ASSUME NEW h \in Seq(WriteType), NEW S, NEW s \in Seq(Msg(h))
  PROVE  Skipped(S, s) \subseteq 1 .. Len(h)
<1> SUFFICES ASSUME NEW n \in Skipped(S, s) PROVE n \in 1 .. Len(h)
  OBVIOUS
<1>1. PICK i \in 1 .. Len(s) : n < s[i].rv
  BY DEF Skipped
<1>2. n \in Nat \ {0} /\ Len(h) \in Nat
  BY DEF Skipped
<1>3. s[i] \in Msg(h)
  OBVIOUS
<1>4. s[i].rv \in 0 .. Len(h)
  BY <1>2, <1>3 DEF Msg, Letter, Nothing
<1>5. QED
  BY <1>1, <1>2, <1>4

\* Being gapless or up to date is about the past.
LEMMA LongerUpToDate ==
  ASSUME NEW h \in Seq(WriteType), NEW e \in WriteType, NEW sel, NEW g \in Nat, NEW p,
         p.bad \subseteq 1 .. Len(h)
  PROVE  /\ Gapless(h, sel, g, p) => Gapless(Append(h, e), sel, g, p)
         /\ \A c \in 0 .. Len(h) : UpToDate(h, sel, g, c, p) => UpToDate(Append(h, e), sel, g, c, p)
<1>1. Gapless(h, sel, g, p) => Gapless(Append(h, e), sel, g, p)
  BY LongerConcerns DEF Gapless
<1>2. ASSUME NEW c \in 0 .. Len(h), UpToDate(h, sel, g, c, p)
      PROVE  UpToDate(Append(h, e), sel, g, c, p)
  <2>1. p.v = Right(Append(h, e), sel, c)
    BY <1>2, LongerRight DEF UpToDate
  <2>2. \A n \in g + 1 .. c : n \in 1 .. Len(h)
    OBVIOUS
  <2>3. \A n \in g + 1 .. c : Concerns(Append(h, e), sel, n) => n \in p.S
    BY <1>2, <2>2, LongerConcerns DEF UpToDate
  <2>4. QED
    BY <1>1, <1>2, <2>1, <2>3 DEF UpToDate
<1>3. QED
  BY <1>1, <1>2

-----------------------------------------------------------------------------
(* The inductive invariant.                                                *)

\* What the client of a watcher me has, from x on: when it has read what is
\* sent, then the rest of the initial events, then its input, and then the
\* event it is being given and what is in incoming.
Sent(h, x, me) == Go(h, Go(h, Client0(x), me.result), Seen(h, me.sel, 0, me.hand))

Started(h, x, me) == Go(h, Sent(h, x, me), Seen(h, me.sel, 0, me.init))

Queued(h, x, me) == Go(h, Started(h, x, me), Seen(h, me.sel, me.rv, me.input))

All(h, x, me, giv, inc) ==
  Go(h, Go(h, Queued(h, x, me), Seen(h, me.sel, me.rv, giv)), Seen(h, me.sel, me.rv, inc))

WatcherType(h) ==
  [at : {"idle", "called", "locked", "running", "closed", "gone"},
   listed : BOOLEAN, done : BOOLEAN, sel : Selectors \cup {Everything}, rv : 0 .. Len(h),
   lostEdge : BOOLEAN,
   init : Seq(Event(h)), hand : Seq(Event(h)), input : Seq(Event(h)), result : Seq(Letter(h))]

\* A watcher in the maps runs and is not stopped; before it runs it has
\* nothing but its initial events.
Shape(me) ==
  /\ me.listed => me.at = "running" /\ ~me.done
  /\ me.at \in {"idle", "called", "locked", "gone"} =>
       ~me.listed /\ ~me.done /\ me.hand = <<>> /\ me.input = <<>> /\ me.result = <<>>
  /\ me.at \in {"idle", "called", "gone"} => me.init = <<>>
  /\ Len(me.hand) <= 1

\* What is sent has no gap, whatever becomes of the watcher; neither has what
\* is queued as long as it is not stopped; a registered watcher is up to date
\* with the cache once it gets all that is on its way, and so is one that has
\* its initial events and waits for the lock, without what is in incoming.
Consistent(h, r, giv, inc, x, g, me) ==
  /\ me.at \in {"running", "closed"} => Gapless(h, me.sel, g, Sent(h, x, me))
  /\ me.at = "running" /\ ~me.done => Gapless(h, me.sel, g, Queued(h, x, me))
  /\ me.listed => UpToDate(h, me.sel, g, Later(me.rv, r), All(h, x, me, giv, inc))
  /\ me.at = "locked" => UpToDate(h, me.sel, g, Later(me.rv, r), Started(h, x, me))

Fine(h, r, giv, inc, x, g, me) ==
  /\ me \in WatcherType(h) /\ Shape(me)
  /\ x = [k \in Keys |-> x[k]] /\ g \in 0 .. Len(h)
  /\ me.at = "called" => x = Right(h, me.sel, me.rv) /\ g = me.rv
  /\ \A i \in 1 .. Len(me.hand) : Interested(h, me.sel, me.hand[i])
  /\ ~me.lostEdge => Consistent(h, r, giv, inc, x, g, me)

\* The watchCache: its state, and the last events in the window and in incoming.
CacheInv ==
  /\ resourceVersion \in 0 .. Len(log) /\ listed \in 0 .. Len(log)
  /\ store = StateAt(log, resourceVersion)
  /\ startIndex \in Nat /\ endIndex \in startIndex .. startIndex + Capacity
  /\ endIndex - startIndex <= resourceVersion
  /\ cache = [i \in 0 .. Capacity - 1 |-> cache[i]]
  /\ \A j \in startIndex .. endIndex - 1 :
       cache[j % Capacity] = Ev(log, (resourceVersion - endIndex) + 1 + j)
  /\ incoming \in Seq(Event(log)) /\ Len(incoming) <= resourceVersion
  /\ RunFrom(log, resourceVersion - Len(incoming), incoming)

\* The dispatcher gives an event to registered watchers only.
DispatchInv ==
  /\ dispatch \in [event : Event(log) \cup {NoEvent}, todo : SUBSET Watchers, slow : SUBSET Watchers]
  /\ dispatch.todo # {} => dispatch.event \in Event(log)
  /\ dispatch.slow \subseteq dispatch.todo
  /\ \A w \in dispatch.todo : watcher[w].listed

\* While the reflector lists, nobody is registered and nothing is queued; the
\* write lock excludes a Watch that has its events and waits.
ReflectorInv ==
  /\ at \in {"start", "list", "replace", "watch", "send"}
  /\ ready \in BOOLEAN /\ (ready => at \in {"watch", "send"})
  /\ at \in {"list", "replace"} =>
       /\ incoming = <<>> /\ dispatch = Idle
       /\ \A w \in Watchers : ~watcher[w].listed /\ watcher[w].at \notin {"called", "locked"}
  /\ at = "send" => CacheWritable /\ resourceVersion < Len(log)

WatchersInv ==
  /\ watcher = [w \in Watchers |-> watcher[w]]
  /\ view = [w \in Watchers |-> view[w]]
  /\ got = [w \in Watchers |-> got[w]]
  /\ \A w \in Watchers :
       Fine(log, resourceVersion, Given(w), incoming, view[w], got[w], watcher[w])

IInv == History(log) /\ CacheInv /\ DispatchInv /\ ReflectorInv /\ WatchersInv

-----------------------------------------------------------------------------
(* What happens to one watcher.                                            *)

\* What is in result is messages.
LEMMA LettersAreMsgs ==
  ASSUME NEW h, NEW s \in Seq(Letter(h))
  PROVE  s \in Seq(Msg(h))
BY SeqMono DEF Msg

\* Go adds to what is passed over, and only what was written.
LEMMA GoWritten ==
  ASSUME NEW h \in Seq(WriteType), NEW p, p.bad \subseteq 1 .. Len(h), NEW s \in Seq(Msg(h))
  PROVE  /\ Proper(Go(h, p, s))
         /\ p.bad \subseteq Go(h, p, s).bad
         /\ Go(h, p, s).bad \subseteq 1 .. Len(h)
<1>1. Go(h, p, s).bad = p.bad \cup Skipped(p.S, s)
  BY DEF Go
<1>2. QED
  BY <1>1, SkippedWritten, GoProper

\* The stages are proper, and each passes over at least what the one before does.
LEMMA Stages ==
  ASSUME NEW h \in Seq(WriteType), NEW x, NEW me \in WatcherType(h)
  PROVE  /\ Proper(Sent(h, x, me)) /\ Proper(Started(h, x, me)) /\ Proper(Queued(h, x, me))
         /\ Sent(h, x, me).bad \subseteq Started(h, x, me).bad
         /\ Started(h, x, me).bad \subseteq Queued(h, x, me).bad
         /\ Queued(h, x, me).bad \subseteq 1 .. Len(h)
<1>1. /\ me.result \in Seq(Letter(h)) /\ me.hand \in Seq(Event(h))
      /\ me.init \in Seq(Event(h)) /\ me.input \in Seq(Event(h))
  BY DEF WatcherType
<1>2. /\ me.result \in Seq(Msg(h)) /\ Seen(h, me.sel, 0, me.hand) \in Seq(Msg(h))
      /\ Seen(h, me.sel, 0, me.init) \in Seq(Msg(h)) /\ Seen(h, me.sel, me.rv, me.input) \in Seq(Msg(h))
  BY <1>1, LettersAreMsgs, SeenIs
<1>3. Client0(x).bad \subseteq 1 .. Len(h)
  BY DEF Client0
<1>4. Go(h, Client0(x), me.result).bad \subseteq 1 .. Len(h)
  BY <1>2, <1>3, GoWritten
<1>5. Proper(Sent(h, x, me)) /\ Sent(h, x, me).bad \subseteq 1 .. Len(h)
  BY <1>2, <1>4, GoWritten DEF Sent
<1>6. /\ Proper(Started(h, x, me)) /\ Started(h, x, me).bad \subseteq 1 .. Len(h)
      /\ Sent(h, x, me).bad \subseteq Started(h, x, me).bad
  BY <1>2, <1>5, GoWritten DEF Started
<1>7. /\ Proper(Queued(h, x, me)) /\ Queued(h, x, me).bad \subseteq 1 .. Len(h)
      /\ Started(h, x, me).bad \subseteq Queued(h, x, me).bad
  BY <1>2, <1>6, GoWritten DEF Queued
<1>8. QED
  BY <1>5, <1>6, <1>7

\* The same of all that is on its way.
LEMMA LastStage ==
  ASSUME NEW h \in Seq(WriteType), NEW x, NEW me \in WatcherType(h),
         NEW giv \in Seq(Event(h)), NEW inc \in Seq(Event(h))
  PROVE  /\ Proper(All(h, x, me, giv, inc))
         /\ Queued(h, x, me).bad \subseteq All(h, x, me, giv, inc).bad
         /\ All(h, x, me, giv, inc).bad \subseteq 1 .. Len(h)
<1>1. Seen(h, me.sel, me.rv, giv) \in Seq(Msg(h)) /\ Seen(h, me.sel, me.rv, inc) \in Seq(Msg(h))
  BY SeenIs
<1>2. Queued(h, x, me).bad \subseteq 1 .. Len(h)
  BY Stages
<1> DEFINE p == Go(h, Queued(h, x, me), Seen(h, me.sel, me.rv, giv))
<1>3. Queued(h, x, me).bad \subseteq p.bad /\ p.bad \subseteq 1 .. Len(h)
  BY <1>1, <1>2, GoWritten
<1> HIDE DEF p
<1>4. LET q == Go(h, p, Seen(h, me.sel, me.rv, inc))
      IN  Proper(q) /\ p.bad \subseteq q.bad /\ q.bad \subseteq 1 .. Len(h)
  BY <1>1, <1>3, GoWritten
<1>5. QED
  BY <1>3, <1>4 DEF All, p

\* Who has no gaps at the end had none before.
LEMMA GaplessBefore ==
  ASSUME NEW h, NEW sel, NEW g, NEW p, NEW q, p.bad \subseteq q.bad, Gapless(h, sel, g, q)
  PROVE  Gapless(h, sel, g, p)
BY DEF Gapless

\* One who is not registered and does not wait to be is not touched by what
\* the cache and the dispatcher do.
LEMMA FineElsewhere ==
  ASSUME NEW h, NEW r, NEW giv, NEW inc, NEW x, NEW g, NEW me,
         Fine(h, r, giv, inc, x, g, me), ~me.listed, me.at # "locked",
         NEW r2, NEW giv2, NEW inc2
  PROVE  Fine(h, r2, giv2, inc2, x, g, me)
BY DEF Fine, Consistent

\* Nor does a write touch anyone.
LEMMA FineWrite ==
  ASSUME NEW h, History(h), NEW r \in 0 .. Len(h), NEW giv \in Seq(Event(h)), NEW inc \in Seq(Event(h)),
         NEW x, NEW g, NEW me, Fine(h, r, giv, inc, x, g, me), NEW e \in WriteType
  PROVE  Fine(Append(h, e), r, giv, inc, x, g, me)
<1> DEFINE H == Append(h, e)
<1>0. h \in Seq(WriteType) /\ me \in WatcherType(h) /\ g \in Nat /\ Len(h) \in Nat
  BY DEF History, Fine
<1>1. /\ me.result \in Seq(Letter(h)) /\ me.hand \in Seq(Event(h))
      /\ me.init \in Seq(Event(h)) /\ me.input \in Seq(Event(h)) /\ me.rv \in 0 .. Len(h)
  BY <1>0 DEF WatcherType
<1>2. /\ me.result \in Seq(Letter(H)) /\ me.hand \in Seq(Event(H))
      /\ me.init \in Seq(Event(H)) /\ me.input \in Seq(Event(H))
  BY <1>0, <1>1, LongerTypes, SeqMono
<1>3. me.rv \in 0 .. Len(H) /\ g \in 0 .. Len(H)
  BY <1>0, <1>1, LongerTypes DEF Fine
<1>4. me \in WatcherType(H)
  BY <1>0, <1>2, <1>3 DEF WatcherType
<1>5. /\ me.result \in Seq(Msg(h)) /\ Seen(h, me.sel, 0, me.hand) \in Seq(Msg(h))
      /\ Seen(h, me.sel, 0, me.init) \in Seq(Msg(h)) /\ Seen(h, me.sel, me.rv, me.input) \in Seq(Msg(h))
      /\ Seen(h, me.sel, me.rv, giv) \in Seq(Msg(h)) /\ Seen(h, me.sel, me.rv, inc) \in Seq(Msg(h))
  BY <1>0, <1>1, LettersAreMsgs, SeenIs
<1>6. /\ Seen(H, me.sel, 0, me.hand) = Seen(h, me.sel, 0, me.hand)
      /\ Seen(H, me.sel, 0, me.init) = Seen(h, me.sel, 0, me.init)
      /\ Seen(H, me.sel, me.rv, me.input) = Seen(h, me.sel, me.rv, me.input)
      /\ Seen(H, me.sel, me.rv, giv) = Seen(h, me.sel, me.rv, giv)
      /\ Seen(H, me.sel, me.rv, inc) = Seen(h, me.sel, me.rv, inc)
  BY <1>0, <1>1, LongerSeen
<1>7. \A p, s : s \in Seq(Msg(h)) => Go(H, p, s) = Go(h, p, s)
  BY <1>0, LongerGo
<1> HIDE DEF H
<1>8. Sent(H, x, me) = Sent(h, x, me)
  BY <1>5, <1>6, <1>7 DEF Sent
<1>9. Started(H, x, me) = Started(h, x, me)
  BY <1>5, <1>6, <1>7, <1>8 DEF Started
<1>10. Queued(H, x, me) = Queued(h, x, me)
  BY <1>5, <1>6, <1>7, <1>9 DEF Queued
<1>11. All(H, x, me, giv, inc) = All(h, x, me, giv, inc)
  BY <1>5, <1>6, <1>7, <1>10 DEF All
<1>12. Later(me.rv, r) \in 0 .. Len(h)
  BY <1>1 DEF Later
<1>13. /\ Sent(h, x, me).bad \subseteq 1 .. Len(h) /\ Started(h, x, me).bad \subseteq 1 .. Len(h)
       /\ Queued(h, x, me).bad \subseteq 1 .. Len(h) /\ All(h, x, me, giv, inc).bad \subseteq 1 .. Len(h)
  BY <1>0, Stages, LastStage
<1>14. ASSUME ~me.lostEdge PROVE Consistent(H, r, giv, inc, x, g, me)
  <2>1. Consistent(h, r, giv, inc, x, g, me)
    BY <1>14 DEF Fine
  <2>2. /\ Gapless(h, me.sel, g, Sent(h, x, me)) => Gapless(H, me.sel, g, Sent(h, x, me))
        /\ Gapless(h, me.sel, g, Queued(h, x, me)) => Gapless(H, me.sel, g, Queued(h, x, me))
    BY <1>0, <1>13, LongerUpToDate DEF H
  <2>3. UpToDate(h, me.sel, g, Later(me.rv, r), Started(h, x, me))
          => UpToDate(H, me.sel, g, Later(me.rv, r), Started(h, x, me))
    BY <1>0, <1>12, <1>13, LongerUpToDate DEF H
  <2>4. UpToDate(h, me.sel, g, Later(me.rv, r), All(h, x, me, giv, inc))
          => UpToDate(H, me.sel, g, Later(me.rv, r), All(h, x, me, giv, inc))
    BY <1>0, <1>12, <1>13, LongerUpToDate DEF H
  <2>5. QED
    BY <1>8, <1>9, <1>10, <1>11, <2>1, <2>2, <2>3, <2>4 DEF Consistent
<1>15. Right(H, me.sel, me.rv) = Right(h, me.sel, me.rv)
  BY <1>0, <1>1, LongerRight DEF H
<1>16. \A i \in 1 .. Len(me.hand) : Interested(H, me.sel, me.hand[i])
  BY <1>0, <1>1, LongerSeen DEF H, Fine
<1>17. QED
  BY <1>3, <1>4, <1>14, <1>15, <1>16 DEF Fine, H

\* The cache's next event goes to incoming (processEvent): nobody has the read
\* lock, so nobody waits to be registered.
LEMMA FineQueue ==
  ASSUME NEW h, History(h), NEW r \in Nat, r < Len(h), NEW giv \in Seq(Event(h)), NEW inc \in Seq(Event(h)),
         NEW x, NEW g, NEW me, Fine(h, r, giv, inc, x, g, me), me.at # "locked"
  PROVE  Fine(h, r + 1, giv, Append(inc, Ev(h, r + 1)), x, g, me)
<1> DEFINE e == Ev(h, r + 1)
           Q == All(h, x, me, giv, inc)
<1>1. h \in Seq(WriteType) /\ me \in WatcherType(h) /\ g \in Nat /\ me.rv \in Nat /\ Len(h) \in Nat
  BY DEF History, Fine, WatcherType
<1>2. e \in Event(h)
  <2>1. r + 1 \in 1 .. Len(h)
    BY <1>1
  <2>2. QED
    BY <1>1, <2>1, EvTyped
<1>3. All(h, x, me, giv, Append(inc, e)) = Go(h, Q, <<Sight(h, me.sel, me.rv, e)>>)
  BY <1>1, <1>2, SeenAppend DEF All
<1>4. Proper(Q)
  BY <1>1, LastStage
<1>5. ASSUME UpToDate(h, me.sel, g, Later(me.rv, r), Q)
      PROVE  UpToDate(h, me.sel, g, Later(me.rv, r + 1), All(h, x, me, giv, Append(inc, e)))
  BY <1>1, <1>3, <1>4, <1>5, SeesNext
<1>6. QED
  BY <1>5 DEF Fine, Consistent

\* The dispatcher takes the head of incoming and gives it to the watchers that
\* Targets selects (wanted); the others would not have seen it.
LEMMA FineDispatch ==
  ASSUME NEW h, History(h), NEW r, NEW inc \in Seq(Event(h)), inc # <<>>,
         NEW x, NEW g, NEW me, Fine(h, r, <<>>, inc, x, g, me), NEW giv,
         IF me.listed /\ (me.sel = Everything \/ me.sel \in {h[n].value : n \in {Head(inc).obj, Head(inc).prev} \ {None}})
         THEN giv = <<Head(inc)>> ELSE giv = <<>>,
         me.at = "locked" => giv = <<>>
  PROVE  Fine(h, r, giv, Tail(inc), x, g, me)
<1> DEFINE e == Head(inc)
           c == Sight(h, me.sel, me.rv, e)
           Q == Queued(h, x, me)
<1>1. h \in Seq(WriteType) /\ me \in WatcherType(h) /\ e \in Event(h) /\ Tail(inc) \in Seq(Event(h))
  BY DEF History, Fine
<1>2. Proper(Q)
  BY <1>1, Stages
<1> HIDE DEF Q
<1>3. All(h, x, me, <<>>, inc) = Go(h, Go(h, Q, <<c>>), Seen(h, me.sel, me.rv, Tail(inc)))
  <2>1. Go(h, Q, Seen(h, me.sel, me.rv, <<>>)) = Q
    BY <1>1, <1>2, SeenEmpty, GoNothing
  <2>2. Go(h, Q, Seen(h, me.sel, me.rv, inc)) = Go(h, Go(h, Q, <<c>>), Seen(h, me.sel, me.rv, Tail(inc)))
    BY <1>1, SeenHead
  <2>3. QED
    BY <2>1, <2>2 DEF All, Q
<1>4. ASSUME me.listed PROVE All(h, x, me, giv, Tail(inc)) = All(h, x, me, <<>>, inc)
  <2>1. CASE giv = <<e>>
    <3>1. Seen(h, me.sel, me.rv, giv) = <<c>>
      BY <1>1, <2>1, SeenOne
    <3>2. QED
      BY <1>3, <3>1 DEF All, Q
  <2>2. CASE giv = <<>> /\ me.sel # Everything
             /\ me.sel \notin {h[n].value : n \in {e.obj, e.prev} \ {None}}
    <3>1. ~Selects(h, me.sel, e.obj) /\ ~Selects(h, me.sel, e.prev)
      BY <2>2 DEF Selects
    <3>2. ~Interested(h, me.sel, e)
      BY <3>1 DEF Interested, curObjPasses, oldObjPasses
    <3>3. c = Nothing
      BY <3>2 DEF Sight
    <3>4. Go(h, Q, <<c>>) = Q
      BY <1>2, <3>3, GoNothing
    <3>5. Go(h, Q, Seen(h, me.sel, me.rv, giv)) = Q
      BY <1>1, <1>2, <2>2, SeenEmpty, GoNothing
    <3>6. QED
      BY <1>3, <3>4, <3>5 DEF All, Q
  <2>3. QED
    BY <1>4, <2>1, <2>2
<1>5. QED
  BY <1>4 DEF Fine, Consistent

\* add puts the event in the watcher's input.
LEMMA FineAdd ==
  ASSUME NEW h, History(h), NEW r, NEW inc \in Seq(Event(h)), NEW e \in Event(h),
         NEW x, NEW g, NEW me, Fine(h, r, <<e>>, inc, x, g, me), me.listed
  PROVE  Fine(h, r, <<>>, inc, x, g, [me EXCEPT !.input = Append(@, e)])
<1> DEFINE m == [me EXCEPT !.input = Append(@, e)]
           c == Sight(h, me.sel, me.rv, e)
<1>1. h \in Seq(WriteType) /\ me \in WatcherType(h) /\ <<e>> \in Seq(Event(h)) /\ Shape(me)
  BY DEF History, Fine
<1>2. me.input \in Seq(Event(h)) /\ Append(me.input, e) \in Seq(Event(h))
  BY <1>1 DEF WatcherType
<1>3. m \in WatcherType(h)
  BY <1>1, <1>2 DEF WatcherType
<1>4. /\ m.at = me.at /\ m.listed = me.listed /\ m.done = me.done /\ m.sel = me.sel /\ m.rv = me.rv
      /\ m.lostEdge = me.lostEdge /\ m.init = me.init /\ m.hand = me.hand /\ m.result = me.result
      /\ m.input = Append(me.input, e)
  BY <1>1 DEF WatcherType
<1>5. me.at = "running" /\ ~me.done
  BY <1>1 DEF Shape
<1> HIDE DEF m
<1>6. Sent(h, x, m) = Sent(h, x, me) /\ Started(h, x, m) = Started(h, x, me)
  BY <1>4 DEF Sent, Started
<1>7. Queued(h, x, m) = Go(h, Queued(h, x, me), <<c>>)
  BY <1>1, <1>2, <1>4, <1>6, SeenAppend DEF Queued
<1>8. Queued(h, x, m) = Go(h, Queued(h, x, me), Seen(h, me.sel, me.rv, <<e>>))
  BY <1>1, <1>7, SeenOne
<1>9. All(h, x, m, <<>>, inc) = All(h, x, me, <<e>>, inc)
  <2>1. Go(h, Queued(h, x, m), Seen(h, me.sel, me.rv, <<>>)) = Queued(h, x, m)
    BY <1>1, <1>3, Stages, SeenEmpty, GoNothing
  <2>2. QED
    BY <1>4, <1>8, <2>1 DEF All
<1>10. Shape(m)
  BY <1>1, <1>4, <1>5 DEF Shape
<1>11. ASSUME ~me.lostEdge PROVE Consistent(h, r, <<>>, inc, x, g, m)
  <2>1. Consistent(h, r, <<e>>, inc, x, g, me)
    BY <1>11 DEF Fine
  <2>2. UpToDate(h, me.sel, g, Later(me.rv, r), All(h, x, m, <<>>, inc))
    BY <1>9, <2>1 DEF Consistent
  <2>3. <<>> \in Seq(Event(h))
    OBVIOUS
  <2>4. Gapless(h, me.sel, g, All(h, x, m, <<>>, inc))
    BY <2>2 DEF UpToDate
  <2>5. Gapless(h, me.sel, g, Queued(h, x, m))
    BY <1>1, <1>3, <2>3, <2>4, LastStage, GaplessBefore
  <2>6. QED
    BY <1>4, <1>5, <1>6, <2>1, <2>2, <2>5 DEF Consistent
<1>12. QED
  BY <1>3, <1>4, <1>5, <1>10, <1>11 DEF Fine, m

\* A watcher is taken out of the maps (Stop), or that and stopped
\* (terminateAll, and add's timeout), or stopped when it is not in the maps
\* (stop): what was to come need not come any more.
LEMMA FineStop ==
  ASSUME NEW h, NEW r, NEW giv, NEW inc, NEW x, NEW g, NEW me, Fine(h, r, giv, inc, x, g, me),
         me.at = "running", NEW d \in BOOLEAN, me.done => d,
         NEW giv2
  PROVE  Fine(h, r, giv2, inc, x, g, [me EXCEPT !.listed = FALSE, !.done = d])
<1> DEFINE m == [me EXCEPT !.listed = FALSE, !.done = d]
<1>1. me \in WatcherType(h) /\ Shape(me)
  BY DEF Fine
<1>2. m \in WatcherType(h)
  BY <1>1 DEF WatcherType
<1>3. /\ m.at = me.at /\ m.sel = me.sel /\ m.rv = me.rv
      /\ m.lostEdge = me.lostEdge /\ m.init = me.init /\ m.hand = me.hand /\ m.result = me.result
      /\ m.input = me.input /\ m.done = d
  BY <1>1 DEF WatcherType
<1>4. ~m.listed
  BY <1>1 DEF WatcherType
<1> HIDE DEF m
<1>5. Sent(h, x, m) = Sent(h, x, me) /\ Queued(h, x, m) = Queued(h, x, me)
  BY <1>3 DEF Sent, Started, Queued
<1>6. Shape(m)
  BY <1>1, <1>3, <1>4 DEF Shape
<1>7. QED
  BY <1>2, <1>3, <1>4, <1>5, <1>6 DEF Fine, Consistent, m

\* A call of Watch: the client has the state of the version it asks for.
LEMMA FineWatch ==
  ASSUME NEW h, History(h), NEW r, NEW giv, NEW inc, NEW x, NEW g, NEW me,
         Fine(h, r, giv, inc, x, g, me), me.at = "idle", NEW rv \in 0 .. Len(h), NEW sel \in Selectors
  PROVE  Fine(h, r, giv, inc, Right(h, sel, rv), rv, [me EXCEPT !.at = "called", !.rv = rv, !.sel = sel])
<1> DEFINE m == [me EXCEPT !.at = "called", !.rv = rv, !.sel = sel]
<1>1. me \in WatcherType(h) /\ Shape(me)
  BY DEF Fine
<1>2. m \in WatcherType(h)
  BY <1>1 DEF WatcherType
<1>3. /\ m.at = "called" /\ m.rv = rv /\ m.sel = sel
      /\ m.listed = me.listed /\ m.done = me.done
      /\ m.init = me.init /\ m.hand = me.hand /\ m.result = me.result /\ m.input = me.input
  BY <1>1 DEF WatcherType
<1> HIDE DEF m
<1>4. Shape(m) /\ ~m.listed /\ m.hand = <<>>
  BY <1>1, <1>3 DEF Shape
<1>5. Right(h, sel, rv) = [k \in Keys |-> Right(h, sel, rv)[k]]
  BY RightShape
<1>6. Consistent(h, r, giv, inc, Right(h, sel, rv), rv, m)
  BY <1>3, <1>4 DEF Consistent
<1>7. QED
  BY <1>2, <1>3, <1>4, <1>5, <1>6 DEF Fine, m

\* The version is gone, and the call ends with an error.
LEMMA FineGone ==
  ASSUME NEW h, History(h), NEW r, NEW giv, NEW inc
  PROVE  Fine(h, r, giv, inc, [k \in Keys |-> None], 0, [NewWatcher EXCEPT !.at = "gone"])
<1> DEFINE m == [NewWatcher EXCEPT !.at = "gone"]
<1>1. Len(h) \in Nat /\ <<>> \in Seq(Event(h)) /\ <<>> \in Seq(Letter(h))
  BY DEF History
<1>2. NewWatcher \in WatcherType(h)
  BY <1>1 DEF WatcherType, NewWatcher
<1>3. /\ ~NewWatcher.listed /\ ~NewWatcher.done
      /\ NewWatcher.init = <<>> /\ NewWatcher.hand = <<>>
      /\ NewWatcher.input = <<>> /\ NewWatcher.result = <<>>
  BY DEF NewWatcher
<1>4. m \in WatcherType(h)
  BY <1>2 DEF WatcherType
<1>5. /\ m.at = "gone" /\ m.listed = NewWatcher.listed /\ m.done = NewWatcher.done
      /\ m.init = NewWatcher.init /\ m.hand = NewWatcher.hand
      /\ m.input = NewWatcher.input /\ m.result = NewWatcher.result
  BY <1>2 DEF WatcherType
<1> HIDE DEF m
<1>6. Shape(m) /\ ~m.listed /\ m.hand = <<>>
  BY <1>3, <1>5 DEF Shape
<1>7. Consistent(h, r, giv, inc, [k \in Keys |-> None], 0, m)
  BY <1>5, <1>6 DEF Consistent
<1>8. QED
  BY <1>1, <1>4, <1>5, <1>6, <1>7 DEF Fine, m

\* A watcher that is registered when nothing is being dispatched sees again what
\* is in incoming, and stays up to date.
LEMMA Registered ==
  ASSUME NEW h, History(h), NEW r \in Nat, NEW inc, Len(inc) <= r, RunFrom(h, r - Len(inc), inc),
         NEW x, NEW g \in Nat, NEW me \in WatcherType(h), me.input = <<>>,
         UpToDate(h, me.sel, g, Later(me.rv, r), Started(h, x, me))
  PROVE  /\ UpToDate(h, me.sel, g, Later(me.rv, r), All(h, x, me, <<>>, inc))
         /\ Queued(h, x, me) = Started(h, x, me)
<1>1. h \in Seq(WriteType) /\ me.rv \in Nat /\ inc \in Seq(Event(h)) /\ Len(inc) \in Nat
  BY DEF History, WatcherType, RunFrom
<1>2. Proper(Started(h, x, me))
  BY <1>1, Stages
<1>3. Queued(h, x, me) = Started(h, x, me)
  BY <1>1, <1>2, SeenEmpty, GoNothing DEF Queued
<1>4. All(h, x, me, <<>>, inc) = Go(h, Started(h, x, me), Seen(h, me.sel, me.rv, inc))
  BY <1>1, <1>2, <1>3, SeenEmpty, GoNothing DEF All
<1>5. (r - Len(inc)) + Len(inc) = r
  BY <1>1
<1> DEFINE b == r - Len(inc)
<1>6. RunFrom(h, b, inc) /\ b + Len(inc) = r
  BY <1>5
<1> HIDE DEF b
<1>7. UpToDate(h, me.sel, g, Later(me.rv, r), Go(h, Started(h, x, me), Seen(h, me.sel, me.rv, inc)))
  BY <1>1, <1>2, <1>6, SeenAgain
<1>8. QED
  BY <1>3, <1>4, <1>7

\* GetAllEventsSinceThreadUnsafe, and then addWatcher or the wait for the lock.
LEMMA FineGetEvents ==
  ASSUME NEW h, History(h), NEW r \in Nat, NEW inc, Len(inc) <= r, RunFrom(h, r - Len(inc), inc),
         NEW x, NEW g, NEW me, Fine(h, r, <<>>, inc, x, g, me), me.at = "called",
         NEW events \in Seq(Event(h)), NEW free \in BOOLEAN, NEW edge \in BOOLEAN, NEW g2 \in 0 .. Len(h),
         ~edge => UpToDate(h, me.sel, g2, Later(me.rv, r), Go(h, Client0(x), Seen(h, me.sel, 0, events))),
         NEW giv, free => giv = <<>>
  PROVE  Fine(h, r, giv, inc, x, g2,
              [me EXCEPT !.init = events, !.listed = free,
                         !.at = IF free THEN "running" ELSE "locked", !.lostEdge = edge])
<1> DEFINE m == [me EXCEPT !.init = events, !.listed = free,
                           !.at = IF free THEN "running" ELSE "locked", !.lostEdge = edge]
<1>1. /\ h \in Seq(WriteType) /\ me \in WatcherType(h) /\ Shape(me) /\ x = [k \in Keys |-> x[k]]
      /\ Len(h) \in Nat /\ g2 \in Nat
  BY DEF History, Fine
<1>2. m \in WatcherType(h)
  BY <1>1 DEF WatcherType
<1>3. /\ m.at = (IF free THEN "running" ELSE "locked") /\ m.rv = me.rv /\ m.sel = me.sel
      /\ m.listed = free /\ m.done = me.done /\ m.lostEdge = edge
      /\ m.init = events /\ m.hand = me.hand /\ m.result = me.result /\ m.input = me.input
  BY <1>1 DEF WatcherType
<1> HIDE DEF m
<1>4. ~me.done /\ me.hand = <<>> /\ me.result = <<>> /\ me.input = <<>>
  BY <1>1 DEF Shape
<1>5. Shape(m)
  BY <1>3, <1>4 DEF Shape
<1>6. Proper(Client0(x))
  BY <1>1 DEF Proper, Client0
<1>7. Sent(h, x, m) = Client0(x)
  BY <1>1, <1>3, <1>4, <1>6, SeenEmpty, GoNothing DEF Sent
<1>8. Started(h, x, m) = Go(h, Client0(x), Seen(h, me.sel, 0, events))
  BY <1>3, <1>7 DEF Started
<1>9. ASSUME ~edge PROVE Consistent(h, r, giv, inc, x, g2, m)
  <2>1. UpToDate(h, m.sel, g2, Later(m.rv, r), Started(h, x, m))
    BY <1>3, <1>8, <1>9
  <2>2. /\ UpToDate(h, m.sel, g2, Later(m.rv, r), All(h, x, m, <<>>, inc))
        /\ Queued(h, x, m) = Started(h, x, m)
    BY <1>1, <1>2, <1>3, <1>4, <2>1, Registered
  <2>3. Gapless(h, m.sel, g2, Sent(h, x, m))
    BY <1>7 DEF Gapless, Client0
  <2>4. QED
    BY <1>3, <2>1, <2>2, <2>3 DEF Consistent, UpToDate
<1>10. \A i \in 1 .. Len(m.hand) : Interested(h, m.sel, m.hand[i])
  BY <1>3, <1>4
<1>11. QED
  BY <1>1, <1>2, <1>3, <1>5, <1>9, <1>10 DEF Fine, m

\* It gets the lock.
LEMMA FineRegister ==
  ASSUME NEW h, History(h), NEW r \in Nat, NEW inc, Len(inc) <= r, RunFrom(h, r - Len(inc), inc),
         NEW x, NEW g, NEW me, Fine(h, r, <<>>, inc, x, g, me), me.at = "locked"
  PROVE  Fine(h, r, <<>>, inc, x, g, [me EXCEPT !.at = "running", !.listed = TRUE])
<1> DEFINE m == [me EXCEPT !.at = "running", !.listed = TRUE]
<1>1. h \in Seq(WriteType) /\ me \in WatcherType(h) /\ Shape(me) /\ Len(h) \in Nat /\ g \in Nat
  BY DEF History, Fine
<1>2. m \in WatcherType(h)
  BY <1>1 DEF WatcherType
<1>3. /\ m.at = "running" /\ m.rv = me.rv /\ m.sel = me.sel
      /\ m.done = me.done /\ m.lostEdge = me.lostEdge
      /\ m.init = me.init /\ m.hand = me.hand /\ m.result = me.result /\ m.input = me.input
  BY <1>1 DEF WatcherType
<1> HIDE DEF m
<1>4. ~me.done /\ me.hand = <<>> /\ me.input = <<>>
  BY <1>1 DEF Shape
<1>5. Shape(m)
  BY <1>3, <1>4 DEF Shape
<1>6. Started(h, x, m) = Started(h, x, me)
  BY <1>3 DEF Started, Sent
<1>7. ASSUME ~me.lostEdge PROVE Consistent(h, r, <<>>, inc, x, g, m)
  <2>1. UpToDate(h, m.sel, g, Later(m.rv, r), Started(h, x, m))
    BY <1>3, <1>6, <1>7 DEF Fine, Consistent
  <2>2. /\ UpToDate(h, m.sel, g, Later(m.rv, r), All(h, x, m, <<>>, inc))
        /\ Queued(h, x, m) = Started(h, x, m)
    <3>1. m.input = <<>> /\ g \in Nat
      BY <1>1, <1>3, <1>4
    <3>2. QED
      BY <1>2, <2>1, <3>1, Registered
  <2>3. Gapless(h, m.sel, g, Queued(h, x, m))
    BY <2>1, <2>2 DEF UpToDate
  <2>4. Gapless(h, m.sel, g, Sent(h, x, m))
    BY <1>1, <1>2, <2>2, <2>3, Stages, GaplessBefore
  <2>5. QED
    BY <1>3, <2>2, <2>3, <2>4 DEF Consistent
<1>8. QED
  BY <1>2, <1>3, <1>5, <1>7 DEF Fine, m

\* The client reads the next message.
LEMMA FineReceive ==
  ASSUME NEW h, History(h), NEW r \in Nat, NEW giv \in Seq(Event(h)), NEW inc \in Seq(Event(h)),
         NEW x, NEW g, NEW me, Fine(h, r, giv, inc, x, g, me), me.result # <<>>
  PROVE  Fine(h, r, giv, inc, After(h, x, <<Head(me.result)>>),
              IF Head(me.result).rv > g THEN Head(me.result).rv ELSE g,
              [me EXCEPT !.result = Tail(@)])
<1> DEFINE m == [me EXCEPT !.result = Tail(@)]
           e == Head(me.result)
           y == After(h, x, <<e>>)
           d == IF e.rv > g THEN e.rv ELSE g
<1>1. h \in Seq(WriteType) /\ me \in WatcherType(h) /\ Shape(me) /\ Len(h) \in Nat /\ g \in 0 .. Len(h)
  BY DEF History, Fine
<1>2. me.result \in Seq(Letter(h)) /\ me.rv \in Nat
  BY <1>1 DEF WatcherType
<1>3. e \in Letter(h) /\ Tail(me.result) \in Seq(Letter(h))
  BY <1>2
<1>4. e.rv \in 1 .. Len(h)
  BY <1>3 DEF Letter
<1>5. m \in WatcherType(h)
  BY <1>1, <1>3 DEF WatcherType
<1>6. /\ m.at = me.at /\ m.listed = me.listed /\ m.done = me.done /\ m.sel = me.sel /\ m.rv = me.rv
      /\ m.lostEdge = me.lostEdge /\ m.init = me.init /\ m.hand = me.hand /\ m.input = me.input
      /\ m.result = Tail(me.result)
  BY <1>1 DEF WatcherType
<1> HIDE DEF m
<1>7. me.at \in {"running", "closed"}
  BY <1>1 DEF Shape, WatcherType
<1>8. Shape(m)
  BY <1>1, <1>6, <1>7 DEF Shape
<1>9. Alike(e.rv, Go(h, Client0(x), <<e>>), Client0(y))
  BY <1>1, <1>4, ReceivedAlike
<1>10. Go(h, Client0(x), me.result) = Go(h, Go(h, Client0(x), <<e>>), Tail(me.result))
  BY <1>2, GoHead
<1> HIDE DEF e, y
<1>11. Alike(e.rv, Go(h, Client0(x), me.result), Go(h, Client0(y), Tail(me.result)))
  BY <1>9, <1>10, GoAlike
<1>12. Alike(e.rv, Sent(h, x, me), Sent(h, y, m))
  BY <1>6, <1>11, GoAlike DEF Sent
<1>13. Alike(e.rv, Started(h, x, me), Started(h, y, m))
  BY <1>6, <1>12, GoAlike DEF Started
<1>14. Alike(e.rv, Queued(h, x, me), Queued(h, y, m))
  BY <1>6, <1>13, GoAlike DEF Queued
<1>15. Alike(e.rv, All(h, x, me, giv, inc), All(h, y, m, giv, inc))
  <2>1. Alike(e.rv, Go(h, Queued(h, x, me), Seen(h, me.sel, me.rv, giv)),
                    Go(h, Queued(h, y, m), Seen(h, me.sel, me.rv, giv)))
    BY <1>14, GoAlike
  <2>2. QED
    BY <1>6, <2>1, GoAlike DEF All
<1>16. /\ Sent(h, y, m).bad \subseteq Nat /\ Queued(h, y, m).bad \subseteq Nat
       /\ All(h, y, m, giv, inc).bad \subseteq Nat
  <2>1. 1 .. Len(h) \subseteq Nat
    BY <1>1
  <2>2. QED
    BY <1>1, <1>5, <2>1, Stages, LastStage
<1>17. g \in Nat /\ e.rv \in Nat /\ Later(me.rv, r) \in Nat /\ d \in 0 .. Len(h)
  BY <1>1, <1>2, <1>4 DEF Later
<1>18. ASSUME ~me.lostEdge PROVE Consistent(h, r, giv, inc, y, d, m)
  <2>1. Consistent(h, r, giv, inc, x, g, me)
    BY <1>18 DEF Fine
  <2>2. Gapless(h, me.sel, g, Sent(h, x, me)) => Gapless(h, me.sel, d, Sent(h, y, m))
    BY <1>12, <1>16, <1>17, AlikeGapless
  <2>3. Gapless(h, me.sel, g, Queued(h, x, me)) => Gapless(h, me.sel, d, Queued(h, y, m))
    BY <1>14, <1>16, <1>17, AlikeGapless
  <2>4. UpToDate(h, me.sel, g, Later(me.rv, r), All(h, x, me, giv, inc))
          => UpToDate(h, me.sel, d, Later(me.rv, r), All(h, y, m, giv, inc))
    BY <1>15, <1>16, <1>17, AlikeUpToDate
  <2>5. QED
    BY <1>6, <1>7, <2>1, <2>2, <2>3, <2>4 DEF Consistent
<1>19. y = [k \in Keys |-> y[k]]
  BY DEF y, After
<1>20. m.at # "called" /\ \A i \in 1 .. Len(m.hand) : Interested(h, m.sel, m.hand[i])
  BY <1>6, <1>7 DEF Fine
<1>21. QED
  BY <1>5, <1>6, <1>8, <1>17, <1>18, <1>19, <1>20 DEF Fine, m, e, y

\* sendWatchCacheEvent, by a watcher that is not stopped, with room in result or
\* without.
SendBy(h, me, e) ==
  IF ~Interested(h, me.sel, e) THEN me
  ELSE IF HasRoom(me) THEN [me EXCEPT !.result = Append(@, Converted(h, me.sel, e))]
  ELSE [me EXCEPT !.hand = <<e>>]

\* The watcher is the same but for what it has sent and has in hand.
Sending(h, me, m) ==
  /\ m \in WatcherType(h) /\ Len(m.hand) <= 1
  /\ m.at = me.at /\ m.listed = me.listed /\ m.done = me.done /\ m.sel = me.sel /\ m.rv = me.rv
  /\ m.lostEdge = me.lostEdge
  /\ \A i \in 1 .. Len(m.hand) : Interested(h, m.sel, m.hand[i])

\* The event joins what is sent.
LEMMA SendEffect ==
  ASSUME NEW h \in Seq(WriteType), NEW me \in WatcherType(h), me.hand = <<>>, NEW e \in Event(h),
         NEW x
  PROVE  /\ Sending(h, me, SendBy(h, me, e))
         /\ SendBy(h, me, e).init = me.init /\ SendBy(h, me, e).input = me.input
         /\ Sent(h, x, SendBy(h, me, e)) = Go(h, Sent(h, x, me), <<Sight(h, me.sel, 0, e)>>)
<1> DEFINE m == SendBy(h, me, e)
           c == Converted(h, me.sel, e)
           P == Go(h, Client0(x), me.result)
<1> SUFFICES /\ Sending(h, me, m) /\ m.init = me.init /\ m.input = me.input
             /\ Sent(h, x, m) = Go(h, Sent(h, x, me), <<Sight(h, me.sel, 0, e)>>)
  OBVIOUS
<1> HIDE DEF m
<1>1. e.rv > 0 /\ <<e>> \in Seq(Event(h)) /\ c \in Letter(h) /\ c \in Msg(h)
  BY SightTyped DEF Event, Msg
<1>2. me.result \in Seq(Letter(h)) /\ me.result \in Seq(Msg(h))
  BY LettersAreMsgs DEF WatcherType
<1>3. Proper(P) /\ Sent(h, x, me) = P
  BY GoProper, GoNothing, SeenEmpty DEF Sent
<1>4. CASE ~Interested(h, me.sel, e)
  <2>1. Sight(h, me.sel, 0, e) = Nothing /\ m = me
    BY <1>4 DEF Sight, SendBy, m
  <2>2. QED
    BY <1>3, <2>1, GoNothing DEF Sending
<1>5. CASE Interested(h, me.sel, e) /\ HasRoom(me)
  <2>1. Sight(h, me.sel, 0, e) = c
    BY <1>1, <1>5 DEF Sight
  <2>2. m = [me EXCEPT !.result = Append(@, c)] /\ Append(me.result, c) \in Seq(Letter(h))
    BY <1>1, <1>2, <1>5 DEF SendBy, m
  <2> HIDE DEF c
  <2>3. /\ m \in WatcherType(h)
        /\ m.at = me.at /\ m.listed = me.listed /\ m.done = me.done /\ m.sel = me.sel /\ m.rv = me.rv
        /\ m.lostEdge = me.lostEdge /\ m.init = me.init /\ m.input = me.input
        /\ m.hand = <<>> /\ m.result = Append(me.result, c)
    BY <2>2 DEF WatcherType
  <2>4. Sent(h, x, m) = Go(h, Client0(x), Append(me.result, c))
    BY <2>3, GoProper, GoNothing, SeenEmpty DEF Sent
  <2>5. Go(h, Client0(x), Append(me.result, c)) = Go(h, P, <<c>>)
    BY <1>1, <1>2, GoAppend
  <2>6. QED
    BY <1>3, <2>1, <2>3, <2>4, <2>5 DEF Sending
<1>6. CASE Interested(h, me.sel, e) /\ ~HasRoom(me)
  <2>1. m = [me EXCEPT !.hand = <<e>>]
    BY <1>6 DEF SendBy, m
  <2>2. /\ m \in WatcherType(h)
        /\ m.at = me.at /\ m.listed = me.listed /\ m.done = me.done /\ m.sel = me.sel /\ m.rv = me.rv
        /\ m.lostEdge = me.lostEdge /\ m.init = me.init /\ m.input = me.input
        /\ m.hand = <<e>> /\ m.result = me.result
    BY <1>1, <2>1 DEF WatcherType
  <2>3. Sent(h, x, m) = Go(h, P, <<Sight(h, me.sel, 0, e)>>)
    BY <2>2, SeenOne DEF Sent
  <2>4. Len(m.hand) = 1 /\ m.hand[1] = e
    BY <2>2
  <2>5. QED
    BY <1>3, <1>6, <2>2, <2>3, <2>4 DEF Sending
<1>7. QED
  BY <1>4, <1>5, <1>6

\* The queues without the event that process takes.
RestInit(me) == [me EXCEPT !.init = Tail(@)]
RestInput(me) == [me EXCEPT !.input = Tail(@)]

\* A stopped watcher goes on with less in its queues: what is sent is the same.
LEMMA FineDrained ==
  ASSUME NEW h, History(h), NEW r, NEW giv, NEW inc, NEW x, NEW g, NEW me, Fine(h, r, giv, inc, x, g, me),
         me.at = "running", me.done, NEW m \in WatcherType(h),
         m.at \in {"running", "closed"}, m.listed = me.listed, m.done = me.done, m.sel = me.sel, m.rv = me.rv,
         m.lostEdge = me.lostEdge, m.hand = me.hand, m.result = me.result
  PROVE  Fine(h, r, giv, inc, x, g, m)
<1>1. ~me.listed /\ ~m.listed /\ Shape(m)
  BY DEF Fine, Shape
<1>2. Sent(h, x, m) = Sent(h, x, me)
  BY DEF Sent
<1>3. ASSUME ~me.lostEdge PROVE Gapless(h, m.sel, g, Sent(h, x, m))
  BY <1>2, <1>3 DEF Fine, Consistent
<1>4. QED
  BY <1>1, <1>3 DEF Fine, Consistent

\* A watcher that is not stopped moves an event on towards its client: all that
\* is queued stays as it was.
LEMMA FineMoved ==
  ASSUME NEW h, History(h), NEW r, NEW giv \in Seq(Event(h)), NEW inc \in Seq(Event(h)), NEW x, NEW g, NEW me,
         Fine(h, r, giv, inc, x, g, me), me.at = "running", ~me.done, NEW m, Sending(h, me, m),
         Queued(h, x, m) = Queued(h, x, me)
  PROVE  Fine(h, r, giv, inc, x, g, m)
<1>0. /\ m \in WatcherType(h) /\ m.at = me.at /\ m.listed = me.listed /\ m.done = me.done
      /\ m.sel = me.sel /\ m.rv = me.rv /\ m.lostEdge = me.lostEdge
      /\ \A i \in 1 .. Len(m.hand) : Interested(h, m.sel, m.hand[i])
  BY DEF Sending
<1>1. Shape(m) /\ h \in Seq(WriteType)
  BY DEF Fine, Shape, History, Sending
<1>2. All(h, x, m, giv, inc) = All(h, x, me, giv, inc)
  BY <1>0 DEF All
<1>3. ASSUME ~me.lostEdge PROVE Consistent(h, r, giv, inc, x, g, m)
  <2>1. Consistent(h, r, giv, inc, x, g, me)
    BY <1>3 DEF Fine
  <2>2. Gapless(h, m.sel, g, Queued(h, x, m))
    BY <1>0, <2>1 DEF Consistent
  <2>3. Gapless(h, m.sel, g, Sent(h, x, m))
    <3>1. Sent(h, x, m).bad \subseteq Queued(h, x, m).bad
      BY <1>0, <1>1, Stages
    <3>2. QED
      BY <2>2, <3>1, GaplessBefore
  <2>4. QED
    BY <1>0, <1>2, <2>1, <2>2, <2>3 DEF Consistent
<1>4. QED
  BY <1>0, <1>1, <1>3 DEF Fine

\* process takes the next of the initial events.
LEMMA FineInit ==
  ASSUME NEW h, History(h), NEW r, NEW giv \in Seq(Event(h)), NEW inc \in Seq(Event(h)), NEW x, NEW g, NEW me,
         Fine(h, r, giv, inc, x, g, me), me.at = "running", me.hand = <<>>, me.init # <<>>,
         NEW base, base = RestInit(me), NEW m,
         m = IF me.done THEN base ELSE SendBy(h, base, Head(me.init))
  PROVE  Fine(h, r, giv, inc, x, g, m)
<1> DEFINE e == Head(me.init)
<1>1. h \in Seq(WriteType) /\ me \in WatcherType(h)
  BY DEF History, Fine
<1>2. me.init \in Seq(Event(h)) /\ e \in Event(h) /\ Tail(me.init) \in Seq(Event(h))
  BY <1>1 DEF WatcherType
<1>3. /\ base \in WatcherType(h)
      /\ base.at = me.at /\ base.listed = me.listed /\ base.done = me.done /\ base.sel = me.sel
      /\ base.rv = me.rv /\ base.lostEdge = me.lostEdge /\ base.init = Tail(me.init)
      /\ base.hand = me.hand /\ base.input = me.input /\ base.result = me.result
  BY <1>1, <1>2 DEF WatcherType, RestInit
<1>30. Go(h, Sent(h, x, me), Seen(h, me.sel, 0, me.init))
         = Go(h, Go(h, Sent(h, x, me), <<Sight(h, me.sel, 0, e)>>), Seen(h, me.sel, 0, Tail(me.init)))
  <2> DEFINE s == me.init
             z == 0
  <2>1. s \in Seq(Event(h)) /\ s # <<>>
    BY <1>2
  <2> HIDE DEF s, z
  <2>2. Go(h, Sent(h, x, me), Seen(h, me.sel, z, s))
          = Go(h, Go(h, Sent(h, x, me), <<Sight(h, me.sel, z, Head(s))>>), Seen(h, me.sel, z, Tail(s)))
    BY <1>1, <2>1, SeenHead
  <2>3. QED
    BY <2>2 DEF s, z
<1>4. CASE me.done
  <2>1. m = base
    BY <1>3, <1>4
  <2>2. QED
    BY <1>3, <1>4, <2>1, FineDrained
<1>5. CASE ~me.done
  <2>1. m = SendBy(h, base, e)
    BY <1>5
  <2> HIDE DEF e
  <2>2. base.hand = <<>>
    BY <1>3
  <2>3. /\ Sending(h, base, m) /\ m.init = base.init /\ m.input = base.input
        /\ Sent(h, x, m) = Go(h, Sent(h, x, base), <<Sight(h, base.sel, 0, e)>>)
    <3>1. h \in Seq(WriteType) /\ base \in WatcherType(h) /\ e \in Event(h)
      BY <1>1, <1>2, <1>3
    <3> DEFINE b == SendBy(h, base, e)
    <3>2. /\ Sending(h, base, b) /\ b.init = base.init /\ b.input = base.input
          /\ Sent(h, x, b) = Go(h, Sent(h, x, base), <<Sight(h, base.sel, 0, e)>>)
      BY <2>2, <3>1, SendEffect
    <3> HIDE DEF b
    <3>3. m = b
      BY <2>1 DEF b
    <3>4. QED
      BY <3>2, <3>3
  <2>4. Sent(h, x, base) = Sent(h, x, me)
    BY <1>3 DEF Sent
  <2>45. Sending(h, me, m) /\ m.sel = me.sel /\ m.rv = me.rv
    BY <1>3, <2>3 DEF Sending
  <2>5. Started(h, x, m) = Started(h, x, me)
    BY <1>3, <1>30, <2>3, <2>4, <2>45 DEF Started
  <2>6. Queued(h, x, m) = Queued(h, x, me)
    BY <1>3, <2>3, <2>45, <2>5 DEF Queued
  <2>7. QED
    BY <1>5, <2>45, <2>6, FineMoved
<1>6. QED
  BY <1>4, <1>5

\* process takes the next event of the input, if it is newer than what was asked
\* for.
LEMMA FineInput ==
  ASSUME NEW h, History(h), NEW r, NEW giv \in Seq(Event(h)), NEW inc \in Seq(Event(h)), NEW x, NEW g, NEW me,
         Fine(h, r, giv, inc, x, g, me), me.at = "running", me.hand = <<>>, me.init = <<>>, me.input # <<>>,
         NEW base, base = RestInput(me), NEW m,
         m = IF Head(me.input).rv > me.rv
             THEN IF me.done THEN base ELSE SendBy(h, base, Head(me.input))
             ELSE base
  PROVE  Fine(h, r, giv, inc, x, g, m)
<1> DEFINE e == Head(me.input)
<1>1. h \in Seq(WriteType) /\ me \in WatcherType(h)
  BY DEF History, Fine
<1>2. me.input \in Seq(Event(h)) /\ e \in Event(h) /\ Tail(me.input) \in Seq(Event(h))
  BY <1>1 DEF WatcherType
<1>3. /\ base \in WatcherType(h)
      /\ base.at = me.at /\ base.listed = me.listed /\ base.done = me.done /\ base.sel = me.sel
      /\ base.rv = me.rv /\ base.lostEdge = me.lostEdge /\ base.init = me.init
      /\ base.hand = me.hand /\ base.input = Tail(me.input) /\ base.result = me.result
  BY <1>1, <1>2 DEF WatcherType, RestInput
<1>4. CASE me.done
  <2>1. m = base
    BY <1>3, <1>4
  <2>2. QED
    BY <1>3, <1>4, <2>1, FineDrained
<1>5. ASSUME NEW n \in WatcherType(h), n.sel = me.sel, n.rv = me.rv, n.init = <<>>, n.input = Tail(me.input),
             Sent(h, x, n) = Go(h, Sent(h, x, me), <<Sight(h, me.sel, me.rv, e)>>)
      PROVE  Queued(h, x, n) = Queued(h, x, me)
  <2>1. Started(h, x, n) = Sent(h, x, n) /\ Started(h, x, me) = Sent(h, x, me)
    BY <1>1, <1>5, Stages, SeenEmpty, GoNothing DEF Started
  <2>2. Go(h, Sent(h, x, me), Seen(h, me.sel, me.rv, me.input))
          = Go(h, Go(h, Sent(h, x, me), <<Sight(h, me.sel, me.rv, e)>>), Seen(h, me.sel, me.rv, Tail(me.input)))
    BY <1>1, <1>2, SeenHead
  <2>3. QED
    BY <1>5, <2>1, <2>2 DEF Queued
<1>6. Sent(h, x, base) = Sent(h, x, me)
  BY <1>3 DEF Sent
<1>7. CASE ~me.done /\ e.rv > me.rv
  <2>1. m = SendBy(h, base, e)
    BY <1>7
  <2>2. e.rv > 0
    BY <1>2 DEF Event
  <2>3. Sight(h, me.sel, 0, e) = Sight(h, me.sel, me.rv, e)
    BY <1>7, <2>2 DEF Sight
  <2> HIDE DEF e
  <2>4. base.hand = <<>>
    BY <1>3
  <2>5. /\ Sending(h, base, m) /\ m.init = base.init /\ m.input = base.input
        /\ Sent(h, x, m) = Go(h, Sent(h, x, base), <<Sight(h, base.sel, 0, e)>>)
    <3>1. h \in Seq(WriteType) /\ base \in WatcherType(h) /\ e \in Event(h)
      BY <1>1, <1>2, <1>3
    <3>2. QED
      BY <2>1, <2>4, <3>1, SendEffect
  <2>6. Queued(h, x, m) = Queued(h, x, me)
    <3>1. Sent(h, x, m) = Go(h, Sent(h, x, me), <<Sight(h, me.sel, me.rv, e)>>)
      BY <1>3, <1>6, <2>3, <2>5
    <3>2. m \in WatcherType(h) /\ m.sel = me.sel /\ m.rv = me.rv /\ m.init = <<>> /\ m.input = Tail(me.input)
      BY <1>3, <2>5 DEF Sending
    <3>3. QED
      BY <1>5, <3>1, <3>2
  <2>7. Sending(h, me, m)
    BY <1>3, <2>5 DEF Sending
  <2>8. QED
    BY <1>7, <2>6, <2>7, FineMoved
<1>8. CASE ~me.done /\ ~(e.rv > me.rv)
  <2>1. m = base /\ Sight(h, me.sel, me.rv, e) = Nothing
    BY <1>8 DEF Sight
  <2>2. Sent(h, x, base) = Go(h, Sent(h, x, me), <<Sight(h, me.sel, me.rv, e)>>)
    BY <1>1, <1>6, <2>1, Stages, GoNothing
  <2>3. Queued(h, x, base) = Queued(h, x, me)
    BY <1>3, <1>5, <2>2
  <2>4. Sending(h, me, base)
    BY <1>3 DEF Sending
  <2>5. QED
    BY <1>8, <2>1, <2>3, <2>4, FineMoved
<1>9. QED
  BY <1>4, <1>7, <1>8

\* The send that waited happens.
LEMMA FineUnblocked ==
  ASSUME NEW h, History(h), NEW r, NEW giv \in Seq(Event(h)), NEW inc \in Seq(Event(h)), NEW x, NEW g, NEW me,
         Fine(h, r, giv, inc, x, g, me), me.hand # <<>>, NEW base, base = [me EXCEPT !.hand = <<>>], NEW m,
         m = [base EXCEPT !.result = Append(@, Converted(h, base.sel, me.hand[1]))]
  PROVE  Fine(h, r, giv, inc, x, g, m)
<1> DEFINE e == me.hand[1]
           c == Converted(h, me.sel, e)
<1>1. h \in Seq(WriteType) /\ me \in WatcherType(h) /\ Shape(me)
  BY DEF History, Fine
<1>2. /\ me.hand \in Seq(Event(h)) /\ me.result \in Seq(Letter(h)) /\ <<>> \in Seq(Event(h))
      /\ Len(me.hand) <= 1
  BY <1>1 DEF WatcherType, Shape
<1>3. e \in Event(h) /\ me.hand = <<e>> /\ 1 \in 1 .. Len(me.hand)
  BY <1>2
<1>4. Interested(h, me.sel, e) /\ e.rv > 0
  <2>1. Interested(h, me.sel, e)
    BY <1>3 DEF Fine
  <2>2. e.rv > 0
    BY <1>3 DEF Event
  <2>3. QED
    BY <2>1, <2>2
<1>5. c \in Letter(h) /\ Sight(h, me.sel, 0, e) = c
  BY <1>1, <1>3, <1>4, SightTyped DEF Sight
<1> HIDE DEF e
<1>6. /\ base \in WatcherType(h) /\ base.sel = me.sel
  BY <1>1, <1>2 DEF WatcherType
<1>7. m = [me EXCEPT !.hand = <<>>, !.result = Append(@, c)] /\ Append(me.result, c) \in Seq(Letter(h))
  BY <1>1, <1>2, <1>5, <1>6 DEF WatcherType, e
<1> HIDE DEF c
<1>8. /\ m \in WatcherType(h)
      /\ m.at = me.at /\ m.listed = me.listed /\ m.done = me.done /\ m.sel = me.sel /\ m.rv = me.rv
      /\ m.lostEdge = me.lostEdge /\ m.init = me.init /\ m.input = me.input
      /\ m.hand = <<>> /\ m.result = Append(me.result, c)
  BY <1>1, <1>2, <1>7 DEF WatcherType
<1>9. Sent(h, x, m) = Sent(h, x, me)
  <2>1. Sent(h, x, m) = Go(h, Client0(x), Append(me.result, c))
    BY <1>1, <1>8, GoProper, GoNothing, SeenEmpty DEF Sent
  <2>2. Go(h, Client0(x), Append(me.result, c)) = Go(h, Go(h, Client0(x), me.result), <<c>>)
    BY <1>2, <1>5, GoAppend
  <2>3. Seen(h, me.sel, 0, me.hand) = <<c>>
    BY <1>1, <1>3, <1>5, SeenOne
  <2>4. QED
    BY <2>1, <2>2, <2>3 DEF Sent
<1>10. Started(h, x, m) = Started(h, x, me)
  BY <1>8, <1>9 DEF Started
<1>11. Queued(h, x, m) = Queued(h, x, me) /\ All(h, x, m, giv, inc) = All(h, x, me, giv, inc)
  BY <1>8, <1>10 DEF Queued, All
<1>12. Shape(m)
  BY <1>1, <1>2, <1>3, <1>8 DEF Shape
<1>13. ~me.lostEdge => Consistent(h, r, giv, inc, x, g, m)
  BY <1>8, <1>9, <1>10, <1>11 DEF Fine, Consistent
<1>14. me.at # "called"
  BY <1>1, <1>3 DEF Shape
<1>15. QED
  BY <1>8, <1>12, <1>13, <1>14 DEF Fine

\* A stopped watcher drops the event it was to send.
LEMMA FineDropped ==
  ASSUME NEW h, History(h), NEW r, NEW giv, NEW inc, NEW x, NEW g, NEW me,
         Fine(h, r, giv, inc, x, g, me), me.done, me.hand # <<>>, NEW m, m = [me EXCEPT !.hand = <<>>]
  PROVE  Fine(h, r, giv, inc, x, g, m)
<1>1. h \in Seq(WriteType) /\ me \in WatcherType(h) /\ Shape(me) /\ <<>> \in Seq(Event(h))
  BY DEF History, Fine
<1>2. /\ m \in WatcherType(h)
      /\ m.at = me.at /\ m.listed = me.listed /\ m.done = me.done /\ m.sel = me.sel /\ m.rv = me.rv
      /\ m.lostEdge = me.lostEdge /\ m.hand = <<>> /\ m.result = me.result
  BY <1>1 DEF WatcherType
<1>3. me.at \in {"running", "closed"} /\ ~me.listed
  BY <1>1 DEF Shape, WatcherType
<1>4. Shape(m)
  BY <1>1, <1>2, <1>3 DEF Shape
<1> DEFINE P == Go(h, Client0(x), me.result)
<1>5. Sent(h, x, m) = P
  BY <1>1, <1>2, GoProper, GoNothing, SeenEmpty DEF Sent
<1>6. P.bad \subseteq Sent(h, x, me).bad
  BY GoShape DEF Sent
<1>7. ASSUME ~me.lostEdge PROVE Gapless(h, m.sel, g, Sent(h, x, m))
  BY <1>2, <1>3, <1>5, <1>6, <1>7, GaplessBefore DEF Fine, Consistent
<1>8. QED
  BY <1>2, <1>3, <1>4, <1>7 DEF Fine, Consistent

-----------------------------------------------------------------------------
(* The cyclic buffer.                                                      *)

\* Less than a whole round apart, two indexes are different places.
LEMMA DifferentPlaces ==
  ASSUME NEW C \in Nat \ {0}, NEW a \in Nat, NEW b \in Nat, a < b, b < a + C
  PROVE  a % C # b % C /\ a % C \in 0 .. C - 1 /\ b % C \in 0 .. C - 1
<1> DEFINE p == a \div C
           q == b \div C
<1>1. /\ p \in Int /\ a = C * p + (a % C) /\ a % C \in 0 .. C - 1
  OBVIOUS
<1>2. /\ q \in Int /\ b = C * q + (b % C) /\ b % C \in 0 .. C - 1
  OBVIOUS
<1>3. SUFFICES ASSUME a % C = b % C PROVE FALSE
  BY <1>1, <1>2
<1> HIDE DEF p, q
<1>4. b - a = C * q - C * p
  BY <1>1, <1>2, <1>3
<1>5. CASE q >= p + 1
  <2>1. C * q >= C * (p + 1)
    BY <1>1, <1>2, <1>5
  <2>2. C * (p + 1) = C * p + C
    BY <1>1
  <2>3. C * q \in Int /\ C * p \in Int
    BY <1>1, <1>2
  <2>4. QED
    BY <1>4, <2>1, <2>2, <2>3
<1>6. CASE q <= p
  <2>1. C * q <= C * p
    BY <1>1, <1>2, <1>6
  <2>2. C * q \in Int /\ C * p \in Int
    BY <1>1, <1>2
  <2>3. QED
    BY <1>4, <2>1, <2>2
<1>7. QED
  BY <1>1, <1>2, <1>5, <1>6

\* The window holds the events of the last Size versions.
LEMMA WindowIs ==
  ASSUME CacheInv, NEW i \in 0 .. Size - 1
  PROVE  /\ (resourceVersion - Size) + 1 + i \in 1 .. resourceVersion
         /\ CacheAt(i) = Ev(log, (resourceVersion - Size) + 1 + i)
         /\ CacheAt(i).rv = (resourceVersion - Size) + 1 + i
<1>1. /\ resourceVersion \in Nat /\ startIndex \in Nat /\ endIndex \in Nat /\ startIndex <= endIndex
      /\ Size = endIndex - startIndex /\ Size <= resourceVersion
  <2>1. Len(log) \in Nat \/ resourceVersion \in Nat
    BY DEF CacheInv
  <2>2. Capacity \in Nat
    BY Sizes
  <2>3. QED
    BY <2>2 DEF CacheInv, Size
<1>2. startIndex + i \in startIndex .. endIndex - 1
  BY <1>1
<1>3. (resourceVersion - endIndex) + 1 + (startIndex + i) = (resourceVersion - Size) + 1 + i
  BY <1>1
<1>4. CacheAt(i) = Ev(log, (resourceVersion - Size) + 1 + i)
  BY <1>2, <1>3 DEF CacheInv, CacheAt
<1>5. (resourceVersion - Size) + 1 + i \in 1 .. resourceVersion
  BY <1>1
<1>6. QED
  BY <1>4, <1>5 DEF Ev

\* The events of GetAllEventsSince for a version other than 0.
Since(rv) == [i \in 1 .. Size - First(rv) |-> CacheAt(First(rv) + i - 1)]

\* All the events after rv, or nothing if the cache is not ahead of it, or
\* the window is empty and one write is missed.
Found(rv, s) ==
  \/ rv >= resourceVersion /\ s = <<>>
  \/ RunFrom(log, rv, s) /\ rv + Len(s) = resourceVersion
  \/ Size = 0 /\ rv = resourceVersion - 1

\* What GetAllEventsSinceThreadUnsafe finds in the window for a version that is
\* not too old: all the events after it, or nothing if the cache is not ahead of
\* it, or if the window is empty and one write is missed.
LEMMA WindowSince ==
  ASSUME History(log), CacheInv, NEW rv \in Nat, rv # 0, ~TooOld(rv),
         NEW s, s = Since(rv)
  PROVE  s \in Seq(Event(log)) /\ Found(rv, s)
<1> USE DEF Found
<1> DEFINE R == resourceVersion
           f == First(rv)
           a == R - Size
<1>1. /\ R \in Nat /\ Size \in Nat /\ a \in Nat /\ Len(log) \in Nat /\ R <= Len(log)
      /\ log \in Seq(WriteType)
  BY Sizes DEF CacheInv, Size, History
<1>2. /\ \A i \in 0 .. Size - 1 : CacheAt(i) = Ev(log, a + 1 + i) /\ CacheAt(i).rv = a + 1 + i
      /\ R = a + Size
  BY <1>1, WindowIs
<1>3. rv >= a \/ (Size = 0 /\ rv = R - 1)
  <2>1. oldest # 0 /\ ~(rv < oldest - 1)
    BY DEF TooOld
  <2>2. CASE Size > 0
    <3>1. 0 \in 0 .. Size - 1
      BY <1>1, <2>2
    <3>2. oldest = a + 1 + 0
      BY <1>2, <2>2, <3>1 DEF oldest
    <3>3. QED
      BY <1>1, <2>1, <3>2
  <2>3. CASE Size = 0
    <3>1. oldest = R
      BY <2>3 DEF oldest
    <3>2. QED
      BY <1>1, <2>1, <2>3, <3>1
  <2>4. QED
    BY <1>1, <2>2, <2>3
<1>4. CASE Size = 0 /\ rv < R
  <2>1. rv = R - 1
    BY <1>1, <1>3, <1>4
  <2>2. f \in 0 .. Size
    <3>1. \E i \in 0 .. Size : /\ \A j \in 0 .. i - 1 : CacheAt(j).rv <= rv
                               /\ i < Size => CacheAt(i).rv > rv
      <4>1. 0 \in 0 .. Size /\ ~(0 < Size) /\ \A j \in 0 .. 0 - 1 : FALSE
        BY <1>4
      <4>2. QED
        BY <4>1
    <3>2. QED
      BY <3>1 DEF First
  <2>3. Size - f = 0
    BY <1>4, <2>2
  <2>4. s = <<>>
    BY <2>3 DEF Since
  <2>5. s \in Seq(Event(log))
    BY <2>4
  <2>6. QED
    BY <1>4, <2>1, <2>5
<1>5. CASE rv >= a
  <2> HIDE DEF a
  <2>1. \E i \in 0 .. Size : /\ \A j \in 0 .. i - 1 : CacheAt(j).rv <= rv
                             /\ i < Size => CacheAt(i).rv > rv
    <3>1. CASE rv >= R
      <4>1. Size \in 0 .. Size /\ ~(Size < Size) /\ \A j \in 0 .. Size - 1 : a + 1 + j <= rv
        BY <1>1, <1>2, <3>1
      <4>2. QED
        BY <1>2, <4>1
    <3>2. CASE rv < R
      <4>1. /\ rv - a \in 0 .. Size - 1 /\ rv - a \in 0 .. Size
            /\ \A j \in 0 .. (rv - a) - 1 : j \in 0 .. Size - 1 /\ a + 1 + j <= rv
            /\ a + 1 + (rv - a) > rv
        BY <1>1, <1>2, <1>5, <3>2
      <4>2. QED
        BY <1>2, <4>1
    <3>3. QED
      BY <1>1, <3>1, <3>2
  <2>2. /\ f \in 0 .. Size
        /\ \A j \in 0 .. f - 1 : CacheAt(j).rv <= rv
        /\ f < Size => CacheAt(f).rv > rv
    BY <2>1 DEF First
  <2> HIDE DEF f
  <2>3. f # 0 => a + f <= rv
    <3>1. ASSUME f # 0 PROVE a + f <= rv
      <4>1. f - 1 \in 0 .. f - 1 /\ f - 1 \in 0 .. Size - 1 /\ a + 1 + (f - 1) = a + f
        BY <1>1, <2>2, <3>1
      <4>2. QED
        BY <1>2, <2>2, <4>1
    <3>2. QED
      BY <3>1
  <2>4. f < Size => a + 1 + f > rv
    <3>1. ASSUME f < Size PROVE a + 1 + f > rv
      <4>1. f \in 0 .. Size - 1
        BY <1>1, <2>2, <3>1
      <4>2. QED
        BY <1>2, <2>2, <3>1, <4>1
    <3>2. QED
      BY <3>1
  <2>5. CASE f = Size
    <3>1. rv >= R
      BY <1>1, <1>2, <1>5, <2>2, <2>3, <2>5
    <3>2. Size - f = 0
      BY <1>1, <2>5
    <3>3. s = <<>>
      BY <3>2 DEF f, Since
    <3>4. s \in Seq(Event(log))
      BY <3>3
    <3>5. QED
      BY <3>1, <3>3, <3>4
  <2>6. CASE f # Size
    <3>1. f < Size /\ a + f = rv /\ Size - f \in Nat /\ f \in Nat
      BY <1>1, <1>5, <2>2, <2>3, <2>4, <2>6
    <3>2. ASSUME NEW i \in 1 .. Size - f
          PROVE  s[i] = Ev(log, rv + i) /\ s[i] \in Event(log)
      <4>1. /\ f + i - 1 \in 0 .. Size - 1 /\ a + 1 + (f + i - 1) = rv + i /\ rv + i \in 1 .. Len(log)
        BY <1>1, <1>2, <3>1
      <4>2. s[i] = CacheAt(f + i - 1)
        BY DEF f, Since
      <4>3. QED
        BY <1>1, <1>2, <4>1, <4>2, EvTyped
    <3>3. s \in [1 .. Size - f -> Event(log)]
      BY <3>2 DEF f, Since
    <3>4. s \in Seq(Event(log)) /\ Len(s) = Size - f
      BY <3>1, <3>3
    <3>5. rv + Len(s) = R
      BY <1>1, <1>2, <3>1, <3>4
    <3>6. RunFrom(log, rv, s)
      BY <1>1, <3>2, <3>4, <3>5 DEF RunFrom
    <3>7. QED
      BY <3>4, <3>5, <3>6
  <2>7. QED
    BY <2>5, <2>6
<1>6. rv >= a \/ (Size = 0 /\ rv < R)
  BY <1>1, <1>3
<1>7. QED
  BY <1>4, <1>5, <1>6

-----------------------------------------------------------------------------
(* The steps keep the invariant.                                           *)

\* The initial states satisfy the invariant.
LEMMA InitIInv == Init => IInv
<1> SUFFICES ASSUME Init PROVE IInv
  OBVIOUS
<1>1. log = <<>> /\ log \in Seq(WriteType) /\ Len(log) = 0
  BY DEF Init
<1>2. History(log)
  BY <1>1 DEF History, DeletesWhatIs
<1>3. CacheInv
  <2>1. Capacity \in Nat
    BY Sizes
  <2>2. store = StateAt(log, resourceVersion)
    BY <1>1, StateAtZero DEF Init
  <2>3. <<>> \in Seq(Event(log)) /\ Len(<<>>) = 0
    OBVIOUS
  <2>4. RunFrom(log, 0, <<>>)
    BY <1>1, <2>3 DEF RunFrom
  <2>5. QED
    BY <1>1, <2>1, <2>2, <2>3, <2>4 DEF Init, CacheInv
<1>4. DispatchInv
  BY DEF Init, DispatchInv, Idle
<1>5. ReflectorInv
  BY DEF Init, ReflectorInv
<1>6. ASSUME NEW w \in Watchers
      PROVE  Fine(log, resourceVersion, Given(w), incoming, view[w], got[w], watcher[w])
  <2>1. /\ watcher[w] = NewWatcher /\ view[w] = [k \in Keys |-> None] /\ got[w] = 0
    BY DEF Init
  <2>2. NewWatcher \in WatcherType(log)
    BY <1>1 DEF NewWatcher, WatcherType
  <2>3. /\ NewWatcher.at = "idle" /\ ~NewWatcher.listed /\ ~NewWatcher.done
        /\ NewWatcher.init = <<>> /\ NewWatcher.hand = <<>>
        /\ NewWatcher.input = <<>> /\ NewWatcher.result = <<>>
    BY DEF NewWatcher
  <2>4. Shape(NewWatcher)
    BY <2>3 DEF Shape
  <2>5. QED
    BY <1>1, <2>1, <2>2, <2>3, <2>4 DEF Fine, Consistent
<1>7. WatchersInv
  BY <1>6 DEF WatchersInv, Init
<1>8. QED
  BY <1>2, <1>3, <1>4, <1>5, <1>7 DEF IInv

\* Steps that leave storage and cache alone.
LEMMA CacheQuiet ==
  ASSUME History(log), CacheInv, UNCHANGED <<log, listed, cachevars, incoming>>
  PROVE  History(log)' /\ CacheInv'
BY DEF History, DeletesWhatIs, CacheInv, cachevars

\* The event that a watcher is given is one of the storage's.
LEMMA GivenTyped ==
  ASSUME DispatchInv, NEW w \in Watchers
  PROVE  Given(w) \in Seq(Event(log)) /\ (dispatch = Idle => Given(w) = <<>>)
<1>1. CASE w \in dispatch.todo
  <2>1. dispatch.event \in Event(log) /\ Given(w) = <<dispatch.event>>
    BY <1>1 DEF DispatchInv, Given
  <2>2. dispatch # Idle
    BY <1>1 DEF Idle
  <2>3. QED
    BY <2>1, <2>2
<1>2. CASE w \notin dispatch.todo
  BY <1>2 DEF Given
<1>3. QED
  BY <1>1, <1>2

\* A step of one watcher or its client.
LEMMA LocalStep ==
  ASSUME IInv, NEW w \in Watchers, NEW m, NEW x, NEW g,
         watcher' = [watcher EXCEPT ![w] = m], view' = [view EXCEPT ![w] = x],
         got' = [got EXCEPT ![w] = g],
         UNCHANGED <<log, at, listed, ready, cachevars, incoming, dispatch>>,
         Fine(log, resourceVersion, Given(w), incoming, x, g, m),
         w \in dispatch.todo => m.listed,
         at \in {"list", "replace"} => ~m.listed /\ m.at \notin {"called", "locked"},
         at = "send" => m.at # "locked"
  PROVE  IInv'
<1>1. History(log)' /\ CacheInv'
  BY CacheQuiet DEF IInv
<1>2. watcher' = [v \in Watchers |-> IF v = w THEN m ELSE watcher[v]]
  BY DEF IInv, WatchersInv
<1>3. DispatchInv'
  <2>1. \A v \in dispatch.todo : v \in Watchers /\ watcher'[v].listed
    BY <1>2 DEF IInv, DispatchInv
  <2>2. QED
    BY <2>1 DEF IInv, DispatchInv
<1>4. ReflectorInv'
  <2>1. at \in {"list", "replace"} =>
          \A v \in Watchers : ~watcher'[v].listed /\ watcher'[v].at \notin {"called", "locked"}
    BY <1>2 DEF IInv, ReflectorInv
  <2>2. at = "send" => \A v \in Watchers : watcher'[v].at # "locked"
    BY <1>2 DEF IInv, ReflectorInv, CacheWritable
  <2>3. QED
    BY <2>1, <2>2 DEF IInv, ReflectorInv, CacheWritable, cachevars
<1>5. WatchersInv'
  <2>1. /\ view' = [v \in Watchers |-> IF v = w THEN x ELSE view[v]]
        /\ got' = [v \in Watchers |-> IF v = w THEN g ELSE got[v]]
    BY DEF IInv, WatchersInv
  <2>2. ASSUME NEW v \in Watchers
        PROVE  Fine(log, resourceVersion, Given(v), incoming, view[v], got[v], watcher[v])'
    <3>1. Given(v)' = Given(v) /\ log' = log /\ resourceVersion' = resourceVersion /\ incoming' = incoming
      BY DEF Given, cachevars
    <3>2. CASE v = w
      <4>1. view'[v] = x /\ got'[v] = g /\ watcher'[v] = m
        BY <1>2, <2>1, <3>2
      <4>2. QED
        BY <3>1, <3>2, <4>1
    <3>3. CASE v # w
      <4>1. view'[v] = view[v] /\ got'[v] = got[v] /\ watcher'[v] = watcher[v]
        BY <1>2, <2>1, <3>3
      <4>2. QED
        BY <3>1, <4>1 DEF IInv, WatchersInv
    <3>4. QED
      BY <3>2, <3>3
  <2>3. QED
    BY <1>2, <2>1, <2>2 DEF WatchersInv
<1>6. QED
  BY <1>1, <1>3, <1>4, <1>5 DEF IInv

\* What the invariant says of one watcher.
LEMMA OfWatcher ==
  ASSUME IInv, NEW w \in Watchers
  PROVE  /\ History(log) /\ log \in Seq(WriteType) /\ Len(log) \in Nat
         /\ resourceVersion \in Nat /\ resourceVersion \in 0 .. Len(log)
         /\ Given(w) \in Seq(Event(log)) /\ (dispatch = Idle => Given(w) = <<>>)
         /\ incoming \in Seq(Event(log)) /\ Len(incoming) <= resourceVersion
         /\ RunFrom(log, resourceVersion - Len(incoming), incoming)
         /\ Fine(log, resourceVersion, Given(w), incoming, view[w], got[w], watcher[w])
         /\ watcher[w] \in WatcherType(log) /\ Shape(watcher[w])
         /\ w \in dispatch.todo => watcher[w].listed
         /\ at \in {"list", "replace"} => ~watcher[w].listed /\ watcher[w].at \notin {"called", "locked"}
         /\ at = "send" => watcher[w].at # "locked"
<1>1. /\ History(log) /\ log \in Seq(WriteType) /\ Len(log) \in Nat
      /\ resourceVersion \in Nat /\ resourceVersion \in 0 .. Len(log)
      /\ incoming \in Seq(Event(log)) /\ Len(incoming) <= resourceVersion
      /\ RunFrom(log, resourceVersion - Len(incoming), incoming)
  BY DEF IInv, History, CacheInv
<1>2. Given(w) \in Seq(Event(log)) /\ (dispatch = Idle => Given(w) = <<>>)
  BY GivenTyped DEF IInv
<1>3. Fine(log, resourceVersion, Given(w), incoming, view[w], got[w], watcher[w])
  BY DEF IInv, WatchersInv
<1>4. watcher[w] \in WatcherType(log) /\ Shape(watcher[w])
  BY <1>3 DEF Fine
<1>5. w \in dispatch.todo => watcher[w].listed
  BY DEF IInv, DispatchInv
<1>6. /\ at \in {"list", "replace"} => ~watcher[w].listed /\ watcher[w].at \notin {"called", "locked"}
      /\ at = "send" => watcher[w].at # "locked"
  BY DEF IInv, ReflectorInv, CacheWritable
<1>7. QED
  BY <1>1, <1>2, <1>3, <1>4, <1>5, <1>6

\* A step that leaves the client as it is.
LEMMA LocalStepOf ==
  ASSUME IInv, NEW w \in Watchers, NEW m,
         watcher' = [watcher EXCEPT ![w] = m],
         UNCHANGED <<log, at, listed, ready, cachevars, incoming, dispatch, view, got>>,
         Fine(log, resourceVersion, Given(w), incoming, view[w], got[w], m),
         w \in dispatch.todo => m.listed,
         at \in {"list", "replace"} => ~m.listed /\ m.at \notin {"called", "locked"},
         at = "send" => m.at # "locked"
  PROVE  IInv'
<1> DEFINE x == view[w]
           g == got[w]
<1>1. view' = [view EXCEPT ![w] = x] /\ got' = [got EXCEPT ![w] = g]
  BY DEF IInv, WatchersInv
<1>2. Fine(log, resourceVersion, Given(w), incoming, x, g, m)
  OBVIOUS
<1>3. UNCHANGED <<log, at, listed, ready, cachevars, incoming, dispatch>>
  OBVIOUS
<1> HIDE DEF x, g
<1>4. QED
  BY <1>1, <1>2, <1>3, LocalStep

\* A client calls Watch, with a version whose state it knows.
LEMMA WatchStep ==
  ASSUME IInv, NEW w \in Watchers, NEW rv \in 0 .. Len(log), NEW sel \in Selectors, Watch(w, rv, sel)
  PROVE  IInv'
<1> DEFINE me == watcher[w]
           m == [me EXCEPT !.at = "called", !.rv = rv, !.sel = sel]
<1>1. /\ me.at = "idle" /\ ready
      /\ watcher' = [watcher EXCEPT ![w] = m]
      /\ view' = [view EXCEPT ![w] = Right(log, sel, rv)]
      /\ got' = [got EXCEPT ![w] = rv]
      /\ UNCHANGED <<log, at, listed, ready, cachevars, incoming, dispatch>>
  BY DEF Watch, Right, storagevars, reflvars
<1>2. Fine(log, resourceVersion, Given(w), incoming, Right(log, sel, rv), rv, m)
  BY <1>1, OfWatcher, FineWatch
<1>3. ~me.listed /\ m.listed = me.listed /\ m.at = "called"
  BY <1>1, OfWatcher DEF Shape, WatcherType
<1>4. w \notin dispatch.todo
  BY <1>3, OfWatcher
<1>5. at \in {"watch", "send"}
  BY <1>1 DEF IInv, ReflectorInv
<1> HIDE DEF m
<1>6. QED
  BY <1>1, <1>2, <1>3, <1>4, <1>5, LocalStep

\* It is told that the version is gone.
LEMMA GoneStep ==
  ASSUME IInv, NEW w \in Watchers, Gone(w)
  PROVE  IInv'
<1> DEFINE m == [NewWatcher EXCEPT !.at = "gone"]
<1>1. /\ watcher[w].at = "called"
      /\ watcher' = [watcher EXCEPT ![w] = m]
      /\ view' = [view EXCEPT ![w] = [k \in Keys |-> None]]
      /\ got' = [got EXCEPT ![w] = 0]
      /\ UNCHANGED <<log, at, listed, ready, cachevars, incoming, dispatch>>
  BY DEF Gone, storagevars, reflvars
<1>2. Fine(log, resourceVersion, Given(w), incoming, [k \in Keys |-> None], 0, m)
  BY OfWatcher, FineGone
<1>3. m.at = "gone" /\ ~m.listed
  BY DEF NewWatcher
<1>4. w \notin dispatch.todo
  BY <1>1, OfWatcher DEF Shape
<1> HIDE DEF m
<1>5. QED
  BY <1>1, <1>2, <1>3, <1>4, LocalStep

\* A Watch that waited for the Cacher's lock registers.
LEMMA RegisterStep ==
  ASSUME IInv, NEW w \in Watchers, Register(w)
  PROVE  IInv'
<1> DEFINE me == watcher[w]
           m == [me EXCEPT !.at = "running", !.listed = TRUE]
<1>1. /\ me.at = "locked" /\ dispatch = Idle
      /\ watcher' = [watcher EXCEPT ![w] = m]
      /\ UNCHANGED <<log, at, listed, ready, cachevars, incoming, dispatch, view, got>>
  BY DEF Register, CacherFree, storagevars, reflvars
<1>2. Given(w) = <<>>
  BY <1>1, OfWatcher
<1>3. Fine(log, resourceVersion, <<>>, incoming, view[w], got[w], m)
  BY <1>1, <1>2, OfWatcher, FineRegister
<1>4. m.at = "running" /\ m.listed
  BY OfWatcher DEF WatcherType
<1>5. at \notin {"list", "replace"}
  BY <1>1, OfWatcher
<1> HIDE DEF m
<1>6. QED
  BY <1>1, <1>2, <1>3, <1>4, <1>5, LocalStepOf

\* A client reads an event.
LEMMA ReceiveStep ==
  ASSUME IInv, NEW w \in Watchers, Receive(w)
  PROVE  IInv'
<1> DEFINE me == watcher[w]
           m == [me EXCEPT !.result = Tail(@)]
           e == Head(me.result)
           x == After(log, view[w], <<e>>)
           g == IF e.rv > got[w] THEN e.rv ELSE got[w]
<1>1. /\ me.result # <<>>
      /\ watcher' = [watcher EXCEPT ![w] = m]
      /\ view' = [view EXCEPT ![w] = Apply(view[w], e)]
      /\ got' = [got EXCEPT ![w] = g]
      /\ UNCHANGED <<log, at, listed, ready, cachevars, incoming, dispatch>>
  BY DEF Receive, storagevars, reflvars, IInv, WatchersInv
<1>2. e \in Letter(log)
  BY <1>1, OfWatcher DEF WatcherType
<1>3. e.type # "None" /\ e.obj \in 1 .. Len(log)
  BY <1>2 DEF Letter
<1>4. log[e.obj].key \in Keys
  BY <1>3, OfWatcher, EvTyped
<1>5. view[w] = [k \in Keys |-> view[w][k]]
  BY OfWatcher DEF Fine
<1> HIDE DEF e
<1>6. Apply(view[w], e) = x
  <2>1. ASSUME NEW k \in Keys
        PROVE  x[k] = IF log[e.obj].key = k THEN IF e.type = "Deleted" THEN None ELSE e.obj ELSE view[w][k]
    BY <1>3, AfterOne
  <2>2. x = [k \in Keys |-> x[k]]
    BY DEF After
  <2> HIDE DEF x
  <2>3. Apply(view[w], e) = [k \in Keys |-> IF log[e.obj].key = k
                                            THEN IF e.type = "Deleted" THEN None ELSE e.obj ELSE view[w][k]]
    BY <1>4, <1>5 DEF Apply
  <2>4. QED
    BY <2>1, <2>2, <2>3
<1>7. Fine(log, resourceVersion, Given(w), incoming, x, g, m)
  BY <1>1, OfWatcher, FineReceive DEF e
<1>8. m.at = me.at /\ m.listed = me.listed
  BY OfWatcher DEF WatcherType
<1> HIDE DEF m, x, g
<1>9. view' = [view EXCEPT ![w] = x]
  BY <1>1, <1>6
<1>10. QED
  BY <1>1, <1>7, <1>8, <1>9, OfWatcher, LocalStep

\* Stop, up to the lock's release, and stop.
LEMMA StopStep ==
  ASSUME IInv, NEW w \in Watchers, Stop(w) \/ stop(w)
  PROVE  IInv'
<1> DEFINE me == watcher[w]
<1>1. me \in WatcherType(log) /\ Shape(me)
      /\ Fine(log, resourceVersion, Given(w), incoming, view[w], got[w], me)
  BY OfWatcher
<1>2. ASSUME NEW d \in BOOLEAN, me.at = "running", me.done => d, w \notin dispatch.todo,
             NEW m, m = [me EXCEPT !.listed = FALSE, !.done = d],
             watcher' = [watcher EXCEPT ![w] = m],
             UNCHANGED <<log, at, listed, ready, cachevars, incoming, dispatch, view, got>>
      PROVE  IInv'
  <2>1. Fine(log, resourceVersion, Given(w), incoming, view[w], got[w], m)
    BY <1>1, <1>2, FineStop
  <2>2. ~m.listed /\ m.at = "running"
    BY <1>1, <1>2 DEF WatcherType
  <2>3. QED
    BY <1>2, <2>1, <2>2, LocalStepOf
<1>3. CASE Stop(w)
  <2>1. /\ me.listed /\ dispatch = Idle
        /\ watcher' = [watcher EXCEPT ![w] = [me EXCEPT !.listed = FALSE]]
        /\ UNCHANGED <<log, at, listed, ready, cachevars, incoming, dispatch, view, got>>
    BY <1>3 DEF Stop, CacherFree, storagevars, reflvars
  <2>2. [me EXCEPT !.listed = FALSE] = [me EXCEPT !.listed = FALSE, !.done = me.done]
    BY <1>1 DEF WatcherType
  <2>3. me.done \in BOOLEAN
    BY <1>1 DEF WatcherType
  <2>4. me.at = "running" /\ w \notin dispatch.todo
    BY <1>1, <2>1 DEF Shape, Idle
  <2>5. QED
    BY <1>2, <2>1, <2>2, <2>3, <2>4
<1>4. CASE stop(w)
  <2>1. /\ me.at = "running" /\ ~me.listed
        /\ watcher' = [watcher EXCEPT ![w] = [me EXCEPT !.done = TRUE]]
        /\ UNCHANGED <<log, at, listed, ready, cachevars, incoming, dispatch, view, got>>
    BY <1>4 DEF stop, storagevars, reflvars
  <2>2. me.listed = FALSE
    BY <1>1, <2>1 DEF WatcherType
  <2>3. [me EXCEPT !.done = TRUE] = [me EXCEPT !.listed = FALSE, !.done = TRUE]
    BY <1>1, <2>2 DEF WatcherType
  <2>4. w \notin dispatch.todo
    BY <2>1, OfWatcher
  <2>5. QED
    BY <1>2, <2>1, <2>3, <2>4
<1>5. QED
  BY <1>3, <1>4

\* The objects of the cache are a finite set, which the list enumerates.
LEMMA ListingOfStore ==
  ASSUME IInv, NEW events \in GetAllEventsSince(0), NEW sel
  PROVE  /\ events \in Seq(Event(log))
         /\ UpToDate(log, sel, resourceVersion, resourceVersion,
                     Go(log, Client0(Right(log, sel, 0)), Seen(log, sel, 0, events)))
<1>1. /\ History(log) /\ resourceVersion \in 0 .. Len(log) /\ store = StateAt(log, resourceVersion)
  BY DEF IInv, CacheInv
<1> DEFINE S == {k \in Keys : store[k] # None}
<1>2. PICK order \in Orders(S) : events = ListEvents(order)
  BY DEF GetAllEventsSince
<1>3. S \subseteq Keys
  OBVIOUS
<1>4. IsFiniteSet(S) /\ Cardinality(S) \in Nat
  BY <1>3, Sizes, FS_Subset, FS_CardinalityType
<1> HIDE DEF S
<1>5. order \in Seq(Keys) /\ Distinct(order) /\ RangeOf(order) = S
  BY <1>2, <1>3, <1>4, OrdersAreQueues
<1>6. RangeOf(order) = {k \in Keys : StateAt(log, resourceVersion)[k] # None}
  BY <1>1, <1>5 DEF S
<1>7. events = Listing(log, resourceVersion, order)
  BY <1>1, <1>2 DEF ListEvents, Listing
<1>8. QED
  BY <1>1, <1>5, <1>6, <1>7, ListingTells

\* What the window gives a client with the state of rv.
LEMMA SinceTells ==
  ASSUME IInv, NEW rv \in 1 .. Len(log), ~TooOld(rv), NEW events \in GetAllEventsSince(rv), NEW sel,
         ~(Size = 0 /\ rv = resourceVersion - 1)
  PROVE  UpToDate(log, sel, rv, Later(rv, resourceVersion),
                  Go(log, Client0(Right(log, sel, rv)), Seen(log, sel, 0, events)))
<1>1. /\ History(log) /\ CacheInv /\ log \in Seq(WriteType) /\ Len(log) \in Nat
      /\ resourceVersion \in 0 .. Len(log)
  <2>1. History(log) /\ CacheInv
    BY DEF IInv
  <2>2. log \in Seq(WriteType) /\ Len(log) \in Nat
    BY <2>1 DEF History
  <2>3. resourceVersion \in 0 .. Len(log)
    BY <2>1 DEF CacheInv
  <2>4. QED
    BY <2>1, <2>2, <2>3
<1>2. rv \in Nat /\ rv # 0 /\ resourceVersion \in Nat
  BY <1>1
<1>3. events = Since(rv)
  BY <1>2 DEF GetAllEventsSince, Since
<1>4. \/ rv >= resourceVersion /\ events = <<>>
      \/ RunFrom(log, rv, events) /\ rv + Len(events) = resourceVersion
  <2>1. Found(rv, events)
    BY <1>1, <1>2, <1>3, WindowSince
  <2>2. QED
    BY <2>1 DEF Found
<1>5. CASE rv >= resourceVersion /\ events = <<>>
  <2>1. Later(rv, resourceVersion) = rv
    BY <1>2, <1>5 DEF Later
  <2>2. Proper(Client0(Right(log, sel, rv)))
    BY RightShape DEF Proper, Client0
  <2>3. Seen(log, sel, 0, events) = <<>>
    BY <1>1, <1>5, SeenEmpty
  <2>4. Go(log, Client0(Right(log, sel, rv)), <<>>) = Client0(Right(log, sel, rv))
    BY <2>2, GoNothing
  <2>5. UpToDate(log, sel, rv, rv, Client0(Right(log, sel, rv)))
    BY <1>2 DEF UpToDate, Gapless, Client0
  <2>6. QED
    BY <2>1, <2>3, <2>4, <2>5
<1>6. CASE RunFrom(log, rv, events) /\ rv + Len(events) = resourceVersion
  <2>1. Later(rv, resourceVersion) = resourceVersion
    BY <1>2, <1>6 DEF Later, RunFrom
  <2>2. UpToDate(log, sel, rv, rv + Len(events),
                 Go(log, Client0(Right(log, sel, rv)), Seen(log, sel, 0, events)))
    BY <1>1, <1>6, CatchUp
  <2>3. QED
    BY <1>6, <2>1, <2>2
<1>7. QED
  BY <1>4, <1>5, <1>6

\* The events of a Watch are events of the history.
LEMMA SinceTyped ==
  ASSUME IInv, NEW rv \in 1 .. Len(log), ~TooOld(rv), NEW events \in GetAllEventsSince(rv)
  PROVE  events \in Seq(Event(log))
<1>1. /\ History(log) /\ CacheInv /\ Len(log) \in Nat
  BY DEF IInv, History
<1>2. rv \in Nat /\ rv # 0
  BY <1>1
<1>3. events = Since(rv)
  BY <1>2 DEF GetAllEventsSince, Since
<1>4. QED
  BY <1>1, <1>2, <1>3, WindowSince

\* A Watch takes its first events from the window or the store.
LEMMA GetEventsStep ==
  ASSUME IInv, NEW w \in Watchers, GetEvents(w)
  PROVE  IInv'
<1> DEFINE me == watcher[w]
           rv == me.rv
           free == CacherFree
           edge == Size = 0 /\ rv # 0 /\ rv = resourceVersion - 1
           g2 == IF rv = 0 THEN resourceVersion ELSE rv
           new(events) == [me EXCEPT !.init = events, !.listed = free,
                                     !.at = IF free THEN "running" ELSE "locked", !.lostEdge = edge]
<1>1. /\ me.at = "called" /\ at # "send" /\ ~TooOld(rv)
      /\ \E events \in GetAllEventsSince(rv) : watcher' = [watcher EXCEPT ![w] = new(events)]
      /\ got' = [got EXCEPT ![w] = g2]
      /\ UNCHANGED <<log, at, listed, ready, cachevars, incoming, dispatch, view>>
  BY DEF GetEvents, CacheReadable, storagevars, reflvars, IInv, WatchersInv
<1>2. PICK events \in GetAllEventsSince(rv) : watcher' = [watcher EXCEPT ![w] = new(events)]
  BY <1>1
<1>3. /\ me \in WatcherType(log) /\ Shape(me) /\ rv \in 0 .. Len(log) /\ Len(log) \in Nat
      /\ resourceVersion \in 0 .. Len(log)
      /\ History(log) /\ log \in Seq(WriteType)
  BY OfWatcher DEF WatcherType
<1>4. ~me.listed /\ w \notin dispatch.todo /\ Given(w) = <<>> /\ at \notin {"list", "replace"}
  BY <1>1, <1>3, OfWatcher DEF Shape, Given
<1>5. view[w] = Right(log, me.sel, rv) /\ got[w] = rv
  BY <1>1, OfWatcher DEF Fine
<1>6. edge \in BOOLEAN /\ free \in BOOLEAN /\ g2 \in 0 .. Len(log)
  BY <1>3 DEF CacherFree
<1>7. /\ events \in Seq(Event(log))
      /\ ~edge => UpToDate(log, me.sel, g2, Later(rv, resourceVersion),
                           Go(log, Client0(view[w]), Seen(log, me.sel, 0, events)))
  <2>1. CASE rv = 0
    <3>1. g2 = resourceVersion /\ Later(rv, resourceVersion) = resourceVersion
      BY <1>3, <2>1 DEF Later
    <3>2. events \in GetAllEventsSince(0) /\ view[w] = Right(log, me.sel, 0)
      BY <1>2, <1>5, <2>1
    <3>3. QED
      BY <3>1, <3>2, ListingOfStore
  <2>2. CASE rv # 0
    <3>1. rv \in 1 .. Len(log) /\ g2 = rv
      BY <1>3, <2>2
    <3>2. ~edge => ~(Size = 0 /\ rv = resourceVersion - 1)
      BY <2>2
    <3> HIDE DEF edge, g2, rv
    <3>3. events \in Seq(Event(log))
      BY <1>1, <1>2, <3>1, SinceTyped
    <3>4. QED
      BY <1>1, <1>2, <1>5, <3>1, <3>2, <3>3, SinceTells
  <2>3. QED
    BY <2>1, <2>2
<1> DEFINE m == new(events)
           x == view[w]
<1>8. Fine(log, resourceVersion, <<>>, incoming, x, g2, m)
  <2>1. Fine(log, resourceVersion, <<>>, incoming, x, got[w], me)
    BY <1>4, OfWatcher
  <2>2. /\ resourceVersion \in Nat /\ Len(incoming) <= resourceVersion
        /\ RunFrom(log, resourceVersion - Len(incoming), incoming)
    BY OfWatcher
  <2> HIDE DEF free, edge, g2, x, me
  <2>3. QED
    BY <1>1, <1>3, <1>6, <1>7, <2>1, <2>2, FineGetEvents DEF x
<1>9. view' = [view EXCEPT ![w] = x]
  BY <1>1 DEF IInv, WatchersInv
<1>10. watcher' = [watcher EXCEPT ![w] = m]
  BY <1>2
<1>11. UNCHANGED <<log, at, listed, ready, cachevars, incoming, dispatch>>
  BY <1>1
<1>12. got' = [got EXCEPT ![w] = g2]
  BY <1>1
<1>13. Fine(log, resourceVersion, Given(w), incoming, x, g2, m)
  BY <1>4, <1>8
<1>14. /\ w \in dispatch.todo => m.listed
       /\ at \in {"list", "replace"} => ~m.listed /\ m.at \notin {"called", "locked"}
       /\ at = "send" => m.at # "locked"
  BY <1>1, <1>4
<1> HIDE DEF m, x, g2
<1>15. QED
  BY <1>9, <1>10, <1>11, <1>12, <1>13, <1>14, LocalStep

\* The goroutine of a watcher takes one of the initial events.
LEMMA ProcessInitStep ==
  ASSUME IInv, NEW w \in Watchers, processInit(w)
  PROVE  IInv'
<1> DEFINE me == watcher[w]
           base == RestInit(me)
           m == sendWatchCacheEvent(base, Head(me.init))
<1>1. /\ me.at = "running" /\ me.hand = <<>> /\ me.init # <<>>
      /\ watcher' = [watcher EXCEPT ![w] = m]
      /\ UNCHANGED <<log, at, listed, ready, cachevars, incoming, dispatch, view, got>>
  BY DEF processInit, RestInit, storagevars, reflvars
<1>2. /\ base.done = me.done /\ base.at = me.at /\ base.listed = me.listed /\ base \in WatcherType(log)
      /\ base.sel = me.sel
  <2>1. me \in WatcherType(log) /\ me.init \in Seq(Event(log))
    BY OfWatcher DEF WatcherType
  <2> DEFINE t == Tail(me.init)
  <2>2. t \in Seq(Event(log)) /\ base = [me EXCEPT !.init = t]
    BY <1>1, <2>1 DEF RestInit
  <2> HIDE DEF t, base
  <2>3. QED
    BY <2>1, <2>2 DEF WatcherType
<1> DEFINE e == Head(me.init)
<1>3. m = IF me.done THEN base ELSE SendBy(log, base, e)
  <2> HIDE DEF base, e
  <2>1. sendWatchCacheEvent(base, e) = IF me.done THEN base ELSE SendBy(log, base, e)
    BY <1>2 DEF sendWatchCacheEvent, SendBy, Send
  <2>2. QED
    BY <2>1 DEF e
<1>4. m.at = me.at /\ m.listed = me.listed
  <2>1. SendBy(log, base, e).at = base.at /\ SendBy(log, base, e).listed = base.listed
    <3> HIDE DEF base, e
    <3>1. QED
      BY <1>2 DEF SendBy, WatcherType
  <2> HIDE DEF m, base, e
  <2>2. QED
    BY <1>2, <1>3, <2>1
<1>5. Fine(log, resourceVersion, Given(w), incoming, view[w], got[w], m)
  <2>1. base = RestInit(me)
    OBVIOUS
  <2> HIDE DEF m, base
  <2>2. QED
    BY <1>1, <1>3, <2>1, OfWatcher, FineInit DEF e
<1>6. /\ w \in dispatch.todo => m.listed
      /\ at \in {"list", "replace"} => ~m.listed /\ m.at \notin {"called", "locked"}
      /\ at = "send" => m.at # "locked"
  <2> HIDE DEF m
  <2>1. QED
    BY <1>1, <1>4, OfWatcher
<1> HIDE DEF m
<1>7. QED
  BY <1>1, <1>5, <1>6, LocalStepOf

\* It takes a dispatched event.
LEMMA ProcessInputStep ==
  ASSUME IInv, NEW w \in Watchers, processInput(w)
  PROVE  IInv'
<1> DEFINE me == watcher[w]
           base == RestInput(me)
           e == Head(me.input)
           m == IF e.rv > me.rv THEN sendWatchCacheEvent(base, e) ELSE base
<1>1. /\ me.at = "running" /\ me.hand = <<>> /\ me.init = <<>> /\ me.input # <<>>
      /\ watcher' = [watcher EXCEPT ![w] = m]
      /\ UNCHANGED <<log, at, listed, ready, cachevars, incoming, dispatch, view, got>>
  BY DEF processInput, RestInput, storagevars, reflvars
<1>2. /\ base.done = me.done /\ base.at = me.at /\ base.listed = me.listed /\ base \in WatcherType(log)
      /\ base.sel = me.sel
  <2>1. me \in WatcherType(log) /\ me.input \in Seq(Event(log))
    BY OfWatcher DEF WatcherType
  <2> DEFINE t == Tail(me.input)
  <2>2. t \in Seq(Event(log)) /\ base = [me EXCEPT !.input = t]
    BY <1>1, <2>1 DEF RestInput
  <2> HIDE DEF t, base
  <2>3. QED
    BY <2>1, <2>2 DEF WatcherType
<1>3. m = IF e.rv > me.rv THEN IF me.done THEN base ELSE SendBy(log, base, e) ELSE base
  <2> HIDE DEF base, e
  <2>1. sendWatchCacheEvent(base, e) = IF me.done THEN base ELSE SendBy(log, base, e)
    BY <1>2 DEF sendWatchCacheEvent, SendBy, Send
  <2>2. QED
    BY <2>1
<1>4. m.at = me.at /\ m.listed = me.listed
  <2>1. SendBy(log, base, e).at = base.at /\ SendBy(log, base, e).listed = base.listed
    <3> HIDE DEF base, e
    <3>1. QED
      BY <1>2 DEF SendBy, WatcherType
  <2> HIDE DEF m, base, e
  <2>2. QED
    BY <1>2, <1>3, <2>1
<1>5. Fine(log, resourceVersion, Given(w), incoming, view[w], got[w], m)
  <2>1. base = RestInput(me)
    OBVIOUS
  <2> HIDE DEF m, base
  <2>2. QED
    BY <1>1, <1>3, <2>1, OfWatcher, FineInput DEF e
<1>6. /\ w \in dispatch.todo => m.listed
      /\ at \in {"list", "replace"} => ~m.listed /\ m.at \notin {"called", "locked"}
      /\ at = "send" => m.at # "locked"
  <2> HIDE DEF m
  <2>1. QED
    BY <1>1, <1>4, OfWatcher
<1> HIDE DEF m
<1>7. QED
  BY <1>1, <1>5, <1>6, LocalStepOf

\* The event it has in hand is sent, or dropped once the watcher is stopped.
LEMMA SendUnblockedStep ==
  ASSUME IInv, NEW w \in Watchers, sendUnblocked(w)
  PROVE  IInv'
<1> DEFINE me == watcher[w]
           base == [me EXCEPT !.hand = <<>>]
           sent == [base EXCEPT !.result = Append(@, Converted(log, base.sel, me.hand[1]))]
<1>1. /\ me.hand # <<>>
      /\ \/ watcher' = [watcher EXCEPT ![w] = sent]
         \/ me.done /\ watcher' = [watcher EXCEPT ![w] = base]
      /\ UNCHANGED <<log, at, listed, ready, cachevars, incoming, dispatch, view, got>>
  BY DEF sendUnblocked, Send, storagevars, reflvars
<1>2. ASSUME NEW m, m.at = me.at, m.listed = me.listed, watcher' = [watcher EXCEPT ![w] = m],
             Fine(log, resourceVersion, Given(w), incoming, view[w], got[w], m)
      PROVE  IInv'
  <2>1. /\ w \in dispatch.todo => m.listed
        /\ at \in {"list", "replace"} => ~m.listed /\ m.at \notin {"called", "locked"}
        /\ at = "send" => m.at # "locked"
    BY <1>2, OfWatcher
  <2>2. QED
    BY <1>1, <1>2, <2>1, LocalStepOf
<1>3. base.at = me.at /\ base.listed = me.listed /\ sent.at = me.at /\ sent.listed = me.listed
  BY OfWatcher DEF WatcherType
<1>4. CASE watcher' = [watcher EXCEPT ![w] = sent]
  <2>1. Fine(log, resourceVersion, Given(w), incoming, view[w], got[w], sent)
    BY <1>1, OfWatcher, FineUnblocked
  <2> HIDE DEF sent
  <2>2. QED
    BY <1>2, <1>3, <1>4, <2>1
<1>5. CASE me.done /\ watcher' = [watcher EXCEPT ![w] = base]
  <2>1. Fine(log, resourceVersion, Given(w), incoming, view[w], got[w], base)
    BY <1>1, <1>5, OfWatcher, FineDropped
  <2> HIDE DEF base
  <2>2. QED
    BY <1>2, <1>3, <1>5, <2>1
<1>6. QED
  BY <1>1, <1>4, <1>5

\* It closes the result.
LEMMA ProcessEndsStep ==
  ASSUME IInv, NEW w \in Watchers, processEnds(w)
  PROVE  IInv'
<1> DEFINE me == watcher[w]
           m == [me EXCEPT !.at = "closed"]
<1>1. /\ me.at = "running" /\ me.done
      /\ watcher' = [watcher EXCEPT ![w] = m]
      /\ UNCHANGED <<log, at, listed, ready, cachevars, incoming, dispatch, view, got>>
  BY DEF processEnds, storagevars, reflvars
<1>2. me \in WatcherType(log) /\ Shape(me)
  BY OfWatcher
<1>3. /\ m \in WatcherType(log) /\ m.at = "closed" /\ m.listed = me.listed /\ m.done = me.done
      /\ m.sel = me.sel /\ m.rv = me.rv /\ m.lostEdge = me.lostEdge
      /\ m.hand = me.hand /\ m.result = me.result
  BY <1>2 DEF WatcherType
<1>4. ~me.listed /\ w \notin dispatch.todo
  BY <1>1, <1>2, OfWatcher DEF Shape
<1> HIDE DEF m
<1>5. Fine(log, resourceVersion, Given(w), incoming, view[w], got[w], m)
  BY <1>1, <1>3, OfWatcher, FineDrained
<1>6. QED
  BY <1>1, <1>3, <1>4, <1>5, LocalStepOf

\* A write to the storage: what is under way stays as it was.
LEMMA WriteStep ==
  ASSUME IInv, NEW k \in Keys, Write(k)
  PROVE  IInv'
<1> DEFINE cur == StateAt(log, Len(log))[k]
<1>1. /\ History(log) /\ log \in Seq(WriteType) /\ Len(log) \in Nat /\ CacheInv /\ DispatchInv
      /\ ReflectorInv /\ WatchersInv
      /\ resourceVersion \in 0 .. Len(log) /\ listed \in 0 .. Len(log)
  <2>1. History(log) /\ CacheInv /\ DispatchInv /\ ReflectorInv /\ WatchersInv
    BY DEF IInv
  <2>2. log \in Seq(WriteType) /\ Len(log) \in Nat
    BY <2>1 DEF History
  <2>3. resourceVersion \in 0 .. Len(log) /\ listed \in 0 .. Len(log)
    BY <2>1 DEF CacheInv
  <2>4. QED
    BY <2>1, <2>2, <2>3
<1>2. /\ cur \in 0 .. Len(log)
      /\ cur # None => cur \in 1 .. Len(log) /\ log[cur].value \in Values
  <2>1. Len(log) \in 0 .. Len(log)
    BY <1>1
  <2>2. cur \in 0 .. Len(log) /\ (cur # None => cur \in 1 .. Len(log))
    BY <1>1, <2>1, StateIsVersion
  <2> HIDE DEF cur
  <2>3. cur # None => log[cur] \in WriteType
    BY <1>1, <2>2
  <2>4. QED
    BY <2>2, <2>3 DEF WriteType
<1>3. PICK e : /\ e \in WriteType /\ log' = Append(log, e)
               /\ e.type = "Deleted" => e.key = k /\ cur # None /\ e.value = log[cur].value
  <2>1. PICK e \in [type : {IF cur = None THEN "Added" ELSE "Modified"}, key : {k}, value : Values]
                     \cup (IF cur = None THEN {}
                           ELSE {[type |-> "Deleted", key |-> k, value |-> log[cur].value]}) :
                log' = Append(log, e)
    BY DEF Write
  <2> HIDE DEF cur
  <2>2. CASE e \in [type : {IF cur = None THEN "Added" ELSE "Modified"}, key : {k}, value : Values]
    <3>1. e \in WriteType /\ e.type # "Deleted"
      BY <2>2 DEF WriteType
    <3>2. QED
      BY <2>1, <3>1
  <2>3. CASE cur # None /\ e = [type |-> "Deleted", key |-> k, value |-> log[cur].value]
    <3>1. e \in WriteType
      BY <1>2, <2>3 DEF WriteType
    <3>2. QED
      BY <2>1, <2>3, <3>1
  <2>4. QED
    BY <2>1, <2>2, <2>3
<1>4. UNCHANGED <<at, listed, ready, cachevars, incoming, dispatch, watcher, view, got>>
  BY DEF Write, reflvars, watchvars
<1>5. /\ Append(log, e) \in Seq(WriteType) /\ Len(Append(log, e)) = Len(log) + 1
      /\ Event(log) \subseteq Event(Append(log, e))
  BY <1>1, <1>3, LongerTypes
<1> DEFINE h == Append(log, e)
<1>6. History(log)'
  <2>1. History(h)
    BY <1>1, <1>3, LongerHistory
  <2> HIDE DEF h
  <2>2. QED
    BY <1>3, <2>1 DEF h
<1>7. CacheInv'
  <2>1. store = StateAt(h, resourceVersion)
    BY <1>1, <1>3, StateStays DEF CacheInv
  <2>2. \A j \in startIndex .. endIndex - 1 :
          cache[j % Capacity] = Ev(h, (resourceVersion - endIndex) + 1 + j)
    <3>1. SUFFICES ASSUME NEW j \in startIndex .. endIndex - 1
                   PROVE  Ev(h, (resourceVersion - endIndex) + 1 + j) = Ev(log, (resourceVersion - endIndex) + 1 + j)
      BY <1>1 DEF CacheInv
    <3>2. /\ startIndex \in Nat /\ endIndex \in Nat /\ Capacity \in Nat
          /\ endIndex - startIndex <= resourceVersion
      BY <1>1, Sizes DEF CacheInv
    <3> DEFINE n == (resourceVersion - endIndex) + 1 + j
    <3>3. n \in 1 .. Len(log)
      BY <1>1, <3>2
    <3> HIDE DEF n
    <3>4. Ev(h, n) = Ev(log, n)
      BY <1>1, <1>3, <3>3, LongerConcerns
    <3>5. QED
      BY <3>4 DEF n
  <2>3. RunFrom(h, resourceVersion - Len(incoming), incoming)
    BY <1>1, <1>3, LongerRun DEF CacheInv
  <2>4. incoming \in Seq(Event(h))
    <3>1. incoming \in Seq(Event(log))
      BY <1>1 DEF CacheInv
    <3>2. QED
      BY <1>5, <3>1, SeqMono
  <2>5. resourceVersion \in 0 .. Len(h) /\ listed \in 0 .. Len(h)
    BY <1>1, <1>5
  <2>6. log' = h
    BY <1>3
  <2> HIDE DEF h
  <2>7. QED
    BY <1>1, <1>4, <2>1, <2>2, <2>3, <2>4, <2>5, <2>6 DEF CacheInv, cachevars
<1>8. DispatchInv'
  <2>1. log' = h /\ Event(log) \subseteq Event(h)
    BY <1>3, <1>5
  <2> HIDE DEF h
  <2>2. QED
    BY <1>1, <1>4, <2>1 DEF DispatchInv
<1>9. ReflectorInv'
  <2>1. at = "send" => resourceVersion < Len(log')
    BY <1>1, <1>3, <1>5 DEF ReflectorInv
  <2>2. QED
    BY <1>1, <1>4, <2>1 DEF ReflectorInv, CacheWritable, cachevars
<1>10. ASSUME NEW w \in Watchers
       PROVE  Fine(log, resourceVersion, Given(w), incoming, view[w], got[w], watcher[w])'
  <2>1. Fine(h, resourceVersion, Given(w), incoming, view[w], got[w], watcher[w])
    BY <1>3, OfWatcher, FineWrite
  <2>2. Given(w)' = Given(w) /\ log' = h
    BY <1>3, <1>4 DEF Given
  <2> HIDE DEF h
  <2>3. QED
    BY <1>4, <2>1, <2>2 DEF cachevars
<1>11. WatchersInv'
  BY <1>1, <1>4, <1>10 DEF WatchersInv
<1>12. QED
  BY <1>6, <1>7, <1>8, <1>9, <1>11 DEF IInv

\* startCaching stops every registered watcher.
LEMMA StartCachingStep ==
  ASSUME IInv, startCaching
  PROVE  IInv'
<1> DEFINE off(me) == [me EXCEPT !.listed = FALSE, !.done = TRUE]
<1>1. /\ History(log) /\ CacheInv /\ DispatchInv /\ ReflectorInv /\ WatchersInv
  BY DEF IInv
<1>2. /\ incoming = <<>> /\ dispatch = Idle /\ at' = "list"
      /\ \A w \in Watchers : watcher[w].at \notin {"called", "locked"}
      /\ watcher' = [w \in Watchers |-> IF watcher[w].listed THEN off(watcher[w]) ELSE watcher[w]]
      /\ UNCHANGED <<log, listed, ready, cachevars, incoming, dispatch, view, got>>
      /\ at = "start"
  BY DEF startCaching, Settled, CacherFree, storagevars
<1>3. History(log)' /\ CacheInv'
  BY <1>1, <1>2, CacheQuiet
<1>4. DispatchInv'
  BY <1>1, <1>2 DEF DispatchInv, Idle
<1>5. ASSUME NEW w \in Watchers
      PROVE  /\ Fine(log, resourceVersion, <<>>, incoming, view[w], got[w], watcher'[w])
             /\ ~watcher'[w].listed /\ watcher'[w].at \notin {"called", "locked"}
  <2>1. /\ Fine(log, resourceVersion, <<>>, incoming, view[w], got[w], watcher[w])
        /\ watcher[w] \in WatcherType(log) /\ Shape(watcher[w])
    BY <1>2, OfWatcher
  <2>2. CASE watcher[w].listed
    <3> DEFINE m == off(watcher[w])
    <3>1. watcher[w].at = "running"
      BY <2>1, <2>2 DEF Shape
    <3>2. Fine(log, resourceVersion, <<>>, incoming, view[w], got[w], m)
      BY <2>1, <3>1, FineStop
    <3>3. ~m.listed /\ m.at = "running"
      BY <2>1, <3>1 DEF WatcherType
    <3>4. watcher'[w] = m
      BY <1>2, <2>2
    <3> HIDE DEF m
    <3>5. QED
      BY <3>2, <3>3, <3>4
  <2>3. CASE ~watcher[w].listed
    <3>1. watcher'[w] = watcher[w]
      BY <1>2, <2>3
    <3>2. QED
      BY <1>2, <2>1, <2>3, <3>1
  <2>4. QED
    BY <2>2, <2>3
<1>6. ReflectorInv'
  BY <1>1, <1>2, <1>5 DEF ReflectorInv, cachevars
<1>7. ASSUME NEW w \in Watchers
      PROVE  Fine(log, resourceVersion, Given(w), incoming, view[w], got[w], watcher[w])'
  <2>1. Given(w)' = <<>>
    BY <1>2 DEF Given, Idle
  <2>2. QED
    BY <1>2, <1>5, <2>1 DEF cachevars
<1>8. watcher' = [w \in Watchers |-> watcher'[w]]
  BY <1>2
<1>9. WatchersInv'
  BY <1>1, <1>2, <1>7, <1>8 DEF WatchersInv
<1>10. QED
  BY <1>3, <1>4, <1>6, <1>9 DEF IInv

\* The reflector lists, fails, or waits for room in incoming.
LEMMA ReflectorStep ==
  ASSUME IInv, List \/ ListFails \/ processEventWaits \/ ListAndWatchEnds
  PROVE  IInv'
<1>1. /\ History(log) /\ CacheInv /\ DispatchInv /\ ReflectorInv /\ WatchersInv
  BY DEF IInv
<1>2. UNCHANGED <<log, cachevars, incoming, dispatch, watcher, view, got>>
  BY DEF List, ListFails, processEventWaits, ListAndWatchEnds, storagevars, watchvars
<1>3. listed' \in 0 .. Len(log)
  <2>1. CASE List
    <3>1. Len(log) \in Nat
      BY <1>1 DEF History
    <3>2. QED
      BY <2>1, <3>1 DEF List
  <2>2. CASE ListFails \/ processEventWaits \/ ListAndWatchEnds
    BY <1>1, <2>2 DEF ListFails, processEventWaits, ListAndWatchEnds, CacheInv
  <2>3. QED
    BY <2>1, <2>2
<1>4. History(log)' /\ CacheInv'
  BY <1>1, <1>2, <1>3 DEF History, DeletesWhatIs, CacheInv, cachevars
<1>5. DispatchInv'
  BY <1>1, <1>2 DEF DispatchInv
<1>6. ReflectorInv'
  <2>1. CASE List
    BY <1>1, <1>2, <2>1 DEF List, ReflectorInv, cachevars
  <2>2. CASE ListFails
    BY <1>1, <1>2, <2>2 DEF ListFails, ReflectorInv, cachevars
  <2>3. CASE processEventWaits
    BY <1>1, <1>2, <2>3 DEF processEventWaits, HasEvent, CacheWritable, ReflectorInv, cachevars
  <2>4. CASE ListAndWatchEnds
    BY <1>1, <1>2, <2>4 DEF ListAndWatchEnds, ReflectorInv, cachevars
  <2>5. QED
    BY <2>1, <2>2, <2>3, <2>4
<1>7. ASSUME NEW w \in Watchers
      PROVE  Fine(log, resourceVersion, Given(w), incoming, view[w], got[w], watcher[w])'
  <2>1. Given(w)' = Given(w)
    BY <1>2 DEF Given
  <2>2. QED
    BY <1>2, <2>1, OfWatcher DEF cachevars
<1>8. WatchersInv'
  BY <1>1, <1>2, <1>7 DEF WatchersInv
<1>9. QED
  BY <1>4, <1>5, <1>6, <1>8 DEF IInv

\* Replace forgets the window; nobody is registered and nothing is queued.
LEMMA ReplaceStep ==
  ASSUME IInv, Replace
  PROVE  IInv'
<1>1. /\ History(log) /\ CacheInv /\ DispatchInv /\ ReflectorInv /\ WatchersInv
  BY DEF IInv
<1>2. /\ at = "replace" /\ at' = "watch" /\ ready' = TRUE /\ listed' = 0
      /\ startIndex' = 0 /\ endIndex' = 0 /\ store' = StateAt(log, listed) /\ resourceVersion' = listed
      /\ UNCHANGED <<log, cache, incoming, dispatch, watcher, view, got>>
  BY DEF Replace, storagevars, watchvars
<1>3. /\ incoming = <<>> /\ dispatch = Idle
      /\ \A w \in Watchers : ~watcher[w].listed /\ watcher[w].at \notin {"called", "locked"}
  BY <1>1, <1>2 DEF ReflectorInv
<1>4. Len(log) \in Nat /\ listed \in 0 .. Len(log) /\ Capacity \in Nat
  BY <1>1, Sizes DEF History, CacheInv
<1>5. History(log)'
  BY <1>1, <1>2 DEF History, DeletesWhatIs
<1>6. CacheInv'
  <2>1. <<>> \in Seq(Event(log)) /\ Len(<<>>) = 0
    OBVIOUS
  <2>2. RunFrom(log, listed, <<>>)
    BY <1>4, <2>1 DEF RunFrom
  <2>3. listed - Len(<<>>) = listed
    BY <1>4, <2>1
  <2>4. cache = [i \in 0 .. Capacity - 1 |-> cache[i]]
    BY <1>1 DEF CacheInv
  <2>5. QED
    BY <1>2, <1>3, <1>4, <2>1, <2>2, <2>3, <2>4 DEF CacheInv
<1>7. DispatchInv'
  BY <1>1, <1>2 DEF DispatchInv
<1>8. ReflectorInv'
  BY <1>1, <1>2 DEF ReflectorInv
<1>9. ASSUME NEW w \in Watchers
      PROVE  Fine(log, resourceVersion, Given(w), incoming, view[w], got[w], watcher[w])'
  <2>1. Fine(log, listed, Given(w), incoming, view[w], got[w], watcher[w])
    BY <1>3, OfWatcher, FineElsewhere
  <2>2. Given(w)' = Given(w)
    BY <1>2 DEF Given
  <2>3. QED
    BY <1>2, <2>1, <2>2
<1>10. WatchersInv'
  BY <1>1, <1>2, <1>9 DEF WatchersInv
<1>11. QED
  BY <1>5, <1>6, <1>7, <1>8, <1>10 DEF IInv

\* A run grows at its end.
LEMMA RunGrows ==
  ASSUME NEW h, History(h), NEW r \in Nat, r < Len(h), NEW s, Len(s) <= r, RunFrom(h, r - Len(s), s)
  PROVE  /\ Append(s, Ev(h, r + 1)) \in Seq(Event(h)) /\ Len(Append(s, Ev(h, r + 1))) = Len(s) + 1
         /\ RunFrom(h, r - Len(s), Append(s, Ev(h, r + 1)))
<1>1. h \in Seq(WriteType) /\ Len(h) \in Nat /\ s \in Seq(Event(h)) /\ Len(s) \in Nat
  BY DEF History, RunFrom
<1>2. r + 1 \in 1 .. Len(h)
  BY <1>1
<1>3. Ev(h, r + 1) \in Event(h)
  BY <1>1, <1>2, EvTyped
<1> DEFINE e == Ev(h, r + 1)
           t == Append(s, e)
<1> HIDE DEF e
<1>4. /\ t \in Seq(Event(h)) /\ Len(t) = Len(s) + 1
      /\ \A i \in 1 .. Len(s) : t[i] = s[i]
      /\ t[Len(s) + 1] = e
  BY <1>1, <1>3 DEF e
<1> HIDE DEF t
<1>5. ASSUME NEW i \in 1 .. Len(t)
      PROVE  t[i] = Ev(h, (r - Len(s)) + i)
  <2>1. CASE i \in 1 .. Len(s)
    BY <1>4, <2>1 DEF RunFrom
  <2>2. CASE i = Len(s) + 1
    <3>1. (r - Len(s)) + i = r + 1
      BY <1>1, <2>2
    <3>2. QED
      BY <1>4, <2>2, <3>1 DEF e
  <2>3. QED
    BY <1>1, <1>4, <2>1, <2>2
<1>6. RunFrom(h, r - Len(s), t)
  BY <1>1, <1>4, <1>5 DEF RunFrom
<1>7. QED
  BY <1>4, <1>6 DEF t, e

\* The rest of a run is one.
LEMMA RunShrinks ==
  ASSUME NEW h, NEW r \in Nat, NEW s, Len(s) <= r, RunFrom(h, r - Len(s), s), s # <<>>
  PROVE  /\ Tail(s) \in Seq(Event(h)) /\ Head(s) \in Event(h) /\ Len(Tail(s)) = Len(s) - 1
         /\ RunFrom(h, r - Len(Tail(s)), Tail(s))
<1>1. s \in Seq(Event(h)) /\ Len(s) \in Nat /\ Len(s) # 0
  BY DEF RunFrom
<1> DEFINE t == Tail(s)
<1>2. /\ t \in Seq(Event(h)) /\ Len(t) = Len(s) - 1 /\ Head(s) \in Event(h)
      /\ \A i \in 1 .. Len(t) : t[i] = s[i + 1]
  BY <1>1
<1> HIDE DEF t
<1>3. ASSUME NEW i \in 1 .. Len(t)
      PROVE  t[i] = Ev(h, (r - Len(t)) + i)
  <2>1. i + 1 \in 1 .. Len(s) /\ (r - Len(s)) + (i + 1) = (r - Len(t)) + i
    BY <1>1, <1>2
  <2>2. s[i + 1] = Ev(h, (r - Len(s)) + (i + 1))
    BY <2>1 DEF RunFrom
  <2>3. QED
    BY <1>2, <2>1, <2>2
<1>4. r - Len(t) \in Nat /\ (r - Len(t)) + Len(t) <= Len(h)
  BY <1>1, <1>2 DEF RunFrom
<1>5. RunFrom(h, r - Len(t), t)
  BY <1>2, <1>3, <1>4 DEF RunFrom
<1>6. QED
  BY <1>2, <1>5 DEF t

\* updateCache: the window holds the latest events, also when it is full and
\* starts over at the front of the buffer.
LEMMA WindowMoves ==
  ASSUME CacheInv, NEW n, n = resourceVersion + 1, NEW event, event = Ev(log, n), updateCache(event)
  PROVE  /\ startIndex' \in Nat /\ endIndex' \in startIndex' .. startIndex' + Capacity
         /\ endIndex' - startIndex' <= n
         /\ cache' = [i \in 0 .. Capacity - 1 |-> cache'[i]]
         /\ \A j \in startIndex' .. endIndex' - 1 : cache'[j % Capacity] = Ev(log, (n - endIndex') + 1 + j)
<1>1. /\ startIndex \in Nat /\ endIndex \in Nat /\ Capacity \in Nat \ {0} /\ resourceVersion \in Nat
      /\ endIndex >= startIndex /\ endIndex <= startIndex + Capacity
      /\ endIndex - startIndex <= resourceVersion
  BY Sizes DEF CacheInv
<1>2. /\ startIndex' = IF endIndex = startIndex + Capacity THEN startIndex + 1 ELSE startIndex
      /\ cache' = [cache EXCEPT ![endIndex % Capacity] = event]
      /\ endIndex' = endIndex + 1
  BY DEF updateCache
<1>3. /\ startIndex' \in Nat /\ endIndex' \in startIndex' .. startIndex' + Capacity
      /\ startIndex' >= startIndex /\ endIndex < startIndex' + Capacity
      /\ endIndex' - startIndex' <= n
  BY <1>1, <1>2
<1>4. /\ \A i \in 0 .. Capacity - 1 : cache'[i] = IF i = endIndex % Capacity THEN event ELSE cache[i]
      /\ cache' = [i \in 0 .. Capacity - 1 |-> cache'[i]]
  <2>1. cache = [i \in 0 .. Capacity - 1 |-> cache[i]]
    BY DEF CacheInv
  <2> DEFINE p == endIndex % Capacity
  <2>2. cache' = [cache EXCEPT ![p] = event]
    BY <1>2
  <2> HIDE DEF p
  <2>3. \A i \in 0 .. Capacity - 1 : cache'[i] = IF i = p THEN event ELSE cache[i]
    BY <2>1, <2>2
  <2>4. cache' = [i \in 0 .. Capacity - 1 |-> cache'[i]]
    BY <2>1, <2>2
  <2>5. QED
    BY <2>3, <2>4 DEF p
<1>5. endIndex % Capacity \in 0 .. Capacity - 1
  BY <1>1
<1>6. ASSUME NEW j \in startIndex' .. endIndex' - 1
      PROVE  cache'[j % Capacity] = Ev(log, (n - endIndex') + 1 + j)
  <2>1. j \in Nat /\ (j = endIndex \/ j < endIndex) /\ endIndex < j + Capacity /\ j >= startIndex
    BY <1>1, <1>2, <1>3
  <2>2. CASE j = endIndex
    <3>1. (n - endIndex') + 1 + j = n
      BY <1>1, <1>2, <2>2
    <3>2. QED
      BY <1>4, <1>5, <2>2, <3>1
  <2>3. CASE j < endIndex
    <3>1. j % Capacity # endIndex % Capacity /\ j % Capacity \in 0 .. Capacity - 1
      BY <1>1, <2>1, <2>3, DifferentPlaces
    <3>2. j \in startIndex .. endIndex - 1
      BY <1>1, <2>1, <2>3
    <3>3. cache[j % Capacity] = Ev(log, (resourceVersion - endIndex) + 1 + j)
      BY <3>2 DEF CacheInv
    <3>4. (n - endIndex') + 1 + j = (resourceVersion - endIndex) + 1 + j
      BY <1>1, <1>2, <2>1
    <3>5. QED
      BY <1>4, <3>1, <3>3, <3>4
  <2>4. QED
    BY <2>1, <2>2, <2>3
<1>7. QED
  BY <1>3, <1>4, <1>6

\* The watchCache takes the next event of the storage.
LEMMA ProcessEventStep ==
  ASSUME IInv, processEvent
  PROVE  IInv'
<1> DEFINE n == resourceVersion + 1
           k == log[n].key
           event == [rv |-> n, type |-> log[n].type, obj |-> n, prev |-> store[k]]
<1>1. /\ History(log) /\ CacheInv /\ DispatchInv /\ ReflectorInv /\ WatchersInv
  BY DEF IInv
<1>2. /\ HasEvent \/ at = "send"
      /\ incoming' = Append(incoming, event)
      /\ updateCache(event)
      /\ resourceVersion' = n
      /\ store' = [store EXCEPT ![k] = IF event.type = "Deleted" THEN None ELSE n]
      /\ at' = "watch"
      /\ UNCHANGED <<log, listed, ready, dispatch, watcher, view, got>>
  BY DEF processEvent, storagevars, watchvars
<1>3. CacheWritable /\ resourceVersion < Len(log) /\ at \in {"watch", "send"}
  BY <1>1, <1>2 DEF HasEvent, ReflectorInv
<1>4. /\ log \in Seq(WriteType) /\ Len(log) \in Nat /\ resourceVersion \in Nat
      /\ n \in 1 .. Len(log) /\ n - 1 = resourceVersion /\ resourceVersion \in 0 .. Len(log)
      /\ store = StateAt(log, resourceVersion) /\ listed \in 0 .. Len(log)
      /\ Len(incoming) <= resourceVersion /\ RunFrom(log, resourceVersion - Len(incoming), incoming)
  <2>1. log \in Seq(WriteType) /\ Len(log) \in Nat
    BY <1>1 DEF History
  <2>2. /\ resourceVersion \in 0 .. Len(log) /\ listed \in 0 .. Len(log)
        /\ store = StateAt(log, resourceVersion)
        /\ Len(incoming) <= resourceVersion /\ RunFrom(log, resourceVersion - Len(incoming), incoming)
    BY <1>1 DEF CacheInv
  <2>3. QED
    BY <1>3, <2>1, <2>2
<1> HIDE DEF n
<1>5. event = Ev(log, n)
  BY <1>4 DEF Ev
<1>6. k \in Keys /\ log[n].type = event.type
  BY <1>4, EvTyped
<1>7. store' = StateAt(log, n)
  <2>1. StateAt(log, n) = [q \in Keys |-> StateAt(log, n)[q]]
    BY DEF StateAt
  <2>2. store = [q \in Keys |-> store[q]]
    BY <1>4 DEF StateAt
  <2> DEFINE c == IF event.type = "Deleted" THEN None ELSE n
  <2>3. ASSUME NEW q \in Keys
        PROVE  StateAt(log, n)[q] = IF k = q THEN c ELSE store[q]
    BY <1>4, <1>6, NextState
  <2>4. store' = [store EXCEPT ![k] = c]
    BY <1>2
  <2> HIDE DEF c, k
  <2>5. QED
    BY <1>6, <2>1, <2>2, <2>3, <2>4
<1> HIDE DEF event, k
<1>8. /\ incoming' \in Seq(Event(log)) /\ Len(incoming') <= n /\ RunFrom(log, n - Len(incoming'), incoming')
      /\ incoming' = Append(incoming, Ev(log, resourceVersion + 1))
  <2>1. /\ Append(incoming, Ev(log, resourceVersion + 1)) \in Seq(Event(log))
        /\ Len(Append(incoming, Ev(log, resourceVersion + 1))) = Len(incoming) + 1
        /\ RunFrom(log, resourceVersion - Len(incoming), Append(incoming, Ev(log, resourceVersion + 1)))
    BY <1>1, <1>3, <1>4, RunGrows
  <2>2. incoming' = Append(incoming, Ev(log, resourceVersion + 1))
    BY <1>2, <1>5 DEF n
  <2>3. Len(incoming) \in Nat
    BY <1>4 DEF RunFrom
  <2>4. Len(incoming') = Len(incoming) + 1
    BY <2>1, <2>2
  <2>5. n - Len(incoming') = resourceVersion - Len(incoming) /\ Len(incoming') <= n
    BY <1>4, <2>3, <2>4 DEF n
  <2>6. QED
    BY <2>1, <2>2, <2>5
<1>9. History(log)'
  BY <1>1, <1>2 DEF History, DeletesWhatIs
<1>10. CacheInv'
  <2>1. /\ startIndex' \in Nat /\ endIndex' \in startIndex' .. startIndex' + Capacity
        /\ endIndex' - startIndex' <= n
        /\ cache' = [i \in 0 .. Capacity - 1 |-> cache'[i]]
        /\ \A j \in startIndex' .. endIndex' - 1 : cache'[j % Capacity] = Ev(log, (n - endIndex') + 1 + j)
    <3>1. n = resourceVersion + 1
      BY DEF n
    <3>2. QED
      BY <1>1, <1>2, <1>5, <3>1, WindowMoves
  <2>2. n \in 0 .. Len(log)
    BY <1>4
  <2>3. log' = log /\ listed' = listed /\ resourceVersion' = n
    BY <1>2
  <2>4. QED
    BY <1>4, <1>7, <1>8, <2>1, <2>2, <2>3 DEF CacheInv
<1>11. DispatchInv'
  BY <1>1, <1>2 DEF DispatchInv
<1>12. ReflectorInv'
  BY <1>1, <1>2 DEF ReflectorInv
<1>13. ASSUME NEW w \in Watchers
       PROVE  Fine(log, resourceVersion, Given(w), incoming, view[w], got[w], watcher[w])'
  <2>1. watcher[w].at # "locked"
    BY <1>3 DEF CacheWritable
  <2>2. Fine(log, resourceVersion + 1, Given(w), Append(incoming, Ev(log, resourceVersion + 1)),
             view[w], got[w], watcher[w])
    BY <1>3, <1>4, <2>1, OfWatcher, FineQueue
  <2>3. Given(w)' = Given(w) /\ resourceVersion' = resourceVersion + 1
    BY <1>2 DEF Given, n
  <2>4. QED
    BY <1>2, <1>8, <2>2, <2>3
<1>14. WatchersInv'
  BY <1>1, <1>2, <1>13 DEF WatchersInv
<1>15. QED
  BY <1>9, <1>10, <1>11, <1>12, <1>14 DEF IInv

\* The dispatcher takes an event for the watchers it concerns: their trigger
\* value is the object's, or was.
LEMMA DispatchEventStep ==
  ASSUME IInv, dispatchEvent
  PROVE  IInv'
<1> DEFINE e == Head(incoming)
<1>1. /\ History(log) /\ CacheInv /\ DispatchInv /\ ReflectorInv /\ WatchersInv
  BY DEF IInv
<1>2. /\ incoming # <<>> /\ dispatch = Idle
      /\ incoming' = Tail(incoming)
      /\ dispatch' = [event |-> e, todo |-> Targets(e), slow |-> {}]
      /\ UNCHANGED <<log, at, listed, ready, cachevars, watcher, view, got>>
  BY DEF dispatchEvent, CacherFree, storagevars, reflvars, watchvars
<1>3. /\ incoming \in Seq(Event(log)) /\ resourceVersion \in Nat
      /\ Len(incoming) <= resourceVersion /\ RunFrom(log, resourceVersion - Len(incoming), incoming)
      /\ Len(incoming) \in Nat
  BY <1>1 DEF CacheInv, History
<1>4. /\ incoming' \in Seq(Event(log)) /\ e \in Event(log) /\ Len(incoming') = Len(incoming) - 1
      /\ RunFrom(log, resourceVersion - Len(incoming'), incoming')
  BY <1>2, <1>3, RunShrinks
<1>5. History(log)'
  BY <1>1, <1>2 DEF History, DeletesWhatIs
<1>6. CacheInv'
  <2>1. Len(incoming') <= resourceVersion
    BY <1>3, <1>4
  <2>2. QED
    BY <1>1, <1>2, <1>4, <2>1 DEF CacheInv, cachevars
<1> HIDE DEF e
<1>7. DispatchInv'
  <2>1. Targets(e) \subseteq Watchers /\ \A w \in Targets(e) : watcher[w].listed
    BY DEF Targets
  <2>2. QED
    BY <1>2, <1>4, <2>1 DEF DispatchInv
<1>8. at \notin {"list", "replace"}
  BY <1>1, <1>2 DEF ReflectorInv
<1>9. ReflectorInv'
  BY <1>1, <1>2, <1>8 DEF ReflectorInv, CacheWritable, cachevars
<1>10. ASSUME NEW w \in Watchers
       PROVE  Fine(log, resourceVersion, Given(w), incoming, view[w], got[w], watcher[w])'
  <2> DEFINE me == watcher[w]
             giv == IF w \in Targets(e) THEN <<e>> ELSE <<>>
  <2>1. Given(w)' = giv
    BY <1>2 DEF Given
  <2>2. Given(w) = <<>>
    BY <1>2, OfWatcher
  <2>3. IF me.listed /\ (me.sel = Everything \/ me.sel \in {log[n].value : n \in {e.obj, e.prev} \ {None}})
        THEN giv = <<e>> ELSE giv = <<>>
    BY DEF Targets, triggerValues
  <2>4. me.at = "locked" => giv = <<>>
    <3>1. me.at = "locked" => ~me.listed
      BY OfWatcher DEF Shape
    <3>2. QED
      BY <3>1 DEF Targets
  <2> HIDE DEF giv
  <2>5. Fine(log, resourceVersion, giv, Tail(incoming), view[w], got[w], me)
    BY <1>2, <2>2, <2>3, <2>4, OfWatcher, FineDispatch DEF e
  <2>6. QED
    BY <1>2, <2>1, <2>5 DEF cachevars
<1>11. WatchersInv'
  BY <1>1, <1>2, <1>10 DEF WatchersInv
<1>12. QED
  BY <1>5, <1>6, <1>7, <1>9, <1>11 DEF IInv

\* The dispatcher starts to wait for a watcher, or is done with an event.
LEMMA DispatchOnlyStep ==
  ASSUME IInv, dispatchEventEnds \/ \E w \in Watchers : addWaits(w)
  PROVE  IInv'
<1>1. /\ History(log) /\ CacheInv /\ DispatchInv /\ ReflectorInv /\ WatchersInv
  BY DEF IInv
<1>2. UNCHANGED <<log, at, listed, ready, cachevars, incoming, watcher, view, got>>
  BY DEF dispatchEventEnds, addWaits, storagevars, reflvars, watchvars
<1>3. /\ DispatchInv' /\ dispatch'.todo = dispatch.todo
      /\ dispatch'.todo # {} => dispatch'.event = dispatch.event
      /\ dispatch = Idle => dispatch' = Idle
  <2>1. CASE dispatchEventEnds
    BY <1>1, <1>2, <2>1 DEF dispatchEventEnds, DispatchInv, Idle
  <2>2. ASSUME NEW w \in Watchers, addWaits(w)
        PROVE  /\ DispatchInv' /\ dispatch'.todo = dispatch.todo /\ dispatch'.event = dispatch.event
               /\ dispatch # Idle
    <3>1. w \in dispatch.todo /\ dispatch' = [dispatch EXCEPT !.slow = {w}]
      BY <2>2 DEF addWaits
    <3>2. dispatch # Idle
      BY <3>1 DEF Idle
    <3>3. QED
      BY <1>1, <1>2, <3>1, <3>2 DEF DispatchInv
  <2>3. QED
    BY <2>1, <2>2
<1>4. History(log)' /\ CacheInv'
  BY <1>1, <1>2, CacheQuiet
<1>5. ReflectorInv'
  BY <1>1, <1>2, <1>3 DEF ReflectorInv, CacheWritable, cachevars
<1>6. ASSUME NEW w \in Watchers
      PROVE  Fine(log, resourceVersion, Given(w), incoming, view[w], got[w], watcher[w])'
  <2>1. Given(w)' = Given(w)
    BY <1>3 DEF Given
  <2>2. QED
    BY <1>2, <2>1, OfWatcher DEF cachevars
<1>7. WatchersInv'
  BY <1>1, <1>2, <1>6 DEF WatchersInv
<1>8. QED
  BY <1>3, <1>4, <1>5, <1>7 DEF IInv

\* The dispatcher is done with a watcher.
LEMMA ServedStep ==
  ASSUME IInv, NEW w \in Watchers, w \in dispatch.todo, Served(w), NEW m,
         watcher' = [watcher EXCEPT ![w] = m], m.at = "running",
         UNCHANGED <<log, at, listed, ready, cachevars, incoming, view, got>>,
         Fine(log, resourceVersion, <<>>, incoming, view[w], got[w], m)
  PROVE  IInv'
<1>1. /\ History(log) /\ CacheInv /\ DispatchInv /\ ReflectorInv /\ WatchersInv
  BY DEF IInv
<1>2. watcher' = [v \in Watchers |-> IF v = w THEN m ELSE watcher[v]]
  BY <1>1 DEF WatchersInv
<1>3. /\ dispatch' = [event |-> dispatch.event, todo |-> dispatch.todo \ {w}, slow |-> {}]
      /\ dispatch.event \in Event(log)
  BY <1>1 DEF DispatchInv, Served
<1>4. History(log)' /\ CacheInv'
  BY <1>1, CacheQuiet
<1>5. DispatchInv'
  <2>1. \A v \in dispatch.todo \ {w} : v \in Watchers /\ watcher'[v].listed
    BY <1>1, <1>2 DEF DispatchInv
  <2>2. QED
    BY <1>1, <1>3, <2>1 DEF DispatchInv
<1>6. at \notin {"list", "replace"}
  BY <1>1 DEF ReflectorInv, Idle
<1>7. ReflectorInv'
  <2>1. at = "send" => \A v \in Watchers : watcher'[v].at # "locked"
    BY <1>1, <1>2 DEF ReflectorInv, CacheWritable
  <2>2. QED
    BY <1>1, <1>6, <2>1 DEF ReflectorInv, CacheWritable, cachevars
<1>8. ASSUME NEW v \in Watchers
      PROVE  Fine(log, resourceVersion, Given(v), incoming, view[v], got[v], watcher[v])'
  <2>1. CASE v = w
    <3>1. Given(v)' = <<>> /\ watcher'[v] = m
      BY <1>2, <1>3, <2>1 DEF Given
    <3>2. QED
      BY <2>1, <3>1 DEF cachevars
  <2>2. CASE v # w
    <3>1. Given(v)' = Given(v) /\ watcher'[v] = watcher[v]
      BY <1>2, <1>3, <2>2 DEF Given
    <3>2. QED
      BY <3>1, OfWatcher DEF cachevars
  <2>3. QED
    BY <2>1, <2>2
<1>9. WatchersInv'
  BY <1>1, <1>2, <1>8 DEF WatchersInv
<1>10. QED
  BY <1>4, <1>5, <1>7, <1>9 DEF IInv

\* It has put the event into the watcher's channel.
LEMMA AddStep ==
  ASSUME IInv, NEW w \in Watchers, add(w)
  PROVE  IInv'
<1> DEFINE me == watcher[w]
           e == dispatch.event
           m == [me EXCEPT !.input = Append(@, e)]
<1>1. /\ w \in dispatch.todo /\ Served(w)
      /\ watcher' = [watcher EXCEPT ![w] = m]
      /\ UNCHANGED <<log, at, listed, ready, cachevars, incoming, view, got>>
  BY DEF add, storagevars, reflvars
<1>2. me.listed /\ e \in Event(log) /\ Given(w) = <<e>>
  BY <1>1 DEF IInv, DispatchInv, Given
<1>3. /\ me \in WatcherType(log) /\ me.at = "running"
      /\ Fine(log, resourceVersion, <<e>>, incoming, view[w], got[w], me)
  BY <1>2, OfWatcher DEF Shape
<1>4. Fine(log, resourceVersion, <<>>, incoming, view[w], got[w], m)
  <2> HIDE DEF e, me
  <2>1. QED
    BY <1>2, <1>3, OfWatcher, FineAdd
<1>5. m.at = "running"
  BY <1>3 DEF WatcherType
<1> HIDE DEF m
<1>6. QED
  BY <1>1, <1>4, <1>5, ServedStep

\* The time budget is used up, and it stops the watcher.
LEMMA AddTimesOutStep ==
  ASSUME IInv, NEW w \in Watchers, addTimesOut(w)
  PROVE  IInv'
<1> DEFINE me == watcher[w]
           m == [me EXCEPT !.listed = FALSE, !.done = TRUE]
<1>1. /\ dispatch.slow = {w} /\ Served(w)
      /\ UNCHANGED <<log, at, listed, ready, cachevars, incoming, view, got>>
  BY DEF addTimesOut, storagevars, reflvars
<1>2. watcher' = [watcher EXCEPT ![w] = m]
  BY DEF addTimesOut, IInv, WatchersInv
<1>3. w \in dispatch.todo /\ me.listed
  BY <1>1 DEF IInv, DispatchInv
<1>4. /\ me \in WatcherType(log) /\ me.at = "running"
      /\ Fine(log, resourceVersion, Given(w), incoming, view[w], got[w], me)
  BY <1>3, OfWatcher DEF Shape
<1>5. Fine(log, resourceVersion, <<>>, incoming, view[w], got[w], m)
  BY <1>4, FineStop
<1>6. m.at = "running"
  BY <1>4 DEF WatcherType
<1> HIDE DEF m
<1>7. QED
  BY <1>1, <1>2, <1>3, <1>5, <1>6, ServedStep

-----------------------------------------------------------------------------
(* The theorems.                                                           *)

\* Every step keeps the invariant.
LEMMA NextIInv == IInv /\ [Next]_vars => IInv'
<1> SUFFICES ASSUME IInv, [Next]_vars
             PROVE  IInv'
  OBVIOUS
<1>1. ASSUME NEW k \in Keys, Write(k)
      PROVE  IInv'
  BY <1>1, WriteStep
<1>2. CASE Reflect
  BY <1>2, StartCachingStep, ReflectorStep, ReplaceStep, ProcessEventStep DEF Reflect
<1>3. CASE dispatchEvents
  BY <1>3, DispatchEventStep, DispatchOnlyStep, AddStep, AddTimesOutStep DEF dispatchEvents
<1>4. ASSUME NEW w \in Watchers, Client(w)
      PROVE  IInv'
  BY <1>4, WatchStep, GetEventsStep, GoneStep, RegisterStep, ReceiveStep, StopStep DEF Client
<1>5. ASSUME NEW w \in Watchers, process(w)
      PROVE  IInv'
  BY <1>5, ProcessInitStep, ProcessInputStep, SendUnblockedStep, ProcessEndsStep DEF process
<1>6. CASE UNCHANGED vars
  <2>1. UNCHANGED <<log, at, listed, ready, cachevars, incoming, dispatch, watcher, view, got>>
    BY <1>6 DEF vars, storagevars, reflvars, watchvars
  <2>2. History(log)' /\ CacheInv'
    BY <2>1, CacheQuiet DEF IInv
  <2>3. DispatchInv'
    BY <2>1 DEF IInv, DispatchInv
  <2>4. ReflectorInv'
    BY <2>1 DEF IInv, ReflectorInv, CacheWritable, cachevars
  <2>5. ASSUME NEW w \in Watchers
        PROVE  Fine(log, resourceVersion, Given(w), incoming, view[w], got[w], watcher[w])'
    <3>1. Given(w)' = Given(w)
      BY <2>1 DEF Given
    <3>2. QED
      BY <2>1, <3>1, OfWatcher DEF cachevars
  <2>6. WatchersInv'
    BY <2>1, <2>5 DEF IInv, WatchersInv
  <2>7. QED
    BY <2>2, <2>3, <2>4, <2>6 DEF IInv
<1>7. QED
  BY <1>1, <1>2, <1>3, <1>4, <1>5, <1>6 DEF Next

\* Whatever the interleaving of writes, reflector, dispatcher, clients and
\* watchers: the window and the queue hold the storage's last events in order,
\* and each watcher is sent its events without a gap.
THEOREM CacherInvariant == Spec => []IInv
<1>1. QED
  BY InitIInv, NextIInv, PTL DEF Spec

\* The dispatcher never sends to a channel that stop has closed: it only gives
\* events to registered watchers, and who stops one has unregistered it.
THEOREM DispatcherNeverSendsOnClosed == Spec => []NeverSendsOnClosed
<1>1. IInv => NeverSendsOnClosed
  <2> SUFFICES ASSUME IInv, NEW w \in dispatch.todo
               PROVE  ~watcher[w].done
    BY DEF NeverSendsOnClosed
  <2>1. w \in Watchers /\ watcher[w].listed
    BY DEF IInv, DispatchInv
  <2>2. QED
    BY <2>1, OfWatcher DEF Shape
<1>2. QED
  BY <1>1, CacherInvariant, PTL

\* For all sizes of window and channels, all keys, selectors and clients: what a
\* registered client has received and what is on its way to it add up to the
\* cache's state, through lists, overflows, time-outs and reconnections.
THEOREM WatchLosesNothing == Spec => []NothingLost
<1>1. IInv => NothingLost
  <2> SUFFICES ASSUME IInv, NEW w \in Watchers, watcher[w].listed, ~watcher[w].lostEdge
               PROVE  NothingLostBy(w)
    BY DEF NothingLost
  <2> DEFINE me == watcher[w]
  <2>1. Fine(log, resourceVersion, Given(w), incoming, view[w], got[w], me)
    BY OfWatcher
  <2>2. UpToDate(log, me.sel, got[w], Later(me.rv, resourceVersion), All(log, view[w], me, Given(w), incoming))
    BY <2>1 DEF Fine, Consistent
  <2>3. All(log, view[w], me, Given(w), incoming).v
          = Filtered(log, me.sel, StateAt(log, Later(me.rv, resourceVersion)))
    BY <2>2 DEF UpToDate, Right
  <2>4. Outcome(w) = All(log, view[w], me, Given(w), incoming).v
    <3> DEFINE p1 == Go(log, Client0(view[w]), me.result)
               p3 == Started(log, view[w], me)
               p4 == Queued(log, view[w], me)
               p5 == Go(log, p4, Seen(log, me.sel, me.rv, Given(w)))
    <3>1. p1.v = After(log, view[w], me.result)
      BY DEF Go, Client0
    <3>2. Sent(log, view[w], me).v = After(log, p1.v, Seen(log, me.sel, 0, me.hand))
      BY DEF Sent, Go
    <3>3. p3.v = After(log, Sent(log, view[w], me).v, Seen(log, me.sel, 0, me.init))
      BY DEF Started, Go
    <3>4. p4.v = After(log, p3.v, Seen(log, me.sel, me.rv, me.input))
      BY DEF Queued, Go
    <3>5. p5.v = After(log, p4.v, Seen(log, me.sel, me.rv, Given(w)))
      BY DEF Go
    <3>6. All(log, view[w], me, Given(w), incoming).v
            = After(log, p5.v, Seen(log, me.sel, me.rv, incoming))
      BY DEF All, Go
    <3> HIDE DEF p1, p3, p4, p5
    <3>7. QED
      BY <3>1, <3>2, <3>3, <3>4, <3>5, <3>6 DEF Outcome
  <2>5. Current(w) = Later(me.rv, resourceVersion)
    BY DEF Current, Later
  <2>6. QED
    BY <2>3, <2>4, <2>5 DEF NothingLostBy
<1>2. QED
  BY <1>1, CacherInvariant, PTL

\* What a running or closed watcher's client learns, it receives.
LEMMA OnlyReceives ==
  ASSUME IInv, Next, NEW w \in Watchers, got'[w] # got[w], watcher[w].at \in {"running", "closed"}
  PROVE  Receive(w)
<1>1. got = [v \in Watchers |-> got[v]]
  BY DEF IInv, WatchersInv
<1>2. ASSUME NEW k \in Keys, Write(k)
      PROVE  FALSE
  BY <1>2 DEF Write, watchvars
<1>3. CASE Reflect
  BY <1>3 DEF Reflect, startCaching, List, ListFails, Replace, processEvent, processEventWaits,
              ListAndWatchEnds, watchvars
<1>4. CASE dispatchEvents
  BY <1>4 DEF dispatchEvents, dispatchEvent, dispatchEventEnds, add, addWaits, addTimesOut, watchvars
<1>5. ASSUME NEW v \in Watchers, process(v)
      PROVE  FALSE
  BY <1>5 DEF process, processInit, processInput, sendUnblocked, processEnds
<1>6. ASSUME NEW v \in Watchers, Client(v)
      PROVE  Receive(w)
  <2>1. ASSUME NEW rv, NEW sel, Watch(v, rv, sel)
        PROVE  FALSE
    <3>1. got' = [got EXCEPT ![v] = rv] /\ watcher[v].at = "idle"
      BY <2>1 DEF Watch
    <3>2. QED
      BY <1>1, <3>1
  <2>2. CASE GetEvents(v)
    <3> DEFINE c == IF watcher[v].rv = 0 THEN resourceVersion ELSE watcher[v].rv
    <3>1. got' = [got EXCEPT ![v] = c] /\ watcher[v].at = "called"
      BY <2>2 DEF GetEvents
    <3> HIDE DEF c
    <3>2. QED
      BY <1>1, <3>1
  <2>3. CASE Gone(v)
    <3>1. got' = [got EXCEPT ![v] = 0] /\ watcher[v].at = "called"
      BY <2>3 DEF Gone
    <3>2. QED
      BY <1>1, <3>1
  <2>4. CASE Receive(v)
    <3> DEFINE c == IF Head(watcher[v].result).rv > got[v] THEN Head(watcher[v].result).rv ELSE got[v]
    <3>1. got' = [got EXCEPT ![v] = c]
      BY <1>1, <2>4 DEF Receive
    <3> HIDE DEF c
    <3>2. v = w
      BY <1>1, <3>1
    <3>3. QED
      BY <2>4, <3>2
  <2>5. CASE Register(v) \/ Stop(v) \/ stop(v)
    BY <2>5 DEF Register, Stop, stop
  <2>6. QED
    BY <1>6, <2>1, <2>2, <2>3, <2>4, <2>5 DEF Client
<1>7. QED
  BY <1>2, <1>3, <1>4, <1>5, <1>6 DEF Next

\* "We will deliver only consecutive events": the client of a watcher that runs,
\* is being stopped or has been closed never learns of a write when it has not
\* been told of one before it that concerns it.
THEOREM DeliversOnlyConsecutive == Spec => OnlyConsecutive
<1> DEFINE Consecutive ==
      \A w \in Watchers :
        got'[w] > got[w] /\ watcher[w].at \in {"running", "closed"} /\ ~watcher[w].lostEdge =>
          \A n \in got[w] + 1 .. got'[w] - 1 : ~Concerns(log, watcher[w].sel, n)
<1>1. ASSUME IInv, Next
      PROVE  Consecutive
  <2> SUFFICES ASSUME NEW w \in Watchers, got'[w] > got[w], watcher[w].at \in {"running", "closed"},
                      ~watcher[w].lostEdge, NEW n \in got[w] + 1 .. got'[w] - 1
               PROVE  ~Concerns(log, watcher[w].sel, n)
    OBVIOUS
  <2> DEFINE me == watcher[w]
             e == Head(me.result)
             x == view[w]
  <2>1. /\ Fine(log, resourceVersion, Given(w), incoming, x, got[w], me) /\ log \in Seq(WriteType)
        /\ me \in WatcherType(log) /\ Len(log) \in Nat
    BY <1>1, OfWatcher
  <2>2. got[w] \in Nat /\ Gapless(log, me.sel, got[w], Sent(log, x, me))
    BY <2>1 DEF Fine, Consistent
  <2>3. Receive(w)
    <3>1. got'[w] # got[w]
      <4>1. got'[w] = got[w] => n \in got[w] + 1 .. got[w] - 1
        OBVIOUS
      <4>2. QED
        BY <2>2, <4>1
    <3>2. QED
      BY <1>1, <3>1, OnlyReceives
  <2>4. me.result # <<>> /\ got'[w] = IF e.rv > got[w] THEN e.rv ELSE got[w]
    BY <1>1, <2>3 DEF Receive, IInv, WatchersInv
  <2>5. me.result \in Seq(Letter(log)) /\ Len(me.result) \in Nat /\ Len(me.result) # 0
        /\ e = me.result[1]
    BY <2>1, <2>4 DEF WatcherType
  <2>6. e.rv \in Nat
    <3>1. e \in Letter(log)
      BY <2>5
    <3>2. QED
      BY <2>1, <3>1 DEF Letter
  <2>7. n \in Nat \ {0} /\ n > got[w] /\ n < e.rv
    BY <2>2, <2>4, <2>6
  <2>8. n \in Skipped({}, me.result)
    <3>1. 1 \in 1 .. Len(me.result) /\ 1 .. 1 - 1 = {}
      BY <2>5
    <3>2. QED
      BY <2>5, <2>7, <3>1 DEF Skipped
  <2>9. n \in Go(log, Client0(x), me.result).bad
    BY <2>8 DEF Go, Client0
  <2>10. n \in Sent(log, x, me).bad
    <3> DEFINE p == Go(log, Client0(x), me.result)
               t == Seen(log, me.sel, 0, me.hand)
    <3>1. p.bad \subseteq Go(log, p, t).bad
      <4> HIDE DEF p, t
      <4>1. QED
        BY GoShape
    <3>2. Sent(log, x, me) = Go(log, p, t)
      BY DEF Sent
    <3> HIDE DEF p, t
    <3>3. n \in p.bad
      BY <2>9 DEF p
    <3>4. QED
      BY <3>1, <3>2, <3>3
  <2>11. QED
    BY <2>2, <2>7, <2>10 DEF Gapless
<1>2. IInv /\ [Next]_vars => [Consecutive]_vars
  <2> HIDE DEF Consecutive
  <2>1. QED
    BY <1>1
<1>3. OnlyConsecutive <=> [][Consecutive]_vars
  BY PTL DEF OnlyConsecutive
<1> HIDE DEF Consecutive
<1>4. QED
  BY <1>2, <1>3, CacherInvariant, PTL DEF Spec
=============================================================================
