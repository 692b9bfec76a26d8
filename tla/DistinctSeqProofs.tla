-------------------------- MODULE DistinctSeqProofs --------------------------
(***************************************************************************)
(* What appending to, popping from and joining queues without duplicates   *)
(* does to them.                                                           *)
(***************************************************************************)
EXTENDS DistinctSeq, WellFoundedInduction, TLAPS

\* Appending a new element keeps a sequence free of duplicates (q.queue in the
\* work queue's Add and Done, f.queue in queueActionLocked).
LEMMA AppendDistinct ==
  ASSUME NEW S, NEW s \in Seq(S), NEW e \in S, Distinct(s), e \notin RangeOf(s)
  PROVE  /\ Distinct(Append(s, e))
         /\ RangeOf(Append(s, e)) = RangeOf(s) \cup {e}
<1>1. DOMAIN Append(s, e) = 1 .. Len(s) + 1
  OBVIOUS
<1>2. /\ \A n \in 1 .. Len(s) : Append(s, e)[n] = s[n]
      /\ Append(s, e)[Len(s) + 1] = e
      /\ Len(s) \in Nat
      /\ DOMAIN s = 1 .. Len(s)
  OBVIOUS
<1>3. \A n \in 1 .. Len(s) + 1 : n \in 1 .. Len(s) \/ n = Len(s) + 1
  BY <1>2
<1>4. \A n \in 1 .. Len(s) : n \in 1 .. Len(s) + 1
  BY <1>2
<1>5. Distinct(Append(s, e))
  BY <1>1, <1>2, <1>3 DEF Distinct, RangeOf
<1>6. RangeOf(Append(s, e)) = RangeOf(s) \cup {e}
  <2>1. Len(s) + 1 \in 1 .. Len(s) + 1
    BY <1>2
  <2>2. QED
    BY <1>1, <1>2, <1>3, <1>4, <2>1 DEF RangeOf
<1>7. QED
  BY <1>5, <1>6

\* Taking the head of a sequence without duplicates removes exactly that
\* element (the work queue's Get, DeltaFIFO's Pop).
LEMMA TailDistinct ==
  ASSUME NEW S, NEW s \in Seq(S), s # <<>>, Distinct(s)
  PROVE  /\ Head(s) \in S
         /\ Head(s) \in RangeOf(s)
         /\ Tail(s) \in Seq(S)
         /\ Len(Tail(s)) = Len(s) - 1
         /\ Distinct(Tail(s))
         /\ RangeOf(Tail(s)) = RangeOf(s) \ {Head(s)}
<1>1. /\ Len(s) \in Nat /\ Len(s) # 0
      /\ DOMAIN s = 1 .. Len(s)
      /\ Head(s) = s[1]
      /\ Tail(s) \in Seq(S)
      /\ Len(Tail(s)) = Len(s) - 1
      /\ DOMAIN Tail(s) = 1 .. Len(s) - 1
      /\ \A n \in 1 .. Len(s) - 1 : Tail(s)[n] = s[n + 1]
  OBVIOUS
<1>2. Head(s) \in S /\ Head(s) \in RangeOf(s)
  BY <1>1 DEF RangeOf
<1>3. Distinct(Tail(s))
  BY <1>1 DEF Distinct
<1>4. RangeOf(Tail(s)) = RangeOf(s) \ {Head(s)}
  <2>1. ASSUME NEW n \in 1 .. Len(s) - 1
        PROVE  Tail(s)[n] \in RangeOf(s) \ {Head(s)}
    BY <1>1 DEF RangeOf, Distinct
  <2>2. ASSUME NEW n \in 1 .. Len(s), s[n] # Head(s)
        PROVE  s[n] \in RangeOf(Tail(s))
    <3>1. n - 1 \in 1 .. Len(s) - 1 /\ (n - 1) + 1 = n
      BY <1>1, <2>2
    <3>2. Tail(s)[n - 1] = s[n]
      BY <1>1, <3>1
    <3>3. QED
      BY <1>1, <3>1, <3>2 DEF RangeOf
  <2>3. QED
    BY <1>1, <2>1, <2>2 DEF RangeOf
<1>5. QED
  BY <1>1, <1>2, <1>3, <1>4

\* Joining two queues with nothing in common (the new keys of a list behind
\* those already queued, in DeltaFIFO's Replace).
LEMMA ConcatDistinct ==
  ASSUME NEW S, NEW s \in Seq(S), NEW t \in Seq(S), Distinct(s), Distinct(t),
         RangeOf(s) \cap RangeOf(t) = {}
  PROVE  /\ s \o t \in Seq(S)
         /\ Distinct(s \o t)
         /\ RangeOf(s \o t) = RangeOf(s) \cup RangeOf(t)
<1>1. /\ Len(s) \in Nat /\ Len(t) \in Nat
      /\ DOMAIN s = 1 .. Len(s) /\ DOMAIN t = 1 .. Len(t)
      /\ s \o t \in Seq(S)
      /\ DOMAIN (s \o t) = 1 .. Len(s) + Len(t)
      /\ \A n \in 1 .. Len(s) + Len(t) :
           (s \o t)[n] = IF n <= Len(s) THEN s[n] ELSE t[n - Len(s)]
  OBVIOUS
<1>2. ASSUME NEW n \in 1 .. Len(s) + Len(t)
      PROVE  \/ n \in 1 .. Len(s) /\ (s \o t)[n] = s[n] /\ s[n] \in RangeOf(s)
             \/ /\ n - Len(s) \in 1 .. Len(t) /\ ~(n \in 1 .. Len(s))
                /\ (s \o t)[n] = t[n - Len(s)] /\ t[n - Len(s)] \in RangeOf(t)
  <2>1. CASE n <= Len(s)
    <3>1. n \in 1 .. Len(s)
      BY <1>1, <2>1
    <3>2. QED
      BY <1>1, <2>1, <3>1 DEF RangeOf
  <2>2. CASE ~(n <= Len(s))
    <3>1. n - Len(s) \in 1 .. Len(t)
      BY <1>1, <2>2
    <3>2. QED
      BY <1>1, <2>2, <3>1 DEF RangeOf
  <2>3. QED
    BY <2>1, <2>2
<1>3. Distinct(s \o t)
  <2>1. SUFFICES ASSUME NEW m \in 1 .. Len(s) + Len(t), NEW n \in 1 .. Len(s) + Len(t),
                        (s \o t)[m] = (s \o t)[n]
                 PROVE  m = n
    BY <1>1 DEF Distinct
  <2>2. CASE m \in 1 .. Len(s) /\ n \in 1 .. Len(s)
    BY <1>1, <1>2, <2>1, <2>2 DEF Distinct
  <2>3. CASE ~(m \in 1 .. Len(s)) /\ ~(n \in 1 .. Len(s))
    <3>1. /\ m - Len(s) \in DOMAIN t /\ n - Len(s) \in DOMAIN t
          /\ t[m - Len(s)] = t[n - Len(s)]
      BY <1>1, <1>2, <2>1, <2>3
    <3>2. m - Len(s) = n - Len(s)
      BY <3>1 DEF Distinct
    <3>3. QED
      BY <1>1, <3>2
  <2>4. CASE ~(m \in 1 .. Len(s) <=> n \in 1 .. Len(s))
    BY <1>2, <2>1, <2>4
  <2>5. QED
    BY <2>2, <2>3, <2>4
<1>4. RangeOf(s \o t) = RangeOf(s) \cup RangeOf(t)
  <2>1. RangeOf(s \o t) \subseteq RangeOf(s) \cup RangeOf(t)
    BY <1>1, <1>2 DEF RangeOf
  <2>2. ASSUME NEW n \in 1 .. Len(s)
        PROVE  s[n] \in RangeOf(s \o t)
    <3>1. n \in 1 .. Len(s) + Len(t) /\ n <= Len(s)
      BY <1>1
    <3>2. (s \o t)[n] = s[n]
      BY <1>1, <3>1
    <3>3. QED
      BY <1>1, <3>1, <3>2 DEF RangeOf
  <2>3. ASSUME NEW n \in 1 .. Len(t)
        PROVE  t[n] \in RangeOf(s \o t)
    <3>1. /\ Len(s) + n \in 1 .. Len(s) + Len(t) /\ ~(Len(s) + n <= Len(s))
          /\ (Len(s) + n) - Len(s) = n
      BY <1>1
    <3>2. (s \o t)[Len(s) + n] = t[n]
      BY <1>1, <3>1
    <3>3. QED
      BY <1>1, <3>1, <3>2 DEF RangeOf
  <2>4. QED
    BY <1>1, <2>1, <2>2, <2>3 DEF RangeOf
<1>5. QED
  BY <1>1, <1>3, <1>4

\* The keys of a finite set in any order: a queue of just those keys.
LEMMA OrdersAreQueues ==
  ASSUME NEW K, NEW S, S \subseteq K, NEW p \in Orders(S), Cardinality(S) \in Nat
  PROVE  /\ p \in Seq(K) /\ Distinct(p) /\ RangeOf(p) = S
         /\ Len(p) = Cardinality(S)
<1>1. p \in [1 .. Cardinality(S) -> S] /\ Distinct(p) /\ RangeOf(p) = S
  BY DEF Orders
<1>2. p \in Seq(S) /\ p \in Seq(K) /\ Len(p) = Cardinality(S)
  BY <1>1
<1>3. QED
  BY <1>1, <1>2
-----------------------------------------------------------------------------
(* Where a search ends: the first or the last of the places that qualify.  *)

\* A set of natural numbers has a least member.
LEMMA LeastExists ==
  ASSUME NEW T \in SUBSET Nat, T # {}
  PROVE  \E x \in T : \A y \in T : x <= y
<1>1. \E x \in T : \A y \in T : ~(<<y, x>> \in OpToRel(<, Nat))
  BY WFMin, NatLessThanWellFounded, Zenon
<1>2. ASSUME NEW x \in Nat, NEW y \in Nat, y < x
      PROVE  <<y, x>> \in OpToRel(<, Nat)
  BY <1>2 DEF OpToRel
<1>3. \E x \in T : \A y \in T : ~(y < x)
  BY <1>1, <1>2, Zenon
<1>4. QED
  BY <1>3

\* A bounded set of positions has a greatest member.
LEMMA GreatestExists ==
  ASSUME NEW n \in Nat, NEW T \in SUBSET (1 .. n), T # {}
  PROVE  \E x \in T : \A y \in T : y <= x
<1> DEFINE U == {n - x : x \in T}
<1>1. U \in SUBSET Nat /\ U # {}
  OBVIOUS
<1>2. PICK u \in U : \A v \in U : u <= v
  BY <1>1, LeastExists
<1>3. PICK x \in T : u = n - x
  OBVIOUS
<1>4. ASSUME NEW y \in T
      PROVE  y <= x
  <2>1. n - y \in U
    OBVIOUS
  <2>2. QED
    BY <1>2, <1>3, <2>1
<1>5. QED
  BY <1>4
=============================================================================
