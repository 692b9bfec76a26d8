----------------------------- MODULE DistinctSeq -----------------------------
(***************************************************************************)
(* A queue of keys as the code keeps one: a slice beside a map or a set    *)
(* that keeps a key from entering twice.                                   *)
(***************************************************************************)
EXTENDS Integers, Sequences, FiniteSets

RangeOf(s) == {s[n] : n \in DOMAIN s}

Distinct(s) == \A m, n \in DOMAIN s : s[m] = s[n] => m = n

\* The queues that hold exactly the members of S.
Orders(S) == {p \in [1 .. Cardinality(S) -> S] : Distinct(p) /\ RangeOf(p) = S}
=============================================================================
