-------------------------------- MODULE Lists --------------------------------
(***************************************************************************)
(* What filter, take and a sort make of a list, by the places they take    *)
(* from it: an element is at the place of those that come before it.       *)
(***************************************************************************)
EXTENDS Integers, Sequences, FiniteSets

\* The elements of S in an order, which is a set of pairs.
Upto(S, order, x) == {y \in S : <<y, x>> \in order}
Arranged(S, order) ==
    [k \in 1 .. Cardinality(S) |-> CHOOSE x \in S : Cardinality(Upto(S, order, x)) = k]

\* The elements of s at some of its places, in an order of the places.
InOrder(s, places, order) ==
    LET at == Arranged(places, order) IN [k \in DOMAIN at |-> s[at[k]]]

Rising(places) == {p \in places \X places : p[1] <= p[2]}
Picked(s, places) == InOrder(s, places, Rising(places))

\* A stable sort: places by a key, and those of one key as they were.
ByKey(places, key) ==
    {p \in places \X places : key[p[1]] < key[p[2]] \/ (key[p[1]] = key[p[2]] /\ p[1] <= p[2])}

\* The first places, at most n.
FirstOf(places, n) == {i \in places : Cardinality({j \in places : j <= i}) <= n}
=============================================================================
