---- MODULE Ranking ----
(* Places in a finite set under a strict order, given as a set of pairs: what a sort puts where. *)
EXTENDS Integers, FiniteSets

\* How many come before x.
Rank(S, before, x) == Cardinality({y \in S : <<y, x>> \in before})

Sorted(S, before) ==
    [k \in 1..Cardinality(S) |-> CHOOSE x \in S : Rank(S, before, x) = k - 1]

\* The elements of a sequence at some of its places, in its order.
Picked(s, places) ==
    LET by == Sorted(places, {p \in places \X places : p[1] < p[2]})
    IN  [k \in DOMAIN by |-> s[by[k]]]
====
