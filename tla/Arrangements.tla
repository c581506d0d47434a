---------------------------- MODULE Arrangements ----------------------------
(***************************************************************************)
(* A finite set in an order: the sequence of its elements that the order   *)
(* never contradicts, and where an element stands in a sequence.  What the *)
(* code sorts, by a key or in the order of a list, is arranged so.         *)
(***************************************************************************)
EXTENDS Naturals, Sequences, FiniteSets, Functions

Arranged(order, S, Before(_, _)) ==
    /\ order \in [1..Cardinality(S) -> S] /\ IsInjective(order)
    /\ \A i, j \in DOMAIN order : i < j => Before(order[i], order[j])

Arrangement(S, Before(_, _)) ==
    CHOOSE order \in [1..Cardinality(S) -> S] : Arranged(order, S, Before)

\* The place of p in a list; 0 when it is not in it.
RankIn(list, p) ==
    IF \E r \in DOMAIN list : list[r] = p THEN CHOOSE r \in DOMAIN list : list[r] = p ELSE 0
=============================================================================
