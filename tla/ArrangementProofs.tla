------------------------- MODULE ArrangementProofs -------------------------
(***************************************************************************)
(* A finite set that is strictly ordered has an arrangement, which holds   *)
(* each of its elements at one place (Arrangements).  What the searches    *)
(* and the synthesis say of their lists rests on it.                       *)
(***************************************************************************)
EXTENDS Integers, Arrangements, FiniteSetTheorems, SequenceTheorems, TLAPS

\* A set of naturals has a least element.
LEMMA LeastExists ==
    ASSUME NEW T \in SUBSET Nat, T # {}
    PROVE  \E i \in T : \A j \in T : i <= j
<1> DEFINE R == {e \in Nat \X Nat : e[1] < e[2]}
<1>1. IsWellFoundedOn(R, Nat)
  BY NatLessThanWellFounded, Zenon DEF OpToRel
<1> HIDE DEF R
<1>2. PICK i \in T : \A j \in T : ~(<<j, i>> \in R)
  BY <1>1, WFMin
<1>3. \A j \in T : ~(j < i)
  BY <1>2 DEF R
<1> QED
  BY <1>3

\* R, a set of pairs, orders S strictly.
Orders(R, S) ==
    /\ \A p \in S : <<p, p>> \notin R
    /\ \A p, q \in S : p = q \/ <<p, q>> \in R \/ <<q, p>> \in R
    /\ \A p, q, r \in S : <<p, q>> \in R /\ <<q, r>> \in R => <<p, r>> \in R

\* The elements of S that come before p.
Preceding(R, S, p) == {q \in S : <<q, p>> \in R}

\* Whoever comes later has more before it.
LEMMA PrecedingGrows ==
    ASSUME NEW S, IsFiniteSet(S), NEW R, Orders(R, S), NEW p \in S, NEW q \in S, <<p, q>> \in R
    PROVE  Cardinality(Preceding(R, S, p)) < Cardinality(Preceding(R, S, q))
<1>1. /\ IsFiniteSet(Preceding(R, S, p)) /\ IsFiniteSet(Preceding(R, S, q))
      /\ p \notin Preceding(R, S, p)
      /\ Preceding(R, S, p) \cup {p} \subseteq Preceding(R, S, q)
  <2>1. Preceding(R, S, p) \in SUBSET S /\ Preceding(R, S, q) \in SUBSET S
    BY DEF Preceding
  <2>2. p \notin Preceding(R, S, p) /\ Preceding(R, S, p) \cup {p} \subseteq Preceding(R, S, q)
    BY DEF Preceding, Orders
  <2> QED BY <2>1, <2>2, FS_Subset
<1>2. Cardinality(Preceding(R, S, p) \cup {p}) = Cardinality(Preceding(R, S, p)) + 1
  BY <1>1, FS_AddElement
<1>3. Cardinality(Preceding(R, S, p) \cup {p}) <= Cardinality(Preceding(R, S, q))
  BY <1>1, FS_Subset
<1>4. Cardinality(Preceding(R, S, p)) \in Nat /\ Cardinality(Preceding(R, S, q)) \in Nat
  BY <1>1, FS_CardinalityType
<1> QED
  BY <1>2, <1>3, <1>4

\* A finite set that is strictly ordered is arranged in that order by one sequence: p stands
\* after as many elements as come before it.
LEMMA Arrangeable ==
    ASSUME NEW S, IsFiniteSet(S), NEW R, Orders(R, S)
    PROVE  \E order \in [1..Cardinality(S) -> S] :
              /\ IsInjective(order)
              /\ \A i, j \in DOMAIN order : i < j => <<order[i], order[j]>> \in R
<1> DEFINE n == Cardinality(S)
           place == [p \in S |-> Cardinality(Preceding(R, S, p)) + 1]
<1>0. n \in Nat
  BY FS_CardinalityType
<1>1. \A p \in S : place[p] \in 1..n
  <2> TAKE p \in S
  <2>1. Preceding(R, S, p) \in SUBSET (S \ {p})
    BY DEF Preceding, Orders
  <2>2. IsFiniteSet(S \ {p}) /\ Cardinality(S \ {p}) = n - 1
    BY FS_RemoveElement
  <2>3. IsFiniteSet(Preceding(R, S, p)) /\ Cardinality(Preceding(R, S, p)) <= n - 1
    BY <2>1, <2>2, FS_Subset
  <2>4. Cardinality(Preceding(R, S, p)) \in Nat
    BY <2>3, FS_CardinalityType
  <2> QED BY <1>0, <2>3, <2>4
<1>2. \A p, q \in S : <<p, q>> \in R => place[p] < place[q]
  <2> TAKE p, q \in S
  <2> HAVE <<p, q>> \in R
  <2>1. Cardinality(Preceding(R, S, p)) < Cardinality(Preceding(R, S, q))
    BY PrecedingGrows
  <2>2. place[p] \in Nat /\ place[q] \in Nat
    BY <1>1
  <2>3. /\ place[p] = Cardinality(Preceding(R, S, p)) + 1
        /\ place[q] = Cardinality(Preceding(R, S, q)) + 1
    OBVIOUS
  <2>4. Cardinality(Preceding(R, S, p)) \in Nat /\ Cardinality(Preceding(R, S, q)) \in Nat
    <3>1. Preceding(R, S, p) \in SUBSET S /\ Preceding(R, S, q) \in SUBSET S
      BY DEF Preceding
    <3> QED BY <3>1, FS_Subset, FS_CardinalityType
  <2> QED BY <2>1, <2>3, <2>4
<1>3. place \in [S -> 1..n]
  BY <1>1
<1> HIDE DEF place
<1>4. \A p, q \in S : place[p] = place[q] => p = q
  <2> TAKE p, q \in S
  <2>1. p = q \/ place[p] < place[q] \/ place[q] < place[p]
    BY <1>2 DEF Orders
  <2>2. place[p] \in Nat /\ place[q] \in Nat
    BY <1>0, <1>1
  <2> QED BY <2>1, <2>2
<1>5. place \in Injection(S, 1..n)
  BY <1>3, <1>4 DEF Injection, IsInjective
<1>6. IsFiniteSet(1..n) /\ Cardinality(1..n) = n
  BY <1>0, FS_Interval
<1>7. place \in Surjection(S, 1..n)
  BY <1>5, <1>6, FS_Injection
<1>8. \A i \in 1..n : \E p \in S : place[p] = i
  BY <1>7 DEF Surjection
<1> DEFINE order == [i \in 1..n |-> CHOOSE p \in S : place[p] = i]
<1>9. \A i \in 1..n : order[i] \in S /\ place[order[i]] = i
  BY <1>8
<1>10. order \in [1..n -> S] /\ DOMAIN order = 1..n
  BY <1>9
<1> HIDE DEF order
<1>11. IsInjective(order)
  BY <1>9, <1>10 DEF IsInjective
<1>12. \A i, j \in DOMAIN order : i < j => <<order[i], order[j]>> \in R
  <2> TAKE i, j \in DOMAIN order
  <2> HAVE i < j
  <2>1. order[i] \in S /\ order[j] \in S /\ place[order[i]] = i /\ place[order[j]] = j
        /\ i \in Nat /\ j \in Nat
    BY <1>9, <1>10
  <2>2. order[i] # order[j]
    BY <2>1
  <2>3. <<order[j], order[i]>> \notin R
    BY <1>2, <2>1
  <2> QED BY <2>1, <2>2, <2>3 DEF Orders
<1> QED
  BY <1>10, <1>11, <1>12

\* An arrangement has each element of the set at one place.
LEMMA ArrangedProperties ==
    ASSUME NEW S, IsFiniteSet(S), NEW order \in [1..Cardinality(S) -> S], IsInjective(order)
    PROVE  /\ order \in Seq(S) /\ Len(order) = Cardinality(S) /\ Range(order) = S
           /\ \A p \in S : RankIn(order, p) \in 1..Len(order) /\ order[RankIn(order, p)] = p
           /\ \A i \in DOMAIN order : RankIn(order, order[i]) = i
<1> DEFINE n == Cardinality(S)
<1>0. n \in Nat /\ DOMAIN order = 1..n
  BY FS_CardinalityType
<1>1. order \in Seq(S) /\ Len(order) = n
  BY <1>0
<1>2. order \in Injection(1..n, S)
  BY DEF Injection
<1>3. Cardinality(1..n) = n
  BY <1>0, FS_Interval
<1>4. order \in Surjection(1..n, S)
  BY <1>2, <1>3, FS_Injection
<1>5. \A p \in S : \E i \in 1..n : order[i] = p
  BY <1>4 DEF Surjection
<1>6. Range(order) = S
  BY <1>0, <1>5 DEF Range
<1>7. \A p \in S : RankIn(order, p) \in 1..n /\ order[RankIn(order, p)] = p
  BY <1>0, <1>5 DEF RankIn
<1>8. \A i \in DOMAIN order : RankIn(order, order[i]) = i
  BY <1>0, <1>7 DEF IsInjective
<1> QED
  BY <1>0, <1>1, <1>6, <1>7, <1>8
=============================================================================
