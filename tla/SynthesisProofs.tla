--------------------------- MODULE SynthesisProofs ---------------------------
(***************************************************************************)
(* What holds of every answer of record that is delivered, for any         *)
(* listings, questions and drafts (Synthesis, CitedAnswer): it recommends  *)
(* what the review supports, cites what it says, and was judged as it is.  *)
(***************************************************************************)
EXTENDS Synthesis, ArrangementProofs

----------------------------------------------------------------------------
(* Leaving out a section of alternatives that cites nothing.               *)

LEMMA StripsOnce ==
    ASSUME NEW text \in Texts
    PROVE  /\ WithoutEmptyAlternatives(text) \in Texts
           /\ WithoutEmptyAlternatives(WithoutEmptyAlternatives(text))
                = WithoutEmptyAlternatives(text)
<1>1. << >> \in Seq(Passages) /\ DOMAIN << >> = {}
    BY EmptySeq
<1>2. CASE \E i \in DOMAIN text.others : text.others[i].cites # << >>
    BY <1>2 DEF WithoutEmptyAlternatives
<1>3. CASE ~\E i \in DOMAIN text.others : text.others[i].cites # << >>
  <2> DEFINE stripped == [text EXCEPT !.others = << >>]
  <2>1. WithoutEmptyAlternatives(text) = stripped
    BY <1>3 DEF WithoutEmptyAlternatives
  <2>2. stripped \in Texts /\ stripped.others = << >>
        /\ [stripped EXCEPT !.others = << >>] = stripped
    BY <1>1 DEF Texts
  <2> HIDE DEF stripped
  <2>3. WithoutEmptyAlternatives(stripped) = stripped
    BY <1>1, <2>2 DEF WithoutEmptyAlternatives
  <2> QED BY <2>1, <2>2, <2>3
<1> QED BY <1>2, <1>3

\* The sentences of a text are those of its parts.
LEMMA SentencesOfParts ==
    ASSUME NEW text \in Texts
    PROVE  /\ Sentences(text) \in Seq(Passages)
           /\ \A s : (\E i \in DOMAIN Sentences(text) : Sentences(text)[i] = s) <=>
                \/ \E i \in DOMAIN text.opening : text.opening[i] = s
                \/ \E i \in DOMAIN text.others : text.others[i] = s
                \/ \E i \in DOMAIN text.closing : text.closing[i] = s
<1>1. /\ text.opening \in Seq(Passages) /\ text.others \in Seq(Passages)
      /\ text.closing \in Seq(Passages)
    BY DEF Texts
<1>2. ASSUME NEW a \in Seq(Passages), NEW b \in Seq(Passages)
      PROVE  /\ a \o b \in Seq(Passages)
             /\ \A s : (\E i \in DOMAIN (a \o b) : (a \o b)[i] = s) <=>
                    (\E i \in DOMAIN a : a[i] = s) \/ (\E i \in DOMAIN b : b[i] = s)
  <2>1. /\ a \o b \in Seq(Passages) /\ DOMAIN (a \o b) = 1..(Len(a) + Len(b))
        /\ DOMAIN a = 1..Len(a) /\ DOMAIN b = 1..Len(b) /\ Len(a) \in Nat /\ Len(b) \in Nat
        /\ \A i \in 1..(Len(a) + Len(b)) :
              (a \o b)[i] = IF i <= Len(a) THEN a[i] ELSE b[i - Len(a)]
    BY ConcatProperties, LenProperties
  <2>2. ASSUME NEW s, NEW i \in DOMAIN (a \o b), (a \o b)[i] = s
        PROVE  (\E j \in DOMAIN a : a[j] = s) \/ (\E j \in DOMAIN b : b[j] = s)
    <3>1. CASE i <= Len(a)
      BY <2>1, <2>2, <3>1
    <3>2. CASE ~(i <= Len(a))
      <4>1. i - Len(a) \in DOMAIN b /\ (a \o b)[i] = b[i - Len(a)]
        BY <2>1, <3>2
      <4> QED BY <2>2, <4>1
    <3> QED BY <3>1, <3>2
  <2>3. ASSUME NEW i \in DOMAIN a PROVE i \in DOMAIN (a \o b) /\ (a \o b)[i] = a[i]
    BY <2>1
  <2>4. ASSUME NEW i \in DOMAIN b
        PROVE  Len(a) + i \in DOMAIN (a \o b) /\ (a \o b)[Len(a) + i] = b[i]
    BY <2>1
  <2> QED BY <2>1, <2>2, <2>3, <2>4
<1> DEFINE first == text.opening \o text.others
<1>3. /\ first \in Seq(Passages)
      /\ \A s : (\E i \in DOMAIN first : first[i] = s) <=>
            \/ \E i \in DOMAIN text.opening : text.opening[i] = s
            \/ \E i \in DOMAIN text.others : text.others[i] = s
    BY <1>1, <1>2
<1> HIDE DEF first
<1>4. /\ first \o text.closing \in Seq(Passages)
      /\ \A s : (\E i \in DOMAIN (first \o text.closing) : (first \o text.closing)[i] = s) <=>
            \/ \E i \in DOMAIN first : first[i] = s
            \/ \E i \in DOMAIN text.closing : text.closing[i] = s
    BY <1>1, <1>2, <1>3
<1>5. Sentences(text) = first \o text.closing
    BY DEF Sentences, first
<1> QED BY <1>3, <1>4, <1>5

\* Dropping sentences without a citation drops no citation.
LEMMA StrippedSentences ==
    ASSUME NEW text \in Texts
    PROVE  LET all == Sentences(text)
               left == Sentences(WithoutEmptyAlternatives(text)) IN
           /\ CitedIn(left) = CitedIn(all)
           /\ \A i \in DOMAIN left : \E j \in DOMAIN all : all[j] = left[i]
<1> DEFINE stripped == WithoutEmptyAlternatives(text)
           all == Sentences(text)
           left == Sentences(stripped)
<1>1. stripped \in Texts
    BY StripsOnce
<1>2. CASE stripped = text
    BY <1>2
<1>3. CASE stripped # text
  <2>1. /\ \A i \in DOMAIN text.others : text.others[i].cites = << >>
        /\ stripped = [text EXCEPT !.others = << >>]
    BY <1>3 DEF WithoutEmptyAlternatives
  <2>2. /\ stripped.opening = text.opening /\ stripped.closing = text.closing
        /\ stripped.others = << >> /\ DOMAIN << >> = {}
    BY <2>1, EmptySeq DEF Texts
  <2> HIDE DEF stripped
  <2>3. \A s : (\E i \in DOMAIN left : left[i] = s) <=>
            \/ \E i \in DOMAIN text.opening : text.opening[i] = s
            \/ \E i \in DOMAIN text.closing : text.closing[i] = s
    <3>1. \A s : (\E i \in DOMAIN left : left[i] = s) <=>
            \/ \E i \in DOMAIN stripped.opening : stripped.opening[i] = s
            \/ \E i \in DOMAIN stripped.others : stripped.others[i] = s
            \/ \E i \in DOMAIN stripped.closing : stripped.closing[i] = s
      BY <1>1, SentencesOfParts
    <3>2. \A s : ~\E i \in DOMAIN stripped.others : stripped.others[i] = s
      BY <2>2
    <3> HIDE DEF left
    <3> QED BY <2>2, <3>1, <3>2
  <2>4. \A s : (\E i \in DOMAIN all : all[i] = s) <=>
            \/ \E i \in DOMAIN text.opening : text.opening[i] = s
            \/ \E i \in DOMAIN text.others : text.others[i] = s
            \/ \E i \in DOMAIN text.closing : text.closing[i] = s
    BY SentencesOfParts
  <2> HIDE DEF all, left
  <2>5. \A i \in DOMAIN left : \E j \in DOMAIN all : all[j] = left[i]
    BY <2>3, <2>4
  <2>6. ASSUME NEW n PROVE n \in CitedIn(left) <=> n \in CitedIn(all)
    <3>1. n \in CitedIn(left) => n \in CitedIn(all)
      BY <2>5 DEF CitedIn
    <3>2. ASSUME NEW j \in DOMAIN all, n \in Cited(all[j])
          PROVE  \E i \in DOMAIN left : left[i] = all[j]
      <4>1. ASSUME NEW i \in DOMAIN text.others, text.others[i] = all[j] PROVE FALSE
        <5>1. all[j].cites = << >>
          BY <2>1, <4>1
        <5>2. Cited(all[j]) = {}
          BY <2>2, <5>1 DEF Cited, Range
        <5> QED BY <3>2, <5>2
      <4> QED BY <2>3, <2>4, <4>1
    <3>3. n \in CitedIn(all) => n \in CitedIn(left)
      BY <3>2 DEF CitedIn
    <3> QED BY <3>1, <3>3
  <2>7. CitedIn(left) = CitedIn(all)
    BY <2>6
  <2> QED BY <2>5, <2>7 DEF all, left, stripped
<1> QED BY <1>2, <1>3

\* What the checks ask of a text they ask of each sentence, or of all its citations: a
\* text that passes them still passes without its empty section.
LEMMA StrippedPasses ==
    ASSUME NEW text \in Texts, NEW picks, NEW evidence, NEW asked,
           Validated(Sentences(text), picks, evidence, asked)
    PROVE  LET left == Sentences(WithoutEmptyAlternatives(text)) IN
           /\ CitesEverySelected(left, picks, evidence)
           /\ NamesAreCited(left, picks, evidence)
           /\ LinksAreSources(left, evidence)
<1> DEFINE all == Sentences(text)
           left == Sentences(WithoutEmptyAlternatives(text))
<1>1. /\ CitedIn(left) = CitedIn(all)
      /\ \A i \in DOMAIN left : \E j \in DOMAIN all : all[j] = left[i]
    BY StrippedSentences
<1>2. /\ CitesEverySelected(all, picks, evidence)
      /\ NamesAreCited(all, picks, evidence)
      /\ LinksAreSources(all, evidence)
    BY DEF Validated
<1> HIDE DEF all, left
<1>3. CitesEverySelected(left, picks, evidence)
    BY <1>1, <1>2 DEF CitesEverySelected
<1>4. NamesAreCited(left, picks, evidence)
    BY <1>1, <1>2 DEF NamesAreCited
<1>5. LinksAreSources(left, evidence)
    BY <1>1, <1>2 DEF LinksAreSources
<1> QED BY <1>3, <1>4, <1>5 DEF left

----------------------------------------------------------------------------
(* The selection, and the cards made of it.                                *)

\* A list without a repeat is as long as the set it lists.
LEMMA ListProperties ==
    ASSUME NEW S, NEW list \in Seq(S), IsInjective(list)
    PROVE  /\ IsFiniteSet(Range(list)) /\ Cardinality(Range(list)) = Len(list)
           /\ \A p \in Range(list) :
                p \in S /\ RankIn(list, p) \in DOMAIN list /\ list[RankIn(list, p)] = p
           /\ \A i \in DOMAIN list : list[i] \in Range(list) /\ RankIn(list, list[i]) = i
<1>1. /\ Len(list) \in Nat /\ DOMAIN list = 1..Len(list) /\ list \in [1..Len(list) -> S]
    BY LenProperties
<1>2. \A p \in Range(list) : \E i \in DOMAIN list : list[i] = p
    BY DEF Range
<1>3. \A p \in Range(list) :
        p \in S /\ RankIn(list, p) \in DOMAIN list /\ list[RankIn(list, p)] = p
    BY <1>1, <1>2 DEF RankIn
<1>4. \A i \in DOMAIN list : list[i] \in Range(list) /\ RankIn(list, list[i]) = i
    BY <1>1, <1>3 DEF IsInjective, Range
<1>5. IsFiniteSet(1..Len(list)) /\ Cardinality(1..Len(list)) = Len(list)
    BY <1>1, FS_Interval
<1>6. list \in Bijection(1..Len(list), Range(list))
    BY <1>1, <1>2, <1>4 DEF Bijection, Injection, Surjection, IsInjective
<1>7. IsFiniteSet(Range(list)) /\ Cardinality(Range(list)) = Len(list)
  <2>1. ExistsBijection(1..Len(list), Range(list))
    BY <1>6 DEF ExistsBijection
  <2> QED BY <1>5, <2>1, FS_Bijection
<1> QED BY <1>3, <1>4, <1>7

\* What is kept of a list is each element of it that is kept, in the list's order.
LEMMA InOrderProperties ==
    ASSUME NEW S, NEW list \in Seq(S), IsInjective(list), NEW kept
    PROVE  LET left == InOrder(list, kept) IN
           /\ left \in Seq(S) /\ IsInjective(left)
           /\ Range(left) = Range(list) \cap kept
           /\ Len(left) = Cardinality(Range(list) \cap kept)
           /\ \A i, j \in DOMAIN left : i < j => RankIn(list, left[i]) < RankIn(list, left[j])
<1> DEFINE T == Range(list) \cap kept
           R == {e \in T \X T : RankIn(list, e[1]) < RankIn(list, e[2])}
           left == CHOOSE order \in [1..Cardinality(T) -> T] :
                     /\ order \in [1..Cardinality(T) -> T] /\ IsInjective(order)
                     /\ \A i, j \in DOMAIN order : i < j =>
                           RankIn(list, order[i]) < RankIn(list, order[j])
<1>1. InOrder(list, kept) = left
    BY DEF InOrder, Arrangement, Arranged
<1>2. /\ T \subseteq S /\ IsFiniteSet(T)
      /\ \A p \in T : RankIn(list, p) \in Nat
      /\ \A p, q \in T : RankIn(list, p) = RankIn(list, q) => p = q
  <2>1. IsFiniteSet(Range(list)) /\ T \in SUBSET Range(list)
    BY ListProperties
  <2>2. \A p \in Range(list) :
          p \in S /\ RankIn(list, p) \in DOMAIN list /\ list[RankIn(list, p)] = p
    BY ListProperties
  <2>3. DOMAIN list \subseteq Nat
    BY LenProperties
  <2> QED BY <2>1, <2>2, <2>3, FS_Subset
<1> HIDE DEF T
<1>3. Orders(R, T)
    BY <1>2 DEF Orders
<1>4. PICK order \in [1..Cardinality(T) -> T] :
        /\ IsInjective(order)
        /\ \A i, j \in DOMAIN order : i < j => <<order[i], order[j]>> \in R
    BY <1>2, <1>3, Arrangeable
<1>5. \A i, j \in DOMAIN order : i < j => RankIn(list, order[i]) < RankIn(list, order[j])
    BY <1>4
<1>6. /\ left \in [1..Cardinality(T) -> T] /\ IsInjective(left)
      /\ \A i, j \in DOMAIN left : i < j => RankIn(list, left[i]) < RankIn(list, left[j])
    BY <1>4, <1>5
<1> HIDE DEF left
<1>7. left \in Seq(T) /\ Len(left) = Cardinality(T) /\ Range(left) = T
    BY <1>2, <1>6, ArrangedProperties
<1>8. left \in Seq(S)
    BY <1>2, <1>7, SeqMonotonic
<1> QED BY <1>1, <1>6, <1>7, <1>8 DEF T

\* Letting a pick lead moves it to the front and keeps the rest.
LEMMA LeadKeepsPicks ==
    ASSUME NEW S, NEW picks \in Seq(S), IsInjective(picks), NEW named
    PROVE  LET led == LeadWithBetterRated(picks, named) IN
           led \in Seq(S) /\ IsInjective(led) /\ Range(led) = Range(picks)
<1> DEFINE better == BetterRated(picks, named)
           first == picks[Least(better)]
           rest == InOrder(picks, Range(picks) \ {first})
<1>1. CASE better = {}
    BY <1>1 DEF LeadWithBetterRated
<1>2. CASE better # {}
  <2>1. better \subseteq DOMAIN picks /\ better \subseteq Nat
    <3>1. DOMAIN picks = 1..Len(picks) /\ Len(picks) \in Nat
      BY LenProperties
    <3>2. better \subseteq 2..Len(picks)
      BY DEF BetterRated
    <3> HIDE DEF better
    <3> QED BY <3>1, <3>2
  <2>2. Least(better) \in better
    BY <1>2, <2>1, LeastExists DEF Least
  <2>3. first \in Range(picks) /\ first \in S
    BY <2>1, <2>2, ListProperties
  <2>4. LeadWithBetterRated(picks, named) = <<first>> \o rest
    BY <1>2 DEF LeadWithBetterRated
  <2>5. /\ rest \in Seq(S) /\ IsInjective(rest)
        /\ Range(rest) = Range(picks) \cap (Range(picks) \ {first})
    BY InOrderProperties
  <2> HIDE DEF first, rest, better
  <2>6. Range(rest) = Range(picks) \ {first}
    BY <2>5
  <2> DEFINE led == <<first>> \o rest
  <2>7. /\ <<first>> \in Seq(S) /\ Len(<<first>>) = 1 /\ <<first>>[1] = first
        /\ Len(rest) \in Nat /\ DOMAIN rest = 1..Len(rest)
    BY <2>3, <2>5, LenProperties
  <2>8. /\ led \in Seq(S) /\ Len(led) = Len(rest) + 1
        /\ \A i \in 1..(Len(rest) + 1) : led[i] = IF i = 1 THEN first ELSE rest[i - 1]
    <3>1. /\ led \in Seq(S) /\ Len(led) = 1 + Len(rest)
          /\ \A i \in 1..(1 + Len(rest)) :
               led[i] = IF i <= 1 THEN <<first>>[i] ELSE rest[i - 1]
      BY <2>5, <2>7, ConcatProperties
    <3> QED BY <2>7, <3>1
  <2>9. DOMAIN led = 1..(Len(rest) + 1)
    BY <2>8, LenProperties
  <2> HIDE DEF led
  <2>10. \A i \in DOMAIN rest : rest[i] \in Range(picks) /\ rest[i] # first
    BY <2>6 DEF Range
  <2>11. IsInjective(led)
    <3> SUFFICES ASSUME NEW i \in DOMAIN led, NEW j \in DOMAIN led, led[i] = led[j]
                 PROVE  i = j
      BY DEF IsInjective
    <3>1. i \in 1..(Len(rest) + 1) /\ j \in 1..(Len(rest) + 1)
      BY <2>9
    <3>2. i # 1 => i - 1 \in DOMAIN rest /\ led[i] = rest[i - 1]
      BY <2>7, <2>8, <3>1
    <3>3. j # 1 => j - 1 \in DOMAIN rest /\ led[j] = rest[j - 1]
      BY <2>7, <2>8, <3>1
    <3>4. i = 1 => led[i] = first
      BY <2>8, <3>1
    <3>5. j = 1 => led[j] = first
      BY <2>8, <3>1
    <3>6. CASE i = 1 \/ j = 1
      BY <2>10, <3>2, <3>3, <3>4, <3>5, <3>6
    <3>7. CASE i # 1 /\ j # 1
      <4>1. i - 1 = j - 1
        BY <2>5, <3>2, <3>3, <3>7 DEF IsInjective
      <4> QED BY <3>1, <4>1
    <3> QED BY <3>6, <3>7
  <2>12. ASSUME NEW p PROVE p \in Range(led) <=> p \in Range(picks)
    <3>1. CASE p = first
      <4>1. led[1] = first /\ 1 \in DOMAIN led
        BY <2>7, <2>8, <2>9
      <4> QED BY <2>3, <3>1, <4>1 DEF Range
    <3>2. CASE p # first
      <4>1. ASSUME NEW i \in DOMAIN rest
            PROVE  i + 1 \in DOMAIN led /\ led[i + 1] = rest[i]
        BY <2>7, <2>8, <2>9
      <4>2. p \in Range(rest) => p \in Range(led)
        BY <4>1 DEF Range
      <4>3. ASSUME NEW i \in DOMAIN led, led[i] = p PROVE p \in Range(rest)
        <5>1. i # 1 /\ i - 1 \in DOMAIN rest /\ led[i] = rest[i - 1]
          BY <2>7, <2>8, <2>9, <3>2, <4>3
        <5> QED BY <4>3, <5>1 DEF Range
      <4>4. p \in Range(led) => p \in Range(rest)
        BY <4>3 DEF Range
      <4> QED BY <2>6, <3>2, <4>2, <4>4
    <3> QED BY <3>1, <3>2
  <2>13. Range(led) = Range(picks)
    BY <2>12
  <2> QED BY <2>4, <2>8, <2>11, <2>13 DEF led
<1> QED BY <1>1, <1>2

\* Of the listings of one product that were picked, one is left, and it is the one its
\* search ranked first (without_repeated_listings): no two listings left are of one
\* product, and whichever was left out, a listing of its product ranked no lower stays.
THEOREM RepeatsLeaveTheBest ==
    ASSUME NEW picks \in Seq(Listings), IsInjective(picks)
    PROVE  LET left == WithoutRepeats(picks) IN
           /\ left \in Seq(Listings) /\ IsInjective(left) /\ Range(left) \subseteq Range(picks)
           /\ \A i, j \in DOMAIN left : i # j => ~SameLine(left[i], left[j])
           /\ \A p \in Range(picks) : \E q \in Range(left) :
                q = p \/ (SameLine(p, q) /\ Listing[q].rank <= Listing[p].rank)
<1> DEFINE stay == {j \in DOMAIN picks : Represents(picks, j)}
           left == WithoutRepeats(picks)
           rank(i) == Listing[picks[i]].rank
<1>1. left = InOrder(picks, {picks[i] : i \in stay})
    BY DEF WithoutRepeats
<1>2. /\ left \in Seq(Listings) /\ IsInjective(left)
      /\ Range(left) = Range(picks) \cap {picks[i] : i \in stay}
  <2> DEFINE keep == {picks[i] : i \in stay}
  <2> HIDE DEF keep
  <2>1. /\ InOrder(picks, keep) \in Seq(Listings) /\ IsInjective(InOrder(picks, keep))
        /\ Range(InOrder(picks, keep)) = Range(picks) \cap keep
    BY InOrderProperties
  <2> QED BY <1>1, <2>1 DEF keep
<1>3. /\ DOMAIN picks \subseteq Nat
      /\ \A i \in DOMAIN picks : picks[i] \in Range(picks) /\ picks[i] \in Listings
    BY LenProperties, ListProperties
<1>4. Range(left) = {picks[i] : i \in stay}
    BY <1>2, <1>3
<1>5. \A i \in DOMAIN picks : rank(i) \in Nat
    BY <1>3, RanksCompare
<1> HIDE DEF left
<1>6. ASSUME NEW i \in stay, NEW j \in stay, i # j PROVE ~SameLine(picks[i], picks[j])
  <2> SUFFICES ASSUME SameLine(picks[i], picks[j]) PROVE FALSE
      OBVIOUS
  <2>1. SameLine(picks[j], picks[i])
      BY DEF SameLine
  <2>2. /\ rank(i) < rank(j) \/ (rank(i) = rank(j) /\ i < j)
        /\ rank(j) < rank(i) \/ (rank(j) = rank(i) /\ j < i)
      BY <1>6, <2>1 DEF Represents
  <2>3. rank(i) \in Nat /\ rank(j) \in Nat /\ i \in Nat /\ j \in Nat
      BY <1>3, <1>5
  <2> QED BY <2>2, <2>3
<1>7. ASSUME NEW i \in DOMAIN left, NEW j \in DOMAIN left, i # j
      PROVE  ~SameLine(left[i], left[j])
  <2>1. PICK k \in stay, l \in stay : left[i] = picks[k] /\ left[j] = picks[l]
    <3>1. left[i] \in Range(left) /\ left[j] \in Range(left)
      BY DEF Range
    <3> QED BY <1>4, <3>1
  <2>2. k # l
    BY <1>2, <1>7, <2>1 DEF IsInjective
  <2> QED BY <1>6, <2>1, <2>2
<1>8. ASSUME NEW i \in DOMAIN picks
      PROVE  \E j \in stay : j = i \/ (SameLine(picks[i], picks[j]) /\ rank(j) <= rank(i))
  <2> DEFINE line == {i} \cup {j \in DOMAIN picks : SameLine(picks[i], picks[j])}
             ranks == {rank(j) : j \in line}
  <2>1. line \subseteq DOMAIN picks /\ ranks \in SUBSET Nat /\ ranks # {}
    BY <1>5
  <2>2. PICK r \in ranks : \A s \in ranks : r <= s
    BY <2>1, LeastExists
  <2> DEFINE best == {j \in line : rank(j) = r}
  <2>3. best \in SUBSET Nat /\ best # {}
    BY <1>3, <2>1, <2>2
  <2>4. PICK j \in best : \A k \in best : j <= k
    BY <2>3, LeastExists
  <2>5. j \in DOMAIN picks /\ rank(j) = r /\ (j = i \/ SameLine(picks[i], picks[j]))
    BY <2>1, <2>4
  <2>6. ASSUME NEW k \in DOMAIN picks \ {j}, SameLine(picks[j], picks[k])
        PROVE  rank(j) < rank(k) \/ (rank(j) = rank(k) /\ j < k)
    <3>1. SameLine(picks[i], picks[k])
      BY <2>5, <2>6 DEF SameLine
    <3>2. k \in line
      BY <2>6, <3>1
    <3> HIDE DEF line
    <3>3. rank(j) <= rank(k)
      BY <2>2, <2>5, <3>2
    <3>4. rank(j) = rank(k) => j <= k
      BY <2>4, <2>5, <3>2
    <3>5. rank(j) \in Nat /\ rank(k) \in Nat /\ j \in Nat /\ k \in Nat /\ j # k
      BY <1>3, <1>5, <2>5, <2>6
    <3> HIDE DEF rank
    <3> QED BY <3>3, <3>4, <3>5
  <2>7. j \in stay
    BY <2>5, <2>6 DEF Represents
  <2>8. rank(j) <= rank(i)
    BY <2>2, <2>5
  <2> QED BY <2>5, <2>7, <2>8
<1>9. ASSUME NEW p \in Range(picks)
      PROVE  \E q \in Range(left) :
                q = p \/ (SameLine(p, q) /\ Listing[q].rank <= Listing[p].rank)
  <2>1. PICK i \in DOMAIN picks : picks[i] = p
    BY DEF Range
  <2>2. PICK j \in stay : j = i \/ (SameLine(picks[i], picks[j]) /\ rank(j) <= rank(i))
    BY <1>8
  <2>3. picks[j] \in Range(left)
    BY <1>4
  <2> QED BY <2>1, <2>2, <2>3
<1> QED BY <1>2, <1>7, <1>9 DEF left

\* A product's place in an answer is a pair of numbers.
LEMMA PlacesCompare ==
    ASSUME NEW text \in Seq(Passages), NEW p, NEW evidence
    PROVE  Place(text, p, evidence) \in Nat \X Nat
<1> DEFINE spots == IF Mentions(text, p) # {} THEN Mentions(text, p)
                    ELSE Citings(text, p, evidence)
           spot == CHOOSE s \in spots : \A t \in spots : ~Earlier(t, s)
<1>1. Len(text) \in Nat /\ DOMAIN text \subseteq Nat
    BY LenProperties
<1>2. ASSUME NEW i \in DOMAIN text
      PROVE  /\ DOMAIN text[i].segments \subseteq Nat /\ Len(text[i].segments) \in Nat
             /\ DOMAIN text[i].cites \subseteq Nat
  <2>1. text[i] \in Passages
    BY LenProperties
  <2>2. text[i].cites \in Seq(Nat) /\ text[i].segments \in Seq(Segments)
    BY <2>1, SynthesisAssumption
  <2> QED BY <2>2, LenProperties
<1>3. \A s \in spots : \E i \in DOMAIN text, k \in Nat : s = <<i, k>>
  <2>1. ASSUME NEW s \in Mentions(text, p) PROVE \E i \in DOMAIN text, k \in Nat : s = <<i, k>>
    <3>1. PICK i \in DOMAIN text : \E k \in DOMAIN text[i].segments : s = <<i, k>>
      BY DEF Mentions
    <3> QED BY <1>2, <3>1
  <2>2. ASSUME NEW s \in Citings(text, p, evidence) PROVE \E i \in DOMAIN text, k \in Nat : s = <<i, k>>
    <3>1. PICK i \in DOMAIN text : \E k \in DOMAIN text[i].cites : s = <<i, k>>
      BY DEF Citings
    <3> QED BY <1>2, <3>1
  <2> QED BY <2>1, <2>2
<1>4. \A s \in spots :
        s \in Nat \X Nat /\ s[1] \in DOMAIN text /\ s[1] \in Nat /\ s[2] \in Nat
  <2> TAKE s \in spots
  <2>1. PICK i \in DOMAIN text, k \in Nat : s = <<i, k>>
    BY <1>3
  <2> QED BY <1>1, <2>1
<1> HIDE DEF spots
<1>5. CASE spots = {}
  <2>1. Place(text, p, evidence) = <<Len(text) + 1, 0>>
    BY <1>5 DEF Place, spots
  <2> QED BY <1>1, <2>1
<1>6. CASE spots # {}
  <2> DEFINE firsts == {s[1] : s \in spots}
  <2>1. firsts \in SUBSET Nat /\ firsts # {}
    BY <1>1, <1>4, <1>6
  <2>2. PICK m \in firsts : \A k \in firsts : m <= k
    BY <2>1, LeastExists
  <2> DEFINE seconds == {s[2] : s \in {t \in spots : t[1] = m}}
  <2>3. seconds \in SUBSET Nat /\ seconds # {}
    <3>1. \E t \in spots : t[1] = m
      BY <2>2
    <3> QED BY <1>4, <3>1
  <2>4. PICK n \in seconds : \A k \in seconds : n <= k
    BY <2>3, LeastExists
  <2>5. PICK s \in spots : s[1] = m /\ s[2] = n
    BY <2>4
  <2>6. ASSUME NEW t \in spots PROVE ~Earlier(t, s)
    <3>1. t[1] \in Nat /\ t[2] \in Nat /\ m \in Nat /\ n \in Nat
      BY <1>1, <1>4, <2>1, <2>3
    <3>2. m <= t[1]
      BY <2>2
    <3>3. t[1] = m => n <= t[2]
      BY <2>4
    <3> QED BY <2>5, <3>1, <3>2, <3>3 DEF Earlier
  <2>7. spot \in spots
    BY <2>6
  <2>8. Place(text, p, evidence) =
          IF Mentions(text, p) # {} THEN spot
          ELSE <<spot[1], Len(text[spot[1]].segments) + spot[2]>>
    BY <1>6 DEF Place, spots
  <2> HIDE DEF spot
  <2>9. /\ spot \in Nat \X Nat /\ spot[1] \in DOMAIN text /\ spot[1] \in Nat
        /\ spot[2] \in Nat
    BY <1>4, <2>7
  <2>10. Len(text[spot[1]].segments) + spot[2] \in Nat
    BY <1>2, <2>9
  <2> QED BY <2>8, <2>9, <2>10
<1> QED BY <1>5, <1>6

\* The cards are the selection in the order of the answer: all of it, each once, and the
\* products that the answer places alike in the order they had.
LEMMA CardsAreTheSelection ==
    ASSUME NEW text \in Seq(Passages), NEW picks \in Seq(Listings), IsInjective(picks),
           NEW evidence
    PROVE  LET shown == InAnswerOrder(text, picks, evidence) IN
           /\ shown \in Seq(Listings) /\ IsInjective(shown)
           /\ Range(shown) = Range(picks) /\ Len(shown) = Len(picks)
<1> DEFINE T == Range(picks)
           before(p, q) == \/ Earlier(Place(text, p, evidence), Place(text, q, evidence))
                           \/ /\ Place(text, p, evidence) = Place(text, q, evidence)
                              /\ RankIn(picks, p) < RankIn(picks, q)
           R == {e \in T \X T : before(e[1], e[2])}
           shown == CHOOSE order \in [1..Cardinality(T) -> T] :
                      /\ order \in [1..Cardinality(T) -> T] /\ IsInjective(order)
                      /\ \A i, j \in DOMAIN order : i < j =>
                           \/ Earlier(Place(text, order[i], evidence),
                                      Place(text, order[j], evidence))
                           \/ /\ Place(text, order[i], evidence) = Place(text, order[j], evidence)
                              /\ RankIn(picks, order[i]) < RankIn(picks, order[j])
<1>1. InAnswerOrder(text, picks, evidence) = shown
    BY DEF InAnswerOrder, Arrangement, Arranged
<1>2. /\ IsFiniteSet(T) /\ Cardinality(T) = Len(picks)
      /\ \A p \in T : p \in Listings /\ RankIn(picks, p) \in DOMAIN picks
                      /\ picks[RankIn(picks, p)] = p
    BY ListProperties
<1>3. /\ \A p \in T : RankIn(picks, p) \in Nat
      /\ \A p, q \in T : RankIn(picks, p) = RankIn(picks, q) => p = q
    BY <1>2, LenProperties
<1>4. \A p \in T : Place(text, p, evidence) \in Nat \X Nat
    BY PlacesCompare
<1> HIDE DEF T
<1>5. Orders(R, T)
  <2>1. \A p \in T : ~before(p, p)
    BY <1>3, <1>4 DEF Earlier
  <2>2. \A p, q \in T : p = q \/ before(p, q) \/ before(q, p)
    BY <1>3, <1>4 DEF Earlier
  <2>3. \A p, q, r \in T : before(p, q) /\ before(q, r) => before(p, r)
    BY <1>3, <1>4 DEF Earlier
  <2> HIDE DEF before
  <2> QED BY <2>1, <2>2, <2>3 DEF Orders
<1>6. PICK order \in [1..Cardinality(T) -> T] :
        /\ IsInjective(order)
        /\ \A i, j \in DOMAIN order : i < j => <<order[i], order[j]>> \in R
    BY <1>2, <1>5, Arrangeable
<1>7. \A i, j \in DOMAIN order : i < j => before(order[i], order[j])
    BY <1>6
<1>8. shown \in [1..Cardinality(T) -> T] /\ IsInjective(shown)
    BY <1>6, <1>7
<1> HIDE DEF shown
<1>9. shown \in Seq(T) /\ Len(shown) = Cardinality(T) /\ Range(shown) = T
    BY <1>2, <1>8, ArrangedProperties
<1>10. shown \in Seq(Listings)
  <2>1. T \subseteq Listings
    BY <1>2
  <2> QED BY <1>9, <2>1, SeqMonotonic
<1> QED BY <1>1, <1>2, <1>8, <1>9, <1>10 DEF T

----------------------------------------------------------------------------
(* The inductive invariant.                                                *)

\* The draft under review, or delivered, passed the checks before its empty section was
\* dropped, and its citations are those of the draft as written.
DraftChecked ==
    \E text \in Drafts :
        /\ draft = WithoutEmptyAlternatives(text)
        /\ Validated(Sentences(text), selection, Evidence, question)
        /\ citations = CitedIn(Sentences(text))

\* What is delivered is the draft, and the decisions kept accepted every passage of it.
DraftDelivered ==
    /\ answer = draft
    /\ receipt.text = draft
    /\ receipt.decisions \in [DOMAIN Sentences(draft) -> Decisions]
    /\ ClaimsHold(receipt.decisions, Sentences(draft), Evidence)

SynthesisInv ==
    /\ OnlySupportedRecommended
    /\ stage \in {"claims", "delivered"} => DraftChecked
    /\ stage = "delivered" => DraftDelivered

LEMMA DraftsAreTexts == Drafts \subseteq Texts
BY SynthesisAssumption DEF Texts

LEMMA SynthesisStarts == SynthesisInit => SynthesisInv
BY DEF SynthesisInit, SynthesisInv, OnlySupportedRecommended

\* A step that ends a call, or goes back to reviewing or drafting, delivers nothing.
LEMMA NothingDelivered ==
    ASSUME SynthesisInv, stage # "delivered", UNCHANGED <<answer, cards, receipt>>,
           stage' \notin {"claims", "delivered"},
           stage' = "drafting" => supported' = Selected'
    PROVE  SynthesisInv'
BY DEF SynthesisInv, OnlySupportedRecommended

LEMMA ReviewsKeep ==
    ASSUME SynthesisInv, stage \in {"picking", "reviewing"},
           UNCHANGED <<answer, cards, receipt>>,
           stage' \in {"reviewing", "declined", "partly", "failed"}
    PROVE  SynthesisInv'
BY NothingDelivered

\* The selection a granted review supports is the whole selection it was asked about.
LEMMA ReviewSettlesKeeps ==
    ASSUME SynthesisInv, NEW review, ReviewSettles(review)
    PROVE  SynthesisInv'
<1>1. /\ stage = "reviewing" /\ Consistent(review)
      /\ supported' = SupportedBy(review) /\ selection' = selection
      /\ stage' = IF review.granted THEN "drafting" ELSE "declined"
      /\ UNCHANGED <<answer, cards, receipt>>
    BY DEF ReviewSettles, Unreviewed
<1>2. stage' = "drafting" => SupportedBy(review) = Selected
    BY <1>1 DEF Consistent
<1>3. Selected' = Selected
    BY <1>1 DEF Selected
<1> QED BY <1>1, <1>2, <1>3, NothingDelivered

LEMMA DraftAcceptedKeeps ==
    ASSUME SynthesisInv, NEW text \in Drafts, DraftAccepted(text)
    PROVE  SynthesisInv'
<1>1. /\ stage = "drafting" /\ stage' = "claims"
      /\ Validated(Sentences(text), selection, Evidence, question)
      /\ draft' = WithoutEmptyAlternatives(text)
      /\ citations' = CitedIn(Sentences(text))
      /\ UNCHANGED <<answer, cards, receipt, selection, question, supported>>
    BY DEF DraftAccepted, Reviewed
<1>2. Selected' = Selected /\ Evidence' = Evidence
    BY <1>1 DEF Selected, Evidence
<1>3. DraftChecked'
    BY <1>1, <1>2 DEF DraftChecked
<1>4. OnlySupportedRecommended'
    BY <1>1, <1>2 DEF SynthesisInv, OnlySupportedRecommended
<1> QED BY <1>1, <1>3, <1>4 DEF SynthesisInv

LEMMA ClaimsAcceptedKeeps ==
    ASSUME SynthesisInv, NEW decisions \in [DOMAIN Sentences(draft) -> Decisions],
           ClaimsAccepted(decisions)
    PROVE  SynthesisInv'
<1>1. /\ stage = "claims" /\ stage' = "delivered"
      /\ ClaimsHold(decisions, Sentences(draft), Evidence)
      /\ receipt' = [text |-> draft, decisions |-> decisions]
      /\ answer' = WithoutEmptyAlternatives(draft)
      /\ UNCHANGED <<draft, citations, selection, question, supported>>
    BY DEF ClaimsAccepted, Reviewed
<1>2. Selected' = Selected /\ Evidence' = Evidence /\ Decisions' = Decisions
    BY <1>1 DEF Selected, Evidence, Decisions, Quotes
<1>3. DraftChecked /\ DraftChecked'
    BY <1>1, <1>2 DEF SynthesisInv, DraftChecked
<1>4. answer' = draft
    BY <1>1, <1>3, DraftsAreTexts, StripsOnce DEF DraftChecked
<1>5. DraftDelivered'
    BY <1>1, <1>2, <1>4 DEF DraftDelivered
<1>6. OnlySupportedRecommended'
    BY <1>1, <1>2 DEF SynthesisInv, OnlySupportedRecommended
<1> QED BY <1>3, <1>5, <1>6 DEF SynthesisInv

LEMMA SynthesisSteps == SynthesisInv /\ [SynthesisNext]_synthesisVars => SynthesisInv'
<1> SUFFICES ASSUME SynthesisInv, [SynthesisNext]_synthesisVars PROVE SynthesisInv'
    OBVIOUS
<1>1. ASSUME NEW who, NEW picks, NEW asked, Pick(who, picks, asked) PROVE SynthesisInv'
    BY <1>1, ReviewsKeep DEF Pick
<1>2. ASSUME NEW stop \in Stops, ReviewInterrupted(stop) PROVE SynthesisInv'
    BY <1>2, ReviewsKeep DEF ReviewInterrupted, Unreviewed
<1>3. ASSUME NEW call, ReviewMalformed(call) PROVE SynthesisInv'
    BY <1>3, ReviewsKeep DEF ReviewMalformed, Unreviewed
<1>4. ASSUME NEW review, ReviewOutOfScope(review) \/ ReviewNarrows(review)
                            \/ ReviewContradicts(review)
      PROVE  SynthesisInv'
    BY <1>4, ReviewsKeep DEF ReviewOutOfScope, ReviewNarrows, ReviewContradicts, Unreviewed
<1>5. ASSUME NEW review, ReviewSettles(review) PROVE SynthesisInv'
    BY <1>5, ReviewSettlesKeeps
<1>6. ASSUME NEW text \in Drafts, DraftAccepted(text) PROVE SynthesisInv'
    BY <1>6, DraftAcceptedKeeps
<1>7. ASSUME stage \in {"reviewing", "drafting", "claims"}, stage' \in {"drafting", "failed"},
             stage' = "drafting" => stage # "reviewing",
             UNCHANGED <<answer, cards, receipt, selection, supported>>
      PROVE  SynthesisInv'
  <2>1. Selected' = Selected
    BY <1>7 DEF Selected
  <2>2. stage' = "drafting" => supported = Selected
    BY <1>7 DEF SynthesisInv, OnlySupportedRecommended
  <2> QED BY <1>7, <2>1, <2>2, NothingDelivered
<1>8. ASSUME NEW text \in Drafts, DraftRejected(text) PROVE SynthesisInv'
    BY <1>7, <1>8 DEF DraftRejected, Rejected, Reviewed
<1>9. ASSUME NEW stop \in Stops, DraftCut(stop) PROVE SynthesisInv'
    BY <1>7, <1>9 DEF DraftCut, Rejected, Reviewed
<1>10. ASSUME NEW decisions \in [DOMAIN Sentences(draft) -> Decisions],
              ClaimsAccepted(decisions)
       PROVE  SynthesisInv'
    BY <1>10, ClaimsAcceptedKeeps
<1>11. ASSUME NEW decisions, NEW complete, ClaimsRejected(decisions, complete)
       PROVE  SynthesisInv'
    BY <1>7, <1>11 DEF ClaimsRejected, Reviewed
<1>12. CASE CallFails
    BY <1>7, <1>12 DEF CallFails, Reviewed
<1>13. CASE UNCHANGED synthesisVars
  <2>1. Selected' = Selected /\ Evidence' = Evidence /\ Decisions' = Decisions
    BY <1>13 DEF synthesisVars, Selected, Evidence, Decisions, Quotes
  <2> QED
    BY <1>13, <2>1 DEF synthesisVars, SynthesisInv, OnlySupportedRecommended, DraftChecked,
       DraftDelivered
<1> QED
    BY <1>1, <1>2, <1>3, <1>4, <1>5, <1>6, <1>8, <1>9, <1>10, <1>11, <1>12, <1>13
    DEF SynthesisNext

LEMMA SynthesisInvariant == SynthesisSpec => []SynthesisInv
BY SynthesisStarts, SynthesisSteps, PTL DEF SynthesisSpec

\* Whatever the models reply and in whatever order, what is recommended is exactly a
\* selection the accepted review supports in full, and nothing shows before delivery.
THEOREM OnlySupportedIsRecommended == SynthesisSpec => []OnlySupportedRecommended
<1>1. SynthesisInv => OnlySupportedRecommended
    BY DEF SynthesisInv
<1> QED BY <1>1, SynthesisInvariant, PTL

\* A delivered answer cites supplied evidence for every product it recommends or names,
\* though it is shorter than the draft the checks read.
THEOREM AnswersAreCited == SynthesisSpec => []DeliveredIsCited
<1>1. ASSUME SynthesisInv PROVE DeliveredIsCited
  <2> SUFFICES ASSUME stage = "delivered"
               PROVE  /\ CitesEverySelected(Sentences(answer), selection, Evidence)
                      /\ NamesAreCited(Sentences(answer), selection, Evidence)
                      /\ LinksAreSources(Sentences(answer), Evidence)
                      /\ citations = CitedIn(Sentences(answer))
    BY DEF DeliveredIsCited
  <2>1. PICK text \in Drafts :
            /\ draft = WithoutEmptyAlternatives(text)
            /\ Validated(Sentences(text), selection, Evidence, question)
            /\ citations = CitedIn(Sentences(text))
    BY <1>1 DEF SynthesisInv, DraftChecked
  <2>2. text \in Texts /\ answer = WithoutEmptyAlternatives(text)
    BY <1>1, <2>1, DraftsAreTexts DEF SynthesisInv, DraftDelivered
  <2>3. CitedIn(Sentences(answer)) = CitedIn(Sentences(text))
    BY <2>2, StrippedSentences
  <2> QED BY <2>1, <2>2, <2>3, StrippedPasses
<1> QED BY <1>1, SynthesisInvariant, PTL

\* The review kept as the receipt judged the text that is delivered, passage by passage.
THEOREM ReceiptsJudgeAnswers == SynthesisSpec => []ReceiptJudgesTheAnswer
<1>1. ASSUME SynthesisInv PROVE ReceiptJudgesTheAnswer
  <2> SUFFICES ASSUME stage = "delivered" PROVE ReceiptJudgesTheAnswer
    BY DEF ReceiptJudgesTheAnswer
  <2> DEFINE sentences == Sentences(answer)
             decisions == receipt.decisions
  <2>1. /\ receipt.text = answer /\ decisions \in [DOMAIN sentences -> Decisions]
        /\ ClaimsHold(decisions, sentences, Evidence)
    BY <1>1 DEF SynthesisInv, DraftDelivered
  <2>2. sentences \in Seq(Passages)
    <3>1. PICK text \in Drafts : draft = WithoutEmptyAlternatives(text)
      BY <1>1 DEF SynthesisInv, DraftChecked
    <3>2. answer \in Texts
      BY <1>1, <3>1, DraftsAreTexts, StripsOnce DEF SynthesisInv, DraftDelivered
    <3> QED BY <3>2, SentencesOfParts
  <2> HIDE DEF sentences, decisions
  <2>3. ASSUME NEW i \in DOMAIN sentences
        PROVE  (decisions[i].verdict = "non_claim") = (sentences[i].cites = << >>)
    <3>1. sentences[i] \in Passages /\ sentences[i].cites \in Seq(Nat)
      BY <2>2, ElementOfSeq, LenProperties, SynthesisAssumption
    <3>2. decisions[i] \in Decisions
      BY <2>1
    <3>3. decisions[i].verdict \in {"supported", "non_claim", "unsupported"}
      BY <3>2 DEF Decisions
    <3>4. CASE decisions[i].verdict = "non_claim"
      <4>1. Cited(sentences[i]) = {}
        BY <2>1, <3>4 DEF ClaimsHold
      <4>2. sentences[i].cites = << >>
        <5>1. SUFFICES ASSUME sentences[i].cites # << >> PROVE FALSE
          OBVIOUS
        <5>2. Len(sentences[i].cites) \in Nat \ {0}
              /\ DOMAIN sentences[i].cites = 1..Len(sentences[i].cites)
          BY <3>1, <5>1, EmptySeq, LenProperties
        <5>3. sentences[i].cites[1] \in Cited(sentences[i])
          BY <5>2 DEF Cited, Range
        <5> QED BY <4>1, <5>3
      <4> QED BY <3>4, <4>2
    <3>5. CASE decisions[i].verdict = "supported"
      <4>1. Cited(sentences[i]) # {}
        BY <2>1, <3>5 DEF ClaimsHold
      <4>2. sentences[i].cites # << >>
        BY <4>1, EmptySeq DEF Cited, Range
      <4> QED BY <3>5, <4>2
    <3>6. decisions[i].verdict # "unsupported"
      BY <2>1 DEF ClaimsHold
    <3> QED BY <3>3, <3>4, <3>5, <3>6
  <2>4. DOMAIN decisions = DOMAIN sentences
    BY <2>1
  <2> QED BY <2>1, <2>3, <2>4 DEF ReceiptJudgesTheAnswer, sentences, decisions
<1> QED BY <1>1, SynthesisInvariant, PTL
----------------------------------------------------------------------------
(* What is selected and shown keeps its type, and repeats no product.      *)

\* What lists only what another list does repeats no product that it does not.
LEMMA FewerRepeats ==
    ASSUME NEW some \in Seq(Listings), NEW all \in Seq(Listings), IsInjective(some),
           Range(some) \subseteq Range(all), OfDifferentProducts(all)
    PROVE  OfDifferentProducts(some)
<1> SUFFICES ASSUME NEW i \in DOMAIN some, NEW j \in DOMAIN some, i # j
             PROVE  ~SameLine(some[i], some[j])
    BY DEF OfDifferentProducts
<1>1. some[i] \in Range(all) /\ some[j] \in Range(all)
    BY DEF Range
<1>2. PICK k \in DOMAIN all, l \in DOMAIN all : all[k] = some[i] /\ all[l] = some[j]
    BY <1>1 DEF Range
<1>3. some[i] # some[j]
    BY DEF IsInjective
<1>4. k # l
    BY <1>2, <1>3
<1> QED BY <1>2, <1>4 DEF OfDifferentProducts

\* The calls still to be made bound the counters, and before a draft is accepted there is
\* nothing of it.
SelectionInv ==
    /\ SynthesisTypeOK /\ OneListingPerProduct
    /\ stage \in {"picking", "reviewing"} => drafts = 0 /\ citations = {} /\ reviews \in 0..1
    /\ stage = "drafting" => drafts \in 0..1
    /\ stage # "delivered" => cards = << >>

LEMMA NothingListed ==
    << >> \in Seq(Listings) /\ IsInjective(<< >>) /\ OfDifferentProducts(<< >>)
BY EmptySeq DEF IsInjective, OfDifferentProducts

LEMMA NoTextIsText == NoText \in Texts
BY EmptySeq DEF NoText, Texts

LEMMA SelectionStarts == SynthesisInit => SelectionInv
<1> SUFFICES ASSUME SynthesisInit PROVE SelectionInv
    OBVIOUS
<1>1. /\ caller = "tool" /\ question = NoQuestion /\ selection = << >> /\ stage = "picking"
      /\ reviews = 0 /\ narrowed = FALSE /\ drafts = 0 /\ draft = NoText
      /\ supported = {} /\ answer = NoText /\ citations = {} /\ cards = << >>
    BY DEF SynthesisInit
<1>2. selection \in Seq(Listings) /\ IsInjective(selection)
    BY <1>1, NothingListed
<1>3. draft \in Texts /\ answer \in Texts
    BY <1>1, NoTextIsText
<1>4. SynthesisTypeOK
  <2>1. question \in Questions \cup {NoQuestion} /\ stage \in Stages /\ stage # "delivered"
    BY <1>1 DEF Stages
  <2>2. narrowed \in BOOLEAN
    BY <1>1, Zenon
  <2>3. reviews \in 0..2 /\ drafts \in 0..2
    BY <1>1
  <2>4. citations \subseteq DOMAIN Evidence /\ supported \subseteq Listings
    BY <1>1
  <2> QED BY <1>1, <1>2, <1>3, <2>1, <2>2, <2>3, <2>4 DEF SynthesisTypeOK
<1>5. OneListingPerProduct
    BY <1>1, NothingListed DEF OneListingPerProduct
<1> QED BY <1>1, <1>4, <1>5 DEF SelectionInv

\* A step that keeps the selection and cites nothing new has to keep the counters only.
LEMMA CallsKeep ==
    ASSUME SelectionInv, stage # "delivered", stage' \in Stages \ {"delivered"},
           UNCHANGED <<caller, question, selection, narrowed, draft, answer, citations, cards>>,
           supported' \subseteq Listings,
           reviews' \in 0..2, drafts' \in 0..2,
           stage' \in {"picking", "reviewing"} =>
                stage \in {"picking", "reviewing"} /\ drafts' = 0 /\ reviews' \in 0..1,
           stage' = "drafting" => drafts' \in 0..1
    PROVE  SelectionInv'
<1>1. Selected' = Selected /\ Evidence' = Evidence
    BY DEF Selected, Evidence
<1>2. SynthesisTypeOK'
    BY <1>1 DEF SelectionInv, SynthesisTypeOK
<1>3. OneListingPerProduct'
    BY DEF SelectionInv, OneListingPerProduct
<1> QED BY <1>2, <1>3 DEF SelectionInv

LEMMA PickListed ==
    ASSUME SelectionInv, NEW who \in {"tool", "fallback"}, NEW picks \in Picks,
           NEW asked \in Questions, Pick(who, picks, asked)
    PROVE  SelectionInv'
<1>1. picks \in Seq(Listings) /\ IsInjective(picks)
  <2>1. PICK n \in 1..Cardinality(Listings) : picks \in [1..n -> Listings]
    BY DEF Picks
  <2>2. n \in Nat
    BY <2>1, ListingCovers, FS_CardinalityType
  <2> QED BY <2>1, <2>2 DEF Picks
<1> DEFINE left == WithoutRepeats(picks)
<1>2. /\ left \in Seq(Listings) /\ IsInjective(left)
      /\ \A i, j \in DOMAIN left : i # j => ~SameLine(left[i], left[j])
    BY <1>1, RepeatsLeaveTheBest
<1> HIDE DEF left
<1> DEFINE led == LeadWithBetterRated(left, asked.names)
<1>3. led \in Seq(Listings) /\ IsInjective(led) /\ Range(led) = Range(left)
    BY <1>2, LeadKeepsPicks
<1> HIDE DEF led
<1>4. OfDifferentProducts(left)
    BY <1>2 DEF OfDifferentProducts
<1>5. OfDifferentProducts(led)
    BY <1>2, <1>3, <1>4, FewerRepeats
<1>6. /\ stage = "picking" /\ caller' = who /\ question' = asked
      /\ selection' = led /\ stage' \in {"failed", "reviewing"}
      /\ UNCHANGED <<reviews, narrowed, drafts, draft, supported, answer, citations, cards>>
    BY DEF Pick, left, led
<1>7. SynthesisTypeOK'
    BY <1>3, <1>6 DEF SelectionInv, SynthesisTypeOK, Stages, Ended
<1>8. OneListingPerProduct'
    BY <1>5, <1>6 DEF SelectionInv, OneListingPerProduct
<1> QED BY <1>6, <1>7, <1>8 DEF SelectionInv

LEMMA ReviewNarrowsListed ==
    ASSUME SelectionInv, NEW review, ReviewNarrows(review)
    PROVE  SelectionInv'
<1>1. /\ stage = "reviewing" /\ selection \in Seq(Listings) /\ IsInjective(selection)
      /\ OfDifferentProducts(selection)
      /\ reviews \in 0..1 /\ drafts = 0 /\ citations = {} /\ supported \subseteq Listings
    BY DEF ReviewNarrows, SelectionInv, SynthesisTypeOK, OneListingPerProduct
<1>2. CASE caller = "fallback" /\ ~narrowed
  <2> DEFINE left == InOrder(selection, SupportedBy(review))
  <2>1. /\ left \in Seq(Listings) /\ IsInjective(left)
        /\ Range(left) = Range(selection) \cap SupportedBy(review)
    BY <1>1, InOrderProperties
  <2> HIDE DEF left
  <2>2. OfDifferentProducts(left)
    BY <1>1, <2>1, FewerRepeats
  <2>3. /\ selection' = left /\ narrowed' = TRUE /\ reviews' = 0 /\ stage' = stage
        /\ UNCHANGED <<caller, question, drafts, draft, answer, citations, cards, supported>>
    BY <1>2 DEF ReviewNarrows, Unreviewed, left
  <2>4. SynthesisTypeOK'
    BY <1>1, <2>1, <2>3 DEF SelectionInv, SynthesisTypeOK
  <2>5. OneListingPerProduct'
    BY <2>2, <2>3 DEF SelectionInv, OneListingPerProduct
  <2> QED BY <1>1, <2>3, <2>4, <2>5 DEF SelectionInv
<1>3. CASE ~(caller = "fallback" /\ ~narrowed)
  <2>1. /\ stage' \in {"partly", "failed"} /\ reviews' = reviews + 1
        /\ UNCHANGED <<caller, question, drafts, draft, answer, citations, cards, supported,
                       selection, narrowed>>
    BY <1>3 DEF ReviewNarrows, Unreviewed
  <2> QED BY <1>1, <2>1, CallsKeep DEF Stages, Ended
<1> QED BY <1>2, <1>3

LEMMA DraftAcceptedListed ==
    ASSUME SelectionInv, NEW text \in Drafts, DraftAccepted(text)
    PROVE  SelectionInv'
<1>1. /\ stage = "drafting" /\ stage' = "claims" /\ drafts' = drafts + 1
      /\ Validated(Sentences(text), selection, Evidence, question)
      /\ draft' = WithoutEmptyAlternatives(text)
      /\ citations' = CitedIn(Sentences(text))
      /\ UNCHANGED <<caller, question, selection, reviews, narrowed, supported, answer, cards>>
    BY DEF DraftAccepted, Reviewed
<1>2. Selected' = Selected /\ Evidence' = Evidence
    BY <1>1 DEF Selected, Evidence
<1>3. draft' \in Texts
    BY <1>1, DraftsAreTexts, StripsOnce
<1>4. citations' \subseteq DOMAIN Evidence'
    BY <1>1, <1>2 DEF Validated, CitesEverySelected
<1>5. SynthesisTypeOK'
    BY <1>1, <1>2, <1>3, <1>4 DEF SelectionInv, SynthesisTypeOK, Stages
<1>6. OneListingPerProduct'
    BY <1>1 DEF SelectionInv, OneListingPerProduct
<1> QED BY <1>1, <1>5, <1>6 DEF SelectionInv

LEMMA ClaimsAcceptedListed ==
    ASSUME SelectionInv, NEW decisions, ClaimsAccepted(decisions)
    PROVE  SelectionInv'
<1> DEFINE sentences == Sentences(answer')
<1>1. /\ stage = "claims" /\ stage' = "delivered"
      /\ answer' = WithoutEmptyAlternatives(draft)
      /\ cards' = InAnswerOrder(sentences, selection, Evidence)
      /\ UNCHANGED <<caller, question, selection, reviews, narrowed, supported, drafts, draft,
                     citations>>
    BY DEF ClaimsAccepted, Reviewed
<1>2. Selected' = Selected /\ Evidence' = Evidence
    BY <1>1 DEF Selected, Evidence
<1>3. selection \in Seq(Listings) /\ IsInjective(selection) /\ OfDifferentProducts(selection)
    BY DEF SelectionInv, SynthesisTypeOK, OneListingPerProduct
<1>4. answer' \in Texts /\ sentences \in Seq(Passages)
  <2>1. draft \in Texts
    BY DEF SelectionInv, SynthesisTypeOK
  <2>2. answer' \in Texts
    BY <1>1, <2>1, StripsOnce
  <2> QED BY <2>2, SentencesOfParts
<1> HIDE DEF sentences
<1>5. /\ cards' \in Seq(Listings) /\ IsInjective(cards')
      /\ Range(cards') = Range(selection) /\ Len(cards') = Len(selection)
    BY <1>1, <1>3, <1>4, CardsAreTheSelection
<1>6. OfDifferentProducts(cards')
    BY <1>3, <1>5, FewerRepeats
<1>7. SynthesisTypeOK'
    BY <1>1, <1>2, <1>4, <1>5 DEF SelectionInv, SynthesisTypeOK, Stages, Ended, Selected
<1>8. OneListingPerProduct'
    BY <1>1, <1>3, <1>6 DEF OneListingPerProduct
<1> QED BY <1>1, <1>7, <1>8 DEF SelectionInv

LEMMA SelectionSteps == SelectionInv /\ [SynthesisNext]_synthesisVars => SelectionInv'
<1> SUFFICES ASSUME SelectionInv, [SynthesisNext]_synthesisVars PROVE SelectionInv'
    OBVIOUS
<1>1. /\ supported \subseteq Listings /\ reviews \in 0..2 /\ drafts \in 0..2 /\ stage \in Stages
      /\ stage \in {"picking", "reviewing"} => drafts = 0 /\ reviews \in 0..1
      /\ stage = "drafting" => drafts \in 0..1
    BY DEF SelectionInv, SynthesisTypeOK
<1>2. ASSUME NEW who \in {"tool", "fallback"}, NEW picks \in Picks, NEW asked \in Questions,
             Pick(who, picks, asked)
      PROVE  SelectionInv'
    BY <1>2, PickListed
<1>3. ASSUME stage = "reviewing", reviews' = reviews + 1, stage' \in Stages \ {"delivered"},
             stage' = "drafting" \/ stage' \in Ended \/ (stage' = "reviewing" /\ reviews = 0),
             UNCHANGED <<Unreviewed, selection, narrowed>>, supported' \subseteq Listings
      PROVE  SelectionInv'
    BY <1>1, <1>3, CallsKeep DEF Unreviewed, Ended
<1>4. ASSUME NEW stop \in Stops, ReviewInterrupted(stop) PROVE SelectionInv'
    BY <1>1, <1>3, <1>4 DEF ReviewInterrupted, Stages, Ended
<1>5. ASSUME NEW call, ReviewMalformed(call) PROVE SelectionInv'
    BY <1>1, <1>3, <1>5 DEF ReviewMalformed, Stages, Ended
<1>6. ASSUME NEW review, ReviewOutOfScope(review) \/ ReviewContradicts(review)
      PROVE  SelectionInv'
    BY <1>1, <1>3, <1>6 DEF ReviewOutOfScope, ReviewContradicts, Stages, Ended
<1>7. ASSUME NEW review, ReviewNarrows(review) PROVE SelectionInv'
    BY <1>7, ReviewNarrowsListed
<1>8. ASSUME NEW review, ReviewSettles(review) PROVE SelectionInv'
  <2>1. Selected \subseteq Listings
    <3>1. selection \in Seq(Listings)
      BY DEF SelectionInv, SynthesisTypeOK
    <3> QED BY <3>1, LenProperties DEF Selected, Range
  <2>2. supported' \subseteq Listings
    BY <1>8, <2>1 DEF ReviewSettles, ReviewScoped, SupportedBy
  <2> QED BY <1>3, <1>8, <2>2 DEF ReviewSettles, Stages, Ended
<1>9. ASSUME NEW text \in Drafts, DraftAccepted(text) PROVE SelectionInv'
    BY <1>9, DraftAcceptedListed
<1>10. ASSUME stage \in {"reviewing", "drafting", "claims"}, stage' \in {"drafting", "failed"},
              stage' = "drafting" => drafts' \in 0..1, drafts' \in 0..2,
              UNCHANGED <<Reviewed, draft, answer, citations, cards>>
       PROVE  SelectionInv'
    BY <1>1, <1>10, CallsKeep DEF Reviewed, Stages, Ended
<1>11. ASSUME NEW text \in Drafts, DraftRejected(text) PROVE SelectionInv'
    BY <1>1, <1>10, <1>11 DEF DraftRejected, Rejected
<1>12. ASSUME NEW stop \in Stops, DraftCut(stop) PROVE SelectionInv'
    BY <1>1, <1>10, <1>12 DEF DraftCut, Rejected
<1>13. ASSUME NEW decisions, ClaimsAccepted(decisions) PROVE SelectionInv'
    BY <1>13, ClaimsAcceptedListed
<1>14. ASSUME NEW decisions, NEW complete, ClaimsRejected(decisions, complete)
       PROVE  SelectionInv'
    BY <1>1, <1>10, <1>14 DEF ClaimsRejected
<1>15. CASE CallFails
    BY <1>1, <1>10, <1>15 DEF CallFails
<1>16. CASE UNCHANGED synthesisVars
  <2>1. Selected' = Selected /\ Evidence' = Evidence
    BY <1>16 DEF synthesisVars, Selected, Evidence
  <2> QED
    BY <1>16, <2>1 DEF synthesisVars, SelectionInv, SynthesisTypeOK, OneListingPerProduct
<1> QED
    BY <1>2, <1>4, <1>5, <1>6, <1>7, <1>8, <1>9, <1>11, <1>12, <1>13, <1>14, <1>15, <1>16
    DEF SynthesisNext

LEMMA SelectionInvariant == SynthesisSpec => []SelectionInv
BY SelectionStarts, SelectionSteps, PTL DEF SynthesisSpec

\* The synthesis keeps its types: at most two reviews of a selection and two drafts, and
\* the cards are the selection, all of it, in another order.
THEOREM SynthesisTypeHolds == SynthesisSpec => []SynthesisTypeOK
<1>1. SelectionInv => SynthesisTypeOK
    BY DEF SelectionInv
<1> QED BY <1>1, SelectionInvariant, PTL

\* Whatever is picked, reviewed, narrowed and written, no two listings of one product are
\* recommended beside each other.
THEOREM OneListingIsShown == SynthesisSpec => []OneListingPerProduct
<1>1. SelectionInv => OneListingPerProduct
    BY DEF SelectionInv
<1> QED BY <1>1, SelectionInvariant, PTL
=============================================================================
