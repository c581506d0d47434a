--------------------------- MODULE RetrievalProofs ---------------------------
(***************************************************************************)
(* What holds of searches for every catalog, every query and every number  *)
(* of searches at once: the words of a query are judged against a whole    *)
(* vocabulary, the fused pool agrees with channels that agree, a pool is   *)
(* reranked whole or not at all, an event grants a whole answer or nothing *)
(* and searches of one query share its vector.                             *)
(***************************************************************************)
EXTENDS Retrieval, ArrangementProofs

-----------------------------------------------------------------------------
(* Coverage.                                                               *)

\* A search's record has its fields, whatever they hold.
Searching(request, vector, pool, scores, served) ==
    [request : {request}, at : SearchPlaces, vector : {vector}, pool : {pool},
     reranked : {"disabled", "applied", "unavailable"}, scores : {scores},
     coverage : {"none", "unavailable", "grounded", "unanchored"}, served : {served}]

IsSearch(r) == r \in Searching(r.request, r.vector, r.pool, r.scores, r.served)

AreSearches == DOMAIN search = Searches /\ \A s \in Searches : IsSearch(search[s])

VocabularyIsWhole ==
    /\ vocabulary = [lexemes |-> vocabulary.lexemes, surface |-> vocabulary.surface]
    /\ vocabulary.lexemes \in {{}, CatalogLexemes}
    /\ vocabulary.surface \in {{}, CatalogSurface}

\* Each search keeps its request, each table of the vocabulary is empty or the
\* catalog's, a search judges words only against both, and what it says is so.
CoverageInv ==
    /\ AreSearches
    /\ \A s \in Searches : search[s].request.query \in Queries
    /\ VocabularyIsWhole
    /\ \A s \in Searches : search[s].at = "judging" => VocabularyReady
    /\ CoverageIsHonest

\* What r becomes says nothing new and judges nothing new.
Quiet(r, q) ==
    /\ IsSearch(q) /\ q.request = r.request
    /\ q.coverage \in {r.coverage, "none"}
    /\ q.at = "judging" => r.at = "judging"

LEMMA QuietUpdates ==
    ASSUME NEW r, IsSearch(r), NEW place \in SearchPlaces, place # "judging"
    PROVE  /\ Quiet(r, r)
           /\ Quiet(r, [r EXCEPT !.at = place])
           /\ \A x : Quiet(r, [r EXCEPT !.vector = x, !.at = place])
           /\ \A x : Quiet(r, [r EXCEPT !.pool = x, !.at = place])
           /\ \A x : Quiet(r, [r EXCEPT !.served = x, !.at = place])
           /\ Quiet(r, [r EXCEPT !.reranked = "unavailable", !.at = place])
           /\ \A y : Quiet(r, [r EXCEPT !.reranked = "applied", !.scores = y, !.at = place])
<1>1. Quiet(r, r) BY DEF IsSearch, Quiet
<1>2. Quiet(r, [r EXCEPT !.at = place]) BY DEF IsSearch, Quiet, Searching
<1>3. \A x : Quiet(r, [r EXCEPT !.vector = x, !.at = place]) BY DEF IsSearch, Quiet, Searching
<1>4. \A x : Quiet(r, [r EXCEPT !.pool = x, !.at = place]) BY DEF IsSearch, Quiet, Searching
<1>5. \A x : Quiet(r, [r EXCEPT !.served = x, !.at = place]) BY DEF IsSearch, Quiet, Searching
<1>6. Quiet(r, [r EXCEPT !.reranked = "unavailable", !.at = place]) BY DEF IsSearch, Quiet, Searching
<1>7. \A y : Quiet(r, [r EXCEPT !.reranked = "applied", !.scores = y, !.at = place])
  BY DEF IsSearch, Quiet, Searching
<1> QED BY <1>1, <1>2, <1>3, <1>4, <1>5, <1>6, <1>7

LEMMA EndedUpdates ==
    ASSUME NEW r, IsSearch(r), NEW place \in SearchPlaces, place # "judging"
    PROVE  /\ Quiet(r, [NotSubmitted(r.request) EXCEPT !.at = place])
           /\ \A x : Quiet(r, [[NotSubmitted(r.request) EXCEPT !.at = place] EXCEPT !.served = x])
BY DEF IsSearch, Quiet, Searching, NotSubmitted

LEMMA CoverageInit == RetrievalInit => CoverageInv
<1> SUFFICES ASSUME RetrievalInit PROVE CoverageInv
  OBVIOUS
<1>1. PICK asked \in [Searches -> SearchRequests] :
         search = [s \in Searches |-> NotSubmitted(asked[s])]
  BY DEF RetrievalInit
<1>2. \A s \in Searches : search[s] = NotSubmitted(asked[s])
  BY <1>1
<1>3. \A s \in Searches : IsSearch(search[s])
  <2>1. \A request : IsSearch(NotSubmitted(request))
    BY DEF IsSearch, Searching, NotSubmitted, SearchPlaces
  <2> QED BY <1>2, <2>1
<1>4. \A s \in Searches : /\ search[s].at = "idle" /\ search[s].coverage = "none"
                          /\ search[s].request = asked[s]
  <2>1. \A request : LET r == NotSubmitted(request)
                     IN  r.at = "idle" /\ r.coverage = "none" /\ r.request = request
    BY DEF NotSubmitted
  <2> QED BY <1>2, <2>1
<1>5. \A s \in Searches : search[s].request.query \in Queries
  <2>1. \A r \in SearchRequests : r.query \in Queries
    BY RetrievalAssumption
  <2> QED BY <1>1, <1>4, <2>1
<1>6. VocabularyIsWhole
  BY DEF RetrievalInit, VocabularyIsWhole
<1>7. CoverageIsHonest
  BY <1>4 DEF CoverageIsHonest
<1> QED
  BY <1>1, <1>3, <1>4, <1>5, <1>6, <1>7 DEF CoverageInv, AreSearches

\* A step that moves one search and says nothing of its words.
LEMMA QuietStep ==
    ASSUME CoverageInv, NEW s \in Searches, NEW q, search' = [search EXCEPT ![s] = q],
           Quiet(search[s], q), UNCHANGED vocabulary
    PROVE  CoverageInv'
<1>1. \A t \in Searches : search'[t] = IF t = s THEN q ELSE search[t]
  BY DEF CoverageInv, AreSearches
<1>2. \A t \in Searches : Quiet(search[t], search'[t])
  BY <1>1 DEF CoverageInv, AreSearches, Quiet
<1>3. AreSearches'
  BY <1>2 DEF CoverageInv, AreSearches, Quiet
<1>4. \A t \in Searches : search'[t].request.query \in Queries
  BY <1>2 DEF CoverageInv, Quiet
<1>5. VocabularyIsWhole'
  BY DEF CoverageInv, VocabularyIsWhole
<1>6. \A t \in Searches : search'[t].at = "judging" => VocabularyReady'
  BY <1>2 DEF CoverageInv, Quiet, VocabularyReady
<1>7. CoverageIsHonest'
  BY <1>2 DEF CoverageInv, CoverageIsHonest, Quiet, QueryOf
<1> QED
  BY <1>3, <1>4, <1>5, <1>6, <1>7 DEF CoverageInv

LEMMA GoingStep ==
    ASSUME CoverageInv, NEW s \in Searches, NEW place \in SearchPlaces \ {"judging"},
           Goes(s, place), UNCHANGED vocabulary
    PROVE  CoverageInv'
<1>1. Quiet(search[s], [search[s] EXCEPT !.at = place])
  BY QuietUpdates DEF CoverageInv, AreSearches
<1>2. search' = [search EXCEPT ![s] = [search[s] EXCEPT !.at = place]]
  BY DEF Goes
<1> QED
  BY <1>1, <1>2, QuietStep

LEMMA EndingStep ==
    ASSUME CoverageInv, NEW s \in Searches, NEW place \in SearchPlaces \ {"judging"},
           search' = [search EXCEPT ![s] = EndOf(s, place)], UNCHANGED vocabulary
    PROVE  CoverageInv'
<1>1. Quiet(search[s], EndOf(s, place))
  BY EndedUpdates DEF CoverageInv, AreSearches, EndOf
<1> QED
  BY <1>1, QuietStep

\* A step that says of the query's words what is so.
LEMMA SayingStep ==
    ASSUME CoverageInv, NEW s \in Searches,
           NEW said \in {"unavailable", "grounded", "unanchored"},
           Says(s, said), UNCHANGED vocabulary,
           said \in {"grounded", "unanchored"} =>
               /\ VocabularyReady
               /\ said = "unanchored" <=>
                    \E term \in Terms[QueryOf(s)] : Verdict(term) = "unmatched_anchor"
    PROVE  CoverageInv'
<1> DEFINE q == [search[s] EXCEPT !.coverage = said, !.at = "persisting"]
<1>1. IsSearch(q) /\ q.request = search[s].request /\ q.coverage = said /\ q.at = "persisting"
  <2>1. IsSearch(search[s])
    BY DEF CoverageInv, AreSearches
  <2>2. IsSearch(q)
    BY <2>1 DEF IsSearch, Searching, SearchPlaces, Unfinished, Working
  <2>3. q.request = search[s].request /\ q.coverage = said /\ q.at = "persisting"
    BY <2>1 DEF IsSearch, Searching
  <2> QED BY <2>2, <2>3
<1>2. search' = [search EXCEPT ![s] = q]
  BY DEF Says
<1>3. \A t \in Searches : search'[t] = IF t = s THEN q ELSE search[t]
  BY <1>2 DEF CoverageInv, AreSearches
<1> HIDE DEF q
<1>4. AreSearches'
  BY <1>1, <1>2, <1>3 DEF CoverageInv, AreSearches
<1>5. \A t \in Searches : search'[t].request = search[t].request
  BY <1>1, <1>3
<1>6. VocabularyIsWhole' /\ (VocabularyReady' <=> VocabularyReady)
  BY DEF CoverageInv, VocabularyIsWhole, VocabularyReady
<1>7. \A t \in Searches : search'[t].at = "judging" => VocabularyReady'
  BY <1>1, <1>3, <1>6 DEF CoverageInv
<1>8. VocabularyReady => /\ vocabulary.lexemes = CatalogLexemes
                         /\ vocabulary.surface = CatalogSurface
  BY DEF CoverageInv, VocabularyIsWhole, VocabularyReady
<1>9. ASSUME said = "unanchored"
      PROVE  \E term \in Terms[QueryOf(s)] :
                /\ term.lexeme # "" /\ term.lexeme \notin CatalogLexemes
                /\ term.kind = "identifier" \/ term.near \cap CatalogSurface = {}
  <2>1. PICK term \in Terms[QueryOf(s)] : Verdict(term) = "unmatched_anchor"
    BY <1>9
  <2>2. term.kind \in {"word", "identifier"}
    BY RetrievalAssumption DEF CoverageInv, QueryOf
  <2> QED
    BY <1>8, <1>9, <2>1, <2>2 DEF Verdict
<1>10. ASSUME said = "grounded", NEW term \in Terms[QueryOf(s)],
              term.lexeme # "", term.lexeme \notin CatalogLexemes
       PROVE  term.kind # "identifier"
  BY <1>8, <1>10 DEF Verdict
<1>11. CoverageIsHonest'
  BY <1>1, <1>3, <1>5, <1>9, <1>10 DEF CoverageInv, CoverageIsHonest, QueryOf
<1> QED
  BY <1>4, <1>5, <1>6, <1>7, <1>11 DEF CoverageInv
-----------------------------------------------------------------------------
LEMMA CoverageSearchStep ==
    ASSUME CoverageInv, NEW s \in Searches, SearchStep(s)
    PROVE  CoverageInv'
<1> USE DEF SearchPlaces, Unfinished, Working
<1>0. IsSearch(search[s])
  BY DEF CoverageInv, AreSearches
<1>1. CASE Submit(s)
  BY <1>1, GoingStep DEF Submit
<1>2. ASSUME NEW vector, WithVector(s, vector), UNCHANGED vocabulary
      PROVE  CoverageInv'
  <2> DEFINE q == [search[s] EXCEPT !.vector = vector, !.at = "fusing"]
  <2>1. Quiet(search[s], q)
    BY <1>0, QuietUpdates
  <2>2. search' = [search EXCEPT ![s] = q]
    BY <1>2 DEF WithVector
  <2> HIDE DEF q
  <2> QED BY <1>2, <2>1, <2>2, QuietStep
<1>3. CASE CacheHit(s)
  BY <1>2, <1>3 DEF CacheHit
<1>4. CASE CacheMiss(s)
  BY <1>4, GoingStep DEF CacheMiss, OnlySearches
<1>5. CASE Fuses(s)
  <2>1. PICK place \in {"reranking", "covering"} : \E pool :
          search' = [search EXCEPT ![s] = [search[s] EXCEPT !.pool = pool, !.at = place]]
    BY <1>5 DEF Fuses
  <2>2. PICK pool :
          search' = [search EXCEPT ![s] = [search[s] EXCEPT !.pool = pool, !.at = place]]
    BY <2>1
  <2> DEFINE q == [search[s] EXCEPT !.pool = pool, !.at = place]
  <2>3. Quiet(search[s], q)
    BY <1>0, <2>1, QuietUpdates
  <2>4. search' = [search EXCEPT ![s] = q]
    BY <2>2
  <2>5. UNCHANGED vocabulary
    BY <1>5 DEF Fuses, OnlySearches
  <2> HIDE DEF q
  <2> QED BY <2>3, <2>4, <2>5, QuietStep
<1>6. CASE RerankFails(s)
  <2>1. UNCHANGED vocabulary
    BY <1>6 DEF RerankFails, OnlySearches
  <2>2. CASE RerankRequired
    BY <1>6, <2>1, <2>2, EndingStep DEF RerankFails
  <2>3. CASE ~RerankRequired
    <3> DEFINE q == [search[s] EXCEPT !.reranked = "unavailable", !.at = "covering"]
    <3>1. Quiet(search[s], q)
      BY <1>0, QuietUpdates
    <3>2. search' = [search EXCEPT ![s] = q]
      BY <1>6, <2>3 DEF RerankFails
    <3> HIDE DEF q
    <3> QED BY <2>1, <3>1, <3>2, QuietStep
  <2> QED BY <2>2, <2>3
<1>7. ASSUME NEW reply, Reranks(s, reply)
      PROVE  CoverageInv'
  <2>1. UNCHANGED vocabulary
    BY <1>7 DEF Reranks, OnlySearches
  <2> DEFINE q == [search[s] EXCEPT !.reranked = "applied",
                                    !.scores = ScoresOf(reply, search[s].pool), !.at = "covering"]
  <2>2. Quiet(search[s], q)
    BY <1>0, QuietUpdates
  <2>3. search' = [search EXCEPT ![s] = q]
    BY <1>7 DEF Reranks
  <2> HIDE DEF q
  <2> QED BY <2>1, <2>2, <2>3, QuietStep
<1>8. CASE CoverageStarts(s)
  <2>1. UNCHANGED vocabulary
    BY <1>8 DEF CoverageStarts, OnlySearches
  <2>2. CASE ~VocabularyReady
    BY <1>8, <2>1, <2>2, SayingStep DEF CoverageStarts
  <2>3. CASE VocabularyReady
    <3> DEFINE q == [search[s] EXCEPT !.at = "judging"]
    <3>1. IsSearch(q) /\ q.request = search[s].request /\ q.coverage = search[s].coverage
      BY <1>0 DEF IsSearch, Searching
    <3>2. search' = [search EXCEPT ![s] = q]
      BY <1>8, <2>3 DEF CoverageStarts, Goes
    <3> HIDE DEF q
    <3>3. \A t \in Searches : search'[t] = IF t = s THEN q ELSE search[t]
      BY <3>2 DEF CoverageInv, AreSearches
    <3>4. AreSearches'
      BY <3>1, <3>2, <3>3 DEF CoverageInv, AreSearches
    <3>5. VocabularyReady' /\ VocabularyIsWhole'
      BY <2>1, <2>3 DEF CoverageInv, VocabularyReady, VocabularyIsWhole
    <3>6. CoverageIsHonest'
      BY <3>1, <3>3 DEF CoverageInv, CoverageIsHonest, QueryOf
    <3>7. \A t \in Searches : search'[t].request.query \in Queries
      BY <3>1, <3>3 DEF CoverageInv
    <3> QED BY <3>4, <3>5, <3>6, <3>7 DEF CoverageInv
  <2> QED BY <2>2, <2>3
<1>9. CASE CoverageUnavailable(s)
  BY <1>9, SayingStep DEF CoverageUnavailable, OnlySearches
<1>10. CASE CoverageJudges(s)
  <2>1. VocabularyReady /\ UNCHANGED vocabulary
    BY <1>10 DEF CoverageJudges, OnlySearches, CoverageInv, SearchAt
  <2>2. CASE \E term \in Terms[QueryOf(s)] : Verdict(term) = "unmatched_anchor"
    <3>1. Says(s, "unanchored")
      BY <1>10, <2>2 DEF CoverageJudges
    <3> QED BY <2>1, <2>2, <3>1, SayingStep
  <2>3. CASE ~\E term \in Terms[QueryOf(s)] : Verdict(term) = "unmatched_anchor"
    <3>1. Says(s, "grounded")
      BY <1>10, <2>3 DEF CoverageJudges
    <3> QED BY <2>1, <2>3, <3>1, SayingStep
  <2> QED BY <2>2, <2>3
<1>11. CASE Persists(s)
  <2>1. PICK served :
          search' = [search EXCEPT ![s] =
                        [search[s] EXCEPT !.served = served, !.at = "responding"]]
    BY <1>11 DEF Persists
  <2> DEFINE q == [search[s] EXCEPT !.served = served, !.at = "responding"]
  <2>2. Quiet(search[s], q)
    BY <1>0, QuietUpdates
  <2>3. search' = [search EXCEPT ![s] = q] /\ UNCHANGED vocabulary
    BY <1>11, <2>1 DEF Persists
  <2> HIDE DEF q
  <2> QED BY <2>2, <2>3, QuietStep
<1>12. CASE CommitUnheard(s)
  BY <1>12, EndingStep DEF CommitUnheard
<1>13. CASE Responds(s)
  <2> DEFINE q == [EndOf(s, "done") EXCEPT !.served = search[s].served]
  <2>1. Quiet(search[s], q)
    BY <1>0, EndedUpdates DEF EndOf
  <2>2. search' = [search EXCEPT ![s] = q] /\ UNCHANGED vocabulary
    BY <1>13 DEF Responds, OnlySearches
  <2> HIDE DEF q
  <2> QED BY <2>1, <2>2, QuietStep
<1>14. CASE Fails(s)
  BY <1>14, EndingStep DEF Fails, OnlySearches
<1>15. ASSUME NEW vector, Embeds(s, vector)
       PROVE  CoverageInv'
  BY <1>2, <1>15 DEF Embeds
<1>16. ASSUME NEW written, MarksFailed(s, written)
       PROVE  CoverageInv'
  BY <1>16, GoingStep DEF MarksFailed
<1> QED
  BY <1>1, <1>3, <1>4, <1>5, <1>6, <1>7, <1>8, <1>9, <1>10, <1>11, <1>12, <1>13, <1>14,
     <1>15, <1>16 DEF SearchStep

LEMMA CoverageNext == CoverageInv /\ [RetrievalNext]_retrievalVars => CoverageInv'
<1> SUFFICES ASSUME CoverageInv, [RetrievalNext]_retrievalVars
             PROVE  CoverageInv'
  OBVIOUS
<1>1. ASSUME NEW s \in Searches, SearchStep(s)
      PROVE  CoverageInv'
  BY <1>1, CoverageSearchStep
<1>2. CASE Crashes
  <2>1. \A s \in Searches : Quiet(search[s], search'[s])
    <3> TAKE s \in Searches
    <3>1. IsSearch(search[s])
      BY DEF CoverageInv, AreSearches
    <3>2. Quiet(search[s], EndOf(s, "lost")) /\ Quiet(search[s], search[s])
      BY <3>1, EndedUpdates, QuietUpdates DEF EndOf, SearchPlaces
    <3>3. search'[s] \in {EndOf(s, "lost"), search[s]}
      BY <1>2 DEF Crashes
    <3> QED BY <3>2, <3>3
  <2>2. DOMAIN search' = Searches /\ UNCHANGED vocabulary
    BY <1>2 DEF Crashes
  <2>3. AreSearches'
    BY <2>1, <2>2 DEF AreSearches, Quiet
  <2>4. \A s \in Searches : search'[s].request.query \in Queries
    BY <2>1 DEF CoverageInv, Quiet
  <2>5. VocabularyIsWhole' /\ (VocabularyReady' <=> VocabularyReady)
    BY <2>2 DEF CoverageInv, VocabularyIsWhole, VocabularyReady
  <2>6. \A s \in Searches : search'[s].at = "judging" => VocabularyReady'
    BY <2>1, <2>5 DEF CoverageInv, Quiet
  <2>7. CoverageIsHonest'
    BY <2>1 DEF CoverageInv, CoverageIsHonest, Quiet, QueryOf
  <2> QED BY <2>3, <2>4, <2>5, <2>6, <2>7 DEF CoverageInv
<1>3. ASSUME NEW q \in Queries, NEW vector \in Vectors, Prime(q, vector)
      PROVE  CoverageInv'
  BY <1>3 DEF Prime, CoverageInv, AreSearches, VocabularyIsWhole, VocabularyReady,
              CoverageIsHonest, QueryOf
<1>4. CASE SeedVocabulary
  <2>1. /\ UNCHANGED search
        /\ vocabulary'.lexemes = CatalogLexemes /\ vocabulary'.surface = CatalogSurface
        /\ vocabulary' = [lexemes |-> CatalogLexemes, surface |-> CatalogSurface]
    BY <1>4 DEF SeedVocabulary
  <2>2. VocabularyIsWhole'
    BY <2>1 DEF VocabularyIsWhole
  <2>3. VocabularyReady => VocabularyReady'
    BY <2>1 DEF CoverageInv, VocabularyIsWhole, VocabularyReady
  <2>4. CoverageIsHonest' /\ AreSearches'
    BY <2>1 DEF CoverageInv, CoverageIsHonest, QueryOf, AreSearches
  <2> QED BY <2>1, <2>2, <2>3, <2>4 DEF CoverageInv
<1>5. CASE UNCHANGED retrievalVars
  BY <1>5 DEF retrievalVars, CoverageInv, AreSearches, VocabularyIsWhole, VocabularyReady,
              CoverageIsHonest, QueryOf
<1> QED
  BY <1>1, <1>2, <1>3, <1>4, <1>5 DEF RetrievalNext

\* What coverage.py says of a search's words is true of the catalog, however the two
\* tables of the vocabulary were seeded and whenever they are rebuilt.
THEOREM CoverageTellsTheTruth == RetrievalSpec => []CoverageIsHonest
<1>1. CoverageInv => CoverageIsHonest
  BY DEF CoverageInv
<1> QED
  BY <1>1, CoverageInit, CoverageNext, PTL DEF RetrievalSpec

-----------------------------------------------------------------------------
(* Fusion.                                                                 *)

\* A channel's list has each of its ranks' contributions.
AreArms(arms) ==
    /\ arms \in [Channels -> Seq(Products)]
    /\ \A c \in Channels : Len(arms[c]) <= ArmLimit

LEMMA RanksAreRanks ==
    ASSUME NEW arms, AreArms(arms), NEW c \in Channels, NEW p
    PROVE  /\ RankIn(arms[c], p) \in 0..ArmLimit
           /\ RankIn(arms[c], p) # 0 => arms[c][RankIn(arms[c], p)] = p
<1> DEFINE arm == arms[c]
<1>1. arm \in Seq(Products) /\ Len(arm) \in Nat /\ Len(arm) <= ArmLimit /\ ArmLimit \in Nat
      /\ DOMAIN arm = 1..Len(arm)
  BY RankingAssumption DEF AreArms
<1> HIDE DEF arm
<1>2. CASE \E r \in DOMAIN arm : arm[r] = p
  <2>1. RankIn(arm, p) \in DOMAIN arm /\ arm[RankIn(arm, p)] = p
    BY <1>2 DEF RankIn
  <2> QED BY <1>1, <2>1 DEF arm
<1>3. CASE ~\E r \in DOMAIN arm : arm[r] = p
  <2>1. RankIn(arm, p) = 0
    BY <1>3 DEF RankIn
  <2> QED BY <1>1, <2>1 DEF arm
<1> QED BY <1>2, <1>3

LEMMA Scales ==
    ASSUME NEW w \in Nat \ {0}, NEW m \in Nat, NEW n \in Nat, m < n
    PROVE  w * m < w * n
OBVIOUS

LEMMA Positive ==
    ASSUME NEW w \in Nat \ {0}, NEW n \in Nat \ {0}
    PROVE  w * n \in Nat /\ w * n > 0
OBVIOUS

\* In one channel, who is found higher gains more, and who is found gains something.
LEMMA SharesFall ==
    ASSUME NEW arms, AreArms(arms), NEW p, NEW q, Dominates(arms, p, q), NEW c \in Channels
    PROVE  /\ Share(arms, c, p) \in Nat /\ Share(arms, c, q) \in Nat
           /\ Share(arms, c, q) <= Share(arms, c, p)
           /\ RankIn(arms[c], q) # 0 => Share(arms, c, q) < Share(arms, c, p)
<1> DEFINE i == RankIn(arms[c], p)
           j == RankIn(arms[c], q)
<1>1. i \in 0..ArmLimit /\ j \in 0..ArmLimit /\ ArmLimit \in Nat
  BY RanksAreRanks, RankingAssumption
<1>2. j # 0 => i # 0 /\ i < j
  BY DEF Dominates
<1>3. Weight[c] \in Nat \ {0}
  BY RankingAssumption
<1>4. /\ Share(arms, c, p) = IF i = 0 THEN 0 ELSE Weight[c] * Contribution[i]
      /\ Share(arms, c, q) = IF j = 0 THEN 0 ELSE Weight[c] * Contribution[j]
  BY DEF Share
<1> HIDE DEF i, j
<1>5. /\ i # 0 => Contribution[i] \in Nat \ {0}
      /\ j # 0 => Contribution[j] \in Nat \ {0}
      /\ j # 0 => Contribution[j] < Contribution[i]
  BY <1>1, <1>2, ContributionFalls
<1>6. i # 0 => Weight[c] * Contribution[i] \in Nat
  BY <1>3, <1>5, Positive
<1>7. j # 0 => /\ Weight[c] * Contribution[j] \in Nat
               /\ Weight[c] * Contribution[j] < Weight[c] * Contribution[i]
  BY <1>2, <1>3, <1>5, Positive, Scales
<1>8. CASE j = 0
  <2>1. Share(arms, c, q) = 0 /\ Share(arms, c, p) \in Nat
    BY <1>4, <1>6, <1>8
  <2> QED BY <1>8, <2>1 DEF j
<1>9. CASE j # 0
  <2>1. Share(arms, c, p) = Weight[c] * Contribution[i]
    BY <1>2, <1>4, <1>9
  <2>2. Share(arms, c, q) = Weight[c] * Contribution[j]
    BY <1>4, <1>9
  <2> QED BY <1>2, <1>6, <1>7, <1>9, <2>1, <2>2
<1> QED BY <1>8, <1>9

\* hybrid_search.sql sums 1/(k + rank) over the channels: for every catalog, every k and
\* every positive weights, a product that some channel found, and that another beats in
\* each channel that found it, has the smaller fused score.
THEOREM FusionAgreesWithChannels ==
    ASSUME NEW arms, AreArms(arms), NEW p, NEW q, Dominates(arms, p, q),
           \E c \in Channels : RankIn(arms[c], q) # 0
    PROVE  FusedScore(arms, q) < FusedScore(arms, p)
<1>1. \A c \in Channels :
         /\ Share(arms, c, p) \in Nat /\ Share(arms, c, q) \in Nat
         /\ Share(arms, c, q) <= Share(arms, c, p)
         /\ RankIn(arms[c], q) # 0 => Share(arms, c, q) < Share(arms, c, p)
  BY SharesFall
<1>2. PICK c \in Channels : Share(arms, c, q) < Share(arms, c, p)
  BY <1>1
<1> QED
  BY <1>1, <1>2 DEF FusedScore, Channels

-----------------------------------------------------------------------------
(* A channel's list.                                                       *)

\* The first part of a sequence is as long as the limit allows.
LEMMA FirstOfProperties ==
    ASSUME NEW S, NEW order \in Seq(S), NEW limit \in Nat
    PROVE  /\ FirstOf(order, limit) \in Seq(S)
           /\ Len(FirstOf(order, limit)) = Smaller(limit, Len(order))
           /\ \A i \in 1..Smaller(limit, Len(order)) : FirstOf(order, limit)[i] = order[i]
           /\ DOMAIN FirstOf(order, limit) = 1..Smaller(limit, Len(order))
<1>1. Smaller(limit, Len(order)) \in 0..Len(order) /\ Len(order) \in Nat
  BY DEF Smaller
<1>2. \A i \in 1..Smaller(limit, Len(order)) : order[i] \in S
  BY <1>1
<1>3. /\ FirstOf(order, limit) \in Seq(S)
      /\ Len(FirstOf(order, limit)) = Smaller(limit, Len(order))
      /\ \A i \in 1..Smaller(limit, Len(order)) : FirstOf(order, limit)[i] = order[i]
  BY <1>1, <1>2, SubSeqProperties DEF FirstOf
<1> QED
  BY <1>3, LenProperties

\* By score, best first, and by product: a strict order of the products that match.
ByScore(tier, S) ==
    {e \in S \X S : tier[e[1]] > tier[e[2]] \/ (tier[e[1]] = tier[e[2]] /\ e[1] < e[2])}

\* A channel lists products, no more than its limit.
LEMMA ArmTyped ==
    ASSUME NEW tiers, Scored(tiers), NEW eligible \in SUBSET Products
    PROVE  Arm(tiers, eligible) \in Seq(Products) /\ Len(Arm(tiers, eligible)) <= ArmLimit
<1> DEFINE hits == {i \in DOMAIN tiers : Matching(tiers[i], eligible) # {}}
           tier == tiers[CHOOSE i \in hits : \A j \in hits : i <= j]
           S == Matching(tier, eligible)
           R == ByScore(tier, S)
           arranged == CHOOSE order \in [1..Cardinality(S) -> S] :
                         /\ order \in [1..Cardinality(S) -> S] /\ IsInjective(order)
                         /\ \A i, j \in DOMAIN order : i < j =>
                               \/ tier[order[i]] > tier[order[j]]
                               \/ tier[order[i]] = tier[order[j]] /\ order[i] < order[j]
<1>0. ArmLimit \in Nat /\ 0 <= ArmLimit
  BY RankingAssumption
<1>1. CASE hits = {}
  <2>1. Arm(tiers, eligible) = << >>
    BY <1>1 DEF Arm
  <2> QED BY <1>0, <2>1, EmptySeq
<1>2. CASE hits # {}
  <2>1. \E i \in hits : \A j \in hits : i <= j
    BY <1>2, LeastExists DEF Scored
  <2>2. tier \in [DOMAIN tier -> Int]
    BY <2>1 DEF Scored
  <2> HIDE DEF tier, hits
  <2>3. S \subseteq DOMAIN tier /\ S \subseteq Products /\ IsFiniteSet(S)
    BY FS_Subset, RankingAssumption DEF Matching
  <2> HIDE DEF S
  <2>4. Orders(R, S)
    <3>1. \A p \in S : p \in Nat /\ tier[p] \in Int
      BY <2>2, <2>3, RankingAssumption
    <3> QED BY <3>1 DEF Orders, ByScore
  <2>5. PICK order \in [1..Cardinality(S) -> S] :
          /\ IsInjective(order)
          /\ \A i, j \in DOMAIN order : i < j => <<order[i], order[j]>> \in R
    BY <2>3, <2>4, Arrangeable
  <2>6. \A i, j \in DOMAIN order : i < j =>
          \/ tier[order[i]] > tier[order[j]]
          \/ tier[order[i]] = tier[order[j]] /\ order[i] < order[j]
    BY <2>5 DEF ByScore
  <2>7. arranged \in [1..Cardinality(S) -> S] /\ IsInjective(arranged)
    BY <2>5, <2>6
  <2>8. Arm(tiers, eligible) = FirstOf(arranged, ArmLimit)
    BY <1>2 DEF Arm, Arrangement, Arranged, tier, hits, S
  <2> HIDE DEF arranged
  <2>9. arranged \in Seq(Products)
    <3>1. arranged \in Seq(S)
      BY <2>3, <2>7, ArrangedProperties
    <3> QED BY <2>3, <3>1
  <2>10. Arm(tiers, eligible) \in Seq(Products)
         /\ Len(Arm(tiers, eligible)) = Smaller(ArmLimit, Len(arranged))
    BY <1>0, <2>8, <2>9, FirstOfProperties
  <2> QED BY <1>0, <2>9, <2>10 DEF Smaller
<1> QED BY <1>1, <1>2

-----------------------------------------------------------------------------
(* The fused pool.                                                         *)

\* Fused scores are natural numbers: they can be compared.
LEMMA ScoresTyped ==
    ASSUME NEW arms, AreArms(arms), NEW p
    PROVE  FusedScore(arms, p) \in Nat
<1>1. ASSUME NEW c \in Channels
      PROVE  Share(arms, c, p) \in Nat
  <2> DEFINE i == RankIn(arms[c], p)
  <2>1. i \in 0..ArmLimit /\ ArmLimit \in Nat /\ Weight[c] \in Nat \ {0}
    BY RanksAreRanks, RankingAssumption
  <2>2. Share(arms, c, p) = IF i = 0 THEN 0 ELSE Weight[c] * Contribution[i]
    BY DEF Share
  <2> HIDE DEF i
  <2>3. CASE i = 0
    BY <2>2, <2>3
  <2>4. CASE i # 0
    <3>1. Contribution[i] \in Nat \ {0}
      BY <2>1, <2>4, ContributionFalls
    <3>2. Weight[c] * Contribution[i] \in Nat
      BY <2>1, <3>1, Positive
    <3> QED BY <2>2, <2>4, <3>2
  <2> QED BY <2>3, <2>4
<1>2. /\ Share(arms, "fts", p) \in Nat /\ Share(arms, "fuzzy", p) \in Nat
      /\ Share(arms, "semantic", p) \in Nat
  BY <1>1 DEF Channels
<1> QED
  BY <1>2 DEF FusedScore

\* The fused pool lists products without a repeat, and who is beaten in every channel that
\* found it comes after who beats it.
LEMMA FusedProperties ==
    ASSUME NEW arms, AreArms(arms)
    PROVE  /\ Fused(arms) \in Seq(Products) /\ IsInjective(Fused(arms))
           /\ \A p \in Products : \A j \in DOMAIN Fused(arms) :
                 Dominates(arms, p, Fused(arms)[j]) => \E i \in 1..(j - 1) : Fused(arms)[i] = p
<1> DEFINE U == UNION {Range(arms[c]) : c \in Channels}
           R == {e \in U \X U : \/ FusedScore(arms, e[1]) > FusedScore(arms, e[2])
                                \/ FusedScore(arms, e[1]) = FusedScore(arms, e[2]) /\ e[1] < e[2]}
           order == CHOOSE order \in [1..Cardinality(U) -> U] :
                      /\ order \in [1..Cardinality(U) -> U] /\ IsInjective(order)
                      /\ \A i, j \in DOMAIN order : i < j =>
                            \/ FusedScore(arms, order[i]) > FusedScore(arms, order[j])
                            \/ /\ FusedScore(arms, order[i]) = FusedScore(arms, order[j])
                               /\ order[i] < order[j]
<1>0. FusedLimit \in Nat
  BY RankingAssumption
<1>1. U \subseteq Products /\ IsFiniteSet(U)
  <2>1. \A c \in Channels : Range(arms[c]) \subseteq Products
    BY DEF AreArms, Range
  <2> QED BY <2>1, FS_Subset, RankingAssumption
<1>2. \A p : FusedScore(arms, p) \in Nat
  BY ScoresTyped
<1>3. \A p \in U : \E c \in Channels : RankIn(arms[c], p) # 0
  <2> TAKE p \in U
  <2>1. PICK c \in Channels : \E r \in DOMAIN arms[c] : arms[c][r] = p
    BY DEF Range
  <2>2. RankIn(arms[c], p) \in DOMAIN arms[c]
    BY <2>1 DEF RankIn
  <2>3. DOMAIN arms[c] = 1..Len(arms[c]) /\ Len(arms[c]) \in Nat
    BY DEF AreArms
  <2> QED BY <2>2, <2>3
<1>4. \A p \in Products, q \in U : Dominates(arms, p, q) => /\ p \in U
                                                       /\ FusedScore(arms, q) < FusedScore(arms, p)
  <2> TAKE p \in Products, q \in U
  <2> HAVE Dominates(arms, p, q)
  <2>1. PICK c \in Channels : RankIn(arms[c], q) # 0
    BY <1>3
  <2>2. RankIn(arms[c], p) # 0
    BY <2>1 DEF Dominates
  <2>3. \E r \in DOMAIN arms[c] : arms[c][r] = p
    BY <2>2 DEF RankIn
  <2> QED BY <2>1, <2>3, FusionAgreesWithChannels DEF Range
<1> HIDE DEF U
<1>5. Orders(R, U)
  <2>1. \A p \in U : p \in Nat
    BY <1>1, RankingAssumption
  <2> QED BY <1>2, <2>1 DEF Orders
<1>6. PICK arranged \in [1..Cardinality(U) -> U] :
        /\ IsInjective(arranged)
        /\ \A i, j \in DOMAIN arranged : i < j => <<arranged[i], arranged[j]>> \in R
  BY <1>1, <1>5, Arrangeable
<1>7. \A i, j \in DOMAIN arranged : i < j =>
        \/ FusedScore(arms, arranged[i]) > FusedScore(arms, arranged[j])
        \/ /\ FusedScore(arms, arranged[i]) = FusedScore(arms, arranged[j])
           /\ arranged[i] < arranged[j]
  BY <1>6
<1>8. /\ order \in [1..Cardinality(U) -> U] /\ IsInjective(order)
      /\ \A i, j \in DOMAIN order : i < j =>
            \/ FusedScore(arms, order[i]) > FusedScore(arms, order[j])
            \/ /\ FusedScore(arms, order[i]) = FusedScore(arms, order[j])
               /\ order[i] < order[j]
  <2> HIDE DEF R
  <2>1. \E o \in [1..Cardinality(U) -> U] :
          /\ o \in [1..Cardinality(U) -> U] /\ IsInjective(o)
          /\ \A i, j \in DOMAIN o : i < j =>
                \/ FusedScore(arms, o[i]) > FusedScore(arms, o[j])
                \/ FusedScore(arms, o[i]) = FusedScore(arms, o[j]) /\ o[i] < o[j]
    BY <1>6, <1>7
  <2> QED BY <2>1, Zenon
<1>9. Fused(arms) = FirstOf(order, FusedLimit)
  BY DEF Fused, Arrangement, Arranged, U
<1> HIDE DEF order
<1>10. /\ order \in Seq(U) /\ Len(order) = Cardinality(U) /\ DOMAIN order = 1..Len(order)
       /\ \A p \in U : RankIn(order, p) \in 1..Len(order) /\ order[RankIn(order, p)] = p
       /\ Len(order) \in Nat
  BY <1>1, <1>8, ArrangedProperties
<1>11. order \in Seq(Products)
  BY <1>1, <1>10
<1> DEFINE n == Smaller(FusedLimit, Len(order))
<1>12. /\ Fused(arms) \in Seq(Products) /\ DOMAIN Fused(arms) = 1..n
       /\ \A i \in 1..n : Fused(arms)[i] = order[i]
  BY <1>0, <1>9, <1>11, FirstOfProperties
<1>13. n \in 0..Len(order)
  BY <1>0, <1>10 DEF Smaller
<1> HIDE DEF n
<1>14. IsInjective(Fused(arms))
  BY <1>8, <1>10, <1>12, <1>13 DEF IsInjective
<1>15. ASSUME NEW p \in Products, NEW j \in DOMAIN Fused(arms), Dominates(arms, p, Fused(arms)[j])
       PROVE  \E i \in 1..(j - 1) : Fused(arms)[i] = p
  <2>1. j \in 1..n /\ j \in 1..Len(order) /\ Fused(arms)[j] = order[j]
    BY <1>10, <1>12, <1>13
  <2>2. order[j] \in U
    BY <1>8, <1>10, <2>1
  <2>3. p \in U /\ FusedScore(arms, order[j]) < FusedScore(arms, p)
    BY <1>4, <1>15, <2>1, <2>2
  <2> DEFINE i == RankIn(order, p)
  <2>4. i \in 1..Len(order) /\ order[i] = p
    BY <1>10, <2>3
  <2> HIDE DEF i
  <2>5. i # j
    BY <1>2, <2>3, <2>4
  <2>6. ~(j < i)
    <3>1. FusedScore(arms, order[j]) \in Nat /\ FusedScore(arms, p) \in Nat
      BY <1>2
    <3>2. j < i => \/ FusedScore(arms, order[j]) > FusedScore(arms, p)
                   \/ FusedScore(arms, order[j]) = FusedScore(arms, p)
      BY <1>8, <1>10, <2>1, <2>4
    <3> QED BY <2>3, <3>1, <3>2
  <2>7. i \in 1..(j - 1) /\ i \in 1..n
    <3>1. i \in Int /\ j \in Int /\ n \in Int
      BY <1>10, <1>13, <2>1, <2>4
    <3> QED BY <2>1, <2>4, <2>5, <2>6, <3>1
  <2> QED BY <1>12, <2>4, <2>7
<1> QED
  BY <1>12, <1>14, <1>15

-----------------------------------------------------------------------------
(* The final order.                                                        *)

\* Keys compare component by component.
LEMMA KeysCompare ==
    ASSUME NEW a, NEW b, DOMAIN a = 1..5
    PROVE  KeyBefore(a, b) <=>
              \/ a[1] < b[1]
              \/ a[1] = b[1] /\ a[2] < b[2]
              \/ a[1] = b[1] /\ a[2] = b[2] /\ a[3] < b[3]
              \/ a[1] = b[1] /\ a[2] = b[2] /\ a[3] = b[3] /\ a[4] < b[4]
              \/ a[1] = b[1] /\ a[2] = b[2] /\ a[3] = b[3] /\ a[4] = b[4] /\ a[5] < b[5]
<1> DEFINE Same(i) == \A j \in 1..(i - 1) : a[j] = b[j]
           Decides(i) == a[i] < b[i] /\ Same(i)
<1>1. \A i \in 1..5 : i = 1 \/ i = 2 \/ i = 3 \/ i = 4 \/ i = 5
  OBVIOUS
<1>2. /\ Same(1)
      /\ Same(2) <=> a[1] = b[1]
      /\ Same(3) <=> a[1] = b[1] /\ a[2] = b[2]
      /\ Same(4) <=> a[1] = b[1] /\ a[2] = b[2] /\ a[3] = b[3]
      /\ Same(5) <=> a[1] = b[1] /\ a[2] = b[2] /\ a[3] = b[3] /\ a[4] = b[4]
  <2>1. /\ 1..(1 - 1) = {} /\ 1..(2 - 1) = {1} /\ 1..(3 - 1) = {1, 2}
        /\ 1..(4 - 1) = {1, 2, 3} /\ 1..(5 - 1) = {1, 2, 3, 4}
    OBVIOUS
  <2> QED BY <2>1
<1>3. KeyBefore(a, b) <=> \E i \in 1..5 : Decides(i)
  BY DEF KeyBefore
<1> HIDE DEF Same
<1>4. /\ Decides(1) <=> a[1] < b[1]
      /\ Decides(2) <=> a[1] = b[1] /\ a[2] < b[2]
      /\ Decides(3) <=> a[1] = b[1] /\ a[2] = b[2] /\ a[3] < b[3]
      /\ Decides(4) <=> a[1] = b[1] /\ a[2] = b[2] /\ a[3] = b[3] /\ a[4] < b[4]
      /\ Decides(5) <=> a[1] = b[1] /\ a[2] = b[2] /\ a[3] = b[3] /\ a[4] = b[4] /\ a[5] < b[5]
  BY <1>2
<1> HIDE DEF Decides
<1>5. KeyBefore(a, b) <=> Decides(1) \/ Decides(2) \/ Decides(3) \/ Decides(4) \/ Decides(5)
  <2>1. 1 \in 1..5 /\ 2 \in 1..5 /\ 3 \in 1..5 /\ 4 \in 1..5 /\ 5 \in 1..5
    OBVIOUS
  <2> QED BY <1>1, <1>3, <2>1
<1> QED
  BY <1>4, <1>5

\* The place of a product in a pool without repeats tells it apart.
LEMMA PoolRanks ==
    ASSUME NEW pool \in Seq(Products), IsInjective(pool)
    PROVE  /\ IsFiniteSet(Range(pool)) /\ Cardinality(Range(pool)) = Len(pool)
           /\ \A p : RankIn(pool, p) \in Nat
           /\ \A p \in Range(pool) : RankIn(pool, p) \in 1..Len(pool) /\ pool[RankIn(pool, p)] = p
           /\ \A i \in DOMAIN pool : RankIn(pool, pool[i]) = i
<1>0. DOMAIN pool = 1..Len(pool) /\ Len(pool) \in Nat
  OBVIOUS
<1>1. /\ pool \in Surjection(1..Len(pool), Range(pool))
      /\ pool \in Injection(1..Len(pool), Range(pool))
  BY <1>0 DEF Surjection, Injection, Range
<1>2. IsFiniteSet(1..Len(pool)) /\ Cardinality(1..Len(pool)) = Len(pool)
  BY <1>0, FS_Interval
<1>3. IsFiniteSet(Range(pool)) /\ Cardinality(Range(pool)) = Len(pool)
  BY <1>1, <1>2, FS_Surjection
<1>4. \A p \in Range(pool) : RankIn(pool, p) \in 1..Len(pool) /\ pool[RankIn(pool, p)] = p
  BY <1>0 DEF RankIn, Range
<1>5. \A p : p \notin Range(pool) => RankIn(pool, p) = 0
  BY DEF RankIn, Range
<1>6. \A i \in DOMAIN pool : RankIn(pool, pool[i]) = i
  BY <1>0, <1>4 DEF IsInjective, Range
<1> QED
  BY <1>0, <1>3, <1>4, <1>5, <1>6

\* What persists of a search lists its pool without a repeat, the identities first and, when
\* nothing was reranked, the products the query does not name as they were fused.
LEMMA FinalOrderProperties ==
    ASSUME NEW pool \in Seq(Products), IsInjective(pool), NEW identities, NEW named, NEW scores,
           scores \in [DOMAIN scores -> Int]
    PROVE  LET order == FinalOrder(pool, identities, named, scores) IN
           /\ order \in Seq(Products) /\ IsInjective(order)
           /\ Range(order) = Range(pool) /\ Len(order) = Len(pool)
           /\ \A i, j \in DOMAIN order :
                 i < j /\ order[j] \in identities => order[i] \in identities
           /\ scores = << >> =>
                 \A i, j \in DOMAIN pool :
                    /\ i < j /\ pool[i] \notin identities \cup named
                    /\ pool[j] \notin identities \cup named
                    => RankIn(order, pool[i]) < RankIn(order, pool[j])
<1> DEFINE S == Range(pool)
           key(p) == SortKey(p, pool, identities, named, scores)
           f1(p) == Flag(p \in identities)
           f2(p) == Flag(p \in named)
           f3(p) == Flag(p \in DOMAIN scores)
           f4(p) == IF p \in DOMAIN scores THEN -scores[p] ELSE 0
           f5(p) == RankIn(pool, p)
           R == {e \in S \X S : KeyBefore(key(e[1]), key(e[2]))}
           order == CHOOSE order \in [1..Cardinality(S) -> S] :
                      /\ order \in [1..Cardinality(S) -> S] /\ IsInjective(order)
                      /\ \A i, j \in DOMAIN order : i < j => KeyBefore(key(order[i]), key(order[j]))
<1>1. \A p : key(p) = <<f1(p), f2(p), f3(p), f4(p), f5(p)>>
  BY DEF SortKey
<1>2. \A p : f1(p) \in Int /\ f2(p) \in Int /\ f3(p) \in Int /\ f4(p) \in Int /\ f5(p) \in Int
  BY PoolRanks DEF Flag
<1>3. \A p, q \in S : f5(p) = f5(q) => p = q
  BY PoolRanks
<1>4. /\ \A p : f1(p) = IF p \in identities THEN 0 ELSE 1
      /\ \A p : f2(p) = IF p \in named THEN 0 ELSE 1
      /\ scores = << >> => \A p : f3(p) = 1 /\ f4(p) = 0
  BY DEF Flag
<1>5. FinalOrder(pool, identities, named, scores) = order
  BY DEF FinalOrder, Arrangement, Arranged
<1>6. IsFiniteSet(S) /\ Cardinality(S) = Len(pool) /\ S \subseteq Products
  <2>1. IsFiniteSet(S) /\ Cardinality(S) = Len(pool)
    BY PoolRanks
  <2>2. S \subseteq Products
    BY DEF Range
  <2> QED BY <2>1, <2>2
<1> HIDE DEF S, key, f1, f2, f3, f4
<1>7. \A p, q : KeyBefore(key(p), key(q)) <=>
              \/ f1(p) < f1(q)
              \/ f1(p) = f1(q) /\ f2(p) < f2(q)
              \/ f1(p) = f1(q) /\ f2(p) = f2(q) /\ f3(p) < f3(q)
              \/ f1(p) = f1(q) /\ f2(p) = f2(q) /\ f3(p) = f3(q) /\ f4(p) < f4(q)
              \/ f1(p) = f1(q) /\ f2(p) = f2(q) /\ f3(p) = f3(q) /\ f4(p) = f4(q) /\ f5(p) < f5(q)
  <2> HIDE DEF f5
  <2> TAKE p, q
  <2>1. /\ DOMAIN key(p) = 1..5
        /\ key(p)[1] = f1(p) /\ key(p)[2] = f2(p) /\ key(p)[3] = f3(p) /\ key(p)[4] = f4(p)
        /\ key(p)[5] = f5(p)
        /\ key(q)[1] = f1(q) /\ key(q)[2] = f2(q) /\ key(q)[3] = f3(q) /\ key(q)[4] = f4(q)
        /\ key(q)[5] = f5(q)
    BY <1>1
  <2> QED BY <2>1, KeysCompare
<1> HIDE DEF f5
<1>8. Orders(R, S)
  <2>1. ASSUME NEW p \in S
        PROVE  <<p, p>> \notin R
    BY <1>2, <1>7
  <2>2. ASSUME NEW p \in S, NEW q \in S
        PROVE  p = q \/ <<p, q>> \in R \/ <<q, p>> \in R
    BY <1>2, <1>3, <1>7
  <2>3. ASSUME NEW p \in S, NEW q \in S, NEW r \in S, <<p, q>> \in R, <<q, r>> \in R
        PROVE  <<p, r>> \in R
    <3>1. /\ f1(p) \in Int /\ f2(p) \in Int /\ f3(p) \in Int /\ f4(p) \in Int /\ f5(p) \in Int
          /\ f1(q) \in Int /\ f2(q) \in Int /\ f3(q) \in Int /\ f4(q) \in Int /\ f5(q) \in Int
          /\ f1(r) \in Int /\ f2(r) \in Int /\ f3(r) \in Int /\ f4(r) \in Int /\ f5(r) \in Int
      BY <1>2
    <3>2. KeyBefore(key(p), key(q)) /\ KeyBefore(key(q), key(r))
      BY <2>3
    <3>3. KeyBefore(key(p), key(r))
      BY <1>7, <3>1, <3>2
    <3> QED BY <3>3
  <2> HIDE DEF R
  <2> QED BY <2>1, <2>2, <2>3 DEF Orders
<1>9. PICK arranged \in [1..Cardinality(S) -> S] :
        /\ IsInjective(arranged)
        /\ \A i, j \in DOMAIN arranged : i < j => <<arranged[i], arranged[j]>> \in R
  <2> HIDE DEF R
  <2> QED BY <1>6, <1>8, Arrangeable
<1>10. /\ order \in [1..Cardinality(S) -> S] /\ IsInjective(order)
       /\ \A i, j \in DOMAIN order : i < j => KeyBefore(key(order[i]), key(order[j]))
  <2>1. \A i, j \in DOMAIN arranged : i < j => KeyBefore(key(arranged[i]), key(arranged[j]))
    BY <1>9
  <2>2. \E o \in [1..Cardinality(S) -> S] :
          /\ o \in [1..Cardinality(S) -> S] /\ IsInjective(o)
          /\ \A i, j \in DOMAIN o : i < j => KeyBefore(key(o[i]), key(o[j]))
    BY <1>9, <2>1
  <2> QED BY <2>2, Zenon
<1> HIDE DEF order
<1>11. /\ order \in Seq(S) /\ Len(order) = Cardinality(S) /\ Range(order) = S
       /\ \A p \in S : RankIn(order, p) \in 1..Len(order) /\ order[RankIn(order, p)] = p
       /\ DOMAIN order = 1..Len(order) /\ Len(order) \in Nat
  BY <1>6, <1>10, ArrangedProperties
<1>12. order \in Seq(Products)
  BY <1>6, <1>11
<1>13. \A i, j \in DOMAIN order : i < j /\ order[j] \in identities => order[i] \in identities
  BY <1>4, <1>7, <1>10
<1>14. ASSUME scores = << >>, NEW i \in DOMAIN pool, NEW j \in DOMAIN pool, i < j,
              pool[i] \notin identities \cup named, pool[j] \notin identities \cup named
       PROVE  RankIn(order, pool[i]) < RankIn(order, pool[j])
  <2> DEFINE p == pool[i]
             q == pool[j]
             k == RankIn(order, p)
             l == RankIn(order, q)
  <2>1. p \in S /\ q \in S /\ f5(p) = i /\ f5(q) = j
    BY PoolRanks DEF S, Range, f5
  <2>2. /\ f1(p) = 1 /\ f2(p) = 1 /\ f3(p) = 1 /\ f4(p) = 0
        /\ f1(q) = 1 /\ f2(q) = 1 /\ f3(q) = 1 /\ f4(q) = 0
    BY <1>4, <1>14
  <2> HIDE DEF p, q
  <2>3. k \in 1..Len(order) /\ l \in 1..Len(order) /\ order[k] = p /\ order[l] = q
    BY <1>11, <2>1
  <2>4. i \in Nat /\ j \in Nat
    OBVIOUS
  <2>5. ~KeyBefore(key(q), key(p)) /\ p # q
    BY <1>7, <1>14, <2>1, <2>2, <2>4
  <2> HIDE DEF k, l
  <2>6. k # l /\ ~(l < k)
    BY <1>10, <1>11, <2>3, <2>5
  <2>7. k < l
    BY <1>11, <2>3, <2>6
  <2> QED BY <2>7 DEF k, l, p, q
<1>15. Range(order) = Range(pool) /\ Len(order) = Len(pool)
  BY <1>6, <1>11 DEF S
<1> QED
  BY <1>5, <1>10, <1>12, <1>13, <1>14, <1>15

-----------------------------------------------------------------------------
(* What a search carries from its fusion to its answer, and its event.     *)

ArmsFor(r) ==
    [fts |-> Arm(FtsTiers[r.request.query], r.request.eligible),
     fuzzy |-> Arm(FuzzyTiers[r.request.query], r.request.eligible),
     semantic |-> Arm(<<Nearness[r.vector]>>, r.request.eligible)]

NamesakesOf(r) == Identities[r.request.query] \cap Range(r.pool)

OrderFor(r) == FinalOrder(r.pool, NamesakesOf(r), NamedSkus[r.request.query], r.scores)

IsRecord(r) ==
    /\ IsSearch(r) /\ r.request \in SearchRequests /\ r.vector \in Vectors \cup {NoVector}
    /\ r.pool \in Seq(Products) /\ IsInjective(r.pool)
    /\ r.scores \in [DOMAIN r.scores -> Int] /\ r.served \in Seq(Products)

IsEvent(e) ==
    e \in [status : {"none", "open", "ok", "failed"}, limit : Nat, authorized : Nat,
           receipts : Seq(Products)]

Fusion == {"reranking", "covering", "judging", "persisting", "responding"}

Fresh(r) == r.pool = << >> /\ r.scores = << >> /\ r.reranked = "disabled"

\* A pool is the fusion of the search's own channels, and all of it was scored or none.
Ranked(r) ==
    /\ r.at \notin Fusion => Fresh(r)
    /\ r.at \in Fusion \cup {"fusing"} => r.vector \in Vectors
    /\ r.pool # << >> => r.pool = Fused(ArmsFor(r))
    /\ r.at = "reranking" => r.scores = << >> /\ r.reranked = "disabled" /\ r.pool # << >>
    /\ IF r.reranked = "applied" THEN DOMAIN r.scores = Range(r.pool) ELSE r.scores = << >>

\* Receipts with the window they grant: the identities first, and alone when there are any.
Whole(e, request) ==
    /\ e.limit = request.limit /\ IsInjective(e.receipts)
    /\ \A i, j \in DOMAIN e.receipts :
          i < j /\ e.receipts[j] \in Identities[request.query]
          => e.receipts[i] \in Identities[request.query]
    /\ e.authorized = Window(request.authorized, e.receipts, Identities[request.query])

\* An event is open while its search works and whole when it has receipts.
Recorded(r, e) ==
    /\ r.at = "idle" => e = NoEvent
    /\ r.at \in Working => e.status = "open" /\ e.receipts = << >> /\ e.limit = r.request.limit
    /\ e.status \in {"none", "open"} => e.receipts = << >>
    /\ e.status = "ok" \/ e.receipts # << >> => Whole(e, r.request)
    /\ r.at \in {"responding", "done"} =>
          /\ e.status = "ok"
          /\ r.served = FirstOf(e.receipts, Window(r.request.limit, e.receipts,
                                                   Identities[r.request.query]))
    /\ r.at = "responding" => e.receipts = OrderFor(r)

SearchOK(r, e) == IsRecord(r) /\ IsEvent(e) /\ Ranked(r) /\ Recorded(r, e)

SearchesOK ==
    /\ DOMAIN search = Searches /\ DOMAIN searchEvent = Searches
    /\ search = [s \in Searches |-> search[s]]
    /\ searchEvent = [s \in Searches |-> searchEvent[s]]
    /\ \A s \in Searches : SearchOK(search[s], searchEvent[s])

Entries == [query : Queries, vector : Vectors]

\* The cache has one vector of a query.
CacheOK ==
    /\ embeddingCache \in Seq(Entries)
    /\ \A i, j \in DOMAIN embeddingCache :
          embeddingCache[i].query = embeddingCache[j].query => i = j

RetrievalInv == SearchesOK /\ CacheOK

\* The empty sequence as a pool, as receipts and as scores.
LEMMA EmptyOrder == << >> \in Seq(Products) /\ IsInjective(<< >>) /\ DOMAIN << >> = {}
                    /\ << >> \in [DOMAIN << >> -> Int] /\ Range(<< >>) = {}
<1>1. << >> \in Seq(Products) /\ DOMAIN << >> = {}
  OBVIOUS
<1> QED BY <1>1 DEF IsInjective, Range

\* What a request asks for.
LEMMA RequestTyped ==
    ASSUME NEW q \in SearchRequests
    PROVE  /\ q.query \in Queries /\ q.eligible \in SUBSET Products /\ q.rerank \in BOOLEAN
           /\ q.limit \in Nat \ {0} /\ q.authorized \in Nat \ {0} /\ q.authorized <= q.limit
BY RetrievalAssumption

\* The channels of a search list products.
LEMMA ArmsTyped ==
    ASSUME NEW r, r.request \in SearchRequests, r.vector \in Vectors
    PROVE  AreArms(ArmsFor(r))
<1>1. /\ Scored(FtsTiers[r.request.query]) /\ Scored(FuzzyTiers[r.request.query])
      /\ Scored(<<Nearness[r.vector]>>) /\ r.request.eligible \in SUBSET Products
  BY TiersAssumption, RequestTyped
<1>2. \A tiers \in {FtsTiers[r.request.query], FuzzyTiers[r.request.query],
                   <<Nearness[r.vector]>>} :
        /\ Arm(tiers, r.request.eligible) \in Seq(Products)
        /\ Len(Arm(tiers, r.request.eligible)) <= ArmLimit
  BY <1>1, ArmTyped
<1>3. /\ ArmsFor(r) = [c \in Channels |-> ArmsFor(r)[c]]
      /\ ArmsFor(r)["fts"] = Arm(FtsTiers[r.request.query], r.request.eligible)
      /\ ArmsFor(r)["fuzzy"] = Arm(FuzzyTiers[r.request.query], r.request.eligible)
      /\ ArmsFor(r)["semantic"] = Arm(<<Nearness[r.vector]>>, r.request.eligible)
  BY DEF ArmsFor, Channels
<1>4. \A c \in Channels : ArmsFor(r)[c] \in Seq(Products) /\ Len(ArmsFor(r)[c]) <= ArmLimit
  BY <1>2, <1>3 DEF Channels
<1> QED
  BY <1>3, <1>4 DEF AreArms

\* A search that has ended, or has not begun, holds nothing.
LEMMA EndedOK ==
    ASSUME NEW r, IsRecord(r), NEW place \in {"failing", "lost"}
    PROVE  LET q == [NotSubmitted(r.request) EXCEPT !.at = place]
           IN  IsRecord(q) /\ Ranked(q) /\ q.request = r.request /\ q.at = place
<1> DEFINE q == [NotSubmitted(r.request) EXCEPT !.at = place]
<1>1. /\ q.request = r.request /\ q.at = place /\ q.vector = NoVector /\ q.pool = << >>
      /\ q.reranked = "disabled" /\ q.scores = << >> /\ q.served = << >>
      /\ IsSearch(q)
  BY DEF NotSubmitted, IsSearch, Searching, SearchPlaces, Unfinished
<1> HIDE DEF q
<1>2. IsRecord(q)
  BY <1>1, EmptyOrder DEF IsRecord
<1>3. Ranked(q)
  BY <1>1, EmptyOrder DEF Ranked, Fresh, Fusion
<1> QED BY <1>1, <1>2, <1>3 DEF q

\* A step of one search that leaves it and its event in order leaves all in order.
LEMMA MovesOne ==
    ASSUME SearchesOK, NEW s \in Searches, NEW r, NEW e, SearchOK(r, e),
           search' = [search EXCEPT ![s] = r],
           \/ searchEvent' = [searchEvent EXCEPT ![s] = e]
           \/ e = searchEvent[s] /\ UNCHANGED searchEvent
    PROVE  SearchesOK'
<1>1. /\ \A t \in Searches : search'[t] = IF t = s THEN r ELSE search[t]
      /\ \A t \in Searches : searchEvent'[t] = IF t = s THEN e ELSE searchEvent[t]
  BY DEF SearchesOK
<1>2. \A t \in Searches : SearchOK(search'[t], searchEvent'[t])
  BY <1>1 DEF SearchesOK
<1>3. DOMAIN search' = Searches /\ DOMAIN searchEvent' = Searches
  BY DEF SearchesOK
<1>4. /\ search' = [t \in Searches |-> search'[t]]
      /\ searchEvent' = [t \in Searches |-> searchEvent'[t]]
  BY <1>3 DEF SearchesOK
<1> QED
  BY <1>2, <1>3, <1>4 DEF SearchesOK

\* A search that ends without an answer leaves its event as it is.
LEMMA EndsOne ==
    ASSUME SearchesOK, NEW s \in Searches, NEW place \in {"failing", "lost"},
           search' = [search EXCEPT ![s] = EndOf(s, place)], UNCHANGED searchEvent
    PROVE  SearchesOK'
<1> DEFINE r == search[s]
           e == searchEvent[s]
           q == [NotSubmitted(r.request) EXCEPT !.at = place]
<1>1. SearchOK(r, e)
  BY DEF SearchesOK
<1>2. IsRecord(q) /\ Ranked(q) /\ q.request = r.request /\ q.at = place
  BY <1>1, EndedOK DEF SearchOK
<1>3. EndOf(s, place) = q
  BY DEF EndOf
<1> HIDE DEF q
<1>4. Recorded(q, e)
  BY <1>1, <1>2 DEF SearchOK, Recorded, Working
<1> QED
  BY <1>1, <1>2, <1>3, <1>4, MovesOne DEF SearchOK

\* A search that moves on without touching what it ranked, nor its event.
LEMMA Moves ==
    ASSUME NEW r, NEW e, SearchOK(r, e), NEW q, IsSearch(q),
           q.request = r.request, q.vector = r.vector, q.pool = r.pool, q.reranked = r.reranked,
           q.scores = r.scores, q.served = r.served,
           \/ r.at \in {"embedding", "provider"} /\ q.at = "provider"
           \/ /\ r.at \in {"reranking", "covering", "judging"}
              /\ q.at \in {"covering", "judging", "persisting"}
    PROVE  SearchOK(q, e)
<1>1. IsRecord(q)
  BY DEF SearchOK, IsRecord
<1>2. ArmsFor(q) = ArmsFor(r)
  BY DEF ArmsFor
<1>3. Ranked(q)
  BY <1>2 DEF SearchOK, Ranked, Fusion, Fresh
<1>4. Recorded(q, e)
  BY DEF SearchOK, Recorded, Working
<1> QED
  BY <1>1, <1>3, <1>4 DEF SearchOK

\* Step by step: what a search and its event have stays in order.
LEMMA SubmitOK ==
    ASSUME SearchesOK, NEW s \in Searches, Submit(s)
    PROVE  SearchesOK'
<1> DEFINE r == search[s]
           e == searchEvent[s]
           q == [r EXCEPT !.at = "embedding"]
           f == [NoEvent EXCEPT !.status = "open", !.limit = r.request.limit,
                                !.authorized = r.request.authorized]
<1>1. SearchOK(r, e) /\ r.at = "idle"
  BY DEF SearchesOK, Submit, SearchAt
<1>2. /\ IsSearch(q) /\ q.at = "embedding" /\ q.request = r.request /\ q.vector = r.vector
      /\ q.pool = r.pool /\ q.reranked = r.reranked /\ q.scores = r.scores /\ q.served = r.served
  <2>1. IsSearch(r) /\ "embedding" \in SearchPlaces
    BY <1>1 DEF SearchOK, IsRecord, SearchPlaces, Unfinished, Working
  <2> QED BY <2>1 DEF IsSearch, Searching
<1>3. /\ f.status = "open" /\ f.receipts = << >> /\ f.limit = r.request.limit /\ IsEvent(f)
  <2>1. r.request.limit \in Nat /\ r.request.authorized \in Nat
    BY <1>1, RequestTyped DEF SearchOK, IsRecord
  <2> QED BY <2>1, EmptyOrder DEF NoEvent, IsEvent
<1>4. search' = [search EXCEPT ![s] = q] /\ searchEvent' = [searchEvent EXCEPT ![s] = f]
  BY DEF Submit, Goes
<1> HIDE DEF q, f
<1>5. IsRecord(q)
  BY <1>1, <1>2 DEF SearchOK, IsRecord
<1>6. Ranked(q)
  BY <1>1, <1>2 DEF SearchOK, Ranked, Fusion, Fresh
<1>7. Recorded(q, f)
  BY <1>2, <1>3 DEF Recorded, Working
<1> QED
  BY <1>3, <1>4, <1>5, <1>6, <1>7, MovesOne DEF SearchOK

LEMMA WithVectorOK ==
    ASSUME SearchesOK, NEW s \in Searches, NEW vector \in Vectors, WithVector(s, vector),
           search[s].at \in {"embedding", "provider"}, UNCHANGED searchEvent
    PROVE  SearchesOK'
<1> DEFINE r == search[s]
           e == searchEvent[s]
           q == [r EXCEPT !.vector = vector, !.at = "fusing"]
<1>1. SearchOK(r, e)
  BY DEF SearchesOK
<1>2. /\ IsSearch(q) /\ q.at = "fusing" /\ q.request = r.request /\ q.vector = vector
      /\ q.pool = r.pool /\ q.reranked = r.reranked /\ q.scores = r.scores /\ q.served = r.served
  <2>1. IsSearch(r) /\ "fusing" \in SearchPlaces
    BY <1>1 DEF SearchOK, IsRecord, SearchPlaces, Unfinished, Working
  <2> QED BY <2>1 DEF IsSearch, Searching
<1>3. search' = [search EXCEPT ![s] = q]
  BY DEF WithVector
<1> HIDE DEF q
<1>4. IsRecord(q)
  BY <1>1, <1>2 DEF SearchOK, IsRecord
<1>5. Ranked(q)
  BY <1>1, <1>2 DEF SearchOK, Ranked, Fusion, Fresh
<1>6. Recorded(q, e)
  BY <1>1, <1>2 DEF SearchOK, Recorded, Working
<1> QED
  BY <1>1, <1>3, <1>4, <1>5, <1>6, MovesOne DEF SearchOK

LEMMA FusesOK ==
    ASSUME SearchesOK, NEW s \in Searches, Fuses(s)
    PROVE  SearchesOK'
<1> DEFINE r == search[s]
           e == searchEvent[s]
           pool == Fused(ArmsFor(r))
           place == IF r.request.rerank /\ pool # << >> THEN "reranking" ELSE "covering"
           q == [r EXCEPT !.pool = pool, !.at = place]
<1>1. SearchOK(r, e) /\ r.at = "fusing"
  BY DEF SearchesOK, Fuses, SearchAt
<1>2. place \in {"reranking", "covering"} /\ (place = "reranking" => pool # << >>)
  OBVIOUS
<1>3. search' = [search EXCEPT ![s] = q] /\ UNCHANGED searchEvent
  BY DEF Fuses, ArmsOf, ArmsFor, QueryOf, OnlySearches
<1> HIDE DEF pool
<1>4. AreArms(ArmsFor(r))
  BY <1>1, ArmsTyped DEF SearchOK, IsRecord, Ranked
<1>5. pool \in Seq(Products) /\ IsInjective(pool)
  BY <1>4, FusedProperties DEF pool
<1>6. /\ IsSearch(q) /\ q.at = place /\ q.request = r.request /\ q.vector = r.vector
      /\ q.pool = pool /\ q.reranked = r.reranked /\ q.scores = r.scores /\ q.served = r.served
  <2> HIDE DEF place
  <2>1. IsSearch(r) /\ place \in SearchPlaces
    BY <1>1, <1>2 DEF SearchOK, IsRecord, SearchPlaces, Unfinished, Working
  <2> QED BY <2>1 DEF IsSearch, Searching
<1> HIDE DEF q, place
<1>7. IsRecord(q)
  BY <1>1, <1>5, <1>6 DEF SearchOK, IsRecord
<1>8. ArmsFor(q) = ArmsFor(r)
  BY <1>6 DEF ArmsFor
<1>9. Ranked(q)
  <2>1. q.pool = Fused(ArmsFor(q))
    BY <1>6, <1>8 DEF pool
  <2> QED BY <1>1, <1>2, <1>6, <2>1 DEF SearchOK, Ranked, Fusion, Fresh
<1>10. Recorded(q, e)
  BY <1>1, <1>2, <1>6 DEF SearchOK, Recorded, Working
<1> QED
  BY <1>1, <1>3, <1>7, <1>9, <1>10, MovesOne DEF SearchOK

\* An accepted reply has one score for each product of the pool.
LEMMA ReplyCovers ==
    ASSUME NEW pool \in Seq(Products), IsInjective(pool), pool # << >>,
           NEW reply \in Replies(Len(pool)), ReplyAccepted(reply, Len(pool))
    PROVE  ScoresOf(reply, pool) \in [Range(pool) -> Int]
<1> DEFINE n == Len(pool)
           X == [index : 1..(n + 1), score : {NotFinite, 1, 2}]
           f == [i \in 1..n |-> reply[i].index]
<1>0. n \in Nat /\ n # 0 /\ DOMAIN pool = 1..n
  BY EmptySeq
<1>1. reply \in [1..n -> X] /\ DOMAIN reply = 1..n
  <2>1. PICK m \in {n - 1, n} : reply \in [1..m -> X]
    BY DEF Replies
  <2>2. m \in Nat
    <3> HIDE DEF n
    <3> QED BY <1>0
  <2>3. Len(reply) = m
    BY <2>1, <2>2
  <2> QED BY <2>1, <2>3 DEF ReplyAccepted
<1>2. \A i \in 1..n : f[i] = reply[i].index /\ f[i] \in 1..n
  BY <1>1 DEF ReplyAccepted
<1>3. f \in [1..n -> 1..n]
  BY <1>2
<1> HIDE DEF f
<1>4. \A i, j \in 1..n : f[i] = f[j] => i = j
  <2>1. \A i \in 1..n : \A j \in 1..(i - 1) : reply[j].index # reply[i].index
    BY <1>1 DEF ReplyAccepted
  <2> SUFFICES ASSUME NEW i \in 1..n, NEW j \in 1..n, f[i] = f[j]
               PROVE  i = j
    OBVIOUS
  <2>2. i \in Int /\ j \in Int /\ 1 <= i /\ 1 <= j
    BY <1>0
  <2>3. ~(j < i)
    BY <1>2, <2>1, <2>2
  <2>4. ~(i < j)
    BY <1>2, <2>1, <2>2
  <2> QED BY <2>2, <2>3, <2>4
<1>5. f \in Injection(1..n, 1..n)
  BY <1>3, <1>4 DEF Injection, IsInjective
<1>6. f \in Surjection(1..n, 1..n)
  BY <1>0, <1>5, FS_Injection, FS_Interval
<1>7. \A k \in 1..n : \E i \in 1..n : f[i] = k
  BY <1>6 DEF Surjection
<1>8. {pool[reply[i].index] : i \in DOMAIN reply} = Range(pool)
  <2>1. \A p \in Range(pool) : \E i \in 1..n : pool[reply[i].index] = p
    <3> TAKE p \in Range(pool)
    <3>1. PICK k \in 1..n : pool[k] = p
      BY <1>0 DEF Range
    <3>2. PICK i \in 1..n : f[i] = k
      BY <1>7
    <3> QED BY <1>2, <3>1, <3>2
  <2>2. \A i \in 1..n : pool[reply[i].index] \in Range(pool)
    BY <1>0, <1>2 DEF Range
  <2> QED BY <1>1, <2>1, <2>2
<1>9. ASSUME NEW p \in Range(pool)
      PROVE  ScoresOf(reply, pool)[p] \in Int
  <2> DEFINE of == {i \in DOMAIN reply : pool[reply[i].index] = p}
             last == CHOOSE i \in of : \A j \in of : j <= i
  <2>1. PICK i \in 1..n : pool[reply[i].index] = p
    BY <1>1, <1>8
  <2>2. \A j \in of : j = i
    BY <1>0, <1>1, <1>2, <1>4, <2>1 DEF IsInjective
  <2>3. i \in of /\ \A j \in of : j <= i
    BY <1>0, <1>1, <2>1, <2>2
  <2>4. last \in of
    BY <2>3
  <2>5. reply[last].score \in Int
    BY <1>1, <2>4 DEF NotFinite
  <2>6. ScoresOf(reply, pool)[p] = reply[last].score
    BY <1>8 DEF ScoresOf
  <2> QED BY <2>5, <2>6
<1>10. ScoresOf(reply, pool) = [p \in Range(pool) |-> ScoresOf(reply, pool)[p]]
  BY <1>8 DEF ScoresOf
<1> QED
  BY <1>9, <1>10

\* A reply that is accepted scores the whole pool.
LEMMA ReranksOK ==
    ASSUME SearchesOK, NEW s \in Searches, NEW reply \in Replies(Len(search[s].pool)),
           Reranks(s, reply)
    PROVE  SearchesOK'
<1> DEFINE r == search[s]
           e == searchEvent[s]
           scores == ScoresOf(reply, r.pool)
           q == [r EXCEPT !.reranked = "applied", !.scores = scores, !.at = "covering"]
<1>1. SearchOK(r, e) /\ r.at = "reranking"
  BY DEF SearchesOK, Reranks, SearchAt
<1>2. search' = [search EXCEPT ![s] = q] /\ UNCHANGED searchEvent
  BY DEF Reranks, OnlySearches
<1>3. scores \in [Range(r.pool) -> Int]
  BY <1>1, ReplyCovers DEF Reranks, SearchOK, IsRecord, Ranked
<1> HIDE DEF scores
<1>4. /\ IsSearch(q) /\ q.at = "covering" /\ q.request = r.request /\ q.vector = r.vector
      /\ q.pool = r.pool /\ q.reranked = "applied" /\ q.scores = scores /\ q.served = r.served
  <2>1. IsSearch(r) /\ "covering" \in SearchPlaces
    BY <1>1 DEF SearchOK, IsRecord, SearchPlaces, Unfinished, Working
  <2> QED BY <2>1 DEF IsSearch, Searching
<1> HIDE DEF q
<1>5. IsRecord(q)
  BY <1>1, <1>3, <1>4 DEF SearchOK, IsRecord
<1>6. ArmsFor(q) = ArmsFor(r)
  BY <1>4 DEF ArmsFor
<1>7. Ranked(q)
  BY <1>1, <1>3, <1>4, <1>6 DEF SearchOK, Ranked, Fusion
<1>8. Recorded(q, e)
  BY <1>1, <1>4 DEF SearchOK, Recorded, Working
<1> QED
  BY <1>1, <1>2, <1>5, <1>7, <1>8, MovesOne DEF SearchOK

\* A step that only moves a search on, whatever it says of the query's words.
LEMMA MovesOnOK ==
    ASSUME SearchesOK, NEW s \in Searches, UNCHANGED searchEvent,
           \/ SearchAt(s, "embedding") /\ Goes(s, "provider")
           \/ search[s].at \in {"covering", "judging"} /\ Goes(s, "judging")
           \/ /\ search[s].at \in {"covering", "judging"}
              /\ \E said \in {"unavailable", "grounded", "unanchored"} : Says(s, said)
           \/ /\ search[s].at = "reranking"
              /\ search' = [search EXCEPT ![s] = [@ EXCEPT !.reranked = "unavailable",
                                                           !.at = "covering"]]
    PROVE  SearchesOK'
<1> DEFINE r == search[s]
           e == searchEvent[s]
<1>1. SearchOK(r, e)
  BY DEF SearchesOK
<1>2. IsSearch(r) /\ {"provider", "covering", "judging", "persisting"} \subseteq SearchPlaces
  BY <1>1 DEF SearchOK, IsRecord, SearchPlaces, Unfinished, Working
<1>3. CASE SearchAt(s, "embedding") /\ Goes(s, "provider")
  <2> DEFINE q == [r EXCEPT !.at = "provider"]
  <2>1. /\ IsSearch(q) /\ q.at = "provider" /\ q.request = r.request /\ q.vector = r.vector
        /\ q.pool = r.pool /\ q.reranked = r.reranked /\ q.scores = r.scores /\ q.served = r.served
    BY <1>2 DEF IsSearch, Searching
  <2>2. search' = [search EXCEPT ![s] = q] /\ r.at = "embedding"
    BY <1>3 DEF Goes, SearchAt
  <2> HIDE DEF q
  <2>3. SearchOK(q, e)
    BY <1>1, <2>1, <2>2, Moves
  <2> QED BY <2>2, <2>3, MovesOne
<1>4. CASE search[s].at \in {"covering", "judging"} /\ Goes(s, "judging")
  <2> DEFINE q == [r EXCEPT !.at = "judging"]
  <2>1. /\ IsSearch(q) /\ q.at = "judging" /\ q.request = r.request /\ q.vector = r.vector
        /\ q.pool = r.pool /\ q.reranked = r.reranked /\ q.scores = r.scores /\ q.served = r.served
    BY <1>2 DEF IsSearch, Searching
  <2>2. search' = [search EXCEPT ![s] = q]
    BY <1>4 DEF Goes
  <2> HIDE DEF q
  <2>3. SearchOK(q, e)
    BY <1>1, <1>4, <2>1, Moves
  <2> QED BY <2>2, <2>3, MovesOne
<1>5. ASSUME NEW said \in {"unavailable", "grounded", "unanchored"}, Says(s, said),
             search[s].at \in {"covering", "judging"}
      PROVE  SearchesOK'
  <2> DEFINE q == [r EXCEPT !.coverage = said, !.at = "persisting"]
  <2>1. /\ IsSearch(q) /\ q.at = "persisting" /\ q.request = r.request /\ q.vector = r.vector
        /\ q.pool = r.pool /\ q.reranked = r.reranked /\ q.scores = r.scores /\ q.served = r.served
    BY <1>2 DEF IsSearch, Searching
  <2>2. search' = [search EXCEPT ![s] = q]
    BY <1>5 DEF Says
  <2> HIDE DEF q
  <2>3. SearchOK(q, e)
    BY <1>1, <1>5, <2>1, Moves
  <2> QED BY <2>2, <2>3, MovesOne
<1>6. CASE /\ search[s].at = "reranking"
           /\ search' = [search EXCEPT ![s] = [@ EXCEPT !.reranked = "unavailable",
                                                        !.at = "covering"]]
  <2> DEFINE q == [r EXCEPT !.reranked = "unavailable", !.at = "covering"]
  <2>1. /\ IsSearch(q) /\ q.at = "covering" /\ q.request = r.request /\ q.vector = r.vector
        /\ q.pool = r.pool /\ q.reranked = "unavailable" /\ q.scores = r.scores
        /\ q.served = r.served
    BY <1>2 DEF IsSearch, Searching
  <2>2. search' = [search EXCEPT ![s] = q]
    BY <1>6
  <2> HIDE DEF q
  <2>3. IsRecord(q)
    BY <1>1, <2>1 DEF SearchOK, IsRecord
  <2>4. Ranked(q)
    <3>1. ArmsFor(q) = ArmsFor(r)
      BY <2>1 DEF ArmsFor
    <3> QED BY <1>1, <1>6, <2>1, <3>1 DEF SearchOK, Ranked, Fusion
  <2>5. Recorded(q, e)
    BY <1>1, <1>6, <2>1 DEF SearchOK, Recorded, Working
  <2> QED BY <1>1, <2>2, <2>3, <2>4, <2>5, MovesOne DEF SearchOK
<1> QED
  BY <1>3, <1>4, <1>5, <1>6

-----------------------------------------------------------------------------
(* Receipts.                                                               *)

\* A window is a number within the limit.
LEMMA WindowTyped ==
    ASSUME NEW order \in Seq(Products), NEW identities, NEW limit \in Nat \ {0}
    PROVE  Window(limit, order, identities) \in Nat /\ Window(limit, order, identities) <= limit
<1> DEFINE exact == Cardinality(identities \cap Range(order))
<1>1. Range(order) \subseteq Products
  BY DEF Range
<1>2. IsFiniteSet(identities \cap Range(order))
  BY <1>1, FS_Subset, RankingAssumption
<1>3. exact \in Nat
  BY <1>2, FS_CardinalityType
<1>4. Window(limit, order, identities) = IF exact = 0 THEN limit ELSE Smaller(limit, exact)
  BY DEF Window
<1> HIDE DEF exact
<1> QED
  BY <1>3, <1>4 DEF Smaller

\* The transaction of a search makes its event whole.
LEMMA ClosedOK ==
    ASSUME SearchesOK, NEW s \in Searches, SearchAt(s, "persisting"), NEW f,
           f = [searchEvent[s] EXCEPT !.status = "ok", !.receipts = OrderOf(s),
                  !.authorized = Window(search[s].request.authorized, OrderOf(s), IdentitiesOf(s))]
    PROVE  /\ IsEvent(f) /\ f.status = "ok" /\ f.receipts = OrderFor(search[s])
           /\ Whole(f, search[s].request)
           /\ \A limit \in Nat \ {0} :
                 /\ Window(limit, OrderOf(s), IdentitiesOf(s))
                      = Window(limit, f.receipts, Identities[QueryOf(s)])
                 /\ FirstOf(OrderOf(s), Window(limit, OrderOf(s), IdentitiesOf(s)))
                      \in Seq(Products)
<1> DEFINE r == search[s]
           e == searchEvent[s]
           order == OrderFor(r)
<1>1. SearchOK(r, e) /\ r.at = "persisting"
  BY DEF SearchesOK, SearchAt
<1>2. OrderOf(s) = order /\ IdentitiesOf(s) = NamesakesOf(r)
  BY DEF OrderOf, IdentitiesOf, OrderFor, NamesakesOf, QueryOf
<1>3. /\ order \in Seq(Products) /\ IsInjective(order) /\ Range(order) = Range(r.pool)
      /\ \A i, j \in DOMAIN order :
            i < j /\ order[j] \in NamesakesOf(r) => order[i] \in NamesakesOf(r)
  <2>1. /\ r.pool \in Seq(Products) /\ IsInjective(r.pool) /\ r.scores \in [DOMAIN r.scores -> Int]
    BY <1>1 DEF SearchOK, IsRecord
  <2> QED BY <2>1, FinalOrderProperties DEF OrderFor
<1> HIDE DEF order
<1>4. \A i \in DOMAIN order :
         order[i] \in NamesakesOf(r) <=> order[i] \in Identities[r.request.query]
  BY <1>3 DEF NamesakesOf, Range
<1>5. \A limit : Window(limit, order, NamesakesOf(r))
                    = Window(limit, order, Identities[r.request.query])
  <2>1. NamesakesOf(r) \cap Range(order) = Identities[r.request.query] \cap Range(order)
    BY <1>3 DEF NamesakesOf
  <2> QED BY <2>1 DEF Window
<1>6. r.request.authorized \in Nat \ {0} /\ r.request.limit \in Nat
  BY <1>1, RequestTyped DEF SearchOK, IsRecord
<1>7. Window(r.request.authorized, order, NamesakesOf(r)) \in Nat
  BY <1>3, <1>6, WindowTyped
<1>8. /\ f.status = "ok" /\ f.receipts = order /\ f.limit = e.limit
      /\ f.authorized = Window(r.request.authorized, order, NamesakesOf(r))
      /\ IsEvent(f)
  BY <1>1, <1>2, <1>3, <1>7 DEF SearchOK, IsEvent
<1>9. e.limit = r.request.limit
  BY <1>1 DEF SearchOK, Recorded, Working
<1>10. Whole(f, r.request)
  BY <1>3, <1>4, <1>5, <1>8, <1>9 DEF Whole
<1>11. ASSUME NEW limit \in Nat \ {0}
       PROVE  /\ Window(limit, OrderOf(s), IdentitiesOf(s))
                   = Window(limit, f.receipts, Identities[QueryOf(s)])
              /\ FirstOf(OrderOf(s), Window(limit, OrderOf(s), IdentitiesOf(s))) \in Seq(Products)
  <2>1. Window(limit, order, NamesakesOf(r)) \in Nat
    BY <1>3, WindowTyped
  <2>2. FirstOf(order, Window(limit, order, NamesakesOf(r))) \in Seq(Products)
    BY <1>3, <2>1, FirstOfProperties
  <2> QED BY <1>2, <1>5, <1>8, <2>2 DEF QueryOf
<1> QED
  BY <1>8, <1>10, <1>11 DEF order

\* What is served is the window of the receipts just written.
LEMMA PersistsOK ==
    ASSUME SearchesOK, NEW s \in Searches, Persists(s)
    PROVE  SearchesOK'
<1> DEFINE r == search[s]
           e == searchEvent[s]
           f == [e EXCEPT !.status = "ok", !.receipts = OrderOf(s),
                    !.authorized = Window(r.request.authorized, OrderOf(s), IdentitiesOf(s))]
           served == FirstOf(OrderOf(s), Window(r.request.limit, OrderOf(s), IdentitiesOf(s)))
           q == [r EXCEPT !.served = served, !.at = "responding"]
<1>1. SearchOK(r, e) /\ r.at = "persisting" /\ SearchAt(s, "persisting")
  BY DEF SearchesOK, Persists, SearchAt
<1>2. search' = [search EXCEPT ![s] = q] /\ searchEvent' = [searchEvent EXCEPT ![s] = f]
  BY DEF Persists, EventClosed
<1>3. r.request.limit \in Nat \ {0}
  BY <1>1, RequestTyped DEF SearchOK, IsRecord
<1>4. /\ IsEvent(f) /\ f.status = "ok" /\ f.receipts = OrderFor(r) /\ Whole(f, r.request)
      /\ Window(r.request.limit, OrderOf(s), IdentitiesOf(s))
           = Window(r.request.limit, f.receipts, Identities[QueryOf(s)])
      /\ served \in Seq(Products)
  BY <1>1, <1>3, ClosedOK
<1>5. served = FirstOf(f.receipts,
                       Window(r.request.limit, f.receipts, Identities[r.request.query]))
  <2>1. OrderOf(s) = f.receipts
    BY <1>4 DEF OrderOf, IdentitiesOf, OrderFor, NamesakesOf, QueryOf
  <2> QED BY <1>4, <2>1 DEF QueryOf
<1> HIDE DEF f, served
<1>6. /\ IsSearch(q) /\ q.at = "responding" /\ q.request = r.request /\ q.vector = r.vector
      /\ q.pool = r.pool /\ q.reranked = r.reranked /\ q.scores = r.scores /\ q.served = served
  <2>1. IsSearch(r) /\ "responding" \in SearchPlaces
    BY <1>1 DEF SearchOK, IsRecord, SearchPlaces, Unfinished
  <2> QED BY <2>1 DEF IsSearch, Searching
<1> HIDE DEF q
<1>7. IsRecord(q)
  BY <1>1, <1>4, <1>6 DEF SearchOK, IsRecord
<1>8. ArmsFor(q) = ArmsFor(r) /\ OrderFor(q) = OrderFor(r)
  BY <1>6 DEF ArmsFor, OrderFor, NamesakesOf
<1>9. Ranked(q)
  BY <1>1, <1>6, <1>8 DEF SearchOK, Ranked, Fusion
<1>10. Recorded(q, f)
  BY <1>4, <1>5, <1>6, <1>8 DEF Recorded, Working
<1> QED
  BY <1>2, <1>4, <1>7, <1>9, <1>10, MovesOne DEF SearchOK

\* An unheard commit leaves a whole event behind a failed search.
LEMMA CommitUnheardOK ==
    ASSUME SearchesOK, NEW s \in Searches, CommitUnheard(s)
    PROVE  SearchesOK'
<1> DEFINE r == search[s]
           e == searchEvent[s]
           f == [e EXCEPT !.status = "ok", !.receipts = OrderOf(s),
                    !.authorized = Window(r.request.authorized, OrderOf(s), IdentitiesOf(s))]
           q == [NotSubmitted(r.request) EXCEPT !.at = "failing"]
<1>1. SearchOK(r, e) /\ SearchAt(s, "persisting")
  BY DEF SearchesOK, CommitUnheard
<1>2. search' = [search EXCEPT ![s] = q] /\ searchEvent' = [searchEvent EXCEPT ![s] = f]
  BY DEF CommitUnheard, EventClosed, EndOf
<1>3. IsEvent(f) /\ f.status = "ok" /\ f.receipts = OrderFor(r) /\ Whole(f, r.request)
  BY <1>1, ClosedOK
<1>4. IsRecord(q) /\ Ranked(q) /\ q.request = r.request /\ q.at = "failing"
  BY <1>1, EndedOK DEF SearchOK
<1> HIDE DEF f, q
<1>5. Recorded(q, f)
  BY <1>3, <1>4 DEF Recorded, Working
<1> QED
  BY <1>2, <1>3, <1>4, <1>5, MovesOne DEF SearchOK

LEMMA RespondsOK ==
    ASSUME SearchesOK, NEW s \in Searches, Responds(s)
    PROVE  SearchesOK'
<1> DEFINE r == search[s]
           e == searchEvent[s]
           q == [[NotSubmitted(r.request) EXCEPT !.at = "done"] EXCEPT !.served = r.served]
<1>1. SearchOK(r, e) /\ r.at = "responding"
  BY DEF SearchesOK, Responds, SearchAt
<1>2. search' = [search EXCEPT ![s] = q] /\ UNCHANGED searchEvent
  BY DEF Responds, EndOf, OnlySearches
<1>3. /\ q.request = r.request /\ q.at = "done" /\ q.vector = NoVector /\ q.pool = << >>
      /\ q.reranked = "disabled" /\ q.scores = << >> /\ q.served = r.served
      /\ IsSearch(q)
  BY DEF NotSubmitted, IsSearch, Searching, SearchPlaces, Unfinished
<1> HIDE DEF q
<1>4. IsRecord(q)
  BY <1>1, <1>3, EmptyOrder DEF SearchOK, IsRecord
<1>5. Ranked(q)
  BY <1>3, EmptyOrder DEF Ranked, Fresh, Fusion
<1>6. Recorded(q, e)
  BY <1>1, <1>3 DEF SearchOK, Recorded, Working
<1> QED
  BY <1>1, <1>2, <1>4, <1>5, <1>6, MovesOne DEF SearchOK

\* The mark of a failure changes the status alone.
LEMMA MarksFailedOK ==
    ASSUME SearchesOK, NEW s \in Searches, NEW written \in BOOLEAN, MarksFailed(s, written)
    PROVE  SearchesOK'
<1> DEFINE r == search[s]
           e == searchEvent[s]
           f == IF written THEN [e EXCEPT !.status = "failed"] ELSE e
           q == [r EXCEPT !.at = "raised"]
<1>1. SearchOK(r, e) /\ r.at = "failing"
  BY DEF SearchesOK, MarksFailed, SearchAt
<1>2. search' = [search EXCEPT ![s] = q]
      /\ (searchEvent' = [searchEvent EXCEPT ![s] = f] \/ (f = e /\ UNCHANGED searchEvent))
  BY DEF MarksFailed, Goes
<1>3. /\ IsEvent(f) /\ f.receipts = e.receipts /\ f.limit = e.limit /\ f.authorized = e.authorized
      /\ f.status \in {"failed", e.status}
  BY <1>1 DEF SearchOK, IsEvent
<1>4. /\ IsSearch(q) /\ q.at = "raised" /\ q.request = r.request /\ q.vector = r.vector
      /\ q.pool = r.pool /\ q.reranked = r.reranked /\ q.scores = r.scores /\ q.served = r.served
  <2>1. IsSearch(r) /\ "raised" \in SearchPlaces
    BY <1>1 DEF SearchOK, IsRecord, SearchPlaces
  <2> QED BY <2>1 DEF IsSearch, Searching
<1> HIDE DEF f, q
<1>5. IsRecord(q)
  BY <1>1, <1>4 DEF SearchOK, IsRecord
<1>6. Ranked(q)
  BY <1>1, <1>4 DEF SearchOK, Ranked, Fusion, Fresh
<1>7. Recorded(q, f)
  <2>1. Whole(e, r.request) => Whole(f, r.request)
    BY <1>3 DEF Whole
  <2> QED BY <1>1, <1>3, <1>4, <2>1 DEF SearchOK, Recorded, Working
<1> QED
  BY <1>2, <1>3, <1>5, <1>6, <1>7, MovesOne DEF SearchOK

-----------------------------------------------------------------------------
(* The cache of vectors.                                                   *)

\* Without q's entry the cache has the others, each once.
LEMMA WithoutProperties ==
    ASSUME CacheOK, NEW q
    PROVE  /\ Without(q) \in Seq(Entries)
           /\ \A i \in DOMAIN Without(q) : /\ Without(q)[i].query # q
                                           /\ \E k \in DOMAIN embeddingCache :
                                                 Without(q)[i] = embeddingCache[k]
           /\ \A i, j \in DOMAIN Without(q) :
                 Without(q)[i].query = Without(q)[j].query => i = j
<1> DEFINE c == embeddingCache
           n == Len(c)
<1>0. c \in Seq(Entries) /\ n \in Nat /\ DOMAIN c = 1..n /\ \A k \in 1..n : c[k] \in Entries
  BY DEF CacheOK
<1>1. CASE CachedFor(q) = {}
  BY <1>1 DEF CacheOK, Without, CachedFor
<1>2. CASE CachedFor(q) # {}
  <2> DEFINE m == CHOOSE i \in CachedFor(q) : TRUE
             before == SubSeq(c, 1, m - 1)
             after == SubSeq(c, m + 1, n)
             w == before \o after
  <2>1. m \in 1..n /\ c[m].query = q
    BY <1>0, <1>2 DEF CachedFor
  <2>2. Without(q) = w
    BY <1>2 DEF Without
  <2> HIDE DEF m
  <2>3. /\ before \in Seq(Entries) /\ Len(before) = m - 1
        /\ \A i \in 1..(m - 1) : before[i] = c[i]
    <3>1. \A i \in 1..(m - 1) : c[i] \in Entries
      BY <1>0, <2>1
    <3>2. /\ before \in Seq(Entries) /\ Len(before) = IF 1 <= m - 1 THEN m - 1 - 1 + 1 ELSE 0
          /\ \A i \in 1..(m - 1 - 1 + 1) : before[i] = c[1 + i - 1]
      BY <1>0, <2>1, <3>1, SubSeqProperties
    <3> QED BY <1>0, <2>1, <3>2
  <2>4. /\ after \in Seq(Entries) /\ Len(after) = n - m
        /\ \A i \in 1..(n - m) : after[i] = c[m + i]
    <3>1. \A i \in (m + 1)..n : c[i] \in Entries
      BY <1>0, <2>1
    <3>2. /\ after \in Seq(Entries) /\ Len(after) = IF m + 1 <= n THEN n - (m + 1) + 1 ELSE 0
          /\ \A i \in 1..(n - (m + 1) + 1) : after[i] = c[(m + 1) + i - 1]
      BY <1>0, <2>1, <3>1, SubSeqProperties
    <3> HIDE DEF after, n, c
    <3>3. n - (m + 1) + 1 = n - m /\ m \in Int /\ n \in Int /\ m <= n
      BY <1>0, <2>1
    <3>4. Len(after) = n - m
      BY <3>2, <3>3
    <3>5. ASSUME NEW i \in 1..(n - m)
          PROVE  after[i] = c[m + i]
      <4>1. after[i] = c[(m + 1) + i - 1]
        BY <3>2, <3>3
      <4>2. (m + 1) + i - 1 = m + i
        BY <3>3
      <4> QED BY <4>1, <4>2
    <3> QED BY <3>2, <3>4, <3>5
  <2> HIDE DEF before, after
  <2>5. /\ w \in Seq(Entries) /\ Len(w) = n - 1
        /\ \A i \in 1..(n - 1) : w[i] = IF i <= m - 1 THEN before[i] ELSE after[i - (m - 1)]
    <3>1. Len(before) + Len(after) = n - 1
      BY <1>0, <2>1, <2>3, <2>4
    <3> QED BY <2>3, <2>4, <3>1, ConcatProperties
  <2> HIDE DEF w
  <2>6. \A i \in 1..(n - 1) : w[i] = c[IF i <= m - 1 THEN i ELSE i + 1]
    <3> TAKE i \in 1..(n - 1)
    <3>1. CASE i <= m - 1
      <4>1. i \in 1..(m - 1)
        BY <1>0, <2>1, <3>1
      <4> QED BY <2>3, <2>5, <3>1, <4>1
    <3>2. CASE ~(i <= m - 1)
      <4>1. i - (m - 1) \in 1..(n - m) /\ m + (i - (m - 1)) = i + 1
        BY <1>0, <2>1, <3>2
      <4> QED BY <2>4, <2>5, <3>2, <4>1
    <3> QED BY <3>1, <3>2
  <2>7. DOMAIN w = 1..(n - 1)
    BY <2>5, LenProperties
  <2>8. \A i \in 1..(n - 1) : LET k == IF i <= m - 1 THEN i ELSE i + 1 IN k \in 1..n /\ k # m
    BY <1>0, <2>1
  <2>9. \A i, k \in 1..n : c[i].query = c[k].query => i = k
    BY <1>0 DEF CacheOK
  <2>10. \A i \in 1..(n - 1) : w[i].query # q /\ \E k \in DOMAIN c : w[i] = c[k]
    BY <1>0, <2>1, <2>6, <2>8, <2>9
  <2>11. \A i, j \in 1..(n - 1) : w[i].query = w[j].query => i = j
    <3> TAKE i, j \in 1..(n - 1)
    <3> HAVE w[i].query = w[j].query
    <3>1. (IF i <= m - 1 THEN i ELSE i + 1) = (IF j <= m - 1 THEN j ELSE j + 1)
      BY <2>6, <2>8, <2>9
    <3> QED BY <1>0, <2>1, <3>1
  <2> QED BY <2>2, <2>5, <2>7, <2>10, <2>11
<1> QED BY <1>1, <1>2

\* Whoever touches a query's entry leaves it in the cache with its vector, and no other that
\* was not there.
LEMMA TouchedProperties ==
    ASSUME CacheOK, NEW q \in Queries, NEW vector \in Vectors,
           \/ embeddingCache' = Touched(q, vector)
           \/ Len(Touched(q, vector)) > CacheSize /\ embeddingCache' = Tail(Touched(q, vector))
    PROVE  /\ CacheOK'
           /\ \E j \in DOMAIN embeddingCache' :
                 embeddingCache'[j] = [query |-> q, vector |-> vector]
           /\ \A j \in DOMAIN embeddingCache' :
                 \/ embeddingCache'[j] = [query |-> q, vector |-> vector]
                 \/ /\ embeddingCache'[j].query # q
                    /\ \E k \in DOMAIN embeddingCache : embeddingCache'[j] = embeddingCache[k]
<1> DEFINE w == Without(q)
           e == [query |-> q, vector |-> vector]
           t == Touched(q, vector)
           m == Len(w)
<1>1. /\ w \in Seq(Entries) /\ m \in Nat /\ DOMAIN w = 1..m
      /\ \A i \in 1..m :
            w[i].query # q /\ \E k \in DOMAIN embeddingCache : w[i] = embeddingCache[k]
      /\ \A i, j \in 1..m : w[i].query = w[j].query => i = j
  BY WithoutProperties, LenProperties
<1>2. e \in Entries /\ e.query = q
  BY DEF Entries
<1>3. t = Append(w, e)
  BY DEF Touched
<1> HIDE DEF w, e, t
<1>4. /\ t \in Seq(Entries) /\ Len(t) = m + 1 /\ DOMAIN t = 1..(m + 1) /\ t # << >>
      /\ \A i \in 1..m : t[i] = w[i]
      /\ t[m + 1] = e
  BY <1>1, <1>2, <1>3, AppendProperties, LenProperties
<1> HIDE DEF m
<1>5. \A i \in 1..(m + 1) : i \in 1..m \/ i = m + 1
  BY <1>1
<1>6. \A i, j \in 1..(m + 1) : t[i].query = t[j].query => i = j
  BY <1>1, <1>2, <1>4, <1>5
<1>7. \A i \in 1..(m + 1) :
         \/ t[i] = e
         \/ t[i].query # q /\ \E k \in DOMAIN embeddingCache : t[i] = embeddingCache[k]
  BY <1>1, <1>4, <1>5
<1>8. CASE embeddingCache' = t
  <2>1. CacheOK'
    BY <1>4, <1>6, <1>8 DEF CacheOK
  <2>2. m + 1 \in DOMAIN embeddingCache'
    BY <1>1, <1>4, <1>8
  <2> QED BY <1>4, <1>7, <1>8, <2>1, <2>2 DEF e
<1>9. CASE Len(t) > CacheSize /\ embeddingCache' = Tail(t)
  <2>1. m >= 1
    <3>1. CacheSize \in Nat \ {0}
      BY RetrievalAssumption
    <3> QED BY <1>1, <1>4, <1>9, <3>1
  <2>2. /\ Tail(t) \in Seq(Entries) /\ Len(Tail(t)) = m
        /\ \A i \in 1..m : Tail(t)[i] = t[i + 1]
    <3>1. /\ Tail(t) \in Seq(Entries) /\ Len(Tail(t)) = Len(t) - 1
          /\ \A i \in 1..Len(Tail(t)) : Tail(t)[i] = t[i + 1]
      BY <1>4, HeadTailProperties
    <3> QED BY <1>1, <1>4, <3>1
  <2>3. DOMAIN embeddingCache' = 1..m
    BY <1>9, <2>2, LenProperties
  <2>4. \A i \in 1..m : i + 1 \in 1..(m + 1) /\ embeddingCache'[i] = t[i + 1]
    BY <1>1, <1>9, <2>2
  <2>5. \A i, j \in 1..m : embeddingCache'[i].query = embeddingCache'[j].query => i = j
    <3> TAKE i, j \in 1..m
    <3> HAVE embeddingCache'[i].query = embeddingCache'[j].query
    <3>1. i + 1 = j + 1
      BY <1>6, <2>4
    <3> QED BY <1>1, <3>1
  <2>6. CacheOK'
    BY <1>9, <2>2, <2>3, <2>5 DEF CacheOK
  <2>7. m \in 1..m /\ embeddingCache'[m] = e
    BY <1>1, <1>4, <2>1, <2>4
  <2> QED BY <1>7, <2>3, <2>4, <2>6, <2>7 DEF e
<1> QED BY <1>8, <1>9 DEF t

\* A search takes the vector that the cache has of its query, or leaves it there.
Takes(s) ==
    \E vector \in Vectors :
        /\ WithVector(s, vector)
        /\ \A i \in CachedFor(QueryOf(s)) : embeddingCache[i].vector = vector
        /\ \/ embeddingCache' = Touched(QueryOf(s), vector)
           \/ /\ Len(Touched(QueryOf(s), vector)) > CacheSize
              /\ embeddingCache' = Tail(Touched(QueryOf(s), vector))

\* What one search does to the cache.
Shares(s) == UNCHANGED embeddingCache \/ Takes(s)

\* A query has at most one vector in the cache.
LEMMA CachedTyped ==
    ASSUME CacheOK, NEW q, NEW i \in CachedFor(q)
    PROVE  embeddingCache[i].vector \in Vectors /\ \A j \in CachedFor(q) : j = i
<1>1. i \in DOMAIN embeddingCache /\ embeddingCache[i] \in Entries
  BY DEF CacheOK, CachedFor
<1> QED
  BY <1>1 DEF CacheOK, CachedFor, Entries

\* A hit takes the cached vector.
LEMMA CacheHitTakes ==
    ASSUME CacheOK, NEW s \in Searches, CacheHit(s)
    PROVE  /\ \E vector \in Vectors : WithVector(s, vector)
           /\ Takes(s)
<1>1. PICK i \in CachedFor(QueryOf(s)) :
         /\ embeddingCache' = Touched(QueryOf(s), embeddingCache[i].vector)
         /\ WithVector(s, embeddingCache[i].vector)
  BY DEF CacheHit
<1>2. embeddingCache[i].vector \in Vectors
      /\ \A j \in CachedFor(QueryOf(s)) : embeddingCache[j].vector = embeddingCache[i].vector
  BY CachedTyped
<1> QED
  BY <1>1, <1>2 DEF Takes

\* A search that embedded takes the vector of whoever was first.
LEMMA EmbedsTakes ==
    ASSUME CacheOK, NEW s \in Searches, NEW vector \in Vectors, Embeds(s, vector)
    PROVE  /\ \E kept \in Vectors : WithVector(s, kept)
           /\ Takes(s)
<1> DEFINE present == CachedFor(QueryOf(s))
           kept == IF present = {} THEN vector
                   ELSE embeddingCache[CHOOSE i \in present : TRUE].vector
           entries == Touched(QueryOf(s), kept)
<1>1. /\ embeddingCache' = IF Len(entries) > CacheSize THEN Tail(entries) ELSE entries
      /\ WithVector(s, kept)
  BY DEF Embeds
<1>2. kept \in Vectors /\ \A j \in present : embeddingCache[j].vector = kept
  <2>1. CASE present = {}
    BY <2>1
  <2>2. CASE present # {}
    <3>1. PICK i \in present : i = CHOOSE k \in present : TRUE
      BY <2>2
    <3>2. embeddingCache[i].vector \in Vectors /\ \A j \in present : j = i
      BY CachedTyped
    <3> QED BY <2>2, <3>1, <3>2
  <2> QED BY <2>1, <2>2
<1> HIDE DEF kept
<1> QED
  BY <1>1, <1>2 DEF Takes

-----------------------------------------------------------------------------
(* Every step.                                                             *)

\* Initially, and by every step, searches, events and the cache are in order.
LEMMA RetrievalInvInit == RetrievalInit => RetrievalInv
<1> SUFFICES ASSUME RetrievalInit PROVE RetrievalInv
  OBVIOUS
<1>1. PICK asked \in [Searches -> SearchRequests] :
         search = [s \in Searches |-> NotSubmitted(asked[s])]
  BY DEF RetrievalInit
<1>2. searchEvent = [s \in Searches |-> NoEvent] /\ embeddingCache = << >>
  BY DEF RetrievalInit
<1>3. ASSUME NEW s \in Searches
      PROVE  SearchOK(search[s], searchEvent[s])
  <2> DEFINE r == search[s]
  <2>1. /\ r.request = asked[s] /\ r.at = "idle" /\ r.vector = NoVector /\ r.pool = << >>
        /\ r.reranked = "disabled" /\ r.scores = << >> /\ r.served = << >>
        /\ IsSearch(r) /\ searchEvent[s] = NoEvent
    <3>1. r = NotSubmitted(asked[s])
      BY <1>1
    <3> QED BY <1>2, <3>1 DEF NotSubmitted, IsSearch, Searching, SearchPlaces
  <2> HIDE DEF r
  <2>2. IsRecord(r)
    BY <2>1, EmptyOrder DEF IsRecord
  <2>3. Ranked(r)
    BY <2>1, EmptyOrder DEF Ranked, Fresh, Fusion
  <2>4. /\ IsEvent(NoEvent) /\ NoEvent.receipts = << >> /\ NoEvent.status = "none"
    BY EmptyOrder DEF NoEvent, IsEvent
  <2>5. Recorded(r, NoEvent)
    BY <2>1, <2>4 DEF Recorded, Working
  <2> QED BY <2>1, <2>2, <2>3, <2>4, <2>5 DEF SearchOK, r
<1>4. SearchesOK
  BY <1>1, <1>2, <1>3 DEF SearchesOK
<1>5. CacheOK
  BY <1>2, EmptySeq DEF CacheOK
<1> QED
  BY <1>4, <1>5 DEF RetrievalInv

LEMMA SearchStepOK ==
    ASSUME RetrievalInv, NEW s \in Searches, SearchStep(s)
    PROVE  SearchesOK' /\ Shares(s)
<1>0. SearchesOK /\ CacheOK
  BY DEF RetrievalInv
<1> USE DEF OnlySearches
<1>1. CASE Submit(s)
  BY <1>0, <1>1, SubmitOK DEF Submit, Shares
<1>2. CASE CacheHit(s)
  <2>1. search[s].at \in {"embedding", "provider"} /\ UNCHANGED searchEvent
    BY <1>2 DEF CacheHit, SearchAt
  <2> QED BY <1>0, <1>2, <2>1, CacheHitTakes, WithVectorOK DEF Shares
<1>3. CASE CacheMiss(s)
  BY <1>0, <1>3, MovesOnOK DEF CacheMiss, Shares
<1>4. CASE Fuses(s)
  BY <1>0, <1>4, FusesOK DEF Fuses, Shares
<1>5. CASE RerankFails(s)
  <2>1. search[s].at = "reranking" /\ UNCHANGED <<searchEvent, embeddingCache>>
    BY <1>5 DEF RerankFails, SearchAt
  <2>2. CASE RerankRequired
    BY <1>0, <1>5, <2>1, <2>2, EndsOne DEF RerankFails, Shares
  <2>3. CASE ~RerankRequired
    BY <1>0, <1>5, <2>1, <2>3, MovesOnOK DEF RerankFails, Shares
  <2> QED BY <2>2, <2>3
<1>6. CASE CoverageStarts(s)
  <2>1. search[s].at = "covering" /\ UNCHANGED <<searchEvent, embeddingCache>>
    BY <1>6 DEF CoverageStarts, SearchAt
  <2> QED BY <1>0, <1>6, <2>1, MovesOnOK DEF CoverageStarts, Shares
<1>7. CASE CoverageUnavailable(s)
  BY <1>0, <1>7, MovesOnOK DEF CoverageUnavailable, Shares
<1>8. CASE CoverageJudges(s)
  <2>1. search[s].at = "judging" /\ UNCHANGED <<searchEvent, embeddingCache>>
    BY <1>8 DEF CoverageJudges, SearchAt
  <2>2. Says(s, "unanchored") \/ Says(s, "grounded")
    BY <1>8 DEF CoverageJudges
  <2> QED BY <1>0, <2>1, <2>2, MovesOnOK DEF Shares
<1>9. CASE Persists(s)
  BY <1>0, <1>9, PersistsOK DEF Persists, Shares
<1>10. CASE CommitUnheard(s)
  BY <1>0, <1>10, CommitUnheardOK DEF CommitUnheard, Shares
<1>11. CASE Responds(s)
  BY <1>0, <1>11, RespondsOK DEF Responds, Shares
<1>12. CASE Fails(s)
  BY <1>0, <1>12, EndsOne DEF Fails, Shares
<1>13. ASSUME NEW vector \in Vectors, Embeds(s, vector)
       PROVE  SearchesOK' /\ Shares(s)
  <2>1. search[s].at \in {"embedding", "provider"} /\ UNCHANGED searchEvent
    BY <1>13 DEF Embeds, SearchAt
  <2> QED BY <1>0, <1>13, <2>1, EmbedsTakes, WithVectorOK DEF Shares
<1>14. ASSUME NEW reply \in Replies(Len(search[s].pool)), Reranks(s, reply)
       PROVE  SearchesOK' /\ Shares(s)
  BY <1>0, <1>14, ReranksOK DEF Reranks, Shares
<1>15. ASSUME NEW written \in BOOLEAN, MarksFailed(s, written)
       PROVE  SearchesOK' /\ Shares(s)
  BY <1>0, <1>15, MarksFailedOK DEF MarksFailed, Shares
<1> QED
  BY <1>1, <1>2, <1>3, <1>4, <1>5, <1>6, <1>7, <1>8, <1>9, <1>10, <1>11, <1>12, <1>13,
     <1>14, <1>15 DEF SearchStep

LEMMA CrashesOK ==
    ASSUME RetrievalInv, Crashes
    PROVE  RetrievalInv'
<1>1. ASSUME NEW s \in Searches
      PROVE  SearchOK(search'[s], searchEvent'[s])
  <2> DEFINE r == search[s]
             e == searchEvent[s]
             q == [NotSubmitted(r.request) EXCEPT !.at = "lost"]
  <2>1. SearchOK(r, e)
    BY DEF RetrievalInv, SearchesOK
  <2>2. search'[s] = q \/ search'[s] = r
    BY DEF Crashes, EndOf
  <2>3. searchEvent'[s] = e
    BY DEF Crashes
  <2>4. SearchOK(q, e)
    <3>1. IsRecord(q) /\ Ranked(q) /\ q.request = r.request /\ q.at = "lost"
      BY <2>1, EndedOK DEF SearchOK
    <3> HIDE DEF q
    <3>2. Recorded(q, e)
      BY <2>1, <3>1 DEF SearchOK, Recorded, Working
    <3> QED BY <2>1, <3>1, <3>2 DEF SearchOK
  <2> HIDE DEF q
  <2> QED BY <2>1, <2>2, <2>3, <2>4
<1>2. DOMAIN search' = Searches /\ search' = [s \in Searches |-> search'[s]]
      /\ UNCHANGED searchEvent /\ embeddingCache' = << >>
  BY DEF Crashes
<1>3. SearchesOK'
  BY <1>1, <1>2 DEF RetrievalInv, SearchesOK
<1>4. CacheOK'
  BY <1>2, EmptySeq DEF CacheOK
<1> QED
  BY <1>3, <1>4 DEF RetrievalInv

LEMMA SharesOK ==
    ASSUME RetrievalInv, NEW s \in Searches, Shares(s)
    PROVE  CacheOK'
<1>1. CASE UNCHANGED embeddingCache
  BY <1>1 DEF RetrievalInv, CacheOK
<1>2. ASSUME NEW vector \in Vectors,
             \/ embeddingCache' = Touched(QueryOf(s), vector)
             \/ /\ Len(Touched(QueryOf(s), vector)) > CacheSize
                /\ embeddingCache' = Tail(Touched(QueryOf(s), vector))
      PROVE  CacheOK'
  <2>1. QueryOf(s) \in Queries
    BY RequestTyped DEF QueryOf, RetrievalInv, SearchesOK, SearchOK, IsRecord
  <2> QED BY <1>2, <2>1, TouchedProperties DEF RetrievalInv
<1> QED
  BY <1>1, <1>2 DEF Shares, Takes

LEMMA RetrievalInvNext == RetrievalInv /\ [RetrievalNext]_retrievalVars => RetrievalInv'
<1> SUFFICES ASSUME RetrievalInv, [RetrievalNext]_retrievalVars
             PROVE  RetrievalInv'
  OBVIOUS
<1>1. ASSUME NEW s \in Searches, SearchStep(s)
      PROVE  RetrievalInv'
  BY <1>1, SearchStepOK, SharesOK DEF RetrievalInv
<1>2. CASE Crashes
  BY <1>2, CrashesOK
<1>3. ASSUME NEW q \in Queries, NEW vector \in Vectors, Prime(q, vector)
      PROVE  RetrievalInv'
  <2>1. SearchesOK'
    BY <1>3 DEF Prime, RetrievalInv, SearchesOK
  <2>2. CacheOK'
    BY <1>3, TouchedProperties DEF Prime, RetrievalInv
  <2> QED BY <2>1, <2>2 DEF RetrievalInv
<1>4. CASE SeedVocabulary \/ UNCHANGED retrievalVars
  BY <1>4 DEF SeedVocabulary, retrievalVars, RetrievalInv, SearchesOK, CacheOK
<1> QED
  BY <1>1, <1>2, <1>3, <1>4 DEF RetrievalNext

\* Whatever is asked, cached, lost or primed, searches, events, the cache and the vocabulary
\* keep their types (retrieval.py, coverage.py).
THEOREM RetrievalTypeHolds == RetrievalSpec => []RetrievalTypeOK
<1>1. RetrievalInv /\ CoverageInv => RetrievalTypeOK
  <2> SUFFICES ASSUME RetrievalInv, CoverageInv PROVE RetrievalTypeOK
    OBVIOUS
  <2>1. ASSUME NEW s \in Searches
        PROVE  /\ search[s].request \in SearchRequests /\ search[s].at \in SearchPlaces
               /\ search[s].vector \in Vectors \cup {NoVector}
               /\ search[s].reranked \in {"disabled", "applied", "unavailable"}
               /\ searchEvent[s].status \in {"none", "open", "ok", "failed"}
               /\ searchEvent[s].limit \in Nat /\ searchEvent[s].authorized \in Nat
    <3>1. IsRecord(search[s]) /\ IsEvent(searchEvent[s])
      BY DEF RetrievalInv, SearchesOK, SearchOK
    <3> QED BY <3>1 DEF IsRecord, IsEvent, IsSearch, Searching
  <2>2. embeddingCache \in Seq([query : Queries, vector : Vectors])
    BY DEF RetrievalInv, CacheOK, Entries
  <2>3. vocabulary.lexemes \in {{}, CatalogLexemes} /\ vocabulary.surface \in {{}, CatalogSurface}
    BY DEF CoverageInv, VocabularyIsWhole
  <2> QED BY <2>1, <2>2, <2>3 DEF RetrievalTypeOK
<1> QED
  BY <1>1, RetrievalInvInit, RetrievalInvNext, CoverageInit, CoverageNext, PTL DEF RetrievalSpec

\* hybrid_search.sql: in every pool, a product that beats another in each channel that found
\* that one stands before it, and a full pool never drops it first.
THEOREM FusionRespectsArmsHolds == RetrievalSpec => []FusionRespectsArms
<1>1. RetrievalInv => FusionRespectsArms
  <2> SUFFICES ASSUME RetrievalInv, NEW s \in Searches, search[s].pool # << >>,
                      NEW p \in Products, NEW j \in DOMAIN search[s].pool,
                      Dominates(ArmsOf(s), p, search[s].pool[j])
               PROVE  \E i \in 1..(j - 1) : search[s].pool[i] = p
    BY DEF FusionRespectsArms
  <2> DEFINE r == search[s]
  <2>1. /\ r.request \in SearchRequests /\ r.vector \in Vectors /\ r.pool = Fused(ArmsFor(r))
    BY DEF RetrievalInv, SearchesOK, SearchOK, IsRecord, Ranked, Fresh
  <2>2. ArmsOf(s) = ArmsFor(r)
    BY DEF ArmsOf, ArmsFor, QueryOf
  <2>3. AreArms(ArmsFor(r))
    BY <2>1, ArmsTyped
  <2> HIDE DEF r
  <2> QED BY <2>1, <2>2, <2>3, FusedProperties DEF r
<1> QED
  BY <1>1, RetrievalInvInit, RetrievalInvNext, PTL DEF RetrievalSpec

\* rerank.py, _final_candidate_sort_key: the reranker's scores count for all of a pool or for
\* none of it.
THEOREM RerankAllOrNothingHolds == RetrievalSpec => []RerankAllOrNothing
<1>1. RetrievalInv => RerankAllOrNothing
  <2> SUFFICES ASSUME RetrievalInv, NEW s \in Searches
               PROVE  LET pool == search[s].pool
                          receipts == searchEvent[s].receipts
                          named == IdentitiesOf(s) \cup NamedSkus[QueryOf(s)]
                      IN  IF search[s].reranked = "applied"
                          THEN DOMAIN search[s].scores = Range(pool)
                          ELSE search[s].at = "responding" =>
                              /\ Range(receipts) = Range(pool) /\ Len(receipts) = Len(pool)
                              /\ \A i, j \in DOMAIN pool :
                                  i < j /\ pool[i] \notin named /\ pool[j] \notin named
                                  => RankIn(receipts, pool[i]) < RankIn(receipts, pool[j])
    BY DEF RerankAllOrNothing
  <2> DEFINE r == search[s]
             e == searchEvent[s]
  <2>1. SearchOK(r, e)
    BY DEF RetrievalInv, SearchesOK
  <2>2. CASE r.reranked = "applied"
    BY <2>1, <2>2 DEF SearchOK, Ranked
  <2>3. ASSUME r.reranked # "applied", r.at = "responding"
        PROVE  /\ Range(e.receipts) = Range(r.pool) /\ Len(e.receipts) = Len(r.pool)
               /\ \A i, j \in DOMAIN r.pool :
                      /\ i < j /\ r.pool[i] \notin NamesakesOf(r) \cup NamedSkus[r.request.query]
                      /\ r.pool[j] \notin NamesakesOf(r) \cup NamedSkus[r.request.query]
                      => RankIn(e.receipts, r.pool[i]) < RankIn(e.receipts, r.pool[j])
    <3>1. /\ e.receipts = FinalOrder(r.pool, NamesakesOf(r), NamedSkus[r.request.query], r.scores)
          /\ r.scores = << >>
      BY <2>1, <2>3 DEF SearchOK, Recorded, Ranked, OrderFor
    <3>2. r.pool \in Seq(Products) /\ IsInjective(r.pool) /\ r.scores \in [DOMAIN r.scores -> Int]
      BY <2>1 DEF SearchOK, IsRecord
    <3> DEFINE pool == r.pool
               identities == NamesakesOf(r)
               named == NamedSkus[r.request.query]
               scores == r.scores
               order == FinalOrder(pool, identities, named, scores)
    <3>3. /\ pool \in Seq(Products) /\ IsInjective(pool) /\ scores \in [DOMAIN scores -> Int]
          /\ scores = << >>
      BY <3>1, <3>2
    <3> HIDE DEF pool, identities, named, scores
    <3>4. /\ Range(order) = Range(pool) /\ Len(order) = Len(pool)
          /\ \A i, j \in DOMAIN pool :
                /\ i < j /\ pool[i] \notin identities \cup named
                /\ pool[j] \notin identities \cup named
                => RankIn(order, pool[i]) < RankIn(order, pool[j])
      BY <3>3, FinalOrderProperties
    <3>5. e.receipts = order
      BY <3>1 DEF pool, identities, named, scores
    <3> HIDE DEF order
    <3> QED BY <3>4, <3>5 DEF pool, identities, named
  <2>4. IdentitiesOf(s) = NamesakesOf(r)
    BY DEF IdentitiesOf, NamesakesOf, QueryOf
  <2> QED BY <2>2, <2>3, <2>4 DEF QueryOf
<1> QED
  BY <1>1, RetrievalInvInit, RetrievalInvNext, PTL DEF RetrievalSpec

-----------------------------------------------------------------------------
(* What an event grants.                                                   *)

\* As many receipts as there are identities among them are the identities, when none
\* comes after another product.
LEMMA IdentitiesFirst ==
    ASSUME NEW receipts \in Seq(Products), IsInjective(receipts), NEW identities,
           \A i, j \in DOMAIN receipts :
              i < j /\ receipts[j] \in identities => receipts[i] \in identities,
           NEW i \in DOMAIN receipts, i <= Cardinality(identities \cap Range(receipts))
    PROVE  receipts[i] \in identities
<1> DEFINE exact == identities \cap Range(receipts)
           place == [p \in exact |-> RankIn(receipts, p)]
<1> SUFFICES ASSUME receipts[i] \notin identities PROVE FALSE
  OBVIOUS
<1>0. /\ i \in Nat \ {0} /\ i - 1 \in Nat /\ Len(receipts) \in Nat
      /\ DOMAIN receipts = 1..Len(receipts)
  BY LenProperties
<1>1. IsFiniteSet(exact)
  BY PoolRanks, FS_Subset
<1>2. \A p \in exact : place[p] \in 1..Len(receipts) /\ receipts[place[p]] = p
  BY PoolRanks
<1> HIDE DEF place
<1>3. \A p \in exact : place[p] \in 1..(i - 1)
  <2> TAKE p \in exact
  <2>1. place[p] \in 1..Len(receipts) /\ receipts[place[p]] = p /\ p \in identities
    BY <1>2
  <2>2. place[p] # i /\ ~(i < place[p])
    BY <1>0, <2>1
  <2> QED BY <1>0, <2>1, <2>2
<1>4. place \in Injection(exact, 1..(i - 1))
  <2>1. DOMAIN place = exact /\ place = [p \in exact |-> place[p]]
    BY DEF place
  <2> QED BY <1>2, <1>3, <2>1 DEF Injection, IsInjective
<1> DEFINE h == i - 1
<1>5. IsFiniteSet(1..(i - 1)) /\ Cardinality(1..(i - 1)) = i - 1
  <2>1. h \in Nat /\ (h = 0 => 1..h = {}) /\ (1 > h <=> h = 0) /\ h - 1 + 1 = h
    BY <1>0
  <2> HIDE DEF h
  <2>2. IsFiniteSet(1..h) /\ Cardinality(1..h) = h
    BY <2>1, FS_Interval
  <2> QED BY <2>2 DEF h
<1>6. Cardinality(exact) <= i - 1 /\ Cardinality(exact) \in Nat
  BY <1>1, <1>4, <1>5, FS_Injection, FS_CardinalityType
<1> QED
  BY <1>0, <1>6

\* An event that is whole grants what a replay shows, the first part of what a search with
\* these receipts serves, and nothing but the identities when there is one.
LEMMA WholeGrants ==
    ASSUME NEW e, IsEvent(e), NEW request \in SearchRequests, Whole(e, request)
    PROVE  LET identities == Identities[request.query]
               exact == identities \cap Range(e.receipts)
               granted == {e.receipts[r] : r \in {i \in DOMAIN e.receipts : i <= e.authorized}}
               replayed == FirstOf(e.receipts, Smaller(e.limit, e.authorized))
               served == FirstOf(e.receipts, Window(request.limit, e.receipts, identities))
           IN  /\ granted = Range(replayed)
               /\ replayed = FirstOf(served, Len(replayed))
               /\ exact # {} => granted \subseteq exact /\ Range(served) \subseteq exact
<1> DEFINE receipts == e.receipts
           n == Len(receipts)
           identities == Identities[request.query]
           exact == identities \cap Range(receipts)
           m == Cardinality(exact)
           granted == {receipts[r] : r \in {i \in DOMAIN receipts : i <= e.authorized}}
           replayed == FirstOf(receipts, Smaller(e.limit, e.authorized))
           wide == Window(request.limit, receipts, identities)
           served == FirstOf(receipts, wide)
<1>1. receipts \in Seq(Products) /\ n \in Nat /\ DOMAIN receipts = 1..n /\ IsInjective(receipts)
  BY LenProperties DEF IsEvent, Whole
<1>2. /\ request.limit \in Nat \ {0} /\ request.authorized \in Nat \ {0}
      /\ request.authorized <= request.limit
  BY RequestTyped
<1>3. IsFiniteSet(exact) /\ m \in Nat /\ (m = 0 <=> exact = {})
  <2>1. IsFiniteSet(exact)
    BY <1>1, PoolRanks, FS_Subset
  <2> QED BY <2>1, FS_CardinalityType, FS_EmptySet
<1>4. /\ e.authorized = IF m = 0 THEN request.authorized ELSE Smaller(request.authorized, m)
      /\ wide = IF m = 0 THEN request.limit ELSE Smaller(request.limit, m)
      /\ e.limit = request.limit
  BY DEF Whole, Window
<1>5. \A i \in 1..n : i <= m => receipts[i] \in exact
  <2>1. \A i, j \in DOMAIN receipts :
           i < j /\ receipts[j] \in identities => receipts[i] \in identities
    BY DEF Whole
  <2>2. \A i \in 1..n : i <= m => receipts[i] \in identities
    BY <1>1, <2>1, IdentitiesFirst
  <2>3. \A i \in 1..n : receipts[i] \in Range(receipts)
    BY <1>1 DEF Range
  <2> QED BY <2>2, <2>3
<1> DEFINE a == e.authorized
<1>6. granted = {receipts[r] : r \in {i \in 1..n : i <= a}}
  BY <1>1
<1> HIDE DEF m, wide, exact, identities, granted
<1>7. /\ a \in Nat /\ wide \in Nat /\ a <= wide /\ a <= e.limit
      /\ m # 0 => a <= m /\ wide <= m
  BY <1>2, <1>3, <1>4 DEF Smaller
<1> HIDE DEF a
<1>8. Smaller(e.limit, e.authorized) = a
  BY <1>2, <1>4, <1>7 DEF Smaller, a
<1>9. replayed = FirstOf(receipts, a)
  BY <1>8
<1> HIDE DEF replayed, served, receipts
<1> DEFINE k == Smaller(a, n)
           l == Smaller(wide, n)
<1>10. /\ replayed \in Seq(Products) /\ Len(replayed) = k /\ DOMAIN replayed = 1..k
       /\ \A i \in 1..k : replayed[i] = receipts[i]
  BY <1>1, <1>7, <1>9, FirstOfProperties
<1>11. /\ served \in Seq(Products) /\ Len(served) = l /\ DOMAIN served = 1..l
       /\ \A i \in 1..l : served[i] = receipts[i]
  BY <1>1, <1>7, FirstOfProperties DEF served
<1>12. /\ k \in Nat /\ l \in Nat /\ k <= l /\ l <= n
       /\ \A i \in 1..n : i <= a <=> i \in 1..k
       /\ 1..k \subseteq 1..n /\ 1..l \subseteq 1..n /\ Smaller(k, l) = k
       /\ m # 0 => \A i \in 1..l : i <= m
  <2>1. k \in Nat /\ l \in Nat /\ k <= l /\ l <= n /\ k <= n /\ l <= wide
    BY <1>1, <1>7 DEF Smaller
  <2>2. \A i \in 1..n : i <= a <=> i \in 1..k
    BY <1>1, <1>7 DEF Smaller
  <2> HIDE DEF k, l
  <2>3. 1..k \subseteq 1..n /\ 1..l \subseteq 1..n /\ Smaller(k, l) = k
    BY <1>1, <2>1 DEF Smaller
  <2>4. m # 0 => \A i \in 1..l : i <= m
    BY <1>3, <1>7, <2>1
  <2> QED BY <2>1, <2>2, <2>3, <2>4
<1> HIDE DEF k, l, n
<1>13. granted = Range(replayed)
  <2>1. {i \in 1..n : i <= a} = 1..k
    BY <1>12
  <2>2. granted = {receipts[r] : r \in 1..k}
    BY <1>6, <2>1
  <2> QED BY <1>10, <2>2 DEF Range
<1>14. replayed = FirstOf(served, Len(replayed))
  <2>1. /\ FirstOf(served, k) \in Seq(Products) /\ Len(FirstOf(served, k)) = k
        /\ \A i \in 1..k : FirstOf(served, k)[i] = served[i]
    BY <1>11, <1>12, FirstOfProperties
  <2>2. \A i \in 1..k : FirstOf(served, k)[i] = replayed[i]
    BY <1>10, <1>11, <1>12, <2>1
  <2> QED BY <1>10, <2>1, <2>2, SeqEqual
<1>15. exact # {} => granted \subseteq exact /\ Range(served) \subseteq exact
  <2> SUFFICES ASSUME exact # {}
               PROVE  Range(served) \subseteq exact /\ Range(replayed) \subseteq exact
    BY <1>13
  <2>1. \A i \in 1..l : receipts[i] \in exact
    BY <1>3, <1>5, <1>12
  <2>2. \A i \in 1..k : i \in 1..l
    BY <1>12
  <2> QED BY <1>10, <1>11, <2>1, <2>2 DEF Range
<1> QED
  BY <1>13, <1>14, <1>15 DEF granted, replayed, served, exact, identities, wide, receipts

\* However a search ended, its event grants nothing or a whole answer, and what it grants of
\* a search that answered is what a replay shows and the first part of what was served
\* (_served_candidates, _persist_results, served_window).
THEOREM GrantIsWholeHolds == RetrievalSpec => []GrantIsWhole
<1>1. RetrievalInv => GrantIsWhole
  <2> SUFFICES ASSUME RetrievalInv, NEW s \in Searches
               PROVE  LET exact == Identities[QueryOf(s)] \cap Range(searchEvent[s].receipts) IN
                      /\ search[s].at \in {"responding", "done"} =>
                            /\ searchEvent[s].status = "ok"
                            /\ Granted(s) = Range(Replayed(s))
                            /\ Replayed(s) = FirstOf(search[s].served, Len(Replayed(s)))
                      /\ exact # {} => Granted(s) \subseteq exact
                      /\ search[s].at \in {"responding", "done"} /\ exact # {} =>
                            Range(search[s].served) \subseteq exact
                      /\ searchEvent[s].status \in {"none", "open"} => Granted(s) = {}
    BY DEF GrantIsWhole
  <2> DEFINE r == search[s]
             e == searchEvent[s]
             identities == Identities[r.request.query]
             exact == identities \cap Range(e.receipts)
             granted == {e.receipts[k] : k \in {i \in DOMAIN e.receipts : i <= e.authorized}}
             replayed == FirstOf(e.receipts, Smaller(e.limit, e.authorized))
  <2>1. /\ IsEvent(e) /\ Recorded(r, e) /\ r.request \in SearchRequests
    BY DEF RetrievalInv, SearchesOK, SearchOK, IsRecord
  <2>2. QueryOf(s) = r.request.query /\ Granted(s) = granted /\ Replayed(s) = replayed
    BY DEF QueryOf, Granted, Replayed
  <2>3. ASSUME Whole(e, r.request)
        PROVE  /\ granted = Range(replayed)
               /\ LET served == FirstOf(e.receipts, Window(r.request.limit, e.receipts, identities))
                  IN  /\ replayed = FirstOf(served, Len(replayed))
                      /\ exact # {} => granted \subseteq exact /\ Range(served) \subseteq exact
    BY <2>1, <2>3, WholeGrants
  <2>4. e.receipts = << >> => granted = {} /\ exact = {}
    BY EmptyOrder
  <2>5. /\ r.at \in {"responding", "done"} =>
              /\ e.status = "ok"
              /\ r.served = FirstOf(e.receipts, Window(r.request.limit, e.receipts, identities))
        /\ e.status = "ok" \/ e.receipts # << >> => Whole(e, r.request)
        /\ e.status \in {"none", "open"} => e.receipts = << >>
    BY <2>1 DEF Recorded
  <2> HIDE DEF granted, replayed, exact
  <2>6. /\ r.at \in {"responding", "done"} =>
              /\ e.status = "ok" /\ granted = Range(replayed)
              /\ replayed = FirstOf(r.served, Len(replayed))
        /\ exact # {} => granted \subseteq exact
        /\ r.at \in {"responding", "done"} /\ exact # {} => Range(r.served) \subseteq exact
        /\ e.status \in {"none", "open"} => granted = {}
    BY <2>3, <2>4, <2>5
  <2> QED BY <2>2, <2>6 DEF exact
<1> QED
  BY <1>1, RetrievalInvInit, RetrievalInvNext, PTL DEF RetrievalSpec

-----------------------------------------------------------------------------
(* One vector of a query.                                                  *)

\* What becomes of a search but its vector: it is kept or dropped.
Keeps(s) ==
    \E q : /\ search' = [search EXCEPT ![s] = q]
           /\ q.request = search[s].request /\ q.vector \in {search[s].vector, NoVector}

\* Updates that keep a search's vector or drop it.
LEMMA KeepingUpdates ==
    ASSUME NEW r, IsSearch(r), NEW place, NEW x, NEW y
    PROVE  LET Kept(q) == q.request = r.request /\ q.vector \in {r.vector, NoVector} IN
           /\ Kept([r EXCEPT !.at = place])
           /\ Kept([r EXCEPT !.pool = x, !.at = place])
           /\ Kept([r EXCEPT !.served = x, !.at = place])
           /\ Kept([r EXCEPT !.coverage = x, !.at = place])
           /\ Kept([r EXCEPT !.reranked = x, !.at = place])
           /\ Kept([r EXCEPT !.reranked = x, !.scores = y, !.at = place])
           /\ Kept([NotSubmitted(r.request) EXCEPT !.at = place])
           /\ Kept([[NotSubmitted(r.request) EXCEPT !.at = place] EXCEPT !.served = x])
BY DEF IsSearch, Searching, NotSubmitted

\* A search gets a vector from the cache only.
LEMMA VectorsFromTheCache ==
    ASSUME RetrievalInv, NEW s \in Searches, SearchStep(s)
    PROVE  Keeps(s) \/ Takes(s)
<1>0. CacheOK /\ IsSearch(search[s])
  BY DEF RetrievalInv, SearchesOK, SearchOK, IsRecord
<1> USE <1>0, KeepingUpdates DEF Keeps
<1>1. CASE Submit(s) \/ CacheMiss(s)
  BY <1>1 DEF Submit, CacheMiss, Goes
<1>2. CASE CacheHit(s)
  BY <1>2, CacheHitTakes
<1>3. CASE Fuses(s)
  BY <1>3 DEF Fuses
<1>4. CASE RerankFails(s)
  <2>1. CASE RerankRequired
    BY <1>4, <2>1 DEF RerankFails, EndOf
  <2>2. CASE ~RerankRequired
    <3> DEFINE q == [search[s] EXCEPT !.reranked = "unavailable", !.at = "covering"]
    <3>1. search' = [search EXCEPT ![s] = q]
      BY <1>4, <2>2 DEF RerankFails
    <3>2. q.request = search[s].request /\ q.vector \in {search[s].vector, NoVector}
      OBVIOUS
    <3> HIDE DEF q
    <3> QED BY <3>1, <3>2
  <2> QED BY <2>1, <2>2
<1>5. CASE CoverageStarts(s) \/ CoverageUnavailable(s) \/ CoverageJudges(s)
  <2>1. Goes(s, "judging") \/ \E coverage : Says(s, coverage)
    BY <1>5 DEF CoverageStarts, CoverageUnavailable, CoverageJudges
  <2>2. CASE Goes(s, "judging")
    BY <2>2 DEF Goes
  <2>3. ASSUME NEW coverage, Says(s, coverage)
        PROVE  Keeps(s)
    BY <2>3 DEF Says
  <2> QED BY <2>1, <2>2, <2>3
<1>6. CASE Persists(s)
  BY <1>6 DEF Persists
<1>7. CASE CommitUnheard(s) \/ Fails(s)
  BY <1>7 DEF CommitUnheard, Fails, EndOf
<1>8. CASE Responds(s)
  BY <1>8 DEF Responds, EndOf
<1>9. ASSUME NEW vector \in Vectors, Embeds(s, vector)
      PROVE  Takes(s)
  BY <1>9, EmbedsTakes
<1>10. ASSUME NEW reply, Reranks(s, reply)
       PROVE  Keeps(s)
  BY <1>10 DEF Reranks
<1>11. ASSUME NEW written, MarksFailed(s, written)
       PROVE  Keeps(s)
  BY <1>11 DEF MarksFailed, Goes
<1> QED
  BY <1>1, <1>2, <1>3, <1>4, <1>5, <1>6, <1>7, <1>8, <1>9, <1>10, <1>11 DEF SearchStep

\* Searches of one query share one vector while it is cached, whoever embedded it at the same
\* time (_embed_query).
THEOREM RepeatsShareAVectorHolds == RetrievalSpec => RepeatsShareAVector
<1> DEFINE SameVectors ==
              \A q \in Queries : \A i \in CachedFor(q), j \in CachedFor(q)' :
                 \/ embeddingCache'[j].vector = embeddingCache[i].vector
                 \/ \E vector \in Vectors : Prime(q, vector)
           FromCache ==
              \A s \in Searches : search'[s].vector \notin {search[s].vector, NoVector} =>
                 \E j \in CachedFor(QueryOf(s))' : embeddingCache'[j].vector = search'[s].vector
<1>1. ASSUME RetrievalInv, RetrievalNext
      PROVE  SameVectors /\ FromCache
  <2>0. CacheOK /\ DOMAIN search = Searches
    BY <1>1 DEF RetrievalInv, SearchesOK
  <2>1. ASSUME UNCHANGED embeddingCache
        PROVE  SameVectors
    BY <2>0, <2>1, CachedTyped DEF CachedFor
  <2>2. ASSUME NEW p \in Queries, NEW vector \in Vectors,
               \/ embeddingCache' = Touched(p, vector)
               \/ /\ Len(Touched(p, vector)) > CacheSize
                  /\ embeddingCache' = Tail(Touched(p, vector)),
               NEW q \in Queries, NEW i \in CachedFor(q), NEW j \in CachedFor(q)'
        PROVE  \/ embeddingCache'[j].vector = embeddingCache[i].vector
               \/ p = q /\ embeddingCache'[j].vector = vector
    <3>1. j \in DOMAIN embeddingCache' /\ embeddingCache'[j].query = q
      BY DEF CachedFor
    <3>2. \/ embeddingCache'[j] = [query |-> p, vector |-> vector]
          \/ \E k \in DOMAIN embeddingCache : embeddingCache'[j] = embeddingCache[k]
      BY <2>0, <2>2, <3>1, TouchedProperties
    <3>3. CASE embeddingCache'[j] = [query |-> p, vector |-> vector]
      BY <3>1, <3>3
    <3>4. ASSUME NEW k \in DOMAIN embeddingCache, embeddingCache'[j] = embeddingCache[k]
          PROVE  embeddingCache'[j].vector = embeddingCache[i].vector
      <4>1. k \in CachedFor(q)
        BY <3>1, <3>4 DEF CachedFor
      <4> QED BY <2>0, <3>4, <4>1, CachedTyped
    <3> QED BY <3>2, <3>3, <3>4
  <2>3. ASSUME NEW s \in Searches, SearchStep(s)
        PROVE  SameVectors /\ FromCache
    <3>1. QueryOf(s) \in Queries
      BY <1>1, RequestTyped DEF QueryOf, RetrievalInv, SearchesOK, SearchOK, IsRecord
    <3>2. UNCHANGED embeddingCache \/ Takes(s)
      BY <1>1, <2>3, SearchStepOK DEF Shares
    <3>3. SameVectors
      <4> SUFFICES ASSUME Takes(s), NEW q \in Queries, NEW i \in CachedFor(q),
                          NEW j \in CachedFor(q)'
                   PROVE  embeddingCache'[j].vector = embeddingCache[i].vector
        BY <2>1, <3>2
      <4>1. PICK vector \in Vectors :
              /\ \A k \in CachedFor(QueryOf(s)) : embeddingCache[k].vector = vector
              /\ \/ embeddingCache' = Touched(QueryOf(s), vector)
                 \/ /\ Len(Touched(QueryOf(s), vector)) > CacheSize
                    /\ embeddingCache' = Tail(Touched(QueryOf(s), vector))
        BY DEF Takes
      <4> QED BY <2>2, <3>1, <4>1
    <3>4. FromCache
      <4> SUFFICES ASSUME NEW t \in Searches,
                          search'[t].vector \notin {search[t].vector, NoVector}
                   PROVE  \E j \in CachedFor(QueryOf(t))' :
                             embeddingCache'[j].vector = search'[t].vector
        OBVIOUS
      <4>1. ~Keeps(s)
        BY <2>0 DEF Keeps
      <4>2. PICK vector \in Vectors :
              /\ WithVector(s, vector)
              /\ \/ embeddingCache' = Touched(QueryOf(s), vector)
                 \/ /\ Len(Touched(QueryOf(s), vector)) > CacheSize
                    /\ embeddingCache' = Tail(Touched(QueryOf(s), vector))
        BY <1>1, <2>3, <4>1, VectorsFromTheCache DEF Takes
      <4>3. t = s
        BY <2>0, <4>2 DEF WithVector
      <4>4. search'[s].vector = vector /\ search'[s].request = search[s].request
        <5>1. IsSearch(search[s])
          BY <1>1 DEF RetrievalInv, SearchesOK, SearchOK, IsRecord
        <5> QED BY <2>0, <4>2, <5>1 DEF WithVector, IsSearch, Searching
      <4>5. QueryOf(s)' = QueryOf(s)
        BY <4>4 DEF QueryOf
      <4>6. PICK j \in DOMAIN embeddingCache' :
               embeddingCache'[j] = [query |-> QueryOf(s), vector |-> vector]
        BY <2>0, <3>1, <4>2, TouchedProperties
      <4>7. j \in CachedFor(QueryOf(s))'
        BY <4>5, <4>6 DEF CachedFor
      <4> QED BY <4>3, <4>4, <4>6, <4>7
    <3> QED BY <3>3, <3>4
  <2>4. CASE Crashes
    <3>1. SameVectors
      <4>1. \A q : CachedFor(q)' = {}
        BY <2>4 DEF Crashes, CachedFor
      <4> QED BY <4>1
    <3>2. FromCache
      <4> SUFFICES ASSUME NEW t \in Searches
                   PROVE  search'[t].vector \in {search[t].vector, NoVector}
        OBVIOUS
      <4>1. search'[t] = search[t] \/ search'[t] = EndOf(t, "lost")
        BY <2>4 DEF Crashes
      <4> QED BY <4>1 DEF EndOf, NotSubmitted
    <3> QED BY <3>1, <3>2
  <2>5. ASSUME NEW p \in Queries, NEW vector \in Vectors, Prime(p, vector)
        PROVE  SameVectors /\ FromCache
    BY <2>2, <2>5 DEF Prime
  <2>6. CASE SeedVocabulary
    BY <2>1, <2>6 DEF SeedVocabulary
  <2> QED BY <1>1, <2>3, <2>4, <2>5, <2>6 DEF RetrievalNext
<1> HIDE DEF SameVectors, FromCache
<1>2. RetrievalInv /\ [RetrievalNext]_retrievalVars => [SameVectors /\ FromCache]_retrievalVars
  BY <1>1
<1> QED
  BY <1>2, RetrievalInvInit, RetrievalInvNext, PTL
     DEF RetrievalSpec, RepeatsShareAVector, SameVectors, FromCache
=============================================================================
