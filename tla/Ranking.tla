------------------------------ MODULE Ranking ------------------------------
(***************************************************************************)
(* How a search orders products: three channels of one filtered catalog    *)
(* (db/sql/08_search_channels.sql), their reciprocal rank fusion           *)
(* (labs/lab1_retrieve/hybrid_search.sql, db/sql/09_weighted_fusion.sql),  *)
(* the check of the managed reranker's reply (service/rerank.py) and the   *)
(* order and the window the service makes of them (service/retrieval.py).  *)
(*                                                                         *)
(* A channel's matches are given as tiers, the predicate it tries first    *)
(* and those it falls back to; a tier maps the products it matches to      *)
(* their scores.  An order is a sequence of products without a repeat.     *)
(***************************************************************************)
EXTENDS Integers, Arrangements

CONSTANTS
    Products,      \* product ids: numbers, the last tie-break
    Contribution,  \* Contribution[r]: what rank r of a channel adds to a product's score
    Weight,        \* Weight[channel]: 1 unless the weighted comparison runs
    ArmLimit,      \* candidates of a channel
    FusedLimit     \* candidates of the fused pool

Channels == {"fts", "fuzzy", "semantic"}

ASSUME RankingAssumption ==
    /\ Products \subseteq Nat /\ IsFiniteSet(Products)
    /\ ArmLimit \in Nat \ {0} /\ FusedLimit \in Nat \ {0}
    /\ Weight \in [Channels -> Nat \ {0}]

\* The contribution 1/(k + rank) is positive and falls with the rank.
ASSUME ContributionFalls ==
    /\ Contribution \in [1..ArmLimit -> Nat \ {0}]
    /\ \A r, s \in 1..ArmLimit : r < s => Contribution[s] < Contribution[r]

Smaller(m, n) == IF m <= n THEN m ELSE n

FirstOf(order, limit) == SubSeq(order, 1, Smaller(limit, Len(order)))

-----------------------------------------------------------------------------
(* A channel: the first tier with an eligible match, best score first.     *)

Matching(tier, eligible) == DOMAIN tier \cap eligible

Arm(tiers, eligible) ==
    LET hits == {i \in DOMAIN tiers : Matching(tiers[i], eligible) # {}} IN
    IF hits = {} THEN << >>
    ELSE LET tier == tiers[CHOOSE i \in hits : \A j \in hits : i <= j]
             before(p, q) == tier[p] > tier[q] \/ (tier[p] = tier[q] /\ p < q)
         IN  FirstOf(Arrangement(Matching(tier, eligible), before), ArmLimit)

ShareByDepth(arms, channel, p) == Weight[channel] * RankIn(arms[channel], p)
Share(arms, channel, p) ==
    LET rank == RankIn(arms[channel], p)
    IN  IF rank = 0 THEN 0 ELSE Weight[channel] * Contribution[rank]

FusedScore(arms, p) ==
    Share(arms, "fts", p) + Share(arms, "fuzzy", p) + Share(arms, "semantic", p)

Fused(arms) ==
    LET before(p, q) ==
            \/ FusedScore(arms, p) > FusedScore(arms, q)
            \/ FusedScore(arms, p) = FusedScore(arms, q) /\ p < q
    IN  FirstOf(Arrangement(UNION {Range(arms[c]) : c \in Channels}, before), FusedLimit)

-----------------------------------------------------------------------------
(* The reranker's reply, a sequence of [index, score], and the final order. *)

NotFinite == -1   \* a score that is no finite number

ReplyAcceptedRepeating(reply, documents) ==
    /\ Len(reply) = documents
    /\ \A i \in DOMAIN reply :
        reply[i].index \in 1..documents /\ reply[i].score # NotFinite
ReplyAccepted(reply, documents) ==
    /\ Len(reply) = documents
    /\ \A i \in DOMAIN reply :
        /\ reply[i].index \in 1..documents /\ reply[i].score # NotFinite
        /\ \A j \in 1..(i - 1) : reply[j].index # reply[i].index

\* The scores by product; where a reply repeats an index the last one counts.
ScoresOf(reply, pool) ==
    [p \in {pool[reply[i].index] : i \in DOMAIN reply} |->
        LET of == {i \in DOMAIN reply : pool[reply[i].index] = p}
        IN  reply[CHOOSE i \in of : \A j \in of : j <= i].score]

Flag(condition) == IF condition THEN 0 ELSE 1

\* _final_candidate_sort_key: a whole identity, then a SKU named in the request, then
\* the reranker's scores, then the fused order.
SortKey(p, pool, identities, named, scores) ==
    <<Flag(p \in identities), Flag(p \in named), Flag(p \in DOMAIN scores),
      IF p \in DOMAIN scores THEN -scores[p] ELSE 0, RankIn(pool, p)>>

KeyBefore(a, b) ==
    \E i \in DOMAIN a : a[i] < b[i] /\ \A j \in 1..(i - 1) : a[j] = b[j]

FinalOrder(pool, identities, named, scores) ==
    LET before(p, q) == KeyBefore(SortKey(p, pool, identities, named, scores),
                                  SortKey(q, pool, identities, named, scores))
    IN  Arrangement(Range(pool), before)

\* An identity lookup serves, and grants, the matching identities only.
Window(limit, order, identities) ==
    LET exact == Cardinality(identities \cap Range(order))
    IN  IF exact = 0 THEN limit ELSE Smaller(limit, exact)
=============================================================================
