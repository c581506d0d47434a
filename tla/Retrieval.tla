----------------------------- MODULE Retrieval -----------------------------
(***************************************************************************)
(* Hybrid searches and their receipts (service/retrieval.py): a search     *)
(* writes an open event, embeds its query through the service's cache of   *)
(* vectors, fuses, reranks, assesses coverage (service/coverage.py), and   *)
(* writes its receipts and closes its event in one transaction; whatever   *)
(* fails is marked in another one.  A closed event is a retrieval scope    *)
(* (service/retrieval_scope.py) and can be replayed                        *)
(* (service/retrieval_replay.py).                                          *)
(*                                                                         *)
(* Searches of many requests run at once in one process: a step is what a  *)
(* search does between two points where others may act, a transaction, a   *)
(* hold of the cache's lock, or a call over the network.                   *)
(***************************************************************************)
EXTENDS Ranking

CONSTANTS
    Searches,      \* the searches made, each with its event's id
    SearchRequests,\* [query, eligible, limit, authorized, rerank]; eligible: the filters
    Queries, Vectors, NoVector,
    Embeddings,    \* Embeddings[q]: the vectors the provider may return for q
    FtsTiers, FuzzyTiers,  \* of a query
    Nearness,      \* Nearness[v]: the catalog by similarity to a vector
    Identities,    \* Identities[q]: products whose SKU, title or model is all of q
    NamedSkus,     \* NamedSkus[q]: products whose full SKU q contains
    CacheSize,     \* vectors the cache keeps
    RerankRequired,
    Terms,         \* Terms[q]: [kind, lexeme, near] of the words of q
    CatalogLexemes, CatalogSurface  \* the catalog's stemmed and written words

VARIABLES
    search,        \* the search's own state
    searchEvent,   \* mosaic.search_event and its mosaic.search_result_event rows
    embeddingCache,\* [query, vector], least recently used first
    vocabulary     \* corpus_lexeme and corpus_surface_lexeme

retrievalVars == <<search, searchEvent, embeddingCache, vocabulary>>

ASSUME RetrievalAssumption ==
    /\ CacheSize \in Nat \ {0} /\ RerankRequired \in BOOLEAN /\ NoVector \notin Vectors
    /\ IsFiniteSet(Searches)
    /\ SearchRequests \subseteq [query : Queries, eligible : SUBSET Products, limit : Nat \ {0},
                                 authorized : Nat \ {0}, rerank : BOOLEAN]
    /\ \A r \in SearchRequests : r.authorized <= r.limit
    /\ Embeddings \in [Queries -> SUBSET Vectors]
    /\ NamedSkus \in [Queries -> SUBSET Products]
    /\ \A q \in Queries : \A term \in Terms[q] : term.kind \in {"word", "identifier"}
    /\ Identities \in [Queries -> SUBSET Products]

\* Whatever a channel tries scores the products it matches.
Scored(tiers) ==
    /\ DOMAIN tiers \subseteq Nat
    /\ \A i \in DOMAIN tiers : tiers[i] \in [DOMAIN tiers[i] -> Int]

ASSUME TiersAssumption ==
    /\ \A q \in Queries : Scored(FtsTiers[q]) /\ Scored(FuzzyTiers[q])
    /\ \A vector \in Vectors : Scored(<<Nearness[vector]>>)

NoEvent == [status |-> "none", limit |-> 0, authorized |-> 0, receipts |-> << >>]

NotSubmitted(request) ==
    [request |-> request, at |-> "idle", vector |-> NoVector, pool |-> << >>,
     reranked |-> "disabled", scores |-> << >>, coverage |-> "none", served |-> << >>]

\* A database may have been seeded with one vocabulary, both or none.
RetrievalInit ==
    /\ \E asked \in [Searches -> SearchRequests] :
            search = [s \in Searches |-> NotSubmitted(asked[s])]
    /\ searchEvent = [s \in Searches |-> NoEvent]
    /\ embeddingCache = << >>
    /\ vocabulary \in [lexemes : {{}, CatalogLexemes}, surface : {{}, CatalogSurface}]
-----------------------------------------------------------------------------
SearchAt(s, place) == search[s].at = place

QueryOf(s) == search[s].request.query

Goes(s, place) == search' = [search EXCEPT ![s].at = place]

\* What a search that has ended held in memory is gone.
EndOf(s, place) == [NotSubmitted(search[s].request) EXCEPT !.at = place]

OnlySearches == UNCHANGED <<searchEvent, embeddingCache, vocabulary>>

\* The open event holds the request's own limits and no status.
Submit(s) ==
    /\ SearchAt(s, "idle")
    /\ searchEvent' = [searchEvent EXCEPT ![s] =
            [NoEvent EXCEPT !.status = "open", !.limit = search[s].request.limit,
                            !.authorized = search[s].request.authorized]]
    /\ Goes(s, "embedding")
    /\ UNCHANGED <<embeddingCache, vocabulary>>

-----------------------------------------------------------------------------
(* The query's vector.                                                     *)

CachedFor(q) == {i \in DOMAIN embeddingCache : embeddingCache[i].query = q}

WithVector(s, vector) ==
    search' = [search EXCEPT ![s] = [@ EXCEPT !.vector = vector, !.at = "fusing"]]

\* The cache without q's entry, and with that moved to its end.
Without(q) ==
    IF CachedFor(q) = {} THEN embeddingCache
    ELSE LET i == CHOOSE i \in CachedFor(q) : TRUE
         IN  SubSeq(embeddingCache, 1, i - 1)
                \o SubSeq(embeddingCache, i + 1, Len(embeddingCache))

Touched(q, vector) == Append(Without(q), [query |-> q, vector |-> vector])

CacheHit(s) ==
    /\ SearchAt(s, "embedding")
    /\ \E i \in CachedFor(QueryOf(s)) :
        /\ embeddingCache' = Touched(QueryOf(s), embeddingCache[i].vector)
        /\ WithVector(s, embeddingCache[i].vector)
    /\ UNCHANGED <<searchEvent, vocabulary>>

\* The provider is called without the lock.
CacheMiss(s) ==
    /\ SearchAt(s, "embedding") /\ CachedFor(QueryOf(s)) = {}
    /\ Goes(s, "provider") /\ OnlySearches

\* Whoever embedded the query first has its vector kept; the least recently used
\* entry leaves a full cache.
EmbedsAnew(s, vector) ==
    /\ SearchAt(s, "provider") /\ vector \in Embeddings[QueryOf(s)]
    /\ LET entries == Touched(QueryOf(s), vector)
       IN  /\ embeddingCache' = IF Len(entries) > CacheSize THEN Tail(entries) ELSE entries
           /\ WithVector(s, vector)
    /\ UNCHANGED <<searchEvent, vocabulary>>
Embeds(s, vector) ==
    /\ SearchAt(s, "provider") /\ vector \in Embeddings[QueryOf(s)]
    /\ LET present == CachedFor(QueryOf(s))
           kept == IF present = {} THEN vector
                   ELSE embeddingCache[CHOOSE i \in present : TRUE].vector
           entries == Touched(QueryOf(s), kept)
       IN  /\ embeddingCache' = IF Len(entries) > CacheSize THEN Tail(entries) ELSE entries
           /\ WithVector(s, kept)
    /\ UNCHANGED <<searchEvent, vocabulary>>

\* A measurement replaces the vector of its query by the one it recorded.
Prime(q, vector) ==
    /\ embeddingCache' = Touched(q, vector)
    /\ UNCHANGED <<search, searchEvent, vocabulary>>

-----------------------------------------------------------------------------
(* Candidates, their order, and what is said of the query's words.         *)

ArmsOf(s) ==
    LET eligible == search[s].request.eligible IN
    [fts |-> Arm(FtsTiers[QueryOf(s)], eligible),
     fuzzy |-> Arm(FuzzyTiers[QueryOf(s)], eligible),
     semantic |-> Arm(<<Nearness[search[s].vector]>>, eligible)]

Fuses(s) ==
    /\ SearchAt(s, "fusing")
    /\ LET pool == Fused(ArmsOf(s)) IN
       search' = [search EXCEPT ![s] =
           [@ EXCEPT !.pool = pool,
                     !.at = IF search[s].request.rerank /\ pool # << >> THEN "reranking"
                            ELSE "covering"]]
    /\ OnlySearches

Reranks(s, reply) ==
    /\ SearchAt(s, "reranking") /\ ReplyAccepted(reply, Len(search[s].pool))
    /\ search' = [search EXCEPT ![s] =
            [@ EXCEPT !.reranked = "applied", !.scores = ScoresOf(reply, search[s].pool),
                      !.at = "covering"]]
    /\ OnlySearches

\* Any other reply, or none, leaves the fused order, unless the deployment requires
\* reranking.
RerankFails(s) ==
    /\ SearchAt(s, "reranking")
    /\ IF RerankRequired THEN search' = [search EXCEPT ![s] = EndOf(s, "failing")]
       ELSE search' = [search EXCEPT ![s] = [@ EXCEPT !.reranked = "unavailable",
                                                      !.at = "covering"]]
    /\ OnlySearches

\* Both halves of the vocabulary, or nothing is said.
VocabularyHalfReady == vocabulary.lexemes # {}
VocabularyReady == vocabulary.lexemes # {} /\ vocabulary.surface # {}

Says(s, coverage) ==
    search' = [search EXCEPT ![s] = [@ EXCEPT !.coverage = coverage, !.at = "persisting"]]

CoverageStarts(s) ==
    /\ SearchAt(s, "covering")
    /\ IF VocabularyReady THEN Goes(s, "judging") ELSE Says(s, "unavailable")
    /\ OnlySearches

\* No function, no connection, a statement timeout: the search goes on without.
CoverageUnavailable(s) ==
    /\ search[s].at \in {"covering", "judging"} /\ Says(s, "unavailable") /\ OnlySearches

Verdict(term) ==
    CASE term.lexeme = "" -> "ignored"
      [] term.lexeme # "" /\ term.lexeme \in vocabulary.lexemes -> "matched"
      [] OTHER -> IF term.kind = "word" /\ term.near \cap vocabulary.surface # {}
                  THEN "recoverable" ELSE "unmatched_anchor"

CoverageJudges(s) ==
    /\ SearchAt(s, "judging")
    /\ Says(s, IF \E term \in Terms[QueryOf(s)] : Verdict(term) = "unmatched_anchor"
               THEN "unanchored" ELSE "grounded")
    /\ OnlySearches

\* refresh_corpus_lexeme rebuilds both tables in one transaction.
SeedVocabulary ==
    /\ vocabulary' = [lexemes |-> CatalogLexemes, surface |-> CatalogSurface]
    /\ UNCHANGED <<search, searchEvent, embeddingCache>>

-----------------------------------------------------------------------------
(* Receipts.                                                               *)

IdentitiesOf(s) == Identities[QueryOf(s)] \cap Range(search[s].pool)

OrderOf(s) ==
    FinalOrder(search[s].pool, IdentitiesOf(s), NamedSkus[QueryOf(s)], search[s].scores)

\* One transaction: the receipts of every candidate, and the closed event with the
\* window the search grants.
EventClosed(s) ==
    [searchEvent EXCEPT ![s] =
        [@ EXCEPT !.status = "ok", !.receipts = OrderOf(s),
                  !.authorized = Window(search[s].request.authorized, OrderOf(s),
                                        IdentitiesOf(s))]]

PersistsWide(s) ==
    /\ SearchAt(s, "persisting")
    /\ searchEvent' = [EventClosed(s) EXCEPT ![s].authorized = search[s].request.authorized]
    /\ search' = [search EXCEPT ![s] =
            [@ EXCEPT !.served = FirstOf(OrderOf(s), Window(search[s].request.limit, OrderOf(s),
                                                            IdentitiesOf(s))),
                      !.at = "responding"]]
    /\ UNCHANGED <<embeddingCache, vocabulary>>
Persists(s) ==
    /\ SearchAt(s, "persisting")
    /\ searchEvent' = EventClosed(s)
    /\ search' = [search EXCEPT ![s] =
            [@ EXCEPT !.served = FirstOf(OrderOf(s), Window(search[s].request.limit, OrderOf(s),
                                                            IdentitiesOf(s))),
                      !.at = "responding"]]
    /\ UNCHANGED <<embeddingCache, vocabulary>>

\* The transaction is committed and the reply to it lost: to the search it failed.
CommitUnheard(s) ==
    /\ SearchAt(s, "persisting")
    /\ searchEvent' = EventClosed(s)
    /\ search' = [search EXCEPT ![s] = EndOf(s, "failing")]
    /\ UNCHANGED <<embeddingCache, vocabulary>>

Responds(s) ==
    /\ SearchAt(s, "responding")
    /\ search' = [search EXCEPT ![s] = [EndOf(s, "done") EXCEPT !.served = search[s].served]]
    /\ OnlySearches

Working == {"embedding", "provider", "fusing", "reranking", "covering", "judging", "persisting"}

Unfinished == Working \cup {"responding", "failing"}

\* An exhausted pool, a failed call, a broken database: the transaction at hand is
\* rolled back.
FailsHalfway(s) ==
    /\ search[s].at \in Working
    /\ search' = [search EXCEPT ![s] = EndOf(s, "failing")]
    /\ searchEvent' = [searchEvent EXCEPT ![s].receipts = OrderOf(s)]
    /\ UNCHANGED <<embeddingCache, vocabulary>>
Fails(s) ==
    /\ search[s].at \in Working
    /\ search' = [search EXCEPT ![s] = EndOf(s, "failing")] /\ OnlySearches

\* The marker takes a checkout of its own, which may fail as well.
MarksFailed(s, written) ==
    /\ SearchAt(s, "failing")
    /\ searchEvent' = IF written THEN [searchEvent EXCEPT ![s].status = "failed"]
                      ELSE searchEvent
    /\ Goes(s, "raised")
    /\ UNCHANGED <<embeddingCache, vocabulary>>

\* The process stops: its searches end where they are, the cache is gone, and the
\* database keeps what was committed.
Crashes ==
    /\ search' = [s \in Searches |->
                    IF search[s].at \in Unfinished THEN EndOf(s, "lost") ELSE search[s]]
    /\ embeddingCache' = << >>
    /\ UNCHANGED <<searchEvent, vocabulary>>
-----------------------------------------------------------------------------
(* Reading receipts.                                                       *)

\* What a later request may act on under this scope.
Granted(s) ==
    {searchEvent[s].receipts[r] : r \in {i \in DOMAIN searchEvent[s].receipts :
                                            i <= searchEvent[s].authorized}}

\* What a replay of the event shows.
Replayed(s) ==
    FirstOf(searchEvent[s].receipts, Smaller(searchEvent[s].limit, searchEvent[s].authorized))

-----------------------------------------------------------------------------
Replies(documents) ==
    UNION {[1..n -> [index : 1..(documents + 1), score : {NotFinite, 1, 2}]] :
              n \in {documents - 1, documents}}

SearchStep(s) ==
    \/ Submit(s) \/ CacheHit(s) \/ CacheMiss(s) \/ Fuses(s) \/ RerankFails(s)
    \/ CoverageStarts(s) \/ CoverageUnavailable(s) \/ CoverageJudges(s)
    \/ Persists(s) \/ CommitUnheard(s) \/ Responds(s) \/ Fails(s)
    \/ \E vector \in Vectors : Embeds(s, vector)
    \/ SearchAt(s, "reranking") /\ \E reply \in Replies(Len(search[s].pool)) : Reranks(s, reply)
    \/ \E written \in BOOLEAN : MarksFailed(s, written)

RetrievalNext ==
    \/ \E s \in Searches : SearchStep(s)
    \/ Crashes
    \/ \E q \in Queries : \E vector \in Vectors : Prime(q, vector)
    \/ SeedVocabulary

RetrievalSpec == RetrievalInit /\ [][RetrievalNext]_retrievalVars

-----------------------------------------------------------------------------
SearchPlaces == Unfinished \cup {"idle", "done", "raised", "lost"}

RetrievalTypeOK ==
    /\ \A s \in Searches :
        /\ search[s].request \in SearchRequests /\ search[s].at \in SearchPlaces
        /\ search[s].vector \in Vectors \cup {NoVector}
        /\ search[s].reranked \in {"disabled", "applied", "unavailable"}
        /\ searchEvent[s].status \in {"none", "open", "ok", "failed"}
        /\ searchEvent[s].limit \in Nat /\ searchEvent[s].authorized \in Nat
    /\ embeddingCache \in Seq([query : Queries, vector : Vectors])
    /\ vocabulary.lexemes \in {{}, CatalogLexemes} /\ vocabulary.surface \in {{}, CatalogSurface}

\* However a search ends (answered, failed, marked so or not, crashed, its commit
\* unheard), its event grants nothing or a whole answer: an identity lookup never grants
\* a product that only resembles the one named, wherever the reranker puts it.  Of a
\* search that answers, what the event grants is what a replay of it shows, and the first
\* part of what was served (_served_candidates, retrieval_scope, served_window).
GrantIsWhole ==
    \A s \in Searches :
        LET exact == Identities[QueryOf(s)] \cap Range(searchEvent[s].receipts) IN
        /\ search[s].at \in {"responding", "done"} =>
                /\ searchEvent[s].status = "ok"
                /\ Granted(s) = Range(Replayed(s))
                /\ Replayed(s) = FirstOf(search[s].served, Len(Replayed(s)))
        /\ exact # {} => Granted(s) \subseteq exact
        /\ search[s].at \in {"responding", "done"} /\ exact # {} =>
                Range(search[s].served) \subseteq exact
        /\ searchEvent[s].status \in {"none", "open"} => Granted(s) = {}

\* Searches of one query use one vector while it is cached, whoever embedded it at the
\* same time (_embed_query: the first vector wins); only a measurement replaces it.
RepeatsShareAVector ==
    [][/\ \A q \in Queries : \A i \in CachedFor(q), j \in CachedFor(q)' :
            \/ embeddingCache'[j].vector = embeddingCache[i].vector
            \/ \E vector \in Vectors : Prime(q, vector)
       /\ \A s \in Searches : search'[s].vector \notin {search[s].vector, NoVector} =>
            \E j \in CachedFor(QueryOf(s))' :
                embeddingCache'[j].vector = search'[s].vector]_retrievalVars

\* The reranker scores every candidate or none: after a short, repeated or unusable reply,
\* or none, the products that the query does not name are received as they were fused.
RerankAllOrNothing ==
    \A s \in Searches :
        LET pool == search[s].pool
            receipts == searchEvent[s].receipts
            named == IdentitiesOf(s) \cup NamedSkus[QueryOf(s)]
        IN  IF search[s].reranked = "applied" THEN DOMAIN search[s].scores = Range(pool)
            ELSE search[s].at = "responding" =>
                /\ Range(receipts) = Range(pool) /\ Len(receipts) = Len(pool)
                /\ \A i, j \in DOMAIN pool :
                    i < j /\ pool[i] \notin named /\ pool[j] \notin named
                    => RankIn(receipts, pool[i]) < RankIn(receipts, pool[j])

\* p is found wherever q is, each time ranked above it.
Dominates(arms, p, q) ==
    /\ p # q
    /\ \A c \in Channels : RankIn(arms[c], q) # 0 =>
            RankIn(arms[c], p) # 0 /\ RankIn(arms[c], p) < RankIn(arms[c], q)

\* Fusion agrees with channels that agree: a product that beats another in every channel
\* that found it precedes it in the pool, and a full pool never drops it first.
FusionRespectsArms ==
    \A s \in Searches : search[s].pool # << >> =>
        LET arms == ArmsOf(s) IN
        \A p \in Products : \A j \in DOMAIN search[s].pool :
            Dominates(arms, p, search[s].pool[j]) =>
                \E i \in 1..(j - 1) : search[s].pool[i] = p

\* What is said of a request's words is true of the catalog: a search is called
\* unanchored only for a word the catalog neither has nor is near, however the
\* vocabulary was seeded, and grounded only when it has every identifier asked for.
CoverageIsHonest ==
    \A s \in Searches :
        LET absent == {term \in Terms[QueryOf(s)] :
                          term.lexeme # "" /\ term.lexeme \notin CatalogLexemes}
        IN  /\ search[s].coverage = "unanchored" =>
                    \E term \in absent :
                        term.kind = "identifier" \/ term.near \cap CatalogSurface = {}
            /\ search[s].coverage = "grounded" =>
                    \A term \in absent : term.kind # "identifier"
=============================================================================
