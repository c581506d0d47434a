----------------------------- MODULE MCAnswers -----------------------------
(***************************************************************************)
(* What an answer rests on, for TLC: the synthesis that writes it, the     *)
(* searches it cites, the lab commands that change the functions those     *)
(* searches run, and the catalog bundle they search.  The four share no    *)
(* state: one run checks them, one at a time.                              *)
(***************************************************************************)
EXTENDS MCSynthesis, Retrieval, LabEntry, MCBundle

CONSTANTS v, w

VARIABLE part      \* which of the four is run

\* 1/(60 + rank), exactly, in units of 1/(61 * 62 * 63).
McContribution == (1 :> 62 * 63) @@ (2 :> 61 * 63) @@ (3 :> 61 * 62)

McWeight == [channel \in Channels |-> 1]

\* "sku" is the identity of product 3; "typo" misspells a word and reaches products
\* only through a channel's second predicate.
McQueries == {"sku", "typo"}

Asked(q, eligible, limit, authorized, rerank) ==
    [query |-> q, eligible |-> eligible, limit |-> limit, authorized |-> authorized,
     rerank |-> rerank]

RequestList == <<Asked("sku", 1..3, 2, 2, TRUE), Asked("typo", 1..3, 2, 1, TRUE),
                 Asked("typo", 2..3, 3, 3, FALSE)>>
McRequests == Range(RequestList)

McFts == [sku |-> <<3 :> 2>>, typo |-> <<1 :> 1, (2 :> 1) @@ (3 :> 2)>>]
McFuzzy == [sku |-> <<(3 :> 2) @@ (1 :> 1), 2 :> 1>>, typo |-> <<1 :> 0, (3 :> 3) @@ (2 :> 2)>>]
McNearness == (v :> ((1 :> 3) @@ (2 :> 2) @@ (3 :> 1))) @@
              (w :> ((1 :> 3) @@ (2 :> 1) @@ (3 :> 2)))
McEmbeddings == [q \in McQueries |-> {v, w}]
McIdentities == [sku |-> {3}, typo |-> {}]
McNamed == [sku |-> {3}, typo |-> {2}]
McTerms == [sku |-> {[kind |-> "identifier", lexeme |-> "a2342", near |-> {}]},
            typo |-> {[kind |-> "word", lexeme |-> "cancelng", near |-> {"canceling"}],
                      [kind |-> "word", lexeme |-> "", near |-> {}]}]

\* Searches are interchangeable: of two, the first takes the earlier request of the list.
\* Any two start on an empty vocabulary, which is then seeded, and two on half of one.
SearchesStart ==
    \E i, j \in DOMAIN RequestList :
        /\ search[1].request = RequestList[i] /\ search[2].request = RequestList[j]
        /\ i <= j
        /\ (vocabulary.lexemes = {} <=> vocabulary.surface = {}) \/ <<i, j>> = <<1, 2>>

-----------------------------------------------------------------------------
\* One of the four runs, from each of its initial states, and the others stand still.
NotSearching ==
    /\ search = [s \in Searches |-> NotSubmitted(Asked("sku", 1..3, 2, 2, TRUE))]
    /\ searchEvent = [s \in Searches |-> NoEvent]
    /\ embeddingCache = << >> /\ vocabulary = [lexemes |-> {}, surface |-> {}]

McInit ==
    /\ SynthesisInit /\ LabInit /\ BundleInit
    /\ \/ part \in {"synthesis", "labs", "bundle"} /\ NotSearching
       \/ part = "retrieval" /\ RetrievalInit /\ SearchesStart

McNext ==
    /\ UNCHANGED part
    /\ \/ part = "synthesis" /\ SynthesisNext /\ UNCHANGED <<retrievalVars, labVars, bundleVars>>
       \/ part = "retrieval" /\ RetrievalNext /\ UNCHANGED <<synthesisVars, labVars, bundleVars>>
       \/ part = "labs" /\ LabNext /\ UNCHANGED <<synthesisVars, retrievalVars, bundleVars>>
       \/ part = "bundle" /\ BundleNext /\ UNCHANGED <<synthesisVars, retrievalVars, labVars>>
=============================================================================
