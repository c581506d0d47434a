----------------------------- MODULE Synthesis -----------------------------
(***************************************************************************)
(* Writing the answer of record (service/synthesis.py,                     *)
(* synthesize_cited_answer): a model reviews whether the sources answer    *)
(* the request (service/answerability.py, at most two calls), a model      *)
(* writes a draft, the application checks it (CitedAnswer), a model        *)
(* reviews every passage of it (service/claim_review.py), and one          *)
(* replacement draft may follow.  The caller is the model's tool call or   *)
(* the controller's fallback (service/agent_tools.py), which narrows the   *)
(* selection once to the products the review supports.                     *)
(*                                                                         *)
(* What a model replies is any value of the shape its schema admits; that  *)
(* a reply is malformed is a flag of it.                                   *)
(***************************************************************************)
EXTENDS CitedAnswer

CONSTANTS
    Questions,    \* [names, figures]: the products named, the measurements asked for
    Passages,     \* the sentences the writing model may write
    Drafts,       \* the texts it may return
    Forced        \* the model accepts a forced tool choice

Texts == [opening : Seq(Passages), others : Seq(Passages), closing : Seq(Passages)]

ASSUME SynthesisAssumption ==
    /\ Forced \in BOOLEAN /\ Drafts \subseteq Texts
    /\ \A passage \in Passages :
        passage.cites \in Seq(Nat) /\ passage.segments \in Seq(Segments)

VARIABLES
    caller,       \* "tool" or "fallback"
    question,
    selection,    \* the products to recommend, as the evidence is numbered
    stage,
    reviews,      \* calls of the answerability review for this selection
    narrowed,     \* the fallback has narrowed the selection
    drafts,       \* drafts written
    draft,        \* the draft under claim review, as that review reads it
    supported,    \* the products the accepted review supports
    receipt,      \* the accepted claim review: the text and the decisions on it
    answer,       \* what is delivered
    citations,    \* the evidence numbers delivered with it
    cards         \* the recommendations, in the order shown

synthesisVars == <<caller, question, selection, stage, reviews, narrowed, drafts, draft,
                   supported, receipt, answer, citations, cards>>

Ended == {"delivered", "declined", "partly", "failed"}

Stages == {"picking", "reviewing", "drafting", "claims"} \cup Ended

NoQuestion == [names |-> {}, figures |-> {}]

NoText == [opening |-> << >>, others |-> << >>, closing |-> << >>]

NoReceipt == [text |-> NoText, decisions |-> << >>]

SynthesisInit ==
    /\ caller = "tool" /\ question = NoQuestion /\ selection = << >>
    /\ stage = "picking" /\ reviews = 0 /\ narrowed = FALSE /\ drafts = 0
    /\ draft = NoText /\ supported = {} /\ receipt = NoReceipt
    /\ answer = NoText /\ citations = {} /\ cards = << >>

Selected == Range(selection)

Evidence == EvidenceFor(selection)

EvidenceIds(p) == {Evidence[n].id : n \in {m \in DOMAIN Evidence : Evidence[m].product = p}}

\* The caller leaves out repeated listings, lets a better-rated pick lead and hands
\* the evidence over; a product without evidence is refused before any model call.
Pick(who, picks, asked) ==
    /\ stage = "picking"
    /\ caller' = who /\ question' = asked
    /\ selection' = LeadWithBetterRated(WithoutRepeats(picks), asked.names)
    /\ stage' = IF \E i \in DOMAIN selection' : Listing[selection'[i]].sources = << >>
                THEN "failed" ELSE "reviewing"
    /\ UNCHANGED <<reviews, narrowed, drafts, draft, supported, receipt, answer,
                   citations, cards>>

-----------------------------------------------------------------------------
(* The answerability review.  Its decision is [granted, reason, verdicts,  *)
(* repeats]: verdicts maps each product judged to [supported, cites], and  *)
(* repeats tells that one is judged twice.                                 *)

Unreviewed == <<caller, question, drafts, draft, receipt, answer, citations, cards>>

ReviewScoped(review) ==
    /\ ~review.repeats /\ DOMAIN review.verdicts = Selected
    /\ \A p \in Selected :
        /\ review.verdicts[p].supported => review.verdicts[p].cites # {}
        /\ review.verdicts[p].cites \subseteq EvidenceIds(p)

SupportedBy(review) == {p \in DOMAIN review.verdicts : review.verdicts[p].supported}

PartlySupported(review) ==
    /\ \/ review.granted /\ review.reason = "supported"
       \/ ~review.granted /\ review.reason \in {"insufficient_evidence",
                                                "unsupported_requirements"}
    /\ SupportedBy(review) # {} /\ SupportedBy(review) # Selected

ConsistentByReason(review) == (review.reason = "supported") = review.granted
Consistent(review) ==
    /\ (review.reason = "supported") = (review.granted /\ SupportedBy(review) = Selected)
    /\ review.granted => SupportedBy(review) = Selected

\* A text instead of the call is asked again once, unless the choice was forced.
ReviewInterrupted(stop) ==
    /\ stage = "reviewing" /\ stop # "tool_use"
    /\ reviews' = reviews + 1
    /\ stage' = IF ~Forced /\ reviews = 0 /\ stop = "end_turn" THEN stage ELSE "failed"
    /\ UNCHANGED <<Unreviewed, selection, narrowed, supported>>

\* A decision of the wrong form is asked again once; any number of calls but one
\* fails at once.
ReviewMalformed(call) ==
    /\ stage = "reviewing"
    /\ reviews' = reviews + 1
    /\ stage' = IF call = "malformed" /\ reviews = 0 THEN stage ELSE "failed"
    /\ UNCHANGED <<Unreviewed, selection, narrowed, supported>>

ReviewOutOfScope(review) ==
    /\ stage = "reviewing" /\ ~ReviewScoped(review)
    /\ reviews' = reviews + 1
    /\ stage' = "failed"
    /\ UNCHANGED <<Unreviewed, selection, narrowed, supported>>

\* The tool hands the verdict back to the model; the fallback narrows once and has
\* the narrowed selection, whose evidence is numbered anew, reviewed in full.
ReviewNarrows(review) ==
    /\ stage = "reviewing" /\ ReviewScoped(review) /\ PartlySupported(review)
    /\ IF caller = "fallback" /\ ~narrowed
       THEN /\ selection' = InOrder(selection, SupportedBy(review))
            /\ narrowed' = TRUE /\ reviews' = 0
            /\ UNCHANGED stage
       ELSE /\ stage' = IF caller = "tool" THEN "partly" ELSE "failed"
            /\ reviews' = reviews + 1
            /\ UNCHANGED <<selection, narrowed>>
    /\ UNCHANGED <<Unreviewed, supported>>

ReviewContradicts(review) ==
    /\ stage = "reviewing" /\ ReviewScoped(review)
    /\ ~PartlySupported(review) /\ ~Consistent(review)
    /\ reviews' = reviews + 1
    /\ stage' = IF reviews = 0 THEN stage ELSE "failed"
    /\ UNCHANGED <<Unreviewed, selection, narrowed, supported>>

ReviewSettles(review) ==
    /\ stage = "reviewing" /\ ReviewScoped(review)
    /\ ~PartlySupported(review) /\ Consistent(review)
    /\ reviews' = reviews + 1
    /\ supported' = SupportedBy(review)
    /\ stage' = IF review.granted THEN "drafting" ELSE "declined"
    /\ UNCHANGED <<Unreviewed, selection, narrowed>>

-----------------------------------------------------------------------------
(* Drafts and their claim review.                                          *)

Reviewed == <<caller, question, selection, reviews, narrowed, supported>>

\* A draft that breaks a rule is replaced once; the replacement is final.
RejectedAgain == stage' = "drafting"
Rejected == stage' = IF drafts' = 1 THEN "drafting" ELSE "failed"

DraftAcceptedWhole(text) ==
    /\ stage = "drafting" /\ Validated(Sentences(text), selection, Evidence, question)
    /\ drafts' = drafts + 1
    /\ draft' = text
    /\ citations' = CitedIn(Sentences(text))
    /\ stage' = "claims"
    /\ UNCHANGED <<Reviewed, receipt, answer, cards>>
DraftAccepted(text) ==
    /\ stage = "drafting" /\ Validated(Sentences(text), selection, Evidence, question)
    /\ drafts' = drafts + 1
    /\ draft' = WithoutEmptyAlternatives(text)
    /\ citations' = CitedIn(Sentences(text))
    /\ stage' = "claims"
    /\ UNCHANGED <<Reviewed, receipt, answer, cards>>

DraftRejected(text) ==
    /\ stage = "drafting" /\ ~Validated(Sentences(text), selection, Evidence, question)
    /\ drafts' = drafts + 1 /\ Rejected
    /\ UNCHANGED <<Reviewed, draft, receipt, answer, citations, cards>>

\* Cut off by the token limit it is replaced as well; stopped otherwise it is not.
DraftCut(stop) ==
    /\ stage = "drafting" /\ stop # "end_turn"
    /\ drafts' = drafts + 1
    /\ IF stop = "max_tokens" THEN Rejected ELSE stage' = "failed"
    /\ UNCHANGED <<Reviewed, draft, receipt, answer, citations, cards>>

\* One decision [verdict, quotes] per passage; a quote is [number, exact].
ClaimsHold(decisions, text, evidence) ==
    \A i \in DOMAIN text :
        LET decision == decisions[i] IN
        /\ decision.verdict # "unsupported"
        /\ decision.verdict = "non_claim" => decision.quotes = {} /\ Cited(text[i]) = {}
        /\ decision.verdict = "supported" =>
            /\ decision.quotes # {}
            /\ \A quote \in decision.quotes :
                /\ quote.number \in Cited(text[i]) /\ quote.number \in DOMAIN evidence
                /\ quote.exact

ClaimsAccepted(decisions) ==
    /\ stage = "claims" /\ ClaimsHold(decisions, Sentences(draft), Evidence)
    /\ receipt' = [text |-> draft, decisions |-> decisions]
    /\ answer' = WithoutEmptyAlternatives(draft)
    /\ cards' = InAnswerOrder(Sentences(answer'), selection, Evidence)
    /\ stage' = "delivered"
    /\ UNCHANGED <<Reviewed, drafts, draft, citations>>

\* A refused passage, or a review that is malformed or leaves a passage out.
ClaimsRejected(decisions, complete) ==
    /\ stage = "claims" /\ ~(complete /\ ClaimsHold(decisions, Sentences(draft), Evidence))
    /\ stage' = IF drafts = 1 THEN "drafting" ELSE "failed"
    /\ UNCHANGED <<Reviewed, drafts, draft, receipt, answer, citations, cards>>

\* The turn was cancelled, or the model service failed: nothing is delivered.
CallFails ==
    /\ stage \in {"reviewing", "drafting", "claims"}
    /\ stage' = "failed"
    /\ UNCHANGED <<Reviewed, drafts, draft, receipt, answer, citations, cards>>
-----------------------------------------------------------------------------
(* What the models may reply, bounded.                                     *)

Stops == {"tool_use", "end_turn", "max_tokens", "guardrail_intervened"}

Reasons == {"supported", "unrelated_request", "unsupported_requirements",
            "insufficient_evidence"}

AllIds == UNION {{Listing[p].sources[n].id : n \in DOMAIN Listing[p].sources} : p \in Listings}

AtMostOne(S) == {{}} \cup {{e} : e \in S}

Verdicts == [supported : BOOLEAN, cites : AtMostOne(AllIds)]

ReviewsOver(products) ==
    [granted : BOOLEAN, reason : Reasons, repeats : BOOLEAN, verdicts : [products -> Verdicts]]

Quotes == AtMostOne([number : 1..(Len(Evidence) + 1), exact : BOOLEAN])

\* The quotes of a refused passage make no difference.
Decisions ==
    [verdict : {"supported", "non_claim"}, quotes : Quotes]
        \cup {[verdict |-> "unsupported", quotes |-> {}]}

Picks == {picks \in UNION {[1..n -> Listings] : n \in 1..Cardinality(Listings)} :
             IsInjective(picks)}

SynthesisNext ==
    \/ \E who \in {"tool", "fallback"}, picks \in Picks, asked \in Questions :
            Pick(who, picks, asked)
    \/ \E stop \in Stops : ReviewInterrupted(stop) \/ DraftCut(stop)
    \/ \E call \in {"malformed", "none", "several"} : ReviewMalformed(call)
    \/ stage = "reviewing" /\ \E products \in SUBSET Listings \ {{}} :
            \E review \in ReviewsOver(products) :
                \/ ReviewOutOfScope(review)
                \/ ReviewNarrows(review)
                \/ ReviewContradicts(review)
                \/ ReviewSettles(review)
    \/ \E text \in Drafts : DraftAccepted(text) \/ DraftRejected(text)
    \/ stage = "claims" /\ \E decisions \in [DOMAIN Sentences(draft) -> Decisions] :
            \/ ClaimsAccepted(decisions)
            \/ \E complete \in BOOLEAN : ClaimsRejected(decisions, complete)
    \/ CallFails

SynthesisSpec == SynthesisInit /\ [][SynthesisNext]_synthesisVars

-----------------------------------------------------------------------------
(* What holds of an answer of record.                                      *)

SynthesisTypeOK ==
    /\ caller \in {"tool", "fallback"} /\ question \in Questions \cup {NoQuestion}
    /\ selection \in Seq(Listings) /\ IsInjective(selection) /\ stage \in Stages
    /\ reviews \in 0..2 /\ narrowed \in BOOLEAN /\ drafts \in 0..2
    /\ supported \subseteq Listings /\ draft \in Texts /\ answer \in Texts
    /\ citations \subseteq DOMAIN Evidence
    /\ stage = "delivered" =>
        cards \in Seq(Listings) /\ Range(cards) = Selected /\ Len(cards) = Len(selection)

OfDifferentProducts(list) ==
    \A i, j \in DOMAIN list : i # j => ~SameLine(list[i], list[j])

\* Of the listings of one product the agent picked, one is selected and shown, however
\* the selection was reordered, narrowed and ordered after the answer.
OneListingPerProduct ==
    OfDifferentProducts(selection) /\ OfDifferentProducts(cards)

\* Recommendations are made of a selection every product of which the accepted review
\* of exactly that selection supports; before delivery there is nothing to show.
OnlySupportedRecommended ==
    /\ stage \in {"drafting", "claims", "delivered"} => supported = Selected
    /\ stage # "delivered" => answer = NoText /\ cards = << >> /\ receipt = NoReceipt

\* First draft or replacement, whatever is delivered cites supplied evidence only, cites
\* each recommended product, names no product without that product's evidence and links
\* to nothing else.
DeliveredIsCited ==
    stage = "delivered" =>
        /\ CitesEverySelected(Sentences(answer), selection, Evidence)
        /\ NamesAreCited(Sentences(answer), selection, Evidence)
        /\ LinksAreSources(Sentences(answer), Evidence)
        /\ citations = CitedIn(Sentences(answer))

\* The receipt kept with the answer judged the very text delivered (to which only the
\* application's own notes on limits are added), and a passage of it without a citation
\* was judged to claim nothing.
ReceiptJudgesTheAnswer ==
    stage = "delivered" =>
        /\ receipt.text = answer /\ DOMAIN receipt.decisions = DOMAIN Sentences(answer)
        /\ \A i \in DOMAIN Sentences(answer) :
            (receipt.decisions[i].verdict = "non_claim") = (Sentences(answer)[i].cites = << >>)
=============================================================================
