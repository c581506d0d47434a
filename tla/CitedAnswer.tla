---------------------------- MODULE CitedAnswer ----------------------------
(***************************************************************************)
(* What the application checks in a drafted answer before it can become    *)
(* the answer of record (service/synthesis.py): which products its cards   *)
(* may show and in which order, and, sentence by sentence, whether every   *)
(* claim about a product rests on a record of that product.                *)
(*                                                                         *)
(* A draft is the sentences before its section "Other strong options",     *)
(* those of the section (none, when it has no such section) and those      *)
(* after it.  A sentence carries the evidence numbers it cites, in order,  *)
(* whether it is nothing but product names, and its segments: the pieces   *)
(* of it that speak of one product mention each (NoListing: of none), with *)
(* the claims they make.                                                   *)
(*                                                                         *)
(* A claim is [kind, value, unit, about, frame]:                           *)
(*   price    value in cents, frame "exact", "ceiling" or "floor"          *)
(*   stock    about a stock phrase, frame "asserts" or "denies"            *)
(*   figure   value and unit, about the property it measures ("" when the  *)
(*            words name none), frame the words it stands in               *)
(*   stars    a reviewer's rating, value in tenths                         *)
(*   works    compatible with the device "about"                           *)
(*   link     to the address "about"                                       *)
(***************************************************************************)
EXTENDS Integers, SequencesExt, Arrangements

CONSTANTS
    Listings,     \* the products a turn may select
    NoListing,    \* a segment that names no product
    Listing       \* Listing[p]: what the catalog records of p

ASSUME NoListingIsNone == NoListing \notin Listings
ASSUME ListingCovers == Listings \subseteq DOMAIN Listing /\ IsFiniteSet(Listings)

\* What no search ranked is ranked after all the rest.
ASSUME RanksCompare == \A p \in Listings : Listing[p].rank \in Nat

Unknown == -1     \* a rating or a price the catalog does not record

LeadStarGap == 10 \* one star, in tenths

Claims == [kind : {"price", "stock", "figure", "stars", "works", "link"}, value : Int,
           unit : STRING, about : STRING, frame : STRING]

Segments == [names : Listings \cup {NoListing}, claims : SUBSET Claims]

-----------------------------------------------------------------------------
(* The selection.                                                          *)

\* The picks that are kept, in the order they have.
InOrder(selection, kept) ==
    LET before(p, q) == RankIn(selection, p) < RankIn(selection, q)
    IN  Arrangement(Range(selection) \cap kept, before)

\* The listings of one product line: one kind, with the brand and model recorded.
SameLine(p, q) ==
    /\ Listing[p].line # "" /\ Listing[q].line # ""
    /\ Listing[p].category # "" /\ Listing[p].category = Listing[q].category
    /\ Listing[p].line = Listing[q].line

RepresentsBeside(selection, i) ==
    \A j \in DOMAIN selection \cap {i - 1, i + 1} :
        SameLine(selection[i], selection[j]) =>
            Listing[selection[i]].rank < Listing[selection[j]].rank
\* Of a line's picks the one its search ranked first stays (the earliest of equals).
Represents(selection, i) ==
    \A j \in DOMAIN selection \ {i} :
        SameLine(selection[i], selection[j]) =>
            \/ Listing[selection[i]].rank < Listing[selection[j]].rank
            \/ (Listing[selection[i]].rank = Listing[selection[j]].rank /\ i < j)

WithoutRepeats(selection) ==
    InOrder(selection, {selection[i] : i \in {j \in DOMAIN selection :
                                                 Represents(selection, j)}})

\* The picks that may take the first place from the agent's own first pick.
BetterRated(selection, named) ==
    IF selection = << >> THEN {}
    ELSE LET lead == selection[1] IN
         {i \in 2..Len(selection) :
            /\ Listing[lead].stars # Unknown
            /\ Listing[lead].category # ""
            /\ lead \notin named
            /\ Listing[selection[i]].category = Listing[lead].category
            /\ Listing[selection[i]].stars # Unknown
            /\ Listing[selection[i]].stars - Listing[lead].stars >= LeadStarGap}

Least(S) == CHOOSE i \in S : \A j \in S : i <= j

LeadWithBetterRated(selection, named) ==
    LET better == BetterRated(selection, named) IN
    IF better = {} THEN selection
    ELSE LET first == selection[Least(better)]
         IN  <<first>> \o InOrder(selection, Range(selection) \ {first})

\* Evidence is numbered in the order of the selection.
EvidenceFor(selection) ==
    FlattenSeq([i \in DOMAIN selection |-> Listing[selection[i]].sources])

-----------------------------------------------------------------------------
(* Reading a draft.                                                        *)

Cited(sentence) == Range(sentence.cites)

CitedIn(answer) == UNION {Cited(answer[i]) : i \in DOMAIN answer}

\* The listings a name can mean: those that share it.
Namesakes(p, selection) ==
    IF p = NoListing THEN {}
    ELSE {p} \cup {q \in Range(selection) : q \in Listing[p].namesakes}

Mentioned(sentence) ==
    {sentence.segments[k].names : k \in DOMAIN sentence.segments} \ {NoListing}

SubjectsOf(names, selection) == UNION {Namesakes(p, selection) : p \in names}

\* The products the last sentence before i that names any, names.
Carried(answer, i) ==
    LET naming == {j \in 1..(i - 1) : Mentioned(answer[j]) # {}} IN
    IF naming = {} THEN {}
    ELSE Mentioned(answer[CHOOSE j \in naming : \A k \in naming : k <= j])

SegmentSubjects(answer, i, k, selection) ==
    LET own == {answer[i].segments[k].names} \ {NoListing}
    IN  SubjectsOf(IF own # {} THEN own
                   ELSE IF Mentioned(answer[i]) # {} THEN Mentioned(answer[i])
                   ELSE Carried(answer, i), selection)

\* Where a product first appears: its first mention, or else its first citation (a
\* sentence's citations stand at its end).
Mentions(answer, p) ==
    UNION {{<<i, k>> : k \in {j \in DOMAIN answer[i].segments :
                                 answer[i].segments[j].names = p}} : i \in DOMAIN answer}

Citings(answer, p, evidence) ==
    UNION {{<<i, k>> : k \in {j \in DOMAIN answer[i].cites :
                                 evidence[answer[i].cites[j]].product = p}} : i \in DOMAIN answer}

Earlier(a, b) == a[1] < b[1] \/ (a[1] = b[1] /\ a[2] < b[2])

Place(answer, p, evidence) ==
    LET spots == IF Mentions(answer, p) # {} THEN Mentions(answer, p)
                 ELSE Citings(answer, p, evidence)
    IN  IF spots = {} THEN <<Len(answer) + 1, 0>>
        ELSE LET spot == CHOOSE s \in spots : \A t \in spots : ~Earlier(t, s)
             IN  IF Mentions(answer, p) # {} THEN spot
                 ELSE <<spot[1], Len(answer[spot[1]].segments) + spot[2]>>

\* The cards follow the answer; products it places alike keep their order.
InAnswerOrder(answer, selection, evidence) ==
    LET before(p, q) ==
            \/ Earlier(Place(answer, p, evidence), Place(answer, q, evidence))
            \/ /\ Place(answer, p, evidence) = Place(answer, q, evidence)
               /\ RankIn(selection, p) < RankIn(selection, q)
    IN  Arrangement(Range(selection), before)

Sentences(draft) == draft.opening \o draft.others \o draft.closing

\* The section goes unless it cites something.
WithoutEmptyAlternatives(draft) ==
    IF \E i \in DOMAIN draft.others : draft.others[i].cites # << >> THEN draft
    ELSE [draft EXCEPT !.others = << >>]
-----------------------------------------------------------------------------
(* What supports a claim.                                                  *)

StockStates == [in_stock |-> {"in_stock"}, low_stock |-> {"low_stock"},
                out_of_stock |-> {"out_of_stock", "discontinued"}, preorder |-> {"preorder"}]

\* Low stock is still stock, so it refutes "not in stock".
RefutesDenial(phrase) ==
    StockStates[phrase] \cup (IF phrase = "in_stock" THEN {"low_stock"} ELSE {})

PriceSettled(claim, products) ==
    LET prices == {Listing[p].cents : p \in products} IN
    /\ prices # {} /\ Unknown \notin prices
    /\ \/ claim.value \in prices
       \/ (claim.frame = "ceiling" /\ \A c \in prices : c <= claim.value)
       \/ (claim.frame = "floor" /\ \A c \in prices : c >= claim.value)

StockSettled(claim, products) ==
    LET states == {Listing[p].stock : p \in products} IN
    /\ states # {}
    /\ IF claim.frame = "denies" THEN states \cap RefutesDenial(claim.about) = {}
       ELSE states \cap StockStates[claim.about] # {}

\* A measurement the source itself denies supports nothing.
FigureStated(claim, records) ==
    \E r \in records : \E f \in r.facts :
        /\ f.value = claim.value
        /\ claim.unit # "" => f.unit = claim.unit /\ ~f.denied
        /\ claim.unit # "" /\ claim.about # "" => f.about = claim.about

Supported(claim, products, records) ==
    CASE claim.kind = "price"  -> PriceSettled(claim, products)
      [] claim.kind = "stock"  -> StockSettled(claim, products)
      [] claim.kind = "figure" -> FigureStated(claim, records)
      [] OTHER                 -> FALSE

\* The shopper's own requirement, unless the words make it the product's value.
RequirementBound(claim, segment, asked, products, records) ==
    LET stated == {c.value : c \in {o \in segment.claims :
                      /\ o.kind = "figure" /\ o.unit = claim.unit
                      /\ o.value # claim.value
                      /\ Supported(o, products, records)}}
    IN  /\ claim.kind = "figure" /\ claim.unit # ""
        /\ [value |-> claim.value, unit |-> claim.unit] \in asked
        /\ \/ claim.frame = "exceeds" /\ stated # {} /\ \A v \in stated : v >= claim.value
           \/ claim.frame = "short" /\ \A v \in stated : v < claim.value
           \/ claim.frame \in {"denies", "cue"}

ReviewStars(claim, records) ==
    claim.kind = "stars" /\ \E r \in records : r.rating = claim.value

-----------------------------------------------------------------------------
(* The checks a draft has to pass.                                         *)

\* Every number names a supplied record, and every selected product is cited.
CitesEverySelected(answer, selection, evidence) ==
    /\ CitedIn(answer) # {}
    /\ CitedIn(answer) \subseteq DOMAIN evidence
    /\ Range(selection) \subseteq {evidence[n].product : n \in CitedIn(answer)}

\* A sentence that says something of a product cites that product's evidence.
NamesAreCited(answer, selection, evidence) ==
    \A i \in DOMAIN answer : ~answer[i].bare =>
        \A k \in DOMAIN answer[i].segments :
            LET named == Namesakes(answer[i].segments[k].names, selection) IN
            named # {} => \E n \in Cited(answer[i]) : evidence[n].product \in named

\* A sentence without a marker leans on the records cited elsewhere in the answer,
\* and is held to its prices, units and stock only.
ClaimHolds(answer, i, k, claim, selection, evidence, asked) ==
    LET subjects == SegmentSubjects(answer, i, k, selection)
        numbers == IF answer[i].cites # << >> THEN Cited(answer[i]) ELSE CitedIn(answer)
        records == {r \in {evidence[n] : n \in numbers} :
                       subjects = {} \/ r.product \in subjects}
        products == IF subjects # {} THEN subjects ELSE {r.product : r \in records}
    IN  \/ (answer[i].cites = << >> /\ claim.kind \in {"figure", "stars"} /\ claim.unit = "")
        \/ Supported(claim, products, records)
        \/ RequirementBound(claim, answer[i].segments[k], asked, products, records)
        \/ ReviewStars(claim, records)

FiguresHold(answer, selection, evidence, asked) ==
    \A i \in DOMAIN answer : \A k \in DOMAIN answer[i].segments :
        \A claim \in answer[i].segments[k].claims :
            claim.kind \in {"price", "stock", "figure", "stars"} =>
                ClaimHolds(answer, i, k, claim, selection, evidence, asked)

\* Compatibility is claimed of the product named last before it, else of the first
\* the sentence names, else of those carried over, else of every one selected.
Claimed(answer, i, k, selection) ==
    LET naming == {j \in DOMAIN answer[i].segments :
                      answer[i].segments[j].names # NoListing}
        before == {j \in naming : j <= k}
        name(j) == {answer[i].segments[j].names}
    IN  IF before # {} THEN name(CHOOSE j \in before : \A l \in before : l <= j)
        ELSE IF naming # {} THEN name(Least(naming))
        ELSE IF Carried(answer, i) # {} THEN Carried(answer, i)
        ELSE Range(selection)

\* It is read from a cited passage of each product it is claimed of.
CompatibilityStated(answer, selection, evidence) ==
    \A i \in DOMAIN answer : \A k \in DOMAIN answer[i].segments :
        \A claim \in answer[i].segments[k].claims : claim.kind = "works" =>
            \A p \in Claimed(answer, i, k, selection) : \E n \in Cited(answer[i]) :
                evidence[n].product = p /\ claim.about \in evidence[n].works_with

\* The only links are the source addresses of cited records.
LinksAreSources(answer, evidence) ==
    \A i \in DOMAIN answer : \A k \in DOMAIN answer[i].segments :
        \A claim \in answer[i].segments[k].claims : claim.kind = "link" =>
            \E n \in CitedIn(answer) : evidence[n].uri = claim.about

\* The answer does not lead with a pick the lead rule would not put first.
LeadsFairly(answer, selection, evidence, named) ==
    BetterRated(InAnswerOrder(answer, selection, evidence), named) = {}

ValidatedUncited(answer, selection, evidence, question) ==
    /\ CitedIn(answer) # {} /\ CitedIn(answer) \subseteq DOMAIN evidence
    /\ NamesAreCited(answer, selection, evidence)
    /\ FiguresHold(answer, selection, evidence, question.figures)
    /\ CompatibilityStated(answer, selection, evidence)
    /\ LinksAreSources(answer, evidence)
    /\ LeadsFairly(answer, selection, evidence, question.names)
Validated(answer, selection, evidence, question) ==
    /\ CitesEverySelected(answer, selection, evidence)
    /\ NamesAreCited(answer, selection, evidence)
    /\ FiguresHold(answer, selection, evidence, question.figures)
    /\ CompatibilityStated(answer, selection, evidence)
    /\ LinksAreSources(answer, evidence)
    /\ LeadsFairly(answer, selection, evidence, question.names)
=============================================================================
