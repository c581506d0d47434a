---------------------------- MODULE MCSynthesis ----------------------------
(***************************************************************************)
(* An answer of record over three desks, for TLC.                          *)
(***************************************************************************)
EXTENDS Synthesis, TLC

CONSTANTS a, b, c

Fact(value, unit, about) == [value |-> value, unit |-> unit, about |-> about, denied |-> FALSE]
Source(id, p, facts, works) ==
    [id |-> id, product |-> p, facts |-> facts, works_with |-> works, uri |-> id, rating |-> 50]

\* a and b are desks of two makers, a rated a star above b; c repeats b, ranked lower.
McListing ==
    (a :> [category |-> "desk", line |-> "A", stars |-> 45, rank |-> 2, cents |-> 200,
           stock |-> "in_stock", namesakes |-> {},
           sources |-> <<Source("a1", a, {Fact(90, "watt", "")}, {"laptop"})>>]) @@
    (b :> [category |-> "desk", line |-> "B", stars |-> 35, rank |-> 1, cents |-> 300,
           stock |-> "low_stock", namesakes |-> {},
           sources |-> <<Source("b1", b, {Fact(100, "watt", "")}, {})>>]) @@
    (c :> [category |-> "desk", line |-> "B", stars |-> 35, rank |-> 3, cents |-> 300,
           stock |-> "in_stock", namesakes |-> {b}, sources |-> << >>])

McQuestions == {[names |-> {}, figures |-> {[value |-> 100, unit |-> "watt"]}],
                [names |-> {b}, figures |-> {}]}

Claim(kind, value, unit, about, frame) ==
    [kind |-> kind, value |-> value, unit |-> unit, about |-> about, frame |-> frame]

Segment(p, claims) == [names |-> p, claims |-> claims]
Sentence(cites, segments) ==
    [cites |-> cites, segments |-> segments, bare |-> FALSE]

McBody == {
    Sentence(<<1>>, <<Segment(a, {Claim("figure", 90, "watt", "", "provides"),
                                  Claim("figure", 100, "watt", "", "short")})>>),
    Sentence(<<1>>, <<Segment(a, {Claim("works", 0, "", "laptop", "")})>>),
    Sentence(<<2>>, <<Segment(b, {Claim("stock", 0, "", "in_stock", "denies")})>>),
    Sentence(<<1>>, <<Segment(b, {Claim("price", 400, "", "", "ceiling")})>>),
    Sentence(<<1, 2>>, <<Segment(NoListing, {Claim("link", 0, "", "b1", "")})>>),
    Sentence(<< >>, <<Segment(NoListing, {Claim("figure", 100, "watt", "", "provides")})>>),
    Sentence(<<2>>, <<Segment(b, {Claim("price", 400, "", "", "ceiling")})>>)}

McAlternatives == {[Sentence(<< >>, <<Segment(a, {})>>) EXCEPT !.bare = TRUE],
                   Sentence(<<1>>, <<Segment(a, {})>>)}

McPassages == McBody \cup McAlternatives

UpTo(n, S) == UNION {[1..m -> S] : m \in 0..n}

McDrafts == {d \in [opening : UpTo(2, McBody), others : UpTo(1, McAlternatives),
                    closing : UpTo(1, McBody)] :
                d.closing # << >> => d.others # << >> /\ Len(d.opening) = 1}
=============================================================================
