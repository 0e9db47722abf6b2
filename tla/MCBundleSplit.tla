---------------------------- MODULE MCBundleSplit ----------------------------
EXTENDS BundleSplit

N == 3
MCStamps == <<"P1", "P2">>
Good(S) == [pages |-> S, clean |-> TRUE]
Bad(S) == [pages |-> S, clean |-> FALSE]
GoodAnswers(lists) == {[i \in DOMAIN l |-> Good(l[i])] : l \in lists}

\* Every way to cut three pages into ranges, two ways to share a page of two
\* ranges, a gap, an overlap, disorder, and lists that are not ranges.
CutsOf == {<<1..3>>, <<1..1, 2..3>>, <<1..2, 3..3>>, <<1..1, 2..2, 3..3>>}
Shares == {<<1..2, 2..3>>, <<1..1, 1..2, 3..3>>}
Odd == {<<2..3>>, <<1..3, 2..3>>, <<2..3, 1..1>>}
MCBoundaryAnswers ==
  GoodAnswers(CutsOf \cup Shares \cup Odd)
  \cup {<<>>, <<Bad({})>>, <<Bad({1, 3}), Good(2..3)>>, <<Good(1..3), Bad({4})>>}

With(s, c) == [pages |-> s.pages, clean |-> s.clean, cat |-> c]
Cats == {"Cover", "Index", "Annexures", "P2"}
Pairs == {<<"Cover", "Index">>, <<"Annexures", "RoP">>, <<"P2", "Annexures">>}
MCTypeAnswers ==
  {<<>>, <<With(Bad({1, 3}), "Cover"), With(Good(1..3), "RoP")>>,
   <<With(Good(1..1), "Cover"), With(Good(2..2), "Index"),
     With(Good(3..3), "Cover")>>}
  \cup {<<With(Good(s), c)>> : s \in {1..3}, c \in Cats}
  \cup {<<With(Good(w[1]), c[1]), With(Good(w[2]), c[2])>> :
          w \in {<<1..1, 2..3>>, <<1..2, 3..3>>, <<1..2, 2..3>>}, c \in Pairs}

\* No cue, one cue, or the stamps of two consecutive exhibits.
One(p, cue) == [q \in 1..N |-> IF q = p THEN cue ELSE "none"]
MCTexts == {One(1, "none"), One(2, "Index"), One(3, "embedded"),
            One(3, "notice"), [One(2, "P1") EXCEPT ![3] = "P2"]}
==============================================================================
