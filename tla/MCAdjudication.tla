---------------------------- MODULE MCAdjudication ----------------------------
EXTENDS Adjudication

N == 3
MCStamps == <<"P1", "P2">>
Seg(first, last, owner, protected) ==
  [range |-> first..last, owner |-> owner, protected |-> protected]

\* One agreed range, two of them with one owner or two, a doubtful exhibit,
\* pages that no range has, and two agreed ranges that share a page.
MCBundles == {
  <<Seg(1, N, "Index", TRUE)>>,
  <<Seg(1, 1, "Cover", TRUE), Seg(2, N, "Cover", TRUE)>>,
  <<Seg(1, 1, "Cover", TRUE), Seg(2, N, "Main", TRUE)>>,
  <<Seg(1, 2, "Annexures", FALSE), Seg(3, N, "App2", TRUE)>>,
  <<Seg(1, 1, "Order", FALSE), Seg(3, N, "Undefined", FALSE)>>,
  <<Seg(1, 1, "Annexures", FALSE), Seg(3, N, "Main", TRUE)>>,
  <<Seg(1, 2, "Index", TRUE), Seg(2, N, "Order", TRUE)>> }

Says(a, b, c) == <<a, b, c>>
Fact(cue, anchor, continues, table) ==
  [cue |-> cue, anchor |-> anchor, continues |-> continues, table |-> table]

\* No opening; an application with its outer heading; two consecutive stamps, of
\* which the first is on an Index of its own; a cover, an Index and an Index that
\* goes on.
MCFacts == {
  Fact(Says("none", "none", "none"), Says("none", "none", "none"), {3}, {2}),
  Fact(Says("none", "app", "none"), Says("none", "App1", "none"), {3}, {}),
  Fact(Says("P1", "none", "P2"), Says("Index", "none", "none"), {}, {1}),
  Fact(Says("Cover", "Index", "none"), Says("Cover", "Index", "none"), {}, {2, 3}) }

\* One rule of each kind that follows the main reconciliation.
MCPostStages == <<[policy |-> "opening", index |-> TRUE],
                  [policy |-> "lower_court", index |-> FALSE]>>
==============================================================================
