---------------------------- MODULE MCDefectCheck ----------------------------
EXTENDS DefectCheck

NothingSeen == [scope |-> "none", mark |-> FALSE, field |-> "none", quality |-> "none"]
See(scope, mark, field, quality) ==
  [scope |-> scope, mark |-> mark, field |-> field, quality |-> quality]

Petition == <<{"Main"}, {"Main"}, {"Affidavit"}, {"P1"}>>
Exhibits == <<{"Main"}, {"P1"}, {"P1"}, {"P2"}>>
Short == <<{"Main"}, {"Memo", "Vakalatnama"}, {"Vakalatnama"}>>

Paper(labels, size) ==
  [labels |-> labels, size |-> size, layout |-> TRUE, indexed |-> TRUE,
   visual |-> NothingSeen, memo |-> {}, narrow |-> {}, measured |-> FALSE,
   endorsed |-> {}, trigger |-> FALSE]

Check(parts, strategy, rule) ==
  [required |-> parts, look |-> parts, context |-> {}, strategy |-> strategy,
   each |-> FALSE, ending |-> FALSE, anchors |-> {}, owner |-> FALSE, types |-> 1,
   rule |-> rule]

Book == Paper(Petition, <<1, 2, 1, 1>>)
Main == <<"Main">>
Vakalatnama == <<"Vakalatnama">>
Whole == Check(Main, "exhaustive_part", "plain")
One(filing, check) == [filing |-> filing, checks |-> <<check>>]

MCCases == {
  \* every page of a part, one of them in two pieces
  One(Book, Whole),
  \* one without text; none labelled; no layout; no index
  One([Book EXCEPT !.size = <<1, 0, 1, 1>>], Whole),
  One([Book EXCEPT !.labels[4] = {}], Check(<<"Affidavit", "Main">>, "semantic", "plain")),
  One([Book EXCEPT !.layout = FALSE], Whole),
  One([Book EXCEPT !.indexed = FALSE], Whole),
  \* more than one prompt has room for
  One([Book EXCEPT !.size = <<2, 2, 1, 1>>], Whole),
  \* the ends of two parts, from the signature
  One([Book EXCEPT !.visual = See("ok", FALSE, "none", "none")],
      [Check(<<"Main", "Affidavit">>, "boundary_and_neighbors", "mark")
         EXCEPT !.ending = TRUE, !.anchors = {1}]),
  One([Book EXCEPT !.visual = See("partial", FALSE, "none", "none")],
      Check(<<"Affidavit">>, "boundary_and_neighbors", "mark")),
  \* one clause of a part, read with another part
  One(Book, [Check(Main, "semantic", "contradiction") EXCEPT !.context = {"Affidavit"}]),
  \* each annexure
  One(Paper(Exhibits, <<1, 1, 1, 2>>),
      [Check(<<"Annexures">>, "boundary_and_neighbors", "plain") EXCEPT !.each = TRUE]),
  \* a combined page, and the endorsement of a Vakalatnama
  One([Paper(Short, <<1, 1, 2>>) EXCEPT !.endorsed = {<<3, 2>>},
                                        !.visual = See("ok", FALSE, "none", "none")],
      [Check(<<"Memo", "Vakalatnama">>, "boundary_and_neighbors", "endorsement")
         EXCEPT !.ending = TRUE, !.anchors = {2}]),
  \* rules that decide without the model
  One([Book EXCEPT !.visual = See("ok", FALSE, "none", "none")],
      Check(<<"Affidavit">>, "boundary_and_neighbors", "date")),
  One([Book EXCEPT !.visual = See("partial", FALSE, "present", "none")],
      Check(<<"Affidavit">>, "boundary_and_neighbors", "date")),
  One([Book EXCEPT !.visual = See("ok", FALSE, "none", "readable")],
      Check(Main, "semantic", "legibility")),
  One(Book, Check(Main, "semantic", "legibility")),
  One([Book EXCEPT !.narrow = {2}], Check(Main, "semantic", "margin")),
  One([Book EXCEPT !.measured = TRUE], Check(Main, "semantic", "margin")),
  One([Book EXCEPT !.memo = {1}], Check(Main, "semantic", "presence")),
  One(Book, Check(Main, "semantic", "condition")),
  \* missing documents with several rows, next to a check that runs
  [filing |-> Book,
   checks |-> <<[Check(<<"Index", "Vakalatnama">>, "semantic", "plain") EXCEPT !.owner = TRUE],
                [Check(Vakalatnama, "semantic", "plain") EXCEPT !.owner = TRUE],
                Check(Vakalatnama, "boundary_and_neighbors", "mark"),
                Check(<<"Affidavit">>, "boundary_and_neighbors", "plain")>>]}
=============================================================================
