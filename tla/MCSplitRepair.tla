----------------------------- MODULE MCSplitRepair -----------------------------
EXTENDS SplitRepair

N == 6
MCStamps == [P1 |-> [series |-> "P", number |-> 1], P2 |-> [series |-> "P", number |-> 2],
             P3 |-> [series |-> "P", number |-> 3]]
MCApps == <<"Application 1", "Application 2">>

\* Kinds of sheets.
Sheet(anchor, court, body) ==
  [anchor |-> anchor, court |-> court, stamp |-> None, starts |-> FALSE, body |-> body,
   folio |-> 0, match |-> None, cites |-> {}]
Plain(body) == Sheet(None, None, body)
Court(body) == Sheet(None, "lower", body)
Ours(anchor) == Sheet(anchor, "sci", "prose")
Exhibit(l, body) == [Court(body) EXCEPT !.stamp = l]
Petition28 == Sheet(Main, "sci", "grounds")
Like(s, l) == [s EXCEPT !.match = l]
IA == [Sheet("Application 1", "sci", "plea") EXCEPT !.starts = TRUE]
IndexSheet == Sheet("Index", None, "table")
Citing(s, l, i, j) == [s EXCEPT !.cites = {[label |-> l, first |-> i, last |-> j]}]

\* Sheets with folios from k on, none before page q.
Numbering(sheets, q, k) ==
  [p \in 1..N |-> IF p < q THEN sheets[p] ELSE [sheets[p] EXCEPT !.folio = p - q + k]]

Item(l, i, j) == [label |-> l, first |-> i, last |-> j, printed |-> {}, alone |-> FALSE]

\* What the model may have said: one label up to some page and another after it,
\* or a label for each of the last pages.
Guesses(labels, breaks) ==
  {[p \in 1..N |-> IF p <= k THEN a ELSE b] : a \in labels, b \in labels, k \in breaks}
Named6(names) == [p \in 1..N |-> names[p] \ {None}]

Case(sheets, table, guesses) ==
  [sheets |-> sheets, table |-> table,
   lists |-> {item.label : item \in ToSet(table)} \cap DOMAIN MCStamps,
   back |-> {}, apps |-> <<>>, drawn |-> TRUE, llama |-> guesses]

------------------------------------------------------------------------------
\* No Index: preface, petition, exhibits, and what ends a filing.
NoIndex ==
  {Case(<<a, Petition28, b, c, d, e>>, <<>>,
        Guesses({{}, {Main}, {Main, "Application 2"}, {"P1"}}, {2, 5})) :
     a \in {Sheet("Synopsis", None, "prose"), Ours("Cover Page")},
     b \in {Plain("grounds"), Plain("blank"), Sheet("Affidavit", "sci", "sworn")},
     c \in {Exhibit("P1", "judgment"), Court("prose"), Sheet("Appendix", None, "prose")},
     d \in {Court("prose"), Court("parties")},
     e \in {Sheet("Vakalatnama", "sci", "both"), Ours("Memo of Appearance")}}

\* The model names an exhibit before its stamp; a petition on both sides of the preface.
Stray ==
  {Case(<<a, Petition28, Sheet("Record of Proceedings", None, b),
          Sheet("Appendix", None, "prose"), Exhibit("P1", "prose"), Plain("prose")>>, <<>>,
        Guesses({{}, {"P1"}, {"Record of Proceedings"}}, {3, 5})) :
     a \in {Sheet("Synopsis", None, "prose")}, b \in {"prose", "form"}}
Double ==
  {Case(<<Petition28, Sheet("Synopsis", None, "prose"), Petition28, Plain("grounds"), a, b>>,
        <<>>, Guesses({{}, {Main}, {"Record of Proceedings"}}, {2, 4})) :
     a \in {Ours("Vakalatnama"), Plain("prose")}, b \in {Ours("Memo of Appearance"), Plain("prose")}}

\* The challenged judgment between the List of Dates and the petition.
Challenged ==
  {Case(<<Sheet("List of Dates", None, "rows"), [a EXCEPT !.folio = f],
          [b EXCEPT !.folio = 2 * f], [Petition28 EXCEPT !.folio = 3 * f], c, d>>, <<>>,
        Guesses({{}, {Main}, {Order}, {"List of Dates"}}, {1, 3})) :
     a \in {Court("prose"), Sheet(Order, "lower", "prose")}, f \in {0, 1},
     b \in {Plain("prose"), Plain("blank")},
     c \in {Sheet("Affidavit", "sci", "sworn"), Ours("AOR's Certificate")},
     d \in {Plain("sworn"), Exhibit("P1", "prose")}}

\* An exhibit that reads like the challenged judgment: titled, behind the preface,
\* numbered from 1 on.
Mistaken ==
  {Case(Numbering(<<Sheet("Synopsis", None, "prose"), Petition28, Exhibit("P1", "judgment"),
                    a, b, Ours("Vakalatnama")>>, 3, k), <<>>,
        Guesses({{}, {Main}, {"P1"}}, {2, 5})) :
     a \in {Court("prose"), Sheet("Memo of Parties", "lower", "parties")},
     b \in {Court("prose"), Exhibit("P2", "prose")}, k \in {1, 2}}

\* The petition's first page where the model starts an exhibit.
Started ==
  {Case(Numbering(<<Sheet("Synopsis", None, "prose"), Petition28, Exhibit("P1", "prose"), a,
                    Exhibit("P2", "prose"), Ours("Vakalatnama")>>, 2, k), <<>>,
        {Named6(<<{}, {l}, {"P1"}, {"P1"}, {"P2"}, {}>>) : l \in {Main, "P1"}}) :
     a \in {Court("prose"), Court("table"), IndexSheet}, k \in {0, 2}}

\* An affidavit inside an exhibit, under a heading without a caption.
Attested ==
  {Case(<<Petition28, Exhibit("P1", "prose"), Sheet("Affidavit", None, "prose"), a,
          Court("sworn"), b>>, <<>>,
        Guesses({{}, {Main}, {"Listing Proforma"}, {"P1"}}, {2, 4})) :
     a \in {Court("sworn"), Plain("sworn")}, b \in {Court("prose"), Ours("Vakalatnama")}}

\* The front of a book: forms, reports and lists, in the wrong hands.
Preface ==
  {Case(<<a, b, c, Sheet("Synopsis", None, "prose"), d, Petition28>>, <<>>,
        Guesses({{}, {Main}, {"Advocate's Checklist"}, {"Office Report"}}, {1, 3})) :
     a \in {Sheet("Record of Proceedings", None, "prose"), Sheet("Office Report", None, "office")},
     b \in {Plain("prose"), Court("office"), Plain("notice"), Plain("state")},
     c \in {Sheet("Listing Proforma", None, "prose"), Plain("closing")},
     d \in {Plain("prose"), Sheet("Memo of Parties", None, "parties")}}

\* An application behind an exhibit, with its affidavit and the filing list.
Motion ==
  {[Case(Numbering(<<Petition28, Exhibit("P1", "prose"), a, b, c, d>>, q, q), <<>>,
         Guesses({{}, {"P1"}, {"Application 1"}, {"Application 2"}}, {1, 3}))
      EXCEPT !.back = {"memo"}] :
     a \in {IA, Plain("plea")},
     b \in {Plain("plea"), Sheet("Memo of Parties", None, "parties"), IA,
            [IA EXCEPT !.anchor = None, !.court = "both"]},
     c \in {Sheet("Affidavit", "sci", "support"), Plain("prayer")},
     d \in {Sheet("Filing Memo", "sci", "slip"), Court("parties")}, q \in {1, 7}}

\* The filing list, and two signed sheets behind it that the Index lists.
Signed ==
  {[Case(Numbering(<<IndexSheet, Petition28, Ours("Affidavit"), Sheet("Filing Memo", "sci", "slip"),
                     a, b>>, q, 1),
         <<Item(Main, 1, 2), Item("Filing Memo", 3, 3), Item("Vakalatnama", 4, t)>>,
         Guesses({{}, {Main}, {"Vakalatnama"}}, {2, 4}))
      EXCEPT !.back = r] : r \in {{"representation"}, {"memo"}},
     a \in {Plain("blank"), Plain("prose"), Court("parties")},
     b \in {Plain("blank"), Ours("Memo of Appearance")}, q \in {2, 6}, t \in {4, 5}}

------------------------------------------------------------------------------
\* An Index with two exhibits, the second without a stamp.
Listed2 ==
  {Case(Numbering(<<IndexSheet, e, Petition28, a, b, Like(Court("judgment"), "P2")>>, q, q - 2),
        <<Item(Main, 1, 1), Item("P1", 2, 3), Item("P2", 4, 4)>>,
        Guesses({{}, {Main}, {"P1"}, {"P3"}}, {3, 4})) :
     a \in {Exhibit("P1", "judgment"), Like(Court("judgment"), "P1")}, q \in {3, 5, 7},
     b \in {Plain("prose"), Court("table")},
     e \in {Sheet("List of Dates", None, "rows"), Plain("table")}}

\* The same with a range that the page column lost.
Lost ==
  {[Case(Numbering(<<IndexSheet, Petition28, Exhibit("P1", "prose"), a,
                     Like(Court("judgment"), "P2"), b>>, 2, 1),
         <<Item(Main, 1, 1), Item("P1", 2, 3), t, Item("P3", 5, 5)>>,
         Guesses({{}, {Main}, {"P2"}}, {2, 4})) EXCEPT !.drawn = FALSE] :
     a \in {Court("prose"), Court("exhibit")}, b \in {Exhibit("P3", "prose"), Court("prose")},
     t \in {Item("P2", 0, 0), Item("P2", 3, 3), Item("P2", 4, 4)}}

\* No ranges in the Index: what the petition cites, the stamps and the content decide.
Bare ==
  {Case(Numbering(<<IndexSheet, Citing(Petition28, "P1", 2, i), a, Court(x),
                    Like(b, "P2"), Court(x)>>, q, 1),
        <<Item(Main, 0, 0), Item("P1", 0, 0), Item("P2", 0, 0)>>,
        {Named6(<<{}, {Main}, {k}, {k}, {l}, {l}>>) : k \in {"P1", "P3", None}, l \in {"P1", "P2", None}}) :
     a \in {Like(Court("docket"), "P1"), Exhibit("P1", "prose")}, x \in {"packet", "exhibit"},
     b \in {Court("packet"), Court("judgment")}, i \in {2, 3}, q \in {2, 7}}

\* Exhibits without stamps, found by content behind the affidavit.
Unstamped ==
  {Case(Numbering(<<IndexSheet, Petition28, a, Like(Court("judgment"), "P1"), b,
                    Like(Court("judgment"), "P2")>>, q, 1),
        <<Item(Main, 1, 2), Item("P1", 0, 0), Item("P2", 0, 0)>>,
        {Named6(<<{}, {}, {}, {k}, {l}, {n}>>) : k \in {None, "P1"}, n \in {"P1", "P3"},
           l \in {None, "Index", "Affidavit", "Application 1"}}) :
     a \in {Sheet("Affidavit", "sci", "sworn"), Ours("AOR's Certificate")},
     b \in {Court("table"), Plain("plea"), Plain("sworn")}, q \in {2, 7}}
Sworn ==
  {Case(Numbering(<<IndexSheet, Petition28, Ours("AOR's Certificate"), a, Exhibit("P1", "prose"),
                    Court("prose")>>, 2, 1),
        <<Item(Main, 1, 3), Item("P1", 4, 5)>>, Guesses({{}, {Main}, {"P1"}}, {2, 4})) :
     a \in {Plain("sworn"), Sheet("Affidavit", "sci", "sworn"), Sheet(None, "sci", "judgment")}}

\* A stamp found twice, and rows that the stamps contradict.
Twice ==
  {Case(Numbering(<<IndexSheet, Citing(Petition28, "P1", 2, 3), Like(Exhibit("P1", "prose"), "P1"),
                    a, b, c>>, 2, 1),
        <<Item(Main, 1, 1), Item("P1", 2, i), Item("P2", i + 1, 4)>>,
        Guesses({{}, {"P1"}, {"P2"}}, {2, 4})) :
     a \in {Court("prose"), Like(Exhibit("P1", "judgment"), "P2"), Like(Exhibit("P2", "docket"), "P2")},
     i \in {2, 3}, b \in {Court("prose"), IndexSheet},
     c \in {Sheet("Filing Memo", "sci", "slip"), Sheet("Vakalatnama", "sci", "both")}}

\* A book that may be clear: petition with its appendix, one exhibit, Vakalatnama.
Whole ==
  {[Case(s, <<Item(Main, 2, 2), Item("Appendix", t, t), Item("P1", IF t = 3 THEN 4 ELSE 5, 5),
              Item("Vakalatnama", 6, 6)>>,
         Guesses({{}, {Main}, {"P1"}, {"Appendix"}}, {2, 3, 5})) EXCEPT !.drawn = drawn] :
     s \in {<<IndexSheet, Petition28, Sheet("Appendix", None, "prose"), x, y, Ours("Vakalatnama")>> :
              x \in {Exhibit("P1", "prose"), Plain("blank")},
              y \in {Sheet("Appendix", None, "prose"), Court("prose")}},
     t \in {3, 4}, drawn \in BOOLEAN}

\* Its petition with an affidavit before and after the certificate.
SwornTwice ==
  {[Case(<<IndexSheet, Petition28, Ours("Affidavit"), Ours("AOR's Certificate"), a, Ours("Vakalatnama")>>,
         <<Item(Main, 2, 5), Item("Vakalatnama", 6, 6)>>,
         Guesses({{}, {Main}}, {2, 5})) EXCEPT !.drawn = drawn] :
     a \in {Ours("Affidavit"), Plain("sworn")}, drawn \in BOOLEAN}

\* Two volumes, or a reproduced filing in an exhibit.
Volumes ==
  {Case(Numbering(<<IndexSheet, Plain("table"), Petition28, Exhibit("P1", "prose"), a, b>>, 3, 1),
        <<Item(Main, 1, 1), Item("P1", 2, 3)>>, Guesses({{}, {Main}, {"P1"}}, {3, 5})) :
     a \in {Plain("volume"), Court("packet")}, b \in {IndexSheet, Plain("table"), Exhibit("P2", "prose")}}

\* A second volume, the first sheet of its Index in the caption of the court below
\* and stamped.
Reopened ==
  {Case(<<Petition28, Exhibit("P1", "prose"), Plain("volume"), a, b, Court("prose")>>, <<>>,
        Guesses({{}, {Main}, {"P1"}}, {1, 3})) :
     a \in {Exhibit("P2", "table"), Court("table")}, b \in {Court("table"), Exhibit("P3", "prose")}}

\* The model finds the second exhibit too late: its bracket reaches into the row.
FoundLate ==
  {Case(Numbering(<<IndexSheet, Petition28, Exhibit("P1", "prose"), a, b, Court("prose")>>, q, q - 1),
        <<Item(Main, 1, 1), Item("P1", 2, 2), Item("P2", 3, 5)>>,
        {Named6(<<{}, {Main}, {"P1"}, {k}, {l}, {"P2"}>>) : k, l \in {"P1", "P2", None}}) :
     a, b \in {Court("prose"), Exhibit("P2", "prose")}, q \in {2, 4}}

MCBooks == NoIndex \cup Stray \cup Double \cup Challenged \cup Mistaken \cup Started
             \cup Attested \cup Preface \cup Motion \cup Signed \cup Listed2 \cup Lost \cup Bare
             \cup Unstamped \cup Sworn \cup Twice \cup Whole
             \cup SwornTwice \cup Volumes \cup Reopened \cup FoundLate
==============================================================================
