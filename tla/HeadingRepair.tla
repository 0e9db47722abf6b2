----------------------------- MODULE HeadingRepair -----------------------------
(***************************************************************************)
(* The passes of split_repair.py that work from printed headings: one map  *)
(* from pages to labels goes in, one comes out.  SplitRepair runs them in  *)
(* the order of repair_compiled_split.                                     *)
(*                                                                         *)
(* The heuristics that read a page are facts about it.  A page has         *)
(*   anchor  the outer document it opens, by its heading, or None          *)
(*   court   whose caption it carries: "sci", "lower", "both" or None      *)
(*   stamp   the Annexure label stamped on it, or None                     *)
(*   starts  whether an application begins on it                           *)
(*   body    what the rest reads like (one of Bodies)                      *)
(*   folio   the number printed on it, 0 if none.                          *)
(***************************************************************************)
EXTENDS Integers, Sequences, FiniteSets, SequencesExt, FiniteSetsExt

CONSTANTS
  PageCount,
  Stamps,       \* numbered Annexure labels: [label -> [series, number]]
  Apps          \* numbered applications, "Application 1" first

VARIABLE book   \* the facts, [Pages -> Facts]

Pages == 1..PageCount
PageSeq == [i \in Pages |-> i]
None == "none"
Main == "Main Petition"
Order == "Impugned Order"
FrontParts == {"Synopsis", "List of Dates"}
Blocking == {"Cover Page", "Index", "Record of Proceedings"}
Representation == {"Vakalatnama", "Memo of Appearance", "Memo of Parties"}
Steal == FrontParts \cup Representation \cup
  {Main, Order, "Cover Page", "Index", "Affidavit", "Filing Memo",
   "Advocate's Checklist", "AOR's Declaration", "AOR's Certificate"}
Outer == Steal \cup
  {"Record of Proceedings", "Listing Proforma", "Office Report", "Appendix"}
FirstRun == Outer \ {"Index", "Record of Proceedings"}
NoBackward == FirstRun \ {"Cover Page", "Advocate's Checklist"}
StopLabels == Outer \ {Main}

Numbered == DOMAIN Stamps
Annexures == Numbered \cup {"Annexures"}
AppSet == ToSet(Apps)
Labels == Outer \cup Annexures \cup AppSet
Maps == [Pages -> SUBSET Labels]
Bodies == {"blank", "prose", "rows", "table", "slip", "grounds", "parties",
           "judgment", "office", "volume", "closing", "sworn", "support", "plea",
           "prayer", "exhibit", "both", "docket", "packet", "form", "notice", "state"}

\* The labels of a series are numbered from 1 on, without holes.
ASSUME HeadingAssumption ==
  /\ PageCount \in Nat \ {0} /\ IsFiniteSet(Numbered)
  /\ \A l \in Numbered : Stamps[l] \in [series : STRING, number : Nat \ {0}]
  /\ \A l \in Numbered : \A n \in 1..Stamps[l].number : \E k \in Numbered :
       Stamps[k] = [series |-> Stamps[l].series, number |-> n]
  /\ \A k, l \in Numbered : Stamps[k] = Stamps[l] => k = l
  /\ \E l \in Numbered : Stamps[l] = [series |-> "P", number |-> 1]
  /\ Apps \in Seq(STRING) /\ Len(Apps) > 0
  /\ Numbered \cap (Outer \cup AppSet \cup {None, "Annexures"}) = {}
  /\ AppSet \cap (Outer \cup {None, "Annexures"}) = {}

\* What is known of a sheet: the above, and for the Index (IndexRepair) the record
\* that it matches by content and the ranges that it cites.
Facts == [anchor : Outer \cup AppSet \cup {None}, court : {"sci", "lower", "both", None},
          stamp : Numbered \cup {None}, starts : BOOLEAN, body : Bodies, folio : Nat,
          match : STRING, cites : SUBSET [label : Numbered, first : Nat, last : Nat]]

Anchor(p) == book[p].anchor
Own(p) == book[p].court \in {"sci", "both"}
Lower(p) == book[p].court \in {"lower", "both"}
Stamp(p) == book[p].stamp
Stamped(p) == Stamp(p) # None
Begins(p) == book[p].starts
Says(p, body) == book[p].body = body
Blank(p) == Says(p, "blank")
Empty(p) == Blank(p) /\ book[p].folio = 0   \* not even a folio
Form28(p) == Anchor(p) = Main
\* A blank form for the record of proceedings is no extract of it; the notice of
\* a registry is neither.
Extract(p) == Anchor(p) = "Record of Proceedings" /\ ~Says(p, "form")
Notice(p) == Says(p, "notice") /\ ~Lower(p)
RunsOn(p) == /\ p > 1 /\ book[p].folio # 0
             /\ book[p].folio = book[p - 1].folio + 1

\* A pass that walks the pages with a label in hand: op gets [m, on] and a page.
Walk(op(_, _), m) ==
  LET at[p \in 0..PageCount] == IF p = 0 THEN [m |-> m, on |-> {}] ELSE op(at[p - 1], p)
  IN  at[PageCount].m
Put(b, p, labels) == [b EXCEPT !.m[p] = labels]
Carry(b, p, labels) == [m |-> [b.m EXCEPT ![p] = labels], on |-> labels]
Drop(b) == [b EXCEPT !.on = {}]

\* Runs of consecutive pages that carry one label (_contiguous_groups).
Runs(m, l) ==
  {r \in {i..j : i, j \in Pages} :
     /\ r # {} /\ \A p \in r : l \in m[p]
     /\ \A p \in Pages \ r : (p + 1 \in r \/ p - 1 \in r) => l \notin m[p]}
FirstOf(runs) == CHOOSE r \in runs : \A s \in runs : Min(r) <= Min(s)

------------------------------------------------------------------------------
(***************************************************************************)
(* Annexure envelopes: from a stamp to the page before the next one        *)
(***************************************************************************)
\* A stamp of one series between two consecutive stamps of another is nested.
NestedStamp(p) ==
  \E s \in {Stamps[l].series : l \in Numbered} \ {Stamps[Stamp(p)].series} :
    LET series == {q \in Pages : Stamped(q) /\ Stamps[Stamp(q)].series = s}
        before == {q \in series : q < p}
        after == {q \in series : q > p}
    IN  /\ before # {} /\ after # {}
        /\ Stamps[Stamp(Min(after))].number = Stamps[Stamp(Max(before))].number + 1

Starts == {p \in Pages : Stamped(p) /\ ~NestedStamp(p)}

\* A document of this filing that ends any exhibit before it.
EndsExhibit(p) ==
  \/ Says(p, "volume") \/ Form28(p) \/ (Begins(p) /\ Own(p))
  \/ Anchor(p) \in {"Vakalatnama", "Memo of Appearance", "AOR's Declaration",
                    "Filing Memo"}
  \/ Anchor(p) = "Memo of Parties" /\ ~Lower(p)

\* Past the last stamp at most one sheet without text or folio stays inside.
Thin(p) == Blank(p) /\ ~RunsOn(p)

Envelope(s) ==
  LET next == {q \in Starts : q > s}
      ends == {q \in Pages : /\ q > s
                             /\ \/ EndsExhibit(q) \/ q \in next
                                \/ /\ next = {}
                                   /\ Stamped(q) \/ (Thin(q) /\ Thin(q - 1) /\ q - 1 > s)}
  IN  s..(IF ends = {} THEN PageCount ELSE Min(ends) - 1)

\* _annexure_run_bounds
EnvelopeOf(p) == {s \in Starts : p \in Envelope(s)}
Enclosed == UNION {Envelope(s) : s \in Starts}

\* What keeps its label inside the envelope of label l.
OwnDocument(p) ==
  \/ Anchor(p) \in {Main, "AOR's Declaration"}
  \/ Own(p) /\ Begins(p) /\ ~Lower(p)
  \/ Own(p) /\ Anchor(p) \in {"AOR's Certificate", "Affidavit"}

\* Seeded fault: any page with a label keeps it.
Withstands_Any(m, p, l) == OwnDocument(p) \/ (m[p] # {} /\ m[p] \cap Annexures = {})

Withstands(m, p, l) ==
  LET names == m[p]
      images == {n \in names \cap Numbered : Stamps[n].number > Stamps[l].number}
      loose == names \cap (Steal \cup Annexures \cup {"Appendix"}) = {}
  IN  \/ OwnDocument(p)
      \/ /\ names \cap {"AOR's Declaration", "AOR's Certificate", "Affidavit"} # {}
         /\ Own(p) /\ ~Lower(p) /\ ~Stamped(p)
      \/ images # {} /\ Blank(p) /\ p > Max(Starts)
      \/ names # {} /\ names \subseteq Blocking \ {"Index"} /\ ~Lower(p)
      \/ names # {} /\ loose /\ names \cap AppSet # {} /\ Own(p)
      \/ names # {} /\ loose /\ names \cap AppSet = {} /\ ~Lower(p) /\ ~Stamped(p)

\* _force_annexure_nesting
ForceNesting(m) ==
  [p \in Pages |->
     IF \A s \in EnvelopeOf(p) : Withstands(m, p, Stamp(s)) THEN m[p]
     ELSE {Stamp(CHOOSE s \in EnvelopeOf(p) : TRUE)}]

------------------------------------------------------------------------------
(***************************************************************************)
(* Outer anchors and the sections that run on from them                    *)
(***************************************************************************)
ToldApart(b, p) ==
  LET names == b.m[p] a == Anchor(p) IN
  \/ a = None
  \/ Extract(p) /\ \E q \in 1..p - 1 : Main \in b.m[q]
  \/ a = Main /\ Lower(p)
  \/ a = "Vakalatnama" /\ {"Vakalatnama", "Memo of Appearance"} \subseteq names
  \/ a = Apps[1] /\ names \cap (AppSet \ {a}) # {}
  \/ /\ names # {} /\ names \cap (Steal \cup Annexures) = {}
     /\ a \in {"Affidavit", "AOR's Certificate", "Memo of Parties", Order}

AnchorStep(b, p) ==
  IF p \in Enclosed THEN b
  ELSE IF Says(p, "office") /\ Lower(p) THEN Put(b, p, b.m[p] \ {"Office Report"})
  ELSE IF ToldApart(b, p) THEN b ELSE Put(b, p, {Anchor(p)})

\* A section in hand keeps the sheets that read on from it.
ReadsOn(on, p) ==
  \/ on = {"List of Dates"} /\ Says(p, "rows")
  \/ on = {"Filing Memo"} /\ Says(p, "slip")

FrontStep(b, p) ==
  LET continued == ReadsOn(b.on, p) /\ Anchor(p) \in {None, "Index"}
      names == b.m[p]
      fromOne == Lower(p) /\ book[p].folio = 1
  IN  IF p \in Enclosed THEN [b EXCEPT !.on = @ \cap {"Filing Memo"}]
      ELSE IF continued THEN Put(b, p, b.on)
      ELSE IF Anchor(p) \in FrontParts \cup {"Advocate's Checklist", "Filing Memo"}
           THEN Carry(b, p, {Anchor(p)})
      ELSE IF Anchor(p) # None THEN Drop(b)
      ELSE IF \/ /\ b.on \subseteq FrontParts /\ b.on # {} /\ Says(p, "prose")
                 /\ "Listing Proforma" \in names
              \/ b.on = {"Advocate's Checklist"} /\ Says(p, "closing")
              \/ b.on = {"Synopsis"} /\ ~fromOne
           THEN Put(b, p, b.on)
      ELSE IF fromOne THEN Drop(b) ELSE b

\* The challenged judgment between the List of Dates and Form 28.
JudgmentUpTo(m, end, outer) ==
  LET dates == {p \in 1..end \cap outer : Anchor(p) = "List of Dates"}
      from == IF dates = {} THEN 1 ELSE Max(dates) + 1
      titled == {p \in from..end \cap outer : /\ Lower(p) /\ Says(p, "judgment")
                                              /\ Anchor(p) \notin FrontParts}
  IN  IF titled = {} THEN m
      ELSE [p \in Pages |->
              IF /\ p \in Min(titled)..end
                 /\ \A q \in Min(titled) + 1..p :
                      q \in outer /\ Anchor(q) \in {None, Order}
              THEN {Order} ELSE m[p]]
OuterJudgment(m) ==
  LET before(forms) == IF forms = {} THEN 0 ELSE Min(forms) - 1
      outer == Pages \ Enclosed
  IN  JudgmentUpTo(m, before({p \in outer : Form28(p)}), outer)

\* _apply_outer_anchors
OuterAnchors(m) == OuterJudgment(Walk(FrontStep, Walk(AnchorStep, m)))

\* _demote_false_advocate_checklist: of two rules that speak of a page the later
\* one decides.
FirstExhibit == {l \in Numbered : Stamps[l] = [series |-> "P", number |-> 1]}
NotChecklist(m, p) ==
  LET beside == \E q \in {p - 1, p + 1} \cap Pages : "Listing Proforma" \in m[q] IN
  IF Stamped(p) THEN {Stamp(p)}
  ELSE IF Anchor(p) \in {"Listing Proforma", "Record of Proceedings"} THEN {Anchor(p)}
  ELSE IF Notice(p) THEN {}
  ELSE IF Says(p, "state") THEN FirstExhibit
  ELSE IF Blank(p) THEN (IF beside THEN {"Listing Proforma"} ELSE {})
  ELSE IF Anchor(p) \in {None, "Advocate's Checklist"} THEN m[p] ELSE {Anchor(p)}

ChecklistStep(b, p) ==
  LET names == b.m[p]
      filing == /\ "Filing Memo" \in names
                /\ \/ Notice(p)
                   \/ Anchor(p) \in {"Listing Proforma", "Record of Proceedings", Main}
      order == Order \in names /\ Anchor(p) \notin {None, Order}
  IN  IF filing \/ order THEN Put(b, p, {Anchor(p)} \ {None})
      ELSE IF "Advocate's Checklist" \in names THEN Put(b, p, NotChecklist(b.m, p)) ELSE b
FalseChecklist(m) == Walk(ChecklistStep, m)

\* _demote_cover_mislabeled_as_main
CoverNotMain(m) ==
  [p \in Pages |-> IF Main \in m[p] /\ Anchor(p) = "Cover Page"
                   THEN {"Cover Page"} ELSE m[p]]

\* _demote_unverified_office_reports
OfficeStep(b, p) ==
  LET on == IF Anchor(p) = "Office Report" THEN {"Office Report"}
            ELSE IF Stamped(p) \/ Begins(p) \/ Anchor(p) # None THEN {} ELSE b.on
  IN  [m |-> IF on = {} THEN [b.m EXCEPT ![p] = @ \ {"Office Report"}] ELSE b.m,
       on |-> on]
OfficeReports(m) == Walk(OfficeStep, m)

\* _extend_explicit_memo_of_parties
PartiesStep(b, p) ==
  IF Anchor(p) = "Memo of Parties"
  THEN IF b.m[p] \cap Annexures # {} THEN Drop(b) ELSE Carry(b, p, {Anchor(p)})
  ELSE IF b.on # {} /\ Says(p, "parties") /\ ~Stamped(p) /\ ~Begins(p)
          /\ book[p].court = None /\ Anchor(p) = None
       THEN Put(b, p, b.on) ELSE Drop(b)
MemoOfParties(m) == Walk(PartiesStep, m)

\* _restore_split_preface: nothing of the preface is the challenged order, and
\* a verification that mentions the List of Dates stays an affidavit.
PrefaceStep(b, p) ==
  IF \E q \in 1..p : Form28(q) THEN b
  ELSE IF Anchor(p) \in FrontParts THEN Carry(b, p, {Anchor(p)})
  ELSE IF Anchor(p) # None \/ Lower(p) \/ Stamped(p) \/ Begins(p) THEN Drop(b)
  ELSE IF b.on # {} /\ ~Blank(p) /\ (b.m[p] = {} \/ Order \in b.m[p])
       THEN Put(b, p, b.on) ELSE b

SwornStep(b, p) ==
  IF /\ p > 1 /\ "Affidavit" \in b.m[p - 1] /\ ~Stamped(p)
     /\ Anchor(p) = None
     /\ "List of Dates" \in b.m[p] \/ (b.m[p] = {} /\ Says(p, "sworn"))
  THEN Put(b, p, {"Affidavit"}) ELSE b
SplitPreface(m) == Walk(SwornStep, Walk(PrefaceStep, m))

------------------------------------------------------------------------------
(***************************************************************************)
(* The Main Petition                                                       *)
(***************************************************************************)
\* _first_outer_form28_page; 0 if there is none, or only behind a stamp.
FirstForm28 ==
  LET forms == {p \in Pages : Form28(p)}
      front == {p \in Pages : Anchor(p) \in FrontParts}
      after == {p \in forms : front # {} /\ p > Min(front)}
      scoped == IF after = {} THEN forms ELSE after
      outside == {p \in scoped : \A q \in Pages : Stamped(q) => p < q}
  IN  IF outside = {} THEN 0 ELSE Min(outside)

Heading(p) == IF Anchor(p) \in {None, Main} THEN {} ELSE {Anchor(p)}

\* _demote_front_matter_mislabeled_as_main
FrontNotMain(m) ==
  LET peeled == [p \in Pages |-> IF Main \in m[p] /\ Anchor(p) \in FrontParts
                                 THEN {Anchor(p)} ELSE m[p]]
      front == {p \in Pages : Anchor(p) \in FrontParts}
      later == [p \in Pages |-> IF front # {} /\ p >= Min(front) THEN peeled[p] ELSE {}]
      island == IF Runs(later, Main) = {} THEN {} ELSE FirstOf(Runs(later, Main))
      cleared == IF FirstForm28 # 0 THEN {p \in 1..FirstForm28 - 1 : ~Form28(p)}
                 ELSE {p \in island : \A q \in island :
                         q <= p => ~Form28(q) /\ ~Says(q, "grounds")}
  IN  [p \in Pages |-> IF p \in cleared /\ Main \in peeled[p]
                       THEN Heading(p) ELSE peeled[p]]

\* The scores of _prefer_form28_main_island, compared in order.
Score(run) ==
  LET forms == Cardinality({p \in run : Form28(p)})
      front == Cardinality({p \in run : Anchor(p) \in FrontParts})
      annexed == \E q \in Pages : Stamped(q) /\ q <= Min(run)
  IN  IF forms > 0 THEN <<IF annexed THEN 1 ELSE 3, forms, -front, -Min(run)>>
      ELSE IF front > 0 THEN <<0, -front, 0, Min(run)>>
      ELSE <<IF annexed THEN 0 ELSE 2, 0, 0, Min(run)>>
Beats(s, t) == \E i \in 1..4 : s[i] > t[i] /\ \A j \in 1..i - 1 : s[j] = t[j]

PreferForm28(m) ==
  LET runs == Runs(m, Main)
      kept == CHOOSE r \in runs : \A s \in runs \ {r} : Beats(Score(r), Score(s))
  IN  IF Cardinality(runs) < 2 THEN m
      ELSE [p \in Pages |-> IF Main \notin m[p] \/ p \in kept THEN m[p]
                            ELSE IF Heading(p) # {} THEN Heading(p)
                            ELSE m[p] \ {Main}]

\* A sheet without text belongs to the petition if it reads on after it.
ReadsOnAfter(p) ==
  \E q \in p + 1..PageCount :
    /\ q < p + 8
    /\ Form28(q) \/ Says(q, "grounds")
    /\ \A r \in p + 1..q : ~Stamped(r) /\ Anchor(r) \notin StopLabels

\* Labels that end the petition; an exhibit's not once its grounds have begun.
Foreign(m, p) == m[p] \cap (StopLabels \cup Annexures \cup {Apps[1]})
Overruled(m, p, committed) == committed /\ m[p] \cap Annexures # {}

StopsMain(m, p, committed) ==
  \/ Stamped(p) \/ Begins(p) \/ Anchor(p) \in StopLabels \cup AppSet
  \/ Foreign(m, p) # {} /\ ~Overruled(m, p, committed) /\ m[p] \cap Steal = {}
  \/ Foreign(m, p) = {} /\ Empty(p) /\ ~ReadsOnAfter(p)

\* _extend_main_petition_body
MainBody(m) ==
  LET mains == {p \in Pages : Main \in m[p] /\ Anchor(p) \notin FrontParts \cup {"Cover Page"}}
      start == IF FirstForm28 # 0 THEN FirstForm28
               ELSE IF mains = {} THEN 0 ELSE Min(mains)
      committed(p) == \E q \in start..p : Says(q, "grounds")
      stays(p) == Main \in m[p] /\ Foreign(m, p) # {} /\ ~Overruled(m, p, committed(p))
  IN  IF start = 0 THEN m
      ELSE [p \in Pages |->
              IF /\ p >= start
                 /\ \A q \in start + 1..p : ~StopsMain(m, q, committed(q))
                 /\ p = start \/ ~stays(p)
              THEN {Main} ELSE m[p]]

\* _demote_annexed_sci_rop
AnnexedRop(m) ==
  [p \in Pages |-> IF /\ \E q \in 1..p - 1 : Main \in m[q]
                      /\ \A q \in p..PageCount : Main \notin m[q]
                      /\ ~Says(p, "form")
                   THEN m[p] \ {"Record of Proceedings"} ELSE m[p]]

\* _restore_early_record_of_proceedings
EarlyStep(b, p) ==
  IF /\ \A q \in 1..p - 1 : Main \notin b.m[q]
     /\ "Record of Proceedings" \in b.m[p] \cup {Anchor(p)}
  THEN Carry(b, p, {"Record of Proceedings"})
  ELSE IF \/ b.on = {} \/ Lower(p) \/ Says(p, "table")
          \/ Anchor(p) \notin {None, "Record of Proceedings"}
       THEN Drop(b) ELSE Put(b, p, b.on)
EarlyRop(m) == Walk(EarlyStep, m)

------------------------------------------------------------------------------
(***************************************************************************)
(* Gaps                                                                    *)
(***************************************************************************)
NextLabelled(m, p) ==
  LET ahead == {q \in p + 1..PageCount : m[q] # {}}
  IN  IF ahead = {} THEN {} ELSE m[Min(ahead)]
LastLabelled(m, p) ==
  LET back == {q \in 1..p - 1 : m[q] # {}}
  IN  IF back = {} THEN {} ELSE m[Max(back)]

\* A page that opens something is never a gap.
Opens(p) == Anchor(p) # None \/ Begins(p) \/ Says(p, "table")

\* _is_unstamped_annexure_island_start
IslandStart(p) ==
  /\ ~Stamped(p) /\ ~Begins(p) /\ Anchor(p) \notin {"Vakalatnama", "Filing Memo"}
  /\ \/ Extract(p) \/ Lower(p)
     \/ /\ Own(p) /\ Says(p, "judgment")
        /\ Anchor(p) \notin {Main, "AOR's Certificate", "Affidavit"}

\* A label that has met the start of something else is not resumed after it.
LetsGo(on, p) ==
  \/ /\ on \cap {"Affidavit", "Filing Memo"} # {}
     /\ Lower(p) \/ Says(p, "grounds") \/ Stamped(p)
  \/ "AOR's Certificate" \in on /\ (Lower(p) \/ Stamped(p) \/ IslandStart(p))

ForwardStep(b, p) ==
  IF b.m[p] # {} THEN [b EXCEPT !.on = b.m[p]]
  ELSE IF \/ b.on = {} \/ b.on \cap Blocking # {} \/ Empty(p) \/ Opens(p)
          \/ Blank(p) /\ b.on \cap FrontParts # {} THEN b
  ELSE IF LetsGo(b.on, p) THEN Drop(b)
  ELSE IF \/ /\ b.on \cap {"Vakalatnama", "Memo of Appearance"} # {}
             /\ Says(p, "grounds") \/ Lower(p)
          \/ Order \in b.on /\ Own(p) /\ Says(p, "grounds")
          \/ b.on \cap NextLabelled(b.m, p) \cap FirstRun # {}
       THEN b
  ELSE Put(b, p, b.on)

BackwardStep(b, p) ==
  LET next == IF p = PageCount THEN {} ELSE b.m[p + 1] IN
  IF \/ b.m[p] # {} \/ next = {} \/ Blank(p) \/ Anchor(p) # None \/ Says(p, "table")
     \/ next \cap (Blocking \cup NoBackward \cup Annexures) # {}
     \/ next \cap LastLabelled(b.m, p) \cap FirstRun # {}
  THEN b ELSE Put(b, p, next)

\* _fill_gaps
FillGaps(m) == Walk(LAMBDA b, i : BackwardStep(b, PageCount + 1 - i), Walk(ForwardStep, m))

\* _label_near_blank_impugned_gap: blank sheets before the petition are the
\* challenged order if a readable one was found before it.
BlankOrderGap(m) ==
  LET mains == {p \in Pages : Main \in m[p]}
      end == IF mains = {} THEN 0 ELSE Min(mains) - 1
      behind(q) == \/ m[q] = {} /\ Blank(q)
                   \/ m[q] \cap FrontParts # {} /\ Blank(q)
                   \/ m[q] \cap FrontParts = {} /\ Order \in m[q]
  IN  IF /\ \E p \in 1..end : m[p] \cap FrontParts # {}
         /\ \E p \in 1..end : Order \in m[p] /\ Anchor(p) = Order
      THEN [p \in Pages |-> IF p <= end /\ Blank(p) /\ \A q \in p..end : behind(q)
                            THEN {Order} ELSE m[p]]
      ELSE m

\* _fill_application_gaps
AppStep(b, p) ==
  LET names == b.m[p]
      sworn == Anchor(p) = "Affidavit" /\ Says(p, "support")
  IN  IF names # {}
      THEN IF b.on # {} /\ "Affidavit" \in names /\ sworn THEN Put(b, p, b.on)
           ELSE [b EXCEPT !.on = names \cap AppSet]
      ELSE IF b.on = {} \/ Empty(p) THEN b
      ELSE IF Begins(p) \/ Stamped(p) THEN Drop(b)
      ELSE IF sworn \/ (~Lower(p) /\ Anchor(p) \in AppSet \cup {None})
      THEN Put(b, p, b.on) ELSE Drop(b)
FillApplications(m) == Walk(AppStep, m)

------------------------------------------------------------------------------
(***************************************************************************)
(* Duplicates (document_parts.py)                                          *)
(***************************************************************************)
Longest(runs) == CHOOSE r \in runs : \A s \in runs :
  \/ Cardinality(r) > Cardinality(s)
  \/ Cardinality(r) = Cardinality(s) /\ Min(r) <= Min(s)

\* Seeded fault: only exhibits are collapsed.
Keeps_Numbered(m, l) ==
  IF l \in Numbered /\ Runs(m, l) # {} THEN FirstOf(Runs(m, l)) ELSE Pages

\* collapse_repeated_split_pages: one run of each label; every Index stays.
Keeps(m, l) ==
  IF l \in {"Index", "Annexures"} \/ Runs(m, l) = {} THEN Pages
  ELSE IF l \in FirstRun \cup Numbered \cup AppSet THEN FirstOf(Runs(m, l))
  ELSE Longest(Runs(m, l))
Collapse(m) ==
  LET kept == [l \in Labels |-> Keeps(m, l)]
  IN  [p \in Pages |-> {l \in m[p] : p \in kept[l]}]

Retag(names, l) == (names \ ({Main, "Affidavit"} \cup AppSet \cup Annexures)) \cup {l}
Stealable(names) == names \cap ({Main} \cup AppSet) # {}
Claimable(names) == names \subseteq Annexures

\* reclassify_pages_from_headings: a stamp retags the petition or application
\* it is found in, and what follows of the same family.
StrongStart(p) == Begins(p) \/ Anchor(p) \in
  {"Affidavit", "AOR's Certificate", "Vakalatnama", "Memo of Parties"}
SameFamily(names, first) ==
  \/ names \subseteq Annexures \/ names = {"Affidavit"}
  \/ Main \in names \cap first
  \/ names \cap AppSet # {} /\ first \cap AppSet # {}
ReclassifyStep(b, p) ==
  LET names == b.m[p] IN
  IF Stamped(p)
  THEN IF Stealable(names) \/ names = {"Affidavit"}
       THEN [m |-> [b.m EXCEPT ![p] = Retag(names, Stamp(p))],
             on |-> {<<Stamp(p), names>>}]
       ELSE Drop(b)
  ELSE IF /\ names # {} /\ ~StrongStart(p)
          /\ \E from \in b.on : SameFamily(names, from[2])
       THEN Put(b, p, Retag(names, (CHOOSE from \in b.on : TRUE)[1])) ELSE Drop(b)

\* _assign_gap_to_missing_marks: k of n pages goes to which of these marks.
Share(k, n, marks) ==
  LET base == n \div marks
      longer == (n % marks) * (base + 1)
  IN  IF k <= longer THEN (k - 1) \div (base + 1)
      ELSE (n % marks) + ((k - 1 - longer) \div base)

\* _annexure_printed_labels: claimable pages from a stamp up to the next one;
\* a short gap in the numbering belongs to the numbers that were skipped.
PrintedStarts(m) ==
  LET owned == {p \in Pages : m[p] \cap Annexures # {}}
  IN  {p \in Pages : owned # {} /\ p \in Min(owned)..Max(owned)
                     /\ Claimable(m[p]) /\ Stamped(p)}
\* The numbers between the stamps of pages a and b, and the pages that wait there.
Skipped(a, b) ==
  {l \in Numbered :
     /\ {Stamps[l].series, Stamps[Stamp(b)].series} = {Stamps[Stamp(a)].series}
     /\ Stamps[l].number \in Stamps[Stamp(a)].number + 1..Stamps[Stamp(b)].number - 1}
Waiting(m, a, b) == {q \in a + 1..b - 1 : \A r \in a..q : Claimable(m[r])}

Given(m, s, after, p) ==
  LET skipped == IF after = {} THEN {} ELSE Skipped(s, Min(after))
      waiting == Cardinality(Waiting(m, s, Min(after)))
  IN  IF s < p /\ skipped # {} /\ waiting <= Max({3, 2 * Cardinality(skipped)})
      THEN CHOOSE l \in skipped :
             Stamps[l].number = Stamps[Stamp(s)].number + 1
                                  + Share(p - s, waiting, Cardinality(skipped))
      ELSE Stamp(s)

Printed(m) ==
  LET starts == PrintedStarts(m)
      before(p) == {s \in starts : s <= p}
      after(p) == {s \in starts : s > p}
      reached(p, s) == \A q \in (s..p) \cup (p..s) :
        Claimable(m[q]) /\ (after(p) = {} => m[q] # {})
      later(p, l) == \E n \in m[p] \cap Numbered : Stamps[n].number > Stamps[l].number
      source(p) == IF before(p) # {} THEN Max(before(p)) ELSE Min(after(p))
  IN  [p \in Pages |->
         IF starts = {} \/ ~Claimable(m[p]) THEN m[p]
         ELSE IF /\ reached(p, source(p))
                 /\ (before(p) = {}) => m[p] # {} /\ ~later(p, Stamp(source(p)))
                 /\ (after(p) = {} /\ Blank(p)) => ~later(p, Stamp(source(p)))
              THEN {Given(m, source(p), after(source(p)), p)} ELSE m[p]]

\* _sequential_family_labels: a new number at each new cause title.
Sequenced(m) ==
  LET owned == {p \in Pages : m[p] \cap AppSet # {}}
      index(p) == Cardinality({q \in owned : q <= p /\ (q = Min(owned) \/ Begins(q))})
  IN  IF owned = {} \/ index(Max(owned)) < 2 THEN m
      ELSE [p \in Pages |-> IF p \notin owned THEN m[p]
              ELSE (m[p] \ AppSet) \cup {Apps[Min({index(p), Len(Apps)})]}]

\* explode_repeating_split_parts
Explode(m) ==
  Collapse(Sequenced(Printed(Walk(ReclassifyStep, m))))
==============================================================================
