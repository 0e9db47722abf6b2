------------------------------- MODULE BackRepair -------------------------------
(***************************************************************************)
(* The last passes of split_repair.py: the judgment and the papers around  *)
(* the petition, affidavits, applications, and the exhibits that citations *)
(* or the model's own map prove.                                           *)
(*                                                                         *)
(* The windows of 25 and 40 pages that these passes look through are wider *)
(* than any book checked here and are left out, and so are the running     *)
(* headers (case numbers, neutral citations) that can replace a folio.     *)
(***************************************************************************)
EXTENDS IndexRepair

CONSTANT LeastFolio   \* folios below it prove no bracket; 10 in the code

VARIABLE llama   \* the map that the model gave, before any repair

ASSUME BackAssumption == LeastFolio \in Nat

Titles == <<"certified copy", "official translation">>
AppsOn(m, p) == m[p] \cap AppSet
AppOn(m, p) == CHOOSE l \in AppsOn(m, p) : TRUE

------------------------------------------------------------------------------
(***************************************************************************)
(* Around the petition                                                     *)
(***************************************************************************)
\* Sheets on which a judgment that starts at folio 1 goes on, folio by folio, at
\* most three of them in a row without a folio that can be read.
InOrder(start, q) == Folio(q) = q - start + 1

\* Seeded fault: any run of pages without a folio is read on.
GoesOn_On(m, start, q) ==
  /\ Folio(q) = 0 \/ InOrder(start, q)
  /\ \E r \in q - 3..q : r > start => Folio(r) # 0

GoesOn(m, start, q) ==
  /\ ~Form28(q) /\ Main \notin m[q] /\ (Folio(q) = 0 \/ InOrder(start, q))
  /\ \E r \in q - 3..q : r > start => Folio(r) # 0

\* _restore_front_impugned_judgment: a court record that starts at folio 1 after
\* the preface; a sheet whose folio is lost joins it when a later one is in order.
FrontJudgment(m) ==
  LET behind(s) == \E q \in 1..s - 1 : m[q] \cap FrontParts # {}
      titled(q) == q \in Pages /\ Says(q, "judgment")
      starts == {s \in Pages :
        /\ Folio(s) = 1 /\ Lower(s) /\ behind(s)
        /\ \/ titled(s) \/ (titled(s + 1) /\ Folio(s + 1) = 2)
           \/ /\ ~Stamped(s) /\ ~titled(s + 1) /\ ~titled(s + 2)
              /\ \E q \in s + 1..PageCount : Form28(q)}
      start == Min(starts)
      ends == {start} \cup {q \in start + 1..PageCount :
                InOrder(start, q) /\ \A r \in start + 1..q : GoesOn(m, start, r)}
  IN  IF starts = {} THEN m ELSE Paint(m, start..Max(ends), Order)

\* _keep_application_party_lists_nested
PartyListStep(b, p) ==
  IF p \in Enclosed THEN Drop(b)
  ELSE IF Begins(p) /\ ~Lower(p)
       THEN [b EXCEPT !.on = IF AppsOn(b.m, p) = {} THEN {Apps[1]} ELSE {AppOn(b.m, p)}]
  ELSE IF AppsOn(b.m, p) # {} THEN [b EXCEPT !.on = {AppOn(b.m, p)}]
  ELSE IF b.on # {} /\ Anchor(p) = "Memo of Parties" THEN Put(b, p, b.on)
  ELSE IF Anchor(p) \in {None, Apps[1]} THEN b ELSE Drop(b)
KeepPartyLists(m) == Walk(PartyListStep, m)

\* _demote_unverified_representation_parts
UnverifiedStep(b, p) ==
  LET names == b.m[p]
      before == IF p = 1 THEN {} ELSE b.m[p - 1]
      trusted == \/ Own(p) /\ ~Lower(p)
                 \/ "Memo of Parties" \in names /\ Anchor(p) = "Memo of Parties"
                 \/ /\ ~Lower(p) /\ Anchor(p) = None
                    /\ names \cap Representation \cap before # {}
  IN  IF trusted THEN b ELSE Put(b, p, names \ Representation)
Unverified(m) == Walk(UnverifiedStep, m)

\* _extend_explicit_appendix_continuation
AppendixStep(b, p) ==
  IF p \in Enclosed
  THEN [m |-> IF Anchor(p) = "Appendix" \/ "Appendix" \in b.m[p]
              THEN [b.m EXCEPT ![p] = {Stamp(CHOOSE s \in EnvelopeOf(p) : TRUE)}]
              ELSE b.m,
        on |-> {}]
  ELSE IF Anchor(p) = "Appendix" THEN Carry(b, p, {"Appendix"})
  ELSE IF \/ b.on = {} \/ Anchor(p) # None \/ Stamped(p) \/ Begins(p)
          \/ ~(b.m[p] \subseteq {Main, "Appendix"})
       THEN Drop(b) ELSE Put(b, p, b.on)
Appendix(m) == Walk(AppendixStep, m)

------------------------------------------------------------------------------
(***************************************************************************)
(* Back matter                                                             *)
(***************************************************************************)
\* _restore_indexed_back_matter_parts
FilingEnd(m) ==
  LET anchored == {p \in Pages : Anchor(p) = "Filing Memo" \/ Says(p, "slip")}
      pages == IF anchored # {} THEN anchored
               ELSE {p \in Pages : "Filing Memo" \in m[p]}
  IN  Max({0} \cup pages)

\* The two signed sheets after the filing list, by their folios.
ScanPair(m) ==
  LET end == FilingEnd(m)
      fits(p) == /\ Folio(p) = Folio(end) + p - end
                 /\ Anchor(p) \in {None, "Vakalatnama", "Memo of Appearance"}
  IN  IF "representation" \in index.back /\ Folio(end) # 0
      THEN {p \in Pages \cap (end + 1..end + 2) : \A q \in end + 1..p : fits(q)} ELSE {}

\* The High Court's memo of parties that the Index lists behind the filing list.
CourtMemo(m) ==
  LET starts == {p \in FilingEnd(m) + 1..PageCount :
                   Lower(p) /\ Says(p, "parties") /\ ~Stamped(p)}
      ends(q) == \/ q > Min(starts) /\ (Own(q) \/ Stamped(q) \/ Anchor(q) \in
                       {"Filing Memo", "Vakalatnama", "Memo of Appearance"})
                 \/ ~Says(q, "parties")
  IN  IF "memo" \in index.back /\ starts # {}
      THEN Until(Min(starts), PageCount, LAMBDA q : ends(q)) ELSE {}

BackMatter(m) ==
  LET end == FilingEnd(m)
      pair == ScanPair(m)
      listed == {p \in Pages : \E r \in Rows(m) : r.label = "Vakalatnama" /\ Within(p, r)}
      sole == {p \in ((end + 1..end + 5) \cap Pages) \ pair :
                 Blank(p) /\ Folio(p) # 0 /\ Says(p - 1, "slip")
                 /\ "representation" \in index.back}
      first == Paint(m, listed, "Vakalatnama")
      signed == Paint(first, (pair \cap {end + 1}) \cup sole, "Vakalatnama")
      appearance == Paint(signed, pair \ {end + 1}, "Memo of Appearance")
  IN  IF end = 0 THEN first ELSE Paint(appearance, CourtMemo(m), "Memo of Parties")

\* _keep_vakalatnama_with_following_appearance
KeepAppearance(m) ==
  [p \in Pages |->
     IF /\ p > 1 /\ "Vakalatnama" \in m[p - 1]
        /\ \A q \in {p - 1, p} : ~Stamped(q) /\ ~Lower(q)
        /\ "Memo of Appearance" \in m[p] \cup {Anchor(p)}
     THEN m[p] \cup {"Memo of Appearance"} ELSE m[p]]

\* _add_same_page_representation_labels
SamePage(m) ==
  [p \in Pages |-> IF "Vakalatnama" \in m[p] /\ Says(p, "both")
                   THEN m[p] \cup {"Memo of Appearance"} ELSE m[p]]

------------------------------------------------------------------------------
(***************************************************************************)
(* Affidavits                                                              *)
(***************************************************************************)
SwornAfter == {Main, "AOR's Declaration", "AOR's Certificate"}
Before(m, p) == IF p = 1 THEN {} ELSE m[p - 1]

\* _demote_false_affidavit_between_annexures: annexed are the pages of exhibits
\* before the pass, indexed those of the petition by the Index.
BetweenStep(annexed, indexed, b, p) ==
  LET prior == {q \in annexed : q < p} IN
  IF /\ "Affidavit" \in b.m[p] /\ prior # {} /\ p \notin indexed
     /\ Before(b.m, p) \cap (SwornAfter \cup {"Affidavit"}) = {}
     /\ Stamped(p) \/ \E q \in annexed : q > p
  THEN Put(b, p, {CHOOSE l \in OwnAnnexure(b.m, Max(prior)) : TRUE}) ELSE b
FalseAffidavit(m) ==
  LET annexed == {p \in Pages : OwnAnnexure(m, p) # {}}
      indexed == {p \in Pages : \E r \in RowOf(m, Main) : Within(p, r)}
  IN  Walk(LAMBDA b, p : BetweenStep(annexed, indexed, b, p), m)

\* _extend_explicit_affidavit_continuation: an affidavit that supports an
\* application is part of that application.
AffidavitStep(b, p) ==
  LET held == OwnAnnexure(b.m, p) # {} IN
  IF Anchor(p) = "Affidavit"
  THEN IF \/ Says(p, "support")
          \/ held /\ b.on = {} /\ Before(b.m, p) \cap (SwornAfter \cup {"Appendix"}) = {}
       THEN Drop(b) ELSE Carry(b, p, {"Affidavit"})
  ELSE IF b.on = {} \/ Stamped(p) \/ Anchor(p) # None \/ ~Says(p, "sworn")
       THEN Drop(b) ELSE Put(b, p, b.on)
AffidavitBody(m) == Walk(AffidavitStep, m)

------------------------------------------------------------------------------
(***************************************************************************)
(* Applications                                                            *)
(***************************************************************************)
\* _reclaim_application_continuations: an exhibit that an application refers to
\* does not take its body.
ReclaimStep(b, p) ==
  LET names == b.m[p]
      foreign == names \ (Annexures \cup AppSet)
      outOfOrder == Folio(p) # 0 /\ Folio(p - 1) # 0 /\ Folio(p) # Folio(p - 1) + 1
  IN  IF Own(p) /\ ~Lower(p) /\ Anchor(p) = Apps[1] /\ Begins(p) /\ ~Stamped(p) /\ foreign = {}
      THEN Carry(b, p, {IF AppsOn(b.m, p) = {} THEN Apps[1] ELSE AppOn(b.m, p)})
      ELSE IF \/ b.on = {} \/ Empty(p) \/ Lower(p) \/ Stamped(p) \/ Begins(p)
              \/ Anchor(p) \notin AppSet \cup {None} \/ foreign # {}
              \/ Says(p - 1, "prayer") \/ outOfOrder \/ ~(Says(p, "plea") \/ Says(p, "prayer"))
           THEN Drop(b) ELSE Put(b, p, b.on)
Reclaim(m) == Walk(ReclaimStep, m)

\* _merge_spurious_application_splits: a new number needs a new heading.
MergeStep(b, p) ==
  IF AppsOn(b.m, p) = {} THEN Drop(b)
  ELSE IF b.on # {} /\ ~(Begins(p) /\ Anchor(p) # "Affidavit")
  THEN Put(b, p, (b.m[p] \ {AppOn(b.m, p)}) \cup b.on)
  ELSE [b EXCEPT !.on = {AppOn(b.m, p)}]
Merge(m) == Walk(MergeStep, m)

\* _reclaim_annexure_continuations_mislabeled_as_applications
ContinuationStep(b, p) ==
  LET previous == {l \in Before(b.m, p) \cap Numbered : Series(l) = "P"} IN
  IF /\ AppsOn(b.m, p) # {} /\ previous # {}
     /\ ~Begins(p) /\ ~Own(p) /\ ~Stamped(p) /\ RunsOn(p)
     /\ Says(p, "plea") \/ Says(p, "prayer")
  THEN Put(b, p, (b.m[p] \ AppsOn(b.m, p)) \cup {CHOOSE l \in previous : TRUE})
  ELSE b
AnnexureNotApp(m) == Walk(ContinuationStep, m)

\* _renumber_outer_applications: by the Index when it tells all titles apart,
\* otherwise as they come.
AppsIn(m) == {l \in AppSet : \E p \in Pages : l \in m[p]}
Earlier(m, k, l) ==
  LET opening(j) == Min({p \in Pages : j \in m[p]})
      kinds(j) == {i \in DOMAIN Titles : \E p \in Pages : j \in m[p] /\ Match(p) = Titles[i]}
      row(j) == CHOOSE i \in DOMAIN index.apps : index.apps[i] = Titles[Min(kinds(j))]
      byIndex == /\ Len(index.apps) >= 2 /\ \E p \in Pages : "Index" \in m[p]
                 /\ \A j \in AppsIn(m) : kinds(j) # {}
                 /\ \A i, j \in AppsIn(m) : i # j => Min(kinds(i)) # Min(kinds(j))
  IN  IF byIndex THEN row(k) < row(l)
      ELSE \/ opening(k) < opening(l)
           \/ opening(k) = opening(l) /\ \E i, j \in DOMAIN Apps :
                i < j /\ Apps[i] = k /\ Apps[j] = l
Renumber(m) ==
  LET rank(l) == Apps[1 + Cardinality({k \in AppsIn(m) \ {l} : Earlier(m, k, l)})]
  IN  [p \in Pages |-> (m[p] \ AppSet) \cup {rank(l) : l \in AppsOn(m, p)}]

------------------------------------------------------------------------------
(***************************************************************************)
(* Exhibits proved by other means                                          *)
(***************************************************************************)
\* _preserve_historical_efile_annexure_packets: a reproduced filing, by its
\* running header, inside the one exhibit that the model gave it.
PacketsBeside(m, indexed) ==
  LET inside(s, q) ==
        /\ llama[q] = llama[s] /\ indexed[q] = llama[s]
        /\ ~Own(q) /\ Stamp(q) \in llama[s] \cup {None} /\ OwnAnnexure(m, q) \subseteq llama[s]
        /\ Says(q, IF q = s THEN "docket" ELSE "packet")
      packet(s) == Until(s, PageCount, LAMBDA q : ~inside(s, q))
      starts == {s \in Pages : /\ Cardinality(llama[s]) = 1 /\ llama[s] \subseteq Annexures
                               /\ Lower(s) /\ Cardinality(packet(s)) >= 3}
  IN  [p \in Pages |-> IF \E s \in starts : p \in packet(s) THEN llama[p] ELSE m[p]]
Packets(m) == PacketsBeside(m, IndexedOuter(llama))

\* Offsets of neighbouring sheets whose folios follow each other.
Offsets == {p - Folio(p) : p \in {q \in Pages : q < PageCount /\ Folio(q) # 0
                                                /\ Folio(q + 1) = Folio(q) + 1}}

\* Seeded fault: the rows of the Index are not asked.
Undisputed_Rows(m, cited, c) == \A d \in cited : d.label = c.label => d = c

\* No other citation of the exhibit, and no row of the Index, says otherwise.
Undisputed(m, cited, c) ==
  /\ \A d \in cited : d.label = c.label => d = c
  /\ \A r \in {s \in Rows(m) : Current(s)} :
       IF r.label = c.label THEN r.first = c.first /\ r.last = c.last
       ELSE r.last < c.first \/ c.last < r.first

\* _apply_cited_annexure_ranges: a listed exhibit at the one range that the
\* pleadings cite, when its record opens there and nothing in it says otherwise.
Citations(m) ==
  LET trusted == {p \in Pages : ~Lower(p) /\ m[p] \cap (FrontParts \cup {Main} \cup AppSet) # {}}
  IN  {c \in UNION {book[p].cites : p \in trusted} : c.label \in Listed(m)}

KeptFor(m, c, o, p) ==
  LET names == m[p] \ Annexures IN
  /\ ~Own(p) /\ Stamp(p) \in {None, c.label}
  /\ p = c.first + o \/ ~Lower(p) \/ Match(p) \in {None, c.label}
  /\ names # {} =>
       /\ Anchor(p) = None \/ Lower(p)
       /\ p = c.first + o \/ Folio(p) = p - o
       /\ names \subseteq Steal \cup AppSet \cup {"Record of Proceedings", "Appendix"}

Spans(m, c) == {o \in Offsets :
  /\ c.first + o..c.last + o \subseteq Pages
  /\ Lower(c.first + o) /\ Match(c.first + o) = c.label
  /\ \A p \in c.first + o..c.last + o : KeptFor(m, c, o, p)}

\* The citations that reach page p.
Reaching(m, p) == {c \in Citations(m) :
  /\ Undisputed(m, Citations(m), c) /\ Cardinality(Spans(m, c)) = 1
  /\ \E o \in Spans(m, c) : p \in c.first + o..c.last + o}

CitedRanges(m) ==
  LET claims(p) == {c.label : c \in Reaching(m, p)}
  IN  [p \in Pages |-> IF Cardinality(claims(p)) = 1 THEN claims(p) ELSE m[p]]

\* _restore_model_bracketed_annexure_continuations: from one start of the model's
\* to its next number, when three folios there share an offset.
ModelStarts ==
  LET named(p) == llama[p] \cap Numbered
  IN  {p \in Pages : named(p) # {} /\ named(p) # Before(llama, p) \cap Numbered}
ModelLabel(s) == CHOOSE l \in llama[s] \cap Numbered : TRUE
NextStart(s) == Min({q \in ModelStarts : q > s})

\* What the model's labels and the folios alone bracket.
ModelBrackets(p) ==
  LET follows(s, n) == /\ Series(ModelLabel(n)) = Series(ModelLabel(s))
                       /\ Number(ModelLabel(n)) = Number(ModelLabel(s)) + 1
                       /\ n - s >= 2
      proved(s, n) == \E o \in 0..PageCount :
        Cardinality({q \in s..n : Folio(q) >= LeastFolio /\ q - Folio(q) = o}) >= 3
  IN  {s \in ModelStarts :
         /\ \E q \in ModelStarts : q > s
         /\ follows(s, NextStart(s)) /\ p \in s..NextStart(s) - 1 /\ proved(s, NextStart(s))}

Brackets(m, p) == {s \in ModelBrackets(p) : \A q \in s + 1..NextStart(s) - 1 :
  /\ Stamp(q) \in {None, ModelLabel(s), ModelLabel(NextStart(s))}
  /\ Anchor(q) = None /\ ~Begins(q) /\ m[q] \subseteq Annexures}

Bracketed(m) ==
  [p \in Pages |-> IF Brackets(m, p) = {} THEN m[p]
                   ELSE {ModelLabel(CHOOSE s \in Brackets(m, p) : TRUE)}]
==============================================================================
