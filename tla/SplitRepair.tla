------------------------------- MODULE SplitRepair -------------------------------
(***************************************************************************)
(* split_repair.repair_compiled_split: the map that LlamaSplit gave is a   *)
(* hint; eighty-one passes, in a fixed order and many of them more than    *)
(* once, replace it by what the sheets and the Index show, and the result  *)
(* is audited.  One step runs one pass.  No pass knows what the passes     *)
(* before it were for, so what an early one settles a late one may undo.   *)
(***************************************************************************)
EXTENDS SplitAudit

CONSTANT Books   \* [sheets, table, lists, back, apps, drawn, llama]

ASSUME BooksAssumption == \A b \in Books :
  /\ b.sheets \in [Pages -> Facts] /\ b.llama \subseteq Maps
  /\ b.table \in Seq([label : Labels, first : Nat, last : Nat,
                       printed : SUBSET (Nat \X Nat), alone : BOOLEAN])
  /\ b.lists \subseteq Annexures /\ b.back \subseteq STRING
  /\ b.apps \in Seq(STRING) /\ b.drawn \in BOOLEAN

VARIABLES map, pc, duplicates, audit

vars == <<book, index, llama, map, pc, duplicates, audit>>

Pipeline == <<
  "FalseChecklist", "CoverNotMain", "OuterAnchors", "IndexBridge", "OfficeReports",
  "MemoOfParties", "SplitPreface", "FrontNotMain", "CoverNotMain", "MainBody",
  "AnnexedRop", "Duplicates", "ForceNesting", "FillGaps", "BlankOrderGap", "FillGaps",
  "ForceNesting", "FalseChecklist", "FrontNotMain", "CoverNotMain", "MainBody",
  "AnnexedRop", "Explode", "ForceNesting", "CoverNotMain", "AnnexedRop", "PreferForm28",
  "Duplicates", "Collapse", "ForceNesting", "CoverNotMain", "MainBody", "PreferForm28",
  "Collapse", "FillApplications", "Collapse", "PlaceExpected", "FalseAffidavit",
  "Unmentioned", "IndexPrinted", "KeepPartyLists", "ForceNesting", "Unmentioned",
  "RealignStamps", "Unverified", "RealignBoundaries", "LocalExhibits", "VolumeSections",
  "IndexBridge", "IndexedAnnexures", "IndexedOuter", "FrontJudgment", "Renest",
  "BackMatter", "Renest", "ForwardStamps", "KeepAppearance", "SamePage",
  "MemoOfParties", "EarlyRop", "AffidavitBody", "FalseAffidavit", "OfficeReports",
  "Reclaim", "Merge", "AnnexureNotApp", "Renumber", "IndexBridge", "VolumeSections",
  "IndexedAnnexures", "Collapse", "VolumeSections", "SamePage", "Appendix",
  "IndexedOuter", "IndexedAnnexures", "SamePage", "Packets", "CitedRanges",
  "MasterIndex", "Bracketed">>

ByHeading(pass, m) ==
  CASE pass = "FalseChecklist" -> FalseChecklist(m)
    [] pass = "CoverNotMain" -> CoverNotMain(m)
    [] pass = "OuterAnchors" -> OuterAnchors(m)
    [] pass = "OfficeReports" -> OfficeReports(m)
    [] pass = "MemoOfParties" -> MemoOfParties(m)
    [] pass = "SplitPreface" -> SplitPreface(m)
    [] pass = "FrontNotMain" -> FrontNotMain(m)
    [] pass = "MainBody" -> MainBody(m)
    [] pass = "AnnexedRop" -> AnnexedRop(m)
    [] pass = "EarlyRop" -> EarlyRop(m)
    [] pass = "ForceNesting" -> ForceNesting(m)
    [] pass = "FillGaps" -> FillGaps(m)
    [] pass = "BlankOrderGap" -> BlankOrderGap(m)
    [] pass = "Explode" -> Explode(m)
    [] pass = "PreferForm28" -> PreferForm28(m)
    [] pass = "Collapse" -> Collapse(m)
    [] pass = "FillApplications" -> FillApplications(m)

Indexed(pass, m) ==
  CASE pass = "IndexBridge" -> IndexBridge(m)
    [] pass = "VolumeSections" -> VolumeSections(m)
    [] pass = "MasterIndex" -> MasterIndex(m)
    [] pass = "Renest" -> Renest(m)
    [] pass = "PlaceExpected" -> PlaceExpected(m)
    [] pass = "Unmentioned" -> Unmentioned(m)
    [] pass = "IndexPrinted" -> IndexPrinted(m)
    [] pass = "RealignStamps" -> RealignStamps(m)
    [] pass = "RealignBoundaries" -> RealignBoundaries(m)
    [] pass = "LocalExhibits" -> LocalExhibits(m)
    [] pass = "IndexedAnnexures" -> IndexedAnnexures(m)
    [] pass = "IndexedOuter" -> IndexedOuter(m)
    [] pass = "ForwardStamps" -> ForwardStamps(m)

Late(pass, m) ==
  CASE pass = "FrontJudgment" -> FrontJudgment(m)
    [] pass = "KeepPartyLists" -> KeepPartyLists(m)
    [] pass = "Unverified" -> Unverified(m)
    [] pass = "BackMatter" -> BackMatter(m)
    [] pass = "KeepAppearance" -> KeepAppearance(m)
    [] pass = "SamePage" -> SamePage(m)
    [] pass = "AffidavitBody" -> AffidavitBody(m)
    [] pass = "FalseAffidavit" -> FalseAffidavit(m)
    [] pass = "Reclaim" -> Reclaim(m)
    [] pass = "Merge" -> Merge(m)
    [] pass = "AnnexureNotApp" -> AnnexureNotApp(m)
    [] pass = "Renumber" -> Renumber(m)
    [] pass = "Appendix" -> Appendix(m)
    [] pass = "Packets" -> Packets(m)
    [] pass = "CitedRanges" -> CitedRanges(m)
    [] pass = "Bracketed" -> Bracketed(m)

IndexPasses == {"IndexBridge", "VolumeSections", "MasterIndex", "Renest", "PlaceExpected",
  "Unmentioned", "IndexPrinted", "RealignStamps", "RealignBoundaries", "LocalExhibits",
  "IndexedAnnexures", "IndexedOuter", "ForwardStamps"}
LatePasses == {"FrontJudgment", "KeepPartyLists", "Unverified", "BackMatter",
  "KeepAppearance", "SamePage", "AffidavitBody", "FalseAffidavit", "Reclaim", "Merge",
  "AnnexureNotApp", "Renumber", "Appendix", "Packets", "CitedRanges", "Bracketed"}
Apply(pass, m) == IF pass \in IndexPasses THEN Indexed(pass, m)
                  ELSE IF pass \in LatePasses THEN Late(pass, m) ELSE ByHeading(pass, m)

\* find_duplicate_split_parts: what has more than one run; petitioner's exhibits
\* and applications among the numbered ones.
Repeats(m) ==
  {[part |-> l, kept |-> FirstOf(Runs(m, l))] :
     l \in {k \in (Outer \ {"Record of Proceedings", "Index"}) \cup AppSet
                    \cup {n \in Numbered : Series(n) = "P"} :
              Cardinality(Runs(m, k)) > 1}}

Unaudited == [flags |-> {}, status |-> "pending"]

Init == \E b \in Books :
  /\ book = b.sheets
  /\ index = [items |-> {RowOfItem(item) : item \in Items(b.table)},
              rows |-> Aligned(b.table), lists |-> b.lists,
              back |-> b.back, apps |-> b.apps, drawn |-> b.drawn]
  /\ llama \in b.llama /\ map = llama
  /\ pc = 1 /\ duplicates = {} /\ audit = Unaudited

Repair ==
  /\ pc <= Len(Pipeline) /\ Pipeline[pc] # "Duplicates"
  /\ map' = Apply(Pipeline[pc], map)
  /\ pc' = pc + 1
  /\ UNCHANGED <<book, index, llama, duplicates, audit>>

NoteDuplicates ==
  /\ pc <= Len(Pipeline) /\ Pipeline[pc] = "Duplicates"
  /\ duplicates' = duplicates \cup Repeats(map)
  /\ pc' = pc + 1
  /\ UNCHANGED <<book, index, llama, map, audit>>

AuditSplit ==
  /\ pc = Len(Pipeline) + 1
  /\ audit' = Audit(map)
  /\ pc' = pc + 1
  /\ UNCHANGED <<book, index, llama, map, duplicates>>

Next == Repair \/ NoteDuplicates \/ AuditSplit
Spec == Init /\ [][Next]_vars /\ WF_vars(Next)
------------------------------------------------------------------------------
Repaired == pc > Len(Pipeline)

\* Maps stay maps from pages to known labels, whatever pass made them.
TypeOK ==
  /\ map \in Maps /\ pc \in 1..Len(Pipeline) + 2
  /\ \A d \in duplicates : d.part \in Labels /\ d.kept \subseteq Pages
  /\ audit.status \in {"pending", "clear", "needs_review"}

\* The court record that page p belongs to, by the folios, starts at folio 1.
FromFolioOne(p) == \E s \in 1..p :
  /\ Lower(s) /\ Folio(s) = 1
  /\ \A q \in s + 1..p : Folio(q) = 0 \/ InOrder(s, q)

\* What a lower court's paper inside an exhibit may still be taken for: the
\* challenged order, if the Index lists one or if its record starts at folio 1; a
\* memo of parties, if it is headed so and that record or the Index takes it out of
\* its exhibit; an Index or the rest of an affidavit, if it reads like one; the
\* representation behind the filing list, if the Index lists that.
MistakenFor(p) ==
  LET listed == index.rows # {} \/ index.lists # {} IN
  {l \in {Order} : FromFolioOne(p) \/ \E r \in index.rows : r.label = Order}
  \cup {l \in {"Memo of Parties"} : Anchor(p) = l /\ (FromFolioOne(p) \/ listed)}
  \cup {l \in {"Index"} : Says(p, "table")}
  \cup {l \in {"Affidavit"} : Says(p, "sworn")}
  \cup {l \in Representation : index.back # {}}

\* A page with a lower court's caption, and no other, inside the envelope of an
\* exhibit ends in an exhibit, or without a label, unless a row of the Index reaches
\* it: of this filing's own papers it is never taken for any but those above,
\* though forty passes run behind the last ForceNesting and many of them move
\* labels forward.
CourtKept == Repaired => \A p \in Enclosed :
  /\ Lower(p) /\ ~Own(p)
  /\ \A r \in index.rows : ~Within(p, r) /\ p \notin RowPages(r) \cup OuterPages(r)
  => map[p] \subseteq Annexures \cup MistakenFor(p)

\* Without an Index the only Form 28 heading, before every stamp, ends as the
\* Main Petition, unless two starts of the model's and three folios bracket it as
\* the first page of an exhibit, whose label it then has: the passes that drop false
\* petitions, keep one run of each label or give pages to exhibits by their stamps
\* never take the true one.
PetitionKept ==
  LET forms == {p \in Pages : Form28(p)}
      first == FirstForm28
  IN  Repaired /\ Rows(map) = {} /\ first # 0 /\ forms = {first}
      => \/ Main \in map[first]
         \/ \E s \in ModelBrackets(first) : map[first] = {ModelLabel(s)}

\* A page that exactly one row of the Index owns ends with the Annexure of that
\* row, unless it reads like an Index itself or two labels of the model and three
\* folios bracket it, whose label it then has: no other pass behind the last
\* IndexedAnnexures takes it away.
IndexHolds ==
  LET holds(owners) == \A p \in Pages :
        Cardinality(owners[p]) = 1 /\ ~Says(p, "table")
        => map[p] = owners[p] \/ \E s \in ModelBrackets(p) : map[p] = {ModelLabel(s)}
  IN  Repaired => holds(Owners(map))

\* In a book that the audit clears every document but the Appendix, whose pass
\* runs behind the last Collapse, is one run of pages: what the Index and the
\* citations tear apart later does not go out without a review.
ClearIsWhole == audit.status = "clear" =>
  \A l \in Labels \ {"Index", "Annexures", "Appendix"} : Cardinality(Runs(map, l)) <= 1

\* split_repair.py:1-6: "LlamaSplit is treated as a hint.  Final page labels come
\* from printed headings, annexure stamps".  Without an Index a stamp that is
\* found once and opens an exhibit decides the label of its sheet.
StampHolds == Repaired /\ Rows(map) = {} => \A s \in Starts :
  (\A t \in Starts \ {s} : Stamp(t) # Stamp(s)) => map[s] = {Stamp(s)}
==============================================================================
