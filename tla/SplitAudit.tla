------------------------------- MODULE SplitAudit -------------------------------
(***************************************************************************)
(* split_audit.audit_compiled_split: the repaired map is compared with the *)
(* expected order of a paper book, with the Index and with the exhibits    *)
(* that the book mentions.  Every finding is a flag, and a page is clear   *)
(* only if it has exactly one label and no flag is about that label.       *)
(* What the classifiers said of a page is left out here.                   *)
(***************************************************************************)
EXTENDS BackRepair

SequenceOrder == <<
  "AOR's Declaration", "Advocate's Checklist", "Cover Page", "Record of Proceedings",
  "Index", "Office Report", "Listing Proforma", "Synopsis", "List of Dates", Order, Main,
  "Affidavit", "AOR's Certificate", "Appendix", "Annexures", "Applications",
  "Memo of Parties", "Memo of Appearance", "Vakalatnama", "Filing Memo">>
Flexible == {{"Affidavit", "AOR's Certificate"}, {"Annexures", "Applications"},
             Representation \cup {"Filing Memo"}}
IndexOptional == {"Index", "Cover Page", "Advocate's Checklist", "Record of Proceedings",
                  "Filing Memo", "AOR's Declaration", "AOR's Certificate"}

\* One span for each document, from its first page to its last; the preface and
\* the papers of representation are filed as one document each.
Pairs == {FrontParts, {"Vakalatnama", "Memo of Appearance"}}
Members(l) == IF \E pair \in Pairs : l \in pair THEN CHOOSE pair \in Pairs : l \in pair
              ELSE {l}
On(m, l) == {p \in Pages : m[p] \cap Members(l) # {}}
Documents(m) == {Members(l) : l \in UNION {m[p] : p \in Pages}}
OnAny(m, d) == {p \in Pages : m[p] \cap d # {}}

Family(l) == IF l \in Annexures THEN "Annexures"
             ELSE IF l \in AppSet THEN "Applications" ELSE l
SubRank(l) == IF l \in Numbered
              THEN (CASE Series(l) = "P" -> 0 [] Series(l) = "R" -> 1000 [] OTHER -> 2000)
                     + Number(l)
              ELSE IF l \in AppSet THEN CHOOSE i \in DOMAIN Apps : Apps[i] = l ELSE 0
BlockRank(l) == CHOOSE i \in DOMAIN SequenceOrder : SequenceOrder[i] = Family(l)
DocRank(d) == LET l == CHOOSE k \in d : \A j \in d : BlockRank(k) <= BlockRank(j)
              IN  <<BlockRank(l), SubRank(l)>>
Below(a, b) == a[1] < b[1] \/ (a[1] = b[1] /\ a[2] < b[2])
\* Papers filed as one document have a name of their own, in no group.
FlexiblePair(d, e) ==
  /\ d \notin Pairs /\ e \notin Pairs
  /\ \E group \in Flexible : {Family(l) : l \in d \cup e} \subseteq group

Flag(code, severity, part) == [code |-> code, severity |-> severity, part |-> part]

\* check_document_sequence: consecutive documents, by first page.  Documents that
\* open on one sheet are taken in their expected order.
OutOfSequence(m) ==
  LET first(d) == Min(OnAny(m, d))
      before(d, e) == \/ first(d) < first(e)
                      \/ first(d) = first(e) /\ Below(DocRank(d), DocRank(e))
      adjacent(d, e) == before(d, e) /\ ~\E c \in Documents(m) : before(d, c) /\ before(c, e)
  IN  {Flag("out_of_sequence", "warning", d) : d \in {c \in Documents(m) :
         \E e \in Documents(m) : adjacent(c, e) /\ Below(DocRank(e), DocRank(c))
                                 /\ ~FlexiblePair(c, e)}}

\* The rows as the consistency check gets them, without the ranges that were
\* recovered: a table read from the drawing of the page is put on the sheets that
\* carry its folios, a plain one is not.
CheckedRows(m) ==
  LET body == {p \in Pages : m[p] \cap ({Main, Order} \cup Annexures) # {}}
      pages(r) == {p \in Pages : Within(p, r) /\ (body = {} \/ p >= Min(body))}
      sheets(r) == IF pages(r) = {} THEN Row(r.label, 0, 0)
                   ELSE Row(r.label, Min(pages(r)), Max(pages(r)))
  IN  IF ~Readable(m) THEN {}
      ELSE IF index.drawn THEN {sheets(r) : r \in index.items} ELSE index.items

Near(a, b) == a - b \in -1..1
\* The row of the petition covers its certificate and affidavit.
SpanOf(m, l) ==
  IF l = Main THEN On(m, Main) \cup On(m, "AOR's Certificate") \cup On(m, "Affidavit")
  ELSE On(m, l)

\* check_index_consistency, row by row
RowFlags(m, r) ==
  LET missing == On(m, r.label) = {}
      early == /\ r.label \in {"Cover Page", "Listing Proforma", "Record of Proceedings",
                               "Office Report"}
               /\ r.first \in 1..20 /\ ~missing /\ ~Near(Min(On(m, r.label)), r.first)
      absurd == r.first > 2 * PageCount
      outside == r.first > 0 /\ (r.first > PageCount \/ r.last > PageCount)
  IN  IF early \/ absurd THEN {}
      ELSE IF outside THEN {Flag("index_page_out_of_range", "error", {r.label})}
      ELSE IF missing
      THEN IF r.label \in {"Cover Page", "Record of Proceedings"} THEN {}
           ELSE {Flag("in_index_missing_in_file", "error", {r.label})}
      ELSE IF r.first = 0 THEN {}
      ELSE IF ~Near(Min(SpanOf(m, r.label)), r.first)
      THEN {Flag("index_page_mismatch", "warning", {r.label})}
      ELSE IF r.last > 0 /\ ~Near(Max(SpanOf(m, r.label)), r.last)
      THEN {Flag("index_end_page_mismatch", "error", {r.label})} ELSE {}

Unlisted(m) ==
  LET listed == {r.label : r \in CheckedRows(m)}
      mentioned == listed \cup (IF Main \in listed THEN {"Affidavit"} ELSE {})
                          \cup (IF "Synopsis" \in listed THEN {"List of Dates"} ELSE {})
  IN  {Flag("in_file_missing_in_index", "warning", d) :
         d \in {e \in Documents(m) : e \cap (mentioned \cup IndexOptional) = {}}}

IndexFlags(m) ==
  IF CheckedRows(m) = {}
  THEN {Flag(IF \E p \in Pages : "Index" \in m[p] THEN "index_unparsed" ELSE "index_missing",
             "warning", {"Index"})}
  ELSE UNION {RowFlags(m, r) : r \in CheckedRows(m)} \cup Unlisted(m)

\* check_unresolved_source_transitions: a judgment that ends inside an exhibit,
\* with another court's papers behind it.
Transition(m) ==
  LET parts(p) == IF p \in Pages THEN m[p] \cap (Annexures \cup {Order}) ELSE {}
      held(l, p) == \E q \in 1..p - 1 : Says(q, "judgment") /\ \A r \in q..p - 1 : l \in parts(r)
      from == {p \in Pages : /\ p > 2 /\ p < PageCount /\ Says(p, "docket") /\ Lower(p)
                             /\ Says(p - 1, "judgment") /\ Says(p - 2, "judgment")
                             /\ Says(p + 1, "packet") /\ ~Stamped(p)}
  IN  {Flag("unresolved_source_transition", "warning", {l}) :
         l \in {k \in Annexures \cup {Order} : \E p \in from :
                  /\ k \in parts(p) \cap parts(p - 1) \cap parts(p + 1) /\ held(k, p)}}

\* collect_expected_annexures, attached_annexures
Cited(m) ==
  UNION {Cites(p) : p \in {q \in Pages : m[q] \cap {"List of Dates", Main} # {}}}
Expected(m) == Listed(m) \cup Cited(m)
Attached(m) == UNION {OwnAnnexure(m, p) : p \in Pages}
InventoryFlags(m) ==
  {Flag("annexure_mentioned_not_attached", "error", {l}) : l \in Expected(m) \ Attached(m)}
  \cup {Flag("annexure_attached_not_mentioned", "warning", {l}) :
          l \in Attached(m) \ Expected(m)}

Flags(m) == OutOfSequence(m) \cup Transition(m) \cup IndexFlags(m) \cup InventoryFlags(m)

\* audit_compiled_split
PageClear(m, p) == Cardinality(m[p]) = 1 /\ \A f \in Flags(m) : m[p] \cap f.part = {}
Audit(m) == [flags |-> Flags(m),
             status |-> IF Flags(m) = {} /\ \A p \in Pages : PageClear(m, p)
                        THEN "clear" ELSE "needs_review"]
==============================================================================
