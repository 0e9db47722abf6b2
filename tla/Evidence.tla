------------------------------- MODULE Evidence -------------------------------
(***************************************************************************)
(* What one defect check is shown of a filing: the pieces of pages that    *)
(* vector search returns, those the selector keeps (document_parts.py),    *)
(* the stored pages that are added to them, and the complete evidence of   *)
(* a retry (scrutiny_workflow.py).                                         *)
(*                                                                         *)
(* A page is indexed in pieces of some five hundred tokens.  <<p, k>> is   *)
(* piece k of page p; <<p, 0>> is the whole page, taken from the stored    *)
(* layout.  A filing f has                                                 *)
(*   f.labels   the document parts of each page,                           *)
(*   f.size     the pieces of each page, 0 for a page without text,        *)
(*   f.layout   whether the layout is stored.                              *)
(* A check c has, from its catalogue row,                                  *)
(*   c.required the parts it needs, c.look those it names to search,       *)
(*   c.context  parts that go with them in a retry,                        *)
(*   c.strategy how much of a part it must see,                            *)
(*   c.each     whether it asks for each annexure,                         *)
(*   c.ending   whether it starts from the last page of a part,            *)
(*   c.anchors  the pages where an authored heading or phrase stands.      *)
(***************************************************************************)
EXTENDS Naturals, Sequences, SequencesExt, FiniteSets, FiniteSetsExt

CONSTANTS
  Ceiling,   \* SCRUTINY_MAX_CHUNKS: excerpts of one check
  Narrow,    \* excerpts of a check of one document part
  Room,      \* MAX_EVIDENCE_CHARS, in pieces
  TopK       \* hits of one search

ASSUME EvidenceAssumption == {Ceiling, Narrow, Room, TopK} \subseteq Nat \ {0}

Numbered == {"P1", "P2"}             \* numbered annexures
Strategies == {"exhaustive_part", "boundary_and_neighbors", "semantic"}

Pages(f) == DOMAIN f.labels

\* _part_match: the catch-all "Annexures" takes every numbered one.
Covers(labels, part) ==
  part \in labels \/ (part = "Annexures" /\ labels \cap Numbered # {})

\* A stable sort, and the elements of a sequence at some of its positions.  The
\* provers have no definition of SortSeq and SelectSeq.
Ordered(seq, key) ==
  LET Rank(i) == Cardinality({j \in DOMAIN seq :
                                key[j] < key[i] \/ (key[j] = key[i] /\ j <= i)})
  IN [r \in DOMAIN seq |-> seq[CHOOSE i \in DOMAIN seq : Rank(i) = r]]

Sorted(S) == LET any == SetToSeq(S) IN Ordered(any, any)
Kept(seq, at) == LET in == Sorted(at) IN [i \in DOMAIN in |-> seq[in[i]]]

PagesOf(f, part) == {p \in Pages(f) : Covers(f.labels[p], part)}
TextPages(f, part) == {p \in PagesOf(f, part) : f.size[p] > 0}
PageSet(chunks) == {k[1] : k \in Range(chunks)}

\* build_page_records: an empty page leaves a manifest record, never evidence.
Pieces(f, p) == {<<p, k>> : k \in 1..f.size[p]}
TextOf(f, k) == IF k[2] = 0 THEN Pieces(f, k[1]) ELSE {k}

Missing(f, c, chunks) ==
  {part \in Range(c.required) : PageSet(chunks) \cap PagesOf(f, part) = {}}

(***************************************************************************)
(* Search.  A query filters on the active generation and on one part; a    *)
(* query that fails gives no hits (gather_filing_evidence._run_one).       *)
(***************************************************************************)
Hits(f, part) ==
  {S \in SUBSET UNION {Pieces(f, p) : p \in PagesOf(f, part)} :
     Cardinality(S) <= TopK}

Searches(f, parts) ==
  {UNION {hit[part] : part \in parts} :
     hit \in {h \in [parts -> UNION {Hits(f, part) : part \in parts}] :
                \A part \in parts : h[part] \in Hits(f, part)}}

\* Score, term hits and the reranker decide the order.
Rankings(pool) == SetToSeqs(pool)

(***************************************************************************)
(* select_chunks_for_defect                                                *)
(***************************************************************************)
Budget(c, ceiling) ==
  IF c.each \/ c.strategy = "exhaustive_part" \/ Len(c.look) > 1 \/ ceiling < Narrow
  THEN Max({1, ceiling}) ELSE Max({1, Narrow})

Usable(f, c, ranked) ==
  Kept(ranked, {i \in DOMAIN ranked : \/ f.labels[ranked[i][1]] # {"Index"}
                                     \/ "Index" \in Range(c.required)})

OnePerPart(f, c, ranked, room) ==
  FoldLeft(LAMBDA acc, part :
             LET free == Kept(ranked, {i \in DOMAIN ranked :
                                         /\ ranked[i] \notin Range(acc)
                                         /\ Covers(f.labels[ranked[i][1]], part)})
             IN IF Len(acc) < room /\ free # <<>> THEN Append(acc, Head(free)) ELSE acc,
           <<>>, c.look)

NewAnnexure(f, acc, k) ==
  /\ f.labels[k[1]] \cap Numbered # {}
  /\ ~ f.labels[k[1]] \cap Numbered \subseteq UNION {f.labels[p] : p \in PageSet(acc)}

NewPage(f, c, acc, k) ==
  /\ k[1] \notin PageSet(acc)
  /\ \E part \in Range(c.look) : Covers(f.labels[k[1]], part)

\* Adds the chunks of order that qualify, while there is room: those of an
\* annexure or of a page that is not there yet, or any.
Take(f, c, chosen, order, room, goal) ==
  FoldLeft(LAMBDA acc, k : IF /\ Len(acc) < room /\ k \notin Range(acc)
                              /\ goal = "annexure" => NewAnnexure(f, acc, k)
                              /\ goal = "page" => NewPage(f, c, acc, k)
                           THEN Append(acc, k) ELSE acc,
           chosen, order)

ByPage(chunks) == Ordered(chunks, [i \in DOMAIN chunks |-> chunks[i][1]])

\* near: how many of the leading leftovers score near the best of them.
Select(f, c, pool, ceiling, near) ==
  LET ranked == Usable(f, c, pool)
      room == Budget(c, ceiling)
      parts == OnePerPart(f, c, ranked, room)
      annexures == IF c.each
                   THEN Take(f, c, parts, ranked, room, "annexure") ELSE parts
      whole == IF c.strategy = "exhaustive_part"
               THEN Take(f, c, annexures, ByPage(ranked), room, "page") ELSE annexures
      rest == Kept(ranked, {i \in DOMAIN ranked : ranked[i] \notin Range(whole)})
  IN ByPage(Take(f, c, whole, SubSeq(rest, 1, Min({near, Len(rest)})), room, "any"))

(***************************************************************************)
(* _add_layout_fallback_chunks: an excerpt of a page goes before the page. *)
(***************************************************************************)
\* The affidavit of a petition is the run of pages that follows it.
FirstRun(pages) ==
  {p \in pages : \A q \in Min(pages)..p : q \in pages}

Candidates(f, c, part) ==
  LET all == TextPages(f, part)
      after == {p \in all : \A q \in PagesOf(f, "Main") : p > q}
  IN IF /\ part = "Affidavit" /\ "Main" \in Range(c.required)
        /\ PagesOf(f, "Main") # {} /\ after # {}
     THEN FirstRun(after) ELSE all

AddPage(selected, pages, acc, p) ==
  LET excerpt == Kept(selected, {i \in DOMAIN selected : selected[i][1] = p})
  IN IF p \notin pages \/ p \in PageSet(acc) THEN acc
     ELSE Append(acc, IF excerpt = <<>> THEN <<p, 0>> ELSE Head(excerpt))

AddPages(selected, pages, acc, room) ==
  FoldLeft(LAMBDA a, p : IF Len(a) < room THEN AddPage(selected, pages, a, p) ELSE a,
           acc, Sorted(pages))

\* The page of each part with the authored heading.
Anchored(f, c, selected, room) ==
  FoldLeft(LAMBDA acc, part :
             LET found == Candidates(f, c, part) \cap c.anchors
             IN IF found = {} THEN acc ELSE AddPages(selected, {Min(found)}, acc, room),
           <<>>, c.required)

\* The pages beside an anchor.  Only the second one looks at the room again.
Around(f, c, selected, acc, k, part, room) ==
  LET pages == IF Covers(f.labels[k[1]], part) THEN Candidates(f, c, part) ELSE {}
      before == AddPage(selected, pages, acc, k[1] - 1)
  IN IF before # acc /\ Len(before) >= room THEN before
     ELSE AddPage(selected, pages, before, k[1] + 1)

AroundAll(f, c, selected, acc, k, room) ==
  FoldLeft(LAMBDA a, part : Around(f, c, selected, a, k, part, room), acc, c.required)

Beside(f, c, selected, anchors, room) ==
  FoldLeft(LAMBDA acc, k : IF Len(acc) >= room THEN acc
                           ELSE AroundAll(f, c, selected, acc, k, room),
           anchors, anchors)

EveryPage(selected, chosen, groups, room) ==
  FoldLeft(LAMBDA acc, pages : AddPages(selected, pages, acc, room), chosen, groups)

\* One end of each group of pages, then the other.
EndOf(pages, last) == IF last THEN Max(pages) ELSE Min(pages)

Ends(selected, chosen, groups, last, room) ==
  FoldLeft(LAMBDA acc, pages : IF pages = {} THEN acc
                               ELSE AddPages(selected, {EndOf(pages, last)}, acc, room),
           chosen, groups)

Boundaries(c, selected, chosen, groups, room) ==
  Ends(selected, Ends(selected, chosen, groups, c.ending, room), groups, ~ c.ending, room)

\* The pages of each annexure, by its first page.
AnnexurePages(f, pages) ==
  LET any == SetToSeq({pages \cap TextPages(f, n) : n \in Numbered} \ {{}})
  IN Ordered(any, [i \in DOMAIN any |-> Min(any[i])])

Added(f, c, selected, room) ==
  LET options == [i \in 1..Len(c.required) |-> Candidates(f, c, c.required[i])]
      anchors == Anchored(f, c, selected, room)
      beside == IF c.strategy = "boundary_and_neighbors"
                THEN Beside(f, c, selected, anchors, room) ELSE anchors
      whole == IF c.strategy = "exhaustive_part"
               THEN EveryPage(selected, beside, options, room) ELSE beside
      annexures == IF c.each
                   THEN Boundaries(c, selected, whole, AnnexurePages(f, UNION Range(options)), room)
                   ELSE whole
      ends == Boundaries(c, selected, annexures, options, room)
      Target(i) == Missing(f, c, <<selected[i]>>) # Range(c.required)
      target == Kept(selected, {i \in DOMAIN selected : Target(i)})
      other == Kept(selected, {i \in DOMAIN selected : ~ Target(i)})
  IN IF UNION Range(options) = {} THEN selected
     ELSE Take(f, c, Take(f, c, ends, target, room, "any"), other, room, "any")

Fallback(f, c, selected, room) ==
  IF f.layout /\ c.required # <<>> THEN ByPage(Added(f, c, selected, room)) ELSE selected

\* An exhaustive check may have as many excerpts as its parts have pages.
PageBudget(f, c) ==
  LET pages == UNION {PagesOf(f, part) : part \in Range(c.required)}
  IN IF c.strategy = "exhaustive_part" /\ f.layout
     THEN Max({Budget(c, Ceiling), Cardinality(pages)}) ELSE Budget(c, Ceiling)

(***************************************************************************)
(* The prompt, and the complete evidence of a retry                        *)
(***************************************************************************)
Cost(f, k) == Cardinality(TextOf(f, k))
CostOf(f, chunks) == FoldLeft(LAMBDA sum, k : sum + Cost(f, k), 0, chunks)

Truncated(f, chunks) == CostOf(f, chunks) > Room

\* _format_evidence leaves out what does not fit and goes on.
Sent(f, chunks) ==
  FoldLeft(LAMBDA acc, k : IF CostOf(f, acc) + Cost(f, k) <= Room THEN Append(acc, k)
                           ELSE acc,
           <<>>, chunks)

\* Every page with text of the parts that the check needs.
CompletePages(f, c) ==
  IF f.layout THEN UNION {TextPages(f, part) : part \in Range(c.required) \cup c.context}
  ELSE {}
Complete(f, c) ==
  LET pages == Sorted(CompletePages(f, c)) IN [i \in 1..Len(pages) |-> <<pages[i], 0>>]

\* Seeded fault: a batch is closed only after it grew too long.
Batches_Late(f, chunks) ==
  FoldLeft(LAMBDA acc, k :
             IF CostOf(f, Last(acc)) > Room THEN Append(acc, <<k>>)
             ELSE Append(Front(acc), Append(Last(acc), k)),
           << <<>> >>, chunks)

Batches(f, chunks) ==
  FoldLeft(LAMBDA acc, k :
             IF Last(acc) # <<>> /\ CostOf(f, Last(acc)) + Cost(f, k) > Room
             THEN Append(acc, <<k>>)
             ELSE Append(Front(acc), Append(Last(acc), k)),
           << <<>> >>, chunks)

\* The pages a check must have been shown before it may find no defect.
MustSee(f, c, retry, part) ==
  LET pages == PagesOf(f, part)
  IN IF retry \/ c.strategy = "exhaustive_part" THEN pages
     ELSE {Min(pages), Max(pages)}

\* Seeded fault: a page of each part is enough.
ScopeComplete_Found(f, c, chunks, retry) ==
  chunks # <<>> /\ Missing(f, c, chunks) = {} /\ f.layout

\* _retrieval_evidence_complete
ScopeComplete(f, c, chunks, retry) ==
  /\ chunks # <<>> /\ Missing(f, c, chunks) = {} /\ f.layout
  /\ retry \/ c.strategy # "semantic" \/ c.required = <<>>
  /\ \A part \in Range(c.required) :
       PagesOf(f, part) # {} /\ MustSee(f, c, retry, part) \subseteq PageSet(chunks)
=============================================================================
