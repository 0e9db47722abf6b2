------------------------------ MODULE IndexRepair ------------------------------
(***************************************************************************)
(* The passes of split_repair.py that use the Index of the bundle: its     *)
(* rows give a document and the folios printed on its pages, and the       *)
(* Annexures that it lists.  The sheets carry folios of their own, which   *)
(* scanning loses, so a row is resolved to pages by the folios that can be *)
(* read.  Volumes that number their pages anew are left out, and so are    *)
(* the lettered folios of the front matter.                                *)
(*                                                                         *)
(* Two more facts about a page: match, the listed Annexure that the record *)
(* opening on it matches by content, and cites, the ranges that a pleading *)
(* on it cites.                                                            *)
(***************************************************************************)
EXTENDS IndexRows

VARIABLE index   \* [items, rows, lists, back, apps, drawn]: what its pages say

Readable(m) == \E p \in Pages : Says(p, "table") /\ "Index" \in m[p] \cup {Anchor(p)}
Rows(m) == IF Readable(m) THEN index.rows ELSE {}
\* collect_index_annexure_entries
Listed(m) == IF Readable(m) THEN index.lists ELSE {}

Cites(p) == {c.label : c \in book[p].cites} \cup ({Stamp(p)} \ {None})

Within(p, row) == Folio(p) \in row.first..row.last /\ Folio(p) # 0
OwnAnnexure(m, p) == m[p] \cap Annexures
Paint(m, pages, l) == [p \in Pages |-> IF p \in pages THEN {l} ELSE m[p]]
\* The pages from s on, up to the first one on which stop holds.
Until(s, end, stop(_)) == {p \in s..end : \A q \in s..p : ~stop(q)}
\* Page p gets the label of the first of the records that reach it.
Claim(m, reaching, label) ==
  [p \in Pages |-> IF reaching[p] = {} THEN m[p]
                   ELSE {label[CHOOSE s \in reaching[p] : TRUE]}]

------------------------------------------------------------------------------
(***************************************************************************)
(* From printed folios to pages                                            *)
(***************************************************************************)
Support(offset, from, to) ==
  Cardinality({p \in Pages : p \in from..to /\ Folio(p) # 0 /\ p - Folio(p) = offset})

\* The offset with the most readable folios, the smaller one on a tie.
MostOften(offsets, n) ==
  CHOOSE x \in offsets : \A y \in offsets : n[x] > n[y] \/ (n[x] = n[y] /\ x <= y)

Agreeing(pages, o) == Cardinality({p \in pages : p - Folio(p) = o})
BestOffset(pages) ==
  LET offsets == {p - Folio(p) : p \in pages} IN
  MostOften(offsets, [o \in offsets |-> Agreeing(pages, o)])

\* _physical_pages_for_index_row: by both end folios, by an offset that two
\* folios of the span share, or only the sheets whose folio can be read; when
\* there is none, by an offset that three folios of its neighbours share.
NearPages(row, near) ==
  LET o == MostOften(near, [x \in near |-> Support(x, 1, PageCount)])
  IN  IF near = {} THEN {} ELSE row.first + o..row.last + o

SharedPages(row, exact, o) ==
  IF o >= 0 /\ Agreeing(exact, o) >= 2
  THEN (row.first + o..row.last + o) \cap Pages ELSE exact

\* Inserted sheets (59A) may stretch the span a little.
EndsFit(row, exact, from, to) ==
  LET length == row.last - row.first + 1
      slack == Max({3, length \div 20})
      best == BestOffset(exact)
      about == best - slack..best + slack
  IN  /\ from <= to /\ to - from + 1 \in length - slack..length + slack
      /\ Agreeing(exact, best) < 2 \/ from - row.first \in about \/ to - row.last \in about

PagesReading(row, exact) ==
  LET from == {p \in exact : Folio(p) = row.first}
      to == {p \in exact : Folio(p) = row.last}
      known == {p \in Pages : Folio(p) # 0 /\ p - Folio(p) >= 0}
      near == {o \in {p - Folio(p) : p \in known} :
                 /\ row.first + o >= 1 /\ row.last + o <= PageCount
                 /\ Support(o, 1, PageCount) >= 3}
  IN  IF exact = {} THEN NearPages(row, near)
      ELSE IF from # {} /\ to # {} /\ EndsFit(row, exact, Min(from), Max(to))
           THEN Min(from)..Max(to)
      ELSE SharedPages(row, exact, BestOffset(exact))

RowPages(row) == PagesReading(row, {p \in Pages : Within(p, row)})

\* _bracketed_annexure_offset: outer documents open where it says on both sides.
Bracketing(rows) ==
  LET ann == {r \in rows : r.label \in Annexures}
      outer == rows \ ann
      opens(r, o) == r.first + o \in Pages /\ Anchor(r.first + o) = r.label
  IN  {o \in 0..PageCount : ann # {} /\
         LET first == Min({r.first : r \in ann}) last == Max({r.last : r \in ann}) IN
         /\ \E r \in outer : r.last < first /\ opens(r, o)
         /\ \E r \in outer : r.first > last /\ opens(r, o)
         /\ Support(o, first + o, last + o) > 0}

\* _consecutive_stamped_annexure_folios: three stamps in a row, each found once,
\* prove where the first two of them lie.
Proven ==
  LET once == {p \in Pages : /\ Stamped(p) /\ Folio(p) # 0
                             /\ \A q \in Pages \ {p} : Stamp(q) # Stamp(p)}
      next(p) == {q \in once : q > p}
      chain(p, q) == /\ Series(Stamp(p)) = Series(Stamp(q))
                     /\ Number(Stamp(q)) = Number(Stamp(p)) + 1
                     /\ p - Folio(p) = q - Folio(q)
      follows(p) == next(p) # {} /\ chain(p, Min(next(p)))
      inChain(p) == follows(p) /\ (\/ follows(Min(next(p)))
                                   \/ \E r \in once : follows(r) /\ Min(next(r)) = p)
  IN  {[label |-> Stamp(p), last |-> Folio(Min(next(p))) - 1] : p \in {q \in once : inChain(q)}}

\* The row does not begin behind the exhibit that stamps prove.
Current(row) == \A s \in Proven : s.label = row.label => row.first <= s.last

Conflicts(p, l) ==
  \/ Anchor(p) \notin {None, l} /\ ~(l = Main /\ Anchor(p) \in {"AOR's Certificate", "Affidavit"})
  \/ l # "Index" /\ Says(p, "table")

------------------------------------------------------------------------------
(***************************************************************************)
(* Index ranges                                                            *)
(***************************************************************************)
\* The rows that _apply_indexed_annexure_ranges uses, and their pages.
AnnexureRows(m) ==
  LET rows == Rows(m)
      front == Max({0} \cup {r.last : r \in {s \in rows : s.label \in
                 {Main, "AOR's Declaration", "AOR's Certificate", "Affidavit", "Appendix"}}})
  IN  {r \in rows : r.label \in Annexures /\ r.first > front /\ Current(r)}

\* Both folios at the ends, or the two just outside, can be read.
VerifiedAt(row, pages, brackets) ==
  LET reads(p, n) == p \in Pages /\ Folio(p) = n /\ n # 0 IN
  /\ pages # {} /\ Cardinality(pages) = row.last - row.first + 1
  /\ pages = Min(pages)..Max(pages)
  /\ \/ reads(Min(pages), row.first) /\ reads(Max(pages), row.last)
     \/ reads(Min(pages) - 1, row.first - 1) /\ reads(Max(pages) + 1, row.last + 1)
  /\ \/ Cardinality(brackets) # 1 \/ Stamp(Min(pages)) = row.label
     \/ Min(pages) - row.first \in brackets

RangeAt(row, pages, brackets, verified) ==
  LET o == CHOOSE x \in brackets : TRUE
      shifted == row.first + o..row.last + o
  IN  IF Cardinality(brackets) = 1 /\ ~verified /\ shifted \subseteq Pages
      THEN shifted ELSE pages

SupportedAt(row, range, brackets, verified) ==
  \/ Cardinality(brackets) = 1 \/ verified
  \/ \E p \in range : Within(p, row)
  \/ \E p \in Pages : row.label \in {Stamp(p), Anchor(p)}

\* What _apply_indexed_annexure_ranges knows of a row.
Resolved(row, pages, brackets) ==
  LET verified == VerifiedAt(row, pages, brackets)
      range == RangeAt(row, pages, brackets, verified)
  IN  [label |-> row.label, range |-> range, verified |-> verified,
       supported |-> SupportedAt(row, range, brackets, verified)]

ResolvedRows(m) ==
  {r \in {Resolved(row, RowPages(row), Bracketing(Rows(m))) : row \in AnnexureRows(m)} :
     r.supported}

\* The one row that owns page p; overlapping rows own nothing.
OwnersAmong(claims) ==
  {r.label : r \in IF \E c \in claims : c.verified THEN {c \in claims : c.verified}
                  ELSE claims}
Owners(m) == [p \in Pages |-> OwnersAmong({r \in ResolvedRows(m) : p \in r.range})]

\* _apply_indexed_annexure_ranges
IndexedBy(m, owners, settled) ==
  LET owned == {p \in Pages : Cardinality(owners[p]) = 1} IN
  IF owned = {} THEN m
  ELSE [p \in Pages |-> IF p \in owned THEN owners[p] ELSE m[p] \ settled]

IndexedAnnexures(m) == IndexedBy(m, Owners(m), {r.label : r \in ResolvedRows(m)})

RowOf(m, l) == {r \in Rows(m) : r.label = l}
\* Pages of an outer row: as above, and between the end folios that are found.
OuterPages(row) ==
  LET free == {p \in Pages : Folio(p) # 0 /\ ~Conflicts(p, row.label)}
      from == {p \in free : Folio(p) = row.first}
      to == {p \in free : Folio(p) = row.last}
  IN  {p \in RowPages(row) : ~Conflicts(p, row.label)}
      \cup (IF from = {} THEN {}
            ELSE IF to # {} THEN Min(from)..Max(to)
            ELSE Min(from)..Min({PageCount, Min(from) + row.last - row.first}))

\* The challenged judgment, up to the petition, when one row lists it.
OrderBehind(ranged, front, main, length) ==
  LET titled == {p \in front + 1..main - 1 : Lower(p) /\ Says(p, "judgment")}
      bracketed ==
        /\ main - 1 - front = length /\ Lower(front + 1)
        /\ \A p \in front + 1..main - 1 :
             /\ ~Stamped(p) /\ ~Own(p)
             /\ Anchor(p) \notin {"Filing Memo", "Vakalatnama", "Index", "Appendix",
                                  "Affidavit"} \cup AppSet
      carried(start) == Until(start, main - 1, LAMBDA q : q > start /\ Conflicts(q, Order))
  IN  IF titled # {} THEN Paint(ranged, carried(Min(titled)), Order)
      ELSE IF bracketed THEN Paint(ranged, carried(front + 1), Order) ELSE ranged

OrderBefore(ranged, main, length) ==
  LET last == Max({0} \cup {p \in 1..main - 1 :
                ranged[p] \cap (FrontParts \cup {"Memo of Parties"}) # {}})
      due == main - length
      front == IF /\ due \in 1..main - 1 /\ Lower(due)
                  /\ \E p \in 1..due - 1 : Anchor(p) \in FrontParts
               THEN Min({last, due - 1}) ELSE last
  IN  OrderBehind(ranged, front, main, length)

IndexedOrder(m) ==
  LET row == CHOOSE r \in RowOf(m, Order) : TRUE
      forms == {p \in Pages : Form28(p)}
      ranged(pages) == [p \in Pages |->
                          IF /\ p \in pages /\ ~Conflicts(p, Order)
                             /\ \A q \in pages : q <= p => ~Form28(q)
                          THEN {Order} ELSE m[p]]
  IN  OrderBefore(ranged(OuterPages(row)),
                  IF forms = {} THEN PageCount + 1 ELSE Min(forms),
                  row.last - row.first + 1)

\* The petition with its appendix, certificate and affidavit.
MainOver(m, pages) ==
  LET at(l) == {p \in pages : Anchor(p) = l}
      appendix == IF at("Appendix") = {} THEN {}
                  ELSE Until(Min(at("Appendix")), PageCount,
                         LAMBDA q : /\ q > Min(at("Appendix")) /\ q \in pages
                                    /\ \/ Anchor(q) \notin {None, "Appendix", Main}
                                       \/ Stamped(q) \/ Begins(q))
      behind == {p \in pages : at("AOR's Certificate") # {}
                               /\ p > Max(at("AOR's Certificate"))}
      sworn == IF at("Affidavit") # {} THEN at("Affidavit") ELSE behind
      part(p) == IF Anchor(p) = "AOR's Certificate" THEN {Anchor(p)}
                 ELSE IF p \in appendix THEN {"Appendix"}
                 ELSE IF sworn # {} /\ p >= Min(sworn) THEN {"Affidavit"}
                 ELSE IF Anchor(p) \in {None, Main} THEN {Main} ELSE m[p]
  IN  IF \E p \in pages : Form28(p)
      THEN [p \in Pages |-> IF p \in pages THEN part(p) ELSE m[p]] ELSE m

IndexedMain(m) == MainOver(m, OuterPages(CHOOSE r \in RowOf(m, Main) : TRUE))

\* _apply_indexed_outer_document_ranges
IndexedOuter(m) ==
  LET forms == [p \in Pages |->
        LET rows == {r \in Rows(m) : /\ r.label \in {"Office Report", "Listing Proforma"}
                                     /\ p \in OuterPages(r) /\ ~Conflicts(p, r.label)}
        IN  IF rows = {} THEN m[p] ELSE {(CHOOSE r \in rows : TRUE).label}]
      withOrder(n) == IF Cardinality(RowOf(m, Order)) = 1 THEN IndexedOrder(n) ELSE n
      withMain(n) == IF Cardinality(RowOf(m, Main)) = 1 THEN IndexedMain(n) ELSE n
  IN  withMain(withOrder(forms))

\* _apply_index_printed_pages: a row counts once a sheet shows its document.
PrintedPart(p) == IF Stamped(p) THEN Stamp(p) ELSE Anchor(p)
PrintedBy(m, sure) ==
  LET in(p, l) == \E r \in sure : r.label = l /\ Within(p, r)
      anchored == {l \in Labels : \E p \in Pages : l \in m[p] /\ in(p, l)}
      row(p, owner, leaked) ==
        IF Folio(p) = 0 \/ PrintedPart(p) = "Index"
           \/ (owner # {} /\ PrintedPart(p) \notin owner \cup {None}) THEN m[p]
        ELSE IF /\ owner # {}
                /\ m[p] = {} \/ (Order \in m[p] /\ Anchor(p) # Order) \/ leaked
             THEN {CHOOSE l \in owner : TRUE}
        ELSE IF owner = {} /\ leaked /\ PrintedPart(p) = None THEN {} ELSE m[p]
  IN  [p \in Pages |-> row(p, {r.label : r \in {s \in sure : Within(p, s)}},
                           \E l \in m[p] \cap anchored : ~in(p, l))]

IndexPrinted(m) ==
  PrintedBy(m, {r \in Rows(m) : \E p \in Pages : Within(p, r) /\ PrintedPart(p) = r.label})

------------------------------------------------------------------------------
(***************************************************************************)
(* Pages of the Index itself                                               *)
(***************************************************************************)
\* _restore_index_bridge_pages
BridgeStep(b, p) ==
  IF /\ p \in 2..PageCount - 1 /\ "Index" \in b.m[p - 1] /\ Says(p, "table")
     /\ \/ Anchor(p + 1) \in {"Office Report", "Listing Proforma", "Cover Page",
                              "Record of Proceedings"}
        \/ /\ "Index" \in b.m[p + 1]
           /\ b.m[p] \subseteq FrontParts \cup {"Listing Proforma"}
  THEN Put(b, p, {"Index"}) ELSE b
IndexBridge(m) ==
  LET forms == {p \in Pages : Form28(p)}
      front == 1..(IF forms = {} THEN PageCount ELSE Min(forms) - 1)
      seeds == {p \in front : /\ "Index" \in m[p] /\ Says(p, "table")
                              /\ Anchor(p) = "Index"}
      tables == {p \in front : Says(p, "table") /\ Anchor(p) \in {None, "Index"}}
      reach == {p \in tables \cup seeds :
                  \E s \in seeds : (s..p) \cup (p..s) \subseteq tables \cup seeds}
  IN  Walk(BridgeStep, Paint(m, reach, "Index"))

\* _restore_explicit_master_index_pages
MasterIndex(m) ==
  IndexBridge(Paint(m, {p \in Pages : Anchor(p) = "Index" /\ Says(p, "table")}, "Index"))

\* _restore_master_volume_sections: a cover, then its own Index, on the third
\* sheet behind it at the latest.
VolumeSections(m) ==
  LET covers == {p \in Pages : Says(p, "volume")}
      opens(c) == {s \in Pages \cap (c + 1..c + 3) :
                     Says(s, "table") /\ \A q \in c + 1..s : Folio(q) = 0}
      tables(c) == IF opens(c) = {} THEN {}
                   ELSE Until(Min(opens(c)), PageCount,
                          LAMBDA q : Folio(q) # 0 \/ ~Says(q, "table"))
  IN  Paint(Paint(m, covers, "Cover Page"), UNION {tables(c) : c \in covers}, "Index")

\* _renest_lower_court_indexes: by the one exhibit beside it, by its folio, or
\* taken off the Index.
RenestStep(rows, b, p) ==
  LET at(d) == UNION {OwnAnnexure(b.m, q) : q \in {p - d, p + d} \cap Pages}
      near == {d \in 1..12 : at(d) # {}}
      beside == IF near = {} THEN {} ELSE at(Min(near))
      listed == {r.label : r \in {s \in rows : s.label \in Annexures /\ Within(p, s)}}
  IN  IF \/ ~Lower(p) \/ ~Says(p, "table") \/ OwnAnnexure(b.m, p) # {}
         \/ \E q \in (p - 2..p + 2) \cap Pages : Says(q, "volume")
      THEN b
      ELSE IF Cardinality(beside) = 1 THEN Put(b, p, beside)
      ELSE IF Cardinality(listed) = 1 THEN Put(b, p, listed)
      ELSE Put(b, p, b.m[p] \ {"Index", "Record of Proceedings"})
Renest(m) == Walk(LAMBDA b, p : RenestStep(Rows(m), b, p), m)

------------------------------------------------------------------------------
(***************************************************************************)
(* Annexures that the Index lists                                          *)
(***************************************************************************)
\* The candidates whose content matches a listed Annexure, one for each.
Matched(candidates, labels) ==
  {p \in candidates : /\ Match(p) \in labels
                      /\ \A q \in candidates : Match(q) = Match(p) => p <= q}

Matches == [p \in Pages |-> Match(p)]

\* _place_index_expected_annexures
BeforeBack == {Main, "Affidavit", "AOR's Declaration", "AOR's Certificate", "Appendix"}
OwnPapers == BeforeBack \cup {"Vakalatnama", "Memo of Appearance", "Filing Memo"}

PlaceEnds(cleared, candidates, starts, s, q) ==
  LET twin == Own(s) /\ Says(s, "judgment") /\ ~Extract(s) /\ Extract(q) IN
  \/ q \in Enclosed \/ (q > s /\ q \in starts)
  \/ q > s /\ q \in candidates /\ ~twin
  \/ Begins(q) \/ Anchor(q) \in {"Vakalatnama", "Filing Memo"}
  \/ cleared[q] \cap (OwnPapers \cup (Annexures \ {Match(s)})) # {}

PlaceFrom(cleared, candidates, starts) ==
  LET pages(s) == Until(s, PageCount, LAMBDA q : PlaceEnds(cleared, candidates, starts, s, q))
  IN  Claim(cleared, [p \in Pages |-> {s \in starts : p \in pages(s)}], Matches)

PlaceIn(m, zone, pending) ==
  LET cleared == [p \in Pages |->
        IF p \in zone /\ OwnAnnexure(m, p) = {}
        THEN IF \/ "Record of Proceedings" \in m[p] /\ ~Says(p, "form")
                \/ (Order \in m[p] /\ Anchor(p) # Order)
             THEN m[p] \ {"Record of Proceedings", Order} ELSE m[p]
        ELSE m[p]]
      candidates == {p \in zone :
        /\ cleared[p] \cap (OwnPapers \cup Annexures \cup {"Cover Page", "Index"}) = {}
        /\ IslandStart(p)}
  IN  IF pending = {} THEN m ELSE PlaceFrom(cleared, candidates, Matched(candidates, pending))

PlaceExpected(m) ==
  LET last == Max({0} \cup {p \in Pages : m[p] \cap BeforeBack # {}})
  IN  PlaceIn(m, IF last = 0 THEN {} ELSE (last + 1..PageCount) \ Enclosed,
              {l \in Listed(m) : \A p \in Pages : l \notin m[p]})

\* _demote_unmentioned_annexures: what neither Index nor pleadings mention goes,
\* unless its stamp is near the numbers that they do.
Mentioned(m) ==
  Listed(m) \cup UNION {Cites(p) : p \in {q \in Pages : m[q] \cap {"List of Dates", Main} # {}}}
Unmentioned(m) ==
  LET said == Mentioned(m)
      top(s) == Max({Number(l) : l \in {n \in said \cap Numbered : Series(n) = s}})
      known(l) == \E n \in said \cap Numbered : Series(n) = Series(l)
      chain(s) == FoldLeft(LAMBDA c, p :
                    IF Stamped(p) /\ Series(Stamp(p)) = s /\ Number(Stamp(p)) > c
                       /\ (Number(Stamp(p)) <= top(s) + 5 \/ Number(Stamp(p)) <= c + 3)
                    THEN Number(Stamp(p)) ELSE c, top(s), PageSeq)
      stamps == {Stamp(p) : p \in {q \in Pages : Stamped(q)}}
      kept == said \cup {l \in stamps : IF known(l) THEN Number(l) <= chain(Series(l))
                                        ELSE Series(l) = "R"}
  IN  IF said = {} THEN m ELSE [p \in Pages |-> m[p] \ (Annexures \ kept)]

\* _realign_stamped_annexures_to_index: of a stamp found twice, the one whose
\* record the Index lists under another number takes that number.
RealignFrom(m, starts) ==
  LET pages(s) == Until(s, Max(Envelope(s)), LAMBDA q : Begins(q) \/ (q > s /\ q \in starts))
  IN  Claim(m, [p \in Pages |-> {s \in starts : p \in pages(s)}], Matches)

RealignStamps(m) ==
  LET twice(s) == \E q \in Starts \ {s} : Stamp(q) = Stamp(s)
      fits == {s \in Starts : Match(s) \in Listed(m) /\ (Match(s) = Stamp(s) \/ twice(s))}
      better(q, s) == IF (Match(q) = Stamp(q)) = (Match(s) = Stamp(s)) THEN q < s
                      ELSE Match(q) # Stamp(q)
      best(those) == {s \in those : \A q \in those \ {s} : Match(q) = Match(s) => better(s, q)}
  IN  IF Cardinality(Listed(m)) < 2 THEN m ELSE RealignFrom(m, best(fits))

\* _restore_unique_forward_annexure_stamps: forward always, backward only for
\* two indexed exhibits in a row.
ForwardStamps(m) ==
  LET once(s) == \A q \in Starts \ {s} : Stamp(q) # Stamp(s)
      owner(s) == CHOOSE l \in OwnAnnexure(m, s) : TRUE
      before(s) == {q \in Starts : Max(Envelope(q)) = s - 1}
      restore(s) ==
        /\ once(s) /\ OwnAnnexure(m, s) \cap Numbered # {}
        /\ \/ Number(Stamp(s)) > Number(owner(s))
           \/ /\ Number(Stamp(s)) < Number(owner(s))
              /\ {Stamp(s), owner(s)} \subseteq Listed(m)
              /\ \E q \in before(s) : once(q) /\ Stamp(q) \in Listed(m)
      pages(s) == Until(s, Max(Envelope(s)), LAMBDA q : OwnAnnexure(m, q) = {})
  IN  Claim(m, [p \in Pages |-> {s \in Starts : restore(s) /\ p \in pages(s)}],
            [p \in Pages |-> Stamp(p)])

\* _realign_annexure_boundaries_to_index_content
BoundariesFrom(m, candidates, starts) ==
  LET pages(s) == Until(s, PageCount, LAMBDA q : (q > s /\ q \in candidates) \/ Begins(q))
  IN  IF Cardinality(starts) < 2 THEN m
      ELSE Claim(m, [p \in Pages |-> {s \in starts : p \in pages(s) /\ OwnAnnexure(m, p) # {}}],
                 Matches)

RealignBoundaries(m) ==
  LET from(candidates) == BoundariesFrom(m, candidates, Matched(candidates, Listed(m)))
  IN  IF Cardinality(Listed(m)) < 2 THEN m
      ELSE from({p \in Pages \ Enclosed : OwnAnnexure(m, p) # {}
                                           /\ (IslandStart(p) \/ Stamped(p))})

\* _demote_unmatched_local_exhibit_runs: an exhibit numbered by a lower court.
LocalExhibits(m) ==
  LET local(p) == /\ Says(p, "exhibit") /\ Lower(p) /\ ~Stamped(p)
                  /\ OwnAnnexure(m, p) # {} /\ Match(p) \notin OwnAnnexure(m, p)
      run(p) == {q \in Pages : \A r \in (p..q) \cup (q..p) :
                   OwnAnnexure(m, p) \cap m[r] # {}}
      gone == UNION {run(p) : p \in {q \in Pages : local(q)}}
  IN  IF Listed(m) = {} THEN m ELSE [p \in Pages |-> IF p \in gone THEN {} ELSE m[p]]
==============================================================================
