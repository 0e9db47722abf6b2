------------------------------ MODULE BundleSplit ------------------------------
(***************************************************************************)
(* prepare_bundle of process_file.py: one bundle is cut into documents.    *)
(* LlamaSplit is asked twice, first for page ranges, then for the type of  *)
(* each range.  Its answers may be anything: gaps, overlaps, bad lists.    *)
(* The first answer owns the pages, the second one only names them, page   *)
(* text corrects names, reconciliation moves single pages, and the result  *)
(* is cut, checked and published with a manifest and a review status.      *)
(*                                                                         *)
(* A page's text is reduced to the one cue these rules read on it.         *)
(* Reconciliation is taken by its contract here; module Adjudication opens *)
(* it up.                                                                  *)
(***************************************************************************)
EXTENDS Integers, Sequences, FiniteSets, SequencesExt

CONSTANTS
  PageCount,        \* pages of the PDF
  Plain,            \* document types that have one slot each
  Stamps,           \* Annexure labels of one series, in the order of numbers
  Cover, Rop, Index,  \* "Cover Page", "Record of Proceedings", "Index"
  BoundaryAnswers,  \* answers of the first pass
  TypeAnswers,      \* answers of the second pass
  Texts,            \* the cues on the pages
  LongCover,        \* pages that a cover may have without suspicion (4)
  MaxMoves          \* pages that reconciliation moves

Pages == 1..PageCount
Numbered == ToSet(Stamps)
Annexures == "Annexures"
Undefined == "Undefined"
Labels == Plain \cup Numbered \cup {Annexures, Undefined}
None == "none"
Embedded == "embedded"
Notice == "notice"
Cues == Plain \cup Numbered \cup {None, Embedded, Notice}

\* A segment of an answer: its pages, and whether its page list is well formed.
\* A well-formed list is a range; the pages of another list are still read.
IsRange(S) == S # {} /\ \A p, q \in S : p..q \subseteq S
Segment == [pages : SUBSET (0..PageCount + 1), clean : BOOLEAN]
TypedSegment == [pages : SUBSET (0..PageCount + 1), clean : BOOLEAN,
                 cat : Labels]

ASSUME BundleAssumption ==
  /\ PageCount \in Nat \ {0} /\ LongCover \in Nat /\ MaxMoves \in Nat
  /\ {Cover, Rop, Index} \subseteq Plain
  /\ Plain \cap (Numbered \cup {Annexures, Undefined}) = {}
  /\ Texts \subseteq [Pages -> Cues]
  /\ BoundaryAnswers \subseteq Seq(Segment)
  /\ TypeAnswers \subseteq Seq(TypedSegment)
  /\ \A a \in BoundaryAnswers \cup TypeAnswers : \A i \in DOMAIN a :
       a[i].clean => IsRange(a[i].pages) /\ a[i].pages \subseteq Pages

VARIABLES
  text,       \* the cue on each page
  mode,       \* SPLIT_RECONCILIATION_MODE, drawn where it is first used
  pc,
  boundary,   \* the first answer
  types,      \* the second answer
  guidance,   \* boundary_guidance_status
  proposals,  \* boundary_proposals, ranges of pages
  segments,   \* authoritative_boundary_segments
  parts,      \* page_parts: the labels of each page
  slices,     \* classified_slices
  outputs,    \* slices that the filter keeps
  doubtful,   \* rows of the manifest that need review
  status      \* review_status

vars == <<text, mode, pc, boundary, types, guidance, proposals, segments,
          parts, slices, outputs, doubtful, status>>

Ended == {"done", "failed", "refused"}

Init ==
  /\ text \in Texts
  /\ mode = None /\ pc = "boundary"
  /\ boundary = <<>> /\ types = <<>> /\ guidance = None
  /\ proposals = <<>> /\ segments = <<>>
  /\ parts = [p \in Pages |-> <<>>]
  /\ slices = {} /\ outputs = {} /\ doubtful = {} /\ status = None

------------------------------------------------------------------------------
(***************************************************************************)
(* Ranges and labels                                                       *)
(***************************************************************************)

\* The members of a finite set in the order in which before[x] are those that
\* precede x.  (The provers have no definition of SortSeq and SelectSeq.)
Placed(S, before) ==
  [r \in 1..Cardinality(S) |-> CHOOSE x \in S : Cardinality(before[x]) = r - 1]

Ascending(S) == Placed(S, [n \in S |-> {m \in S : m < n}])

\* The elements of a sequence at some of its positions.
Kept(seq, at) ==
  LET order == Ascending(at) IN [k \in DOMAIN order |-> seq[order[k]]]

\* The runs of consecutive pages in S (page_ranges), in order.
Runs(S) ==
  LET starts == Ascending({p \in S : p - 1 \notin S})
  IN  [i \in DOMAIN starts |->
         {p \in S : p >= starts[i] /\ starts[i]..p \subseteq S}]

\* Every range cut before each of the pages in its cuts.
CutAll(ranges, cuts) ==
  LET starts == {s \in (DOMAIN ranges) \X Pages :
                   s[2] \in ranges[s[1]]
                   /\ s[2] \in {Min(ranges[s[1]])} \cup cuts[s[1]]}
      order == Placed(starts, [s \in starts |->
                 {t \in starts : t[1] < s[1] \/ (t[1] = s[1] /\ t[2] < s[2])}])
  IN  [k \in DOMAIN order |->
         {p \in ranges[order[k][1]] :
            /\ p >= order[k][2]
            /\ \A q \in Pages :
                 order[k][2] < q /\ q <= p => <<order[k][1], q>> \notin starts}]

Family(label) == IF label \in Numbered THEN Annexures ELSE label
Stamp(p) == IF text[p] \in Numbered THEN text[p] ELSE None    \* annexure_ref_in_heading
Anchor(p) == IF text[p] \in Plain THEN text[p] ELSE None      \* _outer_anchor_label
Follows(next, label) ==
  \E i \in 1..Len(Stamps) - 1 : label = Stamps[i] /\ next = Stamps[i + 1]

\* _validated_segment_pages has an issue, or reads no page at all.
Clean(answer) == {i \in DOMAIN answer : answer[i].clean}
On(answer, p) == {i \in DOMAIN answer : p \in answer[i].pages}
OnClean(answer, p) == On(answer, p) \cap Clean(answer)

\* Two segments in a row, the first ending and the second beginning at p.
EdgeShare(answer, owners, p) ==
  \E i \in owners : /\ owners = {i, i + 1}
                    /\ Max(answer[i].pages) = p
                    /\ Min(answer[i + 1].pages) = p

Sorted(answer) ==
  \A i, j \in Clean(answer) :
    i < j => Min(answer[i].pages) <= Min(answer[j].pages)

------------------------------------------------------------------------------
(***************************************************************************)
(* The first pass: ranges                                                  *)
(***************************************************************************)
Missing == {p \in Pages : OnClean(boundary, p) = {}}
Crowded == {p \in Pages : Cardinality(OnClean(boundary, p)) > 1}
Shared == {p \in Crowded : EdgeShare(boundary, OnClean(boundary, p), p)}

\* An issue other than a shared boundary page.
Blocked ==
  \/ Clean(boundary) # DOMAIN boundary \/ boundary = <<>> \/ ~Sorted(boundary)
  \/ Missing # {} \/ Crowded # Shared

BoundaryClear == ~Blocked /\ Shared = {}

\* The next stamp of a series inside a range that opens with a stamp.
ExplicitCuts(range) ==
  LET step(acc, p) == IF Follows(Stamp(p), acc.active)
                      THEN [cuts |-> acc.cuts \cup {p}, active |-> Stamp(p)]
                      ELSE acc
      inner == Ascending(range \ {Min(range)})
  IN  FoldLeft(step, [cuts |-> {}, active |-> Stamp(Min(range))], inner).cuts

Ranges(answer) ==
  LET clean == Kept(answer, Clean(answer))
  IN  [i \in DOMAIN clean |-> clean[i].pages]

Proposed(answer) ==
  LET ranges == Ranges(answer)
  IN  CutAll(ranges, [i \in DOMAIN ranges |-> ExplicitCuts(ranges[i])])

\* _split_page_parts refuses an answer without a page.
Labelled(answer) == \E i \in DOMAIN answer : answer[i].pages # {}

BoundaryPass ==
  /\ pc = "boundary"
  /\ \E answer \in BoundaryAnswers :
       IF Labelled(answer)
       THEN /\ boundary' = answer
            /\ proposals' = Proposed(answer)
            /\ pc' = "types"
       ELSE pc' = "failed" /\ UNCHANGED <<boundary, proposals>>
  /\ UNCHANGED <<text, mode, types, guidance, segments, parts, slices,
                 outputs, doubtful, status>>

\* A split job that fails, or is not done after SPLIT_POLL_MAX_S.
SplitFails ==
  /\ pc \in {"boundary", "types"}
  /\ pc' = "failed"
  /\ UNCHANGED <<text, mode, boundary, types, guidance, proposals,
                 segments, parts, slices, outputs, doubtful,
                 status>>

------------------------------------------------------------------------------
(***************************************************************************)
(* The second pass: types                                                  *)
(***************************************************************************)
\* Ranges are sent along unless they are invalid.
Guidance ==
  IF Blocked \/ proposals = <<>> THEN "refused"
  ELSE IF Shared # {} THEN "sent_with_shared_boundary_pages" ELSE "sent"

\* They are not sent either when a remote configuration is used or when they
\* do not fit in the instructions.
TypePass ==
  /\ pc = "types"
  /\ guidance' \in {Guidance, "refused"}
  /\ \E answer \in TypeAnswers :
       IF Labelled(answer) THEN types' = answer /\ pc' = "own"
                           ELSE pc' = "failed" /\ UNCHANGED types
  /\ UNCHANGED <<text, mode, boundary, proposals, segments, parts,
                 slices, outputs, doubtful, status>>

Classified == Clean(types)
TypesMissing == {p \in Pages : On(types, p) = {}}
TypesOverlap == {p \in Pages : Cardinality(On(types, p)) > 1}

TypesClear ==
  /\ Clean(types) = DOMAIN types /\ Sorted(types)
  /\ TypesMissing = {} /\ TypesOverlap = {}

\* Does the text of page p say that a document of this type begins there?
OpeningSupports(cat, p) ==
  IF Family(cat) = Annexures
  THEN Stamp(p) # None /\ cat \in {Annexures, Stamp(p)}
  ELSE Anchor(p) # None /\ Anchor(p) = cat

\* A range is cut at the types inside it when these cover it exactly.
TypeCuts(range) ==
  LET inside == {i \in Classified : types[i].pages \subseteq range}
      of(p) == {i \in inside : p \in types[i].pages}
      exact == \A p \in range : Cardinality(of(p)) = 1
      cat(p) == types[CHOOSE i \in of(p) : TRUE].cat
      opens(p) == p = Min(range) \/ cat(p) # cat(p - 1)
      endsCover(p) == cat(p - 1) = Cover /\ opens(p - 1)
  IN  IF ~exact THEN {}
      ELSE {p \in range \ {Min(range)} :
              opens(p) /\ (endsCover(p) \/ OpeningSupports(cat(p), p))}

\* The type of a range as far as the second answer says it.
Typed(range) ==
  LET over == {i \in Classified : types[i].pages \cap range # {}}
      exact == {i \in over : types[i].pages = range}
      opening == {i \in over : Min(range) \in types[i].pages}
      cats == {types[i].cat : i \in over}
      at(cat) == UNION {types[i].pages \cap range :
                          i \in {j \in over : types[j].cat = cat}}
      owner == IF Cardinality(exact) = 1
               THEN [cat |-> types[CHOOSE i \in exact : TRUE].cat,
                     doubt |-> FALSE]
               ELSE IF Cardinality(cats) = 1
               THEN [cat |-> CHOOSE c \in cats : TRUE, doubt |-> exact = {}]
               ELSE IF Cardinality(opening) = 1
               THEN [cat |-> types[CHOOSE i \in opening : TRUE].cat,
                     doubt |-> TRUE]
               ELSE [cat |-> Undefined, doubt |-> TRUE]
      long == {c \in cats \ {Cover} :
                 10 * Cardinality(at(c)) >= 8 * Cardinality(range)}
  IN  IF owner.cat = Cover /\ Cardinality(range) > LongCover
         /\ Cardinality(cats) > 1
      THEN [cat |-> IF long = {} THEN Undefined ELSE CHOOSE c \in long : TRUE,
            doubt |-> TRUE]
      ELSE owner

\* The text of the opening page may correct the type.  Only a correction that
\* the text decides leaves no doubt of its own.
Corrected(range, owner, before) ==
  LET p == Min(range)
      follows == before.last + 1 = p
      as(cat, sure) == [cat |-> cat, doubt |-> owner.doubt \/ ~sure]
      outside == follows /\ Family(before.cat) # Annexures
  IN  IF Stamp(p) \notin {None, owner.cat} THEN as(Stamp(p), TRUE)
      ELSE IF owner.cat = Undefined /\ Anchor(p) # None THEN as(Anchor(p), TRUE)
      ELSE IF owner.cat = Cover /\ Anchor(p) = Index /\ follows
              /\ before.cat = Index
      THEN as(Index, FALSE)
      ELSE IF Family(owner.cat) = Annexures /\ Stamp(p) = None /\ outside
              /\ Anchor(p) # None
      THEN as(Anchor(p), FALSE)
      ELSE IF Family(owner.cat) = Annexures /\ outside /\ text[p] = Embedded
      THEN as(before.cat, FALSE)
      ELSE owner

\* _document_first_page_ownership: one owner for every range, in order.
Owned(ranges) ==
  LET own[i \in 0..Len(ranges)] ==
        IF i = 0 THEN [pages |-> {}, cat |-> None, doubt |-> FALSE, last |-> -1]
        ELSE LET o == Corrected(ranges[i], Typed(ranges[i]), own[i - 1])
             IN  [pages |-> ranges[i], cat |-> o.cat, doubt |-> o.doubt,
                  last |-> Max(ranges[i])]
  IN  [i \in DOMAIN ranges |-> own[i]]

\* Pages that no range covers are Undefined.
Gaps ==
  LET runs == Runs({p \in Pages : \A i \in DOMAIN proposals :
                                    p \notin proposals[i]})
  IN  [i \in DOMAIN runs |-> [pages |-> runs[i], cat |-> Undefined,
                              doubt |-> TRUE, last |-> Max(runs[i])]]

\* The labels of a page, one for each type that owns it.
LabelsOf(p, owners) ==
  LET own == {i \in DOMAIN owners : p \in owners[i].pages}
      first == Kept(owners, {i \in own : \A j \in own : j < i =>
                                           owners[j].cat # owners[i].cat})
  IN  [k \in DOMAIN first |-> first[k].cat]

Before(s, t) ==
  \/ Min(s.pages) < Min(t.pages)
  \/ Min(s.pages) = Min(t.pages) /\ s.last < t.last

\* A stable sort.
InOrder(owners) ==
  LET all == DOMAIN owners
      order == Placed(all, [i \in all |->
                 {j \in all : \/ Before(owners[j], owners[i])
                              \/ ~Before(owners[i], owners[j]) /\ j < i}])
  IN  [k \in DOMAIN order |-> owners[order[k]]]

Refined == CutAll(proposals, [i \in DOMAIN proposals |-> TypeCuts(proposals[i])])

Own ==
  /\ pc = "own"
  /\ proposals' = Refined
  /\ LET owners == Owned(Refined) \o Gaps
     IN  /\ segments' = InOrder(owners)
         /\ parts' = [p \in Pages |-> LabelsOf(p, owners)]
  /\ pc' = "reconcile"
  /\ UNCHANGED <<text, mode, boundary, types, guidance, slices,
                 outputs, doubtful, status>>

------------------------------------------------------------------------------
(***************************************************************************)
(* structure_aware_split and audit_compiled_split, by their contract       *)
(***************************************************************************)
\* A notice of the Registry is taken out of a run of Record of Proceedings in
\* which no page is headed so.  This is done in every mode.
Notices ==
  LET rop == {p \in Pages : Rop \in ToSet(parts[p])}
      bare == {i \in DOMAIN Runs(rop) : \A p \in Runs(rop)[i] : Anchor(p) # Rop}
  IN  {p \in UNION {Runs(rop)[i] : i \in bare} : text[p] = Notice}

Demoted ==
  [p \in Pages |-> IF p \in Notices
                   THEN Kept(parts[p], {i \in DOMAIN parts[p] : parts[p][i] # Rop})
                   ELSE parts[p]]

\* What adjudication may do: give a page one other label.
Moved(map) ==
  {map} \cup
  {[p \in Pages |-> IF p \in moved THEN <<label>> ELSE map[p]] :
     moved \in {S \in SUBSET Pages : Cardinality(S) <= MaxMoves},
     label \in Labels}

Reconcile ==
  /\ pc = "reconcile"
  /\ \/ mode' = "llama_only" /\ parts' = Demoted
     \/ mode' = "guarded" /\ parts' \in Moved(Demoted)
  /\ pc' = "slice"
  /\ UNCHANGED <<text, boundary, types, guidance, proposals, segments, slices,
                 outputs, doubtful, status>>

------------------------------------------------------------------------------
(***************************************************************************)
(* Cutting the bundle (bundle_slicer.py)                                   *)
(***************************************************************************)
SegmentsOn(p) == On(segments, p)

\* A page on the edge of two segments, labelled with exactly their types.
EdgeAuthorized(p) ==
  /\ EdgeShare(segments, SegmentsOn(p), p)
  /\ ToSet(parts[p]) = {segments[i].cat : i \in SegmentsOn(p)}

\* A page with several labels on which as many one-page segments lie.
PageAuthorized(p) ==
  /\ Len(parts[p]) > 1 /\ Cardinality(SegmentsOn(p)) <= 2
  /\ \A i \in SegmentsOn(p) : segments[i].pages = {p}
  /\ ToSet(parts[p]) = {segments[i].cat : i \in SegmentsOn(p)}

Authorized(p) == PageAuthorized(p) \/ EdgeAuthorized(p)

\* Pages for which validate_shared_page_evidence reports an issue.
SharingIssues ==
  {p \in Pages : ~Authorized(p)
                 /\ (Len(parts[p]) > 1 \/ Cardinality(SegmentsOn(p)) > 1)}

\* Without authority only the first label counts.
Counted(p) ==
  IF Authorized(p) \/ Len(parts[p]) <= 1 THEN ToSet(parts[p]) ELSE {parts[p][1]}

\* The slots of a page.  A numbered Annexure hides the catch-all.
SlotsOn(p) ==
  Counted(p) \ ({Undefined} \cup
                (IF Counted(p) \cap Numbered # {} THEN {Annexures} ELSE {}))

Catchall == {p \in Pages : Annexures \in SlotsOn(p)}

\* What an Annexure segment takes of the catch-all.  Only an authorized page is
\* taken twice.
Taken(i) ==
  {p \in segments[i].pages \cap Catchall :
     /\ Family(segments[i].cat) = Annexures
     /\ Authorized(p) \/ \A j \in 1..i - 1 :
          Family(segments[j].cat) = Annexures => p \notin segments[j].pages}

Rest == Runs(Catchall \ UNION {Taken(i) : i \in DOMAIN segments})

\* Every document: its slot and its pages.  The documents of the catch-all are
\* what each Annexure segment takes, in order, and the runs of what is left.
Documents ==
  {[slot |-> label, nth |-> 0, pages |-> {p \in Pages : label \in SlotsOn(p)}] :
     label \in Plain \cup Numbered}
  \cup {[slot |-> Annexures, nth |-> i, pages |-> Taken(i)] :
          i \in {j \in DOMAIN segments : Taken(j) # {}}}
  \cup {[slot |-> Annexures, nth |-> Len(segments) + i, pages |-> Rest[i]] :
          i \in DOMAIN Rest}

\* Seeded fault: pages without a slot are left out.
Leftover_None == {}

Leftover == Pages \ UNION {d.pages : d \in Documents}

\* One slice for each run of a document, numbered when there are several.
SlicesOf(d) ==
  LET runs == Runs(d.pages)
  IN  {[slot |-> d.slot, nth |-> d.nth, part |-> IF Len(runs) = 1 THEN 0 ELSE i,
        pages |-> runs[i]] : i \in DOMAIN runs}

Sliced ==
  UNION {SlicesOf(d) : d \in Documents \cup
                             {[slot |-> Undefined, nth |-> 0, pages |-> Leftover]}}

Owners(p, cuts) == {s \in cuts : p \in s.pages}

\* _authorization_matches_slots: the slices of a shared page are the slots of
\* the types that share it.  The number of a slice counts as part of its slot.
Matches(p, cuts) ==
  LET cats == {segments[i].cat : i \in SegmentsOn(p)}
      family(s) == Family(s.slot) = Annexures
      exhibits == {s \in Owners(p, cuts) : family(s)}
      others == {s \in Owners(p, cuts) : ~family(s)}
      claims == {i \in SegmentsOn(p) : Family(segments[i].cat) = Annexures}
  IN  /\ others = {s \in Owners(p, cuts) : s.part = 0 /\ s.slot \in cats \cap Plain}
      /\ {s.slot : s \in others} = cats \cap Plain
      /\ claims # {} => /\ Cardinality(exhibits) = Cardinality(claims)
                        /\ \A s \in exhibits : s.part = 0
      /\ claims = {} => exhibits = {}

\* validate_sliced_page_ownership raises.
OwnershipValid(cuts) ==
  \A p \in Pages :
    /\ Owners(p, cuts) # {}
    /\ Cardinality(Owners(p, cuts)) > 1 => Authorized(p) /\ Matches(p, cuts)

Slice ==
  /\ pc = "slice"
  /\ slices' = Sliced
  /\ pc' = IF OwnershipValid(Sliced) THEN "publish" ELSE "refused"
  /\ UNCHANGED <<text, mode, boundary, types, guidance, proposals,
                 segments, parts, outputs, doubtful, status>>

------------------------------------------------------------------------------
(***************************************************************************)
(* Filter, manifest and review status                                      *)
(***************************************************************************)
\* SPLIT_OUTPUT_DOCUMENTS selects everything, or "Annexures, Cover Page".
Filters == {"all", "selected"}
Wanted(s, filter) ==
  filter = "all" \/ s.slot = Cover \/ Family(s.slot) = Annexures

Unmatched(filter) ==
  /\ filter = "selected"
  /\ \/ \A s \in slices : s.slot # Cover
     \/ \A s \in slices : Family(s.slot) # Annexures

\* Pages that _split_page_review_reasons names.
PassReasons == Missing \cup Crowded \cup TypesMissing \cup TypesOverlap
               \cup SharingIssues

RangesAgree == {types[i].pages : i \in Classified} = ToSet(proposals)
OwnershipClear == \A i \in DOMAIN segments : ~segments[i].doubt

\* Seeded fault: a type that does not fit its range is not an issue.
Incomplete_Types == guidance # "sent" \/ ~BoundaryClear

\* llama_segment_classification_incomplete.
Incomplete ==
  \/ ~TypesClear \/ ~RangesAgree \/ ~OwnershipClear
  \/ guidance # "sent" \/ ~BoundaryClear

SharedIn(cuts) == {p \in Pages : Cardinality(Owners(p, cuts)) > 1}

\* The audit doubts pages without exactly one label, and others by their text;
\* adjudication may have left a proposal for review.
Publish ==
  /\ pc = "publish"
  /\ \E cue \in {{}, {1}}, filter \in Filters,
        left \in {FALSE, mode = "guarded"} :
       LET audit == cue \cup {p \in Pages : Len(parts[p]) # 1}
           doubt == \/ audit # {} \/ Incomplete \/ left \/ Unmatched(filter)
                    \/ SharingIssues # {} \/ SharedIn(slices) # {}
                    \/ mode = "llama_only"
       IN  /\ outputs' = {s \in slices : Wanted(s, filter)}
           /\ doubtful' = audit \cup PassReasons \cup SharedIn(outputs')
           /\ status' = IF doubt THEN "needs_review" ELSE "clear"
  /\ pc' = "done"
  /\ UNCHANGED <<text, mode, boundary, types, guidance, proposals, segments,
                 parts, slices>>

Stay == pc \in Ended /\ UNCHANGED vars

Next == BoundaryPass \/ SplitFails \/ TypePass \/ Own \/ Reconcile \/ Slice
        \/ Publish \/ Stay

Spec == Init /\ [][Next]_vars

------------------------------------------------------------------------------
(***************************************************************************)
(* Properties                                                              *)
(***************************************************************************)
TypeOK ==
  /\ text \in Texts /\ mode \in {None, "llama_only", "guarded"}
  /\ pc \in {"boundary", "types", "own", "reconcile", "slice", "publish"} \cup Ended
  /\ boundary \in {<<>>} \cup BoundaryAnswers /\ types \in {<<>>} \cup TypeAnswers
  /\ guidance \in {None, "refused", "sent", "sent_with_shared_boundary_pages"}
  /\ parts \in [Pages -> Seq(Labels)]
  /\ doubtful \subseteq Pages
  /\ outputs \subseteq slices
  /\ status \in {None, "needs_review", "clear"}

\* Whatever LlamaSplit answers, no page of the bundle is lost when it is cut, so
\* that the ownership check never refuses a bundle for one, and a page is copied
\* into two documents, never more, only when two ranges of the first pass
\* claimed it: types, text cues and reconciliation share nothing
\* (slice_bundle_pdf, validate_sliced_page_ownership).
EveryPageServed ==
  slices # {} =>
    \A p \in Pages :
      /\ Cardinality(Owners(p, slices)) \in {1, 2}
      /\ Cardinality(Owners(p, slices)) = 2 => p \in Crowded

\* A split that needs no review is one in which each pass put every page into
\* one good range, the passes agree on the ranges, and the type of each range
\* is the second pass's or the one its opening page prints
\* (prepare_bundle's flags and review_status).
ClearMeansCertain ==
  status = "clear" =>
    /\ Clean(boundary) = DOMAIN boundary /\ Clean(types) = DOMAIN types
    /\ \A p \in Pages : /\ Cardinality(On(boundary, p)) = 1
                        /\ Cardinality(On(types, p)) = 1
    /\ \A i \in DOMAIN segments : \E j \in DOMAIN types :
         /\ types[j].pages = segments[i].pages
         /\ segments[i].cat \in {types[j].cat, text[Min(types[j].pages)]}

\* The status of the split and the rows of its manifest are computed apart:
\* no page is in doubt in a split that needs no review.
RowsAgree == doubtful # {} => status = "needs_review"

\* A page that is shared on evidence is served, not refused: the share that
\* validate_shared_page_evidence authorized passes the ownership check.
ShareIsServed ==
  pc = "refused" =>
    \E p \in Pages : \/ Owners(p, slices) = {}
                     \/ Cardinality(Owners(p, slices)) > 1 /\ ~Authorized(p)
==============================================================================
