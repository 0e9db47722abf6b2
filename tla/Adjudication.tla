----------------------------- MODULE Adjudication -----------------------------
(***************************************************************************)
(* structure_aware_split and reconcile_compiled_split of                   *)
(* structure_split.py: who owns a page when LlamaSplit, the rules of       *)
(* split_repair.py and the Index of the bundle disagree.                   *)
(*                                                                         *)
(* LlamaSplit's ranges are the baseline.  The repair rules propose a whole *)
(* map; up to three passes over the pages accept or refuse it page by      *)
(* page, each against the map as the pages before left it.  A dozen later  *)
(* rules propose maps that go through the same judge, once each.           *)
(*                                                                         *)
(* What a page says is one cue: the outer document that it opens.  What a  *)
(* rule proposes is any label on any run of pages, what the Index says is  *)
(* any label on one page, and whether a segment as a whole reads like      *)
(* something else is left open.                                            *)
(***************************************************************************)
EXTENDS Integers, Sequences, FiniteSets, FiniteSetsExt

CONSTANTS
  PageCount,
  Plain,              \* document types of one label each
  Cover, Index, Order, Main,  \* the types among them with rules of their own
  Stamps,             \* numbered Annexure labels of one series, in order
  Apps,               \* numbered application labels
  App1,               \* "Application 1" among them
  Bundles,            \* LlamaSplit's results: ranges with owners
  Facts,              \* what the pages say
  RuleLabels,         \* labels that the rules propose
  IndexLabels,        \* labels that the Index gives
  PostStages,         \* the later rules, as [policy, index] in order
  MaxPasses,          \* 3
  Limit               \* operation_limit, 500 in the code

Pages == 1..PageCount
Numbered == {Stamps[i] : i \in DOMAIN Stamps}
Annexures == "Annexures"
Application == "Application"
Undefined == "Undefined"
None == "none"
App == "app"            \* the opening of an application, number unknown
Labels == Plain \cup Numbered \cup Apps \cup {Annexures, Application, Undefined}
Cues == Plain \cup Numbered \cup {App, None}

Family(label) == IF label \in Numbered THEN Annexures
                 ELSE IF label \in Apps THEN Application ELSE label
Maps == [Pages -> SUBSET Labels]

\* A bundle is a sequence of [range, owner, protected]; both passes of
\* LlamaSplit agreed on a protected range.
Owner == [range : SUBSET Pages, owner : Labels, protected : BOOLEAN]
Policies == {"weak", "opening", "lower_court"}

ASSUME AdjudicationAssumption ==
  /\ PageCount \in Nat \ {0} /\ MaxPasses \in Nat \ {0} /\ Limit \in Nat
  /\ {Cover, Index, Order, Main} \subseteq Plain
  /\ {None, App} \cap Labels = {} /\ App1 \in Apps
  /\ Bundles \subseteq Seq(Owner)
  /\ \A b \in Bundles : \A i \in DOMAIN b : b[i].range # {}
  /\ Facts \subseteq [cue : [Pages -> Cues], anchor : [Pages -> Plain \cup {App1, None}],
                      continues : SUBSET Pages, table : SUBSET Pages]
  /\ RuleLabels \subseteq Labels /\ IndexLabels \subseteq Labels
  /\ PostStages \in Seq([policy : Policies, index : BOOLEAN])

VARIABLES
  facts,      \* cue: the opening on a page (strong_by_page); anchor: its outer
              \* heading (_outer_anchor_label); continues: body of an
              \* application after one; table: rows of an Index
  bundle,     \* authoritative_segments
  pc,
  stage,      \* 0 for the main reconciliation, then the later rules
  pass,       \* pass_number
  map,        \* page_parts
  base,       \* page_parts before anything was adjudicated
  candidate,  \* the map proposed to this pass
  seen,       \* seen_states of this call
  count,      \* len(operation_log), shared by all stages
  left,       \* an operation was left for review
  stop        \* stop_reason of this call

vars == <<facts, bundle, pc, stage, pass, map, base, candidate, seen, count, left,
          stop>>

------------------------------------------------------------------------------
(***************************************************************************)
(* Segments and openings                                                   *)
(***************************************************************************)
\* _contiguous_segment_range: the run of pages labelled like this around p.
Run(m, p, labels) ==
  {q \in Pages : labels # {} /\ \A r \in (p..q) \cup (q..p) : m[r] = labels}

\* Pages on which a range other than the first begins.
Starts == {Min(bundle[i].range) : i \in DOMAIN bundle \ {1}}

\* protected_by_page: of two protected ranges that share a page the later one.
ProtectedOn(p) ==
  LET on == {i \in DOMAIN bundle : bundle[i].protected /\ p \in bundle[i].range}
  IN  {i \in on : \A k \in on : k <= i}

\* The page opens with its outer heading (signal "outer_anchor").
OuterSignal(p) ==
  \/ facts.cue[p] \in Plain /\ facts.anchor[p] = facts.cue[p]
  \/ facts.cue[p] = App /\ facts.anchor[p] = App1

\* classification_supports_labels: does the opening on q say one of these labels?
\* The opening of an application does not know its number.
Supports(m, q, labels) ==
  IF facts.cue[q] = App
  THEN \E l \in labels : /\ Family(l) = Application
                         /\ m[q] \cap Apps = {} \/ l \in m[q]
  ELSE facts.cue[q] \in labels

\* segment_has_supported_opening
Coherent(m, p) == m[p] # {} /\ Supports(m, Min(Run(m, p, m[p])), m[p])

\* span_policy: the span around p has an opening of its label somewhere and
\* replaces at most one family of documents.
Anchored(start, p) ==
  LET span == Run(candidate, p, candidate[p])
      replaced == {Family(l) : l \in UNION {start[q] : q \in
                      {r \in span : start[r] # candidate[r]}} \ {Undefined}}
  IN  /\ \E q \in span : Supports(start, q, candidate[p])
      /\ Cardinality(replaced) <= 1

Stamp(p) == IF p \in Pages /\ facts.cue[p] \in Numbered THEN facts.cue[p] ELSE None
Follows(next, label) ==
  \E i \in 1..Len(Stamps) - 1 : label = Stamps[i] /\ next = Stamps[i + 1]

------------------------------------------------------------------------------
(***************************************************************************)
(* One proposal: page p of map m from old to new.  A case holds these, the *)
(* two segments, the evidence and the maps it was read from.               *)
(***************************************************************************)
\* _confirmed_application_continuation
AppContinues(m, p, new) ==
  /\ p \in facts.continues /\ p > 1 /\ m[p - 1] = new
  /\ Cardinality(m[p]) = 1 /\ Cardinality(new) = 1
  /\ \A l \in m[p] \cup new : Family(l) = Application

Policy == IF stage = 0 THEN None ELSE PostStages[stage].policy

\* consecutive_outer_annexure_envelope: the span opens with the stamp of its
\* label and the next stamp of the series follows it.
Enclosed(to, new) ==
  /\ to # {} /\ new = {Stamp(Min(to))}
  /\ Follows(Stamp(Max(to) + 1), Stamp(Min(to)))

Evidence(start, m, p, new, index) ==
  (IF Policy = None THEN {} ELSE {Policy})
  \cup (IF m[p] \subseteq {Undefined} THEN {"missing_or_unidentified"} ELSE {})
  \cup (IF Cardinality(m[p]) > 1 THEN {"overlapping_labels"} ELSE {})
  \cup (IF index[p] = new /\ index[p] # m[p] THEN {"master_index_and_folio"} ELSE {})
  \cup (IF Supports(m, p, new) THEN {"explicit_outer_boundary"}
        ELSE IF new = candidate[p] /\ Anchored(start, p)
        THEN {"anchored_continuation"} ELSE {})
  \cup (IF AppContinues(m, p, new) THEN {"application_continuation"} ELSE {})
  \cup (IF Enclosed(Run(candidate, p, new), new) THEN {"annexure_envelope"} ELSE {})

CaseOf(start, m, p, new, index) ==
  [p |-> p, m |-> m, old |-> m[p], new |-> new,
   from |-> Run(m, p, m[p]), to |-> Run(candidate, p, new),
   anchored |-> Anchored(start, p),
   ev |-> Evidence(start, m, p, new, index)]

Indexed(c) == "master_index_and_folio" \in c.ev
Direct(c) == facts.cue[c.p] # None
OfFamily(labels, family) == \A l \in labels : Family(l) = family
ToFamily(labels, family) == \E l \in labels : Family(l) = family
BeginsBefore(c) == c.from # {} /\ c.to # {} /\ Min(c.to) < Min(c.from)
OpenedBy(c) == Supports(c.m, Min(c.to), c.new)

\* verified_internal_opening: the proposed document opens later in the segment.
InternalOpening(c) ==
  c.from # {} /\ c.to # {} /\ Min(c.to) > Min(c.from) /\ OpenedBy(c)

\* directly_opened_standalone_cover
StandaloneCover(c) ==
  /\ c.old = {Cover} /\ facts.cue[c.p] = Cover /\ c.from = {c.p}
  /\ c.p + 1 \in Starts

\* verified_preceding_opening_continuation, of applications only.
PrecedingOpening(c) ==
  /\ BeginsBefore(c) /\ OpenedBy(c) /\ ToFamily(c.new, Application)
  /\ ~StandaloneCover(c)

\* verified_annexure_nesting: the exhibit before the segment runs on into it.
Nesting(c) ==
  /\ BeginsBefore(c) /\ ~StandaloneCover(c)
  /\ OfFamily(c.new, Annexures) /\ c.m[Min(c.from) - 1] = c.new

IndexedNesting(c) == Nesting(c) /\ Indexed(c)

\* verified_stamped_annexure_envelope
Envelope(c) == Enclosed(c.to, c.new)

\* verified_exact_outer_relabel: the outer heading of the proposed document, at
\* the start of both segments.
ExactOuter(c) ==
  /\ c.from # {} /\ c.to # {} /\ Min(c.from) = c.p /\ Min(c.to) = c.p
  /\ c.new = {facts.anchor[c.p]} /\ OuterSignal(c.p) /\ Supports(c.m, c.p, c.new)

\* Seeded fault: only the first page of a range is protected.
Breaks_First(c) ==
  \E i \in ProtectedOn(c.p) : /\ bundle[i].owner \in c.old \ c.new
                              /\ c.p = Min(bundle[i].range)

\* breaks_protected_segment
Breaks(c) == \E i \in ProtectedOn(c.p) : bundle[i].owner \in c.old \ c.new

\* index_reference_conflict: the row of an Index names an exhibit.
IndexReference(c) ==
  /\ Breaks(c) /\ \E i \in ProtectedOn(c.p) : bundle[i].owner = Index
  /\ ToFamily(c.new, Annexures) /\ c.p \in facts.table

Protects(c) ==
  /\ Breaks(c) /\ ~IndexedNesting(c) /\ ~Envelope(c) /\ ~ExactOuter(c)
  /\ IndexReference(c) \/ ~InternalOpening(c)

\* protected_boundary
Boundary(c) ==
  LET excused == Nesting(c) \/ Envelope(c) \/ ExactOuter(c) \/ PrecedingOpening(c)
  IN  \/ c.p \in Starts /\ ~excused
      \/ /\ c.from # {} /\ Min(c.from) \in Starts
         /\ ~excused /\ ~InternalOpening(c)

LeavesAnnexures(c) ==
  c.old # {} /\ OfFamily(c.old, Annexures) /\ ~OfFamily(c.new, Annexures)

\* independent_annexure_exit
Exit(c) ==
  \/ ExactOuter(c)
  \/ BeginsBefore(c) /\ c.new = {Order} /\ c.m[c.p - 1] = c.new
  \/ ToFamily(c.new, Application) /\ facts.cue[c.p] = App
  \/ /\ ToFamily(c.new, Application) /\ c.anchored
     /\ c.p > 1 /\ c.m[c.p - 1] = c.new

\* index_only_relabel
IndexOnly(c) ==
  /\ c.old # {} /\ Indexed(c) /\ ~Supports(c.m, c.p, c.new)
  /\ c.ev \cap {"explicit_outer_boundary", "anchored_continuation",
                "application_continuation", "opening", "lower_court"} = {}

ThirdWay(c) ==
  Direct(c) /\ ~Supports(c.m, c.p, c.old) /\ ~Supports(c.m, c.p, c.new)

LowerCourt(c) ==
  /\ "lower_court" \in c.ev /\ c.old = {Main}
  /\ c.new = {Undefined} \/ OfFamily(c.new, Annexures)

\* unambiguous_boundary_correction
Unambiguous(c) ==
  /\ Cardinality(c.new) = 1
  /\ \/ ExactOuter(c) \/ Envelope(c) \/ LowerCourt(c)
     \/ c.new = {Index} /\ facts.anchor[c.p] = Index
     \/ c.new = {Cover} /\ Supports(c.m, c.p, c.new) /\ OuterSignal(c.p)

\* Seeded fault: the opening on the page itself has no veto.
SemanticOk_Blind(c, conflict) == ~conflict \/ Indexed(c)

\* semantic_ok.  conflict: the new segment as a whole reads like something else.
SemanticOk(c, conflict) ==
  \/ Nesting(c) \/ Envelope(c) \/ ExactOuter(c) \/ PrecedingOpening(c)
  \/ LowerCourt(c)
  \/ Indexed(c) /\ OfFamily(c.new, Annexures)
  \/ /\ \/ ~Direct(c) \/ Supports(c.m, c.p, c.new)
        \/ Indexed(c) /\ OfFamily(c.new, Application) /\ facts.cue[c.p] = App
     /\ ~conflict \/ Indexed(c)

\* The status of the operation, in the order of the code's checks.
Outcome(c, conflict) ==
  LET kept == IF Coherent(c.m, c.p) THEN "dismissed" ELSE "left_for_review"
  IN  IF Protects(c) THEN "dismissed"
      ELSE IF IndexOnly(c) /\ Coherent(c.m, c.p) THEN "dismissed"
      ELSE IF IndexOnly(c) /\ Boundary(c) /\ LeavesAnnexures(c) THEN "dismissed"
      ELSE IF IndexOnly(c) /\ ThirdWay(c) THEN "left_for_review"
      ELSE IF LeavesAnnexures(c) /\ ~Exit(c) THEN "dismissed"
      ELSE IF Boundary(c) /\ ~Unambiguous(c) /\ ~Indexed(c)
              /\ "application_continuation" \notin c.ev THEN kept
      ELSE IF c.ev = {} THEN kept
      ELSE IF SemanticOk(c, conflict) THEN "accepted" ELSE "rolled_back"

------------------------------------------------------------------------------
(***************************************************************************)
(* One pass over the pages                                                 *)
(***************************************************************************)
\* The label proposed for p: what the Index says overrides the candidate.
Proposed(m, p, index) ==
  IF index[p] \notin {{}, m[p], candidate[p]} THEN index[p] ELSE candidate[p]

\* Nothing is proposed, or the number of an application would be lost.
Idle(m, p, new) ==
  \/ new \in {{}, m[p]}
  \/ \E a \in Apps : m[p] = {a} /\ new = {Application}

\* What the pass makes of page p, given what it made of the pages before: the
\* map, the operations, and whether it is over.
Judged(start, index, conflicts, b, p) ==
  LET new == Proposed(b.m, p, index)
      c == CaseOf(start, b.m, p, new, index)
      outcome == Outcome(c, p \in conflicts)
  IN  IF b.full \/ Idle(b.m, p, new) THEN b
      ELSE IF b.count >= Limit THEN [b EXCEPT !.full = TRUE]
      ELSE [b EXCEPT
             !.m[p] = IF outcome = "accepted" THEN new ELSE @,
             !.count = @ + 1,
             !.left = \/ @
                      \/ /\ outcome = "left_for_review"
                         /\ c.ev # {} \/ Direct(c)]

Swept(start, index, conflicts) ==
  LET at[p \in 0..PageCount] ==
        IF p = 0 THEN [m |-> start, count |-> count, left |-> left, full |-> FALSE]
        ELSE Judged(start, index, conflicts, at[p - 1], p)
  IN  at[PageCount]

------------------------------------------------------------------------------
(***************************************************************************)
(* Stages                                                                  *)
(***************************************************************************)
Llama(b) ==
  [p \in Pages |-> {b[i].owner : i \in {j \in DOMAIN b : p \in b[j].range}}]

Init ==
  /\ facts \in Facts /\ bundle \in Bundles
  /\ pc = "seed" /\ stage = 0 /\ pass = 0
  /\ map = Llama(bundle) /\ base = map /\ candidate = map
  /\ seen = {} /\ count = 0 /\ left = FALSE /\ stop = None

\* The type of the opening; an application's has the number of the first one.
Type(p) == IF facts.cue[p] = App THEN App1 ELSE facts.cue[p]

\* Empty pages take the type of their own opening, which is not sure enough for
\* an application without an outer heading.
Seeded ==
  [p \in Pages |->
     IF map[p] = {} /\ facts.cue[p] # None /\ (facts.cue[p] = App => OuterSignal(p))
     THEN {Type(p)} ELSE map[p]]

\* _classification_opens_labels: a generic label is opened by any of its family.
Opens(p, labels) == facts.cue[p] # None /\ {Type(p), Family(Type(p))} \cap labels # {}

\* structurally_distinct_opening
Distinct(p) == facts.cue[p] \in Numbered \cup {App}

\* _stabilize_document_continuity: pages that nobody owns, inside a document
\* whose opening was seen, belong to it.
Continued(m) ==
  LET owned == {p \in Pages : m[p] # {}}
      active(p) == m[Max({q \in owned : q < p})]
      opened[p \in Pages] ==
        IF m[p] = {} THEN p > Min(owned) /\ opened[p - 1]
        ELSE IF p = Min(owned) THEN Opens(p, m[p])
        ELSE IF m[p] = active(p) THEN opened[p - 1] \/ Opens(p, m[p])
        ELSE Opens(p, m[p]) \/ (p \notin Starts /\ Distinct(p))
      inside(p) == (\E q \in owned : q < p) /\ \E q \in owned : q > p
  IN  [p \in Pages |-> IF m[p] = {} /\ inside(p) /\ opened[p] THEN active(p) ELSE m[p]]

\* What a rule may propose: a label for a run of pages.
Proposals(m) ==
  {m} \cup {[p \in Pages |-> IF p \in i..j THEN {label} ELSE m[p]] :
              i \in Pages, j \in Pages, label \in RuleLabels}

\* What the Index says of a map: nothing new, or another owner of one page.
IndexMaps(m) ==
  {m} \cup {[m EXCEPT ![p] = {label}] : p \in Pages, label \in IndexLabels}

Begin(m, proposals) ==
  /\ candidate' \in proposals
  /\ map' = m /\ pass' = 1 /\ seen' = {m} /\ stop' = None
  /\ pc' = "pass"

Seed ==
  /\ pc = "seed"
  /\ base' = Continued(Seeded)
  /\ Begin(base', Proposals(base'))
  /\ UNCHANGED <<facts, bundle, stage, count, left>>

\* A pass of the main reconciliation or the only pass of a later rule.  Every
\* pass and every call writes an operation of its own.
Passes == IF stage = 0 THEN MaxPasses ELSE 1
UsesIndex == stage = 0 \/ PostStages[stage].index

Sweep ==
  /\ pc = "pass"
  /\ \E index \in IF UsesIndex THEN IndexMaps(map) ELSE {map},
        conflicts \in {{}, Pages} :
       LET s == Swept(map, index, conflicts)
           changed == s.m # map
       IN  /\ map' = s.m /\ left' = s.left
           /\ count' = s.count + 1
           /\ seen' = seen \cup {s.m}
           /\ stop' = IF changed /\ s.m \in seen THEN "repeated_state"
                      ELSE IF s.full THEN "operation_limit_reached"
                      ELSE IF ~changed THEN "no_further_supported_mutations"
                      ELSE IF pass >= Passes THEN "iteration_budget_reached"
                      ELSE None
           /\ pc' = IF stop' = None THEN "fresh" ELSE "stop"
  /\ UNCHANGED <<facts, bundle, stage, pass, base, candidate>>

\* The rules propose again, for the map that the pass left.
Fresh ==
  /\ pc = "fresh"
  /\ \E proposal \in Proposals(map) :
       /\ stop' = IF proposal = map THEN "no_actionable_fresh_proposals"
                  ELSE IF proposal \in seen THEN "repeated_state" ELSE None
       /\ count' = IF stop' = "repeated_state" THEN count + 1 ELSE count
       /\ candidate' = IF stop' = None THEN proposal ELSE candidate
  /\ pass' = IF stop' = None THEN pass + 1 ELSE pass
  /\ pc' = IF stop' = None THEN "pass" ELSE "stop"
  /\ UNCHANGED <<facts, bundle, stage, map, base, seen, left>>

FreshFails ==
  /\ pc = "fresh"
  /\ stop' = "fresh_proposal_generation_failed" /\ left' = TRUE
  /\ count' = count + 1 /\ pc' = "stop"
  /\ UNCHANGED <<facts, bundle, stage, pass, map, base, candidate, seen>>

\* The call returns; the next rule proposes its map.
NextRule ==
  /\ pc = "stop" /\ stage < Len(PostStages)
  /\ stage' = stage + 1 /\ count' = count + 1
  /\ Begin(map, Proposals(map))
  /\ UNCHANGED <<facts, bundle, base, left>>

Finish ==
  /\ pc = "stop" /\ stage = Len(PostStages)
  /\ pc' = "done" /\ count' = count + 1
  /\ UNCHANGED <<facts, bundle, stage, pass, map, base, candidate, seen, left, stop>>

Done == pc = "done" /\ UNCHANGED vars

Next == Seed \/ Sweep \/ Fresh \/ FreshFails \/ NextRule \/ Finish \/ Done

Spec == Init /\ [][Next]_vars

------------------------------------------------------------------------------
(***************************************************************************)
(* Properties                                                              *)
(***************************************************************************)
TypeOK ==
  /\ facts \in Facts /\ bundle \in Bundles
  /\ pc \in {"seed", "pass", "fresh", "stop", "done"}
  /\ stage \in 0..Len(PostStages) /\ pass \in 0..MaxPasses
  /\ map \in Maps /\ base \in Maps /\ candidate \in Maps /\ seen \subseteq Maps
  /\ count \in Nat /\ left \in BOOLEAN

\* Over all passes and later rules, a page that prints the opening of its own
\* document ends under a label that its opening says, under the one it had, or
\* inside an exhibit or an application; only a lower court's petition is set
\* aside as Undefined (the veto of direct classification in semantic_ok).
HeadingsDecide ==
  \A p \in Pages :
    facts.cue[p] # None /\ map[p] # base[p] =>
      \/ facts.cue[p] \in map[p] \/ map[p] = {Undefined}
      \/ \E l \in map[p] : Family(l) \in {Annexures, Application}

\* Index entries, and stamps of the same series on both sides of p.
Stamped(p) == \E q, r \in Pages : /\ q <= p /\ p < r
                                  /\ Follows(Stamp(r), Stamp(q))

\* Page p joins an exhibit that runs up to the document it was in, or one that
\* opens inside that document, q being the first page of either.
JoinsAt(p, q) ==
  /\ \A r \in q..p - 1 : map'[r] = map[p]
  /\ \/ Supports(map', q, map'[p])
     \/ q > 1 /\ map'[q - 1] = map'[p] /\ OfFamily(map'[p], Annexures)

\* A page of a range on which both passes of LlamaSplit agreed, the later one of
\* two that share the page, leaves its owner only if two consecutive stamps
\* enclose it, if the document that takes it opens inside that owner's run of
\* pages, or if that is an exhibit that runs up to it: whatever was moved before
\* it, in this pass or earlier (breaks_protected_segment).
ProtectedHolds ==
  [][\A p \in Pages : \A i \in ProtectedOn(p) :
       bundle[i].owner \in map[p] \ map'[p] =>
         Stamped(p) \/ \E q \in 1..p : JoinsAt(p, q)]_vars

\* A page that leaves its document as the continuation of another one follows,
\* in the map of that pass, an opening of that document: a span is committed
\* with its opening, not without it (reconcile_compiled_split).
Continues(p) ==
  /\ pc = "pass" /\ stage = 0
  /\ map[p] \notin {{}, {Undefined}} /\ map'[p] # map[p]
  /\ map'[p] = candidate[p] /\ ~Supports(map, p, candidate[p])
  /\ ~OfFamily(map'[p], Annexures)

SpanHasOpening ==
  [][\A p \in Pages :
       Continues(p) => \E q \in Run(map', p, map'[p]) : Supports(map', q, map'[p])]_vars
==============================================================================
