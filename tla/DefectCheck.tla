------------------------------ MODULE DefectCheck ------------------------------
(***************************************************************************)
(* The checks of one scrutiny run, from the evidence of each to the        *)
(* finding that is published (scrutiny_workflow.py, scrutiny/schema.py):   *)
(* missing documents, the answer of the model, the policies it goes        *)
(* through, the retry with complete evidence, and failed calls.            *)
(*                                                                         *)
(* Checks share nothing while they run, so they run one after another      *)
(* here, in any order; DefectCollection has them side by side.  What the   *)
(* model answers, and what search returns, is free.                        *)
(***************************************************************************)
EXTENDS Evidence

CONSTANT Cases   \* filings with the catalogue rows checked on them

\* A page fits into a prompt: _complete_evidence_batches cuts one that does not
\* into slices, which then are the pages here.
ASSUME CasesAssumption ==
  \A c \in Cases :
    /\ c.filing.labels \in Seq(SUBSET STRING)
    /\ c.filing.size \in [Pages(c.filing) -> 0..Room]
    /\ \A id \in DOMAIN c.checks :
         /\ {id, c.checks[id].types} \subseteq Nat
         /\ {c.checks[id].required, c.checks[id].look} \subseteq Seq(STRING)

VARIABLES
  case,      \* [filing, checks], fixed from the start
  findings,  \* by check
  now,       \* the check that runs
  chunks,    \* its excerpts
  left,      \* batches of its retry not yet answered
  answers,   \* those answered
  run        \* "running", "done", "failed"

vars == <<case, findings, now, chunks, left, answers, run>>

Filing == case.filing
Checks == DOMAIN case.checks
Row == case.checks[now.check]

Sampling == {"part_not_in_excerpts", "element_page_not_in_excerpts"}
Gaps == Sampling \cup {"none", "unreadable", "ambiguous", "conflict", "low_confidence"}
Statuses == {"defect_found", "compliant", "needs_review", "not_determined", "not_applicable"}
Rules == {"plain", "presence", "margin", "contradiction", "mark", "date",
          "legibility", "endorsement", "condition"}

NoCheck == [check |-> 0, step |-> "idle"]
NoFinding == [status |-> "none", gap |-> "none", by |-> "none", cites |-> {},
              parts |-> {}, read |-> {}, retried |-> FALSE]

Init ==
  /\ case \in Cases
  /\ findings = [id \in Checks |-> NoFinding]
  /\ now = NoCheck
  /\ chunks = <<>> /\ left = <<>> /\ answers = <<>>
  /\ run = "running"

(***************************************************************************)
(* Missing documents                                                       *)
(***************************************************************************)
\* missing_parts_in_layout: a page without a label proves nothing.
Labelled == Filing.layout /\ \A p \in Pages(Filing) : Filing.labels[p] # {}

Absent(id) ==
  IF Labelled
  THEN {part \in Range(case.checks[id].required) : PagesOf(Filing, part) = {}} ELSE {}

\* The narrowest switched row owns a missing document.
Before(i, j) ==
  LET a == case.checks[i]  b == case.checks[j]
  IN \/ a.types < b.types
     \/ a.types = b.types /\ Len(a.required) < Len(b.required)
     \/ a.types = b.types /\ Len(a.required) = Len(b.required) /\ i < j

\* Seeded fault: every switched row reports a missing document.
Owns_Switched(id, part) == case.checks[id].owner /\ part \in Absent(id)

Owns(id, part) ==
  /\ case.checks[id].owner /\ part \in Absent(id)
  /\ \A other \in Checks \ {id} :
       case.checks[other].owner /\ part \in Absent(other) => Before(id, other)

Owned(id) == {part \in Absent(id) : Owns(id, part)}

(***************************************************************************)
(* Policies.  A response has the model's status, gap and evidence: cites   *)
(* are the pages its quotes were found on, stray says that some quote was  *)
(* found on none, high that its confidence reaches the threshold.          *)
(***************************************************************************)
Review(r, gap) == [r EXCEPT !.status = "needs_review", !.gap = gap, !.high = FALSE]
Conclude(r, status, by) ==
  [r EXCEPT !.status = status, !.gap = "none", !.high = TRUE, !.by = by]
Seen == Filing.visual
VisualComplete == Seen.scope = "ok"

EvidencePages(r, shown) ==
  [r EXCEPT !.cites = @ \cap PageSet(shown),
            !.stray = @ \/ ~ r.cites \subseteq PageSet(shown)]

PresenceOnly(r, shown) ==
  IF /\ Row.rule = "presence"
     /\ Filing.memo \cap (PageSet(shown) \cup (IF Filing.layout THEN Pages(Filing) ELSE {})) # {}
  THEN [Conclude(r, "compliant", "rule") EXCEPT !.gap = r.gap] ELSE r

StatusPolicy(r) ==
  IF r.status \in {"defect_found", "compliant"} /\ ~ r.high
  THEN Review(r, "low_confidence") ELSE r

ReviewReason(r) ==
  IF r.status = "needs_review" /\ r.gap = "low_confidence" /\ r.high
  THEN [r EXCEPT !.gap = "ambiguous"] ELSE r

Undetermined(r, shown) ==
  IF r.status # "not_determined" THEN r
  ELSE IF Missing(Filing, Row, shown) # {} THEN Review(r, "part_not_in_excerpts")
  ELSE Review(r, "unreadable")

Retrieval(r, shown) ==
  IF r.status = "defect_found" /\ Missing(Filing, Row, shown) # {}
  THEN Review(r, "part_not_in_excerpts") ELSE r

\* Margins are measured on the stored words, whatever the model said.
Margin(r) ==
  IF Row.rule # "margin" \/ ~ Filing.layout THEN r
  ELSE IF Filing.narrow # {}
       THEN [Conclude(r, "defect_found", "margin") EXCEPT !.cites = {Min(Filing.narrow)},
                                                          !.stray = FALSE, !.shown = FALSE]
  ELSE IF Filing.measured THEN Conclude(r, "compliant", "rule") ELSE r

\* A quote that shows what it should prove absent is dropped.
Supported(r) ==
  IF r.status = "defect_found" /\ r.shown
  THEN [r EXCEPT !.cites = {}, !.stray = FALSE] ELSE r

Grounded(r) ==
  IF r.status = "defect_found" /\ r.cites = {}
  THEN Review(r, "element_page_not_in_excerpts") ELSE r

Contradiction(r) ==
  IF Row.rule = "contradiction" /\ r.status = "needs_review" /\ r.gap = "conflict" /\ r.roles
  THEN Conclude(r, "defect_found", "contradiction") ELSE r

VisualConflict(r) ==
  IF Row.rule # "mark" \/ r.status # "defect_found" THEN r
  ELSE IF Seen.scope = "none" THEN Review(r, "unreadable")
  ELSE IF Seen.mark THEN Review(r, "conflict")
  ELSE IF ~ VisualComplete THEN Review(r, "unreadable") ELSE r

VisualField(r) ==
  LET blank == \/ Seen.field = "blank"
               \/ Seen.field = "none" /\ r.blank /\ VisualComplete /\ ~ Seen.mark
  IN IF Row.rule # "date" \/ Seen.scope = "none" THEN r
     ELSE IF Seen.field = "present" THEN Conclude(r, "compliant", "rule")
     ELSE IF blank THEN Conclude(r, "defect_found", "date") ELSE r

Capability(r) ==
  IF Row.rule # "legibility" THEN r
  ELSE IF Seen.quality = "none"
       THEN IF r.status \in {"defect_found", "compliant", "needs_review"}
            THEN [Review(r, "unreadable") EXCEPT !.cites = {}, !.stray = FALSE] ELSE r
  ELSE IF Seen.quality = "readable" /\ VisualComplete
       THEN Conclude(r, "compliant", "rule") ELSE r

\* Seeded fault: quotes are dropped after the grounding policy.
Sanitized_GroundedFirst(answer, shown, retry) ==
  LET known == PresenceOnly(EvidencePages(answer, shown), shown)
      sure == Undetermined(ReviewReason(StatusPolicy(known)), shown)
      found == IF retry THEN sure ELSE Retrieval(sure, shown)
      proved == Supported(Grounded(Margin(found)))
  IN Capability(VisualField(VisualConflict(Contradiction(proved))))

\* _sanitize_response
Sanitized(answer, shown, retry) ==
  LET known == PresenceOnly(EvidencePages(answer, shown), shown)
      sure == Undetermined(ReviewReason(StatusPolicy(known)), shown)
      found == IF retry THEN sure ELSE Retrieval(sure, shown)
      proved == Grounded(Supported(Margin(found)))
  IN Capability(VisualField(VisualConflict(Contradiction(proved))))

ScopeCoverage(r, complete) ==
  IF r.status = "compliant" /\ ~ complete
  THEN Review(r, "element_page_not_in_excerpts") ELSE r

\* D-75: no endorsement in the excerpts of a complete Vakalatnama.
Endorsement(r, shown, complete) ==
  IF /\ Row.rule = "endorsement" /\ complete /\ VisualComplete
     /\ r.status \in {"needs_review", "not_determined"}
     /\ UNION {TextOf(Filing, k) : k \in Range(shown)} \cap Filing.endorsed = {}
  THEN [Conclude(r, "defect_found", "endorsement") EXCEPT
          !.cites = IF @ = {} /\ ~ r.stray THEN {Head(shown)[1]} ELSE @]
  ELSE r

\* "Where ...": not applicable when the whole filing lacks the trigger.
Condition(r) ==
  IF /\ Row.rule = "condition" /\ r.status # "defect_found"
     /\ Labelled /\ ~ Filing.trigger
     /\ \E p \in Pages(Filing) : Filing.size[p] > 0
  THEN Conclude(r, "not_applicable", "rule") ELSE r

(***************************************************************************)
(* Answers of the model                                                    *)
(***************************************************************************)
Answers ==
  {[status |-> v[1], gap |-> v[2], high |-> h, cites |-> q, stray |-> w, shown |-> d,
    roles |-> o, blank |-> b, by |-> "model"] :
     v \in ((Statuses \ {"needs_review"}) \X {"none"})
             \cup ({"needs_review"} \X (Gaps \ {"none", "ambiguous"})),
     h \in BOOLEAN,
     q \in {{}} \cup {{p} : p \in Pages(Filing)},
     w \in BOOLEAN,
     d \in BOOLEAN,
     o \in {FALSE, Row.rule = "contradiction"},
     b \in {FALSE, Row.rule = "date"}}

\* _aggregate_complete_batch_responses: the most confident of those that decide.
Surest(rs) == IF \E r \in rs : r.high THEN {r \in rs : r.high} ELSE rs
Aggregates(rs) ==
  LET statuses == {r.status : r \in rs}
      defects == {r \in rs : r.status = "defect_found"}
  IN IF defects # {} THEN Surest(defects)
     ELSE IF statuses \in {{"compliant"}, {"not_applicable"}} THEN Surest(rs)
     ELSE {[r EXCEPT !.status = "needs_review",
                     !.gap = IF @ = "none" THEN "ambiguous" ELSE @] : r \in Surest(rs)}

(***************************************************************************)
(* Steps                                                                   *)
(***************************************************************************)
Idle == now' = NoCheck /\ chunks' = <<>> /\ left' = <<>> /\ answers' = <<>>

Publish(finding) ==
  /\ findings' = [findings EXCEPT ![now.check] = finding]
  /\ Idle /\ UNCHANGED <<case, run>>

\* A document that the layout lacks: its owner reports it, others do not apply.
Begin(id) ==
  /\ run = "running" /\ now = NoCheck /\ findings[id].status = "none"
  /\ IF Absent(id) = {}
     THEN /\ now' = [check |-> id, step |-> "search"]
          /\ UNCHANGED <<case, findings, chunks, left, answers, run>>
     ELSE /\ findings' = [findings EXCEPT ![id] =
               [NoFinding EXCEPT
                  !.status = IF Owned(id) = {} THEN "not_applicable" ELSE "defect_found",
                  !.by = "manifest", !.parts = Owned(id)]]
          /\ UNCHANGED <<case, now, chunks, left, answers, run>>

\* _chunks_for_defect: a second search for the parts that the first missed.
Gather ==
  /\ now.step = "search"
  /\ \/ /\ ~ Filing.indexed
        /\ chunks' = Fallback(Filing, Row, <<>>, PageBudget(Filing, Row))
     \/ /\ Filing.indexed
        /\ \E first \in Searches(Filing, Range(Row.look)) :
           \E more \in Searches(Filing, Missing(Filing, Row, SetToSeq(first))) :
           \E order \in Rankings(first \cup more), near \in 1..Ceiling :
             chunks' = Fallback(Filing, Row,
                                Select(Filing, Row, order, PageBudget(Filing, Row), near),
                                PageBudget(Filing, Row))
  /\ now' = [now EXCEPT !.step = "ask"]
  /\ UNCHANGED <<case, findings, left, answers, run>>

\* The last policies of _run_defect, and build_finding.
Finding(r, shown, read, retry, complete) ==
  LET last == Condition(Endorsement(r, shown, complete))
  IN [status |-> last.status, by |-> last.by, cites |-> last.cites,
      gap |-> IF last.status = "needs_review" THEN last.gap ELSE "none",
      parts |-> {}, read |-> UNION {TextOf(Filing, k) : k \in read}, retried |-> retry]

\* Seeded fault: only a part that was not found leads to a retry.
Retries_Part(r) ==
  /\ r.status = "needs_review" /\ r.gap = "part_not_in_excerpts"
  /\ CompletePages(Filing, Row) # {}

Retries(r) ==
  /\ r.status = "needs_review" /\ r.gap \in Sampling
  /\ CompletePages(Filing, Row) # {}

\* The first answer.  A gap of the sample leads to a retry.
Ask ==
  /\ now.step = "ask"
  /\ LET complete == /\ ScopeComplete(Filing, Row, chunks, FALSE)
                     /\ ~ Truncated(Filing, chunks)
     IN \E answer \in Answers :
          LET r == ScopeCoverage(Sanitized(answer, chunks, FALSE), complete)
          IN IF Retries(r)
             THEN /\ now' = [now EXCEPT !.step = "retry"]
                  /\ chunks' = Complete(Filing, Row)
                  /\ left' = Batches(Filing, Complete(Filing, Row))
                  /\ UNCHANGED <<case, findings, answers, run>>
             ELSE Publish(Finding(r, chunks, Range(Sent(Filing, chunks)), FALSE, complete))

\* One batch of the complete evidence; the last one decides.
AskBatch ==
  /\ now.step = "retry"
  /\ \E answer \in Answers :
       LET all == Append(answers, Sanitized(answer, Head(left), TRUE))
           complete == ScopeComplete(Filing, Row, chunks, TRUE)
           read == UNION {Range(Sent(Filing, b)) : b \in Range(Batches(Filing, chunks))}
       IN \/ /\ Len(left) > 1
             /\ answers' = all /\ left' = Tail(left)
             /\ UNCHANGED <<case, findings, now, chunks, run>>
          \/ /\ Len(left) = 1
             /\ \E r \in Aggregates(Range(all)) :
                  Publish(Finding(ScopeCoverage(r, complete), chunks, read, TRUE, complete))

\* run_one: a check that raises is a finding of its own.
Fails ==
  /\ now # NoCheck
  /\ Publish([NoFinding EXCEPT !.status = "not_determined", !.by = "error"])

\* require_successful_checks
End ==
  /\ run = "running" /\ \A id \in Checks : findings[id].status # "none"
  /\ run' = IF \E id \in Checks : findings[id].by # "error" THEN "done" ELSE "failed"
  /\ UNCHANGED <<case, findings, now, chunks, left, answers>>

Next == (\E id \in Checks : Begin(id)) \/ Gather \/ Ask \/ AskBatch \/ Fails \/ End

Spec == Init /\ [][Next]_vars

(***************************************************************************)
(* Properties                                                              *)
(***************************************************************************)
TypeOK ==
  /\ case \in Cases
  /\ \A id \in Checks : findings[id].status \in Statuses \cup {"none"}
                        /\ findings[id].gap \in Gaps
  /\ now.check \in Checks \cup {0}
  /\ now.step \in {"idle", "search", "ask", "retry"}
  /\ PageSet(chunks) \subseteq Pages(Filing)
  /\ run \in {"running", "done", "failed"}

\* "Never publish a defect without a grounded filing-page observation."  A
\* published defect has a quote on a page, or what stands in for one: a layout
\* with a label on every page and no page of the document, a completed look at
\* the date field, at the whole Vakalatnama, or two party sides in the quotes.
DefectGrounded ==
  \A id \in Checks :
    LET x == findings[id] IN
    x.status = "defect_found" =>
      \/ x.by \in {"model", "margin"} /\ x.cites # {}
      \/ x.by = "manifest" /\ Labelled /\ x.parts # {}
      \/ x.by = "date" /\ (Seen.field = "blank" \/ VisualComplete)
      \/ x.by = "endorsement" /\ VisualComplete
      \/ x.by = "contradiction"

\* "Do not publish collection-wide compliance from a semantic sample."  A check
\* that finds no defect put every page it must see before the model: none fell
\* to the budget of excerpts, the room of the prompt or the split in batches.
PagesInspected ==
  \A id \in Checks :
    LET x == findings[id]  c == case.checks[id] IN
    x.status = "compliant" =>
      \A part \in Range(c.required) :
        /\ PagesOf(Filing, part) # {}
        /\ MustSee(Filing, c, x.retried, part) \subseteq PageSet(SetToSeq(x.read))

\* The same of the text: every piece of those pages was read, also for the
\* finding that a complete Vakalatnama has no endorsement.
TextInspected ==
  \A id \in Checks :
    LET x == findings[id]  c == case.checks[id] IN
    x.status = "compliant" \/ x.by = "endorsement" =>
      \A part \in Range(c.required) :
        \A p \in MustSee(Filing, c, x.retried, part) : Pieces(Filing, p) \subseteq x.read

\* A missing document is reported by exactly one of the checks that may report
\* it, and a document that is there by none.
OnceReported ==
  \A part \in UNION {Range(case.checks[id].required) : id \in Checks} :
    LET reports == {id \in Checks : part \in findings[id].parts}
        may == {id \in Checks : case.checks[id].owner /\ part \in Absent(id)}
    IN /\ Cardinality(reports) <= 1
       /\ reports # {} => PagesOf(Filing, part) = {}
       /\ run # "running" /\ may # {} => reports # {}

\* "Partition complete evidence without dropping a parsed page."
RetryReadsAll ==
  \A id \in Checks :
    findings[id].retried =>
      UNION {Pieces(Filing, p) : p \in CompletePages(Filing, case.checks[id])}
        \subseteq findings[id].read

\* "Genuine unreadable/contradictory evidence remains unresolved; missing
\* semantic excerpts do not": a gap of the sample is published only when the
\* pages were read, or the layout has none to read.
SampleRetried ==
  \A id \in Checks :
    LET x == findings[id] IN
    x.status = "needs_review" /\ x.gap \in Sampling =>
      x.retried \/ CompletePages(Filing, case.checks[id]) = {}
=============================================================================
