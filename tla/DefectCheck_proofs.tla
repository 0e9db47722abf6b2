--------------------------- MODULE DefectCheck_proofs ---------------------------
(***************************************************************************)
(* That a published defect has grounds, that a missing document is         *)
(* reported once, that a gap of the sample is published only after a       *)
(* retry, that a retry reads all text it should and that a check that      *)
(* finds no defect had all its pages before the model: for any filings and *)
(* catalogues, any hits of the searches, any order of the reranker and any *)
(* answers of the model.                                                   *)
(***************************************************************************)
EXTENDS DefectCheck, WellFoundedInduction, FiniteSetTheorems, TLAPS

\* What a response is, wherever it is between the model and the finding.
Origins == {"model", "rule", "margin", "contradiction", "date", "endorsement"}
CiteSets == (SUBSET Pages(Filing)) \cup {{Min(Filing.narrow)}}
Response ==
  [status : Statuses, gap : Gaps, high : BOOLEAN, cites : CiteSets, stray : BOOLEAN,
   shown : BOOLEAN, roles : BOOLEAN, blank : BOOLEAN, by : Origins]

\* Before the grounding policy, and after it.
Claimed(r) == r.status = "defect_found" => r.by \in {"model", "margin"}
HasGrounds(x) ==
  x.status = "defect_found" =>
    \/ x.by \in {"model", "margin"} /\ x.cites # {}
    \/ x.by = "date" /\ (Seen.field = "blank" \/ VisualComplete)
    \/ x.by = "endorsement" /\ VisualComplete
    \/ x.by = "contradiction"

------------------------------------------------------------------------------
(***************************************************************************)
(* One policy after the other                                              *)
(***************************************************************************)
LEMMA AnswerType ==
  ASSUME NEW r \in Answers
  PROVE  r \in Response /\ Claimed(r) /\ r.cites \in SUBSET Pages(Filing)
<1>1. PICK v \in ((Statuses \ {"needs_review"}) \X {"none"})
                   \cup ({"needs_review"} \X (Gaps \ {"none", "ambiguous"})),
           h \in BOOLEAN, q \in {{}} \cup {{p} : p \in Pages(Filing)},
           w \in BOOLEAN, d \in BOOLEAN, o \in {FALSE, Row.rule = "contradiction"},
           b \in {FALSE, Row.rule = "date"} :
             r = [status |-> v[1], gap |-> v[2], high |-> h, cites |-> q, stray |-> w,
                  shown |-> d, roles |-> o, blank |-> b, by |-> "model"]
  BY DEF Answers
<1>2. v[1] \in Statuses /\ v[2] \in Gaps
  BY DEF Statuses, Gaps
<1>3. o \in BOOLEAN /\ b \in BOOLEAN
  OBVIOUS
<1>4. q \in SUBSET Pages(Filing)
  OBVIOUS
<1> QED
  BY <1>1, <1>2, <1>3, <1>4 DEF Response, Claimed, CiteSets, Origins

LEMMA WithGap ==
  ASSUME NEW r \in Response, NEW gap \in Gaps
  PROVE  /\ [r EXCEPT !.gap = gap] \in Response
         /\ [r EXCEPT !.gap = gap].status = r.status
         /\ [r EXCEPT !.gap = gap].by = r.by
         /\ [r EXCEPT !.gap = gap].cites = r.cites
BY DEF Response

LEMMA WithCites ==
  ASSUME NEW r \in Response, NEW cites \in CiteSets, NEW stray \in BOOLEAN
  PROVE  /\ [r EXCEPT !.cites = cites, !.stray = stray] \in Response
         /\ [r EXCEPT !.cites = cites, !.stray = stray].status = r.status
         /\ [r EXCEPT !.cites = cites, !.stray = stray].by = r.by
         /\ [r EXCEPT !.cites = cites, !.stray = stray].cites = cites
BY DEF Response

LEMMA ConcludeType ==
  ASSUME NEW r \in Response, NEW status \in Statuses, NEW by \in Origins
  PROVE  /\ Conclude(r, status, by) \in Response
         /\ Conclude(r, status, by).status = status
         /\ Conclude(r, status, by).by = by
         /\ Conclude(r, status, by).cites = r.cites
BY DEF Conclude, Response, Gaps

LEMMA ReviewType ==
  ASSUME NEW r \in Response, NEW gap \in Gaps
  PROVE  /\ Review(r, gap) \in Response
         /\ Review(r, gap).status = "needs_review"
         /\ Review(r, gap).cites = r.cites
BY DEF Review, Response, Statuses

\* The pages of a quote that were shown stay, the others leave it.
LEMMA EvidencePagesType ==
  ASSUME NEW r \in Answers, NEW shown
  PROVE  EvidencePages(r, shown) \in Response /\ Claimed(EvidencePages(r, shown))
<1> DEFINE cites == r.cites \cap PageSet(shown)
           stray == r.stray \/ ~ (r.cites \subseteq PageSet(shown))
<1>1. r \in Response /\ Claimed(r) /\ r.cites \in SUBSET Pages(Filing)
  BY AnswerType
<1>2. cites \in CiteSets
  BY <1>1 DEF CiteSets
<1>3. stray \in BOOLEAN
  OBVIOUS
<1>4. EvidencePages(r, shown) = [r EXCEPT !.cites = cites, !.stray = stray]
  BY DEF EvidencePages
<1>5. \E c \in CiteSets, s \in BOOLEAN :
        EvidencePages(r, shown) = [r EXCEPT !.cites = c, !.stray = s]
  <2> HIDE DEF cites, stray
  <2> QED  BY <1>2, <1>3, <1>4, Zenon
<1>6. PICK c \in CiteSets, s \in BOOLEAN :
        EvidencePages(r, shown) = [r EXCEPT !.cites = c, !.stray = s]
  BY <1>5
<1>7. /\ EvidencePages(r, shown) \in Response
      /\ EvidencePages(r, shown).status = r.status
      /\ EvidencePages(r, shown).by = r.by
  <2>1. r \in Response
    BY <1>1
  <2>2. /\ [r EXCEPT !.cites = c, !.stray = s] \in Response
        /\ [r EXCEPT !.cites = c, !.stray = s].status = r.status
        /\ [r EXCEPT !.cites = c, !.stray = s].by = r.by
    BY <2>1, WithCites, Zenon
  <2> QED
    BY <1>6, <2>2, Zenon
<1> QED
  BY <1>1, <1>7 DEF Claimed

\* What does not end as a defect claims nothing.
LEMMA NothingClaimed ==
  ASSUME NEW r, r.status # "defect_found"
  PROVE  Claimed(r) /\ HasGrounds(r)
BY DEF Claimed, HasGrounds

LEMMA PresenceOnlyKeeps ==
  ASSUME NEW r \in Response, Claimed(r), NEW shown
  PROVE  PresenceOnly(r, shown) \in Response /\ Claimed(PresenceOnly(r, shown))
<1> DEFINE k == Conclude(r, "compliant", "rule")
<1>1. "compliant" \in Statuses /\ "rule" \in Origins
  BY DEF Statuses, Origins
<1>2. k \in Response /\ k.status = "compliant"
  BY <1>1, ConcludeType
<1>3. PresenceOnly(r, shown) = r \/ PresenceOnly(r, shown) = [k EXCEPT !.gap = r.gap]
  BY DEF PresenceOnly
<1>4. r.gap \in Gaps
  BY DEF Response
<1> HIDE DEF k
<1>5. [k EXCEPT !.gap = r.gap] \in Response /\ [k EXCEPT !.gap = r.gap].status = "compliant"
  BY <1>2, <1>4, WithGap
<1> QED
  BY <1>3, <1>5, NothingClaimed

\* None of these policies finds a defect that the model did not find.
LEMMA ClaimedKept ==
  ASSUME NEW r \in Response, Claimed(r), NEW shown
  PROVE  /\ StatusPolicy(r) \in Response /\ Claimed(StatusPolicy(r))
         /\ ReviewReason(r) \in Response /\ Claimed(ReviewReason(r))
         /\ Undetermined(r, shown) \in Response /\ Claimed(Undetermined(r, shown))
         /\ Retrieval(r, shown) \in Response /\ Claimed(Retrieval(r, shown))
<1>1. {"low_confidence", "unreadable", "part_not_in_excerpts", "ambiguous"} \subseteq Gaps
  BY DEF Gaps, Sampling
<1>2. \A gap \in Gaps : Review(r, gap) \in Response /\ Claimed(Review(r, gap))
  BY ReviewType, NothingClaimed
<1>3. StatusPolicy(r) \in Response /\ Claimed(StatusPolicy(r))
  BY <1>1, <1>2 DEF StatusPolicy
<1>4. ReviewReason(r) \in Response /\ Claimed(ReviewReason(r))
  <2>1. ReviewReason(r) = r \/ ReviewReason(r) = [r EXCEPT !.gap = "ambiguous"]
    BY DEF ReviewReason
  <2>2. /\ [r EXCEPT !.gap = "ambiguous"] \in Response
        /\ [r EXCEPT !.gap = "ambiguous"].status = r.status
        /\ [r EXCEPT !.gap = "ambiguous"].by = r.by
    BY <1>1, WithGap
  <2> QED
    BY <2>1, <2>2 DEF Claimed
<1>5. Undetermined(r, shown) \in Response /\ Claimed(Undetermined(r, shown))
  BY <1>1, <1>2 DEF Undetermined
<1>6. Retrieval(r, shown) \in Response /\ Claimed(Retrieval(r, shown))
  BY <1>1, <1>2 DEF Retrieval
<1> QED
  BY <1>3, <1>4, <1>5, <1>6

\* A narrow margin is a defect of its own; a quote that shows what it should
\* prove absent leaves the defect without a page.
LEMMA MarginType ==
  ASSUME NEW r \in Response, Claimed(r)
  PROVE  Margin(r) \in Response /\ Claimed(Margin(r))
<1> DEFINE k == Conclude(r, "defect_found", "margin")
           found == [k EXCEPT !.cites = {Min(Filing.narrow)}, !.stray = FALSE, !.shown = FALSE]
           fine == Conclude(r, "compliant", "rule")
<1>1. /\ {"defect_found", "compliant"} \subseteq Statuses
      /\ {"margin", "rule"} \subseteq Origins
  BY DEF Statuses, Origins
<1>2. k \in Response /\ k.by = "margin"
  BY <1>1, ConcludeType
<1>3. fine \in Response /\ Claimed(fine)
  <2>1. fine \in Response /\ fine.status = "compliant"
    BY <1>1, ConcludeType
  <2> HIDE DEF fine
  <2> QED  BY <2>1, NothingClaimed
<1>4. {Min(Filing.narrow)} \in CiteSets
  BY DEF CiteSets
<1>5. Margin(r) = r \/ Margin(r) = found \/ Margin(r) = fine
  BY DEF Margin
<1> HIDE DEF k, fine
<1>6. found \in Response /\ found.by = "margin"
  BY <1>2, <1>4 DEF Response
<1> HIDE DEF found
<1>7. Claimed(found)
  BY <1>6 DEF Claimed
<1> QED
  BY <1>3, <1>5, <1>6, <1>7

LEMMA GroundedType ==
  ASSUME NEW r \in Response, Claimed(r)
  PROVE  /\ Supported(r) \in Response /\ Claimed(Supported(r))
         /\ Grounded(r) \in Response /\ HasGrounds(Grounded(r))
<1>1. Supported(r) \in Response /\ Claimed(Supported(r))
  <2>1. Supported(r) = r \/ Supported(r) = [r EXCEPT !.cites = {}, !.stray = FALSE]
    BY DEF Supported
  <2>2. {} \in CiteSets
    BY DEF CiteSets
  <2>3. /\ [r EXCEPT !.cites = {}, !.stray = FALSE] \in Response
        /\ [r EXCEPT !.cites = {}, !.stray = FALSE].status = r.status
        /\ [r EXCEPT !.cites = {}, !.stray = FALSE].by = r.by
    BY <2>2, WithCites
  <2> QED
    BY <2>1, <2>3 DEF Claimed
<1>2. Grounded(r) \in Response /\ HasGrounds(Grounded(r))
  <2>1. "element_page_not_in_excerpts" \in Gaps
    BY DEF Gaps, Sampling
  <2>2. /\ Review(r, "element_page_not_in_excerpts") \in Response
        /\ HasGrounds(Review(r, "element_page_not_in_excerpts"))
    BY <2>1, ReviewType, NothingClaimed
  <2>3. ~ (r.status = "defect_found" /\ r.cites = {}) => HasGrounds(r)
    BY DEF Claimed, HasGrounds
  <2> QED
    BY <2>2, <2>3 DEF Grounded
<1> QED
  BY <1>1, <1>2

\* The policies behind it find a defect only on grounds of their own.
LEMMA ContradictionKeeps ==
  ASSUME NEW r \in Response, HasGrounds(r)
  PROVE  Contradiction(r) \in Response /\ HasGrounds(Contradiction(r))
<1>1. "defect_found" \in Statuses /\ "contradiction" \in Origins
  BY DEF Statuses, Origins
<1>2. /\ Conclude(r, "defect_found", "contradiction") \in Response
      /\ Conclude(r, "defect_found", "contradiction").by = "contradiction"
  BY <1>1, ConcludeType
<1> QED
  BY <1>2 DEF Contradiction, HasGrounds

LEMMA ReviewGrounds ==
  ASSUME NEW r \in Response, NEW gap \in Gaps
  PROVE  HasGrounds(Review(r, gap))
BY ReviewType, NothingClaimed

LEMMA RuleGrounds ==
  ASSUME NEW r \in Response, NEW status \in Statuses \ {"defect_found"}
  PROVE  Conclude(r, status, "rule") \in Response /\ HasGrounds(Conclude(r, status, "rule"))
<1>1. "rule" \in Origins
  BY DEF Origins
<1>2. Conclude(r, status, "rule").status = status
  BY <1>1, ConcludeType
<1> QED
  BY <1>1, <1>2, ConcludeType, NothingClaimed

LEMMA VisualConflictKeeps ==
  ASSUME NEW r \in Response, HasGrounds(r)
  PROVE  VisualConflict(r) \in Response /\ HasGrounds(VisualConflict(r))
<1>1. {"unreadable", "conflict"} \subseteq Gaps
  BY DEF Gaps
<1> QED
  BY <1>1, ReviewType, ReviewGrounds DEF VisualConflict

LEMMA VisualFieldKeeps ==
  ASSUME NEW r \in Response, HasGrounds(r)
  PROVE  VisualField(r) \in Response /\ HasGrounds(VisualField(r))
<1>1. "compliant" \in Statuses \ {"defect_found"} /\ "defect_found" \in Statuses /\ "date" \in Origins
  BY DEF Statuses, Origins
<1>2. /\ Conclude(r, "defect_found", "date") \in Response
      /\ Conclude(r, "defect_found", "date").by = "date"
  BY <1>1, ConcludeType
<1>3. Conclude(r, "compliant", "rule") \in Response /\ HasGrounds(Conclude(r, "compliant", "rule"))
  BY <1>1, RuleGrounds
<1>4. Seen.field = "blank" \/ VisualComplete => HasGrounds(Conclude(r, "defect_found", "date"))
  BY <1>2 DEF HasGrounds
<1> QED
  BY <1>2, <1>3, <1>4 DEF VisualField

LEMMA CapabilityKeeps ==
  ASSUME NEW r \in Response, HasGrounds(r)
  PROVE  Capability(r) \in Response /\ HasGrounds(Capability(r))
<1>1. "unreadable" \in Gaps /\ "compliant" \in Statuses \ {"defect_found"}
  BY DEF Gaps, Statuses
<1>2. Review(r, "unreadable") \in Response /\ Review(r, "unreadable").status = "needs_review"
  BY <1>1, ReviewType
<1>3. /\ [Review(r, "unreadable") EXCEPT !.cites = {}, !.stray = FALSE] \in Response
      /\ [Review(r, "unreadable") EXCEPT !.cites = {}, !.stray = FALSE].status = "needs_review"
  <2>1. {} \in CiteSets
    BY DEF CiteSets
  <2> QED
    BY <1>2, <2>1, WithCites
<1>4. HasGrounds([Review(r, "unreadable") EXCEPT !.cites = {}, !.stray = FALSE])
  BY <1>3, NothingClaimed
<1> QED
  BY <1>1, <1>3, <1>4, RuleGrounds DEF Capability

\* An answer after all of them.
LEMMA SanitizedGrounds ==
  ASSUME NEW answer \in Answers, NEW shown, NEW retry \in BOOLEAN
  PROVE  Sanitized(answer, shown, retry) \in Response /\ HasGrounds(Sanitized(answer, shown, retry))
<1> DEFINE pages == EvidencePages(answer, shown)
           known == PresenceOnly(pages, shown)
           rated == StatusPolicy(known)
           reason == ReviewReason(rated)
           sure == Undetermined(reason, shown)
           found == IF retry THEN sure ELSE Retrieval(sure, shown)
           measured == Margin(found)
           supported == Supported(measured)
           proved == Grounded(supported)
           conflict == Contradiction(proved)
           mark == VisualConflict(conflict)
           date == VisualField(mark)
<1>1. pages \in Response /\ Claimed(pages)
  BY EvidencePagesType
<1>2. known \in Response /\ Claimed(known)
  <2> HIDE DEF pages
  <2> QED  BY <1>1, PresenceOnlyKeeps
<1>3. rated \in Response /\ Claimed(rated)
  <2> HIDE DEF known
  <2> QED  BY <1>2, ClaimedKept
<1>4. reason \in Response /\ Claimed(reason)
  <2> HIDE DEF rated
  <2> QED  BY <1>3, ClaimedKept
<1>5. sure \in Response /\ Claimed(sure)
  <2> HIDE DEF reason
  <2> QED  BY <1>4, ClaimedKept
<1>6. found \in Response /\ Claimed(found)
  <2> HIDE DEF sure
  <2> QED  BY <1>5, ClaimedKept
<1>7. measured \in Response /\ Claimed(measured)
  <2> HIDE DEF found
  <2> QED  BY <1>6, MarginType
<1>8. supported \in Response /\ Claimed(supported)
  <2> HIDE DEF measured
  <2> QED  BY <1>7, GroundedType
<1>9. proved \in Response /\ HasGrounds(proved)
  <2> HIDE DEF supported
  <2> QED  BY <1>8, GroundedType
<1>10. conflict \in Response /\ HasGrounds(conflict)
  <2> HIDE DEF proved
  <2> QED  BY <1>9, ContradictionKeeps
<1>11. mark \in Response /\ HasGrounds(mark)
  <2> HIDE DEF conflict
  <2> QED  BY <1>10, VisualConflictKeeps
<1>12. date \in Response /\ HasGrounds(date)
  <2> HIDE DEF mark
  <2> QED  BY <1>11, VisualFieldKeeps
<1>13. Capability(date) \in Response /\ HasGrounds(Capability(date))
  <2> HIDE DEF date
  <2> QED  BY <1>12, CapabilityKeeps
<1> QED
  BY <1>13 DEF Sanitized

------------------------------------------------------------------------------
(***************************************************************************)
(* Answers together, and the last policies                                 *)
(***************************************************************************)
Proven == {r \in Response : HasGrounds(r)}

\* Of proven answers the most confident one is proven, and so is the doubt
\* that is left when they disagree.
LEMMA AggregatesProven ==
  ASSUME NEW rs \in SUBSET Proven
  PROVE  Aggregates(rs) \subseteq Proven
<1> DEFINE defects == {r \in rs : r.status = "defect_found"}
           doubt(r) == [r EXCEPT !.status = "needs_review",
                                 !.gap = IF @ = "none" THEN "ambiguous" ELSE @]
<1>1. \A qs : Surest(qs) \subseteq qs
  BY DEF Surest
<1>2. Surest(defects) \subseteq Proven /\ Surest(rs) \subseteq Proven
  BY <1>1
<1>3. ASSUME NEW r \in Surest(rs) PROVE doubt(r) \in Proven
  <2>1. r \in Response
    BY <1>2, <1>3 DEF Proven
  <2>2. PICK gap \in Gaps : doubt(r) = [r EXCEPT !.status = "needs_review", !.gap = gap]
    <3>1. "ambiguous" \in Gaps /\ r.gap \in Gaps
      BY <2>1 DEF Gaps, Response
    <3>2. CASE r.gap = "none"
      BY <3>1, <3>2
    <3>3. CASE r.gap # "none"
      BY <3>1, <3>3
    <3> QED
      BY <3>2, <3>3
  <2>3. /\ [r EXCEPT !.status = "needs_review", !.gap = gap] \in Response
        /\ [r EXCEPT !.status = "needs_review", !.gap = gap].status = "needs_review"
    BY <2>1 DEF Response, Statuses
  <2> HIDE DEF doubt
  <2> QED
    BY <2>2, <2>3, NothingClaimed DEF Proven
<1>4. Aggregates(rs) \in {Surest(defects), Surest(rs), {doubt(r) : r \in Surest(rs)}}
  BY DEF Aggregates
<1>5. {doubt(r) : r \in Surest(rs)} \subseteq Proven
  <2> HIDE DEF doubt
  <2> QED  BY <1>3
<1> HIDE DEF defects, doubt
<1> QED
  BY <1>2, <1>4, <1>5

LEMMA ScopeProven ==
  ASSUME NEW r \in Proven, NEW complete
  PROVE  ScopeCoverage(r, complete) \in Proven
<1>1. "element_page_not_in_excerpts" \in Gaps
  BY DEF Gaps, Sampling
<1>2. Review(r, "element_page_not_in_excerpts") \in Proven
  BY <1>1, ReviewType, ReviewGrounds DEF Proven
<1> QED
  BY <1>2 DEF ScopeCoverage

\* What the finding of a check takes from its response.
LastAnswer(r, shown, complete) == Condition(Endorsement(r, shown, complete))

LEMMA LastType ==
  ASSUME NEW r \in Proven, NEW shown, NEW complete
  PROVE  /\ HasGrounds(LastAnswer(r, shown, complete))
         /\ LastAnswer(r, shown, complete).status \in {"needs_review", "compliant"} =>
              LastAnswer(r, shown, complete) = r
<1> DEFINE all == CiteSets \cup {{Head(shown)[1]}}
           k == Conclude(r, "defect_found", "endorsement")
           cites == IF k.cites = {} /\ ~ r.stray THEN {Head(shown)[1]} ELSE k.cites
           e == Endorsement(r, shown, complete)
<1>1. r \in Response /\ HasGrounds(r)
  BY DEF Proven
<1>2. "defect_found" \in Statuses /\ "endorsement" \in Origins
  BY DEF Statuses, Origins
<1>3. /\ k \in Response /\ k.status = "defect_found" /\ k.by = "endorsement"
      /\ k.cites \in CiteSets
  BY <1>1, <1>2, ConcludeType DEF Response
<1>4. e = r \/ (VisualComplete /\ e = [k EXCEPT !.cites = cites])
  BY DEF Endorsement
<1>5. cites \in all
  BY <1>3
<1>6. PICK c \in all : e = r \/ (VisualComplete /\ e = [k EXCEPT !.cites = c])
  <2> HIDE DEF all, k, cites, e
  <2> QED  BY <1>4, <1>5
<1> HIDE DEF k, cites, e
<1>7. /\ [k EXCEPT !.cites = c].status = "defect_found"
      /\ [k EXCEPT !.cites = c].by = "endorsement"
      /\ [k EXCEPT !.cites = c] \in
           [status : Statuses, gap : Gaps, high : BOOLEAN, cites : all, stray : BOOLEAN,
            shown : BOOLEAN, roles : BOOLEAN, blank : BOOLEAN, by : Origins]
  BY <1>3 DEF Response
<1>8. HasGrounds(e) /\ (e.status \in {"needs_review", "compliant"} => e = r)
  BY <1>1, <1>6, <1>7 DEF HasGrounds
<1>9. e \in [status : Statuses, gap : Gaps, high : BOOLEAN, cites : all, stray : BOOLEAN,
             shown : BOOLEAN, roles : BOOLEAN, blank : BOOLEAN, by : Origins]
  BY <1>1, <1>6, <1>7 DEF Response
<1>10. Conclude(e, "not_applicable", "rule").status = "not_applicable"
  BY <1>9 DEF Conclude
<1>11. Condition(e) = e \/ Condition(e) = Conclude(e, "not_applicable", "rule")
  BY DEF Condition
<1>12. LastAnswer(r, shown, complete) = Condition(e)
  BY DEF LastAnswer, e
<1> QED
  BY <1>8, <1>10, <1>11, <1>12, NothingClaimed

------------------------------------------------------------------------------
(***************************************************************************)
(* A published defect has grounds                                          *)
(***************************************************************************)
\* What DefectGrounded and SampleRetried ask of one finding.
Founded(x) ==
  x.status = "defect_found" => HasGrounds(x) \/ (x.by = "manifest" /\ Labelled /\ x.parts # {})
Settled(x, row) ==
  x.status = "needs_review" /\ x.gap \in Sampling =>
    x.retried \/ CompletePages(Filing, row) = {}

LEMMA FindingFounded ==
  ASSUME NEW r \in Proven, NEW shown, NEW read, NEW retry \in BOOLEAN, NEW complete
  PROVE  /\ Founded(Finding(r, shown, read, retry, complete))
         /\ (retry \/ ~ Retries(r)) => Settled(Finding(r, shown, read, retry, complete), Row)
<1> DEFINE last == LastAnswer(r, shown, complete)
           x == Finding(r, shown, read, retry, complete)
<1>1. HasGrounds(last) /\ (last.status = "needs_review" => last = r)
  BY LastType
<1>2. /\ x.status = last.status /\ x.by = last.by /\ x.cites = last.cites
      /\ x.retried = retry
      /\ x.gap = IF last.status = "needs_review" THEN last.gap ELSE "none"
  BY DEF Finding, LastAnswer
<1> HIDE DEF last, x
<1>3. Founded(x)
  BY <1>1, <1>2 DEF Founded, HasGrounds
<1>4. ASSUME retry \/ ~ Retries(r) PROVE Settled(x, Row)
  BY <1>1, <1>2, <1>4 DEF Settled, Retries
<1> QED
  BY <1>3, <1>4 DEF x

\* The filing and its checks never change, so neither does what they ground.
LEMMA CaseFixed ==
  ASSUME UNCHANGED case
  PROVE  /\ Checks' = Checks /\ Proven' = Proven
         /\ \A x : Founded(x)' <=> Founded(x)
         /\ \A x, id : Settled(x, case.checks[id])' <=> Settled(x, case.checks[id])
<1>1. Filing' = Filing /\ Checks' = Checks
  BY DEF Filing, Checks
<1>2. \A x : HasGrounds(x)' <=> HasGrounds(x)
  BY <1>1 DEF HasGrounds, Seen, VisualComplete
<1>3. Response' = Response
  BY <1>1 DEF Response, CiteSets
<1>4. Proven' = Proven
  BY <1>2, <1>3 DEF Proven
<1>5. Labelled' <=> Labelled
  BY <1>1 DEF Labelled
<1>6. \A x : Founded(x)' <=> Founded(x)
  BY <1>2, <1>5 DEF Founded
<1>7. \A x, id : Settled(x, case.checks[id])' <=> Settled(x, case.checks[id])
  BY <1>1 DEF Settled
<1> QED
  BY <1>1, <1>4, <1>6, <1>7

GInv ==
  /\ answers \in Seq(Proven)
  /\ DOMAIN findings = Checks
  /\ \A id \in Checks : Founded(findings[id]) /\ Settled(findings[id], case.checks[id])

LEMMA PublishKeeps ==
  ASSUME GInv, NEW x, Founded(x), Settled(x, Row), Publish(x)
  PROVE  GInv'
<1>1. UNCHANGED case /\ answers' = <<>> /\ findings' = [findings EXCEPT ![now.check] = x]
  BY DEF Publish, Idle
<1>2. answers' \in Seq(Proven)
  BY <1>1
<1>3. DOMAIN findings' = Checks
  BY <1>1 DEF GInv
<1>4. \A id \in Checks : Founded(findings'[id]) /\ Settled(findings'[id], case.checks[id])
  BY <1>1 DEF GInv, Row
<1> QED
  BY <1>1, <1>2, <1>3, <1>4, CaseFixed DEF GInv

\* What leaves the findings and the case alone, and adds a proven answer at most.
LEMMA QuietKeeps ==
  ASSUME GInv, UNCHANGED <<case, findings>>, answers' \in Seq(Proven)
  PROVE  GInv'
BY CaseFixed DEF GInv

LEMMA GroundsStep ==
  ASSUME GInv, [Next]_vars
  PROVE  GInv'
<1>1. ASSUME NEW id \in Checks, Begin(id) PROVE GInv'
  <2>1. CASE Absent(id) = {}
    BY <1>1, <2>1, QuietKeeps DEF Begin, GInv
  <2>2. CASE Absent(id) # {}
    <3> DEFINE x == [NoFinding EXCEPT
          !.status = IF Owned(id) = {} THEN "not_applicable" ELSE "defect_found",
          !.by = "manifest", !.parts = Owned(id)]
    <3>1. UNCHANGED <<case, answers>> /\ findings' = [findings EXCEPT ![id] = x]
      BY <1>1, <2>2 DEF Begin
    <3>2. /\ x.status = IF Owned(id) = {} THEN "not_applicable" ELSE "defect_found"
          /\ x.by = "manifest" /\ x.parts = Owned(id)
      BY DEF NoFinding
    <3>3. Labelled
      BY <2>2 DEF Absent
    <3> HIDE DEF x
    <3>4. Founded(x) /\ Settled(x, case.checks[id])
      BY <3>2, <3>3 DEF Founded, Settled
    <3>5. \A i \in Checks : Founded(findings'[i]) /\ Settled(findings'[i], case.checks[i])
      BY <3>1, <3>4 DEF GInv
    <3> QED
      BY <3>1, <3>5, CaseFixed DEF GInv
  <2> QED
    BY <2>1, <2>2
<1>2. CASE Gather
  BY <1>2, QuietKeeps DEF Gather, GInv
<1>3. CASE Ask
  <2> DEFINE complete == /\ ScopeComplete(Filing, Row, chunks, FALSE)
                         /\ ~ Truncated(Filing, chunks)
  <2>1. PICK answer \in Answers :
          LET r == ScopeCoverage(Sanitized(answer, chunks, FALSE), complete)
          IN IF Retries(r)
             THEN /\ now' = [now EXCEPT !.step = "retry"]
                  /\ chunks' = Complete(Filing, Row)
                  /\ left' = Batches(Filing, Complete(Filing, Row))
                  /\ UNCHANGED <<case, findings, answers, run>>
             ELSE Publish(Finding(r, chunks, Range(Sent(Filing, chunks)), FALSE, complete))
    BY <1>3 DEF Ask
  <2> HIDE DEF complete
  <2> DEFINE r == ScopeCoverage(Sanitized(answer, chunks, FALSE), complete)
  <2>2. r \in Proven
    <3>1. Sanitized(answer, chunks, FALSE) \in Proven
      BY SanitizedGrounds DEF Proven
    <3> QED
      BY <3>1, ScopeProven
  <2>3. CASE Retries(r)
    BY <2>1, <2>3, QuietKeeps DEF GInv
  <2>4. CASE ~ Retries(r)
    <3> DEFINE x == Finding(r, chunks, Range(Sent(Filing, chunks)), FALSE, complete)
    <3>1. Publish(x)
      BY <2>1, <2>4
    <3> HIDE DEF r
    <3>2. Founded(x) /\ Settled(x, Row)
      BY <2>2, <2>4, FindingFounded
    <3> HIDE DEF x
    <3> QED
      BY <3>1, <3>2, PublishKeeps
  <2> QED
    BY <2>3, <2>4
<1>4. CASE AskBatch
  <2> DEFINE complete == ScopeComplete(Filing, Row, chunks, TRUE)
             read == UNION {Range(Sent(Filing, b)) : b \in Range(Batches(Filing, chunks))}
  <2>1. PICK answer \in Answers :
          LET all == Append(answers, Sanitized(answer, Head(left), TRUE))
          IN \/ /\ Len(left) > 1
                /\ answers' = all /\ left' = Tail(left)
                /\ UNCHANGED <<case, findings, now, chunks, run>>
             \/ /\ Len(left) = 1
                /\ \E r \in Aggregates(Range(all)) :
                     Publish(Finding(ScopeCoverage(r, complete), chunks, read, TRUE, complete))
    BY <1>4 DEF AskBatch
  <2> HIDE DEF complete, read
  <2> DEFINE one == Sanitized(answer, Head(left), TRUE)
             all == Append(answers, one)
  <2>2. all \in Seq(Proven)
    <3>1. one \in Proven
      BY SanitizedGrounds DEF Proven
    <3>2. answers \in Seq(Proven)
      BY DEF GInv
    <3> HIDE DEF one
    <3> QED
      BY <3>1, <3>2
  <2>3. CASE answers' = all /\ UNCHANGED <<case, findings>>
    BY <2>2, <2>3, QuietKeeps
  <2>4. ASSUME NEW r \in Aggregates(Range(all)),
               Publish(Finding(ScopeCoverage(r, complete), chunks, read, TRUE, complete))
        PROVE  GInv'
    <3>1. Range(all) \in SUBSET Proven
      <4> HIDE DEF all, Proven
      <4> QED  BY <2>2 DEF Range
    <3>2. r \in Proven
      BY <3>1, <2>4, AggregatesProven
    <3>3. ScopeCoverage(r, complete) \in Proven
      BY <3>2, ScopeProven
    <3> DEFINE x == Finding(ScopeCoverage(r, complete), chunks, read, TRUE, complete)
    <3>4. Founded(x) /\ Settled(x, Row)
      BY <3>3, FindingFounded
    <3>5. Publish(x)
      BY <2>4
    <3> HIDE DEF x
    <3> QED
      BY <3>4, <3>5, PublishKeeps
  <2> QED
    BY <2>1, <2>3, <2>4
<1>5. CASE Fails
  <2> DEFINE x == [NoFinding EXCEPT !.status = "not_determined", !.by = "error"]
  <2>1. Publish(x)
    BY <1>5 DEF Fails
  <2>2. x.status = "not_determined"
    BY DEF NoFinding
  <2> HIDE DEF x
  <2>3. Founded(x) /\ Settled(x, Row)
    BY <2>2 DEF Founded, Settled
  <2> QED
    BY <2>1, <2>3, PublishKeeps
<1>6. CASE End
  BY <1>6, QuietKeeps DEF End, GInv
<1>7. CASE UNCHANGED vars
  BY <1>7, QuietKeeps DEF vars, GInv
<1> QED
  BY <1>1, <1>2, <1>3, <1>4, <1>5, <1>6, <1>7 DEF Next

LEMMA GroundsInit ==
  ASSUME Init
  PROVE  GInv
<1>1. \A id \in Checks : findings[id] = NoFinding
  BY DEF Init
<1>2. NoFinding.status = "none"
  BY DEF NoFinding
<1>3. \A id \in Checks : Founded(findings[id]) /\ Settled(findings[id], case.checks[id])
  BY <1>1, <1>2 DEF Founded, Settled
<1> QED
  BY <1>3 DEF Init, GInv

LEMMA GroundsMean ==
  ASSUME GInv
  PROVE  DefectGrounded /\ SampleRetried
<1>1. DefectGrounded
  BY DEF GInv, DefectGrounded, Founded, HasGrounds
<1>2. SampleRetried
  BY DEF GInv, SampleRetried, Settled
<1> QED
  BY <1>1, <1>2

\* No check publishes a defect that rests on nothing (schema.py:1582, "Never
\* publish a defect without a grounded filing-page observation"), whatever the
\* model answers, first or in any batch of a retry, whatever was found for it.
THEOREM DefectsAreGrounded == Spec => []DefectGrounded
<1>1. Spec => []GInv
  BY GroundsInit, GroundsStep, PTL DEF Spec
<1> QED
  BY <1>1, GroundsMean, PTL

\* A gap that only the sample has is never published before the pages of the
\* check were read in full, unless the layout has no page to read.
THEOREM SamplesAreRetried == Spec => []SampleRetried
<1>1. Spec => []GInv
  BY GroundsInit, GroundsStep, PTL DEF Spec
<1> QED
  BY <1>1, GroundsMean, PTL

------------------------------------------------------------------------------
(***************************************************************************)
(* A missing document is reported once                                     *)
(***************************************************************************)
LEMMA LeastNatural ==
  ASSUME NEW T \in SUBSET Nat, T # {}
  PROVE  \E n \in T : \A m \in T : n <= m
<1>1. PICK n \in T : \A m \in T : ~ (<<m, n>> \in OpToRel(<, Nat))
  BY WFMin, NatLessThanWellFounded
<1>2. \A m \in T : ~ (m < n)
  BY <1>1 DEF OpToRel
<1> QED
  BY <1>2

LEMMA LeastBy ==
  ASSUME NEW S, S # {}, NEW f \in [S -> Nat]
  PROVE  \E a \in S : \A b \in S : f[a] <= f[b]
<1> DEFINE T == {f[x] : x \in S}
<1>1. T \in SUBSET Nat /\ T # {}
  OBVIOUS
<1>2. PICK n \in T : \A m \in T : n <= m
  <2> HIDE DEF T
  <2> QED  BY <1>1, LeastNatural
<1>3. PICK a \in S : n = f[a]
  BY <1>2
<1> QED
  BY <1>2, <1>3

LEMMA CountsOf ==
  ASSUME case \in Cases, NEW id \in Checks
  PROVE  id \in Nat /\ case.checks[id].types \in Nat /\ Len(case.checks[id].required) \in Nat
<1>1. /\ {id, case.checks[id].types} \subseteq Nat
      /\ case.checks[id].required \in Seq(STRING)
  BY CasesAssumption DEF Checks
<1> QED
  BY <1>1

\* Of the checks that may report a document, one comes before all others.
LEMMA FirstOwner ==
  ASSUME NEW S \in SUBSET Checks, S # {}, case \in Cases
  PROVE  \E id \in S : \A other \in S \ {id} : Before(id, other)
<1> DEFINE t == [id \in S |-> case.checks[id].types]
           n == [id \in S |-> Len(case.checks[id].required)]
<1>1. S \subseteq Nat /\ t \in [S -> Nat] /\ n \in [S -> Nat]
  BY CountsOf
<1>2. \A i, j \in S : Before(i, j) <=> \/ t[i] < t[j]
                                       \/ t[i] = t[j] /\ n[i] < n[j]
                                       \/ t[i] = t[j] /\ n[i] = n[j] /\ i < j
  BY DEF Before
<1> HIDE DEF t, n
<1>3. PICK a \in S : \A other \in S : t[a] <= t[other]
  BY <1>1, LeastBy
<1>4. PICK R \in SUBSET S : R = {id \in S : t[id] = t[a]}
  OBVIOUS
<1>5. PICK b \in R : \A other \in R : n[b] <= n[other]
  <2> DEFINE g == [id \in R |-> n[id]]
  <2>1. R # {} /\ g \in [R -> Nat]
    BY <1>1, <1>3, <1>4
  <2>2. \A id \in R : g[id] = n[id]
    OBVIOUS
  <2> HIDE DEF g
  <2>3. PICK b \in R : \A other \in R : g[b] <= g[other]
    BY <2>1, LeastBy
  <2> QED
    BY <2>2, <2>3
<1>6. PICK Q \in SUBSET R : Q = {id \in R : n[id] = n[b]}
  OBVIOUS
<1>7. PICK c \in Q : \A other \in Q : c <= other
  <2>1. Q \in SUBSET Nat /\ Q # {}
    BY <1>1, <1>5, <1>6
  <2> QED
    BY <2>1, LeastNatural
<1>8. ASSUME NEW other \in S \ {c} PROVE Before(c, other)
  <2>1. c \in S /\ t[c] = t[a] /\ n[c] = n[b] /\ t[c] <= t[other]
    BY <1>3, <1>4, <1>6
  <2>2. t[other] = t[c] => n[c] <= n[other]
    BY <1>4, <1>5, <2>1
  <2>3. t[other] = t[c] /\ n[other] = n[c] => c <= other
    BY <1>4, <1>6, <1>7, <2>1
  <2>4. {c, other, t[c], t[other], n[c], n[other]} \subseteq Nat
    BY <1>1, <2>1
  <2> QED
    BY <1>2, <2>1, <2>2, <2>3, <2>4
<1> QED
  BY <1>4, <1>6, <1>8

\* No two checks own the same document.
LEMMA OneOwner ==
  ASSUME case \in Cases, NEW i \in Checks, NEW j \in Checks, NEW part,
         Owns(i, part), Owns(j, part)
  PROVE  i = j
<1>1. SUFFICES ASSUME i # j PROVE FALSE
  OBVIOUS
<1>2. Before(i, j) /\ Before(j, i)
  BY <1>1 DEF Owns
<1> DEFINE t(id) == case.checks[id].types
           n(id) == Len(case.checks[id].required)
<1>3. {i, j, t(i), t(j), n(i), n(j)} \subseteq Nat
  BY CountsOf
<1>4. /\ t(i) < t(j) \/ (t(i) = t(j) /\ n(i) < n(j)) \/ (t(i) = t(j) /\ n(i) = n(j) /\ i < j)
      /\ t(j) < t(i) \/ (t(j) = t(i) /\ n(j) < n(i)) \/ (t(j) = t(i) /\ n(j) = n(i) /\ j < i)
  BY <1>2 DEF Before
<1> HIDE DEF t, n
<1> QED
  BY <1>3, <1>4

OInv ==
  /\ case \in Cases
  /\ DOMAIN findings = Checks
  /\ \A id \in Checks : findings[id].parts = IF findings[id].status = "none" THEN {} ELSE Owned(id)
  /\ now # NoCheck => /\ now.check \in Checks /\ now.step \in {"search", "ask", "retry"}
                      /\ now = [check |-> now.check, step |-> now.step]
                      /\ run = "running" /\ findings[now.check].status = "none"
                      /\ Absent(now.check) = {}
  /\ run # "running" => \A id \in Checks : findings[id].status # "none"

LEMMA OwnersFixed ==
  ASSUME UNCHANGED case
  PROVE  Checks' = Checks /\ \A id : Absent(id)' = Absent(id) /\ Owned(id)' = Owned(id)
<1>1. Filing' = Filing /\ Checks' = Checks
  BY DEF Filing, Checks
<1>2. Labelled' <=> Labelled
  BY <1>1 DEF Labelled
<1>3. \A id : Absent(id)' = Absent(id)
  BY <1>1, <1>2 DEF Absent
<1>4. \A i, j : Before(i, j)' <=> Before(i, j)
  BY DEF Before
<1>5. \A id, part : Owns(id, part)' <=> Owns(id, part)
  BY <1>1, <1>3, <1>4 DEF Owns
<1>6. \A id : Owned(id)' = Owned(id)
  BY <1>3, <1>5 DEF Owned
<1> QED
  BY <1>1, <1>3, <1>6

\* A check that looks at pages lacks none of its documents and reports none.
LEMMA PublishOnce ==
  ASSUME OInv, now # NoCheck, NEW x, x.parts = {}, Publish(x)
  PROVE  OInv'
<1>1. /\ UNCHANGED <<case, run>> /\ now' = NoCheck
      /\ findings' = [findings EXCEPT ![now.check] = x]
  BY DEF Publish, Idle
<1>2. Owned(now.check) = {}
  BY DEF OInv, Owned
<1>3. \A id \in Checks : findings'[id].parts =
        IF findings'[id].status = "none" THEN {} ELSE Owned(id)
  BY <1>1, <1>2 DEF OInv
<1>4. run' = "running" /\ DOMAIN findings' = Checks
  BY <1>1 DEF OInv
<1> QED
  BY <1>1, <1>3, <1>4, OwnersFixed DEF OInv

LEMMA StepOnce ==
  ASSUME OInv, UNCHANGED <<case, findings, run>>,
         now' = now \/ (\E step \in {"ask", "retry"} : now # NoCheck /\ now' = [now EXCEPT !.step = step])
  PROVE  OInv'
<1>1. CASE now' = now
  BY <1>1, OwnersFixed DEF OInv
<1>2. ASSUME NEW step \in {"ask", "retry"}, now # NoCheck, now' = [now EXCEPT !.step = step]
      PROVE  OInv'
  <2>1. now' = [check |-> now.check, step |-> step]
    BY <1>2 DEF OInv
  <2>2. now'.check = now.check /\ now'.step = step
    BY <2>1
  <2> QED
    BY <1>2, <2>1, <2>2, OwnersFixed DEF OInv
<1> QED
  BY <1>1, <1>2

LEMMA NoPartsOfFinding ==
  ASSUME NEW r, NEW shown, NEW read, NEW retry, NEW complete
  PROVE  Finding(r, shown, read, retry, complete).parts = {}
BY DEF Finding

LEMMA OnceStep ==
  ASSUME OInv, [Next]_vars
  PROVE  OInv'
<1>1. ASSUME NEW id \in Checks, Begin(id) PROVE OInv'
  <2>1. CASE Absent(id) = {}
    <3>1. UNCHANGED <<case, findings, run>> /\ now' = [check |-> id, step |-> "search"]
      BY <1>1, <2>1 DEF Begin
    <3>2. now'.check = id /\ now'.step = "search"
      BY <3>1
    <3>3. run = "running" /\ findings[id].status = "none"
      BY <1>1 DEF Begin
    <3> QED
      BY <2>1, <3>1, <3>2, <3>3, OwnersFixed DEF OInv
  <2>2. CASE Absent(id) # {}
    <3> DEFINE x == [NoFinding EXCEPT
          !.status = IF Owned(id) = {} THEN "not_applicable" ELSE "defect_found",
          !.by = "manifest", !.parts = Owned(id)]
    <3>1. /\ UNCHANGED <<case, now, run>> /\ findings' = [findings EXCEPT ![id] = x]
          /\ now = NoCheck /\ run = "running"
      BY <1>1, <2>2 DEF Begin
    <3>2. x.status # "none" /\ x.parts = Owned(id)
      BY DEF NoFinding
    <3> HIDE DEF x
    <3>3. \A i \in Checks : findings'[i].parts =
            IF findings'[i].status = "none" THEN {} ELSE Owned(i)
      BY <3>1, <3>2 DEF OInv
    <3>4. now' = NoCheck /\ run' = "running" /\ DOMAIN findings' = Checks
      BY <3>1 DEF OInv
    <3> QED
      BY <3>1, <3>3, <3>4, OwnersFixed DEF OInv
  <2> QED
    BY <2>1, <2>2
<1>2. now.step \in {"search", "ask", "retry"} => now # NoCheck
  BY DEF NoCheck
<1>3. CASE Gather
  <2>1. UNCHANGED <<case, findings, run>> /\ now # NoCheck /\ now' = [now EXCEPT !.step = "ask"]
    BY <1>2, <1>3 DEF Gather
  <2> QED
    BY <2>1, StepOnce
<1>4. CASE Ask
  <2> DEFINE complete == /\ ScopeComplete(Filing, Row, chunks, FALSE)
                         /\ ~ Truncated(Filing, chunks)
  <2>1. PICK answer \in Answers :
          LET r == ScopeCoverage(Sanitized(answer, chunks, FALSE), complete)
          IN IF Retries(r)
             THEN /\ now' = [now EXCEPT !.step = "retry"]
                  /\ chunks' = Complete(Filing, Row)
                  /\ left' = Batches(Filing, Complete(Filing, Row))
                  /\ UNCHANGED <<case, findings, answers, run>>
             ELSE Publish(Finding(r, chunks, Range(Sent(Filing, chunks)), FALSE, complete))
    BY <1>4 DEF Ask
  <2>2. now # NoCheck
    BY <1>2, <1>4 DEF Ask
  <2> HIDE DEF complete
  <2> DEFINE r == ScopeCoverage(Sanitized(answer, chunks, FALSE), complete)
             x == Finding(r, chunks, Range(Sent(Filing, chunks)), FALSE, complete)
  <2>3. \/ now' = [now EXCEPT !.step = "retry"] /\ UNCHANGED <<case, findings, run>>
        \/ Publish(x)
    BY <2>1
  <2>4. x.parts = {}
    BY NoPartsOfFinding
  <2> HIDE DEF x
  <2> QED
    BY <2>2, <2>3, <2>4, StepOnce, PublishOnce
<1>5. CASE AskBatch
  <2> DEFINE complete == ScopeComplete(Filing, Row, chunks, TRUE)
             read == UNION {Range(Sent(Filing, b)) : b \in Range(Batches(Filing, chunks))}
  <2>1. \/ UNCHANGED <<case, findings, now, run>>
        \/ \E r : Publish(Finding(ScopeCoverage(r, complete), chunks, read, TRUE, complete))
    BY <1>5 DEF AskBatch
  <2>2. now # NoCheck
    BY <1>2, <1>5 DEF AskBatch
  <2> HIDE DEF complete, read
  <2>3. ASSUME NEW r, Publish(Finding(ScopeCoverage(r, complete), chunks, read, TRUE, complete))
        PROVE  OInv'
    <3> DEFINE x == Finding(ScopeCoverage(r, complete), chunks, read, TRUE, complete)
    <3>1. Publish(x)
      BY <2>3
    <3>2. x.parts = {}
      BY NoPartsOfFinding
    <3> HIDE DEF x
    <3> QED
      BY <2>2, <3>1, <3>2, PublishOnce
  <2> QED
    BY <2>1, <2>3, StepOnce
<1>6. CASE Fails
  <2> DEFINE x == [NoFinding EXCEPT !.status = "not_determined", !.by = "error"]
  <2>1. Publish(x) /\ now # NoCheck
    BY <1>6 DEF Fails
  <2>2. x.parts = {}
    BY DEF NoFinding
  <2> HIDE DEF x
  <2> QED
    BY <2>1, <2>2, PublishOnce
<1>7. CASE End
  <2>1. now = NoCheck
    BY <1>7 DEF End, OInv
  <2> QED
    BY <1>7, <2>1, OwnersFixed DEF End, OInv
<1>8. CASE UNCHANGED vars
  BY <1>8, StepOnce DEF vars
<1> QED
  BY <1>1, <1>3, <1>4, <1>5, <1>6, <1>7, <1>8 DEF Next

LEMMA OnceInit ==
  ASSUME Init
  PROVE  OInv
<1>1. NoFinding.status = "none" /\ NoFinding.parts = {}
  BY DEF NoFinding
<1> QED
  BY <1>1 DEF Init, OInv

LEMMA OnceMeans ==
  ASSUME OInv
  PROVE  OnceReported
<1> SUFFICES ASSUME NEW part \in UNION {Range(case.checks[id].required) : id \in Checks}
             PROVE  LET reports == {id \in Checks : part \in findings[id].parts}
                        may == {id \in Checks : case.checks[id].owner /\ part \in Absent(id)}
                    IN /\ Cardinality(reports) <= 1
                       /\ reports # {} => PagesOf(Filing, part) = {}
                       /\ run # "running" /\ may # {} => reports # {}
  BY DEF OnceReported
<1> DEFINE reports == {id \in Checks : part \in findings[id].parts}
           may == {id \in Checks : case.checks[id].owner /\ part \in Absent(id)}
<1>1. \A id \in reports : Owns(id, part) /\ part \in Absent(id)
  BY DEF OInv, Owned
<1>2. Cardinality(reports) <= 1
  <2>1. CASE reports = {}
    <3> HIDE DEF reports
    <3> QED  BY <2>1, FS_EmptySet
  <2>2. ASSUME NEW id \in reports PROVE Cardinality(reports) <= 1
    <3>1. reports = {id}
      BY <1>1, OneOwner DEF OInv
    <3>2. Cardinality({id}) = 1
      BY FS_Singleton
    <3> HIDE DEF reports
    <3> QED
      BY <3>1, <3>2
  <2> HIDE DEF reports
  <2> QED
    BY <2>1, <2>2
<1>3. reports # {} => PagesOf(Filing, part) = {}
  BY <1>1 DEF Absent
<1>4. ASSUME run # "running", may # {} PROVE reports # {}
  <2>1. PICK id \in may : \A other \in may \ {id} : Before(id, other)
    BY <1>4, FirstOwner DEF OInv
  <2>2. Owns(id, part)
    BY <2>1 DEF Owns
  <2>3. findings[id].parts = Owned(id)
    BY <1>4 DEF OInv
  <2>4. id \in reports
    BY <2>2, <2>3 DEF Owned
  <2> QED
    BY <2>4
<1> HIDE DEF reports, may
<1> QED
  BY <1>2, <1>3, <1>4 DEF reports, may

\* Whatever rows are switched to report missing documents, and in whatever order
\* the checks run, a missing document is reported by exactly one of them, and a
\* document that has a page by none.
THEOREM MissingReportedOnce == Spec => []OnceReported
<1>1. Spec => []OInv
  BY OnceInit, OnceStep, PTL DEF Spec
<1> QED
  BY <1>1, OnceMeans, PTL

------------------------------------------------------------------------------
(***************************************************************************)
(* Numbers and folds                                                       *)
(***************************************************************************)
\* Induction over a set of numbers.
LEMMA Induction ==
  ASSUME NEW S \in SUBSET Nat, 0 \in S, \A n \in Nat : n \in S => n + 1 \in S
  PROVE  S = Nat
<1> SUFFICES ASSUME Nat \ S # {} PROVE FALSE
  OBVIOUS
<1>1. PICK x \in Nat \ S : \A y \in Nat \ S : x <= y
  BY LeastNatural
<1>2. x # 0 /\ x - 1 \in Nat /\ x - 1 < x /\ x = (x - 1) + 1
  OBVIOUS
<1>3. x - 1 \in S
  BY <1>1, <1>2
<1> QED
  BY <1>1, <1>2, <1>3

LEMMA Greatest ==
  ASSUME NEW n \in Nat, NEW s \in SUBSET (1..n), s # {}
  PROVE  Max(s) \in s /\ \A y \in s : y <= Max(s)
<1> DEFINE T == {n - y : y \in s}
<1>a. T \in SUBSET Nat
  OBVIOUS
<1>b. T # {}
  <2>1. PICK y \in s : TRUE
    OBVIOUS
  <2>2. n - y \in T
    OBVIOUS
  <2> QED
    BY <2>2
<1>c. \A y \in s : n - y \in T
  OBVIOUS
<1>d. \A t \in T : \E y \in s : t = n - y
  OBVIOUS
<1> HIDE DEF T
<1>1. PICK m \in T : \A t \in T : m <= t
  BY <1>a, <1>b, LeastNatural
<1>2. PICK x \in s : m = n - x
  BY <1>d
<1>3. \A y \in s : x >= y
  BY <1>1, <1>2, <1>c
<1> QED
  BY <1>2, <1>3 DEF Max

LEMMA Least ==
  ASSUME NEW s \in SUBSET Nat, s # {}
  PROVE  Min(s) \in s /\ \A y \in s : Min(s) <= y
<1>1. \E x \in s : \A y \in s : x <= y
  BY LeastNatural
<1> QED
  BY <1>1 DEF Min

LEMMA GreatestUpTo ==
  ASSUME NEW n \in Nat, n # 0
  PROVE  Max(1..n) = n /\ (1..n) \ {n} = 1..(n - 1)
<1>1. n \in 1..n
  OBVIOUS
<1>2. Max(1..n) \in 1..n /\ \A y \in 1..n : y <= Max(1..n)
  BY <1>1, Greatest
<1>3. Max(1..n) = n
  BY <1>1, <1>2
<1>4. (1..n) \ {n} = 1..(n - 1)
  OBVIOUS
<1> QED
  BY <1>3, <1>4

\* A fold of the community modules is a function of the sets of positions that
\* it has yet to visit, the greatest of which is visited last.  op is given as a
\* function g on the values T and the elements X.
Visits(h, n, seq, T, base, g) ==
  /\ h \in [SUBSET (1..n) -> T]
  /\ h[{}] = base
  /\ \A s \in SUBSET (1..n) : s # {} => h[s] = g[<<h[s \ {Max(s)}], seq[Max(s)]>>]

\* A fold is well defined on the first positions, one after the other.
LEMMA VisitNone ==
  ASSUME NEW seq, NEW T, NEW base \in T, NEW g
  PROVE  \E h : Visits(h, 0, seq, T, base, g)
<1> DEFINE h == [s \in SUBSET (1..0) |-> base]
<1>1. \A s \in SUBSET (1..0) : s = {}
  OBVIOUS
<1>2. h \in [SUBSET (1..0) -> T] /\ h[{}] = base
  OBVIOUS
<1>3. Visits(h, 0, seq, T, base, g)
  BY <1>1, <1>2 DEF Visits
<1> QED
  BY <1>3

LEMMA VisitNext ==
  ASSUME NEW X, NEW T, NEW g \in [T \X X -> T], NEW seq, NEW base,
         NEW n \in Nat, seq[n + 1] \in X, NEW h, Visits(h, n, seq, T, base, g)
  PROVE  \E k : Visits(k, n + 1, seq, T, base, g)
<1> DEFINE k == [s \in SUBSET (1..(n + 1)) |->
                   IF n + 1 \in s THEN g[<<h[s \ {n + 1}], seq[n + 1]>>] ELSE h[s]]
<1>1. /\ h \in [SUBSET (1..n) -> T] /\ h[{}] = base
      /\ \A s \in SUBSET (1..n) : s # {} => h[s] = g[<<h[s \ {Max(s)}], seq[Max(s)]>>]
  BY DEF Visits
<1>2. \A s \in SUBSET (1..(n + 1)) : s \ {n + 1} \in SUBSET (1..n)
  OBVIOUS
<1>3. \A s \in SUBSET (1..(n + 1)) : n + 1 \notin s => s \in SUBSET (1..n)
  OBVIOUS
<1>k. /\ \A s \in SUBSET (1..(n + 1)) :
           /\ n + 1 \in s => k[s] = g[<<h[s \ {n + 1}], seq[n + 1]>>]
           /\ n + 1 \notin s => k[s] = h[s]
      /\ DOMAIN k = SUBSET (1..(n + 1))
      /\ k = [s \in SUBSET (1..(n + 1)) |-> k[s]]
  OBVIOUS
<1> HIDE DEF k
<1>4. \A s \in SUBSET (1..(n + 1)) : k[s] \in T
  <2>1. ASSUME NEW s \in SUBSET (1..(n + 1)) PROVE k[s] \in T
    <3>1. CASE n + 1 \in s
      <4>1. h[s \ {n + 1}] \in T
        BY <1>1, <1>2
      <4> QED
        BY <1>k, <3>1, <4>1
    <3>2. CASE n + 1 \notin s
      BY <3>2, <1>1, <1>3, <1>k
    <3> QED
      BY <3>1, <3>2
  <2> QED
    BY <2>1
<1>5. k \in [SUBSET (1..(n + 1)) -> T]
  BY <1>4, <1>k
<1>6. k[{}] = base
  BY <1>1, <1>k
<1>7. ASSUME NEW s \in SUBSET (1..(n + 1)), s # {}
      PROVE  k[s] = g[<<k[s \ {Max(s)}], seq[Max(s)]>>]
  <2>0. n + 1 \in Nat
    OBVIOUS
  <2>1. Max(s) \in s /\ \A y \in s : y <= Max(s)
    BY <1>7, <2>0, Greatest
  <2>2. CASE n + 1 \in s
    <3>0. Max(s) \in 1..(n + 1) /\ n + 1 <= Max(s)
      BY <2>1, <2>2
    <3>1. Max(s) = n + 1
      BY <3>0
    <3>2. s \ {n + 1} \in SUBSET (1..(n + 1)) /\ n + 1 \notin s \ {n + 1}
      OBVIOUS
    <3>3. k[s \ {n + 1}] = h[s \ {n + 1}]
      BY <1>k, <3>2
    <3>4. k[s] = g[<<h[s \ {n + 1}], seq[n + 1]>>]
      BY <1>k, <2>2
    <3> QED
      BY <3>1, <3>3, <3>4
  <2>3. CASE n + 1 \notin s
    <3>1. s \in SUBSET (1..n)
      BY <2>3, <1>3
    <3>2. s \ {Max(s)} \in SUBSET (1..(n + 1)) /\ n + 1 \notin s \ {Max(s)}
      BY <2>3
    <3>3. k[s] = h[s] /\ k[s \ {Max(s)}] = h[s \ {Max(s)}]
      BY <1>k, <2>3, <3>2
    <3>4. h[s] = g[<<h[s \ {Max(s)}], seq[Max(s)]>>]
      BY <1>1, <1>7, <3>1
    <3> QED
      BY <3>3, <3>4
  <2> QED
    BY <2>2, <2>3
<1>8. Visits(k, n + 1, seq, T, base, g)
  BY <1>5, <1>6, <1>7 DEF Visits
<1> QED
  BY <1>8

LEMMA VisitAll ==
  ASSUME NEW X, NEW T, NEW g \in [T \X X -> T], NEW seq \in Seq(X), NEW base \in T
  PROVE  \E h : Visits(h, Len(seq), seq, T, base, g)
<1> DEFINE Q == {n \in Nat : n <= Len(seq) => \E h : Visits(h, n, seq, T, base, g)}
<1>1. 0 \in Q
  BY VisitNone
<1>2. ASSUME NEW n \in Nat, n \in Q PROVE n + 1 \in Q
  <2> SUFFICES ASSUME n + 1 <= Len(seq) PROVE \E k : Visits(k, n + 1, seq, T, base, g)
    OBVIOUS
  <2>1. PICK h : Visits(h, n, seq, T, base, g)
    BY <1>2
  <2>2. seq[n + 1] \in X
    OBVIOUS
  <2> QED
    BY <2>1, <2>2, VisitNext
<1>3. \A n \in Q : n <= Len(seq) => \E h : Visits(h, n, seq, T, base, g)
  OBVIOUS
<1>4. Q \in SUBSET Nat
  OBVIOUS
<1> HIDE DEF Q
<1>5. Q = Nat
  BY <1>1, <1>2, <1>4, Induction
<1> QED
  BY <1>3, <1>5

\* The value of a fold, prefix by prefix.
Trace(t, seq, T, base, g) ==
  /\ t \in [0..Len(seq) -> T]
  /\ t[0] = base
  /\ \A i \in 1..Len(seq) : t[i] = g[<<t[i - 1], seq[i]>>]

LEMMA VisitTrace ==
  ASSUME NEW X, NEW seq \in Seq(X), NEW at, NEW T, NEW base, NEW g,
         Visits(at, Len(seq), seq, T, base, g)
  PROVE  \E t : Trace(t, seq, T, base, g) /\ at[DOMAIN seq] = t[Len(seq)]
<1> DEFINE t == [i \in 0..Len(seq) |-> at[1..i]]
<1>1. \A i \in 0..Len(seq) : 1..i \in SUBSET (1..Len(seq)) /\ t[i] = at[1..i]
  OBVIOUS
<1>2. t \in [0..Len(seq) -> T]
  BY <1>1 DEF Visits
<1>3. 1..0 = {} /\ t[0] = at[1..0]
  BY <1>1
<1>4. t[0] = base
  BY <1>3 DEF Visits
<1>5. ASSUME NEW i \in 1..Len(seq) PROVE t[i] = g[<<t[i - 1], seq[i]>>]
  <2>1. Max(1..i) = i /\ (1..i) \ {i} = 1..(i - 1)
    BY GreatestUpTo
  <2>2. i \in 1..i /\ i - 1 \in 0..Len(seq) /\ i \in 0..Len(seq)
    OBVIOUS
  <2>3. t[i] = at[1..i] /\ t[i - 1] = at[1..(i - 1)] /\ 1..i \in SUBSET (1..Len(seq))
    BY <1>1, <2>2
  <2> HIDE DEF t
  <2> QED
    BY <2>1, <2>2, <2>3 DEF Visits
<1>6. DOMAIN seq = 1..Len(seq) /\ t[Len(seq)] = at[1..Len(seq)]
  BY <1>1
<1>7. Trace(t, seq, T, base, g)
  BY <1>2, <1>4, <1>5 DEF Trace
<1> HIDE DEF t
<1> QED
  BY <1>6, <1>7

Folds(at, seq, X, T, base, g) ==
  /\ seq \in Seq(X) /\ base \in T /\ g \in [T \X X -> T]
  /\ at[{}] = base
  /\ \A s \in SUBSET DOMAIN seq : s # {} /\ at[s \ {Max(s)}] \in T =>
       at[s] = g[<<at[s \ {Max(s)}], seq[Max(s)]>>]

\* What is folded is the only function that visits in this order.
LEMMA VisitOnce ==
  ASSUME NEW X, NEW T, NEW g, NEW seq, NEW base, NEW at, Folds(at, seq, X, T, base, g)
  PROVE  \E t : Trace(t, seq, T, base, g) /\ at[DOMAIN seq] = t[Len(seq)]
<1>0. /\ seq \in Seq(X) /\ base \in T /\ g \in [T \X X -> T]
      /\ Len(seq) \in Nat /\ DOMAIN seq = 1..Len(seq)
  BY DEF Folds
<1>1. PICK h : Visits(h, Len(seq), seq, T, base, g)
  BY <1>0, VisitAll
<1> DEFINE Q == {n \in Nat : n <= Len(seq) => \A s \in SUBSET (1..n) : at[s] = h[s]}
<1>2. 0 \in Q
  <2>1. \A s \in SUBSET (1..0) : s = {}
    OBVIOUS
  <2>2. h[{}] = base
    BY <1>1 DEF Visits
  <2> QED
    BY <2>1, <2>2 DEF Folds
<1>3. ASSUME NEW n \in Nat, n \in Q PROVE n + 1 \in Q
  <2> SUFFICES ASSUME n + 1 <= Len(seq), NEW s \in SUBSET (1..(n + 1)) PROVE at[s] = h[s]
    OBVIOUS
  <2>1. \A r \in SUBSET (1..n) : at[r] = h[r]
    BY <1>3
  <2>2. CASE n + 1 \notin s
    <3>1. s \in SUBSET (1..n)
      BY <2>2
    <3> QED
      BY <3>1, <2>1
  <2>3. CASE n + 1 \in s
    <3>1. n + 1 \in Nat /\ s # {}
      BY <2>3
    <3>2. Max(s) \in s /\ \A y \in s : y <= Max(s)
      BY <3>1, Greatest
    <3>3. Max(s) \in 1..(n + 1) /\ n + 1 <= Max(s)
      BY <3>2, <2>3
    <3>4. Max(s) = n + 1
      BY <3>3
    <3>5. s \ {n + 1} \in SUBSET (1..n) /\ s \in SUBSET (1..Len(seq))
      OBVIOUS
    <3>6. s \ {n + 1} \in SUBSET (1..Len(seq))
      OBVIOUS
    <3>7. at[s \ {n + 1}] = h[s \ {n + 1}] /\ h[s \ {n + 1}] \in T
      BY <2>1, <3>5, <3>6, <1>1 DEF Visits
    <3>8. h[s] = g[<<h[s \ {n + 1}], seq[n + 1]>>]
      BY <1>1, <3>1, <3>4, <3>5 DEF Visits
    <3>10. s \in SUBSET DOMAIN seq
      BY <3>5, <1>0
    <3>9. at[s] = g[<<at[s \ {n + 1}], seq[n + 1]>>]
      BY <3>1, <3>4, <3>7, <3>10 DEF Folds
    <3> QED
      BY <3>7, <3>8, <3>9
  <2> QED
    BY <2>2, <2>3
<1>4. \A n \in Q : n <= Len(seq) => \A s \in SUBSET (1..n) : at[s] = h[s]
  OBVIOUS
<1>5. Q \in SUBSET Nat
  OBVIOUS
<1> HIDE DEF Q
<1>6. Q = Nat
  BY <1>2, <1>3, <1>5, Induction
<1>7. DOMAIN seq = 1..Len(seq) /\ at[DOMAIN seq] = h[DOMAIN seq]
  BY <1>0, <1>4, <1>6
<1>8. \E t : Trace(t, seq, T, base, g) /\ h[DOMAIN seq] = t[Len(seq)]
  BY <1>0, <1>1, VisitTrace
<1> QED
  BY <1>7, <1>8

LEMMA GreatestAt ==
  ASSUME NEW X, NEW seq \in Seq(X), NEW s \in SUBSET DOMAIN seq, s # {}
  PROVE  seq[Max(s)] \in X /\ s \ {Max(s)} \in SUBSET DOMAIN seq
<1>1. Len(seq) \in Nat /\ DOMAIN seq = 1..Len(seq)
  OBVIOUS
<1>2. Max(s) \in s
  BY <1>1, Greatest
<1> QED
  BY <1>2

Solves(h, seq, X, T, base, g) ==
  /\ h \in [SUBSET DOMAIN seq -> T] /\ h[{}] = base
  /\ \A s \in SUBSET DOMAIN seq : s # {} =>
       /\ h[s] = g[<<h[s \ {Max(s)}], seq[Max(s)]>>]
       /\ h[s \ {Max(s)}] \in T /\ seq[Max(s)] \in X

LEMMA FoldExists ==
  ASSUME NEW X, NEW T, NEW g \in [T \X X -> T], NEW seq \in Seq(X), NEW base \in T
  PROVE  \E h : Solves(h, seq, X, T, base, g)
<1>1. PICK h : Visits(h, Len(seq), seq, T, base, g)
  BY VisitAll
<1>2. DOMAIN seq = 1..Len(seq)
  OBVIOUS
<1>3. h \in [SUBSET DOMAIN seq -> T] /\ h[{}] = base
  BY <1>1, <1>2 DEF Visits
<1>4. ASSUME NEW s \in SUBSET DOMAIN seq, s # {}
      PROVE  /\ h[s] = g[<<h[s \ {Max(s)}], seq[Max(s)]>>]
             /\ h[s \ {Max(s)}] \in T /\ seq[Max(s)] \in X
  <2>1. seq[Max(s)] \in X /\ s \ {Max(s)} \in SUBSET DOMAIN seq
    BY <1>4, GreatestAt
  <2> QED
    BY <1>1, <1>2, <1>3, <1>4, <2>1 DEF Visits
<1>5. Solves(h, seq, X, T, base, g)
  BY <1>3, <1>4 DEF Solves
<1> QED
  BY <1>5

LEMMA FoldIn ==
  ASSUME NEW X, NEW T, NEW g, NEW seq, NEW base, NEW at, Folds(at, seq, X, T, base, g)
  PROVE  at[DOMAIN seq] \in T
<1>1. PICK t : Trace(t, seq, T, base, g) /\ at[DOMAIN seq] = t[Len(seq)]
  BY VisitOnce
<1>2. Len(seq) \in Nat
  BY DEF Folds
<1>3. Len(seq) \in 0..Len(seq) /\ t \in [0..Len(seq) -> T]
  BY <1>1, <1>2 DEF Trace
<1> QED
  BY <1>1, <1>3

------------------------------------------------------------------------------
(***************************************************************************)
(* Sorting                                                                 *)
(***************************************************************************)
\* A one-to-one map of 1..n into itself is onto.
LEMMA Onto ==
  ASSUME NEW n \in Nat, NEW r \in [1..n -> 1..n],
         \A i, j \in 1..n : r[i] = r[j] => i = j
  PROVE  \A j \in 1..n : \E i \in 1..n : r[i] = j
<1>1. IsFiniteSet(1..n)
  BY FS_Interval
<1>2. r \in Injection(1..n, 1..n)
  BY DEF Injection, IsInjective
<1>3. r \in Surjection(1..n, 1..n)
  BY <1>1, <1>2, FS_Injection
<1> QED
  BY <1>3 DEF Surjection

\* SetToSeq lists every element of a finite set.
LEMMA SetInSequence ==
  ASSUME NEW S, IsFiniteSet(S)
  PROVE  SetToSeq(S) \in Seq(S) /\ Range(SetToSeq(S)) = S
<1> DEFINE n == Cardinality(S)
           seq == SetToSeq(S)
<1>1. n \in Nat /\ ExistsBijection(1..n, S)
  BY FS_CardinalityType
<1>2. PICK b : b \in Bijection(1..n, S)
  BY <1>1 DEF ExistsBijection
<1>3. b \in [1..n -> S] /\ IsInjective(b)
  BY <1>2 DEF Bijection, Injection
<1>4. seq \in [1..n -> S] /\ IsInjective(seq)
  BY <1>3 DEF SetToSeq
<1>5. seq \in Injection(1..n, S)
  BY <1>4 DEF Injection
<1>6. IsFiniteSet(1..n) /\ Cardinality(1..n) = n
  <2>1. 0 \in Int /\ n \in Int /\ 1 \in Int
    BY <1>1
  <2>2. IsFiniteSet(1..n) /\ Cardinality(1..n) = IF 1 > n THEN 0 ELSE n - 1 + 1
    BY <2>1, FS_Interval
  <2> HIDE DEF n
  <2> QED
    BY <1>1, <2>2
<1> HIDE DEF seq
<1>7. seq \in Surjection(1..n, S)
  BY <1>5, <1>6, FS_Injection
<1>8. \A x \in S : \E i \in 1..n : seq[i] = x
  BY <1>7 DEF Surjection
<1>9. Range(seq) = S
  BY <1>4, <1>8 DEF Range
<1>10. seq \in Seq(S)
  <2> HIDE DEF n
  <2> QED
    BY <1>1, <1>4
<1> QED
  BY <1>9, <1>10 DEF seq

\* Sorting keeps the elements.
LEMMA OrderedKeeps ==
  ASSUME NEW X, NEW seq \in Seq(X), NEW key, \A i \in DOMAIN seq : key[i] \in Nat
  PROVE  Ordered(seq, key) \in Seq(X) /\ Range(Ordered(seq, key)) = Range(seq)
<1> DEFINE n == Len(seq)
           Upto(i) == {j \in 1..n : key[j] < key[i] \/ (key[j] = key[i] /\ j <= i)}
           r == [i \in 1..n |-> Cardinality(Upto(i))]
           o == Ordered(seq, key)
<1>1. n \in Nat /\ DOMAIN seq = 1..n /\ \A i \in 1..n : seq[i] \in X /\ key[i] \in Nat
  OBVIOUS
<1>2. o = [p \in 1..n |-> seq[CHOOSE i \in 1..n : Cardinality(Upto(i)) = p]]
  BY <1>1 DEF Ordered
<1>3. o = [p \in 1..n |-> seq[CHOOSE i \in 1..n : r[i] = p]]
  BY <1>2
<1> HIDE DEF o, n
<1>4. IsFiniteSet(1..n) /\ Cardinality(1..n) = n
  <2>1. n \in Int /\ 1 \in Int
    BY <1>1
  <2>2. IsFiniteSet(1..n) /\ Cardinality(1..n) = IF 1 > n THEN 0 ELSE n - 1 + 1
    BY <2>1, FS_Interval
  <2> QED
    BY <1>1, <2>2
<1>5. \A i \in 1..n : Upto(i) \in SUBSET (1..n) /\ i \in Upto(i)
  BY <1>1
<1>6. \A i \in 1..n : /\ IsFiniteSet(Upto(i)) /\ Cardinality(Upto(i)) \in Nat
                      /\ Cardinality(Upto(i)) # 0 /\ Cardinality(Upto(i)) <= n
  <2>1. ASSUME NEW i \in 1..n
        PROVE  /\ IsFiniteSet(Upto(i)) /\ Cardinality(Upto(i)) \in Nat
               /\ Cardinality(Upto(i)) # 0 /\ Cardinality(Upto(i)) <= n
    <3>1. Upto(i) \in SUBSET (1..n) /\ Upto(i) # {}
      BY <1>5
    <3> HIDE DEF Upto
    <3>2. IsFiniteSet(Upto(i)) /\ Cardinality(Upto(i)) <= n
      BY <3>1, <1>4, FS_Subset
    <3>3. Cardinality(Upto(i)) \in Nat
      BY <3>2, FS_CardinalityType
    <3>4. Cardinality(Upto(i)) # 0
      BY <3>1, <3>2, FS_EmptySet
    <3> QED
      BY <3>2, <3>3, <3>4
  <2> HIDE DEF Upto
  <2> QED
    BY <2>1
<1>7. r \in [1..n -> 1..n]
  <2> HIDE DEF Upto
  <2> QED
    BY <1>1, <1>6
<1>8. ASSUME NEW i \in 1..n, NEW j \in 1..n, i # j,
             key[i] < key[j] \/ (key[i] = key[j] /\ i <= j)
      PROVE  r[i] # r[j]
  <2>1. Upto(i) \in SUBSET Upto(j)
    BY <1>1, <1>8
  <2>2. j \in Upto(j) /\ j \notin Upto(i)
    BY <1>1, <1>8
  <2>3. r[i] = Cardinality(Upto(i)) /\ r[j] = Cardinality(Upto(j))
    OBVIOUS
  <2> HIDE DEF Upto, r
  <2>4. IsFiniteSet(Upto(j))
    BY <1>6
  <2> QED
    BY <2>1, <2>2, <2>3, <2>4, FS_Subset
<1>9. \A i, j \in 1..n : r[i] = r[j] => i = j
  <2> HIDE DEF r, Upto
  <2>1. ASSUME NEW i \in 1..n, NEW j \in 1..n, r[i] = r[j], i # j PROVE FALSE
    <3>1. \/ key[i] < key[j] \/ (key[i] = key[j] /\ i <= j)
          \/ key[j] < key[i] \/ (key[j] = key[i] /\ j <= i)
      BY <1>1
    <3> QED
      BY <1>8, <2>1, <3>1
  <2> QED
    BY <2>1
<1> HIDE DEF r
<1>10. \A p \in 1..n : \E i \in 1..n : r[i] = p
  BY <1>1, <1>7, <1>9, Onto
<1> DEFINE at(p) == CHOOSE i \in 1..n : r[i] = p
<1>11. \A p \in 1..n : at(p) \in 1..n /\ r[at(p)] = p
  BY <1>10
<1>12. \A p \in 1..n : o[p] = seq[at(p)]
  BY <1>3
<1>13. \A i \in 1..n : r[i] \in 1..n /\ at(r[i]) = i
  BY <1>7, <1>9, <1>11
<1>14. DOMAIN o = 1..n
  BY <1>3
<1> HIDE DEF at
<1>15. \A p \in 1..n : o[p] \in X
  BY <1>1, <1>11, <1>12
<1>16. o \in [1..n -> X]
  <2>1. o = [p \in 1..n |-> seq[at(p)]]
    BY <1>3 DEF at
  <2>2. \A p \in 1..n : seq[at(p)] \in X
    BY <1>1, <1>11
  <2> QED
    BY <2>1, <2>2
<1>17. o \in Seq(X)
  BY <1>1, <1>16
<1>18. Range(o) = Range(seq)
  <2>1. ASSUME NEW i \in 1..n PROVE \E p \in 1..n : o[p] = seq[i]
    BY <1>12, <1>13
  <2>2. ASSUME NEW p \in 1..n PROVE \E i \in 1..n : seq[i] = o[p]
    BY <1>11, <1>12
  <2>3. \A x : x \in Range(o) <=> \E p \in 1..n : x = o[p]
    BY <1>14 DEF Range
  <2>4. \A x : x \in Range(seq) <=> \E i \in 1..n : x = seq[i]
    <3>1. DOMAIN seq = 1..n
      BY <1>1
    <3> QED
      BY <3>1 DEF Range
  <2> QED
    BY <2>1, <2>2, <2>3, <2>4
<1> QED
  BY <1>17, <1>18 DEF o

LEMMA SortedHolds ==
  ASSUME NEW S \in SUBSET Nat, IsFiniteSet(S)
  PROVE  Sorted(S) \in Seq(S) /\ Range(Sorted(S)) = S
<1>1. SetToSeq(S) \in Seq(S) /\ Range(SetToSeq(S)) = S
  BY SetInSequence
<1>2. \A i \in DOMAIN SetToSeq(S) : SetToSeq(S)[i] \in Nat
  <2>1. \A i \in DOMAIN SetToSeq(S) : SetToSeq(S)[i] \in Range(SetToSeq(S))
    BY DEF Range
  <2> QED
    BY <1>1, <2>1
<1> QED
  BY <1>1, <1>2, OrderedKeeps DEF Sorted

\* What is kept of a sequence is what it was.
LEMMA KeptIn ==
  ASSUME NEW X, NEW seq \in Seq(X), NEW at \in SUBSET DOMAIN seq
  PROVE  Kept(seq, at) \in Seq(X)
<1>1. DOMAIN seq = 1..Len(seq) /\ Len(seq) \in Nat
  OBVIOUS
<1>2. IsFiniteSet(at) /\ at \in SUBSET Nat
  <2>1. IsFiniteSet(1..Len(seq))
    BY <1>1, FS_Interval
  <2>2. IsFiniteSet(at)
    BY <1>1, <2>1, FS_Subset
  <2> QED
    BY <1>1, <2>2
<1> DEFINE in == Sorted(at)
<1>3. in \in Seq(at)
  BY <1>2, SortedHolds
<1> HIDE DEF in
<1>4. DOMAIN in = 1..Len(in) /\ Len(in) \in Nat /\ \A i \in 1..Len(in) : in[i] \in at
  BY <1>3
<1>5. \A i \in 1..Len(in) : seq[in[i]] \in X
  BY <1>4
<1>6. Kept(seq, at) = [i \in 1..Len(in) |-> seq[in[i]]]
  BY <1>4 DEF Kept, in
<1> QED
  BY <1>4, <1>5, <1>6

LEMMA HeadIn ==
  ASSUME NEW X, NEW seq \in Seq(X), seq # <<>>
  PROVE  Head(seq) \in X
OBVIOUS

------------------------------------------------------------------------------
(***************************************************************************)
(* The prompt and the batches of a retry                                   *)
(***************************************************************************)
\* The cost of a sequence, prefix by prefix.
CostsAdd(f, seq) ==
  \E t \in [0..Len(seq) -> Nat] :
    /\ t[0] = 0 /\ CostOf(f, seq) = t[Len(seq)]
    /\ \A i \in 1..Len(seq) : t[i] = t[i - 1] + Cost(f, seq[i])

LEMMA CostTrace ==
  ASSUME NEW f, NEW X, \A k \in X : Cost(f, k) \in Nat, NEW seq \in Seq(X)
  PROVE  CostsAdd(f, seq)
<1> DEFINE g == [v \in Nat \X X |-> v[1] + Cost(f, v[2])]
           Eq(it) == it = [s \in SUBSET DOMAIN seq |->
                             IF s = {} THEN 0 ELSE LET x == Max(s)
                                                   IN it[s \ {x}] + Cost(f, seq[x])]
           at == CHOOSE it : Eq(it)
<1>1. CostOf(f, seq) = at[DOMAIN seq]
  BY DEF CostOf, FoldLeft, MapThenFoldSet
<1>2. g \in [Nat \X X -> Nat] /\ \A a \in Nat, k \in X : g[<<a, k>>] = a + Cost(f, k)
  OBVIOUS
<1> HIDE DEF g
<1>3. PICK h : Solves(h, seq, X, Nat, 0, g)
  BY <1>2, FoldExists
<1>4. Eq(h)
  BY <1>2, <1>3 DEF Solves
<1>5. Eq(at)
  BY <1>4
<1> HIDE DEF at
<1>6. Folds(at, seq, X, Nat, 0, g)
  <2>1. at[{}] = 0 /\ \A s \in SUBSET DOMAIN seq : s # {} =>
          at[s] = at[s \ {Max(s)}] + Cost(f, seq[Max(s)])
    BY <1>5
  <2>2. \A s \in SUBSET DOMAIN seq : s # {} => seq[Max(s)] \in X
    BY GreatestAt
  <2>3. \A s \in SUBSET DOMAIN seq : s # {} /\ at[s \ {Max(s)}] \in Nat =>
          at[s] = g[<<at[s \ {Max(s)}], seq[Max(s)]>>]
    BY <1>2, <2>1, <2>2
  <2> QED
    BY <1>2, <2>1, <2>3 DEF Folds
<1>9. PICK t : Trace(t, seq, Nat, 0, g) /\ at[DOMAIN seq] = t[Len(seq)]
  BY <1>6, VisitOnce
<1>10. t \in [0..Len(seq) -> Nat] /\ t[0] = 0
  BY <1>9 DEF Trace
<1>11. \A i \in 1..Len(seq) : t[i] = t[i - 1] + Cost(f, seq[i])
  <2>1. ASSUME NEW i \in 1..Len(seq) PROVE t[i] = t[i - 1] + Cost(f, seq[i])
    <3>0. i - 1 \in 0..Len(seq) /\ seq[i] \in X
      OBVIOUS
    <3>1. t[i] = g[<<t[i - 1], seq[i]>>] /\ t[i - 1] \in Nat
      BY <3>0, <1>9, <1>10 DEF Trace
    <3> QED
      BY <3>0, <3>1, <1>2
  <2> QED
    BY <2>1
<1> QED
  BY <1>1, <1>9, <1>10, <1>11 DEF CostsAdd

LEMMA CostEmpty ==
  ASSUME NEW f
  PROVE  CostOf(f, <<>>) = 0
<1>1. /\ \A k \in {} : Cost(f, k) \in Nat
      /\ <<>> \in Seq({}) /\ Len(<<>>) = 0
  OBVIOUS
<1>0. CostsAdd(f, <<>>)
  BY <1>1, CostTrace
<1>2. PICK t \in [0..Len(<<>>) -> Nat] : t[0] = 0 /\ CostOf(f, <<>>) = t[Len(<<>>)]
  BY <1>0 DEF CostsAdd
<1> QED
  BY <1>1, <1>2

\* One excerpt more costs what it costs.
LEMMA CostAppend ==
  ASSUME NEW f, NEW X, \A k \in X : Cost(f, k) \in Nat, NEW seq \in Seq(X), NEW k \in X
  PROVE  /\ CostOf(f, seq) \in Nat
         /\ CostOf(f, Append(seq, k)) = CostOf(f, seq) + Cost(f, k)
<1> DEFINE more == Append(seq, k)
<1>0. /\ more \in Seq(X) /\ Len(more) = Len(seq) + 1 /\ Len(seq) \in Nat
      /\ more[Len(seq) + 1] = k /\ \A i \in 1..Len(seq) : more[i] = seq[i]
  OBVIOUS
<1> HIDE DEF more
<1>a. CostsAdd(f, seq) /\ CostsAdd(f, more)
  BY <1>0, CostTrace
<1>1. PICK t \in [0..Len(seq) -> Nat] :
         /\ t[0] = 0 /\ CostOf(f, seq) = t[Len(seq)]
         /\ \A i \in 1..Len(seq) : t[i] = t[i - 1] + Cost(f, seq[i])
  BY <1>a DEF CostsAdd
<1>2. PICK u \in [0..Len(more) -> Nat] :
         /\ u[0] = 0 /\ CostOf(f, more) = u[Len(more)]
         /\ \A i \in 1..Len(more) : u[i] = u[i - 1] + Cost(f, more[i])
  BY <1>a DEF CostsAdd
<1> DEFINE Q == {n \in Nat : n <= Len(seq) => u[n] = t[n]}
<1>3. 0 \in Q
  BY <1>1, <1>2
<1>4. ASSUME NEW n \in Nat, n \in Q PROVE n + 1 \in Q
  <2> SUFFICES ASSUME n + 1 <= Len(seq) PROVE u[n + 1] = t[n + 1]
    OBVIOUS
  <2>1. n + 1 \in 1..Len(seq) /\ n + 1 \in 1..Len(more) /\ (n + 1) - 1 = n /\ u[n] = t[n]
    BY <1>0, <1>4
  <2>2. t[n + 1] = t[n] + Cost(f, seq[n + 1])
    BY <1>1, <2>1
  <2>3. u[n + 1] = u[n] + Cost(f, more[n + 1])
    BY <1>2, <2>1
  <2> QED
    BY <1>0, <2>1, <2>2, <2>3
<1>5. \A n \in Q : n <= Len(seq) => u[n] = t[n]
  OBVIOUS
<1>6. Q \in SUBSET Nat
  OBVIOUS
<1> HIDE DEF Q
<1>7. Q = Nat
  BY <1>3, <1>4, <1>6, Induction
<1>8. u[Len(seq)] = t[Len(seq)]
  BY <1>0, <1>5, <1>7
<1>9. u[Len(more)] = u[Len(seq)] + Cost(f, k)
  <2>1. Len(more) \in 1..Len(more) /\ Len(more) - 1 = Len(seq)
    BY <1>0
  <2> QED
    BY <1>0, <1>2, <2>1
<1>10. CostOf(f, seq) \in Nat
  <2>1. Len(seq) \in 0..Len(seq)
    BY <1>0
  <2> QED
    BY <1>1, <2>1
<1>11. CostOf(f, more) = CostOf(f, seq) + Cost(f, k)
  BY <1>1, <1>2, <1>8, <1>9
<1> QED
  BY <1>10, <1>11 DEF more

LEMMA CostNat ==
  ASSUME NEW f, NEW X, \A k \in X : Cost(f, k) \in Nat, NEW seq \in Seq(X)
  PROVE  CostOf(f, seq) \in Nat
<1>0. CostsAdd(f, seq)
  BY CostTrace
<1>1. PICK t \in [0..Len(seq) -> Nat] : CostOf(f, seq) = t[Len(seq)]
  BY <1>0 DEF CostsAdd
<1>2. Len(seq) \in 0..Len(seq)
  OBVIOUS
<1> QED
  BY <1>1, <1>2

LEMMA Prefix ==
  ASSUME NEW X, NEW seq \in Seq(X), NEW i \in 1..Len(seq)
  PROVE  /\ SubSeq(seq, 1, i - 1) \in Seq(X)
         /\ SubSeq(seq, 1, i) = Append(SubSeq(seq, 1, i - 1), seq[i])
         /\ SubSeq(seq, 1, Len(seq)) = seq /\ SubSeq(seq, 1, 0) = <<>>
  OBVIOUS

\* A prefix costs no more than the whole.
LEMMA CostPrefix ==
  ASSUME NEW f, NEW X, \A k \in X : Cost(f, k) \in Nat, NEW seq \in Seq(X),
         NEW n \in 0..Len(seq)
  PROVE  CostOf(f, SubSeq(seq, 1, n)) <= CostOf(f, seq)
<1> DEFINE P(i) == CostOf(f, SubSeq(seq, 1, i))
           Q == {d \in Nat : d <= Len(seq) => P(Len(seq) - d) <= P(Len(seq))}
<1>0. Len(seq) \in Nat /\ P(Len(seq)) = CostOf(f, seq)
  <2>1. Len(seq) \in Nat /\ SubSeq(seq, 1, Len(seq)) = seq
    OBVIOUS
  <2> QED
    BY <2>1
<1>1. ASSUME NEW i \in 1..Len(seq)
      PROVE  P(i) \in Nat /\ P(i - 1) \in Nat /\ P(i - 1) <= P(i)
  <2>1. /\ SubSeq(seq, 1, i - 1) \in Seq(X) /\ seq[i] \in X
        /\ SubSeq(seq, 1, i) = Append(SubSeq(seq, 1, i - 1), seq[i])
    BY Prefix
  <2>2. P(i - 1) \in Nat /\ P(i) = P(i - 1) + Cost(f, seq[i])
    BY <2>1, CostAppend
  <2> HIDE DEF P
  <2> QED
    BY <2>1, <2>2
<1>2. P(0) = 0
  <2>1. SubSeq(seq, 1, 0) = <<>>
    OBVIOUS
  <2> QED
    BY <2>1, CostEmpty
<1>3. \A i \in 0..Len(seq) : P(i) \in Nat
  <2> HIDE DEF P
  <2> QED
    BY <1>1, <1>2
<1>n. P(n) = CostOf(f, SubSeq(seq, 1, n))
  OBVIOUS
<1> HIDE DEF P
<1>4. 0 \in Q
  BY <1>0, <1>3
<1>5. ASSUME NEW d \in Nat, d \in Q PROVE d + 1 \in Q
  <2> SUFFICES ASSUME d + 1 <= Len(seq) PROVE P(Len(seq) - (d + 1)) <= P(Len(seq))
    OBVIOUS
  <2>1. /\ Len(seq) - d \in 1..Len(seq) /\ Len(seq) \in 0..Len(seq)
        /\ Len(seq) - (d + 1) = (Len(seq) - d) - 1
    BY <1>0
  <2>2. P((Len(seq) - d) - 1) \in Nat /\ P(Len(seq) - d) \in Nat
        /\ P((Len(seq) - d) - 1) <= P(Len(seq) - d)
    BY <2>1, <1>1
  <2>3. P(Len(seq) - d) <= P(Len(seq)) /\ P(Len(seq)) \in Nat
    BY <1>3, <1>5, <2>1
  <2> QED
    BY <2>1, <2>2, <2>3
<1>6. \A d \in Q : d <= Len(seq) => P(Len(seq) - d) <= P(Len(seq))
  OBVIOUS
<1>7. Q \in SUBSET Nat
  OBVIOUS
<1> HIDE DEF Q
<1>8. Q = Nat
  BY <1>4, <1>5, <1>7, Induction
<1>9. Len(seq) - n \in Nat /\ Len(seq) - n <= Len(seq) /\ Len(seq) - (Len(seq) - n) = n
  BY <1>0
<1>10. P(n) <= P(Len(seq))
  BY <1>6, <1>8, <1>9
<1> QED
  BY <1>0, <1>10, <1>n

LEMMA Appended ==
  ASSUME NEW W, NEW a \in Seq(W), NEW x \in W
  PROVE  /\ Append(a, x) \in Seq(W) /\ Append(a, x) # <<>>
         /\ Len(a) + 1 \in DOMAIN Append(a, x) /\ Append(a, x)[Len(a) + 1] = x
         /\ \A i \in DOMAIN a : i \in DOMAIN Append(a, x) /\ Append(a, x)[i] = a[i]
  OBVIOUS

LEMMA FrontIs ==
  ASSUME NEW W, NEW a \in Seq(W), Len(a) # 0
  PROVE  /\ Front(a) \in Seq(W) /\ Len(Front(a)) = Len(a) - 1
         /\ \A i \in 1..(Len(a) - 1) : Front(a)[i] = a[i]
<1>1. Len(a) \in Nat /\ Len(a) - 1 \in Nat
  OBVIOUS
<1>2. Front(a) = SubSeq(a, 1, Len(a) - 1)
  BY DEF Front
<1> DEFINE n == Len(a) - 1
<1>3. SubSeq(a, 1, n) \in Seq(W) /\ Len(SubSeq(a, 1, n)) = n
  <2>1. n \in Nat /\ \A i \in 1..n : a[i] \in W
    BY <1>1
  <2> HIDE DEF n
  <2>2. Len(SubSeq(a, 1, n)) = n
    BY <2>1
  <2>3. SubSeq(a, 1, n) \in Seq(W)
    BY <2>1
  <2> QED
    BY <2>2, <2>3
<1>4. \A i \in 1..(Len(a) - 1) : SubSeq(a, 1, Len(a) - 1)[i] = a[i]
  BY <1>1
<1> QED
  BY <1>2, <1>3, <1>4

\* Everything is sent that the prompt has room for.
LEMMA SentWhole ==
  ASSUME NEW f, NEW X, \A k \in X : Cost(f, k) \in Nat, Room \in Nat,
         NEW seq \in Seq(X), CostOf(f, seq) <= Room
  PROVE  Sent(f, seq) = seq
<1> DEFINE T == Seq(X)
           g == [v \in T \X X |-> IF CostOf(f, v[1]) + Cost(f, v[2]) <= Room
                                  THEN Append(v[1], v[2]) ELSE v[1]]
           Eq(it) == it = [s \in SUBSET DOMAIN seq |->
                             IF s = {} THEN <<>>
                             ELSE LET x == Max(s)
                                  IN IF CostOf(f, it[s \ {x}]) + Cost(f, seq[x]) <= Room
                                     THEN Append(it[s \ {x}], seq[x]) ELSE it[s \ {x}]]
           at == CHOOSE it : Eq(it)
<1>1. Sent(f, seq) = at[DOMAIN seq]
  BY DEF Sent, FoldLeft, MapThenFoldSet
<1>2. /\ g \in [T \X X -> T] /\ <<>> \in T
      /\ \A a \in T, k \in X : g[<<a, k>>] = IF CostOf(f, a) + Cost(f, k) <= Room
                                             THEN Append(a, k) ELSE a
  OBVIOUS
<1>T. T = Seq(X)
  OBVIOUS
<1> HIDE DEF g, T
<1>3. PICK h : Solves(h, seq, X, T, <<>>, g)
  BY <1>2, FoldExists
<1>4. Eq(h)
  BY <1>2, <1>3 DEF Solves
<1>5. Eq(at)
  BY <1>4
<1> HIDE DEF at
<1>6. Folds(at, seq, X, T, <<>>, g)
  <2>1. at[{}] = <<>> /\ \A s \in SUBSET DOMAIN seq : s # {} =>
          at[s] = IF CostOf(f, at[s \ {Max(s)}]) + Cost(f, seq[Max(s)]) <= Room
                  THEN Append(at[s \ {Max(s)}], seq[Max(s)]) ELSE at[s \ {Max(s)}]
    BY <1>5
  <2>2. \A s \in SUBSET DOMAIN seq : s # {} => seq[Max(s)] \in X
    BY GreatestAt
  <2>3. \A s \in SUBSET DOMAIN seq : s # {} /\ at[s \ {Max(s)}] \in T =>
          at[s] = g[<<at[s \ {Max(s)}], seq[Max(s)]>>]
    BY <1>2, <2>1, <2>2
  <2> QED
    BY <1>2, <2>1, <2>3 DEF Folds
<1>7. PICK t : Trace(t, seq, T, <<>>, g) /\ at[DOMAIN seq] = t[Len(seq)]
  BY <1>6, VisitOnce
<1> DEFINE Q == {n \in Nat : n <= Len(seq) => t[n] = SubSeq(seq, 1, n)}
<1>8. 0 \in Q
  <2>1. SubSeq(seq, 1, 0) = <<>>
    OBVIOUS
  <2> QED
    BY <1>7, <2>1 DEF Trace
<1>9. ASSUME NEW n \in Nat, n \in Q PROVE n + 1 \in Q
  <2> SUFFICES ASSUME n + 1 <= Len(seq) PROVE t[n + 1] = SubSeq(seq, 1, n + 1)
    OBVIOUS
  <2>1. n + 1 \in 1..Len(seq) /\ n + 1 \in 0..Len(seq) /\ (n + 1) - 1 = n
    OBVIOUS
  <2>2. /\ SubSeq(seq, 1, n) \in Seq(X) /\ seq[n + 1] \in X
        /\ SubSeq(seq, 1, n + 1) = Append(SubSeq(seq, 1, n), seq[n + 1])
    BY <2>1, Prefix
  <2>3. t[n] = SubSeq(seq, 1, n)
    BY <1>9
  <2>4. /\ CostOf(f, SubSeq(seq, 1, n)) \in Nat
        /\ CostOf(f, SubSeq(seq, 1, n + 1)) = CostOf(f, SubSeq(seq, 1, n)) + Cost(f, seq[n + 1])
    BY <2>2, CostAppend
  <2>5. CostOf(f, SubSeq(seq, 1, n + 1)) <= CostOf(f, seq)
    BY <2>1, CostPrefix
  <2>6. CostOf(f, seq) \in Nat /\ Cost(f, seq[n + 1]) \in Nat
    <3>1. CostOf(f, seq) \in Nat
      BY <2>2, CostAppend
    <3> QED
      BY <2>2, <3>1
  <2>7. CostOf(f, t[n]) + Cost(f, seq[n + 1]) <= Room
    BY <2>3, <2>4, <2>5, <2>6
  <2>8. t[n + 1] = g[<<t[n], seq[n + 1]>>]
    BY <1>7, <2>1 DEF Trace
  <2>9. t[n] \in T
    BY <1>T, <2>2, <2>3
  <2>10. g[<<t[n], seq[n + 1]>>] = Append(t[n], seq[n + 1])
    BY <1>2, <2>2, <2>7, <2>9
  <2> QED
    BY <2>2, <2>3, <2>8, <2>10
<1>10. \A n \in Q : n <= Len(seq) => t[n] = SubSeq(seq, 1, n)
  OBVIOUS
<1>11. Q \in SUBSET Nat
  OBVIOUS
<1> HIDE DEF Q
<1>12. Q = Nat
  BY <1>8, <1>9, <1>11, Induction
<1>13. t[Len(seq)] = SubSeq(seq, 1, Len(seq)) /\ SubSeq(seq, 1, Len(seq)) = seq
  BY <1>10, <1>12
<1> QED
  BY <1>1, <1>7, <1>13

\* The batches hold everything, and each fits into a prompt, if each chunk does.
LEMMA BatchesHold ==
  ASSUME NEW f, NEW X, \A k \in X : Cost(f, k) \in Nat /\ Cost(f, k) <= Room, Room \in Nat,
         NEW seq \in Seq(X)
  PROVE  /\ \A b \in Range(Batches(f, seq)) : b \in Seq(X) /\ CostOf(f, b) <= Room
         /\ \A i \in 1..Len(seq) : \E b \in Range(Batches(f, seq)) : seq[i] \in Range(b)
<1> DEFINE W == {q \in Seq(X) : CostOf(f, q) <= Room}
           T == {b \in Seq(W) : b # <<>>}
           Closed(acc, k) == Last(acc) # <<>> /\ CostOf(f, Last(acc)) + Cost(f, k) > Room
           Put(acc, k) == IF Closed(acc, k) THEN Append(acc, <<k>>)
                          ELSE Append(Front(acc), Append(Last(acc), k))
           g == [v \in T \X X |-> Put(v[1], v[2])]
           Eq(it) == it = [s \in SUBSET DOMAIN seq |->
                             IF s = {} THEN << <<>> >>
                             ELSE LET x == Max(s) IN Put(it[s \ {x}], seq[x])]
           at == CHOOSE it : Eq(it)
<1>1. Batches(f, seq) = at[DOMAIN seq]
  BY DEF Batches, FoldLeft, MapThenFoldSet
<1>w. \A q \in W : q \in Seq(X) /\ CostOf(f, q) \in Nat /\ CostOf(f, q) <= Room
  <2>1. \A k \in X : Cost(f, k) \in Nat
    OBVIOUS
  <2> QED
    BY <2>1, CostNat
<1>e. <<>> \in W
  BY CostEmpty
<1>o. \A k \in X : <<k>> \in W
  <2>1. ASSUME NEW k \in X PROVE <<k>> \in W
    <3>1. <<>> \in Seq(X) /\ Append(<<>>, k) = <<k>> /\ <<k>> \in Seq(X)
      OBVIOUS
    <3>2. CostOf(f, <<k>>) = CostOf(f, <<>>) + Cost(f, k)
      <4>1. \A x \in X : Cost(f, x) \in Nat
        OBVIOUS
      <4>2. CostOf(f, Append(<<>>, k)) = CostOf(f, <<>>) + Cost(f, k)
        BY <3>1, <4>1, CostAppend
      <4> QED
        BY <3>1, <4>2
    <3> QED
      BY <3>1, <3>2, CostEmpty
  <2> QED
    BY <2>1
<1>t. ASSUME NEW a \in T, NEW k \in X
      PROVE  /\ Put(a, k) \in T
             /\ \A b \in Range(a) : \E c \in Range(Put(a, k)) : Range(b) \subseteq Range(c)
             /\ \E c \in Range(Put(a, k)) : k \in Range(c)
  <2>0. a \in Seq(W) /\ Len(a) \in Nat /\ Len(a) # 0 /\ Last(a) = a[Len(a)] /\ Last(a) \in W
    BY DEF Last
  <2>1. CASE Closed(a, k)
    <3>1. Put(a, k) = Append(a, <<k>>)
      BY <2>1
    <3>2. <<k>> \in W /\ k \in Range(<<k>>)
      BY <1>o DEF Range
    <3> HIDE DEF W, Put, Closed
    <3>3. /\ Put(a, k) \in Seq(W) /\ Put(a, k) # <<>>
          /\ \A i \in DOMAIN a : i \in DOMAIN Put(a, k) /\ Put(a, k)[i] = a[i]
          /\ Len(a) + 1 \in DOMAIN Put(a, k) /\ Put(a, k)[Len(a) + 1] = <<k>>
      BY <2>0, <3>1, <3>2, Appended
    <3>5. Range(a) \subseteq Range(Put(a, k)) /\ <<k>> \in Range(Put(a, k))
      BY <3>3 DEF Range
    <3> QED
      BY <3>2, <3>3, <3>5
  <2>2. CASE ~ Closed(a, k)
    <3> DEFINE last == Append(Last(a), k)
    <3>1. Put(a, k) = Append(Front(a), last) /\ last \in Seq(X)
      BY <2>0, <2>2
    <3>2. last \in W
      <4>1. CASE Last(a) = <<>>
        <5>1. last = <<k>>
          BY <4>1
        <5> QED
          BY <5>1, <1>o
      <4>2. CASE Last(a) # <<>>
        <5>1. ~ (CostOf(f, Last(a)) + Cost(f, k) > Room)
          BY <2>2, <4>2
        <5>2. CostOf(f, last) = CostOf(f, Last(a)) + Cost(f, k)
          <6>1. (\A x \in X : Cost(f, x) \in Nat) /\ Last(a) \in Seq(X)
            BY <2>0
          <6> QED
            BY <6>1, CostAppend
        <5>3. CostOf(f, Last(a)) \in Nat /\ Cost(f, k) \in Nat
          BY <2>0, <1>w
        <5>4. CostOf(f, last) <= Room
          BY <5>1, <5>2, <5>3
        <5> QED
          BY <3>1, <5>4
      <4> QED
        BY <4>1, <4>2
    <3>3. k \in Range(last) /\ Range(Last(a)) \subseteq Range(last)
      <4>1. Last(a) \in Seq(X)
        BY <2>0
      <4>2. /\ Len(Last(a)) + 1 \in DOMAIN last /\ last[Len(Last(a)) + 1] = k
            /\ \A i \in DOMAIN Last(a) : i \in DOMAIN last /\ last[i] = Last(a)[i]
        BY <4>1
      <4> QED
        BY <4>2 DEF Range
    <3> HIDE DEF W, Put, Closed, last
    <3>4. /\ Front(a) \in Seq(W) /\ Len(Front(a)) = Len(a) - 1
          /\ \A i \in 1..(Len(a) - 1) : Front(a)[i] = a[i]
      BY <2>0, FrontIs
    <3>5. Put(a, k) \in Seq(W) /\ Put(a, k) # <<>>
      BY <3>1, <3>2, <3>4, Appended
    <3>6. /\ Len(a) \in DOMAIN Put(a, k) /\ Put(a, k)[Len(a)] = last
          /\ \A i \in 1..(Len(a) - 1) : i \in DOMAIN Put(a, k) /\ Put(a, k)[i] = a[i]
      <4>1. Len(Front(a)) + 1 = Len(a) /\ DOMAIN Front(a) = 1..(Len(a) - 1)
        BY <2>0, <3>4
      <4> QED
        BY <3>1, <3>2, <3>4, <4>1, Appended
    <3>7. last \in Range(Put(a, k)) /\ \A i \in 1..(Len(a) - 1) : a[i] \in Range(Put(a, k))
      BY <3>6 DEF Range
    <3>8. ASSUME NEW b \in Range(a) PROVE \E c \in Range(Put(a, k)) : Range(b) \subseteq Range(c)
      <4>1. PICK i \in 1..Len(a) : b = a[i]
        BY <2>0 DEF Range
      <4>2. CASE i = Len(a)
        BY <2>0, <3>3, <3>7, <4>1, <4>2
      <4>3. CASE i # Len(a)
        <5>1. i \in 1..(Len(a) - 1)
          BY <2>0, <4>3
        <5> QED
          BY <3>7, <4>1, <5>1
      <4> QED
        BY <4>2, <4>3
    <3> QED
      BY <3>3, <3>5, <3>7, <3>8
  <2> QED
    BY <2>1, <2>2
<1>2. /\ g \in [T \X X -> T] /\ << <<>> >> \in T
      /\ \A a \in T, k \in X : g[<<a, k>>] = Put(a, k)
  <2> HIDE DEF Put, W
  <2>1. << <<>> >> \in T
    BY <1>e
  <2> HIDE DEF T
  <2>2. g \in [T \X X -> T]
    BY <1>t
  <2> QED
    BY <2>1, <2>2
<1> HIDE DEF g, T, Put, W, Closed
<1>3. PICK h : Solves(h, seq, X, T, << <<>> >>, g)
  BY <1>2, FoldExists
<1>4. Eq(h)
  BY <1>2, <1>3 DEF Solves
<1>5. Eq(at)
  BY <1>4
<1> HIDE DEF at
<1>6. Folds(at, seq, X, T, << <<>> >>, g)
  <2>1. at[{}] = << <<>> >> /\ \A s \in SUBSET DOMAIN seq : s # {} =>
          at[s] = Put(at[s \ {Max(s)}], seq[Max(s)])
    BY <1>5
  <2>2. \A s \in SUBSET DOMAIN seq : s # {} => seq[Max(s)] \in X
    BY GreatestAt
  <2>3. \A s \in SUBSET DOMAIN seq : s # {} /\ at[s \ {Max(s)}] \in T =>
          at[s] = g[<<at[s \ {Max(s)}], seq[Max(s)]>>]
    BY <1>2, <2>1, <2>2
  <2> QED
    BY <1>2, <2>1, <2>3 DEF Folds
<1>7. PICK t : Trace(t, seq, T, << <<>> >>, g) /\ at[DOMAIN seq] = t[Len(seq)]
  BY <1>6, VisitOnce
<1> DEFINE Held(n) == \A i \in 1..n : \E b \in Range(t[n]) : seq[i] \in Range(b)
           Q == {n \in Nat : n <= Len(seq) => Held(n)}
<1>8. 0 \in Q
  OBVIOUS
<1>9. ASSUME NEW n \in Nat, n \in Q PROVE n + 1 \in Q
  <2> SUFFICES ASSUME n + 1 <= Len(seq) PROVE Held(n + 1)
    OBVIOUS
  <2>1. n + 1 \in 1..Len(seq) /\ n \in 0..Len(seq) /\ (n + 1) - 1 = n /\ seq[n + 1] \in X
    OBVIOUS
  <2>2. t[n] \in T /\ t[n + 1] = g[<<t[n], seq[n + 1]>>]
    BY <1>7, <2>1 DEF Trace
  <2>3. t[n + 1] = Put(t[n], seq[n + 1])
    BY <1>2, <2>1, <2>2
  <2>4. Held(n)
    BY <1>9
  <2>6. \A b \in Range(t[n]) : \E c \in Range(t[n + 1]) : Range(b) \subseteq Range(c)
    BY <1>t, <2>1, <2>2, <2>3
  <2>5. ASSUME NEW i \in 1..(n + 1) PROVE \E b \in Range(t[n + 1]) : seq[i] \in Range(b)
    <3>1. CASE i = n + 1
      BY <1>t, <2>1, <2>2, <2>3, <3>1
    <3>2. CASE i # n + 1
      <4>1. i \in 1..n
        BY <3>2
      <4>2. PICK b \in Range(t[n]) : seq[i] \in Range(b)
        BY <2>4, <4>1
      <4>3. PICK c \in Range(t[n + 1]) : Range(b) \subseteq Range(c)
        BY <2>6
      <4> QED
        BY <4>2, <4>3
    <3> QED
      BY <3>1, <3>2
  <2> QED
    BY <2>5
<1>10. \A n \in Q : n <= Len(seq) => Held(n)
  OBVIOUS
<1>11. Q \in SUBSET Nat
  OBVIOUS
<1>l. Len(seq) \in Nat
  OBVIOUS
<1> HIDE DEF Q, Held
<1>12. Q = Nat
  BY <1>8, <1>9, <1>11, Induction
<1>13. Held(Len(seq))
  BY <1>10, <1>12, <1>l
<1>14. t[Len(seq)] \in T
  BY <1>7, <1>l DEF Trace
<1>15. \A b \in Range(t[Len(seq)]) : b \in Seq(X) /\ CostOf(f, b) <= Room
  <2>1. \A a \in T : \A b \in Range(a) : b \in W
    BY DEF T, Range
  <2> QED
    BY <1>w, <1>14, <2>1
<1> QED
  BY <1>1, <1>7, <1>13, <1>15 DEF Held

------------------------------------------------------------------------------
(***************************************************************************)
(* What a check is shown: pieces, and whole pages with text                *)
(***************************************************************************)
\* The excerpts that a check may be shown of f: pieces, and whole pages with text.
Excerpts(f) ==
  {k \in Pages(f) \X (0..Room) : k[2] = 0 => f.size[k[1]] > 0}
Written(f) == {p \in Pages(f) : f.size[p] > 0}
SoundFiling(f) ==
  /\ f.labels \in Seq(SUBSET STRING)
  /\ f.size \in [Pages(f) -> 0..Room]

LEMMA PageNumbers ==
  ASSUME NEW f, SoundFiling(f)
  PROVE  /\ Pages(f) \in SUBSET Nat /\ IsFiniteSet(Pages(f))
         /\ \E n \in Nat : Pages(f) = 1..n
<1>1. Len(f.labels) \in Nat /\ Pages(f) = 1..Len(f.labels)
  BY DEF SoundFiling, Pages
<1>2. IsFiniteSet(1..Len(f.labels))
  BY <1>1, FS_Interval
<1> QED
  BY <1>1, <1>2

LEMMA AppendIn ==
  ASSUME NEW W, NEW a \in Seq(W), NEW x \in W
  PROVE  Append(a, x) \in Seq(W)
OBVIOUS

LEMMA UsableIn ==
  ASSUME NEW X, NEW f, NEW c, NEW ranked \in Seq(X)
  PROVE  Usable(f, c, ranked) \in Seq(X)
<1> DEFINE at == {i \in DOMAIN ranked : \/ f.labels[ranked[i][1]] # {"Index"}
                                       \/ "Index" \in Range(c.required)}
<1>1. at \in SUBSET DOMAIN ranked /\ Usable(f, c, ranked) = Kept(ranked, at)
  BY DEF Usable
<1> HIDE DEF at
<1> QED
  BY <1>1, KeptIn

\* Every step of the selection keeps to the hits.
LEMMA OnePerPartIn ==
  ASSUME NEW W, NEW f, NEW c, NEW ranked \in Seq(W), NEW room, NEW P, c.look \in Seq(P)
  PROVE  OnePerPart(f, c, ranked, room) \in Seq(W)
<1> DEFINE X == P
           Z == Seq(W)
           Op(a, k) == LET free == Kept(ranked, {i \in DOMAIN ranked :
                                             /\ ranked[i] \notin Range(a)
                                             /\ Covers(f.labels[ranked[i][1]], k)})
                        IN IF Len(a) < room /\ free # <<>> THEN Append(a, Head(free)) ELSE a
           g == [v \in Z \X X |-> Op(v[1], v[2])]
           Eq(it) == it = [s \in SUBSET DOMAIN c.look |->
                             IF s = {} THEN <<>>
                             ELSE LET x == Max(s) IN Op(it[s \ {x}], c.look[x])]
           at == CHOOSE it : Eq(it)
<1>1. OnePerPart(f, c, ranked, room) = at[DOMAIN c.look]
  BY DEF OnePerPart, FoldLeft, MapThenFoldSet
<1>2. ASSUME NEW a \in Z, NEW k \in X PROVE Op(a, k) \in Z
  <2> DEFINE at0 == {i \in DOMAIN ranked : ranked[i] \notin Range(a)
                                          /\ Covers(f.labels[ranked[i][1]], k)}
             free == Kept(ranked, at0)
  <2>1. at0 \in SUBSET DOMAIN ranked
    OBVIOUS
  <2>2. Op(a, k) = IF Len(a) < room /\ free # <<>> THEN Append(a, Head(free)) ELSE a
    OBVIOUS
  <2> HIDE DEF at0, Op
  <2>3. free \in Seq(W)
    BY <2>1, KeptIn
  <2> HIDE DEF free
  <2>4. free # <<>> => Head(free) \in W
    BY <2>3, HeadIn
  <2> QED
    BY <2>2, <2>4, AppendIn
<1>3. <<>> \in Z /\ c.look \in Seq(X)
  OBVIOUS
<1> HIDE DEF Op, X, Z
<1>4. g \in [Z \X X -> Z] /\ \A a \in Z, k \in X : g[<<a, k>>] = Op(a, k)
  BY <1>2
<1> HIDE DEF g
<1>5. PICK h : Solves(h, c.look, X, Z, <<>>, g)
  BY <1>3, <1>4, FoldExists
<1>6. Eq(at)
  <2>1. Eq(h)
    BY <1>4, <1>5 DEF Solves
  <2> QED
    BY <2>1
<1> HIDE DEF at
<1>7. Folds(at, c.look, X, Z, <<>>, g)
  <2>1. at[{}] = <<>> /\ \A s \in SUBSET DOMAIN c.look : s # {} =>
          at[s] = Op(at[s \ {Max(s)}], c.look[Max(s)])
    BY <1>6
  <2>2. \A s \in SUBSET DOMAIN c.look : s # {} => c.look[Max(s)] \in X
    BY <1>3, GreatestAt
  <2>3. \A s \in SUBSET DOMAIN c.look : s # {} /\ at[s \ {Max(s)}] \in Z =>
          at[s] = g[<<at[s \ {Max(s)}], c.look[Max(s)]>>]
    BY <1>4, <2>1, <2>2
  <2> QED
    BY <1>3, <1>4, <2>1, <2>3 DEF Folds
<1> QED
  BY <1>1, <1>7, FoldIn DEF Z

LEMMA TakeIn ==
  ASSUME NEW W, NEW f, NEW c, NEW chosen \in Seq(W), NEW order \in Seq(W), NEW room, NEW goal
  PROVE  Take(f, c, chosen, order, room, goal) \in Seq(W)
<1> DEFINE X == W
           Z == Seq(W)
           Op(a, k) == IF /\ Len(a) < room /\ k \notin Range(a)
                          /\ goal = "annexure" => NewAnnexure(f, a, k)
                          /\ goal = "page" => NewPage(f, c, a, k)
                       THEN Append(a, k) ELSE a
           g == [v \in Z \X X |-> Op(v[1], v[2])]
           Eq(it) == it = [s \in SUBSET DOMAIN order |->
                             IF s = {} THEN chosen
                             ELSE LET x == Max(s) IN Op(it[s \ {x}], order[x])]
           at == CHOOSE it : Eq(it)
<1>1. Take(f, c, chosen, order, room, goal) = at[DOMAIN order]
  BY DEF Take, FoldLeft, MapThenFoldSet
<1>2. ASSUME NEW a \in Z, NEW k \in X PROVE Op(a, k) \in Z
  BY <1>2, AppendIn
<1>3. chosen \in Z /\ order \in Seq(X)
  OBVIOUS
<1> HIDE DEF Op, X, Z
<1>4. g \in [Z \X X -> Z] /\ \A a \in Z, k \in X : g[<<a, k>>] = Op(a, k)
  BY <1>2
<1> HIDE DEF g
<1>5. PICK h : Solves(h, order, X, Z, chosen, g)
  BY <1>3, <1>4, FoldExists
<1>6. Eq(at)
  <2>1. Eq(h)
    BY <1>4, <1>5 DEF Solves
  <2> QED
    BY <2>1
<1> HIDE DEF at
<1>7. Folds(at, order, X, Z, chosen, g)
  <2>1. at[{}] = chosen /\ \A s \in SUBSET DOMAIN order : s # {} =>
          at[s] = Op(at[s \ {Max(s)}], order[Max(s)])
    BY <1>6
  <2>2. \A s \in SUBSET DOMAIN order : s # {} => order[Max(s)] \in X
    BY <1>3, GreatestAt
  <2>3. \A s \in SUBSET DOMAIN order : s # {} /\ at[s \ {Max(s)}] \in Z =>
          at[s] = g[<<at[s \ {Max(s)}], order[Max(s)]>>]
    BY <1>4, <2>1, <2>2
  <2> QED
    BY <1>3, <1>4, <2>1, <2>3 DEF Folds
<1> QED
  BY <1>1, <1>7, FoldIn DEF Z

LEMMA ByPageIn ==
  ASSUME NEW f, SoundFiling(f), NEW seq \in Seq(Excerpts(f))
  PROVE  ByPage(seq) \in Seq(Excerpts(f)) /\ Range(ByPage(seq)) = Range(seq)
<1> DEFINE key == [i \in DOMAIN seq |-> seq[i][1]]
<1>1. \A k \in Excerpts(f) : k[1] \in Nat
  BY PageNumbers DEF Excerpts
<1>2. \A i \in DOMAIN seq : seq[i] \in Excerpts(f)
  OBVIOUS
<1>3. \A i \in DOMAIN seq : key[i] \in Nat
  BY <1>1, <1>2
<1>4. ByPage(seq) = Ordered(seq, key)
  BY DEF ByPage
<1> HIDE DEF key
<1> QED
  BY <1>3, <1>4, OrderedKeeps

LEMMA SelectIn ==
  ASSUME NEW f, SoundFiling(f), NEW c, NEW P, c.look \in Seq(P),
         NEW pool \in Seq(Excerpts(f)), NEW ceiling, NEW near \in Nat \ {0}
  PROVE  Select(f, c, pool, ceiling, near) \in Seq(Excerpts(f))
<1> DEFINE E == Excerpts(f)
           ranked == Usable(f, c, pool)
           room == Budget(c, ceiling)
           parts == OnePerPart(f, c, ranked, room)
           annexures == IF c.each
                        THEN Take(f, c, parts, ranked, room, "annexure") ELSE parts
           whole == IF c.strategy = "exhaustive_part"
                    THEN Take(f, c, annexures, ByPage(ranked), room, "page") ELSE annexures
           at == {i \in DOMAIN ranked : ranked[i] \notin Range(whole)}
           rest == Kept(ranked, at)
           first == SubSeq(rest, 1, Min({near, Len(rest)}))
           last == Take(f, c, whole, first, room, "any")
<1>1. ranked \in Seq(E)
  BY UsableIn
<1>2. parts \in Seq(E)
  <2> HIDE DEF E, ranked, room
  <2> QED
    BY <1>1, OnePerPartIn
<1>3. ByPage(ranked) \in Seq(E)
  BY <1>1, ByPageIn
<1>4. annexures \in Seq(E)
  <2> HIDE DEF E, ranked, room, parts
  <2> QED
    BY <1>1, <1>2, TakeIn
<1>5. whole \in Seq(E)
  <2> HIDE DEF E, ranked, room, annexures
  <2> QED
    BY <1>3, <1>4, TakeIn
<1>6. rest \in Seq(E)
  <2>1. at \in SUBSET DOMAIN ranked
    OBVIOUS
  <2> HIDE DEF E, ranked, at
  <2> QED
    BY <1>1, <2>1, KeptIn
<1>7. first \in Seq(E)
  <2>0. Len(rest) \in Nat
    BY <1>6
  <2>1. Min({near, Len(rest)}) \in Nat /\ Min({near, Len(rest)}) <= Len(rest)
    <3> DEFINE s == {near, Len(rest)}
    <3>1. s \in SUBSET Nat /\ s # {} /\ Len(rest) \in s
      BY <2>0
    <3> HIDE DEF s, rest
    <3>2. Min(s) \in s /\ \A y \in s : Min(s) <= y
      BY <3>1, Least
    <3> QED
      BY <3>1, <3>2 DEF s
  <2> DEFINE n == Min({near, Len(rest)})
  <2>2. n \in Nat /\ n <= Len(rest)
    BY <2>1
  <2> HIDE DEF n, rest, E
  <2>3. \A i \in 1..n : rest[i] \in E
    BY <1>6, <2>0, <2>2
  <2>4. SubSeq(rest, 1, n) \in Seq(E)
    BY <1>6, <2>2, <2>3
  <2> QED
    BY <2>4 DEF n
<1>8. last \in Seq(E)
  <2> HIDE DEF E, room, whole, first
  <2> QED
    BY <1>5, <1>7, TakeIn
<1>9. Select(f, c, pool, ceiling, near) = ByPage(last)
  BY DEF Select
<1> HIDE DEF last
<1> QED
  BY <1>8, <1>9, ByPageIn

\* A whole page is added only if it has text.
LEMMA AddPageIn ==
  ASSUME NEW f, NEW selected \in Seq(Excerpts(f)), NEW pages \in SUBSET Written(f),
         NEW acc \in Seq(Excerpts(f)), NEW p
  PROVE  AddPage(selected, pages, acc, p) \in Seq(Excerpts(f))
<1> DEFINE at == {i \in DOMAIN selected : selected[i][1] = p}
           excerpt == Kept(selected, at)
<1>1. at \in SUBSET DOMAIN selected
  OBVIOUS
<1>2. AddPage(selected, pages, acc, p) =
        IF p \notin pages \/ p \in PageSet(acc) THEN acc
        ELSE Append(acc, IF excerpt = <<>> THEN <<p, 0>> ELSE Head(excerpt))
  BY DEF AddPage
<1> HIDE DEF at
<1>3. excerpt \in Seq(Excerpts(f))
  BY <1>1, KeptIn
<1> HIDE DEF excerpt
<1>4. excerpt # <<>> => Head(excerpt) \in Excerpts(f)
  BY <1>3, HeadIn
<1>5. p \in pages => <<p, 0>> \in Excerpts(f)
  <2>1. 0 \in 0..Room
    BY EvidenceAssumption
  <2> QED
    BY <2>1 DEF Excerpts, Written
<1> QED
  BY <1>2, <1>4, <1>5, AppendIn

\* Every step of the fallback adds pages with text only.
LEMMA AddPagesIn ==
  ASSUME NEW f, SoundFiling(f), NEW selected \in Seq(Excerpts(f)),
         NEW pages \in SUBSET Written(f), NEW acc \in Seq(Excerpts(f)), NEW room
  PROVE  AddPages(selected, pages, acc, room) \in Seq(Excerpts(f))
<1> DEFINE X == pages
           Z == Seq(Excerpts(f))
           Op(a, k) == IF Len(a) < room THEN AddPage(selected, pages, a, k) ELSE a
           g == [v \in Z \X X |-> Op(v[1], v[2])]
           Eq(it) == it = [s \in SUBSET DOMAIN Sorted(pages) |->
                             IF s = {} THEN acc
                             ELSE LET x == Max(s) IN Op(it[s \ {x}], Sorted(pages)[x])]
           at == CHOOSE it : Eq(it)
<1>1. AddPages(selected, pages, acc, room) = at[DOMAIN Sorted(pages)]
  BY DEF AddPages, FoldLeft, MapThenFoldSet
<1>2. ASSUME NEW a \in Z, NEW k \in X PROVE Op(a, k) \in Z
  BY <1>2, AddPageIn
<1>s. Sorted(pages) \in Seq(pages)
  <2>1. pages \in SUBSET Nat /\ pages \in SUBSET Pages(f)
    BY PageNumbers DEF Written
  <2>2. IsFiniteSet(pages)
    BY <2>1, PageNumbers, FS_Subset
  <2> QED
    BY <2>1, <2>2, SortedHolds
<1>3. acc \in Z /\ Sorted(pages) \in Seq(X)
  BY <1>s
<1> HIDE DEF Op, X, Z
<1>4. g \in [Z \X X -> Z] /\ \A a \in Z, k \in X : g[<<a, k>>] = Op(a, k)
  BY <1>2
<1> HIDE DEF g
<1>5. PICK h : Solves(h, Sorted(pages), X, Z, acc, g)
  BY <1>3, <1>4, FoldExists
<1>6. Eq(at)
  <2>1. Eq(h)
    BY <1>4, <1>5 DEF Solves
  <2> QED
    BY <2>1
<1> HIDE DEF at
<1>7. Folds(at, Sorted(pages), X, Z, acc, g)
  <2>1. at[{}] = acc /\ \A s \in SUBSET DOMAIN Sorted(pages) : s # {} =>
          at[s] = Op(at[s \ {Max(s)}], Sorted(pages)[Max(s)])
    BY <1>6
  <2>2. \A s \in SUBSET DOMAIN Sorted(pages) : s # {} => Sorted(pages)[Max(s)] \in X
    BY <1>3, GreatestAt
  <2>3. \A s \in SUBSET DOMAIN Sorted(pages) : s # {} /\ at[s \ {Max(s)}] \in Z =>
          at[s] = g[<<at[s \ {Max(s)}], Sorted(pages)[Max(s)]>>]
    BY <1>4, <2>1, <2>2
  <2> QED
    BY <1>3, <1>4, <2>1, <2>3 DEF Folds
<1> QED
  BY <1>1, <1>7, FoldIn DEF Z

LEMMA CandidatesIn ==
  ASSUME NEW f, NEW c, NEW part
  PROVE  Candidates(f, c, part) \in SUBSET Written(f)
BY DEF Candidates, TextPages, PagesOf, FirstRun, Written

LEMMA EndsWithin ==
  ASSUME NEW f, SoundFiling(f), NEW pages \in SUBSET Written(f), pages # {}
  PROVE  {Min(pages)} \in SUBSET Written(f) /\ {Max(pages)} \in SUBSET Written(f)
<1>1. PICK n \in Nat : Pages(f) = 1..n
  BY PageNumbers
<1>2. pages \in SUBSET (1..n) /\ pages \in SUBSET Nat
  BY <1>1 DEF Written
<1>3. Min(pages) \in pages
  BY <1>2, Least
<1>4. Max(pages) \in pages
  BY <1>2, Greatest
<1> QED
  BY <1>3, <1>4

LEMMA AnchoredIn ==
  ASSUME NEW f, SoundFiling(f), NEW c, NEW P, c.required \in Seq(P),
         NEW selected \in Seq(Excerpts(f)), NEW room
  PROVE  Anchored(f, c, selected, room) \in Seq(Excerpts(f))
<1> DEFINE X == P
           Z == Seq(Excerpts(f))
           Op(a, k) == LET found == Candidates(f, c, k) \cap c.anchors
                        IN IF found = {} THEN a ELSE AddPages(selected, {Min(found)}, a, room)
           g == [v \in Z \X X |-> Op(v[1], v[2])]
           Eq(it) == it = [s \in SUBSET DOMAIN c.required |->
                             IF s = {} THEN <<>>
                             ELSE LET x == Max(s) IN Op(it[s \ {x}], c.required[x])]
           at == CHOOSE it : Eq(it)
<1>1. Anchored(f, c, selected, room) = at[DOMAIN c.required]
  BY DEF Anchored, FoldLeft, MapThenFoldSet
<1>2. ASSUME NEW a \in Z, NEW k \in X PROVE Op(a, k) \in Z
  <2> DEFINE found == Candidates(f, c, k) \cap c.anchors
  <2>1. found \in SUBSET Written(f)
    BY CandidatesIn
  <2>2. Op(a, k) = IF found = {} THEN a ELSE AddPages(selected, {Min(found)}, a, room)
    OBVIOUS
  <2> HIDE DEF found, Op
  <2>3. found # {} => {Min(found)} \in SUBSET Written(f)
    BY <2>1, EndsWithin
  <2>4. found # {} => AddPages(selected, {Min(found)}, a, room) \in Z
    BY <2>3, AddPagesIn
  <2> QED
    BY <2>2, <2>4
<1>3. <<>> \in Z /\ c.required \in Seq(X)
  OBVIOUS
<1> HIDE DEF Op, X, Z
<1>4. g \in [Z \X X -> Z] /\ \A a \in Z, k \in X : g[<<a, k>>] = Op(a, k)
  BY <1>2
<1> HIDE DEF g
<1>5. PICK h : Solves(h, c.required, X, Z, <<>>, g)
  BY <1>3, <1>4, FoldExists
<1>6. Eq(at)
  <2>1. Eq(h)
    BY <1>4, <1>5 DEF Solves
  <2> QED
    BY <2>1
<1> HIDE DEF at
<1>7. Folds(at, c.required, X, Z, <<>>, g)
  <2>1. at[{}] = <<>> /\ \A s \in SUBSET DOMAIN c.required : s # {} =>
          at[s] = Op(at[s \ {Max(s)}], c.required[Max(s)])
    BY <1>6
  <2>2. \A s \in SUBSET DOMAIN c.required : s # {} => c.required[Max(s)] \in X
    BY <1>3, GreatestAt
  <2>3. \A s \in SUBSET DOMAIN c.required : s # {} /\ at[s \ {Max(s)}] \in Z =>
          at[s] = g[<<at[s \ {Max(s)}], c.required[Max(s)]>>]
    BY <1>4, <2>1, <2>2
  <2> QED
    BY <1>3, <1>4, <2>1, <2>3 DEF Folds
<1> QED
  BY <1>1, <1>7, FoldIn DEF Z

LEMMA AroundIn ==
  ASSUME NEW f, NEW c, NEW selected \in Seq(Excerpts(f)),
         NEW acc \in Seq(Excerpts(f)), NEW k, NEW part, NEW room
  PROVE  Around(f, c, selected, acc, k, part, room) \in Seq(Excerpts(f))
<1> DEFINE pages == IF Covers(f.labels[k[1]], part) THEN Candidates(f, c, part) ELSE {}
           before == AddPage(selected, pages, acc, k[1] - 1)
           after == AddPage(selected, pages, before, k[1] + 1)
<1>1. pages \in SUBSET Written(f)
  BY CandidatesIn
<1>2. Around(f, c, selected, acc, k, part, room) =
        IF before # acc /\ Len(before) >= room THEN before ELSE after
  BY DEF Around
<1> HIDE DEF pages
<1>3. before \in Seq(Excerpts(f))
  BY <1>1, AddPageIn
<1> HIDE DEF before
<1>4. after \in Seq(Excerpts(f))
  BY <1>1, <1>3, AddPageIn
<1> QED
  BY <1>2, <1>3, <1>4

LEMMA AroundAllIn ==
  ASSUME NEW f, NEW c, NEW P, c.required \in Seq(P), NEW selected \in Seq(Excerpts(f)),
         NEW acc \in Seq(Excerpts(f)), NEW j, NEW room
  PROVE  AroundAll(f, c, selected, acc, j, room) \in Seq(Excerpts(f))
<1> DEFINE X == P
           Z == Seq(Excerpts(f))
           Op(a, k) == Around(f, c, selected, a, j, k, room)
           g == [v \in Z \X X |-> Op(v[1], v[2])]
           Eq(it) == it = [s \in SUBSET DOMAIN c.required |->
                             IF s = {} THEN acc
                             ELSE LET x == Max(s) IN Op(it[s \ {x}], c.required[x])]
           at == CHOOSE it : Eq(it)
<1>1. AroundAll(f, c, selected, acc, j, room) = at[DOMAIN c.required]
  BY DEF AroundAll, FoldLeft, MapThenFoldSet
<1>2. ASSUME NEW a \in Z, NEW k \in X PROVE Op(a, k) \in Z
  BY AroundIn
<1>3. acc \in Z /\ c.required \in Seq(X)
  OBVIOUS
<1> HIDE DEF Op, X, Z
<1>4. g \in [Z \X X -> Z] /\ \A a \in Z, k \in X : g[<<a, k>>] = Op(a, k)
  BY <1>2
<1> HIDE DEF g
<1>5. PICK h : Solves(h, c.required, X, Z, acc, g)
  BY <1>3, <1>4, FoldExists
<1>6. Eq(at)
  <2>1. Eq(h)
    BY <1>4, <1>5 DEF Solves
  <2> QED
    BY <2>1
<1> HIDE DEF at
<1>7. Folds(at, c.required, X, Z, acc, g)
  <2>1. at[{}] = acc /\ \A s \in SUBSET DOMAIN c.required : s # {} =>
          at[s] = Op(at[s \ {Max(s)}], c.required[Max(s)])
    BY <1>6
  <2>2. \A s \in SUBSET DOMAIN c.required : s # {} => c.required[Max(s)] \in X
    BY <1>3, GreatestAt
  <2>3. \A s \in SUBSET DOMAIN c.required : s # {} /\ at[s \ {Max(s)}] \in Z =>
          at[s] = g[<<at[s \ {Max(s)}], c.required[Max(s)]>>]
    BY <1>4, <2>1, <2>2
  <2> QED
    BY <1>3, <1>4, <2>1, <2>3 DEF Folds
<1> QED
  BY <1>1, <1>7, FoldIn DEF Z

LEMMA BesideIn ==
  ASSUME NEW f, NEW c, NEW P, c.required \in Seq(P), NEW selected \in Seq(Excerpts(f)),
         NEW anchors \in Seq(Excerpts(f)), NEW room
  PROVE  Beside(f, c, selected, anchors, room) \in Seq(Excerpts(f))
<1> DEFINE X == Excerpts(f)
           Z == Seq(Excerpts(f))
           Op(a, k) == IF Len(a) >= room THEN a ELSE AroundAll(f, c, selected, a, k, room)
           g == [v \in Z \X X |-> Op(v[1], v[2])]
           Eq(it) == it = [s \in SUBSET DOMAIN anchors |->
                             IF s = {} THEN anchors
                             ELSE LET x == Max(s) IN Op(it[s \ {x}], anchors[x])]
           at == CHOOSE it : Eq(it)
<1>1. Beside(f, c, selected, anchors, room) = at[DOMAIN anchors]
  BY DEF Beside, FoldLeft, MapThenFoldSet
<1>2. ASSUME NEW a \in Z, NEW k \in X PROVE Op(a, k) \in Z
  <2>1. AroundAll(f, c, selected, a, k, room) \in Z
    BY AroundAllIn
  <2> QED
    BY <2>1
<1>3. anchors \in Z /\ anchors \in Seq(X)
  OBVIOUS
<1> HIDE DEF Op, X, Z
<1>4. g \in [Z \X X -> Z] /\ \A a \in Z, k \in X : g[<<a, k>>] = Op(a, k)
  BY <1>2
<1> HIDE DEF g
<1>5. PICK h : Solves(h, anchors, X, Z, anchors, g)
  BY <1>3, <1>4, FoldExists
<1>6. Eq(at)
  <2>1. Eq(h)
    BY <1>4, <1>5 DEF Solves
  <2> QED
    BY <2>1
<1> HIDE DEF at
<1>7. Folds(at, anchors, X, Z, anchors, g)
  <2>1. at[{}] = anchors /\ \A s \in SUBSET DOMAIN anchors : s # {} =>
          at[s] = Op(at[s \ {Max(s)}], anchors[Max(s)])
    BY <1>6
  <2>2. \A s \in SUBSET DOMAIN anchors : s # {} => anchors[Max(s)] \in X
    BY <1>3, GreatestAt
  <2>3. \A s \in SUBSET DOMAIN anchors : s # {} /\ at[s \ {Max(s)}] \in Z =>
          at[s] = g[<<at[s \ {Max(s)}], anchors[Max(s)]>>]
    BY <1>4, <2>1, <2>2
  <2> QED
    BY <1>3, <1>4, <2>1, <2>3 DEF Folds
<1> QED
  BY <1>1, <1>7, FoldIn DEF Z

LEMMA EveryPageIn ==
  ASSUME NEW f, SoundFiling(f), NEW selected \in Seq(Excerpts(f)),
         NEW chosen \in Seq(Excerpts(f)), NEW groups \in Seq(SUBSET Written(f)), NEW room
  PROVE  EveryPage(selected, chosen, groups, room) \in Seq(Excerpts(f))
<1> DEFINE X == SUBSET Written(f)
           Z == Seq(Excerpts(f))
           Op(a, k) == AddPages(selected, k, a, room)
           g == [v \in Z \X X |-> Op(v[1], v[2])]
           Eq(it) == it = [s \in SUBSET DOMAIN groups |->
                             IF s = {} THEN chosen
                             ELSE LET x == Max(s) IN Op(it[s \ {x}], groups[x])]
           at == CHOOSE it : Eq(it)
<1>1. EveryPage(selected, chosen, groups, room) = at[DOMAIN groups]
  BY DEF EveryPage, FoldLeft, MapThenFoldSet
<1>2. ASSUME NEW a \in Z, NEW k \in X PROVE Op(a, k) \in Z
  BY AddPagesIn
<1>3. chosen \in Z /\ groups \in Seq(X)
  OBVIOUS
<1> HIDE DEF Op, X, Z
<1>4. g \in [Z \X X -> Z] /\ \A a \in Z, k \in X : g[<<a, k>>] = Op(a, k)
  BY <1>2
<1> HIDE DEF g
<1>5. PICK h : Solves(h, groups, X, Z, chosen, g)
  BY <1>3, <1>4, FoldExists
<1>6. Eq(at)
  <2>1. Eq(h)
    BY <1>4, <1>5 DEF Solves
  <2> QED
    BY <2>1
<1> HIDE DEF at
<1>7. Folds(at, groups, X, Z, chosen, g)
  <2>1. at[{}] = chosen /\ \A s \in SUBSET DOMAIN groups : s # {} =>
          at[s] = Op(at[s \ {Max(s)}], groups[Max(s)])
    BY <1>6
  <2>2. \A s \in SUBSET DOMAIN groups : s # {} => groups[Max(s)] \in X
    BY <1>3, GreatestAt
  <2>3. \A s \in SUBSET DOMAIN groups : s # {} /\ at[s \ {Max(s)}] \in Z =>
          at[s] = g[<<at[s \ {Max(s)}], groups[Max(s)]>>]
    BY <1>4, <2>1, <2>2
  <2> QED
    BY <1>3, <1>4, <2>1, <2>3 DEF Folds
<1> QED
  BY <1>1, <1>7, FoldIn DEF Z

LEMMA EndsIn ==
  ASSUME NEW f, SoundFiling(f), NEW selected \in Seq(Excerpts(f)),
         NEW chosen \in Seq(Excerpts(f)), NEW groups \in Seq(SUBSET Written(f)), NEW last, NEW room
  PROVE  Ends(selected, chosen, groups, last, room) \in Seq(Excerpts(f))
<1> DEFINE X == SUBSET Written(f)
           Z == Seq(Excerpts(f))
           Op(a, k) == IF k = {} THEN a ELSE AddPages(selected, {EndOf(k, last)}, a, room)
           g == [v \in Z \X X |-> Op(v[1], v[2])]
           Eq(it) == it = [s \in SUBSET DOMAIN groups |->
                             IF s = {} THEN chosen
                             ELSE LET x == Max(s) IN Op(it[s \ {x}], groups[x])]
           at == CHOOSE it : Eq(it)
<1>1. Ends(selected, chosen, groups, last, room) = at[DOMAIN groups]
  BY DEF Ends, FoldLeft, MapThenFoldSet
<1>2. ASSUME NEW a \in Z, NEW k \in X PROVE Op(a, k) \in Z
  <2>1. k # {} => {EndOf(k, last)} \in SUBSET Written(f)
    BY EndsWithin DEF EndOf
  <2>2. k # {} => AddPages(selected, {EndOf(k, last)}, a, room) \in Z
    BY <2>1, AddPagesIn
  <2> QED
    BY <2>2
<1>3. chosen \in Z /\ groups \in Seq(X)
  OBVIOUS
<1> HIDE DEF Op, X, Z
<1>4. g \in [Z \X X -> Z] /\ \A a \in Z, k \in X : g[<<a, k>>] = Op(a, k)
  BY <1>2
<1> HIDE DEF g
<1>5. PICK h : Solves(h, groups, X, Z, chosen, g)
  BY <1>3, <1>4, FoldExists
<1>6. Eq(at)
  <2>1. Eq(h)
    BY <1>4, <1>5 DEF Solves
  <2> QED
    BY <2>1
<1> HIDE DEF at
<1>7. Folds(at, groups, X, Z, chosen, g)
  <2>1. at[{}] = chosen /\ \A s \in SUBSET DOMAIN groups : s # {} =>
          at[s] = Op(at[s \ {Max(s)}], groups[Max(s)])
    BY <1>6
  <2>2. \A s \in SUBSET DOMAIN groups : s # {} => groups[Max(s)] \in X
    BY <1>3, GreatestAt
  <2>3. \A s \in SUBSET DOMAIN groups : s # {} /\ at[s \ {Max(s)}] \in Z =>
          at[s] = g[<<at[s \ {Max(s)}], groups[Max(s)]>>]
    BY <1>4, <2>1, <2>2
  <2> QED
    BY <1>3, <1>4, <2>1, <2>3 DEF Folds
<1> QED
  BY <1>1, <1>7, FoldIn DEF Z

LEMMA BoundariesIn ==
  ASSUME NEW f, SoundFiling(f), NEW c, NEW selected \in Seq(Excerpts(f)),
         NEW chosen \in Seq(Excerpts(f)), NEW groups \in Seq(SUBSET Written(f)), NEW room
  PROVE  Boundaries(c, selected, chosen, groups, room) \in Seq(Excerpts(f))
<1> DEFINE one == Ends(selected, chosen, groups, c.ending, room)
           two == Ends(selected, one, groups, ~ c.ending, room)
<1>1. one \in Seq(Excerpts(f))
  BY EndsIn
<1>2. Boundaries(c, selected, chosen, groups, room) = two
  BY DEF Boundaries
<1> HIDE DEF one
<1>3. two \in Seq(Excerpts(f))
  BY <1>1, EndsIn
<1> QED
  BY <1>2, <1>3

LEMMA AnnexurePagesIn ==
  ASSUME NEW f, SoundFiling(f), NEW pages
  PROVE  AnnexurePages(f, pages) \in Seq(SUBSET Written(f))
<1> DEFINE W == (SUBSET Written(f)) \ {{}}
           Part(n) == pages \cap TextPages(f, n)
           S == {Part(n) : n \in Numbered} \ {{}}
           any == SetToSeq(S)
           key == [i \in DOMAIN any |-> Min(any[i])]
<1>1. \A n : Part(n) \in SUBSET Written(f)
  BY DEF TextPages, PagesOf, Written
<1>2. S \in SUBSET W /\ S \in SUBSET {Part("P1"), Part("P2")}
  <2> HIDE DEF Part
  <2> QED
    BY <1>1 DEF Numbered
<1>3. IsFiniteSet(S)
  <2> DEFINE a == Part("P1")
             b == Part("P2")
  <2>1. S \in SUBSET {a, b}
    BY <1>2
  <2> HIDE DEF a, b, S
  <2>2. IsFiniteSet({a})
    BY FS_Singleton
  <2>3. IsFiniteSet({a} \cup {b})
    BY <2>2, FS_AddElement
  <2>4. S \in SUBSET ({a} \cup {b})
    BY <2>1
  <2> QED
    BY <2>3, <2>4, FS_Subset
<1>4. AnnexurePages(f, pages) = Ordered(any, key)
  BY DEF AnnexurePages
<1> HIDE DEF S
<1>5. any \in Seq(S)
  BY <1>3, SetInSequence
<1> HIDE DEF any
<1>6. \A i \in DOMAIN any : any[i] \in W
  BY <1>2, <1>5
<1>7. any \in Seq(SUBSET Written(f))
  <2>1. DOMAIN any = 1..Len(any) /\ Len(any) \in Nat
    BY <1>5
  <2>2. \A i \in 1..Len(any) : any[i] \in SUBSET Written(f)
    BY <1>6, <2>1
  <2>3. any = [i \in 1..Len(any) |-> any[i]]
    BY <1>5
  <2> HIDE DEF W
  <2> QED
    BY <2>1, <2>2, <2>3
<1>8. \A p \in W : Min(p) \in Nat
  <2>1. ASSUME NEW p \in W PROVE Min(p) \in Nat
    <3>1. p \in SUBSET Nat /\ p # {}
      BY PageNumbers DEF Written
    <3>2. Min(p) \in p
      BY <3>1, Least
    <3> QED
      BY <3>1, <3>2
  <2> QED
    BY <2>1
<1>9. \A i \in DOMAIN any : key[i] \in Nat
  BY <1>6, <1>8
<1> HIDE DEF key
<1> QED
  BY <1>4, <1>7, <1>9, OrderedKeeps

LEMMA AddedIn ==
  ASSUME NEW f, SoundFiling(f), NEW c, NEW P, c.required \in Seq(P),
         NEW selected \in Seq(Excerpts(f)), NEW room
  PROVE  Added(f, c, selected, room) \in Seq(Excerpts(f))
<1> DEFINE E == Excerpts(f)
           options == [i \in 1..Len(c.required) |-> Candidates(f, c, c.required[i])]
           anchors == Anchored(f, c, selected, room)
           beside == IF c.strategy = "boundary_and_neighbors"
                     THEN Beside(f, c, selected, anchors, room) ELSE anchors
           whole == IF c.strategy = "exhaustive_part"
                    THEN EveryPage(selected, beside, options, room) ELSE beside
           groups == AnnexurePages(f, UNION Range(options))
           annexures == IF c.each
                        THEN Boundaries(c, selected, whole, groups, room)
                        ELSE whole
           ends == Boundaries(c, selected, annexures, options, room)
           Target(i) == Missing(f, c, <<selected[i]>>) # Range(c.required)
           in == {i \in DOMAIN selected : Target(i)}
           out == {i \in DOMAIN selected : ~ Target(i)}
           target == Kept(selected, in)
           other == Kept(selected, out)
           most == Take(f, c, ends, target, room, "any")
           all == Take(f, c, most, other, room, "any")
<1>0. Added(f, c, selected, room) = IF UNION Range(options) = {} THEN selected ELSE all
  BY DEF Added
<1>a. in \in SUBSET DOMAIN selected /\ out \in SUBSET DOMAIN selected
  OBVIOUS
<1> HIDE DEF in, out, Target
<1>1. options \in Seq(SUBSET Written(f))
  <2>1. Len(c.required) \in Nat
    OBVIOUS
  <2>2. \A i \in 1..Len(c.required) : Candidates(f, c, c.required[i]) \in SUBSET Written(f)
    BY CandidatesIn
  <2> QED
    BY <2>1, <2>2
<1> HIDE DEF options
<1>2. anchors \in Seq(E)
  BY AnchoredIn
<1> HIDE DEF anchors
<1>3. beside \in Seq(E)
  <2>1. Beside(f, c, selected, anchors, room) \in Seq(E)
    BY <1>2, BesideIn
  <2> QED
    BY <1>2, <2>1
<1> HIDE DEF beside
<1>4. whole \in Seq(E)
  <2>1. EveryPage(selected, beside, options, room) \in Seq(E)
    BY <1>1, <1>3, EveryPageIn
  <2> QED
    BY <1>3, <2>1
<1> HIDE DEF whole
<1>5. groups \in Seq(SUBSET Written(f))
  BY AnnexurePagesIn
<1> HIDE DEF groups
<1>6. annexures \in Seq(E)
  <2>1. Boundaries(c, selected, whole, groups, room) \in Seq(E)
    BY <1>4, <1>5, BoundariesIn
  <2> QED
    BY <1>4, <2>1
<1> HIDE DEF annexures
<1>7. ends \in Seq(E)
  BY <1>1, <1>6, BoundariesIn
<1> HIDE DEF ends
<1>8. target \in Seq(E) /\ other \in Seq(E)
  BY <1>a, KeptIn
<1> HIDE DEF target, other, E
<1>9. most \in Seq(E)
  BY <1>7, <1>8, TakeIn
<1> HIDE DEF most
<1>10. all \in Seq(E)
  BY <1>8, <1>9, TakeIn
<1> HIDE DEF all
<1> QED
  BY <1>0, <1>10 DEF E

LEMMA FallbackIn ==
  ASSUME NEW f, SoundFiling(f), NEW c, NEW P, c.required \in Seq(P),
         NEW selected \in Seq(Excerpts(f)), NEW room
  PROVE  Fallback(f, c, selected, room) \in Seq(Excerpts(f))
<1> DEFINE added == Added(f, c, selected, room)
<1>1. added \in Seq(Excerpts(f))
  BY AddedIn
<1>2. Fallback(f, c, selected, room) \in {ByPage(added), selected}
  BY DEF Fallback
<1> HIDE DEF added
<1>3. ByPage(added) \in Seq(Excerpts(f))
  BY <1>1, ByPageIn
<1> QED
  BY <1>2, <1>3

------------------------------------------------------------------------------
(***************************************************************************)
(* Text                                                                    *)
(***************************************************************************)
LEMMA SoundCase ==
  ASSUME case \in Cases
  PROVE  /\ SoundFiling(Filing)
         /\ \A id \in Checks : /\ case.checks[id].required \in Seq(STRING)
                               /\ case.checks[id].look \in Seq(STRING)
<1>1. SoundFiling(Filing)
  BY CasesAssumption DEF SoundFiling, Filing
<1>2. \A id \in Checks : /\ case.checks[id].required \in Seq(STRING)
                         /\ case.checks[id].look \in Seq(STRING)
  BY CasesAssumption DEF Checks
<1> QED
  BY <1>1, <1>2

\* A whole page stands for its pieces, a piece for itself.
AllText(f) == Pages(f) \X (1..Room)

\* A page has as many pieces as its size says, a prompt has room for them.
LEMMA PiecesIn ==
  ASSUME NEW f, SoundFiling(f), NEW p \in Pages(f)
  PROVE  /\ f.size[p] \in 0..Room
         /\ Pieces(f, p) \in SUBSET AllText(f)
         /\ IsFiniteSet(Pieces(f, p)) /\ Cardinality(Pieces(f, p)) <= f.size[p]
<1>1. f.size[p] \in 0..Room /\ Room \in Nat
  BY EvidenceAssumption DEF SoundFiling
<1>2. Pieces(f, p) \in SUBSET AllText(f)
  BY <1>1 DEF Pieces, AllText
<1> DEFINE n == f.size[p]
           g == [k \in 1..n |-> <<p, k>>]
<1>3. g \in Surjection(1..n, Pieces(f, p))
  BY DEF Surjection, Pieces
<1>4. n \in Nat
  BY <1>1
<1> HIDE DEF g, n
<1>5. IsFiniteSet(1..n) /\ Cardinality(1..n) = n
  <2>1. n \in Int /\ 1 \in Int
    BY <1>4
  <2>2. IsFiniteSet(1..n) /\ Cardinality(1..n) = IF 1 > n THEN 0 ELSE n - 1 + 1
    BY <2>1, FS_Interval
  <2> QED
    BY <1>4, <2>2
<1>6. IsFiniteSet(Pieces(f, p)) /\ Cardinality(Pieces(f, p)) <= n
  BY <1>3, <1>5, FS_Surjection
<1> QED
  BY <1>1, <1>2, <1>6 DEF n

LEMMA TextIn ==
  ASSUME NEW f, SoundFiling(f), NEW k \in Excerpts(f)
  PROVE  /\ TextOf(f, k) \in SUBSET AllText(f)
         /\ \E t \in TextOf(f, k) : t[1] = k[1]
         /\ Cost(f, k) \in Nat /\ Cost(f, k) <= Room
<1>1. /\ k[1] \in Pages(f) /\ k[2] \in 0..Room /\ k = <<k[1], k[2]>>
      /\ k[2] = 0 => f.size[k[1]] > 0
  BY DEF Excerpts
<1>r. Room \in Nat \ {0}
  BY EvidenceAssumption
<1>2. CASE k[2] = 0
  <2>1. TextOf(f, k) = Pieces(f, k[1])
    BY <1>2 DEF TextOf
  <2>2. /\ f.size[k[1]] \in 0..Room /\ Pieces(f, k[1]) \in SUBSET AllText(f)
        /\ IsFiniteSet(Pieces(f, k[1])) /\ Cardinality(Pieces(f, k[1])) <= f.size[k[1]]
    BY <1>1, PiecesIn
  <2>3. Cardinality(Pieces(f, k[1])) \in Nat
    BY <2>2, FS_CardinalityType
  <2>4. 1 \in 1..f.size[k[1]]
    BY <1>1, <1>2, <1>r, <2>2
  <2>5. <<k[1], 1>> \in Pieces(f, k[1]) /\ <<k[1], 1>>[1] = k[1]
    BY <2>4 DEF Pieces
  <2>6. Cost(f, k) = Cardinality(Pieces(f, k[1]))
    BY <2>1 DEF Cost
  <2>7. Cost(f, k) <= Room
    BY <1>r, <2>2, <2>3, <2>6
  <2> QED
    BY <2>1, <2>2, <2>3, <2>5, <2>6, <2>7
<1>3. CASE k[2] # 0
  <2>1. TextOf(f, k) = {k}
    BY <1>3 DEF TextOf
  <2>2. k[2] \in 1..Room
    BY <1>1, <1>3, <1>r
  <2>3. k \in AllText(f)
    BY <1>1, <2>2 DEF AllText
  <2>4. Cost(f, k) = 1
    BY <2>1, FS_Singleton DEF Cost
  <2> QED
    BY <1>r, <2>1, <2>3, <2>4
<1> QED
  BY <1>1, <1>2, <1>3

\* The text of what is read shows the pages that were read.
LEMMA PagesRead ==
  ASSUME NEW f, SoundFiling(f), NEW K \in SUBSET Excerpts(f)
  PROVE  \A k \in K : k[1] \in PageSet(SetToSeq(UNION {TextOf(f, j) : j \in K}))
<1> DEFINE text == UNION {TextOf(f, j) : j \in K}
<1>1. text \in SUBSET AllText(f)
  BY TextIn
<1>2. IsFiniteSet(AllText(f))
  <2>1. Room \in Int /\ 1 \in Int
    BY EvidenceAssumption
  <2>2. IsFiniteSet(1..Room)
    BY <2>1, FS_Interval
  <2>3. IsFiniteSet(Pages(f))
    BY PageNumbers
  <2> QED
    BY <2>2, <2>3, FS_Product DEF AllText
<1>3. \A k \in K : TextOf(f, k) \subseteq text
  OBVIOUS
<1> HIDE DEF text
<1>4. IsFiniteSet(text)
  BY <1>1, <1>2, FS_Subset
<1>5. Range(SetToSeq(text)) = text
  BY <1>4, SetInSequence
<1>6. ASSUME NEW k \in K PROVE k[1] \in PageSet(SetToSeq(text))
  <2>1. PICK t \in TextOf(f, k) : t[1] = k[1]
    BY TextIn
  <2>2. t \in Range(SetToSeq(text))
    BY <1>3, <1>5
  <2> QED
    BY <2>1, <2>2 DEF PageSet
<1> QED
  BY <1>6 DEF text

\* Search returns pieces of the filing.
LEMMA SearchIn ==
  ASSUME NEW f, SoundFiling(f), NEW parts, NEW S \in Searches(f, parts)
  PROVE  S \in SUBSET AllText(f)
<1>1. PICK hit : /\ \A part \in parts : hit[part] \in Hits(f, part)
                 /\ S = UNION {hit[part] : part \in parts}
  BY DEF Searches
<1>2. ASSUME NEW part \in parts PROVE hit[part] \in SUBSET AllText(f)
  <2>1. hit[part] \in SUBSET UNION {Pieces(f, p) : p \in PagesOf(f, part)}
    BY <1>1 DEF Hits
  <2>2. PagesOf(f, part) \in SUBSET Pages(f)
    BY DEF PagesOf
  <2> QED
    BY <2>1, <2>2, PiecesIn
<1> QED
  BY <1>1, <1>2

LEMMA RankingIn ==
  ASSUME NEW f, SoundFiling(f), NEW pool \in SUBSET AllText(f), NEW order \in Rankings(pool)
  PROVE  order \in Seq(Excerpts(f))
<1>1. IsFiniteSet(AllText(f))
  <2>1. Room \in Int /\ 1 \in Int
    BY EvidenceAssumption
  <2>2. IsFiniteSet(1..Room)
    BY <2>1, FS_Interval
  <2>3. IsFiniteSet(Pages(f))
    BY PageNumbers
  <2> QED
    BY <2>2, <2>3, FS_Product DEF AllText
<1>2. IsFiniteSet(pool)
  BY <1>1, FS_Subset
<1> DEFINE n == Cardinality(pool)
<1>3. n \in Nat
  BY <1>2, FS_CardinalityType
<1>4. order \in [1..n -> pool]
  BY DEF Rankings, SetToSeqs
<1>5. pool \in SUBSET Excerpts(f)
  <2>1. Room \in Nat
    BY EvidenceAssumption
  <2>2. AllText(f) \in SUBSET Excerpts(f)
    BY <2>1 DEF AllText, Excerpts
  <2> QED
    BY <2>2
<1> HIDE DEF n
<1> QED
  BY <1>3, <1>4, <1>5

\* Complete evidence is the whole of every page with text.
LEMMA CompleteIs ==
  ASSUME NEW f, SoundFiling(f), NEW c
  PROVE  /\ Complete(f, c) \in Seq(Excerpts(f))
         /\ Range(Complete(f, c)) = {<<p, 0>> : p \in CompletePages(f, c)}
<1> DEFINE S == CompletePages(f, c)
           pages == Sorted(S)
<1>1. S \in SUBSET Written(f)
  BY DEF CompletePages, TextPages, PagesOf, Written
<1>2. S \in SUBSET Nat /\ S \in SUBSET Pages(f)
  BY <1>1, PageNumbers DEF Written
<1>6. Complete(f, c) = [i \in 1..Len(pages) |-> <<pages[i], 0>>]
  BY DEF Complete
<1> HIDE DEF S
<1>3. IsFiniteSet(S)
  BY <1>2, PageNumbers, FS_Subset
<1>4. pages \in Seq(S) /\ Range(pages) = S
  BY <1>2, <1>3, SortedHolds
<1> HIDE DEF pages
<1>5. Len(pages) \in Nat /\ DOMAIN pages = 1..Len(pages) /\ \A i \in 1..Len(pages) : pages[i] \in S
  BY <1>4
<1>7. \A p \in S : <<p, 0>> \in Excerpts(f)
  <2>1. 0 \in 0..Room
    BY EvidenceAssumption
  <2> QED
    BY <1>1, <2>1 DEF Excerpts, Written
<1>8. Complete(f, c) \in Seq(Excerpts(f))
  <2>1. \A i \in 1..Len(pages) : <<pages[i], 0>> \in Excerpts(f)
    BY <1>5, <1>7
  <2> QED
    BY <1>5, <1>6, <2>1
<1>9. Range(Complete(f, c)) = {<<p, 0>> : p \in S}
  <2>1. \A p \in S : \E i \in 1..Len(pages) : pages[i] = p
    BY <1>4, <1>5 DEF Range
  <2>2. \A x : x \in Range(Complete(f, c)) <=> \E i \in 1..Len(pages) : x = <<pages[i], 0>>
    BY <1>6 DEF Range
  <2> QED
    BY <1>5, <2>1, <2>2
<1> QED
  BY <1>8, <1>9 DEF S

\* The batches of a sequence are read whole.
ReadInBatches(f, seq) == UNION {Range(Sent(f, b)) : b \in Range(Batches(f, seq))}

LEMMA BatchesRead ==
  ASSUME NEW f, SoundFiling(f), NEW seq \in Seq(Excerpts(f))
  PROVE  Range(seq) \subseteq ReadInBatches(f, seq) /\ ReadInBatches(f, seq) \subseteq Excerpts(f)
<1>1. Room \in Nat /\ \A k \in Excerpts(f) : Cost(f, k) \in Nat /\ Cost(f, k) <= Room
  BY TextIn, EvidenceAssumption
<1>2. \A b \in Range(Batches(f, seq)) : b \in Seq(Excerpts(f)) /\ CostOf(f, b) <= Room
  BY <1>1, BatchesHold
<1>3. \A i \in 1..Len(seq) : \E b \in Range(Batches(f, seq)) : seq[i] \in Range(b)
  BY <1>1, BatchesHold
<1>4. ASSUME NEW b \in Range(Batches(f, seq)) PROVE Sent(f, b) = b
  <2>1. (\A k \in Excerpts(f) : Cost(f, k) \in Nat) /\ b \in Seq(Excerpts(f)) /\ CostOf(f, b) <= Room
    BY <1>1, <1>2
  <2> QED
    BY <1>1, <2>1, SentWhole
<1>5. ReadInBatches(f, seq) = UNION {Range(b) : b \in Range(Batches(f, seq))}
  BY <1>4 DEF ReadInBatches
<1>6. Range(seq) \subseteq ReadInBatches(f, seq)
  <2>1. ASSUME NEW x \in Range(seq) PROVE x \in ReadInBatches(f, seq)
    <3>1. PICK i \in 1..Len(seq) : x = seq[i]
      BY DEF Range
    <3>2. PICK b \in Range(Batches(f, seq)) : seq[i] \in Range(b)
      BY <1>3
    <3> QED
      BY <1>5, <3>1, <3>2
  <2> QED
    BY <2>1
<1>7. ReadInBatches(f, seq) \subseteq Excerpts(f)
  <2>1. ASSUME NEW b \in Range(Batches(f, seq)) PROVE Range(b) \subseteq Excerpts(f)
    <3>1. b \in Seq(Excerpts(f))
      BY <1>2
    <3> QED
      BY <3>1 DEF Range
  <2> QED
    BY <1>5, <2>1
<1> QED
  BY <1>6, <1>7

------------------------------------------------------------------------------
(***************************************************************************)
(* What was read                                                           *)
(***************************************************************************)
\* What PagesInspected and RetryReadsAll ask of one finding.
Inspected(x, row) ==
  x.status = "compliant" =>
    \A part \in Range(row.required) :
      /\ PagesOf(Filing, part) # {}
      /\ MustSee(Filing, row, x.retried, part) \subseteq PageSet(SetToSeq(x.read))
AllRead(x, row) ==
  x.retried =>
    UNION {Pieces(Filing, p) : p \in CompletePages(Filing, row)} \subseteq x.read

RInv ==
  /\ now.step = "ask" => chunks \in Seq(Excerpts(Filing))
  /\ now.step = "retry" => chunks = Complete(Filing, Row)
  /\ \A id \in Checks : /\ Inspected(findings[id], case.checks[id])
                        /\ AllRead(findings[id], case.checks[id])

LEMMA ScopeNeeded ==
  ASSUME NEW r \in Proven, NEW complete, ScopeCoverage(r, complete).status = "compliant"
  PROVE  complete
<1>1. "element_page_not_in_excerpts" \in Gaps /\ r \in Response
  BY DEF Gaps, Sampling, Proven
<1>2. Review(r, "element_page_not_in_excerpts").status = "needs_review"
  BY <1>1, ReviewType
<1> QED
  BY <1>2 DEF ScopeCoverage

\* A finding that finds no defect was allowed to, and keeps what was read.
Published(x, complete, retry, read) ==
  /\ x.status = "compliant" => complete
  /\ x.retried = retry
  /\ x.read = UNION {TextOf(Filing, k) : k \in read}

LEMMA FindingRead ==
  ASSUME NEW r \in Proven, NEW shown, NEW read, NEW retry, NEW complete
  PROVE  Published(Finding(ScopeCoverage(r, complete), shown, read, retry, complete),
                   complete, retry, read)
<1> DEFINE s == ScopeCoverage(r, complete)
           last == LastAnswer(s, shown, complete)
           x == Finding(s, shown, read, retry, complete)
<1>1. s \in Proven
  BY ScopeProven
<1>2. s.status = "compliant" => complete
  BY ScopeNeeded
<1>3. /\ x.status = last.status /\ x.retried = retry
      /\ x.read = UNION {TextOf(Filing, k) : k \in read}
  BY DEF Finding, LastAnswer
<1> HIDE DEF s
<1>4. last.status = "compliant" => last = s
  BY <1>1, LastType
<1> HIDE DEF last, x
<1>5. Published(x, complete, retry, read)
  BY <1>2, <1>3, <1>4 DEF Published
<1> QED
  BY <1>5 DEF x, s

\* The scope is complete only if the pages are among those shown.
LEMMA ScopeShown ==
  ASSUME NEW f, NEW c, NEW seq, NEW retry, ScopeComplete(f, c, seq, retry)
  PROVE  \A part \in Range(c.required) :
           PagesOf(f, part) # {} /\ MustSee(f, c, retry, part) \subseteq PageSet(seq)
BY DEF ScopeComplete

LEMMA InspectedIf ==
  ASSUME SoundFiling(Filing), NEW row, NEW seq, NEW K \in SUBSET Excerpts(Filing),
         Range(seq) \subseteq K, NEW x,
         x.status = "compliant" => ScopeComplete(Filing, row, seq, x.retried),
         x.read = UNION {TextOf(Filing, k) : k \in K}
  PROVE  Inspected(x, row)
<1>1. PageSet(seq) \subseteq PageSet(SetToSeq(x.read))
  <2>1. \A k \in K : k[1] \in PageSet(SetToSeq(x.read))
    BY PagesRead
  <2>2. PageSet(seq) = {k[1] : k \in Range(seq)}
    BY DEF PageSet
  <2> QED
    BY <2>1, <2>2
<1>2. ASSUME x.status = "compliant", NEW part \in Range(row.required)
      PROVE  /\ PagesOf(Filing, part) # {}
             /\ MustSee(Filing, row, x.retried, part) \subseteq PageSet(SetToSeq(x.read))
  BY <1>1, <1>2, ScopeShown
<1> QED
  BY <1>2 DEF Inspected

LEMMA ReadFixed ==
  ASSUME UNCHANGED case
  PROVE  /\ Filing' = Filing /\ Checks' = Checks
         /\ \A x, id : Inspected(x, case.checks[id])' <=> Inspected(x, case.checks[id])
         /\ \A x, id : AllRead(x, case.checks[id])' <=> AllRead(x, case.checks[id])
<1>1. Filing' = Filing /\ Checks' = Checks
  BY DEF Filing, Checks
<1>2. \A x, id : Inspected(x, case.checks[id])' <=> Inspected(x, case.checks[id])
  BY <1>1 DEF Inspected
<1>3. \A x, id : AllRead(x, case.checks[id])' <=> AllRead(x, case.checks[id])
  BY <1>1 DEF AllRead
<1> QED
  BY <1>1, <1>2, <1>3

LEMMA PublishRead ==
  ASSUME RInv, DOMAIN findings = Checks, NEW x, Inspected(x, Row), AllRead(x, Row), Publish(x)
  PROVE  RInv'
<1>1. /\ UNCHANGED case /\ now' = NoCheck
      /\ findings' = [findings EXCEPT ![now.check] = x]
  BY DEF Publish, Idle
<1>2. now'.step = "idle"
  BY <1>1 DEF NoCheck
<1>3. \A id \in Checks : /\ Inspected(findings'[id], case.checks[id])
                         /\ AllRead(findings'[id], case.checks[id])
  BY <1>1 DEF RInv, Row
<1> QED
  BY <1>1, <1>2, <1>3, ReadFixed DEF RInv

\* What publishes nothing.
LEMMA QuietRead ==
  ASSUME RInv, UNCHANGED <<case, findings>>,
         now'.step = "ask" => chunks' \in Seq(Excerpts(Filing)),
         now'.step = "retry" => chunks' = Complete(Filing, case.checks[now'.check])
  PROVE  RInv'
<1>1. Row' = case.checks[now'.check]
  BY DEF Row
<1> QED
  BY <1>1, ReadFixed DEF RInv

LEMMA NotRead ==
  ASSUME NEW x, NEW row, x.status # "compliant", x.retried = FALSE
  PROVE  Inspected(x, row) /\ AllRead(x, row)
BY DEF Inspected, AllRead

\* What a check is shown first.
LEMMA GatherRead ==
  ASSUME case \in Cases, now.check \in Checks, Gather
  PROVE  chunks' \in Seq(Excerpts(Filing))
<1>1. /\ SoundFiling(Filing)
      /\ Row.required \in Seq(STRING) /\ Row.look \in Seq(STRING)
  BY SoundCase DEF Row
<1> DEFINE budget == PageBudget(Filing, Row)
<1>2. CASE chunks' = Fallback(Filing, Row, <<>>, budget)
  <2>1. <<>> \in Seq(Excerpts(Filing))
    OBVIOUS
  <2> HIDE DEF budget
  <2>2. Fallback(Filing, Row, <<>>, budget) \in Seq(Excerpts(Filing))
    BY <1>1, <2>1, FallbackIn
  <2> QED
    BY <1>2, <2>2
<1>3. ASSUME NEW first \in Searches(Filing, Range(Row.look)),
             NEW more \in Searches(Filing, Missing(Filing, Row, SetToSeq(first))),
             NEW order \in Rankings(first \cup more), NEW near \in 1..Ceiling,
             chunks' = Fallback(Filing, Row, Select(Filing, Row, order, budget, near), budget)
      PROVE  chunks' \in Seq(Excerpts(Filing))
  <2>1. first \cup more \in SUBSET AllText(Filing)
    <3>1. first \in SUBSET AllText(Filing)
      BY <1>1, SearchIn
    <3>2. more \in SUBSET AllText(Filing)
      BY <1>1, SearchIn
    <3> QED
      BY <3>1, <3>2
  <2>2. order \in Seq(Excerpts(Filing))
    BY <1>1, <2>1, RankingIn
  <2>3. near \in Nat \ {0}
    BY EvidenceAssumption
  <2> HIDE DEF budget
  <2> DEFINE selected == Select(Filing, Row, order, budget, near)
  <2>4. selected \in Seq(Excerpts(Filing))
    BY <1>1, <2>2, <2>3, SelectIn
  <2> HIDE DEF selected
  <2>5. Fallback(Filing, Row, selected, budget) \in Seq(Excerpts(Filing))
    BY <1>1, <2>4, FallbackIn
  <2> QED
    BY <1>3, <2>5 DEF selected
<1> QED
  BY <1>2, <1>3 DEF Gather

\* Every step keeps what was read and what is to be read.
LEMMA ReadStep ==
  ASSUME OInv, GInv, RInv, [Next]_vars
  PROVE  RInv'
<1>0. /\ case \in Cases /\ DOMAIN findings = Checks
      /\ now # NoCheck => now.check \in Checks /\ now = [check |-> now.check, step |-> now.step]
  BY DEF OInv
<1>s. SoundFiling(Filing)
  BY <1>0, SoundCase
<1>n. now.step \in {"search", "ask", "retry"} => now # NoCheck
  BY DEF NoCheck
<1>q. ASSUME UNCHANGED <<case, findings, now, chunks>> PROVE RInv'
  BY <1>q, QuietRead DEF RInv, Row
<1>1. ASSUME NEW id \in Checks, Begin(id) PROVE RInv'
  <2>1. CASE Absent(id) = {}
    <3>1. UNCHANGED <<case, findings>> /\ now' = [check |-> id, step |-> "search"]
      BY <1>1, <2>1 DEF Begin
    <3>2. now'.step = "search"
      BY <3>1
    <3> QED
      BY <3>1, <3>2, QuietRead
  <2>2. CASE Absent(id) # {}
    <3> DEFINE x == [NoFinding EXCEPT
          !.status = IF Owned(id) = {} THEN "not_applicable" ELSE "defect_found",
          !.by = "manifest", !.parts = Owned(id)]
    <3>1. UNCHANGED <<case, now, chunks>> /\ findings' = [findings EXCEPT ![id] = x]
      BY <1>1, <2>2 DEF Begin
    <3>2. x.status # "compliant" /\ x.retried = FALSE
      BY DEF NoFinding
    <3> HIDE DEF x
    <3>3. Inspected(x, case.checks[id]) /\ AllRead(x, case.checks[id])
      BY <3>2, NotRead
    <3>4. \A i \in Checks : /\ Inspected(findings'[i], case.checks[i])
                            /\ AllRead(findings'[i], case.checks[i])
      BY <1>0, <3>1, <3>3 DEF RInv
    <3>5. Row' = Row
      BY <3>1 DEF Row
    <3> QED
      BY <3>1, <3>4, <3>5, ReadFixed DEF RInv
  <2> QED
    BY <2>1, <2>2
<1>2. CASE Gather
  <2>1. now # NoCheck /\ now' = [now EXCEPT !.step = "ask"] /\ UNCHANGED <<case, findings>>
    BY <1>2, <1>n DEF Gather
  <2>2. now' = [check |-> now.check, step |-> "ask"]
    BY <1>0, <2>1
  <2>3. now'.step = "ask"
    BY <2>2
  <2>4. chunks' \in Seq(Excerpts(Filing))
    BY <1>0, <1>2, <2>1, GatherRead
  <2> QED
    BY <2>1, <2>3, <2>4, QuietRead
<1>3. CASE Ask
  <2> DEFINE complete == /\ ScopeComplete(Filing, Row, chunks, FALSE)
                         /\ ~ Truncated(Filing, chunks)
  <2>1. PICK answer \in Answers :
          LET r == ScopeCoverage(Sanitized(answer, chunks, FALSE), complete)
          IN IF Retries(r)
             THEN /\ now' = [now EXCEPT !.step = "retry"]
                  /\ chunks' = Complete(Filing, Row)
                  /\ left' = Batches(Filing, Complete(Filing, Row))
                  /\ UNCHANGED <<case, findings, answers, run>>
             ELSE Publish(Finding(r, chunks, Range(Sent(Filing, chunks)), FALSE, complete))
    BY <1>3 DEF Ask
  <2>c. now.step = "ask" /\ now # NoCheck
    BY <1>3, <1>n DEF Ask
  <2>t. chunks \in Seq(Excerpts(Filing))
    BY <2>c DEF RInv
  <2>w. complete => /\ ScopeComplete(Filing, Row, chunks, FALSE)
                    /\ ~ Truncated(Filing, chunks)
    OBVIOUS
  <2> HIDE DEF complete
  <2> DEFINE one == Sanitized(answer, chunks, FALSE)
             r == ScopeCoverage(one, complete)
             x == Finding(r, chunks, Range(Sent(Filing, chunks)), FALSE, complete)
  <2>2. one \in Proven
    BY SanitizedGrounds DEF Proven
  <2>3. \/ /\ now' = [now EXCEPT !.step = "retry"]
           /\ chunks' = Complete(Filing, Row) /\ UNCHANGED <<case, findings>>
        \/ Publish(x)
    BY <2>1
  <2> HIDE DEF one
  <2>4. CASE now' = [now EXCEPT !.step = "retry"] /\ chunks' = Complete(Filing, Row)
             /\ UNCHANGED <<case, findings>>
    <3>1. now' = [check |-> now.check, step |-> "retry"]
      BY <1>0, <2>c, <2>4
    <3>2. now'.check = now.check /\ now'.step = "retry"
      BY <3>1
    <3> QED
      BY <2>4, <3>2, QuietRead DEF Row
  <2>5. CASE Publish(x)
    <3> DEFINE K == Range(Sent(Filing, chunks))
    <3>0. Published(x, complete, FALSE, K)
      BY <2>2, FindingRead
    <3> HIDE DEF x, K
    <3>1. /\ x.status = "compliant" => complete
          /\ x.retried = FALSE /\ x.read = UNION {TextOf(Filing, k) : k \in K}
      BY <3>0 DEF Published
    <3>2. AllRead(x, Row)
      BY <3>1 DEF AllRead
    <3>3. Inspected(x, Row)
      <4>1. CASE x.status # "compliant"
        BY <4>1 DEF Inspected
      <4>2. CASE x.status = "compliant"
        <5>1. ScopeComplete(Filing, Row, chunks, FALSE) /\ ~ Truncated(Filing, chunks)
          BY <2>w, <3>1, <4>2
        <5>2. \A k \in Excerpts(Filing) : Cost(Filing, k) \in Nat
          BY <1>s, TextIn
        <5>3. Room \in Nat
          BY EvidenceAssumption
        <5>4. CostOf(Filing, chunks) \in Nat
          BY <2>t, <5>2, CostNat
        <5>5. CostOf(Filing, chunks) <= Room
          BY <5>1, <5>3, <5>4 DEF Truncated
        <5>6. Sent(Filing, chunks) = chunks
          BY <2>t, <5>2, <5>3, <5>5, SentWhole
        <5>7. K = Range(chunks) /\ K \in SUBSET Excerpts(Filing)
          BY <2>t, <5>6 DEF K, Range
        <5>8. x.status = "compliant" => ScopeComplete(Filing, Row, chunks, x.retried)
          BY <3>1, <5>1
        <5> QED
          BY <1>s, <3>1, <5>7, <5>8, InspectedIf
      <4> QED
        BY <4>1, <4>2
    <3> QED
      BY <1>0, <2>5, <3>2, <3>3, PublishRead
  <2> QED
    BY <2>3, <2>4, <2>5
<1>4. CASE AskBatch
  <2> DEFINE complete == ScopeComplete(Filing, Row, chunks, TRUE)
             read == UNION {Range(Sent(Filing, b)) : b \in Range(Batches(Filing, chunks))}
  <2>1. PICK answer \in Answers :
          LET all == Append(answers, Sanitized(answer, Head(left), TRUE))
          IN \/ /\ Len(left) > 1
                /\ answers' = all /\ left' = Tail(left)
                /\ UNCHANGED <<case, findings, now, chunks, run>>
             \/ /\ Len(left) = 1
                /\ \E r \in Aggregates(Range(all)) :
                     Publish(Finding(ScopeCoverage(r, complete), chunks, read, TRUE, complete))
    BY <1>4 DEF AskBatch
  <2>c. now.step = "retry" /\ now # NoCheck
    BY <1>4, <1>n DEF AskBatch
  <2>t. chunks = Complete(Filing, Row)
    BY <2>c DEF RInv
  <2>w. /\ complete => ScopeComplete(Filing, Row, chunks, TRUE)
        /\ read = ReadInBatches(Filing, chunks)
    BY DEF ReadInBatches
  <2> HIDE DEF complete, read
  <2> DEFINE one == Sanitized(answer, Head(left), TRUE)
             all == Append(answers, one)
  <2>2. all \in Seq(Proven)
    <3>1. one \in Proven
      BY SanitizedGrounds DEF Proven
    <3>2. answers \in Seq(Proven)
      BY DEF GInv
    <3> HIDE DEF one
    <3> QED
      BY <3>1, <3>2
  <2>3. CASE UNCHANGED <<case, findings, now, chunks>>
    BY <1>q, <2>3
  <2>4. ASSUME NEW r \in Aggregates(Range(all)),
               Publish(Finding(ScopeCoverage(r, complete), chunks, read, TRUE, complete))
        PROVE  RInv'
    <3>1. Range(all) \in SUBSET Proven
      <4> HIDE DEF all, Proven
      <4> QED  BY <2>2 DEF Range
    <3>2. r \in Proven
      BY <3>1, <2>4, AggregatesProven
    <3> DEFINE x == Finding(ScopeCoverage(r, complete), chunks, read, TRUE, complete)
    <3>0. Published(x, complete, TRUE, read)
      BY <3>2, FindingRead
    <3>4. Publish(x)
      BY <2>4
    <3> HIDE DEF x, all
    <3>3. /\ x.status = "compliant" => complete
          /\ x.retried = TRUE /\ x.read = UNION {TextOf(Filing, k) : k \in read}
      BY <3>0 DEF Published
    <3>5. /\ chunks \in Seq(Excerpts(Filing))
          /\ Range(chunks) = {<<p, 0>> : p \in CompletePages(Filing, Row)}
      BY <1>s, <2>t, CompleteIs
    <3>6. Range(chunks) \subseteq read /\ read \in SUBSET Excerpts(Filing)
      BY <1>s, <2>w, <3>5, BatchesRead
    <3>7. Inspected(x, Row)
      BY <1>s, <2>w, <3>3, <3>6, InspectedIf
    <3>8. AllRead(x, Row)
      <4>1. ASSUME NEW p \in CompletePages(Filing, Row) PROVE Pieces(Filing, p) \subseteq x.read
        <5>1. <<p, 0>> \in read
          BY <3>5, <3>6
        <5>2. TextOf(Filing, <<p, 0>>) = Pieces(Filing, p)
          BY DEF TextOf
        <5> QED
          BY <3>3, <5>1, <5>2
      <4> QED
        BY <4>1 DEF AllRead
    <3> QED
      BY <1>0, <3>4, <3>7, <3>8, PublishRead
  <2> QED
    BY <2>1, <2>3, <2>4
<1>5. CASE Fails
  <2> DEFINE x == [NoFinding EXCEPT !.status = "not_determined", !.by = "error"]
  <2>1. Publish(x)
    BY <1>5 DEF Fails
  <2>2. x.status = "not_determined" /\ x.retried = FALSE
    BY DEF NoFinding
  <2> HIDE DEF x
  <2>3. Inspected(x, Row) /\ AllRead(x, Row)
    BY <2>2, NotRead
  <2> QED
    BY <1>0, <2>1, <2>3, PublishRead
<1>6. CASE End
  BY <1>6, <1>q DEF End
<1>7. CASE UNCHANGED vars
  BY <1>7, <1>q DEF vars
<1> QED
  BY <1>1, <1>2, <1>3, <1>4, <1>5, <1>6, <1>7 DEF Next

LEMMA ReadInit ==
  ASSUME Init
  PROVE  RInv
<1>1. now.step = "idle" /\ NoFinding.status = "none" /\ NoFinding.retried = FALSE
  BY DEF Init, NoCheck, NoFinding
<1>2. \A row : Inspected(NoFinding, row) /\ AllRead(NoFinding, row)
  BY <1>1, NotRead
<1> QED
  BY <1>1, <1>2 DEF Init, RInv

LEMMA ReadAlways ==
  Spec => []RInv
<1>1. Init => OInv /\ GInv /\ RInv
  BY OnceInit, GroundsInit, ReadInit
<1>2. OInv /\ GInv /\ RInv /\ [Next]_vars => (OInv /\ GInv /\ RInv)'
  BY OnceStep, GroundsStep, ReadStep
<1> QED
  BY <1>1, <1>2, PTL DEF Spec

\* A check that finds no defect put every page it must see before the model,
\* whatever search returns, however it is ranked and whatever the budget is.
THEOREM CompliantInspected == Spec => []PagesInspected
<1>1. RInv => PagesInspected
  BY DEF RInv, PagesInspected, Inspected
<1> QED
  BY <1>1, ReadAlways, PTL

\* A retry reads all text of the pages that the check needs: none falls out
\* where the evidence is cut into batches, and no batch outgrows a prompt.
THEOREM RetriesReadAll == Spec => []RetryReadsAll
<1>1. RInv => RetryReadsAll
  BY DEF RInv, RetryReadsAll, AllRead
<1> QED
  BY <1>1, ReadAlways, PTL

=============================================================================
