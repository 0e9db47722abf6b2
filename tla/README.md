# Verification of the Jubeex scrutiny agent

The agent takes paper books filed in the Supreme Court of India, splits and
reads them, stores one record per filing, indexes the pages in Pinecone and
checks the filing against a catalogue of defects ("scrutiny"). Jobs arrive over
HTTP, are queued in SQS and run on ECS workers that share S3, Agent Data (the
store of the filing records), Pinecone and a rate-limited model.

This directory holds TLA+ modules translated from `src/src/extraction_review`,
TLC configurations that check them on small instances, and theorems that TLAPS
checks for every value of the constants. Paths below are relative to that
directory unless they start with `src/`.

Contents: [1 inventory](#1-inventory), [2 modules and code](#2-modules-and-code),
[3 runs](#3-runs), [4 fairness](#4-fairness), [5 proofs](#5-proofs),
[6 findings](#6-findings), [7 not modelled](#7-not-modelled), [8 plan](#8-plan),
[9 running it](#9-running-it).

## 1. Inventory

| Component | Code | State | Operations |
|---|---|---|---|
| Job lease | `job_lease.py` | one S3 object per job: owner, `expires_at`, ETag | `acquire`, `renew`, `release` |
| Job queue and worker | `queue.py`, `worker.py` | SQS message (visible, in flight, receive count, receipt handle), local task, heartbeat | `receive_jobs`, `process_message`, `_visibility_heartbeat`, `_replay_terminal_message`, `extend_job_visibility`, `release_job_visibility`, `delete_job`, SIGTERM |
| Job API and status | `api.py`, `job_progress.py`, `callbacks.py` | in-memory job, status object in S3, callback to the backend | `_accept_process_file` and its siblings, `_run_workflow`, `save_job_status`, `load_job_status`, `notify_job_finished` |
| Model client and shared limiter | `llm.py` | S3 object `next_slot`, `cooldown_until`, `last_429`, count of 429s | reserve a slot, wait, call, publish a cooldown, retry |
| Filing record and vector index | `process_split_files.py`, `vector_store.py`, `api.py` | Agent Data item (whole document), Pinecone vectors by generation | upsert, index, re-index, activate, prune, PATCH |
| Scrutiny | `scrutiny_workflow.py`, `scrutiny/`, `document_parts.py` | plan, findings, tasks, semaphore, abort flag, background save | retrieval, one check with its policies and its retry, `collect_defect_findings`, partial save, final save, `require_successful_checks` |
| Ingestion | `process_file.py`, `process_split_files.py`, `extract_record.py`, `metadata_workflow.py` | files in LlamaCloud, saved parses in S3, hashes and file ids in the record | re-use, upload, parse, cut by page span, store, index, record |
| Split upload, bundle slicing | `process_file.py`, `split_upload.py`, `bundle_slicer.py`, `structure_split.py` | owners of the pages of one bundle, proposals and their evidence | two passes of LlamaSplit, text cues, reconciliation, slicing, ownership check, manifest, review status |
| Split repair and audit | `split_repair.py`, `split_audit.py` | one map from pages to labels | 81 passes in a fixed order, then the audit |
| Annexure index | `annexure_index.py` | none of its own; reads the record and its vectors, asks the model under a semaphore of 4 | `describe_annexures`, `resolve_page_base_id` |
| OCR | `split_ocr.py` | none: batches of pages through a pool of two | `ocr_sparse_pages` |
| Catalogue | `scrutiny/catalogue_db.py`, `scrutiny/rules.py` | cached rows and their revision | load, refresh |
| Batch QA | `batch_qa/` | none: a sequential client of the API | discover, run a case, evaluate, report |
| Artifacts, visual detection | `s3_artifacts.py`, `visual/` | best-effort S3 objects | upload, detect, attach |
| Review UI | `src/ui` | browser state | displays and edits the record through the API |
| Tests, scripts, data | `src/tests`, `src/configs` | | read with the code |

### How they interact

```
backend --POST--> Job API --status object--> S3 <--status, lease-- worker
                     |                                              ^  |
                     +--message--> SQS --receive/extend/delete------+  +--callback--> backend
                                                                       |
                                              workflow: ingestion, index, scrutiny
                                               |            |            |
                                          Agent Data     Pinecone    model <- limiter object in S3
                                               ^
                              reviewer's PATCH and re-index (Job API)
```

Everything crosses process boundaries through five stores, none of which has a
transaction with another: SQS (at-least-once), the lease and limiter objects
(conditional puts), the status object (unconditional puts), Agent Data (whole
documents, no version) and Pinecone (by generation).

### What is hard, and what makes it correct

* **Lease.** Put races, SDK repeats of a put that already landed, clocks of two
  hosts, threads that outlive the task that started them. Correct: no two
  unexpired owners; a superseded owner never writes; nobody is told it lost a
  lease it still has.
* **Queue, worker, status, callback.** Crashes between any two external calls,
  SIGTERM, duplicate deliveries, three timers (heartbeat, visibility, lease), a
  status object that cannot be read or written. Correct: a message disappears
  only after its outcome is stored and delivered; an outcome never changes; one
  worker at a time; every job ends, and one fault does not lose it.
* **Limiter.** Read-compute-put by many workers, cooldowns published while
  others sleep, a sanity bound on the stored slot. Correct: slots an interval
  apart, a bound on the calls in any prefix of time, cooldowns never shortened.
* **Filing record and index.** Jobs hold a copy of the document for minutes and
  write it whole; three stores change in turn. Correct: one record per
  workspace, the active generation is complete, a "current" report really came
  from it, decisions of reviewers survive, vectors do not leak without a reason.
* **Scrutiny.** Concurrent checks, partial saves in the background, an abort
  flag, cancellations that the loop takes for a check's; inside a check, a
  budget of excerpts, batches, sixteen policies that rewrite an answer one
  after the other and a retry that replaces it. Correct: no finding lost, the
  run ends; a defect has grounds, "compliant" means that the pages were read, a
  missing document is reported once, a gap of the sample is followed up.
* **Splitting a bundle.** A model answers twice and may contradict itself or
  the pages; rules propose, judge and undo one another, in a long fixed order.
  Correct: every page ends in a document, what is shown as certain is certain,
  printed evidence is not overruled by weaker evidence, and what an early pass
  settles a later one keeps.
* **Ingestion.** Files, parses, hashes and the record are written by different
  jobs and re-used by later ones; any of the writes can be lost. Correct: the
  text that is indexed for a document is the text of the file that was sent.

`PROJECT.json` lists every hazard with its line and the properties that cover it.

## 2. Modules and code

| Module | Models | Role |
|---|---|---|
| `LeaseLock` | what a lease promises | abstract specification: at most one holder, who must lapse before another is granted |
| `JobLease` | `job_lease.py`, its use in `worker.py:104-128,200-215,259-268` | implements `LeaseLock` |
| `JobPipeline` | `worker.py`, `queue.py`, `api.py`, `job_progress.py`, `callbacks.py` | one job, end to end; its lease implements `LeaseLock` too |
| `RateLimiter` | the shared limiter and one structured request in `llm.py` | |
| `FilingRecord` | `process_split_files.py`, `vector_store.py`, the saves of `scrutiny_workflow.py`, PATCH and re-index of `api.py` | composes jobs of six kinds over one record |
| `ReviewDecision` | the same | a history over `FilingRecord`: the reviewer's decisions and the jobs that read the filing before them |
| `DefectCollection` | the collection loop of `scrutiny_workflow.py` | the inside of `FilingRecord`'s scrutiny job |
| `Evidence` | the selector of `document_parts.py`, the layout fallback and the complete evidence of `scrutiny_workflow.py` | operators: what a check is shown |
| `DefectCheck` | one check of `scrutiny_workflow.py` with the policies of `scrutiny/schema.py` | the inside of `DefectCollection`'s check |
| `BundleSplit` | `prepare_bundle` of `process_file.py`, `bundle_slicer.py` | one bundle, from the two answers of LlamaSplit to slices and a review status |
| `Adjudication` | `structure_split.py` | the reconciliation that `BundleSplit` takes by contract |
| `HeadingRepair`, `IndexRows`, `IndexRepair`, `BackRepair` | the passes of `split_repair.py`, the Index rows of `split_audit.py` | operators: one per pass |
| `SplitAudit` | `audit_compiled_split` of `split_audit.py` | operators |
| `SplitRepair` | `repair_compiled_split` | the 81 passes in their order, then the audit; one of the rules that propose to `Adjudication` |
| `Ingestion` | files, hashes and saved parses in `process_file.py`, `process_split_files.py`, `split_upload.py`, `s3_artifacts.py` | jobs of one filing in sequence |
| `MC...` | constants, cases and symmetry for TLC | |
| `..._proofs` | theorems and proofs | |

The modules compose by interface, not by one large product. `JobPipeline`
uses a lease with a holder and a time left, which is `LeaseLock`
(`UsesLeaseLock`), and `JobLease` shows that the S3 protocol is `LeaseLock`
(checked and proved: `ImplementsLeaseLock`). `FilingRecord` takes one scrutiny
as load, check, a few saves; `DefectCollection` opens that step up, and
`DefectCheck` opens up one check. `BundleSplit` lets reconciliation move up to
`MaxMoves` pages in any way; `Adjudication` says which moves it makes, for
proposals that are arbitrary; `SplitRepair` says what the rules that propose do.

In several modules operators whose comment begins "Seeded fault" stand beside
the definition they alter: plausible mistakes in the same code, with which TLC
finds the properties violated. They are the evidence that each property can fail.

### JobLease
`main[o]` is where the call of `process_message` with owner id `o` is,
`renew[o]` its heartbeat's thread. `lease` is the object with `Absent` for none,
and its body serves as its ETag: S3's ETag is the hash of the body.
The actions follow `acquire` (`Start`, `CreateLands`, `CreateConflict`, `Read*`,
`Steal*`), `renew` (`Renew*`) and `release` (`Release*`). Reading the object,
comparing it with the clock and computing the next stamp is one step, since
nothing but the write that follows is visible to others. A put may land and
raise; the SDK may repeat a put that landed and then report 412. A crash or a cancelled await
leaves the thread's write to land or not. Clocks differ by a constant of at
most `Skew`. `LifecycleExpiry` is the bucket rule that deletes old objects.

### JobPipeline
One tick is one heartbeat (`worker.py:99`: a third of the visibility timeout,
200 s of 600 s), so `Vis = 3` and the lease (720 s) is `LeaseTicks = 4`. `Tick` waits
until each live worker's heartbeat has run and no brief step is pending: this is
the timing assumption of the model, and exactly what the faults `heartbeat`,
`stop` and `crash` break. A step is the code between two awaits. `Persist` and
`Enqueue` are the request; `Receive`, `Acquire`, `Load*`, `Finish`, `Notify`,
`Save`, `Delete` are `process_message`, `Replay*` is
`_replay_terminal_message`, `Cancelled`, `Stop`, `Release`, `Retire` are
cancellation and SIGTERM, `DeadLetter` is SQS's redrive policy.
Ten kinds of fault: `crash`, `stop` (SIGTERM), `heartbeat`, `write` and `read` of the
status object, `callback`, `duplicate` (delivery while in flight), `lease`
(acquire or release raises), `delete`, `enqueue`.

### RateLimiter
`obj` is the limiter object, `tag[c]` the version a caller read and `draft[c]`
what it is about to put. Callers reserve, sleep, look at the cooldown, call,
and on a 429 publish a longer one, each with `MaxTries` rounds of its
conditional put. Puts may be repeated by the SDK (`PutFails`), and a caller may
die with a request still on its way (`MaxGhosts`). All use one clock: S3 objects
carry wall time and the interval is far longer than the skew of hosts. How long a caller
waits between attempts is left open (any time).

### FilingRecord
`store` holds the items of Agent Data for one workspace, `index` the
generations in Pinecone (`none`, `partial`, `complete`), `job[j]` a job's
position and the copy of the document it works on. A write replaces the whole
document. Kinds of jobs: `extract` and `file` (extract, then index), `index`,
`reindex`, `scrutiny`, `edit` (a reviewer's PATCH). `Together` is the set of kinds
the backend lets overlap; a job of another kind starts only when no other runs.
`ReviewDecision` adds what no program variable says: the status that the last
decision gave an item (`decision`), which jobs hold a copy older than it
(`behind`), and whether one of those has put its status in the place of the
decision (`undone`). The history restricts no step (`ObservesFilingRecord`, proved).
The file's content hash is left out: the index-only job keeps the hash of the
extraction, and nothing modelled decides on it.

### DefectCollection
`task[c]` is a check's asyncio task; `completions` is what the tasks have put for the loop,
`abort` the stop-on-error flag, `writes` the background save, `saved` the report in
the store. `stop_on_error` is both TRUE and FALSE, though `run_scrutiny`
passes False today. Only awaits separate steps. A cancellation of the step can
reach the loop while it waits for a completion (`CancelSwallowed`: it is taken for a check's
own cancellation) or later (`CancelLate`: the step ends).

### BundleSplit
`boundary` and `types` are the two answers of LlamaSplit: the first gives page
ranges, the second names for them. Both are arbitrary members of small sets
with gaps, overlaps, disorder and lists of pages that are no ranges (`clean`
false). `text[p]` is the one cue that a page shows. The first answer owns
the pages (`Own`, in the code's order of type, boundary and Index
evidence), the second names the segments, the cues correct names, gaps become
segments of their own, reconciliation moves pages (`Reconcile`), `slices` is what
`slice_bundle_pdf` cuts, and the ownership check, the manifest (`doubtful`) and
`status` follow. One action is one step of `prepare_bundle`.

### Adjudication
`base` is the map from LlamaSplit's segments, `candidate` what a rule proposes,
`map` what has been accepted. `Seed`, then up to `MaxPasses` passes (`Sweep`) judge the
proposal page by page, each page against the map as the pages before it left it;
between passes the rules propose anew (`Fresh`). `seen` stops a cycle; `left`
says that something waits for a review. Then each of `PostStages` proposes once
and is judged once (`NextRule`), with the policy of its kind.
What the text heuristics decide are facts of the bundle (`cue`, `anchor` for the
outer heading of a document, `continues`, `table`), and what a rule or the Index proposes is any label of `RuleLabels` or
`IndexLabels`: this is more than the rules can propose, so what holds here
holds for the rules of the code, whose own tests are not translated. A page that
two agreed ranges share belongs to the later one only, as in `protected_by_page`
(`structure_split.py:1726-1735`). `Limit` is `operation_limit` of the code (500), shared by all the stages.

### SplitRepair and the modules below it
A map is a function from pages to sets of labels. Each pass of
`split_repair.py` is an operator on maps; `Pipeline` in `SplitRepair` is the
order of `repair_compiled_split`, with repeats, and one step of `Next` runs
one pass. A sheet is what the heuristics find on it: the document it opens
(`anchor`), whose caption it carries (`court`: this Court's, a lower one's, both or
none), the exhibit stamped on it
(`stamp`), whether an application begins (`starts`), what the rest reads like
(`body`: prose, a table, an order, an affidavit, a court notice, a state
checklist, a form of the record of proceedings and others), the number printed on it (`folio`), the listed exhibit it matches
(`match`) and the ranges it cites (`cites`). The Index is a table of items from
which `IndexRows` recovers rows, also where scanning lost a range.
The model, before captions of both courts, forms, notices and state checklists
were added to it, was compared with the Python code: books were drawn at random over
the facts, pages with the matching text were written, and
`repair_compiled_split` and `audit_compiled_split` were run on them. The final
maps are equal for 999 of 1,000 books without an Index and about 98 % of 2,400
books with one; the findings of the audit agree wherever the maps do. The rest
are texts in which one sheet has facts that this alphabet cannot tell apart.

### Ingestion
The content of a PDF is a version for each part that is in it: the compiled
petition has them all, the PDF of a slot has one. `files` is what is kept in
LlamaCloud, `saved` the parses in S3 by key, `filing` the record, `index`
what is indexed with the content that the request sent beside it, `split` the
text along which a petition was last cut. A job is one of `extract_only`,
`upload_separate`, `extract_front` and `index_parsed`, and goes through `Submit` (what it may re-use is decided), `Ingest` for each
document, `Parse` (with the artifact saved or lost), `Record` and `Finish`
(indexed); `Split` is the split of the petition of an existing filing, `Edit`
the user. Faults: a job fails or dies between any two steps (`Fail`), an upload's answer
is lost, a saved parse is lost or unreadable, a document cannot be parsed.
`Careful` names habits of the callers and the storage that the code does not
enforce: `linking` (an extraction is linked only to a filing that was not compiled
and has the same documents), `ids` (a request for a compiled filing names the file of
each document), `resending` (when a part of a compiled filing has changed, the
petition is sent again, as a new filing), `names` (a document whose file changes gets a new id),
`storage` (the saved text of a compiled filing stays readable), `books` (the
documents of a compiled filing are not extracted again by an unlinked job: the
parse artifact is stored under the documents alone, `s3_artifacts.py:135-149`,
so a job that dies after it replaces the saved book of the compiled filing).

### Evidence and DefectCheck
`<<p, k>>` is piece `k` of page `p`. What vector search returns and how the
reranker orders it are arbitrary; `Select`, `Fallback` and the batches of
`CompleteEvidence` are functions of that. A check goes `Begin`,
`Gather`, `Ask` and perhaps `AskBatch` (one call for each batch of the complete evidence);
an answer goes through the policies in the code's order (`Sanitized` and `Finding`). `Answers` is every combination of
status, reason, confidence, cited pages, stray quotes and roles that the policies
tell apart. A missing document is settled in `Begin`, by the catalogue row that owns it.
The selector, the fallback and the completeness rule were compared with the
Python functions on 2,700 random filings, with no difference.

## 3. Runs

| Run | Configuration | Shows |
|---|---|---|
| `exclusion` | `JobLease_exclusion.cfg` | exclusion, fencing, honest loss, refinement of `LeaseLock` (1.7 M states) |
| `pipeline_safety` | `JobPipeline_safety.cfg` | the job's life with nine kinds of fault (160 k states) |
| `pacing` | `RateLimiter_pacing.cfg` | spacing, rate, cooldowns (856 k states) |
| `filing_serial` | `FilingRecord_serial.cfg` | the record and its index with six jobs and two faults, a PATCH beside a running scrutiny among them (847 k states) |
| `collect` | `DefectCollection_collect.cfg` | the collection loop (63 k states) |
| `checks` | `DefectCheck_checks.cfg` | twenty filings with their checks, from search to finding (3.6 k states, 694 k steps) |
| `sample` | `DefectCheck_sample.cfg` | finding 1 |
| `certain` | `BundleSplit_certain.cfg` | one bundle, whatever LlamaSplit answers (129 k states) |
| `judge` | `Adjudication_judge.cfg` | whatever the rules and the Index propose (282 k states) |
| `repair` | `SplitRepair_repair.cfg` | the 81 passes and the audit on twenty-one families of books (770 k states) |
| `current` | `Ingestion_current.cfg` | three jobs on one filing, a replaced document and a fault (868 k states) |
| `stale` | `Ingestion_stale.cfg` | finding 2 |

The deadlock check is on in `certain` and `judge`, whose steps must lead to an
end (`Stay`, `Done`). It is off elsewhere because those systems may stop: jobs
end, clocks and bounds are reached.

Each module states a `TypeOK`. The runs list it where a fault of the code
could break it (its parts about bounds and control); in the other modules it
documents the state, and for `FilingRecord` it is proved.

### Bounds and why they are enough

* **exclusion**: two owners (a third adds no conflict that two with repeated
  attempts do not have), lease of 2 ticks with skew 1, so that an expired lease
  looks unexpired to one host and expired to the other; 2 of the rounds of
  acquire; 4 ticks, twice the lease: it can expire, be stolen, and expire
  again. The proofs remove all of these bounds.
* **pipeline_safety**: two workers, up to four faults, maxReceiveCount 5
  (`src/docs/ecs-worker-operations.md:59`). Four faults reach duplicate delivery
  during a replay after a crash after a failed callback. Failed reads of the
  status object are left out: they break `VerdictIsFinal` at once (section 6)
  and would hide everything else. Both URLs are set, as in jobs that the
  backend sends.
* **pacing**: two callers, two attempts, one in-flight request of a dead caller.
  `MaxQueue = 10` is the longest cooldown (4) plus three requests times the
  interval (2): the smallest sanity bound that these can never exceed, so the
  run stays on the near side of the overflow of section 6.
* **filing_serial**: six jobs (one `file`, `extract`, `index`, `reindex`,
  scrutiny and edit) are every pair of kinds in every order; two ids make
  a second record possible, five generations are as many as the jobs can make.
  The scrutiny and the edit overlap in every way, which is what the API
  permits (no lock, `scrutiny_workflow.py:2054-2077`); jobs that extract or index run alone.
  A second scrutiny beside these gives three times as many states and was run apart, with
  the same result (2.7 M states); the theorems are of any number.
  Two faults of crash, failed job, read, write, embed, delete. A failed write
  has no effect here; the failed write that takes effect is in section 6.
* **collect**: four checks on a semaphore of two leave two waiting; one
  cancellation, one failed save, a save after each completion (the most there
  can be; the code saves each time `SCRUTINY_PERSIST_EVERY` are done, 10 by default).
* **checks**: a ceiling of three excerpts, a prompt with room for three pieces
  and pages of up to two pieces, so that selection, truncation and batching all
  leave something out; two hits of a search. The twenty cases of
  `MCDefectCheck` are one for each strategy, rule and gap of the layout that
  the code treats apart, and one filing in which four checks need documents that it
  lacks, two of them with the right to report one.
* **certain**: three pages, two stamped exhibits. Three pages hold a gap, an
  overlap, a page shared by two ranges, a wrong type in the middle and a
  disorder. `LongCover = 2` (the pages a cover may have, 4 in the code) so that a
  range of the instance exceeds it; one moved page.
* **judge**: three pages, so that a page has a run on both sides; seven bundles, in
  one of which two agreed ranges share a page, and four sets of facts; three passes, as in the code; two later rules, one
  for each way in which their evidence is built. `Limit = 6` operations is
  reached by three passes and two rules.
* **repair**: six sheets, three exhibits, two applications. Six is the shortest
  book with a preface, a petition, two exhibits of which one has a second page,
  an application and back matter. Families with and without an Index, with
  stray, doubled, missing and reordered rows, one or several volumes, sworn and
  enclosed papers. Four families are there for the exceptions that the
  properties name, so that each is reached: a lower court's paper that passes
  for a document of the filing (`Mistaken`), for the rest of an affidavit
  (`Attested`) or for the Index of a second volume (`Reopened`), and a petition
  page at which the model starts an exhibit (`Started`). For each, guesses of the model that are one label up to a
  page and another after it. `LeastFolio` (the least number taken for a
  running folio, 10 in the code) is 1, as six sheets carry small numbers.
* **current**: two documents (one comes from the compiled petition), two
  contents of each, one replacement, three jobs (one to make the filing, one after the
  replacement, one to use what that left), one fault.

### What the passing runs show

`LeaseExclusion`, `LostMeansExpired`, `SupersededStaysOut` and
`ImplementsLeaseLock`: the ETag protocol is a lock, under skew and repeats.
`DeletedMeansDelivered`, `VerdictIsFinal`, `RunsAlone`: no
order of crashes, SIGTERMs and failed calls deletes an undelivered job or
changes an outcome. `EveryJobSettles`: a queued job is delivered or reaches
the dead-letter queue. `EveryJobIsDelivered`: one fault that is not a duplicate
delivery never costs the job its delivery when maxReceiveCount is 5. The limit is sharp in two
ways that the model showed while it was written: with maxReceiveCount 3 one ill-timed fault is enough to
dead-letter the job, because the lease (720 s) outlives the visibility timeout
(600 s) and redeliveries bounce off it; and two ill-timed SIGTERMs dead-letter it at 5. A duplicate
delivery alone can do so too: it makes the running worker's receipt handle stale, so that
its extensions and its delete do nothing.

`SlotsSpaced`, `RateBound`, `CooldownNeverShrinks`: as named.
`OneRecord`, `ActiveIsComplete`, `ReportHonest`, `LeaksCounted`,
`DecisionStands`: the record is consistent as long as jobs that extract or index
run alone, while scrutinies and PATCHes overlap. `DecisionStands` says what becomes of a PATCH that meets a
running scrutiny. The scrutiny writes the copy that it read before, and the
decision is lost (`scrutiny_workflow.py:2054`): the run has such states, with `undone`
set. What holds is that nothing else undoes a decision: no job that starts, or is
delivered again, after the PATCH, and no scrutiny that read the filing anew for its
checks after it, whatever fails. `ActiveIsComplete` and
`ReportHonest` exempt the time after a re-index has deleted the vectors
(`Wiped`). `FindingsComplete`, `ReportStored`, `EveryRunEnds`: the collection loop.

`DefectGrounded`: a defect has a quote found on a page, or one of the four
substitutes that the code names. `PagesInspected`: "compliant" means that every
page the check must see was before the model, whatever the budget, the room of
the prompt and the batches dropped. `RetryReadsAll`, `SampleRetried`: a gap of
the sample leads to a retry, and a retry reads every piece of every page of the
required parts. `OnceReported`: of the checks that may report a missing
document exactly one does, in any order.

`EveryPageServed`: no answer of LlamaSplit loses a page or copies it into three
documents, or into two without a claim of the first pass. `ClearMeansCertain`, `RowsAgree`: a
split that is shown without a review is one on which both passes agree.
`HeadingsDecide`: over all the passes and rules, a page that prints an opening
ends under a label that goes with it. `ProtectedHolds`: in each pass, a page
leaves a range on which LlamaSplit agreed with itself (the later one, if two share
the page: the earlier is not protected there) only between two
consecutive stamps, or into a document that opens inside that range or an
exhibit that runs up to it, where "inside" and "up to" are said of the map that
the pass is making. It is a property of steps: once out of the range a page is protected no
more, and the next pass may move it on weaker evidence, so nothing of the kind
holds of the final map (a page nested in an exhibit on the word of the Index may
end in an order; a run with bundle `P1, Main, Main`, the heading of an order on
page 1 and `Order` among the rule labels shows it).

`CourtKept`, `PetitionKept`, `IndexHolds`: what `ForceNesting`, the passes on
the petition and `IndexedAnnexures` settle still holds after the passes behind
them. Each names the exceptions that the code forces, page by page and label by label;
they are the passes that do undo it, and the run has states in which each of
them does. In `CourtKept` a lower court's paper inside an exhibit may become the challenged order
(`split_repair.py:1050-1064`: a judgment with a title needs no missing stamp), and may be
taken for a memo of parties, an Index, the rest of an affidavit or
a paper of representation, each under the condition in `MistakenFor`. In `PetitionKept` the
first petition page may be the start of a bracket, the one page of it that
`Bracketed` does not check (`split_repair.py:5217`), and then has the bracket's label.
`ClearIsWhole`: a book that the audit clears is not torn apart.

`TextIsCurrent`, `HashNamesFile`, `SplitReadsThisPdf`: indexed text, record
and split agree with the files that were sent, as long as the callers keep the
habits in `Careful`. Each habit is needed: without it one of these fails.
Without `resending` that is finding 2. Without `books` it takes five jobs, which
the run has not: the proof of section 5 found it, and a run with `MaxJobs = 5`
shows it.

`LeaksCounted` says how many generations of vectors may be in the index that no
document names, once all jobs have ended: fewer than the faults and the
extractions that replaced the document, each of which leaks at most one.

## 4. Fairness

* **JobPipeline**: weak fairness of the API's two steps, of time, of SQS's
  redrive, and of each worker's next step and heartbeat. A workflow ends
  because `asyncio.timeout` bounds it (`api.py:681`, 5400 s by default); a killed
  process is replaced by ECS (`Restart`); a message becomes visible again
  because SQS counts time. No fairness of faults, and no strong fairness: a
  redelivered message stays visible until it is received.
* **DefectCollection**: weak fairness of the loop, of each check's start and return and
  of the save. Model calls, searches and Agent Data calls have
  timeouts; `asyncio.Semaphore` is FIFO.
* **SplitRepair**: `WF_vars(Next)`: it is one synchronous call. No property
  uses it.
* **JobLease, RateLimiter, FilingRecord** claim no liveness. A lease can be
  re-taken for ever by design, and the limiter's rounds may be exhausted, in
  which case the request fails.
* **BundleSplit, Adjudication, Ingestion, DefectCheck** claim none either: each
  is a sequence of bounded steps (passes, batches, documents), each of which
  ends or fails by a timeout.

## 5. Proofs

All are checked by tlapm 1.4.5 with Z3, Zenon and LS4.

**`RateLimiter`**, in the last part of `Adjudication_proofs`, from
`LimiterAssumption`. `LimiterTypesHold` and
`CooldownKept` (no write shortens the cooldown) hold without condition: a draft is at least
as late as the version it was computed from, and a put lands only on that
version. `Pacing` proves `SlotsSpaced` under `[]QueueBelieved`, the hypothesis
that the stored slot always stays within the sanity bound; without it the
property is false (section 6). `RateIsBounded` (`RateBound`) follows from it under the same
hypothesis and for any number of callers. Calls alone say nothing of the slots that
are held, so `RateInv` counts both: calls made and slots held fit, an interval each,
before the next slot; those not after a slot in the future fit before that one; those that
are due fit until now. That the hypothesis holds for a given
number of callers is left to TLC.

**`FilingRecord_proofs`** from `FilingAssumption`. `TypeCorrect` and
`FlagsAgree` hold for any jobs, **any overlap** and **all faults**, the late
write included, so they do not need the serial backend. `IInv` = `TypeOK`,
`DocsSound` (every document in the store *and every copy a job holds* has
generations that were made, none being built, and a flag that agrees with them),
`BuildersApart` (two jobs never build the same generation), `Grounded` (what a job
remembers suffices for its next step). The flag is only an invariant of the store because it is one of
every copy, and activation can only turn it to "stale" because the generation
it activates is in no document.

The second part of the module says what the order of the jobs adds, each theorem from
the weakest order it needs, as a hypothesis on `Together` (any jobs, ids,
generations and number of faults).
`RecordIsOne` (`OneRecord`) needs that an extraction runs next to no other job,
and then holds for all faults: `RecordInv` = `IInv` + `Ordered` (running jobs
are of kinds that may overlap) + `Creates` (what is about to create the
record has found none, and alone it stays so).
`ActiveComplete` and `ReportsHonest` need that jobs which extract or index run
alone, while scrutinies and PATCHes may overlap, and that no update raises
after it took effect. `ActiveInv` adds `Follows(j)` (a job's copy names
the generation that the record names, so writing the old copy back cannot bring
back a deleted generation; what is activated is complete; what is pruned is not the
active one; a check has met a gap only if a re-index failed before) and
`AllHonest` (each report, stored *or held*, is of the generation it would show as
current for). The honesty of stored reports alone is not inductive: a job
stores the copy that it read long before.
`ReviewerIsKept` (`DecisionStands`) needs no order at all: it holds for any jobs, any
overlap and all faults. `DecisionInv` adds to `IInv` that, until the decision on an item
is undone, the record has its status and so has every copy that is not `behind`. A decision puts all
other copies behind, and a copy leaves that set only by being lost or read again.
`ObservesFilingRecord` shows that the history is one: every behaviour of
`ReviewSpec` is one of `Spec`, so the other theorems speak of
the same runs.
`LeaksAreCounted` (`LeaksCounted`) needs the hypotheses of `ActiveComplete`.
`LeakInv` is `ActiveInv` with a debt: the leaked generations, and one more while
an extraction is about to replace a document that names a generation, are fewer than
the faults and the extractions counted so far. A state that is between two writes owes what its
next one will leak, which is why the count alone is not inductive. The first attempt failed: the
bound then counted the finished extractions only, and an upload job whose
embedding fails replaces the document too (`file`, `index`, then `file` again). TLC
shows that with two upload jobs, so the property now counts both.

**`Ingestion_proofs`** from `IngestionAssumption`, with the habits in force
(`Habits \subseteq Careful`) as the one hypothesis; any documents, number of jobs, faults and
replacements. `IndexedTextIsCurrent` (`TextIsCurrent`), `RecordNamesItsFiles`
(`HashNamesFile`) and `PetitionIsCutByItsText` (`SplitReadsThisPdf`).
The three say what the *end* of a job leaves; the next job starts from it and trusts what it
finds. So `IngestionInv` says what each store may be
trusted for: `SavedInv` (the text of each document in a saved parse is of the
content that its key names), `FilingInv` (the record names the file of the content
that it has the hash of, and the current one unless the document was changed and
nobody has told; its artifact holds the book of the petition it was made
from), and for the job that runs `JobInv` (it reads what the user has now),
`IngestInv` (what it re-uses is current) and `RecordInv` (what it parsed is
current, and stored with the whole of the book). The proof forced the habit `books` and one
assumption: that a filing has documents beside the petition.

**`JobPipeline_proofs`** has two parts, which share `LeaseLock` and no variable.
The first is about `JobLease`, from `LeaseAssumption` only (any set of owners, any
duration, skew, number of rounds).
`LeaseIInv` = `LeaseTypeOK`, `StampsBounded` (no stamp, stored or about to be, is later than
its owner's clock plus the duration), `TagsMeaning` (what the condition of each write in flight says:
absent, run out for every clock, or the writer's own), `SecureStored` (a secure
owner's lease is in the object, at least as long as the owner believes),
`ControlOK` (the heartbeat starts only after the lease is granted).
Exclusion alone is not inductive: a thread that is about to steal knows only
that some body *had* expired, so the invariant must say that the body it compares with
cannot be in the object while someone else is secure. From it: `LeaseTypesHold`,
`Exclusion`, `LossIsReal`, `FencedOut`, and `Refinement`: every step maps to a
grant, a lapse or a stutter of `LeaseLock`.
The second part is about `JobPipeline`, from `PipelineAssumption` (any workers, any visibility
timeout that the lease outlives, any maxReceiveCount, any number of faults).
`ExclusionHolds` (`RunsAlone`) holds for **all ten** kinds of fault. It rests on
time and not on storage: `LInv` = types + `Leased(w)`: a worker that has the
lease is its holder, at most one tick has passed since the last renewal, and if it
has already beaten in this tick, none. Since a lease lasts for more than one
tick, no other worker can take it. `LeaseRefined`: so the pipeline's lease
implements `LeaseLock`, which the first part proves of the S3 protocol: the
two models meet in that module.
The outcome needs more: `OInv` = `Untouched` (before the message is queued nothing
has happened), `Agreed` (status object, inbox and deleted message agree) and
`Knows(w)` (what a worker with the lease remembers is what the object says; it
stays true because, by exclusion, nobody else writes it). From it
`OutcomeIsFinal` (`VerdictIsFinal`), `DeletionIsSafe` (`DeletedMeansDelivered`) and
`TerminalLasts` (`TerminalStays`), under the hypotheses that no failed read of
the status object passes for "no status" and, for the second, that a callback that the
environment names is in the message too. Section 6 shows what happens without
either.

**`DefectCollection_proofs`** from `CollectionAssumption` (any finite set of checks, any
semaphore). `IInv` = `TypeOK`, `CollectedReturned`, `CancelledAborted` (tasks are cancelled only because of an abort, and that only with
`stop_on_error`), `AllEnded`, `SavesForward` (stored within queued within collected). From it all five safety
properties: `NothingLost`, `OneSave`, `WholeReport`, `AbortHolds`, `ReportGrows`.

**`DefectCheck_proofs`** from `CasesAssumption` (any finite filings, any
catalogue rows, any ceiling and room): `DefectsAreGrounded`,
`SamplesAreRetried`, `MissingReportedOnce`, `CompliantInspected`
(`PagesInspected`) and `RetriesReadAll` (`RetryReadsAll`).
The policies are functions that rewrite an answer, one after the other, so the
argument follows the answer: `Response` is the type that each keeps, `Claimed`
is what holds before the grounding policy (a defect comes from the model or
from the margin rule), `HasGrounds` what holds after it, and a lemma for each
policy says which of the two it keeps or turns into the other. `GInv` = the case is one of
`Cases`, the answers collected by a retry have all been through the policies,
and each finding is `Founded` (has grounds) and `Settled` (a gap of the sample was
retried). `OInv` = a finished check has reported exactly the parts that it owns, and a
check that runs lacks none. That every missing part has one owner is a lemma of
its own: the owner comes first in a total order of the checks that may report
the part, and there is a first one because there are finitely many.
For the last two, `RInv` = what is asked is a sequence of `Excerpts` (pieces, or
whole pages that have text), what is retried is the complete evidence, and each
finding is `Inspected` and `AllRead`. Two lemmas carry it: `BatchesHold` (the
batches together hold every chunk, and each fits into a prompt) and `SentWhole`
(of what fits nothing is cut off). They need that a chunk alone fits: the
assumption says so of pages, because the code cuts a longer one into slices
first (`scrutiny_workflow.py:373-409`), which then count as pages here.
Selector, fallback and batches are folds. The community
FoldLeft is a function on the sets of positions still to visit; `Folds`,
`VisitOnce` and `FoldIn` show once, by well-founded induction over numbers, that
such a fold walks along the prefixes, and each fold then has one lemma that
names its invariant. SortSeq and SelectSeq mean nothing to the provers:
`Evidence` writes sorting and filtering as `Ordered` and `Kept`, which say what
the result is.

**`Adjudication_proofs`** from `AdjudicationAssumption` (bundles of any length with any
ranges, overlapping or not, any rules, labels, passes and limit of operations): `TypeCorrect`,
`HeadingsAreKept` (`HeadingsDecide`) and `RangesAreProtected` (`ProtectedHolds`).
A pass is a function by recursion over the pages, each judged on the map as
the pages before left it. `Recursion` shows that such a function exists, and `SweptIn`
what a pass amounts to: a page whose label changed was accepted (`Accepts`) on a map that has
the *final* labels before it and the old ones from it on. From there the
theorems are about one judge: each way in which `SemanticOk` accepts goes with
the heading (`AcceptsHeading`), and each excuse that lets a protected page go
names an opening, an exhibit or two stamps in its neighbourhood (`AcceptsProtected`, with the
lemmas on runs of pages). `HeadingsDecide` is inductive over the passes as it
stands. `ProtectedHolds` was first stated of the final map; the attempt to prove that gave
the counterexample described in section 3.

**`BundleSplit_proofs`** from `BundleAssumption` (bundles of any length, any answers
of the two passes whose clean segments are ranges of pages, any page texts):
`TypeCorrect`, `PagesServed` (`EveryPageServed`), `ClearIsCertain`
(`ClearMeansCertain`) and `StatusAgreesWithRows` (`RowsAgree`).
`IInv` = `TypeOK`, `RangeList` and `Crowds` of the proposals (each is a non-empty set of
pages, and a page is in two of them only if two ranges of the first answer claim
it), `SegmentsSettled` (the same of the segments, and a segment without doubt has
the type that the second pass gives exactly its pages, or the one printed on its
opening page), `Serves(slices)`, "clear" only without `Incomplete`, `RowsAgree`, and
which variables are still empty before which step. None of the three properties is inductive: they
speak of the end of a chain of steps, each of which trusts the one before.
The lemmas follow the pages through that chain. `CutAllRefines`: cutting keeps how
often a page is covered, wherever the cuts are. `TypedIn`, `CorrectedIn` and
`OwnedIs`: the owner of a range, the last by recursion over the ranges.
`InOrderSettles`: sorting loses no segment. For a page on slicing:
`SomeDocument` (a page without a slot is in the remainder), `OneDocument` (a page that no evidence
shares is in one document), `DocumentsWithin` (a shared one is in at most two, one
for each segment on it) and `SliceOfDocument` (the runs of a document divide
its pages). The limit of two is the evidence's: reconciliation may put any
labels on a page, but only the first counts unless the segments on it bear the others out.
The model was changed for this proof, without changing a state: sorting and filtering are `Placed` and `Kept`
instead of SortSeq and SelectSeq, and labels and exhibits are given by what they are
instead of by a fold.

**`SplitRepair_proofs`** from `HeadingAssumption`, `BackAssumption` and
`BooksAssumption` (books of any length, any Index, any stamps, any map of the
model; a label is a value and a folio a number). `TypeCorrect`: maps stay maps
through all 81 passes. A pass that walks the pages is a recursive function, whose
definition the provers have to be shown, so there is one lemma for each of the
22 walks, by well-founded recursion, and one for each pass.
`IndexHeld`: `IndexHolds` in every book with `OneIndex`, which says that an Index
with rows shows its heading on some page, and that all folios belong to one
numbering or the pleadings cite no range. Without the heading the rows
are read only in maps that give a page to the Index, so they may come and go
between two passes. With two numberings a citation is compared with the rows by folio, but its pages are
found by offset, and they may be pages of a row that it does not name. Every
book of the run in which a row owns a page has `OneIndex`, so `repair` checks
`IndexHolds` under the same hypothesis.
The inductive invariant is `Typed` and `RowsKeep`: the pages of the rows have their owners
from pass 77 on, which is where `IndexedAnnexures` ran last, and behind
`Bracketed`, which comes last, their owners or the bracket's label.
`RowReads` is the core of it: with one numbering all the pages of a row, also those whose folio is unreadable,
stand where the row's folios put them, whichever way the code found them (both end folios,
two that agree, or an offset of the neighbours). From it `ClaimsStay`: a citation that
no row disputes shares no page with a row of another label.
The proof led to two corrections of the model. `EndsFit` was missing: both
end folios count only when they lie about as far apart as in print
(`split_repair.py:5533-5566`). And the exception in `IndexHolds` named any page
that is bracketed; it now asks for the label of the bracket. The walks are
recursive functions instead of folds and passes were divided into named parts,
which changes no state.

Each `IInv` was checked with TLC before its proof.

Only model-checked:

* all liveness (`EveryJobSettles`, `EveryJobIsDelivered`, `EveryRunEnds`):
  liveness under fairness and ENABLED are beyond this prover;
* `CourtKept`, `PetitionKept` and `ClearIsWhole` (`SplitRepair`). Each depends on
  what every later pass does to a map, some fifty of them. The run shows them of
  its twenty-one families, with the exceptions above reached; books of three to
  six sheets drawn at random over the facts of a page were run as well, and
  gave the last of the exceptions (`Affidavit`) and then none. For every book they
  are not shown. Each of the ten passes behind the last `Collapse` may
  divide a document: that none does so in a book which the audit then clears is
  what the run shows.

No module uses RECURSIVE operators.

## 6. Findings

1. `sample` (bug). A page is indexed in pieces of some five hundred tokens
   (`parsed_document.py:18`), and one piece that search returned stands for the
   whole page: the fallback adds the stored page only where no piece is there,
   and the completeness rule counts pages. An exhaustive check publishes
   "compliant" although part of a page was never sent to the model, against
   "Do not equate a successful semantic sample with exhaustive inspection"
   (`scrutiny_workflow.py:319`). A retry with complete evidence does not have
   this gap (`RetryReadsAll`).
2. `stale` (bug). An index job of a compiled filing stores the saved book of
   the petition unchanged, also when a document was replaced
   (`process_split_files.py:1679-1683`). The record now has the new hash, so the next
   index job finds that the hash matches and cuts the document's text from the
   petition as it was before the change (`split_upload.py:985-991`), against
   "A matching checksum proves that the prior file id and parse artifact are
   still current" (`process_file.py:3547`).

### Disagreements without a run of their own

For these the property or the fault is in the module, so that a configuration of
a few lines shows them; the others were met while the code was read.

* `ReleasedStaysFree` (`JobLease`): cancelling the heartbeat does not stop the
  thread in `lease.renew`; it can re-arm the lease that `release` has just
  freed, so the message released on SIGTERM is not "immediately retryable"
  (`queue.py:165`).
* `JobPipeline` with `MsgUrl = FALSE`: `_replay_terminal_message` replays the
  callback only if the message itself has a URL (`worker.py:167`), while the first
  attempt also uses `JUBEEX_CALLBACK_URL`; one failed callback is never repeated
  and the message is deleted.
* `JobPipeline` with the fault `read`, `TerminalStays`: `load_job_status` returns None for a failed
  read as for no status (`job_progress.py:151`); a redelivered finished job
  runs again and its terminal status becomes "running".
* `RateLimiter` with three callers and `MaxQueue = 3`: a stored slot more than
  600 s ahead is treated as garbage and the queue is reset (`llm.py:458`); slots are handed out twice.
* A PATCH made while a scrutiny runs is overwritten by its next save
  (`scrutiny_workflow.py:2054-2077`): the states of `filing_serial` in which
  `undone` is set. No doc promises otherwise; `DecisionStands` states how far it goes.
* Agreed ranges that share an edge page (`process_file.py:2275-2277`, `2428`): the
  earlier one is not protected there, and the Index alone may take the page
  from it, since `protected_by_page` keeps one range for a page
  (`structure_split.py:1726-1735`); the last bundle of `MCBundles`.
* `FilingRecord` with the fault `late`: every exception of the activating update, also one raised after
  it took effect, deletes the new generation, which the record then names
  (`process_split_files.py:1517`).
* `ShareIsServed` (`BundleSplit`): a page shared on evidence between exhibits
  of which one is not numbered is refused by the ownership check, which accepts numbered
  slots only (`bundle_slicer.py:833`), and with it the bundle.
* `SpanHasOpening` (`Adjudication`): a pass may accept the later pages of a
  proposed span and refuse its opening (`structure_split.py:1861`). The limit of 500 operations is
  shared by all passes and rules; proposals behind it are never judged.
* `StampHolds` (`SplitRepair`): "Final page labels come from printed headings,
  annexure stamps" (`split_repair.py:1-6`), but `Collapse`
  (`document_parts.py:384`) keeps the first run of a label that the model gave and drops the
  later one that is stamped. "Keep the first contiguous
  run" (`split_repair.py:331`) does not hold for the Appendix, whose pass runs
  behind the last `Collapse`. The last pass, `Bracketed`, overrides pages that the
  Index owns, although the comment before it says that Index spans are reasserted last
  (`FoundLate` in `MCSplitRepair`: an exhibit that the model finds two sheets too late loses them
  to the one before it).
* The audit reports `out_of_sequence` for papers of representation that are
  filed as one document, against `split_audit.py:65-67`; rows that
  `IndexRows` recovers may overlap explicit ones.
* `Ingestion`: after `extract_front` an index job without `edited` takes the
  compiled file's id as the petition's own, against the comment at
  `process_file.py:3516`; `_source_book_payload` may store the first document with text as
  the source book; a linked `extract_only` with a changed document keeps the
  old file id beside the new hash; a lost parse artifact leaves the old key while
  the hashes change; an unlinked extraction of the documents of a compiled filing
  that dies behind `Parse` leaves their saved parse without the petition's book, and the next
  index job stores the text of a slot as the book
  (`process_split_files.py:1679-1701`, `610-618`). The habits in `Careful` exclude these.
* `DefectCheck`: the contradiction policy (`scrutiny/schema.py:1100-1123`) runs
  after the grounding policy and may publish a defect whose quotes were found on
  no page, against `schema.py:1582`; this is why `DefectGrounded` names
  it. A retry in several batches tells the model each time that "Every parsed
  page of each required document part is supplied below" (`prompts.py:1618`),
  and a defect from one batch decides (`scrutiny_workflow.py:412-418`). A failed
  call in a retry discards the usable first answer.
* A report in which every check failed is saved before
  `require_successful_checks` fails the job; and
  `src/docs/ecs-worker-operations.md:130-131` asks for a failed job when a check
  remains failed, while the code and `src/tests/test_scrutiny_completion.py`
  complete a job with one usable check.
* A dead-lettered job's status object stays "running", and so does one whose
  `enqueue_job` failed.
* `src/README.md:76-80` describes an unset `SPLIT_PYTHON_RULES_ENABLED` as
  `llama_only`; the code's default is `guarded` (`process_file.py:162`). Notices are
  demoted and empty pages filled in `llama_only` too, which that file says skips
  semantic reconciliation.

## 7. Not modelled

* **In modelled components**: which job kinds a process polls, malformed
  messages, progress percentages, the mode without SQS, HTTP reads (`JobPipeline`);
  the OpenRouter path, the in-process limiter, vision calls and token accounting
  (`RateLimiter`); parsing, record building and the text of queries (`FilingRecord`);
  applicability of catalogue rows (`DefectCollection`).
* **Text heuristics.** What a regular expression finds on a page is a fact of
  that page: a cue, a caption, a stamp, a folio. The modules say what the code
  does with these facts, not whether the expressions find them.
* **In `SplitRepair` and its modules**: windows of 25, 40 and 48 pages, wider than any book checked; running
  headers and neutral citations in place of a folio; lettered folios of the
  front matter; offsets between volumes; rows of the visual layout; applications listed
  without a number; the generic label `Applications` for pages of an application, with
  the rule that joins them to the one before (`split_repair.py:7091`); what the classifiers said, in the audit. Documents that open on one sheet are taken in
  the expected order. `_apply_strong_index_content_spans` and
  `_preserve_later_llama_annexures` are not called by `repair_compiled_split`.
* **In `BundleSplit` and `Adjudication`**: the renumbering of the slots of
  applications, the PDF library, the prompt that
  guides the second pass, the visual layout; which of a dozen later rules proposes what is
  arbitrary, and two of them stand for all.
* **In `Ingestion`**: jobs of one filing run one after another here
  (`FilingRecord` has those that overlap); downloads and their retry, upload
  locks and semaphores, renewal of expired URLs, polling, the fields that
  LlamaExtract fills, numbering of pages, `verify_document`.
* **In `Evidence` and `DefectCheck`**: the reserve for tables that continue on
  the next page, summary chunks, the index collection, page slices above the
  limit of a prompt, scores (a gap between scores is a prefix of any length);
  confidence is high or low; checks run one after another, as they share nothing.
* **Zombie handlers**: cancelling a task or passing the deadline does not stop
  the workflow engine's handler. How long it goes on is a property of that
  library, and no write of it after a cancel or a crash is modelled in
  `FilingRecord`; nor is a save of `DefectCollection` that lands after it
  was reported failed.
* **Clock drift**: clocks differ by a constant, they do not jump.
* **Components left out**: the annexure index (one prompt per exhibit, one
  failure fails all, no state), OCR (a pool whose failures yield empty text),
  the catalogue (read once at the start of a run), batch QA
  (a sequential client of the API), visual
  detection (I/O around a model), review UI (a client of the API), tests,
  scripts and data, and the field extraction of `extract_record.py`, which is
  regular expressions over page text.

## 8. Plan

Built, in this order: `JobLease` with `LeaseLock`, `JobPipeline`,
`RateLimiter`, `FilingRecord`, `DefectCollection`; then the inside of what
those take as a step: `BundleSplit`, `Adjudication`, `SplitRepair` with its modules,
`Ingestion`, `Evidence` and `DefectCheck`; and the proofs, in eight modules,
of all of these.

What would add most, the most important first:

1. **Proofs about `SplitRepair`**: `PetitionKept`, then `CourtKept`; each is one more lemma per pass.
2. **`Ingestion` with overlapping jobs**: the upload locks and the two jobs of a
   filing that the backend may run at once.
3. **Loopback and polling**: the in-process job mode of `api.py`, and the
   polling loops of `process_file.py` with their deadlines.
4. **Annexure index**: concurrent descriptions of which one failure fails all.

## 9. Running it

`tlc -workers 2 -config <cfg> MC<module>` for the runs (each takes at
most two minutes; `repair` wants 3 GB of memory for speed), `tlapm <module>_proofs.tla` for the proofs (each up to three minutes, `DefectCheck_proofs` about five).
