----------------------------- MODULE FilingRecord -----------------------------
(***************************************************************************)
(* One filing: its Agent Data item, its generations of vectors in          *)
(* Pinecone, and the jobs and requests that change them                    *)
(* (process_split_files.py, scrutiny_workflow.py, api.py).  Every write of *)
(* the item is a whole document made from a copy read earlier: nothing     *)
(* compares versions.  A job runs again from its start when its worker     *)
(* dies (JobPipeline); JobLease keeps one job from running twice at once,  *)
(* but not two jobs of one filing.                                         *)
(*                                                                         *)
(* The file hash is left out: generations and reports take it from the     *)
(* item they are made for.  Vectors are enabled and there is one workspace.*)
(***************************************************************************)
EXTENDS Naturals, FiniteSets

CONSTANTS
  Jobs,       \* jobs and requests
  Kind,       \* Kind[j]: what job j is
  Together,   \* kinds the backend submits without waiting for one another
  MaxIds,     \* bound on Agent Data items
  MaxGen,     \* bound on generations
  Faults,     \* kinds of fault that may happen
  MaxFaults   \* and how many of them

Extracting == {"extract", "file"}    \* _upsert_agent_data; "file" also indexes
Indexing == {"index", "reindex"}     \* job_type index_parsed
Kinds == Extracting \cup Indexing \cup {"scrutiny", "edit"}
FaultKinds == {"crash", "job", "read", "write", "late", "embed", "delete"}

ASSUME FilingAssumption ==
  /\ Kind \in [Jobs -> Kinds] /\ Together \subseteq Kinds
  /\ MaxIds \in Nat \ {0} /\ MaxGen \in Nat
  /\ Faults \subseteq FaultKinds /\ MaxFaults \in Nat

VARIABLES
  store,     \* Agent Data
  index,     \* what of each generation is in Pinecone
  gens,      \* how many generations there have been
  job,       \* where each job is and what it remembers (Job)
  faults

vars == <<store, index, gens, job, faults>>

Ids == 1..MaxIds
NoId == 0
Gens == 1..MaxGen
NoGen == 0

Review == {"pending_review", "approved", "rejected"}
Look == {"nothing", "whole", "gap"}
Report == [gen : Gens \cup {NoGen}, looked : Look]
NoReport == [gen |-> NoGen, looked |-> "nothing"]

\* flag is metadata.scrutiny_report_status, gen metadata.vector_index.
Document == [status : Review, gen : Gens \cup {NoGen}, report : Report,
             flag : {"none", "current", "stale"}]
Absent == [status |-> "absent", gen |-> NoGen, report |-> NoReport,
           flag |-> "none"]

Label == {"new", "wipe", "start", "upsert", "search", "update", "create",
          "save", "embed", "embedding", "activate", "prune", "scrutinise",
          "check", "decide", "done", "failed"}
Ended == {"done", "failed"}

\* asked: the agent_data_id of the event; item: the one it works on; doc: its
\* copy of the document; gen: the generation it builds; prev: the one that
\* replaces; looked: what its checks have found in Pinecone.
Job == [pc : Label, asked : Ids \cup {NoId}, item : Ids \cup {NoId},
        doc : Document \cup {Absent}, gen : Gens \cup {NoGen},
        prev : Gens \cup {NoGen}, looked : Look]
Blank(label, i) ==
  [pc |-> label, asked |-> i, item |-> i, doc |-> Absent, gen |-> NoGen,
   prev |-> NoGen, looked |-> "nothing"]

TypeOK ==
  /\ store \in [Ids -> Document \cup {Absent}]
  /\ index \in [Gens -> {"none", "partial", "complete"}]
  /\ gens \in 0..MaxGen
  /\ job \in [Jobs -> Job]
  /\ faults \in 0..MaxFaults

Init ==
  /\ store = [i \in Ids |-> Absent]
  /\ index = [g \in Gens |-> "none"]
  /\ gens = 0 /\ faults = 0
  /\ job = [j \in Jobs |-> Blank("new", NoId)]

Exists(i) == i # NoId /\ store[i] # Absent
At(j, label) == job[j].pc = label
Running(j) == job[j].pc \notin Ended \cup {"new"}

\* Job j goes on at label with the memory it then has; what ends forgets.
Become(j, label, memory) ==
  job' = [job EXCEPT ![j] = IF label \in Ended THEN Blank(label, NoId)
                            ELSE [memory EXCEPT !.pc = label]]
Goto(j, label) == Become(j, label, job[j])

Write(i, doc) == store' = [store EXCEPT ![i] = doc]
Fault(kind) == kind \in Faults /\ faults < MaxFaults /\ faults' = faults + 1

\* An update that raises: it did not take effect, or it did all the same.
WriteRaises(i, doc) ==
  \/ Fault("write") /\ UNCHANGED store
  \/ Fault("late") /\ Write(i, doc)

\* delete_vector_generation
Remove(g) == index' = [index EXCEPT ![g] = "none"]

------------------------------------------------------------------------------
(***************************************************************************)
(* Submission                                                              *)
(***************************************************************************)
\* The backend waits for the jobs that must not run next to this one.
MayStart(j) ==
  \A k \in Jobs \ {j} : Running(k) => {Kind[j], Kind[k]} \subseteq Together

\* The request checks the filing: it exists, and scrutiny refuses a rejected
\* one if it can read it (prepare_extracted_filing_for_scrutiny).  An
\* extraction may come with no id, or with one that does not exist.
Acceptable(j, i) ==
  \/ Kind[j] \in Extracting /\ UNCHANGED faults
  \/ /\ Kind[j] = "scrutiny" /\ Exists(i)
     /\ \/ store[i].status # "rejected" /\ UNCHANGED faults
        \/ Fault("read")
  \/ Kind[j] \in Indexing \cup {"edit"} /\ Exists(i) /\ UNCHANGED faults

Submit(j) ==
  /\ At(j, "new") /\ MayStart(j)
  /\ \E i \in Ids \cup {NoId} :
       /\ Acceptable(j, i)
       /\ Become(j, IF Kind[j] = "reindex" THEN "wipe" ELSE "start",
                 Blank("new", i))
  /\ UNCHANGED <<store, index, gens>>

\* reindex_filing deletes the workspace's vectors, then queues the job.
Wipe(j) ==
  /\ At(j, "wipe")
  /\ index' = [g \in Gens |-> "none"]
  /\ Goto(j, "start")
  /\ UNCHANGED <<store, gens, faults>>

WipeFails(j) ==
  /\ At(j, "wipe")
  /\ Fault("delete")
  /\ index' \in {index, [g \in Gens |-> "none"]}
  /\ Goto(j, "failed")
  /\ UNCHANGED <<store, gens>>

------------------------------------------------------------------------------
(***************************************************************************)
(* complete_extraction and _upsert_agent_data                              *)
(***************************************************************************)

\* The new document knows nothing of the one it replaces.
Extracted ==
  [status |-> "pending_review", gen |-> NoGen, report |-> NoReport,
   flag |-> "none"]

Extract(j) ==
  /\ At(j, "start") /\ Kind[j] \in Extracting
  /\ Become(j, "upsert", [job[j] EXCEPT !.doc = Extracted])
  /\ UNCHANGED <<store, index, gens, faults>>

\* The requested item is gone or was never given: look for the workspace's.
RequestedMissing(j) ==
  /\ At(j, "upsert") /\ ~Exists(job[j].item)
  /\ Goto(j, "search")
  /\ UNCHANGED <<store, index, gens, faults>>

\* Seeded fault: only the requested item is considered.
Found_Nothing == {}

Found == {i \in Ids : Exists(i)}

Search(j) ==
  /\ At(j, "search")
  /\ \/ Found = {} /\ Goto(j, "create")
     \/ \E i \in Found : Become(j, "update", [job[j] EXCEPT !.item = i])
  /\ UNCHANGED <<store, index, gens, faults>>

AfterUpsert(j) == IF Kind[j] = "file" THEN "embed" ELSE "done"

Upserting(j) ==
  (At(j, "upsert") \/ At(j, "update")) /\ Exists(job[j].item)

Update(j) ==
  /\ Upserting(j)
  /\ Write(job[j].item, job[j].doc)
  /\ Goto(j, AfterUpsert(j))
  /\ UNCHANGED <<index, gens, faults>>

NewId(i) == ~Exists(i) /\ \A k \in Ids : k < i => Exists(k)

Create(j) ==
  /\ At(j, "create")
  /\ \E i \in Ids :
       /\ NewId(i)
       /\ Write(i, job[j].doc)
       /\ Become(j, AfterUpsert(j), [job[j] EXCEPT !.item = i])
  /\ UNCHANGED <<index, gens, faults>>

------------------------------------------------------------------------------
(***************************************************************************)
(* _complete_index_only, _index_split_upload, _activate_vector_generation  *)
(***************************************************************************)
IndexLoad(j) ==
  /\ At(j, "start") /\ Kind[j] \in Indexing
  /\ Become(j, "save", [job[j] EXCEPT !.doc = store[job[j].item]])
  /\ UNCHANGED <<store, index, gens, faults>>

IndexSave(j) ==
  /\ At(j, "save")
  /\ Write(job[j].item, job[j].doc)
  /\ Goto(j, "embed")
  /\ UNCHANGED <<index, gens, faults>>

\* A new uuid and the first batch of its vectors.
Embed(j) ==
  /\ At(j, "embed") /\ gens < MaxGen
  /\ gens' = gens + 1
  /\ index' = [index EXCEPT ![gens + 1] = "partial"]
  /\ Become(j, "embedding", [job[j] EXCEPT !.gen = gens + 1])
  /\ UNCHANGED <<store, faults>>

\* Seeded fault: the batches after the first are not waited for.
Indexed_FirstBatch(g) == UNCHANGED index

Indexed(g) == index' = [index EXCEPT ![g] = "complete"]

Embedded(j) ==
  /\ At(j, "embedding")
  /\ Indexed(job[j].gen)
  /\ Goto(j, "activate")
  /\ UNCHANGED <<store, gens, faults>>

\* A batch fails or the counts differ: the generation is removed if possible.
EmbedFails(j) ==
  /\ At(j, "embedding")
  /\ Fault("embed")
  /\ UNCHANGED index \/ Remove(job[j].gen)
  /\ Goto(j, "failed")
  /\ UNCHANGED <<store, gens>>

Activated(j) ==
  [job[j].doc EXCEPT !.gen = job[j].gen,
                     !.flag = IF job[j].doc.report = NoReport THEN @
                              ELSE "stale"]

Activate(j) ==
  /\ At(j, "activate")
  /\ Write(job[j].item, Activated(j))
  /\ Become(j, "prune", [job[j] EXCEPT !.prev = job[j].doc.gen,
                                       !.doc = Activated(j)])
  /\ UNCHANGED <<index, gens, faults>>

\* "The new generation was never activated": it is removed if possible.
ActivateFails(j) ==
  /\ At(j, "activate")
  /\ WriteRaises(job[j].item, Activated(j))
  /\ UNCHANGED index \/ Remove(job[j].gen)
  /\ Goto(j, "failed")
  /\ UNCHANGED gens

\* Seeded fault: the replaced generation is kept.
Pruned_Kept(g) == UNCHANGED <<index, faults>>

\* A failed deletion is only logged.
Pruned(g) ==
  \/ Remove(g) /\ UNCHANGED faults
  \/ Fault("delete") /\ UNCHANGED index

Prune(j) ==
  /\ At(j, "prune")
  /\ IF job[j].prev = NoGen THEN UNCHANGED <<index, faults>>
                            ELSE Pruned(job[j].prev)
  /\ Goto(j, IF Kind[j] = "file" THEN "done" ELSE "scrutinise")
  /\ UNCHANGED <<store, gens>>

------------------------------------------------------------------------------
(***************************************************************************)
(* run_scrutiny, as a job and after an index job                           *)
(***************************************************************************)
ScrutinyLoad(j) ==
  /\ At(j, "scrutinise") \/ (At(j, "start") /\ Kind[j] = "scrutiny")
  /\ LET doc == store[job[j].item]
     IN  Become(j, IF doc.status = "rejected" THEN "failed" ELSE "check",
                [job[j] EXCEPT !.doc = doc])
  /\ UNCHANGED <<store, index, gens, faults>>

\* A check searches the generation that was active at the start.
Whole(g) == g = NoGen \/ index[g] = "complete"

Check(j) ==
  /\ At(j, "check")
  /\ Become(j, "check",
            [job[j] EXCEPT !.looked = IF Whole(job[j].doc.gen) /\ @ # "gap"
                                      THEN "whole" ELSE "gap"])
  /\ UNCHANGED <<store, index, gens, faults>>

NewReport(j) == [gen |-> job[j].doc.gen, looked |-> job[j].looked]

\* Seeded fault: the report is saved with the status of a new filing.
Reported_Pending(j) ==
  [job[j].doc EXCEPT !.report = NewReport(j), !.flag = "current",
                     !.status = "pending_review"]

\* The document of the start with the report (_persist).
Reported(j) ==
  [job[j].doc EXCEPT !.report = NewReport(j), !.flag = "current"]

\* Every few checks, and at the end.  A failure to save is only logged.
Persist(j) ==
  /\ At(j, "check") /\ job[j].looked # "nothing"
  /\ \/ Write(job[j].item, Reported(j)) /\ UNCHANGED faults
     \/ WriteRaises(job[j].item, Reported(j))
  /\ \E label \in {"check", "done", "failed"} : Goto(j, label)
  /\ UNCHANGED <<index, gens>>

------------------------------------------------------------------------------
(***************************************************************************)
(* update_filing (PATCH)                                                   *)
(***************************************************************************)
EditLoad(j) ==
  /\ At(j, "start") /\ Kind[j] = "edit"
  /\ Become(j, "decide", [job[j] EXCEPT !.doc = store[job[j].item]])
  /\ UNCHANGED <<store, index, gens, faults>>

Decided(j, status) == [job[j].doc EXCEPT !.status = status]

EditSave(j) ==
  /\ At(j, "decide")
  /\ \E status \in Review : Write(job[j].item, Decided(j, status))
  /\ Goto(j, "done")
  /\ UNCHANGED <<index, gens, faults>>

------------------------------------------------------------------------------
(***************************************************************************)
(* Failures                                                                *)
(***************************************************************************)
\* What a job does before it writes can fail (parsing, extraction, a read).
WorkFails(j) ==
  /\ job[j].pc \in {"start", "search", "scrutinise", "check"}
  /\ Fault("job")
  /\ Goto(j, "failed")
  /\ UNCHANGED <<store, index, gens>>

SaveFails(j) ==
  /\ \/ Upserting(j) /\ WriteRaises(job[j].item, job[j].doc)
     \/ At(j, "create") /\ \E i \in Ids : NewId(i) /\ WriteRaises(i, job[j].doc)
     \/ At(j, "save") /\ WriteRaises(job[j].item, job[j].doc)
     \/ /\ At(j, "decide")
        /\ \E status \in Review : WriteRaises(job[j].item, Decided(j, status))
  /\ Goto(j, "failed")
  /\ UNCHANGED <<index, gens>>

\* A worker dies: SQS delivers its job again.  A request dies with its API
\* process.
Crash(j) ==
  /\ Running(j)
  /\ Fault("crash")
  /\ Become(j, IF Kind[j] = "edit" \/ At(j, "wipe") THEN "failed" ELSE "start",
            Blank("start", job[j].asked))
  /\ UNCHANGED <<store, index, gens>>

Step(j) ==
  \/ Submit(j) \/ Wipe(j)
  \/ Extract(j) \/ RequestedMissing(j) \/ Search(j) \/ Update(j) \/ Create(j)
  \/ IndexLoad(j) \/ IndexSave(j) \/ Embed(j) \/ Embedded(j) \/ Activate(j)
  \/ Prune(j) \/ ScrutinyLoad(j) \/ Check(j) \/ Persist(j)
  \/ EditLoad(j) \/ EditSave(j)

Failure(j) ==
  \/ WipeFails(j) \/ EmbedFails(j) \/ ActivateFails(j)
  \/ WorkFails(j) \/ SaveFails(j) \/ Crash(j)

Next == \E j \in Jobs : Step(j) \/ Failure(j)

Spec == Init /\ [][Next]_vars

------------------------------------------------------------------------------
(***************************************************************************)
(* Properties                                                              *)
(***************************************************************************)
\* "Update a matter's stable Agent Data record or create it once": repeated
\* and restarted extractions, with whatever id they were given, find the one
\* record of their workspace.
OneRecord == \A i, k \in Ids : Exists(i) /\ Exists(k) => i = k

\* A re-index has deleted the workspace's vectors and has not made new ones.
Wiped ==
  \E j \in Jobs :
    Kind[j] = "reindex" /\ job[j].pc \notin {"new", "wipe", "prune", "done"}

\* The generation that a filing names as active is completely in Pinecone,
\* wherever an index job dies between embedding, activation and deletion of
\* the previous one; only a re-index deletes it first.
ActiveIsComplete ==
  \A i \in Ids : store[i].gen # NoGen =>
    index[store[i].gen] = "complete" \/ (Wiped /\ index[store[i].gen] = "none")

\* Seeded fault: any stored report counts.
Current_Any(doc) == doc.report # NoReport

\* scrutiny_report_is_current, the status that _filing_out answers with.
Current(doc) ==
  doc.report # NoReport /\ (doc.gen = NoGen \/ doc.report.gen = doc.gen)

\* A report shown as current comes from checks that searched the complete
\* active generation, after any crash of an index or scrutiny job.
ReportHonest ==
  \A i \in Ids : Current(store[i]) /\ store[i].gen # NoGen /\ ~Wiped =>
    store[i].report = [gen |-> store[i].gen, looked |-> "whole"]

\* The stored scrutiny_report_status, set where the report and the active
\* generation are written, is the one that _filing_out computes from them.
FlagAgrees ==
  \A i \in Ids : store[i].report # NoReport =>
    (store[i].flag = "current" <=> Current(store[i]))

\* Extractions that got as far as the document: they ended well, or went on to
\* index before they failed.
Upserted ==
  {j \in Jobs : \/ Kind[j] \in Extracting /\ At(j, "done")
                \/ Kind[j] = "file" /\ At(j, "failed")}

Unused == {g \in Gens : index[g] # "none"} \ {store[i].gen : i \in Ids}

\* Between jobs, the vectors no filing uses any more are at most one
\* generation for each fault and each extraction that replaced a document,
\* which all but the first do.
LeaksCounted ==
  (\A j \in Jobs : ~Running(j)) /\ Unused # {} =>
    Cardinality(Unused) < faults + Cardinality(Upserted)
==============================================================================
