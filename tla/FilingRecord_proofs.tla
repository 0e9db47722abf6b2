-------------------------- MODULE FilingRecord_proofs -------------------------
(***************************************************************************)
(* The record of one filing and its vectors, for any jobs with any faults. *)
(*                                                                         *)
(* The first part is about jobs that overlap in any way: type correctness, *)
(* and that the stored report status is the one that the API computes.     *)
(* FlagAgrees speaks of stored documents, but every write stores a copy    *)
(* that some job made earlier: the invariant is that it holds of every     *)
(* copy, and that the generation a job is still building occurs in no      *)
(* document or report, so that activating it makes any report stale.       *)
(*                                                                         *)
(* The second part is about jobs that wait for one another as far as it    *)
(* matters: there is one record, the generation that it names is complete, *)
(* a report that shows as current comes from checks that searched all of   *)
(* it, and vectors that nobody uses have a reason.  Between them stands a  *)
(* reviewer's decision, for jobs that overlap in any way again.            *)
(***************************************************************************)
EXTENDS ReviewDecision, FiniteSetTheorems, TLAPS

Builds(memory) == memory.pc \in {"embedding", "activate"}

\* The generations that jobs are building.
Building == {job[j].gen : j \in {k \in Jobs : Builds(job[k])}}

\* A document's generations have been made, are complete as far as their job
\* is concerned, and its flag says whether its report is current.
Sound(doc, made, building) ==
  /\ doc.gen <= made /\ doc.report.gen <= made
  /\ doc.gen \notin building /\ doc.report.gen \notin building
  /\ doc.report # NoReport => (doc.flag = "current" <=> Current(doc))

\* Every stored document and every copy is sound.
DocsSound ==
  /\ \A i \in Ids : Sound(store[i], gens, Building)
  /\ \A j \in Jobs : Sound(job[j].doc, gens, Building)

\* No two jobs build the same generation.
BuildersApart ==
  \A j, k \in Jobs :
    j # k /\ Builds(job[j]) /\ Builds(job[k]) => job[j].gen # job[k].gen

\* What a job remembers suffices for its next step: the labels at which it
\* holds a document to write, and those at which its item exists.
Holding == {"upsert", "search", "update", "create", "save", "embed",
            "embedding", "activate", "prune", "check", "decide"}
Placed == {"update", "save", "embed", "embedding", "activate", "prune",
           "scrutinise", "check", "decide"}
Upserts == {"upsert", "search", "update", "create"}

Grounded(j) ==
  /\ job[j].pc \in Holding => job[j].doc \in Document
  /\ job[j].pc \in Placed => Exists(job[j].item)
  /\ Builds(job[j]) => job[j].gen \in 1..gens
  /\ job[j].pc \in Upserts => Kind[j] \in Extracting
  /\ Kind[j] \notin Extracting /\ Running(j) =>
       Exists(job[j].asked) /\ job[j].item = job[j].asked

\* A step stores nothing, or a sound document.
StoresSound ==
  \/ store' = store
  \/ \E i \in Ids, doc \in Document :
       /\ store' = [store EXCEPT ![i] = doc]
       /\ Sound(doc, gens, Building) \/ Sound(doc, gens, Building')

\* A record that still exists after the step.
Kept(i) == i # NoId /\ store'[i] # Absent

\* It makes no generation, and keeps the types of what no document is in.
Typed == [Gens -> {"none", "partial", "complete"}]
RestTyped == gens' = gens /\ index' \in Typed /\ faults' \in 0..MaxFaults

IInv ==
  TypeOK /\ DocsSound /\ BuildersApart /\ \A j \in Jobs : Grounded(j)

------------------------------------------------------------------------------
USE FilingAssumption

\* A document stays sound when a job stops building.
LEMMA SoundSubset ==
  ASSUME NEW doc, NEW made, NEW b, NEW c \in SUBSET b, Sound(doc, made, b)
  PROVE  Sound(doc, made, c)
BY DEF Sound

\* One job moves on and makes no new generation: then all documents stay sound
\* if those that it writes and keeps are, and the other jobs keep their ground.
LEMMA Keeps ==
  ASSUME IInv, NEW j \in Jobs, NEW m \in Job, job' = [job EXCEPT ![j] = m],
         RestTyped, StoresSound,
         Builds(m) => Builds(job[j]) /\ m.gen = job[j].gen,
         \/ m.doc = job[j].doc
         \/ Sound(m.doc, gens, Building) \/ Sound(m.doc, gens, Building'),
         Grounded(j)'
  PROVE  IInv'
<1> USE DEF RestTyped, StoresSound, Typed
<1>1. /\ job \in [Jobs -> Job] /\ job' \in [Jobs -> Job] /\ job'[j] = m
      /\ \A k \in Jobs \ {j} : job'[k] = job[k]
  BY DEF IInv, TypeOK
<1>2. store' \in [Ids -> Document \cup {Absent}]
  BY DEF IInv, TypeOK
<1>3. TypeOK'
  BY <1>1, <1>2 DEF IInv, TypeOK
<1>4. Building' \in SUBSET Building
  BY <1>1 DEF Building
<1>5. \A i \in Ids : Sound(store'[i], gens, Building')
  BY <1>2, <1>4, SoundSubset DEF IInv, DocsSound, TypeOK
<1>6. \A k \in Jobs : Sound(job'[k].doc, gens, Building')
  BY <1>1, <1>4, SoundSubset DEF IInv, DocsSound
<1>7. DocsSound'
  BY <1>5, <1>6 DEF DocsSound
<1>8. BuildersApart'
  BY <1>1 DEF IInv, BuildersApart
<1>9. \A i : Exists(i) /\ i \in Ids => Exists(i)'
  <2>1. Absent \notin Document
    BY DEF Absent, Document, Review
  <2> QED
    BY <2>1 DEF Exists, IInv, TypeOK
<1>10. ASSUME NEW k \in Jobs \ {j} PROVE Grounded(k)'
  <2>1. Grounded(k) /\ job[k] \in Job /\ job'[k] = job[k]
    BY <1>1 DEF IInv
  <2>2. job[k].item \in Ids \cup {NoId} /\ job[k].asked \in Ids \cup {NoId}
    BY <2>1 DEF Job
  <2>3. Exists(job[k].item) => Exists(job[k].item)'
    BY <1>9, <2>1, <2>2 DEF Exists
  <2>4. Exists(job[k].asked) => Exists(job[k].asked)'
    BY <1>9, <2>1, <2>2 DEF Exists
  <2> QED
    BY <2>1, <2>3, <2>4 DEF Grounded, Builds, Running
<1> QED
  BY <1>3, <1>7, <1>8, <1>10 DEF IInv

\* A document that does not exist has no generation that a job could build.
LEMMA AbsentSound == IInv => Sound(Absent, gens, Building)
<1> SUFFICES ASSUME IInv PROVE Sound(Absent, gens, Building)
  OBVIOUS
<1>1. NoGen \notin Building
  BY DEF IInv, Grounded, Building, NoGen
<1> QED
  BY <1>1 DEF IInv, TypeOK, Sound, Absent, NoReport, NoGen

\* Where a job is after Become.
LEMMA Moves ==
  ASSUME TypeOK, NEW j \in Jobs, NEW memory \in Job, NEW label \in Label \ Ended,
         Become(j, label, memory)
  PROVE  /\ [memory EXCEPT !.pc = label] \in Job
         /\ job' = [job EXCEPT ![j] = [memory EXCEPT !.pc = label]]
BY DEF Become, Job

LEMMA Blanks ==
  ASSUME NEW label \in Label, NEW i \in Ids \cup {NoId}
  PROVE  Blank(label, i) \in Job
BY DEF Blank, Job, NoGen, Look

\* A job that ends, well or not, after a sound write at most.
LEMMA Ends ==
  ASSUME IInv, NEW j \in Jobs, NEW label \in Ended, NEW memory,
         Become(j, label, memory),
         RestTyped, StoresSound
  PROVE  IInv'
<1> DEFINE m == Blank(label, NoId)
<1>1. m \in Job
  BY Blanks DEF Ended, Label, NoId
<1>2. job' = [job EXCEPT ![j] = m]
  BY DEF Become
<1>3. m.doc = Absent /\ m.pc = label
  BY DEF Blank
<1>4. Grounded(j)'
  <2>1. job'[j] = m
    BY <1>1, <1>2 DEF IInv, TypeOK
  <2> QED
    BY <1>3, <2>1 DEF Grounded, Running, Ended, Holding, Placed, Upserts, Builds
<1>5. ~Builds(m)
  BY <1>3 DEF Builds, Ended
<1> HIDE DEF m
<1> QED
  BY <1>1, <1>2, <1>3, <1>4, <1>5, AbsentSound, Keeps

------------------------------------------------------------------------------
\* What an extraction stores has no report and no generation.
LEMMA ExtractedSound ==
  IInv => Extracted \in Document /\ Sound(Extracted, gens, Building)
<1> SUFFICES ASSUME IInv
             PROVE  Extracted \in Document /\ Sound(Extracted, gens, Building)
  OBVIOUS
<1>1. Sound(Absent, gens, Building)
  BY AbsentSound
<1> QED
  BY <1>1 DEF Sound, Absent, Extracted, Document, Report, NoReport, NoGen,
     Review, Look

\* A scrutiny's report names the generation of the document it is added to, so
\* it is current as its flag says (_persist).
LEMMA ReportedSound ==
  ASSUME IInv, NEW j \in Jobs, job[j].doc \in Document
  PROVE  Reported(j) \in Document /\ Sound(Reported(j), gens, Building)
<1>1. Sound(job[j].doc, gens, Building) /\ job[j].looked \in Look
  BY DEF IInv, DocsSound, TypeOK, Job
<1> QED
  BY <1>1 DEF Sound, Reported, NewReport, Document, Report, Current

\* A decision changes neither the report nor the flag (update_filing).
LEMMA DecidedSound ==
  ASSUME IInv, NEW j \in Jobs, job[j].doc \in Document, NEW status \in Review
  PROVE  Decided(j, status) \in Document /\ Sound(Decided(j, status), gens, Building)
<1>1. Sound(job[j].doc, gens, Building)
  BY DEF IInv, DocsSound
<1> QED
  BY <1>1 DEF Sound, Decided, Document, Current

\* A report that a document already has was made for another generation than
\* the one that job j activates: "stale" is right (_activate_vector_generation).
LEMMA ActivatedSound ==
  ASSUME IInv, NEW j \in Jobs, At(j, "activate"),
         NEW m, job' = [job EXCEPT ![j] = m], ~Builds(m)
  PROVE  Activated(j) \in Document /\ Sound(Activated(j), gens, Building')
<1> DEFINE g == job[j].gen
<1>a. Sound(job[j].doc, gens, Building) /\ g \in Gens \cup {NoGen}
  BY DEF IInv, DocsSound, TypeOK, Job
<1>b. job[j].doc \in Document /\ g \in 1..gens
  BY DEF IInv, At, Grounded, Holding, Builds
<1>c. g \in Building
  BY DEF At, Builds, Building
<1>1. /\ Sound(job[j].doc, gens, Building)
      /\ job[j].doc \in Document
      /\ g \in 1..gens /\ g \in Gens \cup {NoGen} /\ g \in Building
  BY <1>a, <1>b, <1>c
<1>2. Activated(j) \in Document
  BY <1>1 DEF Activated, Document
<1>3. g \notin Building' /\ Building' \in SUBSET Building
  BY DEF IInv, TypeOK, Building, BuildersApart, Builds, At
<1>4. /\ Activated(j).gen = g /\ Activated(j).report = job[j].doc.report
      /\ job[j].doc.report # NoReport => Activated(j).flag = "stale"
  BY <1>1 DEF Activated, Document
<1>5. job[j].doc.report.gen # g /\ g # NoGen
  BY <1>1 DEF Sound, NoGen
<1> QED
  BY <1>1, <1>2, <1>3, <1>4, <1>5 DEF Sound, Current

\* A write that raises has stored the sound document, or nothing.
LEMMA Raised ==
  ASSUME IInv, NEW i \in Ids, NEW doc \in Document, Sound(doc, gens, Building),
         WriteRaises(i, doc)
  PROVE  faults' \in 0..MaxFaults /\ StoresSound
BY DEF StoresSound, WriteRaises, Fault, Write, IInv, TypeOK

\* A job that goes on, after a sound write at most, with a sound document, and
\* builds a generation only if it did so before.
LEMMA GoesOn ==
  ASSUME IInv, NEW j \in Jobs, NEW label \in Label \ Ended, NEW memory \in Job,
         Become(j, label, memory),
         RestTyped, StoresSound,
         label \in {"embedding", "activate"} =>
           Builds(job[j]) /\ memory.gen = job[j].gen,
         \/ memory.doc = job[j].doc
         \/ Sound(memory.doc, gens, Building)
         \/ Sound(memory.doc, gens, Building'),
         label \in Holding => memory.doc \in Document,
         label \in Placed => Kept(memory.item),
         label \in Upserts => Kind[j] \in Extracting,
         Kind[j] \notin Extracting =>
           Kept(memory.asked) /\ memory.item = memory.asked
  PROVE  IInv'
<1> DEFINE m == [memory EXCEPT !.pc = label]
<1>1. m \in Job /\ job' = [job EXCEPT ![j] = m]
  BY Moves DEF IInv
<1>2. /\ m.pc = label /\ m.doc = memory.doc /\ m.gen = memory.gen
      /\ m.item = memory.item /\ m.asked = memory.asked
  BY DEF Job
<1>3. job'[j] = m
  BY <1>1 DEF IInv, TypeOK
<1> HIDE DEF m
<1>4. Builds(m) => Builds(job[j]) /\ m.gen = job[j].gen
  BY <1>2 DEF Builds
<1>5. Builds(m) => m.gen \in 1..gens
  BY <1>4 DEF IInv, Grounded
<1>6. Grounded(j)'
  BY <1>2, <1>3, <1>5 DEF RestTyped, Grounded, Builds, Running, Exists, Kept
<1> QED
  BY <1>1, <1>2, <1>4, <1>6, Keeps

\* The memory of a job, and what it can rely on.
LEMMA Memory ==
  ASSUME IInv, NEW j \in Jobs
  PROVE  /\ job[j] \in Job /\ Grounded(j)
         /\ job[j].item \in Ids \cup {NoId} /\ job[j].asked \in Ids \cup {NoId}
         /\ Sound(job[j].doc, gens, Building)
         /\ index \in Typed
         /\ faults \in 0..MaxFaults /\ gens \in 0..MaxGen
BY DEF IInv, TypeOK, Job, DocsSound, Typed

\* A stored document that exists is one, and sound.
LEMMA StoredSound ==
  ASSUME IInv, NEW i \in Ids \cup {NoId}, Exists(i)
  PROVE  i \in Ids /\ store[i] \in Document /\ Sound(store[i], gens, Building)
BY DEF IInv, TypeOK, DocsSound, Exists

\* Removing a generation leaves an index.
LEMMA Removed ==
  ASSUME index \in Typed, NEW g, Remove(g)
  PROVE  index' \in Typed
BY DEF Remove, Typed

LEMMA SubmitStep == ASSUME IInv, NEW j \in Jobs, Submit(j) PROVE IInv'
<1>1. PICK i \in Ids \cup {NoId} :
        /\ Acceptable(j, i)
        /\ Become(j, IF Kind[j] = "reindex" THEN "wipe" ELSE "start",
                  Blank("new", i))
  BY DEF Submit
<1> DEFINE label == IF Kind[j] = "reindex" THEN "wipe" ELSE "start"
<1> DEFINE memory == Blank("new", i)
<1>2. memory \in Job /\ label \in Label \ Ended
  BY Blanks DEF Label, Ended
<1>3. memory.doc = Absent /\ memory.item = i /\ memory.asked = i
  BY DEF Blank
<1>4. faults' \in 0..MaxFaults /\ index' = index /\ store' = store /\ gens' = gens
  BY <1>1 DEF Submit, Acceptable, Fault, IInv, TypeOK
<1>5. Kind[j] \notin Extracting => Kept(i)
  BY <1>1, <1>4 DEF Acceptable, Exists, Kept
<1>6. label \in {"wipe", "start"} /\ Become(j, label, memory)
  BY <1>1
<1>7. index' \in Typed
  BY <1>4, Memory
<1>8. Sound(memory.doc, gens, Building)
  BY <1>3, AbsentSound
<1> HIDE DEF label, memory
<1> QED
  BY <1>2, <1>3, <1>4, <1>5, <1>6, <1>7, <1>8, GoesOn
     DEF Holding, Placed, Upserts, RestTyped, StoresSound

\* Records are only ever added and replaced, so what a job relies on stays.
LEMMA Footing ==
  ASSUME IInv, NEW j \in Jobs, StoresSound
  PROVE  /\ \A i \in Ids \cup {NoId} : Exists(i) => Kept(i)
         /\ Kind[j] \notin Extracting /\ Running(j) =>
              Kept(job[j].asked) /\ job[j].item = job[j].asked
         /\ job[j].pc \in Placed => job[j].item \in Ids /\ Kept(job[j].item)
<1>1. \A i \in Ids \cup {NoId} : Exists(i) => i \in Ids /\ Kept(i)
  <2>1. Absent \notin Document
    BY DEF Absent, Document, Review
  <2> QED
    BY <2>1 DEF Exists, Kept, StoresSound, IInv, TypeOK
<1> QED
  BY <1>1, Memory DEF Grounded

\* A job that goes on with the memory it has.
LEMMA Proceeds ==
  ASSUME IInv, NEW j \in Jobs, Running(j), NEW label \in Label \ Ended,
         Goto(j, label), RestTyped, StoresSound,
         label \in {"embedding", "activate"} => Builds(job[j]),
         label \in Holding => job[j].pc \in Holding,
         label \in Placed => job[j].pc \in Placed,
         label \in Upserts => Kind[j] \in Extracting
  PROVE  IInv'
<1>1. label \in Holding => job[j].doc \in Document
  BY Memory DEF Grounded
<1>2. label \in Placed => Kept(job[j].item)
  BY Footing
<1>3. Kind[j] \notin Extracting =>
        Kept(job[j].asked) /\ job[j].item = job[j].asked
  BY Footing
<1>4. job[j] \in Job
  BY Memory
<1> QED
  BY <1>1, <1>2, <1>3, <1>4, GoesOn DEF Goto

LEMMA WipeStep == ASSUME IInv, NEW j \in Jobs, Wipe(j) \/ WipeFails(j) PROVE IInv'
<1>1. RestTyped /\ StoresSound
  BY Memory DEF Wipe, WipeFails, Fault, RestTyped, StoresSound, Typed
<1>2. CASE Goto(j, "start") /\ At(j, "wipe")
  BY <1>1, <1>2, Proceeds
     DEF At, Running, Label, Ended, Holding, Placed, Upserts
<1>3. CASE Goto(j, "failed")
  BY <1>1, <1>3, Ends DEF Ended, Goto
<1> QED
  BY <1>2, <1>3 DEF Wipe, WipeFails

\* Storing a sound document, or failing to, is a sound step.
LEMMA Stores ==
  ASSUME NEW i \in Ids, NEW doc \in Document, Sound(doc, gens, Building),
         Write(i, doc)
  PROVE  StoresSound
BY DEF Write, StoresSound

LEMMA ExtractStep ==
  ASSUME IInv, NEW j \in Jobs, Extract(j) \/ RequestedMissing(j) \/ Search(j)
  PROVE  IInv'
<1>1. RestTyped /\ StoresSound /\ Running(j) /\ store' = store
  BY Memory DEF Extract, RequestedMissing, Search, RestTyped, StoresSound,
     At, Running, Ended
<1>2. CASE Extract(j)
  <2> DEFINE memory == [job[j] EXCEPT !.doc = Extracted]
  <2>1. memory \in Job /\ memory.doc = Extracted
    BY Memory, ExtractedSound DEF Job
  <2>2. "upsert" \in Label \ Ended
    BY DEF Label, Ended
  <2>3. Kind[j] \in Extracting /\ Become(j, "upsert", memory)
    BY <1>2 DEF Extract
  <2> HIDE DEF memory
  <2> QED
    BY <1>1, <2>1, <2>2, <2>3, ExtractedSound, GoesOn DEF Placed
<1>3. CASE RequestedMissing(j) \/ (Search(j) /\ Goto(j, "create"))
  <2>1. PICK label \in {"search", "create"} : Goto(j, label)
    BY <1>3 DEF RequestedMissing
  <2>2. Kind[j] \in Extracting /\ job[j].pc \in Holding
    BY <1>3, Memory DEF RequestedMissing, Search, At, Grounded, Upserts, Holding
  <2>3. label \in Label \ Ended /\ label \notin Placed
        /\ label \notin {"embedding", "activate"}
    BY <2>1 DEF Label, Ended, Placed
  <2> QED
    BY <1>1, <2>1, <2>2, <2>3, Proceeds
<1>4. ASSUME NEW i \in Found, Search(j),
             Become(j, "update", [job[j] EXCEPT !.item = i])
      PROVE  IInv'
  <2> DEFINE memory == [job[j] EXCEPT !.item = i]
  <2>1. memory \in Job /\ memory.item = i /\ memory.doc = job[j].doc
    BY <1>4, Memory DEF Job, Found
  <2>2. Kind[j] \in Extracting /\ job[j].doc \in Document
    BY <1>4, Memory DEF Search, At, Grounded, Upserts, Holding
  <2>3. "update" \in Label \ Ended
    BY DEF Label, Ended
  <2>4. Kept(i)
    BY <1>1, <1>4 DEF Found, Kept, Exists
  <2>5. Become(j, "update", memory)
    BY <1>4
  <2> HIDE DEF memory
  <2> QED
    BY <1>1, <2>1, <2>2, <2>3, <2>4, <2>5, GoesOn
<1> QED
  BY <1>2, <1>3, <1>4 DEF Search

LEMMA UpsertStep ==
  ASSUME IInv, NEW j \in Jobs, Update(j) \/ Create(j)
  PROVE  IInv'
<1>1. /\ job[j].doc \in Document /\ Sound(job[j].doc, gens, Building)
      /\ Kind[j] \in Extracting /\ RestTyped
  BY Memory DEF Update, Upserting, Create, At, Grounded, Holding, Upserts,
     RestTyped
<1>2. PICK i \in Ids :
        /\ Write(i, job[j].doc)
        /\ Become(j, AfterUpsert(j), [job[j] EXCEPT !.item = i])
  <2>1. CASE Update(j)
    <3>1. job[j].item \in Ids
      BY <2>1, Memory, StoredSound DEF Update, Upserting
    <3>2. [job[j] EXCEPT !.item = job[j].item] = job[j]
      BY Memory DEF Job
    <3> QED
      BY <2>1, <3>1, <3>2 DEF Update, Goto
  <2>2. CASE Create(j)
    BY <2>2 DEF Create
  <2> QED
    BY <2>1, <2>2
<1> DEFINE memory == [job[j] EXCEPT !.item = i]
<1>3. memory \in Job /\ memory.item = i /\ memory.doc = job[j].doc
  BY Memory DEF Job
<1>4. StoresSound
  BY <1>1, <1>2, Stores
<1>5. Kept(i)
  BY <1>1, <1>2 DEF Write, Kept, NoId, Ids, Document, Absent, Review, IInv, TypeOK
<1>6. CASE AfterUpsert(j) = "done"
  BY <1>1, <1>2, <1>4, <1>6, Ends DEF Ended
<1>7. CASE AfterUpsert(j) = "embed"
  <2>1. "embed" \in Label \ Ended /\ Become(j, "embed", memory)
    BY <1>2, <1>7 DEF Label, Ended
  <2> HIDE DEF memory
  <2> QED
    BY <1>1, <1>3, <1>4, <1>5, <2>1, GoesOn DEF Upserts
<1> QED
  BY <1>6, <1>7 DEF AfterUpsert

\* An index job, a scrutiny and an edit start from the stored document.
LEMMA LoadStep ==
  ASSUME IInv, NEW j \in Jobs, IndexLoad(j) \/ ScrutinyLoad(j) \/ EditLoad(j)
  PROVE  IInv'
<1>1. /\ RestTyped /\ StoresSound /\ Running(j)
      /\ job[j].pc \in {"start", "scrutinise"}
  BY Memory DEF IndexLoad, ScrutinyLoad, EditLoad, RestTyped, StoresSound, At,
     Running, Ended
<1>2. Exists(job[j].item)
  <2>1. job[j].pc = "start" => Kind[j] \notin Extracting
    BY DEF IndexLoad, ScrutinyLoad, EditLoad, At, Indexing, Extracting
  <2> QED
    BY <1>1, <2>1, Memory DEF Grounded, Placed
<1> DEFINE doc == store[job[j].item]
<1> DEFINE memory == [job[j] EXCEPT !.doc = doc]
<1>3. doc \in Document /\ Sound(doc, gens, Building)
  BY <1>2, Memory, StoredSound
<1>4. /\ memory \in Job /\ memory.doc = doc
      /\ memory.item = job[j].item /\ memory.asked = job[j].asked
  BY <1>3, Memory DEF Job
<1>5. PICK label \in {"save", "check", "decide", "failed"} : Become(j, label, memory)
  BY DEF IndexLoad, ScrutinyLoad, EditLoad
<1>6. Kept(job[j].item)
  BY <1>1, <1>2, Memory, Footing
<1>7. Kind[j] \notin Extracting =>
        Kept(job[j].asked) /\ job[j].item = job[j].asked
  BY <1>1, Footing
<1> HIDE DEF doc, memory
<1>8. CASE label = "failed"
  BY <1>1, <1>5, <1>8, Ends DEF Ended
<1>9. CASE label # "failed"
  <2>1. label \in Label \ Ended /\ label \notin Upserts
        /\ label \notin {"embedding", "activate"}
    BY <1>5, <1>9 DEF Label, Ended, Upserts
  <2> QED
    BY <1>1, <1>3, <1>4, <1>5, <1>6, <1>7, <2>1, GoesOn
<1> QED
  BY <1>8, <1>9

\* The steps that store what the job holds or a decision about it.
LEMMA SaveStep ==
  ASSUME IInv, NEW j \in Jobs, IndexSave(j) \/ EditSave(j)
  PROVE  IInv'
<1>1. /\ job[j].doc \in Document /\ Sound(job[j].doc, gens, Building)
      /\ job[j].item \in Ids /\ RestTyped /\ Running(j)
  BY Memory, StoredSound DEF IndexSave, EditSave, At, Grounded, Holding, Placed,
     RestTyped, Running, Ended
<1>2. CASE IndexSave(j)
  <2>1. StoresSound
    BY <1>1, <1>2, Stores DEF IndexSave
  <2>2. "embed" \in Label \ Ended
    BY DEF Label, Ended
  <2> QED
    BY <1>1, <1>2, <2>1, <2>2, Proceeds
       DEF IndexSave, At, Holding, Placed, Upserts
<1>3. CASE EditSave(j)
  <2>1. PICK status \in Review : Write(job[j].item, Decided(j, status))
    BY <1>3 DEF EditSave
  <2>2. StoresSound
    BY <1>1, <2>1, DecidedSound, Stores
  <2> QED
    BY <1>1, <1>3, <2>2, Ends DEF EditSave, Goto, Ended
<1> QED
  BY <1>2, <1>3

\* Checks and their reports.
LEMMA CheckStep ==
  ASSUME IInv, NEW j \in Jobs, Check(j) \/ Persist(j)
  PROVE  IInv'
<1>1. /\ At(j, "check") /\ Running(j) /\ job[j].doc \in Document
      /\ job[j].item \in Ids
      /\ Kind[j] \notin Extracting => job[j].item = job[j].asked
  BY Memory, StoredSound DEF Check, Persist, At, Grounded, Holding, Placed,
     Running, Ended
<1>2. RestTyped
  BY Memory DEF Check, Persist, WriteRaises, Fault, RestTyped
<1>3. "check" \in Label \ Ended /\ "check" \notin Upserts
  BY DEF Label, Ended, Upserts
<1>4. CASE Check(j)
  <2> DEFINE look == IF Whole(job[j].doc.gen) /\ job[j].looked # "gap"
                     THEN "whole" ELSE "gap"
  <2> DEFINE memory == [job[j] EXCEPT !.looked = look]
  <2>1. /\ memory \in Job /\ memory.doc = job[j].doc
        /\ memory.item = job[j].item /\ memory.asked = job[j].asked
    BY Memory DEF Job, Look
  <2>2. Become(j, "check", memory) /\ StoresSound
    BY <1>4 DEF Check, StoresSound
  <2>3. Kept(job[j].item)
    BY <1>1, <2>2, Footing DEF At, Placed
  <2>4. Kind[j] \notin Extracting => Kept(job[j].asked)
    BY <1>1, <2>2, Footing
  <2> HIDE DEF memory
  <2> QED
    BY <1>1, <1>2, <1>3, <2>1, <2>2, <2>3, <2>4, GoesOn
<1>5. CASE Persist(j)
  <2>1. StoresSound
    <3>1. Reported(j) \in Document /\ Sound(Reported(j), gens, Building)
      BY <1>1, ReportedSound
    <3> QED
      BY <1>1, <1>5, <3>1, Stores, Raised DEF Persist
  <2>2. CASE Goto(j, "check")
    BY <1>1, <1>2, <1>3, <2>1, <2>2, Proceeds DEF At
  <2>3. CASE Goto(j, "done") \/ Goto(j, "failed")
    BY <1>2, <2>1, <2>3, Ends DEF Goto, Ended
  <2> QED
    BY <1>5, <2>2, <2>3 DEF Persist
<1> QED
  BY <1>4, <1>5

\* A new generation is in no document yet.
LEMMA EmbedStep == ASSUME IInv, NEW j \in Jobs, Embed(j) PROVE IInv'
<1> DEFINE memory == [job[j] EXCEPT !.gen = gens + 1]
<1> DEFINE m == [memory EXCEPT !.pc = "embedding"]
<1>1. /\ gens < MaxGen /\ gens' = gens + 1 /\ gens \in 0..MaxGen
      /\ index' = [index EXCEPT ![gens + 1] = "partial"]
      /\ store' = store /\ faults' = faults
  BY Memory DEF Embed
<1>2. gens + 1 \in Gens
  BY <1>1 DEF Gens
<1>3. m \in Job /\ job' = [job EXCEPT ![j] = m]
  <2>1. memory \in Job
    BY <1>2, Memory DEF Job
  <2>2. "embedding" \in Label \ Ended
    BY DEF Label, Ended
  <2>3. Become(j, "embedding", memory)
    BY DEF Embed
  <2> HIDE DEF memory
  <2> QED
    BY <2>1, <2>2, <2>3, Moves DEF IInv
<1>4. /\ m.pc = "embedding" /\ m.gen = gens + 1 /\ m.doc = job[j].doc
      /\ m.item = job[j].item /\ m.asked = job[j].asked
  BY Memory DEF Job
<1>5. job'[j] = m /\ \A k \in Jobs \ {j} : job'[k] = job[k]
  BY <1>3 DEF IInv, TypeOK
<1> HIDE DEF m
<1>6. TypeOK'
  <2>1. job' \in [Jobs -> Job] /\ gens' \in 0..MaxGen
    BY <1>1, <1>3 DEF IInv, TypeOK
  <2> QED
    BY <1>1, <2>1 DEF IInv, TypeOK
<1>7. Building' \subseteq Building \cup {gens + 1}
  BY <1>4, <1>5 DEF Building
<1>8. ASSUME NEW doc, doc.gen \in Nat, doc.report.gen \in Nat,
             Sound(doc, gens, Building)
      PROVE  Sound(doc, gens', Building')
  BY <1>1, <1>7, <1>8 DEF Sound
<1>9. DocsSound'
  <2>1. ASSUME NEW doc \in Document \cup {Absent}
        PROVE  doc.gen \in Nat /\ doc.report.gen \in Nat
    BY DEF Document, Absent, Report, NoReport, Gens, NoGen
  <2>2. \A i \in Ids : store[i] \in Document \cup {Absent}
    BY DEF IInv, TypeOK
  <2>3. \A k \in Jobs : job[k].doc \in Document \cup {Absent}
    BY Memory DEF Job
  <2>4. \A k \in Jobs : job'[k].doc = job[k].doc
    BY <1>4, <1>5
  <2>5. \A i \in Ids : Sound(store[i], gens', Building')
    BY <1>8, <2>1, <2>2 DEF IInv, DocsSound
  <2>6. \A k \in Jobs : Sound(job[k].doc, gens', Building')
    BY <1>8, <2>1, <2>3 DEF IInv, DocsSound
  <2> QED
    BY <1>1, <2>4, <2>5, <2>6 DEF DocsSound
<1>10. BuildersApart'
  <2>1. \A k \in Jobs : Builds(job[k]) => job[k].gen \in 1..gens
    BY Memory DEF Grounded
  <2> QED
    BY <1>1, <1>4, <1>5, <2>1 DEF IInv, BuildersApart
<1>11. ASSUME NEW k \in Jobs PROVE Grounded(k)'
  <2>1. /\ Grounded(k) /\ job'[k].doc = job[k].doc
        /\ job'[k].item = job[k].item /\ job'[k].asked = job[k].asked
    BY <1>4, <1>5, Memory
  <2>2. CASE k = j
    <3>1. At(j, "embed")
      BY DEF Embed
    <3> QED
      BY <1>1, <1>4, <1>5, <2>1, <2>2, <3>1 DEF Grounded, Builds, Running,
         Exists, At, Holding, Placed, Upserts, Ended
  <2>3. CASE k # j
    BY <1>1, <1>5, <2>1, <2>3 DEF Grounded, Builds, Running, Exists
  <2> QED
    BY <2>2, <2>3
<1> QED
  BY <1>6, <1>9, <1>10, <1>11 DEF IInv

LEMMA EmbeddedStep ==
  ASSUME IInv, NEW j \in Jobs, Embedded(j) \/ EmbedFails(j)
  PROVE  IInv'
<1>1. StoresSound /\ At(j, "embedding") /\ Running(j)
  BY DEF Embedded, EmbedFails, StoresSound, At, Running, Ended
<1>2. RestTyped
  <2>1. index' \in Typed
    BY Memory, Removed DEF Embedded, Indexed, EmbedFails, Typed
  <2> QED
    BY <2>1, Memory DEF Embedded, EmbedFails, Fault, RestTyped
<1>3. CASE Goto(j, "activate")
  <2>1. "activate" \in Label \ Ended
    BY DEF Label, Ended
  <2> QED
    BY <1>1, <1>2, <1>3, <2>1, Proceeds
       DEF At, Builds, Holding, Placed, Upserts
<1>4. CASE Goto(j, "failed")
  BY <1>1, <1>2, <1>4, Ends DEF Goto, Ended
<1> QED
  BY <1>3, <1>4 DEF Embedded, EmbedFails

\* The activating update, whether it raises or not, and the deletion of the
\* generation that it replaces.
LEMMA ActivateStep ==
  ASSUME IInv, NEW j \in Jobs, Activate(j) \/ ActivateFails(j)
  PROVE  IInv'
<1>1. /\ At(j, "activate") /\ Running(j) /\ job[j].doc \in Document
      /\ job[j].item \in Ids
  BY Memory, StoredSound DEF Activate, ActivateFails, At, Grounded, Holding,
     Placed, Running, Ended
<1>2. CASE Activate(j)
  <2> DEFINE memory == [job[j] EXCEPT !.prev = job[j].doc.gen,
                                      !.doc = Activated(j)]
  <2> DEFINE m == [memory EXCEPT !.pc = "prune"]
  <2>1. /\ Write(job[j].item, Activated(j)) /\ Become(j, "prune", memory)
        /\ UNCHANGED <<index, gens, faults>>
    BY <1>2 DEF Activate
  <2>2. Activated(j) \in Document
    BY <1>1, Memory DEF Activated, Document, Job
  <2>3. /\ memory \in Job /\ memory.doc = Activated(j)
        /\ memory.item = job[j].item /\ memory.asked = job[j].asked
    BY <1>1, <2>2, Memory DEF Job, Document
  <2>4. "prune" \in Label \ Ended
    BY DEF Label, Ended
  <2> HIDE DEF memory
  <2>5. job' = [job EXCEPT ![j] = m] /\ m.pc = "prune"
    <3>1. job' = [job EXCEPT ![j] = m]
      BY <2>1, <2>3, <2>4, Moves DEF IInv
    <3>2. m.pc = "prune"
      BY <2>3 DEF Job
    <3> QED
      BY <3>1, <3>2
  <2> HIDE DEF m
  <2>6. Sound(Activated(j), gens, Building')
    BY <1>1, <2>5, ActivatedSound DEF Builds
  <2>7. RestTyped /\ StoresSound
    BY <1>1, <2>1, <2>2, <2>6, Memory DEF Write, RestTyped, StoresSound
  <2>8. Kept(job[j].item)
    BY <1>1, <2>7, Footing DEF At, Placed
  <2>9. Kind[j] \notin Extracting =>
          Kept(job[j].asked) /\ job[j].item = job[j].asked
    BY <1>1, <2>7, Footing
  <2>10. "prune" \notin Upserts
    BY DEF Upserts
  <2> QED
    BY <2>1, <2>2, <2>3, <2>4, <2>6, <2>7, <2>8, <2>9, <2>10, GoesOn
<1>3. CASE ActivateFails(j)
  <2> DEFINE m == Blank("failed", NoId)
  <2>1. Goto(j, "failed") /\ WriteRaises(job[j].item, Activated(j))
    BY <1>3 DEF ActivateFails
  <2>2. job' = [job EXCEPT ![j] = m] /\ m.pc = "failed"
    BY <2>1 DEF Goto, Become, Ended, Blank
  <2> HIDE DEF m
  <2>3. Activated(j) \in Document /\ Sound(Activated(j), gens, Building')
    BY <1>1, <2>2, ActivatedSound DEF Builds
  <2>4. StoresSound
    BY <1>1, <2>1, <2>3 DEF WriteRaises, Write, StoresSound
  <2>5. RestTyped
    <3>1. index' \in Typed
      BY <1>3, Memory, Removed DEF ActivateFails
    <3> QED
      BY <1>3, <2>1, <3>1, Memory
         DEF ActivateFails, WriteRaises, Fault, RestTyped
  <2> QED
    BY <2>1, <2>4, <2>5, Ends DEF Goto, Ended
<1> QED
  BY <1>2, <1>3

LEMMA PruneStep == ASSUME IInv, NEW j \in Jobs, Prune(j) PROVE IInv'
<1>1. StoresSound /\ At(j, "prune") /\ Running(j)
  BY DEF Prune, StoresSound, At, Running, Ended
<1>2. RestTyped
  <2>1. index' \in Typed
    BY Memory, Removed DEF Prune, Pruned
  <2>2. faults' \in 0..MaxFaults
    BY Memory DEF Prune, Pruned, Fault
  <2> QED
    BY <2>1, <2>2 DEF Prune, RestTyped
<1>3. CASE Goto(j, "scrutinise")
  BY <1>1, <1>2, <1>3, Proceeds
     DEF At, Label, Ended, Holding, Placed, Upserts
<1>4. CASE Goto(j, "done")
  BY <1>1, <1>2, <1>4, Ends DEF Goto, Ended
<1> QED
  BY <1>3, <1>4 DEF Prune

\* Failures end a job; a crash takes it back to its start.
LEMMA FailStep ==
  ASSUME IInv, NEW j \in Jobs, WorkFails(j) \/ SaveFails(j)
  PROVE  IInv'
<1>1. Goto(j, "failed")
  BY DEF WorkFails, SaveFails
<1>2. StoresSound /\ RestTyped
  <2>1. CASE WorkFails(j)
    BY <2>1, Memory DEF WorkFails, Fault, StoresSound, RestTyped
  <2>2. CASE SaveFails(j)
    <3>1. PICK i \in Ids, doc \in Document :
            WriteRaises(i, doc) /\ Sound(doc, gens, Building)
      <4>1. /\ job[j].doc \in Document /\ Sound(job[j].doc, gens, Building)
            /\ ~At(j, "create") => job[j].item \in Ids
        BY <2>2, Memory, StoredSound DEF SaveFails, Upserting, At, Grounded,
           Holding, Placed
      <4>2. \A status \in Review : /\ Decided(j, status) \in Document
                                   /\ Sound(Decided(j, status), gens, Building)
        BY <4>1, DecidedSound
      <4> QED
        BY <2>2, <4>1, <4>2 DEF SaveFails, Upserting, At
    <3>2. faults' \in 0..MaxFaults /\ StoresSound
      BY <3>1, Raised
    <3> QED
      BY <2>2, <3>2, Memory DEF SaveFails, RestTyped
  <2> QED
    BY <2>1, <2>2
<1> QED
  BY <1>1, <1>2, Ends DEF Goto, Ended

LEMMA CrashStep == ASSUME IInv, NEW j \in Jobs, Crash(j) PROVE IInv'
<1> DEFINE memory == Blank("start", job[j].asked)
<1>1. StoresSound /\ RestTyped /\ Running(j)
  BY Memory DEF Crash, Fault, StoresSound, RestTyped
<1>2. /\ memory \in Job /\ memory.doc = Absent
      /\ memory.item = job[j].asked /\ memory.asked = job[j].asked
  <2>1. "start" \in Label /\ job[j].asked \in Ids \cup {NoId}
    BY Memory DEF Label
  <2> QED
    BY <2>1, Blanks DEF Blank
<1>3. Kind[j] \notin Extracting => Kept(job[j].asked)
  BY <1>1, Footing
<1>4. \/ Become(j, "failed", memory)
      \/ Become(j, "start", memory)
  BY DEF Crash
<1> HIDE DEF memory
<1>5. CASE Become(j, "start", memory)
  <2>1. "start" \in Label \ Ended
    BY DEF Label, Ended
  <2> QED
    BY <1>1, <1>2, <1>3, <1>5, <2>1, AbsentSound, GoesOn
       DEF Holding, Placed, Upserts
<1>6. CASE Become(j, "failed", memory)
  BY <1>1, <1>6, Ends DEF Ended
<1> QED
  BY <1>4, <1>5, <1>6

------------------------------------------------------------------------------
LEMMA InvInit == Init => IInv
<1> SUFFICES ASSUME Init PROVE IInv
  OBVIOUS
<1> DEFINE m == Blank("new", NoId)
<1>1. m \in Job /\ m.pc = "new" /\ m.doc = Absent
  BY Blanks DEF Label, NoId, Blank
<1>2. \A j \in Jobs : job[j] = m
  BY DEF Init
<1>3. TypeOK
  <2>1. job \in [Jobs -> Job]
    BY <1>1 DEF Init
  <2> QED
    BY <2>1 DEF Init, TypeOK
<1> HIDE DEF m
<1>4. Building = {}
  BY <1>1, <1>2 DEF Building, Builds
<1>5. Sound(Absent, gens, Building)
  BY <1>4 DEF Init, Sound, Absent, NoReport, NoGen
<1>6. DocsSound
  BY <1>1, <1>2, <1>5 DEF Init, DocsSound
<1>7. BuildersApart /\ \A j \in Jobs : Grounded(j)
  BY <1>1, <1>2 DEF BuildersApart, Grounded, Builds, Holding, Placed, Upserts,
     Running
<1> QED
  BY <1>3, <1>6, <1>7 DEF IInv

LEMMA InvStep == IInv /\ [Next]_vars => IInv'
<1> SUFFICES ASSUME IInv, [Next]_vars PROVE IInv'
  OBVIOUS
<1>1. ASSUME NEW j \in Jobs, Step(j) \/ Failure(j) PROVE IInv'
  BY <1>1, SubmitStep, WipeStep, ExtractStep, UpsertStep, LoadStep, SaveStep,
     CheckStep, EmbedStep, EmbeddedStep, ActivateStep, PruneStep, FailStep,
     CrashStep DEF Step, Failure
<1>2. CASE UNCHANGED vars
  BY <1>2 DEF vars, IInv, TypeOK, DocsSound, BuildersApart, Building, Grounded,
     Exists, Running
<1> QED
  BY <1>1, <1>2 DEF Next

\* The invariant holds in every reachable state.
THEOREM InvariantHolds == Spec => []IInv
BY InvInit, InvStep, PTL DEF Spec

\* TypeOK holds for any jobs, overlapping in any way: in particular no job
\* stores anything but a document with one of the review statuses.
THEOREM TypeCorrect == Spec => []TypeOK
<1>1. IInv => TypeOK
  BY DEF IInv
<1> QED
  BY <1>1, InvariantHolds, PTL

\* The stored scrutiny_report_status never disagrees with the one computed
\* from the report and the active generation, although every job stores copies
\* that it read before other jobs stored theirs.
THEOREM FlagsAgree == Spec => []FlagAgrees
<1>1. IInv => FlagAgrees
  BY DEF IInv, DocsSound, Sound, FlagAgrees
<1> QED
  BY <1>1, InvariantHolds, PTL

------------------------------------------------------------------------------
(***************************************************************************)
(* Jobs that wait for one another                                          *)
(***************************************************************************)
\* The backend starts an extraction, or a job that changes the vectors, only
\* when nothing else runs, and nothing starts next to it.
ExtractsAlone == Together \cap Extracting = {}
IndexesAlone == Together \cap (Extracting \cup Indexing) = {}

\* Jobs run together only if the backend lets them.
Ordered ==
  \A j, k \in Jobs :
    j # k /\ Running(j) /\ Running(k) => {Kind[j], Kind[k]} \subseteq Together

\* A job that is about to create the record has found none.
Creates == \A j \in Jobs : At(j, "create") => Found = {}

RecordInv == IInv /\ Ordered /\ Creates /\ OneRecord

------------------------------------------------------------------------------
Active(i) == store[i].gen = NoGen \/ index[store[i].gen] = "complete"

\* A re-index ended after it had deleted the vectors.
Botched == \E j \in Jobs : Kind[j] = "reindex" /\ At(j, "failed")

\* The labels at which a job's copy names the active generation of the record.
Copied == {"save", "embed", "embedding", "activate", "prune", "check", "decide"}

\* Where only a job that indexes can be, with or without an extraction.
Vectoring == {"save", "embed", "embedding", "activate", "prune"}

Follows(j) ==
  /\ job[j].pc \in Copied => job[j].doc.gen = store[job[j].item].gen
  /\ job[j].pc \in Upserts => job[j].doc = Extracted
  /\ job[j].pc \in Vectoring => Kind[j] \in Extracting \cup Indexing
  /\ At(j, "wipe") => Kind[j] = "reindex"
  /\ At(j, "decide") => Kind[j] = "edit"
  /\ At(j, "activate") => index[job[j].gen] = "complete"
  /\ At(j, "prune") => job[j].prev # job[j].doc.gen
  /\ At(j, "prune") \/ (Kind[j] = "reindex" /\ job[j].pc \in {"scrutinise", "check"})
       => Active(job[j].item)
  /\ ~At(j, "check") => job[j].looked = "nothing"
  /\ At(j, "check") /\ job[j].looked = "gap" /\ job[j].doc.gen # NoGen => Botched

\* A report that would show as current is one of the complete generation.
Honest(doc) ==
  Current(doc) /\ doc.gen # NoGen /\ ~Botched =>
    doc.report = [gen |-> doc.gen, looked |-> "whole"]

AllHonest == (\A i \in Ids : Honest(store[i])) /\ \A j \in Jobs : Honest(job[j].doc)

ActiveInv ==
  RecordInv /\ ActiveIsComplete /\ AllHonest /\ \A j \in Jobs : Follows(j)

------------------------------------------------------------------------------
(***************************************************************************)
(* What a step makes of its job                                            *)
(***************************************************************************)
Others(j) == \A k \in Jobs \ {j} : job'[k] = job[k]

\* Job j goes on at a label with this memory, and no other job changes.
Onward(j, label, item, doc, gen, prev, looked) ==
  /\ Others(j)
  /\ job'[j].pc = label /\ job'[j].item = item /\ job'[j].doc = doc
  /\ job'[j].gen = gen /\ job'[j].prev = prev /\ job'[j].looked = looked

With(j, label, item, doc) ==
  Onward(j, label, item, doc, job[j].gen, job[j].prev, job[j].looked)
Stays(j, label) == With(j, label, job[j].item, job[j].doc)

\* It forgets everything: it ends, or begins again.
Over(j, label) ==
  Others(j) /\ job'[j].pc = label /\ job'[j].doc = Absent /\ job'[j].looked = "nothing"

LEMMA Goes ==
  ASSUME IInv, NEW j \in Jobs, NEW label \in Label \ Ended, NEW memory \in Job,
         Become(j, label, memory)
  PROVE  Onward(j, label, memory.item, memory.doc, memory.gen, memory.prev, memory.looked)
<1> DEFINE m == [memory EXCEPT !.pc = label]
<1>1. job' = [job EXCEPT ![j] = m]
  BY Moves DEF IInv
<1>t. job \in [Jobs -> Job]
  BY DEF IInv, TypeOK
<1>2. m.pc = label /\ m.item = memory.item /\ m.doc = memory.doc
  BY DEF Job
<1>3. m.gen = memory.gen /\ m.prev = memory.prev /\ m.looked = memory.looked
  BY DEF Job
<1> HIDE DEF m
<1> QED
  BY <1>1, <1>t, <1>2, <1>3 DEF Onward, Others

LEMMA GotoGoes ==
  ASSUME IInv, NEW j \in Jobs, NEW label \in Label \ Ended, Goto(j, label)
  PROVE  Stays(j, label)
BY Goes, Memory DEF Goto, Stays, With

LEMMA Stops ==
  ASSUME IInv, NEW j \in Jobs, NEW label \in Ended, NEW memory,
         Become(j, label, memory)
  PROVE  Over(j, label)
<1>1. job' = [job EXCEPT ![j] = Blank(label, NoId)] /\ job \in [Jobs -> Job]
  BY DEF Become, IInv, TypeOK
<1> QED
  BY <1>1 DEF Over, Others, Blank

LEMMA GotoStops ==
  ASSUME IInv, NEW j \in Jobs, NEW label \in Ended, Goto(j, label)
  PROVE  Over(j, label)
BY Stops DEF Goto

\* The item of a job that has one.
LEMMA ItemExists ==
  ASSUME IInv, NEW j \in Jobs,
         job[j].pc \in Placed \/ Upserting(j) \/ (At(j, "start") /\ Kind[j] \notin Extracting)
  PROVE  /\ job[j].item \in Ids /\ Exists(job[j].item)
         /\ store[job[j].item] \in Document /\ Sound(store[job[j].item], gens, Building)
<1>1. Exists(job[j].item) /\ job[j].item \in Ids \cup {NoId}
  BY Memory DEF Grounded, Upserting, At, Running, Ended
<1> QED
  BY <1>1, StoredSound

LEMMA Submitted ==
  ASSUME IInv, NEW j \in Jobs, Submit(j)
  PROVE  \E label \in {"wipe", "start"} :
           Over(j, label) /\ (label = "wipe" => Kind[j] = "reindex")
<1>1. PICK i \in Ids \cup {NoId} :
        Become(j, IF Kind[j] = "reindex" THEN "wipe" ELSE "start", Blank("new", i))
  BY DEF Submit
<1>2. Blank("new", i) \in Job /\ Blank("new", i).doc = Absent /\ Blank("new", i).looked = "nothing"
  BY Blanks DEF Label, Blank
<1>3. (IF Kind[j] = "reindex" THEN "wipe" ELSE "start") \in Label \ Ended
  BY DEF Label, Ended
<1> QED
  BY <1>1, <1>2, <1>3, Goes DEF Onward, Over

LEMMA Crashed ==
  ASSUME IInv, NEW j \in Jobs, Crash(j)
  PROVE  Over(j, "start") \/ Over(j, "failed")
<1> DEFINE memory == Blank("start", job[j].asked)
<1>1. "start" \in Label \ Ended /\ job[j].asked \in Ids \cup {NoId}
  BY Memory DEF Label, Ended
<1>2. memory \in Job /\ memory.doc = Absent /\ memory.looked = "nothing"
  BY <1>1, Blanks DEF Blank
<1>3. Become(j, "failed", memory) \/ Become(j, "start", memory)
  BY DEF Crash
<1> HIDE DEF memory
<1>4. CASE Become(j, "failed", memory)
  BY <1>4, Stops DEF Ended
<1>5. CASE Become(j, "start", memory)
  BY <1>1, <1>2, <1>5, Goes DEF Onward, Over
<1> QED
  BY <1>3, <1>4, <1>5

LEMMA Waits ==
  ASSUME IInv, NEW j \in Jobs
  PROVE  /\ Wipe(j) => Stays(j, "start")
         /\ RequestedMissing(j) => Stays(j, "search")
         /\ IndexSave(j) => Stays(j, "embed")
         /\ Embedded(j) => Stays(j, "activate")
         /\ Prune(j) => Stays(j, "scrutinise") \/ Over(j, "done")
         /\ Update(j) => Stays(j, "embed") \/ Over(j, "done")
         /\ Persist(j) => Stays(j, "check") \/ Over(j, "done") \/ Over(j, "failed")
         /\ Search(j) => \/ Found = {} /\ Stays(j, "create")
                         \/ \E i \in Found : With(j, "update", i, job[j].doc)
         /\ EditSave(j) => Over(j, "done")
         /\ WipeFails(j) \/ EmbedFails(j) \/ ActivateFails(j) \/ WorkFails(j) \/ SaveFails(j)
              => Over(j, "failed")
<1>1. \A label \in Label \ Ended : Goto(j, label) => Stays(j, label)
  BY GotoGoes
<1>2. \A label \in Ended : Goto(j, label) => Over(j, label)
  BY GotoStops
<1>3. ASSUME NEW i \in Found, Become(j, "update", [job[j] EXCEPT !.item = i])
      PROVE  With(j, "update", i, job[j].doc)
  <2> DEFINE memory == [job[j] EXCEPT !.item = i]
  <2>1. /\ memory \in Job /\ memory.item = i /\ memory.doc = job[j].doc /\ memory.gen = job[j].gen
        /\ memory.prev = job[j].prev /\ memory.looked = job[j].looked
    BY Memory DEF Job, Found
  <2>2. "update" \in Label \ Ended /\ Become(j, "update", memory)
    BY <1>3 DEF Label, Ended
  <2> HIDE DEF memory
  <2> QED
    BY <2>1, <2>2, Goes DEF With
<1>4. {"start", "search", "embed", "activate", "scrutinise", "check", "create"} \subseteq Label \ Ended
  BY DEF Label, Ended
<1>5. {"done", "failed"} \subseteq Ended
  BY DEF Ended
<1> QED
  BY <1>1, <1>2, <1>3, <1>4, <1>5
     DEF Wipe, RequestedMissing, IndexSave, Embedded, Prune, Update, AfterUpsert, Persist,
         Search, EditSave, WipeFails, EmbedFails, ActivateFails, WorkFails, SaveFails

LEMMA Loads ==
  ASSUME IInv, NEW j \in Jobs
  PROVE  /\ Extract(j) => With(j, "upsert", job[j].item, Extracted)
         /\ IndexLoad(j) => With(j, "save", job[j].item, store[job[j].item])
         /\ EditLoad(j) => With(j, "decide", job[j].item, store[job[j].item])
         /\ ScrutinyLoad(j) => \/ With(j, "check", job[j].item, store[job[j].item])
                               \/ Over(j, "failed")
<1>1. ASSUME NEW doc \in Document, NEW label \in Label \ Ended,
             Become(j, label, [job[j] EXCEPT !.doc = doc])
      PROVE  With(j, label, job[j].item, doc)
  <2> DEFINE memory == [job[j] EXCEPT !.doc = doc]
  <2>1. /\ memory \in Job /\ memory.item = job[j].item /\ memory.doc = doc /\ memory.gen = job[j].gen
        /\ memory.prev = job[j].prev /\ memory.looked = job[j].looked
    BY Memory DEF Job
  <2>2. Become(j, label, memory)
    BY <1>1
  <2> HIDE DEF memory
  <2> QED
    BY <2>1, <2>2, Goes DEF With
<1>2. {"upsert", "save", "decide", "check"} \subseteq Label \ Ended /\ "failed" \in Ended
  BY DEF Label, Ended
<1>3. IndexLoad(j) \/ EditLoad(j) \/ ScrutinyLoad(j) => store[job[j].item] \in Document
  BY ItemExists DEF IndexLoad, EditLoad, ScrutinyLoad, Indexing, Extracting, At, Placed
<1>4. Extract(j) => With(j, "upsert", job[j].item, Extracted)
  BY <1>1, <1>2, ExtractedSound DEF Extract
<1>5. IndexLoad(j) => With(j, "save", job[j].item, store[job[j].item])
  BY <1>1, <1>2, <1>3 DEF IndexLoad
<1>6. EditLoad(j) => With(j, "decide", job[j].item, store[job[j].item])
  BY <1>1, <1>2, <1>3 DEF EditLoad
<1>7. ASSUME ScrutinyLoad(j)
      PROVE  \/ With(j, "check", job[j].item, store[job[j].item])
             \/ Over(j, "failed")
  BY <1>1, <1>2, <1>3, <1>7, Stops DEF ScrutinyLoad
<1> QED
  BY <1>4, <1>5, <1>6, <1>7

LEMMA Makes ==
  ASSUME IInv, NEW j \in Jobs
  PROVE  /\ Create(j) => \E i \in Ids : /\ NewId(i) /\ Write(i, job[j].doc)
                                        /\ With(j, "embed", i, job[j].doc) \/ Over(j, "done")
         /\ Embed(j) => Onward(j, "embedding", job[j].item, job[j].doc, gens + 1,
                               job[j].prev, job[j].looked)
         /\ Activate(j) => Onward(j, "prune", job[j].item, Activated(j), job[j].gen,
                                  job[j].doc.gen, job[j].looked)
         /\ Check(j) => Onward(j, "check", job[j].item, job[j].doc, job[j].gen, job[j].prev,
                               IF Whole(job[j].doc.gen) /\ job[j].looked # "gap"
                               THEN "whole" ELSE "gap")
<1>1. ASSUME Create(j)
      PROVE  \E i \in Ids : /\ NewId(i) /\ Write(i, job[j].doc)
                            /\ With(j, "embed", i, job[j].doc) \/ Over(j, "done")
  <2>1. PICK i \in Ids : /\ NewId(i) /\ Write(i, job[j].doc)
                         /\ Become(j, AfterUpsert(j), [job[j] EXCEPT !.item = i])
    BY <1>1 DEF Create
  <2> DEFINE memory == [job[j] EXCEPT !.item = i]
  <2>2. /\ memory \in Job /\ memory.item = i /\ memory.doc = job[j].doc /\ memory.gen = job[j].gen
        /\ memory.prev = job[j].prev /\ memory.looked = job[j].looked
    BY Memory DEF Job
  <2>3. Become(j, "embed", memory) \/ Become(j, "done", memory)
    BY <2>1 DEF AfterUpsert
  <2>4. "embed" \in Label \ Ended /\ "done" \in Ended
    BY DEF Label, Ended
  <2> HIDE DEF memory
  <2>5. CASE Become(j, "embed", memory)
    BY <2>1, <2>2, <2>4, <2>5, Goes DEF With
  <2>6. CASE Become(j, "done", memory)
    BY <2>1, <2>4, <2>6, Stops
  <2> QED
    BY <2>3, <2>5, <2>6
<1>2. ASSUME Embed(j)
      PROVE  Onward(j, "embedding", job[j].item, job[j].doc, gens + 1,
                    job[j].prev, job[j].looked)
  <2> DEFINE memory == [job[j] EXCEPT !.gen = gens + 1]
  <2>1. gens + 1 \in Gens
    BY <1>2, Memory, FilingAssumption DEF Embed, Gens
  <2>2. /\ memory \in Job /\ memory.item = job[j].item /\ memory.doc = job[j].doc
        /\ memory.gen = gens + 1 /\ memory.prev = job[j].prev /\ memory.looked = job[j].looked
    BY <2>1, Memory DEF Job
  <2>3. "embedding" \in Label \ Ended /\ Become(j, "embedding", memory)
    BY <1>2 DEF Embed, Label, Ended
  <2> HIDE DEF memory
  <2> QED
    BY <2>2, <2>3, Goes
<1>3. ASSUME Activate(j)
      PROVE  Onward(j, "prune", job[j].item, Activated(j), job[j].gen,
                    job[j].doc.gen, job[j].looked)
  <2> DEFINE memory == [job[j] EXCEPT !.prev = job[j].doc.gen, !.doc = Activated(j)]
  <2>1. job[j].doc \in Document
    BY <1>3, Memory DEF Activate, At, Grounded, Holding
  <2>2. Activated(j) \in Document
    BY <2>1, Memory DEF Activated, Document, Job
  <2>3. /\ memory \in Job /\ memory.item = job[j].item /\ memory.doc = Activated(j)
        /\ memory.gen = job[j].gen /\ memory.prev = job[j].doc.gen /\ memory.looked = job[j].looked
    BY <2>1, <2>2, Memory DEF Job, Document
  <2>4. "prune" \in Label \ Ended /\ Become(j, "prune", memory)
    BY <1>3 DEF Activate, Label, Ended
  <2> HIDE DEF memory
  <2> QED
    BY <2>3, <2>4, Goes
<1>4. ASSUME Check(j)
      PROVE  Onward(j, "check", job[j].item, job[j].doc, job[j].gen, job[j].prev,
                    IF Whole(job[j].doc.gen) /\ job[j].looked # "gap" THEN "whole" ELSE "gap")
  <2> DEFINE look == IF Whole(job[j].doc.gen) /\ job[j].looked # "gap" THEN "whole" ELSE "gap"
  <2> DEFINE memory == [job[j] EXCEPT !.looked = look]
  <2>1. /\ memory \in Job /\ memory.item = job[j].item /\ memory.doc = job[j].doc
        /\ memory.gen = job[j].gen /\ memory.prev = job[j].prev /\ memory.looked = look
    BY Memory DEF Job, Look
  <2>2. "check" \in Label \ Ended /\ Become(j, "check", memory)
    BY <1>4 DEF Check, Label, Ended
  <2> HIDE DEF memory
  <2> QED
    BY <2>1, <2>2, Goes
<1> QED
  BY <1>1, <1>2, <1>3, <1>4

------------------------------------------------------------------------------
(***************************************************************************)
(* One record                                                              *)
(***************************************************************************)
\* A step replaces the document of a record, or creates one where its job has
\* found none.
Replaces(j) ==
  \/ store' = store
  \/ \E i \in Ids : \E doc : Exists(i) /\ Write(i, doc)
  \/ At(j, "create") /\ \E i \in Ids : \E doc : Write(i, doc)

LEMMA OneReplaced ==
  ASSUME IInv, NEW j \in Jobs, Step(j) \/ Failure(j)
  PROVE  Replaces(j)
<1>1. job[j].pc \in Placed \/ Upserting(j) => job[j].item \in Ids /\ Exists(job[j].item)
  BY ItemExists
<1>2. Update(j) => Upserting(j)
  BY DEF Update
<1>3. IndexSave(j) \/ Activate(j) \/ ActivateFails(j) \/ Persist(j) \/ EditSave(j)
        => job[j].pc \in Placed
  BY DEF IndexSave, Activate, ActivateFails, Persist, EditSave, At, Placed
<1>4. SaveFails(j) => job[j].pc \in Placed \/ Upserting(j) \/ At(j, "create")
  BY DEF SaveFails, At, Placed
<1>5. CASE Create(j)
  BY <1>5 DEF Create, Replaces
<1>6. CASE SaveFails(j)
  BY <1>1, <1>4, <1>6 DEF SaveFails, WriteRaises, Replaces, At, Upserting, Placed
<1>7. CASE IndexSave(j) \/ Activate(j) \/ ActivateFails(j) \/ Persist(j) \/ EditSave(j) \/ Update(j)
  BY <1>1, <1>2, <1>3, <1>7
     DEF IndexSave, Activate, ActivateFails, Persist, EditSave, Update, WriteRaises, Replaces
<1> QED
  BY <1>5, <1>6, <1>7
     DEF Step, Failure, Submit, Wipe, Extract, RequestedMissing, Search, IndexLoad, Embed,
         Embedded, Prune, ScrutinyLoad, Check, EditLoad, WipeFails, EmbedFails, WorkFails,
         Crash, Replaces

\* One job moves, which runs or starts now.
LEMMA OneMoves ==
  ASSUME IInv, NEW j \in Jobs, Step(j) \/ Failure(j)
  PROVE  /\ Others(j)
         /\ Running(j) \/ (~Running(j) /\ Submit(j) /\ MayStart(j))
         /\ job'[j].pc = "create" => Found = {} /\ store' = store
<1>1. Others(j) /\ (job'[j].pc = "create" => Search(j) /\ Found = {})
  BY Submitted, Crashed, Waits, Loads, Makes
     DEF Step, Failure, Over, Stays, With, Onward
<1>2. CASE Submit(j)
  BY <1>1, <1>2 DEF Submit, At, Running, Search
<1>3. CASE ~Submit(j)
  BY <1>1, <1>3
     DEF Step, Failure, At, Running, Ended, Upserting, Wipe, Extract, RequestedMissing, Search,
         Update, Create, IndexLoad, IndexSave, Embed, Embedded, Activate, Prune, ScrutinyLoad,
         Check, Persist, EditLoad, EditSave, WipeFails, EmbedFails, ActivateFails, WorkFails,
         SaveFails, Crash
<1> QED
  BY <1>2, <1>3

LEMMA RecordStep == ExtractsAlone /\ RecordInv /\ [Next]_vars => RecordInv'
<1> SUFFICES ASSUME ExtractsAlone, RecordInv, [Next]_vars PROVE RecordInv'
  OBVIOUS
<1>1. IInv /\ IInv'
  BY InvStep DEF RecordInv
<1>2. CASE UNCHANGED vars
  BY <1>1, <1>2 DEF vars, RecordInv, Ordered, Creates, OneRecord, Running, At, Found, Exists
<1>3. ASSUME NEW j \in Jobs, Step(j) \/ Failure(j) PROVE RecordInv'
  <2>1. /\ \A k \in Jobs \ {j} : job'[k] = job[k]
        /\ Running(j) \/ (~Running(j) /\ Submit(j) /\ MayStart(j))
        /\ job'[j].pc = "create" => Found = {} /\ store' = store
        /\ Replaces(j)
    BY <1>1, <1>3, OneMoves, OneReplaced DEF Others
  <2>2. Ordered'
    BY <2>1 DEF RecordInv, Ordered, MayStart, Running
  <2>3. Creates'
    <3>1. ASSUME NEW k \in Jobs, At(k, "create")', k # j PROVE FALSE
      <4>1. At(k, "create") /\ Running(k) /\ Kind[k] \in Extracting
        BY <2>1, <3>1, Memory, <1>1 DEF At, Running, Ended, Grounded, Upserts
      <4>2. Kind[k] \in Together
        BY <2>1, <3>1, <4>1 DEF RecordInv, Ordered, MayStart
      <4> QED
        BY <4>1, <4>2 DEF ExtractsAlone
    <3>2. At(j, "create")' => Found' = {}
      BY <2>1 DEF At, Found, Exists
    <3> QED
      BY <3>1, <3>2 DEF Creates
  <2>4. OneRecord'
    <3>1. store \in [Ids -> Document \cup {Absent}]
      BY <1>1 DEF IInv, TypeOK
    <3> QED
      BY <2>1, <3>1 DEF RecordInv, Creates, OneRecord, Found, Exists, Replaces, Write
  <2> QED
    BY <1>1, <2>2, <2>3, <2>4 DEF RecordInv
<1> QED
  BY <1>2, <1>3 DEF Next

LEMMA RecordInit == Init => RecordInv
BY InvInit DEF Init, RecordInv, Ordered, Creates, OneRecord, Running, Blank, At, Exists

\* The invariant of one record.
THEOREM RecordInvariant == ASSUME ExtractsAlone PROVE Spec => []RecordInv
BY RecordInit, RecordStep, PTL DEF Spec

\* "Update a matter's stable Agent Data record or create it once": whatever
\* fails, a late write included, there is one record, provided an extraction
\* runs next to no other job.
THEOREM RecordIsOne == ASSUME ExtractsAlone PROVE Spec => []OneRecord
<1>1. RecordInv => OneRecord
  BY DEF RecordInv
<1> QED
  BY <1>1, RecordInvariant, PTL

------------------------------------------------------------------------------
(***************************************************************************)
(* The active generation and the report                                    *)
(***************************************************************************)
Settled(j) == Follows(j)' /\ ActiveIsComplete' /\ AllHonest'

\* A re-index that is over before the vectors are back, or running.
Gone(j) == Kind[j] = "reindex" /\ job[j].pc \notin {"new", "wipe", "prune", "done"}

LEMMA Known ==
  ASSUME ActiveInv, NEW j \in Jobs
  PROVE  /\ IInv /\ OneRecord /\ job[j] \in Job /\ Grounded(j) /\ Follows(j)
         /\ store \in [Ids -> Document \cup {Absent}] /\ index \in Typed
         /\ Honest(job[j].doc) /\ \A i \in Ids : Honest(store[i])
         /\ job[j].pc \in Upserts => Kind[j] \in Extracting
BY Memory DEF ActiveInv, RecordInv, IInv, TypeOK, AllHonest, Grounded, Typed

\* No document names a generation that is being built.
LEMMA NotBuilt ==
  ASSUME IInv, NEW j \in Jobs, Builds(job[j])
  PROVE  /\ job[j].gen \in 1..gens /\ job[j].gen # NoGen
         /\ \A i \in Ids : store[i].gen # job[j].gen
         /\ job[j].doc.gen # job[j].gen /\ job[j].doc.report.gen # job[j].gen
<1>1. job[j].gen \in Building /\ job[j].gen \in 1..gens
  BY Memory DEF Building, Grounded
<1> QED
  BY <1>1, Memory DEF IInv, DocsSound, Sound, NoGen

\* The one record is complete once its generation is.
LEMMA OneActive ==
  ASSUME ActiveInv, NEW k \in Ids, Exists(k), Active(k), NEW i \in Ids
  PROVE  Active(i)
<1>1. Exists(i) => i = k
  BY DEF ActiveInv, RecordInv, OneRecord
<1>2. ~Exists(i) => store[i].gen = NoGen
  BY DEF Exists, Absent, NoId, Ids
<1> QED
  BY <1>1, <1>2 DEF Active

\* A step that leaves the active generations and their vectors alone, or takes
\* a generation out of the record, unless it ends a re-index too early.
LEMMA StillComplete ==
  ASSUME ActiveInv, NEW j \in Jobs, Others(j),
         \A i \in Ids : store'[i].gen = store[i].gen \/ store'[i].gen = NoGen,
         \A i \in Ids : store[i].gen # NoGen => index'[store[i].gen] = index[store[i].gen],
         \/ Gone(j) => Gone(j)'
         \/ \E k \in Ids : Exists(k) /\ Active(k)
  PROVE  ActiveIsComplete'
<1>1. ActiveIsComplete
  BY DEF ActiveInv
<1>2. CASE Gone(j) => Gone(j)'
  <2>1. Wiped => Wiped'
    BY <1>2 DEF Wiped, Others, Gone
  <2> QED
    BY <1>1, <2>1 DEF ActiveIsComplete
<1>3. CASE \E k \in Ids : Exists(k) /\ Active(k)
  <2>1. \A i \in Ids : Active(i)
    BY <1>3, OneActive
  <2> QED
    BY <2>1 DEF ActiveIsComplete, Active
<1> QED
  BY <1>2, <1>3

\* A failed re-index stays failed.
LEMMA StaysBotched ==
  ASSUME NEW j \in Jobs, Others(j), ~At(j, "failed"), Botched
  PROVE  Botched'
BY DEF Botched, Others, At

LEMMA StillHonest ==
  ASSUME ActiveInv, NEW j \in Jobs, Others(j), ~At(j, "failed"),
         Honest(job'[j].doc),
         store' = store \/ \E i \in Ids : \E doc : Honest(doc) /\ Write(i, doc)
  PROVE  AllHonest'
<1>1. Botched => Botched'
  BY StaysBotched
<1>2. \A i \in Ids : Honest(store'[i])
  BY DEF Write, ActiveInv, RecordInv, IInv, TypeOK, AllHonest
<1>3. \A k \in Jobs : Honest(job'[k].doc)
  BY DEF Others, ActiveInv, AllHonest
<1> QED
  BY <1>1, <1>2, <1>3 DEF AllHonest, Honest, Current

LEMMA NewHonest ==
  /\ Honest(Absent) /\ Honest(Extracted)
BY DEF Honest, Current, Absent, Extracted

\* A report made by checks that all saw the whole generation is honest.
LEMMA ReportedHonest ==
  ASSUME ActiveInv, NEW j \in Jobs, At(j, "check"), job[j].looked # "nothing"
  PROVE  Honest(Reported(j))
<1>1. /\ job[j].looked = "gap" /\ job[j].doc.gen # NoGen => Botched
      /\ job[j].looked \in Look /\ job[j].doc \in Document
  BY Known DEF Follows, Job, Grounded, At, Holding
<1>2. /\ Reported(j).gen = job[j].doc.gen
      /\ Reported(j).report = [gen |-> job[j].doc.gen, looked |-> job[j].looked]
  BY <1>1 DEF Reported, NewReport, Document
<1> QED
  BY <1>1, <1>2 DEF Honest, Look

LEMMA DecidedHonest ==
  ASSUME NEW j \in Jobs, job[j].doc \in Document, Honest(job[j].doc), NEW status
  PROVE  Honest(Decided(j, status)) /\ Decided(j, status).gen = job[j].doc.gen
<1>1. /\ Decided(j, status).gen = job[j].doc.gen
      /\ Decided(j, status).report = job[j].doc.report
  BY DEF Decided, Document
<1> QED
  BY <1>1 DEF Honest, Current

\* Activation makes every report stale, so that none is dishonest.
LEMMA ActivatedHonest ==
  ASSUME ActiveInv, NEW j \in Jobs, At(j, "activate")
  PROVE  Honest(Activated(j)) /\ Activated(j).gen = job[j].gen
<1>1. job[j].doc \in Document
  BY Known DEF At, Grounded, Holding
<1>2. Activated(j).gen = job[j].gen /\ Activated(j).report = job[j].doc.report
  BY <1>1 DEF Activated, Document
<1>3. job[j].doc.report.gen # job[j].gen /\ job[j].gen # NoGen
  BY Known, NotBuilt DEF Builds, At
<1> QED
  BY <1>2, <1>3 DEF Honest, Current

\* Ending a job that is not a re-index in the middle of its work.
LEMMA OverSettles ==
  ASSUME ActiveInv, NEW j \in Jobs, NEW label, Over(j, label),
         label \in {"done", "failed", "start"} \/ (label = "wipe" /\ Kind[j] = "reindex"),
         ~At(j, "failed"),
         \A i \in Ids : store'[i].gen = store[i].gen \/ store'[i].gen = NoGen,
         \A i \in Ids : store[i].gen # NoGen => index'[store[i].gen] = index[store[i].gen],
         store' = store \/ \E i \in Ids : \E doc : Honest(doc) /\ Write(i, doc),
         \/ Gone(j) => label \in {"failed", "start"}
         \/ \E k \in Ids : Exists(k) /\ Active(k)
  PROVE  Settled(j)
<1>1. /\ Others(j) /\ job'[j].pc = label /\ job'[j].doc = Absent
      /\ job'[j].looked = "nothing"
  BY DEF Over
<1>2. Follows(j)'
  BY <1>1 DEF Follows, Copied, Upserts, Vectoring, At
<1>3. Gone(j) /\ label \in {"failed", "start"} => Gone(j)'
  BY <1>1 DEF Gone
<1>4. ActiveIsComplete'
  BY <1>1, <1>3, StillComplete
<1>5. AllHonest'
  BY <1>1, NewHonest, StillHonest
<1> QED
  BY <1>2, <1>4, <1>5 DEF Settled

------------------------------------------------------------------------------
LEMMA SubmitSettles == ASSUME ActiveInv, NEW j \in Jobs, Submit(j) PROVE Settled(j)
<1>1. PICK label \in {"wipe", "start"} : Over(j, label) /\ (label = "wipe" => Kind[j] = "reindex")
  BY Known, Submitted
<1>2. store' = store /\ index' = index /\ At(j, "new")
  BY DEF Submit
<1> QED
  BY <1>1, <1>2, OverSettles DEF Gone, At

\* Before the work begins, and where it goes on looking for the record.
LEMMA SearchSettles ==
  ASSUME ActiveInv, NEW j \in Jobs, Extract(j) \/ RequestedMissing(j) \/ Search(j)
  PROVE  Settled(j)
<1>1. /\ store' = store /\ index' = index /\ ~At(j, "failed")
      /\ Kind[j] \in Extracting
  BY Known DEF Extract, RequestedMissing, Search, At, Upserts
<1>2. PICK label \in {"upsert", "search", "create", "update"}, item \in Ids \cup {NoId} :
        With(j, label, item, Extracted)
  <2>1. job[j].item \in Ids \cup {NoId}
    BY Known, Memory
  <2>2. ~Extract(j) => job[j].doc = Extracted
    BY Known DEF Extract, RequestedMissing, Search, Follows, At, Upserts
  <2> QED
    BY <2>1, <2>2, Known, Waits, Loads DEF Found, Stays
<1>3. /\ Others(j) /\ job'[j].pc = label /\ job'[j].doc = Extracted
      /\ job'[j].looked = job[j].looked
  BY <1>2 DEF With, Onward
<1>4. job[j].looked = "nothing"
  BY Known DEF Follows, At, Extract, RequestedMissing, Search
<1>5. Follows(j)'
  BY <1>1, <1>3, <1>4 DEF Follows, Copied, Upserts, Vectoring, At, Extracting
<1>6. ActiveIsComplete'
  BY <1>1, <1>3, StillComplete DEF Gone, Extracting
<1>7. AllHonest'
  BY <1>1, <1>3, NewHonest, StillHonest
<1> QED
  BY <1>5, <1>6, <1>7 DEF Settled

\* The extracted document replaces the record, or is the record.
LEMMA UpsertSettles ==
  ASSUME ActiveInv, NEW j \in Jobs, Update(j) \/ Create(j)
  PROVE  Settled(j)
<1>1. /\ index' = index /\ ~At(j, "failed") /\ Kind[j] \in Extracting
      /\ job[j].doc = Extracted /\ job[j].looked = "nothing"
  BY Known DEF Update, Create, Upserting, At, Upserts, Follows
<1>2. PICK i \in Ids : /\ Write(i, Extracted)
                       /\ With(j, "embed", i, Extracted) \/ Over(j, "done")
  <2>1. Update(j) => job[j].item \in Ids
    BY Known, ItemExists DEF Update
  <2> QED
    BY <1>1, <2>1, Known, Waits, Makes DEF Update, Stays
<1>3. /\ \A k \in Ids : store'[k].gen = store[k].gen \/ store'[k].gen = NoGen
      /\ store'[i] = Extracted
  BY <1>2, Known DEF Write, Extracted
<1>4. CASE Over(j, "done")
  BY <1>1, <1>2, <1>3, <1>4, NewHonest, OverSettles DEF Gone, Extracting
<1>5. CASE With(j, "embed", i, Extracted)
  <2>1. /\ Others(j) /\ job'[j].pc = "embed" /\ job'[j].doc = Extracted
        /\ job'[j].looked = "nothing" /\ job'[j].item = i
    BY <1>1, <1>5 DEF With, Onward
  <2>2. Follows(j)'
    BY <1>1, <1>3, <2>1 DEF Follows, Copied, Upserts, Vectoring, At, Extracted, Extracting
  <2>3. ActiveIsComplete'
    BY <1>1, <1>3, <2>1, StillComplete DEF Gone, Extracting
  <2>4. AllHonest'
    BY <1>1, <1>2, <2>1, NewHonest, StillHonest
  <2> QED
    BY <2>2, <2>3, <2>4 DEF Settled
<1> QED
  BY <1>2, <1>4, <1>5

\* A job's copy is the record's document.
LEMMA LoadSettles ==
  ASSUME ActiveInv, NEW j \in Jobs, IndexLoad(j) \/ EditLoad(j) \/ ScrutinyLoad(j)
  PROVE  Settled(j)
<1>1. /\ store' = store /\ index' = index /\ ~At(j, "failed")
      /\ job[j].pc \in {"start", "scrutinise"} /\ job[j].looked = "nothing"
  BY Known DEF IndexLoad, EditLoad, ScrutinyLoad, At, Follows
<1>2. /\ job[j].item \in Ids /\ Exists(job[j].item)
      /\ Honest(store[job[j].item])
  BY Known, ItemExists
     DEF IndexLoad, EditLoad, ScrutinyLoad, At, Indexing, Extracting, Placed
<1>3. \/ IndexLoad(j) /\ With(j, "save", job[j].item, store[job[j].item])
      \/ EditLoad(j) /\ With(j, "decide", job[j].item, store[job[j].item])
      \/ ScrutinyLoad(j) /\ With(j, "check", job[j].item, store[job[j].item])
      \/ Over(j, "failed")
  BY Known, Loads
<1>4. CASE Over(j, "failed")
  BY <1>1, <1>4, OverSettles
<1>5. ASSUME NEW label \in {"save", "decide", "check"},
             With(j, label, job[j].item, store[job[j].item]),
             label = "save" => Kind[j] \in Indexing,
             label = "decide" => Kind[j] = "edit",
             label = "check" => ScrutinyLoad(j)
      PROVE  Settled(j)
  <2>1. /\ Others(j) /\ job'[j].pc = label /\ job'[j].doc = store[job[j].item]
        /\ job'[j].looked = "nothing" /\ job'[j].item = job[j].item
    BY <1>1, <1>5 DEF With, Onward
  <2>2. Kind[j] = "reindex" /\ label = "check" => Active(job[j].item)
    BY <1>5, Known DEF ScrutinyLoad, Follows, At
  <2>3. Follows(j)'
    BY <1>1, <1>5, <2>1, <2>2 DEF Follows, Copied, Upserts, Vectoring, At, Active
  <2>4. ActiveIsComplete'
    BY <1>1, <2>1, StillComplete DEF Gone
  <2>5. AllHonest'
    BY <1>1, <1>2, <2>1, StillHonest
  <2> QED
    BY <2>3, <2>4, <2>5 DEF Settled
<1> QED
  BY <1>3, <1>4, <1>5 DEF IndexLoad, EditLoad

LEMMA SaveSettles == ASSUME ActiveInv, NEW j \in Jobs, IndexSave(j) PROVE Settled(j)
<1>1. /\ index' = index /\ At(j, "save") /\ Kind[j] \in Extracting \cup Indexing
      /\ job[j].looked = "nothing" /\ job[j].doc.gen = store[job[j].item].gen
      /\ job[j].item \in Ids /\ Honest(job[j].doc) /\ Write(job[j].item, job[j].doc)
      /\ Stays(j, "embed")
  BY Known, ItemExists, Waits DEF IndexSave, At, Follows, Vectoring, Copied, Placed
<1>2. \A i \in Ids : store'[i].gen = store[i].gen
  BY <1>1, Known DEF Write
<1>3. /\ Others(j) /\ job'[j].pc = "embed" /\ job'[j].doc = job[j].doc
      /\ job'[j].looked = "nothing" /\ job'[j].item = job[j].item
  BY <1>1 DEF Stays, With, Onward
<1>4. Follows(j)'
  BY <1>1, <1>2, <1>3 DEF Follows, Copied, Upserts, Vectoring, At
<1>5. ActiveIsComplete'
  BY <1>1, <1>2, <1>3, StillComplete DEF Gone
<1>6. AllHonest'
  BY <1>1, <1>3, StillHonest DEF At
<1> QED
  BY <1>4, <1>5, <1>6 DEF Settled

\* Building a generation touches no vector of the active one.
LEMMA EmbedSettles ==
  ASSUME ActiveInv, NEW j \in Jobs, Embed(j) \/ Embedded(j)
  PROVE  Settled(j)
<1>1. /\ store' = store /\ ~At(j, "failed") /\ job[j].pc \in {"embed", "embedding"}
      /\ Kind[j] \in Extracting \cup Indexing /\ job[j].looked = "nothing"
      /\ job[j].doc.gen = store[job[j].item].gen /\ Honest(job[j].doc)
  BY Known DEF Embed, Embedded, At, Follows, Vectoring, Copied
<1>2. \A i \in Ids : store[i].gen # NoGen => index'[store[i].gen] = index[store[i].gen]
  <2>1. CASE Embed(j)
    <3>1. \A i \in Ids : store[i].gen <= gens
      BY Known DEF IInv, DocsSound, Sound
    <3>2. gens \in Nat
      BY Known, Memory
    <3>3. \A i \in Ids : store[i].gen # gens + 1
      BY <3>1, <3>2
    <3> QED
      BY <2>1, <3>3, Known DEF Embed, Typed
  <2>2. CASE Embedded(j)
    <3>1. \A i \in Ids : store[i].gen # job[j].gen
      BY <2>2, Known, NotBuilt DEF Embedded, At, Builds
    <3> QED
      BY <2>2, <3>1, Known DEF Embedded, Indexed, Typed
  <2> QED
    BY <2>1, <2>2
<1>3. /\ Others(j) /\ job'[j].pc \in {"embedding", "activate"} /\ job'[j].doc = job[j].doc
      /\ job'[j].looked = "nothing" /\ job'[j].item = job[j].item
      /\ job'[j].pc = "activate" => Embedded(j) /\ job'[j].gen = job[j].gen
  BY <1>1, Known, Waits, Makes DEF Stays, With, Onward
<1>4. job'[j].pc = "activate" => index'[job[j].gen] = "complete"
  <2>1. Embedded(j) => job[j].gen \in Gens
    BY Known, NotBuilt DEF Embedded, At, Builds, Job
  <2> QED
    BY <1>3, <2>1, Known DEF Embedded, Indexed, Typed
<1>5. Follows(j)'
  BY <1>1, <1>3, <1>4 DEF Follows, Copied, Upserts, Vectoring, At
<1>6. ActiveIsComplete'
  BY <1>1, <1>2, <1>3, StillComplete DEF Gone
<1>7. AllHonest'
  BY <1>1, <1>3, StillHonest
<1> QED
  BY <1>5, <1>6, <1>7 DEF Settled

\* The record names the new generation, which is complete.
LEMMA ActivateSettles == ASSUME ActiveInv, NEW j \in Jobs, Activate(j) PROVE Settled(j)
<1>1. /\ index' = index /\ At(j, "activate") /\ Kind[j] \in Extracting \cup Indexing
      /\ job[j].looked = "nothing" /\ index[job[j].gen] = "complete"
      /\ Write(job[j].item, Activated(j))
      /\ Onward(j, "prune", job[j].item, Activated(j), job[j].gen, job[j].doc.gen, job[j].looked)
  <2>1. index' = index /\ At(j, "activate") /\ Write(job[j].item, Activated(j))
    BY DEF Activate
  <2>2. /\ Kind[j] \in Extracting \cup Indexing /\ job[j].looked = "nothing"
        /\ index[job[j].gen] = "complete"
    BY <2>1, Known DEF At, Follows, Vectoring
  <2>3. Onward(j, "prune", job[j].item, Activated(j), job[j].gen, job[j].doc.gen, job[j].looked)
    BY Known, Makes
  <2> QED
    BY <2>1, <2>2, <2>3
<1>2. /\ job[j].item \in Ids /\ Exists(job[j].item)
      /\ Honest(Activated(j)) /\ Activated(j).gen = job[j].gen
      /\ job[j].doc.gen # job[j].gen
  BY <1>1, Known, ItemExists, ActivatedHonest, NotBuilt DEF At, Placed, Builds
<1>3. /\ Others(j) /\ job'[j].pc = "prune" /\ job'[j].doc = Activated(j)
      /\ job'[j].looked = "nothing" /\ job'[j].item = job[j].item
      /\ job'[j].prev = job[j].doc.gen
  BY <1>1 DEF Onward
<1>4. store'[job[j].item] = Activated(j) /\ \A i \in Ids \ {job[j].item} : store'[i] = store[i]
  BY <1>1, <1>2, Known DEF Write
<1>5. Follows(j)'
  BY <1>1, <1>2, <1>3, <1>4 DEF Follows, Copied, Upserts, Vectoring, At, Active
<1>6. ActiveIsComplete'
  <2>1. ASSUME NEW i \in Ids, i # job[j].item PROVE store'[i].gen = NoGen
    BY <1>2, <1>4, <2>1, Known DEF OneRecord, Exists, Absent, NoId, Ids
  <2>2. store'[job[j].item].gen = job[j].gen /\ index'[job[j].gen] = "complete"
    BY <1>1, <1>2, <1>4
  <2> QED
    BY <2>1, <2>2 DEF ActiveIsComplete
<1>7. AllHonest'
  BY <1>1, <1>2, <1>3, StillHonest DEF At
<1> QED
  BY <1>5, <1>6, <1>7 DEF Settled

\* What is deleted is the generation that was replaced.
LEMMA PruneSettles == ASSUME ActiveInv, NEW j \in Jobs, Prune(j) PROVE Settled(j)
<1>1. /\ store' = store /\ At(j, "prune") /\ Kind[j] \in Extracting \cup Indexing
      /\ job[j].looked = "nothing" /\ Active(job[j].item)
      /\ job[j].doc.gen = store[job[j].item].gen /\ job[j].prev # job[j].doc.gen
      /\ Stays(j, "scrutinise") \/ Over(j, "done")
  BY Known, Waits DEF Prune, At, Follows, Vectoring, Copied
<1>2. job[j].item \in Ids /\ Exists(job[j].item) /\ Honest(job[j].doc)
  BY <1>1, Known, ItemExists DEF At, Placed
<1>3. \A i \in Ids : store[i].gen # NoGen => index'[store[i].gen] = index[store[i].gen]
  <2>1. \A i \in Ids : store[i].gen # NoGen => store[i].gen = store[job[j].item].gen
    BY <1>2, Known DEF OneRecord, Exists, Absent, NoId, Ids
  <2>2. \A i \in Ids : store[i].gen # NoGen => store[i].gen # job[j].prev
    BY <1>1, <2>1
  <2>3. index' = index \/ index' = [index EXCEPT ![job[j].prev] = "none"]
    BY DEF Prune, Pruned, Remove
  <2>4. \A i \in Ids : store[i].gen # NoGen => store[i].gen \in Gens
    BY Known DEF Document, Absent
  <2> QED
    BY <2>2, <2>3, <2>4, Known DEF Typed
<1>4. CASE Over(j, "done")
  BY <1>1, <1>2, <1>3, <1>4, OverSettles DEF At
<1>5. CASE Stays(j, "scrutinise")
  <2>1. /\ Others(j) /\ job'[j].pc = "scrutinise" /\ job'[j].doc = job[j].doc
        /\ job'[j].looked = "nothing" /\ job'[j].item = job[j].item
    BY <1>1, <1>5 DEF Stays, With, Onward
  <2>2. Follows(j)'
    BY <1>1, <1>2, <1>3, <2>1 DEF Follows, Copied, Upserts, Vectoring, At, Active
  <2>3. ActiveIsComplete'
    BY <1>1, <1>2, <1>3, <2>1, StillComplete
  <2>4. AllHonest'
    BY <1>1, <1>2, <2>1, StillHonest DEF At
  <2> QED
    BY <2>2, <2>3, <2>4 DEF Settled
<1> QED
  BY <1>1, <1>4, <1>5

\* The vectors are gone until the job has made new ones.
LEMMA WipeSettles == ASSUME ActiveInv, NEW j \in Jobs, Wipe(j) \/ WipeFails(j) PROVE Settled(j)
<1>1. /\ store' = store /\ At(j, "wipe") /\ Kind[j] = "reindex"
      /\ job[j].looked = "nothing" /\ Honest(job[j].doc)
      /\ index' \in {index, [g \in Gens |-> "none"]}
      /\ Stays(j, "start") \/ Over(j, "failed")
  BY Known, Waits DEF Wipe, WipeFails, At, Follows
<1>2. /\ Others(j) /\ job'[j].pc \in {"start", "failed"} /\ job'[j].looked = "nothing"
      /\ Honest(job'[j].doc)
  BY <1>1, NewHonest DEF Stays, With, Onward, Over
<1>3. Follows(j)'
  BY <1>2 DEF Follows, Copied, Upserts, Vectoring, At
<1>4. ActiveIsComplete'
  <2>1. Wiped'
    BY <1>1, <1>2 DEF Wiped
  <2>2. \A i \in Ids : store[i].gen # NoGen => store[i].gen \in Gens
    BY Known DEF Document, Absent
  <2>3. ActiveIsComplete
    BY DEF ActiveInv
  <2> QED
    BY <1>1, <2>1, <2>2, <2>3 DEF ActiveIsComplete
<1>5. AllHonest'
  BY <1>1, <1>2, StillHonest DEF At
<1> QED
  BY <1>3, <1>4, <1>5 DEF Settled

\* A check that finds a gap does so after a re-index that failed.
LEMMA CheckSettles ==
  ASSUME IndexesAlone, ActiveInv, NEW j \in Jobs, Check(j) PROVE Settled(j)
<1>1. /\ store' = store /\ index' = index /\ At(j, "check")
      /\ job[j].doc.gen = store[job[j].item].gen /\ Honest(job[j].doc)
      /\ Kind[j] = "reindex" => Active(job[j].item)
      /\ job[j].looked = "gap" /\ job[j].doc.gen # NoGen => Botched
  BY Known DEF Check, At, Follows, Copied
<1>2. job[j].item \in Ids
  BY <1>1, Known, ItemExists DEF At, Placed
<1>3. /\ Others(j) /\ job'[j].pc = "check" /\ job'[j].doc = job[j].doc
      /\ job'[j].item = job[j].item
      /\ job'[j].looked = IF Whole(job[j].doc.gen) /\ job[j].looked # "gap" THEN "whole" ELSE "gap"
  BY Known, Makes DEF Onward
<1>4. job'[j].looked = "gap" /\ job[j].doc.gen # NoGen => Botched'
  <2>1. ASSUME ~Whole(job[j].doc.gen) PROVE Botched
    <3>1. Wiped /\ Kind[j] # "reindex"
      BY <1>1, <1>2, <2>1 DEF ActiveInv, ActiveIsComplete, Whole, Active
    <3>2. PICK k \in Jobs : Kind[k] = "reindex" /\ job[k].pc \notin {"new", "wipe", "prune", "done"}
      BY <3>1 DEF Wiped
    <3>3. k # j /\ Running(j)
      BY <1>1, <3>1, <3>2 DEF At, Running, Ended
    <3>4. ~Running(k)
      BY <3>2, <3>3 DEF ActiveInv, RecordInv, Ordered, IndexesAlone, Indexing
    <3> QED
      BY <3>2, <3>4 DEF Running, Ended, Botched, At
  <2> QED
    BY <1>1, <1>3, <2>1, StaysBotched DEF At
<1>5. Follows(j)'
  BY <1>1, <1>3, <1>4 DEF Follows, Copied, Upserts, Vectoring, At, Active
<1>6. ActiveIsComplete'
  BY <1>1, <1>3, StillComplete DEF Gone
<1>7. AllHonest'
  BY <1>1, <1>3, StillHonest DEF At
<1> QED
  BY <1>5, <1>6, <1>7 DEF Settled

\* A report is added to the document of the start, which names the generation
\* that is still the active one.
LEMMA PersistSettles ==
  ASSUME "late" \notin Faults, ActiveInv, NEW j \in Jobs, Persist(j) PROVE Settled(j)
<1>1. /\ index' = index /\ At(j, "check") /\ job[j].looked # "nothing"
      /\ job[j].doc.gen = store[job[j].item].gen /\ Honest(job[j].doc)
      /\ Kind[j] = "reindex" => Active(job[j].item)
      /\ job[j].looked = "gap" /\ job[j].doc.gen # NoGen => Botched
      /\ job[j].doc \in Document
      /\ store' = store \/ Write(job[j].item, Reported(j))
      /\ Stays(j, "check") \/ Over(j, "done") \/ Over(j, "failed")
  BY Known, Waits DEF Persist, WriteRaises, Fault, At, Follows, Copied, Grounded, Holding
<1>2. /\ job[j].item \in Ids /\ Exists(job[j].item)
      /\ Honest(Reported(j)) /\ Reported(j).gen = job[j].doc.gen
  <2>1. job[j].item \in Ids /\ Exists(job[j].item)
    BY <1>1, Known, ItemExists DEF At, Placed
  <2>2. Honest(Reported(j))
    BY <1>1, ReportedHonest
  <2>3. Reported(j).gen = job[j].doc.gen
    BY <1>1 DEF Reported, Document
  <2> QED
    BY <2>1, <2>2, <2>3
<1>3. \A i \in Ids : store'[i].gen = store[i].gen
  BY <1>1, <1>2, Known DEF Write
<1>4. Kind[j] # "reindex" \/ \E k \in Ids : Exists(k) /\ Active(k)
  BY <1>1, <1>2
<1>5. CASE Over(j, "done") \/ Over(j, "failed")
  BY <1>1, <1>2, <1>3, <1>4, <1>5, OverSettles DEF At, Gone
<1>6. CASE Stays(j, "check")
  <2>1. /\ Others(j) /\ job'[j].pc = "check" /\ job'[j].doc = job[j].doc
        /\ job'[j].looked = job[j].looked /\ job'[j].item = job[j].item
    BY <1>1, <1>6 DEF Stays, With, Onward
  <2>2. Botched => Botched'
    BY <1>1, <2>1, StaysBotched DEF At
  <2>3. Follows(j)'
    BY <1>1, <1>2, <1>3, <2>1, <2>2 DEF Follows, Copied, Upserts, Vectoring, At, Active
  <2>4. ActiveIsComplete'
    BY <1>1, <1>3, <2>1, StillComplete DEF Gone
  <2>5. AllHonest'
    BY <1>1, <1>2, <2>1, StillHonest DEF At
  <2> QED
    BY <2>3, <2>4, <2>5 DEF Settled
<1> QED
  BY <1>1, <1>5, <1>6

\* A decision is added to a document that names the active generation.
LEMMA EditSettles == ASSUME ActiveInv, NEW j \in Jobs, EditSave(j) PROVE Settled(j)
<1>1. /\ index' = index /\ At(j, "decide") /\ Over(j, "done")
      /\ job[j].doc.gen = store[job[j].item].gen /\ Honest(job[j].doc)
      /\ job[j].doc \in Document
  BY Known, Waits DEF EditSave, At, Follows, Copied, Grounded, Holding
<1>2. PICK status \in Review : Write(job[j].item, Decided(j, status))
  BY DEF EditSave
<1>3. /\ job[j].item \in Ids
      /\ Honest(Decided(j, status)) /\ Decided(j, status).gen = job[j].doc.gen
  BY <1>1, Known, ItemExists, DecidedHonest DEF At, Placed
<1>4. \A i \in Ids : store'[i].gen = store[i].gen
  BY <1>1, <1>2, <1>3, Known DEF Write
<1>5. Kind[j] # "reindex"
  BY <1>1, Known DEF Follows, At
<1> QED
  BY <1>1, <1>2, <1>3, <1>4, <1>5, OverSettles DEF At, Gone

\* Failures write nothing, and remove only what no record names.
LEMMA FailSettles ==
  ASSUME "late" \notin Faults, ActiveInv, NEW j \in Jobs,
         EmbedFails(j) \/ ActivateFails(j) \/ WorkFails(j) \/ SaveFails(j) \/ Crash(j)
  PROVE  Settled(j)
<1>1. /\ store' = store /\ ~At(j, "failed")
      /\ Over(j, "failed") \/ Over(j, "start")
  BY Known, Waits, Crashed
     DEF EmbedFails, ActivateFails, WorkFails, SaveFails, Crash, Upserting, At, Running, Ended,
         WriteRaises, Fault
<1>2. \A i \in Ids : store[i].gen # NoGen => index'[store[i].gen] = index[store[i].gen]
  <2>1. CASE UNCHANGED index
    BY <2>1
  <2>2. CASE Builds(job[j]) /\ Remove(job[j].gen)
    <3>1. \A i \in Ids : store[i].gen # job[j].gen
      BY <2>2, Known, NotBuilt
    <3> QED
      BY <2>2, <3>1, Known DEF Remove, Typed
  <2> QED
    BY <2>1, <2>2 DEF EmbedFails, ActivateFails, WorkFails, SaveFails, Crash, At, Builds
<1> QED
  BY <1>1, <1>2, OverSettles

LEMMA AllSettle ==
  ASSUME IndexesAlone, "late" \notin Faults, ActiveInv, NEW j \in Jobs, Step(j) \/ Failure(j)
  PROVE  Settled(j)
BY SubmitSettles, SearchSettles, UpsertSettles, LoadSettles, SaveSettles, EmbedSettles,
   ActivateSettles, PruneSettles, WipeSettles, CheckSettles, PersistSettles, EditSettles,
   FailSettles
   DEF Step, Failure

------------------------------------------------------------------------------
\* A scrutiny or an edit leaves the active generation as it is.
LEMMA Quiet ==
  ASSUME "late" \notin Faults, ActiveInv, NEW j \in Jobs, Step(j) \/ Failure(j),
         Kind[j] \notin Extracting \cup Indexing
  PROVE  \A i \in Ids : store'[i].gen = store[i].gen
<1>1. /\ job[j].pc \notin Upserts \cup Vectoring
      /\ job[j].pc \in Copied => job[j].doc.gen = store[job[j].item].gen
  BY Known DEF Follows
<1>2. CASE Persist(j)
  <2>1. /\ At(j, "check") /\ job[j].doc \in Document
        /\ store' = store \/ Write(job[j].item, Reported(j))
    BY <1>2, Known DEF Persist, WriteRaises, Fault, At, Grounded, Holding
  <2>2. Reported(j).gen = job[j].doc.gen
    BY <2>1 DEF Reported, Document
  <2>3. job[j].doc.gen = store[job[j].item].gen
    BY <1>1, <2>1 DEF At, Copied
  <2> QED
    BY <2>1, <2>2, <2>3, Known DEF Write
<1>3. CASE EditSave(j)
  <2>1. PICK status \in Review : Write(job[j].item, Decided(j, status))
    BY <1>3 DEF EditSave
  <2>2. At(j, "decide") /\ job[j].doc \in Document
    BY <1>3, Known DEF EditSave, At, Grounded, Holding
  <2>3. Decided(j, status).gen = job[j].doc.gen
    BY <2>2 DEF Decided, Document
  <2>4. job[j].doc.gen = store[job[j].item].gen
    BY <1>1, <2>2 DEF At, Copied
  <2> QED
    BY <2>1, <2>3, <2>4, Known DEF Write
<1>4. CASE ~Persist(j) /\ ~EditSave(j)
  <2>1. store' = store
    BY <1>1, <1>4
       DEF Step, Failure, Submit, Wipe, Extract, RequestedMissing, Search, Update, Create,
           IndexLoad, IndexSave, Embed, Embedded, Activate, Prune, ScrutinyLoad, Check, EditLoad,
           WipeFails, EmbedFails, ActivateFails, WorkFails, SaveFails, Crash, WriteRaises, Fault,
           At, Upserting, Upserts, Vectoring
  <2> QED
    BY <2>1
<1> QED
  BY <1>2, <1>3, <1>4

\* The other jobs keep to the record.
LEMMA OthersFollow ==
  ASSUME IndexesAlone, "late" \notin Faults, ActiveInv, NEW j \in Jobs, Step(j) \/ Failure(j),
         NEW k \in Jobs \ {j}
  PROVE  Follows(k)'
<1>1. /\ Others(j) /\ job'[k] = job[k] /\ Follows(k)
      /\ Running(j) \/ (Submit(j) /\ MayStart(j))
  BY Known, OneMoves DEF Others
<1>2. CASE ~Running(k)
  BY <1>1, <1>2 DEF Running, Ended, Follows, Copied, Upserts, Vectoring, At
<1>3. CASE Running(k)
  <2>1. Kind[k] \notin Extracting \cup Indexing /\ Kind[j] \in Together
    BY <1>1, <1>3 DEF ActiveInv, RecordInv, Ordered, MayStart, IndexesAlone
  <2>2. \A i \in Ids : store'[i].gen = store[i].gen
    BY <2>1, Quiet DEF IndexesAlone
  <2>3. job[k].pc \in Copied => job[k].item \in Ids
    BY Known, ItemExists DEF Copied, Placed
  <2>4. Botched => Botched'
    <3>1. ~At(j, "failed")
      BY <1>1 DEF Running, Ended, At, Submit
    <3> QED
      BY <1>1, <3>1, StaysBotched
  <2>5. job[k].pc \notin Upserts \cup Vectoring \cup {"wipe"} /\ Kind[k] # "reindex"
    BY <1>1, <2>1, Known DEF Follows, At, Indexing
  <2> QED
    BY <1>1, <2>2, <2>3, <2>4, <2>5 DEF Follows, At, Upserts, Vectoring
<1> QED
  BY <1>2, <1>3

LEMMA ActiveStep ==
  IndexesAlone /\ "late" \notin Faults /\ ActiveInv /\ [Next]_vars => ActiveInv'
<1> SUFFICES ASSUME IndexesAlone, "late" \notin Faults, ActiveInv, [Next]_vars
             PROVE  ActiveInv'
  OBVIOUS
<1>1. RecordInv'
  BY RecordStep DEF ActiveInv, IndexesAlone, ExtractsAlone
<1>2. CASE UNCHANGED vars
  BY <1>1, <1>2 DEF vars, ActiveInv, ActiveIsComplete, AllHonest, Honest, Botched, Follows,
     Active, At, Wiped, Current
<1>3. ASSUME NEW j \in Jobs, Step(j) \/ Failure(j) PROVE ActiveInv'
  <2>1. Settled(j) /\ \A k \in Jobs \ {j} : Follows(k)'
    BY <1>3, AllSettle, OthersFollow
  <2> QED
    BY <1>1, <2>1 DEF ActiveInv, Settled
<1> QED
  BY <1>2, <1>3 DEF Next

LEMMA ActiveInit == Init => ActiveInv
<1> SUFFICES ASSUME Init PROVE ActiveInv
  OBVIOUS
<1>1. RecordInv
  BY RecordInit
<1>2. /\ \A i \in Ids : store[i] = Absent
      /\ \A j \in Jobs : job[j] = Blank("new", NoId)
  BY DEF Init
<1>3. ActiveIsComplete
  BY <1>2 DEF ActiveIsComplete, Absent
<1>4. AllHonest
  BY <1>2, NewHonest DEF AllHonest, Blank
<1>5. \A j \in Jobs : Follows(j)
  BY <1>2 DEF Follows, Blank, At, Copied, Upserts, Vectoring
<1> QED
  BY <1>1, <1>3, <1>4, <1>5 DEF ActiveInv

\* The invariant of the active generation and of the report.
THEOREM ActiveInvariant ==
  ASSUME IndexesAlone, "late" \notin Faults
  PROVE  Spec => []ActiveInv
BY ActiveInit, ActiveStep, PTL DEF Spec

\* The generation that a filing names as active is completely in Pinecone,
\* whatever crashes or fails between embedding, activation and deletion of the
\* one before; not when an activation that raised may have taken effect.
THEOREM ActiveComplete ==
  ASSUME IndexesAlone, "late" \notin Faults
  PROVE  Spec => []ActiveIsComplete
<1>1. ActiveInv => ActiveIsComplete
  BY DEF ActiveInv
<1> QED
  BY <1>1, ActiveInvariant, PTL

\* A report that shows as current was made by checks that searched the whole
\* active generation, although each was stored with a copy read long before.
THEOREM ReportsHonest ==
  ASSUME IndexesAlone, "late" \notin Faults
  PROVE  Spec => []ReportHonest
<1>1. ActiveInv => ReportHonest
  <2>1. Botched => Wiped
    BY DEF Botched, Wiped, At
  <2> QED
    BY <2>1 DEF ActiveInv, AllHonest, Honest, ReportHonest
<1> QED
  BY <1>1, ActiveInvariant, PTL

------------------------------------------------------------------------------
(***************************************************************************)
(* The reviewer's decision                                                 *)
(***************************************************************************)
\* A copy that is not older than the decision has its status.
Copies(i) ==
  \A j \in Jobs \ behind[i] :
    job[j].pc \in Copied /\ job[j].item = i => job[j].doc.status = store[i].status

Stands(i) == undone[i] \/ (store[i].status = decision[i] /\ Copies(i))

DecisionInv == IInv /\ ReviewTypeOK /\ \A i \in Ids : Stands(i)

\* What a step other than a decision stores is the job's copy, with its status.
Carries(j) ==
  store' = store
  \/ \E doc \in Document : doc.status = job[j].doc.status /\ Write(job[j].item, doc)

LEMMA Writers ==
  ASSUME NEW j \in Jobs, Step(j) \/ Failure(j), store' # store
  PROVE  \/ Update(j) /\ Upserting(j)
         \/ Create(j) /\ At(j, "create")
         \/ IndexSave(j) /\ At(j, "save")
         \/ Activate(j) /\ At(j, "activate")
         \/ ActivateFails(j) /\ At(j, "activate")
         \/ Persist(j) /\ At(j, "check")
         \/ EditSave(j) /\ At(j, "decide")
         \/ SaveFails(j) /\ (Upserting(j) \/ job[j].pc \in {"create", "save", "decide"})
<1> USE DEF At
<1>1. Update(j) => Upserting(j)
  BY DEF Update
<1>2. SaveFails(j) => Upserting(j) \/ job[j].pc \in {"create", "save", "decide"}
  BY DEF SaveFails
<1> QED
  BY <1>1, <1>2
     DEF Step, Failure, Submit, Wipe, Extract, RequestedMissing, Search, Create, IndexLoad,
         IndexSave, Embed, Embedded, Activate, Prune, ScrutinyLoad, Check, Persist, EditLoad,
         EditSave, WipeFails, EmbedFails, ActivateFails, WorkFails, Crash

\* A step decides, or it stores nothing but the job's copy.
LEMMA StatusCarried ==
  ASSUME IInv, NEW j \in Jobs, Step(j) \/ Failure(j), store' # store
  PROVE  \/ job[j].pc \in {"upsert", "update", "create", "decide"}
         \/ job[j].pc \in Copied /\ Carries(j)
<1>1. IInv /\ job[j] \in Job /\ Grounded(j)
  BY Memory
<1>2. CASE IndexSave(j)
  BY <1>1, <1>2 DEF IndexSave, Carries, At, Copied, Grounded, Holding
<1>3. CASE Activate(j) \/ ActivateFails(j)
  <2>1. At(j, "activate") /\ job[j].doc \in Document
    BY <1>1, <1>3 DEF Activate, ActivateFails, At, Grounded, Holding
  <2>2. Activated(j) \in Document /\ Activated(j).status = job[j].doc.status
    BY <1>1, <2>1 DEF Activated, Document, Job
  <2>3. Write(job[j].item, Activated(j))
    BY <1>3 DEF Activate, ActivateFails, WriteRaises
  <2> QED
    BY <2>1, <2>2, <2>3 DEF Carries, At, Copied
<1>4. CASE Persist(j)
  <2>1. At(j, "check") /\ job[j].doc \in Document
    BY <1>1, <1>4 DEF Persist, At, Grounded, Holding
  <2>2. Reported(j) \in Document
    BY <1>1, <2>1, ReportedSound
  <2>3. Reported(j).status = job[j].doc.status
    BY <2>1 DEF Reported, Document
  <2>4. Write(job[j].item, Reported(j))
    BY <1>4 DEF Persist, WriteRaises
  <2> QED
    BY <2>1, <2>2, <2>3, <2>4 DEF Carries, At, Copied
<1>5. CASE SaveFails(j) /\ At(j, "save")
  <2>1. WriteRaises(job[j].item, job[j].doc)
    BY <1>5 DEF SaveFails, Upserting, At
  <2> QED
    BY <1>1, <1>5, <2>1 DEF WriteRaises, Carries, At, Copied, Grounded, Holding
<1> QED
  BY <1>2, <1>3, <1>4, <1>5, Writers DEF At, Upserting

\* The copy that job j has after its step: the one it had, with the item, or
\* one of what is stored by now.
Fresh(j) ==
  job'[j].pc \in Copied =>
    \/ job[j].pc \in Copied /\ job'[j].item = job[j].item
         /\ job'[j].doc.status = job[j].doc.status
    \/ job'[j].item \in Ids /\ job'[j].doc.status = store'[job'[j].item].status

LEMMA CopyStep ==
  ASSUME IInv, NEW j \in Jobs, Step(j) \/ Failure(j)
  PROVE  Fresh(j)
<1>k. job[j] \in Job /\ Grounded(j) /\ store \in [Ids -> Document \cup {Absent}]
  BY Memory DEF IInv, TypeOK
<1> USE DEF Fresh, Copied, At
<1>1. ASSUME NEW label, Over(j, label), label \in {"wipe", "start", "done", "failed"}
      PROVE  Fresh(j)
  BY <1>1 DEF Over
<1>2. CASE Extract(j) \/ RequestedMissing(j) \/ Search(j) \/ Wipe(j)
  <2>1. job'[j].pc \in {"upsert", "search", "create", "update", "start"}
    BY <1>2, Waits, Loads DEF Stays, With, Onward
  <2> QED
    BY <2>1
<1>3. CASE Update(j) \/ Create(j)
  <2>1. PICK i \in Ids : /\ Write(i, job[j].doc)
                         /\ With(j, "embed", i, job[j].doc) \/ Over(j, "done")
    <3>1. Update(j) => job[j].item \in Ids
      BY ItemExists DEF Update
    <3> QED
      BY <1>3, <3>1, Waits, Makes DEF Update, Stays
  <2>2. CASE With(j, "embed", i, job[j].doc)
    BY <1>k, <2>1, <2>2 DEF With, Onward, Write
  <2> QED
    BY <1>1, <2>1, <2>2
<1>4. CASE IndexLoad(j) \/ EditLoad(j) \/ ScrutinyLoad(j)
  <2>1. store' = store /\ job[j].item \in Ids
    BY <1>4, ItemExists
       DEF IndexLoad, EditLoad, ScrutinyLoad, Placed, Indexing, Extracting
  <2>2. \/ With(j, "save", job[j].item, store[job[j].item])
        \/ With(j, "decide", job[j].item, store[job[j].item])
        \/ With(j, "check", job[j].item, store[job[j].item])
        \/ Over(j, "failed")
    BY <1>4, Loads
  <2> QED
    BY <1>1, <2>1, <2>2 DEF With, Onward
<1>5. CASE IndexSave(j) \/ Embed(j) \/ Embedded(j) \/ Check(j)
  <2>1. job[j].pc \in {"save", "embed", "embedding", "check"}
    BY <1>5 DEF IndexSave, Embed, Embedded, Check
  <2>2. job'[j].item = job[j].item /\ job'[j].doc = job[j].doc
    BY <1>5, Waits, Makes DEF Stays, With, Onward
  <2> QED
    BY <2>1, <2>2
<1>6. CASE Activate(j)
  <2>1. job[j].pc = "activate" /\ job[j].doc \in Document
    BY <1>6, <1>k DEF Activate, Grounded, Holding
  <2>2. job'[j].item = job[j].item /\ job'[j].doc = Activated(j)
    BY <1>6, Makes DEF Onward
  <2>3. Activated(j).status = job[j].doc.status
    BY <2>1 DEF Activated, Document
  <2> QED
    BY <2>1, <2>2, <2>3
<1>7. CASE Persist(j) \/ Prune(j)
  <2>1. job[j].pc \in {"check", "prune"}
    BY <1>7 DEF Persist, Prune
  <2>2. \/ Stays(j, "check") \/ Stays(j, "scrutinise")
        \/ Over(j, "done") \/ Over(j, "failed")
    BY <1>7, Waits
  <2> QED
    BY <1>1, <2>1, <2>2 DEF Stays, With, Onward
<1>8. CASE Submit(j) \/ Crash(j) \/ EditSave(j) \/ WipeFails(j) \/ EmbedFails(j)
           \/ ActivateFails(j) \/ WorkFails(j) \/ SaveFails(j)
  BY <1>1, <1>8, Submitted, Crashed, Waits
<1> QED
  BY <1>2, <1>3, <1>4, <1>5, <1>6, <1>7, <1>8 DEF Step, Failure

\* Who forgets the copy is not in Copied, or has read what is stored.
LEMMA Forgotten ==
  ASSUME IInv, NEW j \in Jobs, Step(j) \/ Failure(j), NEW k \in Jobs, Forgets(k),
         IInv', job'[k].pc \in Copied
  PROVE  k = j /\ store' = store /\ job'[k].item \in Ids
           /\ job'[k].doc.status = store'[job'[k].item].status
<1>1. /\ Others(j) /\ Grounded(k)' /\ Absent \notin Document
  BY OneMoves, Memory DEF IInv, Absent, Document, Review
<1>2. job'[k].doc \in Document
  BY <1>1 DEF Grounded, Copied, Holding
<1>3. job[k].pc = "scrutinise" /\ job'[k].pc = "check"
  BY <1>1, <1>2 DEF Forgets
<1>4. k = j
  BY <1>1, <1>3 DEF Others
<1>5. store' = store
  BY <1>3, <1>4, Writers DEF Upserting, At
<1>6. job'[k].item \in Ids /\ job'[k].doc.status = store'[job'[k].item].status
  BY <1>3, <1>4, CopyStep DEF Fresh, Copied
<1> QED
  BY <1>4, <1>5, <1>6

\* A decision puts every other copy behind.
LEMMA Decides ==
  ASSUME DecisionInv, IInv', NEW j \in Jobs, Step(j) \/ Failure(j), Remember(j),
         NEW i \in Ids, DecidesOn(j, i)
  PROVE  Stands(i)'
<1>1. Others(j) /\ Fresh(j) /\ IInv /\ Absent \notin Document
  BY OneMoves, CopyStep DEF DecisionInv, Absent, Document, Review
<1>2. decision'[i] = store'[i].status /\ behind'[i] = Holders(i) \ {j}
  BY DEF Remember
<1>3. ASSUME NEW k \in Jobs \ {j}, job'[k].pc \in Copied, job'[k].item = i
      PROVE  k \in behind'[i]
  <2>1. job[k].doc \in Document /\ job[k].item = i
    BY <1>1, <1>3, Memory DEF Others, Grounded, Copied, Holding
  <2> QED
    BY <1>1, <1>2, <2>1 DEF Holders
<1>4. job'[j].pc \in Copied /\ job'[j].item = i => job'[j].doc.status = store'[i].status
  <2>1. CASE job[j].pc \in {"upsert", "update", "create"}
    BY <1>1, <2>1 DEF Fresh, Copied
  <2>2. CASE job[j].pc = "decide"
    <3>1. job'[j].pc = "done" \/ EditSave(j) \/ SaveFails(j)
      BY <2>2, Writers DEF DecidesOn, Upserting, At
    <3>2. job'[j].pc \in {"done", "failed"}
      BY <1>1, <3>1, Waits DEF Over
    <3> QED
      BY <3>2 DEF Copied
  <2> QED
    BY <2>1, <2>2 DEF DecidesOn, At
<1> QED
  BY <1>2, <1>3, <1>4 DEF Stands, Copies

\* Any other step leaves the status, or replaces it by one that is behind.
LEMMA Keeping ==
  ASSUME DecisionInv, IInv', NEW j \in Jobs, Step(j) \/ Failure(j), Remember(j),
         NEW i \in Ids, ~DecidesOn(j, i)
  PROVE  Stands(i)'
<1>1. /\ Others(j) /\ Fresh(j) /\ IInv /\ store \in [Ids -> Document \cup {Absent}]
      /\ undone \in [Ids -> BOOLEAN]
  BY OneMoves, CopyStep DEF DecisionInv, ReviewTypeOK, IInv, TypeOK
<1>2. /\ decision'[i] = decision[i] /\ behind'[i] = {k \in behind[i] : ~Forgets(k)}
      /\ undone'[i] = (undone[i] \/ (j \in behind[i] /\ store'[i].status # store[i].status))
  BY DEF Remember
<1> SUFFICES ASSUME ~undone'[i] PROVE store'[i].status = decision'[i] /\ Copies(i)'
  BY DEF Stands
<1>3. /\ ~undone[i] /\ store[i].status = decision[i] /\ Copies(i)
      /\ j \in behind[i] => store'[i].status = store[i].status
  BY <1>2 DEF DecisionInv, Stands
<1>4. store'[i].status = store[i].status
  <2> SUFFICES ASSUME store'[i] # store[i], j \notin behind[i]
               PROVE  store'[i].status = store[i].status
    BY <1>3
  <2>1. job[j].pc \in Copied /\ Carries(j)
    BY <1>1, StatusCarried DEF DecidesOn
  <2>2. job[j].item = i /\ store'[i].status = job[j].doc.status
    BY <1>1, <2>1 DEF Carries, Write
  <2> QED
    BY <1>3, <2>1, <2>2 DEF Copies
<1>5. ASSUME NEW k \in Jobs \ behind'[i], job'[k].pc \in Copied, job'[k].item = i
      PROVE  job'[k].doc.status = store'[i].status
  <2>1. CASE k \in behind[i]
    BY <1>1, <1>2, <1>5, <2>1, Forgotten
  <2>2. CASE k \notin behind[i] /\ k # j
    BY <1>1, <1>3, <1>4, <1>5, <2>2 DEF Others, Copies
  <2>3. CASE k \notin behind[i] /\ k = j
    BY <1>1, <1>3, <1>4, <1>5, <2>3 DEF Fresh, Copies
  <2> QED
    BY <2>1, <2>2, <2>3
<1> QED
  BY <1>2, <1>3, <1>4, <1>5 DEF Copies

LEMMA DecisionInit == ReviewInit => DecisionInv
<1> SUFFICES ASSUME ReviewInit PROVE DecisionInv
  OBVIOUS
<1>1. IInv
  BY InvInit DEF ReviewInit
<1>2. ReviewTypeOK
  BY DEF ReviewInit, ReviewTypeOK
<1>3. \A j \in Jobs : job[j].pc = "new"
  BY DEF ReviewInit, Init, Blank
<1>4. \A i \in Ids : store[i].status = decision[i]
  BY DEF ReviewInit, Init
<1> QED
  BY <1>1, <1>2, <1>3, <1>4 DEF DecisionInv, Stands, Copies, Copied

LEMMA DecisionStep == DecisionInv /\ [ReviewNext]_<<vars, history>> => DecisionInv'
<1> SUFFICES ASSUME DecisionInv, [ReviewNext]_<<vars, history>> PROVE DecisionInv'
  OBVIOUS
<1>1. CASE UNCHANGED <<vars, history>>
  <2>1. IInv'
    BY <1>1, InvStep DEF DecisionInv
  <2> QED
    BY <1>1, <2>1 DEF vars, history, DecisionInv, ReviewTypeOK, Stands, Copies
<1>2. CASE ReviewNext
  <2>1. PICK j \in Jobs : (Step(j) \/ Failure(j)) /\ Remember(j)
    BY <1>2 DEF ReviewNext
  <2>2. IInv'
    BY <2>1, InvStep DEF Next, DecisionInv
  <2>3. ReviewTypeOK'
    <3>1. store' \in [Ids -> Document \cup {Absent}]
      BY <2>2 DEF IInv, TypeOK
    <3>2. \A i \in Ids : store'[i].status \in Review \cup {Absent.status}
      BY <3>1 DEF Document
    <3> QED
      BY <2>1, <3>2 DEF Remember, ReviewTypeOK, DecisionInv, Holders
  <2> QED
    BY <2>1, <2>2, <2>3, Decides, Keeping DEF DecisionInv
<1> QED
  BY <1>1, <1>2

\* "A reviewer's decision stands until the next one, unless a job that had read
\* the filing before it saves its copy": for any jobs, whichever of them
\* overlap, and all faults, late writes included.
THEOREM ReviewerIsKept == ReviewSpec => []DecisionStands
<1>1. ReviewInit => DecisionInv
  BY DecisionInit
<1>2. DecisionInv /\ [ReviewNext]_<<vars, history>> => DecisionInv'
  BY DecisionStep
<1>3. DecisionInv => DecisionStands
  BY DEF DecisionInv, Stands, DecisionStands
<1> QED
  BY <1>1, <1>2, <1>3, PTL DEF ReviewSpec

\* The history only observes: without it the steps are those of FilingRecord.
THEOREM ObservesFilingRecord == ReviewSpec => Spec
<1>1. ReviewInit => Init
  BY DEF ReviewInit
<1>2. [ReviewNext]_<<vars, history>> => [Next]_vars
  BY DEF ReviewNext, Next, vars, history
<1> QED
  BY <1>1, <1>2, PTL DEF ReviewSpec, Spec
------------------------------------------------------------------------------
(***************************************************************************)
(* The vectors that nobody uses                                            *)
(***************************************************************************)
\* The stages of an extraction: before it writes the document, and while it
\* then indexes, which "extract" does not.
Early == {"start", "upsert", "search", "update", "create"}
Late == {"embed", "embedding", "activate", "prune"}

\* A restarted extraction has named no generation and replaces none.
Tracks(j) ==
  /\ Kind[j] = "extract" => job[j].pc \in Early \cup {"new", "done", "failed"}
  /\ Kind[j] = "file" => job[j].pc \in Early \cup Late \cup {"new", "done", "failed"}
  /\ Kind[j] = "file" /\ job[j].pc \in Late \ {"prune"} => job[j].doc.gen = NoGen
  /\ Kind[j] = "file" /\ At(j, "prune") => job[j].prev = NoGen

\* The generation that a job still has to activate, or to delete.
HeldBy(j) ==
  IF Builds(job[j]) THEN {job[j].gen} ELSE IF At(j, "prune") THEN {job[j].prev} ELSE {}

Leaked ==
  {g \in Gens : /\ index[g] # "none" /\ \A i \in Ids : store[i].gen # g
                /\ \A j \in Jobs : g \notin HeldBy(j)}

\* An extraction that runs is going to replace a document that names a
\* generation.
Replacing(j) == Kind[j] \in Extracting /\ job[j].pc \in Early
Names == \E i \in Ids : store[i].gen # NoGen
Due == Names /\ \E j \in Jobs : Replacing(j)
Debt == Cardinality(Leaked) + (IF Due THEN 1 ELSE 0)

\* The extractions that run or got as far as the document.
Counts(j) ==
  Kind[j] \in Extracting /\ \/ Running(j) \/ At(j, "done")
                            \/ Kind[j] = "file" /\ At(j, "failed")
Counted == {j \in Jobs : Counts(j)}

\* The first of them has replaced nothing.
Balanced ==
  /\ IsFiniteSet(Counted)
  /\ Found = {} => Leaked = {}
  /\ Found # {} => Debt < faults + Cardinality(Counted)

LeakInv == ActiveInv /\ Balanced /\ \A j \in Jobs : Tracks(j)

------------------------------------------------------------------------------
LEMMA LeakKnown ==
  ASSUME LeakInv, NEW j \in Jobs
  PROVE  /\ ActiveInv /\ IInv /\ Balanced /\ Tracks(j) /\ Follows(j)
         /\ job[j] \in Job /\ Grounded(j) /\ faults \in Nat
         /\ store \in [Ids -> Document \cup {Absent}] /\ index \in Typed
         /\ job[j].pc \in Upserts => Kind[j] \in Extracting
<1>1. faults \in 0..MaxFaults
  BY Known, Memory DEF LeakInv
<1> QED
  BY <1>1, Known DEF LeakInv

LEMMA SomeGens ==
  ASSUME NEW S \in SUBSET Gens
  PROVE  IsFiniteSet(S) /\ Cardinality(S) \in Nat
<1>1. IsFiniteSet(Gens)
  BY FS_Interval, FilingAssumption DEF Gens
<1> QED
  BY <1>1, FS_Subset, FS_CardinalityType

LEMMA OneMore ==
  ASSUME NEW S, IsFiniteSet(S), NEW x
  PROVE  /\ IsFiniteSet(S \cup {x}) /\ Cardinality(S \cup {x}) \in Nat
         /\ Cardinality(S \cup {x}) <= Cardinality(S) + 1
<1>1. Cardinality(S) \in Nat
  BY FS_CardinalityType
<1>2. /\ IsFiniteSet(S \cup {x})
      /\ Cardinality(S \cup {x}) = IF x \in S THEN Cardinality(S) ELSE Cardinality(S) + 1
  BY FS_AddElement
<1> QED
  BY <1>1, <1>2

\* What is lost in a step is what its job gave up, what the record no longer
\* names, or what was made.
LEMMA Lost ==
  ASSUME NEW j \in Jobs, Others(j), NEW G,
         \A g \in Gens \ G :
           /\ index'[g] # "none" /\ g \notin HeldBy(j)'
           /\ \A i \in Ids : store'[i].gen # g
           => /\ index[g] # "none" /\ g \notin HeldBy(j)
              /\ \A i \in Ids : store[i].gen # g
  PROVE  Leaked' \subseteq Leaked \cup G
<1> SUFFICES ASSUME NEW g \in Leaked', g \notin G PROVE g \in Leaked
  OBVIOUS
<1>1. /\ g \in Gens /\ index'[g] # "none" /\ \A i \in Ids : store'[i].gen # g
      /\ \A k \in Jobs : g \notin HeldBy(k)'
  BY DEF Leaked
<1>2. \A k \in Jobs \ {j} : g \notin HeldBy(k)
  BY <1>1 DEF Others, HeldBy, Builds, At
<1> QED
  BY <1>1, <1>2 DEF Leaked

\* One generation at most.
LEMMA LostOne ==
  ASSUME NEW g, Leaked' \subseteq Leaked \cup {g}
  PROVE  /\ Cardinality(Leaked) \in Nat /\ Cardinality(Leaked') \in Nat
         /\ Cardinality(Leaked') <= Cardinality(Leaked) + 1
<1>1. Leaked \in SUBSET Gens /\ Leaked' \in SUBSET Gens
  BY DEF Leaked
<1>2. /\ IsFiniteSet(Leaked) /\ Cardinality(Leaked) \in Nat
      /\ IsFiniteSet(Leaked') /\ Cardinality(Leaked') \in Nat
  BY <1>1, SomeGens
<1>3. /\ IsFiniteSet(Leaked \cup {g}) /\ Cardinality(Leaked \cup {g}) \in Nat
      /\ Cardinality(Leaked \cup {g}) <= Cardinality(Leaked) + 1
  BY <1>2, OneMore
<1>4. Cardinality(Leaked') <= Cardinality(Leaked \cup {g})
  BY <1>3, FS_Subset
<1> QED
  BY <1>2, <1>3, <1>4

LEMMA LostNone ==
  ASSUME Leaked' \subseteq Leaked
  PROVE  /\ Cardinality(Leaked) \in Nat /\ Cardinality(Leaked') \in Nat
         /\ Cardinality(Leaked') <= Cardinality(Leaked)
<1>1. Leaked \in SUBSET Gens /\ Leaked' \in SUBSET Gens
  BY DEF Leaked
<1>2. /\ IsFiniteSet(Leaked) /\ Cardinality(Leaked) \in Nat /\ Cardinality(Leaked') \in Nat
  BY <1>1, SomeGens
<1> QED
  BY <1>2, FS_Subset

\* How many extractions count after a step of job j.
LEMMA Count ==
  ASSUME Balanced, NEW j \in Jobs, Others(j)
  PROVE  /\ IsFiniteSet(Counted') /\ Cardinality(Counted) \in Nat /\ Cardinality(Counted') \in Nat
         /\ (Counts(j) => Counts(j)') => Cardinality(Counted') >= Cardinality(Counted)
         /\ Cardinality(Counted') >= Cardinality(Counted) - 1
         /\ ~Counts(j) /\ Counts(j)' => Cardinality(Counted') = Cardinality(Counted) + 1
<1>1. \A k \in Jobs \ {j} : Counts(k)' <=> Counts(k)
  BY DEF Others, Counts, Running, At
<1>2. /\ Counted' \subseteq Counted \cup {j} /\ Counted \subseteq Counted' \cup {j}
      /\ (Counts(j) => Counts(j)') => Counted \subseteq Counted'
      /\ ~Counts(j) /\ Counts(j)' => j \notin Counted /\ Counted' = Counted \cup {j}
  BY <1>1 DEF Counted
<1>3. IsFiniteSet(Counted) /\ Cardinality(Counted) \in Nat
  BY FS_CardinalityType DEF Balanced
<1>4. /\ IsFiniteSet(Counted \cup {j})
      /\ j \notin Counted => Cardinality(Counted \cup {j}) = Cardinality(Counted) + 1
  BY <1>3, FS_AddElement
<1>5. IsFiniteSet(Counted') /\ Cardinality(Counted') \in Nat
  BY <1>2, <1>4, FS_Subset, FS_CardinalityType
<1>6. /\ IsFiniteSet(Counted' \cup {j})
      /\ Cardinality(Counted' \cup {j}) \in Nat
      /\ Cardinality(Counted' \cup {j}) <= Cardinality(Counted') + 1
  BY <1>5, OneMore
<1>7. Cardinality(Counted) <= Cardinality(Counted' \cup {j})
  BY <1>2, <1>6, FS_Subset
<1>8. Counted \subseteq Counted' => Cardinality(Counted) <= Cardinality(Counted')
  BY <1>5, FS_Subset
<1> QED
  BY <1>2, <1>3, <1>4, <1>5, <1>6, <1>7, <1>8

\* No other extraction runs beside a job that extracts or indexes.
LEMMA Alone ==
  ASSUME IndexesAlone, LeakInv, NEW j \in Jobs, NEW k \in Jobs \ {j},
         Running(j) \/ MayStart(j),
         Replacing(k)
  PROVE  FALSE
<1>1. Running(k) /\ Kind[k] \in Extracting
  BY DEF Replacing, Early, Running, Ended
<1>2. Kind[k] \in Together
  BY <1>1 DEF LeakInv, ActiveInv, RecordInv, Ordered, MayStart
<1> QED
  BY <1>1, <1>2 DEF IndexesAlone

LEMMA DueAfter ==
  ASSUME IndexesAlone, LeakInv, NEW j \in Jobs, Others(j), Running(j) \/ MayStart(j)
  PROVE  Due' => Names' /\ Replacing(j)'
<1> SUFFICES ASSUME Due' PROVE Names' /\ Replacing(j)'
  OBVIOUS
<1>1. Names' /\ \E k \in Jobs : Replacing(k)'
  BY DEF Due
<1>2. \A k \in Jobs \ {j} : Replacing(k)' <=> Replacing(k)
  BY DEF Others, Replacing
<1> QED
  BY <1>1, <1>2, Alone

\* The only record there is names a generation if any does.
LEMMA NamesOne ==
  ASSUME LeakInv, NEW k \in Ids, Exists(k)
  PROVE  \A i \in Ids : store[i].gen # NoGen => i = k
<1>1. \A i \in Ids : ~Exists(i) => store[i].gen = NoGen
  BY DEF Exists, Absent, Ids, NoId
<1> QED
  BY <1>1 DEF LeakInv, ActiveInv, RecordInv, OneRecord

\* No document is ever deleted.
LEMMA Remains ==
  ASSUME IInv, NEW j \in Jobs, Step(j) \/ Failure(j)
  PROVE  /\ Found \subseteq Found'
         /\ ~Create(j) /\ "late" \notin Faults /\ Found = {} => Found' = {}
<1>0. /\ job[j].doc \in Document \cup {Absent}
      /\ job[j].pc \in Holding => job[j].doc \in Document
      /\ store \in [Ids -> Document \cup {Absent}]
      /\ Absent \notin Document
  BY Memory DEF Grounded, IInv, TypeOK, Job, Absent, Document, Review
<1>1. \/ store' = store
      \/ \E i \in Ids, doc \in Document : Write(i, doc) /\ (Exists(i) \/ Create(j) \/ "late" \in Faults)
  <2>1. job[j].pc \in Placed \/ Upserting(j) => job[j].item \in Ids /\ Exists(job[j].item)
    BY ItemExists
  <2>2. At(j, "activate") => Activated(j) \in Document
    BY <1>0, Memory DEF Activated, Document, At, Holding, Job
  <2>3. At(j, "check") => Reported(j) \in Document
    BY <1>0, ReportedSound DEF At, Holding
  <2>4. At(j, "decide") => \A status \in Review : Decided(j, status) \in Document
    BY <1>0, DecidedSound DEF At, Holding
  <2>5. CASE Update(j) \/ IndexSave(j) \/ Create(j)
    BY <2>1, <2>5, <1>0 DEF Update, IndexSave, Create, Upserting, At, Holding, Placed
  <2>6. CASE Activate(j) \/ ActivateFails(j)
    BY <2>1, <2>2, <2>6 DEF Activate, ActivateFails, WriteRaises, At, Placed
  <2>7. CASE Persist(j)
    BY <2>1, <2>3, <2>7 DEF Persist, WriteRaises, At, Placed
  <2>8. CASE EditSave(j)
    BY <2>1, <2>4, <2>8 DEF EditSave, At, Placed
  <2>9. CASE SaveFails(j)
    BY <2>1, <2>4, <2>9, <1>0 DEF SaveFails, WriteRaises, Fault, Upserting, At, Holding, Placed
  <2> QED
    BY <2>5, <2>6, <2>7, <2>8, <2>9
       DEF Step, Failure, Submit, Wipe, Extract, RequestedMissing, Search, IndexLoad, Embed,
           Embedded, Prune, ScrutinyLoad, Check, EditLoad, WipeFails, EmbedFails, WorkFails, Crash
<1> QED
  BY <1>0, <1>1 DEF Found, Exists, Write

Paid(j) == Balanced' /\ Tracks(j)'

LEMMA Basics ==
  ASSUME IndexesAlone, LeakInv, NEW j \in Jobs, Step(j) \/ Failure(j)
  PROVE  /\ Others(j)
         /\ Running(j) \/ (~Running(j) /\ Submit(j) /\ MayStart(j))
         /\ faults \in Nat /\ faults' \in {faults, faults + 1}
         /\ Due' => Names' /\ Replacing(j)'
<1>1. /\ Others(j)
      /\ Running(j) \/ (~Running(j) /\ Submit(j) /\ MayStart(j))
  BY LeakKnown, OneMoves
<1>2. faults \in Nat
  BY LeakKnown
<1>3. faults' \in {faults, faults + 1}
  BY DEF Step, Failure, Submit, Acceptable, Wipe, Extract, RequestedMissing, Search, Update, Create,
         IndexLoad, IndexSave, Embed, Embedded, Activate, Prune, Pruned, ScrutinyLoad, Check,
         Persist, EditLoad, EditSave, WipeFails, EmbedFails, ActivateFails, WorkFails,
         SaveFails, Crash, WriteRaises, Fault
<1>4. Due' => Names' /\ Replacing(j)'
  BY <1>1, DueAfter
<1> QED
  BY <1>1, <1>2, <1>3, <1>4

\* A step that loses nothing and takes no extraction out of the count.
LEMMA Calm ==
  ASSUME IndexesAlone, "late" \notin Faults, LeakInv,
         NEW j \in Jobs, Step(j) \/ Failure(j), ~Create(j),
         Leaked' \subseteq Leaked, Due' => Due, Counts(j) => Counts(j)'
  PROVE  Balanced'
<1>1. /\ Balanced /\ Others(j) /\ faults \in Nat /\ faults' \in {faults, faults + 1}
      /\ Found = {} <=> Found' = {}
  <2>1. IInv /\ Balanced
    BY LeakKnown
  <2>2. Found \subseteq Found' /\ (Found = {} => Found' = {})
    BY <2>1, Remains
  <2> QED
    BY <2>1, <2>2, Basics
<1>2. /\ Cardinality(Leaked) \in Nat /\ Cardinality(Leaked') \in Nat
      /\ Cardinality(Leaked') <= Cardinality(Leaked)
  BY LostNone
<1>3. /\ IsFiniteSet(Counted') /\ Cardinality(Counted) \in Nat /\ Cardinality(Counted') \in Nat
      /\ Cardinality(Counted') >= Cardinality(Counted)
  BY <1>1, Count
<1> QED
  BY <1>1, <1>2, <1>3 DEF Balanced, Debt

\* A fault pays for a generation lost, for an extraction that no longer counts
\* or for one that begins again.
LEMMA FaultPays ==
  ASSUME IndexesAlone, "late" \notin Faults, LeakInv,
         NEW j \in Jobs, Step(j) \/ Failure(j), ~Create(j), faults' = faults + 1,
         NEW g,
         \/ Leaked' \subseteq Leaked /\ (Due' => Due)
         \/ Leaked' \subseteq Leaked /\ (Counts(j) => Counts(j)')
         \/ /\ Leaked' \subseteq Leaked \cup {g} /\ Found # {}
            /\ (Due' => Due) /\ (Counts(j) => Counts(j)')
  PROVE  Balanced'
<1>1. /\ Balanced /\ Others(j) /\ faults \in Nat
      /\ Found = {} <=> Found' = {}
  <2>1. IInv /\ Balanced
    BY LeakKnown
  <2>2. Found \subseteq Found' /\ (Found = {} => Found' = {})
    BY <2>1, Remains
  <2> QED
    BY <2>1, <2>2, Basics
<1>2. /\ Cardinality(Leaked) \in Nat /\ Cardinality(Leaked') \in Nat
      /\ Cardinality(Leaked') <= Cardinality(Leaked) + 1
      /\ Leaked' \subseteq Leaked => Cardinality(Leaked') <= Cardinality(Leaked)
  <2>1. Leaked' \subseteq Leaked \cup {g}
    OBVIOUS
  <2> QED
    BY <2>1, LostNone, LostOne
<1>3. /\ IsFiniteSet(Counted') /\ Cardinality(Counted) \in Nat /\ Cardinality(Counted') \in Nat
      /\ (Counts(j) => Counts(j)') => Cardinality(Counted') >= Cardinality(Counted)
      /\ Cardinality(Counted') >= Cardinality(Counted) - 1
  BY <1>1, Count
<1>4. CASE Found = {}
  BY <1>1, <1>3, <1>4 DEF Balanced
<1>5. CASE Found # {}
  <2>1. Debt < faults + Cardinality(Counted)
    BY <1>1, <1>5 DEF Balanced
  <2>2. Debt' < faults' + Cardinality(Counted')
    <3>1. CASE Leaked' \subseteq Leaked /\ (Due' => Due)
      BY <1>1, <1>2, <1>3, <2>1, <3>1 DEF Debt
    <3>2. CASE Leaked' \subseteq Leaked /\ (Counts(j) => Counts(j)')
      BY <1>1, <1>2, <1>3, <2>1, <3>2 DEF Debt
    <3>3. CASE (Due' => Due) /\ (Counts(j) => Counts(j)')
      BY <1>1, <1>2, <1>3, <2>1, <3>3 DEF Debt
    <3>4. \/ Leaked' \subseteq Leaked /\ (Due' => Due)
          \/ Leaked' \subseteq Leaked /\ (Counts(j) => Counts(j)')
          \/ (Due' => Due) /\ (Counts(j) => Counts(j)')
      OBVIOUS
    <3> QED
      BY <3>1, <3>2, <3>3, <3>4
  <2> QED
    BY <1>1, <1>3, <1>5, <2>2 DEF Balanced
<1> QED
  BY <1>4, <1>5

------------------------------------------------------------------------------
LEMMA SubmitPays ==
  ASSUME IndexesAlone, "late" \notin Faults, LeakInv, NEW j \in Jobs, Submit(j)
  PROVE  Paid(j)
<1>0. Step(j) \/ Failure(j)
  BY DEF Step
<1>1. PICK label \in {"wipe", "start"} : Over(j, label) /\ (label = "wipe" => Kind[j] = "reindex")
  BY LeakKnown, Submitted
<1>2. /\ store' = store /\ index' = index /\ At(j, "new") /\ ~Create(j)
      /\ Others(j) /\ job'[j].pc = label
  BY <1>1 DEF Submit, Over, Create, At
<1>3. Tracks(j)'
  BY <1>1, <1>2 DEF Tracks, Early, Late, At
<1>4. Leaked' \subseteq Leaked
  <2>1. HeldBy(j) = {}
    BY <1>2 DEF HeldBy, Builds, At
  <2> QED
    BY <1>2, <2>1, Lost
<1>5. CASE Kind[j] \notin Extracting
  <2>1. ~Due' /\ ~Counts(j)
    BY <1>0, <1>5, Basics DEF Replacing, Counts
  <2> QED
    BY <1>0, <1>2, <1>3, <1>4, <2>1, Calm DEF Paid
<1>6. CASE Kind[j] \in Extracting
  <2>1. ~Counts(j) /\ Counts(j)'
    BY <1>1, <1>2, <1>6 DEF Counts, Running, Ended, At, Extracting
  <2>2. /\ Balanced /\ faults \in Nat /\ faults' \in {faults, faults + 1}
        /\ Found = {} <=> Found' = {}
    BY <1>0, <1>2, LeakKnown, Basics, Remains
  <2>3. /\ Cardinality(Leaked) \in Nat /\ Cardinality(Leaked') \in Nat
        /\ Cardinality(Leaked') <= Cardinality(Leaked)
    BY <1>4, LostNone
  <2>4. /\ IsFiniteSet(Counted') /\ Cardinality(Counted) \in Nat
        /\ Cardinality(Counted') = Cardinality(Counted) + 1
    BY <1>2, <2>1, <2>2, Count
  <2>5. Balanced'
    BY <1>4, <2>2, <2>3, <2>4 DEF Balanced, Debt
  <2> QED
    BY <1>3, <2>5 DEF Paid
<1> QED
  BY <1>5, <1>6

LEMMA SearchPays ==
  ASSUME IndexesAlone, "late" \notin Faults, LeakInv, NEW j \in Jobs,
         Extract(j) \/ RequestedMissing(j) \/ Search(j)
  PROVE  Paid(j)
<1>0. Step(j) \/ Failure(j)
  BY DEF Step
<1>1. /\ store' = store /\ index' = index /\ ~Create(j)
      /\ Kind[j] \in Extracting /\ job[j].pc \in {"start", "upsert", "search"}
  BY LeakKnown DEF Extract, RequestedMissing, Search, Create, At, Upserts
<1>2. Others(j) /\ job'[j].pc \in Early
  BY LeakKnown, Waits, Loads DEF Stays, With, Onward, Early
<1>3. Tracks(j)'
  BY <1>2 DEF Tracks, Early, Late, At
<1>4. Leaked' \subseteq Leaked
  <2>1. HeldBy(j) = {}
    BY <1>1 DEF HeldBy, Builds, At
  <2> QED
    BY <1>1, <1>2, <2>1, Lost
<1>5. Due' => Due
  BY <1>0, <1>1, Basics DEF Due, Names, Replacing, Early
<1>6. Counts(j)'
  BY <1>1, <1>2 DEF Counts, Running, Ended, Early
<1> QED
  BY <1>0, <1>1, <1>3, <1>4, <1>5, <1>6, Calm DEF Paid

\* The document that is replaced may name a generation, which is then lost.
LEMMA UpdatePays ==
  ASSUME IndexesAlone, "late" \notin Faults, LeakInv, NEW j \in Jobs, Update(j)
  PROVE  Paid(j)
<1>0. Step(j) \/ Failure(j)
  BY DEF Step
<1>1. /\ index' = index /\ Kind[j] \in Extracting /\ job[j].pc \in {"upsert", "update"}
      /\ job[j].doc = Extracted /\ job[j].item \in Ids /\ Exists(job[j].item)
      /\ Write(job[j].item, Extracted) /\ ~Create(j)
  BY LeakKnown, ItemExists DEF Update, Upserting, At, Upserts, Follows, Create
<1>2. /\ Others(j) /\ job'[j].pc \in {"embed", "done"}
      /\ job'[j].pc = "embed" => Kind[j] = "file" /\ job'[j].doc = Extracted
  <2>1. Stays(j, "embed") \/ Over(j, "done")
    BY LeakKnown, Waits
  <2>2. Kind[j] # "file" => Over(j, "done")
    BY LeakKnown, GotoStops DEF Update, AfterUpsert, Ended
  <2> QED
    BY <1>1, <2>1, <2>2 DEF Stays, With, Onward, Over
<1>3. Tracks(j)'
  BY <1>2 DEF Tracks, Early, Late, At, Extracted
<1>4. Leaked' \subseteq Leaked \cup {store[job[j].item].gen}
  <2>1. HeldBy(j) = {}
    BY <1>1 DEF HeldBy, Builds, At
  <2>2. \A i \in Ids \ {job[j].item} : store'[i] = store[i]
    BY <1>1, LeakKnown DEF Write
  <2>3. \A g \in Gens \ {store[job[j].item].gen} :
          /\ index'[g] # "none" /\ g \notin HeldBy(j)'
          /\ \A i \in Ids : store'[i].gen # g
          => /\ index[g] # "none" /\ g \notin HeldBy(j)
             /\ \A i \in Ids : store[i].gen # g
    BY <1>1, <2>1, <2>2
  <2> QED
    BY <1>2, <2>3, Lost
<1>5. ~Due' /\ Counts(j)'
  BY <1>0, <1>1, <1>2, Basics DEF Replacing, Early, Counts, Running, Ended, At
<1>6. CASE store[job[j].item].gen = NoGen
  <2>1. Leaked' \subseteq Leaked
    BY <1>4, <1>6, FilingAssumption DEF Leaked, NoGen, Gens
  <2> QED
    BY <1>0, <1>1, <1>3, <1>5, <2>1, Calm DEF Paid
<1>7. CASE store[job[j].item].gen # NoGen
  <2>1. Due /\ Found # {}
    BY <1>1, <1>7 DEF Due, Names, Replacing, Early, Found
  <2>2. /\ Balanced /\ faults \in Nat /\ faults' = faults
        /\ Found = {} <=> Found' = {}
    BY <1>0, <1>1, LeakKnown, Remains DEF Update
  <2>3. /\ Cardinality(Leaked) \in Nat /\ Cardinality(Leaked') \in Nat
        /\ Cardinality(Leaked') <= Cardinality(Leaked) + 1
    BY <1>4, LostOne
  <2>4. /\ IsFiniteSet(Counted') /\ Cardinality(Counted) \in Nat /\ Cardinality(Counted') \in Nat
        /\ Cardinality(Counted') >= Cardinality(Counted)
    BY <1>2, <1>5, <2>2, Count
  <2>5. Balanced'
    BY <1>5, <2>1, <2>2, <2>3, <2>4 DEF Balanced, Debt
  <2> QED
    BY <1>3, <2>5 DEF Paid
<1> QED
  BY <1>6, <1>7

\* The first record.
LEMMA CreatePays ==
  ASSUME IndexesAlone, "late" \notin Faults, LeakInv, NEW j \in Jobs, Create(j)
  PROVE  Paid(j)
<1>0. Step(j) \/ Failure(j)
  BY DEF Step
<1>1. /\ index' = index /\ Kind[j] \in Extracting /\ At(j, "create") /\ faults' = faults
      /\ job[j].doc = Extracted /\ Found = {} /\ Balanced
  BY LeakKnown DEF Create, At, Upserts, Follows, ActiveInv, RecordInv, Creates
<1>2. PICK i \in Ids : /\ NewId(i) /\ Write(i, Extracted)
                       /\ With(j, "embed", i, Extracted) \/ Over(j, "done")
  BY <1>1, LeakKnown, Makes
<1>3. /\ Others(j) /\ job'[j].pc \in {"embed", "done"}
      /\ job'[j].pc = "embed" => Kind[j] = "file" /\ job'[j].doc = Extracted
  <2>1. Kind[j] # "file" => Over(j, "done")
    BY LeakKnown, Stops DEF Create, AfterUpsert, Ended
  <2> QED
    BY <1>2, <2>1 DEF With, Onward, Over
<1>4. Tracks(j)'
  BY <1>3 DEF Tracks, Early, Late, At, Extracted
<1>5. /\ \A k \in Ids : store[k].gen = NoGen
      /\ \A k \in Ids : store'[k].gen = NoGen
  <2>1. \A k \in Ids : store[k].gen = NoGen
    BY <1>1, FilingAssumption DEF Found, Exists, Absent, Ids, NoId
  <2> QED
    BY <1>2, <2>1, LeakKnown DEF Write, Extracted
<1>6. Leaked' = {}
  <2>1. HeldBy(j) = {}
    BY <1>1 DEF HeldBy, Builds, At
  <2>2. \A g \in Gens : g # NoGen
    BY DEF Gens, NoGen
  <2>3. Leaked' \subseteq Leaked \cup {}
    BY <1>1, <1>3, <1>5, <2>1, <2>2, Lost
  <2> QED
    BY <1>1, <2>3 DEF Balanced
<1>7. ~Due' /\ Counts(j)'
  BY <1>1, <1>3, <1>5 DEF Due, Names, Counts, Running, Ended, At
<1>8. /\ IsFiniteSet(Counted') /\ Cardinality(Counted') \in Nat /\ Cardinality(Counted') # 0
  <2>1. IsFiniteSet(Counted') /\ Cardinality(Counted') \in Nat
    BY <1>1, <1>3, Count
  <2>2. j \in Counted'
    BY <1>7 DEF Counted
  <2> QED
    BY <2>1, <2>2, FS_EmptySet
<1>9. Cardinality(Leaked') = 0
  BY <1>6, FS_EmptySet
<1>10. Balanced'
  BY <1>1, <1>6, <1>7, <1>8, <1>9, LeakKnown DEF Balanced, Debt
<1> QED
  BY <1>4, <1>10 DEF Paid

\* Steps of jobs that extract nothing, and write what names the generation that
\* the record names.
LEMMA OthersPay ==
  ASSUME IndexesAlone, "late" \notin Faults, LeakInv, NEW j \in Jobs,
         Wipe(j) \/ WipeFails(j) \/ IndexLoad(j) \/ IndexSave(j) \/ ScrutinyLoad(j) \/ Check(j)
           \/ Persist(j) \/ EditLoad(j) \/ EditSave(j)
  PROVE  Paid(j)
<1>0. Step(j) \/ Failure(j)
  BY DEF Step, Failure
<1>1. /\ job[j].pc \in {"wipe", "start", "save", "scrutinise", "check", "decide"}
      /\ Kind[j] \notin Extracting /\ ~Create(j)
  <2>1. job[j].pc \in {"wipe", "save", "scrutinise", "check", "decide"} => Kind[j] \notin Extracting
    BY LeakKnown DEF Tracks, Early, Late, Extracting
  <2> QED
    BY <2>1
       DEF Wipe, WipeFails, IndexLoad, IndexSave, ScrutinyLoad, Check, Persist, EditLoad, EditSave,
           Create, At, Indexing, Extracting
<1>2. Tracks(j)' /\ ~Due' /\ ~Counts(j)
  BY <1>0, <1>1, Basics DEF Tracks, Counts, Replacing, Extracting
<1>3. \A i \in Ids : store'[i].gen = store[i].gen
  <2>1. CASE store' = store
    BY <2>1
  <2>2. CASE IndexSave(j)
    <3>1. Write(job[j].item, job[j].doc) /\ job[j].doc.gen = store[job[j].item].gen
      BY <2>2, LeakKnown DEF IndexSave, Follows, Copied, At
    <3> QED
      BY <3>1, LeakKnown DEF Write
  <2>3. CASE Persist(j) \/ EditSave(j)
    <3>1. /\ job[j].doc \in Document /\ job[j].doc.gen = store[job[j].item].gen
      BY <2>3, LeakKnown DEF Persist, EditSave, Follows, Copied, At, Grounded, Holding
    <3>2. /\ Reported(j).gen = job[j].doc.gen
          /\ \A status : Decided(j, status).gen = job[j].doc.gen
      BY <3>1 DEF Reported, Decided, Document
    <3>3. \/ store' = store
          \/ \E doc : Write(job[j].item, doc) /\ doc.gen = job[j].doc.gen
      BY <2>3, <3>2 DEF Persist, EditSave, WriteRaises
    <3> QED
      BY <3>1, <3>3, LeakKnown DEF Write
  <2> QED
    BY <2>1, <2>2, <2>3
       DEF Wipe, WipeFails, IndexLoad, ScrutinyLoad, Check, EditLoad
<1>4. index' = index \/ index' = [g \in Gens |-> "none"]
  BY DEF Wipe, WipeFails, IndexLoad, IndexSave, ScrutinyLoad, Check, Persist, EditLoad, EditSave
<1>5. Leaked' \subseteq Leaked
  <2>1. HeldBy(j) = {}
    BY <1>1 DEF HeldBy, Builds, At
  <2> QED
    BY <1>0, <1>3, <1>4, <2>1, Basics, Lost
<1> QED
  BY <1>0, <1>1, <1>2, <1>5, Calm DEF Paid

\* A generation is held by its job from the first batch on.
LEMMA EmbedPays ==
  ASSUME IndexesAlone, "late" \notin Faults, LeakInv, NEW j \in Jobs,
         Embed(j) \/ Embedded(j)
  PROVE  Paid(j)
<1>0. Step(j) \/ Failure(j)
  BY DEF Step
<1>1. /\ store' = store /\ ~Create(j) /\ job[j].pc \in {"embed", "embedding"}
      /\ Embed(j) => At(j, "embed")
  BY DEF Embed, Embedded, Create, At
<1>2. /\ Others(j) /\ job'[j].doc = job[j].doc
      /\ Embed(j) => job'[j].pc = "embedding" /\ job'[j].gen = gens + 1
      /\ Embedded(j) => job'[j].pc = "activate" /\ job'[j].gen = job[j].gen
  BY LeakKnown, Waits, Makes DEF Stays, With, Onward
<1>3. Tracks(j)'
  BY <1>1, <1>2, LeakKnown DEF Tracks, Early, Late, At
<1>4. Leaked' \subseteq Leaked
  <2>1. CASE Embed(j)
    <3>1. HeldBy(j) = {} /\ HeldBy(j)' = {gens + 1}
      BY <1>1, <1>2, <2>1 DEF HeldBy, Builds, At
    <3>2. \A g \in Gens \ {gens + 1} : index'[g] = index[g]
      BY <2>1, LeakKnown DEF Embed, Typed
    <3> QED
      BY <1>1, <1>2, <3>1, <3>2, Lost
  <2>2. CASE Embedded(j)
    <3>1. HeldBy(j) = {job[j].gen} /\ HeldBy(j)' = {job[j].gen}
      BY <1>2, <2>2 DEF HeldBy, Builds, At, Embedded
    <3>2. \A g \in Gens \ {job[j].gen} : index'[g] = index[g]
      BY <2>2, LeakKnown DEF Embedded, Indexed, Typed
    <3> QED
      BY <1>1, <1>2, <3>1, <3>2, Lost
  <2> QED
    BY <2>1, <2>2
<1>5. ~Due'
  BY <1>0, <1>2, Basics DEF Replacing, Early
<1>6. Counts(j) => Counts(j)'
  BY <1>2 DEF Counts, Running, Ended
<1> QED
  BY <1>0, <1>1, <1>3, <1>4, <1>5, <1>6, Calm DEF Paid

\* The record names the one, and the job is to delete the other.
LEMMA ActivatePays ==
  ASSUME IndexesAlone, "late" \notin Faults, LeakInv, NEW j \in Jobs, Activate(j)
  PROVE  Paid(j)
<1>0. Step(j) \/ Failure(j)
  BY DEF Step
<1>1. /\ index' = index /\ At(j, "activate") /\ ~Create(j)
      /\ job[j].doc.gen = store[job[j].item].gen
      /\ job[j].item \in Ids /\ Write(job[j].item, Activated(j))
      /\ Activated(j).gen = job[j].gen
  BY LeakKnown, ItemExists, ActivatedHonest
     DEF Activate, Follows, Copied, At, Placed, Create
<1>2. /\ Others(j) /\ job'[j].pc = "prune" /\ job'[j].prev = job[j].doc.gen
  BY LeakKnown, Makes DEF Onward
<1>3. Tracks(j)'
  BY <1>1, <1>2, LeakKnown DEF Tracks, Early, Late, At
<1>4. Leaked' \subseteq Leaked
  <2>1. HeldBy(j) = {job[j].gen} /\ HeldBy(j)' = {store[job[j].item].gen}
    BY <1>1, <1>2 DEF HeldBy, Builds, At
  <2>2. /\ store'[job[j].item].gen = job[j].gen
        /\ \A i \in Ids \ {job[j].item} : store'[i] = store[i]
    BY <1>1, LeakKnown DEF Write
  <2> QED
    BY <1>1, <1>2, <2>1, <2>2, Lost
<1>5. ~Due'
  BY <1>0, <1>2, Basics DEF Replacing, Early
<1>6. Counts(j) => Counts(j)'
  BY <1>2 DEF Counts, Running, Ended
<1> QED
  BY <1>0, <1>1, <1>3, <1>4, <1>5, <1>6, Calm DEF Paid

\* A deletion that fails is a fault.
LEMMA PrunePays ==
  ASSUME IndexesAlone, "late" \notin Faults, LeakInv, NEW j \in Jobs, Prune(j)
  PROVE  Paid(j)
<1>0. Step(j) \/ Failure(j)
  BY DEF Step
<1>1. /\ store' = store /\ At(j, "prune") /\ ~Create(j)
      /\ job[j].item \in Ids /\ Exists(job[j].item)
  BY LeakKnown, ItemExists DEF Prune, At, Placed, Create
<1>2. /\ Others(j) /\ job'[j].pc \in {"scrutinise", "done"}
      /\ Kind[j] = "file" => job'[j].pc = "done"
      /\ Kind[j] # "extract"
  <2>1. Stays(j, "scrutinise") \/ Over(j, "done")
    BY LeakKnown, Waits
  <2>2. Kind[j] = "file" => Over(j, "done")
    BY LeakKnown, GotoStops DEF Prune, Ended
  <2>3. Kind[j] # "extract"
    BY <1>1, LeakKnown DEF Tracks, Early, At
  <2> QED
    BY <2>1, <2>2, <2>3 DEF Stays, With, Onward, Over
<1>3. Tracks(j)'
  BY <1>2 DEF Tracks, Early, Late, At
<1>4. HeldBy(j) = {job[j].prev}
  BY <1>1 DEF HeldBy, Builds, At
<1>5. ~Due'
  BY <1>0, <1>2, Basics DEF Replacing, Early
<1>6. Counts(j) => Counts(j)'
  BY <1>2 DEF Counts, Running, Ended, At, Extracting
<1>7. Found # {}
  BY <1>1 DEF Found
<1>8. CASE index' = index /\ job[j].prev = NoGen
  <2>1. \A g \in Gens : g # NoGen
    BY DEF Gens, NoGen
  <2>2. Leaked' \subseteq Leaked
    BY <1>1, <1>2, <1>4, <1>8, <2>1, Lost
  <2> QED
    BY <1>0, <1>1, <1>3, <1>5, <1>6, <2>2, Calm DEF Paid
<1>9. CASE Remove(job[j].prev)
  <2>1. \A g \in Gens : index'[g] # "none" => g # job[j].prev /\ index[g] # "none"
    BY <1>9, LeakKnown DEF Remove, Typed
  <2>2. Leaked' \subseteq Leaked
    BY <1>1, <1>2, <1>4, <2>1, Lost
  <2> QED
    BY <1>0, <1>1, <1>3, <1>5, <1>6, <2>2, Calm DEF Paid
<1>10. CASE index' = index /\ faults' = faults + 1
  <2>1. \A g \in Gens \ {job[j].prev} :
          /\ index'[g] # "none" /\ g \notin HeldBy(j)'
          /\ \A i \in Ids : store'[i].gen # g
          => /\ index[g] # "none" /\ g \notin HeldBy(j)
             /\ \A i \in Ids : store[i].gen # g
    BY <1>1, <1>4, <1>10
  <2>2. Leaked' \subseteq Leaked \cup {job[j].prev}
    BY <1>2, <2>1, Lost
  <2> QED
    BY <1>0, <1>1, <1>3, <1>5, <1>6, <1>7, <1>10, <2>2, FaultPays DEF Paid
<1> QED
  BY <1>8, <1>9, <1>10 DEF Prune, Pruned, Fault

------------------------------------------------------------------------------
\* A job that fails or dies gives up what it holds.
LEMMA FailPays ==
  ASSUME IndexesAlone, "late" \notin Faults, LeakInv, NEW j \in Jobs,
         EmbedFails(j) \/ ActivateFails(j) \/ WorkFails(j) \/ SaveFails(j) \/ Crash(j)
  PROVE  Paid(j)
<1>0. Step(j) \/ Failure(j)
  BY DEF Failure
<1>1. /\ store' = store /\ ~Create(j) /\ faults' = faults + 1
      /\ Running(j)
  <2>1. store' = store /\ faults' = faults + 1
    BY DEF EmbedFails, ActivateFails, WorkFails, SaveFails, Crash, WriteRaises, Fault
  <2>2. Running(j)
    BY DEF EmbedFails, ActivateFails, WorkFails, SaveFails, Crash, Upserting, At, Running, Ended
  <2>3. ~Create(j)
    BY <2>1, LeakKnown DEF Create
  <2> QED
    BY <2>1, <2>2, <2>3
<1>2. /\ Others(j) /\ job'[j].pc \in {"failed", "start"}
      /\ job'[j].pc = "start" => Crash(j)
  <2>1. /\ EmbedFails(j) \/ ActivateFails(j) \/ WorkFails(j) \/ SaveFails(j) => Over(j, "failed")
        /\ Crash(j) => Over(j, "start") \/ Over(j, "failed")
    BY LeakKnown, Waits, Crashed
  <2> QED
    BY <2>1 DEF Over
<1>3. Tracks(j)'
  BY <1>2 DEF Tracks, Early, Late, At
<1>4. index' = index \/ (Builds(job[j]) /\ Remove(job[j].gen))
  BY DEF EmbedFails, ActivateFails, WorkFails, SaveFails, Crash, At, Builds
<1>5. \A g \in Gens : index'[g] # "none" => index[g] # "none"
  BY <1>4, LeakKnown DEF Remove, Typed
<1>6. CASE job[j].pc \notin Late
  <2>1. HeldBy(j) = {}
    BY <1>6 DEF HeldBy, Builds, At, Late
  <2>2. Leaked' \subseteq Leaked
    BY <1>1, <1>2, <1>5, <2>1, Lost
  <2>3. Due' => Due
    <3>1. job[j].pc \in Early \/ Kind[j] \notin Extracting
      BY <1>1, <1>6, LeakKnown DEF Tracks, Running, Ended, Extracting
    <3> QED
      BY <1>0, <1>1, <3>1, Basics DEF Due, Names, Replacing
  <2> QED
    BY <1>0, <1>1, <1>3, <2>2, <2>3, FaultPays DEF Paid
<1>7. CASE job[j].pc \in Late
  <2>1. /\ Kind[j] # "extract"
        /\ Counts(j) => Counts(j)'
    BY <1>2, <1>7, LeakKnown DEF Tracks, Early, Late, Counts, Running, Ended, At, Extracting
  <2>2. /\ job[j].item \in Ids /\ Exists(job[j].item) /\ Found # {}
    BY <1>7, LeakKnown, ItemExists DEF Late, Placed, Found
  <2>3. CASE Kind[j] = "file" /\ At(j, "prune")
    <3>1. HeldBy(j) = {NoGen}
      BY <2>3, LeakKnown DEF HeldBy, Builds, At, Tracks
    <3>2. \A g \in Gens : g # NoGen
      BY DEF Gens, NoGen
    <3>3. Leaked' \subseteq Leaked
      BY <1>1, <1>2, <1>5, <3>1, <3>2, Lost
    <3> QED
      BY <1>0, <1>1, <1>3, <2>1, <3>3, FaultPays DEF Paid
  <2>4. CASE ~(Kind[j] = "file" /\ At(j, "prune"))
    <3>1. PICK g : HeldBy(j) \subseteq {g}
      BY DEF HeldBy
    <3>2. \A h \in Gens \ {g} :
            /\ index'[h] # "none" /\ h \notin HeldBy(j)'
            /\ \A i \in Ids : store'[i].gen # h
            => /\ index[h] # "none" /\ h \notin HeldBy(j)
               /\ \A i \in Ids : store[i].gen # h
      BY <1>1, <1>5, <3>1
    <3>3. Leaked' \subseteq Leaked \cup {g}
      BY <1>2, <3>2, Lost
    <3>4. ~Due'
      <4>1. CASE Kind[j] = "file"
        <5>1. store[job[j].item].gen = NoGen
          BY <1>7, <2>4, <4>1, LeakKnown DEF Late, Tracks, Follows, Copied, At
        <5>2. ~Names'
          BY <1>1, <2>2, <5>1, NamesOne DEF Names
        <5> QED
          BY <1>0, <5>2, Basics
      <4>2. CASE Kind[j] # "file"
        BY <1>0, <2>1, <4>2, Basics DEF Replacing, Extracting
      <4> QED
        BY <4>1, <4>2
    <3> QED
      BY <1>0, <1>1, <1>3, <2>1, <2>2, <3>3, <3>4, FaultPays DEF Paid
  <2> QED
    BY <2>3, <2>4
<1> QED
  BY <1>6, <1>7

LEMMA LeakStep ==
  IndexesAlone /\ "late" \notin Faults /\ LeakInv /\ [Next]_vars => LeakInv'
<1> SUFFICES ASSUME IndexesAlone, "late" \notin Faults, LeakInv, [Next]_vars
             PROVE  LeakInv'
  OBVIOUS
<1>1. ActiveInv'
  BY ActiveStep DEF LeakInv
<1>2. CASE UNCHANGED vars
  <2>1. /\ \A j \in Jobs : HeldBy(j)' = HeldBy(j) /\ Tracks(j)' = Tracks(j)
        /\ Counted' = Counted /\ Found' = Found /\ Due' = Due
    BY <1>2 DEF vars, HeldBy, Builds, At, Tracks, Counted, Counts, Running, Found, Exists,
                Due, Names, Replacing
  <2>2. Leaked' = Leaked
    BY <1>2, <2>1 DEF vars, Leaked
  <2>3. Balanced' /\ \A j \in Jobs : Tracks(j)'
    BY <1>2, <2>1, <2>2 DEF vars, LeakInv, Balanced, Debt
  <2> QED
    BY <1>1, <2>3 DEF LeakInv
<1>3. ASSUME NEW j \in Jobs, Step(j) \/ Failure(j) PROVE LeakInv'
  <2>1. Paid(j)
    BY <1>3, SubmitPays, SearchPays, UpdatePays, CreatePays, OthersPay, EmbedPays, ActivatePays,
       PrunePays, FailPays DEF Step, Failure
  <2>2. Others(j)
    BY <1>3, Basics
  <2>3. ASSUME NEW k \in Jobs \ {j} PROVE Tracks(k)'
    BY <2>2 DEF Others, LeakInv, Tracks, At
  <2> QED
    BY <1>1, <2>1, <2>3 DEF LeakInv, Paid
<1> QED
  BY <1>2, <1>3 DEF Next

LEMMA LeakInit == Init => LeakInv
<1> SUFFICES ASSUME Init PROVE LeakInv
  OBVIOUS
<1>1. /\ \A j \in Jobs : job[j].pc = "new"
      /\ \A i \in Ids : store[i] = Absent
      /\ index = [g \in Gens |-> "none"]
  BY DEF Init, Blank
<1>2. Counted = {} /\ Found = {} /\ Leaked = {}
  BY <1>1 DEF Counted, Counts, Running, At, Found, Exists, Leaked
<1>3. \A j \in Jobs : Tracks(j)
  BY <1>1 DEF Tracks, At, Late
<1> QED
  BY <1>2, <1>3, ActiveInit, FS_EmptySet DEF LeakInv, Balanced

\* The invariant of the vectors that nobody uses.
THEOREM LeakInvariant ==
  ASSUME IndexesAlone, "late" \notin Faults
  PROVE  Spec => []LeakInv
BY LeakInit, LeakStep, PTL DEF Spec

\* Between jobs, the vectors no filing uses are at most one generation for each
\* fault and each extraction but the first.
THEOREM LeaksAreCounted ==
  ASSUME IndexesAlone, "late" \notin Faults
  PROVE  Spec => []LeaksCounted
<1>1. ASSUME LeakInv, \A j \in Jobs : ~Running(j), Unused # {}
      PROVE  Cardinality(Unused) < faults + Cardinality(Upserted)
  <2>1. \A j \in Jobs : HeldBy(j) = {}
    BY <1>1 DEF HeldBy, Builds, At, Running, Ended
  <2>2. Unused = Leaked
    BY <2>1 DEF Unused, Leaked
  <2>3. Upserted = Counted
    BY <1>1 DEF Upserted, Counted, Counts, Extracting, At
  <2>4. Balanced /\ faults \in Nat
    <3>1. Balanced /\ ActiveInv
      BY <1>1 DEF LeakInv
    <3>2. faults \in 0..MaxFaults
      BY <3>1 DEF ActiveInv, RecordInv, IInv, TypeOK
    <3> QED
      BY <3>1, <3>2
  <2>5. Cardinality(Leaked) \in Nat /\ Cardinality(Counted) \in Nat
    <3>1. Leaked \in SUBSET Gens
      BY DEF Leaked
    <3> QED
      BY <2>4, <3>1, SomeGens, FS_CardinalityType DEF Balanced
  <2> QED
    BY <1>1, <2>2, <2>3, <2>4, <2>5 DEF Balanced, Debt
<1>2. LeakInv => LeaksCounted
  BY <1>1 DEF LeaksCounted
<1> QED
  BY <1>2, LeakInvariant, PTL
==============================================================================
