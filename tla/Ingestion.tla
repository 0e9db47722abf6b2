------------------------------ MODULE Ingestion ------------------------------
(***************************************************************************)
(* The documents of one filing through the jobs that read them: the files  *)
(* kept in LlamaCloud, the parsed text kept in S3, what the Agent Data     *)
(* record says of both, and the text that is indexed (process_file.py,     *)
(* process_split_files.py, split_upload.py).  Jobs of the filing run one   *)
(* after another here; FilingRecord has those that overlap, and BundleSplit *)
(* what the split of a compiled petition finds.                            *)
(*                                                                         *)
(* The content of a PDF is the version of each part of the filing that is  *)
(* in it: the compiled petition has them all, the PDF of a slot has one.   *)
(* A parsed text is the content it was read from.                          *)
(***************************************************************************)
EXTENDS Naturals, SequencesExt, FiniteSets

CONSTANTS
  Parts,      \* the upload slots of the filing
  Main,       \* the slot extract_front gives the compiled PDF
  Sources,    \* the slots LlamaExtract reads (slot_is_extract_source)
  Lists,      \* the sets of slots a request may list
  Forms,      \* what the documents of a request may carry besides their URL
  MaxVersion, \* bound on the versions of a part
  MaxEdits,   \* bound on changes the user makes
  MaxJobs,    \* bound on jobs
  MaxFaults,  \* bound on faults
  Careful     \* what those around the jobs keep to: see Habits

\* Linking, ids, resending and books: Allowed.  Names: a document whose file
\* changes gets a new id.  Storage: saved text stays readable (Readable, MayLose).
Habits == {"linking", "ids", "resending", "books", "names", "storage"}

ASSUME IngestionAssumption ==
  /\ IsFiniteSet(Parts) /\ Main \in Parts /\ Parts # {Main}
  /\ Sources \subseteq Parts /\ Lists \subseteq SUBSET Parts /\ {} \notin Lists
  /\ Forms \subseteq SUBSET {"hash", "id", "span"}
  /\ {MaxVersion, MaxEdits, MaxJobs, MaxFaults} \subseteq Nat
  /\ Careful \subseteq Habits

VARIABLES
  now,      \* the user's documents
  told,     \* those the backend has had a job for
  files,    \* LlamaCloud's file objects; an id is a position
  saved,    \* parse artifacts in S3, by key
  filing,   \* metadata of the Agent Data record
  index,    \* the active generation of vectors
  split,    \* the last split of the compiled petition
  job,
  used      \* edits, jobs and faults so far

vars == <<now, told, files, saved, filing, index, split, job, used>>

Content == [Parts -> 0..MaxVersion]
Empty == [p \in Parts |-> 0]             \* no content, no text, no hash
Only(p, v) == [Empty EXCEPT ![p] = v]
NoText == [p \in Parts |-> Empty]
NoFiles == [p \in Parts |-> 0]

\* bundle_file_hash: one entry of each document, its hash or else its file id.
KeyOf(on, hashes, ids) ==
  [p \in on |-> IF hashes[p] # Empty THEN <<hashes[p], 0>> ELSE <<Empty, ids[p]>>]
NoKey == [p \in {} |-> 0]

\* A saved book is the text that stands for the whole of the PDF it is of.
NoBook == [of |-> Empty, text |-> Empty]
NoArtifact == [text |-> NoText, book |-> NoBook]
NoFiling == [exists |-> FALSE, files |-> NoFiles, hashes |-> NoText,
             parsed |-> {}, key |-> NoKey, source |-> Empty]
NoIndex == [on |-> {}, of |-> NoText, text |-> NoText, failed |-> {}]
NoSplit == [of |-> Empty, text |-> Empty]

Extracting == {"extract_only", "upload_separate", "extract_front"}
Kinds == Extracting \cup {"index_parsed"}
Idle == [step |-> "idle", kind |-> "index_parsed", on |-> {}, of |-> NoText,
         left |-> {}, files |-> NoFiles, hashes |-> NoText, reuse |-> NoText,
         text |-> NoText, failed |-> {}, book |-> NoBook, source |-> Empty,
         key |-> NoKey]

\* The id of a document, which may outlive its file.
NameOf(document, c) == <<document, IF "names" \in Careful THEN c ELSE Empty>>

Init ==
  /\ now = [p \in Parts |-> 1] /\ told = Empty
  /\ \* objects an earlier release stored under the id of their document
     files \in {<<>>, <<[body |-> Only(Main, 1),
                        name |-> NameOf(Main, Only(Main, 1))]>>}
  /\ saved = << >> /\ filing = NoFiling /\ index = NoIndex /\ split = NoSplit
  /\ job = Idle
  /\ used = [edits |-> 0, jobs |-> 0, faults |-> 0]

Fault == used.faults < MaxFaults /\ used' = [used EXCEPT !.faults = @ + 1]
Steady == UNCHANGED used

------------------------------------------------------------------------------
(***************************************************************************)
(* The callers                                                             *)
(***************************************************************************)
Edit(p) ==
  /\ job.step = "idle" /\ used.edits < MaxEdits /\ now[p] < MaxVersion
  /\ now' = [now EXCEPT ![p] = @ + 1]
  /\ used' = [used EXCEPT !.edits = @ + 1]
  /\ UNCHANGED <<told, files, saved, filing, index, split, job>>

\* The flag "edited" of a request is right: no document it lists has changed
\* since the backend had it in a job, unless it says so.
Same(on) == \A p \in on : told[p] \in {0, now[p]}

Heard(on) == [p \in Parts |-> IF p \in on /\ told[p] = 0 THEN now[p] ELSE told[p]]

\* An extraction is linked only to a filing that was not made from a compiled
\* petition and has the same documents; a request for a filing that was made
\* from one names the file of each document, and that petition is sent again
\* when a part of it has changed.  The artifact is stored under the documents
\* alone: those of a filing with a saved petition are not extracted anew.
Allowed(kind, on, form, linked) ==
  /\ linked =>
       /\ "linking" \in Careful /\ kind \in Extracting =>
            filing.source = Empty /\ Same(on)
       /\ "ids" \in Careful /\ filing.source # Empty => "id" \in form
       /\ "resending" \in Careful /\ filing.source # Empty => Same(Parts)
  /\ "books" \in Careful /\ ~linked =>
       filing.source = Empty \/ on # DOMAIN filing.key

------------------------------------------------------------------------------
(***************************************************************************)
(* LlamaCloud files: ingest_remote_file, _upload_slot_pdf                  *)
(***************************************************************************)
\* Files stored under the content's hash.
NoName == <<>>
HashName(c) == <<c>>
Named(name) == {i \in DOMAIN files : files[i].name = name}

\* reusable_file_id: by hash, then by the id of the document.
Found(c, name) ==
  IF Named(HashName(c)) # {} THEN Named(HashName(c)) ELSE Named(name)

New(c, name) == [body |-> c, name |-> name]

\* The PDF of content c has id i: found; or created, and created again when
\* the answer to the first was lost; without its name when that was refused;
\* a failed lookup only means that it is created.
Stored(c, name, i) ==
  \/ i \in Found(c, name) /\ UNCHANGED files /\ Steady
  \/ /\ Found(c, name) = {} /\ Steady
     /\ files' = Append(files, New(c, HashName(c)))
     /\ i = Len(files) + 1
  \/ /\ Found(c, name) # {} /\ Fault
     /\ files' = Append(files, New(c, HashName(c)))
     /\ i = Len(files) + 1
  \/ /\ Found(c, name) = {} /\ Fault
     /\ files' = files \o <<New(c, HashName(c)), New(c, HashName(c))>>
     /\ i = Len(files) + 2
  \/ /\ Found(c, name) = {} /\ Fault
     /\ files' = Append(files, New(c, NoName))
     /\ i = Len(files) + 1
------------------------------------------------------------------------------
(***************************************************************************)
(* Starting a job                                                          *)
(***************************************************************************)
MayStart == job.step = "idle" /\ used.jobs < MaxJobs
Started == [used EXCEPT !.jobs = @ + 1]

\* download_json_object of the key in the record; a failure reads nothing.
Artifact(f) == IF f.key \in DOMAIN saved THEN saved[f.key] ELSE NoArtifact
Readable(f) ==
  {Artifact(f)} \cup
  IF used.faults < MaxFaults /\ ("storage" \in Careful => f.source = Empty)
  THEN {NoArtifact} ELSE {}

\* A matching checksum: the document of an edited filing is the stored one.
Unchanged(f, p, form) ==
  "hash" \in form /\ f.hashes[p] # Empty /\ f.hashes[p] = Only(p, now[p])

\* pages_for_source_span: the pages a slot has in the compiled petition, taken
\* from the book.  They are the slot's only in the text of that petition.
CutsOf(book, p) ==
  IF book.text = book.of THEN {Only(p, book.text[p])} ELSE {book.text, Empty}

HasText(f, a) == IF f.parsed # {} THEN f.parsed
                 ELSE {p \in Parts : a.text[p] # Empty}

\* A filing that came in as a compiled petition: its slots are cut from it.
Compiled(f, a) == a.book # NoBook \/ f.source # Empty

\* Seeded fault: an edited request keeps what the record says was parsed.
Reusable_Parsed(f, a, on, form, edited) == HasText(f, a) \cap on

Reusable(f, a, on, form, edited) ==
  IF edited THEN {p \in on : Unchanged(f, p, form) /\ f.files[p] # 0}
  ELSE IF Compiled(f, a) THEN {} ELSE HasText(f, a) \cap on

\* parse_action_for_slot with the text it would take, over what
\* compiled_index_reuse or the artifact of the slots offers.
Reuses(f, a, on, form, edited) ==
  LET kept == Reusable(f, a, on, form, edited)
      offered(p) ==
        IF a.book # NoBook
        THEN IF "span" \in form /\ (edited => p \in kept)
             THEN CutsOf(a.book, p) ELSE {Empty}
        ELSE IF ~Compiled(f, a) /\ p \in kept \cap HasText(f, a)
             THEN {a.text[p]} ELSE {Empty}
  IN  {r \in [Parts -> {Empty} \cup UNION {offered(p) : p \in on}] :
         \A p \in Parts : IF p \in on THEN r[p] \in offered(p) ELSE r[p] = Empty}

\* The files of this document that the caller may know.
Mine(p) == {i \in DOMAIN files : files[i].body = Only(p, now[p])}

\* Seeded fault: the stored file is taken without comparing its hash.
FileOf_Stored(f, p, form, edited) ==
  IF "id" \in form THEN CHOOSE i \in Mine(p) : TRUE ELSE f.files[p]

\* The file of a document: the one it names, the stored one unless it was
\* edited, or else 0: its URL is ingested.
FileOf(f, p, form, edited) ==
  IF "id" \in form THEN CHOOSE i \in Mine(p) : TRUE
  ELSE IF edited => Unchanged(f, p, form) THEN f.files[p] ELSE 0

\* _run_split_from_file_event: reads the record and decides what to reuse.
Submit(kind, on, form, edited, linked) ==
  LET f == IF linked THEN filing ELSE NoFiling
      ids == [p \in Parts |-> IF p \in on THEN FileOf(f, p, form, edited) ELSE 0]
  IN /\ MayStart /\ Allowed(kind, on, form, linked)
     /\ linked => filing.exists
     /\ "id" \in form => \A p \in on : Mine(p) # {}
     /\ kind = "index_parsed" => linked
     /\ edited => kind = "index_parsed"
     /\ ~edited /\ kind = "index_parsed" => Same(on)
     /\ \E a \in Readable(f) :
        \E reuse \in IF kind = "index_parsed" THEN Reuses(f, a, on, form, edited)
                     ELSE {NoText} :
          /\ job' = [Idle EXCEPT
               !.step = "ingest", !.kind = kind, !.on = on,
               !.of = [p \in Parts |-> IF p \in on THEN Only(p, now[p]) ELSE Empty],
               !.left = {p \in on : ids[p] = 0},
               !.files = ids,
               !.hashes = [p \in Parts |-> IF p \in on /\ "hash" \in form
                                           THEN Only(p, now[p]) ELSE Empty],
               !.reuse = reuse,
               !.book = IF kind = "index_parsed" THEN a.book ELSE NoBook,
               !.source = f.source]
          /\ used' = [Started EXCEPT
               !.faults = @ + IF a = Artifact(f) THEN 0 ELSE 1]
     /\ told' = Heard(on)
     /\ split' = NoSplit
     /\ UNCHANGED <<now, files, saved, filing, index>>

\* _run_extract_front: the compiled petition as one document.
SubmitFront ==
  /\ MayStart
  /\ job' = [Idle EXCEPT
       !.step = "ingest", !.kind = "extract_front", !.on = {Main},
       !.of = [NoText EXCEPT ![Main] = now], !.left = {Main}]
  /\ told' = Heard(Parts)
  /\ used' = Started /\ split' = NoSplit
  /\ UNCHANGED <<now, files, saved, filing, index>>

\* One document without a file id: its URL is downloaded and uploaded, and its
\* hash is that of the bytes (verified_content_hash).
Ingest(p) ==
  /\ job.step = "ingest" /\ p \in job.left
  /\ \E i \in 1..(Len(files) + 2) :
       /\ Stored(job.of[p], NameOf(IF job.kind = "extract_front" THEN "compiled" ELSE p,
                                    job.of[p]), i)
       /\ job' = [job EXCEPT !.left = @ \ {p}, !.files[p] = i,
                             !.hashes[p] = job.of[p]]
  /\ UNCHANGED <<now, told, saved, filing, index, split>>

------------------------------------------------------------------------------
(***************************************************************************)
(* parse_files: the text of each document, and the artifact that keeps it  *)
(***************************************************************************)

\* parse_action_for_slot, _parse_labeled_files: the slots that are parsed.
Parsed ==
  {p \in job.on : /\ job.kind = "extract_only" => p \in Sources
                  /\ job.reuse[p] = Empty}

\* _parse_one_file: a parse that fails leaves the slot without text; the parse
\* of a compiled petition must cover it (_parse_compiled_book).
TextOf(failed) ==
  [p \in Parts |->
     IF p \in Parsed
     THEN IF p \in failed THEN Empty ELSE files[job.files[p]].body
     ELSE job.reuse[p]]

\* _source_book_payload
Books(text) ==
  IF job.book # NoBook THEN {job.book}
  ELSE IF job.source = Empty \/ text = NoText THEN {NoBook}
  ELSE {[of |-> job.source, text |-> text[p]] : p \in {p \in Parts : text[p] # Empty}}

Source == IF job.kind = "extract_front" THEN job.of[Main] ELSE job.source

\* upload_step_json: an object of that key is replaced.
Put(key, artifact) ==
  [k \in DOMAIN saved \cup {key} |-> IF k = key THEN artifact ELSE saved[k]]

\* Kept storage loses the text only of an extraction, which then names none.
MayLose == "storage" \in Careful =>
             job.kind \in {"extract_only", "upload_separate"} /\ job.source = Empty

Parse(failed, lost) ==
  LET text == TextOf(failed)
      key == KeyOf(job.on, job.hashes, job.files)
  IN /\ job.step = "ingest" /\ job.left = {}
     /\ failed \subseteq Parsed /\ (job.kind = "extract_front" => failed = {})
     /\ lost => MayLose
     /\ used.faults + (IF failed = {} THEN 0 ELSE 1) + (IF lost THEN 1 ELSE 0)
          <= MaxFaults
     /\ used' = [used EXCEPT !.faults = @ + (IF failed = {} THEN 0 ELSE 1)
                                          + (IF lost THEN 1 ELSE 0)]
     /\ \E book \in IF job.kind = "extract_front"
                    THEN {[of |-> Source, text |-> text[Main]]} ELSE Books(text) :
          saved' = IF lost THEN saved ELSE Put(key, [text |-> text, book |-> book])
     /\ job' = [job EXCEPT !.step = "record", !.text = text, !.failed = failed,
                           !.source = Source, !.key = IF lost THEN NoKey ELSE key]
     /\ UNCHANGED <<now, told, files, filing, index, split>>

------------------------------------------------------------------------------
(***************************************************************************)
(* complete_extraction, _complete_index_only                               *)
(***************************************************************************)
TextSlots == {p \in job.on : job.text[p] # Empty}

\* An extraction writes a new document, an index job changes the one there
\* is, whose artifact stays when no new one was stored.
Recorded ==
  [exists |-> TRUE, files |-> job.files, hashes |-> job.hashes,
   parsed |-> TextSlots,
   key |-> IF job.key = NoKey /\ job.kind = "index_parsed" THEN filing.key
           ELSE job.key,
   source |-> IF job.kind = "index_parsed" THEN filing.source ELSE job.source]

Record ==
  /\ job.step = "record"
  /\ filing' = Recorded
  /\ index' = IF job.kind = "index_parsed" THEN index ELSE NoIndex
  /\ job' = [job EXCEPT !.step = "index"]
  /\ Steady
  /\ UNCHANGED <<now, told, files, saved, split>>

\* _index_split_upload: the chunks carry the hashes of the documents.
Indexed == [on |-> job.on, of |-> job.of, text |-> job.text,
            failed |-> job.failed]

Known == IF job.kind = "extract_front" THEN job.of[Main]
         ELSE [p \in Parts |-> IF p \in job.on THEN job.of[p][p] ELSE told[p]]

Finish ==
  /\ job.step = "index"
  /\ index' = IF job.kind \in {"index_parsed", "upload_separate"} THEN Indexed
              ELSE index
  /\ told' = Known
  /\ job' = Idle /\ Steady
  /\ UNCHANGED <<now, files, saved, filing, split>>

\* A step raises, or the worker dies: what the job has written stays.
Fail ==
  /\ job.step # "idle" /\ Fault
  /\ job' = Idle
  /\ UNCHANGED <<now, told, files, saved, filing, index, split>>

------------------------------------------------------------------------------
(***************************************************************************)
(* upload_compiled and split_petition: _load_reused_split_parse            *)
(***************************************************************************)
\* Seeded fault: the parse of the filing is taken whatever PDF it is of.
SamePdf_Any(c) == filing.source # Empty

\* "when it is the same compiled PDF"
SamePdf(c) == filing.source = c

\* The saved book when it has as many pages as the PDF, or else the text of
\* the parse job; without a finished job the PDF is parsed (again).
SplitTexts(c) ==
  IF ~SamePdf(c) THEN {c}
  ELSE LET book == Artifact(filing).book
       IN  {c, filing.source} \cup IF book = NoBook THEN {} ELSE {book.text}

\* _upload_sliced_slots: the slots' PDFs, where there is none.
Slices ==
  LET new == {Only(p, now[p]) : p \in Parts}
  IN  SetToSeq({New(c, HashName(c)) : c \in {c \in new : Named(HashName(c)) = {}}})

Split ==
  /\ MayStart /\ filing.exists
  /\ \E text \in SplitTexts(now) : split' = [of |-> now, text |-> text]
  /\ files' = files \o Slices
  /\ UNCHANGED <<now, told, saved, filing, index, job, used>>

Next ==
  \/ \E p \in Parts : Edit(p) \/ Ingest(p)
  \/ \E kind \in Kinds \ {"extract_front"}, on \in Lists, form \in Forms,
        edited, linked \in BOOLEAN : Submit(kind, on, form, edited, linked)
  \/ SubmitFront
  \/ \E failed \in SUBSET Parts, lost \in BOOLEAN : Parse(failed, lost)
  \/ Record \/ Finish \/ Fail \/ Split

Spec == Init /\ [][Next]_vars

------------------------------------------------------------------------------
(***************************************************************************)
(* Properties                                                              *)
(***************************************************************************)
Step == {"idle", "ingest", "record", "index"}
Texts == [Parts -> Content]
Ids == 0..Len(files)

TypeOK ==
  /\ {now, told} \subseteq Content
  /\ \A i \in DOMAIN files : files[i].body \in Content
  /\ \A k \in DOMAIN saved : saved[k].text \in Texts
                            /\ saved[k].book \in [of : Content, text : Content]
  /\ filing.files \in [Parts -> Ids] /\ filing.hashes \in Texts
  /\ filing.parsed \subseteq Parts /\ filing.source \in Content
  /\ filing.key = NoKey \/ filing.key \in DOMAIN saved
  /\ index.on \subseteq Parts /\ {index.of, index.text} \subseteq Texts
  /\ job.step \in Step /\ job.kind \in Kinds /\ job.left \subseteq job.on
  /\ job.files \in [Parts -> Ids] /\ {job.of, job.text, job.hashes} \subseteq Texts

\* "A matching checksum proves that the prior file id and parse artifact are
\* still current": the text indexed for a document is the text of the file the
\* request sent for it, unless that file could not be parsed.
TextIsCurrent ==
  \A p \in index.on : \/ index.text[p] = index.of[p]
                      \/ index.text[p] = Empty /\ p \in index.failed

\* The file that the record names for a slot is the one whose hash it names.
HashNamesFile ==
  \A p \in Parts : filing.files[p] # 0 /\ filing.hashes[p] # Empty =>
                     files[filing.files[p]].body = filing.hashes[p]

\* "Read the extract-front parse when it is the same compiled PDF": a petition
\* is never cut along the text of another one, or of a part of it.
SplitReadsThisPdf == split.text = split.of
=============================================================================
