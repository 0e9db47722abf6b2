-------------------------- MODULE Ingestion_proofs ---------------------------
(***************************************************************************)
(* With callers and storage that keep every habit, and for any number of   *)
(* documents, jobs, edits and faults: the record names the file it has the *)
(* hash of, the indexed text is the text of the file that was sent, and a  *)
(* compiled petition is split along its own text.                          *)
(***************************************************************************)
EXTENDS Ingestion, FiniteSetTheorems, SequenceTheorems, TLAPS

Versions == [Parts -> Nat]
AllTexts == [Parts -> Versions]
Book == [of : Versions, text : Versions]
Keys == UNION {[on -> Versions \X Nat] : on \in SUBSET Parts}

\* The book that is the text of the whole of the PDF c, which Empty has not.
Whole(c) == [of |-> c, text |-> c]

\* What a file of content c may be called.
NamesOf(c) == {NoName, <<c>>} \cup {<<d, c>> : d \in Parts \cup {"compiled"}}
File == UNION {[body : {c}, name : NamesOf(c)] : c \in Versions}

Job == [step : Step, kind : Kinds, on : SUBSET Parts, of : AllTexts, left : SUBSET Parts,
        files : [Parts -> Nat], hashes : AllTexts, reuse : AllTexts, text : AllTexts,
        failed : SUBSET Parts, book : Book, source : Versions, key : Keys]
Filing == [exists : BOOLEAN, files : [Parts -> Nat], hashes : AllTexts,
           parsed : SUBSET Parts, key : Keys, source : Versions]

\* A file is called after its content, or not at all.
Types ==
  /\ now \in Versions /\ told \in Versions /\ files \in Seq(File)
  /\ filing \in Filing /\ job \in Job
  /\ \A k \in DOMAIN saved : saved[k] \in [text : AllTexts, book : Book]

ToldInv == \A p \in Parts : now[p] >= 1 /\ told[p] <= now[p]

IsBody(i, c) == i \in DOMAIN files /\ files[i].body = c

\* What the entry of a document in a key stands for: the content of its hash,
\* or of its file.
Entry(e, c) == IF e[1] # Empty THEN e[1] = c ELSE IsBody(e[2], c)

SavedInv ==
  /\ NoKey \notin DOMAIN saved
  /\ \A k \in DOMAIN saved, p \in Parts :
       saved[k].text[p] # Empty => p \in DOMAIN k /\ Entry(k[p], saved[k].text[p])

Docs == {p \in Parts : filing.files[p] # 0}

\* The record names files the backend has had a job for, and unless a document
\* changed since, its file.  It names their artifact or none, and its petition's
\* text is all of the petition it was made from.
FilingInv ==
  /\ \A p \in Parts : filing.files[p] # 0 =>
       /\ filing.files[p] \in DOMAIN files /\ told[p] # 0
       /\ filing.source = Empty /\ told[p] = now[p] =>
            IsBody(filing.files[p], Only(p, now[p]))
       /\ filing.hashes[p] # Empty => IsBody(filing.files[p], filing.hashes[p])
  /\ \A p \in Parts : filing.hashes[p] # Empty =>
       \/ \E v \in Nat : filing.hashes[p] = Only(p, v)
       \/ p = Main /\ filing.hashes[p] = filing.source
  /\ filing.key \in {NoKey, KeyOf(Docs, filing.hashes, filing.files)}
  /\ Artifact(filing).book = Whole(filing.source)
  /\ filing.source # Empty =>
       \A p \in Parts : told[p] # 0 /\ (told[p] = now[p] => filing.source[p] = now[p])

\* A job reads what the user has now, and knows the files of what it has read.
JobInv ==
  job.step # "idle" =>
    /\ \A p \in job.on :
         /\ told[p] # 0
         /\ job.of[p] = IF job.kind = "extract_front" THEN now ELSE Only(p, now[p])
    /\ job.kind = "extract_front" => job.on = {Main} /\ \A p \in Parts : told[p] # 0
    /\ job.source # Empty => job.source = now /\ \A p \in Parts : told[p] # 0
    /\ job.left \subseteq job.on /\ job.on # {}
    /\ \A p \in Parts :
         /\ job.hashes[p] \in {Empty, job.of[p]}
         /\ p \notin job.on => job.files[p] = 0 /\ job.hashes[p] = Empty
         /\ p \in job.on \ job.left => IsBody(job.files[p], job.of[p])
    /\ job.kind = "index_parsed" => job.source = filing.source

\* Text is reused only where it is current; the book is whole; an extraction
\* is of other documents than a filing with a petition.
IngestInv ==
  job.step = "ingest" =>
    /\ \A p \in Parts : job.reuse[p] # Empty => p \in job.on /\ job.reuse[p] = job.of[p]
    /\ job.kind # "index_parsed" =>
         job.source = Empty /\ job.book = NoBook /\ job.reuse = NoText
    /\ job.kind = "index_parsed" => job.book = Whole(job.source)
    /\ job.kind = "extract_front" /\ job.left = {} => job.hashes[Main] = now
    /\ job.kind \in {"extract_only", "upload_separate"} =>
         filing.source = Empty \/ job.on # DOMAIN filing.key

\* What was parsed is current, and it was stored with the whole of the book.
RecordInv ==
  job.step \in {"record", "index"} =>
    /\ job.left = {}
    /\ \A p \in job.on :
         \/ job.text[p] = job.of[p]
         \/ job.text[p] = Empty /\ (p \in job.failed \/ job.kind = "extract_only")
    /\ job.kind = "extract_front" => job.source = now
    /\ job.kind \in {"extract_only", "upload_separate"} => job.source = Empty
    /\ job.step = "record" =>
         \/ job.key = NoKey /\ job.kind # "index_parsed" /\ job.source = Empty
         \/ /\ job.key = KeyOf(job.on, job.hashes, job.files)
            /\ job.key \in DOMAIN saved /\ saved[job.key].book = Whole(job.source)
    /\ job.step = "index" => filing.files = job.files /\ filing.source = job.source

IngestionInv ==
  /\ Types /\ ToldInv /\ SavedInv /\ FilingInv /\ JobInv /\ IngestInv /\ RecordInv
  /\ TextIsCurrent /\ SplitReadsThisPdf

------------------------------------------------------------------------------
(***************************************************************************)
(* Contents, keys and files                                                *)
(***************************************************************************)
LEMMA Contents ==
  /\ Empty \in Versions /\ NoText \in AllTexts /\ \A p \in Parts : NoText[p] = Empty
  /\ \A p \in Parts : Empty[p] = 0
  /\ \A p \in Parts, v \in Nat :
       /\ Only(p, v) \in Versions /\ Only(p, v)[p] = v /\ (v # 0 => Only(p, v) # Empty)
       /\ \A q \in Parts \ {p} : Only(p, v)[q] = 0
  /\ NoBook = Whole(Empty) /\ NoBook \in Book
<1>1. /\ Empty \in Versions /\ NoText \in AllTexts /\ \A p \in Parts : NoText[p] = Empty
      /\ \A p \in Parts : Empty[p] = 0
  BY DEF Empty, Versions, NoText, AllTexts
<1>2. ASSUME NEW p \in Parts, NEW v \in Nat
      PROVE  /\ Only(p, v) \in Versions /\ Only(p, v)[p] = v
             /\ \A q \in Parts \ {p} : Only(p, v)[q] = 0
  BY <1>1 DEF Only, Versions
<1>3. NoBook = Whole(Empty) /\ NoBook \in Book
  BY <1>1 DEF NoBook, Whole, Book
<1> QED
  BY <1>1, <1>2, <1>3

\* The part of a compiled petition is not the petition.
LEMMA PetitionIsMore ==
  ASSUME NEW c \in Versions, \A p \in Parts : c[p] # 0, NEW p \in Parts, NEW v \in Nat, p = Main
  PROVE  c # Only(p, v)
<1>1. PICK q \in Parts : q # Main
  BY IngestionAssumption DEF IngestionAssumption
<1> QED
  BY <1>1, Contents

LEMMA KeyIs ==
  ASSUME NEW on \in SUBSET Parts, NEW h \in AllTexts, NEW i \in [Parts -> Nat]
  PROVE  /\ KeyOf(on, h, i) \in Keys /\ DOMAIN KeyOf(on, h, i) = on
         /\ \A p \in on : KeyOf(on, h, i)[p] = IF h[p] # Empty THEN <<h[p], 0>> ELSE <<Empty, i[p]>>
<1>1. KeyOf(on, h, i) \in [on -> Versions \X Nat]
  <2>1. \A p \in on : /\ h[p] \in Versions /\ i[p] \in Nat /\ 0 \in Nat
                      /\ (IF h[p] # Empty THEN <<h[p], 0>> ELSE <<Empty, i[p]>>) \in Versions \X Nat
    BY Contents DEF AllTexts
  <2> QED
    BY <2>1 DEF KeyOf
<1> QED
  BY <1>1 DEF KeyOf, Keys

LEMMA NoKeyIs == NoKey \in Keys /\ DOMAIN NoKey = {}
<1>1. NoKey \in [{} -> Versions \X Nat] /\ DOMAIN NoKey = {}
  BY DEF NoKey
<1> QED
  BY <1>1 DEF Keys

LEMMA FileNames ==
  ASSUME NEW f \in File, NEW c
  PROVE  /\ f.body \in Versions /\ f.name \in NamesOf(f.body)
         /\ f.name = <<c>> => f.body = c
         /\ \A d : f.name = <<d, c>> => f.body = c
<1>1. /\ <<c>> # <<>>
      /\ \A d : <<d, c>> # <<>>
      /\ \A d, x : <<d, c>> # <<x>> /\ <<d, x>> # <<c>>
  OBVIOUS
<1>2. /\ \A x : <<x>> = <<c>> => x = c
      /\ \A d, e, x : <<e, x>> = <<d, c>> => x = c
  OBVIOUS
<1>3. f.body \in Versions /\ f.name \in NamesOf(f.body)
  BY DEF File
<1>4. \/ f.name = <<>>
      \/ f.name = <<f.body>>
      \/ \E e \in Parts \cup {"compiled"} : f.name = <<e, f.body>>
  BY <1>3 DEF NamesOf, NoName
<1>5. f.name = <<c>> => f.body = c
  BY <1>1, <1>2, <1>4
<1>6. \A d : f.name = <<d, c>> => f.body = c
  BY <1>1, <1>2, <1>4
<1> QED
  BY <1>3, <1>5, <1>6

LEMMA NewIs ==
  ASSUME NEW c \in Versions
  PROVE  /\ New(c, HashName(c)) \in File /\ New(c, NoName) \in File
         /\ \A n : New(c, n).body = c
  BY DEF New, HashName, File, NamesOf

\* The files there were are there still.
FilesKept ==
  /\ files' \in Seq(File) /\ DOMAIN files \subseteq DOMAIN files'
  /\ \A i \in DOMAIN files : files'[i] = files[i]

LEMMA BodyKept ==
  ASSUME FilesKept, NEW i, NEW c, IsBody(i, c)
  PROVE  IsBody(i, c)'
  BY DEF FilesKept, IsBody

LEMMA Appended ==
  ASSUME files \in Seq(File), NEW f \in File, files' = Append(files, f)
  PROVE  FilesKept /\ Len(files) + 1 \in DOMAIN files' /\ files'[Len(files) + 1] = f
  BY DEF FilesKept

\* ingest_remote_file, _upload_slot_pdf: the file is of the content, whether it
\* was found or created, and whatever was lost.
LEMMA StoredIs ==
  ASSUME Habits \subseteq Careful, files \in Seq(File), NEW c \in Versions,
         NEW d \in Parts \cup {"compiled"}, NEW i, Stored(c, NameOf(d, c), i)
  PROVE  FilesKept /\ IsBody(i, c)' /\ i # 0
<1>1. NameOf(d, c) = <<d, c>>
  BY DEF NameOf, Habits
<1>2. \A n : New(c, n).body = c
  BY NewIs
<1>3. New(c, HashName(c)) \in File /\ New(c, NoName) \in File
  BY NewIs
<1>4. CASE i \in Found(c, NameOf(d, c)) /\ UNCHANGED files
  <2>1. i \in DOMAIN files /\ (files[i].name = <<c>> \/ files[i].name = <<d, c>>)
    BY <1>1, <1>4 DEF Found, Named, HashName
  <2>2. files[i] \in File
    BY <2>1
  <2>3. files[i].body = c
    BY <2>1, <2>2, FileNames
  <2>4. i # 0
    BY <2>1
  <2> QED
    BY <1>4, <2>1, <2>3, <2>4 DEF FilesKept, IsBody
<1>5. ASSUME NEW f \in {New(c, HashName(c)), New(c, NoName)},
             files' = Append(files, f), i = Len(files) + 1
      PROVE  FilesKept /\ IsBody(i, c)' /\ i # 0
  <2>1. f \in File /\ f.body = c
    BY <1>2, <1>3
  <2>2. i # 0
    BY <1>5
  <2> QED
    BY <1>5, <2>1, <2>2, Appended DEF IsBody
<1>6. CASE files' = files \o <<New(c, HashName(c)), New(c, HashName(c))>> /\ i = Len(files) + 2
  <2> DEFINE f == New(c, HashName(c))
  <2>1. f \in File /\ f.body = c
    BY <1>2, <1>3
  <2> HIDE DEF f
  <2>2. <<f, f>> \in Seq(File) /\ Len(<<f, f>>) = 2 /\ <<f, f>>[2] = f
    BY <2>1
  <2>3. /\ files' \in Seq(File) /\ Len(files') = Len(files) + 2
        /\ \A j \in 1..(Len(files) + 2) :
             files'[j] = IF j <= Len(files) THEN files[j] ELSE <<f, f>>[j - Len(files)]
    BY <1>6, <2>2, ConcatProperties DEF f
  <2>4. FilesKept /\ i \in DOMAIN files' /\ i # 0
    BY <1>6, <2>3 DEF FilesKept
  <2>5. files'[i] = f
    <3>1. i \in 1..(Len(files) + 2) /\ ~(i <= Len(files)) /\ i - Len(files) = 2
      BY <1>6
    <3> QED
      BY <2>2, <2>3, <3>1
  <2> QED
    BY <2>1, <2>4, <2>5 DEF IsBody
<1> QED
  BY <1>4, <1>5, <1>6 DEF Stored

(***************************************************************************)
(* What a step leaves                                                      *)
(***************************************************************************)
\* A document that the backend knows is not forgotten, and one that was changed
\* is known to have been.
ToldKept ==
  \A p \in Parts : told[p] # 0 =>
    told'[p] = told[p] /\ (told'[p] = now'[p] => now'[p] = now[p])

LEMMA RecordKept ==
  ASSUME SavedInv, FilingInv, FilesKept, ToldKept, filing' = filing, saved' = saved
  PROVE  SavedInv' /\ FilingInv'
<1>1. \A i, c : IsBody(i, c) => IsBody(i, c)'
  BY BodyKept
<1>2. \A e, c : Entry(e, c) => Entry(e, c)'
  BY <1>1 DEF Entry
<1>3. SavedInv'
  BY <1>2 DEF SavedInv
<1>4. Docs' = Docs /\ Artifact(filing)' = Artifact(filing)
  BY DEF Docs, Artifact
<1>5. ASSUME NEW p \in Parts, filing.files[p] # 0
      PROVE  /\ filing.files[p] \in DOMAIN files' /\ told'[p] # 0
             /\ filing.source = Empty /\ told'[p] = now'[p] =>
                  IsBody(filing.files[p], Only(p, now[p]))' /\ now'[p] = now[p]
             /\ filing.hashes[p] # Empty => IsBody(filing.files[p], filing.hashes[p])'
  BY <1>1, <1>5 DEF FilingInv, FilesKept, ToldKept
<1>6. filing.source # Empty =>
        \A p \in Parts : told'[p] # 0 /\ (told'[p] = now'[p] => filing.source[p] = now'[p])
  BY DEF FilingInv, ToldKept
<1> QED
  BY <1>3, <1>4, <1>5, <1>6 DEF FilingInv, IsBody

LEMMA FilesSame == ASSUME files \in Seq(File), files' = files PROVE FilesKept
  BY DEF FilesKept

LEMMA IdleIs == Idle \in Job /\ Idle.step = "idle"
<1>1. /\ "idle" \in Step /\ "index_parsed" \in Kinds /\ {} \in SUBSET Parts
      /\ NoFiles \in [Parts -> Nat] /\ NoText \in AllTexts /\ NoBook \in Book
      /\ Empty \in Versions /\ NoKey \in Keys
  BY Contents, NoKeyIs DEF Step, Kinds, NoFiles
<1> QED
  BY <1>1 DEF Idle, Job

LEMMA IdleJob ==
  ASSUME job'.step = "idle"
  PROVE  JobInv' /\ IngestInv' /\ RecordInv'
  BY DEF JobInv, IngestInv, RecordInv

LEMMA EditStep ==
  ASSUME IngestionInv, NEW d \in Parts, Edit(d)
  PROVE  IngestionInv'
<1>0. /\ Types /\ ToldInv /\ SavedInv /\ FilingInv /\ TextIsCurrent /\ SplitReadsThisPdf
      /\ JobInv /\ IngestInv /\ RecordInv
  BY DEF IngestionInv
<1>1. /\ now' = [now EXCEPT ![d] = @ + 1] /\ now \in Versions /\ told \in Versions
      /\ told' = told /\ files' = files /\ saved' = saved /\ filing' = filing /\ job' = job
      /\ index' = index /\ split' = split /\ job.step = "idle"
  BY <1>0 DEF Edit, Types
<1>2. now' \in Versions /\ \A p \in Parts : now'[p] = IF p = d THEN now[p] + 1 ELSE now[p]
  <2>1. now \in [Parts -> Nat] /\ now[d] \in Nat /\ now[d] + 1 \in Nat
    BY <1>1 DEF Versions
  <2>2. now' = [now EXCEPT ![d] = now[d] + 1]
    BY <1>1
  <2>3. now' \in [Parts -> Nat]
    BY <2>1, <2>2
  <2>4. \A p \in Parts : now'[p] = IF p = d THEN now[p] + 1 ELSE now[p]
    BY <2>1, <2>2
  <2> QED
    BY <2>3, <2>4 DEF Versions
<1>3. Types'
  BY <1>0, <1>1, <1>2 DEF Types
<1>4. ToldInv' /\ ToldKept
  BY <1>0, <1>1, <1>2 DEF ToldInv, ToldKept, Versions
<1>5. SavedInv' /\ FilingInv'
  BY <1>0, <1>1, <1>4, RecordKept, FilesSame DEF Types
<1>6. TextIsCurrent' /\ SplitReadsThisPdf'
  BY <1>0, <1>1 DEF TextIsCurrent, SplitReadsThisPdf
<1> QED
  BY <1>0, <1>1, <1>3, <1>4, <1>5, <1>6, IdleJob DEF IngestionInv

LEMMA FailStep ==
  ASSUME IngestionInv, Fail
  PROVE  IngestionInv'
<1>0. /\ Types /\ ToldInv /\ SavedInv /\ FilingInv /\ TextIsCurrent /\ SplitReadsThisPdf
      /\ JobInv /\ IngestInv /\ RecordInv
  BY DEF IngestionInv
<1>1. /\ now' = now /\ told' = told /\ files' = files /\ saved' = saved /\ filing' = filing
      /\ index' = index /\ split' = split /\ job' = Idle
  BY DEF Fail
<1>2. Types' /\ ToldInv' /\ ToldKept
  BY <1>0, <1>1, IdleIs DEF Types, ToldInv, ToldKept
<1>3. SavedInv' /\ FilingInv'
  BY <1>0, <1>1, <1>2, RecordKept, FilesSame DEF Types
<1>4. TextIsCurrent' /\ SplitReadsThisPdf'
  BY <1>0, <1>1 DEF TextIsCurrent, SplitReadsThisPdf
<1> QED
  BY <1>0, <1>1, <1>2, <1>3, <1>4, IdleJob, IdleIs DEF IngestionInv

LEMMA SetSeq == ASSUME NEW S, IsFiniteSet(S) PROVE SetToSeq(S) \in Seq(S)
<1>1. \E f \in [1..Cardinality(S) -> S] : IsInjective(f)
  <2>1. PICK f \in Bijection(1..Cardinality(S), S) : TRUE
    BY FS_CardinalityType DEF ExistsBijection
  <2> QED
    BY <2>1 DEF Bijection, Injection, IsInjective
<1>2. SetToSeq(S) \in [1..Cardinality(S) -> S]
  BY <1>1 DEF SetToSeq
<1> QED
  BY <1>2, FS_CardinalityType

\* _upload_sliced_slots stores each slot under the hash of its content.
LEMMA SlicesAre == ASSUME now \in Versions PROVE Slices \in Seq(File)
<1> DEFINE new == {Only(p, now[p]) : p \in Parts}
           lacking == {c \in new : Named(HashName(c)) = {}}
           S == {New(c, HashName(c)) : c \in lacking}
<1>1. IsFiniteSet(new)
  <2>1. [p \in Parts |-> Only(p, now[p])] \in Surjection(Parts, new)
    BY DEF Surjection
  <2> QED
    BY <2>1, FS_Surjection, IngestionAssumption DEF IngestionAssumption
<1>2. IsFiniteSet(lacking)
  BY <1>1, FS_Subset
<1>3. IsFiniteSet(S)
  <2> HIDE DEF lacking
  <2>1. [c \in lacking |-> New(c, HashName(c))] \in Surjection(lacking, S)
    BY DEF Surjection
  <2> QED
    BY <1>2, <2>1, FS_Surjection
<1>4. S \subseteq File
  <2>1. \A c \in new : c \in Versions
    BY Contents DEF Versions
  <2> QED
    BY <2>1, NewIs
<1>5. Slices = SetToSeq(S)
  BY DEF Slices
<1> HIDE DEF S
<1>6. SetToSeq(S) \in Seq(S)
  BY <1>3, SetSeq
<1>7. SetToSeq(S) \in Seq(File)
  BY <1>4, <1>6
<1> QED
  BY <1>5, <1>7

LEMMA SplitStep ==
  ASSUME IngestionInv, Split
  PROVE  IngestionInv'
<1>0. /\ Types /\ ToldInv /\ SavedInv /\ FilingInv /\ TextIsCurrent /\ SplitReadsThisPdf
      /\ JobInv /\ IngestInv /\ RecordInv
  BY DEF IngestionInv
<1>1. /\ now' = now /\ told' = told /\ files' = files \o Slices /\ saved' = saved /\ filing' = filing
      /\ index' = index /\ job' = job /\ job.step = "idle"
      /\ \E text \in SplitTexts(now) : split' = [of |-> now, text |-> text]
  BY DEF Split, MayStart
<1>2. FilesKept
  <2>1. files \in Seq(File) /\ Slices \in Seq(File)
    BY <1>0, SlicesAre DEF Types
  <2> QED
    BY <1>0, <1>1, <2>1, ConcatProperties DEF FilesKept
<1>3. Types' /\ ToldInv' /\ ToldKept
  BY <1>0, <1>1, <1>2 DEF Types, ToldInv, ToldKept, FilesKept
<1>4. SavedInv' /\ FilingInv'
  BY <1>0, <1>1, <1>2, <1>3, RecordKept
<1>5. SplitTexts(now) \subseteq {now}
  BY <1>0 DEF SplitTexts, SamePdf, FilingInv, Whole
<1>6. TextIsCurrent' /\ SplitReadsThisPdf'
  BY <1>0, <1>1, <1>5 DEF TextIsCurrent, SplitReadsThisPdf
<1> QED
  BY <1>0, <1>1, <1>3, <1>4, <1>6, IdleJob DEF IngestionInv

LEMMA FinishStep ==
  ASSUME IngestionInv, Finish
  PROVE  IngestionInv'
<1>0. /\ Types /\ ToldInv /\ SavedInv /\ FilingInv /\ TextIsCurrent /\ SplitReadsThisPdf
      /\ JobInv /\ RecordInv
  BY DEF IngestionInv
<1>1. /\ now' = now /\ told' = Known /\ files' = files /\ saved' = saved /\ filing' = filing
      /\ index' = IF job.kind \in {"index_parsed", "upload_separate"} THEN Indexed ELSE index
      /\ split' = split /\ job' = Idle /\ job.step = "index"
  BY DEF Finish
<1>2. /\ now \in Versions /\ told \in Versions /\ job.on \subseteq Parts /\ job.files \in [Parts -> Nat]
      /\ \A p \in Parts : now[p] \in Nat /\ now[p] >= 1 /\ told[p] \in Nat /\ told[p] <= now[p]
  BY <1>0 DEF Types, Job, Versions, ToldInv
<1>3. /\ filing.files = job.files /\ filing.source = job.source
      /\ \A p \in Parts \ job.on : job.files[p] = 0
      /\ \A p \in job.on : IsBody(job.files[p], job.of[p])
      /\ job.source # Empty => job.source = now
  BY <1>0, <1>1, <1>2 DEF JobInv, RecordInv
<1>4. now # Empty
  <2>1. Main \in Parts /\ Empty[Main] = 0 /\ now[Main] # 0
    BY <1>2, Contents, IngestionAssumption DEF IngestionAssumption
  <2> QED
    BY <2>1
<1>5. CASE job.kind = "extract_front"
  <2>1. told' = now /\ filing.source = now /\ index' = index
    BY <1>0, <1>1, <1>3, <1>5 DEF Known, JobInv, RecordInv
  <2>2. ToldInv' /\ Types'
    BY <1>0, <1>1, <1>2, <2>1, IdleIs DEF ToldInv, Types
  <2>3. FilingInv'
    <3>1. \A p \in Parts : told'[p] # 0
      BY <1>2, <2>1
    <3> QED
      BY <1>0, <1>1, <1>4, <2>1, <3>1 DEF FilingInv, IsBody, Artifact, Docs
  <2>4. SavedInv' /\ TextIsCurrent' /\ SplitReadsThisPdf'
    BY <1>0, <1>1, <2>1 DEF SavedInv, Entry, IsBody, TextIsCurrent, SplitReadsThisPdf
  <2> QED
    BY <1>1, <2>2, <2>3, <2>4, IdleJob, IdleIs DEF IngestionInv
<1>6. CASE job.kind # "extract_front"
  <2>1. \A p \in job.on : job.of[p] = Only(p, now[p]) /\ job.of[p][p] = now[p]
    BY <1>0, <1>1, <1>2, <1>6, Contents DEF JobInv
  <2>2. told' = [p \in Parts |-> IF p \in job.on THEN now[p] ELSE told[p]]
    BY <1>1, <1>2, <1>6, <2>1 DEF Known
  <2>3. told' \in Versions /\ \A p \in Parts : told'[p] = IF p \in job.on THEN now[p] ELSE told[p]
    BY <1>2, <2>2 DEF Versions
  <2>4. ToldInv' /\ Types'
    BY <1>0, <1>1, <1>2, <2>3, IdleIs DEF ToldInv, Types
  <2>5. FilingInv'
    <3>1. ASSUME NEW p \in Parts, filing.files[p] # 0
          PROVE  told'[p] # 0 /\ IsBody(filing.files[p], Only(p, now[p]))
      BY <1>2, <1>3, <2>1, <2>3, <3>1
    <3>2. ASSUME filing.source # Empty, NEW p \in Parts
          PROVE  told'[p] # 0 /\ (told'[p] = now[p] => filing.source[p] = now[p])
      BY <1>0, <1>2, <1>3, <2>3, <3>2 DEF FilingInv
    <3> QED
      BY <1>0, <1>1, <3>1, <3>2 DEF FilingInv, IsBody, Artifact, Docs
  <2>6. SavedInv' /\ SplitReadsThisPdf'
    BY <1>0, <1>1 DEF SavedInv, Entry, IsBody, SplitReadsThisPdf
  <2>7. TextIsCurrent'
    <3>1. \A p \in job.on : \/ job.text[p] = job.of[p]
                            \/ job.text[p] = Empty /\ (p \in job.failed \/ job.kind = "extract_only")
      BY <1>0, <1>1 DEF RecordInv
    <3> QED
      BY <1>0, <1>1, <3>1 DEF TextIsCurrent, Indexed
  <2> QED
    BY <1>1, <2>4, <2>5, <2>6, <2>7, IdleJob, IdleIs DEF IngestionInv
<1> QED
  BY <1>5, <1>6

LEMMA IngestStep ==
  ASSUME Habits \subseteq Careful, IngestionInv, NEW d \in Parts, Ingest(d)
  PROVE  IngestionInv'
<1>0. /\ Types /\ ToldInv /\ SavedInv /\ FilingInv /\ TextIsCurrent /\ SplitReadsThisPdf
      /\ JobInv /\ IngestInv
  BY DEF IngestionInv
<1>1. PICK i \in 1..(Len(files) + 2) :
        /\ Stored(job.of[d], NameOf(IF job.kind = "extract_front" THEN "compiled" ELSE d, job.of[d]), i)
        /\ job' = [job EXCEPT !.left = @ \ {d}, !.files[d] = i, !.hashes[d] = job.of[d]]
  BY DEF Ingest
<1>2. /\ now' = now /\ told' = told /\ saved' = saved /\ filing' = filing
      /\ index' = index /\ split' = split /\ job.step = "ingest" /\ d \in job.left
  BY DEF Ingest
<1>3. job.of[d] \in Versions /\ files \in Seq(File) /\ job \in Job
  BY <1>0 DEF Types, Job, AllTexts
<1>c. PICK c \in Versions : c = job.of[d]
  BY <1>3
<1>4. FilesKept /\ IsBody(i, c)' /\ i # 0 /\ i \in Nat
  <2>1. PICK e \in Parts \cup {"compiled"} : Stored(c, NameOf(e, c), i)
    BY <1>1, <1>c
  <2>2. FilesKept /\ IsBody(i, c)' /\ i # 0
    BY <1>3, <2>1, StoredIs
  <2>3. i \in Nat
    BY <1>1, <1>3
  <2> QED
    BY <2>2, <2>3
<1>5. /\ job' \in Job /\ job'.step = "ingest" /\ job'.kind = job.kind /\ job'.on = job.on
      /\ job'.of = job.of /\ job'.left = job.left \ {d} /\ job'.reuse = job.reuse
      /\ job'.book = job.book /\ job'.source = job.source
      /\ \A p \in Parts : /\ job'.files[p] = IF p = d THEN i ELSE job.files[p]
                          /\ job'.hashes[p] = IF p = d THEN job.of[d] ELSE job.hashes[p]
  <2> DEFINE fs == [job.files EXCEPT ![d] = i]
             hs == [job.hashes EXCEPT ![d] = job.of[d]]
  <2>1. fs \in [Parts -> Nat] /\ hs \in AllTexts
    BY <1>3, <1>4 DEF Job, AllTexts
  <2>2. \A p \in Parts : /\ fs[p] = IF p = d THEN i ELSE job.files[p]
                         /\ hs[p] = IF p = d THEN job.of[d] ELSE job.hashes[p]
    BY <1>3 DEF Job, AllTexts
  <2>3. job' = [job EXCEPT !.left = job.left \ {d}, !.files = fs, !.hashes = hs]
    BY <1>1
  <2>4. job.left \ {d} \in SUBSET Parts
    BY <1>3 DEF Job
  <2> HIDE DEF fs, hs
  <2> QED
    BY <1>2, <1>3, <2>1, <2>2, <2>3, <2>4 DEF Job
<1>6. Types' /\ ToldInv' /\ ToldKept
  BY <1>0, <1>2, <1>4, <1>5 DEF Types, ToldInv, ToldKept, FilesKept
<1>7. SavedInv' /\ FilingInv'
  BY <1>0, <1>2, <1>4, <1>6, RecordKept
<1>8. TextIsCurrent' /\ SplitReadsThisPdf'
  BY <1>0, <1>2 DEF TextIsCurrent, SplitReadsThisPdf
<1>9. \A p \in Parts : p \in job'.on \ job'.left => IsBody(job.files[p], job.of[p])'
  <2>1. \A j, b : IsBody(j, b) => IsBody(j, b)'
    BY <1>4, BodyKept
  <2> QED
    BY <1>0, <1>2, <1>c, <1>4, <1>5, <2>1 DEF JobInv, IsBody
<1>10. JobInv'
  BY <1>0, <1>2, <1>5, <1>9 DEF JobInv, IsBody
<1>11. IngestInv'
  BY <1>0, <1>2, <1>5 DEF IngestInv, JobInv
<1>12. RecordInv'
  BY <1>5 DEF RecordInv
<1> QED
  BY <1>6, <1>7, <1>8, <1>10, <1>11, <1>12 DEF IngestionInv

LEMMA HeardIs ==
  ASSUME now \in Versions, told \in Versions, ToldInv, NEW on \in SUBSET Parts,
         now' = now, told' = Heard(on)
  PROVE  /\ told' \in Versions /\ ToldInv' /\ ToldKept
         /\ \A p \in Parts : (p \in on \/ told[p] # 0) => told'[p] # 0
<1>1. /\ told' \in Versions
      /\ \A p \in Parts : told'[p] = IF p \in on /\ told[p] = 0 THEN now[p] ELSE told[p]
  BY DEF Heard, Versions
<1>2. \A p \in Parts : now[p] \in Nat /\ now[p] >= 1
  BY DEF ToldInv, Versions
<1> QED
  BY <1>1, <1>2 DEF ToldInv, ToldKept

LEMMA FrontStep ==
  ASSUME IngestionInv, SubmitFront
  PROVE  IngestionInv'
<1>0. /\ Types /\ ToldInv /\ SavedInv /\ FilingInv /\ TextIsCurrent /\ SplitReadsThisPdf
  BY DEF IngestionInv
<1> DEFINE of == [NoText EXCEPT ![Main] = now]
<1>1. /\ now' = now /\ told' = Heard(Parts) /\ files' = files /\ saved' = saved /\ filing' = filing
      /\ index' = index /\ split' = NoSplit
      /\ job' = [Idle EXCEPT !.step = "ingest", !.kind = "extract_front", !.on = {Main},
                             !.of = of, !.left = {Main}]
  BY DEF SubmitFront
<1>2. now \in Versions /\ told \in Versions /\ Main \in Parts
  BY <1>0, IngestionAssumption DEF Types, IngestionAssumption
<1>3. of \in AllTexts /\ of[Main] = now
  BY <1>2, Contents DEF AllTexts
<1> HIDE DEF of
<1>4. /\ Idle \in Job /\ Idle.files = NoFiles /\ Idle.hashes = NoText /\ Idle.reuse = NoText
      /\ Idle.book = NoBook /\ Idle.source = Empty
  BY IdleIs DEF Idle
<1>5. /\ job' \in Job /\ job'.step = "ingest" /\ job'.kind = "extract_front" /\ job'.on = {Main}
      /\ job'.of = of /\ job'.left = {Main} /\ job'.files = NoFiles /\ job'.hashes = NoText
      /\ job'.reuse = NoText /\ job'.book = NoBook /\ job'.source = Empty
  <2>1. "ingest" \in Step /\ "extract_front" \in Kinds /\ {Main} \in SUBSET Parts
    BY <1>2 DEF Step, Kinds, Extracting
  <2> QED
    BY <1>1, <1>3, <1>4, <2>1 DEF Job
<1>6. told' \in Versions /\ ToldInv' /\ ToldKept /\ \A p \in Parts : told'[p] # 0
  BY <1>0, <1>1, <1>2, HeardIs
<1>7. Types'
  BY <1>0, <1>1, <1>5, <1>6 DEF Types
<1>8. SavedInv' /\ FilingInv'
  BY <1>0, <1>1, <1>6, RecordKept, FilesSame DEF Types
<1>9. JobInv'
  BY <1>1, <1>2, <1>3, <1>5, <1>6, Contents DEF JobInv, NoFiles
<1>10. IngestInv' /\ RecordInv'
  BY <1>1, <1>5, Contents DEF IngestInv, RecordInv
<1>11. TextIsCurrent' /\ SplitReadsThisPdf'
  BY <1>0, <1>1 DEF TextIsCurrent, SplitReadsThisPdf, NoSplit
<1> QED
  BY <1>6, <1>7, <1>8, <1>9, <1>10, <1>11 DEF IngestionInv

\* What a request that keeps the habits is about: a filing made from a compiled
\* petition that is as it was, or, unless the request says that documents were
\* edited, documents that are as they were.
AskedRight(on, form, edited, linked) ==
  linked =>
    /\ filing.source # Empty =>
         "id" \in form /\ \A p \in Parts : told[p] = now[p] /\ filing.source[p] = now[p]
    /\ ~edited /\ "id" \notin form => \A p \in on : told[p] \in {0, now[p]}

LEMMA AllowedIs ==
  ASSUME Habits \subseteq Careful, FilingInv, NEW kind, NEW on \in SUBSET Parts, NEW form,
         NEW edited, NEW linked, Allowed(kind, on, form, linked),
         kind \in Kinds, kind = "index_parsed" => linked, edited => kind = "index_parsed",
         ~edited /\ kind = "index_parsed" => Same(on)
  PROVE  /\ AskedRight(on, form, edited, linked)
         /\ kind # "index_parsed" =>
              \/ linked /\ filing.source = Empty
              \/ ~linked /\ (filing.source = Empty \/ on # DOMAIN filing.key)
<1>1. "linking" \in Careful /\ "ids" \in Careful /\ "resending" \in Careful /\ "books" \in Careful
  BY DEF Habits
<1>2. kind # "index_parsed" => kind \in Extracting
  BY DEF Kinds
<1>3. linked /\ filing.source # Empty => "id" \in form /\ Same(Parts)
  BY <1>1 DEF Allowed
<1>4. linked /\ ~edited => Same(on)
  BY <1>1, <1>2 DEF Allowed
<1>5. linked /\ filing.source # Empty =>
        \A p \in Parts : told[p] = now[p] /\ filing.source[p] = now[p]
  BY <1>3 DEF Same, FilingInv
<1>6. kind # "index_parsed" =>
        \/ linked /\ filing.source = Empty
        \/ ~linked /\ (filing.source = Empty \/ on # DOMAIN filing.key)
  BY <1>1, <1>2 DEF Allowed
<1> QED
  BY <1>3, <1>4, <1>5, <1>6 DEF AskedRight, Same

\* The file taken for a document is its file.
LEMMA FileOfIs ==
  ASSUME Types, FilingInv, NEW on \in SUBSET Parts, NEW form, NEW edited, NEW linked,
         AskedRight(on, form, edited, linked), NEW p \in on,
         "id" \in form => Mine(p) # {},
         FileOf(IF linked THEN filing ELSE NoFiling, p, form, edited) # 0
  PROVE  IsBody(FileOf(IF linked THEN filing ELSE NoFiling, p, form, edited), Only(p, now[p]))
<1> DEFINE f == IF linked THEN filing ELSE NoFiling
<1>1. CASE "id" \in form
  <2>1. FileOf(f, p, form, edited) \in Mine(p)
    BY <1>1 DEF FileOf
  <2> QED
    BY <2>1 DEF Mine, IsBody
<1>2. CASE "id" \notin form
  <2>1. /\ FileOf(f, p, form, edited) = f.files[p] /\ f.files[p] # 0
        /\ edited => Unchanged(f, p, form)
    BY <1>2 DEF FileOf
  <2>2. linked /\ f = filing
    <3>1. NoFiling.files[p] = 0
      BY DEF NoFiling, NoFiles
    <3> QED
      BY <2>1, <3>1
  <2>3. filing.source = Empty
    BY <1>2, <2>2 DEF AskedRight
  <2>4. CASE edited
    BY <2>1, <2>2, <2>4 DEF Unchanged, FilingInv
  <2>5. CASE ~edited
    <3>1. told[p] = now[p]
      BY <1>2, <2>1, <2>2, <2>5 DEF AskedRight, FilingInv
    <3> QED
      BY <2>1, <2>2, <2>3, <3>1 DEF FilingInv
  <2> QED
    BY <2>4, <2>5
<1> QED
  BY <1>1, <1>2

\* The text that is reused for a document is its text.
LEMMA ReusesAre ==
  ASSUME Habits \subseteq Careful, Types, SavedInv, FilingInv, ToldInv, NEW on \in SUBSET Parts,
         NEW form, NEW edited, edited \/ Same(on),
         filing.source # Empty => \A p \in Parts : filing.source[p] = now[p],
         NEW a \in Readable(filing), NEW r \in Reuses(filing, a, on, form, edited)
  PROVE  /\ a.book = Whole(filing.source) /\ r \in AllTexts
         /\ \A p \in Parts : r[p] # Empty => p \in on /\ r[p] = Only(p, now[p])
<1>1. a = Artifact(filing) \/ (a = NoArtifact /\ filing.source = Empty)
  <2>1. "storage" \in Careful
    BY DEF Habits
  <2> QED
    BY <2>1 DEF Readable
<1>2. a.book = Whole(filing.source)
  BY <1>1, Contents DEF FilingInv, NoArtifact
<1> DEFINE kept == Reusable(filing, a, on, form, edited)
           offered(p) ==
             IF a.book # NoBook
             THEN IF "span" \in form /\ (edited => p \in kept) THEN CutsOf(a.book, p) ELSE {Empty}
             ELSE IF ~Compiled(filing, a) /\ p \in kept \cap HasText(filing, a)
                  THEN {a.text[p]} ELSE {Empty}
<1>3. /\ r \in [Parts -> {Empty} \cup UNION {offered(p) : p \in on}]
      /\ \A p \in Parts : IF p \in on THEN r[p] \in offered(p) ELSE r[p] = Empty
  BY DEF Reuses
<1>4. ASSUME NEW p \in on PROVE offered(p) \subseteq {Empty, Only(p, now[p])}
  <2>1. CASE filing.source # Empty
    <3>1. a.book # NoBook /\ a.book.text = filing.source /\ a.book.of = filing.source
      BY <1>2, <2>1 DEF Whole, NoBook
    <3>2. filing.source[p] = now[p]
      BY <2>1
    <3> QED
      BY <3>1, <3>2 DEF CutsOf
  <2>2. CASE filing.source = Empty
    <3>1. a.book = NoBook
      BY <1>2, <2>2, Contents
    <3>2. SUFFICES ASSUME p \in kept, a.text[p] # Empty PROVE a.text[p] = Only(p, now[p])
      BY <3>1
    <3>3. filing.key \in DOMAIN saved /\ a = saved[filing.key]
      <4>1. NoArtifact.text[p] = Empty
        BY Contents DEF NoArtifact
      <4> QED
        BY <1>1, <3>2, <4>1 DEF Artifact
    <3>4. filing.key = KeyOf(Docs, filing.hashes, filing.files)
      BY <3>3 DEF FilingInv, SavedInv
    <3>5. p \in DOMAIN filing.key /\ Entry(filing.key[p], a.text[p])
      BY <3>2, <3>3 DEF SavedInv
    <3>6. filing.hashes \in AllTexts /\ filing.files \in [Parts -> Nat] /\ Docs \in SUBSET Parts
      BY DEF Types, Filing, Docs
    <3>7. /\ p \in Docs
          /\ filing.key[p] = IF filing.hashes[p] # Empty THEN <<filing.hashes[p], 0>>
                             ELSE <<Empty, filing.files[p]>>
      BY <3>4, <3>5, <3>6, KeyIs
    <3>8. IF filing.hashes[p] # Empty THEN filing.hashes[p] = a.text[p]
          ELSE IsBody(filing.files[p], a.text[p])
      BY <3>5, <3>7 DEF Entry
    <3>9. filing.files[p] # 0
      BY <3>7 DEF Docs
    <3>10. CASE edited
      <4>1. filing.hashes[p] = Only(p, now[p]) /\ filing.hashes[p] # Empty
        BY <3>2, <3>10 DEF Reusable, Unchanged
      <4> QED
        BY <3>8, <4>1
    <3>11. CASE ~edited
      <4>1. told[p] = now[p]
        BY <3>9, <3>11 DEF Same, FilingInv
      <4>2. IsBody(filing.files[p], Only(p, now[p]))
        BY <2>2, <3>9, <4>1 DEF FilingInv
      <4>3. filing.hashes[p] # Empty => IsBody(filing.files[p], filing.hashes[p])
        BY <3>9 DEF FilingInv
      <4> QED
        BY <3>8, <4>2, <4>3 DEF IsBody
    <3> QED
      BY <3>10, <3>11
  <2> QED
    BY <2>1, <2>2
<1> HIDE DEF offered
<1>5. \A p \in Parts : r[p] # Empty => p \in on /\ r[p] = Only(p, now[p])
  BY <1>3, <1>4
<1>6. \A p \in Parts : r[p] \in Versions
  <2>1. \A p \in Parts : now[p] \in Nat
    BY DEF Types, Versions
  <2> QED
    BY <1>5, <2>1, Contents
<1>7. r \in AllTexts
  BY <1>3, <1>6 DEF AllTexts
<1> QED
  BY <1>2, <1>5, <1>7

LEMMA SubmitStep ==
  ASSUME Habits \subseteq Careful, IngestionInv, NEW kind \in Kinds \ {"extract_front"},
         NEW on \in Lists, NEW form \in Forms, NEW edited \in BOOLEAN, NEW linked \in BOOLEAN,
         Submit(kind, on, form, edited, linked)
  PROVE  IngestionInv'
<1>0. /\ Types /\ ToldInv /\ SavedInv /\ FilingInv /\ TextIsCurrent /\ SplitReadsThisPdf
  BY DEF IngestionInv
<1> DEFINE f == IF linked THEN filing ELSE NoFiling
           ids == [p \in Parts |-> IF p \in on THEN FileOf(f, p, form, edited) ELSE 0]
           of == [p \in Parts |-> IF p \in on THEN Only(p, now[p]) ELSE Empty]
           left == {p \in on : ids[p] = 0}
           hashes == [p \in Parts |-> IF p \in on /\ "hash" \in form THEN Only(p, now[p]) ELSE Empty]
           book(a) == IF kind = "index_parsed" THEN a.book ELSE NoBook
<1>1. /\ now' = now /\ told' = Heard(on) /\ files' = files /\ saved' = saved /\ filing' = filing
      /\ index' = index /\ split' = NoSplit
      /\ Allowed(kind, on, form, linked)
      /\ kind = "index_parsed" => linked
      /\ edited => kind = "index_parsed"
      /\ ~edited /\ kind = "index_parsed" => Same(on)
      /\ "id" \in form => \A p \in on : Mine(p) # {}
  BY DEF Submit
<1>2. PICK a \in Readable(f) :
        \E reuse \in IF kind = "index_parsed" THEN Reuses(f, a, on, form, edited) ELSE {NoText} :
          job' = [Idle EXCEPT !.step = "ingest", !.kind = kind, !.on = on, !.of = of, !.left = left,
                              !.files = ids, !.hashes = hashes, !.reuse = reuse,
                              !.book = book(a), !.source = f.source]
  BY DEF Submit
<1>3. PICK reuse \in IF kind = "index_parsed" THEN Reuses(f, a, on, form, edited) ELSE {NoText} :
          job' = [Idle EXCEPT !.step = "ingest", !.kind = kind, !.on = on, !.of = of, !.left = left,
                              !.files = ids, !.hashes = hashes, !.reuse = reuse,
                              !.book = book(a), !.source = f.source]
  BY <1>2
<1>4. on \in SUBSET Parts /\ on # {} /\ now \in Versions /\ told \in Versions
  BY <1>0, IngestionAssumption DEF Types, IngestionAssumption
<1>5. /\ AskedRight(on, form, edited, linked)
      /\ kind # "index_parsed" =>
           /\ f.source = Empty
           /\ filing.source = Empty \/ on # DOMAIN filing.key
  <2>1. kind \in Kinds
    OBVIOUS
  <2>2. /\ AskedRight(on, form, edited, linked)
        /\ kind # "index_parsed" =>
             \/ linked /\ filing.source = Empty
             \/ ~linked /\ (filing.source = Empty \/ on # DOMAIN filing.key)
    BY <1>0, <1>1, <1>4, <2>1, AllowedIs
  <2> QED
    BY <2>2 DEF NoFiling
<1>6. \A p \in on : ids[p] # 0 => IsBody(ids[p], Only(p, now[p]))
  BY <1>0, <1>1, <1>4, <1>5, FileOfIs
<1>7. /\ book(a) = Whole(f.source) /\ reuse \in AllTexts /\ f.source \in Versions
      /\ \A p \in Parts : reuse[p] # Empty => p \in on /\ reuse[p] = Only(p, now[p])
      /\ kind # "index_parsed" => book(a) = NoBook /\ reuse = NoText
  <2>1. CASE kind = "index_parsed"
    <3>1. linked /\ f = filing
      BY <1>1, <2>1
    <3>2. /\ edited \/ Same(on)
          /\ filing.source # Empty => \A p \in Parts : filing.source[p] = now[p]
      BY <1>1, <1>5, <2>1, <3>1 DEF AskedRight
    <3>3. a \in Readable(filing) /\ reuse \in Reuses(filing, a, on, form, edited)
      BY <1>2, <1>3, <2>1, <3>1
    <3>4. filing.source \in Versions
      BY <1>0 DEF Types, Filing
    <3>5. /\ a.book = Whole(filing.source) /\ reuse \in AllTexts
          /\ \A p \in Parts : reuse[p] # Empty => p \in on /\ reuse[p] = Only(p, now[p])
      <4> HIDE DEF f, ids, of, left, hashes, book
      <4>1. \A r \in Reuses(filing, a, on, form, edited) :
              /\ a.book = Whole(filing.source) /\ r \in AllTexts
              /\ \A p \in Parts : r[p] # Empty => p \in on /\ r[p] = Only(p, now[p])
        BY <1>0, <1>4, <3>2, <3>3, ReusesAre
      <4> QED
        BY <3>3, <4>1
    <3>6. book(a) = a.book /\ f.source = filing.source
      BY <2>1, <3>1
    <3> QED
      BY <2>1, <3>4, <3>5, <3>6
  <2>2. CASE kind # "index_parsed"
    BY <1>3, <1>5, <2>2, Contents
  <2> QED
    BY <2>1, <2>2
<1>8. /\ of \in AllTexts /\ hashes \in AllTexts
      /\ \A p \in on : of[p] = Only(p, now[p])
      /\ \A p \in Parts : hashes[p] \in {Empty, of[p]} /\ (p \notin on => hashes[p] = Empty)
  <2>1. \A p \in Parts : Only(p, now[p]) \in Versions /\ Empty \in Versions
    BY <1>4, Contents DEF Versions
  <2> QED
    BY <1>4, <2>1 DEF AllTexts
<1>9. ids \in [Parts -> Nat] /\ (\A p \in Parts \ on : ids[p] = 0) /\ left \in SUBSET on
  <2>1. \A i \in DOMAIN files : i \in Nat
    BY <1>0 DEF Types
  <2>2. \A p \in on : ids[p] \in Nat
    BY <1>6, <2>1 DEF IsBody
  <2>3. \A p \in Parts \ on : ids[p] = 0
    OBVIOUS
  <2>4. \A p \in Parts : ids[p] \in Nat
    BY <2>2, <2>3
  <2>5. left \in SUBSET on
    OBVIOUS
  <2> HIDE DEF left
  <2>6. ids \in [Parts -> Nat]
    BY <2>4
  <2> QED
    BY <2>3, <2>5, <2>6
<1>l. \A p \in on : p \in left <=> ids[p] = 0
  OBVIOUS
<1>b. book(a) \in Book
  BY <1>7 DEF Whole, Book
<1> DEFINE b == book(a)
           source == f.source
<1>c. /\ b = Whole(source) /\ source \in Versions /\ b \in Book
      /\ kind # "index_parsed" => b = NoBook /\ source = Empty
      /\ kind = "index_parsed" => source = filing.source
  BY <1>1, <1>5, <1>7, <1>b
<1>j. job' = [Idle EXCEPT !.step = "ingest", !.kind = kind, !.on = on, !.of = of, !.left = left,
                          !.files = ids, !.hashes = hashes, !.reuse = reuse,
                          !.book = b, !.source = source]
  BY <1>3
<1> HIDE DEF f, ids, of, left, hashes, book, b, source
<1>10. /\ job' \in Job /\ job'.step = "ingest" /\ job'.kind = kind /\ job'.on = on
       /\ job'.of = of /\ job'.left = left /\ job'.files = ids /\ job'.hashes = hashes
       /\ job'.reuse = reuse /\ job'.book = b /\ job'.source = source
  <2>1. "ingest" \in Step /\ kind \in Kinds /\ left \in SUBSET Parts
    BY <1>4, <1>9 DEF Step
  <2> QED
    BY <1>4, <1>7, <1>8, <1>9, <1>c, <1>j, <2>1, IdleIs DEF Job
<1>11. /\ told' \in Versions /\ ToldInv' /\ ToldKept
       /\ \A p \in Parts : (p \in on \/ told[p] # 0) => told'[p] # 0
  BY <1>0, <1>1, <1>4, HeardIs
<1>12. Types'
  BY <1>0, <1>1, <1>10, <1>11 DEF Types
<1>13. SavedInv' /\ FilingInv'
  BY <1>0, <1>1, <1>11, RecordKept, FilesSame DEF Types
<1>14. source # Empty => source = now /\ \A p \in Parts : told'[p] # 0
  <2> SUFFICES ASSUME source # Empty PROVE source = now /\ \A p \in Parts : told'[p] # 0
    OBVIOUS
  <2>1. linked /\ source = filing.source
    BY <1>1, <1>c
  <2>2. \A p \in Parts : filing.source[p] = now[p] /\ told[p] # 0
    BY <1>0, <1>5, <2>1 DEF AskedRight, FilingInv
  <2> QED
    BY <1>4, <1>11, <1>c, <2>1, <2>2 DEF Versions
<1>15. JobInv'
  <2>1. \A p \in on : told'[p] # 0 /\ of[p] = Only(p, now[p])
    BY <1>4, <1>8, <1>11
  <2>2. \A p \in Parts :
          /\ hashes[p] \in {Empty, of[p]}
          /\ p \notin on => ids[p] = 0 /\ hashes[p] = Empty
          /\ p \in on \ left => ids[p] \in DOMAIN files /\ files[ids[p]].body = of[p]
    BY <1>6, <1>8, <1>9, <1>l DEF IsBody
  <2> QED
    BY <1>1, <1>4, <1>9, <1>10, <1>14, <1>c, <2>1, <2>2 DEF JobInv, IsBody
<1>16. IngestInv'
  BY <1>1, <1>5, <1>7, <1>8, <1>10, <1>c DEF IngestInv
<1>17. RecordInv'
  BY <1>10 DEF RecordInv
<1>18. TextIsCurrent' /\ SplitReadsThisPdf'
  BY <1>0, <1>1 DEF TextIsCurrent, SplitReadsThisPdf, NoSplit
<1> QED
  BY <1>11, <1>12, <1>13, <1>15, <1>16, <1>17, <1>18 DEF IngestionInv

\* What a job has of a document after its parses: its text, or none where the
\* parse failed or the job does not read it.
LEMMA TextIs ==
  ASSUME Types, JobInv, IngestInv, job.step = "ingest", job.left = {}, NEW failed \in SUBSET Parsed
  PROVE  /\ TextOf(failed) \in AllTexts
         /\ \A p \in Parts \ job.on : TextOf(failed)[p] = Empty
         /\ \A p \in job.on :
              \/ TextOf(failed)[p] = job.of[p]
              \/ TextOf(failed)[p] = Empty /\ (p \in failed \/ job.kind = "extract_only")
<1>1. /\ job.on \subseteq Parts /\ job.of \in AllTexts /\ job.reuse \in AllTexts
      /\ \A p \in job.on : files[job.files[p]].body = job.of[p]
      /\ \A p \in Parts : job.reuse[p] # Empty => p \in job.on /\ job.reuse[p] = job.of[p]
  BY DEF Types, Job, JobInv, IngestInv, IsBody
<1>2. \A p \in Parts :
        TextOf(failed)[p] = IF p \in Parsed
                            THEN IF p \in failed THEN Empty ELSE files[job.files[p]].body
                            ELSE job.reuse[p]
  BY DEF TextOf
<1>3. /\ Parsed \subseteq job.on
      /\ \A p \in job.on \ Parsed : job.reuse[p] # Empty \/ job.kind = "extract_only"
  BY DEF Parsed
<1>4. \A p \in Parts \ job.on : TextOf(failed)[p] = Empty
  BY <1>1, <1>2, <1>3
<1>5. \A p \in job.on : \/ TextOf(failed)[p] = job.of[p]
                        \/ TextOf(failed)[p] = Empty /\ (p \in failed \/ job.kind = "extract_only")
  BY <1>1, <1>2, <1>3
<1>6. \A p \in Parts : TextOf(failed)[p] \in Versions
  BY <1>1, <1>4, <1>5, Contents DEF AllTexts
<1>7. TextOf(failed) \in AllTexts
  BY <1>6 DEF TextOf, AllTexts
<1> QED
  BY <1>4, <1>5, <1>7

\* The book that is saved is all of the petition the filing was made from.
LEMMA BookIs ==
  ASSUME Types, JobInv, IngestInv, job.step = "ingest", job.left = {}, NEW failed \in SUBSET Parsed,
         job.kind = "extract_front" => failed = {},
         NEW book \in IF job.kind = "extract_front"
                      THEN {[of |-> Source, text |-> TextOf(failed)[Main]]}
                      ELSE Books(TextOf(failed))
  PROVE  book = Whole(Source) /\ Source \in Versions
<1>1. CASE job.kind = "extract_front"
  <2>1. job.on = {Main} /\ job.of[Main] = now /\ Source = now /\ now \in Versions
    BY <1>1 DEF JobInv, Source, Types
  <2>2. TextOf(failed)[Main] = job.of[Main]
    BY <1>1, <2>1, TextIs
  <2> QED
    BY <1>1, <2>1, <2>2 DEF Whole
<1>2. CASE job.kind # "extract_front"
  <2>1. Source = job.source /\ job.source \in Versions
    BY <1>2 DEF Source, Types, Job
  <2>2. job.book = Whole(job.source)
    BY Contents DEF IngestInv
  <2>3. job.book = NoBook => job.source = Empty
    BY <2>2, Contents DEF Whole
  <2> QED
    BY <1>2, <2>1, <2>2, <2>3, Contents DEF Books
<1> QED
  BY <1>1, <1>2

LEMMA ParseStep ==
  ASSUME Habits \subseteq Careful, IngestionInv, NEW failed \in SUBSET Parts, NEW lost \in BOOLEAN,
         Parse(failed, lost)
  PROVE  IngestionInv'
<1>0. /\ Types /\ ToldInv /\ SavedInv /\ FilingInv /\ TextIsCurrent /\ SplitReadsThisPdf
      /\ JobInv /\ IngestInv
  BY DEF IngestionInv
<1> DEFINE text == TextOf(failed)
           key == KeyOf(job.on, job.hashes, job.files)
           source == Source
           newKey == IF lost THEN NoKey ELSE key
<1>1. /\ now' = now /\ told' = told /\ files' = files /\ filing' = filing
      /\ index' = index /\ split' = split
      /\ job.step = "ingest" /\ job.left = {} /\ failed \subseteq Parsed
      /\ job.kind = "extract_front" => failed = {}
      /\ lost => MayLose
      /\ job' = [job EXCEPT !.step = "record", !.text = text, !.failed = failed,
                            !.source = source, !.key = newKey]
  BY DEF Parse
<1>2. PICK book \in IF job.kind = "extract_front" THEN {[of |-> Source, text |-> text[Main]]}
                    ELSE Books(text) :
        saved' = IF lost THEN saved ELSE Put(key, [text |-> text, book |-> book])
  BY DEF Parse
<1>3. /\ text \in AllTexts
      /\ \A p \in Parts \ job.on : text[p] = Empty
      /\ \A p \in job.on : \/ text[p] = job.of[p]
                           \/ text[p] = Empty /\ (p \in failed \/ job.kind = "extract_only")
  BY <1>0, <1>1, TextIs
<1>4. book = Whole(source) /\ source \in Versions /\ book \in Book
  <2>1. book = Whole(source) /\ source \in Versions
    BY <1>0, <1>1, <1>2, BookIs
  <2> QED
    BY <2>1 DEF Whole, Book
<1>5. /\ job \in Job /\ job.on \in SUBSET Parts /\ job.on # {} /\ job.hashes \in AllTexts
      /\ job.files \in [Parts -> Nat]
  BY <1>0, <1>1 DEF Types, Job, JobInv
<1>6. /\ key \in Keys /\ DOMAIN key = job.on /\ key # NoKey
      /\ \A p \in job.on : key[p] = IF job.hashes[p] # Empty THEN <<job.hashes[p], 0>>
                                    ELSE <<Empty, job.files[p]>>
  <2>1. /\ key \in Keys /\ DOMAIN key = job.on
        /\ \A p \in job.on : key[p] = IF job.hashes[p] # Empty THEN <<job.hashes[p], 0>>
                                      ELSE <<Empty, job.files[p]>>
    BY <1>5, KeyIs
  <2> HIDE DEF key
  <2> QED
    BY <1>5, <2>1, NoKeyIs
<1>7. lost => job.kind \in {"extract_only", "upload_separate"} /\ job.source = Empty
  BY <1>1 DEF MayLose, Habits
<1>8. /\ source = IF job.kind = "extract_front" THEN now ELSE job.source
      /\ job.kind = "extract_front" => job.on = {Main} /\ job.hashes[Main] = now
  BY <1>0, <1>1 DEF Source, JobInv, IngestInv
<1> DEFINE artifact == [text |-> text, book |-> book]
<1>9. /\ ~lost => /\ DOMAIN saved' = DOMAIN saved \cup {key}
                  /\ \A k \in DOMAIN saved' : saved'[k] = IF k = key THEN artifact ELSE saved[k]
      /\ lost => saved' = saved
  BY <1>2 DEF Put
<1>10. artifact \in [text : AllTexts, book : Book] /\ artifact.text = text /\ artifact.book = book
  BY <1>3, <1>4
<1> HIDE DEF text, key, source, newKey, artifact
<1>11. /\ job' \in Job /\ job'.step = "record" /\ job'.kind = job.kind /\ job'.on = job.on
       /\ job'.of = job.of /\ job'.left = {} /\ job'.files = job.files /\ job'.hashes = job.hashes
       /\ job'.text = text /\ job'.failed = failed /\ job'.source = source /\ job'.key = newKey
  <2>1. "record" \in Step /\ newKey \in Keys
    BY <1>6, NoKeyIs DEF Step, newKey
  <2> QED
    BY <1>1, <1>3, <1>4, <1>5, <2>1 DEF Job
<1>12. Types' /\ ToldInv'
  BY <1>0, <1>1, <1>9, <1>10, <1>11 DEF Types, ToldInv
<1>13. SavedInv'
  <2>1. ASSUME NEW p \in Parts, text[p] # Empty
        PROVE  p \in DOMAIN key /\ Entry(key[p], text[p])
    <3>1. p \in job.on /\ text[p] = job.of[p]
      BY <1>3, <2>1
    <3>2. IsBody(job.files[p], job.of[p]) /\ job.hashes[p] \in {Empty, job.of[p]}
      BY <1>0, <1>1, <3>1 DEF JobInv
    <3>3. CASE job.hashes[p] # Empty
      <4>1. key[p] = <<job.of[p], 0>> /\ job.of[p] # Empty
        BY <1>6, <3>1, <3>2, <3>3
      <4> QED
        BY <1>6, <3>1, <4>1 DEF Entry
    <3>4. CASE job.hashes[p] = Empty
      <4>1. key[p] = <<Empty, job.files[p]>>
        BY <1>6, <3>1, <3>4
      <4> QED
        BY <1>6, <3>1, <3>2, <4>1 DEF Entry
    <3> QED
      BY <3>3, <3>4
  <2>2. NoKey \notin DOMAIN saved'
    BY <1>0, <1>6, <1>9 DEF SavedInv
  <2>3. \A k \in DOMAIN saved', p \in Parts :
          saved'[k].text[p] # Empty => p \in DOMAIN k /\ Entry(k[p], saved'[k].text[p])
    BY <1>0, <1>9, <1>10, <2>1 DEF SavedInv
  <2> QED
    BY <1>1, <2>2, <2>3 DEF SavedInv, Entry, IsBody
<1>14. filing.key = key => source = filing.source
  <2> SUFFICES ASSUME filing.key = key PROVE source = filing.source
    OBVIOUS
  <2>1. CASE job.kind = "index_parsed"
    BY <1>0, <1>1, <1>8, <2>1 DEF JobInv
  <2>2. CASE job.kind \in {"extract_only", "upload_separate"}
    BY <1>0, <1>1, <1>6, <1>8, <2>2 DEF IngestInv
  <2>3. CASE job.kind = "extract_front"
    <3>1. filing.key = KeyOf(Docs, filing.hashes, filing.files)
      BY <1>0, <1>6 DEF FilingInv
    <3>2. filing.hashes \in AllTexts /\ filing.files \in [Parts -> Nat] /\ Docs \in SUBSET Parts
      BY <1>0 DEF Types, Filing, Docs
    <3>3. now \in Versions /\ (\A p \in Parts : now[p] # 0) /\ Main \in Parts /\ now # Empty
      <4>1. now \in Versions /\ (\A p \in Parts : now[p] # 0) /\ Main \in Parts
        BY <1>0, IngestionAssumption DEF Types, ToldInv, Versions, IngestionAssumption
      <4> QED
        BY <4>1, Contents
    <3>4. filing.hashes[Main] = now
      <4>1. /\ DOMAIN filing.key = Docs
            /\ \A p \in Docs : filing.key[p] = IF filing.hashes[p] # Empty
                                               THEN <<filing.hashes[p], 0>>
                                               ELSE <<Empty, filing.files[p]>>
        BY <3>1, <3>2, KeyIs
      <4>2. Main \in Docs /\ filing.key[Main] = <<now, 0>>
        BY <1>6, <1>8, <2>3, <3>3, <4>1
      <4> QED
        BY <3>3, <4>1, <4>2
    <3>5. \A v \in Nat : now # Only(Main, v)
      BY <3>3, PetitionIsMore
    <3>6. filing.hashes[Main] = filing.source
      BY <1>0, <3>3, <3>4, <3>5 DEF FilingInv
    <3> QED
      BY <1>8, <2>3, <3>4, <3>6
  <2> QED
    BY <1>5, <2>1, <2>2, <2>3 DEF Job, Kinds, Extracting
<1>15. FilingInv'
  <2>1. Artifact(filing)'.book = Whole(filing.source)
    <3>1. CASE ~lost /\ filing.key = key
      <4>1. Artifact(filing)' = artifact
        BY <1>1, <1>9, <3>1 DEF Artifact
      <4> QED
        BY <1>4, <1>10, <1>14, <3>1, <4>1
    <3>2. CASE lost \/ filing.key # key
      <4>1. Artifact(filing)' = Artifact(filing)
        BY <1>1, <1>9, <3>2 DEF Artifact
      <4> QED
        BY <1>0, <4>1 DEF FilingInv
    <3> QED
      BY <3>1, <3>2
  <2> QED
    BY <1>0, <1>1, <2>1 DEF FilingInv, IsBody, Docs
<1>16. JobInv'
  <2>1. job.kind = "extract_front" => \A p \in Parts : told[p] # 0
    BY <1>0, <1>1 DEF JobInv
  <2> QED
    BY <1>0, <1>1, <1>8, <1>11, <2>1 DEF JobInv, IsBody
<1>17. IngestInv'
  BY <1>11 DEF IngestInv
<1>18. RecordInv'
  <2>1. job.kind \in {"extract_only", "upload_separate"} => source = Empty
    BY <1>0, <1>1, <1>8 DEF IngestInv
  <2>2. \/ newKey = NoKey /\ job.kind # "index_parsed" /\ source = Empty
        \/ newKey = key /\ newKey \in DOMAIN saved' /\ saved'[newKey].book = Whole(source)
    BY <1>4, <1>7, <1>8, <1>9, <1>10 DEF newKey
  <2>3. key = KeyOf(job.on', job.hashes', job.files')
    BY <1>11 DEF key
  <2> QED
    BY <1>1, <1>3, <1>8, <1>11, <2>1, <2>2, <2>3 DEF RecordInv
<1>19. TextIsCurrent' /\ SplitReadsThisPdf'
  BY <1>0, <1>1 DEF TextIsCurrent, SplitReadsThisPdf
<1> QED
  BY <1>12, <1>13, <1>15, <1>16, <1>17, <1>18, <1>19 DEF IngestionInv

LEMMA RecordStep ==
  ASSUME IngestionInv, Record
  PROVE  IngestionInv'
<1>0. /\ Types /\ ToldInv /\ SavedInv /\ FilingInv /\ TextIsCurrent /\ SplitReadsThisPdf
      /\ JobInv /\ RecordInv
  BY DEF IngestionInv
<1> DEFINE key == IF job.key = NoKey /\ job.kind = "index_parsed" THEN filing.key ELSE job.key
           source == IF job.kind = "index_parsed" THEN filing.source ELSE job.source
<1>1. /\ now' = now /\ told' = told /\ files' = files /\ saved' = saved /\ split' = split
      /\ job.step = "record" /\ index' = (IF job.kind = "index_parsed" THEN index ELSE NoIndex)
      /\ filing' = [exists |-> TRUE, files |-> job.files, hashes |-> job.hashes,
                    parsed |-> TextSlots, key |-> key, source |-> source]
      /\ job' = [job EXCEPT !.step = "index"]
  BY DEF Record, Recorded
<1>2. /\ job \in Job /\ filing \in Filing /\ now \in Versions /\ files \in Seq(File)
      /\ job.on \subseteq Parts
  BY <1>0 DEF Types, Job
<1>3. /\ source = job.source /\ key = job.key /\ source \in Versions /\ key \in Keys
      /\ \/ key = NoKey /\ source = Empty
         \/ /\ key = KeyOf(job.on, job.hashes, job.files)
            /\ key \in DOMAIN saved /\ saved[key].book = Whole(source)
  <2>1. job.kind = "index_parsed" => job.source = filing.source
    BY <1>0, <1>1 DEF JobInv
  <2>2. \/ job.key = NoKey /\ job.kind # "index_parsed" /\ job.source = Empty
        \/ /\ job.key = KeyOf(job.on, job.hashes, job.files)
           /\ job.key \in DOMAIN saved /\ saved[job.key].book = Whole(job.source)
    BY <1>0, <1>1 DEF RecordInv
  <2>3. NoKey \notin DOMAIN saved
    BY <1>0 DEF SavedInv
  <2>4. source = job.source /\ key = job.key
    BY <2>1, <2>2, <2>3
  <2> QED
    BY <1>2, <2>2, <2>4 DEF Job
<1> HIDE DEF key, source
<1>4. /\ job' \in Job /\ job'.step = "index" /\ job'.kind = job.kind /\ job'.on = job.on
      /\ job'.of = job.of /\ job'.left = job.left /\ job'.files = job.files
      /\ job'.hashes = job.hashes /\ job'.text = job.text /\ job'.failed = job.failed
      /\ job'.source = job.source
  <2>1. "index" \in Step
    BY DEF Step
  <2> QED
    BY <1>1, <1>2, <2>1 DEF Job
<1>5. /\ filing' \in Filing /\ filing'.files = job.files /\ filing'.hashes = job.hashes
      /\ filing'.key = key /\ filing'.source = source
  <2>1. TextSlots \in SUBSET Parts
    BY <1>2 DEF TextSlots
  <2> QED
    BY <1>1, <1>2, <1>3, <2>1 DEF Filing, Job
<1>6. Types' /\ ToldInv' /\ SavedInv'
  BY <1>0, <1>1, <1>4, <1>5 DEF Types, ToldInv, SavedInv, Entry, IsBody
<1>7. /\ \A p \in Parts \ job.on : job.files[p] = 0 /\ job.hashes[p] = Empty
      /\ \A p \in job.on : IsBody(job.files[p], job.of[p]) /\ job.hashes[p] \in {Empty, job.of[p]}
                           /\ told[p] # 0 /\ job.files[p] # 0
      /\ source # Empty => source = now /\ \A p \in Parts : told[p] # 0
  <2>1. 0 \notin DOMAIN files
    BY <1>2
  <2> QED
    BY <1>0, <1>1, <1>2, <1>3, <2>1 DEF JobInv, RecordInv, IsBody
<1>8. \A p \in job.on : IF job.kind = "extract_front" THEN job.of[p] = now /\ p = Main /\ source = now
                        ELSE job.of[p] = Only(p, now[p])
  BY <1>0, <1>1, <1>3 DEF JobInv, RecordInv
<1>9. now # Empty /\ \A p \in Parts : now[p] \in Nat
  <2>1. /\ Main \in Parts /\ Empty[Main] = 0 /\ now[Main] # 0
        /\ \A p \in Parts : now[p] \in Nat
    BY <1>0, <1>2, Contents, IngestionAssumption DEF IngestionAssumption, ToldInv, Versions
  <2> QED
    BY <2>1
<1>10. FilingInv'
  <2>1. ASSUME NEW p \in Parts, job.files[p] # 0
        PROVE  /\ job.files[p] \in DOMAIN files /\ told[p] # 0
               /\ source = Empty => IsBody(job.files[p], Only(p, now[p]))
               /\ job.hashes[p] # Empty => IsBody(job.files[p], job.hashes[p])
    <3>1. p \in job.on
      BY <1>7, <2>1
    <3> QED
      BY <1>7, <1>8, <1>9, <3>1 DEF IsBody
  <2>2. ASSUME NEW p \in Parts, job.hashes[p] # Empty
        PROVE  (\E v \in Nat : job.hashes[p] = Only(p, v)) \/ (p = Main /\ job.hashes[p] = source)
    <3>1. p \in job.on /\ job.hashes[p] = job.of[p]
      BY <1>7, <2>2
    <3> QED
      BY <1>8, <1>9, <3>1
  <2>3. Docs' = job.on
    BY <1>2, <1>5, <1>7 DEF Docs
  <2>4. key \in {NoKey, KeyOf(job.on, job.hashes, job.files)}
    BY <1>3
  <2>5. Artifact(filing)'.book = Whole(source)
    <3>1. CASE key = NoKey /\ source = Empty
      <4>1. Artifact(filing)' = NoArtifact
        BY <1>0, <1>1, <1>5, <3>1 DEF Artifact, SavedInv
      <4> QED
        BY <3>1, <4>1, Contents DEF NoArtifact
    <3>2. CASE key \in DOMAIN saved /\ saved[key].book = Whole(source)
      BY <1>1, <1>5, <3>2 DEF Artifact
    <3> QED
      BY <1>3, <3>1, <3>2
  <2>6. source # Empty => \A p \in Parts : told[p] # 0 /\ source[p] = now[p]
    BY <1>7
  <2>7. /\ \A p \in Parts : filing'.files[p] # 0 =>
             /\ filing'.files[p] \in DOMAIN files' /\ told'[p] # 0
             /\ filing'.source = Empty /\ told'[p] = now'[p] =>
                  IsBody(filing.files[p], Only(p, now[p]))'
             /\ filing'.hashes[p] # Empty => IsBody(filing.files[p], filing.hashes[p])'
    BY <1>1, <1>5, <2>1 DEF IsBody
  <2>8. \A p \in Parts : filing'.hashes[p] # Empty =>
          \/ \E v \in Nat : filing'.hashes[p] = Only(p, v)
          \/ p = Main /\ filing'.hashes[p] = filing'.source
    BY <1>5, <2>2
  <2>9. filing'.key \in {NoKey, KeyOf(Docs', filing'.hashes, filing'.files)}
    BY <1>5, <2>3, <2>4
  <2> QED
    BY <1>1, <1>5, <2>5, <2>6, <2>7, <2>8, <2>9 DEF FilingInv
<1>11. JobInv'
  BY <1>0, <1>1, <1>3, <1>4, <1>5 DEF JobInv, IsBody
<1>12. IngestInv'
  BY <1>4 DEF IngestInv
<1>13. RecordInv'
  BY <1>0, <1>1, <1>3, <1>4, <1>5 DEF RecordInv
<1>14. TextIsCurrent' /\ SplitReadsThisPdf'
  BY <1>0, <1>1 DEF TextIsCurrent, SplitReadsThisPdf, NoIndex
<1> QED
  BY <1>6, <1>10, <1>11, <1>12, <1>13, <1>14 DEF IngestionInv

(***************************************************************************)
(* The theorems                                                            *)
(***************************************************************************)
LEMMA IngestionStarts == ASSUME Habits \subseteq Careful, Init PROVE IngestionInv
<1>1. /\ now = [p \in Parts |-> 1] /\ told = Empty /\ saved = << >> /\ filing = NoFiling
      /\ index = NoIndex /\ split = NoSplit /\ job = Idle
      /\ files \in {<<>>, <<[body |-> Only(Main, 1), name |-> NameOf(Main, Only(Main, 1))]>>}
  BY DEF Init
<1>2. now \in Versions /\ told \in Versions /\ ToldInv
  BY <1>1, Contents DEF Versions, ToldInv
<1>3. files \in Seq(File)
  <2> DEFINE c == Only(Main, 1)
  <2>1. c \in Versions /\ Main \in Parts
    BY Contents, IngestionAssumption DEF IngestionAssumption
  <2> HIDE DEF c
  <2>2. [body |-> c, name |-> <<Main, c>>] \in File
    BY <2>1 DEF File, NamesOf
  <2>3. NameOf(Main, c) = <<Main, c>>
    BY DEF NameOf, Habits
  <2>4. files \in {<<>>, <<[body |-> c, name |-> <<Main, c>>]>>}
    BY <1>1, <2>3 DEF c
  <2> DEFINE f == [body |-> c, name |-> <<Main, c>>]
  <2> HIDE DEF f
  <2>5. f \in File /\ files \in {<<>>, <<f>>}
    BY <2>2, <2>4 DEF f
  <2>6. CASE files = <<>>
    <3>1. <<>> \in Seq(File)
      BY EmptySeq
    <3> QED
      BY <2>6, <3>1
  <2>7. CASE files = <<f>>
    <3>1. <<f>> \in Seq(File)
      BY <2>5
    <3> QED
      BY <2>7, <3>1
  <2> QED
    BY <2>5, <2>6, <2>7
<1>4. NoFiling \in Filing
  <2>1. NoFiles \in [Parts -> Nat]
    BY DEF NoFiles
  <2> QED
    BY <2>1, Contents, NoKeyIs DEF NoFiling, Filing
<1>5. DOMAIN saved = {}
  BY <1>1
<1>6. Types /\ SavedInv
  BY <1>1, <1>2, <1>3, <1>4, <1>5, IdleIs DEF Types, SavedInv
<1>7. FilingInv
  <2>1. /\ NoFiling.key = NoKey /\ NoFiling.source = Empty /\ NoFiling.files = NoFiles
        /\ NoFiling.hashes = NoText
    BY DEF NoFiling
  <2>2. Artifact(filing) = NoArtifact
    BY <1>1, <1>5 DEF Artifact
  <2> QED
    BY <1>1, <2>1, <2>2, Contents DEF FilingInv, NoFiles, NoArtifact
<1>8. JobInv /\ IngestInv /\ RecordInv
  BY <1>1, IdleIs DEF JobInv, IngestInv, RecordInv
<1> QED
  BY <1>1, <1>2, <1>6, <1>7, <1>8 DEF IngestionInv, TextIsCurrent, SplitReadsThisPdf, NoIndex, NoSplit

LEMMA IngestionKept ==
  ASSUME Habits \subseteq Careful, IngestionInv, [Next]_vars
  PROVE  IngestionInv'
<1>1. CASE \E p \in Parts : Edit(p) \/ Ingest(p)
  BY <1>1, EditStep, IngestStep
<1>2. CASE \E kind \in Kinds \ {"extract_front"}, on \in Lists, form \in Forms,
              edited, linked \in BOOLEAN : Submit(kind, on, form, edited, linked)
  BY <1>2, SubmitStep
<1>3. CASE SubmitFront
  BY <1>3, FrontStep
<1>4. CASE \E failed \in SUBSET Parts, lost \in BOOLEAN : Parse(failed, lost)
  BY <1>4, ParseStep
<1>5. CASE Record
  BY <1>5, RecordStep
<1>6. CASE Finish
  BY <1>6, FinishStep
<1>7. CASE Fail
  BY <1>7, FailStep
<1>8. CASE Split
  BY <1>8, SplitStep
<1>9. CASE UNCHANGED vars
  BY <1>9 DEF vars, IngestionInv, Types, ToldInv, SavedInv, FilingInv, JobInv, IngestInv, RecordInv,
       TextIsCurrent, SplitReadsThisPdf, IsBody, Entry, Docs, Artifact
<1> QED
  BY <1>1, <1>2, <1>3, <1>4, <1>5, <1>6, <1>7, <1>8, <1>9 DEF Next

LEMMA IngestionHolds == ASSUME Habits \subseteq Careful PROVE Spec => []IngestionInv
BY IngestionStarts, IngestionKept, PTL DEF Spec

\* "A matching checksum proves that the prior file id and parse artifact are
\* still current" (process_file.py:3547): with every habit kept, the indexed
\* text of a document is that of the file its request sent, or it was not
\* parsed; whatever is reused, lost, retried or killed.
THEOREM IndexedTextIsCurrent == ASSUME Habits \subseteq Careful PROVE Spec => []TextIsCurrent
<1>1. IngestionInv => TextIsCurrent
  BY DEF IngestionInv
<1> QED
  BY <1>1, IngestionHolds, PTL

\* The record of a filing never names a file by the hash of another one
\* (process_split_files.py:1766, process_file.py:3549).
THEOREM RecordNamesItsFiles == ASSUME Habits \subseteq Careful PROVE Spec => []HashNamesFile
<1>1. IngestionInv => HashNamesFile
  BY DEF IngestionInv, FilingInv, HashNamesFile, IsBody
<1> QED
  BY <1>1, IngestionHolds, PTL

\* "Read the extract-front parse when it is the same compiled PDF"
\* (process_file.py:2761): the text along which a petition is cut is its own.
THEOREM PetitionIsCutByItsText == ASSUME Habits \subseteq Careful PROVE Spec => []SplitReadsThisPdf
<1>1. IngestionInv => SplitReadsThisPdf
  BY DEF IngestionInv
<1> QED
  BY <1>1, IngestionHolds, PTL
==============================================================================
