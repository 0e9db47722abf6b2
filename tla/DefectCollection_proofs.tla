------------------------ MODULE DefectCollection_proofs -----------------------
(***************************************************************************)
(* The safety properties of DefectCollection, for any number of checks,    *)
(* any concurrency and any number of cancellations and failed saves.       *)
(*                                                                         *)
(* The invariant follows a finding from its task to the stored report: a   *)
(* collected check has returned, a task is cancelled only after an abort   *)
(* or at the end, the snapshot that waits to be saved lies between the     *)
(* stored report and what is collected, and abort is set whenever the loop *)
(* has stopped early.                                                      *)
(***************************************************************************)
EXTENDS DefectCollection, FiniteSetTheorems, SequenceTheorems, TLAPS

\* What has been collected had returned; what is queued for collection has
\* ended.
CollectedReturned ==
  /\ findings \subseteq Returned
  /\ \A n \in 1..Len(completed) : task[completed[n]] \in {"good", "bad", "cancelled"}

\* Tasks are cancelled, and the loop stops, only because of an abort, and that
\* only with stop_on_error.
CancelledAborted ==
  /\ abort => stopOnError
  /\ In("cancelled") # {} /\ pc # "cancelled" => abort

\* Between the loop's end and the end of the run every task has ended.
AllEnded ==
  pc \in {"save", "require", "done", "failed"} =>
    /\ In("waiting") \cup In("running") = {}
    /\ findings = Returned

\* The one save in flight brings the report forward, and not beyond what is
\* collected.
SavesForward ==
  /\ saved \subseteq findings
  /\ Len(writes) <= 1
  /\ writes # <<>> => saved \subseteq Head(writes) /\ Head(writes) \subseteq findings
  /\ pc \in {"require", "done", "failed"} =>
       writes = <<>> /\ (faults = 0 => saved = findings)

IInv == TypeOK /\ CollectedReturned /\ CancelledAborted /\ AllEnded /\ SavesForward

------------------------------------------------------------------------------
USE CollectionAssumption

\* The sets of checks in one state are finite, and a step that starts no check
\* does not raise the number of running ones.
LEMMA NoneStarted ==
  ASSUME TypeOK, In("running")' \subseteq In("running")
  PROVE  Cardinality(In("running"))' <= Concurrency
<1>1. IsFiniteSet(In("running"))
  BY FS_Subset DEF In
<1>2. Cardinality(In("running")') <= Cardinality(In("running"))
  BY <1>1, FS_Subset
<1>3. Cardinality(In("running")') \in Nat /\ Cardinality(In("running")) \in Nat
  BY <1>1, FS_Subset, FS_CardinalityType
<1> QED
  BY <1>2, <1>3 DEF TypeOK

\* A set below a limit stays within it with one more element.
LEMMA OneMore ==
  ASSUME NEW S, NEW x, NEW limit \in Nat, IsFiniteSet(S), Cardinality(S) < limit
  PROVE  Cardinality(S \cup {x}) <= limit
<1>1. Cardinality(S) \in Nat
  BY FS_CardinalityType
<1>2. Cardinality(S \cup {x}) = IF x \in S THEN Cardinality(S)
                                          ELSE Cardinality(S) + 1
  BY FS_AddElement
<1> QED
  BY <1>1, <1>2

\* A check that gets the semaphore is one more of them, and the semaphore had
\* a place (guarded).
LEMMA OneStarted ==
  ASSUME TypeOK, Free, NEW c \in Checks, task' = [task EXCEPT ![c] = "running"]
  PROVE  Cardinality(In("running"))' <= Concurrency
<1>1. IsFiniteSet(In("running"))
  BY FS_Subset DEF In
<1>2. In("running")' = In("running") \cup {c}
  BY DEF In, TypeOK
<1>3. Cardinality(In("running") \cup {c}) <= Concurrency
  BY <1>1, OneMore DEF Free
<1> QED
  BY <1>2, <1>3

\* Publishing leaves a sequence of snapshots.
LEMMA PublishType ==
  ASSUME TypeOK, NEW c \in Checks, Publish(c)
  PROVE  writes' \in Seq(SUBSET Checks)
BY DEF Publish, Snapshot, TypeOK

\* A task that ends is handed to as_completed.
LEMMA CompleteType ==
  ASSUME TypeOK, NEW c \in Checks, NEW state \in TaskState, Complete(c, state)
  PROVE  task' \in [Checks -> TaskState] /\ completed' \in Seq(Checks)
BY AppendProperties DEF Complete, TypeOK

\* Every step keeps the types, and the cap on running checks.
LEMMA TypeStep == TypeOK /\ [Next]_vars => TypeOK'
<1> SUFFICES ASSUME TypeOK, [Next]_vars PROVE TypeOK'
  OBVIOUS
<1> DEFINE Capped == In("running")' \subseteq In("running")
<1>0. ASSUME Capped PROVE Cardinality(In("running"))' <= Concurrency
  BY <1>0, NoneStarted
<1>1. ASSUME NEW c \in Checks, Begin(c) PROVE TypeOK'
  <2>1. CASE MayRun
    <3>1. Cardinality(In("running"))' <= Concurrency
      BY <1>1, <2>1, OneStarted DEF Begin
    <3> QED
      BY <1>1, <2>1, <3>1 DEF Begin, TypeOK, TaskState
  <2>2. CASE ~MayRun
    <3>1. Capped
      BY <1>1, <2>2 DEF Begin, Complete, In, TypeOK
    <3>2. task' \in [Checks -> TaskState] /\ completed' \in Seq(Checks)
      BY <1>1, <2>2, CompleteType DEF Begin, TaskState
    <3> QED
      BY <1>0, <1>1, <2>2, <3>1, <3>2 DEF Begin, TypeOK
  <2> QED
    BY <2>1, <2>2
<1>2. ASSUME NEW c \in Checks, Return(c) PROVE TypeOK'
  <2>1. Capped
    BY <1>2 DEF Return, Complete, In, TypeOK
  <2>2. /\ task' \in [Checks -> TaskState] /\ completed' \in Seq(Checks)
        /\ abort' \in BOOLEAN
    BY <1>2, CompleteType DEF Return, TypeOK, TaskState
  <2> QED
    BY <1>0, <1>2, <2>1, <2>2 DEF Return, TypeOK
<1>3. ASSUME Collect PROVE TypeOK'
  <2> DEFINE c == Head(completed)
  <2>1. c \in Checks /\ Tail(completed) \in Seq(Checks)
    BY <1>3 DEF Collect, TypeOK
  <2>2. Capped
    BY <1>3 DEF Collect, CancelRest, In, TypeOK
  <2>3. writes' \in Seq(SUBSET Checks)
    BY <1>3, <2>1, PublishType DEF Collect, TypeOK
  <2>4. rounds' \in 0..Cardinality(Checks)
    BY <1>3, FS_CardinalityType DEF Collect, TypeOK
  <2>5. completed' \in Seq(Checks) /\ findings' \subseteq Checks
    BY <1>3, <2>1, EmptySeq DEF Collect, TypeOK
  <2>6. /\ task' \in [Checks -> TaskState] /\ pc' \in Label
        /\ stopped' \in BOOLEAN /\ abort' \in BOOLEAN
    BY <1>3 DEF Collect, CancelRest, TypeOK, TaskState, Label
  <2> QED
    BY <1>0, <1>3, <2>2, <2>3, <2>4, <2>5, <2>6 DEF Collect, TypeOK
<1>4. ASSUME LoopEnds \/ Gather \/ SavePartial \/ SaveFinal \/ Require
      PROVE  TypeOK'
  <2>1. Capped
    BY <1>4 DEF LoopEnds, Gather, SavePartial, SaveFinal, Require, taskVars, In
  <2>2. CASE Gather
    BY <1>0, <2>1, <2>2 DEF Gather, TypeOK, taskVars, Leftovers, Returned, In,
       Label
  <2>3. CASE SavePartial
    BY <1>0, <2>1, <2>3 DEF SavePartial, Store, TypeOK, taskVars
  <2> QED
    BY <1>0, <1>4, <2>1, <2>2, <2>3
       DEF LoopEnds, SaveFinal, Require, Store, TypeOK, taskVars, Label
<1>5. ASSUME CancelSwallowed PROVE TypeOK'
  <2>1. Capped
    BY <1>5 DEF CancelSwallowed, taskVars, In
  <2>2. rounds' \in 0..Cardinality(Checks)
    BY <1>5, FS_CardinalityType DEF CancelSwallowed, TypeOK
  <2> QED
    BY <1>0, <1>5, <2>1, <2>2 DEF CancelSwallowed, Cancelling, TypeOK, taskVars
<1>6. ASSUME CancelLate PROVE TypeOK'
  <2>1. Capped
    BY <1>6 DEF CancelLate, CancelRest, In, TypeOK
  <2>2. task' \in [Checks -> TaskState]
    BY <1>6 DEF CancelLate, CancelRest, TypeOK, TaskState
  <2>4. writes' \in Seq(SUBSET Checks)
    BY <1>6, EmptySeq DEF CancelLate, TypeOK
  <2>3. saved' \subseteq Checks
    BY <1>6 DEF CancelLate, TypeOK
  <2> QED
    BY <1>0, <1>6, <2>1, <2>2, <2>3, <2>4 DEF CancelLate, Cancelling, TypeOK, Label
<1>7. ASSUME UNCHANGED vars PROVE TypeOK'
  BY <1>7 DEF vars, taskVars, TypeOK, In
<1> QED
  BY <1>1, <1>2, <1>3, <1>4, <1>5, <1>6, <1>7 DEF Next, Work, Cancel

\* What as_completed hands out next has ended, and so has what is behind it.
LEMMA NextCompleted ==
  ASSUME TypeOK, CollectedReturned, completed # <<>>
  PROVE  /\ Head(completed) \in Checks
         /\ task[Head(completed)] \in {"good", "bad", "cancelled"}
         /\ \A n \in 1..Len(Tail(completed)) :
              task[Tail(completed)[n]] \in {"good", "bad", "cancelled"}
<1>1. completed \in Seq(Checks)
  BY DEF TypeOK
<1>2. /\ Head(completed) \in Checks
      /\ Len(completed) \in Nat \ {0}
      /\ Len(Tail(completed)) = Len(completed) - 1
      /\ \A n \in 1..Len(Tail(completed)) : Tail(completed)[n] = completed[n + 1]
  BY <1>1, HeadTailProperties, EmptySeq
<1>3. Head(completed) = completed[1]
  BY <1>1
<1> QED
  BY <1>2, <1>3 DEF CollectedReturned

\* Publishing keeps the saves in order: the snapshot is what is collected.
LEMMA PublishForward ==
  ASSUME TypeOK, SavesForward, NEW c \in Checks, Publish(c)
  PROVE  /\ Len(writes') <= 1
         /\ writes' # <<>> => /\ saved \subseteq Head(writes')
                             /\ Head(writes') \subseteq findings \cup {c}
<1>1. CASE writes' = writes
  BY <1>1 DEF SavesForward
<1>2. CASE writes = <<>> /\ writes' = <<findings \cup {c}>>
  BY <1>2 DEF SavesForward
<1>3. Append(<<>>, findings \cup {c}) = <<findings \cup {c}>>
  OBVIOUS
<1>4. \/ writes' = writes
      \/ writes = <<>> /\ writes' = Append(<<>>, findings \cup {c})
  BY DEF Publish, Idle, Snapshot
<1> QED
  BY <1>1, <1>2, <1>3, <1>4

\* The steps of the tasks: a check that returns or is refused is the only
\* change, and nothing runs once the loop is over.
LEMMA TaskStep ==
  ASSUME IInv, NEW c \in Checks, Begin(c) \/ Return(c)
  PROVE  CollectedReturned' /\ CancelledAborted' /\ AllEnded' /\ SavesForward'
<1> USE DEF IInv
<1>1. task[c] \in {"waiting", "running"}
      /\ \A d \in Checks \ {c} : task'[d] = task[d]
  BY DEF Begin, Return, Complete, TypeOK
<1>2. \/ task'[c] = "running" /\ completed' = completed
      \/ /\ task'[c] \in {"good", "bad", "cancelled"}
         /\ completed' = Append(completed, c)
  BY DEF Begin, Return, Complete, TypeOK
<1>3. UNCHANGED <<stopOnError, pc, findings, writes, saved, faults>>
  BY DEF Begin, Return
<1>4. CollectedReturned'
  <2>1. c \notin findings
    BY <1>1 DEF CollectedReturned, Returned, In
  <2>2. findings' \subseteq Returned'
    BY <1>1, <1>3, <2>1 DEF CollectedReturned, Returned, In, TypeOK
  <2>3. \A n \in 1..Len(completed) : completed[n] \in Checks \ {c}
    BY <1>1 DEF CollectedReturned, TypeOK
  <2>4. completed \in Seq(Checks)
    BY DEF TypeOK
  <2>5. CASE completed' = completed
    BY <1>1, <2>2, <2>3, <2>5 DEF CollectedReturned
  <2>6. CASE /\ task'[c] \in {"good", "bad", "cancelled"}
             /\ completed' = Append(completed, c)
    <3>1. /\ Len(completed') = Len(completed) + 1
          /\ completed'[Len(completed) + 1] = c
          /\ \A n \in 1..Len(completed) : completed'[n] = completed[n]
          /\ Len(completed) \in Nat
      BY <2>4, <2>6, AppendProperties, LenProperties
    <3>2. \A n \in 1..Len(completed') :
            task'[completed'[n]] \in {"good", "bad", "cancelled"}
      BY <1>1, <2>3, <2>6, <3>1 DEF CollectedReturned
    <3> QED
      BY <2>2, <3>2 DEF CollectedReturned
  <2> QED
    BY <1>2, <2>5, <2>6
<1>5. CancelledAborted'
  <2>1. (abort' => stopOnError') /\ (abort => abort')
    <3>1. CASE Begin(c)
      BY <3>1 DEF Begin, CancelledAborted
    <3>2. CASE Return(c)
      BY <3>2 DEF Return, CancelledAborted, TypeOK
    <3> QED
      BY <3>1, <3>2
  <2>2. task'[c] = "cancelled" => abort
    BY DEF Begin, Return, Complete, MayRun, TypeOK
  <2> QED
    BY <1>1, <1>3, <2>1, <2>2 DEF CancelledAborted, In
<1>6. AllEnded'
  BY <1>1, <1>3 DEF AllEnded, In
<1>7. SavesForward'
  BY <1>3 DEF SavesForward
<1> QED
  BY <1>4, <1>5, <1>6, <1>7

\* The steps of the loop.  What is collected had returned; an early end sets
\* the abort.
LEMMA CollectStep ==
  ASSUME IInv, Collect
  PROVE  CollectedReturned' /\ CancelledAborted' /\ AllEnded' /\ SavesForward'
<1> DEFINE c == Head(completed)
<1> USE DEF IInv
<1>1. /\ c \in Checks /\ task[c] \in {"good", "bad", "cancelled"}
      /\ \A n \in 1..Len(Tail(completed)) :
           task[Tail(completed)[n]] \in {"good", "bad", "cancelled"}
  BY NextCompleted DEF Collect
<1>2. \/ /\ task[c] = "cancelled"
         /\ findings' = findings /\ writes' = writes
      \/ /\ task[c] \in {"good", "bad"}
         /\ findings' = findings \cup {c} /\ Publish(c)
  BY <1>1 DEF Collect
<1>3. Returned' = Returned
  BY DEF Collect, CancelRest, Returned, In, TypeOK
<1>4. CollectedReturned'
  <2>1. findings' \subseteq Returned'
    BY <1>1, <1>2, <1>3 DEF CollectedReturned, Returned, In
  <2>2. CASE completed' = <<>>
    BY <2>1, <2>2 DEF CollectedReturned
  <2>3. CASE completed' = Tail(completed) /\ task' = task
    BY <1>1, <2>1, <2>3 DEF CollectedReturned
  <2> QED
    BY <2>2, <2>3 DEF Collect
<1>5. CancelledAborted'
  BY DEF Collect, CancelledAborted, In, TypeOK
<1>6. AllEnded'
  BY DEF Collect, AllEnded
<1>7. SavesForward'
  <2>1. pc' \notin {"require", "done", "failed"} /\ saved' = saved
    BY DEF Collect
  <2>2. /\ Len(writes') <= 1
        /\ writes' # <<>> => saved \subseteq Head(writes')
                            /\ Head(writes') \subseteq findings'
    BY <1>1, <1>2, PublishForward DEF SavesForward
  <2> QED
    BY <1>2, <2>1, <2>2 DEF SavesForward
<1> QED
  BY <1>4, <1>5, <1>6, <1>7

\* The finally block collects what the loop has left.
LEMMA GatherStep ==
  ASSUME IInv, Gather
  PROVE  CollectedReturned' /\ CancelledAborted' /\ AllEnded' /\ SavesForward'
<1> USE DEF IInv
<1>1. task' = task /\ completed' = completed /\ pc' = "save" /\ saved' = saved
  BY DEF Gather, taskVars
<1>2. findings' = Returned /\ Returned' = Returned
  BY <1>1 DEF Gather, Leftovers, CollectedReturned, Returned, In
<1>3. CollectedReturned'
  BY <1>1, <1>2 DEF CollectedReturned
<1>4. CancelledAborted'
  BY <1>1 DEF Gather, taskVars, CancelledAborted, In
<1>5. AllEnded'
  BY <1>1, <1>2 DEF Gather, AllEnded, In
<1>6. SavesForward'
  <2>1. findings \subseteq findings'
    BY <1>2 DEF CollectedReturned
  <2>2. CASE writes' = writes
    BY <1>1, <2>1, <2>2 DEF SavesForward
  <2>3. CASE writes' = <<findings'>>
    BY <1>1, <2>1, <2>3 DEF SavesForward
  <2>4. Append(<<>>, findings') = <<findings'>>
    OBVIOUS
  <2>5. \/ writes' = writes
        \/ writes = <<>> /\ writes' = Append(<<>>, findings')
    BY DEF Gather, Idle
  <2> QED
    BY <2>2, <2>3, <2>4, <2>5
<1> QED
  BY <1>3, <1>4, <1>5, <1>6

\* The other steps.
LEMMA InvStep == IInv /\ [Next]_vars => IInv'
<1> SUFFICES ASSUME IInv, [Next]_vars PROVE IInv'
  OBVIOUS
<1> DEFINE Rest == CollectedReturned /\ CancelledAborted /\ AllEnded /\ SavesForward
<1> USE DEF IInv
<1>0. TypeOK'
  BY TypeStep
<1>1. ASSUME NEW c \in Checks, Begin(c) \/ Return(c) PROVE Rest'
  BY <1>1, TaskStep
<1>2. CASE Collect
  BY <1>0, <1>2, CollectStep
<1>3. CASE Gather
  BY <1>0, <1>3, GatherStep
<1>4. ASSUME LoopEnds \/ Require \/ CancelSwallowed PROVE Rest'
  BY <1>4 DEF LoopEnds, Require, CancelSwallowed, Cancelling, taskVars,
     CollectedReturned, CancelledAborted, AllEnded, SavesForward, Returned, In
<1>5. ASSUME SavePartial PROVE Rest'
  <2>1. writes # <<>> /\ saved' \in {saved, Head(writes)}
    BY <1>5 DEF SavePartial, Store
  <2>2. writes' = <<>>
    BY <1>5, <2>1, HeadTailProperties, EmptySeq
       DEF SavePartial, SavesForward, TypeOK
  <2>3. SavesForward'
    BY <1>5, <2>1, <2>2 DEF SavePartial, SavesForward
  <2> QED
    BY <1>5, <2>3 DEF SavePartial, taskVars, CollectedReturned,
       CancelledAborted, AllEnded, Returned, In
<1>6. ASSUME SaveFinal PROVE Rest'
  BY <1>6 DEF SaveFinal, Store, Quiet, TypeOK, taskVars, CollectedReturned,
     CancelledAborted, AllEnded, SavesForward, Returned, In
<1>7. ASSUME CancelLate PROVE Rest'
  <2>1. CollectedReturned' /\ CancelledAborted' /\ AllEnded'
    BY <1>7 DEF CancelLate, CancelRest, TypeOK, CollectedReturned,
       CancelledAborted, AllEnded, Returned, In
  <2>2. SavesForward'
    BY <1>7 DEF CancelLate, SavesForward
  <2> QED
    BY <2>1, <2>2
<1>8. ASSUME UNCHANGED vars PROVE Rest'
  BY <1>8 DEF vars, taskVars, CollectedReturned, CancelledAborted, AllEnded,
     SavesForward, Returned, In
<1> QED
  BY <1>0, <1>1, <1>2, <1>3, <1>4, <1>5, <1>6, <1>7, <1>8 DEF Next, Work, Cancel

LEMMA InvInit == Init => IInv
<1> SUFFICES ASSUME Init PROVE IInv
  OBVIOUS
<1>1. In("running") = {} /\ In("cancelled") = {} /\ Returned = {}
  BY DEF Init, In, Returned
<1>2. Cardinality(In("running")) <= Concurrency
  BY <1>1, FS_EmptySet
<1>3. Cardinality(Checks) \in Nat
  BY FS_CardinalityType
<1>4. TypeOK
  <2>1. completed \in Seq(Checks) /\ writes \in Seq(SUBSET Checks)
    BY EmptySeq DEF Init
  <2>2. rounds \in 0..Cardinality(Checks)
    BY <1>3 DEF Init
  <2>3. cancels \in 0..MaxCancels /\ faults \in 0..MaxFaults
    BY DEF Init
  <2> QED
    BY <1>2, <2>1, <2>2, <2>3 DEF Init, TypeOK, TaskState, Label
<1> QED
  BY <1>1, <1>4 DEF Init, IInv, CollectedReturned, CancelledAborted, AllEnded,
     SavesForward

------------------------------------------------------------------------------
\* The invariant holds in every reachable state.
THEOREM InvariantHolds == Spec => []IInv
BY InvInit, InvStep, PTL DEF Spec

\* TypeOK holds for any number of checks; with it, the semaphore's limit on
\* the checks that run at a time (collect_defect_findings).
THEOREM TypeCorrect == Spec => []TypeOK
<1>1. IInv => TypeOK
  BY DEF IInv
<1> QED
  BY <1>1, InvariantHolds, PTL

\* No finding is lost: at the end of a run all that returned are collected,
\* and without stop_on_error that is every planned check, however often the
\* loop has swallowed a cancellation.
THEOREM NothingLost == Spec => []FindingsComplete
<1>1. IInv => FindingsComplete
  <2> SUFFICES ASSUME IInv, pc \in {"save", "require", "done", "failed"}
               PROVE  findings = Returned /\ (~stopOnError => findings = Checks)
    BY DEF FindingsComplete
  <2>1. findings = Returned /\ In("waiting") \cup In("running") = {}
    BY DEF IInv, AllEnded
  <2>2. ~stopOnError => In("cancelled") = {}
    BY DEF IInv, CancelledAborted
  <2>3. Checks = UNION {In(state) : state \in TaskState}
    BY DEF IInv, TypeOK, In
  <2> QED
    BY <2>1, <2>2, <2>3 DEF Returned, TaskState
<1> QED
  BY <1>1, InvariantHolds, PTL

\* The event loop never holds more than one save in the background.
THEOREM OneSave == Spec => []NoBacklog
<1>1. IInv => NoBacklog
  BY DEF IInv, SavesForward, NoBacklog
<1> QED
  BY <1>1, InvariantHolds, PTL

\* The whole report is stored when a run without a failed save ends.
THEOREM WholeReport == Spec => []ReportStored
<1>1. IInv => ReportStored
  BY DEF IInv, SavesForward, ReportStored
<1> QED
  BY <1>1, InvariantHolds, PTL

\* After the first failure of a check with stop_on_error none begins.
THEOREM AbortHolds == Spec => AbortStops
<1>1. ASSUME IInv, [Next]_vars, abort
      PROVE  {c \in Checks : task'[c] = "running"} \subseteq In("running")
  <2> USE DEF In, IInv, TypeOK
  <2>1. ASSUME NEW d \in Checks, Begin(d) \/ Return(d), NEW c \in Checks,
               task'[c] = "running"
        PROVE  task[c] = "running"
    BY <1>1, <2>1 DEF Begin, Return, Complete, MayRun
  <2>2. ASSUME Collect \/ CancelLate, NEW c \in Checks, task'[c] = "running"
        PROVE  task[c] = "running"
    BY <1>1, <2>2 DEF Collect, CancelLate, CancelRest
  <2>3. CASE task' = task
    BY <2>3
  <2> QED
    BY <1>1, <2>1, <2>2, <2>3 DEF Next, Work, Cancel, LoopEnds, Gather,
       SaveFinal, Require, SavePartial, CancelSwallowed, taskVars, vars
<1>2. IInv /\ [Next]_vars
        => [abort => {c \in Checks : task'[c] = "running"} \subseteq In("running")]_vars
  BY <1>1
<1> QED
  BY <1>2, InvariantHolds, PTL DEF Spec, AbortStops

\* No save, partial, final or cut short, takes a finding out of the stored
\* report (schedule_persist, persist_report).
THEOREM ReportGrows == Spec => SavedGrows
<1>1. ASSUME IInv, [Next]_vars PROVE saved \subseteq saved'
  <2>1. CASE SavePartial
    BY <1>1, <2>1 DEF SavePartial, Store, IInv, SavesForward
  <2>2. CASE SaveFinal
    BY <1>1, <2>2 DEF SaveFinal, Store, IInv, SavesForward
  <2>3. CASE CancelLate
    BY <1>1, <2>3 DEF CancelLate, IInv, SavesForward
  <2>4. CASE saved' = saved
    BY <2>4
  <2> QED
    BY <1>1, <2>1, <2>2, <2>3, <2>4 DEF Next, Work, Cancel, Begin, Return,
       Collect, LoopEnds, Gather, Require, CancelSwallowed, vars
<1>2. IInv /\ [Next]_vars => [saved \subseteq saved']_vars
  BY <1>1
<1> QED
  BY <1>2, InvariantHolds, PTL DEF Spec, SavedGrows
==============================================================================
