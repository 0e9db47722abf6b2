---------------------------- MODULE DefectCollection ---------------------------
(***************************************************************************)
(* The defect checks of one scrutiny run (scrutiny_workflow.py): one       *)
(* asyncio task per check under a semaphore, a loop that collects them as  *)
(* they complete (collect_defect_findings), partial reports saved in the   *)
(* background while checks still run, and the final report (run_scrutiny). *)
(* Only awaits separate steps: all tasks share one event loop.             *)
(***************************************************************************)
EXTENDS Naturals, FiniteSets, Sequences

CONSTANTS
  Checks,        \* the planned checks
  Concurrency,   \* SCRUTINY_CONCURRENCY
  PersistEvery,  \* SCRUTINY_PERSIST_EVERY
  MaxCancels,    \* how often the step may be cancelled
  MaxFaults      \* how many saves may fail

ASSUME CollectionAssumption ==
  /\ IsFiniteSet(Checks) /\ Checks # {}
  /\ Concurrency \in Nat \ {0} /\ PersistEvery \in Nat \ {0}
  /\ MaxCancels \in Nat /\ MaxFaults \in Nat

VARIABLES
  stopOnError, \* the argument of that name
  task,        \* state of each check's task
  completed,   \* tasks that as_completed has not handed out yet
  rounds,      \* iterations that its loop has left
  pc,          \* where run_scrutiny is
  findings,    \* checks collected so far
  abort,       \* the event of that name
  stopped,     \* stopped_early
  writes,      \* snapshots whose background save is not done
  saved,       \* checks in the stored report
  cancels, faults

taskVars == <<task, completed, abort>>
vars == <<stopOnError, taskVars, rounds, pc, findings, stopped, writes, saved,
          cancels, faults>>

TaskState == {"waiting", "running", "good", "bad", "cancelled"}
Label == {"collect", "gather", "save", "require", "done", "failed",
          "cancelled"}
Ended == {"done", "failed", "cancelled"}

In(state) == {c \in Checks : task[c] = state}
Returned == In("good") \cup In("bad")

\* The types, and the cap on checks that run at a time.
TypeOK ==
  /\ stopOnError \in BOOLEAN /\ abort \in BOOLEAN /\ stopped \in BOOLEAN
  /\ task \in [Checks -> TaskState]
  /\ completed \in Seq(Checks)
  /\ rounds \in 0..Cardinality(Checks)
  /\ pc \in Label
  /\ findings \subseteq Checks /\ saved \subseteq Checks
  /\ writes \in Seq(SUBSET Checks)
  /\ cancels \in 0..MaxCancels /\ faults \in 0..MaxFaults
  /\ Cardinality(In("running")) <= Concurrency

Init ==
  /\ stopOnError \in BOOLEAN
  /\ task = [c \in Checks |-> "waiting"]
  /\ completed = <<>>
  /\ rounds = Cardinality(Checks)
  /\ pc = "collect"
  /\ findings = {} /\ saved = {}
  /\ abort = FALSE /\ stopped = FALSE
  /\ writes = <<>>
  /\ cancels = 0 /\ faults = 0

------------------------------------------------------------------------------
(***************************************************************************)
(* The tasks (guarded)                                                     *)
(***************************************************************************)
Complete(c, state) ==
  /\ task' = [task EXCEPT ![c] = state]
  /\ completed' = Append(completed, c)

\* Seeded fault: the semaphore is not awaited.
Free_Always == TRUE

\* Seeded fault: a failed check does not release the semaphore.
Free_Leaky == Cardinality(In("running") \cup In("bad")) < Concurrency

Free == Cardinality(In("running")) < Concurrency

MayRun == ~abort

Begin(c) ==
  /\ task[c] = "waiting" /\ Free
  /\ IF MayRun THEN task' = [task EXCEPT ![c] = "running"] /\ UNCHANGED completed
               ELSE Complete(c, "cancelled")
  /\ UNCHANGED <<stopOnError, rounds, pc, findings, abort, stopped, writes,
                 saved, cancels, faults>>

\* run_one returns a finding, a failed check being one with an error.
Return(c) ==
  /\ task[c] = "running"
  /\ \/ Complete(c, "good") /\ UNCHANGED abort
     \/ Complete(c, "bad") /\ abort' = (abort \/ stopOnError)
  /\ UNCHANGED <<stopOnError, rounds, pc, findings, stopped, writes, saved,
                 cancels, faults>>

\* task.cancel() for all that are not done.
CancelRest ==
  task' = [c \in Checks |->
             IF task[c] \in {"waiting", "running"} THEN "cancelled" ELSE task[c]]

------------------------------------------------------------------------------
(***************************************************************************)
(* The loop of collect_defect_findings, publish and schedule_persist       *)
(***************************************************************************)

Snapshot(c) == findings \cup {c}

Idle == writes = <<>>

\* A partial report is saved every so often, unless a save is running.
Publish(c) ==
  LET n == Cardinality(findings \cup {c})
      due == n < Cardinality(Checks) /\ n % PersistEvery = 0
  IN  writes' = IF due /\ Idle THEN Append(writes, Snapshot(c)) ELSE writes

\* The next completed task.  With stop_on_error the first error ends the loop.
Collect ==
  /\ pc = "collect" /\ rounds > 0 /\ completed # <<>>
  /\ rounds' = rounds - 1
  /\ LET c == Head(completed)
         ends == stopOnError /\ task[c] = "bad"
     IN  /\ IF task[c] = "cancelled" THEN UNCHANGED <<findings, writes>>
            ELSE findings' = findings \cup {c} /\ Publish(c)
         /\ IF ends
            THEN /\ pc' = "gather" /\ stopped' = TRUE /\ abort' = TRUE
                 /\ CancelRest /\ completed' = <<>>
            ELSE /\ UNCHANGED <<pc, stopped, abort, task>>
                 /\ completed' = Tail(completed)
  /\ UNCHANGED <<stopOnError, saved, cancels, faults>>

LoopEnds ==
  /\ pc = "collect" /\ rounds = 0
  /\ pc' = "gather"
  /\ UNCHANGED <<stopOnError, taskVars, rounds, findings, stopped, writes, saved,
                 cancels, faults>>

\* Seeded fault: what the loop did not see is dropped.
Leftovers_Dropped == {}

Leftovers == Returned

\* The finally block waits for all tasks and keeps every finding.  The report
\* it publishes is partial if checks are missing.
Gather ==
  /\ pc = "gather"
  /\ In("waiting") \cup In("running") = {}
  /\ findings' = findings \cup Leftovers
  /\ LET n == Cardinality(findings')
         due == findings' # findings /\ ~stopped /\ n < Cardinality(Checks)
                  /\ n % PersistEvery = 0
     IN  writes' = IF due /\ Idle THEN Append(writes, findings') ELSE writes
  /\ pc' = "save"
  /\ UNCHANGED <<stopOnError, taskVars, rounds, stopped, saved, cancels, faults>>

------------------------------------------------------------------------------
(***************************************************************************)
(* Saving, and the end of run_scrutiny                                     *)
(***************************************************************************)
\* _persist: a failure is only logged.
Store(report) ==
  \/ saved' = report /\ UNCHANGED faults
  \/ faults < MaxFaults /\ faults' = faults + 1 /\ UNCHANGED saved

\* The lock admits the background saves in the order they were scheduled.
SavePartial ==
  /\ writes # <<>>
  /\ Store(Head(writes))
  /\ writes' = Tail(writes)
  /\ UNCHANGED <<stopOnError, taskVars, rounds, pc, findings, stopped, cancels>>

\* Seeded fault: neither the lock nor the wait for background saves.
Quiet_Always == TRUE

\* The background saves are waited for, and the lock would let them go first.
Quiet == writes = <<>>

SaveFinal ==
  /\ pc = "save" /\ Quiet
  /\ Store(findings)
  /\ pc' = "require"
  /\ UNCHANGED <<stopOnError, taskVars, rounds, findings, stopped, writes,
                 cancels>>

\* require_successful_checks
Require ==
  /\ pc = "require"
  /\ pc' = IF findings \cap In("good") # {} THEN "done" ELSE "failed"
  /\ UNCHANGED <<stopOnError, taskVars, rounds, findings, stopped, writes, saved,
                 cancels, faults>>

------------------------------------------------------------------------------
(***************************************************************************)
(* Cancellation of the step: a deadline, SIGTERM, the end of the process's *)
(* event loop.  The loop takes it for that of a check and goes on.         *)
(***************************************************************************)
Cancelling == cancels < MaxCancels /\ cancels' = cancels + 1

CancelSwallowed ==
  /\ pc = "collect" /\ rounds > 0 /\ completed = <<>>
  /\ Cancelling
  /\ rounds' = rounds - 1
  /\ UNCHANGED <<stopOnError, taskVars, pc, findings, stopped, writes, saved,
                 faults>>

\* Later it ends the run; what is being saved may reach Agent Data.
CancelLate ==
  /\ \/ /\ pc = "gather" /\ In("waiting") \cup In("running") # {}
        /\ CancelRest /\ UNCHANGED <<writes, saved>>
     \/ /\ pc = "save"
        /\ writes' = <<>>
        /\ saved' \in {saved, IF writes = <<>> THEN findings ELSE Head(writes)}
        /\ UNCHANGED task
  /\ Cancelling
  /\ pc' = "cancelled"
  /\ UNCHANGED <<stopOnError, completed, abort, rounds, findings, stopped, faults>>

Work == Collect \/ LoopEnds \/ Gather \/ SaveFinal \/ Require
Cancel == CancelSwallowed \/ CancelLate

Next ==
  \/ \E c \in Checks : Begin(c) \/ Return(c)
  \/ Work \/ SavePartial \/ Cancel

\* The event loop runs what is ready; a check ends because every model call
\* and every search has a timeout; so does a save.
Fairness ==
  /\ WF_vars(Work) /\ WF_vars(SavePartial)
  /\ \A c \in Checks : WF_vars(Begin(c) \/ Return(c))

Spec == Init /\ [][Next]_vars /\ Fairness

------------------------------------------------------------------------------
(***************************************************************************)
(* Properties                                                              *)
(***************************************************************************)
\* The report that is saved at the end has a finding for every check that
\* returned one, and without stop_on_error for every planned check, also
\* after a cancellation that the loop has swallowed ("In-flight calls that
\* already finished are still kept").
FindingsComplete ==
  pc \in {"save", "require", "done", "failed"} =>
    /\ findings = Returned
    /\ ~stopOnError => findings = Checks

\* "On the first failed check, remaining queued calls are cancelled": once a
\* check has failed, no other begins, not even in the steps between its
\* return and the loop's cancellation of the others.
AbortStops ==
  [][abort => {c \in Checks : task'[c] = "running"} \subseteq In("running")]_vars

\* A save never replaces a report by one with fewer findings, whatever the
\* order in which checks complete and saves end.
SavedGrows == [][saved \subseteq saved']_vars

\* "Do not queue a remote Agent Data write for every interval while an earlier
\* write is still running": the event loop never holds a backlog of saves.
NoBacklog == Len(writes) <= 1

\* A run that ends without a failed save has stored its whole report, and no
\* background save is left that could still change it.
ReportStored ==
  pc \in {"done", "failed"} => writes = <<>> /\ (faults = 0 => saved = findings)

\* Every run ends: no check waits for a semaphore that nobody releases, and
\* the loop never waits for a completion that cannot come.
EveryRunEnds == <>(pc \in Ended)
==============================================================================
