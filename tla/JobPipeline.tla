----------------------------- MODULE JobPipeline -----------------------------
(***************************************************************************)
(* The life of one queued job: api.py accepts it (status object, then SQS  *)
(* message), worker.py receives the message, takes the job's lease, runs   *)
(* the workflow under a heartbeat, makes the terminal status durable,      *)
(* tells the backend, and only then deletes the message.  Everything that  *)
(* interrupts this comes in between: killed workers, SIGTERM, failed S3    *)
(* and SQS calls, a backend that does not answer, duplicate deliveries.    *)
(*                                                                         *)
(* A tick is one heartbeat interval (a third of the visibility timeout).   *)
(* The steps around the workflow (claim, load, replay, release) take less  *)
(* than a tick, and a live worker's heartbeat runs once in every tick.     *)
(* Code between two awaits is one step: the event loop has one thread.     *)
(* The lease is the one JobLease implements: a holder and a time left.     *)
(***************************************************************************)
EXTENDS Naturals

CONSTANTS
  Workers,     \* worker processes; each handles one message at a time
  NoWorker,
  Vis,         \* SQS visibility timeout in ticks (3)
  LeaseTicks,  \* JobLease.duration in ticks, rounded up (Vis + 1)
  MaxReceive,  \* maxReceiveCount of the queue's redrive policy
  MsgUrl,      \* the message carries a callback_url
  EnvUrl,      \* JUBEEX_CALLBACK_URL is set
  Faults,      \* the kinds of fault that may happen
  MaxFaults    \* and how many of them

FaultKind == {"crash", "stop", "heartbeat", "write", "read", "callback",
              "duplicate", "lease", "delete", "enqueue"}

ASSUME PipelineAssumption ==
  /\ NoWorker \notin Workers
  /\ Vis \in Nat \ {0}
  /\ LeaseTicks \in Nat /\ LeaseTicks > Vis
  /\ MaxReceive \in Nat \ {0}
  /\ MsgUrl \in BOOLEAN /\ EnvUrl \in BOOLEAN
  /\ Faults \subseteq FaultKind
  /\ MaxFaults \in Nat

VARIABLES
  api,        \* the request that creates the job
  queue,      \* where the job's message is
  visLeft,    \* ticks until an in-flight message is visible again
  receipt,    \* the worker whose receipt handle is the latest
  receives,   \* SQS's receive count of the message
  holder,     \* the owner in the lease object
  leaseLeft,  \* ticks until the lease expires
  status,     \* the job's status object in S3
  pc,         \* where each worker's process_message is
  beat,       \* the heartbeat of a running worker has run in this tick
  verdict,    \* job.status of the running job, in memory
  told,       \* job.callback_delivered, in memory
  stopping,   \* SIGTERM arrived and cancelled this worker's task
  inbox,      \* the terminal statuses the backend has received
  faults      \* how many faults there were, and duplicate deliveries of them

msgVars == <<queue, visLeft, receipt, receives>>
leaseVars == <<holder, leaseLeft>>
localVars == <<beat, verdict, told, stopping>>
vars == <<api, msgVars, leaseVars, status, pc, localVars, inbox, faults>>

Terminal == {"completed", "failed"}
HasTarget == MsgUrl \/ EnvUrl

\* process_message runs under the heartbeat.
Beating == {"running", "notifying", "deleting"}
\* Steps that take less than a tick.
Brief == {"claiming", "claimed", "saving", "deleting", "replaying", "replayed",
          "releasing", "retiring"}
PC == Beating \cup Brief \cup {"idle", "stopped"}

Status == [state : Terminal \cup {"none", "running"}, delivered : BOOLEAN]
NoStatus == [state |-> "none", delivered |-> FALSE]

Saved(s, d) == [state |-> s, delivered |-> d]

TypeOK ==
  /\ api \in {"new", "persisted", "queued", "refused", "orphaned"}
  /\ queue \in {"none", "visible", "inflight", "deleted", "dead"}
  /\ visLeft \in 0..Vis /\ (queue # "inflight" => visLeft = 0)
  /\ receipt \in Workers \cup {NoWorker}
  /\ receives \in 0..MaxReceive
  /\ holder \in Workers \cup {NoWorker}
  /\ leaseLeft \in 0..LeaseTicks
  /\ status \in Status
  /\ pc \in [Workers -> PC]
  /\ beat \in [Workers -> BOOLEAN]
  /\ verdict \in [Workers -> Terminal \cup {"none"}]
  /\ told \in [Workers -> BOOLEAN]
  /\ stopping \in [Workers -> BOOLEAN]
  /\ inbox \subseteq Terminal
  /\ faults \in [all : 0..MaxFaults, duplicates : 0..MaxFaults]

Init ==
  /\ api = "new"
  /\ queue = "none" /\ visLeft = 0 /\ receipt = NoWorker /\ receives = 0
  /\ holder = NoWorker /\ leaseLeft = 0
  /\ status = NoStatus
  /\ pc = [w \in Workers |-> "idle"]
  /\ beat = [w \in Workers |-> FALSE]
  /\ verdict = [w \in Workers |-> "none"]
  /\ told = [w \in Workers |-> FALSE]
  /\ stopping = [w \in Workers |-> FALSE]
  /\ inbox = {}
  /\ faults = [all |-> 0, duplicates |-> 0]

Fault(kind) ==
  /\ kind \in Faults /\ faults.all < MaxFaults
  /\ faults' = [all |-> faults.all + 1,
                duplicates |-> faults.duplicates
                                 + (IF kind = "duplicate" THEN 1 ELSE 0)]
NoFault == UNCHANGED faults

Goto(w, label) == pc' = [pc EXCEPT ![w] = label]

------------------------------------------------------------------------------
(***************************************************************************)
(* The API accepts the job: status first, then the message.                *)
(***************************************************************************)
Persist ==
  /\ api = "new"
  /\ \/ /\ NoFault /\ api' = "persisted" /\ status' = Saved("running", FALSE)
     \/ Fault("write") /\ api' = "refused" /\ UNCHANGED status
  /\ UNCHANGED <<msgVars, leaseVars, pc, localVars, inbox>>

Enqueue ==
  /\ api = "persisted"
  /\ \/ NoFault /\ api' = "queued" /\ queue' = "visible"
     \/ Fault("enqueue") /\ api' = "orphaned" /\ UNCHANGED queue
  /\ UNCHANGED <<visLeft, receipt, receives, leaseVars, status, pc, localVars,
                 inbox>>

------------------------------------------------------------------------------
(***************************************************************************)
(* SQS and time                                                            *)
(***************************************************************************)
\* A message past its last receive goes to the dead-letter queue.
DeadLetter ==
  /\ queue = "visible" /\ receives = MaxReceive
  /\ queue' = "dead"
  /\ UNCHANGED <<api, visLeft, receipt, receives, leaseVars, status, pc,
                 localVars, inbox, faults>>

Tick ==
  /\ \A w \in Workers : /\ pc[w] \notin Brief
                        /\ pc[w] \in Beating => beat[w]
  /\ visLeft' = IF visLeft > 0 THEN visLeft - 1 ELSE 0
  /\ queue' = IF queue = "inflight" /\ visLeft' = 0 THEN "visible" ELSE queue
  /\ leaseLeft' = IF leaseLeft > 0 THEN leaseLeft - 1 ELSE 0
  /\ beat' = [w \in Workers |-> FALSE]
  /\ UNCHANGED <<api, receipt, receives, holder, status, pc, verdict, told,
                 stopping, inbox, faults>>

------------------------------------------------------------------------------
(***************************************************************************)
(* A worker takes the message and the lease.                               *)
(***************************************************************************)
Receive(w) ==
  /\ pc[w] = "idle" /\ receives < MaxReceive
  /\ \/ queue = "visible" /\ NoFault
     \/ queue = "inflight" /\ Fault("duplicate")
  /\ queue' = "inflight" /\ visLeft' = Vis
  /\ receipt' = w /\ receives' = receives + 1
  /\ Goto(w, "claiming")
  /\ UNCHANGED <<api, leaseVars, status, localVars, inbox>>

TakeLease(w) == leaseLeft = 0 /\ holder' = w /\ leaseLeft' = LeaseTicks

Acquire(w) ==
  /\ pc[w] = "claiming"
  /\ \/ NoFault /\ TakeLease(w) /\ Goto(w, "claimed")
     \/ NoFault /\ leaseLeft > 0 /\ UNCHANGED leaseVars /\ Goto(w, "idle")
     \/ /\ Fault("lease")
        /\ TakeLease(w) \/ UNCHANGED leaseVars
        /\ Goto(w, "idle")
  /\ UNCHANGED <<api, msgVars, status, localVars, inbox>>

\* delete_job; a handle that is no longer the latest may not delete.
Discard(w) ==
  \/ /\ NoFault /\ queue \in {"visible", "inflight"}
     /\ queue' = "deleted" /\ visLeft' = 0
  \/ /\ NoFault /\ (receipt # w \/ queue \in {"deleted", "dead"})
     /\ UNCHANGED <<queue, visLeft>>
  \/ Fault("delete") /\ UNCHANGED <<queue, visLeft>>

\* load_job_status: every failure reads as "no status".
Readable(s) ==
  \/ s = status /\ NoFault
  \/ s = NoStatus /\ Fault("read")

\* prior is terminal: its callback is still due, or the message is dropped.
LoadTerminal(w) ==
  /\ pc[w] = "claimed"
  /\ \E s \in Status :
       /\ Readable(s) /\ s.state \in Terminal
       /\ MsgUrl /\ ~s.delivered
       /\ verdict' = [verdict EXCEPT ![w] = s.state]
  /\ Goto(w, "replaying")
  /\ UNCHANGED <<api, msgVars, leaseVars, status, beat, told, stopping, inbox>>

LoadDelivered(w) ==
  /\ pc[w] = "claimed"
  /\ status.state \in Terminal /\ (~MsgUrl \/ status.delivered)
  /\ Discard(w)
  /\ Goto(w, "releasing")
  /\ UNCHANGED <<api, receipt, receives, leaseVars, status, localVars, inbox>>

\* No terminal prior: _job_from_message writes "running" (a failure of that
\* write is ignored) and the workflow and its heartbeat start.
LoadFresh(w) ==
  /\ pc[w] = "claimed"
  /\ \/ \E s \in Status : /\ Readable(s) /\ s.state \notin Terminal
                          /\ status' = Saved("running", FALSE)
     \/ /\ status.state \notin Terminal /\ Fault("write")
        /\ UNCHANGED status
  /\ Goto(w, "running")
  /\ beat' = [beat EXCEPT ![w] = TRUE]
  /\ verdict' = [verdict EXCEPT ![w] = "none"]
  /\ told' = [told EXCEPT ![w] = FALSE]
  /\ UNCHANGED <<api, msgVars, leaseVars, stopping, inbox>>

------------------------------------------------------------------------------
(***************************************************************************)
(* The workflow ends (result, error or deadline): _run_workflow's finally. *)
(***************************************************************************)
\* Seeded fault: the callback goes out although the status was not stored.
FinishUnsaved_Notifies(w) == UNCHANGED status /\ Goto(w, "notifying")

\* require_durable_status: no callback for an outcome that was not stored.
FinishUnsaved(w) == UNCHANGED status /\ Goto(w, "releasing")

Finish(w) ==
  /\ pc[w] = "running"
  /\ \E v \in Terminal :
       /\ verdict' = [verdict EXCEPT ![w] = v]
       /\ \/ NoFault /\ status' = Saved(v, FALSE) /\ Goto(w, "notifying")
          \/ Fault("write") /\ FinishUnsaved(w)
  /\ UNCHANGED <<api, msgVars, leaseVars, beat, told, stopping, inbox>>

\* The backend may have handled a POST whose answer is lost.
Reach(w) == inbox' = IF HasTarget THEN inbox \cup {verdict[w]} ELSE inbox
MayReach(w) == Reach(w) \/ UNCHANGED inbox

\* notify_job_finished; without a target it reports success.
Notify(w) ==
  /\ pc[w] = "notifying"
  /\ \/ NoFault /\ Reach(w) /\ told' = [told EXCEPT ![w] = TRUE]
     \/ HasTarget /\ Fault("callback") /\ MayReach(w) /\ UNCHANGED told
  /\ Goto(w, "saving")
  /\ UNCHANGED <<api, msgVars, leaseVars, status, beat, verdict, stopping>>

\* Seeded fault: the message is deleted whether or not the callback arrived.
AfterSave_Ignored(w) == "deleting"

AfterSave(w) == IF told[w] THEN "deleting" ELSE "releasing"

Save(w) ==
  /\ pc[w] = "saving"
  /\ \/ /\ NoFault /\ status' = Saved(verdict[w], told[w])
        /\ Goto(w, AfterSave(w))
     \/ Fault("write") /\ UNCHANGED status /\ Goto(w, "releasing")
  /\ UNCHANGED <<api, msgVars, leaseVars, localVars, inbox>>

Delete(w) ==
  /\ pc[w] = "deleting"
  /\ Discard(w)
  /\ Goto(w, "releasing")
  /\ UNCHANGED <<api, receipt, receives, leaseVars, status, localVars, inbox>>

(***************************************************************************)
(* _replay_terminal_message: the callback again, then its record.          *)
(***************************************************************************)
Replay(w) ==
  /\ pc[w] = "replaying"
  /\ \/ NoFault /\ Reach(w) /\ Goto(w, "replayed")
     \/ Fault("callback") /\ MayReach(w) /\ Goto(w, "releasing")
  /\ UNCHANGED <<api, msgVars, leaseVars, status, localVars>>

ReplayDone(w) ==
  /\ pc[w] = "replayed"
  /\ \/ status' = Saved(verdict[w], TRUE) /\ Discard(w)
     \/ Fault("write") /\ UNCHANGED <<status, queue, visLeft>>
  /\ Goto(w, "releasing")
  /\ UNCHANGED <<api, receipt, receives, leaseVars, localVars, inbox>>

------------------------------------------------------------------------------
(***************************************************************************)
(* The heartbeat, and what cancels the workflow.                           *)
(***************************************************************************)
\* Seeded faults: a heartbeat that does only one of its two jobs.
Extend_Missing(w) == UNCHANGED visLeft
Renew_Missing(w) == UNCHANGED leaseLeft

Extend(w) == visLeft' = Vis \/ (receipt # w /\ UNCHANGED visLeft)
Renew(w) == leaseLeft' = LeaseTicks

Heartbeat(w) ==
  /\ pc[w] \in Beating /\ ~beat[w]
  /\ queue = "inflight" /\ holder = w
  /\ Extend(w) /\ Renew(w)
  /\ beat' = [beat EXCEPT ![w] = TRUE]
  /\ UNCHANGED <<api, queue, receipt, receives, holder, status, pc, verdict,
                 told, stopping, inbox, faults>>

Retrying(w) == IF pc[w] = "running" THEN Saved("running", FALSE) ELSE status

\* Cancelling: a running workflow records "retrying" (its status stays
\* running); a callback in flight may still arrive and is not recorded.
Cancelled(w) ==
  /\ status' = Retrying(w)
  /\ IF pc[w] \in {"notifying", "replaying"} THEN MayReach(w)
                                             ELSE UNCHANGED inbox
  /\ Goto(w, "releasing")

\* The message is not in flight under this handle any more, the lease has
\* another owner, or one of the two calls failed.
HeartbeatLost(w) ==
  /\ pc[w] \in Beating /\ ~beat[w]
  /\ \/ NoFault /\ (queue # "inflight" \/ receipt # w \/ holder # w)
     \/ Fault("heartbeat")
  /\ \/ UNCHANGED visLeft
     \/ queue = "inflight" /\ receipt = w /\ visLeft' = Vis
  /\ Cancelled(w)
  /\ UNCHANGED <<api, queue, receipt, receives, leaseVars, localVars>>

\* SIGTERM: run_worker cancels the task and, when it has ended, makes the
\* message visible.  A cancelled acquire runs on in its thread.
Stop(w) ==
  /\ pc[w] \in Beating \cup {"replaying", "releasing", "claiming"}
  /\ ~stopping[w] /\ Fault("stop")
  /\ stopping' = [stopping EXCEPT ![w] = TRUE]
  /\ IF pc[w] = "claiming"
     THEN /\ TakeLease(w) \/ UNCHANGED leaseVars
          /\ Goto(w, "retiring")
          /\ UNCHANGED <<status, inbox>>
     ELSE Cancelled(w) /\ UNCHANGED leaseVars
  /\ UNCHANGED <<api, msgVars, beat, verdict, told>>

Forget(w) ==
  /\ verdict' = [verdict EXCEPT ![w] = "none"]
  /\ told' = [told EXCEPT ![w] = FALSE]
  /\ beat' = [beat EXCEPT ![w] = FALSE]

\* The lease is given back.  It stays when the write fails, and a renew that
\* outlives the heartbeat arms it again (JobLease!ReleasedStaysFree).
Release(w) ==
  /\ pc[w] = "releasing"
  /\ UNCHANGED holder
  /\ \/ NoFault /\ leaseLeft' = IF holder = w THEN 0 ELSE leaseLeft
     \/ Fault("lease") /\ leaseLeft' \in {leaseLeft, LeaseTicks}
  /\ Goto(w, IF stopping[w] THEN "retiring" ELSE "idle")
  /\ Forget(w)
  /\ UNCHANGED <<api, msgVars, status, stopping, inbox>>

\* release_job_visibility, then the process exits.
Retire(w) ==
  /\ pc[w] = "retiring"
  /\ \/ NoFault /\ queue = "inflight" /\ queue' = "visible" /\ visLeft' = 0
     \/ /\ NoFault /\ (queue # "inflight" \/ receipt # w)
        /\ UNCHANGED <<queue, visLeft>>
     \/ Fault("heartbeat") /\ UNCHANGED <<queue, visLeft>>
  /\ Goto(w, "stopped")
  /\ stopping' = [stopping EXCEPT ![w] = FALSE]
  /\ UNCHANGED <<api, receipt, receives, leaseVars, status, beat, verdict,
                 told, inbox>>

\* The process is killed; what it had sent may still take effect.
Crash(w) ==
  /\ pc[w] \notin {"idle", "stopped"} /\ Fault("crash")
  /\ \/ pc[w] = "claiming" /\ TakeLease(w)
     \/ UNCHANGED leaseVars
  /\ IF pc[w] \in {"notifying", "replaying"} THEN MayReach(w)
                                             ELSE UNCHANGED inbox
  /\ Goto(w, "stopped")
  /\ Forget(w)
  /\ stopping' = [stopping EXCEPT ![w] = FALSE]
  /\ UNCHANGED <<api, msgVars, status>>

\* ECS starts a new task.
Restart(w) ==
  /\ pc[w] = "stopped"
  /\ Goto(w, "idle")
  /\ UNCHANGED <<api, msgVars, leaseVars, status, localVars, inbox, faults>>

Work(w) ==
  \/ Receive(w) \/ Acquire(w) \/ LoadTerminal(w) \/ LoadDelivered(w)
  \/ LoadFresh(w) \/ Finish(w) \/ Notify(w) \/ Save(w) \/ Delete(w)
  \/ Replay(w) \/ ReplayDone(w) \/ Release(w) \/ Retire(w) \/ Restart(w)

Interrupt(w) == Stop(w) \/ Crash(w)

Next ==
  \/ Persist \/ Enqueue \/ DeadLetter \/ Tick
  \/ \E w \in Workers : \/ Work(w) \/ Heartbeat(w) \/ HeartbeatLost(w)
                        \/ Interrupt(w)

\* The API and SQS serve, time passes, a started process goes on, a killed
\* one is replaced (ECS), a workflow ends by its deadline (asyncio.timeout).
Fairness ==
  /\ WF_vars(Persist) /\ WF_vars(Enqueue) /\ WF_vars(DeadLetter) /\ WF_vars(Tick)
  /\ \A w \in Workers : /\ WF_vars(Work(w))
                        /\ WF_vars(Heartbeat(w) \/ HeartbeatLost(w))

Spec == Init /\ [][Next]_vars /\ Fairness

------------------------------------------------------------------------------
(***************************************************************************)
(* Properties                                                              *)
(***************************************************************************)
\* A message is deleted only when its job is over for good: the status object
\* says so and the backend has been told that very outcome, whatever failed
\* on the way (_process_claimed_message, _replay_terminal_message).
DeletedMeansDelivered ==
  queue = "deleted" =>
    status.state \in Terminal /\ (HasTarget => inbox = {status.state})

\* Polling and callbacks agree: a job whose outcome the backend has received
\* never shows another one, in a later callback or in its status object.
VerdictIsFinal ==
  \A v \in inbox : status.state = v /\ inbox = {v}

\* A terminal status object stays: no retry, cancellation or second worker
\* turns it back, and a recorded delivery is not forgotten.
\* (test_worker.py: a terminal replay is deleted without running.)
TerminalStays ==
  [][status.state \in Terminal =>
       /\ status'.state = status.state
       /\ status.delivered => status'.delivered]_vars

\* "The S3 lease must prevent concurrent execution of that job": with the
\* heartbeat's interval, the visibility timeout and the lease as configured,
\* two workers never run the workflow together and never notify together.
RunsAlone ==
  \A v, w \in Workers :
    pc[v] \in Beating \cup {"saving", "replaying", "replayed"}
      /\ pc[w] \in Beating \cup {"saving", "replaying", "replayed"} => v = w

\* The message is gone, the job's status is terminal and the backend knows it.
Delivered ==
  /\ queue = "deleted" /\ status.state \in Terminal
  /\ HasTarget => status.state \in inbox

\* A queued job comes to an end: it is delivered, or SQS gives up on it.
EveryJobSettles == (api = "queued") ~> (Delivered \/ queue = "dead")

\* With maxReceiveCount = 5 one fault, at any step, never costs the job: the
\* receives that only bounce off the lease of a dead or stopped worker do not
\* use up the rest (docs/ecs-worker-operations.md: "Kill a worker during a job.
\* SQS must redeliver").  A duplicate delivery could: it makes the heartbeat's
\* receipt stale.
EveryJobIsDelivered ==
  [](faults.all <= 1 /\ faults.duplicates = 0)
    => ((api = "queued") ~> Delivered)

(***************************************************************************)
(* The lease here is the one that JobLease implements.                     *)
(***************************************************************************)
Lease == INSTANCE LeaseLock
           WITH Owners <- Workers, NoOwner <- NoWorker,
                holder <- IF leaseLeft > 0 THEN holder ELSE NoWorker
UsesLeaseLock == Lease!LeaseSpec
==============================================================================
