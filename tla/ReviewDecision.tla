---------------------------- MODULE ReviewDecision ----------------------------
(***************************************************************************)
(* FilingRecord with a history of the reviewer's decisions.  A PATCH and a *)
(* scrutiny both write a whole document made from a copy read earlier, and *)
(* nothing keeps them apart, so a decision can be lost.  The history says  *)
(* by whom: which jobs read the filing before its last decision, and       *)
(* whether one of those has put another status in its place.  It only      *)
(* observes FilingRecord.                                                  *)
(***************************************************************************)
EXTENDS FilingRecord

VARIABLES
  decision,  \* the status that the last decision gave an item
  behind,    \* the jobs whose copy of it is older than that
  undone     \* whether the status of such a copy has replaced it since

history == <<decision, behind, undone>>

ReviewTypeOK ==
  /\ decision \in [Ids -> Review \cup {Absent.status}]
  /\ behind \in [Ids -> SUBSET Jobs]
  /\ undone \in [Ids -> BOOLEAN]

ReviewInit ==
  /\ Init
  /\ decision = [i \in Ids |-> Absent.status]
  /\ behind = [i \in Ids |-> {}]
  /\ undone = [i \in Ids |-> FALSE]

\* A step of job j decides on item i: a PATCH, or an extraction, which puts an
\* unreviewed document in the place of the one there was.
DecidesOn(j, i) ==
  \/ job[j].pc \in {"upsert", "update", "create", "decide"} /\ store'[i] # store[i]
  \/ At(j, "decide") /\ job'[j].pc = "done" /\ job[j].item = i

\* The jobs with a copy of item i.
Holders(i) == {k \in Jobs : job[k].doc # Absent /\ job[k].item = i}

\* It has lost the copy, or has read the filing again.
Forgets(k) ==
  job'[k].doc = Absent \/ (job[k].pc = "scrutinise" /\ job'[k].pc = "check")

Remember(j) ==
  /\ decision' = [i \in Ids |-> IF DecidesOn(j, i) THEN store'[i].status ELSE decision[i]]
  /\ behind' = [i \in Ids |-> IF DecidesOn(j, i) THEN Holders(i) \ {j}
                              ELSE {k \in behind[i] : ~Forgets(k)}]
  /\ undone' = [i \in Ids |->
       /\ ~DecidesOn(j, i)
       /\ undone[i] \/ (j \in behind[i] /\ store'[i].status # store[i].status)]

ReviewNext == \E j \in Jobs : (Step(j) \/ Failure(j)) /\ Remember(j)

ReviewSpec == ReviewInit /\ [][ReviewNext]_<<vars, history>>

\* A reviewer's decision stands until the next one, unless a job that had read
\* the filing before it saves its copy: a scrutiny that is running when the
\* PATCH arrives can undo it (scrutiny_workflow.py:2054), but no job that starts
\* or starts again later, and none that reads the filing anew for its checks.
DecisionStands == \A i \in Ids : store[i].status = decision[i] \/ undone[i]
==============================================================================
