------------------------------ MODULE RateLimiter -----------------------------
(***************************************************************************)
(* The pacing of model requests shared by every worker (llm.py): one S3    *)
(* object holds the next free slot and the end of the current cooldown.    *)
(* Each request reserves a slot by a conditional write, sleeps until it,   *)
(* checks for a cooldown published meanwhile, and only then calls the      *)
(* model.  A 429 from the model publishes a longer cooldown in the same    *)
(* object.  A caller is one call of _call_structured_genai, in any worker. *)
(*                                                                         *)
(* The hosts' clocks agree here (JobLease has the model with skew).  The   *)
(* delay between attempts only keeps a caller away from the object for a   *)
(* while; here it may be of any length.                                    *)
(***************************************************************************)
EXTENDS Naturals

CONSTANTS
  Callers,      \* concurrent model requests
  Interval,     \* 60 / rpm
  MaxQueue,     \* MAX_SHARED_RATE_LIMIT_QUEUE_S
  Base,         \* DEFAULT_VERTEX_SHARED_COOLDOWN_BASE_S
  MaxDelay,     \* DEFAULT_VERTEX_SHARED_COOLDOWN_MAX_S
  MaxAttempts,  \* genai_max_attempts
  MaxTries,     \* rounds of one conditional write (100 in the code)
  MaxGhosts,    \* how many writes land although S3 or the SDK says otherwise
  MaxTime       \* bound of the clock in the model

ASSUME LimiterAssumption ==
  /\ Interval \in Nat \ {0} /\ MaxQueue \in Nat
  /\ Base \in Nat \ {0} /\ MaxDelay \in Nat \ {0}
  /\ MaxAttempts \in Nat \ {0} /\ MaxTries \in Nat \ {0}
  /\ MaxGhosts \in Nat /\ MaxTime \in Nat

VARIABLES
  now,       \* time.time()
  obj,       \* the limiter object, or Missing
  position,  \* where each caller is
  tag,       \* the object its pending write is conditional on
  draft,     \* what that write stores
  slot,      \* reserved_at of the slot it holds until it calls (0: none)
  tries,     \* rounds of the conditional write it is in
  attempt,   \* attempt of _call_structured_genai
  ghosts,    \* writes that landed and were reported as failed
  calls      \* how many requests the model has received from all callers

pendingVars == <<tag, draft, tries>>
limiterVars == <<now, obj, position, pendingVars, slot, attempt, ghosts, calls>>

\* A field of 0 is a field the object does not have.
Object == [next : Nat, cooldown : Nat, last429 : Nat, count : 0..16]
Missing == [next |-> 0, cooldown |-> 0, last429 |-> 0, count |-> 0]

Label == {"reserve", "reserving", "asleep", "check", "call", "publish",
          "publishing", "done", "failed"}
Ended == {"done", "failed"}

LimiterTypeOK ==
  /\ now \in Nat \ {0}
  /\ obj \in Object
  /\ position \in [Callers -> Label]
  /\ tag \in [Callers -> Object]
  /\ draft \in [Callers -> Object]
  /\ slot \in [Callers -> Nat]
  /\ tries \in [Callers -> 0..(MaxTries - 1)]
  /\ attempt \in [Callers -> 1..MaxAttempts]
  /\ ghosts \in 0..MaxGhosts
  /\ calls \in Nat

LimiterInit ==
  /\ now = 1
  /\ obj = Missing
  /\ position = [c \in Callers |-> "reserve"]
  /\ tag = [c \in Callers |-> Missing]
  /\ draft = [c \in Callers |-> Missing]
  /\ slot = [c \in Callers |-> 0]
  /\ tries = [c \in Callers |-> 0]
  /\ attempt = [c \in Callers |-> 1]
  /\ ghosts = 0
  /\ calls = 0

Goto(c, label) == position' = [position EXCEPT ![c] = label]

\* Seeded fault: a plain put_object.
Put_Unconditional(c) == obj' = draft[c]

\* IfMatch the object that was read, IfNoneMatch if there was none.
Put(c) == obj = tag[c] /\ obj' = draft[c]

\* The put fails: it did not land, or it did and its caller is not told.
PutFails(c) ==
  \/ UNCHANGED <<obj, ghosts>>
  \/ /\ Put(c)
     /\ ghosts < MaxGhosts /\ ghosts' = ghosts + 1

\* The write c computes from the object it has read, and its end.
Prepare(c, new) ==
  /\ tag' = [tag EXCEPT ![c] = obj]
  /\ draft' = [draft EXCEPT ![c] = new]
Settle(c) ==
  /\ tag' = [tag EXCEPT ![c] = Missing]
  /\ draft' = [draft EXCEPT ![c] = Missing]

\* The loop over attempts: the next one begins with a new reservation.
Retry(c) ==
  IF attempt[c] < MaxAttempts
  THEN Goto(c, "reserve") /\ attempt' = [attempt EXCEPT ![c] = @ + 1]
  ELSE Goto(c, "failed") /\ UNCHANGED attempt

\* An attempt fails, at the model or because the limiter is unavailable (no
\* call without a slot); whether it is repeated depends on the error's text.
AttemptFails(c) == Retry(c) \/ (Goto(c, "failed") /\ UNCHANGED attempt)

------------------------------------------------------------------------------
(***************************************************************************)
(* _reserve_shared_vertex_slot                                             *)
(***************************************************************************)
\* A stored time in the past, or too far ahead to be believed, is ignored.
Usable(t) == now <= t /\ t <= now + MaxQueue

Later(s, t) == IF s < t THEN t ELSE s

FirstFree ==
  Later(IF Usable(obj.next) THEN obj.next ELSE now,
        IF Usable(obj.cooldown) THEN obj.cooldown ELSE now)

ReserveRead(c) ==
  /\ position[c] = "reserve"
  /\ Prepare(c, [obj EXCEPT !.next = FirstFree + Interval])
  /\ Goto(c, "reserving")
  /\ UNCHANGED <<now, obj, slot, tries, attempt, calls, ghosts>>

ReserveLands(c) ==
  /\ position[c] = "reserving"
  /\ Put(c)
  /\ slot' = [slot EXCEPT ![c] = draft[c].next - Interval]
  /\ tries' = [tries EXCEPT ![c] = 0]
  /\ Goto(c, "asleep")
  /\ Settle(c)
  /\ UNCHANGED <<now, attempt, calls, ghosts>>

\* Seeded fault: the loop without its limit.
TryAgain_Forever(c) == tries' = [tries EXCEPT ![c] = @ + 1]

TryAgain(c) ==
  /\ tries[c] + 1 < MaxTries
  /\ tries' = [tries EXCEPT ![c] = @ + 1]
LastTry(c) == tries[c] + 1 >= MaxTries /\ tries' = [tries EXCEPT ![c] = 0]

\* A conflict, real or reported for a put the SDK had repeated.
Rejected(c) == PutFails(c) /\ obj' # tag[c]

ReserveConflict(c) ==
  /\ position[c] = "reserving"
  /\ Rejected(c)
  /\ \/ TryAgain(c) /\ Goto(c, "reserve") /\ UNCHANGED attempt
     \/ LastTry(c) /\ Goto(c, "failed") /\ UNCHANGED attempt
  /\ Settle(c)
  /\ UNCHANGED <<now, slot, calls>>

ReserveError(c) ==
  /\ \/ position[c] = "reserve" /\ UNCHANGED <<obj, ghosts>>
     \/ position[c] = "reserving" /\ PutFails(c)
  /\ tries' = [tries EXCEPT ![c] = 0]
  /\ AttemptFails(c)
  /\ Settle(c)
  /\ UNCHANGED <<now, slot, calls>>

------------------------------------------------------------------------------
(***************************************************************************)
(* acquire_openrouter_slot: sleep until the slot, then look for a cooldown *)
(***************************************************************************)
\* Seeded fault: the caller does not sleep until its slot.
Due_AtOnce(c) == TRUE

Due(c) == slot[c] <= now

Wake(c) ==
  /\ position[c] = "asleep" /\ Due(c)
  /\ Goto(c, "check")
  /\ UNCHANGED <<now, obj, pendingVars, slot, attempt, calls, ghosts>>

\* The slot is used, or was in vain.
Leave(c) == slot' = [slot EXCEPT ![c] = 0]

Check(c) ==
  /\ position[c] = "check"
  /\ IF obj.cooldown <= now THEN Goto(c, "call") /\ UNCHANGED slot
                            ELSE Goto(c, "reserve") /\ Leave(c)
  /\ UNCHANGED <<now, obj, pendingVars, attempt, calls, ghosts>>

CheckError(c) ==
  /\ position[c] = "check"
  /\ AttemptFails(c) /\ Leave(c)
  /\ UNCHANGED <<now, obj, pendingVars, calls, ghosts>>

------------------------------------------------------------------------------
(***************************************************************************)
(* The call, and what a 429 does (_extend_shared_vertex_cooldown).         *)
(***************************************************************************)
Called(c) ==
  /\ position[c] = "call"
  /\ calls' = calls + 1
  /\ Leave(c)
  /\ UNCHANGED <<now, obj, pendingVars, ghosts>>

CallOk(c) == Called(c) /\ Goto(c, "done") /\ UNCHANGED attempt
CallFails(c) == Called(c) /\ AttemptFails(c)
Call429(c) == Called(c) /\ Goto(c, "publish") /\ UNCHANGED attempt

\* 429s closer together than MaxDelay count as consecutive.
Count429 ==
  LET previous == IF now - obj.last429 > MaxDelay THEN 0 ELSE obj.count
  IN  IF previous < 16 THEN previous + 1 ELSE 16
Delay(count) ==
  LET doubled == Base * 2 ^ (count - 1)
  IN  IF doubled \in 1..MaxDelay THEN doubled ELSE MaxDelay

\* The queue of slots goes on after the cooldown.
Pushed(cooldown) == Later(IF obj.next = 0 THEN now ELSE obj.next, cooldown)

Extended ==
  LET cooldown == Later(obj.cooldown, now + Delay(Count429))
  IN  [next |-> Pushed(cooldown), cooldown |-> cooldown,
       last429 |-> now, count |-> Count429]

PublishRead(c) ==
  /\ position[c] = "publish"
  /\ Prepare(c, Extended)
  /\ Goto(c, "publishing")
  /\ UNCHANGED <<now, obj, slot, tries, attempt, calls, ghosts>>

PublishLands(c) ==
  /\ position[c] = "publishing"
  /\ Put(c)
  /\ tries' = [tries EXCEPT ![c] = 0]
  /\ Retry(c)
  /\ Settle(c)
  /\ UNCHANGED <<now, slot, calls, ghosts>>

PublishConflict(c) ==
  /\ position[c] = "publishing"
  /\ Rejected(c)
  /\ \/ TryAgain(c) /\ Goto(c, "publish") /\ UNCHANGED attempt
     \/ LastTry(c) /\ Retry(c)
  /\ Settle(c)
  /\ UNCHANGED <<now, slot, calls>>

\* A cooldown that cannot be published is only logged.
PublishError(c) ==
  /\ \/ position[c] = "publish" /\ UNCHANGED <<obj, ghosts>>
     \/ position[c] = "publishing" /\ PutFails(c)
  /\ tries' = [tries EXCEPT ![c] = 0]
  /\ Retry(c)
  /\ Settle(c)
  /\ UNCHANGED <<now, slot, calls>>

\* The job is cancelled or its process killed.
Kill(c) ==
  /\ position[c] \notin Ended
  /\ IF position[c] \in {"reserving", "publishing"} THEN PutFails(c)
                                              ELSE UNCHANGED <<obj, ghosts>>
  /\ Goto(c, "failed")
  /\ Settle(c) /\ tries' = [tries EXCEPT ![c] = 0]
  /\ Leave(c)
  /\ UNCHANGED <<now, attempt, calls>>

Tick ==
  /\ now < MaxTime
  /\ \E c \in Callers : position[c] \notin Ended
  /\ now' = now + 1
  /\ UNCHANGED <<obj, position, pendingVars, slot, attempt, calls, ghosts>>

Step(c) ==
  \/ ReserveRead(c) \/ ReserveLands(c) \/ ReserveConflict(c)
  \/ Wake(c) \/ Check(c) \/ CallOk(c) \/ Call429(c)
  \/ PublishRead(c) \/ PublishLands(c) \/ PublishConflict(c)

Fault(c) ==
  ReserveError(c) \/ CheckError(c) \/ CallFails(c) \/ PublishError(c) \/ Kill(c)

LimiterNext == Tick \/ \E c \in Callers : Step(c) \/ Fault(c)

LimiterSpec == LimiterInit /\ [][LimiterNext]_limiterVars

------------------------------------------------------------------------------
(***************************************************************************)
(* Properties                                                              *)
(***************************************************************************)
\* "Atomically reserve one globally paced request slot in S3": the slots that
\* two requests hold are an interval apart, whatever races, cooldowns and
\* repeated writes there were between their reservations.
SlotsSpaced ==
  \A c, d \in Callers :
    c # d /\ slot[c] # 0 /\ slot[d] # 0 /\ slot[c] <= slot[d]
      => slot[c] + Interval <= slot[d]

\* All workers together call the model no more often than once in an interval
\* on average since the first slot, every attempt of a request counted.
RateBound == calls * Interval <= now - 1 + Interval

\* Nobody waits longer than the longest cooldown and the slots of the other
\* callers, so that the queue is never taken for garbage: a cooldown pushes
\* the slots behind it and wasted slots do not pile up.
QueueBelieved == obj.next <= now + MaxQueue

\* A reservation computed before a 429 was published never erases its
\* cooldown, nor does a second 429 shorten it.
CooldownNeverShrinks == [][obj'.cooldown >= obj.cooldown]_limiterVars
==============================================================================
