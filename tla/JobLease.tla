------------------------------- MODULE JobLease ------------------------------
(***************************************************************************)
(* The S3 conditional-write lease of one SQS job (job_lease.py), as the    *)
(* worker uses it: process_message acquires it in one thread, the          *)
(* visibility heartbeat renews it in another, and the `finally' of         *)
(* process_message releases it.  Every S3 call is a step of its own, and   *)
(* the value it was computed from is kept until it lands.                  *)
(*                                                                         *)
(* An owner is one call of process_message: JobLease.__init__ draws a      *)
(* fresh uuid for each.  The ETag of the lease object is its body: that is *)
(* what S3 computes it from, and two writes with one body are one state.   *)
(* Each host's clock is `now' plus a constant offset of at most Skew.      *)
(***************************************************************************)
EXTENDS Naturals

CONSTANTS
  Owners,    \* calls of process_message for this job
  NoOwner,   \* not an owner: an absent object, a call without an ETag
  Duration,  \* JobLease.duration
  Skew,      \* how far two hosts' clocks may be apart
  MaxTries,  \* rounds of acquire (20 in the code)
  MaxTime    \* bound of the clock in the model

ASSUME LeaseAssumption ==
  /\ NoOwner \notin Owners
  /\ Duration \in Nat \ {0}
  /\ Skew \in Nat
  /\ MaxTries \in Nat \ {0}
  /\ MaxTime \in Nat

VARIABLES
  now,        \* real time
  offset,     \* offset[o]: time.time() on o's host is now + offset[o]
  lease,      \* the lease object, or Absent
  main,       \* where the thread that acquires and releases is
  renewer,    \* where the heartbeat's renew thread is
  mainTag,    \* the ETag the main thread's pending write is conditional on
  mainStamp,  \* the expires_at in that write
  renewTag,   \* the same two for the renew thread
  renewStamp,
  tries,      \* rounds of the loop in acquire
  cancelled,  \* SIGTERM arrived while acquire was running
  until       \* expires_at of the last write whose success the owner saw

s3LeaseVars == <<now, offset, lease, main, renewer, mainTag, mainStamp,
                 renewTag, renewStamp, tries, cancelled, until>>

Absent == [owner |-> NoOwner, expires |-> 0]
LeaseBody == [owner : Owners, expires : Nat]
MaybeLease == LeaseBody \cup {Absent}

MainState == {"new", "create", "read", "steal", "held", "release", "free",
              "done", "dead"}
RenewState == {"off", "begun", "write", "lost", "aborted"}
Acquiring == {"create", "read", "steal"}

LeaseTypeOK ==
  /\ now \in Nat
  /\ offset \in [Owners -> 0..Skew]
  /\ lease \in MaybeLease
  /\ main \in [Owners -> MainState]
  /\ renewer \in [Owners -> RenewState]
  /\ mainTag \in [Owners -> MaybeLease]
  /\ mainStamp \in [Owners -> Nat]
  /\ renewTag \in [Owners -> MaybeLease]
  /\ renewStamp \in [Owners -> Nat]
  /\ tries \in [Owners -> 0..MaxTries]
  /\ cancelled \in [Owners -> BOOLEAN]
  /\ until \in [Owners -> Nat]

S3LeaseInit ==
  /\ now = 1
  /\ offset \in [Owners -> 0..Skew]
  /\ lease = Absent
  /\ main = [o \in Owners |-> "new"]
  /\ renewer = [o \in Owners |-> "off"]
  /\ mainTag = [o \in Owners |-> Absent]
  /\ mainStamp = [o \in Owners |-> 0]
  /\ renewTag = [o \in Owners |-> Absent]
  /\ renewStamp = [o \in Owners |-> 0]
  /\ tries = [o \in Owners |-> 0]
  /\ cancelled = [o \in Owners |-> FALSE]
  /\ until = [o \in Owners |-> 0]

Clock(o) == now + offset[o]
NewStamp(o) == Clock(o) + Duration
Body(o, expires) == [owner |-> o, expires |-> expires]

clocks == <<now, offset>>
renewVars == <<renewer, renewTag, renewStamp>>
mainCall == <<mainTag, mainStamp, tries>>

(***************************************************************************)
(* S3: a conditional put lands only on the object it was computed from     *)
(* (If-Match), or on no object (If-None-Match: tag = Absent).              *)
(***************************************************************************)
\* Seeded fault: a plain put, without IfMatch or IfNoneMatch.
Put_Unconditional(o, stamp, tag) == lease' = Body(o, stamp)

Put(o, stamp, tag) ==
  /\ lease = tag
  /\ lease' = Body(o, stamp)

\* The put raises something other than a conflict, after or before landing.
PutMaybe(o, stamp, tag) == Put(o, stamp, tag) \/ UNCHANGED lease

------------------------------------------------------------------------------
(***************************************************************************)
(* acquire                                                                 *)
(***************************************************************************)
\* acquire returned True.  If the task was cancelled meanwhile the thread
\* still ran to the end, and nobody is left to call release.
Granted(o) ==
  /\ until' = [until EXCEPT ![o] = mainStamp[o]]
  /\ main' = [main EXCEPT ![o] = IF cancelled[o] THEN "done" ELSE "held"]

Start(o) ==
  /\ main[o] = "new"
  /\ main' = [main EXCEPT ![o] = "create"]
  /\ mainTag' = [mainTag EXCEPT ![o] = Absent]
  /\ mainStamp' = [mainStamp EXCEPT ![o] = NewStamp(o)]
  /\ UNCHANGED <<clocks, lease, renewVars, tries, cancelled, until>>

CreateLands(o) ==
  /\ main[o] = "create"
  /\ Put(o, mainStamp[o], mainTag[o])
  /\ Granted(o)
  /\ UNCHANGED <<clocks, renewVars, mainCall, cancelled>>

\* 412, because the object exists or because the SDK repeated a put that had
\* already landed: in both cases acquire goes on to read.
CreateConflict(o) ==
  /\ main[o] = "create"
  /\ \/ lease # Absent /\ UNCHANGED lease
     \/ Put(o, mainStamp[o], mainTag[o])
  /\ main' = [main EXCEPT ![o] = "read"]
  /\ UNCHANGED <<clocks, renewVars, mainCall, cancelled, until>>

\* Seeded fault: a lease about to expire counts as expired.
Takeable_Early(o) == lease.expires <= Clock(o) + Skew + 1

Takeable(o) == lease.expires <= Clock(o)

ReadUnexpired(o) ==
  /\ main[o] = "read"
  /\ ~Takeable(o)
  /\ main' = [main EXCEPT ![o] = "done"]
  /\ UNCHANGED <<clocks, lease, renewVars, mainCall, cancelled, until>>

ReadExpired(o) ==
  /\ main[o] = "read"
  /\ Takeable(o)
  /\ main' = [main EXCEPT ![o] = "steal"]
  /\ mainTag' = [mainTag EXCEPT ![o] = lease]
  /\ mainStamp' = [mainStamp EXCEPT ![o] = NewStamp(o)]
  /\ UNCHANGED <<clocks, lease, renewVars, tries, cancelled, until>>

StealLands(o) ==
  /\ main[o] = "steal"
  /\ Put(o, mainStamp[o], mainTag[o])
  /\ Granted(o)
  /\ UNCHANGED <<clocks, renewVars, mainCall, cancelled>>

\* Seeded fault: the loop of acquire without its limit.
MayRetry_Forever(o) == TRUE

MayRetry(o) == tries[o] + 1 < MaxTries

StealConflict(o) ==
  /\ main[o] = "steal"
  /\ \/ lease # mainTag[o] /\ UNCHANGED lease
     \/ Put(o, mainStamp[o], mainTag[o])
  /\ tries' = [tries EXCEPT ![o] = @ + 1]
  /\ IF MayRetry(o)
     THEN /\ main' = [main EXCEPT ![o] = "create"]
          /\ mainTag' = [mainTag EXCEPT ![o] = Absent]
          /\ mainStamp' = [mainStamp EXCEPT ![o] = NewStamp(o)]
     ELSE /\ main' = [main EXCEPT ![o] = "done"]
          /\ UNCHANGED <<mainTag, mainStamp>>
  /\ UNCHANGED <<clocks, renewVars, cancelled, until>>

\* Any other S3 error leaves acquire, outside the try whose finally releases.
AcquireError(o) ==
  /\ \/ main[o] = "read" /\ UNCHANGED lease
     \/ main[o] \in {"create", "steal"} /\ PutMaybe(o, mainStamp[o], mainTag[o])
  /\ main' = [main EXCEPT ![o] = "done"]
  /\ UNCHANGED <<clocks, renewVars, mainCall, cancelled, until>>

\* SIGTERM cancels the await of to_thread(lease.acquire), not the thread.
CancelAcquire(o) ==
  /\ main[o] \in Acquiring /\ ~cancelled[o]
  /\ cancelled' = [cancelled EXCEPT ![o] = TRUE]
  /\ UNCHANGED <<clocks, lease, main, renewVars, mainCall, until>>

------------------------------------------------------------------------------
(***************************************************************************)
(* renew, in the heartbeat's thread.  Cancelling the heartbeat does not    *)
(* stop a renew that has begun.                                            *)
(***************************************************************************)
\* Seeded fault: renew does not compare the owner.
Mine_AnyOwner(o) == lease # Absent

Mine(o) == lease.owner = o

RenewBegin(o) ==
  /\ main[o] = "held" /\ renewer[o] = "off"
  /\ renewer' = [renewer EXCEPT ![o] = "begun"]
  /\ UNCHANGED <<clocks, lease, main, mainCall, renewTag, renewStamp,
                 cancelled, until>>

RenewRead(o) ==
  /\ renewer[o] = "begun"
  /\ Mine(o)
  /\ renewer' = [renewer EXCEPT ![o] = "write"]
  /\ renewTag' = [renewTag EXCEPT ![o] = lease]
  /\ renewStamp' = [renewStamp EXCEPT ![o] = NewStamp(o)]
  /\ UNCHANGED <<clocks, lease, main, mainCall, cancelled, until>>

RenewLands(o) ==
  /\ renewer[o] = "write"
  /\ Put(o, renewStamp[o], renewTag[o])
  /\ renewer' = [renewer EXCEPT ![o] = "off"]
  /\ until' = [until EXCEPT ![o] = renewStamp[o]]
  /\ UNCHANGED <<clocks, main, mainCall, renewTag, renewStamp, cancelled>>

\* The object names another owner, or changed since it was read.
RenewLost(o) ==
  /\ \/ renewer[o] = "begun" /\ ~Mine(o)
     \/ renewer[o] = "write" /\ lease # renewTag[o]
  /\ renewer' = [renewer EXCEPT ![o] = "lost"]
  /\ UNCHANGED <<clocks, lease, main, mainCall, renewTag, renewStamp,
                 cancelled, until>>

\* extend_job_visibility or an S3 call failed, or the SDK repeated a put that
\* had landed: the heartbeat ends in the same way, whatever the lease is.
RenewError(o) ==
  /\ \/ renewer[o] = "begun" /\ UNCHANGED lease
     \/ renewer[o] = "write" /\ PutMaybe(o, renewStamp[o], renewTag[o])
  /\ renewer' = [renewer EXCEPT ![o] = "aborted"]
  /\ UNCHANGED <<clocks, main, mainCall, renewTag, renewStamp, cancelled,
                 until>>

------------------------------------------------------------------------------
(***************************************************************************)
(* release: the workflow ended, failed, was cancelled or lost its          *)
(* heartbeat; a renew thread may still be running.                         *)
(***************************************************************************)
BeginRelease(o) ==
  /\ main[o] = "held"
  /\ main' = [main EXCEPT ![o] = "release"]
  /\ UNCHANGED <<clocks, lease, renewVars, mainCall, cancelled, until>>

ReleaseRead(o) ==
  /\ main[o] = "release"
  /\ IF Mine(o)
     THEN /\ main' = [main EXCEPT ![o] = "free"]
          /\ mainTag' = [mainTag EXCEPT ![o] = lease]
          /\ mainStamp' = [mainStamp EXCEPT ![o] = 0]
     ELSE /\ main' = [main EXCEPT ![o] = "done"]
          /\ UNCHANGED <<mainTag, mainStamp>>
  /\ UNCHANGED <<clocks, lease, renewVars, tries, cancelled, until>>

\* A conflict is ignored; any other error is logged by process_message.
ReleaseWrite(o) ==
  /\ main[o] = "free"
  /\ \/ Put(o, mainStamp[o], mainTag[o])
     \/ lease # mainTag[o] /\ UNCHANGED lease
  /\ main' = [main EXCEPT ![o] = "done"]
  /\ UNCHANGED <<clocks, renewVars, mainCall, cancelled, until>>

ReleaseError(o) ==
  /\ main[o] \in {"release", "free"}
  /\ main' = [main EXCEPT ![o] = "done"]
  /\ UNCHANGED <<clocks, lease, renewVars, mainCall, cancelled, until>>

------------------------------------------------------------------------------
(***************************************************************************)
(* The environment: a killed process, whose puts in flight may still land, *)
(* the bucket's lifecycle rule for old lease objects, and time.            *)
(***************************************************************************)
OwnerDies(o) ==
  /\ main[o] \notin {"new", "done", "dead"}
  /\ \/ UNCHANGED lease
     \/ main[o] \in {"create", "steal", "free"}
        /\ Put(o, mainStamp[o], mainTag[o])
     \/ renewer[o] = "write" /\ Put(o, renewStamp[o], renewTag[o])
  /\ main' = [main EXCEPT ![o] = "dead"]
  /\ renewer' = [renewer EXCEPT ![o] = "off"]
  /\ UNCHANGED <<clocks, mainCall, renewTag, renewStamp, cancelled, until>>

LifecycleExpiry ==
  /\ lease # Absent /\ lease.expires + Skew < now
  /\ lease' = Absent
  /\ UNCHANGED <<clocks, main, renewVars, mainCall, cancelled, until>>

TimePasses ==
  /\ now < MaxTime
  /\ now' = now + 1
  /\ UNCHANGED <<offset, lease, main, renewVars, mainCall, cancelled, until>>

Step(o) ==
  \/ Start(o) \/ CreateLands(o) \/ CreateConflict(o)
  \/ ReadUnexpired(o) \/ ReadExpired(o)
  \/ StealLands(o) \/ StealConflict(o)
  \/ RenewBegin(o) \/ RenewRead(o) \/ RenewLands(o) \/ RenewLost(o)
  \/ BeginRelease(o) \/ ReleaseRead(o) \/ ReleaseWrite(o)

OwnerFault(o) ==
  \/ AcquireError(o) \/ CancelAcquire(o) \/ RenewError(o)
  \/ ReleaseError(o) \/ OwnerDies(o)

S3LeaseNext ==
  \/ TimePasses \/ LifecycleExpiry
  \/ \E o \in Owners : Step(o) \/ OwnerFault(o)

S3LeaseSpec == S3LeaseInit /\ [][S3LeaseNext]_s3LeaseVars

------------------------------------------------------------------------------
(***************************************************************************)
(* Properties                                                              *)
(***************************************************************************)
\* The owner has the lease and, whatever the other hosts' clocks say, its
\* last confirmed expiry is still ahead.
Secure(o) == main[o] = "held" /\ now + Skew < until[o]

\* Two calls of process_message never both hold an unexpired lease: the check
\* of expires_at, the ETag of the object it was read from and the stamps of
\* acquire and renew together keep a second worker out (job_lease.py acquire,
\* renew), with SDK repeats, crashes and clocks up to Skew apart.
LeaseExclusion == \A o, p \in Owners : Secure(o) /\ Secure(p) => o = p

\* renew reports "ownership was lost", which cancels a running workflow, only
\* when the lease had really run out: no interleaving of other workers'
\* acquires makes a healthy heartbeat fail.
LostMeansExpired ==
  \A o \in Owners : main[o] = "held" /\ renewer[o] = "lost" => ~Secure(o)

\* Once another process has the object, a call that held the lease never
\* writes it again, neither by a renew nor by a release still in flight.
SupersededStaysOut ==
  [][\A o \in Owners :
       main[o] \in {"held", "release", "free"} /\ lease.owner # o
         => lease'.owner # o]_s3LeaseVars

\* "Make an unfinished message immediately retryable during worker shutdown"
\* (queue.py): once release has written expires_at 0, the finished call does
\* not make its lease unexpired again.  The renew thread of a cancelled
\* heartbeat does: renew compares the owner, which release leaves in place.
ReleasedStaysFree ==
  [][\A o \in Owners :
       main[o] = "done" /\ lease = Body(o, 0)
         => lease'.owner # o \/ lease'.expires = 0]_s3LeaseVars

(***************************************************************************)
(* JobLease implements LeaseLock: the holder is the owner of an object     *)
(* that no host's clock can see as expired.                                *)
(***************************************************************************)
Holder == IF now + Skew < lease.expires THEN lease.owner ELSE NoOwner

Lock == INSTANCE LeaseLock WITH holder <- Holder

\* The lease passes from one process to another only through a moment at
\* which nobody can be displaced (LeaseLock).
ImplementsLeaseLock == Lock!LeaseSpec
==============================================================================
