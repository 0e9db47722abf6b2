-------------------------- MODULE JobPipeline_proofs --------------------------
(***************************************************************************)
(* Why no job runs twice at once, from the S3 object up.                   *)
(*                                                                         *)
(* The first part is about JobLease: for every set of owners, lease        *)
(* duration, clock skew and retry limit the conditional writes exclude two *)
(* unexpired holders, and implement the abstract lock LeaseLock.           *)
(*                                                                         *)
(* The second part is about JobPipeline, whose lease implements the same   *)
(* lock: that two workers never run one job together, for any number of    *)
(* workers and any faults, and what an outcome that was stored means       *)
(* afterwards.  Exclusion needs the timing: a lease that a live worker     *)
(* holds is renewed in every tick and lasts for more than one.  The rest   *)
(* follows from exclusion and from what a worker knows of the status       *)
(* object, as long as a failed read of it is not taken for "no status".    *)
(*                                                                         *)
(* The two modules share no variable; what they share is LeaseLock.        *)
(***************************************************************************)
EXTENDS JobPipeline, JobLease, TLAPS

------------------------------------------------------------------------------
(***************************************************************************)
(* The lease object (JobLease)                                             *)
(***************************************************************************)
\* Every expiry an owner wrote, or is about to write, is at most one duration
\* ahead of its own clock.
StampsBounded ==
  \A o \in Owners :
    /\ lease.owner = o => lease.expires <= NewStamp(o)
    /\ main[o] \in {"create", "steal", "free"} => mainStamp[o] <= NewStamp(o)
    /\ renewer[o] = "write" => renewStamp[o] <= NewStamp(o)

\* What the condition of each write in flight says.
TagsMeaning ==
  \A o \in Owners :
    /\ main[o] = "create" => mainTag[o] = Absent
    /\ main[o] = "steal" => mainTag[o].expires <= now + Skew
    /\ main[o] = "free" => mainTag[o].owner = o /\ mainStamp[o] = 0
    /\ renewer[o] = "write" => /\ renewTag[o].owner = o
                               /\ renewTag[o].expires <= renewStamp[o]

\* A secure owner's lease is in the store, at least as long as it believes,
\* and a renew it has in flight is conditional on that very object.
SecureStored ==
  \A o \in Owners : Secure(o) =>
    /\ lease.owner = o
    /\ until[o] <= lease.expires
    /\ renewer[o] = "write" => lease = renewTag[o]
    /\ renewer[o] # "lost"

\* Control: the heartbeat starts after the lease is granted, and a round of
\* acquire is begun only below the limit.
ControlOK ==
  \A o \in Owners :
    /\ main[o] \in {"new", "create", "read", "steal"} => renewer[o] = "off"
    /\ main[o] \in {"new", "create", "read", "steal"} => tries[o] < MaxTries

LeaseIInv ==
  /\ LeaseTypeOK /\ ControlOK
  /\ StampsBounded /\ TagsMeaning /\ SecureStored

------------------------------------------------------------------------------
USE LeaseAssumption

\* Every step of the program keeps the types, the bound on the rounds of
\* acquire, and the order "granted, then heartbeat".
LEMMA LeaseTypeStep ==
  ASSUME LeaseTypeOK, ControlOK, [S3LeaseNext]_s3LeaseVars
  PROVE  LeaseTypeOK' /\ ControlOK'
<1> USE DEF LeaseTypeOK, ControlOK, MaybeLease, LeaseBody, Absent, MainState,
            RenewState, Body, Clock, NewStamp, clocks, renewVars, mainCall
<1>1. ASSUME NEW o \in Owners, Start(o) PROVE LeaseTypeOK' /\ ControlOK'
  BY <1>1 DEF Start
<1>2. ASSUME NEW o \in Owners, CreateLands(o) PROVE LeaseTypeOK' /\ ControlOK'
  BY <1>2 DEF CreateLands, Put, Granted
<1>3. ASSUME NEW o \in Owners, CreateConflict(o) PROVE LeaseTypeOK' /\ ControlOK'
  BY <1>3 DEF CreateConflict, Put
<1>4. ASSUME NEW o \in Owners, ReadUnexpired(o) PROVE LeaseTypeOK' /\ ControlOK'
  BY <1>4 DEF ReadUnexpired
<1>5. ASSUME NEW o \in Owners, ReadExpired(o) PROVE LeaseTypeOK' /\ ControlOK'
  BY <1>5 DEF ReadExpired
<1>6. ASSUME NEW o \in Owners, StealLands(o) PROVE LeaseTypeOK' /\ ControlOK'
  BY <1>6 DEF StealLands, Put, Granted
<1>7. ASSUME NEW o \in Owners, StealConflict(o) PROVE LeaseTypeOK' /\ ControlOK'
  <2>1. tries[o] < MaxTries /\ tries[o] \in Nat
    BY <1>7 DEF StealConflict
  <2>2. lease' \in MaybeLease /\ mainStamp[o] \in Nat
    BY <1>7 DEF StealConflict, Put
  <2>3. CASE MayRetry(o)
    <3>1. tries[o] + 1 \in 0..MaxTries /\ tries[o] + 1 < MaxTries
      BY <2>1, <2>3 DEF MayRetry
    <3>2. NewStamp(o) \in Nat
      OBVIOUS
    <3>3. /\ tries' = [tries EXCEPT ![o] = tries[o] + 1]
          /\ main' = [main EXCEPT ![o] = "create"]
          /\ mainTag' = [mainTag EXCEPT ![o] = Absent]
          /\ mainStamp' = [mainStamp EXCEPT ![o] = NewStamp(o)]
          /\ UNCHANGED <<now, offset, renewer, renewTag, renewStamp,
                         cancelled, until>>
      BY <1>7, <2>3 DEF StealConflict
    <3>4. LeaseTypeOK'
      BY <2>2, <3>1, <3>2, <3>3
    <3>5. ControlOK'
      BY <1>7, <3>1, <3>3 DEF StealConflict
    <3> QED
      BY <3>4, <3>5
  <2>4. CASE ~MayRetry(o)
    <3>1. tries[o] + 1 \in 0..MaxTries
      BY <2>1
    <3>2. /\ tries' = [tries EXCEPT ![o] = tries[o] + 1]
          /\ main' = [main EXCEPT ![o] = "done"]
          /\ UNCHANGED <<now, offset, mainTag, mainStamp, renewer, renewTag,
                         renewStamp, cancelled, until>>
      BY <1>7, <2>4 DEF StealConflict
    <3> QED
      BY <2>2, <3>1, <3>2
  <2> QED
    BY <2>3, <2>4
<1>8. ASSUME NEW o \in Owners, RenewBegin(o) PROVE LeaseTypeOK' /\ ControlOK'
  BY <1>8 DEF RenewBegin
<1>9. ASSUME NEW o \in Owners, RenewRead(o) PROVE LeaseTypeOK' /\ ControlOK'
  BY <1>9 DEF RenewRead, Mine
<1>10. ASSUME NEW o \in Owners, RenewLands(o) PROVE LeaseTypeOK' /\ ControlOK'
  BY <1>10 DEF RenewLands, Put
<1>11. ASSUME NEW o \in Owners, RenewLost(o) PROVE LeaseTypeOK' /\ ControlOK'
  BY <1>11 DEF RenewLost, Mine
<1>12. ASSUME NEW o \in Owners, BeginRelease(o) PROVE LeaseTypeOK' /\ ControlOK'
  BY <1>12 DEF BeginRelease
<1>13. ASSUME NEW o \in Owners, ReleaseRead(o) PROVE LeaseTypeOK' /\ ControlOK'
  BY <1>13 DEF ReleaseRead, Mine
<1>14. ASSUME NEW o \in Owners, ReleaseWrite(o) PROVE LeaseTypeOK' /\ ControlOK'
  BY <1>14 DEF ReleaseWrite, Put
<1>15. ASSUME NEW o \in Owners, AcquireError(o) PROVE LeaseTypeOK' /\ ControlOK'
  BY <1>15 DEF AcquireError, Put, PutMaybe
<1>16. ASSUME NEW o \in Owners, CancelAcquire(o) PROVE LeaseTypeOK' /\ ControlOK'
  BY <1>16 DEF CancelAcquire, Acquiring
<1>17. ASSUME NEW o \in Owners, RenewError(o) PROVE LeaseTypeOK' /\ ControlOK'
  BY <1>17 DEF RenewError, Put, PutMaybe
<1>18. ASSUME NEW o \in Owners, ReleaseError(o) PROVE LeaseTypeOK' /\ ControlOK'
  BY <1>18 DEF ReleaseError
<1>19. ASSUME NEW o \in Owners, OwnerDies(o) PROVE LeaseTypeOK' /\ ControlOK'
  BY <1>19 DEF OwnerDies, Put
<1>20. CASE TimePasses
  BY <1>20 DEF TimePasses
<1>21. CASE LifecycleExpiry
  BY <1>21 DEF LifecycleExpiry
<1>22. CASE UNCHANGED s3LeaseVars
  BY <1>22 DEF s3LeaseVars
<1> QED
  BY <1>1, <1>2, <1>3, <1>4, <1>5, <1>6, <1>7, <1>8, <1>9, <1>10, <1>11,
     <1>12, <1>13, <1>14, <1>15, <1>16, <1>17, <1>18, <1>19, <1>20, <1>21,
     <1>22 DEF S3LeaseNext, Step, OwnerFault

------------------------------------------------------------------------------
\* Before the first call of process_message every pending write is the empty
\* one and nobody is secure.
LEMMA LeaseInvInit == S3LeaseInit => LeaseIInv
BY DEF S3LeaseInit, LeaseIInv, LeaseTypeOK, StampsBounded, TagsMeaning,
       SecureStored, ControlOK,
       Secure, MaybeLease, LeaseBody, Absent, MainState, RenewState, Clock,
       NewStamp

\* A step of an owner keeps the meaning of every pending write and of every
\* secure lease: who writes was the last owner, or saw that the lease had run
\* out for every clock.
LEMMA LeaseInvStep == LeaseIInv /\ [S3LeaseNext]_s3LeaseVars => LeaseIInv'
<1> SUFFICES ASSUME LeaseIInv, [S3LeaseNext]_s3LeaseVars PROVE LeaseIInv'
  OBVIOUS
<1> USE DEF LeaseIInv, Secure, LeaseTypeOK, MaybeLease, LeaseBody, Absent, Body,
            clocks, renewVars, mainCall, Clock, NewStamp
<1>a. LeaseTypeOK' /\ ControlOK'
  BY LeaseTypeStep
<1>b. \A o \in Owners : Clock(o) \in Nat /\ Clock(o) <= now + Skew
  OBVIOUS
<1>c. NoOwner \notin Owners
  OBVIOUS
<1>1. ASSUME NEW o \in Owners, Start(o) PROVE LeaseIInv'
  <2>1. StampsBounded'
    BY <1>1, <1>c DEF Start, StampsBounded, TagsMeaning
  <2>2. TagsMeaning'
    BY <1>1, <1>b DEF Start, StampsBounded, TagsMeaning
  <2>3. SecureStored'
    BY <1>1, <1>c DEF Start, TagsMeaning, SecureStored,
       ControlOK
  <2> QED
    BY <1>a, <2>1, <2>2, <2>3
<1>2. ASSUME NEW o \in Owners, CreateLands(o) PROVE LeaseIInv'
  <2>1. StampsBounded'
    BY <1>2, <1>c DEF CreateLands, Put, Granted, StampsBounded, TagsMeaning
  <2>2. TagsMeaning'
    BY <1>2, <1>b DEF CreateLands, Put, Granted, StampsBounded, TagsMeaning
  <2>3. SecureStored'
    BY <1>2, <1>c DEF CreateLands, Put, Granted, TagsMeaning, SecureStored,
       ControlOK
  <2> QED
    BY <1>a, <2>1, <2>2, <2>3
<1>3. ASSUME NEW o \in Owners, CreateConflict(o) PROVE LeaseIInv'
  <2>1. StampsBounded'
    BY <1>3, <1>c DEF CreateConflict, Put, StampsBounded, TagsMeaning
  <2>2. TagsMeaning'
    BY <1>3, <1>b DEF CreateConflict, Put, StampsBounded, TagsMeaning
  <2>3. SecureStored'
    BY <1>3, <1>c DEF CreateConflict, Put, TagsMeaning, SecureStored,
       ControlOK
  <2> QED
    BY <1>a, <2>1, <2>2, <2>3
<1>4. ASSUME NEW o \in Owners, ReadUnexpired(o) PROVE LeaseIInv'
  <2>1. StampsBounded'
    BY <1>4, <1>c DEF ReadUnexpired, StampsBounded, TagsMeaning
  <2>2. TagsMeaning'
    BY <1>4, <1>b DEF ReadUnexpired, StampsBounded, TagsMeaning
  <2>3. SecureStored'
    BY <1>4, <1>c DEF ReadUnexpired, TagsMeaning, SecureStored,
       ControlOK
  <2> QED
    BY <1>a, <2>1, <2>2, <2>3
<1>5. ASSUME NEW o \in Owners, ReadExpired(o) PROVE LeaseIInv'
  <2>1. StampsBounded'
    BY <1>5, <1>c DEF ReadExpired, Takeable, StampsBounded, TagsMeaning
  <2>2. TagsMeaning'
    BY <1>5, <1>b DEF ReadExpired, Takeable, StampsBounded, TagsMeaning
  <2>3. SecureStored'
    BY <1>5, <1>c DEF ReadExpired, Takeable, TagsMeaning, SecureStored,
       ControlOK
  <2> QED
    BY <1>a, <2>1, <2>2, <2>3
<1>6. ASSUME NEW o \in Owners, StealLands(o) PROVE LeaseIInv'
  <2>1. StampsBounded'
    BY <1>6, <1>c DEF StealLands, Put, Granted, StampsBounded, TagsMeaning
  <2>2. TagsMeaning'
    BY <1>6, <1>b DEF StealLands, Put, Granted, StampsBounded, TagsMeaning
  <2>3. SecureStored'
    BY <1>6, <1>c DEF StealLands, Put, Granted, TagsMeaning, SecureStored,
       ControlOK
  <2> QED
    BY <1>a, <2>1, <2>2, <2>3
<1>7. ASSUME NEW o \in Owners, StealConflict(o) PROVE LeaseIInv'
  <2>1. StampsBounded'
    BY <1>7, <1>c DEF StealConflict, Put, MayRetry, StampsBounded, TagsMeaning
  <2>2. TagsMeaning'
    BY <1>7, <1>b DEF StealConflict, Put, MayRetry, StampsBounded, TagsMeaning
  <2>3. SecureStored'
    BY <1>7, <1>c DEF StealConflict, Put, MayRetry, TagsMeaning, SecureStored,
       ControlOK
  <2> QED
    BY <1>a, <2>1, <2>2, <2>3
<1>8. ASSUME NEW o \in Owners, RenewBegin(o) PROVE LeaseIInv'
  <2>1. StampsBounded'
    BY <1>8, <1>c DEF RenewBegin, StampsBounded, TagsMeaning
  <2>2. TagsMeaning'
    BY <1>8, <1>b DEF RenewBegin, StampsBounded, TagsMeaning
  <2>3. SecureStored'
    BY <1>8, <1>c DEF RenewBegin, TagsMeaning, SecureStored,
       ControlOK
  <2> QED
    BY <1>a, <2>1, <2>2, <2>3
<1>9. ASSUME NEW o \in Owners, RenewRead(o) PROVE LeaseIInv'
  <2>1. StampsBounded'
    BY <1>9, <1>c DEF RenewRead, Mine, StampsBounded, TagsMeaning
  <2>2. TagsMeaning'
    BY <1>9, <1>b DEF RenewRead, Mine, StampsBounded, TagsMeaning
  <2>3. SecureStored'
    BY <1>9, <1>c DEF RenewRead, Mine, TagsMeaning, SecureStored,
       ControlOK
  <2> QED
    BY <1>a, <2>1, <2>2, <2>3
<1>10. ASSUME NEW o \in Owners, RenewLands(o) PROVE LeaseIInv'
  <2>1. StampsBounded'
    BY <1>10, <1>c DEF RenewLands, Put, StampsBounded, TagsMeaning
  <2>2. TagsMeaning'
    BY <1>10, <1>b DEF RenewLands, Put, StampsBounded, TagsMeaning
  <2>3. SecureStored'
    BY <1>10, <1>c DEF RenewLands, Put, TagsMeaning, SecureStored,
       ControlOK
  <2> QED
    BY <1>a, <2>1, <2>2, <2>3
<1>11. ASSUME NEW o \in Owners, RenewLost(o) PROVE LeaseIInv'
  <2>1. StampsBounded'
    BY <1>11, <1>c DEF RenewLost, Mine, StampsBounded, TagsMeaning
  <2>2. TagsMeaning'
    BY <1>11, <1>b DEF RenewLost, Mine, StampsBounded, TagsMeaning
  <2>3. SecureStored'
    BY <1>11, <1>c DEF RenewLost, Mine, TagsMeaning, SecureStored,
       ControlOK
  <2> QED
    BY <1>a, <2>1, <2>2, <2>3
<1>12. ASSUME NEW o \in Owners, BeginRelease(o) PROVE LeaseIInv'
  <2>1. StampsBounded'
    BY <1>12, <1>c DEF BeginRelease, StampsBounded, TagsMeaning
  <2>2. TagsMeaning'
    BY <1>12, <1>b DEF BeginRelease, StampsBounded, TagsMeaning
  <2>3. SecureStored'
    BY <1>12, <1>c DEF BeginRelease, TagsMeaning, SecureStored,
       ControlOK
  <2> QED
    BY <1>a, <2>1, <2>2, <2>3
<1>13. ASSUME NEW o \in Owners, ReleaseRead(o) PROVE LeaseIInv'
  <2>1. StampsBounded'
    BY <1>13, <1>c DEF ReleaseRead, Mine, StampsBounded, TagsMeaning
  <2>2. TagsMeaning'
    BY <1>13, <1>b DEF ReleaseRead, Mine, StampsBounded, TagsMeaning
  <2>3. SecureStored'
    BY <1>13, <1>c DEF ReleaseRead, Mine, TagsMeaning, SecureStored,
       ControlOK
  <2> QED
    BY <1>a, <2>1, <2>2, <2>3
<1>14. ASSUME NEW o \in Owners, ReleaseWrite(o) PROVE LeaseIInv'
  <2>1. StampsBounded'
    BY <1>14, <1>c DEF ReleaseWrite, Put, StampsBounded, TagsMeaning
  <2>2. TagsMeaning'
    BY <1>14, <1>b DEF ReleaseWrite, Put, StampsBounded, TagsMeaning
  <2>3. SecureStored'
    BY <1>14, <1>c DEF ReleaseWrite, Put, TagsMeaning, SecureStored,
       ControlOK
  <2> QED
    BY <1>a, <2>1, <2>2, <2>3
<1>15. ASSUME NEW o \in Owners, AcquireError(o) PROVE LeaseIInv'
  <2>1. StampsBounded'
    BY <1>15, <1>c DEF AcquireError, Put, PutMaybe, StampsBounded, TagsMeaning
  <2>2. TagsMeaning'
    BY <1>15, <1>b DEF AcquireError, Put, PutMaybe, StampsBounded, TagsMeaning
  <2>3. SecureStored'
    BY <1>15, <1>c DEF AcquireError, Put, PutMaybe, TagsMeaning, SecureStored,
       ControlOK
  <2> QED
    BY <1>a, <2>1, <2>2, <2>3
<1>16. ASSUME NEW o \in Owners, CancelAcquire(o) PROVE LeaseIInv'
  <2>1. StampsBounded'
    BY <1>16, <1>c DEF CancelAcquire, Acquiring, StampsBounded, TagsMeaning
  <2>2. TagsMeaning'
    BY <1>16, <1>b DEF CancelAcquire, Acquiring, StampsBounded, TagsMeaning
  <2>3. SecureStored'
    BY <1>16, <1>c DEF CancelAcquire, Acquiring, TagsMeaning, SecureStored,
       ControlOK
  <2> QED
    BY <1>a, <2>1, <2>2, <2>3
<1>17. ASSUME NEW o \in Owners, RenewError(o) PROVE LeaseIInv'
  <2>1. StampsBounded'
    BY <1>17, <1>c DEF RenewError, Put, PutMaybe, StampsBounded, TagsMeaning
  <2>2. TagsMeaning'
    BY <1>17, <1>b DEF RenewError, Put, PutMaybe, StampsBounded, TagsMeaning
  <2>3. SecureStored'
    BY <1>17, <1>c DEF RenewError, Put, PutMaybe, TagsMeaning, SecureStored,
       ControlOK
  <2> QED
    BY <1>a, <2>1, <2>2, <2>3
<1>18. ASSUME NEW o \in Owners, ReleaseError(o) PROVE LeaseIInv'
  <2>1. StampsBounded'
    BY <1>18, <1>c DEF ReleaseError, StampsBounded, TagsMeaning
  <2>2. TagsMeaning'
    BY <1>18, <1>b DEF ReleaseError, StampsBounded, TagsMeaning
  <2>3. SecureStored'
    BY <1>18, <1>c DEF ReleaseError, TagsMeaning, SecureStored,
       ControlOK
  <2> QED
    BY <1>a, <2>1, <2>2, <2>3
<1>19. ASSUME NEW o \in Owners, OwnerDies(o) PROVE LeaseIInv'
  <2>1. StampsBounded'
    BY <1>19, <1>c DEF OwnerDies, Put, StampsBounded, TagsMeaning
  <2>2. TagsMeaning'
    BY <1>19, <1>b DEF OwnerDies, Put, StampsBounded, TagsMeaning
  <2>3. SecureStored'
    BY <1>19, <1>c DEF OwnerDies, Put, TagsMeaning, SecureStored,
       ControlOK
  <2> QED
    BY <1>a, <2>1, <2>2, <2>3
<1>20. CASE TimePasses
  BY <1>20, <1>a DEF TimePasses, StampsBounded, TagsMeaning, SecureStored
<1>21. CASE LifecycleExpiry
  BY <1>21, <1>a, <1>c DEF LifecycleExpiry, StampsBounded, TagsMeaning,
     SecureStored
<1>22. CASE UNCHANGED s3LeaseVars
  BY <1>22, <1>a DEF s3LeaseVars, StampsBounded, TagsMeaning, SecureStored
<1> QED
  BY <1>1, <1>2, <1>3, <1>4, <1>5, <1>6, <1>7, <1>8, <1>9, <1>10, <1>11,
     <1>12, <1>13, <1>14, <1>15, <1>16, <1>17, <1>18, <1>19, <1>20, <1>21,
     <1>22 DEF S3LeaseNext, Step, OwnerFault

\* The inductive invariant holds in every reachable state of the lease
\* protocol (job_lease.py, worker.py process_message and its heartbeat).
THEOREM LeaseInvariantHolds == S3LeaseSpec => []LeaseIInv
<1>1. S3LeaseInit => LeaseIInv
  BY LeaseInvInit
<1>2. LeaseIInv /\ [S3LeaseNext]_s3LeaseVars => LeaseIInv'
  BY LeaseInvStep
<1> QED
  BY <1>1, <1>2, PTL DEF S3LeaseSpec

\* LeaseTypeOK holds in every reachable state; with it, the loop of acquire never
\* runs more than MaxTries rounds.
THEOREM LeaseTypesHold == S3LeaseSpec => []LeaseTypeOK
<1>1. LeaseIInv => LeaseTypeOK
  BY DEF LeaseIInv
<1> QED
  BY <1>1, LeaseInvariantHolds, PTL

\* The lease excludes: two calls never hold an unexpired lease together, for
\* any number of workers, any duration and any clock skew (job_lease.py).
THEOREM Exclusion == S3LeaseSpec => []LeaseExclusion
<1>1. LeaseIInv => LeaseExclusion
  BY DEF LeaseIInv, SecureStored, LeaseExclusion
<1> QED
  BY <1>1, LeaseInvariantHolds, PTL

\* A heartbeat is told that the lease is lost only after it has run out.
THEOREM LossIsReal == S3LeaseSpec => []LostMeansExpired
<1>1. LeaseIInv => LostMeansExpired
  BY DEF LeaseIInv, SecureStored, LostMeansExpired
<1> QED
  BY <1>1, LeaseInvariantHolds, PTL

\* A step that changes the object writes the name of the owner taking it; the
\* three states after the lease was granted write only over their own.
THEOREM FencedOut == S3LeaseSpec => SupersededStaysOut
<1>1. ASSUME LeaseIInv, [S3LeaseNext]_s3LeaseVars, NEW o \in Owners,
             main[o] \in {"held", "release", "free"}, lease.owner # o
      PROVE  lease'.owner # o
  <2> USE DEF LeaseIInv, TagsMeaning, LeaseTypeOK, MaybeLease, LeaseBody, Absent, Body,
              Put, PutMaybe
  <2>1. ASSUME NEW p \in Owners, Step(p) PROVE lease'.owner # o
    BY <1>1, <2>1 DEF Step, Start, CreateLands, CreateConflict, ReadUnexpired,
       ReadExpired, StealLands, StealConflict, RenewBegin, RenewRead,
       RenewLands, RenewLost, BeginRelease, ReleaseRead, ReleaseWrite
  <2>2. ASSUME NEW p \in Owners, OwnerFault(p) PROVE lease'.owner # o
    BY <1>1, <2>2 DEF OwnerFault, AcquireError, CancelAcquire, RenewError,
       ReleaseError, OwnerDies
  <2>3. CASE TimePasses \/ LifecycleExpiry \/ UNCHANGED s3LeaseVars
    BY <1>1, <2>3 DEF TimePasses, LifecycleExpiry, s3LeaseVars
  <2> QED
    BY <1>1, <2>1, <2>2, <2>3 DEF S3LeaseNext
<1>2. LeaseIInv /\ [S3LeaseNext]_s3LeaseVars =>
        [\A o \in Owners :
           main[o] \in {"held", "release", "free"} /\ lease.owner # o
             => lease'.owner # o]_s3LeaseVars
  BY <1>1
<1> QED
  BY <1>2, LeaseInvariantHolds, PTL DEF S3LeaseSpec, SupersededStaysOut

\* The lease object implements the abstract lock: when it changes hands there
\* is a moment at which every host's clock sees it as expired.
THEOREM Refinement == S3LeaseSpec => ImplementsLeaseLock
<1> USE DEF LeaseIInv, LeaseTypeOK, MaybeLease, LeaseBody, Absent, Body, Put, PutMaybe
<1>1. S3LeaseInit => Lock!LeaseInit
  BY DEF S3LeaseInit, Lock!LeaseInit, Holder
<1>2. ASSUME LeaseIInv, [S3LeaseNext]_s3LeaseVars PROVE [Lock!LeaseNext]_Holder
  <2> SUFFICES \/ Holder' = Holder
               \/ Holder' = NoOwner
               \/ Holder = NoOwner /\ \E o \in Owners : Holder' = o
    BY DEF Lock!LeaseNext, Lock!Lapse, Lock!Grant
  <2>1. lease' = lease /\ now' = now => Holder' = Holder
    BY DEF Holder
  \* A put by the process that is in the object, or on an expired object.
  <2>2. ASSUME NEW o \in Owners, NEW e \in Nat, now' = now,
               lease' = Body(o, e), Holder \in {o, NoOwner}
        PROVE  \/ Holder' = Holder
               \/ Holder' = NoOwner
               \/ Holder = NoOwner /\ \E p \in Owners : Holder' = p
    BY <2>2 DEF Holder
  <2>3. lease = Absent => Holder = NoOwner
    BY DEF Holder
  <2>4. ASSUME NEW o \in Owners, main[o] = "create", lease = mainTag[o]
        PROVE  Holder \in {o, NoOwner}
    BY <2>3, <2>4, <1>2 DEF TagsMeaning
  <2>5. ASSUME NEW o \in Owners, main[o] = "steal", lease = mainTag[o]
        PROVE  Holder \in {o, NoOwner}
    BY <2>5, <1>2 DEF TagsMeaning, Holder
  <2>6. ASSUME NEW o \in Owners, main[o] = "free", lease = mainTag[o]
        PROVE  Holder \in {o, NoOwner}
    BY <2>6, <1>2 DEF TagsMeaning, Holder
  <2>7. ASSUME NEW o \in Owners, renewer[o] = "write", lease = renewTag[o]
        PROVE  Holder \in {o, NoOwner}
    BY <2>7, <1>2 DEF TagsMeaning, Holder
  <2>8. ASSUME NEW o \in Owners, Step(o)
        PROVE  \/ lease' = lease /\ now' = now
               \/ \E e \in Nat : /\ now' = now
                                 /\ lease' = Body(o, e)
                                 /\ Holder \in {o, NoOwner}
    BY <1>2, <2>4, <2>5, <2>6, <2>7, <2>8 DEF Step, clocks, Start, CreateLands,
       CreateConflict, ReadUnexpired, ReadExpired, StealLands, StealConflict,
       RenewBegin, RenewRead, RenewLands, RenewLost, BeginRelease, ReleaseRead,
       ReleaseWrite
  <2>9. ASSUME NEW o \in Owners, OwnerFault(o)
        PROVE  \/ lease' = lease /\ now' = now
               \/ \E e \in Nat : /\ now' = now
                                 /\ lease' = Body(o, e)
                                 /\ Holder \in {o, NoOwner}
    BY <1>2, <2>4, <2>5, <2>6, <2>7, <2>9 DEF OwnerFault, clocks, AcquireError,
       CancelAcquire, RenewError, ReleaseError, OwnerDies
  <2>10. CASE TimePasses
    BY <1>2, <2>10 DEF TimePasses, Holder
  <2>11. CASE LifecycleExpiry
    BY <1>2, <2>11, <2>3 DEF LifecycleExpiry, Holder, clocks
  <2>12. CASE UNCHANGED s3LeaseVars
    BY <2>1, <2>12 DEF s3LeaseVars
  <2> QED
    BY <1>2, <2>1, <2>2, <2>8, <2>9, <2>10, <2>11, <2>12 DEF S3LeaseNext
<1> QED
  BY <1>1, <1>2, LeaseInvariantHolds, PTL
     DEF S3LeaseSpec, ImplementsLeaseLock, Lock!LeaseSpec

HIDE LeaseAssumption

------------------------------------------------------------------------------
(***************************************************************************)
(* The pipeline (JobPipeline)                                              *)
(***************************************************************************)
\* Where process_message has the lease.
Held == Beating \cup {"claimed", "saving", "replaying", "replayed"}

\* A worker that has the lease is its holder, and at most one tick of it has
\* passed since the last renewal.
Leased(w) ==
  pc[w] \in Held =>
    /\ holder = w /\ leaseLeft + 1 >= LeaseTicks
    /\ pc[w] = "claimed" \/ beat[w] => leaseLeft = LeaseTicks

\* Where a worker has an outcome to tell.
Told == {"notifying", "saving", "deleting", "replaying", "replayed"}

\* The types, with what they rest on.
Counted ==
  /\ TypeOK
  /\ faults.duplicates <= faults.all
  /\ api # "queued" => queue = "none"
  /\ \A w \in Workers : pc[w] \in Told => verdict[w] \in Terminal

LInv == Counted /\ \A w \in Workers : Leased(w)

\* Before the message is queued nothing has happened to the job.
Untouched ==
  api # "queued" =>
    /\ queue = "none" /\ inbox = {} /\ status.state \notin Terminal
    /\ \A w \in Workers : pc[w] = "idle"

\* What a worker knows of the status object and of the backend.
Knows(w) ==
  /\ pc[w] = "running" => status.state \notin Terminal
  /\ pc[w] \in {"running", "notifying"} => ~ told[w]
  /\ pc[w] \in {"notifying", "saving", "deleting", "replaying", "replayed"} =>
       verdict[w] \in Terminal /\ status.state = verdict[w]
  /\ pc[w] \in {"notifying", "saving"} => ~ status.delivered
  /\ pc[w] \in {"saving", "deleting"} /\ told[w] /\ HasTarget => verdict[w] \in inbox
  /\ pc[w] = "deleting" => told[w]
  /\ pc[w] = "replayed" /\ HasTarget => verdict[w] \in inbox

\* What the status object says is what the backend was told.
Agreed ==
  /\ inbox \subseteq {status.state}
  /\ status.delivered /\ MsgUrl => status.state \in inbox
  /\ queue = "deleted" => status.state \in Terminal /\ (MsgUrl => status.state \in inbox)

OInv == Untouched /\ Agreed /\ \A w \in Workers : Knows(w)

------------------------------------------------------------------------------
USE PipelineAssumption

(***************************************************************************)
(* Types                                                                   *)
(***************************************************************************)
LEMMA TypesInit == Init => Counted
BY DEF Init, Counted, TypeOK, PC, Brief, Beating, Status, NoStatus, Terminal, Told

\* Every step is a fault of one kind, or none.
LEMMA FaultsStep ==
  ASSUME Counted, [Next]_vars
  PROVE  /\ faults' \in [all : 0..MaxFaults, duplicates : 0..MaxFaults]
         /\ faults'.duplicates <= faults'.all
<1>1. (\E kind \in FaultKind : Fault(kind)) => faults' = faults \/ \E kind \in FaultKind : Fault(kind)
  OBVIOUS
<1>2. faults' = faults \/ \E kind \in FaultKind : Fault(kind)
  BY DEF Next, Work, Interrupt, Persist, Enqueue, DeadLetter, Tick, Receive, Acquire, LoadTerminal, LoadDelivered, LoadFresh, Finish, Notify, Save, Delete, Replay, ReplayDone, Release, Retire, Restart, Heartbeat, HeartbeatLost, Stop, Crash, NoFault, vars, FaultKind,
         Discard, Readable, Reach
<1>3. faults \in [all : 0..MaxFaults, duplicates : 0..MaxFaults] /\ faults.duplicates <= faults.all
  BY DEF Counted, TypeOK
<1> QED
  BY <1>2, <1>3 DEF Fault

LEMMA SavedType ==
  ASSUME NEW s \in Terminal \cup {"none", "running"}, NEW d \in BOOLEAN
  PROVE  Saved(s, d) \in Status
BY DEF Saved, Status

LEMMA ReachType ==
  ASSUME Counted, NEW w \in Workers, pc[w] \in Told, MayReach(w)
  PROVE  inbox' \subseteq Terminal
BY DEF Counted, TypeOK, MayReach, Reach

\* A worker's own cancellation, and the status it leaves.
LEMMA CancelledType ==
  ASSUME Counted, NEW w \in Workers, Cancelled(w)
  PROVE  status' \in Status /\ inbox' \subseteq Terminal
<1>1. Saved("running", FALSE) \in Status /\ status \in Status /\ inbox \subseteq Terminal
  BY SavedType DEF Counted, TypeOK
<1>2. pc[w] \in {"notifying", "replaying"} => pc[w] \in Told
  BY DEF Told
<1> QED
  BY <1>1, <1>2, ReachType DEF Cancelled, Retrying

LEMMA TypesStep == Counted /\ [Next]_vars => Counted'
<1> SUFFICES ASSUME Counted, [Next]_vars PROVE Counted'
  OBVIOUS
<1>f. /\ faults' \in [all : 0..MaxFaults, duplicates : 0..MaxFaults]
      /\ faults'.duplicates <= faults'.all
  BY FaultsStep
<1> USE DEF Counted, TypeOK, msgVars, leaseVars, localVars, Goto, PC, Brief, Beating,
            Terminal, Told
<1>s. /\ Saved("running", FALSE) \in Status
      /\ \A v \in Terminal : Saved(v, FALSE) \in Status /\ Saved(v, TRUE) \in Status
      /\ \A w \in Workers : Saved(verdict[w], told[w]) \in Status
      /\ \A w \in Workers : pc[w] \in Told /\ MayReach(w) => inbox' \subseteq Terminal
      /\ \A w \in Workers : Cancelled(w) => status' \in Status /\ inbox' \subseteq Terminal
  BY SavedType, ReachType, CancelledType DEF Counted, TypeOK, Terminal
<1>1. CASE Persist
  BY <1>1, <1>f, <1>s DEF Persist
<1>2. CASE Enqueue
  BY <1>2, <1>f, <1>s DEF Enqueue
<1>3. CASE DeadLetter
  BY <1>3, <1>f, <1>s DEF DeadLetter
<1>4. CASE Tick
  BY <1>4, <1>f, <1>s DEF Tick
<1>5. CASE \E w \in Workers : Receive(w)
  BY <1>5, <1>f, <1>s DEF Receive
<1>6. CASE \E w \in Workers : Acquire(w)
  BY <1>6, <1>f, <1>s DEF Acquire, TakeLease
<1>7. CASE \E w \in Workers : LoadTerminal(w)
  BY <1>7, <1>f, <1>s DEF LoadTerminal, Readable, NoStatus
<1>8. CASE \E w \in Workers : LoadDelivered(w)
  BY <1>8, <1>f, <1>s DEF LoadDelivered, Discard
<1>9. CASE \E w \in Workers : LoadFresh(w)
  <2>1. PICK w \in Workers : LoadFresh(w)
    BY <1>9
  <2>2. status' \in Status
    BY <2>1, <1>s DEF LoadFresh
  <2>3. inbox' \subseteq Terminal
    BY <2>1 DEF LoadFresh
  <2>4. /\ pc' \in [Workers -> PC] /\ verdict' \in [Workers -> Terminal \cup {"none"}]
        /\ \A v \in Workers : pc'[v] \in Told => verdict'[v] \in Terminal
    BY <2>1 DEF LoadFresh
  <2> QED
    BY <2>1, <2>2, <2>3, <2>4, <1>f DEF LoadFresh
<1>10. CASE \E w \in Workers : Finish(w)
  <2>1. PICK w \in Workers : Finish(w)
    BY <1>10
  <2>2. status' \in Status
    <3>1. PICK v \in Terminal : status' = Saved(v, FALSE) \/ FinishUnsaved(w)
      BY <2>1 DEF Finish
    <3>2. Saved(v, FALSE) \in Status
      BY <1>s
    <3>3. status \in Status
      OBVIOUS
    <3> QED
      BY <3>1, <3>2, <3>3 DEF FinishUnsaved
  <2>3. inbox' \subseteq Terminal
    BY <2>1 DEF Finish
  <2>4. /\ pc' \in [Workers -> PC] /\ verdict' \in [Workers -> Terminal \cup {"none"}]
        /\ \A v \in Workers : pc'[v] \in Told => verdict'[v] \in Terminal
    <3>1. PICK v \in Terminal : verdict' = [verdict EXCEPT ![w] = v]
      BY <2>1 DEF Finish
    <3>2. pc' = [pc EXCEPT ![w] = "notifying"] \/ pc' = [pc EXCEPT ![w] = "releasing"]
      BY <2>1 DEF Finish, FinishUnsaved
    <3> QED
      BY <3>1, <3>2
  <2> QED
    BY <2>1, <2>2, <2>3, <2>4, <1>f DEF Finish
<1>11. CASE \E w \in Workers : Notify(w)
  <2>1. PICK w \in Workers : Notify(w)
    BY <1>11
  <2>2. status' \in Status
    BY <2>1 DEF Notify
  <2>3. inbox' \subseteq Terminal
    BY <2>1, <1>s DEF Notify, MayReach
  <2>4. /\ pc' \in [Workers -> PC] /\ verdict' \in [Workers -> Terminal \cup {"none"}]
        /\ \A v \in Workers : pc'[v] \in Told => verdict'[v] \in Terminal
    BY <2>1 DEF Notify
  <2> QED
    BY <2>1, <2>2, <2>3, <2>4, <1>f DEF Notify
<1>12. CASE \E w \in Workers : Save(w)
  BY <1>12, <1>f, <1>s DEF Save, AfterSave
<1>13. CASE \E w \in Workers : Delete(w)
  BY <1>13, <1>f, <1>s DEF Delete, Discard
<1>14. CASE \E w \in Workers : Replay(w)
  BY <1>14, <1>f, <1>s DEF Replay, MayReach
<1>15. CASE \E w \in Workers : ReplayDone(w)
  <2>1. PICK w \in Workers : ReplayDone(w)
    BY <1>15
  <2>2. status' \in Status
    BY <2>1, <1>s DEF ReplayDone
  <2>3. inbox' \subseteq Terminal
    BY <2>1 DEF ReplayDone
  <2>4. /\ pc' \in [Workers -> PC] /\ verdict' \in [Workers -> Terminal \cup {"none"}]
        /\ \A v \in Workers : pc'[v] \in Told => verdict'[v] \in Terminal
    BY <2>1 DEF ReplayDone
  <2> QED
    <3>1. \/ queue' = "deleted" /\ visLeft' = 0 /\ queue \in {"visible", "inflight"}
          \/ UNCHANGED <<queue, visLeft>>
      BY <2>1 DEF ReplayDone, Discard
    <3> QED
      BY <2>1, <2>2, <2>3, <2>4, <3>1, <1>f DEF ReplayDone
<1>16. CASE \E w \in Workers : Release(w)
  BY <1>16, <1>f, <1>s DEF Release, Forget
<1>17. CASE \E w \in Workers : Retire(w)
  BY <1>17, <1>f, <1>s DEF Retire
<1>18. CASE \E w \in Workers : Restart(w)
  BY <1>18, <1>f, <1>s DEF Restart
<1>19. CASE \E w \in Workers : Heartbeat(w)
  BY <1>19, <1>f, <1>s DEF Heartbeat, Extend, Renew
<1>20. CASE \E w \in Workers : HeartbeatLost(w)
  <2>1. PICK w \in Workers : HeartbeatLost(w)
    BY <1>20
  <2>2. status' \in Status
    BY <2>1, <1>s DEF HeartbeatLost
  <2>3. inbox' \subseteq Terminal
    BY <2>1, <1>s DEF HeartbeatLost
  <2>4. /\ pc' \in [Workers -> PC] /\ verdict' \in [Workers -> Terminal \cup {"none"}]
        /\ \A v \in Workers : pc'[v] \in Told => verdict'[v] \in Terminal
    BY <2>1 DEF HeartbeatLost, Cancelled
  <2> QED
    BY <2>1, <2>2, <2>3, <2>4, <1>f DEF HeartbeatLost
<1>21. CASE \E w \in Workers : Stop(w)
  <2>1. PICK w \in Workers : Stop(w)
    BY <1>21
  <2>2. status' \in Status
    BY <2>1, <1>s DEF Stop
  <2>3. inbox' \subseteq Terminal
    BY <2>1, <1>s DEF Stop
  <2>4. /\ pc' \in [Workers -> PC] /\ verdict' \in [Workers -> Terminal \cup {"none"}]
        /\ \A v \in Workers : pc'[v] \in Told => verdict'[v] \in Terminal
    BY <2>1 DEF Stop, Cancelled
  <2> QED
    <3>1. UNCHANGED leaseVars \/ (holder' = w /\ leaseLeft' = LeaseTicks)
      BY <2>1 DEF Stop, TakeLease
    <3>2. stopping' = [stopping EXCEPT ![w] = TRUE] /\ UNCHANGED <<api, msgVars, beat, told>>
      BY <2>1 DEF Stop
    <3> QED
      BY <2>2, <2>3, <2>4, <3>1, <3>2, <1>f
<1>22. CASE \E w \in Workers : Crash(w)
  <2>1. PICK w \in Workers : Crash(w)
    BY <1>22
  <2>2. status' \in Status
    BY <2>1 DEF Crash
  <2>3. inbox' \subseteq Terminal
    BY <2>1, <1>s DEF Crash
  <2>4. /\ pc' \in [Workers -> PC] /\ verdict' \in [Workers -> Terminal \cup {"none"}]
        /\ \A v \in Workers : pc'[v] \in Told => verdict'[v] \in Terminal
    BY <2>1 DEF Crash, Forget
  <2> QED
    BY <2>1, <2>2, <2>3, <2>4, <1>f DEF Crash, Forget, TakeLease
<1>23. CASE UNCHANGED vars
  BY <1>23 DEF vars
<1> QED
  BY <1>1, <1>2, <1>3, <1>4, <1>5, <1>6, <1>7, <1>8, <1>9, <1>10, <1>11, <1>12, <1>13, <1>14, <1>15, <1>16, <1>17, <1>18, <1>19, <1>20, <1>21, <1>22, <1>23 DEF Next, Work, Interrupt

------------------------------------------------------------------------------
(***************************************************************************)
(* The lease                                                               *)
(***************************************************************************)
\* A lease that somebody holds is not over, so that nobody can take it.
LEMMA LeaseLasts ==
  ASSUME LInv, NEW w \in Workers, pc[w] \in Held
  PROVE  holder = w /\ leaseLeft > 0
BY DEF LInv, Counted, TypeOK, Leased

LEMMA LeasesStep ==
  ASSUME LInv, [Next]_vars, NEW v \in Workers
  PROVE  Leased(v)'
<1>t. /\ pc \in [Workers -> PC] /\ beat \in [Workers -> BOOLEAN]
      /\ leaseLeft \in 0..LeaseTicks
      /\ Leased(v)
      /\ \A w \in Workers : pc[w] \in Held => holder = w /\ leaseLeft > 0
  BY LeaseLasts DEF LInv, Counted, TypeOK
<1> USE DEF Leased, Held, Beating, Brief, msgVars, leaseVars, localVars, Goto
<1>1. CASE Persist
  BY <1>1, <1>t DEF Persist
<1>2. CASE Enqueue
  BY <1>2, <1>t DEF Enqueue
<1>3. CASE DeadLetter
  BY <1>3, <1>t DEF DeadLetter
<1>4. CASE Tick
  BY <1>4, <1>t DEF Tick
<1>5. CASE \E w \in Workers : Receive(w)
  BY <1>5, <1>t DEF Receive
<1>6. CASE \E w \in Workers : Acquire(w)
  BY <1>6, <1>t DEF Acquire, TakeLease
<1>7. CASE \E w \in Workers : LoadTerminal(w)
  BY <1>7, <1>t DEF LoadTerminal
<1>8. CASE \E w \in Workers : LoadDelivered(w)
  BY <1>8, <1>t DEF LoadDelivered
<1>9. CASE \E w \in Workers : LoadFresh(w)
  BY <1>9, <1>t DEF LoadFresh
<1>10. CASE \E w \in Workers : Finish(w)
  BY <1>10, <1>t DEF Finish, FinishUnsaved
<1>11. CASE \E w \in Workers : Notify(w)
  BY <1>11, <1>t DEF Notify
<1>12. CASE \E w \in Workers : Save(w)
  BY <1>12, <1>t DEF Save, AfterSave
<1>13. CASE \E w \in Workers : Delete(w)
  BY <1>13, <1>t DEF Delete
<1>14. CASE \E w \in Workers : Replay(w)
  BY <1>14, <1>t DEF Replay
<1>15. CASE \E w \in Workers : ReplayDone(w)
  BY <1>15, <1>t DEF ReplayDone
<1>16. CASE \E w \in Workers : Release(w)
  BY <1>16, <1>t DEF Release, Forget
<1>17. CASE \E w \in Workers : Retire(w)
  BY <1>17, <1>t DEF Retire
<1>18. CASE \E w \in Workers : Restart(w)
  BY <1>18, <1>t DEF Restart
<1>19. CASE \E w \in Workers : Heartbeat(w)
  BY <1>19, <1>t DEF Heartbeat, Renew
<1>20. CASE \E w \in Workers : HeartbeatLost(w)
  BY <1>20, <1>t DEF HeartbeatLost, Cancelled
<1>21. CASE \E w \in Workers : Stop(w)
  BY <1>21, <1>t DEF Stop, Cancelled, TakeLease
<1>22. CASE \E w \in Workers : Crash(w)
  BY <1>22, <1>t DEF Crash, Forget, TakeLease
<1>23. CASE UNCHANGED vars
  BY <1>23, <1>t DEF vars
<1> QED
  BY <1>1, <1>2, <1>3, <1>4, <1>5, <1>6, <1>7, <1>8, <1>9, <1>10, <1>11, <1>12, <1>13, <1>14, <1>15, <1>16, <1>17, <1>18, <1>19, <1>20, <1>21, <1>22, <1>23 DEF Next, Work, Interrupt

\* Types and leases together are inductive.
THEOREM LeaseInvariant == Spec => []LInv
<1>1. Init => LInv
  BY TypesInit DEF LInv, Init, Leased, Held, Beating
<1>2. LInv /\ [Next]_vars => LInv'
  BY TypesStep, LeasesStep DEF LInv
<1> QED
  BY <1>1, <1>2, PTL DEF Spec

\* The types hold for any number of workers, any times and any faults.
THEOREM TypeCorrect == Spec => []TypeOK
<1>1. LInv => TypeOK
  BY DEF LInv, Counted
<1> QED
  BY <1>1, LeaseInvariant, PTL

\* "The S3 lease must prevent concurrent execution": two workers never run or
\* notify together, for any number of them, any visibility timeout that the
\* lease outlives, any maxReceiveCount and all faults, failed reads of the
\* status object included.
THEOREM ExclusionHolds == Spec => []RunsAlone
<1>1. LInv => RunsAlone
  BY LeaseLasts DEF RunsAlone, Held
<1> QED
  BY <1>1, LeaseInvariant, PTL

------------------------------------------------------------------------------
(***************************************************************************)
(* The outcome                                                             *)
(***************************************************************************)
\* No step of the pipeline breaks what a worker knows of the outcome: nobody
\* else writes the status object while it has the lease.
LEMMA OutcomeStep ==
  ASSUME "read" \notin Faults, LInv, OInv, [Next]_vars
  PROVE  OInv'
<1>t. /\ pc \in [Workers -> PC] /\ told \in [Workers -> BOOLEAN]
      /\ verdict \in [Workers -> Terminal \cup {"none"}]
      /\ status \in Status /\ inbox \subseteq Terminal
      /\ api # "queued" => queue = "none"
      /\ Untouched /\ Agreed /\ \A w \in Workers : Knows(w)
  BY DEF LInv, Counted, TypeOK, OInv
<1>x. \A v, w \in Workers : pc[v] \in Held /\ pc[w] \in Held => v = w
  BY LeaseLasts
<1>r. \A kind : Fault(kind) => kind \in Faults
  BY DEF Fault
<1> USE <1>r DEF Untouched, Agreed, Knows, Terminal, Status, Held, Beating, Brief, PC,
            HasTarget, msgVars, leaseVars, localVars, Goto
<1>1. CASE Persist
  <2>1. Untouched'
    BY <1>1, <1>t DEF Persist, Saved
  <2>2. Agreed'
    BY <1>1, <1>t DEF Persist, Saved
  <2>3. ASSUME NEW v \in Workers PROVE Knows(v)'
    BY <1>1, <1>t DEF Persist, Saved
  <2> QED
    BY <2>1, <2>2, <2>3 DEF OInv
<1>2. CASE Enqueue
  <2>1. Untouched'
    BY <1>2, <1>t DEF Enqueue, Saved
  <2>2. Agreed'
    BY <1>2, <1>t DEF Enqueue, Saved
  <2>3. ASSUME NEW v \in Workers PROVE Knows(v)'
    BY <1>2, <1>t DEF Enqueue, Saved
  <2> QED
    BY <2>1, <2>2, <2>3 DEF OInv
<1>3. CASE DeadLetter
  <2>1. Untouched'
    BY <1>3, <1>t DEF DeadLetter, Saved
  <2>2. Agreed'
    BY <1>3, <1>t DEF DeadLetter, Saved
  <2>3. ASSUME NEW v \in Workers PROVE Knows(v)'
    BY <1>3, <1>t DEF DeadLetter, Saved
  <2> QED
    BY <2>1, <2>2, <2>3 DEF OInv
<1>4. CASE Tick
  <2>1. Untouched'
    BY <1>4, <1>t DEF Tick, Saved
  <2>2. Agreed'
    BY <1>4, <1>t DEF Tick, Saved
  <2>3. ASSUME NEW v \in Workers PROVE Knows(v)'
    BY <1>4, <1>t DEF Tick, Saved
  <2> QED
    BY <2>1, <2>2, <2>3 DEF OInv
<1>5. CASE \E w \in Workers : Receive(w)
  <2>1. PICK w \in Workers : Receive(w)
    BY <1>5
  <2>2. Untouched'
    BY <2>1, <1>t, <1>x DEF Receive
  <2>3. Agreed'
    BY <2>1, <1>t, <1>x DEF Receive
  <2>4. ASSUME NEW v \in Workers PROVE Knows(v)'
    BY <2>1, <1>t, <1>x DEF Receive
  <2> QED
    BY <2>2, <2>3, <2>4 DEF OInv
<1>6. CASE \E w \in Workers : Acquire(w)
  <2>1. PICK w \in Workers : Acquire(w)
    BY <1>6
  <2>2. Untouched'
    BY <2>1, <1>t, <1>x DEF Acquire
  <2>3. Agreed'
    BY <2>1, <1>t, <1>x DEF Acquire
  <2>4. ASSUME NEW v \in Workers PROVE Knows(v)'
    BY <2>1, <1>t, <1>x DEF Acquire
  <2> QED
    BY <2>2, <2>3, <2>4 DEF OInv
<1>7. CASE \E w \in Workers : LoadTerminal(w)
  <2>1. PICK w \in Workers : LoadTerminal(w)
    BY <1>7
  <2>2. Untouched'
    BY <2>1, <1>t, <1>x DEF LoadTerminal, Readable, NoStatus
  <2>3. Agreed'
    BY <2>1, <1>t, <1>x DEF LoadTerminal, Readable, NoStatus
  <2>4. ASSUME NEW v \in Workers PROVE Knows(v)'
    BY <2>1, <1>t, <1>x DEF LoadTerminal, Readable, NoStatus
  <2> QED
    BY <2>2, <2>3, <2>4 DEF OInv
<1>8. CASE \E w \in Workers : LoadDelivered(w)
  <2>1. PICK w \in Workers : LoadDelivered(w)
    BY <1>8
  <2>2. Untouched'
    BY <2>1, <1>t, <1>x DEF LoadDelivered, Discard
  <2>3. Agreed'
    BY <2>1, <1>t, <1>x DEF LoadDelivered, Discard
  <2>4. ASSUME NEW v \in Workers PROVE Knows(v)'
    BY <2>1, <1>t, <1>x DEF LoadDelivered, Discard
  <2> QED
    BY <2>2, <2>3, <2>4 DEF OInv
<1>9. CASE \E w \in Workers : LoadFresh(w)
  <2>1. PICK w \in Workers : LoadFresh(w)
    BY <1>9
  <2>2. Untouched'
    BY <2>1, <1>t, <1>x DEF LoadFresh, Readable, NoStatus, Saved
  <2>3. Agreed'
    BY <2>1, <1>t, <1>x DEF LoadFresh, Readable, NoStatus, Saved
  <2>4. ASSUME NEW v \in Workers PROVE Knows(v)'
    BY <2>1, <1>t, <1>x DEF LoadFresh, Readable, NoStatus, Saved
  <2> QED
    BY <2>2, <2>3, <2>4 DEF OInv
<1>10. CASE \E w \in Workers : Finish(w)
  <2>1. PICK w \in Workers : Finish(w)
    BY <1>10
  <2>2. Untouched'
    BY <2>1, <1>t, <1>x DEF Finish, FinishUnsaved, Saved
  <2>3. Agreed'
    BY <2>1, <1>t, <1>x DEF Finish, FinishUnsaved, Saved
  <2>4. ASSUME NEW v \in Workers PROVE Knows(v)'
    BY <2>1, <1>t, <1>x DEF Finish, FinishUnsaved, Saved
  <2> QED
    BY <2>2, <2>3, <2>4 DEF OInv
<1>11. CASE \E w \in Workers : Notify(w)
  <2>1. PICK w \in Workers : Notify(w)
    BY <1>11
  <2>2. Untouched'
    BY <2>1, <1>t, <1>x DEF Notify, Reach, MayReach
  <2>3. Agreed'
    BY <2>1, <1>t, <1>x DEF Notify, Reach, MayReach
  <2>4. ASSUME NEW v \in Workers PROVE Knows(v)'
    BY <2>1, <1>t, <1>x DEF Notify, Reach, MayReach
  <2> QED
    BY <2>2, <2>3, <2>4 DEF OInv
<1>12. CASE \E w \in Workers : Save(w)
  <2>1. PICK w \in Workers : Save(w)
    BY <1>12
  <2>2. Untouched'
    BY <2>1, <1>t, <1>x DEF Save, AfterSave, Saved
  <2>3. Agreed'
    BY <2>1, <1>t, <1>x DEF Save, AfterSave, Saved
  <2>4. ASSUME NEW v \in Workers PROVE Knows(v)'
    BY <2>1, <1>t, <1>x DEF Save, AfterSave, Saved
  <2> QED
    BY <2>2, <2>3, <2>4 DEF OInv
<1>13. CASE \E w \in Workers : Delete(w)
  <2>1. PICK w \in Workers : Delete(w)
    BY <1>13
  <2>2. Untouched'
    BY <2>1, <1>t, <1>x DEF Delete, Discard
  <2>3. Agreed'
    BY <2>1, <1>t, <1>x DEF Delete, Discard
  <2>4. ASSUME NEW v \in Workers PROVE Knows(v)'
    BY <2>1, <1>t, <1>x DEF Delete, Discard
  <2> QED
    BY <2>2, <2>3, <2>4 DEF OInv
<1>14. CASE \E w \in Workers : Replay(w)
  <2>1. PICK w \in Workers : Replay(w)
    BY <1>14
  <2>2. Untouched'
    BY <2>1, <1>t, <1>x DEF Replay, Reach, MayReach
  <2>3. Agreed'
    BY <2>1, <1>t, <1>x DEF Replay, Reach, MayReach
  <2>4. ASSUME NEW v \in Workers PROVE Knows(v)'
    BY <2>1, <1>t, <1>x DEF Replay, Reach, MayReach
  <2> QED
    BY <2>2, <2>3, <2>4 DEF OInv
<1>15. CASE \E w \in Workers : ReplayDone(w)
  <2>1. PICK w \in Workers : ReplayDone(w)
    BY <1>15
  <2>2. Untouched'
    BY <2>1, <1>t, <1>x DEF ReplayDone, Discard, Saved
  <2>3. Agreed'
    BY <2>1, <1>t, <1>x DEF ReplayDone, Discard, Saved
  <2>4. ASSUME NEW v \in Workers PROVE Knows(v)'
    BY <2>1, <1>t, <1>x DEF ReplayDone, Discard, Saved
  <2> QED
    BY <2>2, <2>3, <2>4 DEF OInv
<1>16. CASE \E w \in Workers : Release(w)
  <2>1. PICK w \in Workers : Release(w)
    BY <1>16
  <2>2. Untouched'
    BY <2>1, <1>t, <1>x DEF Release, Forget
  <2>3. Agreed'
    BY <2>1, <1>t, <1>x DEF Release, Forget
  <2>4. ASSUME NEW v \in Workers PROVE Knows(v)'
    BY <2>1, <1>t, <1>x DEF Release, Forget
  <2> QED
    BY <2>2, <2>3, <2>4 DEF OInv
<1>17. CASE \E w \in Workers : Retire(w)
  <2>1. PICK w \in Workers : Retire(w)
    BY <1>17
  <2>2. Untouched'
    BY <2>1, <1>t, <1>x DEF Retire
  <2>3. Agreed'
    BY <2>1, <1>t, <1>x DEF Retire
  <2>4. ASSUME NEW v \in Workers PROVE Knows(v)'
    BY <2>1, <1>t, <1>x DEF Retire
  <2> QED
    BY <2>2, <2>3, <2>4 DEF OInv
<1>18. CASE \E w \in Workers : Restart(w)
  <2>1. PICK w \in Workers : Restart(w)
    BY <1>18
  <2>2. Untouched'
    BY <2>1, <1>t, <1>x DEF Restart
  <2>3. Agreed'
    BY <2>1, <1>t, <1>x DEF Restart
  <2>4. ASSUME NEW v \in Workers PROVE Knows(v)'
    BY <2>1, <1>t, <1>x DEF Restart
  <2> QED
    BY <2>2, <2>3, <2>4 DEF OInv
<1>19. CASE \E w \in Workers : Heartbeat(w)
  <2>1. PICK w \in Workers : Heartbeat(w)
    BY <1>19
  <2>2. Untouched'
    BY <2>1, <1>t, <1>x DEF Heartbeat
  <2>3. Agreed'
    BY <2>1, <1>t, <1>x DEF Heartbeat
  <2>4. ASSUME NEW v \in Workers PROVE Knows(v)'
    BY <2>1, <1>t, <1>x DEF Heartbeat
  <2> QED
    BY <2>2, <2>3, <2>4 DEF OInv
<1>20. CASE \E w \in Workers : HeartbeatLost(w)
  <2>1. PICK w \in Workers : HeartbeatLost(w)
    BY <1>20
  <2>2. Untouched'
    BY <2>1, <1>t, <1>x DEF HeartbeatLost, Cancelled, Retrying, Saved, Reach, MayReach
  <2>3. Agreed'
    BY <2>1, <1>t, <1>x DEF HeartbeatLost, Cancelled, Retrying, Saved, Reach, MayReach
  <2>4. ASSUME NEW v \in Workers PROVE Knows(v)'
    BY <2>1, <1>t, <1>x DEF HeartbeatLost, Cancelled, Retrying, Saved, Reach, MayReach
  <2> QED
    BY <2>2, <2>3, <2>4 DEF OInv
<1>21. CASE \E w \in Workers : Stop(w)
  <2>1. PICK w \in Workers : Stop(w)
    BY <1>21
  <2>2. Untouched'
    BY <2>1, <1>t, <1>x DEF Stop, Cancelled, Retrying, Saved, Reach, MayReach
  <2>3. Agreed'
    <3>1. status' = status \/ (status' = Saved("running", FALSE) /\ pc[w] = "running")
      BY <2>1 DEF Stop, Cancelled, Retrying
    <3>2. inbox' = inbox \/ (inbox' = inbox \cup {verdict[w]} /\ status.state = verdict[w])
      BY <2>1, <1>t DEF Stop, Cancelled, Reach, MayReach
    <3>3. /\ UNCHANGED msgVars
          /\ pc[w] = "running" => inbox' = inbox
      BY <2>1 DEF Stop, Cancelled
    <3>4. CASE status' = status
      BY <3>2, <3>3, <3>4, <1>t
    <3>5. CASE status' = Saved("running", FALSE) /\ pc[w] = "running"
      BY <3>2, <3>3, <3>5, <1>t DEF Saved
    <3> QED
      BY <3>1, <3>4, <3>5
  <2>4. ASSUME NEW v \in Workers PROVE Knows(v)'
    BY <2>1, <1>t, <1>x DEF Stop, Cancelled, Retrying, Saved, Reach, MayReach
  <2> QED
    BY <2>2, <2>3, <2>4 DEF OInv
<1>22. CASE \E w \in Workers : Crash(w)
  <2>1. PICK w \in Workers : Crash(w)
    BY <1>22
  <2>2. Untouched'
    BY <2>1, <1>t, <1>x DEF Crash, Forget, Reach, MayReach
  <2>3. Agreed'
    BY <2>1, <1>t, <1>x DEF Crash, Forget, Reach, MayReach
  <2>4. ASSUME NEW v \in Workers PROVE Knows(v)'
    BY <2>1, <1>t, <1>x DEF Crash, Forget, Reach, MayReach
  <2> QED
    BY <2>2, <2>3, <2>4 DEF OInv
<1>23. CASE UNCHANGED vars
  BY <1>23, <1>t DEF vars, OInv
<1> QED
  BY <1>1, <1>2, <1>3, <1>4, <1>5, <1>6, <1>7, <1>8, <1>9, <1>10, <1>11, <1>12, <1>13, <1>14, <1>15, <1>16, <1>17, <1>18, <1>19, <1>20, <1>21, <1>22, <1>23 DEF Next, Work, Interrupt

\* What holds of a job's outcome, with the lease, is inductive when reads of the
\* status object do not fail silently.
THEOREM OutcomeInvariant ==
  ASSUME "read" \notin Faults
  PROVE  Spec => [](LInv /\ OInv)
<1>1. Init => LInv
  BY TypesInit DEF LInv, Init, Leased, Held, Beating
<1>2. Init => OInv
  BY DEF Init, OInv, Untouched, Agreed, Knows, NoStatus, Terminal
<1>3. LInv /\ OInv /\ [Next]_vars => (LInv /\ OInv)'
  BY TypesStep, LeasesStep, OutcomeStep DEF LInv
<1> QED
  BY <1>1, <1>2, <1>3, PTL DEF Spec

\* Polling and callbacks never disagree about an outcome, whatever crashes,
\* stops, lost renewals and failed writes come in between, as long as a failed
\* read of the status object does not pass for "no status" (load_job_status).
THEOREM OutcomeIsFinal ==
  ASSUME "read" \notin Faults
  PROVE  Spec => []VerdictIsFinal
<1>1. LInv /\ OInv => VerdictIsFinal
  BY DEF OInv, Agreed, VerdictIsFinal
<1> QED
  BY <1>1, OutcomeInvariant, PTL

\* A message is deleted only for a job that is over and that the backend knows
\* to be over.  A target that only the environment names would not do: the
\* replay of a terminal status looks at the message's own callback_url.
THEOREM DeletionIsSafe ==
  ASSUME "read" \notin Faults, EnvUrl => MsgUrl
  PROVE  Spec => []DeletedMeansDelivered
<1>1. LInv /\ OInv => DeletedMeansDelivered
  BY DEF OInv, Agreed, DeletedMeansDelivered, HasTarget
<1> QED
  BY <1>1, OutcomeInvariant, PTL

\* A terminal status object is never turned back, and a delivery that it
\* records is not forgotten.
THEOREM TerminalLasts ==
  ASSUME "read" \notin Faults
  PROVE  Spec => TerminalStays
<1> DEFINE Stays == status.state \in Terminal =>
                      /\ status'.state = status.state
                      /\ status.delivered => status'.delivered
<1>1. LInv /\ OInv /\ [Next]_vars => [Stays]_vars
  <2> SUFFICES ASSUME LInv, OInv, [Next]_vars, status.state \in Terminal
               PROVE  status' = status
                      \/ (status'.state = status.state
                            /\ (status.delivered => status'.delivered))
    BY DEF vars
  <2>t. /\ told \in [Workers -> BOOLEAN] /\ status \in Status
        /\ Untouched /\ \A w \in Workers : Knows(w)
    BY DEF LInv, Counted, TypeOK, OInv
  <2>1. status' # status => \/ Persist
                           \/ \E w \in Workers : \/ LoadFresh(w) \/ Finish(w) \/ Save(w)
                                                 \/ ReplayDone(w) \/ Cancelled(w)
    BY DEF Next, Work, Interrupt, Enqueue, DeadLetter, Tick, Receive, Acquire, LoadTerminal,
           LoadDelivered, Notify, Delete, Replay, Release, Retire, Restart, Heartbeat,
           HeartbeatLost, Stop, Crash, vars
  <2>2. CASE Persist
    BY <2>2, <2>t DEF Persist, Untouched
  <2>3. CASE \E w \in Workers : LoadFresh(w)
    BY <2>3 DEF LoadFresh, Readable, Fault
  <2>4. CASE \E w \in Workers : Finish(w)
    BY <2>4, <2>t DEF Finish, Knows
  <2>5. CASE \E w \in Workers : Save(w)
    BY <2>5, <2>t DEF Save, Knows, Saved
  <2>6. CASE \E w \in Workers : ReplayDone(w)
    BY <2>6, <2>t DEF ReplayDone, Knows, Saved
  <2>7. CASE \E w \in Workers : Cancelled(w)
    BY <2>7, <2>t DEF Cancelled, Retrying, Knows
  <2> QED
    BY <2>1, <2>2, <2>3, <2>4, <2>5, <2>6, <2>7
<1> QED
  BY <1>1, OutcomeInvariant, PTL DEF Spec, TerminalStays

------------------------------------------------------------------------------
(***************************************************************************)
(* The lease is a lock.                                                    *)
(***************************************************************************)
\* A step grants the lease when nobody has it, ends it, or leaves it alone.
LEMMA LeaseStep ==
  ASSUME LInv, LInv', [Next]_vars
  PROVE  [Lease!LeaseNext]_(IF leaseLeft > 0 THEN holder ELSE NoWorker)
<1> DEFINE lock == IF leaseLeft > 0 THEN holder ELSE NoWorker
<1>t. /\ leaseLeft \in 0..LeaseTicks /\ holder \in Workers \cup {NoWorker}
      /\ leaseLeft' \in 0..LeaseTicks /\ holder' \in Workers \cup {NoWorker}
  BY DEF LInv, Counted, TypeOK
<1>1. leaseLeft = 0 \/ holder' = holder
  BY <1>t DEF Next, Work, Interrupt, Persist, Enqueue, DeadLetter, Tick, Receive, Acquire,
         LoadTerminal, LoadDelivered, LoadFresh, Finish, Notify, Save, Delete, Replay,
         ReplayDone, Release, Retire, Restart, Heartbeat, HeartbeatLost, Stop, Crash,
         TakeLease, leaseVars, vars
<1>2. \/ lock = NoWorker /\ lock' \in Workers
      \/ lock' = NoWorker
      \/ lock' = lock
  <2>1. CASE leaseLeft' = 0
    BY <2>1
  <2>2. CASE leaseLeft = 0
    BY <2>2, <1>t
  <2>3. CASE leaseLeft # 0 /\ leaseLeft' # 0
    BY <2>3, <1>1, <1>t
  <2> QED
    BY <2>1, <2>2, <2>3
<1> HIDE DEF lock
<1>3. \/ lock = NoWorker /\ (\E o \in Workers : lock' = o)
      \/ lock' = NoWorker
      \/ lock' = lock
  BY <1>2
<1> QED
  BY <1>3 DEF Lease!LeaseNext, Lease!Grant, Lease!Lapse, lock

\* The pair <holder, leaseLeft> of the pipeline implements LeaseLock, the
\* module that JobLease is shown to implement: the two models agree on what a
\* lease is.
THEOREM LeaseRefined == Spec => UsesLeaseLock
<1>1. Init => Lease!LeaseInit
  BY DEF Init, Lease!LeaseInit
<1>2. LInv /\ LInv' /\ [Next]_vars
        => [Lease!LeaseNext]_(IF leaseLeft > 0 THEN holder ELSE NoWorker)
  BY LeaseStep
<1> QED
  BY <1>1, <1>2, LeaseInvariant, PTL DEF Spec, UsesLeaseLock, Lease!LeaseSpec

==============================================================================
