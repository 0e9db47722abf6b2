------------------------------ MODULE LeaseLock ------------------------------
(***************************************************************************)
(* What a job lease promises, without storage, clocks or retries: one      *)
(* variable names the process that nobody may displace.  A lease is        *)
(* granted only when there is no such process, and it can be given up or   *)
(* lapse at any time; it never passes directly from one process to         *)
(* another.  JobLease is shown to implement this module, and JobPipeline   *)
(* is built on it.                                                         *)
(***************************************************************************)
CONSTANTS Owners,  \* the processes that may ask for the lease
          NoOwner  \* "nobody holds it"

VARIABLE holder

LeaseInit == holder = NoOwner

Grant(o) == holder = NoOwner /\ holder' = o

Lapse == holder' = NoOwner

LeaseNext == Lapse \/ \E o \in Owners : Grant(o)

LeaseSpec == LeaseInit /\ [][LeaseNext]_holder
==============================================================================
