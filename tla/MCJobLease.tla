------------------------------ MODULE MCJobLease -----------------------------
\* JobLease for TLC: two calls of process_message, a lease of two ticks,
\* hosts whose clocks are at most one tick apart.
EXTENDS JobLease, TLC

Symmetric == Permutations(Owners)
==============================================================================
