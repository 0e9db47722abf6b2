----------------------------- MODULE MCRateLimiter ---------------------------
\* RateLimiter for TLC.
EXTENDS RateLimiter, TLC

Symmetric == Permutations(Callers)
==============================================================================
