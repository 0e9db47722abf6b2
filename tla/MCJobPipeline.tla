---------------------------- MODULE MCJobPipeline ----------------------------
\* JobPipeline for TLC.
EXTENDS JobPipeline, TLC

Symmetric == Permutations(Workers)
==============================================================================
