-------------------------- MODULE MCDefectCollection --------------------------
\* DefectCollection for TLC.
EXTENDS DefectCollection
==============================================================================
