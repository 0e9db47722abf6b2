---------------------------- MODULE MCFilingRecord ----------------------------
EXTENDS ReviewDecision, TLC
CONSTANTS f, e, i, r, s, d
AllKinds ==
  f :> "file" @@ e :> "extract" @@ i :> "index" @@ r :> "reindex"
    @@ s :> "scrutiny" @@ d :> "edit"
MCKind == [j \in Jobs |-> AllKinds[j]]
==============================================================================
