SPECIFICATION Spec
CONSTANTS
  PageCount = 3
  Plain = {"Cover", "Index", "Order", "Main"}
  Cover = "Cover"
  Index = "Index"
  Order = "Order"
  Main = "Main"
  Stamps <- MCStamps
  Apps = {"App1", "App2"}
  App1 = "App1"
  Bundles <- MCBundles
  Facts <- MCFacts
  RuleLabels = {"Main", "P1", "App1", "Undefined"}
  IndexLabels = {"Order", "P1"}
  PostStages <- MCPostStages
  MaxPasses = 3
  Limit = 6
INVARIANTS
  HeadingsDecide
PROPERTIES
  ProtectedHolds
