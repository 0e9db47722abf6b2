SPECIFICATION Spec
CONSTANTS
  Parts = {"petition", "annexure"}
  Main = "petition"
  Sources = {"petition"}
  Lists <- MCWhole
  Forms <- MCForms
  MaxVersion = 2
  MaxEdits = 1
  MaxJobs = 3
  MaxFaults = 0
  Careful = {"linking", "ids", "books", "names", "storage"}
CHECK_DEADLOCK FALSE
INVARIANT TextIsCurrent
