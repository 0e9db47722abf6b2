SPECIFICATION Spec
CONSTANTS
  Parts = {"petition", "annexure"}
  Main = "petition"
  Sources = {"petition"}
  Lists <- MCLists
  Forms <- MCForms
  MaxVersion = 2
  MaxEdits = 1
  MaxJobs = 3
  MaxFaults = 1
  Careful = {"linking", "ids", "resending", "books", "names", "storage"}
CHECK_DEADLOCK FALSE
INVARIANTS
  TextIsCurrent
  HashNamesFile
  SplitReadsThisPdf
