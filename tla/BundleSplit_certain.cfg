SPECIFICATION Spec
CONSTANTS
  PageCount = 3
  Plain = {"Cover", "RoP", "Index"}
  Stamps <- MCStamps
  Cover = "Cover"
  Rop = "RoP"
  Index = "Index"
  BoundaryAnswers <- MCBoundaryAnswers
  TypeAnswers <- MCTypeAnswers
  Texts <- MCTexts
  LongCover = 2
  MaxMoves = 1
INVARIANTS
  EveryPageServed
  ClearMeansCertain
  RowsAgree
