\* The passing run of Driver
CONSTANTS
  Text <- MCText
  Unreadable = Unreadable
  MaxEdits = 2
  MaxRuns = 2
SPECIFICATION Spec
INVARIANTS
  OneTextPerRun
  TheCopyIsTranslated
  PositionsAreValid
  SuccessMeansProducts
  ModuleIsNewest
  ProductsAgree
  ReportedFaultsPoison
CHECK_DEADLOCK FALSE
