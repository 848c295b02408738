SPECIFICATION Spec
CONSTANTS
  Bodies <- MCBodies
  HasGoto <- MCHasGoto
  Restructured <- MCRestructured
  NestedLists <- MCNestedLists
  Written <- MCWritten
  Stmt <- MCStmts
  Name = {"a", "b"}
  RestructuredList <- MCRestructuredList
  Rounds <- MCRounds
  MaxLen = 5
INVARIANTS
  TextIsKept
  SeparateLabelsAreRestructured
  BlocksAreTight
PROPERTIES
  Terminates
CHECK_DEADLOCK FALSE
