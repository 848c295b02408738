SPECIFICATION Spec
CONSTANTS
  Bodies <- MCBodies
  HasGoto <- MCHasGoto
  Restructured <- MCRestructured
  NestedLists <- MCNestedLists
  Written <- MCWritten
  Stmt <- MCStmts
  Name = {"a", "b"}
  RestructuredList <- MCRestructuredList
  Rounds <- MCRounds
  MaxLen = 4
INVARIANTS
  EveryForwardLabelIsRestructured
CHECK_DEADLOCK FALSE
