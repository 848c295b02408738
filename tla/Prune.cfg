SPECIFICATION Spec
CONSTANTS
  Id <- MCId
  Units <- MCUnits
INVARIANTS
  TypeOK
  NoDependencyLost
  KeepsExactlyTheNeeded
PROPERTIES
  Terminates
  RefinesRetention
CHECK_DEADLOCK FALSE
