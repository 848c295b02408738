SPECIFICATION Spec
CONSTANTS
  Part <- MCPart
  LowerOf <- MCLowerOf
  Names <- MCNames
INVARIANTS
  TypeOK
  NoTwoNamesCoincide
  NothingReserved
PROPERTIES
  NamesStay
CHECK_DEADLOCK FALSE
