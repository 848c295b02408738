SPECIFICATION Spec
CONSTANTS
  Ident <- MCIdent
  Param <- MCParam
  Text <- MCText
  Place <- MCPlace
  Type <- MCType
  ErrorType <- MCErrorType
  Units <- MCUnits
INVARIANTS
  ContractsMustMatch
CHECK_DEADLOCK FALSE
