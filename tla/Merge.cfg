SPECIFICATION Spec
CONSTANTS
  Ident <- MCIdent
  Param <- MCParam
  Text <- MCText
  Place <- MCPlace
  Type <- MCType
  ErrorType <- MCErrorType
  Units <- MCUnits
INVARIANTS
  NothingIsLost
  OneEntryUnlessReported
  OneContractIsKept
CHECK_DEADLOCK FALSE
