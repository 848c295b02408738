SPECIFICATION Spec
CONSTANT Programs <- MCPrograms
CONSTANT Printed <- MCPrinted
CONSTANT Widths <- DefaultWidths
CONSTANT Lookahead = 1
CONSTANT Pieces <- MCPieces
CONSTANT Origins <- MCOrigins
INVARIANT AnnotationsMeanWhatTheySay
INVARIANT FaultsAreReported
INVARIANT PositionsAreOfTheText
INVARIANT RangesNest
INVARIANT RangesPointBack
CHECK_DEADLOCK FALSE
