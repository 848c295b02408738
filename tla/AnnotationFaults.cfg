SPECIFICATION Spec
CONSTANT Programs <- FaultyPrograms
CONSTANT Printed <- NothingPrinted
CONSTANT Widths <- DefaultWidths
CONSTANT Lookahead = 1
CONSTANT Pieces <- MCPieces
CONSTANT Origins <- MCOrigins
INVARIANT EveryFaultIsReported
CHECK_DEADLOCK FALSE
