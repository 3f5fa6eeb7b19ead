SPECIFICATION Spec
CONSTANTS
  Files <- MCFiles
  MaxSymbols = 3
INVARIANTS TypeOK OffsetsTrue WholeSymbolsParsed
CHECK_DEADLOCK FALSE
