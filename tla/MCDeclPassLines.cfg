SPECIFICATION BothSpec
CONSTANTS
  Streams <- MCStreams
  Names <- MCNames
  ValidName <- MCValidName
  VtblTag <- vtbl
  BoolName <- boolName
  Uint32 = 16
  MaxChunks = 0
  MaxDeep = 0
  MaxRaw = 2
INVARIANTS LinesEndUnreachable
CHECK_DEADLOCK FALSE
