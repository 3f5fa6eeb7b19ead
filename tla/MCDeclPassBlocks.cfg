SPECIFICATION BothSpec
CONSTANTS
  Streams <- MCStreams
  Names <- MCNames
  ValidName <- MCValidName
  VtblTag <- vtbl
  BoolName <- boolName
  Uint32 = 16
  MaxChunks = 1
  MaxDeep = 0
  MaxRaw = 0
INVARIANTS BlockLinesRelative
CHECK_DEADLOCK FALSE
