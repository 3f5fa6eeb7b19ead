SPECIFICATION FixSpec
CONSTANTS
  Streams <- MCStreams
  Names <- MCNames
  ValidName <- MCValidName
  VtblTag <- vtbl
  BoolName <- boolName
  Uint32 = 16
  MaxChunks = 2
  MaxUses = 2
  MaxNested = 2
  MaxSameTag = 2
INVARIANT WellFormedFixed
CHECK_DEADLOCK FALSE
