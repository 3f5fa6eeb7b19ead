SPECIFICATION Spec
CONSTANTS
  Streams <- MCStreams
  Names <- MCNames
  ValidName <- MCValidName
  VtblTag <- vtbl
  BoolName <- boolName
  MaxChunks = 4
  MaxRaw = 3
INVARIANTS TypeOK ScaffoldNeverMissing DefinitionsComplete UseBindsOneObject
  UniqueEnumMembers WellFormedAccepted
PROPERTY DefinedIsFrozen
CHECK_DEADLOCK FALSE
