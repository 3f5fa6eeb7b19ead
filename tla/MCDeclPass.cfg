SPECIFICATION BothSpec
CONSTANTS
  Streams <- MCStreams
  Names <- MCNames
  ValidName <- MCValidName
  VtblTag <- vtbl
  BoolName <- boolName
  Uint32 = 16
  MaxChunks = 3
  MaxDeep = 5
  MaxRaw = 3
INVARIANTS DeclsInActiveOverlay EachDeclarationOnce LocalsInScope OneBodyPerFunction
  LinesFollowSLD DeclsBindDefinitions WellFormedDeclsAccepted
CHECK_DEADLOCK FALSE
