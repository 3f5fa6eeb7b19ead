SPECIFICATION FairFixSpec
CONSTANTS
  Streams <- MCStreams
  Names <- MCNames
  ValidName <- MCValidName
  VtblTag <- vtbl
  BoolName <- boolName
  Uint32 = 16
  MaxChunks = 2
  MaxUses = 3
  MaxNested = 4
  MaxSameTag = 4
INVARIANTS FixTypeOK UsesAreListed MeaningKept NoDuplicatesLeft TagsDistinct NamesTellAddresses
PROPERTIES TagsAreFresh FixupsEnd
CHECK_DEADLOCK FALSE
