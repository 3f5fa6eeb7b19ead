SPECIFICATION Spec
CONSTANTS
  Inputs <- MCInputs
  Arguments <- MCArguments
  Merged <- MCMerged
  Sources <- MCSources
  FileOf <- MCFileOf
  NoSource <- noSource
  Int64 <- int64
  Leftover <- MCLeftover
  MaxOpen = 3
  MaxArgs = 2
INVARIANTS OutputOfOneDump OutputAfterParsing EverythingDumped SourceNamesDistinct
           HandlesSuffice
PROPERTY CustomDirKept
CHECK_DEADLOCK FALSE
