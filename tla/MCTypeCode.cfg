SPECIFICATION Spec
CONSTANTS
  Codes <- MCCodes
  DimLists <- MCDimLists
INVARIANTS DeclarationReadsBack PanicForWantOfDims
CHECK_DEADLOCK FALSE
