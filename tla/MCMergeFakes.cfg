SPECIFICATION Spec
CONSTANTS
  Mergers <- MCMergers
  FakeNames <- MCFakeNames
  MaxParsers = 2
INVARIANT FakeReferencesDefined
CHECK_DEADLOCK FALSE
