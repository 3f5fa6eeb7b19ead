SPECIFICATION Spec
CONSTANTS
  Mergers <- MCMergers
  FakeNames <- MCFakeNames
  MaxParsers = 3
INVARIANTS NothingLost NothingTwice MergedTagsDistinct ReferencesDefined OverlaysKept
           FirstIsKept
CHECK_DEADLOCK FALSE
