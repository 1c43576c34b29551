\* One power loss is enough.
CONSTANTS
  Images <- MCImages
  Torn = {255}
  MaxLosses = 1
SPECIFICATION FairSpec
INVARIANT RunsWhole
CHECK_DEADLOCK FALSE
