\* Versions 1.0 and 1.1; a torn byte may read as anything a key or a version holds.
CONSTANTS
  Images <- MCImages
  Torn = {0, 1, 85, 170, 255}
  MaxLosses = 3
SPECIFICATION FairSpec
INVARIANTS
  TypeOK
  RunsValid
PROPERTIES
  KeptOnceRun
  Settles
CHECK_DEADLOCK FALSE
