CONSTANTS
  BLOCK_BUFFER_SIZE = 3
  SEGMENT_BUFFER_SIZE = 3
  StepEvents = 2
  MaxBlocks = 3
  RX_BUFFER_SIZE = 3
  SegmentSizes = {1}
  LineKinds = {"move", "outside", "dwell", "$X", "$C"}
  Characters = {"?", "~", "!", "@", "^X"}
  HomingLock = FALSE
  MaxInputs = 4
SPECIFICATION FairSpec
INVARIANTS
  TypeOK
  ReadyMeansStill
  StopFollowsMotion
  ResetSilences
  WaitsForMotion
PROPERTIES
  ImplementsQueue
  HeldMainBlocked
  NoAutoResume
  HoldCompletes
  ResetHonoured
  EveryMoveRuns
  SyncEnds
CHECK_DEADLOCK FALSE
