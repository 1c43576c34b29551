\* Rings and packets of 3 bytes; every packet is shorter than a full one.
CONSTANTS
  Size = 3
  MaxSent = 4
  PacketSizes = {0, 1, 2}
  MaxDowns = 1
  ClearOverlaps = FALSE
SPECIFICATION FairSpec
INVARIANTS
  TypeOK
  ArmedOnlyAfterRead
  NothingLost
  EchoInOrder
PROPERTIES
  ImplementsStream
  LastByteReturns
  OutRearmed
CHECK_DEADLOCK FALSE
