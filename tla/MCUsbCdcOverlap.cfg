\* As MCUsbCdc.cfg, but the bus does not wait while a flag is being cleared.
CONSTANTS
  Size = 3
  MaxSent = 4
  PacketSizes = {0, 1, 2}
  MaxDowns = 0
  ClearOverlaps = TRUE
SPECIFICATION FairSpec
INVARIANT NothingLost
CHECK_DEADLOCK FALSE
