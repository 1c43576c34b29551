\* As MCUsbCdc.cfg, but the host also sends full packets.
CONSTANTS
  Size = 3
  MaxSent = 4
  PacketSizes = {0, 1, 2, 3}
  MaxDowns = 0
  ClearOverlaps = FALSE
SPECIFICATION FairSpec
INVARIANT ArmedOnlyAfterRead
CHECK_DEADLOCK FALSE
