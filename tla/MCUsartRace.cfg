\* A ring with room for every byte sent.
CONSTANTS
  Size = 4
  MaxMain = 1
  MaxUsb = 2
  Bursts = {2}
SPECIFICATION FairSpec
PROPERTY AllOnWire
CHECK_DEADLOCK FALSE
