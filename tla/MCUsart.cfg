\* A ring small enough to wrap and to be overrun.
CONSTANTS
  Size = 3
  MaxMain = 3
  MaxUsb = 4
  Bursts = {1, 2}
SPECIFICATION FairSpec
INVARIANTS
  TypeOK
  InRangeAtRest
PROPERTIES
  FlushDrains
  Drains
CHECK_DEADLOCK FALSE
