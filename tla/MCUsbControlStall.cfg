\* As MCUsbControl.cfg, for the request the device cannot serve.
CONSTANTS
  PacketSize = 2
  Lengths = {2}
  Wanted = {2}
  Addresses = {1}
  Values = {0}
  HostWaits = TRUE
SPECIFICATION FairSpec
INVARIANT RejectionStalls
