\* As MCUsbControl.cfg, but a SETUP may follow a status the handler has not served yet.
CONSTANTS
  PacketSize = 2
  Lengths = {2}
  Wanted = {2}
  Addresses = {1}
  Values = {0}
  HostWaits = FALSE
SPECIFICATION FairSpec
PROPERTY AddressAfterStatus
