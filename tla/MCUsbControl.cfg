\* Packets of 2 bytes; 4 bytes of a descriptor are asked for or none: one ends with an
\* empty packet, one is cut after a full one.  The other IN requests carry one byte.
CONSTANTS
  PacketSize = 2
  Lengths = {2, 5}
  Wanted = {0, 4}
  Addresses = {1}
  Values = {0, 1}
  HostWaits = TRUE
SPECIFICATION FairSpec
INVARIANTS
  TypeOK
  Delivered
  InStep
  Agreement
  BuffersApart
  RegistersDirect
PROPERTIES
  AddressAfterStatus
  Answered
