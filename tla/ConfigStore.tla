---------------------------- MODULE ConfigStore ----------------------------
(***************************************************************************)
(* The persisted configuration: six bytes of the EEPROM (a key of two      *)
(* bytes and a version of four), read when main() starts and written, byte *)
(* by byte, when no valid configuration is found.  A byte takes about      *)
(* 100 ms to write (eeprom_ack_polling runs into its timeout), and power   *)
(* may go at any time.  A new firmware image may be flashed between two    *)
(* starts.                                                                 *)
(***************************************************************************)
EXTENDS Integers, Sequences

CONSTANTS
  Images,      \* the versions (four bytes each) firmware images are built with
  Torn,        \* what a byte may read when power went while it was written
  MaxLosses    \* bound: power losses in a behaviour

Byte    == 0 .. 255
Blank   == 255
Key     == <<170, 85>>                        \* PERSIST_KEY_HIGH, PERSIST_KEY_LOW
Invalid == <<Blank, Blank, Blank, Blank>>     \* CONFIG_INVALID_VERSION
None    == << >>
Version == [1 .. 4 -> Byte]

ASSUME ImagesAssumption ==
  /\ Images \subseteq Version \ {Invalid} /\ Images # {}
  /\ Torn \subseteq Byte
  /\ MaxLosses \in Nat

VARIABLES
  cells,      \* bytes 0 .. 5 of the EEPROM, numbered from 1
  image,      \* machine_config.version of the flashed firmware
  pc,         \* where main() is
  next,       \* the byte config_reset writes next
  losses,     \* power losses so far
  ran         \* the version stored when the main loop was last entered

vars == <<cells, image, pc, next, losses, ran>>

Steps == {"start", "write", "verify", "running", "halted", "hung"}

TypeOK ==
  /\ cells \in [1 .. 6 -> Byte]
  /\ image \in Images
  /\ pc \in Steps /\ next \in 1 .. 6
  /\ losses \in 0 .. MaxLosses
  /\ ran \in Version \cup {None}

Init ==
  /\ cells = [i \in 1 .. 6 |-> Blank]
  /\ image \in Images
  /\ pc = "start" /\ next = 1
  /\ losses = 0 /\ ran = None

-----------------------------------------------------------------------------
(***************************************************************************)
(* config_get_version.                                                     *)
(***************************************************************************)
Stored ==
  IF cells[1] = Key[1] /\ cells[2] = Key[2]
  THEN <<cells[3], cells[4], cells[5], cells[6]>>
  ELSE Invalid

Wanted(n) == IF n <= 2 THEN Key[n] ELSE image[n - 2]

Enter == pc' = "running" /\ ran' = Stored

(* Mutant: the version of another image counts as invalid.                 *)
StartOnOwnVersion ==
  /\ pc = "start"
  /\ IF Stored # image THEN pc' = "write" /\ next' = 1 /\ UNCHANGED ran
                       ELSE Enter /\ UNCHANGED next
  /\ UNCHANGED <<cells, image, losses>>

(***************************************************************************)
(* main() looks at the stored version.  Only CONFIG_INVALID_VERSION makes  *)
(* it call config_reset; the version of another image is left as it is.    *)
(***************************************************************************)
Start ==
  /\ pc = "start"
  /\ IF Stored = Invalid THEN pc' = "write" /\ next' = 1 /\ UNCHANGED ran
                         ELSE Enter /\ UNCHANGED next
  /\ UNCHANGED <<cells, image, losses>>

(* Mutant: one byte too many.                                              *)
AdvancePastEnd ==
  IF next = 7 THEN pc' = "verify" /\ next' = 1 ELSE next' = next + 1 /\ UNCHANGED pc

Advance ==
  IF next = 6 THEN pc' = "verify" /\ next' = 1 ELSE next' = next + 1 /\ UNCHANGED pc

(***************************************************************************)
(* config_reset writes the next byte (at24c32_write_byte).  The EEPROM may *)
(* fail to store it; neither a NACK on a data byte nor the result of the   *)
(* polling is looked at.                                                   *)
(***************************************************************************)
WriteByte ==
  /\ pc = "write"
  /\ cells' \in {cells, [cells EXCEPT ![next] = Wanted(next)]}
  /\ Advance
  /\ UNCHANGED <<image, losses, ran>>

(* Mutant: the result of config_reset is not looked at.                    *)
VerifyAnyway ==
  /\ pc = "verify"
  /\ Enter
  /\ UNCHANGED <<cells, image, next, losses>>

(* Mutant: main() tries again instead of halting.                          *)
VerifyRetries ==
  /\ pc = "verify"
  /\ IF Stored = image THEN Enter ELSE pc' = "write" /\ UNCHANGED ran
  /\ UNCHANGED <<cells, image, next, losses>>

(***************************************************************************)
(* config_reset reads the version back; main() halts when it is not the    *)
(* one written.                                                            *)
(***************************************************************************)
Verify ==
  /\ pc = "verify"
  /\ IF Stored = image THEN Enter ELSE pc' = "halted" /\ UNCHANGED ran
  /\ UNCHANGED <<cells, image, next, losses>>

(***************************************************************************)
(* The EEPROM does not acknowledge its address: i2c1_write_byte waits for  *)
(* TXIS, i2c1_read_byte for RXNE, forever.                                 *)
(***************************************************************************)
NoAnswer ==
  /\ pc \in {"start", "write", "verify"}
  /\ pc' = "hung"
  /\ UNCHANGED <<cells, image, next, losses, ran>>

(***************************************************************************)
(* Power goes and comes back, perhaps with another image flashed.  The     *)
(* byte being written is left in any state of Torn.                        *)
(***************************************************************************)
PowerLoss ==
  /\ losses < MaxLosses
  /\ losses' = losses + 1
  /\ cells' \in {cells} \cup
       (IF pc = "write" THEN {[cells EXCEPT ![next] = b] : b \in Torn} ELSE {})
  /\ image' \in Images
  /\ pc' = "start" /\ next' = 1
  /\ UNCHANGED ran

-----------------------------------------------------------------------------
Device == Start \/ WriteByte \/ Verify

Next == Device \/ NoAnswer \/ PowerLoss

Spec == Init /\ [][Next]_vars

(* main() is the only thread and is not held up but by the EEPROM.         *)
FairSpec == Spec /\ WF_vars(Device)

-----------------------------------------------------------------------------
(***************************************************************************)
(* The main loop runs only over a valid configuration, whichever bytes the *)
(* EEPROM failed to store and whenever power went ("Persisted              *)
(* configuration invalid, resetting configuration", main).                 *)
(***************************************************************************)
RunsValid == pc = "running" => Stored # Invalid /\ Stored = ran

(***************************************************************************)
(* Once the main loop has been entered over a stored version, it is never  *)
(* entered over another one: no later power loss, no new image and no      *)
(* failed write changes a configuration that was valid.                    *)
(***************************************************************************)
KeptOnceRun == [][ran # None => ran' = ran]_vars

(***************************************************************************)
(* main() comes to an end: power once stable, the device runs, has halted  *)
(* or waits for an EEPROM that does not answer; it does not go on wearing  *)
(* out the EEPROM.                                                         *)
(***************************************************************************)
Settles == <>[](pc \in {"running", "halted", "hung"})

(***************************************************************************)
(* "Get the currently configured version, return CONFIG_INVALID_VERSION if *)
(* no valid configuration" (machine_config.h): the device only ever runs   *)
(* over a version that some image stored whole.                            *)
(***************************************************************************)
RunsWhole == pc = "running" => Stored \in Images
=============================================================================
