------------------------------- MODULE UsbCdc -------------------------------
(***************************************************************************)
(* The bulk data path of the CDC interface: the host, endpoint 2 of the    *)
(* USB peripheral (one register and two packet buffers), the interrupt     *)
(* handler, the rx and tx rings of usb_cdc.c and the receive callback of   *)
(* core/main.c, which writes every byte it reads back to the host.         *)
(*                                                                         *)
(* The handler runs to completion with respect to the firmware but not     *)
(* with respect to the bus: the host may take or send a packet between any *)
(* two of its steps.  The handler is split (variable pc) where that can be *)
(* seen: after each byte of the echo, between filling the IN packet buffer *)
(* and setting its state, and wherever a register is read and written back.*)
(*                                                                         *)
(* The n-th byte the host sends is the number n, so that a byte lost,      *)
(* repeated or overtaken shows.                                            *)
(***************************************************************************)
EXTENDS CircularBuffer

CONSTANTS
  MaxSent,      \* bound: bytes the host sends in a behaviour
  PacketSizes,  \* lengths of the packets it sends
  MaxDowns,     \* bound: bus resets and SET_CONFIGURATION(0) in a behaviour
  ClearOverlaps \* a transaction may complete while a flag is being cleared

ASSUME BoundsAssumption ==
  /\ MaxSent \in Nat /\ MaxDowns \in Nat
  /\ PacketSizes \subseteq 0 .. Size
  /\ ClearOverlaps \in BOOLEAN

VARIABLES
  configured,   \* usb_configured(): usb_device.config_num # 0
  open,         \* endpoint 2 answers the bus: its register holds address 2
  rx, tx,       \* usb_cdc.rx_buffer, usb_cdc.tx_buffer
  out, in,      \* the halves of the endpoint: STAT bits, VT flag, packet
  pc,           \* where the handler is
  seen,         \* what the handler last read of the endpoint register
  busReset,     \* ISTR.RESET is pending
  downs,        \* bus resets and deconfigurations so far
  sent,         \* bytes sent and acknowledged so far
  read,         \* bytes read by the callback or dropped by a link change
  handed,       \* the byte the callback read last
  received      \* the bytes the host has taken from the IN endpoint

vars == <<configured, open, rx, tx, out, in, pc, seen, busReset, downs, sent,
          read, handed, received>>

deviceVars == <<configured, open, rx, tx>>
hostVars   == <<sent, received>>

Byte == 0 .. MaxSent
Stat == {"DISABLED", "STALL", "NAK", "VALID"}
Half == [stat : Stat, vt : BOOLEAN, packet : Seq(Byte)]
Idle == [stat |-> "DISABLED", vt |-> FALSE, packet |-> << >>]

Steps == {"idle", "clearOut", "echo", "fill", "set", "clearIn"}

TypeOK ==
  /\ configured \in BOOLEAN /\ open \in BOOLEAN /\ busReset \in BOOLEAN
  /\ rx \in Ring(Byte) /\ tx \in Ring(Byte)
  /\ out \in Half /\ in \in Half
  /\ pc \in Steps
  /\ seen \in [stat : Stat, vt : BOOLEAN]
  /\ downs \in 0 .. MaxDowns
  /\ sent \in Byte /\ read \in Byte /\ handed \in Byte
  /\ received \in Seq(Byte)

Init ==
  /\ configured = FALSE /\ open = FALSE
  /\ rx = EmptyRing(0) /\ tx = EmptyRing(0)
  /\ out = Idle /\ in = Idle
  /\ pc = "idle" /\ seen = [stat |-> "DISABLED", vt |-> FALSE]
  /\ busReset = FALSE /\ downs = 0
  /\ sent = 0 /\ read = 0 /\ handed = 0 /\ received = << >>

-----------------------------------------------------------------------------
(* The host and the bus.                                                   *)

(***************************************************************************)
(* A packet of n bytes is acknowledged: the peripheral stores it, sets     *)
(* VTRX and turns STAT_RX from VALID to NAK.                               *)
(***************************************************************************)
HostSends(n) ==
  /\ open /\ out.stat = "VALID" /\ ~out.vt
  /\ sent + n <= MaxSent
  /\ out' = [stat |-> "NAK", vt |-> TRUE, packet |-> [i \in 1 .. n |-> sent + i]]
  /\ sent' = sent + n
  /\ UNCHANGED <<deviceVars, in, pc, seen, busReset, downs, read, handed, received>>

(***************************************************************************)
(* The host polls the IN endpoint and takes whatever its packet buffer     *)
(* holds; STAT_TX turns from VALID to NAK and VTTX is set.                 *)
(***************************************************************************)
HostTakes ==
  /\ open /\ in.stat = "VALID"
  /\ received' = received \o in.packet
  /\ in' = [in EXCEPT !.stat = "NAK", !.vt = TRUE]
  /\ UNCHANGED <<deviceVars, out, pc, seen, busReset, downs, sent, read, handed>>

(***************************************************************************)
(* A reset on the bus clears the endpoint registers, except the VT flags,  *)
(* at once and raises ISTR.RESET.                                          *)
(***************************************************************************)
BusReset ==
  /\ downs < MaxDowns
  /\ downs' = downs + 1
  /\ open' = FALSE
  /\ out' = [out EXCEPT !.stat = "DISABLED"]
  /\ in' = [in EXCEPT !.stat = "DISABLED"]
  /\ busReset' = TRUE
  /\ UNCHANGED <<configured, rx, tx, pc, seen, sent, read, handed, received>>

-----------------------------------------------------------------------------
(* What the control endpoint does to the data path.                        *)

(* Mutant: any free byte is room enough.                                   *)
ReadEpWithSomeRoom(half, ring, isConfigured) ==
  IF isConfigured /\ Space(ring) > 0 THEN [half EXCEPT !.stat = "VALID"] ELSE half

(***************************************************************************)
(* usb_cdc_read_ep: arm the OUT endpoint if the rx ring has room for a     *)
(* whole packet.  ep_addr_out is assigned whenever configured holds.       *)
(***************************************************************************)
ReadEp(half, ring, isConfigured) ==
  IF isConfigured /\ Space(ring) >= Size THEN [half EXCEPT !.stat = "VALID"] ELSE half

(***************************************************************************)
(* usb_reset: the configuration and both rings are reset.  Nothing here    *)
(* touches the register of endpoint 2, so a VT flag that was pending when  *)
(* the reset came is still served afterwards.                              *)
(***************************************************************************)
IsrReset ==
  /\ pc = "idle" /\ busReset
  /\ busReset' = FALSE
  /\ configured' = FALSE
  /\ rx' = Reset(rx) /\ tx' = Reset(tx)
  /\ UNCHANGED <<open, out, in, pc, seen, downs, read, handed, hostVars>>

(***************************************************************************)
(* SET_CONFIGURATION(1) while unconfigured: usb_ep_close_all clears the    *)
(* register and with it the VT flags, usb_configuration_reset resets the   *)
(* rings, usb_cdc_open opens both halves (NAK) and arms the OUT half.      *)
(***************************************************************************)
Configure ==
  /\ pc = "idle" /\ ~busReset /\ ~configured
  /\ configured' = TRUE /\ open' = TRUE
  /\ rx' = Reset(rx) /\ tx' = Reset(tx)
  /\ out' = ReadEp([out EXCEPT !.stat = "NAK", !.vt = FALSE], Reset(rx), TRUE)
  /\ in' = [in EXCEPT !.stat = "NAK", !.vt = FALSE]
  /\ read' = sent
  /\ UNCHANGED <<pc, seen, busReset, downs, handed, hostVars>>

(***************************************************************************)
(* SET_CONFIGURATION(0).  Writing 0 to the register clears the address and *)
(* the VT flags and toggles no STAT bit.                                   *)
(***************************************************************************)
Deconfigure ==
  /\ pc = "idle" /\ ~busReset /\ configured
  /\ downs < MaxDowns
  /\ downs' = downs + 1
  /\ configured' = FALSE /\ open' = FALSE
  /\ rx' = Reset(rx) /\ tx' = Reset(tx)
  /\ out' = [out EXCEPT !.vt = FALSE]
  /\ in' = [in EXCEPT !.vt = FALSE]
  /\ read' = sent
  /\ UNCHANGED <<pc, seen, busReset, handed, hostVars>>

-----------------------------------------------------------------------------
(* The interrupt handler on a completed transfer of endpoint 2.            *)

(***************************************************************************)
(* usb_ep_clear_correct_transfer reads the register, clears one VT flag in *)
(* what it read and writes that back.  A 0 written to a VT flag clears it: *)
(* the flag of the other half, if the read found it 0 and the bus set it   *)
(* before the write, is lost.                                              *)
(***************************************************************************)
IsrOut ==
  /\ pc = "idle" /\ out.vt
  /\ pc' = "clearOut"
  /\ seen' = [stat |-> in.stat, vt |-> in.vt]
  /\ UNCHANGED <<deviceVars, out, in, busReset, downs, read, handed, hostVars>>

IsrIn ==
  /\ pc = "idle" /\ in.vt
  /\ pc' = "clearIn"
  /\ seen' = [stat |-> in.stat, vt |-> out.vt]
  /\ UNCHANGED <<deviceVars, out, in, busReset, downs, read, handed, hostVars>>

WrittenBack(vt) == vt /\ (ClearOverlaps => seen.vt)

(***************************************************************************)
(* usb_rx_packet and the first half of usb_ep_buffer_transfer: the packet  *)
(* goes into the rx ring.  The callback runs if the ring then counts more  *)
(* than 0 bytes; it starts by counting again, so both cases go to "echo".  *)
(***************************************************************************)
RxPacket ==
  /\ pc = "clearOut"
  /\ out' = [out EXCEPT !.vt = FALSE]
  /\ in' = [in EXCEPT !.vt = WrittenBack(@)]
  /\ rx' = AfterWrite(rx, out.packet)
  /\ pc' = "echo"
  /\ UNCHANGED <<configured, open, tx, seen, busReset, downs, read, handed, hostVars>>

(***************************************************************************)
(* One round of usb_cdc_rx_cb: read a byte, write it back.  usb_cdc_read   *)
(* first tries to re-arm the OUT half.  usb_cdc_write always goes on to    *)
(* usb_cdc_write_ep, which moves the tx ring into the IN packet buffer     *)
(* without asking whether the packet there was taken.                      *)
(***************************************************************************)
Echo ==
  /\ pc = "echo" /\ Count(rx) > 0
  /\ out' = ReadEp(out, rx, configured)
  /\ rx' = AfterRead(rx, 1)
  /\ read' = read + 1
  /\ handed' = ReadBytes(rx, 1)[1]
  /\ LET written == AfterWrite(tx, ReadBytes(rx, 1)) IN
       IF configured /\ Count(written) > 0
       THEN /\ tx' = AfterRead(written, Size)
            /\ in' = [in EXCEPT !.packet = ReadBytes(written, Size)]
            /\ pc' = "fill"
       ELSE tx' = written /\ UNCHANGED <<in, pc>>
  /\ UNCHANGED <<configured, open, seen, busReset, downs, hostVars>>

(***************************************************************************)
(* The end of usb_tx_packet.  STAT bits toggle where a 1 is written:       *)
(* usb_ep_status sets the bits in which the state read differs from VALID. *)
(***************************************************************************)
ReadTxStat ==
  /\ pc = "fill"
  /\ seen' = [stat |-> in.stat, vt |-> FALSE]
  /\ pc' = "set"
  /\ UNCHANGED <<deviceVars, out, in, busReset, downs, read, handed, hostVars>>

(* The exclusive or of two states: DISABLED is 00, and the other three are *)
(* such that any two of them give the third.                               *)
Xor(a, b) ==
  CASE a = b          -> "DISABLED"
    [] a = "DISABLED" -> b
    [] b = "DISABLED" -> a
    [] OTHER          -> CHOOSE s \in Stat : s \notin {a, b, "DISABLED"}

(* Mutant: the state is written as if its bits were plain, not toggled.    *)
WriteTxStatPlain ==
  /\ pc = "set"
  /\ in' = [in EXCEPT !.stat = Xor(@, "VALID")]
  /\ pc' = "echo"
  /\ UNCHANGED <<deviceVars, out, seen, busReset, downs, read, handed, hostVars>>

WriteTxStat ==
  /\ pc = "set"
  /\ in' = [in EXCEPT !.stat = Xor(@, Xor(seen.stat, "VALID"))]
  /\ pc' = "echo"
  /\ UNCHANGED <<deviceVars, out, seen, busReset, downs, read, handed, hostVars>>

(* Mutant: the OUT half is not armed again after the callback.             *)
EchoEndUnarmed ==
  /\ pc = "echo" /\ Count(rx) = 0
  /\ pc' = "idle"
  /\ UNCHANGED <<deviceVars, out, in, seen, busReset, downs, read, handed, hostVars>>

(***************************************************************************)
(* The ring counts 0: usb_ep_buffer_transfer re-arms the OUT half.         *)
(***************************************************************************)
EchoEnd ==
  /\ pc = "echo" /\ Count(rx) = 0
  /\ out' = ReadEp(out, rx, configured)
  /\ pc' = "idle"
  /\ UNCHANGED <<deviceVars, in, seen, busReset, downs, read, handed, hostVars>>

(***************************************************************************)
(* The second half of usb_ep_buffer_transfer: the IN packet was taken.     *)
(* More data in the tx ring goes out; else a whole packet is followed by   *)
(* an empty one.                                                           *)
(***************************************************************************)
TxComplete ==
  /\ pc = "clearIn"
  /\ out' = [out EXCEPT !.vt = WrittenBack(@)]
  /\ IF configured /\ Count(tx) > 0
     THEN /\ tx' = AfterRead(tx, Size)
          /\ in' = [stat |-> "VALID", vt |-> FALSE, packet |-> ReadBytes(tx, Size)]
     ELSE /\ in' = IF Count(tx) = 0 /\ in.packet # << >> /\ Len(in.packet) % Size = 0
                   THEN [stat |-> "VALID", vt |-> FALSE, packet |-> << >>]
                   ELSE [in EXCEPT !.vt = FALSE]
          /\ UNCHANGED tx
  /\ pc' = "idle"
  /\ UNCHANGED <<configured, open, rx, seen, busReset, downs, read, handed, hostVars>>

-----------------------------------------------------------------------------
Isr ==
  \/ IsrReset
  \/ IsrOut \/ RxPacket \/ Echo \/ ReadTxStat \/ WriteTxStat \/ EchoEnd
  \/ IsrIn \/ TxComplete

Next ==
  \/ \E n \in PacketSizes : HostSends(n)
  \/ HostTakes
  \/ BusReset
  \/ Configure
  \/ Deconfigure
  \/ Isr

Spec == Init /\ [][Next]_vars

(***************************************************************************)
(* A pending interrupt is served, and the host keeps polling the IN        *)
(* endpoint of an open interface, as a host that reads the port does.      *)
(***************************************************************************)
FairSpec == Spec /\ WF_vars(Isr) /\ WF_vars(HostTakes)

-----------------------------------------------------------------------------
(* What the data path promises.                                            *)

(***************************************************************************)
(* Flow control: the OUT half accepts a packet only once the callback has  *)
(* read every byte acknowledged before ("If the buffer is empty then we    *)
(* can queue more data", usb_cdc_read_ep).  Otherwise a packet would meet  *)
(* a ring without room, and circular_buffer_write cuts it silently.        *)
(***************************************************************************)
ArmedOnlyAfterRead == (open /\ out.stat = "VALID") => read = sent

(***************************************************************************)
(* Every byte acknowledged to the host has been read (or dropped with the  *)
(* interface), is in the rx ring, or is in a packet whose interrupt is     *)
(* still pending: neither the ring nor a cleared flag loses one ("we need  *)
(* to iterate until all queued are cleared", USB_UCPD1_2_IRQHandler).      *)
(***************************************************************************)
NothingLost == sent - read = Count(rx) + (IF out.vt THEN Len(out.packet) ELSE 0)

(***************************************************************************)
(* The path from the host to the callback is the reliable byte stream of   *)
(* ByteStream: on their way are the bytes in the rx ring and the packet    *)
(* whose interrupt is pending.                                             *)
(***************************************************************************)
OnTheirWay == Contents(rx) \o (IF out.vt THEN out.packet ELSE << >>)

Stream == INSTANCE ByteStream WITH
  up       <- open,
  inFlight <- OnTheirWay,
  Limit    <- Size,
  Final    <- MaxSent

ImplementsStream == Stream!Spec

(***************************************************************************)
(* The echo may lose bytes (usb_cdc_write_ep overwrites a packet the host  *)
(* has not taken) and may repeat one (the host takes the new packet before *)
(* STAT_TX is set again), but the host never sees a byte after a later one *)
(* and never one the callback has not read.                                *)
(***************************************************************************)
EchoInOrder ==
  /\ \A i, j \in DOMAIN received : i < j => received[i] <= received[j]
  /\ \A i \in DOMAIN received : received[i] <= handed

(***************************************************************************)
(* Whatever the echo overwrites, the last byte of a packet comes back, or  *)
(* a later one does, unless the interface goes down: the final queued      *)
(* transfer is never left in a buffer whose STAT_TX stays NAK.             *)
(***************************************************************************)
LastByteReturns ==
  \A n \in 1 .. MaxSent :
    (open /\ out.vt /\ out.packet # << >> /\ out.packet[Len(out.packet)] = n)
      ~> (~open \/ \E i \in DOMAIN received : received[i] >= n)

(***************************************************************************)
(* An acknowledged packet never leaves the OUT half refusing for good.     *)
(***************************************************************************)
OutRearmed == (open /\ out.vt) ~> (~open \/ out.stat = "VALID")
=============================================================================
