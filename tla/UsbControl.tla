----------------------------- MODULE UsbControl -----------------------------
(***************************************************************************)
(* Control transfers: the host, endpoint 0 of the USB peripheral, the      *)
(* interrupt handler of usb_hal.c and the request processing of            *)
(* usb_device.c and usb_cdc.c.                                             *)
(*                                                                         *)
(* The handler reads the endpoint register once and then serves what it    *)
(* read: first a received SETUP or OUT packet, then a completed IN packet. *)
(* The bus goes on meanwhile, so the steps are separate actions.  Byte n   *)
(* of a descriptor is the number n.                                        *)
(***************************************************************************)
EXTENDS Integers, Sequences, PacketMemory

CONSTANTS
  PacketSize,     \* USB_EP0_BUFFER_SIZE
  Lengths,        \* lengths of the descriptors the host may ask for
  Wanted,         \* values of wLength it asks with
  Addresses,      \* device addresses it may assign
  Values,         \* line codings, line states and feature values it may set
  HostWaits       \* a SETUP comes only when the handler is done with the last

ASSUME PacketAssumption ==
  /\ PacketSize \in Nat \ {0}
  /\ Lengths \subseteq Nat \ {0} /\ Wanted \subseteq Nat
  /\ \A n \in Wanted : n < 65536   \* wLength has 16 bits
  /\ Addresses \subseteq Nat \ {0} /\ Values \subseteq Nat
  /\ HostWaits \in BOOLEAN

VARIABLES
  dev,        \* usb_device, with the line settings of usb_cdc
  daddr,      \* the address the peripheral answers to (USB->DADDR)
  transfer,   \* control_transfer: request, bytes to feed, fed, callback
  out, in,    \* the halves of endpoint 0
  bulk,       \* STAT_RX of the bulk OUT endpoint, as far as EP0 changes it
  memory,     \* endpoint registers and packet memory handed out
  pc, txSeen, \* where the handler is; VTTX was set when it read the register
  busReset,   \* ISTR.RESET is pending
  host        \* the host: its request, what it got, what it believes

vars == <<dev, daddr, transfer, out, in, bulk, memory, pc, txSeen, busReset,
          host>>
handler == <<pc, txSeen>>

-----------------------------------------------------------------------------
(* The requests.  "none" is the zeroed request of usb_control_transfer_reset. *)

Request(kinds, dirs, lengths, values) ==
  [kind : kinds, in : dirs, wLength : lengths, value : values]

NoRequest == [kind |-> "none", in |-> FALSE, wLength |-> 0, value |-> 0]

Class      == {"setLineCoding", "getLineCoding", "setLineState", "sendBreak"}
Constant   == {"getConfiguration"}   \* answered with a 0, as GET_INTERFACE is
Getters    == {"getDescriptor", "getLineCoding", "getStatus"} \cup Constant
\* No effect, as SET_INTERFACE and a SET_LINE_CODING without data have none.
StatusOnly == {"sendBreak"}

\* Endpoint addresses in wIndex: the halves of endpoint 0 and the bulk OUT one.
Ep0Out  == 0
Ep0In   == 128
BulkOut == 2

\* Of the IN requests without data, those for a descriptor stand for any.
Requests ==
  UNION { Request({"getDescriptor"}, {TRUE}, Wanted, Lengths),
          Request(Getters \ {"getDescriptor"}, {TRUE}, {1}, {0}),
          Request({"setLineCoding"}, {FALSE}, {1}, Values),
          Request({"setLineState", "setWakeup"}, {FALSE}, {0}, Values),
          Request(StatusOnly, {FALSE}, {0}, {0}),
          Request({"setAddress"}, {FALSE}, {0}, Addresses),
          Request({"setConfiguration"}, {FALSE}, {0}, {0, 1}),
          Request({"setHalt", "clearHalt"}, {FALSE}, {0}, {Ep0Out, Ep0In, BulkOut}),
          Request({"unsupported"}, BOOLEAN, {1}, {0}),
          Request({"unsupported"}, {FALSE}, {0}, {0}) }

Stat   == {"DISABLED", "STALL", "NAK", "VALID"}
Steps  == {"idle", "rx", "again", "tx"}
Phases == {"ready", "data", "status"}
Bytes  == Seq(Nat)
Packet == {p \in Bytes : Len(p) <= PacketSize}

Unknown == -1   \* what the host believes of the line after a reset

TypeOK ==
  /\ dev \in [address : Nat, addressed : BOOLEAN, pending : Nat, config : {0, 1},
              wakeup : Nat, connected : BOOLEAN, coding : Nat, lineState : Nat]
  /\ daddr \in Addresses \cup {0}
  /\ transfer \in [request : Requests \cup {NoRequest}, total : Nat, fed : Nat,
                   callback : {"none", "address", "cdc"}]
  /\ out \in [stat : Stat, vt : BOOLEAN, request : Requests \cup {NoRequest}, packet : Packet]
  /\ in \in [stat : Stat, vt : BOOLEAN, packet : Packet]
  /\ bulk \in Stat
  /\ memory.next \in TableSize .. MemorySize
  /\ pc \in Steps /\ txSeen \in BOOLEAN
  /\ busReset \in BOOLEAN
  /\ host \in [phase : Phases, request : Requests \cup {NoRequest}, got : Bytes,
               address : Addresses \cup {0}, config : {0, 1},
               coding : Nat \cup {Unknown}, lineState : Nat \cup {Unknown}]

Blank ==
  [address |-> 0, addressed |-> FALSE, pending |-> 0, config |-> 0,
   wakeup |-> 0, connected |-> FALSE, coding |-> 0, lineState |-> 0]

NoTransfer == [request |-> NoRequest, total |-> 0, fed |-> 0, callback |-> "none"]

Init ==
  /\ dev = Blank /\ daddr = 0 /\ transfer = NoTransfer
  /\ out = [stat |-> "NAK", vt |-> FALSE, request |-> NoRequest, packet |-> << >>]
  /\ in = [stat |-> "NAK", vt |-> FALSE, packet |-> << >>]
  /\ bulk = "DISABLED" /\ memory = ControlOpen
  /\ pc = "idle" /\ txSeen = FALSE
  /\ busReset = FALSE
  /\ host = [phase |-> "ready", request |-> NoRequest, got |-> << >>,
             address |-> 0, config |-> 0, coding |-> Unknown, lineState |-> Unknown]

-----------------------------------------------------------------------------
(* The host and the bus.                                                   *)

Served == pc = "idle" /\ ~out.vt /\ ~in.vt /\ ~busReset

(***************************************************************************)
(* A SETUP packet reaches the device at its current address and is taken   *)
(* unless the receiving half is disabled, but not while VTRX is set.  Both *)
(* halves turn to NAK.                                                     *)
(***************************************************************************)
Setup(r) ==
  /\ host.phase = "ready" /\ host.address = daddr
  /\ ~busReset /\ out.stat # "DISABLED" /\ ~out.vt
  /\ HostWaits => Served
  /\ out' = [out EXCEPT !.stat = "NAK", !.vt = TRUE, !.request = r]
  /\ in' = [in EXCEPT !.stat = "NAK"]
  /\ host' = [host EXCEPT !.phase = IF r.wLength > 0 THEN "data" ELSE "status",
                          !.request = r, !.got = << >>]
  /\ UNCHANGED <<dev, daddr, transfer, bulk, memory, handler, busReset>>

(***************************************************************************)
(* The host is through with its request, or done with it.                  *)
(***************************************************************************)
Ready(h) == [h EXCEPT !.phase = "ready", !.request = NoRequest, !.got = << >>]

(***************************************************************************)
(* What the host believes once a request has completed.                    *)
(***************************************************************************)
Believes(h) ==
  LET v == h.request.value
      d == Ready(h)
  IN  CASE h.request.kind = "setAddress"       -> [d EXCEPT !.address = v]
        [] h.request.kind = "setConfiguration" -> [d EXCEPT !.config = v]
        [] h.request.kind = "setLineCoding"    -> [d EXCEPT !.coding = v]
        [] h.request.kind = "setLineState"     -> [d EXCEPT !.lineState = v]
        [] OTHER                               -> d

(***************************************************************************)
(* The stage the host is in is an IN stage: data of an IN request, or the  *)
(* status of any other and of a request without data.                      *)
(***************************************************************************)
PollsIn ==
  IF host.phase = "data" THEN host.request.in
  ELSE ~host.request.in \/ host.request.wLength = 0

(***************************************************************************)
(* The host polls the IN half and takes its packet.  A data stage ends     *)
(* with a short packet or with the last byte asked for.                    *)
(***************************************************************************)
HostTakes ==
  /\ host.phase # "ready" /\ PollsIn
  /\ ~busReset /\ in.stat = "VALID"
  /\ in' = [in EXCEPT !.stat = "NAK", !.vt = TRUE]
  /\ LET got == host.got \o in.packet IN
       host' = IF host.phase = "status" THEN Believes(host)
               ELSE IF Len(in.packet) < PacketSize \/ Len(got) >= host.request.wLength
                    THEN [host EXCEPT !.got = got, !.phase = "status"]
                    ELSE [host EXCEPT !.got = got]
  /\ UNCHANGED <<dev, daddr, transfer, out, bulk, memory, handler, busReset>>

(***************************************************************************)
(* The host sends the data of an OUT request, or the empty packet that is  *)
(* the status of an IN request.                                            *)
(***************************************************************************)
HostSends ==
  /\ host.phase # "ready" /\ ~PollsIn
  /\ ~busReset /\ out.stat = "VALID" /\ ~out.vt
  /\ LET packet == IF host.phase = "data" THEN <<host.request.value>> ELSE << >> IN
       out' = [stat |-> "NAK", vt |-> TRUE, request |-> NoRequest, packet |-> packet]
  /\ host' = IF host.phase = "data" THEN [host EXCEPT !.phase = "status"] ELSE Believes(host)
  /\ UNCHANGED <<dev, daddr, transfer, in, bulk, memory, handler, busReset>>

(***************************************************************************)
(* The half the host polls answers STALL: the request has failed.          *)
(***************************************************************************)
HostStalled ==
  /\ host.phase # "ready" /\ ~busReset
  /\ "STALL" = IF PollsIn THEN in.stat ELSE out.stat
  /\ host' = Ready(host)
  /\ UNCHANGED <<dev, daddr, transfer, out, in, bulk, memory, handler, busReset>>

(***************************************************************************)
(* The device has served everything and still answers NAK: the host times  *)
(* out.                                                                    *)
(***************************************************************************)
HostGivesUp ==
  /\ host.phase # "ready" /\ Served
  /\ (IF PollsIn THEN in.stat ELSE out.stat) \in {"NAK", "DISABLED"}
  /\ host' = Ready(host)
  /\ UNCHANGED <<dev, daddr, transfer, out, in, bulk, memory, handler, busReset>>

BusReset ==
  /\ ~busReset
  /\ busReset' = TRUE
  /\ out' = [out EXCEPT !.stat = "DISABLED"]
  /\ in' = [in EXCEPT !.stat = "DISABLED"]
  /\ bulk' = "DISABLED"
  /\ host' = [Ready(host) EXCEPT !.address = 0, !.config = 0,
                                 !.coding = Unknown, !.lineState = Unknown]
  /\ UNCHANGED <<dev, daddr, transfer, memory, handler>>

-----------------------------------------------------------------------------
(* The handler reads the register.                                         *)

(***************************************************************************)
(* usb_reset: DADDR is cleared, endpoint 0 set up again (NAK, VT flags     *)
(* cleared), the other endpoints are forgotten, usb_device and             *)
(* control_transfer are zeroed.                                            *)
(***************************************************************************)
IsrReset ==
  /\ pc = "idle" /\ busReset
  /\ busReset' = FALSE
  /\ daddr' = 0
  /\ dev' = [Blank EXCEPT !.coding = dev.coding, !.lineState = dev.lineState]
  /\ transfer' = NoTransfer
  /\ out' = [out EXCEPT !.stat = "NAK", !.vt = FALSE]
  /\ in' = [in EXCEPT !.stat = "NAK", !.vt = FALSE]
  /\ memory' = ControlOpen
  /\ UNCHANGED <<bulk, handler, host>>

IsrRead ==
  /\ pc = "idle" /\ ~busReset /\ (out.vt \/ in.vt)
  /\ txSeen' = in.vt
  /\ pc' = IF out.vt THEN "rx" ELSE "tx"
  /\ UNCHANGED <<dev, daddr, transfer, out, in, bulk, memory, busReset, host>>

AfterRx == IF txSeen THEN "tx" ELSE "idle"

-----------------------------------------------------------------------------
(* Queueing on endpoint 0.                                                 *)

QueueIn(packet) == [in EXCEPT !.stat = "VALID", !.packet = packet]

ClearRx     == [out EXCEPT !.vt = FALSE, !.request = NoRequest, !.packet = << >>]
ArmRx(half) == [half EXCEPT !.stat = "VALID"]

(***************************************************************************)
(* What the feed buffer of an IN request points to.                        *)
(***************************************************************************)
Source(r) ==
  CASE r.kind = "getDescriptor" -> [i \in 1 .. r.value |-> i]
    [] r.kind = "getLineCoding" -> <<dev.coding>>
    [] r.kind = "getStatus"     -> <<1 + 2 * dev.wakeup>>
    [] OTHER                    -> <<0>>

Least(m, n) == IF m <= n THEN m ELSE n

(* Mutant: the packet is not cut to the size of the endpoint.              *)
NextPacketUncut(t) == SubSeq(Source(t.request), t.fed + 1, t.total)

(* Mutant: every packet starts where the first one did.                    *)
NextPacketFromStart(t) ==
  SubSeq(Source(t.request), 1, Least(t.total - t.fed, PacketSize))

(***************************************************************************)
(* The next packet of a data stage (feed_forward_remaining_count and the   *)
(* copy of usb_control_data_stage).  The 16-bit difference wraps when more *)
(* was fed than there was; 0 stands for whatever lies behind the source.   *)
(***************************************************************************)
NextPacket(t) ==
  LET count  == Least((t.total - t.fed) % 65536, PacketSize)
      source == Source(t.request)
  IN  [i \in 1 .. count |-> IF t.fed + i <= Len(source) THEN source[t.fed + i] ELSE 0]

-----------------------------------------------------------------------------
(* A SETUP packet: usb_ep_setup clears VTRX, usb_process_control_request   *)
(* clears the callback, notes the connection and serves the request.       *)

Process(kinds) == pc = "rx" /\ out.request.kind \in kinds

Request0 == out.request
Noted    == [dev EXCEPT !.connected = TRUE]

Started(callback, total) ==
  [request |-> Request0, total |-> total, fed |-> 0, callback |-> callback]

Callback == IF Request0.kind \in Class THEN "cdc" ELSE "none"

(***************************************************************************)
(* usb_ep_initiate_control_response for an IN request: the first packet,   *)
(* or, when no data is asked for, the status in the direction opposite to  *)
(* the request's, where the host does not look for it.                     *)
(***************************************************************************)
Get ==
  /\ Process(Getters)
  /\ transfer' = Started(Callback, Least(Len(Source(Request0)), Request0.wLength))
  /\ IF Request0.wLength > 0
     THEN in' = QueueIn(NextPacket(transfer')) /\ out' = ClearRx
     ELSE out' = ArmRx(ClearRx) /\ UNCHANGED in
  /\ dev' = Noted
  /\ pc' = AfterRx
  /\ UNCHANGED <<daddr, bulk, memory, txSeen, busReset, host>>

(***************************************************************************)
(* The same for an OUT request: endpoint 0 is armed for the data.          *)
(***************************************************************************)
SetLineCoding ==
  /\ Process({"setLineCoding"})
  /\ transfer' = Started(Callback, Request0.wLength)
  /\ out' = ArmRx(ClearRx)
  /\ dev' = Noted
  /\ pc' = AfterRx
  /\ UNCHANGED <<daddr, in, bulk, memory, txSeen, busReset, host>>

(***************************************************************************)
(* Requests that change what they change at once, or when the status is    *)
(* through, and go to the status stage (usb_control_init_status_stage).    *)
(***************************************************************************)
SetAtOnce ==
  /\ Process({"setLineState", "setWakeup"} \cup StatusOnly)
  /\ transfer' = Started(Callback, 0)
  /\ in' = QueueIn(<< >>)
  /\ out' = ClearRx
  /\ dev' = IF Request0.kind = "setWakeup" THEN [Noted EXCEPT !.wakeup = Request0.value] ELSE Noted
  /\ pc' = AfterRx
  /\ UNCHANGED <<daddr, bulk, memory, txSeen, busReset, host>>

(* Mutant: the address is taken at once, before the status stage.          *)
SetAddressEarly ==
  /\ Process({"setAddress"})
  /\ transfer' = Started("address", 0)
  /\ in' = QueueIn(<< >>)
  /\ out' = ClearRx
  /\ dev' = [Noted EXCEPT !.pending = Request0.value]
  /\ daddr' = Request0.value
  /\ pc' = "again"
  /\ UNCHANGED <<bulk, memory, txSeen, busReset, host>>

(***************************************************************************)
(* usb_device_set_address remembers the address and queues the status      *)
(* twice; the host may take the first one in between.                      *)
(***************************************************************************)
SetAddress ==
  /\ Process({"setAddress"})
  /\ transfer' = Started("address", 0)
  /\ in' = QueueIn(<< >>)
  /\ out' = ClearRx
  /\ dev' = [Noted EXCEPT !.pending = Request0.value]
  /\ pc' = "again"
  /\ UNCHANGED <<daddr, bulk, memory, txSeen, busReset, host>>

QueueAgain ==
  /\ pc = "again"
  /\ in' = QueueIn(<< >>)
  /\ pc' = AfterRx
  /\ UNCHANGED <<dev, daddr, transfer, out, bulk, memory, txSeen, busReset, host>>

(* Mutant: the configuration number is not kept across the memset.         *)
SetConfigurationForgotten ==
  /\ Process({"setConfiguration"})
  /\ transfer' = Started("none", 0)
  /\ in' = QueueIn(<< >>)
  /\ out' = ClearRx
  /\ dev' = [Blank EXCEPT !.coding = dev.coding, !.lineState = dev.lineState]
  /\ bulk' = IF Request0.value = 1 THEN "VALID" ELSE bulk
  /\ memory' = IF Request0.value = 1 THEN OpenData(Close(memory)) ELSE Close(memory)
  /\ pc' = AfterRx
  /\ UNCHANGED <<daddr, txSeen, busReset, host>>

(***************************************************************************)
(* usb_set_configuration.  A change zeroes usb_device, the address and     *)
(* "connected" included, before the number is set; the peripheral keeps    *)
(* its address.  The endpoints are closed and opened again; opening the    *)
(* data interface arms its OUT endpoint, closing leaves the STAT bits as   *)
(* they are (see UsbCdc).                                                  *)
(***************************************************************************)
SetConfiguration ==
  /\ Process({"setConfiguration"})
  /\ transfer' = Started("none", 0)
  /\ in' = QueueIn(<< >>)
  /\ out' = ClearRx
  /\ IF dev.config = Request0.value
     THEN dev' = Noted /\ UNCHANGED <<bulk, memory>>
     ELSE /\ dev' = [Blank EXCEPT !.config = Request0.value,
                                  !.coding = dev.coding, !.lineState = dev.lineState]
          /\ bulk' = IF Request0.value = 1 THEN "VALID" ELSE bulk
          /\ memory' = IF Request0.value = 1 THEN OpenData(Close(memory)) ELSE Close(memory)
  /\ pc' = AfterRx
  /\ UNCHANGED <<daddr, txSeen, busReset, host>>

(***************************************************************************)
(* The STAT of a half whose endpoint is halted, or whose halt is cleared:  *)
(* usb_ep_stall_clear_hal writes the STAT bits back as it read them, and   *)
(* as they toggle, they all become 0.                                      *)
(***************************************************************************)
HaltStat == IF Request0.kind = "setHalt" THEN "STALL" ELSE "DISABLED"

(***************************************************************************)
(* SET_FEATURE and CLEAR_FEATURE(ENDPOINT_HALT) report success but queue   *)
(* no status.  The endpoint is any of those in wIndex, endpoint 0          *)
(* included.                                                               *)
(***************************************************************************)
EndpointHalt ==
  /\ Process({"setHalt", "clearHalt"})
  /\ LET at == Request0.value
     IN  /\ out' = [ClearRx EXCEPT !.stat = IF at = Ep0Out THEN HaltStat ELSE @]
         /\ in' = [in EXCEPT !.stat = IF at = Ep0In THEN HaltStat ELSE @]
         /\ bulk' = IF at = BulkOut THEN HaltStat ELSE bulk
  /\ transfer' = [transfer EXCEPT !.callback = "none"]
  /\ dev' = Noted
  /\ pc' = AfterRx
  /\ UNCHANGED <<daddr, memory, txSeen, busReset, host>>

(***************************************************************************)
(* A request that cannot be served.  process_control_request_hal hands an  *)
(* endpoint direction (0x80, 0x00) where a direction index (1, 0) is       *)
(* expected, so both its calls stall the receiving half.  A request to the *)
(* interface has set the callback by then, one to the device has not.      *)
(***************************************************************************)
Unsupported ==
  /\ Process({"unsupported"})
  /\ out' = [ClearRx EXCEPT !.stat = "STALL"]
  /\ \E callback \in {"none", "cdc"} : transfer' = [transfer EXCEPT !.callback = callback]
  /\ dev' = Noted
  /\ pc' = AfterRx
  /\ UNCHANGED <<daddr, in, bulk, memory, txSeen, busReset, host>>

-----------------------------------------------------------------------------
(* usb_control_transfer: a packet of endpoint 0 is through.  In the        *)
(* direction opposite to the request it is the status stage.               *)

(* Mutant: the callback of a class request is forgotten in the status.     *)
StatusDoneSilent ==
  IF transfer.callback = "address"
  THEN /\ dev' = [dev EXCEPT !.address = dev.pending, !.addressed = (dev.pending # 0), !.pending = 0]
       /\ daddr' = dev.pending
  ELSE UNCHANGED <<dev, daddr>>

StatusDone ==
  CASE transfer.callback = "address" ->
         /\ dev' = [dev EXCEPT !.address = dev.pending, !.addressed = (dev.pending # 0),
                               !.pending = 0]
         /\ daddr' = dev.pending
    [] transfer.callback = "cdc" /\ transfer.request.kind = "setLineState" ->
         /\ dev' = [dev EXCEPT !.lineState = transfer.request.value]
         /\ UNCHANGED daddr
    [] OTHER -> UNCHANGED <<dev, daddr>>

(***************************************************************************)
(* usb_rx_packet, for an IN request: its status.  A packet that is not     *)
(* empty is ignored.                                                       *)
(***************************************************************************)
OutStatus ==
  /\ pc = "rx" /\ out.request = NoRequest /\ transfer.request.in
  /\ out' = ClearRx
  /\ IF out.packet = << >> THEN StatusDone ELSE UNCHANGED <<dev, daddr>>
  /\ pc' = AfterRx
  /\ UNCHANGED <<transfer, in, bulk, memory, txSeen, busReset, host>>

(***************************************************************************)
(* usb_rx_packet, for an OUT request: its data, which fits one packet, is  *)
(* copied to the feed buffer, and the status is queued.                    *)
(***************************************************************************)
OutData ==
  /\ pc = "rx" /\ out.request = NoRequest /\ ~transfer.request.in
  /\ out' = ClearRx
  /\ IF transfer.request.kind = "setLineCoding"
     THEN /\ dev' = [dev EXCEPT !.coding = out.packet[1]]
          /\ transfer' = [transfer EXCEPT !.fed = @ + Len(out.packet)]
          /\ in' = QueueIn(<< >>)
     ELSE UNCHANGED <<dev, transfer, in>>
  /\ pc' = AfterRx
  /\ UNCHANGED <<daddr, bulk, memory, txSeen, busReset, host>>

ClearTx == [in EXCEPT !.vt = FALSE, !.packet = << >>]

(***************************************************************************)
(* A completed IN packet while the request is not an IN request: its       *)
(* status.                                                                 *)
(***************************************************************************)
InStatus ==
  /\ pc = "tx" /\ ~transfer.request.in
  /\ in' = ClearTx
  /\ IF in.packet = << >> THEN StatusDone ELSE UNCHANGED <<dev, daddr>>
  /\ pc' = "idle" /\ txSeen' = FALSE
  /\ UNCHANGED <<transfer, out, bulk, memory, busReset, host>>

(* Mutant: only a short packet ends the data stage.                        *)
LastPacketIfShort(t, n) == n < PacketSize

(***************************************************************************)
(* The data stage ends when every byte asked for was fed or with a short   *)
(* packet of n bytes.                                                      *)
(***************************************************************************)
LastPacket(t, n) == t.request.wLength = t.fed \/ n < PacketSize

(***************************************************************************)
(* A completed IN packet of an IN request: the next packet, or the OUT     *)
(* half is armed for the status.                                           *)
(***************************************************************************)
InData ==
  /\ pc = "tx" /\ transfer.request.in
  /\ LET n == Len(in.packet)
         t == [transfer EXCEPT !.fed = @ + n]
     IN  /\ transfer' = t
         /\ IF LastPacket(t, n)
            THEN out' = ArmRx(out) /\ in' = ClearTx
            ELSE UNCHANGED out /\ in' = [stat |-> "VALID", vt |-> FALSE, packet |-> NextPacket(t)]
  /\ pc' = "idle" /\ txSeen' = FALSE
  /\ UNCHANGED <<dev, daddr, bulk, memory, busReset, host>>

-----------------------------------------------------------------------------
Isr ==
  \/ IsrReset \/ IsrRead
  \/ Get \/ SetLineCoding \/ SetAtOnce \/ SetAddress \/ QueueAgain
  \/ SetConfiguration \/ EndpointHalt \/ Unsupported
  \/ OutStatus \/ OutData \/ InStatus \/ InData

HostContinues == HostTakes \/ HostSends \/ HostStalled

Next ==
  \/ \E r \in Requests : Setup(r)
  \/ HostContinues
  \/ HostGivesUp
  \/ BusReset
  \/ Isr

Spec == Init /\ [][Next]_vars

(***************************************************************************)
(* A pending interrupt is served, and the host goes on with a transfer it  *)
(* can go on with.  Nothing makes it start one or give one up.             *)
(***************************************************************************)
FairSpec == Spec /\ WF_vars(Isr) /\ WF_vars(HostContinues)

-----------------------------------------------------------------------------
(* What control transfers promise.                                         *)

(***************************************************************************)
(* "Per USB spec: apply address only after status stage completes"         *)
(* (usb_device_set_address): DADDR only ever takes an address whose status *)
(* the host has got.                                                       *)
(***************************************************************************)
AddressAfterStatus == [][(daddr' # daddr /\ ~busReset) => daddr' = host.address]_vars

(***************************************************************************)
(* The data stage of an IN request hands the host exactly the first        *)
(* min(length, wLength) bytes, over as many packets as that takes, with    *)
(* the empty packet a full last one needs (usb_control_transfer).          *)
(***************************************************************************)
Delivered ==
  (host.request.in /\ host.phase = "status" /\ host.request.kind # "unsupported")
    => host.got = SubSeq(Source(host.request), 1,
                         Least(Len(Source(host.request)), host.request.wLength))

(***************************************************************************)
(* An IN request that asks for no data: its status is queued on the half   *)
(* the host does not poll (usb_ep_initiate_control_response), although the *)
(* comment of usb_process_control_request says "or IN if there was no data *)
(* stage".                                                                 *)
(***************************************************************************)
Misdirected(r) == r.kind \in Getters /\ r.wLength = 0

(***************************************************************************)
(* Host and device never disagree on the stage they are in: the device     *)
(* does not arm for the status while the host still expects data, offers   *)
(* no data the host no longer expects, and its status is empty.  The one   *)
(* request it is out of step with is an IN request without data.           *)
(***************************************************************************)
InStep ==
  host.phase # "ready" =>
    /\ PollsIn /\ ~Misdirected(host.request) => out.stat # "VALID"
    /\ ~PollsIn => in.stat # "VALID"
    /\ host.phase = "status" /\ in.stat = "VALID" => in.packet = << >>

(***************************************************************************)
(* Once everything is served, the device is what the host believes it is:  *)
(* it answers at the address the host uses, is configured as the host has  *)
(* set it and has the line settings the host has set.                      *)
(***************************************************************************)
Agreement ==
  (Served /\ host.phase = "ready") =>
    /\ daddr = host.address /\ (dev.addressed => dev.address = daddr)
    /\ dev.config = host.config
    /\ host.coding \in {dev.coding, Unknown}
    /\ host.lineState \in {dev.lineState, Unknown}

(***************************************************************************)
(* The buffers of the open endpoints never share a byte of packet memory   *)
(* (usb_pma_next_addr, usb_ep_close_all), through any sequence of resets   *)
(* and changes of configuration.                                           *)
(***************************************************************************)
BuffersApart == Apart(memory)

(***************************************************************************)
(* usb_ep_assign hands every endpoint the register of its own number,      *)
(* which usb_ep_queue_transfer_hal and usb_rx_packet take for granted; a   *)
(* configured device has all its endpoints open, any other endpoint 0.     *)
(***************************************************************************)
RegistersDirect ==
  /\ Direct(memory)
  /\ {o.endpoint : o \in memory.open} = {ControlIn, ControlOut} \cup
       IF dev.config = 1 THEN {Notification, DataOut, DataIn} ELSE {}

(***************************************************************************)
(* A request the device has taken and can serve is served to its end,      *)
(* whatever was rejected or left hanging before it.  It cannot serve the   *)
(* unsupported ones, those for ENDPOINT_HALT, which get no status, and an  *)
(* IN request without data; it takes none after the halt of endpoint 0 was *)
(* cleared, until a bus reset.                                             *)
(***************************************************************************)
Servable ==
  /\ host.request.kind \notin {"none", "unsupported", "setHalt", "clearHalt"}
  /\ ~Misdirected(host.request)

Answered == []<>~Servable

(***************************************************************************)
(* "If a device detects a condition that prevents it from completing the   *)
(* request, it must indicate the error by returning a STALL handshake"     *)
(* (process_control_request_hal): the host is not left with NAK.           *)
(***************************************************************************)
RejectionStalls ==
  (Served /\ host.phase # "ready" /\ host.request.kind = "unsupported")
    => "STALL" = IF PollsIn THEN in.stat ELSE out.stat
=============================================================================
