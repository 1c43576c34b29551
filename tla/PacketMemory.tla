---------------------------- MODULE PacketMemory ----------------------------
(***************************************************************************)
(* Endpoint registers and packet memory of the USB peripheral, as usb_hal.c *)
(* hands them out (ep_assignment, usb_pma_next_available and the buffer    *)
(* addresses in the descriptor table): the set of open endpoints, each     *)
(* with its register and its bytes, and the next byte to hand out.         *)
(*                                                                         *)
(* Opening an endpoint asks usb_ep_assign for a register; every later call *)
(* (usb_ep_queue_transfer_hal, usb_rx_packet, the stall calls) takes the   *)
(* number of the endpoint for the number of its register.                  *)
(***************************************************************************)
EXTENDS Integers

Registers  == 0 .. 7     \* USB_EP_MAX
TableSize  == 64         \* 8 * USB_EP_MAX, the descriptor table itself
MemorySize == 2048       \* USB_DRD_PMA_SIZE

Endpoint(n, isIn, kind, bytes) == [number |-> n, in |-> isIn, type |-> kind, size |-> bytes]

ControlOut   == Endpoint(0, FALSE, "control", 64)
ControlIn    == Endpoint(0, TRUE, "control", 64)

(* The endpoints of usb_configuration_descriptor.                          *)
Notification == Endpoint(1, TRUE, "interrupt", 8)
DataOut      == Endpoint(2, FALSE, "bulk", 64)
DataIn       == Endpoint(2, TRUE, "bulk", 64)

(***************************************************************************)
(* usb_ep_assign: the first register that has the endpoint already, or     *)
(* whose half is free and whose other half, if taken, is of the same       *)
(* number and type.                                                        *)
(***************************************************************************)
Suits(m, e, r) ==
  \A o \in m.open : o.register = r => o.endpoint.number = e.number /\ o.endpoint.type = e.type

RegisterOf(m, e) ==
  CHOOSE r \in Registers : Suits(m, e, r) /\ \A s \in 0 .. r - 1 : ~Suits(m, e, s)

(***************************************************************************)
(* usb_ep_open_hal, and usb_ep_control_init for one half: the register and *)
(* the next bytes of packet memory.                                        *)
(***************************************************************************)
Open(m, e) ==
  LET r == RegisterOf(m, e) IN
    [next |-> m.next + e.size,
     open |-> {o \in m.open : <<o.register, o.endpoint.in>> # <<r, e.in>>}
                \cup {[register |-> r, endpoint |-> e, from |-> m.next]}]

(* usb_ep_reset and usb_ep_control_init (the IN half gets its bytes first). *)
ControlOpen == Open(Open([next |-> TableSize, open |-> {}], ControlIn), ControlOut)

(* usb_cdc_open: the endpoints in the order of their descriptors.          *)
OpenData(m) == Open(Open(Open(m, Notification), DataOut), DataIn)

(* Mutant: the bytes of endpoint 0 are handed out again.                   *)
CloseToTable(m) ==
  [next |-> TableSize, open |-> {o \in m.open : o.register = 0}]

(* Mutant: the loop stops before the last endpoint in use.                 *)
CloseFirst(m) ==
  [next |-> TableSize + 2 * 64, open |-> {o \in m.open : o.register # 1}]

(***************************************************************************)
(* usb_ep_close_all: all but endpoint 0.                                   *)
(***************************************************************************)
Close(m) ==
  [next |-> TableSize + 2 * 64, open |-> {o \in m.open : o.register = 0}]

-----------------------------------------------------------------------------
(***************************************************************************)
(* No two open halves share a byte of packet memory, none reaches into the *)
(* descriptor table or past the end.                                       *)
(***************************************************************************)
Apart(m) ==
  \A o \in m.open :
    /\ o.from >= TableSize /\ o.from + o.endpoint.size <= MemorySize
    /\ \A p \in m.open \ {o} :
         o.from + o.endpoint.size <= p.from \/ p.from + p.endpoint.size <= o.from

(***************************************************************************)
(* Every open endpoint has the register of its own number.                 *)
(***************************************************************************)
Direct(m) == \A o \in m.open : o.register = o.endpoint.number
=============================================================================
