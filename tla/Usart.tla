------------------------------- MODULE Usart -------------------------------
(***************************************************************************)
(* The transmit half of the diagnostics USART: two senders share one ring  *)
(* with the USART interrupt.  diag_print is called from main() and from    *)
(* the USB interrupt, both through usart_send.  The USB and the USART      *)
(* interrupt have the same priority and do not preempt each other, but     *)
(* either preempts main() between any two accesses to the (volatile) ring. *)
(* usart_send turns off the interrupt of the USART meanwhile, not USB's.   *)
(*                                                                         *)
(* The slot behind the last one stands for the memory behind the array.    *)
(***************************************************************************)
EXTENDS Integers, FiniteSets

CONSTANTS
  Size,      \* USART2_TX_BUFFER_SIZE
  MaxMain,   \* bound: bytes main() sends
  MaxUsb,    \* bound: bytes the USB interrupt sends
  Bursts     \* how many it sends at a time

ASSUME SizeAssumption ==
  /\ Size \in Nat \ {0} /\ MaxMain \in Nat /\ MaxUsb \in Nat
  /\ Bursts \subseteq Nat \ {0}

VARIABLES
  head, tail,   \* tx_buffer_head, tx_buffer_tail
  buffer,       \* tx_buffer
  txeie,        \* the interrupt on an empty data register is enabled
  tdr, shift,   \* the data register and the shift register of the USART
  wire,         \* the bytes that have left
  pc, index,    \* where main() is in usart_send; the index it loaded
  mainSent,     \* bytes main() has sent
  left,         \* bytes the USB interrupt still has to print
  usbSent       \* bytes the USB interrupt has sent

vars == <<head, tail, buffer, txeie, tdr, shift, wire, pc, index, mainSent, left, usbSent>>
ring == <<head, tail, buffer, txeie>>
line == <<tdr, shift, wire>>
usb  == <<left, usbSent>>

Sent  == {<<"main", n>> : n \in 1 .. MaxMain} \cup {<<"usb", n>> : n \in 1 .. MaxUsb}
Junk  == <<"junk", 0>>     \* what the array and the memory behind it held
Empty == <<"empty", 0>>    \* no byte
Byte  == Sent \cup {Junk}

Sending == {"load", "bump", "store", "wrap", "zero", "enable"}
Steps   == {"idle", "awaitEmpty", "awaitComplete", "flushed"} \cup Sending

TypeOK ==
  /\ head \in 0 .. Size /\ tail \in 0 .. Size - 1
  /\ buffer \in [0 .. Size -> Byte]
  /\ txeie \in BOOLEAN
  /\ tdr \in Byte \cup {Empty} /\ shift \in Byte \cup {Empty} /\ wire \subseteq Byte
  /\ pc \in Steps /\ index \in 0 .. Size
  /\ mainSent \in 0 .. MaxMain
  /\ left \in Nat /\ usbSent \in Nat /\ usbSent + left <= MaxUsb

Init ==
  /\ head = 0 /\ tail = 0 /\ buffer = [i \in 0 .. Size |-> Junk]
  /\ txeie = FALSE
  /\ tdr = Empty /\ shift = Empty /\ wire = {}
  /\ pc = "idle" /\ index = 0
  /\ mainSent = 0 /\ left = 0 /\ usbSent = 0

-----------------------------------------------------------------------------
(* main(): usart_send, one access to the ring at a time.  main() does not  *)
(* run while an interrupt is pending or being served.                      *)

Pending == txeie /\ tdr = Empty

Main(at) == pc = at /\ ~Pending /\ left = 0

Disable ==
  /\ Main("idle") /\ mainSent < MaxMain
  /\ txeie' = FALSE
  /\ pc' = "load"
  /\ UNCHANGED <<head, tail, buffer, line, index, mainSent, usb>>

LoadHead ==
  /\ Main("load")
  /\ index' = head
  /\ pc' = "bump"
  /\ UNCHANGED <<ring, line, mainSent, usb>>

StoreHead ==
  /\ Main("bump")
  /\ head' = index + 1
  /\ pc' = "store"
  /\ UNCHANGED <<tail, buffer, txeie, line, index, mainSent, usb>>

StoreByte ==
  /\ Main("store")
  /\ buffer' = [buffer EXCEPT ![index] = <<"main", mainSent + 1>>]
  /\ pc' = "wrap"
  /\ UNCHANGED <<head, tail, txeie, line, index, mainSent, usb>>

(* Mutant: the head wraps one slot too late.                               *)
CheckWrapLate ==
  /\ Main("wrap")
  /\ pc' = IF head > Size THEN "zero" ELSE "enable"
  /\ UNCHANGED <<ring, line, index, mainSent, usb>>

CheckWrap ==
  /\ Main("wrap")
  /\ pc' = IF head >= Size THEN "zero" ELSE "enable"
  /\ UNCHANGED <<ring, line, index, mainSent, usb>>

ZeroHead ==
  /\ Main("zero")
  /\ head' = 0
  /\ pc' = "enable"
  /\ UNCHANGED <<tail, buffer, txeie, line, index, mainSent, usb>>

(* Mutant: the interrupt stays off.                                        *)
EnableForgotten ==
  /\ Main("enable")
  /\ mainSent' = mainSent + 1
  /\ pc' = "idle"
  /\ UNCHANGED <<ring, line, index, usb>>

Enable ==
  /\ Main("enable")
  /\ txeie' = TRUE
  /\ mainSent' = mainSent + 1
  /\ pc' = "idle"
  /\ UNCHANGED <<head, tail, buffer, line, index, usb>>

(***************************************************************************)
(* usart_wait_data_sent: the data register empty, then the transmission    *)
(* complete (which is both registers empty).                               *)
(***************************************************************************)
AwaitEmpty ==
  /\ Main("idle")
  /\ pc' = "awaitEmpty"
  /\ UNCHANGED <<ring, line, index, mainSent, usb>>

DataEmpty ==
  /\ Main("awaitEmpty") /\ tdr = Empty
  /\ pc' = "awaitComplete"
  /\ UNCHANGED <<ring, line, index, mainSent, usb>>

Complete ==
  /\ Main("awaitComplete") /\ tdr = Empty /\ shift = Empty
  /\ pc' = "flushed"
  /\ UNCHANGED <<ring, line, index, mainSent, usb>>

-----------------------------------------------------------------------------
(* The interrupts.                                                         *)

(***************************************************************************)
(* The USB interrupt comes, with n bytes to print.                         *)
(***************************************************************************)
UsbPrints(n) ==
  /\ left = 0 /\ usbSent + n <= MaxUsb
  /\ left' = n
  /\ UNCHANGED <<ring, line, pc, index, mainSent, usbSent>>

(***************************************************************************)
(* usart_send of its next byte, run to its end.                            *)
(***************************************************************************)
UsbSends ==
  /\ left > 0
  /\ buffer' = [buffer EXCEPT ![head] = <<"usb", usbSent + 1>>]
  /\ head' = IF head + 1 >= Size THEN 0 ELSE head + 1
  /\ txeie' = TRUE
  /\ left' = left - 1 /\ usbSent' = usbSent + 1
  /\ UNCHANGED <<tail, line, pc, index, mainSent>>

(* Mutant: the interrupt is turned off with a byte still in the ring.      *)
UsartIrqEager ==
  /\ Pending /\ left = 0
  /\ IF tail # head
     THEN /\ tdr' = buffer[tail]
          /\ tail' = IF tail + 1 >= Size THEN 0 ELSE tail + 1
          /\ txeie' = FALSE
     ELSE txeie' = FALSE /\ UNCHANGED <<tdr, tail>>
  /\ UNCHANGED <<head, buffer, shift, wire, pc, index, mainSent, usb>>

(***************************************************************************)
(* usart_irq_handler, its transmit half.                                   *)
(***************************************************************************)
UsartIrq ==
  /\ Pending /\ left = 0
  /\ IF tail # head
     THEN /\ tdr' = buffer[tail]
          /\ tail' = IF tail + 1 >= Size THEN 0 ELSE tail + 1
          /\ UNCHANGED txeie
     ELSE txeie' = FALSE /\ UNCHANGED <<tdr, tail>>
  /\ UNCHANGED <<head, buffer, shift, wire, pc, index, mainSent, usb>>

-----------------------------------------------------------------------------
(* The USART itself.                                                       *)

Loads ==
  /\ tdr # Empty /\ shift = Empty
  /\ shift' = tdr /\ tdr' = Empty
  /\ UNCHANGED <<ring, wire, pc, index, mainSent, usb>>

Shifts ==
  /\ shift # Empty
  /\ wire' = wire \cup {shift} /\ shift' = Empty
  /\ UNCHANGED <<ring, tdr, pc, index, mainSent, usb>>

Sends    == Disable \/ LoadHead \/ StoreHead \/ StoreByte \/ CheckWrap \/ ZeroHead \/ Enable
Waits    == DataEmpty \/ Complete
Hardware == Loads \/ Shifts

Next ==
  \/ Sends
  \/ AwaitEmpty \/ Waits
  \/ \E n \in Bursts : UsbPrints(n)
  \/ UsbSends \/ UsartIrq
  \/ Hardware

Spec == Init /\ [][Next]_vars

(***************************************************************************)
(* The hardware goes on.  main() does not stay in usart_send: a byte takes *)
(* far longer on the line than the interrupt that loads it, so that main() *)
(* runs again and again even while the ring is being sent.                 *)
(***************************************************************************)
FairSpec ==
  /\ Spec
  /\ WF_vars(UsbSends) /\ WF_vars(UsartIrq) /\ WF_vars(Loads) /\ WF_vars(Shifts)
  /\ SF_vars(Sends /\ pc # "idle")

-----------------------------------------------------------------------------
(***************************************************************************)
(* diag_flush returns only when the ring is empty and both registers are,  *)
(* although it never looks at the ring ("Wait for all current diag message *)
(* characters to finish", diagnostics.h): transmission is complete only    *)
(* once the interrupt has found nothing more to send.                      *)
(***************************************************************************)
Flushed == pc # "flushed" /\ pc' = "flushed"

FlushDrains == [][Flushed => head = tail /\ tdr = Empty /\ shift = Empty]_vars

(***************************************************************************)
(* Whatever the USB interrupt does to the ring in the middle of a          *)
(* usart_send, the head is inside the array once main() is out of it.      *)
(***************************************************************************)
InRangeAtRest == pc \notin Sending => head < Size

(***************************************************************************)
(* The ring never keeps a byte for good, however the senders met.          *)
(***************************************************************************)
Drains == []<>(head = tail /\ tdr = Empty)

(***************************************************************************)
(* "Wait for all current diag message characters to finish": when the      *)
(* flush is done, what was sent has left.  The bounds leave the ring room  *)
(* for all of it.                                                          *)
(***************************************************************************)
AllOnWire ==
  [][Flushed => /\ \A n \in 1 .. mainSent : <<"main", n>> \in wire
                /\ \A n \in 1 .. usbSent : <<"usb", n>> \in wire]_vars
=============================================================================
