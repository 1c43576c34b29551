---------------------------- MODULE Usart_proofs ----------------------------
(***************************************************************************)
(* What holds of the diagnostics ring for every size, any number of bytes  *)
(* and any bursts of the USB interrupt, the ring overrun included.         *)
(***************************************************************************)
EXTENDS Usart, TLAPS

(***************************************************************************)
(* The head may stand on the end of the array only between the step that   *)
(* stores it and the one that wraps it; a byte being sent is within the    *)
(* bound; and while main() is not in usart_send, an interrupt that is off  *)
(* means an empty ring.                                                    *)
(***************************************************************************)
HeadRange ==
  /\ pc \notin {"store", "wrap", "zero"} => head < Size
  /\ pc = "bump" => index < Size
WithinBound == pc \in Sending => mainSent < MaxMain
OffWhenEmpty == (pc \notin Sending /\ ~txeie) => head = tail

IInv == TypeOK /\ HeadRange /\ WithinBound /\ OffWhenEmpty

-----------------------------------------------------------------------------
LEMMA InitKeeps == Init => IInv
<1> SUFFICES ASSUME Init PROVE IInv
  OBVIOUS
<1>1. TypeOK
  <2>1. Junk \in Byte BY DEF Byte
  <2>2. buffer \in [0 .. Size -> Byte] BY <2>1 DEF Init
  <2>3. tdr \in Byte \cup {Empty} /\ shift \in Byte \cup {Empty} /\ wire \subseteq Byte
    BY DEF Init
  <2>4. head \in 0 .. Size /\ tail \in 0 .. Size - 1 /\ index \in 0 .. Size
    BY SizeAssumption DEF Init
  <2>5. txeie \in BOOLEAN /\ pc \in Steps
    BY DEF Init, Steps
  <2>6. /\ mainSent \in 0 .. MaxMain
        /\ left \in Nat /\ usbSent \in Nat /\ usbSent + left <= MaxUsb
    BY SizeAssumption DEF Init
  <2> QED BY <2>2, <2>3, <2>4, <2>5, <2>6 DEF TypeOK
<1>2. HeadRange /\ WithinBound /\ OffWhenEmpty
  BY SizeAssumption DEF Init, HeadRange, WithinBound, OffWhenEmpty, Sending
<1> QED
  BY <1>1, <1>2 DEF IInv

(***************************************************************************)
(* A step of usart_send in main().                                         *)
(***************************************************************************)
LEMMA SendsKeeps == ASSUME IInv, Sends PROVE IInv'
<1> USE SizeAssumption DEF IInv, TypeOK, ring, line, usb, Main
<1>1. CASE Disable
  <2>1. TypeOK' BY <1>1 DEF Disable, Steps, Sending
  <2>2. (HeadRange /\ WithinBound /\ OffWhenEmpty)'
    BY <1>1 DEF Disable, HeadRange, WithinBound, OffWhenEmpty, Sending
  <2> QED BY <2>1, <2>2
<1>2. CASE LoadHead
  <2>1. TypeOK' BY <1>2 DEF LoadHead, Steps, Sending
  <2>2. (HeadRange /\ WithinBound /\ OffWhenEmpty)'
    BY <1>2 DEF LoadHead, HeadRange, WithinBound, OffWhenEmpty, Sending
  <2> QED BY <2>1, <2>2
<1>3. CASE StoreHead
  <2>1. index < Size BY <1>3 DEF StoreHead, HeadRange
  <2>2. TypeOK' BY <1>3, <2>1 DEF StoreHead, Steps, Sending
  <2>3. (HeadRange /\ WithinBound /\ OffWhenEmpty)'
    BY <1>3 DEF StoreHead, HeadRange, WithinBound, OffWhenEmpty, Sending
  <2> QED BY <2>2, <2>3
<1>4. CASE StoreByte
  <2>1. mainSent < MaxMain BY <1>4 DEF StoreByte, WithinBound, Sending
  <2>2. <<"main", mainSent + 1>> \in Byte BY <2>1 DEF Byte, Sent
  <2>3. buffer' \in [0 .. Size -> Byte] BY <1>4, <2>2 DEF StoreByte
  <2>4. TypeOK' BY <1>4, <2>3 DEF StoreByte, Steps, Sending
  <2>5. (HeadRange /\ WithinBound /\ OffWhenEmpty)'
    BY <1>4 DEF StoreByte, HeadRange, WithinBound, OffWhenEmpty, Sending
  <2> QED BY <2>4, <2>5
<1>5. CASE CheckWrap
  <2>1. TypeOK' BY <1>5 DEF CheckWrap, Steps, Sending
  <2>2. (HeadRange /\ WithinBound /\ OffWhenEmpty)'
    BY <1>5 DEF CheckWrap, HeadRange, WithinBound, OffWhenEmpty, Sending
  <2> QED BY <2>1, <2>2
<1>6. CASE ZeroHead
  <2>1. TypeOK' BY <1>6 DEF ZeroHead, Steps, Sending
  <2>2. (HeadRange /\ WithinBound /\ OffWhenEmpty)'
    BY <1>6 DEF ZeroHead, HeadRange, WithinBound, OffWhenEmpty, Sending
  <2> QED BY <2>1, <2>2
<1>7. CASE Enable
  <2>1. mainSent < MaxMain BY <1>7 DEF Enable, WithinBound, Sending
  <2>2. TypeOK' BY <1>7, <2>1 DEF Enable, Steps, Sending
  <2>3. (HeadRange /\ WithinBound /\ OffWhenEmpty)'
    BY <1>7 DEF Enable, HeadRange, WithinBound, OffWhenEmpty, Sending
  <2> QED BY <2>2, <2>3
<1> QED
  BY <1>1, <1>2, <1>3, <1>4, <1>5, <1>6, <1>7 DEF Sends

(***************************************************************************)
(* A step of usart_wait_data_sent changes nothing but main()'s place.      *)
(***************************************************************************)
LEMMA WaitsKeeps == ASSUME IInv, AwaitEmpty \/ Waits PROVE IInv'
<1> USE SizeAssumption DEF IInv, ring, line, usb, Main, AwaitEmpty, Waits, DataEmpty, Complete
<1>1. TypeOK' BY DEF TypeOK, Steps
<1>2. (HeadRange /\ WithinBound /\ OffWhenEmpty)'
  BY DEF HeadRange, WithinBound, OffWhenEmpty, Sending
<1> QED BY <1>1, <1>2

(***************************************************************************)
(* The USB interrupt.                                                      *)
(***************************************************************************)
LEMMA UsbPrintsKeeps == ASSUME IInv, NEW n \in Bursts, UsbPrints(n) PROVE IInv'
<1> USE SizeAssumption DEF IInv, ring, line, UsbPrints
<1>1. TypeOK' BY DEF TypeOK
<1>2. (HeadRange /\ WithinBound /\ OffWhenEmpty)' BY DEF HeadRange, WithinBound, OffWhenEmpty
<1> QED BY <1>1, <1>2

LEMMA UsbSendsKeeps == ASSUME IInv, UsbSends PROVE IInv'
<1> USE SizeAssumption DEF IInv, line, UsbSends
<1>1. <<"usb", usbSent + 1>> \in Byte BY DEF TypeOK, Byte, Sent
<1>2. buffer' \in [0 .. Size -> Byte] BY <1>1 DEF TypeOK
<1>3. head' \in 0 .. Size /\ head' < Size BY DEF TypeOK
<1>4. TypeOK' BY <1>2, <1>3 DEF TypeOK
<1>5. (HeadRange /\ WithinBound /\ OffWhenEmpty)' BY <1>3 DEF HeadRange, WithinBound, OffWhenEmpty
<1> QED BY <1>4, <1>5

(***************************************************************************)
(* The interrupt of the USART and the USART itself.                        *)
(***************************************************************************)
LEMMA UsartIrqKeeps == ASSUME IInv, UsartIrq PROVE IInv'
<1> USE SizeAssumption DEF IInv, usb, UsartIrq
<1>1. buffer[tail] \in Byte BY DEF TypeOK
<1>2. TypeOK'
  <2>1. tail' \in 0 .. Size - 1 BY DEF TypeOK
  <2>2. tdr' \in Byte \cup {Empty} BY <1>1 DEF TypeOK
  <2>3. txeie' \in BOOLEAN BY DEF TypeOK
  <2> QED BY <2>1, <2>2, <2>3 DEF TypeOK
<1>3. (HeadRange /\ WithinBound /\ OffWhenEmpty)'
  BY DEF HeadRange, WithinBound, OffWhenEmpty, Pending
<1> QED BY <1>2, <1>3

LEMMA HardwareKeeps == ASSUME IInv, Hardware PROVE IInv'
<1> USE SizeAssumption DEF IInv, ring, usb, Hardware, Loads, Shifts
<1>1. TypeOK' BY DEF TypeOK
<1>2. (HeadRange /\ WithinBound /\ OffWhenEmpty)' BY DEF HeadRange, WithinBound, OffWhenEmpty
<1> QED BY <1>1, <1>2

LEMMA StepKeeps == ASSUME IInv, [Next]_vars PROVE IInv'
<1>1. CASE UNCHANGED vars
  BY <1>1 DEF vars, IInv, TypeOK, HeadRange, WithinBound, OffWhenEmpty
<1>2. CASE Next
  BY <1>2, SendsKeeps, WaitsKeeps, UsbPrintsKeeps, UsbSendsKeeps, UsartIrqKeeps, HardwareKeeps
     DEF Next
<1> QED BY <1>1, <1>2

LEMMA Invariance == Spec => []IInv
<1> QED BY InitKeeps, StepKeeps, PTL DEF Spec

-----------------------------------------------------------------------------
(***************************************************************************)
(* Type correctness: in particular no index ever leaves the array and the  *)
(* one slot that stands for the memory behind it.                          *)
(***************************************************************************)
THEOREM Typing == Spec => []TypeOK
<1>1. IInv => TypeOK BY DEF IInv
<1> QED BY <1>1, Invariance, PTL

(***************************************************************************)
(* The head is inside the array whenever main() is out of usart_send.      *)
(***************************************************************************)
THEOREM HeadInRange == Spec => []InRangeAtRest
<1>1. IInv => InRangeAtRest BY DEF IInv, HeadRange, InRangeAtRest, Sending
<1> QED BY <1>1, Invariance, PTL

(***************************************************************************)
(* The flush returns only over an empty ring and empty registers: with     *)
(* both registers empty and no interrupt pending, the interrupt is off,    *)
(* and it turns itself off only over an empty ring.                        *)
(***************************************************************************)
THEOREM FlushEmpties == Spec => FlushDrains
<1>1. ASSUME IInv, [Next]_vars, Flushed PROVE head = tail /\ tdr = Empty /\ shift = Empty
  <2>1. Complete
    BY <1>1 DEF Flushed, vars, Next, Sends, Disable, LoadHead, StoreHead, StoreByte, CheckWrap,
                ZeroHead, Enable, AwaitEmpty, Waits, DataEmpty, UsbPrints, UsbSends, UsartIrq,
                Hardware, Loads, Shifts
  <2>2. ~txeie /\ pc \notin Sending /\ tdr = Empty /\ shift = Empty
    BY <2>1 DEF Complete, Main, Pending, Sending
  <2> QED BY <1>1, <2>2 DEF IInv, OffWhenEmpty
<1>2. IInv /\ [Next]_vars => [Flushed => head = tail /\ tdr = Empty /\ shift = Empty]_vars
  BY <1>1
<1> QED BY <1>2, Invariance, PTL DEF Spec, FlushDrains
=============================================================================
