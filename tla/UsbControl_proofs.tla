-------------------------- MODULE UsbControl_proofs --------------------------
(***************************************************************************)
(* What holds of control transfers for every packet size, every set of     *)
(* descriptors, addresses and values, and any sequence of requests and     *)
(* resets: packet memory is never shared, and the address changes only     *)
(* after its status.                                                       *)
(***************************************************************************)
EXTENDS UsbControl, TLAPS

(***************************************************************************)
(* Packet memory takes two forms only: with endpoint 0 alone, and with all *)
(* the endpoints of the configuration.                                     *)
(***************************************************************************)
Slot(r, e, from) == [register |-> r, endpoint |-> e, from |-> from]

In0  == Slot(0, ControlIn, 64)
Out0 == Slot(0, ControlOut, 128)
In1  == Slot(1, Notification, 192)
Out2 == Slot(2, DataOut, 200)
In2  == Slot(2, DataIn, 264)

Bare == [next |-> 192, open |-> {In0, Out0}]
Full == [next |-> 328, open |-> {In0, Out0, In1, Out2, In2}]

-----------------------------------------------------------------------------
(***************************************************************************)
(* usb_ep_assign returns the first register that suits.                    *)
(***************************************************************************)
LEMMA FirstSuits ==
  ASSUME NEW m, NEW e, NEW r \in Registers, Suits(m, e, r),
         \A s \in 0 .. r - 1 : ~Suits(m, e, s)
  PROVE  RegisterOf(m, e) = r
<1> DEFINE First(q) == Suits(m, e, q) /\ \A s \in 0 .. q - 1 : ~Suits(m, e, s)
<1>1. First(r)
  OBVIOUS
<1>2. ASSUME NEW q \in Registers, First(q) PROVE q = r
  <2>1. ~(q < r) /\ ~(r < q)
    BY <1>2 DEF Registers
  <2> QED
    BY <2>1 DEF Registers
<1>3. RegisterOf(m, e) = CHOOSE q \in Registers : First(q)
  BY DEF RegisterOf
<1> HIDE DEF First
<1> QED
  BY <1>1, <1>2, <1>3

(***************************************************************************)
(* Opening an endpoint whose half of the register is free adds one slot.   *)
(***************************************************************************)
LEMMA OpenFree ==
  ASSUME NEW m, NEW e, NEW r \in Registers, RegisterOf(m, e) = r,
         \A o \in m.open : o.register # r \/ o.endpoint.in # e.in
  PROVE  Open(m, e) = [next |-> m.next + e.size, open |-> m.open \cup {Slot(r, e, m.next)}]
<1>1. {o \in m.open : <<o.register, o.endpoint.in>> # <<r, e.in>>} = m.open
  OBVIOUS
<1> QED
  BY <1>1 DEF Open, Slot

(***************************************************************************)
(* The fields of the slots and of the endpoints, so that the lemmas below  *)
(* need not expand them.                                                   *)
(***************************************************************************)
LEMMA Fields ==
  /\ In0.register = 0 /\ In0.endpoint = ControlIn /\ In0.from = 64
  /\ Out0.register = 0 /\ Out0.endpoint = ControlOut /\ Out0.from = 128
  /\ In1.register = 1 /\ In1.endpoint = Notification /\ In1.from = 192
  /\ Out2.register = 2 /\ Out2.endpoint = DataOut /\ Out2.from = 200
  /\ In2.register = 2 /\ In2.endpoint = DataIn /\ In2.from = 264
<1> QED
  BY DEF In0, Out0, In1, Out2, In2, Slot

LEMMA Endpoints ==
  /\ ControlIn.number = 0 /\ ControlIn.in = TRUE /\ ControlIn.type = "control" /\ ControlIn.size = 64
  /\ ControlOut.number = 0 /\ ControlOut.in = FALSE /\ ControlOut.type = "control"
  /\ ControlOut.size = 64
  /\ Notification.number = 1 /\ Notification.in = TRUE /\ Notification.type = "interrupt"
  /\ Notification.size = 8
  /\ DataOut.number = 2 /\ DataOut.in = FALSE /\ DataOut.type = "bulk" /\ DataOut.size = 64
  /\ DataIn.number = 2 /\ DataIn.in = TRUE /\ DataIn.type = "bulk" /\ DataIn.size = 64
<1> QED
  BY DEF ControlIn, ControlOut, Notification, DataOut, DataIn, Endpoint

(***************************************************************************)
(* What usb_reset leaves is the bare form.                                 *)
(***************************************************************************)
LEMMA ControlOpenBare == ControlOpen = Bare
<1> DEFINE none == [next |-> TableSize, open |-> {}]
           one  == [next |-> 128, open |-> {In0}]
<1>1. Open(none, ControlIn) = one
  <2>1. none.next = TableSize /\ none.open = {}
    OBVIOUS
  <2> HIDE DEF none
  <2>2. Suits(none, ControlIn, 0)
    BY <2>1 DEF Suits
  <2>3. RegisterOf(none, ControlIn) = 0
    BY <2>2, FirstSuits DEF Registers
  <2>4. Open(none, ControlIn)
          = [next |-> none.next + ControlIn.size,
             open |-> none.open \cup {Slot(0, ControlIn, none.next)}]
    BY <2>1, <2>3, OpenFree DEF Registers
  <2> QED
    BY <2>1, <2>4, Endpoints DEF TableSize, In0
<1>2. Open(one, ControlOut) = Bare
  <2>1. one.next = 128 /\ one.open = {In0}
    OBVIOUS
  <2> HIDE DEF one
  <2>2. Suits(one, ControlOut, 0)
    BY <2>1, Fields, Endpoints DEF Suits
  <2>3. RegisterOf(one, ControlOut) = 0
    BY <2>2, FirstSuits DEF Registers
  <2>4. \A o \in one.open : o.register # 0 \/ o.endpoint.in # ControlOut.in
    BY <2>1, Fields, Endpoints
  <2>5. Open(one, ControlOut)
          = [next |-> one.next + ControlOut.size,
             open |-> one.open \cup {Slot(0, ControlOut, one.next)}]
    BY <2>3, <2>4, OpenFree DEF Registers
  <2>6. one.next + ControlOut.size = 192 /\ one.open \cup {Out0} = {In0, Out0}
    BY <2>1, Endpoints
  <2> QED
    BY <2>1, <2>5, <2>6 DEF Bare, Out0
<1> QED
  BY <1>1, <1>2 DEF ControlOpen

(***************************************************************************)
(* Opening the configuration on the bare form gives the full one.          *)
(***************************************************************************)
LEMMA OpenDataFull == OpenData(Bare) = Full
<1> DEFINE one == [next |-> 200, open |-> {In0, Out0, In1}]
           two == [next |-> 264, open |-> {In0, Out0, In1, Out2}]
<1>1. Open(Bare, Notification) = one
  <2>1. Bare.next = 192 /\ Bare.open = {In0, Out0}
    BY DEF Bare
  <2>2. Suits(Bare, Notification, 1) /\ ~Suits(Bare, Notification, 0)
    BY <2>1, Fields, Endpoints DEF Suits
  <2>3. RegisterOf(Bare, Notification) = 1
    <3>1. \A s \in 0 .. 1 - 1 : s = 0
      OBVIOUS
    <3> QED
      BY <2>2, <3>1, FirstSuits DEF Registers
  <2>4. \A o \in Bare.open : o.register # 1 \/ o.endpoint.in # Notification.in
    BY <2>1, Fields
  <2>5. Open(Bare, Notification)
          = [next |-> Bare.next + Notification.size,
             open |-> Bare.open \cup {Slot(1, Notification, Bare.next)}]
    BY <2>3, <2>4, OpenFree DEF Registers
  <2>6. Bare.next + Notification.size = 200 /\ Bare.open \cup {In1} = {In0, Out0, In1}
    BY <2>1, Endpoints
  <2> QED
    BY <2>1, <2>5, <2>6 DEF In1
<1>2. Open(one, DataOut) = two
  <2>1. one.next = 200 /\ one.open = {In0, Out0, In1}
    OBVIOUS
  <2> HIDE DEF one
  <2>2. Suits(one, DataOut, 2) /\ ~Suits(one, DataOut, 0) /\ ~Suits(one, DataOut, 1)
    BY <2>1, Fields, Endpoints DEF Suits
  <2>3. RegisterOf(one, DataOut) = 2
    <3>1. \A s \in 0 .. 2 - 1 : s = 0 \/ s = 1
      OBVIOUS
    <3> QED
      BY <2>2, <3>1, FirstSuits DEF Registers
  <2>4. \A o \in one.open : o.register # 2 \/ o.endpoint.in # DataOut.in
    BY <2>1, Fields
  <2>5. Open(one, DataOut)
          = [next |-> one.next + DataOut.size, open |-> one.open \cup {Slot(2, DataOut, one.next)}]
    BY <2>3, <2>4, OpenFree DEF Registers
  <2>6. one.next + DataOut.size = 264 /\ one.open \cup {Out2} = {In0, Out0, In1, Out2}
    BY <2>1, Endpoints
  <2> QED
    BY <2>1, <2>5, <2>6 DEF Out2
<1>3. Open(two, DataIn) = Full
  <2>1. two.next = 264 /\ two.open = {In0, Out0, In1, Out2}
    OBVIOUS
  <2> HIDE DEF two
  <2>2. Suits(two, DataIn, 2) /\ ~Suits(two, DataIn, 0) /\ ~Suits(two, DataIn, 1)
    BY <2>1, Fields, Endpoints DEF Suits
  <2>3. RegisterOf(two, DataIn) = 2
    <3>1. \A s \in 0 .. 2 - 1 : s = 0 \/ s = 1
      OBVIOUS
    <3> QED
      BY <2>2, <3>1, FirstSuits DEF Registers
  <2>4. \A o \in two.open : o.register # 2 \/ o.endpoint.in # DataIn.in
    BY <2>1, Fields, Endpoints
  <2>5. Open(two, DataIn)
          = [next |-> two.next + DataIn.size, open |-> two.open \cup {Slot(2, DataIn, two.next)}]
    BY <2>3, <2>4, OpenFree DEF Registers
  <2>6. two.next + DataIn.size = 328 /\ two.open \cup {In2} = {In0, Out0, In1, Out2, In2}
    BY <2>1, Endpoints
  <2> QED
    BY <2>1, <2>5, <2>6 DEF In2, Full
<1> QED
  BY <1>1, <1>2, <1>3 DEF OpenData

(***************************************************************************)
(* usb_ep_close_all leaves endpoint 0 from either form.                    *)
(***************************************************************************)
LEMMA CloseBare == Close(Bare) = Bare /\ Close(Full) = Bare
<1>1. {o \in Bare.open : o.register = 0} = {In0, Out0} BY Fields DEF Bare
<1>2. {o \in Full.open : o.register = 0} = {In0, Out0} BY Fields DEF Full
<1>3. TableSize + 2 * 64 = 192 BY DEF TableSize
<1>4. Close(Bare) = Bare BY <1>1, <1>3 DEF Close, Bare
<1>5. Close(Full) = Bare BY <1>2, <1>3 DEF Close, Bare
<1> QED
  BY <1>4, <1>5

(***************************************************************************)
(* Both forms are as they should be.                                       *)
(***************************************************************************)
LEMMA FullApart == Apart(Full) /\ Direct(Full)
<1>1. Full.open = {In0, Out0, In1, Out2, In2}
  BY DEF Full
<1>2. \A o \in Full.open : o.from >= 64 /\ o.from + o.endpoint.size <= 2048
  BY <1>1, Fields, Endpoints
<1>3. ASSUME NEW o \in Full.open, NEW p \in Full.open, o # p
      PROVE  o.from + o.endpoint.size <= p.from \/ p.from + p.endpoint.size <= o.from
  <2>1. CASE o = In0 BY <1>1, <1>3, <2>1, Fields, Endpoints
  <2>2. CASE o = Out0 BY <1>1, <1>3, <2>2, Fields, Endpoints
  <2>3. CASE o = In1 BY <1>1, <1>3, <2>3, Fields, Endpoints
  <2>4. CASE o = Out2 BY <1>1, <1>3, <2>4, Fields, Endpoints
  <2>5. CASE o = In2 BY <1>1, <1>3, <2>5, Fields, Endpoints
  <2> QED BY <1>1, <2>1, <2>2, <2>3, <2>4, <2>5
<1>4. Apart(Full)
  BY <1>2, <1>3 DEF Apart, TableSize, MemorySize
<1>5. Direct(Full)
  BY <1>1, Fields, Endpoints DEF Direct
<1> QED
  BY <1>4, <1>5

LEMMA BareApart == Apart(Bare) /\ Direct(Bare)
<1>1. Bare.open = {In0, Out0} /\ Full.open = {In0, Out0, In1, Out2, In2}
  BY DEF Bare, Full
<1> QED
  BY <1>1, FullApart DEF Apart, Direct

(***************************************************************************)
(* Which endpoints each form has open.                                     *)
(***************************************************************************)
LEMMA FormsOpen ==
  /\ {o.endpoint : o \in Bare.open} = {ControlIn, ControlOut}
  /\ {o.endpoint : o \in Full.open}
       = {ControlIn, ControlOut} \cup {Notification, DataOut, DataIn}
<1>1. Bare.open = {In0, Out0} /\ Full.open = {In0, Out0, In1, Out2, In2}
  BY DEF Bare, Full
<1>2. {o.endpoint : o \in {In0, Out0}} = {In0.endpoint, Out0.endpoint}
  OBVIOUS
<1>3. {o.endpoint : o \in {In0, Out0, In1, Out2, In2}}
        = {In0.endpoint, Out0.endpoint, In1.endpoint, Out2.endpoint, In2.endpoint}
  OBVIOUS
<1>4. {ControlIn, ControlOut, Notification, DataOut, DataIn}
        = {ControlIn, ControlOut} \cup {Notification, DataOut, DataIn}
  OBVIOUS
<1> QED
  BY <1>1, <1>2, <1>3, <1>4, Fields

-----------------------------------------------------------------------------
(***************************************************************************)
(* The shape of the records, where the handler is, and which of its two    *)
(* forms packet memory has.                                                *)
(***************************************************************************)
Shape ==
  /\ DOMAIN dev = {"address", "addressed", "pending", "config", "wakeup", "connected",
                   "coding", "lineState"}
  /\ DOMAIN transfer = {"request", "total", "fed", "callback"}
  /\ DOMAIN out = {"stat", "vt", "request", "packet"} /\ out.vt \in BOOLEAN
  /\ out.request \in Requests \cup {NoRequest}
  /\ DOMAIN in = {"stat", "vt", "packet"} /\ in.vt \in BOOLEAN
  /\ DOMAIN host = {"phase", "request", "got", "address", "config", "coding", "lineState"}
  /\ txSeen \in BOOLEAN /\ busReset \in BOOLEAN

Place ==
  /\ pc \in Steps
  /\ pc = "idle" => ~txSeen
  /\ pc = "tx" \/ txSeen => in.vt
  /\ pc = "rx" => out.vt

Form == (dev.config = 0 /\ memory = Bare) \/ (dev.config = 1 /\ memory = Full)

IInv == Shape /\ Place /\ Form

(***************************************************************************)
(* What a request of a kind carries.                                       *)
(***************************************************************************)
LEMMA Carried ==
  ASSUME NEW r \in Requests
  PROVE  /\ r.kind = "setConfiguration" => r.value \in {0, 1}
         /\ r.kind = "setAddress" => r.in = FALSE /\ r.wLength = 0
         /\ r.kind # "none" /\ r # NoRequest
<1> USE DEF Request, Getters, Constant, StatusOnly, NoRequest
<1>1. CASE r \in Request({"getDescriptor"}, {TRUE}, Wanted, Lengths) BY <1>1
<1>2. CASE r \in Request(Getters \ {"getDescriptor"}, {TRUE}, {1}, {0}) BY <1>2
<1>3. CASE r \in Request({"setLineCoding"}, {FALSE}, {1}, Values) BY <1>3
<1>4. CASE r \in Request({"setLineState", "setWakeup"}, {FALSE}, {0}, Values) BY <1>4
<1>5. CASE r \in Request(StatusOnly, {FALSE}, {0}, {0}) BY <1>5
<1>6. CASE r \in Request({"setAddress"}, {FALSE}, {0}, Addresses)
  <2>1. r.kind = "setAddress" BY <1>6
  <2>2. r.in \in {FALSE} BY <1>6
  <2>3. r.wLength = 0 BY <1>6
  <2>4. r.in = FALSE BY ONLY <2>2
  <2> QED BY <2>1, <2>3, <2>4
<1>7. CASE r \in Request({"setConfiguration"}, {FALSE}, {0}, {0, 1}) BY <1>7
<1>8. CASE r \in Request({"setHalt", "clearHalt"}, {FALSE}, {0}, {Ep0Out, Ep0In, BulkOut})
  BY <1>8
<1>9. CASE r \in Request({"unsupported"}, BOOLEAN, {1}, {0}) BY <1>9
<1>10. CASE r \in Request({"unsupported"}, {FALSE}, {0}, {0}) BY <1>10
<1> QED
  BY <1>1, <1>2, <1>3, <1>4, <1>5, <1>6, <1>7, <1>8, <1>9, <1>10 DEF Requests

LEMMA InitKeeps == Init => IInv
<1> SUFFICES ASSUME Init PROVE IInv
  OBVIOUS
<1>1. Shape BY DEF Init, Shape, Blank, NoTransfer
<1>2. Place BY DEF Init, Place, Steps
<1>3. Form BY ControlOpenBare DEF Init, Form, Blank
<1> QED BY <1>1, <1>2, <1>3 DEF IInv

(***************************************************************************)
(* The host and the bus.                                                   *)
(***************************************************************************)
LEMMA HostKeeps ==
  ASSUME IInv, (\E r \in Requests : Setup(r)) \/ HostContinues \/ HostGivesUp \/ BusReset
  PROVE  IInv'
<1> USE DEF IInv, handler, Ready
<1>1. ASSUME NEW r \in Requests, Setup(r) PROVE IInv'
  <2>1. Shape' BY <1>1 DEF Setup, Shape
  <2>2. Place' /\ Form' BY <1>1 DEF Setup, Shape, Place, Form
  <2> QED BY <2>1, <2>2
<1>2. CASE HostTakes
  <2>1. Shape' BY <1>2 DEF HostTakes, Shape, Believes
  <2>2. Place' /\ Form' BY <1>2 DEF HostTakes, Shape, Place, Form
  <2> QED BY <2>1, <2>2
<1>3. CASE HostSends
  <2>1. Shape' BY <1>3 DEF HostSends, Shape, Believes
  <2>2. Place' /\ Form' BY <1>3 DEF HostSends, Shape, Place, Form
  <2> QED BY <2>1, <2>2
<1>4. CASE HostStalled \/ HostGivesUp
  <2>1. Shape' BY <1>4 DEF HostStalled, HostGivesUp, Shape
  <2>2. Place' /\ Form' BY <1>4 DEF HostStalled, HostGivesUp, Shape, Place, Form
  <2> QED BY <2>1, <2>2
<1>5. CASE BusReset
  <2>1. Shape' BY <1>5 DEF BusReset, Shape
  <2>2. Place' /\ Form' BY <1>5 DEF BusReset, Shape, Place, Form
  <2> QED BY <2>1, <2>2
<1> QED
  BY <1>1, <1>2, <1>3, <1>4, <1>5 DEF HostContinues

(***************************************************************************)
(* The handler up to the request.                                          *)
(***************************************************************************)
LEMMA ReadKeeps == ASSUME IInv, IsrReset \/ IsrRead PROVE IInv'
<1> USE DEF IInv, handler
<1>1. CASE IsrReset
  <2>1. Shape' BY <1>1 DEF IsrReset, Shape, Blank, NoTransfer
  <2>2. Place' BY <1>1 DEF IsrReset, Shape, Place
  <2>3. Form' BY <1>1, ControlOpenBare DEF IsrReset, Form, Blank
  <2> QED BY <2>1, <2>2, <2>3
<1>2. CASE IsrRead
  <2>1. Shape' BY <1>2 DEF IsrRead, Shape
  <2>2. Place' /\ Form' BY <1>2 DEF IsrRead, Shape, Place, Form, Steps
  <2> QED BY <2>1, <2>2
<1> QED BY <1>1, <1>2

(***************************************************************************)
(* Where the handler goes on after a received packet.                      *)
(***************************************************************************)
LEMMA AfterRxPlace ==
  ASSUME IInv, pc' = AfterRx \/ pc' = "again", txSeen' = txSeen, in'.vt = in.vt
  PROVE  Place'
<1> QED BY DEF IInv, Place, AfterRx, Steps

(***************************************************************************)
(* Requests that leave the configuration alone.                            *)
(***************************************************************************)
LEMMA RequestKeeps ==
  ASSUME IInv,
         Get \/ SetLineCoding \/ SetAtOnce \/ SetAddress \/ EndpointHalt \/ Unsupported
  PROVE  IInv'
<1>1. DOMAIN ClearRx = DOMAIN out /\ ClearRx.vt = FALSE /\ ClearRx.request = NoRequest
  BY DEF ClearRx, IInv, Shape
<1>2. DOMAIN Noted = DOMAIN dev /\ Noted.config = dev.config
  BY DEF Noted, IInv, Shape
<1>3. \A p : DOMAIN QueueIn(p) = DOMAIN in /\ QueueIn(p).vt = in.vt
  BY DEF QueueIn, IInv, Shape
<1>4. \A c, n : DOMAIN Started(c, n) = DOMAIN transfer
  BY DEF Started, IInv, Shape
<1>5. /\ DOMAIN out' = DOMAIN out /\ out'.vt = FALSE /\ out'.request = NoRequest
      /\ DOMAIN dev' = DOMAIN dev /\ dev'.config = dev.config
      /\ DOMAIN in' = DOMAIN in /\ in'.vt = in.vt
      /\ DOMAIN transfer' = DOMAIN transfer
      /\ memory' = memory /\ UNCHANGED <<txSeen, busReset, host>>
      /\ pc' = AfterRx \/ pc' = "again"
  <2>1. CASE Get
    <3>1. CASE Request0.wLength > 0 BY <1>1, <1>2, <1>3, <1>4, <2>1, <3>1 DEF Get
    <3>2. CASE ~(Request0.wLength > 0)
      BY <1>1, <1>2, <1>4, <2>1, <3>2 DEF Get, ArmRx, IInv, Shape
    <3> QED BY <3>1, <3>2
  <2>2. CASE SetLineCoding
    BY <1>1, <1>2, <1>4, <2>2 DEF SetLineCoding, ArmRx, IInv, Shape
  <2>3. CASE SetAtOnce BY <1>1, <1>2, <1>3, <1>4, <2>3 DEF SetAtOnce, IInv, Shape
  <2>4. CASE SetAddress BY <1>1, <1>2, <1>3, <1>4, <2>4 DEF SetAddress, IInv, Shape
  <2>5. CASE EndpointHalt BY <1>1, <1>2, <2>5 DEF EndpointHalt, IInv, Shape
  <2>6. CASE Unsupported BY <1>1, <1>2, <2>6 DEF Unsupported, IInv, Shape
  <2> QED BY <2>1, <2>2, <2>3, <2>4, <2>5, <2>6
<1>6. Shape' BY <1>5 DEF IInv, Shape
<1>7. Place' BY <1>5, AfterRxPlace
<1>8. Form' BY <1>5 DEF IInv, Form
<1> QED BY <1>6, <1>7, <1>8 DEF IInv

LEMMA QueueAgainKeeps == ASSUME IInv, QueueAgain PROVE IInv'
<1>1. Shape' BY DEF QueueAgain, QueueIn, IInv, Shape
<1>2. Place' BY AfterRxPlace DEF QueueAgain, QueueIn, IInv, Shape
<1>3. Form' BY DEF QueueAgain, IInv, Form
<1> QED BY <1>1, <1>2, <1>3 DEF IInv

(***************************************************************************)
(* SET_CONFIGURATION changes the number and the form together.             *)
(***************************************************************************)
LEMMA SetConfigurationKeeps == ASSUME IInv, SetConfiguration PROVE IInv'
<1>1. Shape'
  <2>1. DOMAIN dev' = DOMAIN dev
    <3>1. CASE dev.config = Request0.value
      BY <3>1 DEF SetConfiguration, Noted
    <3>2. CASE dev.config # Request0.value
      BY <3>2 DEF SetConfiguration, Blank, IInv, Shape
    <3> QED BY <3>1, <3>2
  <2>2. DOMAIN out' = DOMAIN out /\ out'.vt = FALSE /\ out'.request = NoRequest
    BY DEF SetConfiguration, ClearRx, IInv, Shape
  <2>3. DOMAIN in' = DOMAIN in /\ in'.vt = in.vt
    BY DEF SetConfiguration, QueueIn, IInv, Shape
  <2>4. DOMAIN transfer' = DOMAIN transfer
    BY DEF SetConfiguration, Started, IInv, Shape
  <2>5. UNCHANGED <<txSeen, busReset, host>>
    BY DEF SetConfiguration
  <2> QED BY <2>1, <2>2, <2>3, <2>4, <2>5 DEF IInv, Shape
<1>2. Place'
  BY AfterRxPlace DEF SetConfiguration, QueueIn, IInv, Shape
<1>3. Request0.value \in {0, 1}
  <2>1. out.request.kind = "setConfiguration"
    BY DEF SetConfiguration, Process
  <2>2. out.request \in Requests
    BY <2>1 DEF NoRequest, IInv, Shape
  <2> QED BY <2>1, <2>2, Carried DEF Request0
<1>4. Form'
  <2>1. CASE dev.config = Request0.value
    BY <2>1 DEF SetConfiguration, Noted, IInv, Shape, Form
  <2>2. CASE dev.config # Request0.value
    <3>1. dev'.config = Request0.value
      BY <2>2 DEF SetConfiguration, Blank
    <3>2. memory' = IF Request0.value = 1 THEN OpenData(Close(memory)) ELSE Close(memory)
      BY <2>2 DEF SetConfiguration
    <3>3. Close(memory) = Bare
      BY CloseBare DEF IInv, Form
    <3> QED
      BY <1>3, <3>1, <3>2, <3>3, OpenDataFull DEF Form
  <2> QED BY <2>1, <2>2
<1> QED BY <1>1, <1>2, <1>4 DEF IInv

(***************************************************************************)
(* The end of the status stage touches neither the configuration nor       *)
(* packet memory.                                                          *)
(***************************************************************************)
LEMMA StatusKeeps ==
  ASSUME IInv, StatusDone \/ UNCHANGED <<dev, daddr>>
  PROVE  DOMAIN dev' = DOMAIN dev /\ dev'.config = dev.config
<1>1. CASE transfer.callback = "address" BY <1>1 DEF StatusDone, IInv, Shape
<1>2. CASE transfer.callback # "address" /\ transfer.callback = "cdc"
             /\ transfer.request.kind = "setLineState"
  BY <1>2 DEF StatusDone, IInv, Shape
<1>3. CASE ~(transfer.callback = "address")
             /\ ~(transfer.callback = "cdc" /\ transfer.request.kind = "setLineState")
  BY <1>3 DEF StatusDone
<1> QED BY <1>1, <1>2, <1>3

LEMMA StageKeeps == ASSUME IInv, OutStatus \/ OutData \/ InStatus \/ InData PROVE IInv'
<1>1. CASE OutStatus
  <2>1. DOMAIN dev' = DOMAIN dev /\ dev'.config = dev.config
    BY <1>1, StatusKeeps DEF OutStatus
  <2>2. Shape' BY <1>1, <2>1 DEF OutStatus, ClearRx, IInv, Shape
  <2>3. Place' BY <1>1, AfterRxPlace DEF OutStatus
  <2>4. Form' BY <1>1, <2>1 DEF OutStatus, IInv, Form
  <2> QED BY <2>2, <2>3, <2>4 DEF IInv
<1>2. CASE OutData
  <2>1. DOMAIN dev' = DOMAIN dev /\ dev'.config = dev.config
    BY <1>2 DEF OutData, IInv, Shape
  <2>2. Shape'
    <3>1. DOMAIN out' = DOMAIN out /\ out'.vt = FALSE /\ out'.request = NoRequest
      BY <1>2 DEF OutData, ClearRx, IInv, Shape
    <3>2. DOMAIN in' = DOMAIN in /\ in'.vt = in.vt
      BY <1>2 DEF OutData, QueueIn, IInv, Shape
    <3>3. DOMAIN transfer' = DOMAIN transfer
      BY <1>2 DEF OutData
    <3>4. UNCHANGED <<txSeen, busReset, host>>
      BY <1>2 DEF OutData
    <3> QED BY <2>1, <3>1, <3>2, <3>3, <3>4 DEF IInv, Shape
  <2>3. Place' BY <1>2, AfterRxPlace DEF OutData, QueueIn, IInv, Shape
  <2>4. Form' BY <1>2, <2>1 DEF OutData, IInv, Form
  <2> QED BY <2>2, <2>3, <2>4 DEF IInv
<1>3. CASE InStatus
  <2>1. DOMAIN dev' = DOMAIN dev /\ dev'.config = dev.config
    BY <1>3, StatusKeeps DEF InStatus
  <2>2. Shape' BY <1>3, <2>1 DEF InStatus, ClearTx, IInv, Shape
  <2>3. Place' BY <1>3 DEF InStatus, ClearTx, IInv, Place, Steps
  <2>4. Form' BY <1>3, <2>1 DEF InStatus, IInv, Form
  <2> QED BY <2>2, <2>3, <2>4 DEF IInv
<1>4. CASE InData
  <2>1. Shape'
    <3> DEFINE last == LastPacket([transfer EXCEPT !.fed = @ + Len(in.packet)], Len(in.packet))
    <3>1. DOMAIN transfer' = DOMAIN transfer
      BY <1>4 DEF InData
    <3>2. UNCHANGED <<dev, busReset, host>> /\ txSeen' = FALSE
      BY <1>4 DEF InData
    <3>3. CASE last
      <4>1. out' = ArmRx(out) /\ in' = ClearTx
        BY <1>4, <3>3 DEF InData
      <4>2. DOMAIN out' = DOMAIN out /\ out'.vt = out.vt /\ out'.request = out.request
        BY <4>1 DEF ArmRx, IInv, Shape
      <4>3. DOMAIN in' = DOMAIN in /\ in'.vt = FALSE
        BY <4>1 DEF ClearTx, IInv, Shape
      <4> QED BY <3>1, <3>2, <4>2, <4>3 DEF IInv, Shape
    <3>4. CASE ~last
      <4>1. UNCHANGED out
        BY <1>4, <3>4 DEF InData
      <4>2. DOMAIN in' = {"stat", "vt", "packet"} /\ in'.vt = FALSE
        BY <1>4, <3>4 DEF InData
      <4> QED BY <3>1, <3>2, <4>1, <4>2 DEF IInv, Shape
    <3> QED BY <3>3, <3>4
  <2>2. Place' BY <1>4 DEF InData, IInv, Place, Steps
  <2>3. Form' BY <1>4 DEF InData, IInv, Form
  <2> QED BY <2>1, <2>2, <2>3 DEF IInv
<1> QED BY <1>1, <1>2, <1>3, <1>4

LEMMA StepKeeps == ASSUME IInv, [Next]_vars PROVE IInv'
<1>1. CASE UNCHANGED vars
  BY <1>1 DEF vars, handler, IInv, Shape, Place, Form
<1>2. CASE Next
  BY <1>2, HostKeeps, ReadKeeps, RequestKeeps, QueueAgainKeeps, SetConfigurationKeeps, StageKeeps
     DEF Next, Isr
<1> QED BY <1>1, <1>2

LEMMA Invariance == Spec => []IInv
<1> QED BY InitKeeps, StepKeeps, PTL DEF Spec

(***************************************************************************)
(* The buffers of the open endpoints never share a byte of packet memory.  *)
(***************************************************************************)
THEOREM NeverShared == Spec => []BuffersApart
<1>1. IInv => BuffersApart
  BY BareApart, FullApart DEF IInv, Form, BuffersApart
<1> QED BY <1>1, Invariance, PTL

(***************************************************************************)
(* Every endpoint has the register of its number, and a configured device  *)
(* has all its endpoints open.                                             *)
(***************************************************************************)
THEOREM AlwaysDirect == Spec => []RegistersDirect
<1>1. IInv => RegistersDirect
  BY BareApart, FullApart, FormsOpen DEF IInv, Form, RegistersDirect
<1> QED BY <1>1, Invariance, PTL

-----------------------------------------------------------------------------
(***************************************************************************)
(* The address.  A SETUP that has not been served is the host's current    *)
(* request, and nothing of the last one is left on the IN half.  While the *)
(* address callback is set, the status of SET_ADDRESS is the only packet   *)
(* the host can get, and once it has got it the host uses the pending      *)
(* address.                                                                *)
(***************************************************************************)
Assigning == transfer.callback = "address"

Requested ==
  (~busReset /\ out.vt /\ out.request # NoRequest) =>
    /\ out.stat = "NAK" /\ in.stat = "NAK" /\ ~in.vt
    /\ host.phase # "ready" /\ host.request = out.request
    /\ out.request.wLength = 0 => host.phase = "status"

Addressing ==
  /\ Assigning => transfer.request.kind = "setAddress" /\ transfer.request.in = FALSE
  /\ pc = "again" => Assigning /\ out.request = NoRequest

Confirmed == (~busReset /\ Assigning /\ in.vt) => host.phase = "ready" /\ host.address = dev.pending

Offered ==
  (~busReset /\ Assigning /\ (in.stat = "VALID" \/ pc = "again") /\ host.phase # "ready") =>
    /\ host.phase = "status"
    /\ host.request.kind = "setAddress" /\ host.request.in = FALSE
    /\ host.request.value = dev.pending

AInv == IInv /\ Requested /\ Addressing /\ Confirmed /\ Offered

(***************************************************************************)
(* Once the callback is another and no SETUP waits, nothing is claimed.    *)
(***************************************************************************)
LEMMA Forgets ==
  ASSUME IInv', transfer'.callback # "address", pc' # "again",
         busReset' \/ out'.vt = FALSE \/ out'.request = NoRequest
  PROVE  AInv'
<1> QED BY DEF AInv, Requested, Addressing, Assigning, Confirmed, Offered

LEMMA SetupAsks ==
  ASSUME HostWaits, AInv, NEW r \in Requests, Setup(r), IInv'
  PROVE  AInv'
<1>1. /\ in'.stat = "NAK" /\ in'.vt = FALSE
      /\ out'.stat = "NAK" /\ out'.request = r
      /\ pc' = pc /\ pc = "idle" /\ UNCHANGED transfer
  BY DEF Setup, Served, handler, AInv, IInv, Shape
<1>2. /\ host'.request = r /\ host'.phase # "ready"
      /\ r.wLength = 0 => host'.phase = "status"
  BY DEF Setup, AInv, IInv, Shape
<1>3. Requested' BY <1>1, <1>2 DEF Requested
<1>4. Addressing' BY <1>1 DEF Addressing, Assigning, AInv
<1>5. Confirmed' /\ Offered' BY <1>1 DEF Confirmed, Offered
<1> QED BY <1>3, <1>4, <1>5 DEF AInv

(***************************************************************************)
(* Taking the status of SET_ADDRESS is what makes the host believe it.     *)
(***************************************************************************)
LEMMA TakesConfirms == ASSUME AInv, HostTakes, IInv' PROVE AInv'
<1>1. UNCHANGED <<dev, transfer, out, pc, busReset>> /\ ~busReset
      /\ host.phase # "ready" /\ in.stat = "VALID" /\ in'.stat = "NAK"
  BY DEF HostTakes, handler, AInv, IInv, Shape
<1>2. Requested' BY <1>1 DEF Requested, AInv
<1>3. Addressing' BY <1>1 DEF Addressing, Assigning, AInv
<1>4. ASSUME Assigning
      PROVE  host'.phase = "ready" /\ host'.address = dev.pending
  <2>1. /\ host.phase = "status"
        /\ host.request.kind = "setAddress"
        /\ host.request.value = dev.pending
    BY <1>1, <1>4 DEF AInv, Offered
  <2>2. host' = Believes(host)
    BY <2>1 DEF HostTakes
  <2>3. Believes(host) = [Ready(host) EXCEPT !.address = host.request.value]
    BY <2>1 DEF Believes
  <2>4. DOMAIN Ready(host) = DOMAIN host /\ Ready(host).phase = "ready"
    BY DEF Ready, AInv, IInv, Shape
  <2> QED BY <2>1, <2>2, <2>3, <2>4 DEF AInv, IInv, Shape
<1>5. Confirmed' /\ Offered'
  BY <1>1, <1>4 DEF Confirmed, Offered, Assigning
<1> QED BY <1>2, <1>3, <1>5 DEF AInv

(***************************************************************************)
(* The host cannot finish with an OUT packet while the status of           *)
(* SET_ADDRESS is offered.                                                 *)
(***************************************************************************)
LEMMA SendsElsewhere == ASSUME AInv, HostSends, IInv' PROVE AInv'
<1>1. UNCHANGED <<dev, transfer, in, pc, busReset>> /\ ~busReset
      /\ host.phase # "ready" /\ ~PollsIn /\ out'.request = NoRequest
  BY DEF HostSends, handler
<1>2. Requested' BY <1>1 DEF Requested
<1>3. Addressing' BY <1>1 DEF Addressing, Assigning, AInv
<1>4. Assigning => ~(in.stat = "VALID" \/ pc = "again") /\ ~in.vt
  BY <1>1 DEF AInv, Offered, Confirmed, PollsIn
<1>5. Confirmed' /\ Offered'
  BY <1>1, <1>4 DEF Confirmed, Offered, Assigning
<1> QED BY <1>2, <1>3, <1>5 DEF AInv

LEMMA FailureForgets == ASSUME AInv, HostStalled \/ HostGivesUp, IInv' PROVE AInv'
<1>1. UNCHANGED <<dev, transfer, in, out, pc, busReset>> /\ ~busReset
      /\ host.phase # "ready" /\ host' = Ready(host)
  BY DEF HostStalled, HostGivesUp, Served, handler
<1>2. host'.phase = "ready" /\ host'.address = host.address
  BY <1>1 DEF Ready, AInv, IInv, Shape
<1>3. Requested'
  <2>1. CASE HostStalled
    BY <1>1, <2>1 DEF HostStalled, Requested, AInv
  <2>2. CASE HostGivesUp
    BY <1>1, <2>2 DEF HostGivesUp, Served, Requested
  <2> QED BY <2>1, <2>2
<1>4. Addressing' BY <1>1 DEF Addressing, Assigning, AInv
<1>5. Confirmed' /\ Offered'
  BY <1>1, <1>2 DEF Confirmed, Offered, Assigning, AInv
<1> QED BY <1>3, <1>4, <1>5 DEF AInv

LEMMA ResetForgets == ASSUME AInv, BusReset, IInv' PROVE AInv'
<1>1. UNCHANGED <<transfer, pc>> /\ busReset' = TRUE /\ out'.request = out.request
  BY DEF BusReset, handler, AInv, IInv, Shape
<1>2. Requested' /\ Confirmed' /\ Offered' BY <1>1 DEF Requested, Confirmed, Offered
<1>3. Addressing' BY <1>1 DEF Addressing, Assigning, AInv
<1> QED BY <1>2, <1>3 DEF AInv

LEMMA ReadAsks == ASSUME AInv, IsrReset \/ IsrRead, IInv' PROVE AInv'
<1>1. CASE IsrReset
  <2>1. transfer'.callback # "address" /\ pc' # "again" /\ out'.vt = FALSE
    BY <1>1 DEF IsrReset, NoTransfer, handler, AInv, IInv, Shape
  <2> QED BY <2>1, Forgets
<1>2. CASE IsrRead
  <2>1. UNCHANGED <<dev, transfer, out, in, busReset, host>> /\ pc = "idle" /\ pc' # "again"
    BY <1>2 DEF IsrRead
  <2> QED BY <2>1 DEF AInv, Requested, Addressing, Assigning, Confirmed, Offered
<1> QED BY <1>1, <1>2

(***************************************************************************)
(* Every other request drops the callback of the one before.               *)
(***************************************************************************)
LEMMA RequestForgets ==
  ASSUME AInv, IInv',
         Get \/ SetLineCoding \/ SetAtOnce \/ SetConfiguration \/ EndpointHalt \/ Unsupported
  PROVE  AInv'
<1>1. AfterRx # "again" BY DEF AfterRx
<1>2. Callback # "address" BY DEF Callback
<1>3. ClearRx.vt = FALSE /\ ClearRx.request = NoRequest /\ DOMAIN ClearRx = DOMAIN out
  BY DEF ClearRx, AInv, IInv, Shape
<1>4. transfer'.callback # "address"
  <2>1. CASE Get BY <1>2, <2>1 DEF Get, Started
  <2>2. CASE SetLineCoding BY <1>2, <2>2 DEF SetLineCoding, Started
  <2>3. CASE SetAtOnce BY <1>2, <2>3 DEF SetAtOnce, Started
  <2>4. CASE SetConfiguration BY <2>4 DEF SetConfiguration, Started
  <2>5. CASE EndpointHalt BY <2>5 DEF EndpointHalt, AInv, IInv, Shape
  <2>6. CASE Unsupported BY <2>6 DEF Unsupported, AInv, IInv, Shape
  <2> QED BY <2>1, <2>2, <2>3, <2>4, <2>5, <2>6
<1>5. pc' = AfterRx
  BY DEF Get, SetLineCoding, SetAtOnce, SetConfiguration, EndpointHalt, Unsupported
<1>6. out'.request = NoRequest
  BY <1>3 DEF Get, SetLineCoding, ArmRx, SetAtOnce, SetConfiguration, EndpointHalt, Unsupported,
              AInv, IInv, Shape
<1> QED BY <1>1, <1>4, <1>5, <1>6, Forgets

(***************************************************************************)
(* SET_ADDRESS finds the host in the status stage of this very request.    *)
(***************************************************************************)
LEMMA SetAddressOffers == ASSUME AInv, SetAddress, IInv' PROVE AInv'
<1>1. out.request.kind = "setAddress" /\ out.vt = TRUE
  BY DEF SetAddress, Process, AInv, IInv, Shape, Place
<1>2. out.request # NoRequest /\ out.request \in Requests
  BY <1>1 DEF NoRequest, AInv, IInv, Shape
<1>3. out.request.in = FALSE /\ out.request.wLength = 0
  BY <1>1, <1>2, Carried
<1>4. /\ out'.request = NoRequest
      /\ in'.vt = in.vt
      /\ dev'.pending = out.request.value
      /\ transfer'.request = out.request
      /\ UNCHANGED <<host, busReset>>
  <2>1. out'.request = NoRequest BY DEF SetAddress, ClearRx, AInv, IInv, Shape
  <2>2. in'.vt = in.vt BY DEF SetAddress, QueueIn, AInv, IInv, Shape
  <2>3. dev'.pending = out.request.value
    BY DEF SetAddress, Noted, Request0, AInv, IInv, Shape
  <2>4. transfer'.request = out.request BY DEF SetAddress, Started, Request0
  <2> QED BY <2>1, <2>2, <2>3, <2>4 DEF SetAddress
<1>5. transfer'.callback = "address" BY DEF SetAddress, Started
<1>6. ~busReset => ~in.vt /\ host.phase = "status" /\ host.request = out.request
  BY <1>1, <1>2, <1>3 DEF AInv, Requested
<1>7. Requested' BY <1>4 DEF Requested
<1>8. Addressing' BY <1>1, <1>3, <1>4, <1>5 DEF Addressing, Assigning
<1>9. Confirmed' /\ Offered'
  BY <1>1, <1>3, <1>4, <1>6 DEF Confirmed, Offered
<1> QED BY <1>7, <1>8, <1>9 DEF AInv

LEMMA QueueAgainOffers == ASSUME AInv, QueueAgain, IInv' PROVE AInv'
<1>1. pc = "again" /\ pc' # "again" /\ in'.vt = in.vt
      /\ UNCHANGED <<dev, transfer, out, busReset, host>>
  BY DEF QueueAgain, QueueIn, AfterRx, AInv, IInv, Shape
<1>2. Requested' BY <1>1 DEF Requested, Addressing, AInv
<1>3. Addressing' BY <1>1 DEF Addressing, Assigning, AInv
<1>4. Confirmed' /\ Offered' BY <1>1 DEF Confirmed, Offered, Assigning, AInv
<1> QED BY <1>2, <1>3, <1>4 DEF AInv

LEMMA ReceivedKeeps == ASSUME AInv, OutStatus \/ OutData, IInv' PROVE AInv'
<1>1. out'.request = NoRequest /\ pc' = AfterRx /\ AfterRx # "again"
      /\ UNCHANGED <<busReset, host>> /\ pc # "again"
  BY DEF OutStatus, OutData, ClearRx, AfterRx, AInv, IInv, Shape
<1>2. CASE ~Assigning
  <2>1. transfer'.callback = transfer.callback
    BY DEF OutStatus, OutData, AInv, IInv, Shape
  <2> QED BY <1>1, <1>2, <2>1, Forgets DEF Assigning
<1>3. CASE Assigning
  <2>1. transfer.request.kind = "setAddress" /\ transfer.request.in = FALSE
    BY <1>3 DEF AInv, Addressing
  <2>2. UNCHANGED <<dev, transfer, in>>
    BY <2>1 DEF OutStatus, OutData
  <2> QED
    BY <1>1, <2>2 DEF AInv, Requested, Addressing, Assigning, Confirmed, Offered
<1> QED BY <1>2, <1>3

(***************************************************************************)
(* No SETUP waits while a completed IN packet is served.                   *)
(***************************************************************************)
LEMMA CompletedKeeps == ASSUME AInv, InStatus \/ InData, IInv' PROVE AInv'
<1>1. pc = "tx" /\ pc' = "idle" /\ UNCHANGED <<busReset, host>> /\ in.vt = TRUE
  BY DEF InStatus, InData, AInv, IInv, Shape, Place
<1>2. out'.vt = out.vt /\ out'.request = out.request
  BY DEF InStatus, InData, ArmRx, AInv, IInv, Shape
<1>3. busReset \/ out.vt = FALSE \/ out.request = NoRequest
  BY <1>1 DEF AInv, IInv, Shape, Requested
<1>4. CASE ~Assigning
  <2>1. transfer'.callback = transfer.callback
    BY DEF InStatus, InData, AInv, IInv, Shape
  <2> QED BY <1>1, <1>2, <1>3, <1>4, <2>1, Forgets DEF Assigning
<1>5. CASE Assigning
  <2>1. transfer.request.in = FALSE
    BY <1>5 DEF AInv, Addressing
  <2>2. in'.vt = FALSE /\ UNCHANGED transfer
    BY <2>1 DEF InStatus, InData, ClearTx, AInv, IInv, Shape
  <2>3. ~busReset => host.phase = "ready"
    BY <1>1, <1>5 DEF AInv, Confirmed
  <2>4. Requested' BY <1>1, <1>2, <1>3 DEF Requested
  <2>5. Addressing' BY <1>1, <2>2 DEF AInv, Addressing, Assigning
  <2>6. Confirmed' /\ Offered' BY <1>1, <2>2, <2>3 DEF Confirmed, Offered
  <2> QED BY <2>4, <2>5, <2>6 DEF AInv
<1> QED BY <1>4, <1>5

LEMMA AddressStep == ASSUME HostWaits, AInv, [Next]_vars PROVE AInv'
<1>1. IInv' BY StepKeeps DEF AInv
<1>2. CASE UNCHANGED vars
  BY <1>2, <1>1 DEF vars, handler, AInv, Requested, Addressing, Assigning, Confirmed, Offered
<1>3. CASE Next
  BY <1>1, <1>3, SetupAsks, TakesConfirms, SendsElsewhere, FailureForgets, ResetForgets,
     ReadAsks, RequestForgets, SetAddressOffers, QueueAgainOffers, ReceivedKeeps, CompletedKeeps
     DEF Next, Isr, HostContinues
<1> QED BY <1>2, <1>3

LEMMA AddressTaken ==
  ASSUME AInv, [Next]_vars
  PROVE  (daddr' # daddr /\ ~busReset) => daddr' = host.address
<1> SUFFICES ASSUME daddr' # daddr, ~busReset PROVE daddr' = host.address
  OBVIOUS
<1>1. (OutStatus \/ InStatus) /\ StatusDone
  BY DEF vars, Next, HostContinues, Setup, HostTakes, HostSends, HostStalled, HostGivesUp,
         BusReset, Isr, IsrReset, IsrRead, Get, SetLineCoding, SetAtOnce, SetAddress, QueueAgain,
         SetConfiguration, EndpointHalt, Unsupported, OutStatus, OutData, InStatus, InData
<1>2. Assigning /\ daddr' = dev.pending
  BY <1>1 DEF StatusDone, Assigning
<1>3. transfer.request.in = FALSE
  BY <1>2 DEF AInv, Addressing
<1>4. pc = "tx" BY <1>1, <1>3 DEF OutStatus, InStatus
<1>5. in.vt BY <1>4 DEF AInv, IInv, Place
<1> QED BY <1>2, <1>5 DEF AInv, Confirmed

(***************************************************************************)
(* With a host that waits for the last request to be served, the           *)
(* peripheral takes a new address only when the host has got the status of *)
(* SET_ADDRESS and uses that address itself (usb_device_set_address).      *)
(***************************************************************************)
THEOREM AddressKept == ASSUME HostWaits PROVE Spec => AddressAfterStatus
<1>1. Init => AInv
  <2> SUFFICES ASSUME Init PROVE AInv
    OBVIOUS
  <2>1. transfer.callback = "none" /\ out.vt = FALSE /\ pc = "idle" /\ busReset = FALSE
    BY DEF Init, NoTransfer
  <2> QED BY <2>1, InitKeeps DEF AInv, Requested, Addressing, Assigning, Confirmed, Offered
<1>2. AInv /\ [Next]_vars => AInv'
  BY AddressStep
<1>3. AInv /\ [Next]_vars => [(daddr' # daddr /\ ~busReset) => daddr' = host.address]_vars
  BY AddressTaken
<1> QED BY <1>1, <1>2, <1>3, PTL DEF Spec, AddressAfterStatus
=============================================================================
