------------------------- MODULE UsbTransfer_proofs -------------------------
(***************************************************************************)
(* Control transfers from end to end, for every packet size, every set of  *)
(* descriptors, addresses and values, any sequence of requests and resets: *)
(* the types, the bytes the host gets, the stage both sides are in and the *)
(* state they agree on afterwards, for a host that waits for the last      *)
(* request to be served.                                                   *)
(***************************************************************************)
EXTENDS UsbControl_proofs, SequenceTheorems

(***************************************************************************)
(* The types, one set per variable.                                        *)
(***************************************************************************)
Device ==
  [address : Nat, addressed : BOOLEAN, pending : Nat, config : {0, 1},
   wakeup : Nat, connected : BOOLEAN, coding : Nat, lineState : Nat]
AnyRequest == Requests \cup {NoRequest}
Transfer ==
  [request : AnyRequest, total : Nat, fed : Nat, callback : {"none", "address", "cdc"}]
OutHalf == [stat : Stat, vt : BOOLEAN, request : AnyRequest, packet : Packet]
InHalf == [stat : Stat, vt : BOOLEAN, packet : Packet]
Host ==
  [phase : Phases, request : AnyRequest, got : Bytes, address : Addresses \cup {0},
   config : {0, 1}, coding : Nat \cup {Unknown}, lineState : Nat \cup {Unknown}]

Typed ==
  /\ dev \in Device /\ daddr \in Addresses \cup {0} /\ transfer \in Transfer
  /\ out \in OutHalf /\ in \in InHalf /\ bulk \in Stat /\ host \in Host
  /\ pc \in Steps /\ txSeen \in BOOLEAN /\ busReset \in BOOLEAN

(***************************************************************************)
(* A transfer runs through the situations below, each named for what has   *)
(* happened last.  In all of them the host has not reset the bus.          *)
(***************************************************************************)
Agree(d, a, h) ==
  /\ a = h.address /\ (d.addressed => d.address = a)
  /\ d.config = h.config
  /\ h.coding \in {d.coding, Unknown}
  /\ h.lineState \in {d.lineState, Unknown}

(* usb_device and the address once the status of the transfer is through. *)
DevThen ==
  CASE transfer.callback = "address" ->
         [dev EXCEPT !.address = dev.pending, !.addressed = (dev.pending # 0), !.pending = 0]
    [] transfer.callback = "cdc" /\ transfer.request.kind = "setLineState" ->
         [dev EXCEPT !.lineState = transfer.request.value]
    [] OTHER -> dev

AddrThen == IF transfer.callback = "address" THEN dev.pending ELSE daddr

Promise == Agree(DevThen, AddrThen, Believes(host))

Quiet == ~out.vt /\ ~in.vt

Settled == pc = "idle" /\ Quiet /\ host.phase = "ready" /\ Agree(dev, daddr, host)

Asked ==
  /\ pc \in {"idle", "rx"} /\ out.vt /\ ~in.vt /\ out.stat = "NAK" /\ in.stat = "NAK"
  /\ out.request \in Requests /\ host.request = out.request /\ host.got = << >>
  /\ host.phase = IF host.request.wLength > 0 THEN "data" ELSE "status"
  /\ Agree(dev, daddr, host)

(* The host waits for what never comes. *)
Hung ==
  /\ pc = "idle" /\ Quiet /\ host.phase # "ready" /\ in.stat # "VALID"
  /\ \/ host.request.kind \in {"unsupported", "setHalt", "clearHalt"} /\ out.stat # "VALID"
     \/ /\ Misdirected(host.request) /\ host.request \in Requests
        /\ host.phase = "status" /\ host.got = << >>
  /\ Agree(dev, daddr, host)

(* The data stage of an IN request. *)
Whole(r) == Least(Len(Source(r)), r.wLength)

Answering ==
  /\ transfer.request = host.request /\ host.request \in Requests /\ host.request.in
  /\ host.request.wLength # 0 /\ host.request.kind # "unsupported"
  /\ transfer.total = Whole(host.request)
  /\ out.stat = "NAK" /\ ~out.vt /\ Promise

Queued ==
  /\ Answering /\ pc = "idle" /\ ~in.vt /\ in.stat = "VALID"
  /\ transfer.fed <= transfer.total
  /\ in.packet = NextPacket(transfer)
  /\ host.phase = "data" /\ host.got = SubSeq(Source(host.request), 1, transfer.fed)

Taken ==
  LET n == Len(in.packet) IN
  /\ Answering /\ pc \in {"idle", "tx"} /\ in.vt /\ in.stat = "NAK"
  /\ transfer.fed + n <= transfer.total /\ n <= PacketSize
  /\ n < PacketSize => transfer.fed + n = transfer.total
  /\ host.got = SubSeq(Source(host.request), 1, transfer.fed + n)
  /\ host.phase = IF n < PacketSize \/ transfer.fed + n = host.request.wLength
                  THEN "status" ELSE "data"

Complete ==
  /\ pc = "idle" /\ Quiet /\ out.stat = "VALID" /\ in.stat # "VALID"
  /\ transfer.request = host.request /\ host.request \in Requests /\ host.request.in
  /\ host.request.wLength # 0 /\ host.phase = "status"
  /\ host.got = SubSeq(Source(host.request), 1, Whole(host.request))
  /\ Promise

(* The data stage of an OUT request. *)
Coding ==
  /\ ~in.vt /\ in.stat = "NAK"
  /\ transfer.request = host.request /\ host.request \in Requests
  /\ host.request.kind = "setLineCoding" /\ transfer.callback = "cdc"
  /\ Agree(dev, daddr, host)

Armed == Coding /\ pc = "idle" /\ ~out.vt /\ out.stat = "VALID" /\ host.phase = "data"

Sent ==
  /\ Coding /\ pc \in {"idle", "rx"} /\ out.vt /\ out.stat = "NAK" /\ host.phase = "status"
  /\ out.request = NoRequest /\ out.packet = <<host.request.value>>

(* The status stage. *)
Confirming ==
  /\ pc \in {"idle", "again"} /\ Quiet /\ out.stat # "VALID"
  /\ in.stat = "VALID" /\ in.packet = << >>
  /\ transfer.request = host.request /\ host.request \in Requests /\ ~host.request.in
  /\ host.phase = "status"
  /\ Promise

Done ==
  /\ host.phase = "ready" /\ Agree(DevThen, AddrThen, host)
  /\ \/ /\ out.vt /\ out.request = NoRequest /\ out.packet = << >> /\ transfer.request.in
        /\ ~in.vt /\ pc \in {"idle", "rx"}
     \/ /\ in.vt /\ in.packet = << >> /\ ~transfer.request.in
        /\ ~out.vt /\ pc \in {"idle", "again", "tx"}

Situation ==
  busReset \/ Settled \/ Asked \/ Hung \/ Queued \/ Taken \/ Complete \/ Armed \/ Sent
    \/ Confirming \/ Done

Reset ==
  busReset => /\ host.phase = "ready" /\ host.address = 0 /\ host.config = 0
              /\ host.coding = Unknown /\ host.lineState = Unknown

Filled ==
  (out.vt /\ out.request = NoRequest /\ transfer.request.kind = "setLineCoding"
     /\ ~transfer.request.in) => Len(out.packet) = 1

Pending == dev.pending \in Addresses \cup {0}

TxSeen == txSeen <=> pc = "tx"

Core == Typed /\ Situation /\ Reset /\ Filled /\ Pending /\ TxSeen
TInv == IInv /\ Core

-----------------------------------------------------------------------------
LEMMA TypedIs == Form => (TypeOK <=> Typed)
<1>1. Form => memory.next \in TableSize .. MemorySize
  BY DEF Form, Bare, Full, TableSize, MemorySize
<1> QED
  BY <1>1 DEF TypeOK, Typed, Device, Transfer, AnyRequest, OutHalf, InHalf, Host

(***************************************************************************)
(* What the requests of each kind carry.                                   *)
(***************************************************************************)
NoData  == {"setLineState", "setWakeup", "setAddress", "setConfiguration", "setHalt", "clearHalt"}
             \cup StatusOnly

Carries(r) ==
  /\ r.kind \in Getters \cup NoData \cup {"setLineCoding", "unsupported"}
  /\ r.wLength \in Nat /\ r.value \in Nat
  /\ r.kind \in Getters => r.in
  /\ r.kind \in NoData => ~r.in /\ r.wLength = 0
  /\ r.kind = "setLineCoding" => ~r.in /\ r.wLength = 1
  /\ r.kind = "unsupported" => (r.in => r.wLength # 0)
  /\ r.kind = "setAddress" => r.value \in Addresses
  /\ r.kind = "setConfiguration" => r.value \in {0, 1}

LEMMA WantedSizes == \A n \in Wanted : n \in Nat /\ n < 65536
<1> QED BY PacketAssumption, SMT

LEMMA LengthSizes == \A n \in Lengths : n \in Nat /\ n > 0
<1> QED BY PacketAssumption, SMT

LEMMA AddressSizes == \A a \in Addresses : a \in Nat /\ a > 0
<1> QED BY PacketAssumption, SMT

LEMMA ValueSizes == \A v \in Values : v \in Nat
<1> QED BY PacketAssumption, SMT

LEMMA KindCarries ==
  ASSUME NEW kinds, NEW dirs, NEW lengths, NEW values, NEW r \in Request(kinds, dirs, lengths, values)
  PROVE  r.kind \in kinds /\ r.wLength \in lengths /\ r.value \in values
<1> QED
  BY DEF Request

LEMMA KindIn ==
  ASSUME NEW kinds, NEW lengths, NEW values, NEW r \in Request(kinds, {TRUE}, lengths, values)
  PROVE  r.in
<1>1. r.in \in {TRUE}
  BY DEF Request
<1>2. r.in = TRUE
  BY ONLY <1>1
<1> QED
  BY <1>2

LEMMA KindOut ==
  ASSUME NEW kinds, NEW lengths, NEW values, NEW r \in Request(kinds, {FALSE}, lengths, values)
  PROVE  ~r.in
<1>1. r.in \in {FALSE}
  BY DEF Request
<1>2. r.in = FALSE
  BY ONLY <1>1
<1> QED
  BY <1>2

LEMMA AllCarryShort == ASSUME NEW r \in Requests PROVE Carries(r) /\ r.wLength < 65536
<1> DEFINE Short == r.wLength < 65536
<1> SUFFICES Carries(r) /\ Short
  OBVIOUS
<1> USE DEF Getters, NoData, Constant, StatusOnly
<1>1. CASE r \in Request({"getDescriptor"}, {TRUE}, Wanted, Lengths)
  <2>1. r.kind \in {"getDescriptor"} /\ r.wLength \in Wanted /\ r.value \in Lengths /\ r.in
    <3>1. r.kind \in {"getDescriptor"} /\ r.wLength \in Wanted /\ r.value \in Lengths
      BY <1>1, KindCarries
    <3>2. r.in
      BY <1>1, KindIn
    <3> QED BY <3>1, <3>2
  <2>2. r.wLength \in Nat /\ r.wLength < 65536 /\ r.value \in Nat
    BY <2>1, WantedSizes, LengthSizes, SMT
  <2> QED
    BY <2>1, <2>2, WantedSizes, SMT DEF Carries
<1>2. CASE r \in Request(Getters \ {"getDescriptor"}, {TRUE}, {1}, {0})
  <2> DEFINE kinds == Getters \ {"getDescriptor"}
  <2>0. r \in Request(kinds, {TRUE}, {1}, {0})
    BY <1>2
  <2>1. r.kind \in kinds /\ r.wLength \in {1} /\ r.value \in {0} /\ r.in
    <3> HIDE DEF kinds
    <3>1. r.kind \in kinds /\ r.wLength \in {1} /\ r.value \in {0}
      BY <2>0, KindCarries
    <3>2. r.in
      BY <2>0, KindIn
    <3> QED BY <3>1, <3>2
  <2>2. r.wLength \in Nat /\ r.wLength < 65536 /\ r.value \in Nat
    BY <2>1, SMT
  <2> QED
    BY <2>1, <2>2, SMT DEF Carries
<1>3. CASE r \in Request({"setLineCoding"}, {FALSE}, {1}, Values)
  <2>1. r.kind \in {"setLineCoding"} /\ r.wLength \in {1} /\ r.value \in Values /\ ~r.in
    <3>1. r.kind \in {"setLineCoding"} /\ r.wLength \in {1} /\ r.value \in Values
      BY <1>3, KindCarries
    <3>2. ~r.in
      BY <1>3, KindOut
    <3> QED BY <3>1, <3>2
  <2>2. r.wLength \in Nat /\ r.wLength < 65536 /\ r.value \in Nat
    BY <2>1, ValueSizes, SMT
  <2> QED
    BY <2>1, <2>2, SMT DEF Carries
<1>4. CASE r \in Request({"setLineState", "setWakeup"}, {FALSE}, {0}, Values)
  <2>1. r.kind \in {"setLineState", "setWakeup"} /\ r.wLength \in {0} /\ r.value \in Values /\ ~r.in
    <3>1. r.kind \in {"setLineState", "setWakeup"} /\ r.wLength \in {0} /\ r.value \in Values
      BY <1>4, KindCarries
    <3>2. ~r.in
      BY <1>4, KindOut
    <3> QED BY <3>1, <3>2
  <2>2. r.wLength \in Nat /\ r.wLength < 65536 /\ r.value \in Nat
    BY <2>1, ValueSizes, SMT
  <2> QED
    BY <2>1, <2>2, SMT DEF Carries
<1>5. CASE r \in Request(StatusOnly, {FALSE}, {0}, {0})
  <2>1. r.kind \in StatusOnly /\ r.wLength \in {0} /\ r.value \in {0} /\ ~r.in
    <3>1. r.kind \in StatusOnly /\ r.wLength \in {0} /\ r.value \in {0}
      BY <1>5, KindCarries
    <3>2. ~r.in
      BY <1>5, KindOut
    <3> QED BY <3>1, <3>2
  <2>2. r.wLength \in Nat /\ r.wLength < 65536 /\ r.value \in Nat
    BY <2>1, SMT
  <2> QED
    BY <2>1, <2>2, SMT DEF Carries
<1>6. CASE r \in Request({"setAddress"}, {FALSE}, {0}, Addresses)
  <2>1. r.kind \in {"setAddress"} /\ r.wLength \in {0} /\ r.value \in Addresses /\ ~r.in
    <3>1. r.kind \in {"setAddress"} /\ r.wLength \in {0} /\ r.value \in Addresses
      BY <1>6, KindCarries
    <3>2. ~r.in
      BY <1>6, KindOut
    <3> QED BY <3>1, <3>2
  <2>2. r.wLength \in Nat /\ r.wLength < 65536 /\ r.value \in Nat
    BY <2>1, AddressSizes, SMT
  <2> QED
    BY <2>1, <2>2, SMT DEF Carries
<1>7. CASE r \in Request({"setConfiguration"}, {FALSE}, {0}, {0, 1})
  <2>1. r.kind \in {"setConfiguration"} /\ r.wLength \in {0} /\ r.value \in {0, 1} /\ ~r.in
    <3>1. r.kind \in {"setConfiguration"} /\ r.wLength \in {0} /\ r.value \in {0, 1}
      BY <1>7, KindCarries
    <3>2. ~r.in
      BY <1>7, KindOut
    <3> QED BY <3>1, <3>2
  <2>2. r.wLength \in Nat /\ r.wLength < 65536 /\ r.value \in Nat
    BY <2>1, SMT
  <2> QED
    BY <2>1, <2>2, SMT DEF Carries
<1>8. CASE r \in Request({"setHalt", "clearHalt"}, {FALSE}, {0}, {Ep0Out, Ep0In, BulkOut})
  <2> DEFINE ends == {Ep0Out, Ep0In, BulkOut}
  <2>0. r \in Request({"setHalt", "clearHalt"}, {FALSE}, {0}, ends) /\ ends \subseteq Nat
    BY <1>8 DEF Ep0Out, Ep0In, BulkOut
  <2>1. r.kind \in {"setHalt", "clearHalt"} /\ r.wLength \in {0} /\ r.value \in ends /\ ~r.in
    <3> HIDE DEF ends
    <3>1. r.kind \in {"setHalt", "clearHalt"} /\ r.wLength \in {0} /\ r.value \in ends
      BY <2>0, KindCarries
    <3>2. ~r.in
      BY <2>0, KindOut
    <3> QED BY <3>1, <3>2
  <2>2. r.wLength \in Nat /\ r.wLength < 65536 /\ r.value \in Nat
    BY <2>0, <2>1, SMT
  <2> QED
    BY <2>1, <2>2, SMT DEF Carries
<1>9. CASE r \in Request({"unsupported"}, BOOLEAN, {1}, {0})
  <2>1. r.kind \in {"unsupported"} /\ r.wLength \in {1} /\ r.value \in {0}
    BY <1>9 DEF Request
  <2>2. r.wLength \in Nat /\ r.wLength < 65536 /\ r.wLength # 0 /\ r.value \in Nat
    BY <2>1, SMT
  <2> QED
    BY <2>1, <2>2, SMT DEF Carries
<1>10. CASE r \in Request({"unsupported"}, {FALSE}, {0}, {0})
  <2>1. r.kind \in {"unsupported"} /\ r.wLength \in {0} /\ r.value \in {0} /\ ~r.in
    <3>1. r.kind \in {"unsupported"} /\ r.wLength \in {0} /\ r.value \in {0}
      BY <1>10, KindCarries
    <3>2. ~r.in
      BY <1>10, KindOut
    <3> QED BY <3>1, <3>2
  <2>2. r.wLength \in Nat /\ r.wLength < 65536 /\ r.value \in Nat
    BY <2>1, SMT
  <2> QED
    BY <2>1, <2>2, SMT DEF Carries
<1> HIDE DEF Short
<1> QED
  BY <1>1, <1>2, <1>3, <1>4, <1>5, <1>6, <1>7, <1>8, <1>9, <1>10, Zenon DEF Requests

LEMMA AllCarry == \A r \in Requests : Carries(r)
<1> QED
  BY AllCarryShort, SMT

LEMMA AllShort == \A r \in Requests : r.wLength < 65536
<1> QED
  BY AllCarryShort, SMT

LEMMA NoneCarries ==
  /\ NoRequest.kind = "none" /\ ~NoRequest.in /\ NoRequest.wLength = 0 /\ NoRequest.value = 0
  /\ NoRequest \notin Requests
<1>1. NoRequest.kind = "none" /\ ~NoRequest.in /\ NoRequest.wLength = 0 /\ NoRequest.value = 0
  BY DEF NoRequest
<1>2. NoRequest \notin Requests
  BY Carried
<1> QED
  BY <1>1, <1>2

-----------------------------------------------------------------------------
(***************************************************************************)
(* The records the handler builds.                                         *)
(***************************************************************************)
SameDevice(d, e) ==
  /\ d.address = e.address /\ (d.addressed <=> e.addressed) /\ d.config = e.config
  /\ d.coding = e.coding /\ d.lineState = e.lineState

LEMMA NotedIs ==
  ASSUME dev \in Device
  PROVE  /\ Noted \in Device /\ SameDevice(Noted, dev)
         /\ Noted.pending = dev.pending /\ Noted.wakeup = dev.wakeup
<1> QED
  BY DEF Noted, Device, SameDevice

LEMMA ClearRxIs ==
  ASSUME out \in OutHalf
  PROVE  /\ ClearRx \in OutHalf /\ ~ClearRx.vt /\ ClearRx.stat = out.stat
         /\ ArmRx(ClearRx) \in OutHalf /\ ~ArmRx(ClearRx).vt /\ ArmRx(ClearRx).stat = "VALID"
<1>1. << >> \in Packet
  BY PacketAssumption DEF Packet, Bytes
<1>2. ClearRx \in OutHalf /\ ~ClearRx.vt /\ ClearRx.stat = out.stat
  BY <1>1 DEF ClearRx, OutHalf, AnyRequest
<1>3. ASSUME NEW half \in OutHalf, ~half.vt
      PROVE  ArmRx(half) \in OutHalf /\ ~ArmRx(half).vt /\ ArmRx(half).stat = "VALID"
  BY <1>3 DEF ArmRx, OutHalf, Stat
<1> QED
  BY <1>2, <1>3

LEMMA QueueInIs ==
  ASSUME in \in InHalf, NEW packet \in Packet
  PROVE  /\ QueueIn(packet) \in InHalf /\ (QueueIn(packet).vt <=> in.vt)
         /\ QueueIn(packet).stat = "VALID" /\ QueueIn(packet).packet = packet
<1> QED
  BY DEF QueueIn, InHalf, Stat

LEMMA EmptyIs == << >> \in Packet /\ Len(<< >>) = 0
<1> QED
  BY PacketAssumption DEF Packet, Bytes

LEMMA ClearTxIs ==
  ASSUME in \in InHalf
  PROVE  ClearTx \in InHalf /\ ~ClearTx.vt /\ ClearTx.stat = in.stat /\ ClearTx.packet = << >>
<1> QED
  BY EmptyIs DEF ClearTx, InHalf

LEMMA StartedIs ==
  ASSUME out \in OutHalf, NEW callback \in {"none", "address", "cdc"}, NEW total \in Nat
  PROVE  /\ Started(callback, total) \in Transfer
         /\ Started(callback, total).request = out.request
         /\ Started(callback, total).total = total /\ Started(callback, total).fed = 0
         /\ Started(callback, total).callback = callback
<1> QED
  BY DEF Started, Request0, OutHalf, Transfer

LEMMA ReadyIs ==
  ASSUME host \in Host
  PROVE  /\ Ready(host) \in Host /\ Ready(host).phase = "ready"
         /\ Ready(host).address = host.address /\ Ready(host).config = host.config
         /\ Ready(host).coding = host.coding /\ Ready(host).lineState = host.lineState
<1>1. "ready" \in Phases /\ NoRequest \in AnyRequest /\ << >> \in Bytes
  BY DEF Phases, AnyRequest, Bytes
<1> QED
  BY <1>1 DEF Ready, Host

-----------------------------------------------------------------------------
(***************************************************************************)
(* What a data stage hands over.                                           *)
(***************************************************************************)
LEMMA LeastIs ==
  ASSUME NEW m \in Nat, NEW n \in Nat
  PROVE  Least(m, n) \in Nat /\ Least(m, n) <= m /\ Least(m, n) <= n
         /\ (Least(m, n) = m \/ Least(m, n) = n)
<1> QED
  BY DEF Least

LEMMA SourceType == ASSUME dev \in Device, NEW r \in AnyRequest PROVE Source(r) \in Seq(Nat)
<1>1. r.value \in Nat
  BY AllCarry, NoneCarries DEF Carries, AnyRequest
<1>2. dev.coding \in Nat /\ 1 + 2 * dev.wakeup \in Nat
  BY DEF Device
<1>3. \A n \in Nat : [i \in 1 .. n |-> i] \in Seq(Nat)
  OBVIOUS
<1>4. CASE r.kind = "getDescriptor"
  BY <1>1, <1>3, <1>4 DEF Source
<1>5. CASE r.kind = "getLineCoding"
  BY <1>2, <1>5 DEF Source
<1>6. CASE r.kind = "getStatus"
  BY <1>2, <1>6 DEF Source
<1>7. CASE r.kind \notin {"getDescriptor", "getLineCoding", "getStatus"}
  BY <1>7 DEF Source
<1> QED
  BY <1>4, <1>5, <1>6, <1>7

LEMMA NextPacketType == ASSUME dev \in Device, NEW t \in Transfer PROVE NextPacket(t) \in Packet
<1> DEFINE left   == (t.total - t.fed) % 65536
           count  == Least(left, PacketSize)
           source == Source(t.request)
<1>1. t.request \in AnyRequest /\ t.total \in Nat /\ t.fed \in Nat /\ PacketSize \in Nat
  BY PacketAssumption DEF Transfer
<1>2. source \in Seq(Nat)
  BY <1>1, SourceType
<1>3. left \in Nat
  BY <1>1, SMT
<1>4. count \in Nat /\ count <= PacketSize
  <2> HIDE DEF left
  <2> QED
    BY <1>1, <1>3, LeastIs
<1>5. NextPacket(t) = [i \in 1 .. count |-> IF t.fed + i <= Len(source) THEN source[t.fed + i] ELSE 0]
  BY DEF NextPacket
<1> HIDE DEF count, source
<1>6. NextPacket(t) \in Seq(Nat) /\ Len(NextPacket(t)) = count
  <2>1. \A i \in 1 .. count : (IF t.fed + i <= Len(source) THEN source[t.fed + i] ELSE 0) \in Nat
    BY <1>1, <1>2, <1>4
  <2> QED BY <1>4, <1>5, <2>1
<1> QED
  BY <1>4, <1>6 DEF Packet, Bytes

LEMMA Continues ==
  ASSUME NEW s \in Seq(Nat), NEW m \in Nat, NEW n \in Nat, m + n <= Len(s)
  PROVE  SubSeq(s, 1, m) \o [i \in 1 .. n |-> s[m + i]] = SubSeq(s, 1, m + n)
<1> DEFINE first == SubSeq(s, 1, m)
           next  == [i \in 1 .. n |-> s[m + i]]
           both  == SubSeq(s, 1, m + n)
<1>1. first \in Seq(Nat) /\ Len(first) = m /\ \A i \in 1 .. m : first[i] = s[i]
  OBVIOUS
<1>2. next \in Seq(Nat) /\ Len(next) = n /\ \A i \in 1 .. n : next[i] = s[m + i]
  OBVIOUS
<1>3. both \in Seq(Nat) /\ Len(both) = m + n /\ \A i \in 1 .. m + n : both[i] = s[i]
  OBVIOUS
<1> HIDE DEF first, next, both
<1>4. /\ first \o next \in Seq(Nat) /\ Len(first \o next) = m + n
      /\ \A i \in 1 .. m + n : (first \o next)[i] = IF i <= m THEN first[i] ELSE next[i - m]
  <2>1. /\ first \o next \in Seq(Nat) /\ Len(first \o next) = Len(first) + Len(next)
        /\ \A i \in 1 .. Len(first) + Len(next) :
             (first \o next)[i] = IF i <= Len(first) THEN first[i] ELSE next[i - Len(first)]
    <3>1. first \in Seq(Nat) /\ next \in Seq(Nat)
      BY <1>1, <1>2
    <3> QED BY <3>1, ConcatProperties
  <2>2. Len(first) = m /\ Len(next) = n
    BY <1>1, <1>2
  <2> QED BY <2>1, <2>2
<1>5. ASSUME NEW i \in 1 .. m + n PROVE (first \o next)[i] = both[i]
  <2>1. CASE i <= m
    <3>1. i \in 1 .. m
      BY <2>1
    <3> QED
      BY <1>1, <1>3, <1>4, <2>1, <3>1
  <2>2. CASE ~(i <= m)
    <3>1. i - m \in 1 .. n /\ m + (i - m) = i
      BY <2>2
    <3>2. (first \o next)[i] = next[i - m]
      BY <1>4, <2>2
    <3> QED
      BY <1>2, <1>3, <3>1, <3>2
  <2> QED
    BY <2>1, <2>2
<1>6. first \o next = both
  BY <1>3, <1>4, <1>5, SeqEqual
<1> QED
  BY <1>6 DEF first, next, both

(***************************************************************************)
(* Within the total, the packet is the next bytes of the source.           *)
(***************************************************************************)
LEMMA NextPacketIs ==
  ASSUME dev \in Device, NEW t \in Transfer, t.request \in Requests,
         t.total = Whole(t.request), t.fed <= t.total
  PROVE  LET n == Len(NextPacket(t)) IN
         /\ n \in Nat /\ n <= PacketSize /\ t.fed + n <= t.total
         /\ n < PacketSize => t.fed + n = t.total
         /\ SubSeq(Source(t.request), 1, t.fed) \o NextPacket(t)
              = SubSeq(Source(t.request), 1, t.fed + n)
<1> DEFINE left   == (t.total - t.fed) % 65536
           count  == Least(left, PacketSize)
           source == Source(t.request)
<1>1. /\ t.request \in AnyRequest /\ t.total \in Nat /\ t.fed \in Nat /\ PacketSize \in Nat
  BY PacketAssumption DEF Transfer
<1>2. source \in Seq(Nat) /\ Len(source) \in Nat
  BY <1>1, SourceType
<1>3. t.total <= Len(source) /\ t.total <= t.request.wLength /\ t.request.wLength \in Nat
  <2>1. t.request.wLength \in Nat
    BY AllCarry, SMT DEF Carries
  <2> QED
    BY <1>2, <2>1, LeastIs DEF Whole
<1>4. left = t.total - t.fed /\ left \in Nat
  <2>1. t.request.wLength < 65536
    BY AllShort, SMT
  <2> QED
    BY <1>1, <1>3, <2>1, SMT
<1>5. count \in Nat /\ count <= PacketSize /\ count <= left /\ (count = left \/ count = PacketSize)
  <2> HIDE DEF left
  <2> QED
    BY <1>1, <1>4, LeastIs
<1>6. NextPacket(t) = [i \in 1 .. count |-> IF t.fed + i <= Len(source) THEN source[t.fed + i] ELSE 0]
  BY DEF NextPacket
<1> HIDE DEF left, count, source
<1>7. NextPacket(t) = [i \in 1 .. count |-> source[t.fed + i]]
  BY <1>1, <1>2, <1>3, <1>4, <1>5, <1>6
<1>8. Len(NextPacket(t)) = count
  BY <1>5, <1>7
<1>9. SubSeq(source, 1, t.fed) \o NextPacket(t) = SubSeq(source, 1, t.fed + count)
  <2> DEFINE m == t.fed
  <2>1. m \in Nat /\ m + count <= Len(source)
    BY <1>1, <1>3, <1>4, <1>5, <1>2
  <2>2. NextPacket(t) = [i \in 1 .. count |-> source[m + i]]
    BY <1>7
  <2> HIDE DEF m
  <2>3. SubSeq(source, 1, m) \o [i \in 1 .. count |-> source[m + i]] = SubSeq(source, 1, m + count)
    BY <1>2, <1>5, <2>1, Continues
  <2> QED
    BY <2>2, <2>3 DEF m
<1> QED
  BY <1>1, <1>4, <1>5, <1>8, <1>9 DEF source

-----------------------------------------------------------------------------
(***************************************************************************)
(* Which situations an action finds.                                       *)
(***************************************************************************)
LEMMA InBoolean == \A r \in AnyRequest : r.in \in BOOLEAN
<1>1. ASSUME NEW kinds, NEW dirs, NEW lengths, NEW values,
             NEW r \in Request(kinds, dirs, lengths, values), dirs \subseteq BOOLEAN
      PROVE  r.in \in BOOLEAN
  BY <1>1, Zenon DEF Request
<1>2. {TRUE} \subseteq BOOLEAN /\ {FALSE} \subseteq BOOLEAN /\ BOOLEAN \subseteq BOOLEAN
  OBVIOUS
<1>3. NoRequest.in \in BOOLEAN
  BY DEF NoRequest
<1>4. ASSUME NEW r \in Requests PROVE r.in \in BOOLEAN
  <2>1. CASE r \in Request({"getDescriptor"}, {TRUE}, Wanted, Lengths)
    BY <1>1, <1>2, <2>1, Zenon
  <2>2. CASE r \in Request(Getters \ {"getDescriptor"}, {TRUE}, {1}, {0})
    BY <1>1, <1>2, <2>2, Zenon
  <2>3. CASE r \in Request({"setLineCoding"}, {FALSE}, {1}, Values)
    BY <1>1, <1>2, <2>3, Zenon
  <2>4. CASE r \in Request({"setLineState", "setWakeup"}, {FALSE}, {0}, Values)
    BY <1>1, <1>2, <2>4, Zenon
  <2>5. CASE r \in Request(StatusOnly, {FALSE}, {0}, {0})
    BY <1>1, <1>2, <2>5, Zenon
  <2>6. CASE r \in Request({"setAddress"}, {FALSE}, {0}, Addresses)
    BY <1>1, <1>2, <2>6, Zenon
  <2>7. CASE r \in Request({"setConfiguration"}, {FALSE}, {0}, {0, 1})
    BY <1>1, <1>2, <2>7, Zenon
  <2>8. CASE r \in Request({"setHalt", "clearHalt"}, {FALSE}, {0}, {Ep0Out, Ep0In, BulkOut})
    BY <1>1, <1>2, <2>8, Zenon
  <2>9. CASE r \in Request({"unsupported"}, BOOLEAN, {1}, {0})
    BY <2>9, Zenon DEF Request
  <2>10. CASE r \in Request({"unsupported"}, {FALSE}, {0}, {0})
    BY <1>1, <1>2, <2>10, Zenon
  <2> QED
    BY <2>1, <2>2, <2>3, <2>4, <2>5, <2>6, <2>7, <2>8, <2>9, <2>10, Zenon DEF Requests
<1> QED
  BY <1>3, <1>4, Zenon DEF AnyRequest

LEMMA PollsInIs ==
  /\ host.phase = "data" => (PollsIn <=> host.request.in)
  /\ host.phase # "data" =>
       (PollsIn <=> ~host.request.in \/ host.request.wLength = 0)
<1> QED
  BY Zenon DEF PollsIn

LEMMA SetupFinds ==
  ASSUME TInv, Served, host.phase = "ready"
  PROVE  Settled
<1> QED
  BY DEF TInv, Core, Situation, Served, Asked, Hung, Queued, Taken, Complete, Armed, Sent,
         Confirming, Done

LEMMA TakesFinds ==
  ASSUME TInv, ~busReset, host.phase # "ready", PollsIn, in.stat = "VALID"
  PROVE  Queued \/ Confirming
<1> QED
  BY DEF TInv, Core, Situation, Settled, Asked, Hung, Taken, Complete, Armed, Sent, Coding, Done

LEMMA SendsFinds ==
  ASSUME TInv, ~busReset, host.phase # "ready", ~PollsIn, out.stat = "VALID", ~out.vt
  PROVE  Complete \/ Armed
<1>1. ~(host.phase = "status" /\ host.request.wLength = 0)
  BY PollsInIs
<1> QED
  BY <1>1 DEF TInv, Core, Situation, Settled, Asked, Hung, Misdirected, Queued, Taken, Answering, Sent,
              Confirming, Done

LEMMA FailureFinds ==
  ASSUME TInv, HostStalled \/ HostGivesUp
  PROVE  Hung
<1>1. host.phase # "ready" /\ ~busReset
  BY DEF HostStalled, HostGivesUp, Served
<1>2. /\ host.phase = "data" => (PollsIn <=> host.request.in)
      /\ host.phase # "data" => (PollsIn <=> ~host.request.in \/ host.request.wLength = 0)
  BY PollsInIs
<1>3. PollsIn => in.stat = "STALL" \/ (in.stat # "VALID" /\ Served)
  BY DEF HostStalled, HostGivesUp
<1>4. ~PollsIn => out.stat = "STALL" \/ (out.stat # "VALID" /\ Served)
  BY DEF HostStalled, HostGivesUp
<1>5. \A r \in Requests : r.kind = "setLineCoding" => ~r.in
  BY AllCarry DEF Carries
<1> QED
  BY <1>1, <1>2, <1>3, <1>4, <1>5
  DEF TInv, Core, Situation, Settled, Asked, Queued, Taken, Answering, Complete, Armed, Sent, Coding,
      Confirming, Done, Served, Quiet

LEMMA RxFinds ==
  ASSUME TInv, ~busReset, pc = "rx"
  PROVE  /\ out.request # NoRequest => Asked
         /\ out.request = NoRequest /\ transfer.request.in => Done /\ out.packet = << >> /\ ~in.vt
         /\ out.request = NoRequest /\ ~transfer.request.in => Sent
<1>1. \A r \in Requests : r # NoRequest /\ (r.kind = "setLineCoding" => ~r.in)
  BY AllCarry, NoneCarries DEF Carries
<1>2. Asked \/ Sent \/ (Done /\ out.vt)
  BY DEF TInv, Core, IInv, Place, Situation, Settled, Hung, Queued, Taken, Complete, Armed, Confirming,
         Done
<1> QED
  BY <1>1, <1>2 DEF Asked, Sent, Coding, Done

LEMMA AgainFinds ==
  ASSUME TInv, ~busReset, pc = "again"
  PROVE  Confirming \/ (Done /\ in.vt)
<1> QED
  BY DEF TInv, Core, Situation, Settled, Asked, Hung, Queued, Taken, Complete, Armed, Sent, Done

LEMMA TxFinds ==
  ASSUME TInv, ~busReset, pc = "tx"
  PROVE  /\ transfer.request.in => Taken
         /\ ~transfer.request.in => Done /\ in.vt /\ in.packet = << >> /\ ~out.vt
<1>1. Taken \/ (Done /\ in.vt /\ in.packet = << >> /\ ~out.vt /\ ~transfer.request.in)
  BY DEF TInv, Core, Situation, Settled, Asked, Hung, Queued, Complete, Armed, Sent, Confirming, Done
<1> QED
  BY <1>1 DEF Taken, Answering

-----------------------------------------------------------------------------
(***************************************************************************)
(* What the host believes, and what the status does to the device.         *)
(***************************************************************************)
LEMMA BelievesIs ==
  ASSUME NEW h \in Host
  PROVE  /\ Believes(h) \in Host /\ Believes(h).phase = "ready"
         /\ Believes(h).address = IF h.request.kind = "setAddress" THEN h.request.value ELSE h.address
         /\ Believes(h).config
              = IF h.request.kind = "setConfiguration" THEN h.request.value ELSE h.config
         /\ Believes(h).coding = IF h.request.kind = "setLineCoding" THEN h.request.value ELSE h.coding
         /\ Believes(h).lineState
              = IF h.request.kind = "setLineState" THEN h.request.value ELSE h.lineState
<1> DEFINE d == Ready(h)
           v == h.request.value
<1>1. d \in Host /\ d.phase = "ready" /\ d.address = h.address /\ d.config = h.config
      /\ d.coding = h.coding /\ d.lineState = h.lineState
  <2>1. "ready" \in Phases /\ NoRequest \in AnyRequest /\ << >> \in Bytes
    BY DEF Phases, AnyRequest, Bytes
  <2> QED
    BY <2>1 DEF Ready, Host
<1>2. /\ v \in Nat
      /\ h.request.kind = "setAddress" => v \in Addresses
      /\ h.request.kind = "setConfiguration" => v \in {0, 1}
  <2>1. h.request \in Requests \/ h.request = NoRequest
    BY DEF Host, AnyRequest
  <2> QED
    BY <2>1, AllCarry, NoneCarries DEF Carries
<1>3. Believes(h) =
        CASE h.request.kind = "setAddress"       -> [d EXCEPT !.address = v]
          [] h.request.kind = "setConfiguration" -> [d EXCEPT !.config = v]
          [] h.request.kind = "setLineCoding"    -> [d EXCEPT !.coding = v]
          [] h.request.kind = "setLineState"     -> [d EXCEPT !.lineState = v]
          [] OTHER                               -> d
  BY DEF Believes
<1> HIDE DEF d, v
<1>4. CASE h.request.kind = "setAddress"
  <2>1. Believes(h) = [d EXCEPT !.address = v] BY <1>3, <1>4
  <2> QED BY <1>1, <1>2, <1>4, <2>1 DEF Host, v
<1>5. CASE h.request.kind = "setConfiguration"
  <2>1. Believes(h) = [d EXCEPT !.config = v] BY <1>3, <1>5
  <2> QED BY <1>1, <1>2, <1>5, <2>1 DEF Host, v
<1>6. CASE h.request.kind = "setLineCoding"
  <2>1. Believes(h) = [d EXCEPT !.coding = v] BY <1>3, <1>6
  <2> QED BY <1>1, <1>2, <1>6, <2>1 DEF Host, v
<1>7. CASE h.request.kind = "setLineState"
  <2>1. Believes(h) = [d EXCEPT !.lineState = v] BY <1>3, <1>7
  <2> QED BY <1>1, <1>2, <1>7, <2>1 DEF Host, v
<1>8. CASE h.request.kind \notin {"setAddress", "setConfiguration", "setLineCoding", "setLineState"}
  <2>1. Believes(h) = d BY <1>3, <1>8
  <2> QED BY <1>1, <1>8, <2>1
<1> QED
  BY <1>4, <1>5, <1>6, <1>7, <1>8

LEMMA StatusIs ==
  ASSUME StatusDone
  PROVE  dev' = DevThen /\ daddr' = AddrThen
<1>1. CASE transfer.callback = "address"
  BY <1>1 DEF StatusDone, DevThen, AddrThen
<1>2. CASE transfer.callback # "address" /\ transfer.callback = "cdc"
             /\ transfer.request.kind = "setLineState"
  BY <1>2 DEF StatusDone, DevThen, AddrThen
<1>3. CASE ~(transfer.callback = "address")
             /\ ~(transfer.callback = "cdc" /\ transfer.request.kind = "setLineState")
  BY <1>3 DEF StatusDone, DevThen, AddrThen
<1> QED BY <1>1, <1>2, <1>3

LEMMA ThenIs ==
  ASSUME Typed, Pending
  PROVE  /\ DevThen \in Device /\ AddrThen \in Addresses \cup {0}
         /\ DevThen.pending \in Addresses \cup {0}
         /\ DevThen.config = dev.config /\ DevThen.coding = dev.coding
         /\ (transfer.callback = "address") =>
              /\ AddrThen = dev.pending /\ DevThen.address = dev.pending
              /\ DevThen.lineState = dev.lineState
         /\ (transfer.callback = "cdc" /\ transfer.request.kind = "setLineState") =>
              /\ AddrThen = daddr /\ DevThen.address = dev.address
              /\ (DevThen.addressed <=> dev.addressed)
              /\ DevThen.lineState = transfer.request.value
         /\ ~(transfer.callback = "address") /\ ~(transfer.callback = "cdc"
               /\ transfer.request.kind = "setLineState") => DevThen = dev /\ AddrThen = daddr
<1>1. CASE transfer.callback = "address"
  <2>1. DevThen = [dev EXCEPT !.address = dev.pending, !.addressed = (dev.pending # 0), !.pending = 0]
        /\ AddrThen = dev.pending
    BY <1>1 DEF DevThen, AddrThen
  <2> QED BY <1>1, <2>1 DEF Typed, Pending, Device
<1>2. CASE transfer.callback # "address" /\ transfer.callback = "cdc"
             /\ transfer.request.kind = "setLineState"
  <2>1. DevThen = [dev EXCEPT !.lineState = transfer.request.value] /\ AddrThen = daddr
    BY <1>2 DEF DevThen, AddrThen
  <2>2. transfer.request.value \in Nat
    <3>1. transfer.request \in Requests \/ transfer.request = NoRequest
      BY DEF Typed, Transfer, AnyRequest
    <3> QED BY <3>1, AllCarry, NoneCarries DEF Carries
  <2> QED BY <1>2, <2>1, <2>2 DEF Typed, Pending, Device, SameDevice
<1>3. CASE ~(transfer.callback = "address")
             /\ ~(transfer.callback = "cdc" /\ transfer.request.kind = "setLineState")
  <2>1. DevThen = dev /\ AddrThen = daddr
    BY <1>3 DEF DevThen, AddrThen
  <2> QED BY <1>3, <2>1 DEF Typed, Pending, Device
<1> QED BY <1>1, <1>2, <1>3

-----------------------------------------------------------------------------
(***************************************************************************)
(* The host and the bus.                                                   *)
(***************************************************************************)
LEMMA SetupStep == ASSUME HostWaits, TInv, NEW r \in Requests, Setup(r) PROVE Core'
<1>1. Settled /\ ~busReset
  BY SetupFinds DEF Setup
<1>2. UNCHANGED <<dev, daddr, transfer, bulk, pc, txSeen, busReset>>
  BY DEF Setup, handler
<1>3. out' \in OutHalf /\ out'.vt /\ out'.stat = "NAK" /\ out'.request = r
  BY DEF Setup, TInv, Core, Typed, OutHalf, Stat, AnyRequest
<1>4. in' \in InHalf /\ (in'.vt <=> in.vt) /\ in'.stat = "NAK"
  BY DEF Setup, TInv, Core, Typed, InHalf, Stat
<1>5. /\ host' \in Host /\ host'.request = r /\ host'.got = << >>
      /\ host'.phase = IF r.wLength > 0 THEN "data" ELSE "status"
      /\ host'.address = host.address /\ host'.config = host.config
      /\ host'.coding = host.coding /\ host'.lineState = host.lineState
  <2>1. /\ << >> \in Bytes /\ r \in AnyRequest
        /\ (IF r.wLength > 0 THEN "data" ELSE "status") \in Phases
    BY DEF Bytes, AnyRequest, Phases
  <2>2. host' = [host EXCEPT !.phase = IF r.wLength > 0 THEN "data" ELSE "status",
                             !.request = r, !.got = << >>]
    BY DEF Setup
  <2> QED BY <2>1, <2>2 DEF TInv, Core, Typed, Host
<1>6. Typed'
  BY <1>2, <1>3, <1>4, <1>5 DEF TInv, Core, Typed
<1>7. Asked'
  BY <1>1, <1>2, <1>3, <1>4, <1>5 DEF Asked, Settled, Quiet, Agree
<1>8. Filled'
  BY <1>3, NoneCarries DEF Filled
<1>9. Reset' /\ Pending' /\ TxSeen'
  BY <1>1, <1>2 DEF TInv, Core, Reset, Pending, TxSeen
<1> QED
  BY <1>6, <1>7, <1>8, <1>9 DEF Core, Situation

LEMMA TakesStep == ASSUME TInv, HostTakes PROVE Core'
<1>1. /\ UNCHANGED <<dev, daddr, transfer, out, bulk, pc, txSeen, busReset>> /\ ~busReset
      /\ host.phase # "ready" /\ PollsIn /\ in.stat = "VALID"
  BY DEF HostTakes, handler
<1>2. in' \in InHalf /\ in'.vt /\ in'.stat = "NAK" /\ in'.packet = in.packet
  BY DEF HostTakes, TInv, Core, Typed, InHalf, Stat
<1>3. host' \in Host => Typed'
  BY <1>1, <1>2 DEF TInv, Core, Typed
<1>4. Filled' /\ Reset' /\ Pending' /\ TxSeen'
  BY <1>1 DEF TInv, Core, Filled, Reset, Pending, TxSeen
<1>5. CASE Queued
  <2> DEFINE n == Len(in.packet)
             more == [host EXCEPT !.got = host.got \o in.packet]
  <2>1. /\ host.phase = "data" /\ transfer.request = host.request /\ transfer.request \in Requests
        /\ transfer.total = Whole(transfer.request) /\ transfer.fed <= transfer.total
        /\ in.packet = NextPacket(transfer)
        /\ host.got = SubSeq(Source(transfer.request), 1, transfer.fed)
    BY <1>5 DEF Queued, Answering
  <2>2. /\ n \in Nat /\ n <= PacketSize /\ transfer.fed + n <= transfer.total
        /\ n < PacketSize => transfer.fed + n = transfer.total
        /\ host.got \o in.packet = SubSeq(Source(transfer.request), 1, transfer.fed + n)
    BY <2>1, NextPacketIs DEF TInv, Core, Typed
  <2>3. /\ Source(transfer.request) \in Seq(Nat) /\ transfer.fed \in Nat /\ transfer.total \in Nat
        /\ transfer.request.wLength \in Nat /\ PacketSize \in Nat
    BY <2>1, SourceType, AllCarry, PacketAssumption
    DEF TInv, Core, Typed, AnyRequest, Transfer, Carries
  <2>4. transfer.total <= Len(Source(transfer.request)) /\ transfer.total <= transfer.request.wLength
    <3>1. Len(Source(transfer.request)) \in Nat
      BY <2>3
    <3>2. transfer.total = Least(Len(Source(transfer.request)), transfer.request.wLength)
      BY <2>1 DEF Whole
    <3> QED BY <2>3, <3>1, <3>2, LeastIs
  <2> HIDE DEF n
  <2>5. /\ host.got \o in.packet \in Bytes /\ Len(host.got \o in.packet) = transfer.fed + n
    BY <2>2, <2>3, <2>4 DEF Bytes
  <2>6. Len(host.got \o in.packet) >= host.request.wLength
          <=> transfer.fed + n = host.request.wLength
    <3> DEFINE w   == host.request.wLength
               sum == transfer.fed + n
    <3>1. w \in Nat /\ sum \in Nat /\ sum <= w /\ Len(host.got \o in.packet) = sum
      <4>1. w = transfer.request.wLength
        BY <2>1
      <4>2. w \in Nat /\ transfer.total <= w
        BY <2>3, <2>4, <4>1
      <4>3. sum \in Nat /\ sum <= transfer.total
        BY <2>2, <2>3
      <4>4. sum <= w
        BY <2>3, <4>2, <4>3
      <4> QED BY <2>5, <4>2, <4>3, <4>4
    <3> HIDE DEF w, sum
    <3>2. Len(host.got \o in.packet) >= w <=> sum = w
      BY <3>1
    <3> QED BY <3>2 DEF w, sum
  <2>7. /\ host' \in Host /\ host'.request = host.request /\ host'.got = host.got \o in.packet
        /\ host'.phase = IF n < PacketSize \/ transfer.fed + n = host.request.wLength
                         THEN "status" ELSE "data"
        /\ host'.address = host.address /\ host'.config = host.config
        /\ host'.coding = host.coding /\ host'.lineState = host.lineState
    <3> DEFINE got == host.got \o in.packet
    <3>1. host' = IF n < PacketSize \/ Len(got) >= host.request.wLength
                  THEN [host EXCEPT !.got = got, !.phase = "status"]
                  ELSE [host EXCEPT !.got = got]
      BY <2>1 DEF HostTakes, n
    <3>2. got \in Bytes /\ "status" \in Phases
      BY <2>5 DEF Phases
    <3>3. Len(got) >= host.request.wLength <=> transfer.fed + n = host.request.wLength
      BY <2>6
    <3> DEFINE last == n < PacketSize \/ transfer.fed + n = host.request.wLength
    <3>4. host' = IF last THEN [host EXCEPT !.got = got, !.phase = "status"]
                  ELSE [host EXCEPT !.got = got]
      BY <3>1, <3>3
    <3>5. host \in Host
      BY DEF TInv, Core, Typed
    <3> HIDE DEF got, last
    <3>6. /\ host' \in Host /\ host'.request = host.request /\ host'.got = got
          /\ host'.phase = IF last THEN "status" ELSE "data"
          /\ host'.address = host.address /\ host'.config = host.config
          /\ host'.coding = host.coding /\ host'.lineState = host.lineState
      BY <2>1, <3>2, <3>4, <3>5 DEF Host
    <3> QED
      BY <3>6 DEF got, last
  <2>8. Promise'
    <3>1. DevThen' = DevThen /\ AddrThen' = AddrThen
      BY <1>1 DEF DevThen, AddrThen
    <3>2. host \in Host
      BY DEF TInv, Core, Typed
    <3>3. /\ Believes(host').address = Believes(host).address
          /\ Believes(host').config = Believes(host).config
          /\ Believes(host').coding = Believes(host).coding
          /\ Believes(host').lineState = Believes(host).lineState
      BY <2>7, <3>2, BelievesIs
    <3> QED
      BY <1>5, <3>1, <3>3 DEF Queued, Answering, Promise, Agree
  <2>9. Source(host.request)' = Source(host.request) /\ Whole(host.request)' = Whole(host.request)
    BY <1>1, <2>7 DEF Source, Whole
  <2>10. Taken'
    BY <1>1, <1>2, <1>5, <2>1, <2>2, <2>7, <2>8, <2>9 DEF Taken, Answering, Queued, n
  <2> QED
    BY <1>3, <1>4, <2>7, <2>10 DEF Core, Situation
<1>6. CASE Confirming
  <2>1. host' = Believes(host) /\ in.packet = << >>
    BY <1>6 DEF Confirming, HostTakes
  <2>2. host' \in Host /\ host'.phase = "ready"
    BY <2>1, BelievesIs DEF TInv, Core, Typed
  <2>3. DevThen' = DevThen /\ AddrThen' = AddrThen
    BY <1>1 DEF DevThen, AddrThen
  <2>4. Agree(DevThen', AddrThen', host')
    BY <1>6, <2>1, <2>3 DEF Confirming, Promise
  <2>5. Done'
    BY <1>1, <1>2, <1>6, <2>1, <2>2, <2>4 DEF Done, Confirming, Quiet
  <2> QED
    BY <1>3, <1>4, <2>2, <2>5 DEF Core, Situation
<1> QED
  BY <1>1, <1>5, <1>6, TakesFinds

LEMMA SendsStep == ASSUME TInv, HostSends PROVE Core'
<1>1. /\ UNCHANGED <<dev, daddr, transfer, in, bulk, pc, txSeen, busReset>> /\ ~busReset
      /\ host.phase # "ready" /\ ~PollsIn /\ out.stat = "VALID" /\ ~out.vt
  BY DEF HostSends, handler
<1>2. host \in Host /\ transfer.request \in AnyRequest
  BY DEF TInv, Core, Typed, Transfer
<1>3. Reset' /\ Pending' /\ TxSeen'
  BY <1>1 DEF TInv, Core, Reset, Pending, TxSeen
<1>4. ASSUME NEW packet \in Packet,
             out' = [stat |-> "NAK", vt |-> TRUE, request |-> NoRequest, packet |-> packet],
             host' \in Host
      PROVE  Typed'
  <2>1. out' \in OutHalf
    BY <1>4 DEF OutHalf, Stat, AnyRequest
  <2> QED BY <1>1, <1>4, <2>1 DEF TInv, Core, Typed
<1>5. CASE Complete
  <2>1. host.phase = "status" /\ host.request.in /\ transfer.request = host.request
    BY <1>5 DEF Complete
  <2>2. out' = [stat |-> "NAK", vt |-> TRUE, request |-> NoRequest, packet |-> << >>]
        /\ host' = Believes(host)
    BY <2>1 DEF HostSends
  <2>3. host' \in Host /\ host'.phase = "ready"
    BY <1>2, <2>2, BelievesIs
  <2>4. Typed'
    BY <1>4, <2>2, <2>3, EmptyIs
  <2>5. DevThen' = DevThen /\ AddrThen' = AddrThen
    BY <1>1 DEF DevThen, AddrThen
  <2>6. Done'
    BY <1>1, <1>5, <2>1, <2>2, <2>3, <2>5 DEF Done, Complete, Promise, Quiet
  <2>7. Filled'
    BY <1>1, <2>1 DEF Filled
  <2> QED BY <1>3, <2>4, <2>6, <2>7 DEF Core, Situation
<1>6. CASE Armed
  <2> DEFINE packet == <<host.request.value>>
  <2>1. host.phase = "data" /\ host.request \in Requests
    BY <1>6 DEF Armed, Coding
  <2>2. out' = [stat |-> "NAK", vt |-> TRUE, request |-> NoRequest, packet |-> packet]
        /\ host' = [host EXCEPT !.phase = "status"]
    BY <2>1 DEF HostSends
  <2>3. packet \in Packet
    <3>1. host.request.value \in Nat
      BY <2>1, AllCarry DEF Carries
    <3> QED BY <3>1, PacketAssumption DEF Packet, Bytes
  <2>4. /\ host' \in Host /\ host'.phase = "status" /\ host'.request = host.request
        /\ host'.address = host.address /\ host'.config = host.config
        /\ host'.coding = host.coding /\ host'.lineState = host.lineState
    BY <1>2, <2>2 DEF Host, Phases
  <2>5. Typed'
    BY <1>4, <2>2, <2>3, <2>4
  <2>6. out'.vt /\ out'.stat = "NAK" /\ out'.request = NoRequest /\ out'.packet = packet
    BY <2>2
  <2>7. Sent'
    BY <1>1, <1>6, <2>4, <2>6 DEF Sent, Armed, Coding, Agree
  <2>8. Filled'
    BY <2>6 DEF Filled
  <2> QED BY <1>3, <2>5, <2>7, <2>8 DEF Core, Situation
<1> QED
  BY <1>1, <1>5, <1>6, SendsFinds

LEMMA FailureStep == ASSUME TInv, HostStalled \/ HostGivesUp PROVE Core'
<1>1. UNCHANGED <<dev, daddr, transfer, out, in, bulk, pc, txSeen, busReset>>
      /\ host' = Ready(host) /\ ~busReset
  BY DEF HostStalled, HostGivesUp, Served, handler
<1>2. /\ host' \in Host /\ host'.phase = "ready"
      /\ host'.address = host.address /\ host'.config = host.config
      /\ host'.coding = host.coding /\ host'.lineState = host.lineState
  BY <1>1, ReadyIs DEF TInv, Core, Typed
<1>3. Typed'
  BY <1>1, <1>2 DEF TInv, Core, Typed
<1>4. Settled'
  BY <1>1, <1>2, FailureFinds DEF Hung, Settled, Quiet, Agree
<1>5. Filled' /\ Reset' /\ Pending' /\ TxSeen'
  BY <1>1 DEF TInv, Core, Filled, Reset, Pending, TxSeen
<1> QED BY <1>3, <1>4, <1>5 DEF Core, Situation

LEMMA BusResetStep == ASSUME TInv, BusReset PROVE Core'
<1>1. UNCHANGED <<dev, daddr, transfer, pc, txSeen>> /\ busReset' = TRUE /\ bulk' = "DISABLED"
  BY DEF BusReset, handler
<1>2. out' \in OutHalf /\ (out'.vt <=> out.vt) /\ out'.request = out.request
      /\ out'.packet = out.packet
  BY DEF BusReset, TInv, Core, Typed, OutHalf, Stat
<1>3. in' \in InHalf
  BY DEF BusReset, TInv, Core, Typed, InHalf, Stat
<1>4. /\ host' \in Host /\ host'.phase = "ready" /\ host'.address = 0 /\ host'.config = 0
      /\ host'.coding = Unknown /\ host'.lineState = Unknown
  <2> DEFINE ready == Ready(host)
  <2>1. ready \in Host /\ ready.phase = "ready"
    BY ReadyIs DEF TInv, Core, Typed
  <2>2. host' = [ready EXCEPT !.address = 0, !.config = 0, !.coding = Unknown, !.lineState = Unknown]
    BY DEF BusReset
  <2> HIDE DEF ready
  <2> QED BY <2>1, <2>2 DEF Host
<1>5. Typed'
  BY <1>1, <1>2, <1>3, <1>4 DEF TInv, Core, Typed, Stat
<1>6. Filled' /\ Reset' /\ Pending' /\ TxSeen'
  BY <1>1, <1>2, <1>4 DEF TInv, Core, Filled, Reset, Pending, TxSeen
<1> QED BY <1>1, <1>5, <1>6 DEF Core, Situation

-----------------------------------------------------------------------------
(***************************************************************************)
(* The handler.  While a reset is pending only the types matter.           *)
(***************************************************************************)
LEMMA IsrResetStep == ASSUME TInv, IsrReset PROVE Core'
<1>1. /\ UNCHANGED <<bulk, pc, txSeen, host>> /\ busReset /\ ~busReset' /\ daddr' = 0
      /\ transfer' = NoTransfer /\ pc = "idle"
  BY DEF IsrReset, handler
<1>2. out' \in OutHalf /\ ~out'.vt
  BY DEF IsrReset, TInv, Core, Typed, OutHalf, Stat
<1>3. in' \in InHalf /\ ~in'.vt
  BY DEF IsrReset, TInv, Core, Typed, InHalf, Stat
<1>4. /\ dev' \in Device /\ dev'.config = 0 /\ ~dev'.addressed /\ dev'.pending = 0
  BY DEF IsrReset, Blank, TInv, Core, Typed, Device
<1>5. NoTransfer \in Transfer
  BY DEF NoTransfer, Transfer, AnyRequest
<1>6. Typed'
  <2>1. busReset' = FALSE
    BY DEF IsrReset
  <2> QED BY <1>1, <1>2, <1>3, <1>4, <1>5, <2>1 DEF TInv, Core, Typed
<1>7. Settled'
  BY <1>1, <1>2, <1>3, <1>4 DEF TInv, Core, Reset, Settled, Quiet, Agree
<1>8. Filled' /\ Reset' /\ Pending' /\ TxSeen'
  BY <1>1, <1>2, <1>4 DEF TInv, Core, Filled, Reset, Pending, TxSeen
<1> QED BY <1>6, <1>7, <1>8 DEF Core, Situation

LEMMA IsrReadStep == ASSUME TInv, IsrRead PROVE Core'
<1>1. /\ UNCHANGED <<dev, daddr, transfer, out, in, bulk, busReset, host>> /\ ~busReset
      /\ pc = "idle" /\ (out.vt \/ in.vt) /\ txSeen' = in.vt
      /\ pc' = IF out.vt THEN "rx" ELSE "tx"
  BY DEF IsrRead
<1>2. ~(out.vt /\ in.vt)
  BY <1>1 DEF TInv, Core, Situation, Settled, Asked, Hung, Queued, Taken, Answering, Complete, Armed,
              Sent, Coding, Confirming, Done, Quiet
<1>3. in.vt \in BOOLEAN /\ pc' \in Steps
  BY <1>1 DEF TInv, Core, Typed, InHalf, Steps
<1>4. Typed'
  BY <1>1, <1>3 DEF TInv, Core, Typed
<1>5. TxSeen'
  <2>1. CASE out.vt
    BY <1>1, <1>2, <1>3, <2>1 DEF TxSeen
  <2>2. CASE ~out.vt
    BY <1>1, <1>3, <2>2 DEF TxSeen
  <2> QED BY <2>1, <2>2
<1>6. Filled' /\ Reset' /\ Pending'
  BY <1>1 DEF TInv, Core, Filled, Reset, Pending
<1>7. Asked \/ Taken \/ Sent \/ Done
  BY <1>1 DEF TInv, Core, Situation, Settled, Hung, Queued, Answering, Complete, Armed, Coding, Confirming,
              Quiet
<1>8. /\ DevThen' = DevThen /\ AddrThen' = AddrThen /\ Promise' = Promise
      /\ \A r : Source(r)' = Source(r) /\ Whole(r)' = Whole(r)
  BY <1>1 DEF DevThen, AddrThen, Promise, Source, Whole
<1>9. Asked' \/ Taken' \/ Sent' \/ Done'
  <2>1. CASE Asked
    BY <1>1, <2>1 DEF Asked, Agree
  <2>2. CASE Taken
    BY <1>1, <1>8, <2>2 DEF Taken, Answering
  <2>3. CASE Sent
    BY <1>1, <2>3 DEF Sent, Coding, Agree
  <2>4. CASE Done
    BY <1>1, <1>8, <2>4 DEF Done, Agree
  <2> QED BY <1>7, <2>1, <2>2, <2>3, <2>4
<1> QED BY <1>4, <1>5, <1>6, <1>9 DEF Core, Situation

LEMMA QueueAgainStep == ASSUME TInv, QueueAgain PROVE Core'
<1>1. /\ UNCHANGED <<dev, daddr, transfer, out, bulk, txSeen, busReset, host>>
      /\ pc = "again" /\ in' = QueueIn(<< >>) /\ pc' = AfterRx
  BY DEF QueueAgain
<1>2. pc' = "idle" /\ ~txSeen
  BY <1>1 DEF AfterRx, TInv, Core, Typed, TxSeen
<1>3. in' \in InHalf /\ (in'.vt <=> in.vt) /\ in'.stat = "VALID" /\ in'.packet = << >>
  BY <1>1, QueueInIs, EmptyIs DEF TInv, Core, Typed
<1>4. Typed'
  BY <1>1, <1>2, <1>3 DEF TInv, Core, Typed, Steps
<1>5. Filled' /\ Reset' /\ Pending' /\ TxSeen'
  BY <1>1, <1>2 DEF TInv, Core, Typed, Filled, Reset, Pending, TxSeen
<1>6. DevThen' = DevThen /\ AddrThen' = AddrThen /\ Promise' = Promise
  BY <1>1 DEF DevThen, AddrThen, Promise
<1>7. CASE ~busReset
  <2>1. ASSUME Confirming PROVE Confirming'
    BY <1>1, <1>2, <1>3, <1>6, <2>1 DEF Confirming, Quiet
  <2>2. ASSUME Done, in.vt PROVE Done'
    BY <1>1, <1>2, <1>3, <1>6, <2>2 DEF Done
  <2> QED BY <1>1, <1>4, <1>5, <1>7, <2>1, <2>2, AgainFinds DEF Core, Situation
<1> QED BY <1>1, <1>4, <1>5, <1>7 DEF Core, Situation

-----------------------------------------------------------------------------
(***************************************************************************)
(* A SETUP packet is served.                                               *)
(***************************************************************************)
Serving == Get \/ SetLineCoding \/ SetAtOnce \/ SetAddress \/ SetConfiguration \/ EndpointHalt
             \/ Unsupported

LEMMA ServingFinds ==
  ASSUME TInv, Serving
  PROVE  /\ pc = "rx" /\ ~txSeen /\ AfterRx = "idle" /\ out.request \in Requests
         /\ UNCHANGED <<txSeen, busReset, host>>
         /\ ~busReset => Asked
<1>1. pc = "rx" /\ UNCHANGED <<txSeen, busReset, host>>
  BY DEF Serving, Get, SetLineCoding, SetAtOnce, SetAddress, SetConfiguration, EndpointHalt,
         Unsupported, Process
<1>2. out.request.kind # "none"
  BY DEF Serving, Get, SetLineCoding, SetAtOnce, SetAddress, SetConfiguration, EndpointHalt,
         Unsupported, Process, Getters, Constant, StatusOnly
<1>3. out.request # NoRequest /\ out.request \in Requests
  BY <1>2, NoneCarries DEF TInv, Core, Typed, OutHalf, AnyRequest
<1>4. ~txSeen /\ AfterRx = "idle"
  BY <1>1 DEF AfterRx, TInv, Core, TxSeen, Typed
<1> QED
  BY <1>1, <1>3, <1>4, RxFinds

LEMMA ServingKeeps ==
  ASSUME TInv, Serving, dev' \in Device, dev'.pending \in Addresses \cup {0}, ~out'.vt,
         pc' \in {"idle", "again"}
  PROVE  Filled' /\ Reset' /\ Pending' /\ TxSeen'
<1> QED
  BY ServingFinds DEF TInv, Core, Typed, Filled, Reset, Pending, TxSeen

LEMMA GetStep == ASSUME TInv, Get PROVE Core'
<1> DEFINE r == out.request
           total == Whole(r)
<1>1. /\ pc = "rx" /\ ~txSeen /\ AfterRx = "idle" /\ r \in Requests
      /\ UNCHANGED <<txSeen, busReset, host>>
      /\ ~busReset => Asked
  BY ServingFinds DEF Serving
<1>2. r.kind \in Getters
  BY DEF Get, Process, Getters
<1>3. r.in /\ r.wLength \in Nat /\ r.kind # "unsupported"
      /\ r.kind # "setLineState" /\ r.kind # "setLineCoding"
      /\ r.kind # "setAddress" /\ r.kind # "setConfiguration"
  BY <1>1, <1>2, AllCarry DEF Carries, Getters, Constant
<1>4. total \in Nat /\ Source(r) \in Seq(Nat)
  <2>1. Source(r) \in Seq(Nat)
    BY <1>1, SourceType DEF AnyRequest, TInv, Core, Typed
  <2>2. Len(Source(r)) \in Nat
    BY <2>1
  <2>3. Least(Len(Source(r)), r.wLength) \in Nat
    BY <1>3, <2>2, LeastIs
  <2> QED BY <2>1, <2>3 DEF Whole
<1>5. /\ transfer' \in Transfer /\ transfer'.request = r /\ transfer'.total = total
      /\ transfer'.fed = 0 /\ transfer'.callback \in {"none", "cdc"}
  <2>1. Callback \in {"none", "cdc"}
    BY DEF Callback
  <2>2. transfer' = Started(Callback, total)
    BY DEF Get, Whole, Request0
  <2> HIDE DEF total
  <2> QED BY <1>4, <2>1, <2>2, StartedIs DEF TInv, Core, Typed
<1>6. ASSUME r.wLength > 0
      PROVE  /\ in' \in InHalf /\ (in'.vt <=> in.vt) /\ in'.stat = "VALID"
             /\ in'.packet = NextPacket(transfer')
             /\ out' \in OutHalf /\ ~out'.vt /\ out'.stat = out.stat
  <2>1. NextPacket(transfer') \in Packet
    BY <1>5, NextPacketType DEF TInv, Core, Typed
  <2>2. in' = QueueIn(NextPacket(transfer')) /\ out' = ClearRx
    BY <1>6 DEF Get, Request0
  <2> QED BY <2>1, <2>2, QueueInIs, ClearRxIs DEF TInv, Core, Typed
<1>7. ASSUME ~(r.wLength > 0)
      PROVE  UNCHANGED in /\ out' \in OutHalf /\ ~out'.vt
  <2>1. out' = ArmRx(ClearRx) /\ UNCHANGED in
    BY <1>7 DEF Get, Request0
  <2> QED BY <2>1, ClearRxIs DEF TInv, Core, Typed
<1>8. /\ dev' \in Device /\ SameDevice(dev', dev)
      /\ dev'.pending = dev.pending /\ dev'.wakeup = dev.wakeup
  BY NotedIs DEF Get, TInv, Core, Typed
<1>9. UNCHANGED <<daddr, bulk>> /\ pc' = "idle"
  BY <1>1 DEF Get
<1>10. Typed' /\ ~out'.vt
  <2>1. in' \in InHalf /\ out' \in OutHalf /\ ~out'.vt
    BY <1>6, <1>7 DEF TInv, Core, Typed
  <2> QED BY <1>1, <1>5, <1>8, <1>9, <2>1 DEF TInv, Core, Typed, Steps
<1>11. Filled' /\ Reset' /\ Pending' /\ TxSeen'
  BY <1>8, <1>9, <1>10, ServingKeeps DEF Serving, TInv, Core, Pending
<1>12. ASSUME ~busReset, r.wLength > 0 PROVE Queued'
  <2>1. \A q : Source(q)' = Source(q) /\ Whole(q)' = Whole(q)
    BY <1>8 DEF Source, Whole, SameDevice
  <2>2. NextPacket(transfer)' = NextPacket(transfer')
    BY <2>1 DEF NextPacket
  <2>3. host' = host /\ host.request = r /\ host.got = << >> /\ host.phase = "data"
        /\ Agree(dev, daddr, host) /\ out.stat = "NAK" /\ ~in.vt
    BY <1>1, <1>3, <1>12 DEF Asked
  <2>4. Promise'
    <3>1. DevThen' = dev' /\ AddrThen' = daddr'
      BY <1>3, <1>5 DEF DevThen, AddrThen
    <3>2. /\ Believes(host').address = host.address /\ Believes(host').config = host.config
          /\ Believes(host').coding = host.coding /\ Believes(host').lineState = host.lineState
      BY <1>3, <2>3, BelievesIs DEF TInv, Core, Typed
    <3> QED BY <1>8, <1>9, <2>3, <3>1, <3>2 DEF Promise, Agree, SameDevice
  <2>5. Answering'
    BY <1>1, <1>3, <1>5, <1>6, <1>12, <2>1, <2>3, <2>4 DEF Answering
  <2>6. host.got = SubSeq(Source(r), 1, transfer'.fed)
    BY <1>4, <1>5, <2>3
  <2> HIDE DEF total
  <2>7. 0 <= total
    BY <1>4
  <2> QED
    BY <1>5, <1>6, <1>9, <1>12, <2>1, <2>2, <2>3, <2>5, <2>6, <2>7 DEF Queued
<1>13. ASSUME ~busReset, ~(r.wLength > 0) PROVE Hung'
  <2>1. r.wLength = 0
    BY <1>3, <1>13
  <2>2. /\ host' = host /\ host.request = r /\ host.got = << >> /\ host.phase = "status"
        /\ Agree(dev, daddr, host) /\ in.stat = "NAK" /\ ~in.vt
    BY <1>1, <1>13 DEF Asked
  <2> HIDE DEF r, total
  <2>3. Misdirected(host.request)' /\ host'.request \in Requests
    BY <1>1, <1>2, <2>1, <2>2 DEF Misdirected
  <2>4. Agree(dev, daddr, host)'
    BY <1>8, <1>9, <2>2 DEF Agree, SameDevice
  <2> QED BY <1>7, <1>9, <1>13, <2>2, <2>3, <2>4 DEF Hung, Quiet
<1> QED BY <1>1, <1>10, <1>11, <1>12, <1>13 DEF Core, Situation

LEMMA SetLineCodingStep == ASSUME TInv, SetLineCoding PROVE Core'
<1> DEFINE r == out.request
<1>1. /\ pc = "rx" /\ ~txSeen /\ AfterRx = "idle" /\ r \in Requests
      /\ UNCHANGED <<txSeen, busReset, host>>
      /\ ~busReset => Asked
  BY ServingFinds DEF Serving
<1>2. r.kind = "setLineCoding"
  BY DEF SetLineCoding, Process
<1>3. ~r.in /\ r.wLength = 1
  BY <1>1, <1>2, AllCarry DEF Carries
<1>4. transfer' \in Transfer /\ transfer'.request = r /\ transfer'.callback = "cdc"
  <2>1. transfer' = Started("cdc", 1)
    BY <1>2, <1>3 DEF SetLineCoding, Callback, Class, Request0
  <2> QED BY <2>1, StartedIs DEF TInv, Core, Typed
<1>5. out' \in OutHalf /\ ~out'.vt /\ out'.stat = "VALID"
  BY ClearRxIs DEF SetLineCoding, TInv, Core, Typed
<1>6. dev' \in Device /\ SameDevice(dev', dev) /\ dev'.pending = dev.pending
  BY NotedIs DEF SetLineCoding, TInv, Core, Typed
<1>7. UNCHANGED <<daddr, bulk, in>> /\ pc' = "idle"
  BY <1>1 DEF SetLineCoding
<1>8. Typed'
  BY <1>1, <1>4, <1>5, <1>6, <1>7 DEF TInv, Core, Typed, Steps
<1>9. Filled' /\ Reset' /\ Pending' /\ TxSeen'
  BY <1>5, <1>6, <1>7, ServingKeeps DEF Serving, TInv, Core, Pending
<1>10. ASSUME ~busReset PROVE Armed'
  BY <1>1, <1>2, <1>3, <1>4, <1>5, <1>6, <1>7, <1>10 DEF Armed, Coding, Asked, Agree, SameDevice
<1> QED BY <1>1, <1>8, <1>9, <1>10 DEF Core, Situation

LEMMA HungStep == ASSUME TInv, EndpointHalt \/ Unsupported PROVE Core'
<1> DEFINE r == out.request
<1>1. /\ pc = "rx" /\ ~txSeen /\ AfterRx = "idle" /\ r \in Requests
      /\ UNCHANGED <<txSeen, busReset, host>>
      /\ ~busReset => Asked
  BY ServingFinds DEF Serving
<1>2. r.kind \in {"unsupported", "setHalt", "clearHalt"}
  BY DEF EndpointHalt, Unsupported, Process
<1>3. transfer' \in Transfer
  BY DEF EndpointHalt, Unsupported, TInv, Core, Typed, Transfer
<1>4. /\ out' \in OutHalf /\ ~out'.vt /\ (out'.stat = out.stat \/ out'.stat # "VALID")
      /\ in' \in InHalf /\ (in'.vt <=> in.vt) /\ (in'.stat = in.stat \/ in'.stat # "VALID")
  <2>0. ClearRx \in OutHalf /\ ~ClearRx.vt /\ ClearRx.stat = out.stat /\ in \in InHalf
    BY ClearRxIs DEF TInv, Core, Typed
  <2>1. CASE EndpointHalt
    <3>1. /\ out' = [ClearRx EXCEPT !.stat = IF r.value = Ep0Out THEN HaltStat ELSE @]
          /\ in' = [in EXCEPT !.stat = IF r.value = Ep0In THEN HaltStat ELSE @]
      BY <2>1 DEF EndpointHalt, Request0
    <3>2. HaltStat \in Stat /\ HaltStat # "VALID"
      BY DEF HaltStat, Stat
    <3>3. out' \in OutHalf /\ ~out'.vt /\ (out'.stat = out.stat \/ out'.stat # "VALID")
      <4>1. CASE r.value = Ep0Out
        <5>1. out' = [ClearRx EXCEPT !.stat = HaltStat] BY <3>1, <4>1
        <5> QED BY <2>0, <3>2, <5>1 DEF OutHalf
      <4>2. CASE r.value # Ep0Out
        <5>1. out' = ClearRx BY <2>0, <3>1, <4>2 DEF OutHalf
        <5> QED BY <2>0, <5>1
      <4> QED BY <4>1, <4>2
    <3>4. in' \in InHalf /\ (in'.vt <=> in.vt) /\ (in'.stat = in.stat \/ in'.stat # "VALID")
      <4>1. CASE r.value = Ep0In
        <5>1. in' = [in EXCEPT !.stat = HaltStat] BY <3>1, <4>1
        <5> QED BY <2>0, <3>2, <5>1 DEF InHalf
      <4>2. CASE r.value # Ep0In
        <5>1. in' = in BY <2>0, <3>1, <4>2 DEF InHalf
        <5> QED BY <2>0, <5>1
      <4> QED BY <4>1, <4>2
    <3> QED BY <3>3, <3>4
  <2>2. CASE Unsupported
    <3>1. out' = [ClearRx EXCEPT !.stat = "STALL"] /\ UNCHANGED in
      BY <2>2 DEF Unsupported
    <3> QED BY <2>0, <3>1 DEF OutHalf, Stat
  <2> QED BY <2>1, <2>2
<1>5. dev' \in Device /\ SameDevice(dev', dev) /\ dev'.pending = dev.pending
  BY NotedIs DEF EndpointHalt, Unsupported, TInv, Core, Typed
<1>6. UNCHANGED daddr /\ pc' = "idle" /\ bulk' \in Stat
  BY <1>1 DEF EndpointHalt, HaltStat, Unsupported, Stat, TInv, Core, Typed
<1>7. Typed'
  BY <1>1, <1>3, <1>4, <1>5, <1>6 DEF TInv, Core, Typed, Steps
<1>8. Filled' /\ Reset' /\ Pending' /\ TxSeen'
  BY <1>4, <1>5, <1>6, ServingKeeps DEF Serving, TInv, Core, Pending
<1>9. ASSUME ~busReset PROVE Hung'
  BY <1>1, <1>2, <1>4, <1>5, <1>6, <1>9 DEF Hung, Asked, Agree, SameDevice, Quiet
<1> QED BY <1>1, <1>7, <1>8, <1>9 DEF Core, Situation

(***************************************************************************)
(* A request without a data stage goes to its status at once.              *)
(***************************************************************************)
LEMMA StatusStep ==
  ASSUME TInv, SetAtOnce \/ SetAddress \/ SetConfiguration
  PROVE  Core'
<1> DEFINE r == out.request
<1>1. /\ pc = "rx" /\ ~txSeen /\ AfterRx = "idle" /\ r \in Requests
      /\ UNCHANGED <<txSeen, busReset, host>>
      /\ ~busReset => Asked
  BY ServingFinds DEF Serving
<1>2. r.kind \in NoData /\ r.kind \notin {"setLineCoding", "unsupported", "setHalt", "clearHalt"}
  BY DEF SetAtOnce, SetAddress, SetConfiguration, Process, NoData, StatusOnly
<1>3. /\ ~r.in /\ r.wLength = 0 /\ r.value \in Nat
      /\ r.kind = "setAddress" => r.value \in Addresses
      /\ r.kind = "setConfiguration" => r.value \in {0, 1}
  BY <1>1, <1>2, AllCarry DEF Carries
<1>4. /\ transfer' \in Transfer /\ transfer'.request = r
      /\ transfer'.callback = "address" <=> r.kind = "setAddress"
      /\ r.kind = "setLineState" => transfer'.callback = "cdc"
  <2>1. CASE SetAtOnce
    <3>1. r.kind # "setAddress" /\ transfer' = Started(Callback, 0)
      BY <2>1 DEF SetAtOnce, Process, StatusOnly
    <3>2. Callback \in {"none", "cdc"} /\ (r.kind = "setLineState" => Callback = "cdc")
      BY DEF Callback, Class, Request0
    <3> QED BY <3>1, <3>2, StartedIs DEF TInv, Core, Typed
  <2>2. CASE SetAddress
    <3>1. r.kind = "setAddress" /\ transfer' = Started("address", 0)
      BY <2>2 DEF SetAddress, Process
    <3> QED BY <3>1, StartedIs DEF TInv, Core, Typed
  <2>3. CASE SetConfiguration
    <3>1. r.kind = "setConfiguration" /\ transfer' = Started("none", 0)
      BY <2>3 DEF SetConfiguration, Process
    <3> QED BY <3>1, StartedIs DEF TInv, Core, Typed
  <2> QED BY <2>1, <2>2, <2>3
<1>5. in' \in InHalf /\ (in'.vt <=> in.vt) /\ in'.stat = "VALID" /\ in'.packet = << >>
  <2>1. in' = QueueIn(<< >>)
    BY DEF SetAtOnce, SetAddress, SetConfiguration
  <2> QED BY <2>1, QueueInIs, EmptyIs DEF TInv, Core, Typed
<1>6. out' \in OutHalf /\ ~out'.vt /\ out'.stat = out.stat
  <2>1. out' = ClearRx
    BY DEF SetAtOnce, SetAddress, SetConfiguration
  <2> QED BY <2>1, ClearRxIs DEF TInv, Core, Typed
<1>7. /\ dev' \in Device /\ dev'.pending \in Addresses \cup {0}
      /\ dev'.coding = dev.coding /\ dev'.lineState = dev.lineState
      /\ dev'.config = IF r.kind = "setConfiguration" THEN r.value ELSE dev.config
      /\ dev'.addressed => dev.addressed /\ dev'.address = dev.address
      /\ r.kind = "setAddress" => dev'.pending = r.value
  <2>0. /\ Noted \in Device /\ SameDevice(Noted, dev) /\ Noted.pending = dev.pending
        /\ dev.pending \in Addresses \cup {0}
    BY NotedIs DEF TInv, Core, Typed, Pending
  <2>1. CASE SetAtOnce
    <3>1. r.kind \notin {"setConfiguration", "setAddress"}
      BY <2>1 DEF SetAtOnce, Process, StatusOnly
    <3>2. dev' = [Noted EXCEPT !.wakeup = r.value] \/ dev' = Noted
      BY <2>1 DEF SetAtOnce, Request0
    <3> QED BY <1>3, <2>0, <3>1, <3>2 DEF Device, SameDevice
  <2>2. CASE SetAddress
    <3>1. r.kind = "setAddress" /\ dev' = [Noted EXCEPT !.pending = r.value]
      BY <2>2 DEF SetAddress, Process, Request0
    <3> QED BY <1>3, <2>0, <3>1 DEF Device, SameDevice
  <2>3. CASE SetConfiguration
    <3>1. r.kind = "setConfiguration"
      BY <2>3 DEF SetConfiguration, Process
    <3>2. CASE dev.config = r.value
      <4>1. dev' = Noted
        BY <2>3, <3>2 DEF SetConfiguration, Request0
      <4> QED BY <2>0, <3>1, <3>2, <4>1 DEF SameDevice
    <3>3. CASE dev.config # r.value
      <4>1. dev' = [Blank EXCEPT !.config = r.value, !.coding = dev.coding,
                                 !.lineState = dev.lineState]
        BY <2>3, <3>3 DEF SetConfiguration, Request0
      <4>2. dev.coding \in Nat /\ dev.lineState \in Nat
        BY DEF TInv, Core, Typed, Device
      <4> QED BY <1>3, <3>1, <4>1, <4>2 DEF Blank, Device
    <3> QED BY <3>2, <3>3
  <2> QED BY <2>1, <2>2, <2>3
<1>8. UNCHANGED daddr /\ pc' \in {"idle", "again"} /\ bulk' \in Stat
  BY <1>1 DEF SetAtOnce, SetAddress, SetConfiguration, TInv, Core, Typed, Stat
<1>9. Typed'
  BY <1>1, <1>4, <1>5, <1>6, <1>7, <1>8 DEF TInv, Core, Typed, Steps
<1>10. Filled' /\ Reset' /\ Pending' /\ TxSeen'
  BY <1>6, <1>7, <1>8, ServingKeeps DEF Serving
<1>11. ASSUME ~busReset PROVE Confirming'
  <2>1. host' = host /\ host.request = r /\ host.phase = "status" /\ Agree(dev, daddr, host)
        /\ out.stat = "NAK" /\ ~in.vt
    BY <1>1, <1>3, <1>11 DEF Asked
  <2>2. host \in Host
    BY DEF TInv, Core, Typed
  <2>3. Promise'
    <3>1. CASE r.kind = "setAddress"
      <4>1. /\ DevThen' = [dev' EXCEPT !.address = dev'.pending, !.addressed = (dev'.pending # 0),
                                       !.pending = 0]
            /\ AddrThen' = r.value
        BY <1>4, <1>7, <3>1 DEF DevThen, AddrThen
      <4>2. /\ Believes(host').address = r.value /\ Believes(host').config = host.config
            /\ Believes(host').coding = host.coding /\ Believes(host').lineState = host.lineState
        BY <2>1, <2>2, <3>1, BelievesIs
      <4> QED BY <1>7, <2>1, <3>1, <4>1, <4>2 DEF Promise, Agree, Device
    <3>2. CASE r.kind = "setLineState"
      <4>1. DevThen' = [dev' EXCEPT !.lineState = r.value] /\ AddrThen' = daddr
        BY <1>4, <1>8, <3>2 DEF DevThen, AddrThen
      <4>2. /\ Believes(host').address = host.address /\ Believes(host').config = host.config
            /\ Believes(host').coding = host.coding /\ Believes(host').lineState = r.value
        BY <2>1, <2>2, <3>2, BelievesIs
      <4> QED BY <1>7, <2>1, <3>2, <4>1, <4>2 DEF Promise, Agree, Device
    <3>3. CASE r.kind # "setAddress" /\ r.kind # "setLineState"
      <4>1. DevThen' = dev' /\ AddrThen' = daddr
        BY <1>4, <1>8, <3>3 DEF DevThen, AddrThen
      <4>2. /\ Believes(host').address = host.address
            /\ Believes(host').config = IF r.kind = "setConfiguration" THEN r.value ELSE host.config
            /\ Believes(host').coding = host.coding /\ Believes(host').lineState = host.lineState
        BY <1>2, <2>1, <2>2, <3>3, BelievesIs
      <4> QED BY <1>7, <2>1, <3>3, <4>1, <4>2 DEF Promise, Agree
    <3> QED BY <3>1, <3>2, <3>3
  <2> QED BY <1>1, <1>3, <1>4, <1>5, <1>6, <1>8, <2>1, <2>3 DEF Confirming, Quiet
<1> QED BY <1>1, <1>9, <1>10, <1>11 DEF Core, Situation

-----------------------------------------------------------------------------
(***************************************************************************)
(* A packet of endpoint 0 is through.                                      *)
(***************************************************************************)
LEMMA ThroughIs ==
  ASSUME TInv, StatusDone \/ UNCHANGED <<dev, daddr>>
  PROVE  dev' \in Device /\ daddr' \in Addresses \cup {0} /\ dev'.pending \in Addresses \cup {0}
<1>1. Typed /\ Pending
  BY DEF TInv, Core
<1>2. CASE StatusDone
  BY <1>1, <1>2, StatusIs, ThenIs
<1>3. CASE UNCHANGED <<dev, daddr>>
  BY <1>1, <1>3 DEF Typed, Pending
<1> QED BY <1>2, <1>3

LEMMA OutStatusStep == ASSUME TInv, OutStatus PROVE Core'
<1>1. /\ pc = "rx" /\ out.request = NoRequest /\ transfer.request.in
      /\ UNCHANGED <<transfer, in, bulk, txSeen, busReset, host>>
      /\ StatusDone \/ UNCHANGED <<dev, daddr>>
  BY DEF OutStatus
<1>2. ~txSeen /\ pc' = "idle"
  BY <1>1 DEF OutStatus, AfterRx, TInv, Core, TxSeen, Typed
<1>3. dev' \in Device /\ daddr' \in Addresses \cup {0} /\ dev'.pending \in Addresses \cup {0}
  BY <1>1, ThroughIs
<1>4. out' \in OutHalf /\ ~out'.vt
  BY ClearRxIs DEF OutStatus, TInv, Core, Typed
<1>5. Typed'
  BY <1>1, <1>2, <1>3, <1>4 DEF TInv, Core, Typed, Steps
<1>6. Filled' /\ Reset' /\ Pending' /\ TxSeen'
  BY <1>1, <1>2, <1>3, <1>4 DEF TInv, Core, Typed, Filled, Reset, Pending, TxSeen
<1>7. ASSUME ~busReset PROVE Settled'
  <2>1. Done /\ out.packet = << >> /\ ~in.vt
    BY <1>1, <1>7, RxFinds
  <2>2. dev' = DevThen /\ daddr' = AddrThen
    BY <2>1, StatusIs DEF OutStatus
  <2> QED BY <1>1, <1>2, <1>4, <2>1, <2>2 DEF Done, Settled, Quiet
<1> QED BY <1>1, <1>5, <1>6, <1>7 DEF Core, Situation

LEMMA InStatusStep == ASSUME TInv, InStatus PROVE Core'
<1>1. /\ pc = "tx" /\ ~transfer.request.in /\ pc' = "idle" /\ txSeen' = FALSE
      /\ UNCHANGED <<transfer, out, bulk, busReset, host>>
      /\ StatusDone \/ UNCHANGED <<dev, daddr>>
  BY DEF InStatus
<1>2. dev' \in Device /\ daddr' \in Addresses \cup {0} /\ dev'.pending \in Addresses \cup {0}
  BY <1>1, ThroughIs
<1>3. in' \in InHalf /\ ~in'.vt
  BY ClearTxIs DEF InStatus, TInv, Core, Typed
<1>4. Typed'
  BY <1>1, <1>2, <1>3 DEF TInv, Core, Typed, Steps
<1>5. Filled' /\ Reset' /\ Pending' /\ TxSeen'
  BY <1>1, <1>2 DEF TInv, Core, Filled, Reset, Pending, TxSeen
<1>6. ASSUME ~busReset PROVE Settled'
  <2>1. Done /\ in.packet = << >> /\ ~out.vt
    BY <1>1, <1>6, TxFinds
  <2>2. dev' = DevThen /\ daddr' = AddrThen
    BY <2>1, StatusIs DEF InStatus
  <2> QED BY <1>1, <1>3, <2>1, <2>2 DEF Done, Settled, Quiet
<1> QED BY <1>1, <1>4, <1>5, <1>6 DEF Core, Situation

LEMMA OutDataStep == ASSUME TInv, OutData PROVE Core'
<1>1. /\ pc = "rx" /\ out.request = NoRequest /\ ~transfer.request.in
      /\ UNCHANGED <<daddr, bulk, txSeen, busReset, host>>
  BY DEF OutData
<1>2. ~txSeen /\ pc' = "idle"
  BY <1>1 DEF OutData, AfterRx, TInv, Core, TxSeen, Typed
<1>3. out' \in OutHalf /\ ~out'.vt /\ out'.stat = out.stat
  BY ClearRxIs DEF OutData, TInv, Core, Typed
<1>4. CASE transfer.request.kind # "setLineCoding"
  <2>1. UNCHANGED <<dev, transfer, in>>
    BY <1>4 DEF OutData
  <2>2. busReset
    BY <1>1, <1>4, RxFinds DEF Sent, Coding
  <2>3. Typed'
    BY <1>1, <1>2, <1>3, <2>1 DEF TInv, Core, Typed, Steps
  <2>4. Filled' /\ Reset' /\ Pending' /\ TxSeen'
    BY <1>1, <1>2, <1>3, <2>1 DEF TInv, Core, Typed, Filled, Reset, Pending, TxSeen
  <2> QED BY <1>1, <2>2, <2>3, <2>4 DEF Core, Situation
<1>5. CASE transfer.request.kind = "setLineCoding"
  <2> DEFINE byte == out.packet[1]
  <2>1. /\ dev' = [dev EXCEPT !.coding = byte]
        /\ transfer' = [transfer EXCEPT !.fed = @ + Len(out.packet)]
        /\ in' = QueueIn(<< >>)
    BY <1>5 DEF OutData
  <2>2. out.packet \in Seq(Nat) /\ Len(out.packet) = 1
    BY <1>1, <1>5 DEF TInv, Core, IInv, Place, Filled, Typed, OutHalf, Packet, Bytes
  <2>3. byte \in Nat /\ Len(out.packet) \in Nat
    BY <2>2
  <2> HIDE DEF byte
  <2>4. /\ dev' \in Device /\ dev'.pending = dev.pending /\ dev'.coding = byte
        /\ dev'.address = dev.address /\ (dev'.addressed <=> dev.addressed)
        /\ dev'.config = dev.config /\ dev'.lineState = dev.lineState
    BY <2>1, <2>3 DEF TInv, Core, Typed, Device
  <2>5. transfer' \in Transfer /\ transfer'.request = transfer.request
        /\ transfer'.callback = transfer.callback
    BY <2>1, <2>3 DEF TInv, Core, Typed, Transfer
  <2>6. in' \in InHalf /\ (in'.vt <=> in.vt) /\ in'.stat = "VALID" /\ in'.packet = << >>
    BY <2>1, QueueInIs, EmptyIs DEF TInv, Core, Typed
  <2>7. Typed'
    BY <1>1, <1>2, <1>3, <2>4, <2>5, <2>6 DEF TInv, Core, Typed, Steps
  <2>8. Filled' /\ Reset' /\ Pending' /\ TxSeen'
    BY <1>1, <1>2, <1>3, <2>4 DEF TInv, Core, Typed, Filled, Reset, Pending, TxSeen
  <2>9. ASSUME ~busReset PROVE Confirming'
    <3>1. Sent
      BY <1>1, <2>9, RxFinds
    <3>2. /\ ~in.vt /\ transfer.request = host.request /\ host.request \in Requests
          /\ host.request.kind = "setLineCoding" /\ transfer.callback = "cdc"
          /\ Agree(dev, daddr, host) /\ out.stat = "NAK" /\ host.phase = "status"
          /\ byte = host.request.value
      BY <3>1 DEF Sent, Coding, byte
    <3>3. DevThen' = dev' /\ AddrThen' = daddr'
      BY <2>5, <3>2 DEF DevThen, AddrThen
    <3>4. /\ Believes(host').address = host.address /\ Believes(host').config = host.config
          /\ Believes(host').coding = byte /\ Believes(host').lineState = host.lineState
      BY <1>1, <3>2, BelievesIs DEF TInv, Core, Typed
    <3>5. Promise'
      BY <1>1, <2>4, <3>2, <3>3, <3>4 DEF Promise, Agree
    <3> QED BY <1>1, <1>2, <1>3, <2>5, <2>6, <3>2, <3>5 DEF Confirming, Quiet
  <2> QED BY <1>1, <2>7, <2>8, <2>9 DEF Core, Situation
<1> QED BY <1>4, <1>5

LEMMA InDataStep == ASSUME TInv, InData PROVE Core'
<1> DEFINE n == Len(in.packet)
           t == [transfer EXCEPT !.fed = @ + n]
<1>1. /\ pc = "tx" /\ transfer.request.in /\ pc' = "idle" /\ txSeen' = FALSE
      /\ UNCHANGED <<dev, daddr, bulk, busReset, host>> /\ transfer' = t
  BY DEF InData
<1>2. IF LastPacket(t, n)
      THEN out' = ArmRx(out) /\ in' = ClearTx
      ELSE UNCHANGED out /\ in' = [stat |-> "VALID", vt |-> FALSE, packet |-> NextPacket(t)]
  BY DEF InData
<1>3. n \in Nat
  BY DEF TInv, Core, Typed, InHalf, Packet, Bytes
<1> HIDE DEF n
<1>4. /\ t \in Transfer /\ t.request = transfer.request /\ t.total = transfer.total
      /\ t.fed = transfer.fed + n /\ t.callback = transfer.callback
  BY <1>3 DEF TInv, Core, Typed, Transfer
<1> HIDE DEF t
<1>5. /\ out' \in OutHalf /\ (out'.vt <=> out.vt) /\ out'.request = out.request
      /\ out'.packet = out.packet
  <2>1. out' = ArmRx(out) \/ out' = out
    BY <1>2
  <2> QED BY <2>1 DEF ArmRx, TInv, Core, Typed, OutHalf, Stat
<1>6. in' \in InHalf /\ ~in'.vt
  <2>1. CASE LastPacket(t, n)
    BY <1>2, <2>1, ClearTxIs DEF TInv, Core, Typed
  <2>2. CASE ~LastPacket(t, n)
    <3>1. NextPacket(t) \in Packet
      BY <1>4, NextPacketType DEF TInv, Core, Typed
    <3>2. in' = [stat |-> "VALID", vt |-> FALSE, packet |-> NextPacket(t)]
      BY <1>2, <2>2
    <3> QED BY <3>1, <3>2 DEF InHalf, Stat
  <2> QED BY <2>1, <2>2
<1>7. Typed'
  BY <1>1, <1>4, <1>5, <1>6 DEF TInv, Core, Typed, Steps
<1>8. Filled' /\ Reset' /\ Pending' /\ TxSeen'
  BY <1>1, <1>4, <1>5 DEF TInv, Core, Filled, Reset, Pending, TxSeen
<1>9. ASSUME ~busReset PROVE Complete' \/ Queued'
  <2>1. Taken
    BY <1>1, <1>9, TxFinds
  <2>2. /\ transfer.request = host.request /\ host.request \in Requests /\ host.request.in
        /\ host.request.wLength # 0 /\ host.request.kind # "unsupported"
        /\ transfer.total = Whole(host.request)
        /\ out.stat = "NAK" /\ ~out.vt /\ Promise /\ in.stat = "NAK"
        /\ t.fed <= t.total /\ (n < PacketSize => t.fed = t.total)
        /\ host.got = SubSeq(Source(host.request), 1, t.fed)
        /\ host.phase = IF n < PacketSize \/ t.fed = host.request.wLength THEN "status" ELSE "data"
    BY <1>4, <2>1 DEF Taken, Answering, n
  <2>3. LastPacket(t, n) <=> (n < PacketSize \/ t.fed = host.request.wLength)
    BY <1>4, <2>2 DEF LastPacket
  <2>4. Promise'
    <3>1. DevThen' = DevThen /\ AddrThen' = AddrThen
      BY <1>1, <1>4 DEF DevThen, AddrThen
    <3> QED BY <1>1, <2>2, <3>1 DEF Promise
  <2>5. \A q : Source(q)' = Source(q) /\ Whole(q)' = Whole(q)
    BY <1>1 DEF Source, Whole
  <2>6. CASE LastPacket(t, n)
    <3>1. out'.stat = "VALID" /\ in'.stat = "NAK"
      BY <1>2, <2>2, <2>6, ClearTxIs DEF ArmRx, TInv, Core, Typed, OutHalf
    <3>2. t.fed = Whole(host.request)
      <4>1. CASE n < PacketSize
        BY <1>4, <2>2, <4>1
      <4>2. CASE t.fed = host.request.wLength
        <5>1. host.request.wLength \in Nat /\ Source(host.request) \in Seq(Nat)
          BY <2>2, AllCarry, SourceType DEF Carries, AnyRequest, TInv, Core, Typed
        <5>2. Len(Source(host.request)) \in Nat
          BY <5>1
        <5>3. Whole(host.request) <= host.request.wLength /\ Whole(host.request) \in Nat
          BY <5>1, <5>2, LeastIs DEF Whole
        <5>4. t.total = Whole(host.request) /\ t.fed \in Nat /\ t.fed <= Whole(host.request)
          BY <1>4, <2>2 DEF Transfer
        <5> QED BY <4>2, <5>1, <5>3, <5>4
      <4> QED BY <2>3, <2>6, <4>1, <4>2
    <3>3. host.phase = "status"
      BY <2>2, <2>3, <2>6
    <3> QED
      BY <1>1, <1>4, <1>5, <1>6, <2>2, <2>4, <2>5, <3>1, <3>2, <3>3 DEF Complete, Quiet
  <2>7. CASE ~LastPacket(t, n)
    <3>1. out' = out /\ in'.stat = "VALID" /\ in'.packet = NextPacket(t)
      BY <1>2, <2>7
    <3>2. NextPacket(transfer)' = NextPacket(t)
      BY <1>1, <2>5 DEF NextPacket
    <3>3. host.phase = "data"
      BY <2>2, <2>3, <2>7
    <3>4. Answering'
      BY <1>1, <1>4, <2>2, <2>4, <2>5, <3>1 DEF Answering
    <3> QED
      BY <1>1, <1>4, <1>6, <2>2, <2>5, <3>1, <3>2, <3>3, <3>4 DEF Queued
  <2> QED BY <2>6, <2>7
<1> QED BY <1>1, <1>7, <1>8, <1>9 DEF Core, Situation

(***************************************************************************)
(* When the host has moved on to the status, it has everything.            *)
(***************************************************************************)
LEMMA WholeTaken ==
  ASSUME TInv, Taken, host.phase = "status"
  PROVE  host.got = SubSeq(Source(host.request), 1, Whole(host.request))
<1> DEFINE n == Len(in.packet)
           sum == transfer.fed + n
           w == host.request.wLength
<1>1. /\ host.request \in Requests /\ transfer.total = Whole(host.request)
      /\ sum <= transfer.total /\ (n < PacketSize => sum = transfer.total)
      /\ host.got = SubSeq(Source(host.request), 1, sum)
      /\ host.phase = IF n < PacketSize \/ sum = w THEN "status" ELSE "data"
  BY DEF Taken, Answering
<1> HIDE DEF n, sum
<1>2. CASE n < PacketSize
  BY <1>1, <1>2
<1>3. CASE sum = w
  <2>1. w \in Nat /\ Source(host.request) \in Seq(Nat)
    BY <1>1, AllCarry, SourceType DEF Carries, AnyRequest, TInv, Core, Typed
  <2>2. Len(Source(host.request)) \in Nat
    BY <2>1
  <2>3. Whole(host.request) <= w /\ Whole(host.request) \in Nat
    BY <2>1, <2>2, LeastIs DEF Whole
  <2>4. sum = Whole(host.request)
    BY <1>1, <1>3, <2>1, <2>3
  <2> QED BY <1>1, <2>4
<1> QED BY <1>1, <1>2, <1>3

LEMMA NothingWhole ==
  ASSUME dev \in Device, NEW r \in Requests, r.wLength = 0
  PROVE  SubSeq(Source(r), 1, Whole(r)) = << >>
<1>1. Source(r) \in Seq(Nat) /\ Len(Source(r)) \in Nat
  <2>1. Source(r) \in Seq(Nat)
    BY SourceType DEF AnyRequest
  <2> QED BY <2>1
<1>2. Whole(r) = 0
  BY <1>1 DEF Whole, Least
<1> QED
  BY <1>1, <1>2

-----------------------------------------------------------------------------
LEMMA InitSettled == Init => TInv
<1> SUFFICES ASSUME Init PROVE TInv
  OBVIOUS
<1>1. IInv
  BY InitKeeps
<1>2. dev \in Device /\ dev = Blank
  BY DEF Init, Blank, Device
<1>3. transfer \in Transfer
  BY DEF Init, NoTransfer, Transfer, AnyRequest
<1>4. out \in OutHalf /\ in \in InHalf /\ ~out.vt /\ ~in.vt
  BY EmptyIs DEF Init, OutHalf, InHalf, Stat, AnyRequest
<1>5. host \in Host /\ host.phase = "ready" /\ host.address = 0 /\ host.config = 0
      /\ host.coding = Unknown /\ host.lineState = Unknown
  BY DEF Init, Host, Phases, AnyRequest, Bytes
<1>6. Typed
  BY <1>2, <1>3, <1>4, <1>5 DEF Init, Typed, Stat, Steps
<1>7. Settled
  BY <1>2, <1>4, <1>5 DEF Init, Blank, Settled, Quiet, Agree
<1>8. Reset /\ Filled /\ Pending /\ TxSeen
  BY <1>2, <1>4 DEF Init, Blank, Reset, Filled, Pending, TxSeen
<1> QED
  BY <1>1, <1>6, <1>7, <1>8 DEF TInv, Core, Situation

LEMMA TransferStep == ASSUME HostWaits, TInv, [Next]_vars PROVE TInv'
<1>1. IInv'
  BY StepKeeps DEF TInv
<1>2. ASSUME UNCHANGED vars PROVE Core'
  <2>1. UNCHANGED <<dev, daddr, transfer, out, in, bulk, pc, txSeen, busReset, host>>
    BY <1>2 DEF vars, handler
  <2>2. /\ Typed' /\ Reset' /\ Filled' /\ Pending' /\ TxSeen'
    BY <2>1 DEF TInv, Core, Typed, Reset, Filled, Pending, TxSeen
  <2>3. \A q : Source(q)' = Source(q) /\ Whole(q)' = Whole(q)
    BY <2>1 DEF Source, Whole
  <2>4. Promise' = Promise /\ DevThen' = DevThen /\ AddrThen' = AddrThen
    BY <2>1 DEF Promise, DevThen, AddrThen
  <2>5. NextPacket(transfer)' = NextPacket(transfer)
    BY <2>1, <2>3 DEF NextPacket
  <2>6. /\ Settled => Settled'
        /\ Asked => Asked'
        /\ Hung => Hung'
    BY <2>1 DEF Settled, Asked, Hung, Quiet, Agree
  <2>7. /\ Queued => Queued'
        /\ Taken => Taken'
        /\ Complete => Complete'
    BY <2>1, <2>3, <2>4, <2>5 DEF Queued, Taken, Answering, Complete, Quiet
  <2>8. /\ Armed => Armed'
        /\ Sent => Sent'
    BY <2>1 DEF Armed, Sent, Coding, Agree
  <2>9. /\ Confirming => Confirming'
        /\ Done => Done'
    BY <2>1, <2>4 DEF Confirming, Done, Quiet
  <2>10. Situation'
    BY <2>1, <2>6, <2>7, <2>8, <2>9 DEF TInv, Core, Situation
  <2> QED BY <2>2, <2>10 DEF Core
<1>3. ASSUME Next PROVE Core'
  <2>1. ASSUME NEW r \in Requests, Setup(r) PROVE Core'
    BY <2>1, SetupStep
  <2>2. CASE HostContinues \/ HostGivesUp \/ BusReset
    BY <2>2, TakesStep, SendsStep, FailureStep, BusResetStep DEF HostContinues
  <2>3. CASE Isr
    BY <2>3, IsrResetStep, IsrReadStep, QueueAgainStep, GetStep, SetLineCodingStep, HungStep,
       StatusStep, OutStatusStep, OutDataStep, InStatusStep, InDataStep
    DEF Isr
  <2> QED BY <1>3, <2>1, <2>2, <2>3 DEF Next
<1>4. Core'
  BY <1>2, <1>3
<1> QED BY <1>1, <1>4 DEF TInv

LEMMA TransferInvariance == ASSUME HostWaits PROVE Spec => []TInv
<1>1. TInv /\ [Next]_vars => TInv'
  BY TransferStep
<1> QED BY <1>1, InitSettled, PTL DEF Spec

(***************************************************************************)
(* The variables keep their types: no packet is longer than the endpoint,  *)
(* and the line settings, addresses and configuration numbers the handler  *)
(* takes from packets and requests are such.                               *)
(***************************************************************************)
THEOREM TypesKept == ASSUME HostWaits PROVE Spec => []TypeOK
<1>1. TInv => TypeOK
  BY TypedIs DEF TInv, IInv, Core
<1> QED BY <1>1, TransferInvariance, PTL

(***************************************************************************)
(* The data stage of an IN request hands the host exactly the first        *)
(* min(length, wLength) bytes (usb_control_data_stage), whatever the       *)
(* packet size, the length of the descriptor and the length asked for.     *)
(***************************************************************************)
THEOREM AlwaysDelivered == ASSUME HostWaits PROVE Spec => []Delivered
<1>1. ASSUME TInv PROVE Delivered
  <2> SUFFICES ASSUME host.request.in, host.phase = "status", host.request.kind # "unsupported"
               PROVE  host.got = SubSeq(Source(host.request), 1, Whole(host.request))
    BY DEF Delivered, Whole
  <2>1. ~busReset
    BY <1>1 DEF TInv, Core, Reset
  <2>2. \A r \in Requests : /\ r.kind = "setLineCoding" => ~r.in
                            /\ r.kind \in {"setHalt", "clearHalt"} => ~r.in
    <3> SUFFICES ASSUME NEW r \in Requests
                 PROVE  /\ r.kind = "setLineCoding" => ~r.in
                        /\ r.kind \in {"setHalt", "clearHalt"} => ~r.in
      OBVIOUS
    <3> QED BY AllCarry, SMT DEF Carries, NoData, Getters, Constant, StatusOnly
  <2>3. host.request \in Requests \/ host.request = NoRequest
    BY <1>1 DEF TInv, Core, Typed, Host, AnyRequest
  <2>4. CASE host.request.wLength = 0 /\ host.request \in Requests
    <3>1. host.got = << >>
      BY <1>1, <2>1, <2>2, <2>3, <2>4, NoneCarries
      DEF TInv, Core, Situation, Settled, Asked, Hung, Queued, Taken, Answering, Complete, Armed, Sent,
          Coding, Confirming, Done
    <3>2. SubSeq(Source(host.request), 1, Whole(host.request)) = << >>
      BY <1>1, <2>4, NothingWhole DEF TInv, Core, Typed
    <3> QED BY <3>1, <3>2
  <2>5. CASE ~(host.request.wLength = 0 /\ host.request \in Requests)
    <3>1. host.request.wLength > 0 => host.phase # "status" \/ ~Asked
      BY DEF Asked
    <3>2. \A r \in Requests : r.wLength # 0 => r.wLength > 0
      BY AllCarry, SMT DEF Carries
    <3>3. Taken \/ Complete
      BY <1>1, <2>1, <2>2, <2>3, <2>5, <3>1, <3>2, NoneCarries
      DEF TInv, Core, Situation, Settled, Asked, Hung, Misdirected, Queued, Armed, Sent, Coding,
          Confirming, Done
    <3>4. CASE Complete
      BY <3>4 DEF Complete
    <3>5. CASE Taken
      BY <1>1, <3>5, WholeTaken
    <3> QED BY <3>3, <3>4, <3>5
  <2> QED BY <2>4, <2>5
<1> QED BY <1>1, TransferInvariance, PTL

(***************************************************************************)
(* Host and device never disagree on the stage they are in, through any    *)
(* requests, served, rejected or hung, failures and resets, but for the    *)
(* one exception InStep names: an IN request without data, whose status    *)
(* the device arms on the half the host does not poll.                     *)
(***************************************************************************)
THEOREM AlwaysInStep == ASSUME HostWaits PROVE Spec => []InStep
<1>1. ASSUME TInv PROVE InStep
  <2> SUFFICES ASSUME host.phase # "ready"
               PROVE  /\ PollsIn /\ ~Misdirected(host.request) => out.stat # "VALID"
                      /\ ~PollsIn => in.stat # "VALID"
                      /\ host.phase = "status" /\ in.stat = "VALID" => in.packet = << >>
    BY DEF InStep
  <2>1. ~busReset
    BY <1>1 DEF TInv, Core, Reset
  <2>2. /\ host.phase = "data" => (PollsIn <=> host.request.in)
        /\ host.phase # "data" => (PollsIn <=> ~host.request.in \/ host.request.wLength = 0)
    BY PollsInIs
  <2>3. \A r \in Requests : r.kind = "setLineCoding" => ~r.in
    BY AllCarry DEF Carries
  <2> QED
    BY <1>1, <2>1, <2>2, <2>3
    DEF TInv, Core, Situation, Settled, Asked, Hung, Queued, Taken, Answering, Complete, Armed, Sent,
        Coding, Confirming, Done
<1> QED BY <1>1, TransferInvariance, PTL

(***************************************************************************)
(* Once everything is served, the device is what the host believes it is:  *)
(* address, configuration and line settings agree after any sequence of    *)
(* requests, failures and resets.                                          *)
(***************************************************************************)
THEOREM AlwaysAgree == ASSUME HostWaits PROVE Spec => []Agreement
<1>1. ASSUME TInv PROVE Agreement
  <2> SUFFICES ASSUME Served, host.phase = "ready" PROVE Agree(dev, daddr, host)
    BY DEF Agreement, Agree
  <2> QED BY <1>1, SetupFinds DEF Settled
<1> QED BY <1>1, TransferInvariance, PTL
=============================================================================
