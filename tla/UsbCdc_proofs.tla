--------------------------- MODULE UsbCdc_proofs ---------------------------
(***************************************************************************)
(* What holds of the CDC data path for every ring size, every number of    *)
(* bytes and every number of bus resets: the inductive invariant IInv      *)
(* gives type correctness, flow control and the refinement of ByteStream;  *)
(* EInv adds what the order of the echo rests on.                          *)
(***************************************************************************)
EXTENDS UsbCdc, CircularBuffer_proofs

(***************************************************************************)
(* What the theorems assume of the host and of the bus: no packet fills    *)
(* the ring, and no transaction completes while a flag is being cleared.   *)
(***************************************************************************)
WithinLimits == ~ClearOverlaps /\ \A n \in PacketSizes : n < Size

(***************************************************************************)
(* The inductive invariant.                                                *)
(***************************************************************************)
Draining     == pc \in {"echo", "fill", "set"}
ShortPending == out.vt => Len(out.packet) < Size
Drained      == ~Draining => Count(rx) = 0
Quiet ==
  /\ Draining => ~out.vt
  /\ pc = "clearOut" => out.vt
  /\ (out.vt \/ Draining) => out.stat # "VALID"
LinkUp == open <=> (configured /\ ~busReset)

IInv == TypeOK /\ ShortPending /\ Drained /\ Quiet /\ LinkUp /\ NothingLost

-----------------------------------------------------------------------------
(***************************************************************************)
(* Record updates of one half of the endpoint keep its type and its other  *)
(* fields.                                                                 *)
(***************************************************************************)
LEMMA HalfStat ==
  ASSUME NEW h \in Half, NEW s \in Stat
  PROVE  /\ [h EXCEPT !.stat = s] \in Half
         /\ [h EXCEPT !.stat = s].stat = s
         /\ [h EXCEPT !.stat = s].vt = h.vt
         /\ [h EXCEPT !.stat = s].packet = h.packet
  BY DEF Half

(***************************************************************************)
(* The same for the VT flag.                                               *)
(***************************************************************************)
LEMMA HalfVt ==
  ASSUME NEW h \in Half, NEW v \in BOOLEAN
  PROVE  /\ [h EXCEPT !.vt = v] \in Half
         /\ [h EXCEPT !.vt = v].stat = h.stat
         /\ [h EXCEPT !.vt = v].vt = v
         /\ [h EXCEPT !.vt = v].packet = h.packet
  BY DEF Half

(***************************************************************************)
(* The same for the packet buffer.                                         *)
(***************************************************************************)
LEMMA HalfPacket ==
  ASSUME NEW h \in Half, NEW p \in Seq(Byte)
  PROVE  /\ [h EXCEPT !.packet = p] \in Half
         /\ [h EXCEPT !.packet = p].stat = h.stat
         /\ [h EXCEPT !.packet = p].vt = h.vt
         /\ [h EXCEPT !.packet = p].packet = p
  BY DEF Half

(***************************************************************************)
(* The same for both register fields.                                      *)
(***************************************************************************)
LEMMA HalfStatVt ==
  ASSUME NEW h \in Half, NEW s \in Stat, NEW v \in BOOLEAN
  PROVE  /\ [h EXCEPT !.stat = s, !.vt = v] \in Half
         /\ [h EXCEPT !.stat = s, !.vt = v].stat = s
         /\ [h EXCEPT !.stat = s, !.vt = v].vt = v
         /\ [h EXCEPT !.stat = s, !.vt = v].packet = h.packet
  BY DEF Half

(***************************************************************************)
(* A half built field by field.                                            *)
(***************************************************************************)
LEMMA HalfOf ==
  ASSUME NEW s \in Stat, NEW v \in BOOLEAN, NEW p \in Seq(Byte)
  PROVE  /\ [stat |-> s, vt |-> v, packet |-> p] \in Half
         /\ [stat |-> s, vt |-> v, packet |-> p].stat = s
         /\ [stat |-> s, vt |-> v, packet |-> p].vt = v
         /\ [stat |-> s, vt |-> v, packet |-> p].packet = p
  BY DEF Half

(***************************************************************************)
(* Toggling the bits of a state gives a state.                             *)
(***************************************************************************)
LEMMA XorStat ==
  ASSUME NEW a \in Stat, NEW b \in Stat
  PROVE  Xor(a, b) \in Stat
<1>1. CASE a = b \/ a = "DISABLED" \/ b = "DISABLED"
  BY <1>1 DEF Xor, Stat
<1>2. CASE ~(a = b \/ a = "DISABLED" \/ b = "DISABLED")
  <2>1. \E s \in Stat : s \notin {a, b, "DISABLED"}
    BY DEF Stat
  <2> QED
    BY <1>2, <2>1 DEF Xor
<1> QED
  BY <1>1, <1>2

(***************************************************************************)
(* usb_cdc_read_ep changes nothing of the OUT half but STAT_RX, and that   *)
(* only to VALID and only when the rx ring counts 0.                       *)
(***************************************************************************)
LEMMA ReadEpHalf ==
  ASSUME NEW h \in Half, NEW r, NEW c \in BOOLEAN
  PROVE  /\ ReadEp(h, r, c) \in Half
         /\ ReadEp(h, r, c).vt = h.vt
         /\ ReadEp(h, r, c).packet = h.packet
         /\ ReadEp(h, r, c).stat # h.stat => Space(r) >= Size
<1>1. CASE c /\ Space(r) >= Size
  <2>1. ReadEp(h, r, c) = [h EXCEPT !.stat = "VALID"] /\ "VALID" \in Stat
    BY <1>1 DEF ReadEp, Stat
  <2>2. /\ [h EXCEPT !.stat = "VALID"] \in Half
        /\ [h EXCEPT !.stat = "VALID"].vt = h.vt
        /\ [h EXCEPT !.stat = "VALID"].packet = h.packet
    BY <2>1, HalfStat
  <2> QED
    BY <1>1, <2>1, <2>2
<1>2. CASE ~(c /\ Space(r) >= Size)
  BY <1>2 DEF ReadEp
<1> QED
  BY <1>1, <1>2

-----------------------------------------------------------------------------
(***************************************************************************)
(* The inductive invariant holds at power up.                              *)
(***************************************************************************)
LEMMA InitInv == Init => IInv
<1> SUFFICES ASSUME Init PROVE IInv
  OBVIOUS
<1>1. 0 \in Byte /\ Byte \subseteq Nat /\ 0 \in 0 .. MaxDowns
  BY BoundsAssumption DEF Byte
<1>2. rx \in Ring(Byte) /\ tx \in Ring(Byte) /\ Count(rx) = 0
  BY <1>1, SizeAssumption DEF Init, EmptyRing, Ring, Index, Count
<1>3. Idle \in Half /\ Idle.vt = FALSE /\ Idle.stat = "DISABLED"
  BY DEF Idle, Half, Stat
<1>4. seen \in [stat : Stat, vt : BOOLEAN] /\ pc \in Steps /\ received \in Seq(Byte)
  BY DEF Init, Stat, Steps
<1>5. TypeOK
  BY <1>1, <1>2, <1>3, <1>4, Zenon DEF TypeOK, Init
<1> QED
  BY <1>2, <1>3, <1>5
  DEF Init, IInv, ShortPending, Drained, Quiet, LinkUp, NothingLost, Draining

(***************************************************************************)
(* A packet can only arrive when the rx ring is drained, so it fits, and   *)
(* it is the only one pending.                                             *)
(***************************************************************************)
LEMMA HostSendsInv ==
  ASSUME WithinLimits, IInv, NEW n \in PacketSizes, HostSends(n)
  PROVE  IInv'
<1> DEFINE packet == [i \in 1 .. n |-> sent + i]
<1>1. n \in Nat /\ n < Size /\ sent \in Nat /\ sent + n \in Byte
  BY BoundsAssumption, SizeAssumption DEF WithinLimits, HostSends, IInv, TypeOK, Byte
<1>2. packet \in Seq(Byte) /\ Len(packet) = n
  <2>1. \A i \in 1 .. n : sent + i \in Byte
    BY <1>1, BoundsAssumption DEF Byte
  <2> QED
    BY <1>1, <2>1
<1>3. /\ out' \in Half /\ out'.vt = TRUE /\ out'.stat = "NAK" /\ out'.packet = packet
      /\ out.stat = "VALID" /\ ~out.vt
  <2>1. "NAK" \in Stat /\ out' = [stat |-> "NAK", vt |-> TRUE, packet |-> packet]
    BY DEF HostSends, Stat
  <2> HIDE DEF packet
  <2>2. out' \in Half /\ out'.vt = TRUE /\ out'.stat = "NAK" /\ out'.packet = packet
    BY <1>2, <2>1, HalfOf
  <2> QED
    BY <2>2 DEF HostSends
<1>4. TypeOK'
  BY <1>1, <1>3 DEF HostSends, IInv, TypeOK, deviceVars
<1>5. Count(rx) = 0 /\ read = sent /\ ~Draining /\ pc # "clearOut"
  BY <1>1, <1>3 DEF IInv, Quiet, Drained, NothingLost, TypeOK, Byte
<1> HIDE DEF packet
<1>6. NothingLost'
  BY <1>1, <1>2, <1>3, <1>5 DEF HostSends, NothingLost, deviceVars, Count
<1> QED
  BY <1>1, <1>2, <1>3, <1>4, <1>5, <1>6
  DEF IInv, ShortPending, Drained, Draining, Quiet, LinkUp, HostSends, deviceVars, Count

(***************************************************************************)
(* The host taking a packet touches the IN half only.                      *)
(***************************************************************************)
LEMMA HostTakesInv == ASSUME IInv, HostTakes PROVE IInv'
<1>1. in' \in Half
  BY HalfStatVt DEF IInv, TypeOK, HostTakes, Stat
<1>2. received' \in Seq(Byte)
  <2>1. received \in Seq(Byte) /\ in.packet \in Seq(Byte)
    BY DEF IInv, TypeOK, Half
  <2> QED
    BY <2>1, ConcatProperties DEF HostTakes
<1>3. TypeOK'
  BY <1>1, <1>2 DEF HostTakes, IInv, TypeOK, deviceVars
<1> QED
  BY <1>3 DEF IInv, ShortPending, Drained, Draining, Quiet, LinkUp, NothingLost, HostTakes, deviceVars, Count

(***************************************************************************)
(* A bus reset disables both halves and closes the endpoint.               *)
(***************************************************************************)
LEMMA BusResetInv == ASSUME IInv, BusReset PROVE IInv'
<1>1. "DISABLED" \in Stat /\ out \in Half /\ in \in Half
  BY DEF Stat, IInv, TypeOK
<1>2. /\ out' \in Half /\ out'.stat = "DISABLED" /\ out'.vt = out.vt /\ out'.packet = out.packet
      /\ in' \in Half
  BY <1>1, HalfStat DEF BusReset
<1>3. downs' \in 0 .. MaxDowns
  BY BoundsAssumption DEF BusReset, IInv, TypeOK
<1>4. TypeOK'
  BY <1>2, <1>3 DEF BusReset, IInv, TypeOK
<1> QED
  BY <1>2, <1>4 DEF IInv, ShortPending, Drained, Draining, Quiet, LinkUp, NothingLost, BusReset, Count

(***************************************************************************)
(* usb_reset empties the rings; the pending packet keeps its VT flag, and  *)
(* the drained ring had nothing to lose.                                   *)
(***************************************************************************)
LEMMA IsrResetInv == ASSUME IInv, IsrReset PROVE IInv'
<1>1. /\ rx' \in Ring(Byte) /\ tx' \in Ring(Byte) /\ Count(rx') = 0 /\ Count(rx) = 0
  BY ResetEmpty DEF IsrReset, IInv, TypeOK, Drained, Draining
<1>2. TypeOK'
  BY <1>1 DEF IsrReset, IInv, TypeOK, hostVars
<1>3. NothingLost'
  BY <1>1 DEF IsrReset, IInv, NothingLost, hostVars
<1> QED
  BY <1>1, <1>2, <1>3 DEF IsrReset, IInv, ShortPending, Drained, Draining, Quiet, LinkUp

(***************************************************************************)
(* Opening the interface starts from an empty ring and no pending packet.  *)
(***************************************************************************)
LEMMA ConfigureInv == ASSUME IInv, Configure PROVE IInv'
<1> DEFINE opened == [out EXCEPT !.stat = "NAK", !.vt = FALSE]
<1>1. "NAK" \in Stat /\ out \in Half /\ in \in Half
  BY DEF Stat, IInv, TypeOK
<1>2. opened \in Half /\ opened.vt = FALSE
  BY <1>1, HalfStatVt
<1>3. out' = ReadEp(opened, Reset(rx), TRUE)
  BY DEF Configure
<1> HIDE DEF opened
<1>4. out' \in Half /\ out'.vt = FALSE
  BY <1>2, <1>3, ReadEpHalf
<1>5. in' \in Half
  BY <1>1, HalfStatVt DEF Configure
<1>6. rx' \in Ring(Byte) /\ tx' \in Ring(Byte) /\ Count(rx') = 0
  BY ResetEmpty DEF Configure, IInv, TypeOK
<1>7. TypeOK'
  BY <1>4, <1>5, <1>6 DEF Configure, IInv, TypeOK, hostVars
<1>8. NothingLost'
  <2>1. sent' = sent /\ read' = sent /\ sent \in Nat
    BY BoundsAssumption DEF Configure, IInv, TypeOK, Byte, hostVars
  <2> QED
    BY <1>4, <1>6, <2>1 DEF NothingLost
<1> QED
  BY <1>4, <1>6, <1>7, <1>8
  DEF Configure, IInv, ShortPending, Drained, Draining, Quiet, LinkUp

(***************************************************************************)
(* Closing it drops both and closes the endpoint.                          *)
(***************************************************************************)
LEMMA DeconfigureInv == ASSUME IInv, Deconfigure PROVE IInv'
<1>1. out \in Half /\ in \in Half
  BY DEF IInv, TypeOK
<1>2. out' \in Half /\ out'.vt = FALSE /\ in' \in Half
  BY <1>1, HalfVt DEF Deconfigure
<1>3. rx' \in Ring(Byte) /\ tx' \in Ring(Byte) /\ Count(rx') = 0
  BY ResetEmpty DEF Deconfigure, IInv, TypeOK
<1>4. downs' \in 0 .. MaxDowns
  BY BoundsAssumption DEF Deconfigure, IInv, TypeOK
<1>5. TypeOK'
  BY <1>2, <1>3, <1>4 DEF Deconfigure, IInv, TypeOK, hostVars
<1>6. NothingLost'
  BY <1>2, <1>3 DEF Deconfigure, IInv, TypeOK, Byte, NothingLost, hostVars
<1> QED
  BY <1>2, <1>3, <1>5, <1>6
  DEF Deconfigure, IInv, ShortPending, Drained, Draining, Quiet, LinkUp

(***************************************************************************)
(* The read of the endpoint register before the OUT flag is cleared.       *)
(***************************************************************************)
LEMMA IsrOutInv == ASSUME IInv, IsrOut PROVE IInv'
<1>1. in \in Half /\ out \in Half
  BY DEF IInv, TypeOK
<1>2. seen' \in [stat : Stat, vt : BOOLEAN] /\ pc' \in Steps
  BY <1>1 DEF IsrOut, Half, Steps
<1>3. TypeOK'
  BY <1>2 DEF IsrOut, IInv, TypeOK, hostVars, deviceVars
<1> QED
  BY <1>3 DEF IInv, ShortPending, Drained, Draining, Quiet, LinkUp, NothingLost, IsrOut, deviceVars, hostVars, Count

(***************************************************************************)
(* The read of the endpoint register before the IN flag is cleared.        *)
(***************************************************************************)
LEMMA IsrInInv == ASSUME IInv, IsrIn PROVE IInv'
<1>1. in \in Half /\ out \in Half
  BY DEF IInv, TypeOK
<1>2. seen' \in [stat : Stat, vt : BOOLEAN] /\ pc' \in Steps
  BY <1>1 DEF IsrIn, Half, Steps
<1>3. TypeOK'
  BY <1>2 DEF IsrIn, IInv, TypeOK, hostVars, deviceVars
<1> QED
  BY <1>3 DEF IInv, ShortPending, Drained, Draining, Quiet, LinkUp, NothingLost, IsrIn, deviceVars, hostVars, Count

(***************************************************************************)
(* The step that needs every part of the invariant: a short packet goes    *)
(* into a drained ring, so that no byte is cut and the ring counts it.     *)
(***************************************************************************)
LEMMA RxPacketInv == ASSUME IInv, RxPacket PROVE IInv'
<1>1. /\ in \in Half /\ out \in Half /\ rx \in Ring(Byte) /\ out.packet \in Seq(Byte)
      /\ out.vt /\ Count(rx) = 0 /\ Len(out.packet) < Size /\ out.stat # "VALID"
  BY DEF IInv, TypeOK, Half, RxPacket, Quiet, Drained, Draining, ShortPending
<1>2. /\ out' \in Half /\ out'.vt = FALSE /\ out'.stat = out.stat
  BY <1>1, HalfVt DEF RxPacket
<1>3. in' \in Half
  <2>1. WrittenBack(in.vt) \in BOOLEAN
    BY DEF WrittenBack
  <2> QED
    BY <1>1, <2>1, HalfVt DEF RxPacket
<1>4. rx' \in Ring(Byte) /\ Count(rx') = Len(out.packet)
  <2>1. Len(out.packet) \in Nat /\ Count(rx) + Len(out.packet) < Size
    BY <1>1
  <2>2. Count(AfterWrite(rx, out.packet)) = Count(rx) + Len(out.packet)
    BY <1>1, <2>1, WriteCount
  <2> QED
    BY <1>1, <2>1, <2>2, WriteRing DEF RxPacket
<1>5. pc' \in Steps
  BY DEF RxPacket, Steps
<1>6. TypeOK'
  BY <1>2, <1>3, <1>4, <1>5 DEF RxPacket, IInv, TypeOK, hostVars
<1>7. NothingLost'
  <2>1. sent - read = Len(out.packet)
    BY <1>1 DEF IInv, NothingLost
  <2> QED
    BY <1>1, <1>2, <1>4, <2>1 DEF NothingLost, RxPacket, hostVars
<1> QED
  BY <1>1, <1>2, <1>6, <1>7
  DEF RxPacket, IInv, ShortPending, Drained, Draining, Quiet, LinkUp

(***************************************************************************)
(* One byte is read: the ring counts one less, so the OUT half stays as it *)
(* is (it is not re-armed by usb_cdc_read, whose test comes before the     *)
(* read).                                                                  *)
(***************************************************************************)
LEMMA EchoInv == ASSUME IInv, Echo PROVE IInv'
<1> DEFINE s == ReadBytes(rx, 1)
           written == AfterWrite(tx, s)
<1>1. /\ in \in Half /\ out \in Half /\ rx \in Ring(Byte) /\ tx \in Ring(Byte)
      /\ ~out.vt /\ out.stat # "VALID" /\ configured \in BOOLEAN
  BY DEF IInv, TypeOK, Echo, Quiet, Draining
<1>2. Count(rx) \in Nat /\ Count(rx) > 0 /\ Count(rx) < Size /\ Least(1, Count(rx)) = 1
  BY <1>1, CountRange, SizeAssumption DEF Echo, Least
<1>3. rx' \in Ring(Byte) /\ Count(rx') = Count(rx) - 1
  BY <1>1, <1>2, ReadCount DEF Echo
<1>4. s \in Seq(Byte) /\ Len(s) = 1 /\ s[1] \in Byte
  <2>1. s \in Seq(Byte) /\ Len(s) = 1
    BY <1>1, <1>2, ReadBytesSeq
  <2> HIDE DEF s
  <2> QED
    BY <2>1, ElementOfSeq
<1>5. written \in Ring(Byte)
  BY <1>1, <1>4, WriteRing
<1>6. AfterRead(written, Size) \in Ring(Byte) /\ ReadBytes(written, Size) \in Seq(Byte)
  BY <1>5, ReadCount, ReadBytesSeq, SizeAssumption
<1>7. out' \in Half /\ out'.vt = out.vt /\ out'.stat = out.stat
  <2>1. ~(Space(rx) >= Size)
    BY <1>2, SizeAssumption DEF Space
  <2> QED
    BY <1>1, <2>1, ReadEpHalf DEF Echo
<1> HIDE DEF s, written
<1>8. tx' \in Ring(Byte) /\ in' \in Half /\ pc' \in Steps /\ Draining'
  <2>1. CASE configured /\ Count(written) > 0
    <3>1. /\ tx' = AfterRead(written, Size)
          /\ in' = [in EXCEPT !.packet = ReadBytes(written, Size)]
          /\ pc' = "fill"
      BY <2>1 DEF Echo, written, s
    <3> QED
      BY <1>1, <1>6, <3>1, HalfPacket DEF Steps, Draining
  <2>2. CASE ~(configured /\ Count(written) > 0)
    <3>1. tx' = written /\ in' = in /\ pc' = "echo"
      BY <2>2 DEF Echo, written, s
    <3> QED
      BY <1>1, <1>5, <3>1 DEF Steps, Draining
  <2> QED
    BY <2>1, <2>2
<1>9. /\ sent \in Byte /\ read \in Byte /\ sent - read = Count(rx)
      /\ sent' = sent /\ read' = read + 1 /\ read' \in Byte /\ handed' \in Byte
  <2>1. sent \in Byte /\ read \in Byte /\ sent - read = Count(rx)
    BY <1>1, <1>2 DEF IInv, TypeOK, NothingLost
  <2>2. sent' = sent /\ read' = read + 1 /\ handed' \in Byte
    BY <1>4 DEF Echo, hostVars, s
  <2> QED
    BY <1>2, <2>1, <2>2, BoundsAssumption DEF Byte
<1>10. TypeOK'
  BY <1>3, <1>7, <1>8, <1>9 DEF Echo, IInv, TypeOK, hostVars
<1>11. NothingLost'
  BY <1>1, <1>2, <1>3, <1>7, <1>9, BoundsAssumption DEF NothingLost, Byte
<1> QED
  BY <1>1, <1>7, <1>8, <1>10, <1>11
  DEF Echo, IInv, ShortPending, Drained, Draining, Quiet, LinkUp

(***************************************************************************)
(* The read of STAT_TX before it is set.                                   *)
(***************************************************************************)
LEMMA ReadTxStatInv == ASSUME IInv, ReadTxStat PROVE IInv'
<1>1. seen' \in [stat : Stat, vt : BOOLEAN] /\ pc' \in Steps
  BY DEF ReadTxStat, IInv, TypeOK, Half, Steps
<1>2. TypeOK'
  BY <1>1 DEF ReadTxStat, IInv, TypeOK, hostVars, deviceVars
<1> QED
  BY <1>2 DEF IInv, ShortPending, Drained, Draining, Quiet, LinkUp, NothingLost, ReadTxStat, deviceVars, hostVars, Count

(***************************************************************************)
(* The toggle of STAT_TX.                                                  *)
(***************************************************************************)
LEMMA WriteTxStatInv == ASSUME IInv, WriteTxStat PROVE IInv'
<1>1. in \in Half /\ in.stat \in Stat /\ seen.stat \in Stat /\ "VALID" \in Stat
  BY DEF IInv, TypeOK, Half, Stat
<1>2. Xor(in.stat, Xor(seen.stat, "VALID")) \in Stat
  BY <1>1, XorStat
<1>3. in' \in Half /\ pc' \in Steps
  BY <1>1, <1>2, HalfStat DEF WriteTxStat, Steps
<1>4. TypeOK'
  BY <1>3 DEF WriteTxStat, IInv, TypeOK, hostVars, deviceVars
<1> QED
  BY <1>4 DEF IInv, ShortPending, Drained, Draining, Quiet, LinkUp, NothingLost, WriteTxStat, deviceVars, hostVars, Count

(***************************************************************************)
(* Only here, with the ring drained, is the OUT half armed.                *)
(***************************************************************************)
LEMMA EchoEndInv == ASSUME IInv, EchoEnd PROVE IInv'
<1>1. out \in Half /\ configured \in BOOLEAN /\ ~out.vt /\ Count(rx) = 0
  BY DEF IInv, TypeOK, EchoEnd, Quiet, Draining
<1>2. out' \in Half /\ out'.vt = out.vt /\ out'.packet = out.packet
  BY <1>1, ReadEpHalf DEF EchoEnd
<1>3. pc' \in Steps
  BY DEF EchoEnd, Steps
<1>4. TypeOK'
  BY <1>2, <1>3 DEF EchoEnd, IInv, TypeOK, hostVars, deviceVars
<1> QED
  BY <1>1, <1>2, <1>4 DEF IInv, ShortPending, Drained, Draining, Quiet, LinkUp, NothingLost, EchoEnd, deviceVars, hostVars, Count

(***************************************************************************)
(* The completion of an IN packet leaves the OUT flag alone when nothing   *)
(* completes while a flag is cleared.                                      *)
(***************************************************************************)
LEMMA TxCompleteInv == ASSUME WithinLimits, IInv, TxComplete PROVE IInv'
<1>1. in \in Half /\ out \in Half /\ rx \in Ring(Byte) /\ tx \in Ring(Byte)
  BY DEF IInv, TypeOK
<1>2. out' \in Half /\ out'.vt = out.vt /\ out'.packet = out.packet /\ out'.stat = out.stat
  <2>1. WrittenBack(out.vt) = out.vt /\ out.vt \in BOOLEAN
    BY <1>1 DEF WithinLimits, WrittenBack, Half
  <2> QED
    BY <1>1, <2>1, HalfVt DEF TxComplete
<1>3. tx' \in Ring(Byte) /\ in' \in Half
  <2>1. "VALID" \in Stat /\ FALSE \in BOOLEAN /\ << >> \in Seq(Byte) /\ ReadBytes(tx, Size) \in Seq(Byte)
    BY <1>1, ReadBytesSeq, SizeAssumption DEF Stat
  <2>2. AfterRead(tx, Size) \in Ring(Byte)
    BY <1>1, ReadCount, SizeAssumption
  <2>3. /\ [stat |-> "VALID", vt |-> FALSE, packet |-> ReadBytes(tx, Size)] \in Half
        /\ [stat |-> "VALID", vt |-> FALSE, packet |-> << >>] \in Half
    BY <2>1, HalfOf
  <2>4. [in EXCEPT !.vt = FALSE] \in Half
    BY <1>1, <2>1, HalfVt
  <2> QED
    BY <1>1, <2>2, <2>3, <2>4 DEF TxComplete
<1>4. pc' \in Steps
  BY DEF TxComplete, Steps
<1>5. TypeOK'
  BY <1>2, <1>3, <1>4 DEF TxComplete, IInv, TypeOK, hostVars
<1> QED
  BY <1>2, <1>5 DEF IInv, ShortPending, Drained, Draining, Quiet, LinkUp, NothingLost, TxComplete, hostVars, Count

(***************************************************************************)
(* Every step preserves the inductive invariant.                           *)
(***************************************************************************)
LEMMA StepInv == ASSUME WithinLimits, IInv, [Next]_vars PROVE IInv'
<1>1. CASE \E n \in PacketSizes : HostSends(n)
  BY <1>1, HostSendsInv
<1>2. CASE HostTakes
  BY <1>2, HostTakesInv
<1>3. CASE BusReset
  BY <1>3, BusResetInv
<1>4. CASE Configure
  BY <1>4, ConfigureInv
<1>5. CASE Deconfigure
  BY <1>5, DeconfigureInv
<1>6. CASE Isr
  BY <1>6, IsrResetInv, IsrOutInv, RxPacketInv, EchoInv, ReadTxStatInv, WriteTxStatInv,
     EchoEndInv, IsrInInv, TxCompleteInv DEF Isr
<1>7. CASE UNCHANGED vars
  BY <1>7 DEF IInv, ShortPending, Drained, Draining, Quiet, LinkUp, NothingLost, TypeOK, vars, deviceVars, hostVars, Count
<1> QED
  BY <1>1, <1>2, <1>3, <1>4, <1>5, <1>6, <1>7 DEF Next

(***************************************************************************)
(* The inductive invariant holds throughout, for every ring size and every *)
(* number of bytes.                                                        *)
(***************************************************************************)
THEOREM Invariance == WithinLimits => (Spec => []IInv)
<1> SUFFICES ASSUME WithinLimits PROVE Spec => []IInv
  OBVIOUS
<1>1. Init => IInv
  BY InitInv
<1>2. IInv /\ [Next]_vars => IInv'
  BY StepInv
<1> QED
  BY <1>1, <1>2, PTL DEF Spec

(***************************************************************************)
(* Type correctness of the data path (usb_cdc.c, usb_hal.c,                *)
(* circular_buffer.c).                                                     *)
(***************************************************************************)
THEOREM Typing == WithinLimits => (Spec => []TypeOK)
<1>1. IInv => TypeOK
  BY DEF IInv
<1> QED
  BY <1>1, Invariance, PTL

(***************************************************************************)
(* Flow control (usb_cdc_read_ep): the OUT half accepts a packet only      *)
(* after the callback has read all before it, and no acknowledged byte is  *)
(* lost.                                                                   *)
(***************************************************************************)
THEOREM FlowControl == WithinLimits => (Spec => [](ArmedOnlyAfterRead /\ NothingLost))
<1>1. IInv => ArmedOnlyAfterRead /\ NothingLost
  <2> SUFFICES ASSUME IInv, open, out.stat = "VALID" PROVE read = sent
    BY DEF ArmedOnlyAfterRead, IInv
  <2>1. ~out.vt /\ Count(rx) = 0
    BY DEF IInv, Quiet, Drained
  <2>2. sent \in Nat /\ read \in Nat
    BY BoundsAssumption DEF IInv, TypeOK, Byte
  <2> QED
    BY <2>1, <2>2 DEF IInv, NothingLost
<1> QED
  BY <1>1, Invariance, PTL

(***************************************************************************)
(* The first half by itself: while the endpoint is open, the OUT half is   *)
(* VALID only when the callback has read every byte the host has sent.     *)
(***************************************************************************)
THEOREM ReadBeforeArmed == WithinLimits => (Spec => []ArmedOnlyAfterRead)
  BY FlowControl, PTL

-----------------------------------------------------------------------------
(***************************************************************************)
(* What is on its way, in the three situations the invariant allows.       *)
(***************************************************************************)
LEMMA OnTheirWaySeq ==
  ASSUME IInv
  PROVE  /\ Contents(rx) \in Seq(Byte) /\ Len(Contents(rx)) = Count(rx)
         /\ out.packet \in Seq(Byte)
         /\ ~out.vt => OnTheirWay = Contents(rx)
         /\ Count(rx) = 0 => Contents(rx) = << >>
         /\ Count(rx) = 0 /\ out.vt => OnTheirWay = out.packet
<1>1. Contents(rx) \in Seq(Byte) /\ Len(Contents(rx)) = Count(rx) /\ out.packet \in Seq(Byte)
  BY ContentsSeq DEF IInv, TypeOK, Half
<1>2. Count(rx) = 0 => Contents(rx) = << >>
  BY <1>1, EmptySeq
<1>3. ~out.vt => OnTheirWay = Contents(rx)
  BY <1>1, ConcatEmptySeq DEF OnTheirWay
<1>4. Count(rx) = 0 /\ out.vt => OnTheirWay = out.packet
  BY <1>1, <1>2, ConcatEmptySeq DEF OnTheirWay
<1> QED
  BY <1>1, <1>2, <1>3, <1>4

streamVars == <<open, OnTheirWay, sent, handed>>

(***************************************************************************)
(* A packet from the host is a Send of the byte stream, or a stutter when  *)
(* it is empty.                                                            *)
(***************************************************************************)
LEMMA HostSendsStream ==
  ASSUME WithinLimits, IInv, IInv', NEW n \in PacketSizes, HostSends(n)
  PROVE  [Stream!Next]_streamVars
<1>1. n \in Nat /\ n < Size /\ sent \in Nat
  BY BoundsAssumption, SizeAssumption DEF WithinLimits, IInv, TypeOK, Byte
<1>2. Count(rx) = 0 /\ ~out.vt /\ OnTheirWay = << >>
  BY OnTheirWaySeq DEF HostSends, IInv, Quiet, Drained
<1>3. out'.vt /\ out'.packet = [i \in 1 .. n |-> sent + i]
  BY DEF HostSends
<1>4. OnTheirWay' = [i \in 1 .. n |-> sent + i]
  <2>1. rx' = rx
    BY DEF HostSends, deviceVars
  <2> QED
    BY <1>2, <1>3, <2>1, OnTheirWaySeq, ConcatEmptySeq DEF OnTheirWay, IInv, TypeOK, Half
<1>5. open /\ open' = open /\ handed' = handed /\ sent' = sent + n /\ sent + n <= MaxSent
  BY DEF HostSends, deviceVars
<1>6. CASE n = 0
  <2>1. OnTheirWay' = << >> /\ sent' = sent
    BY <1>1, <1>4, <1>5, <1>6
  <2> QED
    BY <1>2, <1>5, <2>1 DEF streamVars
<1>7. CASE n # 0
  <2>1. n \in 1 .. Size
    BY <1>1, <1>7, SizeAssumption
  <2>2. Stream!Send(n)
    BY <1>2, <1>4, <1>5 DEF Stream!Send
  <2> QED
    BY <2>1, <2>2 DEF Stream!Next
<1> QED
  BY <1>6, <1>7

(***************************************************************************)
(* One round of the callback is a Hand of the byte stream.                 *)
(***************************************************************************)
LEMMA EchoStream ==
  ASSUME IInv, IInv', Echo
  PROVE  Stream!Hand
<1>1. rx \in Ring(Byte) /\ ~out.vt /\ ~out'.vt
  BY DEF IInv, TypeOK, Echo, Quiet, Draining
<1>2. Count(rx) \in Nat /\ Count(rx) > 0 /\ Least(1, Count(rx)) = 1
  BY <1>1, CountRange, SizeAssumption DEF Echo, Least
<1> DEFINE s == ReadBytes(rx, 1)
           r == Contents(rx')
<1>3. s \in Seq(Byte) /\ Len(s) = 1
  BY <1>1, <1>2, ReadBytesSeq
<1>4. r \in Seq(Byte)
  BY ContentsSeq DEF IInv, TypeOK
<1>5. OnTheirWay = s \o r
  <2>1. s \o Contents(AfterRead(rx, 1)) = Contents(rx)
    BY <1>1, ReadFifo
  <2>2. OnTheirWay = Contents(rx)
    BY <1>1, OnTheirWaySeq
  <2> QED
    BY <2>1, <2>2 DEF Echo
<1>6. OnTheirWay' = r
  BY <1>1, <1>4, ConcatEmptySeq DEF OnTheirWay
<1>7. handed' = s[1] /\ open' = open /\ sent' = sent
  BY DEF Echo, hostVars
<1> HIDE DEF s, r
<1>8. s \o r # << >> /\ Head(s \o r) = s[1] /\ Tail(s \o r) = r
  <2> DEFINE q == s \o r
  <2>0. /\ q \in Seq(Byte) /\ Len(q) = Len(s) + Len(r)
        /\ \A i \in 1 .. Len(s) + Len(r) : q[i] = IF i <= Len(s) THEN s[i] ELSE r[i - Len(s)]
    BY <1>3, <1>4, ConcatProperties
  <2>1. q \in Seq(Byte) /\ Len(q) = 1 + Len(r) /\ Len(r) \in Nat
    BY <1>3, <1>4, <2>0
  <2>2. \A i \in 1 .. 1 + Len(r) : q[i] = IF i <= 1 THEN s[i] ELSE r[i - 1]
    BY <1>3, <2>0
  <2> HIDE DEF q
  <2>3. q # << >> /\ Head(q) = q[1] /\ q[1] = s[1]
    BY <2>1, <2>2
  <2>4. Tail(q) \in Seq(Byte) /\ Len(Tail(q)) = Len(r)
        /\ \A i \in 1 .. Len(r) : Tail(q)[i] = r[i]
    BY <2>1, <2>2, <2>3, HeadTailProperties
  <2>5. Tail(q) = r
    BY <1>4, <2>4, SeqEqual
  <2> QED
    BY <2>3, <2>5 DEF q
<1> QED
  BY <1>5, <1>6, <1>7, <1>8 DEF Stream!Hand

(***************************************************************************)
(* With a drained ring and no pending packet nothing is on its way.        *)
(***************************************************************************)
LEMMA EmptyUnlessPending ==
  ASSUME IInv', ~out'.vt, Count(rx') = 0
  PROVE  OnTheirWay' = << >>
<1>1. Contents(rx') \in Seq(Byte) /\ Len(Contents(rx')) = 0
  BY ContentsSeq DEF IInv, TypeOK
<1>2. Contents(rx') = << >>
  BY <1>1, EmptySeq
<1> QED
  BY <1>1, <1>2, ConcatEmptySeq DEF OnTheirWay

(***************************************************************************)
(* SET_CONFIGURATION drops what is on its way.                             *)
(***************************************************************************)
LEMMA LinkEmpties ==
  ASSUME IInv, IInv', Configure \/ Deconfigure
  PROVE  OnTheirWay' = << >>
<1>1. CASE Configure
  <2>1. out \in Half /\ "NAK" \in Stat
    BY DEF IInv, TypeOK, Stat
  <2>2. /\ [out EXCEPT !.stat = "NAK", !.vt = FALSE] \in Half
        /\ [out EXCEPT !.stat = "NAK", !.vt = FALSE].vt = FALSE
    BY <2>1, HalfStatVt
  <2>3. /\ out' = ReadEp([out EXCEPT !.stat = "NAK", !.vt = FALSE], Reset(rx), TRUE)
        /\ rx' = Reset(rx)
    BY <1>1 DEF Configure
  <2>4. ~out'.vt /\ Count(rx') = 0
    BY <2>2, <2>3, ReadEpHalf, ResetEmpty DEF IInv, TypeOK
  <2> QED
    BY <2>4, EmptyUnlessPending
<1>2. CASE Deconfigure
  <2>1. ~out'.vt /\ Count(rx') = 0
    BY <1>2, HalfVt, ResetEmpty DEF Deconfigure, IInv, TypeOK
  <2> QED
    BY <2>1, EmptyUnlessPending
<1> QED
  BY <1>1, <1>2

(***************************************************************************)
(* Bus resets and SET_CONFIGURATION are UpOrDown steps of the byte stream  *)
(* or stutter.                                                             *)
(***************************************************************************)
LEMMA LinkStream ==
  ASSUME IInv, IInv', BusReset \/ Configure \/ Deconfigure
  PROVE  [Stream!Next]_streamVars
<1>1. CASE BusReset
  <2>1. OnTheirWay' = OnTheirWay
    <3>1. rx' = rx /\ out'.vt = out.vt /\ out'.packet = out.packet
      BY <1>1, HalfStat DEF BusReset, IInv, TypeOK, Stat
    <3> QED
      BY <3>1 DEF OnTheirWay, Contents, ReadBytes, Count
  <2>2. open \in BOOLEAN /\ open' = FALSE /\ sent' = sent /\ handed' = handed
    BY <1>1 DEF BusReset, IInv, TypeOK
  <2>3. CASE open
    <3>1. Stream!UpOrDown
      BY <2>1, <2>2, <2>3, Zenon DEF Stream!UpOrDown
    <3> QED
      BY <3>1 DEF Stream!Next
  <2>4. CASE ~open
    BY <2>1, <2>2, <2>4, Zenon DEF streamVars
  <2> QED
    BY <2>3, <2>4
<1>2. CASE Configure \/ Deconfigure
  <2>2. OnTheirWay' = << >>
    BY <1>2, LinkEmpties
  <2>3. open' = ~open /\ sent' = sent /\ handed' = handed
    BY <1>2, Zenon DEF Configure, Deconfigure, hostVars, IInv, LinkUp, TypeOK
  <2>4. Stream!UpOrDown
    BY <2>2, <2>3, Zenon DEF Stream!UpOrDown
  <2> QED
    BY <2>4 DEF Stream!Next
<1> QED
  BY <1>1, <1>2

(***************************************************************************)
(* The other steps of the handler are stutters: moving a packet from its   *)
(* buffer to the ring does not change what is on its way.                  *)
(***************************************************************************)
LEMMA QuietStream ==
  ASSUME WithinLimits, IInv, IInv',
         IsrReset \/ RxPacket \/ TxComplete \/ EchoEnd
  PROVE  UNCHANGED streamVars
<1>1. open' = open /\ sent' = sent /\ handed' = handed
  BY DEF IsrReset, RxPacket, TxComplete, EchoEnd, deviceVars, hostVars
<1>2. OnTheirWay' = OnTheirWay
  <2>1. CASE IsrReset
    <3>1. Count(rx) = 0 /\ Count(rx') = 0 /\ out' = out
      BY <2>1, ResetEmpty DEF IsrReset, IInv, TypeOK, Drained, Draining
    <3>2. Contents(rx) = << >> /\ Contents(rx') = << >>
      BY <3>1, ContentsSeq, EmptySeq DEF IInv, TypeOK
    <3> QED
      BY <3>1, <3>2 DEF OnTheirWay
  <2>2. CASE RxPacket
    <3>1. /\ out.vt /\ ~out'.vt /\ Count(rx) = 0 /\ Len(out.packet) < Size
          /\ out.packet \in Seq(Byte) /\ rx \in Ring(Byte) /\ rx' \in Ring(Byte)
      BY <2>2, HalfVt
      DEF RxPacket, IInv, TypeOK, Half, Quiet, Drained, Draining, ShortPending
    <3>2. Contents(rx') = Contents(rx) \o out.packet
      <4>1. Count(rx) + Len(out.packet) < Size
        BY <3>1
      <4> QED
        BY <2>2, <3>1, <4>1, WriteFifo DEF RxPacket
    <3>3. OnTheirWay' = Contents(rx')
      BY <3>1, ContentsSeq, ConcatEmptySeq DEF OnTheirWay
    <3> QED
      BY <3>1, <3>2, <3>3 DEF OnTheirWay
  <2>3. CASE TxComplete
    <3>1. rx' = rx
      BY <2>3 DEF TxComplete
    <3>2. WrittenBack(out.vt) = out.vt /\ out \in Half /\ out.vt \in BOOLEAN
      BY DEF WithinLimits, WrittenBack, Half, IInv, TypeOK
    <3>3. out'.vt = out.vt /\ out'.packet = out.packet
      BY <2>3, <3>2, HalfVt DEF TxComplete
    <3> QED
      BY <3>1, <3>3 DEF OnTheirWay, Contents, ReadBytes, Count
  <2>4. CASE EchoEnd
    <3>1. rx' = rx
      BY <2>4 DEF EchoEnd, deviceVars
    <3>2. out'.vt = out.vt /\ out'.packet = out.packet
      BY <2>4, ReadEpHalf DEF EchoEnd, IInv, TypeOK
    <3> QED
      BY <3>1, <3>2 DEF OnTheirWay, Contents, ReadBytes, Count
  <2> QED
    BY <2>1, <2>2, <2>3, <2>4
<1> QED
  BY <1>1, <1>2 DEF streamVars

(***************************************************************************)
(* Every step is a step of the byte stream or a stutter.                   *)
(***************************************************************************)
LEMMA StepStream ==
  ASSUME WithinLimits, IInv, IInv', [Next]_vars
  PROVE  [Stream!Next]_streamVars
<1>1. CASE \E n \in PacketSizes : HostSends(n)
  BY <1>1, HostSendsStream
<1>2. CASE BusReset \/ Configure \/ Deconfigure
  BY <1>2, LinkStream
<1>3. CASE Echo
  BY <1>3, EchoStream DEF Stream!Next
<1>4. CASE IsrReset \/ RxPacket \/ TxComplete \/ EchoEnd
  BY <1>4, QuietStream
<1>5. CASE HostTakes \/ IsrOut \/ IsrIn \/ ReadTxStat \/ WriteTxStat \/ UNCHANGED vars
  <2>1. rx' = rx /\ out' = out /\ open' = open /\ sent' = sent /\ handed' = handed
    BY <1>5 DEF HostTakes, IsrOut, IsrIn, ReadTxStat, WriteTxStat, vars, deviceVars, hostVars
  <2> QED
    BY <2>1 DEF streamVars, OnTheirWay, Contents, ReadBytes, Count
<1> QED
  BY <1>1, <1>2, <1>3, <1>4, <1>5 DEF Next, Isr

(***************************************************************************)
(* The data path from the host to usb_cdc_rx_cb implements the reliable    *)
(* byte stream of ByteStream.                                              *)
(***************************************************************************)
THEOREM Refinement == WithinLimits => (Spec => ImplementsStream)
<1> SUFFICES ASSUME WithinLimits PROVE Spec => ImplementsStream
  OBVIOUS
<1>1. Init => Stream!Init
  <2> SUFFICES ASSUME Init PROVE Stream!Init
    OBVIOUS
  <2>1. IInv /\ Count(rx) = 0 /\ ~out.vt
    BY InitInv DEF Init, Idle, IInv, Drained, Draining
  <2> QED
    BY <2>1, OnTheirWaySeq DEF Init, Stream!Init
<1>2. IInv /\ IInv' /\ [Next]_vars => [Stream!Next]_streamVars
  BY StepStream
<1>3. Spec => []IInv
  BY Invariance
<1> QED
  BY <1>1, <1>2, <1>3, PTL DEF Spec, ImplementsStream, Stream!Spec, streamVars

-----------------------------------------------------------------------------
(***************************************************************************)
(* The echo: the bytes on their way are numbered without a gap, the tx     *)
(* ring is empty between two bytes, and the IN packet buffer holds at most *)
(* one byte, which is not older than anything the host has taken.          *)
(***************************************************************************)
Numbered == OnTheirWay = [i \in 1 .. sent - read |-> read + i]
TxIdle   == configured => Count(tx) = 0
OneByte ==
  in.packet # << >> =>
    /\ Len(in.packet) = 1 /\ in.packet[1] <= handed
    /\ \A i \in DOMAIN received : received[i] <= in.packet[1]

EInv == IInv /\ Numbered /\ TxIdle /\ handed <= read /\ OneByte /\ EchoInOrder

(***************************************************************************)
(* The bytes on their way stay numbered without a gap.                     *)
(***************************************************************************)
LEMMA NumberedStep ==
  ASSUME WithinLimits, IInv, IInv', Numbered, [Next]_vars
  PROVE  Numbered'
<1>1. sent \in Nat /\ read \in Nat
  BY BoundsAssumption DEF IInv, TypeOK, Byte
<1>2. ASSUME UNCHANGED <<rx, out, sent, read>> PROVE Numbered'
  BY <1>2 DEF Numbered, OnTheirWay, Contents, ReadBytes, Count
<1>3. ASSUME NEW n \in PacketSizes, HostSends(n) PROVE Numbered'
  <2>1. n \in Nat
    BY SizeAssumption, BoundsAssumption
  <2>2. Count(rx) = 0 /\ ~out.vt /\ read = sent
    BY <1>1, <1>3 DEF HostSends, IInv, Quiet, Drained, NothingLost
  <2>3. /\ rx' = rx /\ out'.vt /\ out'.packet = [i \in 1 .. n |-> sent + i]
        /\ read' = read /\ sent' = sent + n
    BY <1>3 DEF HostSends, deviceVars
  <2>4. OnTheirWay' = [i \in 1 .. n |-> sent + i]
    BY <2>2, <2>3, OnTheirWaySeq, ConcatEmptySeq DEF OnTheirWay, IInv, TypeOK, Half
  <2> QED
    BY <1>1, <2>1, <2>2, <2>3, <2>4 DEF Numbered
<1>4. CASE BusReset
  <2>1. rx' = rx /\ out'.vt = out.vt /\ out'.packet = out.packet /\ sent' = sent /\ read' = read
    BY <1>4, HalfStat DEF BusReset, IInv, TypeOK, Stat
  <2> QED
    BY <2>1 DEF Numbered, OnTheirWay, Contents, ReadBytes, Count
<1>5. CASE Configure \/ Deconfigure
  <2>1. read' = sent' /\ sent' \in Nat
    BY <1>1, <1>5 DEF Configure, Deconfigure, hostVars
  <2>2. OnTheirWay' = << >>
    BY <1>5, LinkEmpties
  <2>0. \A m \in Nat : m - m = 0
    OBVIOUS
  <2>3. sent' - read' = 0
    BY <2>0, <2>1, Zenon
  <2>4. \A r \in Nat : [i \in 1 .. 0 |-> r + i] = << >>
    OBVIOUS
  <2>5. [i \in 1 .. sent' - read' |-> read' + i] = << >>
    BY <2>1, <2>3, <2>4
  <2> QED
    BY <2>2, <2>5 DEF Numbered
<1>6. CASE Echo
  <2>1. OnTheirWay' = Tail(OnTheirWay) /\ OnTheirWay # << >> /\ sent' = sent /\ read' = read + 1
    BY <1>6, EchoStream DEF Stream!Hand, Echo, hostVars
  <2> DEFINE k == sent - read
  <2>2. k \in Nat /\ k > 0
    <3>1. Count(rx) > 0 /\ ~out.vt
      BY <1>6 DEF Echo, IInv, Quiet, Draining
    <3>2. Count(rx) \in Nat
      BY CountRange, SizeAssumption DEF IInv, TypeOK
    <3>3. k = Count(rx)
      BY <1>1, <3>1, <3>2 DEF IInv, NothingLost
    <3> QED
      BY <3>1, <3>2, <3>3
  <2>3. Tail([i \in 1 .. k |-> read + i]) = [i \in 1 .. k - 1 |-> read + (i + 1)]
    <3> HIDE DEF k
    <3> QED
      BY <1>1, <2>2
  <2>4. k - 1 = sent - (read + 1) /\ \A i \in 1 .. k - 1 : read + (i + 1) = (read + 1) + i
    BY <1>1, <2>2
  <2> QED
    BY <2>1, <2>3, <2>4 DEF Numbered
<1>7. CASE IsrReset \/ RxPacket \/ TxComplete \/ EchoEnd
  <2>1. OnTheirWay' = OnTheirWay
    BY <1>7, QuietStream DEF streamVars
  <2>2. sent' = sent /\ read' = read
    BY <1>7 DEF IsrReset, RxPacket, TxComplete, EchoEnd, hostVars
  <2> QED
    BY <2>1, <2>2 DEF Numbered
<1>8. CASE HostTakes \/ IsrOut \/ IsrIn \/ ReadTxStat \/ WriteTxStat \/ UNCHANGED vars
  BY <1>2, <1>8 DEF HostTakes, IsrOut, IsrIn, ReadTxStat, WriteTxStat, vars, deviceVars, hostVars
<1> QED
  BY <1>3, <1>4, <1>5, <1>6, <1>7, <1>8 DEF Next, Isr

(***************************************************************************)
(* What one round of the callback echoes: the byte after the last one      *)
(* read, alone in the IN packet buffer.                                    *)
(***************************************************************************)
LEMMA EchoByte ==
  ASSUME EInv, Echo
  PROVE  /\ handed' = read + 1
         /\ configured => Count(tx') = 0
         /\ \/ in' = in
            \/ in'.packet = <<read + 1>>
<1> DEFINE s == ReadBytes(rx, 1)
           written == AfterWrite(tx, s)
<1>1. /\ rx \in Ring(Byte) /\ tx \in Ring(Byte) /\ in \in Half /\ ~out.vt
      /\ sent \in Nat /\ read \in Nat /\ Count(rx) = sent - read
  BY CountRange, BoundsAssumption DEF EInv, IInv, TypeOK, Byte, Echo, Quiet, Draining, NothingLost
<1>2. Count(rx) \in Nat /\ 0 < Count(rx) /\ Count(rx) < Size /\ Least(1, Count(rx)) = 1
  BY <1>1, CountRange, SizeAssumption DEF Echo, Least
<1>3. s \in Seq(Byte) /\ Len(s) = 1
  BY <1>1, <1>2, ReadBytesSeq
<1>4. s[1] = read + 1
  <2>1. OnTheirWay = Contents(rx)
    BY <1>1, OnTheirWaySeq DEF EInv
  <2>2. Contents(rx)[1] = read + 1
    BY <1>1, <1>2, <2>1 DEF EInv, Numbered
  <2>3. Least(Count(rx), Count(rx)) = Count(rx)
    BY DEF Least
  <2>4. Contents(rx)[1] = rx.data[(rx.tail + (1 - 1)) % Size]
    BY <1>1, <1>2, <2>3, ReadByte DEF Contents
  <2>5. s[1] = rx.data[(rx.tail + (1 - 1)) % Size]
    BY <1>1, <1>2, ReadByte
  <2> QED
    BY <2>2, <2>4, <2>5
<1>5. handed' = read + 1
  BY <1>4 DEF Echo
<1>6. SUFFICES ASSUME configured
               PROVE  Count(tx') = 0 /\ in'.packet = <<read + 1>>
  <2>1. CASE ~configured
    BY <1>5, <2>1 DEF Echo
  <2> QED
    BY <1>5, <1>6, <2>1
<1>7. Count(tx) = 0
  BY <1>6 DEF EInv, TxIdle
<1>8. Count(tx) + Len(s) < Size
  <2> HIDE DEF s
  <2> QED
    BY <1>2, <1>3, <1>7, SizeAssumption
<1>9. written \in Ring(Byte) /\ Count(written) = 1 /\ Contents(written) = Contents(tx) \o s
  <2>1. Count(written) = Count(tx) + Len(s)
    BY <1>1, <1>3, <1>8, WriteCount
  <2>2. Contents(written) = Contents(tx) \o s
    BY <1>1, <1>3, <1>8, WriteFifo
  <2>3. written \in Ring(Byte)
    BY <1>1, <1>3, WriteRing
  <2> HIDE DEF s, written
  <2> QED
    BY <1>3, <1>7, <2>1, <2>2, <2>3
<1>10. Contents(written) = s
  <2>1. Contents(tx) = << >>
    BY <1>1, <1>7, ContentsSeq, EmptySeq
  <2> QED
    BY <1>3, <1>9, <2>1, ConcatEmptySeq
<1>11. tx' = AfterRead(written, Size) /\ in' = [in EXCEPT !.packet = ReadBytes(written, Size)]
  <2>1. configured /\ Count(written) > 0
    BY <1>6, <1>9
  <2> QED
    BY <2>1 DEF Echo
<1>12. ReadBytes(written, Size) = s
  <2>1. Least(Size, Count(written)) = Least(Count(written), Count(written))
    BY <1>2, <1>9, SizeAssumption DEF Least
  <2>2. ReadBytes(written, Size) = Contents(written)
    BY <2>1 DEF ReadBytes, Contents
  <2> QED
    BY <1>10, <2>2
<1>13. Count(tx') = 0
  <2>1. Count(tx') = 1 - Least(Size, 1)
    BY <1>9, <1>11, ReadCount, SizeAssumption
  <2> QED
    BY <2>1, <1>2, SizeAssumption DEF Least
<1>14. s = <<read + 1>>
  <2> HIDE DEF s
  <2> QED
    BY <1>3, <1>4
<1>15. in'.packet = s
  <2>1. ReadBytes(written, Size) \in Seq(Byte)
    BY <1>3, <1>12
  <2>2. [in EXCEPT !.packet = ReadBytes(written, Size)].packet = ReadBytes(written, Size)
    BY <1>1, <2>1, HalfPacket
  <2> QED
    BY <1>11, <1>12, <2>2
<1> QED
  BY <1>13, <1>14, <1>15

(* What a step must leave alone, or only empty, for the order to survive.  *)
Kept ==
  /\ in'.packet \in {in.packet, << >>}
  /\ received' = received /\ handed' = handed
  /\ read <= read'
  /\ configured' => Count(tx') = 0

Ordered == TxIdle /\ handed <= read /\ OneByte /\ EchoInOrder

(***************************************************************************)
(* The types the order lemmas need, and read <= sent.                      *)
(***************************************************************************)
LEMMA Numbers ==
  ASSUME IInv
  PROVE  /\ handed \in Nat /\ read \in Nat /\ sent \in Nat
         /\ in \in Half /\ in.packet \in Seq(Byte) /\ received \in Seq(Byte)
         /\ \A i \in DOMAIN received : received[i] \in Nat
         /\ read <= sent
<1>1. Byte \subseteq Nat
  BY BoundsAssumption DEF Byte
<1>2. /\ handed \in Nat /\ read \in Nat /\ sent \in Nat
      /\ in \in Half /\ in.packet \in Seq(Byte) /\ received \in Seq(Byte)
  BY <1>1 DEF IInv, TypeOK, Half
<1>3. \A i \in DOMAIN received : received[i] \in Nat
  <2> SUFFICES ASSUME NEW i \in DOMAIN received PROVE received[i] \in Nat
    OBVIOUS
  <2>1. i \in 1 .. Len(received)
    BY <1>2
  <2>2. received[i] \in Byte
    BY <1>2, <2>1, ElementOfSeq
  <2> QED
    BY <1>1, <2>2
<1>4. read <= sent
  <2>1. Count(rx) \in Nat
    BY CountRange, SizeAssumption DEF IInv, TypeOK
  <2>2. out.vt => Len(out.packet) \in Nat
    BY DEF IInv, TypeOK, Half
  <2>3. (IF out.vt THEN Len(out.packet) ELSE 0) \in Nat
    BY <2>2
  <2>4. \A a, b, c, d \in Nat : a - b = c + d => b <= a
    OBVIOUS
  <2> QED
    BY <1>2, <2>1, <2>3, <2>4 DEF IInv, NothingLost
<1> QED
  BY <1>2, <1>3, <1>4

(***************************************************************************)
(* Such a step keeps the order.                                            *)
(***************************************************************************)
LEMMA KeptOrder ==
  ASSUME IInv, IInv', Ordered, Kept
  PROVE  Ordered'
<1>1. handed' <= read'
  <2>1. handed \in Nat /\ read \in Nat
    BY Numbers
  <2>2. read' \in Nat
    BY BoundsAssumption DEF IInv, TypeOK, Byte
  <2> QED
    BY <2>1, <2>2 DEF Ordered, Kept
<1>2. OneByte' /\ EchoInOrder' /\ TxIdle'
  BY DEF Ordered, Kept, OneByte, EchoInOrder, TxIdle
<1> QED
  BY <1>1, <1>2 DEF Ordered

(***************************************************************************)
(* The host taking a packet keeps the order: its byte is not older than    *)
(* any taken before.                                                       *)
(***************************************************************************)
LEMMA TakesOrder ==
  ASSUME IInv, Ordered, HostTakes
  PROVE  Ordered'
<1>1. /\ in' = [in EXCEPT !.stat = "NAK", !.vt = TRUE] /\ received' = received \o in.packet
      /\ handed' = handed /\ read' = read /\ tx' = tx /\ configured' = configured
  BY DEF HostTakes, deviceVars
<1>2. in'.packet = in.packet
  BY <1>1, Numbers, HalfStatVt DEF Stat
<1>3. CASE in.packet = << >>
  <2>1. received' = received
    BY <1>1, <1>3, Numbers, ConcatEmptySeq
  <2> QED
    BY <1>1, <1>2, <2>1 DEF Ordered, OneByte, EchoInOrder, TxIdle, Count
<1>4. CASE in.packet # << >>
  <2>1. Len(in.packet) = 1 /\ in.packet[1] <= handed
        /\ \A i \in DOMAIN received : received[i] <= in.packet[1]
    BY <1>4 DEF Ordered, OneByte
  <2> DEFINE n == Len(received)
             b == in.packet[1]
  <2>2. received \in Seq(Byte) /\ in.packet \in Seq(Byte) /\ n \in Nat /\ b \in Nat
    <3>1. b \in Byte
      BY <2>1, Numbers, ElementOfSeq
    <3> QED
      BY <3>1, Numbers, BoundsAssumption DEF Byte
  <2>3. /\ received' \in Seq(Byte) /\ Len(received') = n + 1
        /\ \A i \in 1 .. n + 1 : received'[i] = IF i <= n THEN received[i] ELSE in.packet[i - n]
    <3> DEFINE p == in.packet
               q == received \o p
    <3>1. p \in Seq(Byte) /\ Len(p) = 1
      BY <2>1, <2>2
    <3> HIDE DEF p
    <3>2. /\ q \in Seq(Byte) /\ Len(q) = Len(received) + Len(p)
          /\ \A i \in 1 .. Len(received) + Len(p) :
               q[i] = IF i <= Len(received) THEN received[i] ELSE p[i - Len(received)]
      BY <2>2, <3>1, ConcatProperties
    <3>3. received' = q
      BY <1>1 DEF p
    <3> HIDE DEF q
    <3> QED
      BY <3>1, <3>2, <3>3 DEF p
  <2>4. DOMAIN received = 1 .. n /\ DOMAIN received' = 1 .. n + 1
    BY <2>2, <2>3
  <2>5. \A i \in 1 .. n + 1 : received'[i] = IF i <= n THEN received[i] ELSE b
    BY <2>2, <2>3
  <2>6. \A i \in 1 .. n : received[i] \in Nat /\ received[i] <= b /\ received[i] <= handed
    BY <2>1, <2>4, Numbers DEF Ordered, EchoInOrder
  <2>7. \A i, j \in 1 .. n : i < j => received[i] <= received[j]
    BY <2>4 DEF Ordered, EchoInOrder
  <2> HIDE DEF n, b
  <2>8. b <= handed
    BY <2>1 DEF b
  <2>9. \A i, j \in 1 .. n + 1 : i < j => received'[i] <= received'[j]
    BY <2>2, <2>5, <2>6, <2>7
  <2>10. \A i \in 1 .. n + 1 : received'[i] <= handed /\ received'[i] <= b
    BY <2>2, <2>5, <2>6, <2>8
  <2>11. EchoInOrder'
    BY <1>1, <2>4, <2>9, <2>10 DEF EchoInOrder
  <2>12. OneByte'
    BY <1>1, <1>2, <2>1, <2>4, <2>10 DEF OneByte, b
  <2> QED
    BY <1>1, <2>11, <2>12 DEF Ordered, TxIdle, Count
<1> QED
  BY <1>3, <1>4

(***************************************************************************)
(* The byte put into the IN packet buffer is newer than any before it.     *)
(***************************************************************************)
LEMMA EchoOrder ==
  ASSUME EInv, Echo
  PROVE  Ordered'
<1>1. /\ handed' = read + 1 /\ read' = read + 1 /\ received' = received /\ configured' = configured
      /\ configured => Count(tx') = 0
      /\ in' = in \/ in'.packet = <<read + 1>>
  BY EchoByte DEF Echo, hostVars
<1>2. /\ handed \in Nat /\ read \in Nat /\ handed <= read
      /\ \A i \in DOMAIN received : received[i] \in Nat /\ received[i] <= handed
  BY Numbers DEF EInv, EchoInOrder
<1>3. EchoInOrder'
  BY <1>1, <1>2 DEF EInv, EchoInOrder
<1>4. OneByte'
  <2>1. CASE in'.packet = <<read + 1>>
    BY <1>1, <1>2, <2>1 DEF OneByte
  <2>2. CASE in' = in
    <3> SUFFICES ASSUME in.packet # << >>
                 PROVE  in.packet[1] <= read + 1
      BY <1>1, <2>2 DEF EInv, OneByte
    <3>1. Len(in.packet) = 1 /\ in.packet[1] <= handed
      BY DEF EInv, OneByte
    <3>2. in.packet[1] \in Byte
      BY <3>1, Numbers, ElementOfSeq DEF EInv
    <3> QED
      BY <1>2, <3>1, <3>2, BoundsAssumption DEF Byte
  <2> QED
    BY <1>1, <2>1, <2>2
<1> QED
  BY <1>1, <1>2, <1>3, <1>4 DEF Ordered, TxIdle

(***************************************************************************)
(* Every step keeps the order.                                             *)
(***************************************************************************)
LEMMA OrderStep ==
  ASSUME WithinLimits, EInv, IInv', [Next]_vars
  PROVE  Ordered'
<1>1. IInv /\ Ordered
  BY DEF EInv, Ordered
<1>2. CASE UNCHANGED <<in, received, handed, read, tx, configured>>
  BY <1>1, <1>2, Numbers DEF Ordered, TxIdle, OneByte, EchoInOrder, Count
<1>3. CASE HostTakes
  BY <1>1, <1>3, TakesOrder
<1>4. CASE Echo
  BY <1>4, EchoOrder
<1>5. CASE BusReset \/ WriteTxStat
  <2>1. in'.packet = in.packet
    <3>1. in \in Half /\ in.stat \in Stat /\ seen.stat \in Stat
      BY <1>1 DEF IInv, TypeOK, Half
    <3>2. "DISABLED" \in Stat /\ "VALID" \in Stat
      BY DEF Stat
    <3>3. Xor(in.stat, Xor(seen.stat, "VALID")) \in Stat
      BY <3>1, <3>2, XorStat
    <3>4. CASE BusReset
      BY <3>1, <3>2, <3>4, HalfStat DEF BusReset
    <3>5. CASE WriteTxStat
      BY <3>1, <3>3, <3>5, HalfStat DEF WriteTxStat
    <3> QED
      BY <1>5, <3>4, <3>5
  <2>2. /\ received' = received /\ handed' = handed /\ read' = read
        /\ tx' = tx /\ configured' = configured
    BY <1>5 DEF BusReset, WriteTxStat, deviceVars, hostVars
  <2> QED
    BY <1>1, <2>1, <2>2 DEF Ordered, TxIdle, OneByte, EchoInOrder, Count
<1>6. CASE Configure \/ Deconfigure \/ IsrReset
  <2>0. /\ in \in Half /\ "NAK" \in Stat /\ FALSE \in BOOLEAN
        /\ read \in Nat /\ sent \in Nat /\ read <= sent
    BY <1>1, Numbers DEF Stat
  <2>1. in'.packet = in.packet
    <3>1. CASE Configure
      BY <2>0, <3>1, HalfStatVt DEF Configure
    <3>2. CASE Deconfigure
      BY <2>0, <3>2, HalfVt DEF Deconfigure
    <3>3. CASE IsrReset
      BY <3>3 DEF IsrReset
    <3> QED
      BY <1>6, <3>1, <3>2, <3>3
  <2>2. received' = received /\ handed' = handed /\ read <= read'
    <3>1. received' = received /\ handed' = handed /\ (read' = sent \/ read' = read)
      BY <1>6 DEF Configure, Deconfigure, IsrReset, hostVars
    <3> QED
      BY <2>0, <3>1
  <2>3. tx' = Reset(tx)
    BY <1>6 DEF Configure, Deconfigure, IsrReset
  <2>4. Count(tx') = 0
    BY <1>1, <2>3, ResetEmpty DEF IInv, TypeOK
  <2> QED
    BY <1>1, <2>1, <2>2, <2>4, KeptOrder DEF Kept
<1>7. CASE RxPacket
  <2>1. in'.packet = in.packet
    <3>1. WrittenBack(in.vt) = in.vt /\ in.vt \in BOOLEAN /\ in \in Half
      BY <1>1, Numbers DEF WithinLimits, WrittenBack, Half
    <3> QED
      BY <1>7, <3>1, HalfVt DEF RxPacket
  <2>2. /\ received' = received /\ handed' = handed /\ read' = read
        /\ tx' = tx /\ configured' = configured
    BY <1>7 DEF RxPacket, hostVars
  <2> QED
    BY <1>1, <2>1, <2>2 DEF Ordered, TxIdle, OneByte, EchoInOrder, Count
<1>8. CASE TxComplete
  <2>1. ~(configured /\ Count(tx) > 0)
    BY <1>1 DEF Ordered, TxIdle
  <2>2. in'.packet \in {in.packet, << >>} /\ tx' = tx
    <3>1. in \in Half /\ FALSE \in BOOLEAN
      BY <1>1, Numbers
    <3>2. [in EXCEPT !.vt = FALSE].packet = in.packet
      BY <3>1, HalfVt
    <3>3. /\ tx' = tx
          /\ \/ in' = [stat |-> "VALID", vt |-> FALSE, packet |-> << >>]
             \/ in' = [in EXCEPT !.vt = FALSE]
      BY <1>8, <2>1 DEF TxComplete
    <3>4. CASE in' = [in EXCEPT !.vt = FALSE]
      BY <3>2, <3>3, <3>4
    <3>5. CASE in' = [stat |-> "VALID", vt |-> FALSE, packet |-> << >>]
      BY <3>3, <3>5
    <3> QED
      BY <3>3, <3>4, <3>5
  <2>3. /\ received' = received /\ handed' = handed /\ read' = read
        /\ configured' = configured
    BY <1>8 DEF TxComplete, hostVars
  <2> QED
    BY <1>1, <2>2, <2>3 DEF Ordered, TxIdle, OneByte, EchoInOrder, Count
<1>9. CASE IsrOut \/ IsrIn \/ ReadTxStat \/ EchoEnd \/ \E n \in PacketSizes : HostSends(n)
  BY <1>2, <1>9 DEF IsrOut, IsrIn, ReadTxStat, EchoEnd, HostSends, deviceVars, hostVars
<1> QED
  BY <1>2, <1>3, <1>4, <1>5, <1>6, <1>7, <1>8, <1>9 DEF Next, Isr, vars, deviceVars, hostVars

(***************************************************************************)
(* The host never gets an echoed byte after a later one, nor one the       *)
(* callback has not read.                                                  *)
(***************************************************************************)
THEOREM EchoOrdered == WithinLimits => (Spec => []EchoInOrder)
<1> SUFFICES ASSUME WithinLimits PROVE Spec => []EchoInOrder
  OBVIOUS
<1>1. Init => EInv
  <2> SUFFICES ASSUME Init PROVE Numbered /\ Ordered
    BY InitInv DEF EInv, Ordered
  <2>1. Ordered
    BY DEF Init, Ordered, TxIdle, OneByte, EchoInOrder, Idle
  <2>2. OnTheirWay = << >>
    <3>1. ~out.vt /\ Count(rx) = 0
      BY SizeAssumption DEF Init, Idle, Count, EmptyRing
    <3> QED
      BY <3>1, InitInv, OnTheirWaySeq
  <2>3. sent - read = 0
    BY DEF Init
  <2>4. \A r \in Nat : [i \in 1 .. 0 |-> r + i] = << >>
    OBVIOUS
  <2>5. read \in Nat
    BY DEF Init
  <2> QED
    BY <2>1, <2>2, <2>3, <2>4, <2>5 DEF Numbered
<1>2. EInv /\ [Next]_vars => EInv'
  <2> SUFFICES ASSUME EInv, [Next]_vars PROVE EInv'
    OBVIOUS
  <2>1. IInv'
    BY StepInv DEF EInv
  <2>2. Numbered'
    BY <2>1, NumberedStep DEF EInv
  <2>3. Ordered'
    BY <2>1, OrderStep
  <2> QED
    BY <2>1, <2>2, <2>3 DEF EInv, Ordered
<1>3. EInv => EchoInOrder
  BY DEF EInv
<1> QED
  BY <1>1, <1>2, <1>3, PTL DEF Spec
=============================================================================
