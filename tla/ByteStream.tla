----------------------------- MODULE ByteStream -----------------------------
(***************************************************************************)
(* What the OUT half of a CDC data interface promises the application:     *)
(* while the interface stays up, the bytes the host has sent and had       *)
(* acknowledged reach the receive callback once each and in the order      *)
(* sent, one packet at a time.  Only taking the interface down or bringing *)
(* it up again may drop the bytes on their way.                            *)
(*                                                                         *)
(* The n-th byte the host sends is the number n.                           *)
(***************************************************************************)
EXTENDS Integers, Sequences

CONSTANTS
  Limit,      \* the most bytes of one packet
  Final       \* the last byte the host sends

VARIABLES
  up,         \* the host may use the interface
  inFlight,   \* acknowledged to the host, not yet read by the callback
  sent,       \* the byte the host sent last
  handed      \* the byte the callback read last

Init == ~up /\ inFlight = << >> /\ sent = 0 /\ handed = 0

Send(n) ==
  /\ up
  /\ inFlight = << >>
  /\ sent + n <= Final
  /\ inFlight' = [i \in 1 .. n |-> sent + i]
  /\ sent' = sent + n
  /\ UNCHANGED <<up, handed>>

Hand ==
  /\ inFlight # << >>
  /\ handed' = Head(inFlight)
  /\ inFlight' = Tail(inFlight)
  /\ UNCHANGED <<up, sent>>

UpOrDown ==
  /\ up' = ~up
  /\ inFlight' \in {inFlight, << >>}
  /\ UNCHANGED <<sent, handed>>

Next == (\E n \in 1 .. Limit : Send(n)) \/ Hand \/ UpOrDown

Spec == Init /\ [][Next]_<<up, inFlight, sent, handed>>
=============================================================================
