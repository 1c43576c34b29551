---------------------------- MODULE MotionQueue ----------------------------
(***************************************************************************)
(* What the motion path promises the G-code parser: the steps of the       *)
(* blocks it accepts reach the motors once each, block after block and     *)
(* step after step, however often the motion is held and resumed.  Steps   *)
(* are dropped only all together, and only while the system is being       *)
(* initialised again.                                                      *)
(***************************************************************************)
EXTENDS Integers, Sequences

CONSTANTS
  StepEvents,  \* steps of a block
  MaxBlocks    \* bound: blocks accepted

VARIABLES
  running,     \* the system is not being initialised
  queue,       \* steps accepted and not yet taken, as <<block, n-th step>>
  accepted,    \* blocks accepted so far
  motor        \* the step taken last

Init == running \in BOOLEAN /\ queue = << >> /\ accepted = 0 /\ motor = <<0, 0>>

Accept ==
  /\ running
  /\ accepted < MaxBlocks
  /\ accepted' = accepted + 1
  /\ queue' = queue \o [k \in 1 .. StepEvents |-> <<accepted + 1, k>>]
  /\ UNCHANGED <<running, motor>>

Step ==
  /\ queue # << >>
  /\ motor' = Head(queue)
  /\ queue' = Tail(queue)
  /\ UNCHANGED <<running, accepted>>

Drop ==
  /\ ~running
  /\ queue' = << >>
  /\ UNCHANGED <<running, accepted, motor>>

StopOrStart ==
  /\ running' = ~running
  /\ UNCHANGED <<queue, accepted, motor>>

Next == Accept \/ Step \/ Drop \/ StopOrStart

Spec == Init /\ [][Next]_<<running, queue, accepted, motor>>
=============================================================================
