---------------------------- MODULE GrblPlanner ----------------------------
(***************************************************************************)
(* The speeds of the Grbl port: the look-ahead of planner.c over its ring  *)
(* of blocks, and the profiles st_prep_buffer() computes for the first of  *)
(* them, on which the planner's newer results have to be imposed while it  *)
(* is executed.  GrblProtocol has the interleavings; here a step is one    *)
(* call.                                                                   *)
(*                                                                         *)
(* Speeds are squared, as in the code, and the unit of distance is the one *)
(* over which they change by 1 at the axes' acceleration: 2 * acceleration *)
(* is 1, and a block of mm may gain or lose mm.  Square roots and rounding *)
(* are left out with that.                                                 *)
(***************************************************************************)
EXTENDS Integers, FiniteSetsExt

CONSTANTS
  BLOCK_BUFFER_SIZE,  \* entries of the planner ring, one of which is empty
  Lengths,            \* lengths of a block
  NominalSpeeds,      \* the nominal speed of a block, squared
  JunctionSpeeds      \* what the angle at its beginning allows, squared

ASSUME PlannerAssumption ==
  /\ BLOCK_BUFFER_SIZE \in Nat /\ BLOCK_BUFFER_SIZE >= 2
  /\ Lengths \subseteq Nat \ {0} /\ NominalSpeeds \subseteq Nat \ {0}
  /\ JunctionSpeeds \subseteq Nat

\* Lengths and speeds are floats, and there are that many of those; this is what
\* the bounds of the types rest on, and nothing else does.
ASSUME FinitelyMany ==
  /\ IsFiniteSet(Lengths) /\ Lengths # {}
  /\ IsFiniteSet(NominalSpeeds) /\ NominalSpeeds # {}

VARIABLES
  sys_state,             \* sys.state
  block_buffer, block_buffer_head, block_buffer_tail,
  block_buffer_planned,  \* the first block that may still be improved
  previous_nominal,      \* pl.previous_nominal_speed_sqr
  loaded,                \* pl_block # NULL: the first block has a profile
  partial,               \* prep.flag_partial_block
  current_speed,         \* prep.current_speed, at the end of the last segment
  exit_speed             \* prep.exit_speed, at the end of the block

prepVars == <<loaded, partial, current_speed, exit_speed>>
vars == <<sys_state, block_buffer, block_buffer_head, block_buffer_tail,
          block_buffer_planned, previous_nominal, prepVars>>

(* Mutant: the index wraps one entry late.                               *)
NextIndexLate(i) == IF i = BLOCK_BUFFER_SIZE THEN 0 ELSE i + 1

plan_next_block_index(i) == IF i + 1 = BLOCK_BUFFER_SIZE THEN 0 ELSE i + 1

Index(i, k) == (i + k) % BLOCK_BUFFER_SIZE          \* the k-th entry after i
Distance(i, j) == (j - i) % BLOCK_BUFFER_SIZE

Empty == block_buffer_head = block_buffer_tail

plan_check_full_buffer ==
  block_buffer_tail = plan_next_block_index(block_buffer_head)

First == block_buffer[block_buffer_tail]

\* Of an entry of the ring that holds no block only the entry speed is ever read.
Discarded(block) ==
  [mm |-> 0, entry |-> block.entry, max_entry |-> 0, nominal |-> 0]

\* plan_get_exec_block_exit_speed(): no block after it, no speed.
PlannedExit ==
  LET next == plan_next_block_index(block_buffer_tail)
  IN  IF next = block_buffer_head THEN 0 ELSE block_buffer[next].entry

-----------------------------------------------------------------------------
(* planner_recalculate(), of the blocks of `ring' between the planned pointer *)
(* and head, counted from the planned one; n is the last.                     *)

(* Mutant: the last block need not end at rest.                          *)
ReverseUnstopped(ring, planned, n) ==
  LET block(k) == ring[Index(planned, k)]
  IN  [k \in 1 .. n |-> block(k).max_entry]

\* The reverse pass: the entry speed from which each block can brake to the next
\* one's.  A speed at its maximum cannot be improved.
Reverse(ring, planned, n) ==
  LET block(k) == ring[Index(planned, k)]
      entry[k \in 1 .. n] ==
        IF k = n THEN Min({block(k).max_entry, block(k).mm})
        ELSE IF block(k).entry = block(k).max_entry THEN block(k).entry
        ELSE Min({block(k).max_entry, entry[k + 1] + block(k).mm})
  IN  entry

\* The forward pass: no more than acceleration over the block before gives.
Forward(ring, planned, n) ==
  LET reverse == Reverse(ring, planned, n)
      entry[k \in 0 .. n] ==
        IF k = 0 THEN ring[planned].entry
        ELSE IF entry[k - 1] < reverse[k]
        THEN Min({reverse[k], entry[k - 1] + ring[Index(planned, k - 1)].mm})
        ELSE reverse[k]
  IN  entry

(* Mutant: any acceleration makes a block final.                         *)
BreakpointsAtAcceleration(ring, planned, n) ==
  LET forward == Forward(ring, planned, n)
  IN  {k \in 1 .. n : \/ forward[k - 1] < forward[k]
                      \/ forward[k] = ring[Index(planned, k)].max_entry}

\* The blocks up to which nothing appended later can improve the plan: those
\* reached by full acceleration and those entered at their maximum.
Breakpoints(ring, planned, n) ==
  LET reverse == Reverse(ring, planned, n)
      forward == Forward(ring, planned, n)
  IN  {k \in 1 .. n : \/ forward[k] < reverse[k]
                      \/ forward[k] = ring[Index(planned, k)].max_entry}

\* st_update_plan_block_parameters(): a block being executed is planned again
\* from the speed it has.
Updated(ring) ==
  IF loaded THEN [ring EXCEPT ![block_buffer_tail].entry = current_speed']
            ELSE ring

(* Mutant: the stepper keeps the profile it has.                         *)
KeepPlanBlockParameters == UNCHANGED <<loaded, partial>>

UpdatePlanBlockParameters ==
  /\ loaded' = FALSE
  /\ partial' = (partial \/ loaded)

Recalculate(ring, planned, head) ==
  LET n        == Distance(planned, head) - 1
      notifies == n > 0 /\ planned = block_buffer_tail
      base     == IF notifies THEN Updated(ring) ELSE ring
      forward  == Forward(base, planned, n)
      after    == [k \in 0 .. n |-> Index(planned, k)]
  IN  IF n = 0
      THEN block_buffer' = ring /\ block_buffer_planned' = planned
      ELSE /\ block_buffer' = [i \in DOMAIN ring |->
                IF \E k \in 1 .. n : after[k] = i
                THEN [base[i] EXCEPT !.entry = forward[Distance(planned, i)]]
                ELSE base[i]]
           /\ block_buffer_planned' =
                after[Max({0} \cup Breakpoints(base, planned, n))]

-----------------------------------------------------------------------------
(* What the main program does with the planner. *)

\* plan_buffer_line().  A block that begins from rest has no junction; the entry
\* speed of any other is whatever its entry of the ring held, until
\* planner_recalculate() sets it.  No line is planned while the system is held.
PlanBufferLine(mm, nominal, junction) ==
  LET block == [mm        |-> mm,
                entry     |-> IF Empty THEN 0
                              ELSE block_buffer[block_buffer_head].entry,
                max_entry |-> Min({IF Empty THEN 0 ELSE junction, nominal,
                                   previous_nominal}),
                nominal   |-> nominal]
      head  == plan_next_block_index(block_buffer_head)
      ring  == [block_buffer EXCEPT ![block_buffer_head] = block]
  IN  /\ sys_state # "HOLD"
      /\ ~plan_check_full_buffer
      /\ previous_nominal' = nominal
      /\ block_buffer_head' = head
      /\ UNCHANGED <<sys_state, block_buffer_tail, current_speed, exit_speed>>
      /\ IF block_buffer_planned = block_buffer_tail /\ ~Empty
         THEN UpdatePlanBlockParameters
         ELSE UNCHANGED <<loaded, partial>>
      /\ Recalculate(ring, block_buffer_planned, head)

\* A cycle start, of an idle system or of a hold that has been computed to its
\* end.
CycleStart ==
  /\ sys_state = "IDLE" \/ (sys_state = "HOLD" /\ (current_speed = 0 \/ Empty))
  /\ sys_state' = IF Empty THEN "IDLE" ELSE "CYCLE"
  /\ UNCHANGED <<block_buffer, block_buffer_head, block_buffer_tail,
                 block_buffer_planned, previous_nominal, prepVars>>

\* The steppers have executed everything there was.
CycleStop ==
  /\ sys_state = "CYCLE" /\ Empty
  /\ sys_state' = "IDLE"
  /\ UNCHANGED <<block_buffer, block_buffer_head, block_buffer_tail,
                 block_buffer_planned, previous_nominal, prepVars>>

FeedHold ==
  /\ sys_state \in {"IDLE", "CYCLE"}
  /\ sys_state' = "HOLD"
  /\ UNCHANGED <<current_speed, exit_speed>>
  /\ IF sys_state = "CYCLE"
     THEN UpdatePlanBlockParameters /\ block_buffer' = Updated(block_buffer)
     ELSE UNCHANGED <<loaded, partial, block_buffer>>
  /\ UNCHANGED <<block_buffer_head, block_buffer_tail, block_buffer_planned,
                 previous_nominal>>

\* plan_reset() and st_reset().
Reset ==
  /\ sys_state' = "IDLE"
  /\ block_buffer_head' = 0 /\ block_buffer_tail' = 0
  /\ block_buffer_planned' = 0
  /\ previous_nominal' = 0
  /\ loaded' = FALSE /\ partial' = FALSE
  /\ current_speed' = 0 /\ exit_speed' = 0
  /\ block_buffer' = [i \in DOMAIN block_buffer |-> Discarded(block_buffer[i])]

-----------------------------------------------------------------------------
(* st_prep_buffer(): a segment at a time. *)

\* Called in a state of motion only, it returns at once when no block is left or
\* the hold has been computed to its end.
Preparing ==
  /\ sys_state # "IDLE" /\ ~Empty
  /\ sys_state = "HOLD" => current_speed # 0

\* The speed the segment starts with: a new block is entered as planned, or in a
\* hold with the exit speed of the one before it.
StartSpeed ==
  IF loaded \/ partial THEN current_speed
  ELSE IF sys_state = "HOLD" THEN exit_speed ELSE First.entry

\* The exit speed of the profile: in a hold the one braking through the block
\* leaves.
ExitSpeed ==
  IF loaded THEN exit_speed
  ELSE IF sys_state = "HOLD" THEN Max({0, StartSpeed - First.mm})
  ELSE PlannedExit

\* The speed d further on: a hold brakes, and so does a profile that has to; any
\* other accelerates, cruises at the nominal speed and brakes for its exit.
SpeedAfter(d) ==
  IF sys_state = "HOLD" \/ StartSpeed - ExitSpeed >= First.mm
  THEN StartSpeed - d
  ELSE Min({StartSpeed + d, First.nominal, ExitSpeed + First.mm - d})

\* In a hold a block not begun before is given the speed it is entered with.
Entered ==
  IF sys_state = "HOLD" /\ ~loaded
  THEN [block_buffer EXCEPT ![block_buffer_tail].entry = StartSpeed]
  ELSE block_buffer

(* Mutant: the planned pointer is left behind.                           *)
DiscardTailOnly ==
  /\ block_buffer_tail' = plan_next_block_index(block_buffer_tail)
  /\ UNCHANGED block_buffer_planned

\* plan_discard_current_block(), which pushes the planned pointer on.
DiscardCurrentBlock ==
  LET next == plan_next_block_index(block_buffer_tail)
  IN  /\ block_buffer_tail' = next
      /\ block_buffer_planned' =
           IF block_buffer_tail = block_buffer_planned
           THEN next ELSE block_buffer_planned

\* A segment that ends inside the block.
PrepSegment ==
  \E d \in 1 .. First.mm - 1 :
    /\ Preparing
    /\ sys_state = "HOLD" => d < StartSpeed
    /\ block_buffer' = [Entered EXCEPT ![block_buffer_tail].mm = @ - d]
    /\ loaded' = TRUE /\ partial' = FALSE
    /\ current_speed' = SpeedAfter(d)
    /\ exit_speed' = ExitSpeed
    /\ UNCHANGED <<sys_state, block_buffer_head, block_buffer_tail,
                   block_buffer_planned, previous_nominal>>

\* The last segment of a block, and plan_discard_current_block().  What is left
\* in current_speed is a speed before the last ramp, which is not 0.
PrepBlockEnd ==
  /\ Preparing
  /\ sys_state = "HOLD" => StartSpeed >= First.mm
  /\ loaded' = FALSE /\ partial' = FALSE
  /\ current_speed' = Max({1, ExitSpeed})
  /\ exit_speed' = ExitSpeed
  /\ block_buffer' = [Entered EXCEPT ![block_buffer_tail] = Discarded(@)]
  /\ DiscardCurrentBlock
  /\ UNCHANGED <<sys_state, block_buffer_head, previous_nominal>>

\* The hold ends inside the block: plan_cycle_reinitialize() plans everything
\* again from rest.
PrepHoldEnd ==
  /\ Preparing
  /\ sys_state = "HOLD" /\ StartSpeed < First.mm
  /\ loaded' = FALSE /\ partial' = TRUE
  /\ current_speed' = 0
  /\ exit_speed' = 0
  /\ Recalculate([block_buffer EXCEPT ![block_buffer_tail].entry = 0,
                                      ![block_buffer_tail].mm = @ - StartSpeed],
                 block_buffer_tail, block_buffer_head)
  /\ UNCHANGED <<sys_state, block_buffer_head, block_buffer_tail,
                 previous_nominal>>

-----------------------------------------------------------------------------
Init ==
  /\ sys_state = "IDLE"
  /\ block_buffer = [i \in 0 .. BLOCK_BUFFER_SIZE - 1 |->
                       Discarded([entry |-> 0])]
  /\ block_buffer_head = 0 /\ block_buffer_tail = 0
  /\ block_buffer_planned = 0
  /\ previous_nominal = 0
  /\ loaded = FALSE /\ partial = FALSE
  /\ current_speed = 0 /\ exit_speed = 0

Next ==
  \/ \E mm \in Lengths, nominal \in NominalSpeeds, junction \in JunctionSpeeds :
       PlanBufferLine(mm, nominal, junction)
  \/ CycleStart \/ CycleStop \/ FeedHold \/ Reset
  \/ PrepSegment \/ PrepBlockEnd \/ PrepHoldEnd

Spec == Init /\ [][Next]_vars

-----------------------------------------------------------------------------
TypeOK ==
  LET speeds == 0 .. Max(NominalSpeeds)
  IN  /\ sys_state \in {"IDLE", "CYCLE", "HOLD"}
      /\ block_buffer \in [0 .. BLOCK_BUFFER_SIZE - 1 ->
                             [mm : 0 .. Max(Lengths), entry : speeds,
                              max_entry : speeds, nominal : speeds]]
      /\ block_buffer_head \in 0 .. BLOCK_BUFFER_SIZE - 1
      /\ block_buffer_tail \in 0 .. BLOCK_BUFFER_SIZE - 1
      /\ block_buffer_planned \in 0 .. BLOCK_BUFFER_SIZE - 1
      /\ previous_nominal \in speeds
      /\ loaded \in BOOLEAN /\ partial \in BOOLEAN
      /\ current_speed \in speeds /\ exit_speed \in speeds

\* The planned pointer stays on a block of the queue, or with the tail when
\* there is none: "can never be less than block_buffer_tail".  Beyond it the
\* entry speed of a new block would be the one its entry of the ring held.
PlannedInRange ==
  IF Empty THEN block_buffer_planned = block_buffer_tail
  ELSE Distance(block_buffer_tail, block_buffer_planned)
         < Distance(block_buffer_tail, block_buffer_head)

\* The speed the machine has, or will have when it enters the first block.
SpeedNow == IF loaded \/ partial THEN current_speed ELSE First.entry

Last == Distance(block_buffer_tail, block_buffer_head) - 1
Block(k) == block_buffer[Index(block_buffer_tail, k)]
EntrySpeed(k) == CASE k = 0    -> SpeedNow
                   [] k > Last -> 0
                   [] OTHER    -> Block(k).entry

\* Whatever has been queued and executed, the machine can follow the plan: each
\* junction is reached from the one before it by no more than its acceleration,
\* the last block ends at rest, and no junction is taken faster than its angle
\* and its two blocks allow.
PlanFeasible ==
  sys_state # "HOLD" =>
    \A k \in 0 .. Last :
      /\ EntrySpeed(k) <= EntrySpeed(k + 1) + Block(k).mm
      /\ EntrySpeed(k + 1) <= EntrySpeed(k) + Block(k).mm
      /\ k > 0 => Block(k).entry <= Block(k).max_entry

\* "The plan is optimal and no further speed improvements are possible": the
\* blocks skipped for being optimally planned are those a complete
\* recalculation, from the first block on, would not change.
PlanOptimal ==
  sys_state # "HOLD" /\ ~Empty =>
    LET fresh == [i \in DOMAIN block_buffer |->
                    [block_buffer[i] EXCEPT
                       !.entry = IF i = block_buffer_tail THEN SpeedNow ELSE -1]]
    IN  \A k \in 1 .. Last :
          Block(k).entry = Forward(fresh, block_buffer_tail, Last)[k]

\* The profile being executed ends with the speed the next block begins with:
\* the planner never changes the junction of a block under execution without
\* having its profile computed again.
ProfileMatchesPlan ==
  sys_state = "CYCLE" /\ loaded => exit_speed = PlannedExit
=============================================================================
