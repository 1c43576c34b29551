---------------------------- MODULE GrblStepper ----------------------------
(***************************************************************************)
(* The motion path of the Grbl port: the planner's ring of blocks, the     *)
(* ring of step segments st_prep_buffer() checks out of the first block,   *)
(* and the stepper interrupt that executes them.  The main program writes  *)
(* the head of both rings; the interrupt advances the tail of the segment  *)
(* ring and uses st_block_buffer, the copy of the block's step data that   *)
(* outlives the planner's block.                                           *)
(*                                                                         *)
(* Speeds are abstracted: what a step segment holds is how many steps it   *)
(* has and which copy of the step data it uses, and the deceleration of a  *)
(* feed hold may end with any segment.  GrblPlanner has the speeds.        *)
(*                                                                         *)
(* The timer that should call the interrupt is not connected in this port  *)
(* (st_wake_up and st_go_idle carry its register writes as comments); it   *)
(* is modelled as those comments and the callers intend, by `timer'.       *)
(***************************************************************************)
EXTENDS Integers, SequencesExt

CONSTANTS
  BLOCK_BUFFER_SIZE,    \* entries of the planner ring, one of which is empty
  SEGMENT_BUFFER_SIZE,  \* entries of the segment ring, one of which is empty
  StepEvents,           \* step events of a block
  MaxBlocks             \* bound: blocks accepted in a behaviour

ASSUME SizesAssumption ==
  /\ BLOCK_BUFFER_SIZE \in Nat /\ BLOCK_BUFFER_SIZE >= 2
  /\ SEGMENT_BUFFER_SIZE \in Nat /\ SEGMENT_BUFFER_SIZE >= 3
  /\ StepEvents \in Nat \ {0}
  /\ MaxBlocks \in Nat

VARIABLES
  sys_state,            \* sys.state
  rt_state,             \* sys_rt_exec_state, the set of its flags
  block_buffer, block_buffer_head, block_buffer_tail,
  pl_block,             \* the planner block being checked out, or NULL
  prep,                 \* st_prep_t: flag_partial_block, st_block_index, and
                        \* whether current_speed and exit_speed are not 0
  st_block_buffer,      \* the block whose step data each entry holds
  segment_buffer, segment_buffer_head, segment_buffer_tail,
  st,                   \* stepper_t, the state of the interrupt
  timer,                \* the stepper interrupt is enabled
  accepted,             \* history: blocks plan_buffer_line() queued
  motor                 \* history: the step put out last, <<block, n-th step>>

plannerVars == <<block_buffer, block_buffer_head, block_buffer_tail, accepted>>
prepVars    == <<pl_block, prep, st_block_buffer, segment_buffer,
                 segment_buffer_head>>
isrVars     == <<segment_buffer_tail, st, timer, motor>>
motionVars  == <<plannerVars, prepVars, isrVars>>

NULL == -1

Wrap(i, size) == IF i + 1 = size THEN 0 ELSE i + 1

-----------------------------------------------------------------------------
(* planner.c *)

(* Mutant: the index wraps one entry late.                               *)
NextIndexLate(i) == Wrap(i, BLOCK_BUFFER_SIZE + 1)

plan_next_block_index(i) == Wrap(i, BLOCK_BUFFER_SIZE)

plan_get_current_block ==
  IF block_buffer_head = block_buffer_tail THEN NULL ELSE block_buffer_tail

plan_check_full_buffer ==
  block_buffer_tail = plan_next_block_index(block_buffer_head)

PlanReset ==
  /\ block_buffer_head' = 0
  /\ block_buffer_tail' = 0
  /\ UNCHANGED <<block_buffer, accepted>>

\* st_update_plan_block_parameters(): the profile of the block being checked
\* out is to be computed again.
UpdatePlanBlockParameters ==
  /\ pl_block' = NULL
  /\ prep' = [prep EXCEPT !.flag_partial_block = @ \/ pl_block # NULL]

\* plan_buffer_line() with a block that moves.  planner_recalculate() comes back
\* to the first block when it is the only other one; when there are more it
\* depends on speeds.
PlanBufferLine ==
  /\ accepted < MaxBlocks
  /\ accepted' = accepted + 1
  /\ block_buffer' = [block_buffer EXCEPT ![block_buffer_head] =
                        [id |-> accepted + 1, left |-> StepEvents]]
  /\ block_buffer_head' = plan_next_block_index(block_buffer_head)
  /\ \/ plan_get_current_block # NULL /\ UpdatePlanBlockParameters
     \/ /\ block_buffer_head # plan_next_block_index(block_buffer_tail)
        /\ UNCHANGED <<pl_block, prep>>
  /\ UNCHANGED <<block_buffer_tail, st_block_buffer, segment_buffer,
                 segment_buffer_head>>
  /\ UNCHANGED isrVars

-----------------------------------------------------------------------------
(* stepper.c, the main program's side *)

\* st_wake_up() and st_go_idle(), as far as the interrupt is concerned.
WakeUp == timer' = (timer \/ sys_state = "CYCLE")
GoIdle == timer' = FALSE

StReset ==
  /\ GoIdle
  /\ prep' = [flag_partial_block |-> FALSE, st_block_index |-> 0,
              moving |-> FALSE, exit |-> FALSE]
  /\ st' = [exec_segment |-> NULL, step_count |-> 0, exec_block_index |-> 0,
            exec_block |-> NULL, counter |-> 0]
  /\ pl_block' = NULL
  /\ segment_buffer_tail' = 0
  /\ segment_buffer_head' = 0
  /\ UNCHANGED <<st_block_buffer, segment_buffer, motor>>

\* The states of a suspended motion, in which st_prep_buffer() decelerates.
Holding == sys_state \in {"HOLD", "SAFETY_DOOR"}

segment_next_head == Wrap(segment_buffer_head, SEGMENT_BUFFER_SIZE)

\* st_prep_buffer() has nothing to do, or nothing more: the hold has been
\* computed to its end, the segment ring is full, or there is no block.
PrepReturns ==
  \/ Holding /\ ~prep.moving
  \/ segment_buffer_tail = segment_next_head
  \/ pl_block = NULL /\ plan_get_current_block = NULL

(* Mutant: one entry of st_block_buffer less.                            *)
PrepIndexShort ==
  IF pl_block # NULL \/ prep.flag_partial_block
  THEN prep.st_block_index
  ELSE Wrap(prep.st_block_index, SEGMENT_BUFFER_SIZE - 2)

\* The entry of st_block_buffer the next segment uses: a block begun before is
\* continued in its entry, a new one takes the next.
PrepIndex ==
  IF pl_block # NULL \/ prep.flag_partial_block
  THEN prep.st_block_index
  ELSE Wrap(prep.st_block_index, SEGMENT_BUFFER_SIZE - 1)

LoadBlock ==
  st_block_buffer' =
    IF PrepIndex = prep.st_block_index
    THEN st_block_buffer
    ELSE [st_block_buffer EXCEPT
            ![PrepIndex] = block_buffer[block_buffer_tail].id]

\* In a hold a block not begun before is entered with the exit speed of the one
\* before it; when that is 0 the hold ends where it is.
FromRest ==
  Holding /\ PrepIndex # prep.st_block_index /\ ~prep.exit

\* Whether the exit speed is 0 is decided when a profile is computed, by the next
\* block or, in a hold, by whether its deceleration goes through this one.  It is
\* 0 at the end of the last block in a hold too: the plan ends at rest, and a
\* hold leaves no block faster than the plan (HoldStopsInTime of
\* GrblPlanner_proofs).
ExitSpeeds ==
  IF pl_block # NULL THEN {prep.exit}
  ELSE {FALSE, plan_next_block_index(block_buffer_tail) # block_buffer_head}

\* A segment of n steps becomes visible to the interrupt.
PublishSegment(n) ==
  /\ segment_buffer' = [segment_buffer EXCEPT ![segment_buffer_head] =
                          [st_block_index |-> PrepIndex, n_step |-> n]]
  /\ segment_buffer_head' = segment_next_head

\* One turn of the loop of st_prep_buffer() that leaves steps of the block for
\* another segment.
PrepSegment(n) ==
  /\ ~PrepReturns /\ ~FromRest
  /\ n < block_buffer[block_buffer_tail].left
  /\ LoadBlock
  /\ PublishSegment(n)
  /\ block_buffer' = [block_buffer EXCEPT ![block_buffer_tail].left = @ - n]
  /\ pl_block' = block_buffer_tail
  /\ \E exit \in ExitSpeeds :
       prep' = [flag_partial_block |-> FALSE, st_block_index |-> PrepIndex,
                moving |-> TRUE, exit |-> exit]
  /\ UNCHANGED <<block_buffer_head, block_buffer_tail, accepted>>

\* One turn that checks out the last steps and discards the block.
PrepBlockEnd ==
  /\ ~PrepReturns /\ ~FromRest
  /\ LoadBlock
  /\ PublishSegment(block_buffer[block_buffer_tail].left)
  /\ block_buffer_tail' = plan_next_block_index(block_buffer_tail)
  /\ pl_block' = NULL
  /\ \E exit \in ExitSpeeds :
       prep' = [flag_partial_block |-> FALSE, st_block_index |-> PrepIndex,
                moving |-> TRUE, exit |-> exit]
  /\ UNCHANGED <<block_buffer, block_buffer_head, accepted>>

\* The turn in which a feed hold comes to its end inside the block, with a
\* last segment of n steps or with none.  plan_cycle_reinitialize() has the
\* rest of the block computed again when the cycle resumes.
PrepHoldEnd(n) ==
  /\ ~PrepReturns
  /\ Holding /\ FALSE \in ExitSpeeds
  /\ FromRest => n = 0
  /\ n < block_buffer[block_buffer_tail].left
  /\ LoadBlock
  /\ IF n = 0 THEN UNCHANGED <<segment_buffer, segment_buffer_head>>
              ELSE PublishSegment(n)
  /\ block_buffer' = [block_buffer EXCEPT ![block_buffer_tail].left = @ - n]
  /\ pl_block' = NULL
  /\ prep' = [flag_partial_block |-> TRUE, st_block_index |-> PrepIndex,
              moving |-> FALSE, exit |-> FALSE]
  /\ UNCHANGED <<block_buffer_head, block_buffer_tail, accepted>>

-----------------------------------------------------------------------------
(* timer_1_interrupt(), the stepper interrupt *)

(* Mutant: the interrupt reports the stop and stays enabled.             *)
RunsDryEnabled ==
  /\ timer
  /\ st.exec_segment = NULL
  /\ segment_buffer_head = segment_buffer_tail
  /\ rt_state' = rt_state \cup {"CYCLE_STOP"}
  /\ UNCHANGED <<timer, segment_buffer_tail, st, motor>>

(* Mutant: it stops and tells nobody.                                    *)
RunsDrySilently ==
  /\ timer
  /\ st.exec_segment = NULL
  /\ segment_buffer_head = segment_buffer_tail
  /\ GoIdle
  /\ UNCHANGED <<rt_state, segment_buffer_tail, st, motor>>

\* The segment ring is empty: stop, and tell the main program.
StepperRunsDry ==
  /\ timer
  /\ st.exec_segment = NULL
  /\ segment_buffer_head = segment_buffer_tail
  /\ GoIdle
  /\ rt_state' = rt_state \cup {"CYCLE_STOP"}
  /\ UNCHANGED <<segment_buffer_tail, st, motor>>

\* The interrupt's state once it has a segment to execute.
WithSegment ==
  LET segment  == segment_buffer[segment_buffer_tail]
      newBlock == segment.st_block_index # st.exec_block_index
  IN  IF st.exec_segment # NULL THEN st
      ELSE [exec_segment     |-> segment_buffer_tail,
            step_count       |-> segment.n_step,
            exec_block_index |-> segment.st_block_index,
            exec_block |-> IF newBlock THEN segment.st_block_index
                                       ELSE st.exec_block,
            counter    |-> IF newBlock THEN 0 ELSE st.counter]

\* One step event of the segment being executed.
StepperSteps ==
  /\ timer
  /\ st.exec_segment # NULL \/ segment_buffer_head # segment_buffer_tail
  /\ LET s    == WithSegment
         last == s.step_count = 1
     IN  /\ motor' = <<st_block_buffer[s.exec_block], s.counter + 1>>
         /\ st' = [s EXCEPT !.exec_segment = IF last THEN NULL ELSE @,
                            !.step_count = @ - 1,
                            !.counter = @ + 1]
         /\ segment_buffer_tail' =
              IF last THEN Wrap(segment_buffer_tail, SEGMENT_BUFFER_SIZE)
                      ELSE segment_buffer_tail
  /\ UNCHANGED <<timer, rt_state>>

-----------------------------------------------------------------------------
InitMotion ==
  /\ block_buffer = [i \in 0 .. BLOCK_BUFFER_SIZE - 1 |->
                       [id |-> 0, left |-> 0]]
  /\ block_buffer_head = 0 /\ block_buffer_tail = 0
  /\ pl_block = NULL
  /\ prep = [flag_partial_block |-> FALSE, st_block_index |-> 0,
             moving |-> FALSE, exit |-> FALSE]
  /\ st_block_buffer = [i \in 0 .. SEGMENT_BUFFER_SIZE - 2 |-> 0]
  /\ segment_buffer = [i \in 0 .. SEGMENT_BUFFER_SIZE - 1 |->
                         [st_block_index |-> 0, n_step |-> 0]]
  /\ segment_buffer_head = 0 /\ segment_buffer_tail = 0
  /\ st = [exec_segment |-> NULL, step_count |-> 0, exec_block_index |-> 0,
           exec_block |-> NULL, counter |-> 0]
  /\ timer = FALSE
  /\ accepted = 0
  /\ motor = <<0, 0>>

MotionTypeOK ==
  /\ block_buffer \in [0 .. BLOCK_BUFFER_SIZE - 1 ->
                         [id : 0 .. MaxBlocks, left : 0 .. StepEvents]]
  /\ block_buffer_head \in 0 .. BLOCK_BUFFER_SIZE - 1
  /\ block_buffer_tail \in 0 .. BLOCK_BUFFER_SIZE - 1
  /\ pl_block \in {NULL} \cup 0 .. BLOCK_BUFFER_SIZE - 1
  /\ prep \in [flag_partial_block : BOOLEAN, moving : BOOLEAN, exit : BOOLEAN,
               st_block_index : 0 .. SEGMENT_BUFFER_SIZE - 2]
  /\ st_block_buffer \in [0 .. SEGMENT_BUFFER_SIZE - 2 -> 0 .. MaxBlocks]
  /\ segment_buffer \in [0 .. SEGMENT_BUFFER_SIZE - 1 ->
                           [st_block_index : 0 .. SEGMENT_BUFFER_SIZE - 2,
                            n_step : 0 .. StepEvents]]
  /\ segment_buffer_head \in 0 .. SEGMENT_BUFFER_SIZE - 1
  /\ segment_buffer_tail \in 0 .. SEGMENT_BUFFER_SIZE - 1
  /\ st \in [exec_segment : {NULL} \cup 0 .. SEGMENT_BUFFER_SIZE - 1,
             step_count : 0 .. StepEvents,
             exec_block_index : 0 .. SEGMENT_BUFFER_SIZE - 2,
             exec_block : {NULL} \cup 0 .. SEGMENT_BUFFER_SIZE - 2,
             counter : 0 .. StepEvents]
  /\ timer \in BOOLEAN
  /\ accepted \in 0 .. MaxBlocks
  /\ motor \in (0 .. MaxBlocks) \X (0 .. StepEvents)

-----------------------------------------------------------------------------
(* The steps on their way to the motors, in the order they are to be taken. *)

Copies(id, n) == [k \in 1 .. n |-> id]

SegmentSteps ==
  LET count == (segment_buffer_head - segment_buffer_tail) % SEGMENT_BUFFER_SIZE
      index(i) == (segment_buffer_tail + i - 1) % SEGMENT_BUFFER_SIZE
      steps(i) == IF i = 1 /\ st.exec_segment # NULL
                  THEN st.step_count ELSE segment_buffer[index(i)].n_step
  IN  FlattenSeq([i \in 1 .. count |->
        Copies(st_block_buffer[segment_buffer[index(i)].st_block_index],
               steps(i))])

PlannedSteps ==
  LET count == (block_buffer_head - block_buffer_tail) % BLOCK_BUFFER_SIZE
      block(i) == block_buffer[(block_buffer_tail + i - 1) % BLOCK_BUFFER_SIZE]
  IN  FlattenSeq([i \in 1 .. count |-> Copies(block(i).id, block(i).left)])

\* Each with its number in its block; the last step of a block is StepEvents.
Pending ==
  LET ids == SegmentSteps \o PlannedSteps
      from(i) == {j \in i .. Len(ids) : ids[j] = ids[i]}
  IN  [i \in 1 .. Len(ids) |->
         <<ids[i], StepEvents - Cardinality(from(i)) + 1>>]
=============================================================================
