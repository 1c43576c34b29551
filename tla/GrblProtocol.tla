---------------------------- MODULE GrblProtocol ----------------------------
(***************************************************************************)
(* The main program of the Grbl port and its interrupts: main() and its    *)
(* initialisation loop, the main loop that reads and executes lines, the   *)
(* real-time checkpoint protocol_execute_realtime() that every wait calls, *)
(* the serial interrupt that sets real-time flags and queues characters,   *)
(* and the stepper interrupt of GrblStepper.                               *)
(*                                                                         *)
(* An interrupt runs to completion between any two steps of the main       *)
(* program.  The main program is split (pc) at its accesses to what an     *)
(* interrupt reads or writes: the two flag sets, sys.state and sys.suspend *)
(* (read by mc_reset), the rings.  caller says which loop called the       *)
(* checkpoint, and so what happens when it returns.                        *)
(*                                                                         *)
(* A line is one token of the receive ring, by what executing it does.     *)
(* Nothing in this port sets the motion cancel, homing and probe flags, so *)
(* their branches are left out.  The safety door has no input pin in this  *)
(* port: its flag is set by the operator's @, and the door is never ajar.  *)
(***************************************************************************)
EXTENDS GrblStepper

CONSTANTS
  RX_BUFFER_SIZE,  \* entries of the receive ring, one of which is empty
  SegmentSizes,    \* steps a segment may have when the block has more
  LineKinds,       \* what a line may be
  Characters,      \* the real-time characters the operator uses
  HomingLock,      \* HOMING_INIT_LOCK and $22: power-up ends in ALARM
  MaxInputs        \* bound: lines and real-time characters received

ASSUME ProtocolAssumption ==
  /\ RX_BUFFER_SIZE \in Nat /\ RX_BUFFER_SIZE >= 2
  /\ SegmentSizes \subseteq 1 .. StepEvents /\ 1 \in SegmentSizes
  /\ LineKinds \subseteq {"move", "outside", "dwell", "$X", "$C"}
  /\ Characters \subseteq {"?", "~", "!", "@", "^X"}
  /\ HomingLock \in BOOLEAN
  /\ MaxInputs \in Nat

VARIABLES
  pc,          \* where the main program is
  caller,      \* who called protocol_execute_realtime()
  rt_exec,     \* its copy of the flags, those not dealt with yet
  rt_alarm,    \* sys_rt_exec_alarm
  abort, suspend, soft_limit,    \* members of sys
  rx,          \* lines in the receive ring
  line,        \* the line being executed
  inputs,      \* lines and real-time characters received
  asked,       \* history: a ~ of the operator is behind CYCLE_START
  killed,      \* history: mc_reset() stopped moving motors
  gap,         \* history: a reset fell into one of three gaps, see McReset
  starved      \* history: the main program was too slow, see StepperInterrupt

\* sys.state is one of motion, or of a motion suspended.
Busy == sys_state = "CYCLE" \/ Holding

rtVars   == <<pc, caller, rt_exec>>
sysVars  == <<abort, suspend, soft_limit>>
hostVars == <<rx, line, inputs>>
history  == <<asked, killed, gap, starved>>
vars == <<sys_state, rt_state, motionVars, rtVars, rt_alarm, sysVars, hostVars,
          history>>

InitSteps     == {"init_serial", "init_motion", "init_flags", "init_alarm",
                  "init_sys"}
CopiedSteps   == {"status", "hold", "start", "start_prep", "wake", "stop"}
RealtimeSteps == CopiedSteps \cup {"alarm", "critical", "clear_alarm", "copy",
                                   "reload", "return"}
OtherSteps    == {"read", "execute", "soft_reset"}

Callers == {"loop", "line", "mc_line", "sync", "dwell", "soft_limit",
            "soft_reset"}

-----------------------------------------------------------------------------
(* mc_reset(), from the serial interrupt or the main program. *)

(* Mutant: a hold that is still braking is not a motion.                 *)
InMotionCycle == sys_state = "CYCLE"

InMotion == sys_state = "CYCLE" \/ suspend = {"ENABLE_HOLD"}

\* Deceleration for the safety door: sys.suspend has ENERGIZE as well, which the
\* test above does not take for a hold.
BrakesForDoor == sys_state = "SAFETY_DOOR" /\ timer

\* The motors are killed only in a state of motion, and then an alarm says so;
\* the soft limit check raises further alarms right after it.
\* Three gaps are recorded: between the checkpoint's reading of the alarm flags
\* and of the state flags, from the copy of a CYCLE_START until it has been
\* acted upon, and while the motors brake for the safety door.
McReset(alarms) ==
  IF "RESET" \in rt_state
  THEN /\ rt_alarm' = rt_alarm \cup alarms
       /\ UNCHANGED <<rt_state, timer, killed, gap>>
  ELSE /\ rt_state' = rt_state \cup {"RESET"}
       /\ rt_alarm' = rt_alarm \cup alarms
            \cup (IF InMotion THEN {"ABORT_CYCLE"} ELSE {})
       /\ IF InMotion THEN GoIdle ELSE UNCHANGED timer
       /\ killed' = (killed \/ (InMotion /\ timer))
       /\ gap' = (\/ gap \/ pc = "copy" \/ "CYCLE_START" \in rt_exec
                  \/ BrakesForDoor)

-----------------------------------------------------------------------------
(* The interrupts. *)

\* serial_data_received() with the end of a line: dropped if the ring is full.
ReceiveLine ==
  /\ inputs < MaxInputs
  /\ inputs' = inputs + 1
  /\ \E kind \in LineKinds :
       rx' = IF Len(rx) < RX_BUFFER_SIZE - 1 THEN Append(rx, kind) ELSE rx
  /\ UNCHANGED <<sys_state, rt_state, motionVars, rtVars, rt_alarm, sysVars,
                 line, history>>

Flag == [c \in {"?", "~", "!", "@"} |-> CASE c = "?" -> "STATUS_REPORT"
                                          [] c = "~" -> "CYCLE_START"
                                          [] c = "!" -> "FEED_HOLD"
                                          [] OTHER   -> "SAFETY_DOOR"]

\* serial_data_received() with a real-time character.
ReceiveCharacter(c) ==
  /\ inputs < MaxInputs
  /\ inputs' = inputs + 1
  /\ IF c = "^X"
     THEN McReset({}) /\ UNCHANGED asked
     ELSE /\ rt_state' = rt_state \cup {Flag[c]}
          /\ asked' = (asked \/ c = "~")
          /\ UNCHANGED <<rt_alarm, timer, killed, gap>>
  /\ UNCHANGED <<sys_state, plannerVars, prepVars, segment_buffer_tail, st,
                 motor, rtVars, sysVars, rx, line, starved>>

\* timer_1_interrupt().  st_prep_buffer() is written to be called often enough
\* for the segments never to run out while there is a block to take some from;
\* whether they did is recorded.
StepperInterrupt ==
  /\ \/ /\ StepperRunsDry
        /\ starved' = (starved \/ (/\ plan_get_current_block # NULL
                                   /\ Holding => prep.moving))
     \/ StepperSteps /\ UNCHANGED starved
  /\ UNCHANGED <<sys_state, plannerVars, prepVars, rtVars, rt_alarm, sysVars,
                 hostVars, asked, killed, gap>>

-----------------------------------------------------------------------------
(* main(): every abort comes back here. *)

Goto(from, to) == pc = from /\ pc' = to

\* A call of protocol_execute_realtime().
CallRealtime(by) == pc' = "alarm" /\ caller' = by /\ UNCHANGED rt_exec

InitSerial ==
  /\ Goto("init_serial", "init_motion")
  /\ rx' = << >>
  /\ UNCHANGED <<sys_state, rt_state, motionVars, caller, rt_exec, rt_alarm,
                 sysVars, line, inputs, history>>

\* plan_reset(), st_reset(), and sys.abort = false, which no interrupt reads.
InitMotionPath ==
  /\ Goto("init_motion", "init_flags")
  /\ PlanReset
  /\ StReset
  /\ abort' = FALSE
  /\ UNCHANGED <<sys_state, rt_state, caller, rt_exec, rt_alarm, suspend,
                 soft_limit, hostVars, history>>

InitFlags ==
  /\ Goto("init_flags", "init_alarm")
  /\ rt_state' = {}
  /\ asked' = FALSE
  /\ UNCHANGED <<sys_state, motionVars, caller, rt_exec, rt_alarm, sysVars,
                 hostVars, killed, gap, starved>>

InitAlarm ==
  /\ Goto("init_alarm", "init_sys")
  /\ rt_alarm' = {}
  /\ UNCHANGED <<sys_state, rt_state, motionVars, caller, rt_exec, sysVars,
                 hostVars, history>>

\* The rest of the initialisation and the head of protocol_main_loop(): an
\* alarm survives, any other state becomes IDLE.
InitSys ==
  /\ Goto("init_sys", "read")
  /\ suspend' = {}
  /\ soft_limit' = FALSE
  /\ sys_state' = IF sys_state = "ALARM" THEN "ALARM" ELSE "IDLE"
  /\ killed' = FALSE
  /\ gap' = FALSE
  /\ starved' = FALSE
  /\ UNCHANGED <<rt_state, motionVars, caller, rt_exec, rt_alarm, abort,
                 hostVars, asked>>

-----------------------------------------------------------------------------
(* protocol_execute_realtime() *)

\* Alarm flags are dealt with first.  A critical one withdraws any reset and
\* then blocks until the next.
RtAlarm ==
  /\ pc = "alarm"
  /\ IF rt_alarm = {}
     THEN pc' = "copy" /\ UNCHANGED <<sys_state, rt_state>>
     ELSE /\ sys_state' = "ALARM"
          /\ IF "CRITICAL_EVENT" \in rt_alarm
             THEN /\ pc' = "critical"
                  /\ rt_state' = rt_state \ {"RESET"}
             ELSE /\ pc' = "clear_alarm"
                  /\ UNCHANGED rt_state
  /\ UNCHANGED <<motionVars, caller, rt_exec, rt_alarm, sysVars, hostVars,
                 history>>

RtCritical ==
  /\ Goto("critical", "clear_alarm")
  /\ "RESET" \in rt_state
  /\ UNCHANGED <<sys_state, rt_state, motionVars, caller, rt_exec, rt_alarm,
                 sysVars, hostVars, history>>

RtClearAlarm ==
  /\ Goto("clear_alarm", "copy")
  /\ rt_alarm' = {}
  /\ UNCHANGED <<sys_state, rt_state, motionVars, caller, rt_exec, sysVars,
                 hostVars, history>>

HoldFlags == {"FEED_HOLD", "SAFETY_DOOR"}

\* The branches follow one another in this order, each for its flags.
Branch == <<"status", "hold", "start", "stop">>
BranchFlags ==
  <<{"STATUS_REPORT"}, HoldFlags, {"CYCLE_START"}, {"CYCLE_STOP"}>>

\* The first branch from the i-th on that the copied flags ask for.
BranchFrom(i, flags) ==
  LET asks == {j \in i .. 4 : BranchFlags[j] \cap flags # {}}
  IN  IF asks = {} THEN "reload" ELSE Branch[Min(asks)]

\* The copy of the flags; a reset is all that is acted upon then.
RtCopy ==
  /\ pc = "copy"
  /\ IF "RESET" \in rt_state
     THEN /\ abort' = TRUE
          /\ pc' = "return"
          /\ rt_exec' = {}
     ELSE /\ pc' = BranchFrom(1, rt_state)
          /\ rt_exec' = rt_state
          /\ UNCHANGED abort
  /\ UNCHANGED <<sys_state, rt_state, motionVars, caller, rt_alarm, suspend,
                 soft_limit, hostVars, history>>

RtStatus ==
  /\ pc = "status"
  /\ pc' = BranchFrom(2, rt_exec)
  /\ rt_state' = rt_state \ {"STATUS_REPORT"}
  /\ UNCHANGED <<sys_state, motionVars, caller, rt_exec, rt_alarm, sysVars,
                 hostVars, history>>

(* Mutant: a cycle is ready to be resumed while it brakes.               *)
SuspensionReady ==
  IF sys_state \in {"IDLE", "CYCLE"} THEN {"ENABLE_READY"} ELSE suspend

Suspension ==
  CASE sys_state = "CYCLE" -> {"ENABLE_HOLD"}
    [] sys_state = "IDLE"  -> {"ENABLE_READY"}
    [] OTHER               -> suspend

\* The safety door: a system that is ready already has its stop at once, in the
\* copy of the flags only.
DoorOpens ==
  /\ sys_state' = "SAFETY_DOOR"
  /\ suspend' = Suspension \cup {"ENERGIZE"}
  /\ rt_exec' = IF "ENABLE_READY" \in Suspension
                THEN rt_exec \cup {"CYCLE_STOP"} ELSE rt_exec

\* A feed hold alone; the safety door is not taken back by one.
FeedHold ==
  /\ sys_state' = IF sys_state = "SAFETY_DOOR" THEN "SAFETY_DOOR" ELSE "HOLD"
  /\ suspend' = Suspension
  /\ UNCHANGED rt_exec

\* A cycle is told to decelerate; an idle machine is held and ready at once.
RtHold ==
  /\ pc = "hold"
  /\ rt_state' = rt_state \ HoldFlags
  /\ IF sys_state \in {"ALARM", "CHECK_MODE"}
     THEN UNCHANGED <<sys_state, suspend, rt_exec>>
     ELSE IF "SAFETY_DOOR" \in rt_exec THEN DoorOpens ELSE FeedHold
  /\ pc' = BranchFrom(3, rt_exec')
  /\ IF sys_state = "CYCLE" THEN UpdatePlanBlockParameters
                            ELSE UNCHANGED <<pl_block, prep>>
  /\ UNCHANGED <<plannerVars, st_block_buffer, segment_buffer,
                 segment_buffer_head, isrVars, caller, rt_alarm, abort,
                 soft_limit, hostVars, history>>

(* Mutant: a start that comes with a hold is honoured.                   *)
MayStartHeld ==
  \/ sys_state = "IDLE"
  \/ sys_state = "HOLD" /\ "ENABLE_READY" \in suspend

MayStart ==
  /\ HoldFlags \cap rt_exec = {}
  /\ \/ sys_state = "IDLE"
     \/ sys_state = "HOLD" /\ "ENABLE_READY" \in suspend

\* CYCLE_START has been dealt with.
StartDone ==
  /\ pc' = BranchFrom(4, rt_exec)
  /\ rt_exec' = rt_exec \ {"CYCLE_START"}
  /\ rt_state' = rt_state \ {"CYCLE_START"}
  /\ asked' = FALSE

\* The cycle is started or resumed if the planner has a block; sys.state is
\* set before the segment buffer is filled.
RtStart ==
  /\ pc = "start"
  /\ IF MayStart /\ plan_get_current_block # NULL
     THEN /\ pc' = "start_prep"
          /\ sys_state' = "CYCLE"
          /\ UNCHANGED <<suspend, rt_exec, rt_state, asked>>
     ELSE /\ StartDone
          /\ IF MayStart THEN sys_state' = "IDLE" /\ suspend' = {}
                         ELSE UNCHANGED <<sys_state, suspend>>
  /\ UNCHANGED <<motionVars, caller, rt_alarm, abort, soft_limit, hostVars,
                 killed, gap, starved>>

RtWake ==
  /\ pc = "wake"
  /\ WakeUp
  /\ suspend' = {}
  /\ StartDone
  /\ UNCHANGED <<sys_state, plannerVars, prepVars, segment_buffer_tail, st,
                 motor, caller, rt_alarm, abort, soft_limit, hostVars, killed,
                 gap, starved>>

\* The steppers have stopped: a hold, or the safety door, is ready to resume,
\* unless it was for a soft limit; anything else is complete.
RtStop ==
  /\ pc = "stop"
  /\ pc' = "reload"
  /\ rt_state' = rt_state \ {"CYCLE_STOP"}
  /\ IF Holding /\ ~soft_limit
     THEN suspend' = suspend \cup {"ENABLE_READY"} /\ UNCHANGED sys_state
     ELSE suspend' = {} /\ sys_state' = "IDLE"
  /\ UNCHANGED <<motionVars, caller, rt_exec, rt_alarm, abort, soft_limit,
                 hostVars, history>>

\* st_prep_buffer(), one turn of its loop at a time: when the cycle is about to
\* start, and at the end of every pass in a state of motion.
RtPrep ==
  /\ pc = "start_prep" \/ (pc = "reload" /\ Busy)
  /\ \/ \E n \in SegmentSizes : PrepSegment(n) \/ PrepHoldEnd(n)
     \/ PrepHoldEnd(0)
     \/ block_buffer[block_buffer_tail].left \in SegmentSizes /\ PrepBlockEnd
  /\ UNCHANGED <<sys_state, rt_state, isrVars, rtVars, rt_alarm, sysVars,
                 hostVars, history>>

(* Mutant: a hold that is ready no longer holds the program.             *)
SuspendedUntilReady == suspend = {"ENABLE_HOLD"}

Suspended == suspend # {}

\* It returns.  The door is found closed once the motors rest; a suspended
\* system makes another pass.
RtPrepDone ==
  /\ \/ /\ pc = "start_prep" /\ PrepReturns
        /\ pc' = "wake"
        /\ UNCHANGED <<rt_exec, sys_state>>
     \/ /\ pc = "reload" /\ (Busy => PrepReturns)
        /\ pc' = IF Suspended THEN "alarm" ELSE "return"
        /\ rt_exec' = {}
        /\ sys_state' =
             IF sys_state = "SAFETY_DOOR" /\ "ENABLE_READY" \in suspend
             THEN "HOLD" ELSE sys_state
  /\ UNCHANGED <<rt_state, motionVars, caller, rt_alarm, sysVars,
                 hostVars, history>>

-----------------------------------------------------------------------------
(* What the callers do, and the main loop. *)

(* Mutant: nothing starts the cycle but the operator.                    *)
NoCycleStart == UNCHANGED rt_state

\* protocol_auto_cycle_start()
AutoCycleStart == rt_state' = rt_state \cup {"CYCLE_START"}

\* serial_read() in the main loop: a line is executed, after a checkpoint; when
\* there is none, the cycle is started automatically.
MainRead ==
  /\ pc = "read"
  /\ IF rx # << >>
     THEN /\ line' = Head(rx)
          /\ rx' = Tail(rx)
          /\ CallRealtime("line")
          /\ UNCHANGED rt_state
     ELSE /\ AutoCycleStart
          /\ CallRealtime("loop")
          /\ UNCHANGED <<rx, line>>
  /\ UNCHANGED <<sys_state, motionVars, rt_alarm, sysVars, inputs, history>>

Returned(to) == pc = "return" /\ caller = to

\* The checkpoint of the main loop; an abort returns to main().
ReturnToLoop ==
  /\ Returned("loop")
  /\ pc' = IF abort THEN "init_serial" ELSE "read"
  /\ UNCHANGED <<sys_state, rt_state, motionVars, caller, rt_exec, rt_alarm,
                 sysVars, hostVars, history>>

\* The checkpoint of protocol_execute_line(); after an abort the main loop
\* reads on until the receive ring is empty.
ReturnToLine ==
  /\ Returned("line")
  /\ pc' = IF abort THEN "read" ELSE "execute"
  /\ UNCHANGED <<sys_state, rt_state, motionVars, caller, rt_exec, rt_alarm,
                 sysVars, hostVars, history>>

\* system_execute_line(): $X unlocks an alarm; $C enters check mode from IDLE
\* and leaves it by a reset.
ExecuteSystem ==
  /\ pc = "execute" /\ line \in {"$X", "$C"}
  /\ pc' = "read"
  /\ sys_state' = CASE line = "$X" /\ sys_state = "ALARM" -> "IDLE"
                    [] line = "$C" /\ sys_state = "IDLE"  -> "CHECK_MODE"
                    [] OTHER                              -> sys_state
  /\ IF line = "$C" /\ sys_state = "CHECK_MODE"
     THEN McReset({})
     ELSE UNCHANGED <<rt_state, rt_alarm, timer, killed, gap>>
  /\ UNCHANGED <<plannerVars, prepVars, segment_buffer_tail, st, motor, caller,
                 rt_exec, sysVars, hostVars, asked, starved>>

\* G-code in ALARM is refused; in check mode it moves nothing.
GcodeIgnored ==
  \/ sys_state = "ALARM"
  \/ sys_state = "CHECK_MODE" /\ line # "outside"

ExecuteIgnored ==
  /\ pc = "execute" /\ line \notin {"$X", "$C"} /\ GcodeIgnored
  /\ pc' = "read"
  /\ UNCHANGED <<sys_state, rt_state, motionVars, caller, rt_exec, rt_alarm,
                 sysVars, hostVars, history>>

\* mc_line() within the limits: a checkpoint, and as long as the planner is
\* full the cycle is started and another made.
ExecuteMove ==
  /\ pc = "execute" /\ line = "move" /\ ~GcodeIgnored
  /\ CallRealtime("mc_line")
  /\ UNCHANGED <<sys_state, rt_state, motionVars, rt_alarm, sysVars, hostVars,
                 history>>

ReturnToMcLine ==
  /\ Returned("mc_line") /\ (abort \/ plan_check_full_buffer)
  /\ IF abort
     THEN pc' = "read" /\ UNCHANGED <<caller, rt_exec, rt_state>>
     ELSE CallRealtime("mc_line") /\ AutoCycleStart
  /\ UNCHANGED <<sys_state, motionVars, rt_alarm, sysVars, hostVars, history>>

\* plan_buffer_line(), which ignores a block of zero length.
PlanLine ==
  /\ Returned("mc_line") /\ ~abort /\ ~plan_check_full_buffer
  /\ pc' = "read"
  /\ PlanBufferLine \/ UNCHANGED motionVars
  /\ UNCHANGED <<sys_state, rt_state, caller, rt_exec, rt_alarm, sysVars,
                 hostVars, history>>

\* limits_soft_check() of a target outside: a feed hold if the cycle runs, and
\* checkpoints until it is IDLE.
ExecuteOutside ==
  /\ pc = "execute" /\ line = "outside" /\ ~GcodeIgnored
  /\ soft_limit' = TRUE
  /\ IF sys_state = "CYCLE"
     THEN /\ rt_state' = rt_state \cup {"FEED_HOLD"}
          /\ CallRealtime("soft_limit")
     ELSE /\ pc' = "soft_reset"
          /\ UNCHANGED <<caller, rt_exec, rt_state>>
  /\ UNCHANGED <<sys_state, motionVars, rt_alarm, abort, suspend, hostVars,
                 history>>

\* An aborted check returns to mc_line(), whose own checkpoint sees the abort.
ReturnToSoftLimit ==
  /\ Returned("soft_limit")
  /\ IF ~abort /\ sys_state = "IDLE"
     THEN pc' = "soft_reset" /\ UNCHANGED <<caller, rt_exec>>
     ELSE CallRealtime(IF abort THEN "mc_line" ELSE "soft_limit")
  /\ UNCHANGED <<sys_state, rt_state, motionVars, rt_alarm, sysVars, hostVars,
                 history>>

\* Then a reset and a critical alarm, and the checkpoint that waits for the
\* operator's reset.
SoftLimitReset ==
  /\ pc = "soft_reset"
  /\ McReset({"SOFT_LIMIT", "CRITICAL_EVENT"})
  /\ CallRealtime("soft_reset")
  /\ UNCHANGED <<sys_state, plannerVars, prepVars, segment_buffer_tail, st,
                 motor, sysVars, hostVars, asked, starved>>

\* mc_line() goes on after the check, and in check mode returns.
ReturnToSoftReset ==
  /\ Returned("soft_reset")
  /\ IF sys_state = "CHECK_MODE"
     THEN pc' = "read" /\ UNCHANGED <<caller, rt_exec>>
     ELSE CallRealtime("mc_line")
  /\ UNCHANGED <<sys_state, rt_state, motionVars, rt_alarm, sysVars, hostVars,
                 history>>

\* mc_dwell(): protocol_buffer_synchronize() starts the cycle and makes
\* checkpoints until the planner is empty and the cycle over.
ExecuteDwell ==
  /\ pc = "execute" /\ line = "dwell" /\ ~GcodeIgnored
  /\ AutoCycleStart
  /\ CallRealtime("sync")
  /\ UNCHANGED <<sys_state, motionVars, rt_alarm, sysVars, hostVars, history>>

(* Mutant: the blocks checked out are not waited for.                    *)
PlannerBusy == plan_get_current_block # NULL

MotionBusy == plan_get_current_block # NULL \/ sys_state = "CYCLE"

(* Mutant: the wait does not look at the abort.                          *)
ReturnToSyncAlways ==
  /\ Returned("sync")
  /\ CallRealtime(IF MotionBusy THEN "sync" ELSE "dwell")
  /\ UNCHANGED <<sys_state, rt_state, motionVars, rt_alarm, sysVars, hostVars,
                 history>>

ReturnToSync ==
  /\ Returned("sync")
  /\ IF abort THEN pc' = "read" /\ UNCHANGED <<caller, rt_exec>>
     ELSE CallRealtime(IF MotionBusy THEN "sync" ELSE "dwell")
  /\ UNCHANGED <<sys_state, rt_state, motionVars, rt_alarm, sysVars, hostVars,
                 history>>

\* The dwell itself has one checkpoint: it is taken to be that short.
ReturnFromDwell ==
  /\ Returned("dwell")
  /\ pc' = "read"
  /\ UNCHANGED <<sys_state, rt_state, motionVars, caller, rt_exec, rt_alarm,
                 sysVars, hostVars, history>>

-----------------------------------------------------------------------------
Init ==
  /\ InitMotion
  /\ sys_state = IF HomingLock THEN "ALARM" ELSE "IDLE"
  /\ rt_state = {} /\ rt_alarm = {} /\ rt_exec = {}
  /\ pc = "init_serial" /\ caller = "loop"
  /\ abort = TRUE /\ suspend = {} /\ soft_limit = FALSE
  /\ rx = << >> /\ line = "none" /\ inputs = 0
  /\ asked = FALSE /\ killed = FALSE /\ gap = FALSE
  /\ starved = FALSE

Main ==
  \/ InitSerial \/ InitMotionPath \/ InitFlags \/ InitAlarm \/ InitSys
  \/ RtAlarm \/ RtCritical \/ RtClearAlarm \/ RtCopy \/ RtStatus \/ RtHold
  \/ RtStart \/ RtWake \/ RtStop \/ RtPrep \/ RtPrepDone
  \/ MainRead \/ ReturnToLoop \/ ReturnToLine \/ ExecuteSystem
  \/ ExecuteIgnored \/ ExecuteMove \/ ReturnToMcLine \/ PlanLine
  \/ ExecuteOutside \/ ReturnToSoftLimit \/ SoftLimitReset
  \/ ReturnToSoftReset \/ ExecuteDwell \/ ReturnToSync \/ ReturnFromDwell

Next ==
  \/ Main
  \/ ReceiveLine
  \/ \E c \in Characters : ReceiveCharacter(c)
  \/ StepperInterrupt

Spec == Init /\ [][Next]_vars

\* The processor runs the main program and its timer keeps its period; neither
\* the host nor the operator has to do anything.
FairSpec == Spec /\ WF_vars(Main) /\ WF_vars(StepperInterrupt)

-----------------------------------------------------------------------------
TypeOK ==
  /\ MotionTypeOK
  /\ sys_state \in {"IDLE", "ALARM", "CHECK_MODE", "CYCLE", "HOLD",
                    "SAFETY_DOOR"}
  /\ rt_state \subseteq {"STATUS_REPORT", "CYCLE_START", "CYCLE_STOP",
                         "FEED_HOLD", "SAFETY_DOOR", "RESET"}
  /\ rt_exec \subseteq {"STATUS_REPORT", "CYCLE_START", "CYCLE_STOP",
                        "FEED_HOLD", "SAFETY_DOOR"}
  /\ rt_alarm \subseteq {"ABORT_CYCLE", "SOFT_LIMIT", "CRITICAL_EVENT"}
  /\ pc \in InitSteps \cup RealtimeSteps \cup OtherSteps
  /\ caller \in Callers
  /\ abort \in BOOLEAN /\ soft_limit \in BOOLEAN
  /\ suspend \subseteq {"ENABLE_HOLD", "ENABLE_READY", "ENERGIZE"}
  /\ rx \in Seq(LineKinds) /\ Len(rx) < RX_BUFFER_SIZE
  /\ line \in LineKinds \cup {"none"}
  /\ inputs \in 0 .. MaxInputs
  /\ asked \in BOOLEAN /\ killed \in BOOLEAN /\ gap \in BOOLEAN

\* A hold that is ready to be resumed is one of motors at rest: the operator's ~
\* would otherwise compute a profile from rest for an axis that still moves
\* (protocol_execute_realtime() sets ENABLE_READY from the stop flag, or at
\* once when idle).
ReadyMeansStill == "ENABLE_READY" \in suspend => ~timer

\* A stop the main program has not dealt with yet is the stop of the motion the
\* state is about: a left-over one would end the next cycle while the steppers
\* run (the stepper interrupt sets CYCLE_STOP, the checkpoint after the next
\* start would read it).
StopFollowsMotion ==
  "CYCLE_STOP" \in rt_state /\ "RESET" \notin rt_state => ~timer /\ Busy

\* A reset silences the motors: whatever the checkpoint was at when it came,
\* none is driven once mc_reset() has stopped it or main() begins again, and
\* the system comes up locked if they were moving, for its position is lost.
\* The three gaps of McReset are where this port breaks that promise.  While it
\* brakes for the safety door, mc_reset() stops nothing and raises no alarm.
ResetSilences ==
  ~gap =>
    /\ killed \/ pc = "init_motion" => ~timer
    /\ killed /\ pc \in {"init_flags", "init_alarm", "init_sys"}
         => sys_state = "ALARM"

\* The waits for motion end when it has: limits_soft_check() resets the system
\* only with the motors at rest, so that the position is kept, and mc_dwell()
\* dwells only when every block accepted before has reached the motors (planner,
\* segment ring and interrupt), as long as the steppers never starve.
WaitsForMotion ==
  /\ pc = "soft_reset" => ~timer
  /\ caller = "dwell" /\ ~starved => Pending = << >>

\* The steps accepted reach the motors once each and in order, over every
\* interleaving of planning, checking out, executing, holding and resuming: a
\* copy of step data that is overwritten in use, a block discarded early or
\* loaded twice would break it.
Queue == INSTANCE MotionQueue
  WITH running <- pc \notin {"init_motion", "init_flags"}, queue <- Pending

ImplementsQueue == Queue!Spec

\* While the system is suspended the main program does not plan: the checkpoint
\* holds it in its loop, whoever called it.
HeldMainBlocked ==
  [][accepted' # accepted
       => sys_state \in {"IDLE", "CYCLE"} /\ suspend = {}]_vars

\* A hold is resumed by the operator only: the CYCLE_START the main loop, a full
\* planner or a synchronisation set on their own never resumes one.
NoAutoResume ==
  [][Holding /\ sys_state' = "CYCLE" => asked]_vars

\* A feed hold or safety door seen in a cycle comes to rest, ready to resume,
\* or the motion or the program ends otherwise: the checkpoint keeps filling the
\* segment ring until the deceleration is complete.
HoldCompletes ==
  HoldFlags \cap rt_state # {} /\ sys_state = "CYCLE"
    ~> "ENABLE_READY" \in suspend \/ ~Busy \/ "RESET" \in rt_state

\* From whatever wait a reset interrupts, the main program gets back to main(),
\* unless a critical alarm withdraws it and waits for another.
ResetHonoured == "RESET" \in rt_state ~> pc \in {"init_alarm", "critical"}

\* The main loop starts by itself what was queued, and all of it is executed,
\* unless it is held, locked or dropped.
EveryMoveRuns ==
  Pending # << >>
    ~> \/ Pending = << >>
       \/ Holding \/ sys_state \in {"ALARM", "CHECK_MODE"}
       \/ starved

\* A synchronisation starts the cycle once and waits: it ends, unless it is
\* held, locked, or the steppers starved and nothing starts them again.
SyncEnds ==
  pc = "alarm" /\ caller = "sync"
    ~> pc \in {"read", "critical"} \/ Holding \/ starved
=============================================================================
