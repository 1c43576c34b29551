------------------------ MODULE GrblProtocol_proofs ------------------------
(***************************************************************************)
(* What holds of the Grbl port's main program, planner ring, segment ring  *)
(* and interrupts for every size of the rings, every block length, every   *)
(* set of lines and characters and any number of them:                     *)
(*   1. the control part of GrblProtocol, in which the content of the      *)
(*      rings is immaterial: holding, resuming, stopping, resetting;       *)
(*   2. the content of the rings: the segments and the blocks behind them  *)
(*      are one chain of steps without gap or overlap;                     *)
(*   3. what is pending, in closed form, and so the queue that the motion  *)
(*      path implements;                                                   *)
(*   4. the types of the rest of the state;                                *)
(*   5. where the motion is at rest, which the waits for it rely on.       *)
(***************************************************************************)
EXTENDS GrblProtocol, TLAPS, FiniteSetTheorems, SequenceTheorems,
        WellFoundedInduction

(***************************************************************************)
(* The inductive invariant.                                                *)
(***************************************************************************)
ControlTypeOK ==
  /\ sys_state \in {"IDLE", "ALARM", "CHECK_MODE", "CYCLE", "HOLD",
                    "SAFETY_DOOR"}
  /\ suspend \subseteq {"ENABLE_HOLD", "ENABLE_READY", "ENERGIZE"}

\* The door was opened on motors at rest: the stop of its copy is not flagged.
DoorReady == sys_state = "SAFETY_DOOR" /\ "ENABLE_READY" \in suspend

\* The flags copied, along the branches that deal with them.
FlagCopies ==
  /\ pc \notin CopiedSteps \cup {"reload"} => rt_exec = {}
  /\ pc = "hold" => HoldFlags \cap rt_exec # {}
  /\ pc \in {"start", "start_prep", "wake"} => "CYCLE_START" \in rt_exec
  /\ pc = "stop" => "CYCLE_STOP" \in rt_exec
  /\ pc \in {"stop", "reload"} => "CYCLE_START" \notin rt_exec
  /\ pc \in CopiedSteps /\ "CYCLE_STOP" \in rt_exec =>
       "CYCLE_STOP" \in rt_state \/ DoorReady
  /\ pc \in CopiedSteps \cup {"reload"} => ~abort

\* The main program is on its way back to main().
GoingDown ==
  \/ abort
  \/ pc \in InitSteps
  \/ pc \in {"clear_alarm", "copy"} /\ sys_state = "ALARM" /\ "RESET" \in rt_state

\* The steppers run, or have stopped, only in a state of motion, and a hold of
\* running steppers is not ready.
Motion ==
  /\ timer \/ "CYCLE_STOP" \in rt_state =>
       (Busy \/ GoingDown) /\ "ENABLE_READY" \notin suspend
  /\ timer => "CYCLE_STOP" \notin rt_state \cup rt_exec
  /\ pc \in {"start_prep", "wake"} =>
       sys_state = "CYCLE" /\ ~timer /\ "CYCLE_STOP" \notin rt_state \cup rt_exec

\* A held main program is in the checkpoint; a safety door is open until the
\* motors rest.
Held ==
  /\ Holding => suspend # {} \/ pc \in InitSteps
  /\ "ENERGIZE" \in suspend =>
       sys_state \in {"SAFETY_DOOR", "ALARM"} \/ "ENABLE_READY" \in suspend
  /\ pc \in {"execute", "soft_reset", "read", "return"} => suspend = {} \/ abort
  /\ pc \in {"execute", "soft_reset"} => ~abort
  /\ pc = "soft_reset" => sys_state # "CYCLE" /\ ~timer

\* A reset stays flagged until main() begins again or a critical alarm withdraws
\* it.
Flagged ==
  /\ abort /\ pc \notin InitSteps => "RESET" \in rt_state
  /\ abort => pc \in {"init_serial", "init_motion", "read", "return", "alarm",
                      "copy", "clear_alarm"}
  /\ rt_alarm # {} /\ pc \notin {"init_flags", "init_alarm", "critical"}
       => "RESET" \in rt_state
  /\ "CRITICAL_EVENT" \in rt_alarm =>
       ~timer /\ "CYCLE_STOP" \notin rt_state
  /\ "CRITICAL_EVENT" \in rt_alarm =>
       ~abort /\ pc \in {"alarm", "critical", "clear_alarm"}
  /\ pc = "critical" => "CRITICAL_EVENT" \in rt_alarm
  /\ pc \in {"init_flags", "init_alarm", "init_sys"} => ~timer
  /\ pc \in {"init_alarm", "init_sys"} => "CYCLE_STOP" \notin rt_state
  /\ pc \in {"critical", "clear_alarm"} => sys_state = "ALARM"
  /\ /\ pc \in {"init_serial", "init_motion", "init_flags"}
     /\ timer \/ "CYCLE_STOP" \in rt_state
     => "RESET" \in rt_state

\* Lines that move are executed in a state that moves; the wait of the soft
\* limit for a reset ends with one.
Calling ==
  /\ caller \in {"mc_line", "soft_limit"} /\ pc \in RealtimeSteps =>
       GoingDown \/ sys_state = "IDLE" \/ Busy
  /\ caller = "soft_reset" /\ pc \in RealtimeSteps =>
       \/ abort \/ "CRITICAL_EVENT" \in rt_alarm
       \/ pc = "copy" /\ "RESET" \in rt_state
  /\ "CRITICAL_EVENT" \in rt_alarm => caller = "soft_reset"

\* Every CYCLE_START a hold could take for its resumption is the operator's.
Asked ==
  /\ pc \in CopiedSteps /\ "CYCLE_START" \in rt_state \ rt_exec => asked
  /\ Holding /\ "CYCLE_START" \in rt_state \cup rt_exec =>
       \/ asked \/ abort \/ pc \in InitSteps
       \/ pc \in CopiedSteps /\ HoldFlags \cap rt_exec # {}
          /\ "CYCLE_START" \in rt_exec

\* Outside the three gaps a reset is followed by nothing that starts the
\* steppers, and the alarm of motors killed by it by nothing that lifts it.
Killed ==
  ~gap =>
    /\ "RESET" \in rt_state => ~timer /\ "CYCLE_START" \notin rt_exec
    /\ killed =>
         /\ ~timer
         /\ "RESET" \in rt_state \/ pc \in {"init_alarm", "init_sys"}
         /\ "CYCLE_STOP" \notin rt_exec /\ "ENABLE_READY" \notin suspend
         /\ "CRITICAL_EVENT" \notin rt_alarm
         /\ sys_state = "ALARM" \/ (Busy /\ "ABORT_CYCLE" \in rt_alarm)
         /\ sys_state = "ALARM" <=>
              abort \/ pc \in {"clear_alarm", "copy"} \cup InitSteps

IInv == /\ ControlTypeOK /\ FlagCopies /\ Motion /\ Held /\ Flagged
        /\ Calling /\ Asked /\ Killed

-----------------------------------------------------------------------------
(***************************************************************************)
(* The branch BranchFrom() finds is asked for, and skips none that is.     *)
(***************************************************************************)
LEMMA BranchFound ==
  ASSUME NEW i \in 1 .. 4, NEW flags
  PROVE  /\ BranchFrom(i, flags) \in {"status", "hold", "start", "stop", "reload"}
         /\ BranchFrom(i, flags) = "hold" => HoldFlags \cap flags # {}
         /\ BranchFrom(i, flags) = "start" => "CYCLE_START" \in flags /\ i <= 3
         /\ BranchFrom(i, flags) = "stop" => "CYCLE_STOP" \in flags
         /\ i <= 3 /\ BranchFrom(i, flags) \in {"stop", "reload"}
              => "CYCLE_START" \notin flags
         /\ i >= 2 => BranchFrom(i, flags) # "status"
         /\ i >= 3 => BranchFrom(i, flags) # "hold"
         /\ i = 4 => BranchFrom(i, flags) \in {"stop", "reload"}
         /\ BranchFrom(i, flags) = "reload" => "CYCLE_STOP" \notin flags
<1> DEFINE asks == {j \in i .. 4 : BranchFlags[j] \cap flags # {}}
<1>1. CASE asks = {}
  <2>1. BranchFrom(i, flags) = "reload"
    BY <1>1 DEF BranchFrom
  <2>2. i <= 3 => "CYCLE_START" \notin flags
    BY <1>1 DEF BranchFlags
  <2>3. "CYCLE_STOP" \notin flags
    BY <1>1 DEF BranchFlags
  <2> QED
    BY <2>1, <2>2, <2>3
<1>2. CASE asks # {}
  <2>1. PICK m \in asks : \A j \in asks : m <= j
    <3>1. asks \subseteq 1 .. 4
      OBVIOUS
    <3> HIDE DEF asks
    <3>2. CASE 1 \in asks
      BY <3>1, <3>2
    <3>3. CASE 1 \notin asks /\ 2 \in asks
      BY <3>1, <3>3
    <3>4. CASE 1 \notin asks /\ 2 \notin asks /\ 3 \in asks
      BY <3>1, <3>4
    <3>5. CASE 1 \notin asks /\ 2 \notin asks /\ 3 \notin asks
      <4>1. \A j \in asks : j = 4
        BY <3>1, <3>5
      <4> QED
        BY <1>2, <4>1
    <3> QED
      BY <3>2, <3>3, <3>4, <3>5
  <2>2. Min(asks) = m
    <3>1. \A x \in asks : (\A y \in asks : x <= y) => x = m
      BY <2>1
    <3> HIDE DEF asks
    <3> QED
      BY <2>1, <3>1 DEF Min
  <2>3. BranchFrom(i, flags) = Branch[m]
    BY <1>2, <2>2 DEF BranchFrom
  <2>4. m \in i .. 4 /\ BranchFlags[m] \cap flags # {}
    BY <2>1
  <2>5. m = 4 /\ i <= 3 => "CYCLE_START" \notin flags
    BY <2>1 DEF BranchFlags
  <2>6. m \in {1, 2, 3, 4}
    BY <2>4
  <2> HIDE DEF asks
  <2> QED
    BY <2>3, <2>4, <2>5, <2>6 DEF Branch, BranchFlags
<1> QED
  BY <1>1, <1>2

ResetKinds == {"ABORT_CYCLE", "SOFT_LIMIT", "CRITICAL_EVENT"}

(***************************************************************************)
(* What a reset does to the flags and the motors, whenever it comes.       *)
(***************************************************************************)
LEMMA ResetFlags ==
  ASSUME NEW alarms, McReset(alarms)
  PROVE  /\ rt_state' = rt_state \cup {"RESET"}
         /\ rt_alarm \cup alarms \subseteq rt_alarm'
         /\ rt_alarm' \subseteq rt_alarm \cup alarms \cup {"ABORT_CYCLE"}
         /\ timer' = timer \/ timer' = FALSE
BY DEF McReset, GoIdle

(***************************************************************************)
(* Every step of the main program and of the interrupts preserves it.      *)
(***************************************************************************)
LEMMA Preserved ==
  ASSUME IInv, [Next]_vars
  PROVE  IInv'
<1> USE DEF IInv, ControlTypeOK, FlagCopies, Motion, Held, Flagged, Calling,
            Asked, Killed, GoingDown, Busy, Holding, DoorReady
<1> USE DEF InitSteps, RealtimeSteps, OtherSteps, CopiedSteps
<1> USE DEF Goto, CallRealtime, Returned, GoIdle, McReset, InMotion
<1> USE DEF motionVars, plannerVars, prepVars, isrVars, rtVars, sysVars, hostVars,
            history
<1>1. CASE InitSerial
  BY <1>1, SMTT(20) DEF InitSerial
<1>2. CASE InitMotionPath
  BY <1>2, SMTT(20) DEF InitMotionPath, StReset, PlanReset
<1>3. CASE InitFlags
  BY <1>3, SMTT(20) DEF InitFlags
<1>4. CASE InitAlarm
  BY <1>4, SMTT(20) DEF InitAlarm
<1>5. CASE InitSys
  BY <1>5, SMTT(20) DEF InitSys
<1>6. CASE RtAlarm
  BY <1>6, SMTT(20) DEF RtAlarm
<1>7. CASE RtCritical
  BY <1>7, SMTT(20) DEF RtCritical
<1>8. CASE RtClearAlarm
  BY <1>8, SMTT(20) DEF RtClearAlarm
<1>9. CASE RtCopy
  BY <1>9, BranchFound, SMTT(20) DEF RtCopy
<1>10. CASE RtStatus
  BY <1>10, BranchFound, SMTT(20) DEF RtStatus
<1>11. CASE RtHold
  <2>1. /\ pc = "hold" /\ rt_state' = rt_state \ HoldFlags
        /\ pc' \in {"start", "stop", "reload"}
        /\ pc' = "start" => "CYCLE_START" \in rt_exec'
        /\ pc' = "stop" => "CYCLE_STOP" \in rt_exec'
        /\ pc' \in {"stop", "reload"} => "CYCLE_START" \notin rt_exec'
        /\ pc' = "reload" => "CYCLE_STOP" \notin rt_exec'
    <3>1. pc = "hold" /\ rt_state' = rt_state \ HoldFlags
            /\ pc' = BranchFrom(3, rt_exec')
      BY <1>11 DEF RtHold
    <3> HIDE DEF IInv
    <3> QED
      BY <3>1, BranchFound
  <2>2. /\ rt_exec \subseteq rt_exec'
        /\ "CYCLE_START" \in rt_exec' => "CYCLE_START" \in rt_exec
        /\ UNCHANGED <<timer, caller, rt_alarm, abort, history>>
    BY <1>11 DEF RtHold, DoorOpens, FeedHold, UpdatePlanBlockParameters
  <2>3. CASE sys_state \in {"ALARM", "CHECK_MODE"}
    <3>1. UNCHANGED <<sys_state, suspend, rt_exec>>
      BY <1>11, <2>3 DEF RtHold
    <3> QED
      BY <2>1, <2>2, <2>3, <3>1, SMTT(20) DEF HoldFlags
  <2>4. CASE sys_state \notin {"ALARM", "CHECK_MODE"} /\ "SAFETY_DOOR" \in rt_exec
    <3>1. DoorOpens
      BY <1>11, <2>4 DEF RtHold
    <3> QED
      BY <2>1, <2>2, <2>4, <3>1, SMTT(20)
      DEF DoorOpens, Suspension, HoldFlags
  <2>5. CASE sys_state \notin {"ALARM", "CHECK_MODE"} /\ "SAFETY_DOOR" \notin rt_exec
    <3>1. FeedHold
      BY <1>11, <2>5 DEF RtHold
    <3> QED
      BY <2>1, <2>2, <2>5, <3>1, SMTT(20) DEF FeedHold, Suspension, HoldFlags
  <2> QED
    BY <2>3, <2>4, <2>5
<1>12. CASE RtStart
  <2>1. CASE MayStart /\ plan_get_current_block # NULL
    BY <1>12, <2>1 DEF RtStart, MayStart
  <2>2. CASE ~(MayStart /\ plan_get_current_block # NULL)
    <3>1. BranchFrom(4, rt_exec) = "reload"
            \/ (BranchFrom(4, rt_exec) = "stop" /\ "CYCLE_STOP" \in rt_exec)
      BY BranchFound
    <3>2. ControlTypeOK' /\ FlagCopies'
      BY <1>12, <2>2, <3>1 DEF RtStart, MayStart, StartDone
    <3>3. Motion'
      BY <1>12, <2>2, <3>1 DEF RtStart, MayStart, StartDone
    <3>4. Held' /\ Flagged'
      BY <1>12, <2>2, <3>1 DEF RtStart, MayStart, StartDone
    <3>5. Calling' /\ Asked' /\ Killed'
      BY <1>12, <2>2, <3>1 DEF RtStart, MayStart, StartDone
    <3> QED
      BY <3>2, <3>3, <3>4, <3>5
  <2> QED
    BY <2>1, <2>2
<1>13. CASE RtWake
  BY <1>13, BranchFound, SMTT(20) DEF RtWake, WakeUp, StartDone
<1>14. CASE RtStop
  <2>1. ControlTypeOK'
    <3>1. suspend' \in {{}, suspend \cup {"ENABLE_READY"}}
      BY <1>14 DEF RtStop
    <3> QED
      BY <1>14, <3>1 DEF RtStop
  <2>2. FlagCopies' /\ Motion' /\ Held' /\ Flagged'
    BY <1>14 DEF RtStop
  <2>3. Calling' /\ Asked' /\ Killed'
    BY <1>14 DEF RtStop
  <2> QED
    BY <2>1, <2>2, <2>3
<1>15. CASE RtPrep
  BY <1>15, SMTT(20) DEF RtPrep
<1>16. CASE RtPrepDone
  BY <1>16, SMTT(20) DEF RtPrepDone, Suspended
<1>17. CASE MainRead
  <2>1. ~Holding \/ abort
    BY <1>17 DEF MainRead
  <2>2. ControlTypeOK' /\ FlagCopies' /\ Motion' /\ Held' /\ Flagged'
    BY <1>17 DEF MainRead, AutoCycleStart
  <2>3. Calling' /\ Killed'
    BY <1>17 DEF MainRead, AutoCycleStart
  <2>4. Asked'
    BY <1>17, <2>1 DEF MainRead, AutoCycleStart
  <2> QED
    BY <2>2, <2>3, <2>4
<1>18. CASE ReturnToLoop
  BY <1>18, SMTT(20) DEF ReturnToLoop
<1>19. CASE ReturnToLine
  BY <1>19, SMTT(20) DEF ReturnToLine
<1>20. CASE ExecuteSystem
  <2>5. /\ rt_state' \in {rt_state, rt_state \cup {"RESET"}}
        /\ timer' = timer \/ timer' = FALSE
    <3>1. McReset({}) \/ UNCHANGED <<rt_state, timer>>
      BY <1>20 DEF ExecuteSystem
    <3> QED
      BY <3>1, ResetFlags
  <2>6. /\ pc = "execute" /\ pc' = "read" /\ suspend = {} /\ ~abort
        /\ UNCHANGED <<rt_exec, suspend, abort>>
        /\ \/ UNCHANGED sys_state
           \/ sys_state \in {"ALARM", "IDLE"} /\ sys_state' \in {"IDLE", "CHECK_MODE"}
    BY <1>20 DEF ExecuteSystem
  <2>1. ControlTypeOK' /\ FlagCopies' /\ Motion' /\ Held'
    BY <2>5, <2>6
  <2>2. Flagged'
    BY <1>20 DEF ExecuteSystem
  <2>3. Calling' /\ Asked'
    BY <1>20 DEF ExecuteSystem
  <2>4. Killed'
    BY <1>20 DEF ExecuteSystem
  <2> QED
    BY <2>1, <2>2, <2>3, <2>4
<1>21. CASE ExecuteIgnored
  BY <1>21, SMTT(20) DEF ExecuteIgnored
<1>22. CASE ExecuteMove
  BY <1>22, SMTT(20) DEF ExecuteMove, GcodeIgnored
<1>23. CASE ReturnToMcLine
  <2>1. ~Holding \/ abort
    BY <1>23 DEF ReturnToMcLine
  <2>2. ControlTypeOK' /\ FlagCopies' /\ Motion' /\ Held' /\ Flagged'
    BY <1>23 DEF ReturnToMcLine, AutoCycleStart
  <2>3. Calling' /\ Killed'
    BY <1>23 DEF ReturnToMcLine, AutoCycleStart
  <2>4. Asked'
    BY <1>23, <2>1 DEF ReturnToMcLine, AutoCycleStart
  <2> QED
    BY <2>2, <2>3, <2>4
<1>24. CASE PlanLine
  BY <1>24, SMTT(20) DEF PlanLine, PlanBufferLine
<1>25. CASE ExecuteOutside
  <2>1. sys_state # "CYCLE" => ~timer /\ "CYCLE_STOP" \notin rt_state
    BY <1>25 DEF ExecuteOutside
  <2>2. ControlTypeOK' /\ FlagCopies' /\ Motion'
    BY <1>25, <2>1 DEF ExecuteOutside, GcodeIgnored
  <2>3. Held'
    BY <1>25, <2>1 DEF ExecuteOutside, GcodeIgnored
  <2>4. Flagged'
    BY <1>25, <2>1 DEF ExecuteOutside, GcodeIgnored
  <2>5. Calling' /\ Asked'
    BY <1>25, <2>1 DEF ExecuteOutside, GcodeIgnored
  <2>6. Killed'
    BY <1>25, <2>1 DEF ExecuteOutside, GcodeIgnored
  <2> QED
    BY <2>2, <2>3, <2>4, <2>5, <2>6
<1>26. CASE ReturnToSoftLimit
  BY <1>26, SMTT(20) DEF ReturnToSoftLimit
<1>27. CASE SoftLimitReset
  <2>1. sys_state # "CYCLE" => ~timer /\ "CYCLE_STOP" \notin rt_state
    BY <1>27 DEF SoftLimitReset
  <2>7. /\ pc = "soft_reset" /\ pc' = "alarm"
        /\ UNCHANGED <<sys_state, rt_exec, suspend, abort>>
        /\ McReset({"SOFT_LIMIT", "CRITICAL_EVENT"})
    BY <1>27 DEF SoftLimitReset
  <2>8. /\ rt_state' = rt_state \cup {"RESET"}
        /\ rt_alarm' \subseteq rt_alarm \cup ResetKinds
        /\ timer' = timer \/ timer' = FALSE
    <3>1. /\ rt_state' = rt_state \cup {"RESET"}
          /\ rt_alarm' \subseteq rt_alarm \cup {"SOFT_LIMIT", "CRITICAL_EVENT"}
                           \cup {"ABORT_CYCLE"}
          /\ timer' = timer \/ timer' = FALSE
      BY <2>7, ResetFlags
    <3> QED
      BY <3>1 DEF ResetKinds
  <2>2. ControlTypeOK' /\ FlagCopies' /\ Motion'
    <3> HIDE DEF McReset
    <3> QED
      BY <2>1, <2>7, <2>8
  <2>3. Held'
    BY <1>27, <2>1 DEF SoftLimitReset
  <2>4. Flagged'
    <3>1. caller' = "soft_reset"
      BY <1>27 DEF SoftLimitReset
    <3> HIDE DEF McReset
    <3> QED
      BY <2>1, <2>7, <2>8, <3>1
  <2>5. Calling' /\ Asked'
    BY <1>27, <2>1 DEF SoftLimitReset
  <2>6. Killed'
    BY <1>27, <2>1 DEF SoftLimitReset
  <2> QED
    BY <2>2, <2>3, <2>4, <2>5, <2>6
<1>28. CASE ReturnToSoftReset
  BY <1>28, SMTT(20) DEF ReturnToSoftReset
<1>29. CASE ExecuteDwell
  <2>1. ~Holding \/ abort
    BY <1>29 DEF ExecuteDwell
  <2>2. ControlTypeOK' /\ FlagCopies' /\ Motion' /\ Held' /\ Flagged'
    BY <1>29 DEF ExecuteDwell, AutoCycleStart, GcodeIgnored
  <2>3. Calling' /\ Killed'
    BY <1>29 DEF ExecuteDwell, AutoCycleStart, GcodeIgnored
  <2>4. Asked'
    BY <1>29, <2>1 DEF ExecuteDwell, AutoCycleStart, GcodeIgnored
  <2> QED
    BY <2>2, <2>3, <2>4
<1>30. CASE ReturnToSync
  BY <1>30, SMTT(20) DEF ReturnToSync
<1>31. CASE ReturnFromDwell
  BY <1>31, SMTT(20) DEF ReturnFromDwell
<1>32. CASE ReceiveLine
  BY <1>32, SMTT(20) DEF ReceiveLine
<1>33. CASE StepperInterrupt
  BY <1>33, SMTT(20) DEF StepperInterrupt, StepperRunsDry, StepperSteps
<1>34. ASSUME NEW c \in Characters, ReceiveCharacter(c) PROVE IInv'
  <2>1. CASE c = "^X"
    <3>4. McReset({}) /\ UNCHANGED <<sys_state, rt_exec, pc, caller, abort,
                                    suspend, asked>>
      BY <1>34, <2>1 DEF ReceiveCharacter
    <3>5. /\ rt_state' = rt_state \cup {"RESET"}
          /\ rt_alarm \subseteq rt_alarm'
          /\ rt_alarm' \subseteq rt_alarm \cup {"ABORT_CYCLE"}
          /\ timer' = timer \/ timer' = FALSE
      BY <3>4, ResetFlags
    <3>1. ControlTypeOK' /\ FlagCopies' /\ Motion' /\ Held'
      <4> HIDE DEF McReset
      <4> QED
        BY <3>4, <3>5
    <3>2. Flagged' /\ Calling' /\ Asked'
      <4> HIDE DEF McReset
      <4>1. Flagged'
        BY <3>4, <3>5
      <4>2. Calling' /\ Asked'
        BY <3>4, <3>5
      <4> QED
        BY <4>1, <4>2
    <3>3. Killed'
      <4>1. CASE "RESET" \in rt_state
        BY <1>34, <2>1, <4>1 DEF ReceiveCharacter
      <4>2. CASE "RESET" \notin rt_state
        <5>1. timer => Busy /\ (InMotion \/ BrakesForDoor)
          BY <4>2 DEF BrakesForDoor
        <5>2. killed => gap \/ pc \in {"init_alarm", "init_sys"}
          BY <4>2
        <5>3. pc # "copy" /\ timer => sys_state # "ALARM" /\ ~abort
                /\ pc \notin {"clear_alarm"} \cup InitSteps
          BY <4>2
        <5>8. /\ gap' = (gap \/ pc = "copy" \/ "CYCLE_START" \in rt_exec
                          \/ BrakesForDoor)
              /\ InMotion => ~timer' /\ "ABORT_CYCLE" \in rt_alarm'
              /\ ~InMotion => timer' = timer
              /\ killed' = (killed \/ (InMotion /\ timer))
          BY <3>4, <4>2
        <5>4. /\ ~gap' => /\ ~gap /\ pc # "copy" /\ "CYCLE_START" \notin rt_exec
                          /\ ~timer'
              /\ killed' => killed \/ (timer /\ "ABORT_CYCLE" \in rt_alarm')
          <6> HIDE DEF InMotion, IInv, McReset
          <6>1. ASSUME ~gap'
                PROVE  /\ ~gap /\ pc # "copy" /\ "CYCLE_START" \notin rt_exec
                       /\ ~BrakesForDoor
            BY <5>8, <6>1
          <6>2. ASSUME ~gap' PROVE ~timer'
            <7>1. CASE InMotion
              BY <5>8, <7>1
            <7>2. CASE ~InMotion
              <8>1. timer' = timer /\ ~timer
                BY <5>1, <5>8, <6>1, <6>2, <7>2
              <8> QED
                BY <8>1
            <7> QED
              BY <7>1, <7>2
          <6>3. killed' => killed \/ (timer /\ "ABORT_CYCLE" \in rt_alarm')
            BY <5>8
          <6> QED
            BY <6>1, <6>2, <6>3
        <5>5. rt_state' = rt_state \cup {"RESET"} /\ rt_alarm \subseteq rt_alarm'
                /\ ("CRITICAL_EVENT" \in rt_alarm' => "CRITICAL_EVENT" \in rt_alarm)
                /\ UNCHANGED <<sys_state, rt_exec, pc, abort>>
          BY <1>34, <2>1, <4>2 DEF ReceiveCharacter
        <5>9. UNCHANGED suspend
          BY <3>4
        <5> HIDE DEF McReset, InMotion
        <5>6. CASE killed
          BY <4>2, <5>2, <5>4, <5>5, <5>6, <5>9
        <5>7. CASE ~killed
          BY <4>2, <5>1, <5>3, <5>4, <5>5, <5>7, <5>9
        <5> QED
          BY <5>6, <5>7
      <4> QED
        BY <4>1, <4>2
    <3> QED
      BY <3>1, <3>2, <3>3
  <2>2. CASE c # "^X"
    <3>1. c \in {"?", "~", "!", "@"}
      BY <2>2, ProtocolAssumption
    <3>2. Flag[c] \in {"STATUS_REPORT", "CYCLE_START", "FEED_HOLD", "SAFETY_DOOR"}
            /\ (Flag[c] = "CYCLE_START" => c = "~")
      BY <3>1 DEF Flag
    <3>3. rt_state' = rt_state \cup {Flag[c]} /\ asked' = (asked \/ c = "~")
      BY <1>34, <2>2 DEF ReceiveCharacter
    <3>4. UNCHANGED <<sys_state, rt_exec, rt_alarm, pc, caller, abort, suspend,
                      timer, killed, gap>>
      BY <1>34, <2>2 DEF ReceiveCharacter
    <3>5. ControlTypeOK' /\ FlagCopies' /\ Motion' /\ Held'
      BY <3>2, <3>3, <3>4
    <3>6. Flagged' /\ Calling'
      BY <3>2, <3>3, <3>4
    <3>7. Asked'
      BY <3>2, <3>3, <3>4
    <3>8. Killed'
      BY <3>2, <3>3, <3>4
    <3> QED
      BY <3>5, <3>6, <3>7, <3>8
  <2> QED
    BY <2>1, <2>2
<1>35. CASE UNCHANGED vars
  BY <1>35 DEF vars
<1> QED
  BY <1>1, <1>2, <1>3, <1>4, <1>5, <1>6, <1>7, <1>8, <1>9, <1>10, <1>11, <1>12, <1>13, <1>14, <1>15, <1>16, <1>17, <1>18, <1>19, <1>20, <1>21, <1>22, <1>23, <1>24, <1>25, <1>26, <1>27, <1>28, <1>29, <1>30, <1>31, <1>32, <1>33, <1>34, <1>35 DEF Next, Main

LEMMA Initially == Init => IInv
BY DEF Init, InitMotion, IInv, ControlTypeOK, FlagCopies, Motion, Held, Flagged,
       Calling, Asked, Killed, GoingDown, Busy, Holding, InitSteps, RealtimeSteps,
       OtherSteps, CopiedSteps

\* The control part is always consistent: copies of flags and the branch they
\* lead to, the state and the suspension, the flags and the stepper interrupt
\* agree as IInv says, at every point of the main program an interrupt can find
\* it at.
THEOREM Control == Spec => []IInv
<1>1. IInv /\ [Next]_vars => IInv'
  BY Preserved
<1> QED
  BY Initially, <1>1, PTL DEF Spec

-----------------------------------------------------------------------------
(***************************************************************************)
(* The safety properties, from the invariant.                              *)
(***************************************************************************)

\* A hold that is ready to be resumed is one of motors at rest.
THEOREM ReadyIsStill == Spec => []ReadyMeansStill
<1>1. IInv => ReadyMeansStill
  BY DEF IInv, Motion, ReadyMeansStill
<1> QED
  BY Control, <1>1, PTL

\* A stop not yet dealt with is that of the motion the state is about.
THEOREM StopBelongs == Spec => []StopFollowsMotion
<1>1. IInv => StopFollowsMotion
  BY DEF IInv, Motion, Flagged, GoingDown, InitSteps, StopFollowsMotion
<1> QED
  BY Control, <1>1, PTL

\* A reset silences the motors, and if it stopped them the system comes up
\* locked, unless it falls between the checkpoint's reading of the alarm flags
\* and of the state flags, between the copy of a CYCLE_START and its end, or
\* while the motors brake for the safety door.
THEOREM ResetIsSafe == Spec => []ResetSilences
<1>1. IInv => ResetSilences
  BY DEF IInv, Killed, Flagged, InitSteps, ResetSilences
<1> QED
  BY Control, <1>1, PTL

\* limits_soft_check() resets the system with the motors at rest.
THEOREM SoftLimitAtRest == Spec => [](pc = "soft_reset" => ~timer)
<1>1. IInv => (pc = "soft_reset" => ~timer)
  BY DEF IInv, Held
<1> QED
  BY Control, <1>1, PTL

\* While the system is suspended nothing is planned.
THEOREM HeldPlansNothing == Spec => HeldMainBlocked
<1>1. IInv /\ [Next]_vars
        => [accepted' # accepted
              => sys_state \in {"IDLE", "CYCLE"} /\ suspend = {}]_vars
  <2>1. ASSUME IInv, PlanLine
        PROVE  sys_state \in {"IDLE", "CYCLE"} /\ suspend = {}
    BY <2>1 DEF PlanLine, Returned, IInv, ControlTypeOK, Held, Calling, GoingDown,
                InitSteps, RealtimeSteps, Busy, Holding
  <2>2. ASSUME [Next]_vars, ~PlanLine
        PROVE  UNCHANGED accepted
    <3>1. CASE RtPrep
      BY <3>1 DEF RtPrep, PrepSegment, PrepBlockEnd, PrepHoldEnd
    <3>2. CASE Main /\ ~RtPrep
      BY <2>2, <3>2 DEF Main, InitSerial, InitMotionPath, InitFlags, InitAlarm, InitSys,
                 RtAlarm, RtCritical, RtClearAlarm, RtCopy, RtStatus,
                 RtHold, RtStart, RtWake, RtStop, RtPrepDone, MainRead,
                 ReturnToLoop, ReturnToLine, ExecuteSystem,
                 ExecuteIgnored, ExecuteMove, ReturnToMcLine,
                 ExecuteOutside, ReturnToSoftLimit, SoftLimitReset,
                 ReturnToSoftReset, ExecuteDwell, ReturnToSync,
                 ReturnFromDwell, motionVars, plannerVars, PlanReset
    <3>3. CASE ReceiveLine \/ StepperInterrupt
      BY <3>3 DEF ReceiveLine, StepperInterrupt, motionVars, plannerVars
    <3>4. ASSUME NEW c \in Characters, ReceiveCharacter(c) PROVE UNCHANGED accepted
      BY <3>4 DEF ReceiveCharacter, plannerVars
    <3>5. CASE UNCHANGED vars
      BY <3>5 DEF vars, motionVars, plannerVars
    <3> QED
      BY <2>2, <3>1, <3>2, <3>3, <3>4, <3>5 DEF Next
  <2> QED
    BY <2>1, <2>2
<1> QED
  BY Control, <1>1, PTL DEF Spec, HeldMainBlocked

\* A hold is resumed by the operator only.
THEOREM OperatorResumes == Spec => NoAutoResume
<1>1. IInv /\ [Next]_vars
        => [Holding /\ sys_state' = "CYCLE" => asked]_vars
  <2>1. ASSUME IInv, RtStart, Holding
        PROVE  sys_state' = "CYCLE" => asked
    BY <2>1 DEF RtStart, MayStart, IInv, FlagCopies, Asked, InitSteps,
                CopiedSteps, Holding
  <2>2. ASSUME [Next]_vars, ~RtStart, Holding
        PROVE  sys_state' # "CYCLE"
    <3> USE DEF Holding
    <3>1. CASE Main
      BY <2>2, <3>1 DEF Main, InitSerial, InitMotionPath, InitFlags, InitAlarm, InitSys,
                 RtAlarm, RtCritical, RtClearAlarm, RtCopy, RtStatus,
                 RtHold, DoorOpens, FeedHold, RtWake, RtStop, RtPrep,
                 RtPrepDone, MainRead, ReturnToLoop, ReturnToLine, ExecuteSystem,
                 ExecuteIgnored, ExecuteMove, ReturnToMcLine, PlanLine,
                 ExecuteOutside, ReturnToSoftLimit, SoftLimitReset,
                 ReturnToSoftReset, ExecuteDwell, ReturnToSync,
                 ReturnFromDwell
    <3>2. CASE ReceiveLine \/ StepperInterrupt
      BY <2>2, <3>2 DEF ReceiveLine, StepperInterrupt
    <3>3. ASSUME NEW c \in Characters, ReceiveCharacter(c) PROVE UNCHANGED sys_state
      BY <3>3 DEF ReceiveCharacter
    <3>4. CASE UNCHANGED vars
      BY <2>2, <3>4 DEF vars
    <3> QED
      BY <2>2, <3>1, <3>2, <3>3, <3>4 DEF Next
  <2> QED
    BY <2>1, <2>2
<1> QED
  BY Control, <1>1, PTL DEF Spec, NoAutoResume

-----------------------------------------------------------------------------
(***************************************************************************)
(* The rings.                                                              *)
(***************************************************************************)
Blocks   == 0 .. BLOCK_BUFFER_SIZE - 1
Slots    == 0 .. SEGMENT_BUFFER_SIZE - 1
Copied   == 0 .. SEGMENT_BUFFER_SIZE - 2

\* How far j is ahead of i in a ring, and whether i is between tail and head.
Ahead(i, j, size) == IF i <= j THEN j - i ELSE j - i + size
Holds(tail, head, i, size) == Ahead(tail, i, size) < Ahead(tail, head, size)

NextCopy(i) == Wrap(i, SEGMENT_BUFFER_SIZE - 1)
NextSlot(i) == Wrap(i, SEGMENT_BUFFER_SIZE)

\* The step to be checked out next: its block, what precedes it in the block, and
\* whether the block's step data has been copied.
Waiting == Ahead(block_buffer_tail, block_buffer_head, BLOCK_BUFFER_SIZE)
NextId  == accepted - Waiting + 1
NextOffset ==
  IF block_buffer_head = block_buffer_tail THEN 0
  ELSE StepEvents - block_buffer[block_buffer_tail].left
Begun == pl_block # NULL \/ prep.flag_partial_block

\* The blocks in the planner's ring are the last accepted, whole but the first.
Planned ==
  /\ NextId >= 1
  /\ \A i \in Blocks :
       Holds(block_buffer_tail, block_buffer_head, i, BLOCK_BUFFER_SIZE) =>
         /\ block_buffer[i].id =
              accepted - Ahead(i, block_buffer_head, BLOCK_BUFFER_SIZE) + 1
         /\ block_buffer[i].left >= 1
         /\ i # block_buffer_tail => block_buffer[i].left = StepEvents
  /\ pl_block \in {NULL, block_buffer_tail}
  /\ Begun => /\ block_buffer_head # block_buffer_tail
              /\ st_block_buffer[prep.st_block_index] = NextId
  /\ ~Begun => NextOffset = 0

\* The segments, followed at head by the one that would be prepared next: the
\* block and the copy of its data each uses, and the steps left of it.
Ids ==
  [s \in Slots |->
     IF s = segment_buffer_head THEN NextId
     ELSE st_block_buffer[segment_buffer[s].st_block_index]]
Copy ==
  [s \in Slots |-> IF s = segment_buffer_head THEN PrepIndex
                   ELSE segment_buffer[s].st_block_index]
Todo ==
  [s \in Slots |-> IF s = segment_buffer_tail /\ st.exec_segment # NULL
                   THEN st.step_count ELSE segment_buffer[s].n_step]

Offsets == [Slots -> 0 .. StepEvents - 1]

\* Each segment is followed by one of the same block, or by the first of the next
\* block when it has the last step; o has what precedes a segment in its block.
Chained(t, h, id, copy, todo, o) ==
  \A s \in Slots : Holds(t, h, s, SEGMENT_BUFFER_SIZE) =>
    /\ todo[s] >= 1
    /\ \/ /\ o[NextSlot(s)] = o[s] + todo[s]
          /\ id[NextSlot(s)] = id[s]
          /\ copy[NextSlot(s)] = copy[s]
       \/ /\ o[NextSlot(s)] = 0 /\ o[s] + todo[s] = StepEvents
          /\ id[NextSlot(s)] = id[s] + 1
          /\ copy[NextSlot(s)] = NextCopy(copy[s])

\* The copies in use are distinct: there is at most one for each segment, and
\* they are taken in turn.
InTurn(t, h, id, copy, o) ==
  \A s \in Slots : Holds(t, h, s, SEGMENT_BUFFER_SIZE) =>
    /\ id[s] >= 1 /\ id[s] <= id[h]
    /\ id[h] - id[s] <= Ahead(s, h, SEGMENT_BUFFER_SIZE)
    /\ id[s] = id[h] => o[h] # 0
    /\ \/ copy[h] = copy[s] + (id[h] - id[s])
       \/ copy[h] = copy[s] + (id[h] - id[s]) - (SEGMENT_BUFFER_SIZE - 1)

\* The interrupt is in the first segment, or goes on with it.
Executing(t, h, copy, o, e) ==
  IF e.exec_segment = NULL /\ o[t] = 0
  THEN copy[t] = NextCopy(e.exec_block_index)
  ELSE /\ e.exec_segment # NULL => e.exec_segment = t /\ t # h
       /\ e.exec_block = copy[t]
       /\ e.exec_block_index = copy[t]
       /\ e.counter = o[t]

Following(t, h, id, copy, todo, o, e) ==
  /\ o \in Offsets
  /\ Chained(t, h, id, copy, todo, o)
  /\ InTurn(t, h, id, copy, o)
  /\ Executing(t, h, copy, o, e)

Follows(o) ==
  /\ Following(segment_buffer_tail, segment_buffer_head, Ids, Copy, Todo, o, st)
  /\ o[segment_buffer_head] = NextOffset

MotionInv == MotionTypeOK /\ Planned /\ \E o : Follows(o)

\* How many steps were accepted before the one the interrupt takes next, counting
\* StepEvents for a block zero; and a step that takes n of them.
At(o) ==
  Ids[segment_buffer_tail] * StepEvents + o[segment_buffer_tail]
Moves(n) ==
  /\ MotionTypeOK' /\ Planned'
  /\ \A o : Follows(o) => \E p : Follows(p)' /\ At(p)' = At(o) + n

-----------------------------------------------------------------------------
LEMMA Sizes ==
  /\ BLOCK_BUFFER_SIZE \in Nat /\ BLOCK_BUFFER_SIZE >= 2
  /\ SEGMENT_BUFFER_SIZE \in Nat /\ SEGMENT_BUFFER_SIZE >= 3
  /\ StepEvents \in Nat /\ StepEvents >= 1
  /\ MaxBlocks \in Nat
BY SizesAssumption

LEMMA SlotType ==
  ASSUME NEW s \in Slots
  PROVE  NextSlot(s) \in Slots
BY Sizes DEF Slots, NextSlot, Wrap

\* Where the slots between tail and head are, when head advances in a ring that is
\* not full.
LEMMA HeadAdvances ==
  ASSUME NEW t \in Slots, NEW h \in Slots, NEW g, g = NextSlot(h), g # t
  PROVE  /\ g \in Slots /\ g # h
         /\ Ahead(h, g, SEGMENT_BUFFER_SIZE) = 1
         /\ \A s \in Slots :
              /\ Holds(t, g, s, SEGMENT_BUFFER_SIZE) <=>
                   Holds(t, h, s, SEGMENT_BUFFER_SIZE) \/ s = h
              /\ Holds(t, h, s, SEGMENT_BUFFER_SIZE) =>
                   /\ Holds(t, h, NextSlot(s), SEGMENT_BUFFER_SIZE) \/ NextSlot(s) = h
                   /\ NextSlot(s) # g /\ s # g /\ s # h
                   /\ Ahead(s, g, SEGMENT_BUFFER_SIZE) =
                        Ahead(s, h, SEGMENT_BUFFER_SIZE) + 1
                   /\ Ahead(s, g, SEGMENT_BUFFER_SIZE) <= SEGMENT_BUFFER_SIZE - 1
                   /\ Ahead(s, h, SEGMENT_BUFFER_SIZE) \in Int
BY Sizes DEF Slots, NextSlot, Wrap, Holds, Ahead

LEMMA TailHeld ==
  ASSUME NEW t \in Slots, NEW h \in Slots
  PROVE  Holds(t, h, t, SEGMENT_BUFFER_SIZE) <=> t # h
BY Sizes DEF Slots, Holds, Ahead

\* Nothing the chain depends on has changed.
LEMMA SameChain ==
  ASSUME NEW t \in Slots, NEW h \in Slots, NEW o, NEW e,
         NEW id, NEW copy, NEW todo, NEW id2, NEW copy2, NEW todo2,
         \A s \in Slots : Holds(t, h, s, SEGMENT_BUFFER_SIZE) \/ s = h
           => id2[s] = id[s] /\ copy2[s] = copy[s],
         \A s \in Slots : Holds(t, h, s, SEGMENT_BUFFER_SIZE)
           => todo2[s] = todo[s],
         Following(t, h, id, copy, todo, o, e)
  PROVE  Following(t, h, id2, copy2, todo2, o, e)
<1>1. \A s \in Slots : Holds(t, h, s, SEGMENT_BUFFER_SIZE) =>
        Holds(t, h, NextSlot(s), SEGMENT_BUFFER_SIZE) \/ NextSlot(s) = h
  BY Sizes DEF Slots, NextSlot, Wrap, Holds, Ahead
<1>2. Chained(t, h, id2, copy2, todo2, o)
  BY <1>1, SlotType DEF Following, Chained
<1>3. InTurn(t, h, id2, copy2, o)
  BY DEF Following, InTurn
<1>4. Holds(t, h, t, SEGMENT_BUFFER_SIZE) \/ t = h
  BY TailHeld
<1>5. Executing(t, h, copy2, o, e)
  BY <1>4 DEF Following, Executing
<1> QED
  BY <1>2, <1>3, <1>5 DEF Following

\* The segment at head has been published with n steps.
Publishes(t, h, id, copy, todo, o, id2, copy2, todo2, n) ==
  /\ t \in Slots /\ h \in Slots /\ NextSlot(h) # t
  /\ id \in [Slots -> Int] /\ copy \in [Slots -> Copied] /\ todo \in [Slots -> Nat]
  /\ id2 \in [Slots -> Int] /\ copy2 \in [Slots -> Copied] /\ todo2 \in [Slots -> Nat]
  /\ n \in Nat /\ n >= 1 /\ o[h] + n <= StepEvents /\ id[h] >= 1
  /\ \A s \in Slots : Holds(t, h, s, SEGMENT_BUFFER_SIZE) \/ s = h
       => id2[s] = id[s] /\ copy2[s] = copy[s]
  /\ \A s \in Slots : Holds(t, h, s, SEGMENT_BUFFER_SIZE)
       => todo2[s] = todo[s]
  /\ todo2[h] = n
  /\ IF o[h] + n < StepEvents
     THEN id2[NextSlot(h)] = id[h] /\ copy2[NextSlot(h)] = copy[h]
     ELSE /\ id2[NextSlot(h)] = id[h] + 1
          /\ copy2[NextSlot(h)] = NextCopy(copy[h])

LEMMA PublishedChain ==
  ASSUME NEW t, NEW h, NEW o, NEW e, NEW id, NEW copy, NEW todo,
         NEW id2, NEW copy2, NEW todo2, NEW n,
         Publishes(t, h, id, copy, todo, o, id2, copy2, todo2, n),
         Following(t, h, id, copy, todo, o, e)
  PROVE  Following(t, NextSlot(h), id2, copy2, todo2,
                   [o EXCEPT ![NextSlot(h)] =
                      IF o[h] + n < StepEvents THEN o[h] + n ELSE 0], e)
<1> USE DEF Publishes
<1> DEFINE g == NextSlot(h)
           p == [o EXCEPT ![g] = IF o[h] + n < StepEvents THEN o[h] + n ELSE 0]
<1>1. g \in Slots /\ g # h /\ g # t
  BY HeadAdvances
<1>2. \A s \in Slots : Holds(t, g, s, SEGMENT_BUFFER_SIZE) <=>
        Holds(t, h, s, SEGMENT_BUFFER_SIZE) \/ s = h
  BY HeadAdvances
<1>3. \A s \in Slots : Holds(t, h, s, SEGMENT_BUFFER_SIZE) =>
        /\ Holds(t, h, NextSlot(s), SEGMENT_BUFFER_SIZE) \/ NextSlot(s) = h
        /\ NextSlot(s) # g /\ s # g /\ s # h
        /\ Ahead(s, g, SEGMENT_BUFFER_SIZE) = Ahead(s, h, SEGMENT_BUFFER_SIZE) + 1
        /\ Ahead(s, g, SEGMENT_BUFFER_SIZE) <= SEGMENT_BUFFER_SIZE - 1
  BY HeadAdvances
<1>4. o \in Offsets /\ p \in Offsets /\ o[h] \in 0 .. StepEvents - 1
  BY Sizes, <1>1 DEF Following, Offsets
<1>5. p[g] = (IF o[h] + n < StepEvents THEN o[h] + n ELSE 0)
       /\ \A s \in Slots : s # g => p[s] = o[s]
  BY <1>1, <1>4 DEF Offsets
<1> HIDE DEF g, p
<1>6. Chained(t, g, id2, copy2, todo2, p)
  <2> SUFFICES ASSUME NEW s \in Slots, Holds(t, g, s, SEGMENT_BUFFER_SIZE)
               PROVE  /\ todo2[s] >= 1
                      /\ \/ /\ p[NextSlot(s)] = p[s] + todo2[s]
                            /\ id2[NextSlot(s)] = id2[s]
                            /\ copy2[NextSlot(s)] = copy2[s]
                         \/ /\ p[NextSlot(s)] = 0 /\ p[s] + todo2[s] = StepEvents
                            /\ id2[NextSlot(s)] = id2[s] + 1
                            /\ copy2[NextSlot(s)] = NextCopy(copy2[s])
    BY DEF Chained
  <2>1. CASE s = h
    <3>1. NextSlot(s) = g
      BY <2>1 DEF g
    <3>2. p[h] = o[h]
      BY <1>1, <1>5
    <3>3. CASE o[h] + n < StepEvents
      BY <2>1, <3>1, <3>2, <3>3, <1>5
    <3>4. CASE ~(o[h] + n < StepEvents)
      <4>1. o[h] + n = StepEvents
        BY <3>4, <1>4, Sizes
      <4> QED
        BY <2>1, <3>1, <3>2, <3>4, <4>1, <1>5
    <3> QED
      BY <3>3, <3>4
  <2>2. CASE s # h
    <3>1. Holds(t, h, s, SEGMENT_BUFFER_SIZE)
      BY <1>2, <2>2
    <3>2. p[s] = o[s] /\ p[NextSlot(s)] = o[NextSlot(s)]
      BY <1>3, <1>5, <3>1, SlotType
    <3>3. /\ todo[s] >= 1
          /\ \/ /\ o[NextSlot(s)] = o[s] + todo[s]
                /\ id[NextSlot(s)] = id[s]
                /\ copy[NextSlot(s)] = copy[s]
             \/ /\ o[NextSlot(s)] = 0 /\ o[s] + todo[s] = StepEvents
                /\ id[NextSlot(s)] = id[s] + 1
                /\ copy[NextSlot(s)] = NextCopy(copy[s])
      BY <3>1 DEF Following, Chained
    <3>4. id2[NextSlot(s)] = id[NextSlot(s)] /\ copy2[NextSlot(s)] = copy[NextSlot(s)]
      BY <1>3, <3>1, SlotType
    <3> QED
      BY <3>1, <3>2, <3>3, <3>4
  <2> QED
    BY <2>1, <2>2
<1>7. InTurn(t, g, id2, copy2, p)
  <2> SUFFICES ASSUME NEW s \in Slots, Holds(t, g, s, SEGMENT_BUFFER_SIZE)
               PROVE  /\ id2[s] >= 1 /\ id2[s] <= id2[g]
                      /\ id2[g] - id2[s] <= Ahead(s, g, SEGMENT_BUFFER_SIZE)
                      /\ id2[s] = id2[g] => p[g] # 0
                      /\ \/ copy2[g] = copy2[s] + (id2[g] - id2[s])
                         \/ copy2[g] = copy2[s] + (id2[g] - id2[s])
                                         - (SEGMENT_BUFFER_SIZE - 1)
    BY DEF InTurn
  <2>1. /\ o[h] + n < StepEvents /\ id2[g] = id[h] /\ copy2[g] = copy[h]
              /\ p[g] # 0
        \/ /\ id2[g] = id[h] + 1 /\ copy2[g] = NextCopy(copy[h])
    BY <1>4, <1>5 DEF g
  <2>2. copy[h] \in 0 .. SEGMENT_BUFFER_SIZE - 2 /\ id[h] \in Int
    BY DEF Copied
  <2>3. CASE s = h
    <3>1. Ahead(h, g, SEGMENT_BUFFER_SIZE) = 1
      BY <1>1, HeadAdvances DEF g
    <3>2. id2[h] = id[h] /\ copy2[h] = copy[h]
      OBVIOUS
    <3> QED
      BY Sizes, <2>1, <2>2, <2>3, <3>1, <3>2 DEF NextCopy, Wrap
  <2>4. CASE s # h
    <3>1. Holds(t, h, s, SEGMENT_BUFFER_SIZE)
      BY <1>2, <2>4
    <3>2. /\ id[s] >= 1 /\ id[s] <= id[h]
          /\ id[h] - id[s] <= Ahead(s, h, SEGMENT_BUFFER_SIZE)
          /\ \/ copy[h] = copy[s] + (id[h] - id[s])
             \/ copy[h] = copy[s] + (id[h] - id[s]) - (SEGMENT_BUFFER_SIZE - 1)
      BY <3>1 DEF Following, InTurn
    <3>3. id2[s] = id[s] /\ copy2[s] = copy[s]
      BY <3>1
    <3>4. /\ Ahead(s, g, SEGMENT_BUFFER_SIZE) = Ahead(s, h, SEGMENT_BUFFER_SIZE) + 1
          /\ Ahead(s, h, SEGMENT_BUFFER_SIZE) \in Int
          /\ Ahead(s, g, SEGMENT_BUFFER_SIZE) <= SEGMENT_BUFFER_SIZE - 1
      <4>1. Ahead(s, h, SEGMENT_BUFFER_SIZE) \in Int
        BY Sizes DEF Ahead, Slots
      <4> QED
        BY <1>3, <3>1, <4>1
    <3>5. copy[s] \in 0 .. SEGMENT_BUFFER_SIZE - 2 /\ id[s] \in Int
      BY DEF Copied
    <3>6. id2[s] # id2[g] \/ p[g] # 0
      BY <2>1, <2>2, <3>2, <3>3, <3>5
    <3> QED
      BY Sizes, <2>1, <2>2, <3>2, <3>3, <3>4, <3>5, <3>6 DEF NextCopy, Wrap
  <2> QED
    BY <2>3, <2>4
<1>8. Executing(t, g, copy2, p, e)
  <2>1. copy2[t] = copy[t] /\ p[t] = o[t]
    <3>1. Holds(t, h, t, SEGMENT_BUFFER_SIZE) \/ t = h
      BY TailHeld
    <3> QED
      BY <3>1, <1>1, <1>5
  <2> QED
    BY <2>1, <1>1 DEF Following, Executing
<1> QED
  BY <1>4, <1>6, <1>7, <1>8 DEF Following, g, p

\* The interrupt takes the segment at the tail, which begins a block or goes on
\* with one: w is its state then.
LEMMA Taken ==
  ASSUME NEW t \in Slots, NEW h \in Slots, NEW o, NEW e, NEW w,
         NEW id, NEW copy \in [Slots -> Copied], NEW todo,
         Following(t, h, id, copy, todo, o, e),
         e.exec_segment # NULL \/ t # h,
         e.exec_segment # NULL => w = e,
         e.exec_segment = NULL =>
           /\ w.exec_segment = t
           /\ w.exec_block_index = copy[t]
           /\ copy[t] # e.exec_block_index =>
                w.exec_block = copy[t] /\ w.counter = 0
           /\ copy[t] = e.exec_block_index =>
                w.exec_block = e.exec_block /\ w.counter = e.counter
  PROVE  /\ t # h /\ w.exec_segment = t
         /\ w.exec_block = copy[t] /\ w.exec_block_index = copy[t]
         /\ w.counter = o[t]
<1>1. copy[t] = NextCopy(e.exec_block_index) => copy[t] # e.exec_block_index
  BY Sizes DEF NextCopy, Wrap, Copied
<1>2. Executing(t, h, copy, o, e)
  BY DEF Following
<1>3. CASE e.exec_segment # NULL
  BY <1>2, <1>3 DEF Executing
<1>4. CASE e.exec_segment = NULL /\ o[t] = 0
  BY <1>1, <1>2, <1>4 DEF Executing
<1>5. CASE e.exec_segment = NULL /\ o[t] # 0
  BY <1>2, <1>5 DEF Executing
<1> QED
  BY <1>3, <1>4, <1>5

\* It puts out a step that is not the segment's last.
LEMMA SteppedChain ==
  ASSUME NEW t \in Slots, NEW h \in Slots, t # h, NEW o, NEW e, NEW e2,
         NEW id, NEW copy \in [Slots -> Copied],
         NEW todo \in [Slots -> Nat], NEW todo2 \in [Slots -> Nat],
         Following(t, h, id, copy, todo, o, e),
         todo[t] # 1, todo2[t] = todo[t] - 1,
         \A s \in Slots : s # t => todo2[s] = todo[s],
         e2.exec_segment = t,
         e2.exec_block = copy[t], e2.exec_block_index = copy[t],
         e2.counter = o[t] + 1
  PROVE  /\ Following(t, h, id, copy, todo2, [o EXCEPT ![t] = @ + 1], e2)
         /\ o[t] + 1 < StepEvents
<1> DEFINE p == [o EXCEPT ![t] = @ + 1]
<1>1. o \in Offsets /\ o[t] \in 0 .. StepEvents - 1
  BY Sizes DEF Following, Offsets
<1>2. Holds(t, h, t, SEGMENT_BUFFER_SIZE) /\ NextSlot(t) \in Slots /\ NextSlot(t) # t
  BY Sizes, TailHeld DEF NextSlot, Wrap, Slots
<1>3. /\ todo[t] >= 1
      /\ \/ o[NextSlot(t)] = o[t] + todo[t]
         \/ o[t] + todo[t] = StepEvents
  BY <1>2 DEF Following, Chained
<1>4. o[NextSlot(t)] \in 0 .. StepEvents - 1 /\ todo[t] \in Nat
  BY <1>1, <1>2 DEF Offsets
<1>5. o[t] + 1 < StepEvents
  BY Sizes, <1>1, <1>3, <1>4
<1>6. p \in Offsets
  BY Sizes, <1>1, <1>5 DEF Offsets
<1>7. p[t] = o[t] + 1 /\ \A s \in Slots : s # t => p[s] = o[s]
  BY <1>1 DEF Offsets
<1> HIDE DEF p
<1>8. \A s \in Slots : Holds(t, h, s, SEGMENT_BUFFER_SIZE) => NextSlot(s) # t
  BY Sizes DEF Slots, NextSlot, Wrap, Holds, Ahead
<1>9. Chained(t, h, id, copy, todo2, p)
  <2> SUFFICES ASSUME NEW s \in Slots, Holds(t, h, s, SEGMENT_BUFFER_SIZE)
               PROVE  /\ todo2[s] >= 1
                      /\ \/ /\ p[NextSlot(s)] = p[s] + todo2[s]
                            /\ id[NextSlot(s)] = id[s]
                            /\ copy[NextSlot(s)] = copy[s]
                         \/ /\ p[NextSlot(s)] = 0 /\ p[s] + todo2[s] = StepEvents
                            /\ id[NextSlot(s)] = id[s] + 1
                            /\ copy[NextSlot(s)] = NextCopy(copy[s])
    BY DEF Chained
  <2>1. p[NextSlot(s)] = o[NextSlot(s)]
    BY <1>7, <1>8, SlotType
  <2>2. /\ todo[s] >= 1
        /\ \/ /\ o[NextSlot(s)] = o[s] + todo[s]
              /\ id[NextSlot(s)] = id[s]
              /\ copy[NextSlot(s)] = copy[s]
           \/ /\ o[NextSlot(s)] = 0 /\ o[s] + todo[s] = StepEvents
              /\ id[NextSlot(s)] = id[s] + 1
              /\ copy[NextSlot(s)] = NextCopy(copy[s])
    BY DEF Following, Chained
  <2>3. todo2[s] >= 1 /\ p[s] + todo2[s] = o[s] + todo[s]
    <3>1. CASE s = t
      BY <3>1, <1>1, <1>3, <1>4, <1>7
    <3>2. CASE s # t
      BY <3>2, <2>2, <1>7
    <3> QED
      BY <3>1, <3>2
  <2> QED
    BY <2>1, <2>2, <2>3
<1>10. p[h] = o[h]
  BY <1>7
<1>11. InTurn(t, h, id, copy, p)
  BY <1>10 DEF Following, InTurn
<1>12. Executing(t, h, copy, p, e2)
  <2>1. t # NULL
    BY Sizes DEF NULL, Slots
  <2> QED
    BY <1>7, <2>1 DEF Executing
<1> QED
  BY <1>5, <1>6, <1>9, <1>11, <1>12 DEF Following, p

\* It puts out the last step of the segment.
LEMMA FinishedChain ==
  ASSUME NEW t \in Slots, NEW h \in Slots, t # h, NEW o, NEW e, NEW e2,
         NEW id, NEW copy \in [Slots -> Copied],
         NEW todo, NEW todo2,
         Following(t, h, id, copy, todo, o, e), todo[t] = 1,
         \A s \in Slots : s # t => todo2[s] = todo[s],
         e2.exec_segment = NULL, e2.exec_block = copy[t],
         e2.exec_block_index = copy[t], e2.counter = o[t] + 1
  PROVE  Following(NextSlot(t), h, id, copy, todo2, o, e2)
<1>1. Holds(t, h, t, SEGMENT_BUFFER_SIZE)
  BY TailHeld
<1>2. \A s \in Slots : Holds(NextSlot(t), h, s, SEGMENT_BUFFER_SIZE) =>
        Holds(t, h, s, SEGMENT_BUFFER_SIZE) /\ s # t
  BY Sizes DEF Slots, NextSlot, Wrap, Holds, Ahead
<1>3. o \in Offsets /\ o[t] \in 0 .. StepEvents - 1
  BY DEF Following, Offsets
<1>4. Chained(NextSlot(t), h, id, copy, todo2, o)
  BY <1>2 DEF Following, Chained
<1>5. InTurn(NextSlot(t), h, id, copy, o)
  BY <1>2 DEF Following, InTurn
<1>6. \/ o[NextSlot(t)] = o[t] + 1 /\ copy[NextSlot(t)] = copy[t]
      \/ o[NextSlot(t)] = 0 /\ copy[NextSlot(t)] = NextCopy(copy[t])
  BY <1>1 DEF Following, Chained
<1>7. o[t] + 1 # 0
  BY <1>3
<1>8. Executing(NextSlot(t), h, copy, o, e2)
  BY <1>6, <1>7 DEF Executing
<1> QED
  BY <1>3, <1>4, <1>5, <1>8 DEF Following

-----------------------------------------------------------------------------
(***************************************************************************)
(* The steps of the motion path preserve the invariant.                    *)
(***************************************************************************)
LEMMA MotionTypes ==
  ASSUME MotionTypeOK
  PROVE  /\ block_buffer \in [Blocks -> [id : 0 .. MaxBlocks, left : 0 .. StepEvents]]
         /\ block_buffer_head \in Blocks /\ block_buffer_tail \in Blocks
         /\ pl_block \in {NULL} \cup Blocks
         /\ prep \in [flag_partial_block : BOOLEAN, moving : BOOLEAN,
                      exit : BOOLEAN, st_block_index : Copied]
         /\ st_block_buffer \in [Copied -> 0 .. MaxBlocks]
         /\ segment_buffer \in [Slots -> [st_block_index : Copied,
                                         n_step : 0 .. StepEvents]]
         /\ segment_buffer_head \in Slots /\ segment_buffer_tail \in Slots
         /\ st \in [exec_segment : {NULL} \cup Slots,
                    step_count : 0 .. StepEvents,
                    exec_block_index : Copied,
                    exec_block : {NULL} \cup Copied,
                    counter : 0 .. StepEvents]
         /\ timer \in BOOLEAN
         /\ accepted \in 0 .. MaxBlocks
         /\ motor \in (0 .. MaxBlocks) \X (0 .. StepEvents)
BY Zenon DEF MotionTypeOK, Blocks, Slots, Copied

LEMMA MotionIntegers ==
  ASSUME MotionTypeOK
  PROVE  /\ accepted \in Nat
         /\ prep.st_block_index \in Copied
         /\ st.step_count \in Nat /\ st.counter \in Nat
         /\ \A c \in Copied : st_block_buffer[c] \in Nat
         /\ \A s \in Slots : /\ segment_buffer[s].st_block_index \in Copied
                            /\ segment_buffer[s].n_step \in Nat
         /\ \A i \in Blocks : /\ block_buffer[i].id \in Nat
                             /\ block_buffer[i].left \in 0 .. StepEvents
<1> USE Sizes, MotionTypes
<1>1. accepted \in Nat
  OBVIOUS
<1>2. prep.st_block_index \in Copied
  OBVIOUS
<1>3. st.step_count \in Nat /\ st.counter \in Nat
  OBVIOUS
<1>4. \A c \in Copied : st_block_buffer[c] \in Nat
  OBVIOUS
<1>5. \A s \in Slots : segment_buffer[s] \in [st_block_index : Copied,
                                               n_step : 0 .. StepEvents]
  OBVIOUS
<1>6. \A i \in Blocks : block_buffer[i] \in [id : 0 .. MaxBlocks,
                                             left : 0 .. StepEvents]
  OBVIOUS
<1> QED
  BY <1>1, <1>2, <1>3, <1>4, <1>5, <1>6

LEMMA WaitingType ==
  MotionTypeOK => /\ Waiting \in 0 .. BLOCK_BUFFER_SIZE - 1
                  /\ Waiting = 0 <=> block_buffer_head = block_buffer_tail
                  /\ NextId \in Int
<1> SUFFICES ASSUME MotionTypeOK
             PROVE  /\ Waiting \in 0 .. BLOCK_BUFFER_SIZE - 1
                    /\ Waiting = 0 <=> block_buffer_head = block_buffer_tail
                    /\ NextId \in Int
  OBVIOUS
<1>1. /\ block_buffer_head \in Blocks /\ block_buffer_tail \in Blocks
      /\ accepted \in Nat
  BY MotionTypes, MotionIntegers
<1> QED
  BY <1>1, Sizes DEF Blocks, Waiting, Ahead, NextId

LEMMA HeadBlock ==
  ASSUME MotionTypeOK, Planned, block_buffer_head # block_buffer_tail
  PROVE  /\ block_buffer[block_buffer_tail].id = NextId
         /\ block_buffer[block_buffer_tail].left \in 1 .. StepEvents
         /\ NextId <= accepted
         /\ NextOffset = StepEvents - block_buffer[block_buffer_tail].left
<1>1. block_buffer_tail \in Blocks /\ block_buffer_head \in Blocks
  BY MotionTypes
<1>2. Holds(block_buffer_tail, block_buffer_head, block_buffer_tail, BLOCK_BUFFER_SIZE)
  BY <1>1, Sizes DEF Blocks, Holds, Ahead
<1>3. /\ block_buffer[block_buffer_tail].id = NextId
      /\ block_buffer[block_buffer_tail].left >= 1
  BY <1>1, <1>2 DEF Planned, NextId, Waiting
<1>4. block_buffer[block_buffer_tail].left \in 0 .. StepEvents
  BY <1>1, MotionIntegers
<1>5. NextId <= accepted
  BY WaitingType, MotionIntegers DEF NextId
<1> QED
  BY <1>3, <1>4, <1>5, Sizes DEF NextOffset

Views ==
  /\ Ids \in [Slots -> Int] /\ Copy \in [Slots -> Copied]
  /\ Todo \in [Slots -> Nat]
  /\ PrepIndex \in Copied
  /\ NextId >= 1 /\ NextOffset \in 0 .. StepEvents - 1

LEMMA ViewTypes == MotionTypeOK /\ Planned => Views
<1> SUFFICES ASSUME MotionTypeOK, Planned
             PROVE  /\ Ids \in [Slots -> Int] /\ Copy \in [Slots -> Copied]
                    /\ Todo \in [Slots -> Nat]
                    /\ PrepIndex \in Copied
                    /\ NextId >= 1 /\ NextOffset \in 0 .. StepEvents - 1
  BY DEF Views
<1>1. PrepIndex \in Copied
  BY Sizes, MotionIntegers DEF PrepIndex, Wrap, Copied
<1>2. \A s \in Slots : segment_buffer[s].st_block_index \in Copied
                       /\ segment_buffer[s].n_step \in Nat
  BY MotionIntegers
<1>3. \A c \in Copied : st_block_buffer[c] \in Int
  BY MotionIntegers
<1>4. NextId \in Int
  BY WaitingType
<1>5. st.step_count \in Nat
  BY MotionIntegers
<1>6. NextOffset \in 0 .. StepEvents - 1
  <2>1. CASE block_buffer_head = block_buffer_tail
    BY <2>1, Sizes DEF NextOffset
  <2>2. CASE block_buffer_head # block_buffer_tail
    BY <2>2, Sizes, HeadBlock
  <2> QED
    BY <2>1, <2>2
<1>7. Ids \in [Slots -> Int]
  BY <1>2, <1>3, <1>4 DEF Ids
<1>8. Copy \in [Slots -> Copied]
  BY <1>1, <1>2 DEF Copy
<1>9. Todo \in [Slots -> Nat]
  BY <1>2, <1>5 DEF Todo
<1> QED
  BY <1>1, <1>6, <1>7, <1>8, <1>9 DEF Planned

LEMMA ViewTypesNext == MotionTypeOK' /\ Planned' => Views'
BY ViewTypes, PTL

LEMMA AtType ==
  ASSUME MotionTypeOK, Planned, NEW o, Follows(o)
  PROVE  /\ At(o) \in Int
         /\ Ids[segment_buffer_tail] \in Int
         /\ o[segment_buffer_tail] \in 0 .. StepEvents - 1
<1>1. segment_buffer_tail \in Slots
  BY MotionTypes
<1>2. Ids[segment_buffer_tail] \in Int
  BY <1>1, ViewTypes DEF Views
<1>3. o[segment_buffer_tail] \in 0 .. StepEvents - 1
  BY <1>1, Sizes DEF Follows, Following, Offsets
<1> QED
  BY <1>2, <1>3, Sizes DEF At

LEMMA MovesOn ==
  ASSUME MotionInv, NEW n, Moves(n)
  PROVE  MotionInv'
<1>1. PICK o : Follows(o)
  BY DEF MotionInv
<1>2. PICK p : Follows(p)'
  BY <1>1 DEF Moves
<1> QED
  BY <1>2 DEF MotionInv, Moves

\* Nothing that is followed has changed.
LEMMA Unfollowed ==
  ASSUME MotionInv, MotionTypeOK', Planned',
         UNCHANGED <<Ids, Copy, Todo, NextOffset, segment_buffer_tail,
                     segment_buffer_head, st>>
  PROVE  Moves(0)
<1>1. ASSUME NEW o, Follows(o)
      PROVE  Follows(o)' /\ At(o)' = At(o) + 0
  <2>1. Follows(o)'
    BY <1>1 DEF Follows
  <2>2. At(o)' = At(o)
    BY DEF At
  <2>3. At(o) \in Int
    BY <1>1, AtType DEF MotionInv
  <2> QED
    BY <2>1, <2>2, <2>3
<1> QED
  BY <1>1 DEF Moves

\* Motors and rings are left alone.
LEMMA Unmoved ==
  ASSUME MotionInv, timer' \in BOOLEAN,
         UNCHANGED <<plannerVars, prepVars, segment_buffer_tail, st, motor>>
  PROVE  Moves(0)
<1>1. UNCHANGED <<Ids, Copy, Todo, NextOffset, segment_buffer_tail,
                  segment_buffer_head, st>>
  BY DEF Ids, Copy, Todo, NextId, Waiting, NextOffset, Begun, PrepIndex,
         plannerVars, prepVars
<1>2. MotionTypeOK' /\ Planned'
  BY DEF MotionInv, MotionTypeOK, Planned, NextId, Waiting, NextOffset, Begun,
         plannerVars, prepVars
<1> QED
  BY <1>1, <1>2, Unfollowed

\* st_update_plan_block_parameters() has the next segment prepared as before.
LEMMA UpdateMotion ==
  ASSUME MotionInv, UpdatePlanBlockParameters,
         UNCHANGED <<plannerVars, st_block_buffer, segment_buffer,
                     segment_buffer_head, isrVars>>
  PROVE  Moves(0)
<1>1. /\ Begun' = Begun
      /\ prep'.st_block_index = prep.st_block_index
  BY DEF MotionInv, MotionTypeOK, UpdatePlanBlockParameters, Begun
<1>2. MotionTypeOK'
  BY DEF MotionInv, MotionTypeOK, UpdatePlanBlockParameters, plannerVars, isrVars
<1>3. PrepIndex' = PrepIndex
  BY <1>1 DEF PrepIndex, Begun
<1>4. UNCHANGED <<NextId, NextOffset>>
  BY DEF NextId, NextOffset, Waiting, plannerVars
<1>5. Planned'
  BY <1>1, <1>4 DEF MotionInv, Planned, UpdatePlanBlockParameters, plannerVars
<1>6. UNCHANGED <<Ids, Copy, Todo>>
  BY <1>3, <1>4 DEF Ids, Copy, Todo, isrVars
<1>7. UNCHANGED <<segment_buffer_tail, segment_buffer_head, st>>
  BY DEF isrVars
<1> QED
  BY <1>2, <1>4, <1>5, <1>6, <1>7, Unfollowed

\* plan_buffer_line() appends a whole block.
LEMMA PlanMotion ==
  ASSUME MotionInv, PlanBufferLine, ~plan_check_full_buffer
  PROVE  Moves(0)
<1> DEFINE h == block_buffer_head
           t == block_buffer_tail
           g == plan_next_block_index(block_buffer_head)
<1> USE Sizes
<1>0. MotionTypeOK /\ Planned
  BY DEF MotionInv
<1>1. h \in Blocks /\ t \in Blocks /\ g \in Blocks /\ g # t /\ g # h
  <2>1. h \in Blocks /\ t \in Blocks
    BY <1>0, MotionTypes
  <2> QED
    BY <2>1 DEF Blocks, plan_next_block_index, Wrap, plan_check_full_buffer
<1>2. /\ accepted' = accepted + 1 /\ accepted < MaxBlocks
      /\ block_buffer' = [block_buffer EXCEPT ![h] =
                            [id |-> accepted + 1, left |-> StepEvents]]
      /\ block_buffer_head' = g
      /\ UNCHANGED <<block_buffer_tail, st_block_buffer, segment_buffer,
                     segment_buffer_head, segment_buffer_tail, st, timer, motor>>
  BY DEF PlanBufferLine, isrVars
<1>3. /\ block_buffer' \in [Blocks -> [id : 0 .. MaxBlocks, left : 0 .. StepEvents]]
      /\ block_buffer'[h] = [id |-> accepted + 1, left |-> StepEvents]
      /\ \A i \in Blocks : i # h => block_buffer'[i] = block_buffer[i]
  BY <1>0, <1>1, <1>2, MotionTypes
<1>4. /\ Begun' = Begun
      /\ prep'.st_block_index = prep.st_block_index
      /\ pl_block' \in {NULL, pl_block}
      /\ prep' \in [flag_partial_block : BOOLEAN, moving : BOOLEAN, exit : BOOLEAN,
                    st_block_index : 0 .. SEGMENT_BUFFER_SIZE - 2]
  BY DEF MotionInv, MotionTypeOK, PlanBufferLine, UpdatePlanBlockParameters, Begun
<1>5. MotionTypeOK'
  BY <1>1, <1>2, <1>3, <1>4 DEF MotionInv, MotionTypeOK, Blocks
<1>6. \A i \in Blocks :
        /\ Holds(t, g, i, BLOCK_BUFFER_SIZE) <=>
             Holds(t, h, i, BLOCK_BUFFER_SIZE) \/ i = h
        /\ Holds(t, h, i, BLOCK_BUFFER_SIZE) =>
             /\ i # h
             /\ Ahead(i, g, BLOCK_BUFFER_SIZE) = Ahead(i, h, BLOCK_BUFFER_SIZE) + 1
             /\ Ahead(i, h, BLOCK_BUFFER_SIZE) \in Int
        /\ Ahead(h, g, BLOCK_BUFFER_SIZE) = 1
  BY <1>1 DEF Blocks, plan_next_block_index, Wrap, Holds, Ahead
<1>7. Ahead(t, g, BLOCK_BUFFER_SIZE) = Ahead(t, h, BLOCK_BUFFER_SIZE) + 1
        /\ Ahead(t, h, BLOCK_BUFFER_SIZE) \in Int
  BY <1>1 DEF Blocks, plan_next_block_index, Wrap, Ahead
<1>8. accepted \in Int /\ MotionTypeOK /\ Planned
  BY <1>0, MotionIntegers
<1>9. NextId' = NextId
  BY <1>2, <1>7, <1>8 DEF NextId, Waiting
<1>10. NextOffset' = NextOffset
  <2>1. CASE h = t
    BY <2>1, <1>1, <1>2, <1>3 DEF NextOffset
  <2>2. CASE h # t
    BY <2>2, <1>1, <1>2, <1>3 DEF NextOffset
  <2> QED
    BY <2>1, <2>2
<1>11. Planned'
  <2>1. \A i \in Blocks : Holds(t, g, i, BLOCK_BUFFER_SIZE) =>
          /\ block_buffer'[i].id = (accepted + 1) - Ahead(i, g, BLOCK_BUFFER_SIZE) + 1
          /\ block_buffer'[i].left >= 1
          /\ i # t => block_buffer'[i].left = StepEvents
    <3> SUFFICES ASSUME NEW i \in Blocks, Holds(t, g, i, BLOCK_BUFFER_SIZE)
                 PROVE  /\ block_buffer'[i].id =
                             (accepted + 1) - Ahead(i, g, BLOCK_BUFFER_SIZE) + 1
                        /\ block_buffer'[i].left >= 1
                        /\ i # t => block_buffer'[i].left = StepEvents
      OBVIOUS
    <3>1. CASE i = h
      BY <3>1, <1>3, <1>6, <1>8
    <3>2. CASE i # h
      <4>1. Holds(t, h, i, BLOCK_BUFFER_SIZE)
        BY <3>2, <1>6
      <4>2. block_buffer[i].id = accepted - Ahead(i, h, BLOCK_BUFFER_SIZE) + 1
        BY <4>1, <1>8 DEF Planned
      <4> QED
        BY <3>2, <4>1, <4>2, <1>3, <1>6, <1>8 DEF Planned
    <3> QED
      BY <3>1, <3>2
  <2>2. NextId >= 1 /\ (Begun => h # t)
    BY <1>8 DEF Planned
  <2>3. Begun => g # t
    BY <1>1
  <2>4. /\ pl_block \in {NULL, t}
        /\ Begun => st_block_buffer[prep.st_block_index] = NextId
        /\ ~Begun => NextOffset = 0
    BY <1>8 DEF Planned
  <2>5. pl_block' \in {NULL, t}
    BY <2>4, <1>4
  <2>6. /\ Begun' => st_block_buffer'[prep'.st_block_index] = NextId'
        /\ ~Begun' => NextOffset' = 0
    BY <2>4, <1>2, <1>4, <1>9, <1>10
  <2>7. \A i \in Blocks :
          Holds(block_buffer_tail', block_buffer_head', i, BLOCK_BUFFER_SIZE) =>
          /\ block_buffer'[i].id =
               accepted' - Ahead(i, block_buffer_head', BLOCK_BUFFER_SIZE) + 1
          /\ block_buffer'[i].left >= 1
          /\ i # block_buffer_tail' => block_buffer'[i].left = StepEvents
    <3>1. /\ block_buffer_tail' = t /\ block_buffer_head' = g
          /\ accepted' = accepted + 1
      BY <1>2
    <3> QED
      BY <2>1, <3>1, Zenon
  <2> QED
    BY <1>2, <1>4, <1>9, <2>2, <2>3, <2>5, <2>6, <2>7 DEF Planned
<1>12. PrepIndex' = PrepIndex
  BY <1>4 DEF PrepIndex, Begun
<1>13. UNCHANGED <<Ids, Copy, Todo>>
  BY <1>2, <1>9, <1>12 DEF Ids, Copy, Todo
<1> QED
  BY <1>2, <1>5, <1>10, <1>11, <1>13, Unfollowed

\* plan_reset() and st_reset().
LEMMA ResetMotion ==
  ASSUME MotionInv, PlanReset, StReset
  PROVE  MotionInv' /\ accepted' = accepted
<1> USE Sizes
<1>1. MotionTypeOK'
  <2>1. MotionTypeOK
    BY DEF MotionInv
  <2>2. /\ UNCHANGED <<block_buffer, accepted, st_block_buffer, segment_buffer, motor>>
        /\ block_buffer_head' = 0 /\ block_buffer_tail' = 0
        /\ segment_buffer_head' = 0 /\ segment_buffer_tail' = 0
        /\ pl_block' = NULL /\ timer' = FALSE
    BY DEF PlanReset, StReset, GoIdle
  <2>3. prep' \in [flag_partial_block : BOOLEAN, moving : BOOLEAN, exit : BOOLEAN,
                   st_block_index : 0 .. SEGMENT_BUFFER_SIZE - 2]
    BY DEF StReset
  <2>4. st' \in [exec_segment : {NULL} \cup 0 .. SEGMENT_BUFFER_SIZE - 1,
                 step_count : 0 .. StepEvents,
                 exec_block_index : 0 .. SEGMENT_BUFFER_SIZE - 2,
                 exec_block : {NULL} \cup 0 .. SEGMENT_BUFFER_SIZE - 2,
                 counter : 0 .. StepEvents]
    BY DEF StReset
  <2>5. 0 \in 0 .. BLOCK_BUFFER_SIZE - 1 /\ 0 \in 0 .. SEGMENT_BUFFER_SIZE - 1
    OBVIOUS
  <2> QED
    BY <2>1, <2>2, <2>3, <2>4, <2>5, Zenon DEF MotionTypeOK
<1>3. accepted' = accepted /\ accepted >= 0 /\ accepted \in Int
  BY MotionIntegers DEF MotionInv, PlanReset
<1>2. Waiting' = 0 /\ NextId' = accepted + 1 /\ NextOffset' = 0 /\ ~Begun'
  BY <1>3 DEF PlanReset, StReset, Waiting, Ahead, NextId, NextOffset, Begun
<1>4. Planned'
  BY <1>2, <1>3 DEF Planned, PlanReset, StReset, Holds, Ahead, Blocks
<1> DEFINE o == [s \in Slots |-> 0]
<1>5. o \in Offsets
  BY DEF Offsets
<1>6. \A s \in Slots : o[s] = 0
  OBVIOUS
<1>7. 0 \in Slots
  BY DEF Slots
<1> HIDE DEF o
<1>8. segment_buffer_tail' = 0 /\ segment_buffer_head' = 0
  BY DEF StReset
<1>9. Copy'[0] = NextCopy(0)
  BY <1>2, <1>7, <1>8 DEF Copy, PrepIndex, Begun, StReset, NextCopy
<1>10. \A s \in Slots : ~Holds(0, 0, s, SEGMENT_BUFFER_SIZE)
  BY DEF Holds, Ahead, Slots
<1>11. Following(0, 0, Ids', Copy', Todo', o, st')
  BY <1>5, <1>6, <1>7, <1>9, <1>10
     DEF Following, Chained, InTurn, Executing, StReset
<1>12. Follows(o)'
  BY <1>2, <1>6, <1>7, <1>8, <1>11 DEF Follows
<1> QED
  BY <1>1, <1>3, <1>4, <1>12 DEF MotionInv


\* st_prep_buffer() has a block to check out, and a slot to put a segment into.
LEMMA Prepares ==
  ASSUME MotionInv, ~PrepReturns
  PROVE  /\ block_buffer_head # block_buffer_tail
         /\ NextSlot(segment_buffer_head) # segment_buffer_tail
<1>1. block_buffer_tail # NULL
  BY Sizes, MotionTypes DEF MotionInv, Blocks, NULL
<1>2. block_buffer_head # block_buffer_tail
  <2>1. CASE pl_block # NULL
    BY <2>1 DEF MotionInv, Planned, Begun
  <2>2. CASE pl_block = NULL
    BY <1>1, <2>2 DEF PrepReturns, plan_get_current_block
  <2> QED
    BY <2>1, <2>2
<1> QED
  BY <1>2 DEF PrepReturns, segment_next_head, NextSlot

\* Copying a block's step data overwrites none that a segment uses.
LEMMA LoadMotion ==
  ASSUME MotionInv, ~PrepReturns, LoadBlock, NEW o, Follows(o)
  PROVE  /\ st_block_buffer' \in [Copied -> 0 .. MaxBlocks]
         /\ st_block_buffer'[PrepIndex] = NextId
         /\ \A s \in Slots :
              Holds(segment_buffer_tail, segment_buffer_head, s, SEGMENT_BUFFER_SIZE)
              => st_block_buffer'[segment_buffer[s].st_block_index] =
                   st_block_buffer[segment_buffer[s].st_block_index]
<1> USE Sizes
<1>1. MotionTypeOK /\ Planned
  BY DEF MotionInv
<1>2. /\ block_buffer_head # block_buffer_tail
      /\ NextSlot(segment_buffer_head) # segment_buffer_tail
  BY Prepares
<1>3. /\ segment_buffer_head \in Slots /\ segment_buffer_tail \in Slots
      /\ prep.st_block_index \in Copied /\ PrepIndex \in Copied
      /\ st_block_buffer \in [Copied -> 0 .. MaxBlocks]
      /\ NextId \in Int /\ NextId >= 1
  BY <1>1, MotionTypes, MotionIntegers, ViewTypes, WaitingType DEF Views
<1>4. CASE Begun
  <2>1. PrepIndex = prep.st_block_index
    BY <1>4 DEF Begun, PrepIndex
  <2>2. st_block_buffer' = st_block_buffer
    BY <2>1 DEF LoadBlock
  <2> QED
    BY <1>1, <1>3, <1>4, <2>1, <2>2 DEF Planned
<1>5. CASE ~Begun
  <2>1. PrepIndex = NextCopy(prep.st_block_index)
    BY <1>5 DEF Begun, PrepIndex, NextCopy
  <2>2. PrepIndex # prep.st_block_index
    BY <1>3, <2>1 DEF NextCopy, Wrap, Copied
  <2>3. /\ block_buffer[block_buffer_tail].id = NextId
        /\ NextId <= accepted
    BY <1>1, <1>2, HeadBlock
  <2>4. st_block_buffer' = [st_block_buffer EXCEPT ![PrepIndex] = NextId]
    BY <2>2, <2>3 DEF LoadBlock
  <2>5. NextId \in 0 .. MaxBlocks
    <3>1. accepted \in 0 .. MaxBlocks
      BY <1>1, MotionTypes
    <3> QED
      BY <1>3, <2>3, <3>1
  <2>6. ASSUME NEW s \in Slots,
               Holds(segment_buffer_tail, segment_buffer_head, s, SEGMENT_BUFFER_SIZE)
        PROVE  segment_buffer[s].st_block_index # PrepIndex
    <3> DEFINE h == segment_buffer_head
    <3>1. s # h /\ Ahead(s, h, SEGMENT_BUFFER_SIZE) <= SEGMENT_BUFFER_SIZE - 2
          /\ Ahead(s, h, SEGMENT_BUFFER_SIZE) \in Int
      BY <1>2, <1>3, <2>6 DEF Slots, NextSlot, Wrap, Holds, Ahead
    <3>2. /\ Copy[h] = PrepIndex /\ Copy[s] = segment_buffer[s].st_block_index
          /\ Copy[h] \in Copied /\ Copy[s] \in Copied
          /\ Ids[h] \in Int /\ Ids[s] \in Int
      BY <1>1, <1>3, <3>1, ViewTypes DEF Views, Copy
    <3>3. o[h] = 0
      BY <1>1, <1>5 DEF Follows, Planned
    <3>4. /\ Ids[s] <= Ids[h]
          /\ Ids[h] - Ids[s] <= Ahead(s, h, SEGMENT_BUFFER_SIZE)
          /\ Ids[s] # Ids[h]
          /\ \/ Copy[h] = Copy[s] + (Ids[h] - Ids[s])
             \/ Copy[h] = Copy[s] + (Ids[h] - Ids[s]) - (SEGMENT_BUFFER_SIZE - 1)
      BY <2>6, <3>3 DEF Follows, Following, InTurn
    <3> QED
      BY <3>1, <3>2, <3>4 DEF Copied
  <2>7. /\ st_block_buffer' \in [Copied -> 0 .. MaxBlocks]
        /\ st_block_buffer'[PrepIndex] = NextId
        /\ \A c \in Copied : c # PrepIndex => st_block_buffer'[c] = st_block_buffer[c]
    BY <1>3, <2>4, <2>5
  <2> QED
    BY <1>1, <2>6, <2>7, MotionIntegers
<1> QED
  BY <1>4, <1>5

\* A segment of n steps is published, the last of the block or not.
LEMMA PublishMotion ==
  ASSUME MotionInv, ~PrepReturns, LoadBlock, NEW n \in 1 .. StepEvents,
         PublishSegment(n), NextOffset + n <= StepEvents,
         UNCHANGED <<segment_buffer_tail, st>>,
         MotionTypeOK', Planned',
         IF NextOffset + n < StepEvents
         THEN NextId' = NextId /\ PrepIndex' = PrepIndex /\ NextOffset' = NextOffset + n
         ELSE NextId' = NextId + 1 /\ PrepIndex' = NextCopy(PrepIndex) /\ NextOffset' = 0
  PROVE  Moves(0)
<1> USE Sizes
<1> DEFINE h == segment_buffer_head
           t == segment_buffer_tail
           g == NextSlot(segment_buffer_head)
<1>1. MotionTypeOK /\ Planned
  BY DEF MotionInv
<1>2. g # t
  BY Prepares
<1>3. /\ h \in Slots /\ t \in Slots /\ PrepIndex \in Copied
      /\ Ids \in [Slots -> Int] /\ Copy \in [Slots -> Copied]
      /\ Todo \in [Slots -> Nat] /\ NextId >= 1
      /\ segment_buffer \in [Slots -> [st_block_index : Copied, n_step : 0 .. StepEvents]]
  BY <1>1, MotionTypes, ViewTypes DEF Views
<1>4. /\ Ids' \in [Slots -> Int] /\ Copy' \in [Slots -> Copied]
      /\ Todo' \in [Slots -> Nat]
  BY ViewTypesNext DEF Views
<1>5. g \in Slots /\ g # h
  BY <1>2, <1>3, HeadAdvances
<1>6. /\ segment_buffer_head' = g /\ segment_buffer_tail' = t /\ st' = st
      /\ segment_buffer' = [segment_buffer EXCEPT ![h] =
                              [st_block_index |-> PrepIndex, n_step |-> n]]
  BY DEF PublishSegment, segment_next_head, NextSlot
<1>7. /\ segment_buffer'[h] = [st_block_index |-> PrepIndex, n_step |-> n]
      /\ \A s \in Slots : s # h => segment_buffer'[s] = segment_buffer[s]
  BY <1>3, <1>6
<1> SUFFICES ASSUME NEW o, Follows(o)
             PROVE  \E p : Follows(p)' /\ At(p)' = At(o) + 0
  BY DEF Moves
<1>8. /\ st_block_buffer'[PrepIndex] = NextId
      /\ \A s \in Slots : Holds(t, h, s, SEGMENT_BUFFER_SIZE)
           => st_block_buffer'[segment_buffer[s].st_block_index] =
                st_block_buffer[segment_buffer[s].st_block_index]
  BY LoadMotion
<1>9. \A s \in Slots : Holds(t, h, s, SEGMENT_BUFFER_SIZE) => s # h /\ s # g
  BY <1>2, <1>3, HeadAdvances
<1>10. /\ Following(t, h, Ids, Copy, Todo, o, st)
       /\ o \in Offsets /\ o[h] = NextOffset
  BY DEF Follows, Following
<1>11. t = h => st.exec_segment = NULL
  BY <1>10 DEF Following, Executing
<1> HIDE DEF h, t, g
<1>12. /\ Ids[h] = NextId /\ Copy[h] = PrepIndex
       /\ Ids'[g] = NextId' /\ Copy'[g] = PrepIndex'
  BY <1>3, <1>5, <1>6 DEF Ids, Copy, h
<1>13. Ids'[h] = Ids[h] /\ Copy'[h] = Copy[h] /\ Todo'[h] = n
  <2>1. Ids'[h] = NextId
    BY <1>3, <1>5, <1>6, <1>7, <1>8 DEF Ids
  <2>2. Copy'[h] = PrepIndex
    BY <1>3, <1>5, <1>6, <1>7 DEF Copy
  <2>3. Todo'[h] = n
    BY <1>3, <1>6, <1>7, <1>11 DEF Todo
  <2> QED
    BY <1>12, <2>1, <2>2, <2>3
<1>14. ASSUME NEW s \in Slots, Holds(t, h, s, SEGMENT_BUFFER_SIZE)
       PROVE  Ids'[s] = Ids[s] /\ Copy'[s] = Copy[s] /\ Todo'[s] = Todo[s]
  <2>1. s # h /\ s # g /\ segment_buffer'[s] = segment_buffer[s]
    BY <1>7, <1>9, <1>14
  <2>2. Ids'[s] = Ids[s]
    BY <2>1, <1>6, <1>8, <1>14 DEF Ids, h
  <2>3. Copy'[s] = Copy[s]
    BY <2>1, <1>6 DEF Copy, h
  <2>4. Todo'[s] = Todo[s]
    BY <2>1, <1>6 DEF Todo, t
  <2> QED
    BY <2>2, <2>3, <2>4
<1>99. PICK p : p = [o EXCEPT ![g] = IF o[h] + n < StepEvents THEN o[h] + n ELSE 0]
  OBVIOUS
<1>15. Following(t, g, Ids', Copy', Todo', p, st)
  <2>1. IF o[h] + n < StepEvents
        THEN Ids'[g] = Ids[h] /\ Copy'[g] = Copy[h]
        ELSE Ids'[g] = Ids[h] + 1 /\ Copy'[g] = NextCopy(Copy[h])
    BY <1>10, <1>12
  <2>2. n \in Nat /\ n >= 1 /\ o[h] + n <= StepEvents /\ Ids[h] >= 1
    BY <1>3, <1>10, <1>12
  <2>3. \A s \in Slots : Holds(t, h, s, SEGMENT_BUFFER_SIZE) \/ s = h
           => Ids'[s] = Ids[s] /\ Copy'[s] = Copy[s]
    BY <1>13, <1>14
  <2>4. \A s \in Slots : Holds(t, h, s, SEGMENT_BUFFER_SIZE)
           => Todo'[s] = Todo[s]
    BY <1>14
  <2>5. g = NextSlot(h)
    BY DEF g, h
  <2> DEFINE id2 == Ids'
             copy2 == Copy'
             todo2 == Todo'
  <2>6. /\ id2 \in [Slots -> Int] /\ copy2 \in [Slots -> Copied]
        /\ todo2 \in [Slots -> Nat]
    BY <1>4
  <2>7. /\ IF o[h] + n < StepEvents
           THEN id2[g] = Ids[h] /\ copy2[g] = Copy[h]
           ELSE id2[g] = Ids[h] + 1 /\ copy2[g] = NextCopy(Copy[h])
        /\ \A s \in Slots : Holds(t, h, s, SEGMENT_BUFFER_SIZE) \/ s = h
             => id2[s] = Ids[s] /\ copy2[s] = Copy[s]
        /\ \A s \in Slots : Holds(t, h, s, SEGMENT_BUFFER_SIZE)
             => todo2[s] = Todo[s]
        /\ todo2[h] = n
    BY <2>1, <2>3, <2>4, <1>13
  <2> HIDE DEF id2, copy2, todo2
  <2>8. Publishes(t, h, Ids, Copy, Todo, o, id2, copy2, todo2, n)
    <3>1. /\ IF o[h] + n < StepEvents
             THEN id2[NextSlot(h)] = Ids[h] /\ copy2[NextSlot(h)] = Copy[h]
             ELSE /\ id2[NextSlot(h)] = Ids[h] + 1
                  /\ copy2[NextSlot(h)] = NextCopy(Copy[h])
          /\ NextSlot(h) # t
      BY <1>2, <2>5, <2>7
    <3> QED
      BY <1>3, <2>2, <2>6, <2>7, <3>1, Zenon DEF Publishes
  <2>9. Following(t, NextSlot(h), id2, copy2, todo2,
                  [o EXCEPT ![NextSlot(h)] =
                     IF o[h] + n < StepEvents THEN o[h] + n ELSE 0], st)
    BY <1>10, <2>8, PublishedChain, Zenon
  <2> QED
    BY <2>5, <2>9, <1>99 DEF id2, copy2, todo2
<1>16. p[g] = NextOffset'
  BY <1>5, <1>10, <1>99 DEF Offsets
<1>17. Follows(p)'
  BY <1>6, <1>15, <1>16 DEF Follows
<1>18. At(p)' = At(o) + 0
  <2>1. t = h \/ Holds(t, h, t, SEGMENT_BUFFER_SIZE)
    BY <1>3, TailHeld
  <2>2. Ids'[t] = Ids[t]
    BY <2>1, <1>3, <1>13, <1>14
  <2>3. p[t] = o[t]
    BY <1>2, <1>3, <1>10, <1>99 DEF Offsets
  <2>4. At(p)' = At(o)
    BY <1>6, <2>2, <2>3 DEF At, t
  <2> QED
    BY <1>1, <2>4, AtType
<1> QED
  BY <1>17, <1>18


\* The segment ring after a segment of n steps, or none.
LEMMA SegmentType ==
  ASSUME MotionTypeOK, PrepIndex \in Copied, NEW n \in 0 .. StepEvents,
         \/ n = 0 /\ UNCHANGED <<segment_buffer, segment_buffer_head>>
         \/ PublishSegment(n)
  PROVE  /\ segment_buffer' \in [Slots -> [st_block_index : Copied,
                                          n_step : 0 .. StepEvents]]
         /\ segment_buffer_head' \in Slots
<1>1. /\ segment_buffer \in [Slots -> [st_block_index : Copied,
                                       n_step : 0 .. StepEvents]]
      /\ segment_buffer_head \in Slots
  BY MotionTypes
<1>2. CASE PublishSegment(n)
  <2>1. /\ segment_buffer_head' = NextSlot(segment_buffer_head)
        /\ segment_buffer' = [segment_buffer EXCEPT ![segment_buffer_head] =
                               [st_block_index |-> PrepIndex, n_step |-> n]]
    BY <1>2 DEF PublishSegment, segment_next_head, NextSlot
  <2>2. [st_block_index |-> PrepIndex, n_step |-> n]
          \in [st_block_index : Copied, n_step : 0 .. StepEvents]
    OBVIOUS
  <2> QED
    BY <1>1, <2>1, <2>2, SlotType
<1>3. CASE n = 0 /\ UNCHANGED <<segment_buffer, segment_buffer_head>>
  BY <1>1, <1>3
<1> QED
  BY <1>2, <1>3

\* n steps of the block are checked out, and some are left.
LEMMA CheckOutMotion ==
  ASSUME MotionInv, ~PrepReturns, LoadBlock, NEW n \in 0 .. StepEvents,
         n < block_buffer[block_buffer_tail].left,
         block_buffer' = [block_buffer EXCEPT ![block_buffer_tail].left = @ - n],
         pl_block' \in {NULL, block_buffer_tail}, Begun',
         prep' \in [flag_partial_block : BOOLEAN, moving : BOOLEAN,
                    exit : BOOLEAN, st_block_index : {PrepIndex}],
         UNCHANGED <<block_buffer_head, block_buffer_tail, accepted>>,
         UNCHANGED isrVars,
         \/ n = 0 /\ UNCHANGED <<segment_buffer, segment_buffer_head>>
         \/ n >= 1 /\ PublishSegment(n)
  PROVE  Moves(0)
<1> USE Sizes
<1> DEFINE h == block_buffer_head
           t == block_buffer_tail
           b == block_buffer[block_buffer_tail]
<1>1. MotionTypeOK /\ Planned
  BY DEF MotionInv
<1>2. /\ h # t /\ NextSlot(segment_buffer_head) # segment_buffer_tail
  BY Prepares
<1>3. /\ h \in Blocks /\ t \in Blocks /\ PrepIndex \in Copied
      /\ block_buffer \in [Blocks -> [id : 0 .. MaxBlocks, left : 0 .. StepEvents]]
  BY <1>1, MotionTypes, ViewTypes DEF Views
<1>4. /\ b.id = NextId /\ b.left \in 1 .. StepEvents
      /\ NextOffset = StepEvents - b.left
  BY <1>1, <1>2, HeadBlock
<1>5. /\ block_buffer' \in [Blocks -> [id : 0 .. MaxBlocks, left : 0 .. StepEvents]]
      /\ block_buffer'[t].id = b.id /\ block_buffer'[t].left = b.left - n
      /\ \A i \in Blocks : i # t => block_buffer'[i] = block_buffer[i]
  <2>1. b \in [id : 0 .. MaxBlocks, left : 0 .. StepEvents]
    BY <1>3
  <2>2. block_buffer' = [block_buffer EXCEPT ![t] = [b EXCEPT !.left = b.left - n]]
    BY <1>3
  <2>3. [b EXCEPT !.left = b.left - n]
          \in [id : 0 .. MaxBlocks, left : 0 .. StepEvents]
        /\ [b EXCEPT !.left = b.left - n].id = b.id
        /\ [b EXCEPT !.left = b.left - n].left = b.left - n
    BY <2>1, <1>4
  <2> HIDE DEF b
  <2> QED
    BY <1>3, <2>2, <2>3
<1>6. PICK o : Follows(o)
  BY DEF MotionInv
<1>7. /\ st_block_buffer' \in [Copied -> 0 .. MaxBlocks]
      /\ st_block_buffer'[PrepIndex] = NextId
  BY <1>6, LoadMotion
<1>8. /\ block_buffer_head' = h /\ block_buffer_tail' = t /\ accepted' = accepted
      /\ UNCHANGED <<segment_buffer_tail, st, timer, motor>>
  BY DEF isrVars
<1>9. MotionTypeOK'
  <2>1. /\ segment_buffer' \in [Slots -> [st_block_index : Copied,
                                         n_step : 0 .. StepEvents]]
        /\ segment_buffer_head' \in Slots
    BY <1>1, <1>3, SegmentType
  <2>2. pl_block' \in {NULL} \cup Blocks
    BY <1>3
  <2>3. prep' \in [flag_partial_block : BOOLEAN, moving : BOOLEAN,
                   exit : BOOLEAN, st_block_index : Copied]
    BY <1>3
  <2> HIDE DEF h, t, b
  <2> QED
    BY <1>1, <1>5, <1>7, <1>8, <2>1, <2>2, <2>3, Zenon
       DEF MotionTypeOK, Blocks, Slots, Copied, h, t
<1>10. NextId' = NextId
  BY <1>8 DEF NextId, Waiting
<1>11. NextOffset' = NextOffset + n
  <2>1. NextOffset' = StepEvents - (b.left - n)
    BY <1>2, <1>5, <1>8 DEF NextOffset
  <2> HIDE DEF b
  <2> QED
    BY <1>4, <2>1
<1>12. PrepIndex' = PrepIndex /\ prep'.st_block_index = PrepIndex
  BY DEF PrepIndex, Begun
<1>13. Planned'
  <2>1. NextId' >= 1
    BY <1>1, <1>10 DEF Planned
  <2>2. \A i \in Blocks : Holds(t, h, i, BLOCK_BUFFER_SIZE) =>
          /\ block_buffer'[i].id = accepted - Ahead(i, h, BLOCK_BUFFER_SIZE) + 1
          /\ block_buffer'[i].left >= 1
          /\ i # t => block_buffer'[i].left = StepEvents
    <3> SUFFICES ASSUME NEW i \in Blocks, Holds(t, h, i, BLOCK_BUFFER_SIZE)
                 PROVE  /\ block_buffer'[i].id =
                             accepted - Ahead(i, h, BLOCK_BUFFER_SIZE) + 1
                        /\ block_buffer'[i].left >= 1
                        /\ i # t => block_buffer'[i].left = StepEvents
      OBVIOUS
    <3>1. /\ block_buffer[i].id = accepted - Ahead(i, h, BLOCK_BUFFER_SIZE) + 1
          /\ block_buffer[i].left >= 1
          /\ i # t => block_buffer[i].left = StepEvents
      BY <1>1 DEF Planned
    <3> HIDE DEF b, h
    <3>2. CASE i = t
      BY <1>4, <1>5, <3>1, <3>2 DEF b
    <3>3. CASE i # t
      BY <1>5, <3>1, <3>3
    <3> QED
      BY <3>2, <3>3
  <2>3. st_block_buffer'[prep'.st_block_index] = NextId'
    BY <1>7, <1>10, <1>12
  <2> HIDE DEF b
  <2> QED
    BY <1>2, <1>8, <2>1, <2>2, <2>3, Zenon DEF Planned
<1>14. CASE n >= 1 /\ PublishSegment(n)
  <2>1. NextOffset + n < StepEvents
    BY <1>4
  <2>2. n \in 1 .. StepEvents /\ NextOffset + n <= StepEvents
    BY <1>1, <1>14, <2>1, ViewTypes DEF Views
  <2> HIDE DEF b, h, t
  <2> QED
    BY <1>8, <1>9, <1>10, <1>11, <1>12, <1>13, <1>14, <2>1, <2>2, PublishMotion
<1>15. CASE n = 0 /\ UNCHANGED <<segment_buffer, segment_buffer_head>>
  <2> SUFFICES ASSUME NEW p, Follows(p)
               PROVE  Follows(p)' /\ At(p)' = At(p) + 0
    BY <1>9, <1>13 DEF Moves
  <2> DEFINE sh == segment_buffer_head
             sl == segment_buffer_tail
  <2>1. /\ st_block_buffer'[PrepIndex] = NextId
        /\ \A s \in Slots : Holds(sl, sh, s, SEGMENT_BUFFER_SIZE)
             => st_block_buffer'[segment_buffer[s].st_block_index] =
                  st_block_buffer[segment_buffer[s].st_block_index]
    BY LoadMotion
  <2>2. /\ sh \in Slots /\ sl \in Slots
        /\ segment_buffer_head' = sh /\ segment_buffer_tail' = sl
        /\ st' = st /\ segment_buffer' = segment_buffer
    BY <1>1, <1>8, <1>15, MotionTypes
  <2>3. Following(sl, sh, Ids, Copy, Todo, p, st) /\ p[sh] = NextOffset
    BY DEF Follows
  <2>4. \A s \in Slots : Holds(sl, sh, s, SEGMENT_BUFFER_SIZE) \/ s = sh
          => Ids'[s] = Ids[s] /\ Copy'[s] = Copy[s]
    BY <1>10, <1>12, <2>1, <2>2 DEF Ids, Copy
  <2>5. \A s \in Slots : Holds(sl, sh, s, SEGMENT_BUFFER_SIZE) => Todo'[s] = Todo[s]
    BY <2>2 DEF Todo
  <2>6. Following(sl, sh, Ids', Copy', Todo', p, st)
    <3> HIDE DEF sl, sh
    <3> QED
      BY <2>2, <2>3, <2>4, <2>5, SameChain
  <2>7. NextOffset' = NextOffset
    BY <1>4, <1>11, <1>15
  <2>8. Follows(p)'
    BY <2>2, <2>3, <2>6, <2>7 DEF Follows
  <2>9. Ids'[sl] = Ids[sl]
    BY <2>2, <2>4, TailHeld
  <2>10. At(p)' = At(p)
    BY <2>2, <2>9 DEF At
  <2> QED
    BY <1>1, <2>8, <2>10, AtType
<1> QED
  BY <1>14, <1>15


LEMMA ExitType ==
  ASSUME MotionTypeOK, NEW exit \in ExitSpeeds
  PROVE  exit \in BOOLEAN
BY MotionTypes DEF ExitSpeeds

LEMMA PrepSegmentMotion ==
  ASSUME MotionInv, NEW n \in 1 .. StepEvents, PrepSegment(n), UNCHANGED isrVars
  PROVE  Moves(0)
<1>1. PICK exit \in ExitSpeeds :
        prep' = [flag_partial_block |-> FALSE, st_block_index |-> PrepIndex,
                 moving |-> TRUE, exit |-> exit]
  BY DEF PrepSegment
<1>2. prep' \in [flag_partial_block : BOOLEAN, moving : BOOLEAN,
                 exit : BOOLEAN, st_block_index : {PrepIndex}]
  BY <1>1, ExitType DEF MotionInv
<1>3. pl_block' = block_buffer_tail /\ Begun'
  <2>1. block_buffer_tail # NULL
    BY Sizes, MotionTypes DEF MotionInv, Blocks, NULL
  <2> QED
    BY <2>1 DEF PrepSegment, Begun
<1>4. n \in 0 .. StepEvents /\ n >= 1
  OBVIOUS
<1> QED
  BY <1>2, <1>3, <1>4, CheckOutMotion DEF PrepSegment

LEMMA PrepHoldMotion ==
  ASSUME MotionInv, NEW n \in 0 .. StepEvents, PrepHoldEnd(n), UNCHANGED isrVars
  PROVE  Moves(0)
<1>1. prep' = [flag_partial_block |-> TRUE, st_block_index |-> PrepIndex,
               moving |-> FALSE, exit |-> FALSE]
  BY DEF PrepHoldEnd
<1>2. prep' \in [flag_partial_block : BOOLEAN, moving : BOOLEAN,
                 exit : BOOLEAN, st_block_index : {PrepIndex}]
  BY <1>1
<1>3. pl_block' = NULL /\ Begun'
  BY <1>1 DEF PrepHoldEnd, Begun
<1>4. \/ n = 0 /\ UNCHANGED <<segment_buffer, segment_buffer_head>>
      \/ n >= 1 /\ PublishSegment(n)
  BY DEF PrepHoldEnd
<1> QED
  BY <1>2, <1>3, <1>4, CheckOutMotion DEF PrepHoldEnd

\* Where the blocks between tail and head are when tail advances.
LEMMA TailAdvances ==
  ASSUME NEW t \in Blocks, NEW h \in Blocks, NEW g,
         g = plan_next_block_index(t), t # h
  PROVE  /\ g \in Blocks /\ g # t
         /\ Ahead(t, h, BLOCK_BUFFER_SIZE) = Ahead(g, h, BLOCK_BUFFER_SIZE) + 1
         /\ Ahead(g, h, BLOCK_BUFFER_SIZE) \in Nat
         /\ Ahead(g, h, BLOCK_BUFFER_SIZE) = 0 <=> g = h
         /\ g # h => Holds(t, h, g, BLOCK_BUFFER_SIZE)
         /\ \A i \in Blocks : Holds(g, h, i, BLOCK_BUFFER_SIZE) =>
              Holds(t, h, i, BLOCK_BUFFER_SIZE) /\ i # t
BY Sizes DEF Blocks, plan_next_block_index, Wrap, Holds, Ahead

\* The last steps of the block are checked out, and it is discarded.
LEMMA PrepEndMotion ==
  ASSUME MotionInv, PrepBlockEnd, UNCHANGED isrVars
  PROVE  Moves(0)
<1> USE Sizes
<1> DEFINE h == block_buffer_head
           t == block_buffer_tail
           g == plan_next_block_index(block_buffer_tail)
           n == block_buffer[block_buffer_tail].left
<1>1. MotionTypeOK /\ Planned
  BY DEF MotionInv
<1>2. /\ ~PrepReturns /\ LoadBlock /\ PublishSegment(n)
      /\ h # t /\ NextSlot(segment_buffer_head) # segment_buffer_tail
  BY Prepares DEF PrepBlockEnd
<1>3. h \in Blocks /\ t \in Blocks /\ PrepIndex \in Copied /\ accepted \in Int
  BY <1>1, MotionTypes, MotionIntegers, ViewTypes DEF Views
<1>4. n \in 1 .. StepEvents /\ NextOffset = StepEvents - n
  BY <1>1, <1>2, HeadBlock
<1>5. PICK exit \in ExitSpeeds :
        prep' = [flag_partial_block |-> FALSE, st_block_index |-> PrepIndex,
                 moving |-> TRUE, exit |-> exit]
  BY DEF PrepBlockEnd
<1>6. prep' \in [flag_partial_block : BOOLEAN, moving : BOOLEAN,
                 exit : BOOLEAN, st_block_index : Copied]
  BY <1>1, <1>3, <1>5, ExitType
<1>7. /\ block_buffer_tail' = g /\ pl_block' = NULL
      /\ UNCHANGED <<block_buffer, block_buffer_head, accepted>>
      /\ UNCHANGED <<segment_buffer_tail, st, timer, motor>>
  BY DEF PrepBlockEnd, isrVars
<1>8. /\ g \in Blocks /\ g # t
      /\ Ahead(t, h, BLOCK_BUFFER_SIZE) = Ahead(g, h, BLOCK_BUFFER_SIZE) + 1
      /\ Ahead(g, h, BLOCK_BUFFER_SIZE) \in Nat
      /\ g # h => Holds(t, h, g, BLOCK_BUFFER_SIZE)
      /\ \A i \in Blocks : Holds(g, h, i, BLOCK_BUFFER_SIZE) =>
           Holds(t, h, i, BLOCK_BUFFER_SIZE) /\ i # t
  BY <1>2, <1>3, TailAdvances
<1>9. PICK o : Follows(o)
  BY DEF MotionInv
<1>10. st_block_buffer' \in [Copied -> 0 .. MaxBlocks]
  BY <1>2, <1>9, LoadMotion
<1>11. MotionTypeOK'
  <2>1. /\ segment_buffer' \in [Slots -> [st_block_index : Copied,
                                         n_step : 0 .. StepEvents]]
        /\ segment_buffer_head' \in Slots
    <3>1. n \in 0 .. StepEvents
      BY <1>4
    <3> HIDE DEF n
    <3> QED
      BY <1>1, <1>2, <1>3, <3>1, SegmentType
  <2> HIDE DEF h, t, n
  <2> QED
    BY <1>1, <1>6, <1>7, <1>8, <1>10, <2>1, Zenon
       DEF MotionTypeOK, Blocks, Slots, Copied
<1>12. NextId' = NextId + 1
  BY <1>3, <1>7, <1>8 DEF NextId, Waiting
<1>13. ~Begun' /\ PrepIndex' = NextCopy(PrepIndex)
  BY <1>5, <1>7 DEF Begun, PrepIndex, NextCopy
<1>14. NextOffset' = 0
  <2>1. CASE g = h
    BY <2>1, <1>7 DEF NextOffset
  <2>2. CASE g # h
    <3>1. block_buffer[g].left = StepEvents
      BY <2>2, <1>1, <1>8 DEF Planned
    <3> QED
      BY <2>2, <3>1, <1>7 DEF NextOffset
  <2> QED
    BY <2>1, <2>2
<1>15. Planned'
  <2>1. NextId' >= 1
    BY <1>1, <1>12, WaitingType DEF Planned
  <2>2. \A i \in Blocks : Holds(g, h, i, BLOCK_BUFFER_SIZE) =>
          /\ block_buffer[i].id = accepted - Ahead(i, h, BLOCK_BUFFER_SIZE) + 1
          /\ block_buffer[i].left >= 1
          /\ i # g => block_buffer[i].left = StepEvents
    BY <1>1, <1>8 DEF Planned
  <2> HIDE DEF n
  <2> QED
    BY <1>7, <1>13, <1>14, <2>1, <2>2, Zenon DEF Planned
<1>16. NextOffset + n <= StepEvents /\ ~(NextOffset + n < StepEvents)
  BY <1>4
<1> HIDE DEF h, t, g, n
<1> QED
  BY <1>2, <1>4, <1>7, <1>11, <1>12, <1>13, <1>14, <1>15, <1>16, PublishMotion


\* The interrupt puts out the next step of the segment at the tail.
LEMMA StepMotion ==
  ASSUME MotionInv, StepperSteps, UNCHANGED <<plannerVars, prepVars>>
  PROVE  /\ Moves(1)
         /\ segment_buffer_head # segment_buffer_tail
         /\ \A o : Follows(o) =>
              motor' = <<Ids[segment_buffer_tail], o[segment_buffer_tail] + 1>>
<1> USE Sizes
<1> DEFINE h == segment_buffer_head
           t == segment_buffer_tail
           w == WithSegment
<1>1. MotionTypeOK /\ Planned
  BY DEF MotionInv
<1>2. /\ h \in Slots /\ t \in Slots
      /\ Ids \in [Slots -> Int] /\ Copy \in [Slots -> Copied]
      /\ Todo \in [Slots -> Nat]
      /\ segment_buffer[t].st_block_index \in Copied
      /\ segment_buffer[t].n_step \in 0 .. StepEvents
      /\ st \in [exec_segment : {NULL} \cup Slots, step_count : 0 .. StepEvents,
                 exec_block_index : Copied, exec_block : {NULL} \cup Copied,
                 counter : 0 .. StepEvents]
  <2>1. segment_buffer[t] \in [st_block_index : Copied, n_step : 0 .. StepEvents]
    BY <1>1, MotionTypes
  <2> QED
    BY <1>1, <2>1, MotionTypes, ViewTypes DEF Views
<1>3. st.exec_segment # NULL \/ t # h
  BY DEF StepperSteps
<1>4. UNCHANGED <<Ids, Copy, NextId, NextOffset, segment_buffer_head>>
  BY DEF Ids, Copy, NextId, Waiting, NextOffset, PrepIndex, plannerVars, prepVars
<1>5. /\ st.exec_segment # NULL => w = st
      /\ st.exec_segment = NULL =>
           /\ w.exec_segment = t
           /\ w.exec_block_index = segment_buffer[t].st_block_index
           /\ w.step_count = segment_buffer[t].n_step
           /\ segment_buffer[t].st_block_index # st.exec_block_index =>
                w.exec_block = segment_buffer[t].st_block_index /\ w.counter = 0
           /\ segment_buffer[t].st_block_index = st.exec_block_index =>
                w.exec_block = st.exec_block /\ w.counter = st.counter
      /\ w \in [exec_segment : {NULL} \cup Slots, step_count : 0 .. StepEvents,
                exec_block_index : Copied, exec_block : {NULL} \cup Copied,
                counter : 0 .. StepEvents]
  BY <1>2 DEF WithSegment
<1>6. ASSUME NEW o, Follows(o)
      PROVE  /\ t # h /\ w.exec_segment = t
             /\ w.exec_block = Copy[t] /\ w.exec_block_index = Copy[t]
             /\ w.counter = o[t]
             /\ w.step_count = Todo[t]
             /\ Ids[t] = st_block_buffer[Copy[t]]
             /\ Todo[t] >= 1
             /\ o \in Offsets /\ o[t] \in 0 .. StepEvents - 1
             /\ Following(t, h, Ids, Copy, Todo, o, st)
  <2>1. Following(t, h, Ids, Copy, Todo, o, st) /\ o \in Offsets
    BY <1>6 DEF Follows, Following
  <2>2. t # h
    BY <1>3, <2>1 DEF Following, Executing
  <2>3. Copy[t] = segment_buffer[t].st_block_index /\ Ids[t] = st_block_buffer[Copy[t]]
    BY <1>2, <2>2 DEF Copy, Ids
  <2>4. o[t] \in 0 .. StepEvents - 1
    BY <1>2, <2>1 DEF Offsets
  <2>5. Todo[t] >= 1
    BY <1>2, <2>1, <2>2, TailHeld DEF Following, Chained
  <2>6. w.step_count = Todo[t]
    BY <1>2, <1>5, <2>2 DEF Todo
  <2> HIDE DEF h, t, w
  <2>7. /\ t # h /\ w.exec_segment = t
        /\ w.exec_block = Copy[t] /\ w.exec_block_index = Copy[t]
        /\ w.counter = o[t]
    BY <1>2, <1>3, <1>5, <2>1, <2>3, Taken
  <2> QED
    BY <2>1, <2>2, <2>3, <2>4, <2>5, <2>6, <2>7
<1>7. PICK q : Follows(q)
  BY DEF MotionInv
<1>8. /\ motor' = <<st_block_buffer[w.exec_block], w.counter + 1>>
      /\ st' = [w EXCEPT !.exec_segment = IF w.step_count = 1 THEN NULL
                                          ELSE w.exec_segment,
                         !.step_count = w.step_count - 1,
                         !.counter = w.counter + 1]
      /\ segment_buffer_tail' = IF w.step_count = 1 THEN NextSlot(t) ELSE t
      /\ timer' = timer
  BY DEF StepperSteps, NextSlot
<1>9. \A o : Follows(o) => motor' = <<Ids[t], o[t] + 1>>
  BY <1>6, <1>8
<1>10. /\ st' \in [exec_segment : {NULL} \cup Slots, step_count : 0 .. StepEvents,
                   exec_block_index : Copied, exec_block : {NULL} \cup Copied,
                   counter : 0 .. StepEvents]
       /\ st'.exec_segment = IF Todo[t] = 1 THEN NULL ELSE t
       /\ st'.step_count = Todo[t] - 1
       /\ st'.exec_block = Copy[t] /\ st'.exec_block_index = Copy[t]
       /\ st'.counter = q[t] + 1
  <2>1. /\ w.step_count - 1 \in 0 .. StepEvents /\ w.counter + 1 \in 0 .. StepEvents
    BY <1>2, <1>5, <1>6, <1>7
  <2> HIDE DEF w
  <2> QED
    BY <1>5, <1>6, <1>7, <1>8, <2>1
<1>11. MotionTypeOK'
  <2>1. motor' \in (0 .. MaxBlocks) \X (0 .. StepEvents)
    <3>1. st_block_buffer \in [Copied -> 0 .. MaxBlocks]
      BY <1>1, MotionTypes
    <3>2. q[t] + 1 \in 0 .. StepEvents /\ Ids[t] \in 0 .. MaxBlocks
      BY <1>2, <1>6, <1>7, <3>1
    <3> QED
      BY <1>9, <1>7, <3>2
  <2>2. segment_buffer_tail' \in Slots
    BY <1>2, <1>8, SlotType
  <2> HIDE DEF h, t, w
  <2> QED
    BY <1>1, <1>8, <1>10, <2>1, <2>2, Zenon
       DEF MotionTypeOK, Slots, Copied, plannerVars, prepVars
<1>12. Planned'
  BY <1>1, <1>4 DEF Planned, Begun, plannerVars, prepVars
<1> SUFFICES ASSUME NEW o, Follows(o)
             PROVE  \E p : Follows(p)' /\ At(p)' = At(o) + 1
  BY <1>6, <1>7, <1>9, <1>11, <1>12 DEF Moves
<1>13. st'.counter = o[t] + 1
  BY <1>6, <1>8
<1>14. \A s \in Slots : s # t => Todo'[s] = Todo[s]
  <2>1. segment_buffer' = segment_buffer
    BY DEF prepVars
  <2>2. ASSUME NEW s \in Slots, s # t
        PROVE  ~(s = segment_buffer_tail' /\ st'.exec_segment # NULL)
    <3>1. CASE Todo[t] = 1
      BY <3>1, <1>10
    <3>2. CASE Todo[t] # 1
      BY <2>2, <3>2, <1>6, <1>8
    <3> QED
      BY <3>1, <3>2
  <2> QED
    BY <2>1, <2>2 DEF Todo
<1>15. /\ t # h /\ o \in Offsets /\ o[t] \in 0 .. StepEvents - 1 /\ Todo[t] >= 1
       /\ Following(t, h, Ids, Copy, Todo, o, st) /\ o[h] = NextOffset
       /\ Ids[t] \in Int
  BY <1>2, <1>6 DEF Follows
<1>16. CASE Todo[t] = 1
  <2>1. segment_buffer_tail' = NextSlot(t) /\ st'.exec_segment = NULL
    BY <1>6, <1>8, <1>10, <1>16
  <2>2. Following(NextSlot(t), h, Ids, Copy, Todo', o, st')
    <3> HIDE DEF h, t, w
    <3> QED
      BY <1>2, <1>10, <1>13, <1>14, <1>15, <1>16, <2>1, FinishedChain
  <2>3. Follows(o)'
    BY <1>4, <1>15, <2>1, <2>2 DEF Follows
  <2>4. At(o)' = Ids[NextSlot(t)] * StepEvents + o[NextSlot(t)]
    BY <1>4, <2>1 DEF At
  <2>5. \/ o[NextSlot(t)] = o[t] + 1 /\ Ids[NextSlot(t)] = Ids[t]
        \/ o[NextSlot(t)] = 0 /\ o[t] + 1 = StepEvents /\ Ids[NextSlot(t)] = Ids[t] + 1
    BY <1>2, <1>15, <1>16, TailHeld DEF Following, Chained
  <2>6. At(o) = Ids[t] * StepEvents + o[t]
    BY DEF At
  <2>7. (Ids[t] + 1) * StepEvents = Ids[t] * StepEvents + StepEvents
    BY <1>15
  <2> HIDE DEF h, t, w
  <2>8. At(o)' = At(o) + 1
    BY <1>15, <2>4, <2>5, <2>6, <2>7
  <2> QED
    BY <2>3, <2>8
<1>17. CASE Todo[t] # 1
  <2>1. segment_buffer_tail' = t /\ st'.exec_segment = t
    BY <1>6, <1>8, <1>10, <1>17
  <2>2. Todo' \in [Slots -> Nat] /\ Todo'[t] = Todo[t] - 1
    <3>1. t # NULL
      BY <1>2 DEF Slots, NULL
    <3>2. Todo' \in [Slots -> Nat]
      BY <1>11, <1>12, ViewTypesNext DEF Views
    <3> QED
      BY <1>2, <1>10, <2>1, <3>1, <3>2 DEF Todo
  <2>3. PICK p : p = [o EXCEPT ![t] = @ + 1]
    OBVIOUS
  <2>4. Following(t, h, Ids, Copy, Todo', p, st')
    <3>1. \A e2, todo2 :
            /\ todo2 \in [Slots -> Nat] /\ todo2[t] = Todo[t] - 1
            /\ \A s \in Slots : s # t => todo2[s] = Todo[s]
            /\ e2.exec_segment = t
            /\ e2.exec_block = Copy[t] /\ e2.exec_block_index = Copy[t]
            /\ e2.counter = o[t] + 1
            => Following(t, h, Ids, Copy, todo2, [o EXCEPT ![t] = @ + 1], e2)
      <4> HIDE DEF h, t, w
      <4> QED
        BY <1>2, <1>15, <1>17, SteppedChain
    <3> QED
      BY <1>10, <1>13, <1>14, <2>1, <2>2, <2>3, <3>1
  <2>5. p[t] = o[t] + 1 /\ p[h] = o[h]
    BY <1>2, <1>15, <2>3 DEF Offsets
  <2>6. Follows(p)'
    BY <1>4, <1>15, <2>1, <2>4, <2>5 DEF Follows
  <2>7. At(p)' = Ids[t] * StepEvents + (o[t] + 1)
    BY <1>4, <2>1, <2>5 DEF At
  <2>8. At(o) = Ids[t] * StepEvents + o[t]
    BY DEF At
  <2> HIDE DEF h, t, w
  <2>9. At(p)' = At(o) + 1
    BY <1>15, <2>7, <2>8
  <2> QED
    BY <2>6, <2>9
<1> QED
  BY <1>16, <1>17


\* mc_reset() stops the timer, if anything of the motion.
LEMMA ResetFrame ==
  ASSUME MotionTypeOK, NEW alarms, McReset(alarms)
  PROVE  timer' \in BOOLEAN
BY MotionTypes DEF McReset, GoIdle

\* Every step of the system moves the motion path as one of its own steps does.
LEMMA MotionSteps ==
  ASSUME MotionInv, [Next]_vars
  PROVE  \/ Moves(0) /\ UNCHANGED <<accepted, motor>>
         \/ PlanLine /\ PlanBufferLine /\ Moves(0)
         \/ /\ StepperSteps /\ Moves(1) /\ UNCHANGED <<accepted, pc>>
            /\ \A o : Follows(o) =>
                 motor' = <<Ids[segment_buffer_tail], o[segment_buffer_tail] + 1>>
         \/ InitMotionPath /\ MotionInv'
<1> DEFINE Still == /\ timer' \in BOOLEAN
                    /\ UNCHANGED <<plannerVars, prepVars, segment_buffer_tail, st, motor>>
           Quiet == Moves(0) /\ UNCHANGED <<accepted, motor>>
<1>1. MotionTypeOK
  BY DEF MotionInv
<1>2. timer \in BOOLEAN
  BY <1>1, MotionTypes
<1>3. UNCHANGED motionVars => Still
  BY <1>2 DEF motionVars, isrVars
<1>4. Still => Quiet
  BY Unmoved DEF plannerVars
<1>5. CASE InitMotionPath
  BY <1>5, ResetMotion DEF InitMotionPath
<1>6. CASE RtHold
  <2>1. UNCHANGED <<plannerVars, st_block_buffer, segment_buffer,
                    segment_buffer_head, isrVars>>
    BY <1>6 DEF RtHold
  <2>2. CASE UpdatePlanBlockParameters
    BY <2>1, <2>2, UpdateMotion DEF plannerVars, isrVars
  <2>3. CASE UNCHANGED <<pl_block, prep>>
    BY <1>2, <1>4, <2>1, <2>3 DEF prepVars, isrVars
  <2> QED
    BY <1>6, <2>2, <2>3 DEF RtHold
<1>7. CASE RtWake
  BY <1>2, <1>4, <1>7 DEF RtWake, WakeUp
<1>8. CASE RtPrep
  <2>1. UNCHANGED isrVars
    BY <1>8 DEF RtPrep
  <2>2. UNCHANGED motor
    BY <2>1 DEF isrVars
  <2>3. \A n \in SegmentSizes : n \in 1 .. StepEvents /\ n \in 0 .. StepEvents
    BY ProtocolAssumption
  <2>4. ASSUME NEW n \in SegmentSizes, PrepSegment(n) PROVE Quiet
    BY <2>1, <2>2, <2>3, <2>4, PrepSegmentMotion DEF PrepSegment
  <2>5. ASSUME NEW n \in 0 .. StepEvents, PrepHoldEnd(n) PROVE Quiet
    BY <2>1, <2>2, <2>5, PrepHoldMotion DEF PrepHoldEnd
  <2>6. ASSUME PrepBlockEnd PROVE Quiet
    BY <2>1, <2>2, <2>6, PrepEndMotion DEF PrepBlockEnd
  <2>7. 0 \in 0 .. StepEvents
    BY Sizes
  <2>8. Quiet
    <3> HIDE DEF Quiet
    <3> QED
      BY <1>8, <2>3, <2>4, <2>5, <2>6, <2>7 DEF RtPrep
  <2> QED
    BY <2>8
<1>9. CASE ExecuteSystem
  BY <1>1, <1>2, <1>4, <1>9, ResetFrame DEF ExecuteSystem
<1>10. CASE SoftLimitReset
  BY <1>1, <1>4, <1>10, ResetFrame DEF SoftLimitReset
<1>11. CASE PlanLine
  <2>1. CASE PlanBufferLine
    BY <1>11, <2>1, PlanMotion DEF PlanLine
  <2>2. CASE UNCHANGED motionVars
    BY <1>3, <1>4, <2>2
  <2> QED
    BY <1>11, <2>1, <2>2 DEF PlanLine
<1>12. ASSUME NEW c \in Characters, ReceiveCharacter(c)
       PROVE  Quiet
  <2>1. timer' \in BOOLEAN
    BY <1>1, <1>2, <1>12, ResetFrame DEF ReceiveCharacter
  <2> QED
    BY <1>4, <1>12, <2>1 DEF ReceiveCharacter
<1>13. CASE StepperInterrupt
  <2>1. UNCHANGED <<plannerVars, prepVars, pc>>
    BY <1>13 DEF StepperInterrupt, rtVars
  <2>2. CASE StepperRunsDry
    BY <1>4, <2>1, <2>2 DEF StepperRunsDry, GoIdle
  <2>3. CASE StepperSteps
    BY <2>1, <2>3, StepMotion DEF plannerVars
  <2> QED
    BY <1>13, <2>2, <2>3 DEF StepperInterrupt
<1>14. CASE \/ InitSerial \/ InitFlags \/ InitAlarm \/ InitSys
            \/ RtAlarm \/ RtCritical \/ RtClearAlarm \/ RtCopy \/ RtStatus
            \/ RtStart \/ RtStop \/ RtPrepDone
            \/ MainRead \/ ReturnToLoop \/ ReturnToLine
            \/ ExecuteIgnored \/ ExecuteMove \/ ReturnToMcLine
            \/ ExecuteOutside \/ ReturnToSoftLimit
            \/ ReturnToSoftReset \/ ExecuteDwell \/ ReturnToSync \/ ReturnFromDwell
            \/ ReceiveLine \/ UNCHANGED vars
  <2>1. UNCHANGED motionVars
    BY <1>14 DEF InitSerial, InitFlags, InitAlarm, InitSys, RtAlarm, RtCritical,
         RtClearAlarm, RtCopy, RtStatus, RtStart, RtStop, RtPrepDone, MainRead,
         ReturnToLoop, ReturnToLine, ExecuteIgnored, ExecuteMove, ReturnToMcLine,
         ExecuteOutside, ReturnToSoftLimit, ReturnToSoftReset, ExecuteDwell,
         ReturnToSync, ReturnFromDwell, ReceiveLine, vars
  <2> QED
    BY <1>3, <1>4, <2>1
<1> HIDE DEF Still, Quiet
<1> QED
  <2>1. Quiet => Moves(0) /\ UNCHANGED <<accepted, motor>>
    BY DEF Quiet
  <2>2. CASE Main
    BY <1>5, <1>6, <1>7, <1>8, <1>9, <1>10, <1>11, <1>14, <2>1, <2>2 DEF Main, Quiet
  <2> QED
    BY <1>12, <1>13, <1>14, <2>1, <2>2 DEF Next

LEMMA MotionInitially == Init => MotionInv
<1> SUFFICES ASSUME Init PROVE MotionInv
  OBVIOUS
<1> USE Sizes
<1>1. /\ block_buffer = [i \in Blocks |-> [id |-> 0, left |-> 0]]
      /\ block_buffer_head = 0 /\ block_buffer_tail = 0
      /\ pl_block = NULL
      /\ prep = [flag_partial_block |-> FALSE, st_block_index |-> 0,
                 moving |-> FALSE, exit |-> FALSE]
      /\ st_block_buffer = [i \in Copied |-> 0]
      /\ segment_buffer = [i \in Slots |-> [st_block_index |-> 0, n_step |-> 0]]
      /\ segment_buffer_head = 0 /\ segment_buffer_tail = 0
      /\ st = [exec_segment |-> NULL, step_count |-> 0, exec_block_index |-> 0,
               exec_block |-> NULL, counter |-> 0]
      /\ timer = FALSE /\ accepted = 0 /\ motor = <<0, 0>>
  BY DEF Init, InitMotion, Blocks, Copied, Slots
<1>2. 0 \in Blocks /\ 0 \in Slots /\ 0 \in Copied
  BY DEF Blocks, Slots, Copied
<1>3. MotionTypeOK
  <2>1. block_buffer \in [Blocks -> [id : 0 .. MaxBlocks, left : 0 .. StepEvents]]
    BY <1>1
  <2>2. /\ st_block_buffer \in [Copied -> 0 .. MaxBlocks]
        /\ segment_buffer \in [Slots -> [st_block_index : Copied,
                                         n_step : 0 .. StepEvents]]
    BY <1>1, <1>2
  <2>3. /\ prep \in [flag_partial_block : BOOLEAN, moving : BOOLEAN,
                     exit : BOOLEAN, st_block_index : Copied]
        /\ st \in [exec_segment : {NULL} \cup Slots, step_count : 0 .. StepEvents,
                   exec_block_index : Copied, exec_block : {NULL} \cup Copied,
                   counter : 0 .. StepEvents]
    BY <1>1, <1>2
  <2>4. /\ accepted \in 0 .. MaxBlocks /\ timer \in BOOLEAN
        /\ motor \in (0 .. MaxBlocks) \X (0 .. StepEvents)
    <3>1. 0 \in 0 .. MaxBlocks /\ 0 \in 0 .. StepEvents
      OBVIOUS
    <3> QED
      BY <1>1, <3>1
  <2>5. /\ block_buffer_head \in Blocks /\ block_buffer_tail \in Blocks
        /\ segment_buffer_head \in Slots /\ segment_buffer_tail \in Slots
        /\ pl_block \in {NULL} \cup Blocks
    BY <1>1, <1>2
  <2> QED
    BY <2>1, <2>2, <2>3, <2>4, <2>5, Zenon DEF MotionTypeOK, Blocks, Slots, Copied
<1>4. Waiting = 0 /\ NextId = 1 /\ NextOffset = 0 /\ ~Begun
  BY <1>1 DEF Waiting, Ahead, NextId, NextOffset, Begun
<1>5. Planned
  BY <1>1, <1>4 DEF Planned, Holds, Ahead, Blocks
<1> DEFINE o == [s \in Slots |-> 0]
<1>6. o \in Offsets /\ \A s \in Slots : o[s] = 0
  BY DEF Offsets
<1> HIDE DEF o
<1>7. Copy[0] = NextCopy(0)
  BY <1>1, <1>2, <1>4 DEF Copy, PrepIndex, Begun, NextCopy
<1>8. \A s \in Slots : ~Holds(0, 0, s, SEGMENT_BUFFER_SIZE)
  BY DEF Holds, Ahead, Slots
<1>9. Following(0, 0, Ids, Copy, Todo, o, st)
  BY <1>1, <1>2, <1>6, <1>7, <1>8 DEF Following, Chained, InTurn, Executing
<1>10. Follows(o)
  BY <1>1, <1>2, <1>4, <1>6, <1>9 DEF Follows
<1> QED
  BY <1>3, <1>5, <1>10 DEF MotionInv

\* However st_prep_buffer(), the stepper interrupt, holds and resets interleave,
\* what is in the rings is one chain: block after block, each from where the
\* segments before it end, and every segment with the copy of its own block.
THEOREM MotionPath == Spec => []MotionInv
<1>1. MotionInv /\ [Next]_vars => MotionInv'
  BY MotionSteps, MovesOn
<1> QED
  BY MotionInitially, <1>1, PTL DEF Spec


-----------------------------------------------------------------------------
LEMMA LeastNat ==
  ASSUME NEW S \in SUBSET Nat, S # {}
  PROVE  \E x \in S : \A y \in S : x <= y
<1> DEFINE R == {ss \in Nat \X Nat : ss[1] < ss[2]}
<1>1. IsWellFoundedOn(R, Nat)
  BY NatLessThanWellFounded DEF OpToRel
<1>2. PICK x \in S : \A y \in S : ~(<<y, x>> \in R)
  <2> HIDE DEF R
  <2> QED
    BY <1>1, WFMin
<1>3. ASSUME NEW y \in S PROVE ~(y < x)
  <2> SUFFICES ASSUME y < x PROVE <<y, x>> \in R
    BY <1>2
  <2> QED
    OBVIOUS
<1> QED
  BY <1>3

\* Quotients and remainders: of a number between two multiples, and of one at most
\* a ring's size away from an index.
LEMMA Quotient ==
  ASSUME NEW d \in Nat, d >= 1, NEW j \in Int
  PROVE  /\ j \div d \in Int /\ j % d \in 0 .. d - 1
         /\ (j \div d) * d <= j /\ j < (j \div d) * d + d
         /\ j % d = j - (j \div d) * d
OBVIOUS

LEMMA Multiples ==
  ASSUME NEW d \in Nat, NEW x \in Int, NEW y \in Int, x <= y
  PROVE  x * d <= y * d /\ x * d \in Int /\ y * d \in Int
<1>1. (y - x) \in Nat
  OBVIOUS
<1>2. (y - x) * d >= 0
  BY <1>1
<1>3. (y - x) * d = y * d - x * d
  OBVIOUS
<1> QED
  BY <1>2, <1>3

LEMMA QuotientIs ==
  ASSUME NEW d \in Nat, d >= 1, NEW q \in Int, NEW j \in Int,
         q * d <= j, j < (q + 1) * d
  PROVE  j \div d = q
<1> DEFINE r == j \div d
<1>1. r \in Int /\ r * d <= j /\ j < r * d + d
  BY Quotient
<1> HIDE DEF r
<1>2. (r + 1) * d = r * d + d /\ (q + 1) * d = q * d + d
  BY <1>1
<1>3. CASE r + 1 <= q
  <2>1. (r + 1) * d <= q * d
    BY <1>1, <1>3, Multiples
  <2> QED
    BY <1>1, <1>2, <2>1
<1>4. CASE q + 1 <= r
  <2>1. (q + 1) * d <= r * d
    BY <1>1, <1>4, Multiples
  <2> QED
    BY <1>1, <1>2, <2>1
<1> QED
  BY <1>1, <1>3, <1>4 DEF r

LEMMA RingIndex ==
  ASSUME NEW d \in Nat, d >= 1, NEW a \in 0 .. d - 1
  PROVE  a % d = a /\ (a + d) % d = a /\ (a - d) % d = a
OBVIOUS

\* The steps from the p-th on up to the q-th, exclusive, by the number of their
\* block, and each with its number in the block.
Run(p, q) == [i \in 1 .. q - p |-> (p + i - 1) \div StepEvents]
Steps(p, q) ==
  [i \in 1 .. q - p |->
     <<(p + i - 1) \div StepEvents, ((p + i - 1) % StepEvents) + 1>>]

LEMMA RunType ==
  ASSUME NEW p \in Int, NEW q \in Int, p <= q
  PROVE  Run(p, q) \in Seq(Int) /\ Len(Run(p, q)) = q - p
<1>1. \A i \in 1 .. q - p : (p + i - 1) \div StepEvents \in Int
  BY Sizes, Quotient
<1>2. q - p \in Nat
  OBVIOUS
<1> QED
  BY <1>1, <1>2 DEF Run

LEMMA RunConcat ==
  ASSUME NEW p \in Int, NEW q \in Int, NEW r \in Int, p <= q, q <= r
  PROVE  Run(p, q) \o Run(q, r) = Run(p, r)
<1> DEFINE s == Run(p, q)
           t == Run(q, r)
           u == Run(p, r)
<1>1. /\ s \in Seq(Int) /\ t \in Seq(Int) /\ u \in Seq(Int)
      /\ Len(s) = q - p /\ Len(t) = r - q /\ Len(u) = r - p
  BY RunType
<1>2. \A i \in 1 .. q - p : s[i] = (p + i - 1) \div StepEvents
  BY DEF Run
<1>3. \A i \in 1 .. r - q : t[i] = (q + i - 1) \div StepEvents
  BY DEF Run
<1>4. \A i \in 1 .. r - p : u[i] = (p + i - 1) \div StepEvents
  BY DEF Run
<1> HIDE DEF s, t, u
<1>5. /\ s \o t \in Seq(Int) /\ Len(s \o t) = r - p
      /\ \A i \in 1 .. r - p : (s \o t)[i] =
           IF i <= q - p THEN s[i] ELSE t[i - (q - p)]
  <2>1. /\ s \o t \in Seq(Int) /\ Len(s \o t) = Len(s) + Len(t)
        /\ \A i \in 1 .. Len(s) + Len(t) : (s \o t)[i] =
             IF i <= Len(s) THEN s[i] ELSE t[i - Len(s)]
    BY <1>1, ConcatProperties
  <2>2. Len(s) + Len(t) = r - p
    BY <1>1
  <2> QED
    BY <1>1, <2>1, <2>2
<1>6. ASSUME NEW i \in 1 .. r - p
      PROVE  (s \o t)[i] = u[i]
  <2>1. CASE i <= q - p
    BY <1>2, <1>4, <1>5, <2>1
  <2>2. CASE ~(i <= q - p)
    <3>1. (s \o t)[i] = t[i - (q - p)] /\ i - (q - p) \in 1 .. r - q
      BY <1>5, <2>2
    <3>2. t[i - (q - p)] = (q + (i - (q - p)) - 1) \div StepEvents
      BY <1>3, <3>1
    <3>3. q + (i - (q - p)) - 1 = p + i - 1
      OBVIOUS
    <3> QED
      BY <1>4, <3>1, <3>2, <3>3
  <2> QED
    BY <2>1, <2>2
<1> QED
  BY <1>1, <1>5, <1>6, SeqEqual DEF s, t, u

\* The steps of a block that are in a segment or in the planner.
LEMMA RunCopies ==
  ASSUME NEW id \in Int, NEW p \in Int, NEW q \in Int, p <= q,
         id * StepEvents <= p, q <= (id + 1) * StepEvents
  PROVE  Copies(id, q - p) = Run(p, q)
<1>1. ASSUME NEW i \in 1 .. q - p
      PROVE  (p + i - 1) \div StepEvents = id
  <2>1. p + i - 1 \in Int /\ id * StepEvents <= p + i - 1
          /\ p + i - 1 < (id + 1) * StepEvents
    <3>1. id * StepEvents \in Int /\ (id + 1) * StepEvents \in Int
      BY Sizes
    <3> QED
      BY <3>1
  <2> QED
    BY <2>1, Sizes, QuotientIs
<1> QED
  BY <1>1 DEF Copies, Run

LEMMA Rising ==
  ASSUME NEW n \in Nat, NEW P, \A i \in 0 .. n : P[i] \in Int,
         \A i \in 1 .. n : P[i - 1] <= P[i]
  PROVE  \A i \in 0 .. n : P[0] <= P[i]
<1> DEFINE Fails == {i \in 0 .. n : ~(P[0] <= P[i])}
<1>1. SUFFICES ASSUME Fails # {} PROVE FALSE
  OBVIOUS
<1>2. Fails \in SUBSET Nat
  OBVIOUS
<1>3. PICK i \in Fails : \A y \in Fails : i <= y
  <2> HIDE DEF Fails
  <2> QED
    BY <1>1, <1>2, LeastNat
<1>4. i \in 0 .. n /\ i # 0 /\ 0 \in 0 .. n
  BY <1>3
<1>5. i - 1 \in 0 .. n /\ i - 1 \notin Fails /\ i \in 1 .. n
  BY <1>3, <1>4
<1> QED
  BY <1>3, <1>4, <1>5

\* What FlattenSeq() makes of runs that follow one another.
LEMMA FlattenRuns ==
  ASSUME NEW n \in Nat, NEW P, \A i \in 0 .. n : P[i] \in Int,
         \A i \in 1 .. n : P[i - 1] <= P[i],
         NEW seqs, seqs = [i \in 1 .. n |-> Run(P[i - 1], P[i])]
  PROVE  FlattenSeq(seqs) = Run(P[0], P[n])
<1>1. Len(seqs) = n
  <2>1. seqs \in [1 .. n -> {Run(P[i - 1], P[i]) : i \in 1 .. n}]
    OBVIOUS
  <2> HIDE DEF Run
  <2> QED
    BY <2>1
<1>2. CASE n = 0
  <2>1. FlattenSeq(seqs) = seqs
    BY <1>1, <1>2 DEF FlattenSeq
  <2>2. seqs = [i \in {} |-> 0]
    BY <1>2
  <2>3. Run(P[0], P[n]) = [i \in {} |-> 0]
    BY <1>2 DEF Run
  <2> QED
    BY <2>1, <2>2, <2>3
<1>3. CASE n # 0
  <2> DEFINE Pass(f) ==
        [i \in 1 .. Len(seqs) |-> IF i = 1 THEN seqs[i] ELSE f[i - 1] \o seqs[i]]
             g == [i \in 1 .. n |-> Run(P[0], P[i])]
             f == CHOOSE flatten : flatten = Pass(flatten)
  <2>1. \A i \in 1 .. n : seqs[i] = Run(P[i - 1], P[i])
    OBVIOUS
  <2>2. \A i \in 1 .. n : P[0] <= P[i]
    <3>1. \A i \in 0 .. n : P[0] <= P[i]
      BY Rising
    <3> QED
      BY <3>1
  <2>3. ASSUME NEW i \in 1 .. n, i # 1
        PROVE  /\ i - 1 \in 1 .. n
               /\ Run(P[0], P[i - 1]) \o Run(P[i - 1], P[i]) = Run(P[0], P[i])
    <3>1. i - 1 \in 1 .. n /\ i - 1 \in 0 .. n /\ i \in 0 .. n /\ 0 \in 0 .. n
      BY <2>3
    <3> QED
      BY <2>2, <3>1, RunConcat
  <2>4. g = Pass(g)
    <3>1. ASSUME NEW i \in 1 .. n PROVE g[i] = Pass(g)[i]
      <4>1. CASE i = 1
        BY <1>1, <2>1, <4>1
      <4>2. CASE i # 1
        <5>1. Pass(g)[i] = g[i - 1] \o seqs[i]
          BY <1>1, <4>2
        <5>2. g[i - 1] = Run(P[0], P[i - 1]) /\ g[i] = Run(P[0], P[i])
          BY <2>3, <4>2
        <5> QED
          BY <2>1, <2>3, <4>2, <5>1, <5>2
      <4> QED
        BY <4>1, <4>2
    <3>2. DOMAIN g = 1 .. n /\ DOMAIN Pass(g) = 1 .. n
      BY <1>1
    <3>3. g = [i \in 1 .. n |-> g[i]] /\ Pass(g) = [i \in 1 .. n |-> Pass(g)[i]]
      BY <1>1
    <3> HIDE DEF g, Pass
    <3> QED
      BY <3>1, <3>3
  <2>5. f = Pass(f)
    BY <2>4
  <2>6. FlattenSeq(seqs) = f[n]
    BY <1>1, <1>3, Zenon DEF FlattenSeq
  <2> HIDE DEF f, g
  <2>7. \A i \in 1 .. n : f[i] = IF i = 1 THEN seqs[i] ELSE f[i - 1] \o seqs[i]
    <3> SUFFICES ASSUME NEW i \in 1 .. n
                 PROVE  f[i] = IF i = 1 THEN seqs[i] ELSE f[i - 1] \o seqs[i]
      OBVIOUS
    <3>1. Pass(f)[i] = IF i = 1 THEN seqs[i] ELSE f[i - 1] \o seqs[i]
      BY <1>1
    <3> HIDE DEF Pass
    <3> QED
      BY <2>5, <3>1
  <2> HIDE DEF Pass
  <2>8. \A i \in 1 .. n : f[i] = Run(P[0], P[i])
    <3> DEFINE Fails == {i \in 1 .. n : f[i] # Run(P[0], P[i])}
    <3>1. SUFFICES ASSUME Fails # {} PROVE FALSE
      OBVIOUS
    <3>2. Fails \in SUBSET Nat
      OBVIOUS
    <3>3. PICK i \in Fails : \A y \in Fails : i <= y
      <4> HIDE DEF Fails
      <4> QED
        BY <3>1, <3>2, LeastNat
    <3>4. i \in 1 .. n /\ f[i] # Run(P[0], P[i])
      BY <3>3
    <3>5. CASE i = 1
      <4>1. f[i] = Run(P[i - 1], P[i])
        BY <2>1, <2>7, <3>4, <3>5
      <4> QED
        BY <3>4, <3>5, <4>1
    <3>6. CASE i # 1
      <4>1. i - 1 \in 1 .. n /\ i - 1 \notin Fails
        BY <3>3, <3>4, <3>6
      <4>2. f[i - 1] = Run(P[0], P[i - 1])
        BY <4>1
      <4>3. f[i] = f[i - 1] \o Run(P[i - 1], P[i])
        BY <2>1, <2>7, <3>4, <3>6
      <4> QED
        BY <2>3, <3>4, <3>6, <4>2, <4>3
    <3> QED
      BY <3>5, <3>6
  <2>9. n \in 1 .. n
    BY <1>3
  <2> QED
    BY <2>6, <2>8, <2>9
<1> QED
  BY <1>2, <1>3


\* A walk round a ring from t to h.
LEMMA RingWalk ==
  ASSUME NEW d \in Nat, d >= 1, NEW t \in 0 .. d - 1, NEW h \in 0 .. d - 1
  PROVE  /\ (h - t) % d = Ahead(t, h, d) /\ Ahead(t, h, d) \in 0 .. d - 1
         /\ \A i \in 0 .. Ahead(t, h, d) :
              /\ (t + i) % d \in 0 .. d - 1
              /\ Ahead(t, (t + i) % d, d) = i
              /\ Ahead((t + i) % d, h, d) = Ahead(t, h, d) - i
              /\ i < Ahead(t, h, d) => (t + (i + 1)) % d = Wrap((t + i) % d, d)
              /\ i = Ahead(t, h, d) => (t + i) % d = h
              /\ (t + i) % d = t <=> i = 0
<1>1. (h - t) % d = Ahead(t, h, d) /\ Ahead(t, h, d) \in 0 .. d - 1
  <2>1. CASE t <= h
    <3>1. h - t \in 0 .. d - 1
      BY <2>1
    <3> QED
      BY <2>1, <3>1, RingIndex DEF Ahead
  <2>2. CASE ~(t <= h)
    <3>1. h - t + d \in 0 .. d - 1 /\ (h - t + d) - d = h - t
      BY <2>2
    <3>2. ((h - t + d) - d) % d = h - t + d
      BY <3>1, RingIndex
    <3> QED
      BY <2>2, <3>1, <3>2 DEF Ahead
  <2> QED
    BY <2>1, <2>2
<1>2. ASSUME NEW i \in 0 .. d - 1
      PROVE  (t + i) % d = IF t + i < d THEN t + i ELSE t + i - d
  <2>1. CASE t + i < d
    BY <2>1, RingIndex
  <2>2. CASE ~(t + i < d)
    <3>1. t + i - d \in 0 .. d - 1 /\ (t + i - d) + d = t + i
      BY <2>2
    <3>2. ((t + i - d) + d) % d = t + i - d
      BY <3>1, RingIndex
    <3> QED
      BY <2>2, <3>1, <3>2
  <2> QED
    BY <2>1, <2>2
<1>3. ASSUME NEW i \in 0 .. Ahead(t, h, d)
      PROVE  /\ (t + i) % d \in 0 .. d - 1
             /\ Ahead(t, (t + i) % d, d) = i
             /\ Ahead((t + i) % d, h, d) = Ahead(t, h, d) - i
             /\ i < Ahead(t, h, d) => (t + (i + 1)) % d = Wrap((t + i) % d, d)
             /\ i = Ahead(t, h, d) => (t + i) % d = h
             /\ (t + i) % d = t <=> i = 0
  <2>1. i \in 0 .. d - 1 /\ (i < Ahead(t, h, d) => i + 1 \in 0 .. d - 1)
    BY <1>1
  <2>2. (t + i) % d = IF t + i < d THEN t + i ELSE t + i - d
    BY <1>2, <2>1
  <2>3. i < Ahead(t, h, d) =>
          (t + (i + 1)) % d = IF t + (i + 1) < d THEN t + (i + 1) ELSE t + (i + 1) - d
    BY <1>2, <2>1
  <2> DEFINE s == (t + i) % d
             r == (t + (i + 1)) % d
  <2>4. /\ s = IF t + i < d THEN t + i ELSE t + i - d
        /\ i < Ahead(t, h, d) =>
             r = IF t + (i + 1) < d THEN t + (i + 1) ELSE t + (i + 1) - d
    BY <2>2, <2>3
  <2> HIDE DEF s, r
  <2>5. /\ s \in 0 .. d - 1
        /\ Ahead(t, s, d) = i
        /\ Ahead(s, h, d) = Ahead(t, h, d) - i
        /\ i < Ahead(t, h, d) => r = Wrap(s, d)
        /\ i = Ahead(t, h, d) => s = h
        /\ s = t <=> i = 0
    BY <2>4 DEF Ahead, Wrap
  <2> QED
    BY <2>5 DEF s, r
<1> QED
  BY <1>1, <1>3

\* The end of what has been put into segments.
Prepared == NextId * StepEvents + NextOffset

\* The segments hold the steps from the interrupt's on to the planner's next.
LEMMA SegmentStepsAre ==
  ASSUME MotionTypeOK, Planned, NEW o, Follows(o)
  PROVE  /\ At(o) <= Prepared /\ Prepared \in Int
         /\ SegmentSteps = Run(At(o), Prepared)
<1> USE Sizes
<1> DEFINE M == SEGMENT_BUFFER_SIZE
           t == segment_buffer_tail
           h == segment_buffer_head
           n == Ahead(t, h, M)
           slot(i) == (t + i) % M
           P == [i \in 0 .. n |-> Ids[slot(i)] * StepEvents + o[slot(i)]]
           index(i) == (t + i - 1) % M
           steps(i) == IF i = 1 /\ st.exec_segment # NULL
                       THEN st.step_count ELSE segment_buffer[index(i)].n_step
           seqs == [i \in 1 .. n |->
             Copies(st_block_buffer[segment_buffer[index(i)].st_block_index], steps(i))]
<1>1. /\ t \in Slots /\ h \in Slots
      /\ Ids \in [Slots -> Int] /\ Todo \in [Slots -> Nat]
  BY MotionTypes, ViewTypes DEF Views
<1>2. /\ o \in Offsets /\ o[h] = NextOffset
      /\ Chained(t, h, Ids, Copy, Todo, o)
  BY DEF Follows, Following
<1>3. /\ (h - t) % M = n /\ n \in 0 .. M - 1
      /\ \A i \in 0 .. n :
           /\ slot(i) \in Slots
           /\ Ahead(t, slot(i), M) = i
           /\ i < n => (t + (i + 1)) % M = Wrap(slot(i), M)
           /\ i = n => slot(i) = h
           /\ slot(i) = t <=> i = 0
  <2>1. M \in Nat /\ M >= 1 /\ t \in 0 .. M - 1 /\ h \in 0 .. M - 1 /\ Slots = 0 .. M - 1
    BY <1>1 DEF Slots
  <2> HIDE DEF M, t, h
  <2> QED
    BY <2>1, RingWalk
<1>4. SegmentSteps = FlattenSeq(seqs)
  BY <1>3 DEF SegmentSteps
<1>5. \A i \in 0 .. n : slot(i + 1) = (t + (i + 1)) % M
  OBVIOUS
<1>6. \A i \in 1 .. n : index(i) = slot(i - 1)
  <2>1. \A i \in 1 .. n : t + i - 1 = t + (i - 1)
    BY <1>1, <1>3 DEF Slots
  <2> QED
    BY <2>1
<1>7. P[0] = At(o) /\ P[n] = Prepared
  <2>1. 0 \in 0 .. n /\ n \in 0 .. n
    BY <1>3
  <2>2. slot(0) = t /\ slot(n) = h
    BY <1>3, <2>1
  <2>3. Ids[h] = NextId
    BY <1>1 DEF Ids
  <2> HIDE DEF slot, t, h, n
  <2>4. P[0] = Ids[t] * StepEvents + o[t] /\ P[n] = NextId * StepEvents + NextOffset
    BY <1>2, <2>1, <2>2, <2>3
  <2> QED
    BY <2>4 DEF At, Prepared, t
<1>8. \A i \in 0 .. n : P[i] \in Int
  <2>1. \A i \in 0 .. n : Ids[slot(i)] \in Int /\ o[slot(i)] \in Int
    BY <1>1, <1>2, <1>3 DEF Offsets
  <2> HIDE DEF slot, n
  <2> QED
    BY <2>1
<1>9. ASSUME NEW i \in 1 .. n
      PROVE  /\ P[i - 1] <= P[i]
             /\ seqs[i] = Run(P[i - 1], P[i])
  <2> DEFINE s == slot(i - 1)
             g == NextSlot(s)
  <2>1. i - 1 \in 0 .. n /\ i \in 0 .. n /\ i - 1 < n
    BY <1>3
  <2>2. s \in Slots /\ Holds(t, h, s, M) /\ s # h /\ (s = t <=> i = 1)
    <3>1. s \in Slots /\ Ahead(t, s, M) = i - 1 /\ (s = t <=> i - 1 = 0)
      BY <1>3, <2>1
    <3> HIDE DEF s
    <3>2. Ahead(t, s, M) < n
      BY <2>1, <3>1
    <3> QED
      BY <3>1, <3>2 DEF Holds
  <2>3. slot(i) = g
    <3>1. (t + ((i - 1) + 1)) % M = Wrap(s, M)
      BY <1>3, <2>1
    <3>2. t + ((i - 1) + 1) = t + i
      BY <1>1, <1>3 DEF Slots
    <3> QED
      BY <3>1, <3>2 DEF NextSlot
  <2>4. g \in Slots /\ Ids[s] \in Int /\ Ids[g] \in Int /\ Todo[s] \in Nat
        /\ o[s] \in 0 .. StepEvents - 1 /\ o[g] \in 0 .. StepEvents - 1
    <3>1. g \in Slots
      BY <2>2, SlotType
    <3> HIDE DEF s, g
    <3> QED
      BY <1>1, <1>2, <2>2, <3>1 DEF Offsets
  <2>5. index(i) = s
    BY <1>6
  <2>6. seqs[i] = Copies(Ids[s], Todo[s])
    <3>1. st_block_buffer[segment_buffer[index(i)].st_block_index] = Ids[s]
      BY <2>2, <2>5 DEF Ids
    <3>2. steps(i) = Todo[s]
      BY <2>2, <2>5 DEF Todo
    <3> HIDE DEF index, steps, s
    <3> QED
      BY <3>1, <3>2
  <2>7. P[i - 1] = Ids[s] * StepEvents + o[s] /\ P[i] = Ids[g] * StepEvents + o[g]
    <3>1. P[i - 1] = Ids[slot(i - 1)] * StepEvents + o[slot(i - 1)]
          /\ P[i] = Ids[slot(i)] * StepEvents + o[slot(i)]
      <4> HIDE DEF slot, n
      <4> QED
        BY <2>1
    <3> QED
      BY <2>3, <3>1
  <2>8. \/ o[g] = o[s] + Todo[s] /\ Ids[g] = Ids[s]
        \/ o[g] = 0 /\ o[s] + Todo[s] = StepEvents /\ Ids[g] = Ids[s] + 1
    BY <1>2, <2>2 DEF Chained
  <2> HIDE DEF P, s, g, seqs
  <2>9. (Ids[s] + 1) * StepEvents = Ids[s] * StepEvents + StepEvents
        /\ Ids[s] * StepEvents \in Int
    BY <2>4
  <2>10. /\ P[i - 1] \in Int /\ P[i] \in Int
         /\ P[i] = P[i - 1] + Todo[s]
         /\ Ids[s] * StepEvents <= P[i - 1]
         /\ P[i] <= (Ids[s] + 1) * StepEvents
    BY <2>4, <2>7, <2>8, <2>9
  <2>11. P[i - 1] <= P[i] /\ P[i] - P[i - 1] = Todo[s]
    BY <2>4, <2>10
  <2>12. Copies(Ids[s], P[i] - P[i - 1]) = Run(P[i - 1], P[i])
    BY <2>4, <2>10, <2>11, RunCopies
  <2> QED
    BY <2>6, <2>11, <2>12
<1>10. seqs = [i \in 1 .. n |-> Run(P[i - 1], P[i])]
  <2>1. seqs = [i \in 1 .. n |-> seqs[i]]
    OBVIOUS
  <2> HIDE DEF seqs, P
  <2> QED
    BY <1>9, <2>1
<1>11. n \in Nat
  BY <1>3
<1>12. \A i \in 1 .. n : P[i - 1] <= P[i]
  BY <1>9
<1> HIDE DEF P, seqs, n
<1>13. FlattenSeq(seqs) = Run(P[0], P[n])
  BY <1>8, <1>10, <1>11, <1>12, FlattenRuns
<1>14. P[0] <= P[n]
  BY <1>8, <1>11, <1>12, Rising
<1>15. P[n] \in Int
  BY <1>8, <1>11
<1> QED
  BY <1>4, <1>7, <1>13, <1>14, <1>15


Accepted == (accepted + 1) * StepEvents

\* The planner's ring holds the steps from there on to the last accepted.
LEMMA PlannedStepsAre ==
  ASSUME MotionTypeOK, Planned
  PROVE  /\ Prepared <= Accepted /\ Accepted \in Int
         /\ PlannedSteps = Run(Prepared, Accepted)
<1> USE Sizes
<1> DEFINE N == BLOCK_BUFFER_SIZE
           t == block_buffer_tail
           h == block_buffer_head
           n == Ahead(t, h, N)
           slot(i) == (t + i) % N
           P == [i \in 0 .. n |-> IF i = 0 THEN Prepared ELSE (NextId + i) * StepEvents]
           block(i) == block_buffer[(t + i - 1) % N]
           seqs == [i \in 1 .. n |-> Copies(block(i).id, block(i).left)]
<1>1. /\ t \in 0 .. N - 1 /\ h \in 0 .. N - 1 /\ Blocks = 0 .. N - 1
      /\ accepted \in Int /\ NextId \in Int /\ NextOffset \in 0 .. StepEvents - 1
      /\ NextId = accepted - n + 1
  BY MotionTypes, MotionIntegers, WaitingType, ViewTypes
     DEF Blocks, Views, NextId, Waiting
<1>2. /\ (h - t) % N = n /\ n \in 0 .. N - 1
      /\ \A i \in 0 .. n :
           /\ slot(i) \in Blocks
           /\ Ahead(t, slot(i), N) = i
           /\ Ahead(slot(i), h, N) = n - i
           /\ slot(i) = t <=> i = 0
  <2>1. N \in Nat /\ N >= 1
    OBVIOUS
  <2> HIDE DEF N, t, h
  <2> QED
    BY <1>1, <2>1, RingWalk
<1>3. n = 0 <=> h = t
  BY <1>1 DEF Ahead
<1>4. PlannedSteps = FlattenSeq(seqs)
  BY <1>2 DEF PlannedSteps
<1>5. /\ NextId * StepEvents \in Int /\ Prepared \in Int
      /\ NextOffset >= 0 /\ Prepared = NextId * StepEvents + NextOffset
  BY <1>1 DEF Prepared
<1>6. \A i \in 0 .. n : P[i] \in Int
  <2>1. \A i \in 0 .. n : (NextId + i) * StepEvents \in Int
    BY <1>1
  <2> HIDE DEF n
  <2> QED
    BY <1>5, <2>1
<1>7. ASSUME NEW i \in 1 .. n
      PROVE  P[i - 1] <= P[i] /\ seqs[i] = Run(P[i - 1], P[i])
  <2> DEFINE s == slot(i - 1)
             b == NextId + (i - 1)
  <2>1. i - 1 \in 0 .. n /\ i \in 0 .. n /\ i # 0
    BY <1>2
  <2>2. s \in Blocks /\ Ahead(t, s, N) = i - 1 /\ Ahead(s, h, N) = n - (i - 1)
        /\ (s = t <=> i = 1)
    <3>1. s \in Blocks /\ Ahead(t, s, N) = i - 1 /\ Ahead(s, h, N) = n - (i - 1)
        /\ (s = t <=> i - 1 = 0)
      BY <1>2, <2>1
    <3> HIDE DEF s, n
    <3> QED
      BY <3>1
  <2>3. Holds(t, h, s, N)
    <3>1. i - 1 < n
      BY <1>2
    <3> HIDE DEF s
    <3> QED
      BY <2>2, <3>1 DEF Holds
  <2>4. block(i) = block_buffer[s]
    <3>1. t + i - 1 = t + (i - 1)
      BY <1>1, <1>2
    <3> QED
      BY <3>1
  <2>5. /\ block_buffer[s].id = accepted - (n - (i - 1)) + 1
        /\ i # 1 => block_buffer[s].left = StepEvents
        /\ i = 1 => block_buffer[s].left = StepEvents - NextOffset
    <3>1. /\ block_buffer[s].id = accepted - Ahead(s, h, N) + 1
          /\ s # t => block_buffer[s].left = StepEvents
      <4> HIDE DEF s
      <4> QED
        BY <2>2, <2>3 DEF Planned
    <3>2. i = 1 => block_buffer[s].left = StepEvents - NextOffset
      <4>1. h # t
        BY <1>2, <1>3, <2>1
      <4>2. /\ NextOffset = StepEvents - block_buffer[t].left
            /\ block_buffer[t].left \in 1 .. StepEvents
        BY <4>1, HeadBlock
      <4> HIDE DEF s, t
      <4> QED
        BY <2>2, <4>2
    <3> HIDE DEF s
    <3> QED
      BY <2>2, <3>1, <3>2
  <2>6. P[i] = (NextId + i) * StepEvents
        /\ P[i - 1] = IF i = 1 THEN Prepared ELSE (NextId + (i - 1)) * StepEvents
    <3> HIDE DEF n
    <3> QED
      BY <2>1
  <2>7. block_buffer[s].id = b /\ b \in Int
    <3>1. /\ n \in Int /\ i \in Int /\ accepted \in Int
          /\ NextId = accepted - n + 1
      BY <1>1, <1>2
    <3>2. b = accepted - n + i
      BY <3>1
    <3> HIDE DEF s, n, b
    <3> QED
      BY <2>5, <3>1, <3>2
  <2>8. seqs[i] = Copies(b, block_buffer[s].left)
    BY <2>4, <2>7
  <2>9. (b + 1) * StepEvents = b * StepEvents + StepEvents /\ b * StepEvents \in Int
        /\ b + 1 = NextId + i
    <3>1. b + 1 = NextId + i
      BY <1>1, <1>2
    <3> HIDE DEF b
    <3> QED
      BY <2>7, <3>1
  <2>10. P[i] = b * StepEvents + StepEvents
    BY <2>6, <2>9
  <2> HIDE DEF P, seqs
  <2>11. /\ P[i - 1] \in Int /\ P[i] \in Int /\ b * StepEvents <= P[i - 1]
         /\ P[i] = P[i - 1] + block_buffer[s].left
         /\ P[i] <= (b + 1) * StepEvents
         /\ P[i - 1] <= P[i]
    <3>1. CASE i = 1
      <4>1. b = NextId
        BY <1>1, <3>1
      <4>2. P[i - 1] = b * StepEvents + NextOffset
        BY <1>5, <2>6, <3>1, <4>1
      <4> HIDE DEF s, b
      <4> QED
        BY <1>1, <2>5, <2>9, <2>10, <3>1, <4>2
    <3>2. CASE i # 1
      <4>1. P[i - 1] = b * StepEvents
        BY <2>6, <3>2
      <4>2. StepEvents \in Nat
        BY <1>1
      <4> HIDE DEF s, b
      <4> QED
        BY <2>5, <2>9, <2>10, <3>2, <4>1, <4>2
    <3> QED
      BY <3>1, <3>2
  <2> DEFINE c == block_buffer[s].left
  <2>12. P[i] - P[i - 1] = c
    <3>1. c \in Int
      BY <1>1, <2>5
    <3> HIDE DEF c
    <3> QED
      BY <2>11, <3>1 DEF c
  <2> HIDE DEF s, b, c
  <2>13. Copies(b, P[i] - P[i - 1]) = Run(P[i - 1], P[i])
    BY <2>7, <2>11, RunCopies
  <2> QED
    BY <2>8, <2>11, <2>12, <2>13 DEF c
<1>8. seqs = [i \in 1 .. n |-> Run(P[i - 1], P[i])]
  <2>1. seqs = [i \in 1 .. n |-> seqs[i]]
    OBVIOUS
  <2> HIDE DEF seqs, P
  <2> QED
    BY <1>7, <2>1
<1>9. n \in Nat /\ n \in 0 .. n /\ 0 \in 0 .. n
  BY <1>2
<1>10. P[0] = Prepared /\ P[n] = Accepted
  <2>1. CASE n = 0
    <3>1. NextId = accepted + 1 /\ NextOffset = 0
      BY <1>1, <1>3, <2>1 DEF NextOffset
    <3>2. Prepared = Accepted
      BY <1>5, <3>1 DEF Accepted
    <3> HIDE DEF n
    <3> QED
      BY <1>9, <2>1, <3>2
  <2>2. CASE n # 0
    <3>1. NextId + n = accepted + 1
      BY <1>1, <1>9
    <3> HIDE DEF n
    <3>2. P[n] = (NextId + n) * StepEvents
      BY <1>9, <2>2
    <3> QED
      BY <1>9, <3>1, <3>2 DEF Accepted
  <2> QED
    BY <2>1, <2>2
<1>11. \A i \in 1 .. n : P[i - 1] <= P[i]
  BY <1>7
<1> HIDE DEF P, seqs, n
<1>12. FlattenSeq(seqs) = Run(P[0], P[n])
  BY <1>6, <1>8, <1>9, <1>11, FlattenRuns
<1>13. P[0] <= P[n]
  BY <1>6, <1>9, <1>11, Rising
<1>14. P[n] \in Int
  BY <1>6, <1>9
<1> QED
  BY <1>4, <1>10, <1>12, <1>13, <1>14

\* The steps that are pending are those from the interrupt's on to the last accepted.
LEMMA PendingIs ==
  ASSUME MotionTypeOK, Planned, NEW o, Follows(o)
  PROVE  /\ At(o) <= Accepted
         /\ Pending = Steps(At(o), Accepted)
<1> USE Sizes
<1> DEFINE p == At(o)
           q == Accepted
           ids == SegmentSteps \o PlannedSteps
           from(i) == {j \in i .. Len(ids) : ids[j] = ids[i]}
<1>1. /\ p \in Int /\ q \in Int /\ p <= q
      /\ Prepared \in Int /\ p <= Prepared /\ Prepared <= q
  BY AtType, SegmentStepsAre, PlannedStepsAre
<1>2. ids = Run(p, q)
  <2>1. SegmentSteps = Run(p, Prepared) /\ PlannedSteps = Run(Prepared, q)
    BY SegmentStepsAre, PlannedStepsAre
  <2>2. Run(p, Prepared) \o Run(Prepared, q) = Run(p, q)
    <3> HIDE DEF p, q
    <3> QED
      BY <1>1, RunConcat
  <2> QED
    BY <2>1, <2>2
<1>3. Len(ids) = q - p
  <2> HIDE DEF p, q, ids
  <2> QED
    BY <1>1, <1>2, RunType
<1>4. \A i \in 1 .. q - p : ids[i] = (p + i - 1) \div StepEvents
  <2> HIDE DEF p, q, ids
  <2> QED
    BY <1>2 DEF Run
<1>5. q = (accepted + 1) * StepEvents /\ accepted \in Int
  BY MotionIntegers DEF Accepted
<1>6. Pending = [i \in 1 .. Len(ids) |-> <<ids[i], StepEvents - Cardinality(from(i)) + 1>>]
  BY DEF Pending
<1> HIDE DEF p, q, ids
<1>7. ASSUME NEW i \in 1 .. q - p
      PROVE  StepEvents - Cardinality(from(i)) + 1 = ((p + i - 1) % StepEvents) + 1
  <2> DEFINE x == p + i - 1
             b == x \div StepEvents
             e == (b + 1) * StepEvents - p
  <2>1. x \in Int /\ x < q
    BY <1>1
  <2>2. /\ b \in Int /\ b * StepEvents <= x /\ x < b * StepEvents + StepEvents
        /\ x % StepEvents = x - b * StepEvents
    BY <2>1, Quotient
  <2> HIDE DEF x, b
  <2>3. (b + 1) * StepEvents = b * StepEvents + StepEvents /\ b * StepEvents \in Int
        /\ (b + 1) * StepEvents \in Int
    BY <2>2
  <2>4. (b + 1) * StepEvents <= q
    <3>1. CASE b + 1 <= accepted + 1
      BY <1>5, <2>2, <3>1, Multiples
    <3>2. CASE accepted + 1 <= b
      <4>1. (accepted + 1) * StepEvents <= b * StepEvents
        BY <1>5, <2>2, <3>2, Multiples
      <4> QED
        BY <1>1, <1>5, <2>1, <2>2, <2>3, <4>1
    <3> QED
      BY <1>5, <2>2, <3>1, <3>2
  <2>5. e \in Int /\ i <= e /\ e <= q - p
    BY <1>1, <2>1, <2>2, <2>3, <2>4 DEF x
  <2>6. ids[i] = b
    BY <1>4 DEF x, b
  <2>7. from(i) = i .. e
    <3>1. ASSUME NEW j \in i .. q - p
          PROVE  ids[j] = b <=> j <= e
      <4> DEFINE y == p + j - 1
                 c == y \div StepEvents
      <4>1. j \in 1 .. q - p /\ y \in Int /\ x <= y
        BY <1>1, <3>1 DEF x
      <4>2. ids[j] = c
        BY <1>4, <4>1
      <4>3. CASE j <= e
        <5>1. b * StepEvents <= y /\ y < (b + 1) * StepEvents
          BY <1>1, <2>1, <2>2, <2>3, <4>1, <4>3
        <5>2. c = b
          BY <2>2, <4>1, <5>1, QuotientIs
        <5> QED
          BY <4>2, <4>3, <5>2
      <4>4. CASE ~(j <= e)
        <5>1. y >= (b + 1) * StepEvents
          BY <1>1, <2>3, <4>1, <4>4
        <5>2. y < c * StepEvents + StepEvents /\ c \in Int
          BY <4>1, Quotient
        <5> HIDE DEF y, c
        <5>3. c # b
          BY <5>1, <5>2, <2>3, <4>1
        <5> QED
          BY <4>2, <4>4, <5>3
      <4> QED
        BY <4>3, <4>4
    <3>2. from(i) = {j \in i .. q - p : j <= e}
      BY <1>3, <2>6, <3>1
    <3> HIDE DEF e, from
    <3> QED
      BY <1>1, <2>5, <3>2
  <2>8. Cardinality(i .. e) = e - i + 1
    <3> HIDE DEF e
    <3> QED
      BY <2>5, FS_Interval
  <2>9. e - i + 1 = b * StepEvents + StepEvents - x
    BY <1>1, <2>3 DEF x
  <2> HIDE DEF e
  <2>10. StepEvents - (e - i + 1) + 1 = (x - b * StepEvents) + 1
    BY <2>1, <2>3, <2>9
  <2> QED
    BY <2>2, <2>7, <2>8, <2>10 DEF x
<1>8. Pending = [i \in 1 .. q - p |-> <<ids[i], StepEvents - Cardinality(from(i)) + 1>>]
  BY <1>3, <1>6
<1>9. Pending = [i \in 1 .. q - p |->
                   <<(p + i - 1) \div StepEvents, ((p + i - 1) % StepEvents) + 1>>]
  <2> HIDE DEF from
  <2> QED
    BY <1>4, <1>7, <1>8
<1> QED
  BY <1>1, <1>9 DEF Steps, p, q


-----------------------------------------------------------------------------
(***************************************************************************)
(* The queue the motion path implements.                                   *)
(***************************************************************************)
PendingSteps ==
  \A o : Follows(o) =>
    At(o) \in Int /\ At(o) <= Accepted /\ Pending = Steps(At(o), Accepted)

LEMMA PendingNow == MotionInv => PendingSteps
BY PendingIs, AtType DEF MotionInv, PendingSteps

LEMMA PendingNext == MotionInv' => PendingSteps'
BY PendingNow, PTL

\* With both rings empty nothing is pending.
LEMMA NothingPending ==
  MotionInv /\ segment_buffer_head = segment_buffer_tail
            /\ block_buffer_head = block_buffer_tail => Pending = << >>
<1> SUFFICES ASSUME MotionInv, segment_buffer_head = segment_buffer_tail,
                    block_buffer_head = block_buffer_tail
             PROVE  Pending = << >>
  OBVIOUS
<1> USE Sizes
<1>1. PICK o : Follows(o)
  BY DEF MotionInv
<1>2. MotionTypeOK /\ Planned
  BY DEF MotionInv
<1>3. segment_buffer_tail \in Slots /\ accepted \in Int
  BY <1>2, MotionTypes, MotionIntegers
<1>4. NextId = accepted + 1 /\ NextOffset = 0
  BY <1>2, <1>3, WaitingType DEF NextId, NextOffset
<1>5. Ids[segment_buffer_tail] = NextId
  BY <1>3 DEF Ids
<1>6. o[segment_buffer_tail] = 0
  BY <1>1, <1>4 DEF Follows
<1>7. At(o) = Accepted /\ At(o) \in Int
  BY <1>3, <1>4, <1>5, <1>6 DEF At, Accepted
<1>8. Pending = Steps(At(o), Accepted)
  BY <1>1, PendingNow DEF PendingSteps
<1>9. Accepted - At(o) = 0
  BY <1>7
<1> QED
  BY <1>8, <1>9 DEF Steps

LEMMA NothingPendingNext ==
  (MotionInv /\ segment_buffer_head = segment_buffer_tail
             /\ block_buffer_head = block_buffer_tail => Pending = << >>)'
BY NothingPending, PTL

\* The next step to be taken, and those after it.
LEMMA TakeStep ==
  ASSUME NEW b \in Int, NEW k \in 0 .. StepEvents - 1, NEW q \in Int,
         b * StepEvents + k + 1 <= q
  PROVE  /\ Steps(b * StepEvents + k, q) # << >>
         /\ Head(Steps(b * StepEvents + k, q)) = <<b, k + 1>>
         /\ Tail(Steps(b * StepEvents + k, q)) = Steps(b * StepEvents + k + 1, q)
<1> USE Sizes
<1> DEFINE p == b * StepEvents + k
<1>0. p = b * StepEvents + k /\ p \in Int /\ p + 1 <= q
  OBVIOUS
<1> HIDE DEF p
<1>1. p \in Int /\ b * StepEvents <= p /\ p < (b + 1) * StepEvents /\ p - b * StepEvents = k
  BY <1>0, Multiples
<1>2. p \div StepEvents = b
  BY <1>1, QuotientIs
<1>3. p % StepEvents = k
  BY <1>1, <1>2, Quotient
<1> DEFINE step(j) == <<j \div StepEvents, (j % StepEvents) + 1>>
<1>4. \A j \in Int : step(j) \in Int \X Int
  <2>1. \A j \in Int : j \div StepEvents \in Int /\ j % StepEvents \in 0 .. StepEvents - 1
    BY Quotient
  <2> QED
    BY <2>1
<1>5. step(p) = <<b, k + 1>>
  BY <1>2, <1>3
<1> HIDE DEF step
<1> DEFINE s == [i \in 1 .. q - p |-> step(p + i - 1)]
           t == [i \in 1 .. q - (p + 1) |-> step((p + 1) + i - 1)]
<1>6. s = Steps(p, q) /\ t = Steps(p + 1, q)
  BY DEF Steps, step
<1>7. s \in Seq(Int \X Int) /\ Len(s) = q - p
  <2>1. q - p \in Nat /\ \A i \in 1 .. q - p : p + i - 1 \in Int
    BY <1>0, <1>1
  <2> QED
    BY <1>0, <1>1, <1>4, <2>1
<1>8. s # << >> /\ Head(s) = s[1]
  BY <1>0, <1>1, <1>7
<1>9. s[1] = step(p)
  BY <1>0, <1>1
<1>10. Tail(s) = t
  <2>1. /\ Tail(s) \in Seq(Int \X Int) /\ Len(Tail(s)) = Len(s) - 1
        /\ \A i \in 1 .. Len(Tail(s)) : Tail(s)[i] = s[i + 1]
    <3> HIDE DEF s
    <3> QED
      BY <1>7, <1>8, HeadTailProperties
  <2>2. Len(s) - 1 = q - (p + 1)
    BY <1>1, <1>7
  <2>3. ASSUME NEW i \in 1 .. q - (p + 1)
        PROVE  s[i + 1] = t[i]
    <3>1. i + 1 \in 1 .. q - p /\ p + (i + 1) - 1 = (p + 1) + i - 1
      BY <1>1
    <3> QED
      BY <3>1
  <2>4. t \in Seq(Int \X Int) /\ Len(t) = q - (p + 1)
    <3>1. q - (p + 1) \in Nat /\ \A i \in 1 .. q - (p + 1) : (p + 1) + i - 1 \in Int
      BY <1>0, <1>1
    <3> QED
      BY <1>0, <1>1, <1>4, <3>1
  <2> HIDE DEF s, t
  <2> QED
    BY <2>1, <2>2, <2>3, <2>4, SeqEqual
<1> QED
  BY <1>5, <1>6, <1>8, <1>9, <1>10 DEF p

\* A block is appended.
LEMMA AppendBlock ==
  ASSUME NEW a \in Int, NEW p \in Int, NEW q, q = a * StepEvents, p <= q
  PROVE  Steps(p, q) \o [k \in 1 .. StepEvents |-> <<a, k>>] = Steps(p, q + StepEvents)
<1> USE Sizes
<1>1. q \in Int /\ (a + 1) * StepEvents = q + StepEvents
  OBVIOUS
<1>2. ASSUME NEW k \in 1 .. StepEvents
      PROVE  /\ (q + k - 1) \div StepEvents = a
             /\ (q + k - 1) % StepEvents = k - 1
  <2>1. q + k - 1 \in Int /\ a * StepEvents <= q + k - 1
          /\ q + k - 1 < (a + 1) * StepEvents /\ (q + k - 1) - a * StepEvents = k - 1
    BY <1>1
  <2>2. (q + k - 1) \div StepEvents = a
    BY <2>1, QuotientIs
  <2> QED
    BY <2>1, <2>2, Quotient
<1> DEFINE step(j) == <<j \div StepEvents, (j % StepEvents) + 1>>
<1>3. \A j \in Int : step(j) \in Int \X Int
  <2>1. \A j \in Int : j \div StepEvents \in Int /\ j % StepEvents \in 0 .. StepEvents - 1
    BY Quotient
  <2> QED
    BY <2>1
<1>4. \A k \in 1 .. StepEvents : step(q + k - 1) = <<a, k>>
  <2> SUFFICES ASSUME NEW k \in 1 .. StepEvents
               PROVE  step(q + k - 1) = <<a, k>>
    OBVIOUS
  <2>1. (k - 1) + 1 = k
    OBVIOUS
  <2> QED
    BY <1>2, <2>1
<1> HIDE DEF step
<1> DEFINE s == [i \in 1 .. q - p |-> step(p + i - 1)]
           t == [k \in 1 .. StepEvents |-> <<a, k>>]
           u == [i \in 1 .. (q + StepEvents) - p |-> step(p + i - 1)]
<1>5. s = Steps(p, q) /\ u = Steps(p, q + StepEvents)
  BY DEF Steps, step
<1>6. s \in Seq(Int \X Int) /\ Len(s) = q - p
  <2>1. q - p \in Nat /\ \A i \in 1 .. q - p : p + i - 1 \in Int
    BY <1>1
  <2> QED
    BY <1>3, <2>1
<1>7. u \in Seq(Int \X Int) /\ Len(u) = (q - p) + StepEvents
  <2>1. /\ (q + StepEvents) - p \in Nat /\ (q + StepEvents) - p = (q - p) + StepEvents
        /\ \A i \in 1 .. (q + StepEvents) - p : p + i - 1 \in Int
    BY <1>1
  <2> QED
    BY <1>3, <2>1
<1>8. t \in Seq(Int \X Int) /\ Len(t) = StepEvents
  OBVIOUS
<1>9. /\ s \o t \in Seq(Int \X Int) /\ Len(s \o t) = (q - p) + StepEvents
      /\ \A i \in 1 .. (q - p) + StepEvents :
           (s \o t)[i] = IF i <= q - p THEN s[i] ELSE t[i - (q - p)]
  <2> HIDE DEF s, t
  <2>1. /\ s \o t \in Seq(Int \X Int) /\ Len(s \o t) = Len(s) + Len(t)
        /\ \A i \in 1 .. Len(s) + Len(t) : (s \o t)[i] =
             IF i <= Len(s) THEN s[i] ELSE t[i - Len(s)]
    BY <1>6, <1>8, ConcatProperties
  <2> QED
    BY <1>6, <1>8, <2>1
<1>10. ASSUME NEW i \in 1 .. (q - p) + StepEvents
       PROVE  (s \o t)[i] = u[i]
  <2>1. u[i] = step(p + i - 1)
    BY <1>1
  <2>2. CASE i <= q - p
    <3>1. s[i] = step(p + i - 1)
      BY <1>1, <2>2
    <3> HIDE DEF s, t, u
    <3> QED
      BY <1>9, <2>1, <2>2, <3>1
  <2>3. CASE ~(i <= q - p)
    <3> DEFINE k == i - (q - p)
    <3>1. k \in 1 .. StepEvents /\ q + k - 1 = p + i - 1
      BY <1>1, <2>3
    <3>2. t[k] = <<a, k>>
      BY <3>1
    <3>3. (s \o t)[i] = t[k]
      <4> HIDE DEF s, t
      <4> QED
        BY <1>9, <2>3
    <3>4. step(q + k - 1) = <<a, k>>
      BY <1>4, <3>1
    <3> HIDE DEF s, t, u, k
    <3> QED
      BY <2>1, <3>1, <3>2, <3>3, <3>4
  <2> QED
    BY <2>2, <2>3
<1> HIDE DEF s, u
<1>11. s \o t = u
  <2> HIDE DEF t
  <2> QED
    BY <1>7, <1>9, <1>10, SeqEqual
<1> QED
  BY <1>5, <1>11


queueVars == <<pc \notin {"init_motion", "init_flags"}, Pending, accepted, motor>>

\* A step that takes none of the steps leaves them pending.
LEMMA StillPending ==
  ASSUME MotionInv, MotionInv', Moves(0), UNCHANGED accepted
  PROVE  Pending' = Pending
<1>1. PICK o : Follows(o)
  BY DEF MotionInv
<1>2. PICK p : Follows(p)' /\ At(p)' = At(o) + 0
  BY <1>1 DEF Moves
<1>3. Pending = Steps(At(o), Accepted) /\ At(o) \in Int
  BY <1>1, PendingNow DEF PendingSteps
<1>4. Pending' = Steps(At(p)', Accepted')
  BY <1>2, PendingNext DEF PendingSteps
<1>5. Accepted' = Accepted
  BY DEF Accepted
<1>6. At(p)' = At(o)
  BY <1>2, <1>3
<1> QED
  BY <1>3, <1>4, <1>5, <1>6

\* Every step of the system is one of the queue, or leaves it alone.
LEMMA QueueSteps ==
  ASSUME MotionInv, MotionInv', [Next]_vars
  PROVE  [Queue!Next]_queueVars
<1> USE Sizes
<1>1. accepted \in Int /\ accepted' \in Int
  <2>1. MotionTypeOK /\ MotionTypeOK'
    BY DEF MotionInv
  <2>2. MotionTypeOK => accepted \in Int
    BY MotionIntegers
  <2>3. MotionTypeOK' => accepted' \in Int
    BY DEF MotionTypeOK
  <2> QED
    BY <2>1, <2>2, <2>3
<1>2. PICK o : Follows(o)
  BY DEF MotionInv
<1>3. Pending = Steps(At(o), Accepted) /\ At(o) \in Int /\ At(o) <= Accepted
  BY <1>2, PendingNow DEF PendingSteps
<1>4. Accepted = (accepted + 1) * StepEvents /\ Accepted' = (accepted' + 1) * StepEvents
  BY DEF Accepted
<1>5. CASE Moves(0) /\ UNCHANGED <<accepted, motor>>
  <2>1. Pending' = Pending
    BY <1>5, StillPending
  <2>2. \/ UNCHANGED queueVars
        \/ Queue!StopOrStart
    BY <1>5, <2>1 DEF queueVars, Queue!StopOrStart
  <2> QED
    BY <2>2 DEF Queue!Next
<1>6. CASE PlanLine /\ PlanBufferLine /\ Moves(0)
  <2>1. PICK p : Follows(p)' /\ At(p)' = At(o) + 0
    BY <1>2, <1>6 DEF Moves
  <2>2. Pending' = Steps(At(p)', Accepted')
    BY <2>1, PendingNext DEF PendingSteps
  <2>3. accepted < MaxBlocks /\ accepted' = accepted + 1 /\ motor' = motor
          /\ pc = "return" /\ pc' = "read"
    BY <1>6 DEF PlanLine, PlanBufferLine, isrVars, Returned
  <2>4. Accepted' = Accepted + StepEvents
    BY <1>1, <1>4, <2>3
  <2>5. Pending' = Steps(At(o), Accepted + StepEvents)
    BY <1>3, <2>1, <2>2, <2>4
  <2>6. Pending' = Pending \o [k \in 1 .. StepEvents |-> <<accepted + 1, k>>]
    <3> DEFINE a == accepted + 1
               q == Accepted
               r == At(o)
    <3>1. a \in Int /\ r \in Int /\ q = a * StepEvents /\ r <= q
      BY <1>1, <1>3, <1>4
    <3>2. Pending = Steps(r, q) /\ Pending' = Steps(r, q + StepEvents)
      BY <1>3, <2>5
    <3> HIDE DEF a, q, r
    <3>3. Steps(r, q) \o [k \in 1 .. StepEvents |-> <<a, k>>] = Steps(r, q + StepEvents)
      BY <3>1, AppendBlock
    <3>4. Pending' = Pending \o [k \in 1 .. StepEvents |-> <<a, k>>]
      BY <3>2, <3>3
    <3> QED
      BY <3>4 DEF a
  <2>7. Queue!Accept
    BY <2>3, <2>6 DEF Queue!Accept
  <2> QED
    BY <2>7 DEF Queue!Next
<1>7. CASE /\ StepperSteps /\ Moves(1) /\ UNCHANGED <<accepted, pc>>
           /\ \A x : Follows(x) =>
                motor' = <<Ids[segment_buffer_tail], x[segment_buffer_tail] + 1>>
  <2> DEFINE b == Ids[segment_buffer_tail]
             k == o[segment_buffer_tail]
  <2>1. PICK p : Follows(p)' /\ At(p)' = At(o) + 1
    BY <1>2, <1>7 DEF Moves
  <2>2. /\ Pending' = Steps(At(p)', Accepted') /\ At(p)' <= Accepted'
    BY <2>1, PendingNext DEF PendingSteps
  <2>3. Accepted' = Accepted /\ Accepted \in Int
    BY <1>1, <1>4, <1>7
  <2>4. Pending' = Steps(At(o) + 1, Accepted) /\ At(o) + 1 <= Accepted
    BY <2>1, <2>2, <2>3
  <2>5. b \in Int /\ k \in 0 .. StepEvents - 1 /\ At(o) = b * StepEvents + k
    BY <1>2, AtType DEF MotionInv, At
  <2>6. motor' = <<b, k + 1>>
    BY <1>2, <1>7
  <2> HIDE DEF b, k
  <2>7. /\ Pending # << >> /\ Head(Pending) = <<b, k + 1>>
        /\ Tail(Pending) = Steps(At(o) + 1, Accepted)
    <3> DEFINE q == Accepted
               r == At(o)
    <3>1. q \in Int /\ r = b * StepEvents + k /\ r + 1 <= q
      BY <2>3, <2>4, <2>5
    <3>2. Pending = Steps(r, q)
      BY <1>3
    <3> HIDE DEF q, r
    <3>3. /\ Steps(r, q) # << >>
          /\ Head(Steps(r, q)) = <<b, k + 1>>
          /\ Tail(Steps(r, q)) = Steps(r + 1, q)
      <4>1. /\ Steps(b * StepEvents + k, q) # << >>
            /\ Head(Steps(b * StepEvents + k, q)) = <<b, k + 1>>
            /\ Tail(Steps(b * StepEvents + k, q)) = Steps(b * StepEvents + k + 1, q)
        <5>1. b * StepEvents + k + 1 <= q
          BY <3>1
        <5> QED
          BY <2>5, <3>1, <5>1, TakeStep, Zenon
      <4> QED
        BY <3>1, <4>1
    <3> QED
      BY <3>2, <3>3 DEF q, r
  <2>8. Queue!Step
    BY <1>7, <2>4, <2>6, <2>7 DEF Queue!Step
  <2> QED
    BY <2>8 DEF Queue!Next
<1>8. CASE InitMotionPath /\ MotionInv'
  <2>1. /\ pc = "init_motion" /\ pc' = "init_flags"
        /\ UNCHANGED <<accepted, motor>>
        /\ segment_buffer_head' = segment_buffer_tail'
        /\ block_buffer_head' = block_buffer_tail'
    BY <1>8 DEF InitMotionPath, Goto, PlanReset, StReset
  <2>2. Pending' = << >>
    BY <1>8, <2>1, NothingPendingNext
  <2>3. Queue!Drop
    BY <2>1, <2>2 DEF Queue!Drop
  <2> QED
    BY <2>3 DEF Queue!Next
<1> QED
  BY <1>5, <1>6, <1>7, <1>8, MotionSteps

\* The steps of the blocks accepted reach the motors once each and in order.
THEOREM ImplementsTheQueue == Spec => ImplementsQueue
<1>1. Init => Queue!Init
  <2> SUFFICES ASSUME Init PROVE Queue!Init
    OBVIOUS
  <2>1. /\ segment_buffer_head = segment_buffer_tail
        /\ block_buffer_head = block_buffer_tail
        /\ accepted = 0 /\ motor = <<0, 0>>
    BY DEF Init, InitMotion
  <2>2. Pending = << >>
    BY <2>1, MotionInitially, NothingPending
  <2> QED
    BY <2>1, <2>2 DEF Queue!Init
<1>2. MotionInv /\ MotionInv' /\ [Next]_vars => [Queue!Next]_queueVars
  BY QueueSteps
<1> QED
  BY <1>1, <1>2, MotionPath, PTL DEF Spec, ImplementsQueue, Queue!Spec, queueVars


-----------------------------------------------------------------------------
(***************************************************************************)
(* The types of the rest of the state.                                     *)
(***************************************************************************)
FlagsTypeOK ==
  /\ rt_state \subseteq {"STATUS_REPORT", "CYCLE_START", "CYCLE_STOP",
                         "FEED_HOLD", "SAFETY_DOOR", "RESET"}
  /\ rt_exec \subseteq {"STATUS_REPORT", "CYCLE_START", "CYCLE_STOP",
                        "FEED_HOLD", "SAFETY_DOOR"}
  /\ rt_alarm \subseteq {"ABORT_CYCLE", "SOFT_LIMIT", "CRITICAL_EVENT"}

PlaceTypeOK ==
  /\ pc \in InitSteps \cup RealtimeSteps \cup OtherSteps
  /\ caller \in Callers
  /\ abort \in BOOLEAN /\ soft_limit \in BOOLEAN
  /\ asked \in BOOLEAN /\ killed \in BOOLEAN /\ gap \in BOOLEAN

HostTypeOK ==
  /\ rx \in Seq(LineKinds) /\ Len(rx) < RX_BUFFER_SIZE
  /\ line \in LineKinds \cup {"none"}
  /\ inputs \in 0 .. MaxInputs

LEMMA ResetTypes ==
  ASSUME FlagsTypeOK, killed \in BOOLEAN, gap \in BOOLEAN, timer \in BOOLEAN,
         NEW alarms, alarms \subseteq ResetKinds, McReset(alarms), rt_exec' = rt_exec
  PROVE  FlagsTypeOK' /\ killed' \in BOOLEAN /\ gap' \in BOOLEAN
BY DEF FlagsTypeOK, McReset, ResetKinds

LEMMA FlagsStep ==
  ASSUME FlagsTypeOK, PlaceTypeOK, timer \in BOOLEAN, [Next]_vars
  PROVE  FlagsTypeOK'
<1> USE DEF FlagsTypeOK
<1>1. CASE Main /\ ~ExecuteSystem /\ ~SoftLimitReset
  <2>1. CASE RtCopy
    <3>1. UNCHANGED <<rt_state, rt_alarm>>
      BY <2>1 DEF RtCopy
    <3>2. rt_exec' = {} \/ (rt_exec' = rt_state /\ "RESET" \notin rt_state)
      BY <2>1 DEF RtCopy
    <3> QED
      BY <3>1, <3>2
  <2>2. CASE RtStart \/ RtWake \/ InitFlags \/ InitAlarm
    BY <2>2 DEF RtStart, RtWake, StartDone, InitFlags, InitAlarm, rtVars
  <2>3. CASE \/ RtAlarm \/ RtStatus \/ RtStop \/ MainRead
             \/ ReturnToMcLine \/ ExecuteOutside \/ ExecuteDwell
    <3>1. /\ UNCHANGED <<rt_exec, rt_alarm>>
          /\ \/ rt_state' \subseteq rt_state
             \/ rt_state' = rt_state \cup {"CYCLE_START"}
             \/ rt_state' = rt_state \cup {"FEED_HOLD"}
      BY <2>3 DEF RtAlarm, RtStatus, RtStop, MainRead, ReturnToMcLine,
         ExecuteOutside, ExecuteDwell, AutoCycleStart, CallRealtime
    <3> QED
      BY <3>1
  <2>4. CASE RtPrepDone
    BY <2>4 DEF RtPrepDone
  <2>6. CASE RtHold
    <3>1. /\ rt_exec' \in {rt_exec, rt_exec \cup {"CYCLE_STOP"}}
          /\ rt_state' \subseteq rt_state /\ UNCHANGED rt_alarm
      BY <2>6 DEF RtHold, DoorOpens, FeedHold
    <3> QED
      BY <3>1
  <2>5. CASE \/ InitSerial \/ InitMotionPath \/ InitSys \/ RtCritical
             \/ RtClearAlarm \/ RtPrep \/ ReturnToLoop \/ ReturnToLine
             \/ ExecuteIgnored \/ ExecuteMove \/ PlanLine
             \/ ReturnToSoftLimit \/ ReturnToSoftReset \/ ReturnToSync
             \/ ReturnFromDwell
    <3>1. /\ UNCHANGED <<rt_exec, rt_state>>
          /\ rt_alarm' \subseteq rt_alarm
      BY <2>5 DEF InitSerial, InitMotionPath, InitSys, RtCritical,
         RtClearAlarm, RtPrep, ReturnToLoop, ReturnToLine, ExecuteIgnored,
         ExecuteMove, PlanLine, ReturnToSoftLimit, ReturnToSoftReset,
         ReturnToSync, ReturnFromDwell, CallRealtime, rtVars
    <3> QED
      BY <3>1
  <2> QED
    BY <1>1, <2>1, <2>2, <2>3, <2>4, <2>5, <2>6 DEF Main
<1>2. CASE ExecuteSystem
  <2>1. CASE McReset({})
    BY <1>2, <2>1, ResetTypes DEF ExecuteSystem, PlaceTypeOK
  <2>2. CASE UNCHANGED <<rt_state, rt_alarm>>
    BY <1>2, <2>2 DEF ExecuteSystem
  <2> QED
    BY <1>2, <2>1, <2>2 DEF ExecuteSystem
<1>3. CASE SoftLimitReset
  BY <1>3, ResetTypes DEF SoftLimitReset, PlaceTypeOK, CallRealtime, ResetKinds
<1>4. CASE ReceiveLine
  BY <1>4 DEF ReceiveLine, rtVars
<1>5. CASE StepperInterrupt
  BY <1>5 DEF StepperInterrupt, StepperRunsDry, StepperSteps, rtVars
<1>6. ASSUME NEW c \in Characters, ReceiveCharacter(c) PROVE FlagsTypeOK'
  <2>1. CASE c = "^X"
    BY <1>6, <2>1, ResetTypes DEF ReceiveCharacter, PlaceTypeOK, rtVars
  <2>2. CASE c # "^X"
    <3>1. c \in {"?", "~", "!", "@"}
      BY <2>2, ProtocolAssumption
    <3>2. Flag[c] \in {"STATUS_REPORT", "CYCLE_START", "FEED_HOLD", "SAFETY_DOOR"}
      BY <3>1 DEF Flag
    <3> QED
      BY <1>6, <2>2, <3>2 DEF ReceiveCharacter, rtVars
  <2> QED
    BY <2>1, <2>2
<1>7. CASE UNCHANGED vars
  BY <1>7 DEF vars, rtVars
<1> QED
  BY <1>1, <1>2, <1>3, <1>4, <1>5, <1>6, <1>7 DEF Next

LEMMA PlaceStep ==
  ASSUME FlagsTypeOK, PlaceTypeOK, timer \in BOOLEAN, [Next]_vars
  PROVE  PlaceTypeOK'
<1> USE DEF InitSteps, RealtimeSteps, CopiedSteps, OtherSteps, Callers
<1>1. CASE Main /\ ~ExecuteSystem /\ ~SoftLimitReset
  <2>1. /\ pc' \in InitSteps \cup RealtimeSteps \cup OtherSteps
        /\ caller' \in Callers
    BY <1>1, BranchFound DEF PlaceTypeOK, Main, InitSerial, InitMotionPath, InitFlags,
       InitAlarm, InitSys, RtAlarm, RtCritical, RtClearAlarm, RtCopy,
       RtStatus, RtHold, RtStart, RtWake, RtStop, RtPrep, RtPrepDone, MainRead,
       ReturnToLoop, ReturnToLine, ExecuteIgnored, ExecuteMove, ReturnToMcLine,
       PlanLine, ExecuteOutside, ReturnToSoftLimit, ReturnToSoftReset,
       ExecuteDwell, ReturnToSync, ReturnFromDwell, StartDone,
       CallRealtime, Goto, rtVars
  <2>2. /\ abort' \in BOOLEAN /\ soft_limit' \in BOOLEAN
        /\ asked' \in BOOLEAN /\ killed' \in BOOLEAN /\ gap' \in BOOLEAN
    BY <1>1 DEF PlaceTypeOK, Main, InitSerial, InitMotionPath, InitFlags,
       InitAlarm, InitSys, RtAlarm, RtCritical, RtClearAlarm, RtCopy,
       RtStatus, RtHold, RtStart, RtWake, RtStop, RtPrep, RtPrepDone, MainRead,
       ReturnToLoop, ReturnToLine, ExecuteIgnored, ExecuteMove, ReturnToMcLine,
       PlanLine, ExecuteOutside, ReturnToSoftLimit, ReturnToSoftReset,
       ExecuteDwell, ReturnToSync, ReturnFromDwell, StartDone, sysVars, history
  <2> QED
    BY <2>1, <2>2 DEF PlaceTypeOK
<1>2. CASE ExecuteSystem
  <2>1. killed' \in BOOLEAN /\ gap' \in BOOLEAN
    BY <1>2, ResetTypes DEF ExecuteSystem, PlaceTypeOK
  <2> QED
    BY <1>2, <2>1 DEF ExecuteSystem, PlaceTypeOK, sysVars
<1>3. CASE SoftLimitReset
  <2>1. killed' \in BOOLEAN /\ gap' \in BOOLEAN
    BY <1>3, ResetTypes DEF SoftLimitReset, PlaceTypeOK, CallRealtime, ResetKinds
  <2> QED
    BY <1>3, <2>1 DEF SoftLimitReset, PlaceTypeOK, CallRealtime, sysVars
<1>4. CASE ReceiveLine
  BY <1>4 DEF ReceiveLine, PlaceTypeOK, rtVars, sysVars, history
<1>5. CASE StepperInterrupt
  BY <1>5 DEF StepperInterrupt, PlaceTypeOK, rtVars, sysVars
<1>6. ASSUME NEW c \in Characters, ReceiveCharacter(c) PROVE PlaceTypeOK'
  <2>1. killed' \in BOOLEAN /\ gap' \in BOOLEAN /\ asked' \in BOOLEAN
    BY <1>6, ResetTypes DEF ReceiveCharacter, PlaceTypeOK, rtVars
  <2> QED
    BY <1>6, <2>1 DEF ReceiveCharacter, PlaceTypeOK, rtVars, sysVars
<1>7. CASE UNCHANGED vars
  BY <1>7 DEF vars, PlaceTypeOK, rtVars, sysVars, history
<1> QED
  BY <1>1, <1>2, <1>3, <1>4, <1>5, <1>6, <1>7 DEF Next

LEMMA HostStep ==
  ASSUME HostTypeOK, [Next]_vars
  PROVE  HostTypeOK'
<1> USE ProtocolAssumption DEF HostTypeOK
<1>1. CASE InitSerial
  BY <1>1 DEF InitSerial
<1>2. CASE MainRead
  <2>1. UNCHANGED inputs
    BY <1>2 DEF MainRead
  <2>2. CASE rx # << >>
    <3>1. line' = Head(rx) /\ rx' = Tail(rx)
      BY <1>2, <2>2 DEF MainRead
    <3>2. /\ Head(rx) \in LineKinds
          /\ Tail(rx) \in Seq(LineKinds) /\ Len(Tail(rx)) = Len(rx) - 1
          /\ Len(rx) \in Nat
      BY <2>2
    <3> QED
      BY <2>1, <3>1, <3>2
  <2>3. CASE rx = << >>
    BY <1>2, <2>1, <2>3 DEF MainRead
  <2> QED
    BY <2>2, <2>3
<1>3. CASE ReceiveLine
  <2>1. /\ inputs' = inputs + 1 /\ inputs < MaxInputs /\ line' = line
    BY <1>3 DEF ReceiveLine
  <2>2. PICK kind \in LineKinds :
          rx' = IF Len(rx) < RX_BUFFER_SIZE - 1 THEN Append(rx, kind) ELSE rx
    BY <1>3 DEF ReceiveLine
  <2>3. Append(rx, kind) \in Seq(LineKinds) /\ Len(Append(rx, kind)) = Len(rx) + 1
    OBVIOUS
  <2>4. rx' \in Seq(LineKinds) /\ Len(rx') < RX_BUFFER_SIZE
    BY <2>2, <2>3
  <2> QED
    BY <2>1, <2>4
<1>4. ASSUME NEW c \in Characters, ReceiveCharacter(c) PROVE HostTypeOK'
  BY <1>4 DEF ReceiveCharacter
<1>5. CASE StepperInterrupt \/ UNCHANGED vars
  BY <1>5 DEF StepperInterrupt, vars, hostVars
<1>6. CASE Main /\ ~InitSerial /\ ~MainRead
  <2>1. UNCHANGED hostVars
    BY <1>6 DEF Main, InitMotionPath, InitFlags, InitAlarm, InitSys, RtAlarm,
       RtCritical, RtClearAlarm, RtCopy, RtStatus, RtHold, RtStart, RtWake,
       RtStop, RtPrep, RtPrepDone, ReturnToLoop, ReturnToLine, ExecuteSystem,
       ExecuteIgnored, ExecuteMove, ReturnToMcLine, PlanLine, ExecuteOutside,
       ReturnToSoftLimit, SoftLimitReset, ReturnToSoftReset, ExecuteDwell,
       ReturnToSync, ReturnFromDwell
  <2> QED
    BY <2>1 DEF hostVars
<1> QED
  BY <1>1, <1>2, <1>3, <1>4, <1>5, <1>6 DEF Next

\* Main program, interrupts, flags and rings of the port keep their types: no
\* index leaves its ring and no number of blocks, inputs or steps its bound.
THEOREM ProtocolTypes == Spec => []TypeOK
<1> DEFINE T == FlagsTypeOK /\ PlaceTypeOK /\ HostTypeOK
<1>1. Init => T
  <2> SUFFICES ASSUME Init PROVE T
    OBVIOUS
  <2>1. FlagsTypeOK /\ PlaceTypeOK
    BY DEF Init, FlagsTypeOK, PlaceTypeOK, InitSteps, Callers
  <2>2. HostTypeOK
    BY ProtocolAssumption DEF Init, HostTypeOK
  <2> QED
    BY <2>1, <2>2
<1>2. MotionInv /\ T /\ [Next]_vars => T'
  <2> SUFFICES ASSUME MotionInv, T, [Next]_vars PROVE T'
    OBVIOUS
  <2>1. timer \in BOOLEAN
    BY MotionTypes DEF MotionInv
  <2> QED
    BY <2>1, FlagsStep, PlaceStep, HostStep
<1>3. MotionInv /\ T /\ IInv => TypeOK
  BY DEF MotionInv, FlagsTypeOK, PlaceTypeOK, HostTypeOK, IInv, ControlTypeOK, TypeOK
<1> HIDE DEF T
<1> QED
  BY <1>1, <1>2, <1>3, MotionPath, Control, PTL DEF Spec

-----------------------------------------------------------------------------
(***************************************************************************)
(* Where the motion is at rest: what mc_dwell() and limits_soft_check()    *)
(* wait for.                                                               *)
(***************************************************************************)
Drained == segment_buffer_head = segment_buffer_tail
NoBlock == block_buffer_head = block_buffer_tail

\* Nothing is on its way to the motors, and what the planner has begins from rest.
AtRest ==
  Drained /\ (NoBlock \/ ~prep.moving \/ (~Begun /\ ~prep.exit))

\* A speed at the end of a block is one there is a next block to take up.
Exits ==
  prep.exit =>
    /\ pl_block # NULL => plan_next_block_index(block_buffer_tail) # block_buffer_head
    /\ ~Begun => ~NoBlock

\* The state is not one of motion, or is a hold that is ready.
Settled ==
  /\ ~GoingDown
  /\ sys_state # "CYCLE"
  /\ Holding => "ENABLE_READY" \in suspend

\* A stop that this pass of the checkpoint has not copied.
NotCopied ==
  \/ pc = "reload"
  \/ pc \in {"status", "hold", "start"} /\ "CYCLE_STOP" \notin rt_exec

Rest ==
  ~starved =>
    /\ Settled => AtRest
    /\ "CRITICAL_EVENT" \in rt_alarm => AtRest
    /\ "CYCLE_STOP" \in rt_state =>
         AtRest /\ (NotCopied => NoBlock \/ Holding)
    /\ caller = "dwell" => Drained /\ NoBlock

RestAtInit ==
  /\ pc \in {"init_flags", "init_alarm", "init_sys"} => Drained /\ ~prep.moving
  /\ pc \in InitSteps => caller = "loop"

\* What rest depends on, and the steps that leave it alone.
stillVars == <<block_buffer_head, block_buffer_tail, pl_block, prep,
               segment_buffer_head, segment_buffer_tail>>

LEMMA StillSteps ==
  ASSUME [Next]_vars, ~InitMotionPath, ~RtHold, ~RtPrep, ~PlanLine,
         ~StepperInterrupt
  PROVE  UNCHANGED stillVars
<1> USE DEF stillVars, motionVars, plannerVars, prepVars, isrVars
<1>1. CASE Main
  BY <1>1 DEF Main, InitSerial, InitFlags, InitAlarm, InitSys,
     RtAlarm, RtCritical, RtClearAlarm, RtCopy, RtStatus,
     RtStart, RtWake, RtStop, RtPrepDone, MainRead,
     ReturnToLoop, ReturnToLine, ExecuteSystem, ExecuteIgnored, ExecuteMove,
     ReturnToMcLine, ExecuteOutside, ReturnToSoftLimit, SoftLimitReset,
     ReturnToSoftReset, ExecuteDwell, ReturnToSync, ReturnFromDwell
<1>2. CASE ReceiveLine
  BY <1>2 DEF ReceiveLine
<1>3. ASSUME NEW c \in Characters, ReceiveCharacter(c) PROVE UNCHANGED stillVars
  BY <1>3 DEF ReceiveCharacter
<1>4. CASE UNCHANGED vars
  BY <1>4 DEF vars
<1> QED
  BY <1>1, <1>2, <1>3, <1>4 DEF Next

\* What the content of the rings says of rest.
LEMMA RestFacts ==
  ASSUME MotionInv
  PROVE  /\ NoBlock => ~Begun
         /\ st.exec_segment # NULL => ~Drained
         /\ ~Begun => PrepIndex # prep.st_block_index
<1>1. NoBlock => ~Begun
  BY DEF MotionInv, Planned, NoBlock
<1>2. st.exec_segment # NULL => ~Drained
  BY DEF MotionInv, Follows, Following, Executing, Drained
<1>3. ~Begun => PrepIndex # prep.st_block_index
  <2>1. prep.st_block_index \in Int
    BY MotionIntegers DEF MotionInv, Copied
  <2> QED
    BY <2>1, SizesAssumption DEF Begun, PrepIndex, Wrap
<1> QED
  BY <1>1, <1>2, <1>3

LEMMA ExitsStep ==
  ASSUME MotionInv, Exits, [Next]_vars
  PROVE  Exits'
<1> USE DEF Exits, NoBlock, Begun
<1>1. CASE InitMotionPath
  BY <1>1 DEF InitMotionPath, StReset
<1>2. CASE RtHold
  <2>1. UNCHANGED <<block_buffer_head, block_buffer_tail>>
    BY <1>2 DEF RtHold, plannerVars
  <2>2. CASE sys_state = "CYCLE"
    <3>1. UpdatePlanBlockParameters
      BY <1>2, <2>2 DEF RtHold
    <3>2. /\ pl_block' = NULL /\ prep'.exit = prep.exit
          /\ prep'.flag_partial_block = (prep.flag_partial_block \/ pl_block # NULL)
      BY <3>1, MotionTypes DEF UpdatePlanBlockParameters, MotionInv
    <3> QED
      BY <2>1, <3>2
  <2>3. CASE sys_state # "CYCLE"
    BY <1>2, <2>1, <2>3 DEF RtHold
  <2> QED
    BY <2>2, <2>3
<1>3. CASE RtPrep
  <2>1. ASSUME NEW exit \in ExitSpeeds, exit
        PROVE  plan_next_block_index(block_buffer_tail) # block_buffer_head
    <3>1. CASE pl_block # NULL
      <4>1. exit = prep.exit
        BY <3>1 DEF ExitSpeeds
      <4> QED
        BY <2>1, <3>1, <4>1
    <3>2. CASE pl_block = NULL
      <4>1. exit \in {FALSE, plan_next_block_index(block_buffer_tail)
                               # block_buffer_head}
        BY <3>2 DEF ExitSpeeds
      <4> QED
        BY <2>1, <4>1, Zenon
    <3> QED
      BY <3>1, <3>2
  <2>2. ASSUME NEW n \in SegmentSizes, PrepSegment(n) PROVE Exits'
    <3>1. PICK exit \in ExitSpeeds :
            prep' = [flag_partial_block |-> FALSE, st_block_index |-> PrepIndex,
                     moving |-> TRUE, exit |-> exit]
      BY <2>2 DEF PrepSegment
    <3>2. prep'.exit = exit
      BY <3>1
    <3>3. pl_block' = block_buffer_tail /\ pl_block' # NULL
      BY <2>2, MotionTypes, Sizes DEF PrepSegment, MotionInv, Blocks, NULL
    <3>4. UNCHANGED <<block_buffer_head, block_buffer_tail>>
      BY <2>2 DEF PrepSegment
    <3> QED
      BY <2>1, <3>2, <3>3, <3>4 DEF plan_next_block_index
  <2>3. ASSUME NEW n, PrepHoldEnd(n) PROVE Exits'
    BY <2>3 DEF PrepHoldEnd
  <2>4. CASE PrepBlockEnd
    <3>1. PICK exit \in ExitSpeeds :
            prep' = [flag_partial_block |-> FALSE, st_block_index |-> PrepIndex,
                     moving |-> TRUE, exit |-> exit]
      BY <2>4 DEF PrepBlockEnd
    <3>2. prep'.exit = exit
      BY <3>1
    <3>3. /\ pl_block' = NULL /\ block_buffer_head' = block_buffer_head
          /\ block_buffer_tail' = plan_next_block_index(block_buffer_tail)
      BY <2>4 DEF PrepBlockEnd
    <3> QED
      BY <2>1, <3>2, <3>3
  <2> QED
    BY <1>3, <2>2, <2>3, <2>4 DEF RtPrep
<1>4. CASE PlanLine
  <2>1. CASE PlanBufferLine
    <3>1. /\ block_buffer_tail' = block_buffer_tail
          /\ block_buffer_head' = plan_next_block_index(block_buffer_head)
          /\ plan_next_block_index(block_buffer_head) # block_buffer_tail
      BY <1>4, <2>1 DEF PlanLine, PlanBufferLine, plan_check_full_buffer
    <3>2. CASE UpdatePlanBlockParameters
      <4>1. pl_block' = NULL
        BY <3>2 DEF UpdatePlanBlockParameters
      <4> QED
        BY <3>1, <4>1
    <3>3. CASE UNCHANGED <<pl_block, prep>>
      <4>1. pl_block # NULL => block_buffer_head # block_buffer_tail
        BY DEF MotionInv, Planned
      <4>2. block_buffer_head \in Blocks /\ block_buffer_tail \in Blocks
        BY MotionTypes DEF MotionInv, Blocks
      <4>3. pl_block # NULL => plan_next_block_index(block_buffer_tail)
                                 # plan_next_block_index(block_buffer_head)
        BY <4>1, <4>2, SizesAssumption DEF Blocks, plan_next_block_index, Wrap
      <4> QED
        BY <3>1, <3>3, <4>3 DEF plan_next_block_index
    <3> QED
      BY <2>1, <3>2, <3>3 DEF PlanBufferLine
  <2>2. CASE UNCHANGED motionVars
    BY <2>2 DEF motionVars, plannerVars, prepVars, plan_next_block_index
  <2> QED
    BY <1>4, <2>1, <2>2 DEF PlanLine
<1>5. CASE StepperInterrupt
  BY <1>5 DEF StepperInterrupt, plannerVars, prepVars, plan_next_block_index
<1>6. CASE UNCHANGED stillVars
  BY <1>6 DEF stillVars, plan_next_block_index
<1> QED
  BY <1>1, <1>2, <1>3, <1>4, <1>5, <1>6, StillSteps

LEMMA StillRest ==
  ASSUME UNCHANGED stillVars
  PROVE  /\ AtRest' <=> AtRest
         /\ Drained' <=> Drained
         /\ NoBlock' <=> NoBlock
         /\ prep' = prep
BY DEF stillVars, AtRest, Drained, NoBlock, Begun

LEMMA PrepNeedsBlock ==
  ASSUME MotionInv, RtPrep
  PROVE  ~NoBlock /\ ~(Holding /\ ~prep.moving)
<1>1. ~PrepReturns
  BY DEF RtPrep, PrepSegment, PrepHoldEnd, PrepBlockEnd
<1>2. NoBlock => pl_block = NULL /\ plan_get_current_block = NULL
  BY RestFacts DEF NoBlock, Begun, plan_get_current_block
<1> QED
  BY <1>1, <1>2 DEF PrepReturns

\* In a hold that is at rest the checkpoint has nothing to check out; at most the
\* block it enters from rest is where the hold ends.
LEMMA HoldAtRest ==
  ASSUME MotionInv, AtRest, Holding, RtPrep
  PROVE  AtRest'
<1>1. Drained /\ ~Begun /\ ~prep.exit
  BY PrepNeedsBlock DEF AtRest
<1>2. FromRest
  BY <1>1, RestFacts DEF FromRest
<1>3. PICK n : PrepHoldEnd(n)
  BY <1>2 DEF RtPrep, PrepSegment, PrepBlockEnd
<1>4. n = 0
  BY <1>2, <1>3 DEF PrepHoldEnd
<1>5. UNCHANGED segment_buffer_head
  BY <1>3, <1>4 DEF PrepHoldEnd
<1>6. UNCHANGED segment_buffer_tail
  BY DEF RtPrep, isrVars
<1>7. prep'.moving = FALSE
  BY <1>3 DEF PrepHoldEnd
<1> QED
  BY <1>1, <1>5, <1>6, <1>7 DEF AtRest, Drained

\* A block planned at rest begins from rest.
LEMMA PlanAtRest ==
  ASSUME MotionInv, Exits, AtRest, PlanLine
  PROVE  AtRest'
<1>1. CASE UNCHANGED motionVars
  <2>1. UNCHANGED stillVars
    BY <1>1 DEF motionVars, plannerVars, prepVars, isrVars, stillVars
  <2> QED
    BY <2>1, StillRest
<1>2. CASE PlanBufferLine
  <2>1. Drained'
    BY <1>2 DEF PlanBufferLine, isrVars, AtRest, Drained
  <2>2. /\ ~prep.moving \/ (~Begun /\ ~prep.exit)
    BY RestFacts DEF AtRest, Exits
  <2>3. CASE UpdatePlanBlockParameters
    <3>1. /\ pl_block' = NULL
          /\ prep'.exit = prep.exit /\ prep'.moving = prep.moving
          /\ prep'.flag_partial_block = (prep.flag_partial_block \/ pl_block # NULL)
      BY <2>3, MotionTypes DEF UpdatePlanBlockParameters, MotionInv
    <3> QED
      BY <2>1, <2>2, <3>1 DEF AtRest, Begun
  <2>4. CASE UNCHANGED <<pl_block, prep>>
    BY <2>1, <2>2, <2>4 DEF AtRest, Begun
  <2> QED
    BY <1>2, <2>3, <2>4 DEF PlanBufferLine
<1> QED
  BY <1>1, <1>2 DEF PlanLine

\* An interrupt that finds no segment puts out no step.
LEMMA StepNotDrained ==
  ASSUME MotionInv, StepperSteps
  PROVE  ~Drained
BY RestFacts DEF StepperSteps, Drained

(***************************************************************************)
(* Every step keeps what is said of rest.                                  *)
(***************************************************************************)
LEMMA RestMoves ==
  ASSUME IInv, MotionInv, Exits, Rest, RestAtInit,
         InitMotionPath \/ RtHold \/ RtPrep \/ PlanLine \/ StepperInterrupt
  PROVE  Rest' /\ RestAtInit'
<1> USE DEF Goto, InitSteps
<1>1. CASE InitMotionPath
  <2>1. Drained' /\ NoBlock' /\ prep'.moving = FALSE
    BY <1>1 DEF InitMotionPath, StReset, PlanReset, Drained, NoBlock
  <2>2. AtRest'
    BY <2>1 DEF AtRest
  <2>3. pc' = "init_flags" /\ caller' = "loop"
    BY <1>1 DEF InitMotionPath, RestAtInit
  <2> QED
    BY <2>1, <2>2, <2>3 DEF Rest, RestAtInit, NotCopied
<1>2. CASE RtHold
  <2>1. /\ pc = "hold" /\ pc' \in {"start", "stop", "reload"}
        /\ pc' = "reload" => "CYCLE_STOP" \notin rt_exec'
    <3>1. pc = "hold" /\ pc' = BranchFrom(3, rt_exec')
      BY <1>2 DEF RtHold
    <3> QED
      BY <3>1, BranchFound
  <2>2. /\ UNCHANGED <<block_buffer_head, block_buffer_tail, segment_buffer_head,
                       segment_buffer_tail, caller, rt_alarm, abort, starved>>
        /\ rt_exec \subseteq rt_exec'
    BY <1>2 DEF RtHold, DoorOpens, FeedHold, plannerVars, isrVars, history
  <2>3. ~abort
    BY <2>1 DEF IInv, FlagCopies, CopiedSteps
  <2>4. /\ AtRest' <=> AtRest
        /\ Drained' <=> Drained
        /\ NoBlock' <=> NoBlock
    <3>1. CASE sys_state = "CYCLE"
      <4>1. UpdatePlanBlockParameters
        BY <1>2, <3>1 DEF RtHold
      <4>2. /\ pl_block' = NULL
            /\ prep'.exit = prep.exit /\ prep'.moving = prep.moving
            /\ prep'.flag_partial_block = (prep.flag_partial_block \/ pl_block # NULL)
        BY <4>1, MotionTypes DEF UpdatePlanBlockParameters, MotionInv
      <4>3. Begun' <=> Begun
        BY <4>2 DEF Begun
      <4> QED
        BY <2>2, <4>2, <4>3 DEF AtRest, Drained, NoBlock
    <3>2. CASE sys_state # "CYCLE"
      <4>1. UNCHANGED stillVars
        BY <1>2, <2>2, <3>2 DEF RtHold, stillVars
      <4> QED
        BY <4>1, StillRest
    <3> QED
      BY <3>1, <3>2
  <2>5. /\ "CYCLE_STOP" \in rt_state' => "CYCLE_STOP" \in rt_state
        /\ "RESET" \in rt_state' <=> "RESET" \in rt_state
    BY <1>2 DEF RtHold, HoldFlags
  <2>6. /\ IF sys_state \in {"ALARM", "CHECK_MODE"}
           THEN UNCHANGED sys_state ELSE Holding'
        /\ sys_state = "CYCLE" => "ENABLE_READY" \notin suspend'
        /\ Holding => ("ENABLE_READY" \in suspend' <=> "ENABLE_READY" \in suspend)
    BY <1>2 DEF RtHold, DoorOpens, FeedHold, Suspension, Holding
  <2>7. Settled' => Settled
    BY <2>1, <2>2, <2>3, <2>6 DEF Settled, GoingDown, Holding
  <2>8. NotCopied' /\ ~Holding' /\ "CYCLE_STOP" \in rt_state
          => NotCopied /\ ~Holding
    BY <2>1, <2>2, <2>6 DEF NotCopied, Holding
  <2>9. Rest'
    BY <2>2, <2>4, <2>5, <2>7, <2>8 DEF Rest
  <2>10. RestAtInit'
    BY <2>1 DEF RestAtInit
  <2> QED
    BY <2>9, <2>10
<1>3. CASE RtPrep
  <2>1. /\ pc \in {"start_prep", "reload"} /\ Busy
    BY <1>3 DEF RtPrep, IInv, Motion, Busy
  <2>2. UNCHANGED <<pc, caller, rt_exec, rt_state, rt_alarm, sys_state, suspend,
                    abort, starved>>
    BY <1>3 DEF RtPrep, rtVars, sysVars, history
  <2>3. ~NoBlock
    BY <1>3, PrepNeedsBlock
  <2>4. Holding /\ AtRest => AtRest'
    BY <1>3, HoldAtRest
  <2>5. "CRITICAL_EVENT" \notin rt_alarm
    BY <2>1 DEF IInv, Flagged
  <2>6. ASSUME "CYCLE_STOP" \in rt_state PROVE NotCopied
    BY <2>1, <2>6 DEF IInv, Motion, NotCopied
  <2>7. Settled' => Settled /\ Holding
    BY <2>1, <2>2 DEF Settled, GoingDown, Busy, Holding
  <2>8. Rest'
    BY <2>2, <2>3, <2>4, <2>5, <2>6, <2>7 DEF Rest, NotCopied, Holding
  <2>9. RestAtInit'
    BY <2>1, <2>2 DEF RestAtInit
  <2> QED
    BY <2>8, <2>9
<1>4. CASE PlanLine
  <2>1. /\ pc = "return" /\ caller = "mc_line" /\ ~abort
        /\ pc' = "read"
        /\ UNCHANGED <<caller, rt_exec, rt_state, rt_alarm, sys_state, suspend,
                       abort, starved>>
    BY <1>4 DEF PlanLine, Returned, sysVars, history
  <2>2. AtRest => AtRest'
    BY <1>4, PlanAtRest
  <2>3. Settled' <=> Settled
    BY <2>1 DEF Settled, GoingDown, Holding
  <2> QED
    BY <2>1, <2>2, <2>3 DEF Rest, RestAtInit, NotCopied, Holding
<1>5. CASE StepperInterrupt
  <2>1. UNCHANGED <<pc, caller, rt_exec, rt_alarm, sys_state, suspend, abort>>
    BY <1>5 DEF StepperInterrupt, rtVars, sysVars
  <2>2. UNCHANGED <<block_buffer_head, block_buffer_tail, pl_block, prep,
                    segment_buffer_head>>
    BY <1>5 DEF StepperInterrupt, plannerVars, prepVars
  <2>3. CASE StepperRunsDry
    <3>1. UNCHANGED stillVars
      BY <2>2, <2>3 DEF StepperRunsDry, stillVars
    <3>2. rt_state' = rt_state \cup {"CYCLE_STOP"}
      BY <2>3 DEF StepperRunsDry
    <3>3. ASSUME Settled' PROVE Settled
      BY <2>1, <3>2, <3>3 DEF Settled, GoingDown, Holding
    <3>4. Drained
      BY <2>3 DEF StepperRunsDry, Drained
    <3>5. ~starved' => ~starved /\ (NoBlock \/ (Holding /\ ~prep.moving))
      <4>1. \/ starved' = (starved \/ (/\ plan_get_current_block # NULL
                                       /\ Holding => prep.moving))
            \/ StepperSteps
        BY <1>5 DEF StepperInterrupt
      <4>2. ~StepperSteps
        BY <3>4, StepNotDrained
      <4>3. ~NoBlock => plan_get_current_block # NULL
        BY MotionTypes, Sizes DEF NoBlock, plan_get_current_block, MotionInv, Blocks, NULL
      <4> QED
        BY <4>1, <4>2, <4>3
    <3>6. ~starved' => AtRest
      BY <3>4, <3>5 DEF AtRest
    <3> QED
      BY <2>1, <3>1, <3>2, <3>3, <3>5, <3>6, StillRest DEF Rest, RestAtInit, Holding
  <2>4. CASE StepperSteps
    <3>1. ~Drained /\ ~AtRest
      BY <2>4, StepNotDrained DEF AtRest
    <3>2. UNCHANGED rt_state
      BY <2>4 DEF StepperSteps
    <3>3. Settled' => Settled
      BY <2>1, <3>2 DEF Settled, GoingDown, Holding
    <3>4. ~starved' => ~starved
      BY <1>5, <2>4 DEF StepperInterrupt
    <3> QED
      BY <2>1, <3>1, <3>2, <3>3, <3>4 DEF Rest, RestAtInit
  <2> QED
    BY <1>5, <2>3, <2>4 DEF StepperInterrupt
<1> QED
  BY <1>1, <1>2, <1>3, <1>4, <1>5

LEMMA RestStill ==
  ASSUME IInv, MotionInv, Rest, RestAtInit, [Next]_vars,
         ~InitMotionPath, ~RtHold, ~RtPrep, ~PlanLine, ~StepperInterrupt
  PROVE  Rest' /\ RestAtInit'
<1>1. /\ AtRest' <=> AtRest
      /\ Drained' <=> Drained
      /\ NoBlock' <=> NoBlock
      /\ prep' = prep
  BY StillSteps, StillRest
<1> USE <1>1 DEF Rest, RestAtInit, Settled, GoingDown, NotCopied, Holding
<1> USE DEF InitSteps, Goto, CallRealtime, Returned
\* The initialisation.
<1>2. CASE InitSerial \/ InitFlags \/ InitAlarm
  BY <1>2 DEF InitSerial, InitFlags, InitAlarm, rtVars, sysVars, hostVars, history
<1>3. CASE InitSys
  <2>1. AtRest
    BY <1>3 DEF InitSys, AtRest
  <2> QED
    BY <1>3, <2>1 DEF InitSys
\* The checkpoint.
<1>4. CASE RtAlarm
  <2>1. pc = "alarm"
    BY <1>4 DEF RtAlarm
  <2>2. UNCHANGED <<caller, rt_exec, rt_alarm, abort, suspend, starved>>
    BY <1>4 DEF RtAlarm, sysVars, history
  <2>3. CASE rt_alarm = {}
    <3>1. pc' = "copy" /\ UNCHANGED <<sys_state, rt_state>>
      BY <1>4, <2>3 DEF RtAlarm
    <3> QED
      BY <2>1, <2>2, <3>1
  <2>4. CASE "CRITICAL_EVENT" \in rt_alarm
    <3>1. pc' = "critical" /\ rt_state' \subseteq rt_state
      BY <1>4, <2>4 DEF RtAlarm
    <3> QED
      BY <2>1, <2>2, <2>4, <3>1
  <2>5. CASE rt_alarm # {} /\ "CRITICAL_EVENT" \notin rt_alarm
    <3>1. pc' = "clear_alarm" /\ sys_state' = "ALARM" /\ UNCHANGED rt_state
      BY <1>4, <2>5 DEF RtAlarm
    <3>2. "RESET" \in rt_state
      BY <2>1, <2>5 DEF IInv, Flagged
    <3> QED
      BY <2>1, <2>2, <2>5, <3>1, <3>2
  <2> QED
    BY <2>3, <2>4, <2>5
<1>5. CASE RtCritical
  <2>1. sys_state = "ALARM"
    BY <1>5 DEF RtCritical, IInv, Flagged
  <2> QED
    BY <1>5, <2>1 DEF RtCritical, sysVars, history
<1>6. CASE RtClearAlarm
  BY <1>6 DEF RtClearAlarm, sysVars, history
<1>7. CASE RtCopy
  <2>1. UNCHANGED <<sys_state, rt_state, caller, rt_alarm, suspend, starved>>
    BY <1>7 DEF RtCopy, history
  <2>2. CASE "RESET" \in rt_state
    BY <1>7, <2>1, <2>2 DEF RtCopy
  <2>3. CASE "RESET" \notin rt_state
    <3>1. /\ pc = "copy" /\ UNCHANGED abort /\ rt_exec' = rt_state
          /\ pc' \in {"status", "hold", "start", "stop", "reload"}
          /\ pc' = "reload" => "CYCLE_STOP" \notin rt_state
      BY <1>7, <2>3, BranchFound DEF RtCopy
    <3> QED
      BY <2>1, <2>3, <3>1
  <2> QED
    BY <2>2, <2>3
<1>8. CASE RtStatus
  <2>1. UNCHANGED <<sys_state, caller, rt_exec, rt_alarm, abort, suspend, starved>>
    BY <1>8 DEF RtStatus, sysVars, history
  <2>2. /\ pc = "status" /\ rt_state' = rt_state \ {"STATUS_REPORT"}
        /\ pc' \in {"hold", "start", "stop", "reload"}
        /\ pc' = "reload" => "CYCLE_STOP" \notin rt_exec
    BY <1>8, BranchFound DEF RtStatus
  <2> QED
    BY <2>1, <2>2
<1>9. CASE RtStart
  <2>1. /\ pc = "start" /\ ~abort
        /\ UNCHANGED <<caller, rt_alarm, abort, starved>>
    BY <1>9 DEF RtStart, IInv, FlagCopies, CopiedSteps
  <2>2. CASE MayStart /\ plan_get_current_block # NULL
    BY <1>9, <2>1, <2>2 DEF RtStart
  <2>3. CASE ~(MayStart /\ plan_get_current_block # NULL)
    <3>1. /\ rt_exec' \subseteq rt_exec /\ rt_state' \subseteq rt_state
          /\ pc' \in {"stop", "reload"}
          /\ pc' = "reload" => "CYCLE_STOP" \notin rt_exec
      BY <1>9, <2>3, BranchFound DEF RtStart, StartDone
    <3>2. CASE ~MayStart
      <4>1. UNCHANGED <<sys_state, suspend>>
        BY <1>9, <3>2 DEF RtStart
      <4> QED
        BY <2>1, <3>1, <4>1
    <3>3. CASE MayStart
      <4>1. sys_state' = "IDLE"
        BY <1>9, <2>3, <3>3 DEF RtStart
      <4>2. Settled
        BY <2>1, <3>3 DEF MayStart
      <4>3. "CYCLE_STOP" \notin rt_state
        BY <2>1, <3>3 DEF MayStart, IInv, Motion, Busy
      <4> QED
        BY <2>1, <3>1, <4>1, <4>2, <4>3
    <3> QED
      BY <3>2, <3>3
  <2> QED
    BY <2>2, <2>3
<1>10. CASE RtWake
  <2>1. sys_state = "CYCLE" /\ "CYCLE_STOP" \notin rt_state
    BY <1>10 DEF RtWake, IInv, Motion
  <2>2. /\ UNCHANGED <<sys_state, caller, rt_alarm, starved>>
        /\ rt_state' \subseteq rt_state
        /\ pc' \in {"stop", "reload"}
    BY <1>10, BranchFound DEF RtWake, StartDone
  <2> QED
    BY <2>1, <2>2
<1>11. CASE RtStop
  <2>1. "CYCLE_STOP" \in rt_state \/ Settled
    BY <1>11 DEF RtStop, IInv, FlagCopies, CopiedSteps, DoorReady
  <2>2. /\ pc' = "reload" /\ "CYCLE_STOP" \notin rt_state'
        /\ UNCHANGED <<caller, rt_alarm, starved>>
    BY <1>11 DEF RtStop, history
  <2> QED
    BY <2>1, <2>2
<1>12. CASE RtPrepDone
  <2>1. /\ UNCHANGED <<rt_state, caller, rt_alarm, abort, suspend, starved>>
        /\ sys_state' \in {sys_state, "HOLD"}
        /\ sys_state' # sys_state => Holding
        /\ pc \in {"start_prep", "reload"} /\ pc' \in {"wake", "alarm", "return"}
    BY <1>12 DEF RtPrepDone, sysVars, history
  <2> QED
    BY <2>1
\* The callers.
<1>13. CASE MainRead \/ ReturnToMcLine \/ ExecuteOutside \/ ExecuteDwell
  <2>1. /\ UNCHANGED <<sys_state, rt_alarm, abort, suspend, starved>>
        /\ \E f \in {"CYCLE_START", "FEED_HOLD"} : rt_state' \in {rt_state, rt_state \cup {f}}
        /\ pc \in {"read", "return", "execute"}
        /\ pc' \in {"read", "alarm", "soft_reset"}
        /\ caller' = "dwell" => caller = "dwell"
    BY <1>13 DEF MainRead, ReturnToMcLine, ExecuteOutside, ExecuteDwell,
       AutoCycleStart, sysVars, history
  <2> QED
    BY <2>1
<1>14. CASE \/ ReturnToLoop \/ ReturnToLine \/ ExecuteIgnored \/ ExecuteMove
            \/ ReturnToSoftLimit \/ ReturnToSoftReset \/ ReturnFromDwell
  <2>1. /\ UNCHANGED <<sys_state, rt_state, rt_alarm, abort, suspend, starved>>
        /\ pc \in {"return", "execute"}
        /\ pc' \in {"init_serial", "read", "execute", "alarm", "soft_reset"}
        /\ pc' = "init_serial" => caller' = "loop" /\ abort
        /\ caller' = "dwell" => caller = "dwell"
    BY <1>14 DEF ReturnToLoop, ReturnToLine, ExecuteIgnored, ExecuteMove,
       ReturnToSoftLimit, ReturnToSoftReset, ReturnFromDwell, sysVars, history
  <2> QED
    BY <2>1
<1>15. CASE ReturnToSync
  <2>1. /\ UNCHANGED <<sys_state, rt_state, rt_alarm, abort, suspend, starved>>
        /\ pc = "return" /\ caller = "sync"
        /\ pc' \in {"read", "alarm"}
    BY <1>15 DEF ReturnToSync, sysVars, history
  <2>2. CASE caller' = "dwell"
    <3>1. ~abort /\ ~MotionBusy
      BY <1>15, <2>1, <2>2 DEF ReturnToSync
    <3>2. NoBlock /\ sys_state # "CYCLE"
      BY <3>1, MotionTypes, Sizes DEF MotionBusy, plan_get_current_block, NoBlock,
         MotionInv, Blocks, NULL
    <3>3. ~Holding
      BY <2>1, <3>1 DEF IInv, Held
    <3>4. Settled
      BY <2>1, <3>1, <3>2, <3>3
    <3>5. ~starved => Drained
      BY <3>4 DEF AtRest
    <3> QED
      BY <2>1, <3>2, <3>5
  <2>3. CASE caller' # "dwell"
    BY <2>1, <2>3
  <2> QED
    BY <2>2, <2>3
<1>16. CASE ExecuteSystem
  <2>1. /\ pc = "execute" /\ pc' = "read" /\ ~abort
        /\ UNCHANGED <<caller, abort, suspend, starved>>
        /\ sys_state' = sys_state \/ sys_state = "ALARM" \/ sys_state = "IDLE"
    BY <1>16 DEF ExecuteSystem, IInv, Held, sysVars
  <2>2. /\ rt_state' \in {rt_state, rt_state \cup {"RESET"}}
        /\ "CRITICAL_EVENT" \in rt_alarm' => "CRITICAL_EVENT" \in rt_alarm
    <3>1. McReset({}) \/ UNCHANGED <<rt_state, rt_alarm>>
      BY <1>16 DEF ExecuteSystem
    <3>2. McReset({}) => /\ rt_state' = rt_state \cup {"RESET"}
                         /\ rt_alarm' \subseteq rt_alarm \cup {} \cup {"ABORT_CYCLE"}
      BY ResetFlags
    <3> QED
      BY <3>1, <3>2
  <2> QED
    BY <2>1, <2>2
<1>17. CASE SoftLimitReset
  <2>1. /\ pc = "soft_reset" /\ pc' = "alarm" /\ caller' = "soft_reset"
        /\ UNCHANGED <<sys_state, abort, suspend, starved>>
        /\ rt_state' \in {rt_state, rt_state \cup {"RESET"}}
    BY <1>17 DEF SoftLimitReset, McReset, sysVars
  <2>2. Settled
    BY <2>1 DEF IInv, Held
  <2> QED
    BY <2>1, <2>2
\* The interrupts.
<1>18. CASE ReceiveLine \/ UNCHANGED vars
  BY <1>18 DEF ReceiveLine, vars, rtVars, sysVars, history
<1>19. ASSUME NEW c \in Characters, ReceiveCharacter(c)
       PROVE  Rest' /\ RestAtInit'
  <2>1. UNCHANGED <<sys_state, pc, caller, rt_exec, abort, suspend, starved>>
    BY <1>19 DEF ReceiveCharacter, rtVars, sysVars
  <2>2. /\ "CYCLE_STOP" \in rt_state' => "CYCLE_STOP" \in rt_state
        /\ "RESET" \in rt_state => "RESET" \in rt_state'
        /\ "CRITICAL_EVENT" \in rt_alarm' => "CRITICAL_EVENT" \in rt_alarm
    <3>1. CASE c = "^X"
      <4>1. McReset({})
        BY <1>19, <3>1 DEF ReceiveCharacter
      <4>2. /\ rt_state' = rt_state \cup {"RESET"}
            /\ rt_alarm' \subseteq rt_alarm \cup {} \cup {"ABORT_CYCLE"}
        BY <4>1, ResetFlags
      <4> QED
        BY <4>2
    <3>2. CASE c # "^X"
      <4>1. c \in {"?", "~", "!", "@"}
        BY <3>2, ProtocolAssumption
      <4>2. Flag[c] # "CYCLE_STOP"
        BY <4>1 DEF Flag
      <4> QED
        BY <1>19, <3>2, <4>2 DEF ReceiveCharacter
    <3> QED
      BY <3>1, <3>2
  <2> QED
    BY <2>1, <2>2
<1> QED
  BY <1>2, <1>3, <1>4, <1>5, <1>6, <1>7, <1>8, <1>9, <1>10, <1>11, <1>12, <1>13,
     <1>14, <1>15, <1>16, <1>17, <1>18, <1>19 DEF Next, Main

LEMMA RestInitially == Init => Exits /\ Rest /\ RestAtInit
<1> SUFFICES ASSUME Init PROVE Exits /\ Rest /\ RestAtInit
  OBVIOUS
<1>1. /\ segment_buffer_head = segment_buffer_tail
      /\ block_buffer_head = block_buffer_tail
      /\ prep.exit = FALSE /\ prep.moving = FALSE
      /\ rt_state = {} /\ rt_alarm = {}
      /\ pc = "init_serial" /\ caller = "loop"
  BY DEF Init, InitMotion
<1>2. Drained /\ NoBlock
  BY <1>1 DEF Drained, NoBlock
<1> QED
  BY <1>1, <1>2 DEF Exits, Rest, RestAtInit, AtRest

\* The waits for motion end when it has: as long as the steppers never starve, a
\* state that is not of motion, a stop, a critical alarm and a dwell all find the
\* motion at rest; then nothing is pending.
THEOREM WaitsAreReal == Spec => []WaitsForMotion
<1> DEFINE R == Exits /\ Rest /\ RestAtInit
<1>1. Init => R
  BY RestInitially
<1>2. IInv /\ MotionInv /\ R /\ [Next]_vars => R'
  BY ExitsStep, RestMoves, RestStill
<1>3. IInv /\ MotionInv /\ R => WaitsForMotion
  <2>1. IInv => (pc = "soft_reset" => ~timer)
    BY DEF IInv, Held
  <2>2. R /\ caller = "dwell" /\ ~starved
          => /\ segment_buffer_head = segment_buffer_tail
             /\ block_buffer_head = block_buffer_tail
    BY DEF Rest, Drained, NoBlock
  <2> QED
    BY <2>1, <2>2, NothingPending DEF WaitsForMotion
<1> HIDE DEF R
<1> QED
  BY <1>1, <1>2, <1>3, Control, MotionPath, PTL DEF Spec
=============================================================================
