# Verification of pcb-mill

TLA+ models of the two firmwares of this repository for the controller of a PCB
mill, a BTT SKR Mini E3 v3.0 (STM32G0B1, one core, no operating system):
`src/firmware/pcb-mill`, which is under development, and the port of Grbl in
`src/firmware/grbl-original`. TLC runs check small instances, TLAPS proofs hold for
every value of the constants. Paths below are relative to
`src/firmware/pcb-mill/src`, the board directory `boards/btt_skr_mini_e3_v3_0` is
written `board`; files of the port are relative to
`src/firmware/grbl-original/src/grbl` and their modules begin with `Grbl`.

## The system

The repository also holds small experiments (`grbl-ext`, `cnc`, `stm-disco`),
vendored firmware (`Marlin`, `grblHAL`, by far the largest part), vendored CMSIS
headers, and data sheets. pcb-mill's own code is about 3,000 lines, the port of
Grbl 6,400; neither has tests.

### pcb-mill

`main()` initialises the board, enables the interrupts, starts USB, checks the
persisted configuration in the EEPROM and then loops over `delay_ms(1)` and
`usb_systick_hal()`. Everything else happens in interrupt handlers. The handlers
of USB and USART have the same priority, so that they preempt `main()` and never
each other. The USB peripheral and the host run all the time, also between two
instructions of a handler.

| Component | State | Operations | Talks to |
|---|---|---|---|
| circular buffer (`core/circular_buffer.c`) | head, tail, data | init, reset, read, write, count, space | called by the CDC driver |
| CDC driver (`drivers/usb_cdc`) | rx and tx ring, endpoint addresses, line coding and state | open, read, write, transfer completion, class requests | rings, device layer, callback in `main.c` |
| USB device layer (`drivers/usb/usb_device.c`) | `usb_device`, `control_transfer` | SETUP processing, stages of a control transfer, address, configuration, reset | HAL below, CDC driver above |
| USB HAL (`board/usb_hal.c`) | endpoint registers (shared with the peripheral), transfer feeds, packet memory | interrupt handler, queueing, opening, closing, stalling | peripheral, device layer |
| application (`core/main.c`) | `machine_config` | start-up, echo of every byte received | CDC driver, configuration |
| configuration (`board/configuration_hal.c`) | six bytes of EEPROM | get version, reset | EEPROM driver |
| EEPROM driver (`board/eeprom_hal.c`) | I2C peripheral | read or write a byte | `main()` only |
| diagnostics (`core/diagnostics.c`, `board/usart2.c`, `board/usart_hal.c`) | tx and rx ring | print, flush, interrupt handler | called from `main()` and from the USB interrupt |
| TMC2209 drivers (`board/tmc2209.c`) | initialisation state | register reads and writes over a one-wire UART | USART driver |
| motion (`core/motion.c`, `board/stepper_hal.c`) | axis positions | step interrupt, start of a move | unfinished: nothing starts a move |

### The port of Grbl

`main()` initialises everything and enters `protocol_main_loop()`, which reads
lines from the receive ring and executes them, and comes back to be initialised
again after every reset. The serial interrupt queues characters and picks out the
real-time ones (`?`, `~`, `!`, `@`, ctrl-X), for which it sets flags or, for ctrl-X,
calls `mc_reset()`. `@` is the safety door: a hold that is to be energised again. Whatever the main program waits for, it calls
`protocol_execute_realtime()`, the checkpoint at which the flags are acted upon and
the segment ring is filled. The stepper interrupt empties that ring and sets a flag
of its own when there is nothing left.

| Component | State | Operations | Talks to |
|---|---|---|---|
| serial (`serial.c`) | receive and transmit ring | read, write, character received | main loop; sets real-time flags, calls `mc_reset()` |
| protocol (`protocol.c`, `main.c`, `system.c`) | `sys`, the two flag bytes | initialisation, main loop, checkpoint, synchronisation, `$` commands | everything below |
| motion control (`motion_control.c`, `limits.c`) | none | `mc_line`, `mc_dwell`, `mc_reset`, soft limit check | checkpoint, planner, stepper |
| planner (`planner.c`) | ring of blocks, planned pointer | append with look-ahead, discard, re-plan | filled by `mc_line`, emptied by the stepper's main half |
| stepper (`stepper.c`) | ring of segments, copies of step data, profile under execution | `st_prep_buffer`, interrupt, wake up, go idle | planner; sets `CYCLE_STOP` |
| settings (`settings.c`, `eeprom.c`) | settings with checksum | load, store, restore | a stub of an EEPROM |
| G-code and reports (`gcode.c`, `report.c`) | modal state | parse a line, print | motion control, serial |

### What is hard here

* **The bus does not wait.** A packet may be taken or arrive between any two
  accesses of the handler to an endpoint register, and such a register mixes bits
  that are cleared by writing 0, toggled by writing 1 and set by the hardware.
* **One pass of the handler serves two events** (a SETUP and an earlier IN
  completion) from one reading of the register.
* **Two state machines must agree without a common variable**: host and device
  each decide when a stage of a control transfer is over.
* **Power may go** between any two bytes of the configuration.
* **Two senders share one ring** with an interrupt handler, and only one of the
  two is shut out.
* **A flag is copied, acted upon and cleared**, in this order, while two interrupts
  set flags, and `mc_reset()` in one of them stops the motors and looks at the state
  the main program is in the middle of changing.
* **A hold must stop everything and lose nothing**: the block under execution is
  re-planned to a stop, the segments already checked out are run out, the program is
  kept in whatever wait it is, and only the operator resumes it.
* **The planner re-plans under execution**: it changes the entry speeds of queued
  blocks while the first is being checked out, with a pointer to skip what cannot be
  improved, and the stepper has to be told exactly when its profile is affected.

`PROJECT.json` lists these and the other hazards with their lines and the
properties that cover them.

## Modules

| Module | Models | State | Actions |
|---|---|---|---|
| `CircularBuffer` | the ring, as operators on the structure | none | `AfterRead`, `ReadBytes`, `AfterWrite`, `Reset`, ... are the C functions |
| `ByteStream` | abstract: what the OUT direction of a serial port promises | bytes in flight | `Send`, `Hand`, `UpOrDown` |
| `UsbCdc` | bulk data path from the host through both rings back to the host | rings, halves of endpoint 2, handler position | host and bus actions; `Configure`, `Deconfigure`, `IsrReset` (control endpoint and reset); one action per step of the handler |
| `PacketMemory` | endpoint registers and packet memory | none (operators) | `Open`, `OpenData`, `Close`, `ControlOpen` |
| `UsbControl` | control transfers and everything requests change | `usb_device`, `control_transfer`, endpoint 0, DADDR, packet memory, the host | host and bus actions; one action per kind of request; one per stage and direction of `usb_control_transfer` |
| `ConfigStore` | configuration check of `main()` over the EEPROM | six bytes, `main()`'s position, the flashed image | `Start`, `WriteByte`, `Verify`, `NoAnswer`, `PowerLoss` |
| `MCConfigStore` | the images of the instance | | |
| `Usart` | transmit ring of the diagnostics | ring, registers of the USART, `main()`'s position | every access of `usart_send` by `main()`; `UsbPrints`, `UsbSends`, `UsartIrq`; the hardware |
| `MotionQueue` | abstract: what the motion path promises the G-code parser | steps on their way | `Accept`, `Step`, `Drop`, `StopOrStart` |
| `GrblStepper` | planner ring, segment ring and stepper interrupt | both rings, `prep`, `st`, `pl_block`, the copies of step data | `PlanBufferLine`; a turn of the loop of `st_prep_buffer()` is `PrepSegment`, `PrepBlockEnd` or `PrepHoldEnd`; `StepperSteps`, `StepperRunsDry` |
| `GrblProtocol` | main program and interrupts, over `GrblStepper` | `sys`, the flag bytes, receive ring, position of the main program | `Init...`, `Rt...` (branches of the checkpoint), `Execute...`, `ReturnTo...` (what each caller of the checkpoint does next), `ReceiveLine`, `ReceiveCharacter`, `StepperInterrupt` |
| `GrblPlanner` | look-ahead and speed profiles | block ring with speeds, planned pointer, the profile under execution | `PlanBufferLine`, `PrepSegment`, `PrepBlockEnd`, `PrepHoldEnd`, `FeedHold`, `CycleStart`, `CycleStop`, `Reset` |
| `CircularBuffer_proofs`, `UsbCdc_proofs`, `UsbControl_proofs`, `UsbTransfer_proofs`, `ConfigStore_proofs`, `Usart_proofs`, `GrblProtocol_proofs`, `GrblPlanner_proofs` | theorems | | |

Definitions marked "Mutant" are deliberately wrong variants of the one below
them. No specification uses them; each shows, put in its place, that a property
notices the bug.

### Grain of the actions

The firmware is built without optimisation and the fields shared with handlers
are volatile, so the order of accesses is that of the source. A handler is one
action where nothing else can see its middle, and is split where the bus can:

* `UsbCdc`: before a VT flag is cleared (`IsrOut`, `IsrIn` read the register,
  `RxPacket`, `TxComplete` write it back), after every byte of the echo, and in
  `usb_tx_packet` after the packet buffer is filled (`Echo`), after the state is
  read (`ReadTxStat`) and when it is toggled (`WriteTxStat`). `usb_tx_packet`
  called from `TxComplete` is one step: the state is NAK there and the host cannot
  change a NAK.
* `UsbControl`: between reading the register (`IsrRead`), serving the receiving
  half and serving the transmitting one. `QueueAgain` is the second status that
  `usb_device_set_address` queues.
* `Usart`: `main()` in single accesses. The USB handler prints a byte per step
  (`UsbSends`), because the USART goes on sending meanwhile; `main()` and the USART
  handler wait until it is through. The USART handler is one step.
* `ConfigStore`: a byte per step; power may go between steps and in the middle of
  one, when the byte may read as anything in `Torn`.
* `GrblProtocol`: an interrupt runs to completion between any two steps of the main
  program, so the main program is split at its accesses to what an interrupt reads
  or writes: the flag bytes (every one is cleared by a read-modify-write with the
  interrupts off, hence one step), `sys.state` and `sys.suspend`, which `mc_reset()`
  reads, and the rings. A turn of the loop of `st_prep_buffer()` is one step: it
  reads the segment ring's tail at its head and publishes a segment at its end, and the
  interrupt looks at the head only. The stepper interrupt is one step per step
  event.
* `GrblPlanner`: one step per call. Of the planner only the main program touches
  anything; how its calls interleave is in `GrblProtocol`.

### What the data are reduced to

The n-th byte the host sends on the data endpoint is the number n, so that a
lost, repeated or overtaken byte shows. Byte n of a descriptor is the number n;
a line coding, a line state, an address is a small number. Descriptor contents,
strings and messages are left out. `GET_INTERFACE` and `SET_INTERFACE` behave like
`GET_CONFIGURATION` and `SEND_BREAK` and are represented by them. Requests that the
device rejects are one kind, `unsupported`, in both directions and with either
callback that may have been set by then.

In `GrblProtocol` a line is one token of the receive ring, by what executing it
does: move, move to a place outside the limits, dwell (which stands for everything
that synchronises), `$X`, `$C`. A block is a number and its steps left, a segment the
copy of step data it uses and its steps; how many steps a segment takes is chosen,
and so is where the deceleration of a hold ends. `GrblPlanner` has the speeds: all
of them squared, as the code keeps them, in a unit of distance in which one block
length changes the square by that length, so that the profile arithmetic is that of
integers. Rounding is left out with it.

### Outside the code

The host, the peripheral, the power supply and the USART's shift register are
modelled from what the code relies on: a SETUP is always taken and turns both
halves to NAK; a half with a VT flag pending takes nothing more; a completed
transaction turns VALID to NAK and sets VT; a bus reset clears the endpoint state
at once and raises an interrupt. The host keeps to the protocol, but may give
up a request that is not answered, and start any request at any time it may.

In the port of Grbl the stepper timer is not connected yet: `st_wake_up()` and
`st_go_idle()` carry the register writes as comments, and nothing calls
`timer_1_interrupt()`. The models take the comments at their word: `timer` is what
those writes intend, and the interrupt runs while it is set. Lines and real-time
characters come in any order and at any time.

## Runs

| Run | Module, configuration | States | Shows |
|---|---|---|---|
| `cdc` | `UsbCdc`, `MCUsbCdc.cfg` | 19,274 | the data path, for short packets |
| `control` | `UsbControl`, `MCUsbControl.cfg` | 952,528 | control transfers and packet memory |
| `config` | `MCConfigStore`, `MCConfigStore.cfg` | 257,066 | the persisted configuration |
| `usart` | `Usart`, `MCUsart.cfg` | 547,157 | the diagnostics ring |
| `grbl` | `GrblProtocol`, `MCGrblProtocol.cfg` | 338,295 | the main program, its interrupts and the motion path |
| `planner` | `GrblPlanner`, `MCGrblPlanner.cfg` | 114,891 | look-ahead and profiles |
| `cdc_full` | `MCUsbCdcFull.cfg` | violation | `ArmedOnlyAfterRead` fails for a full packet |
| `cdc_overlap` | `MCUsbCdcOverlap.cfg` | violation | `NothingLost` fails when the bus does not pause |
| `control_stall` | `MCUsbControlStall.cfg` | violation | `RejectionStalls` fails |
| `control_eager` | `MCUsbControlEager.cfg` | violation | `AddressAfterStatus` fails for a fast host |
| `config_torn` | `MCConfigStoreTorn.cfg` | violation | `RunsWhole` fails |
| `usart_race` | `MCUsartRace.cfg` | violation | `AllOnWire` fails |

### Properties

`UsbCdc`
* `ArmedOnlyAfterRead`, `NothingLost`: the OUT half accepts a packet only when
  everything before has been read; what was acknowledged is read, in the ring, or
  pending.
* `ImplementsStream`: refinement of `ByteStream`.
* `EchoInOrder`: bytes of the echo may be lost or repeated (the code overwrites
  packets the host has not taken), never reordered.
* `LastByteReturns`, `OutRearmed`: under fairness, the last byte of every packet
  comes back, and the OUT half does not refuse for good.

`UsbControl`
* `Delivered`, `InStep`: the data stage delivers exactly what was asked for, and
  host and device never disagree on the stage, with one exception (`Misdirected`): an
  IN request that asks for no data. `usb_ep_initiate_control_response` queues the status of
  every IN request on OUT (`usb_device.c`, 131-132), while the host takes it from IN, as
  the comment at `usb_device.c`, 551-552, has it ("or IN if there was no data stage").
  The request hangs until the host gives up.
* `Agreement`: when nothing is pending, address, configuration and line settings
  are what the host believes.
* `AddressAfterStatus`: the address changes only once the host has the status.
* `BuffersApart`, `RegistersDirect`: packet memory is never shared and every
  endpoint keeps the register of its number.
* `Answered`: every request the device takes and can serve ends, whatever was rejected
  or left hanging before it. It cannot serve the unsupported ones, those for
  `ENDPOINT_HALT`, which report success but queue no status, and an IN request without
  data. It takes no request at all once the halt of endpoint 0 was cleared:
  `usb_ep_stall_clear_hal` writes the STAT bits back as it read them, they toggle, STAT_RX
  goes from NAK to DISABLED, and only a bus reset brings the endpoint back.

`ConfigStore`
* `RunsValid`, `KeptOnceRun`, `Settles`: the main loop runs over a valid version
  only; that version is never replaced; starting up ends.

`Usart`
* `InRangeAtRest`, `FlushDrains`, `Drains`: the head is in range outside
  `usart_send`; the flush returns only on an empty ring although it does not look at
  it; the ring always empties again.

`GrblProtocol`
* `ReadyMeansStill`, `StopFollowsMotion`: a hold is ready to be resumed only with the
  motors at rest, and a stop reported by the interrupt is never that of an earlier
  motion.
* `ResetSilences`: a reset stops the motors, and the system comes up locked if they
  were moving. The code leaves three gaps, in which this fails and which the history
  variable `gap` records:
  * between the reading of the alarm flags and the copy of the state flags: the alarm
    set in between is wiped by `main()`, and the system comes up unlocked;
  * from the copy of a `CYCLE_START` to `st_wake_up()`: the motors start again after the
    reset;
  * while the motors brake for the safety door (`BrakesForDoor`). The checkpoint has then
    set `SUSPEND_ENERGIZE` besides `SUSPEND_ENABLE_HOLD` and the state to `SAFETY_DOOR`
    (`protocol.c`, 255-296), so that the test of `mc_reset()`, which compares
    `sys.suspend` with `SUSPEND_ENABLE_HOLD` alone (`motion_control.c`, 382), is
    false. A ctrl-X neither stops the motors nor raises an alarm, although the comments
    above the test (364-368, 378) speak of any motion state. `main()` starts its
    initialisation with the timer on, and the system comes up unlocked.
* `WaitsForMotion`: the soft limit check resets only with the motors at rest; a dwell
  begins only when every step accepted before it has been taken.
* `ImplementsQueue`: refinement of `MotionQueue`: the steps of the blocks reach the
  motors once each and in order, over every interleaving of planning, checking out,
  holding and resuming.
  The safety door is part of all of these: a `@` while a hold brakes, a hold while the
  door's deceleration is under way, a `@` at rest, and a resume of each.
* `HeldMainBlocked`, `NoAutoResume`: nothing is planned while the system is suspended,
  and only a `~` of the operator resumes a hold, although the main program sets the same
  flag all the time. The history variable `asked` records that a `~` is behind it.
* `HoldCompletes`, `ResetHonoured`, `EveryMoveRuns`, `SyncEnds`: under fairness, a hold
  comes to rest, a reset gets through from every wait, queued moves are started and
  finished, and a synchronisation ends. The last two except the behaviours in which the
  stepper ran dry with blocks still to check out (`starved`): the code relies on
  the segment ring outlasting any pause of the main program (`stepper.c`, 605-616),
  and when it does not, the cycle ends and `protocol_buffer_synchronize()`, which
  starts it only once, waits for ever.

`GrblPlanner`
* `PlannedInRange`: the planned pointer stays on a queued block.
* `PlanFeasible`: whatever was appended, executed or held, every junction can be
  reached from the one before within the acceleration, the last block can stop, and no
  junction exceeds its limit.
* `PlanOptimal`: skipping what lies before the planned pointer loses nothing: a
  complete look-ahead from the first block, at the speed the machine has, would give
  the same plan.
* `ProfileMatchesPlan`: the profile under execution ends with the speed the plan
  has for the next junction.

### Bounds

* `MCUsbCdc.cfg`: rings and packets of 3 bytes, 4 bytes sent. Three is the
  smallest size at which a packet can be empty, shorter than full with one byte and
  with several, and the ring wraps in the middle of a packet; four bytes are two
  packets and the wrap. One bus reset or deconfiguration is enough to meet every
  step of the handler; the theorems cover any number.
* `MCUsbControl.cfg`: packets of 2 bytes, descriptors of 2 and 5 bytes of which 4 are
  asked for or none: a transfer that ends with a full packet and an empty one, one that
  is cut after a full packet of exactly the length asked for, and one without data. A
  short last packet is the single byte of the other IN requests; those whose
  `wLength` the USB standard fixes come with that length. `Wanted` may hold any
  16-bit numbers, 0 included. The number of requests and resets is not bounded: the
  state space is finite.
* `MCConfigStore.cfg`: two images that differ in one byte, three power losses, torn
  bytes that are those of the key, of a version, and erased. The theorems cover any
  number.
* `MCUsart.cfg`: a ring of 3 with 7 bytes to send wraps and overflows.
  `MCUsartRace.cfg` leaves room for every byte, so that what it loses is lost to
  the race.
* `MCGrblProtocol.cfg`: rings of two usable blocks, two usable segments and two
  lines; blocks of two steps, so that a hold may end inside one and
  `st_block_buffer` (two entries) is reused; three blocks; four inputs, lines and
  characters together, which is a move, a hold or a safety door, a resume and a reset,
  or three moves (one more than the planner takes) and a dwell. The invariants were also checked
  with five inputs, and with `HomingLock`, which makes the system come up locked.
* `MCGrblPlanner.cfg`: a ring of three usable blocks, the least with a block that is
  neither first nor last in the passes; lengths and speeds such that blocks are
  too short to reach the speed of the junction, just long enough, and longer. The
  number of blocks is not bounded.
* `CHECK_DEADLOCK FALSE` is set where the system really stops: `ConfigStore` when
  `main()` has halted or waits for an EEPROM that does not answer, `Usart` when
  every byte has been sent, `GrblProtocol` in the critical alarm once there are no more
  inputs.

### Assumptions of the passing runs

Two kinds of behaviour are kept apart so that the passing runs say what holds
besides what is known to fail:

* `PacketSizes` in `MCUsbCdc.cfg` has no full packet, and `ClearOverlaps` is
  FALSE; `cdc_full` and `cdc_overlap` lift one each.
* `HostWaits` in `MCUsbControl.cfg` is TRUE: a SETUP does not come while the
  handler still has a completion of the last request to serve. A real host leaves
  the device longer than that; `control_eager` lifts it.

### Fairness

* `UsbCdc`, `UsbControl`: weak fairness of the interrupt handler (a pending
  interrupt is served; nothing masks it for long) and of the host's next
  transaction (`HostTakes`: a host that has the port open polls it;
  `HostContinues`: it goes on with a request it has started). The host is not
  assumed to start a request, give one up, or send data.
* `ConfigStore`: weak fairness of `main()`. The EEPROM may fail to answer, which
  is the state `hung`.
* `Usart`: weak fairness of both interrupt handlers and of the hardware. `main()` in the
  middle of `usart_send` gets strong fairness: it is preempted again and again, but
  a byte takes some 5,000 cycles on the line and a handler a few hundred.

* `GrblProtocol`: weak fairness of the main program, which is never blocked but in the
  loop of the critical alarm, and of the stepper interrupt, whose timer keeps its
  period while it is enabled. Host and operator need not do anything.

## Disagreements between code and comments

The first six have a run of their own.

1. **A full packet is lost** (`cdc_full`). A 64-byte packet fills the 64-byte ring,
   head meets tail, the ring counts as empty, no callback runs, and the endpoint is
   armed again. `CircularBuffer_proofs!FullLooksEmpty` proves it for every size.
2. **A flag is cleared unserved** (`cdc_overlap`): `usb_ep_clear_correct_transfer`
   writes the other VT flag back as it read it, where 1 would leave it alone.
3. **A rejected request is not stalled** (`control_stall`) when the host polls the
   transmitting half: a direction is passed where an index is expected.
4. **The address may change before its status stage** (`control_eager`) when a
   completion of the request before is served in the same pass.
5. **A torn configuration is accepted** (`config_torn`), because the key is
   written first.
6. **Diagnostic bytes are lost** (`usart_race`) when the USB interrupt prints while
   `main()` is between loading and storing the head.

Three more are exceptions, stated in the properties they concern:

7. **An IN request without data gets its status on OUT** (`Misdirected` in `InStep` and
   `Answered`): the code does not do what the comment at `usb_device.c`, 551-552, says.
8. **Clearing the halt of endpoint 0 silences it** (`Answered`): `usb_ep_stall_clear_hal`
   is written for a half that is stalled.
9. **A reset does not stop the braking for the safety door** (`BrakesForDoor` in
   `ResetSilences`).

## Proofs

TLAPS checks every leaf with SMT (Z3), Zenon or, for temporal steps, LS4.

* `CircularBuffer_proofs`: for every size, `ReadFifo` and `WriteFifo` say that the
  contents of a ring behave as a queue as long as a write leaves one byte free, and
  `FullLooksEmpty` what happens otherwise. They rest on lemmas about indexes modulo
  the size.
* `UsbCdc_proofs`: for every size, any number of bytes and of resets, under
  `WithinLimits` (no full packet, no overlapping clear: the two conditions the
  violation runs show to be needed).
  * `NothingLost` alone is not inductive: that a packet finds room needs that the
    ring is empty whenever the handler is not draining it (`Drained`), that nothing
    is accepted while a packet is pending or being drained (`Quiet`), that a pending
    packet is short (`ShortPending`), and that the endpoint answers the bus only
    while configured (`LinkUp`). Their conjunction with `TypeOK` is `IInv`;
    `Invariance` proves it inductive, one lemma per action; `Typing` and
    `FlowControl` follow.
  * `Refinement`: under `IInv` every step maps to a step of `ByteStream` or to a
    stutter.
  * `EchoOrdered`: the bytes in both rings, in the packet buffer and received are
    numbered in order (`EInv`), step by step.
* `ConfigStore_proofs`: for any images, torn bytes and losses. `KeptOnceRun` needs
  `Kept`: once the loop was entered, the stored version is the one it was entered
  over, is valid, and `main()` is never in a state in which it writes.
* `UsbControl_proofs`: for every packet size, any descriptors, addresses and values.
  * `NeverShared`, `AlwaysDirect`: packet memory has two forms only, `Bare` with
    endpoint 0 and `Full` with all endpoints; opening and closing lead from one to
    the other, so that no sequence of them can drift. `Form` ties the form to the
    configuration; it is inductive with `Shape` and `Place` (the fields the records
    have, and what the handler's position implies of the VT flags).
  * `AddressKept`, for a host that waits for the handler: while the address callback is
    set, the only packet the host can get is the status of SET_ADDRESS (`Offered`),
    and once that is taken the host uses the pending address (`Confirmed`). A request
    not yet served leaves nothing on the IN half (`Requested`); without `HostWaits`
    this is the part that fails, as `control_eager` shows.
* `UsbTransfer_proofs`: for every packet size, any descriptors, addresses and values, and
  lengths of 16 bits, for a host that waits for the handler. `Situation` lists where a
  transfer can be between two resets: `Asked`; with data to the host `Queued`, `Taken`,
  `Complete`; with data from the host `Armed`, `Sent`; then `Confirming`, `Done`, and
  again `Settled`; `Hung` after a request the device does not answer. Each says where the
  handler is, what both halves of the endpoint hold, what the host has got, and how the
  device relates to what the host believes: it agrees (`Agree`), or will once the status
  is through (`Promise`). One lemma per action shows which situation it leads to; the
  lemmas named `...Finds` show from which it can start. `TypesKept`, `AlwaysDelivered`,
  `AlwaysInStep` and `AlwaysAgree` are read off the situations. The types are part of the
  induction, as the line coding is read from a packet that must have arrived whole
  (`Filled`). That no more is fed than there is makes the 16-bit difference of
  `NextPacket` harmless (`NextPacketIs`).
* `Usart_proofs`: for every size, number of bytes and lengths of prints. `HeadInRange`
  needs that the head exceeds the array only between the store and the test of
  `usart_send`. `FlushEmpties` needs `OffWhenEmpty`: the interrupt is off, with
  `main()` not sending, only over an empty ring.

* `GrblProtocol_proofs`: for any sizes of the rings, lengths of blocks, sets of lines and
  characters and number of inputs. Five parts:
  * The control part. What the rings hold is irrelevant to it, except for what the
    motion path does to the flags and the timer (`Preserved`), so that `IInv` speaks of
    the control part alone: `FlagCopies` (where the main program is, given the flags it
    has copied), `Motion` (the timer runs only in a state of motion, the braking for the
    safety door included, or after one of the gaps), `Held` (what a suspension implies), `Flagged` (whose `CYCLE_STOP` this
    is), `Calling`, `Asked`, `Killed` (what a reset in motion leaves behind, at every
    step on the way back to `main()`). `ReadyMeansStill`, say, fails as an induction
    without `Flagged`: that the flag a branch acts upon is of this motion is what
    makes the hold ready.
  * The motion path. `MotionInv` says that there are offsets `o`, one per entry of the
    segment ring, for which the segments are a chain (`Follows`): each begins where the
    one before it ends, in the same block or at the start of the next; the last ends
    where `st_prep_buffer()` goes on; the one being executed is where the interrupt is;
    and each copy of step data a segment of the ring uses is still that of its block.
    The copies are one fewer than the entries of the ring and are reused without a
    test; `InTurn` is why none is overwritten in use: they are taken in turn, and from a
    segment on to the next block to be prepared there are no more blocks than segments.
    `At(o)` counts the steps up to the interrupt's; it grows by the steps taken
    and by nothing else (`MotionSteps`).
  * The queue. `Pending`, which flattens the segments and then the blocks, is shown equal
    to a formula over the two counts (`PendingIs`): the i-th step pending is of block
    number (At + i - 1) divided by the steps of a block. The folds over the rings are
    handled by least counterexamples (`FlattenRuns`, `RingWalk`). With that
    `ImplementsTheQueue` is arithmetic: planning appends a block (`AppendBlock`), a step
    event takes the first (`TakeStep`), a reset drops all, everything else stutters
    (`StillPending`).
  * The types of the rest of the state (`ProtocolTypes`).
  * `WaitsAreReal`. That nothing is pending when a dwell begins does not follow from the
    flags alone. `Rest` says where the motion path is at rest, as long as the
    steppers never starved: outside the states of motion, in a critical alarm,
    while a `CYCLE_STOP` waits to be read, and in a dwell; `Exits` says that a profile
    ends with a speed only if there is a next block to take it up, without which the
    interrupt might run dry between two blocks.

* `GrblPlanner_proofs`: for every size of the ring, any lengths and speeds and any number
  of blocks. Five layers:
  * The two passes are recursive functions; what they compute is proved by least
    counterexamples over the index of the block (`Downward`, `Upward`), since an
    induction theorem cannot be instantiated. `PassFollowed`: the result can be
    followed if the blocks could be braked for before. `PassFastest`: no plan that can
    be followed and stopped is faster at any block. `PassFinal`: up to a breakpoint
    none is faster even if it need not stop, that is, whatever is appended.
  * A `GoodPlan` is one that can be followed, is the fastest, and is final up to the
    planned pointer. `Replanning` (planner_recalculate), `Executing` (a segment of the
    first block) and `Executed` (its end) keep it.
  * `IInv` is inductive, one lemma per action. `PlanFeasible` and `PlanOptimal` are not
    inductive alone: that a later recalculation may start at the planned pointer needs
    that the blocks before it are final; that a segment may accelerate needs the
    junction limits (`Junctions`) and that the profile still has the plan's exit speed
    (`ProfileMatchesPlan`); and a hold, in which the machine does not follow the plan,
    needs that what is behind the first block can be braked for (`Braking`), from which
    the re-planning at the end of the hold starts.
  * `PlannerTypes`: `Limits`, inductive under `IInv`, bounds every length and speed by the
    longest and the fastest line's. This is the only theorem that rests on the sets of
    lengths and speeds being finite (`FinitelyMany`): the maximum the type names must
    exist (`GreatestOf`).
  * `HoldStopsInTime`: a hold brakes whatever the plan is, block after block from its own
    exit speed, and still gets through no junction faster than planned, so that it
    stops within what is queued. It needs `Between` (between two blocks the stepper's
    exit speed is no more than the next block's entry speed, also when that was planned
    again in the meantime) and `Braking` for the blocks the hold gets to.

The two models of the port meet here. `GrblProtocol` chooses where a hold ends and which
exit speeds a profile has, but not freely: in `ExitSpeeds` the last block of the queue is
left at rest, in a hold too. For the plan that is `PlanFeasible`, for a hold it is
`HoldStopsInTime`; with an exit speed left open there, `WaitsForMotion` fails, as the
interrupt could run dry with the hold not finished.

Only model-checked: all liveness (`LastByteReturns`, `OutRearmed`, `Answered`, `Settles`,
`Drains`, `HoldCompletes`, `ResetHonoured`, `EveryMoveRuns`, `SyncEnds`), which is out of
the prover's reach, as ENABLED is. Every other property of a passing run is the
statement of a theorem. No module declares a RECURSIVE operator.

## Not modelled

pcb-mill:

* Suspend, wake-up, SOF and the off-line timer.
* The walk over the descriptors: constant data; its result is `OpenData`.
* The receive half of the USART and the TMC2209 protocol.
* Motion: the step interrupt returns after toggling pins, and nothing calls
  `start_motion`.
* Clock, timer and pin initialisation; other boards, which are stubs.
* `ENDPOINT_HALT` in `UsbCdc`: it leaves the endpoint disabled until the next
  configuration (`UsbControl!EndpointHalt`, for both halves of endpoint 0 and the bulk OUT
  endpoint, whose STAT fields `UsbControl` keeps).
* IN requests without data other than `GET_DESCRIPTOR`, which stands for them: the
  code that answers them is one function.

Port of Grbl:

* Motion cancel, homing and probing: nothing in this port sets their flags, or the pins
  they read are stubs. The input pin of the safety door is such a stub, so that the door is
  never ajar; its character `@` is modelled.
* The transmit ring and `serial_write()`, the filter of characters inside a line (spaces,
  comments), start-up lines, and the `$` commands that only read or write settings.
* Settings: `eeprom_get_char_hal()` is a stub that is called without its argument, so
  that the stores and loads the settings code relies on do not exist yet.
* Inside a block: segments of no step, AMASS, direction bits and the Bresenham counters
  of each axis; square roots and rounding of the profiles; arcs.
* `GrblPlanner` does not let the steppers run dry in the middle of a queue; that is in
  `GrblProtocol`.
* The G-code parser and the reports: text and floating point.

Vendored firmware, headers and the small experiments are not this project's code.

## Plan

Done: the modules in the table above and their theorems. The order was the USB data
path, the control endpoint, configuration and diagnostics, then the port of Grbl from
its main program down to the planner.

Left:

1. Theorems behind the liveness properties: for each loop the main program may be kept
   in, a measure that no step increases and the helpful one decreases, so that the runs
   only add the fairness.
2. `UsbPower` (SOF, suspend, remote wake-up) and `Tmc2209` (register reads over the
   one-wire UART), folded into existing runs where that is possible.
3. Grbl settings under power loss, next to `ConfigStore`, once the EEPROM access
   exists.
