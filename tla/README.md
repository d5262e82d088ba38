# Verification of the SkyWalker control framework

SkyWalker is a Zephyr framework for robots driven by CAN motors: motor buses with
enable/stop handshakes, links between the boards of one robot, command
arbitration, and executors that turn commands into motor setpoints. The modules
here model the parts whose correctness rests on *order*: threads against
interrupt callbacks, confirmations against the requests they answer, recovery
against frames already on their way, and the parts where a number or a byte at a
boundary decides. They are written from the source; the
mapping of every definition to the lines it stands for is in `PROJECT.json`.

Everything is plain TLA+. A run of section 9 is repeated with
`tlc -config X.cfg M.tla`, where M is its module; the proofs with
`tlapm XProofs.tla`.

Contents: 1 the system, 2 the plan, 3 the CAN bus, 4 the UART, 5 the
command path, 6 the boards, 7 the ports, 8 the mechanisms, 9 the runs,
10 the proofs, 11 what is not covered.

## 1. The system

| component | state | operations | what makes it correct |
|---|---|---|---|
| **CAN motor bus** `drivers/motor/can_bus.cpp` | `status_`, `bus_generation_`, `in_flight_`, `rx_queue_`, `published_`, cursors | `commit()` by a publisher thread; `onRx()`, `onTxDone()` in the CAN interrupt; `ioMain()` everything else | a frame that moves a motor has authority when it is submitted; stop frames go first; a frame and its callback belong together; recovery lets nothing through and ends |
| **Motor endpoint** `drivers/motor/motor.cpp` | lifecycle, generations, stop request, protocol attempt, staged command, under `lock_` | `enable()`, `disable()`, setters by applications; `accept…Feedback()`, `complete…()`, `raiseFault()` by the I/O thread | *Active* and *DriveConfirmed* describe the drive; a stop reported as sent is the last thing the motor was told |
| **Motor group** `group.cpp` | member list | loops over the endpoints | partial failure of `enable()` is reported |
| **Frame encoding** `dji/`, `dm/` | none | bytes and fixed point | each drive on a shared bus hears its own command, and reports reach their own motor |
| **Velocity / position controllers** `lib/control/motor_control.cpp` | PID state, observed generations | `update()`, `reset()` by one execution thread | an effort computed before a stop, fault or reset is never committed after it |
| **AsyncUart** `lib/communication/async_uart.cpp` | two RX DMA buffers in turn, chunk queue, generation, TX deadline | `service()`, `read()`, `send()` by a thread, `event()` in the UART interrupt | no byte is lost without `-EOVERFLOW`; DMA memory has one owner; reception restarts |
| **CAN interboard transport** `can_interboard_transport.cpp` | raw ring, fragment assembly, TX state, recovery state | `service()`, `read()`, `send()`, CAN callbacks | a batch is delivered whole, once and in order, or a gap is reported |
| **RS485 interboard transport** `rs485_interboard_transport.cpp` | grant, window, silence deadline | master polls, slave answers | one sender at a time |
| **Interboard link, endpoint** `interboard_link.cpp`, `interboard_endpoint.cpp` | boot ids, sequence baselines, freshness | poll, publish | a rebooted or silent peer has no authority; old values are not replayed |
| **Command manager, arbiter, gesture** `lib/robotics/command_manager.cpp`, `command.cpp`, `mouse_shooter_gesture.cpp` | selected source, operator gate, click state, queued remote frames | `run()` every period, `setOperatorGate()` from elsewhere | a click fires once, and only when pressed after the authorisation that lets it fire |
| **Shooter executor** `shooter_executor.cpp` | dial mode, heat, jam latch, consumed events | `run()` | one event, one shot; the feeder stops in every error path |
| **Chassis, gimbal, big-yaw executors** | targets, histories, calibration, holds, ramps | `update()` | an effort belongs to the enabling and the coordinate the motor is in; nothing is caught up with after an interruption |
| **Vehicle bench** `samples/robotics/common/vehicle_bench.hpp` | gate, caches, `operator_revoked` | an execution and a communication thread on each board | a board that is lost or reboots is not permitted to run before the operator opens the gate again |
| **Receivers** remote, referee, vision | parser, last frame | byte decoding | validity ages |
| **IMU drivers and heater** `drivers/imu/` | reference epoch, request in flight, heater state | `service()`, `resetReference()`, callbacks | an orientation belongs to the epoch it is published under; a hot unit is not heated |
| **Diagnostics, VOFA, snapshot cache** | telemetry state | output | – |

How they interact. Executors run in execution threads and call controllers,
which call setters of the motor endpoints; the publisher then calls `commit()`.
The I/O thread of each bus captures the committed command together with the
motors' lifecycle, encodes and submits frames, and handles what interrupts have
queued. Commands reach the executors from the command manager, which reads the
receivers and, on a board without a receiver, the interboard endpoint. The
interboard endpoint runs over one of three transports, two of which own an
`AsyncUart`.

Where the difficulty is. `tests/motor/regression/README.md` says of the motor
tests that they "do not cover CAN ISR completion, stop-frame interleavings,
restart generations or bus-off recovery": that is the part modelled first. All
hazards found in the code, with their lines and the properties aimed at them,
are listed in `PROJECT.json`.

## 2. The plan

Done: the CAN bus with its motors and `StopContract` (section 3); the UART with
`GapStream` (4); the operator's gate and the mouse gesture (5); the link between
the boards, the bench of either board (6); the drivers and codecs at the end of
a wire (7); the mechanisms and the arbiter (8).

Proved: the properties of all of these, the refinements among them (section
10), but for the parsers and the codecs of section 7, which are only
model-checked.
## 3. The CAN bus and its motors

### Modules

- `Motor` models one `Motor` object: its record of fields, and one operator per
  section under `Motor::lock_`, from record to record. It has no variables.
- `CanBus` extends it and is the state machine: application threads, interrupt
  callbacks, the I/O thread, and outside the program the controller, the wire,
  the drives and the clock.
- `StopContract` is what a caller of `disable()` may rely on. `CanBus` is shown
  to implement it (`StopIsHonoured`, the instance `Stop`).
- `MCCanBus` names the topologies used by the runs and, for two motors, a
  scenario constraint. `CanBusProofs` and `CanBusStopProofs` hold the theorems.

### State

| TLA+ | code |
|---|---|
| `motor[m]` | the members of `Motor`; a record with the field names of the source |
| `published`, `sequence` | `published_`, `published_sequence_` |
| `expired[m]` | the newest command revision whose age exceeds its timeout |
| `targets`, `cursor`, `protocolFirst` | `targets_remaining_`, the two cursors, `protocol_before_target_` |
| `bus` | `status_.state`, `bus_generation_`, `controller_started_`, the "restart done" flag |
| `order`, `rx`, `inFlight` | `next_callback_order_`, the RX queue with its overflow flag, `in_flight_` |
| `pc`, `todo`, `event`, `follow`, `budget`, `candidate` | where `ioMain()` is and its locals |
| `hw`, `wire`, `drive`, `replying` | not program state: the controller, the last frame each motor heard on the wire, what each DM drive does, which drive owes an answer |

### Actions and atomicity

An action is one critical section, or several between which no other thread can
tell the difference. Callbacks are atomic: an interrupt pre-empts every thread.
A pass of `ioMain()` goes through `pc` = `ProcessTx`, `TakeOverflow`,
`ProcessRx` (with `AcceptFeedback` and `FollowUp`, the parts of accepting a frame
that take the motor's lock again), the deadlines (`CheckBus`, then `CheckMotor`
motor by motor, in any order) or the recovery, and `pumpTx()` in its stages,
each ending in `Build` and one of `Submit`, `SubmitRefused`, `SendFails`.

Steps of the code that are merged, and why nothing is lost:

- taking a completed frame and telling its motors: only the I/O thread reads or
  writes what lies between;
- `enterRecovery()` and its `raiseFault()` loop: no other thread reads the bus
  state and a motor in one section;
- `captureCandidate()` and encoding: `Submit` revalidates what was captured
  under the motors' locks, so what happens between capture and submit is what
  counts, and it is free to happen;
- the copies of `commit()`: the publisher is the only writer of what it copies;
- the scans of `pumpProtocol()`: they only choose a unit, whose motors `Build`
  reads afresh.

Time is abstracted to what the code asks of it: whether a deadline has passed is
a free choice of the step that compares (`late`, `timeout`, `due`, `gap`,
`sameMs`), and feedback or a command may age at any moment. Choices that would let
the bus fail for ever are tied to `MayFail`.

The environment may lose a frame after the controller has confirmed it
(`Transmit(FALSE)`), repeat a frame its receivers have already taken
(`DmReplies(m, TRUE)`), report a completion arbitrarily late, fall off the bus at
any time and, with `DriveUpsets`, have drives that fault or lose power by
themselves. A drive samples its status when it sends it, and a status frame
reaches the interrupt in the order of the wire: that is assumed of CAN.

`Init` is the bus after `attach()`, `validateTopology()` and `start()`, which
run before there is anything to interleave with; `TopologyAssumption` is what
they establish. The drives may be found enabled, as after a reset of the board.

### Bounds

`MaxCancellation`, `MaxEnable`, `MaxRevision`, `MaxProtocol`, `MaxOrder` and
`MaxSequence` stand for the largest values of the counters. The code has a branch
for each at `numeric_limits::max()`, the model has it at the bound: a small bound
therefore checks exhaustion too and removes no behaviour before it. Two values of a
generation are enough for "old" and "current", and runs in which a third or
fourth matters have it. `MaxRecoveries` limits how often the bus fails (the first generation is 1);
`RxDepth = 2` makes the queue overflow with two answers.

### Properties

- `TypeOK`, with the receive queue and every counter in range, also when counters
  run out. `MotorsOK`: the flags of one motor agree with each other whichever
  thread wrote last.
- `StoppedIsQuiet`: once the stop of a motor is reported sent, confirmed or
  given up, the last thing the wire told that motor was to stop, and nothing
  else is on its way. What threatens it: frames on their way when `disable()`
  comes, several motors in one frame, completions after a timeout, `enable()` and
  `disable()` in between.
- `StatesAreTrue`, which is `ConfirmedIsDisabled` and `ActiveIsEnabled`: *DriveConfirmed* and *Active* are
  true of the physical drive, whatever was lost, delayed or repeated. Statuses
  queued before the frame that they seem to confirm are what threatens them; the
  callback order exists for this ("Exhaustion fails closed: order zero cannot
  confirm a protocol handshake", `can_bus.cpp:302`).
- `MotionIsAuthorised` (a step property): a frame that moves a motor is handed
  to the controller only while the authority its command was staged under holds.
- `RecoveryIsSilent`, `FrameOwnsCallback`: nothing is permitted to move during
  recovery; a late callback never completes a frame submitted after its own.
- `StopIsHonoured`: the refinement of `StopContract`.
- `StopIsServed`, `RecoveryEnds` (liveness): a stop request does not stay
  pending, recovery does not wait on itself.

### Fairness

`FairSpec` assumes the I/O thread is scheduled (weak fairness of `IoThread`): it
is a dedicated thread that sleeps with a timeout, `nextWaitMs()`, and is woken by
every callback. Strong fairness of the recovery steps says that the retry time
comes again while the loop waits for it. A controller on the bus sends
what it holds or fails it, `can_stop()` aborts pending frames as the Zephyr API
promises, and bus-off ends. Nothing is assumed of applications, drives, other
nodes or the age of anything.

## 4. The asynchronous UART

`AsyncUart` models `lib/communication/async_uart.cpp` whole: one thread that calls
`service()`, `read()` and `send()`, and the callback `event()`. The RS485 and UART
interboard transports own one each, and everything they parse passes through it.

| TLA+ | code |
|---|---|
| `in_use`, `rx_disabled`, `tx_busy`, `generation`, `queue` | the members of those names |
| `observed` | `observed_generation_` |
| `pc`, `taken` | where the thread is: in `startRx()` before `uart_rx_enable()` (`Enable`), in `read()` before `k_msgq_get()` (`Read`) and with a chunk in `next` (`Check`), in `send()` before the copy (`Copy`) |
| `rx`, `tx` | not program state: what the driver has of ours and has received |
| `sent`, `got`, `told` | the wire, and what the caller of `read()` has seen |

A call is cut where the interrupt can tell the difference; the callback is one
action since it pre-empts the thread. The unit of data is one `RxChunk`, so
a chunk is its place on the wire: what is inside a chunk the code copies and never
looks at. `read()` returning nothing and returning from the middle of its loop are both
`pc' = "Idle"`; `dropped_chunks_` and the last transmission error are counters
for telemetry and left out.

The driver is the contract of Zephyr's asynchronous UART API as the code uses
it: it asks for a second buffer when it has room for one, reports what it has
received before it releases a buffer, stops after an error or when no buffer is
left, reports `UART_RX_DISABLED` last, refuses to enable reception that is on, and
completes, aborts or times out a transmission exactly once. It may report an end of reception
before `uart_rx_enable()` has returned. Bytes that arrive while the receiver is
off or stopping are missed. `init()` may fail to start reception.

Properties. `NoSilentGap` is the refinement of `GapStream`: what a parser receives
is contiguous unless `-EOVERFLOW` has told it to start over. It relates the place on the wire
of each chunk to that of the one before, through a queue that drops, errors and restarts at any
point of `read()`. `DmaHasOneOwner`: buffers the driver writes to are marked in
use and are distinct, the transmit buffer is not being copied into while it is sent.
`WorkGoesOn`, which is `ReceptionResumes` and `TransmissionEnds`: a reception that ended begins again, a
port does not stay busy.

Bounds. `QueueDepth = 2` and `BufferSize = 2` chunks let the queue refuse
the second of two reported chunks, and all of them; `MaxPieces` is the length of the run and
`MaxGeneration` limits errors on the line, so that drops and restarts still follow them. The
generation is a natural number: the atomic integer it models is compared for
equality only, and 2^32 gaps between two reads do not occur.

Fairness (`FairSpec`): `service()` is called every millisecond or two by its owners, its
retry time comes while reception is off, and its deadline passes while a
transmission lasts (strong fairness, since other calls come in between); `uart_rx_enable()` does not
fail for ever; the driver reports what it must and obeys an abort. Nothing is
assumed of the wire.

## 5. From the remote to the shot

`CommandGate` models the way of a mouse click: `RemoteService` with its queue and
`RemoteReceiver`, which run in the receive thread; `CommandManager::run()` with the
`CommandArbiter`, in the command thread; `setOperatorGate()`, called by the
application; and the executor's `newEvent()` and `consumeEvent()`. `MouseGesture` is the
class `MouseShooterGesture` as a record and an operator per method.

| TLA+ | code |
|---|---|
| `frames`, `loss` | `frames_` (numbers of frames, in the order of arrival), `frame_loss_` |
| `received` | every frame decoded; the last is `latest_` of the service |
| `snapshot`, `putting`, `cached` | `latest_` of the receiver, whether its mutex is held by `put()`, `RemoteSource::cached_` |
| `gate`, `seen`, `latched` | `operator_gate_`, and the locals `gate_revision`, `safe_gate_latched` |
| `pc`, `pass` | the command thread and the locals of one pass: `now_ms`, the copied gate, `run_allowed`, the permission, the newest observed frame, the budget |
| `gesture`, `output`, `consumed` | `mouse_gesture_`, `output_`, `last_event_id` |
| `safe_at`, `born`, `origin`, `lost`, `shots` | not program state: when a Down frame was last consumed, the revision under which the newest click was made, that of the published one, whether a frame was ever given up, the frames whose clicks were accepted |

A pass is `BeginPass` (sample, clock, gate), `NextFrame` for each queued frame,
`NoMoreFrames`, `Decide`; the receiver queues a frame (`ReceiveFrame`) and later
replaces the snapshot (`BeginPut`, `EndPut`), and the command thread may run in between. With
the default priorities the receive thread does not run during a pass;
`ReceiverPreempts` is the other order, which Kconfig allows. The application's thread is
above both. A frame may be decoded up to `MaxDelay` after its stamp. The
configuration is that of a shooter: `ShooterSelectable`, an operator gate, no automatic
aiming, one time limit for input. Motion commands are left out, and a permission is one answer for gimbal
and shooter.

Properties. `ShotIsEarned`: between two accepted shots the button was seen up, whatever is
lost, repeated or taken back in between. `EventsDieWithTheirGate`: no click passes a
change of the gate. `SafeOutlastsTheGate`: a Down frame after the boundary
holds until another gate; it depends on the order of priorities: with
`ReceiverPreempts` a Down frame after a new boundary may be consumed in the pass
that still holds the old gate, and the next pass clears the latch with the change of
revision. `ClicksAreNew`: while no frame was given up, a published
click was pressed after the boundary of its gate.

Two statements of the sources do not hold, each in a run of its own:

- `GateOldClick`: `update()` shows the snapshot to the gesture without comparing it with the
  boundary. Once the queue is lost the snapshot alone feeds it: a release
  and a press from before the boundary make a click under the new gate, though "a change of
  enabled or session withdraws old clicks" (`command_manager.hpp:29`).
- `GateFallback`: that arbitration must not go back to an old snapshot
  (comment at `command_manager.cpp:236`) is kept within a pass only. If the receive thread
  has queued a frame and is then kept from replacing the snapshot, the next pass observes
  an older frame, which the gesture rejects as a regression and which disables the
  command for that pass.

Bounds. Time is a clock of two or three milliseconds with `RapidGap`, `HoldToAuto` and
`InputTimeout` of one, so that clicks, rapid and held fire and expired frames
occur; queues of one and two frames overflow within the runs. Two accepted shots need a
release, a press, a release and a press, hence four frames in the profile `Clicking`; `Reopening`
has two gates and lost bytes, `Refereed` a permission that is taken away. Deadlock is not checked:
the runs end when the bounds are used up.

## 6. The boards

### The link: `Interboard`

The gimbal board and the chassis board of `applications/` each run one loop that polls
its `InterBoardEndpoint` and acts on the snapshot. `Interboard` holds both, with the
link inside each endpoint, the publisher of `operator_controls.hpp`, and a serial line that delays
batches, loses them and corrupts single frames. Either board may reboot at any time, while the other
keeps what it has received, published and prepared.

| TLA+ | code |
|---|---|
| `gimbal`, `chassis` | the two loops: the link (`InterBoardLink`), the retained values and baselines of the endpoint, the publisher or the consumer |
| `downlink`, `uplink` | the batch on its way to either board |
| `unheard`, `obeyed` | not program state: how long ago the remote was heard with the gate open; the clear events a boot has obeyed |

Clocks of two boards are never compared, so a stamp is kept as its age in ticks of the loop, and
`Old` stands for every age past the time limits. Three profiles, one per stream
of authority (the right to run, chassis commands, big-yaw requests), keep the streams apart: they
share the heartbeat and the boots and nothing else.

Properties. `RunIsLeased`: when the chassis acts on a grant, the remote was heard with an open gate
no longer ago than the time limit and the way of the line, however often the value is repeated, and
the grant belongs to this boot of the chassis. It adds up three ages kept in three places.
`MotionPostdatesContact`: nothing decided before a reconnection moves. `ClearsOnce`: a gesture that
clears the emergency stop clears it for one boot only. `RevokedStaysRevoked`: the producer repeats a
revoked request under the same sequence; no late frame enables it again.

Bounds: three boots, one clear gesture, sequences up to two; time limits of three ticks for clear events,
which must outlive the round trip of a heartbeat, and of one for the other two streams, a line that delays chassis commands by up to one tick; a stale batch of one boot, its successor and a
second successor then exist at the same time.

### The gimbal board: `VehicleBench`

The execution thread of `vehicle_bench.hpp` owns the gate; the communication thread below it copies
the gate, reports a lost or rebooted peer through `operator_revoked`, and submits permission and
big-yaw requests. A whole cycle of the execution thread may fall between any two of its steps.

`RevocationIsPrompt`: the loss of the peer closes the gate by the second pass.
`RequestIsAsOld`: a forwarded target keeps the age of the frame it came from. The stronger statement of
`operator_controls.hpp:8`, that a reboot or loss of the peer revokes the gate (`RevokedIsClosed`: no control
permits to run until the operator has opened the gate again), does *not* hold: the thread may copy the open gate, be
interrupted by the cycle that closes it and lowers the flag, and permit the peer once more
(`BenchRevocation`).

### The chassis board: `ChassisBoard`

The other half: the communication thread publishes snapshots of the endpoint; a cycle of `run()` moves
the big yaw or the wheels by what it finds, or by what it cached while the console or an exercise of
`SampleDiagnostics` pauses the inputs or the execution. `MovesInTime`: whatever is paused, what moves was asked for
within the sum of the ages. `OrdersAreOfThisBoot`: nothing asked for by one boot of the gimbal board moves under
another. This one depends on the time the operator needs to permit to run after a reboot: it holds
when that is longer than the time limit of a command (`Arm = 2`, `CommandTimeout = 1`), and TLC shows a
violation with `Arm = 1`.

Left out: the speeds and power (in `Chassis`), the boots of the receiver (in `Interboard`), how long
an exercise waits. The console pauses one thing at a time. The communication thread may be arbitrarily late.

## 7. The ports

`MCPorts` holds the drivers and codecs that end a wire and one motor loop. They do not
interact, so one run serves all: the initial state chooses a *rig*, the
module that takes every step of the behaviour. Each rig is an INSTANCE whose variables are the
shared `v1` … `v12` in the order in which the module declares them; those it leaves
are `Unused`. The combined properties of `MCPorts` name for each rig the properties of its module; each
part of a conjunction was seen to fail under a change of its own, though `PROJECT.json` lists one mutant per
property.

| module | models | bounds in the run | properties |
|---|---|---|---|
| `CanTransport` | `service()`, `read()`, `send()`, the callbacks of `can_interboard_transport.cpp` and its recovery; the peer, which sends fragments of other batches too | two fragments of two pieces, batches up to 3, ring of 2, one fault | `FrameIsRetired` (the one frame and callback context are not used twice), `SendsInOrder`, and the refinement of `BatchStream`: whole batches in order, or an announced gap |
| `Rs485Grant` | the grants of coordinator and responder, late service, reboots of both | window 7, turnaround 1, silence 9, latency 2, two reboots | `NoCollision`, `RepliesWhenGranted` |
| `DmImuCan`, `DmImuRs485` | the two sources of the DM inertial unit: requests, recovery, a reset of the reference while reports are on the wire, in the controller or queued | one zero, one upset, queues of 2 | `RequestIsRetired`, `EpochIsTrue`, `PublishesOfThisStart`, `ReplyIsOfItsEpoch` |
| `FrameScanner` | the scan shared in form by the inertial unit, referee, vision and interboard parsers: five configurations | streams of 6 symbols, chunks of 2, frames of 3 and 5 | `FramesAreGenuine`, `NoFrameIsHidden`, `FramesAreTimely` |
| `ImuHeating` | the heater, the thread that feeds it, a sensor that stops answering and a PWM that refuses | fresh for 2, late by 2, two failures | `HotIsOff`, `StatusIsTrue` |
| `Servo` | one DJI motor's angle and rate from its encoder, position and velocity controllers with generations, ramp and integral | 8 ticks a turn, 4 periods, two reseeds, two enablings | `PositionIsTrue`, `LocalIsTheAngle`, `RateIsTrue`, `EffortIsOfItsReference`, `RampIsFromRest`, `WindsNoFurther` |
| `MotorFrames` | encoding and decoding of both motor protocols, the topology check, what shares an identifier | configurations and commands of `WireSamples` | `EachHearsItsOwn`, `ReportsAreOfTheirDrive` |
| `InterboardCodec` | every payload of the link, byte by byte, and the checks of its decoder | messages of `WireSamples`; any byte may be of another build | `MeaningIsKept`, `NothingIsOverlooked` |

How sensitive these results are. `NoCollision` holds for `Latency` up to 4 and fails at 5, or
with `Silence = 5`: the margins of the configuration are used up there. `EpochIsTrue` needs `WireLatency <= ResponseTimeout`,
`ReplyIsOfItsEpoch` needs `ReplyLatency <= ReplyTimeout - 1` ms: a late reply of the same register
cannot be told from a new one. These conditions are named assumptions of `MCPorts`, and the proofs of section 10 show that they suffice.
`HotIsOff` bounds the time by `FreshFor + MaxLate`, the least that holds, and `MaxBatch = 3` is
what makes the ring overflow with a batch still to come. `MaxChunk = 1` reaches the same states as 2. Parsers that drop one
byte at a time have no bound on the span of a frame, so `FramesAreTimely` speaks of those that drop all. `RateIsTrue` needs that the shaft turns less than
half a turn between the frames that two updates use (`LoopAssumption`); at `Ticks = 6` it fails by
aliasing, as it must. `ImuHeater::init()` failing records a duty of 0 though the PWM is
unknown; the model starts behind it. An MIT command at full scale of position,
velocity and both gains is byte for byte a special frame; `EachHearsItsOwn` excepts exactly that (`AtTheEndOf`).
A command of zero is encoded as raw 2047, slightly below zero; `AsOrdered` allows a thousandth of the range and one bit.

Abstractions of `Servo`: integer arithmetic, rates in half ticks, no gravity term, one producer of targets, no
first reseed; the branch for uninitialised PIDs is unreachable.

## 8. The mechanisms

`MCVehicle` is built like `MCPorts`: its rigs are the mechanisms of a vehicle, with `VehicleBench` and `ChassisBoard` of section 6
and the arbiter.

| module | models | properties |
|---|---|---|
| `Shooter` | `update()` of the shooter: dial modes, phase origin, reservations by heat, jam and brake timers, latch; the dial it turns. Snapshots of the motor are taken three times a cycle, between which feedback may be lost or the drive become active | `IndexesAreReserved`: the dial never passes a round that was not reserved before it moved, however firing stops; `FiresNowOrNever`; `EffortIsOfThisCycle`; `JamIsNoticed` |
| `GimbalAxis` | one axis, its position controller and the coordinate of its motor, with up to four snapshots in a cycle | `EffortIsInItsReference`, `CatchesUpNothing`, `KeepsHeldAngle`, `LimitsAreCalibrated` |
| `HeadAim` | `InertialGimbalAdapter` and `YawCentering`: a goal in the frame of an inertial unit that may restart, the big yaw that follows | `AimsInOneFrame`, `ForgetsReleased`, `FollowStartsAtRest` |
| `Chassis` | `ChassisExecutor` with the power limiter and one swerve module | `PowerIsBudgeted`, `PowerRampsUp`, `EffortIsOfItsEnabling` |
| `Arbiter`, `ManualMapper` | `CommandArbiter`, fed by the link of the camera; the manual mapping of three input profiles | `TargetsAreOfThisEntry`: the gimbal follows only targets given after the operator handed over; `FireIsAimed` |

Abstractions. `Shooter`: cycles of one length, the heat model is a free number of rounds per cycle, the dial
decelerates at least as configured and does not overshoot a position, a gap of feedback outlasts coasting, the 64th
reservation is not reached, the timeout of the brake is not reached in a passing run. `GimbalAxis`: integer angles. `HeadAim`: the pitch goal is the yaw goal without the circle; a local emergency stop
uses `publish()` and leaves the goal, as in the code. `Chassis`: the geometry, angles and the
flip of a module decide the size of an effort alone and are left out. `Arbiter`: regressed clocks and sequences, rate limits and
another reference than the configured one are left out.

Bounds: Shooter: step 5 half units, tolerance 1, speeds 1 and 2, two rounds, clicks and
enablings, one gap; GimbalAxis: reach 2, a limit on either side of zero, two drives and a loss; HeadAim: a circle of six,
two epochs; Chassis: a scale of two steps, two enablings; VehicleBench: two milliseconds and two boots of the
peer; Arbiter: three milliseconds and two targets. Each lets the hazards of its module happen: the mutants that break a
property do so within them.

## 9. The runs

| run | module | instance | question |
|---|---|---|---|
| `DmHandshake` | `MCCanBus` | one DM motor, four callback orders, four protocol generations | do *Active* and *DriveConfirmed* tell the truth through enabling, clearing faults and stopping (`StatesAreTrue`); are types and flags consistent |
| `DmRecovery` | `MCCanBus` | one position-mode DM motor that may fault or lose power, two failures of the bus | frames, callbacks and stops across recovery; is `StopContract` implemented |
| `DjiShared` | `MCCanBus` | two DJI motors in one frame | is every moving frame authorised, is a stopped motor left alone, when a frame serves two motors in different states |
| `Liveness` | `MCCanBus` | one DJI motor, one failure of the bus, `FairSpec` | stops are served, recovery ends |
| `Uart` | `AsyncUart` | queue of two, buffers of two chunks, a wire of four, `FairSpec` | is every gap announced, has memory one owner, do reception and transmission go on (`WorkGoesOn`) |
| `Gate` | `MCCommandGate` | three profiles: clicks over an overflowing queue; gates that close and reopen, with lost bytes; a referee that refuses, with frames that expire | is every accepted shot a press of its own, and without loss one after the boundary; do events die with their gate, does the safe state last |
| `GateOldClick`, `GateFallback` | `MCCommandGate` | as small as shows it | the two disagreements of section 5 |
| `Interboard` | `MCInterboard` | two boards, three profiles, three boots | is the right to run a lease, does nothing old move or clear |
| `Ports` | `MCPorts` | nine rigs of section 7 | does each driver keep what it promises to its reader |
| `Vehicle` | `MCVehicle` | seven rigs of sections 6 and 8 | does each mechanism move only by what is current and permitted |
| `BenchRevocation` | `VehicleBench` | as small as shows it | the disagreement of section 6 |

Deadlock is checked in the runs of the CAN bus, the UART and the boards' link. It is not in `Gate`, `Ports`, `Vehicle` and
the violations, where behaviours end when the bounds are used up. In the two-motor run the action constraint
`OnlyM1IsDisturbed` lets `m2` become active once and stay so while `m1` is
enabled, disabled, loses feedback and sees its command age, with one report queued at a
time; the batch commands `m2` by a plain setpoint and `m1` by an effort computed from its
snapshot, which may be withdrawn after the batch is committed: the properties of one motor depend on the other only by the frame they share, and that happens in
the scenario. Every property has a mutant in `PROJECT.json`: a plausible change to one modelled definition which the
run detects.

## 10. The proofs

Eight modules hold theorems. Each EXTENDS the module it is about and assumes what that module assumes of its
constants, and nothing else where the table does not say so. TLC has checked every inductive invariant before it was proved.

### The CAN bus: `CanBusProofs` and `CanBusStopProofs`

For every set of motors, every valid topology and every limit of a counter (`TopologyAssumption` and
`CounterAssumption`):

| theorem | statement |
|---|---|
| `TypeCorrect` | `Spec => []TypeOK` |
| `MotorsConsistent` | `Spec => []MotorsOK` |
| `FrameIsOwned` | `Spec => []FrameOwnsCallback` |
| `AuthorityHolds` | `Spec => MotionIsAuthorised` |
| `SilentRecovery` | `Spec => []RecoveryIsSilent` |
| `ReportedStopIsQuiet` | `Spec => []StoppedIsQuiet` |
| `StopIsImplemented` | `Spec => StopIsHonoured`, the refinement of `StopContract` |
| `ReportsAreTrue` | `Spec => []StatesAreTrue` |

`TypeOK` is inductive with the facts about `pc` it contains: a captured event implies a positive budget,
and a candidate's stage fits its purpose. The lemmas on `Motor` operators (one per operator, each with
`MotorRecord` and `MotorInv`) carry the type and `MotorsOK` through every action at
once, since actions only replace `motor[m]` by such operators. `FrameOwnsCallback` is
inductive given types and flags. `AuthorityHolds` needs to know what `Build` left
for `Submit` (`SubmitInv`): a motor that the frame moves was captured active, with a
command staged under the generations captured with it; `Submit` then compares those with
the motor as it is. `RecoveryIsSilent` is not inductive alone: an answer queued before
the failure could still make a motor active. `SilenceInv` adds that no queued event is
newer than the bus, that all are older while it recovers, and that the thread
handles feedback and deadlines only while the bus runs.

The theorems about stopping begin with what any step may do to one motor: nothing that matters to stops, or one of a handful of
moves (enable, request to disable, a completion, a status accepted, a probe prepared, and so on), each with
what it changes (`MotorMoves`). `StoppedIsQuiet` then needs two facts beside itself (`StopInv`): by `FlightInv`
the frame in flight stops every motor whose stop it would complete, and once it is sent the wire has heard it; by `StopCandidate`
a frame that `Build` has marked as stopping a motor only stops it, and so does the frame of a motor that was not enabled when it was
captured. The refinement follows step by step: where progress of a motor changes, the step is the one of
`StopContract` that reports it, and `StopInv` gives what that step demands of the wire.

`StatesAreTrue` speaks of the physical drive and needs the order of everything still unread (`TruthInv`). No event
has an order that was not given out yet (`OrderInv`); once the completion of a frame has been seen, events ordered after it agree with the
drive (`CompletionInv`). For each motor, a stop that is waiting, an attempt that is waiting and *Active*
each say what the drive is or which unread events may still be believed (`MotorTruth`). `FollowUp`
takes the lock a second time: what was decided under the first still holds, or the protocol generation read with it has gone
(`FollowTruth`). And what would undo an attempt, a frame that disables or clears a fault, is neither chosen nor encoded
while one waits or the motor is active (`ChosenTruth`, `EncodedTruth`).

### The UART: `AsyncUartProofs`

For every queue depth, buffer size and length of the run:

| theorem | statement |
|---|---|
| `TypeCorrect` | `Spec => []TypeOK` |
| `OneOwner` | `Spec => []DmaHasOneOwner` |
| `GapsAnnounced` | `Spec => NoSilentGap`, the refinement of `GapStream` |

`OneOwner` needs that a driver that is off holds nothing and that between
`startRx()`'s assignments and `uart_rx_enable()` it is off (`OwnerInv`). For
`GapsAnnounced` one must say where the next chunk will come from, with drops and restarts still
on their way: generations never decrease along the queue (`GenerationInv`), places on
the wire increase from the reader to the driver (`OrderInv`), and there is a place
`e` such that what the driver holds ends there without a hole, the chunks of the current
generation end where that begins, and a reader that is up to date stands
directly in front of them (`EndsAt`, `GapInv`). While the receiver is on, `e` is the
end of the wire; while it is off no chunk is of the current generation.

### From the remote to the shot: `CommandGateProofs`

For all profiles, time limits and lengths of the run (`GateAssumption`):

| theorem | statement |
|---|---|
| `TypeCorrect` | `Spec => []TypeOK` |
| `ClicksDieWithTheirGate` | `Spec => []EventsDieWithTheirGate` |
| `SafeStateLasts` | `~ReceiverPreempts /\ Spec => []SafeOutlastsTheGate` |
| `ClicksComeAfterTheirGate` | `~ReceiverPreempts /\ Spec => []ClicksAreNew` |
| `OneShotForAPress` | `Spec => []ShotIsEarned` |

`~ReceiverPreempts` is the default order of priorities (`REMOTE_RX_PRIORITY` 6, `COMMAND_PRIORITY` 5). It is a
hypothesis because the two statements fail under the other order, as section 5 explains; it is a value
of a constant, and `Gate` has it.

All rest on `BaseInv`: the types, that the queue holds the newest frames in their order (`QueueInv`), that what names a
frame or a click names one there has been (`NameInv`), and that nothing is of the future (`TimeInv`). `SessionInv` says that a pending
click was made under the revision the command thread has seen last. `PassInv` is what the order of priorities
gives: during a pass no frame arrives, so that either the gate of the pass is the gate in force, or every frame received so far is
at or before the new boundary. With it `LatchInv`: a Down frame after the boundary is latched until
another gate. `ClicksAreNew` must follow the order in which the gesture sees frames (`OrderInv`): while none was given up,
it has seen them all, or it fell back to an older one, waits for a release, and nothing it can read lies between.

`ShotIsEarned` holds whatever is lost, and needs the frame `k` of the newest click (`ShotInv`). After it the gesture believes
the button up only if it has been up since (`PressInv`); if the gesture fell back behind `k`, it waits for a release and
has no snapshot to read in between; a click published, pending or accepted is `k`, or the button was up between the two (`ClickInv`).

### The link between the boards: `InterboardProofs`

For any number of boots, clear gestures and sequences, and all profiles of streams, time limits and delays
(`InterboardAssumption`):

| theorem | statement |
|---|---|
| `TypeCorrect` | `Spec => []TypeOK` |
| `GrantsAreLeased` | `Spec => []RunIsLeased` |
| `MotionIsCurrent` | `Spec => []MotionPostdatesContact` |
| `RevocationIsFinal` | `Spec => RevokedStaysRevoked` |
| `OneClearPerGesture` | `Spec => ClearsOnce` |

`LeaseInv`: a grant that counts is nowhere younger than the remote frame behind it, in the publisher, in the
endpoint's retained value, on the line and in the link of the other side, where the delay of the line is added. `BindInv`: what permits motion
is addressed to the boot known when it was produced, once the baselines of the endpoint have taken out what is
older; the chassis takes only what is addressed to its own. `RevocationIsFinal` follows from the types and the acceptance of requests alone.
`OneClearPerGesture` needs more than that an event was obeyed: events are ordered by boot and number, they reach the chassis in that order
(`ClearInv`, with `NewestIsLast`, `InOrder`, `Behind`), and one that was obeyed and is addressed to the present boot is the one this
boot remembers. That nobody knows of a boot to come (`KnownInv`) keeps a reboot from making an old event fit.

### The mechanisms and the boards: `VehicleProofs` and `ShooterProofs`

All eight properties of the run `Vehicle`, for every value of the constants that the assumptions of `MCVehicle` admit:

| theorem | statement |
|---|---|
| `RevocationHolds` | `Spec => []RevocationIsPrompt` |
| `RampsStartAtRest` | `Spec => []RampsFromRest` |
| `GoalsStayCurrent` | `Spec => GoalsAreCurrent` |
| `TargetsStay` | `Spec => TargetsStayPut` |
| `ShotsStayMeant` | `Spec => ShotsAreMeant` |
| `EffortsStayCurrent` | `Spec => []EffortsAreCurrent` |
| `NothingIsEverForced` | `Spec => []NothingIsForced` |
| `TypesHold` | `Spec => []TypeOK` |

Most assumptions say that a constant is a natural number. The others are what the code checks or fixes:
`begin()` of the shooter refuses timeouts of zero and a tolerance that is zero or reaches half a step
(`shooter_executor.cpp:37-53`, `GunAssumption`); an operator needs longer to arm his gate than a request lives, 500 ms (`rc_controls.hpp:40`)
against 100 (`vehicle_bench.hpp:68`, `SecondAssumption`); the limits of an axis are angles it can reach (`AxisAssumption`).

Every rig keeps its variables to itself, so each has an inductive invariant of its own, and `RigSteps` puts them together.

- *The gimbal board* (`BoardInv`): a revoked gate is closed, or the flag will close it; once a control has permitted in spite of
  that, it is closed and no pass has read it open. No request is younger than the frame behind it.
- *The chassis board* (`SecondInv`): a request of another boot than the peer's has aged since that booted, or is expired. Because the new
  boot cannot permit anything before its operator has armed, a request of the last boot is too old by then: here the assumption on `Arm` is needed.
- *Head, arbiter, wheel*: a goal kept is of the frame it is kept for, and none is kept once the head was let go (`HeadInv`). The
  arbiter's entry is never before the last own input plus the release time (`WhoInv`). No scale has recovered more than `allowed` says (`WheelInv`).
- *The axis* (`AxisInv`): the epochs that loop, target and effort remember are in order; `broken` says exactly that the present epoch is another;
  the coordinate is off by what one frame of feedback can move, and not at all in a calibrated one. That references are
  bounded by losses (`AxisCounts`) is what makes the type inductive.
- *The shooter* (`GunInv`). That the dial stays within the rounds reserved is not inductive, since it turns on after it was told to stop. `GunStops`
  carries the stopping envelope: the position, and the way the dial still goes as its ramp runs out (`Travel` of its speed and of the `ComingRamp`),
  are within `rounds * Step + Tolerance`. `Lookahead` reserves exactly enough for it to survive an acceleration. `GunJams` says that a
  dial has never been stuck for longer than the jam timer of its mode has run, through changes of mode, losses of feedback
  and arrivals; `GunClicks` that a click offered in a cycle is consumed by the end of it; `GunReferences` that a dial whose
  reference is gone rests and is sent nothing. `update()` is one action of several stages: each stage has a predicate
  (`Going`, `Aiming`, `OnTime`, `Reaching`, `Jams`) that the next one starts from.

### The ends of the wires: `PortsProofs`

Six of the nine rigs of section 7, for every value of the constants that the assumptions of `MCPorts` admit:

| theorem | statement |
|---|---|
| `FramesAreRetired` | `Spec => []BuffersAreRetired` |
| `BatchesArrive` | `Spec => BatchesAreCarried`, with the refinement of `BatchStream` |
| `TheWiresAreShared` | `Spec => WiresAreShared` |
| `TheMeasurementsAreTrue` | `Spec => MeasurementsAreTrue`: orientations, positions, angles and rates |
| `TheLoopsAreBounded` | `Spec => LoopsAreBounded`: the heater and the motor loop |

The assumptions that say more than that a constant is a natural number: a fragmented batch has two fragments at least (`LinkAssumption`);
the longest reply with its turnaround and the margin of `transmit()` fits into a window, as `initialize()` checks,
the silence after a start is no shorter than a window, and no frame waits in a UART longer than the margin and a millisecond more (`WiresAssumption`); no report or reply is under way
longer than its source waits for one (`UnitAssumption`, `SerialAssumption`); a shaft turns less than half a turn between the
frames that two updates of a loop use (`LoopAssumption`). Section 7 says where TLC finds these exact.

- *The transport over CAN* (`LinkInv`). `Ordered` says of everything on its way from the peer to the reader, the fragment
  of the peer, the ring, the batch being assembled, the queue of batches and what the reader was given, that each was sent before what is behind it,
  or a gap lies between the two. Consuming a fragment, overflowing a ring and resetting the receiver each keep that (`ConsumedKeepsOrder`, `HeardKeepsOrder`,
  `DropKeepsOrder`, `GapKeepsOrder`). `LinkSends` ties the frame in the controller to the fragments left.
- *The unit over CAN* (`ImuInv`). Whatever is on the wire, in the ring or at hand was measured in the epoch, or before the moment up to which
  it is ignored (`SinceTheEpoch`); every event is of the present start of the controller.
- *The unit over RS485* (`SerialInv`). A reply that was measured before the zero moved is stamped before the request it could be
  taken to answer is made (`CannotPass`): replies carry no number, only time tells them apart.
- *The pair of wires* (`WiresInv`). Whatever the responder sends, may send for its grant or for the request still in its UART has left the wires when the
  coordinator's deadline or its silence ends (`ReplyOver`); a grant that can still be answered is that of the open request (`GrantIsOpen`).
- *The heater* (`HeatInv`). A temperature that is not too hot is at least as old as the heat, and what is heated was not too hot for longer than
  a measurement is fresh when the heater was updated last.
- *The motor loop* (`LoopInv`). While feedback is fresh the shaft is no further from where it was seen than its age in periods allows, so the shorter way
  between two readings is the way it went (`ShaftIsFollowed`, `ShortestIsTheWay`). What a history measured last, taken back into the coordinate of its
  epoch, is where the shaft was when it was used (`HistoryIsOfTheShaft`); an epoch that has passed cannot come back, because both generations only grow.
  For an absolute encoder, the way since that use and the age of the frame together stay below the periods elapsed and the timeout, hence below half a turn:
  this is what lets an angle, known only to whole turns, be counted on (`AngleTurnsWithTheShaft`). A new origin moves what was measured from it along
  (`RecentredIs`). The limits follow from one lemma for each function of the C library (`PidStepIs`, `SlewedIs`, `VelocityStepIs`, `PositionStepIs`)
  over the integers, for all gains; that a design slows down no faster than it speeds up is used for the ramp and read off the designs tried (`DesignIs`).

### What is only model-checked

- The other three rigs of section 7: `FramesAreTrue` (parsers and codecs), and the types of `Ports`, which include theirs.
- Liveness (`StopIsServed`, `RecoveryEnds`, `WorkGoesOn`): temporal reasoning with fairness and ENABLED is out of the prover's reach.
- What a fold or a recursive function computes for every input, as in the parsers and codecs: it needs induction, whose
  theorems take an operator as a parameter, which no installed prover can instantiate.
- The statements that do not hold (`GateOldClick`, `GateFallback`, `BenchRevocation`): TLC shows the behaviours.

## 11. What is not covered

In the modelled components. CAN bus: `last_fault` and the fault reasons, operation ids, statistics (no
property reads them); encoding errors, which a validated configuration cannot produce; `attach()` to
`start()`. One weakness there is known and has no property, since it changes an order of service and nothing
else: a refused target is put back by incrementing `targets_remaining_` though
`target_cursor_` has moved on (`can_bus.cpp:885`). Command path: registration and start, rate
limits, the console variant in which the key `r` clears the emergency stop before `clear_requested` is looked at.
Boards: telemetry streams, the message index, a `now_ms` of the communication thread that is older than the newest target, which
disables for one period. Parsers: `popFrame()` with its queue and the arithmetic of the CRC. IMU: sampling of the
BMI088, filtering. Shooter: `begin()` and the validation of configurations, the thermal model itself. A continuous axis has no lead
limit in the code (`gimbal_axis.cpp:213`); the model has none either.

Not modelled: `UartInterBoardTransport` (a flag over `AsyncUart`), the motor group (loops over its members),
`VisionReceiver` and the encoding of feedback, the estimators and the matrix library (floating point without protocol state), the kinematics,
`SnapshotCache`, VOFA and the vehicle diagnostics (output), and the samples that assemble one mechanism. With
the default priorities the receive thread is below the command thread; a Kconfig that turns them around is modelled
in `CommandGate` only.
