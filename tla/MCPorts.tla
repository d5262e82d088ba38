------------------------------- MODULE MCPorts -------------------------------
(***************************************************************************)
(* The devices at the end of a wire and the loops closed over them, one of *)
(* which is chosen in the initial state and takes all the steps: its       *)
(* variables are v1, v2 and so on, in the order it declares them.          *)
(***************************************************************************)
EXTENDS Integers, Sequences

CONSTANTS
    RawDepth, Fragments, Pieces, MaxBatch, MaxFaults,
    Window, PollTime, Turnaround, MaxWire, Silence, Latency, MaxReboots,
    ResponseTimeout, RecoveryRetry, MaxRetries, RxDepth, WireLatency, Horizon,
    MaxZeros, MaxSent, MaxUpsets,
    ReplyTimeout, UartRetry, ReplyLatency,
    Short, Long, Timeout, MaxBytes, MaxChunk, MaxTime,
    FreshFor, ControlPeriod, MaxDt, MaxLate, MaxFailures,
    Ticks, Zero, FeedbackTimeout, Recentre, Periods, MaxReference, MaxActive

(* The transport over CAN.  A batch holds a frame of the protocol, which   *)
(* does not fit into one fragment.                                         *)
ASSUME LinkAssumption ==
    /\ RawDepth \in Nat \ {0} /\ Fragments \in Nat \ {0, 1} /\ Pieces \in Nat \ {0}
    /\ MaxBatch \in Nat /\ MaxFaults \in Nat

(* The inertial units.  A report is under way no longer than the source    *)
(* waits for one.                                                          *)
ASSUME UnitAssumption ==
    /\ ResponseTimeout \in Nat /\ RecoveryRetry \in Nat /\ MaxRetries \in Nat
    /\ RxDepth \in Nat \ {0} /\ WireLatency \in Nat /\ WireLatency <= ResponseTimeout
    /\ Horizon \in Nat /\ MaxZeros \in Nat /\ MaxSent \in Nat /\ MaxUpsets \in Nat

(* The parsers.  A frame has a start and a mark at least.                  *)
ASSUME ScannerAssumption ==
    /\ Short \in Nat /\ Long \in Nat /\ 2 <= Short /\ Short <= Long
    /\ Timeout \in Nat /\ MaxBytes \in Nat /\ MaxChunk \in Nat /\ MaxTime \in Nat

(* The inertial unit over RS485.  A reply is under way less long than the  *)
(* source waits for one.                                                   *)
ASSUME SerialAssumption ==
    /\ ReplyTimeout \in Nat /\ UartRetry \in Nat
    /\ ReplyLatency \in Nat /\ ReplyLatency < ReplyTimeout

(* The heater.                                                             *)
ASSUME HeatAssumption ==
    FreshFor \in Nat /\ ControlPeriod \in Nat /\ MaxDt \in Nat /\ MaxLate \in Nat /\ MaxFailures \in Nat

VARIABLES
    rig, \* the module that takes steps
    v1, v2, v3, v4, v5, v6, v7, v8, v9, v10, v11, v12

CanLink == INSTANCE CanTransport WITH
    raw <- v1, partial <- v2, ready <- v3, given <- v4, mode <- v5, tx <- v6, tx_done <- v7,
    pc <- v8, hw <- v9, peer <- v10, handed <- v11, faults <- v12
Rs485 == INSTANCE Rs485Grant WITH
    coordinator <- v1, responder <- v2, request <- v3, reply <- v4, reboots <- v5

(* initialize() refuses a window that does not hold the longest reply; a   *)
(* window is 1000 ms at most, and the silence 1002.  What a frame may wait *)
(* in the UART is what transmit() leaves of the window.                    *)
ASSUME WiresAssumption ==
    /\ Window \in Nat /\ PollTime \in Nat /\ Turnaround \in Nat /\ MaxWire \in Nat
    /\ MaxWire + Turnaround + Rs485!Margin < Window /\ Window <= Silence /\ Silence \in Nat
    /\ Latency \in Nat /\ Latency <= Rs485!Margin + 1 /\ MaxReboots \in Nat

CanImu == INSTANCE DmImuCan WITH
    now <- v1, imu <- v2, epoch <- v3, ask <- v4, imu_tx <- v5, reports <- v6, report <- v7,
    busy <- v8, bus <- v9, unit <- v10
Rs485Imu == INSTANCE DmImuRs485 WITH
    now <- v1, session <- v2, query <- v3, serial <- v4, service <- v5, sensor <- v6,
    attitude <- v7, upsets <- v8
Scanner == INSTANCE FrameScanner WITH
    parser <- v1, clock <- v2, stream <- v3, buffer <- v4, started <- v5, frames <- v6,
    given_up <- v7
Heating == INSTANCE ImuHeating WITH
    die <- v1, source <- v2, worker <- v3, heater <- v4, pwm <- v5, recorded <- v6, failures <- v7

(* The configurations of a loop: one of each way to measure a position, a  *)
(* velocity loop with filters, a band and feedforward, and one configure() *)
(* refuses.                                                                *)
Outer == [kp |-> 1, ki |-> 0, kd |-> 1, tau |-> 0, deadband |-> 0, integral |-> 0, limit |-> 2]
Inner == [kp |-> 1, ki |-> 1, kd |-> 0, tau |-> 0, deadband |-> 0, integral |-> 2, limit |-> 2]
Plain == [kind |-> "StartupRelative", pos |-> Outer, vel |-> Inner, rising |-> 1, falling |-> 1,
          tau |-> 0, soft |-> 0, requested |-> 2, dt_min |-> 1, dt_max |-> 2, effort |-> 2, available |-> 2,
          k_static |-> 0, k_velocity |-> 0, k_acceleration |-> 0]
Designs ==
    {Plain, [Plain EXCEPT !.kind = "AbsoluteNearest"],
     [Plain EXCEPT !.kind = "Velocity", !.vel.tau = 1, !.vel.deadband = 1, !.tau = 1, !.soft = 1,
                   !.k_static = 1, !.k_velocity = 1, !.k_acceleration = 1],
     [Plain EXCEPT !.kind = "DriverContinuous", !.requested = 1]}

Loop == INSTANCE Servo WITH
    design <- v1, periods <- v2, motor <- v3, shaft <- v4, elapsed <- v5, servo <- v6, output <- v7,
    phase <- v8, computed <- v9, staged <- v10, truth <- v11, Timeout <- FeedbackTimeout,
    Horizon <- Periods, Targets <- {-3, 2}, Seeds <- {0}

(* A shaft turns less than half a turn from the feedback an update() uses  *)
(* to that of the next, at the most two periods later.                     *)
ASSUME LoopAssumption ==
    /\ Ticks \in Nat /\ Ticks % 2 = 0 /\ Zero \in Nat /\ FeedbackTimeout \in Nat
    /\ FeedbackTimeout + 2 < Ticks \div 2
    /\ Recentre \in Nat /\ Periods \in Nat /\ MaxReference \in Nat \ {0} /\ MaxActive \in Nat

Samples == INSTANCE WireSamples
Drives == INSTANCE MotorFrames WITH
    motors <- v1, bus <- v2, staged <- v3, frame <- v4, heard <- v5, taken <- v6,
    Buses <- Samples!Buses, Orders <- Samples!Orders, Reports <- Samples!DriveReports
Messages == INSTANCE InterboardCodec WITH
    message <- v1, frame <- v2, received <- v3, Messages <- Samples!BoardMessages,
    Sequences <- {<<90, 91, 92, 93>>}, Others <- {0, 1, 2, 7, 127, 255}

vars == <<rig, v1, v2, v3, v4, v5, v6, v7, v8, v9, v10, v11, v12>>

(* The variables a module leaves are not used.                             *)
free12 == <<v12>>
free11 == <<v11, free12>>
free9  == <<v9, v10, free11>>
free8  == <<v8, free9>>
free7  == <<v7, free8>>
free6  == <<v6, free7>>
free4  == <<v4, v5, free6>>

Unused == "Unused"
Free12 == v12 = Unused
Free11 == v11 = Unused /\ Free12
Free9  == v9 = Unused /\ v10 = Unused /\ Free11
Free8  == v8 = Unused /\ Free9
Free7  == v7 = Unused /\ Free8
Free6  == v6 = Unused /\ Free7
Free4  == v4 = Unused /\ v5 = Unused /\ Free6

Init ==
    /\ rig \in {"CanLink", "Rs485", "CanImu", "Rs485Imu", "Scanner", "Heating", "Loop", "Drives",
               "Messages"}
    /\ rig = "CanLink" => CanLink!Init
    /\ rig = "Rs485" => Rs485!Init /\ Free6
    /\ rig = "CanImu" => CanImu!Init /\ Free11
    /\ rig = "Rs485Imu" => Rs485Imu!Init /\ Free9
    /\ rig = "Scanner" => Scanner!Init /\ Free8
    /\ rig = "Heating" => Heating!Init /\ Free8
    /\ rig = "Loop" => Loop!Init /\ Free12
    /\ rig = "Drives" => Drives!Init /\ Free7
    /\ rig = "Messages" => Messages!Init /\ Free4

Next ==
    \/ rig = "CanLink" /\ CanLink!Next /\ UNCHANGED rig
    \/ rig = "Rs485" /\ Rs485!Next /\ UNCHANGED <<rig, free6>>
    \/ rig = "CanImu" /\ CanImu!Next /\ UNCHANGED <<rig, free11>>
    \/ rig = "Rs485Imu" /\ Rs485Imu!Next /\ UNCHANGED <<rig, free9>>
    \/ rig = "Scanner" /\ Scanner!Next /\ UNCHANGED <<rig, free8>>
    \/ rig = "Heating" /\ Heating!Next /\ UNCHANGED <<rig, free8>>
    \/ rig = "Loop" /\ Loop!Next /\ UNCHANGED <<rig, free12>>
    \/ rig = "Drives" /\ Drives!Next /\ UNCHANGED <<rig, free7>>
    \/ rig = "Messages" /\ Messages!Next /\ UNCHANGED <<rig, free4>>

Spec == Init /\ [][Next]_vars

-----------------------------------------------------------------------------
(* The type invariant of the module that takes steps.                      *)
TypeOK ==
    /\ rig = "CanLink" => CanLink!TypeOK
    /\ rig = "Rs485" => Rs485!TypeOK
    /\ rig = "CanImu" => CanImu!TypeOK
    /\ rig = "Rs485Imu" => Rs485Imu!TypeOK
    /\ rig = "Scanner" => Scanner!TypeOK
    /\ rig = "Heating" => Heating!TypeOK
    /\ rig = "Loop" => Loop!TypeOK
    /\ rig = "Drives" => Drives!TypeOK
    /\ rig = "Messages" => Messages!TypeOK

(* A frame given to a CAN driver, a fragment of the transport or a request *)
(* to the inertial unit, is not used again before its callback.            *)
BuffersAreRetired ==
    /\ rig = "CanLink" => CanLink!FrameIsRetired
    /\ rig = "CanImu" => CanImu!RequestIsRetired

(* The transport over CAN carries batches: the controller is handed their  *)
(* fragments in order, each once, and whatever is lost, late, foreign or   *)
(* reset, the end of one batch is never joined to a part of another.       *)
Delivered == IF rig = "CanLink" THEN v4 ELSE [batch |-> 0, piece |-> Pieces, told |-> FALSE]
Reader    == INSTANCE BatchStream WITH batch <- Delivered.batch, piece <- Delivered.piece, told <- Delivered.told
BatchesAreCarried == [][rig = "CanLink" => CanLink!SendsInOrder]_vars /\ Reader!Spec

(* The two ends of the RS485 pair never drive it at once, and the          *)
(* responder speaks only to the request that is open.                      *)
WiresAreShared ==
    /\ [](rig = "Rs485" => Rs485!NoCollision)
    /\ [][rig = "Rs485" => Rs485!RepliesWhenGranted]_vars

(* An orientation, over CAN or RS485, was measured in the epoch it is      *)
(* published in, and a fault of the controller leaves no report behind; a  *)
(* position is where the shaft is and a rate how fast it got there, across *)
(* the seam of the encoder, a gap and a new origin.                        *)
MeasurementsAreTrue ==
    /\ [](rig = "CanImu" => CanImu!EpochIsTrue)
    /\ [](rig = "Rs485Imu" => Rs485Imu!ReplyIsOfItsEpoch)
    /\ [](rig = "Loop" => Loop!PositionIsTrue /\ Loop!LocalIsTheAngle)
    /\ [][rig = "CanImu" => CanImu!PublishesOfThisStart]_vars
    /\ [][rig = "Loop" => Loop!RateIsTrue]_vars

(* What the parsers deliver are frames of the stream, in order and in      *)
(* time, and they lose no frame to what comes before it.  A message is     *)
(* taken as it was meant and wholly looked at, a frame of a motor bus is   *)
(* heard by the drives it is for, and a report taken by the motor it is    *)
(* of.                                                                     *)
FramesAreTrue ==
    /\ rig = "Scanner" => Scanner!FramesAreGenuine /\ Scanner!NoFrameIsHidden /\ Scanner!FramesAreTimely
    /\ rig = "Drives" => Drives!EachHearsItsOwn /\ Drives!ReportsAreOfTheirDrive
    /\ rig = "Messages" => Messages!MeaningIsKept /\ Messages!NothingIsOverlooked

(* A unit that is too hot is not heated for long, and the duty reported is *)
(* what the PWM puts out.  The effort of a motor is of the coordinate it   *)
(* is in, what is asked of it grows from rest, and no integral grows       *)
(* against a limit.                                                        *)
LoopsAreBounded ==
    /\ [](rig = "Heating" => Heating!HotIsOff /\ Heating!StatusIsTrue)
    /\ [](rig = "Loop" => Loop!EffortIsOfItsReference /\ Loop!RampIsFromRest)
    /\ [][rig = "Loop" => Loop!WindsNoFurther]_vars
=============================================================================
