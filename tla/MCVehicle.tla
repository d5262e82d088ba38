------------------------------ MODULE MCVehicle ------------------------------
(***************************************************************************)
(* The mechanisms of a vehicle and the two boards that command them, one   *)
(* of which is chosen in the initial state and takes all the steps: its    *)
(* variables are v1, v2 and so on, in the order it declares them.          *)
(***************************************************************************)
EXTENDS Integers

CONSTANTS
    Step, Tolerance, Speeds, Dwell, Settle, Jam, Brake, MaxRounds, MaxClicks, MaxGaps, MaxEnables,
    Reach, MaxDown, MaxAngle, MaxRate, MaxLead, MaxRequest, MaxLosses, MaxDrives,
    HalfTurn, MaxTurn, MaxCycle, MaxEpochs, CentreBand, Hysteresis, MaxFollow, Acceleration,
    Full, Recovery, MaxEnablings,
    CommandTimeout, MaxUptime, MaxPeerBoot,
    PermissionTimeout, EffortTimeout, Latency, Arm, MaxBoots,
    Profiles, VisionTimeout, Release, Late, MaxTime, MaxAims

(* The shooter.  begin() refuses timeouts of zero, a tolerance of zero and *)
(* one that reaches half a step; the fastest command has a speed.          *)
ASSUME GunAssumption ==
    /\ Step \in Nat /\ Tolerance \in Nat \ {0} /\ 2 * Tolerance < Step
    /\ Speeds \subseteq Nat /\ \E v \in Speeds : \A w \in Speeds : w <= v
    /\ Dwell \in Nat /\ Settle \in Nat \ {0} /\ Jam \in Nat \ {0} /\ Brake \in Nat
    /\ MaxRounds \in Nat /\ MaxClicks \in Nat /\ MaxGaps \in Nat /\ MaxEnables \in Nat

(* The gimbal board.  Uptime begins at 1.                                  *)
ASSUME BoardAssumption ==
    CommandTimeout \in Nat /\ MaxUptime \in Nat \ {0} /\ MaxPeerBoot \in Nat

(* The chassis board.  neutral_arm_ms is 500, kCommandTimeoutMs is 100: an *)
(* operator arms the gate for longer than a request is fresh.              *)
ASSUME SecondAssumption ==
    /\ PermissionTimeout \in Nat /\ EffortTimeout \in Nat /\ Latency \in Nat /\ Arm \in Nat
    /\ MaxBoots \in Nat \ {0}
    /\ Arm > CommandTimeout

(* The chassis. *)
ASSUME WheelAssumption ==
    Full \in Nat /\ Recovery \in Nat /\ MaxGaps \in Nat /\ MaxEnablings \in Nat

(* The head. *)
ASSUME HeadAssumption ==
    /\ HalfTurn \in Nat /\ MaxTurn \in Nat /\ MaxCycle \in Nat /\ MaxEpochs \in Nat \ {0}
    /\ CentreBand \in Nat /\ Hysteresis \in Nat /\ MaxFollow \in Nat /\ Acceleration \in Nat

(* The arbiter. *)
ASSUME WhoAssumption ==
    VisionTimeout \in Nat /\ Release \in Nat /\ MaxTime \in Nat /\ MaxAims \in Nat

(* The axis.  Its limits are angles the joint can reach.                   *)
ASSUME AxisAssumption ==
    /\ Reach \in Nat /\ MaxDown \in 0 .. Reach /\ MaxAngle \in 0 .. Reach
    /\ MaxRate \in Nat /\ MaxLead \in Nat /\ MaxRequest \in Nat
    /\ MaxLosses \in Nat /\ MaxDrives \in Nat

VARIABLES
    rig, \* the module that takes steps
    v1, v2, v3, v4, v5, v6, v7, v8, v9, v10, v11, v12

Gun == INSTANCE Shooter WITH
    turn <- v1, click <- v2, gun <- v3, dial <- v4, shown <- v5, stuck <- v6
Axis == INSTANCE GimbalAxis WITH
    topology <- v1, axis_turn <- v2, axis <- v3, loop <- v4, effort <- v5, joint <- v6,
    broken <- v7, framed <- v8
Head == INSTANCE HeadAim WITH
    head <- v1, goal <- v2, since <- v3, aim <- v4, follow <- v5, released <- v6, ramp <- v7
Wheel == INSTANCE Chassis WITH
    leg <- v1, wheel <- v2, seen <- v3, swerve <- v4, limiter <- v5, stage <- v6, allowed <- v7,
    ramped <- v8
Board == INSTANCE VehicleBench WITH
    uptime <- v1, remote <- v2, operator <- v3, execution <- v4, posted <- v5, revoked <- v6,
    comm <- v7, publisher <- v8, peer <- v9, submitted <- v10, withdrawn <- v11, excess <- v12
Second == INSTANCE ChassisBoard WITH
    build <- v1, peer <- v2, link <- v3, snap <- v4, exercise <- v5, cached <- v6, known <- v7,
    drive <- v8

Mapper  == INSTANCE ManualMapper
Intents == Mapper!Intents

Who == INSTANCE Arbiter WITH
    profile <- v1, time <- v2, link <- v3, sampled <- v4, arbiter <- v5, decision <- v6,
    record <- v7

vars == <<rig, v1, v2, v3, v4, v5, v6, v7, v8, v9, v10, v11, v12>>

(* The variables a module leaves are not used.                             *)
free9  == <<v9, v10, v11, v12>>
free8  == <<v8, free9>>
free7  == <<v7, free8>>

Unused == "Unused"
Free9  == v9 = Unused /\ v10 = Unused /\ v11 = Unused /\ v12 = Unused
Free8  == v8 = Unused /\ Free9
Free7  == v7 = Unused /\ Free8

Init ==
    /\ rig \in {"Gun", "Axis", "Head", "Wheel", "Board", "Second", "Who"}
    /\ rig = "Gun" => Gun!Init /\ Free7
    /\ rig = "Axis" => Axis!Init /\ Free9
    /\ rig = "Head" => Head!Init /\ Free8
    /\ rig = "Wheel" => Wheel!Init /\ Free9
    /\ rig = "Board" => Board!Init
    /\ rig = "Second" => Second!Init /\ Free9
    /\ rig = "Who" => Who!Init /\ Free8

Next ==
    \/ rig = "Gun" /\ Gun!Next /\ UNCHANGED <<rig, free7>>
    \/ rig = "Axis" /\ Axis!Next /\ UNCHANGED <<rig, free9>>
    \/ rig = "Head" /\ Head!Next /\ UNCHANGED <<rig, free8>>
    \/ rig = "Wheel" /\ Wheel!Next /\ UNCHANGED <<rig, free9>>
    \/ rig = "Board" /\ Board!Next /\ UNCHANGED rig
    \/ rig = "Second" /\ Second!Next /\ UNCHANGED <<rig, free9>>
    \/ rig = "Who" /\ Who!Next /\ UNCHANGED <<rig, free8>>

Spec == Init /\ [][Next]_vars

-----------------------------------------------------------------------------
(* The type invariant of the module that takes steps.                      *)
TypeOK ==
    /\ rig = "Gun" => Gun!TypeOK
    /\ rig = "Axis" => Axis!TypeOK
    /\ rig = "Head" => Head!TypeOK
    /\ rig = "Wheel" => Wheel!TypeOK
    /\ rig = "Board" => Board!TypeOK
    /\ rig = "Second" => Second!TypeOK
    /\ rig = "Who" => Who!TypeOK

(* The shooter fires what the operator asks for now: a click fires in the  *)
(* cycle it is first offered in or never, the dial does not pass the       *)
(* rounds that were reserved before it moved, and nothing fires unless     *)
(* somebody aims.                                                          *)
ShotsAreMeant ==
    /\ [](rig = "Who" => Who!FireIsAimed)
    /\ [](rig = "Gun" => Gun!IndexesAreReserved)
    /\ [][rig = "Gun" => Gun!FiresNowOrNever]_vars

(* What a motor is sent was computed for the cycle, the enabling and the   *)
(* coordinate it is in, by the shooter, the gimbal and the chassis alike.  *)
EffortsAreCurrent ==
    /\ rig = "Gun" => Gun!EffortIsOfThisCycle
    /\ rig = "Axis" => Axis!EffortIsInItsReference
    /\ rig = "Wheel" => Wheel!EffortIsOfItsEnabling

(* No mechanism is driven against a stop: a dial that does not move is     *)
(* stopped after the jam timeout, and a limited axis moves only by a       *)
(* coordinate that was calibrated.                                         *)
NothingIsForced ==
    /\ rig = "Gun" => Gun!JamIsNoticed
    /\ rig = "Axis" => Axis!LimitsAreCalibrated

(* The target of an axis restarts where the joint is after an              *)
(* interruption, and does not move while it is told to hold.               *)
TargetsStayPut == [][rig = "Axis" => Axis!CatchesUpNothing /\ Axis!KeepsHeldAngle]_vars

(* The head is aimed only at goals of the frame its unit measures in, and  *)
(* at none from before it was let go; the camera's are followed only from  *)
(* when the operator handed over to it.                                    *)
GoalsAreCurrent ==
    /\ [](rig = "Who" => Who!TargetsAreOfThisEntry)
    /\ [][rig = "Head" => Head!AimsInOneFrame /\ Head!ForgetsReleased]_vars

(* The big yaw and the wheels start from rest, and no wheel is given more  *)
(* power than the cycle allows.                                            *)
RampsFromRest ==
    /\ rig = "Head" => Head!FollowStartsAtRest
    /\ rig = "Wheel" => Wheel!PowerRampsUp /\ Wheel!PowerIsBudgeted

(* The loss of the other board closes the gate by the second pass, and no  *)
(* request is younger than the frame of the remote it came from; what the  *)
(* other board moves was asked for that recently, and by the boot it       *)
(* knows.                                                                  *)
RevocationIsPrompt ==
    /\ rig = "Board" => Board!RevocationIsPrompt /\ Board!RequestIsAsOld
    /\ rig = "Second" => Second!MovesInTime /\ Second!OrdersAreOfThisBoot
=============================================================================
