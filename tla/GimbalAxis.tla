----------------------------- MODULE GimbalAxis ------------------------------
(***************************************************************************)
(* One axis of lib/robotics/gimbal_executor.cpp: lib/robotics/             *)
(* gimbal_axis.cpp, the PositionMotor of lib/control/motor_control.cpp     *)
(* under it and the coordinate drivers/motor/motor.cpp keeps.  The two     *)
(* axes of an executor share nothing but its gates.                        *)
(*                                                                         *)
(* One update() reads the motor up to four times: when poll() decides to   *)
(* calibrate (Poll), in reseedPosition() (Reseed), for the target (Look)   *)
(* and in the controller (Drive).  Frames, losses of feedback and changes  *)
(* of the drive fall between any two.                                      *)
(*                                                                         *)
(* Angles are integers and the cycle is the unit of time.  A Limited axis  *)
(* turns an angle counted from frame to frame, which is true only when it  *)
(* was seeded from the drive's own; a Continuous one the absolute angle of *)
(* its encoder, on the circle.                                             *)
(***************************************************************************)
EXTENDS Integers

CONSTANTS
    Reach,       \* the joint turns from -Reach to Reach
    MaxDown, MaxAngle, \* min_angle_rad is -MaxDown
    MaxRate,     \* max_rate_rad_s, per cycle
    MaxLead,     \* max_lead_rad
    MaxRequest,  \* bound on the rates a command asks for
    MaxLosses,   \* bound on the losses of feedback
    MaxDrives    \* bound on enable_generation

VARIABLES
    topology,    \* config_.topology
    axis_turn,   \* the read of the execution thread that is next
    axis,        \* members of GimbalAxis, and what poll() read
    loop,        \* history of the PositionMotor
    effort,      \* the computed effort staged
    joint,       \* the motor's snapshot, and the joint
    broken,      \* the axis has been interrupted since its target was set
    framed       \* a frame has arrived since the last read

vars == <<topology, axis_turn, axis, loop, effort, joint, broken, framed>>

Angles    == -Reach .. Reach
MinAngle  == -MaxDown
Rates     == -MaxRequest .. MaxRequest
Modes     == {"Hold", "Rate", "AbsoluteAngle"}
Abs(a)    == IF a < 0 THEN -a ELSE a
Within(a, low, high) == IF a < low THEN low ELSE IF a > high THEN high ELSE a
Wrap(a)   == ((a + Reach) % (2 * Reach + 1)) - Reach
NoLoop    == [live |-> FALSE, enable |-> 0, reference |-> 0]
NoEffort  == [kind |-> "None", loop |-> NoLoop, target |-> NoLoop]
Epoch(j)  == [live |-> TRUE, enable |-> j.enable, reference |-> j.reference]
Withdrawn(a) == [a EXCEPT !.target = 0, !.of = NoLoop, !.mode = "Disabled"]

Epochs == [live : BOOLEAN, enable : 0 .. MaxDrives, reference : 0 .. 4 * MaxLosses + 2]

TypeOK ==
    /\ topology \in {"Limited", "Continuous"}
    /\ axis_turn \in {"Poll", "Reseed", "Look", "Drive", "Sleep"}
    /\ axis \in [target : Angles, of : Epochs, mode : Modes \cup {"Disabled"},
                 seeded : BOOLEAN, known : Angles, dt : 0 .. 1]
    /\ topology = "Limited" /\ axis.of.live => axis.target \in MinAngle .. MaxAngle
    /\ loop \in Epochs
    /\ effort \in [kind : {"None", "Zero", "Position"}, loop : Epochs, target : Epochs]
    /\ joint \in [true : Angles, seen : Angles, origin : -2 * Reach .. 2 * Reach,
                  fresh : BOOLEAN, valid : BOOLEAN, reference : 0 .. 4 * MaxLosses + 2,
                  wanted : BOOLEAN, active : BOOLEAN, enable : 0 .. MaxDrives, losses : 0 .. MaxLosses]
    /\ broken \in BOOLEAN
    /\ framed \in BOOLEAN

(* The first frame makes the angle it is taken at the origin.              *)
Init ==
    /\ topology \in {"Limited", "Continuous"}
    /\ axis_turn = "Poll"
    /\ axis = [target |-> 0, of |-> NoLoop, mode |-> "Disabled", seeded |-> FALSE, known |-> 0, dt |-> 0]
    /\ loop = NoLoop
    /\ effort = NoEffort
    /\ \E start \in Angles :
          joint = [true |-> start, seen |-> start, fresh |-> TRUE, valid |-> TRUE,
                   origin |-> IF topology = "Limited" THEN -start ELSE 0, reference |-> 0, wanted |-> FALSE, active |-> FALSE, enable |-> 0, losses |-> 0]
    /\ broken = TRUE
    /\ framed = FALSE

-----------------------------------------------------------------------------
(* GimbalExecutor::update().                                               *)

ToTurn(t) == axis_turn' = t /\ framed' = FALSE

(* suspend(), from any of the gates. *)
Suspend ==
    /\ axis_turn = "Poll"
    /\ axis' = Withdrawn(axis)
    /\ loop' = NoLoop
    /\ effort' = NoEffort
    /\ joint' = [joint EXCEPT !.wanted = FALSE, !.active = FALSE]
    /\ broken' = TRUE
    /\ ToTurn("Sleep")
    /\ UNCHANGED topology

Calibrates == topology = "Limited" /\ (~axis.seeded \/ ~joint.valid) /\ joint.fresh

Poll ==
    /\ axis_turn = "Poll"
    /\ joint' = [joint EXCEPT !.wanted = TRUE]
    /\ \/ Calibrates /\ axis' = [axis EXCEPT !.known = joint.seen] /\ ToTurn("Reseed")
       \/ ~Calibrates /\ UNCHANGED axis /\ ToTurn("Look")
    /\ UNCHANGED <<topology, loop, effort, broken>>

(* reseedPosition(): the angle of the newest frame is what was read.       *)
Reseed ==
    /\ axis_turn = "Reseed"
    /\ \/ /\ joint.fresh
          /\ joint' = [joint EXCEPT !.origin = axis.known - joint.seen, !.valid = TRUE, !.reference = @ + 1]
          /\ axis' = [axis EXCEPT !.seeded = TRUE, !.known = 0]
          /\ effort' = NoEffort
          /\ broken' = TRUE
       \/ /\ ~joint.fresh
          /\ axis' = [axis EXCEPT !.known = 0]
          /\ UNCHANGED <<joint, effort, broken>>
    /\ ToTurn("Look")
    /\ UNCHANGED <<topology, loop>>

-----------------------------------------------------------------------------
(* GimbalAxis::update(), from the snapshot that decides.                   *)

Measured == IF topology = "Limited" THEN joint.seen + joint.origin ELSE joint.seen

FeedbackHealthy ==
    /\ joint.fresh
    /\ topology = "Limited" => joint.valid /\ Measured \in MinAngle .. MaxAngle

(* Mutant: an epoch ends with the reference alone. *)
OutlivesEnabling(a) == a.of.live /\ a.of.reference = joint.reference

IsLive(a) == a.of = Epoch(joint)

(* The target before the input of the cycle is added.                      *)
Started(mode, goal) ==
    LET a == IF IsLive(axis) THEN axis ELSE Withdrawn(axis)
    IN  IF mode = "AbsoluteAngle" /\ ~a.of.live THEN goal
        ELSE IF ~a.of.live \/ (mode = "Hold" /\ a.mode # "Hold") THEN Measured
        ELSE a.target

(* Mutant: the first cycle integrates too. *)
StepOfAnyCycle(mode, rate, goal, dt) ==
    LET from == Started(mode, goal)
    IN  CASE mode = "Hold" -> 0
          [] mode = "Rate" -> Within(rate, -MaxRate, MaxRate) * dt
          [] OTHER         -> Within(Wrap(goal - from), -MaxRate * dt, MaxRate * dt)

(* The input of the cycle: none in the first of an epoch.                  *)
Stride(mode, rate, goal, dt) ==
    LET from    == Started(mode, goal)
        reach   == IF IsLive(axis) THEN MaxRate * dt ELSE 0
        missing == IF topology = "Limited" THEN Within(goal, MinAngle, MaxAngle) - from
                                           ELSE Wrap(goal - from)
    IN  CASE mode = "Hold" -> 0
          [] mode = "Rate" -> IF IsLive(axis) THEN Within(rate, -MaxRate, MaxRate) * dt ELSE 0
          [] OTHER         -> Within(missing, -reach, reach)

(* Mutant: an angle that is commanded is not clamped. *)
LimitsOfRates(mode, target) ==
    IF topology = "Continuous" THEN Wrap(target)
    ELSE IF mode = "Rate" THEN Within(Within(target, MinAngle, MaxAngle), Measured - MaxLead, Measured + MaxLead)
    ELSE target

Limits(mode, target) ==
    LET clamped == Within(target, MinAngle, MaxAngle)
    IN  IF topology = "Continuous" THEN Wrap(target)
        ELSE IF mode = "Rate"
        THEN Within(Within(clamped, Measured - MaxLead, Measured + MaxLead), MinAngle, MaxAngle)
        ELSE clamped

Look ==
    /\ axis_turn = "Look"
    /\ \/ /\ ~(FeedbackHealthy /\ joint.active)
          /\ axis' = Withdrawn(axis)
          /\ loop' = NoLoop
          /\ effort' = NoEffort
          /\ broken' = TRUE
          /\ ToTurn("Sleep")
       \/ /\ FeedbackHealthy /\ joint.active
          /\ \E mode \in Modes, rate \in Rates, goal \in Angles, dt \in 0 .. 1 :
                /\ mode # "Rate" => rate = 0
                /\ mode # "AbsoluteAngle" => goal = 0
                /\ axis' = [axis EXCEPT
                              !.target = Limits(mode, Started(mode, goal) + Stride(mode, rate, goal, dt)),
                              !.of = IF IsLive(axis) THEN @ ELSE Epoch(joint), !.mode = mode, !.dt = dt]
          /\ loop' = IF axis.of.live /\ ~IsLive(axis) THEN NoLoop ELSE loop
          /\ effort' = IF axis.of.live /\ ~IsLive(axis) THEN NoEffort ELSE effort
          /\ broken' = FALSE
          /\ ToTurn("Drive")
    /\ UNCHANGED <<topology, joint>>

-----------------------------------------------------------------------------
(* PositionMotor::update(): nothing is computed in the first cycle of a    *)
(* history, and whatever prevents a cycle ends the history.                *)

Waits == ~joint.fresh \/ (topology = "Limited" /\ ~joint.valid) \/ ~joint.active \/ axis.dt = 0

Drive ==
    /\ axis_turn = "Drive"
    /\ loop' = IF Waits THEN NoLoop ELSE Epoch(joint)
    /\ effort' = IF Waits THEN NoEffort
                 ELSE [kind |-> IF loop = Epoch(joint) THEN "Position" ELSE "Zero",
                       loop |-> Epoch(joint), target |-> axis.of]
    /\ axis' = [axis EXCEPT !.dt = 0]
    /\ ToTurn("Sleep")
    /\ UNCHANGED <<topology, joint, broken>>

Sleep ==
    /\ axis_turn = "Sleep"
    /\ ToTurn("Poll")
    /\ UNCHANGED <<topology, axis, loop, effort, joint, broken>>

-----------------------------------------------------------------------------
(* The CAN thread and the joint.  A frame is at most one step of the joint *)
(* from the last, and at most one arrives between two reads.               *)

Near(a) == {b \in Angles : Abs(IF topology = "Continuous" THEN Wrap(a - b) ELSE a - b) <= 1}

Frame ==
    /\ joint.fresh /\ ~framed
    /\ \E a \in Near(joint.seen) : joint' = [joint EXCEPT !.true = a, !.seen = a]
    /\ framed' = TRUE
    /\ UNCHANGED <<topology, axis_turn, axis, loop, effort, broken>>

FeedbackStops ==
    /\ joint.fresh
    /\ joint.losses < MaxLosses
    /\ joint' = [joint EXCEPT !.fresh = FALSE, !.losses = @ + 1]
    /\ broken' = TRUE
    /\ UNCHANGED <<topology, axis_turn, axis, loop, effort, framed>>

(* In a gap that outlasts a cycle the joint may go anywhere.               *)
MovesUnseen ==
    /\ axis_turn = "Poll"
    /\ ~joint.fresh
    /\ \E a \in Near(joint.true) : joint' = [joint EXCEPT !.true = a]
    /\ UNCHANGED <<topology, axis_turn, axis, loop, effort, broken, framed>>

(* The frame after a gap ends the reference, and an active drive faults.   *)
FeedbackReturns ==
    /\ ~joint.fresh /\ ~framed
    /\ joint' = [joint EXCEPT !.fresh = TRUE, !.seen = joint.true, !.valid = FALSE, !.active = FALSE,
                              !.reference = IF joint.valid THEN @ + 1 ELSE @]
    /\ framed' = TRUE
    /\ UNCHANGED <<topology, axis_turn, axis, loop, effort, broken>>

DriveActivates ==
    /\ joint.wanted /\ ~joint.active /\ joint.fresh
    /\ joint.enable < MaxDrives
    /\ joint' = [joint EXCEPT !.active = TRUE, !.enable = @ + 1]
    /\ UNCHANGED <<topology, axis_turn, axis, loop, effort, broken, framed>>

DriveDrops ==
    /\ joint.active
    /\ joint' = [joint EXCEPT !.active = FALSE]
    /\ broken' = TRUE
    /\ UNCHANGED <<topology, axis_turn, axis, loop, effort, framed>>

Next ==
    \/ Suspend \/ Poll \/ Reseed \/ Look \/ Drive \/ Sleep
    \/ Frame \/ FeedbackStops \/ MovesUnseen \/ FeedbackReturns \/ DriveActivates \/ DriveDrops

Spec == Init /\ [][Next]_vars

-----------------------------------------------------------------------------
(* A position effort reaches the drive only in the enabling and the        *)
(* coordinate in which both its target and its measurement were taken.     *)
EffortIsInItsReference ==
    /\ effort.kind = "Position"
    /\ joint.active /\ joint.fresh /\ effort.loop.enable = joint.enable
    => effort.loop = Epoch(joint) /\ effort.target = Epoch(joint)

(* After an interruption of any kind the target starts where the joint is: *)
(* no rate given meanwhile, nor an older target, is caught up with.        *)
CatchesUpNothing ==
    axis_turn = "Look" /\ axis_turn' = "Drive" /\ broken /\ axis'.mode # "AbsoluteAngle"
    => axis'.target = Measured

(* An axis told to hold stays at one angle, however it is pushed.          *)
KeepsHeldAngle ==
    /\ axis_turn = "Look" /\ axis_turn' = "Drive" /\ ~broken
    /\ axis.mode = "Hold" /\ axis'.mode = "Hold"
    => axis'.target = axis.target

(* A limited axis moves only by a coordinate that was calibrated, and it   *)
(* is wrong by the travel of the one frame that a calibration may miss.    *)
LimitsAreCalibrated ==
    topology = "Limited" /\ effort.kind = "Position" => Abs(joint.origin) <= 1

=============================================================================
