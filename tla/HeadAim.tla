------------------------------- MODULE HeadAim -------------------------------
(***************************************************************************)
(* How the head is aimed and the big yaw made to follow it:                *)
(* lib/robotics/inertial_gimbal.cpp and lib/robotics/yaw_centering.cpp, as *)
(* the execution loop of samples/robotics/common/vehicle_bench.hpp calls   *)
(* them for the gimbal board.                                              *)
(*                                                                         *)
(* The head's yaw is an angle of the frame its inertial unit reports; the  *)
(* unit may start a new frame, an epoch, at any time.  A goal is an angle  *)
(* too, and goal.of records the epoch it is an angle of.  The pitch goal   *)
(* is handled like the yaw goal, without the circle.  Angles and rates are *)
(* integers; the loop's period is the unit of time.                        *)
(***************************************************************************)
EXTENDS Integers

CONSTANTS
    HalfTurn,     \* yaws are -HalfTurn .. HalfTurn, on a circle
    MaxTurn,      \* max_rate_rad_s
    MaxCycle,     \* max_cycle_us
    MaxEpochs,    \* bound on the epochs
    CentreBand,   \* deadband_rad
    Hysteresis,   \* hysteresis_rad
    MaxFollow,    \* max_rate_rad_s of the centering
    Acceleration  \* acceleration_rad_s2

VARIABLES
    head,      \* the orientation of the head
    goal,      \* the members of the adapter
    since,     \* periods since the adapter's last update()
    aim,       \* what update() put out: yaw_output_valid, and yaw_error_rad
    follow,    \* the members of the centering controller, and its enabled output
    released,  \* no command has held the head since the goal was last set
    ramp       \* the time the big yaw may have been accelerated for

vars == <<head, goal, since, aim, follow, released, ramp>>

Yaws    == -HalfTurn .. HalfTurn
Wrap(a) == ((a + HalfTurn) % (2 * HalfTurn + 1)) - HalfTurn
Abs(a)  == IF a < 0 THEN -a ELSE a
Within(a, low, high) == IF a < low THEN low ELSE IF a > high THEN high ELSE a
Least(a, b) == IF a < b THEN a ELSE b

Sources == {"Remote", "Vision"}
NoGoal  == [prepared |-> FALSE, live |-> FALSE, reference |-> 0, at |-> 0, of |-> 0,
            source |-> "None", mode |-> "Disabled"]
NoAim   == [valid |-> FALSE, error |-> 0]

TypeOK ==
    /\ head \in [yaw : Yaws, epoch : 1 .. MaxEpochs]
    /\ goal \in [prepared : BOOLEAN, live : BOOLEAN, reference : 0 .. MaxEpochs, at : Yaws,
                 of : 0 .. MaxEpochs, source : Sources \cup {"None"},
                 mode : {"Disabled", "Hold", "Rate", "AbsoluteAngle"}]
    /\ goal.live => goal.prepared
    /\ since \in 0 .. MaxCycle + 1
    /\ aim \in [valid : BOOLEAN, error : Yaws]
    /\ follow \in [rate : -MaxFollow .. MaxFollow, following : BOOLEAN, enabled : BOOLEAN]
    /\ released \in BOOLEAN
    /\ ramp \in 0 .. MaxFollow

Init ==
    /\ head \in [yaw : Yaws, epoch : {1}]
    /\ goal = NoGoal
    /\ since = MaxCycle + 1
    /\ aim = NoAim
    /\ follow = [rate |-> 0, following |-> FALSE, enabled |-> FALSE]
    /\ released = TRUE
    /\ ramp = 0

-----------------------------------------------------------------------------
(* YawCenteringController::update(), which has been called one period ago  *)
(* or too long ago.                                                        *)

Revoked == [rate |-> 0, following |-> FALSE, enabled |-> FALSE]

IsFollowing(offset) ==
    IF follow.following THEN Abs(offset) > CentreBand ELSE Abs(offset) >= CentreBand + Hysteresis

Followed(offset) ==
    LET target == IF IsFollowing(offset) THEN Within(offset, -MaxFollow, MaxFollow) ELSE 0
    IN  [rate |-> follow.rate + Within(target - follow.rate, -Acceleration, Acceleration),
         following |-> IsFollowing(offset), enabled |-> TRUE]

(* ready: the command is enabled, the executor is active, the permission,  *)
(* the joint and the source are fresh.                                     *)
Centre(valid, interval) ==
    \/ /\ valid /\ interval = 1
       /\ follow' \in {Followed(offset) : offset \in Yaws}
       /\ ramp' = Least(ramp + Acceleration, MaxFollow)
    \/ /\ follow' = Revoked
       /\ ramp' = 0

-----------------------------------------------------------------------------
(* InertialGimbalAdapter::update() and suspend().                          *)

Aged(interval) == Least(since + interval, MaxCycle + 1)

(* suspend() by the loop: update() is not called.                          *)
Mismatched(interval) ==
    /\ goal' = NoGoal
    /\ since' = Aged(interval)
    /\ aim' = NoAim
    /\ released' = TRUE

(* suspend() in update(): the command is disabled, invalid or old, or the  *)
(* head points too steeply.                                                *)
LetGo ==
    /\ goal' = NoGoal
    /\ since' = 0
    /\ aim' = NoAim
    /\ released' = TRUE

(* publish() in update(): a prerequisite or the inertial unit is missing,  *)
(* and the goal is kept for their return.                                  *)
Blind ==
    /\ aim' = NoAim
    /\ since' = 0
    /\ UNCHANGED <<goal, released>>

Continues(g, source, mode) ==
    g.live /\ g.reference = head.epoch /\ g.source = source /\ g.mode = mode

(* The goal this update() starts from.                                     *)
Held(source, mode) ==
    IF Continues(goal, source, mode) THEN goal
    ELSE [prepared |-> TRUE, live |-> TRUE, reference |-> head.epoch, at |-> head.yaw, of |-> head.epoch,
          source |-> source, mode |-> mode]

Aimed(command, dt) ==
    LET g == Held(command.source, command.mode)
    IN  CASE command.mode = "AbsoluteAngle" -> [g EXCEPT !.at = command.target, !.of = command.epoch]
          [] command.mode = "Rate" -> [g EXCEPT !.at = Wrap(@ + Within(command.rate, -MaxTurn, MaxTurn) * dt)]
          [] OTHER -> g

Aim(command, interval, joint) ==
    LET cycle == Aged(interval) <= MaxCycle
    IN  /\ goal' = Aimed(command, IF cycle THEN Aged(interval) ELSE 0)
        /\ since' = 0
        /\ aim' = [valid |-> joint /\ cycle, error |-> Wrap(goal'.at - head.yaw)]
        /\ released' = FALSE

-----------------------------------------------------------------------------
(* The execution loop.                                                     *)

Commands ==
    [source : {"Remote"}, mode : {"Hold"}, rate : {0}, target : {0}, epoch : {0}]
    \cup [source : {"Remote"}, mode : {"Rate"}, rate : {-MaxTurn, MaxTurn + 1}, target : {0}, epoch : {0}]
    \cup [source : {"Vision"}, mode : {"AbsoluteAngle"}, rate : {0}, target : Yaws, epoch : 1 .. head.epoch]

(* Mutant: what vision was looking through is not asked. *)
AnyReference(command) == TRUE

(* A target of vision is an angle of the frame vision saw it in.           *)
ReferenceMatches(command) == command.source = "Vision" => command.epoch = head.epoch

Loop ==
    /\ \E interval \in {1, MaxCycle + 1} :
          /\ \/ LetGo
             \/ Blind
             \/ ~(\A command \in Commands : ReferenceMatches(command)) /\ Mismatched(interval)
             \/ \E command \in Commands, joint \in BOOLEAN :
                   ReferenceMatches(command) /\ Aim(command, interval, joint)
          /\ Centre(aim'.valid, interval)
    /\ UNCHANGED head

(* The head turns, by its motors or by hand. *)
HeadTurns ==
    /\ \E by \in {-1, 1} : head' = [head EXCEPT !.yaw = Wrap(@ + by)]
    /\ UNCHANGED <<goal, since, aim, follow, released, ramp>>

(* The inertial unit starts a new frame.                                   *)
EpochStarts ==
    /\ head.epoch < MaxEpochs
    /\ \E yaw \in Yaws : head' = [yaw |-> yaw, epoch |-> head.epoch + 1]
    /\ UNCHANGED <<goal, since, aim, follow, released, ramp>>

Next == Loop \/ HeadTurns \/ EpochStarts

Spec == Init /\ [][Next]_vars

-----------------------------------------------------------------------------
(* An error that turns the head is the difference of two angles of one     *)
(* frame: a goal is never carried over into the frame of a restarted unit, *)
(* nor taken from a picture that was aimed in another.                     *)
AimsInOneFrame == aim'.valid /\ UNCHANGED head => goal'.of = head.epoch

(* A head that was let go is held where it is found: the goal starts       *)
(* within the turn of one cycle of it, or at what vision asks for.         *)
ForgetsReleased ==
    released /\ ~released' /\ goal'.mode # "AbsoluteAngle"
    => Abs(Wrap(goal'.at - head.yaw)) <= MaxTurn * MaxCycle

(* The big yaw is started from rest after every loss of a prerequisite.    *)
FollowStartsAtRest == Abs(follow.rate) <= ramp

=============================================================================
