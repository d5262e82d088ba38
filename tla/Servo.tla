-------------------------------- MODULE Servo --------------------------------
(***************************************************************************)
(* One motor under closed loop: the encoder of drivers/motor/motor.cpp,    *)
(* the controllers of lib/control/motor_control.cpp and the loops of       *)
(* lib/control/{pid,feedforward,feedforward_pid,slew_rate_limiter,         *)
(* motor_velocity,motor_position}.c they run.                              *)
(*                                                                         *)
(* A period passes, in which the shaft turns and a frame arrives or is     *)
(* lost; update() is called after any number of them.  It takes one        *)
(* snapshot, computes (Update) and stages what it computed (Stage); the    *)
(* CAN thread may take steps between the two.                              *)
(*                                                                         *)
(* Positions are in encoder ticks, velocities in half ticks per period, so *)
(* that a difference over one or two periods is exact; the filters round   *)
(* down, and what only a filter reads is kept where there is one.  Every   *)
(* loop is reset before its first step, so the branch of an uninitialised  *)
(* one is left out, as is gravity, which no profile uses.                  *)
(***************************************************************************)
EXTENDS Integers

CONSTANTS
    Ticks,        \* kDjiEncoderTicks, even
    Zero,         \* encoder_zero_ticks
    Timeout,      \* feedback_timeout_ms, in periods
    Recentre,     \* how far a position may be from the origin: 128 rad
    Designs,      \* the configurations tried
    Targets,      \* what update() is called with
    Seeds,        \* what reseedPosition() is called with
    Horizon,      \* bound on the periods
    MaxReference, \* bound on reference_generation
    MaxActive     \* bound on enable_generation

VARIABLES
    design,  \* Config of the controller
    periods, \* how many have passed
    motor,   \* snapshot_ and DjiRuntime of the motor
    shaft,   \* where the shaft is, in ticks
    elapsed, \* periods since the last update
    servo,   \* members of VelocityMotor or PositionMotor
    output,  \* what the step of the loops just taken gave
    phase,   \* the step of update() that is next
    computed,\* the effort computed, and not staged yet
    staged,  \* staged_ of the motor
    truth    \* where the shaft was when the reference was made, when it was
             \* seen and used last, and the ramp allowed since the last reset

vars == <<design, periods, motor, shaft, elapsed, servo, output, phase, computed, staged, truth>>

Half   == Ticks \div 2
Top    == design.dt_max + 1 \* elapsed stops here
Abs(a) == IF a < 0 THEN -a ELSE a

(* clampf(), with limits on both sides of zero *)
Clamp(a, limit) == IF a > limit THEN limit ELSE IF a < -limit THEN -limit ELSE a

(* wrap_to_minus_pi_inclusive() *)
Wrap(a) == ((a + Half) % Ticks) - Half

(* The shorter way from one reading to the next. *)
Shortest(d) == IF d > Half THEN d - Ticks ELSE IF d < -Half THEN d + Ticks ELSE d

Kinds == {"Velocity", "StartupRelative", "DriverContinuous", "AbsoluteNearest"}

-----------------------------------------------------------------------------
(* The loops.  A design's pos and vel are the two PID configurations.      *)

PidReset(measurement) == [integral |-> 0, previous |-> measurement, rate |-> 0]

Filtered(old, new, tau, dt) == IF tau = 0 THEN new ELSE old + (dt * (new - old)) \div (tau + dt)

(* Mutant: the integral is kept within its limits alone. *)
IntegratesAlways(c, e, total, freeze) == ~freeze

(* The integral does not push an output that is beyond its limit further.  *)
Integrates(c, e, total, freeze) ==
    ~freeze /\ ~(total > c.limit /\ e > 0) /\ ~(total < -c.limit /\ e < 0)

(* control_pid_step_core() *)
PidStep(s, c, want, got, dt, freeze, extra) ==
    LET e    == IF Abs(want - got) <= c.deadband THEN 0 ELSE want - got
        rate == Filtered(s.rate, (2 * (got - s.previous)) \div dt, c.tau, dt)
        pd   == c.kp * e - c.kd * rate
        i    == Clamp(s.integral + c.ki * e * dt, c.integral)
        kept == IF Integrates(c, e, pd + i + extra, freeze) THEN i ELSE s.integral
    IN  [state |-> [integral |-> kept, previous |-> got, rate |-> IF c.tau = 0 THEN 0 ELSE rate],
         rate |-> rate, total |-> pd + kept + extra,
         output |-> Clamp(pd + kept + extra, c.limit)]

(* control_slew_rate_step() *)
Slewed(value, want, d, dt) ==
    LET most == dt * (IF want >= value THEN d.rising ELSE d.falling)
    IN  value + Clamp(want - value, most)

Sign(a) == IF a > 0 THEN 1 ELSE IF a < 0 THEN -1 ELSE 0

(* control_feedforward_calculate(), of a velocity and its rate of change.  *)
Feedforward(d, speed, change) ==
    d.k_static * Sign(IF speed # 0 THEN speed ELSE change) + d.k_velocity * speed + d.k_acceleration * change

(* apply_soft_deadband() *)
Softened(e, band) == IF Abs(e) <= band THEN 0 ELSE e - Sign(e) * band

(* control_feedforward_pid_step() *)
Regulated(s, d, ref, got, dt, change) == PidStep(s, d.vel, ref, got, dt, FALSE, Feedforward(d, ref, change))

VelocityReset(speed) ==
    [filtered |-> IF design.tau = 0 THEN 0 ELSE speed, reference |-> 0, pid |-> PidReset(speed)]

(* control_motor_velocity_step() *)
VelocityStep(v, d, want, speed, dt) ==
    LET f    == Filtered(v.filtered, speed, d.tau, dt)
        ref  == Slewed(v.reference, want, d, dt)
        e    == Softened(ref - f, d.soft)
        step == Regulated(v.pid, d, ref, ref - e, dt, (2 * (ref - v.reference)) \div dt)
    IN  [state |-> [filtered |-> IF d.tau = 0 THEN 0 ELSE f, reference |-> ref, pid |-> step.state],
         total |-> step.total, effort |-> Clamp(step.output, d.effort)]

(* control_motor_position_step(): the integral of the outer loop is frozen. *)
PositionStep(s, d, want, got, speed, dt) ==
    LET outer == PidStep(s.position, d.pos, want, got, dt, TRUE, 0)
        inner == VelocityStep(s.velocity, d, outer.output, speed, dt)
    IN  [position |-> outer.state, velocity |-> inner.state, rate |-> outer.rate,
         total |-> inner.total, effort |-> inner.effort]

ValidPid(c) == c.kp >= 0 /\ c.ki >= 0 /\ c.kd >= 0 /\ c.tau >= 0 /\ c.deadband >= 0
            /\ c.integral >= 0 /\ c.limit >= 0

ValidSlew(d) == d.rising >= 0 /\ d.falling >= 0

(* control_motor_velocity_validate() *)
ValidVelocity(d) ==
    ValidPid(d.vel) /\ ValidSlew(d) /\ d.tau >= 0 /\ d.soft >= 0 /\ d.requested > 0 /\ d.effort >= 0

(* control_motor_position_validate() *)
ValidPosition(d) == ValidPid(d.pos) /\ ValidVelocity(d) /\ d.pos.limit <= d.requested

(* validateEffort() *)
ValidEffort(d) == d.effort >= 0 /\ d.effort <= d.available

(* configure(), of both controllers *)
Valid(d) ==
    /\ IF d.kind = "Velocity" THEN ValidVelocity(d) ELSE ValidPosition(d)
    /\ d.dt_min > 0 /\ d.dt_min <= d.dt_max
    /\ ValidEffort(d)

-----------------------------------------------------------------------------
(* The motor: the thread that receives its frames, and what others do.     *)

Fresh == motor.known /\ motor.age <= Timeout
Angle == Wrap(motor.encoder - Zero) \* absolute_position_rad

(* raiseFault() of a loss of communication *)
Faulted(m) ==
    [m EXCEPT !.active = FALSE, !.valid = FALSE, !.reference = IF m.valid THEN @ + 1 ELSE @]

(* The ticks since the frame before, unless it was too long ago.           *)
Counted(m, gap, encoder) ==
    IF ~m.known THEN [m EXCEPT !.known = TRUE, !.valid = TRUE]
    ELSE IF gap THEN [m EXCEPT !.valid = FALSE, !.reference = IF m.valid THEN @ + 1 ELSE @]
    ELSE IF m.valid THEN [m EXCEPT !.total = @ + Shortest(encoder - m.encoder)]
    ELSE m

(* acceptDjiFeedback(), which first expires what was there before.         *)
Accepted(turned) ==
    LET encoder == (shaft + turned) % Ticks
        gap     == motor.known /\ ~Fresh
        m       == IF gap /\ motor.active THEN Faulted(motor) ELSE motor
    IN  [Counted(m, gap, encoder) EXCEPT !.encoder = encoder, !.speed = 2 * turned, !.age = 0]

Least(a, b) == IF a < b THEN a ELSE b

Period(turned, arrives) ==
    /\ periods < Horizon
    /\ periods' = periods + 1
    /\ shaft' = shaft + turned
    /\ elapsed' = Least(elapsed + 1, Top)
    /\ motor' = IF arrives THEN Accepted(turned) ELSE [motor EXCEPT !.age = Least(@ + 1, Timeout + 1)]
    /\ truth' = IF ~arrives THEN truth
                ELSE [truth EXCEPT !.seen = shaft', !.datum = IF motor.known THEN @ ELSE shaft']
    /\ UNCHANGED <<design, servo, output, phase, computed, staged>>

(* The bus finds that the feedback expired, or that the wire failed.       *)
Fault ==
    /\ motor.active
    /\ motor' = Faulted(motor)
    /\ UNCHANGED <<design, periods, shaft, elapsed, servo, output, phase, computed, staged, truth>>

(* markPrepared() *)
Activate ==
    /\ ~motor.active /\ Fresh
    /\ motor.enable < MaxActive
    /\ motor' = [motor EXCEPT !.active = TRUE, !.enable = @ + 1]
    /\ UNCHANGED <<design, periods, shaft, elapsed, servo, output, phase, computed, staged, truth>>

Nothing == [valid |-> FALSE, enable |-> 0, reference |-> 0, effort |-> 0]

(* reseedPosition().  Its callers own the loop and call it when the         *)
(* coordinate was lost; once, too, before any loop runs, which is left out. *)
Reseed(ticks) ==
    /\ phase = "Update"
    /\ Fresh /\ ~motor.valid
    /\ motor.reference + 2 <= MaxReference
    /\ motor' = [motor EXCEPT !.valid = TRUE, !.total = ticks, !.reference = @ + 1]
    /\ staged' = Nothing
    /\ truth' = [truth EXCEPT !.datum = truth.seen - ticks]
    /\ UNCHANGED <<design, periods, shaft, elapsed, servo, output, phase, computed>>

-----------------------------------------------------------------------------
(* The controllers.                                                        *)

NoOutput == [stepped |-> FALSE, total |-> 0, rate |-> 0]

NoServo ==
    [configured |-> FALSE, live |-> FALSE, enable |-> 0, reference |-> 0,
     started |-> FALSE, initial |-> 0, origin |-> 0,
     local_valid |-> FALSE, local |-> 0, angle |-> 0,
     position |-> PidReset(0), velocity |-> VelocityReset(0)]

Configure ==
    /\ phase = "Update" /\ ~servo.configured /\ Valid(design)
    /\ servo' = [servo EXCEPT !.configured = TRUE]
    /\ UNCHANGED <<design, periods, motor, shaft, elapsed, output, phase, computed, staged, truth>>

IsPosition == design.kind # "Velocity"
IsAbsolute == design.kind = "AbsoluteNearest"

(* A history that is not used again is not kept.                           *)
Forgotten(s) ==
    [s EXCEPT !.live = FALSE, !.enable = 0, !.reference = 0, !.origin = 0,
              !.local_valid = FALSE, !.local = 0, !.angle = 0,
              !.position = PidReset(0), !.velocity = VelocityReset(0)]

(* fail() and wait() *)
Fail ==
    /\ servo' = Forgotten(servo)
    /\ output' = NoOutput
    /\ staged' = IF servo.configured THEN Nothing ELSE staged
    /\ UNCHANGED <<phase, computed, truth>>

(* reset() *)
Reset ==
    /\ phase = "Update" /\ servo.configured
    /\ servo' = Forgotten(servo)
    /\ staged' = Nothing
    /\ UNCHANGED <<design, periods, motor, shaft, elapsed, output, phase, computed, truth>>

OfThisEpoch(s) ==
    /\ s.enable = motor.enable
    /\ IsPosition => s.reference = motor.reference

(* resolveMeasurement(): an absolute angle is counted on from where this   *)
(* epoch began.                                                            *)
Resolved ==
    IF ~IsAbsolute THEN servo
    ELSE IF ~servo.local_valid \/ ~OfThisEpoch(servo)
    THEN [servo EXCEPT !.local = Angle, !.angle = Angle, !.local_valid = TRUE, !.live = FALSE]
    ELSE [servo EXCEPT !.local = @ + Wrap(Angle - servo.angle), !.angle = Angle]

Position(s) == IF IsAbsolute THEN s.local ELSE motor.total

(* resetFrom() *)
ResetFrom(s) ==
    LET first == design.kind = "StartupRelative" /\ ~s.started
    IN  [s EXCEPT !.live = TRUE, !.enable = motor.enable, !.reference = motor.reference,
                  !.started = @ \/ first, !.initial = IF first THEN Position(s) ELSE @,
                  !.origin = IF IsPosition THEN Position(s) ELSE 0,
                  !.position = PidReset(0), !.velocity = VelocityReset(motor.speed)]

Goal(s, target) ==
    CASE design.kind = "StartupRelative" -> target + s.initial
      [] IsAbsolute -> Position(s) + Wrap(target - Angle)
      [] OTHER -> target

(* Mutant: the origin moves, and what was measured from it does not. *)
RecentredAlone(s) ==
    IF Abs(Position(s) - s.origin) > Recentre THEN [s EXCEPT !.origin = Position(s)] ELSE s

Recentred(s) ==
    LET shift == Position(s) - s.origin
    IN  IF Abs(shift) > Recentre
        THEN [s EXCEPT !.position.previous = @ - shift, !.origin = Position(s)]
        ELSE s

(* One step of the loops from the state s, and what it gives.              *)
Stepped(s, target) ==
    IF IsPosition
    THEN PositionStep(s, design, Goal(s, target) - s.origin, Position(s) - s.origin, motor.speed, elapsed)
    ELSE VelocityStep(s.velocity, design, target, motor.speed, elapsed)

Advanced(s, step) ==
    IF IsPosition THEN [s EXCEPT !.position = step.position, !.velocity = step.velocity]
    ELSE [s EXCEPT !.velocity = step.state]

(* A target out of range is refused before it is taken.                    *)
Refuses(target) == ~servo.configured \/ (~IsPosition /\ Abs(target) > design.requested)

Waits ==
    \/ IsPosition /\ ~IsAbsolute /\ ~motor.valid
    \/ ~Fresh
    \/ ~motor.active
    \/ elapsed \notin design.dt_min .. design.dt_max

Compute(effort, s, result) ==
    /\ servo' = s
    /\ output' = result
    /\ computed' = [valid |-> TRUE, enable |-> motor.enable, reference |-> motor.reference, effort |-> effort]
    /\ phase' = "Stage"

(* update() up to stageEffort(); the first of a history gives no effort.   *)
Update(target) ==
    /\ phase = "Update"
    /\ elapsed' = 0
    /\ \/ (Refuses(target) \/ Waits) /\ Fail
       \/ /\ ~Refuses(target) /\ ~Waits
          /\ LET s == Resolved
                 r == Recentred(s)
                 step == Stepped(r, target)
             IN  IF s.live /\ OfThisEpoch(s)
                 THEN /\ Compute(step.effort, Advanced(r, step),
                                 [stepped |-> TRUE, total |-> step.total,
                                  rate |-> IF IsPosition THEN step.rate ELSE 0])
                      /\ truth' = [truth EXCEPT !.used = truth.seen,
                                               !.ramp = Least(@ + elapsed * design.rising, design.requested)]
                 ELSE /\ Compute(0, ResetFrom(s), NoOutput)
                      /\ truth' = [truth EXCEPT !.used = truth.seen, !.ramp = 0]
          /\ UNCHANGED staged
    /\ UNCHANGED <<design, periods, motor, shaft>>

(* stageEffort(): the effort carries the enabling its snapshot was of.     *)
Stage ==
    /\ phase = "Stage"
    /\ phase' = "Update"
    /\ staged' = computed
    /\ computed' = Nothing
    /\ output' = NoOutput
    /\ UNCHANGED <<design, periods, motor, shaft, elapsed, servo, truth>>

-----------------------------------------------------------------------------
Init ==
    /\ design \in Designs
    /\ motor = [known |-> FALSE, active |-> FALSE, valid |-> FALSE, enable |-> 0, reference |-> 0,
                encoder |-> 0, total |-> 0, speed |-> 0, age |-> 0]
    /\ periods = 0
    /\ shaft = 0
    /\ elapsed = 0
    /\ servo = NoServo
    /\ output = NoOutput
    /\ phase = "Update"
    /\ computed = Nothing
    /\ staged = Nothing
    /\ truth = [datum |-> 0, seen |-> 0, used |-> 0, ramp |-> 0]

Next ==
    \/ \E turned \in {-1, 1}, arrives \in BOOLEAN : Period(turned, arrives)
    \/ motor.age >= Timeout /\ Period(Ticks, FALSE) \* a whole turn, that no frame shows
    \/ Fault
    \/ Activate
    \/ \E ticks \in Seeds : Reseed(ticks)
    \/ Configure
    \/ Reset
    \/ \E target \in Targets : Update(target)
    \/ Stage

Spec == Init /\ [][Next]_vars

-----------------------------------------------------------------------------
Efforts == [valid : BOOLEAN, enable : 0 .. MaxActive, reference : 0 .. MaxReference,
            effort : -design.effort .. design.effort]

(* The type invariant: what the loops keep and what the motor is given are *)
(* within the limits of the configuration.                                 *)
TypeOK ==
    /\ design \in Designs
    /\ motor.enable \in 0 .. MaxActive /\ motor.reference \in 0 .. MaxReference
    /\ motor.encoder \in 0 .. Ticks - 1 /\ motor.age \in 0 .. Timeout + 1
    /\ shaft \in -Horizon * Ticks .. Horizon * Ticks /\ periods \in 0 .. Horizon /\ elapsed \in 0 .. Top
    /\ servo.configured => Valid(design)
    /\ servo.velocity.pid.integral \in -design.vel.integral .. design.vel.integral
    /\ servo.velocity.reference \in -design.requested .. design.requested
    /\ phase \in {"Update", "Stage"}
    /\ computed \in Efforts /\ staged \in Efforts

(* The position the driver counts is where the shaft is, in the coordinate *)
(* of its reference: no turn is lost or counted twice at the seam of the   *)
(* encoder, and none is invented across a gap (acceptDjiFeedback).         *)
PositionIsTrue == motor.valid => motor.total + truth.datum = truth.seen

(* The angle a loop counts on from an absolute encoder is that angle, to   *)
(* whole turns (resolveMeasurement).                                       *)
LocalIsTheAngle == servo.local_valid => (servo.local - servo.angle) % Ticks = 0

(* An effort the bus may send was computed in the coordinate the motor is  *)
(* in now, whatever happened between the snapshot and its staging.         *)
EffortIsOfItsReference ==
    /\ staged.valid /\ IsPosition
    /\ motor.active /\ staged.enable = motor.enable
    => staged.reference = motor.reference

(* The velocity a loop asks for grows from rest, by the slew limit, since  *)
(* its history began: nothing of an earlier enabling is taken up again.    *)
RampIsFromRest == servo.live => Abs(servo.velocity.reference) <= truth.ramp

Steps == phase = "Update" /\ phase' = "Stage" /\ output'.stepped

(* The rate the outer loop damps with is how far the shaft turned since    *)
(* the step before, across the seam of the encoder and a new origin.       *)
RateIsTrue ==
    Steps /\ IsPosition /\ design.pos.tau = 0 => output'.rate * elapsed = 2 * (truth.seen - truth.used)

(* While the output of the regulator is beyond a limit, its integral does  *)
(* not grow towards that limit (control_pid_step_core).                    *)
WindsNoFurther ==
    Steps =>
        /\ output'.total > design.vel.limit => servo'.velocity.pid.integral <= servo.velocity.pid.integral
        /\ output'.total < -design.vel.limit => servo'.velocity.pid.integral >= servo.velocity.pid.integral
=============================================================================
