------------------------------- MODULE Chassis -------------------------------
(***************************************************************************)
(* lib/robotics/chassis_executor.cpp with its power limiter, and one       *)
(* module of lib/robotics/swerve.cpp: a wheel on a steering axis.  The     *)
(* four modules differ in their geometry alone.                            *)
(*                                                                         *)
(* update() reads the motors (Read), calculates, limits and stages         *)
(* (Stage); the efforts are in force until the next cycle (Sleep).  The    *)
(* CAN thread changes the motors between any two.  An effort is a kind,    *)
(* the scale it is multiplied by a number of steps up to Full.  Where the  *)
(* wheel is to point and how fast it is to turn decide the size of an      *)
(* effort alone; of the kinematics only this is left: a wheel that is to   *)
(* stand may be let roll.                                                  *)
(***************************************************************************)
EXTENDS Integers

CONSTANTS
    Full,         \* a scale of one
    Recovery,     \* recovery_per_s, per cycle
    MaxGaps,      \* bound on the losses of feedback
    MaxEnablings  \* bound on enable_generation

VARIABLES
    leg,       \* the step of the execution thread that is next
    wheel,     \* the two motors of the module
    seen,      \* feedback_: what read() took from them
    swerve,    \* the histories of the two controllers
    limiter,   \* scale_ of the power limiter
    stage,     \* the two efforts staged, and the scale they were staged with
    allowed,   \* what the newest decision allows, if it is of this cycle
    ramped     \* the scale recovered since output was last suspended

chassis == <<leg, wheel, seen, swerve, limiter, stage, allowed, ramped>>

Motors == {"steer", "drive"}
Least(a, b) == IF a < b THEN a ELSE b

(* The generations a history belongs to; a driving motor has no reference. *)
Epoch(enable, reference) == [enable |-> enable, reference |-> reference]
Epochs   == [enable : 0 .. MaxEnablings, reference : 0 .. MaxGaps]
Nowhere  == Epoch(0, 0)
NoEffort == [kind |-> "None", enable |-> 0, began |-> Nowhere]
Nothing  == [effort |-> [m \in Motors |-> NoEffort], scale |-> 0]
Unseen   == [m \in Motors |-> [valid |-> FALSE, epoch |-> Nowhere]]
NoPast   == [m \in Motors |-> [kept |-> FALSE, epoch |-> Nowhere]]

Efforts == [kind : {"None", "Zero", "Computed"}, enable : 0 .. MaxEnablings, began : Epochs]

TypeOK ==
    /\ leg \in {"Read", "Stage", "Sleep"}
    /\ wheel \in [fresh : BOOLEAN, wanted : BOOLEAN, gaps : 0 .. MaxGaps, reference : 0 .. MaxGaps,
                  active : [Motors -> BOOLEAN], enable : [Motors -> 0 .. MaxEnablings]]
    /\ seen \in [Motors -> [valid : BOOLEAN, epoch : Epochs]]
    /\ swerve \in [Motors -> [kept : BOOLEAN, epoch : Epochs]]
    /\ limiter \in 0 .. Full
    /\ stage \in [effort : [Motors -> Efforts], scale : 0 .. Full]
    /\ allowed \in 0 .. Full
    /\ ramped \in 0 .. Full

Init ==
    /\ leg = "Read"
    /\ wheel = [fresh |-> TRUE, wanted |-> FALSE, gaps |-> 0, reference |-> 0,
                active |-> [m \in Motors |-> FALSE], enable |-> [m \in Motors |-> 0]]
    /\ seen = Unseen
    /\ swerve = NoPast
    /\ limiter = 0
    /\ stage = Nothing
    /\ allowed = 0
    /\ ramped = 0

EpochOf(m) == Epoch(wheel.enable[m], IF m = "steer" THEN wheel.reference ELSE 0)

-----------------------------------------------------------------------------
(* ChassisExecutor::update() up to the snapshots.                          *)

(* Mutant: the limiter keeps its scale. *)
LimiterKept == limiter

LimiterReset == 0

(* suspend(), from any of the gates: the histories of the modules stay.    *)
Suspend ==
    /\ leg = "Read"
    /\ wheel' = [wheel EXCEPT !.wanted = FALSE, !.active = [m \in Motors |-> FALSE]]
    /\ stage' = Nothing
    /\ limiter' = LimiterReset
    /\ allowed' = 0
    /\ ramped' = 0
    /\ leg' = "Sleep"
    /\ UNCHANGED <<seen, swerve>>

Read ==
    /\ leg = "Read"
    /\ wheel' = [wheel EXCEPT !.wanted = TRUE]
    /\ seen' = [m \in Motors |-> IF wheel.active[m] /\ wheel.fresh THEN [valid |-> TRUE, epoch |-> EpochOf(m)]
                                                                   ELSE Unseen[m]]
    /\ leg' = "Stage"
    /\ UNCHANGED <<swerve, limiter, stage, allowed, ramped>>

-----------------------------------------------------------------------------
(* SwerveModule::step().                                                   *)

(* No effort is calculated: the motor or the length of the cycle is        *)
(* missing, or the wheel is let roll.                                      *)
IsIdle(m, cycle, rolls) == ~seen[m].valid \/ ~cycle \/ rolls

Continues(m) == swerve[m].kept /\ swerve[m].epoch = seen[m].epoch

(* The first cycle of a history puts out nothing, and a wheel that is let  *)
(* roll is held to nothing.                                                *)
EffortOf(m, cycle, rolls) ==
    IF IsIdle(m, cycle, rolls)
    THEN IF rolls /\ seen[m].valid THEN [NoEffort EXCEPT !.kind = "Zero", !.enable = seen[m].epoch.enable]
         ELSE NoEffort
    ELSE [kind |-> IF Continues(m) THEN "Computed" ELSE "Zero", enable |-> seen[m].epoch.enable,
          began |-> IF Continues(m) THEN swerve[m].epoch ELSE seen[m].epoch]

Stepped(cycle, rolls) ==
    [m \in Motors |->
        IF IsIdle(m, cycle, rolls) THEN NoPast[m]
        ELSE [kept |-> TRUE, epoch |-> IF Continues(m) THEN swerve[m].epoch ELSE seen[m].epoch]]

-----------------------------------------------------------------------------
(* power(), and the rest of update().  target is the scale the budget, the *)
(* energy buffer and the measurement of this cycle allow.                  *)

Decision(target) == Least(target, limiter + Recovery)

(* A cycle of no valid length does not ask for power and leaves the scale. *)
LostCycle ==
    /\ \E rolls \in BOOLEAN :
          /\ swerve' = Stepped(FALSE, rolls)
          /\ stage' = [stage EXCEPT !.effort = [m \in Motors |-> EffortOf(m, FALSE, rolls)]]
    /\ allowed' = 0
    /\ UNCHANGED <<limiter, ramped>>

(* The budget or the measurement is missing.                               *)
NoBudget ==
    /\ \E rolls \in BOOLEAN : swerve' = Stepped(TRUE, rolls)
    /\ stage' = Nothing
    /\ allowed' = 0
    /\ UNCHANGED <<limiter, ramped>>

Budgeted ==
    /\ \E rolls \in BOOLEAN, target \in 0 .. Full :
          /\ swerve' = Stepped(TRUE, rolls)
          /\ stage' = [effort |-> [m \in Motors |-> EffortOf(m, TRUE, rolls)], scale |-> Decision(target)]
          /\ limiter' = Decision(target)
          /\ allowed' = target
    /\ ramped' = Least(Full, ramped + Recovery)

Stage ==
    /\ leg = "Stage"
    /\ LostCycle \/ NoBudget \/ Budgeted
    /\ seen' = Unseen
    /\ leg' = "Sleep"
    /\ UNCHANGED wheel

Sleep ==
    /\ leg = "Sleep"
    /\ leg' = "Read"
    /\ UNCHANGED <<wheel, seen, swerve, limiter, stage, allowed, ramped>>

-----------------------------------------------------------------------------
(* The CAN thread.                                                         *)

Activates(m) ==
    /\ wheel.wanted /\ wheel.fresh /\ ~wheel.active[m]
    /\ wheel.enable[m] < MaxEnablings
    /\ wheel' = [wheel EXCEPT !.active[m] = TRUE, !.enable[m] = @ + 1]
    /\ UNCHANGED <<leg, seen, swerve, limiter, stage, allowed, ramped>>

Drops(m) ==
    /\ wheel.active[m]
    /\ wheel' = [wheel EXCEPT !.active[m] = FALSE]
    /\ UNCHANGED <<leg, seen, swerve, limiter, stage, allowed, ramped>>

FeedbackStops ==
    /\ wheel.fresh
    /\ wheel.gaps < MaxGaps
    /\ wheel' = [wheel EXCEPT !.fresh = FALSE, !.gaps = @ + 1]
    /\ UNCHANGED <<leg, seen, swerve, limiter, stage, allowed, ramped>>

(* The first frame after a gap begins a reference.  A motor may be active  *)
(* still, if the CAN thread has not looked at it during the gap.           *)
FeedbackReturns ==
    /\ ~wheel.fresh
    /\ wheel' = [wheel EXCEPT !.fresh = TRUE, !.reference = @ + 1]
    /\ UNCHANGED <<leg, seen, swerve, limiter, stage, allowed, ramped>>

Next ==
    \/ Suspend \/ Read \/ Stage \/ Sleep
    \/ FeedbackStops \/ FeedbackReturns
    \/ \E m \in Motors : Activates(m) \/ Drops(m)

Spec == Init /\ [][Next]_chassis

-----------------------------------------------------------------------------
Sends(m) ==
    LET effort == stage.effort[m]
    IN  effort.kind = "Computed" /\ wheel.fresh /\ wheel.active[m] /\ effort.enable = wheel.enable[m]

(* An effort is never larger than the budget and the measurement of the    *)
(* cycle it was staged in allow: no older decision is applied to it.       *)
PowerIsBudgeted ==
    leg = "Sleep" /\ (\E m \in Motors : stage.effort[m].kind = "Computed") => stage.scale <= allowed

(* After a stop of any kind the chassis recovers its power step by step.   *)
PowerRampsUp == stage.scale <= ramped

(* What a motor is sent was calculated from a history that began in the    *)
(* enabling the motor is in.                                               *)
EffortIsOfItsEnabling == \A m \in Motors : Sends(m) => stage.effort[m].began.enable = wheel.enable[m]

=============================================================================
