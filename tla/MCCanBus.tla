------------------------------ MODULE MCCanBus ------------------------------
(* Instances of CanBus for TLC.                                            *)
EXTENDS CanBus

CONSTANTS m1, m2

OneUnit    == <<{m1}>>
SharedUnit == <<{m1, m2}>>

(* Scenario for two motors: m2 becomes active first and stays so.  m1 is   *)
(* enabled, disabled, loses its feedback and sees its command age.  Motors *)
(* report one at a time, when their feedback is not fresh; the committed   *)
(* batch commands both motors, m2 by a plain setpoint and m1 by an effort  *)
(* computed from its snapshot, which may be withdrawn afterwards.          *)
OnlyM1IsDisturbed ==
    /\ IsFresh(motor[m2]) => IsFresh(motor'[m2])
    /\ motor[m2].enabled_requested => motor'[m2].enabled_requested
    /\ motor'[m1].enabled_requested => motor[m2].state = "Active"
    /\ Len(rx'.queue) > Len(rx.queue) => rx.queue = <<>> /\ ~IsFresh(motor[rx'.queue[1].motor])
    /\ \A m \in Motors : motor[m].staged.revision # motor'[m].staged.revision =>
          /\ motor[m2].state = "Active"
          /\ motor'[m].staged.computed_effort = (m = m1)
          /\ motor'[m].staged.sampled_enable_generation = motor[m].enable_generation
    /\ expired'[m2] = expired[m2]
    /\ sequence' # sequence => \A m \in Motors : motor[m].staged.revision = MaxRevision
    /\ motor'[m1].invalidated_effort_revision # motor[m1].invalidated_effort_revision =>
          sequence = MaxSequence
=============================================================================
