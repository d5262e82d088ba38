---------------------------- MODULE StopContract ----------------------------
(***************************************************************************)
(* What a caller of Motor::disable() may rely on when it reads             *)
(* StopSnapshot::progress: the abstract specification of the stop          *)
(* protocol, without threads, frames or generations.                       *)
(*                                                                         *)
(* Once progress says that a stop frame has completed, the last word the   *)
(* wire told the motor is that stop, nothing else is on its way, and this  *)
(* stays so until the next enable().                                       *)
(***************************************************************************)
CONSTANTS
    Motors,    \* the motors of one bus
    Confirming \* those whose drive reports its own status

VARIABLES
    requested, \* requested[m]: enable() is in force
    progress,  \* progress[m]: StopSnapshot::progress
    silent     \* silent[m]: the last frame for m is a stop, and none is on its way

Reported == {"TxComplete", "DriveConfirmed", "Unreachable"}

Keeps(m) ==
    /\ requested'[m] = requested[m]
    /\ progress'[m] = progress[m]

Enabled(m) ==
    /\ ~requested[m] /\ requested'[m]
    /\ progress'[m] = "None"

Disabled(m) ==
    /\ requested[m] /\ ~requested'[m]
    /\ progress'[m] = "Pending"

StopCompletes(m) ==
    /\ ~requested[m] /\ ~requested'[m]
    /\ silent[m]
    /\ progress[m] \in {"Pending", "TxComplete", "Unreachable"}
    /\ progress'[m] = "TxComplete"

DriveConfirms(m) ==
    /\ m \in Confirming
    /\ ~requested[m] /\ ~requested'[m]
    /\ progress[m] \in {"TxComplete", "Unreachable"}
    /\ progress'[m] = "DriveConfirmed"

GivesUp(m) ==
    /\ m \in Confirming
    /\ ~requested[m] /\ ~requested'[m]
    /\ progress[m] = "TxComplete"
    /\ progress'[m] = "Unreachable"

StaysSilent(m) == ~requested'[m] /\ progress'[m] \in Reported => silent'[m]

Init ==
    /\ requested = [m \in Motors |-> FALSE]
    /\ progress = [m \in Motors |-> "Pending"]
    /\ silent \in [Motors -> BOOLEAN]

(* One frame may stop several motors, so one step may move several.        *)
Next ==
    /\ requested' \in [Motors -> BOOLEAN]
    /\ progress' \in [Motors -> Reported \cup {"None", "Pending"}]
    /\ silent' \in [Motors -> BOOLEAN]
    /\ \A m \in Motors :
          /\ \/ Keeps(m) \/ Enabled(m) \/ Disabled(m)
             \/ StopCompletes(m) \/ DriveConfirms(m) \/ GivesUp(m)
          /\ StaysSilent(m)

Spec == Init /\ [][Next]_<<requested, progress, silent>>
=============================================================================
