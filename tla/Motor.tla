------------------------------- MODULE Motor -------------------------------
(***************************************************************************)
(* One motor endpoint of drivers/motor/motor.cpp.  A motor is a record     *)
(* whose fields carry the names of the C++ members; every operator below   *)
(* is the body of one critical section of Motor::lock_, as a function from *)
(* the record before to the record after.  Module CanBus owns the records  *)
(* and decides which thread runs which section when.                       *)
(*                                                                         *)
(* Times are abstracted to what the code tests: whether the last feedback  *)
(* is inside its timeout (field feedback), and whether a retry or an       *)
(* attempt is due, which is a parameter of the operators that test it.     *)
(* The Max constants stand for numeric_limits<uint64_t>::max(), where      *)
(* every counter of the code has a branch of its own.                      *)
(***************************************************************************)
EXTENDS Naturals

CONSTANTS
    MaxCancellation,  \* largest cancellation_generation_
    MaxProtocol,      \* largest protocol_generation_
    MaxEnable,        \* largest enable_generation
    MaxRevision,      \* largest revision of a staged command
    MaxOrder          \* largest callback order; that value itself is never given out

ASSUME CounterAssumption ==
    /\ MaxCancellation \in Nat \ {0}
    /\ MaxProtocol \in Nat \ {0}
    /\ MaxEnable \in Nat
    /\ MaxRevision \in Nat
    /\ MaxOrder \in Nat \ {0}

MotorState   == {"Offline", "Disabled", "Enabling", "Active", "Fault"}
AttemptKind  == {"None", "Enable", "ClearFault"}
StopProgress == {"None", "Pending", "TxComplete", "DriveConfirmed", "Unreachable"}
Freshness    == {"Never", "Fresh", "Stale"}
DriveStatus  == {"Unknown", "Disabled", "Enabled", "Fault"}
Order        == 0 .. MaxOrder

(* StagedCommand: the setpoint itself is dropped, its authority is kept. *)
Command ==
    [valid : BOOLEAN,
     revision : 0 .. MaxRevision,
     cancellation_generation : 0 .. MaxCancellation,
     computed_effort : BOOLEAN,
     sampled_enable_generation : 0 .. MaxEnable]

NoCommand ==
    [valid |-> FALSE, revision |-> 0, cancellation_generation |-> 0,
     computed_effort |-> FALSE, sampled_enable_generation |-> 0]

MotorRecord ==
    [enabled_requested : BOOLEAN,
     state : MotorState,
     output_permitted : BOOLEAN,
     enable_generation : 0 .. MaxEnable,
     cancellation_generation : 1 .. MaxCancellation,
     protocol_generation : 1 .. MaxProtocol,
     attempt : AttemptKind,
     attempt_tx_done : BOOLEAN,
     attempt_tx_completed_order : Order,
     probe_sent : BOOLEAN,
     progress : StopProgress,
     request_generation : 0 .. MaxCancellation,
     stop_pending : BOOLEAN,
     stop_tx_done : BOOLEAN,
     stop_tx_completed_order : Order,
     feedback : Freshness,
     feedback_event_order : Order,
     native_drive_status : DriveStatus,
     staged : Command,
     invalidated_effort_revision : 0 .. MaxRevision,
     output_command_valid : BOOLEAN]

(* A motor as markStarted() leaves it when CanBus::start() succeeds. *)
StartedMotor ==
    [enabled_requested |-> FALSE,
     state |-> "Offline",
     output_permitted |-> FALSE,
     enable_generation |-> 0,
     cancellation_generation |-> 1,
     protocol_generation |-> 1,
     attempt |-> "None",
     attempt_tx_done |-> FALSE,
     attempt_tx_completed_order |-> 0,
     probe_sent |-> FALSE,
     progress |-> "Pending",
     request_generation |-> 1,
     stop_pending |-> TRUE,
     stop_tx_done |-> FALSE,
     stop_tx_completed_order |-> 0,
     feedback |-> "Never",
     feedback_event_order |-> 0,
     native_drive_status |-> "Unknown",
     staged |-> NoCommand,
     invalidated_effort_revision |-> 0,
     output_command_valid |-> FALSE]

IsFresh(mt) == mt.feedback = "Fresh"

RestingState(mt) == IF IsFresh(mt) THEN "Disabled" ELSE "Offline"

NextProtocol(mt) ==
    IF mt.protocol_generation < MaxProtocol
    THEN mt.protocol_generation + 1
    ELSE mt.protocol_generation

-----------------------------------------------------------------------------
(* Calls of the application threads.                                       *)

Enable(mt) ==
    IF mt.enabled_requested
    THEN mt
    ELSE [mt EXCEPT !.enabled_requested = TRUE,
                    !.stop_pending = FALSE,
                    !.progress = "None",
                    !.request_generation = 0]

RequestDisable(mt) ==
    IF \/ ~mt.enabled_requested
       \/ mt.cancellation_generation = MaxCancellation
       \/ mt.protocol_generation = MaxProtocol
    THEN mt
    ELSE [mt EXCEPT !.enabled_requested = FALSE,
                    !.output_permitted = FALSE,
                    !.cancellation_generation = @ + 1,
                    !.protocol_generation = @ + 1,
                    !.staged.valid = FALSE,
                    !.attempt = "None",
                    !.attempt_tx_done = FALSE,
                    !.probe_sent = FALSE,
                    !.stop_pending = TRUE,
                    !.stop_tx_done = FALSE,
                    !.stop_tx_completed_order = 0,
                    !.progress = "Pending",
                    !.request_generation = mt.cancellation_generation + 1,
                    !.state = IF @ = "Fault" THEN @ ELSE RestingState(mt)]

(* stage(): sampled is the enable generation of the snapshot the caller    *)
(* computed from, which may be older than the current one.                 *)
Stage(mt, computed, sampled) ==
    IF mt.staged.revision = MaxRevision
    THEN mt
    ELSE [mt EXCEPT !.staged =
            [valid |-> TRUE,
             revision |-> mt.staged.revision + 1,
             cancellation_generation |-> mt.cancellation_generation,
             computed_effort |-> computed,
             sampled_enable_generation |-> sampled]]

InvalidateComputedEffort(mt) ==
    IF mt.staged.computed_effort
    THEN [mt EXCEPT !.invalidated_effort_revision = mt.staged.revision,
                    !.staged.valid = FALSE]
    ELSE mt

-----------------------------------------------------------------------------
(* Sections run by the bus I/O thread.                                     *)

MarkAttemptTxComplete(mt, kind, generation, order) ==
    IF /\ mt.enabled_requested
       /\ mt.attempt = kind
       /\ mt.protocol_generation = generation
    THEN [mt EXCEPT !.attempt_tx_done = TRUE,
                    !.attempt_tx_completed_order = order]
    ELSE mt

MarkPrepared(mt, generation) ==
    IF /\ mt.enabled_requested
       /\ mt.protocol_generation = generation
       /\ mt.state # "Active"
       /\ mt.enable_generation < MaxEnable
    THEN [mt EXCEPT !.enable_generation = @ + 1,
                    !.state = "Active",
                    !.output_permitted = TRUE,
                    !.attempt = "None",
                    !.attempt_tx_done = FALSE,
                    !.probe_sent = FALSE,
                    !.stop_pending = FALSE]
    ELSE mt

(* Mutants of MarkStopped: a second completion takes a confirmation back;  *)
(* the flag that asks for a stop frame is left set.                        *)
MarkStoppedAgain(mt, generation, order) ==
    IF ~mt.enabled_requested /\ mt.request_generation = generation
    THEN [mt EXCEPT !.progress = "TxComplete",
                    !.stop_pending = FALSE,
                    !.stop_tx_done = TRUE,
                    !.stop_tx_completed_order = order]
    ELSE mt

MarkStoppedStillPending(mt, generation, order) ==
    IF ~mt.enabled_requested /\ mt.request_generation = generation
    THEN [mt EXCEPT !.progress = IF @ = "DriveConfirmed" THEN @ ELSE "TxComplete",
                    !.stop_tx_done = TRUE,
                    !.stop_tx_completed_order = order]
    ELSE mt

(* markStopped(TxComplete, ...): its only caller reports a completed frame. *)
MarkStopped(mt, generation, order) ==
    IF /\ ~mt.enabled_requested
       /\ mt.request_generation = generation
    THEN [mt EXCEPT !.progress = IF @ = "DriveConfirmed" THEN @ ELSE "TxComplete",
                    !.stop_pending = FALSE,
                    !.stop_tx_done = TRUE,
                    !.stop_tx_completed_order = order]
    ELSE mt

MarkFaultCleared(mt, generation) ==
    IF /\ mt.enabled_requested
       /\ mt.attempt = "ClearFault"
       /\ mt.protocol_generation = generation
    THEN [mt EXCEPT !.attempt = "None",
                    !.attempt_tx_done = FALSE,
                    !.state = RestingState(mt),
                    !.output_permitted = FALSE]
    ELSE mt

(* reason "Communication" is FeedbackExpired, TransportError or RxOverflow;*)
(* "Other" is UnexpectedDisabled, the one other reason the code raises.    *)
RaiseFault(mt, reason) ==
    LET next == CASE reason = "DriveFault" -> "Fault"
                  [] reason = "Communication" -> "Offline"
                  [] OTHER -> "Disabled"
    IN  IF mt.state # next \/ reason = "Communication"
        THEN [mt EXCEPT !.output_permitted = FALSE,
                        !.protocol_generation = NextProtocol(mt),
                        !.attempt = "None",
                        !.attempt_tx_done = FALSE,
                        !.probe_sent = FALSE,
                        !.state = next]
        ELSE [mt EXCEPT !.output_permitted = FALSE]

(* The locked section of acceptDjiFeedback(). *)
AcceptDjiFeedback(mt) ==
    [mt EXCEPT !.feedback = "Fresh",
               !.state = IF @ = "Offline" /\ ~mt.enabled_requested
                         THEN "Disabled" ELSE @]

(* The locked section of acceptDmFeedback() for a frame that is not stale. *)
AcceptsDmFeedback(mt, order) == order # 0 /\ order > mt.feedback_event_order

StopConfirmed(mt, status, order) ==
    /\ status = "Disabled"
    /\ mt.stop_tx_done
    /\ mt.stop_tx_completed_order # 0
    /\ order > mt.stop_tx_completed_order
    /\ ~mt.enabled_requested

(* Mutant of AcceptDmFeedback: the state follows the drive while enabled.  *)
AcceptDmFeedbackAlways(mt, status, order, retryDue) ==
    [mt EXCEPT !.feedback = "Fresh",
               !.feedback_event_order = order,
               !.native_drive_status = status,
               !.progress = IF StopConfirmed(mt, status, order)
                            THEN "DriveConfirmed" ELSE @,
               !.state = IF status # "Fault" THEN "Disabled" ELSE @,
               !.stop_pending = \/ @
                                \/ /\ status = "Enabled"
                                   /\ ~mt.enabled_requested
                                   /\ retryDue]

AcceptDmFeedback(mt, status, order, retryDue) ==
    [mt EXCEPT !.feedback = "Fresh",
               !.feedback_event_order = order,
               !.native_drive_status = status,
               !.progress = IF StopConfirmed(mt, status, order)
                            THEN "DriveConfirmed" ELSE @,
               !.state = IF ~mt.enabled_requested /\ status # "Fault"
                         THEN "Disabled" ELSE @,
               !.stop_pending = \/ @
                                \/ /\ status = "Enabled"
                                   /\ ~mt.enabled_requested
                                   /\ retryDue]

(* What acceptDmFeedback() decides under the lock and does after releasing *)
(* it, with the protocol generation it saw.                                *)
(* Mutant of AttemptConfirmed: without the callback order.                 *)
AttemptConfirmedByAnyStatus(mt, kind, order) == mt.attempt = kind /\ mt.attempt_tx_done

AttemptConfirmed(mt, kind, order) ==
    /\ mt.attempt = kind
    /\ mt.attempt_tx_done
    /\ mt.attempt_tx_completed_order # 0
    /\ order > mt.attempt_tx_completed_order

ClearConfirmed(mt, status, order) ==
    AttemptConfirmed(mt, "ClearFault", order) /\ status = "Disabled"

EnableConfirmed(mt, status, order) ==
    /\ mt.enabled_requested
    /\ AttemptConfirmed(mt, "Enable", order)
    /\ status = "Enabled"

FollowUps == {"Nothing", "FaultCleared", "DriveFault", "UnexpectedDisabled", "Prepared"}

FollowUp(mt, status, order) ==
    IF ClearConfirmed(mt, status, order) THEN "FaultCleared"
    ELSE CASE status = "Fault" -> "DriveFault"
           [] mt.state = "Active" /\ status = "Disabled" -> "UnexpectedDisabled"
           [] status = "Enabled" /\ EnableConfirmed(mt, status, order) -> "Prepared"
           [] OTHER -> "Nothing"

ApplyFollowUp(mt, kind, generation) ==
    CASE kind = "FaultCleared" -> MarkFaultCleared(mt, generation)
      [] kind = "DriveFault" -> RaiseFault(mt, "DriveFault")
      [] kind = "UnexpectedDisabled" -> RaiseFault(mt, "Other")
      [] kind = "Prepared" -> MarkPrepared(mt, generation)
      [] OTHER -> mt

-----------------------------------------------------------------------------
(* The per-motor sections of CanBus::checkDeadlines().                     *)

ReportsFault(mt) == IsFresh(mt) /\ mt.native_drive_status = "Fault"

ExpireFeedback(mt) ==
    IF ~IsFresh(mt) /\ mt.state = "Active" THEN RaiseFault(mt, "Communication") ELSE mt

PrepareDji(mt) ==
    IF mt.enabled_requested /\ IsFresh(mt) /\ mt.state # "Active"
    THEN MarkPrepared(mt, mt.protocol_generation)
    ELSE mt

TimeOutAttempt(mt) ==
    [mt EXCEPT !.output_permitted = FALSE,
               !.protocol_generation = NextProtocol(mt),
               !.attempt = "None",
               !.attempt_tx_done = FALSE,
               !.probe_sent = FALSE,
               !.state = IF ReportsFault(mt) THEN "Fault" ELSE RestingState(mt)]

StartAttempt(mt) ==
    IF /\ mt.enabled_requested
       /\ mt.state # "Active"
       /\ mt.attempt = "None"
       /\ mt.protocol_generation < MaxProtocol
    THEN [mt EXCEPT !.protocol_generation = @ + 1,
                    !.attempt = IF ReportsFault(mt) THEN "ClearFault" ELSE "Enable",
                    !.attempt_tx_done = FALSE,
                    !.probe_sent = FALSE,
                    !.attempt_tx_completed_order = 0,
                    !.state = IF ReportsFault(mt) THEN "Fault" ELSE "Enabling"]
    ELSE mt

GiveUpOnStop(mt) ==
    IF ~mt.enabled_requested /\ mt.stop_tx_done /\ mt.progress = "TxComplete"
    THEN [mt EXCEPT !.progress = "Unreachable"]
    ELSE mt

(* What checkDeadlines() and buildTarget() require before a command moves  *)
(* the motor; expired is the newest revision older than command_timeout_ms.*)
MayMove(mt, command, expired) ==
    /\ mt.enabled_requested
    /\ mt.state = "Active"
    /\ mt.output_permitted
    /\ command.valid
    /\ command.cancellation_generation = mt.cancellation_generation
    /\ command.revision > expired
    /\ IsFresh(mt)
    /\ command.computed_effort =>
          /\ command.sampled_enable_generation = mt.enable_generation
          /\ command.revision > mt.invalidated_effort_revision
=============================================================================
