------------------------------- MODULE CanBus -------------------------------
(***************************************************************************)
(* A started CanBus (drivers/motor/can_bus.cpp) with its motors: the I/O   *)
(* thread ioMain(), the application threads that call enable(), disable(), *)
(* the setters and commit(), the CAN interrupt callbacks onRx() and        *)
(* onTxDone(), and, outside the program, the controller, the wire and the  *)
(* drives.                                                                 *)
(*                                                                         *)
(* An action is one critical section, or a run of them between which no    *)
(* other thread can tell the difference; pc says where the I/O thread is,  *)
(* and its local variables live in todo, event, follow, budget, candidate.  *)
(* Callbacks are atomic: the interrupt pre-empts every thread.             *)
(***************************************************************************)
EXTENDS Motor, Sequences, FiniteSets

CONSTANTS
    Motors,        \* the attached motors
    Dm,            \* those that speak the DM protocol; the others are DJI
    HoldsPosition, \* DM motors in PositionVelocity mode
    Units,         \* units_: a sequence of sets of motors, one set per frame
    RxDepth,       \* kRxDepth
    MaxSequence,   \* largest published_sequence_
    MaxRecoveries, \* bound: bus faults stop once bus_generation_ reaches it
    DriveUpsets    \* whether drives may fault or lose power by themselves

IsPartition(S) ==
    /\ UNION S = Motors
    /\ \A a, b \in S : a # b => a \cap b = {}

ASSUME TopologyAssumption ==
    /\ IsFiniteSet(Motors)
    /\ Dm \subseteq Motors
    /\ HoldsPosition \subseteq Dm
    /\ Units \in Seq(SUBSET Motors) /\ Units # <<>>
    /\ \A u \in DOMAIN Units :
          /\ Units[u] # {}
          /\ \A m \in Units[u] \cap Dm : Units[u] = {m}
    /\ \A u, v \in DOMAIN Units : u # v => Units[u] \cap Units[v] = {}
    /\ IsPartition({Units[u] : u \in DOMAIN Units})
    /\ RxDepth \in Nat \ {0, 1}
    /\ MaxSequence \in Nat
    /\ MaxRecoveries \in Nat \ {0}
    /\ DriveUpsets \in BOOLEAN

VARIABLES
    motor,      \* motor[m]: the Motor object
    expired,    \* newest revision of m's commands older than the timeout
    published,  \* published_: the command of each motor in the last commit
    sequence,   \* published_sequence_
    targets,    \* targets_remaining_
    cursor,     \* target_cursor_ and protocol_cursor_
    protocolFirst, \* protocol_before_target_
    bus,        \* status_.state, bus_generation_ and the recovery flags
    order,      \* next_callback_order_
    rx,         \* rx_queue_ and rx_overflowed_
    inFlight,   \* in_flight_
    pc, todo, event, follow, budget, candidate, \* the I/O thread
    hw,         \* the controller: its state and the frame it holds
    wire,       \* the last thing the wire told each motor to do
    drive,      \* what each DM drive is doing
    replying    \* the DM drives that owe a status frame

appVars  == <<expired, published, sequence>>
pumpVars == <<targets, cursor, protocolFirst>>
ioVars   == <<pc, todo, event, follow, budget, candidate>>
cbVars   == <<order, rx, inFlight>>
extVars  == <<hw, wire, drive, replying>>
vars     == <<motor, appVars, pumpVars, bus, cbVars, ioVars, extVars>>

UnitIds  == DOMAIN Units
NUnits   == Len(Units)

Purpose == {"Target", "SafeOutput", "Enable", "Probe", "ClearFault"}
PumpStage == {"Stop", "First", "Target", "Last"}
Content == {"Nothing", "Zero", "Disable", "Enable", "Clear", "Neutral", "Motion"}

(* InFlight, RxEvent, CandidateMotor and TxCandidate; Follow is what       *)
(* acceptDmFeedback() has decided to do once its lock is released.         *)
InFlight ==
    [busy : BOOLEAN, callback_seen : BOOLEAN, ok : BOOLEAN, order : Order,
     purpose : Purpose, unit : UnitIds, generation : Nat,
     protocol_generation : 0 .. MaxProtocol,
     stop_generations : [Motors -> 0 .. MaxCancellation],
     frame : [Motors -> Content]]

RxEvent == [motor : Motors, status : DriveStatus, generation : Nat, order : Order]

Follow == [motor : Motors, kind : FollowUps, generation : 0 .. MaxProtocol]

CandidateMotor ==
    [command : Command, included : BOOLEAN, enabled_requested : BOOLEAN,
     state : MotorState, output_permitted : BOOLEAN,
     enable_generation : 0 .. MaxEnable,
     cancellation_generation : 0 .. MaxCancellation,
     protocol_generation : 0 .. MaxProtocol,
     stop_generation : 0 .. MaxCancellation,
     motion : BOOLEAN, safe_action : BOOLEAN]

Candidate ==
    [unit : UnitIds, purpose : Purpose, generation : Nat, sequence : 0 .. MaxSequence,
     stage : PumpStage, clear_probe : BOOLEAN, motors : [Motors -> CandidateMotor],
     frame : [Motors -> Content]]

NoFrame == [m \in Motors |-> "Nothing"]

Idle ==
    [busy |-> FALSE, callback_seen |-> FALSE, ok |-> FALSE, order |-> 0,
     purpose |-> "Target", unit |-> 1, generation |-> 0, protocol_generation |-> 0,
     stop_generations |-> [m \in Motors |-> 0], frame |-> NoFrame]

NoEvent == [motor |-> CHOOSE m \in Motors : TRUE, status |-> "Unknown",
            generation |-> 0, order |-> 0]

NoFollow == [motor |-> CHOOSE m \in Motors : TRUE, kind |-> "Nothing", generation |-> 0]

NoCapture ==
    [m \in Motors |->
       [command |-> NoCommand, included |-> FALSE, enabled_requested |-> FALSE,
        state |-> "Offline", output_permitted |-> FALSE, enable_generation |-> 0,
        cancellation_generation |-> 0, protocol_generation |-> 0,
        stop_generation |-> 0, motion |-> FALSE, safe_action |-> FALSE]]

NoCandidate ==
    [unit |-> 1, purpose |-> "Target", generation |-> 0, sequence |-> 0,
     stage |-> "Stop", clear_probe |-> FALSE, motors |-> NoCapture,
     frame |-> NoFrame]

Init ==
    /\ motor = [m \in Motors |-> StartedMotor]
    /\ expired = [m \in Motors |-> 0]
    /\ published = [m \in Motors |-> NoCommand]
    /\ sequence = 0
    /\ targets = 0
    /\ cursor = [target |-> 1, protocol |-> 1]
    /\ protocolFirst = FALSE
    /\ bus = [state |-> "Running", generation |-> 1, started |-> TRUE, restarted |-> FALSE]
    /\ order = 1
    /\ rx = [queue |-> <<>>, overflowed |-> FALSE]
    /\ inFlight = Idle
    /\ pc = "ProcessTx"
    /\ todo = {}
    /\ event = NoEvent
    /\ follow = NoFollow
    /\ budget = 0
    /\ candidate = NoCandidate
    /\ hw = [state |-> "Active", frame |-> "None"]
    /\ wire = NoFrame
    /\ drive \in [Motors -> {"Disabled", "Enabled"}]
    /\ \A m \in Motors \ Dm : drive[m] = "Disabled"
    /\ replying = {}

-----------------------------------------------------------------------------
(* Application threads.  The setters and commit() of one bus belong to one *)
(* publisher; enable(), disable() and the invalidation may come from any.  *)

Call(m, after) ==
    /\ motor[m] # after  \* a call that is refused or changes nothing is no step
    /\ motor' = [motor EXCEPT ![m] = after]
    /\ UNCHANGED <<appVars, pumpVars, bus, cbVars, ioVars, extVars>>

CallEnable(m)  == Call(m, Enable(motor[m]))
CallDisable(m) == Call(m, RequestDisable(motor[m]))
CallSetter(m, computed, sampled) ==
    /\ sampled <= motor[m].enable_generation
    /\ Call(m, Stage(motor[m], computed, sampled))
CallInvalidate(m) == Call(m, InvalidateComputedEffort(motor[m]))

Commit ==
    /\ sequence < MaxSequence
    /\ sequence' = sequence + 1
    /\ published' = [m \in Motors |-> motor[m].staged]
    /\ targets' = NUnits
    /\ UNCHANGED <<motor, expired, cursor, protocolFirst, bus, cbVars, ioVars, extVars>>

App ==
    \/ \E m \in Motors :
          \/ CallEnable(m)
          \/ CallDisable(m)
          \/ CallInvalidate(m)
          \/ \E computed \in BOOLEAN, sampled \in 0 .. MaxEnable : CallSetter(m, computed, sampled)
    \/ Commit

-----------------------------------------------------------------------------
(* Interrupt callbacks.                                                    *)

(* recordCallbackOrder(): at exhaustion it hands out 0, which confirms     *)
(* nothing.                                                                *)
GivenOrder == IF order = MaxOrder THEN 0 ELSE order
(* Mutant of RecordCallbackOrder: the order runs past its last value.      *)
RecordCallbackOrderForever == order' = order + 1

RecordCallbackOrder == order' = IF order = MaxOrder THEN order ELSE order + 1

OnRx(m, status) ==
    /\ RecordCallbackOrder
    /\ rx' = IF bus.state # "Running"
             THEN rx
             ELSE IF Len(rx.queue) = RxDepth
             THEN [rx EXCEPT !.overflowed = TRUE]
             ELSE [rx EXCEPT !.queue = Append(@,
                      [motor |-> m, status |-> status,
                       generation |-> bus.generation, order |-> GivenOrder])]
    /\ UNCHANGED <<motor, appVars, pumpVars, bus, inFlight, ioVars>>

OnTxDone(ok) ==
    /\ RecordCallbackOrder
    /\ inFlight' = IF inFlight.busy /\ ~inFlight.callback_seen
                   THEN [inFlight EXCEPT !.callback_seen = TRUE,
                                         !.ok = ok,
                                         !.order = GivenOrder]
                   ELSE inFlight
    /\ UNCHANGED <<motor, appVars, pumpVars, bus, rx, ioVars>>

-----------------------------------------------------------------------------
(* The controller, the wire, the drives and the clock: outside the program.*)

MayFail == bus.generation < MaxRecoveries

AfterFrame(status, content) ==
    IF status = "Fault" THEN IF content = "Clear" THEN "Disabled" ELSE status
    ELSE CASE content = "Enable" -> "Enabled"
           [] content = "Disable" -> "Disabled"
           [] OTHER -> status

(* The frame goes out.  A DM drive that hears it obeys and will answer with*)
(* its status; TX completes even when the addressee missed the frame.      *)
Transmit(heard) ==
    /\ hw.frame = "Queued" /\ hw.state = "Active"
    /\ hw' = [hw EXCEPT !.frame = "Sent"]
    /\ wire' = [m \in Motors |-> IF inFlight.frame[m] = "Nothing" THEN wire[m]
                                 ELSE inFlight.frame[m]]
    /\ LET hearers == {m \in Dm : heard /\ inFlight.frame[m] # "Nothing"}
       IN  /\ drive' = [m \in Motors |-> IF m \in hearers
                           THEN AfterFrame(drive[m], inFlight.frame[m]) ELSE drive[m]]
           /\ replying' = replying \cup hearers
    /\ UNCHANGED <<motor, appVars, pumpVars, bus, cbVars, ioVars>>

TxSucceeds ==
    /\ hw.frame = "Sent"
    /\ hw' = [hw EXCEPT !.frame = "None"]
    /\ OnTxDone(TRUE)
    /\ UNCHANGED <<wire, drive, replying>>

(* An error, or the abort that can_stop() owes to every pending frame.     *)
TxFails ==
    /\ hw.frame # "None"
    /\ MayFail \/ ~bus.started
    /\ hw' = [hw EXCEPT !.frame = "None"]
    /\ OnTxDone(FALSE)
    /\ UNCHANGED <<wire, drive, replying>>

RoomForRx == Len(rx.queue) < RxDepth \/ MayFail

(* again: the sender saw an error in the last bits and repeats the frame   *)
(* that the receivers have taken.                                          *)
DmReplies(m, again) ==
    /\ m \in replying /\ hw.state = "Active" /\ RoomForRx
    /\ replying' = IF again THEN replying ELSE replying \ {m}
    /\ OnRx(m, drive[m])
    /\ UNCHANGED <<hw, wire, drive>>

DjiReports(m) ==
    /\ m \notin Dm /\ hw.state = "Active" /\ RoomForRx
    /\ OnRx(m, "Unknown")
    /\ UNCHANGED extVars

FeedbackAges(m) ==
    /\ IsFresh(motor[m])
    /\ motor' = [motor EXCEPT ![m].feedback = "Stale"]
    /\ UNCHANGED <<appVars, pumpVars, bus, cbVars, ioVars, extVars>>

CommandAges(m) ==
    /\ expired[m] < motor[m].staged.revision
    /\ expired' = [expired EXCEPT ![m] = @ + 1]
    /\ UNCHANGED <<motor, published, sequence, pumpVars, bus, cbVars, ioVars, extVars>>

DriveFaults(m) ==
    /\ DriveUpsets /\ m \in Dm /\ drive[m] = "Enabled"
    /\ \E s \in {"Fault", "Disabled"} : drive' = [drive EXCEPT ![m] = s]
    /\ UNCHANGED <<motor, appVars, pumpVars, bus, cbVars, ioVars, hw, wire, replying>>

ControllerFails ==
    /\ hw.state = "Active" /\ MayFail
    /\ \E s \in {"BusOff", "Stopped"} : hw' = [hw EXCEPT !.state = s]
    /\ UNCHANGED <<motor, appVars, pumpVars, bus, cbVars, ioVars, wire, drive, replying>>

BusOffEnds ==
    /\ hw.state = "BusOff"
    /\ hw' = [hw EXCEPT !.state = "Active"]
    /\ UNCHANGED <<motor, appVars, pumpVars, bus, cbVars, ioVars, wire, drive, replying>>

Environment ==
    \/ \E heard \in BOOLEAN : Transmit(heard)
    \/ TxSucceeds \/ TxFails
    \/ \E m \in Motors :
          \/ \E again \in BOOLEAN : DmReplies(m, again)
          \/ DjiReports(m) \/ FeedbackAges(m) \/ CommandAges(m) \/ DriveFaults(m)
    \/ ControllerFails \/ BusOffEnds

-----------------------------------------------------------------------------
(* The I/O thread, ioMain().  One pass: ProcessTx, TakeOverflow, ProcessRx *)
(* ..., CheckBus, CheckMotor ..., the stages of pumpTx(), Build and Submit.*)

(* Mutant of EnterRecovery: a motor whose feedback is old is skipped.      *)
EnterRecoveryOfFresh(back) ==
    /\ pc' = back
    /\ IF bus.state = "Recovering"
       THEN UNCHANGED <<bus, motor>>
       ELSE /\ bus' = [bus EXCEPT !.state = "Recovering",
                                  !.generation = @ + 1,
                                  !.restarted = FALSE]
            /\ motor' = [m \in Motors |-> IF IsFresh(motor[m])
                            THEN RaiseFault(motor[m], "Communication") ELSE motor[m]]

(* enterRecovery(): no other thread reads the bus state and a motor in one *)
(* section, so the raiseFault() loop belongs to the step that changes it.  *)
EnterRecovery(back) ==
    /\ pc' = back
    /\ IF bus.state = "Recovering"
       THEN UNCHANGED <<bus, motor>>
       ELSE /\ bus' = [bus EXCEPT !.state = "Recovering",
                                  !.generation = @ + 1,
                                  !.restarted = FALSE]
            /\ motor' = [m \in Motors |-> RaiseFault(motor[m], "Communication")]

Completed == inFlight.busy /\ inFlight.callback_seen

(* Mutant of AfterCompletion: any completed frame of a unit that asks for  *)
(* a stop is taken for its stop frame.                                     *)
AfterCompletionOfTarget(m) ==
    IF m \in Units[inFlight.unit]
    THEN MarkStopped(motor[m], motor[m].request_generation, inFlight.order)
    ELSE motor[m]

(* What the completed frame means to motor m.                              *)
AfterCompletion(m) ==
    CASE inFlight.purpose = "SafeOutput" /\ inFlight.stop_generations[m] # 0 ->
           MarkStopped(motor[m], inFlight.stop_generations[m], inFlight.order)
      [] inFlight.purpose \in {"Enable", "ClearFault"} /\ m \in Units[inFlight.unit] ->
           MarkAttemptTxComplete(motor[m], inFlight.purpose,
                                 inFlight.protocol_generation, inFlight.order)
      [] /\ inFlight.purpose = "Probe" /\ m \in Units[inFlight.unit]
         /\ motor[m].protocol_generation = inFlight.protocol_generation
         /\ motor[m].attempt # "None" -> [motor[m] EXCEPT !.probe_sent = TRUE]
      [] OTHER -> motor[m]

(* Mutant of ProcessTx: a failed transmission counts as a completed one.   *)
ProcessTxUnchecked(late) ==
    /\ pc = "ProcessTx" /\ Completed
    /\ late => MayFail
    /\ inFlight' = Idle
    /\ IF inFlight.generation # bus.generation
       THEN UNCHANGED motor
       ELSE motor' = [m \in Motors |-> AfterCompletion(m)]
    /\ pc' = "TakeOverflow"
    /\ UNCHANGED <<appVars, pumpVars, bus, order, rx, todo, event, follow, budget, candidate,
                   extVars>>

(* late: the callback came after tx_timeout_ms.                            *)
ProcessTx(late) ==
    /\ pc = "ProcessTx" /\ Completed
    /\ late => MayFail
    /\ inFlight' = Idle
    /\ CASE inFlight.generation # bus.generation ->
              pc' = "TakeOverflow" /\ UNCHANGED <<motor, bus>>
         [] inFlight.generation = bus.generation /\ (late \/ ~inFlight.ok) ->
              EnterRecovery("TakeOverflow")
         [] OTHER ->
              /\ motor' = [m \in Motors |-> AfterCompletion(m)]
              /\ pc' = "TakeOverflow" /\ UNCHANGED bus
    /\ UNCHANGED <<appVars, pumpVars, order, rx, todo, event, follow, budget, candidate,
                   extVars>>

TakeOverflow ==
    /\ pc = "TakeOverflow" \/ (pc = "ProcessTx" /\ ~Completed)
    /\ rx' = [rx EXCEPT !.overflowed = FALSE]
    /\ budget' = RxDepth \div 2
    /\ IF rx.overflowed
       THEN EnterRecovery("ProcessRx")
       ELSE pc' = "ProcessRx" /\ UNCHANGED <<motor, bus>>
    /\ UNCHANGED <<appVars, pumpVars, order, inFlight, todo, event, follow, candidate,
                   extVars>>

(* acceptDjiFeedback() / acceptDmFeedback() on the record mt.  A DJI frame *)
(* with the millisecond of the one before it is stale.                     *)
Accept(e, mt, sameMs, retryDue) ==
    /\ budget' = budget - 1
    /\ IF e.motor \notin Dm
       THEN /\ sameMs => mt.feedback # "Never"
            /\ motor' = [motor EXCEPT ![e.motor] = IF sameMs THEN mt ELSE AcceptDjiFeedback(mt)]
            /\ pc' = "ProcessRx" /\ UNCHANGED follow
       ELSE IF ~AcceptsDmFeedback(mt, e.order)
       THEN /\ motor' = [motor EXCEPT ![e.motor] = mt]
            /\ pc' = "ProcessRx" /\ UNCHANGED follow
       ELSE LET kind == FollowUp(mt, e.status, e.order) IN
            /\ motor' = [motor EXCEPT ![e.motor] =
                            AcceptDmFeedback(mt, e.status, e.order, retryDue)]
            /\ IF kind = "Nothing"
               THEN pc' = "ProcessRx" /\ UNCHANGED follow
               ELSE /\ follow' = [motor |-> e.motor, kind |-> kind,
                                  generation |-> mt.protocol_generation]
                    /\ pc' = "FollowUp"

(* expireFeedbackBeforeAccept(): gap says that this frame came later than  *)
(* the timeout after the one before.                                       *)
Expires(e, gap) ==
    LET mt == motor[e.motor] IN
    /\ gap
    /\ mt.feedback = "Stale"
    /\ mt.state = "Active"
    /\ e.motor \in Dm => e.order > mt.feedback_event_order

ProcessRx(gap, sameMs, retryDue) ==
    /\ pc = "ProcessRx" /\ budget > 0 /\ rx.queue # <<>>
    /\ rx' = [rx EXCEPT !.queue = Tail(@)]
    /\ LET e == Head(rx.queue) IN
       CASE e.generation # bus.generation ->
              /\ budget' = budget - 1
              /\ UNCHANGED <<motor, pc, event, follow>>
         [] e.generation = bus.generation /\ Expires(e, gap) ->
              /\ motor' = [motor EXCEPT ![e.motor] = RaiseFault(@, "Communication")]
              /\ event' = e
              /\ pc' = "AcceptFeedback"
              /\ UNCHANGED <<follow, budget>>
         [] OTHER -> Accept(e, motor[e.motor], sameMs, retryDue) /\ UNCHANGED event
    /\ UNCHANGED <<appVars, pumpVars, bus, order, inFlight, todo,
                   candidate, extVars>>

AcceptFeedback(sameMs, retryDue) ==
    /\ pc = "AcceptFeedback"
    /\ Accept(event, motor[event.motor], sameMs, retryDue)
    /\ event' = NoEvent
    /\ UNCHANGED <<appVars, pumpVars, bus, cbVars, todo, candidate,
                   extVars>>

(* acceptDmFeedback() after its lock is released.                          *)
FollowUpFeedback ==
    /\ pc = "FollowUp"
    /\ motor' = [motor EXCEPT ![follow.motor] = ApplyFollowUp(@, follow.kind, follow.generation)]
    /\ follow' = NoFollow
    /\ pc' = "ProcessRx"
    /\ UNCHANGED <<appVars, pumpVars, bus, cbVars, todo, event, budget,
                   candidate, extVars>>

-----------------------------------------------------------------------------
(* checkDeadlines()                                                        *)

RxDone == pc = "ProcessRx" /\ (budget = 0 \/ rx.queue = <<>>)

(* Mutant of CheckBus: a frame that timed out is given up at once.         *)
CheckBusGivesUp ==
    /\ RxDone /\ bus.state = "Running"
    /\ \/ inFlight.busy /\ ~inFlight.callback_seen /\ MayFail
       \/ hw.state # "Active"
    /\ budget' = 0
    /\ inFlight' = Idle
    /\ EnterRecovery("ProcessTx")
    /\ UNCHANGED <<appVars, pumpVars, order, rx, todo, event, follow, candidate, extVars>>

(* The frame in flight is older than tx_timeout_ms, or the controller is   *)
(* off the bus.                                                            *)
CheckBus ==
    /\ RxDone /\ bus.state = "Running"
    /\ \/ inFlight.busy /\ ~inFlight.callback_seen /\ MayFail
       \/ hw.state # "Active"
    /\ budget' = 0
    /\ EnterRecovery("ProcessTx")
    /\ UNCHANGED <<appVars, pumpVars, cbVars, todo, event, follow, candidate, extVars>>

(* timeout: the attempt is older than enable_timeout_ms; due: next_retry_ms*)
(* has come; late: the stop frame is older than enable_timeout_ms.         *)
Deadlines(m, timeout, due, late) ==
    LET live   == ExpireFeedback(motor[m])
        timed  == IF timeout THEN TimeOutAttempt(live) ELSE live
        begun  == IF due THEN StartAttempt(timed) ELSE timed
    IN  IF m \notin Dm THEN PrepareDji(live)
        ELSE IF late THEN GiveUpOnStop(begun) ELSE begun

(* The motors this pass has still to look at.                              *)
Unchecked ==
    CASE pc = "CheckMotors" -> todo
      [] RxDone /\ bus.state = "Running" /\ hw.state = "Active" -> Motors
      [] OTHER -> {}

CheckMotor(m, timeout, due, late) ==
    /\ m \in Unchecked
    /\ timeout => motor[m].attempt # "None" /\ ~due
    /\ m \notin Dm => ~timeout /\ ~due /\ ~late
    /\ LET mt    == Deadlines(m, timeout, due, late)
           valid == MayMove(mt, published[m], expired[m])
       IN  /\ motor' = [motor EXCEPT ![m] = [mt EXCEPT !.output_command_valid = valid]]
           /\ targets' = IF mt.output_command_valid # valid THEN NUnits ELSE targets
    /\ todo' = Unchecked \ {m}
    /\ pc' = IF Unchecked = {m} THEN "Pump" ELSE "CheckMotors"
    /\ budget' = IF Unchecked = {m} THEN NUnits ELSE 0
    /\ UNCHANGED <<appVars, cursor, protocolFirst, bus, cbVars, event, follow, candidate,
                   extVars>>

-----------------------------------------------------------------------------
(* recoverController()                                                     *)

Recovering == RxDone /\ bus.state = "Recovering" /\ pc' = "ProcessTx" /\ budget' = 0

(* next_recovery_ms_ has not come, can_stop() or can_start() failed, or the*)
(* controller is still bus-off.                                            *)
WaitInRecovery ==
    /\ Recovering
    /\ UNCHANGED <<motor, appVars, pumpVars, bus, cbVars, todo, event,
                   follow, candidate, extVars>>

StopController ==
    /\ Recovering
    /\ ~bus.restarted /\ bus.started
    /\ bus' = [bus EXCEPT !.started = FALSE]
    /\ hw' = [hw EXCEPT !.state = "Stopped"]
    /\ UNCHANGED <<motor, appVars, pumpVars, cbVars, todo, event,
                   follow, candidate, wire, drive, replying>>

StartController ==
    /\ Recovering
    /\ ~bus.restarted /\ ~bus.started
    /\ ~inFlight.busy
    /\ bus' = [bus EXCEPT !.started = TRUE, !.restarted = TRUE]
    /\ \E s \in {"Active", "BusOff"} : hw' = [hw EXCEPT !.state = s]
    /\ UNCHANGED <<motor, appVars, pumpVars, cbVars, todo, event,
                   follow, candidate, wire, drive, replying>>

(* Mutant of RestartAgain: a controller that stopped again is not noticed. *)
RestartAgainOnBusOff ==
    /\ Recovering
    /\ bus.restarted /\ hw.state = "BusOff"
    /\ bus' = [bus EXCEPT !.restarted = FALSE]
    /\ UNCHANGED <<motor, appVars, pumpVars, cbVars, todo, event,
                   follow, candidate, extVars>>

RestartAgain ==
    /\ Recovering
    /\ bus.restarted /\ hw.state = "Stopped"
    /\ bus' = [bus EXCEPT !.restarted = FALSE]
    /\ UNCHANGED <<motor, appVars, pumpVars, cbVars, todo, event,
                   follow, candidate, extVars>>

Recover ==
    /\ Recovering
    /\ bus.restarted /\ hw.state = "Active" /\ ~inFlight.busy
    /\ bus' = [bus EXCEPT !.state = "Running"]
    /\ targets' = NUnits
    /\ UNCHANGED <<motor, appVars, cursor, protocolFirst, cbVars, todo,
                   event, follow, candidate, extVars>>

-----------------------------------------------------------------------------
(* pumpTx().  Pending stops go first; then, when the last frame was a      *)
(* target, the protocol; then targets; then the protocol.  The scans read  *)
(* the motors one after the other, but what they choose is captured afresh *)
(* in Build.                                                               *)

Offset(from, u) == (u + NUnits - from) % NUnits
Following(u)    == (u % NUnits) + 1

(* due: the DM motors whose next_retry_ms_ has come.                       *)
WantsStop(m, stopsOnly, due) ==
    /\ ~motor[m].enabled_requested
    /\ \/ motor[m].stop_pending
       \/ /\ ~stopsOnly
          /\ m \in Dm /\ m \in due
          /\ motor[m].progress # "DriveConfirmed" \/ ~IsFresh(motor[m])

WantsProtocol(m) ==
    /\ m \in Dm
    /\ motor[m].enabled_requested
    /\ motor[m].attempt # "None"
    /\ ~motor[m].attempt_tx_done \/ ~motor[m].probe_sent

Demands(u, stopsOnly, due) ==
    \E m \in Units[u] : WantsStop(m, stopsOnly, due) \/ (~stopsOnly /\ WantsProtocol(m))

PurposeOf(u, stopsOnly, due) ==
    IF \E m \in Units[u] : WantsStop(m, stopsOnly, due)
    THEN "SafeOutput"
    ELSE LET mt == motor[CHOOSE m \in Units[u] : TRUE]
         IN  IF mt.attempt_tx_done THEN "Probe" ELSE mt.attempt

Take(u, purpose, stage) ==
    /\ candidate' = [NoCandidate EXCEPT
          !.unit = u, !.purpose = purpose, !.stage = stage,
          !.clear_probe = purpose = "Probe" /\ \E m \in Units[u] : motor[m].attempt = "ClearFault"]
    /\ pc' = "Build"

(* The scan of pumpProtocol() over the units it has not looked at yet stops*)
(* at the first one that demands a frame; todo keeps the rest, where it    *)
(* goes on when that unit turns out to have no frame to send.              *)
TakeProtocol(scan, stage, due) ==
    \E u \in scan :
        /\ Demands(u, stage = "Stop", due)
        /\ \A v \in scan : Demands(v, stage = "Stop", due) =>
              Offset(cursor.protocol, u) <= Offset(cursor.protocol, v)
        /\ Take(u, PurposeOf(u, stage = "Stop", due), stage)
        /\ cursor' = [cursor EXCEPT !.protocol = Following(u)]
        /\ todo' = {v \in scan : Offset(cursor.protocol, v) > Offset(cursor.protocol, u)}
        /\ UNCHANGED <<targets, budget>>

TakeTarget ==
    /\ Take(cursor.target, "Target", "Target")
    /\ cursor' = [cursor EXCEPT !.target = Following(@)]
    /\ targets' = targets - 1
    /\ budget' = budget - 1
    /\ todo' = {}

EndPump ==
    /\ pc' = "ProcessTx" /\ todo' = {} /\ budget' = 0
    /\ UNCHANGED <<candidate, cursor, targets>>

(* pc tells how far the pass has come: "Pump" at its start, "First" and    *)
(* "Last" inside the scan before and the one after the targets.            *)
Pump(due) ==
    LET stops == {u \in UnitIds : Demands(u, TRUE, due)}
        first == IF pc = "First" THEN todo
                 ELSE IF pc = "Pump" /\ protocolFirst THEN UnitIds ELSE {}
        last  == IF pc = "Last" THEN todo ELSE UnitIds
        Found(scan) == \E u \in scan : Demands(u, FALSE, due)
    IN  /\ pc \in {"Pump", "First", "Targets", "Last"}
        /\ IF inFlight.busy THEN EndPump
           ELSE IF pc = "Pump" /\ stops # {} THEN TakeProtocol(UnitIds, "Stop", due)
           ELSE IF Found(first) THEN TakeProtocol(first, "First", due)
           ELSE IF pc # "Last" /\ targets > 0 /\ budget > 0 THEN TakeTarget
           ELSE IF Found(last) THEN TakeProtocol(last, "Last", due)
           ELSE EndPump
        /\ UNCHANGED <<motor, appVars, protocolFirst, bus, cbVars, 
                       event, follow>>
        /\ UNCHANGED extVars

(* captureCandidate(): what the I/O thread saw of motor m, with the command*)
(* of the last publication and buildTarget()'s verdict on it.              *)
Captured(m) ==
    LET mt == motor[m]
    IN  [command |-> published[m],
         included |-> TRUE,
         enabled_requested |-> mt.enabled_requested,
         state |-> mt.state,
         output_permitted |-> mt.output_permitted,
         enable_generation |-> mt.enable_generation,
         cancellation_generation |-> mt.cancellation_generation,
         protocol_generation |-> mt.protocol_generation,
         stop_generation |-> mt.request_generation,
         motion |-> /\ candidate.purpose \in {"Target", "SafeOutput"}
                    /\ candidate.purpose = "SafeOutput" => m \notin Dm
                    /\ MayMove(mt, published[m], expired[m]),
         safe_action |-> candidate.purpose = "SafeOutput" /\ ~mt.enabled_requested]

(* buildNeutral().                                                         *)
Neutral(m) ==
    IF m \in HoldsPosition /\ motor[m].feedback = "Never" THEN "Nothing" ELSE "Neutral"

(* buildTarget(), buildSafety(), buildNeutral() and the special frames; a  *)
(* unit without a frame (-ENOENT) gets "Nothing".                          *)
Encoded(m) ==
    IF m \notin Dm THEN IF Captured(m).motion THEN "Motion" ELSE "Zero"
    ELSE CASE candidate.purpose = "SafeOutput" -> "Disable"
           [] candidate.purpose = "Enable" -> "Enable"
           [] candidate.purpose = "ClearFault" -> "Clear"
           [] candidate.purpose = "Probe" -> IF candidate.clear_probe THEN "Disable" ELSE Neutral(m)
           [] OTHER -> IF Captured(m).motion
                       THEN "Motion"
                       ELSE IF motor[m].enabled_requested /\ motor[m].state = "Active"
                       THEN Neutral(m)
                       ELSE "Nothing"

Build ==
    /\ pc = "Build"
    /\ LET unit  == Units[candidate.unit]
           frame == [m \in Motors |-> IF m \in unit THEN Encoded(m) ELSE "Nothing"]
           built == \E m \in Motors : frame[m] # "Nothing"
       IN  /\ candidate' = IF built
                THEN [candidate EXCEPT
                        !.generation = bus.generation,
                        !.sequence = sequence,
                        !.motors = [m \in Motors |-> IF m \in unit THEN Captured(m)
                                                     ELSE NoCapture[m]],
                        !.frame = frame]
                ELSE NoCandidate
           /\ pc' = IF built THEN "Submit"
                     ELSE IF candidate.purpose = "Target" THEN "Targets" ELSE candidate.stage
           /\ todo' = IF built THEN {} ELSE todo
           /\ budget' = IF built THEN 0 ELSE budget
           /\ motor' = [m \in Motors |->
                IF ~built /\ candidate.purpose = "Probe" /\ m \in unit
                THEN [motor[m] EXCEPT !.probe_sent = TRUE] ELSE motor[m]]
    /\ UNCHANGED <<appVars, pumpVars, bus, cbVars, event, follow,
                   extVars>>

(* submitCandidate(): what it checks again, under all the locks.           *)
StillAuthorised(m) ==
    LET entry == candidate.motors[m]
        mt    == motor[m]
    IN  /\ mt.cancellation_generation = entry.cancellation_generation
        /\ mt.protocol_generation = entry.protocol_generation
        /\ mt.enabled_requested = entry.enabled_requested
        /\ mt.state = entry.state
        /\ mt.enable_generation = entry.enable_generation
        /\ mt.output_permitted = entry.output_permitted
        /\ entry.motion =>
              /\ entry.command.revision > expired[m]
              /\ IsFresh(mt)
              /\ entry.command.computed_effort =>
                    entry.command.revision > mt.invalidated_effort_revision
        /\ candidate.purpose \in {"Enable", "ClearFault"} =>
              mt.enabled_requested /\ mt.attempt = candidate.purpose /\ ~mt.attempt_tx_done
        /\ candidate.purpose = "Probe" =>
              mt.enabled_requested /\ mt.attempt # "None" /\ mt.attempt_tx_done
        /\ entry.safe_action => mt.request_generation = entry.stop_generation

(* Mutant of Authorised: of a shared frame only one motor is checked.      *)
AuthorisedForOne ==
    /\ ~inFlight.busy
    /\ candidate.generation = bus.generation
    /\ \E m \in Motors : candidate.motors[m].included /\ StillAuthorised(m)

Authorised ==
    /\ ~inFlight.busy
    /\ candidate.generation = bus.generation
    /\ \A m \in Motors : candidate.motors[m].included => StillAuthorised(m)

Submitted ==
    [busy |-> TRUE, callback_seen |-> FALSE, ok |-> FALSE, order |-> 0,
     purpose |-> candidate.purpose,
     unit |-> candidate.unit,
     generation |-> candidate.generation,
     protocol_generation |->
        candidate.motors[CHOOSE m \in Units[candidate.unit] : TRUE].protocol_generation,
     stop_generations |-> [m \in Motors |->
        IF candidate.motors[m].safe_action THEN candidate.motors[m].stop_generation ELSE 0],
     frame |-> candidate.frame]

EndSubmit ==
    /\ pc = "Submit"
    /\ candidate' = NoCandidate
    /\ protocolFirst' = IF candidate.purpose = "Target" THEN TRUE
                        ELSE candidate.stage \notin {"First", "Last"} /\ protocolFirst
    /\ UNCHANGED <<appVars, cursor, order, rx, todo, event, follow, budget, wire, drive,
                   replying>>

(* can_send() takes the frame.                                             *)
Submit ==
    /\ EndSubmit
    /\ Authorised
    /\ inFlight' = Submitted
    /\ hw' = [hw EXCEPT !.frame = "Queued"]
    /\ pc' = "ProcessTx"
    /\ UNCHANGED <<motor, targets, bus>>

(* -EAGAIN: the authority captured with the frame is gone.                 *)
SubmitRefused ==
    /\ EndSubmit
    /\ ~Authorised
    /\ targets' = IF candidate.purpose = "Target" /\ candidate.sequence = sequence /\ targets < NUnits
                  THEN targets + 1 ELSE targets
    /\ pc' = "ProcessTx"
    /\ UNCHANGED <<motor, inFlight, hw, bus>>

(* can_send() fails.                                                       *)
SendFails ==
    /\ EndSubmit
    /\ Authorised /\ MayFail
    /\ EnterRecovery("ProcessTx")
    /\ UNCHANGED <<targets, inFlight, hw>>

-----------------------------------------------------------------------------

IoThread ==
    \/ \E late \in BOOLEAN : ProcessTx(late)
    \/ TakeOverflow
    \/ \E gap, sameMs, retryDue \in BOOLEAN : ProcessRx(gap, sameMs, retryDue)
    \/ \E sameMs, retryDue \in BOOLEAN : AcceptFeedback(sameMs, retryDue)
    \/ FollowUpFeedback
    \/ CheckBus
    \/ \E m \in Motors, timeout, due, late \in BOOLEAN : CheckMotor(m, timeout, due, late)
    \/ WaitInRecovery \/ StopController \/ StartController \/ RestartAgain \/ Recover
    \/ \E due \in SUBSET Dm : Pump(due)
    \/ Build
    \/ Submit \/ SubmitRefused \/ SendFails

Next == App \/ Environment \/ IoThread

Spec == Init /\ [][Next]_vars

(* The I/O thread is scheduled for ever and next_recovery_ms_ comes again  *)
(* and again; a controller that is on the bus sends or fails what it was   *)
(* given, can_stop() aborts it, and bus-off ends.  Nothing is promised     *)
(* about the application, the drives or the clock.                         *)
Fairness ==
    /\ WF_vars(IoThread)
    /\ SF_vars(StopController) /\ SF_vars(StartController)
    /\ SF_vars(RestartAgain) /\ SF_vars(Recover)
    /\ SF_vars(\E heard \in BOOLEAN : Transmit(heard))
    /\ WF_vars(TxSucceeds)
    /\ WF_vars(~bus.started /\ TxFails)
    /\ WF_vars(BusOffEnds)

FairSpec == Spec /\ Fairness

-----------------------------------------------------------------------------
(* Properties.                                                             *)

PcNames == {"ProcessTx", "TakeOverflow", "ProcessRx", "AcceptFeedback", "FollowUp",
            "CheckMotors", "Pump", "First", "Targets", "Last", "Build", "Submit"}

StopFrames   == {"Zero", "Disable"}
StopReported == {"TxComplete", "DriveConfirmed", "Unreachable"}

MotorTypes == motor \in [Motors -> MotorRecord]

AppTypes ==
    /\ expired \in [Motors -> 0 .. MaxRevision]
    /\ published \in [Motors -> Command]
    /\ sequence \in 0 .. MaxSequence

PumpTypes ==
    /\ targets \in 0 .. NUnits
    /\ cursor \in [target : UnitIds, protocol : UnitIds]
    /\ protocolFirst \in BOOLEAN

BusTypes == bus \in [state : {"Running", "Recovering"}, generation : Nat,
                     started : BOOLEAN, restarted : BOOLEAN]

OrderTypes == order \in 1 .. MaxOrder

RxTypes ==
    /\ rx \in [queue : Seq(RxEvent), overflowed : BOOLEAN]
    /\ Len(rx.queue) <= RxDepth

InFlightTypes == inFlight \in InFlight

ThreadTypes ==
    /\ pc \in PcNames
    /\ todo \subseteq (IF pc = "CheckMotors" THEN Motors ELSE UnitIds)
    /\ event \in RxEvent
    /\ follow \in Follow
    /\ budget \in Nat
    /\ candidate \in Candidate
    /\ pc = "AcceptFeedback" => budget # 0
    /\ pc = "Build" => /\ candidate.stage = "Target" <=> candidate.purpose = "Target"
                       /\ candidate.stage = "Stop" => candidate.purpose = "SafeOutput"

ExternalTypes ==
    /\ hw \in [state : {"Active", "BusOff", "Stopped"}, frame : {"None", "Queued", "Sent"}]
    /\ wire \in [Motors -> Content]
    /\ drive \in [Motors -> {"Disabled", "Enabled", "Fault"}]
    /\ replying \subseteq Dm

(* Every variable holds what its member can hold: no order, generation,    *)
(* sequence or count leaves its range, and the receive queue never holds   *)
(* more than kRxDepth events.                                              *)
TypeOK ==
    /\ MotorTypes /\ AppTypes /\ PumpTypes /\ BusTypes /\ OrderTypes /\ RxTypes
    /\ InFlightTypes /\ ThreadTypes /\ ExternalTypes

(* The flags of one motor never contradict one another, whichever thread   *)
(* wrote last: output is permitted exactly when the motor is Active, and   *)
(* only while enable() is in force; a protocol attempt lives only in an    *)
(* enabled motor that is not Active; a stop request carries the generation *)
(* of the disable() that made it and vanishes with enable().               *)
MotorInv(mt) ==
    /\ mt.state = "Active" <=> mt.output_permitted
    /\ mt.output_permitted => mt.enabled_requested
    /\ mt.attempt # "None" => mt.enabled_requested /\ mt.state # "Active"
    /\ mt.attempt_tx_done => mt.attempt # "None"
    /\ IF mt.enabled_requested
       THEN mt.progress = "None" /\ mt.request_generation = 0 /\ ~mt.stop_pending
       ELSE mt.progress # "None" /\ mt.request_generation = mt.cancellation_generation
    /\ ~mt.enabled_requested => (mt.stop_tx_done <=> mt.progress \in StopReported)

MotorsOK == \A m \in Motors : MotorInv(motor[m])

(* When the stop of a motor is reported as sent, confirmed or unreachable, *)
(* the last thing the wire told that motor was to stop, and the frame in   *)
(* flight, if any, says nothing else.  A completion of the frames that     *)
(* were on their way when disable() was called must not count.             *)
StoppedIsQuiet ==
    \A m \in Motors :
        ~motor[m].enabled_requested /\ motor[m].progress \in StopReported =>
            /\ wire[m] \in StopFrames
            /\ inFlight.frame[m] \in StopFrames \cup {"Nothing"}

(* DriveConfirmed is the truth: the DM drive is not enabled, whatever      *)
(* frames it missed and whatever status it reported before the stop.       *)
ConfirmedIsDisabled ==
    \A m \in Dm :
        ~motor[m].enabled_requested /\ motor[m].progress = "DriveConfirmed" =>
            drive[m] # "Enabled"

(* Active is the truth while drives do not fail by themselves: markPrepared*)
(* is reached only by a status the drive sent after it heard the Enable    *)
(* frame of this very attempt.                                             *)
ActiveIsEnabled ==
    ~DriveUpsets => \A m \in Dm : motor[m].state = "Active" => drive[m] = "Enabled"

(* What snapshot() says of a drive is true: of one whose stop was          *)
(* confirmed, and of one that is Active.                                   *)
StatesAreTrue == ConfirmedIsDisabled /\ ActiveIsEnabled

(* During recovery no motor is permitted to move, and none becomes so,     *)
(* whatever confirmations were queued when the bus failed.                 *)
RecoveryIsSilent ==
    bus.state = "Recovering" => \A m \in Motors : ~motor[m].output_permitted

(* The controller holds a frame exactly when the bus waits for a callback: *)
(* no callback, however late, can complete a frame submitted after its own.*)
FrameOwnsCallback ==
    hw.frame # "None" <=> inFlight.busy /\ ~inFlight.callback_seen

(* A frame that moves a motor is handed to the controller only while every *)
(* authority its command was staged under still holds: nothing that        *)
(* happened between capturing, encoding and submitting slips through.      *)
MotionIsAuthorised ==
    [][\A m \in Motors :
          ~inFlight.busy /\ inFlight'.busy /\ inFlight'.frame[m] = "Motion" =>
              MayMove(motor[m], candidate.motors[m].command, expired[m])]_vars

(* What the stop progress promises a caller of disable().                  *)
Stop == INSTANCE StopContract WITH
    Confirming <- Dm,
    requested  <- [m \in Motors |-> motor[m].enabled_requested],
    progress   <- [m \in Motors |-> motor[m].progress],
    silent     <- [m \in Motors |-> /\ wire[m] \in StopFrames
                                    /\ inFlight.frame[m] \in StopFrames \cup {"Nothing"}]

(* Threads, frames and generations together implement that promise.        *)
StopIsHonoured == Stop!Spec

(* A requested stop does not stay pending for ever: its frame completes,   *)
(* after any recovery, or enable() withdraws it.                           *)
StopIsServed ==
    \A m \in Motors :
        ~motor[m].enabled_requested /\ motor[m].stop_pending
            ~> motor[m].enabled_requested \/ ~motor[m].stop_pending

(* The bus recovers once faults stop: the restarted controller, the frame  *)
(* still in flight and the thread never wait for one another.              *)
RecoveryEnds == bus.state = "Recovering" ~> bus.state = "Running"
=============================================================================
