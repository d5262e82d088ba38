-------------------------- MODULE CanBusStopProofs --------------------------
(***************************************************************************)
(* Proofs about what CanBus reports of a motor: that a stop reported as    *)
(* sent is what the wire last said, that the stop protocol implements      *)
(* StopContract, and that DriveConfirmed and Active are true of the drive. *)
(***************************************************************************)
EXTENDS CanBusProofs

-----------------------------------------------------------------------------
(* How a step may change one motor record.                                 *)

(* Nothing about the stop changes.                                         *)
StopKept(a, b) ==
    /\ b.enabled_requested = a.enabled_requested /\ b.progress = a.progress
    /\ b.stop_tx_done = a.stop_tx_done
    /\ b.stop_tx_completed_order = a.stop_tx_completed_order

(* No attempt becomes complete and no motor Active.                        *)
AttemptKept(a, b) ==
    /\ b.attempt = "Enable" /\ b.attempt_tx_done =>
          /\ a.attempt = "Enable" /\ a.attempt_tx_done
          /\ b.attempt_tx_completed_order = a.attempt_tx_completed_order
    /\ b.state = "Active" => a.state = "Active"

Calm(a, b) == StopKept(a, b) /\ AttemptKept(a, b)

GivenUp(a, b) ==
    /\ ~a.enabled_requested /\ ~b.enabled_requested
    /\ a.progress = "TxComplete" /\ b.progress = "Unreachable"
    /\ b.stop_tx_done = a.stop_tx_done
    /\ b.stop_tx_completed_order = a.stop_tx_completed_order
    /\ AttemptKept(a, b)

LEMMA CalmIsTransitive ==
    ASSUME NEW a, NEW b, NEW c, Calm(a, b)
    PROVE  /\ Calm(a, a)
           /\ Calm(b, c) => Calm(a, c)
           /\ GivenUp(b, c) => GivenUp(a, c)
  BY DEF Calm, StopKept, AttemptKept, GivenUp

LEMMA RaiseFaultCalm ==
    ASSUME NEW mt \in MotorRecord, NEW reason
    PROVE  Calm(mt, RaiseFault(mt, reason))
  <1> DEFINE next == CASE reason = "DriveFault" -> "Fault"
                       [] reason = "Communication" -> "Offline"
                       [] OTHER -> "Disabled"
  <1>1. next # "Active"
    OBVIOUS
  <1>2. RaiseFault(mt, reason) =
          IF mt.state # next \/ reason = "Communication"
          THEN [mt EXCEPT !.output_permitted = FALSE,
                          !.protocol_generation = NextProtocol(mt),
                          !.attempt = "None",
                          !.attempt_tx_done = FALSE,
                          !.probe_sent = FALSE,
                          !.state = next]
          ELSE [mt EXCEPT !.output_permitted = FALSE]
    BY DEF RaiseFault
  <1> HIDE DEF next
  <1> QED
    BY <1>1, <1>2 DEF MotorRecord, Calm, StopKept, AttemptKept

LEMMA TimeOutAttemptCalm ==
    ASSUME NEW mt \in MotorRecord
    PROVE  Calm(mt, TimeOutAttempt(mt))
  <1>1. RestingState(mt) # "Active"
    BY RestingStateType
  <1> QED
    BY <1>1 DEF TimeOutAttempt, MotorRecord, Calm, StopKept, AttemptKept

LEMMA StartAttemptCalm ==
    ASSUME NEW mt \in MotorRecord
    PROVE  Calm(mt, StartAttempt(mt))
  BY DEF StartAttempt, MotorRecord, Calm, StopKept, AttemptKept

LEMMA MarkFaultClearedCalm ==
    ASSUME NEW mt \in MotorRecord, NEW generation
    PROVE  Calm(mt, MarkFaultCleared(mt, generation))
  <1>1. RestingState(mt) # "Active"
    BY RestingStateType
  <1> QED
    BY <1>1 DEF MarkFaultCleared, MotorRecord, Calm, StopKept, AttemptKept

LEMMA FieldUpdatesCalm ==
    ASSUME NEW mt \in MotorRecord
    PROVE  /\ \A computed, sampled : Calm(mt, Stage(mt, computed, sampled))
           /\ Calm(mt, InvalidateComputedEffort(mt))
           /\ Calm(mt, [mt EXCEPT !.feedback = "Stale"])
           /\ Calm(mt, [mt EXCEPT !.probe_sent = TRUE])
           /\ \A valid : Calm(mt, [mt EXCEPT !.output_command_valid = valid])
           /\ Calm(mt, AcceptDjiFeedback(mt))
  BY DEF Stage, InvalidateComputedEffort, AcceptDjiFeedback, MotorRecord, Calm, StopKept,
         AttemptKept

LEMMA GiveUpOnStopMoves ==
    ASSUME NEW mt \in MotorRecord
    PROVE  Calm(mt, GiveUpOnStop(mt)) \/ GivenUp(mt, GiveUpOnStop(mt))
  BY DEF GiveUpOnStop, MotorRecord, Calm, StopKept, AttemptKept, GivenUp

LEMMA MarkPreparedKeepsStop ==
    ASSUME NEW mt \in MotorRecord, NEW generation
    PROVE  StopKept(mt, MarkPrepared(mt, generation))
  BY DEF MarkPrepared, MotorRecord, StopKept

LEMMA MarkAttemptTxCompleteKeepsStop ==
    ASSUME NEW mt \in MotorRecord, NEW kind, NEW generation, NEW o
    PROVE  StopKept(mt, MarkAttemptTxComplete(mt, kind, generation, o))
  BY DEF MarkAttemptTxComplete, MotorRecord, StopKept

-----------------------------------------------------------------------------
(* The moves of one motor, whatever thread makes the step.                 *)

(* The events the I/O thread has not acted upon yet.                       *)
Unread == {rx.queue[i] : i \in DOMAIN rx.queue} \cup {e \in {event} : pc = "AcceptFeedback"}

Accepts(m) ==
    \E e \in Unread, retryDue \in BOOLEAN :
        e.motor = m /\ motor'[m] = AcceptDmFeedback(motor[m], e.status, e.order, retryDue)

Completes(m) ==
    /\ \E late \in BOOLEAN : ProcessTx(late)
    /\ inFlight.ok
    /\ motor'[m] = AfterCompletion(m)

Prepares(m) ==
    /\ FollowUpFeedback /\ follow.motor = m /\ follow.kind = "Prepared"
    /\ motor'[m] = MarkPrepared(motor[m], follow.generation)

MotorMove(m) ==
    \/ Calm(motor[m], motor'[m])
    \/ motor'[m] = Enable(motor[m]) \/ motor'[m] = RequestDisable(motor[m])
    \/ Completes(m)
    \/ m \in Dm /\ Accepts(m)
    \/ Prepares(m)
    \/ m \notin Dm /\ StopKept(motor[m], motor'[m])
    \/ m \in Dm /\ GivenUp(motor[m], motor'[m])

LEMMA EventTypes ==
    ASSUME Inv
    PROVE  /\ Unread \subseteq RxEvent
           /\ \A e \in Unread : e.order \in Nat /\ e.motor \in Motors
           /\ rx.queue # <<>> => Head(rx.queue) \in Unread
           /\ pc = "AcceptFeedback" => event \in Unread
  <1>1. rx.queue \in Seq(RxEvent) /\ event \in RxEvent
    BY DEF Inv, TypeOK, RxTypes, ThreadTypes
  <1>2. \A i \in DOMAIN rx.queue : rx.queue[i] \in RxEvent
    BY <1>1
  <1>3. Unread \subseteq RxEvent
    BY <1>1, <1>2 DEF Unread
  <1>4. \A e \in RxEvent : e.order \in Order /\ e.motor \in Motors
    BY Zenon DEF RxEvent
  <1>5. Order \subseteq Nat
    BY CounterAssumption DEF Order, CounterAssumption
  <1>6. ASSUME rx.queue # <<>> PROVE Head(rx.queue) \in Unread
    <2>1. 1 \in DOMAIN rx.queue /\ Head(rx.queue) = rx.queue[1]
      BY <1>1, <1>6
    <2> QED
      BY <2>1, Zenon DEF Unread
  <1> QED
    BY <1>3, <1>4, <1>5, <1>6 DEF Unread

LEMMA UntouchedMotor ==
    ASSUME NEW m, motor'[m] = motor[m]
    PROVE  MotorMove(m)
  BY CalmIsTransitive DEF MotorMove, Calm, StopKept, AttemptKept

LEMMA AppMoves ==
    ASSUME Inv, App, NEW m \in Motors
    PROVE  MotorMove(m)
  <1>1. motor \in [Motors -> MotorRecord]
    BY DEF Inv, TypeOK, MotorTypes
  <1>2. ASSUME NEW k \in Motors, NEW after, Call(k, after)
        PROVE  motor'[m] = motor[m] \/ (k = m /\ motor'[m] = after)
    BY <1>1, <1>2 DEF Call
  <1>3. ASSUME NEW k \in Motors, CallEnable(k) \/ CallDisable(k) PROVE MotorMove(m)
    BY <1>2, <1>3, UntouchedMotor DEF CallEnable, CallDisable, MotorMove
  <1>4. ASSUME NEW k \in Motors, NEW computed, NEW sampled,
               CallSetter(k, computed, sampled) \/ CallInvalidate(k)
        PROVE  MotorMove(m)
    <2>1. \/ motor'[m] = motor[m]
          \/ motor'[m] = Stage(motor[m], computed, sampled)
          \/ motor'[m] = InvalidateComputedEffort(motor[m])
      BY <1>2, <1>4 DEF CallSetter, CallInvalidate
    <2> QED
      BY <1>1, <2>1, FieldUpdatesCalm, UntouchedMotor DEF MotorMove
  <1>5. CASE Commit
    BY <1>5, UntouchedMotor DEF Commit
  <1> QED
    BY <1>3, <1>4, <1>5 DEF App

LEMMA EnvironmentMoves ==
    ASSUME Inv, Environment, NEW m \in Motors
    PROVE  MotorMove(m)
  <1>1. motor \in [Motors -> MotorRecord]
    BY DEF Inv, TypeOK, MotorTypes
  <1>2. \/ UNCHANGED motor \/ \E k \in Motors : FeedbackAges(k)
    BY DEF Environment, Transmit, TxSucceeds, TxFails, DmReplies, DjiReports,
           CommandAges, DriveFaults, ControllerFails, BusOffEnds, OnRx, OnTxDone
  <1>3. CASE UNCHANGED motor
    BY <1>3, UntouchedMotor
  <1>4. ASSUME NEW k \in Motors, FeedbackAges(k) PROVE MotorMove(m)
    <2>1. motor'[m] = motor[m] \/ motor'[m] = [motor[m] EXCEPT !.feedback = "Stale"]
      BY <1>1, <1>4 DEF FeedbackAges
    <2> QED
      BY <1>1, <2>1, FieldUpdatesCalm, UntouchedMotor DEF MotorMove
  <1> QED
    BY <1>2, <1>3, <1>4

LEMMA RecoveryMoves ==
    ASSUME Inv, NEW back, EnterRecovery(back), NEW m \in Motors
    PROVE  MotorMove(m)
  <1>1. motor[m] \in MotorRecord
    BY DEF Inv, TypeOK, MotorTypes
  <1>2. motor'[m] = motor[m] \/ motor'[m] = RaiseFault(motor[m], "Communication")
    BY DEF EnterRecovery
  <1> QED
    BY <1>1, <1>2, RaiseFaultCalm, UntouchedMotor DEF MotorMove

LEMMA AcceptMoves ==
    ASSUME Inv, NEW e \in Unread, NEW sameMs, NEW retryDue \in BOOLEAN,
           Accept(e, motor[e.motor], sameMs, retryDue), NEW m \in Motors
    PROVE  MotorMove(m)
  <1>1. motor \in [Motors -> MotorRecord]
    BY DEF Inv, TypeOK, MotorTypes
  <1>2. CASE m # e.motor
    <2>1. motor'[m] = motor[m]
      BY <1>1, <1>2 DEF Accept
    <2> QED
      BY <2>1, UntouchedMotor
  <1>3. CASE m = e.motor /\ m \notin Dm
    <2>1. motor'[m] = motor[m] \/ motor'[m] = AcceptDjiFeedback(motor[m])
      BY <1>1, <1>3 DEF Accept
    <2> QED
      BY <1>1, <2>1, FieldUpdatesCalm, UntouchedMotor DEF MotorMove
  <1>4. CASE m = e.motor /\ m \in Dm
    <2>1. \/ motor'[m] = motor[m]
          \/ motor'[m] = AcceptDmFeedback(motor[m], e.status, e.order, retryDue)
      BY <1>1, <1>4 DEF Accept
    <2> QED
      BY <1>4, <2>1, UntouchedMotor DEF MotorMove, Accepts
  <1> QED
    BY <1>2, <1>3, <1>4

LEMMA CheckMotorMoves ==
    ASSUME Inv, NEW k \in Motors, NEW timeout \in BOOLEAN, NEW due \in BOOLEAN,
           NEW late \in BOOLEAN, CheckMotor(k, timeout, due, late), NEW m \in Motors
    PROVE  MotorMove(m)
  <1> DEFINE live  == ExpireFeedback(motor[k])
             timed == IF timeout THEN TimeOutAttempt(live) ELSE live
             begun == IF due THEN StartAttempt(timed) ELSE timed
             last  == Deadlines(k, timeout, due, late)
  <1>1. motor \in [Motors -> MotorRecord]
    BY DEF Inv, TypeOK, MotorTypes
  <1>2. PICK valid : motor' = [motor EXCEPT ![k] = [last EXCEPT !.output_command_valid = valid]]
    BY DEF CheckMotor
  <1>3. GoodMotor(live) /\ Calm(motor[k], live)
    BY <1>1, MotorIsGood, ExpireFeedbackGood, RaiseFaultCalm, CalmIsTransitive DEF ExpireFeedback
  <1>4. GoodMotor(timed) /\ Calm(motor[k], timed)
    BY <1>3, TimeOutAttemptGood, TimeOutAttemptCalm, CalmIsTransitive DEF GoodMotor
  <1>5. GoodMotor(begun) /\ Calm(motor[k], begun)
    BY <1>4, StartAttemptGood, StartAttemptCalm, CalmIsTransitive DEF GoodMotor
  <1> HIDE DEF timed, begun
  <1>6. CASE k = m /\ m \notin Dm
    <2>1. last = PrepareDji(live)
      BY <1>6 DEF Deadlines
    <2>2. GoodMotor(last) /\ StopKept(live, last)
      BY <1>3, <2>1, PrepareDjiGood, MarkPreparedKeepsStop DEF PrepareDji, GoodMotor, StopKept
    <2> HIDE DEF last
    <2>3. Calm(last, [last EXCEPT !.output_command_valid = valid])
      BY <2>2, FieldUpdatesCalm DEF GoodMotor
    <2>4. StopKept(motor[m], motor'[m])
      BY <1>1, <1>2, <1>3, <1>6, <2>2, <2>3 DEF Calm, StopKept
    <2> QED
      BY <1>6, <2>4 DEF MotorMove
  <1>7. CASE k = m /\ m \in Dm
    <2>1. last = IF late THEN GiveUpOnStop(begun) ELSE begun
      BY <1>7 DEF Deadlines, begun, timed
    <2>2. /\ last \in MotorRecord
          /\ Calm(motor[m], last) \/ GivenUp(motor[m], last)
      BY <1>5, <1>7, <2>1, GiveUpOnStopGood, GiveUpOnStopMoves, CalmIsTransitive DEF GoodMotor
    <2> HIDE DEF last
    <2>3. Calm(last, [last EXCEPT !.output_command_valid = valid])
      BY <2>2, FieldUpdatesCalm
    <2>4. motor'[m] = [last EXCEPT !.output_command_valid = valid]
      BY <1>1, <1>2, <1>7
    <2>5. Calm(motor[m], motor'[m]) \/ GivenUp(motor[m], motor'[m])
      BY <2>2, <2>3, <2>4 DEF Calm, StopKept, AttemptKept, GivenUp
    <2> QED
      BY <1>7, <2>5 DEF MotorMove
  <1>8. CASE k # m
    BY <1>1, <1>2, <1>8, UntouchedMotor
  <1> QED
    BY <1>6, <1>7, <1>8

LEMMA FeedbackMoves ==
    ASSUME Inv, NEW m \in Motors,
           \/ \E gap, sameMs, retryDue \in BOOLEAN : ProcessRx(gap, sameMs, retryDue)
           \/ \E sameMs, retryDue \in BOOLEAN : AcceptFeedback(sameMs, retryDue)
           \/ FollowUpFeedback
    PROVE  MotorMove(m)
  <1>1. motor \in [Motors -> MotorRecord]
    BY DEF Inv, TypeOK, MotorTypes
  <1>2. ASSUME NEW gap \in BOOLEAN, NEW sameMs \in BOOLEAN, NEW retryDue \in BOOLEAN,
               ProcessRx(gap, sameMs, retryDue)
        PROVE  MotorMove(m)
    <2> DEFINE e == Head(rx.queue)
    <2>1. e \in Unread /\ e.motor \in Motors
      BY <1>2, EventTypes DEF ProcessRx
    <2>2. CASE e.generation # bus.generation
      BY <1>2, <2>2, UntouchedMotor DEF ProcessRx
    <2>3. CASE e.generation = bus.generation /\ Expires(e, gap)
      <3>1. motor' = [motor EXCEPT ![e.motor] = RaiseFault(motor[e.motor], "Communication")]
        BY <1>2, <2>3 DEF ProcessRx
      <3>2. motor'[m] = motor[m] \/ motor'[m] = RaiseFault(motor[m], "Communication")
        BY <1>1, <3>1
      <3> QED
        BY <1>1, <3>2, RaiseFaultCalm, UntouchedMotor DEF MotorMove
    <2>4. CASE ~(e.generation # bus.generation)
               /\ ~(e.generation = bus.generation /\ Expires(e, gap))
      <3>1. Accept(e, motor[e.motor], sameMs, retryDue)
        BY <1>2, <2>4 DEF ProcessRx
      <3> HIDE DEF e
      <3> QED
        BY <2>1, <3>1, AcceptMoves
    <2> QED
      BY <2>2, <2>3, <2>4
  <1>3. ASSUME NEW sameMs \in BOOLEAN, NEW retryDue \in BOOLEAN, AcceptFeedback(sameMs, retryDue)
        PROVE  MotorMove(m)
    BY <1>3, EventTypes, AcceptMoves DEF AcceptFeedback
  <1>4. CASE FollowUpFeedback
    <2>1. CASE m # follow.motor
      <3>1. motor'[m] = motor[m]
        BY <1>1, <1>4, <2>1 DEF FollowUpFeedback
      <3> QED
        BY <3>1, UntouchedMotor
    <2>2. CASE m = follow.motor /\ follow.kind = "Prepared"
      <3>1. motor'[m] = MarkPrepared(motor[m], follow.generation)
        BY <1>1, <1>4, <2>2 DEF FollowUpFeedback, ApplyFollowUp
      <3> QED
        BY <1>4, <2>2, <3>1 DEF MotorMove, Prepares
    <2>3. CASE m = follow.motor /\ follow.kind # "Prepared"
      <3>1. \/ motor'[m] = motor[m]
            \/ motor'[m] = MarkFaultCleared(motor[m], follow.generation)
            \/ motor'[m] = RaiseFault(motor[m], "DriveFault")
            \/ motor'[m] = RaiseFault(motor[m], "Other")
        BY <1>1, <1>4, <2>3 DEF FollowUpFeedback, ApplyFollowUp
      <3> QED
        BY <1>1, <3>1, MarkFaultClearedCalm, RaiseFaultCalm, UntouchedMotor DEF MotorMove
    <2> QED
      BY <2>1, <2>2, <2>3
  <1> QED
    BY <1>2, <1>3, <1>4

LEMMA MotorMoves ==
    ASSUME Inv, [Next]_vars, NEW m \in Motors
    PROVE  MotorMove(m)
  <1>1. CASE UNCHANGED vars
    BY <1>1, UntouchedMotor DEF vars
  <1>2. ASSUME NEW late \in BOOLEAN, ProcessTx(late) PROVE MotorMove(m)
    <2>1. \/ UNCHANGED motor \/ EnterRecovery("TakeOverflow")
          \/ inFlight.ok /\ motor'[m] = AfterCompletion(m)
      BY <1>2 DEF ProcessTx
    <2> QED
      BY <1>2, <2>1, RecoveryMoves, UntouchedMotor DEF MotorMove, Completes
  <1>3. CASE TakeOverflow \/ CheckBus \/ SendFails
    <2>1. UNCHANGED motor \/ \E back : EnterRecovery(back)
      BY <1>3 DEF TakeOverflow, CheckBus, SendFails
    <2> QED
      BY <2>1, RecoveryMoves, UntouchedMotor
  <1>4. CASE WaitInRecovery \/ StopController \/ StartController \/ RestartAgain \/ Recover
             \/ Submit \/ SubmitRefused \/ \E due \in SUBSET Dm : Pump(due)
    <2>1. UNCHANGED motor
      BY <1>4 DEF WaitInRecovery, StopController, StartController, RestartAgain, Recover,
                  Submit, SubmitRefused, Pump
    <2> QED
      BY <2>1, UntouchedMotor
  <1>5. CASE Build
    <2>1. motor'[m] = motor[m] \/ motor'[m] = [motor[m] EXCEPT !.probe_sent = TRUE]
      BY <1>5 DEF Build
    <2>2. motor[m] \in MotorRecord
      BY DEF Inv, TypeOK, MotorTypes
    <2> QED
      BY <2>1, <2>2, FieldUpdatesCalm, UntouchedMotor DEF MotorMove
  <1>6. CASE IoThread
    BY <1>2, <1>3, <1>4, <1>5, <1>6, FeedbackMoves, CheckMotorMoves, Zenon DEF IoThread
  <1> QED
    BY <1>1, <1>6, AppMoves, EnvironmentMoves DEF Next

-----------------------------------------------------------------------------
(* What other threads, the interrupt and the world may do to a motor while *)
(* the I/O thread is between two of its sections.                          *)

Outside(a, b) ==
    /\ b.state = "Active" => a.state = "Active"
    /\ \/ /\ b.protocol_generation = a.protocol_generation
          /\ b.attempt = a.attempt /\ b.attempt_tx_done = a.attempt_tx_done
          /\ a.enabled_requested => b.enabled_requested
       \/ /\ b.protocol_generation = a.protocol_generation + 1
          /\ b.attempt = "None"

LEMMA CallsFromOutside ==
    ASSUME NEW a \in MotorRecord
    PROVE  /\ Outside(a, a) /\ Outside(a, Enable(a)) /\ Outside(a, RequestDisable(a))
           /\ \A computed, sampled : Outside(a, Stage(a, computed, sampled))
           /\ Outside(a, InvalidateComputedEffort(a))
           /\ Outside(a, [a EXCEPT !.feedback = "Stale"])
  <1>1. /\ Outside(a, a) /\ Outside(a, Enable(a))
        /\ \A computed, sampled : Outside(a, Stage(a, computed, sampled))
        /\ Outside(a, InvalidateComputedEffort(a))
        /\ Outside(a, [a EXCEPT !.feedback = "Stale"])
    BY DEF Enable, Stage, InvalidateComputedEffort, MotorRecord, Outside
  <1>2. Outside(a, RequestDisable(a))
    <2> DEFINE b == RequestDisable(a)
    <2>1. CASE b = a
      BY <1>1, <2>1
    <2>2. CASE b # a
      <3>1. b.attempt = "None" /\ b.protocol_generation = a.protocol_generation + 1
        BY <2>2 DEF RequestDisable, MotorRecord
      <3>2. b.state # "Active"
        BY <2>2, RestingStateType DEF RequestDisable, MotorRecord
      <3> HIDE DEF b
      <3>3. Outside(a, b)
        BY <3>1, <3>2 DEF Outside
      <3> QED
        BY <3>3 DEF b
    <2> QED
      BY <2>1, <2>2
  <1> QED
    BY <1>1, <1>2

LEMMA OutsideSteps ==
    ASSUME Inv, App \/ Environment \/ UNCHANGED vars, NEW m \in Motors
    PROVE  UNCHANGED ioVars /\ Outside(motor[m], motor'[m])
  <1>1. motor \in [Motors -> MotorRecord]
    BY DEF Inv, TypeOK, MotorTypes
  <1>2. CASE App
    <2>1. UNCHANGED ioVars
      BY <1>2 DEF App, CallEnable, CallDisable, CallInvalidate, CallSetter, Call, Commit
    <2>2. CASE Commit
      BY <1>1, <2>1, <2>2, CallsFromOutside DEF Commit
    <2>3. ASSUME NEW k \in Motors, NEW after, Call(k, after)
          PROVE  motor'[m] = motor[m] \/ (k = m /\ motor'[m] = after)
      BY <1>1, <2>3 DEF Call
    <2>4. ASSUME NEW k \in Motors,
                 \/ CallEnable(k) \/ CallDisable(k) \/ CallInvalidate(k)
                 \/ \E computed \in BOOLEAN, sampled \in 0 .. MaxEnable :
                       CallSetter(k, computed, sampled)
          PROVE  Outside(motor[m], motor'[m])
      <3>1. \/ motor'[m] \in {motor[m], Enable(motor[m]), RequestDisable(motor[m]),
                              InvalidateComputedEffort(motor[m])}
            \/ \E computed, sampled : motor'[m] = Stage(motor[m], computed, sampled)
        BY <2>3, <2>4 DEF CallEnable, CallDisable, CallInvalidate, CallSetter
      <3> QED
        BY <1>1, <3>1, CallsFromOutside, ZenonT(60)
    <2> QED
      BY <1>2, <2>1, <2>2, <2>4 DEF App
  <1>3. CASE Environment
    <2>1. UNCHANGED ioVars
      BY <1>3 DEF Environment, Transmit, TxSucceeds, TxFails, DmReplies, DjiReports, FeedbackAges,
                  CommandAges, DriveFaults, ControllerFails, BusOffEnds, OnRx, OnTxDone
    <2>2. UNCHANGED motor \/ \E k \in Motors : FeedbackAges(k)
      BY <1>3 DEF Environment, Transmit, TxSucceeds, TxFails, DmReplies, DjiReports,
                  CommandAges, DriveFaults, ControllerFails, BusOffEnds, OnRx, OnTxDone
    <2>3. motor'[m] = motor[m] \/ motor'[m] = [motor[m] EXCEPT !.feedback = "Stale"]
      BY <1>1, <2>2 DEF FeedbackAges
    <2> QED
      BY <1>1, <2>1, <2>3, CallsFromOutside
  <1>4. CASE UNCHANGED vars
    BY <1>1, <1>4, CallsFromOutside DEF vars
  <1> QED
    BY <1>2, <1>3, <1>4

(* Who brings the thread to the places where it holds no lock, or keeps it *)
(* there.                                                                  *)
LEMMA WhoseStep ==
    ASSUME Inv, [Next]_vars, pc' \in {"Build", "Submit", "FollowUp"}
    PROVE  \/ pc' = "Submit" /\ Build
           \/ pc' = "Build" /\ \E due \in SUBSET Dm : Pump(due)
           \/ /\ pc' = "FollowUp"
              /\ \/ \E gap, sameMs, retryDue \in BOOLEAN : ProcessRx(gap, sameMs, retryDue)
                 \/ \E sameMs, retryDue \in BOOLEAN : AcceptFeedback(sameMs, retryDue)
           \/ App \/ Environment \/ UNCHANGED vars
  <1>1. \A late \in BOOLEAN : ~ProcessTx(late)
    BY DEF ProcessTx, EnterRecovery
  <1>2. \A m \in Motors, timeout, due, late \in BOOLEAN : ~CheckMotor(m, timeout, due, late)
    BY DEF CheckMotor
  <1>3. ~(TakeOverflow \/ FollowUpFeedback \/ CheckBus \/ WaitInRecovery \/ StopController
          \/ StartController \/ RestartAgain \/ Recover \/ Submit \/ SubmitRefused \/ SendFails)
    BY DEF TakeOverflow, FollowUpFeedback, CheckBus, WaitInRecovery, StopController,
           StartController, RestartAgain, Recover, Recovering, Submit, SubmitRefused,
           SendFails, EnterRecovery
  <1>4. Build => pc' = "Submit"
    BY DEF Build, Inv, TypeOK, ThreadTypes, Candidate, PumpStage
  <1>5. \A due \in SUBSET Dm : Pump(due) => pc' = "Build"
    BY DEF Pump, TakeProtocol, TakeTarget, Take, EndPump
  <1>6. /\ \A gap, sameMs, retryDue \in BOOLEAN :
              ProcessRx(gap, sameMs, retryDue) => pc' = "FollowUp"
        /\ \A sameMs, retryDue \in BOOLEAN : AcceptFeedback(sameMs, retryDue) => pc' = "FollowUp"
    BY DEF ProcessRx, AcceptFeedback, Accept
  <1> QED
    BY <1>1, <1>2, <1>3, <1>4, <1>5, <1>6, Zenon DEF Next, IoThread

-----------------------------------------------------------------------------
(* The wire has heard what progress reports.                               *)

Safe == StopFrames \cup {"Nothing"}

(* The frame in flight: what it stops, and what the wire has heard of it.  *)
FlightInv == \A m \in Motors :
    /\ inFlight.stop_generations[m] # 0 => inFlight.frame[m] \in StopFrames
    /\ (hw.frame = "Sent" \/ inFlight.ok) /\ inFlight.frame[m] # "Nothing" =>
          wire[m] = inFlight.frame[m]

(* What Build leaves for Submit: a frame that may stop a motor only stops  *)
(* it, and so does the frame of a motor that was not enabled.              *)
StopEntry(entry, purpose, content) ==
    /\ ~entry.included => content = "Nothing"
    /\ entry.safe_action => content \in StopFrames
    /\ ~entry.enabled_requested /\ purpose \in {"Target", "SafeOutput"} => content \in Safe

StopCandidate ==
    pc = "Submit" => \A m \in Motors :
        StopEntry(candidate.motors[m], candidate.purpose, candidate.frame[m])

StopInv == FlightInv /\ StopCandidate /\ StoppedIsQuiet

Silent(m) == wire[m] \in StopFrames /\ inFlight.frame[m] \in Safe

LEMMA BuildLeaves ==
    ASSUME Inv, Build
    PROVE  /\ pc' = "Submit" => \A m \in Motors :
                 /\ m \in Units[candidate.unit] =>
                       candidate'.motors[m] = Captured(m) /\ candidate'.frame[m] = Encoded(m)
                 /\ m \notin Units[candidate.unit] =>
                       candidate'.motors[m] = NoCapture[m] /\ candidate'.frame[m] = "Nothing"
           /\ pc' = "Submit" => /\ candidate'.unit = candidate.unit
                                /\ candidate'.purpose = candidate.purpose
                                /\ candidate'.clear_probe = candidate.clear_probe
  <1> DEFINE unit  == Units[candidate.unit]
             frame == [m \in Motors |-> IF m \in unit THEN Encoded(m) ELSE "Nothing"]
             built == \E m \in Motors : frame[m] # "Nothing"
             captured == [m \in Motors |-> IF m \in unit THEN Captured(m) ELSE NoCapture[m]]
  <1>1. /\ candidate' = IF built
              THEN [candidate EXCEPT !.generation = bus.generation, !.sequence = sequence,
                                     !.motors = captured, !.frame = frame]
              ELSE NoCandidate
        /\ pc' = IF built THEN "Submit"
                 ELSE IF candidate.purpose = "Target" THEN "Targets" ELSE candidate.stage
    BY DEF Build
  <1>2. candidate.stage # "Submit"
    BY DEF Inv, TypeOK, ThreadTypes, Candidate, PumpStage
  <1>3. CASE built
    <2> HIDE DEF frame, built, captured
    <2>1. /\ candidate'.frame = frame /\ candidate'.motors = captured
          /\ candidate'.unit = candidate.unit /\ candidate'.purpose = candidate.purpose
          /\ candidate'.clear_probe = candidate.clear_probe
      BY <1>1, <1>3 DEF Inv, TypeOK, ThreadTypes, Candidate
    <2> QED
      BY <2>1 DEF frame, captured
  <1>4. CASE ~built
    BY <1>1, <1>2, <1>4
  <1> QED
    BY <1>3, <1>4

LEMMA BuildStops ==
    ASSUME Inv, Build
    PROVE  StopCandidate'
  <1> SUFFICES ASSUME pc' = "Submit", NEW m \in Motors
               PROVE  StopEntry(candidate'.motors[m], candidate'.purpose, candidate'.frame[m])
    BY DEF StopCandidate
  <1>1. candidate'.purpose = candidate.purpose
    BY BuildLeaves
  <1>2. CASE m \notin Units[candidate.unit]
    <2>1. candidate'.motors[m] = NoCapture[m] /\ candidate'.frame[m] = "Nothing"
      BY <1>2, BuildLeaves
    <2> QED
      BY <2>1 DEF StopEntry, NoCapture, Safe
  <1>3. CASE m \in Units[candidate.unit]
    <2>1. candidate'.motors[m] = Captured(m) /\ candidate'.frame[m] = Encoded(m)
      BY <1>3, BuildLeaves
    <2>2. /\ Captured(m).included
          /\ Captured(m).enabled_requested = motor[m].enabled_requested
          /\ Captured(m).safe_action <=>
                candidate.purpose = "SafeOutput" /\ ~motor[m].enabled_requested
          /\ Captured(m).motion => motor[m].enabled_requested
      BY DEF Captured, MayMove
    <2>3. ~motor[m].enabled_requested /\ candidate.purpose = "SafeOutput" => Encoded(m) \in StopFrames
      BY <2>2 DEF Encoded, StopFrames
    <2>4. ~motor[m].enabled_requested /\ candidate.purpose = "Target" => Encoded(m) \in Safe
      BY <2>2 DEF Encoded, StopFrames, Safe
    <2> QED
      BY <1>1, <2>1, <2>2, <2>3, <2>4 DEF StopEntry, Safe
  <1> QED
    BY <1>2, <1>3

(* Only Build begins a submission.                                         *)
LEMMA OnlyBuildBuilds ==
    ASSUME Inv, [Next]_vars, pc' = "Submit"
    PROVE  Build \/ UNCHANGED <<pc, candidate>>
  <1>1. CASE App \/ Environment \/ UNCHANGED vars
    BY <1>1, OutsideSteps, UnitFacts DEF ioVars
  <1> QED
    BY <1>1, WhoseStep

LEMMA StopCandidateStep ==
    ASSUME Inv, StopCandidate, [Next]_vars
    PROVE  StopCandidate'
  <1>1. CASE pc' # "Submit"
    BY <1>1 DEF StopCandidate
  <1>2. CASE Build
    BY <1>2, BuildStops
  <1>3. CASE UNCHANGED <<pc, candidate>>
    BY <1>3 DEF StopCandidate
  <1> QED
    BY <1>1, <1>2, <1>3, OnlyBuildBuilds

(* The frame in flight moves only by these steps.                          *)
FlightStays ==
    /\ UNCHANGED <<inFlight, wire>> /\ hw'.frame = hw.frame
    /\ UNCHANGED drive \/ \E m \in Motors : DriveFaults(m)

LEMMA FlightMoves ==
    ASSUME Inv, [Next]_vars
    PROVE  \/ FlightStays
           \/ \E heard \in BOOLEAN : Transmit(heard)
           \/ TxSucceeds \/ TxFails
           \/ \E late \in BOOLEAN : ProcessTx(late)
           \/ Submit
  <1>1. \A t \in {"Active", "BusOff", "Stopped"} : [hw EXCEPT !.state = t].frame = hw.frame
    BY DEF Inv, TypeOK, ExternalTypes
  <1>2. CASE App
    BY <1>2 DEF App, CallEnable, CallDisable, CallInvalidate, CallSetter, Call, Commit, cbVars,
                extVars, FlightStays
  <1>3. CASE Environment
    <2>1. ASSUME NEW m \in Motors,
                 \/ \E again \in BOOLEAN : DmReplies(m, again)
                 \/ DjiReports(m) \/ FeedbackAges(m) \/ CommandAges(m) \/ DriveFaults(m)
          PROVE  FlightStays
      BY <2>1 DEF DmReplies, DjiReports, FeedbackAges, CommandAges, DriveFaults, OnRx, extVars,
                  cbVars, FlightStays
    <2>2. CASE ControllerFails \/ BusOffEnds
      BY <1>1, <2>2 DEF ControllerFails, BusOffEnds, cbVars, FlightStays
    <2> QED
      BY <1>3, <2>1, <2>2, Zenon DEF Environment
  <1>4. CASE TakeOverflow \/ FollowUpFeedback \/ CheckBus \/ WaitInRecovery \/ RestartAgain
             \/ Recover \/ Build \/ SubmitRefused \/ SendFails
    BY <1>4 DEF TakeOverflow, FollowUpFeedback, CheckBus, WaitInRecovery, RestartAgain, Recover,
                Build, SubmitRefused, SendFails, EndSubmit, cbVars, extVars, FlightStays
  <1>5. CASE StopController \/ StartController
    <2>1. \E t \in {"Active", "BusOff", "Stopped"} : hw' = [hw EXCEPT !.state = t]
      BY <1>5 DEF StopController, StartController
    <2>2. UNCHANGED <<inFlight, wire, drive>>
      BY <1>5 DEF StopController, StartController, cbVars
    <2> QED
      BY <1>1, <2>1, <2>2 DEF FlightStays
  <1>6. ASSUME NEW gap, NEW sameMs, NEW retryDue, ProcessRx(gap, sameMs, retryDue)
        PROVE  FlightStays
    BY <1>6 DEF ProcessRx, extVars, FlightStays
  <1>7. ASSUME NEW sameMs, NEW retryDue, AcceptFeedback(sameMs, retryDue)
        PROVE  FlightStays
    BY <1>7 DEF AcceptFeedback, cbVars, extVars, FlightStays
  <1>8. ASSUME NEW m, NEW timeout, NEW due, NEW late, CheckMotor(m, timeout, due, late)
        PROVE  FlightStays
    BY <1>8 DEF CheckMotor, cbVars, extVars, FlightStays
  <1>9. ASSUME NEW due, Pump(due) PROVE FlightStays
    BY <1>9 DEF Pump, cbVars, extVars, FlightStays
  <1>10. CASE UNCHANGED vars
    BY <1>10 DEF vars, cbVars, extVars, FlightStays
  <1>11. CASE IoThread
    BY <1>4, <1>5, <1>6, <1>7, <1>8, <1>9, <1>11, Zenon DEF IoThread
  <1> QED
    BY <1>2, <1>3, <1>10, <1>11, Zenon DEF Next

(* A completion leaves the frame as it was and needs it to have been sent. *)
LEMMA CompletionFacts ==
    ASSUME Inv, TxSucceeds \/ TxFails
    PROVE  /\ inFlight'.frame = inFlight.frame
           /\ inFlight'.stop_generations = inFlight.stop_generations
           /\ hw'.frame = "None" /\ UNCHANGED <<wire, drive, motor>>
           /\ inFlight'.ok => inFlight.ok \/ hw.frame = "Sent"
  <1>1. ASSUME NEW ok \in BOOLEAN, OnTxDone(ok)
        PROVE  /\ inFlight'.frame = inFlight.frame
               /\ inFlight'.stop_generations = inFlight.stop_generations
               /\ inFlight'.ok => inFlight.ok \/ ok
               /\ UNCHANGED motor
    BY <1>1 DEF OnTxDone, Inv, TypeOK, InFlightTypes, InFlight
  <1>2. hw'.frame = "None"
    BY DEF TxSucceeds, TxFails, Inv, TypeOK, ExternalTypes
  <1> QED
    BY <1>1, <1>2 DEF TxSucceeds, TxFails

LEMMA SubmitFacts ==
    ASSUME Inv, Submit
    PROVE  /\ inFlight' = Submitted /\ hw'.frame = "Queued"
           /\ UNCHANGED <<wire, drive, motor>> /\ pc = "Submit" /\ Authorised
           /\ ~inFlight'.ok /\ ~inFlight'.callback_seen
           /\ inFlight'.frame = candidate.frame
           /\ \A m \in Motors : inFlight'.stop_generations[m] # 0 => candidate.motors[m].safe_action
  <1>1. hw'.frame = "Queued"
    BY DEF Submit, Inv, TypeOK, ExternalTypes
  <1> QED
    BY <1>1 DEF Submit, EndSubmit, Submitted

LEMMA IdleFacts ==
    /\ ~Idle.ok /\ ~Idle.busy /\ ~Idle.callback_seen
    /\ \A m \in Motors : Idle.frame[m] = "Nothing" /\ Idle.stop_generations[m] = 0
  BY DEF Idle, NoFrame

LEMMA FlightStep ==
    ASSUME Inv, FlightInv, StopCandidate, [Next]_vars
    PROVE  FlightInv'
  <1>1. CASE FlightStays
    BY <1>1 DEF FlightStays, FlightInv
  <1>2. ASSUME NEW heard \in BOOLEAN, Transmit(heard) PROVE FlightInv'
    <2>1. inFlight' = inFlight
      BY <1>2 DEF Transmit, cbVars
    <2>2. \A m \in Motors : inFlight.frame[m] # "Nothing" => wire'[m] = inFlight.frame[m]
      BY <1>2 DEF Transmit
    <2> QED
      BY <2>1, <2>2 DEF FlightInv
  <1>3. CASE TxSucceeds \/ TxFails
    BY <1>3, CompletionFacts DEF FlightInv
  <1>4. ASSUME NEW late \in BOOLEAN, ProcessTx(late) PROVE FlightInv'
    BY <1>4, IdleFacts DEF ProcessTx, FlightInv
  <1>5. CASE Submit
    <2>1. \A m \in Motors : candidate.motors[m].safe_action => candidate.frame[m] \in StopFrames
      BY <1>5, SubmitFacts DEF StopCandidate, StopEntry
    <2> QED
      BY <1>5, <2>1, SubmitFacts DEF FlightInv
  <1> QED
    BY <1>1, <1>2, <1>3, <1>4, <1>5, FlightMoves

(* A motor that was silent stays so unless it is enabled.                  *)
LEMMA SilenceLasts ==
    ASSUME Inv, StopCandidate, [Next]_vars, NEW m \in Motors,
           ~motor[m].enabled_requested, Silent(m)
    PROVE  wire'[m] \in StopFrames /\ inFlight'.frame[m] \in Safe
  <1>1. CASE FlightStays
    BY <1>1 DEF FlightStays, Silent
  <1>2. ASSUME NEW heard \in BOOLEAN, Transmit(heard)
        PROVE  wire'[m] \in StopFrames /\ inFlight'.frame[m] \in Safe
    <2>1. inFlight' = inFlight
      BY <1>2 DEF Transmit, cbVars
    <2>2. wire'[m] = IF inFlight.frame[m] = "Nothing" THEN wire[m] ELSE inFlight.frame[m]
      BY <1>2 DEF Transmit
    <2> QED
      BY <2>1, <2>2 DEF Silent, Safe
  <1>3. CASE TxSucceeds \/ TxFails
    BY <1>3, CompletionFacts DEF Silent
  <1>4. ASSUME NEW late \in BOOLEAN, ProcessTx(late)
        PROVE  wire'[m] \in StopFrames /\ inFlight'.frame[m] \in Safe
    BY <1>4, IdleFacts DEF ProcessTx, extVars, Silent, Safe
  <1>5. CASE Submit
    <2> DEFINE entry == candidate.motors[m]
    <2>1. StopEntry(entry, candidate.purpose, candidate.frame[m])
      BY <1>5, SubmitFacts DEF StopCandidate
    <2>2. CASE ~entry.included
      BY <1>5, <2>1, <2>2, SubmitFacts DEF StopEntry, Silent, Safe
    <2>3. CASE entry.included
      <3>1. StillAuthorised(m)
        BY <1>5, <2>3, SubmitFacts DEF Authorised
      <3>2. ~entry.enabled_requested
        BY <3>1 DEF StillAuthorised
      <3>3. candidate.purpose \in {"Target", "SafeOutput"}
        <4>1. candidate.purpose \in Purpose
          BY DEF Inv, TypeOK, ThreadTypes, Candidate
        <4> QED
          BY <3>1, <4>1 DEF StillAuthorised, Purpose
      <3>4. candidate.frame[m] \in Safe
        BY <2>1, <3>2, <3>3 DEF StopEntry
      <3> QED
        BY <1>5, <3>4, SubmitFacts DEF Silent
    <2> QED
      BY <2>2, <2>3
  <1> QED
    BY <1>1, <1>2, <1>3, <1>4, <1>5, FlightMoves

-----------------------------------------------------------------------------
(* The stop protocol, one motor at a time.                                 *)

(* A completed stop frame finds its motor silent.                          *)
LEMMA CompletedIsSilent ==
    ASSUME Inv, FlightInv, NEW m \in Motors, inFlight.ok,
           inFlight.stop_generations[m] # 0
    PROVE  Silent(m)
  <1>1. inFlight.frame[m] \in StopFrames /\ inFlight.frame[m] # "Nothing"
    BY DEF FlightInv, StopFrames
  <1> QED
    BY <1>1 DEF FlightInv, Silent, Safe

LEMMA AfterCompletionMoves ==
    ASSUME Inv, NEW m \in Motors
    PROVE  \/ /\ inFlight.stop_generations[m] # 0
              /\ AfterCompletion(m) =
                    MarkStopped(motor[m], inFlight.stop_generations[m], inFlight.order)
           \/ \E kind \in {"Enable", "ClearFault"} : AfterCompletion(m) =
                 MarkAttemptTxComplete(motor[m], kind, inFlight.protocol_generation, inFlight.order)
           \/ AfterCompletion(m) = [motor[m] EXCEPT !.probe_sent = TRUE]
           \/ AfterCompletion(m) = motor[m]
  BY DEF AfterCompletion

(* What a caller of disable() and snapshot() sees of one step.             *)
StopMove(m, a, b) ==
    \/ b.enabled_requested = a.enabled_requested /\ b.progress = a.progress
    \/ ~a.enabled_requested /\ b.enabled_requested /\ b.progress = "None"
    \/ a.enabled_requested /\ ~b.enabled_requested /\ b.progress = "Pending"
    \/ /\ ~a.enabled_requested /\ ~b.enabled_requested /\ Silent(m)
       /\ a.progress \in {"Pending", "TxComplete", "Unreachable"}
       /\ b.progress = "TxComplete"
    \/ /\ m \in Dm /\ ~a.enabled_requested /\ ~b.enabled_requested
       /\ a.progress \in {"TxComplete", "Unreachable"} /\ b.progress = "DriveConfirmed"
    \/ /\ m \in Dm /\ ~a.enabled_requested /\ ~b.enabled_requested
       /\ a.progress = "TxComplete" /\ b.progress = "Unreachable"

StopStep(m) == StopMove(m, motor[m], motor'[m])

LEMMA StopSteps ==
    ASSUME Inv, FlightInv, [Next]_vars, NEW m \in Motors
    PROVE  StopStep(m)
  <1> DEFINE a == motor[m]
             b == motor'[m]
  <1>1. GoodMotor(a) /\ a \in MotorRecord /\ MotorInv(a)
    BY MotorIsGood DEF GoodMotor
  <1>2. a.progress \in StopProgress /\ a.enabled_requested \in BOOLEAN
    BY <1>1, Zenon DEF MotorRecord
  <1>3. CASE Calm(a, b) \/ StopKept(a, b)
    <2>1. b.enabled_requested = a.enabled_requested /\ b.progress = a.progress
      BY <1>3, Zenon DEF Calm, StopKept
    <2> QED
      BY <2>1, Zenon DEF StopStep, StopMove
  <1>4. CASE b = Enable(a)
    BY <1>1, <1>4 DEF Enable, MotorRecord, StopStep, StopMove
  <1>5. CASE b = RequestDisable(a)
    <2>1. CASE b = a
      BY <2>1 DEF StopStep, StopMove
    <2>2. CASE b # a
      <3>1. a.enabled_requested
        BY <1>5, <2>2 DEF RequestDisable
      <3>2. b.enabled_requested = FALSE /\ b.progress = "Pending"
        BY <1>1, <1>5, <2>2 DEF RequestDisable, MotorRecord
      <3> QED
        BY <3>1, <3>2 DEF StopStep, StopMove
    <2> QED
      BY <2>1, <2>2
  <1>6. CASE Completes(m)
    <2>1. inFlight.ok /\ b = AfterCompletion(m)
      BY <1>6 DEF Completes
    <2>2. CASE /\ inFlight.stop_generations[m] # 0
               /\ b = MarkStopped(a, inFlight.stop_generations[m], inFlight.order)
      <3>1. Silent(m)
        BY <2>1, <2>2, CompletedIsSilent
      <3>2. CASE ~a.enabled_requested /\ a.request_generation = inFlight.stop_generations[m]
        <4>1. /\ b.enabled_requested = a.enabled_requested
              /\ b.progress = IF a.progress = "DriveConfirmed" THEN a.progress ELSE "TxComplete"
          BY <1>1, <2>2, <3>2 DEF MarkStopped, MotorRecord
        <4>2. a.progress # "None"
          BY <1>1, <3>2 DEF MotorInv
        <4> QED
          BY <1>2, <3>1, <3>2, <4>1, <4>2 DEF StopProgress, StopStep, StopMove
      <3>3. CASE ~(~a.enabled_requested /\ a.request_generation = inFlight.stop_generations[m])
        BY <2>2, <3>3 DEF MarkStopped, StopStep, StopMove
      <3> QED
        BY <3>2, <3>3
    <2>3. ASSUME NEW kind,
                 b = MarkAttemptTxComplete(a, kind, inFlight.protocol_generation, inFlight.order)
          PROVE  StopStep(m)
      BY <1>1, <2>3, MarkAttemptTxCompleteKeepsStop DEF StopKept, StopStep, StopMove
    <2>4. CASE b = [a EXCEPT !.probe_sent = TRUE] \/ b = a
      BY <1>1, <2>4 DEF MotorRecord, StopStep, StopMove
    <2> QED
      BY <2>1, <2>2, <2>3, <2>4, AfterCompletionMoves
  <1>7. CASE m \in Dm /\ Accepts(m)
    <2>1. PICK e \in Unread, retryDue \in BOOLEAN :
             b = AcceptDmFeedback(a, e.status, e.order, retryDue)
      BY <1>7 DEF Accepts
    <2>2. /\ b.enabled_requested = a.enabled_requested
          /\ b.progress = IF StopConfirmed(a, e.status, e.order) THEN "DriveConfirmed"
                          ELSE a.progress
      BY <1>1, <2>1 DEF AcceptDmFeedback, MotorRecord
    <2>3. StopConfirmed(a, e.status, e.order) =>
             ~a.enabled_requested /\ a.progress \in StopReported
      BY <1>1 DEF StopConfirmed, MotorInv
    <2> QED
      BY <1>7, <2>2, <2>3 DEF StopReported, StopStep, StopMove
  <1>8. CASE Prepares(m)
    BY <1>1, <1>8, MarkPreparedKeepsStop DEF Prepares, StopKept, StopStep, StopMove
  <1>9. CASE m \in Dm /\ GivenUp(a, b)
    BY <1>9 DEF GivenUp, StopStep, StopMove
  <1> QED
    BY <1>3, <1>4, <1>5, <1>6, <1>7, <1>8, <1>9, MotorMoves DEF MotorMove

LEMMA QuietStep ==
    ASSUME Inv, StopInv, [Next]_vars
    PROVE  StoppedIsQuiet'
  <1> SUFFICES ASSUME NEW m \in Motors,
                      ~motor'[m].enabled_requested, motor'[m].progress \in StopReported
               PROVE  /\ wire'[m] \in StopFrames
                      /\ inFlight'.frame[m] \in StopFrames \cup {"Nothing"}
    BY DEF StoppedIsQuiet
  <1>1. StopStep(m)
    BY StopSteps DEF StopInv
  <1>2. ~motor[m].enabled_requested /\ (Silent(m) \/ motor[m].progress \in StopReported)
    BY <1>1 DEF StopStep, StopMove, StopReported
  <1>3. Silent(m)
    BY <1>2 DEF StopInv, StoppedIsQuiet, Silent, Safe
  <1> QED
    BY <1>2, <1>3, SilenceLasts DEF StopInv, Safe

LEMMA StopInvStep ==
    Inv /\ StopInv /\ [Next]_vars => StopInv'
  BY FlightStep, StopCandidateStep, QuietStep DEF StopInv

LEMMA InitialStops ==
    Init => StopInv
  <1> SUFFICES ASSUME Init PROVE StopInv
    OBVIOUS
  <1>1. FlightInv /\ StopCandidate
    BY IdleFacts DEF Init, FlightInv, StopCandidate
  <1>2. StoppedIsQuiet
    BY DEF Init, StoppedIsQuiet, StartedMotor, StopReported
  <1> QED
    BY <1>1, <1>2 DEF StopInv

LEMMA StopInvariance == Spec => []StopInv
  BY InitialStops, StopInvStep, Invariance, PTL DEF Spec

(* When the stop of a motor is reported as sent, confirmed or unreachable, *)
(* the wire last told that motor to stop and nothing else is on its way:   *)
(* for every layout of motors on frames, however completions, faults,      *)
(* restarts and calls of disable() interleave.                             *)
THEOREM ReportedStopIsQuiet == Spec => []StoppedIsQuiet
  <1>1. StopInv => StoppedIsQuiet
    BY DEF StopInv
  <1> QED
    BY <1>1, StopInvariance, PTL

-----------------------------------------------------------------------------
(* The stop protocol implements StopContract.                              *)

LEMMA ContractInit ==
    Init => Stop!Init
  <1> SUFFICES ASSUME Init PROVE Stop!Init
    OBVIOUS
  <1>1. \A m \in Motors : ~motor[m].enabled_requested /\ motor[m].progress = "Pending"
    BY DEF Init, StartedMotor
  <1>2. \A m \in Motors : motor[m].enabled_requested = FALSE
    BY DEF Init, StartedMotor
  <1> QED
    BY <1>1, <1>2 DEF Stop!Init

LEMMA ContractStep ==
    ASSUME Inv, StopInv, Inv', StopInv', [Next]_vars
    PROVE  Stop!Next
  <1>1. ASSUME NEW m \in Motors
        PROVE  /\ motor'[m].enabled_requested \in BOOLEAN
               /\ motor'[m].progress \in StopProgress
    BY <1>1, Zenon DEF Inv, TypeOK, MotorTypes, MotorRecord
  <1>2. StopProgress = Stop!Reported \cup {"None", "Pending"}
    BY DEF StopProgress, Stop!Reported
  <1>3. ASSUME NEW m \in Motors
        PROVE  \/ Stop!Keeps(m) \/ Stop!Enabled(m) \/ Stop!Disabled(m)
               \/ Stop!StopCompletes(m) \/ Stop!DriveConfirms(m) \/ Stop!GivesUp(m)
    <2>1. StopStep(m)
      BY StopSteps DEF StopInv
    <2> QED
      BY <2>1 DEF StopStep, StopMove, Silent, Safe, Stop!Keeps, Stop!Enabled, Stop!Disabled,
                  Stop!StopCompletes, Stop!DriveConfirms, Stop!GivesUp
  <1>4. ASSUME NEW m \in Motors PROVE Stop!StaysSilent(m)
    BY DEF StopInv, StoppedIsQuiet, Stop!StaysSilent, Stop!Reported, StopReported
  <1> QED
    BY <1>1, <1>2, <1>3, <1>4 DEF Stop!Next

(* Threads, frames, generations and recovery together implement what the   *)
(* stop progress promises a caller of disable(): every step of the bus is a*)
(* step of StopContract for each motor, or leaves its view unchanged.      *)
THEOREM StopIsImplemented == Spec => StopIsHonoured
  <1>1. Inv /\ StopInv /\ Inv' /\ StopInv' /\ [Next]_vars =>
           [Stop!Next]_<<[m \in Motors |-> motor[m].enabled_requested],
                         [m \in Motors |-> motor[m].progress],
                         [m \in Motors |-> /\ wire[m] \in StopFrames
                                           /\ inFlight.frame[m] \in StopFrames \cup {"Nothing"}]>>
    BY ContractStep
  <1> QED
    BY <1>1, ContractInit, Invariance, StopInvariance, PTL DEF Spec, StopIsHonoured, Stop!Spec

-----------------------------------------------------------------------------
(* What snapshot() says of a drive is true.  d is what the drive does, f   *)
(* the frame on its way to it and U the events it has sent that nobody has *)
(* acted upon.  An event reports what the drive still does if it was       *)
(* received after the completion that the motor waits for.                 *)

Undoing == {"Disable", "Clear"}

After(U, o) == {e \in U : o # 0 /\ e.order > o}

Agrees(e, d) ==
    /\ e.status = "Disabled" => d # "Enabled"
    /\ ~DriveUpsets /\ e.status = "Enabled" => d = "Enabled"

StopTruth(mt, d, U) ==
    ~mt.enabled_requested /\ mt.stop_tx_done =>
       /\ \A e \in After(U, mt.stop_tx_completed_order) :
             e.status = "Disabled" => d # "Enabled"
       /\ mt.progress = "DriveConfirmed" => d # "Enabled"

AttemptTruth(mt, d, f, U) ==
    mt.attempt = "Enable" /\ mt.attempt_tx_done =>
       /\ f \notin Undoing
       /\ ~DriveUpsets => \A e \in After(U, mt.attempt_tx_completed_order) :
             e.status = "Enabled" => d = "Enabled"

ActiveTruth(mt, d, f) ==
    mt.state = "Active" =>
       /\ f \notin Undoing
       /\ ~DriveUpsets => d = "Enabled"

Truth(mt, d, f, U) ==
    StopTruth(mt, d, U) /\ AttemptTruth(mt, d, f, U) /\ ActiveTruth(mt, d, f)

(* What a step may add to the unread events: what is true right now.       *)
Adds(U, V, d) == \A e \in V : e \in U \/ Agrees(e, d)

LEMMA CalmKeepsTruth ==
    ASSUME NEW a, NEW b, NEW d, NEW f, NEW g, NEW U, NEW V,
           Truth(a, d, f, U), Calm(a, b) \/ GivenUp(a, b), g \in {f, "Nothing"}, Adds(U, V, d)
    PROVE  Truth(b, d, g, V)
  <1>1. AttemptKept(a, b)
    BY DEF Calm, GivenUp
  <1>2. \A o : \A e \in After(V, o) : e \in After(U, o) \/ Agrees(e, d)
    BY DEF After, Adds
  <1>3. g \in Undoing => f \in Undoing
    BY DEF Undoing
  <1>4. /\ b.enabled_requested = a.enabled_requested \/ (~a.enabled_requested /\ ~b.enabled_requested)
        /\ b.stop_tx_done = a.stop_tx_done
        /\ b.stop_tx_completed_order = a.stop_tx_completed_order
        /\ b.progress = "DriveConfirmed" => a.progress = "DriveConfirmed"
    BY DEF Calm, StopKept, GivenUp
  <1>5. StopTruth(b, d, V)
    BY <1>2, <1>4 DEF Truth, StopTruth, Agrees
  <1>6. AttemptTruth(b, d, g, V)
    BY <1>1, <1>2, <1>3 DEF Truth, AttemptTruth, AttemptKept, Agrees
  <1>7. ActiveTruth(b, d, g)
    BY <1>1, <1>3 DEF Truth, ActiveTruth, AttemptKept
  <1> QED
    BY <1>5, <1>6, <1>7 DEF Truth

LEMMA CallKeepsTruth ==
    ASSUME NEW a \in MotorRecord, NEW d, NEW f, NEW U, Truth(a, d, f, U)
    PROVE  Truth(Enable(a), d, f, U) /\ Truth(RequestDisable(a), d, f, U)
  <1>1. Truth(Enable(a), d, f, U)
    <2>1. AttemptKept(a, Enable(a)) /\ (Enable(a) = a \/ Enable(a).enabled_requested)
      BY DEF Enable, AttemptKept, MotorRecord
    <2>2. AttemptTruth(Enable(a), d, f, U) /\ ActiveTruth(Enable(a), d, f)
      BY <2>1 DEF Truth, AttemptKept, AttemptTruth, ActiveTruth
    <2>3. StopTruth(Enable(a), d, U)
      BY <2>1 DEF Truth, StopTruth
    <2> QED
      BY <2>2, <2>3 DEF Truth
  <1>2. Truth(RequestDisable(a), d, f, U)
    <2> DEFINE b == RequestDisable(a)
    <2>1. CASE b = a
      BY <2>1
    <2>2. CASE b # a
      <3>1. ~b.stop_tx_done /\ b.attempt = "None"
        BY <2>2 DEF RequestDisable, MotorRecord
      <3>2. b.state # "Active"
        BY <2>2, RestingStateType DEF RequestDisable, MotorRecord
      <3> HIDE DEF b
      <3>3. Truth(b, d, f, U)
        BY <3>1, <3>2 DEF Truth, StopTruth, AttemptTruth, ActiveTruth
      <3> QED
        BY <3>3 DEF b
    <2> QED
      BY <2>1, <2>2
  <1> QED
    BY <1>1, <1>2

(* Completions: U holds, after the order of the completion, only events    *)
(* that are still true.                                                    *)
LEMMA CompletionKeepsTruth ==
    ASSUME NEW a, GoodMotor(a), NEW d, NEW f, NEW U, NEW o, Truth(a, d, f, U),
           \A e \in After(U, o) : Agrees(e, d), NEW generation, NEW kind
    PROVE  /\ Truth(MarkStopped(a, generation, o), d, "Nothing", U)
           /\ Truth(MarkAttemptTxComplete(a, kind, generation, o), d, "Nothing", U)
  <1>1. a \in MotorRecord /\ "Nothing" \notin Undoing
    BY DEF GoodMotor, Undoing
  <1>2. a.progress = "DriveConfirmed" /\ ~a.enabled_requested => d # "Enabled"
    BY DEF GoodMotor, MotorInv, StopReported, Truth, StopTruth
  <1>3. Truth(MarkStopped(a, generation, o), d, "Nothing", U)
    <2> DEFINE b == MarkStopped(a, generation, o)
    <2>1. AttemptKept(a, b)
      BY <1>1 DEF MarkStopped, MotorRecord, AttemptKept
    <2>2. \/ b = a
          \/ /\ b.stop_tx_completed_order = o
             /\ b.progress = "DriveConfirmed" => a.progress = "DriveConfirmed"
             /\ ~a.enabled_requested
      BY <1>1 DEF MarkStopped, MotorRecord
    <2> HIDE DEF b
    <2>3. AttemptTruth(b, d, "Nothing", U) /\ ActiveTruth(b, d, "Nothing")
      BY <1>1, <2>1 DEF Truth, AttemptKept, AttemptTruth, ActiveTruth
    <2>4. StopTruth(b, d, U)
      BY <1>2, <2>2 DEF Truth, StopTruth, Agrees
    <2> QED
      BY <2>3, <2>4 DEF Truth, b
  <1>4. Truth(MarkAttemptTxComplete(a, kind, generation, o), d, "Nothing", U)
    <2> DEFINE b == MarkAttemptTxComplete(a, kind, generation, o)
    <2>1. StopKept(a, b)
      BY <1>1, MarkAttemptTxCompleteKeepsStop
    <2>2. b = a \/ b.attempt_tx_completed_order = o
      BY <1>1 DEF MarkAttemptTxComplete, MotorRecord
    <2>3. b.state = a.state
      BY <1>1 DEF MarkAttemptTxComplete, MotorRecord
    <2> HIDE DEF b
    <2>4. StopTruth(b, d, U)
      BY <2>1 DEF Truth, StopKept, StopTruth
    <2>5. AttemptTruth(b, d, "Nothing", U)
      BY <1>1, <2>2 DEF Truth, AttemptTruth, Agrees
    <2>6. ActiveTruth(b, d, "Nothing")
      BY <1>1, <2>3 DEF Truth, ActiveTruth
    <2> QED
      BY <2>4, <2>5, <2>6 DEF Truth, b
  <1> QED
    BY <1>3, <1>4

(* Feedback: what the thread takes for a confirmation is one.              *)
LEMMA AcceptKeepsTruth ==
    ASSUME NEW a, GoodMotor(a), NEW d, NEW f, NEW U, Truth(a, d, f, U),
           NEW e \in U, NEW retryDue
    PROVE  Truth(AcceptDmFeedback(a, e.status, e.order, retryDue), d, f, U)
  <1> DEFINE b == AcceptDmFeedback(a, e.status, e.order, retryDue)
  <1>1. a \in MotorRecord
    BY DEF GoodMotor
  <1>2. AttemptKept(a, b)
    BY <1>1 DEF AcceptDmFeedback, MotorRecord, AttemptKept
  <1>3. /\ b.enabled_requested = a.enabled_requested
        /\ b.stop_tx_done = a.stop_tx_done
        /\ b.stop_tx_completed_order = a.stop_tx_completed_order
        /\ \/ b.progress = a.progress
           \/ StopConfirmed(a, e.status, e.order)
    BY <1>1 DEF AcceptDmFeedback, MotorRecord
  <1>4. StopConfirmed(a, e.status, e.order) => d # "Enabled"
    BY DEF StopConfirmed, Truth, StopTruth, After
  <1> HIDE DEF b
  <1>5. StopTruth(b, d, U)
    BY <1>3, <1>4 DEF Truth, StopTruth
  <1>6. AttemptTruth(b, d, f, U) /\ ActiveTruth(b, d, f)
    BY <1>2 DEF Truth, AttemptKept, AttemptTruth, ActiveTruth
  <1> QED
    BY <1>5, <1>6 DEF Truth, b

LEMMA PreparedKeepsTruth ==
    ASSUME NEW a \in MotorRecord, NEW d, NEW f, NEW U, Truth(a, d, f, U), NEW generation,
           a.enabled_requested /\ a.protocol_generation = generation =>
              /\ a.attempt = "Enable" /\ a.attempt_tx_done
              /\ ~DriveUpsets => d = "Enabled"
    PROVE  Truth(MarkPrepared(a, generation), d, f, U)
  <1> DEFINE b == MarkPrepared(a, generation)
  <1>1. StopKept(a, b)
    BY MarkPreparedKeepsStop
  <1>2. \/ b = a
        \/ a.enabled_requested /\ a.protocol_generation = generation /\ b.attempt = "None"
    BY DEF MarkPrepared, MotorRecord
  <1> HIDE DEF b
  <1>3. StopTruth(b, d, U)
    BY <1>1 DEF Truth, StopKept, StopTruth
  <1>4. AttemptTruth(b, d, f, U) /\ ActiveTruth(b, d, f)
    BY <1>2 DEF Truth, AttemptTruth, ActiveTruth
  <1> QED
    BY <1>3, <1>4 DEF Truth, b

(* Frames and drives.                                                      *)
LEMMA TransmitKeepsTruth ==
    ASSUME NEW a, GoodMotor(a), NEW d, NEW f, NEW U, Truth(a, d, f, U),
           ~a.enabled_requested /\ a.progress \in StopReported => f \in Safe
    PROVE  Truth(a, AfterFrame(d, f), f, U)
  <1>1. ~a.enabled_requested /\ a.stop_tx_done /\ d # "Enabled" => AfterFrame(d, f) # "Enabled"
    BY DEF GoodMotor, MotorInv, AfterFrame, Safe, StopFrames
  <1>2. f \notin Undoing /\ d = "Enabled" => AfterFrame(d, f) = "Enabled"
    BY DEF AfterFrame, Undoing
  <1>3. StopTruth(a, AfterFrame(d, f), U)
    BY <1>1 DEF Truth, StopTruth
  <1>4. AttemptTruth(a, AfterFrame(d, f), f, U) /\ ActiveTruth(a, AfterFrame(d, f), f)
    BY <1>2 DEF Truth, AttemptTruth, ActiveTruth
  <1> QED
    BY <1>3, <1>4 DEF Truth

LEMMA UpsetKeepsTruth ==
    ASSUME NEW a, NEW d, NEW f, NEW U, Truth(a, d, f, U), DriveUpsets, NEW g, g # "Enabled"
    PROVE  Truth(a, g, f, U)
  BY DEF Truth, StopTruth, AttemptTruth, ActiveTruth

LEMMA SubmitKeepsTruth ==
    ASSUME NEW a, NEW d, NEW f, NEW U, Truth(a, d, f, U), NEW g,
           g \in Undoing => a.attempt # "Enable" /\ a.state # "Active"
    PROVE  Truth(a, d, g, U)
  BY DEF Truth, StopTruth, AttemptTruth, ActiveTruth

(* What the thread read before it released the lock of a motor whose drive *)
(* answered an Enable frame: g is the protocol generation it saw.          *)
Confirmed(mt, g, d) ==
    /\ g <= mt.protocol_generation
    /\ g = mt.protocol_generation =>
          /\ mt.enabled_requested /\ mt.attempt = "Enable" /\ mt.attempt_tx_done
          /\ ~DriveUpsets => d = "Enabled"

Of(m) == {e \in Unread : e.motor = m}

OrderInv == \A e \in Unread : e.order < order

CompletionInv ==
    inFlight.callback_seen =>
        \A e \in After(Unread, inFlight.order) : e.motor \in Dm => Agrees(e, drive[e.motor])

MotorTruth == \A m \in Dm : Truth(motor[m], drive[m], inFlight.frame[m], Of(m))

FollowTruth ==
    pc = "FollowUp" /\ follow.kind = "Prepared" =>
        /\ follow.motor \in Dm
        /\ Confirmed(motor[follow.motor], follow.generation, drive[follow.motor])

(* The frame the thread has chosen can undo neither an attempt that waits  *)
(* for its confirmation nor an Active motor.                               *)
ChosenTruth ==
    pc \in {"Build", "Submit"} => \A m \in Units[candidate.unit] \cap Dm :
       /\ candidate.purpose = "SafeOutput" =>
             motor[m].attempt = "None" /\ motor[m].state # "Active"
       /\ candidate.clear_probe => motor[m].attempt \in {"None", "ClearFault"}

EncodedTruth ==
    pc = "Submit" => \A m \in Dm : candidate.frame[m] \in Undoing =>
       /\ m \in Units[candidate.unit] /\ candidate.motors[m].included
       /\ \/ candidate.purpose \in {"SafeOutput", "ClearFault"}
          \/ candidate.purpose = "Probe" /\ candidate.clear_probe

TruthInv == /\ OrderInv /\ CompletionInv /\ MotorTruth /\ FollowTruth
            /\ ChosenTruth /\ EncodedTruth

(* Every step only takes events away, but for one that the interrupt adds. *)
EventsStay == Unread' \subseteq Unread /\ order <= order'

EventAdded ==
    /\ \A e \in Unread' : \/ e \in Unread
                          \/ e.order < order' /\ (e.motor \in Dm => Agrees(e, drive[e.motor]))
    /\ order <= order'
    /\ UNCHANGED <<motor, inFlight, drive, ioVars>>

LEMMA ReceivedEvent ==
    ASSUME Inv, NEW m \in Motors, NEW status, OnRx(m, status), UNCHANGED drive,
           m \in Dm => status = drive[m]
    PROVE  EventAdded
  <1> DEFINE e == [motor |-> m, status |-> status, generation |-> bus.generation,
                   order |-> GivenOrder]
  <1>1. rx.queue \in Seq(RxEvent) /\ order \in 1 .. MaxOrder /\ MaxOrder \in Nat
    BY CounterAssumption DEF CounterAssumption, Inv, TypeOK, RxTypes, OrderTypes
  <1>2. order <= order' /\ GivenOrder < order'
    BY <1>1 DEF OnRx, RecordCallbackOrder, GivenOrder
  <1>3. UNCHANGED <<motor, inFlight, ioVars>>
    BY DEF OnRx
  <1>4. e.order = GivenOrder /\ e.motor = m /\ e.status = status
    OBVIOUS
  <1>5. \A i \in DOMAIN rx'.queue :
           \/ i \in DOMAIN rx.queue /\ rx'.queue[i] = rx.queue[i]
           \/ rx'.queue[i] = e
    <2>1. CASE bus.state # "Running" \/ Len(rx.queue) = RxDepth
      <3>1. rx'.queue = rx.queue
        BY <2>1 DEF OnRx, Inv, TypeOK, RxTypes
      <3> QED
        BY <3>1
    <2>2. CASE ~(bus.state # "Running" \/ Len(rx.queue) = RxDepth)
      <3>1. rx' = [rx EXCEPT !.queue = Append(rx.queue, e)]
        BY <2>2 DEF OnRx
      <3>2. rx'.queue = Append(rx.queue, e)
        BY <3>1 DEF Inv, TypeOK, RxTypes
      <3> HIDE DEF e
      <3> QED
        BY <1>1, <3>2
    <2> QED
      BY <2>1, <2>2
  <1> HIDE DEF e
  <1>6. \A x \in Unread' : x \in Unread \/ x = e
    BY <1>3, <1>5, Zenon DEF Unread, ioVars
  <1>7. m \in Dm => Agrees(e, drive[m])
    BY <1>4 DEF Agrees
  <1> QED
    BY <1>2, <1>3, <1>4, <1>6, <1>7 DEF EventAdded

LEMMA QueueStays ==
    ASSUME Inv, rx'.queue = rx.queue, UNCHANGED order,
           pc' # "AcceptFeedback" \/ UNCHANGED <<pc, event>>
    PROVE  EventsStay
  <1>1. order <= order'
    BY CounterAssumption DEF CounterAssumption, Inv, TypeOK, OrderTypes
  <1> QED
    BY <1>1 DEF EventsStay, Unread

LEMMA EventTaken ==
    ASSUME Inv, NEW gap, NEW sameMs, NEW retryDue, ProcessRx(gap, sameMs, retryDue)
    PROVE  EventsStay
  <1> DEFINE e == Head(rx.queue)
  <1>1. rx.queue \in Seq(RxEvent) /\ rx.queue # <<>> /\ order' = order /\ order <= order
    BY CounterAssumption DEF ProcessRx, CounterAssumption, Inv, TypeOK, RxTypes, OrderTypes
  <1>2. rx'.queue = Tail(rx.queue)
    BY DEF ProcessRx, Inv, TypeOK, RxTypes
  <1>3. \A i \in DOMAIN rx'.queue : i + 1 \in DOMAIN rx.queue /\ rx'.queue[i] = rx.queue[i + 1]
    <2>1. \A q \in Seq(RxEvent) : q # <<>> =>
             \A i \in DOMAIN Tail(q) : i + 1 \in DOMAIN q /\ Tail(q)[i] = q[i + 1]
      OBVIOUS
    <2> QED
      BY <1>1, <1>2, <2>1
  <1>4. \A i \in DOMAIN rx'.queue : rx'.queue[i] \in Unread
    BY <1>3, Zenon DEF Unread
  <1>5. pc' = "AcceptFeedback" => event' \in Unread
    <2>1. e \in Unread
      BY <1>1, EventTypes
    <2>2. pc' = "AcceptFeedback" => event' = e
      BY DEF ProcessRx, Accept
    <2> QED
      BY <2>1, <2>2
  <1>6. Unread' \subseteq Unread
    BY <1>4, <1>5 DEF Unread
  <1> QED
    BY <1>1, <1>6 DEF EventsStay

LEMMA EventMoves ==
    ASSUME Inv, [Next]_vars
    PROVE  EventsStay \/ EventAdded
  <1>1. CASE App
    <2>1. UNCHANGED <<rx, order, pc, event>>
      BY <1>1 DEF App, CallEnable, CallDisable, CallInvalidate, CallSetter, Call, Commit, cbVars,
                  ioVars
    <2> QED
      BY <2>1, QueueStays
  <1>2. CASE Environment
    <2>1. ASSUME NEW m \in Motors, NEW again \in BOOLEAN, DmReplies(m, again) PROVE EventAdded
      BY <2>1, ReceivedEvent DEF DmReplies
    <2>2. ASSUME NEW m \in Motors, DjiReports(m) PROVE EventAdded
      BY <2>2, ReceivedEvent DEF DjiReports, extVars
    <2>3. CASE TxSucceeds \/ TxFails
      <3>1. UNCHANGED <<rx, ioVars>> /\ RecordCallbackOrder
        BY <2>3 DEF TxSucceeds, TxFails, OnTxDone
      <3>2. order <= order'
        BY <3>1, CounterAssumption DEF RecordCallbackOrder, CounterAssumption, Inv, TypeOK, OrderTypes
      <3> QED
        BY <3>1, <3>2 DEF EventsStay, Unread, ioVars
    <2>4. CASE \/ \E heard \in BOOLEAN : Transmit(heard)
               \/ \E m \in Motors : FeedbackAges(m) \/ CommandAges(m) \/ DriveFaults(m)
               \/ ControllerFails \/ BusOffEnds
      <3>1. UNCHANGED <<rx, order, pc, event>>
        BY <2>4 DEF Transmit, FeedbackAges, CommandAges, DriveFaults, ControllerFails, BusOffEnds,
                    cbVars, ioVars
      <3> QED
        BY <3>1, QueueStays
    <2> QED
      BY <1>2, <2>1, <2>2, <2>3, <2>4, Zenon DEF Environment
  <1>3. ASSUME NEW late \in BOOLEAN, ProcessTx(late) PROVE EventsStay
    BY <1>3, QueueStays DEF ProcessTx, EnterRecovery
  <1>4. CASE TakeOverflow
    <2>1. rx'.queue = rx.queue /\ pc' = "ProcessRx" /\ UNCHANGED order
      BY <1>4 DEF TakeOverflow, EnterRecovery, Inv, TypeOK, RxTypes
    <2> QED
      BY <2>1, QueueStays
  <1>5. ASSUME NEW sameMs, NEW retryDue, AcceptFeedback(sameMs, retryDue) PROVE EventsStay
    BY <1>5, QueueStays DEF AcceptFeedback, Accept, cbVars
  <1>6. ASSUME NEW m \in Motors, NEW timeout, NEW due, NEW late, CheckMotor(m, timeout, due, late)
        PROVE  EventsStay
    BY <1>6, QueueStays DEF CheckMotor, cbVars
  <1>7. ASSUME NEW due, Pump(due) PROVE EventsStay
    <2>1. pc' \in {"Build", "ProcessTx"}
      BY <1>7 DEF Pump, TakeProtocol, TakeTarget, Take, EndPump
    <2> QED
      BY <1>7, <2>1, QueueStays DEF Pump, cbVars
  <1>8. CASE Build
    <2>1. pc' # "AcceptFeedback"
      BY <1>8 DEF Build, Inv, TypeOK, ThreadTypes, Candidate, PumpStage
    <2> QED
      BY <1>8, <2>1, QueueStays DEF Build, cbVars
  <1>9. CASE FollowUpFeedback \/ CheckBus \/ WaitInRecovery \/ StopController \/ StartController
             \/ RestartAgain \/ Recover \/ Submit \/ SubmitRefused \/ SendFails
    <2>1. pc' # "AcceptFeedback" /\ UNCHANGED <<rx, order>>
      BY <1>9 DEF FollowUpFeedback, CheckBus, WaitInRecovery, StopController,
             StartController, RestartAgain, Recover, Recovering, Submit, SubmitRefused,
             SendFails, EnterRecovery, EndSubmit, cbVars
    <2> QED
      BY <2>1, QueueStays
  <1>10. CASE UNCHANGED vars
    BY <1>10, QueueStays DEF vars, cbVars, ioVars
  <1>11. CASE IoThread
    BY <1>3, <1>4, <1>5, <1>6, <1>7, <1>8, <1>9, <1>11, EventTaken, Zenon DEF IoThread
  <1> QED
    BY <1>1, <1>2, <1>10, <1>11, Zenon DEF Next

LEMMA OrderStep ==
    ASSUME Inv, OrderInv, [Next]_vars
    PROVE  OrderInv'
  <1>1. order \in Nat /\ order' \in Nat
    BY InvIsInductive, CounterAssumption DEF CounterAssumption, Inv, TypeOK, OrderTypes
  <1>2. order <= order' => \A e \in Unread : e.order < order'
    BY <1>1, EventTypes DEF OrderInv
  <1> QED
    BY <1>2, EventMoves DEF EventsStay, EventAdded, OrderInv

LEMMA CompletionStep ==
    ASSUME Inv, FrameOwnsCallback, OrderInv, CompletionInv, [Next]_vars
    PROVE  CompletionInv'
  <1>1. CASE FlightStays /\ UNCHANGED drive
    <2>1. \A e \in After(Unread', inFlight.order) :
             e \in After(Unread, inFlight.order) \/ (e.motor \in Dm => Agrees(e, drive[e.motor]))
      BY EventMoves DEF EventsStay, EventAdded, After
    <2> QED
      BY <1>1, <2>1 DEF FlightStays, CompletionInv
  <1>2. ASSUME FlightStays, NEW k \in Motors, DriveFaults(k) PROVE CompletionInv'
    <2>1. Unread' = Unread /\ inFlight' = inFlight /\ DriveUpsets
      BY <1>2 DEF DriveFaults, cbVars, ioVars, Unread
    <2>2. \A m \in Motors : drive'[m] = drive[m] \/ drive'[m] # "Enabled"
      BY <1>2 DEF DriveFaults, Inv, TypeOK, ExternalTypes
    <2>3. \A e \in Unread : e.motor \in Motors
      BY EventTypes
    <2> QED
      BY <2>1, <2>2, <2>3 DEF CompletionInv, After, Agrees
  <1>3. ASSUME NEW heard \in BOOLEAN, Transmit(heard) PROVE CompletionInv'
    <2>1. ~inFlight.callback_seen /\ inFlight' = inFlight
      BY <1>3 DEF Transmit, FrameOwnsCallback, cbVars
    <2> QED
      BY <2>1 DEF CompletionInv
  <1>4. CASE TxSucceeds \/ TxFails
    <2>1. Unread' = Unread /\ UNCHANGED drive
      BY <1>4 DEF TxSucceeds, TxFails, OnTxDone, ioVars, Unread
    <2>2. \/ inFlight' = inFlight
          \/ inFlight'.order = GivenOrder
      BY <1>4 DEF TxSucceeds, TxFails, OnTxDone, Inv, TypeOK, InFlightTypes, InFlight
    <2>3. After(Unread, GivenOrder) = {}
      <3>1. order \in Nat /\ \A e \in Unread : e.order \in Nat /\ e.order < order
        BY EventTypes, CounterAssumption DEF OrderInv, CounterAssumption, Inv, TypeOK, OrderTypes
      <3>2. GivenOrder = 0 \/ GivenOrder = order
        BY DEF GivenOrder
      <3> QED
        BY <3>1, <3>2 DEF After
    <2> QED
      BY <2>1, <2>2, <2>3 DEF CompletionInv
  <1>5. ASSUME NEW late \in BOOLEAN, ProcessTx(late) PROVE CompletionInv'
    BY <1>5, IdleFacts DEF ProcessTx, CompletionInv
  <1>6. CASE Submit
    BY <1>6, SubmitFacts DEF CompletionInv
  <1> QED
    BY <1>1, <1>2, <1>3, <1>4, <1>5, <1>6, FlightMoves DEF FlightStays

(* The record of a motor after its move is as true as the one before, with *)
(* the frame in flight and the unread events of before.                    *)
LEMMA MoveKeepsTruth ==
    ASSUME Inv, CompletionInv, FollowTruth, NEW m \in Dm, MotorMove(m),
           Truth(motor[m], drive[m], inFlight.frame[m], Of(m))
    PROVE  \/ Truth(motor'[m], drive[m], inFlight.frame[m], Of(m))
           \/ /\ Truth(motor'[m], drive[m], "Nothing", Of(m))
              /\ inFlight'.frame[m] = "Nothing"
  <1> DEFINE a == motor[m]
             b == motor'[m]
             f == inFlight.frame[m]
  <1>1. m \in Motors
    BY TopologyAssumption DEF TopologyAssumption
  <1>2. GoodMotor(a) /\ a \in MotorRecord
    BY <1>1, MotorIsGood DEF GoodMotor
  <1>3. ASSUME NEW c, NEW g, g \in {f, "Nothing"}, Calm(a, c) \/ GivenUp(a, c)
        PROVE  Truth(c, drive[m], g, Of(m))
    BY <1>3, CalmKeepsTruth DEF Adds
  <1>4. CASE Calm(a, b) \/ GivenUp(a, b)
    BY <1>3, <1>4
  <1>5. CASE b = Enable(a) \/ b = RequestDisable(a)
    BY <1>2, <1>5, CallKeepsTruth
  <1>6. CASE Completes(m)
    <2>1. inFlight.callback_seen /\ inFlight'.frame[m] = "Nothing" /\ b = AfterCompletion(m)
      BY <1>1, <1>6, IdleFacts DEF Completes, ProcessTx, Completed
    <2>2. \A e \in After(Of(m), inFlight.order) : Agrees(e, drive[m])
      BY <2>1 DEF CompletionInv, After, Of
    <2>3. CASE b = MarkStopped(a, inFlight.stop_generations[m], inFlight.order)
      BY <1>2, <2>1, <2>2, <2>3, CompletionKeepsTruth
    <2>4. ASSUME NEW kind,
                 b = MarkAttemptTxComplete(a, kind, inFlight.protocol_generation, inFlight.order)
          PROVE  Truth(b, drive[m], "Nothing", Of(m))
      BY <1>2, <2>2, <2>4, CompletionKeepsTruth
    <2>5. CASE b = [a EXCEPT !.probe_sent = TRUE] \/ b = a
      <3>1. Calm(a, b)
        BY <1>2, <2>5, FieldUpdatesCalm, CalmIsTransitive
      <3> QED
        BY <1>3, <2>1, <3>1
    <2> QED
      BY <1>1, <2>1, <2>3, <2>4, <2>5, AfterCompletionMoves
  <1>7. CASE Accepts(m)
    <2>1. PICK e \in Unread, retryDue \in BOOLEAN :
             e.motor = m /\ b = AcceptDmFeedback(a, e.status, e.order, retryDue)
      BY <1>7 DEF Accepts
    <2>2. e \in Of(m)
      BY <2>1 DEF Of
    <2> QED
      BY <1>2, <2>1, <2>2, AcceptKeepsTruth
  <1>8. CASE Prepares(m)
    <2>1. /\ follow.motor = m /\ pc = "FollowUp" /\ follow.kind = "Prepared"
          /\ b = MarkPrepared(a, follow.generation)
      BY <1>8 DEF Prepares, FollowUpFeedback
    <2>2. a.enabled_requested /\ a.protocol_generation = follow.generation =>
             /\ a.attempt = "Enable" /\ a.attempt_tx_done
             /\ ~DriveUpsets => drive[m] = "Enabled"
      BY <2>1 DEF FollowTruth, Confirmed
    <2> QED
      BY <1>2, <2>1, <2>2, PreparedKeepsTruth
  <1> QED
    BY <1>4, <1>5, <1>6, <1>7, <1>8 DEF MotorMove

LEMMA TruthGoesOn ==
    ASSUME Inv, CompletionInv, FollowTruth, MotorTruth, [Next]_vars, NEW m \in Dm,
           UNCHANGED drive, inFlight'.frame[m] \in {inFlight.frame[m], "Nothing"}
    PROVE  Truth(motor'[m], drive'[m], inFlight'.frame[m], Of(m)')
  <1>1. m \in Motors
    BY TopologyAssumption DEF TopologyAssumption
  <1>2. Adds(Of(m), Of(m)', drive[m])
    BY EventMoves DEF EventsStay, EventAdded, Of, Adds
  <1>3. PICK g \in {inFlight.frame[m], "Nothing"} :
          Truth(motor'[m], drive[m], g, Of(m)) /\ inFlight'.frame[m] \in {g, "Nothing"}
    BY <1>1, MotorMoves, MoveKeepsTruth DEF MotorTruth
  <1>4. Calm(motor'[m], motor'[m])
    BY DEF Calm, StopKept, AttemptKept
  <1> QED
    BY <1>2, <1>3, <1>4, CalmKeepsTruth

-----------------------------------------------------------------------------
(* The frame that the thread chooses, encodes and submits.                 *)

LEMMA PumpChooses ==
    ASSUME Inv, NEW due, Pump(due), pc' = "Build", NEW m \in Dm, m \in Units[candidate'.unit]
    PROVE  /\ candidate'.purpose = "SafeOutput" => ~motor[m].enabled_requested
           /\ candidate'.clear_probe => motor[m].attempt = "ClearFault"
           /\ UNCHANGED motor
  <1> DEFINE first == IF pc = "First" THEN todo
                      ELSE IF pc = "Pump" /\ protocolFirst THEN UnitIds ELSE {}
             last  == IF pc = "Last" THEN todo ELSE UnitIds
             Result == /\ candidate'.purpose = "SafeOutput" => ~motor[m].enabled_requested
                       /\ candidate'.clear_probe => motor[m].attempt = "ClearFault"
  <1>1. ASSUME NEW u \in UnitIds, NEW purpose, NEW stage, Take(u, purpose, stage)
        PROVE  /\ candidate'.unit = u /\ candidate'.purpose = purpose
               /\ candidate'.clear_probe =>
                     purpose = "Probe" /\ \E k \in Units[u] : motor[k].attempt = "ClearFault"
    BY <1>1 DEF Take, NoCandidate
  <1>2. ASSUME NEW scan, scan \subseteq UnitIds, NEW stage, TakeProtocol(scan, stage, due)
        PROVE  Result
    <2> DEFINE stopsOnly == stage = "Stop"
    <2>1. PICK u \in UnitIds : Take(u, PurposeOf(u, stopsOnly, due), stage)
      BY <1>2 DEF TakeProtocol
    <2>2. candidate'.unit = u /\ Units[u] = {m}
      BY <1>1, <2>1, UnitFacts
    <2>3. ASSUME PurposeOf(u, stopsOnly, due) = "SafeOutput" PROVE ~motor[m].enabled_requested
      <3>1. CASE \E k \in Units[u] : WantsStop(k, stopsOnly, due)
        BY <2>2, <3>1 DEF WantsStop
      <3>2. CASE ~\E k \in Units[u] : WantsStop(k, stopsOnly, due)
        <4>1. (CHOOSE k \in Units[u] : TRUE) = m
          BY <2>2, UnitFacts
        <4>2. "SafeOutput" \in {"Probe", motor[m].attempt}
          BY <2>3, <3>2, <4>1 DEF PurposeOf
        <4>3. m \in Motors
          BY TopologyAssumption DEF TopologyAssumption
        <4>4. motor[m].attempt \in AttemptKind
          BY <4>3, Zenon DEF Inv, TypeOK, MotorTypes, MotorRecord
        <4> QED
          BY <4>2, <4>4 DEF AttemptKind
      <3> QED
        BY <3>1, <3>2
    <2> QED
      BY <1>1, <2>1, <2>2, <2>3
  <1>3. ASSUME TakeTarget PROVE Result
    <2>1. PICK u \in UnitIds : u = cursor.target
      BY DEF Inv, TypeOK, PumpTypes
    <2>2. PICK purpose \in Purpose : purpose = "Target"
      BY DEF Purpose
    <2>3. Take(u, purpose, purpose)
      BY <1>3, <2>1, <2>2, Zenon DEF TakeTarget
    <2>4. /\ candidate'.purpose = purpose
          /\ candidate'.clear_probe => purpose = "Probe"
      BY <2>3 DEF Take, NoCandidate
    <2> QED
      BY <2>2, <2>4
  <1>4. first \subseteq UnitIds /\ last \subseteq UnitIds
    BY DEF Inv, TypeOK, ThreadTypes
  <1>5. \/ TakeProtocol(UnitIds, "Stop", due) \/ TakeProtocol(first, "First", due)
        \/ TakeTarget \/ TakeProtocol(last, "Last", due) \/ EndPump
    BY Zenon DEF Pump
  <1>6. ~EndPump
    BY DEF EndPump
  <1>7. UNCHANGED motor
    BY DEF Pump
  <1> HIDE DEF first, last
  <1>8. Result
    BY <1>2, <1>3, <1>4, <1>5, <1>6
  <1> QED
    BY <1>7, <1>8

LEMMA ChosenStep ==
    ASSUME Inv, ChosenTruth, [Next]_vars
    PROVE  ChosenTruth'
  <1> DEFINE Harmless(mt, purpose, probe) ==
               /\ purpose = "SafeOutput" => mt.attempt = "None" /\ mt.state # "Active"
               /\ probe => mt.attempt \in {"None", "ClearFault"}
  <1> SUFFICES ASSUME pc' \in {"Build", "Submit"}, NEW m \in Dm, m \in Units[candidate'.unit]
               PROVE  Harmless(motor'[m], candidate'.purpose, candidate'.clear_probe)
    BY DEF ChosenTruth
  <1>1. m \in Motors
    BY TopologyAssumption DEF TopologyAssumption
  <1>2. GoodMotor(motor[m])
    BY <1>1, MotorIsGood
  <1>3. CASE pc' = "Submit" /\ Build
    <2>1. Harmless(motor[m], candidate'.purpose, candidate'.clear_probe)
      BY <1>3, BuildLeaves DEF Build, ChosenTruth
    <2>2. motor'[m] = motor[m] \/ motor'[m] = [motor[m] EXCEPT !.probe_sent = TRUE]
      BY <1>1, <1>3 DEF Build
    <2>3. motor'[m].attempt = motor[m].attempt /\ motor'[m].state = motor[m].state
      BY <1>2, <2>2 DEF GoodMotor, MotorRecord
    <2> QED
      BY <2>1, <2>3
  <1>4. ASSUME pc' = "Build", NEW due, Pump(due)
        PROVE  Harmless(motor'[m], candidate'.purpose, candidate'.clear_probe)
    <2>1. ~motor[m].enabled_requested => motor[m].attempt = "None" /\ motor[m].state # "Active"
      BY <1>2 DEF GoodMotor, MotorInv
    <2> QED
      BY <1>4, <2>1, PumpChooses
  <1>5. CASE App \/ Environment \/ UNCHANGED vars
    <2>1. UNCHANGED <<pc, candidate>> /\ Outside(motor[m], motor'[m])
      BY <1>1, <1>5, OutsideSteps DEF ioVars
    <2>2. Harmless(motor[m], candidate.purpose, candidate.clear_probe)
      BY <2>1 DEF ChosenTruth
    <2> QED
      BY <2>1, <2>2 DEF Outside
  <1> QED
    BY <1>3, <1>4, <1>5, WhoseStep

LEMMA EncodedStep ==
    ASSUME Inv, EncodedTruth, [Next]_vars
    PROVE  EncodedTruth'
  <1>1. CASE pc' # "Submit"
    BY <1>1 DEF EncodedTruth
  <1>2. CASE Build /\ pc' = "Submit"
    <2> SUFFICES ASSUME NEW m \in Dm, candidate'.frame[m] \in Undoing
                 PROVE  /\ m \in Units[candidate'.unit] /\ candidate'.motors[m].included
                        /\ \/ candidate'.purpose \in {"SafeOutput", "ClearFault"}
                           \/ candidate'.purpose = "Probe" /\ candidate'.clear_probe
      BY DEF EncodedTruth
    <2>1. m \in Motors
      BY TopologyAssumption DEF TopologyAssumption
    <2>2. m \in Units[candidate.unit]
      BY <1>2, <2>1, BuildLeaves DEF Undoing
    <2>3. candidate'.motors[m] = Captured(m) /\ Encoded(m) \in {"Disable", "Clear"}
      BY <1>2, <2>1, <2>2, BuildLeaves DEF Undoing
    <2>4. \/ candidate.purpose \in {"SafeOutput", "ClearFault"}
          \/ candidate.purpose = "Probe" /\ candidate.clear_probe
      <3>1. Neutral(m) \in {"Nothing", "Neutral"}
        BY DEF Neutral
      <3> QED
        BY <2>3, <3>1 DEF Encoded
    <2>5. Captured(m).included
      BY DEF Captured
    <2> QED
      BY <1>2, <2>2, <2>3, <2>4, <2>5, BuildLeaves
  <1>3. CASE UNCHANGED <<pc, candidate>>
    BY <1>3 DEF EncodedTruth
  <1> QED
    BY <1>1, <1>2, <1>3, OnlyBuildBuilds

(* What submitCandidate() checks again is enough: the frame it hands over  *)
(* undoes no attempt that waits for an answer, and no Active motor.        *)
LEMMA SubmitUndoesNothing ==
    ASSUME Inv, ChosenTruth, EncodedTruth, Submit, NEW m \in Dm, candidate.frame[m] \in Undoing
    PROVE  motor[m].attempt # "Enable" /\ motor[m].state # "Active"
  <1>1. m \in Motors
    BY TopologyAssumption DEF TopologyAssumption
  <1>2. motor[m].attempt # "None" => motor[m].state # "Active"
    BY <1>1, MotorIsGood DEF GoodMotor, MotorInv
  <1>3. /\ m \in Units[candidate.unit] /\ candidate.motors[m].included
        /\ \/ candidate.purpose \in {"SafeOutput", "ClearFault"}
           \/ candidate.purpose = "Probe" /\ candidate.clear_probe
    BY SubmitFacts DEF EncodedTruth
  <1>4. StillAuthorised(m)
    BY <1>1, <1>3, SubmitFacts DEF Authorised
  <1>5. /\ candidate.purpose = "SafeOutput" =>
              motor[m].attempt = "None" /\ motor[m].state # "Active"
        /\ candidate.clear_probe => motor[m].attempt \in {"None", "ClearFault"}
    BY <1>3, SubmitFacts DEF ChosenTruth
  <1> QED
    BY <1>2, <1>3, <1>4, <1>5 DEF StillAuthorised

-----------------------------------------------------------------------------
(* Every step keeps what is known of every drive.                          *)

LEMMA FramesKeepTruth ==
    ASSUME Inv, StoppedIsQuiet, MotorTruth, NEW heard \in BOOLEAN, Transmit(heard)
    PROVE  MotorTruth'
  <1> SUFFICES ASSUME NEW m \in Dm
               PROVE  Truth(motor'[m], drive'[m], inFlight'.frame[m], Of(m)')
    BY DEF MotorTruth
  <1> DEFINE f == inFlight.frame[m]
  <1>1. m \in Motors
    BY TopologyAssumption DEF TopologyAssumption
  <1>2. UNCHANGED <<motor, inFlight>> /\ Of(m)' = Of(m)
    BY DEF Transmit, cbVars, ioVars, Of, Unread
  <1>3. drive'[m] = drive[m] \/ drive'[m] = AfterFrame(drive[m], f)
    BY <1>1 DEF Transmit
  <1>4. Truth(motor[m], drive[m], f, Of(m))
    BY DEF MotorTruth
  <1>5. ~motor[m].enabled_requested /\ motor[m].progress \in StopReported => f \in Safe
    BY <1>1 DEF StoppedIsQuiet, Safe
  <1> QED
    BY <1>1, <1>2, <1>3, <1>4, <1>5, MotorIsGood, TransmitKeepsTruth

LEMMA UpsetsKeepTruth ==
    ASSUME Inv, MotorTruth, NEW k \in Motors, DriveFaults(k)
    PROVE  MotorTruth'
  <1> SUFFICES ASSUME NEW m \in Dm
               PROVE  Truth(motor'[m], drive'[m], inFlight'.frame[m], Of(m)')
    BY DEF MotorTruth
  <1>1. m \in Motors
    BY TopologyAssumption DEF TopologyAssumption
  <1>2. UNCHANGED <<motor, inFlight>> /\ Of(m)' = Of(m)
    BY DEF DriveFaults, cbVars, ioVars, Of, Unread
  <1>3. (drive'[m] = drive[m] \/ drive'[m] # "Enabled") /\ DriveUpsets
    BY <1>1 DEF DriveFaults, Inv, TypeOK, ExternalTypes
  <1>4. Truth(motor[m], drive[m], inFlight.frame[m], Of(m))
    BY DEF MotorTruth
  <1> QED
    BY <1>2, <1>3, <1>4, UpsetKeepsTruth

LEMMA SubmissionKeepsTruth ==
    ASSUME Inv, ChosenTruth, EncodedTruth, MotorTruth, Submit
    PROVE  MotorTruth'
  <1> SUFFICES ASSUME NEW m \in Dm
               PROVE  Truth(motor'[m], drive'[m], inFlight'.frame[m], Of(m)')
    BY DEF MotorTruth
  <1>1. Of(m)' = Of(m)
    BY DEF Submit, EndSubmit, Of, Unread
  <1>2. UNCHANGED <<motor, drive>> /\ inFlight'.frame[m] = candidate.frame[m]
    BY SubmitFacts
  <1>3. Truth(motor[m], drive[m], inFlight.frame[m], Of(m))
    BY DEF MotorTruth
  <1>4. candidate.frame[m] \in Undoing => motor[m].attempt # "Enable" /\ motor[m].state # "Active"
    BY SubmitUndoesNothing
  <1> QED
    BY <1>1, <1>2, <1>3, <1>4, SubmitKeepsTruth

LEMMA MotorTruthStep ==
    ASSUME Inv, StoppedIsQuiet, TruthInv, [Next]_vars
    PROVE  MotorTruth'
  <1>1. ASSUME UNCHANGED drive, \A m \in Dm : inFlight'.frame[m] \in {inFlight.frame[m], "Nothing"}
        PROVE  MotorTruth'
    BY <1>1, TruthGoesOn DEF TruthInv, MotorTruth
  <1>2. CASE FlightStays /\ UNCHANGED drive
    BY <1>1, <1>2 DEF FlightStays
  <1>3. ASSUME NEW k \in Motors, DriveFaults(k) PROVE MotorTruth'
    BY <1>3, UpsetsKeepTruth DEF TruthInv
  <1>4. ASSUME NEW heard \in BOOLEAN, Transmit(heard) PROVE MotorTruth'
    BY <1>4, FramesKeepTruth DEF TruthInv
  <1>5. CASE TxSucceeds \/ TxFails
    BY <1>1, <1>5, CompletionFacts
  <1>6. ASSUME NEW late \in BOOLEAN, ProcessTx(late) PROVE MotorTruth'
    <2>1. UNCHANGED drive /\ inFlight' = Idle
      BY <1>6 DEF ProcessTx, extVars
    <2>2. \A m \in Dm : inFlight'.frame[m] = "Nothing"
      BY <2>1, IdleFacts, TopologyAssumption DEF TopologyAssumption
    <2> QED
      BY <1>1, <2>1, <2>2
  <1>7. CASE Submit
    BY <1>7, SubmissionKeepsTruth DEF TruthInv
  <1> QED
    BY <1>2, <1>3, <1>4, <1>5, <1>6, <1>7, FlightMoves DEF FlightStays

-----------------------------------------------------------------------------
(* What acceptDmFeedback() decided under the lock still holds when it acts.*)

LEMMA AcceptConfirms ==
    ASSUME Inv, MotorTruth, NEW e \in Unread, NEW sameMs, NEW retryDue,
           Accept(e, motor[e.motor], sameMs, retryDue), pc' = "FollowUp",
           follow'.kind = "Prepared"
    PROVE  /\ follow'.motor \in Dm
           /\ Confirmed(motor'[follow'.motor], follow'.generation, drive[follow'.motor])
  <1> DEFINE m == e.motor
             a == motor[m]
             b == motor'[m]
  <1>1. m \in Motors /\ GoodMotor(a)
    BY EventTypes, MotorIsGood
  <1>2. /\ m \in Dm /\ b = AcceptDmFeedback(a, e.status, e.order, retryDue)
        /\ follow' = [motor |-> m, kind |-> FollowUp(a, e.status, e.order),
                      generation |-> a.protocol_generation]
    BY <1>1 DEF Accept, Inv, TypeOK, MotorTypes
  <1>3. FollowUp(a, e.status, e.order) = "Prepared"
    BY <1>2
  <1>4. EnableConfirmed(a, e.status, e.order)
    BY <1>3 DEF FollowUp
  <1>5. a.enabled_requested /\ a.attempt = "Enable" /\ a.attempt_tx_done
    BY <1>4 DEF EnableConfirmed, AttemptConfirmed
  <1>6. ~DriveUpsets => drive[m] = "Enabled"
    <2>1. AttemptTruth(a, drive[m], inFlight.frame[m], Of(m))
      BY <1>2 DEF MotorTruth, Truth
    <2>2. e \in After(Of(m), a.attempt_tx_completed_order) /\ e.status = "Enabled"
      BY <1>4 DEF EnableConfirmed, AttemptConfirmed, After, Of
    <2> QED
      BY <1>5, <2>1, <2>2 DEF AttemptTruth
  <1>7. /\ b.enabled_requested = a.enabled_requested /\ b.attempt = a.attempt
        /\ b.attempt_tx_done = a.attempt_tx_done
        /\ b.protocol_generation = a.protocol_generation
    BY <1>1, <1>2 DEF AcceptDmFeedback, GoodMotor, MotorRecord
  <1>8. a.protocol_generation <= a.protocol_generation
    <2>1. a.protocol_generation \in 1 .. MaxProtocol
      BY <1>1, Zenon DEF GoodMotor, MotorRecord
    <2> QED
      BY <2>1, CounterAssumption DEF CounterAssumption
  <1>9. Confirmed(b, a.protocol_generation, drive[m])
    BY <1>5, <1>6, <1>7, <1>8 DEF Confirmed
  <1>10. follow'.motor = m /\ follow'.generation = a.protocol_generation
    BY <1>2
  <1> QED
    BY <1>2, <1>9, <1>10

LEMMA OutsideKeepsConfirmed ==
    ASSUME Inv, MotorTruth, App \/ Environment \/ UNCHANGED vars, NEW m \in Dm,
           NEW g \in Nat, Confirmed(motor[m], g, drive[m])
    PROVE  Confirmed(motor'[m], g, drive'[m])
  <1> DEFINE a == motor[m]
             b == motor'[m]
  <1>1. m \in Motors
    BY TopologyAssumption DEF TopologyAssumption
  <1>2. Outside(a, b)
    BY <1>1, OutsideSteps
  <1>3. a.protocol_generation \in Nat
    <2>1. a.protocol_generation \in 1 .. MaxProtocol
      BY <1>1, Zenon DEF Inv, TypeOK, MotorTypes, MotorRecord
    <2> QED
      BY <2>1, CounterAssumption DEF CounterAssumption
  <1>4. ASSUME ~DriveUpsets, drive[m] = "Enabled", a.attempt = "Enable", a.attempt_tx_done
        PROVE  drive'[m] = "Enabled"
    <2>1. UNCHANGED drive \/ \E heard \in BOOLEAN : Transmit(heard)
      BY <1>4 DEF App, CallEnable, CallDisable, CallInvalidate, CallSetter, Call, Commit,
                  Environment, TxSucceeds, TxFails, DmReplies, DjiReports, FeedbackAges,
                  CommandAges, DriveFaults, ControllerFails, BusOffEnds, extVars, vars
    <2>2. inFlight.frame[m] \notin Undoing
      BY <1>4 DEF MotorTruth, Truth, AttemptTruth
    <2>3. AfterFrame("Enabled", inFlight.frame[m]) = "Enabled"
      BY <2>2 DEF AfterFrame, Undoing
    <2> QED
      BY <1>1, <1>4, <2>1, <2>3 DEF Transmit
  <1>5. CASE b.protocol_generation = a.protocol_generation + 1
    BY <1>3, <1>5 DEF Confirmed
  <1>6. CASE b.protocol_generation # a.protocol_generation + 1
    BY <1>2, <1>4, <1>6 DEF Outside, Confirmed
  <1> QED
    BY <1>5, <1>6

LEMMA FollowStep ==
    ASSUME Inv, MotorTruth, FollowTruth, [Next]_vars
    PROVE  FollowTruth'
  <1> SUFFICES ASSUME pc' = "FollowUp", follow'.kind = "Prepared"
               PROVE  /\ follow'.motor \in Dm
                      /\ Confirmed(motor'[follow'.motor], follow'.generation, drive'[follow'.motor])
    BY DEF FollowTruth
  <1>1. ASSUME NEW gap, NEW sameMs, NEW retryDue, ProcessRx(gap, sameMs, retryDue)
        PROVE  /\ follow'.motor \in Dm
               /\ Confirmed(motor'[follow'.motor], follow'.generation, drive'[follow'.motor])
    <2> DEFINE e == Head(rx.queue)
    <2>1. Accept(e, motor[e.motor], sameMs, retryDue)
      BY <1>1 DEF ProcessRx
    <2>2. e \in Unread /\ UNCHANGED drive
      BY <1>1, EventTypes DEF ProcessRx, extVars
    <2> HIDE DEF e
    <2> QED
      BY <2>1, <2>2, AcceptConfirms
  <1>2. ASSUME NEW sameMs, NEW retryDue, AcceptFeedback(sameMs, retryDue)
        PROVE  /\ follow'.motor \in Dm
               /\ Confirmed(motor'[follow'.motor], follow'.generation, drive'[follow'.motor])
    <2>1. Accept(event, motor[event.motor], sameMs, retryDue) /\ UNCHANGED drive
      BY <1>2 DEF AcceptFeedback, extVars
    <2>2. event \in Unread
      BY <1>2, EventTypes DEF AcceptFeedback
    <2> QED
      BY <2>1, <2>2, AcceptConfirms
  <1>3. CASE App \/ Environment \/ UNCHANGED vars
    <2>1. UNCHANGED <<pc, follow>>
      BY <1>3, OutsideSteps, UnitFacts DEF ioVars
    <2>2. follow.motor \in Dm /\ Confirmed(motor[follow.motor], follow.generation, drive[follow.motor])
      BY <2>1 DEF FollowTruth
    <2>3. follow.generation \in Nat
      <3>1. follow.generation \in 0 .. MaxProtocol
        BY DEF Inv, TypeOK, ThreadTypes, Follow
      <3> QED
        BY <3>1, CounterAssumption DEF CounterAssumption
    <2>4. PICK k \in Dm : k = follow.motor
      BY <2>2
    <2>5. PICK g \in Nat : g = follow.generation
      BY <2>3
    <2> QED
      BY <1>3, <2>1, <2>2, <2>4, <2>5, OutsideKeepsConfirmed
  <1> QED
    BY <1>1, <1>2, <1>3, WhoseStep

LEMMA InitialTruth ==
    Init => TruthInv
  <1> SUFFICES ASSUME Init PROVE TruthInv
    OBVIOUS
  <1>1. Unread = {} /\ pc = "ProcessTx" /\ ~inFlight.callback_seen
    BY IdleFacts DEF Init, Unread
  <1>2. OrderInv /\ CompletionInv /\ FollowTruth /\ ChosenTruth /\ EncodedTruth
    BY <1>1 DEF OrderInv, CompletionInv, FollowTruth, ChosenTruth, EncodedTruth
  <1>3. ASSUME NEW m \in Dm PROVE Truth(motor[m], drive[m], inFlight.frame[m], Of(m))
    <2>1. m \in Motors
      BY TopologyAssumption DEF TopologyAssumption
    <2>2. ~motor[m].stop_tx_done /\ motor[m].attempt = "None" /\ motor[m].state = "Offline"
      BY <2>1 DEF Init, StartedMotor
    <2> QED
      BY <2>2 DEF Truth, StopTruth, AttemptTruth, ActiveTruth
  <1> QED
    BY <1>2, <1>3 DEF TruthInv, MotorTruth

LEMMA TruthInvStep ==
    Inv /\ FrameOwnsCallback /\ StopInv /\ TruthInv /\ [Next]_vars => TruthInv'
  BY OrderStep, CompletionStep, MotorTruthStep, FollowStep, ChosenStep, EncodedStep
     DEF TruthInv, StopInv

LEMMA TruthInvariance == Spec => []TruthInv
  BY InitialTruth, TruthInvStep, Invariance, FrameIsOwned, StopInvariance, PTL DEF Spec

(* What snapshot() says of a drive is true: a drive whose stop is          *)
(* DriveConfirmed is not enabled, and while drives do not fail by          *)
(* themselves the drive of an Active motor is.  No status that was queued, *)
(* repeated or delayed confirms a frame it does not answer.                *)
THEOREM ReportsAreTrue == Spec => []StatesAreTrue
  <1>1. ASSUME Inv, TruthInv PROVE StatesAreTrue
    <2> SUFFICES ASSUME NEW m \in Dm
                 PROVE  /\ ~motor[m].enabled_requested /\ motor[m].progress = "DriveConfirmed" =>
                              drive[m] # "Enabled"
                        /\ ~DriveUpsets /\ motor[m].state = "Active" => drive[m] = "Enabled"
      BY DEF StatesAreTrue, ConfirmedIsDisabled, ActiveIsEnabled
    <2>1. m \in Motors
      BY TopologyAssumption DEF TopologyAssumption
    <2>2. Truth(motor[m], drive[m], inFlight.frame[m], Of(m))
      BY <1>1 DEF TruthInv, MotorTruth
    <2>3. ~motor[m].enabled_requested /\ motor[m].progress = "DriveConfirmed" =>
             motor[m].stop_tx_done
      BY <1>1, <2>1, MotorIsGood DEF GoodMotor, MotorInv, StopReported
    <2> QED
      BY <2>2, <2>3 DEF Truth, StopTruth, ActiveTruth
  <1> QED
    BY <1>1, Invariance, TruthInvariance, PTL
=============================================================================
