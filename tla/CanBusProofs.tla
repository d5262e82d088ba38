---------------------------- MODULE CanBusProofs ----------------------------
(***************************************************************************)
(* Proofs about CanBus, for every set of motors, every layout of units and *)
(* every limit of the counters.                                            *)
(***************************************************************************)
EXTENDS CanBus, TLAPS

-----------------------------------------------------------------------------
(* Every section of Motor::lock_ keeps the record well formed and its      *)
(* flags consistent.                                                       *)

GoodMotor(mt) == mt \in MotorRecord /\ MotorInv(mt)

(* The ranges of the counters, and where one more is still in range.       *)
LEMMA Ranges ==
    /\ 0 \in Order
    /\ 0 \in 0 .. MaxCancellation /\ 1 .. MaxCancellation \subseteq 0 .. MaxCancellation
    /\ 0 \in 0 .. MaxProtocol /\ 1 .. MaxProtocol \subseteq 0 .. MaxProtocol
    /\ 1 \in 1 .. MaxCancellation /\ 1 \in 1 .. MaxProtocol
    /\ 0 \in 0 .. MaxEnable /\ 0 \in 0 .. MaxRevision
    /\ \A n \in 1 .. MaxCancellation : n # MaxCancellation => n + 1 \in 1 .. MaxCancellation
    /\ \A n \in 1 .. MaxProtocol : n # MaxProtocol => n + 1 \in 1 .. MaxProtocol
    /\ \A n \in 1 .. MaxProtocol : n < MaxProtocol => n + 1 \in 1 .. MaxProtocol
    /\ \A n \in 0 .. MaxEnable : n < MaxEnable => n + 1 \in 0 .. MaxEnable
    /\ \A n \in 0 .. MaxRevision : n # MaxRevision => n + 1 \in 0 .. MaxRevision
  BY CounterAssumption DEF CounterAssumption, Order

LEMMA RestingStateType ==
    ASSUME NEW mt
    PROVE  RestingState(mt) \in MotorState \ {"Active"}
  BY DEF RestingState, MotorState

LEMMA NextProtocolType ==
    ASSUME NEW mt \in MotorRecord
    PROVE  NextProtocol(mt) \in 1 .. MaxProtocol
  <1>1. mt.protocol_generation \in 1 .. MaxProtocol
    BY Zenon DEF MotorRecord
  <1> QED
    BY <1>1, Ranges DEF NextProtocol

LEMMA EnableGood ==
    ASSUME NEW mt, GoodMotor(mt)
    PROVE  GoodMotor(Enable(mt))
  <1>1. Enable(mt) \in MotorRecord
    BY Ranges, Zenon DEF GoodMotor, MotorRecord, Enable, StopProgress
  <1>2. MotorInv(Enable(mt))
    BY SMT DEF GoodMotor, MotorInv, MotorRecord, Enable, StopReported
  <1> QED
    BY <1>1, <1>2 DEF GoodMotor

LEMMA RequestDisableGood ==
    ASSUME NEW mt, GoodMotor(mt)
    PROVE  GoodMotor(RequestDisable(mt))
  <1> DEFINE c == mt.cancellation_generation
             p == mt.protocol_generation
  <1>1. CASE ~mt.enabled_requested \/ c = MaxCancellation \/ p = MaxProtocol
    BY <1>1 DEF RequestDisable
  <1>2. CASE mt.enabled_requested /\ c # MaxCancellation /\ p # MaxProtocol
    <2>1. /\ c + 1 \in 1 .. MaxCancellation /\ c + 1 \in 0 .. MaxCancellation
          /\ p + 1 \in 1 .. MaxProtocol
          /\ 0 \in Order
      BY <1>2, Ranges, Zenon DEF GoodMotor, MotorRecord
    <2>2. RequestDisable(mt) \in MotorRecord
      <3>1. (IF mt.state = "Fault" THEN mt.state ELSE RestingState(mt)) \in MotorState
        BY RestingStateType, Zenon DEF GoodMotor, MotorRecord
      <3>2. [mt.staged EXCEPT !.valid = FALSE] \in Command
        BY Zenon DEF GoodMotor, MotorRecord, Command
      <3> QED
        BY <1>2, <2>1, <3>1, <3>2, ZenonT(60)
           DEF GoodMotor, MotorRecord, RequestDisable, AttemptKind, StopProgress
    <2>3. MotorInv(RequestDisable(mt))
      BY <1>2, <2>1, SMT
         DEF GoodMotor, MotorInv, MotorRecord, RequestDisable, RestingState, StopReported
    <2> QED
      BY <2>2, <2>3 DEF GoodMotor
  <1> QED
    BY <1>1, <1>2

LEMMA StageGood ==
    ASSUME NEW mt, GoodMotor(mt), NEW computed \in BOOLEAN, NEW sampled \in 0 .. MaxEnable
    PROVE  GoodMotor(Stage(mt, computed, sampled))
  <1>1. CASE mt.staged.revision = MaxRevision
    BY <1>1 DEF Stage
  <1>2. CASE mt.staged.revision # MaxRevision
    <2> DEFINE staged == [valid |-> TRUE,
                          revision |-> mt.staged.revision + 1,
                          cancellation_generation |-> mt.cancellation_generation,
                          computed_effort |-> computed,
                          sampled_enable_generation |-> sampled]
    <2>1. mt.staged.revision + 1 \in 0 .. MaxRevision
      BY <1>2, Ranges, Zenon DEF GoodMotor, MotorRecord, Command
    <2>2. mt.cancellation_generation \in 0 .. MaxCancellation
      BY Ranges, Zenon DEF GoodMotor, MotorRecord
    <2>3. staged \in Command
      BY <2>1, <2>2, Zenon DEF Command
    <2>4. Stage(mt, computed, sampled) = [mt EXCEPT !.staged = staged]
      BY <1>2 DEF Stage
    <2> HIDE DEF staged
    <2>5. Stage(mt, computed, sampled) \in MotorRecord
      BY <2>3, <2>4, Zenon DEF GoodMotor, MotorRecord
    <2>6. MotorInv(Stage(mt, computed, sampled))
      BY <2>4, SMT DEF GoodMotor, MotorInv, MotorRecord
    <2> QED
      BY <2>5, <2>6 DEF GoodMotor
  <1> QED
    BY <1>1, <1>2

LEMMA InvalidateGood ==
    ASSUME NEW mt, GoodMotor(mt)
    PROVE  GoodMotor(InvalidateComputedEffort(mt))
  <1>1. [mt.staged EXCEPT !.valid = FALSE] \in Command /\ mt.staged.revision \in 0 .. MaxRevision
    BY Zenon DEF GoodMotor, MotorRecord, Command
  <1>2. InvalidateComputedEffort(mt) \in MotorRecord
    BY <1>1, Zenon DEF GoodMotor, MotorRecord, InvalidateComputedEffort
  <1>3. MotorInv(InvalidateComputedEffort(mt))
    BY SMT DEF GoodMotor, MotorInv, MotorRecord, InvalidateComputedEffort
  <1> QED
    BY <1>2, <1>3 DEF GoodMotor

LEMMA MarkAttemptTxCompleteGood ==
    ASSUME NEW mt, GoodMotor(mt), NEW kind \in {"Enable", "ClearFault"}, NEW generation,
           NEW o \in Order
    PROVE  GoodMotor(MarkAttemptTxComplete(mt, kind, generation, o))
  <1>1. MarkAttemptTxComplete(mt, kind, generation, o) \in MotorRecord
    BY Zenon DEF GoodMotor, MotorRecord, MarkAttemptTxComplete
  <1>2. MotorInv(MarkAttemptTxComplete(mt, kind, generation, o))
    BY SMT DEF GoodMotor, MotorInv, MotorRecord, MarkAttemptTxComplete
  <1> QED
    BY <1>1, <1>2 DEF GoodMotor

LEMMA MarkPreparedGood ==
    ASSUME NEW mt, GoodMotor(mt), NEW generation
    PROVE  GoodMotor(MarkPrepared(mt, generation))
  <1>1. mt.enable_generation < MaxEnable => mt.enable_generation + 1 \in 0 .. MaxEnable
    BY Ranges, Zenon DEF GoodMotor, MotorRecord
  <1>2. MarkPrepared(mt, generation) \in MotorRecord
    BY <1>1, ZenonT(60) DEF GoodMotor, MotorRecord, MotorState, AttemptKind, MarkPrepared
  <1>3. MotorInv(MarkPrepared(mt, generation))
    BY SMT DEF GoodMotor, MotorInv, MotorRecord, MarkPrepared
  <1> QED
    BY <1>2, <1>3 DEF GoodMotor

LEMMA MarkStoppedGood ==
    ASSUME NEW mt, GoodMotor(mt), NEW generation, NEW o \in Order
    PROVE  GoodMotor(MarkStopped(mt, generation, o))
  <1>1. MarkStopped(mt, generation, o) \in MotorRecord
    BY ZenonT(60) DEF GoodMotor, MotorRecord, StopProgress, MarkStopped
  <1>2. MotorInv(MarkStopped(mt, generation, o))
    BY SMT DEF GoodMotor, MotorInv, MotorRecord, MarkStopped, StopReported
  <1> QED
    BY <1>1, <1>2 DEF GoodMotor

LEMMA MarkFaultClearedGood ==
    ASSUME NEW mt, GoodMotor(mt), NEW generation
    PROVE  GoodMotor(MarkFaultCleared(mt, generation))
  <1>1. MarkFaultCleared(mt, generation) \in MotorRecord
    BY RestingStateType, ZenonT(60)
       DEF GoodMotor, MotorRecord, AttemptKind, MarkFaultCleared
  <1>2. MotorInv(MarkFaultCleared(mt, generation))
    BY SMT DEF GoodMotor, MotorInv, MotorRecord, MarkFaultCleared, RestingState
  <1> QED
    BY <1>1, <1>2 DEF GoodMotor

LEMMA RaiseFaultGood ==
    ASSUME NEW mt, GoodMotor(mt),
           NEW reason \in {"DriveFault", "Communication", "Other"}
    PROVE  /\ GoodMotor(RaiseFault(mt, reason))
           /\ ~RaiseFault(mt, reason).output_permitted
  <1> DEFINE next == CASE reason = "DriveFault" -> "Fault"
                       [] reason = "Communication" -> "Offline"
                       [] OTHER -> "Disabled"
  <1>1. next \in MotorState \ {"Active"}
    BY DEF MotorState
  <1>2. RaiseFault(mt, reason) =
          IF mt.state # next \/ reason = "Communication"
          THEN [mt EXCEPT !.output_permitted = FALSE,
                          !.protocol_generation = NextProtocol(mt),
                          !.attempt = "None",
                          !.attempt_tx_done = FALSE,
                          !.probe_sent = FALSE,
                          !.state = next]
          ELSE [mt EXCEPT !.output_permitted = FALSE]
    BY DEF RaiseFault
  <1> HIDE DEF next
  <1>3. RaiseFault(mt, reason) \in MotorRecord
    <2>1. NextProtocol(mt) \in 1 .. MaxProtocol
      BY NextProtocolType DEF GoodMotor
    <2>2. [mt EXCEPT !.output_permitted = FALSE,
                     !.protocol_generation = NextProtocol(mt),
                     !.attempt = "None",
                     !.attempt_tx_done = FALSE,
                     !.probe_sent = FALSE,
                     !.state = next] \in MotorRecord
      BY <1>1, <2>1, Zenon DEF GoodMotor, MotorRecord, AttemptKind
    <2>3. [mt EXCEPT !.output_permitted = FALSE] \in MotorRecord
      BY Zenon DEF GoodMotor, MotorRecord
    <2> QED
      BY <1>2, <2>2, <2>3
  <1>4. MotorInv(RaiseFault(mt, reason)) /\ ~RaiseFault(mt, reason).output_permitted
    BY <1>1, <1>2, SMT DEF GoodMotor, MotorInv, MotorRecord
  <1> QED
    BY <1>3, <1>4 DEF GoodMotor

LEMMA AcceptDjiFeedbackGood ==
    ASSUME NEW mt, GoodMotor(mt)
    PROVE  GoodMotor(AcceptDjiFeedback(mt))
  <1>1. AcceptDjiFeedback(mt) \in MotorRecord
    BY Zenon DEF GoodMotor, MotorRecord, MotorState, Freshness, AcceptDjiFeedback
  <1>2. MotorInv(AcceptDjiFeedback(mt))
    BY SMT DEF GoodMotor, MotorInv, MotorRecord, AcceptDjiFeedback
  <1> QED
    BY <1>1, <1>2 DEF GoodMotor

LEMMA AcceptDmFeedbackGood ==
    ASSUME NEW mt, GoodMotor(mt), NEW status \in DriveStatus, NEW o \in Order,
           NEW retryDue \in BOOLEAN
    PROVE  GoodMotor(AcceptDmFeedback(mt, status, o, retryDue))
  <1> DEFINE progress == IF StopConfirmed(mt, status, o) THEN "DriveConfirmed" ELSE mt.progress
             state == IF ~mt.enabled_requested /\ status # "Fault"
                      THEN "Disabled" ELSE mt.state
             pending == \/ mt.stop_pending
                        \/ status = "Enabled" /\ ~mt.enabled_requested /\ retryDue
  <1>1. /\ progress \in StopProgress
        /\ state \in MotorState
        /\ pending \in BOOLEAN
    BY Zenon DEF GoodMotor, MotorRecord, StopProgress, MotorState
  <1>2. AcceptDmFeedback(mt, status, o, retryDue) =
          [mt EXCEPT !.feedback = "Fresh",
                     !.feedback_event_order = o,
                     !.native_drive_status = status,
                     !.progress = progress,
                     !.state = state,
                     !.stop_pending = pending]
    BY DEF AcceptDmFeedback
  <1>3. AcceptDmFeedback(mt, status, o, retryDue) \in MotorRecord
    <2> HIDE DEF progress, state, pending
    <2> QED
      BY <1>1, <1>2, ZenonT(60) DEF GoodMotor, MotorRecord, Freshness
  <1>4. MotorInv(AcceptDmFeedback(mt, status, o, retryDue))
    BY <1>2, SMT DEF GoodMotor, MotorInv, MotorRecord, StopConfirmed, StopReported
  <1> QED
    BY <1>3, <1>4 DEF GoodMotor

LEMMA ApplyFollowUpGood ==
    ASSUME NEW mt, GoodMotor(mt), NEW kind \in FollowUps, NEW generation
    PROVE  GoodMotor(ApplyFollowUp(mt, kind, generation))
  BY MarkFaultClearedGood, RaiseFaultGood, MarkPreparedGood DEF ApplyFollowUp, FollowUps

LEMMA ExpireFeedbackGood ==
    ASSUME NEW mt, GoodMotor(mt)
    PROVE  GoodMotor(ExpireFeedback(mt))
  BY RaiseFaultGood DEF ExpireFeedback

LEMMA PrepareDjiGood ==
    ASSUME NEW mt, GoodMotor(mt)
    PROVE  GoodMotor(PrepareDji(mt))
  BY MarkPreparedGood DEF PrepareDji

LEMMA TimeOutAttemptGood ==
    ASSUME NEW mt, GoodMotor(mt)
    PROVE  GoodMotor(TimeOutAttempt(mt))
  <1> DEFINE state == IF ReportsFault(mt) THEN "Fault" ELSE RestingState(mt)
  <1>1. state \in MotorState \ {"Active"}
    BY RestingStateType DEF MotorState
  <1>2. TimeOutAttempt(mt) =
          [mt EXCEPT !.output_permitted = FALSE,
                     !.protocol_generation = NextProtocol(mt),
                     !.attempt = "None",
                     !.attempt_tx_done = FALSE,
                     !.probe_sent = FALSE,
                     !.state = state]
    BY DEF TimeOutAttempt
  <1>3. NextProtocol(mt) \in 1 .. MaxProtocol
    BY NextProtocolType DEF GoodMotor
  <1> HIDE DEF state
  <1>4. TimeOutAttempt(mt) \in MotorRecord
    BY <1>1, <1>2, <1>3, ZenonT(60) DEF GoodMotor, MotorRecord, AttemptKind
  <1>5. MotorInv(TimeOutAttempt(mt))
    BY <1>1, <1>2, SMT DEF GoodMotor, MotorInv, MotorRecord
  <1> QED
    BY <1>4, <1>5 DEF GoodMotor

LEMMA StartAttemptGood ==
    ASSUME NEW mt, GoodMotor(mt)
    PROVE  GoodMotor(StartAttempt(mt))
  <1> DEFINE attempt == IF ReportsFault(mt) THEN "ClearFault" ELSE "Enable"
             state == IF ReportsFault(mt) THEN "Fault" ELSE "Enabling"
  <1>1. CASE /\ mt.enabled_requested /\ mt.state # "Active" /\ mt.attempt = "None"
             /\ mt.protocol_generation < MaxProtocol
    <2>1. /\ attempt \in AttemptKind
          /\ state \in MotorState \ {"Active"}
      BY DEF AttemptKind, MotorState
    <2>2. StartAttempt(mt) =
            [mt EXCEPT !.protocol_generation = mt.protocol_generation + 1,
                       !.attempt = attempt,
                       !.attempt_tx_done = FALSE,
                       !.probe_sent = FALSE,
                       !.attempt_tx_completed_order = 0,
                       !.state = state]
      BY <1>1 DEF StartAttempt
    <2>3. mt.protocol_generation + 1 \in 1 .. MaxProtocol /\ 0 \in Order
      BY <1>1, Ranges, Zenon DEF GoodMotor, MotorRecord
    <2> HIDE DEF attempt, state
    <2>4. StartAttempt(mt) \in MotorRecord
      BY <2>1, <2>2, <2>3, ZenonT(60) DEF GoodMotor, MotorRecord
    <2>5. MotorInv(StartAttempt(mt))
      BY <1>1, <2>1, <2>2, SMT DEF GoodMotor, MotorInv, MotorRecord
    <2> QED
      BY <2>4, <2>5 DEF GoodMotor
  <1>2. CASE ~(/\ mt.enabled_requested /\ mt.state # "Active" /\ mt.attempt = "None"
               /\ mt.protocol_generation < MaxProtocol)
    BY <1>2 DEF StartAttempt
  <1> QED
    BY <1>1, <1>2

LEMMA GiveUpOnStopGood ==
    ASSUME NEW mt, GoodMotor(mt)
    PROVE  GoodMotor(GiveUpOnStop(mt))
  <1>1. GiveUpOnStop(mt) \in MotorRecord
    BY Zenon DEF GoodMotor, MotorRecord, StopProgress, GiveUpOnStop
  <1>2. MotorInv(GiveUpOnStop(mt))
    BY SMT DEF GoodMotor, MotorInv, MotorRecord, GiveUpOnStop, StopReported
  <1> QED
    BY <1>1, <1>2 DEF GoodMotor

(* Three updates that are not an operator of their own.                    *)
LEMMA FieldUpdateGood ==
    ASSUME NEW mt, GoodMotor(mt), NEW valid \in BOOLEAN
    PROVE  /\ GoodMotor([mt EXCEPT !.output_command_valid = valid])
           /\ GoodMotor([mt EXCEPT !.feedback = "Stale"])
           /\ GoodMotor([mt EXCEPT !.probe_sent = TRUE])
  <1>1. /\ [mt EXCEPT !.output_command_valid = valid] \in MotorRecord
        /\ [mt EXCEPT !.feedback = "Stale"] \in MotorRecord
        /\ [mt EXCEPT !.probe_sent = TRUE] \in MotorRecord
    BY Zenon DEF GoodMotor, MotorRecord, Freshness
  <1>2. /\ MotorInv([mt EXCEPT !.output_command_valid = valid])
        /\ MotorInv([mt EXCEPT !.feedback = "Stale"])
        /\ MotorInv([mt EXCEPT !.probe_sent = TRUE])
    BY SMT DEF GoodMotor, MotorInv, MotorRecord
  <1> QED
    BY <1>1, <1>2 DEF GoodMotor

-----------------------------------------------------------------------------
(* The type invariant and the consistency of every motor.                  *)

Inv == TypeOK /\ MotorsOK

LEMMA UnitFacts ==
    /\ NUnits \in Nat \ {0} /\ UnitIds = 1 .. NUnits /\ 1 \in UnitIds
    /\ \A u \in UnitIds : /\ Units[u] \subseteq Motors /\ Units[u] # {}
                          /\ (CHOOSE m \in Units[u] : TRUE) \in Units[u]
                          /\ \A m \in Units[u] : m \in Dm => Units[u] = {m}
    /\ (CHOOSE m \in Motors : TRUE) \in Motors
    /\ \A u \in UnitIds : Following(u) \in UnitIds
  <1>1. /\ Units \in Seq(SUBSET Motors) /\ Units # <<>>
        /\ \A u \in DOMAIN Units : /\ Units[u] # {}
                                   /\ \A m \in Units[u] \cap Dm : Units[u] = {m}
    BY TopologyAssumption DEF TopologyAssumption
  <1>2. NUnits \in Nat \ {0} /\ UnitIds = 1 .. NUnits /\ 1 \in UnitIds
    BY <1>1 DEF NUnits, UnitIds
  <1>3. \A u \in UnitIds : /\ Units[u] \subseteq Motors /\ Units[u] # {}
                           /\ \A m \in Units[u] : m \in Dm => Units[u] = {m}
    BY <1>1, <1>2 DEF UnitIds
  <1>4. \A u \in UnitIds : (CHOOSE m \in Units[u] : TRUE) \in Units[u]
    BY <1>3, Zenon
  <1>5. \E m \in Motors : TRUE
    BY <1>2, <1>3
  <1>6. (CHOOSE m \in Motors : TRUE) \in Motors
    BY <1>5, Zenon
  <1>7. \A u \in UnitIds : Following(u) \in UnitIds
    BY <1>2, Z3 DEF Following
  <1> QED
    BY <1>2, <1>3, <1>4, <1>6, <1>7

LEMMA OneMotor ==
    ASSUME NEW f \in [Motors -> MotorRecord], \A k \in Motors : MotorInv(f[k]),
           NEW m \in Motors, NEW mt, GoodMotor(mt),
           NEW g, g = [f EXCEPT ![m] = mt]
    PROVE  g \in [Motors -> MotorRecord] /\ \A k \in Motors : MotorInv(g[k])
  BY Zenon DEF GoodMotor

LEMMA EveryMotor ==
    ASSUME NEW g, g = [k \in Motors |-> g[k]], \A k \in Motors : GoodMotor(g[k])
    PROVE  g \in [Motors -> MotorRecord] /\ \A k \in Motors : MotorInv(g[k])
  BY Zenon DEF GoodMotor

LEMMA InitialTypes ==
    Init => Inv
  <1> SUFFICES ASSUME Init PROVE Inv
    OBVIOUS
  <1>1. NoCommand \in Command
    BY Ranges, Zenon DEF NoCommand, Command
  <1>2. StartedMotor \in MotorRecord
    BY <1>1, Ranges, Zenon
       DEF StartedMotor, MotorRecord, MotorState, AttemptKind, StopProgress, Freshness,
           DriveStatus
  <1>3. MotorInv(StartedMotor)
    BY DEF StartedMotor, MotorInv, StopReported
  <1>4. MotorsOK /\ motor \in [Motors -> MotorRecord]
    BY <1>2, <1>3 DEF Init, MotorsOK
  <1>5. NoFrame \in [Motors -> Content]
    BY DEF NoFrame, Content
  <1>6. Idle \in InFlight
    BY <1>5, Ranges, UnitFacts, Zenon DEF Idle, InFlight, Purpose
  <1>7. NoEvent \in RxEvent /\ NoFollow \in Follow
    BY Ranges, UnitFacts, Zenon DEF NoEvent, RxEvent, DriveStatus, NoFollow, Follow, FollowUps
  <1>8. NoCapture \in [Motors -> CandidateMotor]
    BY <1>1, Ranges, Zenon DEF NoCapture, CandidateMotor, MotorState
  <1>9. NoCandidate \in Candidate
    BY <1>5, <1>8, UnitFacts, TopologyAssumption, SMT
       DEF NoCandidate, Candidate, Purpose, PumpStage, TopologyAssumption
  <1>10. /\ published \in [Motors -> Command] /\ expired \in [Motors -> 0 .. MaxRevision]
         /\ wire \in [Motors -> Content]
    BY <1>1, <1>5, Ranges DEF Init
  <1>11. order \in 1 .. MaxOrder /\ sequence \in 0 .. MaxSequence /\ targets \in 0 .. NUnits
    BY CounterAssumption, TopologyAssumption, UnitFacts
       DEF Init, CounterAssumption, TopologyAssumption
  <1>12. rx \in [queue : Seq(RxEvent), overflowed : BOOLEAN] /\ Len(rx.queue) <= RxDepth
    BY TopologyAssumption DEF Init, TopologyAssumption
  <1>13. drive \in [Motors -> {"Disabled", "Enabled", "Fault"}]
    <2>1. drive \in [Motors -> {"Disabled", "Enabled"}]
      BY DEF Init
    <2> QED
      BY <2>1, Zenon
  <1>14. /\ cursor \in [target : UnitIds, protocol : UnitIds]
         /\ bus \in [state : {"Running", "Recovering"}, generation : Nat,
                     started : BOOLEAN, restarted : BOOLEAN]
         /\ hw \in [state : {"Active", "BusOff", "Stopped"},
                    frame : {"None", "Queued", "Sent"}]
    BY UnitFacts DEF Init
  <1>15. /\ protocolFirst \in BOOLEAN /\ inFlight \in InFlight /\ pc \in PcNames
         /\ todo = {} /\ event \in RxEvent /\ follow \in Follow
         /\ budget \in Nat /\ (pc = "AcceptFeedback" => budget # 0)
         /\ pc = "ProcessTx" /\ todo \subseteq UnitIds
         /\ candidate \in Candidate /\ replying \subseteq Dm
    BY <1>6, <1>7, <1>9 DEF Init, PcNames
  <1> QED
    BY <1>4, <1>10, <1>11, <1>12, <1>13, <1>14, <1>15, Zenon
       DEF Inv, TypeOK, MotorTypes, AppTypes, PumpTypes, BusTypes, OrderTypes, RxTypes,
           InFlightTypes, ThreadTypes, ExternalTypes

(* What a step leaves alone keeps its type.                                *)
LEMMA Unchanged ==
    ASSUME TypeOK
    PROVE  /\ UNCHANGED motor => MotorTypes'
           /\ UNCHANGED appVars => AppTypes'
           /\ UNCHANGED pumpVars => PumpTypes'
           /\ UNCHANGED bus => BusTypes'
           /\ UNCHANGED order => OrderTypes'
           /\ UNCHANGED rx => RxTypes'
           /\ UNCHANGED inFlight => InFlightTypes'
           /\ UNCHANGED ioVars => ThreadTypes'
           /\ UNCHANGED extVars => ExternalTypes'
  <1>1. /\ UNCHANGED motor => MotorTypes'
        /\ UNCHANGED appVars => AppTypes'
        /\ UNCHANGED pumpVars => PumpTypes'
    BY DEF TypeOK, MotorTypes, appVars, AppTypes, pumpVars, PumpTypes
  <1>2. /\ UNCHANGED bus => BusTypes'
        /\ UNCHANGED order => OrderTypes'
        /\ UNCHANGED rx => RxTypes'
        /\ UNCHANGED inFlight => InFlightTypes'
    BY DEF TypeOK, BusTypes, OrderTypes, RxTypes, InFlightTypes
  <1>3. UNCHANGED ioVars => ThreadTypes'
    BY DEF TypeOK, ioVars, ThreadTypes
  <1>4. UNCHANGED extVars => ExternalTypes'
    BY DEF TypeOK, extVars, ExternalTypes
  <1> QED
    BY <1>1, <1>2, <1>3, <1>4

LEMMA MotorStep ==
    ASSUME Inv, NEW m \in Motors, NEW mt, GoodMotor(mt), motor' = [motor EXCEPT ![m] = mt]
    PROVE  MotorTypes' /\ MotorsOK'
  BY OneMotor DEF Inv, TypeOK, MotorTypes, MotorsOK

LEMMA MotorIsGood ==
    ASSUME Inv, NEW m \in Motors
    PROVE  GoodMotor(motor[m])
  BY DEF Inv, TypeOK, MotorTypes, MotorsOK, GoodMotor

LEMMA CallTypes ==
    ASSUME Inv, NEW m \in Motors, NEW mt, GoodMotor(mt), Call(m, mt)
    PROVE  Inv'
  <1>1. MotorTypes' /\ MotorsOK'
    BY MotorStep DEF Call
  <1>2. UNCHANGED <<appVars, pumpVars, bus, order, rx, inFlight, ioVars, extVars>>
    BY DEF Call, cbVars
  <1> QED
    BY <1>1, <1>2, Unchanged DEF Inv, TypeOK

LEMMA AppTypesKept ==
    ASSUME Inv, App
    PROVE  Inv'
  <1>1. ASSUME NEW m \in Motors, CallEnable(m) PROVE Inv'
    BY <1>1, CallTypes, MotorIsGood, EnableGood DEF CallEnable
  <1>2. ASSUME NEW m \in Motors, CallDisable(m) PROVE Inv'
    BY <1>2, CallTypes, MotorIsGood, RequestDisableGood DEF CallDisable
  <1>3. ASSUME NEW m \in Motors, CallInvalidate(m) PROVE Inv'
    BY <1>3, CallTypes, MotorIsGood, InvalidateGood DEF CallInvalidate
  <1>4. ASSUME NEW m \in Motors, NEW computed \in BOOLEAN, NEW sampled \in 0 .. MaxEnable,
               CallSetter(m, computed, sampled)
        PROVE  Inv'
    BY <1>4, CallTypes, MotorIsGood, StageGood DEF CallSetter
  <1>5. ASSUME Commit PROVE Inv'
    <2>1. UNCHANGED <<motor, bus, order, rx, inFlight, ioVars, extVars>>
      BY <1>5 DEF Commit, cbVars
    <2>2. \A m \in Motors : motor[m].staged \in Command
      BY Zenon DEF Inv, TypeOK, MotorTypes, MotorRecord
    <2>3. AppTypes'
      BY <1>5, <2>2, TopologyAssumption DEF Commit, Inv, TypeOK, AppTypes, TopologyAssumption
    <2>4. PumpTypes'
      BY <1>5, UnitFacts DEF Commit, Inv, TypeOK, PumpTypes
    <2>5. MotorsOK'
      BY <2>1 DEF Inv, MotorsOK
    <2> QED
      BY <2>1, <2>3, <2>4, <2>5, Unchanged DEF Inv, TypeOK
  <1> QED
    BY <1>1, <1>2, <1>3, <1>4, <1>5 DEF App

(* The callbacks, and what happens outside the program.                    *)
LEMMA OrderFacts ==
    ASSUME OrderTypes, RecordCallbackOrder
    PROVE  OrderTypes' /\ GivenOrder \in Order
  BY CounterAssumption DEF CounterAssumption, OrderTypes, RecordCallbackOrder, GivenOrder, Order

LEMMA OnRxTypes ==
    ASSUME Inv, NEW m \in Motors, NEW status \in DriveStatus, OnRx(m, status), ExternalTypes'
    PROVE  Inv'
  <1>1. OrderTypes' /\ GivenOrder \in Order
    BY OrderFacts DEF Inv, TypeOK, OnRx
  <1>2. RxTypes'
    <2> DEFINE e == [motor |-> m, status |-> status, generation |-> bus.generation,
                     order |-> GivenOrder]
    <2>1. e \in RxEvent
      BY <1>1 DEF Inv, TypeOK, BusTypes, RxEvent
    <2>2. rx.queue \in Seq(RxEvent) /\ Len(rx.queue) <= RxDepth /\ rx.overflowed \in BOOLEAN
      BY DEF Inv, TypeOK, RxTypes
    <2>3. rx' = IF bus.state # "Running"
                THEN rx
                ELSE IF Len(rx.queue) = RxDepth
                THEN [rx EXCEPT !.overflowed = TRUE]
                ELSE [rx EXCEPT !.queue = Append(@, e)]
      BY DEF OnRx
    <2>4. RxDepth \in Nat
      BY TopologyAssumption DEF TopologyAssumption
    <2> HIDE DEF e
    <2>5. /\ Append(rx.queue, e) \in Seq(RxEvent)
          /\ Len(Append(rx.queue, e)) = Len(rx.queue) + 1
          /\ Len(rx.queue) \in Nat
      BY <2>1, <2>2
    <2>6. rx \in [queue : Seq(RxEvent), overflowed : BOOLEAN]
      BY DEF Inv, TypeOK, RxTypes
    <2>7. rx' \in [queue : Seq(RxEvent), overflowed : BOOLEAN]
      BY <2>3, <2>5, <2>6, Zenon
    <2>8. Len(rx'.queue) <= RxDepth
      BY <2>2, <2>3, <2>4, <2>5, <2>6, SMT
    <2> QED
      BY <2>7, <2>8 DEF RxTypes
  <1>3. UNCHANGED <<motor, appVars, pumpVars, bus, inFlight, ioVars>>
    BY DEF OnRx
  <1> QED
    BY <1>1, <1>2, <1>3, Unchanged DEF Inv, TypeOK, MotorsOK

LEMMA OnTxDoneTypes ==
    ASSUME Inv, NEW ok \in BOOLEAN, OnTxDone(ok), ExternalTypes'
    PROVE  Inv'
  <1>1. OrderTypes' /\ GivenOrder \in Order
    BY OrderFacts DEF Inv, TypeOK, OnTxDone
  <1>2. InFlightTypes'
    <2>1. [inFlight EXCEPT !.callback_seen = TRUE, !.ok = ok, !.order = GivenOrder] \in InFlight
      BY <1>1, Zenon DEF Inv, TypeOK, InFlightTypes, InFlight
    <2> QED
      BY <2>1 DEF OnTxDone, Inv, TypeOK, InFlightTypes
  <1>3. UNCHANGED <<motor, appVars, pumpVars, bus, rx, ioVars>>
    BY DEF OnTxDone
  <1> QED
    BY <1>1, <1>2, <1>3, Unchanged DEF Inv, TypeOK, MotorsOK

LEMMA ExternalStep ==
    ASSUME Inv, UNCHANGED <<motor, appVars, pumpVars, bus, cbVars, ioVars>>, ExternalTypes'
    PROVE  Inv'
  BY Unchanged DEF Inv, TypeOK, MotorsOK, cbVars

LEMMA EnvironmentTypesKept ==
    ASSUME Inv, Environment
    PROVE  Inv'
  <1> USE DEF Inv, TypeOK, ExternalTypes
  <1>1. ASSUME NEW heard \in BOOLEAN, Transmit(heard) PROVE Inv'
    <2>1. inFlight.frame \in [Motors -> Content]
      BY Zenon DEF InFlightTypes, InFlight
    <2>2. wire' \in [Motors -> Content]
      BY <1>1, <2>1 DEF Transmit
    <2>3. \A m \in Motors : AfterFrame(drive[m], inFlight.frame[m])
                                 \in {"Disabled", "Enabled", "Fault"}
      BY DEF AfterFrame
    <2>4. drive' \in [Motors -> {"Disabled", "Enabled", "Fault"}]
      BY <1>1, <2>3 DEF Transmit
    <2>5. ExternalTypes'
      BY <1>1, <2>2, <2>4 DEF Transmit
    <2> QED
      BY <1>1, <2>5, ExternalStep DEF Transmit
  <1>2. ASSUME TxSucceeds PROVE Inv'
    BY <1>2, OnTxDoneTypes DEF TxSucceeds
  <1>3. ASSUME TxFails PROVE Inv'
    BY <1>3, OnTxDoneTypes DEF TxFails
  <1>4. ASSUME NEW m \in Motors, NEW again \in BOOLEAN, DmReplies(m, again) PROVE Inv'
    <2>1. drive[m] \in DriveStatus
      BY DEF DriveStatus
    <2> QED
      BY <1>4, <2>1, OnRxTypes DEF DmReplies
  <1>5. ASSUME NEW m \in Motors, DjiReports(m) PROVE Inv'
    BY <1>5, OnRxTypes DEF DjiReports, extVars, DriveStatus
  <1>6. ASSUME NEW m \in Motors, FeedbackAges(m) PROVE Inv'
    <2>1. motor' = [motor EXCEPT ![m] = [motor[m] EXCEPT !.feedback = "Stale"]]
      BY <1>6 DEF FeedbackAges, MotorTypes, MotorRecord
    <2>2. MotorTypes' /\ MotorsOK'
      BY <2>1, MotorStep, MotorIsGood, FieldUpdateGood
    <2>3. UNCHANGED <<appVars, pumpVars, bus, order, rx, inFlight, ioVars, extVars>>
      BY <1>6 DEF FeedbackAges, cbVars
    <2> QED
      BY <2>2, <2>3, Unchanged
  <1>7. ASSUME NEW m \in Motors, CommandAges(m) PROVE Inv'
    <2>1. motor[m].staged.revision \in 0 .. MaxRevision
      BY Zenon DEF MotorTypes, MotorRecord, Command
    <2>2. expired[m] + 1 \in 0 .. MaxRevision
      BY <1>7, <2>1, CounterAssumption DEF CommandAges, AppTypes, CounterAssumption
    <2>3. AppTypes'
      BY <1>7, <2>2 DEF CommandAges, AppTypes
    <2>4. UNCHANGED <<motor, pumpVars, bus, order, rx, inFlight, ioVars, extVars>>
      BY <1>7 DEF CommandAges, cbVars
    <2> QED
      BY <2>3, <2>4, Unchanged DEF MotorsOK
  <1>8. ASSUME NEW m \in Motors, DriveFaults(m) PROVE Inv'
    <2>1. ExternalTypes'
      BY <1>8 DEF DriveFaults
    <2> QED
      BY <1>8, <2>1, ExternalStep DEF DriveFaults
  <1>9. ASSUME ControllerFails PROVE Inv'
    <2>1. ExternalTypes'
      BY <1>9 DEF ControllerFails
    <2> QED
      BY <1>9, <2>1, ExternalStep DEF ControllerFails
  <1>10. ASSUME BusOffEnds PROVE Inv'
    <2>1. ExternalTypes'
      BY <1>10 DEF BusOffEnds
    <2> QED
      BY <1>10, <2>1, ExternalStep DEF BusOffEnds
  <1> QED
    BY <1>1, <1>2, <1>3, <1>4, <1>5, <1>6, <1>7, <1>8, <1>9, <1>10 DEF Environment

(* The I/O thread.                                                         *)
LEMMA EnterRecoveryTypes ==
    ASSUME Inv, NEW back, EnterRecovery(back)
    PROVE  MotorTypes' /\ MotorsOK' /\ BusTypes' /\ pc' = back
  <1>1. CASE bus.state = "Recovering"
    BY <1>1 DEF EnterRecovery, Inv, TypeOK, MotorTypes, MotorsOK, BusTypes
  <1>2. CASE bus.state # "Recovering"
    <2>1. \A m \in Motors : GoodMotor(RaiseFault(motor[m], "Communication"))
      BY MotorIsGood, RaiseFaultGood
    <2>2. motor' = [m \in Motors |-> RaiseFault(motor[m], "Communication")]
      BY <1>2 DEF EnterRecovery
    <2>3. \A m \in Motors : GoodMotor(motor'[m])
      BY <2>1, <2>2
    <2>4. motor' = [m \in Motors |-> motor'[m]]
      BY <2>2
    <2>5. MotorTypes' /\ MotorsOK'
      BY <2>3, <2>4, EveryMotor DEF MotorTypes, MotorsOK
    <2>6. bus' = [bus EXCEPT !.state = "Recovering", !.generation = bus.generation + 1,
                             !.restarted = FALSE]
      BY <1>2 DEF EnterRecovery
    <2>7. bus.generation + 1 \in Nat
      BY DEF Inv, TypeOK, BusTypes
    <2>8. BusTypes'
      BY <2>6, <2>7, Zenon DEF Inv, TypeOK, BusTypes
    <2> QED
      BY <1>2, <2>5, <2>8 DEF EnterRecovery
  <1> QED
    BY <1>1, <1>2

LEMMA ProcessTxTypes ==
    ASSUME Inv, NEW late \in BOOLEAN, ProcessTx(late)
    PROVE  Inv'
  <1>1. MotorTypes' /\ MotorsOK' /\ BusTypes' /\ pc' = "TakeOverflow"
    <2>1. CASE inFlight.generation # bus.generation
      BY <2>1 DEF ProcessTx, Inv, TypeOK, MotorTypes, MotorsOK, BusTypes
    <2>2. CASE inFlight.generation = bus.generation /\ (late \/ ~inFlight.ok)
      BY <2>2, EnterRecoveryTypes DEF ProcessTx
    <2>3. CASE inFlight.generation = bus.generation /\ ~(late \/ ~inFlight.ok)
      <3>1. /\ motor' = [m \in Motors |-> AfterCompletion(m)]
            /\ pc' = "TakeOverflow" /\ UNCHANGED bus
        BY <2>3 DEF ProcessTx
      <3>2. inFlight.order \in Order
        BY DEF Inv, TypeOK, InFlightTypes, InFlight
      <3>3. \A m \in Motors : GoodMotor(AfterCompletion(m))
        BY <3>2, MotorIsGood, MarkStoppedGood, MarkAttemptTxCompleteGood, FieldUpdateGood
           DEF AfterCompletion
      <3>4. motor' = [m \in Motors |-> motor'[m]] /\ \A m \in Motors : GoodMotor(motor'[m])
        BY <3>1, <3>3
      <3>5. MotorTypes' /\ MotorsOK'
        BY <3>4, EveryMotor DEF MotorTypes, MotorsOK
      <3> QED
        BY <3>1, <3>5 DEF Inv, TypeOK, BusTypes
    <2> QED
      BY <2>1, <2>2, <2>3
  <1>2. Idle \in InFlight
    <2>1. NoFrame \in [Motors -> Content]
      BY DEF NoFrame, Content
    <2> QED
      BY <2>1, Ranges, UnitFacts, Zenon DEF Idle, InFlight, Purpose
  <1>3. InFlightTypes'
    BY <1>2 DEF ProcessTx, InFlightTypes
  <1>4. UNCHANGED <<appVars, pumpVars, order, rx, todo, event, follow, budget, candidate, extVars>>
    BY DEF ProcessTx
  <1>5. ThreadTypes'
    BY <1>1, <1>4 DEF ProcessTx, Inv, TypeOK, ThreadTypes, PcNames
  <1> QED
    BY <1>1, <1>3, <1>4, <1>5, Unchanged DEF Inv, TypeOK

LEMMA TakeOverflowTypes ==
    ASSUME Inv, TakeOverflow
    PROVE  Inv'
  <1>1. MotorTypes' /\ MotorsOK' /\ BusTypes' /\ pc' = "ProcessRx"
    <2>1. CASE rx.overflowed
      BY <2>1, EnterRecoveryTypes DEF TakeOverflow
    <2>2. CASE ~rx.overflowed
      BY <2>2 DEF TakeOverflow, Inv, TypeOK, MotorTypes, MotorsOK, BusTypes
    <2> QED
      BY <2>1, <2>2
  <1>2. budget' \in Nat
    BY TopologyAssumption DEF TakeOverflow, TopologyAssumption
  <1>3. RxTypes'
    BY DEF TakeOverflow, Inv, TypeOK, RxTypes
  <1>4. UNCHANGED <<appVars, pumpVars, order, inFlight, todo, event, follow, candidate, extVars>>
    BY DEF TakeOverflow
  <1>5. ThreadTypes'
    BY <1>1, <1>2, <1>4 DEF TakeOverflow, Inv, TypeOK, ThreadTypes, PcNames
  <1> QED
    BY <1>1, <1>3, <1>4, <1>5, Unchanged DEF Inv, TypeOK

LEMMA AcceptTypes ==
    ASSUME Inv, NEW e \in RxEvent, NEW sameMs \in BOOLEAN, NEW retryDue \in BOOLEAN,
           budget # 0, Accept(e, motor[e.motor], sameMs, retryDue)
    PROVE  /\ MotorTypes' /\ MotorsOK'
           /\ pc' \in {"ProcessRx", "FollowUp"} /\ budget' \in Nat /\ follow' \in Follow
  <1> DEFINE mt == motor[e.motor]
  <1>1. e.motor \in Motors /\ e.status \in DriveStatus /\ e.order \in Order
    BY DEF RxEvent
  <1>2. GoodMotor(mt)
    BY <1>1, MotorIsGood
  <1>3. budget' \in Nat
    BY DEF Accept, Inv, TypeOK, ThreadTypes
  <1>4. follow \in Follow
    BY DEF Inv, TypeOK, ThreadTypes
  <1>5. CASE e.motor \notin Dm
    <2>1. GoodMotor(IF sameMs THEN mt ELSE AcceptDjiFeedback(mt))
      BY <1>2, AcceptDjiFeedbackGood
    <2> QED
      BY <1>1, <1>3, <1>4, <1>5, <2>1, MotorStep DEF Accept
  <1>6. CASE e.motor \in Dm /\ ~AcceptsDmFeedback(mt, e.order)
    BY <1>1, <1>2, <1>3, <1>4, <1>6, MotorStep DEF Accept
  <1>7. CASE e.motor \in Dm /\ AcceptsDmFeedback(mt, e.order)
    <2> DEFINE kind == FollowUp(mt, e.status, e.order)
    <2>1. GoodMotor(AcceptDmFeedback(mt, e.status, e.order, retryDue))
      BY <1>1, <1>2, AcceptDmFeedbackGood
    <2>2. kind \in FollowUps
      BY DEF FollowUp, FollowUps
    <2>3. mt.protocol_generation \in 0 .. MaxProtocol
      BY <1>2, Ranges, Zenon DEF GoodMotor, MotorRecord
    <2>4. [motor |-> e.motor, kind |-> kind, generation |-> mt.protocol_generation] \in Follow
      BY <1>1, <2>2, <2>3, Zenon DEF Follow
    <2>5. /\ motor' = [motor EXCEPT ![e.motor] = AcceptDmFeedback(mt, e.status, e.order, retryDue)]
          /\ \/ pc' = "ProcessRx" /\ UNCHANGED follow
             \/ /\ follow' = [motor |-> e.motor, kind |-> kind,
                               generation |-> mt.protocol_generation]
                /\ pc' = "FollowUp"
      BY <1>7, Zenon DEF Accept
    <2> QED
      BY <1>1, <1>3, <1>4, <2>1, <2>4, <2>5, MotorStep
  <1> QED
    BY <1>5, <1>6, <1>7

LEMMA ProcessRxTypes ==
    ASSUME Inv, NEW gap \in BOOLEAN, NEW sameMs \in BOOLEAN, NEW retryDue \in BOOLEAN,
           ProcessRx(gap, sameMs, retryDue)
    PROVE  Inv'
  <1> DEFINE e == Head(rx.queue)
  <1>1. rx.queue \in Seq(RxEvent) /\ rx.queue # <<>> /\ rx.overflowed \in BOOLEAN
    BY DEF ProcessRx, Inv, TypeOK, RxTypes
  <1>2. /\ e \in RxEvent /\ Tail(rx.queue) \in Seq(RxEvent)
        /\ Len(Tail(rx.queue)) = Len(rx.queue) - 1 /\ Len(rx.queue) \in Nat
    BY <1>1
  <1>3. RxTypes'
    <2>1. rx' = [rx EXCEPT !.queue = Tail(rx.queue)]
      BY DEF ProcessRx
    <2>2. rx' \in [queue : Seq(RxEvent), overflowed : BOOLEAN] /\ rx'.queue = Tail(rx.queue)
      BY <1>2, <2>1, Zenon DEF Inv, TypeOK, RxTypes
    <2> QED
      BY <1>2, <2>2, TopologyAssumption DEF Inv, TypeOK, RxTypes, TopologyAssumption
  <1>4. UNCHANGED <<appVars, pumpVars, bus, order, inFlight, todo, candidate, extVars>>
    BY DEF ProcessRx
  <1>5. e.motor \in Motors
    BY <1>2 DEF RxEvent
  <1>6. MotorTypes' /\ MotorsOK' /\ ThreadTypes'
    <2>1. CASE e.generation # bus.generation
      BY <1>4, <2>1 DEF ProcessRx, Inv, TypeOK, MotorTypes, MotorsOK, ThreadTypes, PcNames
    <2>2. CASE e.generation = bus.generation /\ Expires(e, gap)
      <3>1. /\ motor' = [motor EXCEPT ![e.motor] = RaiseFault(motor[e.motor], "Communication")]
            /\ event' = e /\ pc' = "AcceptFeedback" /\ UNCHANGED <<follow, budget>>
        BY <2>2 DEF ProcessRx
      <3>2. GoodMotor(RaiseFault(motor[e.motor], "Communication"))
        BY <1>5, MotorIsGood, RaiseFaultGood
      <3>3. MotorTypes' /\ MotorsOK'
        BY <1>5, <3>1, <3>2, MotorStep
      <3>4. budget # 0
        BY DEF ProcessRx, Inv, TypeOK, ThreadTypes
      <3> HIDE DEF e
      <3>5. ThreadTypes'
        BY <1>2, <1>4, <3>1, <3>4 DEF ProcessRx, Inv, TypeOK, ThreadTypes, PcNames
      <3> QED
        BY <3>3, <3>5
    <2>3. CASE ~(e.generation # bus.generation)
               /\ ~(e.generation = bus.generation /\ Expires(e, gap))
      <3>1. Accept(e, motor[e.motor], sameMs, retryDue) /\ UNCHANGED event
        BY <2>3 DEF ProcessRx
      <3>2. budget # 0
        BY DEF ProcessRx, Inv, TypeOK, ThreadTypes
      <3> HIDE DEF e
      <3>3. /\ MotorTypes' /\ MotorsOK'
            /\ pc' \in {"ProcessRx", "FollowUp"} /\ budget' \in Nat /\ follow' \in Follow
        BY <1>2, <3>1, <3>2, AcceptTypes
      <3>4. ThreadTypes'
        BY <1>4, <3>1, <3>3 DEF ProcessRx, Inv, TypeOK, ThreadTypes, PcNames
      <3> QED
        BY <3>3, <3>4
    <2> QED
      BY <2>1, <2>2, <2>3
  <1> QED
    BY <1>3, <1>4, <1>6, Unchanged DEF Inv, TypeOK

LEMMA AcceptFeedbackTypes ==
    ASSUME Inv, NEW sameMs \in BOOLEAN, NEW retryDue \in BOOLEAN,
           AcceptFeedback(sameMs, retryDue)
    PROVE  Inv'
  <1>1. event \in RxEvent /\ budget # 0
    BY DEF AcceptFeedback, Inv, TypeOK, ThreadTypes
  <1>2. /\ MotorTypes' /\ MotorsOK'
        /\ pc' \in {"ProcessRx", "FollowUp"} /\ budget' \in Nat /\ follow' \in Follow
    BY <1>1, AcceptTypes DEF AcceptFeedback
  <1>3. NoEvent \in RxEvent
    BY Ranges, UnitFacts, Zenon DEF NoEvent, RxEvent, DriveStatus
  <1>4. UNCHANGED <<appVars, pumpVars, bus, order, rx, inFlight, todo, candidate, extVars>>
    BY DEF AcceptFeedback, cbVars
  <1>5. ThreadTypes'
    BY <1>2, <1>3, <1>4 DEF AcceptFeedback, Inv, TypeOK, ThreadTypes, PcNames
  <1> QED
    BY <1>2, <1>4, <1>5, Unchanged DEF Inv, TypeOK

LEMMA FollowUpFeedbackTypes ==
    ASSUME Inv, FollowUpFeedback
    PROVE  Inv'
  <1>1. follow.motor \in Motors /\ follow.kind \in FollowUps
    BY DEF Inv, TypeOK, ThreadTypes, Follow
  <1>2. GoodMotor(ApplyFollowUp(motor[follow.motor], follow.kind, follow.generation))
    BY <1>1, MotorIsGood, ApplyFollowUpGood
  <1>3. MotorTypes' /\ MotorsOK'
    BY <1>1, <1>2, MotorStep DEF FollowUpFeedback
  <1>4. NoFollow \in Follow
    BY Ranges, UnitFacts, Zenon DEF NoFollow, Follow, FollowUps
  <1>5. UNCHANGED <<appVars, pumpVars, bus, order, rx, inFlight, todo, event, budget, candidate,
                    extVars>>
    BY DEF FollowUpFeedback, cbVars
  <1>6. ThreadTypes'
    BY <1>4, <1>5 DEF FollowUpFeedback, Inv, TypeOK, ThreadTypes, PcNames
  <1> QED
    BY <1>3, <1>5, <1>6, Unchanged DEF Inv, TypeOK

LEMMA CheckBusTypes ==
    ASSUME Inv, CheckBus
    PROVE  Inv'
  <1>1. MotorTypes' /\ MotorsOK' /\ BusTypes' /\ pc' = "ProcessTx"
    BY EnterRecoveryTypes DEF CheckBus
  <1>2. UNCHANGED <<appVars, pumpVars, order, rx, inFlight, todo, event, follow, candidate, extVars>>
    BY DEF CheckBus, cbVars
  <1>3. ThreadTypes'
    BY <1>1, <1>2 DEF CheckBus, RxDone, Inv, TypeOK, ThreadTypes, PcNames
  <1> QED
    BY <1>1, <1>2, <1>3, Unchanged DEF Inv, TypeOK

LEMMA CheckMotorTypes ==
    ASSUME Inv, NEW m \in Motors, NEW timeout \in BOOLEAN, NEW due \in BOOLEAN,
           NEW late \in BOOLEAN, CheckMotor(m, timeout, due, late)
    PROVE  Inv'
  <1> DEFINE mt == Deadlines(m, timeout, due, late)
             valid == MayMove(mt, published[m], expired[m])
  <1>1. GoodMotor(mt)
    BY MotorIsGood, ExpireFeedbackGood, TimeOutAttemptGood, StartAttemptGood, PrepareDjiGood,
       GiveUpOnStopGood DEF Deadlines
  <1>2. /\ motor' = [motor EXCEPT ![m] = [mt EXCEPT !.output_command_valid = valid]]
        /\ targets' = targets \/ targets' = NUnits
    BY DEF CheckMotor
  <1>3. valid \in BOOLEAN
    BY DEF MayMove
  <1> HIDE DEF mt, valid
  <1>4. MotorTypes' /\ MotorsOK'
    BY <1>1, <1>2, <1>3, MotorStep, FieldUpdateGood
  <1>5. PumpTypes'
    BY <1>2, UnitFacts DEF CheckMotor, Inv, TypeOK, PumpTypes
  <1>6. UNCHANGED <<appVars, bus, order, rx, inFlight, event, follow, candidate, extVars>>
    BY DEF CheckMotor, cbVars
  <1>7. /\ todo' \subseteq (IF pc' = "CheckMotors" THEN Motors ELSE {})
        /\ pc' \in {"Pump", "CheckMotors"} /\ budget' \in Nat
    BY UnitFacts DEF CheckMotor, Unchecked, Inv, TypeOK, ThreadTypes
  <1>8. ThreadTypes'
    BY <1>6, <1>7 DEF Inv, TypeOK, ThreadTypes, PcNames
  <1> QED
    BY <1>4, <1>5, <1>6, <1>8, Unchanged DEF Inv, TypeOK

LEMMA RecoveryTypes ==
    ASSUME Inv,
           WaitInRecovery \/ StopController \/ StartController \/ RestartAgain \/ Recover
    PROVE  Inv'
  <1>1. UNCHANGED <<motor, appVars, order, rx, inFlight, todo, event, follow, candidate,
                    cursor, protocolFirst, wire, drive, replying>>
    BY DEF WaitInRecovery, StopController, StartController, RestartAgain, Recover, cbVars,
           extVars, pumpVars
  <1>2. pc' = "ProcessTx" /\ budget' = 0
    BY DEF WaitInRecovery, StopController, StartController, RestartAgain, Recover, Recovering
  <1>3. pc = "ProcessRx"
    BY DEF WaitInRecovery, StopController, StartController, RestartAgain, Recover, Recovering, RxDone
  <1>4. ThreadTypes'
    BY <1>1, <1>2, <1>3 DEF Inv, TypeOK, ThreadTypes, PcNames
  <1>5. PumpTypes'
    BY <1>1, UnitFacts DEF WaitInRecovery, StopController, StartController, RestartAgain, Recover,
           pumpVars, Inv, TypeOK, PumpTypes
  <1>6. BusTypes'
    <2>1. /\ [bus EXCEPT !.started = FALSE] \in
                 [state : {"Running", "Recovering"}, generation : Nat,
                  started : BOOLEAN, restarted : BOOLEAN]
          /\ [bus EXCEPT !.started = TRUE, !.restarted = TRUE] \in
                 [state : {"Running", "Recovering"}, generation : Nat,
                  started : BOOLEAN, restarted : BOOLEAN]
          /\ [bus EXCEPT !.restarted = FALSE] \in
                 [state : {"Running", "Recovering"}, generation : Nat,
                  started : BOOLEAN, restarted : BOOLEAN]
          /\ [bus EXCEPT !.state = "Running"] \in
                 [state : {"Running", "Recovering"}, generation : Nat,
                  started : BOOLEAN, restarted : BOOLEAN]
      BY Zenon DEF Inv, TypeOK, BusTypes
    <2> QED
      BY <2>1 DEF WaitInRecovery, StopController, StartController, RestartAgain, Recover,
                  Inv, TypeOK, BusTypes
  <1>7. hw' \in [state : {"Active", "BusOff", "Stopped"}, frame : {"None", "Queued", "Sent"}]
    <2>1. \A s \in {"Active", "BusOff", "Stopped"} : [hw EXCEPT !.state = s] \in
             [state : {"Active", "BusOff", "Stopped"}, frame : {"None", "Queued", "Sent"}]
      BY Zenon DEF Inv, TypeOK, ExternalTypes
    <2> QED
      BY <2>1 DEF WaitInRecovery, StopController, StartController, RestartAgain, Recover, extVars,
                  Inv, TypeOK, ExternalTypes
  <1>8. ExternalTypes'
    BY <1>1, <1>7 DEF Inv, TypeOK, ExternalTypes
  <1> QED
    BY <1>1, <1>4, <1>5, <1>6, <1>8, Unchanged DEF Inv, TypeOK, MotorsOK

LEMMA NoCandidateType ==
    NoCandidate \in Candidate /\ NoCapture \in [Motors -> CandidateMotor]
  <1>1. NoFrame \in [Motors -> Content]
    BY DEF NoFrame, Content
  <1>2. NoCommand \in Command
    BY Ranges, Zenon DEF NoCommand, Command
  <1>3. NoCapture \in [Motors -> CandidateMotor]
    BY <1>2, Ranges, Zenon DEF NoCapture, CandidateMotor, MotorState
  <1> QED
    BY <1>1, <1>3, UnitFacts, TopologyAssumption, SMT
       DEF NoCandidate, Candidate, Purpose, PumpStage, TopologyAssumption

LEMMA TakeTypes ==
    ASSUME NEW u \in UnitIds, NEW purpose \in Purpose, NEW stage \in PumpStage,
           Take(u, purpose, stage)
    PROVE  /\ candidate' \in Candidate /\ pc' = "Build"
           /\ candidate'.purpose = purpose /\ candidate'.stage = stage
  <1> DEFINE clear == purpose = "Probe" /\ \E m \in Units[u] : motor[m].attempt = "ClearFault"
  <1>1. clear \in BOOLEAN
    OBVIOUS
  <1>2. candidate' = [NoCandidate EXCEPT !.unit = u, !.purpose = purpose, !.stage = stage,
                                         !.clear_probe = clear]
    BY DEF Take
  <1> HIDE DEF clear
  <1>3. candidate' \in Candidate
    BY <1>1, <1>2, NoCandidateType, Zenon DEF Candidate
  <1>4. candidate'.purpose = purpose /\ candidate'.stage = stage
    BY <1>2 DEF NoCandidate
  <1> QED
    BY <1>3, <1>4 DEF Take

(* A unit that demands a frame gets one with a purpose of the protocol; in *)
(* the scan for pending stops that purpose is SafeOutput.                  *)
LEMMA PurposeType ==
    ASSUME Inv, NEW u \in UnitIds, NEW stopsOnly \in BOOLEAN, NEW due,
           Demands(u, stopsOnly, due)
    PROVE  /\ PurposeOf(u, stopsOnly, due) \in Purpose \ {"Target"}
           /\ stopsOnly => PurposeOf(u, stopsOnly, due) = "SafeOutput"
  <1>1. CASE \E m \in Units[u] : WantsStop(m, stopsOnly, due)
    BY <1>1 DEF PurposeOf, Purpose
  <1>2. CASE ~\E m \in Units[u] : WantsStop(m, stopsOnly, due)
    <2> DEFINE k == CHOOSE m \in Units[u] : TRUE
    <2>1. PICK m \in Units[u] : ~stopsOnly /\ WantsProtocol(m)
      BY <1>2 DEF Demands
    <2>2. k = m /\ m \in Motors
      BY <2>1, UnitFacts DEF WantsProtocol
    <2>3. motor[m].attempt \in {"Enable", "ClearFault"}
      BY <2>1, <2>2, Zenon DEF WantsProtocol, Inv, TypeOK, MotorTypes, MotorRecord, AttemptKind
    <2>4. PurposeOf(u, stopsOnly, due) = IF motor[m].attempt_tx_done THEN "Probe"
                                         ELSE motor[m].attempt
      BY <1>2, <2>2 DEF PurposeOf
    <2> QED
      BY <2>1, <2>3, <2>4 DEF Purpose
  <1> QED
    BY <1>1, <1>2

LEMMA PumpTypesKept ==
    ASSUME Inv, NEW due, Pump(due)
    PROVE  Inv'
  <1> DEFINE first == IF pc = "First" THEN todo
                      ELSE IF pc = "Pump" /\ protocolFirst THEN UnitIds ELSE {}
             last  == IF pc = "Last" THEN todo ELSE UnitIds
             Result == /\ candidate' \in Candidate /\ pc' \in {"Build", "ProcessTx"}
                       /\ pc' = "Build" =>
                             /\ candidate'.stage = "Target" <=> candidate'.purpose = "Target"
                             /\ candidate'.stage = "Stop" => candidate'.purpose = "SafeOutput"
                       /\ todo' \subseteq UnitIds /\ budget' \in Nat
                       /\ cursor' \in [target : UnitIds, protocol : UnitIds]
                       /\ targets' \in 0 .. NUnits
  <1>1. ASSUME NEW scan, scan \subseteq UnitIds,
               NEW stage \in {"Stop", "First", "Last"}, TakeProtocol(scan, stage, due)
        PROVE  Result
    <2> DEFINE stopsOnly == stage = "Stop"
    <2>1. PICK u \in scan :
            /\ Demands(u, stopsOnly, due)
            /\ Take(u, PurposeOf(u, stopsOnly, due), stage)
            /\ cursor' = [cursor EXCEPT !.protocol = Following(u)]
            /\ todo' \subseteq scan /\ UNCHANGED <<targets, budget>>
      BY <1>1 DEF TakeProtocol
    <2>2. u \in UnitIds /\ Following(u) \in UnitIds
      BY <1>1, UnitFacts
    <2>3. /\ PurposeOf(u, stopsOnly, due) \in Purpose \ {"Target"}
          /\ stopsOnly => PurposeOf(u, stopsOnly, due) = "SafeOutput"
      BY <2>1, <2>2, PurposeType
    <2>4. stage \in PumpStage /\ stage # "Target"
      BY DEF PumpStage
    <2>5. /\ candidate' \in Candidate /\ pc' = "Build"
          /\ candidate'.purpose = PurposeOf(u, stopsOnly, due) /\ candidate'.stage = stage
      BY <2>1, <2>2, <2>3, <2>4, TakeTypes
    <2>6. cursor' \in [target : UnitIds, protocol : UnitIds]
      BY <2>1, <2>2 DEF Inv, TypeOK, PumpTypes
    <2>7. targets' \in 0 .. NUnits /\ budget' \in Nat
      BY <2>1 DEF Inv, TypeOK, PumpTypes, ThreadTypes
    <2> QED
      BY <1>1, <2>1, <2>3, <2>4, <2>5, <2>6, <2>7
  <1>2. ASSUME TakeTarget, targets > 0, budget > 0 PROVE Result
    <2>1. cursor.target \in UnitIds /\ Following(cursor.target) \in UnitIds
      BY UnitFacts DEF Inv, TypeOK, PumpTypes
    <2>2. "Target" \in Purpose /\ "Target" \in PumpStage
      BY DEF Purpose, PumpStage
    <2>3. /\ candidate' \in Candidate /\ pc' = "Build"
          /\ candidate'.purpose = "Target" /\ candidate'.stage = "Target"
      BY <1>2, <2>1, <2>2, TakeTypes DEF TakeTarget
    <2>4. cursor' \in [target : UnitIds, protocol : UnitIds]
      BY <1>2, <2>1 DEF TakeTarget, Inv, TypeOK, PumpTypes
    <2>5. targets' \in 0 .. NUnits /\ budget' \in Nat /\ todo' \subseteq UnitIds
      BY <1>2, UnitFacts DEF TakeTarget, Inv, TypeOK, PumpTypes, ThreadTypes
    <2> QED
      BY <2>3, <2>4, <2>5
  <1>3. ASSUME EndPump PROVE Result
    BY <1>3 DEF EndPump, Inv, TypeOK, PumpTypes, ThreadTypes
  <1>4. first \subseteq UnitIds /\ last \subseteq UnitIds
    BY DEF Inv, TypeOK, ThreadTypes
  <1>5. Result
    <2>1. \/ TakeProtocol(UnitIds, "Stop", due) \/ TakeProtocol(first, "First", due)
          \/ TakeTarget /\ targets > 0 /\ budget > 0
          \/ TakeProtocol(last, "Last", due) \/ EndPump
      BY Zenon DEF Pump
    <2> HIDE DEF first, last, Result
    <2> QED
      BY <1>1, <1>2, <1>3, <1>4, <2>1
  <1>6. UNCHANGED <<motor, appVars, protocolFirst, bus, order, rx, inFlight, event, follow, extVars>>
    BY DEF Pump, cbVars
  <1>7. ThreadTypes' /\ PumpTypes'
    BY <1>5, <1>6 DEF Inv, TypeOK, ThreadTypes, PcNames, PumpTypes
  <1> QED
    BY <1>6, <1>7, Unchanged DEF Inv, TypeOK, MotorsOK

LEMMA CapturedType ==
    ASSUME Inv, NEW m \in Motors
    PROVE  Captured(m) \in CandidateMotor
  <1> DEFINE motion == /\ candidate.purpose \in {"Target", "SafeOutput"}
                       /\ candidate.purpose = "SafeOutput" => m \notin Dm
                       /\ MayMove(motor[m], published[m], expired[m])
             safe == candidate.purpose = "SafeOutput" /\ ~motor[m].enabled_requested
  <1>1. motion \in BOOLEAN /\ safe \in BOOLEAN
    OBVIOUS
  <1>2. published[m] \in Command
    BY DEF Inv, TypeOK, AppTypes
  <1>3. motor[m] \in MotorRecord
    BY DEF Inv, TypeOK, MotorTypes
  <1>4. /\ motor[m].cancellation_generation \in 0 .. MaxCancellation
        /\ motor[m].protocol_generation \in 0 .. MaxProtocol
        /\ motor[m].request_generation \in 0 .. MaxCancellation
        /\ motor[m].enable_generation \in 0 .. MaxEnable
        /\ motor[m].state \in MotorState
        /\ motor[m].enabled_requested \in BOOLEAN /\ motor[m].output_permitted \in BOOLEAN
    BY <1>3, Ranges, Zenon DEF MotorRecord
  <1>5. Captured(m) =
         [command |-> published[m], included |-> TRUE,
          enabled_requested |-> motor[m].enabled_requested, state |-> motor[m].state,
          output_permitted |-> motor[m].output_permitted,
          enable_generation |-> motor[m].enable_generation,
          cancellation_generation |-> motor[m].cancellation_generation,
          protocol_generation |-> motor[m].protocol_generation,
          stop_generation |-> motor[m].request_generation,
          motion |-> motion, safe_action |-> safe]
    BY DEF Captured
  <1> HIDE DEF motion, safe
  <1> QED
    BY <1>1, <1>2, <1>4, <1>5, SMT DEF CandidateMotor

LEMMA EncodedType ==
    ASSUME NEW m
    PROVE  /\ Encoded(m) \in Content
           /\ candidate.purpose = "SafeOutput" => Encoded(m) # "Nothing"
  BY DEF Encoded, Neutral, Content

LEMMA BuildTypes ==
    ASSUME Inv, Build
    PROVE  Inv'
  <1> DEFINE unit  == Units[candidate.unit]
             frame == [m \in Motors |-> IF m \in unit THEN Encoded(m) ELSE "Nothing"]
             built == \E m \in Motors : frame[m] # "Nothing"
             captured == [m \in Motors |-> IF m \in unit THEN Captured(m) ELSE NoCapture[m]]
  <1>1. /\ candidate' = IF built
              THEN [candidate EXCEPT !.generation = bus.generation, !.sequence = sequence,
                                     !.motors = captured, !.frame = frame]
              ELSE NoCandidate
        /\ pc' = IF built THEN "Submit"
                 ELSE IF candidate.purpose = "Target" THEN "Targets" ELSE candidate.stage
        /\ todo' = IF built THEN {} ELSE todo
        /\ budget' = IF built THEN 0 ELSE budget
        /\ motor' = [m \in Motors |->
              IF ~built /\ candidate.purpose = "Probe" /\ m \in unit
              THEN [motor[m] EXCEPT !.probe_sent = TRUE] ELSE motor[m]]
    BY DEF Build
  <1>2. frame \in [Motors -> Content]
    BY EncodedType DEF Content
  <1>3. captured \in [Motors -> CandidateMotor]
    BY CapturedType, NoCandidateType
  <1>4. /\ pc = "Build"
        /\ UNCHANGED <<appVars, pumpVars, bus, order, rx, inFlight, event, follow, extVars>>
    BY DEF Build, cbVars
  <1>5. candidate.purpose = "SafeOutput" => built
    <2>1. candidate.unit \in UnitIds
      BY DEF Inv, TypeOK, ThreadTypes, Candidate
    <2>2. PICK m \in unit : m \in Motors
      BY <2>1, UnitFacts
    <2> QED
      BY <2>2, EncodedType
  <1> HIDE DEF unit, frame, built, captured
  <1>6. candidate' \in Candidate
    <2>1. bus.generation \in Nat /\ sequence \in 0 .. MaxSequence
      BY DEF Inv, TypeOK, BusTypes, AppTypes
    <2>2. [candidate EXCEPT !.generation = bus.generation, !.sequence = sequence,
                            !.motors = captured, !.frame = frame] \in Candidate
      BY <1>2, <1>3, <2>1, Zenon DEF Inv, TypeOK, ThreadTypes, Candidate
    <2> QED
      BY <1>1, <2>2, NoCandidateType
  <1>7. pc' \in PcNames \ {"AcceptFeedback", "CheckMotors", "Build"}
    <2>1. candidate.stage \in PumpStage
      BY DEF Inv, TypeOK, ThreadTypes, Candidate
    <2>2. /\ candidate.stage = "Target" <=> candidate.purpose = "Target"
          /\ candidate.stage = "Stop" => candidate.purpose = "SafeOutput"
      BY <1>4 DEF Inv, TypeOK, ThreadTypes
    <2> QED
      BY <1>1, <1>5, <2>1, <2>2 DEF PumpStage, PcNames
  <1>8. ThreadTypes'
    BY <1>1, <1>4, <1>6, <1>7 DEF Inv, TypeOK, ThreadTypes
  <1>9. MotorTypes' /\ MotorsOK'
    <2>1. \A m \in Motors : GoodMotor([motor[m] EXCEPT !.probe_sent = TRUE])
      BY MotorIsGood, FieldUpdateGood
    <2>2. \A m \in Motors : GoodMotor(motor'[m])
      BY <1>1, <2>1, MotorIsGood
    <2>3. motor' = [m \in Motors |-> motor'[m]]
      BY <1>1
    <2> QED
      BY <2>2, <2>3, EveryMotor DEF MotorTypes, MotorsOK
  <1> QED
    BY <1>4, <1>8, <1>9, Unchanged DEF Inv, TypeOK

(* What the ways of handing a candidate over have in common.               *)
LEMMA EndSubmitTypes ==
    ASSUME Inv, EndSubmit, pc' = "ProcessTx", targets' \in 0 .. NUnits
    PROVE  ThreadTypes' /\ PumpTypes'
  <1>1. protocolFirst' \in BOOLEAN
    BY DEF EndSubmit, Inv, TypeOK, PumpTypes
  <1>2. pc = "Submit" /\ candidate' = NoCandidate /\ UNCHANGED <<cursor, todo, event, follow, budget>>
    BY DEF EndSubmit
  <1>3. ThreadTypes'
    BY <1>2, NoCandidateType DEF Inv, TypeOK, ThreadTypes, PcNames
  <1> QED
    BY <1>1, <1>2, <1>3 DEF Inv, TypeOK, PumpTypes

LEMMA SubmittedType ==
    ASSUME Inv
    PROVE  Submitted \in InFlight
  <1> DEFINE k == CHOOSE m \in Units[candidate.unit] : TRUE
             stops == [m \in Motors |->
                IF candidate.motors[m].safe_action THEN candidate.motors[m].stop_generation ELSE 0]
  <1>1. candidate \in Candidate
    BY DEF Inv, TypeOK, ThreadTypes
  <1>2. /\ candidate.purpose \in Purpose /\ candidate.unit \in UnitIds
        /\ candidate.generation \in Nat /\ candidate.frame \in [Motors -> Content]
        /\ candidate.motors \in [Motors -> CandidateMotor]
    BY <1>1, Zenon DEF Candidate
  <1>3. k \in Motors
    BY <1>2, UnitFacts
  <1>4. candidate.motors[k].protocol_generation \in 0 .. MaxProtocol
    BY <1>2, <1>3, Zenon DEF CandidateMotor
  <1>5. \A m \in Motors : candidate.motors[m].stop_generation \in 0 .. MaxCancellation
    BY <1>2, Zenon DEF CandidateMotor
  <1>6. stops \in [Motors -> 0 .. MaxCancellation]
    BY <1>5, Ranges
  <1>7. Submitted =
          [busy |-> TRUE, callback_seen |-> FALSE, ok |-> FALSE, order |-> 0,
           purpose |-> candidate.purpose, unit |-> candidate.unit,
           generation |-> candidate.generation,
           protocol_generation |-> candidate.motors[k].protocol_generation,
           stop_generations |-> stops, frame |-> candidate.frame]
    BY DEF Submitted
  <1> HIDE DEF k, stops
  <1> QED
    BY <1>2, <1>4, <1>6, <1>7, Ranges, ZenonT(60) DEF InFlight

LEMMA SubmitTypes ==
    ASSUME Inv, Submit \/ SubmitRefused \/ SendFails
    PROVE  Inv'
  <1>1. UNCHANGED <<appVars, order, rx, wire, drive, replying>> /\ EndSubmit
    BY DEF Submit, SubmitRefused, SendFails, EndSubmit
  <1>2. targets' \in 0 .. NUnits
    BY UnitFacts DEF Submit, SubmitRefused, SendFails, Inv, TypeOK, PumpTypes
  <1>3. MotorTypes' /\ MotorsOK' /\ BusTypes' /\ pc' = "ProcessTx"
    <2>1. CASE SendFails
      BY <2>1, EnterRecoveryTypes DEF SendFails
    <2>2. CASE Submit \/ SubmitRefused
      BY <2>2 DEF Submit, SubmitRefused, Inv, TypeOK, MotorTypes, MotorsOK, BusTypes
    <2> QED
      BY <2>1, <2>2
  <1>4. InFlightTypes'
    BY SubmittedType DEF Submit, SubmitRefused, SendFails, Inv, TypeOK, InFlightTypes
  <1>5. ExternalTypes'
    <2>1. [hw EXCEPT !.frame = "Queued"] \in
            [state : {"Active", "BusOff", "Stopped"}, frame : {"None", "Queued", "Sent"}]
      BY Zenon DEF Inv, TypeOK, ExternalTypes
    <2> QED
      BY <1>1, <2>1 DEF Submit, SubmitRefused, SendFails, Inv, TypeOK, ExternalTypes
  <1>6. ThreadTypes' /\ PumpTypes'
    BY <1>1, <1>2, <1>3, EndSubmitTypes
  <1> QED
    BY <1>1, <1>3, <1>4, <1>5, <1>6, Unchanged DEF Inv, TypeOK

LEMMA InvIsInductive ==
    Inv /\ [Next]_vars => Inv'
  <1> SUFFICES ASSUME Inv, [Next]_vars PROVE Inv'
    OBVIOUS
  <1>1. CASE UNCHANGED vars
    BY <1>1, Unchanged DEF vars, cbVars, Inv, TypeOK, MotorsOK
  <1>2. CASE App
    BY <1>2, AppTypesKept
  <1>3. CASE Environment
    BY <1>3, EnvironmentTypesKept
  <1>4. CASE IoThread
    BY <1>4, ProcessTxTypes, TakeOverflowTypes, ProcessRxTypes, AcceptFeedbackTypes,
       FollowUpFeedbackTypes, CheckBusTypes, CheckMotorTypes, RecoveryTypes, PumpTypesKept,
       BuildTypes, SubmitTypes, Zenon DEF IoThread
  <1> QED
    BY <1>1, <1>2, <1>3, <1>4 DEF Next

LEMMA Invariance == Spec => []Inv
  BY InitialTypes, InvIsInductive, PTL DEF Spec

(* Every variable keeps its type: no order, generation, sequence or count  *)
(* ever leaves its range and the receive queue never outgrows kRxDepth,    *)
(* whatever the layout of the motors and the limits of the counters.       *)
THEOREM TypeCorrect == Spec => []TypeOK
  <1>1. Inv => TypeOK
    BY DEF Inv
  <1> QED
    BY <1>1, Invariance, PTL

(* The flags of every motor stay consistent: no interleaving of enable(),  *)
(* disable(), completions, feedback, deadlines and recovery leaves output  *)
(* permitted in a motor that is not Active or not enabled.                 *)
THEOREM MotorsConsistent == Spec => []MotorsOK
  <1>1. Inv => MotorsOK
    BY DEF Inv
  <1> QED
    BY <1>1, Invariance, PTL

-----------------------------------------------------------------------------
(* The controller and in_flight_ agree on the frame they hold.             *)

LEMMA FrameStep ==
    Inv /\ FrameOwnsCallback /\ [Next]_vars => FrameOwnsCallback'
  <1> SUFFICES ASSUME Inv, FrameOwnsCallback, [Next]_vars PROVE FrameOwnsCallback'
    OBVIOUS
  <1> USE DEF FrameOwnsCallback
  <1>1. /\ \A f \in {"None", "Queued", "Sent"} : [hw EXCEPT !.frame = f].frame = f
        /\ \A t \in {"Active", "BusOff", "Stopped"} : [hw EXCEPT !.state = t].frame = hw.frame
    BY DEF Inv, TypeOK, ExternalTypes
  <1>2. \A ok \in BOOLEAN : OnTxDone(ok) => ~(inFlight'.busy /\ ~inFlight'.callback_seen)
    BY DEF OnTxDone, Inv, TypeOK, InFlightTypes, InFlight
  <1>3. CASE UNCHANGED <<hw, inFlight>>
    BY <1>3
  <1>4. CASE \E heard \in BOOLEAN : Transmit(heard)
    BY <1>1, <1>4 DEF Transmit, cbVars
  <1>5. CASE TxSucceeds \/ TxFails
    BY <1>1, <1>2, <1>5 DEF TxSucceeds, TxFails
  <1>6. CASE ControllerFails \/ BusOffEnds
    BY <1>1, <1>6 DEF ControllerFails, BusOffEnds, cbVars
  <1>7. CASE StopController \/ StartController
    BY <1>1, <1>7 DEF StopController, StartController, cbVars
  <1>8. CASE \E late \in BOOLEAN : ProcessTx(late)
    BY <1>8 DEF ProcessTx, Completed, Idle, extVars
  <1>9. CASE Submit
    BY <1>1, <1>9 DEF Submit, Submitted
  <1>10. CASE App
    <2>1. UNCHANGED <<cbVars, extVars>>
      BY <1>10 DEF App, CallEnable, CallDisable, CallInvalidate, CallSetter, Call, Commit
    <2> QED
      BY <1>3, <2>1 DEF cbVars, extVars
  <1>11. ASSUME NEW m \in Motors,
                \/ \E again \in BOOLEAN : DmReplies(m, again)
                \/ DjiReports(m) \/ FeedbackAges(m) \/ CommandAges(m) \/ DriveFaults(m)
         PROVE  UNCHANGED <<hw, inFlight>>
    BY <1>11 DEF DmReplies, DjiReports, FeedbackAges, CommandAges, DriveFaults, OnRx, extVars, cbVars
  <1>12. CASE TakeOverflow \/ FollowUpFeedback \/ CheckBus \/ WaitInRecovery \/ RestartAgain
              \/ Recover \/ Build \/ SubmitRefused \/ SendFails
    <2>1. UNCHANGED <<hw, inFlight>>
      BY <1>12 DEF TakeOverflow, FollowUpFeedback, CheckBus, WaitInRecovery, RestartAgain, Recover,
                   Build, SubmitRefused, SendFails, cbVars, extVars
    <2> QED
      BY <1>3, <2>1
  <1>13. CASE \/ \E gap, sameMs, retryDue \in BOOLEAN : ProcessRx(gap, sameMs, retryDue)
              \/ \E sameMs, retryDue \in BOOLEAN : AcceptFeedback(sameMs, retryDue)
              \/ \E m \in Motors, timeout, due, late \in BOOLEAN : CheckMotor(m, timeout, due, late)
              \/ \E due \in SUBSET Dm : Pump(due)
    <2>1. ASSUME NEW gap, NEW sameMs, NEW retryDue, ProcessRx(gap, sameMs, retryDue)
          PROVE  UNCHANGED <<hw, inFlight>>
      BY <2>1 DEF ProcessRx, extVars
    <2>2. ASSUME NEW sameMs, NEW retryDue, AcceptFeedback(sameMs, retryDue)
          PROVE  UNCHANGED <<hw, inFlight>>
      BY <2>2 DEF AcceptFeedback, cbVars, extVars
    <2>3. ASSUME NEW m, NEW timeout, NEW due, NEW late, CheckMotor(m, timeout, due, late)
          PROVE  UNCHANGED <<hw, inFlight>>
      BY <2>3 DEF CheckMotor, cbVars, extVars
    <2>4. ASSUME NEW due, Pump(due) PROVE UNCHANGED <<hw, inFlight>>
      BY <2>4 DEF Pump, cbVars, extVars
    <2> QED
      BY <1>3, <1>13, <2>1, <2>2, <2>3, <2>4
  <1>14. CASE UNCHANGED vars
    BY <1>3, <1>14 DEF vars, cbVars, extVars
  <1>15. CASE Environment
    BY <1>3, <1>4, <1>5, <1>6, <1>11, <1>15 DEF Environment
  <1>16. CASE IoThread
    BY <1>7, <1>8, <1>9, <1>12, <1>13, <1>16, Zenon DEF IoThread
  <1> QED
    BY <1>10, <1>14, <1>15, <1>16 DEF Next

(* A completion always belongs to the frame in flight: whatever aborts,    *)
(* timeouts and restarts happen, the controller never holds a frame the    *)
(* bus has given up on while the bus hands it another.                     *)
THEOREM FrameIsOwned == Spec => []FrameOwnsCallback
  <1>1. Init => FrameOwnsCallback
    BY DEF Init, FrameOwnsCallback, Idle
  <1> QED
    BY <1>1, FrameStep, Invariance, PTL DEF Spec

-----------------------------------------------------------------------------
(* A frame that moves a motor is covered by authority that still holds.    *)

(* What Build leaves for Submit: a motor that the frame moves was captured *)
(* with the authority its command needs.                                   *)
CapturedAuthority(entry) ==
    /\ entry.included /\ entry.motion
    /\ entry.enabled_requested /\ entry.state = "Active" /\ entry.output_permitted
    /\ entry.command.valid
    /\ entry.command.cancellation_generation = entry.cancellation_generation
    /\ entry.command.computed_effort =>
          entry.command.sampled_enable_generation = entry.enable_generation

SubmitInv ==
    pc = "Submit" => \A m \in Motors :
        candidate.frame[m] = "Motion" => CapturedAuthority(candidate.motors[m])

LEMMA BuildEstablishes ==
    ASSUME Inv, Build
    PROVE  SubmitInv'
  <1> DEFINE unit  == Units[candidate.unit]
             frame == [m \in Motors |-> IF m \in unit THEN Encoded(m) ELSE "Nothing"]
             built == \E m \in Motors : frame[m] # "Nothing"
             captured == [m \in Motors |-> IF m \in unit THEN Captured(m) ELSE NoCapture[m]]
  <1>1. /\ candidate' = IF built
              THEN [candidate EXCEPT !.generation = bus.generation, !.sequence = sequence,
                                     !.motors = captured, !.frame = frame]
              ELSE NoCandidate
        /\ pc' = IF built THEN "Submit"
                 ELSE IF candidate.purpose = "Target" THEN "Targets" ELSE candidate.stage
    BY DEF Build
  <1>2. \A m \in Motors : frame[m] = "Motion" => CapturedAuthority(captured[m])
    <2> SUFFICES ASSUME NEW m \in Motors, frame[m] = "Motion"
                 PROVE  CapturedAuthority(captured[m])
      OBVIOUS
    <2>1. m \in unit /\ Encoded(m) = "Motion" /\ captured[m] = Captured(m)
      OBVIOUS
    <2>2. Captured(m).motion
      BY <2>1 DEF Encoded, Neutral
    <2>3. MayMove(motor[m], published[m], expired[m])
      BY <2>2 DEF Captured
    <2> QED
      BY <2>1, <2>2, <2>3 DEF Captured, CapturedAuthority, MayMove
  <1>3. CASE built
    <2> HIDE DEF frame, built, captured
    <2>1. candidate'.frame = frame /\ candidate'.motors = captured
      BY <1>1, <1>3 DEF Inv, TypeOK, ThreadTypes, Candidate
    <2> QED
      BY <1>2, <2>1 DEF SubmitInv
  <1>4. CASE ~built
    <2>1. candidate.stage # "Submit"
      BY DEF Inv, TypeOK, ThreadTypes, Candidate, PumpStage
    <2> QED
      BY <1>1, <1>4, <2>1 DEF SubmitInv
  <1> QED
    BY <1>3, <1>4

LEMMA SubmitInvStep ==
    Inv /\ SubmitInv /\ [Next]_vars => SubmitInv'
  <1> SUFFICES ASSUME Inv, SubmitInv, [Next]_vars PROVE SubmitInv'
    OBVIOUS
  <1>1. CASE UNCHANGED <<pc, candidate>>
    BY <1>1 DEF SubmitInv
  <1>2. CASE pc' # "Submit"
    BY <1>2 DEF SubmitInv
  <1>3. CASE App
    <2>1. UNCHANGED ioVars
      BY <1>3 DEF App, CallEnable, CallDisable, CallInvalidate, CallSetter, Call, Commit
    <2> QED
      BY <1>1, <2>1 DEF ioVars
  <1>4. CASE Environment
    <2>1. UNCHANGED ioVars
      BY <1>4 DEF Environment, Transmit, TxSucceeds, TxFails, DmReplies, DjiReports, FeedbackAges,
                  CommandAges, DriveFaults, ControllerFails, BusOffEnds, OnRx, OnTxDone
    <2> QED
      BY <1>1, <2>1 DEF ioVars
  <1>5. CASE Build
    BY <1>5, BuildEstablishes
  <1>6. CASE \E late \in BOOLEAN : ProcessTx(late)
    BY <1>2, <1>6 DEF ProcessTx, EnterRecovery
  <1>7. CASE \/ \E gap, sameMs, retryDue \in BOOLEAN : ProcessRx(gap, sameMs, retryDue)
             \/ \E sameMs, retryDue \in BOOLEAN : AcceptFeedback(sameMs, retryDue)
    <2>1. pc' \in {pc, "AcceptFeedback", "ProcessRx", "FollowUp"} /\ pc # "Submit"
      BY <1>7 DEF ProcessRx, AcceptFeedback, Accept
    <2> QED
      BY <1>2, <2>1
  <1>8. CASE \E m \in Motors, timeout, due, late \in BOOLEAN : CheckMotor(m, timeout, due, late)
    <2>1. pc' \in {"Pump", "CheckMotors"}
      BY <1>8 DEF CheckMotor
    <2> QED
      BY <1>2, <2>1
  <1>9. CASE \E due \in SUBSET Dm : Pump(due)
    <2>1. pc' \in {"Build", "ProcessTx"}
      BY <1>9 DEF Pump, TakeProtocol, TakeTarget, Take, EndPump
    <2> QED
      BY <1>2, <2>1
  <1>10. CASE TakeOverflow \/ FollowUpFeedback \/ CheckBus \/ WaitInRecovery \/ StopController
              \/ StartController \/ RestartAgain \/ Recover \/ Submit \/ SubmitRefused \/ SendFails
    <2>1. pc' # "Submit"
      BY <1>10 DEF TakeOverflow, FollowUpFeedback, CheckBus, WaitInRecovery, StopController,
                   StartController, RestartAgain, Recover, Recovering, Submit, SubmitRefused,
                   SendFails, EnterRecovery
    <2> QED
      BY <1>2, <2>1
  <1>11. CASE UNCHANGED vars
    BY <1>1, <1>11 DEF vars, ioVars
  <1>12. CASE IoThread
    BY <1>5, <1>6, <1>7, <1>8, <1>9, <1>10, <1>12, Zenon DEF IoThread
  <1> QED
    BY <1>3, <1>4, <1>11, <1>12 DEF Next

LEMMA OnlySubmitSubmits ==
    ASSUME [Next]_vars, ~inFlight.busy, inFlight'.busy
    PROVE  Submit
  <1>1. inFlight' # inFlight
    OBVIOUS
  <1>2. ~App
    BY <1>1 DEF App, CallEnable, CallDisable, CallInvalidate, CallSetter, Call, Commit, cbVars
  <1>3. ~Environment
    <2>1. \A ok \in BOOLEAN : ~OnTxDone(ok)
      BY <1>1 DEF OnTxDone
    <2> QED
      BY <1>1, <2>1 DEF Environment, Transmit, TxSucceeds, TxFails, DmReplies, DjiReports, OnRx,
                 FeedbackAges, CommandAges, DriveFaults, ControllerFails, BusOffEnds, cbVars
  <1>4. \A late \in BOOLEAN : ~ProcessTx(late)
    BY DEF ProcessTx, Completed
  <1>5. \A gap, sameMs, retryDue \in BOOLEAN : ~ProcessRx(gap, sameMs, retryDue)
    BY <1>1 DEF ProcessRx
  <1>6. \A sameMs, retryDue \in BOOLEAN : ~AcceptFeedback(sameMs, retryDue)
    BY <1>1 DEF AcceptFeedback, cbVars
  <1>7. \A m \in Motors, timeout, due, late \in BOOLEAN : ~CheckMotor(m, timeout, due, late)
    BY <1>1 DEF CheckMotor, cbVars
  <1>8. \A due \in SUBSET Dm : ~Pump(due)
    BY <1>1 DEF Pump, cbVars
  <1>9. ~(TakeOverflow \/ FollowUpFeedback \/ CheckBus \/ WaitInRecovery \/ StopController
          \/ StartController \/ RestartAgain \/ Recover \/ Build \/ SubmitRefused \/ SendFails)
    BY <1>1 DEF TakeOverflow, FollowUpFeedback, CheckBus, WaitInRecovery, StopController,
                StartController, RestartAgain, Recover, Build, SubmitRefused, SendFails, cbVars
  <1>10. ~UNCHANGED vars
    BY <1>1 DEF vars, cbVars
  <1> QED
    BY <1>2, <1>3, <1>4, <1>5, <1>6, <1>7, <1>8, <1>9, <1>10, Zenon DEF Next, IoThread

LEMMA SubmitStep ==
    ASSUME Inv, SubmitInv, [Next]_vars, NEW m \in Motors,
           ~inFlight.busy, inFlight'.busy, inFlight'.frame[m] = "Motion"
    PROVE  MayMove(motor[m], candidate.motors[m].command, expired[m])
  <1> DEFINE entry == candidate.motors[m]
  <1>1. Submit
    BY OnlySubmitSubmits
  <1>2. CapturedAuthority(entry)
    BY <1>1 DEF Submit, EndSubmit, Submitted, SubmitInv
  <1>3. StillAuthorised(m)
    BY <1>1, <1>2 DEF Submit, Authorised, CapturedAuthority
  <1> QED
    BY <1>2, <1>3 DEF CapturedAuthority, StillAuthorised, MayMove

(* No motion frame is handed to the controller on authority that is gone:  *)
(* disable(), a fault, an expired command, stale feedback or an invalidated*)
(* effort between capture and submission always stops it, for every number *)
(* of motors on a shared frame.                                            *)
THEOREM AuthorityHolds == Spec => MotionIsAuthorised
  <1> DEFINE Step == \A m \in Motors :
                ~inFlight.busy /\ inFlight'.busy /\ inFlight'.frame[m] = "Motion" =>
                    MayMove(motor[m], candidate.motors[m].command, expired[m])
  <1>1. Init => SubmitInv
    BY DEF Init, SubmitInv
  <1>2. Inv /\ SubmitInv /\ [Next]_vars => Step
    BY SubmitStep
  <1>3. MotionIsAuthorised <=> [][Step]_vars
    BY DEF MotionIsAuthorised
  <1> HIDE DEF Step
  <1>4. Spec => [][Step]_vars
    BY <1>1, <1>2, SubmitInvStep, Invariance, PTL DEF Spec
  <1> QED
    BY <1>3, <1>4

-----------------------------------------------------------------------------
(* Recovery is silent.                                                     *)

(* What the receive queue holds is never newer than the bus, and older     *)
(* while it recovers; the thread handles feedback and deadlines only while *)
(* it runs.                                                                *)
QueueInv == \A i \in DOMAIN rx.queue :
    /\ rx.queue[i].generation <= bus.generation
    /\ bus.state = "Recovering" => rx.queue[i].generation < bus.generation

RunningInv == pc \in {"AcceptFeedback", "FollowUp", "CheckMotors"} => bus.state = "Running"

SilenceInv == QueueInv /\ RunningInv /\ RecoveryIsSilent

Quiet(mt) == ~mt.output_permitted

LEMMA SectionsStayQuiet ==
    ASSUME NEW mt \in MotorRecord, Quiet(mt)
    PROVE  /\ Quiet(Enable(mt)) /\ Quiet(RequestDisable(mt)) /\ Quiet(InvalidateComputedEffort(mt))
           /\ \A computed, sampled : Quiet(Stage(mt, computed, sampled))
           /\ \A kind, generation, o : Quiet(MarkAttemptTxComplete(mt, kind, generation, o))
           /\ \A generation, o : Quiet(MarkStopped(mt, generation, o))
           /\ Quiet([mt EXCEPT !.feedback = "Stale"]) /\ Quiet([mt EXCEPT !.probe_sent = TRUE])
  BY DEF Quiet, MotorRecord, Enable, RequestDisable, InvalidateComputedEffort, Stage,
         MarkAttemptTxComplete, MarkStopped

LEMMA EnterRecoverySilence ==
    ASSUME Inv, SilenceInv, NEW back, EnterRecovery(back), rx'.queue = rx.queue
    PROVE  QueueInv' /\ RecoveryIsSilent' /\ pc' = back
  <1>1. bus \in [state : {"Running", "Recovering"}, generation : Nat,
                 started : BOOLEAN, restarted : BOOLEAN]
    BY DEF Inv, TypeOK, BusTypes
  <1>2. \A i \in DOMAIN rx.queue : rx.queue[i].generation \in Nat
    <2>1. rx.queue \in Seq(RxEvent)
      BY DEF Inv, TypeOK, RxTypes
    <2>2. \A i \in DOMAIN rx.queue : rx.queue[i] \in RxEvent
      BY <2>1
    <2> QED
      BY <2>2, Zenon DEF RxEvent
  <1>3. CASE bus.state = "Recovering"
    BY <1>3 DEF EnterRecovery, SilenceInv, QueueInv, RecoveryIsSilent
  <1>4. CASE bus.state # "Recovering"
    <2>1. bus'.generation = bus.generation + 1
      BY <1>1, <1>4 DEF EnterRecovery
    <2>2. QueueInv'
      BY <1>1, <1>2, <2>1 DEF SilenceInv, QueueInv
    <2>3. \A m \in Motors : ~RaiseFault(motor[m], "Communication").output_permitted
      BY MotorIsGood, RaiseFaultGood
    <2>4. RecoveryIsSilent'
      BY <1>4, <2>3 DEF EnterRecovery, RecoveryIsSilent
    <2> QED
      BY <1>4, <2>2, <2>4 DEF EnterRecovery
  <1> QED
    BY <1>3, <1>4

LEMMA OnRxSilence ==
    ASSUME Inv, QueueInv, NEW m \in Motors, NEW status, OnRx(m, status)
    PROVE  QueueInv'
  <1> DEFINE e == [motor |-> m, status |-> status, generation |-> bus.generation,
                   order |-> GivenOrder]
  <1>1. rx.queue \in Seq(RxEvent) /\ bus.generation \in Nat
    BY DEF Inv, TypeOK, RxTypes, BusTypes
  <1>2. bus' = bus
    BY DEF OnRx
  <1>3. CASE bus.state # "Running" \/ Len(rx.queue) = RxDepth
    <2>1. rx'.queue = rx.queue
      BY <1>3 DEF OnRx, Inv, TypeOK, RxTypes
    <2> QED
      BY <1>2, <2>1 DEF QueueInv
  <1>4. CASE ~(bus.state # "Running" \/ Len(rx.queue) = RxDepth)
    <2>1. rx' = [rx EXCEPT !.queue = Append(rx.queue, e)]
      BY <1>4 DEF OnRx
    <2>2. rx'.queue = Append(rx.queue, e)
      BY <2>1 DEF Inv, TypeOK, RxTypes
    <2>3. e.generation = bus.generation
      OBVIOUS
    <2> HIDE DEF e
    <2>4. \A i \in DOMAIN rx'.queue :
             \/ i \in DOMAIN rx.queue /\ rx'.queue[i] = rx.queue[i]
             \/ rx'.queue[i] = e
      BY <1>1, <2>2
    <2> QED
      BY <1>1, <1>2, <1>4, <2>3, <2>4 DEF QueueInv
  <1> QED
    BY <1>3, <1>4

LEMMA AppSilence ==
    ASSUME Inv, SilenceInv, App
    PROVE  SilenceInv'
  <1>1. UNCHANGED <<bus, cbVars, ioVars>>
    BY DEF App, CallEnable, CallDisable, CallInvalidate, CallSetter, Call, Commit
  <1>2. QueueInv' /\ RunningInv'
    BY <1>1 DEF SilenceInv, QueueInv, RunningInv, cbVars, ioVars
  <1>3. ASSUME NEW m \in Motors, Quiet(motor[m]) PROVE Quiet(motor'[m])
    <2>1. motor[m] \in MotorRecord /\ motor \in [Motors -> MotorRecord]
      BY DEF Inv, TypeOK, MotorTypes
    <2>2. /\ Quiet(Enable(motor[m])) /\ Quiet(RequestDisable(motor[m]))
          /\ Quiet(InvalidateComputedEffort(motor[m]))
          /\ \A computed, sampled : Quiet(Stage(motor[m], computed, sampled))
      BY <1>3, <2>1, SectionsStayQuiet
    <2>3. ASSUME NEW k \in Motors,
                 \/ CallEnable(k) \/ CallDisable(k) \/ CallInvalidate(k)
                 \/ \E computed \in BOOLEAN, sampled \in 0 .. MaxEnable : CallSetter(k, computed, sampled)
          PROVE  Quiet(motor'[m])
      BY <1>3, <2>1, <2>2, <2>3 DEF CallEnable, CallDisable, CallInvalidate, CallSetter, Call
    <2>4. CASE Commit
      BY <1>3, <2>4 DEF Commit
    <2> QED
      BY <2>3, <2>4 DEF App
  <1> QED
    BY <1>1, <1>2, <1>3 DEF SilenceInv, RecoveryIsSilent, Quiet

LEMMA EnvironmentSilence ==
    ASSUME Inv, SilenceInv, Environment
    PROVE  SilenceInv'
  <1>1. UNCHANGED <<bus, ioVars>>
    BY DEF Environment, Transmit, TxSucceeds, TxFails, DmReplies, DjiReports, FeedbackAges,
           CommandAges, DriveFaults, ControllerFails, BusOffEnds, OnRx, OnTxDone
  <1>2. \/ UNCHANGED rx
        \/ \E m \in Motors : (\E again \in BOOLEAN : DmReplies(m, again)) \/ DjiReports(m)
    BY DEF Environment, Transmit, TxSucceeds, TxFails, FeedbackAges,
           CommandAges, DriveFaults, ControllerFails, BusOffEnds, OnTxDone, cbVars
  <1>3. QueueInv'
    <2>1. CASE UNCHANGED rx
      BY <1>1, <2>1 DEF SilenceInv, QueueInv
    <2>2. ASSUME NEW m \in Motors,
                 (\E again \in BOOLEAN : DmReplies(m, again)) \/ DjiReports(m)
          PROVE  QueueInv'
      BY <2>2, OnRxSilence DEF DmReplies, DjiReports, SilenceInv
    <2> QED
      BY <1>2, <2>1, <2>2
  <1>4. RunningInv'
    BY <1>1 DEF SilenceInv, RunningInv, ioVars
  <1>5. \/ UNCHANGED motor \/ \E m \in Motors : FeedbackAges(m)
    BY DEF Environment, Transmit, TxSucceeds, TxFails, DmReplies, DjiReports,
           CommandAges, DriveFaults, ControllerFails, BusOffEnds, OnRx, OnTxDone
  <1>6. RecoveryIsSilent'
    <2>1. CASE UNCHANGED motor
      BY <1>1, <2>1 DEF SilenceInv, RecoveryIsSilent
    <2>2. ASSUME NEW m \in Motors, FeedbackAges(m) PROVE RecoveryIsSilent'
      <3>1. \A k \in Motors : motor'[k].output_permitted = motor[k].output_permitted
        BY <2>2 DEF FeedbackAges, Inv, TypeOK, MotorTypes, MotorRecord
      <3> QED
        BY <1>1, <3>1 DEF SilenceInv, RecoveryIsSilent
    <2> QED
      BY <1>5, <2>1, <2>2
  <1> QED
    BY <1>3, <1>4, <1>6 DEF SilenceInv

LEMMA ProcessTxSilence ==
    ASSUME Inv, SilenceInv, NEW late, ProcessTx(late)
    PROVE  SilenceInv'
  <1>1. UNCHANGED rx /\ pc' = "TakeOverflow"
    BY DEF ProcessTx, EnterRecovery
  <1>2. RunningInv'
    BY <1>1 DEF RunningInv
  <1>3. CASE EnterRecovery("TakeOverflow")
    BY <1>1, <1>2, <1>3, EnterRecoverySilence DEF SilenceInv
  <1>4. CASE UNCHANGED <<motor, bus>>
    BY <1>1, <1>2, <1>4 DEF SilenceInv, QueueInv, RecoveryIsSilent
  <1>5. CASE motor' = [m \in Motors |-> AfterCompletion(m)] /\ UNCHANGED bus
    <2>1. ASSUME NEW m \in Motors, Quiet(motor[m]) PROVE Quiet(AfterCompletion(m))
      BY <2>1, SectionsStayQuiet DEF AfterCompletion, Inv, TypeOK, MotorTypes
    <2> QED
      BY <1>1, <1>2, <1>5, <2>1 DEF SilenceInv, QueueInv, RecoveryIsSilent, Quiet
  <1> QED
    BY <1>3, <1>4, <1>5 DEF ProcessTx

LEMMA ProcessRxSilence ==
    ASSUME Inv, SilenceInv, NEW gap, NEW sameMs, NEW retryDue, ProcessRx(gap, sameMs, retryDue)
    PROVE  SilenceInv'
  <1> DEFINE e == Head(rx.queue)
  <1>1. rx.queue \in Seq(RxEvent) /\ rx.queue # <<>> /\ bus' = bus
    BY DEF ProcessRx, Inv, TypeOK, RxTypes
  <1>2. rx'.queue = Tail(rx.queue)
    BY DEF ProcessRx, Inv, TypeOK, RxTypes
  <1>3. \A i \in DOMAIN rx'.queue : i + 1 \in DOMAIN rx.queue /\ rx'.queue[i] = rx.queue[i + 1]
    <2>1. \A q \in Seq(RxEvent) : q # <<>> =>
             \A i \in DOMAIN Tail(q) : i + 1 \in DOMAIN q /\ Tail(q)[i] = q[i + 1]
      OBVIOUS
    <2> QED
      BY <1>1, <1>2, <2>1
  <1>4. QueueInv'
    BY <1>1, <1>3 DEF SilenceInv, QueueInv
  <1>5. e = rx.queue[1] /\ 1 \in DOMAIN rx.queue
    BY <1>1
  <1>6. CASE e.generation # bus.generation
    <2>1. UNCHANGED <<motor, pc>>
      BY <1>6 DEF ProcessRx
    <2> QED
      BY <1>1, <1>4, <2>1 DEF SilenceInv, RunningInv, RecoveryIsSilent
  <1>7. CASE e.generation = bus.generation
    <2>1. bus.state = "Running"
      BY <1>5, <1>7 DEF SilenceInv, QueueInv, Inv, TypeOK, BusTypes
    <2> QED
      BY <1>1, <1>4, <2>1 DEF SilenceInv, RunningInv, RecoveryIsSilent
  <1> QED
    BY <1>6, <1>7

(* The steps that leave the queue alone and run only on a running bus, or  *)
(* leave the bus and the motors alone.                                     *)
LEMMA SilentThreadStep ==
    ASSUME Inv, SilenceInv, UNCHANGED rx,
           \/ bus.state = "Running" /\ UNCHANGED bus
           \/ UNCHANGED <<bus, motor>> /\ pc' \notin {"AcceptFeedback", "FollowUp", "CheckMotors"}
    PROVE  SilenceInv'
  <1>1. QueueInv'
    BY DEF SilenceInv, QueueInv
  <1>2. RunningInv' /\ RecoveryIsSilent'
    BY DEF SilenceInv, RunningInv, RecoveryIsSilent
  <1> QED
    BY <1>1, <1>2 DEF SilenceInv

LEMMA RecoveringSilence ==
    ASSUME Inv, SilenceInv,
           WaitInRecovery \/ StopController \/ StartController \/ RestartAgain \/ Recover
    PROVE  SilenceInv'
  <1>1. UNCHANGED <<rx, motor>> /\ pc' = "ProcessTx"
    BY DEF WaitInRecovery, StopController, StartController, RestartAgain, Recover, Recovering, cbVars
  <1>2. bus'.generation = bus.generation /\ bus'.state \in {bus.state, "Running"}
    BY DEF WaitInRecovery, StopController, StartController, RestartAgain, Recover,
           Inv, TypeOK, BusTypes
  <1> QED
    BY <1>1, <1>2 DEF SilenceInv, QueueInv, RunningInv, RecoveryIsSilent

LEMMA BuildSilence ==
    ASSUME Inv, SilenceInv, Build
    PROVE  SilenceInv'
  <1>1. UNCHANGED <<rx, bus>> /\ pc' \notin {"AcceptFeedback", "FollowUp", "CheckMotors"}
    BY DEF Build, cbVars, Inv, TypeOK, ThreadTypes, Candidate, PumpStage
  <1>2. ASSUME NEW m \in Motors, Quiet(motor[m]) PROVE Quiet(motor'[m])
    BY <1>2, SectionsStayQuiet DEF Build, Inv, TypeOK, MotorTypes
  <1> QED
    BY <1>1, <1>2 DEF SilenceInv, QueueInv, RunningInv, RecoveryIsSilent, Quiet

LEMMA SilenceStep ==
    Inv /\ SilenceInv /\ [Next]_vars => SilenceInv'
  <1> SUFFICES ASSUME Inv, SilenceInv, [Next]_vars PROVE SilenceInv'
    OBVIOUS
  <1>1. CASE UNCHANGED vars
    BY <1>1 DEF vars, cbVars, ioVars, SilenceInv, QueueInv, RunningInv, RecoveryIsSilent
  <1>2. CASE TakeOverflow
    <2>1. rx'.queue = rx.queue /\ pc' = "ProcessRx"
      BY <1>2 DEF TakeOverflow, EnterRecovery, Inv, TypeOK, RxTypes
    <2>2. CASE EnterRecovery("ProcessRx")
      BY <2>1, <2>2, EnterRecoverySilence DEF SilenceInv, RunningInv
    <2>3. CASE UNCHANGED <<motor, bus>>
      BY <2>1, <2>3 DEF SilenceInv, QueueInv, RunningInv, RecoveryIsSilent
    <2> QED
      BY <1>2, <2>2, <2>3 DEF TakeOverflow
  <1>3. ASSUME NEW sameMs, NEW retryDue, AcceptFeedback(sameMs, retryDue) PROVE SilenceInv'
    BY <1>3, SilentThreadStep DEF AcceptFeedback, cbVars, SilenceInv, RunningInv
  <1>4. CASE FollowUpFeedback
    BY <1>4, SilentThreadStep DEF FollowUpFeedback, cbVars, SilenceInv, RunningInv
  <1>5. CASE CheckBus
    BY <1>5, EnterRecoverySilence DEF CheckBus, cbVars, SilenceInv, RunningInv
  <1>6. ASSUME NEW m \in Motors, NEW timeout, NEW due, NEW late, CheckMotor(m, timeout, due, late)
        PROVE  SilenceInv'
    <2>1. bus.state = "Running"
      BY <1>6 DEF CheckMotor, Unchecked, SilenceInv, RunningInv
    <2> QED
      BY <1>6, <2>1, SilentThreadStep DEF CheckMotor, cbVars
  <1>7. CASE WaitInRecovery \/ StopController \/ StartController \/ RestartAgain \/ Recover
    BY <1>7, RecoveringSilence
  <1>8. ASSUME NEW due, Pump(due) PROVE SilenceInv'
    <2>1. pc' \in {"Build", "ProcessTx"}
      BY <1>8 DEF Pump, TakeProtocol, TakeTarget, Take, EndPump
    <2> QED
      BY <1>8, <2>1, SilentThreadStep DEF Pump, cbVars
  <1>9. CASE Build
    BY <1>9, BuildSilence
  <1>10. CASE Submit \/ SubmitRefused
    <2>1. pc' = "ProcessTx" /\ UNCHANGED <<motor, bus, rx>>
      BY <1>10 DEF Submit, SubmitRefused, EndSubmit
    <2> QED
      BY <2>1, SilentThreadStep
  <1>11. CASE SendFails
    BY <1>11, EnterRecoverySilence DEF SendFails, EndSubmit, SilenceInv, RunningInv
  <1>12. CASE IoThread
    BY <1>2, <1>3, <1>4, <1>5, <1>6, <1>7, <1>8, <1>9, <1>10, <1>11, <1>12, ProcessTxSilence,
       ProcessRxSilence, Zenon DEF IoThread
  <1> QED
    BY <1>1, <1>12, AppSilence, EnvironmentSilence DEF Next

(* While a bus recovers no motor of it may move, and no confirmation that  *)
(* was queued before the fault lets one: whatever the depth of the queue   *)
(* and however often the bus fails.                                        *)
THEOREM SilentRecovery == Spec => []RecoveryIsSilent
  <1>1. Init => SilenceInv
    BY DEF Init, SilenceInv, QueueInv, RunningInv, RecoveryIsSilent
  <1>2. Spec => []SilenceInv
    BY <1>1, SilenceStep, Invariance, PTL DEF Spec
  <1>3. SilenceInv => RecoveryIsSilent
    BY DEF SilenceInv
  <1> QED
    BY <1>2, <1>3, PTL
=============================================================================
