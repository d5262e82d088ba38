------------------------------- MODULE DmImuCan -------------------------------
(***************************************************************************)
(* DmImuCanSource (drivers/imu/dm_imu_can.cpp) and the ImuState it         *)
(* publishes to: the receiver thread that calls service() and              *)
(* resetReference(), the callbacks onRx() and onTx() in interrupt context, *)
(* the controller, and the inertial unit, whose zero is moved by hand.     *)
(*                                                                         *)
(* Frames that are no report are only counted and are left out.  Time is   *)
(* counted in steps of the request interval.                               *)
(***************************************************************************)
EXTENDS Naturals, Sequences

CONSTANTS
    ResponseTimeout, \* response_timeout_us
    RecoveryRetry,   \* recovery_retry_us
    MaxRetries,      \* max_retries
    RxDepth,         \* rx_depth
    WireLatency,     \* from the measurement of a report to onRx()
    Horizon,         \* bound: the end of time
    MaxZeros,        \* bound: how often the zero of the unit is moved
    MaxSent,         \* bound: reports under way at once
    MaxUpsets        \* bound: failures of the controller

Interval == 1
Attitude == 4
NoReport == [epoch |-> 0, zeros |-> 0, start |-> 0]

VARIABLES
    now,
    imu,     \* mode_ of the configuration; the controller: Unowned, Running, Failed, Stopped
    epoch,   \* config_.reference.epoch and accept_after_us_
    ask,     \* the request: rid_, retries_, its times, awaiting_reply_, in_flight_
    imu_tx,  \* tx_done_, tx_error_ and tx_finished_us_
    reports, \* rx_ and rx_gap_
    report,  \* the orientation published last, and what it was made of
    busy,    \* service() is at its receive loop
    bus,     \* the controller: up, the request it holds, how often it was started
    unit     \* the inertial unit: its zero, a request to answer, the reports under way

imuVars == <<now, imu, epoch, ask, imu_tx, reports, report, busy, bus, unit>>

Init ==
    /\ now = 0
    /\ imu \in [request : BOOLEAN, mode : {"Unowned"}, retry : {0}]
    /\ epoch = [number |-> 1, after |-> 0]
    /\ ask = [rid |-> Attitude, retries |-> 0, deadline |-> 0, next |-> 0,
              awaiting |-> FALSE, in_flight |-> FALSE]
    /\ imu_tx = [done |-> "No", at |-> 0]
    /\ reports = [queue |-> <<>>, gap |-> FALSE] /\ report = NoReport
    /\ busy = FALSE
    /\ bus = [up |-> FALSE, frame |-> 0, starts |-> 0, upsets |-> 0]
    /\ unit = [zeros |-> 1, asked |-> 0, sent |-> <<>>]

Upset == bus.upsets < MaxUpsets

-----------------------------------------------------------------------------
(* The unit: its zero is moved; it measures, on its own or when asked     *)
(* (the two vectors alike); a report arrives or is lost.                   *)
MoveZero ==
    /\ unit.zeros <= MaxZeros /\ unit' = [unit EXCEPT !.zeros = @ + 1]
    /\ UNCHANGED <<now, imu, epoch, ask, imu_tx, reports, report, busy, bus>>

Measure ==
    /\ Len(unit.sent) < MaxSent
    /\ \E rid \in IF imu.request THEN {unit.asked} \ {0} ELSE {1, Attitude} :
          unit' = [unit EXCEPT !.asked = 0,
                     !.sent = Append(@, [rid |-> rid, zeros |-> unit.zeros, due |-> now + WireLatency])]
    /\ UNCHANGED <<now, imu, epoch, ask, imu_tx, reports, report, busy, bus>>

(* onRx(): accept_rx_ is set exactly while the controller runs; a full     *)
(* ring is dropped as a whole.                                             *)
Received(ring, event) ==
    IF Len(ring.queue) = RxDepth THEN [queue |-> <<event>>, gap |-> TRUE]
    ELSE [ring EXCEPT !.queue = Append(@, event)]

ImuRx ==
    /\ unit.sent # <<>> /\ unit' = [unit EXCEPT !.sent = Tail(@)]
    /\ \/ UNCHANGED reports
       \/ /\ bus.up /\ imu.mode = "Running"
          /\ LET frame == Head(unit.sent)
             IN  reports' = Received(reports, [rid |-> frame.rid, zeros |-> frame.zeros,
                                               start |-> bus.starts, at |-> now])
    /\ UNCHANGED <<now, imu, epoch, ask, imu_tx, report, busy, bus>>

(* onTx(): the request is carried, or it failed.                           *)
ImuTx ==
    /\ bus.frame # 0
    /\ \/ /\ bus.up /\ unit' = [unit EXCEPT !.asked = bus.frame]
          /\ imu_tx' = [done |-> "Sent", at |-> now] /\ bus' = [bus EXCEPT !.frame = 0]
       \/ /\ imu_tx' = [done |-> "Failed", at |-> now] /\ UNCHANGED unit
          /\ IF bus.up THEN Upset /\ bus' = [bus EXCEPT !.frame = 0, !.upsets = @ + 1]
             ELSE bus' = [bus EXCEPT !.frame = 0]
    /\ UNCHANGED <<now, imu, epoch, ask, reports, report, busy>>

ImuBusOff ==
    /\ bus.up /\ Upset /\ bus' = [bus EXCEPT !.up = FALSE, !.upsets = @ + 1]
    /\ UNCHANGED <<now, imu, epoch, ask, imu_tx, reports, report, busy, unit>>

(* Time passes; a report is under way no longer than WireLatency.          *)
ImuTick ==
    /\ now < Horizon /\ \A i \in DOMAIN unit.sent : now < unit.sent[i].due
    /\ now' = now + 1
    /\ UNCHANGED <<imu, epoch, ask, imu_tx, reports, report, busy, bus, unit>>

-----------------------------------------------------------------------------
ClearRx == reports' = [queue |-> <<>>, gap |-> FALSE]

(* fail(): the controller may still hold the request.                      *)
ImuFail(in_flight) ==
    /\ imu' = [imu EXCEPT !.mode = "Failed", !.retry = now + RecoveryRetry]
    /\ ask' = [ask EXCEPT !.awaiting = FALSE, !.in_flight = in_flight]
    /\ ClearRx /\ busy' = FALSE

(* startController() and the end of recover(): can_start() may fail.       *)
Started ==
    /\ imu.retry <= now
    /\ \/ /\ bus' = [bus EXCEPT !.up = TRUE, !.starts = @ + 1]
          /\ imu' = [imu EXCEPT !.mode = "Running", !.retry = now + RecoveryRetry]
       \/ Upset /\ bus' = [bus EXCEPT !.upsets = @ + 1] /\ imu' = [imu EXCEPT !.retry = now + RecoveryRetry]
    /\ ClearRx

StartUnit ==
    /\ imu.mode = "Unowned" /\ Started
    /\ UNCHANGED <<now, epoch, ask, imu_tx, report, busy, unit>>

StopUnit ==
    /\ imu.mode = "Failed" /\ imu' = [imu EXCEPT !.mode = "Stopped"]
    /\ bus' = [bus EXCEPT !.up = FALSE]
    /\ UNCHANGED <<now, epoch, ask, imu_tx, reports, report, busy, unit>>

(* Mutant of MayReuse: the canceled request is taken for retired.          *)
ReuseAtOnce == TRUE
MayReuse == ~ask.in_flight \/ imu_tx.done # "No"

Recover ==
    /\ imu.mode = "Stopped" /\ MayReuse
    /\ imu_tx' = [imu_tx EXCEPT !.done = "No"]
    /\ \/ /\ imu.retry > now /\ ask' = [ask EXCEPT !.in_flight = FALSE] /\ UNCHANGED <<imu, bus, reports>>
       \/ /\ Started
          /\ ask' = IF imu'.mode = "Running"
                    THEN [ask EXCEPT !.in_flight = FALSE, !.retries = 0, !.rid = Attitude,
                                     !.next = now + Interval]
                    ELSE [ask EXCEPT !.in_flight = FALSE]
    /\ UNCHANGED <<now, epoch, report, busy, unit>>

-----------------------------------------------------------------------------
(* finishRequest(): the same register again, or the next of the three.     *)
NextRegister(rid) == CASE rid = 1 -> Attitude [] rid = 2 -> 1 [] OTHER -> 2

Finished(a, retry) ==
    LET again == retry /\ a.retries < MaxRetries
    IN  [a EXCEPT !.awaiting = FALSE, !.next = now + Interval,
                  !.retries = IF again THEN @ + 1 ELSE 0,
                  !.rid = IF again THEN @ ELSE NextRegister(@)]

(* service() up to the receive loop.                                       *)
BeginService ==
    LET done == ask.in_flight /\ imu_tx.done # "No"
    IN  /\ imu.mode = "Running" /\ ~busy
        /\ imu_tx' = IF bus.up /\ done THEN [imu_tx EXCEPT !.done = "No"] ELSE imu_tx
        /\ CASE ~bus.up -> ImuFail(ask.in_flight)
             [] bus.up /\ done /\ imu_tx.done = "Failed" -> ImuFail(FALSE)
             [] bus.up /\ done /\ imu_tx.done = "Sent" ->
                  /\ ask' = [ask EXCEPT !.in_flight = FALSE, !.awaiting = TRUE,
                                        !.deadline = imu_tx.at + ResponseTimeout]
                  /\ busy' = TRUE /\ UNCHANGED <<imu, reports>>
             [] OTHER ->
                  IF ask.in_flight
                  THEN now >= ask.deadline /\ ImuFail(TRUE)
                  ELSE busy' = TRUE /\ UNCHANGED <<imu, ask, reports>>
        /\ UNCHANGED <<now, epoch, report, bus, unit>>

(* consume(): what the reset of the reference, or the lack of a request,   *)
(* makes it ignore.                                                        *)
Ignored(a, event) ==
    \/ event.at <= epoch.after
    \/ imu.request /\ (~a.awaiting \/ event.rid # a.rid \/ event.at > a.deadline)

(* One event of the ring, and the gap before it, which ends the request.   *)
Consume ==
    LET event == Head(reports.queue)
        open  == IF reports.gap /\ ask.awaiting THEN Finished(ask, TRUE) ELSE ask
        taken == ~Ignored(open, event)
    IN  /\ busy /\ reports.queue # <<>>
        /\ reports' = [queue |-> Tail(reports.queue), gap |-> FALSE]
        /\ ask' = IF taken /\ imu.request THEN Finished(open, FALSE) ELSE open
        /\ report' = IF taken /\ event.rid = Attitude
                     THEN [epoch |-> epoch.number, zeros |-> event.zeros, start |-> event.start]
                     ELSE report
        /\ UNCHANGED <<now, imu, epoch, imu_tx, busy, bus, unit>>

(* service() after the loop: the timeout, and the next request.            *)
EndService ==
    LET open == IF ask.awaiting /\ now >= ask.deadline THEN Finished(ask, TRUE) ELSE ask
        due  == imu.request /\ ~open.awaiting /\ now >= open.next
    IN  /\ busy
        /\ \/ ~due /\ ask' = open /\ busy' = FALSE /\ UNCHANGED <<imu, imu_tx, reports, bus>>
           \/ /\ due /\ bus.up /\ busy' = FALSE
              /\ ask' = [open EXCEPT !.deadline = now + ResponseTimeout, !.in_flight = TRUE]
              /\ bus' = [bus EXCEPT !.frame = open.rid]
              /\ imu_tx' = [imu_tx EXCEPT !.done = "No"] /\ ClearRx /\ UNCHANGED imu
           \/ due /\ ~bus.up /\ ImuFail(FALSE) /\ UNCHANGED <<imu_tx, bus>>
        /\ UNCHANGED <<now, epoch, report, unit>>

(* resetReference(), called once the zero of the unit has moved.           *)
ResetReference ==
    /\ epoch.number < unit.zeros /\ ~busy /\ ~ask.in_flight /\ ~ask.awaiting
    /\ epoch' = [number |-> epoch.number + 1, after |-> now + ResponseTimeout]
    /\ ask' = [ask EXCEPT !.retries = 0, !.next = now + ResponseTimeout + Interval]
    /\ ClearRx /\ report' = NoReport
    /\ UNCHANGED <<now, imu, imu_tx, busy, bus, unit>>

Next ==
    \/ StartUnit \/ StopUnit \/ Recover \/ BeginService \/ Consume \/ EndService
    \/ ResetReference
    \/ MoveZero \/ Measure \/ ImuRx \/ ImuTx \/ ImuBusOff \/ ImuTick

Spec == Init /\ [][Next]_imuVars

-----------------------------------------------------------------------------
(* The ring is bounded, and service() reads it only while the source runs. *)
TypeOK ==
    /\ Len(reports.queue) <= RxDepth /\ (busy => imu.mode = "Running")
    /\ ask.retries <= MaxRetries /\ ask.rid \in {1, 2, Attitude}
    /\ ~(ask.awaiting /\ ask.in_flight)

(* The frame and the context of a request are not used again while the     *)
(* driver may still call back for it.                                      *)
RequestIsRetired == bus.frame # 0 <=> ask.in_flight /\ imu_tx.done = "No"

(* An orientation is published under a reference epoch only when the unit  *)
(* measured it after the zero had moved to that epoch: what was under way  *)
(* or queued at resetReference() never passes for a new measurement.       *)
EpochIsTrue == report.zeros >= report.epoch

(* What is published was received since the controller was started last:   *)
(* a fault leaves nothing behind that comes out after the recovery.        *)
PublishesOfThisStart == report' # report => report'.start \in {0, bus.starts}
=============================================================================
