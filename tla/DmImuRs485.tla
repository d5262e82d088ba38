------------------------------ MODULE DmImuRs485 ------------------------------
(***************************************************************************)
(* DmImuRs485Source with the DmImuRs485Parser (drivers/imu/dm_imu_rs485    *)
(* .cpp, dm_imu_protocol.cpp) over AsyncUart: requests of one register at  *)
(* a time, replies that carry no number, and the inertial unit, whose zero *)
(* is moved by hand.                                                       *)
(*                                                                         *)
(* A reply is queued and read as a whole: what the parser has half read is *)
(* discarded with every gap and before every request, so it never reaches  *)
(* the next one.  The step of time is the millisecond of the UART's stamp. *)
(***************************************************************************)
EXTENDS Naturals, Sequences

CONSTANTS
    ReplyTimeout, \* response_timeout_us
    UartRetry,    \* 100 ms in the code
    MaxRetries,   \* max_retries
    ReplyLatency, \* from the measurement to the stamp of the last chunk
    Horizon,      \* bound: the end of time
    MaxZeros,     \* bound: how often the zero of the unit is moved
    MaxUpsets     \* bound: failures of the UART

Attitude == 3
Unasked  == 9 \* none of the registers
Interval == 1
Nothing == [epoch |-> 0, zeros |-> 0]

VARIABLES
    now,
    session, \* config_.reference.epoch
    query,   \* phase_, rid_, retries_ and the times of the request
    serial,  \* the UART: up, its transmission, the replies received, the gap
    service, \* service() is at its receive loop
    sensor,  \* the unit: its zero, a request to answer, the reply under way
    attitude,\* the orientation published last: its epoch, the zero it was measured with
    upsets

rsVars == <<now, session, query, serial, service, sensor, attitude, upsets>>

Init ==
    /\ now = 0 /\ session = 1
    /\ query = [phase |-> "Idle", rid |-> Attitude, retries |-> 0, request |-> 0,
                deadline |-> 0, next |-> 0, retry |-> 0]
    /\ service = FALSE
    /\ serial = [up |-> TRUE, tx |-> "Idle", queue |-> <<>>, gap |-> FALSE]
    /\ sensor = [zeros |-> 1, asked |-> Unasked, sent |-> <<>>]
    /\ attitude = Nothing /\ upsets = 0

Upset == upsets < MaxUpsets /\ upsets' = upsets + 1

-----------------------------------------------------------------------------
(* The unit and the wires.                                                 *)
MoveZero ==
    /\ sensor.zeros <= MaxZeros /\ sensor' = [sensor EXCEPT !.zeros = @ + 1]
    /\ UNCHANGED <<now, session, query, serial, service, attitude, upsets>>

Answer ==
    /\ sensor.asked # Unasked /\ sensor.sent = <<>>
    /\ sensor' = [sensor EXCEPT !.asked = Unasked,
                    !.sent = <<[rid |-> sensor.asked, zeros |-> sensor.zeros, stamp |-> now + ReplyLatency]>>]
    /\ UNCHANGED <<now, session, query, serial, service, attitude, upsets>>

(* A reply is queued with its stamp, or it is lost and the gap announced.  *)
Arrive ==
    /\ sensor.sent # <<>> /\ sensor' = [sensor EXCEPT !.sent = Tail(@)]
    /\ \/ serial.up /\ UNCHANGED upsets
          /\ serial' = [serial EXCEPT !.queue = Append(@, [Head(sensor.sent) EXCEPT !.stamp = now])]
       \/ Upset /\ serial' = [serial EXCEPT !.queue = <<>>, !.gap = TRUE]
    /\ UNCHANGED <<now, session, query, service, attitude>>

(* The request has left, or its transmission failed.                       *)
Transmitted ==
    /\ serial.tx = "Busy"
    /\ \/ /\ serial' = [serial EXCEPT !.tx = "Idle"] /\ UNCHANGED upsets
          /\ sensor' = [sensor EXCEPT !.asked = query.rid]
       \/ Upset /\ serial' = [serial EXCEPT !.tx = "Failed"] /\ UNCHANGED sensor
    /\ UNCHANGED <<now, session, query, service, attitude>>

UartDown ==
    /\ serial.up /\ Upset
    /\ serial' = [up |-> FALSE, queue |-> <<>>, gap |-> TRUE,
                  tx |-> IF serial.tx = "Busy" THEN "Failed" ELSE serial.tx]
    /\ UNCHANGED <<now, session, query, service, sensor, attitude>>

Tick ==
    /\ now < Horizon /\ \A i \in DOMAIN sensor.sent : now < sensor.sent[i].stamp
    /\ now' = now + 1
    /\ UNCHANGED <<session, query, serial, service, sensor, attitude, upsets>>

-----------------------------------------------------------------------------
(* finishRequest(): the same register again, or the next of the three.     *)
NextRegister(rid) == CASE rid = 3 -> 1 [] rid = 1 -> 0 [] OTHER -> Attitude

Finished(q, retry) ==
    LET again == retry /\ q.retries < MaxRetries
    IN  [q EXCEPT !.phase = "Idle", !.next = now + Interval,
                  !.retries = IF again THEN @ + 1 ELSE 0,
                  !.rid = IF again THEN @ ELSE NextRegister(@)]

Ended(q) == IF q.phase = "Idle" THEN q ELSE Finished(q, TRUE)

(* service() while the UART is down: it fails, and may be back thereafter. *)
ServiceFails ==
    /\ ~service /\ query.retry <= now /\ ~serial.up
    /\ query' = [Ended(query) EXCEPT !.retry = now + UartRetry]
    /\ serial' = [serial EXCEPT !.up = TRUE]
    /\ UNCHANGED <<now, session, service, sensor, attitude, upsets>>

(* service() up to the receive loop: a reply that is already queued waits  *)
(* until the transmission is seen to have ended.                           *)
BeginService ==
    /\ ~service /\ query.retry <= now /\ serial.up
    /\ IF query.phase # "Sending" THEN UNCHANGED <<query, serial>>
       ELSE /\ serial.tx # "Busy" /\ serial' = [serial EXCEPT !.tx = "Idle"]
            /\ IF serial.tx = "Failed" THEN query' = Finished(query, TRUE)
               ELSE query' = [query EXCEPT !.phase = "AwaitReply", !.deadline = now + ReplyTimeout]
    /\ service' = TRUE
    /\ UNCHANGED <<now, session, sensor, attitude, upsets>>

(* acceptDmRs485(): the reply answers the open request.                    *)
Accepts(reply) ==
    /\ query.phase = "AwaitReply" /\ reply.rid = query.rid
    /\ reply.stamp >= query.request /\ reply.stamp <= query.deadline

(* The receive loop: a gap or a reply.  One that reports an error ends the *)
(* request, but nothing is published.                                      *)
ReadGap ==
    /\ service /\ serial.gap
    /\ serial' = [serial EXCEPT !.gap = FALSE] /\ query' = Ended(query)
    /\ UNCHANGED <<now, session, service, sensor, attitude, upsets>>

ReadReply ==
    LET reply == Head(serial.queue)
    IN  /\ service /\ ~serial.gap /\ serial.queue # <<>>
        /\ serial' = [serial EXCEPT !.queue = Tail(@)]
        /\ query' = IF Accepts(reply) THEN Finished(query, FALSE) ELSE query
        /\ \/ UNCHANGED attitude
           \/ /\ Accepts(reply) /\ reply.rid = Attitude
              /\ attitude' = [epoch |-> session, zeros |-> reply.zeros]
        /\ UNCHANGED <<now, session, service, sensor, upsets>>

(* service() after the loop: the timeout, then the next request.           *)
EndService ==
    LET late == query.phase = "AwaitReply" /\ query.deadline <= now
        open == IF late THEN Finished(query, TRUE) ELSE query
        due  == open.phase = "Idle" /\ serial.tx = "Idle" /\ open.next <= now
    IN  /\ service /\ service' = FALSE
        /\ IF due /\ serial.up
           THEN /\ query' = [open EXCEPT !.phase = "Sending", !.request = now]
                /\ serial' = [serial EXCEPT !.tx = "Busy"]
           ELSE query' = open /\ UNCHANGED serial
        /\ UNCHANGED <<now, session, sensor, attitude, upsets>>

(* resetReference(): an open request is forgotten, and no other is made    *)
(* until its reply must have arrived.                                      *)
Settled == now + ReplyTimeout

ResetReference ==
    /\ session < sensor.zeros /\ ~service
    /\ session' = session + 1
    /\ query' = [query EXCEPT !.phase = "Idle", !.retries = 0, !.next = Settled]
    /\ attitude' = Nothing
    /\ UNCHANGED <<now, serial, service, sensor, upsets>>

Next ==
    \/ ServiceFails \/ BeginService \/ ReadGap \/ ReadReply \/ EndService \/ ResetReference
    \/ MoveZero \/ Answer \/ Arrive \/ Transmitted \/ UartDown \/ Tick

Spec == Init /\ [][Next]_rsVars

-----------------------------------------------------------------------------
(* The phases and the registers; service() waits out the retry time.       *)
TypeOK ==
    /\ query.phase \in {"Idle", "Sending", "AwaitReply"} /\ query.rid \in {0, 1, Attitude}
    /\ query.retries <= MaxRetries
    /\ service => query.retry <= now

(* No orientation is published under an epoch of the reference that the    *)
(* unit measured before its zero moved to it: the reply to a request of    *)
(* the former epoch is never taken for an answer to a request of this one. *)
ReplyIsOfItsEpoch == attitude.zeros >= attitude.epoch
=============================================================================
