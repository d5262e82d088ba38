------------------------------ MODULE ImuHeating ------------------------------
(***************************************************************************)
(* The worker of ImuReceiver with an ImuHeater (drivers/imu/imu_receiver   *)
(* .cpp, imu_heater.cpp): it services the source, takes the temperature    *)
(* from the snapshot of ImuState (imu_state.cpp) and updates the heater.   *)
(* The source may be any; its faults are those of Bmi088Imu and of the DM  *)
(* units.  The step of time is the poll interval.                          *)
(***************************************************************************)
EXTENDS Naturals

CONSTANTS
    FreshFor,      \* freshness of the temperature, temperature_timeout_us
    ControlPeriod, \* control_period_us
    MaxDt,         \* pid.dt_max_s
    MaxLate,       \* how late the worker may run
    MaxFailures    \* bound: writes of the PWM that fail

Forever == FreshFor + MaxLate + 2 \* where the ages stop to count

VARIABLES
    die,      \* the temperature of the unit, and for how long it has been too hot
    source,   \* ImuState: whether it runs, the temperature and its age
    worker,   \* where run() is, and for how long it has not run
    heater,   \* have_time_ and the time since previous_us_
    pwm,      \* what the PWM puts out
    recorded, \* status_.duty and status_.disable_error
    failures

heatVars == <<die, source, worker, heater, pwm, recorded, failures>>

Init ==
    /\ die = [value |-> "Cold", hot |-> 0] /\ source = [up |-> TRUE, value |-> "None", age |-> 0]
    /\ worker = [pc |-> "Service", late |-> 0] /\ heater = [timed |-> FALSE, since |-> 0]
    /\ pwm = 0 /\ recorded = [duty |-> 0, error |-> FALSE] /\ failures = 0

-----------------------------------------------------------------------------
(* service() of the source: a new temperature, none, a fault or its end.   *)
Service ==
    /\ worker.pc = "Service" /\ worker' = [worker EXCEPT !.pc = "Heat"]
    /\ \/ UNCHANGED source
       \/ source' = [up |-> TRUE, value |-> die.value, age |-> 0]
       \/ \E up \in BOOLEAN : source' = [source EXCEPT !.up = up]
    /\ UNCHANGED <<die, heater, pwm, recorded, failures>>

(* pwm_set_dt() may fail, and then leaves the output as it is.             *)
Written(duty, ok) ==
    /\ ok \/ failures < MaxFailures
    /\ failures' = IF ok THEN failures ELSE failures + 1
    /\ pwm' = IF ok THEN duty ELSE pwm

(* fail(): the output is turned off, and the controller forgets its past.  *)
Off ==
    \E ok \in BOOLEAN :
        /\ Written(0, ok) /\ recorded' = [duty |-> IF ok THEN 0 ELSE recorded.duty, error |-> ~ok]
        /\ heater' = [heater EXCEPT !.timed = FALSE]

(* control_pid_step(), pwm_set_dt() and record().                          *)
Drive ==
    \/ /\ ~(heater.timed /\ heater.since > MaxDt)
       /\ \E duty \in {0, 1} :
            /\ Written(duty, TRUE) /\ recorded' = [duty |-> duty, error |-> FALSE]
            /\ heater' = [timed |-> TRUE, since |-> 0]
    \/ heater.timed /\ heater.since > MaxDt /\ Off
    \/ failures < MaxFailures /\ Off \* the write has failed

(* What snapshot() calls fresh, and update() in range.                     *)
Usable == source.up /\ source.value \notin {"None", "Hot"} /\ source.age <= FreshFor

Update ==
    /\ worker.pc = "Heat" /\ worker' = [pc |-> "Sleep", late |-> 0]
    /\ IF ~Usable THEN Off
       ELSE IF heater.timed /\ heater.since < ControlPeriod
       THEN UNCHANGED <<heater, pwm, recorded, failures>>
       ELSE Drive
    /\ UNCHANGED <<die, source>>

-----------------------------------------------------------------------------
(* Time passes, the unit warms up or cools; the worker sleeps, or is late. *)
Counted(n) == IF n < Forever THEN n + 1 ELSE n

Tick ==
    /\ worker.late < MaxLate
    /\ worker' = [pc |-> IF worker.pc = "Sleep" THEN "Service" ELSE worker.pc, late |-> worker.late + 1]
    /\ \E value \in {"Cold", "Hot"} :
          die' = [value |-> value, hot |-> IF value = "Hot" THEN Counted(die.hot) ELSE 0]
    /\ source' = [source EXCEPT !.age = Counted(@)]
    /\ heater' = [heater EXCEPT !.since = Counted(@)]
    /\ UNCHANGED <<pwm, recorded, failures>>

Next == Service \/ Update \/ Tick

Spec == Init /\ [][Next]_heatVars

-----------------------------------------------------------------------------
(* The places of run().                                                    *)
TypeOK == worker.pc \in {"Service", "Heat", "Sleep"} /\ pwm \in {0, 1} /\ worker.late <= MaxLate

(* A unit that is too hot is not heated for longer than its temperature    *)
(* passes for fresh and the worker is late, whatever the sensor, its bus   *)
(* and the source do, unless the last attempt to turn it off has failed.   *)
HotIsOff == die.hot > FreshFor + MaxLate /\ pwm > 0 => recorded.error

(* status() tells what the PWM puts out, also after a write has failed.    *)
StatusIsTrue == recorded.duty = pwm
=============================================================================
