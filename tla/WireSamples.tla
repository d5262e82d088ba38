----------------------------- MODULE WireSamples -----------------------------
(***************************************************************************)
(* Messages that tell the fields of a payload apart: every word of one     *)
(* message is another one, and each field takes the values at which a      *)
(* check of its decoder changes its mind.                                  *)
(***************************************************************************)
EXTENDS Integers, Sequences

LOCAL W(n) == <<n, n + 1, n + 2, n + 3>>
LOCAL L(n) == W(n) \o W(n + 4)
LOCAL Zeros(n) == [i \in 1 .. n |-> 0]
LOCAL Flags == {<<0>>, <<1>>}
LOCAL Byte(S) == {<<b>> : b \in S}
LOCAL Infinite == <<0, 0, 128, 127>>
LOCAL Minus == <<1, 0, 128, 191>>

Heartbeats ==
    [kind : {"Heartbeat"}, role : Byte({0, 1, 2}), safety_state : Byte({0, 6, 7}), ready : Flags,
     sync_requested : Flags, active_reasons : {W(10)}, sender_uptime_ms : {W(20)},
     sender_boot_id : {L(30), Zeros(8), <<0, 0, 0, 0, 0, 0, 0, 1>>}]

Controls ==
    [kind : {"ChassisControl"}, mode : Byte({0, 2, 3}), source : Byte({1, 4, 5}), global_action : Byte({0, 2, 3}),
     vx : {W(10), Infinite}, vy : {Minus}, wz : {W(20), Infinite}, active_reasons : {W(30)}, stamp : {W(40)},
     receiver_boot_id : {L(50)}]

Constraints ==
    [kind : {"ChassisConstraint"}, valid : Flags, enabled : Flags, power_valid : Flags,
     power_limit_w : {W(10), Minus, Infinite, <<0, 0, 0, 128>>}, buffer_energy_j : {W(20), Minus},
     output_age_ms : {W(30)}, power_age_ms : {W(40)}]

Feedbacks ==
    [kind : {"ChassisFeedback"}, execution_state : Byte({0, 5, 6}), safety_state : Byte({0, 6, 7}), ready : Flags,
     armed : Flags, active_reasons : {W(10)}, last_command_sequence : {W(20)},
     valid_fields : {<<3, 0, 0, 0>>, <<4, 0, 0, 0>>, <<0, 0, 1, 0>>}, vx : {W(30)}, vy : {Minus}, wz : {W(40)},
     power_w : {W(50), Minus}]

Controllings ==
    [kind : {"OperatorControl"}, run_allowed : Flags, emergency_stop : Flags, source_sequence : {W(10)},
     source_age_ms : {W(20)}, clear_event_id : {Zeros(4), W(30)},
     clear_event_age_ms : {W(40), <<255, 255, 255, 255>>}, sender_boot_id : {L(50), Zeros(8)},
     receiver_boot_id : {L(60), Zeros(8)}]

Requests ==
    [kind : {"BigYawRequest"}, mode : Byte({0, 1, 2}), valid : Flags, enabled : Flags,
     target_rate : {W(10), Minus, Infinite}, source_sequence : {W(20)}, source_age_ms : {W(30)},
     command_age_ms : {W(40)}, receiver_boot_id : {L(50)}, permission_age_ms : {W(60)}, stamp : {W(70)}]

Reports ==
    [kind : {"BigYawFeedback"}, execution_state : Byte({0, 5, 6}), ready : Flags, armed : Flags, valid : Flags,
     actual_rate : {W(10), Infinite}, active_reasons : {W(20)}, last_command_sequence : {W(30)},
     source_sequence : {W(40)}, production_age_ms : {W(50)}]

BoardMessages == Heartbeats \cup Controls \cup Constraints \cup Feedbacks \cup Controllings \cup Requests \cup Reports

-----------------------------------------------------------------------------
(* Motors whose addresses meet: a command frame that is shared, half of it *)
(* by another model, reports of one identifier, and modes whose commands   *)
(* have the identifier of another motor's report.                          *)

LOCAL Dji(m, n) == [model |-> m, id |-> n, limit |-> 3000]
LOCAL Dm(m, n, identifier) ==
    [model |-> "J4310", mode |-> m, id |-> n, master |-> identifier, position |-> 12500, velocity |-> 30000,
     torque |-> 10000, limit |-> 10000]

LOCAL Djis ==
    {Dji("M3508", n) : n \in {1, 5, 9}} \cup {Dji("M2006", n) : n \in {1, 2}}
    \cup {Dji("GM6020", n) : n \in {1, 4, 5}}
LOCAL Dms ==
    {Dm("Mit", 1, 17), Dm("Mit", 2, 17), Dm("Mit", 1, 1), Dm("Mit", 1, 517), Dm("Velocity", 1, 17),
     Dm("Velocity", 2, 18), Dm("PositionVelocity", 1, 18), Dm("PositionVelocity", 16, 19)}

Buses == (Djis \X (Djis \cup Dms)) \cup (Dms \X Dms)

LOCAL Mit(p, v, g, d, t) == [kind |-> "Mit", position |-> p, velocity |-> v, kp |-> g, kd |-> d, value |-> t]

Orders ==
    {[kind |-> "Current", value |-> v] : v \in {0, 333, -3000, 3001}}
    \cup {[kind |-> "Torque", value |-> v] : v \in {0, -9000, 10001}}
    \cup {[kind |-> "Velocity", value |-> v] : v \in {30000, -1}}
    \cup {[kind |-> "PositionVelocity", position |-> -12500, value |-> v] : v \in {-1, 7}}
    \cup {Mit(-12500, 30000, 0, 5000, -9000), Mit(1234, -1234, 4321, 432, 8999), Mit(12500, 30000, 500000, 5000, 9985)}

DriveReports ==
    {[position |-> 8191, speed |-> -300, torque |-> 700, heat |-> 60, status |-> 1],
     [position |-> 4660, speed |-> 1000, torque |-> -1, heat |-> 1, status |-> 2],
     [position |-> 8192, speed |-> -2048, torque |-> 2047, heat |-> 2, status |-> 11]}
=============================================================================
