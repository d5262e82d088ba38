----------------------------- MODULE MotorFrames -----------------------------
(***************************************************************************)
(* Who is meant by a frame of a motor bus, and what it says: the addresses *)
(* of drivers/motor/motor.cpp, CanBus::validateTopology() and the builders *)
(* and decoders of drivers/motor/{dm/dm_protocol,dji/dji_protocol}.cpp.    *)
(*                                                                         *)
(* Bytes are numbers and are packed as in the code; a float of four bytes  *)
(* is one element.  Amperes, radians and the like are in thousandths.      *)
(* The drives are outside of the code: they are of their makers' manuals.  *)
(***************************************************************************)
EXTENDS Integers, Sequences, TLC

CONSTANTS
    Buses,   \* the sequences of motor configurations that are tried
    Orders,  \* commands the application may stage
    Reports  \* what a drive may have to report

VARIABLES
    motors, \* the configurations of the motors attached to the bus
    bus,    \* whether it is started, and whether it could be
    staged, \* the command of each motor
    frame,  \* the frame on the bus
    heard,  \* what each drive made of it
    taken   \* what each motor made of it

vars == <<motors, bus, staged, frame, heard, taken>>

Nothing == [kind |-> "Nothing"]
Motors  == DOMAIN motors
Each(x) == [i \in Motors |-> x]

IsDji(c)  == c.model \in {"M3508", "M2006", "GM6020"}
CurrentMax(c) == CASE c.model = "M3508" -> 20000 [] c.model = "M2006" -> 10000 [] OTHER -> 3000
RawMax(c)     == IF c.model = "M2006" THEN 10000 ELSE 16384
Modes     == {"Mit", "PositionVelocity", "Velocity"}

-----------------------------------------------------------------------------
(* Addresses.                                                              *)

(* dji::describe() *)
DjiFeedbackId(c) == (IF c.model = "GM6020" THEN 516 ELSE 512) + c.id
DjiCommandId(c)  == IF c.id <= 4 THEN (IF c.model = "GM6020" THEN 510 ELSE 512)
                                 ELSE (IF c.model = "GM6020" THEN 766 ELSE 511)
DjiSlot(c)       == IF c.id <= 4 THEN c.id - 1 ELSE c.id - 5

(* controlFrameId() and dm::describe() *)
ControlFrameId(mode, id) == id + (CASE mode = "Mit" -> 0 [] mode = "PositionVelocity" -> 256 [] OTHER -> 512)

(* describeMotor() *)
RxId(c) == IF IsDji(c) THEN DjiFeedbackId(c) ELSE c.master
TxId(c) == IF IsDji(c) THEN DjiCommandId(c) ELSE ControlFrameId(c.mode, c.id)
Slot(c) == IF IsDji(c) THEN DjiSlot(c) ELSE c.id

(* Motor::validateConfig() *)
ValidConfig(c) ==
    IF IsDji(c)
    THEN c.id \in 1 .. (IF c.model = "GM6020" THEN 7 ELSE 8) /\ c.limit \in 1 .. CurrentMax(c)
    ELSE c.mode \in Modes /\ c.id \in 1 .. 15 /\ c.master \in 0 .. 2047
         /\ c.position > 0 /\ c.velocity > 0 /\ c.torque > 0 /\ c.limit \in 1 .. c.torque

(* Two motors that could not be told apart.                                *)
Collides(a, b) ==
    \/ RxId(a) = TxId(b) \/ TxId(a) = RxId(b)
    \/ TxId(a) = TxId(b) /\ ~(IsDji(a) /\ IsDji(b) /\ Slot(a) # Slot(b))
    \/ RxId(a) = RxId(b) /\ ~(~IsDji(a) /\ ~IsDji(b) /\ Slot(a) # Slot(b))

(* validateTopology() *)
ValidTopology ==
    /\ \A i \in Motors : ValidConfig(motors[i]) /\ RxId(motors[i]) # TxId(motors[i])
    /\ \A i \in Motors : \A j \in 1 .. i - 1 : ~Collides(motors[i], motors[j])

Start ==
    /\ bus = "Unstarted"
    /\ bus' = IF ValidTopology THEN "Running" ELSE "ConfigBlocked"
    /\ UNCHANGED <<motors, staged, frame, heard, taken>>

-----------------------------------------------------------------------------
(* Commands.                                                               *)

Within(a, limit) == a \in -limit .. limit

(* checkCommand() *)
Accepts(c, o) ==
    CASE o.kind = "Current"  -> IsDji(c) /\ Within(o.value, c.limit)
      [] o.kind = "Torque"   -> ~IsDji(c) /\ c.mode = "Mit" /\ Within(o.value, c.limit)
      [] o.kind = "Velocity" -> ~IsDji(c) /\ c.mode = "Velocity" /\ Within(o.value, c.velocity)
      [] o.kind = "PositionVelocity" ->
            ~IsDji(c) /\ c.mode = "PositionVelocity" /\ Within(o.position, c.position) /\ o.value \in 0 .. c.velocity
      [] o.kind = "Mit" ->
            /\ ~IsDji(c) /\ c.mode = "Mit"
            /\ Within(o.position, c.position) /\ Within(o.velocity, c.velocity)
            /\ o.kp \in 0 .. 500000 /\ o.kd \in 0 .. 5000 /\ Within(o.value, c.limit)

(* Motor::setCurrent() and its like *)
Set(i, o) ==
    /\ bus = "Running" /\ staged[i] = Nothing
    /\ Accepts(motors[i], o)
    /\ staged' = [staged EXCEPT ![i] = o]
    /\ frame' = Nothing /\ heard' = Each(Nothing) /\ taken' = Each(Nothing)
    /\ UNCHANGED <<motors, bus>>

(* floatToUint() and uintToFloat() *)
ToUint(v, lo, hi, full)  == ((v - lo) * full) \div (hi - lo)
ToFloat(u, lo, hi, full) == lo + (u * (hi - lo)) \div full
U16 == 65535
U12 == 4095

(* lround(), which rounds a half away from zero *)
Rounded(a, b) == IF a >= 0 THEN (2 * a + b) \div (2 * b) ELSE -((2 * (-a) + b) \div (2 * b))

RawCurrent(c, current) == Rounded(current * RawMax(c), CurrentMax(c))
Unsigned(v) == v % 65536
Signed(u)   == IF u >= 32768 THEN u - 65536 ELSE u

(* buildMitFrame() *)
MitData(c, position, velocity, kp, kd, torque) ==
    LET p == ToUint(position, -c.position, c.position, U16)
        v == ToUint(velocity, -c.velocity, c.velocity, U12)
        g == ToUint(kp, 0, 500000, U12)
        d == ToUint(kd, 0, 5000, U12)
        t == ToUint(torque, -c.torque, c.torque, U12)
    IN  <<p \div 256, p % 256, v \div 16, (v % 16) * 16 + g \div 256, g % 256,
          d \div 16, (d % 16) * 16 + t \div 256, t % 256>>

(* The data buildTarget() has built for a drive of its own. *)
DmData(c, o) ==
    CASE o.kind = "Torque"   -> MitData(c, 0, 0, 0, 0, o.value)
      [] o.kind = "Mit"      -> MitData(c, o.position, o.velocity, o.kp, o.kd, o.value)
      [] o.kind = "Velocity" -> <<o.value>>
      [] o.kind = "PositionVelocity" -> <<o.position, o.value>>

(* buildCommandFrame(), of every motor that shares the frame; one without  *)
(* a command that may be sent has a zero.                                  *)
DjiData(id) ==
    LET Raw(slot) ==
            LET own == {i \in Motors : IsDji(motors[i]) /\ TxId(motors[i]) = id
                                       /\ DjiSlot(motors[i]) = slot /\ staged[i] # Nothing}
            IN  IF own = {} THEN 0 ELSE LET i == CHOOSE i \in own : TRUE IN RawCurrent(motors[i], staged[i].value)
    IN  [k \in 1 .. 8 |-> LET bits == Unsigned(Raw((k - 1) \div 2))
                          IN  IF k % 2 = 1 THEN bits \div 256 ELSE bits % 256]

Codes == [ClearError |-> 251, Enable |-> 252, Disable |-> 253, SaveZero |-> 254]

(* buildSpecialFrame() *)
SpecialData(command) == [k \in 1 .. 8 |-> IF k < 8 THEN 255 ELSE Codes[command]]

-----------------------------------------------------------------------------
(* The drives: C610, C620 and GM6020 take their slot of their frame, a     *)
(* J4310 takes the frames of its mode.                                     *)

ReadMit(c, d) ==
    [kind |-> "Mit",
     position |-> ToFloat(d[1] * 256 + d[2], -c.position, c.position, U16),
     velocity |-> ToFloat(d[3] * 16 + d[4] \div 16, -c.velocity, c.velocity, U12),
     kp |-> ToFloat((d[4] % 16) * 256 + d[5], 0, 500000, U12),
     kd |-> ToFloat(d[6] * 16 + d[7] \div 16, 0, 5000, U12),
     value |-> ToFloat((d[7] % 16) * 256 + d[8], -c.torque, c.torque, U12)]

Special(d) == {s \in DOMAIN Codes : d = SpecialData(s)}

Listens(c, id) ==
    CASE c.model \in {"M3508", "M2006"} -> id = IF c.id \in 1 .. 4 THEN 512 ELSE 511
      [] c.model = "GM6020" -> id = IF c.id \in 1 .. 4 THEN 510 ELSE 766
      [] OTHER -> id = [Mit |-> c.id, PositionVelocity |-> 256 + c.id, Velocity |-> 512 + c.id][c.mode]

Obeys(c, id, d) ==
    IF ~Listens(c, id) THEN Nothing
    ELSE IF IsDji(c) THEN LET k == 2 * ((c.id - 1) % 4) IN [kind |-> "Current", raw |-> Signed(d[k + 1] * 256 + d[k + 2])]
    ELSE IF Special(d) # {} THEN [kind |-> CHOOSE s \in Special(d) : TRUE]
    ELSE CASE c.mode = "Mit" -> ReadMit(c, d)
           [] c.mode = "Velocity" -> [kind |-> "Velocity", value |-> d[1]]
           [] OTHER -> [kind |-> "PositionVelocity", position |-> d[1], value |-> d[2]]

Send(id, data, to, purpose) ==
    /\ frame' = [id |-> id, data |-> data, to |-> to, purpose |-> purpose]
    /\ heard' = [i \in Motors |-> Obeys(motors[i], id, data)]
    /\ taken' = Each(Nothing)
    /\ UNCHANGED <<motors, bus, staged>>

(* buildTarget() *)
Target(i) ==
    /\ bus = "Running" /\ staged[i] # Nothing
    /\ LET id == TxId(motors[i])
       IN  IF IsDji(motors[i])
           THEN Send(id, DjiData(id), {j \in Motors : IsDji(motors[j]) /\ TxId(motors[j]) = id}, "Target")
           ELSE Send(id, DmData(motors[i], staged[i]), {i}, "Target")

(* The frames of the protocol: enable, disable and clear an error.         *)
Protocol(i, command) ==
    /\ bus = "Running" /\ ~IsDji(motors[i])
    /\ Send(TxId(motors[i]), SpecialData(command), {i}, command)

-----------------------------------------------------------------------------
(* Reports.                                                                *)

ReportId(c) == IF c.model = "GM6020" THEN 516 + c.id ELSE IF IsDji(c) THEN 512 + c.id ELSE c.master

ReportData(c, r) ==
    IF IsDji(c)
    THEN LET speed == Unsigned(r.speed)
             torque == Unsigned(r.torque)
         IN  <<r.position \div 256, r.position % 256, speed \div 256, speed % 256, torque \div 256, torque % 256, r.heat, 0>>
    ELSE <<r.status * 16 + c.id, r.position \div 256, r.position % 256, (r.speed % 4096) \div 16,
           (r.speed % 16) * 16 + (r.torque % 4096) \div 256, r.torque % 256, r.heat, r.heat>>

(* dji::decodeFeedback(), and acceptDjiFeedback() of an encoder in range   *)
DjiDecoded(d) ==
    IF d[1] * 256 + d[2] >= 8192 THEN Nothing
    ELSE [kind |-> "Report", position |-> d[1] * 256 + d[2], speed |-> Signed(d[3] * 256 + d[4]),
          torque |-> Signed(d[5] * 256 + d[6]), heat |-> d[7], status |-> 0]

(* decodeStatus(): anything else is Unknown, a fault *)
Status(raw) == IF raw \in {0, 1} \cup 8 .. 14 THEN raw ELSE 15

(* dm::decodeFeedback() *)
DmDecoded(c, d) ==
    IF d[1] % 16 # c.id THEN Nothing
    ELSE [kind |-> "Report", position |-> d[2] * 256 + d[3], speed |-> d[4] * 16 + d[5] \div 16,
          torque |-> (d[5] % 16) * 256 + d[6], heat |-> d[7], status |-> Status(d[1] \div 16)]

(* acceptFrame(): every motor with this feedback id decodes it.            *)
Report(i, r) ==
    /\ bus = "Running"
    /\ LET id == ReportId(motors[i])
           d  == ReportData(motors[i], r)
       IN  /\ taken' = [j \in Motors |->
                           IF RxId(motors[j]) # id THEN Nothing
                           ELSE IF IsDji(motors[j]) THEN DjiDecoded(d) ELSE DmDecoded(motors[j], d)]
           /\ heard' = [j \in Motors |-> IF j = i THEN Nothing ELSE Obeys(motors[j], id, d)]
    /\ frame' = [id |-> ReportId(motors[i]), data |-> r, to |-> {i}, purpose |-> "Report"]
    /\ UNCHANGED <<motors, bus, staged>>

-----------------------------------------------------------------------------
Init ==
    /\ motors \in Buses
    /\ bus = "Unstarted"
    /\ staged = Each(Nothing)
    /\ frame = Nothing
    /\ heard = Each(Nothing)
    /\ taken = Each(Nothing)

Next ==
    \/ Start
    \/ \E i \in Motors :
        \/ \E o \in Orders : Set(i, o)
        \/ Target(i)
        \/ \E command \in {"Enable", "Disable", "ClearError"} : Protocol(i, command)
        \/ \E r \in Reports : Report(i, r)

Spec == Init /\ [][Next]_vars

-----------------------------------------------------------------------------
(* The type invariant: what is staged is a command its motor may have.     *)
TypeOK ==
    /\ bus \in {"Unstarted", "Running", "ConfigBlocked"}
    /\ \A i \in Motors : staged[i] # Nothing => staged[i] \in Orders /\ Accepts(motors[i], staged[i])
    /\ bus # "Running" => frame = Nothing
    /\ \A i \in Motors : taken[i] # Nothing => taken[i].kind = "Report" /\ taken[i].status \in 0 .. 15

(* A value survives its packing but for one step of the last bit, and one  *)
(* thousandth of the model.                                                *)
Abs(a)                  == IF a < 0 THEN -a ELSE a
Near(a, b, range, full) == Abs(a - b) <= range \div full + 1

AsOrdered(c, o, h) ==
    IF IsDji(c) THEN LET current == IF o = Nothing THEN 0 ELSE o.value
                     IN  2 * Abs(h.raw * CurrentMax(c) - current * RawMax(c)) <= CurrentMax(c)
    ELSE IF o.kind \in {"Velocity", "PositionVelocity"} THEN h = o
    ELSE LET order == IF o.kind = "Mit" THEN o
                      ELSE [o EXCEPT !.kind = "Mit"]
                           @@ [position |-> 0, velocity |-> 0, kp |-> 0, kd |-> 0]
         IN  /\ h.kind = "Mit"
             /\ Near(h.position, order.position, 2 * c.position, U16)
             /\ Near(h.velocity, order.velocity, 2 * c.velocity, U12)
             /\ Near(h.kp, order.kp, 500000, U12)
             /\ Near(h.kd, order.kd, 5000, U12)
             /\ Near(h.value, order.value, 2 * c.torque, U12)

(* A command at the end of every range is a special frame of the protocol. *)
AtTheEndOf(c, o) ==
    o # Nothing /\ o.kind = "Mit" /\ o.position = c.position /\ o.velocity = c.velocity /\ o.kp = 500000 /\ o.kd = 5000

(* On a bus that is started a frame is heard by the drives it is for and   *)
(* by no other, be it a command, a frame of the protocol or the report of  *)
(* another drive, and they hear the command of their own motor             *)
(* (validateTopology(), buildTarget()).                                    *)
EachHearsItsOwn ==
    frame # Nothing =>
        \A i \in Motors :
            IF frame.purpose = "Report" \/ i \notin frame.to THEN heard[i] = Nothing
            ELSE IF frame.purpose # "Target" THEN heard[i] = [kind |-> frame.purpose]
            ELSE AtTheEndOf(motors[i], staged[i]) \/ AsOrdered(motors[i], staged[i], heard[i])

(* A report is taken for that of its own drive only, and a fault it tells  *)
(* is taken for one (acceptFrame(), decodeFeedback()).                     *)
ReportsAreOfTheirDrive ==
    frame # Nothing /\ frame.purpose = "Report" =>
        \A i \in Motors :
            LET r == frame.data
                t == taken[i]
                c == motors[i]
            IN  IF i \notin frame.to \/ (IsDji(c) /\ r.position >= 8192) THEN t = Nothing
                ELSE /\ t.position = r.position /\ t.heat = r.heat
                     /\ IsDji(c) => t.speed = r.speed /\ t.torque = r.torque
                     /\ ~IsDji(c) => /\ t.speed = r.speed % 4096 /\ t.torque = r.torque % 4096
                                     /\ t.status \in {0, 1} <=> r.status \in {0, 1}
=============================================================================
