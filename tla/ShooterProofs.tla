---------------------------- MODULE ShooterProofs ----------------------------
(***************************************************************************)
(* Theorems about the shooter of MCVehicle, for all steps, tolerances,     *)
(* speeds and timeouts that begin() accepts, and with it about what every  *)
(* rig of MCVehicle promises.                                              *)
(***************************************************************************)
EXTENDS VehicleProofs

-----------------------------------------------------------------------------
(* The shooter (Shooter): v1 is turn, v2 click, v3 gun, v4 dial, v5 shown   *)
(* and v6 stuck.                                                           *)

(* The dial in motion.  Travel(s, r) bounds the way of a dial of speed s   *)
(* until it rests, when its ramp is at r and falls from the next cycle on: *)
(* a dial that is slower than its ramp is driven to it first.              *)

VelocityModes == {"ContinuousVelocity", "BrakingVelocity"}
FiringModes   == {"SinglePosition", "ContinuousVelocity"}

Square(n)    == n * n
Travel(s, r) == IF s > r THEN Square(s) ELSE Square(r) + 2 * r

(* The ramp that a drive would follow, and as it is in the next Turn.      *)
Ramp == IF Gun!Drives /\ Gun!VelocityIsHistory THEN v3.velocity.speed ELSE 0

ComingRamp ==
    CASE v1 = "Turn"  -> Ramp
      [] v1 = "Drive" -> Gun!Towards(Ramp, IF Gun!Drives /\ Gun!VelocityIsHistory THEN v3.requested ELSE 0)
      [] OTHER        -> Gun!Slower(Ramp)

(* What the rounds reserved allow the dial to turn to.                     *)
Allowed == v3.rounds * Step + Tolerance

(* Wherever the dial is stopped from, it rests within what was reserved.   *)
GunStops ==
    /\ v4.pos + Travel(v4.speed, ComingRamp) <= Allowed
    /\ v3.mode \in Gun!PositionModes => v3.target <= Allowed
    /\ v3.mode = "ContinuousVelocity" => v3.budget <= v3.rounds * Step
    /\ v3.mode \notin VelocityModes => v3.velocity = Gun!NoSpeed
    /\ v1 = "Drive" => v3.mode # "Disabled"

(* Efforts and histories are of no later enabling, and what can be sent    *)
(* was staged in this cycle by the controller of its mode.                 *)
GunEfforts ==
    /\ v3.staged.enable <= v3.enable /\ v3.velocity.enable <= v3.enable
    /\ v1 = "Turn" /\ v3.staged.kind # "None" /\ Gun!Drives /\ v3.staged.enable = v3.enable =>
          /\ v3.staged.new
          /\ v3.staged.kind = "Position" => v3.mode \in Gun!PositionModes
          /\ v3.staged.kind = "Velocity" => v3.mode \in VelocityModes /\ Gun!VelocityIsHistory

(* A dial without a reference rests, and nothing moves it.                 *)
GunReferences ==
    /\ IF v3.adopted THEN v3.reference <= v4.generation ELSE v3.mode = "Disabled"
    /\ v1 = "Decide" => v3.adopted
    /\ ~v4.valid =>
          /\ v4.speed = 0
          /\ v1 \in {"Decide", "Drive"} => ~(Gun!Drives /\ Gun!VelocityIsHistory)
          /\ v1 = "Turn" /\ v3.staged.kind \in {"Position", "Velocity"} => ~Gun!IsSent(v3.staged)
    /\ v4.generation + (IF v4.valid THEN 0 ELSE 1) <= 2 * v4.gaps - (IF v4.fresh THEN 0 ELSE 2)

(* A click that a cycle was offered is consumed.                           *)
GunClicks ==
    /\ v5 <= v3.last
    /\ v1 \in {"Drive", "Turn"} => v2.id <= v3.last

(* A dial that is stuck has been for no longer than its jam timer runs.    *)
GunJams ==
    /\ v6 <= Jam
    /\ v1 = "Decide" => ~v3.jammed /\ ~v3.staged.new
    /\ v1 \in {"Begin", "Decide"} /\ v6 > 0 =>
          /\ v3.mode \in FiringModes
          /\ v6 <= v3.since + (IF v1 = "Begin" THEN 1 ELSE 0)
          /\ v3.mode = "SinglePosition" => v3.settled = 0
          /\ v3.mode = "ContinuousVelocity" => v4.pos < v3.progress + Tolerance
    /\ v1 = "Drive" \/ (v1 = "Turn" /\ v3.staged.new) =>
          /\ v3.mode \in FiringModes => v6 <= v3.since /\ v3.since < Jam
          /\ v3.mode = "SinglePosition" /\ v3.settled > 0 => Gun!NearTarget(v3)
          /\ v3.mode = "ContinuousVelocity" => v4.pos < v3.progress + Tolerance

GunInv == Gun!TypeOK /\ GunStops /\ GunEfforts /\ GunReferences /\ GunClicks /\ GunJams

Guns == [mode : {"Disabled", "SinglePosition", "ContinuousVelocity", "BrakingVelocity", "HoldPosition"},
         jammed : BOOLEAN, dwell : 0 .. Dwell + 1, adopted : BOOLEAN, reference : 0 .. 2 * MaxGaps,
         target : 0 .. Gun!Farthest, budget : 0 .. Gun!Farthest, progress : 0 .. Gun!Farthest,
         requested : {0} \cup Speeds, since : 0 .. Gun!TimerEnd, settled : 0 .. Settle + 1,
         last : 0 .. MaxClicks, accepted : 0 .. MaxClicks, rounds : 0 .. MaxRounds,
         position : [live : BOOLEAN, enable : 0 .. MaxEnables, reference : 0 .. 2 * MaxGaps],
         velocity : [live : BOOLEAN, enable : 0 .. MaxEnables, speed : 0 .. Gun!TopSpeed],
         wanted : BOOLEAN, active : BOOLEAN, enable : 0 .. MaxEnables,
         staged : [kind : {"None", "Zero", "Position", "Velocity"}, enable : 0 .. MaxEnables, new : BOOLEAN]]
Dials == [pos : 0 .. Gun!Farthest, speed : 0 .. Gun!TopSpeed, fresh : BOOLEAN, valid : BOOLEAN,
          generation : 0 .. 2 * MaxGaps, gaps : 0 .. MaxGaps]

(* The bounds are numbers, and no speed is above the top.                  *)
LEMMA GunBounds ==
  /\ Gun!TopSpeed \in Nat /\ \A w \in Speeds : w <= Gun!TopSpeed
  /\ Gun!TimerEnd \in Nat /\ Gun!TimerEnd >= Jam
  /\ Gun!Farthest \in Nat /\ Gun!Farthest = MaxRounds * Step + Step /\ MaxRounds * Step \in Nat
<1> USE GunAssumption
<1>1. Gun!TopSpeed \in Speeds /\ \A w \in Speeds : w <= Gun!TopSpeed
  BY DEF Gun!TopSpeed
<1>2. Gun!TimerEnd \in Nat /\ Gun!TimerEnd >= Jam
  BY DEF Gun!TimerEnd, Gun!Greatest
<1>3. Gun!Farthest \in Nat /\ Gun!Farthest = MaxRounds * Step + Step /\ MaxRounds * Step \in Nat
  BY DEF Gun!Farthest
<1> QED
  BY <1>1, <1>2, <1>3

(* Squares of neighbours, and of numbers in order.                         *)
LEMMA SquaresGrow ==
  ASSUME NEW n \in Nat
  PROVE  /\ Square(n) \in Nat /\ Square(0) = 0
         /\ Square(n + 1) = Square(n) + 2 * n + 1
         /\ \A k \in Nat : k <= n => Square(k) <= Square(n)
<1>1. ASSUME NEW k \in Nat, k <= n PROVE k * k <= n * n
  <2>1. n * n = k * k + (n - k) * (n + k) /\ (n - k) * (n + k) >= 0
    BY <1>1
  <2> QED
    BY <2>1
<1> QED
  BY <1>1 DEF Square

(* The way to rest.                                                        *)
LEMMA TravelGrows ==
  ASSUME NEW s \in Nat, NEW r \in Nat
  PROVE  /\ Travel(s, r) \in Nat /\ Travel(s, 0) = Square(s)
         /\ \A q \in Nat : q <= r => Travel(s, q) <= Travel(s, r)
         /\ \A v \in Nat : s <= v /\ r <= v => Travel(s, r) <= Square(v) + 2 * v
<1>1. Square(s) \in Nat /\ Square(r) \in Nat /\ Square(0) = 0
  BY SquaresGrow
<1>2. Travel(s, 0) = Square(s)
  BY <1>1 DEF Travel
<1>3. ASSUME NEW q \in Nat, q <= r PROVE Travel(s, q) <= Travel(s, r)
  <2>1. Square(q) \in Nat /\ Square(q) <= Square(r) /\ (s <= r => Square(s) <= Square(r))
    BY <1>3, SquaresGrow
  <2> QED
    BY <1>1, <1>3, <2>1 DEF Travel
<1>4. ASSUME NEW v \in Nat, s <= v, r <= v PROVE Travel(s, r) <= Square(v) + 2 * v
  <2>1. Square(v) \in Nat /\ Square(s) <= Square(v) /\ Square(r) <= Square(v)
    BY <1>4, SquaresGrow
  <2> QED
    BY <1>1, <1>4, <2>1 DEF Travel
<1> QED
  BY <1>1, <1>2, <1>3, <1>4 DEF Travel

(* A cycle takes its way off what is left, whether the dial follows its    *)
(* ramp, slows down or is blocked.                                         *)
LEMMA TravelIsSpent ==
  ASSUME NEW s \in Nat, NEW r \in Nat, NEW w \in Nat, w \in {Gun!Slower(s), Gun!Towards(s, r)}
  PROVE  /\ s + w + Travel(w, Gun!Slower(r)) <= Travel(s, r)
         /\ Travel(0, Gun!Slower(r)) <= Travel(s, r)
<1> DEFINE f == Gun!Slower(r)
<1>1. f \in Nat /\ (r = 0 => f = 0) /\ (r > 0 => f = r - 1)
  BY DEF Gun!Slower
<1> HIDE DEF f
<1>2. w <= s + 1 /\ (s > r => w = s - 1) /\ (w > s => s < r) /\ (w = s => s = r \/ s = 0) /\ (s = r => w = s \/ w = s - 1 \/ w = 0)
  BY DEF Gun!Slower, Gun!Towards
<1>3. Square(s) \in Nat /\ Square(r) \in Nat /\ Square(w) \in Nat /\ Square(f) \in Nat /\ Square(0) = 0
  BY <1>1, SquaresGrow
<1>4. r > 0 => Square(r) = Square(f) + 2 * f + 1
  <2>1. r > 0 => r = f + 1
    BY <1>1
  <2> QED
    BY <1>1, <2>1, SquaresGrow
<1>5. CASE s > r
  <2>1. Square(s) = Square(w) + 2 * w + 1
    <3>1. s = w + 1
      BY <1>2, <1>5
    <3> QED
      BY <3>1, SquaresGrow
  <2>2. w >= r /\ (w = f => w = 0)
    BY <1>1, <1>2, <1>5
  <2>3. w > f \/ (w = 0 /\ f = 0)
    BY <1>1, <2>2
  <2>4. Square(f) + 2 * f <= Square(s)
    <3>1. Square(r) <= Square(s)
      BY <1>5, SquaresGrow
    <3> QED
      BY <1>1, <1>3, <1>4, <3>1
  <2> QED
    BY <1>1, <1>2, <1>3, <1>5, <2>1, <2>3, <2>4 DEF Travel, f
<1>6. CASE s <= r
  <2>1. Square(w) <= Square(r) /\ (w > f => w <= r)
    <3>1. w <= r
      BY <1>2, <1>6 DEF Gun!Slower, Gun!Towards
    <3> QED
      BY <3>1, SquaresGrow
  <2>2. s + w <= 2 * r
    BY <1>2, <1>6
  <2>3. w <= f => s + w + Square(f) + 2 * f <= Square(r) + 2 * r
    BY <1>1, <1>2, <1>3, <1>4, <1>6, <2>2
  <2> QED
    BY <1>1, <1>2, <1>3, <1>4, <1>6, <2>1, <2>2, <2>3 DEF Travel, f
<1> QED
  BY <1>5, <1>6

(* Whole steps.                                                            *)
LEMMA StepsDivide ==
  ASSUME NEW x \in Nat, NEW n \in Nat
  PROVE  /\ x \div Step \in Nat /\ n * Step \in Nat
         /\ x < (x \div Step + 1) * Step
         /\ x < (n + 1) * Step => x \div Step <= n
         /\ (n + 1) * Step = n * Step + Step
<1> USE GunAssumption
<1> DEFINE q == x \div Step
<1>1. Step \in Nat \ {0}
  OBVIOUS
<1>2. ASSUME NEW m \in Nat \ {0}
      PROVE  x \div m \in Nat /\ x % m \in 0 .. m - 1 /\ x = m * (x \div m) + (x % m)
  OBVIOUS
<1>3. q \in Nat /\ x % Step \in 0 .. Step - 1 /\ x = Step * q + (x % Step)
  BY <1>1, <1>2
<1> HIDE DEF q
<1>4. ASSUME NEW k \in Nat PROVE k * Step \in Nat /\ Step * k = k * Step /\ (k + 1) * Step = k * Step + Step
  OBVIOUS
<1>5. x < (q + 1) * Step
  BY <1>3, <1>4
<1>6. ASSUME x < (n + 1) * Step PROVE q <= n
  <2>1. SUFFICES ASSUME q > n PROVE FALSE
    BY <1>3
  <2>2. PICK k \in Nat : q = n + 1 + k
    <3>1. q - n - 1 \in Nat /\ q = n + 1 + (q - n - 1)
      BY <1>3, <2>1
    <3> QED
      BY <3>1
  <2>3. q * Step = (n + 1) * Step + k * Step /\ k * Step \in Nat /\ (n + 1) * Step \in Nat
    BY <2>2, <1>4
  <2> QED
    BY <1>3, <1>4, <1>6, <2>3
<1> QED
  BY <1>3, <1>4, <1>5, <1>6 DEF q

(* Types of the next state from those of its records.                      *)
LEMMA GunTyped ==
  ASSUME v1' \in {"Begin", "Decide", "Drive", "Turn"}, v2' \in [id : 0 .. MaxClicks, fresh : BOOLEAN],
         v3' \in Guns, v4' \in Dials, v5' \in 0 .. MaxClicks, v6' \in 0 .. Jam + 3
  PROVE  Gun!TypeOK'
  BY DEF Gun!TypeOK, Guns, Dials

(* The numbers of the records.                                             *)
LEMMA GunRecords ==
  ASSUME Gun!TypeOK
  PROVE  /\ v3 \in Guns /\ v4 \in Dials /\ v2.id \in Nat /\ v5 \in Nat /\ v6 \in Nat
         /\ v4.pos \in Nat /\ v4.speed \in Nat /\ v4.generation \in Nat /\ v4.gaps \in Nat
         /\ v4.fresh \in BOOLEAN /\ v4.valid \in BOOLEAN
         /\ Ramp \in Nat
<1>1. v3 \in Guns /\ v4 \in Dials
  BY DEF Gun!TypeOK, Guns, Dials
<1>2. v3.velocity.speed \in Nat
  BY <1>1, GunBounds DEF Guns
<1>3. v4.pos \in Nat /\ v4.speed \in Nat
  BY <1>1, GunBounds DEF Dials
<1>4. v4.generation \in Nat /\ v4.gaps \in Nat
  BY <1>1, GunAssumption DEF Dials
<1>5. v2.id \in Nat /\ v5 \in Nat /\ v6 \in Nat
  BY GunAssumption DEF Gun!TypeOK
<1> QED
  BY <1>1, <1>2, <1>3, <1>4, <1>5 DEF Ramp, Dials

(* The numbers of a gun.                                                   *)
LEMMA GunNumbers ==
  ASSUME NEW g \in Guns
  PROVE  /\ g.rounds \in Nat /\ g.since \in Nat /\ g.settled \in Nat /\ g.last \in Nat /\ g.enable \in Nat
         /\ g.target \in Nat /\ g.budget \in Nat /\ g.progress \in Nat /\ g.reference \in Nat
         /\ g.staged.enable \in Nat /\ g.velocity.enable \in Nat /\ g.velocity.speed \in 0 .. Gun!TopSpeed
         /\ g.velocity.speed \in Nat /\ g.requested \in Nat /\ g.requested <= Gun!TopSpeed
         /\ g.rounds * Step \in Nat
<1> USE GunAssumption, GunBounds
<1>1. /\ g.rounds \in Nat /\ g.settled \in Nat /\ g.last \in Nat /\ g.enable \in Nat /\ g.reference \in Nat
      /\ g.staged.enable \in Nat /\ g.velocity.enable \in Nat
  BY DEF Guns
<1>2. g.target \in Nat /\ g.budget \in Nat /\ g.progress \in Nat /\ g.since \in Nat
  BY DEF Guns
<1>3. /\ g.velocity.speed \in 0 .. Gun!TopSpeed /\ g.velocity.speed \in Nat
      /\ g.requested \in Nat /\ g.requested <= Gun!TopSpeed
  <2>1. g.requested = 0 \/ g.requested \in Speeds
    BY DEF Guns
  <2>2. g.requested \in Nat /\ g.requested <= Gun!TopSpeed
    <3>1. ASSUME NEW n \in Speeds PROVE n \in Nat /\ n <= Gun!TopSpeed
      OBVIOUS
    <3>2. Gun!TopSpeed \in Nat
      OBVIOUS
    <3>3. CASE g.requested = 0
      BY <3>2, <3>3
    <3>4. CASE g.requested \in Speeds
      BY <3>1, <3>4
    <3> QED
      BY <2>1, <3>3, <3>4
  <2>3. g.velocity.speed \in 0 .. Gun!TopSpeed
    BY DEF Guns
  <2> QED
    BY <2>2, <2>3
<1>4. g.rounds * Step \in Nat
  BY <1>1
<1> QED
  BY <1>1, <1>2, <1>3, <1>4

(* What is dropped is of its type.                                         *)
LEMMA NothingIsKept ==
  /\ Gun!NoHistory \in [live : BOOLEAN, enable : 0 .. MaxEnables, reference : 0 .. 2 * MaxGaps]
  /\ Gun!NoSpeed \in [live : BOOLEAN, enable : 0 .. MaxEnables, speed : 0 .. Gun!TopSpeed]
  /\ Gun!NoEffort \in [kind : {"None", "Zero", "Position", "Velocity"}, enable : 0 .. MaxEnables, new : BOOLEAN]
  /\ ~Gun!NoSpeed.live /\ Gun!NoSpeed.enable = 0 /\ Gun!NoSpeed.speed = 0
  /\ Gun!NoEffort.kind = "None" /\ Gun!NoEffort.enable = 0 /\ ~Gun!NoEffort.new
<1>1. 0 \in 0 .. MaxEnables /\ 0 \in 0 .. 2 * MaxGaps /\ 0 \in 0 .. Gun!TopSpeed
  BY GunAssumption, GunBounds
<1> QED
  BY <1>1 DEF Gun!NoHistory, Gun!NoSpeed, Gun!NoEffort

(* setDialMode() *)
LEMMA GunTakesMode ==
  ASSUME NEW g \in Guns,
         NEW mode \in {"Disabled", "SinglePosition", "ContinuousVelocity", "BrakingVelocity", "HoldPosition"}
  PROVE  \E st \in {g.staged, Gun!NoEffort}, po \in {g.position, Gun!NoHistory}, ve \in {g.velocity, Gun!NoSpeed} :
            /\ Gun!InMode(g, mode) = [g EXCEPT !.mode = mode, !.staged = st, !.position = po, !.velocity = ve]
            /\ Gun!InMode(g, mode) \in Guns
            /\ (g.mode \notin VelocityModes => g.velocity = Gun!NoSpeed) /\ mode \notin VelocityModes =>
                  ve = Gun!NoSpeed
            /\ g.mode \notin VelocityModes /\ mode \in VelocityModes => ve = Gun!NoSpeed
            /\ g.mode # "Disabled" /\ mode = "Disabled" => st = Gun!NoEffort
<1> DEFINE drops == /\ mode # g.mode
                    /\ \/ "Disabled" \in {mode, g.mode}
                       \/ (mode \in Gun!PositionModes) # (g.mode \in Gun!PositionModes)
<1> DEFINE dropped == [g EXCEPT !.mode = mode, !.staged = Gun!NoEffort, !.position = Gun!NoHistory,
                                !.velocity = Gun!NoSpeed]
           kept == [g EXCEPT !.mode = mode]
<1>1. Gun!InMode(g, mode) = IF drops THEN dropped ELSE kept
  BY DEF Gun!InMode
<1>2. dropped \in Guns
  BY NothingIsKept DEF Guns
<1>3. kept \in Guns /\ kept = [g EXCEPT !.mode = mode, !.staged = g.staged, !.position = g.position,
                                       !.velocity = g.velocity]
  BY DEF Guns
<1>4. ~drops => \/ mode = g.mode
                \/ mode # "Disabled" /\ g.mode # "Disabled"
                      /\ (mode \in Gun!PositionModes <=> g.mode \in Gun!PositionModes)
  OBVIOUS
<1>5. ~drops => (mode \in VelocityModes <=> g.mode \in VelocityModes) /\ ~(g.mode # "Disabled" /\ mode = "Disabled")
  <2> HIDE DEF drops, dropped, kept
  <2> QED
    BY <1>4 DEF VelocityModes, Gun!PositionModes, Guns
<1> HIDE DEF drops
<1>6. CASE drops
  <2>1. Gun!InMode(g, mode) = dropped
    BY <1>1, <1>6
  <2> QED
    BY <1>2, <2>1
<1>7. CASE ~drops
  <2>1. Gun!InMode(g, mode) = kept
    BY <1>1, <1>7
  <2> QED
    BY <1>3, <1>5, <1>7, <2>1
<1> QED
  BY <1>6, <1>7

(* consumeEvent() *)
LEMMA GunConsumes ==
  ASSUME Gun!TypeOK, NEW g \in Guns
  PROVE  \E last \in 0 .. MaxClicks :
            /\ Gun!Consumed(g) = [g EXCEPT !.last = last] /\ Gun!Consumed(g) \in Guns
            /\ last >= v2.id /\ last >= g.last
<1> DEFINE last == Gun!Greatest(g.last, v2.id)
<1>1. g.last \in 0 .. MaxClicks /\ v2.id \in 0 .. MaxClicks
  BY DEF Guns, Gun!TypeOK
<1>2. last \in 0 .. MaxClicks /\ last >= v2.id /\ last >= g.last
  BY <1>1, GunAssumption DEF Gun!Greatest
<1>3. Gun!Consumed(g) = [g EXCEPT !.last = last]
  BY DEF Gun!Consumed
<1> HIDE DEF last
<1>4. Gun!Consumed(g) \in Guns
  BY <1>2, <1>3 DEF Guns
<1> QED
  BY <1>2, <1>3, <1>4

(* A gun that is stopped, in the enabling of v3.                           *)
Quiet(g) ==
    /\ g \in Guns /\ g.mode = "Disabled" /\ g.active = FALSE /\ g.enable = v3.enable
    /\ g.staged = Gun!NoEffort /\ g.velocity = Gun!NoSpeed

(* stopFeed() *)
LEMMA GunIsStopped ==
  ASSUME Gun!TypeOK, NEW g \in Guns, g.enable = v3.enable,
         g.mode \notin VelocityModes => g.velocity = Gun!NoSpeed
  PROVE  /\ Quiet(Gun!Stopped(g)) /\ Gun!Stopped(g).rounds = g.rounds /\ Gun!Stopped(g).jammed = g.jammed
         /\ Gun!Stopped(g).adopted = g.adopted /\ Gun!Stopped(g).reference = g.reference
         /\ Gun!Stopped(g).last = g.last /\ Gun!Stopped(g).accepted = g.accepted
<1>1. PICK st \in {g.staged, Gun!NoEffort}, po \in {g.position, Gun!NoHistory}, ve \in {g.velocity, Gun!NoSpeed} :
        /\ Gun!InMode(g, "Disabled")
             = [g EXCEPT !.mode = "Disabled", !.staged = st, !.position = po, !.velocity = ve]
        /\ Gun!InMode(g, "Disabled") \in Guns /\ ve = Gun!NoSpeed
  BY GunTakesMode, ZenonT(60) DEF VelocityModes
<1>2. Gun!Stopped(g) = [g EXCEPT !.mode = "Disabled", !.position = po, !.velocity = Gun!NoSpeed,
                                 !.wanted = FALSE, !.active = FALSE, !.staged = Gun!NoEffort, !.requested = 0,
                                 !.since = 0, !.settled = 0, !.budget = 0, !.target = 0, !.progress = 0]
  BY <1>1, ZenonT(60) DEF Gun!Stopped, Guns
<1>3. /\ 0 \in 0 .. Gun!Farthest /\ 0 \in 0 .. Gun!TimerEnd /\ 0 \in 0 .. Settle + 1
      /\ po \in [live : BOOLEAN, enable : 0 .. MaxEnables, reference : 0 .. 2 * MaxGaps]
  <2>1. 0 \in 0 .. Gun!Farthest /\ 0 \in 0 .. Gun!TimerEnd /\ 0 \in 0 .. Settle + 1
    BY GunAssumption, GunBounds
  <2>2. g.position \in [live : BOOLEAN, enable : 0 .. MaxEnables, reference : 0 .. 2 * MaxGaps]
    BY DEF Guns
  <2> QED
    BY <2>1, <2>2, NothingIsKept
<1>4. Gun!Stopped(g) \in Guns
  <2> DEFINE i == Gun!InMode(g, "Disabled")
  <2>1. Gun!Stopped(g) = [i EXCEPT !.wanted = FALSE, !.active = FALSE, !.staged = Gun!NoEffort, !.requested = 0,
                                   !.since = 0, !.settled = 0, !.budget = 0, !.target = 0, !.progress = 0]
    BY DEF Gun!Stopped
  <2>2. i \in Guns /\ 0 \in {0} \cup Speeds
    BY <1>1
  <2> DEFINE j == [i EXCEPT !.wanted = FALSE, !.active = FALSE, !.staged = Gun!NoEffort]
  <2> HIDE DEF i
  <2>3. j \in Guns
    BY <2>2, NothingIsKept DEF Guns
  <2>4. [j EXCEPT !.requested = 0, !.since = 0, !.settled = 0, !.budget = 0, !.target = 0, !.progress = 0] \in Guns
    <3> HIDE DEF j
    <3> QED
      BY <1>3, <2>2, <2>3 DEF Guns
  <2>5. Gun!Stopped(g) = [j EXCEPT !.requested = 0, !.since = 0, !.settled = 0, !.budget = 0, !.target = 0, !.progress = 0]
    BY <2>1
  <2> QED
    BY <2>4, <2>5
<1> QED
  BY <1>2, <1>4, ZenonT(60) DEF Quiet, Guns

(* The timers of a cycle, and the friction wheels.                         *)
LEMMA GunWaits ==
  ASSUME Gun!TypeOK, NEW spin \in BOOLEAN,
         NEW g \in {Gun!Waited(v3), Gun!Friction(Gun!Waited(v3), spin)}
  PROVE  /\ g \in Guns
         /\ g.mode = v3.mode /\ g.jammed = v3.jammed /\ g.adopted = v3.adopted /\ g.reference = v3.reference
         /\ g.target = v3.target /\ g.budget = v3.budget /\ g.progress = v3.progress /\ g.last = v3.last
         /\ g.rounds = v3.rounds /\ g.velocity = v3.velocity /\ g.active = v3.active /\ g.enable = v3.enable
         /\ g.staged.enable = v3.staged.enable /\ ~g.staged.new /\ (v3.settled = 0 => g.settled = 0)
         /\ v3.mode \in FiringModes /\ v6 <= v3.since + 1 /\ v6 <= Jam => v6 <= g.since
<1> DEFINE since == IF v3.mode \in {"Disabled", "HoldPosition"} THEN 0 ELSE Gun!Least(v3.since + 1, Gun!TimerEnd)
           settled == IF v3.settled = 0 THEN 0 ELSE Gun!Least(v3.settled + 1, Settle + 1)
           staged == [v3.staged EXCEPT !.new = FALSE]
           waited == [v3 EXCEPT !.since = since, !.settled = settled, !.staged.new = FALSE, !.requested = 0]
<1>1. v3 \in Guns /\ v3.since \in Nat /\ v3.settled \in Nat /\ v6 \in Nat
  BY GunRecords, GunNumbers
<1>2. since \in 0 .. Gun!TimerEnd /\ settled \in 0 .. Settle + 1
  BY <1>1, GunBounds, GunAssumption DEF Gun!Least
<1>3. v3.mode \in FiringModes /\ v6 <= v3.since + 1 /\ v6 <= Jam => v6 <= since
  BY <1>1, GunBounds, GunAssumption DEF Gun!Least, FiringModes
<1>4. v3.settled = 0 => settled = 0
  OBVIOUS
<1>5. staged \in [kind : {"None", "Zero", "Position", "Velocity"}, enable : 0 .. MaxEnables, new : BOOLEAN]
      /\ staged.enable = v3.staged.enable /\ ~staged.new
  BY <1>1 DEF Guns
<1>6. Gun!Waited(v3) = [v3 EXCEPT !.since = since, !.settled = settled, !.staged = staged, !.requested = 0]
  BY DEF Gun!Waited
<1> HIDE DEF since, settled, staged
<1>7. Gun!Waited(v3) \in Guns
  <2>1. 0 \in {0} \cup Speeds
    OBVIOUS
  <2> QED
    BY <1>1, <1>2, <1>5, <1>6, <2>1, ZenonT(60) DEF Guns
<1>8. PICK dwell \in 0 .. Dwell + 1 : g = [Gun!Waited(v3) EXCEPT !.dwell = dwell]
  <2>1. Gun!Waited(v3).dwell \in 0 .. Dwell + 1
    BY <1>7 DEF Guns
  <2>2. Gun!Waited(v3) = [Gun!Waited(v3) EXCEPT !.dwell = Gun!Waited(v3).dwell]
    BY <1>7 DEF Guns
  <2>3. Gun!Least(Gun!Waited(v3).dwell + 1, Dwell + 1) \in 0 .. Dwell + 1 /\ 0 \in 0 .. Dwell + 1
    BY <2>1, GunAssumption DEF Gun!Least
  <2>4. CASE g = Gun!Waited(v3)
    BY <2>1, <2>2, <2>4
  <2>5. CASE g = Gun!Friction(Gun!Waited(v3), spin)
    <3>1. g = [Gun!Waited(v3) EXCEPT !.dwell = IF spin THEN Gun!Least(Gun!Waited(v3).dwell + 1, Dwell + 1) ELSE 0]
      BY <2>5 DEF Gun!Friction
    <3> QED
      BY <2>3, <3>1
  <2> QED
    BY <2>4, <2>5
<1>9. g \in Guns
  BY <1>7, <1>8 DEF Guns
<1> QED
  BY <1>1, <1>3, <1>4, <1>5, <1>6, <1>8, <1>9 DEF Guns

(* A gun that is stopped keeps the invariant: the dial coasts, or has been *)
(* given a reference while it rested.                                      *)
LEMMA GunQuiets ==
  ASSUME GunInv, v1 \in {"Begin", "Decide"}, Quiet(v3'), v1' \in {"Decide", "Turn"}, UNCHANGED <<v2, v5, v6>>,
         v3'.adopted = TRUE \/ v3'.adopted = v3.adopted,
         v3'.adopted => v3'.reference <= v4'.generation,
         v1' = "Decide" => ~v3'.jammed /\ v6 = 0 /\ v3'.adopted,
         v3'.last >= v3.last, v1' = "Turn" => v3'.last >= v2.id,
         \/ v4' = v4 /\ v3'.rounds >= v3.rounds
         \/ v4' = Gun!Reseeded /\ v4.fresh /\ ~v4.valid
  PROVE  GunInv'
<1> USE DEF GunInv
<1>1. v3' \in Guns /\ v3.rounds \in Nat /\ v3'.rounds \in Nat /\ Step \in Nat /\ Tolerance \in Nat
  BY GunRecords, GunNumbers, GunAssumption DEF Quiet
<1>2. v4' \in Dials /\ v4'.pos \in Nat /\ v4'.speed = v4.speed
      /\ v4'.generation + (IF v4'.valid THEN 0 ELSE 1) <= 2 * v4'.gaps - (IF v4'.fresh THEN 0 ELSE 2)
      /\ (~v4'.valid => ~v4.valid)
  <2>1. CASE v4' = v4
    BY <2>1, GunRecords DEF GunReferences
  <2>2. CASE v4' = Gun!Reseeded /\ v4.fresh /\ ~v4.valid
    <3>1. v4.generation + 1 <= 2 * v4.gaps /\ v4.gaps \in 0 .. MaxGaps
      BY <2>2, GunRecords DEF GunReferences, Dials
    <3>2. v4.generation + 1 \in 0 .. 2 * MaxGaps /\ 0 \in 0 .. Gun!Farthest
      BY <3>1, GunRecords, GunBounds, GunAssumption
    <3>3. v4' = [v4 EXCEPT !.valid = TRUE, !.generation = v4.generation + 1, !.pos = 0]
      BY <2>2 DEF Gun!Reseeded
    <3>4. v4' \in Dials /\ v4'.pos = 0 /\ v4'.speed = v4.speed /\ v4'.generation = v4.generation + 1
          /\ v4'.valid = TRUE /\ v4'.gaps = v4.gaps /\ v4'.fresh = v4.fresh
      BY <3>2, <3>3, GunRecords DEF Dials
    <3>5. v4'.generation + 0 <= 2 * v4'.gaps - 0
      BY <3>1, <3>4, GunRecords
    <3> QED
      BY <2>2, <3>4, <3>5, GunRecords
  <2> QED
    BY <2>1, <2>2
<1>3. v3'.active = FALSE /\ v3'.velocity = Gun!NoSpeed /\ v3'.staged = Gun!NoEffort /\ v3'.mode = "Disabled"
      /\ v3'.enable \in Nat
  BY <1>1, GunNumbers DEF Quiet
<1>4. ~Gun!Drives'
  BY <1>3 DEF Gun!Drives
<1>5. Gun!TypeOK'
  <2>1. v2' \in [id : 0 .. MaxClicks, fresh : BOOLEAN] /\ v5' \in 0 .. MaxClicks /\ v6' \in 0 .. Jam + 3
    BY DEF Gun!TypeOK
  <2> QED
    BY <1>1, <1>2, <2>1, GunTyped
<1>6. GunStops'
  <2>1. ComingRamp' = 0
    BY <1>4 DEF ComingRamp, Ramp, Gun!Slower
  <2>2. v4'.pos + Travel(v4.speed, 0) <= v3'.rounds * Step + Tolerance
    <3>1. CASE v4' = v4 /\ v3'.rounds >= v3.rounds
      <4>1. Gun!Slower(Ramp) \in Nat /\ v4.speed \in Nat /\ v4.pos \in Nat
        BY GunRecords DEF Gun!Slower
      <4>2. Travel(v4.speed, 0) <= Travel(v4.speed, Gun!Slower(Ramp)) /\ Travel(v4.speed, Gun!Slower(Ramp)) \in Nat
            /\ Travel(v4.speed, 0) \in Nat
        <5>1. 0 <= Gun!Slower(Ramp) /\ 0 \in Nat
          BY <4>1
        <5> QED
          BY <4>1, <5>1, TravelGrows
      <4>3. v3.rounds * Step <= v3'.rounds * Step /\ v3.rounds * Step \in Nat /\ v3'.rounds * Step \in Nat
        BY <1>1, <3>1
      <4>4. v4.pos + Travel(v4.speed, Gun!Slower(Ramp)) <= v3.rounds * Step + Tolerance
        BY DEF GunStops, ComingRamp, Allowed
      <4> QED
        BY <1>1, <3>1, <4>1, <4>2, <4>3, <4>4
    <3>2. CASE v4' = Gun!Reseeded /\ v4.fresh /\ ~v4.valid
      <4>1. v4.speed = 0 /\ v4'.pos = 0
        BY <3>2, GunRecords DEF GunReferences, Gun!Reseeded, Dials
      <4>2. Travel(0, 0) = 0
        BY TravelGrows, SquaresGrow
      <4>3. v3'.rounds * Step \in Nat
        BY <1>1
      <4> QED
        BY <1>1, <4>1, <4>2, <4>3
    <3> QED
      BY <3>1, <3>2
  <2> QED
    BY <1>2, <1>3, <2>1, <2>2 DEF GunStops, Allowed, Gun!PositionModes
<1>7. GunEfforts'
  BY <1>3, NothingIsKept DEF GunEfforts
<1>8. GunReferences'
  <2>1. IF v3'.adopted THEN v3'.reference <= v4'.generation ELSE v3'.mode = "Disabled"
    BY <1>3
  <2>2. ~v4'.valid => v4'.speed = 0
    BY <1>2 DEF GunReferences
  <2>3. ~Gun!IsSent(v3.staged)' /\ (v1' = "Decide" => v3'.adopted)
    BY <1>3, NothingIsKept DEF Gun!IsSent
  <2> QED
    BY <1>2, <1>4, <2>1, <2>2, <2>3 DEF GunReferences
<1>9. GunClicks'
  <2>1. v3'.last \in Nat /\ v3.last \in Nat /\ v2.id \in Nat /\ v5 \in Nat
    BY <1>1, GunRecords, GunNumbers
  <2> QED
    BY <1>3, <2>1 DEF GunClicks
<1>10. GunJams'
  BY <1>3, NothingIsKept DEF GunJams
<1> QED
  BY <1>5, <1>6, <1>7, <1>8, <1>9, <1>10

(* A gun that is still stays it when the friction wheels stop, the dial is *)
(* enabled, a reference is adopted or a click is consumed.                 *)
LEMMA GunStaysQuiet ==
  ASSUME Gun!TypeOK, NEW q, Quiet(q)
  PROVE  /\ Quiet([q EXCEPT !.dwell = 0]) /\ Quiet([q EXCEPT !.wanted = TRUE])
         /\ \A r \in 0 .. 2 * MaxGaps : Quiet([q EXCEPT !.adopted = TRUE, !.reference = r])
         /\ Quiet(Gun!Consumed(q)) /\ Gun!Consumed(q).last >= v2.id /\ Gun!Consumed(q).last >= q.last
         /\ Gun!Consumed(q).rounds = q.rounds /\ Gun!Consumed(q).jammed = q.jammed
         /\ Gun!Consumed(q).adopted = q.adopted /\ Gun!Consumed(q).reference = q.reference
<1>1. q \in Guns
  BY DEF Quiet
<1>2. 0 \in 0 .. Dwell + 1
  BY GunAssumption
<1>3. /\ [q EXCEPT !.dwell = 0] \in Guns /\ [q EXCEPT !.wanted = TRUE] \in Guns
      /\ \A r \in 0 .. 2 * MaxGaps : [q EXCEPT !.adopted = TRUE, !.reference = r] \in Guns
  BY <1>1, <1>2 DEF Guns
<1>4. Quiet([q EXCEPT !.dwell = 0]) /\ Quiet([q EXCEPT !.wanted = TRUE])
      /\ \A r \in 0 .. 2 * MaxGaps : Quiet([q EXCEPT !.adopted = TRUE, !.reference = r])
  BY <1>1, <1>3, ZenonT(60) DEF Quiet, Guns
<1>5. PICK last \in 0 .. MaxClicks : /\ Gun!Consumed(q) = [q EXCEPT !.last = last] /\ Gun!Consumed(q) \in Guns
                                     /\ last >= v2.id /\ last >= q.last
  BY <1>1, GunConsumes
<1>6. /\ Quiet(Gun!Consumed(q)) /\ Gun!Consumed(q).last = last
      /\ Gun!Consumed(q).rounds = q.rounds /\ Gun!Consumed(q).jammed = q.jammed
      /\ Gun!Consumed(q).adopted = q.adopted /\ Gun!Consumed(q).reference = q.reference
  BY <1>1, <1>5 DEF Quiet, Guns
<1> QED
  BY <1>4, <1>5, <1>6

(* What has waited, and goes on or is stopped in this cycle.               *)
Waiting(h) ==
    /\ h \in Guns /\ h.mode = v3.mode /\ h.velocity = v3.velocity /\ h.enable = v3.enable /\ h.last = v3.last
    /\ h.adopted = v3.adopted /\ h.reference = v3.reference

(* The feed that is stopped in a cycle whose click is consumed.            *)
LEMMA GunCeases ==
  ASSUME GunInv, v1 = "Begin", UNCHANGED <<v2, v4, v5, v6>>, v1' = "Turn",
         NEW h, Waiting(h), h.rounds = v3.rounds,
         v3' \in {Gun!Stopped(Gun!Consumed(h)), Gun!Suspended(Gun!Consumed(h))}
  PROVE  GunInv'
<1> USE DEF GunInv
<1>1. v3.last \in Nat /\ h.last \in Nat /\ v2.id \in Nat /\ v3.rounds \in Nat
  BY GunRecords, GunNumbers DEF Waiting
<1>2. PICK last \in 0 .. MaxClicks :
          /\ Gun!Consumed(h) = [h EXCEPT !.last = last] /\ Gun!Consumed(h) \in Guns
          /\ last >= v2.id /\ last >= h.last
  BY GunConsumes DEF Waiting
<1> DEFINE c == Gun!Consumed(h)
<1>3. c \in Guns /\ c.mode = v3.mode /\ c.velocity = v3.velocity /\ c.enable = v3.enable /\ c.last = last
        /\ c.rounds = v3.rounds /\ c.adopted = v3.adopted /\ c.reference = v3.reference
  BY <1>2 DEF Waiting, Guns
<1> HIDE DEF c
<1>4. v3.mode \notin VelocityModes => v3.velocity = Gun!NoSpeed
  BY DEF GunStops
<1> DEFINE s == Gun!Stopped(c)
<1>5. Quiet(s) /\ s.rounds = v3.rounds /\ s.adopted = v3.adopted /\ s.reference = v3.reference /\ s.last = last
  BY <1>3, <1>4, GunIsStopped
<1>6. v3' = s \/ v3' = [s EXCEPT !.dwell = 0]
  BY DEF c, Gun!Suspended
<1> HIDE DEF s
<1>7. Quiet(v3') /\ v3'.rounds = v3.rounds /\ v3'.adopted = v3.adopted /\ v3'.reference = v3.reference /\ v3'.last = last
  <2>1. CASE v3' = s
    BY <1>5, <2>1
  <2>2. CASE v3' = [s EXCEPT !.dwell = 0]
    <3>1. Quiet(v3')
      BY <1>5, <2>2, GunStaysQuiet
    <3>2. s \in Guns
      BY <1>5 DEF Quiet
    <3> QED
      BY <1>5, <2>2, <3>1, <3>2 DEF Guns
  <2> QED
    BY <1>6, <2>1, <2>2
<1>8. v3'.adopted => v3'.reference <= v4'.generation
  BY <1>7 DEF GunReferences
<1>9. v3'.last >= v2.id /\ v3'.last >= v3.last /\ v3'.rounds >= v3.rounds
  BY <1>1, <1>2, <1>7 DEF Waiting
<1>10. v3'.adopted = TRUE \/ v3'.adopted = v3.adopted
  BY <1>7
<1> QED
  BY <1>7, <1>8, <1>9, <1>10, GunQuiets

(* The feed that is stopped for another reference.                         *)
LEMMA GunAdopts ==
  ASSUME GunInv, v1 = "Begin", UNCHANGED <<v2, v5, v6>>, NEW h, Waiting(h), NEW d,
         \/ d = v4 /\ h.rounds = v3.rounds
         \/ d = Gun!Reseeded /\ v4.fresh /\ ~v4.valid,
         v4' = d, d.generation \in 0 .. 2 * MaxGaps,
         \/ v1' = "Turn" /\ v3' = Gun!Consumed(Gun!Adopted(h, d))
         \/ v1' = "Decide" /\ v3' = Gun!Enabled(Gun!Adopted(h, d)) /\ ~h.adopted /\ ~h.jammed
  PROVE  GunInv'
<1> USE DEF GunInv
<1>1. v3.last \in Nat /\ h.last \in Nat /\ v2.id \in Nat /\ v3.rounds \in Nat /\ v6 \in Nat /\ d.generation \in Nat
  BY GunRecords, GunNumbers, GunAssumption DEF Waiting
<1>2. v3.mode \notin VelocityModes => v3.velocity = Gun!NoSpeed
  BY DEF GunStops
<1> DEFINE s == Gun!Stopped(h)
           a == [s EXCEPT !.adopted = TRUE, !.reference = d.generation]
<1>3. Quiet(s) /\ s.rounds = h.rounds /\ s.last = v3.last /\ s.jammed = h.jammed
  BY <1>2, GunIsStopped DEF Waiting
<1>4. Gun!Adopted(h, d) = a
  BY DEF Gun!Adopted
<1> HIDE DEF s
<1>5. Quiet(a) /\ a.rounds = h.rounds /\ a.last = v3.last /\ a.jammed = h.jammed /\ a.adopted = TRUE
      /\ a.reference = d.generation
  <2>1. Quiet(a)
    BY <1>3, GunStaysQuiet
  <2>2. s \in Guns
    BY <1>3 DEF Quiet
  <2> QED
    BY <1>3, <2>1, <2>2 DEF Guns
<1> HIDE DEF a
<1>6. \/ v4' = v4 /\ h.rounds >= v3.rounds
      \/ v4' = Gun!Reseeded /\ v4.fresh /\ ~v4.valid
  BY <1>1
<1>7. CASE v1' = "Turn" /\ v3' = Gun!Consumed(Gun!Adopted(h, d))
  <2>1. Quiet(v3') /\ v3'.rounds = h.rounds /\ v3'.last >= v2.id /\ v3'.last >= a.last /\ v3'.adopted = TRUE
        /\ v3'.reference = d.generation
    <3>1. v3' = Gun!Consumed(a)
      BY <1>4, <1>7
    <3> QED
      BY <1>5, <3>1, GunStaysQuiet
  <2>2. v3'.adopted => v3'.reference <= v4'.generation
    BY <1>1, <2>1
  <2>3. v3'.last >= v3.last
    BY <1>5, <2>1
  <2>4. \/ v4' = v4 /\ v3'.rounds >= v3.rounds
        \/ v4' = Gun!Reseeded /\ v4.fresh /\ ~v4.valid
    BY <1>6, <2>1
  <2> QED
    BY <1>7, <2>1, <2>2, <2>3, <2>4, GunQuiets
<1>8. CASE v1' = "Decide" /\ v3' = Gun!Enabled(Gun!Adopted(h, d)) /\ ~h.adopted /\ ~h.jammed
  <2>1. v3' = [a EXCEPT !.wanted = TRUE]
    BY <1>4, <1>8 DEF Gun!Enabled
  <2>2. Quiet(v3') /\ v3'.rounds = h.rounds /\ v3'.last = v3.last /\ v3'.adopted = TRUE
        /\ v3'.reference = d.generation /\ v3'.jammed = h.jammed
    <3>1. Quiet(v3')
      BY <1>5, <2>1, GunStaysQuiet
    <3>2. a \in Guns
      BY <1>5 DEF Quiet
    <3> QED
      BY <1>5, <2>1, <3>1, <3>2 DEF Guns
  <2>3. v6 = 0
    <3>1. v3.mode = "Disabled"
      BY <1>8 DEF GunReferences, Waiting
    <3> QED
      BY <1>1, <3>1 DEF GunJams, FiringModes
  <2>4. v3'.adopted => v3'.reference <= v4'.generation
    BY <1>1, <2>2
  <2>5. v3'.last >= v3.last
    BY <1>1, <2>2
  <2>6. \/ v4' = v4 /\ v3'.rounds >= v3.rounds
        \/ v4' = Gun!Reseeded /\ v4.fresh /\ ~v4.valid
    BY <1>6, <2>2
  <2>7. v1' = "Decide" => ~v3'.jammed /\ v6 = 0 /\ v3'.adopted
    BY <1>8, <2>2, <2>3
  <2> QED
    BY <1>8, <2>2, <2>4, <2>5, <2>6, <2>7, GunQuiets
<1> QED
  BY <1>7, <1>8

(* The dial that is enabled and goes on.                                   *)
LEMMA GunGoesOn ==
  ASSUME GunInv, v1 = "Begin", UNCHANGED <<v2, v4, v5, v6>>, v1' = "Decide",
         v4.valid, v3.adopted, NEW spin \in BOOLEAN, ~v3.jammed,
         v3' = Gun!Enabled(Gun!Friction(Gun!Waited(v3), spin))
  PROVE  GunInv'
<1> USE DEF GunInv
<1> DEFINE g == Gun!Friction(Gun!Waited(v3), spin)
<1>1. /\ g \in Guns
      /\ g.mode = v3.mode /\ g.jammed = v3.jammed /\ g.adopted = v3.adopted /\ g.reference = v3.reference
      /\ g.target = v3.target /\ g.budget = v3.budget /\ g.progress = v3.progress /\ g.last = v3.last
      /\ g.rounds = v3.rounds /\ g.velocity = v3.velocity /\ g.active = v3.active /\ g.enable = v3.enable
      /\ g.staged.enable = v3.staged.enable /\ ~g.staged.new /\ (v3.settled = 0 => g.settled = 0)
      /\ (v3.mode \in FiringModes /\ v6 <= v3.since + 1 /\ v6 <= Jam => v6 <= g.since)
  BY GunWaits
<1>2. v3' = [g EXCEPT !.wanted = TRUE]
  BY DEF Gun!Enabled
<1> HIDE DEF g
<1>3. /\ v3' \in Guns
      /\ v3'.mode = v3.mode /\ v3'.jammed = v3.jammed /\ v3'.adopted = v3.adopted /\ v3'.reference = v3.reference
      /\ v3'.target = v3.target /\ v3'.budget = v3.budget /\ v3'.progress = v3.progress /\ v3'.last = v3.last
      /\ v3'.rounds = v3.rounds /\ v3'.velocity = v3.velocity /\ v3'.active = v3.active /\ v3'.enable = v3.enable
      /\ v3'.staged.enable = v3.staged.enable /\ ~v3'.staged.new /\ (v3.settled = 0 => v3'.settled = 0)
      /\ (v3.mode \in FiringModes /\ v6 <= v3.since + 1 /\ v6 <= Jam => v6 <= v3'.since)
  BY <1>1, <1>2, ZenonT(60) DEF Guns
<1>4. Gun!TypeOK'
  <2>1. v2' \in [id : 0 .. MaxClicks, fresh : BOOLEAN] /\ v5' \in 0 .. MaxClicks /\ v6' \in 0 .. Jam + 3
    BY DEF Gun!TypeOK
  <2> QED
    BY <1>3, <2>1, GunRecords, GunTyped
<1>5. GunStops'
  <2>1. ComingRamp' = ComingRamp
    BY <1>3 DEF ComingRamp, Ramp, Gun!Drives, Gun!VelocityIsHistory
  <2> QED
    BY <1>3, <2>1 DEF GunStops, Allowed
<1>6. GunEfforts' /\ GunReferences' /\ GunClicks'
  BY <1>3 DEF GunEfforts, GunReferences, GunClicks
<1>7. GunJams'
  <2>1. v6 \in Nat /\ v3.since \in Nat /\ v3'.since \in Nat /\ v6 <= Jam
    BY <1>3, GunRecords, GunNumbers DEF GunJams
  <2>2. ASSUME v6 > 0
        PROVE  /\ v3'.mode \in FiringModes /\ v6 <= v3'.since
               /\ v3'.mode = "SinglePosition" => v3'.settled = 0
               /\ v3'.mode = "ContinuousVelocity" => v4.pos < v3'.progress + Tolerance
    <3>1. /\ v3.mode \in FiringModes /\ v6 <= v3.since + 1
          /\ v3.mode = "SinglePosition" => v3.settled = 0
          /\ v3.mode = "ContinuousVelocity" => v4.pos < v3.progress + Tolerance
      BY <2>2 DEF GunJams
    <3> QED
      BY <1>3, <2>1, <3>1
  <2>3. ~v3'.jammed /\ ~v3'.staged.new
    BY <1>3
  <2> QED
    BY <2>1, <2>2, <2>3 DEF GunJams
<1> QED
  BY <1>4, <1>5, <1>6, <1>7

(* update(), to the enabling of the dial.                                  *)
LEMMA GunBegins == GunInv /\ Gun!Begin => GunInv'
<1> SUFFICES ASSUME GunInv, Gun!Begin PROVE GunInv'
  OBVIOUS
<1> USE DEF GunInv
<1>1. v1 = "Begin" /\ UNCHANGED <<v2, v5, v6>>
  BY DEF Gun!Begin
<1>2. CASE Gun!Finish(Gun!Suspended(Gun!Consumed([Gun!Waited(v3) EXCEPT !.jammed = FALSE]))) /\ UNCHANGED v4
  <2> DEFINE h == [Gun!Waited(v3) EXCEPT !.jammed = FALSE]
  <2>1. Waiting(h) /\ h.rounds = v3.rounds
    BY GunWaits, ZenonT(60) DEF Guns, Waiting
  <2>2. v3' = Gun!Suspended(Gun!Consumed(h)) /\ v4' = v4 /\ v1' = "Turn"
    BY <1>2 DEF Gun!Finish
  <2> HIDE DEF h
  <2> QED
    BY <1>1, <2>1, <2>2, GunCeases
<1>3. CASE Gun!Finish(Gun!Suspended(Gun!Consumed(Gun!Waited(v3)))) /\ UNCHANGED v4
  <2>1. Waiting(Gun!Waited(v3)) /\ Gun!Waited(v3).rounds = v3.rounds
    BY GunWaits DEF Waiting
  <2> QED
    BY <1>1, <1>3, <2>1, GunCeases DEF Gun!Finish
<1>4. ASSUME NEW spin \in BOOLEAN, NEW aim \in BOOLEAN, NEW home \in BOOLEAN,
              Gun!Permitted(Gun!Friction(Gun!Waited(v3), spin), aim, home)
      PROVE  GunInv'
  <2> DEFINE g == Gun!Friction(Gun!Waited(v3), spin)
  <2>1. Waiting(g) /\ g.rounds = v3.rounds /\ g.jammed = v3.jammed
    BY GunWaits DEF Waiting
  <2>2. \/ Gun!Finish(Gun!Stopped(Gun!Consumed(g))) /\ UNCHANGED v4
        \/ /\ ~Gun!Withheld(g, aim) /\ Gun!Reseeds(home) /\ v4' = Gun!Reseeded
           /\ Gun!Referenced([g EXCEPT !.staged = Gun!NoEffort, !.rounds = 0], Gun!Reseeded)
        \/ ~Gun!Withheld(g, aim) /\ Gun!Referenced(g, v4) /\ v4' = v4
    BY <1>4 DEF Gun!Permitted
  <2>3. v4.generation \in 0 .. 2 * MaxGaps /\ v4.gaps \in 0 .. MaxGaps /\ v3.reference \in Nat
    BY GunRecords, GunNumbers DEF Dials
  <2>4. v3.adopted => v3.reference <= v4.generation
    BY DEF GunReferences
  <2>5. CASE Gun!Finish(Gun!Stopped(Gun!Consumed(g))) /\ UNCHANGED v4
    <3> HIDE DEF g
    <3> QED
      BY <1>1, <2>1, <2>5, GunCeases DEF Gun!Finish
  <2>6. CASE /\ ~Gun!Withheld(g, aim) /\ Gun!Reseeds(home) /\ v4' = Gun!Reseeded
             /\ Gun!Referenced([g EXCEPT !.staged = Gun!NoEffort, !.rounds = 0], Gun!Reseeded)
    <3> DEFINE h == [g EXCEPT !.staged = Gun!NoEffort, !.rounds = 0]
               d == Gun!Reseeded
    <3> HIDE DEF g
    <3>1. ~v4.valid /\ v4.fresh /\ ~g.jammed
      BY <2>6 DEF Gun!Reseeds, Gun!Withheld
    <3>2. Waiting(h) /\ ~h.jammed /\ h.adopted = v3.adopted /\ h.reference = v3.reference
      <4>1. 0 \in 0 .. MaxRounds
        BY GunAssumption
      <4> QED
        BY <2>1, <3>1, <4>1, NothingIsKept DEF Guns, Waiting
    <3>3. d.fresh /\ d.valid /\ d.generation = v4.generation + 1 /\ d.generation \in 0 .. 2 * MaxGaps
      <4>1. v4.generation + 1 <= 2 * v4.gaps
        BY <2>3, <3>1, GunRecords DEF GunReferences
      <4>2. v4.generation + 1 \in 0 .. 2 * MaxGaps
        BY <2>3, <4>1, GunRecords, GunAssumption
      <4> QED
        BY <3>1, <4>2, GunRecords DEF Gun!Reseeded, Dials
    <3>4. h.adopted => h.reference # d.generation
      BY <2>3, <2>4, <3>2, <3>3, GunRecords
    <3> HIDE DEF h, d
    <3>5. Gun!Referenced(h, d) /\ v4' = d
      BY <2>6 DEF h, d
    <3>6. \/ v3' = Gun!Consumed(Gun!Adopted(h, d)) /\ v1' = "Turn"
          \/ v3' = Gun!Enabled(Gun!Adopted(h, d)) /\ v1' = "Decide" /\ ~h.adopted
      BY <3>3, <3>4, <3>5 DEF Gun!Referenced, Gun!Finish
    <3>7. d = Gun!Reseeded
      BY DEF d
    <3> QED
      BY <1>1, <3>1, <3>2, <3>3, <3>5, <3>6, <3>7, GunAdopts
  <2>7. CASE ~Gun!Withheld(g, aim) /\ Gun!Referenced(g, v4) /\ v4' = v4
    <3>1. ~g.jammed
      BY <2>7 DEF Gun!Withheld
    <3>2. g.adopted = v3.adopted
      BY <2>1 DEF Waiting
    <3> HIDE DEF g
    <3>3. CASE Gun!Finish(Gun!Stopped(Gun!Consumed(g)))
      BY <1>1, <2>1, <2>7, <3>3, GunCeases DEF Gun!Finish
    <3>4. CASE \/ Gun!Finish(Gun!Consumed(Gun!Adopted(g, v4)))
               \/ v3' = Gun!Enabled(Gun!Adopted(g, v4)) /\ v1' = "Decide" /\ ~g.adopted
      BY <1>1, <2>1, <2>3, <2>7, <3>1, <3>4, GunAdopts DEF Gun!Finish
    <3>5. CASE v3' = Gun!Enabled(g) /\ v1' = "Decide" /\ g.adopted /\ v4.valid
      BY <1>1, <2>1, <2>7, <3>1, <3>2, <3>5, GunGoesOn DEF g
    <3> QED
      BY <2>7, <3>3, <3>4, <3>5 DEF Gun!Referenced
  <2> QED
    BY <2>2, <2>5, <2>6, <2>7
<1> QED
  BY <1>2, <1>3, <1>4 DEF Gun!Begin

(* What update() makes of gun between the second snapshot and the third,   *)
(* unless it stops: the enabling and the reference stay, rounds are only   *)
(* added, and no effort of this cycle is staged yet.                       *)
Going(g) ==
    /\ g \in Guns /\ ~g.jammed /\ g.enable = v3.enable /\ g.active = v3.active
    /\ g.adopted = v3.adopted /\ g.reference = v3.reference
    /\ g.last >= v3.last /\ (g.accepted = v3.accepted \/ g.accepted > v5)
    /\ g.staged.enable <= g.enable /\ ~g.staged.new
    /\ g.velocity \in {v3.velocity, Gun!NoSpeed} /\ (g.mode \notin VelocityModes => g.velocity = Gun!NoSpeed)
    /\ g.rounds >= v3.rounds

(* A mode turns the dial within the rounds, and its timers know for how    *)
(* long it is stuck.                                                       *)
Aiming(g) ==
    /\ g.mode # "Disabled"
    /\ g.mode \in Gun!PositionModes => g.target <= g.rounds * Step + Tolerance
    /\ g.mode = "ContinuousVelocity" => g.budget <= g.rounds * Step
    /\ g.mode = "HoldPosition" => v6 = 0
    /\ g.mode \in FiringModes => v6 <= g.since
    /\ g.mode = "ContinuousVelocity" /\ v6 > 0 => v4.pos < g.progress + Tolerance

(* A single round that is on its way has not jammed.                       *)
OnTime(g) ==
    g.mode = "SinglePosition" => g.since < Jam /\ (g.settled > 0 => Gun!NearTarget(g))

(* A gun that stops in this cycle, by a jam.                               *)
Jams(g) ==
    /\ Quiet(g) /\ g.jammed /\ g.adopted = v3.adopted /\ g.reference = v3.reference
    /\ g.last >= v3.last /\ g.last >= v2.id /\ (g.accepted = v3.accepted \/ g.accepted > v5)
    /\ g.rounds >= v3.rounds

(* The modes that move the dial.                                           *)
LEMMA GunModes ==
  ASSUME NEW g, Going(g),
         NEW mode \in {"SinglePosition", "ContinuousVelocity", "BrakingVelocity", "HoldPosition"}
  PROVE  LET i == Gun!InMode(g, mode)
         IN  /\ Going(i) /\ i.mode = mode /\ i.target = g.target /\ i.budget = g.budget
             /\ i.progress = g.progress /\ i.since = g.since /\ i.settled = g.settled
             /\ i.rounds = g.rounds /\ i.last = g.last /\ i.accepted = g.accepted
<1> DEFINE i == Gun!InMode(g, mode)
<1>1. /\ g \in Guns /\ (g.mode \notin VelocityModes => g.velocity = Gun!NoSpeed)
      /\ mode \in {"Disabled", "SinglePosition", "ContinuousVelocity", "BrakingVelocity", "HoldPosition"}
  BY DEF Going
<1>2. PICK st \in {g.staged, Gun!NoEffort}, po \in {g.position, Gun!NoHistory}, ve \in {g.velocity, Gun!NoSpeed} :
        /\ i = [g EXCEPT !.mode = mode, !.staged = st, !.position = po, !.velocity = ve]
        /\ i \in Guns
        /\ (g.mode \notin VelocityModes => g.velocity = Gun!NoSpeed) /\ mode \notin VelocityModes => ve = Gun!NoSpeed
  <2>1. \E st \in {g.staged, Gun!NoEffort}, po \in {g.position, Gun!NoHistory}, ve \in {g.velocity, Gun!NoSpeed} :
          /\ i = [g EXCEPT !.mode = mode, !.staged = st, !.position = po, !.velocity = ve]
          /\ i \in Guns
          /\ (g.mode \notin VelocityModes => g.velocity = Gun!NoSpeed) /\ mode \notin VelocityModes =>
                ve = Gun!NoSpeed
          /\ g.mode \notin VelocityModes /\ mode \in VelocityModes => ve = Gun!NoSpeed
          /\ g.mode # "Disabled" /\ mode = "Disabled" => st = Gun!NoEffort
    <3> DEFINE m == mode
    <3>1. g \in Guns /\ m \in {"Disabled", "SinglePosition", "ContinuousVelocity", "BrakingVelocity", "HoldPosition"}
      BY <1>1
    <3> HIDE DEF m
    <3>2. \E st \in {g.staged, Gun!NoEffort}, po \in {g.position, Gun!NoHistory}, ve \in {g.velocity, Gun!NoSpeed} :
          /\ Gun!InMode(g, m) = [g EXCEPT !.mode = m, !.staged = st, !.position = po, !.velocity = ve]
          /\ Gun!InMode(g, m) \in Guns
          /\ (g.mode \notin VelocityModes => g.velocity = Gun!NoSpeed) /\ m \notin VelocityModes =>
                ve = Gun!NoSpeed
          /\ g.mode \notin VelocityModes /\ m \in VelocityModes => ve = Gun!NoSpeed
          /\ g.mode # "Disabled" /\ m = "Disabled" => st = Gun!NoEffort
      BY <3>1, GunTakesMode
    <3> QED
      BY <3>2 DEF m
  <2> QED
    BY <2>1
<1> HIDE DEF i
<1>3. /\ i.mode = mode /\ i.target = g.target /\ i.budget = g.budget
      /\ i.progress = g.progress /\ i.since = g.since /\ i.settled = g.settled
      /\ i.rounds = g.rounds /\ i.last = g.last /\ i.accepted = g.accepted
      /\ i.jammed = g.jammed /\ i.enable = g.enable /\ i.active = g.active /\ i.adopted = g.adopted
      /\ i.reference = g.reference /\ i.staged = st /\ i.velocity = ve
  BY <1>1, <1>2 DEF Guns
<1>4. st.enable <= g.enable /\ ~st.new
  <2>1. g.enable \in Nat
    BY <1>1, GunNumbers
  <2> QED
    BY <2>1, NothingIsKept DEF Going
<1>5. ve \in {v3.velocity, Gun!NoSpeed}
  BY DEF Going
<1>6. Going(i)
  BY <1>1, <1>2, <1>3, <1>4, <1>5 DEF Going
<1> QED
  BY <1>3, <1>6 DEF i

(* A jam is noticed.                                                       *)
LEMMA GunIsJammed ==
  ASSUME Gun!TypeOK, NEW g, Going(g)
  PROVE  Jams(Gun!Jammed(g))
<1> DEFINE j == [g EXCEPT !.jammed = TRUE]
<1>1. g \in Guns
  BY DEF Going
<1>2. j \in Guns /\ j.jammed /\ j.enable = v3.enable /\ j.adopted = v3.adopted /\ j.reference = v3.reference
      /\ j.last = g.last /\ j.accepted = g.accepted /\ j.rounds = g.rounds
      /\ (j.mode \notin VelocityModes => j.velocity = Gun!NoSpeed)
  BY <1>1 DEF Going, Guns
<1> HIDE DEF j
<1>3. PICK last \in 0 .. MaxClicks :
          /\ Gun!Consumed(j) = [j EXCEPT !.last = last] /\ Gun!Consumed(j) \in Guns
          /\ last >= v2.id /\ last >= j.last
  BY <1>2, GunConsumes
<1> DEFINE c == Gun!Consumed(j)
<1>4. c \in Guns /\ c.jammed /\ c.enable = v3.enable /\ c.adopted = v3.adopted /\ c.reference = v3.reference
      /\ c.last = last /\ c.accepted = g.accepted /\ c.rounds = g.rounds
      /\ (c.mode \notin VelocityModes => c.velocity = Gun!NoSpeed)
  BY <1>2, <1>3 DEF Guns
<1> HIDE DEF c
<1> DEFINE s == Gun!Stopped(c)
<1>5. Quiet(s) /\ s.rounds = c.rounds /\ s.jammed = c.jammed /\ s.adopted = c.adopted /\ s.reference = c.reference
      /\ s.last = c.last /\ s.accepted = c.accepted
  BY <1>4, GunIsStopped
<1>6. g.last \in Nat /\ v3.last \in Nat /\ last \in Nat /\ v2.id \in Nat /\ g.last >= v3.last /\ g.rounds >= v3.rounds
  BY <1>1, GunRecords, GunNumbers, GunAssumption DEF Going
<1>7. Gun!Jammed(g) = s
  BY DEF Gun!Jammed, s, c, j
<1> HIDE DEF s
<1>8. s.last >= v3.last /\ s.last >= v2.id
  BY <1>2, <1>3, <1>4, <1>5, <1>6
<1>9. g.accepted = v3.accepted \/ g.accepted > v5
  BY DEF Going
<1> QED
  BY <1>4, <1>5, <1>6, <1>7, <1>8, <1>9 DEF Jams

(* The number of a settled time.                                           *)
LEMMA GunSettles ==
  ASSUME NEW g, Going(g), NEW settled \in BOOLEAN
  PROVE  \E n \in 0 .. Settle + 1 :
            /\ Gun!SettledFor(g, settled) = [g EXCEPT !.settled = n]
            /\ Going([g EXCEPT !.settled = n])
            /\ n > 0 => settled
            /\ g.settled = 0 => n <= Settle
<1> DEFINE n == IF ~settled THEN 0 ELSE Gun!Greatest(g.settled, 1)
<1>1. g \in Guns /\ g.settled \in 0 .. Settle + 1
  BY DEF Going, Guns
<1>2. n \in 0 .. Settle + 1 /\ (n > 0 => settled) /\ (g.settled = 0 => n <= Settle)
  BY <1>1, GunAssumption DEF Gun!Greatest
<1>3. Gun!SettledFor(g, settled) = [g EXCEPT !.settled = n]
  BY DEF Gun!SettledFor
<1> HIDE DEF n
<1>4. [g EXCEPT !.settled = n] \in Guns
  BY <1>1, <1>2 DEF Guns
<1>5. Going([g EXCEPT !.settled = n])
  <2> DEFINE s == [g EXCEPT !.settled = n]
  <2>1. s \in Guns /\ s.jammed = g.jammed /\ s.enable = g.enable /\ s.active = g.active /\ s.adopted = g.adopted
        /\ s.reference = g.reference /\ s.last = g.last /\ s.accepted = g.accepted /\ s.staged = g.staged
        /\ s.velocity = g.velocity /\ s.mode = g.mode /\ s.rounds = g.rounds
    BY <1>1, <1>4 DEF Guns
  <2> HIDE DEF s
  <2>2. Going(s)
    BY <2>1 DEF Going
  <2> QED
    BY <2>2 DEF s
<1> QED
  BY <1>2, <1>3, <1>5

(* A gun whose fields of the mode have changed goes on.                    *)
LEMMA GoingOn ==
  ASSUME NEW g, Going(g), NEW i \in Guns, i.mode = g.mode, i.jammed = g.jammed, i.enable = g.enable,
         i.active = g.active, i.adopted = g.adopted, i.reference = g.reference, i.staged = g.staged,
         i.velocity = g.velocity, i.last >= v3.last, i.accepted = v3.accepted \/ i.accepted > v5,
         i.rounds >= v3.rounds
  PROVE  Going(i)
  BY DEF Going

(* The dial is where it was allowed to be.                                 *)
LEMMA GunRests == GunInv => v4.pos <= v3.rounds * Step + Tolerance
<1> SUFFICES ASSUME GunInv PROVE v4.pos <= v3.rounds * Step + Tolerance
  OBVIOUS
<1>1. v4.pos \in Nat /\ v4.speed \in Nat /\ Ramp \in Nat /\ v3.rounds * Step \in Nat /\ v3.requested \in Nat
  BY GunRecords, GunNumbers DEF GunInv
<1>2. ComingRamp \in Nat
  BY <1>1 DEF ComingRamp, Gun!Slower, Gun!Towards
<1>3. Travel(v4.speed, ComingRamp) \in Nat
  BY <1>1, <1>2, TravelGrows
<1> QED
  BY <1>1, <1>3, GunAssumption DEF GunInv, GunStops, Allowed

(* What a cycle begins from at its second snapshot.                        *)
LEMMA GunWakes ==
  ASSUME GunInv, v1 = "Decide", Gun!Drives
  PROVE  LET w == Gun!WakeUp(v3)
         IN  /\ Going(w) /\ Aiming(w) /\ w.rounds = v3.rounds /\ w.accepted = v3.accepted
             /\ w.mode = "BrakingVelocity" => v6 = 0
             /\ w.mode = "SinglePosition" /\ v6 > 0 => w.settled = 0
<1> USE DEF GunInv
<1>1. v3 \in Guns /\ v4.pos \in 0 .. Gun!Farthest /\ v4.pos \in Nat /\ v4.speed \in Nat /\ v6 \in Nat
      /\ v3.rounds * Step \in Nat /\ v3.last \in Nat /\ v3.rounds \in Nat /\ v3.since \in Nat
  BY GunRecords, GunNumbers DEF Dials
<1>2. Going(v3)
  BY <1>1 DEF Going, GunJams, GunStops, GunEfforts
<1>3. v4.pos <= v3.rounds * Step + Tolerance
  BY GunRests
<1>4. v6 > 0 => /\ v3.mode \in FiringModes /\ v6 <= v3.since
                /\ v3.mode = "SinglePosition" => v3.settled = 0
                /\ v3.mode = "ContinuousVelocity" => v4.pos < v3.progress + Tolerance
  <2>1. v6 <= v3.since + 0 => v6 <= v3.since
    BY <1>1
  <2> QED
    BY <2>1 DEF GunJams
<1>5. CASE v3.mode # "Disabled"
  <2>1. Gun!WakeUp(v3) = v3
    BY <1>5 DEF Gun!WakeUp
  <2>2. Aiming(v3)
    BY <1>1, <1>4, <1>5 DEF Aiming, GunStops, Allowed, FiringModes, Gun!PositionModes
  <2>3. v3.mode = "BrakingVelocity" => v6 = 0
    BY <1>1, <1>4 DEF FiringModes
  <2> QED
    BY <1>2, <1>4, <2>1, <2>2, <2>3
<1>6. CASE v3.mode = "Disabled"
  <2> DEFINE t == [v3 EXCEPT !.target = v4.pos]
             w == Gun!InMode(t, "HoldPosition")
  <2>1. t \in Guns /\ t.target = v4.pos /\ t.rounds = v3.rounds /\ t.accepted = v3.accepted /\ t.mode = v3.mode
        /\ t.jammed = v3.jammed /\ t.enable = v3.enable
        /\ t.active = v3.active /\ t.adopted = v3.adopted /\ t.reference = v3.reference /\ t.staged = v3.staged
        /\ t.velocity = v3.velocity /\ t.last = v3.last
    BY <1>1 DEF Guns
  <2> HIDE DEF t
  <2>2. Going(t)
    BY <1>1, <1>2, <2>1, GoingOn
  <2>3. Going(w) /\ w.mode = "HoldPosition" /\ w.target = t.target /\ w.rounds = t.rounds /\ w.accepted = t.accepted
    BY <2>2, GunModes
  <2>4. Gun!WakeUp(v3) = w
    BY <1>6 DEF Gun!WakeUp, t
  <2> HIDE DEF w
  <2>5. v6 = 0
    BY <1>1, <1>4, <1>6 DEF FiringModes
  <2>6. Aiming(w)
    BY <1>3, <2>1, <2>3, <2>5 DEF Aiming, FiringModes
  <2> QED
    BY <2>1, <2>3, <2>4, <2>5, <2>6
<1> QED
  BY <1>5, <1>6

(* A single round arrives, or jams.                                        *)
LEMMA GunArrives ==
  ASSUME GunInv, NEW g, Going(g), Aiming(g), g.accepted = v3.accepted,
         g.mode = "SinglePosition" /\ v6 > 0 => g.settled = 0
  PROVE  LET a == Gun!Arrival(g)
         IN  \/ Jams(a)
             \/ /\ Going(a) /\ Aiming(a) /\ OnTime(a) /\ a.rounds = g.rounds /\ a.accepted = g.accepted
                /\ a.mode = "BrakingVelocity" => g.mode = "BrakingVelocity"
<1> USE DEF GunInv
<1> DEFINE near == Gun!NearTarget(g) /\ v4.speed = 0
<1>1. v6 \in Nat /\ g \in Guns /\ g.since \in Nat
  BY GunRecords, GunNumbers DEF Going
<1>2. CASE g.mode # "SinglePosition"
  BY <1>2 DEF Gun!Arrival, OnTime
<1>3. CASE g.mode = "SinglePosition"
  <2>1. near \in BOOLEAN
    OBVIOUS
  <2>2. PICK n \in 0 .. Settle + 1 :
            /\ Gun!SettledFor(g, near) = [g EXCEPT !.settled = n] /\ Going([g EXCEPT !.settled = n])
            /\ n > 0 => near
            /\ g.settled = 0 => n <= Settle
    BY <2>1, GunSettles
  <2> DEFINE s == [g EXCEPT !.settled = n]
             z == [s EXCEPT !.settled = 0]
             h == Gun!InMode(z, "HoldPosition")
  <2>3. s.mode = g.mode /\ s.settled = n /\ s.since = g.since /\ s.target = g.target /\ s.rounds = g.rounds
        /\ s.accepted = g.accepted
    BY <1>1 DEF Guns
  <2>4. Gun!Arrival(g) = IF n > Settle THEN h ELSE IF g.since >= Jam THEN Gun!Jammed(s) ELSE s
    BY <1>3, <2>2, <2>3 DEF Gun!Arrival, Gun!HasSettled
  <2>5. Going(s) /\ n \in Nat
    BY <2>2, GunAssumption
  <2>6. near => Gun!NearTarget(g)
    OBVIOUS
  <2> HIDE DEF near
  <2>7. CASE n > Settle
    <3>1. v6 = 0
      BY <1>1, <1>3, <2>2, <2>5, <2>7, GunAssumption
    <3>2. 0 \in 0 .. Settle + 1 /\ s \in Guns
      BY <2>5, GunAssumption DEF Going
    <3>3. z \in Guns /\ z.mode = s.mode /\ z.jammed = s.jammed /\ z.enable = s.enable /\ z.active = s.active
          /\ z.adopted = s.adopted /\ z.reference = s.reference /\ z.staged = s.staged /\ z.velocity = s.velocity
          /\ z.last = s.last /\ z.accepted = s.accepted /\ z.rounds = s.rounds /\ z.target = s.target
      <4> HIDE DEF s
      <4> QED
        BY <3>2 DEF Guns
    <3>4. Going(z)
      <4> HIDE DEF z, s
      <4>1. s.last >= v3.last /\ (s.accepted = v3.accepted \/ s.accepted > v5) /\ s.rounds >= v3.rounds
        BY <2>5 DEF Going
      <4> QED
        BY <2>5, <3>3, <4>1, GoingOn
    <3>5. Going(h) /\ h.mode = "HoldPosition" /\ h.target = z.target /\ h.rounds = z.rounds /\ h.accepted = z.accepted
      <4> HIDE DEF z
      <4> QED
        BY <3>4, GunModes
    <3> HIDE DEF h, z, s
    <3>6. Aiming(h) /\ OnTime(h)
      BY <1>3, <2>3, <3>1, <3>3, <3>5 DEF Aiming, OnTime, FiringModes, Gun!PositionModes
    <3> QED
      BY <2>3, <2>4, <2>7, <3>3, <3>5, <3>6
  <2>8. CASE ~(n > Settle) /\ g.since >= Jam
    <3> HIDE DEF s, h
    <3> QED
      BY <2>3, <2>4, <2>5, <2>8, GunIsJammed
  <2>9. CASE ~(n > Settle) /\ ~(g.since >= Jam)
    <3>1. g.since < Jam
      BY <1>1, <2>9, GunAssumption
    <3>2. Gun!NearTarget(s) <=> Gun!NearTarget(g)
      BY <2>3 DEF Gun!NearTarget
    <3> HIDE DEF s, h
    <3>3. Aiming(s) /\ OnTime(s)
      BY <1>3, <2>2, <2>3, <2>6, <3>1, <3>2 DEF Aiming, OnTime, FiringModes, Gun!PositionModes
    <3> QED
      BY <1>3, <2>3, <2>4, <2>5, <2>9, <3>3
  <2> QED
    BY <2>7, <2>8, <2>9
<1> QED
  BY <1>2, <1>3

(* startBraking() begins with timers of its own.                           *)
LEMMA GunBrakes ==
  ASSUME NEW g, Going(g)
  PROVE  LET b == Gun!Braking(g)
         IN  /\ Going(b) /\ b.mode = "BrakingVelocity" /\ b.settled = 0 /\ b.rounds = g.rounds
             /\ b.accepted = g.accepted /\ b.last = g.last
<1> DEFINE i == Gun!InMode(g, "BrakingVelocity")
           b == Gun!Braking(g)
<1>1. Going(i) /\ i.mode = "BrakingVelocity" /\ i.rounds = g.rounds /\ i.accepted = g.accepted /\ i.last = g.last
  BY GunModes
<1>2. b = [i EXCEPT !.since = 0, !.settled = 0]
  BY DEF Gun!Braking
<1> HIDE DEF i, b
<1>3. i \in Guns /\ 0 \in 0 .. Gun!TimerEnd /\ 0 \in 0 .. Settle + 1
  BY <1>1, GunAssumption, GunBounds DEF Going
<1>4. b \in Guns /\ b.mode = i.mode /\ b.jammed = i.jammed /\ b.enable = i.enable /\ b.active = i.active
      /\ b.adopted = i.adopted /\ b.reference = i.reference /\ b.staged = i.staged /\ b.velocity = i.velocity
      /\ b.last = i.last /\ b.accepted = i.accepted /\ b.rounds = i.rounds /\ b.settled = 0
  BY <1>2, <1>3 DEF Guns
<1>5. Going(b)
  <2>1. i.last >= v3.last /\ (i.accepted = v3.accepted \/ i.accepted > v5) /\ i.rounds >= v3.rounds
    BY <1>1 DEF Going
  <2> QED
    BY <1>1, <1>4, <2>1, GoingOn
<1> QED
  BY <1>1, <1>4, <1>5 DEF b

(* Continuous firing stops, and the dial has braked, or does not.          *)
LEMMA GunStands ==
  ASSUME GunInv, NEW g, Going(g), Aiming(g), OnTime(g), g.accepted = v3.accepted,
         g.mode = "BrakingVelocity" => v6 = 0, NEW order
  PROVE  LET a == Gun!Standstill(Gun!StopFiring(g, order))
         IN  \/ Jams(a)
             \/ Going(a) /\ Aiming(a) /\ OnTime(a) /\ a.rounds = g.rounds /\ a.accepted = g.accepted
<1> USE DEF GunInv
<1> DEFINE f == Gun!StopFiring(g, order)
           a == Gun!Standstill(f)
           still == v4.speed = 0
<1>1. /\ Going(f) /\ Aiming(f) /\ OnTime(f) /\ f.rounds = g.rounds /\ f.accepted = g.accepted
      /\ f.mode = "BrakingVelocity" /\ v6 > 0 => f.settled = 0
  <2>1. CASE g.mode = "ContinuousVelocity" /\ order # "FireContinuous"
    <3>1. f = Gun!Braking(g)
      BY <2>1 DEF Gun!StopFiring
    <3>2. Going(f) /\ f.mode = "BrakingVelocity" /\ f.settled = 0 /\ f.rounds = g.rounds /\ f.accepted = g.accepted
      BY <3>1, GunBrakes
    <3> HIDE DEF f
    <3> QED
      BY <3>2 DEF Aiming, OnTime, FiringModes, Gun!PositionModes
  <2>2. CASE ~(g.mode = "ContinuousVelocity" /\ order # "FireContinuous")
    <3>1. f = g
      BY <2>2 DEF Gun!StopFiring
    <3>2. v6 = 0 => ~(v6 > 0)
      OBVIOUS
    <3> HIDE DEF f
    <3> QED
      BY <3>1, <3>2
  <2> QED
    BY <2>1, <2>2
<1> HIDE DEF f
<1>2. f \in Guns /\ v6 \in Nat /\ v3.rounds \in Nat /\ v4.pos \in 0 .. Gun!Farthest /\ v4.pos \in Nat
      /\ v3.rounds * Step \in Nat /\ f.rounds \in Nat /\ f.rounds * Step \in Nat
  BY <1>1, GunRecords, GunNumbers DEF Going, Dials
<1>3. v4.pos <= f.rounds * Step + Tolerance
  <2>1. f.rounds * Step >= v3.rounds * Step
    BY <1>1, <1>2, GunAssumption DEF Going
  <2>2. v4.pos <= v3.rounds * Step + Tolerance
    BY GunRests
  <2> QED
    BY <1>2, <2>1, <2>2, GunAssumption
<1>4. CASE f.mode # "BrakingVelocity"
  <2>1. a = f
    BY <1>4 DEF Gun!Standstill
  <2> QED
    BY <1>1, <2>1 DEF f
<1>5. CASE f.mode = "BrakingVelocity"
  <2>1. still \in BOOLEAN
    OBVIOUS
  <2>2. PICK n \in 0 .. Settle + 1 :
            /\ Gun!SettledFor(f, still) = [f EXCEPT !.settled = n] /\ Going([f EXCEPT !.settled = n])
            /\ n > 0 => still
            /\ f.settled = 0 => n <= Settle
    BY <1>1, <2>1, GunSettles
  <2> DEFINE s == [f EXCEPT !.settled = n]
             z == [s EXCEPT !.target = v4.pos, !.budget = 0, !.settled = 0]
             h == Gun!InMode(z, "HoldPosition")
  <2>3. s.mode = f.mode /\ s.settled = n /\ s.since = f.since /\ s.rounds = f.rounds /\ s.accepted = f.accepted
    BY <1>2 DEF Guns
  <2>4. a = IF n > Settle THEN h ELSE IF f.since >= Brake THEN Gun!Jammed(s) ELSE s
    BY <1>5, <2>2, <2>3 DEF Gun!Standstill, Gun!HasSettled
  <2>5. Going(s) /\ n \in Nat
    BY <2>2, GunAssumption
  <2>6. CASE n > Settle
    <3>1. v6 = 0
      BY <1>1, <1>2, <1>5, <2>2, <2>5, <2>6, GunAssumption
    <3>2. 0 \in 0 .. Settle + 1 /\ 0 \in 0 .. Gun!Farthest /\ s \in Guns
      BY <2>5, GunAssumption, GunBounds DEF Going
    <3>3. z \in Guns /\ z.mode = s.mode /\ z.jammed = s.jammed /\ z.enable = s.enable /\ z.active = s.active
          /\ z.adopted = s.adopted /\ z.reference = s.reference /\ z.staged = s.staged /\ z.velocity = s.velocity
          /\ z.last = s.last /\ z.accepted = s.accepted /\ z.rounds = s.rounds /\ z.target = v4.pos
      <4> HIDE DEF s
      <4> QED
        BY <1>2, <3>2 DEF Guns
    <3>4. Going(z)
      <4> HIDE DEF z, s
      <4>1. s.last >= v3.last /\ (s.accepted = v3.accepted \/ s.accepted > v5) /\ s.rounds >= v3.rounds
        BY <2>5 DEF Going
      <4> QED
        BY <2>5, <3>3, <4>1, GoingOn
    <3>5. Going(h) /\ h.mode = "HoldPosition" /\ h.target = z.target /\ h.rounds = z.rounds /\ h.accepted = z.accepted
      <4> HIDE DEF z
      <4> QED
        BY <3>4, GunModes
    <3> HIDE DEF h, z, s
    <3>6. Aiming(h) /\ OnTime(h)
      BY <1>3, <2>3, <3>1, <3>3, <3>5 DEF Aiming, OnTime, FiringModes, Gun!PositionModes
    <3> HIDE DEF a
    <3>7. a = h
      BY <2>4, <2>6
    <3> QED
      BY <1>1, <2>3, <3>3, <3>5, <3>6, <3>7 DEF a, f
  <2>7. CASE ~(n > Settle) /\ f.since >= Brake
    <3> HIDE DEF s, h, a
    <3>1. a = Gun!Jammed(s)
      BY <2>4, <2>7
    <3>2. Jams(a)
      BY <2>5, <3>1, GunIsJammed
    <3> QED
      BY <3>2 DEF a, f
  <2>8. CASE ~(n > Settle) /\ ~(f.since >= Brake)
    <3> HIDE DEF s, h, a
    <3>1. a = s
      BY <2>4, <2>8
    <3>2. Aiming(s) /\ OnTime(s)
      BY <1>5, <2>3 DEF Aiming, OnTime, FiringModes, Gun!PositionModes
    <3> QED
      BY <1>1, <2>3, <2>5, <3>1, <3>2 DEF a, f
  <2> QED
    BY <2>6, <2>7, <2>8
<1> QED
  BY <1>4, <1>5

(* The index after the dial is one more step than was reserved.            *)
LEMMA IndexIsNext ==
  ASSUME GunInv, NEW n \in Nat, n >= v3.rounds, n < MaxRounds
  PROVE  /\ Gun!NextIndex(v4.pos) \in 0 .. Gun!Farthest /\ Gun!NextIndex(v4.pos) <= (n + 1) * Step
         /\ n + 1 \in 0 .. MaxRounds /\ (n + 1) * Step \in Nat
<1> USE GunAssumption
<1>1. v4.pos \in Nat /\ v3.rounds \in Nat /\ v3.rounds * Step \in Nat
  BY GunRecords, GunNumbers DEF GunInv
<1> DEFINE x == v4.pos + Tolerance
           q == x \div Step
<1>2. x \in Nat
  BY <1>1
<1>3. v3.rounds * Step <= n * Step /\ n * Step \in Nat /\ (n + 1) * Step = n * Step + Step
  BY <1>1
<1>4. x < (n + 1) * Step
  BY <1>1, <1>3, GunRests
<1> HIDE DEF x
<1>5. q \in Nat /\ q <= n
  BY <1>2, <1>4, StepsDivide
<1> HIDE DEF q
<1>6. (q + 1) * Step \in Nat /\ (q + 1) * Step <= (n + 1) * Step
  BY <1>5
<1>7. (n + 1) * Step <= MaxRounds * Step
  <2>1. n + 1 <= MaxRounds /\ n + 1 \in Nat
    OBVIOUS
  <2> QED
    BY <2>1
<1>8. Gun!NextIndex(v4.pos) = (q + 1) * Step
  BY DEF Gun!NextIndex, q, x
<1> QED
  BY <1>3, <1>6, <1>7, <1>8, GunBounds

(* A click is consumed, and a round that it asks for is reserved.          *)
LEMMA GunSingles ==
  ASSUME GunInv, NEW g, Going(g), Aiming(g), OnTime(g), NEW order, NEW room \in Nat,
         g.rounds + room <= MaxRounds, g.accepted = v3.accepted
  PROVE  LET b    == Gun!Single(g, order, room)
             left == room - (b.rounds - g.rounds)
         IN  /\ Going(b) /\ Aiming(b) /\ OnTime(b) /\ b.last >= v2.id
             /\ left \in Nat /\ b.rounds + left <= MaxRounds
<1> USE DEF GunInv
<1> DEFINE c == Gun!Consumed(g)
<1>1. g \in Guns /\ g.rounds \in Nat /\ g.last \in Nat /\ g.rounds >= v3.rounds /\ g.last >= v3.last
      /\ v5 <= v3.last /\ v5 \in Nat /\ v3.last \in Nat /\ v3.rounds \in Nat /\ v2.id \in Nat
  BY GunRecords, GunNumbers DEF Going, GunClicks
<1>2. PICK last \in 0 .. MaxClicks : /\ c = [g EXCEPT !.last = last] /\ c \in Guns
                                     /\ last >= v2.id /\ last >= g.last
  BY <1>1, GunConsumes
<1> HIDE DEF c
<1>3. c.last = last /\ c.mode = g.mode /\ c.jammed = g.jammed /\ c.enable = g.enable /\ c.active = g.active
      /\ c.adopted = g.adopted /\ c.reference = g.reference /\ c.staged = g.staged /\ c.velocity = g.velocity
      /\ c.accepted = g.accepted /\ c.rounds = g.rounds /\ c.target = g.target /\ c.budget = g.budget
      /\ c.progress = g.progress /\ c.since = g.since /\ c.settled = g.settled
  BY <1>1, <1>2 DEF Guns
<1>4. c.last >= v3.last /\ c.last >= v2.id
  BY <1>1, <1>2, <1>3, GunAssumption
<1>5. Going(c)
  BY <1>1, <1>2, <1>3, <1>4, GoingOn
<1>6. CASE ~Gun!Accepts(g, order, room)
  <2>1. Gun!Single(g, order, room) = c
    BY <1>6 DEF Gun!Single, c
  <2>2. Gun!NearTarget(c) <=> Gun!NearTarget(g)
    BY <1>3 DEF Gun!NearTarget
  <2>3. Aiming(c) /\ OnTime(c)
    BY <1>3, <2>2 DEF Aiming, OnTime
  <2>4. room - (c.rounds - g.rounds) = room /\ c.rounds + room <= MaxRounds
    BY <1>1, <1>3
  <2> QED
    BY <1>4, <1>5, <2>1, <2>3, <2>4
<1>7. CASE Gun!Accepts(g, order, room)
  <2>1. v2.id > g.last /\ g.mode = "HoldPosition" /\ room > 0
    BY <1>7 DEF Gun!Accepts
  <2> DEFINE index == Gun!NextIndex(v4.pos)
             id == v2.id
             n == g.rounds + 1
             z == [c EXCEPT !.accepted = id, !.rounds = n, !.target = index, !.since = 0, !.settled = 0]
             b == Gun!InMode(z, "SinglePosition")
  <2>2. g.rounds < MaxRounds
    BY <1>1, <2>1, GunAssumption
  <2>3. index \in 0 .. Gun!Farthest /\ index <= n * Step /\ n \in 0 .. MaxRounds /\ n * Step \in Nat
    BY <1>1, <2>2, IndexIsNext
  <2>4. id \in 0 .. MaxClicks /\ 0 \in 0 .. Gun!TimerEnd /\ 0 \in 0 .. Settle + 1
    BY GunAssumption, GunBounds DEF Gun!TypeOK
  <2>5. Gun!Single(g, order, room) = b
    BY <1>3, <1>7 DEF Gun!Single, c
  <2>6. n > g.rounds /\ n >= v3.rounds /\ id > v5 /\ room - (n - g.rounds) \in Nat
        /\ n + (room - (n - g.rounds)) <= MaxRounds
    BY <1>1, <2>1, GunAssumption
  <2> HIDE DEF index, id, n
  <2>7. z \in Guns /\ z.accepted = id /\ z.rounds = n /\ z.target = index /\ z.since = 0 /\ z.settled = 0
        /\ z.mode = c.mode /\ z.jammed = c.jammed /\ z.enable = c.enable /\ z.active = c.active
        /\ z.adopted = c.adopted /\ z.reference = c.reference /\ z.staged = c.staged /\ z.velocity = c.velocity
        /\ z.last = c.last
    BY <1>2, <2>3, <2>4, ZenonT(60) DEF Guns
  <2> HIDE DEF z
  <2>8. Going(z)
    BY <1>4, <1>5, <2>6, <2>7, GoingOn
  <2>9. Going(b) /\ b.mode = "SinglePosition" /\ b.target = z.target /\ b.since = z.since /\ b.settled = z.settled
        /\ b.rounds = z.rounds /\ b.last = z.last
    BY <2>8, GunModes
  <2> HIDE DEF b
  <2>10. v6 = 0
    BY <2>1 DEF Aiming
  <2>11. b.target <= b.rounds * Step + Tolerance
    BY <2>3, <2>7, <2>9, GunAssumption
  <2>12. Aiming(b) /\ OnTime(b)
    BY <2>7, <2>9, <2>10, <2>11, GunAssumption DEF Aiming, OnTime, FiringModes, Gun!PositionModes
  <2> QED
    BY <1>4, <2>5, <2>6, <2>7, <2>9, <2>12
<1> QED
  BY <1>6, <1>7

(* Continuous firing starts with a round.                                  *)
LEMMA GunFires ==
  ASSUME GunInv, NEW g, Going(g), Aiming(g), OnTime(g), NEW order, NEW room \in Nat, g.rounds + room <= MaxRounds
  PROVE  LET c    == Gun!StartFiring(g, order, room)
             left == room - (c.rounds - g.rounds)
         IN  /\ Going(c) /\ Aiming(c) /\ OnTime(c) /\ c.last = g.last
             /\ left \in Nat /\ c.rounds + left <= MaxRounds
<1> USE DEF GunInv
<1>1. g \in Guns /\ g.rounds \in Nat /\ g.rounds >= v3.rounds /\ v3.rounds \in Nat /\ g.last >= v3.last
      /\ (g.accepted = v3.accepted \/ g.accepted > v5)
  BY GunRecords, GunNumbers DEF Going
<1>2. CASE ~(order = "FireContinuous" /\ g.mode = "HoldPosition" /\ room > 0)
  <2>1. Gun!StartFiring(g, order, room) = g
    BY <1>2 DEF Gun!StartFiring
  <2>2. room - (g.rounds - g.rounds) = room
    BY <1>1
  <2> QED
    BY <2>1, <2>2
<1>3. CASE order = "FireContinuous" /\ g.mode = "HoldPosition" /\ room > 0
  <2> DEFINE index == Gun!NextIndex(v4.pos)
             pos == v4.pos
             n == g.rounds + 1
             z == [g EXCEPT !.rounds = n, !.budget = index, !.progress = pos, !.since = 0]
             c == Gun!InMode(z, "ContinuousVelocity")
  <2>1. g.rounds < MaxRounds
    BY <1>1, <1>3, GunAssumption
  <2>2. index \in 0 .. Gun!Farthest /\ index <= n * Step /\ n \in 0 .. MaxRounds
    BY <1>1, <2>1, IndexIsNext
  <2>3. pos \in 0 .. Gun!Farthest /\ pos \in Nat /\ 0 \in 0 .. Gun!TimerEnd
    BY GunRecords, GunBounds DEF Dials
  <2>4. Gun!StartFiring(g, order, room) = c
    BY <1>3 DEF Gun!StartFiring
  <2>5. n >= v3.rounds /\ room - (n - g.rounds) \in Nat /\ n + (room - (n - g.rounds)) <= MaxRounds
    BY <1>1, <1>3, GunAssumption
  <2> HIDE DEF index, pos, n
  <2>6. z \in Guns /\ z.accepted = g.accepted /\ z.rounds = n /\ z.budget = index /\ z.since = 0 /\ z.progress = pos
        /\ z.mode = g.mode /\ z.jammed = g.jammed /\ z.enable = g.enable /\ z.active = g.active
        /\ z.adopted = g.adopted /\ z.reference = g.reference /\ z.staged = g.staged /\ z.velocity = g.velocity
        /\ z.last = g.last
    BY <1>1, <2>2, <2>3 DEF Guns
  <2> HIDE DEF z
  <2>7. Going(z)
    BY <1>1, <2>5, <2>6, GoingOn
  <2>8. Going(c) /\ c.mode = "ContinuousVelocity" /\ c.budget = z.budget /\ c.since = z.since
        /\ c.rounds = z.rounds /\ c.last = z.last
    BY <2>7, GunModes
  <2> HIDE DEF c
  <2>9. v6 = 0
    BY <1>3 DEF Aiming
  <2>10. Aiming(c) /\ OnTime(c)
    BY <2>2, <2>6, <2>8, <2>9 DEF Aiming, OnTime, FiringModes, Gun!PositionModes
  <2> QED
    BY <2>4, <2>5, <2>6, <2>8, <2>10
<1> QED
  BY <1>2, <1>3

(* The rounds of a continuous feed reach as far as the dial may turn from  *)
(* this cycle on.                                                          *)
Reaching(g, speed) ==
    g.mode = "ContinuousVelocity" => v4.pos + Gun!Lookahead(speed) < g.rounds * Step

(* The rounds of what continuous firing turns in this cycle and in braking *)
(* are reserved, or it brakes now.                                         *)
LEMMA GunReserves ==
  ASSUME GunInv, NEW g, Going(g), Aiming(g), OnTime(g), NEW speed \in Speeds, NEW room \in Nat,
         g.rounds + room <= MaxRounds
  PROVE  LET d == Gun!Reserve(g, speed, room)
         IN  Going(d) /\ Aiming(d) /\ OnTime(d) /\ d.last = g.last /\ Reaching(d, speed)
<1> USE DEF GunInv
<1> DEFINE reach == v4.pos + Gun!Lookahead(speed)
           needed == IF reach >= g.budget THEN (reach - g.budget) \div Step + 1 ELSE 0
           taken == Gun!Least(needed, room)
           more == g.rounds + taken
           budget == g.budget + taken * Step
           r == [g EXCEPT !.rounds = more, !.budget = budget]
           d == Gun!Reserve(g, speed, room)
<1>1. g \in Guns /\ g.rounds \in Nat /\ g.budget \in Nat /\ g.rounds >= v3.rounds /\ v3.rounds \in Nat
      /\ g.last >= v3.last /\ (g.accepted = v3.accepted \/ g.accepted > v5) /\ v4.pos \in Nat /\ v4.speed \in Nat
      /\ speed \in Nat
  BY GunRecords, GunNumbers, GunAssumption DEF Going
<1>2. CASE g.mode # "ContinuousVelocity"
  BY <1>2 DEF Gun!Reserve, Reaching
<1>3. CASE g.mode = "ContinuousVelocity"
  <2>1. reach \in Nat
    <3> DEFINE v == Gun!Greatest(speed, v4.speed)
    <3>1. v \in Nat
      BY <1>1 DEF Gun!Greatest
    <3>2. Gun!Lookahead(speed) = v * v + 2 * v + Tolerance
      BY DEF Gun!Lookahead
    <3> HIDE DEF v
    <3>3. v * v \in Nat
      BY <3>1
    <3> QED
      BY <1>1, <3>1, <3>2, <3>3, GunAssumption
  <2>2. d = IF taken < needed THEN Gun!Braking(r) ELSE r
    BY <1>3 DEF Gun!Reserve
  <2> HIDE DEF reach, d
  <2>3. needed \in Nat /\ reach < g.budget + needed * Step
    <3>1. CASE reach >= g.budget
      <4> DEFINE x == reach - g.budget
                 q == x \div Step
      <4>1. x \in Nat /\ reach = g.budget + x
        BY <1>1, <2>1, <3>1
      <4> HIDE DEF x
      <4>2. q \in Nat /\ x < (q + 1) * Step /\ (q + 1) * Step \in Nat
        BY <4>1, StepsDivide
      <4>3. needed = q + 1
        BY <3>1 DEF x
      <4> HIDE DEF q, needed
      <4> QED
        BY <1>1, <2>1, <4>1, <4>2, <4>3
    <3>2. CASE ~(reach >= g.budget)
      <4>1. needed = 0 /\ reach < g.budget
        BY <1>1, <2>1, <3>2
      <4> QED
        BY <1>1, <4>1, GunAssumption
    <3> QED
      BY <3>1, <3>2
  <2> HIDE DEF needed
  <2>4. taken \in Nat /\ taken <= room /\ (taken < needed \/ taken = needed)
    BY <2>3 DEF Gun!Least
  <2> HIDE DEF taken
  <2>5. /\ more \in 0 .. MaxRounds /\ more >= v3.rounds /\ more >= g.rounds
        /\ taken * Step \in Nat /\ more * Step \in Nat /\ more * Step = g.rounds * Step + taken * Step
        /\ g.rounds * Step \in Nat /\ more * Step <= MaxRounds * Step
    <3>1. more \in 0 .. MaxRounds /\ more >= v3.rounds /\ more >= g.rounds
      BY <1>1, <2>4, GunAssumption
    <3>2. taken * Step \in Nat /\ more * Step \in Nat /\ more * Step = g.rounds * Step + taken * Step
          /\ g.rounds * Step \in Nat
      BY <1>1, <2>4, GunAssumption
    <3> HIDE DEF more
    <3>3. more * Step <= MaxRounds * Step
      BY <3>1, GunAssumption
    <3> QED
      BY <3>1, <3>2, <3>3
  <2>6. budget \in 0 .. Gun!Farthest /\ budget <= more * Step
    <3>1. g.budget <= g.rounds * Step
      BY <1>3 DEF Aiming
    <3> HIDE DEF more
    <3> QED
      BY <1>1, <2>5, <3>1, GunBounds, GunAssumption
  <2>7. taken = needed => reach < budget
    BY <2>3
  <2>8. more \in 0 .. MaxRounds /\ more >= v3.rounds
    BY <2>5
  <2> HIDE DEF more, budget
  <2>9. r \in Guns /\ r.rounds = more /\ r.budget = budget
        /\ r.mode = g.mode /\ r.jammed = g.jammed /\ r.enable = g.enable /\ r.active = g.active
        /\ r.adopted = g.adopted /\ r.reference = g.reference /\ r.staged = g.staged /\ r.velocity = g.velocity
        /\ r.last = g.last /\ r.accepted = g.accepted /\ r.since = g.since /\ r.progress = g.progress
    BY <1>1, <2>6, <2>8 DEF Guns
  <2> HIDE DEF r
  <2>10. Going(r)
    BY <1>1, <2>8, <2>9, GoingOn
  <2>11. CASE taken < needed
    <3>1. Going(d) /\ d.mode = "BrakingVelocity" /\ d.last = r.last
      BY <2>2, <2>10, <2>11, GunBrakes
    <3>2. Aiming(d) /\ OnTime(d) /\ Reaching(d, speed)
      BY <3>1 DEF Aiming, OnTime, Reaching, FiringModes, Gun!PositionModes
    <3> QED
      BY <2>9, <3>1, <3>2 DEF d
  <2>12. CASE taken = needed
    <3>1. d = r
      BY <2>2, <2>3, <2>12
    <3>2. Aiming(r) /\ OnTime(r)
      BY <1>3, <2>6, <2>9 DEF Aiming, OnTime, FiringModes, Gun!PositionModes
    <3>3. Reaching(r, speed)
      <4>1. budget \in Nat /\ more * Step \in Nat
        BY <2>6, <2>8, GunBounds, GunAssumption
      <4>2. reach < more * Step
        BY <2>1, <2>6, <2>7, <2>12, <4>1
      <4> QED
        BY <2>9, <4>2 DEF Reaching, reach
    <3> QED
      BY <2>9, <2>10, <3>1, <3>2, <3>3 DEF d
  <2> QED
    BY <2>4, <2>11, <2>12
<1> QED
  BY <1>2, <1>3

(* Continuous firing gets on, or jams.                                     *)
LEMMA GunProgresses ==
  ASSUME GunInv, NEW g, Going(g), Aiming(g), OnTime(g), NEW speed \in Speeds, Reaching(g, speed), g.last >= v2.id
  PROVE  LET d == Gun!Progress(g)
         IN  \/ Jams(d)
             \/ /\ Going(d) /\ Aiming(d) /\ OnTime(d) /\ Reaching(d, speed) /\ d.last >= v2.id
                /\ d.mode = "ContinuousVelocity" => d.since < Jam /\ v4.pos < d.progress + Tolerance
<1> USE DEF GunInv
<1> DEFINE d == Gun!Progress(g)
<1>1. g \in Guns /\ g.since \in Nat /\ g.progress \in Nat /\ v4.pos \in 0 .. Gun!Farthest /\ v4.pos \in Nat /\ v6 \in Nat
      /\ g.last >= v3.last /\ (g.accepted = v3.accepted \/ g.accepted > v5) /\ g.rounds >= v3.rounds
  BY GunRecords, GunNumbers DEF Going, Dials
<1>2. CASE g.mode # "ContinuousVelocity"
  BY <1>2 DEF Gun!Progress
<1>3. CASE g.mode = "ContinuousVelocity" /\ v4.pos >= g.progress + Tolerance
  <2> DEFINE r == [g EXCEPT !.progress = v4.pos, !.since = 0]
  <2>1. d = r
    BY <1>3 DEF Gun!Progress
  <2>2. 0 \in 0 .. Gun!TimerEnd
    BY GunAssumption, GunBounds
  <2> HIDE DEF d
  <2>3. r \in Guns /\ r.progress = v4.pos /\ r.since = 0
        /\ r.mode = g.mode /\ r.jammed = g.jammed /\ r.enable = g.enable /\ r.active = g.active
        /\ r.adopted = g.adopted /\ r.reference = g.reference /\ r.staged = g.staged /\ r.velocity = g.velocity
        /\ r.last = g.last /\ r.accepted = g.accepted /\ r.rounds = g.rounds /\ r.budget = g.budget
    BY <1>1, <2>2 DEF Guns
  <2> HIDE DEF r
  <2>4. Going(r)
    BY <1>1, <2>3, GoingOn
  <2>5. v6 = 0
    <3>1. ~(v4.pos < g.progress + Tolerance)
      BY <1>1, <1>3, GunAssumption
    <3> QED
      BY <1>1, <1>3, <3>1 DEF Aiming
  <2>6. Aiming(r) /\ OnTime(r) /\ Reaching(r, speed)
    BY <1>3, <2>3, <2>5 DEF Aiming, OnTime, Reaching, FiringModes, Gun!PositionModes
  <2>7. r.since < Jam /\ v4.pos < r.progress + Tolerance
    BY <1>1, <2>3, GunAssumption
  <2> QED
    BY <2>1, <2>3, <2>4, <2>6, <2>7 DEF d
<1>4. CASE g.mode = "ContinuousVelocity" /\ ~(v4.pos >= g.progress + Tolerance) /\ g.since >= Jam
  <2>1. d = Gun!Jammed(g)
    BY <1>4 DEF Gun!Progress
  <2>2. Jams(d)
    BY <2>1, GunIsJammed
  <2> QED
    BY <2>2
<1>5. CASE g.mode = "ContinuousVelocity" /\ ~(v4.pos >= g.progress + Tolerance) /\ ~(g.since >= Jam)
  <2>1. d = g
    BY <1>5 DEF Gun!Progress
  <2>2. v4.pos < g.progress + Tolerance /\ g.since < Jam
    BY <1>1, <1>5, GunAssumption
  <2> HIDE DEF d
  <2> QED
    BY <2>1, <2>2 DEF d
<1> QED
  BY <1>2, <1>3, <1>4, <1>5

(* What a cycle decides.                                                   *)
LEMMA GunDecided ==
  ASSUME GunInv, v1 = "Decide", Gun!Drives, NEW order \in Gun!Orders, NEW speed \in Speeds,
         NEW room \in 0 .. MaxRounds - v3.rounds
  PROVE  LET e == Gun!Decided(order, speed, room)
         IN  \/ Jams(e)
             \/ /\ Going(e) /\ Aiming(e) /\ OnTime(e) /\ Reaching(e, speed) /\ e.last >= v2.id
                /\ e.mode = "ContinuousVelocity" => e.since < Jam /\ v4.pos < e.progress + Tolerance
                /\ e.requested = IF e.mode = "ContinuousVelocity" THEN speed ELSE 0
<1> USE DEF GunInv
<1> DEFINE w == Gun!WakeUp(v3)
           x == Gun!Arrival(w)
           a == Gun!Standstill(Gun!StopFiring(x, order))
           b == Gun!Single(a, order, room)
           c == Gun!StartFiring(b, order, room - (b.rounds - a.rounds))
           r == Gun!Reserve(c, speed, room - (c.rounds - a.rounds))
           d == Gun!Progress(r)
           e == Gun!Decided(order, speed, room)
           asked == IF d.mode = "ContinuousVelocity" THEN speed ELSE 0
<1>1. e = IF a.jammed THEN a ELSE [d EXCEPT !.requested = asked]
  BY DEF Gun!Decided
<1>2. v3.rounds \in Nat /\ room \in Nat /\ v3.rounds + room <= MaxRounds
  BY GunRecords, GunNumbers, GunAssumption
<1>3. /\ Going(w) /\ Aiming(w) /\ w.rounds = v3.rounds /\ w.accepted = v3.accepted
      /\ w.mode = "BrakingVelocity" => v6 = 0
      /\ w.mode = "SinglePosition" /\ v6 > 0 => w.settled = 0
  BY GunWakes
<1> HIDE DEF w
<1>4. \/ Jams(x)
      \/ /\ Going(x) /\ Aiming(x) /\ OnTime(x) /\ x.rounds = v3.rounds /\ x.accepted = v3.accepted
         /\ x.mode = "BrakingVelocity" => v6 = 0
  BY <1>3, GunArrives
<1> HIDE DEF x
<1>5. \/ Jams(a)
      \/ Going(a) /\ Aiming(a) /\ OnTime(a) /\ a.rounds = v3.rounds /\ a.accepted = v3.accepted
  <2>1. CASE Jams(x)
    <3>1. x.mode = "Disabled"
      BY <2>1 DEF Jams, Quiet
    <3>2. a = x
      BY <3>1 DEF Gun!StopFiring, Gun!Standstill
    <3> QED
      BY <2>1, <3>2
  <2>2. CASE /\ Going(x) /\ Aiming(x) /\ OnTime(x) /\ x.rounds = v3.rounds /\ x.accepted = v3.accepted
             /\ x.mode = "BrakingVelocity" => v6 = 0
    BY <2>2, GunStands
  <2> QED
    BY <1>4, <2>1, <2>2
<1> HIDE DEF a, e
<1>6. CASE Jams(a)
  <2>1. e = a
    BY <1>1, <1>6 DEF Jams
  <2> QED
    BY <1>6, <2>1 DEF e
<1>7. CASE Going(a) /\ Aiming(a) /\ OnTime(a) /\ a.rounds = v3.rounds /\ a.accepted = v3.accepted
  <2> DEFINE left == room - (b.rounds - a.rounds)
             rest == left - (c.rounds - b.rounds)
  <2>1. Going(b) /\ Aiming(b) /\ OnTime(b) /\ b.last >= v2.id /\ left \in Nat /\ b.rounds + left <= MaxRounds
    BY <1>2, <1>7, GunSingles
  <2> HIDE DEF b
  <2>2. Going(c) /\ Aiming(c) /\ OnTime(c) /\ c.last = b.last /\ rest \in Nat /\ c.rounds + rest <= MaxRounds
    <3> HIDE DEF left
    <3>1. c = Gun!StartFiring(b, order, left)
      BY DEF left
    <3> QED
      BY <2>1, <3>1, GunFires
  <2>3. rest = room - (c.rounds - a.rounds)
    <3>1. a.rounds \in Nat /\ b.rounds \in Nat /\ c.rounds \in Nat
      BY <1>7, <2>1, <2>2, GunNumbers DEF Going
    <3> HIDE DEF c
    <3> QED
      BY <1>2, <3>1
  <2> HIDE DEF c, rest
  <2>4. Going(r) /\ Aiming(r) /\ OnTime(r) /\ r.last = c.last /\ Reaching(r, speed)
    BY <2>2, <2>3, GunReserves
  <2> HIDE DEF r
  <2>5. \/ Jams(d)
        \/ /\ Going(d) /\ Aiming(d) /\ OnTime(d) /\ Reaching(d, speed) /\ d.last >= v2.id
           /\ d.mode = "ContinuousVelocity" => d.since < Jam /\ v4.pos < d.progress + Tolerance
    BY <2>1, <2>2, <2>4, GunProgresses
  <2> HIDE DEF d
  <2>6. e = [d EXCEPT !.requested = asked] /\ d \in Guns /\ asked \in {0} \cup Speeds
    BY <1>1, <1>7, <2>5 DEF Going, Jams, Quiet
  <2> HIDE DEF asked
  <2>7. e \in Guns /\ e.requested = asked /\ e.mode = d.mode /\ e.jammed = d.jammed /\ e.enable = d.enable
        /\ e.active = d.active /\ e.adopted = d.adopted /\ e.reference = d.reference /\ e.staged = d.staged
        /\ e.velocity = d.velocity /\ e.last = d.last /\ e.accepted = d.accepted /\ e.rounds = d.rounds
    BY <2>6 DEF Guns
  <2>8. e.since = d.since /\ e.settled = d.settled /\ e.target = d.target /\ e.budget = d.budget
        /\ e.progress = d.progress
    BY <2>6 DEF Guns
  <2>9. CASE Jams(d)
    <3>1. Jams(e)
      BY <2>7, <2>9 DEF Jams, Quiet
    <3> QED
      BY <3>1 DEF e
  <2>10. CASE /\ Going(d) /\ Aiming(d) /\ OnTime(d) /\ Reaching(d, speed) /\ d.last >= v2.id
              /\ d.mode = "ContinuousVelocity" => d.since < Jam /\ v4.pos < d.progress + Tolerance
    <3>1. Going(e)
      BY <2>7, <2>10 DEF Going
    <3>2. Gun!NearTarget(e) <=> Gun!NearTarget(d)
      BY <2>8 DEF Gun!NearTarget
    <3>3. Aiming(e) /\ OnTime(e) /\ Reaching(e, speed)
      BY <2>7, <2>8, <2>10, <3>2 DEF Aiming, OnTime, Reaching
    <3>4. e.requested = IF e.mode = "ContinuousVelocity" THEN speed ELSE 0
      BY <2>7 DEF asked
    <3>5. e.last >= v2.id /\ (e.mode = "ContinuousVelocity" => e.since < Jam /\ v4.pos < e.progress + Tolerance)
      BY <2>7, <2>8, <2>10
    <3> QED
      BY <3>1, <3>3, <3>4, <3>5 DEF e
  <2> QED
    BY <2>5, <2>9, <2>10
<1> QED
  BY <1>5, <1>6, <1>7

(* A dial that may be driven in this cycle is allowed what it may turn.    *)
LEMMA GunReaches ==
  ASSUME GunInv, v1 = "Decide", Gun!Drives, NEW e, Going(e), Aiming(e), NEW speed \in Speeds, Reaching(e, speed),
         e.requested = IF e.mode = "ContinuousVelocity" THEN speed ELSE 0,
         NEW ramp \in {0, Ramp}
  PROVE  \A asked \in {0, e.requested} :
            v4.pos + Travel(v4.speed, Gun!Towards(ramp, asked)) <= e.rounds * Step + Tolerance
<1> USE DEF GunInv
<1>1. e \in Guns /\ v4.pos \in Nat /\ v4.speed \in Nat /\ Ramp \in Nat /\ ramp \in Nat /\ v3.rounds \in Nat
      /\ e.rounds \in Nat /\ e.rounds * Step \in Nat /\ v3.rounds * Step \in Nat /\ e.rounds >= v3.rounds
      /\ speed \in Nat /\ e.requested \in Nat
  BY GunRecords, GunNumbers, GunAssumption DEF Going
<1>2. e.rounds * Step >= v3.rounds * Step
  BY <1>1, GunAssumption
<1> DEFINE now == Gun!Slower(Ramp)
<1>3. now \in Nat /\ Gun!Slower(ramp) \in Nat /\ Gun!Slower(ramp) <= now
  BY <1>1 DEF Gun!Slower
<1>4. v4.pos + Travel(v4.speed, now) <= v3.rounds * Step + Tolerance
  BY DEF GunStops, ComingRamp, Allowed
<1> HIDE DEF now
<1>5. ASSUME NEW q \in Nat, q <= now PROVE v4.pos + Travel(v4.speed, q) <= e.rounds * Step + Tolerance
  <2>1. Travel(v4.speed, q) <= Travel(v4.speed, now) /\ Travel(v4.speed, q) \in Nat /\ Travel(v4.speed, now) \in Nat
    BY <1>1, <1>3, <1>5, TravelGrows
  <2> QED
    BY <1>1, <1>2, <1>4, <2>1, GunAssumption
<1>6. ASSUME NEW q \in Nat, e.mode = "ContinuousVelocity", q <= speed
      PROVE  v4.pos + Travel(v4.speed, q) <= e.rounds * Step + Tolerance
  <2> DEFINE v == Gun!Greatest(speed, v4.speed)
  <2>1. v \in Nat /\ v4.speed <= v /\ q <= v
    BY <1>1, <1>6 DEF Gun!Greatest
  <2>2. Gun!Lookahead(speed) = Square(v) + 2 * v + Tolerance
    BY DEF Gun!Lookahead, Square
  <2> HIDE DEF v
  <2>3. Square(v) \in Nat
    BY <2>1, SquaresGrow
  <2>4. Travel(v4.speed, q) <= Square(v) + 2 * v /\ Travel(v4.speed, q) \in Nat
    BY <1>1, <2>1, TravelGrows
  <2>5. v4.pos + Gun!Lookahead(speed) < e.rounds * Step
    BY <1>6 DEF Reaching
  <2> QED
    BY <1>1, <2>1, <2>2, <2>3, <2>4, <2>5, GunAssumption
<1>7. ASSUME NEW asked \in {0, e.requested}
      PROVE  v4.pos + Travel(v4.speed, Gun!Towards(ramp, asked)) <= e.rounds * Step + Tolerance
  <2> DEFINE t == Gun!Towards(ramp, asked)
  <2>1. t \in Nat /\ (t = Gun!Slower(ramp) \/ (t <= asked /\ asked > 0) \/ t = 0)
    BY <1>1 DEF Gun!Towards, Gun!Slower
  <2> HIDE DEF t
  <2>2. CASE t <= now
    BY <1>5, <2>1, <2>2 DEF t
  <2>3. CASE t <= asked /\ asked > 0
    <3>1. e.mode = "ContinuousVelocity" /\ asked = speed
      BY <2>3
    <3> QED
      BY <1>6, <2>1, <2>3, <3>1 DEF t
  <2>4. t <= now \/ (t <= asked /\ asked > 0)
    BY <1>3, <2>1
  <2> QED
    BY <2>2, <2>3, <2>4
<1> QED
  BY <1>7

(* update(), from the second snapshot.                                     *)
LEMMA GunDecides == GunInv /\ Gun!Decide => GunInv' /\ (v3'.accepted = v3.accepted \/ v3'.accepted > v5)
<1> SUFFICES ASSUME GunInv, Gun!Decide PROVE GunInv' /\ (v3'.accepted = v3.accepted \/ v3'.accepted > v5)
  OBVIOUS
<1> USE DEF GunInv
<1>1. v1 = "Decide" /\ UNCHANGED <<v2, v4, v5, v6>>
  BY DEF Gun!Decide
<1>2. v2 \in [id : 0 .. MaxClicks, fresh : BOOLEAN] /\ v5 \in 0 .. MaxClicks /\ v6 \in 0 .. Jam + 3 /\ v4 \in Dials
  BY GunRecords DEF Gun!TypeOK
<1>3. v3 \in Guns /\ v3.last \in Nat /\ v5 \in Nat /\ v2.id \in Nat /\ v5 <= v3.last /\ v6 \in Nat /\ v6 <= Jam
      /\ v3.adopted /\ (v3.adopted => v3.reference <= v4.generation)
  BY <1>1, GunRecords, GunNumbers DEF GunClicks, GunJams, GunReferences
<1>4. CASE ~Gun!Drives /\ Gun!Finish(Gun!Consumed(v3))
  <2>1. PICK last \in 0 .. MaxClicks : /\ Gun!Consumed(v3) = [v3 EXCEPT !.last = last] /\ Gun!Consumed(v3) \in Guns
                                       /\ last >= v2.id /\ last >= v3.last
    BY <1>3, GunConsumes
  <2>2. v1' = "Turn" /\ v3' = [v3 EXCEPT !.last = last] /\ v3' \in Guns
    BY <1>4, <2>1 DEF Gun!Finish
  <2>3. /\ v3'.last = last /\ v3'.mode = v3.mode /\ v3'.adopted = v3.adopted
        /\ v3'.reference = v3.reference /\ v3'.target = v3.target /\ v3'.budget = v3.budget
        /\ v3'.rounds = v3.rounds /\ v3'.velocity = v3.velocity /\ v3'.active = v3.active
        /\ v3'.enable = v3.enable /\ v3'.staged = v3.staged /\ v3'.accepted = v3.accepted
    BY <1>3, <2>2 DEF Guns
  <2>4. ~Gun!Drives'
    BY <1>1, <1>4, <2>3 DEF Gun!Drives
  <2>5. Gun!TypeOK'
    BY <1>1, <1>2, <2>2, GunTyped
  <2>6. GunStops'
    <3>1. ComingRamp' = 0
      BY <2>2, <2>4 DEF ComingRamp, Ramp
    <3>2. ComingRamp = 0
      BY <1>1, <1>4 DEF ComingRamp, Ramp, Gun!Slower
    <3> QED
      BY <1>1, <2>2, <2>3, <3>1, <3>2 DEF GunStops, Allowed
  <2>7. GunEfforts'
    BY <2>3, <2>4 DEF GunEfforts
  <2>8. GunReferences'
    <3>1. ~Gun!IsSent(v3.staged)'
      BY <2>4 DEF Gun!IsSent
    <3> QED
      BY <1>1, <2>2, <2>3, <2>4, <3>1 DEF GunReferences
  <2>9. GunClicks'
    <3>1. v5 <= last
      BY <1>3, <2>1, GunAssumption
    <3> QED
      BY <1>1, <2>1, <2>3, <3>1 DEF GunClicks
  <2>10. GunJams'
    BY <1>1, <1>3, <2>2, <2>3 DEF GunJams
  <2> QED
    BY <2>3, <2>5, <2>6, <2>7, <2>8, <2>9, <2>10
<1>5. ASSUME Gun!Drives, NEW order \in Gun!Orders, NEW speed \in Speeds, NEW room \in 0 .. MaxRounds - v3.rounds,
             v3' = Gun!Decided(order, speed, room), v1' = IF v3'.jammed THEN "Turn" ELSE "Drive"
      PROVE  GunInv' /\ (v3'.accepted = v3.accepted \/ v3'.accepted > v5)
  <2> DEFINE e == v3'
  <2>1. \/ Jams(e)
        \/ /\ Going(e) /\ Aiming(e) /\ OnTime(e) /\ Reaching(e, speed) /\ e.last >= v2.id
           /\ e.mode = "ContinuousVelocity" => e.since < Jam /\ v4.pos < e.progress + Tolerance
           /\ e.requested = IF e.mode = "ContinuousVelocity" THEN speed ELSE 0
    BY <1>1, <1>5, GunDecided
  <2>2. CASE Jams(v3')
    <3>1. v1' = "Turn" /\ Quiet(v3') /\ v3'.adopted = v3.adopted /\ v3'.reference = v3.reference
          /\ v3'.last >= v3.last /\ v3'.last >= v2.id /\ (v3'.accepted = v3.accepted \/ v3'.accepted > v5)
          /\ v3'.rounds >= v3.rounds
      BY <1>5, <2>2 DEF Jams
    <3>2. v3'.adopted => v3'.reference <= v4'.generation
      BY <1>1, <1>3, <3>1
    <3>3. v3'.adopted = TRUE \/ v3'.adopted = v3.adopted
      BY <3>1
    <3>4. GunInv'
      BY <1>1, <3>1, <3>2, <3>3, GunQuiets
    <3> QED
      BY <3>1, <3>4
  <2>3. CASE /\ Going(e) /\ Aiming(e) /\ OnTime(e) /\ Reaching(e, speed) /\ e.last >= v2.id
             /\ e.mode = "ContinuousVelocity" => e.since < Jam /\ v4.pos < e.progress + Tolerance
             /\ e.requested = IF e.mode = "ContinuousVelocity" THEN speed ELSE 0
    <3>1. /\ v1' = "Drive" /\ v3' \in Guns /\ ~v3'.jammed /\ v3'.enable = v3.enable /\ v3'.active = v3.active
          /\ v3'.adopted = v3.adopted /\ v3'.reference = v3.reference /\ v3'.last >= v3.last
          /\ (v3'.accepted = v3.accepted \/ v3'.accepted > v5)
          /\ v3'.staged.enable <= v3'.enable /\ v3'.velocity \in {v3.velocity, Gun!NoSpeed}
          /\ (v3'.mode \notin VelocityModes => v3'.velocity = Gun!NoSpeed)
      BY <1>5, <2>3 DEF Going
    <3>2. Gun!TypeOK'
      BY <1>1, <1>2, <3>1, GunTyped
    <3>3. Gun!Drives' /\ Ramp' \in {0, Ramp} /\ (Gun!VelocityIsHistory' => Gun!VelocityIsHistory)
      <4>1. Gun!Drives'
        BY <1>1, <1>5, <3>1 DEF Gun!Drives
      <4>2. CASE v3'.velocity = v3.velocity
        BY <1>5, <3>1, <4>1, <4>2 DEF Ramp, Gun!VelocityIsHistory
      <4>3. CASE v3'.velocity = Gun!NoSpeed
        BY <4>1, <4>3, NothingIsKept DEF Ramp, Gun!VelocityIsHistory
      <4> QED
        BY <3>1, <4>1, <4>2, <4>3
    <3>4. GunStops'
      <4> DEFINE asked == IF Gun!Drives' /\ Gun!VelocityIsHistory' THEN v3'.requested ELSE 0
                 ramp == Ramp'
      <4>1. ComingRamp' = Gun!Towards(ramp, asked)
        BY <3>1 DEF ComingRamp, Gun!Towards
      <4>2. asked \in {0, e.requested} /\ ramp \in {0, Ramp}
        BY <3>3
      <4> HIDE DEF asked, ramp, e
      <4>3. v4.pos + Travel(v4.speed, Gun!Towards(ramp, asked)) <= e.rounds * Step + Tolerance
        BY <1>1, <1>5, <2>3, <4>2, GunReaches
      <4>4. v4'.pos + Travel(v4'.speed, ComingRamp') <= v3'.rounds * Step + Tolerance
        BY <1>1, <4>1, <4>3 DEF e
      <4>5. /\ v3'.mode \in Gun!PositionModes => v3'.target <= v3'.rounds * Step + Tolerance
            /\ v3'.mode = "ContinuousVelocity" => v3'.budget <= v3'.rounds * Step
            /\ v3'.mode # "Disabled"
        BY <2>3 DEF Aiming, e
      <4> QED
        BY <3>1, <4>4, <4>5 DEF GunStops, Allowed
    <3>5. GunEfforts'
      <4>1. v3'.velocity.enable <= v3'.enable
        <5>1. v3.velocity.enable <= v3.enable /\ v3.enable \in Nat
          BY <1>3, GunNumbers DEF GunEfforts
        <5> QED
          BY <3>1, <5>1, NothingIsKept
      <4> QED
        BY <3>1, <4>1 DEF GunEfforts
    <3>6. GunReferences'
      BY <1>1, <1>3, <1>5, <3>1, <3>3 DEF GunReferences
    <3>7. GunClicks'
      <4>1. v3'.last \in Nat
        BY <3>1, GunNumbers
      <4>2. v5 <= v3'.last /\ v2.id <= v3'.last
        BY <1>3, <2>3, <3>1, <4>1
      <4> QED
        BY <1>1, <4>2 DEF GunClicks
    <3>8. GunJams'
      <4>1. Gun!NearTarget(v3)' <=> Gun!NearTarget(e)
        BY <1>1 DEF Gun!NearTarget
      <4>2. /\ v3'.mode \in FiringModes => v6 <= v3'.since /\ v3'.since < Jam
            /\ v3'.mode = "SinglePosition" /\ v3'.settled > 0 => Gun!NearTarget(e)
            /\ v3'.mode = "ContinuousVelocity" => v4.pos < v3'.progress + Tolerance
        BY <2>3 DEF Aiming, OnTime, FiringModes
      <4> QED
        BY <1>1, <1>3, <3>1, <4>1, <4>2 DEF GunJams
    <3> QED
      BY <3>1, <3>2, <3>4, <3>5, <3>6, <3>7, <3>8
  <2> QED
    BY <2>1, <2>2, <2>3
<1> QED
  BY <1>4, <1>5 DEF Gun!Decide

(* A history and an effort of the controllers.                             *)
LEMMA EffortIsTyped ==
  ASSUME Gun!TypeOK, NEW kind \in {"Zero", "Position", "Velocity"}
  PROVE  /\ Gun!Effort(kind) \in [kind : {"None", "Zero", "Position", "Velocity"}, enable : 0 .. MaxEnables,
                                  new : BOOLEAN]
         /\ Gun!Effort(kind).kind = kind /\ Gun!Effort(kind).enable = v3.enable /\ Gun!Effort(kind).new
<1>1. v3.enable \in 0 .. MaxEnables
  BY GunRecords DEF Guns
<1> QED
  BY <1>1 DEF Gun!Effort

(* The controller of positions.                                            *)
LEMMA GunPositions ==
  ASSUME GunInv, v1 = "Drive", UNCHANGED v4
  PROVE  \E po \in [live : BOOLEAN, enable : 0 .. MaxEnables, reference : 0 .. 2 * MaxGaps],
            st \in {Gun!NoEffort, Gun!Effort("Zero"), Gun!Effort("Position")} :
            /\ Gun!PositionUpdate = [v3 EXCEPT !.position = po, !.velocity = v3.velocity, !.staged = st]
            /\ ~v4.valid => st = Gun!NoEffort
<1> USE DEF GunInv
<1> DEFINE now == [live |-> TRUE, enable |-> v3.enable, reference |-> v4.generation]
           U(po, st) == [v3 EXCEPT !.position = po, !.velocity = v3.velocity, !.staged = st]
<1>1. v3 \in Guns /\ v4 \in Dials
  BY GunRecords
<1>2. now \in [live : BOOLEAN, enable : 0 .. MaxEnables, reference : 0 .. 2 * MaxGaps]
      /\ v3.position \in [live : BOOLEAN, enable : 0 .. MaxEnables, reference : 0 .. 2 * MaxGaps]
  BY <1>1 DEF Guns, Dials
<1> HIDE DEF now
<1>3. /\ [v3 EXCEPT !.position = Gun!NoHistory, !.staged = Gun!NoEffort] = U(Gun!NoHistory, Gun!NoEffort)
      /\ [v3 EXCEPT !.staged = Gun!Effort("Position")] = U(v3.position, Gun!Effort("Position"))
      /\ [v3 EXCEPT !.position = now, !.staged = Gun!Effort("Zero")] = U(now, Gun!Effort("Zero"))
  BY <1>1 DEF Guns
<1>4. Gun!PositionUpdate \in {U(Gun!NoHistory, Gun!NoEffort)}
      \/ (v4.valid /\ Gun!PositionUpdate \in {U(v3.position, Gun!Effort("Position")), U(now, Gun!Effort("Zero"))})
  BY <1>3 DEF Gun!PositionUpdate, now
<1> QED
  BY <1>2, <1>4, NothingIsKept

(* The controller of speeds: its ramp is the one that was foreseen.        *)
LEMMA GunVelocities ==
  ASSUME GunInv, v1 = "Drive", UNCHANGED v4
  PROVE  \E ve \in [live : BOOLEAN, enable : 0 .. MaxEnables, speed : 0 .. Gun!TopSpeed],
            st \in {Gun!NoEffort, Gun!Effort("Zero"), Gun!Effort("Velocity")} :
            /\ Gun!VelocityUpdate = [v3 EXCEPT !.position = v3.position, !.velocity = ve, !.staged = st]
            /\ ve.enable <= v3.enable
            /\ ve.live /\ ve.enable = v3.enable /\ Gun!Drives => ve.speed = ComingRamp \/ ve.speed = 0
            /\ st = Gun!Effort("Velocity") => /\ ve.live /\ ve.enable = v3.enable
                                              /\ Gun!Drives /\ Gun!VelocityIsHistory
<1> USE DEF GunInv
<1> DEFINE next == Gun!Towards(v3.velocity.speed, v3.requested)
           old == v3.velocity
           first == [live |-> TRUE, enable |-> v3.enable, speed |-> 0]
           on == [v3.velocity EXCEPT !.speed = next]
           U(ve, st) == [v3 EXCEPT !.position = v3.position, !.velocity = ve, !.staged = st]
           Speeding == [live : BOOLEAN, enable : 0 .. MaxEnables, speed : 0 .. Gun!TopSpeed]
<1>1. v3 \in Guns /\ v3.velocity \in Speeding /\ v3.enable \in 0 .. MaxEnables /\ v3.enable \in Nat
      /\ v3.velocity.speed \in 0 .. Gun!TopSpeed /\ v3.requested \in Nat /\ v3.requested <= Gun!TopSpeed
      /\ v3.velocity.enable <= v3.enable
  BY GunRecords, GunNumbers DEF Guns, GunEfforts
<1>2. next \in 0 .. Gun!TopSpeed /\ 0 \in 0 .. Gun!TopSpeed
  BY <1>1, GunBounds DEF Gun!Towards
<1>3. Gun!Drives /\ Gun!VelocityIsHistory => next = ComingRamp
  BY DEF ComingRamp, Ramp
<1> HIDE DEF next
<1>4. first \in Speeding /\ first.enable = v3.enable /\ first.speed = 0 /\ on \in Speeding /\ on.live = v3.velocity.live
      /\ on.enable = v3.velocity.enable /\ on.speed = next
  BY <1>1, <1>2
<1>5. /\ [v3 EXCEPT !.velocity = Gun!NoSpeed, !.staged = Gun!NoEffort] = U(Gun!NoSpeed, Gun!NoEffort)
      /\ [v3 EXCEPT !.velocity = first, !.staged = Gun!Effort("Zero")] = U(first, Gun!Effort("Zero"))
  BY <1>1 DEF Guns
<1>6. [v3 EXCEPT !.velocity.speed = next, !.staged = Gun!Effort("Velocity")] = U(on, Gun!Effort("Velocity"))
  BY <1>1 DEF Guns
<1>7. CASE ~Gun!Drives
  <2>1. Gun!VelocityUpdate = U(Gun!NoSpeed, Gun!NoEffort)
    BY <1>5, <1>7 DEF Gun!VelocityUpdate
  <2>2. 0 <= v3.enable /\ Gun!NoEffort # Gun!Effort("Velocity")
    BY <1>1, NothingIsKept, EffortIsTyped
  <2> QED
    BY <1>7, <2>1, <2>2, NothingIsKept
<1>8. CASE Gun!Drives /\ Gun!VelocityIsHistory
  <2>1. Gun!VelocityUpdate = U(on, Gun!Effort("Velocity"))
    BY <1>6, <1>8 DEF Gun!VelocityUpdate, next
  <2>2. v3.velocity.live /\ v3.velocity.enable = v3.enable
    BY <1>8 DEF Gun!VelocityIsHistory
  <2> HIDE DEF on
  <2> QED
    BY <1>1, <1>3, <1>4, <1>8, <2>1, <2>2
<1>9. CASE Gun!Drives /\ ~Gun!VelocityIsHistory
  <2>1. Gun!VelocityUpdate = U(first, Gun!Effort("Zero"))
    BY <1>5, <1>9 DEF Gun!VelocityUpdate
  <2>2. Gun!Effort("Zero") # Gun!Effort("Velocity") /\ v3.enable <= v3.enable
    BY <1>1, EffortIsTyped
  <2> HIDE DEF first
  <2> QED
    BY <1>1, <1>4, <2>1, <2>2
<1> QED
  BY <1>7, <1>8, <1>9

(* The controllers, at the third snapshot.                                 *)
LEMMA GunDrives == GunInv /\ Gun!Drive => GunInv' /\ v3'.accepted = v3.accepted
<1> SUFFICES ASSUME GunInv, Gun!Drive PROVE GunInv' /\ v3'.accepted = v3.accepted
  OBVIOUS
<1> USE DEF GunInv
<1> DEFINE Positioned == [live : BOOLEAN, enable : 0 .. MaxEnables, reference : 0 .. 2 * MaxGaps]
           Speeding == [live : BOOLEAN, enable : 0 .. MaxEnables, speed : 0 .. Gun!TopSpeed]
<1>1. v1 = "Drive" /\ v1' = "Turn" /\ UNCHANGED <<v2, v4, v5, v6>> /\ v3.mode # "Disabled"
  BY DEF Gun!Drive, GunStops
<1>2. v3 \in Guns /\ v4.pos \in Nat /\ v4.speed \in Nat /\ Ramp \in Nat /\ v3.requested \in Nat /\ v6 \in Nat
      /\ v3.rounds * Step \in Nat /\ v3.enable \in Nat /\ v3.velocity.enable <= v3.enable
      /\ v3.velocity \in Speeding
  BY GunRecords, GunNumbers DEF GunEfforts, Guns
<1>3. \E po \in Positioned, ve \in Speeding,
         st \in {Gun!NoEffort, Gun!Effort("Zero"), Gun!Effort("Position"), Gun!Effort("Velocity")} :
         /\ v3' = [v3 EXCEPT !.position = po, !.velocity = ve, !.staged = st]
         /\ v3.mode \notin VelocityModes => ve = Gun!NoSpeed
         /\ ve.enable <= v3.enable
         /\ ve.live /\ ve.enable = v3.enable /\ Gun!Drives => ve.speed = ComingRamp \/ ve.speed = 0
         /\ st = Gun!Effort("Velocity") => /\ ve.live /\ ve.enable = v3.enable /\ v3.mode \in VelocityModes
                                           /\ Gun!Drives /\ Gun!VelocityIsHistory
         /\ st = Gun!Effort("Position") => v3.mode \in Gun!PositionModes /\ v4.valid
  <2>1. CASE v3.mode \in Gun!PositionModes
    <3>1. v3' = Gun!PositionUpdate
      BY <2>1 DEF Gun!Drive
    <3>2. v3.mode \notin VelocityModes /\ v3.velocity = Gun!NoSpeed
      BY <2>1 DEF Gun!PositionModes, VelocityModes, GunStops
    <3>3. PICK po \in Positioned, st \in {Gun!NoEffort, Gun!Effort("Zero"), Gun!Effort("Position")} :
            /\ v3' = [v3 EXCEPT !.position = po, !.velocity = v3.velocity, !.staged = st]
            /\ ~v4.valid => st = Gun!NoEffort
      BY <1>1, <3>1, GunPositions
    <3>4. Gun!NoEffort # Gun!Effort("Velocity") /\ Gun!NoEffort # Gun!Effort("Position")
          /\ Gun!Effort("Zero") # Gun!Effort("Velocity") /\ Gun!Effort("Position") # Gun!Effort("Velocity")
      BY NothingIsKept, EffortIsTyped
    <3>5. ~v3.velocity.live
      BY <3>2, NothingIsKept
    <3> QED
      BY <1>2, <2>1, <3>2, <3>3, <3>4, <3>5
  <2>2. CASE v3.mode \notin Gun!PositionModes
    <3>1. v3' = Gun!VelocityUpdate
      BY <2>2 DEF Gun!Drive
    <3>2. v3.mode \in VelocityModes
      BY <1>1, <1>2, <2>2 DEF Gun!PositionModes, VelocityModes, Guns
    <3>3. PICK ve \in Speeding, st \in {Gun!NoEffort, Gun!Effort("Zero"), Gun!Effort("Velocity")} :
            /\ v3' = [v3 EXCEPT !.position = v3.position, !.velocity = ve, !.staged = st]
            /\ ve.enable <= v3.enable
            /\ ve.live /\ ve.enable = v3.enable /\ Gun!Drives => ve.speed = ComingRamp \/ ve.speed = 0
            /\ st = Gun!Effort("Velocity") => /\ ve.live /\ ve.enable = v3.enable
                                              /\ Gun!Drives /\ Gun!VelocityIsHistory
      BY <1>1, <3>1, GunVelocities
    <3>4. Gun!NoEffort # Gun!Effort("Position") /\ Gun!Effort("Zero") # Gun!Effort("Position")
          /\ Gun!Effort("Velocity") # Gun!Effort("Position")
      BY NothingIsKept, EffortIsTyped
    <3>5. v3.position \in Positioned
      BY <1>2 DEF Guns
    <3> QED
      BY <3>2, <3>3, <3>4, <3>5
  <2> QED
    BY <2>1, <2>2
<1>4. PICK po \in Positioned, ve \in Speeding,
         st \in {Gun!NoEffort, Gun!Effort("Zero"), Gun!Effort("Position"), Gun!Effort("Velocity")} :
         /\ v3' = [v3 EXCEPT !.position = po, !.velocity = ve, !.staged = st]
         /\ v3.mode \notin VelocityModes => ve = Gun!NoSpeed
         /\ ve.enable <= v3.enable
         /\ ve.live /\ ve.enable = v3.enable /\ Gun!Drives => ve.speed = ComingRamp \/ ve.speed = 0
         /\ st = Gun!Effort("Velocity") => /\ ve.live /\ ve.enable = v3.enable /\ v3.mode \in VelocityModes
                                           /\ Gun!Drives /\ Gun!VelocityIsHistory
         /\ st = Gun!Effort("Position") => v3.mode \in Gun!PositionModes /\ v4.valid
  BY <1>3
<1>5. st \in [kind : {"None", "Zero", "Position", "Velocity"}, enable : 0 .. MaxEnables, new : BOOLEAN]
      /\ st.enable <= v3.enable /\ (st.kind # "None" => st.new)
      /\ (st.kind = "Position" => st = Gun!Effort("Position")) /\ (st.kind = "Velocity" => st = Gun!Effort("Velocity"))
  <2>1. 0 <= v3.enable /\ v3.enable <= v3.enable
    BY <1>2
  <2> QED
    BY <1>4, <2>1, NothingIsKept, EffortIsTyped
<1>6. /\ v3' \in Guns /\ v3'.staged = st /\ v3'.velocity = ve
      /\ v3'.mode = v3.mode /\ v3'.adopted = v3.adopted /\ v3'.reference = v3.reference
      /\ v3'.target = v3.target /\ v3'.budget = v3.budget /\ v3'.progress = v3.progress
      /\ v3'.rounds = v3.rounds /\ v3'.active = v3.active /\ v3'.last = v3.last
      /\ v3'.enable = v3.enable /\ v3'.accepted = v3.accepted /\ v3'.since = v3.since /\ v3'.settled = v3.settled
  BY <1>2, <1>4, <1>5 DEF Guns
<1>7. Gun!TypeOK'
  <2>1. v2' \in [id : 0 .. MaxClicks, fresh : BOOLEAN] /\ v5' \in 0 .. MaxClicks /\ v6' \in 0 .. Jam + 3
    BY <1>1 DEF Gun!TypeOK
  <2> QED
    BY <1>1, <1>6, <2>1, GunRecords, GunTyped
<1>8. (Gun!Drives' <=> Gun!Drives) /\ (Gun!VelocityIsHistory' <=> ve.live /\ ve.enable = v3.enable)
  BY <1>1, <1>6 DEF Gun!Drives, Gun!VelocityIsHistory
<1>9. GunStops'
  <2>1. ComingRamp' = Ramp' /\ Ramp' \in {0, ComingRamp}
    BY <1>1, <1>4, <1>6, <1>8 DEF ComingRamp, Ramp
  <2>2. ComingRamp \in Nat
    BY <1>1, <1>2 DEF ComingRamp, Gun!Towards
  <2>3. v4.pos + Travel(v4.speed, ComingRamp) <= v3.rounds * Step + Tolerance
    BY DEF GunStops, Allowed
  <2> DEFINE coming == ComingRamp
             next == Ramp'
  <2>4. next \in Nat /\ next <= coming /\ coming \in Nat
    BY <2>1, <2>2
  <2> HIDE DEF coming, next
  <2>5. Travel(v4.speed, next) <= Travel(v4.speed, coming) /\ Travel(v4.speed, next) \in Nat
        /\ Travel(v4.speed, coming) \in Nat
    BY <1>2, <2>4, TravelGrows
  <2>6. v4.pos + Travel(v4.speed, next) <= v3.rounds * Step + Tolerance
    BY <1>2, <2>3, <2>5, GunAssumption DEF coming
  <2>7. v4'.pos + Travel(v4'.speed, ComingRamp') <= v3'.rounds * Step + Tolerance
    BY <1>1, <1>6, <2>1, <2>6 DEF next
  <2> QED
    BY <1>1, <1>4, <1>6, <2>7 DEF GunStops, Allowed
<1>10. GunEfforts'
  BY <1>1, <1>4, <1>5, <1>6, <1>8 DEF GunEfforts
<1>11. GunReferences'
  <2>1. ~v4.valid => v3'.staged.kind \notin {"Position", "Velocity"}
    BY <1>1, <1>4, <1>5, <1>6 DEF GunReferences
  <2> QED
    BY <1>1, <1>6, <1>8, <2>1 DEF GunReferences
<1>12. GunClicks' /\ GunJams'
  <2>1. Gun!NearTarget(v3)' <=> Gun!NearTarget(v3)
    BY <1>1, <1>6 DEF Gun!NearTarget
  <2> QED
    BY <1>1, <1>6, <2>1 DEF GunClicks, GunJams
<1> QED
  BY <1>6, <1>7, <1>9, <1>10, <1>11, <1>12

(* What an effort may do: speeds that leave the way to rest within what is *)
(* allowed.                                                                *)
LEMMA GunTravels ==
  ASSUME GunInv, v1 = "Turn", NEW w \in Gun!NextSpeeds
  PROVE  /\ w \in 0 .. Gun!TopSpeed
         /\ v4.pos + v4.speed + w + Travel(w, Gun!Slower(Ramp)) <= Allowed
         /\ ~v4.valid => w = 0
<1> USE DEF GunInv
<1> DEFINE s == v4.speed
           f == Gun!Slower(Ramp)
<1>1. v4.pos \in Nat /\ s \in Nat /\ s \in 0 .. Gun!TopSpeed /\ Ramp \in Nat /\ v3 \in Guns /\ Allowed \in Nat
      /\ Gun!TopSpeed \in Nat /\ v3.target \in Nat
  <2>1. v4.pos \in Nat /\ s \in Nat /\ s \in 0 .. Gun!TopSpeed /\ Ramp \in Nat /\ v3 \in Guns
    BY GunRecords DEF Dials
  <2> QED
    BY <2>1, GunNumbers, GunBounds, GunAssumption DEF Allowed
<1>2. f \in Nat /\ Gun!Slower(s) \in 0 .. Gun!TopSpeed /\ Gun!Slower(s) <= s /\ (Ramp = 0 => f = 0)
  BY <1>1 DEF Gun!Slower
<1>3. v4.pos + Travel(s, Ramp) <= Allowed
  BY DEF GunStops, ComingRamp
<1>4. ASSUME w \in {Gun!Slower(s), Gun!Towards(s, Ramp)}, w \in 0 .. Gun!TopSpeed
      PROVE  v4.pos + s + w + Travel(w, f) <= Allowed
  <2>1. w \in Nat
    BY <1>1, <1>4
  <2>2. s + w + Travel(w, f) <= Travel(s, Ramp) /\ Travel(s, Ramp) \in Nat /\ Travel(w, f) \in Nat
    <3>1. Travel(s, Ramp) \in Nat /\ Travel(w, f) \in Nat
      BY <1>1, <1>2, <2>1, TravelGrows
    <3> QED
      BY <1>1, <1>4, <2>1, <3>1, TravelIsSpent
  <2> HIDE DEF f, s
  <2> QED
    BY <1>1, <1>3, <2>1, <2>2
<1>5. ~v4.valid => s = 0 /\ Gun!Sent \notin {"Position", "Velocity"}
  BY DEF GunReferences, Gun!Sent
<1>6. CASE Gun!Sent = "Position"
  <2>1. Ramp = 0
    <3>1. v3.mode \in Gun!PositionModes
      BY <1>6 DEF GunEfforts, Gun!Sent, Gun!IsSent
    <3>2. v3.velocity = Gun!NoSpeed
      BY <3>1 DEF GunStops, Gun!PositionModes, VelocityModes
    <3> QED
      BY <3>2, NothingIsKept DEF Ramp
  <2>2. v3.target <= Allowed
    BY <1>6 DEF GunEfforts, GunStops, Gun!Sent, Gun!IsSent
  <2>3. w \in Gun!PositionSpeeds
    BY <1>6 DEF Gun!NextSpeeds
  <2>4. \/ w = Gun!Slower(s)
        \/ w \in Gun!Slower(s) .. Gun!Least(s + 1, Gun!TopSpeed) /\ w * w + v4.pos + s + w <= v3.target
    BY <2>3 DEF Gun!PositionSpeeds
  <2>5. CASE w = Gun!Slower(s)
    BY <1>2, <1>4, <1>5, <1>6, <2>5
  <2>6. CASE w \in Gun!Slower(s) .. Gun!Least(s + 1, Gun!TopSpeed) /\ w * w + v4.pos + s + w <= v3.target
    <3>1. w \in 0 .. Gun!TopSpeed /\ w \in Nat
      BY <1>1, <1>2, <2>6 DEF Gun!Least
    <3>2. Travel(w, f) = Square(w) /\ Square(w) = w * w /\ Square(w) \in Nat
      <4>1. f = 0
        BY <1>2, <2>1
      <4> QED
        BY <3>1, <4>1, TravelGrows, SquaresGrow DEF Square
    <3> HIDE DEF f, s
    <3>3. v4.pos + s + w + Square(w) <= Allowed
      BY <1>1, <2>2, <2>6, <3>1, <3>2
    <3> QED
      BY <1>5, <1>6, <3>1, <3>2, <3>3 DEF f, s
  <2> QED
    BY <2>4, <2>5, <2>6
<1>7. CASE Gun!Sent = "Velocity"
  <2>1. Gun!Drives /\ Gun!VelocityIsHistory
    BY <1>7 DEF GunEfforts, Gun!Sent, Gun!IsSent
  <2>2. w = Gun!Towards(s, Ramp)
    BY <1>7, <2>1 DEF Gun!NextSpeeds, Ramp
  <2>3. Ramp \in 0 .. Gun!TopSpeed
    BY <1>1, <2>1, GunNumbers DEF Ramp
  <2>4. w \in 0 .. Gun!TopSpeed
    BY <1>1, <2>2, <2>3 DEF Gun!Towards
  <2> QED
    BY <1>4, <1>5, <1>7, <2>2, <2>4
<1>8. CASE Gun!Sent \notin {"Position", "Velocity"}
  <2>1. w = Gun!Slower(s)
    BY <1>8 DEF Gun!NextSpeeds
  <2>2. s = 0 => w = 0
    BY <2>1 DEF Gun!Slower
  <2> QED
    BY <1>2, <1>4, <1>5, <2>1, <2>2
<1> QED
  BY <1>6, <1>7, <1>8

(* What was sent, and the dial until the next cycle.                       *)
LEMMA GunTurns == GunInv /\ Gun!Turn => GunInv' /\ v3'.accepted = v3.accepted
<1> SUFFICES ASSUME GunInv, Gun!Turn PROVE GunInv' /\ v3'.accepted = v3.accepted
  OBVIOUS
<1> USE DEF GunInv
<1>1. v1 = "Turn" /\ v1' = "Begin" /\ UNCHANGED <<v2, v3>> /\ v5' = v2.id
  BY DEF Gun!Turn
<1>2. v4 \in Dials /\ v4.pos \in Nat /\ v4.speed \in Nat /\ Ramp \in Nat /\ v3 \in Guns /\ v6 \in Nat /\ v6 <= Jam
      /\ v3.since \in Nat /\ v3.rounds \in 0 .. MaxRounds
  BY GunRecords, GunNumbers DEF GunJams, Guns
<1> DEFINE f == Gun!Slower(Ramp)
<1>3. Allowed \in Nat /\ Allowed <= Gun!Farthest /\ f \in Nat
  <2>1. v3.rounds * Step \in Nat /\ v3.rounds * Step <= MaxRounds * Step
    BY <1>2, GunAssumption
  <2> QED
    BY <1>2, <2>1, GunBounds, GunAssumption DEF Allowed, Gun!Slower
<1>4. PICK w \in Nat : /\ w \in 0 .. Gun!TopSpeed
                       /\ v4' = [v4 EXCEPT !.pos = v4'.pos, !.speed = w]
                       /\ v4'.pos \in Nat /\ v4'.pos + Travel(w, f) <= Allowed
                       /\ ~v4.valid => w = 0
  <2>1. ASSUME NEW w \in Gun!NextSpeeds, v4' = [v4 EXCEPT !.pos = @ + v4.speed + w, !.speed = w]
        PROVE  /\ w \in 0 .. Gun!TopSpeed
               /\ v4' = [v4 EXCEPT !.pos = v4'.pos, !.speed = w]
               /\ v4'.pos \in Nat /\ v4'.pos + Travel(w, f) <= Allowed
               /\ ~v4.valid => w = 0
    <3>1. /\ w \in 0 .. Gun!TopSpeed /\ v4.pos + v4.speed + w + Travel(w, f) <= Allowed
          /\ ~v4.valid => w = 0
      BY <1>1, <2>1, GunTravels
    <3>2. w \in Nat /\ v4'.pos = v4.pos + v4.speed + w
      BY <1>2, <2>1, <3>1, GunBounds DEF Dials
    <3> QED
      BY <1>2, <2>1, <3>1, <3>2
  <2>2. ASSUME v4' = [v4 EXCEPT !.speed = 0]
        PROVE  /\ 0 \in 0 .. Gun!TopSpeed
               /\ v4' = [v4 EXCEPT !.pos = v4'.pos, !.speed = 0]
               /\ v4'.pos \in Nat /\ v4'.pos + Travel(0, f) <= Allowed
    <3>1. v4'.pos = v4.pos /\ v4' = [v4 EXCEPT !.pos = v4'.pos, !.speed = 0]
      BY <1>2, <2>2 DEF Dials
    <3>2. Travel(0, f) <= Travel(v4.speed, Ramp) /\ Travel(0, f) \in Nat /\ Travel(v4.speed, Ramp) \in Nat
      <4>1. Travel(0, f) \in Nat /\ Travel(v4.speed, Ramp) \in Nat
        BY <1>2, <1>3, TravelGrows
      <4>2. Gun!Slower(v4.speed) \in Nat
        BY <1>2 DEF Gun!Slower
      <4> QED
        BY <1>2, <4>1, <4>2, TravelIsSpent
    <3>3. v4.pos + Travel(v4.speed, Ramp) <= Allowed
      BY <1>1 DEF GunStops, ComingRamp
    <3> HIDE DEF f
    <3> QED
      BY <1>2, <1>3, <3>1, <3>2, <3>3, GunBounds
  <2>3. CASE \E w \in Gun!NextSpeeds : v4' = [v4 EXCEPT !.pos = @ + v4.speed + w, !.speed = w]
    <3>1. PICK w \in Gun!NextSpeeds : v4' = [v4 EXCEPT !.pos = @ + v4.speed + w, !.speed = w]
      BY <2>3
    <3>2. /\ w \in 0 .. Gun!TopSpeed
          /\ v4' = [v4 EXCEPT !.pos = v4'.pos, !.speed = w]
          /\ v4'.pos \in Nat /\ v4'.pos + Travel(w, f) <= Allowed
          /\ ~v4.valid => w = 0
      BY <2>1, <3>1
    <3>3. w \in Nat
      BY <3>2, GunBounds
    <3> QED
      BY <3>2, <3>3
  <2>4. CASE v4' = [v4 EXCEPT !.speed = 0]
    BY <2>2, <2>4
  <2> QED
    BY <2>3, <2>4 DEF Gun!Turn
<1> HIDE DEF f
<1>5. Travel(w, f) \in Nat
  BY <1>3, TravelGrows
<1>6. v4'.pos \in 0 .. Gun!Farthest /\ v4'.pos + Travel(w, f) <= Allowed
  BY <1>3, <1>4, <1>5, GunBounds
<1>7. /\ v4' \in Dials /\ v4'.speed = w /\ v4'.fresh = v4.fresh /\ v4'.valid = v4.valid
      /\ v4'.generation = v4.generation /\ v4'.gaps = v4.gaps
  <2> DEFINE pos == v4'.pos
  <2>1. v4' = [v4 EXCEPT !.pos = pos, !.speed = w] /\ pos \in 0 .. Gun!Farthest
    BY <1>4, <1>6
  <2> HIDE DEF pos
  <2> QED
    BY <1>2, <1>4, <2>1 DEF Dials
<1>8. Ramp' = Ramp
  BY <1>1, <1>7 DEF Ramp, Gun!Drives, Gun!VelocityIsHistory
<1>9. /\ v6' \in 0 .. Jam
      /\ v6' > 0 => /\ v3.mode \in FiringModes /\ v6' <= v3.since + 1
                    /\ v3.mode = "SinglePosition" => v3.settled = 0
                    /\ v3.mode = "ContinuousVelocity" => v4'.pos < v3.progress + Tolerance
  <2> DEFINE busy == Gun!Busy /\ v4'.pos = v4.pos /\ ~Gun!Arrived
  <2>1. v6' = IF busy THEN v6 + 1 ELSE 0
    BY DEF Gun!Turn
  <2>2. CASE ~busy
    <3>1. v6' = 0
      BY <2>1, <2>2
    <3> QED
      BY <3>1, GunAssumption
  <2>3. CASE busy
    <3>1. v3.mode \in FiringModes /\ v3.staged.new
      BY <1>1, <2>3 DEF Gun!Busy, FiringModes, GunEfforts, Gun!Sent, Gun!IsSent
    <3>2. v6 <= v3.since /\ v3.since < Jam
      BY <1>1, <3>1 DEF GunJams
    <3>3. v3.mode = "SinglePosition" => ~(v3.settled > 0)
      BY <1>1, <2>3, <3>1 DEF GunJams, Gun!Arrived
    <3>4. v3.mode = "ContinuousVelocity" => v4'.pos < v3.progress + Tolerance
      BY <1>1, <2>3, <3>1 DEF GunJams
    <3>5. v3.settled \in Nat
      BY <1>2, GunNumbers
    <3>6. v6' = v6 + 1 /\ v6' \in 0 .. Jam /\ v6' <= v3.since + 1
      BY <1>2, <2>1, <2>3, <3>2, GunAssumption
    <3> QED
      BY <3>1, <3>3, <3>4, <3>5, <3>6
  <2> QED
    BY <2>2, <2>3
<1>10. Gun!TypeOK'
  <2>1. v2' \in [id : 0 .. MaxClicks, fresh : BOOLEAN] /\ v5' \in 0 .. MaxClicks
    BY <1>1 DEF Gun!TypeOK
  <2>2. v6' \in 0 .. Jam + 3 /\ v3' \in Guns
    BY <1>1, <1>2, <1>9, GunAssumption
  <2> QED
    BY <1>1, <1>7, <2>1, <2>2, GunTyped
<1>11. GunStops'
  <2>1. ComingRamp' = f
    BY <1>1, <1>8 DEF ComingRamp, f, Gun!Slower
  <2> QED
    BY <1>1, <1>6, <1>7, <2>1 DEF GunStops, Allowed
<1>12. GunEfforts' /\ GunClicks'
  BY <1>1 DEF GunEfforts, GunClicks
<1>13. GunReferences'
  BY <1>1, <1>4, <1>7 DEF GunReferences
<1>14. GunJams'
  <2>1. v6' <= Jam
    BY <1>9, GunAssumption
  <2> QED
    BY <1>1, <1>9, <2>1 DEF GunJams
<1> QED
  BY <1>1, <1>10, <1>11, <1>12, <1>13, <1>14

(* A step that leaves the executor's cycle, and takes nothing from a dial  *)
(* that is not driven.                                                     *)
LEMMA GunIsUndriven ==
  ASSUME GunInv, UNCHANGED <<v1, v2, v5, v6>>, v3' \in Guns, v4' \in Dials,
         v4'.pos = v4.pos, v4'.speed = v4.speed,
         v3'.mode = v3.mode, v3'.jammed = v3.jammed, v3'.adopted = v3.adopted, v3'.reference = v3.reference,
         v3'.target = v3.target, v3'.budget = v3.budget, v3'.progress = v3.progress, v3'.rounds = v3.rounds,
         v3'.last = v3.last, v3'.since = v3.since, v3'.settled = v3.settled, v3'.staged = v3.staged,
         v3'.velocity = v3.velocity, v3.enable <= v3'.enable,
         v4.generation <= v4'.generation,
         v4'.generation + (IF v4'.valid THEN 0 ELSE 1) <= 2 * v4'.gaps - (IF v4'.fresh THEN 0 ELSE 2),
         ~v4'.valid => v4.speed = 0,
         ~Gun!Drives' \/ v3.enable < v3'.enable
  PROVE  GunInv'
<1> USE DEF GunInv
<1>1. /\ v3 \in Guns /\ v4.pos \in Nat /\ v4.speed \in Nat /\ Ramp \in Nat /\ v3.requested \in Nat /\ v3.enable \in Nat
      /\ v3'.enable \in Nat /\ v3.staged.enable \in Nat /\ v3.velocity.enable \in Nat /\ v3.rounds * Step \in Nat
      /\ v3.staged.enable <= v3.enable /\ v3.velocity.enable <= v3.enable
      /\ v3.reference \in Nat /\ v4.generation \in Nat
  BY GunRecords, GunNumbers DEF GunEfforts
<1>2. v4'.generation \in Nat
  BY GunAssumption DEF Dials
<1>3. ~Gun!Drives' \/ (v3.staged.enable # v3'.enable /\ v3.velocity.enable # v3'.enable)
  BY <1>1
<1>4. ~(Gun!Drives' /\ Gun!VelocityIsHistory') /\ (Gun!Drives' => v3'.staged.enable # v3'.enable)
      /\ ~Gun!IsSent(v3.staged)'
  BY <1>3 DEF Gun!VelocityIsHistory, Gun!IsSent
<1>5. Gun!TypeOK'
  <2>1. v1' \in {"Begin", "Decide", "Drive", "Turn"} /\ v2' \in [id : 0 .. MaxClicks, fresh : BOOLEAN]
        /\ v5' \in 0 .. MaxClicks /\ v6' \in 0 .. Jam + 3
    BY DEF Gun!TypeOK
  <2> QED
    BY <2>1, GunTyped
<1>6. GunStops'
  <2>1. ComingRamp' = 0
    BY <1>4 DEF ComingRamp, Ramp, Gun!Slower, Gun!Towards
  <2> DEFINE coming == ComingRamp
  <2>2. coming \in Nat /\ 0 <= coming
    BY <1>1 DEF ComingRamp, Gun!Towards, Gun!Slower
  <2>3. v4.pos + Travel(v4.speed, coming) <= v3.rounds * Step + Tolerance
    BY DEF GunStops, Allowed
  <2> HIDE DEF coming
  <2>4. Travel(v4.speed, 0) <= Travel(v4.speed, coming) /\ Travel(v4.speed, 0) \in Nat
        /\ Travel(v4.speed, coming) \in Nat
    BY <1>1, <2>2, TravelGrows
  <2>5. v4.pos + Travel(v4.speed, 0) <= v3.rounds * Step + Tolerance
    BY <1>1, <2>3, <2>4, GunAssumption
  <2> QED
    BY <2>1, <2>5 DEF GunStops, Allowed
<1>7. GunEfforts'
  BY <1>1, <1>4 DEF GunEfforts
<1>8. GunReferences'
  <2>1. v3.adopted => v3.reference <= v4'.generation
    BY <1>1, <1>2 DEF GunReferences
  <2> QED
    BY <1>4, <2>1 DEF GunReferences
<1>9. GunClicks' /\ GunJams'
  <2>1. Gun!NearTarget(v3)' <=> Gun!NearTarget(v3)
    BY DEF Gun!NearTarget
  <2> QED
    BY <2>1 DEF GunClicks, GunJams
<1> QED
  BY <1>5, <1>6, <1>7, <1>8, <1>9

(* The motor's endpoint and its feedback.                                  *)
LEMMA GunIsCut ==
  GunInv /\ (Gun!DriveActivates \/ Gun!FeedbackStops \/ Gun!FeedbackReturns)
    => GunInv' /\ v3'.accepted = v3.accepted
<1> SUFFICES ASSUME GunInv, Gun!DriveActivates \/ Gun!FeedbackStops \/ Gun!FeedbackReturns
             PROVE GunInv' /\ v3'.accepted = v3.accepted
  OBVIOUS
<1>1. /\ v3 \in Guns /\ v4 \in Dials /\ v3.enable \in 0 .. MaxEnables /\ v3.enable \in Nat
      /\ v4.gaps \in 0 .. MaxGaps /\ v4.generation \in 0 .. 2 * MaxGaps
      /\ v4.generation + (IF v4.valid THEN 0 ELSE 1) <= 2 * v4.gaps - (IF v4.fresh THEN 0 ELSE 2)
      /\ (~v4.valid => v4.speed = 0)
      /\ v4.generation \in Nat /\ v4.gaps \in Nat /\ v4.fresh \in BOOLEAN /\ v4.valid \in BOOLEAN
  BY GunRecords, GunNumbers DEF GunInv, GunReferences, Guns, Dials
<1>2. CASE Gun!DriveActivates
  <2> DEFINE n == v3.enable + 1
  <2>1. n \in 0 .. MaxEnables /\ v3.enable < n /\ v3.enable <= n
    BY <1>1, <1>2, GunAssumption DEF Gun!DriveActivates
  <2>2. v3' = [v3 EXCEPT !.active = TRUE, !.enable = n] /\ UNCHANGED <<v1, v2, v4, v5, v6>>
    BY <1>2 DEF Gun!DriveActivates
  <2> HIDE DEF n
  <2>3. /\ v3' \in Guns /\ v3'.enable = n
        /\ v3'.mode = v3.mode /\ v3'.jammed = v3.jammed /\ v3'.adopted = v3.adopted /\ v3'.reference = v3.reference
        /\ v3'.target = v3.target /\ v3'.budget = v3.budget /\ v3'.progress = v3.progress
        /\ v3'.rounds = v3.rounds
    BY <1>1, <2>1, <2>2 DEF Guns
  <2>4. /\ v3'.last = v3.last /\ v3'.since = v3.since /\ v3'.settled = v3.settled /\ v3'.staged = v3.staged
        /\ v3'.velocity = v3.velocity /\ v3'.accepted = v3.accepted
    BY <1>1, <2>2 DEF Guns
  <2>5. v4.generation <= v4.generation
    BY <1>1
  <2> QED
    BY <1>1, <2>1, <2>2, <2>3, <2>4, <2>5, GunIsUndriven
<1>3. CASE Gun!FeedbackStops
  <2> DEFINE n == v4.gaps + 1
  <2>1. n \in 0 .. MaxGaps /\ v4.generation + (IF v4.valid THEN 0 ELSE 1) <= 2 * n - 2
    BY <1>1, <1>3, GunAssumption DEF Gun!FeedbackStops
  <2>2. v4' = [v4 EXCEPT !.fresh = FALSE, !.gaps = n] /\ UNCHANGED <<v1, v2, v3, v5, v6>>
    BY <1>3 DEF Gun!FeedbackStops
  <2> HIDE DEF n
  <2>3. v4' \in Dials /\ v4'.pos = v4.pos /\ v4'.speed = v4.speed /\ v4'.generation = v4.generation
        /\ v4'.valid = v4.valid /\ v4'.fresh = FALSE /\ v4'.gaps = n
    BY <1>1, <2>1, <2>2 DEF Dials
  <2>4. v4'.generation + (IF v4'.valid THEN 0 ELSE 1) <= 2 * v4'.gaps - (IF v4'.fresh THEN 0 ELSE 2)
    BY <2>1, <2>3
  <2>5. ~Gun!Drives' /\ v3.enable <= v3.enable /\ v4.generation <= v4'.generation
    BY <1>1, <2>3 DEF Gun!Drives
  <2> QED
    BY <1>1, <2>2, <2>3, <2>4, <2>5, GunIsUndriven
<1>4. CASE Gun!FeedbackReturns
  <2> DEFINE n == IF v4.valid THEN v4.generation + 1 ELSE v4.generation
  <2>1. n \in 0 .. 2 * MaxGaps /\ v4.generation <= n /\ n + 1 <= 2 * v4.gaps /\ v4.speed = 0
    BY <1>1, <1>4, GunAssumption DEF Gun!FeedbackReturns
  <2>2. v4' = [v4 EXCEPT !.fresh = TRUE, !.valid = FALSE, !.generation = n] /\ v3' = [v3 EXCEPT !.active = FALSE]
        /\ UNCHANGED <<v1, v2, v5, v6>>
    BY <1>4 DEF Gun!FeedbackReturns
  <2> HIDE DEF n
  <2>3. v4' \in Dials /\ v4'.pos = v4.pos /\ v4'.speed = v4.speed /\ v4'.generation = n
        /\ v4'.valid = FALSE /\ v4'.fresh = TRUE /\ v4'.gaps = v4.gaps
    BY <1>1, <2>1, <2>2 DEF Dials
  <2>4. /\ v3' \in Guns /\ v3'.enable = v3.enable /\ v3'.active = FALSE
        /\ v3'.mode = v3.mode /\ v3'.jammed = v3.jammed /\ v3'.adopted = v3.adopted /\ v3'.reference = v3.reference
        /\ v3'.target = v3.target /\ v3'.budget = v3.budget /\ v3'.progress = v3.progress
        /\ v3'.rounds = v3.rounds
    BY <1>1, <2>2 DEF Guns
  <2>5. /\ v3'.last = v3.last /\ v3'.since = v3.since /\ v3'.settled = v3.settled /\ v3'.staged = v3.staged
        /\ v3'.velocity = v3.velocity /\ v3'.accepted = v3.accepted
    BY <1>1, <2>2 DEF Guns
  <2>6. v4'.generation + (IF v4'.valid THEN 0 ELSE 1) <= 2 * v4'.gaps - (IF v4'.fresh THEN 0 ELSE 2)
    BY <1>1, <2>1, <2>3, GunAssumption
  <2>7. ~Gun!Drives' /\ v3.enable <= v3'.enable /\ v4.generation <= v4'.generation
    BY <1>1, <2>1, <2>3, <2>4 DEF Gun!Drives
  <2> QED
    BY <2>1, <2>2, <2>3, <2>4, <2>5, <2>6, <2>7, GunIsUndriven
<1> QED
  BY <1>2, <1>3, <1>4

(* A record that keeps the round that was accepted.                        *)
KeepsRound(i, g) == "accepted" \in DOMAIN i /\ i.accepted = g.accepted

(* No operation of the beginning of a cycle accepts a round.               *)
LEMMA RoundIsKept ==
  ASSUME NEW g, "accepted" \in DOMAIN g
  PROVE  /\ KeepsRound(Gun!Stopped(g), g) /\ KeepsRound(Gun!Consumed(g), g) /\ KeepsRound(Gun!Suspended(g), g)
         /\ KeepsRound(Gun!Enabled(g), g) /\ KeepsRound(Gun!Waited(g), g) /\ KeepsRound([g EXCEPT !.jammed = FALSE], g)
         /\ KeepsRound([g EXCEPT !.staged = Gun!NoEffort, !.rounds = 0], g)
         /\ \A d : KeepsRound(Gun!Adopted(g, d), g)
         /\ \A spin : KeepsRound(Gun!Friction(g, spin), g)
<1>1. KeepsRound(Gun!InMode(g, "Disabled"), g)
  BY DEF KeepsRound, Gun!InMode
<1> DEFINE i == Gun!InMode(g, "Disabled")
           s == Gun!Stopped(g)
<1>2. s = [i EXCEPT !.wanted = FALSE, !.active = FALSE, !.staged = Gun!NoEffort, !.requested = 0,
                    !.since = 0, !.settled = 0, !.budget = 0, !.target = 0, !.progress = 0]
  BY DEF Gun!Stopped
<1> HIDE DEF i, s
<1>3. KeepsRound(s, g)
  BY <1>1, <1>2 DEF KeepsRound, i
<1>4. Gun!Suspended(g) = [s EXCEPT !.dwell = 0] /\ \A d : Gun!Adopted(g, d) = [s EXCEPT !.adopted = TRUE, !.reference = d.generation]
  BY DEF Gun!Suspended, Gun!Adopted, s
<1>5. KeepsRound(Gun!Suspended(g), g) /\ \A d : KeepsRound(Gun!Adopted(g, d), g)
  BY <1>3, <1>4 DEF KeepsRound
<1>6. KeepsRound(Gun!Consumed(g), g) /\ KeepsRound(Gun!Enabled(g), g) /\ KeepsRound([g EXCEPT !.jammed = FALSE], g)
      /\ KeepsRound([g EXCEPT !.staged = Gun!NoEffort, !.rounds = 0], g)
  BY DEF KeepsRound, Gun!Consumed, Gun!Enabled
<1>7. KeepsRound(Gun!Waited(g), g)
  BY DEF KeepsRound, Gun!Waited
<1>8. \A spin : KeepsRound(Gun!Friction(g, spin), g)
  BY DEF KeepsRound, Gun!Friction
<1> QED
  BY <1>3, <1>5, <1>6, <1>7, <1>8 DEF s

(* No round is accepted before the second snapshot.                        *)
LEMMA GunAcceptsLater == GunInv /\ Gun!Begin => v3'.accepted = v3.accepted
<1> SUFFICES ASSUME GunInv, Gun!Begin PROVE v3'.accepted = v3.accepted
  OBVIOUS
<1> DEFINE h == Gun!Waited(v3)
           Kept(i) == KeepsRound(i, v3)
<1>1. Kept(h)
  <2>1. "accepted" \in DOMAIN v3
    BY GunRecords DEF GunInv, Guns
  <2> QED
    BY <2>1, RoundIsKept
<1> HIDE DEF h
<1>2. ASSUME NEW g, Kept(g)
      PROVE  /\ Kept(Gun!Stopped(g)) /\ Kept(Gun!Consumed(g)) /\ Kept(Gun!Suspended(g)) /\ Kept(Gun!Enabled(g))
             /\ Kept([g EXCEPT !.jammed = FALSE]) /\ Kept([g EXCEPT !.staged = Gun!NoEffort, !.rounds = 0])
             /\ \A d : Kept(Gun!Adopted(g, d))
             /\ \A spin : Kept(Gun!Friction(g, spin))
  <2>1. "accepted" \in DOMAIN g /\ g.accepted = v3.accepted
    BY <1>2 DEF KeepsRound
  <2>2. /\ KeepsRound(Gun!Stopped(g), g) /\ KeepsRound(Gun!Consumed(g), g) /\ KeepsRound(Gun!Suspended(g), g)
        /\ KeepsRound(Gun!Enabled(g), g) /\ KeepsRound([g EXCEPT !.jammed = FALSE], g)
        /\ KeepsRound([g EXCEPT !.staged = Gun!NoEffort, !.rounds = 0], g)
        /\ \A d : KeepsRound(Gun!Adopted(g, d), g)
        /\ \A spin : KeepsRound(Gun!Friction(g, spin), g)
    BY <2>1, RoundIsKept
  <2> QED
    BY <2>1, <2>2 DEF KeepsRound
<1>3. SUFFICES Kept(v3')
  BY DEF KeepsRound
<1> HIDE DEF Kept
<1>4. ASSUME NEW g, Kept(g), NEW d, Gun!Referenced(g, d) PROVE Kept(v3')
  <2>1. Kept(Gun!Stopped(Gun!Consumed(g))) /\ Kept(Gun!Consumed(Gun!Adopted(g, d))) /\ Kept(Gun!Enabled(g))
        /\ Kept(Gun!Enabled(Gun!Adopted(g, d)))
    BY <1>2, <1>4
  <2> QED
    BY <1>4, <2>1 DEF Gun!Referenced, Gun!Finish
<1>5. CASE Gun!Finish(Gun!Suspended(Gun!Consumed([h EXCEPT !.jammed = FALSE])))
  BY <1>1, <1>2, <1>5 DEF Gun!Finish
<1>6. CASE Gun!Finish(Gun!Suspended(Gun!Consumed(h)))
  BY <1>1, <1>2, <1>6 DEF Gun!Finish
<1>7. ASSUME NEW spin \in BOOLEAN, NEW aim \in BOOLEAN, NEW home \in BOOLEAN,
             Gun!Permitted(Gun!Friction(h, spin), aim, home)
      PROVE  Kept(v3')
  <2> DEFINE g == Gun!Friction(h, spin)
  <2>1. Kept(g)
    BY <1>1, <1>2
  <2> HIDE DEF g
  <2>2. Kept(Gun!Stopped(Gun!Consumed(g))) /\ Kept([g EXCEPT !.staged = Gun!NoEffort, !.rounds = 0])
    BY <1>2, <2>1
  <2>3. Gun!Permitted(g, aim, home)
    BY <1>7 DEF g
  <2> QED
    BY <1>4, <2>1, <2>2, <2>3 DEF Gun!Permitted, Gun!Finish
<1> QED
  BY <1>5, <1>6, <1>7 DEF Gun!Begin, h

(* A click, and its age.                                                   *)
LEMMA GunClicked == GunInv /\ (Gun!Click \/ Gun!ClickAges) => GunInv'
<1> SUFFICES ASSUME GunInv, Gun!Click \/ Gun!ClickAges PROVE GunInv'
  OBVIOUS
<1> USE DEF GunInv
<1>1. v1 = "Begin" /\ UNCHANGED <<v1, v3, v4, v5, v6>>
  BY DEF Gun!Click, Gun!ClickAges
<1>2. v2' \in [id : 0 .. MaxClicks, fresh : BOOLEAN]
  <2>1. v2 \in [id : 0 .. MaxClicks, fresh : BOOLEAN]
    BY DEF Gun!TypeOK
  <2>2. CASE Gun!Click
    <3>1. v2.id + 1 \in 0 .. MaxClicks
      BY <2>1, <2>2, GunAssumption DEF Gun!Click
    <3> QED
      BY <2>2, <3>1 DEF Gun!Click
  <2>3. CASE Gun!ClickAges
    BY <2>1, <2>3 DEF Gun!ClickAges
  <2> QED
    BY <2>2, <2>3
<1>3. Gun!TypeOK'
  <2>1. v1' \in {"Begin", "Decide", "Drive", "Turn"} /\ v5' \in 0 .. MaxClicks /\ v6' \in 0 .. Jam + 3
    BY <1>1 DEF Gun!TypeOK
  <2> QED
    BY <1>1, <1>2, <2>1, GunRecords, GunTyped
<1>4. ComingRamp' = ComingRamp /\ (Gun!Drives' <=> Gun!Drives) /\ (Gun!VelocityIsHistory' <=> Gun!VelocityIsHistory)
      /\ (Gun!NearTarget(v3)' <=> Gun!NearTarget(v3))
  BY <1>1 DEF ComingRamp, Ramp, Gun!Drives, Gun!VelocityIsHistory, Gun!NearTarget, Gun!Slower, Gun!Towards
<1>5. GunStops' /\ GunEfforts'
  BY <1>1, <1>4 DEF GunStops, GunEfforts, Allowed
<1>6. GunReferences' /\ GunClicks' /\ GunJams'
  BY <1>1, <1>4 DEF GunReferences, GunClicks, GunJams
<1> QED
  BY <1>3, <1>5, <1>6

(* At rest, and nothing reserved.                                          *)
LEMMA GunStarts == Gun!Init => GunInv
<1> SUFFICES ASSUME Gun!Init PROVE GunInv
  OBVIOUS
<1>1. /\ 0 \in 0 .. Gun!Farthest /\ 0 \in 0 .. Gun!TopSpeed /\ 0 \in 0 .. Gun!TimerEnd /\ 0 \in 0 .. Settle + 1
      /\ 0 \in 0 .. Dwell + 1 /\ 0 \in 0 .. 2 * MaxGaps /\ 0 \in 0 .. MaxClicks /\ 0 \in 0 .. MaxRounds
      /\ 0 \in 0 .. MaxEnables /\ 0 \in 0 .. MaxGaps /\ 0 \in 0 .. Jam + 3 /\ 0 \in {0} \cup Speeds
  BY GunAssumption, GunBounds
<1>2. v3 \in Guns /\ v4 \in Dials
  <2>1. v4 \in Dials
    BY <1>1 DEF Gun!Init, Dials
  <2>2. v3 \in Guns
    BY <1>1, NothingIsKept DEF Gun!Init, Guns
  <2> QED
    BY <2>1, <2>2
<1>3. Gun!TypeOK
  BY <1>1, <1>2 DEF Gun!Init, Gun!TypeOK, Guns, Dials
<1>4. /\ v1 = "Begin" /\ v3.mode = "Disabled" /\ v3.active = FALSE /\ v3.rounds = 0 /\ v3.staged = Gun!NoEffort
      /\ v3.velocity = Gun!NoSpeed /\ v3.enable = 0 /\ v3.adopted = FALSE /\ v3.last = 0 /\ v5 = 0 /\ v6 = 0
      /\ v4 = [pos |-> 0, speed |-> 0, fresh |-> TRUE, valid |-> TRUE, generation |-> 0, gaps |-> 0]
  BY DEF Gun!Init
<1>5. GunStops
  <2>1. ComingRamp = 0 /\ Travel(0, 0) = 0
    BY <1>4, TravelGrows, SquaresGrow DEF ComingRamp, Ramp, Gun!Slower, Gun!Drives
  <2> QED
    BY <1>4, <2>1, GunAssumption DEF GunStops, Allowed, Gun!PositionModes
<1>6. GunEfforts /\ GunReferences /\ GunClicks /\ GunJams
  BY <1>4, NothingIsKept, GunAssumption DEF GunEfforts, GunReferences, GunClicks, GunJams
<1> QED
  BY <1>3, <1>5, <1>6 DEF GunInv

(* Every step of the shooter keeps it, and a round is accepted for a click *)
(* that no earlier cycle was offered.                                      *)
LEMMA GunSteps == GunInv /\ [Gun!Next]_Gun!vars => GunInv' /\ Gun!FiresNowOrNever
<1> SUFFICES ASSUME GunInv, [Gun!Next]_Gun!vars
             PROVE  GunInv' /\ (v3'.accepted = v3.accepted \/ v3'.accepted > v5)
  BY DEF Gun!FiresNowOrNever
<1>1. CASE UNCHANGED Gun!vars
  <2>1. UNCHANGED <<v1, v2, v3, v4, v5, v6>>
    BY <1>1 DEF Gun!vars
  <2>2. Gun!TypeOK' /\ ComingRamp' = ComingRamp /\ (Gun!Drives' <=> Gun!Drives)
        /\ (Gun!VelocityIsHistory' <=> Gun!VelocityIsHistory) /\ (Gun!NearTarget(v3)' <=> Gun!NearTarget(v3))
    <3>1. Gun!TypeOK'
      BY <2>1 DEF GunInv, Gun!TypeOK
    <3>2. (Gun!Drives' <=> Gun!Drives) /\ (Gun!VelocityIsHistory' <=> Gun!VelocityIsHistory)
          /\ (Gun!NearTarget(v3)' <=> Gun!NearTarget(v3))
      BY <2>1 DEF Gun!Drives, Gun!VelocityIsHistory, Gun!NearTarget
    <3>3. ComingRamp' = ComingRamp
      BY <2>1, <3>2 DEF ComingRamp, Ramp, Gun!Slower, Gun!Towards
    <3> QED
      BY <3>1, <3>2, <3>3
  <2>3. GunStops' /\ GunEfforts'
    BY <2>1, <2>2 DEF GunInv, GunStops, GunEfforts, Allowed
  <2>4. GunReferences' /\ GunClicks' /\ GunJams'
    BY <2>1, <2>2 DEF GunInv, GunReferences, GunClicks, GunJams, Gun!IsSent
  <2> QED
    BY <2>1, <2>2, <2>3, <2>4 DEF GunInv
<1>2. CASE Gun!Begin
  BY <1>2, GunBegins, GunAcceptsLater
<1>3. CASE Gun!Decide
  BY <1>3, GunDecides
<1>4. CASE Gun!Drive
  BY <1>4, GunDrives
<1>5. CASE Gun!Turn
  BY <1>5, GunTurns
<1>6. CASE Gun!Click \/ Gun!ClickAges
  BY <1>6, GunClicked DEF Gun!Click, Gun!ClickAges
<1>7. CASE Gun!DriveActivates \/ Gun!FeedbackStops \/ Gun!FeedbackReturns
  BY <1>7, GunIsCut
<1> QED
  BY <1>1, <1>2, <1>3, <1>4, <1>5, <1>6, <1>7 DEF Gun!Next

(* What the invariant says of the rounds, the efforts and the jams.        *)
LEMMA GunKeepsPromises ==
  GunInv => Gun!TypeOK /\ Gun!IndexesAreReserved /\ Gun!EffortIsOfThisCycle /\ Gun!JamIsNoticed
<1> SUFFICES ASSUME GunInv
             PROVE  Gun!TypeOK /\ Gun!IndexesAreReserved /\ Gun!EffortIsOfThisCycle /\ Gun!JamIsNoticed
  OBVIOUS
<1>1. Gun!IndexesAreReserved
  <2> SUFFICES ASSUME v4.pos > Tolerance PROVE v3.rounds > (v4.pos - Tolerance - 1) \div Step
    BY DEF Gun!IndexesAreReserved
  <2>1. v4.pos \in Nat /\ v3.rounds \in Nat /\ v3.rounds * Step \in Nat
    BY GunRecords, GunNumbers DEF GunInv
  <2> DEFINE x == v4.pos - Tolerance - 1
  <2>2. x \in Nat /\ x < v3.rounds * Step
    BY <2>1, GunRests, GunAssumption
  <2>3. v3.rounds > 0
    <3>1. v3.rounds * Step > 0
      BY <2>1, <2>2
    <3> QED
      BY <2>1, <3>1, GunAssumption
  <2> DEFINE n == v3.rounds - 1
  <2>4. n \in Nat /\ v3.rounds = n + 1
    BY <2>1, <2>3
  <2> HIDE DEF n, x
  <2>5. x < (n + 1) * Step
    BY <2>2, <2>4
  <2>6. x \div Step \in Nat /\ x \div Step <= n
    BY <2>2, <2>4, <2>5, StepsDivide
  <2>7. v3.rounds > x \div Step
    <3> DEFINE q == x \div Step
    <3> HIDE DEF q
    <3>1. q \in Nat /\ q <= n
      BY <2>6 DEF q
    <3>2. v3.rounds > q
      BY <2>4, <3>1
    <3> QED
      BY <3>2 DEF q
  <2> QED
    BY <2>7 DEF x
<1>2. Gun!EffortIsOfThisCycle
  BY DEF GunInv, GunEfforts, Gun!EffortIsOfThisCycle, Gun!Sent, Gun!IsSent, VelocityModes, Gun!PositionModes
<1>3. Gun!JamIsNoticed
  BY DEF GunInv, GunJams, Gun!JamIsNoticed
<1> QED
  BY <1>1, <1>2, <1>3 DEF GunInv

-----------------------------------------------------------------------------
(* The shooter with the other rigs.                                        *)

(* A click fires in the cycle it is first offered in or never, the dial    *)
(* does not pass the rounds reserved before it moved, and nothing fires    *)
(* unless somebody aims (ShooterExecutor::update() and CommandArbiter):    *)
(* the way the dial needs to come to rest, from whatever ramp it follows,  *)
(* ends within the rounds that are reserved already.                       *)
THEOREM ShotsStayMeant == Spec => ShotsAreMeant
<1> DEFINE Inv == (rig = "Gun" => GunInv) /\ (rig = "Who" => WhoInv)
           Act == rig = "Gun" => Gun!FiresNowOrNever
           Aimed == rig = "Who" => Who!FireIsAimed
           Reserved == rig = "Gun" => Gun!IndexesAreReserved
<1>1. Init => Inv
  BY GunStarts, WhoStarts DEF Init
<1>2. Inv /\ [Next]_vars => Inv' /\ [Act]_vars
  BY RigSteps, GunSteps, WhoSteps
<1>3. Inv => Aimed /\ Reserved
  BY GunKeepsPromises DEF WhoInv
<1> QED
  BY <1>1, <1>2, <1>3, PTL DEF Spec, ShotsAreMeant

(* What a motor of the shooter, the gimbal or the chassis is sent was      *)
(* computed for the cycle, the enabling and the coordinate it is in: an    *)
(* effort that was staged before a drive was enabled anew, or a reference  *)
(* lost, is not sent after it.                                             *)
THEOREM EffortsStayCurrent == Spec => []EffortsAreCurrent
<1> DEFINE Inv == (rig = "Gun" => GunInv) /\ (rig = "Axis" => AxisInv) /\ (rig = "Wheel" => WheelInv)
<1>1. Init => Inv
  BY GunStarts, AxisStarts, WheelStarts DEF Init
<1>2. Inv /\ [Next]_vars => Inv'
  BY RigSteps, GunSteps, AxisSteps, WheelSteps
<1>3. Inv => EffortsAreCurrent
  <2>1. WheelInv => Wheel!EffortIsOfItsEnabling
    BY DEF WheelInv, WheelFits, Wheel!EffortIsOfItsEnabling, Wheel!Sends
  <2> QED
    BY <2>1, GunKeepsPromises, AxisKeepsPromises DEF EffortsAreCurrent
<1> QED
  BY <1>1, <1>2, <1>3, PTL DEF Spec

(* No mechanism is driven against a stop: a dial that does not move is     *)
(* stopped after the jam timeout, and a limited axis moves only by a       *)
(* coordinate that was calibrated.  The timer of the mode has run for as   *)
(* long as the dial is stuck, though a mode that starts restarts it.       *)
THEOREM NothingIsEverForced == Spec => []NothingIsForced
<1> DEFINE Inv == (rig = "Gun" => GunInv) /\ (rig = "Axis" => AxisInv)
<1>1. Init => Inv
  BY GunStarts, AxisStarts DEF Init
<1>2. Inv /\ [Next]_vars => Inv'
  BY RigSteps, GunSteps, AxisSteps
<1>3. Inv => NothingIsForced
  BY GunKeepsPromises, AxisKeepsPromises DEF NothingIsForced
<1> QED
  BY <1>1, <1>2, <1>3, PTL DEF Spec

(* The variables of whichever rig takes the steps keep their types.        *)
THEOREM TypesHold == Spec => []TypeOK
<1> DEFINE Inv == /\ rig = "Gun" => GunInv
                  /\ rig = "Axis" => AxisInv
                  /\ rig = "Head" => HeadInv
                  /\ rig = "Wheel" => WheelInv
                  /\ rig = "Board" => BoardInv
                  /\ rig = "Second" => SecondInv
                  /\ rig = "Who" => WhoInv
<1>1. Init => Inv
  BY GunStarts, AxisStarts, HeadStarts, WheelStarts, BoardStarts, SecondStarts, WhoStarts DEF Init
<1>2. Inv /\ [Next]_vars => Inv'
  BY RigSteps, GunSteps, AxisSteps, HeadSteps, WheelSteps, BoardSteps, SecondSteps, WhoSteps
<1>3. Inv => TypeOK
  BY DEF GunInv, AxisInv, HeadInv, WheelInv, BoardInv, SecondInv, WhoInv, TypeOK
<1> QED
  BY <1>1, <1>2, <1>3, PTL DEF Spec

=============================================================================
