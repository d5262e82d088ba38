------------------------------- MODULE Shooter -------------------------------
(***************************************************************************)
(* lib/robotics/shooter_executor.cpp with the two dial controllers of      *)
(* lib/control/motor_control.cpp and the dial they turn.                   *)
(*                                                                         *)
(* One call of update() takes a snapshot of the dial motor three times:    *)
(* when it decides whether the dial may be enabled, after enabling it, and *)
(* in the controller.  Those are the steps Begin, Decide and Drive; the    *)
(* CAN thread may lose the feedback, or report the drive active, between   *)
(* any two.  Turn is the commit of the cycle and what the dial does in it. *)
(*                                                                         *)
(* Cycles have one length, the unit of time.  Positions are in half units, *)
(* from the phase origin, so that the travel of a cycle that begins at     *)
(* speed v and ends at w is v + w, and the stopping distance v^2, at the   *)
(* configured deceleration of one unit per cycle.  The mechanics assumed:  *)
(* the dial never slows more gently than that, and position control does   *)
(* not overshoot its target.                                               *)
(***************************************************************************)
EXTENDS Naturals

CONSTANTS
    Step,        \* dial_step_rad, half units
    Tolerance,   \* dial_tolerance_rad and dial_phase_tolerance_rad
    Speeds,      \* speeds a continuous command asks for
    Dwell,       \* friction_dwell_ms, in cycles, as are the next three
    Settle,      \* dial_settle_ms
    Jam,         \* jam_timeout_ms
    Brake,       \* dial_brake_timeout_ms
    MaxRounds,   \* bound on the rounds reserved
    MaxClicks,   \* bound on fire_event_id
    MaxGaps,     \* bound on the losses of feedback
    MaxEnables   \* bound on enable_generation

VARIABLES
    turn,    \* the step the execution thread takes next
    click,   \* the newest click: its id, and whether its stamp is fresh
    gun,     \* executor, controllers, and what the dial's endpoint was told
    dial,    \* the dial and the feedback of its motor
    shown,   \* the newest click an earlier cycle was offered
    stuck    \* cycles the dial has been driven without moving

vars == <<turn, click, gun, dial, shown, stuck>>

Least(a, b)    == IF a < b THEN a ELSE b
Greatest(a, b) == IF a > b THEN a ELSE b
Slower(v)      == IF v = 0 THEN 0 ELSE v - 1
Towards(v, w)  == IF v < w THEN v + 1 ELSE IF v > w THEN v - 1 ELSE v

TopSpeed == CHOOSE v \in Speeds : \A w \in Speeds : w <= v
TimerEnd == Greatest(Jam, Brake) \* a timer stops here
NoHistory == [live |-> FALSE, enable |-> 0, reference |-> 0]
NoSpeed   == [live |-> FALSE, enable |-> 0, speed |-> 0]
NoEffort == [kind |-> "None", enable |-> 0, new |-> FALSE]
Farthest == (MaxRounds + 1) * Step

Orders == {"Ready", "FireSingle", "FireContinuous"}

TypeOK ==
    /\ turn \in {"Begin", "Decide", "Drive", "Turn"}
    /\ click \in [id : 0 .. MaxClicks, fresh : BOOLEAN]
    /\ gun \in [mode : {"Disabled", "SinglePosition", "ContinuousVelocity", "BrakingVelocity", "HoldPosition"},
                jammed : BOOLEAN, dwell : 0 .. Dwell + 1,
                adopted : BOOLEAN, reference : 0 .. 2 * MaxGaps,
                target : 0 .. Farthest, budget : 0 .. Farthest, progress : 0 .. Farthest,
                requested : {0} \cup Speeds, since : 0 .. TimerEnd, settled : 0 .. Settle + 1,
                last : 0 .. MaxClicks, accepted : 0 .. MaxClicks, rounds : 0 .. MaxRounds,
                position : [live : BOOLEAN, enable : 0 .. MaxEnables, reference : 0 .. 2 * MaxGaps],
                velocity : [live : BOOLEAN, enable : 0 .. MaxEnables, speed : 0 .. TopSpeed],
                wanted : BOOLEAN, active : BOOLEAN, enable : 0 .. MaxEnables,
                staged : [kind : {"None", "Zero", "Position", "Velocity"},
                          enable : 0 .. MaxEnables, new : BOOLEAN]]
    /\ dial \in [pos : 0 .. Farthest, speed : 0 .. TopSpeed, fresh : BOOLEAN,
                 valid : BOOLEAN, generation : 0 .. 2 * MaxGaps, gaps : 0 .. MaxGaps]
    /\ shown \in 0 .. MaxClicks
    /\ stuck \in 0 .. Jam + 3

Init ==
    /\ turn = "Begin"
    /\ click = [id |-> 0, fresh |-> FALSE]
    /\ gun = [mode |-> "Disabled", jammed |-> FALSE, dwell |-> 0,
              adopted |-> FALSE, reference |-> 0,
              target |-> 0, budget |-> 0, progress |-> 0, requested |-> 0, since |-> 0, settled |-> 0,
              last |-> 0, accepted |-> 0, rounds |-> 0,
              position |-> NoHistory,
              velocity |-> NoSpeed,
              wanted |-> FALSE, active |-> FALSE, enable |-> 0, staged |-> NoEffort]
    /\ dial = [pos |-> 0, speed |-> 0, fresh |-> TRUE, valid |-> TRUE, generation |-> 0, gaps |-> 0]
    /\ shown = 0
    /\ stuck = 0

-----------------------------------------------------------------------------
(* Members of the executor.                                                *)

(* consumeEvent() of a click that is not accepted. *)
Consumed(g) == [g EXCEPT !.last = Greatest(@, click.id)]

PositionModes == {"SinglePosition", "HoldPosition"}

(* setDialMode(): the controllers share a producer, so changing from one   *)
(* to the other drops the effort staged and the history of both.           *)
InMode(g, mode) ==
    IF /\ mode # g.mode
       /\ \/ "Disabled" \in {mode, g.mode}
          \/ (mode \in PositionModes) # (g.mode \in PositionModes)
    THEN [g EXCEPT !.mode = mode, !.staged = NoEffort,
                   !.position = NoHistory, !.velocity = NoSpeed]
    ELSE [g EXCEPT !.mode = mode]

(* stopFeed().  The target it shows is not used: the next mode sets it.    *)
Stopped(g) ==
    [InMode(g, "Disabled") EXCEPT
        !.wanted = FALSE, !.active = FALSE, !.staged = NoEffort, !.requested = 0,
        !.since = 0, !.settled = 0, !.budget = 0, !.target = 0, !.progress = 0]

(* stopFriction() with stopFeed(), as suspend() *)
Suspended(g) == [Stopped(g) EXCEPT !.dwell = 0]

(* nextIndex(): a phase within the tolerance of an index is at that index. *)
NextIndex(pos) == ((pos + Tolerance) \div Step + 1) * Step

(* startBraking() *)
Braking(g) == [InMode(g, "BrakingVelocity") EXCEPT !.since = 0, !.settled = 0]

(* The timers are stamps compared with now: they run in every cycle of a   *)
(* mode that reads them.                                                   *)
Waited(g) ==
    [g EXCEPT !.since = IF g.mode \in {"Disabled", "HoldPosition"} THEN 0 ELSE Least(@ + 1, TimerEnd),
              !.settled = IF @ = 0 THEN 0 ELSE Least(@ + 1, Settle + 1),
              !.staged.new = FALSE,
              !.requested = 0]

SettledFor(g, settled) ==
    [g EXCEPT !.settled = IF ~settled THEN 0 ELSE Greatest(@, 1)]
HasSettled(g) == g.settled > Settle

-----------------------------------------------------------------------------
(* update(), to the enabling of the dial.  The gates of the command, the   *)
(* permission and the transport are one choice, those of the gimbal, the   *)
(* heat and allow_feed another.                                            *)

Finish(g) ==
    /\ gun' = g
    /\ turn' = "Turn"

Friction(g, spin) == [g EXCEPT !.dwell = IF spin THEN Least(@ + 1, Dwell + 1) ELSE 0]

Withheld(g, aim) == g.dwell <= Dwell \/ ~aim \/ g.jammed

(* reseedPosition() with the position of the home sensor, which starts a   *)
(* reference of its own.                                                   *)
Reseeds(home) == ~dial.valid /\ dial.fresh /\ home
Reseeded      == [dial EXCEPT !.valid = TRUE, !.generation = @ + 1, !.pos = 0]

(* The reference is adopted; travel accepted in an old one is not.         *)
Adopted(g, d) == [Stopped(g) EXCEPT !.adopted = TRUE, !.reference = d.generation]

Enabled(g) == [g EXCEPT !.wanted = TRUE]

Referenced(g, d) ==
    \/ /\ ~(d.fresh /\ d.valid)
       /\ Finish(Stopped(Consumed(g)))
    \/ /\ d.fresh /\ d.valid
       /\ g.adopted /\ g.reference # d.generation
       /\ Finish(Consumed(Adopted(g, d)))
    \/ /\ d.fresh /\ d.valid
       /\ g.adopted => g.reference = d.generation
       /\ gun' = Enabled(IF g.adopted THEN g ELSE Adopted(g, d))
       /\ turn' = "Decide"

Permitted(g, aim, home) ==
    \/ /\ Withheld(g, aim)
       /\ Finish(Stopped(Consumed(g)))
       /\ UNCHANGED dial
    \/ /\ ~Withheld(g, aim) /\ Reseeds(home)
       /\ Referenced([g EXCEPT !.staged = NoEffort, !.rounds = 0], Reseeded)
       /\ dial' = Reseeded
    \/ /\ ~Withheld(g, aim) /\ ~Reseeds(home)
       /\ Referenced(g, dial)
       /\ UNCHANGED dial

Begin ==
    /\ turn = "Begin"
    /\ \/ Finish(Suspended(Consumed([Waited(gun) EXCEPT !.jammed = FALSE]))) /\ UNCHANGED dial
       \/ Finish(Suspended(Consumed(Waited(gun)))) /\ UNCHANGED dial
       \/ \E spin, aim, home \in BOOLEAN : Permitted(Friction(Waited(gun), spin), aim, home)
    /\ UNCHANGED <<click, shown, stuck>>

-----------------------------------------------------------------------------
(* update(), from the second snapshot.  Each operator is one block of it;  *)
(* room is the number of rounds the heat still allows.                     *)

Drives == gun.active /\ dial.fresh

Jammed(g) == Stopped(Consumed([g EXCEPT !.jammed = TRUE]))

WakeUp(g) ==
    IF g.mode = "Disabled"
    THEN InMode([g EXCEPT !.target = dial.pos], "HoldPosition")
    ELSE g

NearTarget(g) == dial.pos + Tolerance >= g.target /\ dial.pos <= g.target + Tolerance

Arrival(g) ==
    LET s == SettledFor(g, NearTarget(g) /\ dial.speed = 0)
    IN  IF g.mode # "SinglePosition" THEN g
        ELSE IF HasSettled(s) THEN InMode([s EXCEPT !.settled = 0], "HoldPosition")
        ELSE IF g.since >= Jam THEN Jammed(s)
        ELSE s

StopFiring(g, order) ==
    IF g.mode = "ContinuousVelocity" /\ order # "FireContinuous" THEN Braking(g) ELSE g

Standstill(g) ==
    LET s == SettledFor(g, dial.speed = 0)
    IN  IF g.mode # "BrakingVelocity" THEN g
        ELSE IF HasSettled(s)
        THEN InMode([s EXCEPT !.target = dial.pos, !.budget = 0, !.settled = 0], "HoldPosition")
        ELSE IF g.since >= Brake THEN Jammed(s)
        ELSE s

Accepts(g, order, room) ==
    /\ click.id > g.last
    /\ order = "FireSingle"
    /\ click.fresh
    /\ g.mode = "HoldPosition"
    /\ dial.speed = 0
    /\ room > 0

Single(g, order, room) ==
    IF Accepts(g, order, room)
    THEN InMode([Consumed(g) EXCEPT
                    !.accepted = click.id, !.rounds = @ + 1, !.target = NextIndex(dial.pos),
                    !.since = 0, !.settled = 0], "SinglePosition")
    ELSE Consumed(g)

StartFiring(g, order, room) ==
    IF order = "FireContinuous" /\ g.mode = "HoldPosition" /\ room > 0
    THEN InMode([g EXCEPT !.rounds = @ + 1, !.budget = NextIndex(dial.pos),
                          !.progress = dial.pos, !.since = 0], "ContinuousVelocity")
    ELSE g

(* Mutant: the travel of this cycle alone. *)
LookaheadOfOneCycle(speed) == 2 * Greatest(speed, dial.speed) + Tolerance

(* The travel of this cycle and of braking after it.                       *)
Lookahead(speed) == LET v == Greatest(speed, dial.speed) IN v * v + 2 * v + Tolerance

(* The reservation loop: one round for each index up to the lookahead.     *)
Reserve(g, speed, room) ==
    LET reach  == dial.pos + Lookahead(speed)
        needed == IF reach >= g.budget THEN (reach - g.budget) \div Step + 1 ELSE 0
        taken  == Least(needed, room)
        r      == [g EXCEPT !.rounds = @ + taken, !.budget = @ + taken * Step]
    IN  IF g.mode # "ContinuousVelocity" THEN g
        ELSE IF taken < needed THEN Braking(r)
        ELSE r

(* Mutant: no movement is progress too. *)
ProgressAnyway(g) ==
    IF g.mode = "ContinuousVelocity" /\ dial.pos >= g.progress
    THEN [g EXCEPT !.progress = dial.pos, !.since = 0]
    ELSE g

Progress(g) ==
    IF g.mode # "ContinuousVelocity" THEN g
    ELSE IF dial.pos >= g.progress + Tolerance
    THEN [g EXCEPT !.progress = dial.pos, !.since = 0]
    ELSE IF g.since >= Jam THEN Jammed(g)
    ELSE g

(* The blocks after a jam are skipped: the function has returned.          *)
Decided(order, speed, room) ==
    LET a == Standstill(StopFiring(Arrival(WakeUp(gun)), order))
        b == Single(a, order, room)
        c == StartFiring(b, order, room - (b.rounds - a.rounds))
        d == Progress(Reserve(c, speed, room - (c.rounds - a.rounds)))
    IN  IF a.jammed THEN a
        ELSE [d EXCEPT !.requested = IF d.mode = "ContinuousVelocity" THEN speed ELSE 0]

Decide ==
    /\ turn = "Decide"
    /\ \/ ~Drives /\ Finish(Consumed(gun))
       \/ /\ Drives
          /\ \E order \in Orders, speed \in Speeds, room \in 0 .. MaxRounds - gun.rounds :
                gun' = Decided(order, speed, room)
          /\ turn' = IF gun'.jammed THEN "Turn" ELSE "Drive"
    /\ UNCHANGED <<click, dial, shown, stuck>>

-----------------------------------------------------------------------------
(* update() of the controllers: a snapshot of their own, no effort in the  *)
(* first cycle of a history, and a history ends when the drive was enabled *)
(* anew or, for positions, the reference changed.                          *)

Effort(kind) == [kind |-> kind, enable |-> gun.enable, new |-> TRUE]

PositionIsHistory ==
    gun.position = [live |-> TRUE, enable |-> gun.enable, reference |-> dial.generation]

VelocityIsHistory == gun.velocity.live /\ gun.velocity.enable = gun.enable

PositionUpdate ==
    IF ~(dial.valid /\ Drives)
    THEN [gun EXCEPT !.position = NoHistory, !.staged = NoEffort]
    ELSE IF PositionIsHistory THEN [gun EXCEPT !.staged = Effort("Position")]
    ELSE [gun EXCEPT !.position = [live |-> TRUE, enable |-> gun.enable, reference |-> dial.generation],
                     !.staged = Effort("Zero")]

VelocityUpdate ==
    IF ~Drives
    THEN [gun EXCEPT !.velocity = NoSpeed, !.staged = NoEffort]
    ELSE IF VelocityIsHistory
    THEN [gun EXCEPT !.velocity.speed = Towards(@, gun.requested), !.staged = Effort("Velocity")]
    ELSE [gun EXCEPT !.velocity = [live |-> TRUE, enable |-> gun.enable, speed |-> 0],
                     !.staged = Effort("Zero")]

Drive ==
    /\ turn = "Drive"
    /\ gun' = IF gun.mode \in PositionModes THEN PositionUpdate ELSE VelocityUpdate
    /\ turn' = "Turn"
    /\ UNCHANGED <<click, dial, shown, stuck>>

-----------------------------------------------------------------------------
(* The commit, and the dial until the next cycle.                          *)

(* An effort is sent while the drive is active, and computed efforts only  *)
(* in the enabling they were computed for.                                 *)
IsSent(effort) == effort.kind # "None" /\ Drives /\ effort.enable = gun.enable

Sent == IF IsSent(gun.staged) THEN gun.staged.kind ELSE "None"

(* The speeds the dial may have after the cycle: it may be blocked.        *)
PositionSpeeds ==
    LET within(w) == w * w + dial.pos + dial.speed + w <= gun.target
        some      == {w \in Slower(dial.speed) .. Least(dial.speed + 1, TopSpeed) : within(w)}
    IN  IF some = {} THEN {Slower(dial.speed)} ELSE some

NextSpeeds ==
    CASE Sent = "Position" -> PositionSpeeds
      [] Sent = "Velocity" -> {Towards(dial.speed, gun.velocity.speed)}
      [] OTHER             -> {Slower(dial.speed)}

Busy == gun.mode \in {"SinglePosition", "ContinuousVelocity"} /\ Sent \in {"Position", "Velocity"}

(* A dial at its target is not stuck: only that of a single round has one. *)
Arrived == gun.mode = "SinglePosition" /\ NearTarget(gun)

Turn ==
    /\ turn = "Turn"
    /\ \/ \E w \in NextSpeeds :
            dial' = [dial EXCEPT !.pos = @ + dial.speed + w, !.speed = w]
       \/ dial' = [dial EXCEPT !.speed = 0]
    /\ stuck' = IF Busy /\ dial'.pos = dial.pos /\ ~Arrived THEN stuck + 1 ELSE 0
    /\ shown' = click.id
    /\ turn' = "Begin"
    /\ UNCHANGED <<click, gun>>

-----------------------------------------------------------------------------
(* The command thread and the CAN thread.                                  *)

(* A click is read when a cycle begins. *)
Click ==
    /\ turn = "Begin"
    /\ click.id < MaxClicks
    /\ click' = [id |-> click.id + 1, fresh |-> TRUE]
    /\ UNCHANGED <<turn, gun, dial, shown, stuck>>

ClickAges ==
    /\ turn = "Begin"
    /\ click.fresh
    /\ click' = [click EXCEPT !.fresh = FALSE]
    /\ UNCHANGED <<turn, gun, dial, shown, stuck>>

DriveActivates ==
    /\ gun.wanted /\ ~gun.active /\ dial.fresh
    /\ gun.enable < MaxEnables
    /\ gun' = [gun EXCEPT !.active = TRUE, !.enable = @ + 1]
    /\ UNCHANGED <<turn, click, dial, shown, stuck>>

FeedbackStops ==
    /\ dial.fresh
    /\ dial.gaps < MaxGaps
    /\ dial' = [dial EXCEPT !.fresh = FALSE, !.gaps = @ + 1]
    /\ UNCHANGED <<turn, click, gun, shown, stuck>>

(* A gap outlasts the dial: it has come to rest.  The reference is lost.   *)
FeedbackReturns ==
    /\ ~dial.fresh
    /\ dial.speed = 0
    /\ dial' = [dial EXCEPT !.fresh = TRUE, !.valid = FALSE,
                            !.generation = IF dial.valid THEN @ + 1 ELSE @]
    /\ gun' = [gun EXCEPT !.active = FALSE]
    /\ UNCHANGED <<turn, click, shown, stuck>>

Next ==
    \/ Begin \/ Decide \/ Drive \/ Turn
    \/ Click \/ ClickAges \/ DriveActivates \/ FeedbackStops \/ FeedbackReturns

Spec == Init /\ [][Next]_vars

-----------------------------------------------------------------------------
(* A round is reserved before the dial leaves the index it starts from:    *)
(* however firing stops - command, heat, feedback, friction - the dial     *)
(* comes to rest within the travel that was reserved.                      *)
IndexesAreReserved ==
    dial.pos > Tolerance => gun.rounds > (dial.pos - Tolerance - 1) \div Step

(* A click fires in the first cycle that is offered it or not at all: one  *)
(* that meets a closed gate, a moving dial or a full barrel is not stored. *)
FiresNowOrNever == gun'.accepted # gun.accepted => gun'.accepted > shown

(* What the drive is sent was computed in this cycle, by the controller of *)
(* the mode the cycle chose.                                               *)
EffortIsOfThisCycle ==
    turn = "Turn" /\ Sent # "None" =>
        /\ gun.staged.new
        /\ Sent = "Position" => gun.mode \in PositionModes
        /\ Sent = "Velocity" => gun.mode \notin PositionModes

(* A dial that does not move is not driven on: after the jam timeout and a *)
(* cycle to notice it the executor stops.                                  *)
JamIsNoticed == stuck <= Jam

=============================================================================
