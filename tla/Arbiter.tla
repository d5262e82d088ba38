-------------------------------- MODULE Arbiter --------------------------------
(***************************************************************************)
(* Who steers the gimbal and who may fire, the operator or the camera:     *)
(* CommandArbiter of lib/robotics/command.cpp, fed by VisionLink of        *)
(* lib/communication/vision_link.cpp.                                      *)
(*                                                                         *)
(* A frame of the camera is stamped when it is received, and accepted by   *)
(* the thread of the receiver some time later; a pass of CommandManager    *)
(* samples its sources and decides later still.  The clock and the         *)
(* sequence of the link only go up, so ClockRegression and a sequence that *)
(* goes back are left out; so are limits of rates, another reference than  *)
(* the configured one, and the queue of remote frames and the clicks,      *)
(* which are those of CommandGate.                                         *)
(***************************************************************************)
EXTENDS Integers

CONSTANTS
    Profiles,      \* the input profiles of the mapper
    Intents,       \* what the operator may want in each (ManualMapper)
    VisionTimeout, \* vision_timeout_us
    Release,       \* override_release_us
    Late,          \* bound on the time a frame waits to be accepted
    MaxTime,       \* bound on the time
    MaxAims        \* bound on the sequence of the link

VARIABLES
    profile,  \* input_profile
    time,     \* the clock
    link,     \* value_.aim of the link
    sampled,  \* what the manager has sampled
    arbiter,  \* members of the arbiter
    decision, \* CommandDecision of the pass that has just ended
    record    \* since when the camera may steer, what was known then, and
              \* when the operator last pushed the stick in Auto

vars == <<profile, time, link, sampled, arbiter, decision, record>>

Never  == -1
NoAim  == [valid |-> FALSE, time |-> 0, sequence |-> 0, control |-> FALSE, fire |-> FALSE]
Frames == {"Stop", "Aim", "Fire"}

Disabled == [gimbal |-> "Disabled", shooter |-> "Disabled", source |-> "None", pulled |-> FALSE, target |-> NoAim]

-----------------------------------------------------------------------------
(* The camera and its link.                                                *)

(* VisionLink::accept() of a frame received at rx; a stop replaces the     *)
(* target.                                                                 *)
Accept(kind, rx) ==
    /\ link.sequence < MaxAims
    /\ rx \in 0 .. time
    /\ link.valid => rx >= link.time
    /\ link' = [valid |-> TRUE, time |-> rx, sequence |-> link.sequence + 1,
                control |-> kind # "Stop", fire |-> kind = "Fire"]
    /\ decision' = Disabled
    /\ UNCHANGED <<profile, time, sampled, arbiter, record>>

Tick ==
    /\ time < MaxTime
    /\ time' = time + 1
    /\ decision' = Disabled
    /\ UNCHANGED <<profile, link, sampled, arbiter, record>>

-----------------------------------------------------------------------------
(* A pass of the manager.                                                  *)

NotSampled == [taken |-> FALSE, aim |-> NoAim]

(* The link is sampled, some time before the decision.                     *)
Sample ==
    /\ ~sampled.taken
    /\ sampled' = [taken |-> TRUE, aim |-> link]
    /\ decision' = Disabled
    /\ UNCHANGED <<profile, time, link, arbiter, record>>

Known == IF sampled.aim.valid THEN sampled.aim.sequence ELSE 0

Entered(a) == IF a.previous = "Auto" THEN a ELSE [a EXCEPT !.entry = time, !.baseline = Known]

QuietAgain(a) == [a EXCEPT !.override = TRUE, !.quiet = Never]

(* updateAutoOverride() *)
Overridden(a, stick) ==
    IF ~a.override /\ stick < 2 THEN a
    ELSE IF stick > 0 THEN QuietAgain(a)
    ELSE LET since == IF a.quiet = Never THEN time ELSE a.quiet
         IN  IF time - since >= Release
             THEN [a EXCEPT !.override = FALSE, !.quiet = Never, !.entry = time, !.baseline = Known]
             ELSE [a EXCEPT !.quiet = since]

IsNew(a, v) == v.sequence > a.baseline /\ v.time >= a.entry

(* The camera may be followed. *)
Steers(a, v) ==
    /\ v.valid /\ time - v.time <= VisionTimeout
    /\ v.control
    /\ IsNew(a, v)

Ended(a, d, auto, stick) ==
    /\ arbiter' = a
    /\ decision' = d
    /\ sampled' = NotSampled
    /\ record' = [auto |-> auto,
                  since |-> IF ~auto THEN Never ELSE IF record.auto THEN record.since ELSE time,
                  known |-> IF ~auto \/ record.auto THEN record.known ELSE Known,
                  pushed |-> IF a.previous # "Auto" THEN Never
                             ELSE IF stick = 2 THEN time ELSE record.pushed]
    /\ UNCHANGED <<profile, time, link>>

(* update() that disables: the remote is not there or cannot be read, the  *)
(* gate is closed, or the operator wants to be safe; which of these it is, *)
(* nothing tells apart afterwards.                                         *)
Disable ==
    /\ sampled.taken
    /\ Ended([arbiter EXCEPT !.previous = "Safe", !.override = FALSE, !.quiet = Never], Disabled, FALSE, 0)

Aims(command) == command \notin {"Hold", "Disabled"}

(* The last part of update(): the permissions of the referee take away     *)
(* what is requested, and nothing fires unless somebody aims.              *)
Permitted(requested, i, v, fire, by, gimbal_output, shooter_output) ==
    LET gimbal == IF gimbal_output THEN requested ELSE "Disabled"
        armed  == i.friction_requested /\ shooter_output
        fires  == armed /\ fire /\ Aims(gimbal)
    IN  [gimbal  |-> gimbal,
         shooter |-> IF fires THEN "Fire" ELSE IF armed THEN "Ready" ELSE "Disabled",
         source  |-> IF fires THEN by ELSE IF armed THEN i.source ELSE "None",
         pulled  |-> i.fire_requested,
         target  |-> IF gimbal = "AbsoluteAngle" THEN v ELSE NoAim]

(* update() otherwise *)
Decide(i, gimbal_output, shooter_output) ==
    LET v == sampled.aim
        auto == i.mode = "Auto"
        a == IF auto THEN [Overridden(Entered(arbiter), i.stick) EXCEPT !.previous = "Auto"]
             ELSE [arbiter EXCEPT !.previous = "Manual", !.override = FALSE, !.quiet = Never]
        by_hand   == ~auto \/ a.override
        visual    == ~by_hand /\ Steers(a, v)
        fire      == IF by_hand THEN i.fire_requested
                     ELSE visual /\ v.fire /\ (profile = "PhysicalRemote" => i.fire_requested)
        requested == IF by_hand THEN "Rate" ELSE IF visual THEN "AbsoluteAngle" ELSE "Hold"
    IN  /\ sampled.taken /\ i.mode \in {"Manual", "Auto"}
        /\ Ended(a,
                 Permitted(requested, i, v, fire, IF visual THEN "Vision" ELSE i.source,
                           gimbal_output, shooter_output),
                 ~by_hand, i.stick)

-----------------------------------------------------------------------------
Init ==
    /\ profile \in Profiles
    /\ time = 0 /\ link = NoAim
    /\ sampled = NotSampled
    /\ arbiter = [previous |-> "Safe", entry |-> 0, baseline |-> 0, override |-> FALSE, quiet |-> Never]
    /\ decision = Disabled
    /\ record = [auto |-> FALSE, since |-> Never, known |-> 0, pushed |-> Never]

Next ==
    \/ \E kind \in Frames, rx \in time - Late .. time : Accept(kind, rx)
    \/ Tick
    \/ Sample
    \/ Disable
    \/ \E i \in Intents[profile], gimbal_output, shooter_output \in BOOLEAN :
            Decide(i, gimbal_output, shooter_output)

Spec == Init /\ [][Next]_vars

-----------------------------------------------------------------------------
Aim == [valid : BOOLEAN, time : 0 .. MaxTime, sequence : 0 .. MaxAims, control : BOOLEAN, fire : BOOLEAN]
Moment == -1 .. MaxTime

(* The type invariant; an override is one of Auto, and waits for quiet     *)
(* only while it lasts.                                                    *)
TypeOK ==
    /\ profile \in Profiles /\ time \in 0 .. MaxTime
    /\ {link, sampled.aim, decision.target} \subseteq Aim
    /\ arbiter \in [previous : {"Safe", "Manual", "Auto"}, entry : 0 .. MaxTime, baseline : 0 .. MaxAims,
                    override : BOOLEAN, quiet : Moment]
    /\ arbiter.override => arbiter.previous = "Auto"
    /\ arbiter.quiet # Never => arbiter.override /\ time - arbiter.quiet >= 0
    /\ decision.gimbal \in {"Disabled", "Hold", "Rate", "AbsoluteAngle"}
    /\ decision.shooter \in {"Disabled", "Ready", "Fire"}
    /\ record \in [auto : BOOLEAN, since : Moment, known : 0 .. MaxAims, pushed : Moment]

(* The gimbal follows the camera only to targets it gave after the         *)
(* operator had handed over: none that was received or known before, and   *)
(* none for a time after the stick was pushed (CommandArbiter::update()).  *)
TargetsAreOfThisEntry ==
    decision.gimbal = "AbsoluteAngle" =>
        /\ record.auto
        /\ decision.target.time >= record.since /\ decision.target.sequence > record.known
        /\ record.pushed # Never => record.since - record.pushed >= Release

(* Nothing fires unless the gimbal is being aimed, and by the camera's     *)
(* word only on the target it is aimed at; the trigger of the remote, when *)
(* it has one, must be pulled as well.                                     *)
FireIsAimed ==
    decision.shooter = "Fire" =>
        /\ decision.gimbal \in {"Rate", "AbsoluteAngle"}
        /\ decision.source = "Vision" <=> decision.gimbal = "AbsoluteAngle"
        /\ decision.source = "Vision" => decision.target.control /\ decision.target.fire
        /\ decision.source = "Vision" /\ profile = "PhysicalRemote" => decision.pulled
=============================================================================
