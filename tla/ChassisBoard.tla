----------------------------- MODULE ChassisBoard -----------------------------
(***************************************************************************)
(* The chassis board of samples/robotics/common/vehicle_bench.hpp: the     *)
(* communication thread publishes what the gimbal board sends (Poll), and  *)
(* a cycle of run() drives the big yaw and the wheels by it.  The two are  *)
(* alike but for the permission of the referee, which comes with the       *)
(* request of the big yaw and by itself for the wheels: one of them is     *)
(* modelled, chosen in the initial state.                                  *)
(*                                                                         *)
(* The console, or one exercise of SampleDiagnostics, pauses the inputs,   *)
(* the execution or neither.  How long an exercise waits and lasts is left *)
(* open, as are speeds and power; see Chassis for those.                   *)
(*                                                                         *)
(* Only differences of times are compared: a stamp is kept as the time     *)
(* that has passed since, and every tick adds one.                         *)
(***************************************************************************)
EXTENDS Naturals

CONSTANTS
    CommandTimeout,    \* command_timeout_ms, and source_timeout_us
    PermissionTimeout, \* permission_timeout_ms
    EffortTimeout,     \* command_timeout_ms of the motor
    Latency,           \* bound on the time a request travels
    Arm,               \* neutral_arm_ms: how long a gimbal board that boots permits nothing
    MaxBoots           \* bound on the boots of the gimbal board

VARIABLES
    build,     \* what pauses the board, and the mechanism modelled
    peer,      \* the gimbal board: its boot, and how long ago it was, up to Arm
    link,      \* the boot, the request and the permission the link retains
    snap,      \* published_ of the endpoint, but for what it takes from the link
    exercise,  \* the state of SampleDiagnostics, or what the console has paused
    cached,    \* cached_control or cached_big_request, with its permission
    known,     \* peer_boot of run()
    drive      \* the motor, and the effort staged

vars == <<build, peer, link, snap, exercise, cached, known, drive>>

(* The age of a request is what the board knows of it: the one reported    *)
(* and the time since.  Its way, which it cannot know, adds to it.  Ages   *)
(* past every timeout are alike.                                           *)
Old      == CommandTimeout + 1
Expired  == PermissionTimeout + 1
Longest  == CommandTimeout + Latency + EffortTimeout
Nothing  == [boot |-> 0, age |-> Old, way |-> 0, permit |-> Expired]
Orders   == [boot : 0 .. MaxBoots, age : 0 .. Old, way : 0 .. Latency, permit : 0 .. Expired]

Still == [wanted |-> FALSE, active |-> FALSE, effort |-> EffortTimeout + 1, boot |-> 0, asked |-> 0]

TypeOK ==
    /\ build \in [pauses : {"Console", "Input", "Execution"}, mechanism : {"BigYaw", "Wheels"}]
    /\ peer \in [boot : 1 .. MaxBoots, since : 0 .. Arm]
    /\ link \in Orders
    /\ snap \in [online : BOOLEAN, run : BOOLEAN]
    /\ exercise \in {"Ready", "Tracking", "Input", "Execution", "Done"}
    /\ cached \in Orders
    /\ known \in 0 .. MaxBoots
    /\ drive \in [wanted : BOOLEAN, active : BOOLEAN, effort : 0 .. EffortTimeout + 1,
                  boot : 0 .. MaxBoots, asked : 0 .. Longest + 1]

Init ==
    /\ build \in [pauses : {"Console", "Input", "Execution"}, mechanism : {"BigYaw", "Wheels"}]
    /\ peer = [boot |-> 1, since |-> 0]
    /\ link = Nothing
    /\ snap = [online |-> FALSE, run |-> FALSE]
    /\ exercise = "Ready"
    /\ cached = Nothing
    /\ known = 0
    /\ drive = Still

-----------------------------------------------------------------------------
(* The communication thread: InterBoardEndpoint::poll().                   *)

(* A newer request replaces the one retained, or a revocation empties it.  *)
(* The big yaw's comes with a permission, the wheels' comes without: it is *)
(* a new one, the same, or none.                                           *)
Newer(order) ==
    /\ order.age = Old => order.way = 0
    /\ order.age + order.way < link.age + link.way \/ Old \in {order.age, link.age}

Heard ==
    {order \in Orders :
        /\ order.boot = link.boot /\ order.permit \in {0, link.permit, Expired}
        /\ \/ Newer(order) \/ order = link
           \/ build.mechanism = "Wheels" /\ order.age = link.age /\ order.way = link.way}

(* What is heard of the gimbal board.  The first heartbeat of a boot       *)
(* empties the link, as its loss does.  Unless the console controls it, the *)
(* operator of a boot has to hold the sticks centred before it may permit  *)
(* to run.                                                                 *)
Poll ==
    /\ snap' \in [online : BOOLEAN, run : BOOLEAN]
    /\ \/ ~snap'.online /\ link' = [Nothing EXCEPT !.boot = link.boot]
       \/ snap'.online /\ link.boot = peer.boot /\ link' \in Heard
       \/ snap'.online /\ link.boot # peer.boot /\ link.boot # 0 /\ link' = link
       \/ snap'.online /\ link.boot # peer.boot /\ link' = [Nothing EXCEPT !.boot = peer.boot]
    /\ snap'.run => snap'.online /\ link'.boot = peer.boot /\ (build.pauses # "Console" => peer.since = Arm)
    /\ UNCHANGED <<build, peer, exercise, cached, known, drive>>

Reboot ==
    /\ peer.boot < MaxBoots
    /\ peer' = [boot |-> peer.boot + 1, since |-> 0]
    /\ UNCHANGED <<build, link, snap, exercise, cached, known, drive>>

-----------------------------------------------------------------------------
(* A cycle of run() on the chassis board.                                  *)

(* SampleDiagnostics::update(): one exercise per boot, which the operator  *)
(* cancels by withdrawing the permission to run.  The console toggles.     *)
Exercises ==
    IF build.pauses = "Console" THEN {"Ready", "Input", "Execution"}
    ELSE IF exercise = "Done" THEN {"Done"}
    ELSE IF ~snap.run THEN {IF exercise = "Ready" THEN "Ready" ELSE "Done"}
    ELSE IF exercise = build.pauses THEN {build.pauses, "Done"}
    ELSE IF drive.wanted /\ drive.active THEN {"Tracking", build.pauses}
    ELSE {"Ready"}

(* The newest order, unless the inputs are paused; the wheels' permission  *)
(* is that of the snapshot anyway.                                         *)
Snapshot  == IF snap.run THEN link ELSE [link EXCEPT !.age = Old, !.way = 0]
Order(now) ==
    IF now # "Input" THEN Snapshot
    ELSE IF build.mechanism = "BigYaw" THEN cached
    ELSE [cached EXCEPT !.permit = link.permit]

(* forwardedFresh() of the request and of its permission.                  *)
Current(order) == order.age <= CommandTimeout /\ order.permit <= PermissionTimeout

(* The gates of BigYawExecutor::update() and ChassisExecutor::update().    *)
Moves(order, stops, now) ==
    /\ ~stops /\ snap.run /\ snap.online
    /\ ~(build.pauses = "Console" /\ now = "Input")
    /\ Current(order)

(* An effort is computed in a timely cycle, for a drive that is active.    *)
Driven(motor, order, timely) ==
    IF motor.active /\ timely
    THEN [motor EXCEPT !.effort = 0, !.boot = order.boot, !.asked = order.age + order.way]
    ELSE [Still EXCEPT !.wanted = TRUE, !.active = motor.active]

(* A paused execution is not resumed by anything but what stops it.  A     *)
(* boot that is not known yet suspends the executors first.                *)
Run ==
    \E stops, timely \in BOOLEAN, now \in Exercises :
        LET order == Order(now)
            motor == IF link.boot = known THEN drive ELSE Still
        IN  /\ exercise' = now
            /\ cached' = order
            /\ \/ /\ now = "Execution" /\ ~stops /\ snap.run
                  /\ UNCHANGED <<known, drive>>
               \/ /\ ~(now = "Execution" /\ ~stops /\ snap.run)
                  /\ known' = link.boot
                  /\ drive' = IF Moves(order, stops, now) THEN Driven(motor, order, timely) ELSE Still
            /\ UNCHANGED <<build, peer, link, snap>>

-----------------------------------------------------------------------------
Activates ==
    /\ drive.wanted /\ ~drive.active
    /\ drive' = [drive EXCEPT !.active = TRUE]
    /\ UNCHANGED <<build, peer, link, snap, exercise, cached, known>>

Later(age, last) == IF age < last THEN age + 1 ELSE last
Aged(order) == [order EXCEPT !.age = Later(@, Old), !.permit = Later(@, Expired)]

Tick ==
    /\ peer' = [peer EXCEPT !.since = Later(@, Arm)]
    /\ link' = Aged(link) /\ cached' = Aged(cached)
    /\ drive' = IF drive.effort < EffortTimeout
                THEN [drive EXCEPT !.effort = @ + 1, !.asked = Later(@, Longest + 1)]
                ELSE [Still EXCEPT !.wanted = drive.wanted, !.active = drive.active]
    /\ UNCHANGED <<build, snap, exercise, known>>

Next == Poll \/ Reboot \/ Run \/ Activates \/ Tick

Spec == Init /\ [][Next]_vars

-----------------------------------------------------------------------------
Moving == drive.effort <= EffortTimeout

(* Whatever is paused, and however late either thread runs, what moves the *)
(* chassis was asked for no longer ago than the ages and the way of a      *)
(* request add up to.                                                      *)
MovesInTime == Moving => drive.asked <= Longest

(* No order of one boot of the gimbal board is carried out under another:  *)
(* one that was kept while the inputs were paused is too old when the      *)
(* operator may permit to run again.                                       *)
OrdersAreOfThisBoot == Moving => drive.boot = known

=============================================================================
