----------------------------- MODULE VehicleBench -----------------------------
(***************************************************************************)
(* The gimbal board of samples/robotics/common/vehicle_bench.hpp: the      *)
(* execution thread, run(), that owns the operator's gate and produces the *)
(* big yaw's targets, and the communication thread below it, which may be  *)
(* interrupted anywhere by a whole cycle of run().  It forwards the gate   *)
(* to the other board, and reports through operator_revoked when that      *)
(* board has been lost or has rebooted.                                    *)
(*                                                                         *)
(* Wheel commands, telemetry and the mechanisms of run() are left out; the *)
(* emergency stop is never requested in this configuration, and a clear    *)
(* request does not outlive the cycle of run() that makes it.              *)
(***************************************************************************)
EXTENDS Naturals

CONSTANTS
    CommandTimeout, \* kCommandTimeoutMs, and input_timeout_ms
    MaxUptime,      \* bound on the uptime
    MaxPeerBoot     \* bound on the boots of the other board

VARIABLES
    uptime,    \* milliseconds
    remote,    \* when the newest frame of the remote was received, 0 for none
    operator,  \* state_ of the RcControlAdapter
    execution, \* execution_paused
    posted,    \* operator_states and big_yaw_targets
    revoked,   \* operator_revoked
    comm,      \* the communication thread and its locals
    publisher, \* the OperatorControlPublisher
    peer,      \* the other board, as the endpoint knows it
    submitted, \* the newest OperatorControl and BigYawRequest
    withdrawn, \* the gate has not been opened since the publisher revoked it
    excess     \* controls that permit, submitted since

bench == <<uptime, remote, operator, execution, posted, revoked, comm, publisher,
           peer, submitted, withdrawn, excess>>

Times    == 0 .. MaxUptime
Fresh(at, now) == at # 0 /\ at <= now /\ now - at <= CommandTimeout

Gate     == [run |-> FALSE, fresh |-> FALSE, at |-> 0]
NoTarget == [follow |-> FALSE, at |-> 0, age |-> 0, source |-> 0]
Asleep   == [pc |-> "Sleep", now |-> 0, heard |-> 0, gate |-> Gate, revokes |-> FALSE]

Gates    == [run : BOOLEAN, fresh : BOOLEAN, at : Times]
Targets  == [follow : BOOLEAN, at : Times, age : Times, source : Times]

TypeOK ==
    /\ uptime \in Times /\ remote \in Times
    /\ operator \in Gates
    /\ execution \in BOOLEAN
    /\ posted \in [gate : Gates, target : Targets]
    /\ revoked \in BOOLEAN
    /\ comm \in [pc : {"Sleep", "Read", "Publish", "Revoke", "Request", "Poll"}, now : Times,
                 heard : Times, gate : Gates, revokes : BOOLEAN]
    /\ publisher \in [boot : 0 .. MaxPeerBoot, online : BOOLEAN]
    /\ peer \in [boot : 0 .. MaxPeerBoot, online : BOOLEAN]
    /\ submitted \in [run : BOOLEAN, request : Targets]
    /\ withdrawn \in BOOLEAN
    /\ excess \in 0 .. 2

Init ==
    /\ uptime = 1 /\ remote = 0
    /\ operator = Gate
    /\ execution = FALSE
    /\ posted = [gate |-> Gate, target |-> NoTarget]
    /\ revoked = FALSE
    /\ comm = Asleep
    /\ publisher = [boot |-> 0, online |-> FALSE]
    /\ peer = [boot |-> 0, online |-> FALSE]
    /\ submitted = [run |-> FALSE, request |-> NoTarget]
    /\ withdrawn = FALSE
    /\ excess = 0

-----------------------------------------------------------------------------
(* A cycle of run().                                                       *)

(* RcControlAdapter::update(): a remote that is lost closes the gate.  The *)
(* operator opens and closes it, with the holds that takes left out.       *)
Updated(input) ==
    IF ~Fresh(remote, uptime) THEN [Gate EXCEPT !.at = remote]
    ELSE [run |-> CASE input = "open" -> TRUE [] input = "close" -> FALSE [] OTHER -> operator.run,
          fresh |-> TRUE, at |-> remote]

(* The target that follows the head, if the centering is allowed to.       *)
Centered(run, follows) ==
    IF run /\ follows THEN [follow |-> TRUE, at |-> uptime, age |-> uptime - remote, source |-> remote]
    ELSE NoTarget

(* The diagnostic pause ends with the permission to run.                   *)
Run(input, pauses, follows) ==
    LET update == Updated(input)
        next   == [update EXCEPT !.run = @ /\ ~revoked]
    IN  /\ operator' = next
        /\ revoked' = FALSE
        /\ execution' = (pauses /\ update.run)
        /\ posted' = [gate |-> next, target |-> IF execution' /\ next.run THEN posted.target
                                                ELSE Centered(next.run, follows)]
        /\ withdrawn' = (withdrawn /\ ~(next.run /\ ~operator.run))
        /\ excess' = IF withdrawn' THEN excess ELSE 0
        /\ UNCHANGED <<uptime, remote, comm, publisher, peer, submitted>>

-----------------------------------------------------------------------------
(* The communication thread.                                               *)

BeginPass ==
    /\ comm.pc = "Sleep"
    /\ comm' = [Asleep EXCEPT !.pc = "Read", !.now = uptime, !.heard = remote]
    /\ UNCHANGED <<uptime, remote, operator, execution, posted, revoked, publisher, peer, submitted,
                   withdrawn, excess>>

ReadGate ==
    /\ comm.pc = "Read"
    /\ comm' = [comm EXCEPT !.pc = "Publish", !.gate = posted.gate]
    /\ UNCHANGED <<uptime, remote, operator, execution, posted, revoked, publisher, peer, submitted,
                   withdrawn, excess>>

Allowed(gate) == gate.run /\ gate.fresh /\ Fresh(gate.at, comm.now) /\ ~revoked

(* OperatorControlPublisher::publish()                                     *)
PeerLost ==
    \/ publisher.online /\ ~peer.online
    \/ publisher.boot # 0 /\ peer.boot # 0 /\ peer.boot # publisher.boot

PublishControl ==
    /\ comm.pc = "Publish"
    /\ LET allowed == Allowed(comm.gate)
           permits == allowed /\ ~PeerLost /\ peer.online /\ peer.boot # 0 /\ Fresh(comm.gate.at, comm.now)
       IN  /\ comm' = [comm EXCEPT !.pc = IF PeerLost THEN "Revoke" ELSE "Request",
                                   !.gate.run = allowed, !.revokes = PeerLost]
           /\ publisher' = [boot |-> IF peer.boot # 0 THEN peer.boot ELSE publisher.boot, online |-> peer.online]
           /\ submitted' = [submitted EXCEPT !.run = permits]
           /\ withdrawn' = (withdrawn \/ PeerLost)
           /\ excess' = IF permits /\ withdrawn' /\ excess < 2 THEN excess + 1 ELSE excess
    /\ UNCHANGED <<uptime, remote, operator, execution, posted, revoked, peer>>

Revoke ==
    /\ comm.pc = "Revoke"
    /\ revoked' = TRUE
    /\ comm' = [comm EXCEPT !.pc = "Request", !.gate.run = FALSE]
    /\ UNCHANGED <<uptime, remote, operator, execution, posted, publisher, peer, submitted, withdrawn, excess>>

(* forwardedFresh() of the target, and of the request made from it.        *)
ForwardedFresh(target, now) == Fresh(target.at, now) /\ target.age + (now - target.at) <= CommandTimeout

(* Mutant: the age of the target is the age of the request. *)
AgeOfTarget(target) == target.age

AgeOf(target) == target.age + (comm.now - target.at)

(* Every 10 ms: the target is forwarded under its age, or a stop is.       *)
RequestBigYaw ==
    /\ comm.pc = "Request"
    /\ LET target == posted.target
           moves  == /\ Fresh(comm.heard, comm.now) /\ comm.gate.run /\ ~execution
                     /\ target.follow /\ ForwardedFresh(target, comm.now)
       IN  submitted' \in
              {submitted,
               [submitted EXCEPT !.request =
                  IF moves THEN [target EXCEPT !.at = comm.now, !.age = AgeOf(target)] ELSE NoTarget]}
    /\ comm' = [comm EXCEPT !.pc = "Poll"]
    /\ UNCHANGED <<uptime, remote, operator, execution, posted, revoked, publisher, peer, withdrawn, excess>>

(* endpoint.poll(): the other board is heard, lost, or has rebooted.       *)
Poll ==
    /\ comm.pc = "Poll"
    /\ peer' \in {[boot |-> b, online |-> o] :
                     b \in {peer.boot} \cup ({peer.boot + 1} \cap (0 .. MaxPeerBoot)), o \in BOOLEAN}
    /\ peer'.online => peer'.boot # 0
    /\ peer'.boot # peer.boot => peer'.online
    /\ comm' = Asleep
    /\ UNCHANGED <<uptime, remote, operator, execution, posted, revoked, publisher, submitted, withdrawn, excess>>

-----------------------------------------------------------------------------
Hear ==
    /\ remote < uptime
    /\ remote' = uptime
    /\ UNCHANGED <<uptime, operator, execution, posted, revoked, comm, publisher, peer, submitted, withdrawn, excess>>

Tick ==
    /\ uptime < MaxUptime
    /\ uptime' = uptime + 1
    /\ UNCHANGED <<remote, operator, execution, posted, revoked, comm, publisher, peer, submitted, withdrawn, excess>>

Next ==
    \/ \E input \in {"open", "close", "hold"}, pauses, follows \in BOOLEAN : Run(input, pauses, follows)
    \/ BeginPass \/ ReadGate \/ PublishControl \/ Revoke \/ RequestBigYaw \/ Poll
    \/ Hear \/ Tick

Spec == Init /\ [][Next]_bench

-----------------------------------------------------------------------------
(* operator_controls.hpp 8: a peer's reboot or loss revokes the gate.  No  *)
(* control permits to run until the operator has opened it again.          *)
RevokedIsClosed == submitted.run => ~withdrawn

(* As the flag is lowered when the gate is closed, a pass that has read    *)
(* the gate before and the flag after may permit, but no second one.       *)
RevocationIsPrompt == excess < 2

(* However often a target is forwarded, and however long the thread was    *)
(* interrupted, the request is as old as the frame it came from.           *)
RequestIsAsOld ==
    submitted.request.follow => submitted.request.at - submitted.request.age = submitted.request.source

=============================================================================
