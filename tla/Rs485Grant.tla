----------------------------- MODULE Rs485Grant -----------------------------
(***************************************************************************)
(* Rs485InterBoardTransport (lib/communication/rs485_interboard_transport  *)
(* .cpp) on both ends of a pair of wires: the coordinator grants a window  *)
(* with each request, the responder may answer within it.  service() of    *)
(* either end runs late or not at all in any millisecond, frames are lost, *)
(* both ends reboot.                                                       *)
(*                                                                         *)
(* The unit of time is the millisecond; a time is kept as what is left     *)
(* until then.  send() only changes how long a frame is on the wire, which *)
(* is chosen when it is transmitted.                                       *)
(***************************************************************************)
EXTENDS Naturals

CONSTANTS
    Window,     \* response_window_ms
    PollTime,   \* poll_interval_ms
    Turnaround, \* turnaround_ms
    MaxWire,    \* wireTimeMs() of the longest frame
    Silence,    \* startup_until_ms_: 1002 in the code
    Latency,    \* how long the UART may keep a frame before it reports it
    MaxReboots  \* bound: reboots of either end

Margin == 3
Tokens == 0 .. 2
NoFrame == [token |-> 0, left |-> 0, age |-> 0, there |-> FALSE]

VARIABLES
    coordinator, \* phase, times, token
    responder,   \* phase, times, token
    request,     \* the request the responder's UART holds
    reply,       \* the reply the coordinator's UART holds
    reboots

vars == <<coordinator, responder, request, reply, reboots>>

Left(t) == IF t = 0 THEN 0 ELSE t - 1

(* initialize(): sending is what is left of our frame on the wire, quiet   *)
(* what is left of the turnaround after the last reception.                *)
NewCoordinator(token) ==
    [phase |-> "Idle", sending |-> 0, quiet |-> 0, deadline |-> 0, poll |-> Silence,
     startup |-> Silence, token |-> token, replied |-> FALSE]

NewResponder == [phase |-> "Idle", sending |-> 0, quiet |-> 0, deadline |-> 0, token |-> 0]

Init ==
    /\ coordinator = NewCoordinator(0) /\ responder = NewResponder
    /\ request = NoFrame /\ reply = NoFrame /\ reboots = 0

(* What an end's UART reports when a frame of the other has left the wire. *)
Reported(frame) == frame.there /\ frame.left = 0

-----------------------------------------------------------------------------
(* service() of the coordinator up to transmit(): its frame has left, a    *)
(* reply is accepted once, and the whole window is kept quiet.  It is not  *)
(* ready_ in the silence it starts with.                                   *)
CoordinatorHeard ==
    LET sent  == IF coordinator.phase = "Sending" /\ coordinator.sending = 0
                 THEN [coordinator EXCEPT !.phase = "AwaitReply", !.deadline = Window]
                 ELSE coordinator
        open  == sent.phase = "Sending" \/ (sent.phase = "AwaitReply" /\ sent.deadline > 0)
        fits  == Reported(reply) /\ open /\ reply.token = sent.token /\ ~sent.replied
        heard == IF ~Reported(reply) THEN sent
                 ELSE [sent EXCEPT !.replied = @ \/ fits,
                          !.quiet = IF reply.age < Turnaround THEN Turnaround - reply.age ELSE 0]
    IN  IF heard.phase = "AwaitReply" /\ heard.deadline = 0
        THEN [heard EXCEPT !.phase = "Idle", !.poll = PollTime] ELSE heard

CoordinatorService ==
    LET next == CoordinatorHeard
    IN  /\ reply' = IF Reported(reply) THEN NoFrame ELSE reply
        /\ \/ coordinator' = next
           \/ /\ next.phase = "Idle" /\ next.poll = 0 /\ next.quiet = 0
              /\ next.startup = 0
              /\ \E wire \in 1 .. MaxWire :
                    coordinator' = [next EXCEPT !.phase = "Sending", !.sending = wire,
                                       !.replied = FALSE, !.token = (@ + 1) % 3]
        /\ UNCHANGED <<responder, request, reboots>>

(* accept() of the responder: the window runs from the reception, however  *)
(* long the frame has waited for service().                                *)
Granted(n) ==
    IF ~Reported(request) \/ n.phase = "Sending" THEN n
    ELSE [n EXCEPT !.phase = "ReplyGranted", !.token = request.token,
             !.deadline = IF request.age < Window THEN Window - request.age ELSE 0,
             !.quiet = IF request.age < Turnaround THEN Turnaround - request.age ELSE 0]

(* Mutant of TooLate: what is left of the window need not hold the frame.  *)
TooLateWhenOver(deadline, wire) == deadline = 0
TooLate(deadline, wire) == deadline <= wire + Margin

(* service() and transmit() of the responder: one answer to a grant, never *)
(* so late that it could run into the next request.                        *)
ResponderService ==
    LET sent == IF responder.phase = "Sending" /\ responder.sending = 0
                THEN [responder EXCEPT !.phase = "Idle"] ELSE responder
        next == Granted(sent)
        over == IF next.phase = "ReplyGranted" /\ next.deadline = 0
                THEN [next EXCEPT !.phase = "Idle"] ELSE next
    IN  /\ request' = IF Reported(request) THEN NoFrame ELSE request
        /\ \/ responder' = over
           \/ /\ over.phase = "ReplyGranted" /\ over.quiet = 0
              /\ \E wire \in 1 .. MaxWire :
                    responder' = IF TooLate(over.deadline, wire) THEN [over EXCEPT !.phase = "Idle"]
                         ELSE [over EXCEPT !.phase = "Sending", !.sending = wire]
        /\ UNCHANGED <<coordinator, reply, reboots>>

-----------------------------------------------------------------------------
(* Reset of an end: what it had on the wire is cut off.                    *)
RebootCoordinator ==
    /\ reboots < MaxReboots /\ reboots' = reboots + 1
    /\ coordinator' = NewCoordinator((coordinator.token + 1) % 3)
    /\ reply' = NoFrame /\ UNCHANGED <<responder, request>>

RebootResponder ==
    /\ reboots < MaxReboots /\ reboots' = reboots + 1
    /\ responder' = NewResponder /\ request' = NoFrame /\ UNCHANGED <<coordinator, reply>>

(* A millisecond passes.  A frame that has left the wire may be lost, or   *)
(* is reported up to Latency later.                                        *)
Arriving(end, frame) ==
    IF end.sending = 1
    THEN {NoFrame} \cup
         {[token |-> end.token, left |-> wait, age |-> 0, there |-> TRUE] : wait \in 0 .. Latency}
    ELSE {[frame EXCEPT !.left = Left(@),
                        !.age = IF frame.there /\ frame.left = 0 /\ @ < Window THEN @ + 1 ELSE @]}

Tick ==
    /\ coordinator' = [coordinator EXCEPT !.sending = Left(@), !.quiet = Left(@),
                                          !.deadline = Left(@), !.poll = Left(@),
                                          !.startup = Left(@)]
    /\ responder' = [responder EXCEPT !.sending = Left(@), !.quiet = Left(@), !.deadline = Left(@)]
    /\ request' \in Arriving(coordinator, request)
    /\ reply' \in Arriving(responder, reply)
    /\ UNCHANGED reboots

Next ==
    \/ CoordinatorService \/ ResponderService
    \/ RebootCoordinator \/ RebootResponder
    \/ Tick

Spec == Init /\ [][Next]_vars

-----------------------------------------------------------------------------
(* The phases, and that an end drives the wires in its phase Sending only. *)
TypeOK ==
    /\ coordinator.phase \in {"Idle", "Sending", "AwaitReply"}
    /\ responder.phase \in {"Idle", "Sending", "ReplyGranted"}
    /\ coordinator.token \in Tokens /\ responder.token \in Tokens
    /\ coordinator.sending > 0 => coordinator.phase = "Sending"
    /\ responder.sending > 0 => responder.phase = "Sending"

(* The two ends never drive the pair of wires at once: not when service()  *)
(* is late, when frames wait in a UART, or when an end has just rebooted.  *)
NoCollision == ~(coordinator.sending > 0 /\ responder.sending > 0)

(* The responder speaks only to the request that is open, unless the       *)
(* coordinator has rebooted since; then it still is in its first silence.  *)
RepliesWhenGranted ==
    responder.sending = 0 /\ responder'.sending > 0 =>
        \/ coordinator.phase # "Idle" /\ responder'.token = coordinator.token
        \/ coordinator.phase = "Idle" /\ coordinator.startup > 0
=============================================================================
