------------------------------ MODULE CommandGate ------------------------------
(***************************************************************************)
(* From the remote to the shot: the receive thread that queues frames and  *)
(* publishes the latest (RemoteService, RemoteReceiver), the command       *)
(* thread (CommandManager::run() with the CommandArbiter), setOperatorGate *)
(* called by the application, and the executor that consumes click events. *)
(* Configured as for a shooter: an operator gate, keyboard and mouse       *)
(* selected by the left switch, no automatic aiming.                       *)
(***************************************************************************)
EXTENDS MouseGesture, Sequences

CONSTANTS
    Profiles,         \* the ways the system is configured and used
    ReceiverPreempts, \* REMOTE_RX_PRIORITY is above COMMAND_PRIORITY
    MaxDelay          \* bound on the age of a frame that is received

ASSUME GateAssumption ==
    /\ \A p \in Profiles :
          /\ p.inputs \subseteq [switch : Switches, right : BOOLEAN, left : BOOLEAN]
          /\ p.permissions \subseteq BOOLEAN /\ p.permissions # {}
          /\ p.capacity \in Nat \ {0} /\ p.lossy \in BOOLEAN
          /\ {p.frames, p.clock, p.revision} \subseteq Nat
    /\ ReceiverPreempts \in BOOLEAN /\ MaxDelay \in {0, 1}

VARIABLES
    profile,  \* the member of Profiles this system is
    clock,    \* uptime in milliseconds
    received, \* every frame decoded so far; the last one is latest_
    frames,   \* frames_: the numbers of the queued frames
    loss,     \* frame_loss_
    lost,     \* queued frames have been given up at some time
    snapshot, \* RemoteReceiver::latest_: a frame number, 0 before the first
    putting,  \* the receive thread holds the mutex of latest_
    cached,   \* RemoteSource::cached_
    gate,     \* operator_gate_
    pc,       \* the command thread
    pass,     \* locals of one pass of run()
    seen,     \* gate_revision
    latched,  \* safe_gate_latched
    gesture,  \* mouse_gesture_
    output,   \* output_
    consumed, \* last_event_id of the executor
    safe_at,  \* when the newest Down frame was received that a pass consumed
    born,     \* the revision under which the newest click was made
    origin,   \* the revision under which the published click was made
    shots     \* the frames whose click the executor has accepted

receiver == <<received, frames, loss, lost, snapshot, putting>>
command  == <<cached, pc, pass, seen, latched, gesture, output, safe_at, born, origin>>
executor == <<consumed, shots>>
vars     == <<profile, clock, receiver, gate, command, executor>>

Inputs        == profile.inputs      \* what the remote may send: records of switch, right, left
Permissions   == profile.permissions \* the answers of the referee; {TRUE} without one
QueueCapacity == profile.capacity    \* kFrameCapacity, which is also the budget of a pass
LossyUart     == profile.lossy       \* bytes of the remote may get lost
MaxFrames     == profile.frames      \* bounds
MaxClock      == profile.clock
MaxRevision   == profile.revision

Frame(n) == received[n]

Gate == [allowed : BOOLEAN, revision : Nat, boundary : Nat]
ClosedGate == [allowed |-> FALSE, revision |-> 0, boundary |-> 0]

NoPass == [now |-> 0, gate |-> ClosedGate, run |-> FALSE, permitted |-> FALSE,
           observed |-> 0, budget |-> 0]

Disabled == [run |-> FALSE, intent |-> NoIntent, gate |-> ClosedGate]

Init ==
    /\ profile \in Profiles
    /\ clock = 1
    /\ received = <<>> /\ frames = <<>> /\ loss = FALSE /\ lost = FALSE
    /\ snapshot = 0 /\ putting = FALSE /\ cached = 0
    /\ gate = ClosedGate
    /\ pc = "Sleep" /\ pass = NoPass /\ seen = 0 /\ latched = FALSE
    /\ gesture = NewGesture /\ output = Disabled
    /\ consumed = 0 /\ shots = <<>> /\ safe_at = 0 /\ born = 0
    /\ origin = 0

-----------------------------------------------------------------------------
(* The receive thread, which does not run during a pass of the command     *)
(* thread unless it is configured above it.                                *)
MayReceive == ReceiverPreempts \/ pc = "Sleep"

(* Mutant of Queued: off by one.                                           *)
QueuedOneMore(n) == IF loss \/ Len(frames) > QueueCapacity THEN <<>> ELSE Append(frames, n)

(* publishFrame(): a full queue is dropped as a whole and reported.        *)
Queued(n) == IF loss \/ Len(frames) = QueueCapacity THEN <<>> ELSE Append(frames, n)

(* processBytes() and publishFrame(): a complete frame; its stamp is the   *)
(* time of the bytes.                                                      *)
ReceiveFrame(input, at) ==
    /\ MayReceive /\ ~putting
    /\ Len(received) < MaxFrames
    /\ received # <<>> => received[Len(received)].stamp.at <= at
    /\ LET n == Len(received) + 1
       IN  /\ received' = Append(received, [stamp |-> [seq |-> n, at |-> at],
                     switch |-> input.switch, right |-> input.right, left |-> input.left])
           /\ frames' = Queued(n)
           /\ loss' = (loss \/ Len(frames) = QueueCapacity)
           /\ lost' = (lost \/ loss')
    /\ UNCHANGED <<clock, snapshot, putting, gate, command, executor>>

(* discardPartial(): the UART has reported a gap.                          *)
DiscardPartial ==
    /\ LossyUart /\ MayReceive /\ ~putting
    /\ frames' = <<>> /\ loss' = TRUE /\ lost' = TRUE
    /\ UNCHANGED <<clock, received, snapshot, putting, gate, command, executor>>

(* latest_.put() after the frames of this round are queued.                *)
BeginPut ==
    /\ MayReceive /\ ~putting
    /\ putting' = TRUE
    /\ UNCHANGED <<clock, received, frames, loss, lost, snapshot, gate, command, executor>>

EndPut ==
    /\ MayReceive /\ putting
    /\ putting' = FALSE /\ snapshot' = Len(received)
    /\ UNCHANGED <<clock, received, frames, loss, lost, gate, command, executor>>

-----------------------------------------------------------------------------
(* The application, whose thread is above both: setOperatorGate() with     *)
(* another permission or session.                                          *)
SetOperatorGate(allowed) ==
    /\ gate.revision < MaxRevision
    /\ gate' = [allowed |-> allowed, revision |-> gate.revision + 1, boundary |-> clock]
    /\ UNCHANGED <<clock, receiver, command, executor>>

-----------------------------------------------------------------------------
(* The command thread.                                                     *)

(* The operator's source: get() fails while the receive thread, if it is   *)
(* the lower one, is interrupted in put(), and the frame of the sample     *)
(* before is used once more.                                               *)
Sampled == IF putting THEN cached ELSE snapshot

NewPass(permitted) ==
    [now |-> clock, gate |-> gate, run |-> gate.allowed /\ ~latched', permitted |-> permitted,
     observed |-> cached', budget |-> QueueCapacity]

(* Mutant of BeginPass: another session keeps the clicks of the one before. *)
BeginPassKeepsClicks(permitted) ==
    /\ pc = "Sleep" /\ (ReceiverPreempts => ~putting)
    /\ cached' = Sampled
    /\ LET changed == gate.revision # seen
       IN  /\ seen' = gate.revision
           /\ latched' = (latched /\ ~changed)
           /\ gesture' = IF changed /\ ~gate.allowed THEN Withdraw(gesture) ELSE gesture
    /\ pass' = NewPass(permitted)
    /\ pc' = "Frames"
    /\ UNCHANGED <<clock, receiver, gate, output, safe_at, born, origin, executor>>

(* The source, the referee's permissions, the time and the gate are read,  *)
(* in this order; what other threads do in between could as well happen    *)
(* before or after.                                                        *)
BeginPass(permitted) ==
    /\ pc = "Sleep" /\ (ReceiverPreempts => ~putting)
    /\ cached' = Sampled
    /\ LET changed == gate.revision # seen
       IN  /\ seen' = gate.revision
           /\ latched' = (latched /\ ~changed)
           /\ gesture' = IF changed THEN Withdraw(gesture) ELSE gesture
    /\ pass' = NewPass(permitted)
    /\ pc' = "Frames"
    /\ UNCHANGED <<clock, receiver, gate, output, safe_at, born, origin, executor>>

(* observeRemoteFrame(): keyboard and mouse are selected by Up.            *)
Observe(g, f, allowed, now) == Update(g, f, f.switch = "Up", allowed, now)

Born(g) == IF g.event_sequence # gesture.event_sequence THEN seen ELSE born

(* nextFrame() has nothing, reports a loss, or drops a queue whose head is *)
(* too old.                                                                *)
NoMoreFrames ==
    /\ pc = "Frames"
    /\ \/ pass.budget = 0 /\ UNCHANGED <<frames, loss, lost, gesture>>
       \/ pass.budget > 0 /\ ~loss /\ frames = <<>> /\ UNCHANGED <<frames, loss, lost, gesture>>
       \/ /\ pass.budget > 0
          /\ loss \/ (frames # <<>> /\ ~IsFresh(Frame(Head(frames)).stamp, clock))
          /\ frames' = <<>> /\ loss' = FALSE
          /\ lost' = TRUE
          /\ gesture' = Withdraw(gesture)
    /\ pc' = "Decide"
    /\ UNCHANGED <<clock, received, snapshot, putting, gate, cached, pass, seen,
                   latched, output, safe_at, born, origin, executor>>

(* Mutant of NextFrame: the latch forgets that the frame was consumed in   *)
(* this pass and lets a later frame of it run again.                       *)
NextFrameNoLatch ==
    /\ pc = "Frames" /\ pass.budget > 0
    /\ ~loss /\ frames # <<>> /\ IsFresh(Frame(Head(frames)).stamp, clock)
    /\ LET f == Frame(Head(frames))
           run == pass.run /\ f.switch # "Down"
       IN  /\ latched' = latched
           /\ safe_at' = IF f.switch = "Down" THEN f.stamp.at ELSE safe_at
           /\ gesture' = Observe(gesture, f, run /\ f.stamp.at > pass.gate.boundary
                                             /\ pass.permitted, pass.now).gesture
           /\ pass' = [pass EXCEPT !.run = run, !.budget = @ - 1,
                          !.observed = IF f.stamp.seq > @ THEN f.stamp.seq ELSE @]
    /\ born' = Born(gesture')
    /\ frames' = Tail(frames)
    /\ UNCHANGED <<clock, received, loss, lost, snapshot, putting, gate, cached, pc, seen,
                   output, origin, executor>>

(* Mutant of NextFrame: whatever its time, a frame may fire while running  *)
(* is allowed.                                                             *)
NextFrameAnyTime ==
    /\ pc = "Frames" /\ pass.budget > 0
    /\ ~loss /\ frames # <<>> /\ IsFresh(Frame(Head(frames)).stamp, clock)
    /\ LET f == Frame(Head(frames))
           run == pass.run /\ ~(f.stamp.at > pass.gate.boundary /\ f.switch = "Down")
       IN  /\ latched' = (latched \/ (pass.run /\ ~run))
           /\ gesture' = Observe(gesture, f, run /\ pass.permitted, pass.now).gesture
           /\ pass' = [pass EXCEPT !.run = run, !.budget = @ - 1,
                          !.observed = IF f.stamp.seq > @ THEN f.stamp.seq ELSE @]
    /\ born' = Born(gesture')
    /\ frames' = Tail(frames)
    /\ UNCHANGED <<clock, received, loss, lost, snapshot, putting, gate, cached, pc, seen,
                   output, safe_at, origin, executor>>

(* nextFrame() hands out a frame: a Down after the boundary of this pass   *)
(* latches the safe state, and only frames after it may fire.              *)
NextFrame ==
    /\ pc = "Frames" /\ pass.budget > 0
    /\ ~loss /\ frames # <<>> /\ IsFresh(Frame(Head(frames)).stamp, clock)
    /\ LET f == Frame(Head(frames))
           after == f.stamp.at > pass.gate.boundary
           safe == after /\ f.switch = "Down"
           run == pass.run /\ ~safe
       IN  /\ latched' = (latched \/ safe)
           /\ safe_at' = IF f.switch = "Down" THEN f.stamp.at ELSE safe_at
           /\ gesture' = Observe(gesture, f, run /\ after /\ pass.permitted, pass.now).gesture
           /\ pass' = [pass EXCEPT !.run = run, !.budget = @ - 1,
                          !.observed = IF f.stamp.seq > @ THEN f.stamp.seq ELSE @]
    /\ born' = Born(gesture')
    /\ frames' = Tail(frames)
    /\ UNCHANGED <<clock, received, loss, lost, snapshot, putting, gate, cached, pc, seen,
                   output, origin, executor>>

(* CommandArbiter::update() and publish().                                 *)
Decide ==
    /\ pc = "Decide"
    /\ LET f == Frame(pass.observed)
           online == pass.observed # 0 /\ IsFresh(f.stamp, pass.now)
           u == Observe(gesture, f, pass.permitted, pass.now)
           enabled == online /\ pass.run /\ u.ok /\ f.switch # "Down"
       IN  /\ gesture' = IF ~(online /\ pass.run) THEN Withdraw(gesture)
                         ELSE IF ~enabled \/ ~pass.permitted THEN Withdraw(u.gesture)
                         ELSE u.gesture
           /\ output' = [run |-> enabled, gate |-> pass.gate,
                         intent |-> IF enabled THEN u.intent ELSE NoIntent]
    /\ born' = Born(gesture')
    /\ origin' = IF output'.intent.event # 0 THEN born' ELSE 0
    /\ pc' = "Sleep" /\ pass' = NoPass
    /\ UNCHANGED <<clock, receiver, gate, cached, seen, latched, safe_at, executor>>

-----------------------------------------------------------------------------
(* The executor: newEvent() and consumeEvent() on what was last published; *)
(* whether a new click is accepted depends on the mechanism.               *)
ConsumeEvent(accepted) ==
    /\ output.intent.event > consumed
    /\ consumed' = output.intent.event
    /\ shots' = IF accepted THEN Append(shots, output.intent.click.seq) ELSE shots
    /\ UNCHANGED <<clock, receiver, gate, command>>

Tick ==
    /\ clock < MaxClock
    /\ clock' = clock + 1
    /\ UNCHANGED <<receiver, gate, command, executor>>

Receiver ==
    \/ \E input \in Inputs, at \in clock - MaxDelay .. clock : ReceiveFrame(input, at)
    \/ DiscardPartial \/ BeginPut \/ EndPut

Command == (\E p \in Permissions : BeginPass(p)) \/ NoMoreFrames \/ NextFrame \/ Decide

Next ==
    /\ \/ Tick \/ Receiver \/ Command
       \/ \E allowed \in BOOLEAN : SetOperatorGate(allowed)
       \/ \E accepted \in BOOLEAN : ConsumeEvent(accepted)
    /\ UNCHANGED profile

Spec == Init /\ [][Next]_vars
-----------------------------------------------------------------------------
(* The state has its types; the queue never exceeds its storage, and what  *)
(* it holds are the newest frames received, in order.                      *)
TypeOK ==
    /\ received \in Seq(RemoteState)
    /\ Len(frames) <= QueueCapacity
    /\ \A i \in 1 .. Len(frames) : frames[i] = Len(received) - Len(frames) + i
    /\ loss => frames = <<>>
    /\ snapshot \in 0 .. Len(received) /\ cached \in 0 .. snapshot
    /\ gesture \in Gesture /\ output.intent \in Intent
    /\ pc \in {"Sleep", "Frames", "Decide"}
    /\ consumed <= gesture.event_sequence

(* One press, one shot.  The shots the executor accepts come from          *)
(* different frames in the order of the remote, each with both buttons     *)
(* down and keyboard and mouse selected, and between two of them the left  *)
(* button was seen up: whatever the receive thread, the cached snapshot,   *)
(* losses and gate changes do to the frames in between                     *)
(* (mouse_shooter_gesture.cpp, command_manager.cpp 213-244,                *)
(* shooter_executor.cpp newEvent()).                                       *)
ShotIsEarned ==
    /\ \A i \in 1 .. Len(shots) :
          LET f == Frame(shots[i]) IN f.left /\ f.right /\ f.switch = "Up"
    /\ \A i \in 2 .. Len(shots) :
          \E n \in shots[i - 1] + 1 .. shots[i] - 1 : ~Frame(n).left

(* A click does not outlive the gate it was made under: the event in the   *)
(* published command was created after the gate of that command was read,  *)
(* so no change of permission or session lets an earlier one through       *)
(* (command_manager.cpp 199-203).                                          *)
EventsDieWithTheirGate ==
    output.intent.event # 0 => origin = output.gate.revision

(* command-service.md 68: frames that cross the boundary of the gate in    *)
(* the queue are handled by their time.  While an enabled command is out,  *)
(* no Down frame received after the boundary of its gate was consumed;     *)
(* only another gate ends the safe state (command_manager.cpp 229-233).    *)
SafeOutlastsTheGate ==
    pc = "Sleep" /\ output.run => safe_at <= output.gate.boundary

(* command_manager.hpp 29-30: a change of the gate withdraws old clicks.   *)
(* The press behind a published event was received after the boundary of   *)
(* the gate of its command.                                                *)
NoOldClick ==
    output.intent.event # 0 => output.intent.click.at > output.gate.boundary

(* The same as long as no frame has been given up, however late the        *)
(* snapshot is.                                                            *)
ClicksAreNew == ~lost => NoOldClick

(* command_manager.cpp 236: frames may be produced after the snapshot, and *)
(* the arbiter does not go back to an older one.                           *)
NoFallback ==
    [][gesture'.last_frame.seq >= gesture.last_frame.seq]_vars
=============================================================================
