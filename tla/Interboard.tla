------------------------------ MODULE Interboard ------------------------------
(***************************************************************************)
(* The gimbal board and the chassis board.  Each runs one loop that polls  *)
(* its InterBoardEndpoint and acts on the snapshot (the two main.cpp of    *)
(* applications/); between them a serial line delays batches, loses them   *)
(* and corrupts single frames.  Either board may reboot.                   *)
(*                                                                         *)
(* Clocks are never compared between boards, so a stamp is kept as its age *)
(* in ticks; Old stands for every age past the timeout, UINT32_MAX too.    *)
(* The feedback, constraint and status messages, which carry no authority, *)
(* are left out; the emergency flag is never set by these applications.    *)
(***************************************************************************)
EXTENDS Naturals

CONSTANTS
    Profiles,   \* the streams the boards use besides heartbeats, and the
                \* command_timeout_ms and heartbeat_timeout_ms in ticks, and
                \* the ticks a batch may spend between send() and read()
    MaxBoot,    \* boots of the two boards together
    MaxClear,   \* clear gestures of the operator in one boot
    MaxSequence \* requests produced in one boot

Streams == {"clear", "chassis", "big_yaw"}

ASSUME InterboardAssumption ==
    /\ Profiles # {}
    /\ Profiles \subseteq [streams : SUBSET Streams, timeout : Nat \ {0}, delay : Nat]
    /\ MaxBoot \in Nat \ {0} /\ {MaxClear, MaxSequence} \subseteq Nat

VARIABLES
    profile,    \* the member of Profiles this pair of boards is built with
    gimbal,     \* the gimbal board: operator's gate, endpoint, publisher
    chassis,    \* the chassis board: endpoint, consumer
    downlink,   \* the batch on its way to the chassis, or Silence
    turn,       \* the loop that runs next in this tick, or "tick"
    unheard,    \* ticks since a remote frame last met an open gate
    obeyed      \* the clear events the chassis boards have obeyed

vars == <<profile, gimbal, chassis, downlink, turn, unheard, obeyed>>

-----------------------------------------------------------------------------
Timeout == profile.timeout
MaxDelay == profile.delay
Uses(stream) == stream \in profile.streams
Old == Timeout + 1
Silence == [age |-> 0, frames |-> <<>>]
LeaseTime == Timeout + MaxDelay

(* addAge(): a saturating sum.                                             *)
AddAge(a, b) == IF a + b > Timeout THEN Old ELSE a + b

(* Mutant of ForwardedFresh: the age the value had when it was sent is     *)
(* forgotten.                                                              *)
ReceivedFresh(at, age) == at <= Timeout

(* forwardedFresh(): the age carried plus the age since the reception.     *)
ForwardedFresh(at, age) == AddAge(at, age) <= Timeout

(* BoardHeartbeat, OperatorControl, RemoteChassisControl, BigYawRequest as *)
(* they are kept: boot 0 and sequence 0 stand for an invalid stamp.  knew  *)
(* is not in the code: the chassis boot the gimbal knew of when the        *)
(* operator opened the gate, or when the request was produced.             *)
NoPeer    == [boot |-> 0, at |-> Old]
NoControl == [run |-> FALSE, clear |-> 0, source |-> Old, clear_age |-> Old,
              sender |-> 0, receiver |-> 0, at |-> Old, knew |-> 0]
NoCommand == [seq |-> 0, move |-> FALSE, receiver |-> 0, at |-> Old, knew |-> 0]
NoRequest == [seq |-> 0, follow |-> FALSE, receiver |-> 0, at |-> Old,
              source |-> Old, knew |-> 0]

(* What permits nothing keeps only what orders it: its ages and addresses  *)
(* are never looked at again.                                              *)
Control(v) == IF v.run \/ v.clear # 0 THEN v ELSE NoControl
Command(v) == IF v.move THEN v ELSE [NoCommand EXCEPT !.seq = v.seq, !.at = v.at]
Request(v) == IF v.follow THEN v ELSE [NoRequest EXCEPT !.seq = v.seq]

(* InterBoardEndpoint and OperatorControlPublisher after a boot, and the   *)
(* gate of the RcControlAdapter.                                           *)
NewGimbal(boot) ==
    [boot |-> boot, peer |-> NoPeer, online |-> FALSE, bound |-> 0,
     baseline |-> 0, big_yaw_baseline |-> 0,
     remote |-> Old, armed |-> FALSE, knew |-> 0, clear_id |-> 0, clear_at |-> Old,
     pub |-> [peer |-> 0, online |-> FALSE, last_clear |-> 0, clear_peer |-> 0],
     control |-> NoControl, command |-> NoCommand, request |-> NoRequest]

NewChassis(boot) ==
    [boot |-> boot, peer |-> NoPeer, online |-> FALSE,
     control |-> NoControl, command |-> NoCommand, request |-> NoRequest,
     cleared |-> <<0, 0>>]

Init ==
    /\ profile \in Profiles
    /\ gimbal = NewGimbal(1) /\ chassis = NewChassis(1)
    /\ downlink = Silence
    /\ turn = "gimbal"
    /\ unheard = LeaseTime + 1 /\ obeyed = {}

-----------------------------------------------------------------------------
(* InterBoardLink::accept() on the chassis.  A heartbeat of another boot   *)
(* starts a session; nothing else is accepted before the first.  A frame   *)
(* refused by its frame sequence is among the frames that do not survive.  *)
AcceptHeartbeat(c, sender) ==
    IF c.peer.boot = sender THEN [c EXCEPT !.peer.at = 0]
    ELSE [c EXCEPT !.peer = [boot |-> sender, at |-> 0], !.control = NoControl,
                   !.command = NoCommand, !.request = NoRequest]

AcceptControl(c, f) ==
    IF f.sender = c.peer.boot THEN [c EXCEPT !.control = [f EXCEPT !.at = 0]] ELSE c

AcceptCommand(c, f) ==
    IF c.command.seq = 0 \/ f.seq > c.command.seq
    THEN [c EXCEPT !.command = [f EXCEPT !.at = 0]]
    ELSE c

(* Mutant of AcceptRequest: a repeated request replaces the one kept.      *)
AcceptRepeated(c, f) == [c EXCEPT !.request = [f EXCEPT !.at = 0]]

(* A repeated request may revoke, and renews nothing.                      *)
AcceptRequest(c, f) ==
    CASE c.request.seq = 0 \/ f.seq > c.request.seq ->
            [c EXCEPT !.request = [f EXCEPT !.at = 0]]
      [] c.request.seq # 0 /\ f.seq = c.request.seq /\ ~f.follow ->
            [c EXCEPT !.request = Request(f)]
      [] OTHER -> c

(* processRxBytes(): the surviving frames of a batch in their order.       *)
Accepted(c, kept, frames) ==
    LET c1 == IF "heartbeat" \in kept THEN AcceptHeartbeat(c, frames["heartbeat"]) ELSE c
        c2 == IF "control" \in kept /\ c1.peer.boot # 0
              THEN AcceptControl(c1, frames["control"]) ELSE c1
        c3 == IF "command" \in kept /\ c1.peer.boot # 0
              THEN AcceptCommand(c2, frames["command"]) ELSE c2
    IN  IF "request" \in kept /\ c1.peer.boot # 0
        THEN AcceptRequest(c3, frames["request"]) ELSE c3

-----------------------------------------------------------------------------
(* poll(): the heartbeat is fresh.                                         *)
PeerOnline(b) == b.peer.boot # 0 /\ b.peer.at <= Timeout

(* Mutant of Contact: a peer that has rebooted is no new contact.          *)
ContactOnline(g) ==
    IF PeerOnline(g) /\ ~g.online
    THEN [g EXCEPT !.online = TRUE, !.bound = g.peer.boot,
                   !.baseline = g.command.seq, !.big_yaw_baseline = g.request.seq]
    ELSE [g EXCEPT !.online = PeerOnline(g), !.bound = IF PeerOnline(g) THEN g.peer.boot ELSE @]

(* poll() of the gimbal board: what was produced before the peer came back *)
(* or rebooted is below the baselines.                                     *)
Contact(g) ==
    IF PeerOnline(g) /\ (~g.online \/ g.bound # g.peer.boot)
    THEN [g EXCEPT !.online = TRUE, !.bound = g.peer.boot,
                   !.baseline = g.command.seq, !.big_yaw_baseline = g.request.seq]
    ELSE [g EXCEPT !.online = PeerOnline(g)]

(* poll() of the chassis board; its own baselines are not used.            *)
(* invalidateControl() when the heartbeat has just gone stale.             *)
Invalidated(c) ==
    IF c.online /\ ~PeerOnline(c)
    THEN [c EXCEPT !.online = FALSE, !.control = NoControl, !.command = NoCommand,
                   !.request = NoRequest]
    ELSE [c EXCEPT !.online = PeerOnline(c)]

(* poll(), OperatorControl: a grant that is stale or bound to another boot *)
(* can only stop, and a clear event is never bound anew.                   *)
EncodedControl(g) ==
    LET source == AddAge(g.control.source, g.control.at)
        aged   == AddAge(g.control.clear_age, g.control.at)
        dead   == source > Timeout \/ g.control.receiver # g.bound
    IN  [g.control EXCEPT
            !.run = @ /\ ~dead, !.source = IF dead THEN Old ELSE source,
            !.clear = IF dead \/ aged > Timeout THEN 0 ELSE @,
            !.clear_age = IF g.control.clear = 0 \/ aged > Timeout THEN Old ELSE aged,
            !.sender = g.boot, !.receiver = g.bound]

(* poll(), ChassisControl: sent only while fresh and, to move, when newer  *)
(* than the baseline.                                                      *)
CommandIsSent(g) ==
    /\ g.online /\ g.command.seq # 0 /\ g.command.at <= Timeout
    /\ ~g.command.move \/ g.command.seq > g.baseline

(* poll(), BigYawRequest: sent even to nobody, disabled unless authorised  *)
(* and current.                                                            *)
EncodedRequest(g) ==
    LET authorized == /\ g.online /\ g.control.run /\ g.control.receiver = g.bound
                      /\ ForwardedFresh(g.control.at, g.control.source)
        current    == /\ ForwardedFresh(g.request.at, g.request.source)
                      /\ g.request.seq > g.big_yaw_baseline
    IN  [g.request EXCEPT
            !.follow = @ /\ authorized /\ current, !.receiver = g.bound,
            !.source = AddAge(@, g.request.at)]

(* poll(): the messages that are due share a batch.  A message that is not *)
(* due yet is among those that do not survive.                             *)
DownBatch(g) ==
    LET sent == {"heartbeat"}
                \cup (IF g.online THEN {"control"} ELSE {})
                \cup (IF Uses("chassis") /\ CommandIsSent(g) THEN {"command"} ELSE {})
                \cup (IF Uses("big_yaw") THEN {"request"} ELSE {})
    IN  [age |-> 0,
         frames |-> [m \in sent |->
            CASE m = "heartbeat" -> g.boot
              [] m = "control" -> Control(EncodedControl(g))
              [] m = "command" -> Command([g.command EXCEPT !.receiver = g.bound])
              [] m = "request" -> Request(EncodedRequest(g))]]

-----------------------------------------------------------------------------
(* RcControlAdapter::update(): a stale remote closes the gate.  The holds   *)
(* that opening it and the clear gesture need are left out: the operator   *)
(* of the model is quicker.                                                *)
Inputs == {"none", "hold", "open", "close"} \cup
          (IF Uses("clear") THEN {"clear"} ELSE {})

Gated(g, input) ==
    LET remote == IF input = "none" THEN g.remote ELSE 0
    IN  CASE remote > Timeout -> [g EXCEPT !.remote = remote, !.armed = FALSE, !.clear_at = Old]
          [] remote <= Timeout /\ input \in {"none", "hold"} -> [g EXCEPT !.remote = remote]
          [] input = "open" -> [g EXCEPT !.remote = 0, !.armed = TRUE,
                                         !.knew = IF g.armed THEN @ ELSE g.peer.boot]
          [] input = "close" -> [g EXCEPT !.remote = 0, !.armed = FALSE]
          [] input = "clear" ->
                IF ~g.armed /\ g.clear_id < MaxClear
                THEN [g EXCEPT !.remote = 0, !.armed = FALSE, !.clear_id = @ + 1, !.clear_at = 0]
                ELSE [g EXCEPT !.remote = 0, !.armed = FALSE]

(* The peer was lost since the last round, or has rebooted.                *)
Revoked(g) ==
    \/ g.pub.online /\ ~g.online
    \/ g.pub.peer # 0 /\ g.peer.boot # 0 /\ g.peer.boot # g.pub.peer

(* Mutant of ClearPeer: the event is bound to whoever is there.            *)
PresentPeer(g) == g.peer.boot

(* A clear event stays bound to the peer that was online when it was made. *)
ClearPeer(g) ==
    IF g.clear_id = g.pub.last_clear THEN g.pub.clear_peer
    ELSE IF g.online THEN g.peer.boot ELSE 0

(* Mutant of ClearIsDue: a grant may carry the event too.                  *)
ClearIsRecent(g, run) == g.clear_at <= Timeout
ClearIsDue(g, run) == g.clear_at <= Timeout /\ ~run

(* publish(): a lost or rebooted peer closes the operator's gate.          *)
Published(g) ==
    LET revoked == Revoked(g)
        bound   == ClearPeer(g)
        run     == g.armed /\ ~revoked /\ g.online /\ g.remote <= Timeout
        clears  == bound # 0 /\ bound = g.peer.boot /\ ClearIsDue(g, run)
        knew    == IF g.knew = 0 THEN g.peer.boot ELSE g.knew
    IN  [g EXCEPT
            !.pub = [peer |-> IF g.peer.boot # 0 THEN g.peer.boot ELSE @.peer,
                     online |-> g.online, last_clear |-> g.clear_id, clear_peer |-> bound],
            !.armed = @ /\ ~revoked, !.knew = knew,
            !.control = Control([run |-> run, clear |-> IF clears THEN g.clear_id ELSE 0,
                         source |-> g.remote, clear_age |-> IF clears THEN g.clear_at ELSE Old,
                         sender |-> 0, receiver |-> g.peer.boot, at |-> 0, knew |-> knew])]

(* submit() and submitBigYaw(): a round of 10 ms after the last makes one  *)
(* request from the decision of that moment, so the age of the decision is *)
(* the age of the request and is not kept twice.                           *)
Produced(g) ==
    LET seq   == g.request.seq + 1
        fresh == g.armed /\ g.remote <= Timeout
    IN  [g EXCEPT
            !.request = Request([seq |-> seq, follow |-> Uses("big_yaw") /\ fresh,
                                 receiver |-> 0, at |-> 0, source |-> g.remote, knew |-> g.bound]),
            !.command = Command([seq |-> seq, move |-> Uses("chassis") /\ fresh,
                                 receiver |-> 0, at |-> 0, knew |-> g.bound])]

MayProduce(g) == (Uses("chassis") \/ Uses("big_yaw")) /\ g.request.seq < MaxSequence

(* What a poll reads of a line: nothing yet, or the batch with the frames  *)
(* that survive, before it is older than MaxDelay.                         *)
Reads(line) == IF line = Silence THEN {FALSE}
               ELSE IF line.age = MaxDelay THEN {TRUE} ELSE BOOLEAN

Survivors(line, reads) == IF reads THEN SUBSET DOMAIN line.frames ELSE {{}}

(* A closed gate with no clear event looks at the next remote frame only.  *)
Rested(g) ==
    IF g.armed THEN g
    ELSE [g EXCEPT !.knew = 0, !.remote = IF g.clear_at > Timeout THEN Old ELSE @]

(* One round of the gimbal's main(): poll(), the remote, the publisher and *)
(* the requests.  A heartbeat of the chassis is read at once or lost.      *)
GimbalLoop(input, produces, hears) ==
    LET heard  == IF hears THEN [gimbal EXCEPT !.peer = [boot |-> chassis.boot, at |-> 0]]
                  ELSE gimbal
        polled == Contact(heard)
        round  == Published(Gated(polled, input))
        next   == Rested(IF produces THEN Produced(round) ELSE round)
    IN  /\ turn = "gimbal" /\ turn' = "chassis"
        /\ produces => MayProduce(gimbal)
        /\ gimbal' = next
        /\ downlink' = IF downlink = Silence THEN DownBatch(polled) ELSE downlink
        /\ unheard' = IF next.armed /\ input # "none" THEN 0 ELSE unheard
        /\ UNCHANGED <<profile, chassis, obeyed>>

-----------------------------------------------------------------------------
(* poll() of the chassis board, operator_control_valid: bound to this boot *)
(* and to the peer's, within the age budget.                               *)
ControlValid(c) ==
    /\ PeerOnline(c) /\ c.control.sender = c.peer.boot /\ c.control.receiver = c.boot
    /\ ForwardedFresh(c.control.at, c.control.source)

(* OperatorControlConsumer::update()                                       *)
RunAllowed(c) == ControlValid(c) /\ c.control.run

Clears(c) ==
    /\ ControlValid(c) /\ ~c.control.run /\ c.control.clear # 0
    /\ ForwardedFresh(c.control.at, c.control.clear_age)
    /\ <<c.control.sender, c.control.clear>> # c.cleared

(* The input to ChassisExecutor::update() makes the wheels move.           *)
Moves(c) ==
    /\ RunAllowed(c) /\ c.command.move /\ c.command.receiver = c.boot
    /\ c.command.at <= Timeout

(* The input to BigYawExecutor::update() makes the big yaw follow.         *)
Follows(c) ==
    /\ RunAllowed(c) /\ c.request.follow /\ c.request.receiver = c.boot
    /\ ForwardedFresh(c.request.at, c.request.source)

(* One round of the chassis' main(): poll() and the consumer.  What the    *)
(* executors are told is Moves and Follows of the next state.              *)
ChassisLoop(reads, kept) ==
    LET polled == Invalidated(IF reads THEN Accepted(chassis, kept, downlink.frames) ELSE chassis)
        event  == <<polled.control.sender, polled.control.clear>>
    IN  /\ turn = "chassis" /\ turn' = "tick"
        /\ chassis' = IF Clears(polled) THEN [polled EXCEPT !.cleared = event] ELSE polled
        /\ obeyed' = IF Clears(polled) THEN obeyed \cup {event} ELSE obeyed
        /\ downlink' = IF reads THEN Silence ELSE downlink
        /\ UNCHANGED <<profile, gimbal, unheard>>

-----------------------------------------------------------------------------
RebootGimbal ==
    /\ gimbal.boot + chassis.boot < MaxBoot
    /\ gimbal' = NewGimbal(gimbal.boot + 1)
    /\ UNCHANGED <<profile, chassis, downlink, turn, unheard, obeyed>>

RebootChassis ==
    /\ gimbal.boot + chassis.boot < MaxBoot
    /\ chassis' = NewChassis(chassis.boot + 1)
    /\ UNCHANGED <<profile, gimbal, downlink, turn, unheard, obeyed>>

(* Time passes on both boards once each has run its loop.  In a tick the   *)
(* gimbal goes first: the other order reads a batch one tick older.        *)
Aged(age) == IF age < Old THEN age + 1 ELSE Old

AgedValue(v) == [v EXCEPT !.at = Aged(@)]

Tick ==
    /\ turn = "tick" /\ turn' = "gimbal"
    /\ downlink' = IF downlink = Silence THEN Silence ELSE [downlink EXCEPT !.age = @ + 1]
    /\ gimbal' = [gimbal EXCEPT !.peer = AgedValue(@), !.remote = Aged(@), !.clear_at = Aged(@),
                      !.control = AgedValue(@), !.command = AgedValue(@), !.request = AgedValue(@)]
    /\ chassis' = [chassis EXCEPT !.peer = AgedValue(@), !.control = AgedValue(@),
                       !.command = AgedValue(@), !.request = AgedValue(@)]
    /\ unheard' = IF unheard > LeaseTime THEN unheard ELSE unheard + 1
    /\ UNCHANGED <<profile, obeyed>>

Next ==
    \/ \E input \in Inputs, produces, hears \in BOOLEAN : GimbalLoop(input, produces, hears)
    \/ \E reads \in Reads(downlink) :
          \E kept \in Survivors(downlink, reads) : ChassisLoop(reads, kept)
    \/ RebootGimbal \/ RebootChassis
    \/ Tick

Spec == Init /\ [][Next]_vars

-----------------------------------------------------------------------------
Ages == 0 .. Old
KnownBoots == 0 .. MaxBoot
Controls == [run : BOOLEAN, clear : 0 .. MaxClear, source : Ages, clear_age : Ages,
             sender : KnownBoots, receiver : KnownBoots, at : Ages, knew : KnownBoots]
Commands == [seq : 0 .. MaxSequence, move : BOOLEAN, receiver : KnownBoots, at : Ages,
             knew : KnownBoots]
Requests == [seq : 0 .. MaxSequence, follow : BOOLEAN, receiver : KnownBoots, at : Ages,
             source : Ages, knew : KnownBoots]

(* The types, and what each record may hold beside the rest: a grant never *)
(* carries a clear event (encodeOperatorControl() refuses one that does),  *)
(* and a board calls its peer online only after a heartbeat that is fresh. *)
TypeOK ==
    /\ profile \in Profiles /\ turn \in {"gimbal", "chassis", "tick"}
    /\ unheard \in 0 .. LeaseTime + 1 /\ obeyed \subseteq KnownBoots \X (1 .. MaxClear)
    /\ \A b \in {gimbal, chassis} :
          /\ b.boot \in 1 .. MaxBoot /\ b.peer \in [boot : KnownBoots, at : Ages]
          /\ b.online \in BOOLEAN /\ b.online => b.peer.boot # 0
          /\ b.control \in Controls /\ b.command \in Commands /\ b.request \in Requests
          /\ ~(b.control.run /\ b.control.clear # 0)
    /\ gimbal.remote \in Ages /\ gimbal.clear_id \in 0 .. MaxClear
    /\ gimbal.armed => gimbal.knew # 0 \/ gimbal.peer.boot = 0
    /\ downlink.age \in 0 .. MaxDelay

(* When the chassis acts on a grant, the remote was heard with the gate    *)
(* open no longer ago than the timeout and the line's delay, however often *)
(* the value was repeated; and the operator has opened the gate after the  *)
(* gimbal knew of this boot of the chassis.                                *)
RunIsLeased ==
    RunAllowed(chassis) => unheard <= LeaseTime /\ chassis.control.knew = chassis.boot

(* Motion is never resumed from a decision made before the gimbal knew of  *)
(* the chassis' present boot: the baselines hold it back.                  *)
MotionPostdatesContact ==
    /\ Moves(chassis) => chassis.command.knew = chassis.boot
    /\ Follows(chassis) => chassis.request.knew = chassis.boot

(* One gesture of the operator clears the emergency stop of one boot of    *)
(* the chassis: no later session or boot obeys the event again.            *)
ClearsOnce == [][\A e \in obeyed : chassis'.cleared = e => chassis.cleared = e]_vars

(* Once a request has been revoked at the chassis, no repetition of it by  *)
(* the gimbal, late or re-encoded, makes the big yaw follow again.         *)
RevokedStaysRevoked ==
    [][/\ chassis'.request.seq = chassis.request.seq /\ chassis.request.seq # 0
         /\ chassis'.peer.boot = chassis.peer.boot
       => (chassis'.request.follow => chassis.request.follow)]_vars
=============================================================================
