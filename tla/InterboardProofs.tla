---------------------------- MODULE InterboardProofs ----------------------------
(***************************************************************************)
(* Theorems about Interboard, for all timeouts, delays and streams: types, *)
(* the lease of a grant, motion and the contact it belongs to, clear       *)
(* events, and revoked requests.                                           *)
(***************************************************************************)
EXTENDS Interboard, TLAPS

-----------------------------------------------------------------------------
(* The inductive invariants.                                               *)

Peers == [boot : KnownBoots, at : Ages]
Pubs  == [peer : KnownBoots, online : BOOLEAN, last_clear : 0 .. MaxClear, clear_peer : KnownBoots]

GimbalBoards ==
    [boot : 1 .. MaxBoot, peer : Peers, online : BOOLEAN, bound : KnownBoots,
     baseline : 0 .. MaxSequence, big_yaw_baseline : 0 .. MaxSequence,
     remote : Ages, armed : BOOLEAN, knew : KnownBoots, clear_id : 0 .. MaxClear, clear_at : Ages,
     pub : Pubs, control : Controls, command : Commands, request : Requests]

ChassisBoards ==
    [boot : 1 .. MaxBoot, peer : Peers, online : BOOLEAN,
     control : Controls, command : Commands, request : Requests,
     cleared : KnownBoots \X (0 .. MaxClear)]

(* What a batch may hold.                                                  *)
Frames(fs) ==
    /\ "heartbeat" \in DOMAIN fs => fs["heartbeat"] \in 1 .. MaxBoot
    /\ "control" \in DOMAIN fs =>
          fs["control"] \in Controls /\ ~(fs["control"].run /\ fs["control"].clear # 0)
    /\ "command" \in DOMAIN fs => fs["command"] \in Commands
    /\ "request" \in DOMAIN fs => fs["request"] \in Requests

TypesInv ==
    /\ profile \in Profiles
    /\ turn \in {"gimbal", "chassis", "tick"}
    /\ unheard \in 0 .. LeaseTime + 1 /\ obeyed \subseteq KnownBoots \X (1 .. MaxClear)
    /\ gimbal \in GimbalBoards /\ chassis \in ChassisBoards
    /\ downlink = [age |-> downlink.age, frames |-> downlink.frames]
    /\ downlink.age \in 0 .. MaxDelay /\ Frames(downlink.frames)

(* What a record holds beside the rest, and a batch does not stay too long.*)
FitsInv ==
    /\ gimbal.online => gimbal.peer.boot # 0
    /\ chassis.online => chassis.peer.boot # 0
    /\ ~(gimbal.control.run /\ gimbal.control.clear # 0)
    /\ ~(chassis.control.run /\ chassis.control.clear # 0)
    /\ gimbal.armed => gimbal.knew # 0 \/ gimbal.peer.boot = 0
    /\ turn = "tick" => downlink = Silence \/ downlink.age < MaxDelay

(* A grant is never younger than the remote frame behind it, wherever it   *)
(* is.                                                                     *)
Leased(v, spent) == v.run /\ v.source + v.at <= Timeout => unheard <= v.source + v.at + spent

LeaseInv ==
    /\ gimbal.armed => unheard <= gimbal.remote \/ gimbal.remote > Timeout
    /\ Leased(gimbal.control, 0)
    /\ "control" \in DOMAIN downlink.frames /\ downlink.frames["control"].run =>
          unheard <= downlink.frames["control"].source + downlink.age
    /\ Leased(chassis.control, MaxDelay)

(* What permits motion is addressed to the boot that was known when it was *)
(* produced.                                                               *)
GimbalBound(g) ==
    /\ g.armed /\ g.knew # 0 => g.knew = g.pub.peer
    /\ g.control.run => g.control.knew = g.control.receiver
    /\ g.command.move /\ g.command.seq > g.baseline => g.command.knew = g.bound
    /\ g.request.follow /\ g.request.seq > g.big_yaw_baseline => g.request.knew = g.bound

FramesBound(fs) ==
    /\ "control" \in DOMAIN fs /\ fs["control"].run => fs["control"].knew = fs["control"].receiver
    /\ "command" \in DOMAIN fs /\ fs["command"].move => fs["command"].knew = fs["command"].receiver
    /\ "request" \in DOMAIN fs /\ fs["request"].follow =>
          fs["request"].knew = fs["request"].receiver

ChassisBound(c) ==
    /\ c.control.run => c.control.knew = c.control.receiver
    /\ c.command.move => c.command.knew = c.command.receiver
    /\ c.request.follow => c.request.knew = c.request.receiver

BindInv == GimbalBound(gimbal) /\ FramesBound(downlink.frames) /\ ChassisBound(chassis)

(* Nobody knows of a boot of the chassis that is still to come.            *)
KnownInv ==
    /\ gimbal.peer.boot <= chassis.boot /\ gimbal.pub.clear_peer <= chassis.boot
    /\ gimbal.bound <= chassis.boot
    /\ "control" \in DOMAIN downlink.frames => downlink.frames["control"].receiver <= chassis.boot

(* Clear events in the order they are made.                                *)
Event(v) == <<v.sender, v.clear>>
NotAfter(d, e) == d[1] < e[1] \/ (d[1] = e[1] /\ d[2] <= e[2])
Newest(g) == <<g.boot, g.clear_id>>

(* An event for this boot of the chassis that was obeyed before is the     *)
(* last one that was.                                                      *)
Remembered(e, receiver, c, done) == e \in done /\ receiver = c.boot => c.cleared = e

GimbalClears(g) ==
    /\ g.pub.last_clear = g.clear_id
    /\ g.control.clear # 0 =>
          g.control.clear = g.clear_id /\ g.control.receiver = g.pub.clear_peer

NewestIsLast(g, c, done) ==
    /\ Remembered(Newest(g), g.pub.clear_peer, c, done)
    /\ \A e \in done : NotAfter(e, Newest(g))
    /\ NotAfter(c.cleared, Newest(g))

(* A clear event on its way, in a frame or in the endpoint of the chassis. *)
InOrder(v, g, c, done) ==
    v.clear # 0 =>
        /\ NotAfter(Event(v), Newest(g)) /\ NotAfter(c.cleared, Event(v))
        /\ Remembered(Event(v), v.receiver, c, done)

Behind(c, f) == c.control.clear # 0 /\ f.clear # 0 => NotAfter(Event(c.control), Event(f))

ClearInv ==
    /\ GimbalClears(gimbal)
    /\ NewestIsLast(gimbal, chassis, obeyed)
    /\ InOrder(chassis.control, gimbal, chassis, obeyed)
    /\ "control" \in DOMAIN downlink.frames =>
          /\ InOrder(downlink.frames["control"], gimbal, chassis, obeyed)
          /\ Behind(chassis, downlink.frames["control"])

-----------------------------------------------------------------------------
(* Types.                                                                  *)

LEMMA Bounds ==
    ASSUME profile \in Profiles
    PROVE  /\ Timeout \in Nat \ {0} /\ MaxDelay \in Nat /\ Old \in Nat /\ LeaseTime \in Nat
           /\ Old = Timeout + 1 /\ LeaseTime = Timeout + MaxDelay
           /\ MaxBoot \in Nat \ {0} /\ MaxClear \in Nat /\ MaxSequence \in Nat
           /\ Old \in Ages /\ 0 \in Ages /\ 0 \in KnownBoots
  BY InterboardAssumption DEF Timeout, MaxDelay, Old, LeaseTime, Ages, KnownBoots

LEMMA SameTypes ==
    ASSUME UNCHANGED profile
    PROVE  /\ Timeout' = Timeout /\ MaxDelay' = MaxDelay /\ Old' = Old /\ LeaseTime' = LeaseTime
           /\ Ages' = Ages /\ Controls' = Controls /\ Commands' = Commands /\ Requests' = Requests
           /\ GimbalBoards' = GimbalBoards /\ ChassisBoards' = ChassisBoards
  BY DEF Timeout, MaxDelay, Old, LeaseTime, Ages, Controls, Commands, Requests, GimbalBoards,
         ChassisBoards, Peers, Pubs, KnownBoots

LEMMA AddAgeFacts ==
    ASSUME profile \in Profiles, NEW a \in Ages, NEW b \in Ages
    PROVE  /\ AddAge(a, b) \in Ages
           /\ AddAge(a, b) <= Timeout => AddAge(a, b) = a + b
           /\ ForwardedFresh(a, b) <=> a + b <= Timeout
  BY Bounds DEF AddAge, ForwardedFresh, Ages, Old

LEMMA AgedFacts ==
    ASSUME profile \in Profiles, NEW a \in Ages
    PROVE  /\ Aged(a) \in Ages
           /\ Aged(a) <= Timeout => Aged(a) = a + 1
  BY Bounds DEF Aged, Ages, Old

LEMMA Nothing ==
    ASSUME profile \in Profiles
    PROVE  /\ NoPeer \in Peers /\ NoControl \in Controls /\ NoCommand \in Commands
           /\ NoRequest \in Requests
           /\ ~NoControl.run /\ NoControl.clear = 0 /\ ~NoCommand.move /\ ~NoRequest.follow
           /\ NoPeer.boot = 0
  BY Bounds DEF NoPeer, NoControl, NoCommand, NoRequest, Peers, Controls, Commands, Requests

(* A value that permits nothing may be replaced by one that says no more.  *)
LEMMA Kept ==
    ASSUME profile \in Profiles
    PROVE  /\ \A v \in Controls :
                 /\ Control(v) \in Controls
                 /\ Control(v).run \/ Control(v).clear # 0 => Control(v) = v
                 /\ v.run \/ v.clear # 0 => Control(v) = v
           /\ \A v \in Commands :
                 /\ Command(v) \in Commands /\ Command(v).seq = v.seq
                 /\ Command(v).move = v.move /\ (v.move => Command(v) = v)
           /\ \A v \in Requests :
                 /\ Request(v) \in Requests /\ Request(v).seq = v.seq
                 /\ Request(v).follow = v.follow /\ (v.follow => Request(v) = v)
  <1>1. ASSUME NEW v \in Controls
        PROVE  /\ Control(v) \in Controls
               /\ Control(v).run \/ Control(v).clear # 0 => Control(v) = v
               /\ v.run \/ v.clear # 0 => Control(v) = v
    BY Nothing DEF Control
  <1>2. ASSUME NEW v \in Commands
        PROVE  /\ Command(v) \in Commands /\ Command(v).seq = v.seq
               /\ Command(v).move = v.move /\ (v.move => Command(v) = v)
    <2>1. NoCommand \in Commands /\ NoCommand.move = FALSE
      BY Nothing DEF NoCommand
    <2> DEFINE w == [NoCommand EXCEPT !.seq = v.seq, !.at = v.at]
    <2>2. w \in Commands /\ w.seq = v.seq /\ w.move = FALSE
      BY <2>1 DEF Commands
    <2>3. v.move \in BOOLEAN
      BY DEF Commands
    <2> HIDE DEF w
    <2>4. Command(v) = IF v.move THEN v ELSE w
      BY DEF Command, w
    <2> QED
      BY <2>2, <2>3, <2>4
  <1>3. ASSUME NEW v \in Requests
        PROVE  /\ Request(v) \in Requests /\ Request(v).seq = v.seq
               /\ Request(v).follow = v.follow /\ (v.follow => Request(v) = v)
    <2>1. NoRequest \in Requests /\ NoRequest.follow = FALSE
      BY Nothing DEF NoRequest
    <2> DEFINE w == [NoRequest EXCEPT !.seq = v.seq]
    <2>2. w \in Requests /\ w.seq = v.seq /\ w.follow = FALSE
      BY <2>1 DEF Requests
    <2>3. v.follow \in BOOLEAN
      BY DEF Requests
    <2> HIDE DEF w
    <2>4. Request(v) = IF v.follow THEN v ELSE w
      BY DEF Request, w
    <2> QED
      BY <2>2, <2>3, <2>4
  <1> QED
    BY <1>1, <1>2, <1>3

-----------------------------------------------------------------------------
(* What the parts of the gimbal's round do to the board.                   *)

LEMMA HeardFacts ==
    ASSUME profile \in Profiles, NEW g \in GimbalBoards, NEW b \in 1 .. MaxBoot
    PROVE  LET h == [g EXCEPT !.peer = [boot |-> b, at |-> 0]]
           IN  /\ h \in GimbalBoards /\ h.peer.boot = b
               /\ h.boot = g.boot /\ h.bound = g.bound /\ h.online = g.online
               /\ h.baseline = g.baseline /\ h.big_yaw_baseline = g.big_yaw_baseline
               /\ h.remote = g.remote /\ h.armed = g.armed /\ h.knew = g.knew
               /\ h.clear_id = g.clear_id /\ h.clear_at = g.clear_at /\ h.pub = g.pub
               /\ h.control = g.control /\ h.command = g.command /\ h.request = g.request
  <1>1. [boot |-> b, at |-> 0] \in Peers
    BY Bounds DEF Peers, KnownBoots
  <1> DEFINE p == [boot |-> b, at |-> 0]
             h == [g EXCEPT !.peer = p]
  <1>2. p.boot = b /\ p \in Peers
    BY <1>1
  <1> HIDE DEF p
  <1>3. h \in GimbalBoards /\ h.peer = p
    BY <1>2 DEF GimbalBoards
  <1> QED
    BY <1>2, <1>3 DEF GimbalBoards, p

LEMMA ContactFacts ==
    ASSUME profile \in Profiles, NEW g \in GimbalBoards
    PROVE  LET h == Contact(g)
           IN  /\ h \in GimbalBoards
               /\ h.online => h.peer.boot # 0
               /\ \/ h.bound = g.peer.boot
                     /\ h.baseline = g.command.seq /\ h.big_yaw_baseline = g.request.seq
                  \/ h.bound = g.bound
                     /\ h.baseline = g.baseline /\ h.big_yaw_baseline = g.big_yaw_baseline
               /\ h.boot = g.boot /\ h.peer = g.peer
               /\ h.remote = g.remote /\ h.armed = g.armed /\ h.knew = g.knew
               /\ h.clear_id = g.clear_id /\ h.clear_at = g.clear_at /\ h.pub = g.pub
               /\ h.control = g.control /\ h.command = g.command /\ h.request = g.request
  <1> DEFINE on == PeerOnline(g)
             new == [g EXCEPT !.online = TRUE, !.bound = g.peer.boot,
                              !.baseline = g.command.seq, !.big_yaw_baseline = g.request.seq]
             old == [g EXCEPT !.online = on]
  <1>1. /\ g.peer.boot \in KnownBoots /\ g.command.seq \in 0 .. MaxSequence
        /\ g.request.seq \in 0 .. MaxSequence
    BY DEF GimbalBoards, Peers, Commands, Requests
  <1>2. on \in BOOLEAN /\ (on => g.peer.boot # 0)
    BY DEF PeerOnline
  <1>3. Contact(g) = IF on /\ (~g.online \/ g.bound # g.peer.boot) THEN new ELSE old
    BY DEF Contact
  <1> HIDE DEF on
  <1>4. /\ new \in GimbalBoards /\ new.bound = g.peer.boot /\ new.online = TRUE
        /\ new.baseline = g.command.seq /\ new.big_yaw_baseline = g.request.seq
    BY <1>1 DEF GimbalBoards
  <1>5. /\ new.boot = g.boot /\ new.peer = g.peer
        /\ new.remote = g.remote /\ new.armed = g.armed /\ new.knew = g.knew
        /\ new.clear_id = g.clear_id /\ new.clear_at = g.clear_at /\ new.pub = g.pub
        /\ new.control = g.control /\ new.command = g.command /\ new.request = g.request
    BY DEF GimbalBoards
  <1>6. /\ old \in GimbalBoards /\ old.bound = g.bound /\ old.online = on
        /\ old.baseline = g.baseline /\ old.big_yaw_baseline = g.big_yaw_baseline
    BY <1>2 DEF GimbalBoards
  <1>7. /\ old.boot = g.boot /\ old.peer = g.peer
        /\ old.remote = g.remote /\ old.armed = g.armed /\ old.knew = g.knew
        /\ old.clear_id = g.clear_id /\ old.clear_at = g.clear_at /\ old.pub = g.pub
        /\ old.control = g.control /\ old.command = g.command /\ old.request = g.request
    BY DEF GimbalBoards
  <1> HIDE DEF new, old
  <1> QED
    BY <1>2, <1>3, <1>4, <1>5, <1>6, <1>7

(* The gate opens with a remote frame only, and a stale remote closes it.  *)
LEMMA GatedFacts ==
    ASSUME profile \in Profiles, NEW g \in GimbalBoards, NEW input \in Inputs
    PROVE  LET h == Gated(g, input)
           IN  /\ h \in GimbalBoards
               /\ h.remote = IF input = "none" THEN g.remote ELSE 0
               /\ h.armed => h.remote <= Timeout
               /\ h.armed => \/ g.armed /\ h.knew = g.knew
                             \/ input # "none" /\ (h.knew = g.peer.boot \/ (h.knew = g.knew /\ g.armed))
               /\ h.clear_id \in {g.clear_id, g.clear_id + 1}
               /\ h.boot = g.boot /\ h.peer = g.peer /\ h.bound = g.bound /\ h.online = g.online
               /\ h.baseline = g.baseline /\ h.big_yaw_baseline = g.big_yaw_baseline
               /\ h.pub = g.pub
               /\ h.control = g.control /\ h.command = g.command /\ h.request = g.request
  <1> DEFINE remote == IF input = "none" THEN g.remote ELSE 0
             stale == [g EXCEPT !.remote = remote, !.armed = FALSE, !.clear_at = Old]
             same  == [g EXCEPT !.remote = remote]
             open  == [g EXCEPT !.remote = 0, !.armed = TRUE,
                                !.knew = IF g.armed THEN @ ELSE g.peer.boot]
             close == [g EXCEPT !.remote = 0, !.armed = FALSE]
             clear == [g EXCEPT !.remote = 0, !.armed = FALSE, !.clear_id = @ + 1, !.clear_at = 0]
             Fields(h) ==
               /\ h.boot = g.boot /\ h.peer = g.peer /\ h.bound = g.bound /\ h.online = g.online
               /\ h.baseline = g.baseline /\ h.big_yaw_baseline = g.big_yaw_baseline
               /\ h.pub = g.pub
               /\ h.control = g.control /\ h.command = g.command /\ h.request = g.request
  <1>1. /\ g.remote \in Ages /\ remote \in Ages /\ g.peer.boot \in KnownBoots /\ g.knew \in KnownBoots
        /\ g.clear_id \in 0 .. MaxClear /\ g.armed \in BOOLEAN
    BY Bounds DEF GimbalBoards, Peers
  <1>c. remote > Timeout <=> ~(remote <= Timeout)
    BY <1>1, Bounds DEF Ages
  <1>d. remote > Timeout => input = "none"
    BY Bounds
  <1>2. 0 <= Timeout /\ 0 \in Ages /\ Old \in Ages
    BY Bounds
  <1>3. input # "none" => remote = 0
    OBVIOUS
  <1>4. Gated(g, input) =
            CASE remote > Timeout -> stale
              [] remote <= Timeout /\ input \in {"none", "hold"} -> same
              [] input = "open" -> open
              [] input = "close" -> close
              [] input = "clear" ->
                    IF ~g.armed /\ g.clear_id < MaxClear THEN clear ELSE close
    BY DEF Gated
  <1>5. CASE remote > Timeout
    <2>1. Gated(g, input) = stale
      <3>1. input = "none" /\ ~(remote <= Timeout)
        BY <1>5, <1>c, <1>d
      <3> HIDE DEF stale, same, open, close, clear, remote
      <3> QED
        BY <1>4, <1>5, <3>1
    <2> HIDE DEF remote
    <2>2. stale \in GimbalBoards /\ stale.remote = remote /\ stale.armed = FALSE
          /\ stale.clear_id = g.clear_id /\ Fields(stale)
      BY <1>1, <1>2 DEF GimbalBoards
    <2> HIDE DEF stale
    <2> QED
      BY <2>1, <2>2 DEF remote
  <1>6. CASE ~(remote > Timeout) /\ input \in {"none", "hold"}
    <2>1. remote <= Timeout /\ input \in {"none", "hold"} /\ ~(remote > Timeout)
      BY <1>6, <1>c
    <2>2. Gated(g, input) = same
      <3> HIDE DEF stale, same, open, close, clear, remote
      <3> QED
        BY <1>4, <2>1
    <2> HIDE DEF remote
    <2>3. same \in GimbalBoards /\ same.remote = remote /\ same.armed = g.armed /\ same.knew = g.knew
          /\ same.clear_id = g.clear_id /\ Fields(same)
      BY <1>1, <1>2 DEF GimbalBoards
    <2> HIDE DEF same
    <2> QED
      BY <2>1, <2>2, <2>3, <1>1 DEF remote
  <1>7. CASE ~(remote > Timeout) /\ input = "open"
    <2>1. Gated(g, input) = open
      BY <1>4, <1>7
    <2>2. open \in GimbalBoards /\ open.remote = 0
          /\ open.knew = (IF g.armed THEN g.knew ELSE g.peer.boot)
          /\ open.clear_id = g.clear_id /\ Fields(open)
      BY <1>1, <1>2 DEF GimbalBoards
    <2>3. input # "none"
      BY <1>7
    <2> HIDE DEF open, remote, stale, same, close, clear
    <2>4. open.knew = g.peer.boot \/ (open.knew = g.knew /\ g.armed)
      BY <2>2
    <2> QED
      BY <1>2, <2>1, <2>2, <2>3, <2>4
  <1>8. close \in GimbalBoards /\ close.remote = 0 /\ close.armed = FALSE
        /\ close.clear_id = g.clear_id /\ Fields(close)
    BY <1>1, <1>2 DEF GimbalBoards
  <1>9. CASE ~(remote > Timeout) /\ input = "close"
    <2>1. Gated(g, input) = close
      BY <1>4, <1>9
    <2> HIDE DEF close
    <2> QED
      BY <1>3, <1>8, <1>9, <2>1
  <1>10. CASE ~(remote > Timeout) /\ input = "clear"
    <2>1. Gated(g, input) = IF ~g.armed /\ g.clear_id < MaxClear THEN clear ELSE close
      BY <1>4, <1>10
    <2>2. CASE ~g.armed /\ g.clear_id < MaxClear
      <3>1. g.clear_id + 1 \in 0 .. MaxClear
        BY <1>1, <2>2, Bounds
      <3>2. clear \in GimbalBoards /\ clear.remote = 0 /\ clear.armed = FALSE
            /\ clear.clear_id = g.clear_id + 1 /\ Fields(clear)
        BY <1>1, <1>2, <3>1 DEF GimbalBoards
      <3> HIDE DEF clear
      <3> QED
        BY <1>3, <1>10, <2>1, <2>2, <3>2
    <2>3. CASE ~(~g.armed /\ g.clear_id < MaxClear)
      <3>1. Gated(g, input) = close
        BY <2>1, <2>3
      <3> HIDE DEF close
      <3> QED
        BY <1>3, <1>8, <1>10, <3>1
    <2> QED
      BY <2>2, <2>3
  <1>11. input \in {"none", "hold", "open", "close", "clear"}
    BY DEF Inputs
  <1> QED
    BY <1>5, <1>6, <1>7, <1>9, <1>10, <1>11

LEMMA PublishedFacts ==
    ASSUME profile \in Profiles, NEW g \in GimbalBoards, g.online => g.peer.boot # 0
    PROVE  LET h == Published(g)
           IN  /\ h \in GimbalBoards
               /\ h.armed = (g.armed /\ ~Revoked(g))
               /\ h.knew = IF g.knew = 0 THEN g.peer.boot ELSE g.knew
               /\ h.pub.peer = IF g.peer.boot # 0 THEN g.peer.boot ELSE g.pub.peer
               /\ h.pub.last_clear = g.clear_id /\ h.pub.clear_peer = ClearPeer(g)
               /\ h.control.run =>
                     /\ h.armed /\ g.peer.boot # 0 /\ h.control.clear = 0
                     /\ h.control.source = g.remote /\ h.control.at = 0
                     /\ h.control.receiver = g.peer.boot /\ h.control.knew = h.knew
               /\ h.control.clear # 0 =>
                     /\ h.control.clear = g.clear_id
                     /\ h.control.receiver = ClearPeer(g)
               /\ h.boot = g.boot /\ h.peer = g.peer /\ h.bound = g.bound /\ h.online = g.online
               /\ h.baseline = g.baseline /\ h.big_yaw_baseline = g.big_yaw_baseline
               /\ h.remote = g.remote /\ h.clear_id = g.clear_id /\ h.clear_at = g.clear_at
               /\ h.command = g.command /\ h.request = g.request
  <1> DEFINE revoked == Revoked(g)
             bound == ClearPeer(g)
             run == g.armed /\ ~revoked /\ g.online /\ g.remote <= Timeout
             clears == bound # 0 /\ bound = g.peer.boot /\ ClearIsDue(g, run)
             knew == IF g.knew = 0 THEN g.peer.boot ELSE g.knew
             peer == IF g.peer.boot # 0 THEN g.peer.boot ELSE g.pub.peer
             pub == [peer |-> peer, online |-> g.online, last_clear |-> g.clear_id,
                     clear_peer |-> bound]
             v == [run |-> run, clear |-> IF clears THEN g.clear_id ELSE 0,
                   source |-> g.remote, clear_age |-> IF clears THEN g.clear_at ELSE Old,
                   sender |-> 0, receiver |-> g.peer.boot, at |-> 0, knew |-> knew]
             w == Control(v)
             h == [g EXCEPT !.pub = pub, !.armed = g.armed /\ ~revoked, !.knew = knew, !.control = w]
  <1>1. /\ g.peer.boot \in KnownBoots /\ g.pub \in Pubs /\ g.online \in BOOLEAN /\ g.armed \in BOOLEAN
        /\ g.clear_id \in 0 .. MaxClear /\ g.knew \in KnownBoots /\ g.clear_at \in Ages
        /\ g.remote \in Ages /\ g.pub.peer \in KnownBoots /\ g.pub.clear_peer \in KnownBoots
    BY DEF GimbalBoards, Peers, Pubs
  <1>2. bound \in KnownBoots
    BY <1>1, Bounds DEF ClearPeer
  <1>3. knew \in KnownBoots /\ peer \in KnownBoots
    BY <1>1
  <1>4. run \in BOOLEAN /\ 0 \in 0 .. MaxClear /\ Old \in Ages /\ 0 \in Ages /\ 0 \in KnownBoots
    BY Bounds
  <1>5. clears => ~run
    BY DEF ClearIsDue
  <1>6. run => g.armed /\ ~revoked /\ g.peer.boot # 0
    OBVIOUS
  <1>7. Published(g) = [g EXCEPT !.pub = [peer |-> IF g.peer.boot # 0 THEN g.peer.boot ELSE @.peer,
                                          online |-> g.online, last_clear |-> g.clear_id,
                                          clear_peer |-> bound],
                                 !.armed = @ /\ ~revoked, !.knew = knew, !.control = w]
    BY DEF Published
  <1> HIDE DEF bound, knew, run, clears, revoked
  <1>8. v \in Controls
    <2> DEFINE c == IF clears THEN g.clear_id ELSE 0
               a == IF clears THEN g.clear_at ELSE Old
    <2>1. c \in 0 .. MaxClear /\ a \in Ages
      BY <1>1, <1>4
    <2> HIDE DEF c, a
    <2>2. [run |-> run, clear |-> c, source |-> g.remote, clear_age |-> a, sender |-> 0,
           receiver |-> g.peer.boot, at |-> 0, knew |-> knew] \in Controls
      BY <1>1, <1>3, <1>4, <2>1 DEF Controls
    <2> QED
      BY <2>2 DEF c, a
  <1>9. /\ v.run = run /\ v.source = g.remote /\ v.at = 0 /\ v.knew = knew /\ v.receiver = g.peer.boot
        /\ v.clear = IF clears THEN g.clear_id ELSE 0
    OBVIOUS
  <1> HIDE DEF v
  <1>10. w \in Controls /\ (w.run \/ w.clear # 0 => w = v)
    BY <1>8, Kept
  <1> HIDE DEF w
  <1>11. pub \in Pubs /\ pub.peer = peer /\ pub.last_clear = g.clear_id /\ pub.clear_peer = bound
    BY <1>1, <1>2, <1>3 DEF Pubs
  <1>12. Published(g) = h
    BY <1>7 DEF GimbalBoards
  <1> HIDE DEF pub, peer
  <1>13. revoked \in BOOLEAN
    BY DEF revoked, Revoked
  <1>14. h \in GimbalBoards /\ h.armed = (g.armed /\ ~revoked) /\ h.knew = knew /\ h.pub = pub
         /\ h.control = w
    BY <1>1, <1>3, <1>10, <1>11, <1>13 DEF GimbalBoards
  <1>15. /\ h.boot = g.boot /\ h.peer = g.peer /\ h.bound = g.bound /\ h.online = g.online
         /\ h.baseline = g.baseline /\ h.big_yaw_baseline = g.big_yaw_baseline
         /\ h.remote = g.remote /\ h.clear_id = g.clear_id /\ h.clear_at = g.clear_at
         /\ h.command = g.command /\ h.request = g.request
    BY DEF GimbalBoards
  <1> HIDE DEF h
  <1>16. w.run => /\ g.armed /\ ~revoked /\ g.peer.boot # 0 /\ w.clear = 0
                  /\ w.source = g.remote /\ w.at = 0 /\ w.receiver = g.peer.boot /\ w.knew = knew
    BY <1>5, <1>6, <1>9, <1>10
  <1>17. w.clear # 0 => w.clear = g.clear_id /\ w.receiver = bound
    BY <1>9, <1>10 DEF clears
  <1>18. h.pub.peer = peer /\ h.pub.last_clear = g.clear_id /\ h.pub.clear_peer = bound
    BY <1>11, <1>14
  <1> QED
    BY <1>12, <1>14, <1>15, <1>16, <1>17, <1>18 DEF knew, peer, bound, revoked

LEMMA ProducedFacts ==
    ASSUME profile \in Profiles, NEW g \in GimbalBoards, MayProduce(g)
    PROVE  LET h == Produced(g)
           IN  /\ h \in GimbalBoards
               /\ h.command.move => h.command.knew = g.bound
               /\ h.request.follow => h.request.knew = g.bound
               /\ h.boot = g.boot /\ h.peer = g.peer /\ h.bound = g.bound /\ h.online = g.online
               /\ h.baseline = g.baseline /\ h.big_yaw_baseline = g.big_yaw_baseline
               /\ h.remote = g.remote /\ h.armed = g.armed /\ h.knew = g.knew
               /\ h.clear_id = g.clear_id /\ h.clear_at = g.clear_at /\ h.pub = g.pub
               /\ h.control = g.control
  <1> DEFINE seq == g.request.seq + 1
             fresh == g.armed /\ g.remote <= Timeout
             follow == Uses("big_yaw") /\ fresh
             move == Uses("chassis") /\ fresh
             r == [seq |-> seq, follow |-> follow, receiver |-> 0, at |-> 0, source |-> g.remote,
                   knew |-> g.bound]
             c == [seq |-> seq, move |-> move, receiver |-> 0, at |-> 0, knew |-> g.bound]
             rr == Request(r)
             cc == Command(c)
             h == [g EXCEPT !.request = rr, !.command = cc]
  <1>1. g.request.seq \in 0 .. MaxSequence /\ g.bound \in KnownBoots /\ g.remote \in Ages
    BY DEF GimbalBoards, Requests
  <1>2. seq \in 0 .. MaxSequence
    BY <1>1, Bounds DEF MayProduce
  <1>3. follow \in BOOLEAN /\ move \in BOOLEAN /\ 0 \in KnownBoots /\ 0 \in Ages
    BY Bounds DEF Uses
  <1>4. Produced(g) = h
    BY DEF Produced
  <1> HIDE DEF seq, follow, move
  <1>5. r \in Requests /\ c \in Commands
    BY <1>1, <1>2, <1>3 DEF Requests, Commands
  <1>6. r.knew = g.bound /\ c.knew = g.bound
    OBVIOUS
  <1> HIDE DEF r, c
  <1>7. /\ rr \in Requests /\ cc \in Commands
        /\ rr.follow => rr.knew = g.bound
        /\ cc.move => cc.knew = g.bound
    BY <1>5, <1>6, Kept
  <1> HIDE DEF rr, cc
  <1>8. h \in GimbalBoards /\ h.request = rr /\ h.command = cc
    BY <1>7 DEF GimbalBoards
  <1>9. /\ h.boot = g.boot /\ h.peer = g.peer /\ h.bound = g.bound /\ h.online = g.online
        /\ h.baseline = g.baseline /\ h.big_yaw_baseline = g.big_yaw_baseline
        /\ h.remote = g.remote /\ h.armed = g.armed /\ h.knew = g.knew
        /\ h.clear_id = g.clear_id /\ h.clear_at = g.clear_at /\ h.pub = g.pub
        /\ h.control = g.control
    BY DEF GimbalBoards
  <1> HIDE DEF h
  <1> QED
    BY <1>4, <1>7, <1>8, <1>9

LEMMA RestedFacts ==
    ASSUME profile \in Profiles, NEW g \in GimbalBoards
    PROVE  LET h == Rested(g)
           IN  /\ h \in GimbalBoards
               /\ h.armed = g.armed /\ (g.armed => h.remote = g.remote /\ h.knew = g.knew)
               /\ h.boot = g.boot /\ h.peer = g.peer /\ h.bound = g.bound /\ h.online = g.online
               /\ h.baseline = g.baseline /\ h.big_yaw_baseline = g.big_yaw_baseline
               /\ h.clear_id = g.clear_id /\ h.clear_at = g.clear_at /\ h.pub = g.pub
               /\ h.control = g.control /\ h.command = g.command /\ h.request = g.request
  <1> DEFINE remote == IF g.clear_at > Timeout THEN Old ELSE g.remote
             h == [g EXCEPT !.knew = 0, !.remote = remote]
  <1>1. remote \in Ages /\ 0 \in KnownBoots
    BY Bounds DEF GimbalBoards
  <1>2. Rested(g) = IF g.armed THEN g ELSE h
    BY DEF Rested, GimbalBoards
  <1> HIDE DEF remote
  <1>3. h \in GimbalBoards
    BY <1>1 DEF GimbalBoards
  <1>4. /\ h.armed = g.armed
        /\ h.boot = g.boot /\ h.peer = g.peer /\ h.bound = g.bound /\ h.online = g.online
        /\ h.baseline = g.baseline /\ h.big_yaw_baseline = g.big_yaw_baseline
        /\ h.clear_id = g.clear_id /\ h.clear_at = g.clear_at /\ h.pub = g.pub
        /\ h.control = g.control /\ h.command = g.command /\ h.request = g.request
    BY DEF GimbalBoards
  <1> HIDE DEF h
  <1>5. CASE g.armed
    BY <1>2, <1>5
  <1>6. CASE ~g.armed
    BY <1>2, <1>3, <1>4, <1>6
  <1> QED
    BY <1>5, <1>6

(* A round leaves what the endpoint is by the poll, and the rest by the    *)
(* remote, the publisher and the requests.                                 *)
PolledFrom(p) ==
    /\ p.online => p.peer.boot # 0
    /\ p.peer.boot = gimbal.peer.boot \/ p.peer.boot = chassis.boot
    /\ \/ p.bound = p.peer.boot
          /\ p.baseline = gimbal.command.seq /\ p.big_yaw_baseline = gimbal.request.seq
       \/ p.bound = gimbal.bound
          /\ p.baseline = gimbal.baseline /\ p.big_yaw_baseline = gimbal.big_yaw_baseline
    /\ p.boot = gimbal.boot /\ p.remote = gimbal.remote /\ p.armed = gimbal.armed
    /\ p.knew = gimbal.knew /\ p.clear_id = gimbal.clear_id /\ p.pub = gimbal.pub
    /\ p.control = gimbal.control /\ p.command = gimbal.command /\ p.request = gimbal.request

RoundFrom(n, p, input) ==
    /\ n.boot = p.boot /\ n.peer = p.peer /\ n.bound = p.bound /\ n.online = p.online
    /\ n.baseline = p.baseline /\ n.big_yaw_baseline = p.big_yaw_baseline
    /\ n.armed => n.remote <= Timeout /\ (input # "none" \/ (p.armed /\ n.remote = p.remote))
    /\ n.armed => n.knew # 0 \/ n.peer.boot = 0
    /\ (p.armed /\ p.knew # 0 => p.knew = p.pub.peer) =>
          (n.armed /\ n.knew # 0 => n.knew = n.pub.peer)
    /\ n.control.run =>
          /\ n.armed /\ n.peer.boot # 0 /\ n.control.clear = 0
          /\ n.control.source = n.remote /\ n.control.at = 0
          /\ n.control.receiver = n.peer.boot /\ n.control.knew = n.knew
          /\ n.pub.peer = n.peer.boot
    /\ n.control.clear # 0 => n.control.clear = n.clear_id /\ n.control.receiver = n.pub.clear_peer
    /\ n.pub.last_clear = n.clear_id /\ n.clear_id \in {p.clear_id, p.clear_id + 1}
    /\ n.pub.clear_peer = IF n.clear_id = p.pub.last_clear THEN p.pub.clear_peer
                          ELSE IF p.online THEN p.peer.boot ELSE 0
    /\ \/ n.command = p.command /\ n.request = p.request
       \/ (n.command.move => n.command.knew = n.bound) /\ (n.request.follow => n.request.knew = n.bound)

LEMMA RoundFacts ==
    ASSUME profile \in Profiles, NEW p \in GimbalBoards, p.online => p.peer.boot # 0,
           NEW input \in Inputs, NEW produces \in BOOLEAN, produces => MayProduce(p)
    PROVE  LET n == Rested(IF produces THEN Produced(Published(Gated(p, input)))
                           ELSE Published(Gated(p, input)))
           IN  n \in GimbalBoards /\ RoundFrom(n, p, input)
  <1> DEFINE g == Gated(p, input)
             u == Published(g)
             q == IF produces THEN Produced(u) ELSE u
             n == Rested(q)
  <1>1. /\ g \in GimbalBoards
        /\ g.remote = IF input = "none" THEN p.remote ELSE 0
        /\ g.armed => g.remote <= Timeout
        /\ g.armed => \/ p.armed /\ g.knew = p.knew
                      \/ input # "none" /\ (g.knew = p.peer.boot \/ (g.knew = p.knew /\ p.armed))
        /\ g.clear_id \in {p.clear_id, p.clear_id + 1}
    BY GatedFacts
  <1>2. /\ g.boot = p.boot /\ g.peer = p.peer /\ g.bound = p.bound /\ g.online = p.online
        /\ g.baseline = p.baseline /\ g.big_yaw_baseline = p.big_yaw_baseline
        /\ g.pub = p.pub
        /\ g.control = p.control /\ g.command = p.command /\ g.request = p.request
    BY GatedFacts
  <1> HIDE DEF g
  <1>3. g.online => g.peer.boot # 0
    BY <1>2
  <1>4. /\ u \in GimbalBoards
        /\ u.armed = (g.armed /\ ~Revoked(g))
        /\ u.knew = IF g.knew = 0 THEN g.peer.boot ELSE g.knew
        /\ u.pub.peer = IF g.peer.boot # 0 THEN g.peer.boot ELSE g.pub.peer
        /\ u.pub.last_clear = g.clear_id /\ u.pub.clear_peer = ClearPeer(g)
    BY <1>1, <1>3, PublishedFacts
  <1>5. /\ u.control.run =>
              /\ u.armed /\ g.peer.boot # 0 /\ u.control.clear = 0
              /\ u.control.source = g.remote /\ u.control.at = 0
              /\ u.control.receiver = g.peer.boot /\ u.control.knew = u.knew
        /\ u.control.clear # 0 =>
              u.control.clear = g.clear_id /\ u.control.receiver = ClearPeer(g)
    BY <1>1, <1>3, PublishedFacts
  <1>6. /\ u.boot = g.boot /\ u.peer = g.peer /\ u.bound = g.bound /\ u.online = g.online
        /\ u.baseline = g.baseline /\ u.big_yaw_baseline = g.big_yaw_baseline
        /\ u.remote = g.remote /\ u.clear_id = g.clear_id /\ u.clear_at = g.clear_at
        /\ u.command = g.command /\ u.request = g.request
    BY <1>1, <1>3, PublishedFacts
  <1>7. produces => MayProduce(u)
    BY <1>2, <1>6 DEF MayProduce
  <1>8. ClearPeer(g) = IF g.clear_id = p.pub.last_clear THEN p.pub.clear_peer
                       ELSE IF p.online THEN p.peer.boot ELSE 0
    BY <1>2 DEF ClearPeer
  <1>9. ~Revoked(g) => (p.pub.peer # 0 /\ p.peer.boot # 0 => p.peer.boot = p.pub.peer)
    BY <1>2 DEF Revoked
  <1> HIDE DEF u
  <1>10. /\ q \in GimbalBoards
         /\ \/ q.command = u.command /\ q.request = u.request
            \/ (q.command.move => q.command.knew = u.bound) /\ (q.request.follow => q.request.knew = u.bound)
    BY <1>4, <1>7, ProducedFacts
  <1>11. /\ q.boot = u.boot /\ q.peer = u.peer /\ q.bound = u.bound /\ q.online = u.online
         /\ q.baseline = u.baseline /\ q.big_yaw_baseline = u.big_yaw_baseline
         /\ q.remote = u.remote /\ q.armed = u.armed /\ q.knew = u.knew
         /\ q.clear_id = u.clear_id /\ q.clear_at = u.clear_at /\ q.pub = u.pub
         /\ q.control = u.control
    BY <1>4, <1>7, ProducedFacts
  <1> HIDE DEF q
  <1>12. /\ n \in GimbalBoards
         /\ n.armed = q.armed /\ (q.armed => n.remote = q.remote /\ n.knew = q.knew)
         /\ n.boot = q.boot /\ n.peer = q.peer /\ n.bound = q.bound /\ n.online = q.online
         /\ n.baseline = q.baseline /\ n.big_yaw_baseline = q.big_yaw_baseline
         /\ n.clear_id = q.clear_id /\ n.clear_at = q.clear_at /\ n.pub = q.pub
         /\ n.control = q.control /\ n.command = q.command /\ n.request = q.request
    BY <1>10, RestedFacts
  <1>13. n = Rested(IF produces THEN Produced(Published(Gated(p, input)))
                    ELSE Published(Gated(p, input)))
    BY DEF q, u, g
  <1> HIDE DEF n
  <1>14. n.armed => n.remote = g.remote /\ n.knew = u.knew /\ g.armed /\ ~Revoked(g)
    BY <1>4, <1>6, <1>11, <1>12
  <1>15. n.pub = u.pub /\ n.control = u.control /\ n.peer = p.peer /\ n.clear_id = g.clear_id
    BY <1>2, <1>6, <1>11, <1>12
  <1>16. /\ n.boot = p.boot /\ n.peer = p.peer /\ n.bound = p.bound /\ n.online = p.online
         /\ n.baseline = p.baseline /\ n.big_yaw_baseline = p.big_yaw_baseline
    BY <1>2, <1>6, <1>11, <1>12
  <1>17. n.armed => n.remote <= Timeout /\ (input # "none" \/ (p.armed /\ n.remote = p.remote))
    BY <1>1, <1>14
  <1>18. n.armed => n.knew # 0 \/ n.peer.boot = 0
    BY <1>2, <1>4, <1>14, <1>15
  <1>19. (p.armed /\ p.knew # 0 => p.knew = p.pub.peer) =>
             (n.armed /\ n.knew # 0 => n.knew = n.pub.peer)
    BY <1>1, <1>2, <1>4, <1>9, <1>14, <1>15
  <1>20. n.control.run =>
          /\ n.armed /\ n.peer.boot # 0 /\ n.control.clear = 0
          /\ n.control.source = n.remote /\ n.control.at = 0
          /\ n.control.receiver = n.peer.boot /\ n.control.knew = n.knew
          /\ n.pub.peer = n.peer.boot
    BY <1>2, <1>4, <1>5, <1>11, <1>12, <1>14, <1>15
  <1>21. n.control.clear # 0 => n.control.clear = n.clear_id /\ n.control.receiver = n.pub.clear_peer
    BY <1>4, <1>5, <1>15
  <1>22. n.pub.last_clear = n.clear_id /\ n.clear_id \in {p.clear_id, p.clear_id + 1}
    BY <1>1, <1>4, <1>15
  <1>23. n.pub.clear_peer = IF n.clear_id = p.pub.last_clear THEN p.pub.clear_peer
                            ELSE IF p.online THEN p.peer.boot ELSE 0
    BY <1>4, <1>8, <1>15
  <1>24. \/ n.command = p.command /\ n.request = p.request
         \/ (n.command.move => n.command.knew = n.bound) /\ (n.request.follow => n.request.knew = n.bound)
    BY <1>2, <1>6, <1>10, <1>11, <1>12
  <1>25. RoundFrom(n, p, input)
    BY <1>16, <1>17, <1>18, <1>19, <1>20, <1>21, <1>22, <1>23, <1>24 DEF RoundFrom
  <1> QED
    BY <1>12, <1>13, <1>25

(* One round of the gimbal, with the board as its poll left it.            *)
LEMMA LoopFacts ==
    ASSUME TypesInv, FitsInv, NEW input \in Inputs, NEW produces \in BOOLEAN, NEW hears \in BOOLEAN,
           GimbalLoop(input, produces, hears)
    PROVE  \E p \in GimbalBoards :
             /\ PolledFrom(p)
             /\ gimbal' \in GimbalBoards /\ RoundFrom(gimbal', p, input)
             /\ downlink' = (IF downlink = Silence THEN DownBatch(p) ELSE downlink)
             /\ unheard' = (IF gimbal'.armed /\ input # "none" THEN 0 ELSE unheard)
             /\ turn = "gimbal" /\ turn' = "chassis"
             /\ UNCHANGED <<profile, chassis, obeyed>>
  <1> DEFINE heard == IF hears THEN [gimbal EXCEPT !.peer = [boot |-> chassis.boot, at |-> 0]]
                      ELSE gimbal
             p == Contact(heard)
             n == Rested(IF produces THEN Produced(Published(Gated(p, input)))
                         ELSE Published(Gated(p, input)))
  <1>1. profile \in Profiles /\ gimbal \in GimbalBoards /\ chassis.boot \in 1 .. MaxBoot
    BY DEF TypesInv, ChassisBoards
  <1>2. /\ heard \in GimbalBoards
        /\ heard.peer.boot = gimbal.peer.boot \/ heard.peer.boot = chassis.boot
        /\ heard.boot = gimbal.boot /\ heard.bound = gimbal.bound
        /\ heard.baseline = gimbal.baseline /\ heard.big_yaw_baseline = gimbal.big_yaw_baseline
        /\ heard.remote = gimbal.remote /\ heard.armed = gimbal.armed /\ heard.knew = gimbal.knew
        /\ heard.clear_id = gimbal.clear_id /\ heard.pub = gimbal.pub
        /\ heard.control = gimbal.control /\ heard.command = gimbal.command
        /\ heard.request = gimbal.request
    <2>1. CASE hears
      BY <1>1, <2>1, HeardFacts
    <2>2. CASE ~hears
      BY <1>1, <2>2
    <2> QED
      BY <2>1, <2>2
  <1>3. /\ gimbal' = n
        /\ downlink' = (IF downlink = Silence THEN DownBatch(p) ELSE downlink)
        /\ unheard' = (IF n.armed /\ input # "none" THEN 0 ELSE unheard)
        /\ produces => MayProduce(gimbal)
        /\ turn = "gimbal" /\ turn' = "chassis"
        /\ UNCHANGED <<profile, chassis, obeyed>>
    BY DEF GimbalLoop
  <1> HIDE DEF heard
  <1>4. /\ p \in GimbalBoards
        /\ p.online => p.peer.boot # 0
        /\ \/ p.bound = heard.peer.boot
              /\ p.baseline = heard.command.seq /\ p.big_yaw_baseline = heard.request.seq
           \/ p.bound = heard.bound
              /\ p.baseline = heard.baseline /\ p.big_yaw_baseline = heard.big_yaw_baseline
        /\ p.boot = heard.boot /\ p.peer = heard.peer
        /\ p.remote = heard.remote /\ p.armed = heard.armed /\ p.knew = heard.knew
        /\ p.clear_id = heard.clear_id /\ p.pub = heard.pub
        /\ p.control = heard.control /\ p.command = heard.command /\ p.request = heard.request
    BY <1>1, <1>2, ContactFacts
  <1> HIDE DEF p
  <1>5. PolledFrom(p)
    BY <1>2, <1>4 DEF PolledFrom
  <1>6. produces => MayProduce(p)
    BY <1>2, <1>3, <1>4 DEF MayProduce
  <1>7. n \in GimbalBoards /\ RoundFrom(n, p, input)
    BY <1>1, <1>4, <1>6, RoundFacts
  <1> HIDE DEF n
  <1> QED
    BY <1>3, <1>4, <1>5, <1>7

(* What a batch of the gimbal holds.  A grant is encoded only within its   *)
(* age and for the peer it was given for, and motion only above the        *)
(* baselines.                                                              *)
LEMMA BatchFacts ==
    ASSUME profile \in Profiles, NEW g \in GimbalBoards, ~(g.control.run /\ g.control.clear # 0)
    PROVE  LET fs == DownBatch(g).frames
           IN  /\ DownBatch(g).age = 0 /\ Frames(fs)
               /\ "control" \in DOMAIN fs =>
                     /\ fs["control"].run =>
                           /\ g.control.run
                           /\ fs["control"].source = g.control.source + g.control.at
                           /\ fs["control"].source <= Timeout
                           /\ fs["control"].receiver = g.control.receiver
                           /\ fs["control"].knew = g.control.knew
                     /\ fs["control"].clear # 0 =>
                           /\ fs["control"].clear = g.control.clear
                           /\ fs["control"].sender = g.boot
                           /\ fs["control"].receiver = g.control.receiver
                     /\ fs["control"].receiver \in {0, g.bound}
               /\ "command" \in DOMAIN fs =>
                     (fs["command"].move =>
                        /\ g.command.move /\ g.command.seq > g.baseline
                        /\ fs["command"].receiver = g.bound
                        /\ fs["command"].knew = g.command.knew)
               /\ "request" \in DOMAIN fs =>
                     (fs["request"].follow =>
                        /\ g.request.follow /\ g.request.seq > g.big_yaw_baseline
                        /\ fs["request"].receiver = g.bound
                        /\ fs["request"].knew = g.request.knew)
  <1> DEFINE fs == DownBatch(g).frames
             con == EncodedControl(g)
             com == [g.command EXCEPT !.receiver = g.bound]
             req == EncodedRequest(g)
  <1>1. /\ g.control \in Controls /\ g.command \in Commands /\ g.request \in Requests
        /\ g.boot \in 1 .. MaxBoot /\ g.bound \in KnownBoots /\ g.boot \in KnownBoots
    BY Bounds DEF GimbalBoards, KnownBoots
  <1>2. /\ DownBatch(g).age = 0
        /\ "heartbeat" \in DOMAIN fs => fs["heartbeat"] = g.boot
        /\ "control" \in DOMAIN fs => fs["control"] = Control(con)
        /\ "command" \in DOMAIN fs => fs["command"] = Command(com) /\ CommandIsSent(g)
        /\ "request" \in DOMAIN fs => fs["request"] = Request(req)
    BY DEF DownBatch
  <1>3. /\ con \in Controls /\ ~(con.run /\ con.clear # 0)
        /\ con.run => /\ g.control.run /\ con.source = g.control.source + g.control.at
                      /\ con.source <= Timeout /\ g.control.receiver = g.bound
        /\ con.clear # 0 => con.clear = g.control.clear /\ g.control.receiver = g.bound
        /\ con.sender = g.boot /\ con.receiver = g.bound /\ con.knew = g.control.knew
    <2> DEFINE source == AddAge(g.control.source, g.control.at)
               aged == AddAge(g.control.clear_age, g.control.at)
               dead == source > Timeout \/ g.control.receiver # g.bound
               run == g.control.run /\ ~dead
               src == IF dead THEN Old ELSE source
               clr == IF dead \/ aged > Timeout THEN 0 ELSE g.control.clear
               age == IF g.control.clear = 0 \/ aged > Timeout THEN Old ELSE aged
               v == [g.control EXCEPT !.run = run, !.source = src, !.clear = clr,
                                      !.clear_age = age, !.sender = g.boot, !.receiver = g.bound]
    <2>1. /\ g.control.source \in Ages /\ g.control.at \in Ages /\ g.control.clear_age \in Ages
          /\ g.control.clear \in 0 .. MaxClear /\ g.control.run \in BOOLEAN
      BY <1>1 DEF Controls
    <2>2. source \in Ages /\ aged \in Ages
      BY <2>1, AddAgeFacts
    <2>3. source <= Timeout => source = g.control.source + g.control.at
      BY <2>1, AddAgeFacts
    <2>4. ~dead => source <= Timeout /\ g.control.receiver = g.bound
      BY <2>2, Bounds DEF Ages
    <2> HIDE DEF source, aged
    <2>5. con = v
      BY <1>1 DEF EncodedControl, source, aged, Controls
    <2>6. run \in BOOLEAN /\ src \in Ages /\ clr \in 0 .. MaxClear /\ age \in Ages
      BY <2>1, <2>2, Bounds
    <2>7. /\ run => /\ g.control.run /\ src = g.control.source + g.control.at /\ src <= Timeout
                    /\ ~dead
          /\ clr # 0 => clr = g.control.clear /\ ~dead
      BY <2>3, <2>4
    <2> HIDE DEF run, src, clr, age, dead
    <2>8. /\ v \in Controls /\ v.run = run /\ v.source = src /\ v.clear = clr
          /\ v.sender = g.boot /\ v.receiver = g.bound /\ v.knew = g.control.knew
      BY <1>1, <2>6 DEF Controls
    <2> HIDE DEF v
    <2> QED
      BY <2>4, <2>5, <2>7, <2>8
  <1>4. com \in Commands /\ com.move = g.command.move /\ com.receiver = g.bound
        /\ com.knew = g.command.knew
    BY <1>1 DEF Commands
  <1>5. CommandIsSent(g) => (g.command.move => g.command.seq > g.baseline)
    BY DEF CommandIsSent
  <1>6. /\ req \in Requests
        /\ req.follow => g.request.follow /\ g.request.seq > g.big_yaw_baseline
        /\ req.receiver = g.bound /\ req.knew = g.request.knew
    <2> DEFINE authorized == /\ g.online /\ g.control.run /\ g.control.receiver = g.bound
                             /\ ForwardedFresh(g.control.at, g.control.source)
               current    == /\ ForwardedFresh(g.request.at, g.request.source)
                             /\ g.request.seq > g.big_yaw_baseline
               follow == g.request.follow /\ authorized /\ current
               src == AddAge(g.request.source, g.request.at)
               v == [g.request EXCEPT !.follow = follow, !.receiver = g.bound, !.source = src]
    <2>1. req = v
      BY <1>1 DEF EncodedRequest, Requests
    <2>2. g.request.source \in Ages /\ g.request.at \in Ages
      BY <1>1 DEF Requests
    <2>3. src \in Ages
      BY <2>2, AddAgeFacts
    <2>4. follow \in BOOLEAN /\ (follow => g.request.follow /\ g.request.seq > g.big_yaw_baseline)
      BY <1>1 DEF Requests, ForwardedFresh
    <2> HIDE DEF follow, src
    <2>5. v \in Requests /\ v.follow = follow /\ v.receiver = g.bound /\ v.knew = g.request.knew
      BY <1>1, <2>3, <2>4 DEF Requests
    <2> HIDE DEF v
    <2> QED
      BY <2>1, <2>4, <2>5
  <1> HIDE DEF con, com, req
  <1>7. /\ Control(con) \in Controls
        /\ Control(con) = con \/ Control(con) = NoControl
        /\ Command(com) \in Commands
        /\ Command(com).move => Command(com) = com
        /\ Request(req) \in Requests
        /\ Request(req).follow => Request(req) = req
    <2>1. /\ Control(con) \in Controls /\ Command(com) \in Commands /\ Request(req) \in Requests
          /\ Command(com).move => Command(com) = com
          /\ Request(req).follow => Request(req) = req
      BY <1>3, <1>4, <1>6, Kept
    <2>2. Control(con) = con \/ Control(con) = NoControl
      BY DEF Control
    <2> QED
      BY <2>1, <2>2
  <1>8. ~NoControl.run /\ NoControl.clear = 0 /\ NoControl.receiver = 0
    BY DEF NoControl
  <1>9. ~(Control(con).run /\ Control(con).clear # 0)
    BY <1>3, <1>7, <1>8
  <1> HIDE DEF fs
  <1>10. Frames(fs)
    BY <1>1, <1>2, <1>7, <1>9 DEF Frames
  <1>11. "control" \in DOMAIN fs =>
            /\ fs["control"].run =>
                  /\ g.control.run
                  /\ fs["control"].source = g.control.source + g.control.at
                  /\ fs["control"].source <= Timeout
                  /\ fs["control"].receiver = g.control.receiver
                  /\ fs["control"].knew = g.control.knew
            /\ fs["control"].clear # 0 =>
                  /\ fs["control"].clear = g.control.clear
                  /\ fs["control"].sender = g.boot
                  /\ fs["control"].receiver = g.control.receiver
            /\ fs["control"].receiver \in {0, g.bound}
    BY <1>2, <1>3, <1>7, <1>8
  <1>12. /\ "command" \in DOMAIN fs =>
                (fs["command"].move =>
                   /\ g.command.move /\ g.command.seq > g.baseline
                   /\ fs["command"].receiver = g.bound
                   /\ fs["command"].knew = g.command.knew)
    BY <1>2, <1>4, <1>5, <1>7
  <1>13. "request" \in DOMAIN fs =>
                (fs["request"].follow =>
                   /\ g.request.follow /\ g.request.seq > g.big_yaw_baseline
                   /\ fs["request"].receiver = g.bound
                   /\ fs["request"].knew = g.request.knew)
    BY <1>2, <1>6, <1>7
  <1> QED
    BY <1>2, <1>10, <1>11, <1>12, <1>13 DEF fs

-----------------------------------------------------------------------------
(* What the parts of the chassis' round do to the board.                   *)

LEMMA HeartbeatFacts ==
    ASSUME profile \in Profiles, NEW c \in ChassisBoards, NEW sender \in 1 .. MaxBoot
    PROVE  LET n == AcceptHeartbeat(c, sender)
           IN  /\ n \in ChassisBoards /\ n.peer.boot = sender
               /\ n.boot = c.boot /\ n.online = c.online /\ n.cleared = c.cleared
               /\ \/ n.control = c.control /\ n.command = c.command /\ n.request = c.request
                  \/ /\ n.control = NoControl /\ n.command = NoCommand /\ n.request = NoRequest
                     /\ n.peer.boot # c.peer.boot
  <1>1. c.peer \in Peers /\ sender \in KnownBoots /\ sender # 0 /\ 0 \in Ages
    BY Bounds DEF ChassisBoards, KnownBoots
  <1>2. CASE c.peer.boot = sender
    <2> DEFINE q == [c.peer EXCEPT !.at = 0]
               n == [c EXCEPT !.peer = q]
    <2>1. AcceptHeartbeat(c, sender) = n
      BY <1>2 DEF AcceptHeartbeat
    <2>2. q \in Peers /\ q.boot = sender
      BY <1>1, <1>2 DEF Peers
    <2> HIDE DEF q
    <2>3. n \in ChassisBoards /\ n.peer = q /\ n.boot = c.boot /\ n.online = c.online
          /\ n.cleared = c.cleared
          /\ n.control = c.control /\ n.command = c.command /\ n.request = c.request
      BY <2>2 DEF ChassisBoards
    <2> HIDE DEF n
    <2> QED
      BY <2>1, <2>2, <2>3
  <1>3. CASE c.peer.boot # sender
    <2> DEFINE q == [boot |-> sender, at |-> 0]
               n == [c EXCEPT !.peer = q, !.control = NoControl, !.command = NoCommand,
                              !.request = NoRequest]
    <2>1. AcceptHeartbeat(c, sender) = n
      BY <1>3 DEF AcceptHeartbeat
    <2>2. q \in Peers /\ q.boot = sender
      BY <1>1 DEF Peers
    <2>3. NoControl \in Controls /\ NoCommand \in Commands /\ NoRequest \in Requests
      BY Nothing
    <2> HIDE DEF q
    <2>4. n \in ChassisBoards /\ n.peer = q /\ n.boot = c.boot /\ n.online = c.online
          /\ n.cleared = c.cleared
          /\ n.control = NoControl /\ n.command = NoCommand /\ n.request = NoRequest
      BY <2>2, <2>3 DEF ChassisBoards
    <2> HIDE DEF n
    <2> QED
      BY <1>3, <2>1, <2>2, <2>4
  <1> QED
    BY <1>2, <1>3

LEMMA ControlFacts ==
    ASSUME profile \in Profiles, NEW c \in ChassisBoards, NEW f \in Controls
    PROVE  LET n == AcceptControl(c, f)
           IN  /\ n \in ChassisBoards
               /\ n.boot = c.boot /\ n.peer = c.peer /\ n.online = c.online /\ n.cleared = c.cleared
               /\ n.command = c.command /\ n.request = c.request
               /\ n.control = c.control \/ n.control = [f EXCEPT !.at = 0]
  <1> DEFINE v == [f EXCEPT !.at = 0]
             n == [c EXCEPT !.control = v]
  <1>1. v \in Controls
    BY Bounds DEF Controls
  <1>2. AcceptControl(c, f) = IF f.sender = c.peer.boot THEN n ELSE c
    BY DEF AcceptControl
  <1> HIDE DEF v
  <1>3. /\ n \in ChassisBoards
        /\ n.boot = c.boot /\ n.peer = c.peer /\ n.online = c.online /\ n.cleared = c.cleared
        /\ n.command = c.command /\ n.request = c.request /\ n.control = v
    BY <1>1 DEF ChassisBoards
  <1> HIDE DEF n
  <1> QED
    BY <1>2, <1>3 DEF v

LEMMA CommandFacts ==
    ASSUME profile \in Profiles, NEW c \in ChassisBoards, NEW f \in Commands
    PROVE  LET n == AcceptCommand(c, f)
           IN  /\ n \in ChassisBoards
               /\ n.boot = c.boot /\ n.peer = c.peer /\ n.online = c.online /\ n.cleared = c.cleared
               /\ n.control = c.control /\ n.request = c.request
               /\ n.command = c.command \/ n.command = [f EXCEPT !.at = 0]
  <1> DEFINE v == [f EXCEPT !.at = 0]
             n == [c EXCEPT !.command = v]
  <1>1. v \in Commands
    BY Bounds DEF Commands
  <1>2. AcceptCommand(c, f) = n \/ AcceptCommand(c, f) = c
    BY DEF AcceptCommand
  <1> HIDE DEF v
  <1>3. /\ n \in ChassisBoards
        /\ n.boot = c.boot /\ n.peer = c.peer /\ n.online = c.online /\ n.cleared = c.cleared
        /\ n.control = c.control /\ n.request = c.request /\ n.command = v
    BY <1>1 DEF ChassisBoards
  <1> HIDE DEF n
  <1> QED
    BY <1>2, <1>3 DEF v

LEMMA RequestFacts ==
    ASSUME profile \in Profiles, NEW c \in ChassisBoards, NEW f \in Requests
    PROVE  LET n == AcceptRequest(c, f)
           IN  /\ n \in ChassisBoards
               /\ n.boot = c.boot /\ n.peer = c.peer /\ n.online = c.online /\ n.cleared = c.cleared
               /\ n.control = c.control /\ n.command = c.command
               /\ \/ n.request = c.request \/ ~n.request.follow
                  \/ /\ n.request = [f EXCEPT !.at = 0]
                     /\ c.request.seq = 0 \/ n.request.seq # c.request.seq
  <1> DEFINE v == [f EXCEPT !.at = 0]
             w == Request(f)
             n == [c EXCEPT !.request = v]
             m == [c EXCEPT !.request = w]
             newer == c.request.seq = 0 \/ f.seq > c.request.seq
             same == c.request.seq # 0 /\ f.seq = c.request.seq /\ ~f.follow
  <1>1. f.seq \in Nat /\ c.request.seq \in Nat
    BY Bounds DEF Requests, ChassisBoards
  <1>2. v \in Requests /\ v.seq = f.seq
    BY Bounds DEF Requests
  <1>3. w \in Requests /\ w.follow = f.follow
    BY Kept
  <1>4. newer => ~same
    BY <1>1
  <1>5. AcceptRequest(c, f) = CASE newer -> n [] same -> m [] OTHER -> c
    BY DEF AcceptRequest
  <1>6. newer => c.request.seq = 0 \/ f.seq # c.request.seq
    BY <1>1
  <1>7. same => ~f.follow
    OBVIOUS
  <1> HIDE DEF v, w, newer, same
  <1>8. /\ n \in ChassisBoards
        /\ n.boot = c.boot /\ n.peer = c.peer /\ n.online = c.online /\ n.cleared = c.cleared
        /\ n.control = c.control /\ n.command = c.command /\ n.request = v
    BY <1>2 DEF ChassisBoards
  <1>9. /\ m \in ChassisBoards
        /\ m.boot = c.boot /\ m.peer = c.peer /\ m.online = c.online /\ m.cleared = c.cleared
        /\ m.control = c.control /\ m.command = c.command /\ m.request = w
    BY <1>3 DEF ChassisBoards
  <1> HIDE DEF n, m
  <1>10. \/ newer /\ AcceptRequest(c, f) = n
         \/ same /\ AcceptRequest(c, f) = m
         \/ AcceptRequest(c, f) = c
    BY <1>4, <1>5
  <1>11. CASE newer /\ AcceptRequest(c, f) = n
    <2>1. n.request = [f EXCEPT !.at = 0] /\ (c.request.seq = 0 \/ n.request.seq # c.request.seq)
      BY <1>2, <1>6, <1>8, <1>11 DEF v
    <2> QED
      BY <1>8, <1>11, <2>1
  <1>12. CASE same /\ AcceptRequest(c, f) = m
    BY <1>3, <1>7, <1>9, <1>12
  <1>13. CASE AcceptRequest(c, f) = c
    BY <1>13
  <1> QED
    BY <1>10, <1>11, <1>12, <1>13

(* What the chassis board keeps is what it kept, a frame of the batch, or  *)
(* something that permits nothing.                                         *)
CarriedControl(n, c, fs) ==
    \/ n.control = c.control
    \/ ~n.control.run /\ n.control.clear = 0
    \/ "control" \in DOMAIN fs /\ n.control = [fs["control"] EXCEPT !.at = 0]

CarriedCommand(n, c, fs) ==
    \/ n.command = c.command
    \/ ~n.command.move
    \/ "command" \in DOMAIN fs /\ n.command = [fs["command"] EXCEPT !.at = 0]

CarriedRequest(n, c, fs) ==
    /\ \/ n.request = c.request
       \/ ~n.request.follow
       \/ "request" \in DOMAIN fs /\ n.request = [fs["request"] EXCEPT !.at = 0]
    /\ /\ n.request.seq = c.request.seq /\ c.request.seq # 0
       /\ n.peer.boot = c.peer.boot
       => (n.request.follow => c.request.follow)

Carried(n, c, fs) ==
    /\ n.boot = c.boot /\ n.cleared = c.cleared
    /\ c.peer.boot # 0 => n.peer.boot # 0
    /\ CarriedControl(n, c, fs) /\ CarriedCommand(n, c, fs) /\ CarriedRequest(n, c, fs)

LEMMA AcceptedFacts ==
    ASSUME profile \in Profiles, NEW c \in ChassisBoards, NEW fs, Frames(fs),
           NEW kept \in SUBSET DOMAIN fs
    PROVE  LET n == Accepted(c, kept, fs)
           IN  n \in ChassisBoards /\ n.online = c.online /\ Carried(n, c, fs)
  <1> DEFINE c1 == IF "heartbeat" \in kept THEN AcceptHeartbeat(c, fs["heartbeat"]) ELSE c
             c2 == IF "control" \in kept /\ c1.peer.boot # 0
                   THEN AcceptControl(c1, fs["control"]) ELSE c1
             c3 == IF "command" \in kept /\ c1.peer.boot # 0
                   THEN AcceptCommand(c2, fs["command"]) ELSE c2
             n == IF "request" \in kept /\ c1.peer.boot # 0
                  THEN AcceptRequest(c3, fs["request"]) ELSE c3
  <1>1. Accepted(c, kept, fs) = n
    BY DEF Accepted
  <1>2. /\ "heartbeat" \in kept => fs["heartbeat"] \in 1 .. MaxBoot
        /\ "control" \in kept => "control" \in DOMAIN fs /\ fs["control"] \in Controls
        /\ "command" \in kept => "command" \in DOMAIN fs /\ fs["command"] \in Commands
        /\ "request" \in kept => "request" \in DOMAIN fs /\ fs["request"] \in Requests
    BY DEF Frames
  <1>3. /\ c1 \in ChassisBoards
        /\ c1.boot = c.boot /\ c1.online = c.online /\ c1.cleared = c.cleared
        /\ c.peer.boot # 0 => c1.peer.boot # 0
        /\ \/ c1.control = c.control /\ c1.command = c.command /\ c1.request = c.request
           \/ /\ c1.control = NoControl /\ c1.command = NoCommand /\ c1.request = NoRequest
              /\ c1.peer.boot # c.peer.boot
    <2>1. CASE "heartbeat" \in kept
      <3>1. c1 = AcceptHeartbeat(c, fs["heartbeat"]) /\ fs["heartbeat"] \in 1 .. MaxBoot
        BY <1>2, <2>1
      <3>2. fs["heartbeat"] # 0
        BY <3>1, Bounds
      <3> HIDE DEF c1
      <3> QED
        BY <3>1, <3>2, HeartbeatFacts
    <2>2. CASE "heartbeat" \notin kept
      BY <2>2
    <2> QED
      BY <2>1, <2>2
  <1> HIDE DEF c1
  <1>4. /\ c2 \in ChassisBoards
        /\ c2.boot = c1.boot /\ c2.peer = c1.peer /\ c2.online = c1.online /\ c2.cleared = c1.cleared
        /\ c2.command = c1.command /\ c2.request = c1.request
        /\ \/ c2.control = c1.control
           \/ "control" \in DOMAIN fs /\ c2.control = [fs["control"] EXCEPT !.at = 0]
    BY <1>2, <1>3, ControlFacts
  <1> HIDE DEF c2
  <1>5. /\ c3 \in ChassisBoards
        /\ c3.boot = c2.boot /\ c3.peer = c2.peer /\ c3.online = c2.online /\ c3.cleared = c2.cleared
        /\ c3.control = c2.control /\ c3.request = c2.request
        /\ \/ c3.command = c2.command
           \/ "command" \in DOMAIN fs /\ c3.command = [fs["command"] EXCEPT !.at = 0]
    BY <1>2, <1>4, CommandFacts
  <1> HIDE DEF c3
  <1>6. /\ n \in ChassisBoards
        /\ n.boot = c3.boot /\ n.peer = c3.peer /\ n.online = c3.online /\ n.cleared = c3.cleared
        /\ n.control = c3.control /\ n.command = c3.command
        /\ \/ n.request = c3.request \/ ~n.request.follow
           \/ /\ "request" \in DOMAIN fs /\ n.request = [fs["request"] EXCEPT !.at = 0]
              /\ c3.request.seq = 0 \/ n.request.seq # c3.request.seq
    BY <1>2, <1>5, RequestFacts
  <1> HIDE DEF n
  <1>7. ~NoControl.run /\ NoControl.clear = 0 /\ ~NoCommand.move /\ ~NoRequest.follow
    BY Nothing
  <1>8. CarriedControl(n, c, fs)
    BY <1>3, <1>4, <1>5, <1>6, <1>7 DEF CarriedControl
  <1>9. CarriedCommand(n, c, fs)
    BY <1>3, <1>4, <1>5, <1>6, <1>7 DEF CarriedCommand
  <1>10. CarriedRequest(n, c, fs)
    BY <1>3, <1>4, <1>5, <1>6, <1>7 DEF CarriedRequest
  <1>11. Carried(n, c, fs)
    BY <1>3, <1>4, <1>5, <1>6, <1>8, <1>9, <1>10 DEF Carried
  <1> QED
    BY <1>1, <1>3, <1>4, <1>5, <1>6, <1>11

(* One round of the chassis, with the board as its poll left it.           *)
LEMMA ChassisFacts ==
    ASSUME TypesInv, FitsInv, NEW reads \in Reads(downlink), NEW kept \in Survivors(downlink, reads),
           ChassisLoop(reads, kept)
    PROVE  \E p \in ChassisBoards :
             /\ Carried(p, chassis, downlink.frames)
             /\ p.online => p.peer.boot # 0
             /\ chassis' = (IF Clears(p) THEN [p EXCEPT !.cleared = Event(p.control)] ELSE p)
             /\ obeyed' = (IF Clears(p) THEN obeyed \cup {Event(p.control)} ELSE obeyed)
             /\ downlink' = Silence \/ (downlink' = downlink /\ downlink.age # MaxDelay)
             /\ turn = "chassis" /\ turn' = "tick"
             /\ UNCHANGED <<profile, gimbal, unheard>>
  <1> DEFINE a == IF reads THEN Accepted(chassis, kept, downlink.frames) ELSE chassis
             on == PeerOnline(a)
             lost == [a EXCEPT !.online = FALSE, !.control = NoControl, !.command = NoCommand,
                               !.request = NoRequest]
             same == [a EXCEPT !.online = on]
             p == Invalidated(a)
  <1>1. profile \in Profiles /\ chassis \in ChassisBoards /\ Frames(downlink.frames)
    BY DEF TypesInv
  <1>2. /\ chassis' = (IF Clears(p) THEN [p EXCEPT !.cleared = Event(p.control)] ELSE p)
        /\ obeyed' = (IF Clears(p) THEN obeyed \cup {Event(p.control)} ELSE obeyed)
        /\ downlink' = (IF reads THEN Silence ELSE downlink)
        /\ turn = "chassis" /\ turn' = "tick"
        /\ UNCHANGED <<profile, gimbal, unheard>>
    BY DEF ChassisLoop, Event
  <1>3. a \in ChassisBoards /\ Carried(a, chassis, downlink.frames)
    <2>1. CASE reads
      <3>1. kept \in SUBSET DOMAIN downlink.frames
        BY <2>1 DEF Survivors
      <3> QED
        BY <1>1, <2>1, <3>1, AcceptedFacts
    <2>2. CASE ~reads
      <3>1. Carried(chassis, chassis, downlink.frames)
        BY DEF Carried, CarriedControl, CarriedCommand, CarriedRequest
      <3> QED
        BY <1>1, <2>2, <3>1
    <2> QED
      BY <2>1, <2>2
  <1>4. p = IF a.online /\ ~on THEN lost ELSE same
    BY DEF Invalidated
  <1>5. on \in BOOLEAN /\ (on => a.peer.boot # 0)
    BY DEF PeerOnline
  <1>6. reads = FALSE => downlink = Silence \/ downlink.age # MaxDelay
    BY DEF Reads
  <1>7. reads \in BOOLEAN
    BY DEF Reads
  <1>8. downlink' = Silence \/ (downlink' = downlink /\ downlink.age # MaxDelay)
    BY <1>2, <1>6, <1>7
  <1> HIDE DEF a, on
  <1>9. /\ lost \in ChassisBoards /\ lost.online = FALSE /\ lost.boot = a.boot
        /\ lost.cleared = a.cleared /\ lost.peer = a.peer
        /\ lost.control = NoControl /\ lost.command = NoCommand /\ lost.request = NoRequest
    BY <1>1, <1>3, Nothing DEF ChassisBoards
  <1>10. /\ same \in ChassisBoards /\ same.online = on /\ same.boot = a.boot
         /\ same.cleared = a.cleared /\ same.peer = a.peer
         /\ same.control = a.control /\ same.command = a.command /\ same.request = a.request
    BY <1>3, <1>5 DEF ChassisBoards
  <1>11. ~NoControl.run /\ NoControl.clear = 0 /\ ~NoCommand.move /\ ~NoRequest.follow
    BY <1>1, Nothing
  <1> HIDE DEF lost, same
  <1>12. Carried(lost, chassis, downlink.frames)
    BY <1>3, <1>9, <1>11 DEF Carried, CarriedControl, CarriedCommand, CarriedRequest
  <1>13. Carried(same, chassis, downlink.frames)
    BY <1>3, <1>10 DEF Carried, CarriedControl, CarriedCommand, CarriedRequest
  <1>14. p \in ChassisBoards /\ Carried(p, chassis, downlink.frames)
         /\ (p.online => p.peer.boot # 0)
    BY <1>4, <1>5, <1>9, <1>10, <1>12, <1>13
  <1> HIDE DEF p
  <1> QED
    BY <1>2, <1>8, <1>14

-----------------------------------------------------------------------------
(* Time: the ages grow, and nothing else changes.                          *)

LEMMA AgedValueFacts ==
    ASSUME profile \in Profiles
    PROVE  /\ \A v \in Controls :
                 /\ AgedValue(v) \in Controls /\ AgedValue(v).at = Aged(v.at)
                 /\ AgedValue(v).run = v.run /\ AgedValue(v).clear = v.clear
                 /\ AgedValue(v).source = v.source /\ AgedValue(v).sender = v.sender
                 /\ AgedValue(v).receiver = v.receiver /\ AgedValue(v).knew = v.knew
           /\ \A v \in Commands :
                 /\ AgedValue(v) \in Commands
                 /\ AgedValue(v).seq = v.seq /\ AgedValue(v).move = v.move
                 /\ AgedValue(v).receiver = v.receiver /\ AgedValue(v).knew = v.knew
           /\ \A v \in Requests :
                 /\ AgedValue(v) \in Requests
                 /\ AgedValue(v).seq = v.seq /\ AgedValue(v).follow = v.follow
                 /\ AgedValue(v).receiver = v.receiver /\ AgedValue(v).knew = v.knew
           /\ \A v \in Peers : AgedValue(v) \in Peers /\ AgedValue(v).boot = v.boot
  <1>1. ASSUME NEW v, v.at \in Ages
        PROVE  Aged(v.at) \in Ages
    BY <1>1, AgedFacts
  <1>2. ASSUME NEW v \in Controls
        PROVE  /\ AgedValue(v) \in Controls /\ AgedValue(v).at = Aged(v.at)
               /\ AgedValue(v).run = v.run /\ AgedValue(v).clear = v.clear
               /\ AgedValue(v).source = v.source /\ AgedValue(v).sender = v.sender
               /\ AgedValue(v).receiver = v.receiver /\ AgedValue(v).knew = v.knew
    BY <1>1 DEF AgedValue, Controls
  <1>3. ASSUME NEW v \in Commands
        PROVE  /\ AgedValue(v) \in Commands
               /\ AgedValue(v).seq = v.seq /\ AgedValue(v).move = v.move
               /\ AgedValue(v).receiver = v.receiver /\ AgedValue(v).knew = v.knew
    BY <1>1 DEF AgedValue, Commands
  <1>4. ASSUME NEW v \in Requests
        PROVE  /\ AgedValue(v) \in Requests
               /\ AgedValue(v).seq = v.seq /\ AgedValue(v).follow = v.follow
               /\ AgedValue(v).receiver = v.receiver /\ AgedValue(v).knew = v.knew
    BY <1>1 DEF AgedValue, Requests
  <1>5. ASSUME NEW v \in Peers
        PROVE  AgedValue(v) \in Peers /\ AgedValue(v).boot = v.boot
    BY <1>1 DEF AgedValue, Peers
  <1> QED
    BY <1>2, <1>3, <1>4, <1>5

LEMMA TickFacts ==
    ASSUME TypesInv, Tick
    PROVE  /\ gimbal' \in GimbalBoards /\ chassis' \in ChassisBoards
           /\ gimbal'.remote = Aged(gimbal.remote)
           /\ gimbal'.peer = AgedValue(gimbal.peer) /\ gimbal'.control = AgedValue(gimbal.control)
           /\ gimbal'.command = AgedValue(gimbal.command)
           /\ gimbal'.request = AgedValue(gimbal.request)
           /\ gimbal'.boot = gimbal.boot /\ gimbal'.online = gimbal.online
           /\ gimbal'.bound = gimbal.bound /\ gimbal'.baseline = gimbal.baseline
           /\ gimbal'.big_yaw_baseline = gimbal.big_yaw_baseline
           /\ gimbal'.armed = gimbal.armed /\ gimbal'.knew = gimbal.knew
           /\ gimbal'.clear_id = gimbal.clear_id /\ gimbal'.pub = gimbal.pub
           /\ chassis'.peer = AgedValue(chassis.peer)
           /\ chassis'.control = AgedValue(chassis.control)
           /\ chassis'.command = AgedValue(chassis.command)
           /\ chassis'.request = AgedValue(chassis.request)
           /\ chassis'.boot = chassis.boot /\ chassis'.online = chassis.online
           /\ chassis'.cleared = chassis.cleared
  <1>1. profile \in Profiles /\ gimbal \in GimbalBoards /\ chassis \in ChassisBoards
    BY DEF TypesInv
  <1> DEFINE peer == AgedValue(gimbal.peer)
             control == AgedValue(gimbal.control)
             command == AgedValue(gimbal.command)
             request == AgedValue(gimbal.request)
             remote == Aged(gimbal.remote)
             clear_at == Aged(gimbal.clear_at)
             cpeer == AgedValue(chassis.peer)
             ccontrol == AgedValue(chassis.control)
             ccommand == AgedValue(chassis.command)
             crequest == AgedValue(chassis.request)
             g == [gimbal EXCEPT !.peer = peer, !.remote = remote, !.clear_at = clear_at,
                      !.control = control, !.command = command, !.request = request]
             c == [chassis EXCEPT !.peer = cpeer, !.control = ccontrol, !.command = ccommand,
                      !.request = crequest]
  <1>2. peer \in Peers /\ control \in Controls /\ command \in Commands /\ request \in Requests
    BY <1>1, AgedValueFacts DEF GimbalBoards
  <1>3. cpeer \in Peers /\ ccontrol \in Controls /\ ccommand \in Commands /\ crequest \in Requests
    BY <1>1, AgedValueFacts DEF ChassisBoards
  <1>4. remote \in Ages /\ clear_at \in Ages
    BY <1>1, AgedFacts DEF GimbalBoards
  <1>5. gimbal' = [gimbal EXCEPT !.peer = AgedValue(@), !.remote = Aged(@), !.clear_at = Aged(@),
                      !.control = AgedValue(@), !.command = AgedValue(@), !.request = AgedValue(@)]
    BY DEF Tick
  <1>6. chassis' = [chassis EXCEPT !.peer = AgedValue(@), !.control = AgedValue(@),
                       !.command = AgedValue(@), !.request = AgedValue(@)]
    BY DEF Tick
  <1>7. gimbal' = g
    BY <1>1, <1>5 DEF GimbalBoards
  <1>8. chassis' = c
    BY <1>1, <1>6 DEF ChassisBoards
  <1> DEFINE Same(n) ==
                /\ n.boot = gimbal.boot /\ n.online = gimbal.online
                /\ n.bound = gimbal.bound /\ n.baseline = gimbal.baseline
                /\ n.big_yaw_baseline = gimbal.big_yaw_baseline
                /\ n.armed = gimbal.armed /\ n.knew = gimbal.knew
                /\ n.clear_id = gimbal.clear_id /\ n.pub = gimbal.pub
             SameC(n) ==
                n.boot = chassis.boot /\ n.online = chassis.online /\ n.cleared = chassis.cleared
  <1> HIDE DEF peer, control, command, request, remote, clear_at, cpeer, ccontrol, ccommand, crequest
  <1>9. /\ g \in GimbalBoards /\ g.remote = remote /\ g.peer = peer /\ g.control = control
        /\ g.command = command /\ g.request = request /\ Same(g)
    BY <1>1, <1>2, <1>4 DEF GimbalBoards
  <1>10. /\ c \in ChassisBoards /\ c.peer = cpeer /\ c.control = ccontrol /\ c.command = ccommand
         /\ c.request = crequest /\ SameC(c)
    BY <1>1, <1>3 DEF ChassisBoards
  <1> HIDE DEF g, c
  <1>11. UNCHANGED profile
    BY DEF Tick
  <1> QED
    BY <1>7, <1>8, <1>9, <1>10, <1>11, SameTypes
       DEF peer, control, command, request, remote, cpeer, ccontrol, ccommand, crequest

LEMMA NewBoards ==
    ASSUME profile \in Profiles, NEW b \in 1 .. MaxBoot
    PROVE  /\ NewGimbal(b) \in GimbalBoards /\ NewChassis(b) \in ChassisBoards
           /\ NewGimbal(b).boot = b /\ NewGimbal(b).peer.boot = 0 /\ ~NewGimbal(b).online
           /\ NewGimbal(b).bound = 0 /\ ~NewGimbal(b).armed /\ NewGimbal(b).clear_id = 0
           /\ NewGimbal(b).pub.last_clear = 0 /\ NewGimbal(b).pub.clear_peer = 0
           /\ NewGimbal(b).pub.peer = 0
           /\ ~NewGimbal(b).control.run /\ NewGimbal(b).control.clear = 0
           /\ ~NewGimbal(b).command.move /\ ~NewGimbal(b).request.follow
           /\ NewChassis(b).boot = b /\ NewChassis(b).peer.boot = 0 /\ ~NewChassis(b).online
           /\ ~NewChassis(b).control.run /\ NewChassis(b).control.clear = 0
           /\ ~NewChassis(b).command.move /\ ~NewChassis(b).request.follow
           /\ NewChassis(b).cleared = <<0, 0>>
  <1> DEFINE pub == [peer |-> 0, online |-> FALSE, last_clear |-> 0, clear_peer |-> 0]
  <1>1. /\ NoPeer \in Peers /\ NoControl \in Controls /\ NoCommand \in Commands
        /\ NoRequest \in Requests
        /\ ~NoControl.run /\ NoControl.clear = 0 /\ ~NoCommand.move /\ ~NoRequest.follow
        /\ NoPeer.boot = 0
    BY Nothing
  <1>2. /\ 0 \in KnownBoots /\ 0 \in 0 .. MaxClear /\ 0 \in 0 .. MaxSequence /\ Old \in Ages
    BY Bounds
  <1>3. pub \in Pubs /\ pub.last_clear = 0 /\ pub.clear_peer = 0 /\ pub.peer = 0
    BY <1>2 DEF Pubs
  <1>4. NewGimbal(b) = [boot |-> b, peer |-> NoPeer, online |-> FALSE, bound |-> 0,
           baseline |-> 0, big_yaw_baseline |-> 0,
           remote |-> Old, armed |-> FALSE, knew |-> 0, clear_id |-> 0, clear_at |-> Old,
           pub |-> pub, control |-> NoControl, command |-> NoCommand, request |-> NoRequest]
    BY DEF NewGimbal
  <1>5. <<0, 0>> \in KnownBoots \X (0 .. MaxClear)
    BY <1>2
  <1> HIDE DEF pub
  <1>6. NewGimbal(b) \in GimbalBoards
    BY <1>1, <1>2, <1>3, <1>4 DEF GimbalBoards
  <1>7. NewChassis(b) \in ChassisBoards
    BY <1>1, <1>2, <1>5 DEF ChassisBoards, NewChassis
  <1>8. /\ NewGimbal(b).boot = b /\ NewGimbal(b).peer.boot = 0 /\ ~NewGimbal(b).online
        /\ NewGimbal(b).bound = 0 /\ ~NewGimbal(b).armed /\ NewGimbal(b).clear_id = 0
        /\ NewGimbal(b).pub.last_clear = 0 /\ NewGimbal(b).pub.clear_peer = 0
        /\ NewGimbal(b).pub.peer = 0
        /\ ~NewGimbal(b).control.run /\ NewGimbal(b).control.clear = 0
        /\ ~NewGimbal(b).command.move /\ ~NewGimbal(b).request.follow
    BY <1>1, <1>3, <1>4
  <1>9. /\ NewChassis(b).boot = b /\ NewChassis(b).peer.boot = 0 /\ ~NewChassis(b).online
        /\ ~NewChassis(b).control.run /\ NewChassis(b).control.clear = 0
        /\ ~NewChassis(b).command.move /\ ~NewChassis(b).request.follow
        /\ NewChassis(b).cleared = <<0, 0>>
    BY <1>1 DEF NewChassis
  <1> QED
    BY <1>6, <1>7, <1>8, <1>9

(* Silence is a batch with no frame.                                       *)
LEMMA SilenceFacts ==
    /\ Silence = [age |-> Silence.age, frames |-> Silence.frames]
    /\ Silence.age = 0 /\ Frames(Silence.frames) /\ DOMAIN Silence.frames = {}
  <1>1. Silence.frames = <<>> /\ Silence.age = 0
    BY DEF Silence
  <1>2. DOMAIN <<>> = {}
    OBVIOUS
  <1> QED
    BY <1>1, <1>2 DEF Silence, Frames

-----------------------------------------------------------------------------
(* Type correctness.                                                       *)

LEMMA TypesInit == Init => TypesInv /\ FitsInv
  <1> SUFFICES ASSUME Init PROVE TypesInv /\ FitsInv
    OBVIOUS
  <1>1. profile \in Profiles /\ turn = "gimbal" /\ unheard = LeaseTime + 1 /\ obeyed = {}
        /\ gimbal = NewGimbal(1) /\ chassis = NewChassis(1) /\ downlink = Silence
    BY DEF Init
  <1>2. 1 \in 1 .. MaxBoot /\ LeaseTime + 1 \in 0 .. LeaseTime + 1 /\ 0 \in 0 .. MaxDelay
    BY <1>1, Bounds
  <1>3. TypesInv
    BY <1>1, <1>2, NewBoards, SilenceFacts DEF TypesInv
  <1>4. FitsInv
    BY <1>1, <1>2, NewBoards DEF FitsInv
  <1> QED
    BY <1>3, <1>4

LEMMA TypesStep == TypesInv /\ FitsInv /\ [Next]_vars => TypesInv' /\ FitsInv'
  <1> SUFFICES ASSUME TypesInv, FitsInv, [Next]_vars PROVE TypesInv' /\ FitsInv'
    OBVIOUS
  <1>t. /\ profile \in Profiles /\ turn \in {"gimbal", "chassis", "tick"}
        /\ unheard \in 0 .. LeaseTime + 1 /\ obeyed \subseteq KnownBoots \X (1 .. MaxClear)
        /\ gimbal \in GimbalBoards /\ chassis \in ChassisBoards
        /\ downlink = [age |-> downlink.age, frames |-> downlink.frames]
        /\ downlink.age \in 0 .. MaxDelay /\ Frames(downlink.frames)
    BY DEF TypesInv
  <1>f. /\ gimbal.online => gimbal.peer.boot # 0
        /\ chassis.online => chassis.peer.boot # 0
        /\ ~(gimbal.control.run /\ gimbal.control.clear # 0)
        /\ ~(chassis.control.run /\ chassis.control.clear # 0)
        /\ gimbal.armed => gimbal.knew # 0 \/ gimbal.peer.boot = 0
        /\ turn = "tick" => downlink = Silence \/ downlink.age < MaxDelay
    BY DEF FitsInv
  <1>1. ASSUME NEW input \in Inputs, NEW produces \in BOOLEAN, NEW hears \in BOOLEAN,
               GimbalLoop(input, produces, hears)
        PROVE  TypesInv' /\ FitsInv'
    <2>1. PICK p \in GimbalBoards :
             /\ PolledFrom(p)
             /\ gimbal' \in GimbalBoards /\ RoundFrom(gimbal', p, input)
             /\ downlink' = (IF downlink = Silence THEN DownBatch(p) ELSE downlink)
             /\ unheard' = (IF gimbal'.armed /\ input # "none" THEN 0 ELSE unheard)
             /\ turn = "gimbal" /\ turn' = "chassis"
             /\ UNCHANGED <<profile, chassis, obeyed>>
      BY <1>1, LoopFacts
    <2>2. p.control = gimbal.control /\ (p.online => p.peer.boot # 0)
      BY <2>1 DEF PolledFrom
    <2>3. DownBatch(p).age = 0 /\ Frames(DownBatch(p).frames)
      BY <1>t, <1>f, <2>2, BatchFacts
    <2>4. DownBatch(p) = [age |-> DownBatch(p).age, frames |-> DownBatch(p).frames]
      BY DEF DownBatch
    <2>5. 0 \in 0 .. MaxDelay /\ 0 \in 0 .. LeaseTime + 1
      BY <1>t, Bounds
    <2>6. downlink' = [age |-> downlink'.age, frames |-> downlink'.frames]
          /\ downlink'.age \in 0 .. MaxDelay /\ Frames(downlink'.frames)
      BY <1>t, <2>1, <2>3, <2>4, <2>5
    <2>7. unheard' \in 0 .. LeaseTime + 1
      BY <1>t, <2>1, <2>5
    <2>8. UNCHANGED profile
      BY <2>1
    <2>9. TypesInv'
      BY <1>t, <2>1, <2>6, <2>7, <2>8, SameTypes DEF TypesInv, Frames, KnownBoots
    <2>10. /\ gimbal'.online => gimbal'.peer.boot # 0
           /\ ~(gimbal'.control.run /\ gimbal'.control.clear # 0)
           /\ gimbal'.armed => gimbal'.knew # 0 \/ gimbal'.peer.boot = 0
      BY <2>1, <2>2 DEF RoundFrom
    <2>11. FitsInv'
      BY <1>f, <2>1, <2>10 DEF FitsInv
    <2> QED
      BY <2>9, <2>11
  <1>2. ASSUME NEW reads \in Reads(downlink), NEW kept \in Survivors(downlink, reads),
               ChassisLoop(reads, kept)
        PROVE  TypesInv' /\ FitsInv'
    <2>1. PICK p \in ChassisBoards :
             /\ Carried(p, chassis, downlink.frames)
             /\ p.online => p.peer.boot # 0
             /\ chassis' = (IF Clears(p) THEN [p EXCEPT !.cleared = Event(p.control)] ELSE p)
             /\ obeyed' = (IF Clears(p) THEN obeyed \cup {Event(p.control)} ELSE obeyed)
             /\ downlink' = Silence \/ (downlink' = downlink /\ downlink.age # MaxDelay)
             /\ turn = "chassis" /\ turn' = "tick"
             /\ UNCHANGED <<profile, gimbal, unheard>>
      BY <1>2, ChassisFacts
    <2>2. p.control \in Controls
      BY DEF ChassisBoards
    <2>3. Event(p.control) \in KnownBoots \X (0 .. MaxClear)
      BY <2>2 DEF Event, Controls
    <2>4. Clears(p) => Event(p.control) \in KnownBoots \X (1 .. MaxClear)
      <3>1. Clears(p) => p.control.clear # 0
        BY DEF Clears
      <3>2. p.control.clear # 0 => p.control.clear \in 1 .. MaxClear
        BY <1>t, <2>2, Bounds DEF Controls
      <3> QED
        BY <2>2, <3>1, <3>2 DEF Event, Controls
    <2> DEFINE e == Event(p.control)
               q == [p EXCEPT !.cleared = e]
    <2>5. e \in KnownBoots \X (0 .. MaxClear) /\ (Clears(p) => e \in KnownBoots \X (1 .. MaxClear))
      BY <2>3, <2>4
    <2>6. /\ chassis' = (IF Clears(p) THEN q ELSE p)
          /\ obeyed' = (IF Clears(p) THEN obeyed \cup {e} ELSE obeyed)
      BY <2>1
    <2> HIDE DEF e
    <2>7. q \in ChassisBoards /\ q.online = p.online /\ q.peer = p.peer /\ q.control = p.control
      BY <2>5 DEF ChassisBoards
    <2> HIDE DEF q
    <2>8. /\ chassis' \in ChassisBoards
          /\ chassis'.online => chassis'.peer.boot # 0
          /\ chassis'.control = p.control
          /\ obeyed' \subseteq KnownBoots \X (1 .. MaxClear)
      BY <1>t, <2>1, <2>5, <2>6, <2>7
    <2>9. ~(p.control.run /\ p.control.clear # 0)
      <3>1. CarriedControl(p, chassis, downlink.frames)
        BY <2>1 DEF Carried
      <3>2. CASE "control" \in DOMAIN downlink.frames
                 /\ p.control = [downlink.frames["control"] EXCEPT !.at = 0]
        <4> DEFINE f == downlink.frames["control"]
        <4>1. f \in Controls /\ ~(f.run /\ f.clear # 0)
          BY <1>t, <3>2 DEF Frames
        <4>2. p.control = [f EXCEPT !.at = 0]
          BY <3>2
        <4> HIDE DEF f
        <4>3. p.control.run = f.run /\ p.control.clear = f.clear
          BY <4>1, <4>2 DEF Controls
        <4> QED
          BY <4>1, <4>3
      <3>3. CASE p.control = chassis.control
        BY <1>f, <3>3
      <3>4. CASE ~p.control.run
        BY <3>4
      <3> QED
        BY <3>1, <3>2, <3>3, <3>4 DEF CarriedControl
    <2>10. UNCHANGED profile
      BY <2>1
    <2>11. downlink' = [age |-> downlink'.age, frames |-> downlink'.frames]
           /\ downlink'.age \in 0 .. MaxDelay /\ Frames(downlink'.frames)
      <3>1. 0 \in 0 .. MaxDelay
        BY <1>t, Bounds
      <3>2. CASE downlink' = Silence
        BY <3>1, <3>2, SilenceFacts
      <3>3. CASE downlink' = downlink
        BY <1>t, <3>3
      <3> QED
        BY <2>1, <3>2, <3>3
    <2>12. TypesInv'
      BY <1>t, <2>1, <2>8, <2>10, <2>11, SameTypes DEF TypesInv, Frames, KnownBoots
    <2>13. downlink' = Silence \/ downlink'.age < MaxDelay
      <3>1. downlink.age # MaxDelay => downlink.age < MaxDelay
        BY <1>t, Bounds
      <3> QED
        BY <2>1, <3>1
    <2>14. downlink' = Silence \/ downlink'.age < MaxDelay'
      BY <2>10, <2>13, SameTypes
    <2>15. FitsInv'
      BY <1>f, <2>1, <2>8, <2>9, <2>14 DEF FitsInv
    <2> QED
      BY <2>12, <2>15
  <1>3. CASE RebootGimbal
    <2>1. /\ gimbal.boot + chassis.boot < MaxBoot
          /\ gimbal' = NewGimbal(gimbal.boot + 1)
          /\ UNCHANGED <<profile, chassis, downlink, turn, unheard, obeyed>>
      BY <1>3 DEF RebootGimbal
    <2>2. gimbal.boot \in 1 .. MaxBoot /\ chassis.boot \in 1 .. MaxBoot
      BY <1>t DEF GimbalBoards, ChassisBoards
    <2>3. gimbal.boot + 1 \in 1 .. MaxBoot
      BY <1>t, <2>1, <2>2, Bounds
    <2>4. UNCHANGED profile
      BY <2>1
    <2>5. TypesInv'
      BY <1>t, <2>1, <2>3, <2>4, NewBoards, SameTypes DEF TypesInv, Frames, KnownBoots
    <2>6. /\ gimbal'.peer.boot = 0 /\ ~gimbal'.online /\ ~gimbal'.armed /\ ~gimbal'.control.run
      BY <1>t, <2>1, <2>3, NewBoards
    <2>7. FitsInv'
      BY <1>f, <2>1, <2>4, <2>6, SameTypes DEF FitsInv
    <2> QED
      BY <2>5, <2>7
  <1>4. CASE RebootChassis
    <2>1. /\ gimbal.boot + chassis.boot < MaxBoot
          /\ chassis' = NewChassis(chassis.boot + 1)
          /\ UNCHANGED <<profile, gimbal, downlink, turn, unheard, obeyed>>
      BY <1>4 DEF RebootChassis
    <2>2. gimbal.boot \in 1 .. MaxBoot /\ chassis.boot \in 1 .. MaxBoot
      BY <1>t DEF GimbalBoards, ChassisBoards
    <2>3. chassis.boot + 1 \in 1 .. MaxBoot
      BY <1>t, <2>1, <2>2, Bounds
    <2>4. UNCHANGED profile
      BY <2>1
    <2>5. TypesInv'
      BY <1>t, <2>1, <2>3, <2>4, NewBoards, SameTypes DEF TypesInv, Frames, KnownBoots
    <2>6. /\ chassis'.peer.boot = 0 /\ ~chassis'.online /\ ~chassis'.control.run
      BY <1>t, <2>1, <2>3, NewBoards
    <2>7. FitsInv'
      BY <1>f, <2>1, <2>4, <2>6, SameTypes DEF FitsInv
    <2> QED
      BY <2>5, <2>7
  <1>5. CASE Tick
    <2>1. /\ turn = "tick" /\ turn' = "gimbal"
          /\ downlink' = (IF downlink = Silence THEN Silence ELSE [downlink EXCEPT !.age = @ + 1])
          /\ unheard' = (IF unheard > LeaseTime THEN unheard ELSE unheard + 1)
          /\ UNCHANGED <<profile, obeyed>>
      BY <1>5 DEF Tick
    <2>2. UNCHANGED profile
      BY <2>1
    <2>3. unheard' \in 0 .. LeaseTime + 1
      BY <1>t, <2>1, Bounds
    <2>4. downlink' = [age |-> downlink'.age, frames |-> downlink'.frames]
          /\ downlink'.age \in 0 .. MaxDelay /\ Frames(downlink'.frames)
      <3>1. CASE downlink = Silence
        BY <1>t, <2>1, <3>1
      <3>2. CASE downlink # Silence
        <4>1. downlink.age + 1 \in 0 .. MaxDelay
          BY <1>t, <1>f, <2>1, <3>2, Bounds
        <4>2. downlink' = [downlink EXCEPT !.age = @ + 1]
          BY <2>1, <3>2
        <4>3. downlink' = [age |-> downlink.age + 1, frames |-> downlink.frames]
          BY <1>t, <4>2
        <4>4. downlink'.age = downlink.age + 1 /\ downlink'.frames = downlink.frames
          BY <4>3
        <4> QED
          BY <1>t, <4>1, <4>3, <4>4
      <3> QED
        BY <3>1, <3>2
    <2>5. TypesInv'
      BY <1>t, <1>5, <2>1, <2>2, <2>3, <2>4, TickFacts, SameTypes DEF TypesInv, Frames, KnownBoots
    <2>6. /\ gimbal'.peer = AgedValue(gimbal.peer) /\ gimbal'.control = AgedValue(gimbal.control)
          /\ gimbal'.armed = gimbal.armed /\ gimbal'.knew = gimbal.knew
          /\ gimbal'.online = gimbal.online
          /\ chassis'.peer = AgedValue(chassis.peer)
          /\ chassis'.control = AgedValue(chassis.control)
          /\ chassis'.online = chassis.online
      BY <1>5, TickFacts
    <2>7. /\ gimbal.peer \in Peers /\ chassis.peer \in Peers
          /\ gimbal.control \in Controls /\ chassis.control \in Controls
      BY <1>t DEF GimbalBoards, ChassisBoards
    <2>8. /\ gimbal'.peer.boot = gimbal.peer.boot /\ chassis'.peer.boot = chassis.peer.boot
          /\ gimbal'.control.run = gimbal.control.run /\ gimbal'.control.clear = gimbal.control.clear
          /\ chassis'.control.run = chassis.control.run
          /\ chassis'.control.clear = chassis.control.clear
      BY <1>t, <2>6, <2>7, AgedValueFacts
    <2>9. FitsInv'
      BY <1>f, <2>1, <2>6, <2>8 DEF FitsInv
    <2> QED
      BY <2>5, <2>9
  <1>6. CASE UNCHANGED vars
    <2>1. /\ profile' = profile /\ gimbal' = gimbal /\ chassis' = chassis /\ downlink' = downlink
          /\ turn' = turn /\ unheard' = unheard /\ obeyed' = obeyed
      BY <1>6 DEF vars
    <2>2. TypesInv'
      BY <1>t, <2>1, SameTypes DEF TypesInv, Frames, KnownBoots
    <2>3. FitsInv'
      BY <1>f, <2>1, SameTypes DEF FitsInv
    <2> QED
      BY <2>2, <2>3
  <1> QED
    BY <1>1, <1>2, <1>3, <1>4, <1>5, <1>6 DEF Next

(* The boards, the batch and the history keep their types, whatever the    *)
(* timeouts, the delay and the streams: GimbalLoop, ChassisLoop, reboots   *)
(* and the passing of time.                                                *)
THEOREM TypeCorrect == Spec => []TypeOK
  <1>1. TypesInv /\ FitsInv => TypeOK
    <2> SUFFICES ASSUME TypesInv, FitsInv PROVE TypeOK
      OBVIOUS
    <2>1. /\ gimbal.boot \in 1 .. MaxBoot /\ gimbal.peer \in [boot : KnownBoots, at : Ages]
          /\ gimbal.online \in BOOLEAN
          /\ gimbal.control \in Controls /\ gimbal.command \in Commands
          /\ gimbal.request \in Requests
          /\ gimbal.remote \in Ages /\ gimbal.clear_id \in 0 .. MaxClear
      BY DEF TypesInv, GimbalBoards, Peers
    <2>2. /\ chassis.boot \in 1 .. MaxBoot /\ chassis.peer \in [boot : KnownBoots, at : Ages]
          /\ chassis.online \in BOOLEAN
          /\ chassis.control \in Controls /\ chassis.command \in Commands
          /\ chassis.request \in Requests
      BY DEF TypesInv, ChassisBoards, Peers
    <2>3. \A b \in {gimbal, chassis} :
             /\ b.boot \in 1 .. MaxBoot /\ b.peer \in [boot : KnownBoots, at : Ages]
             /\ b.online \in BOOLEAN /\ b.online => b.peer.boot # 0
             /\ b.control \in Controls /\ b.command \in Commands /\ b.request \in Requests
             /\ ~(b.control.run /\ b.control.clear # 0)
      BY <2>1, <2>2 DEF FitsInv
    <2>4. /\ profile \in Profiles /\ turn \in {"gimbal", "chassis", "tick"}
          /\ unheard \in 0 .. LeaseTime + 1 /\ obeyed \subseteq KnownBoots \X (1 .. MaxClear)
          /\ downlink.age \in 0 .. MaxDelay
      BY DEF TypesInv
    <2>5. gimbal.armed => gimbal.knew # 0 \/ gimbal.peer.boot = 0
      BY DEF FitsInv
    <2> QED
      BY <2>1, <2>3, <2>4, <2>5 DEF TypeOK
  <1> QED
    BY <1>1, TypesInit, TypesStep, PTL DEF Spec

-----------------------------------------------------------------------------
(* The lease of a grant, and the boot that motion belongs to.              *)

(* A poll that binds the endpoint to another boot also moves the baselines *)
(* past everything produced before.                                        *)
LEMMA PolledBound ==
    ASSUME NEW p \in GimbalBoards, gimbal \in GimbalBoards, profile \in Profiles,
           PolledFrom(p), GimbalBound(gimbal)
    PROVE  GimbalBound(p)
  <1>1. gimbal.command.seq \in Nat /\ gimbal.request.seq \in Nat
    BY Bounds DEF GimbalBoards, Commands, Requests
  <1>2. /\ ~(gimbal.command.seq > gimbal.command.seq) /\ ~(gimbal.request.seq > gimbal.request.seq)
    BY <1>1
  <1> QED
    BY <1>2 DEF PolledFrom, GimbalBound

LEMMA RoundBound ==
    ASSUME NEW n \in GimbalBoards, NEW p \in GimbalBoards, NEW input,
           RoundFrom(n, p, input), GimbalBound(p)
    PROVE  GimbalBound(n)
  <1>1. n.armed /\ n.knew # 0 => n.knew = n.pub.peer
    BY DEF RoundFrom, GimbalBound
  <1>2. n.control.run => n.control.knew = n.control.receiver
    BY <1>1 DEF RoundFrom
  <1>3. n.command.move /\ n.command.seq > n.baseline => n.command.knew = n.bound
    BY DEF RoundFrom, GimbalBound
  <1>4. n.request.follow /\ n.request.seq > n.big_yaw_baseline => n.request.knew = n.bound
    BY DEF RoundFrom, GimbalBound
  <1> QED
    BY <1>1, <1>2, <1>3, <1>4 DEF GimbalBound

LEMMA BindStep == TypesInv /\ FitsInv /\ BindInv /\ [Next]_vars => BindInv'
  <1> SUFFICES ASSUME TypesInv, FitsInv, BindInv, [Next]_vars PROVE BindInv'
    OBVIOUS
  <1>t. /\ profile \in Profiles /\ gimbal \in GimbalBoards /\ chassis \in ChassisBoards
        /\ Frames(downlink.frames)
        /\ downlink = [age |-> downlink.age, frames |-> downlink.frames]
    BY DEF TypesInv
  <1>f. ~(gimbal.control.run /\ gimbal.control.clear # 0)
    BY DEF FitsInv
  <1>b. GimbalBound(gimbal) /\ FramesBound(downlink.frames) /\ ChassisBound(chassis)
    BY DEF BindInv
  <1>s. FramesBound(Silence.frames)
    BY SilenceFacts DEF FramesBound
  <1>1. ASSUME NEW input \in Inputs, NEW produces \in BOOLEAN, NEW hears \in BOOLEAN,
               GimbalLoop(input, produces, hears)
        PROVE  BindInv'
    <2>1. PICK p \in GimbalBoards :
             /\ PolledFrom(p)
             /\ gimbal' \in GimbalBoards /\ RoundFrom(gimbal', p, input)
             /\ downlink' = (IF downlink = Silence THEN DownBatch(p) ELSE downlink)
             /\ unheard' = (IF gimbal'.armed /\ input # "none" THEN 0 ELSE unheard)
             /\ turn = "gimbal" /\ turn' = "chassis"
             /\ UNCHANGED <<profile, chassis, obeyed>>
      BY <1>1, LoopFacts
    <2>2. GimbalBound(p)
      BY <1>t, <1>b, <2>1, PolledBound
    <2>3. GimbalBound(gimbal')
      BY <2>1, <2>2, RoundBound
    <2>4. FramesBound(DownBatch(p).frames)
      <3>1. ~(p.control.run /\ p.control.clear # 0)
        BY <1>f, <2>1 DEF PolledFrom
      <3> QED
        BY <1>t, <2>2, <3>1, BatchFacts DEF FramesBound, GimbalBound
    <2>5. FramesBound(downlink'.frames)
      BY <1>b, <2>1, <2>4
    <2>6. ChassisBound(chassis')
      BY <1>b, <2>1
    <2> QED
      BY <2>3, <2>5, <2>6 DEF BindInv, GimbalBound, FramesBound, ChassisBound
  <1>2. ASSUME NEW reads \in Reads(downlink), NEW kept \in Survivors(downlink, reads),
               ChassisLoop(reads, kept)
        PROVE  BindInv'
    <2>1. PICK p \in ChassisBoards :
             /\ Carried(p, chassis, downlink.frames)
             /\ p.online => p.peer.boot # 0
             /\ chassis' = (IF Clears(p) THEN [p EXCEPT !.cleared = Event(p.control)] ELSE p)
             /\ obeyed' = (IF Clears(p) THEN obeyed \cup {Event(p.control)} ELSE obeyed)
             /\ downlink' = Silence \/ (downlink' = downlink /\ downlink.age # MaxDelay)
             /\ turn = "chassis" /\ turn' = "tick"
             /\ UNCHANGED <<profile, gimbal, unheard>>
      BY <1>2, ChassisFacts
    <2>2. ChassisBound(p)
      <3> DEFINE fs == downlink.frames
      <3>1. CarriedControl(p, chassis, fs) /\ CarriedCommand(p, chassis, fs)
            /\ CarriedRequest(p, chassis, fs)
        BY <2>1 DEF Carried
      <3>2. FramesBound(fs) /\ Frames(fs)
        BY <1>t, <1>b
      <3> HIDE DEF fs
      <3>3. p.control.run => p.control.knew = p.control.receiver
        <4>1. CASE "control" \in DOMAIN fs /\ p.control = [fs["control"] EXCEPT !.at = 0]
          <5>1. /\ p.control.run = fs["control"].run /\ p.control.knew = fs["control"].knew
                /\ p.control.receiver = fs["control"].receiver
            BY <3>2, <4>1 DEF Frames, Controls
          <5> QED
            BY <3>2, <4>1, <5>1 DEF FramesBound
        <4> QED
          BY <1>b, <3>1, <4>1 DEF CarriedControl, ChassisBound
      <3>4. p.command.move => p.command.knew = p.command.receiver
        <4>1. CASE "command" \in DOMAIN fs /\ p.command = [fs["command"] EXCEPT !.at = 0]
          <5>1. /\ p.command.move = fs["command"].move /\ p.command.knew = fs["command"].knew
                /\ p.command.receiver = fs["command"].receiver
            BY <3>2, <4>1 DEF Frames, Commands
          <5> QED
            BY <3>2, <4>1, <5>1 DEF FramesBound
        <4> QED
          BY <1>b, <3>1, <4>1 DEF CarriedCommand, ChassisBound
      <3>5. p.request.follow => p.request.knew = p.request.receiver
        <4>1. CASE "request" \in DOMAIN fs /\ p.request = [fs["request"] EXCEPT !.at = 0]
          <5>1. /\ p.request.follow = fs["request"].follow /\ p.request.knew = fs["request"].knew
                /\ p.request.receiver = fs["request"].receiver
            BY <3>2, <4>1 DEF Frames, Requests
          <5> QED
            BY <3>2, <4>1, <5>1 DEF FramesBound
        <4> QED
          BY <1>b, <3>1, <4>1 DEF CarriedRequest, ChassisBound
      <3> QED
        BY <3>3, <3>4, <3>5 DEF ChassisBound
    <2>3. /\ chassis'.control = p.control /\ chassis'.command = p.command
          /\ chassis'.request = p.request
      <3> DEFINE e == Event(p.control)
      <3> HIDE DEF e
      <3> QED
        BY <2>1 DEF ChassisBoards, e
    <2>4. ChassisBound(chassis')
      BY <2>2, <2>3 DEF ChassisBound
    <2>5. FramesBound(downlink'.frames)
      BY <1>b, <1>s, <2>1
    <2>6. GimbalBound(gimbal')
      BY <1>b, <2>1
    <2> QED
      BY <2>4, <2>5, <2>6 DEF BindInv, GimbalBound, FramesBound, ChassisBound
  <1>3. CASE RebootGimbal
    <2>1. /\ gimbal.boot + chassis.boot < MaxBoot
          /\ gimbal' = NewGimbal(gimbal.boot + 1)
          /\ chassis' = chassis /\ downlink' = downlink
      BY <1>3 DEF RebootGimbal
    <2>2. gimbal.boot + 1 \in 1 .. MaxBoot
      BY <1>t, <2>1, Bounds DEF GimbalBoards, ChassisBoards
    <2>3. GimbalBound(gimbal')
      BY <1>t, <2>1, <2>2, NewBoards DEF GimbalBound
    <2> QED
      BY <1>b, <2>1, <2>3 DEF BindInv, GimbalBound, FramesBound, ChassisBound
  <1>4. CASE RebootChassis
    <2>1. /\ gimbal.boot + chassis.boot < MaxBoot
          /\ chassis' = NewChassis(chassis.boot + 1)
          /\ gimbal' = gimbal /\ downlink' = downlink
      BY <1>4 DEF RebootChassis
    <2>2. chassis.boot + 1 \in 1 .. MaxBoot
      BY <1>t, <2>1, Bounds DEF GimbalBoards, ChassisBoards
    <2>3. ChassisBound(chassis')
      BY <1>t, <2>1, <2>2, NewBoards DEF ChassisBound
    <2> QED
      BY <1>b, <2>1, <2>3 DEF BindInv, GimbalBound, FramesBound, ChassisBound
  <1>5. CASE Tick
    <2>1. downlink' = (IF downlink = Silence THEN Silence ELSE [downlink EXCEPT !.age = @ + 1])
      BY <1>5 DEF Tick
    <2>2. downlink'.frames = downlink.frames
      BY <1>t, <2>1
    <2>3. /\ gimbal.control \in Controls /\ gimbal.command \in Commands /\ gimbal.request \in Requests
          /\ chassis.control \in Controls /\ chassis.command \in Commands
          /\ chassis.request \in Requests
      BY <1>t DEF GimbalBoards, ChassisBoards
    <2>4. GimbalBound(gimbal')
      BY <1>t, <1>b, <1>5, <2>3, TickFacts, AgedValueFacts DEF GimbalBound
    <2>5. ChassisBound(chassis')
      BY <1>t, <1>b, <1>5, <2>3, TickFacts, AgedValueFacts DEF ChassisBound
    <2> QED
      BY <1>b, <2>2, <2>4, <2>5 DEF BindInv, GimbalBound, FramesBound, ChassisBound
  <1>6. CASE UNCHANGED vars
    BY <1>b, <1>6 DEF vars, BindInv, GimbalBound, FramesBound, ChassisBound
  <1> QED
    BY <1>1, <1>2, <1>3, <1>4, <1>5, <1>6 DEF Next

LEMMA LeaseStep == TypesInv /\ FitsInv /\ LeaseInv /\ [Next]_vars => LeaseInv'
  <1> SUFFICES ASSUME TypesInv, FitsInv, LeaseInv, [Next]_vars PROVE LeaseInv'
    OBVIOUS
  <1> DEFINE fs == downlink.frames
  <1>t. /\ profile \in Profiles /\ gimbal \in GimbalBoards /\ chassis \in ChassisBoards
        /\ Frames(fs) /\ downlink.age \in 0 .. MaxDelay
        /\ unheard \in 0 .. LeaseTime + 1
        /\ downlink = [age |-> downlink.age, frames |-> fs]
    BY DEF TypesInv
  <1>n. /\ unheard \in Nat /\ downlink.age \in Nat /\ MaxDelay \in Nat /\ Timeout \in Nat
        /\ LeaseTime = Timeout + MaxDelay /\ downlink.age <= MaxDelay
    BY <1>t, Bounds
  <1>a. /\ gimbal.control \in Controls /\ gimbal.control.source \in Nat /\ gimbal.control.at \in Nat
        /\ chassis.control \in Controls /\ chassis.control.source \in Nat
        /\ chassis.control.at \in Nat /\ gimbal.remote \in Ages /\ gimbal.remote \in Nat
    BY <1>t, Bounds DEF GimbalBoards, ChassisBoards, Controls, Ages
  <1>l. /\ gimbal.armed => unheard <= gimbal.remote \/ gimbal.remote > Timeout
        /\ Leased(gimbal.control, 0)
        /\ "control" \in DOMAIN fs /\ fs["control"].run =>
              unheard <= fs["control"].source + downlink.age
        /\ Leased(chassis.control, MaxDelay)
    BY DEF LeaseInv
  <1>c. "control" \in DOMAIN fs => fs["control"] \in Controls /\ fs["control"].source \in Nat
    BY <1>t, Bounds DEF Frames, Controls, Ages
  <1>f. ~(gimbal.control.run /\ gimbal.control.clear # 0)
    BY DEF FitsInv
  <1>1. ASSUME NEW input \in Inputs, NEW produces \in BOOLEAN, NEW hears \in BOOLEAN,
               GimbalLoop(input, produces, hears)
        PROVE  LeaseInv'
    <2>1. PICK p \in GimbalBoards :
             /\ PolledFrom(p)
             /\ gimbal' \in GimbalBoards /\ RoundFrom(gimbal', p, input)
             /\ downlink' = (IF downlink = Silence THEN DownBatch(p) ELSE downlink)
             /\ unheard' = (IF gimbal'.armed /\ input # "none" THEN 0 ELSE unheard)
             /\ turn = "gimbal" /\ turn' = "chassis"
             /\ UNCHANGED <<profile, chassis, obeyed>>
      BY <1>1, LoopFacts
    <2>2. /\ p.control = gimbal.control /\ p.remote = gimbal.remote /\ p.armed = gimbal.armed
      BY <2>1 DEF PolledFrom
    <2>3. /\ gimbal'.armed => /\ gimbal'.remote <= Timeout
                              /\ input # "none" \/ (gimbal.armed /\ gimbal'.remote = gimbal.remote)
          /\ gimbal'.control.run => /\ gimbal'.armed /\ gimbal'.control.at = 0
                                    /\ gimbal'.control.source = gimbal'.remote
      BY <2>1, <2>2 DEF RoundFrom
    <2>4. unheard' \in Nat /\ unheard' <= unheard
      BY <1>n, <2>1
    <2>5. gimbal'.remote \in Nat
      BY <1>t, <2>1, Bounds DEF GimbalBoards, Ages
    <2>6. gimbal'.armed => unheard' <= gimbal'.remote
      <3>1. CASE input # "none"
        BY <2>1, <2>5, <3>1
      <3>2. CASE input = "none"
        <4>1. gimbal'.armed => gimbal.armed /\ gimbal'.remote = gimbal.remote
                               /\ gimbal.remote <= Timeout
          BY <2>3, <3>2
        <4>2. gimbal.armed /\ gimbal.remote <= Timeout => unheard <= gimbal.remote
          BY <1>l, <1>a, <1>n
        <4> QED
          BY <2>4, <4>1, <4>2, <1>n, <1>a
      <3> QED
        BY <3>1, <3>2
    <2>7. gimbal'.control.run => unheard' <= gimbal'.control.source + gimbal'.control.at + 0
      BY <2>3, <2>4, <2>5, <2>6
    <2>8. "control" \in DOMAIN downlink'.frames /\ downlink'.frames["control"].run =>
              unheard' <= downlink'.frames["control"].source + downlink'.age
      <3>1. CASE downlink = Silence
        <4> DEFINE b == DownBatch(p)
        <4>1. downlink' = b
          BY <2>1, <3>1
        <4>2. /\ b.age = 0
              /\ "control" \in DOMAIN b.frames /\ b.frames["control"].run =>
                    /\ gimbal.control.run
                    /\ b.frames["control"].source = gimbal.control.source + gimbal.control.at
                    /\ b.frames["control"].source <= Timeout
          BY <1>t, <1>f, <2>2, BatchFacts
        <4> HIDE DEF b
        <4>3. "control" \in DOMAIN b.frames /\ b.frames["control"].run =>
                  unheard <= b.frames["control"].source
          BY <1>l, <1>a, <1>n, <4>2 DEF Leased
        <4>4. "control" \in DOMAIN b.frames /\ b.frames["control"].run =>
                  unheard' <= b.frames["control"].source + b.age
          BY <1>a, <1>n, <2>4, <4>2, <4>3
        <4> QED
          BY <4>1, <4>4
      <3>2. CASE downlink # Silence
        <4>1. downlink' = downlink
          BY <2>1, <3>2
        <4>2. "control" \in DOMAIN fs /\ fs["control"].run =>
                  unheard' <= fs["control"].source + downlink.age
          BY <1>l, <1>c, <1>n, <2>4
        <4> QED
          BY <4>1, <4>2
      <3> QED
        BY <3>1, <3>2
    <2>9. chassis.control.run /\ chassis.control.source + chassis.control.at <= Timeout =>
              unheard' <= chassis.control.source + chassis.control.at + MaxDelay
      BY <1>l, <1>a, <1>n, <2>4 DEF Leased
    <2>10. chassis' = chassis /\ Timeout' = Timeout /\ MaxDelay' = MaxDelay
      BY <2>1, SameTypes
    <2> QED
      BY <2>6, <2>7, <2>8, <2>9, <2>10 DEF LeaseInv, Leased
  <1>2. ASSUME NEW reads \in Reads(downlink), NEW kept \in Survivors(downlink, reads),
               ChassisLoop(reads, kept)
        PROVE  LeaseInv'
    <2>1. PICK p \in ChassisBoards :
             /\ Carried(p, chassis, downlink.frames)
             /\ p.online => p.peer.boot # 0
             /\ chassis' = (IF Clears(p) THEN [p EXCEPT !.cleared = Event(p.control)] ELSE p)
             /\ obeyed' = (IF Clears(p) THEN obeyed \cup {Event(p.control)} ELSE obeyed)
             /\ downlink' = Silence \/ (downlink' = downlink /\ downlink.age # MaxDelay)
             /\ turn = "chassis" /\ turn' = "tick"
             /\ UNCHANGED <<profile, gimbal, unheard>>
      BY <1>2, ChassisFacts
    <2>2. p.control.run /\ p.control.source + p.control.at <= Timeout =>
              unheard <= p.control.source + p.control.at + MaxDelay
      <3>1. CarriedControl(p, chassis, fs)
        BY <2>1 DEF Carried
      <3>2. CASE "control" \in DOMAIN fs /\ p.control = [fs["control"] EXCEPT !.at = 0]
        <4> DEFINE f == fs["control"]
        <4>1. f \in Controls /\ f.source \in Nat /\ (f.run => unheard <= f.source + downlink.age)
          BY <1>c, <1>l, <3>2
        <4>2. p.control = [f EXCEPT !.at = 0]
          BY <3>2
        <4> HIDE DEF f
        <4>3. p.control.run = f.run /\ p.control.source = f.source /\ p.control.at = 0
          BY <4>1, <4>2 DEF Controls
        <4> QED
          BY <1>n, <4>1, <4>3
      <3>3. CASE p.control = chassis.control
        BY <1>l, <3>3 DEF Leased
      <3>4. CASE ~p.control.run
        BY <3>4
      <3> QED
        BY <3>1, <3>2, <3>3, <3>4 DEF CarriedControl
    <2>3. chassis'.control = p.control
      <3> DEFINE e == Event(p.control)
      <3> HIDE DEF e
      <3> QED
        BY <2>1 DEF ChassisBoards, e
    <2>4. "control" \in DOMAIN downlink'.frames /\ downlink'.frames["control"].run =>
              unheard' <= downlink'.frames["control"].source + downlink'.age
      BY <1>l, <2>1, SilenceFacts
    <2>5. gimbal' = gimbal /\ unheard' = unheard /\ Timeout' = Timeout /\ MaxDelay' = MaxDelay
      BY <2>1, SameTypes
    <2> QED
      BY <1>l, <2>2, <2>3, <2>4, <2>5 DEF LeaseInv, Leased
  <1>3. CASE RebootGimbal
    <2>1. /\ gimbal.boot + chassis.boot < MaxBoot
          /\ gimbal' = NewGimbal(gimbal.boot + 1)
          /\ chassis' = chassis /\ downlink' = downlink /\ unheard' = unheard
          /\ UNCHANGED profile
      BY <1>3 DEF RebootGimbal
    <2>2. gimbal.boot + 1 \in 1 .. MaxBoot
      BY <1>t, <2>1, Bounds DEF GimbalBoards, ChassisBoards
    <2>3. ~gimbal'.armed /\ ~gimbal'.control.run
      BY <1>t, <2>1, <2>2, NewBoards
    <2>4. Timeout' = Timeout /\ MaxDelay' = MaxDelay
      BY <2>1, SameTypes
    <2> QED
      BY <1>l, <2>1, <2>3, <2>4 DEF LeaseInv, Leased
  <1>4. CASE RebootChassis
    <2>1. /\ gimbal.boot + chassis.boot < MaxBoot
          /\ chassis' = NewChassis(chassis.boot + 1)
          /\ gimbal' = gimbal /\ downlink' = downlink /\ unheard' = unheard
          /\ UNCHANGED profile
      BY <1>4 DEF RebootChassis
    <2>2. chassis.boot + 1 \in 1 .. MaxBoot
      BY <1>t, <2>1, Bounds DEF GimbalBoards, ChassisBoards
    <2>3. ~chassis'.control.run
      BY <1>t, <2>1, <2>2, NewBoards
    <2>4. Timeout' = Timeout /\ MaxDelay' = MaxDelay
      BY <2>1, SameTypes
    <2> QED
      BY <1>l, <2>1, <2>3, <2>4 DEF LeaseInv, Leased
  <1>5. CASE Tick
    <2>1. /\ downlink' = (IF downlink = Silence THEN Silence ELSE [downlink EXCEPT !.age = @ + 1])
          /\ unheard' = (IF unheard > LeaseTime THEN unheard ELSE unheard + 1)
          /\ UNCHANGED profile
      BY <1>5 DEF Tick
    <2>2. unheard' \in Nat /\ unheard' <= unheard + 1
      BY <1>n, <2>1
    <2>3. /\ gimbal'.armed = gimbal.armed /\ gimbal'.remote = Aged(gimbal.remote)
          /\ gimbal'.control.run = gimbal.control.run
          /\ gimbal'.control.source = gimbal.control.source
          /\ gimbal'.control.at = Aged(gimbal.control.at)
          /\ chassis'.control.run = chassis.control.run
          /\ chassis'.control.source = chassis.control.source
          /\ chassis'.control.at = Aged(chassis.control.at)
      BY <1>t, <1>a, <1>5, TickFacts, AgedValueFacts
    <2>4. gimbal.control.at \in Ages /\ chassis.control.at \in Ages
      BY <1>a DEF Controls
    <2>5. /\ Aged(gimbal.remote) \in Nat /\ Aged(gimbal.control.at) \in Nat
          /\ Aged(chassis.control.at) \in Nat
          /\ Aged(gimbal.remote) <= Timeout => Aged(gimbal.remote) = gimbal.remote + 1
          /\ Aged(gimbal.control.at) <= Timeout =>
                Aged(gimbal.control.at) = gimbal.control.at + 1
          /\ Aged(chassis.control.at) <= Timeout =>
                Aged(chassis.control.at) = chassis.control.at + 1
      <3>1. ASSUME NEW age \in Ages
            PROVE  Aged(age) \in Nat /\ (Aged(age) <= Timeout => Aged(age) = age + 1)
        BY <1>t, AgedFacts, Bounds DEF Ages
      <3> QED
        BY <1>a, <2>4, <3>1
    <2>6. gimbal'.armed => unheard' <= gimbal'.remote \/ gimbal'.remote > Timeout
      BY <1>l, <1>n, <1>a, <2>2, <2>3, <2>5
    <2>7. gimbal'.control.run /\ gimbal'.control.source + gimbal'.control.at <= Timeout =>
              unheard' <= gimbal'.control.source + gimbal'.control.at + 0
      BY <1>l, <1>n, <1>a, <2>2, <2>3, <2>5 DEF Leased
    <2>8. chassis'.control.run /\ chassis'.control.source + chassis'.control.at <= Timeout =>
              unheard' <= chassis'.control.source + chassis'.control.at + MaxDelay
      BY <1>l, <1>n, <1>a, <2>2, <2>3, <2>5 DEF Leased
    <2>9. "control" \in DOMAIN downlink'.frames /\ downlink'.frames["control"].run =>
              unheard' <= downlink'.frames["control"].source + downlink'.age
      <3>1. CASE downlink = Silence
        BY <2>1, <3>1, SilenceFacts
      <3>2. CASE downlink # Silence
        <4>1. downlink'.frames = fs /\ downlink'.age = downlink.age + 1
          BY <1>t, <2>1, <3>2
        <4> QED
          BY <1>l, <1>c, <1>n, <2>2, <4>1
      <3> QED
        BY <3>1, <3>2
    <2>10. Timeout' = Timeout /\ MaxDelay' = MaxDelay
      BY <2>1, SameTypes
    <2> QED
      BY <2>6, <2>7, <2>8, <2>9, <2>10 DEF LeaseInv, Leased
  <1>6. CASE UNCHANGED vars
    <2>1. /\ gimbal' = gimbal /\ chassis' = chassis /\ downlink' = downlink /\ unheard' = unheard
          /\ Timeout' = Timeout /\ MaxDelay' = MaxDelay
      BY <1>6, SameTypes DEF vars
    <2> QED
      BY <1>l, <2>1 DEF LeaseInv, Leased
  <1> QED
    BY <1>1, <1>2, <1>3, <1>4, <1>5, <1>6 DEF Next

LEMMA LeaseInit == Init => LeaseInv /\ BindInv
  <1> SUFFICES ASSUME Init PROVE LeaseInv /\ BindInv
    OBVIOUS
  <1>1. profile \in Profiles /\ gimbal = NewGimbal(1) /\ chassis = NewChassis(1)
        /\ downlink = Silence
    BY DEF Init
  <1>2. 1 \in 1 .. MaxBoot
    BY <1>1, Bounds
  <1>3. LeaseInv
    BY <1>1, <1>2, NewBoards, SilenceFacts DEF LeaseInv, Leased
  <1>4. BindInv
    BY <1>1, <1>2, NewBoards, SilenceFacts DEF BindInv, GimbalBound, FramesBound, ChassisBound
  <1> QED
    BY <1>3, <1>4

(* The chassis acts on a grant only within the timeout and the delay of    *)
(* the line after the remote was heard with the gate open, and only on one *)
(* given after the gimbal knew of this boot of the chassis: publish(),     *)
(* encodeOperatorControl() and forwardedFresh() together.                  *)
THEOREM GrantsAreLeased == Spec => []RunIsLeased
  <1>1. TypesInv /\ LeaseInv /\ BindInv => RunIsLeased
    <2> SUFFICES ASSUME TypesInv, LeaseInv, BindInv, RunAllowed(chassis)
                 PROVE  unheard <= LeaseTime /\ chassis.control.knew = chassis.boot
      BY DEF RunIsLeased
    <2> DEFINE v == chassis.control
    <2>1. v.run /\ v.receiver = chassis.boot /\ ForwardedFresh(v.at, v.source)
      BY DEF RunAllowed, ControlValid
    <2>2. profile \in Profiles /\ v.at \in Ages /\ v.source \in Ages /\ unheard \in 0 .. LeaseTime + 1
      BY DEF TypesInv, ChassisBoards, Controls
    <2>3. v.at + v.source <= Timeout
      BY <2>1, <2>2, AddAgeFacts
    <2>4. v.at \in Nat /\ v.source \in Nat /\ unheard \in Nat /\ MaxDelay \in Nat /\ Timeout \in Nat
          /\ LeaseTime = Timeout + MaxDelay
      BY <2>2, Bounds DEF Ages
    <2>5. v.run /\ v.source + v.at <= Timeout => unheard <= v.source + v.at + MaxDelay
      BY DEF LeaseInv, Leased
    <2>6. v.run => v.knew = v.receiver
      BY DEF BindInv, ChassisBound
    <2> HIDE DEF v
    <2>7. unheard <= LeaseTime
      BY <2>1, <2>3, <2>4, <2>5
    <2> QED
      BY <2>1, <2>6, <2>7 DEF v
  <1>2. Init => TypesInv /\ FitsInv /\ LeaseInv /\ BindInv
    BY TypesInit, LeaseInit
  <1>3. TypesInv /\ FitsInv /\ LeaseInv /\ BindInv /\ [Next]_vars =>
            TypesInv' /\ FitsInv' /\ LeaseInv' /\ BindInv'
    BY TypesStep, LeaseStep, BindStep
  <1> QED
    BY <1>1, <1>2, <1>3, PTL DEF Spec

(* What moves the wheels or the big yaw was produced after the gimbal knew *)
(* of the chassis' present boot: the baselines of poll() hold the rest     *)
(* back.                                                                   *)
THEOREM MotionIsCurrent == Spec => []MotionPostdatesContact
  <1>1. BindInv => MotionPostdatesContact
    BY DEF BindInv, ChassisBound, MotionPostdatesContact, Moves, Follows
  <1>2. Init => TypesInv /\ FitsInv /\ BindInv
    BY TypesInit, LeaseInit
  <1>3. TypesInv /\ FitsInv /\ BindInv /\ [Next]_vars => TypesInv' /\ FitsInv' /\ BindInv'
    BY TypesStep, BindStep
  <1> QED
    BY <1>1, <1>2, <1>3, PTL DEF Spec

-----------------------------------------------------------------------------
(* Requests that were revoked.                                             *)

LEMMA RevokedStep ==
    ASSUME TypesInv, FitsInv, [Next]_vars
    PROVE  [/\ chassis'.request.seq = chassis.request.seq /\ chassis.request.seq # 0
            /\ chassis'.peer.boot = chassis.peer.boot
            => (chassis'.request.follow => chassis.request.follow)]_vars
  <1> DEFINE A == /\ chassis'.request.seq = chassis.request.seq /\ chassis.request.seq # 0
                  /\ chassis'.peer.boot = chassis.peer.boot
                  => (chassis'.request.follow => chassis.request.follow)
  <1>t. profile \in Profiles /\ gimbal \in GimbalBoards /\ chassis \in ChassisBoards
    BY DEF TypesInv
  <1>0. chassis' = chassis => A
    OBVIOUS
  <1>1. ASSUME NEW input \in Inputs, NEW produces \in BOOLEAN, NEW hears \in BOOLEAN,
               GimbalLoop(input, produces, hears)
        PROVE  A
    BY <1>0, <1>1 DEF GimbalLoop
  <1>2. ASSUME NEW reads \in Reads(downlink), NEW kept \in Survivors(downlink, reads),
               ChassisLoop(reads, kept)
        PROVE  A
    <2>1. PICK p \in ChassisBoards :
             /\ Carried(p, chassis, downlink.frames)
             /\ p.online => p.peer.boot # 0
             /\ chassis' = (IF Clears(p) THEN [p EXCEPT !.cleared = Event(p.control)] ELSE p)
             /\ obeyed' = (IF Clears(p) THEN obeyed \cup {Event(p.control)} ELSE obeyed)
             /\ downlink' = Silence \/ (downlink' = downlink /\ downlink.age # MaxDelay)
             /\ turn = "chassis" /\ turn' = "tick"
             /\ UNCHANGED <<profile, gimbal, unheard>>
      BY <1>2, ChassisFacts
    <2>2. chassis'.request = p.request /\ chassis'.peer = p.peer
      <3> DEFINE e == Event(p.control)
      <3> HIDE DEF e
      <3> QED
        BY <2>1 DEF ChassisBoards, e
    <2>3. CarriedRequest(p, chassis, downlink.frames)
      BY <2>1 DEF Carried
    <2> QED
      BY <2>2, <2>3 DEF CarriedRequest
  <1>3. ASSUME RebootGimbal PROVE A
    BY <1>0, <1>3 DEF RebootGimbal
  <1>4. ASSUME RebootChassis PROVE A
    <2>1. chassis' = NewChassis(chassis.boot + 1) /\ gimbal.boot + chassis.boot < MaxBoot
      BY <1>4 DEF RebootChassis
    <2>2. chassis.boot + 1 \in 1 .. MaxBoot
      BY <1>t, <2>1, Bounds DEF GimbalBoards, ChassisBoards
    <2>3. ~chassis'.request.follow
      BY <1>t, <2>1, <2>2, NewBoards
    <2>4. A
      BY <2>3
    <2> QED
      BY <2>4
  <1>5. ASSUME Tick PROVE A
    <2>1. chassis.request \in Requests
      BY <1>t DEF ChassisBoards
    <2>2. chassis'.request.follow = chassis.request.follow
      BY <1>t, <1>5, <2>1, TickFacts, AgedValueFacts
    <2>3. A
      BY <2>2
    <2> QED
      BY <2>3
  <1> HIDE DEF A
  <1>6. Next => A
    BY <1>1, <1>2, <1>3, <1>4, <1>5 DEF Next
  <1>7. [A]_vars
    BY <1>6
  <1> QED
    BY <1>7 DEF A

(* A request the chassis has seen revoked moves nothing again: acceptance  *)
(* by sequence in InterBoardLink::accept().                                *)
THEOREM RevocationIsFinal == Spec => RevokedStaysRevoked
  <1>1. TypesInv /\ FitsInv /\ [Next]_vars =>
            [/\ chassis'.request.seq = chassis.request.seq /\ chassis.request.seq # 0
             /\ chassis'.peer.boot = chassis.peer.boot
             => (chassis'.request.follow => chassis.request.follow)]_vars
    BY RevokedStep
  <1> QED
    BY <1>1, TypesInit, TypesStep, PTL DEF Spec, RevokedStaysRevoked

-----------------------------------------------------------------------------
(* Clear events.                                                           *)

LEMMA KnownStep == TypesInv /\ FitsInv /\ KnownInv /\ [Next]_vars => KnownInv'
  <1> SUFFICES ASSUME TypesInv, FitsInv, KnownInv, [Next]_vars PROVE KnownInv'
    OBVIOUS
  <1> DEFINE fs == downlink.frames
  <1>t. /\ profile \in Profiles /\ gimbal \in GimbalBoards /\ chassis \in ChassisBoards
        /\ Frames(fs) /\ downlink = [age |-> downlink.age, frames |-> fs]
    BY DEF TypesInv
  <1>n. /\ chassis.boot \in Nat /\ chassis.boot >= 1 /\ gimbal.peer.boot \in Nat
        /\ gimbal.pub.clear_peer \in Nat /\ gimbal.bound \in Nat
    BY <1>t, Bounds DEF GimbalBoards, ChassisBoards, Peers, Pubs, KnownBoots
  <1>c. "control" \in DOMAIN fs => fs["control"].receiver \in Nat
    BY <1>t, Bounds DEF Frames, Controls, KnownBoots
  <1>k. /\ gimbal.peer.boot <= chassis.boot /\ gimbal.pub.clear_peer <= chassis.boot
        /\ gimbal.bound <= chassis.boot
        /\ "control" \in DOMAIN fs => fs["control"].receiver <= chassis.boot
    BY DEF KnownInv
  <1>f. ~(gimbal.control.run /\ gimbal.control.clear # 0)
    BY DEF FitsInv
  <1>1. ASSUME NEW input \in Inputs, NEW produces \in BOOLEAN, NEW hears \in BOOLEAN,
               GimbalLoop(input, produces, hears)
        PROVE  KnownInv'
    <2>1. PICK p \in GimbalBoards :
             /\ PolledFrom(p)
             /\ gimbal' \in GimbalBoards /\ RoundFrom(gimbal', p, input)
             /\ downlink' = (IF downlink = Silence THEN DownBatch(p) ELSE downlink)
             /\ unheard' = (IF gimbal'.armed /\ input # "none" THEN 0 ELSE unheard)
             /\ turn = "gimbal" /\ turn' = "chassis"
             /\ UNCHANGED <<profile, chassis, obeyed>>
      BY <1>1, LoopFacts
    <2>2. p.peer.boot <= chassis.boot /\ p.bound <= chassis.boot
          /\ p.pub.clear_peer <= chassis.boot /\ p.control = gimbal.control
      BY <1>n, <1>k, <2>1 DEF PolledFrom
    <2>3. /\ gimbal'.peer.boot <= chassis.boot /\ gimbal'.bound <= chassis.boot
          /\ gimbal'.pub.clear_peer <= chassis.boot
      BY <1>n, <2>1, <2>2 DEF RoundFrom
    <2>4. "control" \in DOMAIN DownBatch(p).frames =>
              DownBatch(p).frames["control"].receiver \in {0, p.bound}
      BY <1>t, <1>f, <2>2, BatchFacts
    <2>5. "control" \in DOMAIN downlink'.frames =>
              downlink'.frames["control"].receiver <= chassis.boot
      BY <1>n, <1>k, <2>1, <2>2, <2>4
    <2> QED
      BY <2>1, <2>3, <2>5 DEF KnownInv
  <1>2. ASSUME NEW reads \in Reads(downlink), NEW kept \in Survivors(downlink, reads),
               ChassisLoop(reads, kept)
        PROVE  KnownInv'
    <2>1. PICK p \in ChassisBoards :
             /\ Carried(p, chassis, downlink.frames)
             /\ p.online => p.peer.boot # 0
             /\ chassis' = (IF Clears(p) THEN [p EXCEPT !.cleared = Event(p.control)] ELSE p)
             /\ obeyed' = (IF Clears(p) THEN obeyed \cup {Event(p.control)} ELSE obeyed)
             /\ downlink' = Silence \/ (downlink' = downlink /\ downlink.age # MaxDelay)
             /\ turn = "chassis" /\ turn' = "tick"
             /\ UNCHANGED <<profile, gimbal, unheard>>
      BY <1>2, ChassisFacts
    <2>2. chassis'.boot = chassis.boot
      <3> DEFINE e == Event(p.control)
      <3>1. p.boot = chassis.boot
        BY <2>1 DEF Carried
      <3> HIDE DEF e
      <3> QED
        BY <2>1, <3>1 DEF ChassisBoards, e
    <2>3. "control" \in DOMAIN downlink'.frames =>
              downlink'.frames["control"].receiver <= chassis.boot
      BY <1>k, <2>1, SilenceFacts
    <2> QED
      BY <1>k, <2>1, <2>2, <2>3 DEF KnownInv
  <1>3. CASE RebootGimbal
    <2>1. /\ gimbal.boot + chassis.boot < MaxBoot
          /\ gimbal' = NewGimbal(gimbal.boot + 1)
          /\ chassis' = chassis /\ downlink' = downlink
      BY <1>3 DEF RebootGimbal
    <2>2. gimbal.boot + 1 \in 1 .. MaxBoot
      BY <1>t, <2>1, Bounds DEF GimbalBoards, ChassisBoards
    <2>3. gimbal'.peer.boot = 0 /\ gimbal'.pub.clear_peer = 0 /\ gimbal'.bound = 0
      BY <1>t, <2>1, <2>2, NewBoards
    <2> QED
      BY <1>n, <1>k, <2>1, <2>3 DEF KnownInv
  <1>4. CASE RebootChassis
    <2>1. /\ gimbal.boot + chassis.boot < MaxBoot
          /\ chassis' = NewChassis(chassis.boot + 1)
          /\ gimbal' = gimbal /\ downlink' = downlink
      BY <1>4 DEF RebootChassis
    <2>2. chassis.boot + 1 \in 1 .. MaxBoot
      BY <1>t, <2>1, Bounds DEF GimbalBoards, ChassisBoards
    <2>3. chassis'.boot = chassis.boot + 1
      BY <1>t, <2>1, <2>2, NewBoards
    <2> QED
      BY <1>n, <1>c, <1>k, <2>1, <2>3 DEF KnownInv
  <1>5. CASE Tick
    <2>1. downlink' = (IF downlink = Silence THEN Silence ELSE [downlink EXCEPT !.age = @ + 1])
      BY <1>5 DEF Tick
    <2>2. downlink'.frames = fs
      BY <1>t, <2>1
    <2>3. gimbal.peer \in Peers
      BY <1>t DEF GimbalBoards
    <2>4. /\ gimbal'.peer.boot = gimbal.peer.boot /\ gimbal'.pub = gimbal.pub
          /\ gimbal'.bound = gimbal.bound /\ chassis'.boot = chassis.boot
      BY <1>t, <1>5, <2>3, TickFacts, AgedValueFacts
    <2> QED
      BY <1>k, <2>2, <2>4 DEF KnownInv
  <1>6. CASE UNCHANGED vars
    BY <1>k, <1>6 DEF vars, KnownInv
  <1> QED
    BY <1>1, <1>2, <1>3, <1>4, <1>5, <1>6 DEF Next

Events == Nat \X Nat

LEMMA Order ==
    /\ \A e \in Events : NotAfter(e, e)
    /\ \A d, e \in Events : NotAfter(d, e) /\ NotAfter(e, d) => d = e
    /\ \A d, e, f \in Events : NotAfter(d, e) /\ NotAfter(e, f) => NotAfter(d, f)
  <1>1. ASSUME NEW e \in Events PROVE NotAfter(e, e)
    BY DEF Events, NotAfter
  <1>2. ASSUME NEW d \in Events, NEW e \in Events, NotAfter(d, e), NotAfter(e, d) PROVE d = e
    <2>1. d[1] \in Nat /\ d[2] \in Nat /\ e[1] \in Nat /\ e[2] \in Nat
          /\ d = <<d[1], d[2]>> /\ e = <<e[1], e[2]>>
      BY DEF Events
    <2>2. d[1] = e[1] /\ d[2] = e[2]
      BY <1>2, <2>1 DEF NotAfter
    <2> QED
      BY <2>1, <2>2
  <1>3. ASSUME NEW d \in Events, NEW e \in Events, NEW f \in Events,
               NotAfter(d, e), NotAfter(e, f)
        PROVE  NotAfter(d, f)
    <2>1. d[1] \in Nat /\ d[2] \in Nat /\ e[1] \in Nat /\ e[2] \in Nat /\ f[1] \in Nat /\ f[2] \in Nat
      BY DEF Events
    <2> QED
      BY <1>3, <2>1 DEF NotAfter
  <1> QED
    BY <1>1, <1>2, <1>3

LEMMA EventTypes ==
    ASSUME TypesInv
    PROVE  /\ \A v \in Controls : Event(v) \in Events
           /\ \A g \in GimbalBoards : Newest(g) \in Events
           /\ \A c \in ChassisBoards : c.cleared \in Events /\ c.control \in Controls
           /\ obeyed \subseteq Events
  <1>1. /\ \A n \in KnownBoots : n \in Nat
        /\ \A n \in 0 .. MaxClear : n \in Nat
        /\ \A n \in 1 .. MaxClear : n \in Nat
        /\ \A n \in 1 .. MaxBoot : n \in Nat
    BY Bounds DEF TypesInv, KnownBoots
  <1>2. obeyed \subseteq KnownBoots \X (1 .. MaxClear)
    BY DEF TypesInv
  <1>3. \A v \in Controls : Event(v) \in Events
    BY <1>1 DEF Controls, Event, Events
  <1>4. \A g \in GimbalBoards : Newest(g) \in Events
    BY <1>1 DEF GimbalBoards, Newest, Events
  <1>5. \A c \in ChassisBoards : c.cleared \in Events /\ c.control \in Controls
    BY <1>1 DEF ChassisBoards, Events
  <1>6. obeyed \subseteq Events
    BY <1>1, <1>2 DEF Events
  <1> QED
    BY <1>3, <1>4, <1>5, <1>6

(* Gestures and boots only lead on.                                        *)
LEMMA OrderLeadsOn ==
    ASSUME NEW v, Event(v) \in Events, NEW g, Newest(g) \in Events, NEW h, Newest(h) \in Events,
           NotAfter(Newest(g), Newest(h)), NEW c, NEW done, InOrder(v, g, c, done)
    PROVE  InOrder(v, h, c, done)
  BY Order DEF InOrder

(* The chassis obeys an event once: it is new to this boot, and everything *)
(* that is still on its way is not older.                                  *)
LEMMA ObeyedOnce ==
    ASSUME NEW v, Event(v) \in Events, v.clear # 0, NEW g, Newest(g) \in Events,
           NEW c, c.cleared \in Events, NEW d, NEW done \in SUBSET Events,
           v.receiver = c.boot, Event(v) # c.cleared,
           d.boot = c.boot, d.cleared = Event(v),
           InOrder(v, g, c, done), NewestIsLast(g, c, done)
    PROVE  /\ Event(v) \notin done
           /\ NewestIsLast(g, d, done \cup {Event(v)})
           /\ InOrder(v, g, d, done \cup {Event(v)})
           /\ \A f : /\ Event(f) \in Events /\ InOrder(f, g, c, done)
                     /\ f.clear # 0 => NotAfter(Event(v), Event(f))
                     => InOrder(f, g, d, done \cup {Event(v)})
  <1>1. NotAfter(Event(v), Newest(g)) /\ NotAfter(c.cleared, Event(v))
    BY DEF InOrder
  <1>2. Event(v) \notin done
    BY DEF InOrder, Remembered
  <1>3. ASSUME NEW e \in Events, NEW receiver, NotAfter(Event(v), e),
               Remembered(e, receiver, c, done)
        PROVE  Remembered(e, receiver, d, done \cup {Event(v)})
    <2> SUFFICES ASSUME e \in done \cup {Event(v)}, receiver = d.boot PROVE d.cleared = e
      BY DEF Remembered
    <2>1. CASE e = Event(v)
      BY <2>1
    <2>2. CASE e \in done
      <3>1. c.cleared = e
        BY <1>3, <2>2 DEF Remembered
      <3>2. e = Event(v)
        BY <1>1, <1>3, <3>1, Order
      <3> QED
        BY <3>2
    <2> QED
      BY <2>1, <2>2
  <1>4. NewestIsLast(g, d, done \cup {Event(v)})
    <2>1. Remembered(Newest(g), g.pub.clear_peer, d, done \cup {Event(v)})
      BY <1>1, <1>3 DEF NewestIsLast
    <2> QED
      BY <1>1, <2>1 DEF NewestIsLast
  <1>5. InOrder(v, g, d, done \cup {Event(v)})
    BY <1>1, Order DEF InOrder, Remembered
  <1>6. ASSUME NEW f, Event(f) \in Events, InOrder(f, g, c, done),
               f.clear # 0 => NotAfter(Event(v), Event(f))
        PROVE  InOrder(f, g, d, done \cup {Event(v)})
    <2> SUFFICES ASSUME f.clear # 0
                 PROVE  /\ NotAfter(Event(f), Newest(g)) /\ NotAfter(d.cleared, Event(f))
                        /\ Remembered(Event(f), f.receiver, d, done \cup {Event(v)})
      BY DEF InOrder
    <2>1. NotAfter(Event(f), Newest(g)) /\ Remembered(Event(f), f.receiver, c, done)
      BY <1>6 DEF InOrder
    <2>2. Remembered(Event(f), f.receiver, d, done \cup {Event(v)})
      BY <1>3, <1>6, <2>1
    <2> QED
      BY <1>6, <2>1, <2>2
  <1> QED
    BY <1>2, <1>4, <1>5, <1>6

(* What the order says of a board depends on its boot, its memory and what *)
(* it keeps only.                                                          *)
LEMMA OrderDepends ==
    ASSUME NEW c, NEW d, d.boot = c.boot, d.cleared = c.cleared
    PROVE  /\ \A v, g, done : InOrder(v, g, c, done) => InOrder(v, g, d, done)
           /\ \A g, done : NewestIsLast(g, c, done) => NewestIsLast(g, d, done)
  BY DEF InOrder, NewestIsLast, Remembered

LEMMA SameEvent ==
    ASSUME NEW v, NEW w, w.clear = v.clear, w.sender = v.sender, w.receiver = v.receiver
    PROVE  /\ Event(w) = Event(v)
           /\ \A g, c, done : InOrder(v, g, c, done) => InOrder(w, g, c, done)
  BY DEF Event, InOrder, Remembered

(* What ChassisLoop() finds after its poll.                                *)
LEMMA PolledInOrder ==
    ASSUME TypesInv, ClearInv, NEW p \in ChassisBoards, Carried(p, chassis, downlink.frames)
    PROVE  /\ InOrder(p.control, gimbal, chassis, obeyed)
           /\ "control" \in DOMAIN downlink.frames => Behind(p, downlink.frames["control"])
  <1> DEFINE fs == downlink.frames
             f == fs["control"]
  <1>1. CarriedControl(p, chassis, fs) /\ Frames(fs)
    BY DEF Carried, TypesInv
  <1>2. /\ InOrder(chassis.control, gimbal, chassis, obeyed)
        /\ "control" \in DOMAIN fs => InOrder(f, gimbal, chassis, obeyed) /\ Behind(chassis, f)
    BY DEF ClearInv
  <1>3. CASE p.control = chassis.control
    BY <1>2, <1>3 DEF Behind
  <1>4. CASE p.control.clear = 0
    BY <1>4 DEF InOrder, Behind
  <1>5. CASE "control" \in DOMAIN fs /\ p.control = [f EXCEPT !.at = 0]
    <2>1. f \in Controls /\ p.control = [f EXCEPT !.at = 0]
      BY <1>1, <1>5 DEF Frames
    <2>2. InOrder(f, gimbal, chassis, obeyed)
      BY <1>2, <1>5
    <2>3. Event(f) \in Events
      BY <2>1, EventTypes
    <2> HIDE DEF f
    <2>4. /\ p.control.clear = f.clear /\ p.control.sender = f.sender
          /\ p.control.receiver = f.receiver
      BY <2>1 DEF Controls
    <2>5. Event(p.control) = Event(f) /\ InOrder(p.control, gimbal, chassis, obeyed)
      BY <2>2, <2>4, SameEvent
    <2>6. Behind(p, f)
      BY <2>3, <2>5, Order DEF Behind
    <2> QED
      BY <2>5, <2>6 DEF f
  <1> HIDE DEF fs
  <1> QED
    BY <1>1, <1>3, <1>4, <1>5 DEF CarriedControl, fs

(* ClearInv in terms of the next state.                                    *)
LEMMA ClearNext ==
    ASSUME GimbalClears(gimbal'), NewestIsLast(gimbal', chassis', obeyed'),
           InOrder(chassis'.control, gimbal', chassis', obeyed'),
           "control" \in DOMAIN downlink'.frames =>
              /\ InOrder(downlink'.frames["control"], gimbal', chassis', obeyed')
              /\ Behind(chassis', downlink'.frames["control"])
    PROVE  ClearInv'
  BY DEF ClearInv, GimbalClears, NewestIsLast, InOrder, Behind, Remembered, Newest, Event, NotAfter

LEMMA ClearStep == TypesInv /\ FitsInv /\ KnownInv /\ ClearInv /\ [Next]_vars => ClearInv'
  <1> SUFFICES ASSUME TypesInv, FitsInv, KnownInv, ClearInv, [Next]_vars PROVE ClearInv'
    OBVIOUS
  <1> DEFINE fs == downlink.frames
             f == fs["control"]
  <1>t. /\ profile \in Profiles /\ gimbal \in GimbalBoards /\ chassis \in ChassisBoards
        /\ Frames(fs) /\ downlink = [age |-> downlink.age, frames |-> fs]
    BY DEF TypesInv
  <1>c. /\ GimbalClears(gimbal) /\ NewestIsLast(gimbal, chassis, obeyed)
        /\ InOrder(chassis.control, gimbal, chassis, obeyed)
        /\ "control" \in DOMAIN fs => InOrder(f, gimbal, chassis, obeyed) /\ Behind(chassis, f)
    BY DEF ClearInv
  <1>e. /\ Newest(gimbal) \in Events /\ chassis.cleared \in Events /\ obeyed \in SUBSET Events
        /\ Event(chassis.control) \in Events
        /\ "control" \in DOMAIN fs => Event(f) \in Events
    BY <1>t, EventTypes DEF Frames
  <1>f. ~(gimbal.control.run /\ gimbal.control.clear # 0)
    BY DEF FitsInv
  <1>1. ASSUME NEW input \in Inputs, NEW produces \in BOOLEAN, NEW hears \in BOOLEAN,
               GimbalLoop(input, produces, hears)
        PROVE  ClearInv'
    <2>1. PICK p \in GimbalBoards :
             /\ PolledFrom(p)
             /\ gimbal' \in GimbalBoards /\ RoundFrom(gimbal', p, input)
             /\ downlink' = (IF downlink = Silence THEN DownBatch(p) ELSE downlink)
             /\ unheard' = (IF gimbal'.armed /\ input # "none" THEN 0 ELSE unheard)
             /\ turn = "gimbal" /\ turn' = "chassis"
             /\ UNCHANGED <<profile, chassis, obeyed>>
      BY <1>1, LoopFacts
    <2>2. p.control = gimbal.control /\ p.pub = gimbal.pub /\ p.boot = gimbal.boot
          /\ p.clear_id = gimbal.clear_id
      BY <2>1 DEF PolledFrom
    <2>3. PICK n \in GimbalBoards : n = gimbal'
      BY <2>1
    <2>4. /\ n.boot = gimbal.boot /\ n.clear_id \in {gimbal.clear_id, gimbal.clear_id + 1}
          /\ n.pub.last_clear = n.clear_id
          /\ n.control.clear # 0 => n.control.clear = n.clear_id
                                    /\ n.control.receiver = n.pub.clear_peer
          /\ n.clear_id = gimbal.clear_id => n.pub.clear_peer = gimbal.pub.clear_peer
      BY <1>c, <2>1, <2>2, <2>3 DEF RoundFrom, GimbalClears
    <2>5. GimbalClears(n)
      BY <2>4 DEF GimbalClears
    <2>6. gimbal.clear_id \in Nat /\ gimbal.boot \in Nat
      BY <1>t, Bounds DEF GimbalBoards
    <2>7. Newest(n) \in Events
      BY <2>3, EventTypes
    <2>8. NotAfter(Newest(gimbal), Newest(n))
      BY <2>4, <2>6 DEF Newest, NotAfter
    <2>9. NewestIsLast(n, chassis, obeyed)
      <3>1. \A e \in obeyed : NotAfter(e, Newest(n))
        BY <1>c, <1>e, <2>7, <2>8, Order DEF NewestIsLast
      <3>2. NotAfter(chassis.cleared, Newest(n))
        BY <1>c, <1>e, <2>7, <2>8, Order DEF NewestIsLast
      <3>3. Remembered(Newest(n), n.pub.clear_peer, chassis, obeyed)
        <4>1. CASE n.clear_id = gimbal.clear_id
          BY <1>c, <2>4, <4>1 DEF NewestIsLast, Newest
        <4>2. CASE n.clear_id = gimbal.clear_id + 1
          <5>1. ~NotAfter(Newest(n), Newest(gimbal))
            BY <2>4, <2>6, <4>2 DEF Newest, NotAfter
          <5>2. Newest(n) \notin obeyed
            BY <1>c, <5>1 DEF NewestIsLast
          <5> QED
            BY <5>2 DEF Remembered
        <4> QED
          BY <2>4, <4>1, <4>2
      <3> QED
        BY <3>1, <3>2, <3>3 DEF NewestIsLast
    <2>10. InOrder(chassis.control, n, chassis, obeyed)
      BY <1>c, <1>e, <2>7, <2>8, OrderLeadsOn
    <2>11. "control" \in DOMAIN downlink'.frames =>
              /\ InOrder(downlink'.frames["control"], n, chassis, obeyed)
              /\ Behind(chassis, downlink'.frames["control"])
      <3>1. CASE downlink # Silence
        <4>1. downlink' = downlink
          BY <2>1, <3>1
        <4>2. "control" \in DOMAIN fs => InOrder(f, n, chassis, obeyed)
          BY <1>c, <1>e, <2>7, <2>8, OrderLeadsOn
        <4> QED
          BY <1>c, <4>1, <4>2
      <3>2. CASE downlink = Silence
        <4> DEFINE b == DownBatch(p).frames
                   w == b["control"]
        <4>1. downlink'.frames = b
          BY <2>1, <3>2
        <4>2. "control" \in DOMAIN b /\ w.clear # 0 =>
                  /\ w.clear = gimbal.control.clear
                  /\ w.sender = gimbal.boot
                  /\ w.receiver = gimbal.control.receiver
          BY <1>t, <1>f, <2>2, BatchFacts
        <4>3. /\ gimbal.control.clear # 0 =>
                    /\ gimbal.control.clear = gimbal.clear_id
                    /\ gimbal.control.receiver = gimbal.pub.clear_peer
          BY <1>c DEF GimbalClears
        <4> HIDE DEF w
        <4>4. "control" \in DOMAIN b /\ w.clear # 0 =>
                  Event(w) = Newest(gimbal) /\ w.receiver = gimbal.pub.clear_peer
          BY <4>2, <4>3 DEF Event, Newest
        <4>5. "control" \in DOMAIN b => InOrder(w, n, chassis, obeyed)
          <5> SUFFICES ASSUME "control" \in DOMAIN b, w.clear # 0
                       PROVE  /\ NotAfter(Event(w), Newest(n)) /\ NotAfter(chassis.cleared, Event(w))
                              /\ Remembered(Event(w), w.receiver, chassis, obeyed)
            BY DEF InOrder
          <5> QED
            BY <1>c, <2>8, <4>4 DEF NewestIsLast
        <4>6. "control" \in DOMAIN b => Behind(chassis, w)
          BY <1>c, <4>4 DEF Behind, InOrder
        <4> QED
          BY <4>1, <4>5, <4>6 DEF w
      <3> QED
        BY <3>1, <3>2
    <2>12. chassis' = chassis /\ obeyed' = obeyed
      BY <2>1
    <2> QED
      BY <2>3, <2>5, <2>9, <2>10, <2>11, <2>12, ClearNext
  <1>2. ASSUME NEW reads \in Reads(downlink), NEW kept \in Survivors(downlink, reads),
               ChassisLoop(reads, kept)
        PROVE  ClearInv'
    <2>1. PICK p \in ChassisBoards :
             /\ Carried(p, chassis, downlink.frames)
             /\ p.online => p.peer.boot # 0
             /\ chassis' = (IF Clears(p) THEN [p EXCEPT !.cleared = Event(p.control)] ELSE p)
             /\ obeyed' = (IF Clears(p) THEN obeyed \cup {Event(p.control)} ELSE obeyed)
             /\ downlink' = Silence \/ (downlink' = downlink /\ downlink.age # MaxDelay)
             /\ turn = "chassis" /\ turn' = "tick"
             /\ UNCHANGED <<profile, gimbal, unheard>>
      BY <1>2, ChassisFacts
    <2>2. p.boot = chassis.boot /\ p.cleared = chassis.cleared
      BY <2>1 DEF Carried
    <2>3. InOrder(p.control, gimbal, chassis, obeyed) /\ ("control" \in DOMAIN fs => Behind(p, f))
      BY <2>1, PolledInOrder
    <2>4. Event(p.control) \in Events
      BY EventTypes
    <2>5. "control" \in DOMAIN downlink'.frames =>
              downlink'.frames["control"] = f /\ "control" \in DOMAIN fs
      BY <2>1, SilenceFacts
    <2>6. gimbal' = gimbal
      BY <2>1
    <2>7. CASE ~Clears(p)
      <3>1. chassis' = p /\ obeyed' = obeyed
        BY <2>1, <2>7
      <3>2. /\ NewestIsLast(gimbal, p, obeyed) /\ InOrder(p.control, gimbal, p, obeyed)
            /\ "control" \in DOMAIN fs => InOrder(f, gimbal, p, obeyed)
        BY <1>c, <2>2, <2>3, OrderDepends
      <3> QED
        BY <1>c, <2>3, <2>5, <2>6, <3>1, <3>2, ClearNext
    <2>8. CASE Clears(p)
      <3> DEFINE e == Event(p.control)
                 d == [p EXCEPT !.cleared = e]
                 done == obeyed \cup {e}
      <3>1. /\ p.control.clear # 0 /\ p.control.receiver = p.boot /\ e # p.cleared
        BY <2>8 DEF Clears, ControlValid, Event
      <3>2. chassis' = d /\ obeyed' = done
        BY <2>1, <2>8
      <3>3. e \in Events
        BY <2>4
      <3> HIDE DEF e
      <3>4. d.boot = chassis.boot /\ d.cleared = e /\ d.control = p.control
        BY <2>2 DEF ChassisBoards
      <3> HIDE DEF d
      <3>5. /\ NewestIsLast(gimbal, d, done) /\ InOrder(p.control, gimbal, d, done)
            /\ \A v : /\ Event(v) \in Events /\ InOrder(v, gimbal, chassis, obeyed)
                      /\ v.clear # 0 => NotAfter(e, Event(v))
                      => InOrder(v, gimbal, d, done)
        BY <1>c, <1>e, <2>2, <2>3, <2>4, <3>1, <3>4, ObeyedOnce DEF e
      <3>6. "control" \in DOMAIN fs => InOrder(f, gimbal, d, done)
        <4>1. "control" \in DOMAIN fs /\ f.clear # 0 => NotAfter(e, Event(f))
          BY <2>3, <3>1 DEF Behind, e
        <4> QED
          BY <1>c, <1>e, <3>5, <4>1
      <3>7. "control" \in DOMAIN fs => Behind(d, f)
        BY <2>3, <3>4 DEF Behind
      <3> QED
        BY <1>c, <2>5, <2>6, <3>2, <3>4, <3>5, <3>6, <3>7, ClearNext
    <2> QED
      BY <2>7, <2>8
  <1>3. CASE RebootGimbal
    <2>1. /\ gimbal.boot + chassis.boot < MaxBoot
          /\ gimbal' = NewGimbal(gimbal.boot + 1)
          /\ chassis' = chassis /\ downlink' = downlink /\ obeyed' = obeyed
      BY <1>3 DEF RebootGimbal
    <2>2. gimbal.boot + 1 \in 1 .. MaxBoot /\ gimbal.boot \in Nat /\ gimbal.clear_id \in Nat
      BY <1>t, <2>1, Bounds DEF GimbalBoards, ChassisBoards
    <2>3. PICK n \in GimbalBoards : n = NewGimbal(gimbal.boot + 1)
      BY <1>t, <2>2, NewBoards
    <2>4. /\ n.boot = gimbal.boot + 1 /\ n.clear_id = 0 /\ n.pub.last_clear = 0
          /\ n.control.clear = 0
      BY <1>t, <2>2, <2>3, NewBoards
    <2>5. GimbalClears(n)
      BY <2>4 DEF GimbalClears
    <2>6. Newest(n) \in Events
      BY EventTypes
    <2>7. NotAfter(Newest(gimbal), Newest(n)) /\ ~NotAfter(Newest(n), Newest(gimbal))
      BY <2>2, <2>4 DEF Newest, NotAfter
    <2>8. Newest(n) \notin obeyed
      BY <1>c, <2>7 DEF NewestIsLast
    <2>9. NewestIsLast(n, chassis, obeyed)
      <3>1. \A e \in obeyed : NotAfter(e, Newest(n))
        BY <1>c, <1>e, <2>6, <2>7, Order DEF NewestIsLast
      <3>2. NotAfter(chassis.cleared, Newest(n))
        BY <1>c, <1>e, <2>6, <2>7, Order DEF NewestIsLast
      <3> QED
        BY <2>8, <3>1, <3>2 DEF NewestIsLast, Remembered
    <2>10. /\ InOrder(chassis.control, n, chassis, obeyed)
           /\ "control" \in DOMAIN fs => InOrder(f, n, chassis, obeyed)
      BY <1>c, <1>e, <2>6, <2>7, OrderLeadsOn
    <2> QED
      BY <1>c, <2>1, <2>3, <2>5, <2>9, <2>10, ClearNext
  <1>4. CASE RebootChassis
    <2>1. /\ gimbal.boot + chassis.boot < MaxBoot
          /\ chassis' = NewChassis(chassis.boot + 1)
          /\ gimbal' = gimbal /\ downlink' = downlink /\ obeyed' = obeyed
      BY <1>4 DEF RebootChassis
    <2>2. chassis.boot + 1 \in 1 .. MaxBoot /\ chassis.boot \in Nat
      BY <1>t, <2>1, Bounds DEF GimbalBoards, ChassisBoards
    <2>3. PICK d \in ChassisBoards : d = NewChassis(chassis.boot + 1)
      BY <1>t, <2>2, NewBoards
    <2>4. d.boot = chassis.boot + 1 /\ d.cleared = <<0, 0>> /\ d.control.clear = 0
      BY <1>t, <2>2, <2>3, NewBoards
    <2>5. \A e \in Events : NotAfter(d.cleared, e)
      BY <2>4 DEF Events, NotAfter
    <2>6. gimbal.pub.clear_peer \in Nat /\ gimbal.pub.clear_peer <= chassis.boot
      BY <1>t, Bounds DEF KnownInv, GimbalBoards, Pubs, KnownBoots
    <2>7. gimbal.pub.clear_peer # d.boot
      BY <2>2, <2>4, <2>6
    <2>8. NewestIsLast(gimbal, d, obeyed)
      BY <1>c, <1>e, <2>5, <2>7 DEF NewestIsLast, Remembered
    <2>9. InOrder(d.control, gimbal, d, obeyed)
      BY <2>4 DEF InOrder
    <2>10. "control" \in DOMAIN fs => f.receiver # d.boot
      <3>1. "control" \in DOMAIN fs => f.receiver \in Nat /\ f.receiver <= chassis.boot
        BY <1>t, Bounds DEF KnownInv, Frames, Controls, KnownBoots
      <3> QED
        BY <2>2, <2>4, <3>1
    <2>11. "control" \in DOMAIN fs => InOrder(f, gimbal, d, obeyed) /\ Behind(d, f)
      BY <1>c, <1>e, <2>4, <2>5, <2>10 DEF InOrder, Remembered, Behind
    <2> QED
      BY <1>c, <2>1, <2>3, <2>8, <2>9, <2>11, ClearNext
  <1>5. CASE Tick
    <2>1. downlink' = (IF downlink = Silence THEN Silence ELSE [downlink EXCEPT !.age = @ + 1])
          /\ obeyed' = obeyed
      BY <1>5 DEF Tick
    <2>2. downlink'.frames = fs
      BY <1>t, <2>1
    <2>3. gimbal.control \in Controls /\ chassis.control \in Controls
      BY <1>t DEF GimbalBoards, ChassisBoards
    <2>4. /\ gimbal'.boot = gimbal.boot /\ gimbal'.clear_id = gimbal.clear_id
          /\ gimbal'.pub = gimbal.pub
          /\ gimbal'.control.clear = gimbal.control.clear
          /\ gimbal'.control.receiver = gimbal.control.receiver
      BY <1>t, <1>5, <2>3, TickFacts, AgedValueFacts
    <2>5. /\ chassis'.boot = chassis.boot /\ chassis'.cleared = chassis.cleared
          /\ chassis'.control.clear = chassis.control.clear
          /\ chassis'.control.sender = chassis.control.sender
          /\ chassis'.control.receiver = chassis.control.receiver
      BY <1>t, <1>5, <2>3, TickFacts, AgedValueFacts
    <2>6. PICK n \in GimbalBoards : n = gimbal'
      BY <1>5, TickFacts
    <2>7. PICK d \in ChassisBoards : d = chassis'
      BY <1>5, TickFacts
    <2>8. GimbalClears(n)
      BY <1>c, <2>4, <2>6 DEF GimbalClears
    <2>9. Newest(n) = Newest(gimbal) /\ n.pub = gimbal.pub
      BY <2>4, <2>6 DEF Newest
    <2>10. /\ \A v : InOrder(v, gimbal, chassis, obeyed) => InOrder(v, n, d, obeyed)
           /\ NewestIsLast(n, d, obeyed)
      BY <1>c, <2>5, <2>7, <2>9 DEF InOrder, NewestIsLast, Remembered
    <2>11. Event(d.control) = Event(chassis.control) /\ InOrder(d.control, n, d, obeyed)
      BY <1>c, <2>5, <2>7, <2>10, SameEvent
    <2>12. "control" \in DOMAIN fs => InOrder(f, n, d, obeyed) /\ Behind(d, f)
      BY <1>c, <2>5, <2>7, <2>10, <2>11 DEF Behind
    <2> QED
      BY <2>1, <2>2, <2>6, <2>7, <2>8, <2>10, <2>11, <2>12, ClearNext
  <1>6. CASE UNCHANGED vars
    BY <1>c, <1>6, ClearNext DEF vars
  <1> QED
    BY <1>1, <1>2, <1>3, <1>4, <1>5, <1>6 DEF Next

LEMMA ClearsOnceStep ==
    ASSUME TypesInv, FitsInv, ClearInv, [Next]_vars
    PROVE  [\A e \in obeyed : chassis'.cleared = e => chassis.cleared = e]_vars
  <1> DEFINE A == \A e \in obeyed : chassis'.cleared = e => chassis.cleared = e
  <1>t. profile \in Profiles /\ gimbal \in GimbalBoards /\ chassis \in ChassisBoards
        /\ obeyed \subseteq KnownBoots \X (1 .. MaxClear)
    BY DEF TypesInv
  <1>0. chassis'.cleared = chassis.cleared => A
    OBVIOUS
  <1>1. ASSUME NEW input \in Inputs, NEW produces \in BOOLEAN, NEW hears \in BOOLEAN,
               GimbalLoop(input, produces, hears)
        PROVE  A
    BY <1>0, <1>1 DEF GimbalLoop
  <1>2. ASSUME NEW reads \in Reads(downlink), NEW kept \in Survivors(downlink, reads),
               ChassisLoop(reads, kept)
        PROVE  A
    <2>1. PICK p \in ChassisBoards :
             /\ Carried(p, chassis, downlink.frames)
             /\ p.online => p.peer.boot # 0
             /\ chassis' = (IF Clears(p) THEN [p EXCEPT !.cleared = Event(p.control)] ELSE p)
             /\ obeyed' = (IF Clears(p) THEN obeyed \cup {Event(p.control)} ELSE obeyed)
             /\ downlink' = Silence \/ (downlink' = downlink /\ downlink.age # MaxDelay)
             /\ turn = "chassis" /\ turn' = "tick"
             /\ UNCHANGED <<profile, gimbal, unheard>>
      BY <1>2, ChassisFacts
    <2>2. p.boot = chassis.boot /\ p.cleared = chassis.cleared
      BY <2>1 DEF Carried
    <2>3. InOrder(p.control, gimbal, chassis, obeyed)
      BY <2>1, PolledInOrder
    <2>4. CASE ~Clears(p)
      <3>1. chassis'.cleared = chassis.cleared
        BY <2>1, <2>2, <2>4
      <3> QED
        BY <3>1
    <2>5. CASE Clears(p)
      <3> DEFINE e == Event(p.control)
      <3>1. p.control.clear # 0 /\ p.control.receiver = p.boot
        BY <2>5 DEF Clears, ControlValid
      <3>2. e \in obeyed => chassis.cleared = e
        BY <2>2, <2>3, <3>1 DEF InOrder, Remembered
      <3>3. chassis' = [p EXCEPT !.cleared = e]
        BY <2>1, <2>5
      <3> HIDE DEF e
      <3>4. chassis'.cleared = e
        BY <3>3 DEF ChassisBoards
      <3> QED
        BY <3>2, <3>4
    <2> QED
      BY <2>4, <2>5
  <1>3. ASSUME RebootGimbal PROVE A
    BY <1>0, <1>3 DEF RebootGimbal
  <1>4. ASSUME RebootChassis PROVE A
    <2>1. chassis' = NewChassis(chassis.boot + 1) /\ gimbal.boot + chassis.boot < MaxBoot
      BY <1>4 DEF RebootChassis
    <2>2. chassis.boot + 1 \in 1 .. MaxBoot
      BY <1>t, <2>1, Bounds DEF GimbalBoards, ChassisBoards
    <2>3. chassis'.cleared = <<0, 0>>
      BY <1>t, <2>1, <2>2, NewBoards
    <2>4. ASSUME NEW e \in obeyed PROVE e # <<0, 0>>
      <3>1. e[2] \in 1 .. MaxClear
        BY <1>t
      <3>2. <<0, 0>>[2] = 0 /\ 0 \notin 1 .. MaxClear
        BY <1>t, Bounds
      <3> QED
        BY <3>1, <3>2
    <2> QED
      BY <2>3, <2>4
  <1>5. ASSUME Tick PROVE A
    BY <1>0, <1>5, TickFacts
  <1> HIDE DEF A
  <1>6. Next => A
    BY <1>1, <1>2, <1>3, <1>4, <1>5 DEF Next
  <1>7. [A]_vars
    BY <1>6
  <1> QED
    BY <1>7 DEF A

LEMMA ClearInit == Init => KnownInv /\ ClearInv
  <1> SUFFICES ASSUME Init PROVE KnownInv /\ ClearInv
    OBVIOUS
  <1>1. profile \in Profiles /\ gimbal = NewGimbal(1) /\ chassis = NewChassis(1)
        /\ downlink = Silence /\ obeyed = {}
    BY DEF Init
  <1>2. 1 \in 1 .. MaxBoot
    BY <1>1, Bounds
  <1>3. KnownInv
    BY <1>1, <1>2, NewBoards, SilenceFacts DEF KnownInv
  <1>4. gimbal.boot = 1 /\ gimbal.clear_id = 0 /\ chassis.cleared = <<0, 0>>
        /\ gimbal.pub.last_clear = 0 /\ gimbal.control.clear = 0 /\ chassis.control.clear = 0
    BY <1>1, <1>2, NewBoards
  <1>5. NotAfter(chassis.cleared, Newest(gimbal))
    BY <1>4 DEF NotAfter, Newest
  <1>6. ClearInv
    BY <1>1, <1>4, <1>5, SilenceFacts
       DEF ClearInv, GimbalClears, NewestIsLast, InOrder, Remembered
  <1> QED
    BY <1>3, <1>6

(* A clear gesture is obeyed once, whatever is lost, delayed or repeated   *)
(* and whichever board reboots: the publisher binds the event to the peer  *)
(* of its moment, and the consumer remembers the last one it obeyed.       *)
THEOREM OneClearPerGesture == Spec => ClearsOnce
  <1>1. TypesInv /\ FitsInv /\ ClearInv /\ [Next]_vars =>
            [\A e \in obeyed : chassis'.cleared = e => chassis.cleared = e]_vars
    BY ClearsOnceStep
  <1>2. Init => TypesInv /\ FitsInv /\ KnownInv /\ ClearInv
    BY TypesInit, ClearInit
  <1>3. TypesInv /\ FitsInv /\ KnownInv /\ ClearInv /\ [Next]_vars =>
            TypesInv' /\ FitsInv' /\ KnownInv' /\ ClearInv'
    BY TypesStep, KnownStep, ClearStep
  <1> QED
    BY <1>1, <1>2, <1>3, PTL DEF Spec, ClearsOnce
=============================================================================
