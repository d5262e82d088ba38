--------------------------- MODULE CommandGateProofs ---------------------------
(***************************************************************************)
(* Theorems about CommandGate, for all profiles, priorities, timeouts and  *)
(* lengths of the run: types and the queue, clicks and the gate they were  *)
(* made under, the latched safe state, and one shot for a press.           *)
(***************************************************************************)
EXTENDS CommandGate, TLAPS

-----------------------------------------------------------------------------
(* The inductive invariants.                                               *)

Passes  == [now : Nat, gate : Gate, run : BOOLEAN, permitted : BOOLEAN, observed : Nat, budget : Nat]
Outputs == [run : BOOLEAN, intent : Intent, gate : Gate]

TypesInv ==
    /\ profile \in Profiles
    /\ clock \in Nat \ {0}
    /\ received \in Seq(RemoteState) /\ frames \in Seq(Nat)
    /\ loss \in BOOLEAN /\ lost \in BOOLEAN /\ putting \in BOOLEAN /\ latched \in BOOLEAN
    /\ snapshot \in Nat /\ cached \in Nat
    /\ gate \in Gate /\ seen \in Nat /\ seen <= gate.revision
    /\ pc \in {"Sleep", "Frames", "Decide"}
    /\ pass \in Passes /\ gesture \in Gesture /\ output \in Outputs
    /\ consumed \in Nat /\ safe_at \in Nat /\ born \in Nat /\ origin \in Nat
    /\ shots \in Seq(Nat)

(* How many frames have left the queue, handed out or given up.            *)
Taken == Len(received) - Len(frames)

(* The queue holds the newest frames.                                      *)
QueueInv ==
    /\ Len(frames) <= QueueCapacity /\ Len(frames) <= Len(received)
    /\ \A i \in 1 .. Len(frames) : frames[i] = Taken + i
    /\ \A i \in 1 .. Len(received) : received[i].stamp.seq = i
    /\ loss => frames = <<>> /\ lost

(* What names a frame names one that was received, and what names a click  *)
(* one that was made.                                                      *)
NameInv ==
    /\ snapshot <= Len(received) /\ cached <= snapshot
    /\ pass.observed <= Len(received)
    /\ consumed <= gesture.event_sequence
    /\ output.intent.event <= gesture.event_sequence
    /\ gesture.pending_event \in {0, gesture.event_sequence}

(* Nothing received, latched or closed is of the future.                   *)
TimeInv ==
    /\ \A i \in 1 .. Len(received) : received[i].stamp.at <= clock
    /\ safe_at <= clock

(* A click that is pending was made in the session the command thread      *)
(* knows.                                                                  *)
SessionInv ==
    /\ pc # "Sleep" => pass.gate.revision = seen
    /\ gesture.pending_event # 0 => born = seen
    /\ EventsDieWithTheirGate

(* The receiver does not run during a pass.                                *)
PassInv ==
    /\ pc # "Sleep" =>
          /\ \A i \in 1 .. Len(received) : received[i].stamp.at <= pass.now
          /\ pass.now <= clock
          /\ gate.revision = seen => pass.gate = gate
          /\ gate.revision # seen => \A i \in 1 .. Len(received) : received[i].stamp.at <= gate.boundary

LatchInv ==
    /\ safe_at <= gate.boundary \/ (latched /\ gate.revision = seen)
    /\ pc # "Sleep" /\ pass.run => safe_at <= pass.gate.boundary
    /\ SafeOutlastsTheGate

(* While no frame has been given up, the gesture has seen them all; if it  *)
(* fell back to an older one, it waits for a release, and it cannot come   *)
(* upon one in between.                                                    *)
OrderInv ==
    /\ pc = "Frames" => Len(frames) <= pass.budget
    /\ pc = "Decide" => frames = <<>>
    /\ pc # "Sleep" => putting \/ cached = snapshot
    /\ pc # "Sleep" => pass.observed \in {cached, Taken}
    /\ LET last == gesture.last_frame.seq
       IN  /\ last <= Taken
           /\ last # 0 => gesture.last_frame = Frame(last).stamp
           /\ last < Taken =>
                 /\ gesture.require_release /\ gesture.pending_event = 0
                 /\ putting \/ snapshot >= Taken \/ snapshot <= last
                 /\ cached >= Taken \/ cached <= last

NewInv ==
    /\ gesture.pending_event # 0 /\ gate.revision = seen => gesture.click_stamp.at > gate.boundary
    /\ gesture.pending_event # 0 /\ pc # "Sleep" => gesture.click_stamp.at > pass.gate.boundary
    /\ NoOldClick

(* The left button was up between two frames.                              *)
Between(a, b) == \E n \in a + 1 .. b - 1 : ~Frame(n).left

Clicked(n) == n \in 1 .. Len(received) /\ Frame(n).left /\ Frame(n).right /\ Frame(n).switch = "Up"

(* k is the frame of the newest click, 0 before the first.                 *)
PressInv(k) ==
    LET last == gesture.last_frame.seq
    IN  /\ k = 0 <=> gesture.event_sequence = 0
        /\ k # 0 => Clicked(k)
        /\ k <= Taken /\ last <= Len(received)
        /\ pc = "Frames" => cached <= Taken + pass.budget
        /\ pc = "Decide" => cached <= Taken
        /\ pc # "Sleep" => pass.observed = cached \/ (k <= pass.observed /\ pass.observed <= Taken)
        /\ pc # "Sleep" /\ pass.observed < k => putting \/ snapshot = cached \/ snapshot >= k
        /\ ~gesture.require_release /\ ~gesture.left =>
              k = 0 \/ \E n \in k + 1 .. last : ~Frame(n).left
        /\ last < k =>
              /\ gesture.require_release /\ gesture.pending_event = 0
              /\ putting \/ snapshot >= k \/ snapshot <= last
              /\ cached >= k \/ cached <= last

ClickInv(k) ==
    /\ gesture.pending_event # 0 => gesture.click_stamp.seq = k
    /\ output.intent.event # 0 =>
          LET o == output.intent.click.seq
          IN  /\ Clicked(o) /\ o <= k
              /\ output.intent.event = gesture.event_sequence => o = k
              /\ output.intent.event < gesture.event_sequence => Between(o, k)
    /\ shots # <<>> =>
          LET s == shots[Len(shots)]
          IN  /\ s <= k
              /\ consumed < gesture.event_sequence => Between(s, k)
              /\ output.intent.event > consumed => Between(s, output.intent.click.seq)
    /\ \A i \in 1 .. Len(shots) : Clicked(shots[i])
    /\ \A i, j \in 1 .. Len(shots) : i + 1 = j => Between(shots[i], shots[j])

ShotInv == \E k \in Nat : PressInv(k) /\ ClickInv(k)
-----------------------------------------------------------------------------
(* MouseShooterGesture: what a frame changes.                              *)

LEMMA WithdrawFacts ==
    ASSUME NEW g \in Gesture
    PROVE  /\ Withdraw(g) \in Gesture
           /\ Withdraw(g).last_frame = g.last_frame
           /\ Withdraw(g).event_sequence = g.event_sequence
           /\ Withdraw(g).pending_event = 0
           /\ Withdraw(g).require_release
  BY DEF Withdraw, ClearFeed, Gesture, Stamp, NoStamp, FeedKinds

(* Two gestures of which the second is the first with nothing pending, or  *)
(* what was pending.                                                       *)
KeepsClick(g, h) ==
    /\ h \in Gesture
    /\ h.last_frame = g.last_frame /\ h.event_sequence = g.event_sequence
    /\ h.left = g.left /\ h.require_release = g.require_release
    /\ h.selected = g.selected /\ h.right = g.right
    /\ h.pending_event # 0 => h.pending_event = g.pending_event /\ h.click_stamp = g.click_stamp

LEMMA ClearFeedKeeps ==
    ASSUME NEW g \in Gesture
    PROVE  KeepsClick(g, ClearFeed(g))
  BY DEF KeepsClick, ClearFeed, Gesture, Stamp, NoStamp, FeedKinds

LEMMA ExpireKeeps ==
    ASSUME NEW g \in Gesture, NEW now \in Nat
    PROVE  KeepsClick(g, ExpireClick(g, now))
  <1> DEFINE h == [g EXCEPT !.pending_event = 0, !.click_stamp = NoStamp,
                            !.kind = IF @ = "ClickSingle" THEN "Idle" ELSE @]
  <1>1. KeepsClick(g, h)
    BY DEF KeepsClick, Gesture, Stamp, NoStamp, FeedKinds
  <1>2. KeepsClick(g, g)
    BY DEF KeepsClick
  <1> QED
    BY <1>1, <1>2 DEF ExpireClick

LEMMA AgedKeeps ==
    ASSUME NEW g \in Gesture, NEW now \in Nat
    PROVE  KeepsClick(g, Aged(g, now))
  <1> DEFINE h == IF RapidIsOver(g, now) THEN ClearFeed(g) ELSE g
  <1>1. KeepsClick(g, h)
    BY ClearFeedKeeps DEF KeepsClick
  <1>2. h \in Gesture
    BY <1>1 DEF KeepsClick
  <1>3. KeepsClick(h, ExpireClick(h, now))
    BY <1>2, ExpireKeeps
  <1> HIDE DEF h
  <1>4. KeepsClick(g, ExpireClick(h, now))
    BY <1>1, <1>3 DEF KeepsClick
  <1> QED
    BY <1>4 DEF Aged, h

(* A press makes a click of its frame or none at all.                      *)
Presses(g, f, h) ==
    /\ h \in Gesture
    /\ h.last_frame = g.last_frame
    /\ h.event_sequence \in {g.event_sequence, g.event_sequence + 1}
    /\ h.event_sequence # g.event_sequence =>
          /\ f.left /\ ~g.left
          /\ h.pending_event # 0 => h.pending_event = h.event_sequence /\ h.click_stamp = f.stamp
    /\ h.event_sequence = g.event_sequence /\ h.pending_event # 0 =>
          h.pending_event = g.pending_event /\ h.click_stamp = g.click_stamp
    /\ h.require_release = g.require_release
    /\ h.selected = g.selected /\ h.right = g.right

LEMMA PressFacts ==
    ASSUME NEW g \in Gesture, NEW f \in RemoteState
    PROVE  Presses(g, f, Press(g, f))
  <1> DEFINE h == [g EXCEPT !.press_ms = f.stamp.at, !.last_click_ms = f.stamp.at,
                            !.have_click = TRUE, !.have_press = TRUE]
             single == [h EXCEPT !.event_sequence = @ + 1, !.pending_event = g.event_sequence + 1,
                                 !.click_stamp = f.stamp, !.kind = "ClickSingle"]
             rapid == [h EXCEPT !.pending_event = 0, !.click_stamp = NoStamp,
                                !.kind = "RapidContinuous"]
  <1>1. f.stamp \in Stamp /\ f.stamp.at \in Nat
    BY DEF RemoteState, Stamp
  <1>2. ASSUME f.left, ~g.left PROVE Presses(g, f, single)
    <2>h. h \in Gesture /\ h.event_sequence = g.event_sequence
      BY <1>1 DEF Gesture
    <2>n. g.event_sequence + 1 \in Nat /\ g.event_sequence + 1 # g.event_sequence
      BY DEF Gesture
    <2>1. /\ single \in Gesture
          /\ single.event_sequence = g.event_sequence + 1
          /\ single.event_sequence # g.event_sequence
      <3> HIDE DEF h
      <3> DEFINE n == g.event_sequence + 1
      <3> HIDE DEF n
      <3> QED
        BY <1>1, <2>h, <2>n DEF Gesture, FeedKinds, n
    <2>2. /\ single.last_frame = g.last_frame
          /\ single.pending_event = single.event_sequence /\ single.click_stamp = f.stamp
          /\ single.require_release = g.require_release
          /\ single.selected = g.selected /\ single.right = g.right
      BY DEF Gesture
    <2> HIDE DEF single
    <2> QED
      BY <1>2, <2>1, <2>2 DEF Presses
  <1>3. Presses(g, f, rapid)
    BY <1>1 DEF Presses, Gesture, FeedKinds, NoStamp, Stamp
  <1>4. Presses(g, f, g)
    BY DEF Presses, Gesture
  <1> HIDE DEF single, rapid
  <1>5. Press(g, f) \in {g, rapid} \/ (f.left /\ ~g.left /\ Press(g, f) = single)
    BY DEF Press, single, rapid
  <1> QED
    BY <1>2, <1>3, <1>4, <1>5

LEMMA LeftButtonFacts ==
    ASSUME NEW g \in Gesture, NEW f \in RemoteState
    PROVE  Presses(g, f, LeftButton(g, f)) /\ LeftButton(g, f).left = f.left
  <1> DEFINE p == Press(g, f)
             h == Hold(p, f)
             r == Release(h, f)
  <1>1. p \in Gesture /\ Presses(g, f, p)
    BY PressFacts DEF Presses
  <1> HIDE DEF p
  <1>2. h \in Gesture /\ Presses(g, f, h)
    <2> DEFINE held == [p EXCEPT !.kind = "HeldContinuous", !.pending_event = 0, !.click_stamp = NoStamp]
    <2>1. Presses(g, f, held)
      BY <1>1 DEF Presses, Gesture, FeedKinds, NoStamp, Stamp
    <2>2. h \in {p, held}
      BY DEF Hold
    <2> QED
      BY <1>1, <2>1, <2>2 DEF Presses
  <1> HIDE DEF h
  <1>3. r \in Gesture /\ Presses(g, f, r)
    <2>1. Presses(g, f, [h EXCEPT !.have_press = FALSE])
      BY <1>2 DEF Presses, Gesture
    <2>2. KeepsClick(h, ClearFeed(h))
      BY <1>2, ClearFeedKeeps
    <2>3. Presses(g, f, ClearFeed(h))
      BY <1>2, <2>2 DEF Presses, KeepsClick
    <2>4. r \in {h, ClearFeed(h), [h EXCEPT !.have_press = FALSE]}
      BY DEF Release
    <2> QED
      BY <1>2, <2>1, <2>3, <2>4 DEF Presses
  <1> HIDE DEF r
  <1>4. LeftButton(g, f) = [r EXCEPT !.left = f.left]
    BY DEF LeftButton, r, h, p
  <1>5. f.left \in BOOLEAN
    BY DEF RemoteState
  <1> QED
    BY <1>3, <1>4, <1>5 DEF Presses, Gesture

(* What a new frame does: a click needs a press that follows a release,    *)
(* with both buttons; only a frame without the left button ends the wait   *)
(* for a release.                                                          *)
Observed(g, f, h) ==
    /\ h \in Gesture
    /\ h.event_sequence \in {g.event_sequence, g.event_sequence + 1}
    /\ h.event_sequence # g.event_sequence =>
          /\ f.left /\ f.right /\ ~g.left /\ ~g.require_release
          /\ h.pending_event # 0 => h.pending_event = h.event_sequence /\ h.click_stamp = f.stamp
    /\ h.event_sequence = g.event_sequence /\ h.pending_event # 0 =>
          h.pending_event = g.pending_event /\ h.click_stamp = g.click_stamp
    /\ h.require_release \/ h.left = f.left

LEMMA ButtonsFacts ==
    ASSUME NEW g \in Gesture, NEW f \in RemoteState
    PROVE  Observed(g, f, Buttons(g, f)) /\ Buttons(g, f).last_frame = g.last_frame
  <1> DEFINE entering == ~g.selected \/ ~g.right
             c == ClearFeed(g)
             h == IF entering THEN [c EXCEPT !.require_release = TRUE] ELSE g
             r == [h EXCEPT !.selected = TRUE, !.right = TRUE]
             up == [c EXCEPT !.selected = TRUE, !.right = FALSE, !.left = f.left,
                             !.require_release = TRUE]
             waits == [r EXCEPT !.left = f.left, !.require_release = f.left]
             presses == LeftButton(r, f)
  <1>1. f.left \in BOOLEAN /\ f.right \in BOOLEAN
    BY DEF RemoteState
  <1>2. KeepsClick(g, c)
    BY ClearFeedKeeps
  <1> HIDE DEF c
  <1>3. /\ r \in Gesture
        /\ r.last_frame = g.last_frame /\ r.event_sequence = g.event_sequence /\ r.left = g.left
        /\ r.require_release = (entering \/ g.require_release)
        /\ r.pending_event # 0 => r.pending_event = g.pending_event /\ r.click_stamp = g.click_stamp
    <2>1. CASE entering
      BY <1>2, <2>1 DEF KeepsClick, Gesture
    <2>2. CASE ~entering
      BY <2>2 DEF Gesture
    <2> QED
      BY <2>1, <2>2
  <1>4. Buttons(g, f) = IF ~f.right THEN up ELSE IF r.require_release THEN waits ELSE presses
    BY DEF Buttons, c
  <1> HIDE DEF r
  <1>5. Observed(g, f, up) /\ up.last_frame = g.last_frame
    BY <1>1, <1>2 DEF KeepsClick, Observed, Gesture
  <1>6. Observed(g, f, waits) /\ waits.last_frame = g.last_frame
    BY <1>1, <1>3 DEF Observed, Gesture
  <1>7. ASSUME f.right, ~r.require_release
        PROVE  Observed(g, f, presses) /\ presses.last_frame = g.last_frame
    <2>1. Presses(r, f, presses) /\ presses.left = f.left
      BY <1>3, LeftButtonFacts
    <2> HIDE DEF presses
    <2> QED
      BY <1>3, <1>7, <2>1 DEF Presses, Observed
  <1> HIDE DEF up, waits, presses
  <1> QED
    BY <1>4, <1>5, <1>6, <1>7

Results == [gesture : Gesture, intent : Intent, ok : BOOLEAN]

(* What update() does, as far as clicks are concerned.                     *)
Updated(g, f, selected, allowed, now, u) ==
    LET h == u.gesture
        taken == IsFresh(f.stamp, now) /\ ~Regressed(g, f) /\ selected /\ allowed
    IN  /\ u \in Results
        /\ h.last_frame = IF IsFresh(f.stamp, now) THEN f.stamp ELSE g.last_frame
        /\ ~taken => h = Withdraw([g EXCEPT !.last_frame = h.last_frame])
        /\ taken /\ Duplicate(g, f) =>
              /\ h.event_sequence = g.event_sequence
              /\ h.left = g.left /\ h.require_release = g.require_release
              /\ h.pending_event # 0 => h.pending_event = g.pending_event /\ h.click_stamp = g.click_stamp
        /\ taken /\ ~Duplicate(g, f) => Observed(g, f, h)
        /\ u.intent.event # 0 =>
              /\ taken /\ u.ok
              /\ u.intent.event = h.pending_event /\ u.intent.click = h.click_stamp

LEMMA UpdateFacts ==
    ASSUME NEW g \in Gesture, NEW f \in RemoteState, NEW selected \in BOOLEAN,
           NEW allowed \in BOOLEAN, NEW now \in Nat
    PROVE  Updated(g, f, selected, allowed, now, Update(g, f, selected, allowed, now))
  <1> DEFINE s == [g EXCEPT !.last_frame = f.stamp]
             b == IF Duplicate(g, f) THEN g ELSE Buttons(s, f)
             next == Aged(b, now)
             u == Update(g, f, selected, allowed, now)
             taken == IsFresh(f.stamp, now) /\ ~Regressed(g, f) /\ selected /\ allowed
             none == [gesture |-> Withdraw(g), intent |-> NoIntent, ok |-> FALSE]
             bad == [gesture |-> Withdraw(s), intent |-> NoIntent, ok |-> FALSE]
             idle == [gesture |-> Withdraw(s), intent |-> NoIntent, ok |-> TRUE]
             good == [gesture |-> next, intent |-> Output(next), ok |-> TRUE]
  <1> SUFFICES Updated(g, f, selected, allowed, now, u)
    OBVIOUS
  <1>1. s \in Gesture /\ f.stamp \in Stamp /\ s.last_frame = f.stamp
        /\ s = [s EXCEPT !.last_frame = f.stamp] /\ g = [g EXCEPT !.last_frame = g.last_frame]
    BY DEF Gesture, RemoteState
  <1>2. NoIntent \in Intent /\ NoIntent.event = 0
    BY DEF NoIntent, Intent, NoStamp, Stamp, FeedKinds
  <1>3. /\ Withdraw(g) \in Gesture /\ Withdraw(g).last_frame = g.last_frame
        /\ Withdraw(s) \in Gesture /\ Withdraw(s).last_frame = f.stamp
    BY <1>1, WithdrawFacts
  <1>4. /\ Duplicate(g, f) => b = g /\ g.last_frame = f.stamp
        /\ ~Duplicate(g, f) => Observed(g, f, b) /\ b.last_frame = f.stamp
    <2>1. Observed(s, f, Buttons(s, f)) /\ Buttons(s, f).last_frame = f.stamp
      BY <1>1, ButtonsFacts
    <2>2. /\ s.event_sequence = g.event_sequence /\ s.left = g.left
          /\ s.require_release = g.require_release
          /\ s.pending_event = g.pending_event /\ s.click_stamp = g.click_stamp
      BY DEF Gesture
    <2> HIDE DEF s
    <2>3. Observed(g, f, Buttons(s, f))
      BY <2>1, <2>2 DEF Observed
    <2> QED
      BY <2>1, <2>3 DEF Duplicate
  <1>5. b \in Gesture
    BY <1>4 DEF Observed
  <1> HIDE DEF b
  <1>6. KeepsClick(b, next)
    BY <1>5, AgedKeeps
  <1>7. next \in Gesture /\ next.last_frame = f.stamp
    BY <1>4, <1>6 DEF KeepsClick
  <1> HIDE DEF next
  <1>8. /\ Output(next) \in Intent
        /\ Output(next).event # 0 => /\ Output(next).event = next.pending_event
                                     /\ Output(next).click = next.click_stamp
    BY <1>2, <1>7 DEF Output, Intent, Gesture
  <1>9. u = IF ~IsFresh(f.stamp, now) THEN none
            ELSE IF Regressed(g, f) THEN bad
            ELSE IF ~(selected /\ allowed) THEN idle ELSE good
    BY DEF Update, next, b
  <1>10. CASE ~IsFresh(f.stamp, now)
    <2>1. u = none
      BY <1>9, <1>10
    <2> HIDE DEF u
    <2> QED
      BY <1>1, <1>2, <1>3, <1>10, <2>1 DEF Updated, Results
  <1>11. CASE IsFresh(f.stamp, now) /\ ~taken
    <2>1. u \in {bad, idle}
      BY <1>9, <1>11
    <2>2. u.gesture = Withdraw(s) /\ u.intent = NoIntent /\ u \in Results
      <3> HIDE DEF u, s
      <3>1. bad.gesture = Withdraw(s) /\ bad.intent = NoIntent /\ bad \in Results
        BY <1>2, <1>3 DEF Results
      <3>2. idle.gesture = Withdraw(s) /\ idle.intent = NoIntent /\ idle \in Results
        BY <1>2, <1>3 DEF Results
      <3> HIDE DEF bad, idle
      <3> QED
        BY <2>1, <3>1, <3>2
    <2> HIDE DEF u
    <2> QED
      BY <1>1, <1>2, <1>3, <1>11, <2>2 DEF Updated
  <1>12. CASE taken
    <2>1. u = good
      BY <1>9, <1>12
    <2>2. u.gesture = next /\ u.intent = Output(next) /\ u.ok /\ u \in Results
      BY <1>7, <1>8, <2>1 DEF Results
    <2>3. Duplicate(g, f) =>
              /\ next.event_sequence = g.event_sequence
              /\ next.left = g.left /\ next.require_release = g.require_release
              /\ next.pending_event # 0 => next.pending_event = g.pending_event
                                           /\ next.click_stamp = g.click_stamp
      BY <1>4, <1>6 DEF KeepsClick
    <2>4. ~Duplicate(g, f) => Observed(g, f, next)
      BY <1>4, <1>6 DEF KeepsClick, Observed
    <2> HIDE DEF u
    <2> QED
      BY <1>7, <1>8, <1>12, <2>2, <2>3, <2>4 DEF Updated
  <1> QED
    BY <1>10, <1>11, <1>12

(* The same for whatever the command thread makes of a frame: it keeps the *)
(* gesture update() left, or withdraws it.                                 *)
Sees(g, f, allowed, h) ==
    /\ h \in Gesture
    /\ h.event_sequence \in {g.event_sequence, g.event_sequence + 1}
    /\ h.event_sequence # g.event_sequence =>
          /\ allowed /\ f.left /\ f.right /\ f.switch = "Up"
          /\ ~g.left /\ ~g.require_release
          /\ f.stamp.seq > g.last_frame.seq /\ h.last_frame = f.stamp
          /\ h.pending_event # 0 => h.pending_event = h.event_sequence /\ h.click_stamp = f.stamp
    /\ h.event_sequence = g.event_sequence /\ h.pending_event # 0 =>
          h.pending_event = g.pending_event /\ h.click_stamp = g.click_stamp
    /\ \/ h.last_frame = f.stamp
       \/ h.last_frame = g.last_frame /\ h.require_release /\ h.pending_event = 0
    /\ \/ h.require_release
       \/ f.stamp.seq > g.last_frame.seq /\ h.left = f.left
       \/ f.stamp = g.last_frame /\ h.left = g.left /\ ~g.require_release
    /\ Regressed(g, f) => h.require_release /\ h.pending_event = 0

LEMMA WithdrawSees ==
    ASSUME NEW g \in Gesture, NEW f, NEW allowed
    PROVE  Sees(g, f, allowed, Withdraw(g))
  BY WithdrawFacts DEF Sees

LEMMA SeesWithdrawn ==
    ASSUME NEW g \in Gesture, NEW f, NEW allowed, NEW h, Sees(g, f, allowed, h)
    PROVE  Sees(g, f, allowed, Withdraw(h))
  <1>1. h \in Gesture
    BY DEF Sees
  <1> QED
    BY <1>1, WithdrawFacts DEF Sees

LEMMA ObserveFacts ==
    ASSUME NEW g \in Gesture, NEW f \in RemoteState, NEW allowed \in BOOLEAN, NEW now \in Nat
    PROVE  LET u == Observe(g, f, allowed, now)
           IN  /\ u \in Results
               /\ Sees(g, f, allowed, u.gesture)
               /\ IsFresh(f.stamp, now) => u.gesture.last_frame = f.stamp
               /\ u.intent.event # 0 => /\ allowed /\ u.ok
                                        /\ u.intent.event = u.gesture.pending_event
                                        /\ u.intent.click = u.gesture.click_stamp
  <1> DEFINE u == Observe(g, f, allowed, now)
             up == f.switch = "Up"
             h == u.gesture
             taken == IsFresh(f.stamp, now) /\ ~Regressed(g, f) /\ up /\ allowed
             w == [g EXCEPT !.last_frame = h.last_frame]
  <1> SUFFICES /\ u \in Results
               /\ Sees(g, f, allowed, h)
               /\ IsFresh(f.stamp, now) => h.last_frame = f.stamp
               /\ u.intent.event # 0 => /\ allowed /\ u.ok
                                        /\ u.intent.event = h.pending_event
                                        /\ u.intent.click = h.click_stamp
    OBVIOUS
  <1>1. Updated(g, f, up, allowed, now, u)
    BY UpdateFacts DEF Observe
  <1> HIDE DEF u
  <1>2. /\ u \in Results /\ h \in Gesture
        /\ h.last_frame = IF IsFresh(f.stamp, now) THEN f.stamp ELSE g.last_frame
        /\ u.intent.event # 0 => /\ allowed /\ u.ok
                                 /\ u.intent.event = h.pending_event /\ u.intent.click = h.click_stamp
    BY <1>1 DEF Updated, Results
  <1>3. f.stamp \in Stamp /\ g.last_frame \in Stamp
    BY DEF RemoteState, Gesture
  <1>4. CASE ~taken
    <2>1. w \in Gesture /\ w.event_sequence = g.event_sequence /\ w.last_frame = h.last_frame
      BY <1>2, <1>3 DEF Gesture
    <2>2. h = Withdraw(w)
      BY <1>1, <1>4 DEF Updated
    <2> HIDE DEF w
    <2>3. h.event_sequence = g.event_sequence /\ h.pending_event = 0 /\ h.require_release
      BY <2>1, <2>2, WithdrawFacts
    <2> QED
      BY <1>2, <2>3 DEF Sees
  <1>5. CASE taken /\ Duplicate(g, f)
    <2>1. /\ h.event_sequence = g.event_sequence
          /\ h.left = g.left /\ h.require_release = g.require_release
          /\ h.pending_event # 0 => h.pending_event = g.pending_event /\ h.click_stamp = g.click_stamp
      BY <1>1, <1>5 DEF Updated
    <2>2. h.last_frame = f.stamp /\ f.stamp = g.last_frame
      BY <1>2, <1>5 DEF Duplicate
    <2> HIDE DEF h
    <2> QED
      BY <1>2, <1>5, <2>1, <2>2 DEF Sees, Gesture
  <1>6. CASE taken /\ ~Duplicate(g, f)
    <2>1. Observed(g, f, h)
      BY <1>1, <1>6 DEF Updated
    <2>2. f.stamp.seq > g.last_frame.seq
      BY <1>3, <1>6 DEF Regressed, IsFresh, Stamp
    <2> HIDE DEF h
    <2> QED
      BY <1>2, <1>6, <2>1, <2>2 DEF Sees, Observed
  <1> QED
    BY <1>2, <1>4, <1>5, <1>6 DEF Sees

-----------------------------------------------------------------------------
(* What the steps of the command thread do.                                *)

LEMMA FrameFacts ==
    ASSUME TypesInv, QueueInv, NEW n \in 1 .. Len(received)
    PROVE  Frame(n) \in RemoteState /\ Frame(n).stamp.seq = n /\ Frame(n).stamp \in Stamp
  <1>1. received[n] \in RemoteState /\ received[n].stamp.seq = n
    BY DEF TypesInv, QueueInv
  <1> QED
    BY <1>1 DEF Frame, RemoteState

LEMMA HeadOfQueue ==
    ASSUME TypesInv, QueueInv, frames # <<>>
    PROVE  Head(frames) = Taken + 1 /\ Taken + 1 \in 1 .. Len(received)
  <1>1. Len(received) \in Nat /\ Len(frames) <= Len(received)
    BY DEF TypesInv, QueueInv
  <1>2. frames \in Seq(Nat) /\ Len(frames) \in Nat \ {0}
    BY DEF TypesInv
  <1>3. Head(frames) = frames[1] /\ 1 \in 1 .. Len(frames)
    BY <1>2
  <1>4. frames[1] = Taken + 1
    BY <1>3 DEF QueueInv
  <1> QED
    BY <1>1, <1>2, <1>3, <1>4 DEF Taken

LEMMA NextFrameFacts ==
    ASSUME TypesInv, QueueInv, NextFrame
    PROVE  LET n == Taken + 1
               f == Frame(n)
               allowed == pass'.run /\ f.stamp.at > pass.gate.boundary /\ pass.permitted
           IN  /\ n \in 1 .. Len(received) /\ Taken' = n
               /\ frames' \in Seq(Nat) /\ Len(frames') = Len(frames) - 1
               /\ \A i \in 1 .. Len(frames') : frames'[i] = n + i
               /\ ~loss /\ IsFresh(f.stamp, clock)
               /\ pass.budget > 0
               /\ pass' = [pass EXCEPT !.run = pass'.run, !.budget = pass.budget - 1,
                                       !.observed = IF n > pass.observed THEN n ELSE pass.observed]
               /\ pass' \in Passes
               /\ Sees(gesture, f, allowed, gesture')
               /\ IsFresh(f.stamp, pass.now) => gesture'.last_frame = f.stamp
  <1> DEFINE n == Taken + 1
             f == Frame(n)
             after == f.stamp.at > pass.gate.boundary
             run == pass.run /\ ~(after /\ f.switch = "Down")
             allowed == run /\ after /\ pass.permitted
  <1>1. /\ pass.now \in Nat /\ pass.run \in BOOLEAN /\ pass.permitted \in BOOLEAN
        /\ pass.budget \in Nat /\ pass.observed \in Nat /\ pass.gate \in Gate
    BY DEF TypesInv, Passes
  <1>2. frames # <<>> /\ frames \in Seq(Nat) /\ Len(frames) \in Nat \ {0}
    BY DEF NextFrame, TypesInv
  <1>3. Head(frames) = n /\ n \in 1 .. Len(received) /\ received' = received
    BY <1>2, HeadOfQueue DEF NextFrame
  <1>4. f \in RemoteState /\ f.stamp.seq = n
    BY <1>3, FrameFacts
  <1>5. /\ frames' \in Seq(Nat) /\ Len(frames') = Len(frames) - 1
        /\ \A i \in 1 .. Len(frames') : frames'[i] = frames[i + 1]
    BY <1>2 DEF NextFrame
  <1>6. Taken' = n
    BY <1>2, <1>3, <1>5 DEF Taken, TypesInv
  <1>7. \A i \in 1 .. Len(frames') : frames'[i] = n + i
    BY <1>2, <1>5 DEF QueueInv, Taken, TypesInv
  <1>8. /\ pass' = [pass EXCEPT !.run = run, !.budget = pass.budget - 1,
                                 !.observed = IF n > pass.observed THEN n ELSE pass.observed]
        /\ gesture' = Observe(gesture, f, allowed, pass.now).gesture
        /\ pass.budget > 0 /\ ~loss /\ IsFresh(f.stamp, clock)
    BY <1>3, <1>4 DEF NextFrame
  <1>9. pass'.run = run /\ pass' \in Passes
    <2>1. run \in BOOLEAN /\ n \in Nat /\ pass.budget - 1 \in Nat
      BY <1>1, <1>3, <1>8
    <2>2. pass \in Passes
      BY DEF TypesInv
    <2> HIDE DEF run, n
    <2> QED
      BY <1>1, <1>8, <2>1, <2>2 DEF Passes
  <1>10. allowed \in BOOLEAN
    BY <1>1
  <1>11. gesture \in Gesture
    BY DEF TypesInv
  <1> HIDE DEF f, n
  <1>12. /\ Sees(gesture, f, allowed, gesture')
         /\ IsFresh(f.stamp, pass.now) => gesture'.last_frame = f.stamp
    BY <1>1, <1>4, <1>8, <1>10, <1>11, ObserveFacts
  <1> QED
    BY <1>3, <1>5, <1>6, <1>7, <1>8, <1>9, <1>12 DEF f, n

LEMMA DecideFacts ==
    ASSUME TypesInv, QueueInv, NameInv, Decide
    PROVE  LET f == Frame(pass.observed)
           IN  /\ gesture' \in Gesture
               /\ gesture' = Withdraw(gesture)
                  \/ (pass.observed # 0 /\ Sees(gesture, f, pass.permitted, gesture'))
               /\ output' \in Outputs
               /\ output'.gate = pass.gate
               /\ output'.run => pass.run
               /\ output'.intent.event # 0 =>
                     /\ output'.intent.event = gesture'.pending_event
                     /\ output'.intent.click = gesture'.click_stamp
  <1> DEFINE f == Frame(pass.observed)
             online == pass.observed # 0 /\ IsFresh(f.stamp, pass.now)
             u == Observe(gesture, f, pass.permitted, pass.now)
             enabled == online /\ pass.run /\ u.ok /\ f.switch # "Down"
  <1>1. /\ pass.now \in Nat /\ pass.run \in BOOLEAN /\ pass.permitted \in BOOLEAN
        /\ pass.observed \in Nat /\ pass.gate \in Gate /\ gesture \in Gesture
    BY DEF TypesInv, Passes
  <1>2. /\ gesture' = IF ~(online /\ pass.run) THEN Withdraw(gesture)
                      ELSE IF ~enabled \/ ~pass.permitted THEN Withdraw(u.gesture)
                      ELSE u.gesture
        /\ output' = [run |-> enabled, gate |-> pass.gate,
                      intent |-> IF enabled THEN u.intent ELSE NoIntent]
    BY DEF Decide
  <1>3. NoIntent \in Intent /\ NoIntent.event = 0
    BY DEF NoIntent, Intent, NoStamp, Stamp, FeedKinds
  <1>4. enabled \in BOOLEAN
    BY <1>1 DEF IsFresh
  <1>5. Withdraw(gesture) \in Gesture
    BY <1>1, WithdrawFacts
  <1>6. CASE ~(online /\ pass.run)
    <2>1. ~enabled /\ gesture' = Withdraw(gesture)
      BY <1>2, <1>6
    <2>2. output' = [run |-> FALSE, gate |-> pass.gate, intent |-> NoIntent]
      <3> HIDE DEF enabled
      <3> QED
        BY <1>2, <2>1, <1>4
    <2> QED
      BY <1>1, <1>3, <1>5, <2>1, <2>2 DEF Outputs
  <1>7. CASE online /\ pass.run
    <2>1. pass.observed \in 1 .. Len(received)
      BY <1>1, <1>7 DEF NameInv, TypesInv
    <2>2. f \in RemoteState
      BY <2>1, FrameFacts
    <2> HIDE DEF f
    <2>3. /\ u \in Results
          /\ Sees(gesture, f, pass.permitted, u.gesture)
          /\ u.intent.event # 0 => /\ pass.permitted /\ u.ok
                                   /\ u.intent.event = u.gesture.pending_event
                                   /\ u.intent.click = u.gesture.click_stamp
      BY <1>1, <2>2, ObserveFacts
    <2> HIDE DEF u
    <2>4. Sees(gesture, f, pass.permitted, Withdraw(u.gesture))
      BY <1>1, <2>3, SeesWithdrawn
    <2>5. Sees(gesture, f, pass.permitted, gesture') /\ gesture' \in Gesture
      BY <1>2, <1>7, <2>3, <2>4 DEF Sees
    <2>6. output' \in Outputs
      <3> HIDE DEF enabled
      <3> QED
        BY <1>1, <1>2, <1>3, <1>4, <2>3 DEF Outputs, Results
    <2>7. output'.intent.event # 0 =>
                     /\ output'.intent.event = gesture'.pending_event
                     /\ output'.intent.click = gesture'.click_stamp
      <3>1. SUFFICES ASSUME output'.intent.event # 0
                     PROVE  /\ output'.intent.event = gesture'.pending_event
                            /\ output'.intent.click = gesture'.click_stamp
        OBVIOUS
      <3>2. enabled /\ output'.intent = u.intent
        <4> HIDE DEF enabled
        <4> QED
          BY <1>2, <1>3, <3>1
      <3>3. gesture' = u.gesture
        BY <1>2, <1>7, <2>3, <3>1, <3>2
      <3> QED
        BY <2>3, <3>1, <3>2, <3>3
    <2>8. output'.gate = pass.gate /\ output'.run = enabled
      BY <1>2
    <2> QED
      BY <1>7, <2>5, <2>6, <2>7, <2>8 DEF f
  <1> QED
    BY <1>6, <1>7

-----------------------------------------------------------------------------
(* Types, the queue and the times.                                         *)

BaseInv == TypesInv /\ QueueInv /\ NameInv /\ TimeInv

LEMMA ProfileFacts ==
    ASSUME profile \in Profiles
    PROVE  /\ QueueCapacity \in Nat \ {0}
           /\ Inputs \subseteq [switch : Switches, right : BOOLEAN, left : BOOLEAN]
           /\ Permissions \subseteq BOOLEAN
  BY GateAssumption DEF QueueCapacity, Inputs, Permissions

LEMMA BaseFacts ==
    ASSUME BaseInv
    PROVE  /\ Len(received) \in Nat /\ Len(frames) \in Nat /\ Len(frames) <= Len(received)
           /\ QueueCapacity \in Nat \ {0}
           /\ gate \in Gate /\ gate.revision \in Nat /\ gate.allowed \in BOOLEAN /\ gate.boundary \in Nat
           /\ gesture \in Gesture /\ gesture.event_sequence \in Nat /\ gesture.pending_event \in Nat
           /\ output.intent.event \in Nat /\ pass.observed \in Nat /\ pass.gate \in Gate
           /\ pass.run \in BOOLEAN /\ pass.budget \in Nat /\ pass.now \in Nat
  <1> USE DEF BaseInv
  <1>1. Len(received) \in Nat /\ Len(frames) \in Nat /\ Len(frames) <= Len(received)
    BY DEF TypesInv, QueueInv
  <1>2. QueueCapacity \in Nat \ {0}
    BY ProfileFacts DEF TypesInv
  <1>3. gate \in Gate /\ gesture \in Gesture /\ output \in Outputs /\ pass \in Passes
    BY DEF TypesInv
  <1> QED
    BY <1>1, <1>2, <1>3 DEF Gate, Gesture, Outputs, Intent, Passes

(* What a step leaves alone keeps its part of the invariant.               *)
LEMMA QueueStays ==
    ASSUME QueueInv, UNCHANGED <<profile, received, frames, loss, lost>>
    PROVE  QueueInv' /\ Taken' = Taken
  BY DEF QueueInv, Taken, QueueCapacity

LEMMA TimeStays ==
    ASSUME TimeInv, UNCHANGED <<clock, received, safe_at>>
    PROVE  TimeInv'
  BY DEF TimeInv

LEMMA ReceiveFacts ==
    ASSUME BaseInv, NEW input \in Inputs, NEW at \in clock - MaxDelay .. clock, ReceiveFrame(input, at)
    PROVE  /\ received' \in Seq(RemoteState) /\ Len(received') = Len(received) + 1
           /\ \A i \in 1 .. Len(received) : received'[i] = received[i]
           /\ received'[Len(received')].stamp = [seq |-> Len(received) + 1, at |-> at]
           /\ at \in Nat /\ at <= clock
           /\ \/ frames' = Append(frames, Len(received) + 1) /\ Len(frames) < QueueCapacity
              \/ frames' = <<>> /\ lost'
           /\ loss' => frames' = <<>> /\ lost'
           /\ loss' \in BOOLEAN /\ lost' \in BOOLEAN /\ (lost => lost')
  <1> DEFINE n == Len(received) + 1
             f == [stamp |-> [seq |-> n, at |-> at],
                   switch |-> input.switch, right |-> input.right, left |-> input.left]
  <1>1. clock \in Nat \ {0} /\ MaxDelay \in {0, 1} /\ received \in Seq(RemoteState)
    BY GateAssumption DEF BaseInv, TypesInv
  <1>2. at \in Nat /\ at <= clock
    BY <1>1
  <1>3. n \in Nat /\ Len(received) \in Nat
    BY <1>1
  <1>4. f \in RemoteState
    <2>1. input \in [switch : Switches, right : BOOLEAN, left : BOOLEAN]
      BY ProfileFacts DEF BaseInv, TypesInv
    <2> QED
      BY <1>2, <1>3, <2>1 DEF RemoteState, Stamp
  <1>5. received' = Append(received, f)
    BY DEF ReceiveFrame
  <1>6. f.stamp = [seq |-> n, at |-> at]
    OBVIOUS
  <1> HIDE DEF f
  <1>7. /\ received' \in Seq(RemoteState) /\ Len(received') = n
        /\ \A i \in 1 .. Len(received) : received'[i] = received[i]
        /\ received'[n] = f
    BY <1>1, <1>4, <1>5
  <1>8. /\ frames' = Queued(n)
        /\ loss' = (loss \/ Len(frames) = QueueCapacity)
        /\ lost' = (lost \/ loss')
    BY DEF ReceiveFrame
  <1>9. /\ loss \in BOOLEAN /\ lost \in BOOLEAN /\ (loss => lost)
        /\ Len(frames) \in Nat /\ Len(frames) <= QueueCapacity /\ QueueCapacity \in Nat
    BY ProfileFacts DEF BaseInv, TypesInv, QueueInv
  <1>10. \/ frames' = Append(frames, n) /\ Len(frames) < QueueCapacity /\ ~loss'
         \/ frames' = <<>> /\ lost'
    <2>1. CASE loss \/ Len(frames) = QueueCapacity
      BY <1>8, <1>9, <2>1 DEF Queued
    <2>2. CASE ~(loss \/ Len(frames) = QueueCapacity)
      <3>1. Len(frames) < QueueCapacity
        BY <1>9, <2>2
      <3> QED
        BY <1>8, <2>2, <3>1 DEF Queued
    <2> QED
      BY <2>1, <2>2
  <1> QED
    BY <1>2, <1>6, <1>7, <1>8, <1>9, <1>10

LEMMA ReceiveKeepsBase ==
    ASSUME BaseInv, NEW input \in Inputs, NEW at \in clock - MaxDelay .. clock,
           ReceiveFrame(input, at), UNCHANGED profile
    PROVE  BaseInv' /\ Taken' \in Nat /\ Taken' >= Taken /\ (~lost' => Taken' = Taken)
  <1> DEFINE n == Len(received) + 1
  <1> USE DEF BaseInv
  <1>1. /\ received' \in Seq(RemoteState) /\ Len(received') = n
        /\ \A i \in 1 .. Len(received) : received'[i] = received[i]
        /\ received'[Len(received')].stamp = [seq |-> n, at |-> at]
        /\ at \in Nat /\ at <= clock
        /\ \/ frames' = Append(frames, n) /\ Len(frames) < QueueCapacity
           \/ frames' = <<>> /\ lost'
        /\ loss' => frames' = <<>> /\ lost'
        /\ loss' \in BOOLEAN /\ lost' \in BOOLEAN
    BY ReceiveFacts
  <1>2. /\ UNCHANGED <<profile, clock, snapshot, putting, gate, command, executor>>
        /\ QueueCapacity' = QueueCapacity
    BY DEF ReceiveFrame, QueueCapacity
  <1>3. Len(received) \in Nat /\ Len(frames) \in Nat /\ n \in Nat /\ Len(frames) <= Len(received)
    BY DEF TypesInv, QueueInv
  <1>4. QueueCapacity \in Nat \ {0}
    BY ProfileFacts DEF TypesInv
  <1>5. /\ frames' \in Seq(Nat)
        /\ Len(frames') <= QueueCapacity /\ Len(frames') <= n
        /\ \A i \in 1 .. Len(frames') : frames'[i] = n - Len(frames') + i
        /\ n - Len(frames') >= Taken
        /\ ~lost' => n - Len(frames') = Taken
    <2>1. CASE frames' = <<>> /\ lost'
      BY <1>3, <1>4, <2>1 DEF Taken
    <2>2. CASE frames' = Append(frames, n) /\ Len(frames) < QueueCapacity
      <3>1. frames \in Seq(Nat)
        BY DEF TypesInv
      <3>2. /\ frames' \in Seq(Nat) /\ Len(frames') = Len(frames) + 1
            /\ \A i \in 1 .. Len(frames) : frames'[i] = frames[i]
            /\ frames'[Len(frames) + 1] = n
        BY <1>3, <2>2, <3>1
      <3>3. \A i \in 1 .. Len(frames) : frames[i] = Len(received) - Len(frames) + i
        BY DEF QueueInv, Taken
      <3> QED
        BY <1>3, <1>4, <2>2, <3>2, <3>3 DEF Taken
    <2> QED
      BY <1>1, <2>1, <2>2
  <1>6. TypesInv'
    BY <1>1, <1>2, <1>5 DEF TypesInv, command, executor
  <1>7. \A i \in 1 .. Len(received') : received'[i].stamp.seq = i /\ received'[i].stamp.at <= clock
    <2> SUFFICES ASSUME NEW i \in 1 .. n
                 PROVE  received'[i].stamp.seq = i /\ received'[i].stamp.at <= clock
      BY <1>1
    <2>1. CASE i = n
      BY <1>1, <2>1
    <2>2. CASE i # n
      <3>1. i \in 1 .. Len(received)
        BY <1>3, <2>2
      <3> QED
        BY <1>1, <3>1 DEF QueueInv, TimeInv
    <2> QED
      BY <2>1, <2>2
  <1>8. /\ snapshot' <= Len(received') /\ cached' <= snapshot'
        /\ pass'.observed <= Len(received')
        /\ consumed' <= gesture'.event_sequence
        /\ output'.intent.event <= gesture'.event_sequence
        /\ gesture'.pending_event \in {0, gesture'.event_sequence}
        /\ safe_at' <= clock'
    BY <1>1, <1>2, <1>3 DEF TypesInv, NameInv, TimeInv, Passes, command, executor
  <1>9. QueueInv' /\ NameInv' /\ TimeInv'
    BY <1>1, <1>2, <1>5, <1>7, <1>8 DEF QueueInv, NameInv, TimeInv, Taken
  <1> QED
    BY <1>1, <1>3, <1>5, <1>6, <1>9 DEF Taken

LEMMA NextFrameKeepsBase ==
    ASSUME BaseInv, NextFrame, UNCHANGED profile
    PROVE  BaseInv'
  <1> USE DEF BaseInv
  <1> DEFINE f == Frame(Taken + 1)
             allowed == pass'.run /\ f.stamp.at > pass.gate.boundary /\ pass.permitted
  <1>1. /\ Taken + 1 \in 1 .. Len(received) /\ Taken' = Taken + 1
        /\ frames' \in Seq(Nat) /\ Len(frames') = Len(frames) - 1
        /\ \A i \in 1 .. Len(frames') : frames'[i] = Taken' + i
        /\ pass' = [pass EXCEPT !.run = pass'.run, !.budget = pass.budget - 1,
                       !.observed = IF Taken + 1 > pass.observed THEN Taken + 1 ELSE pass.observed]
        /\ pass' \in Passes
        /\ Sees(gesture, f, allowed, gesture')
        /\ ~loss
    BY NextFrameFacts
  <1>2. /\ UNCHANGED <<profile, clock, received, loss, lost, snapshot, putting, gate, cached, pc, seen,
                       output, origin, executor>>
        /\ QueueCapacity' = QueueCapacity
    BY DEF NextFrame, QueueCapacity
  <1>3. f \in RemoteState /\ f.stamp.at \in Nat /\ f.stamp.at <= clock
    BY <1>1, FrameFacts DEF TimeInv, Frame, Stamp
  <1>4. latched' \in BOOLEAN /\ safe_at' \in Nat /\ safe_at' <= clock
    <2>1. Head(frames) = Taken + 1
      BY HeadOfQueue DEF NextFrame
    <2>2. /\ safe_at' = IF f.switch = "Down" THEN f.stamp.at ELSE safe_at
          /\ latched' = (latched \/ (f.stamp.at > pass.gate.boundary /\ f.switch = "Down"))
      BY <2>1 DEF NextFrame
    <2> QED
      BY <1>3, <2>2 DEF TypesInv, TimeInv
  <1>5. /\ gesture' \in Gesture /\ gesture'.event_sequence >= gesture.event_sequence
        /\ born' \in Nat
    <2>1. /\ gesture' \in Gesture
          /\ gesture'.event_sequence \in {gesture.event_sequence, gesture.event_sequence + 1}
      BY <1>1 DEF Sees
    <2>2. gesture.event_sequence \in Nat
      BY DEF TypesInv, Gesture
    <2>3. born' \in {seen, born}
      BY DEF NextFrame, Born
    <2> QED
      BY <2>1, <2>2, <2>3 DEF TypesInv
  <1>6. TypesInv'
    <2> HIDE DEF f
    <2> QED
      BY <1>1, <1>2, <1>4, <1>5 DEF TypesInv, executor
  <1>7. pass'.observed <= Len(received)
    <2>1. pass'.observed = IF Taken + 1 > pass.observed THEN Taken + 1 ELSE pass.observed
      BY <1>1 DEF TypesInv, Passes
    <2> QED
      BY <1>1, <2>1, BaseFacts DEF NameInv
  <1>8. Len(frames') <= QueueCapacity /\ Len(frames') <= Len(received)
    BY <1>1, BaseFacts DEF QueueInv
  <1>9. /\ consumed <= gesture'.event_sequence /\ output.intent.event <= gesture'.event_sequence
        /\ gesture'.pending_event \in {0, gesture'.event_sequence}
    <2> HIDE DEF f
    <2>1. gesture'.event_sequence \in Nat /\ consumed \in Nat
      BY <1>5 DEF Gesture, TypesInv
    <2>2. /\ consumed <= gesture'.event_sequence /\ output.intent.event <= gesture'.event_sequence
      BY <1>5, <2>1, BaseFacts DEF NameInv
    <2> QED
      BY <1>1, <2>2 DEF NameInv, Sees
  <1>10. QueueInv' /\ NameInv'
    BY <1>1, <1>2, <1>7, <1>8, <1>9 DEF QueueInv, NameInv, executor, Taken
  <1>11. TimeInv'
    BY <1>2, <1>4 DEF TimeInv
  <1> QED
    BY <1>6, <1>10, <1>11

LEMMA DecideKeepsBase ==
    ASSUME BaseInv, Decide, UNCHANGED profile
    PROVE  BaseInv'
  <1> USE DEF BaseInv
  <1> DEFINE f == Frame(pass.observed)
  <1>1. /\ gesture' \in Gesture
        /\ gesture' = Withdraw(gesture)
           \/ (pass.observed # 0 /\ Sees(gesture, f, pass.permitted, gesture'))
        /\ output' \in Outputs
        /\ output'.intent.event # 0 => output'.intent.event = gesture'.pending_event
    BY DecideFacts
  <1>2. /\ UNCHANGED <<profile, clock, receiver, gate, cached, seen, latched, safe_at, executor>>
        /\ pc' = "Sleep" /\ pass' = NoPass
        /\ born' \in {seen, born} /\ origin' \in {born', 0}
        /\ QueueCapacity' = QueueCapacity
    BY DEF Decide, Born, QueueCapacity
  <1>3. /\ gesture'.event_sequence \in {gesture.event_sequence, gesture.event_sequence + 1}
        /\ gesture \in Gesture
    BY <1>1, WithdrawFacts DEF Sees, TypesInv
  <1>4. NoPass \in Passes /\ NoPass.observed = 0
    BY DEF NoPass, Passes, ClosedGate, Gate
  <1>5. TypesInv'
    BY <1>1, <1>2, <1>4 DEF TypesInv, receiver, executor
  <1>6. /\ consumed <= gesture'.event_sequence
        /\ output'.intent.event <= gesture'.event_sequence
        /\ gesture'.pending_event \in {0, gesture'.event_sequence}
    <2>1. consumed <= gesture'.event_sequence
      BY <1>3 DEF TypesInv, NameInv, Gesture
    <2>2. gesture'.pending_event \in {0, gesture'.event_sequence}
      BY <1>1, <1>3, WithdrawFacts DEF Sees, NameInv
    <2> QED
      BY <1>1, <2>1, <2>2 DEF Outputs, Intent, Gesture
  <1>7. QueueInv' /\ TimeInv'
    BY <1>2, QueueStays, TimeStays DEF receiver
  <1>8. NameInv'
    BY <1>2, <1>4, <1>6 DEF NameInv, receiver, executor, TypesInv
  <1> QED
    BY <1>5, <1>7, <1>8

LEMMA OthersKeepBase ==
    ASSUME BaseInv, UNCHANGED profile,
           \/ Tick \/ DiscardPartial \/ BeginPut \/ EndPut \/ NoMoreFrames
           \/ \E p \in Permissions : BeginPass(p)
           \/ \E allowed \in BOOLEAN : SetOperatorGate(allowed)
           \/ \E accepted \in BOOLEAN : ConsumeEvent(accepted)
    PROVE  BaseInv'
  <1> USE DEF BaseInv
  <1>1. gate.revision \in Nat /\ gate.allowed \in BOOLEAN /\ gate.boundary \in Nat
    BY BaseFacts
  <1>2. CASE Tick
    <2>1. UNCHANGED <<receiver, gate, command, executor>> /\ clock' = clock + 1 /\ clock \in Nat
      BY <1>2 DEF Tick, TypesInv
    <2>2. QueueInv' /\ NameInv'
      BY <2>1, QueueStays DEF NameInv, receiver, command, executor
    <2>3. TypesInv'
      BY <2>1 DEF TypesInv, receiver, command, executor
    <2>4. TimeInv'
      <3>1. \A i \in 1 .. Len(received) : received[i].stamp.at \in Nat
        BY FrameFacts DEF Frame, Stamp
      <3> QED
        BY <2>1, <3>1 DEF TimeInv, TypesInv, receiver, command
    <2> QED
      BY <2>2, <2>3, <2>4
  <1>3. CASE DiscardPartial
    <2>1. UNCHANGED <<clock, received, snapshot, putting, gate, command, executor>>
          /\ frames' = <<>> /\ loss' = TRUE /\ lost' = TRUE
      BY <1>3 DEF DiscardPartial
    <2>2. TypesInv'
      BY <2>1 DEF TypesInv, command, executor
    <2>3. QueueInv'
      BY <2>1, BaseFacts DEF QueueInv, Taken, QueueCapacity
    <2>4. NameInv' /\ TimeInv'
      BY <2>1, TimeStays DEF NameInv, command, executor
    <2> QED
      BY <2>2, <2>3, <2>4
  <1>4. CASE BeginPut \/ EndPut
    <2>1. /\ UNCHANGED <<clock, received, frames, loss, lost, gate, command, executor>>
          /\ snapshot' \in {snapshot, Len(received)} /\ putting' \in BOOLEAN
      BY <1>4 DEF BeginPut, EndPut
    <2>2. QueueInv' /\ TimeInv'
      BY <2>1, QueueStays, TimeStays DEF command
    <2>3. TypesInv'
      BY <2>1, BaseFacts DEF TypesInv, command, executor
    <2>4. NameInv'
      BY <2>1, BaseFacts DEF NameInv, TypesInv, command, executor
    <2> QED
      BY <2>2, <2>3, <2>4
  <1>5. CASE NoMoreFrames
    <2>1. /\ gesture' \in {gesture, Withdraw(gesture)}
          /\ \/ UNCHANGED <<frames, loss, lost>>
             \/ frames' = <<>> /\ loss' = FALSE /\ lost' = TRUE
          /\ pc' = "Decide"
          /\ UNCHANGED <<profile, clock, received, snapshot, putting, gate, cached, pass, seen,
                         latched, output, safe_at, born, origin, executor>>
      BY <1>5 DEF NoMoreFrames
    <2>2. /\ gesture' \in Gesture /\ gesture'.event_sequence = gesture.event_sequence
          /\ gesture'.pending_event \in {0, gesture'.event_sequence}
      BY <2>1, BaseFacts, WithdrawFacts DEF NameInv
    <2>3. TypesInv'
      <3>1. frames' \in Seq(Nat) /\ loss' \in BOOLEAN /\ lost' \in BOOLEAN
        <4>1. /\ frames \in Seq(Nat) /\ loss \in BOOLEAN /\ lost \in BOOLEAN
              /\ <<>> \in Seq(Nat) /\ TRUE \in BOOLEAN /\ FALSE \in BOOLEAN
          BY DEF TypesInv
        <4> QED
          BY <2>1, <4>1
      <3> QED
        BY <2>1, <2>2, <3>1 DEF TypesInv, executor
    <2>4. QueueInv'
      <3>1. CASE UNCHANGED <<frames, loss, lost>>
        BY <2>1, <3>1, QueueStays
      <3>2. CASE frames' = <<>> /\ loss' = FALSE /\ lost' = TRUE
        BY <2>1, <3>2, BaseFacts DEF QueueInv, Taken, QueueCapacity
      <3> QED
        BY <2>1, <3>1, <3>2
    <2>5. NameInv' /\ TimeInv'
      BY <2>1, <2>2, TimeStays DEF NameInv, executor
    <2> QED
      BY <2>3, <2>4, <2>5
  <1>6. CASE \E p \in Permissions : BeginPass(p)
    <2>1. PICK p \in Permissions : BeginPass(p)
      BY <1>6
    <2>2. p \in BOOLEAN
      BY ProfileFacts DEF TypesInv
    <2>3. /\ gesture' \in {gesture, Withdraw(gesture)}
          /\ seen' = gate.revision /\ latched' = (latched /\ ~(gate.revision # seen))
          /\ cached' \in {cached, snapshot}
          /\ pass' = NewPass(p) /\ pc' = "Frames"
          /\ UNCHANGED <<profile, clock, receiver, gate, output, safe_at, born, origin, executor>>
      BY <2>1 DEF BeginPass, Sampled
    <2>4. /\ gesture' \in Gesture /\ gesture'.event_sequence = gesture.event_sequence
          /\ gesture'.pending_event \in {0, gesture'.event_sequence}
      BY <2>3, BaseFacts, WithdrawFacts DEF NameInv
    <2>5. cached' \in Nat /\ cached' <= snapshot
      BY <2>3 DEF TypesInv, NameInv
    <2>6. latched' \in BOOLEAN /\ (gate.allowed /\ ~latched') \in BOOLEAN
      BY <1>1, <2>3 DEF TypesInv
    <2>7. pass' \in Passes /\ pass'.observed = cached'
      BY <2>2, <2>3, <2>5, <2>6, BaseFacts DEF NewPass, Passes, TypesInv
    <2>8. TypesInv'
      BY <1>1, <2>3, <2>4, <2>5, <2>6, <2>7 DEF TypesInv, receiver, executor
    <2>9. QueueInv' /\ TimeInv'
      BY <2>3, QueueStays, TimeStays DEF receiver
    <2>10. NameInv'
      BY <2>3, <2>4, <2>5, <2>7, BaseFacts DEF NameInv, receiver, executor, TypesInv
    <2> QED
      BY <2>8, <2>9, <2>10
  <1>7. CASE \E allowed \in BOOLEAN : SetOperatorGate(allowed)
    <2>1. /\ gate' \in Gate /\ gate'.revision >= gate.revision
          /\ UNCHANGED <<clock, receiver, command, executor>>
      BY <1>1, <1>7 DEF SetOperatorGate, Gate, TypesInv
    <2>2. QueueInv' /\ TimeInv' /\ NameInv'
      BY <2>1, QueueStays, TimeStays DEF NameInv, receiver, command, executor
    <2>3. gate'.revision \in Nat
      BY <2>1 DEF Gate
    <2>4. TypesInv'
      BY <1>1, <2>1, <2>3 DEF TypesInv, receiver, command, executor
    <2> QED
      BY <2>2, <2>4
  <1>8. CASE \E accepted \in BOOLEAN : ConsumeEvent(accepted)
    <2>1. /\ consumed' = output.intent.event
          /\ shots' \in {shots, Append(shots, output.intent.click.seq)}
          /\ UNCHANGED <<clock, receiver, gate, command>>
      BY <1>8 DEF ConsumeEvent
    <2>2. output.intent.click.seq \in Nat /\ shots \in Seq(Nat)
      <3>1. output \in Outputs /\ shots \in Seq(Nat)
        BY DEF TypesInv
      <3> QED
        BY <3>1 DEF Outputs, Intent, Stamp
    <2>3. shots' \in Seq(Nat)
      BY <2>1, <2>2
    <2>4. QueueInv' /\ TimeInv' /\ NameInv'
      BY <2>1, QueueStays, TimeStays DEF NameInv, receiver, command
    <2>5. TypesInv'
      BY <2>1, <2>3, BaseFacts DEF TypesInv, receiver, command
    <2> QED
      BY <2>4, <2>5
  <1> QED
    BY <1>2, <1>3, <1>4, <1>5, <1>6, <1>7, <1>8

LEMMA BaseStep ==
    ASSUME BaseInv, [Next]_vars
    PROVE  BaseInv'
  <1>1. CASE UNCHANGED vars
    BY <1>1, QueueStays, TimeStays DEF vars, receiver, command, executor, BaseInv, TypesInv, NameInv
  <1>2. CASE Next
    BY <1>2, ReceiveKeepsBase, NextFrameKeepsBase, DecideKeepsBase, OthersKeepBase
       DEF Next, Receiver, Command
  <1> QED
    BY <1>1, <1>2

LEMMA BaseInit == Init => BaseInv
  <1> SUFFICES ASSUME Init PROVE BaseInv
    OBVIOUS
  <1>1. QueueCapacity \in Nat
    BY ProfileFacts DEF Init
  <1>2. ClosedGate \in Gate /\ NoPass \in Passes /\ ClosedGate.revision = 0 /\ NoPass.observed = 0
    BY DEF ClosedGate, Gate, NoPass, Passes
  <1>3. NewGesture \in Gesture /\ NewGesture.event_sequence = 0 /\ NewGesture.pending_event = 0
    BY DEF NewGesture, Gesture, NoStamp, Stamp, FeedKinds
  <1>4. Disabled \in Outputs /\ Disabled.intent.event = 0
    BY <1>2 DEF Disabled, Outputs, NoIntent, Intent, NoStamp, Stamp, FeedKinds
  <1>5. TypesInv
    <2>1. <<>> \in Seq(RemoteState) /\ <<>> \in Seq(Nat)
      OBVIOUS
    <2>2. profile \in Profiles /\ clock \in Nat \ {0} /\ pc \in {"Sleep", "Frames", "Decide"}
      BY DEF Init
    <2>5. loss \in BOOLEAN /\ lost \in BOOLEAN /\ putting \in BOOLEAN /\ latched \in BOOLEAN
      BY Zenon DEF Init
    <2>3. /\ snapshot \in Nat /\ cached \in Nat /\ seen \in Nat /\ consumed \in Nat
          /\ safe_at \in Nat /\ born \in Nat /\ origin \in Nat /\ seen <= gate.revision
      BY <1>2 DEF Init
    <2>4. /\ received = <<>> /\ frames = <<>> /\ shots = <<>> /\ gate = ClosedGate
          /\ pass = NoPass /\ gesture = NewGesture /\ output = Disabled
      BY DEF Init
    <2> QED
      BY <1>2, <1>3, <1>4, <2>1, <2>2, <2>3, <2>4, <2>5 DEF TypesInv
  <1>6. QueueInv /\ NameInv /\ TimeInv
    BY <1>1, <1>2, <1>3, <1>4 DEF Init, QueueInv, NameInv, TimeInv, Taken
  <1> QED
    BY <1>5, <1>6 DEF BaseInv

(* Types, queue, names and times hold throughout.                         *)
LEMMA Base == Spec => []BaseInv
  BY BaseInit, BaseStep, PTL DEF Spec

(* The state has its types, and the queue never exceeds its storage.       *)
THEOREM TypeCorrect == Spec => []TypeOK
  <1>1. ASSUME BaseInv PROVE TypeOK
    <2>1. snapshot \in 0 .. Len(received) /\ cached \in 0 .. snapshot
      BY <1>1, BaseFacts DEF BaseInv, TypesInv, NameInv
    <2>2. output \in Outputs /\ output.intent \in Intent
      BY <1>1 DEF BaseInv, TypesInv, Outputs
    <2>3. \A i \in 1 .. Len(frames) : frames[i] = Len(received) - Len(frames) + i
      BY <1>1 DEF BaseInv, QueueInv, Taken
    <2> QED
      BY <1>1, <2>1, <2>2, <2>3 DEF BaseInv, TypesInv, QueueInv, NameInv, TypeOK
  <1> QED
    BY Base, <1>1, PTL

-----------------------------------------------------------------------------
(* Clicks and the gate they were made under.                               *)

(* Steps that are not the command thread's.                                *)
Outside ==
    \/ Tick \/ Receiver \/ UNCHANGED vars
    \/ \E allowed \in BOOLEAN : SetOperatorGate(allowed)
    \/ \E accepted \in BOOLEAN : ConsumeEvent(accepted)

LEMMA Steps ==
    ASSUME [Next]_vars
    PROVE  \/ Outside
           \/ \E p \in Permissions : BeginPass(p)
           \/ NoMoreFrames \/ NextFrame \/ Decide
  BY DEF Next, Outside, Command

LEMMA OutsideFacts ==
    ASSUME Outside
    PROVE  UNCHANGED command
  BY DEF Outside, Tick, Receiver, ReceiveFrame, DiscardPartial, BeginPut, EndPut, SetOperatorGate,
         ConsumeEvent, vars

LEMMA SessionStep ==
    ASSUME BaseInv, SessionInv, [Next]_vars
    PROVE  SessionInv'
  <1> USE DEF SessionInv, EventsDieWithTheirGate
  <1>1. CASE Outside
    BY <1>1, OutsideFacts DEF command
  <1>2. CASE \E p \in Permissions : BeginPass(p)
    <2>1. /\ seen' = gate.revision /\ pass'.gate = gate
          /\ gesture' = IF gate.revision # seen THEN Withdraw(gesture) ELSE gesture
          /\ UNCHANGED <<output, born, origin>>
      BY <1>2 DEF BeginPass, NewPass
    <2>2. Withdraw(gesture).pending_event = 0
      BY BaseFacts, WithdrawFacts
    <2> QED
      BY <2>1, <2>2
  <1>3. CASE NoMoreFrames
    <2>1. /\ gesture' \in {gesture, Withdraw(gesture)}
          /\ UNCHANGED <<pass, seen, output, born, origin>> /\ pc = "Frames"
      BY <1>3 DEF NoMoreFrames
    <2>2. Withdraw(gesture).pending_event = 0
      BY BaseFacts, WithdrawFacts
    <2> QED
      BY <2>1, <2>2
  <1>4. CASE NextFrame
    <2>1. \E f, allowed : Sees(gesture, f, allowed, gesture')
      BY <1>4, NextFrameFacts DEF BaseInv
    <2>2. gesture'.pending_event # 0 => born' = seen
      BY <1>4, <2>1 DEF Sees, NextFrame, Born
    <2>3. pass'.gate = pass.gate
      BY <1>4, NextFrameFacts DEF BaseInv, TypesInv, Passes
    <2> QED
      BY <1>4, <2>2, <2>3 DEF NextFrame
  <1>5. CASE Decide
    <2>1. /\ gesture' = Withdraw(gesture) \/ \E f, allowed : Sees(gesture, f, allowed, gesture')
          /\ output'.gate = pass.gate
          /\ output'.intent.event # 0 => output'.intent.event = gesture'.pending_event
      BY <1>5, DecideFacts DEF BaseInv
    <2>2. gesture'.pending_event # 0 => born' = seen
      BY <1>5, <2>1, BaseFacts, WithdrawFacts DEF Sees, Decide, Born
    <2>3. /\ pc = "Decide" /\ pc' = "Sleep" /\ UNCHANGED seen
          /\ origin' = IF output'.intent.event # 0 THEN born' ELSE 0
      BY <1>5 DEF Decide
    <2> QED
      BY <2>1, <2>2, <2>3
  <1> QED
    BY <1>1, <1>2, <1>3, <1>4, <1>5, Steps

LEMMA SessionInit == Init => SessionInv
  BY DEF Init, SessionInv, EventsDieWithTheirGate, NewGesture, Disabled, NoIntent

(* A click does not outlive the gate it was made under: no change of       *)
(* permission or session lets one through that was made before it, in      *)
(* whichever order the threads run.                                        *)
THEOREM ClicksDieWithTheirGate == Spec => []EventsDieWithTheirGate
  <1>1. Spec => []SessionInv
    <2>1. Spec => []BaseInv
      BY Base
    <2>2. BaseInv /\ SessionInv /\ [Next]_vars => SessionInv'
      BY SessionStep
    <2> QED
      BY <2>1, <2>2, SessionInit, PTL DEF Spec
  <1>2. SessionInv => EventsDieWithTheirGate
    BY DEF SessionInv
  <1> QED
    BY <1>1, <1>2, PTL

-----------------------------------------------------------------------------
(* The latched safe state, when the receive thread does not run during a   *)
(* pass.                                                                   *)

LEMMA ReceiveInSleep ==
    ASSUME BaseInv, ~ReceiverPreempts, Receiver
    PROVE  /\ pc = "Sleep" /\ UNCHANGED <<clock, gate, command, executor>>
  BY DEF Receiver, ReceiveFrame, DiscardPartial, BeginPut, EndPut, MayReceive

LEMMA PassStep ==
    ASSUME BaseInv, PassInv, ~ReceiverPreempts, [Next]_vars
    PROVE  PassInv'
  <1>1. CASE Receiver
    BY <1>1, ReceiveInSleep DEF PassInv, command
  <1>2. CASE Outside /\ ~Receiver
    <2>1. UNCHANGED <<received, pc, pass, seen>>
      BY <1>2 DEF Outside, Tick, SetOperatorGate, ConsumeEvent, vars, receiver, command
    <2>2. CASE UNCHANGED <<clock, gate>>
      BY <2>1, <2>2 DEF PassInv
    <2>3. CASE Tick
      BY <2>1, <2>3, BaseFacts DEF PassInv, Tick, BaseInv, TypesInv
    <2>4. CASE \E allowed \in BOOLEAN : SetOperatorGate(allowed)
      <3>1. gate'.revision = gate.revision + 1 /\ gate'.boundary = clock /\ UNCHANGED clock
        BY <2>4 DEF SetOperatorGate
      <3>2. gate'.revision # seen'
        BY <2>1, <3>1, BaseFacts DEF BaseInv, TypesInv
      <3> QED
        BY <2>1, <3>1, <3>2 DEF PassInv, BaseInv, TimeInv
    <2> QED
      BY <1>2, <2>2, <2>3, <2>4 DEF Outside, ConsumeEvent, vars
  <1>3. CASE \E p \in Permissions : BeginPass(p)
    <2>1. /\ seen' = gate.revision /\ pass'.gate = gate /\ pass'.now = clock
          /\ UNCHANGED <<clock, gate, received>>
      BY <1>3 DEF BeginPass, NewPass, receiver
    <2>2. clock \in Nat
      BY DEF BaseInv, TypesInv
    <2> QED
      BY <2>1, <2>2 DEF PassInv, BaseInv, TimeInv
  <1>4. CASE NoMoreFrames
    BY <1>4 DEF PassInv, NoMoreFrames
  <1>5. CASE NextFrame
    <2>1. pass'.gate = pass.gate /\ pass'.now = pass.now
      BY <1>5, NextFrameFacts DEF BaseInv, TypesInv, Passes
    <2> QED
      BY <1>5, <2>1 DEF PassInv, NextFrame
  <1>6. CASE Decide
    BY <1>6 DEF PassInv, Decide
  <1> QED
    BY <1>1, <1>2, <1>3, <1>4, <1>5, <1>6, Steps

LEMMA LatchStep ==
    ASSUME BaseInv, PassInv, LatchInv, ~ReceiverPreempts, [Next]_vars
    PROVE  LatchInv'
  <1> USE DEF LatchInv, SafeOutlastsTheGate
  <1>1. CASE Outside
    <2>1. UNCHANGED command
      BY <1>1, OutsideFacts
    <2>2. gate' = gate \/ (gate'.revision = gate.revision + 1 /\ gate'.boundary = clock)
      <3>1. CASE \E allowed \in BOOLEAN : SetOperatorGate(allowed)
        BY <3>1 DEF SetOperatorGate
      <3>2. CASE Receiver
        BY <3>2, ReceiveInSleep
      <3> QED
        BY <1>1, <3>1, <3>2 DEF Outside, Tick, ConsumeEvent, vars
    <2> QED
      BY <2>1, <2>2 DEF command, BaseInv, TimeInv
  <1>2. CASE \E p \in Permissions : BeginPass(p)
    <2>1. /\ seen' = gate.revision /\ pass'.gate = gate
          /\ pass'.run = (gate.allowed /\ ~latched')
          /\ latched' = (latched /\ gate.revision = seen)
          /\ pc' = "Frames"
          /\ UNCHANGED <<gate, safe_at, output>>
      BY <1>2 DEF BeginPass, NewPass
    <2> QED
      BY <2>1
  <1>3. CASE NoMoreFrames
    BY <1>3 DEF NoMoreFrames
  <1>4. CASE NextFrame
    <2> DEFINE f == Frame(Taken + 1)
               after == f.stamp.at > pass.gate.boundary
    <2>1. Taken + 1 \in 1 .. Len(received)
      BY <1>4, NextFrameFacts DEF BaseInv
    <2>2. /\ pass'.run = (pass.run /\ ~(after /\ f.switch = "Down"))
          /\ safe_at' = IF f.switch = "Down" THEN f.stamp.at ELSE safe_at
          /\ latched' = (latched \/ (after /\ f.switch = "Down"))
          /\ pass'.gate = pass.gate
      <3>1. Head(frames) = Taken + 1
        BY <1>4, HeadOfQueue DEF NextFrame, BaseInv
      <3>2. pass \in Passes
        BY DEF BaseInv, TypesInv
      <3> QED
        BY <1>4, <3>1, <3>2 DEF NextFrame, Passes
    <2>3. pc = "Frames" /\ pc' = "Frames" /\ UNCHANGED <<gate, seen, output>>
      BY <1>4 DEF NextFrame
    <2>4. f.stamp.at \in Nat /\ pass.gate.boundary \in Nat /\ gate.boundary \in Nat
      BY <2>1, FrameFacts, BaseFacts DEF BaseInv, Stamp, Gate
    <2>5. gate.revision = seen => pass.gate = gate
      BY <2>3 DEF PassInv
    <2>6. gate.revision # seen => f.stamp.at <= gate.boundary
      BY <2>1, <2>3 DEF PassInv, Frame
    <2> HIDE DEF f
    <2>7. CASE f.switch # "Down"
      BY <2>2, <2>3, <2>7
    <2>8. CASE f.switch = "Down" /\ after
      <3>1. ~pass'.run /\ latched' /\ safe_at' = f.stamp.at
        BY <2>2, <2>8
      <3> QED
        BY <2>3, <2>6, <3>1
    <2>9. CASE f.switch = "Down" /\ ~after
      <3>1. f.stamp.at <= pass.gate.boundary /\ safe_at' = f.stamp.at
        BY <2>2, <2>4, <2>9
      <3> QED
        BY <2>2, <2>3, <2>5, <2>6, <3>1
    <2> QED
      BY <2>7, <2>8, <2>9
  <1>5. CASE Decide
    <2>1. /\ output'.gate = pass.gate /\ output'.run => pass.run
          /\ pc = "Decide" /\ pc' = "Sleep" /\ UNCHANGED <<gate, seen, latched, safe_at>>
      BY <1>5, DecideFacts DEF BaseInv, Decide
    <2> QED
      BY <1>5, <2>1, DecideFacts DEF BaseInv
  <1> QED
    BY <1>1, <1>2, <1>3, <1>4, <1>5, Steps

(* While an enabled command is out, no Down frame was consumed that was    *)
(* received after the boundary of its gate.                                *)
THEOREM SafeStateLasts == ~ReceiverPreempts /\ Spec => []SafeOutlastsTheGate
  <1> DEFINE Inv == BaseInv /\ PassInv /\ LatchInv
  <1> SUFFICES ASSUME ~ReceiverPreempts
               PROVE  Spec => []SafeOutlastsTheGate
    OBVIOUS
  <1>1. Init => PassInv /\ LatchInv
    BY DEF Init, PassInv, LatchInv, SafeOutlastsTheGate, ClosedGate, Disabled, NoPass
  <1>2. Inv /\ [Next]_vars => Inv'
    BY BaseStep, PassStep, LatchStep
  <1>3. Inv => SafeOutlastsTheGate
    BY DEF LatchInv
  <1> QED
    BY BaseInit, <1>1, <1>2, <1>3, PTL DEF Spec

-----------------------------------------------------------------------------
(* Clicks while no frame has been given up, when the receive thread does   *)
(* not run during a pass.                                                  *)

LEMMA LostStays ==
    ASSUME BaseInv, [Next]_vars, ~lost'
    PROVE  ~lost /\ ~loss /\ ~loss'
  <1>1. loss => lost
    BY DEF BaseInv, QueueInv
  <1>2. loss' => lost'
    BY BaseStep DEF BaseInv, QueueInv
  <1>3. lost => lost'
    <2>1. CASE Outside
      <3>1. CASE Receiver
        BY <3>1 DEF Receiver, ReceiveFrame, DiscardPartial, BeginPut, EndPut
      <3> QED
        BY <2>1, <3>1 DEF Outside, Tick, SetOperatorGate, ConsumeEvent, vars, receiver
    <2>2. CASE \E p \in Permissions : BeginPass(p)
      BY <2>2 DEF BeginPass, receiver
    <2>3. CASE NoMoreFrames
      BY <2>3 DEF NoMoreFrames
    <2>4. CASE NextFrame \/ Decide
      BY <2>4 DEF NextFrame, Decide, receiver
    <2> QED
      BY <2>1, <2>2, <2>3, <2>4, Steps
  <1> QED
    BY <1>1, <1>2, <1>3

LEMMA OrderOutside ==
    ASSUME BaseInv, OrderInv, ~ReceiverPreempts, [Next]_vars, Outside, ~lost'
    PROVE  OrderInv' /\ UNCHANGED command /\ Taken' \in Nat /\ Taken' = Taken
  <1>1. UNCHANGED command
    BY OutsideFacts
  <1>2. Taken \in Nat
    BY BaseFacts DEF Taken
  <1>3. CASE UNCHANGED <<receiver, command>>
    BY <1>2, <1>3 DEF OrderInv, Taken, receiver, command, Frame
  <1>4. CASE Receiver
    <2>1. pc = "Sleep"
      BY <1>4, ReceiveInSleep
    <2>2. CASE \E input \in Inputs, at \in clock - MaxDelay .. clock : ReceiveFrame(input, at)
      <3>1. PICK input \in Inputs, at \in clock - MaxDelay .. clock : ReceiveFrame(input, at)
        BY <2>2
      <3>2. Taken' = Taken /\ UNCHANGED profile
        BY <2>2, ReceiveKeepsBase DEF Next, vars
      <3>3. /\ \A i \in 1 .. Len(received) : received'[i] = received[i]
            /\ UNCHANGED <<snapshot, putting>>
        BY <3>1, ReceiveFacts DEF ReceiveFrame
      <3>4. gesture.last_frame.seq <= Taken
        BY DEF OrderInv
      <3>5. ASSUME gesture.last_frame.seq # 0
            PROVE  Frame(gesture.last_frame.seq)' = Frame(gesture.last_frame.seq)
        <4>1. gesture.last_frame.seq \in 1 .. Len(received)
          <5>1. gesture.last_frame.seq \in Nat
            BY BaseFacts DEF Gesture, Stamp
          <5> QED
            BY <3>4, <3>5, <5>1, BaseFacts DEF Taken
        <4> QED
          BY <1>1, <3>3, <4>1 DEF Frame, command
      <3> QED
        BY <1>1, <1>2, <2>1, <3>2, <3>3, <3>5 DEF OrderInv, command
    <2>3. ~DiscardPartial
      BY LostStays DEF DiscardPartial
    <2>4. CASE BeginPut \/ EndPut
      <3>1. /\ UNCHANGED <<received, frames>>
            /\ putting' = TRUE \/ snapshot' = Len(received)
            /\ putting' = TRUE => snapshot' = snapshot
        BY <2>4 DEF BeginPut, EndPut
      <3>2. Taken' = Taken /\ Len(received) >= Taken
        BY <3>1, BaseFacts DEF Taken
      <3> QED
        BY <1>1, <1>2, <2>1, <3>1, <3>2 DEF OrderInv, command, Frame
    <2> QED
      BY <1>4, <2>2, <2>3, <2>4 DEF Receiver
  <1> QED
    BY <1>1, <1>3, <1>4 DEF Outside, Tick, SetOperatorGate, ConsumeEvent, vars

LEMMA OrderBeginPass ==
    ASSUME BaseInv, OrderInv, ~lost, NEW p \in Permissions, BeginPass(p), UNCHANGED profile
    PROVE  OrderInv'
  <1>1. /\ gesture' \in {gesture, Withdraw(gesture)}
        /\ cached' = (IF putting THEN cached ELSE snapshot)
        /\ pass'.budget = QueueCapacity /\ pass'.observed = cached' /\ pc' = "Frames"
        /\ UNCHANGED receiver
    BY DEF BeginPass, NewPass, Sampled
  <1>2. /\ gesture'.last_frame = gesture.last_frame
        /\ gesture.require_release => gesture'.require_release
        /\ gesture.pending_event = 0 => gesture'.pending_event = 0
    BY <1>1, BaseFacts, WithdrawFacts
  <1>3. Taken' = Taken /\ Len(frames) <= QueueCapacity
    BY <1>1 DEF Taken, receiver, BaseInv, QueueInv
  <1> QED
    BY <1>1, <1>2, <1>3 DEF OrderInv, receiver, Frame

LEMMA OrderNextFrame ==
    ASSUME BaseInv, PassInv, OrderInv, NextFrame
    PROVE  OrderInv'
  <1> DEFINE n == Taken + 1
             f == Frame(n)
             allowed == pass'.run /\ f.stamp.at > pass.gate.boundary /\ pass.permitted
  <1>1. /\ n \in 1 .. Len(received) /\ Taken' = n
        /\ Len(frames') = Len(frames) - 1
        /\ IsFresh(f.stamp, clock)
        /\ pass' = [pass EXCEPT !.run = pass'.run, !.budget = pass.budget - 1,
                                !.observed = IF n > pass.observed THEN n ELSE pass.observed]
        /\ Sees(gesture, f, allowed, gesture')
        /\ IsFresh(f.stamp, pass.now) => gesture'.last_frame = f.stamp
    BY NextFrameFacts DEF BaseInv
  <1>2. f \in RemoteState /\ f.stamp.seq = n /\ f.stamp.at \in Nat
    BY <1>1, FrameFacts DEF BaseInv, Stamp
  <1>3. /\ pc = "Frames" /\ pc' = "Frames"
        /\ UNCHANGED <<received, snapshot, putting, cached>>
    BY DEF NextFrame
  <1>4. IsFresh(f.stamp, pass.now)
    <2>1. f.stamp.at <= pass.now /\ pass.now <= clock
      BY <1>1, <1>3 DEF PassInv, Frame
    <2>2. pass.now \in Nat /\ clock \in Nat /\ InputTimeout \in Nat
      BY BaseFacts, TimesAssumption DEF BaseInv, TypesInv
    <2> QED
      BY <1>1, <1>2, <2>1, <2>2 DEF IsFresh
  <1>5. gesture'.last_frame = f.stamp
    BY <1>1, <1>4
  <1>6. pass \in Passes /\ Taken \in Nat /\ n = Taken + 1
    BY BaseFacts DEF BaseInv, TypesInv, Taken
  <1> HIDE DEF f, n
  <1>7. pass'.budget = pass.budget - 1 /\ pass'.observed \in {n, pass.observed}
        /\ pass'.observed >= n
    <2>1. /\ pass'.budget = pass.budget - 1
          /\ pass'.observed = IF n > pass.observed THEN n ELSE pass.observed
      BY <1>1, <1>6 DEF Passes
    <2> QED
      BY <1>6, <2>1, BaseFacts
  <1>8. pass'.observed \in {cached, n}
    <2>1. pass.observed \in {cached, Taken}
      BY <1>3 DEF OrderInv
    <2> QED
      BY <1>6, <1>7, <2>1
  <1>9. received'[gesture'.last_frame.seq] = f
    BY <1>2, <1>3, <1>5 DEF Frame, f
  <1>10. Len(frames) <= pass.budget
    BY <1>3 DEF OrderInv
  <1>11. gesture'.last_frame.seq = n /\ gesture'.last_frame = f.stamp
    BY <1>2, <1>5
  <1>12. Len(frames') <= pass'.budget
    <2>1. Len(frames) \in Nat /\ pass.budget \in Nat
      BY <1>6, BaseFacts DEF BaseInv, TypesInv, Passes
    <2> QED
      BY <1>1, <1>7, <1>10, <2>1
  <1>13. putting' \/ cached' = snapshot'
    BY <1>3 DEF OrderInv
  <1>14. gesture'.last_frame = received'[gesture'.last_frame.seq].stamp
    BY <1>9, <1>11
  <1>15. ~(gesture'.last_frame.seq < Taken') /\ gesture'.last_frame.seq <= Taken'
    BY <1>1, <1>6, <1>11
  <1> QED
    BY <1>1, <1>3, <1>8, <1>12, <1>13, <1>14, <1>15 DEF OrderInv, Frame

LEMMA OrderDecide ==
    ASSUME BaseInv, PassInv, OrderInv, Decide
    PROVE  OrderInv' /\ gesture'.event_sequence = gesture.event_sequence
  <1> DEFINE o == pass.observed
             f == Frame(o)
             last == gesture.last_frame.seq
  <1>1. /\ gesture' = Withdraw(gesture)
           \/ (o # 0 /\ Sees(gesture, f, pass.permitted, gesture'))
        /\ pc = "Decide" /\ pc' = "Sleep" /\ UNCHANGED <<received, frames, snapshot, putting, cached>>
    BY DecideFacts DEF BaseInv, Decide, receiver
  <1>2. /\ o \in {cached, Taken} /\ Taken = Len(received)
        /\ putting \/ cached = snapshot
    BY <1>1, BaseFacts DEF OrderInv, Taken
  <1>3. o \in Nat /\ o <= Taken /\ cached <= Taken
    BY <1>2, BaseFacts DEF BaseInv, NameInv, TypesInv
  <1>4. Taken' = Taken
    BY <1>1 DEF Taken
  <1>5. gesture \in Gesture /\ last \in Nat
    BY BaseFacts DEF Gesture, Stamp
  <1>6. CASE gesture' = Withdraw(gesture)
    <2>1. /\ gesture'.last_frame = gesture.last_frame /\ gesture'.require_release
          /\ gesture'.pending_event = 0 /\ gesture'.event_sequence = gesture.event_sequence
      BY <1>5, <1>6, WithdrawFacts
    <2> QED
      BY <1>1, <1>4, <2>1 DEF OrderInv, Frame
  <1>7. CASE o # 0 /\ Sees(gesture, f, pass.permitted, gesture')
    <2>1. o \in 1 .. Len(received)
      BY <1>2, <1>3, <1>7
    <2>2. f \in RemoteState /\ f.stamp.seq = o
      BY <2>1, FrameFacts DEF BaseInv
    <2>3. gesture'.last_frame = f.stamp => received'[gesture'.last_frame.seq] = f
      BY <1>1, <2>2 DEF Frame
    <2> HIDE DEF f
    <2>4. last <= Taken
      BY DEF OrderInv
    <2>5. gesture'.event_sequence = gesture.event_sequence
      <3>1. CASE o > last
        BY <1>2, <1>3, <1>5, <1>7, <2>2, <2>4, <3>1 DEF Sees, OrderInv
      <3>2. CASE ~(o > last)
        BY <1>7, <2>2, <3>2 DEF Sees
      <3> QED
        BY <3>1, <3>2
    <2>6. CASE gesture'.last_frame = f.stamp
      <3>1. CASE o = Taken
        BY <1>1, <1>3, <1>4, <2>2, <2>3, <2>5, <2>6, <3>1 DEF OrderInv, Frame
      <3>2. CASE o # Taken
        <4>1. o = cached /\ o < Taken
          BY <1>2, <1>3, <3>2
        <4>2. gesture'.require_release /\ gesture'.pending_event = 0
          <5>1. CASE o > last
            <6>1. last < Taken /\ ~(cached >= Taken \/ cached <= last)
              BY <1>3, <1>5, <4>1, <5>1, BaseFacts DEF Taken
            <6> QED
              BY <6>1 DEF OrderInv
          <5>2. CASE o <= last /\ f.stamp # gesture.last_frame
            <6>1. Regressed(gesture, f)
              BY <1>3, <1>5, <1>7, <2>2, <5>2 DEF Regressed, Duplicate
            <6> QED
              BY <1>7, <6>1 DEF Sees
          <5>3. CASE f.stamp = gesture.last_frame
            <6>1. gesture.require_release /\ gesture.pending_event = 0
              BY <2>2, <4>1, <5>3 DEF OrderInv
            <6> QED
              BY <1>3, <1>7, <2>2, <2>5, <5>3, <6>1 DEF Sees
          <5> QED
            BY <1>3, <1>5, <2>2, <5>1, <5>2, <5>3
        <4>3. putting \/ snapshot <= o
          BY <1>2, <4>1, BaseFacts DEF BaseInv, TypesInv
        <4> QED
          BY <1>1, <1>3, <1>4, <2>2, <2>3, <2>5, <2>6, <4>1, <4>2, <4>3 DEF OrderInv, Frame
      <3> QED
        BY <3>1, <3>2
    <2>7. CASE gesture'.last_frame = gesture.last_frame /\ gesture'.require_release
               /\ gesture'.pending_event = 0
      BY <1>1, <1>4, <2>5, <2>7 DEF OrderInv, Frame
    <2> QED
      BY <1>7, <2>6, <2>7 DEF Sees
  <1> QED
    BY <1>1, <1>6, <1>7

LEMMA OrderStep ==
    ASSUME BaseInv, PassInv, OrderInv, ~ReceiverPreempts, [Next]_vars, ~lost'
    PROVE  OrderInv'
  <1>1. ~lost
    BY LostStays
  <1>2. CASE Outside
    BY <1>2, OrderOutside
  <1>3. CASE \E p \in Permissions : BeginPass(p)
    <2>1. UNCHANGED profile
      BY DEF Next, vars
    <2> QED
      BY <1>1, <1>3, <2>1, OrderBeginPass
  <1>4. CASE NoMoreFrames
    <2>1. /\ UNCHANGED <<received, snapshot, putting, cached, pass>> /\ pc = "Frames" /\ pc' = "Decide"
          /\ pass.budget = 0 \/ frames = <<>>
          /\ UNCHANGED <<frames, gesture>>
      BY <1>4, LostStays DEF NoMoreFrames
    <2>2. Len(frames) <= pass.budget
      BY <2>1 DEF OrderInv
    <2>3. frames = <<>>
      <3>1. frames \in Seq(Nat)
        BY DEF BaseInv, TypesInv
      <3> QED
        BY <2>1, <2>2, <3>1
    <2> QED
      BY <2>1, <2>3 DEF OrderInv, Frame, Taken
  <1>5. CASE NextFrame
    BY <1>5, OrderNextFrame
  <1>6. CASE Decide
    BY <1>6, OrderDecide
  <1> QED
    BY <1>2, <1>3, <1>4, <1>5, <1>6, Steps

LEMMA NewStep ==
    ASSUME BaseInv, PassInv, OrderInv, NewInv, ~ReceiverPreempts, [Next]_vars
    PROVE  NewInv'
  <1> USE DEF NewInv, NoOldClick
  <1>1. CASE Outside
    <2>1. UNCHANGED command
      BY <1>1, OutsideFacts
    <2>2. gate' = gate \/ gate'.revision = gate.revision + 1
      <3>1. CASE \E allowed \in BOOLEAN : SetOperatorGate(allowed)
        BY <3>1 DEF SetOperatorGate
      <3>2. CASE Receiver
        BY <3>2, ReceiveInSleep
      <3> QED
        BY <1>1, <3>1, <3>2 DEF Outside, Tick, ConsumeEvent, vars
    <2>3. gate'.revision = gate.revision + 1 => gate'.revision # seen
      BY BaseFacts DEF BaseInv, TypesInv
    <2> QED
      BY <2>1, <2>2, <2>3 DEF command
  <1>2. CASE \E p \in Permissions : BeginPass(p)
    <2>1. /\ seen' = gate.revision /\ pass'.gate = gate
          /\ gesture' = IF gate.revision # seen THEN Withdraw(gesture) ELSE gesture
          /\ UNCHANGED <<gate, output>>
      BY <1>2 DEF BeginPass, NewPass
    <2>2. Withdraw(gesture).pending_event = 0
      BY BaseFacts, WithdrawFacts
    <2> QED
      BY <2>1, <2>2
  <1>3. CASE NoMoreFrames
    <2>1. /\ gesture' \in {gesture, Withdraw(gesture)}
          /\ UNCHANGED <<gate, pass, seen, output>> /\ pc = "Frames"
      BY <1>3 DEF NoMoreFrames
    <2>2. Withdraw(gesture).pending_event = 0
      BY BaseFacts, WithdrawFacts
    <2> QED
      BY <2>1, <2>2
  <1>4. CASE NextFrame
    <2> DEFINE f == Frame(Taken + 1)
    <2>1. Sees(gesture, f, pass'.run /\ f.stamp.at > pass.gate.boundary /\ pass.permitted, gesture')
      BY <1>4, NextFrameFacts DEF BaseInv
    <2>2. /\ pass'.gate = pass.gate /\ pc = "Frames" /\ UNCHANGED <<gate, seen, output>>
      BY <1>4, NextFrameFacts DEF BaseInv, TypesInv, Passes, NextFrame
    <2> HIDE DEF f
    <2>3. gesture'.pending_event # 0 => gesture'.click_stamp.at > pass.gate.boundary
      BY <2>1, <2>2 DEF Sees
    <2>4. gate.revision = seen => pass.gate = gate
      BY <2>2 DEF PassInv
    <2> QED
      BY <2>2, <2>3, <2>4
  <1>5. CASE Decide
    <2>1. /\ gesture' = Withdraw(gesture) \/ \E f, allowed : Sees(gesture, f, allowed, gesture')
          /\ output'.gate = pass.gate
          /\ output'.intent.event # 0 => /\ output'.intent.event = gesture'.pending_event
                                         /\ output'.intent.click = gesture'.click_stamp
      BY <1>5, DecideFacts DEF BaseInv
    <2>2. gesture'.event_sequence = gesture.event_sequence
      BY <1>5, OrderDecide
    <2>3. gesture'.pending_event # 0 =>
             gesture.pending_event # 0 /\ gesture'.click_stamp = gesture.click_stamp
      BY <2>1, <2>2, BaseFacts, WithdrawFacts DEF Sees
    <2>4. pc = "Decide" /\ pc' = "Sleep" /\ UNCHANGED <<gate, seen>>
      BY <1>5 DEF Decide
    <2> QED
      BY <2>1, <2>3, <2>4
  <1> QED
    BY <1>1, <1>2, <1>3, <1>4, <1>5, Steps

(* While no frame has been given up, the press behind a published click    *)
(* was received after the boundary of the gate it is published with.       *)
THEOREM ClicksComeAfterTheirGate == ~ReceiverPreempts /\ Spec => []ClicksAreNew
  <1> DEFINE Inv == BaseInv /\ PassInv /\ (~lost => OrderInv /\ NewInv)
  <1> SUFFICES ASSUME ~ReceiverPreempts
               PROVE  Spec => []ClicksAreNew
    OBVIOUS
  <1>1. Init => PassInv
    BY DEF Init, PassInv
  <1>2. Init => OrderInv
    BY DEF Init, OrderInv, NewGesture, NoStamp, Taken
  <1>3. Init => NewInv
    BY DEF Init, NewInv, NoOldClick, NewGesture, Disabled, NoIntent
  <1>4. Inv /\ [Next]_vars => Inv'
    <2> SUFFICES ASSUME Inv, [Next]_vars
                 PROVE  Inv'
      OBVIOUS
    <2>1. BaseInv' /\ PassInv'
      BY BaseStep, PassStep
    <2>2. ~lost' => OrderInv' /\ NewInv'
      BY LostStays, OrderStep, NewStep
    <2> QED
      BY <2>1, <2>2
  <1>5. Inv => ClicksAreNew
    BY DEF NewInv, ClicksAreNew
  <1> QED
    BY BaseInit, <1>1, <1>2, <1>3, <1>4, <1>5, PTL DEF Spec

-----------------------------------------------------------------------------
(* One shot for a press, whatever the receive thread does.                 *)

LEMMA ShotFacts ==
    ASSUME BaseInv
    PROVE  /\ gesture.last_frame.seq \in Nat /\ gesture.click_stamp.seq \in Nat
           /\ output.intent.click.seq \in Nat /\ output.intent \in Intent
           /\ consumed \in Nat /\ snapshot \in Nat /\ cached \in Nat /\ cached <= snapshot
           /\ snapshot <= Len(received) /\ pass.observed <= Len(received)
           /\ Taken \in Nat /\ Taken <= Len(received) /\ Len(received) = Taken + Len(frames)
           /\ shots \in Seq(Nat) /\ Len(shots) \in Nat
           /\ consumed <= gesture.event_sequence /\ output.intent.event <= gesture.event_sequence
  <1>1. gesture \in Gesture /\ output \in Outputs
    BY DEF BaseInv, TypesInv
  <1>2. gesture.last_frame \in Stamp /\ gesture.click_stamp \in Stamp /\ output.intent \in Intent
    BY <1>1 DEF Gesture, Outputs
  <1>3. output.intent.click \in Stamp
    BY <1>2 DEF Intent
  <1>4. Taken \in Nat /\ Taken <= Len(received) /\ Len(received) = Taken + Len(frames)
    BY BaseFacts DEF Taken
  <1>5. consumed \in Nat /\ snapshot \in Nat /\ cached \in Nat /\ shots \in Seq(Nat)
    BY DEF BaseInv, TypesInv
  <1> QED
    BY <1>2, <1>3, <1>4, <1>5 DEF Stamp, BaseInv, NameInv

LEMMA ShotsFacts ==
    ASSUME BaseInv
    PROVE  /\ shots \in Seq(Nat) /\ Len(shots) \in Nat
           /\ \A i \in 1 .. Len(shots) : shots[i] \in Nat
  <1>1. shots \in Seq(Nat)
    BY DEF BaseInv, TypesInv
  <1> QED
    BY <1>1

(* Frames that were received stay as they are.                             *)
Grows ==
    /\ Len(received') \in Nat /\ Len(received) <= Len(received')
    /\ \A i \in 1 .. Len(received) : received'[i] = received[i]

LEMMA ClickedStays ==
    ASSUME BaseInv, Grows, NEW n, Clicked(n)
    PROVE  Clicked(n)'
  BY BaseFacts, SMTT(60) DEF Clicked, Grows, Frame

LEMMA BetweenStays ==
    ASSUME BaseInv, Grows, NEW a \in Nat, NEW b \in Nat, b <= Len(received), Between(a, b)
    PROVE  Between(a, b)'
  <1>1. PICK n \in a + 1 .. b - 1 : ~received[n].left
    BY DEF Between, Frame
  <1>2. n \in 1 .. Len(received)
    BY <1>1, BaseFacts
  <1>3. ~received'[n].left
    BY <1>1, <1>2 DEF Grows
  <1> QED
    BY <1>1, <1>3 DEF Between, Frame

LEMMA BetweenWidens ==
    ASSUME NEW a \in Nat, NEW b \in Nat, NEW c \in Nat, NEW d \in Nat, a <= b, c <= d, Between(b, c)
    PROVE  Between(a, d)
  BY DEF Between

LEMMA PressGrows ==
    ASSUME BaseInv, NEW k \in Nat, PressInv(k), Grows, UNCHANGED command,
           Taken' \in Nat, Taken <= Taken',
           \/ UNCHANGED <<snapshot, putting>>
           \/ putting'
           \/ snapshot' = Len(received)
    PROVE  PressInv(k)'
  <1> DEFINE last == gesture.last_frame.seq
  <1>1. UNCHANGED <<gesture, pc, pass, cached>>
    BY DEF command
  <1>2. k # 0 => Clicked(k)'
    BY ClickedStays DEF PressInv
  <1>3. ~gesture.require_release /\ ~gesture.left =>
              k = 0 \/ \E n \in k + 1 .. last : ~received'[n].left
    <2> SUFFICES ASSUME ~gesture.require_release, ~gesture.left, k # 0
                 PROVE  \E n \in k + 1 .. last : ~received'[n].left
      OBVIOUS
    <2>1. (\E n \in k + 1 .. last : ~received[n].left) /\ last <= Len(received)
      BY DEF PressInv, Frame
    <2>2. PICK n \in k + 1 .. last : ~received[n].left
      BY <2>1
    <2>3. n \in 1 .. Len(received) /\ last \in Nat
      BY <2>1, <2>2, ShotFacts
    <2>4. ~received'[n].left
      BY <2>2, <2>3 DEF Grows
    <2> QED
      BY <2>2, <2>4
  <1>t. /\ Taken \in Nat /\ Taken' \in Nat /\ Taken <= Taken' /\ last \in Nat
        /\ Len(received) \in Nat /\ Len(received') \in Nat /\ Len(received) <= Len(received')
        /\ cached \in Nat /\ pass.budget \in Nat /\ pass.observed \in Nat /\ snapshot \in Nat
        /\ Taken <= Len(received)
    BY ShotFacts, BaseFacts DEF Grows
  <1>4. k <= Taken' /\ last <= Len(received')
    <2>1. k <= Taken /\ last <= Len(received)
      BY DEF PressInv
    <2> QED
      BY <1>t, <2>1
  <1>5. /\ pc = "Frames" => cached <= Taken' + pass.budget
        /\ pc = "Decide" => cached <= Taken'
        /\ pc # "Sleep" => pass.observed = cached \/ (k <= pass.observed /\ pass.observed <= Taken')
    <2>1. /\ pc = "Frames" => cached <= Taken + pass.budget
          /\ pc = "Decide" => cached <= Taken
          /\ pc # "Sleep" => pass.observed = cached \/ (k <= pass.observed /\ pass.observed <= Taken)
      BY DEF PressInv
    <2> QED
      BY <1>t, <2>1
  <1>6. /\ pc # "Sleep" /\ pass.observed < k => putting' \/ snapshot' = cached \/ snapshot' >= k
        /\ last < k =>
              /\ gesture.require_release /\ gesture.pending_event = 0
              /\ putting' \/ snapshot' >= k \/ snapshot' <= last
              /\ cached >= k \/ cached <= last
    BY ShotFacts DEF PressInv
  <1>7. k = 0 <=> gesture.event_sequence = 0
    BY DEF PressInv
  <1> QED
    BY <1>1, <1>2, <1>3, <1>4, <1>5, <1>6, <1>7 DEF PressInv, Frame

LEMMA ClickGrows ==
    ASSUME BaseInv, NEW k \in Nat, PressInv(k), ClickInv(k), Grows,
           UNCHANGED <<gesture, output, executor>>
    PROVE  ClickInv(k)'
  <1> DEFINE o == output.intent.click.seq
             s == shots[Len(shots)]
  <1>1. k <= Len(received) /\ UNCHANGED <<consumed, shots>>
    BY ShotFacts DEF PressInv, executor
  <1>2. output.intent.event # 0 => /\ Clicked(o)' /\ o <= k
                                   /\ output.intent.event = gesture.event_sequence => o = k
                                   /\ output.intent.event < gesture.event_sequence => Between(o, k)'
    <2>1. output.intent.event # 0 => /\ Clicked(o) /\ o <= k
                                     /\ output.intent.event = gesture.event_sequence => o = k
                                     /\ output.intent.event < gesture.event_sequence => Between(o, k)
      BY DEF ClickInv
    <2>2. o \in Nat
      BY ShotFacts
    <2> QED
      BY <1>1, <2>1, <2>2, ClickedStays, BetweenStays
  <1>3. \A i \in 1 .. Len(shots) : Clicked(shots[i])'
    BY <1>1, ClickedStays DEF ClickInv
  <1>4. \A i, j \in 1 .. Len(shots) : i + 1 = j => Between(shots[i], shots[j])'
    <2> SUFFICES ASSUME NEW i \in 1 .. Len(shots), NEW j \in 1 .. Len(shots), i + 1 = j
                 PROVE  Between(shots[i], shots[j])'
      OBVIOUS
    <2>1. Between(shots[i], shots[j]) /\ Clicked(shots[j])
      BY DEF ClickInv
    <2>2. shots[i] \in Nat /\ shots[j] \in Nat
      BY ShotsFacts
    <2>3. shots[j] <= Len(received)
      BY <2>1 DEF Clicked
    <2> QED
      BY <1>1, <2>1, <2>2, <2>3, BetweenStays
  <1>5. shots # <<>> => /\ s <= k
                        /\ consumed < gesture.event_sequence => Between(s, k)'
                        /\ output.intent.event > consumed => Between(s, o)'
    <2> SUFFICES ASSUME shots # <<>>
                 PROVE  /\ s <= k
                        /\ consumed < gesture.event_sequence => Between(s, k)'
                        /\ output.intent.event > consumed => Between(s, o)'
      OBVIOUS
    <2>1. s \in Nat
      BY ShotFacts
    <2>2. output.intent.event > consumed => o <= Len(received)
      <3>1. o \in Nat /\ Len(received) \in Nat /\ consumed \in Nat
        BY ShotFacts
      <3>2. output.intent.event # 0 => o <= k
        BY <1>2
      <3> QED
        BY <1>1, <3>1, <3>2, SMTT(30)
    <2> QED
      BY <1>1, <2>1, <2>2, ShotFacts, BetweenStays DEF ClickInv
  <1> QED
    BY <1>1, <1>2, <1>3, <1>4, <1>5 DEF ClickInv

LEMMA ShotOutside ==
    ASSUME BaseInv, NEW k \in Nat, PressInv(k), ClickInv(k), [Next]_vars, Outside
    PROVE  PressInv(k)' /\ ClickInv(k)'
  <1>1. UNCHANGED command
    BY OutsideFacts
  <1>2. CASE Receiver
    <2>1. UNCHANGED executor
      BY <1>2 DEF Receiver, ReceiveFrame, DiscardPartial, BeginPut, EndPut
    <2>2. Grows /\ Taken' \in Nat /\ Taken <= Taken'
      <3>1. CASE \E input \in Inputs, at \in clock - MaxDelay .. clock : ReceiveFrame(input, at)
        <4>1. PICK input \in Inputs, at \in clock - MaxDelay .. clock : ReceiveFrame(input, at)
          BY <3>1
        <4>2. UNCHANGED profile
          BY DEF Next, vars
        <4>3. Taken' \in Nat /\ Taken <= Taken'
          BY <4>1, <4>2, ReceiveKeepsBase, ShotFacts
        <4>4. Len(received') = Len(received) + 1 /\ \A i \in 1 .. Len(received) : received'[i] = received[i]
          BY <4>1, ReceiveFacts
        <4> QED
          BY <4>3, <4>4, BaseFacts DEF Grows
      <3>2. CASE DiscardPartial
        BY <3>2, BaseFacts DEF DiscardPartial, Grows, Taken
      <3>3. CASE BeginPut \/ EndPut
        BY <3>3, BaseFacts DEF BeginPut, EndPut, Grows, Taken
      <3> QED
        BY <1>2, <3>1, <3>2, <3>3 DEF Receiver
    <2>3. UNCHANGED <<snapshot, putting>> \/ putting' \/ snapshot' = Len(received)
      BY <1>2 DEF Receiver, ReceiveFrame, DiscardPartial, BeginPut, EndPut
    <2>4. PressInv(k)'
      BY <1>1, <2>2, <2>3, PressGrows
    <2>5. ClickInv(k)'
      BY <1>1, <2>1, <2>2, ClickGrows DEF command
    <2> QED
      BY <2>4, <2>5
  <1>3. CASE UNCHANGED receiver
    <2>1. /\ Grows /\ UNCHANGED <<snapshot, putting>>
          /\ Taken' \in Nat /\ Taken <= Taken'
      BY <1>3, BaseFacts DEF receiver, Grows, Taken
    <2>2. PressInv(k)'
      <3>1. UNCHANGED <<snapshot, putting>> \/ putting' \/ snapshot' = Len(received)
        BY <2>1
      <3> QED
        BY <1>1, <2>1, <3>1, PressGrows
    <2>3. CASE UNCHANGED executor
      BY <1>1, <2>1, <2>2, <2>3, ClickGrows DEF command
    <2>4. CASE \E accepted \in BOOLEAN : ConsumeEvent(accepted)
      <3> DEFINE o == output.intent.click.seq
                 s == shots[Len(shots)]
      <3>1. /\ output.intent.event > consumed /\ consumed' = output.intent.event
            /\ shots' \in {shots, Append(shots, o)}
            /\ UNCHANGED <<received, gesture, output>>
        BY <2>4 DEF ConsumeEvent, receiver, command
      <3>2. o \in Nat /\ output.intent.event \in Nat \ {0} /\ consumed \in Nat
        BY <3>1, ShotFacts, BaseFacts
      <3>3. /\ Clicked(o) /\ o <= k
            /\ output.intent.event = gesture.event_sequence => o = k
            /\ output.intent.event < gesture.event_sequence => Between(o, k)
        BY <3>2 DEF ClickInv
      <3>4. shots # <<>> => s <= k /\ Between(s, o) /\ (consumed < gesture.event_sequence => Between(s, k))
        BY <3>1 DEF ClickInv
      <3>5. /\ \A i \in 1 .. Len(shots) : Clicked(shots[i])
            /\ \A i, j \in 1 .. Len(shots) : i + 1 = j => Between(shots[i], shots[j])
            /\ gesture.pending_event # 0 => gesture.click_stamp.seq = k
        BY DEF ClickInv
      <3>6. CASE shots' = shots
        <4>1. output.intent.event < gesture.event_sequence => consumed < gesture.event_sequence
          BY <3>1, <3>2, BaseFacts
        <4> QED
          BY <2>2, <3>1, <3>2, <3>3, <3>4, <3>5, <3>6, <4>1 DEF ClickInv, Clicked, Between, Frame
      <3>7. CASE shots' = Append(shots, o)
        <4>1. /\ Len(shots') = Len(shots) + 1 /\ shots'[Len(shots')] = o
              /\ \A i \in 1 .. Len(shots) : shots'[i] = shots[i]
          BY <3>2, <3>7, ShotFacts
        <4>2. \A i \in 1 .. Len(shots') : Clicked(shots'[i])
          <5> SUFFICES ASSUME NEW i \in 1 .. Len(shots')
                       PROVE  Clicked(shots'[i])
            OBVIOUS
          <5>1. CASE i \in 1 .. Len(shots)
            BY <3>5, <4>1, <5>1
          <5>2. CASE i = Len(shots')
            BY <3>3, <4>1, <5>2
          <5> QED
            BY <4>1, <5>1, <5>2, ShotFacts
        <4>3. \A i, j \in 1 .. Len(shots') : i + 1 = j => Between(shots'[i], shots'[j])
          <5> SUFFICES ASSUME NEW i \in 1 .. Len(shots'), NEW j \in 1 .. Len(shots'), i + 1 = j
                       PROVE  Between(shots'[i], shots'[j])
            OBVIOUS
          <5>1. i \in 1 .. Len(shots) /\ shots'[i] = shots[i]
            BY <4>1, ShotsFacts, SMTT(60)
          <5>2. CASE j \in 1 .. Len(shots)
            BY <3>5, <4>1, <5>1, <5>2
          <5>3. CASE j = Len(shots')
            <6>1. i = Len(shots) /\ shots # <<>>
              BY <4>1, <5>1, <5>3, ShotFacts
            <6>2. shots'[i] = s /\ shots'[j] = o
              BY <4>1, <5>1, <5>3, <6>1
            <6> QED
              BY <3>4, <6>1, <6>2
          <5>4. j \in 1 .. Len(shots) \/ j = Len(shots')
            BY <4>1, ShotsFacts
          <5> QED
            BY <5>2, <5>3, <5>4
        <4> QED
          BY <2>2, <3>1, <3>2, <3>3, <3>5, <4>1, <4>2, <4>3 DEF ClickInv, Clicked, Between, Frame
      <3> QED
        BY <2>2, <3>1, <3>6, <3>7
    <2> QED
      BY <1>3, <2>2, <2>3, <2>4, <1>1 DEF Outside, Tick, Receiver, SetOperatorGate, vars, ReceiveFrame, DiscardPartial, BeginPut, EndPut
  <1> QED
    BY <1>2, <1>3 DEF Outside, Tick, SetOperatorGate, ConsumeEvent, vars

LEMMA ShotBeginPass ==
    ASSUME BaseInv, NEW k \in Nat, PressInv(k), ClickInv(k), NEW p \in Permissions, BeginPass(p)
    PROVE  PressInv(k)' /\ ClickInv(k)'
  <1> DEFINE last == gesture.last_frame.seq
  <1>1. /\ gesture' \in {gesture, Withdraw(gesture)}
        /\ cached' = (IF putting THEN cached ELSE snapshot)
        /\ pass'.budget = QueueCapacity /\ pass'.observed = cached' /\ pc' = "Frames"
        /\ UNCHANGED <<received, frames, snapshot, putting, output, consumed, shots>>
    BY DEF BeginPass, NewPass, Sampled, receiver, executor
  <1>2. /\ gesture'.last_frame = gesture.last_frame
        /\ gesture'.event_sequence = gesture.event_sequence
        /\ gesture' = gesture \/ (gesture'.require_release /\ gesture'.pending_event = 0)
    BY <1>1, BaseFacts, WithdrawFacts
  <1>3. Taken' = Taken
    BY <1>1 DEF Taken
  <1>4. cached' <= Taken + QueueCapacity
    <2>1. cached' \in Nat /\ cached' <= Taken + Len(frames)
      BY <1>1, ShotFacts
    <2>2. Len(frames) <= QueueCapacity
      BY DEF BaseInv, QueueInv
    <2> QED
      BY <2>1, <2>2, ShotFacts, BaseFacts
  <1>5. PressInv(k)'
    <2>1. /\ k = 0 <=> gesture.event_sequence = 0
          /\ k # 0 => Clicked(k)
          /\ k <= Taken /\ last <= Len(received)
          /\ ~gesture.require_release /\ ~gesture.left =>
                k = 0 \/ \E n \in k + 1 .. last : ~Frame(n).left
          /\ last < k =>
                /\ gesture.require_release /\ gesture.pending_event = 0
                /\ putting \/ snapshot >= k \/ snapshot <= last
                /\ cached >= k \/ cached <= last
      BY DEF PressInv
    <2>2. last < k => cached' >= k \/ cached' <= last
      BY <1>1, <2>1
    <2>3. putting' \/ snapshot' = cached'
      BY <1>1
    <2> QED
      BY <1>1, <1>2, <1>3, <1>4, <2>1, <2>2, <2>3 DEF PressInv, Clicked, Frame
  <1>6. ClickInv(k)'
    BY <1>1, <1>2 DEF ClickInv, Clicked, Between, Frame
  <1> QED
    BY <1>5, <1>6

LEMMA ShotNoMoreFrames ==
    ASSUME BaseInv, NEW k \in Nat, PressInv(k), ClickInv(k), NoMoreFrames
    PROVE  PressInv(k)' /\ ClickInv(k)'
  <1> DEFINE last == gesture.last_frame.seq
  <1>1. /\ gesture' \in {gesture, Withdraw(gesture)}
        /\ pc = "Frames" /\ pc' = "Decide"
        /\ UNCHANGED <<received, snapshot, putting, cached, pass, output, consumed, shots>>
        /\ \/ pass.budget = 0 /\ UNCHANGED frames
           \/ frames' = <<>>
    BY DEF NoMoreFrames, executor
  <1>2. /\ gesture'.last_frame = gesture.last_frame
        /\ gesture'.event_sequence = gesture.event_sequence
        /\ gesture' = gesture \/ (gesture'.require_release /\ gesture'.pending_event = 0)
    BY <1>1, BaseFacts, WithdrawFacts
  <1>3. Taken <= Taken' /\ Taken' \in Nat
    BY <1>1, BaseFacts DEF Taken
  <1>4. cached <= Taken'
    <2>1. CASE pass.budget = 0 /\ UNCHANGED frames
      <3>1. cached <= Taken + 0 /\ Taken' = Taken
        BY <1>1, <2>1 DEF PressInv, Taken
      <3> QED
        BY <3>1, ShotFacts
    <2>2. CASE frames' = <<>>
      BY <1>1, <2>2, ShotFacts DEF Taken
    <2> QED
      BY <1>1, <2>1, <2>2
  <1>5. PressInv(k)'
    <2>1. /\ k = 0 <=> gesture.event_sequence = 0
          /\ k # 0 => Clicked(k)
          /\ k <= Taken /\ last <= Len(received)
          /\ ~gesture.require_release /\ ~gesture.left =>
                k = 0 \/ \E n \in k + 1 .. last : ~Frame(n).left
          /\ last < k =>
                /\ gesture.require_release /\ gesture.pending_event = 0
                /\ putting \/ snapshot >= k \/ snapshot <= last
                /\ cached >= k \/ cached <= last
      BY DEF PressInv
    <2>2. /\ pass.observed = cached \/ (k <= pass.observed /\ pass.observed <= Taken)
          /\ pass.observed < k => putting \/ snapshot = cached \/ snapshot >= k
      <3>1. pc # "Sleep" =>
              /\ pass.observed = cached \/ (k <= pass.observed /\ pass.observed <= Taken)
              /\ pass.observed < k => putting \/ snapshot = cached \/ snapshot >= k
        BY DEF PressInv
      <3> QED
        BY <1>1, <3>1
    <2>3. k <= Taken' /\ (pass.observed = cached \/ (k <= pass.observed /\ pass.observed <= Taken'))
      <3>1. Taken \in Nat /\ pass.observed \in Nat
        BY ShotFacts, BaseFacts
      <3> QED
        BY <1>3, <2>1, <2>2, <3>1
    <2> QED
      BY <1>1, <1>2, <1>4, <2>1, <2>2, <2>3 DEF PressInv, Clicked, Frame
  <1>6. ClickInv(k)'
    BY <1>1, <1>2 DEF ClickInv, Clicked, Between, Frame
  <1> QED
    BY <1>5, <1>6

(* A gesture that is neither waiting nor pressed has seen the button up    *)
(* since the newest click, so a click of frame n is another press.         *)
LEMMA PressedAgain ==
    ASSUME BaseInv, NEW k \in Nat, PressInv(k), ClickInv(k),
           ~gesture.require_release, ~gesture.left,
           NEW n \in Nat, gesture.last_frame.seq < n
    PROVE  /\ output.intent.event # 0 => output.intent.click.seq <= n /\ Between(output.intent.click.seq, n)
           /\ shots # <<>> => shots[Len(shots)] <= n /\ Between(shots[Len(shots)], n)
  <1> DEFINE last == gesture.last_frame.seq
             o == output.intent.click.seq
             s == shots[Len(shots)]
  <1>1. k # 0 => k < n /\ Between(k, n)
    <2> SUFFICES ASSUME k # 0
                 PROVE  k < n /\ Between(k, n)
      OBVIOUS
    <2>1. PICK m \in k + 1 .. last : ~Frame(m).left
      BY DEF PressInv
    <2>2. m \in k + 1 .. n - 1
      BY <2>1, ShotFacts
    <2> QED
      BY <2>1, <2>2 DEF Between
  <1>2. k = 0 <=> gesture.event_sequence = 0
    BY DEF PressInv
  <1>3. ASSUME output.intent.event # 0
        PROVE  o <= n /\ Between(o, n)
    <2>1. o <= k /\ o \in Nat /\ Clicked(o)
      BY <1>3, ShotFacts DEF ClickInv
    <2>2. k # 0
      BY <2>1 DEF Clicked
    <2> QED
      BY <1>1, <2>1, <2>2, BetweenWidens
  <1>4. ASSUME shots # <<>>
        PROVE  s <= n /\ Between(s, n)
    <2>1. Len(shots) \in 1 .. Len(shots) /\ s \in Nat
      BY <1>4, ShotsFacts
    <2>2. s <= k /\ Clicked(s)
      BY <1>4, <2>1 DEF ClickInv
    <2>3. k # 0
      BY <2>1, <2>2 DEF Clicked
    <2> QED
      BY <1>1, <2>1, <2>2, <2>3, BetweenWidens
  <1> QED
    BY <1>3, <1>4

(* What a click of frame n leaves of the invariant, for either step that   *)
(* can make one.                                                           *)
LEMMA ShotNewClick ==
    ASSUME BaseInv, BaseInv', NEW k \in Nat, PressInv(k), ClickInv(k),
           NEW f, NEW allowed, Sees(gesture, f, allowed, gesture'),
           gesture'.event_sequence # gesture.event_sequence,
           f.stamp.seq \in 1 .. Len(received), f = Frame(f.stamp.seq),
           UNCHANGED <<received, executor>>,
           \/ UNCHANGED output
           \/ output'.intent.event # 0 =>
                 /\ output'.intent.event = gesture'.pending_event
                 /\ output'.intent.click = gesture'.click_stamp
    PROVE  Clicked(f.stamp.seq) /\ ClickInv(f.stamp.seq)'
  <1> DEFINE n == f.stamp.seq
             s == shots[Len(shots)]
  <1>1. /\ gesture'.event_sequence = gesture.event_sequence + 1
        /\ f.left /\ f.right /\ f.switch = "Up"
        /\ ~gesture.left /\ ~gesture.require_release
        /\ n > gesture.last_frame.seq
        /\ gesture'.pending_event # 0 => gesture'.click_stamp = f.stamp
    BY DEF Sees
  <1>2. Clicked(n)
    BY <1>1 DEF Clicked
  <1>3. n \in Nat \ {0} /\ gesture.last_frame.seq < n /\ UNCHANGED <<received, consumed, shots>>
    BY <1>1, ShotFacts DEF executor
  <1>4. /\ output.intent.event # 0 => output.intent.click.seq <= n /\ Between(output.intent.click.seq, n)
        /\ shots # <<>> => s <= n /\ Between(s, n)
    BY <1>1, <1>3, PressedAgain
  <1>5. gesture'.pending_event # 0 => gesture'.click_stamp.seq = n
    BY <1>1
  <1>6. /\ \A i \in 1 .. Len(shots) : Clicked(shots[i])
        /\ \A i, j \in 1 .. Len(shots) : i + 1 = j => Between(shots[i], shots[j])
        /\ output.intent.event # 0 => Clicked(output.intent.click.seq)
        /\ shots # <<>> /\ output.intent.event > consumed => Between(s, output.intent.click.seq)
    BY DEF ClickInv
  <1>7. CASE UNCHANGED output
    <2>1. output.intent.event < gesture'.event_sequence /\ output.intent.event # gesture'.event_sequence
      <3>1. /\ output.intent.event \in Nat /\ gesture.event_sequence \in Nat
            /\ output.intent.event <= gesture.event_sequence
        BY ShotFacts, BaseFacts
      <3> QED
        BY <1>1, <3>1
    <2> HIDE DEF n
    <2> QED
      BY <1>2, <1>3, <1>4, <1>5, <1>6, <1>7, <2>1 DEF ClickInv, Clicked, Between, Frame, n
  <1>8. CASE output'.intent.event # 0 =>
                 /\ output'.intent.event = gesture'.pending_event
                 /\ output'.intent.click = gesture'.click_stamp
    <2>1. output'.intent.event # 0 =>
             output'.intent.click.seq = n /\ output'.intent.event = gesture'.event_sequence
      <3>1. gesture'.pending_event \in {0, gesture'.event_sequence}
        BY DEF BaseInv, NameInv
      <3> QED
        BY <1>5, <1>8, <3>1
    <2>2. output'.intent.event \in Nat /\ consumed \in Nat /\ gesture'.event_sequence \in Nat
      BY ShotFacts DEF BaseInv, TypesInv, Outputs, Intent, Gesture
    <2>3. output'.intent.event # 0 =>
             /\ Clicked(n) /\ output'.intent.click.seq <= n
             /\ ~(output'.intent.event < gesture'.event_sequence)
      BY <1>2, <1>3, <2>1, <2>2
    <2>4. output'.intent.event > consumed => output'.intent.click.seq = n
      BY <2>1, <2>2
    <2> HIDE DEF n
    <2> QED
      BY <1>2, <1>3, <1>4, <1>5, <1>6, <2>1, <2>3, <2>4 DEF ClickInv, Clicked, Between, Frame, n
  <1> QED
    BY <1>7, <1>8

LEMMA ShotNextFrame ==
    ASSUME BaseInv, BaseInv', NEW k \in Nat, PressInv(k), ClickInv(k), NextFrame
    PROVE  ShotInv'
  <1> DEFINE last == gesture.last_frame.seq
  <1>1. PICK n \in Nat : n = Taken + 1
    BY ShotFacts
  <1>2. n \in 1 .. Len(received) /\ Taken' = n
    BY <1>1, NextFrameFacts DEF BaseInv
  <1>3. PICK f \in RemoteState : f = Frame(n) /\ f.stamp.seq = n
    BY <1>2, FrameFacts DEF BaseInv
  <1>4. PICK allowed : Sees(gesture, f, allowed, gesture')
    BY <1>1, <1>3, NextFrameFacts DEF BaseInv
  <1>5. /\ pc = "Frames" /\ pc' = "Frames"
        /\ UNCHANGED <<received, snapshot, putting, cached, output, executor>>
    BY DEF NextFrame, executor
  <1>6. /\ pass'.budget = pass.budget - 1
        /\ pass'.observed = IF n > pass.observed THEN n ELSE pass.observed
    <2>1. pass \in Passes
      BY DEF BaseInv, TypesInv
    <2>2. pass' = [pass EXCEPT !.run = pass'.run, !.budget = pass.budget - 1,
                               !.observed = IF n > pass.observed THEN n ELSE pass.observed]
      BY <1>1, NextFrameFacts DEF BaseInv
    <2> QED
      BY <2>1, <2>2 DEF Passes
  <1>7. /\ cached <= Taken + pass.budget
        /\ pass.observed = cached \/ (k <= pass.observed /\ pass.observed <= Taken)
        /\ k <= Taken /\ last <= Len(received)
    <2>1. /\ pc = "Frames" => cached <= Taken + pass.budget
          /\ pc # "Sleep" => pass.observed = cached \/ (k <= pass.observed /\ pass.observed <= Taken)
          /\ k <= Taken /\ last <= Len(received)
      BY DEF PressInv
    <2> QED
      BY <1>5, <2>1
  <1>8. /\ cached' <= Taken' + pass'.budget
        /\ pass'.observed \in Nat /\ pass'.observed >= n
        /\ pass'.observed = cached' \/ pass'.observed = n
        /\ k < n
    <2>1. cached \in Nat /\ pass.budget \in Nat /\ pass.observed \in Nat /\ Taken \in Nat
      BY ShotFacts, BaseFacts
    <2>2. cached' = cached /\ Taken' = n
      BY <1>2, <1>5
    <2> QED
      BY <1>1, <1>6, <1>7, <2>1, <2>2
  <1>9. CASE gesture'.event_sequence # gesture.event_sequence
    <2>1. Clicked(n) /\ ClickInv(n)'
      <3>1. UNCHANGED <<received, executor>> /\ UNCHANGED output
        BY <1>5
      <3> QED
        BY <1>2, <1>3, <1>4, <1>9, <3>1, ShotNewClick
    <2>2. gesture'.last_frame = f.stamp /\ f.left /\ f.stamp.seq > last
          /\ gesture'.event_sequence = gesture.event_sequence + 1
      BY <1>4, <1>9 DEF Sees
    <2>3. gesture'.event_sequence # 0 /\ n # 0
      BY <1>2, <2>2, BaseFacts
    <2>4. ~gesture'.require_release => gesture'.left
      <3>1. f.stamp # gesture.last_frame
        BY <2>2, ShotFacts
      <3> QED
        BY <1>4, <2>2, <3>1 DEF Sees
    <2>5. gesture'.last_frame.seq = n /\ ~(gesture'.last_frame.seq < n) /\ ~(pass'.observed < n)
      BY <1>3, <1>8, <2>2
    <2>6. n <= Taken' /\ n <= Len(received')
      BY <1>2, <1>5
    <2>7. Clicked(n)' /\ pc' # "Decide"
      BY <1>5, <2>1 DEF Clicked, Frame
    <2>8. /\ cached' <= Taken' + pass'.budget
          /\ pass'.observed = cached' \/ (n <= pass'.observed /\ pass'.observed <= Taken')
      BY <1>2, <1>8
    <2>9. PressInv(n)'
      BY <2>3, <2>4, <2>5, <2>6, <2>7, <2>8 DEF PressInv
    <2> QED
      BY <2>1, <2>9 DEF ShotInv
  <1>10. CASE gesture'.event_sequence = gesture.event_sequence
    <2>1. /\ k = 0 <=> gesture.event_sequence = 0
          /\ k # 0 => Clicked(k)
          /\ ~gesture.require_release /\ ~gesture.left =>
                k = 0 \/ \E m \in k + 1 .. last : ~Frame(m).left
          /\ last < k =>
                /\ gesture.require_release /\ gesture.pending_event = 0
                /\ putting \/ snapshot >= k \/ snapshot <= last
                /\ cached >= k \/ cached <= last
      BY DEF PressInv
    <2>2. \/ gesture'.last_frame.seq = n
          \/ gesture'.last_frame.seq = last /\ gesture'.require_release /\ gesture'.pending_event = 0
      BY <1>3, <1>4 DEF Sees
    <2>3. ASSUME ~gesture'.require_release, ~gesture'.left
          PROVE  k = 0 \/ \E m \in k + 1 .. gesture'.last_frame.seq : ~Frame(m).left
      <3>1. gesture'.last_frame.seq = n
        BY <2>2, <2>3
      <3>2. CASE ~f.left
        BY <1>1, <1>3, <1>8, <3>1, <3>2
      <3>3. CASE f.stamp = gesture.last_frame /\ gesture'.left = gesture.left /\ ~gesture.require_release
        BY <1>3, <2>1, <2>3, <3>1, <3>3
      <3> QED
        BY <1>4, <2>3, <3>2, <3>3 DEF Sees
    <2>4. gesture'.last_frame.seq < k =>
                /\ gesture'.require_release /\ gesture'.pending_event = 0
                /\ putting' \/ snapshot' >= k \/ snapshot' <= gesture'.last_frame.seq
                /\ cached' >= k \/ cached' <= gesture'.last_frame.seq
      BY <1>5, <1>8, <2>1, <2>2
    <2>5. k <= Taken' /\ gesture'.last_frame.seq <= Len(received') /\ ~(pass'.observed < k)
      BY <1>2, <1>5, <1>7, <1>8, <2>2
    <2>6. /\ cached' <= Taken' + pass'.budget
          /\ pass'.observed = cached' \/ (k <= pass'.observed /\ pass'.observed <= Taken')
      BY <1>2, <1>8
    <2>7. (k # 0 => Clicked(k)') /\ pc' # "Decide"
      BY <1>5, <2>1 DEF Clicked, Frame
    <2>8. k = 0 <=> gesture'.event_sequence = 0
      BY <1>10, <2>1
    <2>9. ~gesture'.require_release /\ ~gesture'.left =>
             k = 0 \/ \E m \in k + 1 .. gesture'.last_frame.seq : ~received'[m].left
      BY <1>5, <2>3 DEF Frame
    <2>10. PressInv(k)'
      BY <2>4, <2>5, <2>6, <2>7, <2>8, <2>9 DEF PressInv, Frame
    <2>11. gesture'.pending_event # 0 => gesture.pending_event # 0 /\ gesture'.click_stamp = gesture.click_stamp
      BY <1>4, <1>10 DEF Sees
    <2>12. ClickInv(k)'
      BY <1>5, <1>10, <2>11 DEF ClickInv, Clicked, Between, Frame, executor
    <2> QED
      BY <2>10, <2>12 DEF ShotInv
  <1> QED
    BY <1>9, <1>10

LEMMA ShotDecide ==
    ASSUME BaseInv, BaseInv', NEW k \in Nat, PressInv(k), ClickInv(k), Decide
    PROVE  ShotInv'
  <1> DEFINE last == gesture.last_frame.seq
  <1>1. PICK o \in Nat : o = pass.observed
    BY BaseFacts
  <1>2. /\ pc = "Decide" /\ pc' = "Sleep" /\ Taken' = Taken
        /\ UNCHANGED <<received, snapshot, putting, cached, executor>>
    BY DEF Decide, receiver, executor, Taken
  <1>3. /\ output'.intent.event # 0 => /\ output'.intent.event = gesture'.pending_event
                                       /\ output'.intent.click = gesture'.click_stamp
        /\ gesture' = Withdraw(gesture)
           \/ (o # 0 /\ Sees(gesture, Frame(o), pass.permitted, gesture'))
    BY <1>1, DecideFacts DEF BaseInv
  <1>4. /\ k = 0 <=> gesture.event_sequence = 0
        /\ k # 0 => Clicked(k)
        /\ k <= Taken /\ last <= Len(received)
        /\ ~gesture.require_release /\ ~gesture.left =>
              k = 0 \/ \E m \in k + 1 .. last : ~Frame(m).left
        /\ last < k =>
              /\ gesture.require_release /\ gesture.pending_event = 0
              /\ putting \/ snapshot >= k \/ snapshot <= last
              /\ cached >= k \/ cached <= last
    BY DEF PressInv
  <1>5. /\ cached <= Taken
        /\ o = cached \/ (k <= o /\ o <= Taken)
        /\ o < k => putting \/ snapshot = cached \/ snapshot >= k
    <2>1. /\ pc = "Decide" => cached <= Taken
          /\ pc # "Sleep" => pass.observed = cached \/ (k <= pass.observed /\ pass.observed <= Taken)
          /\ pc # "Sleep" /\ pass.observed < k => putting \/ snapshot = cached \/ snapshot >= k
      BY DEF PressInv
    <2> QED
      BY <1>1, <1>2, <2>1
  <1>6. o <= Taken
    BY <1>5
  <1>7. CASE gesture'.event_sequence # gesture.event_sequence
    <2>1. o # 0 /\ Sees(gesture, Frame(o), pass.permitted, gesture')
      BY <1>3, <1>7, BaseFacts, WithdrawFacts
    <2>2. o \in 1 .. Len(received)
      BY <1>6, <2>1, ShotFacts
    <2>3. PICK f \in RemoteState : f = Frame(o) /\ f.stamp.seq = o
      BY <2>2, FrameFacts DEF BaseInv
    <2>4. PICK allowed : Sees(gesture, f, allowed, gesture')
      BY <2>1, <2>3
    <2>5. Clicked(o) /\ ClickInv(o)'
      <3>1. UNCHANGED <<received, executor>>
        BY <1>2
      <3> QED
        BY <1>3, <1>7, <2>2, <2>3, <2>4, <3>1, ShotNewClick
    <2>6. gesture'.last_frame = f.stamp /\ f.left /\ f.stamp.seq > last
          /\ gesture'.event_sequence = gesture.event_sequence + 1
      BY <1>7, <2>4 DEF Sees
    <2>7. gesture'.event_sequence # 0
      BY <2>6, BaseFacts
    <2>8. ~gesture'.require_release => gesture'.left
      <3>1. f.stamp # gesture.last_frame
        BY <2>6, ShotFacts
      <3> QED
        BY <2>4, <2>6, <3>1 DEF Sees
    <2>9. gesture'.last_frame.seq = o /\ ~(gesture'.last_frame.seq < o) /\ gesture'.last_frame.seq <= Len(received')
      BY <1>2, <2>2, <2>3, <2>6
    <2>10. Clicked(o)' /\ pc' = "Sleep" /\ o <= Taken'
      BY <1>2, <1>6, <2>5 DEF Clicked, Frame
    <2>11. PressInv(o)'
      BY <2>1, <2>7, <2>8, <2>9, <2>10 DEF PressInv
    <2> QED
      BY <2>5, <2>11 DEF ShotInv
  <1>8. CASE gesture'.event_sequence = gesture.event_sequence
    <2>1. \/ gesture'.last_frame = gesture.last_frame /\ gesture'.require_release
             /\ gesture'.pending_event = 0
          \/ /\ o \in 1 .. Len(received) /\ Frame(o) \in RemoteState /\ Frame(o).stamp.seq = o
             /\ gesture'.last_frame = Frame(o).stamp
             /\ Sees(gesture, Frame(o), pass.permitted, gesture')
      <3>1. CASE gesture' = Withdraw(gesture)
        BY <3>1, BaseFacts, WithdrawFacts
      <3>2. CASE o # 0 /\ Sees(gesture, Frame(o), pass.permitted, gesture')
        <4>1. o \in 1 .. Len(received)
          BY <1>6, <3>2, ShotFacts
        <4>2. Frame(o) \in RemoteState /\ Frame(o).stamp.seq = o
          BY <4>1, FrameFacts DEF BaseInv
        <4> QED
          BY <3>2, <4>1, <4>2 DEF Sees
      <3> QED
        BY <1>3, <3>1, <3>2
    <2>2. ASSUME ~gesture'.require_release, ~gesture'.left
          PROVE  k = 0 \/ \E m \in k + 1 .. gesture'.last_frame.seq : ~Frame(m).left
      <3> SUFFICES ASSUME k # 0
                   PROVE  \E m \in k + 1 .. gesture'.last_frame.seq : ~Frame(m).left
        OBVIOUS
      <3>1. /\ gesture'.last_frame.seq = o
            /\ Sees(gesture, Frame(o), pass.permitted, gesture') /\ Frame(o).stamp.seq = o
        BY <2>1, <2>2
      <3>2. CASE Frame(o).stamp = gesture.last_frame /\ gesture'.left = gesture.left
                 /\ ~gesture.require_release
        BY <1>4, <2>2, <3>1, <3>2
      <3>3. CASE o > last /\ ~Frame(o).left
        <4>1. o # k
          BY <1>4, <3>3 DEF Clicked
        <4>2. ~(o < k)
          <5> SUFFICES ASSUME o < k
                       PROVE  FALSE
            OBVIOUS
          <5>1. o = cached /\ last < k
            BY <1>5, <3>3, ShotFacts
          <5> QED
            BY <1>4, <3>3, <5>1, ShotFacts
        <4> QED
          BY <3>1, <3>3, <4>1, <4>2
      <3> QED
        BY <2>2, <3>1, <3>2, <3>3 DEF Sees
    <2>3. gesture'.last_frame.seq < k =>
                /\ gesture'.require_release /\ gesture'.pending_event = 0
                /\ putting \/ snapshot >= k \/ snapshot <= gesture'.last_frame.seq
                /\ cached >= k \/ cached <= gesture'.last_frame.seq
      <3> SUFFICES ASSUME gesture'.last_frame.seq < k
                   PROVE  /\ gesture'.require_release /\ gesture'.pending_event = 0
                          /\ putting \/ snapshot >= k \/ snapshot <= gesture'.last_frame.seq
                          /\ cached >= k \/ cached <= gesture'.last_frame.seq
        OBVIOUS
      <3>1. CASE gesture'.last_frame = gesture.last_frame /\ gesture'.require_release
                 /\ gesture'.pending_event = 0
        BY <1>4, <3>1
      <3>2. CASE /\ Frame(o) \in RemoteState /\ Frame(o).stamp.seq = o
                 /\ gesture'.last_frame = Frame(o).stamp
                 /\ Sees(gesture, Frame(o), pass.permitted, gesture')
        <4>1. o < k /\ o = cached /\ gesture'.last_frame.seq = o
          BY <1>5, <3>2
        <4>2. putting \/ snapshot >= k \/ snapshot <= o
          BY <1>5, <4>1, ShotFacts
        <4>3. gesture'.require_release /\ gesture'.pending_event = 0
          <5>1. CASE o > last
            BY <1>4, <4>1, <5>1, ShotFacts
          <5>2. CASE o <= last /\ Frame(o).stamp # gesture.last_frame
            <6>1. last # 0 /\ o <= last
              <7>1. Frame(o).stamp \in Stamp /\ gesture.last_frame \in Stamp
                BY <3>2, BaseFacts DEF RemoteState, Gesture
              <7> QED
                BY <2>1, <3>2, <5>2, ShotFacts
            <6>2. Regressed(gesture, Frame(o))
              BY <3>2, <5>2, <6>1 DEF Regressed, Duplicate
            <6> QED
              BY <3>2, <6>2 DEF Sees
          <5>3. CASE Frame(o).stamp = gesture.last_frame
            <6>1. gesture.require_release /\ gesture.pending_event = 0
              BY <1>4, <3>2, <4>1, <5>3
            <6>2. ~(Frame(o).stamp.seq > last)
              BY <3>2, <5>3
            <6> QED
              BY <1>8, <3>2, <6>1, <6>2 DEF Sees
          <5> QED
            BY <5>1, <5>2, <5>3, ShotFacts
        <4> QED
          BY <4>1, <4>2, <4>3
      <3> QED
        BY <2>1, <3>1, <3>2
    <2>4. gesture'.last_frame.seq <= Len(received')
      BY <1>2, <1>4, <2>1
    <2>5. gesture'.pending_event # 0 => gesture.pending_event # 0 /\ gesture'.click_stamp = gesture.click_stamp
      BY <1>8, <2>1 DEF Sees
    <2>6. PressInv(k)'
      <3>1. (k # 0 => Clicked(k)') /\ pc' = "Sleep" /\ k <= Taken' /\ (k = 0 <=> gesture'.event_sequence = 0)
        BY <1>2, <1>4, <1>8 DEF Clicked, Frame
      <3>2. ~gesture'.require_release /\ ~gesture'.left =>
               k = 0 \/ \E m \in k + 1 .. gesture'.last_frame.seq : ~received'[m].left
        BY <1>2, <2>2 DEF Frame
      <3>3. UNCHANGED <<snapshot, putting, cached>>
        BY <1>2
      <3> QED
        BY <2>3, <2>4, <3>1, <3>2, <3>3 DEF PressInv, Frame
    <2>7. ClickInv(k)'
      <3>1. gesture.pending_event # 0 => gesture.click_stamp.seq = k
        BY DEF ClickInv
      <3>2. gesture'.pending_event \in {0, gesture.event_sequence}
        BY <1>8 DEF BaseInv, NameInv
      <3>3. output'.intent.event # 0 =>
               /\ output'.intent.click.seq = k /\ output'.intent.event = gesture.event_sequence /\ k # 0
        BY <1>3, <1>4, <2>5, <3>1, <3>2
      <3>4. output'.intent.event \in Nat /\ consumed \in Nat
        BY ShotFacts DEF BaseInv, TypesInv, Outputs, Intent
      <3>5. output'.intent.event # 0 =>
               /\ Clicked(k) /\ output'.intent.click.seq <= k
               /\ ~(output'.intent.event < gesture.event_sequence)
        BY <1>4, <3>3, BaseFacts
      <3>6. output'.intent.event > consumed =>
               output'.intent.click.seq = k /\ consumed < gesture.event_sequence
        BY <3>3, <3>4
      <3>7. UNCHANGED <<received, shots, consumed>>
        BY <1>2 DEF executor
      <3> QED
        BY <1>8, <2>5, <3>3, <3>5, <3>6, <3>7 DEF ClickInv, Clicked, Between, Frame
    <2> QED
      BY <2>6, <2>7 DEF ShotInv
  <1> QED
    BY <1>7, <1>8

LEMMA ShotStep ==
    ASSUME BaseInv, BaseInv', ShotInv, [Next]_vars
    PROVE  ShotInv'
  <1>1. PICK k \in Nat : PressInv(k) /\ ClickInv(k)
    BY DEF ShotInv
  <1>2. CASE Outside
    BY <1>1, <1>2, ShotOutside DEF ShotInv
  <1>3. CASE \E p \in Permissions : BeginPass(p)
    BY <1>1, <1>3, ShotBeginPass DEF ShotInv
  <1>4. CASE NoMoreFrames
    BY <1>1, <1>4, ShotNoMoreFrames DEF ShotInv
  <1>5. CASE NextFrame
    BY <1>1, <1>5, ShotNextFrame
  <1>6. CASE Decide
    BY <1>1, <1>6, ShotDecide
  <1> QED
    BY <1>2, <1>3, <1>4, <1>5, <1>6, Steps

(* One press, one shot: the shots that are accepted come from different    *)
(* frames with both buttons down and keyboard and mouse selected, and      *)
(* between two of them the left button was seen up, whichever thread       *)
(* preempts which and whatever is lost.                                    *)
THEOREM OneShotForAPress == Spec => []ShotIsEarned
  <1>1. Init => ShotInv
    <2> SUFFICES ASSUME Init
                 PROVE  PressInv(0) /\ ClickInv(0)
      BY DEF ShotInv
    <2>1. PressInv(0)
      BY DEF Init, PressInv, NewGesture, NoStamp, Taken
    <2>2. ClickInv(0)
      BY DEF Init, ClickInv, NewGesture, Disabled, NoIntent
    <2> QED
      BY <2>1, <2>2
  <1>2. BaseInv /\ ShotInv /\ [Next]_vars => ShotInv'
    BY BaseStep, ShotStep
  <1>3. BaseInv /\ ShotInv => ShotIsEarned
    <2> SUFFICES ASSUME BaseInv, NEW k \in Nat, ClickInv(k)
                 PROVE  ShotIsEarned
      BY DEF ShotInv
    <2>1. /\ \A i \in 1 .. Len(shots) : Clicked(shots[i])
          /\ \A i, j \in 1 .. Len(shots) : i + 1 = j => Between(shots[i], shots[j])
      BY DEF ClickInv
    <2>2. \A i \in 1 .. Len(shots) :
             LET f == Frame(shots[i]) IN f.left /\ f.right /\ f.switch = "Up"
      BY <2>1 DEF Clicked
    <2>3. ASSUME NEW i \in 2 .. Len(shots)
          PROVE  \E n \in shots[i - 1] + 1 .. shots[i] - 1 : ~Frame(n).left
      <3>1. PICK j \in 1 .. Len(shots) : j + 1 = i
        BY ShotsFacts
      <3>2. i \in 1 .. Len(shots) /\ i - 1 = j
        BY <3>1, ShotsFacts
      <3>3. Between(shots[j], shots[i])
        BY <2>1, <3>1, <3>2
      <3> QED
        BY <3>2, <3>3 DEF Between
    <2> QED
      BY <2>2, <2>3 DEF ShotIsEarned
  <1> QED
    BY Base, <1>1, <1>2, <1>3, PTL DEF Spec
=============================================================================
