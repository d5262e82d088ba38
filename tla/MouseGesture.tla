----------------------------- MODULE MouseGesture -----------------------------
(***************************************************************************)
(* MouseShooterGesture (lib/robotics/mouse_shooter_gesture.cpp): turns the *)
(* frames of the remote into clicks, rapid fire and held fire.  An object  *)
(* is a record with the fields of the class; an operator per method takes  *)
(* the record to the record after the call.                                *)
(***************************************************************************)
EXTENDS Naturals

CONSTANTS
    InputTimeout, \* input_timeout_ms
    RapidGap,     \* rapid_click_gap_ms
    HoldToAuto    \* hold_to_auto_ms

ASSUME TimesAssumption ==
    /\ InputTimeout \in Nat \ {0}
    /\ RapidGap \in Nat \ {0}
    /\ HoldToAuto \in Nat \ {0}

(* A frame is identified by its stamp.  Numbers start at 1, so 0 says that *)
(* a stamp is not valid.                                                   *)
Stamp == [seq : Nat, at : Nat]
NoStamp == [seq |-> 0, at |-> 0]

Switches == {"Down", "Middle", "Up"}
RemoteState == [stamp : Stamp, switch : Switches, right : BOOLEAN, left : BOOLEAN]

FeedKinds == {"Idle", "ClickSingle", "RapidContinuous", "HeldContinuous"}

(* What the gesture asks for; event is the click's number, 0 for none.     *)
Intent == [friction : BOOLEAN, kind : FeedKinds, event : Nat, click : Stamp]
NoIntent == [friction |-> FALSE, kind |-> "Idle", event |-> 0, click |-> NoStamp]

Gesture == [last_frame : Stamp, click_stamp : Stamp, press_ms : Nat, last_click_ms : Nat,
            event_sequence : Nat, pending_event : Nat, kind : FeedKinds,
            selected : BOOLEAN, right : BOOLEAN, left : BOOLEAN,
            require_release : BOOLEAN, have_click : BOOLEAN, have_press : BOOLEAN]

NewGesture ==
    [last_frame |-> NoStamp, click_stamp |-> NoStamp, press_ms |-> 0, last_click_ms |-> 0,
     event_sequence |-> 0, pending_event |-> 0, kind |-> "Idle",
     selected |-> FALSE, right |-> FALSE, left |-> FALSE,
     require_release |-> TRUE, have_click |-> FALSE, have_press |-> FALSE]

(* isFresh(): a stamp of the future is not fresh either.                   *)
IsFresh(stamp, now) ==
    stamp.seq # 0 /\ stamp.at <= now /\ now - stamp.at <= InputTimeout

-----------------------------------------------------------------------------
ClearFeed(g) ==
    [g EXCEPT !.pending_event = 0, !.click_stamp = NoStamp, !.kind = "Idle",
              !.have_click = FALSE, !.have_press = FALSE, !.press_ms = 0, !.last_click_ms = 0]

(* withdraw(): the number of the last click and the last frame stay.       *)
Withdraw(g) ==
    [ClearFeed(g) EXCEPT !.selected = FALSE, !.right = FALSE, !.left = FALSE,
                         !.require_release = TRUE]

(* output(): rapid fire and a click that was not published end with time.  *)
RapidIsOver(g, now) ==
    /\ g.kind = "RapidContinuous"
    /\ ~g.have_click \/ now < g.last_click_ms \/ now - g.last_click_ms >= RapidGap

ExpireClick(g, now) ==
    IF g.pending_event # 0 /\ ~IsFresh(g.click_stamp, now)
    THEN [g EXCEPT !.pending_event = 0, !.click_stamp = NoStamp,
                   !.kind = IF @ = "ClickSingle" THEN "Idle" ELSE @]
    ELSE g

Aged(g, now) == ExpireClick(IF RapidIsOver(g, now) THEN ClearFeed(g) ELSE g, now)

Output(g) ==
    IF g.selected /\ g.right
    THEN [friction |-> TRUE, kind |-> g.kind, event |-> g.pending_event, click |-> g.click_stamp]
    ELSE NoIntent

-----------------------------------------------------------------------------
(* Mutant of Press: a button that stays down is pressed in every frame.    *)
PressAgain(g, f) ==
    IF ~f.left THEN g
    ELSE [g EXCEPT !.press_ms = f.stamp.at, !.last_click_ms = f.stamp.at,
                   !.have_click = TRUE, !.have_press = TRUE,
                   !.event_sequence = @ + 1, !.pending_event = g.event_sequence + 1,
                   !.click_stamp = f.stamp, !.kind = "ClickSingle"]

(* The left button, with the right one held and a release seen.            *)
Press(g, f) ==
    LET rapid == /\ g.have_click /\ f.stamp.at >= g.last_click_ms
                 /\ f.stamp.at - g.last_click_ms < RapidGap
        h == [g EXCEPT !.press_ms = f.stamp.at, !.last_click_ms = f.stamp.at,
                       !.have_click = TRUE, !.have_press = TRUE]
    IN  IF ~f.left \/ g.left THEN g
        ELSE IF rapid
        THEN [h EXCEPT !.pending_event = 0, !.click_stamp = NoStamp, !.kind = "RapidContinuous"]
        ELSE [h EXCEPT !.event_sequence = @ + 1, !.pending_event = g.event_sequence + 1,
                       !.click_stamp = f.stamp, !.kind = "ClickSingle"]

Hold(g, f) ==
    IF /\ f.left /\ g.have_press /\ f.stamp.at >= g.press_ms
       /\ f.stamp.at - g.press_ms >= HoldToAuto
    THEN [g EXCEPT !.kind = "HeldContinuous", !.pending_event = 0, !.click_stamp = NoStamp]
    ELSE g

Release(g, f) ==
    IF f.left \/ ~g.left THEN g
    ELSE IF g.kind = "HeldContinuous" THEN ClearFeed(g)
    ELSE [g EXCEPT !.have_press = FALSE]

LeftButton(g, f) == [Release(Hold(Press(g, f), f), f) EXCEPT !.left = f.left]

(* A new frame while the gesture is selected and allowed.                  *)
Buttons(g, f) ==
    LET entering == ~g.selected \/ ~g.right
        h == IF entering THEN [ClearFeed(g) EXCEPT !.require_release = TRUE] ELSE g
        r == [h EXCEPT !.selected = TRUE, !.right = TRUE]
    IN  IF ~f.right
        THEN [ClearFeed(g) EXCEPT !.selected = TRUE, !.right = FALSE, !.left = f.left,
                                  !.require_release = TRUE]
        ELSE IF r.require_release
        THEN [r EXCEPT !.left = f.left, !.require_release = f.left]
        ELSE LeftButton(r, f)

Duplicate(g, f) == g.last_frame.seq # 0 /\ f.stamp = g.last_frame

Regressed(g, f) ==
    /\ g.last_frame.seq # 0 /\ ~Duplicate(g, f)
    /\ f.stamp.seq <= g.last_frame.seq \/ f.stamp.at < g.last_frame.at

(* update(): the gesture, the intent and whether the call succeeded.       *)
Update(g, f, selected, allowed, now) ==
    LET seen == [g EXCEPT !.last_frame = f.stamp]
        next == Aged(IF Duplicate(g, f) THEN g ELSE Buttons(seen, f), now)
    IN  CASE ~IsFresh(f.stamp, now) -> [gesture |-> Withdraw(g), intent |-> NoIntent, ok |-> FALSE]
          [] IsFresh(f.stamp, now) /\ Regressed(g, f) ->
                [gesture |-> Withdraw(seen), intent |-> NoIntent, ok |-> FALSE]
          [] IsFresh(f.stamp, now) /\ ~Regressed(g, f) /\ ~(selected /\ allowed) ->
                [gesture |-> Withdraw(seen), intent |-> NoIntent, ok |-> TRUE]
          [] OTHER -> [gesture |-> next, intent |-> Output(next), ok |-> TRUE]
=============================================================================
