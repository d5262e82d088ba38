----------------------------- MODULE ManualMapper -----------------------------
(***************************************************************************)
(* What the operator wants, read from the remote: ManualCommandMapper of   *)
(* lib/robotics/command.cpp.                                               *)
(***************************************************************************)
EXTENDS Integers

CONSTANT Profiles \* the input profiles of the mapper

Switches == {"Up", "Middle", "Down", "Unknown"}

(* What is read of the remote when it is online and fresh: its switches,   *)
(* how far the stick or the mouse is out (2 takes over, 0 lets go), and    *)
(* what the gesture of the mouse asks of the shooter.                      *)
Remotes == {r \in [left : Switches, right : Switches, stick : 0 .. 2, friction : BOOLEAN, fire : BOOLEAN] :
                r.fire => r.friction}

-----------------------------------------------------------------------------
(* ManualCommandMapper::map(); how far the stick is out matters in Auto.   *)

Mode(p, r) ==
    IF "Unknown" \in {r.left, r.right} THEN "Refused"
    ELSE IF p = "ShooterSelectable" THEN IF r.left = "Down" THEN "Safe" ELSE "Manual"
    ELSE CASE r.left = "Middle" -> "Manual" [] r.left = "Up" -> "Auto" [] OTHER -> "Safe"

Source(p, r) ==
    LET keyboard == IF p = "ShooterSelectable" THEN r.left = "Up"
                    ELSE p # "PhysicalRemote" /\ r.right = "Up"
    IN  IF keyboard THEN "KeyboardMouse" ELSE "Remote"

Mapped(p, r) ==
    LET by_switch == p \in {"PhysicalRemote", "ShooterSelectable"}
        remote    == Source(p, r) = "Remote"
    IN  [mode |-> Mode(p, r), source |-> Source(p, r), stick |-> IF Mode(p, r) = "Auto" THEN r.stick ELSE 0,
         friction_requested |-> IF remote THEN by_switch /\ r.right # "Down" ELSE r.friction,
         fire_requested     |-> IF remote THEN by_switch /\ r.right = "Up" ELSE r.fire]

(* An input that cannot be read disables like the safe position does, and  *)
(* one that is not there has none.                                         *)
NoIntent == [mode |-> "Safe", source |-> "None", stick |-> 0, friction_requested |-> FALSE, fire_requested |-> FALSE]
Intents  ==
    [p \in Profiles |->
        {NoIntent} \cup {IF Mode(p, r) \in {"Safe", "Refused"} THEN [NoIntent EXCEPT !.mode = Mode(p, r)]
                         ELSE Mapped(p, r) : r \in Remotes}]
=============================================================================
