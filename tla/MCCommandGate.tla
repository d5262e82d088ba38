---------------------------- MODULE MCCommandGate ----------------------------
(***************************************************************************)
(* The checked instances of CommandGate.                                   *)
(***************************************************************************)
EXTENDS CommandGate

Sent(switch, right, left) == [switch |-> switch, right |-> right, left |-> left]

(* The left button pressed and released, with the right one held.          *)
LeftButtonOnly == {Sent("Up", TRUE, TRUE), Sent("Up", TRUE, FALSE)}

(* The switch put into the safe position and back as well.                 *)
ButtonAndSwitch == LeftButtonOnly \cup {Sent("Down", FALSE, FALSE)}

(* One session in which the button is used as long as it takes to click    *)
(* twice, or to hold it.                                                   *)
Clicking ==
    [inputs |-> LeftButtonOnly, permissions |-> {TRUE}, capacity |-> 2, lossy |-> FALSE,
     frames |-> 4, clock |-> 2, revision |-> 1]

(* Two sessions, the safe position and lost bytes.                         *)
Reopening ==
    [inputs |-> ButtonAndSwitch, permissions |-> {TRUE}, capacity |-> 1, lossy |-> TRUE,
     frames |-> 2, clock |-> 2, revision |-> 2]

(* A referee that takes its permission away, and frames that grow old.     *)
Refereed == [Reopening EXCEPT !.permissions = BOOLEAN, !.revision = 1, !.clock = 3]

(* Frames that arrive in time, and bytes that get lost.                    *)
Punctual == [Clicking EXCEPT !.frames = 2]
Lossy    == [Clicking EXCEPT !.frames = 3, !.capacity = 1, !.lossy = TRUE]

AllProfiles   == {Clicking, Reopening, Refereed}
PunctualOnly  == {Punctual}
LossyOnly     == {Lossy}
=============================================================================
