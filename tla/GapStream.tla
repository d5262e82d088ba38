------------------------------ MODULE GapStream ------------------------------
(***************************************************************************)
(* What the reader of a byte stream may rely on: pieces come in the order  *)
(* of the wire, and a piece does not follow the one handed out before it   *)
(* only when -EOVERFLOW has told the reader to drop what it has half read. *)
(***************************************************************************)
EXTENDS Naturals

VARIABLES
    got, \* the place on the wire of the last piece handed out
    told \* -EOVERFLOW has been returned since, or nothing has been read

Deliver ==
    /\ got' \in Nat /\ got' > got
    /\ told \/ got' = got + 1
    /\ told' = FALSE

Announce == got' = got /\ told' = TRUE

Init == got = 0 /\ told = TRUE

Next == Deliver \/ Announce

Spec == Init /\ [][Next]_<<got, told>>
=============================================================================
