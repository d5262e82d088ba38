----------------------------- MODULE BatchStream -----------------------------
(***************************************************************************)
(* What the reader of a packet transport may rely on                       *)
(* (interboard_transport.hpp): a batch is handed out in pieces from its    *)
(* first, one batch after the other; it breaks off only where -EOVERFLOW   *)
(* tells the reader to drop what it has half read.  A batch that is lost   *)
(* as a whole is not announced: it holds whole protocol frames.            *)
(***************************************************************************)
EXTENDS Naturals

CONSTANT Pieces \* pieces of a batch

VARIABLES
    batch, \* the batch of the last piece handed out
    piece, \* the place of that piece in its batch
    told   \* -EOVERFLOW has been returned since

Begin ==
    /\ told \/ piece = Pieces
    /\ batch' \in Nat /\ batch' > batch
    /\ piece' = 1 /\ told' = FALSE

Continue ==
    /\ ~told /\ piece < Pieces
    /\ piece' = piece + 1 /\ UNCHANGED <<batch, told>>

Announce == told' = TRUE /\ UNCHANGED <<batch, piece>>

Init == batch = 0 /\ piece = Pieces /\ told = FALSE

Next == Begin \/ Continue \/ Announce

Spec == Init /\ [][Next]_<<batch, piece, told>>
=============================================================================
