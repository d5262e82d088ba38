---------------------------- MODULE MCInterboard ----------------------------
(* The boards with one stream at a time.  A clear event needs the longer   *)
(* timeout to outlive the round trip of a heartbeat.                       *)
EXTENDS Interboard

OneStream ==
    {[streams |-> {"clear"}, timeout |-> 3, delay |-> 0]} \cup
    {[streams |-> {"chassis"}, timeout |-> 1, delay |-> 1],
     [streams |-> {"big_yaw"}, timeout |-> 1, delay |-> 0]}
=============================================================================
