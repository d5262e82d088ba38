---------------------------- MODULE CanTransport ----------------------------
(***************************************************************************)
(* CanInterBoardTransport with its TransportRxQueue                        *)
(* (lib/communication/can_interboard_transport.cpp,                        *)
(* transport_rx_queue.hpp): one communication thread that calls service(), *)
(* read() and send(), the callbacks onRx() and onTx() in interrupt         *)
(* context and, outside, the controller and the peer that sends fragments. *)
(*                                                                         *)
(* initialize() is Init.  A batch may outlive its lifetime and its         *)
(* reassembly timeout at any moment, and a retry may be due, so no clock   *)
(* is kept.  A batch is its number, which its token repeats: two batches   *)
(* with one token, 256 apart, are told apart by the CRC of the packet.     *)
(***************************************************************************)
EXTENDS Naturals, Sequences

CONSTANTS
    RawDepth,  \* kRawDepth
    Fragments, \* CAN frames of a batch
    Pieces,    \* what read() makes of a batch
    MaxBatch,  \* bound: batches sent by either side
    MaxFaults  \* bound: failures of the controller, lifetimes missed, foreign frames

VARIABLES
    raw,      \* raw_ and raw_gap_
    partial,  \* rx_packet_: the last fragment of the batch being assembled
    ready,    \* rx_: the completed batches, the offset in the first, the gap
    given,    \* what read() has handed out last, and announced
    mode,     \* recovering_, stopped_ and accept_rx_
    tx,       \* the last batch of send(): unsent fragments, in_flight_
    tx_done,  \* tx_done_ and tx_error_
    pc,       \* where service() is
    hw,       \* the controller: its state and the fragment it holds
    peer,     \* the fragment the peer has sent last
    handed,   \* the fragment handed to the controller last
    faults

rxVars == <<raw, partial, ready, given>>
txVars == <<tx, tx_done, handed>>
vars   == <<rxVars, txVars, mode, pc, hw, peer, faults>>

Queued == 2 \* the size of batches_
None == [batch |-> 0, place |-> Fragments]

Init ==
    /\ raw = [queue |-> <<>>, gap |-> FALSE] /\ partial = None
    /\ ready = [queue |-> <<>>, offset |-> 0, gap |-> FALSE]
    /\ given = [batch |-> 0, piece |-> Pieces, told |-> FALSE]
    /\ mode = "Running" /\ pc = "Out"
    /\ tx = [batch |-> 0, left |-> 0, in_flight |-> FALSE] /\ tx_done = "No"
    /\ hw = [up |-> TRUE, frame |-> None]
    /\ peer = None /\ handed = None /\ faults = 0

Fault == faults < MaxFaults /\ faults' = faults + 1

-----------------------------------------------------------------------------
(* Mutant of Gapped: the place in the first batch is kept.                 *)
GappedInPlace(q) == [q EXCEPT !.queue = <<>>, !.gap = TRUE]

(* TransportRxQueue: gap(), push() and read().                             *)
Gapped(q) == [queue |-> <<>>, offset |-> 0, gap |-> TRUE]

Push(q, b) ==
    [IF Len(q.queue) = Queued THEN Gapped(q) ELSE q EXCEPT !.queue = Append(@, b)]

Read ==
    /\ pc = "Out"
    /\ \/ /\ ready.gap
          /\ ready' = [ready EXCEPT !.gap = FALSE] /\ given' = [given EXCEPT !.told = TRUE]
       \/ /\ ~ready.gap /\ ready.queue # <<>>
          /\ ready' = IF ready.offset + 1 = Pieces
                      THEN [ready EXCEPT !.queue = Tail(@), !.offset = 0]
                      ELSE [ready EXCEPT !.offset = @ + 1]
          /\ given' = [batch |-> Head(ready.queue), piece |-> ready.offset + 1, told |-> FALSE]
    /\ UNCHANGED <<raw, partial, txVars, mode, pc, hw, peer, faults>>

-----------------------------------------------------------------------------
(* onRx(): a full ring is dropped as a whole.                              *)
Received(f) ==
    IF mode # "Running" THEN raw
    ELSE IF Len(raw.queue) = RawDepth THEN [queue |-> <<f>>, gap |-> TRUE]
    ELSE [raw EXCEPT !.queue = Append(@, f)]

(* The next fragment of the peer's batch, or the first of its next batch.  *)
Following(f) ==
    {g \in [batch : {f.batch, f.batch + 1}, place : 1 .. Fragments] :
        IF g.batch = f.batch THEN g.place = f.place + 1 ELSE g.place = 1}

OnRx ==
    \E f \in Following(peer), heard \in {hw.up, FALSE} :
        /\ f.batch <= MaxBatch /\ peer' = f
        /\ raw' = IF heard THEN Received(f) ELSE raw
        /\ UNCHANGED <<partial, ready, given, txVars, mode, pc, hw, faults>>

(* A frame with our identifier that is no fragment of the peer.            *)
OnForeign ==
    /\ hw.up /\ Fault /\ raw' = Received(None)
    /\ UNCHANGED <<partial, ready, given, txVars, mode, pc, hw, peer>>

(* onTx(): the controller is done with the frame it holds.                 *)
OnTx ==
    /\ hw.frame # None /\ hw' = [hw EXCEPT !.frame = None]
    /\ \/ hw.up /\ tx_done' = "Sent" /\ UNCHANGED faults
       \/ hw.up /\ Fault /\ tx_done' = "Failed"
       \/ ~hw.up /\ tx_done' = "Failed" /\ UNCHANGED faults
    /\ UNCHANGED <<rxVars, tx, handed, mode, pc, peer>>

BusOff ==
    /\ hw.up /\ Fault /\ hw' = [hw EXCEPT !.up = FALSE]
    /\ UNCHANGED <<rxVars, txVars, mode, pc, peer>>

-----------------------------------------------------------------------------
ResetRx ==
    /\ raw' = [queue |-> <<>>, gap |-> FALSE] /\ partial' = None /\ ready' = Gapped(ready)

KeepRx == UNCHANGED <<raw, partial, ready>>

(* fail(): the batch is given up, but a frame the controller holds keeps   *)
(* in_flight_ set.                                                         *)
Fail(flying) ==
    /\ mode' = "Failed" /\ pc' = "Out"
    /\ tx' = [tx EXCEPT !.left = 0, !.in_flight = flying]
    /\ ResetRx

(* The controller has given the canceled frame back.                      *)
Retired == ~tx.in_flight \/ tx_done # "No"

(* recover(): can_stop(), then can_start() once the canceled frame has     *)
(* come back and the retry is due; either call may fail.                   *)
StopController ==
    /\ mode = "Failed" /\ mode' = "Stopped" /\ hw' = [hw EXCEPT !.up = FALSE]
    /\ UNCHANGED <<rxVars, txVars, pc, peer, faults>>

Restart ==
    /\ mode = "Stopped" /\ Retired
    /\ tx' = [tx EXCEPT !.in_flight = FALSE] /\ tx_done' = "No"
    /\ \/ KeepRx /\ UNCHANGED <<mode, hw>>
       \/ ResetRx /\ mode' = "Running" /\ hw' = [hw EXCEPT !.up = TRUE]
    /\ UNCHANGED <<given, pc, peer, handed, faults>>

-----------------------------------------------------------------------------
(* service(): the completion of the last fragment; then a failed frame,    *)
(* the end of the batch's lifetime or a controller that is down ends it.   *)
Completed == tx.in_flight /\ tx_done # "No"

BeginService ==
    LET done == Completed /\ tx_done = "Sent"
        sent == IF done THEN [tx EXCEPT !.left = @ - 1, !.in_flight = FALSE] ELSE tx
    IN  /\ pc = "Out" /\ mode = "Running"
        /\ tx_done' = IF Completed THEN "No" ELSE tx_done
        /\ \/ Completed /\ ~done /\ Fail(FALSE) /\ UNCHANGED faults
           \/ (done \/ ~Completed) /\ sent.left # 0 /\ Fault /\ Fail(sent.in_flight)
           \/ (done \/ ~Completed) /\ ~hw.up /\ Fail(sent.in_flight) /\ UNCHANGED faults
           \/ /\ (done \/ ~Completed) /\ hw.up
              /\ tx' = sent /\ pc' = "Receive" /\ KeepRx /\ UNCHANGED <<mode, faults>>
        /\ UNCHANGED <<given, hw, peer, handed>>

(* consume(): the assembly p and the queue q after the fragment f; late is *)
(* the reassembly timeout.                                                 *)
Continues(p, f, late) == ~late /\ f.batch = p.batch /\ f.place = p.place + 1

(* Mutant of Consumed: a first fragment replaces what is assembled.        *)
ConsumedAfresh(p, q, f, late) ==
    IF f.place = 1 THEN [partial |-> f, ready |-> q]
    ELSE IF f # None /\ p = None THEN [partial |-> None, ready |-> q]
    ELSE IF f.place = Fragments THEN [partial |-> None, ready |-> Push(q, f.batch)]
    ELSE [partial |-> f, ready |-> q]

Consumed(p, q, f, late) ==
    IF f.place = 1 THEN [partial |-> f, ready |-> IF p = None THEN q ELSE Gapped(q)]
    ELSE IF f # None /\ p = None THEN [partial |-> None, ready |-> q]
    ELSE IF f = None \/ ~Continues(p, f, late) THEN [partial |-> None, ready |-> Gapped(q)]
    ELSE IF f.place < Fragments THEN [partial |-> f, ready |-> q]
    ELSE [partial |-> None, ready |-> Push(q, f.batch)]

(* service(): one event of the ring; a gap comes before it.                *)
Consume(late) ==
    LET p == IF raw.gap THEN None ELSE partial
        q == IF raw.gap THEN Gapped(ready) ELSE ready
        c == Consumed(p, q, Head(raw.queue), late)
    IN  /\ pc = "Receive" /\ raw.queue # <<>>
        /\ raw' = [queue |-> Tail(raw.queue), gap |-> FALSE]
        /\ partial' = c.partial /\ ready' = c.ready
        /\ UNCHANGED <<given, txVars, mode, pc, hw, peer, faults>>

(* service(), after the events its budget allows: the reassembly timeout,  *)
(* and the next fragment goes to can_send(), which may refuse it.          *)
Sending == tx.left # 0 /\ ~tx.in_flight

EndService(late) ==
    /\ pc = "Receive"
    /\ \/ UNCHANGED <<tx, tx_done, handed, mode, hw, faults>> \* nothing to send, or -EAGAIN
       \/ /\ Sending /\ hw.up
          /\ tx' = [tx EXCEPT !.in_flight = TRUE] /\ tx_done' = "No"
          /\ handed' = [batch |-> tx.batch, place |-> Fragments + 1 - tx.left]
          /\ hw' = [hw EXCEPT !.frame = handed']
          /\ UNCHANGED <<mode, faults>>
       \/ Sending /\ ~hw.up /\ Fail(FALSE) /\ UNCHANGED <<tx_done, handed, hw, faults>>
    /\ IF mode' = "Failed" THEN TRUE
       ELSE /\ pc' = "Out" /\ raw' = raw
            /\ partial' = IF late THEN None ELSE partial
            /\ ready' = IF late /\ partial # None THEN Gapped(ready) ELSE ready
    /\ UNCHANGED <<given, peer>>

(* send(): the whole batch or nothing.                                     *)
Send ==
    /\ pc = "Out" /\ mode = "Running" /\ tx.left = 0 /\ ~tx.in_flight
    /\ tx.batch < MaxBatch
    /\ tx' = [tx EXCEPT !.batch = @ + 1, !.left = Fragments]
    /\ UNCHANGED <<rxVars, tx_done, handed, mode, pc, hw, peer, faults>>

Next ==
    \/ Read \/ Send \/ BeginService \/ StopController \/ Restart
    \/ \E late \in BOOLEAN : Consume(late) \/ EndService(late)
    \/ OnRx \/ OnForeign \/ OnTx \/ BusOff

Spec == Init /\ [][Next]_vars

-----------------------------------------------------------------------------
(* The shapes of the buffers and their bounds: the ring and the queue of   *)
(* batches never overflow, the place in a batch is one of a batch held.    *)
TypeOK ==
    /\ Len(raw.queue) <= RawDepth /\ Len(ready.queue) <= Queued
    /\ partial = None \/ partial.place < Fragments
    /\ ready.offset < Pieces /\ (ready.queue = <<>> => ready.offset = 0)
    /\ mode \in {"Running", "Failed", "Stopped"} /\ pc \in {"Out", "Receive"}
    /\ pc = "Receive" => mode = "Running"
    /\ tx_done \in {"No", "Sent", "Failed"} /\ tx.left \in 0 .. Fragments

(* tx_frame_ and the context of its callback are not used for a second     *)
(* frame while the driver may still call back for the first, not even      *)
(* after a timeout, a bus-off or a restart of the controller.              *)
FrameIsRetired == hw.frame # None <=> tx.in_flight /\ tx_done = "No"

(* The controller is handed the fragments of a batch in order, each once;  *)
(* a batch given up in the middle is never taken up again.                 *)
SendsInOrder ==
    hw'.frame \notin {None, hw.frame} =>
        \/ hw'.frame \in Following(handed)
        \/ hw'.frame.place = 1 /\ hw'.frame.batch > handed.batch
=============================================================================
