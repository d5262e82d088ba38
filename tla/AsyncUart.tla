------------------------------ MODULE AsyncUart ------------------------------
(***************************************************************************)
(* AsyncUart (lib/communication/async_uart.cpp): one communication thread  *)
(* that calls service(), read() and send(), the UART callback event() in   *)
(* interrupt context, and, outside the program, the driver of the UART and *)
(* the wire.  The unit of data is what fits into one RxChunk.              *)
(*                                                                         *)
(* The thread's calls are cut where the interrupt can tell the difference; *)
(* pc says inside which call the thread is.  A callback is one action.     *)
(***************************************************************************)
EXTENDS Naturals, Sequences

CONSTANTS
    QueueDepth,   \* chunks in queue_
    BufferSize,   \* chunks in one RX buffer
    MaxPieces,    \* bound: the wire is silent after this many pieces
    MaxGeneration \* bound: no new disturbance at this generation_

ASSUME SizesAssumption ==
    /\ QueueDepth \in Nat \ {0}
    /\ BufferSize \in Nat \ {0}
    /\ MaxPieces \in Nat
    /\ MaxGeneration \in Nat

VARIABLES
    in_use,      \* in_use_: the RX buffers whose bit is set
    rx_disabled, \* rx_disabled_
    tx_busy,     \* tx_busy_
    generation,  \* generation_
    observed,    \* observed_generation_
    queue,       \* queue_: chunks by their place on the wire
    pc,          \* the communication thread
    taken,       \* next in read(): the chunk it has just taken
    got, told,   \* what read() has handed out and announced
    rx,          \* the driver's receiver
    tx,          \* the driver's transmitter, which owns dma_.tx unless "Idle"
    sent         \* pieces the wire has carried

ourVars    == <<in_use, rx_disabled, tx_busy, generation, queue>>
readVars   == <<observed, taken, got, told>>
driverVars == <<rx, tx, sent>>
vars       == <<ourVars, readVars, pc, driverVars>>

Buffers == {0, 1}
NoBuffer == 2
Slots == Buffers \cup {NoBuffer}

Chunk == [at : Nat, generation : Nat]

(* held: what the driver has received and not yet reported; filled: how    *)
(* much of the current buffer is used.                                     *)
Receiver == [state : {"Off", "On", "Stopping"}, current : Slots, next : Slots,
             held : Seq(Nat), filled : 0 .. BufferSize]

ReceiverOff == [state |-> "Off", current |-> NoBuffer, next |-> NoBuffer,
                held |-> <<>>, filled |-> 0]

(* After init(), whose startRx() may have failed.                          *)
Init ==
    /\ tx_busy = FALSE /\ generation = 0 /\ observed = 0 /\ queue = <<>>
    /\ pc = "Idle" /\ taken = 0
    /\ got = 0 /\ told = TRUE
    /\ tx = "Idle" /\ sent = 0
    /\ \/ in_use = {} /\ rx_disabled = TRUE /\ rx = ReceiverOff
       \/ /\ in_use = {0} /\ rx_disabled = FALSE
          /\ rx = [ReceiverOff EXCEPT !.state = "On", !.current = 0]

-----------------------------------------------------------------------------
(* The communication thread.                                               *)

(* service(): uart_tx_abort() when the deadline has passed (late), then    *)
(* startRx() when reception has ended and retry_ms_ has come (due).        *)
Service(late, due) ==
    /\ pc = "Idle"
    /\ late \/ (rx_disabled /\ due)
    /\ tx' = IF late /\ tx_busy /\ tx = "Sending" THEN "Aborting" ELSE tx
    /\ IF rx_disabled /\ due
       THEN in_use' = {0} /\ rx_disabled' = FALSE /\ pc' = "Enable"
       ELSE UNCHANGED <<in_use, rx_disabled, pc>>
    /\ UNCHANGED <<tx_busy, generation, queue, readVars, rx, sent>>

(* startRx() from uart_rx_enable() on.                                     *)
EnableRx(ok) ==
    /\ pc = "Enable"
    /\ pc' = "Idle"
    /\ IF ok /\ rx.state = "Off"
       THEN /\ rx' = [ReceiverOff EXCEPT !.state = "On", !.current = 0]
            /\ UNCHANGED <<in_use, rx_disabled>>
       ELSE in_use' = {} /\ rx_disabled' = TRUE /\ UNCHANGED rx
    /\ UNCHANGED <<tx_busy, generation, queue, readVars, tx, sent>>

(* read() up to the loop.                                                  *)
ReadBegins ==
    /\ pc = "Idle"
    /\ IF observed # generation
       THEN observed' = generation /\ told' = TRUE /\ UNCHANGED pc
       ELSE pc' = "Read" /\ UNCHANGED <<observed, told>>
    /\ UNCHANGED <<ourVars, taken, got, driverVars>>

(* k_msgq_get(); chunks of an older or newer generation are skipped.       *)
TakeChunk ==
    /\ pc = "Read"
    /\ IF queue = <<>>
       THEN pc' = "Idle" /\ UNCHANGED <<queue, taken>>
       ELSE /\ queue' = Tail(queue)
            /\ IF Head(queue).generation = observed
               THEN taken' = Head(queue).at /\ pc' = "Check"
               ELSE UNCHANGED <<taken, pc>>
    /\ UNCHANGED <<in_use, rx_disabled, tx_busy, generation, observed, got, told, driverVars>>

(* generation_ is read once more before the chunk is handed out.           *)
HandOut ==
    /\ pc = "Check"
    /\ pc' = "Idle"
    /\ IF generation # observed
       THEN told' = TRUE /\ UNCHANGED got
       ELSE got' = taken /\ told' = FALSE
    /\ UNCHANGED <<ourVars, observed, taken, driverVars>>

(* send() up to the copy into dma_.tx.                                     *)
ClaimTx ==
    /\ pc = "Idle" /\ ~tx_busy
    /\ tx_busy' = TRUE
    /\ pc' = "Copy"
    /\ UNCHANGED <<in_use, rx_disabled, generation, queue, readVars, driverVars>>

(* Mutant of StartTx: the port stays claimed when uart_tx() refuses.       *)
StartTxKeepsClaim(ok) ==
    /\ pc = "Copy"
    /\ pc' = "Idle"
    /\ tx' = IF ok THEN "Sending" ELSE tx
    /\ UNCHANGED <<tx_busy, in_use, rx_disabled, generation, queue, readVars, rx, sent>>

(* send() from the copy on: uart_tx() may refuse.                          *)
StartTx(ok) ==
    /\ pc = "Copy"
    /\ pc' = "Idle"
    /\ IF ok THEN tx' = "Sending" /\ UNCHANGED tx_busy
             ELSE tx_busy' = FALSE /\ UNCHANGED tx
    /\ UNCHANGED <<in_use, rx_disabled, generation, queue, readVars, rx, sent>>

-----------------------------------------------------------------------------
(* event(), case by case, with what the driver does when it calls it.      *)

(* Mutant of Accepted: the queue is given one chunk more than its storage. *)
AcceptedOneMore(n) == IF n <= QueueDepth + 1 - Len(queue) THEN n ELSE QueueDepth + 1 - Len(queue)

(* How many of n chunks k_msgq_put() accepts.                              *)
Accepted(n) == IF n <= QueueDepth - Len(queue) THEN n ELSE QueueDepth - Len(queue)

(* UART_RX_RDY: every chunk that the queue refuses begins a generation.    *)
RxReady ==
    /\ rx.held # <<>>
    /\ LET n == Len(rx.held)
           k == Accepted(n)
       IN  /\ queue' = queue \o [i \in 1 .. k |->
                           [at |-> rx.held[i], generation |-> generation]]
           /\ generation' = generation + (n - k)
    /\ rx' = [rx EXCEPT !.held = <<>>]
    /\ UNCHANGED <<in_use, rx_disabled, tx_busy, readVars, pc, tx, sent>>

(* UART_RX_BUF_REQUEST: the first free buffer is offered.  A refusal, and a *)
(* request while both are in use, change nothing.                          *)
BufRequest ==
    /\ rx.state = "On" /\ rx.next = NoBuffer
    /\ \E b \in Buffers \ in_use :
          /\ \A c \in Buffers \ in_use : b <= c
          /\ in_use' = in_use \cup {b}
          /\ rx' = [rx EXCEPT !.next = b]
    /\ UNCHANGED <<rx_disabled, tx_busy, generation, queue, readVars, pc, tx, sent>>

(* Mutant of BufReleased: the bits of both buffers are cleared.            *)
BufReleasedBoth ==
    /\ rx.held = <<>> /\ rx.current # NoBuffer
    /\ rx.filled = BufferSize \/ rx.state = "Stopping"
    /\ in_use' = {}
    /\ rx' = [rx EXCEPT !.current = rx.next, !.next = NoBuffer, !.filled = 0,
                        !.state = IF rx.next = NoBuffer THEN "Stopping" ELSE @]
    /\ UNCHANGED <<rx_disabled, tx_busy, generation, queue, readVars, pc, tx, sent>>

(* UART_RX_BUF_RELEASED: the buffer is full or reception is ending; without*)
(* another buffer it ends now.                                             *)
BufReleased ==
    /\ rx.held = <<>> /\ rx.current # NoBuffer
    /\ rx.filled = BufferSize \/ rx.state = "Stopping"
    /\ in_use' = in_use \ {rx.current}
    /\ rx' = [rx EXCEPT !.current = rx.next, !.next = NoBuffer, !.filled = 0,
                        !.state = IF rx.next = NoBuffer THEN "Stopping" ELSE @]
    /\ UNCHANGED <<rx_disabled, tx_busy, generation, queue, readVars, pc, tx, sent>>

(* UART_RX_STOPPED: an error on the line; what is held is still reported.  *)
RxStopped ==
    /\ rx.state = "On" /\ generation < MaxGeneration
    /\ generation' = generation + 1
    /\ rx' = [rx EXCEPT !.state = "Stopping"]
    /\ UNCHANGED <<in_use, rx_disabled, tx_busy, queue, readVars, pc, tx, sent>>

(* Mutant of RxDisabled: the bytes that will be missed are not announced.  *)
RxDisabledSilently ==
    /\ rx.state = "Stopping" /\ rx.current = NoBuffer
    /\ rx_disabled' = TRUE
    /\ rx' = ReceiverOff
    /\ UNCHANGED <<generation, in_use, tx_busy, queue, readVars, pc, tx, sent>>

(* UART_RX_DISABLED                                                        *)
RxDisabled ==
    /\ rx.state = "Stopping" /\ rx.current = NoBuffer
    /\ generation' = generation + 1
    /\ rx_disabled' = TRUE
    /\ rx' = ReceiverOff
    /\ UNCHANGED <<in_use, tx_busy, queue, readVars, pc, tx, sent>>

(* UART_TX_DONE and UART_TX_ABORTED; the driver also aborts by itself after*)
(* the timeout it was given.                                               *)
TxEnds ==
    /\ tx # "Idle"
    /\ tx' = "Idle"
    /\ tx_busy' = FALSE
    /\ UNCHANGED <<in_use, rx_disabled, generation, queue, readVars, pc, rx, sent>>

-----------------------------------------------------------------------------
(* The wire.                                                               *)

(* A piece arrives, or is missed because the receiver is not on.           *)
PieceArrives ==
    /\ sent < MaxPieces
    /\ sent' = sent + 1
    /\ IF rx.state = "On"
       THEN /\ rx.filled < BufferSize
            /\ rx' = [rx EXCEPT !.held = Append(@, sent'), !.filled = @ + 1]
       ELSE UNCHANGED rx
    /\ UNCHANGED <<ourVars, readVars, pc, tx>>

Thread ==
    \/ \E late, due \in BOOLEAN : Service(late, due)
    \/ \E ok \in BOOLEAN : EnableRx(ok)
    \/ ReadBegins \/ TakeChunk \/ HandOut
    \/ ClaimTx \/ \E ok \in BOOLEAN : StartTx(ok)

Event == RxReady \/ BufRequest \/ BufReleased \/ RxStopped \/ RxDisabled \/ TxEnds

Next == Thread \/ Event \/ PieceArrives

Spec == Init /\ [][Next]_vars

(* The thread calls service() again and again; uart_rx_enable() does not   *)
(* fail for ever; the driver reports what it must and obeys an abort.      *)
Fairness ==
    /\ SF_vars(rx_disabled /\ Service(FALSE, TRUE))
    /\ SF_vars(tx = "Sending" /\ Service(TRUE, FALSE))
    /\ WF_vars(\E ok \in BOOLEAN : EnableRx(ok))
    /\ SF_vars(EnableRx(TRUE))
    /\ WF_vars(TakeChunk) /\ WF_vars(HandOut)
    /\ WF_vars(\E ok \in BOOLEAN : StartTx(ok))
    /\ WF_vars(RxReady) /\ WF_vars(BufReleased) /\ WF_vars(RxDisabled)
    /\ WF_vars(tx = "Aborting" /\ TxEnds)

FairSpec == Spec /\ Fairness

-----------------------------------------------------------------------------
(* Properties.                                                             *)

(* Every variable holds what its member can hold; the queue never holds    *)
(* more than its depth.                                                    *)
TypeOK ==
    /\ in_use \subseteq Buffers
    /\ rx_disabled \in BOOLEAN /\ tx_busy \in BOOLEAN /\ told \in BOOLEAN
    /\ generation \in Nat /\ observed \in Nat /\ taken \in Nat /\ got \in Nat /\ sent \in Nat
    /\ queue \in Seq(Chunk) /\ Len(queue) <= QueueDepth
    /\ pc \in {"Idle", "Enable", "Read", "Check", "Copy"}
    /\ rx \in Receiver
    /\ tx \in {"Idle", "Sending", "Aborting"}

(* DMA memory has one owner: the buffers the driver writes to are marked   *)
(* in use and are two different ones, and while the driver reads dma_.tx   *)
(* the port is busy and no call is copying into it.  An early release, a   *)
(* restart or a timed-out transmission would break it.                     *)
DmaHasOneOwner ==
    /\ {rx.current, rx.next} \ {NoBuffer} \subseteq in_use
    /\ rx.current = rx.next => rx.current = NoBuffer
    /\ tx # "Idle" => tx_busy /\ pc # "Copy"

(* What is handed out continues what was handed out before unless a gap    *)
(* has been announced: chunks dropped by a full queue, bytes lost in an    *)
(* error and bytes missed while reception was off, in any order with the   *)
(* thread between the statements of read().                                *)
Stream == INSTANCE GapStream
NoSilentGap == Stream!Spec

(* Reception that has ended begins again.                                  *)
ReceptionResumes == rx_disabled ~> rx.state = "On"

(* A transmission does not stay busy: the abort after the deadline always  *)
(* reaches a transmission that the driver still has.                       *)
TransmissionEnds == tx_busy ~> ~tx_busy

(* Reception and transmission go on, each whatever becomes of the other.   *)
WorkGoesOn == ReceptionResumes /\ TransmissionEnds
=============================================================================
