--------------------------- MODULE AsyncUartProofs ---------------------------
(***************************************************************************)
(* Theorems about AsyncUart, for every depth of the queue, size of the     *)
(* buffers and length of the run: types, the ownership of DMA memory, and  *)
(* that what read() hands out implements GapStream.                        *)
(***************************************************************************)
EXTENDS AsyncUart, SequenceTheorems, TLAPS

(* Who holds a buffer of the receiver, and what pc implies.                *)
OwnerInv ==
    /\ rx_disabled \/ pc = "Enable" => rx.state = "Off"
    /\ rx.state = "Off" => rx = ReceiverOff
    /\ pc = "Enable" => 0 \in in_use /\ ~rx_disabled
    /\ pc = "Copy" => tx_busy
    /\ DmaHasOneOwner

(* Generations never decrease from the reader's to the queue's oldest chunk*)
(* and on to the current one.                                              *)
GenerationInv ==
    /\ observed <= generation
    /\ \A i \in DOMAIN queue : queue[i].generation <= generation
    /\ \A i, j \in DOMAIN queue : i <= j => queue[i].generation <= queue[j].generation

(* The places on the wire increase from got through taken and the queue to *)
(* what the driver holds.                                                  *)
OrderInv ==
    /\ got <= sent
    /\ \A i \in DOMAIN queue : got < queue[i].at /\ queue[i].at <= sent
    /\ \A i \in DOMAIN rx.held : got < rx.held[i] /\ rx.held[i] <= sent
    /\ \A i, j \in DOMAIN queue : i < j => queue[i].at < queue[j].at
    /\ \A i, j \in DOMAIN rx.held : i < j => rx.held[i] < rx.held[j]
    /\ \A i \in DOMAIN queue, j \in DOMAIN rx.held : queue[i].at < rx.held[j]
    /\ pc = "Check" => /\ got < taken /\ taken <= sent
                       /\ \A i \in DOMAIN queue : taken < queue[i].at
                       /\ \A i \in DOMAIN rx.held : taken < rx.held[i]

(* The reader is up to date with the current generation and has not been   *)
(* told of a gap, or is about to hand out a chunk of it.                   *)
Following == observed = generation /\ (~told \/ pc = "Check")

(* e is where the pieces end that continue what the reader has: every chunk*)
(* of the current generation, and all the driver holds, lie before e       *)
(* without a hole.                                                         *)
EndsAt(e) ==
    /\ \A i \in DOMAIN rx.held : rx.held[i] + Len(rx.held) = e + i
    /\ \A i \in DOMAIN queue : queue[i].generation = generation =>
          queue[i].at + Len(rx.held) + Len(queue) = e + i
    /\ Following => \A i \in DOMAIN queue : queue[i].generation = generation
    /\ Following /\ pc = "Check" => taken + Len(rx.held) + Len(queue) = e
    /\ Following /\ ~told =>
          got + (IF pc = "Check" THEN 1 ELSE 0) + Len(rx.held) + Len(queue) = e

(* While the receiver is on, what counts ends with the wire; while it is   *)
(* off nothing counts.                                                     *)
GapInv ==
    /\ \E e \in Nat : EndsAt(e) /\ (rx.state = "On" => e = sent)
    /\ rx.state = "Off" => ~Following /\ \A i \in DOMAIN queue : queue[i].generation # generation

-----------------------------------------------------------------------------
(* What RX_RDY appends to the queue.                                       *)
Appended == [i \in 1 .. Accepted(Len(rx.held)) |->
                [at |-> rx.held[i], generation |-> generation]]

LEMMA AppendedFits ==
    ASSUME TypeOK
    PROVE  /\ Accepted(Len(rx.held)) \in 0 .. Len(rx.held)
           /\ Appended \in Seq(Chunk) /\ Len(Appended) = Accepted(Len(rx.held))
           /\ \A i \in 1 .. Len(Appended) : Appended[i] = [at |-> rx.held[i], generation |-> generation]
           /\ queue \o Appended \in Seq(Chunk)
           /\ Len(queue \o Appended) = Len(queue) + Len(Appended)
           /\ Len(queue) + Len(Appended) <= QueueDepth
           /\ \A i \in 1 .. Len(queue) + Len(Appended) :
                 (queue \o Appended)[i] = IF i <= Len(queue) THEN queue[i]
                                          ELSE Appended[i - Len(queue)]
  <1>1. rx.held \in Seq(Nat) /\ Len(rx.held) \in Nat /\ Len(queue) \in Nat /\ Len(queue) <= QueueDepth
    BY DEF TypeOK, Receiver
  <1>2. Accepted(Len(rx.held)) \in 0 .. Len(rx.held) /\ Len(queue) + Accepted(Len(rx.held)) <= QueueDepth
    BY <1>1, SizesAssumption DEF Accepted
  <1>3. \A i \in 1 .. Accepted(Len(rx.held)) :
            [at |-> rx.held[i], generation |-> generation] \in Chunk
    BY <1>1, <1>2 DEF TypeOK, Chunk
  <1>4. Appended \in Seq(Chunk) /\ Len(Appended) = Accepted(Len(rx.held))
    BY <1>2, <1>3 DEF Appended
  <1>5. queue \in Seq(Chunk)
    BY DEF TypeOK
  <1>6. \A i \in 1 .. Len(Appended) : Appended[i] = [at |-> rx.held[i], generation |-> generation]
    BY <1>2, <1>4 DEF Appended
  <1> HIDE DEF Appended
  <1> QED
    BY <1>1, <1>2, <1>4, <1>5, <1>6, ConcatProperties

(* The driver's updates keep its record a receiver.                        *)
LEMMA ReceiverUpdates ==
    ASSUME rx \in Receiver
    PROVE  /\ [rx EXCEPT !.held = <<>>] \in Receiver
           /\ [rx EXCEPT !.state = "Stopping"] \in Receiver
           /\ \A b \in Slots : [rx EXCEPT !.next = b] \in Receiver
           /\ \A st \in {rx.state, "Stopping"} :
                 [rx EXCEPT !.current = rx.next, !.next = NoBuffer, !.filled = 0, !.state = st]
                     \in Receiver
           /\ \A p \in Nat : rx.filled < BufferSize =>
                 [rx EXCEPT !.held = Append(@, p), !.filled = @ + 1] \in Receiver
  <1> USE SizesAssumption DEF Receiver, Slots, Buffers, NoBuffer
  <1>1. <<>> \in Seq(Nat)
    BY EmptySeq
  <1>2. [rx EXCEPT !.held = <<>>] \in Receiver
    BY <1>1
  <1>3. [rx EXCEPT !.state = "Stopping"] \in Receiver
    OBVIOUS
  <1>4. \A b \in Slots : [rx EXCEPT !.next = b] \in Receiver
    OBVIOUS
  <1>5. \A st \in {rx.state, "Stopping"} :
            [rx EXCEPT !.current = rx.next, !.next = NoBuffer, !.filled = 0, !.state = st]
                \in Receiver
    <2> TAKE st \in {rx.state, "Stopping"}
    <2>1. st \in {"Off", "On", "Stopping"} /\ rx.next \in Slots /\ 0 \in 0 .. BufferSize
      OBVIOUS
    <2> QED
      BY <2>1
  <1>6. \A p \in Nat : rx.filled < BufferSize =>
            [rx EXCEPT !.held = Append(@, p), !.filled = @ + 1] \in Receiver
    <2>1. \A p \in Nat : Append(rx.held, p) \in Seq(Nat)
      OBVIOUS
    <2>2. rx.filled < BufferSize => rx.filled + 1 \in 0 .. BufferSize
      OBVIOUS
    <2> QED
      BY <2>1, <2>2
  <1> QED
    BY <1>2, <1>3, <1>4, <1>5, <1>6

LEMMA OffIsReceiver ==
    /\ ReceiverOff \in Receiver
    /\ [ReceiverOff EXCEPT !.state = "On", !.current = 0] \in Receiver
  <1> USE SizesAssumption DEF Receiver, Slots, Buffers, NoBuffer
  <1>1. ReceiverOff \in Receiver
    BY EmptySeq DEF ReceiverOff
  <1>2. [ReceiverOff EXCEPT !.state = "On", !.current = 0] \in Receiver
    BY <1>1
  <1> QED
    BY <1>1, <1>2

LEMMA TypesStep == TypeOK /\ [Next]_vars => TypeOK'
  <1> SUFFICES ASSUME TypeOK, [Next]_vars PROVE TypeOK'
    OBVIOUS
  <1> USE SizesAssumption DEF TypeOK, Buffers, Slots, NoBuffer
  <1>1. ASSUME NEW late \in BOOLEAN, NEW due \in BOOLEAN, Service(late, due) PROVE TypeOK'
    BY <1>1 DEF Service, readVars
  <1>2. ASSUME NEW ok \in BOOLEAN, EnableRx(ok) PROVE TypeOK'
    BY <1>2, OffIsReceiver DEF EnableRx, readVars
  <1>3. CASE ReadBegins
    BY <1>3 DEF ReadBegins, ourVars, driverVars
  <1>4. CASE TakeChunk
    <2>1. CASE queue = <<>>
      BY <1>4, <2>1 DEF TakeChunk, driverVars
    <2>2. CASE queue # <<>>
      <3>1. Head(queue) \in Chunk /\ Tail(queue) \in Seq(Chunk) /\ Len(Tail(queue)) = Len(queue) - 1
        BY <2>2
      <3>2. Head(queue).at \in Nat
        BY <3>1 DEF Chunk
      <3>3. queue' = Tail(queue) /\ taken' \in Nat /\ pc' \in {"Read", "Check"}
        BY <1>4, <2>2, <3>2 DEF TakeChunk
      <3> QED
        BY <1>4, <3>1, <3>3 DEF TakeChunk, driverVars
    <2> QED
      BY <2>1, <2>2
  <1>5. CASE HandOut
    BY <1>5 DEF HandOut, ourVars, driverVars
  <1>6. CASE ClaimTx
    BY <1>6 DEF ClaimTx, readVars, driverVars
  <1>7. ASSUME NEW ok \in BOOLEAN, StartTx(ok) PROVE TypeOK'
    BY <1>7 DEF StartTx, readVars
  <1>8. CASE RxReady
    <2>1. queue' = queue \o Appended
          /\ generation' = generation + (Len(rx.held) - Accepted(Len(rx.held)))
      BY <1>8 DEF RxReady, Appended
    <2>2. queue' \in Seq(Chunk) /\ Len(queue') <= QueueDepth /\ generation' \in Nat
      BY <2>1, AppendedFits DEF Receiver
    <2>3. rx' \in Receiver
      BY <1>8, ReceiverUpdates DEF RxReady
    <2> QED
      BY <1>8, <2>2, <2>3 DEF RxReady, readVars
  <1>9. CASE BufRequest
    <2>1. PICK b \in Slots : in_use' = in_use \cup {b} /\ b \in Buffers /\ rx' = [rx EXCEPT !.next = b]
      BY <1>9 DEF BufRequest
    <2> QED
      BY <1>9, <2>1, ReceiverUpdates DEF BufRequest, readVars
  <1>10. CASE BufReleased
    <2>1. rx' \in Receiver
      BY <1>10, ReceiverUpdates DEF BufReleased
    <2> QED
      BY <1>10, <2>1 DEF BufReleased, readVars
  <1>11. CASE RxStopped
    <2>1. rx' \in Receiver
      BY <1>11, ReceiverUpdates DEF RxStopped
    <2> QED
      BY <1>11, <2>1 DEF RxStopped, readVars
  <1>12. CASE RxDisabled
    <2>1. rx' \in Receiver
      BY <1>12, OffIsReceiver DEF RxDisabled
    <2> QED
      BY <1>12, <2>1 DEF RxDisabled, readVars
  <1>13. CASE TxEnds
    BY <1>13 DEF TxEnds, readVars
  <1>14. CASE PieceArrives
    <2>1. rx' \in Receiver
      <3>1. sent' \in Nat
        BY <1>14 DEF PieceArrives
      <3>2. CASE rx.state = "On"
        BY <1>14, <3>1, <3>2, ReceiverUpdates DEF PieceArrives
      <3>3. CASE rx.state # "On"
        BY <1>14, <3>3 DEF PieceArrives
      <3> QED
        BY <3>2, <3>3
    <2> QED
      BY <1>14, <2>1 DEF PieceArrives, ourVars, readVars
  <1>15. CASE UNCHANGED vars
    BY <1>15 DEF vars, ourVars, readVars, driverVars
  <1> QED
    BY <1>1, <1>2, <1>3, <1>4, <1>5, <1>6, <1>7, <1>8, <1>9, <1>10, <1>11, <1>12, <1>13, <1>14, <1>15
    DEF Next, Thread, Event

LEMMA OwnerStep == TypeOK /\ OwnerInv /\ [Next]_vars => OwnerInv'
  <1> SUFFICES ASSUME TypeOK, OwnerInv, [Next]_vars PROVE OwnerInv'
    OBVIOUS
  <1> USE DEF TypeOK, OwnerInv, DmaHasOneOwner, Buffers, Slots, NoBuffer
  <1>1. ASSUME NEW late \in BOOLEAN, NEW due \in BOOLEAN, Service(late, due) PROVE OwnerInv'
    BY <1>1 DEF Service, readVars, ReceiverOff
  <1>2. ASSUME NEW ok \in BOOLEAN, EnableRx(ok) PROVE OwnerInv'
    <2>1. CASE ok
      <3>1. rx' = [ReceiverOff EXCEPT !.state = "On", !.current = 0] /\ in_use' = in_use
        BY <1>2, <2>1 DEF EnableRx
      <3>2. rx'.state = "On" /\ rx'.current = 0 /\ rx'.next = NoBuffer
        BY <3>1 DEF ReceiverOff
      <3> QED
        BY <1>2, <2>1, <3>1, <3>2 DEF EnableRx
    <2>2. CASE ~ok
      BY <1>2, <2>2 DEF EnableRx, ReceiverOff
    <2> QED
      BY <2>1, <2>2
  <1>3. CASE ReadBegins
    BY <1>3 DEF ReadBegins, ourVars, driverVars
  <1>4. CASE TakeChunk
    BY <1>4 DEF TakeChunk, driverVars
  <1>5. CASE HandOut
    BY <1>5 DEF HandOut, ourVars, driverVars
  <1>6. CASE ClaimTx
    BY <1>6 DEF ClaimTx, readVars, driverVars
  <1>7. ASSUME NEW ok \in BOOLEAN, StartTx(ok) PROVE OwnerInv'
    BY <1>7 DEF StartTx, readVars
  <1>8. CASE RxReady
    BY <1>8 DEF RxReady, readVars, Receiver, ReceiverOff
  <1>9. CASE BufRequest
    BY <1>9 DEF BufRequest, readVars, Receiver
  <1>10. CASE BufReleased
    BY <1>10 DEF BufReleased, readVars, Receiver, ReceiverOff
  <1>11. CASE RxStopped
    BY <1>11 DEF RxStopped, readVars, Receiver
  <1>12. CASE RxDisabled
    BY <1>12 DEF RxDisabled, readVars, Receiver, ReceiverOff
  <1>13. CASE TxEnds
    BY <1>13 DEF TxEnds, readVars
  <1>14. CASE PieceArrives
    BY <1>14 DEF PieceArrives, ourVars, readVars, Receiver
  <1>15. CASE UNCHANGED vars
    BY <1>15 DEF vars, ourVars, readVars, driverVars
  <1> QED
    BY <1>1, <1>2, <1>3, <1>4, <1>5, <1>6, <1>7, <1>8, <1>9, <1>10, <1>11, <1>12, <1>13, <1>14, <1>15
    DEF Next, Thread, Event
-----------------------------------------------------------------------------
(* The places on the wire.                                                 *)

PlacesInv == GenerationInv /\ OrderInv /\ GapInv

(* Most steps leave alone what the places depend on.                       *)
KeepsPlaces ==
    /\ UNCHANGED <<generation, queue, observed, taken, got, told, sent>>
    /\ rx'.held = rx.held
    /\ rx'.state = rx.state \/ (rx'.state = "Stopping" /\ rx.state # "Off")
    /\ pc' = "Check" <=> pc = "Check"

LEMMA KeptPlaces == PlacesInv /\ KeepsPlaces => PlacesInv'
  <1> SUFFICES ASSUME PlacesInv, KeepsPlaces PROVE PlacesInv'
    OBVIOUS
  <1> USE DEF PlacesInv, KeepsPlaces
  <1>1. GenerationInv'
    BY DEF GenerationInv
  <1>2. OrderInv'
    BY DEF OrderInv
  <1>3. PICK e \in Nat : EndsAt(e) /\ (rx.state = "On" => e = sent)
    BY DEF GapInv
  <1>4. Following' <=> Following
    BY DEF Following
  <1>5. EndsAt(e)'
    BY <1>3, <1>4 DEF EndsAt
  <1>6. (rx.state = "On" => e = sent)'
    BY <1>3
  <1>7. GapInv'
    BY <1>4, <1>5, <1>6 DEF GapInv
  <1> QED
    BY <1>1, <1>2, <1>7

LEMMA KeepingSteps ==
    ASSUME TypeOK, OwnerInv,
           \/ \E late, due \in BOOLEAN : Service(late, due)
           \/ ClaimTx \/ \E ok \in BOOLEAN : StartTx(ok)
           \/ BufRequest \/ BufReleased \/ TxEnds \/ UNCHANGED vars
    PROVE  KeepsPlaces
  <1> USE DEF KeepsPlaces, readVars
  <1>1. ASSUME NEW late \in BOOLEAN, NEW due \in BOOLEAN, Service(late, due) PROVE KeepsPlaces
    BY <1>1 DEF Service
  <1>2. CASE ClaimTx
    BY <1>2 DEF ClaimTx, driverVars
  <1>3. ASSUME NEW ok \in BOOLEAN, StartTx(ok) PROVE KeepsPlaces
    BY <1>3 DEF StartTx
  <1>4. CASE BufRequest
    BY <1>4 DEF BufRequest, TypeOK, Receiver
  <1>5. CASE BufReleased
    <2>1. rx.state # "Off"
      BY <1>5 DEF BufReleased, OwnerInv, ReceiverOff
    <2> QED
      BY <1>5, <2>1 DEF BufReleased, TypeOK, Receiver
  <1>6. CASE TxEnds
    BY <1>6 DEF TxEnds
  <1>7. CASE UNCHANGED vars
    BY <1>7 DEF vars, ourVars, driverVars
  <1> QED
    BY <1>1, <1>2, <1>3, <1>4, <1>5, <1>6, <1>7

LEMMA EnablePlaces ==
    ASSUME TypeOK, OwnerInv, PlacesInv, NEW ok \in BOOLEAN, EnableRx(ok)
    PROVE  PlacesInv'
  <1>1. CASE ~(ok /\ rx.state = "Off")
    <2>1. KeepsPlaces
      BY <1>1 DEF EnableRx, KeepsPlaces, readVars
    <2> QED
      BY <2>1, KeptPlaces
  <1>2. CASE ok /\ rx.state = "Off"
    <2>1. rx'.held = <<>> /\ rx.held = <<>> /\ rx'.state = "On"
      BY <1>2 DEF EnableRx, ReceiverOff, OwnerInv
    <2>2. UNCHANGED <<generation, queue, observed, taken, got, told, sent>> /\ pc # "Check" /\ pc' # "Check"
      BY <1>2 DEF EnableRx, readVars
    <2>3. GenerationInv'
      BY <2>2 DEF PlacesInv, GenerationInv
    <2>4. OrderInv'
      BY <2>1, <2>2 DEF PlacesInv, OrderInv
    <2>5. ~Following /\ \A i \in DOMAIN queue : queue[i].generation # generation
      BY <1>2 DEF PlacesInv, GapInv
    <2>6. ~Following'
      BY <2>2, <2>5 DEF Following
    <2>7. EndsAt(sent)'
      BY <2>1, <2>2, <2>5, <2>6 DEF EndsAt
    <2>8. GapInv'
      BY <2>1, <2>2, <2>7 DEF GapInv, TypeOK
    <2> QED
      BY <2>3, <2>4, <2>8 DEF PlacesInv
  <1> QED
    BY <1>1, <1>2

LEMMA ReadBeginsPlaces ==
    ASSUME TypeOK, PlacesInv, ReadBegins
    PROVE  PlacesInv'
  <1>1. CASE observed = generation
    <2>1. KeepsPlaces
      BY <1>1 DEF ReadBegins, KeepsPlaces, ourVars, driverVars
    <2> QED
      BY <2>1, KeptPlaces
  <1>2. CASE observed # generation
    <2>1. /\ observed' = generation /\ told' = TRUE /\ pc' = "Idle" /\ pc = "Idle"
          /\ UNCHANGED <<generation, queue, taken, got, sent, rx>>
      BY <1>2 DEF ReadBegins, ourVars, driverVars
    <2>2. GenerationInv'
      BY <2>1 DEF PlacesInv, GenerationInv, TypeOK
    <2>3. OrderInv'
      BY <2>1 DEF PlacesInv, OrderInv
    <2>4. ~Following'
      BY <2>1 DEF Following
    <2>5. PICK e \in Nat : EndsAt(e) /\ (rx.state = "On" => e = sent)
      BY DEF PlacesInv, GapInv
    <2>6. EndsAt(e)'
      BY <2>1, <2>4, <2>5 DEF EndsAt
    <2>7. (rx.state = "On" => e = sent)' /\ (rx.state = "Off" => \A i \in DOMAIN queue : queue[i].generation # generation)'
      BY <2>1, <2>5 DEF PlacesInv, GapInv
    <2>8. GapInv'
      BY <2>4, <2>6, <2>7 DEF GapInv
    <2> QED
      BY <2>2, <2>3, <2>8 DEF PlacesInv
  <1> QED
    BY <1>1, <1>2

LEMMA TakeChunkPlaces ==
    ASSUME TypeOK, PlacesInv, TakeChunk
    PROVE  PlacesInv'
  <1>1. CASE queue = <<>>
    <2>1. KeepsPlaces
      BY <1>1 DEF TakeChunk, KeepsPlaces, driverVars
    <2> QED
      BY <2>1, KeptPlaces
  <1>2. CASE queue # <<>>
    <2> DEFINE c == Head(queue)
    <2>1. /\ queue' = Tail(queue) /\ Len(queue) \in Nat \ {0} /\ Len(queue') = Len(queue) - 1
          /\ DOMAIN queue = 1 .. Len(queue) /\ DOMAIN queue' = 1 .. (Len(queue) - 1)
          /\ \A i \in DOMAIN queue' : i + 1 \in DOMAIN queue /\ queue'[i] = queue[i + 1]
          /\ c = queue[1] /\ 1 \in DOMAIN queue
      BY <1>2 DEF TakeChunk, TypeOK
    <2>2. /\ UNCHANGED <<generation, observed, got, told, rx, sent>>
          /\ pc = "Read"
          /\ IF c.generation = observed THEN taken' = c.at /\ pc' = "Check"
             ELSE UNCHANGED <<taken, pc>>
      BY <1>2 DEF TakeChunk, driverVars
    <2>0. \A i \in DOMAIN queue : queue[i].at \in Nat /\ queue[i].generation \in Nat
      <3>1. \A i \in DOMAIN queue : queue[i] \in Chunk
        BY DEF TypeOK
      <3> QED
        BY <3>1 DEF Chunk
    <2> HIDE DEF c
    <2>3. GenerationInv'
      <3>1. observed' <= generation' /\ \A i \in DOMAIN queue' : queue'[i].generation <= generation'
        BY <2>1, <2>2 DEF PlacesInv, GenerationInv
      <3>2. \A i, j \in DOMAIN queue' : i <= j => queue'[i].generation <= queue'[j].generation
        BY <2>1 DEF PlacesInv, GenerationInv
      <3> QED
        BY <3>1, <3>2 DEF GenerationInv
    <2>4. OrderInv'
      <3>1. /\ \A i \in DOMAIN queue' : got < queue'[i].at /\ queue'[i].at <= sent
            /\ \A i \in DOMAIN queue', j \in DOMAIN rx.held : queue'[i].at < rx.held[j]
        BY <2>1 DEF PlacesInv, OrderInv
      <3>2. \A i, j \in DOMAIN queue' : i < j => queue'[i].at < queue'[j].at
        BY <2>1 DEF PlacesInv, OrderInv
      <3>3. pc' = "Check" =>
              /\ got < taken' /\ taken' <= sent
              /\ \A i \in DOMAIN queue' : taken' < queue'[i].at
              /\ \A i \in DOMAIN rx.held : taken' < rx.held[i]
        BY <2>1, <2>2 DEF PlacesInv, OrderInv
      <3> QED
        BY <2>2, <3>1, <3>2, <3>3 DEF PlacesInv, OrderInv
    <2>5. PICK e \in Nat : EndsAt(e) /\ (rx.state = "On" => e = sent)
      BY DEF PlacesInv, GapInv
    <2>6. Following' => \A i \in DOMAIN queue : queue[i].generation = generation
      <3>1. CASE ~told /\ observed = generation
        BY <2>5, <3>1 DEF EndsAt, Following
      <3>2. CASE pc' = "Check" /\ observed = generation
        <4>1. queue[1].generation = generation /\ generation \in Nat
          BY <2>1, <2>2, <3>2 DEF TypeOK
        <4>2. \A i \in DOMAIN queue : generation <= queue[i].generation /\ queue[i].generation <= generation
          BY <2>1, <4>1 DEF PlacesInv, GenerationInv
        <4> QED
          BY <2>0, <4>1, <4>2
      <3> QED
        BY <2>2, <3>1, <3>2 DEF Following
    <2>7. EndsAt(e)'
      <3>1. \A i \in DOMAIN queue' : queue'[i].generation = generation =>
               queue'[i].at + Len(rx.held) + Len(queue') = e + i
        <4> SUFFICES ASSUME NEW i \in DOMAIN queue', queue'[i].generation = generation
                     PROVE  queue'[i].at + Len(rx.held) + Len(queue') = e + i
          OBVIOUS
        <4>1. queue[i + 1].at + Len(rx.held) + Len(queue) = e + (i + 1)
          BY <2>1, <2>5 DEF EndsAt
        <4>2. queue[i + 1].at \in Nat /\ Len(rx.held) \in Nat /\ i \in Nat /\ queue'[i].at = queue[i + 1].at
          BY <2>0, <2>1 DEF TypeOK, Receiver
        <4>3. Len(queue') + 1 = Len(queue) /\ Len(queue') \in Nat
          BY <2>1
        <4>4. Len(queue) \in Nat
          BY <2>1
        <4>5. queue[i + 1].at + Len(rx.held) + Len(queue') = e + i
          <5> DEFINE a == queue[i + 1].at
                     h == Len(rx.held)
                     n == Len(queue)
                     m == Len(queue')
          <5>1. a \in Nat /\ h \in Nat /\ n \in Nat /\ m \in Nat /\ i \in Nat /\ m + 1 = n
            BY <4>2, <4>3, <4>4
          <5>2. a + h + n = e + (i + 1)
            BY <4>1
          <5> HIDE DEF a, h, n, m
          <5>3. a + h + m = e + i
            BY <5>1, <5>2
          <5> QED
            BY <5>3 DEF a, h, m
        <4> QED
          BY <4>2, <4>5
      <3>2. Following' => \A i \in DOMAIN queue' : queue'[i].generation = generation
        BY <2>1, <2>6
      <3>3. Following' /\ pc' = "Check" => taken' + Len(rx.held) + Len(queue') = e
        <4> SUFFICES ASSUME Following', pc' = "Check"
                     PROVE  taken' + Len(rx.held) + Len(queue') = e
          OBVIOUS
        <4>1. taken' = queue[1].at /\ queue[1].generation = generation
          BY <2>1, <2>2, <2>6
        <4>2. queue[1].at + Len(rx.held) + Len(queue) = e + 1
          BY <2>1, <2>5, <4>1 DEF EndsAt
        <4>3. queue[1].at \in Nat /\ Len(rx.held) \in Nat
          BY <2>0, <2>1 DEF TypeOK, Receiver
        <4> QED
          BY <2>1, <4>1, <4>2, <4>3
      <3>4. Following' /\ ~told =>
               got + (IF pc' = "Check" THEN 1 ELSE 0) + Len(rx.held) + Len(queue') = e
        <4> SUFFICES ASSUME Following', ~told
                     PROVE  got + (IF pc' = "Check" THEN 1 ELSE 0) + Len(rx.held) + Len(queue') = e
          OBVIOUS
        <4>1. Following
          BY <2>2 DEF Following
        <4>2. got + Len(rx.held) + Len(queue) = e
          BY <2>2, <2>5, <4>1 DEF EndsAt, TypeOK, Receiver
        <4>3. c.generation = generation /\ observed = generation
          BY <2>1, <2>2, <2>6, <4>1 DEF Following
        <4>4. got \in Nat /\ Len(rx.held) \in Nat
          BY DEF TypeOK, Receiver
        <4>5. pc' = "Check"
          BY <2>2, <4>3
        <4>6. Len(queue') + 1 = Len(queue) /\ Len(queue') \in Nat
          BY <2>1
        <4>7. Len(queue) \in Nat
          BY <2>1
        <4>8. got + 1 + Len(rx.held) + Len(queue') = e
          <5> DEFINE h == Len(rx.held)
                     n == Len(queue)
                     m == Len(queue')
          <5>1. h \in Nat /\ n \in Nat /\ m \in Nat /\ got \in Nat /\ m + 1 = n /\ got + h + n = e
            BY <4>2, <4>4, <4>6, <4>7
          <5> HIDE DEF h, n, m
          <5>2. got + 1 + h + m = e
            BY <5>1
          <5> QED
            BY <5>2 DEF h, m
        <4> QED
          BY <4>5, <4>8
      <3> QED
        BY <2>2, <2>5, <3>1, <3>2, <3>3, <3>4 DEF EndsAt
    <2>8. rx.state = "Off" => ~Following' /\ \A i \in DOMAIN queue' : queue'[i].generation # generation
      <3> SUFFICES ASSUME rx.state = "Off"
                   PROVE  ~Following' /\ \A i \in DOMAIN queue' : queue'[i].generation # generation
        OBVIOUS
      <3>1. ~Following /\ \A i \in DOMAIN queue : queue[i].generation # generation
        BY DEF PlacesInv, GapInv
      <3> QED
        BY <2>1, <2>2, <3>1 DEF Following
    <2>9. GapInv'
      BY <2>2, <2>5, <2>7, <2>8 DEF GapInv
    <2> QED
      BY <2>3, <2>4, <2>9 DEF PlacesInv
  <1> QED
    BY <1>1, <1>2

LEMMA HandOutPlaces ==
    ASSUME TypeOK, PlacesInv, HandOut
    PROVE  PlacesInv'
  <1>1. /\ UNCHANGED <<generation, queue, observed, rx, sent>> /\ pc = "Check" /\ pc' = "Idle"
        /\ IF generation # observed THEN told' = TRUE /\ got' = got ELSE got' = taken /\ told' = FALSE
    BY DEF HandOut, ourVars, driverVars
  <1>2. GenerationInv'
    BY <1>1 DEF PlacesInv, GenerationInv
  <1>3. OrderInv'
    BY <1>1 DEF PlacesInv, OrderInv
  <1>4. PICK e \in Nat : EndsAt(e) /\ (rx.state = "On" => e = sent)
    BY DEF PlacesInv, GapInv
  <1>5. Following' => Following /\ got' = taken
    BY <1>1 DEF Following
  <1>6. EndsAt(e)'
    <2>1. Following' => got' + 0 + Len(rx.held) + Len(queue) = e
      BY <1>1, <1>4, <1>5 DEF EndsAt, TypeOK
    <2> QED
      BY <1>1, <1>4, <1>5, <2>1 DEF EndsAt
  <1>7. GapInv'
    BY <1>1, <1>4, <1>5, <1>6 DEF PlacesInv, GapInv
  <1> QED
    BY <1>2, <1>3, <1>7 DEF PlacesInv

LEMMA RxStoppedPlaces ==
    ASSUME TypeOK, PlacesInv, RxStopped
    PROVE  PlacesInv'
  <1>1. /\ generation' = generation + 1 /\ rx'.held = rx.held /\ rx'.state = "Stopping"
        /\ UNCHANGED <<queue, observed, taken, got, told, pc, sent>>
    BY DEF RxStopped, readVars, TypeOK, Receiver
  <1>2. \A i \in DOMAIN queue : queue[i].generation \in Nat /\ queue[i].generation < generation'
    <2>1. \A i \in DOMAIN queue : queue[i] \in Chunk
      BY DEF TypeOK
    <2>2. \A i \in DOMAIN queue : queue[i].generation \in Nat
      BY <2>1 DEF Chunk
    <2> QED
      BY <1>1, <2>2 DEF PlacesInv, GenerationInv, TypeOK
  <1>3. observed < generation'
    BY <1>1 DEF PlacesInv, GenerationInv, TypeOK
  <1>4. ~Following'
    BY <1>1, <1>3 DEF Following, TypeOK
  <1>5. GenerationInv'
    BY <1>1, <1>2, <1>3 DEF PlacesInv, GenerationInv, TypeOK
  <1>6. OrderInv'
    BY <1>1 DEF PlacesInv, OrderInv
  <1>7. PICK e \in Nat : EndsAt(e)
    BY DEF PlacesInv, GapInv
  <1>8. EndsAt(e)'
    <2>1. \A i \in DOMAIN queue' : queue'[i].generation # generation'
      BY <1>1, <1>2 DEF TypeOK
    <2>2. \A i \in DOMAIN rx'.held : rx'.held[i] + Len(rx'.held) = e + i
      BY <1>1, <1>7 DEF EndsAt
    <2> QED
      BY <1>4, <2>1, <2>2 DEF EndsAt
  <1>9. GapInv'
    BY <1>1, <1>2, <1>4, <1>8 DEF GapInv, TypeOK
  <1> QED
    BY <1>5, <1>6, <1>9 DEF PlacesInv

LEMMA RxDisabledPlaces ==
    ASSUME TypeOK, PlacesInv, RxDisabled
    PROVE  PlacesInv'
  <1>1. /\ generation' = generation + 1 /\ rx'.held = <<>> /\ rx'.state = "Off"
        /\ UNCHANGED <<queue, observed, taken, got, told, pc, sent>>
    BY DEF RxDisabled, readVars, ReceiverOff
  <1>2. \A i \in DOMAIN queue : queue[i].generation \in Nat /\ queue[i].generation < generation'
    <2>1. \A i \in DOMAIN queue : queue[i] \in Chunk
      BY DEF TypeOK
    <2>2. \A i \in DOMAIN queue : queue[i].generation \in Nat
      BY <2>1 DEF Chunk
    <2> QED
      BY <1>1, <2>2 DEF PlacesInv, GenerationInv, TypeOK
  <1>3. observed < generation'
    BY <1>1 DEF PlacesInv, GenerationInv, TypeOK
  <1>4. ~Following'
    BY <1>1, <1>3 DEF Following, TypeOK
  <1>5. GenerationInv'
    BY <1>1, <1>2, <1>3 DEF PlacesInv, GenerationInv, TypeOK
  <1>6. OrderInv'
    BY <1>1 DEF PlacesInv, OrderInv
  <1>7. EndsAt(0)'
    <2>1. DOMAIN rx'.held = {}
      BY <1>1
    <2>2. \A i \in DOMAIN queue' : queue'[i].generation # generation'
      BY <1>1, <1>2 DEF TypeOK
    <2> QED
      BY <1>4, <2>1, <2>2 DEF EndsAt
  <1>8. GapInv'
    BY <1>1, <1>2, <1>4, <1>7 DEF GapInv, TypeOK
  <1> QED
    BY <1>5, <1>6, <1>8 DEF PlacesInv

LEMMA RxReadyPlaces ==
    ASSUME TypeOK, OwnerInv, PlacesInv, RxReady
    PROVE  PlacesInv'
  <1> DEFINE L == Len(queue)
             n == Len(rx.held)
             k == Len(Appended)
  <1>1. /\ queue' = queue \o Appended /\ generation' = generation + (n - k)
        /\ rx'.held = <<>> /\ rx'.state = rx.state /\ rx.state # "Off"
        /\ UNCHANGED <<observed, taken, got, told, pc, sent>>
    BY AppendedFits DEF RxReady, Appended, readVars, TypeOK, Receiver, OwnerInv, ReceiverOff
  <1>2. /\ L \in Nat /\ n \in Nat /\ k \in 0 .. n /\ Len(queue') = L + k
        /\ DOMAIN queue = 1 .. L /\ DOMAIN rx.held = 1 .. n /\ DOMAIN queue' = 1 .. L + k
        /\ DOMAIN rx'.held = {} /\ Len(rx'.held) = 0
    BY <1>1, AppendedFits DEF TypeOK, Receiver
  <1>3. \A i \in 1 .. L : queue'[i] = queue[i] /\ queue[i].at \in Nat /\ queue[i].generation \in Nat
    <2>1. \A i \in 1 .. L : queue[i] \in Chunk
      BY <1>2 DEF TypeOK
    <2> QED
      BY <1>1, <1>2, <2>1, AppendedFits DEF Chunk
  <1>4. \A i \in L + 1 .. L + k :
           i - L \in 1 .. n /\ queue'[i].at = rx.held[i - L] /\ queue'[i].generation = generation
    <2> SUFFICES ASSUME NEW i \in L + 1 .. L + k
                 PROVE  /\ i - L \in 1 .. n /\ queue'[i].at = rx.held[i - L]
                        /\ queue'[i].generation = generation
      OBVIOUS
    <2>1. i - L \in 1 .. k /\ i \in 1 .. L + k /\ ~(i <= L) /\ i - L \in 1 .. n
      BY <1>2
    <2>2. queue'[i] = Appended[i - L]
      BY <1>1, <2>1, AppendedFits
    <2>3. Appended[i - L] = [at |-> rx.held[i - L], generation |-> generation]
      BY <2>1, AppendedFits
    <2> QED
      BY <2>1, <2>2, <2>3
  <1>5. \A i \in 1 .. n : rx.held[i] \in Nat
    BY <1>2 DEF TypeOK, Receiver
  <1>6. generation \in Nat /\ generation <= generation' /\ generation' \in Nat /\ observed \in Nat
        /\ got \in Nat /\ taken \in Nat /\ sent \in Nat
    BY <1>1, <1>2 DEF TypeOK
  <1>7. DOMAIN queue' = (1 .. L) \cup (L + 1 .. L + k)
    BY <1>2
  <1> HIDE DEF L, n, k
  <1>8. GenerationInv'
    <2>1. \A i \in 1 .. L : queue[i].generation <= generation
      BY <1>2 DEF PlacesInv, GenerationInv
    <2>2. \A i \in DOMAIN queue' : queue'[i].generation <= generation /\ queue'[i].generation \in Nat
      BY <1>3, <1>4, <1>6, <1>7, <2>1
    <2>3. \A i, j \in DOMAIN queue' : i <= j => queue'[i].generation <= queue'[j].generation
      <3> SUFFICES ASSUME NEW i \in DOMAIN queue', NEW j \in DOMAIN queue', i <= j
                   PROVE  queue'[i].generation <= queue'[j].generation
        OBVIOUS
      <3>1. CASE j \in 1 .. L
        <4>1. i \in 1 .. L
          BY <1>2, <3>1
        <4> QED
          BY <1>2, <1>3, <3>1, <4>1 DEF PlacesInv, GenerationInv
      <3>2. CASE j \in L + 1 .. L + k
        BY <1>4, <2>2, <3>2
      <3> QED
        BY <1>7, <3>1, <3>2
    <2>4. \A i \in DOMAIN queue' : queue'[i].generation <= generation'
      BY <1>6, <2>2
    <2>5. observed' <= generation'
      BY <1>1, <1>6 DEF PlacesInv, GenerationInv
    <2> QED
      BY <2>3, <2>4, <2>5 DEF GenerationInv
  <1>9. OrderInv'
    <2>1. \A i \in DOMAIN queue' : got < queue'[i].at /\ queue'[i].at <= sent
      BY <1>2, <1>3, <1>4, <1>7 DEF PlacesInv, OrderInv
    <2>2. \A i, j \in DOMAIN queue' : i < j => queue'[i].at < queue'[j].at
      <3> SUFFICES ASSUME NEW i \in DOMAIN queue', NEW j \in DOMAIN queue', i < j
                   PROVE  queue'[i].at < queue'[j].at
        OBVIOUS
      <3>1. CASE j \in 1 .. L
        <4>1. i \in 1 .. L
          BY <1>2, <3>1
        <4> QED
          BY <1>2, <1>3, <3>1, <4>1 DEF PlacesInv, OrderInv
      <3>2. CASE i \in 1 .. L /\ j \in L + 1 .. L + k
        <4>1. j - L \in 1 .. n /\ queue'[j].at = rx.held[j - L] /\ queue'[i].at = queue[i].at
          BY <1>3, <1>4, <3>2
        <4>2. queue[i].at < rx.held[j - L]
          BY <1>2, <3>2, <4>1 DEF PlacesInv, OrderInv
        <4> QED
          BY <4>1, <4>2
      <3>3. CASE i \in L + 1 .. L + k /\ j \in L + 1 .. L + k
        <4>1. i - L \in 1 .. n /\ j - L \in 1 .. n /\ i - L < j - L
          BY <1>2, <1>4, <3>3
        <4>2. rx.held[i - L] < rx.held[j - L]
          BY <1>2, <4>1 DEF PlacesInv, OrderInv
        <4> QED
          BY <1>4, <3>3, <4>2
      <3> QED
        BY <1>2, <1>7, <3>1, <3>2, <3>3
    <2>3. pc' = "Check" => /\ got < taken /\ taken <= sent
                           /\ \A i \in DOMAIN queue' : taken < queue'[i].at
      BY <1>1, <1>2, <1>3, <1>4, <1>7 DEF PlacesInv, OrderInv
    <2> QED
      BY <1>1, <1>2, <2>1, <2>2, <2>3 DEF PlacesInv, OrderInv
  <1>10. PICK e \in Nat : EndsAt(e) /\ (rx.state = "On" => e = sent)
    BY DEF PlacesInv, GapInv
  <1>11. CASE k = n
    <2>0. generation' = generation
      BY <1>1, <1>2, <1>6, <1>11
    <2>1. generation' = generation /\ (Following' <=> Following)
      BY <1>1, <2>0 DEF Following
    <2>2. Len(rx'.held) + Len(queue') = n + L /\ Len(rx'.held) = 0 /\ Len(queue') = L + n
      BY <1>2, <1>11
    <2>3. \A i \in DOMAIN queue' : queue'[i].generation = generation' =>
             queue'[i].at + Len(rx'.held) + Len(queue') = e + i
      <3> SUFFICES ASSUME NEW i \in 1 .. L + k, queue'[i].generation = generation
                   PROVE  queue'[i].at + 0 + (L + n) = e + i
        BY <1>2, <2>1, <2>2
      <3>1. CASE i \in 1 .. L
        <4>1. queue[i].at + n + L = e + i
          BY <1>2, <1>3, <1>10, <3>1 DEF EndsAt, L, n
        <4> QED
          BY <1>2, <1>3, <3>1, <4>1
      <3>2. CASE i \in L + 1 .. L + k
        <4>1. rx.held[i - L] + n = e + (i - L) /\ rx.held[i - L] \in Nat
          BY <1>2, <1>4, <1>5, <1>10, <3>2 DEF EndsAt, n
        <4>2. queue'[i].at + n = e + (i - L)
          BY <1>4, <3>2, <4>1
        <4>3. queue'[i].at \in Nat /\ i \in Nat
          <5>1. queue'[i].at = rx.held[i - L]
            BY <1>4, <3>2
          <5>2. i \in Nat
            BY <1>2, <3>2
          <5> QED
            BY <4>1, <5>1, <5>2
        <4> DEFINE a == queue'[i].at
        <4>4. a + n = e + (i - L) /\ a \in Nat /\ i \in Nat
          BY <4>2, <4>3
        <4>0. L \in Nat /\ n \in Nat /\ e \in Nat
          BY <1>2
        <4> HIDE DEF a
        <4>5. a + 0 + (L + n) = e + i
          BY ONLY <4>0, <4>4
        <4> QED
          BY <4>5 DEF a
      <3> QED
        BY <1>2, <1>7, <3>1, <3>2
    <2>4. Following' => \A i \in DOMAIN queue' : queue'[i].generation = generation'
      BY <1>2, <1>3, <1>4, <1>7, <1>10, <2>1 DEF EndsAt
    <2>5. Following' /\ pc' = "Check" => taken' + Len(rx'.held) + Len(queue') = e
      <3>1. Following /\ pc = "Check" => taken + n + L = e
        BY <1>10 DEF EndsAt, L, n
      <3> QED
        BY <1>1, <1>2, <1>6, <2>1, <2>2, <3>1
    <2>6. Following' /\ ~told' =>
             got' + (IF pc' = "Check" THEN 1 ELSE 0) + Len(rx'.held) + Len(queue') = e
      <3>1. Following /\ ~told => got + (IF pc = "Check" THEN 1 ELSE 0) + n + L = e
        BY <1>10 DEF EndsAt, L, n
      <3> QED
        BY <1>1, <1>2, <1>6, <2>1, <2>2, <3>1
    <2>7. EndsAt(e)'
      BY <1>2, <2>3, <2>4, <2>5, <2>6 DEF EndsAt
    <2>8. GapInv'
      BY <1>1, <1>10, <2>7 DEF GapInv
    <2> QED
      BY <1>8, <1>9, <2>8 DEF PlacesInv
  <1>12. CASE k # n
    <2>1. generation < generation'
      BY <1>1, <1>2, <1>6, <1>12
    <2>2. ~Following'
      BY <1>1, <1>6, <2>1 DEF Following, PlacesInv, GenerationInv
    <2>3. \A i \in DOMAIN queue' : queue'[i].generation # generation'
      <3>1. \A i \in 1 .. L : queue[i].generation <= generation
        BY <1>2 DEF PlacesInv, GenerationInv
      <3> QED
        BY <1>3, <1>4, <1>6, <1>7, <2>1, <3>1
    <2>4. EndsAt(sent)'
      BY <1>2, <2>2, <2>3 DEF EndsAt
    <2>5. GapInv'
      BY <1>1, <1>6, <2>2, <2>3, <2>4 DEF GapInv
    <2> QED
      BY <1>8, <1>9, <2>5 DEF PlacesInv
  <1> QED
    BY <1>11, <1>12

LEMMA PieceArrivesPlaces ==
    ASSUME TypeOK, PlacesInv, PieceArrives
    PROVE  PlacesInv'
  <1>1. /\ UNCHANGED <<generation, queue, observed, taken, got, told, pc>>
        /\ sent' = sent + 1 /\ sent \in Nat /\ rx'.state = rx.state
        /\ (Following' <=> Following)
    BY DEF PieceArrives, ourVars, readVars, TypeOK, Receiver, Following
  <1>2. GenerationInv'
    BY <1>1 DEF PlacesInv, GenerationInv
  <1>3. PICK e \in Nat : EndsAt(e) /\ (rx.state = "On" => e = sent)
    BY DEF PlacesInv, GapInv
  <1>4. \A i \in DOMAIN queue : queue[i].at \in Nat
    <2>1. \A i \in DOMAIN queue : queue[i] \in Chunk
      BY DEF TypeOK
    <2> QED
      BY <2>1 DEF Chunk
  <1>5. \A i \in DOMAIN rx.held : rx.held[i] \in Nat
    BY DEF TypeOK, Receiver
  <1>6. got \in Nat /\ taken \in Nat
    BY DEF TypeOK
  <1>7. CASE rx.state # "On"
    <2>1. rx' = rx
      BY <1>7 DEF PieceArrives
    <2>2. OrderInv'
      BY <1>1, <1>4, <1>5, <1>6, <2>1 DEF PlacesInv, OrderInv
    <2>3. EndsAt(e)'
      BY <1>1, <1>3, <2>1 DEF EndsAt
    <2>4. GapInv'
      BY <1>1, <1>7, <2>1, <2>3 DEF PlacesInv, GapInv
    <2> QED
      BY <1>2, <2>2, <2>4 DEF PlacesInv
  <1>8. CASE rx.state = "On"
    <2> DEFINE n == Len(rx.held)
               m == Len(queue)
    <2>1. rx'.held = Append(rx.held, sent')
      BY <1>8 DEF PieceArrives, TypeOK, Receiver
    <2>2. /\ n \in Nat /\ m \in Nat /\ Len(rx'.held) = n + 1
          /\ DOMAIN rx.held = 1 .. n /\ DOMAIN rx'.held = 1 .. n + 1
          /\ DOMAIN queue = 1 .. m
          /\ \A i \in 1 .. n : rx'.held[i] = rx.held[i]
          /\ rx'.held[n + 1] = sent + 1
      BY <1>1, <2>1 DEF TypeOK, Receiver
    <2> HIDE DEF n, m
    <2>3. DOMAIN rx'.held = (1 .. n) \cup {n + 1}
      BY <2>2
    <2>4. OrderInv'
      <3>1. got' <= sent' /\ \A i \in DOMAIN queue' : got' < queue'[i].at /\ queue'[i].at <= sent'
        BY <1>1, <1>4, <1>6 DEF PlacesInv, OrderInv
      <3>2. \A i \in DOMAIN rx'.held : got' < rx'.held[i] /\ rx'.held[i] <= sent'
        BY <1>1, <1>5, <1>6, <2>2, <2>3 DEF PlacesInv, OrderInv
      <3>3. \A i, j \in DOMAIN rx'.held : i < j => rx'.held[i] < rx'.held[j]
        <4> SUFFICES ASSUME NEW i \in DOMAIN rx'.held, NEW j \in DOMAIN rx'.held, i < j
                     PROVE  rx'.held[i] < rx'.held[j]
          OBVIOUS
        <4>1. i \in 1 .. n
          BY <2>2
        <4>2. rx.held[i] <= sent /\ rx'.held[i] = rx.held[i] /\ rx.held[i] \in Nat
          BY <1>5, <2>2, <4>1 DEF PlacesInv, OrderInv
        <4>3. CASE j \in 1 .. n
          BY <2>2, <4>1, <4>3 DEF PlacesInv, OrderInv
        <4>4. CASE j = n + 1
          BY <1>1, <2>2, <4>2, <4>4
        <4> QED
          BY <2>3, <4>3, <4>4
      <3>4. \A i \in DOMAIN queue', j \in DOMAIN rx'.held : queue'[i].at < rx'.held[j]
        BY <1>1, <1>4, <2>2, <2>3 DEF PlacesInv, OrderInv
      <3>5. pc' = "Check" => /\ got' < taken' /\ taken' <= sent'
                             /\ \A i \in DOMAIN queue' : taken' < queue'[i].at
                             /\ \A i \in DOMAIN rx'.held : taken' < rx'.held[i]
        BY <1>1, <1>6, <2>2, <2>3 DEF PlacesInv, OrderInv
      <3>6. \A i, j \in DOMAIN queue' : i < j => queue'[i].at < queue'[j].at
        BY <1>1 DEF PlacesInv, OrderInv
      <3> QED
        BY <3>1, <3>2, <3>3, <3>4, <3>5, <3>6 DEF OrderInv
    <2>5. e = sent
      BY <1>3, <1>8
    <2>6. EndsAt(e + 1)'
      <3>1. \A i \in DOMAIN rx'.held : rx'.held[i] + (n + 1) = (e + 1) + i
        <4>1. \A i \in 1 .. n : rx.held[i] + n = e + i /\ rx.held[i] \in Nat
          BY <1>3, <1>5, <2>2 DEF EndsAt, n
        <4>2. \A i \in 1 .. n : rx.held[i] + (n + 1) = (e + 1) + i
          <5> TAKE i \in 1 .. n
          <5> DEFINE a == rx.held[i]
          <5>1. a + n = e + i /\ a \in Nat /\ i \in Nat
            BY <2>2, <4>1
          <5> HIDE DEF a
          <5>2. a + (n + 1) = (e + 1) + i
            BY <2>2, <1>3, <5>1
          <5> QED
            BY <5>2 DEF a
        <4>3. (sent + 1) + (n + 1) = (e + 1) + (n + 1)
          BY <2>5
        <4> QED
          BY <2>2, <2>3, <4>2, <4>3
      <3>2. \A i \in DOMAIN queue : queue[i].generation = generation =>
               queue[i].at + (n + 1) + m = (e + 1) + i
        <4> SUFFICES ASSUME NEW i \in DOMAIN queue, queue[i].generation = generation
                     PROVE  queue[i].at + (n + 1) + m = (e + 1) + i
          OBVIOUS
        <4>1. queue[i].at + n + m = e + i /\ queue[i].at \in Nat /\ i \in Nat
          BY <1>3, <1>4, <2>2 DEF EndsAt, n, m
        <4> DEFINE a == queue[i].at
        <4>2. a + n + m = e + i /\ a \in Nat /\ i \in Nat
          BY <4>1
        <4>0. n \in Nat /\ m \in Nat /\ e \in Nat
          BY <2>2
        <4> HIDE DEF a
        <4>3. a + (n + 1) + m = (e + 1) + i
          BY ONLY <4>0, <4>2
        <4> QED
          BY <4>3 DEF a
      <3>3. Following => \A i \in DOMAIN queue : queue[i].generation = generation
        BY <1>3 DEF EndsAt
      <3>4. Following /\ pc = "Check" => taken + (n + 1) + m = e + 1
        <4>1. Following /\ pc = "Check" => taken + n + m = e
          BY <1>3 DEF EndsAt, n, m
        <4> QED
          BY <1>1, <1>6, <2>2, <4>1
      <3>5. Following /\ ~told => got + (IF pc = "Check" THEN 1 ELSE 0) + (n + 1) + m = e + 1
        <4>1. Following /\ ~told => got + (IF pc = "Check" THEN 1 ELSE 0) + n + m = e
          BY <1>3 DEF EndsAt, n, m
        <4> QED
          BY <1>1, <1>6, <2>2, <4>1
      <3>6. Len(queue') = m /\ UNCHANGED <<generation, queue, taken, got, told, pc>>
        BY <1>1 DEF m
      <3> QED
        BY <1>1, <2>2, <3>1, <3>2, <3>3, <3>4, <3>5, <3>6 DEF EndsAt
    <2>7. e + 1 \in Nat /\ (rx.state = "On" => e + 1 = sent)' /\ rx'.state = "On"
      BY <1>1, <1>8, <2>5
    <2>8. GapInv'
      BY <2>6, <2>7 DEF GapInv
    <2> QED
      BY <1>2, <2>4, <2>8 DEF PlacesInv
  <1> QED
    BY <1>7, <1>8

LEMMA PlacesStep == TypeOK /\ OwnerInv /\ PlacesInv /\ [Next]_vars => PlacesInv'
  <1> SUFFICES ASSUME TypeOK, OwnerInv, PlacesInv, [Next]_vars PROVE PlacesInv'
    OBVIOUS
  <1> QED
    BY KeepingSteps, KeptPlaces, EnablePlaces, ReadBeginsPlaces, TakeChunkPlaces, HandOutPlaces,
       RxReadyPlaces, RxStoppedPlaces, RxDisabledPlaces, PieceArrivesPlaces
    DEF Next, Thread, Event

-----------------------------------------------------------------------------
Inv == TypeOK /\ OwnerInv /\ PlacesInv

LEMMA InitInv == Init => Inv
  <1> SUFFICES ASSUME Init PROVE Inv
    OBVIOUS
  <1>0. rx \in Receiver /\ rx.held = <<>> /\ rx.next = NoBuffer
    <2>1. CASE rx = ReceiverOff
      BY <2>1, OffIsReceiver DEF ReceiverOff
    <2>2. CASE rx = [ReceiverOff EXCEPT !.state = "On", !.current = 0]
      BY <2>2, OffIsReceiver DEF ReceiverOff
    <2> QED
      BY <2>1, <2>2 DEF Init
  <1>1. TypeOK
    <2>1. queue \in Seq(Chunk) /\ Len(queue) <= QueueDepth
      BY SizesAssumption, EmptySeq DEF Init
    <2>2. in_use \subseteq Buffers /\ rx_disabled \in BOOLEAN
      BY DEF Init, Buffers
    <2> QED
      BY <1>0, <2>1, <2>2 DEF Init, TypeOK
  <1>2. OwnerInv
    <2>1. CASE rx = ReceiverOff
      BY <1>0, <2>1 DEF Init, OwnerInv, DmaHasOneOwner, ReceiverOff, NoBuffer
    <2>2. CASE in_use = {0} /\ rx_disabled = FALSE /\ rx = [ReceiverOff EXCEPT !.state = "On", !.current = 0]
      <3>1. rx.state = "On" /\ rx.current = 0
        BY <2>2 DEF ReceiverOff
      <3> QED
        BY <1>0, <2>2, <3>1 DEF Init, OwnerInv, DmaHasOneOwner, NoBuffer
    <2> QED
      BY <2>1, <2>2 DEF Init
  <1>3. queue = <<>> /\ ~Following
    BY DEF Init, Following
  <1>4. GenerationInv /\ OrderInv
    BY <1>0, <1>3 DEF Init, GenerationInv, OrderInv
  <1>5. EndsAt(0) /\ sent = 0
    BY <1>0, <1>3 DEF Init, EndsAt
  <1>6. GapInv
    BY <1>3, <1>5 DEF GapInv
  <1> QED
    BY <1>1, <1>2, <1>4, <1>6 DEF Inv, PlacesInv

LEMMA Invariance == Spec => []Inv
  <1>1. Inv /\ [Next]_vars => Inv'
    BY TypesStep, OwnerStep, PlacesStep DEF Inv
  <1> QED
    BY InitInv, <1>1, PTL DEF Spec

(* Whatever the interleaving of the thread with the callbacks, every       *)
(* variable keeps its type and the queue never holds more than its storage.*)
THEOREM TypeCorrect == Spec => []TypeOK
  <1>1. Inv => TypeOK
    BY DEF Inv
  <1> QED
    BY Invariance, <1>1, PTL

(* The driver and the program never own the same DMA buffer: what event()  *)
(* releases and startRx() offers again is not what the driver writes to,   *)
(* and send() never copies into a buffer that is on its way out.           *)
THEOREM OneOwner == Spec => []DmaHasOneOwner
  <1>1. Inv => DmaHasOneOwner
    BY DEF Inv, OwnerInv
  <1> QED
    BY Invariance, <1>1, PTL

(* read() implements GapStream: no piece of the wire is skipped between    *)
(* two chunks handed out without -EOVERFLOW between them, and no chunk is  *)
(* handed out twice or out of order, for every depth of the queue.         *)
THEOREM GapsAnnounced == Spec => NoSilentGap
  <1>1. Init => Stream!Init
    BY DEF Init, Stream!Init
  <1>2. Inv /\ [Next]_vars => [Stream!Next]_<<got, told>>
    <2> SUFFICES ASSUME Inv, Next, ~UNCHANGED <<got, told>> PROVE Stream!Next
      BY DEF vars, readVars
    <2>1. CASE ReadBegins
      BY <2>1 DEF ReadBegins, ourVars, driverVars, Stream!Next, Stream!Announce
    <2>2. CASE HandOut
      <3>1. CASE generation # observed
        BY <2>2, <3>1 DEF HandOut, Stream!Next, Stream!Announce
      <3>2. CASE generation = observed
        <4>1. got' = taken /\ told' = FALSE /\ pc = "Check" /\ got < taken /\ Following
          BY <2>2, <3>2 DEF HandOut, Inv, PlacesInv, OrderInv, Following
        <4>2. told \/ taken = got + 1
          <5>1. PICK e \in Nat : EndsAt(e)
            BY DEF Inv, PlacesInv, GapInv
          <5> DEFINE n == Len(rx.held)
                     m == Len(queue)
          <5>2. taken + n + m = e /\ (told \/ got + 1 + n + m = e)
            BY <4>1, <5>1 DEF EndsAt
          <5>3. n \in Nat /\ m \in Nat /\ taken \in Nat /\ got \in Nat
            BY DEF Inv, TypeOK, Receiver
          <5> HIDE DEF n, m
          <5> QED
            BY <5>2, <5>3
        <4> QED
          BY <4>1, <4>2 DEF Inv, TypeOK, Stream!Next, Stream!Deliver
      <3> QED
        BY <3>1, <3>2
    <2> QED
      BY <2>1, <2>2 DEF Next, Thread, Event, Service, EnableRx, TakeChunk, ClaimTx, StartTx,
         RxReady, BufRequest, BufReleased, RxStopped, RxDisabled, TxEnds, PieceArrives, readVars
  <1> QED
    BY Invariance, <1>1, <1>2, PTL DEF Spec, NoSilentGap, Stream!Spec
=============================================================================
