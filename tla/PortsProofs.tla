----------------------------- MODULE PortsProofs -----------------------------
(***************************************************************************)
(* Theorems about the rigs of MCPorts, for all depths, bounds and times.   *)
(* Each rig has an inductive invariant of its own.                         *)
(***************************************************************************)
EXTENDS MCPorts, SequenceTheorems, TLAPS

-----------------------------------------------------------------------------
(* What is in a sequence that grows at its end, and in one that loses its  *)
(* first element.                                                          *)
LEMMA Grows ==
  ASSUME NEW S, NEW s \in Seq(S), NEW x \in S
  PROVE  /\ Append(s, x) \in Seq(S) /\ Len(Append(s, x)) = Len(s) + 1
         /\ \A i \in 1 .. Len(s) : Append(s, x)[i] = s[i]
         /\ Append(s, x)[Len(s) + 1] = x
OBVIOUS

LEMMA UpToTheNext ==
  ASSUME NEW n \in Nat
  PROVE  \A k \in 1 .. n + 1 : k \in 1 .. n \/ k = n + 1
OBVIOUS

LEMMA Loses ==
  ASSUME NEW S, NEW s \in Seq(S), s # <<>>
  PROVE  /\ Tail(s) \in Seq(S) /\ Len(Tail(s)) = Len(s) - 1 /\ Len(s) \in Nat \ {0}
         /\ \A i \in 1 .. Len(Tail(s)) : Tail(s)[i] = s[i + 1]
         /\ Head(s) = s[1] /\ s[1] \in S
OBVIOUS

-----------------------------------------------------------------------------
(* The transport over CAN (CanTransport): v1 is raw, v2 partial, v3 ready, *)
(* v4 given, v5 mode, v6 tx, v7 tx_done, v8 pc, v9 hw, v10 peer, v11       *)
(* handed and v12 faults.                                                  *)

(* The fragments, and a frame that is none.                                *)
Carried == {f \in [batch : Nat, place : 1 .. Fragments] : f.batch = 0 => f.place = Fragments}

LinkFits ==
    /\ v1 \in [queue : Seq(Carried), gap : BOOLEAN] /\ v2 \in Carried
    /\ v3 \in [queue : Seq(Nat), offset : Nat, gap : BOOLEAN]
    /\ v4 \in [batch : Nat, piece : 1 .. Pieces, told : BOOLEAN]
    /\ v6 \in [batch : Nat, left : 0 .. Fragments, in_flight : BOOLEAN]
    /\ v9 \in [up : BOOLEAN, frame : Carried]
    /\ v10 \in Carried /\ v11 \in Carried /\ v12 \in Nat

(* What is left of a batch goes on behind the fragment handed over last.   *)
LinkSends ==
    /\ CanLink!FrameIsRetired
    /\ v6.left > 0 => v5 = "Running" /\ v6.batch > 0
    /\ v5 = "Running" /\ v6.in_flight => v6.left > 0
    /\ v11.batch <= v6.batch
    /\ v6.left > 0 =>
         IF v6.in_flight THEN v11.batch = v6.batch /\ v11.place = Fragments + 1 - v6.left
         ELSE IF v6.left = Fragments THEN v11.batch < v6.batch
         ELSE v11.batch = v6.batch /\ v11.place = Fragments - v6.left

(* One fragment is sent before another; a batch is before a fragment, with *)
(* all of its own.                                                         *)
Before(f, g) == f.batch < g.batch \/ (f.batch = g.batch /\ f.place < g.place)
Whole(b, f) == b < f.batch \/ (b = f.batch /\ f.place = Fragments)

(* Whatever is on the way was sent in this order: what is handed out, the  *)
(* batches queued, the one being assembled, the ring, the peer.            *)
RingOrdered(ring) ==
    \A i, j \in 1 .. Len(ring) :
        i < j /\ ring[i].batch > 0 /\ ring[j].batch > 0 => Before(ring[i], ring[j])
RingFollows(ring, partial, ready, given, peer) ==
    \A i \in 1 .. Len(ring) : ring[i].batch > 0 =>
        /\ ~Before(peer, ring[i]) /\ Before(partial, ring[i]) /\ given.batch < ring[i].batch
        /\ \A k \in 1 .. Len(ready.queue) : ready.queue[k] < ring[i].batch
PartFollows(partial, ready, given, peer) ==
    /\ ~Before(peer, partial)
    /\ partial.batch > 0 =>
         /\ given.batch < partial.batch
         /\ \A k \in 1 .. Len(ready.queue) : ready.queue[k] < partial.batch
ReadyFollows(ready, given, peer) ==
    /\ Whole(given.batch, peer) /\ \A k \in 1 .. Len(ready.queue) : Whole(ready.queue[k], peer)
    /\ \A k, l \in 1 .. Len(ready.queue) : k < l => ready.queue[k] < ready.queue[l]
    /\ ready.offset = 0 => \A k \in 1 .. Len(ready.queue) : given.batch < ready.queue[k]

(* Where the reader is in the first batch, or may begin with the next.     *)
ReaderStands(ready, given) ==
    IF ready.offset = 0 THEN ready.gap \/ given.told \/ given.piece = Pieces
    ELSE /\ ready.queue # <<>> /\ ready.queue[1] = given.batch
         /\ ready.offset = given.piece /\ ~ready.gap /\ ~given.told

Ordered(ring, partial, ready, given, peer) ==
    /\ RingOrdered(ring) /\ RingFollows(ring, partial, ready, given, peer)
    /\ PartFollows(partial, ready, given, peer)
    /\ ReadyFollows(ready, given, peer) /\ ReaderStands(ready, given)

LinkInv == LinkFits /\ CanLink!TypeOK /\ LinkSends /\ Ordered(v1.queue, v2, v3, v4, v10)

(* It holds at the start.                                                  *)
LEMMA LinkStarts == CanLink!Init => LinkInv
<1> SUFFICES ASSUME CanLink!Init PROVE LinkInv
  OBVIOUS
<1> USE LinkAssumption DEF CanLink!Init, CanLink!None
<1>1. LinkFits
  BY DEF LinkFits, Carried
<1>2. CanLink!TypeOK
  BY DEF CanLink!TypeOK, CanLink!Queued
<1>3. LinkSends
  BY DEF LinkSends, CanLink!FrameIsRetired
<1>4. Ordered(v1.queue, v2, v3, v4, v10)
  BY DEF Ordered, RingOrdered, RingFollows, PartFollows, ReadyFollows, ReaderStands, Before, Whole
<1> QED
  BY <1>1, <1>2, <1>3, <1>4 DEF LinkInv

(* What is assembled may be dropped, and a gap drops the batches.          *)
LEMMA DropKeepsOrder ==
  ASSUME NEW ring \in Seq(Carried), NEW partial, NEW ready, NEW given, NEW peer \in Carried,
         Ordered(ring, partial, ready, given, peer)
  PROVE  Ordered(ring, CanLink!None, ready, given, peer)
<1> DEFINE none == CanLink!None
<1>1. none.batch = 0 /\ none.place = Fragments
  BY DEF CanLink!None
<1>2. ~Before(peer, none) /\ \A i \in 1 .. Len(ring) : ring[i].batch > 0 => Before(none, ring[i])
  BY <1>1, LinkAssumption DEF Before, Carried
<1>3. RingFollows(ring, none, ready, given, peer)
  BY <1>2 DEF Ordered, RingFollows
<1>4. PartFollows(none, ready, given, peer)
  BY <1>1, <1>2 DEF PartFollows
<1> QED
  BY <1>3, <1>4 DEF Ordered

LEMMA GapKeepsOrder ==
  ASSUME NEW ring, NEW partial, NEW ready, NEW given, NEW peer,
         Ordered(ring, partial, ready, given, peer)
  PROVE  Ordered(ring, partial, CanLink!Gapped(ready), given, peer)
<1> DEFINE gapped == CanLink!Gapped(ready)
<1>1. gapped.queue = <<>> /\ gapped.offset = 0 /\ gapped.gap
  BY DEF CanLink!Gapped
<1>2. \A k \in 1 .. Len(gapped.queue) : FALSE
  BY <1>1
<1>3. RingFollows(ring, partial, gapped, given, peer)
  BY <1>2 DEF Ordered, RingFollows
<1>4. PartFollows(partial, gapped, given, peer)
  BY <1>2 DEF Ordered, PartFollows
<1>5. ReadyFollows(gapped, given, peer)
  BY <1>2 DEF Ordered, ReadyFollows
<1>6. ReaderStands(gapped, given)
  BY <1>1 DEF ReaderStands
<1> QED
  BY <1>3, <1>4, <1>5, <1>6 DEF Ordered

(* The first frame of the ring is looked at: what follows is sent later.   *)
LEMMA ConsumedKeepsOrder ==
  ASSUME NEW ring \in Seq(Carried), ring # <<>>, NEW f, f = Head(ring), NEW partial \in Carried,
         NEW ready \in [queue : Seq(Nat), offset : Nat, gap : BOOLEAN], Len(ready.queue) <= 2,
         NEW given \in [batch : Nat, piece : 1 .. Pieces, told : BOOLEAN], NEW peer \in Carried,
         partial = CanLink!None \/ partial.place < Fragments,
         Ordered(ring, partial, ready, given, peer), NEW late \in BOOLEAN
  PROVE  LET c == CanLink!Consumed(partial, ready, f, late)
         IN  /\ Ordered(Tail(ring), c.partial, c.ready, given, peer)
             /\ c.partial \in Carried /\ (c.partial = CanLink!None \/ c.partial.place < Fragments)
             /\ c.ready \in [queue : Seq(Nat), offset : Nat, gap : BOOLEAN] /\ Len(c.ready.queue) <= 2
             /\ c.ready.offset \in {0, ready.offset}
<1> DEFINE c == CanLink!Consumed(partial, ready, f, late)
           none == CanLink!None
           gapped == CanLink!Gapped(ready)
           Q == [queue : Seq(Nat), offset : Nat, gap : BOOLEAN]
           Good(p, q) == /\ Ordered(Tail(ring), p, q, given, peer)
                         /\ p \in Carried /\ (p = none \/ p.place < Fragments)
                         /\ q \in Q /\ Len(q.queue) <= 2 /\ q.offset \in {0, ready.offset}
<1> USE LinkAssumption
<1>1. /\ Tail(ring) \in Seq(Carried) /\ Len(Tail(ring)) \in Nat /\ Len(ring) = Len(Tail(ring)) + 1
      /\ \A i \in 1 .. Len(Tail(ring)) : Tail(ring)[i] = ring[i + 1]
      /\ f \in Carried
  BY Loses
<1>15. f = ring[1]
  BY Loses
<1>2. none \in Carried /\ none.batch = 0 /\ none.place = Fragments
  BY DEF CanLink!None, Carried
<1>3. ASSUME NEW p, NEW q, Ordered(ring, p, q, given, peer) PROVE Ordered(Tail(ring), p, q, given, peer)
  <2>1. \A i \in 1 .. Len(Tail(ring)) : i + 1 \in 1 .. Len(ring)
    BY <1>1
  <2>2. \A i, j \in 1 .. Len(Tail(ring)) : i < j => i + 1 < j + 1
    BY <1>1
  <2>3. RingOrdered(Tail(ring))
    BY <1>1, <1>3, <2>1, <2>2 DEF Ordered, RingOrdered
  <2>4. RingFollows(Tail(ring), p, q, given, peer)
    BY <1>1, <1>3, <2>1 DEF Ordered, RingFollows
  <2> QED
    BY <1>3, <2>3, <2>4 DEF Ordered
<1>4. /\ gapped \in Q /\ gapped.queue = <<>> /\ gapped.offset = 0 /\ gapped.gap
      /\ Len(gapped.queue) = 0
  BY DEF CanLink!Gapped
<1>5. /\ Ordered(ring, none, ready, given, peer) /\ Ordered(ring, none, gapped, given, peer)
      /\ Ordered(ring, partial, gapped, given, peer)
  BY DropKeepsOrder, GapKeepsOrder
<1>6. Good(none, gapped)
  BY <1>2, <1>3, <1>4, <1>5
<1>7. ASSUME partial = none PROVE Good(none, ready)
  BY <1>2, <1>3, <1>7
<1>8. \A i \in 1 .. Len(Tail(ring)) : Tail(ring)[i] \in Carried /\ i + 1 \in 1 .. Len(ring)
  BY <1>1
<1>9. ASSUME NEW q \in Q, Ordered(ring, none, q, given, peer), Len(q.queue) <= 2, q.offset \in {0, ready.offset},
             f.batch > 0, f.place < Fragments,
             \A k \in 1 .. Len(q.queue) : q.queue[k] < f.batch
      PROVE  Good(f, q)
  <2>1. 1 \in 1 .. Len(ring)
    BY <1>1
  <2>2. ~Before(peer, f) /\ given.batch < f.batch
    BY <1>1, <1>15, <1>9, <2>1 DEF Ordered, RingFollows
  <2>3. \A i \in 1 .. Len(Tail(ring)) : Tail(ring)[i].batch > 0 => Before(f, Tail(ring)[i])
    BY <1>1, <1>15, <1>8, <1>9, <2>1 DEF Ordered, RingOrdered
  <2>4. Ordered(Tail(ring), none, q, given, peer)
    BY <1>3, <1>9
  <2>5. Ordered(Tail(ring), f, q, given, peer)
    BY <2>2, <2>3, <2>4, <1>9 DEF Ordered, RingFollows, PartFollows
  <2> QED
    BY <1>1, <1>9, <2>5
<1>10. CASE f.place = 1
  <2>1. f # none /\ f.batch > 0
    BY <1>1, <1>2, <1>10 DEF Carried
  <2>2. CASE partial = none
    <3>1. \A k \in 1 .. Len(ready.queue) : ready.queue[k] < f.batch
      <4>1. 1 \in 1 .. Len(ring)
        BY <1>1
      <4>2. ring[1].batch > 0
        BY <1>1, <1>15, <2>1
      <4>3. \A k \in 1 .. Len(ready.queue) : ready.queue[k] < ring[1].batch
        BY <4>1, <4>2 DEF Ordered, RingFollows
      <4> QED
        BY <1>15, <4>3
    <3>2. Good(f, ready)
      BY <1>5, <1>9, <1>10, <2>1, <3>1
    <3>3. c = [partial |-> f, ready |-> IF partial = none THEN ready ELSE gapped]
      BY <1>10 DEF CanLink!Consumed
    <3> QED
      BY <2>2, <3>2, <3>3
  <2>3. CASE partial # none
    <3>1. Good(f, gapped)
      <4>1. \A k \in 1 .. Len(gapped.queue) : gapped.queue[k] < f.batch
        BY <1>4
      <4>2. f.place < Fragments /\ Len(gapped.queue) <= 2
        BY <1>4, <1>10
      <4> QED
        BY <1>4, <1>5, <1>9, <2>1, <4>1, <4>2
    <3>2. c = [partial |-> f, ready |-> gapped]
      BY <1>10, <2>3 DEF CanLink!Consumed
    <3> QED
      BY <3>1, <3>2
  <2> QED
    BY <2>2, <2>3
<1>11. CASE f.place # 1 /\ f # none /\ partial = none
  <2>1. c = [partial |-> none, ready |-> ready]
    BY <1>11 DEF CanLink!Consumed
  <2> QED
    BY <1>7, <1>11, <2>1
<1>12. CASE f.place # 1 /\ ~(f # none /\ partial = none) /\ (f = none \/ ~CanLink!Continues(partial, f, late))
  <2>1. c = [partial |-> none, ready |-> gapped]
    BY <1>12 DEF CanLink!Consumed
  <2> QED
    BY <1>6, <2>1
<1>13. CASE /\ f.place # 1 /\ f # none /\ partial # none /\ CanLink!Continues(partial, f, late)
            /\ f.place < Fragments
  <2>1. f.batch = partial.batch /\ partial.batch > 0
    BY <1>1, <1>2, <1>13 DEF CanLink!Continues, Carried
  <2>2. \A k \in 1 .. Len(ready.queue) : ready.queue[k] < f.batch
    BY <2>1 DEF Ordered, PartFollows
  <2>3. Good(f, ready)
    BY <1>5, <1>9, <1>13, <2>1, <2>2
  <2> QED
    <3>1. c = [partial |-> f, ready |-> ready]
      BY <1>13 DEF CanLink!Consumed
    <3> QED
      BY <2>3, <3>1
<1>14. CASE /\ f.place # 1 /\ f # none /\ partial # none /\ CanLink!Continues(partial, f, late)
            /\ ~(f.place < Fragments)
  <2>1. f.batch = partial.batch /\ partial.batch > 0 /\ f.place = Fragments
    BY <1>1, <1>2, <1>14 DEF CanLink!Continues, Carried
  <2>2. PICK q \in {ready, gapped} : /\ CanLink!Push(ready, f.batch) = [q EXCEPT !.queue = Append(@, f.batch)]
                                     /\ Len(q.queue) < 2
    <3>1. CASE Len(ready.queue) = 2
      <4>1. CanLink!Push(ready, f.batch) = [gapped EXCEPT !.queue = Append(@, f.batch)]
        BY <3>1 DEF CanLink!Push, CanLink!Queued
      <4>2. Len(gapped.queue) < 2
        BY <1>4
      <4> HIDE DEF gapped
      <4> QED
        BY <4>1, <4>2
    <3>2. CASE Len(ready.queue) # 2
      <4>1. ready.queue \in Seq(Nat) /\ Len(ready.queue) \in Nat
        OBVIOUS
      <4>2. Len(ready.queue) < 2
        <5> DEFINE m == Len(ready.queue)
        <5>1. m <= 2 /\ m # 2 /\ m \in Nat
          BY <3>2, <4>1
        <5> HIDE DEF m
        <5>2. m < 2
          BY <5>1
        <5> QED
          BY <5>2 DEF m
      <4> QED
        BY <3>2, <4>2 DEF CanLink!Push, CanLink!Queued
    <3> QED
      BY <3>1, <3>2
  <2>3. q \in Q /\ Ordered(ring, partial, q, given, peer)
    BY <1>4, <1>5
  <2> DEFINE b == f.batch
             r == [queue |-> Append(q.queue, b), offset |-> q.offset, gap |-> q.gap]
             n == Len(q.queue)
  <2>4. /\ b \in Nat /\ n \in Nat /\ r \in Q /\ Len(r.queue) = n + 1 /\ r.offset = q.offset /\ r.gap = q.gap
        /\ r.queue[n + 1] = b /\ \A k \in 1 .. n : r.queue[k] = q.queue[k]
    <3>1. b \in Nat /\ q.queue \in Seq(Nat)
      BY <1>1, <2>3 DEF Carried
    <3> QED
      BY <2>3, <3>1, Grows, LenProperties
  <2>5. given.batch < b /\ \A k \in 1 .. n : q.queue[k] < b
    BY <2>1, <2>3 DEF Ordered, PartFollows
  <2>6. Whole(b, peer)
    <3>1. ~Before(peer, f)
      BY <1>1, <1>15, <2>1, <2>3 DEF Ordered, RingFollows
    <3> QED
      BY <1>1, <1>15, <2>1, <3>1 DEF Before, Whole, Carried
  <2>7. \A i \in 1 .. Len(Tail(ring)) : Tail(ring)[i].batch > 0 => b < Tail(ring)[i].batch
    <3>1. ASSUME NEW i \in 1 .. Len(Tail(ring)), Tail(ring)[i].batch > 0 PROVE b < Tail(ring)[i].batch
      <4>1. Before(f, ring[i + 1])
        BY <1>1, <1>15, <1>8, <2>1, <3>1 DEF Ordered, RingOrdered
      <4>2. ring[i + 1] \in Carried /\ Tail(ring)[i] = ring[i + 1]
        BY <1>1, <1>8
      <4> QED
        BY <1>1, <2>1, <4>1, <4>2 DEF Before, Carried
    <3> QED
      BY <3>1
  <2>8. Ordered(Tail(ring), none, r, given, peer)
    <3>1. Ordered(Tail(ring), none, q, given, peer)
      BY <1>3, <2>3, DropKeepsOrder
    <3>2. \A k \in 1 .. n + 1 : k \in 1 .. n \/ k = n + 1
      BY <2>4, UpToTheNext
    <3>3. none.batch = 0
      BY <1>2
    <3> HIDE DEF r, b
    <3>4. RingFollows(Tail(ring), none, r, given, peer)
      BY <2>4, <2>7, <3>1, <3>2 DEF Ordered, RingFollows
    <3>5. PartFollows(none, r, given, peer)
      BY <3>1, <3>3 DEF Ordered, PartFollows
    <3>6. ReadyFollows(r, given, peer)
      <4>1. ReadyFollows(q, given, peer)
        BY <3>1 DEF Ordered
      <4>2. \A k \in 1 .. n + 1 : Whole(r.queue[k], peer)
        BY <2>4, <2>6, <3>2, <4>1 DEF ReadyFollows
      <4>3. ASSUME NEW k \in 1 .. n + 1, NEW l \in 1 .. n + 1, k < l PROVE r.queue[k] < r.queue[l]
        <5>1. k \in 1 .. n
          BY <2>4, <4>3
        <5> QED
          BY <2>4, <2>5, <3>2, <4>1, <4>3, <5>1 DEF ReadyFollows
      <4>4. r.offset = 0 => \A k \in 1 .. n + 1 : given.batch < r.queue[k]
        <5>1. r.offset = 0 => \A k \in 1 .. n : given.batch < r.queue[k]
          BY <2>4, <4>1 DEF ReadyFollows
        <5> QED
          BY <2>4, <2>5, <3>2, <5>1
      <4> QED
        BY <2>4, <4>1, <4>2, <4>3, <4>4 DEF ReadyFollows
    <3>7. ReaderStands(r, given)
      <4>1. ReaderStands(q, given)
        BY <3>1 DEF Ordered
      <4>2. q.queue # <<>> => 1 \in 1 .. n
        BY <2>3, <2>4
      <4>3. r.queue # <<>>
        BY <2>4
      <4> QED
        BY <2>4, <4>1, <4>2, <4>3 DEF ReaderStands
    <3> QED
      BY <3>1, <3>4, <3>5, <3>6, <3>7 DEF Ordered
  <2>9. Good(none, r)
    <3>1. q.offset \in {0, ready.offset}
      BY <1>4, <2>2
    <3> QED
      BY <1>2, <2>2, <2>4, <2>8, <3>1
  <2> QED
    <3>1. c = [partial |-> none, ready |-> CanLink!Push(ready, f.batch)]
      BY <1>14 DEF CanLink!Consumed
    <3>2. CanLink!Push(ready, f.batch) = r
      BY <2>2, <2>3
    <3>3. c.partial = none /\ c.ready = r
      BY <3>1, <3>2
    <3> QED
      BY <2>9, <3>3
<1> QED
  BY <1>1, <1>10, <1>11, <1>12, <1>13, <1>14

(* The steps of the transport, one by one.                                 *)
LEMMA LinkReads == LinkInv /\ CanLink!Read => LinkInv'
<1> SUFFICES ASSUME LinkInv, CanLink!Read PROVE LinkInv'
  OBVIOUS
<1> USE LinkAssumption
<1>0. LinkFits /\ CanLink!TypeOK /\ LinkSends /\ Ordered(v1.queue, v2, v3, v4, v10)
  BY DEF LinkInv
<1>1. UNCHANGED <<v1, v2, v5, v6, v7, v8, v9, v10, v11, v12>>
  BY DEF CanLink!Read, CanLink!txVars
<1>2. LinkSends'
  BY <1>0, <1>1 DEF LinkSends, CanLink!FrameIsRetired, CanLink!None
<1>3. CASE v3.gap
  <2>1. v3' = [v3 EXCEPT !.gap = FALSE] /\ v4' = [v4 EXCEPT !.told = TRUE]
    BY <1>3 DEF CanLink!Read
  <2>2. /\ v3' \in [queue : Seq(Nat), offset : Nat, gap : BOOLEAN] /\ v3'.queue = v3.queue /\ v3'.offset = v3.offset
        /\ v4' \in [batch : Nat, piece : 1 .. Pieces, told : BOOLEAN] /\ v4'.batch = v4.batch /\ v4'.told
    BY <1>0, <2>1 DEF LinkFits
  <2>3. Ordered(v1.queue, v2, v3, v4, v10)'
    BY <1>0, <1>1, <1>3, <2>2
       DEF Ordered, RingFollows, PartFollows, ReadyFollows, ReaderStands
  <2> QED
    BY <1>0, <1>1, <1>2, <2>2, <2>3 DEF LinkInv, LinkFits, CanLink!TypeOK
<1>4. CASE ~v3.gap
  <2>1. /\ v3.queue # <<>> /\ v4' = [batch |-> Head(v3.queue), piece |-> v3.offset + 1, told |-> FALSE]
        /\ v3' = IF v3.offset + 1 = Pieces THEN [v3 EXCEPT !.queue = Tail(@), !.offset = 0]
                                           ELSE [v3 EXCEPT !.offset = @ + 1]
    BY <1>4 DEF CanLink!Read
  <2> DEFINE q == v3.queue
             b == Head(v3.queue)
  <2>2. /\ q \in Seq(Nat) /\ Len(q) \in Nat \ {0} /\ b = q[1] /\ b \in Nat /\ Tail(q) \in Seq(Nat)
        /\ Len(Tail(q)) = Len(q) - 1 /\ \A i \in 1 .. Len(Tail(q)) : Tail(q)[i] = q[i + 1]
    <3>1. q \in Seq(Nat) /\ q # <<>>
      BY <1>0, <2>1 DEF LinkFits
    <3> QED
      BY <3>1, Loses
  <2>3. v3.offset \in Nat /\ v3.offset < Pieces /\ v3.offset + 1 \in 1 .. Pieces /\ ~v3'.gap
    BY <1>0, <1>4, <2>1 DEF LinkFits, CanLink!TypeOK
  <2>4. /\ v4' \in [batch : Nat, piece : 1 .. Pieces, told : BOOLEAN]
        /\ v4'.batch = b /\ v4'.piece = v3.offset + 1 /\ ~v4'.told
    BY <2>1, <2>2, <2>3
  <2>5. 1 \in 1 .. Len(q)
    BY <2>2
  <2>6. /\ Whole(b, v10)
        /\ v2.batch > 0 => b < v2.batch
        /\ \A i \in 1 .. Len(v1.queue) : v1.queue[i].batch > 0 => b < v1.queue[i].batch
        /\ \A k \in 1 .. Len(q) : k > 1 => b < q[k]
    BY <1>0, <2>2, <2>5 DEF Ordered, RingFollows, PartFollows, ReadyFollows
  <2>7. CASE v3.offset + 1 = Pieces
    <3>1. /\ v3' \in [queue : Seq(Nat), offset : Nat, gap : BOOLEAN]
          /\ v3'.queue = Tail(q) /\ v3'.offset = 0 /\ Len(v3'.queue) <= 2
      <4>1. v3' = [queue |-> Tail(q), offset |-> 0, gap |-> v3.gap] /\ v3.gap \in BOOLEAN
        BY <1>0, <2>1, <2>7 DEF LinkFits
      <4>2. Len(q) <= 2
        BY <1>0 DEF CanLink!TypeOK, CanLink!Queued
      <4> QED
        BY <2>2, <4>1, <4>2
    <3>2. \A k \in 1 .. Len(Tail(q)) : k + 1 \in 1 .. Len(q) /\ k + 1 > 1
      BY <2>2
    <3>3. RingFollows(v1.queue, v2, v3, v4, v10)'
      <4>1. ASSUME NEW i \in 1 .. Len(v1.queue), v1.queue[i].batch > 0
            PROVE  /\ ~Before(v10, v1.queue[i]) /\ Before(v2, v1.queue[i])
                   /\ \A k \in 1 .. Len(q) : q[k] < v1.queue[i].batch
        BY <1>0, <4>1 DEF Ordered, RingFollows
      <4>2. ASSUME NEW i \in 1 .. Len(v1.queue), v1.queue[i].batch > 0
            PROVE  b < v1.queue[i].batch /\ \A k \in 1 .. Len(Tail(q)) : Tail(q)[k] < v1.queue[i].batch
        BY <2>2, <2>6, <3>2, <4>1, <4>2
      <4> HIDE DEF q, b
      <4> QED
        BY <1>1, <2>4, <3>1, <4>1, <4>2 DEF RingFollows
    <3>4. PartFollows(v2, v3, v4, v10)'
      BY <1>0, <1>1, <2>2, <2>4, <2>6, <3>1, <3>2 DEF Ordered, PartFollows
    <3>5. ReadyFollows(v3, v4, v10)'
      <4>1. \A k, l \in 1 .. Len(Tail(q)) : k < l => k + 1 < l + 1
        BY <2>2
      <4>2. ReadyFollows(v3, v4, v10)
        BY <1>0 DEF Ordered
      <4>3. \A k \in 1 .. Len(Tail(q)) : Whole(Tail(q)[k], v10) /\ b < Tail(q)[k]
        BY <2>2, <2>6, <3>2, <4>2 DEF ReadyFollows
      <4>4. \A k, l \in 1 .. Len(Tail(q)) : k < l => Tail(q)[k] < Tail(q)[l]
        BY <2>2, <3>2, <4>1, <4>2 DEF ReadyFollows
      <4> QED
        BY <1>1, <2>4, <2>6, <3>1, <4>3, <4>4 DEF ReadyFollows
    <3>6. ReaderStands(v3, v4)'
      BY <2>4, <2>7, <3>1 DEF ReaderStands
    <3>7. Ordered(v1.queue, v2, v3, v4, v10)'
      BY <1>0, <1>1, <3>3, <3>4, <3>5, <3>6 DEF Ordered
    <3> QED
      BY <1>0, <1>1, <1>2, <2>4, <3>1, <3>7 DEF LinkInv, LinkFits, CanLink!TypeOK, CanLink!Queued
  <2>8. CASE v3.offset + 1 # Pieces
    <3>1. /\ v3' \in [queue : Seq(Nat), offset : Nat, gap : BOOLEAN]
          /\ v3'.queue = q /\ v3'.offset = v3.offset + 1 /\ v3'.offset < Pieces
      <4>1. v3' = [queue |-> q, offset |-> v3.offset + 1, gap |-> v3.gap] /\ v3.gap \in BOOLEAN
        BY <1>0, <2>1, <2>8 DEF LinkFits
      <4>2. v3.offset + 1 \in Nat /\ v3.offset + 1 < Pieces
        BY <2>3, <2>8
      <4> QED
        BY <2>2, <4>1, <4>2
    <3>3. RingFollows(v1.queue, v2, v3, v4, v10)'
      BY <1>0, <1>1, <2>4, <2>6, <3>1 DEF Ordered, RingFollows
    <3>4. PartFollows(v2, v3, v4, v10)'
      BY <1>0, <1>1, <2>4, <2>6, <3>1 DEF Ordered, PartFollows
    <3>5. ReadyFollows(v3, v4, v10)'
      <4>1. ReadyFollows(v3, v4, v10)
        BY <1>0 DEF Ordered
      <4>2. v3'.offset # 0
        BY <2>3, <3>1
      <4> QED
        BY <1>1, <2>4, <2>6, <3>1, <4>1, <4>2 DEF ReadyFollows
    <3>6. ReaderStands(v3, v4)'
      BY <2>1, <2>2, <2>3, <2>4, <3>1 DEF ReaderStands
    <3>7. Ordered(v1.queue, v2, v3, v4, v10)'
      BY <1>0, <1>1, <3>3, <3>4, <3>5, <3>6 DEF Ordered
    <3> QED
      BY <1>0, <1>1, <1>2, <2>1, <2>4, <3>1, <3>7 DEF LinkInv, LinkFits, CanLink!TypeOK
  <2> QED
    BY <2>7, <2>8
<1> QED
  BY <1>3, <1>4

LEMMA BeforeGoesOn ==
  ASSUME NEW e \in Carried, NEW f \in Carried, NEW g \in Carried, Before(e, g), ~Before(e, f)
  PROVE  Before(f, g)
<1>1. /\ e.batch \in Nat /\ f.batch \in Nat /\ g.batch \in Nat
      /\ e.place \in Nat /\ f.place \in Nat /\ g.place \in Nat
  BY LinkAssumption DEF Carried
<1> QED
  BY <1>1 DEF Before

(* What the peer sends next, and what it sent that is heard, comes behind. *)
LEMMA PeerKeepsOrder ==
  ASSUME NEW ring \in Seq(Carried), NEW partial \in Carried,
         NEW ready \in [queue : Seq(Nat), offset : Nat, gap : BOOLEAN],
         NEW given \in [batch : Nat, piece : 1 .. Pieces, told : BOOLEAN],
         NEW peer \in Carried, NEW f \in Carried,
         Ordered(ring, partial, ready, given, peer), f = peer \/ Before(peer, f)
  PROVE  Ordered(ring, partial, ready, given, f)
<1> USE LinkAssumption
<1>1. ASSUME NEW g \in Carried, ~Before(peer, g) PROVE ~Before(f, g)
  BY <1>1 DEF Before, Carried
<1>2. ASSUME NEW b \in Nat, Whole(b, peer) PROVE Whole(b, f)
  BY <1>2 DEF Before, Whole, Carried
<1>3. \A i \in 1 .. Len(ring) : ring[i] \in Carried
  OBVIOUS
<1>4. \A k \in 1 .. Len(ready.queue) : ready.queue[k] \in Nat
  OBVIOUS
<1>5. RingFollows(ring, partial, ready, given, f)
  BY <1>1, <1>3 DEF Ordered, RingFollows
<1>6. PartFollows(partial, ready, given, f)
  BY <1>1 DEF Ordered, PartFollows
<1>7. ReadyFollows(ready, given, f)
  BY <1>2, <1>4 DEF Ordered, ReadyFollows
<1> QED
  BY <1>5, <1>6, <1>7 DEF Ordered

LEMMA HeardKeepsOrder ==
  ASSUME NEW ring \in Seq(Carried), NEW partial \in Carried,
         NEW ready \in [queue : Seq(Nat), offset : Nat, gap : BOOLEAN],
         NEW given \in [batch : Nat, piece : 1 .. Pieces, told : BOOLEAN],
         NEW peer \in Carried, NEW f \in Carried,
         Ordered(ring, partial, ready, given, peer), f.batch > 0 => Before(peer, f)
  PROVE  Ordered(Append(ring, f), partial, ready, given, IF f.batch > 0 THEN f ELSE peer)
<1> DEFINE next == IF f.batch > 0 THEN f ELSE peer
           n == Len(ring)
           longer == Append(ring, f)
<1> USE LinkAssumption
<1>1. Ordered(ring, partial, ready, given, next)
  BY PeerKeepsOrder
<1>2. /\ n \in Nat /\ Len(longer) = n + 1 /\ longer[n + 1] = f
      /\ \A i \in 1 .. n : longer[i] = ring[i] /\ ring[i] \in Carried
      /\ \A i \in 1 .. n + 1 : i \in 1 .. n \/ i = n + 1
  BY Grows, LenProperties, ElementOfSeq
<1>3. \A k \in 1 .. Len(ready.queue) : ready.queue[k] \in Nat
  OBVIOUS
<1>4. ASSUME f.batch > 0
      PROVE  /\ Before(partial, f) /\ given.batch < f.batch
             /\ \A k \in 1 .. Len(ready.queue) : ready.queue[k] < f.batch
             /\ \A i \in 1 .. n : ring[i].batch > 0 => Before(ring[i], f)
  <2>1. Before(partial, f)
    BY <1>4 DEF Ordered, PartFollows, Before, Carried
  <2>2. \A b \in Nat : Whole(b, peer) => b < f.batch
    BY <1>4 DEF Whole, Before, Carried
  <2>3. given.batch < f.batch /\ \A k \in 1 .. Len(ready.queue) : ready.queue[k] < f.batch
    BY <1>3, <2>2 DEF Ordered, ReadyFollows
  <2>4. \A i \in 1 .. n : ring[i].batch > 0 => ~Before(peer, ring[i])
    BY DEF Ordered, RingFollows
  <2>5. \A i \in 1 .. n : ring[i].batch > 0 => Before(ring[i], f)
    <3> SUFFICES ASSUME NEW i \in 1 .. n, ring[i].batch > 0 PROVE Before(ring[i], f)
      OBVIOUS
    <3>1. ring[i] \in Carried /\ ~Before(peer, ring[i])
      BY <1>2, <2>4
    <3> QED
      BY <1>4, <3>1, BeforeGoesOn
  <2> QED
    BY <2>1, <2>3, <2>5
<1>5. RingOrdered(longer)
  <2> SUFFICES ASSUME NEW i \in 1 .. n + 1, NEW j \in 1 .. n + 1, i < j,
                      longer[i].batch > 0, longer[j].batch > 0
               PROVE  Before(longer[i], longer[j])
    BY <1>2 DEF RingOrdered
  <2>1. i \in 1 .. n
    BY <1>2
  <2>2. CASE j \in 1 .. n
    BY <1>1, <1>2, <2>1, <2>2 DEF Ordered, RingOrdered
  <2>3. CASE j = n + 1
    BY <1>2, <1>4, <2>1, <2>3
  <2> QED
    BY <1>2, <2>2, <2>3
<1>6. RingFollows(longer, partial, ready, given, next)
  <2> SUFFICES ASSUME NEW i \in 1 .. n + 1, longer[i].batch > 0
               PROVE  /\ ~Before(next, longer[i]) /\ Before(partial, longer[i]) /\ given.batch < longer[i].batch
                      /\ \A k \in 1 .. Len(ready.queue) : ready.queue[k] < longer[i].batch
    BY <1>2 DEF RingFollows
  <2>1. CASE i \in 1 .. n
    BY <1>1, <1>2, <2>1 DEF Ordered, RingFollows
  <2>2. CASE i = n + 1
    <3>1. ~Before(f, f)
      <4>1. f.batch \in Nat /\ f.place \in 1 .. Fragments
        BY DEF Carried
      <4> QED
        BY <4>1 DEF Before
    <3> QED
      BY <1>2, <1>4, <2>2, <3>1
  <2> QED
    BY <1>2, <2>1, <2>2
<1> QED
  BY <1>1, <1>5, <1>6 DEF Ordered

LEMMA EmptyKeepsOrder ==
  ASSUME NEW ring \in Seq(Carried), NEW partial, NEW ready, NEW given, NEW peer,
         Ordered(ring, partial, ready, given, peer)
  PROVE  Ordered(<<>>, partial, ready, given, peer)
<1>1. \A i \in 1 .. Len(<<>>) : FALSE
  OBVIOUS
<1> QED
  BY <1>1 DEF Ordered, RingOrdered, RingFollows

(* The ring takes a frame, or is dropped as a whole for it.                *)
LEMMA ReceivedKeepsOrder ==
  ASSUME LinkInv, NEW f \in Carried, f.batch > 0 => Before(v10, f)
  PROVE  LET ring == CanLink!Received(f)
         IN  /\ ring \in [queue : Seq(Carried), gap : BOOLEAN] /\ Len(ring.queue) <= RawDepth
             /\ Ordered(ring.queue, v2, v3, v4, IF f.batch > 0 THEN f ELSE v10)
<1> DEFINE ring == CanLink!Received(f)
           next == IF f.batch > 0 THEN f ELSE v10
<1> USE LinkAssumption
<1>0. /\ v1 \in [queue : Seq(Carried), gap : BOOLEAN] /\ v2 \in Carried /\ v10 \in Carried
      /\ v3 \in [queue : Seq(Nat), offset : Nat, gap : BOOLEAN]
      /\ v4 \in [batch : Nat, piece : 1 .. Pieces, told : BOOLEAN]
      /\ v1.queue \in Seq(Carried) /\ Len(v1.queue) \in Nat /\ Len(v1.queue) <= RawDepth
      /\ Ordered(v1.queue, v2, v3, v4, v10)
  BY DEF LinkInv, LinkFits, CanLink!TypeOK
<1>1. CASE v5 # "Running"
  <2>1. ring = v1
    BY <1>1 DEF CanLink!Received
  <2>2. Ordered(v1.queue, v2, v3, v4, next)
    BY <1>0, PeerKeepsOrder
  <2> QED
    BY <1>0, <2>1, <2>2
<1>2. CASE v5 = "Running" /\ Len(v1.queue) = RawDepth
  <2>1. ring = [queue |-> <<f>>, gap |-> TRUE]
    BY <1>2 DEF CanLink!Received
  <2>2. <<f>> = Append(<<>>, f) /\ <<>> \in Seq(Carried) /\ <<f>> \in Seq(Carried) /\ Len(<<f>>) = 1
    OBVIOUS
  <2>3. Ordered(<<f>>, v2, v3, v4, next)
    <3>1. Ordered(<<>>, v2, v3, v4, v10)
      BY <1>0, EmptyKeepsOrder
    <3>2. Ordered(Append(<<>>, f), v2, v3, v4, next)
      BY <1>0, <2>2, <3>1, HeardKeepsOrder
    <3> QED
      BY <2>2, <3>2
  <2> QED
    BY <2>1, <2>2, <2>3
<1>3. CASE v5 = "Running" /\ Len(v1.queue) # RawDepth
  <2>1. ring = [queue |-> Append(v1.queue, f), gap |-> v1.gap]
    BY <1>0, <1>3 DEF CanLink!Received
  <2>2. Ordered(Append(v1.queue, f), v2, v3, v4, next)
    BY <1>0, HeardKeepsOrder
  <2>3. Append(v1.queue, f) \in Seq(Carried) /\ Len(Append(v1.queue, f)) = Len(v1.queue) + 1
    BY <1>0
  <2>4. Len(v1.queue) + 1 <= RawDepth /\ v1.gap \in BOOLEAN
    BY <1>0, <1>3
  <2> QED
    BY <2>1, <2>2, <2>3, <2>4
<1> QED
  BY <1>1, <1>2, <1>3

LEMMA FollowingIsLater ==
  ASSUME NEW f \in Carried, NEW g \in CanLink!Following(f)
  PROVE  g \in Carried /\ g.batch > 0 /\ Before(f, g)
<1> USE LinkAssumption
<1>1. /\ g \in [batch : {f.batch, f.batch + 1}, place : 1 .. Fragments]
      /\ IF g.batch = f.batch THEN g.place = f.place + 1 ELSE g.place = 1
  BY DEF CanLink!Following
<1>2. f.batch \in Nat /\ f.place \in 1 .. Fragments /\ (f.batch = 0 => f.place = Fragments)
  BY DEF Carried
<1>3. /\ g.batch \in Nat /\ g.place \in 1 .. Fragments /\ g.batch > 0
      /\ g.batch = f.batch \/ g.batch = f.batch + 1
  BY <1>1, <1>2
<1>4. g \in [batch : Nat, place : 1 .. Fragments]
  BY <1>1, <1>2
<1> QED
  BY <1>1, <1>2, <1>3, <1>4 DEF Carried, Before

LEMMA LinkHears == LinkInv /\ (CanLink!OnRx \/ CanLink!OnForeign) => LinkInv'
<1> SUFFICES ASSUME LinkInv, CanLink!OnRx \/ CanLink!OnForeign PROVE LinkInv'
  OBVIOUS
<1> USE LinkAssumption
<1>0. LinkFits /\ CanLink!TypeOK /\ LinkSends /\ Ordered(v1.queue, v2, v3, v4, v10)
  BY DEF LinkInv
<1>1. UNCHANGED <<v2, v3, v4, v5, v6, v7, v8, v9, v11>> /\ v12' \in Nat
  BY <1>0 DEF CanLink!OnRx, CanLink!OnForeign, CanLink!txVars, CanLink!Fault, LinkFits
<1>2. /\ v1' \in [queue : Seq(Carried), gap : BOOLEAN] /\ Len(v1'.queue) <= RawDepth
      /\ v10' \in Carried /\ Ordered(v1'.queue, v2, v3, v4, v10')
  <2>1. CASE CanLink!OnForeign
    <3>1. CanLink!None \in Carried /\ ~(CanLink!None.batch > 0)
      BY DEF CanLink!None, Carried
    <3>2. v1' = CanLink!Received(CanLink!None) /\ v10' = v10
      BY <2>1 DEF CanLink!OnForeign
    <3> QED
      BY <1>0, <3>1, <3>2, ReceivedKeepsOrder DEF LinkFits
  <2>2. CASE CanLink!OnRx
    <3>1. PICK f \in CanLink!Following(v10), heard \in {v9.up, FALSE} :
            v10' = f /\ v1' = IF heard THEN CanLink!Received(f) ELSE v1
      BY <2>2 DEF CanLink!OnRx
    <3>2. f \in Carried /\ f.batch > 0 /\ Before(v10, f)
      BY <1>0, <3>1, FollowingIsLater DEF LinkFits
    <3>3. CASE heard
      BY <3>1, <3>2, <3>3, ReceivedKeepsOrder
    <3>4. CASE ~heard
      <4>1. Ordered(v1.queue, v2, v3, v4, f)
        BY <1>0, <3>2, PeerKeepsOrder DEF LinkFits
      <4> QED
        BY <1>0, <3>1, <3>2, <3>4, <4>1 DEF LinkFits, CanLink!TypeOK
    <3> QED
      BY <3>3, <3>4
  <2> QED
    BY <2>1, <2>2
<1>3. LinkFits'
  BY <1>0, <1>1, <1>2 DEF LinkFits
<1>4. CanLink!TypeOK'
  BY <1>0, <1>1, <1>2 DEF CanLink!TypeOK, CanLink!None
<1>5. LinkSends'
  BY <1>0, <1>1 DEF LinkSends, CanLink!FrameIsRetired, CanLink!None
<1> QED
  BY <1>1, <1>2, <1>3, <1>4, <1>5 DEF LinkInv

(* A step that leaves what is received, and what it is made of.            *)
LEMMA LinkKeepsRx ==
  ASSUME LinkInv, UNCHANGED <<v1, v2, v3, v4, v10>>, v12' \in Nat,
         v5' \in {"Running", "Failed", "Stopped"}, v8' \in {"Out", "Receive"},
         v8' = "Receive" => v5' = "Running",
         v6' \in [batch : Nat, left : 0 .. Fragments, in_flight : BOOLEAN],
         v7' \in {"No", "Sent", "Failed"}, v9' \in [up : BOOLEAN, frame : Carried], v11' \in Carried,
         LinkSends'
  PROVE  LinkInv'
<1> USE LinkAssumption
<1>0. LinkFits /\ CanLink!TypeOK /\ Ordered(v1.queue, v2, v3, v4, v10)
  BY DEF LinkInv
<1>1. LinkFits'
  BY <1>0 DEF LinkFits
<1>2. CanLink!TypeOK'
  BY <1>0 DEF CanLink!TypeOK, CanLink!None
<1> QED
  BY <1>0, <1>1, <1>2 DEF LinkInv

LEMMA LinkResetsRx ==
  ASSUME LinkInv, CanLink!ResetRx, UNCHANGED <<v4, v10>>, v12' \in Nat,
         v5' \in {"Running", "Failed", "Stopped"}, v8' = "Out",
         v6' \in [batch : Nat, left : 0 .. Fragments, in_flight : BOOLEAN],
         v7' \in {"No", "Sent", "Failed"}, v9' \in [up : BOOLEAN, frame : Carried], v11' \in Carried,
         LinkSends'
  PROVE  LinkInv'
<1> USE LinkAssumption
<1>0. LinkFits /\ CanLink!TypeOK /\ Ordered(v1.queue, v2, v3, v4, v10)
  BY DEF LinkInv
<1>1. v1' = [queue |-> <<>>, gap |-> FALSE] /\ v2' = CanLink!None /\ v3' = CanLink!Gapped(v3)
  BY DEF CanLink!ResetRx
<1>2. /\ v1' \in [queue : Seq(Carried), gap : BOOLEAN] /\ Len(v1'.queue) = 0 /\ v2' \in Carried
      /\ v3' \in [queue : Seq(Nat), offset : Nat, gap : BOOLEAN] /\ Len(v3'.queue) = 0 /\ v3'.offset = 0
  BY <1>1 DEF CanLink!Gapped, CanLink!None, Carried
<1>3. Ordered(<<>>, CanLink!None, CanLink!Gapped(v3), v4, v10)
  BY <1>0, DropKeepsOrder, GapKeepsOrder, EmptyKeepsOrder DEF LinkFits
<1>4. Ordered(v1.queue, v2, v3, v4, v10)'
  BY <1>1, <1>3
<1>5. LinkFits'
  BY <1>0, <1>2 DEF LinkFits
<1>6. CanLink!TypeOK'
  BY <1>0, <1>1, <1>2 DEF CanLink!TypeOK, CanLink!None, CanLink!Queued
<1> QED
  BY <1>4, <1>5, <1>6 DEF LinkInv

LEMMA LinkConsumes == LinkInv /\ (\E late \in BOOLEAN : CanLink!Consume(late)) => LinkInv'
<1> SUFFICES ASSUME LinkInv, NEW late \in BOOLEAN, CanLink!Consume(late) PROVE LinkInv'
  OBVIOUS
<1> USE LinkAssumption
<1>0. LinkFits /\ CanLink!TypeOK /\ LinkSends /\ Ordered(v1.queue, v2, v3, v4, v10)
  BY DEF LinkInv
<1> DEFINE p == IF v1.gap THEN CanLink!None ELSE v2
           q == IF v1.gap THEN CanLink!Gapped(v3) ELSE v3
           c == CanLink!Consumed(p, q, Head(v1.queue), late)
<1>1. /\ UNCHANGED <<v4, v5, v6, v7, v8, v9, v10, v11, v12>> /\ v1.queue # <<>>
      /\ v1' = [queue |-> Tail(v1.queue), gap |-> FALSE]
      /\ v2' = c.partial /\ v3' = c.ready
  BY DEF CanLink!Consume, CanLink!txVars
<1>2. /\ p \in Carried /\ (p = CanLink!None \/ p.place < Fragments)
      /\ q \in [queue : Seq(Nat), offset : Nat, gap : BOOLEAN] /\ Len(q.queue) <= 2
  <2>1. CanLink!None \in Carried
    BY DEF CanLink!None, Carried
  <2>2. CanLink!Gapped(v3) \in [queue : Seq(Nat), offset : Nat, gap : BOOLEAN] /\ Len(CanLink!Gapped(v3).queue) = 0
    BY DEF CanLink!Gapped
  <2> QED
    BY <1>0, <2>1, <2>2 DEF LinkFits, CanLink!TypeOK, CanLink!Queued
<1>3. Ordered(v1.queue, p, q, v4, v10)
  BY <1>0, DropKeepsOrder, GapKeepsOrder DEF LinkFits
<1>4. /\ Ordered(Tail(v1.queue), c.partial, c.ready, v4, v10)
      /\ c.partial \in Carried /\ (c.partial = CanLink!None \/ c.partial.place < Fragments)
      /\ c.ready \in [queue : Seq(Nat), offset : Nat, gap : BOOLEAN] /\ Len(c.ready.queue) <= 2
      /\ c.ready.offset \in {0, q.offset}
  <2>1. /\ v1.queue \in Seq(Carried) /\ v1.queue # <<>> /\ v10 \in Carried
        /\ v4 \in [batch : Nat, piece : 1 .. Pieces, told : BOOLEAN]
    BY <1>0, <1>1 DEF LinkFits
  <2> DEFINE raw == v1.queue
             d == CanLink!Consumed(p, q, Head(raw), late)
  <2>2. /\ raw \in Seq(Carried) /\ raw # <<>> /\ Ordered(raw, p, q, v4, v10)
    BY <1>3, <2>1
  <2> HIDE DEF p, q, raw
  <2>3. /\ Ordered(Tail(raw), d.partial, d.ready, v4, v10)
        /\ d.partial \in Carried /\ (d.partial = CanLink!None \/ d.partial.place < Fragments)
        /\ d.ready \in [queue : Seq(Nat), offset : Nat, gap : BOOLEAN] /\ Len(d.ready.queue) <= 2
        /\ d.ready.offset \in {0, q.offset}
    BY <1>2, <2>1, <2>2, ConsumedKeepsOrder
  <2> HIDE DEF d
  <2> QED
    BY <2>3 DEF d, raw
<1> HIDE DEF c
<1>5. v1' \in [queue : Seq(Carried), gap : BOOLEAN] /\ Len(v1'.queue) <= RawDepth /\ v1'.queue = Tail(v1.queue)
  BY <1>0, <1>1, Loses DEF LinkFits, CanLink!TypeOK
<1>6. LinkFits'
  BY <1>0, <1>1, <1>4, <1>5 DEF LinkFits
<1>7. c.ready.queue = <<>> => c.ready.offset = 0
  BY <1>4 DEF Ordered, ReaderStands
<1>8. c.ready.offset < Pieces
  <2>1. q.offset \in {0, v3.offset}
    BY DEF CanLink!Gapped
  <2> QED
    BY <1>0, <1>4, <2>1 DEF CanLink!TypeOK
<1> HIDE DEF p, q
<1>9. CanLink!TypeOK'
  BY <1>0, <1>1, <1>4, <1>5, <1>7, <1>8 DEF CanLink!TypeOK, CanLink!None, CanLink!Queued
<1>10. LinkSends'
  BY <1>0, <1>1 DEF LinkSends, CanLink!FrameIsRetired, CanLink!None
<1>11. Ordered(v1.queue, v2, v3, v4, v10)'
  BY <1>1, <1>4, <1>5
<1> QED
  BY <1>6, <1>9, <1>10, <1>11 DEF LinkInv

(* The fields of what is sent, and what its updates are.                   *)
LEMMA TxIs ==
  ASSUME LinkFits
  PROVE  /\ v6.batch \in Nat /\ v6.left \in 0 .. Fragments /\ v6.in_flight \in BOOLEAN
         /\ v6 = [batch |-> v6.batch, left |-> v6.left, in_flight |-> v6.in_flight]
         /\ v9.up \in BOOLEAN /\ v9.frame \in Carried /\ v9 = [up |-> v9.up, frame |-> v9.frame]
         /\ v12 \in Nat
BY DEF LinkFits

LEMMA LinkServes ==
  LinkInv /\ (CanLink!Send \/ CanLink!StopController \/ CanLink!OnTx \/ CanLink!BusOff) => LinkInv'
<1> SUFFICES ASSUME LinkInv, CanLink!Send \/ CanLink!StopController \/ CanLink!OnTx \/ CanLink!BusOff
             PROVE  LinkInv'
  OBVIOUS
<1> USE LinkAssumption DEF CanLink!rxVars, CanLink!txVars, CanLink!Fault
<1>0. LinkFits /\ CanLink!TypeOK /\ LinkSends
  BY DEF LinkInv
<1>1. CanLink!None \in Carried
  BY DEF CanLink!None, Carried
<1>2. CASE CanLink!Send
  <2>1. /\ UNCHANGED <<v1, v2, v3, v4, v5, v7, v8, v9, v10, v11, v12>> /\ v5 = "Running"
        /\ v6.left = 0 /\ ~v6.in_flight /\ v6' = [v6 EXCEPT !.batch = @ + 1, !.left = Fragments]
    BY <1>2 DEF CanLink!Send
  <2>2. /\ v6' \in [batch : Nat, left : 0 .. Fragments, in_flight : BOOLEAN]
        /\ v6'.batch = v6.batch + 1 /\ v6'.left = Fragments /\ ~v6'.in_flight /\ v6.batch \in Nat
    <3>1. v6' = [batch |-> v6.batch + 1, left |-> Fragments, in_flight |-> FALSE]
      BY <1>0, <2>1, TxIs
    <3> QED
      BY <1>0, <3>1, TxIs
  <2>3. LinkSends'
    <3>1. CanLink!FrameIsRetired'
      BY <1>0, <2>1, <2>2 DEF LinkSends, CanLink!FrameIsRetired, CanLink!None
    <3>2. v11.batch \in Nat /\ v11.batch <= v6.batch
      BY <1>0 DEF LinkSends, LinkFits, Carried
    <3> QED
      BY <2>1, <2>2, <3>1, <3>2 DEF LinkSends
  <2> QED
    BY <1>0, <2>1, <2>2, <2>3, LinkKeepsRx DEF LinkFits, CanLink!TypeOK
<1>3. CASE CanLink!StopController
  <2>1. /\ UNCHANGED <<v1, v2, v3, v4, v6, v7, v8, v10, v11, v12>> /\ v5 = "Failed" /\ v5' = "Stopped"
        /\ v9' = [v9 EXCEPT !.up = FALSE]
    BY <1>3 DEF CanLink!StopController
  <2>2. v9' \in [up : BOOLEAN, frame : Carried] /\ v9'.frame = v9.frame
    <3>1. v9' = [up |-> FALSE, frame |-> v9.frame]
      BY <1>0, <2>1, TxIs
    <3> QED
      BY <1>0, <3>1, TxIs
  <2>3. LinkSends'
    BY <1>0, <2>1, <2>2 DEF LinkSends, CanLink!FrameIsRetired, CanLink!None
  <2> QED
    BY <1>0, <2>1, <2>2, <2>3, LinkKeepsRx DEF LinkFits, CanLink!TypeOK
<1>4. CASE CanLink!BusOff
  <2>1. /\ UNCHANGED <<v1, v2, v3, v4, v5, v6, v7, v8, v10, v11>> /\ v12' = v12 + 1
        /\ v9' = [v9 EXCEPT !.up = FALSE]
    BY <1>4 DEF CanLink!BusOff
  <2>2. v9' \in [up : BOOLEAN, frame : Carried] /\ v9'.frame = v9.frame /\ v12' \in Nat
    <3>1. v9' = [up |-> FALSE, frame |-> v9.frame]
      BY <1>0, <2>1, TxIs
    <3>2. v12' \in Nat
      BY <1>0, <2>1, TxIs
    <3> QED
      BY <1>0, <3>1, <3>2, TxIs
  <2>3. LinkSends'
    BY <1>0, <2>1, <2>2 DEF LinkSends, CanLink!FrameIsRetired, CanLink!None
  <2> QED
    BY <1>0, <2>1, <2>2, <2>3, LinkKeepsRx DEF LinkFits, CanLink!TypeOK
<1>5. CASE CanLink!OnTx
  <2>1. /\ UNCHANGED <<v1, v2, v3, v4, v5, v6, v8, v10, v11>> /\ v12' \in {v12, v12 + 1}
        /\ v9' = [v9 EXCEPT !.frame = CanLink!None] /\ v9.frame # CanLink!None /\ v7' \in {"Sent", "Failed"}
    BY <1>5 DEF CanLink!OnTx
  <2>2. v9' \in [up : BOOLEAN, frame : Carried] /\ v9'.frame = CanLink!None /\ v12' \in Nat
    <3>1. v9' = [up |-> v9.up, frame |-> CanLink!None]
      BY <1>0, <2>1, TxIs
    <3>2. v12' \in Nat
      BY <1>0, <2>1, TxIs
    <3> QED
      BY <1>0, <1>1, <3>1, <3>2, TxIs
  <2>3. LinkSends'
    BY <1>0, <2>1, <2>2 DEF LinkSends, CanLink!FrameIsRetired, CanLink!None
  <2> QED
    BY <1>0, <2>1, <2>2, <2>3, LinkKeepsRx DEF LinkFits, CanLink!TypeOK
<1> QED
  BY <1>2, <1>3, <1>4, <1>5

LEMMA LinkRestarts == LinkInv /\ CanLink!Restart => LinkInv'
<1> SUFFICES ASSUME LinkInv, CanLink!Restart PROVE LinkInv'
  OBVIOUS
<1> USE LinkAssumption
<1>0. LinkFits /\ CanLink!TypeOK /\ LinkSends
  BY DEF LinkInv
<1>1. /\ UNCHANGED <<v4, v8, v10, v11, v12>> /\ v5 = "Stopped" /\ CanLink!Retired
      /\ v6' = [v6 EXCEPT !.in_flight = FALSE] /\ v7' = "No"
  BY DEF CanLink!Restart
<1>2. /\ v6' \in [batch : Nat, left : 0 .. Fragments, in_flight : BOOLEAN]
      /\ v6'.batch = v6.batch /\ v6'.left = v6.left /\ v6'.left = 0 /\ ~v6'.in_flight
  <2>1. v6' = [batch |-> v6.batch, left |-> v6.left, in_flight |-> FALSE]
    BY <1>0, <1>1, TxIs
  <2>2. v6.left = 0
    BY <1>0, <1>1, TxIs DEF LinkSends
  <2> QED
    BY <1>0, <2>1, <2>2, TxIs
<1>3. v9.frame = CanLink!None /\ v8 = "Out"
  BY <1>0, <1>1 DEF LinkSends, CanLink!FrameIsRetired, CanLink!Retired, CanLink!TypeOK
<1>4. CASE CanLink!KeepRx /\ UNCHANGED <<v5, v9>>
  <2>1. LinkSends'
    BY <1>0, <1>1, <1>2, <1>3, <1>4 DEF LinkSends, CanLink!FrameIsRetired, CanLink!None
  <2> QED
    BY <1>0, <1>1, <1>2, <1>3, <1>4, <2>1, LinkKeepsRx DEF LinkFits, CanLink!TypeOK, CanLink!KeepRx
<1>5. CASE CanLink!ResetRx /\ v5' = "Running" /\ v9' = [v9 EXCEPT !.up = TRUE]
  <2>1. v9' \in [up : BOOLEAN, frame : Carried] /\ v9'.frame = v9.frame
    BY <1>0, <1>5 DEF LinkFits
  <2>2. LinkSends'
    BY <1>0, <1>1, <1>2, <1>3, <1>5, <2>1 DEF LinkSends, CanLink!FrameIsRetired, CanLink!None
  <2> QED
    BY <1>0, <1>1, <1>2, <1>3, <1>5, <2>1, <2>2, LinkResetsRx DEF LinkFits
<1> QED
  BY <1>4, <1>5 DEF CanLink!Restart

LEMMA LinkBegins == LinkInv /\ CanLink!BeginService => LinkInv'
<1> SUFFICES ASSUME LinkInv, CanLink!BeginService PROVE LinkInv'
  OBVIOUS
<1> USE LinkAssumption
<1>0. LinkFits /\ CanLink!TypeOK /\ LinkSends
  BY DEF LinkInv
<1> DEFINE done == CanLink!Completed /\ v7 = "Sent"
           sent == IF done THEN [v6 EXCEPT !.left = @ - 1, !.in_flight = FALSE] ELSE v6
<1>1. /\ UNCHANGED <<v4, v9, v10, v11>> /\ v8 = "Out" /\ v5 = "Running"
      /\ v7' = IF CanLink!Completed THEN "No" ELSE v7
      /\ v12' \in Nat
      /\ \/ CanLink!Completed /\ ~done /\ CanLink!Fail(FALSE)
         \/ (done \/ ~CanLink!Completed) /\ CanLink!Fail(sent.in_flight)
         \/ (done \/ ~CanLink!Completed) /\ v6' = sent /\ v8' = "Receive" /\ CanLink!KeepRx /\ v5' = v5
  <2>1. v12 \in Nat /\ v12 + 1 \in Nat
    BY <1>0, TxIs
  <2> QED
    BY <2>1 DEF CanLink!BeginService, CanLink!Fault
<1>2. v7' \in {"No", "Sent", "Failed"}
  BY <1>0, <1>1 DEF CanLink!TypeOK
<1>3. /\ sent \in [batch : Nat, left : 0 .. Fragments, in_flight : BOOLEAN] /\ sent.batch = v6.batch
      /\ sent.left = IF done THEN v6.left - 1 ELSE v6.left
      /\ sent.in_flight = (v6.in_flight /\ ~done)
  <2>1. CASE done
    <3>1. sent = [batch |-> v6.batch, left |-> v6.left - 1, in_flight |-> FALSE]
      BY <1>0, <2>1, TxIs
    <3>2. v6.left > 0 /\ v6.in_flight
      BY <1>0, <1>1, <2>1 DEF LinkSends, CanLink!Completed
    <3>3. v6.left - 1 \in 0 .. Fragments
      BY <1>0, <3>2, TxIs
    <3> QED
      BY <1>0, <2>1, <3>1, <3>3, TxIs
  <2>2. CASE ~done
    BY <1>0, <2>2, TxIs
  <2> QED
    BY <2>1, <2>2
<1>4. v9.frame # CanLink!None <=> v6.in_flight /\ v7 = "No"
  BY <1>0 DEF LinkSends, CanLink!FrameIsRetired
<1>5. ASSUME NEW flying \in BOOLEAN, CanLink!Fail(flying), v9.frame # CanLink!None <=> flying /\ v7' = "No"
      PROVE  LinkInv'
  <2>1. v5' = "Failed" /\ v8' = "Out" /\ v6' = [v6 EXCEPT !.left = 0, !.in_flight = flying] /\ CanLink!ResetRx
    BY <1>5 DEF CanLink!Fail
  <2>2. /\ v6' \in [batch : Nat, left : 0 .. Fragments, in_flight : BOOLEAN]
        /\ v6'.batch = v6.batch /\ v6'.left = 0 /\ v6'.in_flight = flying
    <3>1. v6' = [batch |-> v6.batch, left |-> 0, in_flight |-> flying]
      BY <1>0, <2>1, TxIs
    <3> QED
      BY <1>0, <1>5, <3>1, TxIs
  <2>3. LinkSends'
    BY <1>0, <1>1, <1>5, <2>1, <2>2 DEF LinkSends, CanLink!FrameIsRetired, CanLink!None
  <2> QED
    BY <1>0, <1>1, <1>2, <2>1, <2>2, <2>3, LinkResetsRx DEF LinkFits
<1>6. CASE CanLink!Completed /\ ~done /\ CanLink!Fail(FALSE)
  BY <1>4, <1>5, <1>6 DEF CanLink!Completed
<1>7. CASE (done \/ ~CanLink!Completed) /\ CanLink!Fail(sent.in_flight)
  <2>1. sent.in_flight \in BOOLEAN
    BY <1>3
  <2>2. v9.frame # CanLink!None <=> sent.in_flight /\ v7' = "No"
    BY <1>0, <1>1, <1>3, <1>4, <1>7 DEF CanLink!Completed, CanLink!TypeOK
  <2> QED
    BY <1>5, <1>7, <2>1, <2>2
<1>8. CASE (done \/ ~CanLink!Completed) /\ v6' = sent /\ v8' = "Receive" /\ CanLink!KeepRx /\ v5' = v5
  <2>1. v9.frame # CanLink!None <=> sent.in_flight /\ v7' = "No"
    BY <1>0, <1>1, <1>3, <1>4, <1>8 DEF CanLink!Completed, CanLink!TypeOK
  <2>2. LinkSends'
    <3> HIDE DEF sent
    <3>1. CASE done
      BY <1>0, <1>1, <1>3, <1>8, <2>1, <3>1
         DEF LinkSends, LinkFits, CanLink!FrameIsRetired, CanLink!None, CanLink!Completed
    <3>2. CASE ~done
      BY <1>0, <1>1, <1>3, <1>8, <2>1, <3>2
         DEF LinkSends, LinkFits, CanLink!FrameIsRetired, CanLink!None, CanLink!Completed
    <3> QED
      BY <3>1, <3>2
  <2> QED
    BY <1>0, <1>1, <1>2, <1>3, <1>8, <2>2, LinkKeepsRx DEF LinkFits, CanLink!KeepRx
<1> QED
  BY <1>1, <1>6, <1>7, <1>8

LEMMA LinkEnds == LinkInv /\ (\E late \in BOOLEAN : CanLink!EndService(late)) => LinkInv'
<1> SUFFICES ASSUME LinkInv, NEW late \in BOOLEAN, CanLink!EndService(late) PROVE LinkInv'
  OBVIOUS
<1> USE LinkAssumption
<1>0. LinkFits /\ CanLink!TypeOK /\ LinkSends /\ Ordered(v1.queue, v2, v3, v4, v10)
  BY DEF LinkInv
<1>1. UNCHANGED <<v4, v10>> /\ v8 = "Receive" /\ v5 = "Running"
  BY <1>0 DEF CanLink!EndService, CanLink!TypeOK
<1>3. ASSUME UNCHANGED <<v5, v12>>, v5' # "Failed",
             v6' \in [batch : Nat, left : 0 .. Fragments, in_flight : BOOLEAN],
             v7' \in {"No", "Sent", "Failed"}, v9' \in [up : BOOLEAN, frame : Carried], v11' \in Carried,
             LinkSends'
      PROVE  LinkInv'
  <2>1. /\ v8' = "Out" /\ v1' = v1 /\ v2' = IF late THEN CanLink!None ELSE v2
        /\ v3' = IF late /\ v2 # CanLink!None THEN CanLink!Gapped(v3) ELSE v3
    BY <1>3 DEF CanLink!EndService
  <2>2. /\ v2' \in Carried /\ (v2' = CanLink!None \/ v2'.place < Fragments)
    BY <1>0, <2>1 DEF LinkFits, CanLink!TypeOK, CanLink!None, Carried
  <2>3. /\ v3' \in [queue : Seq(Nat), offset : Nat, gap : BOOLEAN] /\ Len(v3'.queue) <= 2
        /\ v3'.offset < Pieces /\ (v3'.queue = <<>> => v3'.offset = 0)
    <3>1. CASE late /\ v2 # CanLink!None
      <4>1. v3' = [queue |-> <<>>, offset |-> 0, gap |-> TRUE]
        BY <2>1, <3>1 DEF CanLink!Gapped
      <4> QED
        BY <4>1
    <3>2. CASE ~(late /\ v2 # CanLink!None)
      BY <1>0, <2>1, <3>2 DEF LinkFits, CanLink!TypeOK, CanLink!Queued
    <3> QED
      BY <3>1, <3>2
  <2>4. Ordered(v1.queue, v2', v3', v4, v10)
    BY <1>0, <2>1, DropKeepsOrder, GapKeepsOrder DEF LinkFits
  <2>5. Ordered(v1.queue, v2, v3, v4, v10)'
    BY <1>1, <2>1, <2>4
  <2>6. LinkFits'
    BY <1>0, <1>1, <1>3, <2>1, <2>2, <2>3 DEF LinkFits
  <2>7. CanLink!TypeOK'
    BY <1>0, <1>1, <1>3, <2>1, <2>2, <2>3 DEF CanLink!TypeOK, CanLink!None, CanLink!Queued
  <2> QED
    BY <1>3, <2>5, <2>6, <2>7 DEF LinkInv
<1>4. CASE UNCHANGED <<v6, v7, v11, v5, v9, v12>>
  <2>1. LinkSends'
    BY <1>0, <1>4 DEF LinkSends, CanLink!FrameIsRetired, CanLink!None
  <2> QED
    BY <1>0, <1>1, <1>3, <1>4, <2>1 DEF LinkFits, CanLink!TypeOK
<1>5. CASE /\ CanLink!Sending /\ v9.up
           /\ v6' = [v6 EXCEPT !.in_flight = TRUE] /\ v7' = "No"
           /\ v11' = [batch |-> v6.batch, place |-> Fragments + 1 - v6.left]
           /\ v9' = [v9 EXCEPT !.frame = v11'] /\ UNCHANGED <<v5, v12>>
  <2>1. v6' = [batch |-> v6.batch, left |-> v6.left, in_flight |-> TRUE] /\ v9' = [up |-> v9.up, frame |-> v11']
    BY <1>0, <1>5, TxIs
  <2>2. v6.left > 0 /\ v6.batch > 0 /\ ~v6.in_flight
    BY <1>0, <1>5, TxIs DEF CanLink!Sending, LinkSends
  <2>3. v11' \in Carried /\ v11'.batch = v6.batch /\ v11'.place = Fragments + 1 - v6.left /\ v11' # CanLink!None
    BY <1>0, <1>5, <2>2, TxIs DEF Carried, CanLink!None
  <2>4. LinkSends'
    BY <1>0, <1>5, <2>1, <2>2, <2>3, TxIs DEF LinkSends, CanLink!FrameIsRetired, CanLink!None
  <2> QED
    BY <1>0, <1>1, <1>3, <1>5, <2>1, <2>3, <2>4, TxIs
<1>6. CASE CanLink!Sending /\ CanLink!Fail(FALSE) /\ UNCHANGED <<v7, v11, v9, v12>>
  <2>1. v5' = "Failed" /\ v8' = "Out" /\ v6' = [v6 EXCEPT !.left = 0, !.in_flight = FALSE] /\ CanLink!ResetRx
    BY <1>6 DEF CanLink!Fail
  <2>2. v6' = [batch |-> v6.batch, left |-> 0, in_flight |-> FALSE]
    BY <1>0, <2>1, TxIs
  <2>3. LinkSends'
    BY <1>0, <1>6, <2>1, <2>2 DEF LinkSends, CanLink!FrameIsRetired, CanLink!None, CanLink!Sending
  <2> QED
    <3>1. v6' \in [batch : Nat, left : 0 .. Fragments, in_flight : BOOLEAN]
      BY <1>0, <2>2, TxIs
    <3>2. v12' \in Nat /\ v7' \in {"No", "Sent", "Failed"} /\ v9' \in [up : BOOLEAN, frame : Carried] /\ v11' \in Carried
      BY <1>0, <1>6 DEF LinkFits, CanLink!TypeOK
    <3> QED
      BY <1>1, <2>1, <2>3, <3>1, <3>2, LinkResetsRx
<1> QED
  BY <1>4, <1>5, <1>6 DEF CanLink!EndService

LEMMA LinkStep == LinkInv /\ CanLink!Next => LinkInv'
BY LinkReads, LinkHears, LinkConsumes, LinkServes, LinkRestarts, LinkBegins, LinkEnds DEF CanLink!Next

(* What is handed to the controller goes on where the last fragment ended. *)
LEMMA LinkOrdersIts == LinkInv /\ CanLink!Next => CanLink!SendsInOrder
<1> SUFFICES ASSUME LinkInv, CanLink!Next, v9'.frame \notin {CanLink!None, v9.frame}
             PROVE  v9'.frame \in CanLink!Following(v11) \/ (v9'.frame.place = 1 /\ v9'.frame.batch > v11.batch)
  BY DEF CanLink!SendsInOrder
<1> USE LinkAssumption
<1>0. LinkFits /\ LinkSends
  BY DEF LinkInv
<1>1. \/ v9'.frame \in {CanLink!None, v9.frame}
      \/ \E late \in BOOLEAN : CanLink!EndService(late)
  <2>1. CASE CanLink!Read \/ CanLink!Send \/ CanLink!BeginService \/ CanLink!OnRx \/ CanLink!OnForeign
    BY <2>1 DEF CanLink!Read, CanLink!Send, CanLink!BeginService, CanLink!OnRx, CanLink!OnForeign
  <2>2. CASE CanLink!StopController \/ CanLink!Restart \/ CanLink!OnTx \/ CanLink!BusOff
    <3>1. \/ v9' = v9 \/ v9' = [v9 EXCEPT !.up = TRUE] \/ v9' = [v9 EXCEPT !.up = FALSE]
          \/ v9' = [v9 EXCEPT !.frame = CanLink!None]
      BY <2>2 DEF CanLink!StopController, CanLink!Restart, CanLink!OnTx, CanLink!BusOff
    <3> QED
      BY <1>0, <3>1 DEF LinkFits
  <2>3. CASE \E late \in BOOLEAN : CanLink!Consume(late)
    BY <2>3 DEF CanLink!Consume
  <2> QED
    BY <2>1, <2>2, <2>3 DEF CanLink!Next
<1>2. PICK late \in BOOLEAN : CanLink!EndService(late)
  BY <1>1
<1>3. /\ CanLink!Sending /\ v11' = [batch |-> v6.batch, place |-> Fragments + 1 - v6.left]
      /\ v9' = [v9 EXCEPT !.frame = v11']
  BY <1>2 DEF CanLink!EndService
<1>4. v9'.frame = v11' /\ v6.left > 0 /\ ~v6.in_flight
  BY <1>0, <1>3, TxIs DEF CanLink!Sending
<1>5. v11 \in Carried /\ v11'.batch = v6.batch /\ v11'.place = Fragments + 1 - v6.left
  BY <1>0, <1>3 DEF LinkFits
<1>6. CASE v6.left = Fragments
  BY <1>0, <1>4, <1>5, <1>6, TxIs DEF LinkSends, Carried
<1>7. CASE v6.left # Fragments
  <2>1. v11.batch = v6.batch /\ v11.place = Fragments - v6.left
    BY <1>0, <1>4, <1>7 DEF LinkSends
  <2>2. v11' \in [batch : {v11.batch, v11.batch + 1}, place : 1 .. Fragments]
    BY <1>0, <1>3, <1>4, <2>1, TxIs
  <2> QED
    BY <1>0, <1>4, <1>5, <2>1, <2>2, TxIs DEF CanLink!Following
<1> QED
  BY <1>6, <1>7

(* The reader is where the contract of a packet transport has it.          *)
LEMMA LinkReaderSteps ==
  LinkInv /\ CanLink!Next /\ rig = "CanLink" /\ rig' = rig =>
      Reader!Next \/ UNCHANGED <<Delivered.batch, Delivered.piece, Delivered.told>>
<1> SUFFICES ASSUME LinkInv, CanLink!Next, rig = "CanLink", rig' = rig
             PROVE  Reader!Next \/ UNCHANGED <<Delivered.batch, Delivered.piece, Delivered.told>>
  OBVIOUS
<1> USE LinkAssumption
<1>0. LinkFits /\ CanLink!TypeOK /\ Ordered(v1.queue, v2, v3, v4, v10)
  BY DEF LinkInv
<1>1. Delivered = v4 /\ Delivered' = v4'
  BY DEF Delivered
<1>2. CASE CanLink!Read
  <2>1. CASE v3.gap
    <3>1. v4' = [v4 EXCEPT !.told = TRUE]
      BY <1>2, <2>1 DEF CanLink!Read
    <3>2. v4'.told = TRUE /\ v4'.batch = v4.batch /\ v4'.piece = v4.piece
      BY <1>0, <3>1 DEF LinkFits
    <3> QED
      BY <1>1, <3>2 DEF Reader!Next, Reader!Announce
  <2>2. CASE ~v3.gap
    <3>1. v3.queue # <<>> /\ v4' = [batch |-> Head(v3.queue), piece |-> v3.offset + 1, told |-> FALSE]
      BY <1>2, <2>2 DEF CanLink!Read
    <3>2. Head(v3.queue) = v3.queue[1] /\ v3.queue[1] \in Nat /\ 1 \in 1 .. Len(v3.queue)
      BY <1>0, <3>1, Loses DEF LinkFits
    <3>3. v4'.batch = v3.queue[1] /\ v4'.piece = v3.offset + 1 /\ v4'.told = FALSE
      BY <3>1, <3>2
    <3>4. v4.batch \in Nat /\ v4.piece \in 1 .. Pieces /\ v3.offset \in Nat /\ v3.offset < Pieces
      BY <1>0 DEF LinkFits, CanLink!TypeOK
    <3>5. CASE v3.offset = 0
      <4>1. v4.batch < v3.queue[1] /\ (v4.told \/ v4.piece = Pieces)
        BY <1>0, <2>2, <3>2, <3>5 DEF Ordered, ReadyFollows, ReaderStands
      <4> QED
        BY <1>1, <3>2, <3>3, <3>4, <3>5, <4>1 DEF Reader!Next, Reader!Begin
    <3>6. CASE v3.offset # 0
      <4>1. v4.batch = v3.queue[1] /\ v4.piece = v3.offset /\ ~v4.told
        BY <1>0, <3>6 DEF Ordered, ReaderStands
      <4>2. v4.told = FALSE
        BY <1>0, <4>1 DEF LinkFits
      <4> QED
        BY <1>1, <3>3, <3>4, <4>1, <4>2 DEF Reader!Next, Reader!Continue
    <3> QED
      BY <3>5, <3>6
  <2> QED
    BY <2>1, <2>2
<1>3. CASE ~CanLink!Read
  <2>1. v4' = v4
    BY <1>3 DEF CanLink!Next, CanLink!Send, CanLink!BeginService, CanLink!OnRx, CanLink!OnForeign,
       CanLink!StopController, CanLink!Restart, CanLink!OnTx, CanLink!BusOff, CanLink!Consume,
       CanLink!EndService, CanLink!rxVars
  <2> QED
    BY <1>1, <2>1
<1> QED
  BY <1>2, <1>3

-----------------------------------------------------------------------------
(* The inertial unit over CAN (DmImuCan): v1 is now, v2 imu, v3 epoch, v4  *)
(* ask, v5 imu_tx, v6 reports, v7 report, v8 busy, v9 bus and v10 unit.    *)
Registers == {1, 2, CanImu!Attitude}
ImuModes  == {"Unowned", "Running", "Failed", "Stopped"}
Asks      == [rid : Registers, retries : 0 .. MaxRetries, deadline : Nat, next : Nat,
              awaiting : BOOLEAN, in_flight : BOOLEAN]
ImuEvents == [rid : Registers, zeros : Nat, start : Nat, at : Nat]
ImuFrames == [rid : Registers, zeros : Nat, due : Nat]
ImuRing   == [queue : Seq(ImuEvents), gap : BOOLEAN]
ImuBus    == [up : BOOLEAN, frame : Registers \cup {0}, starts : Nat, upsets : Nat]
ImuUnit   == [zeros : Nat, asked : Registers \cup {0}, sent : Seq(ImuFrames)]

ImuFits ==
    /\ v1 \in Nat /\ v2 \in [request : BOOLEAN, mode : ImuModes, retry : Nat]
    /\ v3 \in [number : Nat, after : Nat] /\ v4 \in Asks
    /\ v5 \in [done : {"No", "Sent", "Failed"}, at : Nat]
    /\ v6 \in ImuRing /\ v7 \in [epoch : Nat, zeros : Nat, start : Nat]
    /\ v8 \in BOOLEAN /\ v9 \in ImuBus /\ v10 \in ImuUnit

(* No request is out while service() is at its loop.                       *)
ImuServes ==
    /\ CanImu!TypeOK /\ CanImu!RequestIsRetired
    /\ v8 => ~v4.in_flight

(* What was measured before the zero had moved arrives too soon to count.  *)
SinceTheEpoch(zeros, at) == zeros >= v3.number \/ at <= v3.after

ImuStamps ==
    /\ v3.number <= v10.zeros
    /\ \A i \in 1 .. Len(v10.sent) :
         /\ v1 <= v10.sent[i].due /\ v10.sent[i].due <= v1 + WireLatency
         /\ SinceTheEpoch(v10.sent[i].zeros, v10.sent[i].due)
    /\ \A i \in 1 .. Len(v6.queue) :
         /\ v6.queue[i].start = v9.starts
         /\ SinceTheEpoch(v6.queue[i].zeros, v6.queue[i].at)
    /\ CanImu!EpochIsTrue

ImuInv == ImuFits /\ ImuServes /\ ImuStamps

NoEvents == [queue |-> <<>>, gap |-> FALSE]

LEMMA ImuStarts == CanImu!Init => ImuInv
<1> SUFFICES ASSUME CanImu!Init PROVE ImuInv
  OBVIOUS
<1> USE UnitAssumption DEF CanImu!Init, CanImu!Attitude, CanImu!NoReport
<1>1. ImuFits
  <2>1. v2 \in [request : BOOLEAN, mode : ImuModes, retry : Nat]
    BY DEF ImuModes
  <2>2. v4 \in Asks
    BY DEF Asks, Registers
  <2>3. v6 \in ImuRing /\ v10 \in ImuUnit /\ v9 \in ImuBus
    BY DEF ImuRing, ImuUnit, ImuBus, Registers
  <2> QED
    BY <2>1, <2>2, <2>3 DEF ImuFits
<1>2. ImuServes
  BY DEF ImuServes, CanImu!TypeOK, CanImu!RequestIsRetired
<1>3. ImuStamps
  BY DEF ImuStamps, CanImu!EpochIsTrue
<1> QED
  BY <1>1, <1>2, <1>3 DEF ImuInv

(* The fields of the records, one by one.                                  *)
LEMMA ImuIs ==
  ASSUME ImuInv
  PROVE  /\ v1 \in Nat
         /\ v2.request \in BOOLEAN /\ v2.mode \in ImuModes /\ v2.retry \in Nat
         /\ v2 = [request |-> v2.request, mode |-> v2.mode, retry |-> v2.retry]
         /\ v3.number \in Nat /\ v3.after \in Nat /\ v3 = [number |-> v3.number, after |-> v3.after]
         /\ v4.rid \in Registers /\ v4.retries \in 0 .. MaxRetries /\ v4.deadline \in Nat /\ v4.next \in Nat
         /\ v4.awaiting \in BOOLEAN /\ v4.in_flight \in BOOLEAN
         /\ v4 = [rid |-> v4.rid, retries |-> v4.retries, deadline |-> v4.deadline, next |-> v4.next,
                  awaiting |-> v4.awaiting, in_flight |-> v4.in_flight]
         /\ v5.done \in {"No", "Sent", "Failed"} /\ v5.at \in Nat /\ v5 = [done |-> v5.done, at |-> v5.at]
         /\ v9.up \in BOOLEAN /\ v9.frame \in Registers \cup {0} /\ v9.starts \in Nat /\ v9.upsets \in Nat
         /\ v9 = [up |-> v9.up, frame |-> v9.frame, starts |-> v9.starts, upsets |-> v9.upsets]
         /\ v10.zeros \in Nat /\ v10.asked \in Registers \cup {0} /\ v10.sent \in Seq(ImuFrames)
         /\ v10 = [zeros |-> v10.zeros, asked |-> v10.asked, sent |-> v10.sent]
BY DEF ImuInv, ImuFits, Asks, ImuBus, ImuUnit

(* Steps that measure and receive nothing leave the stamps alone.          *)
LEMMA ImuKeepsStamps ==
  ASSUME ImuInv, UNCHANGED <<v1, v3, v7>>,
         v10'.sent = v10.sent, v10'.zeros \in Nat, v10'.zeros >= v10.zeros,
         (v6' = v6 /\ v9'.starts = v9.starts) \/ v6' = NoEvents
  PROVE  ImuStamps'
<1>1. ImuStamps /\ v3.number \in Nat /\ v10.zeros \in Nat
  BY ImuIs DEF ImuInv
<1>2. v3'.number <= v10'.zeros
  BY <1>1 DEF ImuStamps
<1>3. \A i \in 1 .. Len(v6'.queue) : /\ v6'.queue[i].start = v9'.starts
                                     /\ SinceTheEpoch(v6'.queue[i].zeros, v6'.queue[i].at)
  BY <1>1 DEF ImuStamps, NoEvents
<1> QED
  BY <1>1, <1>2, <1>3 DEF ImuStamps, SinceTheEpoch, CanImu!EpochIsTrue

LEMMA ImuGoesOn ==
  ASSUME ImuInv, UNCHANGED <<v1, v3, v7>>,
         v10' \in ImuUnit, v10'.sent = v10.sent, v10'.zeros = v10.zeros,
         v2' \in [request : BOOLEAN, mode : ImuModes, retry : Nat], v4' \in Asks,
         v5' \in [done : {"No", "Sent", "Failed"}, at : Nat], v8' \in BOOLEAN, v9' \in ImuBus,
         (v6' = v6 /\ v9'.starts = v9.starts) \/ v6' = NoEvents,
         v8' => v2'.mode = "Running" /\ ~v4'.in_flight,
         ~(v4'.awaiting /\ v4'.in_flight),
         v9'.frame # 0 <=> v4'.in_flight /\ v5'.done = "No"
  PROVE  ImuInv'
<1> USE UnitAssumption
<1>1. ImuStamps'
  BY ImuIs, ImuKeepsStamps
<1>2. v6' \in ImuRing /\ Len(v6'.queue) <= RxDepth
  <2>1. v6 \in ImuRing /\ Len(v6.queue) <= RxDepth
    BY DEF ImuInv, ImuFits, ImuServes, CanImu!TypeOK
  <2>2. NoEvents \in ImuRing /\ Len(NoEvents.queue) = 0
    BY DEF NoEvents, ImuRing
  <2> QED
    BY <2>1, <2>2
<1>3. v4'.retries <= MaxRetries /\ v4'.rid \in {1, 2, CanImu!Attitude}
  BY DEF Asks, Registers
<1>4. ImuFits'
  BY <1>2 DEF ImuInv, ImuFits
<1>5. ImuServes'
  BY <1>2, <1>3 DEF ImuServes, CanImu!TypeOK, CanImu!RequestIsRetired
<1> QED
  BY <1>1, <1>4, <1>5 DEF ImuInv

(* The controller is started, or is not yet.                               *)
LEMMA ImuStartTries ==
  ASSUME ImuInv, CanImu!Started
  PROVE  /\ v9' \in ImuBus /\ v9'.frame = v9.frame /\ v6' = NoEvents
         /\ v2' \in [request : BOOLEAN, mode : ImuModes, retry : Nat]
         /\ v2'.mode \in {"Running", v2.mode}
<1> USE UnitAssumption
<1>1. v6' = NoEvents
  BY DEF CanImu!Started, CanImu!ClearRx, NoEvents
<1>2. v1 + RecoveryRetry \in Nat /\ v9.starts + 1 \in Nat /\ v9.upsets + 1 \in Nat
  <2>1. v1 \in Nat /\ v9.starts \in Nat /\ v9.upsets \in Nat
    BY ImuIs
  <2> QED
    BY <2>1
<1>3. CASE /\ v9' = [v9 EXCEPT !.up = TRUE, !.starts = @ + 1]
           /\ v2' = [v2 EXCEPT !.mode = "Running", !.retry = v1 + RecoveryRetry]
  <2>1. /\ v9' = [up |-> TRUE, frame |-> v9.frame, starts |-> v9.starts + 1, upsets |-> v9.upsets]
        /\ v2' = [request |-> v2.request, mode |-> "Running", retry |-> v1 + RecoveryRetry]
    BY <1>3, ImuIs
  <2> QED
    BY <1>1, <1>2, <2>1, ImuIs DEF ImuBus, ImuModes
<1>4. CASE /\ v9' = [v9 EXCEPT !.upsets = @ + 1] /\ v2' = [v2 EXCEPT !.retry = v1 + RecoveryRetry]
  <2>1. /\ v9' = [up |-> v9.up, frame |-> v9.frame, starts |-> v9.starts, upsets |-> v9.upsets + 1]
        /\ v2' = [request |-> v2.request, mode |-> v2.mode, retry |-> v1 + RecoveryRetry]
    BY <1>4, ImuIs
  <2> QED
    BY <1>1, <1>2, <2>1, ImuIs DEF ImuBus
<1> QED
  BY <1>3, <1>4 DEF CanImu!Started

LEMMA ImuControls == ImuInv /\ (CanImu!StartUnit \/ CanImu!StopUnit \/ CanImu!Recover) => ImuInv'
<1> SUFFICES ASSUME ImuInv, CanImu!StartUnit \/ CanImu!StopUnit \/ CanImu!Recover PROVE ImuInv'
  OBVIOUS
<1> USE UnitAssumption
<1>0. ImuFits /\ ImuServes
  BY DEF ImuInv
<1>1. CASE CanImu!StartUnit
  <2>1. UNCHANGED <<v1, v3, v4, v5, v7, v8, v10>> /\ CanImu!Started /\ v2.mode = "Unowned"
    BY <1>1 DEF CanImu!StartUnit
  <2>2. ~v8
    BY <1>0, <2>1 DEF ImuServes, CanImu!TypeOK
  <2>3. /\ v9' \in ImuBus /\ v9'.frame = v9.frame /\ v6' = NoEvents
        /\ v2' \in [request : BOOLEAN, mode : ImuModes, retry : Nat]
    BY <2>1, ImuStartTries
  <2> QED
    BY <1>0, <2>1, <2>2, <2>3, ImuGoesOn DEF ImuFits, ImuServes, CanImu!TypeOK, CanImu!RequestIsRetired
<1>2. CASE CanImu!StopUnit
  <2>1. /\ UNCHANGED <<v1, v3, v4, v5, v6, v7, v8, v10>> /\ v2.mode = "Failed"
        /\ v2' = [v2 EXCEPT !.mode = "Stopped"] /\ v9' = [v9 EXCEPT !.up = FALSE]
    BY <1>2 DEF CanImu!StopUnit
  <2>2. ~v8
    BY <1>0, <2>1 DEF ImuServes, CanImu!TypeOK
  <2>3. /\ v9' = [up |-> FALSE, frame |-> v9.frame, starts |-> v9.starts, upsets |-> v9.upsets]
        /\ v2' = [request |-> v2.request, mode |-> "Stopped", retry |-> v2.retry]
    BY <2>1, ImuIs
  <2>4. v9' \in ImuBus /\ v9'.frame = v9.frame /\ v9'.starts = v9.starts
    BY <2>3, ImuIs DEF ImuBus
  <2>5. v2' \in [request : BOOLEAN, mode : ImuModes, retry : Nat]
    BY <2>3, ImuIs DEF ImuModes
  <2> QED
    BY <1>0, <2>1, <2>2, <2>4, <2>5, ImuGoesOn DEF ImuFits, ImuServes, CanImu!TypeOK, CanImu!RequestIsRetired
<1>3. CASE CanImu!Recover
  <2>1. /\ UNCHANGED <<v1, v3, v7, v8, v10>> /\ v2.mode = "Stopped" /\ CanImu!MayReuse
        /\ v5' = [v5 EXCEPT !.done = "No"]
    BY <1>3 DEF CanImu!Recover
  <2>2. ~v8 /\ v9.frame = 0
    BY <1>0, <2>1, ImuIs DEF ImuServes, CanImu!TypeOK, CanImu!RequestIsRetired, CanImu!MayReuse
  <2>3. v5' = [done |-> "No", at |-> v5.at]
    BY <2>1, ImuIs
  <2>4. v5' \in [done : {"No", "Sent", "Failed"}, at : Nat]
    BY <2>3, ImuIs
  <2> DEFINE idle == [v4 EXCEPT !.in_flight = FALSE]
             anew == [v4 EXCEPT !.in_flight = FALSE, !.retries = 0, !.rid = CanImu!Attitude,
                                !.next = v1 + CanImu!Interval]
  <2>5. v4 \in Asks
    BY <1>0 DEF ImuFits
  <2>6. v1 + CanImu!Interval \in Nat
    <3>1. v1 \in Nat
      BY ImuIs
    <3> QED
      BY <3>1 DEF CanImu!Interval
  <2>7. idle \in Asks /\ anew \in Asks /\ ~idle.in_flight /\ ~anew.in_flight
    <3>1. CanImu!Attitude \in Registers /\ 0 \in 0 .. MaxRetries
      BY DEF Registers
    <3>2. idle \in Asks /\ ~idle.in_flight
      BY <2>5 DEF Asks
    <3>3. anew \in Asks /\ ~anew.in_flight
      BY <2>5, <2>6, <3>1 DEF Asks
    <3> QED
      BY <3>2, <3>3
  <2>8. v4' \in {idle, anew}
    BY <1>3 DEF CanImu!Recover
  <2>9. v4' \in Asks /\ ~v4'.in_flight
    <3> HIDE DEF idle, anew
    <3> QED
      BY <2>7, <2>8
  <2>10. \/ UNCHANGED <<v2, v9, v6>>
         \/ /\ v9' \in ImuBus /\ v9'.frame = v9.frame /\ v6' = NoEvents
            /\ v2' \in [request : BOOLEAN, mode : ImuModes, retry : Nat]
    BY <1>3, ImuStartTries DEF CanImu!Recover
  <2> QED
    BY <1>0, <2>1, <2>2, <2>4, <2>9, <2>10, ImuGoesOn DEF ImuFits
<1> QED
  BY <1>1, <1>2, <1>3

(* finishRequest() leaves no answer to wait for and no request out.        *)
LEMMA ImuFinishes ==
  ASSUME NEW a \in Asks, v1 \in Nat, NEW retry \in BOOLEAN
  PROVE  /\ CanImu!Finished(a, retry) \in Asks /\ ~CanImu!Finished(a, retry).awaiting
         /\ CanImu!Finished(a, retry).in_flight = a.in_flight
<1> USE UnitAssumption
<1> DEFINE again == retry /\ a.retries < MaxRetries
           n == v1 + CanImu!Interval
           r == IF again THEN a.retries + 1 ELSE 0
           d == IF again THEN a.rid ELSE CanImu!NextRegister(a.rid)
           f == CanImu!Finished(a, retry)
<1>1. n \in Nat
  BY DEF CanImu!Interval
<1>2. r \in 0 .. MaxRetries
  BY DEF Asks
<1>3. d \in Registers
  BY DEF Asks, Registers, CanImu!NextRegister
<1>4. f = [a EXCEPT !.awaiting = FALSE, !.next = n, !.retries = r, !.rid = d]
  BY DEF CanImu!Finished
<1> HIDE DEF n, r, d, f
<1>5. f \in Asks /\ ~f.awaiting /\ f.in_flight = a.in_flight
  BY <1>1, <1>2, <1>3, <1>4 DEF Asks
<1> QED
  BY <1>5 DEF f

(* fail() ends the request; the controller may still hold it.              *)
LEMMA ImuFails ==
  ASSUME ImuInv, NEW flying \in BOOLEAN, CanImu!ImuFail(flying)
  PROVE  /\ v2' \in [request : BOOLEAN, mode : ImuModes, retry : Nat]
         /\ v4' \in Asks /\ ~v4'.awaiting /\ v4'.in_flight = flying
         /\ v6' = NoEvents /\ v8' = FALSE
<1> USE UnitAssumption
<1>0. ImuFits /\ v1 \in Nat
  BY DEF ImuInv, ImuFits
<1>1. v1 + RecoveryRetry \in Nat
  BY <1>0
<1>2. v6' = NoEvents /\ v8' = FALSE
  BY DEF CanImu!ImuFail, CanImu!ClearRx, NoEvents
<1>3. v2' \in [request : BOOLEAN, mode : ImuModes, retry : Nat]
  BY <1>0, <1>1 DEF CanImu!ImuFail, ImuFits, ImuModes
<1>4. v4' \in Asks /\ ~v4'.awaiting /\ v4'.in_flight = flying
  BY <1>0 DEF CanImu!ImuFail, ImuFits, Asks
<1> QED
  BY <1>2, <1>3, <1>4

LEMMA ImuBegins == ImuInv /\ CanImu!BeginService => ImuInv'
<1> SUFFICES ASSUME ImuInv, CanImu!BeginService PROVE ImuInv'
  OBVIOUS
<1> USE UnitAssumption
<1>0. ImuFits /\ ImuServes
  BY DEF ImuInv
<1> DEFINE done == v4.in_flight /\ v5.done # "No"
<1>1. /\ UNCHANGED <<v1, v3, v7, v9, v10>> /\ v2.mode = "Running" /\ ~v8
      /\ v5' = IF v9.up /\ done THEN [v5 EXCEPT !.done = "No"] ELSE v5
  BY DEF CanImu!BeginService
<1>2. /\ v5' \in [done : {"No", "Sent", "Failed"}, at : Nat]
      /\ v5'.done = IF v9.up /\ done THEN "No" ELSE v5.done
  BY <1>0, <1>1 DEF ImuFits
<1>3. v9.frame # 0 <=> v4.in_flight /\ v5.done = "No"
  BY <1>0 DEF ImuServes, CanImu!RequestIsRetired
<1>4. v10 \in ImuUnit /\ v9 \in ImuBus /\ v4 \in Asks /\ v4.in_flight \in BOOLEAN /\ v4.deadline \in Nat
      /\ v2 \in [request : BOOLEAN, mode : ImuModes, retry : Nat] /\ v5.at \in Nat /\ v5.done \in {"No", "Sent", "Failed"}
  BY <1>0, ImuIs DEF ImuFits
<1>5. ASSUME NEW flying \in BOOLEAN, CanImu!ImuFail(flying), v9.frame # 0 <=> flying /\ v5'.done = "No"
      PROVE  ImuInv'
  BY <1>1, <1>2, <1>4, <1>5, ImuFails, ImuGoesOn
<1>6. CASE ~v9.up
  <2>1. CanImu!ImuFail(v4.in_flight)
    BY <1>6 DEF CanImu!BeginService
  <2> QED
    BY <1>2, <1>3, <1>4, <1>5, <1>6, <2>1
<1>7. CASE v9.up /\ done /\ v5.done = "Failed"
  <2>1. CanImu!ImuFail(FALSE)
    BY <1>7 DEF CanImu!BeginService
  <2> QED
    BY <1>3, <1>5, <1>7, <2>1
<1>8. CASE v9.up /\ done /\ v5.done = "Sent"
  <2>1. /\ v4' = [v4 EXCEPT !.in_flight = FALSE, !.awaiting = TRUE, !.deadline = v5.at + ResponseTimeout]
        /\ v8' = TRUE /\ UNCHANGED <<v2, v6>>
    BY <1>8 DEF CanImu!BeginService
  <2>2. v5.at + ResponseTimeout \in Nat
    BY <1>4
  <2>3. v4' \in Asks /\ ~v4'.in_flight
    BY <1>4, <2>1, <2>2 DEF Asks
  <2> QED
    BY <1>1, <1>2, <1>3, <1>4, <1>8, <2>1, <2>3, ImuGoesOn
<1>9. CASE v9.up /\ ~done /\ v4.in_flight
  <2>1. CanImu!ImuFail(TRUE)
    BY <1>4, <1>9 DEF CanImu!BeginService
  <2> QED
    BY <1>2, <1>3, <1>5, <1>9, <2>1
<1>10. CASE v9.up /\ ~done /\ ~v4.in_flight
  <2>1. v8' = TRUE /\ UNCHANGED <<v2, v4, v6>>
    BY <1>10 DEF CanImu!BeginService
  <2> QED
    BY <1>1, <1>2, <1>3, <1>4, <1>10, <2>1, ImuGoesOn
<1> QED
  BY <1>4, <1>6, <1>7, <1>8, <1>9, <1>10

LEMMA ImuEnds == ImuInv /\ CanImu!EndService => ImuInv'
<1> SUFFICES ASSUME ImuInv, CanImu!EndService PROVE ImuInv'
  OBVIOUS
<1> USE UnitAssumption
<1>0. ImuFits /\ ImuServes
  BY DEF ImuInv
<1> DEFINE open == IF v4.awaiting /\ v1 >= v4.deadline THEN CanImu!Finished(v4, TRUE) ELSE v4
           due  == v2.request /\ ~open.awaiting /\ v1 >= open.next
<1>1. UNCHANGED <<v1, v3, v7, v10>> /\ v8
  BY DEF CanImu!EndService
<1>2. /\ v10 \in ImuUnit /\ v9 \in ImuBus /\ v4 \in Asks /\ v1 \in Nat
      /\ v2 \in [request : BOOLEAN, mode : ImuModes, retry : Nat]
      /\ v5 \in [done : {"No", "Sent", "Failed"}, at : Nat]
  BY <1>0 DEF ImuFits
<1>3. v2.mode = "Running" /\ ~v4.in_flight /\ v9.frame = 0
  BY <1>0, <1>1 DEF ImuServes, CanImu!TypeOK, CanImu!RequestIsRetired
<1>4. open \in Asks /\ ~open.in_flight
  BY <1>2, <1>3, ImuFinishes
<1> HIDE DEF open
<1>5. CASE ~due /\ v4' = open /\ v8' = FALSE /\ UNCHANGED <<v2, v5, v6, v9>>
  BY <1>1, <1>2, <1>3, <1>4, <1>5, ImuGoesOn
<1>6. CASE /\ due /\ v9.up /\ v8' = FALSE
           /\ v4' = [open EXCEPT !.deadline = v1 + ResponseTimeout, !.in_flight = TRUE]
           /\ v9' = [v9 EXCEPT !.frame = open.rid]
           /\ v5' = [v5 EXCEPT !.done = "No"] /\ CanImu!ClearRx /\ UNCHANGED v2
  <2>1. v1 + ResponseTimeout \in Nat /\ open.rid \in Registers /\ 0 \notin Registers
    BY <1>2, <1>4 DEF Asks, Registers, CanImu!Attitude
  <2>2. v4' \in Asks /\ v4'.in_flight /\ ~v4'.awaiting
    BY <1>4, <1>6, <2>1 DEF Asks
  <2>3. v9' \in ImuBus /\ v9'.frame # 0
    BY <1>2, <1>6, <2>1 DEF ImuBus
  <2>4. v5' \in [done : {"No", "Sent", "Failed"}, at : Nat] /\ v5'.done = "No"
    BY <1>2, <1>6
  <2>5. v6' = NoEvents
    BY <1>6 DEF CanImu!ClearRx, NoEvents
  <2> QED
    BY <1>1, <1>2, <1>6, <2>2, <2>3, <2>4, <2>5, ImuGoesOn
<1>7. CASE due /\ ~v9.up /\ CanImu!ImuFail(FALSE) /\ UNCHANGED <<v5, v9>>
  BY <1>1, <1>2, <1>3, <1>7, ImuFails, ImuGoesOn
<1> QED
  BY <1>5, <1>6, <1>7 DEF CanImu!EndService, open

LEMMA ImuConsumes == ImuInv /\ CanImu!Consume => ImuInv'
<1> SUFFICES ASSUME ImuInv, CanImu!Consume PROVE ImuInv'
  OBVIOUS
<1> USE UnitAssumption
<1>0. ImuFits /\ ImuServes /\ ImuStamps
  BY DEF ImuInv
<1> DEFINE event == Head(v6.queue)
           open  == IF v6.gap /\ v4.awaiting THEN CanImu!Finished(v4, TRUE) ELSE v4
           taken == ~CanImu!Ignored(open, event)
<1>1. /\ UNCHANGED <<v1, v2, v3, v5, v8, v9, v10>> /\ v8 /\ v6.queue # <<>>
      /\ v6' = [queue |-> Tail(v6.queue), gap |-> FALSE]
      /\ v4' = IF taken /\ v2.request THEN CanImu!Finished(open, FALSE) ELSE open
      /\ v7' \in {v7, [epoch |-> v3.number, zeros |-> event.zeros, start |-> event.start]}
      /\ v7' # v7 => ~CanImu!Ignored(open, event)
  BY DEF CanImu!Consume
<1>2. v6.queue \in Seq(ImuEvents) /\ v4 \in Asks /\ v1 \in Nat
  BY <1>0 DEF ImuFits, ImuRing
<1>3. /\ Tail(v6.queue) \in Seq(ImuEvents) /\ Len(v6.queue) \in Nat \ {0} /\ Len(Tail(v6.queue)) = Len(v6.queue) - 1
      /\ \A i \in 1 .. Len(Tail(v6.queue)) : Tail(v6.queue)[i] = v6.queue[i + 1]
      /\ event = v6.queue[1] /\ v6.queue[1] \in ImuEvents
  BY <1>1, <1>2, Loses
<1>4. ~v4.in_flight /\ v2.mode = "Running"
  BY <1>0, <1>1 DEF ImuServes, CanImu!TypeOK
<1>5. open \in Asks /\ ~open.in_flight
  BY <1>2, <1>4, ImuFinishes
<1>6. v4' \in Asks /\ ~v4'.in_flight
  <2> HIDE DEF open, taken
  <2> QED
    BY <1>1, <1>2, <1>5, ImuFinishes
<1>7. v6' \in ImuRing /\ Len(v6'.queue) <= RxDepth /\ v6'.queue = Tail(v6.queue)
  <2>1. Len(v6.queue) <= RxDepth
    BY <1>0 DEF ImuServes, CanImu!TypeOK
  <2> QED
    BY <1>1, <1>3, <2>1 DEF ImuRing
<1>8. v7' \in [epoch : Nat, zeros : Nat, start : Nat] /\ v7'.zeros >= v7'.epoch
  <2>1. CASE v7' = v7
    BY <1>0, <2>1 DEF ImuFits, ImuStamps, CanImu!EpochIsTrue
  <2>2. CASE v7' # v7
    <3>1. v7' = [epoch |-> v3.number, zeros |-> event.zeros, start |-> event.start]
      BY <1>1, <2>2
    <3>2. event \in ImuEvents /\ v3.number \in Nat
      BY <1>3, ImuIs
    <3>3. ~(event.at <= v3.after)
      BY <1>1, <2>2 DEF CanImu!Ignored
    <3>4. 1 \in 1 .. Len(v6.queue)
      BY <1>3
    <3>5. SinceTheEpoch(event.zeros, event.at)
      BY <1>0, <1>3, <3>4 DEF ImuStamps
    <3> QED
      BY <3>1, <3>2, <3>3, <3>5 DEF SinceTheEpoch, ImuEvents
  <2> QED
    BY <2>1, <2>2
<1>9. ImuFits'
  BY <1>0, <1>1, <1>6, <1>7, <1>8 DEF ImuFits
<1>10. ImuServes'
  <2>1. v4'.retries <= MaxRetries /\ v4'.rid \in {1, 2, CanImu!Attitude}
    BY <1>6 DEF Asks, Registers
  <2>2. v9.frame = 0
    BY <1>0, <1>4 DEF ImuServes, CanImu!RequestIsRetired
  <2> QED
    BY <1>1, <1>4, <1>6, <1>7, <2>1, <2>2 DEF ImuServes, CanImu!TypeOK, CanImu!RequestIsRetired
<1>11. ImuStamps'
  <2>1. \A i \in 1 .. Len(Tail(v6.queue)) : i + 1 \in 1 .. Len(v6.queue)
    BY <1>3
  <2>2. \A i \in 1 .. Len(v6'.queue) : /\ v6'.queue[i].start = v9.starts
                                       /\ SinceTheEpoch(v6'.queue[i].zeros, v6'.queue[i].at)
    BY <1>0, <1>3, <1>7, <2>1 DEF ImuStamps
  <2> QED
    BY <1>0, <1>1, <1>8, <2>2 DEF ImuStamps, SinceTheEpoch, CanImu!EpochIsTrue
<1> QED
  BY <1>9, <1>10, <1>11 DEF ImuInv

LEMMA ImuResets == ImuInv /\ CanImu!ResetReference => ImuInv'
<1> SUFFICES ASSUME ImuInv, CanImu!ResetReference PROVE ImuInv'
  OBVIOUS
<1> USE UnitAssumption
<1>0. ImuFits /\ ImuServes /\ ImuStamps
  BY DEF ImuInv
<1>1. /\ UNCHANGED <<v1, v2, v5, v8, v9, v10>> /\ v3.number < v10.zeros /\ ~v4.in_flight /\ ~v8 /\ ~v4.awaiting
      /\ v3' = [number |-> v3.number + 1, after |-> v1 + ResponseTimeout]
      /\ v4' = [v4 EXCEPT !.retries = 0, !.next = v1 + ResponseTimeout + CanImu!Interval]
      /\ v6' = NoEvents /\ v7' = CanImu!NoReport
  BY DEF CanImu!ResetReference, CanImu!ClearRx, NoEvents
<1>2. v4 \in Asks /\ v1 \in Nat /\ v3.number \in Nat /\ v10.zeros \in Nat /\ v10.sent \in Seq(ImuFrames)
  BY <1>0, ImuIs DEF ImuFits
<1>3. v1 + ResponseTimeout \in Nat /\ v1 + ResponseTimeout + CanImu!Interval \in Nat
  BY <1>2 DEF CanImu!Interval
<1>4. v4' \in Asks /\ ~v4'.awaiting /\ ~v4'.in_flight
  <2> DEFINE later == v1 + ResponseTimeout + CanImu!Interval
  <2>1. v4' = [v4 EXCEPT !.retries = 0, !.next = later] /\ later \in Nat /\ 0 \in 0 .. MaxRetries
    BY <1>1, <1>3
  <2> HIDE DEF later
  <2> QED
    BY <1>1, <1>2, <2>1 DEF Asks
<1>5. v3' \in [number : Nat, after : Nat] /\ v3'.number = v3.number + 1 /\ v3'.after = v1 + ResponseTimeout
  <2>1. v3' = [number |-> v3.number + 1, after |-> v1 + ResponseTimeout]
    BY <1>1
  <2>2. v3.number + 1 \in Nat
    BY <1>2
  <2> QED
    BY <1>3, <2>1, <2>2
<1>6. v6' \in ImuRing /\ Len(v6'.queue) = 0
  BY <1>1 DEF NoEvents, ImuRing
<1>7. v7' \in [epoch : Nat, zeros : Nat, start : Nat] /\ v7'.zeros >= v7'.epoch
  BY <1>1 DEF CanImu!NoReport
<1>8. ImuFits'
  BY <1>0, <1>1, <1>4, <1>5, <1>6, <1>7 DEF ImuFits
<1>9. ImuServes'
  <2>1. v4'.retries <= MaxRetries /\ v4'.rid \in {1, 2, CanImu!Attitude}
    BY <1>4 DEF Asks, Registers
  <2> QED
    BY <1>0, <1>1, <1>4, <1>6, <2>1 DEF ImuServes, CanImu!TypeOK, CanImu!RequestIsRetired
<1>10. ImuStamps'
  <2>1. \A i \in 1 .. Len(v10.sent) : v10.sent[i].due <= v1 + ResponseTimeout
    <3> SUFFICES ASSUME NEW i \in 1 .. Len(v10.sent) PROVE v10.sent[i].due <= v1 + ResponseTimeout
      OBVIOUS
    <3>0. v10.sent[i] \in ImuFrames
      BY <1>2, ElementOfSeq
    <3>1. v10.sent[i].due \in Nat
      BY <3>0 DEF ImuFrames
    <3>2. v10.sent[i].due <= v1 + WireLatency
      BY <1>0 DEF ImuStamps
    <3> QED
      BY <1>2, <3>1, <3>2
  <2>2. v3'.number <= v10.zeros
    <3>1. v3.number < v10.zeros
      BY <1>1
    <3>2. v3.number \in Nat /\ v10.zeros \in Nat /\ v3'.number = v3.number + 1
      BY <1>2, <1>5
    <3> QED
      BY <3>1, <3>2
  <2> QED
    BY <1>0, <1>1, <1>5, <1>6, <1>7, <2>1, <2>2 DEF ImuStamps, SinceTheEpoch, CanImu!EpochIsTrue
<1> QED
  BY <1>8, <1>9, <1>10 DEF ImuInv

LEMMA ImuBusActs == ImuInv /\ (CanImu!ImuTx \/ CanImu!ImuBusOff) => ImuInv'
<1> SUFFICES ASSUME ImuInv, CanImu!ImuTx \/ CanImu!ImuBusOff PROVE ImuInv'
  OBVIOUS
<1> USE UnitAssumption
<1>0. ImuFits /\ ImuServes
  BY DEF ImuInv
<1>1. UNCHANGED <<v1, v2, v3, v4, v6, v7, v8>>
  BY DEF CanImu!ImuTx, CanImu!ImuBusOff
<1>2. /\ v10 \in ImuUnit /\ v9 \in ImuBus /\ v4 \in Asks /\ v1 \in Nat /\ v8 \in BOOLEAN
      /\ v2 \in [request : BOOLEAN, mode : ImuModes, retry : Nat]
      /\ v5 \in [done : {"No", "Sent", "Failed"}, at : Nat]
      /\ v9.upsets \in Nat /\ v9.frame \in Registers \cup {0}
  BY <1>0, ImuIs DEF ImuFits
<1>3. /\ v8 => v2.mode = "Running" /\ ~v4.in_flight
      /\ ~(v4.awaiting /\ v4.in_flight)
      /\ v9.frame # 0 <=> v4.in_flight /\ v5.done = "No"
  BY <1>0 DEF ImuServes, CanImu!TypeOK, CanImu!RequestIsRetired
<1>4. v9.upsets + 1 \in Nat
  BY <1>2
<1>5. CASE CanImu!ImuBusOff
  <2>1. v9' = [v9 EXCEPT !.up = FALSE, !.upsets = @ + 1] /\ UNCHANGED <<v5, v10>>
    BY <1>5 DEF CanImu!ImuBusOff
  <2>2. v9' \in ImuBus /\ v9'.frame = v9.frame /\ v9'.starts = v9.starts
    BY <1>2, <1>4, <2>1 DEF ImuBus
  <2> QED
    BY <1>1, <1>2, <1>3, <2>1, <2>2, ImuGoesOn
<1>6. CASE CanImu!ImuTx
  <2>1. /\ v9.frame # 0
        /\ v9' \in {[v9 EXCEPT !.frame = 0], [v9 EXCEPT !.frame = 0, !.upsets = @ + 1]}
        /\ v5' \in {[done |-> "Sent", at |-> v1], [done |-> "Failed", at |-> v1]}
        /\ v10' = v10 \/ v10' = [v10 EXCEPT !.asked = v9.frame]
    BY <1>6 DEF CanImu!ImuTx
  <2>2. v9' \in ImuBus /\ v9'.frame = 0 /\ v9'.starts = v9.starts
    BY <1>2, <1>4, <2>1 DEF ImuBus
  <2>3. v5' \in [done : {"No", "Sent", "Failed"}, at : Nat] /\ v5'.done # "No"
    BY <1>2, <2>1
  <2>4. v10' \in ImuUnit /\ v10'.sent = v10.sent /\ v10'.zeros = v10.zeros
    BY <1>2, <2>1 DEF ImuUnit
  <2> QED
    BY <1>1, <1>2, <1>3, <2>2, <2>3, <2>4, ImuGoesOn
<1> QED
  BY <1>5, <1>6

(* The unit measures with the zero it has.                                 *)
LEMMA ImuMeasures == ImuInv /\ (CanImu!MoveZero \/ CanImu!Measure) => ImuInv'
<1> SUFFICES ASSUME ImuInv, CanImu!MoveZero \/ CanImu!Measure PROVE ImuInv'
  OBVIOUS
<1> USE UnitAssumption
<1>0. ImuFits /\ ImuServes /\ ImuStamps
  BY DEF ImuInv
<1>1. UNCHANGED <<v1, v2, v3, v4, v5, v6, v7, v8, v9>>
  BY DEF CanImu!MoveZero, CanImu!Measure
<1>2. v10 \in ImuUnit /\ v10.zeros \in Nat /\ v10.sent \in Seq(ImuFrames) /\ v1 \in Nat /\ v3.number \in Nat
  BY <1>0, ImuIs DEF ImuFits
<1>3. SUFFICES /\ v10' \in ImuUnit /\ v3.number <= v10'.zeros
               /\ \A i \in 1 .. Len(v10'.sent) :
                    /\ v1 <= v10'.sent[i].due /\ v10'.sent[i].due <= v1 + WireLatency
                    /\ SinceTheEpoch(v10'.sent[i].zeros, v10'.sent[i].due)
  BY <1>0, <1>1 DEF ImuInv, ImuFits, ImuServes, ImuStamps, SinceTheEpoch, CanImu!TypeOK,
                    CanImu!RequestIsRetired, CanImu!EpochIsTrue
<1>4. v3.number <= v10.zeros
  BY <1>0 DEF ImuStamps
<1>5. CASE CanImu!MoveZero
  <2>1. v10' = [v10 EXCEPT !.zeros = @ + 1] /\ v10.zeros + 1 \in Nat
    BY <1>2, <1>5 DEF CanImu!MoveZero
  <2>2. v10' \in ImuUnit /\ v10'.zeros = v10.zeros + 1 /\ v10'.sent = v10.sent
    BY <1>2, <2>1 DEF ImuUnit
  <2> QED
    BY <1>0, <1>2, <1>4, <2>2 DEF ImuStamps
<1>6. CASE CanImu!Measure
  <2>1. PICK rid \in Registers :
          v10' = [v10 EXCEPT !.asked = 0,
                    !.sent = Append(@, [rid |-> rid, zeros |-> v10.zeros, due |-> v1 + WireLatency])]
    BY <1>2, <1>6 DEF CanImu!Measure, Registers, ImuUnit
  <2> DEFINE frame == [rid |-> rid, zeros |-> v10.zeros, due |-> v1 + WireLatency]
  <2>2. v1 + WireLatency \in Nat /\ v1 <= v1 + WireLatency
    BY <1>2
  <2>3. frame \in ImuFrames /\ frame.zeros = v10.zeros /\ frame.due = v1 + WireLatency
    BY <1>2, <2>2 DEF ImuFrames
  <2>4. v10' = [v10 EXCEPT !.asked = 0, !.sent = Append(@, frame)]
    BY <2>1
  <2> HIDE DEF frame
  <2>5. /\ Append(v10.sent, frame) \in Seq(ImuFrames)
        /\ Len(Append(v10.sent, frame)) = Len(v10.sent) + 1 /\ Len(v10.sent) \in Nat
        /\ \A i \in 1 .. Len(v10.sent) : Append(v10.sent, frame)[i] = v10.sent[i]
        /\ Append(v10.sent, frame)[Len(v10.sent) + 1] = frame
    BY <1>2, <2>3
  <2>6. v10' \in ImuUnit /\ v10'.zeros = v10.zeros /\ v10'.sent = Append(v10.sent, frame)
    BY <1>2, <2>4, <2>5 DEF ImuUnit
  <2>7. SUFFICES ASSUME NEW i \in 1 .. Len(v10'.sent)
                 PROVE  /\ v1 <= v10'.sent[i].due /\ v10'.sent[i].due <= v1 + WireLatency
                        /\ SinceTheEpoch(v10'.sent[i].zeros, v10'.sent[i].due)
    BY <1>4, <2>6
  <2>8. CASE i \in 1 .. Len(v10.sent)
    BY <1>0, <2>5, <2>6, <2>8 DEF ImuStamps
  <2>9. CASE i = Len(v10.sent) + 1
    <3>1. v10'.sent[i] = frame
      BY <2>5, <2>6, <2>9
    <3>2. v1 + WireLatency <= v1 + WireLatency
      BY <2>2
    <3> QED
      BY <1>4, <2>2, <2>3, <3>1, <3>2 DEF SinceTheEpoch
  <2> QED
    BY <2>5, <2>6, <2>8, <2>9
<1> QED
  BY <1>5, <1>6

(* Time passes, but not beyond the arrival of what is under way.           *)
LEMMA ImuAges == ImuInv /\ CanImu!ImuTick => ImuInv'
<1> SUFFICES ASSUME ImuInv, CanImu!ImuTick PROVE ImuInv'
  OBVIOUS
<1> USE UnitAssumption
<1>0. ImuFits /\ ImuServes /\ ImuStamps
  BY DEF ImuInv
<1>1. /\ v1' = v1 + 1 /\ UNCHANGED <<v2, v3, v4, v5, v6, v7, v8, v9, v10>>
      /\ \A i \in DOMAIN v10.sent : v1 < v10.sent[i].due
  BY DEF CanImu!ImuTick
<1>2. v1 \in Nat /\ v1 + 1 \in Nat /\ v10.sent \in Seq(ImuFrames)
  <2>1. v1 \in Nat /\ v10.sent \in Seq(ImuFrames)
    BY ImuIs
  <2> QED
    BY <2>1
<1>3. ASSUME NEW i \in 1 .. Len(v10.sent)
      PROVE  v1 + 1 <= v10.sent[i].due /\ v10.sent[i].due <= v1 + 1 + WireLatency
  <2>1. v10.sent[i] \in ImuFrames /\ i \in DOMAIN v10.sent
    BY <1>2, ElementOfSeq
  <2>2. v10.sent[i].due \in Nat
    BY <2>1 DEF ImuFrames
  <2>3. v1 < v10.sent[i].due /\ v10.sent[i].due <= v1 + WireLatency
    BY <1>0, <1>1, <2>1 DEF ImuStamps
  <2> QED
    BY <1>2, <2>2, <2>3
<1>4. ImuFits'
  BY <1>0, <1>1, <1>2 DEF ImuFits
<1>5. ImuServes'
  BY <1>0, <1>1 DEF ImuServes, CanImu!TypeOK, CanImu!RequestIsRetired
<1>6. ImuStamps'
  BY <1>0, <1>1, <1>3 DEF ImuStamps, SinceTheEpoch, CanImu!EpochIsTrue
<1> QED
  BY <1>4, <1>5, <1>6 DEF ImuInv

(* A report arrives, or is lost; it is not late.                           *)
LEMMA ImuHears == ImuInv /\ CanImu!ImuRx => ImuInv'
<1> SUFFICES ASSUME ImuInv, CanImu!ImuRx PROVE ImuInv'
  OBVIOUS
<1> USE UnitAssumption
<1>0. ImuFits /\ ImuServes /\ ImuStamps
  BY DEF ImuInv
<1> DEFINE frame == Head(v10.sent)
           event == [rid |-> frame.rid, zeros |-> frame.zeros, start |-> v9.starts, at |-> v1]
<1>1. /\ v10.sent # <<>> /\ v10' = [v10 EXCEPT !.sent = Tail(@)]
      /\ UNCHANGED <<v1, v2, v3, v4, v5, v7, v8, v9>>
      /\ v6' = v6 \/ v6' = CanImu!Received(v6, event)
  BY DEF CanImu!ImuRx
<1>2. /\ v10 \in ImuUnit /\ v10.zeros \in Nat /\ v10.sent \in Seq(ImuFrames)
      /\ v1 \in Nat /\ v9.starts \in Nat /\ v3.number \in Nat /\ v3.after \in Nat
      /\ v6 \in ImuRing /\ v6.queue \in Seq(ImuEvents) /\ v6.gap \in BOOLEAN
  BY <1>0, ImuIs DEF ImuFits, ImuRing
<1>3. /\ Tail(v10.sent) \in Seq(ImuFrames) /\ Len(v10.sent) \in Nat \ {0}
      /\ Len(Tail(v10.sent)) = Len(v10.sent) - 1
      /\ \A i \in 1 .. Len(Tail(v10.sent)) : Tail(v10.sent)[i] = v10.sent[i + 1]
      /\ frame = v10.sent[1] /\ v10.sent[1] \in ImuFrames
  BY <1>1, <1>2, Loses
<1>4. v10' \in ImuUnit /\ v10'.zeros = v10.zeros /\ v10'.sent = Tail(v10.sent)
  BY <1>1, <1>2, <1>3 DEF ImuUnit
<1>5. event \in ImuEvents /\ event.start = v9.starts /\ SinceTheEpoch(event.zeros, event.at)
  <2>1. frame \in ImuFrames /\ frame.zeros \in Nat /\ frame.due \in Nat
    BY <1>3 DEF ImuFrames
  <2>2. event \in ImuEvents /\ event.start = v9.starts /\ event.zeros = frame.zeros /\ event.at = v1
    BY <1>2, <2>1 DEF ImuEvents, ImuFrames
  <2>3. 1 \in 1 .. Len(v10.sent)
    BY <1>3
  <2>4. v1 <= frame.due /\ SinceTheEpoch(frame.zeros, frame.due)
    BY <1>0, <1>3, <2>3 DEF ImuStamps
  <2> QED
    BY <1>2, <2>1, <2>2, <2>4 DEF SinceTheEpoch
<1> HIDE DEF event
<1>6. /\ v6' \in ImuRing /\ Len(v6'.queue) <= RxDepth
      /\ \A i \in 1 .. Len(v6'.queue) : /\ v6'.queue[i].start = v9.starts
                                        /\ SinceTheEpoch(v6'.queue[i].zeros, v6'.queue[i].at)
  <2>1. Len(v6.queue) <= RxDepth
    BY <1>0 DEF ImuServes, CanImu!TypeOK
  <2>2. \A i \in 1 .. Len(v6.queue) : /\ v6.queue[i].start = v9.starts
                                      /\ SinceTheEpoch(v6.queue[i].zeros, v6.queue[i].at)
    BY <1>0 DEF ImuStamps
  <2>3. CASE v6' = v6
    BY <1>2, <2>1, <2>2, <2>3
  <2>4. CASE v6' = [queue |-> <<event>>, gap |-> TRUE]
    <3>1. <<event>> \in Seq(ImuEvents) /\ Len(<<event>>) = 1 /\ <<event>>[1] = event
      BY <1>5
    <3>2. v6' \in ImuRing /\ v6'.queue = <<event>>
      BY <2>4, <3>1 DEF ImuRing
    <3> QED
      BY <1>5, <3>1, <3>2
  <2>5. CASE v6' = [v6 EXCEPT !.queue = Append(@, event)] /\ Len(v6.queue) # RxDepth
    <3>1. /\ Append(v6.queue, event) \in Seq(ImuEvents)
          /\ Len(Append(v6.queue, event)) = Len(v6.queue) + 1 /\ Len(v6.queue) \in Nat
          /\ \A i \in 1 .. Len(v6.queue) : Append(v6.queue, event)[i] = v6.queue[i]
          /\ Append(v6.queue, event)[Len(v6.queue) + 1] = event
      BY <1>2, <1>5
    <3>2. v6' \in ImuRing /\ v6'.queue = Append(v6.queue, event)
      BY <1>2, <2>5, <3>1 DEF ImuRing
    <3>3. Len(v6'.queue) <= RxDepth
      BY <2>1, <2>5, <3>1, <3>2
    <3>4. \A i \in 1 .. Len(v6'.queue) : i \in 1 .. Len(v6.queue) \/ i = Len(v6.queue) + 1
      BY <3>1, <3>2
    <3> QED
      BY <1>5, <2>2, <3>1, <3>2, <3>3, <3>4
  <2> QED
    BY <1>1, <2>3, <2>4, <2>5 DEF CanImu!Received
<1>7. \A i \in 1 .. Len(v10'.sent) :
         /\ v1 <= v10'.sent[i].due /\ v10'.sent[i].due <= v1 + WireLatency
         /\ SinceTheEpoch(v10'.sent[i].zeros, v10'.sent[i].due)
  <2>1. \A i \in 1 .. Len(Tail(v10.sent)) : i + 1 \in 1 .. Len(v10.sent)
    BY <1>3
  <2> QED
    BY <1>0, <1>3, <1>4, <2>1 DEF ImuStamps
<1>8. ImuFits'
  BY <1>0, <1>1, <1>4, <1>6 DEF ImuFits
<1>9. ImuServes'
  BY <1>0, <1>1, <1>6 DEF ImuServes, CanImu!TypeOK, CanImu!RequestIsRetired
<1>10. ImuStamps'
  BY <1>0, <1>1, <1>4, <1>6, <1>7 DEF ImuStamps, SinceTheEpoch, CanImu!EpochIsTrue
<1> QED
  BY <1>8, <1>9, <1>10 DEF ImuInv

LEMMA ImuStep == ImuInv /\ CanImu!Next => ImuInv'
BY ImuControls, ImuBegins, ImuConsumes, ImuEnds, ImuResets, ImuMeasures, ImuAges, ImuHears, ImuBusActs
   DEF CanImu!Next

(* Only service() at its loop, and the reset, touch what is published.     *)
LEMMA ImuPublishes == ImuInv /\ CanImu!Next => CanImu!PublishesOfThisStart
<1> SUFFICES ASSUME ImuInv, CanImu!Next, v7' # v7 PROVE v7'.start \in {0, v9.starts}
  BY DEF CanImu!PublishesOfThisStart
<1>1. CanImu!Consume \/ CanImu!ResetReference
  BY DEF CanImu!Next, CanImu!StartUnit, CanImu!StopUnit, CanImu!Recover, CanImu!BeginService, CanImu!EndService,
         CanImu!MoveZero, CanImu!Measure, CanImu!ImuRx, CanImu!ImuTx, CanImu!ImuBusOff, CanImu!ImuTick
<1>2. CASE CanImu!ResetReference
  BY <1>2 DEF CanImu!ResetReference, CanImu!NoReport
<1>3. CASE CanImu!Consume
  <2>1. /\ v6.queue # <<>>
        /\ v7' = [epoch |-> v3.number, zeros |-> Head(v6.queue).zeros, start |-> Head(v6.queue).start]
    BY <1>3 DEF CanImu!Consume
  <2>2. v6.queue \in Seq(ImuEvents) /\ ImuStamps
    BY DEF ImuInv, ImuFits, ImuRing
  <2>3. Head(v6.queue) = v6.queue[1] /\ 1 \in 1 .. Len(v6.queue)
    BY <2>1, <2>2, Loses
  <2> QED
    BY <2>1, <2>2, <2>3 DEF ImuStamps
<1> QED
  BY <1>1, <1>2, <1>3

-----------------------------------------------------------------------------
(* The pair of wires of RS485 (Rs485Grant): v1 is the coordinator, v2 the  *)
(* responder, v3 the request in the responder's UART, v4 the reply, v5 the *)
(* reboots.                                                                *)
Coordinators == [phase : {"Idle", "Sending", "AwaitReply"}, sending : Nat, quiet : Nat, deadline : Nat,
                 poll : Nat, startup : Nat, token : 0 .. 2, replied : BOOLEAN]
Responders   == [phase : {"Idle", "Sending", "ReplyGranted"}, sending : Nat, quiet : Nat, deadline : Nat,
                 token : 0 .. 2]
WireFrames   == [token : 0 .. 2, left : Nat, age : Nat, there : BOOLEAN]

WiresFit ==
    /\ v1 \in Coordinators /\ v2 \in Responders /\ v3 \in WireFrames /\ v4 \in WireFrames /\ v5 \in Nat
    /\ v1.sending > 0 => v1.phase = "Sending"
    /\ v2.sending > 0 => v2.phase = "Sending"

(* Whatever the responder sends, may still send for its grant or for the   *)
(* request in its UART, has left the wires after n milliseconds.           *)
ReplyOver(end, frame, n) ==
    /\ end.sending <= n
    /\ end.phase = "ReplyGranted" => end.deadline <= n + Rs485!Margin + 1
    /\ frame.there => frame.left + Window <= n + frame.age + Rs485!Margin + 1

(* A grant that can still be answered is that of the open request.         *)
GrantIsOpen(end, frame, token) ==
    /\ end.phase = "ReplyGranted" /\ end.deadline > Rs485!Margin + 1 => end.token = token
    /\ frame.there /\ frame.left + Window > frame.age + Rs485!Margin + 1 => frame.token = token

WiresInv ==
    /\ WiresFit /\ ReplyOver(v2, v3, Window)
    /\ v1.phase = "Idle" => ReplyOver(v2, v3, v1.startup)
    /\ v1.phase = "AwaitReply" => ReplyOver(v2, v3, v1.deadline)
    /\ v1.sending > 0 => ReplyOver(v2, v3, 0)
    /\ v1.phase # "Idle" => GrantIsOpen(v2, v3, v1.token)

LEMMA WiresStart == Rs485!Init => WiresInv
<1> SUFFICES ASSUME Rs485!Init PROVE WiresInv
  OBVIOUS
<1> USE WiresAssumption DEF Rs485!Init, Rs485!NewCoordinator, Rs485!NewResponder, Rs485!NoFrame, Rs485!Margin
<1>1. WiresFit
  BY DEF WiresFit, Coordinators, Responders, WireFrames
<1> QED
  BY <1>1 DEF WiresInv, ReplyOver, GrantIsOpen

(* The fields of the ends and the frames.                                  *)
LEMMA WiresAre ==
  ASSUME WiresFit
  PROVE  /\ v1.sending \in Nat /\ v1.quiet \in Nat /\ v1.deadline \in Nat /\ v1.poll \in Nat /\ v1.startup \in Nat
         /\ v1.token \in 0 .. 2 /\ v1.replied \in BOOLEAN /\ v1.phase \in {"Idle", "Sending", "AwaitReply"}
         /\ v2.sending \in Nat /\ v2.quiet \in Nat /\ v2.deadline \in Nat
         /\ v2.token \in 0 .. 2 /\ v2.phase \in {"Idle", "Sending", "ReplyGranted"}
         /\ v3.token \in 0 .. 2 /\ v3.left \in Nat /\ v3.age \in Nat /\ v3.there \in BOOLEAN
         /\ v4.token \in 0 .. 2 /\ v4.left \in Nat /\ v4.age \in Nat /\ v4.there \in BOOLEAN
BY DEF WiresFit, Coordinators, Responders, WireFrames

LEMMA OverGrows ==
  ASSUME NEW end \in Responders, NEW frame \in WireFrames, NEW n \in Nat, NEW m \in Nat, n <= m,
         ReplyOver(end, frame, n)
  PROVE  ReplyOver(end, frame, m)
BY WiresAssumption DEF ReplyOver, Rs485!Margin, Responders, WireFrames

LEMMA OverLater ==
  ASSUME WiresFit, NEW n \in Nat, NEW m \in Nat, n <= m, ReplyOver(v2, v3, n)
  PROVE  ReplyOver(v2, v3, m)
BY OverGrows DEF WiresFit

(* With nothing to come, no grant is open.                                 *)
LEMMA OverIsOpen ==
  ASSUME WiresFit, ReplyOver(v2, v3, 0), NEW token
  PROVE  GrantIsOpen(v2, v3, token)
BY WiresAre, WiresAssumption DEF ReplyOver, GrantIsOpen, Rs485!Margin

(* What the coordinator makes of its phase before it sends.                *)
LEMMA HeardIs ==
  ASSUME WiresInv
  PROVE  LET next == Rs485!CoordinatorHeard
         IN  /\ next \in Coordinators
             /\ next.sending = v1.sending /\ next.token = v1.token /\ next.startup = v1.startup
             /\ next.sending > 0 => next.phase = "Sending"
             /\ next.phase = "Idle" => ReplyOver(v2, v3, next.startup)
             /\ next.phase = "AwaitReply" => ReplyOver(v2, v3, next.deadline)
             /\ next.phase # "Idle" => v1.phase # "Idle"
<1> USE WiresAssumption
<1> DEFINE sent  == IF v1.phase = "Sending" /\ v1.sending = 0
                    THEN [v1 EXCEPT !.phase = "AwaitReply", !.deadline = Window] ELSE v1
           open  == sent.phase = "Sending" \/ (sent.phase = "AwaitReply" /\ sent.deadline > 0)
           fits  == Rs485!Reported(v4) /\ open /\ v4.token = sent.token /\ ~sent.replied
           heard == IF ~Rs485!Reported(v4) THEN sent
                    ELSE [sent EXCEPT !.replied = @ \/ fits,
                             !.quiet = IF v4.age < Turnaround THEN Turnaround - v4.age ELSE 0]
           next  == IF heard.phase = "AwaitReply" /\ heard.deadline = 0
                    THEN [heard EXCEPT !.phase = "Idle", !.poll = PollTime] ELSE heard
<1>1. Rs485!CoordinatorHeard = next
  BY DEF Rs485!CoordinatorHeard
<1>2. WiresFit
  BY DEF WiresInv
<1>3. /\ sent \in Coordinators
      /\ sent.sending = v1.sending /\ sent.token = v1.token /\ sent.startup = v1.startup
      /\ sent.sending > 0 => sent.phase = "Sending"
      /\ sent.phase = "Idle" => ReplyOver(v2, v3, sent.startup)
      /\ sent.phase = "AwaitReply" => ReplyOver(v2, v3, sent.deadline)
      /\ sent.phase # "Idle" => v1.phase # "Idle"
  <2>1. CASE v1.phase = "Sending" /\ v1.sending = 0
    <3>1. sent = [v1 EXCEPT !.phase = "AwaitReply", !.deadline = Window]
      BY <2>1
    <3>2. /\ sent \in Coordinators /\ sent.sending = v1.sending /\ sent.token = v1.token
          /\ sent.startup = v1.startup /\ sent.phase = "AwaitReply" /\ sent.deadline = Window
      BY <1>2, <3>1 DEF WiresFit, Coordinators
    <3> QED
      BY <2>1, <3>2 DEF WiresInv
  <2>2. CASE ~(v1.phase = "Sending" /\ v1.sending = 0)
    BY <2>2 DEF WiresInv, WiresFit
  <2> QED
    BY <2>1, <2>2
<1> HIDE DEF sent
<1>4. /\ heard \in Coordinators
      /\ heard.phase = sent.phase /\ heard.deadline = sent.deadline /\ heard.sending = sent.sending
      /\ heard.token = sent.token /\ heard.startup = sent.startup
  <2>1. CASE ~Rs485!Reported(v4)
    BY <1>3, <2>1
  <2>2. CASE Rs485!Reported(v4)
    <3> DEFINE still   == IF v4.age < Turnaround THEN Turnaround - v4.age ELSE 0
               replied == sent.replied \/ fits
    <3>1. still \in Nat
      BY <1>2, WiresAre
    <3>2. replied \in BOOLEAN
      BY <1>2, <1>3, WiresAre DEF Coordinators, Rs485!Reported
    <3>3. heard = [sent EXCEPT !.replied = replied, !.quiet = still]
      BY <2>2, <1>3 DEF Coordinators
    <3> HIDE DEF still, replied, heard
    <3> QED
      BY <1>3, <3>1, <3>2, <3>3 DEF Coordinators
  <2> QED
    BY <2>1, <2>2
<1> HIDE DEF heard
<1>5. CASE heard.phase = "AwaitReply" /\ heard.deadline = 0
  <2>1. next = [heard EXCEPT !.phase = "Idle", !.poll = PollTime]
    BY <1>5
  <2>2. /\ next \in Coordinators /\ next.sending = heard.sending /\ next.token = heard.token
        /\ next.startup = heard.startup /\ next.phase = "Idle"
    BY <1>4, <2>1 DEF Coordinators
  <2>3. heard.sending = 0
    <3>1. heard.sending \in Nat /\ ~(heard.sending > 0)
      BY <1>3, <1>4, <1>5 DEF Coordinators
    <3> QED
      BY <3>1
  <2>4. ReplyOver(v2, v3, 0) /\ next.startup \in Nat /\ 0 <= next.startup
    BY <1>3, <1>4, <1>5, <2>2 DEF Coordinators
  <2>5. ReplyOver(v2, v3, next.startup)
    BY <1>2, <2>4, OverLater
  <2> HIDE DEF next
  <2> QED
    BY <1>1, <1>3, <1>4, <2>2, <2>3, <2>5
<1>6. CASE ~(heard.phase = "AwaitReply" /\ heard.deadline = 0)
  <2>1. next = heard
    BY <1>6
  <2> HIDE DEF next
  <2> QED
    BY <1>1, <1>3, <1>4, <2>1
<1> QED
  BY <1>5, <1>6

LEMMA WiresPoll == WiresInv /\ Rs485!CoordinatorService => WiresInv'
<1> SUFFICES ASSUME WiresInv, Rs485!CoordinatorService PROVE WiresInv'
  OBVIOUS
<1> USE WiresAssumption
<1> DEFINE next == Rs485!CoordinatorHeard
<1>0. WiresFit
  BY DEF WiresInv
<1>1. UNCHANGED <<v2, v3, v5>> /\ v4' = IF Rs485!Reported(v4) THEN Rs485!NoFrame ELSE v4
  BY DEF Rs485!CoordinatorService
<1>2. v4' \in WireFrames
  BY <1>0, <1>1 DEF WiresFit, WireFrames, Rs485!NoFrame
<1>3. /\ next \in Coordinators
      /\ next.sending = v1.sending /\ next.token = v1.token /\ next.startup = v1.startup
      /\ next.sending > 0 => next.phase = "Sending"
      /\ next.phase = "Idle" => ReplyOver(v2, v3, next.startup)
      /\ next.phase = "AwaitReply" => ReplyOver(v2, v3, next.deadline)
      /\ next.phase # "Idle" => v1.phase # "Idle"
  BY HeardIs
<1> HIDE DEF next
<1>4. SUFFICES /\ v1' \in Coordinators
               /\ v1'.sending > 0 => v1'.phase = "Sending"
               /\ v1'.phase = "Idle" => ReplyOver(v2, v3, v1'.startup)
               /\ v1'.phase = "AwaitReply" => ReplyOver(v2, v3, v1'.deadline)
               /\ v1'.sending > 0 => ReplyOver(v2, v3, 0)
               /\ v1'.phase # "Idle" => GrantIsOpen(v2, v3, v1'.token)
  <2>0. v2' = v2 /\ v3' = v3 /\ v5' = v5
    BY <1>1
  <2>1. WiresFit'
    BY <1>0, <1>2, <1>4, <2>0 DEF WiresFit
  <2> QED
    BY <1>1, <1>4, <2>1 DEF WiresInv
<1>5. CASE v1' = next
  BY <1>3, <1>5 DEF WiresInv
<1>6. CASE /\ next.phase = "Idle" /\ next.startup = 0
           /\ \E wire \in 1 .. MaxWire :
                 v1' = [next EXCEPT !.phase = "Sending", !.sending = wire,
                           !.replied = FALSE, !.token = (@ + 1) % 3]
  <2>1. PICK wire \in 1 .. MaxWire :
          v1' = [next EXCEPT !.phase = "Sending", !.sending = wire,
                    !.replied = FALSE, !.token = (@ + 1) % 3]
    BY <1>6
  <2>2. wire \in Nat /\ next.token \in 0 .. 2
    BY <1>3 DEF Coordinators
  <2> DEFINE token == (next.token + 1) % 3
  <2>3. token \in 0 .. 2
    BY <2>2
  <2>4. v1' = [next EXCEPT !.phase = "Sending", !.sending = wire, !.replied = FALSE, !.token = token]
    BY <2>1
  <2> HIDE DEF token
  <2>5. v1' \in Coordinators /\ v1'.phase = "Sending"
    BY <1>3, <2>2, <2>3, <2>4 DEF Coordinators
  <2>6. ReplyOver(v2, v3, 0)
    BY <1>3, <1>6
  <2> QED
    BY <1>0, <2>5, <2>6, OverIsOpen
<1> QED
  BY <1>5, <1>6 DEF Rs485!CoordinatorService, next

(* The responder sends only what fits into the rest of its grant.          *)
LEMMA WiresReply ==
  ASSUME WiresInv, Rs485!ResponderService
  PROVE  /\ v2' \in Responders /\ v3' \in WireFrames /\ UNCHANGED <<v1, v4, v5>>
         /\ v2'.sending > 0 => v2'.phase = "Sending"
         /\ \A n \in Nat : ReplyOver(v2, v3, n) => ReplyOver(v2', v3', n)
         /\ \A token : GrantIsOpen(v2, v3, token) => GrantIsOpen(v2', v3', token)
         /\ \A token : GrantIsOpen(v2, v3, token) /\ v2.sending = 0 /\ v2'.sending > 0 => v2'.token = token
         /\ \A n \in Nat : ReplyOver(v2, v3, n) /\ v2.sending = 0 /\ v2'.sending > 0 => n > 0
<1> USE WiresAssumption
<1>0. WiresFit
  BY DEF WiresInv
<1> DEFINE sent == IF v2.phase = "Sending" /\ v2.sending = 0 THEN [v2 EXCEPT !.phase = "Idle"] ELSE v2
           next == Rs485!Granted(sent)
           over == IF next.phase = "ReplyGranted" /\ next.deadline = 0 THEN [next EXCEPT !.phase = "Idle"] ELSE next
<1>1. /\ UNCHANGED <<v1, v4, v5>>
      /\ v3' = IF Rs485!Reported(v3) THEN Rs485!NoFrame ELSE v3
      /\ \/ v2' = over
         \/ /\ over.phase = "ReplyGranted"
            /\ \E wire \in 1 .. MaxWire :
                  v2' = IF Rs485!TooLate(over.deadline, wire) THEN [over EXCEPT !.phase = "Idle"]
                        ELSE [over EXCEPT !.phase = "Sending", !.sending = wire]
  BY DEF Rs485!ResponderService
<1>2. v3' \in WireFrames /\ (v3'.there => v3' = v3 /\ ~Rs485!Reported(v3))
  <2>1. v3 \in WireFrames /\ Rs485!NoFrame \in WireFrames /\ ~Rs485!NoFrame.there
    BY <1>0 DEF WiresFit, WireFrames, Rs485!NoFrame
  <2> QED
    BY <1>1, <2>1
<1>3. /\ sent \in Responders /\ sent.sending = v2.sending /\ sent.token = v2.token /\ sent.deadline = v2.deadline
      /\ sent.sending > 0 => sent.phase = "Sending"
      /\ sent.phase = "ReplyGranted" <=> v2.phase = "ReplyGranted"
      /\ sent.phase = "Sending" => v2.sending > 0
  <2>1. CASE v2.phase = "Sending" /\ v2.sending = 0
    <3>1. sent = [v2 EXCEPT !.phase = "Idle"]
      BY <2>1
    <3>2. /\ sent \in Responders /\ sent.sending = v2.sending /\ sent.token = v2.token
          /\ sent.deadline = v2.deadline /\ sent.phase = "Idle"
      BY <1>0, <3>1 DEF WiresFit, Responders
    <3> HIDE DEF sent
    <3> QED
      BY <2>1, <3>2
  <2>2. CASE ~(v2.phase = "Sending" /\ v2.sending = 0)
    BY <1>0, <2>2, WiresAre DEF WiresFit
  <2> QED
    BY <2>1, <2>2
<1> HIDE DEF sent
<1>4. /\ next \in Responders /\ next.sending = v2.sending
      /\ next.sending > 0 => next.phase = "Sending"
      /\ next.phase = "Sending" => v2.sending > 0
      /\ next.phase = "ReplyGranted" =>
            \/ v2.phase = "ReplyGranted" /\ next.deadline = v2.deadline /\ next.token = v2.token
            \/ /\ Rs485!Reported(v3) /\ next.token = v3.token
               /\ next.deadline = IF v3.age < Window THEN Window - v3.age ELSE 0
  <2>1. CASE ~Rs485!Reported(v3) \/ sent.phase = "Sending"
    <3>1. next = sent
      BY <2>1 DEF Rs485!Granted
    <3> HIDE DEF next
    <3> QED
      BY <1>3, <3>1
  <2>2. CASE ~(~Rs485!Reported(v3) \/ sent.phase = "Sending")
    <3> DEFINE deadline == IF v3.age < Window THEN Window - v3.age ELSE 0
               quiet    == IF v3.age < Turnaround THEN Turnaround - v3.age ELSE 0
    <3>1. deadline \in Nat /\ quiet \in Nat /\ v3.token \in 0 .. 2
      BY <1>0, WiresAre
    <3>2. next = [sent EXCEPT !.phase = "ReplyGranted", !.token = v3.token, !.deadline = deadline, !.quiet = quiet]
      BY <2>2 DEF Rs485!Granted
    <3>3. ~(v2.sending > 0) /\ sent.sending = v2.sending
      BY <1>3, <2>2
    <3> HIDE DEF next, deadline, quiet
    <3>4. /\ next \in Responders /\ next.sending = sent.sending /\ next.phase = "ReplyGranted"
          /\ next.token = v3.token /\ next.deadline = deadline
      BY <1>3, <3>1, <3>2 DEF Responders
    <3> QED
      BY <2>2, <3>3, <3>4 DEF deadline
  <2> QED
    BY <2>1, <2>2
<1> HIDE DEF next
<1>5. /\ over \in Responders /\ over.sending = v2.sending
      /\ over.sending > 0 => over.phase = "Sending"
      /\ over.phase = "Sending" => v2.sending > 0
      /\ over.phase = "ReplyGranted" =>
            /\ next.phase = "ReplyGranted" /\ over.deadline = next.deadline /\ over.token = next.token
  <2>1. CASE next.phase = "ReplyGranted" /\ next.deadline = 0
    <3>1. over = [next EXCEPT !.phase = "Idle"]
      BY <2>1
    <3>2. over \in Responders /\ over.sending = next.sending /\ over.phase = "Idle"
      BY <1>4, <3>1 DEF Responders
    <3> HIDE DEF over
    <3> QED
      BY <1>4, <2>1, <3>2
  <2>2. CASE ~(next.phase = "ReplyGranted" /\ next.deadline = 0)
    BY <1>4, <2>2
  <2> QED
    BY <2>1, <2>2
<1> HIDE DEF over
<1>6. ASSUME over.phase = "ReplyGranted"
      PROVE  /\ \A n \in Nat : ReplyOver(v2, v3, n) => over.deadline <= n + Rs485!Margin + 1
             /\ \A token : GrantIsOpen(v2, v3, token) /\ over.deadline > Rs485!Margin + 1 => over.token = token
  <2>1. \/ v2.phase = "ReplyGranted" /\ over.deadline = v2.deadline /\ over.token = v2.token
        \/ /\ Rs485!Reported(v3) /\ over.token = v3.token
           /\ over.deadline = IF v3.age < Window THEN Window - v3.age ELSE 0
    BY <1>4, <1>5, <1>6
  <2>2. CASE v2.phase = "ReplyGranted" /\ over.deadline = v2.deadline /\ over.token = v2.token
    BY <2>2 DEF ReplyOver, GrantIsOpen
  <2>3. CASE /\ Rs485!Reported(v3) /\ over.token = v3.token
             /\ over.deadline = IF v3.age < Window THEN Window - v3.age ELSE 0
    <3>1. v3.there /\ v3.left = 0 /\ v3.age \in Nat
      BY <1>0, <2>3, WiresAre DEF Rs485!Reported
    <3>2. ASSUME NEW n \in Nat, ReplyOver(v2, v3, n) PROVE over.deadline <= n + Rs485!Margin + 1
      BY <2>3, <3>1, <3>2 DEF ReplyOver, Rs485!Margin
    <3>3. ASSUME NEW token, GrantIsOpen(v2, v3, token), over.deadline > Rs485!Margin + 1 PROVE over.token = token
      BY <2>3, <3>1, <3>3 DEF GrantIsOpen, Rs485!Margin
    <3> QED
      BY <3>2, <3>3
  <2> QED
    BY <2>1, <2>2, <2>3
<1>7. ASSUME NEW n \in Nat, ReplyOver(v2, v3, n), v3'.there
      PROVE  v3'.left + Window <= n + v3'.age + Rs485!Margin + 1
  BY <1>2, <1>7 DEF ReplyOver
<1>8. ASSUME NEW token, GrantIsOpen(v2, v3, token), v3'.there, v3'.left + Window > v3'.age + Rs485!Margin + 1
      PROVE  v3'.token = token
  BY <1>2, <1>8 DEF GrantIsOpen
<1>9. CASE v2' = over
  <2>1. ASSUME NEW n \in Nat, ReplyOver(v2, v3, n) PROVE ReplyOver(v2', v3', n)
    BY <1>5, <1>6, <1>7, <1>9, <2>1 DEF ReplyOver
  <2>2. ASSUME NEW token, GrantIsOpen(v2, v3, token) PROVE GrantIsOpen(v2', v3', token)
    BY <1>5, <1>6, <1>8, <1>9, <2>2 DEF GrantIsOpen
  <2>3. ~(v2.sending = 0 /\ v2'.sending > 0)
    BY <1>5, <1>9
  <2> QED
    BY <1>1, <1>2, <1>5, <1>9, <2>1, <2>2, <2>3
<1>10. CASE /\ over.phase = "ReplyGranted"
            /\ \E wire \in 1 .. MaxWire :
                  v2' = IF Rs485!TooLate(over.deadline, wire) THEN [over EXCEPT !.phase = "Idle"]
                        ELSE [over EXCEPT !.phase = "Sending", !.sending = wire]
  <2>1. PICK wire \in 1 .. MaxWire :
          v2' = IF Rs485!TooLate(over.deadline, wire) THEN [over EXCEPT !.phase = "Idle"]
                ELSE [over EXCEPT !.phase = "Sending", !.sending = wire]
    BY <1>10
  <2>2. wire \in Nat /\ wire > 0 /\ over.deadline \in Nat /\ over.sending \in Nat /\ ~(over.sending > 0)
    BY <1>5, <1>10 DEF Responders
  <2>3. CASE Rs485!TooLate(over.deadline, wire)
    <3>1. v2' = [over EXCEPT !.phase = "Idle"]
      BY <2>1, <2>3
    <3>2. v2' \in Responders /\ v2'.phase = "Idle" /\ v2'.sending = v2.sending /\ v2'.sending = over.sending
      BY <1>5, <3>1 DEF Responders
    <3>3. ASSUME NEW n \in Nat, ReplyOver(v2, v3, n) PROVE ReplyOver(v2', v3', n)
      BY <1>7, <3>2, <3>3 DEF ReplyOver
    <3>4. ASSUME NEW token, GrantIsOpen(v2, v3, token) PROVE GrantIsOpen(v2', v3', token)
      BY <1>8, <3>2, <3>4 DEF GrantIsOpen
    <3> QED
      BY <1>1, <1>2, <2>2, <3>2, <3>3, <3>4
  <2>4. CASE ~Rs485!TooLate(over.deadline, wire)
    <3>1. v2' = [over EXCEPT !.phase = "Sending", !.sending = wire]
      BY <2>1, <2>4
    <3>2. v2' \in Responders /\ v2'.phase = "Sending" /\ v2'.sending = wire /\ v2'.token = over.token
      BY <1>5, <2>2, <3>1 DEF Responders
    <3>3. over.deadline > wire + Rs485!Margin /\ over.deadline > Rs485!Margin + 1
      BY <2>2, <2>4 DEF Rs485!TooLate, Rs485!Margin
    <3>4. ASSUME NEW n \in Nat, ReplyOver(v2, v3, n) PROVE ReplyOver(v2', v3', n) /\ n > 0
      <4>1. over.deadline <= n + Rs485!Margin + 1
        BY <1>6, <1>10, <3>4
      <4>2. wire <= n /\ n > 0
        BY <2>2, <3>3, <4>1 DEF Rs485!Margin
      <4> QED
        BY <1>7, <3>2, <3>4, <4>2 DEF ReplyOver
    <3>5. ASSUME NEW token, GrantIsOpen(v2, v3, token) PROVE GrantIsOpen(v2', v3', token) /\ v2'.token = token
      BY <1>6, <1>8, <1>10, <3>2, <3>3, <3>5 DEF GrantIsOpen
    <3> QED
      BY <1>1, <1>2, <3>2, <3>4, <3>5
  <2> QED
    BY <2>3, <2>4
<1> QED
  BY <1>1, <1>9, <1>10

LEMMA WiresAnswer == WiresInv /\ Rs485!ResponderService => WiresInv'
<1> SUFFICES ASSUME WiresInv, Rs485!ResponderService PROVE WiresInv'
  OBVIOUS
<1>1. /\ v2' \in Responders /\ v3' \in WireFrames /\ UNCHANGED <<v1, v4, v5>>
      /\ v2'.sending > 0 => v2'.phase = "Sending"
      /\ \A n \in Nat : ReplyOver(v2, v3, n) => ReplyOver(v2', v3', n)
      /\ \A token : GrantIsOpen(v2, v3, token) => GrantIsOpen(v2', v3', token)
  BY WiresReply
<1>2. WiresFit /\ v1.startup \in Nat /\ v1.deadline \in Nat /\ Window \in Nat /\ 0 \in Nat
  BY WiresAre, WiresAssumption DEF WiresInv
<1>3. WiresFit'
  BY <1>1, <1>2 DEF WiresFit
<1> QED
  BY <1>1, <1>2, <1>3 DEF WiresInv

LEMMA WiresReboot == WiresInv /\ (Rs485!RebootCoordinator \/ Rs485!RebootResponder) => WiresInv'
<1> SUFFICES ASSUME WiresInv, Rs485!RebootCoordinator \/ Rs485!RebootResponder PROVE WiresInv'
  OBVIOUS
<1> USE WiresAssumption
<1>0. WiresFit /\ v1.token \in 0 .. 2 /\ v5 \in Nat /\ v5 + 1 \in Nat
  BY WiresAre DEF WiresInv, WiresFit
<1>1. CASE Rs485!RebootCoordinator
  <2> DEFINE token == (v1.token + 1) % 3
  <2>1. token \in 0 .. 2
    BY <1>0
  <2>2. v1' = Rs485!NewCoordinator(token) /\ v4' = Rs485!NoFrame /\ v5' = v5 + 1 /\ UNCHANGED <<v2, v3>>
    BY <1>1 DEF Rs485!RebootCoordinator
  <2> HIDE DEF token
  <2>3. /\ v1' \in Coordinators /\ v1'.sending = 0 /\ v1'.phase = "Idle" /\ v1'.startup = Silence
        /\ v4' \in WireFrames
    BY <2>1, <2>2 DEF Rs485!NewCoordinator, Rs485!NoFrame, Coordinators, WireFrames
  <2>4. WiresFit'
    BY <1>0, <2>2, <2>3 DEF WiresFit
  <2>5. ReplyOver(v2, v3, Window) /\ ReplyOver(v2, v3, Silence)
    BY <1>0, OverLater DEF WiresInv
  <2> QED
    BY <2>2, <2>3, <2>4, <2>5 DEF WiresInv
<1>2. CASE Rs485!RebootResponder
  <2>1. v2' = Rs485!NewResponder /\ v3' = Rs485!NoFrame /\ v5' = v5 + 1 /\ UNCHANGED <<v1, v4>>
    BY <1>2 DEF Rs485!RebootResponder
  <2>2. v2' \in Responders /\ v3' \in WireFrames /\ v2'.sending = 0 /\ v2'.phase = "Idle" /\ ~v3'.there
    BY <2>1 DEF Rs485!NewResponder, Rs485!NoFrame, Responders, WireFrames
  <2>3. WiresFit'
    BY <1>0, <2>1, <2>2 DEF WiresFit
  <2>4. /\ \A n \in Nat : ReplyOver(v2', v3', n)
        /\ \A token : GrantIsOpen(v2', v3', token)
    BY <2>2 DEF ReplyOver, GrantIsOpen
  <2>5. v1.startup \in Nat /\ v1.deadline \in Nat /\ Window \in Nat
    BY <1>0, WiresAre
  <2> QED
    BY <2>1, <2>3, <2>4, <2>5 DEF WiresInv
<1> QED
  BY <1>1, <1>2

(* A millisecond brings the end of a reply nearer.                         *)
LEMMA OverNearer ==
  ASSUME WiresFit, NEW n \in Nat, ReplyOver(v2, v3, n),
         v2'.sending = Rs485!Left(v2.sending), v2'.phase = v2.phase, v2'.deadline = Rs485!Left(v2.deadline),
         v3' = [v3 EXCEPT !.left = Rs485!Left(@),
                  !.age = IF v3.there /\ v3.left = 0 /\ @ < Window THEN @ + 1 ELSE @]
  PROVE  ReplyOver(v2', v3', Rs485!Left(n))
<1> USE WiresAssumption DEF Rs485!Margin, Rs485!Left
<1>1. /\ v3'.there = v3.there /\ v3'.left = Rs485!Left(v3.left)
      /\ v3'.age = IF v3.there /\ v3.left = 0 /\ v3.age < Window THEN v3.age + 1 ELSE v3.age
  BY DEF WiresFit, WireFrames
<1>2. v2'.sending <= Rs485!Left(n)
  BY WiresAre DEF ReplyOver
<1>3. v2'.phase = "ReplyGranted" => v2'.deadline <= Rs485!Left(n) + Rs485!Margin + 1
  BY WiresAre DEF ReplyOver
<1>4. v3'.there => v3'.left + Window <= Rs485!Left(n) + v3'.age + Rs485!Margin + 1
  BY <1>1, WiresAre DEF ReplyOver
<1> QED
  BY <1>2, <1>3, <1>4 DEF ReplyOver

LEMMA OpenStill ==
  ASSUME WiresFit, NEW token, GrantIsOpen(v2, v3, token),
         v2'.phase = v2.phase, v2'.token = v2.token, v2'.deadline = Rs485!Left(v2.deadline),
         v3' = [v3 EXCEPT !.left = Rs485!Left(@),
                  !.age = IF v3.there /\ v3.left = 0 /\ @ < Window THEN @ + 1 ELSE @]
  PROVE  GrantIsOpen(v2', v3', token)
<1> USE WiresAssumption DEF Rs485!Margin, Rs485!Left
<1>1. /\ v3'.there = v3.there /\ v3'.left = Rs485!Left(v3.left) /\ v3'.token = v3.token
      /\ v3'.age = IF v3.there /\ v3.left = 0 /\ v3.age < Window THEN v3.age + 1 ELSE v3.age
  BY DEF WiresFit, WireFrames
<1>2. v2'.phase = "ReplyGranted" /\ v2'.deadline > Rs485!Margin + 1 => v2'.token = token
  BY WiresAre DEF GrantIsOpen
<1>3. v3'.there /\ v3'.left + Window > v3'.age + Rs485!Margin + 1 => v3'.token = token
  BY <1>1, WiresAre DEF GrantIsOpen
<1> QED
  BY <1>2, <1>3 DEF GrantIsOpen

LEMMA WiresTick == WiresInv /\ Rs485!Tick => WiresInv'
<1> SUFFICES ASSUME WiresInv, Rs485!Tick PROVE WiresInv'
  OBVIOUS
<1> USE WiresAssumption
<1>0. WiresFit
  BY DEF WiresInv
<1>1. /\ v1' = [v1 EXCEPT !.sending = Rs485!Left(@), !.quiet = Rs485!Left(@), !.deadline = Rs485!Left(@),
                          !.poll = Rs485!Left(@), !.startup = Rs485!Left(@)]
      /\ v2' = [v2 EXCEPT !.sending = Rs485!Left(@), !.quiet = Rs485!Left(@), !.deadline = Rs485!Left(@)]
      /\ v3' \in Rs485!Arriving(v1, v3) /\ v4' \in Rs485!Arriving(v2, v4) /\ v5' = v5
  BY DEF Rs485!Tick
<1>2. \A n \in Nat : Rs485!Left(n) \in Nat /\ Rs485!Left(n) <= n
  BY DEF Rs485!Left
<1>3. /\ v1' \in Coordinators /\ v1'.phase = v1.phase /\ v1'.token = v1.token
      /\ v1'.sending = Rs485!Left(v1.sending) /\ v1'.deadline = Rs485!Left(v1.deadline)
      /\ v1'.startup = Rs485!Left(v1.startup)
  BY <1>0, <1>1, <1>2 DEF WiresFit, Coordinators
<1>4. /\ v2' \in Responders /\ v2'.phase = v2.phase /\ v2'.token = v2.token
      /\ v2'.sending = Rs485!Left(v2.sending) /\ v2'.deadline = Rs485!Left(v2.deadline)
  BY <1>0, <1>1, <1>2 DEF WiresFit, Responders
<1>5. ASSUME NEW end, end.token \in 0 .. 2, NEW frame \in WireFrames, NEW now \in Rs485!Arriving(end, frame)
      PROVE  now \in WireFrames
  <2>1. CASE end.sending = 1
    <3>1. \/ now = Rs485!NoFrame
          \/ \E wait \in 0 .. Latency : now = [token |-> end.token, left |-> wait, age |-> 0, there |-> TRUE]
      BY <2>1 DEF Rs485!Arriving
    <3>2. \A wait \in 0 .. Latency : [token |-> end.token, left |-> wait, age |-> 0, there |-> TRUE] \in WireFrames
      <4>1. \A wait \in 0 .. Latency : wait \in Nat
        OBVIOUS
      <4> QED
        BY <1>5, <4>1 DEF WireFrames
    <3>3. Rs485!NoFrame \in WireFrames
      BY DEF Rs485!NoFrame, WireFrames
    <3> QED
      BY <3>1, <3>2, <3>3
  <2>2. CASE end.sending # 1
    <3> DEFINE age == IF frame.there /\ frame.left = 0 /\ frame.age < Window THEN frame.age + 1 ELSE frame.age
    <3>1. now = [frame EXCEPT !.left = Rs485!Left(frame.left), !.age = age]
      BY <2>2 DEF Rs485!Arriving
    <3>2. age \in Nat /\ Rs485!Left(frame.left) \in Nat
      BY <1>2 DEF WireFrames
    <3> HIDE DEF age
    <3> QED
      BY <3>1, <3>2 DEF WireFrames
  <2> QED
    BY <2>1, <2>2
<1>6. WiresFit'
  <2>1. v1.token \in 0 .. 2 /\ v2.token \in 0 .. 2 /\ v1.sending \in Nat /\ v2.sending \in Nat
    BY <1>0, WiresAre
  <2>2. v3' \in WireFrames /\ v4' \in WireFrames
    BY <1>0, <1>1, <1>5, <2>1 DEF WiresFit
  <2>3. (v1'.sending > 0 => v1'.phase = "Sending") /\ (v2'.sending > 0 => v2'.phase = "Sending")
    BY <1>0, <1>3, <1>4, <2>1 DEF WiresFit, Rs485!Left
  <2> QED
    BY <1>0, <1>1, <1>3, <1>4, <2>2, <2>3 DEF WiresFit
<1>7. CASE v1.sending # 1
  <2>1. v3' = [v3 EXCEPT !.left = Rs485!Left(@),
                 !.age = IF v3.there /\ v3.left = 0 /\ @ < Window THEN @ + 1 ELSE @]
    BY <1>1, <1>7 DEF Rs485!Arriving
  <2>2. \A n \in Nat : ReplyOver(v2, v3, n) => ReplyOver(v2', v3', Rs485!Left(n))
    BY <1>0, <1>4, <2>1, OverNearer
  <2>3. \A token : GrantIsOpen(v2, v3, token) => GrantIsOpen(v2', v3', token)
    BY <1>0, <1>4, <2>1, OpenStill
  <2>4. v1.startup \in Nat /\ v1.deadline \in Nat /\ v1.sending \in Nat /\ Window \in Nat
    BY <1>0, WiresAre
  <2>5. ReplyOver(v2', v3', Window)
    <3>1. ReplyOver(v2', v3', Rs485!Left(Window))
      BY <2>2 DEF WiresInv
    <3> QED
      BY <1>2, <1>6, <2>4, <3>1, OverGrows DEF WiresFit
  <2>6. v1'.sending > 0 => ReplyOver(v2', v3', 0)
    <3>1. v1'.sending > 0 => v1.sending > 0
      BY <1>3, <2>4 DEF Rs485!Left
    <3> QED
      BY <2>2, <3>1 DEF WiresInv, Rs485!Left
  <2> QED
    BY <1>3, <1>6, <2>2, <2>3, <2>4, <2>5, <2>6 DEF WiresInv
<1>8. CASE v1.sending = 1
  <2>1. \/ v3' = Rs485!NoFrame
        \/ \E wait \in 0 .. Latency : v3' = [token |-> v1.token, left |-> wait, age |-> 0, there |-> TRUE]
    BY <1>1, <1>8 DEF Rs485!Arriving
  <2>2. v1'.sending = 0 /\ v1'.phase = "Sending"
    BY <1>0, <1>3, <1>8 DEF WiresFit, Rs485!Left
  <2>3. v2.sending <= 0 /\ (v2.phase = "ReplyGranted" => v2.deadline <= Rs485!Margin + 1)
    BY <1>8 DEF WiresInv, ReplyOver, Rs485!Margin
  <2>4. v2'.sending <= 0 /\ (v2'.phase = "ReplyGranted" => v2'.deadline <= Rs485!Margin + 1)
    BY <1>0, <1>4, <2>3, WiresAre DEF Rs485!Left, Rs485!Margin
  <2>5. v2'.sending \in Nat /\ v2'.deadline \in Nat
    BY <1>4 DEF Responders
  <2>6. v3'.there => v3'.left <= Latency /\ v3'.left \in Nat /\ v3'.age = 0 /\ v3'.token = v1.token
    BY <2>1 DEF Rs485!NoFrame
  <2>7. ReplyOver(v2', v3', Window) /\ GrantIsOpen(v2', v3', v1.token)
    BY <2>4, <2>5, <2>6 DEF ReplyOver, GrantIsOpen, Rs485!Margin
  <2> QED
    BY <1>3, <1>6, <2>2, <2>7 DEF WiresInv
<1> QED
  BY <1>7, <1>8

LEMMA WiresStep == WiresInv /\ Rs485!Next => WiresInv'
BY WiresPoll, WiresAnswer, WiresReboot, WiresTick DEF Rs485!Next

LEMMA WiresApart == WiresInv => Rs485!NoCollision
BY WiresAre DEF WiresInv, ReplyOver, Rs485!NoCollision

LEMMA WiresGrant == WiresInv /\ Rs485!Next => Rs485!RepliesWhenGranted
<1> SUFFICES ASSUME WiresInv, Rs485!Next, v2.sending = 0, v2'.sending > 0
             PROVE  \/ v1.phase # "Idle" /\ v2'.token = v1.token
                    \/ v1.phase = "Idle" /\ v1.startup > 0
  BY DEF Rs485!RepliesWhenGranted
<1>0. WiresFit
  BY DEF WiresInv
<1>1. Rs485!ResponderService
  <2>1. CASE Rs485!CoordinatorService \/ Rs485!RebootCoordinator
    <3>1. v2' = v2
      BY <2>1 DEF Rs485!CoordinatorService, Rs485!RebootCoordinator
    <3> QED
      BY <3>1
  <2>2. CASE Rs485!RebootResponder
    BY <2>2 DEF Rs485!RebootResponder, Rs485!NewResponder
  <2>3. CASE Rs485!Tick
    BY <1>0, <2>3 DEF Rs485!Tick, Rs485!Left, WiresFit, Responders
  <2> QED
    BY <2>1, <2>2, <2>3 DEF Rs485!Next
<1>2. CASE v1.phase = "Idle"
  <2>1. v1.startup \in Nat /\ ReplyOver(v2, v3, v1.startup)
    BY <1>0, <1>2, WiresAre DEF WiresInv
  <2> QED
    BY <1>1, <1>2, <2>1, WiresReply
<1>3. CASE v1.phase # "Idle"
  BY <1>1, <1>3, WiresReply DEF WiresInv
<1> QED
  BY <1>2, <1>3

-----------------------------------------------------------------------------
(* The inertial unit over RS485 (DmImuRs485): v1 is now, v2 session, v3    *)
(* query, v4 serial, v5 service, v6 sensor, v7 attitude and v8 upsets.     *)
SerialRegisters == {0, 1, Rs485Imu!Attitude}
Queries == [phase : {"Idle", "Sending", "AwaitReply"}, rid : SerialRegisters, retries : 0 .. MaxRetries,
            request : Nat, deadline : Nat, next : Nat, retry : Nat]
Replies == [rid : SerialRegisters, zeros : Nat, stamp : Nat]
Serials == [up : BOOLEAN, tx : {"Idle", "Busy", "Failed"}, queue : Seq(Replies), gap : BOOLEAN]
Sensors == [zeros : Nat, asked : SerialRegisters \cup {Rs485Imu!Unasked}, sent : Seq(Replies)]

SerialFits ==
    /\ v1 \in Nat /\ v2 \in Nat /\ v3 \in Queries /\ v4 \in Serials /\ v5 \in BOOLEAN /\ v6 \in Sensors
    /\ v7 \in [epoch : Nat, zeros : Nat] /\ v8 \in Nat
    /\ v5 => v3.retry <= v1

(* What was measured before the zero had moved to the epoch is stamped     *)
(* before the request it could be taken to answer is made.                 *)
OpenSince(query) == IF query.phase = "Idle" THEN query.next ELSE query.request
CannotPass(reply, query) == reply.zeros >= v2 \/ reply.stamp < OpenSince(query)

SerialStamps ==
    /\ v2 <= v6.zeros
    /\ v3.phase # "Idle" => v3.request <= v1
    /\ \A i \in 1 .. Len(v6.sent) :
         /\ v1 <= v6.sent[i].stamp /\ v6.sent[i].stamp <= v1 + ReplyLatency
         /\ CannotPass(v6.sent[i], v3)
    /\ \A i \in 1 .. Len(v4.queue) : v4.queue[i].stamp <= v1 /\ CannotPass(v4.queue[i], v3)
    /\ Rs485Imu!ReplyIsOfItsEpoch

SerialInv == SerialFits /\ SerialStamps

LEMMA SerialStarts == Rs485Imu!Init => SerialInv
<1> SUFFICES ASSUME Rs485Imu!Init PROVE SerialInv
  OBVIOUS
<1> USE UnitAssumption DEF Rs485Imu!Init, Rs485Imu!Attitude, Rs485Imu!Nothing
<1>1. v3 \in Queries
  BY DEF Queries, SerialRegisters
<1>2. v4 \in Serials /\ v6 \in Sensors
  BY DEF Serials, Sensors
<1>3. SerialFits
  BY <1>1, <1>2 DEF SerialFits
<1>4. Len(v6.sent) = 0 /\ Len(v4.queue) = 0 /\ v3.phase = "Idle" /\ v6.zeros = 1 /\ v2 = 1
  OBVIOUS
<1>5. SerialStamps
  BY <1>4 DEF SerialStamps, Rs485Imu!ReplyIsOfItsEpoch
<1> QED
  BY <1>3, <1>5 DEF SerialInv

LEMMA SerialIs ==
  ASSUME SerialFits
  PROVE  /\ v1 \in Nat /\ v2 \in Nat /\ v5 \in BOOLEAN /\ v8 \in Nat
         /\ v3.phase \in {"Idle", "Sending", "AwaitReply"} /\ v3.rid \in SerialRegisters
         /\ v3.retries \in 0 .. MaxRetries /\ v3.request \in Nat /\ v3.deadline \in Nat /\ v3.next \in Nat
         /\ v3.retry \in Nat
         /\ v4.up \in BOOLEAN /\ v4.tx \in {"Idle", "Busy", "Failed"} /\ v4.queue \in Seq(Replies)
         /\ v4.gap \in BOOLEAN
         /\ v6.zeros \in Nat /\ v6.asked \in SerialRegisters \cup {Rs485Imu!Unasked} /\ v6.sent \in Seq(Replies)
         /\ v7.epoch \in Nat /\ v7.zeros \in Nat
BY DEF SerialFits, Queries, Serials, Sensors

(* finishRequest(): what is open next is open later.                       *)
LEMMA SerialFinishes ==
  ASSUME SerialFits, NEW q \in Queries, NEW retry \in BOOLEAN
  PROVE  LET done == Rs485Imu!Finished(q, retry)
         IN  done \in Queries /\ done.phase = "Idle" /\ done.next = v1 + 1 /\ done.retry = q.retry
<1> USE UnitAssumption
<1> DEFINE again == retry /\ q.retries < MaxRetries
           retries == IF again THEN q.retries + 1 ELSE 0
           rid == IF again THEN q.rid ELSE Rs485Imu!NextRegister(q.rid)
           next == v1 + 1
<1>1. Rs485Imu!Finished(q, retry) =
        [q EXCEPT !.phase = "Idle", !.next = next, !.retries = retries, !.rid = rid]
  BY DEF Rs485Imu!Finished, Rs485Imu!Interval, Queries
<1>2. retries \in 0 .. MaxRetries
  BY DEF Queries
<1>3. rid \in SerialRegisters
  BY DEF Queries, SerialRegisters, Rs485Imu!NextRegister, Rs485Imu!Attitude
<1>4. next \in Nat
  BY SerialIs
<1> HIDE DEF retries, rid, next
<1>5. LET done == Rs485Imu!Finished(q, retry)
      IN  done \in Queries /\ done.phase = "Idle" /\ done.next = next /\ done.retry = q.retry
  <2>1. /\ q.request \in Nat /\ q.deadline \in Nat /\ q.retry \in Nat
        /\ Rs485Imu!Finished(q, retry) =
             [phase |-> "Idle", rid |-> rid, retries |-> retries, request |-> q.request,
              deadline |-> q.deadline, next |-> next, retry |-> q.retry]
    BY <1>1 DEF Queries
  <2> QED
    BY <1>2, <1>3, <1>4, <2>1 DEF Queries
<1> QED
  BY <1>5 DEF next

LEMMA SerialEnds ==
  ASSUME SerialFits
  PROVE  LET done == Rs485Imu!Ended(v3)
         IN  done \in Queries /\ done.phase = "Idle" /\ done.retry = v3.retry
             /\ (done = v3 \/ (done.next = v1 + 1 /\ v3.phase # "Idle"))
<1>1. v3 \in Queries
  BY DEF SerialFits
<1>2. CASE v3.phase = "Idle"
  <2>1. Rs485Imu!Ended(v3) = v3
    BY <1>2 DEF Rs485Imu!Ended
  <2> QED
    BY <1>1, <1>2, <2>1
<1>3. CASE v3.phase # "Idle"
  <2>1. Rs485Imu!Ended(v3) = Rs485Imu!Finished(v3, TRUE)
    BY <1>3 DEF Rs485Imu!Ended
  <2> QED
    BY <1>1, <1>3, <2>1, SerialFinishes
<1> QED
  BY <1>2, <1>3

(* Steps that leave the wires and the epoch alone.                         *)
LEMMA SerialGoesOn ==
  ASSUME SerialInv, UNCHANGED <<v1, v2>>,
         v3' \in Queries, v4' \in Serials, v5' \in BOOLEAN, v6' \in Sensors, v8' \in Nat,
         v5' => v3'.retry <= v1,
         v7' \in [epoch : Nat, zeros : Nat], v7'.zeros >= v7'.epoch,
         v6'.sent = v6.sent, v6'.zeros = v6.zeros,
         \A i \in 1 .. Len(v4'.queue) : \E j \in 1 .. Len(v4.queue) : v4'.queue[i] = v4.queue[j],
         v3'.phase # "Idle" => v3'.request <= v1,
         OpenSince(v3) <= OpenSince(v3')
  PROVE  SerialInv'
<1>0. SerialFits /\ SerialStamps
  BY DEF SerialInv
<1>1. SerialFits'
  BY <1>0 DEF SerialFits
<1>2. OpenSince(v3) \in Nat /\ OpenSince(v3') \in Nat
  BY <1>0, SerialIs DEF OpenSince, Queries
<1>3. \A reply \in Replies : CannotPass(reply, v3) => CannotPass(reply, v3')
  BY <1>2 DEF CannotPass, Replies
<1>4. \A i \in 1 .. Len(v6.sent) : v6.sent[i] \in Replies
  BY <1>0, SerialIs, ElementOfSeq
<1>5. \A i \in 1 .. Len(v4.queue) : v4.queue[i] \in Replies
  BY <1>0, SerialIs, ElementOfSeq
<1>6. \A i \in 1 .. Len(v4'.queue) : v4'.queue[i].stamp <= v1 /\ CannotPass(v4'.queue[i], v3')
  BY <1>0, <1>3, <1>5 DEF SerialStamps
<1>7. SerialStamps'
  BY <1>0, <1>3, <1>4, <1>6 DEF SerialStamps, CannotPass, Rs485Imu!ReplyIsOfItsEpoch
<1> QED
  BY <1>1, <1>7 DEF SerialInv

LEMMA SerialKeepsQueue ==
  ASSUME v4'.queue = v4.queue \/ v4'.queue = <<>>
  PROVE  \A i \in 1 .. Len(v4'.queue) : \E j \in 1 .. Len(v4.queue) : v4'.queue[i] = v4.queue[j]
OBVIOUS

(* service() with the UART down, and up to its loop.                       *)
LEMMA SerialBegins == SerialInv /\ (Rs485Imu!ServiceFails \/ Rs485Imu!BeginService) => SerialInv'
<1> SUFFICES ASSUME SerialInv, Rs485Imu!ServiceFails \/ Rs485Imu!BeginService PROVE SerialInv'
  OBVIOUS
<1> USE UnitAssumption, SerialAssumption
<1>0. SerialFits /\ SerialStamps /\ v3 \in Queries /\ v4 \in Serials /\ v6 \in Sensors
      /\ v7 \in [epoch : Nat, zeros : Nat] /\ v7.zeros >= v7.epoch
  BY DEF SerialInv, SerialFits, SerialStamps, Rs485Imu!ReplyIsOfItsEpoch
<1>1. UNCHANGED <<v1, v2, v6, v7, v8>>
  BY DEF Rs485Imu!ServiceFails, Rs485Imu!BeginService
<1>2. v1 \in Nat /\ v8 \in Nat /\ v3.next \in Nat /\ v3.request \in Nat /\ (v3.phase # "Idle" => v3.request <= v1)
  BY <1>0, SerialIs DEF SerialStamps
<1>3. CASE Rs485Imu!ServiceFails
  <2> DEFINE done == Rs485Imu!Ended(v3)
             later == v1 + UartRetry
  <2>1. /\ ~v5 /\ v5' = v5 /\ v3' = [done EXCEPT !.retry = later]
        /\ v4' = [v4 EXCEPT !.up = TRUE]
    BY <1>3 DEF Rs485Imu!ServiceFails
  <2>2. done \in Queries /\ done.phase = "Idle" /\ (done = v3 \/ (done.next = v1 + 1 /\ v3.phase # "Idle"))
    BY <1>0, SerialEnds
  <2>3. later \in Nat
    BY <1>2
  <2> HIDE DEF done, later
  <2>4. v3' \in Queries /\ v3'.phase = "Idle" /\ v3'.next = done.next
    BY <2>1, <2>2, <2>3 DEF Queries
  <2>5. v4' \in Serials /\ v4'.queue = v4.queue
    BY <1>0, <2>1 DEF Serials
  <2>6. OpenSince(v3) <= OpenSince(v3')
    BY <1>2, <2>2, <2>4 DEF OpenSince
  <2>7. v5' \in BOOLEAN /\ ~v5'
    BY <1>0, <2>1 DEF SerialFits
  <2> QED
    BY <1>0, <1>1, <1>2, <2>4, <2>5, <2>6, <2>7, SerialGoesOn, SerialKeepsQueue
<1>4. CASE Rs485Imu!BeginService
  <2>1. /\ v5' = TRUE /\ v3.retry <= v1
        /\ \/ UNCHANGED <<v3, v4>>
           \/ /\ v3.phase = "Sending" /\ v4' = [v4 EXCEPT !.tx = "Idle"]
              /\ \/ v3' = Rs485Imu!Finished(v3, TRUE)
                 \/ v3' = [v3 EXCEPT !.phase = "AwaitReply", !.deadline = v1 + ReplyTimeout]
    BY <1>4 DEF Rs485Imu!BeginService
  <2>2. v4' \in Serials /\ v4'.queue = v4.queue
    BY <1>0, <2>1 DEF Serials
  <2>3. /\ v3' \in Queries /\ v3'.retry = v3.retry /\ OpenSince(v3) <= OpenSince(v3')
        /\ v3'.phase # "Idle" => v3'.request <= v1
    <3>1. CASE v3' = v3
      BY <1>0, <1>2, <3>1 DEF OpenSince
    <3>2. CASE v3.phase = "Sending" /\ v3' = Rs485Imu!Finished(v3, TRUE)
      <4>1. v3' \in Queries /\ v3'.phase = "Idle" /\ v3'.next = v1 + 1 /\ v3'.retry = v3.retry
        BY <1>0, <3>2, SerialFinishes
      <4>2. OpenSince(v3) = v3.request /\ OpenSince(v3') = v1 + 1 /\ v3.request <= v1
        BY <1>2, <3>2, <4>1 DEF OpenSince
      <4>3. OpenSince(v3) <= OpenSince(v3')
        BY <1>2, <4>2
      <4> QED
        BY <4>1, <4>3
    <3>3. CASE v3.phase = "Sending" /\ v3' = [v3 EXCEPT !.phase = "AwaitReply", !.deadline = v1 + ReplyTimeout]
      <4> DEFINE deadline == v1 + ReplyTimeout
      <4>1. deadline \in Nat /\ v3' = [v3 EXCEPT !.phase = "AwaitReply", !.deadline = deadline]
        BY <1>2, <3>3
      <4> HIDE DEF deadline
      <4>2. /\ v3' \in Queries /\ v3'.phase = "AwaitReply" /\ v3'.request = v3.request /\ v3'.retry = v3.retry
        BY <1>0, <4>1 DEF Queries
      <4> QED
        BY <1>2, <3>3, <4>2 DEF OpenSince
    <3> QED
      BY <2>1, <3>1, <3>2, <3>3
  <2> QED
    BY <1>0, <1>1, <1>2, <2>1, <2>2, <2>3, SerialGoesOn, SerialKeepsQueue
<1> QED
  BY <1>3, <1>4

(* The receive loop: a reply that is accepted was measured in the epoch.   *)
LEMMA SerialReads == SerialInv /\ (Rs485Imu!ReadGap \/ Rs485Imu!ReadReply) => SerialInv'
<1> SUFFICES ASSUME SerialInv, Rs485Imu!ReadGap \/ Rs485Imu!ReadReply PROVE SerialInv'
  OBVIOUS
<1> USE UnitAssumption, SerialAssumption
<1>0. SerialFits /\ SerialStamps /\ v3 \in Queries /\ v4 \in Serials /\ v6 \in Sensors
      /\ v7 \in [epoch : Nat, zeros : Nat] /\ v7.zeros >= v7.epoch
  BY DEF SerialInv, SerialFits, SerialStamps, Rs485Imu!ReplyIsOfItsEpoch
<1>1. UNCHANGED <<v1, v2, v5, v6, v8>>
  BY DEF Rs485Imu!ReadGap, Rs485Imu!ReadReply
<1>2. /\ v1 \in Nat /\ v2 \in Nat /\ v8 \in Nat /\ v5 \in BOOLEAN /\ v3.next \in Nat /\ v3.request \in Nat
      /\ v3.phase # "Idle" => v3.request <= v1
      /\ v5 => v3.retry <= v1
  BY <1>0, SerialIs DEF SerialStamps, SerialFits
<1>3. CASE Rs485Imu!ReadGap
  <2>1. v4' = [v4 EXCEPT !.gap = FALSE] /\ v3' = Rs485Imu!Ended(v3) /\ v7' = v7
    BY <1>3 DEF Rs485Imu!ReadGap
  <2>2. /\ v3' \in Queries /\ v3'.phase = "Idle" /\ v3'.retry = v3.retry
        /\ v3' = v3 \/ (v3'.next = v1 + 1 /\ v3.phase # "Idle")
    BY <1>0, <2>1, SerialEnds
  <2>3. OpenSince(v3) <= OpenSince(v3')
    BY <1>2, <2>2 DEF OpenSince
  <2>4. v4' \in Serials /\ v4'.queue = v4.queue
    BY <1>0, <2>1 DEF Serials
  <2> QED
    BY <1>0, <1>1, <1>2, <2>1, <2>2, <2>3, <2>4, SerialGoesOn, SerialKeepsQueue
<1>4. CASE Rs485Imu!ReadReply
  <2> DEFINE reply == Head(v4.queue)
  <2>1. /\ v4.queue # <<>> /\ v4' = [v4 EXCEPT !.queue = Tail(@)]
        /\ v3' = IF Rs485Imu!Accepts(reply) THEN Rs485Imu!Finished(v3, FALSE) ELSE v3
        /\ \/ v7' = v7
           \/ Rs485Imu!Accepts(reply) /\ v7' = [epoch |-> v2, zeros |-> reply.zeros]
    BY <1>4 DEF Rs485Imu!ReadReply
  <2>2. v4.queue \in Seq(Replies)
    BY <1>0, SerialIs
  <2>3. /\ Tail(v4.queue) \in Seq(Replies) /\ Len(Tail(v4.queue)) = Len(v4.queue) - 1 /\ Len(v4.queue) \in Nat \ {0}
        /\ \A i \in 1 .. Len(Tail(v4.queue)) : Tail(v4.queue)[i] = v4.queue[i + 1]
        /\ reply = v4.queue[1] /\ reply \in Replies
    BY <2>1, <2>2, Loses
  <2>4. v4' \in Serials /\ v4'.queue = Tail(v4.queue)
    BY <1>0, <2>1, <2>3 DEF Serials
  <2>5. \A i \in 1 .. Len(v4'.queue) : \E j \in 1 .. Len(v4.queue) : v4'.queue[i] = v4.queue[j]
    <3>1. \A i \in 1 .. Len(v4'.queue) : i + 1 \in 1 .. Len(v4.queue)
      BY <2>3, <2>4
    <3> QED
      BY <2>3, <2>4, <3>1
  <2>6. /\ v3' \in Queries /\ v3'.retry = v3.retry /\ OpenSince(v3) <= OpenSince(v3')
        /\ v3'.phase # "Idle" => v3'.request <= v1
    <3>1. CASE ~Rs485Imu!Accepts(reply)
      <4>1. v3' = v3 /\ OpenSince(v3) \in Nat
        BY <1>2, <2>1, <3>1 DEF OpenSince
      <4> QED
        BY <1>0, <1>2, <4>1
    <3>2. CASE Rs485Imu!Accepts(reply)
      <4>1. v3' \in Queries /\ v3'.phase = "Idle" /\ v3'.next = v1 + 1 /\ v3'.retry = v3.retry
        BY <1>0, <2>1, <3>2, SerialFinishes
      <4>2. v3.phase = "AwaitReply"
        BY <3>2 DEF Rs485Imu!Accepts
      <4> QED
        BY <1>2, <4>1, <4>2 DEF OpenSince
    <3> QED
      BY <3>1, <3>2
  <2>7. v7' \in [epoch : Nat, zeros : Nat] /\ v7'.zeros >= v7'.epoch
    <3>1. CASE v7' = v7
      BY <1>0, <3>1
    <3>2. CASE Rs485Imu!Accepts(reply) /\ v7' = [epoch |-> v2, zeros |-> reply.zeros]
      <4>1. v3.phase = "AwaitReply" /\ reply.stamp >= v3.request
        BY <3>2 DEF Rs485Imu!Accepts
      <4>2. 1 \in 1 .. Len(v4.queue)
        BY <2>3
      <4>3. CannotPass(reply, v3)
        BY <1>0, <2>3, <4>2 DEF SerialStamps
      <4>4. reply.zeros \in Nat /\ reply.stamp \in Nat
        BY <2>3 DEF Replies
      <4>5. reply.zeros >= v2
        BY <1>2, <4>1, <4>3, <4>4 DEF CannotPass, OpenSince
      <4> HIDE DEF reply
      <4> QED
        BY <1>2, <3>2, <4>4, <4>5
    <3> QED
      BY <2>1, <3>1, <3>2
  <2> HIDE DEF reply
  <2> QED
    BY <1>0, <1>1, <1>2, <2>4, <2>5, <2>6, <2>7, SerialGoesOn
<1> QED
  BY <1>3, <1>4

(* The end of service(): the timeout, and the next request.                *)
LEMMA SerialAsks == SerialInv /\ Rs485Imu!EndService => SerialInv'
<1> SUFFICES ASSUME SerialInv, Rs485Imu!EndService PROVE SerialInv'
  OBVIOUS
<1> USE UnitAssumption, SerialAssumption
<1>0. SerialFits /\ SerialStamps /\ v3 \in Queries /\ v4 \in Serials /\ v6 \in Sensors
      /\ v7 \in [epoch : Nat, zeros : Nat] /\ v7.zeros >= v7.epoch
  BY DEF SerialInv, SerialFits, SerialStamps, Rs485Imu!ReplyIsOfItsEpoch
<1> DEFINE late == v3.phase = "AwaitReply" /\ v3.deadline <= v1
           open == IF late THEN Rs485Imu!Finished(v3, TRUE) ELSE v3
<1>1. /\ UNCHANGED <<v1, v2, v6, v7, v8>> /\ v5' = FALSE
      /\ \/ v3' = open /\ v4' = v4
         \/ /\ open.phase = "Idle" /\ open.next <= v1
            /\ v3' = [open EXCEPT !.phase = "Sending", !.request = v1] /\ v4' = [v4 EXCEPT !.tx = "Busy"]
  BY DEF Rs485Imu!EndService
<1>2. v1 \in Nat /\ v8 \in Nat /\ v3.next \in Nat /\ v3.request \in Nat /\ (v3.phase # "Idle" => v3.request <= v1)
  BY <1>0, SerialIs DEF SerialStamps
<1>3. /\ open \in Queries /\ OpenSince(v3) <= OpenSince(open)
      /\ open.phase # "Idle" => open.request <= v1
  <2>1. CASE late
    <3>1. open \in Queries /\ open.phase = "Idle" /\ open.next = v1 + 1
      BY <1>0, <2>1, SerialFinishes
    <3> HIDE DEF open
    <3> QED
      BY <1>2, <2>1, <3>1 DEF OpenSince
  <2>2. CASE ~late
    <3>1. open = v3 /\ OpenSince(v3) \in Nat
      BY <1>2, <2>2 DEF OpenSince
    <3> HIDE DEF open
    <3> QED
      BY <1>0, <1>2, <3>1
  <2> QED
    BY <2>1, <2>2
<1>4. v4' \in Serials /\ v4'.queue = v4.queue
  BY <1>0, <1>1 DEF Serials
<1> HIDE DEF open
<1>5. /\ v3' \in Queries /\ OpenSince(v3) <= OpenSince(v3')
      /\ v3'.phase # "Idle" => v3'.request <= v1
  <2>1. CASE v3' = open
    BY <1>3, <2>1
  <2>2. CASE open.phase = "Idle" /\ open.next <= v1 /\ v3' = [open EXCEPT !.phase = "Sending", !.request = v1]
    <3>1. v3' \in Queries /\ v3'.phase = "Sending" /\ v3'.request = v1
      BY <1>2, <1>3, <2>2 DEF Queries
    <3>2. OpenSince(v3) \in Nat /\ open.next \in Nat
      BY <1>2, <1>3 DEF OpenSince, Queries
    <3>3. OpenSince(open) = open.next /\ OpenSince(v3') = v1
      BY <2>2, <3>1 DEF OpenSince
    <3> QED
      BY <1>2, <1>3, <2>2, <3>1, <3>2, <3>3
  <2> QED
    BY <1>1, <2>1, <2>2
<1>6. ~v5' /\ v5' \in BOOLEAN
  BY <1>1
<1> QED
  BY <1>0, <1>1, <1>2, <1>4, <1>5, <1>6, SerialGoesOn, SerialKeepsQueue

(* Nothing that is under way, or queued, is stamped as late as the next    *)
(* request.                                                                *)
LEMMA SerialResets == SerialInv /\ Rs485Imu!ResetReference => SerialInv'
<1> SUFFICES ASSUME SerialInv, Rs485Imu!ResetReference PROVE SerialInv'
  OBVIOUS
<1> USE UnitAssumption, SerialAssumption
<1>0. SerialFits /\ SerialStamps /\ v3 \in Queries
  BY DEF SerialInv, SerialFits
<1> DEFINE settled == v1 + ReplyTimeout
<1>1. /\ UNCHANGED <<v1, v4, v5, v6, v8>> /\ v2 < v6.zeros /\ ~v5 /\ v2' = v2 + 1
      /\ v3' = [v3 EXCEPT !.phase = "Idle", !.retries = 0, !.next = settled]
      /\ v7' = Rs485Imu!Nothing
  BY DEF Rs485Imu!ResetReference, Rs485Imu!Settled
<1>2. v1 \in Nat /\ v2 \in Nat /\ v6.zeros \in Nat /\ settled \in Nat /\ 0 \in 0 .. MaxRetries
  BY <1>0, SerialIs
<1>3. v4.queue \in Seq(Replies) /\ v6.sent \in Seq(Replies)
  BY <1>0, SerialIs
<1> HIDE DEF settled
<1>4. v3' \in Queries /\ v3'.phase = "Idle" /\ v3'.next = settled
  BY <1>0, <1>1, <1>2 DEF Queries
<1>5. OpenSince(v3') = v1 + ReplyTimeout
  BY <1>4 DEF OpenSince, settled
<1>6. v7' \in [epoch : Nat, zeros : Nat] /\ v7'.zeros >= v7'.epoch /\ v2' \in Nat /\ v2' <= v6.zeros
  BY <1>1, <1>2 DEF Rs485Imu!Nothing
<1>7. ASSUME NEW i \in 1 .. Len(v6.sent) PROVE v6.sent[i].stamp < v1 + ReplyTimeout
  <2>1. v6.sent[i] \in Replies
    BY <1>3, ElementOfSeq
  <2>2. v6.sent[i].stamp \in Nat
    BY <2>1 DEF Replies
  <2>3. v6.sent[i].stamp <= v1 + ReplyLatency
    BY <1>0 DEF SerialStamps
  <2> QED
    BY <1>2, <2>2, <2>3
<1>8. ASSUME NEW i \in 1 .. Len(v4.queue) PROVE v4.queue[i].stamp < v1 + ReplyTimeout
  <2>1. v4.queue[i] \in Replies
    BY <1>3, ElementOfSeq
  <2>2. v4.queue[i].stamp \in Nat
    BY <2>1 DEF Replies
  <2>3. v4.queue[i].stamp <= v1
    BY <1>0 DEF SerialStamps
  <2> QED
    BY <1>2, <2>2, <2>3
<1>9. SerialFits'
  BY <1>0, <1>1, <1>4, <1>6 DEF SerialFits
<1>10. SerialStamps'
  BY <1>0, <1>1, <1>4, <1>5, <1>6, <1>7, <1>8 DEF SerialStamps, CannotPass, Rs485Imu!ReplyIsOfItsEpoch
<1> QED
  BY <1>9, <1>10 DEF SerialInv

(* The unit and the wires.                                                 *)
LEMMA SerialMeasures == SerialInv /\ (Rs485Imu!MoveZero \/ Rs485Imu!Answer) => SerialInv'
<1> SUFFICES ASSUME SerialInv, Rs485Imu!MoveZero \/ Rs485Imu!Answer PROVE SerialInv'
  OBVIOUS
<1> USE SerialAssumption
<1>0. SerialFits /\ SerialStamps
  BY DEF SerialInv
<1>1. UNCHANGED <<v1, v2, v3, v4, v5, v7, v8>>
  BY DEF Rs485Imu!MoveZero, Rs485Imu!Answer
<1>2. v6 \in Sensors /\ v6.zeros \in Nat /\ v6.sent \in Seq(Replies) /\ v1 \in Nat /\ v2 \in Nat /\ v2 <= v6.zeros
  BY <1>0, SerialIs DEF SerialFits, SerialStamps
<1>3. SUFFICES /\ v6' \in Sensors /\ v2 <= v6'.zeros
               /\ \A i \in 1 .. Len(v6'.sent) :
                    /\ v1 <= v6'.sent[i].stamp /\ v6'.sent[i].stamp <= v1 + ReplyLatency
                    /\ CannotPass(v6'.sent[i], v3)
  BY <1>0, <1>1 DEF SerialInv, SerialFits, SerialStamps, CannotPass, OpenSince, Rs485Imu!ReplyIsOfItsEpoch
<1>4. CASE Rs485Imu!MoveZero
  <2>1. v6' = [v6 EXCEPT !.zeros = @ + 1] /\ v6.zeros + 1 \in Nat
    BY <1>2, <1>4 DEF Rs485Imu!MoveZero
  <2>2. v6' \in Sensors /\ v6'.zeros = v6.zeros + 1 /\ v6'.sent = v6.sent
    BY <1>2, <2>1 DEF Sensors
  <2> QED
    BY <1>0, <1>2, <2>2 DEF SerialStamps
<1>5. CASE Rs485Imu!Answer
  <2> DEFINE reply == [rid |-> v6.asked, zeros |-> v6.zeros, stamp |-> v1 + ReplyLatency]
  <2>1. v6' = [v6 EXCEPT !.asked = Rs485Imu!Unasked, !.sent = <<reply>>] /\ v6.asked # Rs485Imu!Unasked
    BY <1>5 DEF Rs485Imu!Answer
  <2>2. v6.asked \in SerialRegisters /\ v1 + ReplyLatency \in Nat /\ v1 <= v1 + ReplyLatency
    <3>1. v6.asked \in SerialRegisters
      BY <1>0, <2>1, SerialIs
    <3>2. v1 \in Nat
      BY <1>2
    <3> QED
      BY <3>1, <3>2
  <2>3. reply \in Replies /\ reply.zeros = v6.zeros /\ reply.stamp = v1 + ReplyLatency
    BY <1>2, <2>2 DEF Replies
  <2> HIDE DEF reply
  <2>4. <<reply>> \in Seq(Replies) /\ Len(<<reply>>) = 1 /\ <<reply>>[1] = reply
    BY <2>3
  <2>5. v6' \in Sensors /\ v6'.zeros = v6.zeros /\ v6'.sent = <<reply>>
    BY <1>2, <2>1, <2>4 DEF Sensors
  <2> QED
    BY <1>2, <2>2, <2>3, <2>4, <2>5 DEF CannotPass
<1> QED
  BY <1>4, <1>5

(* A reply is queued no later than it was under way to be.                 *)
LEMMA SerialArrives == SerialInv /\ Rs485Imu!Arrive => SerialInv'
<1> SUFFICES ASSUME SerialInv, Rs485Imu!Arrive PROVE SerialInv'
  OBVIOUS
<1> USE SerialAssumption
<1>0. SerialFits /\ SerialStamps
  BY DEF SerialInv
<1> DEFINE reply == [Head(v6.sent) EXCEPT !.stamp = v1]
<1>1. /\ v6.sent # <<>> /\ v6' = [v6 EXCEPT !.sent = Tail(@)] /\ UNCHANGED <<v1, v2, v3, v5, v7>>
      /\ \/ v8' = v8 /\ v4' = [v4 EXCEPT !.queue = Append(@, reply)]
         \/ v8' = v8 + 1 /\ v4' = [v4 EXCEPT !.queue = <<>>, !.gap = TRUE]
  BY DEF Rs485Imu!Arrive, Rs485Imu!Upset
<1>2. /\ v6 \in Sensors /\ v6.sent \in Seq(Replies) /\ v1 \in Nat /\ v2 \in Nat /\ v8 \in Nat
      /\ v4 \in Serials /\ v4.queue \in Seq(Replies) /\ OpenSince(v3) \in Nat
  BY <1>0, SerialIs DEF SerialFits, OpenSince
<1>3. /\ Tail(v6.sent) \in Seq(Replies) /\ Len(v6.sent) \in Nat \ {0} /\ Len(Tail(v6.sent)) = Len(v6.sent) - 1
      /\ \A i \in 1 .. Len(Tail(v6.sent)) : Tail(v6.sent)[i] = v6.sent[i + 1]
      /\ Head(v6.sent) = v6.sent[1] /\ v6.sent[1] \in Replies
  BY <1>1, <1>2, Loses
<1>4. v6' \in Sensors /\ v6'.zeros = v6.zeros /\ v6'.sent = Tail(v6.sent)
  BY <1>1, <1>2, <1>3 DEF Sensors
<1>5. reply \in Replies /\ reply.stamp = v1 /\ CannotPass(reply, v3)
  <2> DEFINE r == v6.sent[1]
  <2>1. r \in Replies /\ r.stamp \in Nat /\ r.zeros \in Nat
    BY <1>3 DEF Replies
  <2>2. reply \in Replies /\ reply.stamp = v1 /\ reply.zeros = r.zeros
    BY <1>2, <1>3 DEF Replies
  <2>3. 1 \in 1 .. Len(v6.sent)
    BY <1>3
  <2>4. v1 <= r.stamp /\ CannotPass(r, v3)
    BY <1>0, <2>3 DEF SerialStamps
  <2> HIDE DEF r, reply
  <2> QED
    BY <1>2, <2>1, <2>2, <2>4 DEF CannotPass
<1> HIDE DEF reply
<1>6. /\ v4' \in Serials /\ v8' \in Nat
      /\ \A i \in 1 .. Len(v4'.queue) : v4'.queue[i].stamp <= v1 /\ CannotPass(v4'.queue[i], v3)
  <2>1. CASE v8' = v8 /\ v4' = [v4 EXCEPT !.queue = Append(@, reply)]
    <3>1. /\ Append(v4.queue, reply) \in Seq(Replies)
          /\ Len(Append(v4.queue, reply)) = Len(v4.queue) + 1 /\ Len(v4.queue) \in Nat
          /\ \A i \in 1 .. Len(v4.queue) : Append(v4.queue, reply)[i] = v4.queue[i]
          /\ Append(v4.queue, reply)[Len(v4.queue) + 1] = reply
      BY <1>2, <1>5
    <3>2. v4' \in Serials /\ v4'.queue = Append(v4.queue, reply)
      BY <1>2, <2>1, <3>1 DEF Serials
    <3>3. \A i \in 1 .. Len(v4'.queue) : i \in 1 .. Len(v4.queue) \/ i = Len(v4.queue) + 1
      BY <3>1, <3>2
    <3>4. v1 <= v1
      BY <1>2
    <3> QED
      BY <1>0, <1>2, <1>5, <2>1, <3>1, <3>2, <3>3, <3>4 DEF SerialStamps
  <2>2. CASE v8' = v8 + 1 /\ v4' = [v4 EXCEPT !.queue = <<>>, !.gap = TRUE]
    <3> DEFINE none == <<>>
    <3>1. none \in Seq(Replies) /\ Len(none) = 0
      OBVIOUS
    <3>2. v4' = [v4 EXCEPT !.queue = none, !.gap = TRUE]
      BY <2>2
    <3> HIDE DEF none
    <3>3. v4 \in Serials
      BY <1>2
    <3>4. v4' \in Serials /\ v4'.queue = none
      BY <3>1, <3>2, <3>3 DEF Serials
    <3>5. v8' \in Nat
      BY <1>2, <2>2
    <3> QED
      BY <3>1, <3>4, <3>5
  <2> QED
    BY <1>1, <2>1, <2>2
<1>7. \A i \in 1 .. Len(v6'.sent) :
        /\ v1 <= v6'.sent[i].stamp /\ v6'.sent[i].stamp <= v1 + ReplyLatency
        /\ CannotPass(v6'.sent[i], v3)
  <2>1. \A i \in 1 .. Len(Tail(v6.sent)) : i + 1 \in 1 .. Len(v6.sent)
    BY <1>3
  <2> QED
    BY <1>0, <1>3, <1>4, <2>1 DEF SerialStamps
<1>8. SerialFits'
  BY <1>0, <1>1, <1>4, <1>6 DEF SerialFits
<1>9. SerialStamps'
  BY <1>0, <1>1, <1>4, <1>6, <1>7 DEF SerialStamps, CannotPass, OpenSince, Rs485Imu!ReplyIsOfItsEpoch
<1> QED
  BY <1>8, <1>9 DEF SerialInv

LEMMA SerialCarries == SerialInv /\ (Rs485Imu!Transmitted \/ Rs485Imu!UartDown) => SerialInv'
<1> SUFFICES ASSUME SerialInv, Rs485Imu!Transmitted \/ Rs485Imu!UartDown PROVE SerialInv'
  OBVIOUS
<1>0. SerialFits /\ SerialStamps /\ v3 \in Queries /\ v4 \in Serials /\ v6 \in Sensors
      /\ v7 \in [epoch : Nat, zeros : Nat] /\ v7.zeros >= v7.epoch
  BY DEF SerialInv, SerialFits, SerialStamps, Rs485Imu!ReplyIsOfItsEpoch
<1>1. UNCHANGED <<v1, v2, v3, v5, v7>>
  BY DEF Rs485Imu!Transmitted, Rs485Imu!UartDown
<1>2. /\ v8 \in Nat /\ v5 \in BOOLEAN /\ v3.rid \in SerialRegisters /\ OpenSince(v3) \in Nat /\ v1 \in Nat
      /\ v3.phase # "Idle" => v3.request <= v1
      /\ v5 => v3.retry <= v1
  BY <1>0, SerialIs DEF SerialStamps, SerialFits, OpenSince
<1>3. /\ v4' \in Serials /\ v8' \in Nat /\ v6' \in Sensors /\ v6'.sent = v6.sent /\ v6'.zeros = v6.zeros
      /\ v4'.queue = v4.queue \/ v4'.queue = <<>>
  <2>1. CASE Rs485Imu!Transmitted
    <3>1. /\ v4' \in {[v4 EXCEPT !.tx = "Idle"], [v4 EXCEPT !.tx = "Failed"]} /\ v8' \in {v8, v8 + 1}
          /\ v6' = v6 \/ v6' = [v6 EXCEPT !.asked = v3.rid]
      BY <2>1 DEF Rs485Imu!Transmitted, Rs485Imu!Upset
    <3>2. v4' \in Serials /\ v4'.queue = v4.queue
      BY <1>0, <3>1 DEF Serials
    <3>3. v6' \in Sensors /\ v6'.sent = v6.sent /\ v6'.zeros = v6.zeros
      BY <1>0, <1>2, <3>1 DEF Sensors
    <3>4. v8' \in Nat
      BY <1>2, <3>1
    <3> QED
      BY <3>2, <3>3, <3>4
  <2>2. CASE Rs485Imu!UartDown
    <3>1. /\ v8' = v8 + 1 /\ v6' = v6
          /\ v4' = [up |-> FALSE, queue |-> <<>>, gap |-> TRUE,
                    tx |-> IF v4.tx = "Busy" THEN "Failed" ELSE v4.tx]
      BY <2>2 DEF Rs485Imu!UartDown, Rs485Imu!Upset
    <3>2. v4' \in Serials /\ v4'.queue = <<>>
      BY <1>0, <3>1, SerialIs DEF Serials
    <3> QED
      BY <1>0, <1>2, <3>1, <3>2
  <2> QED
    BY <2>1, <2>2
<1>4. OpenSince(v3) <= OpenSince(v3')
  BY <1>1, <1>2 DEF OpenSince
<1> QED
  BY <1>0, <1>1, <1>2, <1>3, <1>4, SerialGoesOn, SerialKeepsQueue

LEMMA SerialAges == SerialInv /\ Rs485Imu!Tick => SerialInv'
<1> SUFFICES ASSUME SerialInv, Rs485Imu!Tick PROVE SerialInv'
  OBVIOUS
<1> USE SerialAssumption
<1>0. SerialFits /\ SerialStamps
  BY DEF SerialInv
<1>1. /\ v1' = v1 + 1 /\ UNCHANGED <<v2, v3, v4, v5, v6, v7, v8>>
      /\ \A i \in DOMAIN v6.sent : v1 < v6.sent[i].stamp
  BY DEF Rs485Imu!Tick
<1>2. v1 \in Nat /\ v6.sent \in Seq(Replies) /\ v4.queue \in Seq(Replies) /\ v3.request \in Nat /\ v3.retry \in Nat
  BY <1>0, SerialIs
<1>3. ASSUME NEW i \in 1 .. Len(v6.sent)
      PROVE  v1 + 1 <= v6.sent[i].stamp /\ v6.sent[i].stamp <= v1 + 1 + ReplyLatency
  <2>1. v6.sent[i] \in Replies /\ i \in DOMAIN v6.sent
    BY <1>2, ElementOfSeq
  <2>2. v6.sent[i].stamp \in Nat
    BY <2>1 DEF Replies
  <2>3. v1 < v6.sent[i].stamp /\ v6.sent[i].stamp <= v1 + ReplyLatency
    BY <1>0, <1>1, <2>1 DEF SerialStamps
  <2> QED
    BY <1>2, <2>2, <2>3
<1>4. ASSUME NEW i \in 1 .. Len(v4.queue) PROVE v4.queue[i].stamp <= v1 + 1
  <2>1. v4.queue[i] \in Replies
    BY <1>2, ElementOfSeq
  <2>2. v4.queue[i].stamp \in Nat /\ v4.queue[i].stamp <= v1
    BY <1>0, <2>1 DEF Replies, SerialStamps
  <2> QED
    BY <1>2, <2>2
<1>5. (v3.phase # "Idle" => v3.request <= v1 + 1) /\ (v5 => v3.retry <= v1 + 1) /\ v1 + 1 \in Nat
  <2>1. (v3.phase # "Idle" => v3.request <= v1) /\ (v5 => v3.retry <= v1)
    BY <1>0 DEF SerialStamps, SerialFits
  <2> QED
    BY <1>2, <2>1
<1>6. SerialFits'
  BY <1>0, <1>1, <1>5 DEF SerialFits
<1>7. SerialStamps'
  BY <1>0, <1>1, <1>3, <1>4, <1>5 DEF SerialStamps, CannotPass, OpenSince, Rs485Imu!ReplyIsOfItsEpoch
<1> QED
  BY <1>6, <1>7 DEF SerialInv

LEMMA SerialStep == SerialInv /\ Rs485Imu!Next => SerialInv'
BY SerialBegins, SerialReads, SerialAsks, SerialResets, SerialMeasures, SerialArrives, SerialCarries, SerialAges
   DEF Rs485Imu!Next

-----------------------------------------------------------------------------
(* The heater of a unit (ImuHeating): v1 is die, v2 source, v3 worker, v4  *)
(* heater, v5 pwm, v6 recorded and v7 failures.                            *)
HeatFits ==
    /\ v1 \in [value : {"Cold", "Hot"}, hot : 0 .. Heating!Forever]
    /\ v2 \in [up : BOOLEAN, value : {"None", "Cold", "Hot"}, age : 0 .. Heating!Forever]
    /\ v3 \in [pc : {"Service", "Heat", "Sleep"}, late : 0 .. MaxLate]
    /\ v4 \in [timed : BOOLEAN, since : Nat] /\ v5 \in {0, 1}
    /\ v6 \in [duty : {0, 1}, error : BOOLEAN] /\ v7 \in Nat

(* A temperature that is not too hot is older than the heat, and what is   *)
(* heated was not too hot for long when the heater was updated last.       *)
HeatIsNew ==
    /\ v1.value = "Cold" => v1.hot = 0
    /\ v2.value = "Cold" => v1.hot <= v2.age
    /\ v5 > 0 => v6.error \/ v1.hot <= FreshFor + v3.late

HeatInv == HeatFits /\ HeatIsNew /\ Heating!StatusIsTrue

LEMMA HeatStarts == Heating!Init => HeatInv
<1> SUFFICES ASSUME Heating!Init PROVE HeatInv
  OBVIOUS
<1>1. 0 \in 0 .. Heating!Forever /\ 0 \in 0 .. MaxLate
  BY HeatAssumption DEF Heating!Forever
<1> QED
  BY <1>1 DEF Heating!Init, HeatInv, HeatFits, HeatIsNew, Heating!StatusIsTrue

LEMMA HeatIs ==
  ASSUME HeatFits
  PROVE  /\ v1.hot \in 0 .. Heating!Forever /\ v1.value \in {"Cold", "Hot"} /\ Heating!Forever \in Nat
         /\ v2.age \in 0 .. Heating!Forever /\ v2.value \in {"None", "Cold", "Hot"} /\ v2.up \in BOOLEAN
         /\ v3.late \in 0 .. MaxLate /\ v3.pc \in {"Service", "Heat", "Sleep"}
         /\ v4.timed \in BOOLEAN /\ v4.since \in Nat
         /\ v6.duty \in {0, 1} /\ v6.error \in BOOLEAN
BY HeatAssumption DEF HeatFits, Heating!Forever

LEMMA HeatCounts ==
  ASSUME NEW n \in 0 .. Heating!Forever
  PROVE  Heating!Counted(n) \in 0 .. Heating!Forever /\ Heating!Counted(n) \in {n, n + 1}
BY HeatAssumption DEF Heating!Counted, Heating!Forever

LEMMA HeatServes == HeatInv /\ Heating!Service => HeatInv'
<1> SUFFICES ASSUME HeatInv, Heating!Service PROVE HeatInv'
  OBVIOUS
<1> USE HeatAssumption
<1>0. HeatFits /\ HeatIsNew
  BY DEF HeatInv
<1>1. UNCHANGED <<v1, v4, v5, v6, v7>> /\ v3' = [v3 EXCEPT !.pc = "Heat"]
  BY DEF Heating!Service
<1>2. v3' \in [pc : {"Service", "Heat", "Sleep"}, late : 0 .. MaxLate] /\ v3'.late = v3.late
  BY <1>0, <1>1 DEF HeatFits
<1>3. /\ v2' \in [up : BOOLEAN, value : {"None", "Cold", "Hot"}, age : 0 .. Heating!Forever]
      /\ v2'.value = "Cold" => v1.hot <= v2'.age
  <2>1. CASE v2' = v2
    BY <1>0, <2>1 DEF HeatFits, HeatIsNew
  <2>2. CASE v2' = [up |-> TRUE, value |-> v1.value, age |-> 0]
    <3>1. 0 \in 0 .. Heating!Forever
      BY DEF Heating!Forever
    <3> QED
      BY <1>0, <2>2, <3>1, HeatIs DEF HeatIsNew
  <2>3. CASE \E up \in BOOLEAN : v2' = [v2 EXCEPT !.up = up]
    BY <1>0, <2>3 DEF HeatFits, HeatIsNew
  <2> QED
    BY <2>1, <2>2, <2>3 DEF Heating!Service
<1>4. HeatFits'
  BY <1>0, <1>1, <1>2, <1>3 DEF HeatFits
<1>5. HeatIsNew'
  BY <1>0, <1>1, <1>2, <1>3 DEF HeatIsNew
<1> QED
  BY <1>1, <1>4, <1>5 DEF HeatInv, Heating!StatusIsTrue

(* The heater is turned off, or the failure to do so is recorded.          *)
LEMMA HeatGoesOff ==
  ASSUME HeatInv, Heating!Off
  PROVE  /\ v4' \in [timed : BOOLEAN, since : Nat] /\ v5' \in {0, 1}
         /\ v6' \in [duty : {0, 1}, error : BOOLEAN] /\ v7' \in Nat
         /\ v6'.duty = v5' /\ (v5' > 0 => v6'.error)
<1>0. HeatFits /\ v6.duty = v5
  BY DEF HeatInv, Heating!StatusIsTrue
<1>1. PICK ok \in BOOLEAN :
        /\ Heating!Written(0, ok) /\ v6' = [duty |-> IF ok THEN 0 ELSE v6.duty, error |-> ~ok]
        /\ v4' = [v4 EXCEPT !.timed = FALSE]
  BY DEF Heating!Off
<1>2. v4' \in [timed : BOOLEAN, since : Nat]
  BY <1>0, <1>1 DEF HeatFits
<1>3. v7 \in Nat /\ v5 \in {0, 1}
  BY <1>0 DEF HeatFits
<1>4. CASE ok
  BY <1>1, <1>2, <1>3, <1>4 DEF Heating!Written
<1>5. CASE ~ok
  <2>1. v5' = v5 /\ v7' = v7 + 1 /\ v6' = [duty |-> v6.duty, error |-> TRUE]
    BY <1>1, <1>5 DEF Heating!Written
  <2> QED
    BY <1>0, <1>2, <1>3, <2>1
<1> QED
  BY <1>4, <1>5

LEMMA HeatUpdates == HeatInv /\ Heating!Update => HeatInv'
<1> SUFFICES ASSUME HeatInv, Heating!Update PROVE HeatInv'
  OBVIOUS
<1> USE HeatAssumption
<1>0. HeatFits /\ HeatIsNew /\ v6.duty = v5
  BY DEF HeatInv, Heating!StatusIsTrue
<1>1. UNCHANGED <<v1, v2>> /\ v3' = [pc |-> "Sleep", late |-> 0]
  BY DEF Heating!Update
<1>2. v3' \in [pc : {"Service", "Heat", "Sleep"}, late : 0 .. MaxLate] /\ v3'.late = 0
  BY <1>1
<1>3. /\ v4' \in [timed : BOOLEAN, since : Nat] /\ v5' \in {0, 1}
      /\ v6' \in [duty : {0, 1}, error : BOOLEAN] /\ v7' \in Nat
      /\ v6'.duty = v5'
      /\ v5' > 0 => v6'.error \/ Heating!Usable
  <2>1. CASE Heating!Off
    BY <2>1, HeatGoesOff
  <2>2. CASE UNCHANGED <<v4, v5, v6, v7>> /\ Heating!Usable
    BY <1>0, <2>2 DEF HeatFits
  <2>3. CASE /\ Heating!Usable
             /\ \E duty \in {0, 1} :
                   /\ Heating!Written(duty, TRUE) /\ v6' = [duty |-> duty, error |-> FALSE]
                   /\ v4' = [timed |-> TRUE, since |-> 0]
    BY <1>0, <2>3 DEF Heating!Written, HeatFits
  <2> QED
    BY <2>1, <2>2, <2>3 DEF Heating!Update, Heating!Drive
<1>4. Heating!Usable => v1.hot <= FreshFor
  <2>1. ASSUME Heating!Usable PROVE v2.value = "Cold" /\ v2.age <= FreshFor
    BY <1>0, <2>1, HeatIs DEF Heating!Usable
  <2>2. v1.hot \in Nat /\ v2.age \in Nat
    BY <1>0, HeatIs
  <2> QED
    BY <1>0, <2>1, <2>2 DEF HeatIsNew
<1>5. HeatFits'
  BY <1>0, <1>1, <1>2, <1>3 DEF HeatFits
<1>6. HeatIsNew'
  <2>1. v1.hot <= FreshFor => v1.hot <= FreshFor + 0
    BY <1>0, HeatIs
  <2> QED
    BY <1>0, <1>1, <1>2, <1>3, <1>4, <2>1 DEF HeatIsNew
<1> QED
  BY <1>3, <1>5, <1>6 DEF HeatInv, Heating!StatusIsTrue

LEMMA HeatTicks == HeatInv /\ Heating!Tick => HeatInv'
<1> SUFFICES ASSUME HeatInv, Heating!Tick PROVE HeatInv'
  OBVIOUS
<1> USE HeatAssumption
<1>0. HeatFits /\ HeatIsNew
  BY DEF HeatInv
<1>1. /\ UNCHANGED <<v5, v6, v7>> /\ v3.late < MaxLate
      /\ v3' = [pc |-> IF v3.pc = "Sleep" THEN "Service" ELSE v3.pc, late |-> v3.late + 1]
      /\ v2' = [v2 EXCEPT !.age = Heating!Counted(@)] /\ v4' = [v4 EXCEPT !.since = Heating!Counted(@)]
  BY DEF Heating!Tick
<1>2. PICK value \in {"Cold", "Hot"} :
        v1' = [value |-> value, hot |-> IF value = "Hot" THEN Heating!Counted(v1.hot) ELSE 0]
  BY DEF Heating!Tick
<1>3. /\ Heating!Counted(v1.hot) \in 0 .. Heating!Forever /\ Heating!Counted(v1.hot) \in {v1.hot, v1.hot + 1}
      /\ Heating!Counted(v2.age) \in 0 .. Heating!Forever
      /\ v1.hot <= v2.age => Heating!Counted(v1.hot) <= Heating!Counted(v2.age)
      /\ Heating!Counted(v4.since) \in Nat /\ 0 \in 0 .. Heating!Forever
  BY <1>0, HeatIs, HeatCounts DEF Heating!Counted
<1>4. v3.late \in Nat /\ v3.late + 1 \in 0 .. MaxLate
  BY <1>0, <1>1, HeatIs
<1>5. v3' \in [pc : {"Service", "Heat", "Sleep"}, late : 0 .. MaxLate] /\ v3'.late = v3.late + 1
  BY <1>0, <1>1, <1>4, HeatIs
<1>6. /\ v2' \in [up : BOOLEAN, value : {"None", "Cold", "Hot"}, age : 0 .. Heating!Forever]
      /\ v2'.value = v2.value /\ v2'.age = Heating!Counted(v2.age)
  BY <1>0, <1>1, <1>3 DEF HeatFits
<1>7. v4' \in [timed : BOOLEAN, since : Nat]
  BY <1>0, <1>1, <1>3 DEF HeatFits
<1>8. /\ v1' \in [value : {"Cold", "Hot"}, hot : 0 .. Heating!Forever]
      /\ v1'.value = "Cold" => v1'.hot = 0
      /\ v1'.hot = 0 \/ v1'.hot = Heating!Counted(v1.hot)
  BY <1>2, <1>3
<1>9. HeatFits'
  BY <1>0, <1>1, <1>5, <1>6, <1>7, <1>8 DEF HeatFits
<1>10. HeatIsNew'
  <2>1. v2'.value = "Cold" => v1'.hot <= v2'.age
    BY <1>0, <1>3, <1>6, <1>8 DEF HeatIsNew
  <2>2. v5' > 0 => v6'.error \/ v1'.hot <= FreshFor + v3'.late
    <3>1. v1.hot \in Nat
      BY <1>0, HeatIs
    <3>2. v1.hot <= FreshFor + v3.late => v1'.hot <= FreshFor + (v3.late + 1)
      BY <1>3, <1>4, <1>8, <3>1
    <3> QED
      BY <1>0, <1>1, <1>5, <3>2 DEF HeatIsNew
  <2> QED
    BY <1>8, <2>1, <2>2 DEF HeatIsNew
<1> QED
  BY <1>1, <1>9, <1>10 DEF HeatInv, Heating!StatusIsTrue

LEMMA HeatStep == HeatInv /\ Heating!Next => HeatInv'
BY HeatServes, HeatUpdates, HeatTicks DEF Heating!Next

LEMMA HeatIsBounded == HeatInv => Heating!HotIsOff /\ Heating!StatusIsTrue
<1> SUFFICES ASSUME HeatInv PROVE Heating!HotIsOff
  BY DEF HeatInv
<1>1. v1.hot \in Nat /\ v3.late \in Nat /\ v3.late <= MaxLate
  BY HeatIs DEF HeatInv
<1> QED
  BY <1>1, HeatAssumption DEF HeatInv, HeatIsNew, Heating!HotIsOff

-----------------------------------------------------------------------------
(* A motor under closed loop (Servo): v1 is design, v2 periods, v3 motor,  *)
(* v4 shaft, v5 elapsed, v6 servo, v7 output, v8 phase, v9 computed, v10   *)
(* staged and v11 truth.                                                   *)

(* Division and remainder.                                                 *)
LEMMA Division ==
  ASSUME NEW a \in Int, NEW n \in Nat \ {0}, NEW q, NEW r, q = a \div n, r = a % n
  PROVE  a = n * q + r
OBVIOUS

LEMMA Quotient ==
  ASSUME NEW a \in Int, NEW n \in Nat \ {0}
  PROVE  a \div n \in Int /\ a % n \in Int /\ 0 <= a % n /\ a % n < n
OBVIOUS

(* A number and its remainder differ by a multiple.                        *)
LEMMA Remainder ==
  ASSUME NEW a \in Int, NEW n \in Nat \ {0}, NEW r, r = a % n
  PROVE  r \in Int /\ 0 <= r /\ r < n /\ \E k \in Int : a = n * k + r
<1> DEFINE q == a \div n
<1>1. q \in Int /\ r \in Int /\ 0 <= r /\ r < n
  OBVIOUS
<1>2. a = n * q + r
  BY Division
<1> HIDE DEF q
<1> QED
  BY <1>1, <1>2

(* A number that is small is no multiple but zero.                         *)
LEMMA SmallMultiple ==
  ASSUME NEW n \in Nat \ {0}, NEW k \in Int, -n < n * k, n * k < n
  PROVE  k = 0
<1>1. CASE k >= 1
  <2>1. n * k >= n
    BY <1>1
  <2> QED
    BY <2>1
<1>2. CASE k <= -1
  <2>1. n * k <= -n
    BY <1>2
  <2> QED
    BY <2>1
<1> QED
  BY <1>1, <1>2

LEMMA MultipleIsWhole ==
  ASSUME NEW n \in Nat \ {0}, NEW k \in Int
  PROVE  (n * k) % n = 0
<1> DEFINE a == n * k
           r == a % n
<1>1. a \in Int
  OBVIOUS
<1>2. r \in Int /\ 0 <= r /\ r < n /\ \E q \in Int : a = n * q + r
  <2> HIDE DEF a
  <2>1. r = a % n
    OBVIOUS
  <2> HIDE DEF r
  <2> QED
    BY <1>1, <2>1, Remainder
<1> HIDE DEF r
<1>3. PICK q \in Int : n * k = n * q + r
  BY <1>2
<1> HIDE DEF a
<1>5. n * (k - q) = r /\ k - q \in Int
  BY <1>2, <1>3
<1>6. k - q = 0
  BY <1>2, <1>5, SmallMultiple
<1>7. r = 0
  BY <1>2, <1>3, <1>6
<1> QED
  BY <1>7 DEF r, a

LEMMA Halves == /\ Loop!Half \in Nat /\ Ticks \in Nat \ {0} /\ Ticks = 2 * Loop!Half
                /\ FeedbackTimeout + 2 < Loop!Half /\ FeedbackTimeout \in Nat /\ Zero \in Int
BY LoopAssumption DEF Loop!Half

(* A place and its reading are apart by whole turns.                       *)
Turns(a, r) == \E k \in Int : a = Ticks * k + r

LEMMA ReadingIs ==
  ASSUME NEW a \in Int, NEW r, r = a % Ticks
  PROVE  r \in Int /\ 0 <= r /\ r < Ticks /\ Turns(a, r)
<1> DEFINE q == a \div Ticks
<1>1. q \in Int /\ r \in Int /\ 0 <= r /\ r < Ticks
  BY Halves
<1>2. a = Ticks * q + r
  BY Halves, Division
<1> HIDE DEF q
<1> QED
  BY <1>1, <1>2 DEF Turns

(* The shorter way between two readings is the way that was turned.        *)
LEMMA ShortestIsTheWay ==
  ASSUME NEW a \in Int, NEW b \in Int, a - b < Loop!Half, b - a < Loop!Half
  PROVE  Loop!Shortest((a % Ticks) - (b % Ticks)) = a - b
<1> DEFINE r == a % Ticks
           s == b % Ticks
           H == Loop!Half
           n == Ticks
<1>0. r = a % Ticks /\ s = b % Ticks /\ a \in Int /\ b \in Int
  OBVIOUS
<1> HIDE DEF r, s
<1>1. r \in Int /\ 0 <= r /\ r < n /\ Turns(a, r)
  BY <1>0, ReadingIs
<1>2. s \in Int /\ 0 <= s /\ s < n /\ Turns(b, s)
  BY <1>0, ReadingIs
<1>3. H \in Nat /\ n \in Nat \ {0} /\ n = 2 * H /\ a - b < H /\ b - a < H
  BY Halves
<1> HIDE DEF r, s, H, n
<1>4. PICK k \in Int : a = n * k + r
  BY <1>1 DEF Turns, n
<1>5. PICK l \in Int : b = n * l + s
  BY <1>2 DEF Turns, n
<1>6. r - s = (a - b) - n * (k - l)
  BY <1>1, <1>2, <1>3, <1>4, <1>5
<1> DEFINE m == k - l
           d == a - b
<1>7. m \in Int /\ d \in Int /\ r - s = d - n * m /\ d < H /\ -d < H
  BY <1>3, <1>6
<1> HIDE DEF m, d
<1>8. m \in {-1, 0, 1}
  <2>1. -(2 * n) < n * m /\ n * m < 2 * n
    BY <1>1, <1>2, <1>3, <1>7
  <2>2. m >= 2 => n * m >= 2 * n
    BY <1>3, <1>7
  <2>3. m <= -2 => n * m <= -(2 * n)
    BY <1>3, <1>7
  <2> QED
    BY <1>3, <1>7, <2>1, <2>2, <2>3
<1>9. r - s = d \/ r - s = d - n \/ r - s = d + n
  BY <1>3, <1>7, <1>8
<1>10. Loop!Shortest(r - s) = d
  BY <1>3, <1>7, <1>9 DEF Loop!Shortest, H, n
<1> QED
  BY <1>10 DEF r, s, d

LEMMA WrapIs ==
  ASSUME NEW a \in Int
  PROVE  /\ Loop!Wrap(a) \in Int /\ -Loop!Half <= Loop!Wrap(a) /\ Loop!Wrap(a) < Loop!Half
         /\ \E k \in Int : a = Ticks * k + Loop!Wrap(a)
<1> DEFINE r == (a + Loop!Half) % Ticks
<1>1. r = (a + Loop!Half) % Ticks /\ a + Loop!Half \in Int
  BY Halves
<1>2. Loop!Wrap(a) = r - Loop!Half
  BY DEF Loop!Wrap
<1> HIDE DEF r
<1>3. r \in Int /\ 0 <= r /\ r < Ticks /\ \E k \in Int : a + Loop!Half = Ticks * k + r
  <2> DEFINE b == a + Loop!Half
  <2>1. r = b % Ticks /\ b \in Int
    BY <1>1
  <2> HIDE DEF b
  <2>2. r \in Int /\ 0 <= r /\ r < Ticks /\ Turns(b, r)
    BY <2>1, ReadingIs
  <2> QED
    BY <2>2 DEF b, Turns
<1>4. PICK k \in Int : a + Loop!Half = Ticks * k + r
  BY <1>3
<1>5. a = Ticks * k + (r - Loop!Half)
  BY <1>3, <1>4, Halves
<1> QED
  BY <1>2, <1>3, <1>5, Halves

(* What is small is left when the turns are taken away.                    *)
LEMMA WrapLeaves ==
  ASSUME NEW d \in Int, NEW k \in Int, -Loop!Half <= d, d < Loop!Half
  PROVE  Loop!Wrap(Ticks * k + d) = d
<1> DEFINE a == Ticks * k + d
           w == Loop!Wrap(a)
<1>1. a \in Int
  BY Halves
<1>2. w \in Int /\ -Loop!Half <= w /\ w < Loop!Half /\ \E l \in Int : a = Ticks * l + w
  <2> HIDE DEF a
  <2> QED
    BY <1>1, WrapIs
<1> HIDE DEF w
<1>3. PICK l \in Int : Ticks * k + d = Ticks * l + w
  BY <1>2
<1> HIDE DEF a
<1>4. Ticks * (k - l) = w - d /\ k - l \in Int
  BY <1>2, <1>3, Halves
<1>5. k - l = 0
  BY <1>2, <1>4, Halves, SmallMultiple
<1>6. w = d
  BY <1>2, <1>3, <1>5, Halves
<1> QED
  BY <1>6 DEF w, a

(* The angle of a reading, and the way from one angle to the next.         *)
AngleOf(place) == Loop!Wrap((place % Ticks) - Zero)

LEMMA AngleIs ==
  ASSUME NEW a \in Int
  PROVE  AngleOf(a) \in Int /\ \E k \in Int : a - Zero = Ticks * k + AngleOf(a)
<1> DEFINE r == a % Ticks
           w == AngleOf(a)
<1>0. r = a % Ticks /\ a \in Int
  OBVIOUS
<1> HIDE DEF r
<1>1. r \in Int /\ Turns(a, r)
  BY <1>0, ReadingIs
<1>2. w = Loop!Wrap(r - Zero) /\ r - Zero \in Int
  BY <1>0, <1>1, Halves DEF AngleOf
<1> HIDE DEF r, w
<1>3. w \in Int /\ \E k \in Int : r - Zero = Ticks * k + w
  BY <1>2, WrapIs
<1>4. PICK k \in Int : a = Ticks * k + r
  BY <1>1 DEF Turns
<1>5. PICK l \in Int : r - Zero = Ticks * l + w
  BY <1>3
<1>6. a - Zero = Ticks * (k + l) + w /\ k + l \in Int
  BY <1>1, <1>3, <1>4, <1>5, Halves
<1> QED
  BY <1>3, <1>6 DEF w

LEMMA WayOfTheAngle ==
  ASSUME NEW a \in Int, NEW b \in Int, a - b < Loop!Half, b - a < Loop!Half
  PROVE  Loop!Wrap(AngleOf(a) - AngleOf(b)) = a - b
<1> DEFINE v == AngleOf(a)
           w == AngleOf(b)
<1>1. v \in Int /\ \E k \in Int : a - Zero = Ticks * k + v
  BY AngleIs
<1>2. w \in Int /\ \E k \in Int : b - Zero = Ticks * k + w
  BY AngleIs
<1> HIDE DEF v, w
<1>3. PICK k \in Int : a - Zero = Ticks * k + v
  BY <1>1
<1>4. PICK l \in Int : b - Zero = Ticks * l + w
  BY <1>2
<1>5. v - w = Ticks * (l - k) + (a - b) /\ l - k \in Int
  <2>1. v = a - Zero - Ticks * k /\ w = b - Zero - Ticks * l
    BY <1>1, <1>2, <1>3, <1>4, Halves
  <2> QED
    BY <1>1, <1>2, <2>1, Halves
<1> DEFINE m == l - k
           d == a - b
<1>6. m \in Int /\ d \in Int /\ -Loop!Half <= d /\ d < Loop!Half
  BY Halves
<1>7. v - w = Ticks * m + d
  BY <1>5
<1> HIDE DEF m, d
<1>8. Loop!Wrap(Ticks * m + d) = d
  BY <1>6, WrapLeaves
<1> QED
  BY <1>7, <1>8 DEF v, w, d

-----------------------------------------------------------------------------
(* What the proofs need of a design: its limits and gains are none below   *)
(* zero, it is updated every one or two periods, and it slows down no      *)
(* faster than it speeds up.                                               *)
PidConfigs == [kp : Nat, ki : Nat, kd : Nat, tau : Nat, deadband : Nat, integral : Nat, limit : Nat]
DesignRecords ==
    [kind : Loop!Kinds, pos : PidConfigs, vel : PidConfigs, rising : Nat, falling : Nat, tau : Nat,
     soft : Nat, requested : Nat, dt_min : {1}, dt_max : {2}, effort : Nat, available : Nat,
     k_static : Nat, k_velocity : Nat, k_acceleration : Nat]

LEMMA DesignIs ==
  ASSUME NEW d \in Designs
  PROVE  d \in DesignRecords /\ d.falling <= d.rising
<1>1. Outer \in PidConfigs /\ Inner \in PidConfigs
  BY DEF Outer, Inner, PidConfigs
<1> DEFINE held == [Inner EXCEPT !.tau = 1, !.deadband = 1]
<1>2. held \in PidConfigs
  BY <1>1 DEF PidConfigs
<1>3. Plain \in DesignRecords /\ Plain.falling <= Plain.rising
  BY <1>1 DEF Plain, DesignRecords, Loop!Kinds
<1>4. CASE d = Plain
  BY <1>3, <1>4
<1>5. CASE d = [Plain EXCEPT !.kind = "AbsoluteNearest"]
  BY <1>3, <1>5 DEF DesignRecords, Loop!Kinds
<1>6. CASE d = [Plain EXCEPT !.kind = "DriverContinuous", !.requested = 1]
  BY <1>3, <1>6 DEF DesignRecords, Loop!Kinds
<1>7. CASE d = [Plain EXCEPT !.kind = "Velocity", !.vel.tau = 1, !.vel.deadband = 1, !.tau = 1, !.soft = 1,
                             !.k_static = 1, !.k_velocity = 1, !.k_acceleration = 1]
  <2>1. Plain.vel = Inner
    BY DEF Plain
  <2>2. d = [Plain EXCEPT !.kind = "Velocity", !.vel = held, !.tau = 1, !.soft = 1,
                          !.k_static = 1, !.k_velocity = 1, !.k_acceleration = 1]
    BY <1>3, <1>7, <2>1 DEF DesignRecords
  <2> HIDE DEF held
  <2>3. d \in DesignRecords
    BY <1>2, <1>3, <2>2 DEF DesignRecords, Loop!Kinds
  <2>4. d.falling = Plain.falling /\ d.rising = Plain.rising
    BY <1>3, <2>2 DEF DesignRecords
  <2> QED
    BY <1>3, <2>3, <2>4
<1> QED
  BY <1>4, <1>5, <1>6, <1>7 DEF Designs

(* What the loops keep.                                                    *)
Pids == [integral : Int, previous : Int, rate : Int]
Velocities == [filtered : Int, reference : Int, pid : Pids]

LEMMA ClampIs ==
  ASSUME NEW a \in Int, NEW limit \in Nat
  PROVE  /\ Loop!Clamp(a, limit) \in -limit .. limit
         /\ \A x \in -limit .. limit : (a <= x => Loop!Clamp(a, limit) <= x) /\ (x <= a => x <= Loop!Clamp(a, limit))
BY DEF Loop!Clamp

LEMMA FilteredIs ==
  ASSUME NEW old \in Int, NEW new \in Int, NEW tau \in Nat, NEW dt \in Nat \ {0}
  PROVE  Loop!Filtered(old, new, tau, dt) \in Int /\ (tau = 0 => Loop!Filtered(old, new, tau, dt) = new)
<1>1. CASE tau = 0
  BY <1>1 DEF Loop!Filtered
<1>2. CASE tau # 0
  <2> DEFINE a == dt * (new - old)
             n == tau + dt
  <2>1. a \in Int /\ n \in Nat \ {0}
    OBVIOUS
  <2>2. Loop!Filtered(old, new, tau, dt) = old + a \div n
    BY <1>2 DEF Loop!Filtered
  <2> HIDE DEF a, n
  <2> QED
    BY <1>2, <2>1, <2>2, Quotient
<1> QED
  BY <1>1, <1>2

(* How fast it went from one place to another.                             *)
Pace(to, from, dt) == (2 * (to - from)) \div dt

(* control_pid_step_core(): its state stays within its limits, and while   *)
(* its output is beyond a limit the integral does not grow towards it.     *)
LEMMA PidStepIs ==
  ASSUME NEW s \in Pids, NEW c \in PidConfigs, NEW want \in Int, NEW got \in Int, NEW dt \in Nat \ {0},
         NEW freeze \in BOOLEAN, NEW extra \in Int, s.integral \in -c.integral .. c.integral
  PROVE  LET p == Loop!PidStep(s, c, want, got, dt, freeze, extra)
         IN  /\ p.state \in Pids /\ p.state.integral \in -c.integral .. c.integral
             /\ p.rate \in Int /\ p.total \in Int /\ p.output \in -c.limit .. c.limit
             /\ p.state.previous = got
             /\ c.tau = 0 => p.rate = Pace(got, s.previous, dt)
             /\ p.total > c.limit => p.state.integral <= s.integral
             /\ p.total < -c.limit => p.state.integral >= s.integral
<1> DEFINE e == IF Loop!Abs(want - got) <= c.deadband THEN 0 ELSE want - got
           way == Pace(got, s.previous, dt)
           rate == Loop!Filtered(s.rate, way, c.tau, dt)
           pd == c.kp * e - c.kd * rate
           more == c.ki * e * dt
           i == Loop!Clamp(s.integral + more, c.integral)
           kept == IF Loop!Integrates(c, e, pd + i + extra, freeze) THEN i ELSE s.integral
           total == pd + kept + extra
           p == Loop!PidStep(s, c, want, got, dt, freeze, extra)
<1>1. p = [state |-> [integral |-> kept, previous |-> got, rate |-> IF c.tau = 0 THEN 0 ELSE rate],
           rate |-> rate, total |-> total, output |-> Loop!Clamp(total, c.limit)]
  BY DEF Loop!PidStep, Pace
<1>2. /\ c.kp \in Nat /\ c.ki \in Nat /\ c.kd \in Nat /\ c.tau \in Nat /\ c.integral \in Nat /\ c.limit \in Nat
      /\ c.deadband \in Nat /\ s.integral \in Int /\ s.previous \in Int /\ s.rate \in Int
  BY DEF PidConfigs, Pids
<1>3. e \in Int
  BY <1>2
<1>4. way \in Int
  <2> DEFINE a == 2 * (got - s.previous)
  <2>1. a \in Int
    BY <1>2
  <2> HIDE DEF a
  <2>2. a \div dt \in Int
    BY <2>1, Quotient
  <2> QED
    BY <2>2 DEF a, Pace
<1> HIDE DEF e, way
<1>5. rate \in Int /\ (c.tau = 0 => rate = way)
  <2> DEFINE old == s.rate
             tau == c.tau
  <2>1. old \in Int /\ tau \in Nat
    BY <1>2
  <2> HIDE DEF old, tau
  <2>2. Loop!Filtered(old, way, tau, dt) \in Int /\ (tau = 0 => Loop!Filtered(old, way, tau, dt) = way)
    BY <1>4, <2>1, FilteredIs
  <2> QED
    BY <2>2 DEF old, tau
<1> HIDE DEF rate
<1>6. pd \in Int /\ more \in Int
  BY <1>2, <1>3, <1>5
<1>7. (e <= 0 => more <= 0) /\ (e >= 0 => more >= 0)
  <2>1. c.ki * dt \in Nat /\ more = (c.ki * dt) * e
    BY <1>2, <1>3
  <2> DEFINE k == c.ki * dt
  <2>2. k \in Nat /\ more = k * e
    BY <2>1
  <2> HIDE DEF k, more
  <2>3. e <= 0 => k * e <= 0
    BY <1>3, <2>2
  <2>4. e >= 0 => k * e >= 0
    BY <1>3, <2>2
  <2> QED
    BY <2>2, <2>3, <2>4
<1> HIDE DEF pd, more
<1>8. /\ i \in -c.integral .. c.integral
      /\ e <= 0 => i <= s.integral
      /\ e >= 0 => i >= s.integral
  <2> DEFINE x == s.integral
             a == x + more
             limit == c.integral
  <2>1. a \in Int /\ limit \in Nat /\ x \in -limit .. limit /\ (e <= 0 => a <= x) /\ (e >= 0 => x <= a)
    BY <1>2, <1>3, <1>6, <1>7
  <2> HIDE DEF x, a, limit
  <2>2. /\ Loop!Clamp(a, limit) \in -limit .. limit
        /\ e <= 0 => Loop!Clamp(a, limit) <= x
        /\ e >= 0 => x <= Loop!Clamp(a, limit)
    BY <2>1, ClampIs
  <2>3. Loop!Clamp(a, limit) \in Int /\ x \in Int
    BY <2>1, <2>2
  <2>4. /\ Loop!Clamp(a, limit) \in -limit .. limit
        /\ e <= 0 => Loop!Clamp(a, limit) <= x
        /\ e >= 0 => Loop!Clamp(a, limit) >= x
    BY <2>2, <2>3
  <2> QED
    BY <2>4 DEF x, a, limit
<1> HIDE DEF i
<1>9. /\ kept \in -c.integral .. c.integral
      /\ total > c.limit => kept <= s.integral
      /\ total < -c.limit => kept >= s.integral
  <2>1. CASE Loop!Integrates(c, e, pd + i + extra, freeze)
    <3>1. kept = i /\ total = pd + i + extra
      BY <2>1
    <3>2. ~(total > c.limit /\ e > 0) /\ ~(total < -c.limit /\ e < 0)
      BY <2>1, <3>1 DEF Loop!Integrates
    <3> QED
      BY <1>3, <1>8, <3>1, <3>2
  <2>2. CASE ~Loop!Integrates(c, e, pd + i + extra, freeze)
    <3>1. kept = s.integral
      BY <2>2
    <3> HIDE DEF kept
    <3> QED
      BY <1>2, <3>1
  <2> QED
    BY <2>1, <2>2
<1> HIDE DEF kept
<1>10. total \in Int
  BY <1>2, <1>6, <1>9
<1> HIDE DEF total
<1>11. Loop!Clamp(total, c.limit) \in -c.limit .. c.limit
  BY <1>2, <1>10, ClampIs
<1>12. /\ p.state = [integral |-> kept, previous |-> got, rate |-> IF c.tau = 0 THEN 0 ELSE rate]
       /\ p.rate = rate /\ p.total = total /\ p.output = Loop!Clamp(total, c.limit)
  BY <1>1
<1> HIDE DEF p
<1>13. p.state \in Pids /\ p.state.integral = kept /\ p.state.previous = got
  BY <1>2, <1>5, <1>9, <1>12 DEF Pids
<1> QED
  BY <1>5, <1>9, <1>10, <1>11, <1>12, <1>13 DEF p, way

(* control_slew_rate_step(): it stays between what was and what is wanted, *)
(* and grows by no more than the rising rate allows.                       *)
LEMMA SlewedIs ==
  ASSUME NEW d \in DesignRecords, d.falling <= d.rising, NEW dt \in Nat, NEW bound \in Nat, NEW ramp \in Nat,
         NEW value \in -bound .. bound, NEW want \in -bound .. bound, value \in -ramp .. ramp
  PROVE  /\ Loop!Slewed(value, want, d, dt) \in -bound .. bound
         /\ Loop!Slewed(value, want, d, dt) \in -(ramp + dt * d.rising) .. ramp + dt * d.rising
<1> DEFINE up == dt * d.rising
           down == dt * d.falling
           most == IF want >= value THEN up ELSE down
           new == Loop!Slewed(value, want, d, dt)
<1>1. up \in Nat /\ down \in Nat /\ down <= up
  <2>1. d.rising \in Nat /\ d.falling \in Nat
    BY DEF DesignRecords
  <2>2. dt * (d.rising - d.falling) >= 0 /\ dt * d.rising \in Nat /\ dt * d.falling \in Nat
    BY <2>1
  <2> QED
    BY <2>1, <2>2
<1>2. new = value + Loop!Clamp(want - value, most)
  <2>1. dt * (IF want >= value THEN d.rising ELSE d.falling) = most
    OBVIOUS
  <2> QED
    BY <2>1 DEF Loop!Slewed
<1> HIDE DEF up, down, new
<1>3. /\ new \in -bound .. bound
      /\ new \in -(ramp + up) .. ramp + up
  <2>1. CASE want >= value
    <3>1. new = value + Loop!Clamp(want - value, up)
      BY <1>2, <2>1
    <3> QED
      BY <1>1, <2>1, <3>1 DEF Loop!Clamp
  <2>2. CASE ~(want >= value)
    <3>1. new = value + Loop!Clamp(want - value, down)
      BY <1>2, <2>2
    <3> QED
      BY <1>1, <2>2, <3>1 DEF Loop!Clamp
  <2> QED
    BY <2>1, <2>2
<1> QED
  BY <1>3 DEF up, new

LEMMA FeedforwardIs ==
  ASSUME NEW d \in DesignRecords, NEW speed \in Int, NEW change \in Int
  PROVE  Loop!Feedforward(d, speed, change) \in Int
<1> DEFINE s == Loop!Sign(IF speed # 0 THEN speed ELSE change)
<1>1. s \in Int
  BY DEF Loop!Sign
<1>2. d.k_static \in Int /\ d.k_velocity \in Int /\ d.k_acceleration \in Int
  BY DEF DesignRecords
<1>3. Loop!Feedforward(d, speed, change) = d.k_static * s + d.k_velocity * speed + d.k_acceleration * change
  BY DEF Loop!Feedforward
<1> HIDE DEF s
<1>4. d.k_static * s \in Int /\ d.k_velocity * speed \in Int /\ d.k_acceleration * change \in Int
  BY <1>1, <1>2
<1> QED
  BY <1>3, <1>4

LEMMA SoftenedIs ==
  ASSUME NEW e \in Int, NEW band \in Nat
  PROVE  Loop!Softened(e, band) \in Int
BY DEF Loop!Softened, Loop!Sign, Loop!Abs

(* control_motor_velocity_step(): the velocity asked for stays within what *)
(* may be requested and grows by the slew limit, and the effort within its *)
(* limit; the integral is that of the regulator.                           *)
LEMMA VelocityStepIs ==
  ASSUME NEW v \in Velocities, NEW d \in DesignRecords, d.falling <= d.rising, NEW ramp \in Nat,
         NEW want \in -d.requested .. d.requested, NEW speed \in Int, NEW dt \in Nat \ {0},
         v.reference \in -d.requested .. d.requested, v.reference \in -ramp .. ramp,
         v.pid.integral \in -d.vel.integral .. d.vel.integral
  PROVE  LET w == Loop!VelocityStep(v, d, want, speed, dt)
         IN  /\ w.state \in Velocities /\ w.state.reference \in -d.requested .. d.requested
             /\ w.state.reference \in -(ramp + dt * d.rising) .. ramp + dt * d.rising
             /\ w.state.pid.integral \in -d.vel.integral .. d.vel.integral
             /\ w.total \in Int /\ w.effort \in -d.effort .. d.effort
             /\ w.total > d.vel.limit => w.state.pid.integral <= v.pid.integral
             /\ w.total < -d.vel.limit => w.state.pid.integral >= v.pid.integral
<1> DEFINE f == Loop!Filtered(v.filtered, speed, d.tau, dt)
           ref == Loop!Slewed(v.reference, want, d, dt)
           e == Loop!Softened(ref - f, d.soft)
           change == (2 * (ref - v.reference)) \div dt
           extra == Loop!Feedforward(d, ref, change)
           step == Loop!PidStep(v.pid, d.vel, ref, ref - e, dt, FALSE, extra)
           w == Loop!VelocityStep(v, d, want, speed, dt)
<1>1. w = [state |-> [filtered |-> IF d.tau = 0 THEN 0 ELSE f, reference |-> ref, pid |-> step.state],
           total |-> step.total, effort |-> Loop!Clamp(step.output, d.effort)]
  BY DEF Loop!VelocityStep, Loop!Regulated
<1>2. /\ v.filtered \in Int /\ v.reference \in Int /\ v.pid \in Pids /\ d.tau \in Nat /\ d.soft \in Nat
      /\ d.requested \in Nat /\ d.effort \in Nat /\ d.vel \in PidConfigs
  BY DEF Velocities, DesignRecords
<1>3. f \in Int
  <2> DEFINE old == v.filtered
             tau == d.tau
  <2>1. old \in Int /\ tau \in Nat
    BY <1>2
  <2> HIDE DEF old, tau
  <2>2. Loop!Filtered(old, speed, tau, dt) \in Int
    BY <2>1, FilteredIs
  <2> QED
    BY <2>2 DEF old, tau
<1>4. ref \in -d.requested .. d.requested /\ ref \in -(ramp + dt * d.rising) .. ramp + dt * d.rising
  <2> DEFINE bound == d.requested
             value == v.reference
  <2>1. bound \in Nat /\ value \in -bound .. bound /\ want \in -bound .. bound /\ value \in -ramp .. ramp
    BY <1>2
  <2> HIDE DEF bound, value
  <2>2. /\ Loop!Slewed(value, want, d, dt) \in -bound .. bound
        /\ Loop!Slewed(value, want, d, dt) \in -(ramp + dt * d.rising) .. ramp + dt * d.rising
    BY <2>1, SlewedIs
  <2> QED
    BY <2>2 DEF bound, value
<1> HIDE DEF f, ref
<1>5. ref \in Int
  BY <1>2, <1>4
<1>6. e \in Int
  <2> DEFINE a == ref - f
             band == d.soft
  <2>1. a \in Int /\ band \in Nat
    BY <1>2, <1>3, <1>5
  <2> HIDE DEF a, band
  <2>2. Loop!Softened(a, band) \in Int
    BY <2>1, SoftenedIs
  <2> QED
    BY <2>2 DEF a, band
<1>7. change \in Int
  <2> DEFINE a == 2 * (ref - v.reference)
  <2>1. a \in Int
    BY <1>2, <1>5
  <2> HIDE DEF a
  <2>2. a \div dt \in Int
    BY <2>1, Quotient
  <2> QED
    BY <2>2 DEF a
<1> HIDE DEF e, change
<1>8. extra \in Int
  BY <1>5, <1>7, FeedforwardIs
<1> HIDE DEF extra
<1>9. /\ step.state \in Pids /\ step.state.integral \in -d.vel.integral .. d.vel.integral
      /\ step.total \in Int /\ step.output \in -d.vel.limit .. d.vel.limit
      /\ step.total > d.vel.limit => step.state.integral <= v.pid.integral
      /\ step.total < -d.vel.limit => step.state.integral >= v.pid.integral
  <2> DEFINE s == v.pid
             c == d.vel
             got == ref - e
  <2>1. s \in Pids /\ c \in PidConfigs /\ got \in Int /\ s.integral \in -c.integral .. c.integral /\ FALSE \in BOOLEAN
    BY <1>2, <1>5, <1>6
  <2> HIDE DEF s, c, got
  <2>2. LET p == Loop!PidStep(s, c, ref, got, dt, FALSE, extra)
        IN  /\ p.state \in Pids /\ p.state.integral \in -c.integral .. c.integral
            /\ p.total \in Int /\ p.output \in -c.limit .. c.limit
            /\ p.total > c.limit => p.state.integral <= s.integral
            /\ p.total < -c.limit => p.state.integral >= s.integral
    BY <1>5, <1>8, <2>1, PidStepIs
  <2> QED
    BY <2>2 DEF s, c, got
<1> HIDE DEF step
<1>10. Loop!Clamp(step.output, d.effort) \in -d.effort .. d.effort
  <2>1. step.output \in Int
    BY <1>2, <1>9 DEF PidConfigs
  <2> QED
    BY <1>2, <2>1, ClampIs
<1>11. /\ w.state = [filtered |-> IF d.tau = 0 THEN 0 ELSE f, reference |-> ref, pid |-> step.state]
       /\ w.total = step.total /\ w.effort = Loop!Clamp(step.output, d.effort)
  BY <1>1
<1> HIDE DEF w
<1>12. w.state \in Velocities /\ w.state.reference = ref /\ w.state.pid = step.state
  BY <1>3, <1>5, <1>9, <1>11 DEF Velocities
<1> QED
  BY <1>4, <1>9, <1>10, <1>11, <1>12 DEF w

(* control_motor_position_step(): the outer loop asks for a velocity.      *)
LEMMA PositionStepIs ==
  ASSUME NEW s, NEW d \in DesignRecords, d.falling <= d.rising, d.pos.limit <= d.requested, NEW ramp \in Nat,
         s.position \in Pids, s.velocity \in Velocities, s.position.integral \in -d.pos.integral .. d.pos.integral,
         NEW want \in Int, NEW got \in Int, NEW speed \in Int, NEW dt \in Nat \ {0},
         s.velocity.reference \in -d.requested .. d.requested, s.velocity.reference \in -ramp .. ramp,
         s.velocity.pid.integral \in -d.vel.integral .. d.vel.integral
  PROVE  LET w == Loop!PositionStep(s, d, want, got, speed, dt)
         IN  /\ w.position \in Pids /\ w.position.integral \in -d.pos.integral .. d.pos.integral
             /\ w.position.previous = got /\ w.rate \in Int
             /\ d.pos.tau = 0 => w.rate = Pace(got, s.position.previous, dt)
             /\ w.velocity \in Velocities /\ w.velocity.reference \in -d.requested .. d.requested
             /\ w.velocity.reference \in -(ramp + dt * d.rising) .. ramp + dt * d.rising
             /\ w.velocity.pid.integral \in -d.vel.integral .. d.vel.integral
             /\ w.total \in Int /\ w.effort \in -d.effort .. d.effort
             /\ w.total > d.vel.limit => w.velocity.pid.integral <= s.velocity.pid.integral
             /\ w.total < -d.vel.limit => w.velocity.pid.integral >= s.velocity.pid.integral
<1> DEFINE outer == Loop!PidStep(s.position, d.pos, want, got, dt, TRUE, 0)
           inner == Loop!VelocityStep(s.velocity, d, outer.output, speed, dt)
           w == Loop!PositionStep(s, d, want, got, speed, dt)
<1>1. w = [position |-> outer.state, velocity |-> inner.state, rate |-> outer.rate,
           total |-> inner.total, effort |-> inner.effort]
  BY DEF Loop!PositionStep
<1>2. d.pos \in PidConfigs /\ d.pos.limit \in Nat /\ d.requested \in Nat
  BY DEF DesignRecords, PidConfigs
<1>3. /\ outer.state \in Pids /\ outer.state.integral \in -d.pos.integral .. d.pos.integral
      /\ outer.rate \in Int /\ outer.output \in -d.pos.limit .. d.pos.limit
      /\ outer.state.previous = got
      /\ d.pos.tau = 0 => outer.rate = Pace(got, s.position.previous, dt)
  <2> DEFINE q == s.position
             c == d.pos
             frozen == TRUE
             none == 0
             p == Loop!PidStep(q, c, want, got, dt, frozen, none)
  <2>1. q \in Pids /\ c \in PidConfigs /\ q.integral \in -c.integral .. c.integral
        /\ frozen \in BOOLEAN /\ none \in Int
    BY <1>2
  <2> HIDE DEF q, c, frozen, none
  <2>2. /\ p.state \in Pids /\ p.state.integral \in -c.integral .. c.integral
        /\ p.rate \in Int /\ p.output \in -c.limit .. c.limit
        /\ p.state.previous = got
        /\ c.tau = 0 => p.rate = Pace(got, q.previous, dt)
    BY <2>1, PidStepIs
  <2> HIDE DEF p
  <2> QED
    BY <2>2 DEF p, q, c, frozen, none
<1> HIDE DEF outer
<1>4. outer.output \in -d.requested .. d.requested
  BY <1>2, <1>3
<1>5. /\ inner.state \in Velocities /\ inner.state.reference \in -d.requested .. d.requested
      /\ inner.state.reference \in -(ramp + dt * d.rising) .. ramp + dt * d.rising
      /\ inner.state.pid.integral \in -d.vel.integral .. d.vel.integral
      /\ inner.total \in Int /\ inner.effort \in -d.effort .. d.effort
      /\ inner.total > d.vel.limit => inner.state.pid.integral <= s.velocity.pid.integral
      /\ inner.total < -d.vel.limit => inner.state.pid.integral >= s.velocity.pid.integral
  <2> DEFINE v == s.velocity
             want2 == outer.output
  <2>1. /\ v \in Velocities /\ want2 \in -d.requested .. d.requested
        /\ v.reference \in -d.requested .. d.requested /\ v.reference \in -ramp .. ramp
        /\ v.pid.integral \in -d.vel.integral .. d.vel.integral
    BY <1>4
  <2> HIDE DEF v, want2
  <2>2. LET x == Loop!VelocityStep(v, d, want2, speed, dt)
        IN  /\ x.state \in Velocities /\ x.state.reference \in -d.requested .. d.requested
            /\ x.state.reference \in -(ramp + dt * d.rising) .. ramp + dt * d.rising
            /\ x.state.pid.integral \in -d.vel.integral .. d.vel.integral
            /\ x.total \in Int /\ x.effort \in -d.effort .. d.effort
            /\ x.total > d.vel.limit => x.state.pid.integral <= v.pid.integral
            /\ x.total < -d.vel.limit => x.state.pid.integral >= v.pid.integral
    BY <2>1, VelocityStepIs
  <2> QED
    BY <2>2 DEF v, want2
<1> HIDE DEF inner
<1>6. /\ w.position = outer.state /\ w.velocity = inner.state /\ w.rate = outer.rate
      /\ w.total = inner.total /\ w.effort = inner.effort
  BY <1>1
<1> HIDE DEF w
<1> QED
  BY <1>3, <1>5, <1>6 DEF w

-----------------------------------------------------------------------------
(* A motor under closed loop: what its variables hold.                     *)
Encoders ==
    [known : BOOLEAN, active : BOOLEAN, valid : BOOLEAN, enable : Nat, reference : Nat,
     encoder : Int, total : Int, speed : Int, age : Nat]
Controllers ==
    [configured : BOOLEAN, live : BOOLEAN, enable : Nat, reference : Nat, started : BOOLEAN,
     initial : Int, origin : Int, local_valid : BOOLEAN, local : Int, angle : Int,
     position : Pids, velocity : Velocities]
Steppings == [stepped : BOOLEAN, total : Int, rate : Int]
Asked == [valid : BOOLEAN, enable : Nat, reference : Nat, effort : Int]
Truths == [datum : Int, seen : Int, used : Int, ramp : Nat]

LoopTypes ==
    /\ v1 \in Designs /\ v2 \in Nat /\ v3 \in Encoders /\ v4 \in Int /\ v5 \in 0 .. 3
    /\ v6 \in Controllers /\ v7 \in Steppings /\ v8 \in {"Update", "Stage"}
    /\ v9 \in Asked /\ v10 \in Asked /\ v11 \in Truths

(* The driver counts the turns of the shaft it has seen, and has not lost  *)
(* the shaft while its feedback is fresh.                                  *)
ShaftIsFollowed ==
    /\ v3.known => v3.encoder = v11.seen % Ticks
    /\ v3.valid \/ v3.active \/ v6.live \/ v6.local_valid => v3.known
    /\ ~v3.known => v3.total = 0
    /\ v3.valid => v3.total + v11.datum = v11.seen
    /\ Loop!Fresh => v4 - v11.seen <= v3.age /\ v11.seen - v4 <= v3.age

(* What the loops keep stays within the limits of the configuration.       *)
LoopsAreLimited ==
    /\ v6.configured => Loop!Valid(v1)
    /\ v6.position.integral \in -v1.pos.integral .. v1.pos.integral
    /\ v6.velocity.pid.integral \in -v1.vel.integral .. v1.vel.integral
    /\ v6.velocity.reference \in -v1.requested .. v1.requested
    /\ v6.live => v6.velocity.reference \in -v11.ramp .. v11.ramp

(* An effort is of the coordinate the motor is in, unless the motor was    *)
(* disabled since.                                                         *)
OfCoordinate(e) ==
    /\ e.enable <= v3.enable
    /\ e.valid /\ v3.active /\ e.enable = v3.enable => e.reference = v3.reference

EffortsAreOfCoordinate ==
    /\ v8 = "Update" => v9 = Loop!Nothing
    /\ OfCoordinate(v9) /\ OfCoordinate(v10)

(* What a history has measured is where the shaft was when it was used.    *)
HistoryIsOfTheShaft ==
    /\ v6.enable <= v3.enable /\ v6.reference <= v3.reference
    /\ v6.local_valid => Loop!IsAbsolute /\ v6.angle = AngleOf(v11.used) /\ Turns(v6.local, v6.angle)
    /\ v6.local_valid /\ v6.enable = v3.enable /\ v3.active /\ Loop!Fresh /\ v5 < 3
       => /\ v11.seen - v11.used + v3.age <= v5 + FeedbackTimeout
          /\ v11.used - v11.seen + v3.age <= v5 + FeedbackTimeout
    /\ v6.live /\ Loop!IsAbsolute
       => v6.local_valid /\ v6.position.previous + v6.origin = v6.local
    /\ v6.live /\ Loop!IsPosition /\ ~Loop!IsAbsolute /\ v6.reference = v3.reference
       => v6.position.previous + v6.origin + v11.datum = v11.used

LoopInv ==
    LoopTypes /\ ShaftIsFollowed /\ LoopsAreLimited /\ EffortsAreOfCoordinate /\ HistoryIsOfTheShaft

LEMMA DesignFields ==
  ASSUME LoopTypes
  PROVE  /\ v1 \in DesignRecords /\ v1.falling <= v1.rising /\ v1.dt_min = 1 /\ v1.dt_max = 2
         /\ v1.pos \in PidConfigs /\ v1.vel \in PidConfigs /\ v1.requested \in Nat /\ v1.rising \in Nat
         /\ v1.effort \in Nat /\ v1.pos.integral \in Nat /\ v1.vel.integral \in Nat
         /\ v1.vel.limit \in Nat /\ v1.pos.limit \in Nat /\ Loop!Top = 3
<1>1. v1 \in DesignRecords /\ v1.falling <= v1.rising
  BY DesignIs DEF LoopTypes
<1> QED
  BY <1>1 DEF DesignRecords, PidConfigs, Loop!Top

(* The initial state.                                                      *)
LEMMA LoopStart ==
  ASSUME Loop!Init
  PROVE  LoopInv
<1>1. /\ v1 \in Designs /\ v2 = 0 /\ v4 = 0 /\ v5 = 0 /\ v6 = Loop!NoServo /\ v7 = Loop!NoOutput
      /\ v8 = "Update" /\ v9 = Loop!Nothing /\ v10 = Loop!Nothing
      /\ v11 = [datum |-> 0, seen |-> 0, used |-> 0, ramp |-> 0]
      /\ v3 = [known |-> FALSE, active |-> FALSE, valid |-> FALSE, enable |-> 0, reference |-> 0,
               encoder |-> 0, total |-> 0, speed |-> 0, age |-> 0]
  BY DEF Loop!Init
<1>2. Loop!PidReset(0) = [integral |-> 0, previous |-> 0, rate |-> 0]
  BY DEF Loop!PidReset
<1>3. Loop!VelocityReset(0) = [filtered |-> 0, reference |-> 0, pid |-> Loop!PidReset(0)]
  BY DEF Loop!VelocityReset
<1>4. Loop!PidReset(0) \in Pids /\ Loop!VelocityReset(0) \in Velocities
  BY <1>2, <1>3 DEF Pids, Velocities
<1>5. v6 = [configured |-> FALSE, live |-> FALSE, enable |-> 0, reference |-> 0,
            started |-> FALSE, initial |-> 0, origin |-> 0,
            local_valid |-> FALSE, local |-> 0, angle |-> 0,
            position |-> Loop!PidReset(0), velocity |-> Loop!VelocityReset(0)]
  BY <1>1 DEF Loop!NoServo
<1>6. v6 \in Controllers
  BY <1>4, <1>5 DEF Controllers
<1>7. v9 \in Asked /\ v9.enable = 0 /\ ~v9.valid /\ v10 \in Asked /\ v10.enable = 0 /\ ~v10.valid
  BY <1>1 DEF Loop!Nothing, Asked
<1>8. v3 \in Encoders /\ v7 \in Steppings /\ v11 \in Truths
  BY <1>1 DEF Loop!NoOutput, Encoders, Steppings, Truths
<1>9. LoopTypes
  BY <1>1, <1>6, <1>7, <1>8 DEF LoopTypes
<1>10. ~v3.known /\ ~v3.valid /\ ~v3.active /\ v3.total = 0 /\ v3.enable = 0 /\ v3.reference = 0
  BY <1>1
<1>11. ~v6.configured /\ ~v6.live /\ ~v6.local_valid /\ v6.enable = 0 /\ v6.reference = 0
  BY <1>5
<1>12. v6.position.integral = 0 /\ v6.velocity.reference = 0 /\ v6.velocity.pid.integral = 0
  BY <1>2, <1>3, <1>5
<1>13. ShaftIsFollowed
  BY <1>10, <1>11 DEF ShaftIsFollowed, Loop!Fresh
<1>14. LoopsAreLimited
  BY <1>9, <1>11, <1>12, DesignFields DEF LoopsAreLimited
<1>15. EffortsAreOfCoordinate
  BY <1>1, <1>7, <1>10 DEF EffortsAreOfCoordinate, OfCoordinate
<1>16. HistoryIsOfTheShaft
  BY <1>10, <1>11 DEF HistoryIsOfTheShaft
<1> QED
  BY <1>9, <1>13, <1>14, <1>15, <1>16 DEF LoopInv

-----------------------------------------------------------------------------
(* acceptDjiFeedback(): a frame that comes in time is counted from the one *)
(* before, and one that comes late ends the enabling and the coordinate.   *)
LEMMA AcceptedIs ==
  ASSUME LoopInv, NEW turned \in {-1, 1}
  PROVE  LET m == Loop!Accepted(turned)
         IN  /\ m \in Encoders /\ m.encoder = (v4 + turned) % Ticks /\ m.age = 0 /\ m.known
             /\ m.enable = v3.enable /\ m.reference >= v3.reference
             /\ m.active => v3.active /\ Loop!Fresh /\ m.reference = v3.reference
             /\ ~v3.known => m.total = 0
             /\ v3.known /\ m.valid => m.total + v11.datum = v4 + turned
<1> DEFINE r == (v4 + turned) % Ticks
           gap == v3.known /\ ~Loop!Fresh
           o == IF gap /\ v3.active THEN Loop!Faulted(v3) ELSE v3
           c == Loop!Counted(o, gap, r)
           m == Loop!Accepted(turned)
<1>1. m = [c EXCEPT !.encoder = r, !.speed = 2 * turned, !.age = 0]
  BY DEF Loop!Accepted
<1>2. LoopTypes /\ ShaftIsFollowed /\ v3 \in Encoders /\ v4 \in Int /\ v11 \in Truths /\ turned \in Int
  BY DEF LoopInv, LoopTypes
<1>3. r \in Int /\ r = (v4 + turned) % Ticks
  BY <1>2, ReadingIs
<1> DEFINE x == 2 * turned
<1>4. x \in Int
  BY <1>2
<1>5. m = [c EXCEPT !.encoder = r, !.speed = x, !.age = 0]
  BY <1>1
<1> HIDE DEF r, m, x
<1>6. /\ o \in Encoders /\ o.known = v3.known /\ o.enable = v3.enable /\ o.encoder = v3.encoder
      /\ o.total = v3.total /\ o.reference >= v3.reference
      /\ o.active => ~gap
      /\ ~gap => o = v3
  <2>1. CASE gap /\ v3.active
    <3> DEFINE n == IF v3.valid THEN v3.reference + 1 ELSE v3.reference
    <3>1. o = [v3 EXCEPT !.active = FALSE, !.valid = FALSE, !.reference = n]
      BY <2>1 DEF Loop!Faulted
    <3>2. n \in Nat /\ n >= v3.reference
      BY <1>2 DEF Encoders
    <3> HIDE DEF n, o, gap
    <3>3. o \in Encoders
      BY <1>2, <3>1, <3>2 DEF Encoders
    <3>4. /\ o.known = v3.known /\ o.enable = v3.enable /\ o.encoder = v3.encoder
          /\ o.total = v3.total /\ o.reference = n /\ ~o.active
      BY <1>2, <3>1, <3>2 DEF Encoders
    <3> QED
      BY <2>1, <3>2, <3>3, <3>4
  <2>2. CASE ~(gap /\ v3.active)
    <3>1. o = v3
      BY <2>2
    <3> QED
      BY <1>2, <2>2, <3>1 DEF Encoders
  <2> QED
    BY <2>1, <2>2
<1>7. gap => v3.known /\ ~Loop!Fresh
  OBVIOUS
<1>8. ~gap /\ v3.known => Loop!Fresh
  OBVIOUS
<1> HIDE DEF o, gap
(* What is kept of the record before, and what the frame puts into it.     *)
<1>9. ASSUME c \in Encoders
      PROVE  /\ m \in Encoders /\ m.encoder = r /\ m.age = 0 /\ m.known = c.known /\ m.enable = c.enable
             /\ m.reference = c.reference /\ m.active = c.active /\ m.valid = c.valid /\ m.total = c.total
  <2> HIDE DEF c
  <2>1. m \in Encoders
    BY <1>3, <1>4, <1>5, <1>9 DEF Encoders
  <2> QED
    BY <1>5, <1>9, <2>1 DEF Encoders
<1>10. /\ c \in Encoders /\ c.known /\ c.enable = v3.enable /\ c.reference >= v3.reference
       /\ c.active => v3.active /\ Loop!Fresh /\ c.reference = v3.reference
       /\ ~v3.known => c.total = 0
       /\ v3.known /\ c.valid => c.total + v11.datum = v4 + turned
  <2>1. CASE ~o.known
    <3>1. c = [o EXCEPT !.known = TRUE, !.valid = TRUE]
      BY <2>1 DEF Loop!Counted
    <3> HIDE DEF c
    <3>2. ~v3.known /\ v3.total = 0 /\ ~v3.active /\ o = v3
      BY <1>2, <1>6, <1>7, <2>1 DEF ShaftIsFollowed
    <3>3. c \in Encoders
      BY <1>2, <3>1, <3>2 DEF Encoders
    <3>4. /\ c.known /\ c.enable = v3.enable /\ c.reference = v3.reference
          /\ c.active = v3.active /\ c.total = v3.total
      BY <1>2, <3>1, <3>2 DEF Encoders
    <3>5. v3.reference \in Nat
      BY <1>2 DEF Encoders
    <3> QED
      BY <3>2, <3>3, <3>4, <3>5
  <2>2. CASE o.known /\ gap
    <3> DEFINE n == IF o.valid THEN o.reference + 1 ELSE o.reference
    <3>1. c = [o EXCEPT !.valid = FALSE, !.reference = n]
      BY <2>2 DEF Loop!Counted
    <3>2. n \in Nat /\ n >= v3.reference
      BY <1>2, <1>6 DEF Encoders
    <3> HIDE DEF n, c
    <3>3. c \in Encoders
      BY <1>6, <3>1, <3>2 DEF Encoders
    <3>4. c.known = o.known /\ c.enable = o.enable /\ c.reference = n /\ c.active = o.active /\ ~c.valid
      BY <1>6, <3>1, <3>2 DEF Encoders
    <3> QED
      BY <1>6, <1>7, <2>2, <3>2, <3>3, <3>4
  <2>3. CASE o.known /\ ~gap
    <3>1. o = v3 /\ v3.known /\ Loop!Fresh /\ v3.reference >= v3.reference
      BY <1>2, <1>6, <1>8, <2>3 DEF Encoders
    <3>2. CASE o.valid
      <4> DEFINE turns == Loop!Shortest(r - v3.encoder)
      <4>1. c = [v3 EXCEPT !.total = v3.total + turns]
        BY <2>3, <3>1, <3>2 DEF Loop!Counted
      <4>2. /\ v3.encoder = v11.seen % Ticks /\ v3.total + v11.datum = v11.seen
            /\ v4 - v11.seen <= v3.age /\ v11.seen - v4 <= v3.age /\ v3.age <= FeedbackTimeout
        BY <1>2, <3>1, <3>2 DEF ShaftIsFollowed, Loop!Fresh
      <4> DEFINE a == v4 + turned
                 b == v11.seen
      <4>3. a \in Int /\ b \in Int /\ a - b < Loop!Half /\ b - a < Loop!Half
        BY <1>2, <4>2, Halves DEF Truths, Encoders
      <4>4. r = a % Ticks /\ v3.encoder = b % Ticks
        BY <1>3, <4>2
      <4> HIDE DEF a, b
      <4>5. turns = a - b
        BY <4>3, <4>4, ShortestIsTheWay
      <4> DEFINE total == v3.total + turns
      <4>6. total \in Int /\ total + v11.datum = v4 + turned
        BY <1>2, <4>2, <4>3, <4>5 DEF a, b, Truths, Encoders
      <4>7. c = [v3 EXCEPT !.total = total]
        BY <4>1
      <4> HIDE DEF turns, c, total
      <4>8. c \in Encoders /\ c.total = total
        BY <1>2, <4>6, <4>7 DEF Encoders
      <4>9. /\ c.known = v3.known /\ c.enable = v3.enable /\ c.reference = v3.reference
            /\ c.active = v3.active
        BY <1>2, <4>7 DEF Encoders
      <4> QED
        BY <3>1, <4>6, <4>8, <4>9
    <3>3. CASE ~o.valid
      <4>1. c = v3
        BY <2>3, <3>1, <3>3 DEF Loop!Counted
      <4> HIDE DEF c
      <4> QED
        BY <1>2, <3>1, <3>3, <4>1
    <3> QED
      BY <3>2, <3>3
  <2> QED
    BY <2>1, <2>2, <2>3
<1> HIDE DEF c
<1>11. /\ m \in Encoders /\ m.encoder = r /\ m.age = 0 /\ m.known
       /\ m.enable = v3.enable /\ m.reference >= v3.reference
       /\ m.active => v3.active /\ Loop!Fresh /\ m.reference = v3.reference
       /\ ~v3.known => m.total = 0
       /\ v3.known /\ m.valid => m.total + v11.datum = v4 + turned
  BY <1>9, <1>10
<1> QED
  BY <1>3, <1>11 DEF m

-----------------------------------------------------------------------------
(* Conditions that name the variables of the motor and of the design.      *)
LEMMA SameDesign ==
  ASSUME v1' = v1
  PROVE  Loop!IsPosition' = Loop!IsPosition /\ Loop!IsAbsolute' = Loop!IsAbsolute
BY DEF Loop!IsPosition, Loop!IsAbsolute

LEMMA ElapsedIs ==
  ASSUME LoopTypes, v5' = Loop!Least(v5 + 1, Loop!Top)
  PROVE  v5' \in 0 .. 3 /\ (v5' < 3 => v5' = v5 + 1)
<1> DEFINE a == v5 + 1
<1>1. a \in Nat /\ a <= 4 /\ Loop!Top = 3 /\ v5' = Loop!Least(a, 3)
  BY DesignFields DEF LoopTypes
<1> HIDE DEF a
<1>2. v5' \in 0 .. 3 /\ (v5' < 3 => v5' = a)
  BY <1>1 DEF Loop!Least
<1> QED
  BY <1>2 DEF a

(* A period in which a frame arrives.                                      *)
LEMMA FrameKeeps ==
  ASSUME LoopInv, NEW turned \in {-1, 1}, Loop!Period(turned, TRUE)
  PROVE  LoopInv'
<1>1. /\ LoopTypes /\ ShaftIsFollowed /\ LoopsAreLimited /\ EffortsAreOfCoordinate /\ HistoryIsOfTheShaft
      /\ v3 \in Encoders /\ v4 \in Int /\ v11 \in Truths /\ turned \in Int /\ v2 \in Nat /\ v5 \in 0 .. 3
  BY DEF LoopInv, LoopTypes
<1>2. /\ v1' = v1 /\ v6' = v6 /\ v7' = v7 /\ v8' = v8 /\ v9' = v9 /\ v10' = v10
      /\ v2' = v2 + 1 /\ v4' = v4 + turned /\ v3' = Loop!Accepted(turned)
      /\ v5' = Loop!Least(v5 + 1, Loop!Top)
      /\ v11' = [v11 EXCEPT !.seen = v4', !.datum = IF v3.known THEN v11.datum ELSE v4']
  BY DEF Loop!Period
<1>3. /\ v3' \in Encoders /\ v3'.encoder = v4' % Ticks /\ v3'.age = 0 /\ v3'.known
      /\ v3'.enable = v3.enable /\ v3'.reference >= v3.reference
      /\ v3'.active => v3.active /\ Loop!Fresh /\ v3'.reference = v3.reference
      /\ ~v3.known => v3'.total = 0
      /\ v3.known /\ v3'.valid => v3'.total + v11.datum = v4'
  BY <1>2, AcceptedIs
<1>4. v5' \in 0 .. 3 /\ (v5' < 3 => v5' = v5 + 1)
  BY <1>1, <1>2, ElapsedIs
<1>5. /\ v11' \in Truths /\ v4' \in Int /\ v11'.seen = v4' /\ v11'.used = v11.used /\ v11'.ramp = v11.ramp
      /\ v11'.datum = IF v3.known THEN v11.datum ELSE v4'
  <2> DEFINE d == IF v3.known THEN v11.datum ELSE v4'
  <2>1. v4' \in Int /\ d \in Int
    BY <1>1, <1>2 DEF Truths
  <2>2. v11' = [v11 EXCEPT !.seen = v4', !.datum = d]
    BY <1>2
  <2> HIDE DEF d
  <2>3. v11' \in Truths /\ v11'.seen = v4' /\ v11'.used = v11.used /\ v11'.ramp = v11.ramp /\ v11'.datum = d
    BY <1>1, <2>1, <2>2 DEF Truths
  <2> QED
    BY <2>1, <2>3 DEF d
<1>6. LoopTypes'
  <2>1. v2' \in Nat
    BY <1>1, <1>2
  <2> QED
    BY <1>1, <1>2, <1>3, <1>4, <1>5, <2>1 DEF LoopTypes
<1>7. ShaftIsFollowed'
  <2>1. v3'.valid => v3'.total + v11'.datum = v11'.seen
    BY <1>3, <1>5
  <2>2. v3'.encoder = v11'.seen % Ticks
    <3>1. v3'.encoder = v4' % Ticks
      BY <1>3
    <3>2. v11'.seen = v4'
      BY <1>5
    <3> QED
      BY <3>1, <3>2, Zenon
  <2>3. v4' - v11'.seen <= v3'.age /\ v11'.seen - v4' <= v3'.age
    <3> DEFINE there == v4'
    <3>1. there \in Int /\ v11'.seen = there
      BY <1>5
    <3>2. v3'.age = 0
      BY <1>3
    <3> HIDE DEF there
    <3>3. there - there = 0
      BY <3>1
    <3>4. there - v11'.seen <= v3'.age /\ v11'.seen - there <= v3'.age
      BY <3>1, <3>2, <3>3
    <3> QED
      BY <3>4 DEF there
  <2> QED
    BY <1>3, <2>1, <2>2, <2>3 DEF ShaftIsFollowed
<1>8. LoopsAreLimited'
  BY <1>1, <1>2, <1>5 DEF LoopsAreLimited, Loop!Valid, Loop!ValidVelocity, Loop!ValidPosition
<1>9. EffortsAreOfCoordinate'
  BY <1>1, <1>2, <1>3 DEF EffortsAreOfCoordinate, OfCoordinate, Loop!Nothing
<1>10. HistoryIsOfTheShaft'
  <2>1. v6.enable <= v3'.enable /\ v6.reference <= v3'.reference
    BY <1>1, <1>3 DEF HistoryIsOfTheShaft, LoopTypes, Controllers, Encoders
  <2>2. ASSUME v6.local_valid, v6.enable = v3'.enable, v3'.active, v5' < 3
        PROVE  /\ v4' - v11.used <= v5' + FeedbackTimeout
               /\ v11.used - v4' <= v5' + FeedbackTimeout
    <3>1. /\ v11.seen - v11.used + v3.age <= v5 + FeedbackTimeout
          /\ v11.used - v11.seen + v3.age <= v5 + FeedbackTimeout
      BY <1>1, <1>3, <1>4, <2>2 DEF HistoryIsOfTheShaft
    <3>2. v4 - v11.seen <= v3.age /\ v11.seen - v4 <= v3.age
      BY <1>1, <1>3, <2>2 DEF ShaftIsFollowed
    <3> QED
      BY <1>1, <1>2, <1>4, <2>2, <3>1, <3>2, Halves DEF Truths, Encoders
  <2>3. v6.live /\ Loop!IsPosition /\ ~Loop!IsAbsolute /\ v6.reference = v3'.reference
        => v6.position.previous + v6.origin + v11'.datum = v11.used
    <3>1. v6.live => v3.known
      BY <1>1 DEF ShaftIsFollowed
    <3>2. v6.reference = v3'.reference => v6.reference = v3.reference
      BY <1>1, <1>3 DEF HistoryIsOfTheShaft, LoopTypes, Controllers, Encoders
    <3> QED
      BY <1>1, <1>5, <3>1, <3>2 DEF HistoryIsOfTheShaft
  <2>4. v11'.seen - v11.used + 0 = v4' - v11.used /\ v11.used - v11'.seen + 0 = v11.used - v4'
    BY <1>1, <1>5 DEF Truths
  <2> QED
    BY <1>1, <1>2, <1>3, <1>5, <2>1, <2>2, <2>3, <2>4, SameDesign DEF HistoryIsOfTheShaft
<1> QED
  BY <1>6, <1>7, <1>8, <1>9, <1>10 DEF LoopInv

(* A period in which none does.                                            *)
LEMMA SilenceKeeps ==
  ASSUME LoopInv, NEW turned \in Int, Loop!Period(turned, FALSE),
         turned \in {-1, 1} \/ v3.age >= FeedbackTimeout
  PROVE  LoopInv'
<1>1. /\ LoopTypes /\ ShaftIsFollowed /\ LoopsAreLimited /\ EffortsAreOfCoordinate /\ HistoryIsOfTheShaft
      /\ v3 \in Encoders /\ v4 \in Int /\ v11 \in Truths /\ v2 \in Nat /\ v5 \in 0 .. 3 /\ v3.age \in Nat
  BY DEF LoopInv, LoopTypes, Encoders
<1>2. /\ v1' = v1 /\ v6' = v6 /\ v7' = v7 /\ v8' = v8 /\ v9' = v9 /\ v10' = v10 /\ v11' = v11
      /\ v2' = v2 + 1 /\ v4' = v4 + turned
      /\ v3' = [v3 EXCEPT !.age = Loop!Least(v3.age + 1, FeedbackTimeout + 1)]
      /\ v5' = Loop!Least(v5 + 1, Loop!Top)
  BY DEF Loop!Period
<1> DEFINE older == Loop!Least(v3.age + 1, FeedbackTimeout + 1)
<1>3. older \in Nat /\ (older <= FeedbackTimeout => older = v3.age + 1 /\ v3.age < FeedbackTimeout)
  BY <1>1, Halves DEF Loop!Least
<1>4. v3' = [v3 EXCEPT !.age = older]
  BY <1>2
<1> HIDE DEF older
<1>5. /\ v3' \in Encoders /\ v3'.age = older /\ v3'.encoder = v3.encoder /\ v3'.known = v3.known
      /\ v3'.active = v3.active /\ v3'.valid = v3.valid /\ v3'.total = v3.total
      /\ v3'.enable = v3.enable /\ v3'.reference = v3.reference
  BY <1>1, <1>3, <1>4 DEF Encoders
<1>6. v5' \in 0 .. 3 /\ (v5' < 3 => v5' = v5 + 1)
  BY <1>1, <1>2, ElapsedIs
<1>7. v4' \in Int
  BY <1>1, <1>2
<1>8. LoopTypes'
  BY <1>1, <1>2, <1>5, <1>6, <1>7 DEF LoopTypes
<1>9. Loop!Fresh' => Loop!Fresh /\ v3'.age = v3.age + 1 /\ turned \in {-1, 1}
  BY <1>1, <1>3, <1>5, Halves DEF Loop!Fresh
<1>10. ShaftIsFollowed'
  <2>1. Loop!Fresh' => v4' - v11.seen <= v3'.age /\ v11.seen - v4' <= v3'.age
    BY <1>1, <1>2, <1>9 DEF ShaftIsFollowed, Truths
  <2> QED
    BY <1>1, <1>2, <1>5, <2>1 DEF ShaftIsFollowed
<1>11. LoopsAreLimited'
  BY <1>1, <1>2 DEF LoopsAreLimited, Loop!Valid, Loop!ValidVelocity, Loop!ValidPosition
<1>12. EffortsAreOfCoordinate'
  BY <1>1, <1>2, <1>5 DEF EffortsAreOfCoordinate, OfCoordinate, Loop!Nothing
<1>13. HistoryIsOfTheShaft'
  <2>1. ASSUME v6.local_valid, v6.enable = v3'.enable, v3'.active, v5' < 3, Loop!Fresh'
        PROVE  /\ v11.seen - v11.used + v3'.age <= v5' + FeedbackTimeout
               /\ v11.used - v11.seen + v3'.age <= v5' + FeedbackTimeout
    <3>1. /\ v11.seen - v11.used + v3.age <= v5 + FeedbackTimeout
          /\ v11.used - v11.seen + v3.age <= v5 + FeedbackTimeout
      BY <1>1, <1>5, <1>6, <1>9, <2>1 DEF HistoryIsOfTheShaft
    <3> QED
      BY <1>1, <1>6, <1>9, <2>1, <3>1, Halves DEF Truths
  <2> QED
    BY <1>1, <1>2, <1>5, <2>1, SameDesign DEF HistoryIsOfTheShaft
<1> QED
  BY <1>8, <1>10, <1>11, <1>12, <1>13 DEF LoopInv

-----------------------------------------------------------------------------
LEMMA FaultKeeps ==
  ASSUME LoopInv, Loop!Fault
  PROVE  LoopInv'
<1>1. /\ LoopTypes /\ ShaftIsFollowed /\ LoopsAreLimited /\ EffortsAreOfCoordinate /\ HistoryIsOfTheShaft
      /\ v3 \in Encoders
  BY DEF LoopInv, LoopTypes
<1> DEFINE n == IF v3.valid THEN v3.reference + 1 ELSE v3.reference
<1>2. /\ v1' = v1 /\ v2' = v2 /\ v4' = v4 /\ v5' = v5 /\ v6' = v6 /\ v7' = v7 /\ v8' = v8 /\ v9' = v9
      /\ v10' = v10 /\ v11' = v11 /\ v3' = [v3 EXCEPT !.active = FALSE, !.valid = FALSE, !.reference = n]
  BY DEF Loop!Fault, Loop!Faulted
<1>3. n \in Nat /\ n >= v3.reference
  BY <1>1 DEF Encoders
<1> HIDE DEF n
<1>4. v3' \in Encoders
  BY <1>1, <1>2, <1>3 DEF Encoders
<1>5. /\ v3'.known = v3.known /\ ~v3'.active /\ ~v3'.valid /\ v3'.enable = v3.enable /\ v3'.reference = n
      /\ v3'.encoder = v3.encoder /\ v3'.total = v3.total /\ v3'.age = v3.age
  BY <1>1, <1>2 DEF Encoders
<1>6. LoopTypes'
  BY <1>1, <1>2, <1>4 DEF LoopTypes
<1>7. ShaftIsFollowed'
  BY <1>1, <1>2, <1>5 DEF ShaftIsFollowed, Loop!Fresh
<1>8. LoopsAreLimited'
  BY <1>1, <1>2 DEF LoopsAreLimited, Loop!Valid, Loop!ValidVelocity, Loop!ValidPosition
<1>9. EffortsAreOfCoordinate'
  BY <1>1, <1>2, <1>5 DEF EffortsAreOfCoordinate, OfCoordinate, Loop!Nothing
<1>10. HistoryIsOfTheShaft'
  <2>1. v6.reference <= n /\ (v6.reference = n => v6.reference = v3.reference)
    BY <1>1, <1>3 DEF HistoryIsOfTheShaft, LoopTypes, Controllers, Encoders
  <2> QED
    BY <1>1, <1>2, <1>5, <2>1, SameDesign DEF HistoryIsOfTheShaft
<1> QED
  BY <1>6, <1>7, <1>8, <1>9, <1>10 DEF LoopInv

LEMMA ActivateKeeps ==
  ASSUME LoopInv, Loop!Activate
  PROVE  LoopInv'
<1>1. /\ LoopTypes /\ ShaftIsFollowed /\ LoopsAreLimited /\ EffortsAreOfCoordinate /\ HistoryIsOfTheShaft
      /\ v3 \in Encoders
  BY DEF LoopInv, LoopTypes
<1>2. /\ v1' = v1 /\ v2' = v2 /\ v4' = v4 /\ v5' = v5 /\ v6' = v6 /\ v7' = v7 /\ v8' = v8 /\ v9' = v9
      /\ v10' = v10 /\ v11' = v11 /\ v3' = [v3 EXCEPT !.active = TRUE, !.enable = v3.enable + 1]
      /\ v3.known
  BY DEF Loop!Activate, Loop!Fresh
<1>3. v3' \in Encoders
  <2> DEFINE n == v3.enable + 1
  <2>1. n \in Nat /\ v3' = [v3 EXCEPT !.active = TRUE, !.enable = n]
    BY <1>1, <1>2 DEF Encoders
  <2> HIDE DEF n
  <2> QED
    BY <1>1, <2>1 DEF Encoders
<1>4. /\ v3'.known = v3.known /\ v3'.valid = v3.valid /\ v3'.reference = v3.reference
      /\ v3'.encoder = v3.encoder /\ v3'.total = v3.total /\ v3'.age = v3.age
      /\ v3'.enable = v3.enable + 1 /\ v3.enable \in Nat
  BY <1>1, <1>2 DEF Encoders
<1>5. LoopTypes'
  BY <1>1, <1>2, <1>3 DEF LoopTypes
<1>6. ShaftIsFollowed'
  BY <1>1, <1>2, <1>4 DEF ShaftIsFollowed, Loop!Fresh
<1>7. LoopsAreLimited'
  BY <1>1, <1>2 DEF LoopsAreLimited, Loop!Valid, Loop!ValidVelocity, Loop!ValidPosition
<1>8. EffortsAreOfCoordinate'
  <2>1. ASSUME NEW e \in Asked, OfCoordinate(e)
        PROVE  e.enable <= v3'.enable /\ e.enable # v3'.enable
    BY <1>4, <2>1 DEF OfCoordinate, Asked
  <2>2. v9 \in Asked /\ v10 \in Asked
    BY <1>1 DEF LoopTypes
  <2> QED
    BY <1>1, <1>2, <2>1, <2>2 DEF EffortsAreOfCoordinate, OfCoordinate, Loop!Nothing
<1>9. HistoryIsOfTheShaft'
  <2>1. v6.enable <= v3'.enable /\ v6.enable # v3'.enable
    BY <1>1, <1>4 DEF HistoryIsOfTheShaft, LoopTypes, Controllers
  <2> QED
    BY <1>1, <1>2, <1>4, <2>1, SameDesign DEF HistoryIsOfTheShaft
<1> QED
  BY <1>5, <1>6, <1>7, <1>8, <1>9 DEF LoopInv

LEMMA ReseedKeeps ==
  ASSUME LoopInv, NEW ticks \in Int, Loop!Reseed(ticks)
  PROVE  LoopInv'
<1>1. /\ LoopTypes /\ ShaftIsFollowed /\ LoopsAreLimited /\ EffortsAreOfCoordinate /\ HistoryIsOfTheShaft
      /\ v3 \in Encoders /\ v11 \in Truths
  BY DEF LoopInv, LoopTypes
<1> DEFINE d == v11.seen - ticks
<1>2. /\ v1' = v1 /\ v2' = v2 /\ v4' = v4 /\ v5' = v5 /\ v6' = v6 /\ v7' = v7 /\ v8' = v8 /\ v9' = v9
      /\ v10' = Loop!Nothing /\ v11' = [v11 EXCEPT !.datum = d]
      /\ v3' = [v3 EXCEPT !.valid = TRUE, !.total = ticks, !.reference = v3.reference + 1]
      /\ v8 = "Update" /\ v3.known
  BY DEF Loop!Reseed, Loop!Fresh
<1>3. d \in Int /\ ticks + d = v11.seen
  BY <1>1 DEF Truths
<1> HIDE DEF d
<1>4. v3' \in Encoders /\ v11' \in Truths
  <2> DEFINE n == v3.reference + 1
  <2>1. n \in Nat /\ v3' = [v3 EXCEPT !.valid = TRUE, !.total = ticks, !.reference = n]
    BY <1>1, <1>2 DEF Encoders
  <2> HIDE DEF n
  <2>2. v3' \in Encoders
    BY <1>1, <2>1 DEF Encoders
  <2> QED
    BY <1>1, <1>2, <1>3, <2>2 DEF Truths
<1>5. /\ v3'.known /\ v3'.active = v3.active /\ v3'.enable = v3.enable
      /\ v3'.encoder = v3.encoder /\ v3'.total = ticks /\ v3'.age = v3.age
      /\ v3'.reference = v3.reference + 1 /\ v3.reference \in Nat /\ v3.enable \in Nat
  BY <1>1, <1>2 DEF Encoders
<1>6. /\ v11'.datum = d /\ v11'.seen = v11.seen /\ v11'.used = v11.used /\ v11'.ramp = v11.ramp
  BY <1>1, <1>2 DEF Truths
<1>7. v10' \in Asked /\ ~v10'.valid /\ v10'.enable = 0 /\ v9 = v10'
  BY <1>1, <1>2 DEF EffortsAreOfCoordinate, Loop!Nothing, Asked
<1>8. LoopTypes'
  BY <1>1, <1>2, <1>4, <1>7 DEF LoopTypes
<1>9. ShaftIsFollowed'
  BY <1>1, <1>2, <1>3, <1>5, <1>6 DEF ShaftIsFollowed, Loop!Fresh
<1>10. LoopsAreLimited'
  BY <1>1, <1>2, <1>6 DEF LoopsAreLimited, Loop!Valid, Loop!ValidVelocity, Loop!ValidPosition
<1>11. EffortsAreOfCoordinate'
  <2>1. v9' = Loop!Nothing' /\ v10' = v9'
    BY <1>1, <1>2, <1>7 DEF EffortsAreOfCoordinate, Loop!Nothing
  <2>2. ~v9'.valid /\ v9'.enable = 0 /\ 0 <= v3'.enable
    BY <1>5, <1>7, <2>1
  <2> QED
    BY <2>1, <2>2 DEF EffortsAreOfCoordinate, OfCoordinate
<1>12. HistoryIsOfTheShaft'
  <2>1. v6.reference <= v3'.reference /\ v6.reference # v3'.reference
    BY <1>1, <1>5 DEF HistoryIsOfTheShaft, LoopTypes, Controllers
  <2>2. Loop!Fresh' = Loop!Fresh
    BY <1>2, <1>5 DEF Loop!Fresh
  <2> QED
    BY <1>1, <1>2, <1>5, <1>6, <2>1, <2>2, SameDesign DEF HistoryIsOfTheShaft
<1> QED
  BY <1>8, <1>9, <1>10, <1>11, <1>12 DEF LoopInv

LEMMA ConfigureKeeps ==
  ASSUME LoopInv, Loop!Configure
  PROVE  LoopInv'
<1>1. /\ LoopTypes /\ ShaftIsFollowed /\ LoopsAreLimited /\ EffortsAreOfCoordinate /\ HistoryIsOfTheShaft
      /\ v6 \in Controllers
  BY DEF LoopInv, LoopTypes
<1>2. /\ v1' = v1 /\ v2' = v2 /\ v3' = v3 /\ v4' = v4 /\ v5' = v5 /\ v7' = v7 /\ v8' = v8 /\ v9' = v9
      /\ v10' = v10 /\ v11' = v11 /\ v6' = [v6 EXCEPT !.configured = TRUE] /\ Loop!Valid(v1)
  BY DEF Loop!Configure
<1>3. v6' \in Controllers
  BY <1>1, <1>2 DEF Controllers
<1>4. /\ v6'.live = v6.live /\ v6'.enable = v6.enable /\ v6'.reference = v6.reference
      /\ v6'.origin = v6.origin /\ v6'.local_valid = v6.local_valid /\ v6'.local = v6.local
      /\ v6'.angle = v6.angle /\ v6'.position = v6.position /\ v6'.velocity = v6.velocity
  BY <1>1, <1>2 DEF Controllers
<1>5. LoopTypes'
  BY <1>1, <1>2, <1>3 DEF LoopTypes
<1>6. ShaftIsFollowed'
  BY <1>1, <1>2, <1>4 DEF ShaftIsFollowed, Loop!Fresh
<1>7. LoopsAreLimited'
  BY <1>1, <1>2, <1>4 DEF LoopsAreLimited, Loop!Valid, Loop!ValidVelocity, Loop!ValidPosition
<1>8. EffortsAreOfCoordinate'
  BY <1>1, <1>2 DEF EffortsAreOfCoordinate, OfCoordinate, Loop!Nothing
<1>9. HistoryIsOfTheShaft'
  <2>1. Loop!Fresh' = Loop!Fresh
    BY <1>2 DEF Loop!Fresh
  <2> QED
    BY <1>1, <1>2, <1>4, <2>1, SameDesign DEF HistoryIsOfTheShaft
<1> QED
  BY <1>5, <1>6, <1>7, <1>8, <1>9 DEF LoopInv

LEMMA StageKeeps ==
  ASSUME LoopInv, Loop!Stage
  PROVE  LoopInv'
<1>1. /\ LoopTypes /\ ShaftIsFollowed /\ LoopsAreLimited /\ EffortsAreOfCoordinate /\ HistoryIsOfTheShaft
  BY DEF LoopInv
<1>2. /\ v1' = v1 /\ v2' = v2 /\ v3' = v3 /\ v4' = v4 /\ v5' = v5 /\ v6' = v6 /\ v11' = v11
      /\ v8' = "Update" /\ v10' = v9 /\ v9' = Loop!Nothing /\ v7' = Loop!NoOutput
  BY DEF Loop!Stage
<1>3. v9' \in Asked /\ ~v9'.valid /\ v9'.enable = 0 /\ v7' \in Steppings
  BY <1>2 DEF Loop!Nothing, Loop!NoOutput, Asked, Steppings
<1>4. LoopTypes'
  BY <1>1, <1>2, <1>3 DEF LoopTypes
<1>5. ShaftIsFollowed'
  BY <1>1, <1>2 DEF ShaftIsFollowed, Loop!Fresh
<1>6. LoopsAreLimited'
  BY <1>1, <1>2 DEF LoopsAreLimited, Loop!Valid, Loop!ValidVelocity, Loop!ValidPosition
<1>7. EffortsAreOfCoordinate'
  <2>1. 0 <= v3.enable
    BY <1>1 DEF LoopTypes, Encoders
  <2>2. v9' = Loop!Nothing'
    BY <1>2 DEF Loop!Nothing
  <2> QED
    BY <1>1, <1>2, <1>3, <2>1, <2>2 DEF EffortsAreOfCoordinate, OfCoordinate
<1>8. HistoryIsOfTheShaft'
  <2>1. Loop!Fresh' = Loop!Fresh
    BY <1>2 DEF Loop!Fresh
  <2> QED
    BY <1>1, <1>2, <2>1, SameDesign DEF HistoryIsOfTheShaft
<1> QED
  BY <1>4, <1>5, <1>6, <1>7, <1>8 DEF LoopInv

(* fail(), wait() and reset() leave no history.                            *)
LEMMA ForgottenIs ==
  ASSUME LoopTypes
  PROVE  LET s == Loop!Forgotten(v6)
         IN  /\ s \in Controllers /\ s.configured = v6.configured /\ ~s.live /\ ~s.local_valid
             /\ s.enable = 0 /\ s.reference = 0 /\ s.position.integral = 0
             /\ s.velocity.reference = 0 /\ s.velocity.pid.integral = 0
<1> DEFINE s == Loop!Forgotten(v6)
           p == Loop!PidReset(0)
           v == Loop!VelocityReset(0)
<1>1. s = [v6 EXCEPT !.live = FALSE, !.enable = 0, !.reference = 0, !.origin = 0,
                     !.local_valid = FALSE, !.local = 0, !.angle = 0, !.position = p, !.velocity = v]
  BY DEF Loop!Forgotten
<1>2. p = [integral |-> 0, previous |-> 0, rate |-> 0]
  BY DEF Loop!PidReset
<1>3. v = [filtered |-> 0, reference |-> 0, pid |-> p]
  BY DEF Loop!VelocityReset
<1> HIDE DEF p, v, s
<1>4. p \in Pids /\ p.integral = 0
  BY <1>2 DEF Pids
<1>5. v \in Velocities /\ v.reference = 0 /\ v.pid = p
  BY <1>3, <1>4 DEF Velocities
<1>6. v6 \in Controllers
  BY DEF LoopTypes
<1>7. s \in Controllers
  <2>1. s = [configured |-> v6.configured, live |-> FALSE, enable |-> 0, reference |-> 0,
             started |-> v6.started, initial |-> v6.initial, origin |-> 0,
             local_valid |-> FALSE, local |-> 0, angle |-> 0, position |-> p, velocity |-> v]
    BY <1>1, <1>6 DEF Controllers
  <2> QED
    BY <1>4, <1>5, <1>6, <2>1 DEF Controllers
<1>8. /\ s.configured = v6.configured /\ ~s.live /\ ~s.local_valid /\ s.enable = 0 /\ s.reference = 0
      /\ s.position = p /\ s.velocity = v
  BY <1>1, <1>6 DEF Controllers
<1> QED
  BY <1>4, <1>5, <1>7, <1>8 DEF s

LEMMA ForgetKeeps ==
  ASSUME LoopInv, v8 = "Update", v6' = Loop!Forgotten(v6), v7' \in Steppings, v10' \in {v10, Loop!Nothing},
         v1' = v1, v2' = v2, v3' = v3, v4' = v4, v5' \in 0 .. 3, v8' = v8, v9' = v9, v11' = v11
  PROVE  LoopInv'
<1>1. /\ LoopTypes /\ ShaftIsFollowed /\ LoopsAreLimited /\ EffortsAreOfCoordinate /\ HistoryIsOfTheShaft
  BY DEF LoopInv
<1>2. /\ v6' \in Controllers /\ v6'.configured = v6.configured /\ ~v6'.live /\ ~v6'.local_valid
      /\ v6'.enable = 0 /\ v6'.reference = 0 /\ v6'.position.integral = 0
      /\ v6'.velocity.reference = 0 /\ v6'.velocity.pid.integral = 0
  BY <1>1, ForgottenIs
<1>3. Loop!Nothing \in Asked /\ ~Loop!Nothing.valid /\ Loop!Nothing.enable = 0
  BY DEF Loop!Nothing, Asked
<1>4. LoopTypes'
  BY <1>1, <1>2, <1>3 DEF LoopTypes
<1>5. ShaftIsFollowed'
  BY <1>1, <1>2 DEF ShaftIsFollowed, Loop!Fresh
<1>6. LoopsAreLimited'
  BY <1>1, <1>2, DesignFields DEF LoopsAreLimited, Loop!Valid, Loop!ValidVelocity, Loop!ValidPosition
<1>7. EffortsAreOfCoordinate'
  <2>1. 0 <= v3.enable
    BY <1>1 DEF LoopTypes, Encoders
  <2>2. v9' = Loop!Nothing'
    BY <1>1 DEF EffortsAreOfCoordinate, Loop!Nothing
  <2> QED
    BY <1>1, <1>3, <2>1, <2>2 DEF EffortsAreOfCoordinate, OfCoordinate
<1>8. HistoryIsOfTheShaft'
  <2>1. 0 <= v3.enable /\ 0 <= v3.reference
    BY <1>1 DEF LoopTypes, Encoders
  <2> QED
    BY <1>2, <2>1 DEF HistoryIsOfTheShaft
<1> QED
  BY <1>4, <1>5, <1>6, <1>7, <1>8 DEF LoopInv

-----------------------------------------------------------------------------
(* update() up to its step: what an update that does not wait begins with. *)
Ready == LoopInv /\ Loop!Fresh /\ v3.active /\ v5 \in 1 .. 2 /\ (Loop!IsPosition /\ ~Loop!IsAbsolute => v3.valid)

LEMMA AngleIsSeen ==
  ASSUME Ready
  PROVE  Loop!Angle = AngleOf(v11.seen) /\ AngleOf(v11.seen) \in Int /\ AngleOf(v11.used) \in Int
<1>1. v3.encoder = v11.seen % Ticks
  BY DEF Ready, LoopInv, ShaftIsFollowed, Loop!Fresh
<1>2. v11.seen \in Int /\ v11.used \in Int
  BY DEF Ready, LoopInv, LoopTypes, Truths
<1>3. Loop!Angle = AngleOf(v11.seen)
  BY <1>1, Zenon DEF Loop!Angle, AngleOf
<1> QED
  BY <1>2, <1>3, AngleIs

(* Since a loop used a frame of this enabling the shaft has not turned     *)
(* half a turn, so that an angle says where it is.                         *)
LEMMA AngleTurnsWithTheShaft ==
  ASSUME Ready, v6.local_valid, v6.enable = v3.enable
  PROVE  Loop!Wrap(Loop!Angle - v6.angle) = v11.seen - v11.used
<1>1. /\ v11.seen - v11.used + v3.age <= v5 + FeedbackTimeout
      /\ v11.used - v11.seen + v3.age <= v5 + FeedbackTimeout
      /\ v6.angle = AngleOf(v11.used)
  BY DEF Ready, LoopInv, HistoryIsOfTheShaft
<1> DEFINE a == v11.seen
           b == v11.used
<1>2. a \in Int /\ b \in Int /\ v3.age \in Nat /\ v5 \in 1 .. 2
  BY DEF Ready, LoopInv, LoopTypes, Truths, Encoders
<1>3. a - b < Loop!Half /\ b - a < Loop!Half
  BY <1>1, <1>2, Halves
<1>4. Loop!Angle = AngleOf(a)
  BY AngleIsSeen
<1>5. v6.angle = AngleOf(b)
  BY <1>1
<1> HIDE DEF a, b
<1>6. Loop!Wrap(AngleOf(a) - AngleOf(b)) = a - b
  BY <1>2, <1>3, WayOfTheAngle
<1> QED
  BY <1>4, <1>5, <1>6 DEF a, b

(* resolveMeasurement() *)
LEMMA ResolvedIs ==
  ASSUME Ready
  PROVE  LET s == Loop!Resolved
         IN  /\ s \in Controllers /\ s.configured = v6.configured /\ s.position = v6.position
             /\ s.velocity = v6.velocity /\ s.enable = v6.enable /\ s.reference = v6.reference
             /\ s.origin = v6.origin
             /\ s.live => v6.live
             /\ ~Loop!IsAbsolute => ~s.local_valid
             /\ Loop!IsAbsolute => s.local_valid /\ s.angle = AngleOf(v11.seen) /\ Turns(s.local, s.angle)
             /\ Loop!Position(s) \in Int
             /\ s.live /\ Loop!IsPosition /\ Loop!OfThisEpoch(s)
                => Loop!Position(s) - s.origin - s.position.previous = v11.seen - v11.used
<1> DEFINE s == Loop!Resolved
           angle == Loop!Angle
<1>1. /\ LoopTypes /\ ShaftIsFollowed /\ HistoryIsOfTheShaft /\ v6 \in Controllers /\ v3 \in Encoders
      /\ v11 \in Truths
  BY DEF Ready, LoopInv, LoopTypes
<1>2. angle = AngleOf(v11.seen) /\ angle \in Int
  BY AngleIsSeen
<1>3. /\ v6.local \in Int /\ v6.angle \in Int /\ v6.origin \in Int /\ v6.position \in Pids
      /\ v6.position.previous \in Int /\ v3.total \in Int
  BY <1>1 DEF Controllers, Pids, Encoders
<1>4. CASE ~Loop!IsAbsolute
  <2>1. s = v6
    BY <1>4 DEF Loop!Resolved
  <2>2. Loop!Position(s) = v3.total
    BY <1>4 DEF Loop!Position
  <2>3. ~v6.local_valid
    BY <1>1, <1>4 DEF HistoryIsOfTheShaft
  <2>4. ASSUME v6.live, Loop!IsPosition, Loop!OfThisEpoch(v6)
        PROVE  v3.total - v6.origin - v6.position.previous = v11.seen - v11.used
    <3>1. v6.reference = v3.reference
      BY <2>4 DEF Loop!OfThisEpoch
    <3>2. v6.position.previous + v6.origin + v11.datum = v11.used
      BY <1>1, <1>4, <2>4, <3>1 DEF HistoryIsOfTheShaft
    <3>3. v3.total + v11.datum = v11.seen
      BY <1>1, <1>4, <2>4 DEF Ready, ShaftIsFollowed
    <3> QED
      BY <1>1, <1>3, <3>2, <3>3 DEF Truths
  <2> HIDE DEF s
  <2> QED
    BY <1>1, <1>3, <1>4, <2>1, <2>2, <2>3, <2>4 DEF s
<1>5. CASE Loop!IsAbsolute /\ (~v6.local_valid \/ ~Loop!OfThisEpoch(v6))
  <2>1. s = [v6 EXCEPT !.local = angle, !.angle = angle, !.local_valid = TRUE, !.live = FALSE]
    BY <1>5 DEF Loop!Resolved
  <2> HIDE DEF s, angle
  <2>2. s \in Controllers
    BY <1>1, <1>2, <2>1 DEF Controllers
  <2>3. /\ s.configured = v6.configured /\ s.position = v6.position
        /\ s.velocity = v6.velocity /\ s.enable = v6.enable /\ s.reference = v6.reference
        /\ s.origin = v6.origin /\ ~s.live /\ s.local_valid /\ s.angle = angle /\ s.local = angle
    BY <1>1, <2>1 DEF Controllers
  <2>4. Turns(angle, angle)
    <3>1. angle = Ticks * 0 + angle
      BY <1>2, Halves
    <3> QED
      BY <3>1 DEF Turns
  <2>5. Loop!Position(s) = angle
    BY <1>5, <2>3 DEF Loop!Position
  <2> QED
    BY <1>2, <1>5, <2>2, <2>3, <2>4, <2>5 DEF s
<1>6. CASE Loop!IsAbsolute /\ v6.local_valid /\ Loop!OfThisEpoch(v6)
  <2> DEFINE way == Loop!Wrap(angle - v6.angle)
             local == v6.local + way
  <2>1. s = [v6 EXCEPT !.local = local, !.angle = angle]
    BY <1>6 DEF Loop!Resolved
  <2>2. way = v11.seen - v11.used
    BY <1>6, AngleTurnsWithTheShaft DEF Loop!OfThisEpoch
  <2>3. way \in Int
    BY <1>1, <2>2 DEF Truths
  <2>4. Turns(local, angle)
    <3> DEFINE d == angle - v6.angle
    <3>1. d \in Int /\ way = Loop!Wrap(d)
      BY <1>2, <1>3
    <3> HIDE DEF d
    <3>2. \E k \in Int : d = Ticks * k + way
      <4> HIDE DEF way
      <4> QED
        BY <3>1, WrapIs
    <3>3. PICK k \in Int : d = Ticks * k + way
      BY <3>2
    <3>4. \E l \in Int : v6.local = Ticks * l + v6.angle
      BY <1>1, <1>6 DEF HistoryIsOfTheShaft, Turns
    <3>5. PICK l \in Int : v6.local = Ticks * l + v6.angle
      BY <3>4
    <3> HIDE DEF way, angle
    <3>6. v6.local + way = Ticks * (l - k) + angle /\ l - k \in Int
      BY <1>2, <1>3, <2>3, <3>3, <3>5, Halves DEF d
    <3> QED
      BY <3>6 DEF Turns
  <2> HIDE DEF s, angle, way
  <2>5. local \in Int
    BY <1>3, <2>3
  <2>6. v6.live => v6.position.previous + v6.origin = v6.local
    BY <1>1, <1>6 DEF HistoryIsOfTheShaft
  <2>7. v6.live => local - v6.origin - v6.position.previous = v11.seen - v11.used
    BY <1>1, <1>3, <2>2, <2>3, <2>6 DEF Truths
  <2> HIDE DEF local
  <2>8. s \in Controllers
    BY <1>1, <1>2, <2>1, <2>5 DEF Controllers
  <2>9. /\ s.configured = v6.configured /\ s.position = v6.position
        /\ s.velocity = v6.velocity /\ s.enable = v6.enable /\ s.reference = v6.reference
        /\ s.origin = v6.origin /\ s.live = v6.live /\ s.local_valid /\ s.angle = angle /\ s.local = local
    BY <1>1, <1>6, <2>1 DEF Controllers
  <2>10. Loop!Position(s) = local
    BY <1>6, <2>9 DEF Loop!Position
  <2> QED
    BY <1>2, <1>6, <2>4, <2>5, <2>7, <2>8, <2>9, <2>10 DEF s
<1> QED
  BY <1>4, <1>5, <1>6

(* A new origin leaves the way since the step before as it was.            *)
LEMMA RecentredIs ==
  ASSUME LoopTypes, NEW s \in Controllers, Loop!Position(s) \in Int
  PROVE  LET r == Loop!Recentred(s)
         IN  /\ r \in Controllers /\ r.configured = s.configured /\ r.live = s.live /\ r.enable = s.enable
             /\ r.reference = s.reference /\ r.local_valid = s.local_valid /\ r.local = s.local
             /\ r.angle = s.angle /\ r.velocity = s.velocity /\ r.position \in Pids
             /\ r.position.integral = s.position.integral
             /\ Loop!Position(r) = Loop!Position(s)
             /\ Loop!Position(s) - r.origin - r.position.previous
                = Loop!Position(s) - s.origin - s.position.previous
<1> DEFINE here == Loop!Position(s)
           shift == here - s.origin
           r == Loop!Recentred(s)
<1>1. /\ s.position \in Pids /\ s.origin \in Int /\ s.position.previous \in Int /\ here \in Int
  BY DEF Controllers, Pids
<1>2. shift \in Int
  BY <1>1
<1>3. CASE Loop!Abs(shift) > Recentre
  <2> DEFINE before == s.position.previous - shift
             p == [s.position EXCEPT !.previous = before]
  <2>1. r = [s EXCEPT !.position = p, !.origin = here]
    <3>1. r = [s EXCEPT !.position.previous = before, !.origin = here]
      BY <1>3 DEF Loop!Recentred
    <3> QED
      BY <3>1
  <2>2. before \in Int /\ here - here - before = here - s.origin - s.position.previous
    BY <1>1, <1>2
  <2> HIDE DEF before
  <2>3. p \in Pids /\ p.integral = s.position.integral /\ p.previous = before
    BY <1>1, <2>2 DEF Pids
  <2> HIDE DEF p, r, here
  <2>4. r \in Controllers
    BY <1>1, <2>1, <2>3 DEF Controllers
  <2>5. /\ r.configured = s.configured /\ r.live = s.live /\ r.enable = s.enable
        /\ r.reference = s.reference /\ r.local_valid = s.local_valid /\ r.local = s.local
        /\ r.angle = s.angle /\ r.velocity = s.velocity /\ r.position = p /\ r.origin = here
    BY <2>1 DEF Controllers
  <2>6. Loop!Position(r) = here
    BY <2>5 DEF Loop!Position, here
  <2> QED
    BY <2>2, <2>3, <2>4, <2>5, <2>6 DEF r, here
<1>4. CASE ~(Loop!Abs(shift) > Recentre)
  <2>1. r = s
    BY <1>4 DEF Loop!Recentred
  <2> HIDE DEF r
  <2> QED
    BY <1>1, <2>1 DEF r
<1> QED
  BY <1>3, <1>4

(* What an update that computed an effort leaves.                          *)
LEMMA ComputedKeeps ==
  ASSUME Ready, v1' = v1, v2' = v2, v3' = v3, v4' = v4, v5' = 0, v7' \in Steppings, v8' = "Stage",
         v9' \in Asked, v9'.enable = v3.enable, v9'.reference = v3.reference, v10' = v10,
         v11' \in Truths, v11'.datum = v11.datum, v11'.seen = v11.seen, v11'.used = v11.seen,
         v6' \in Controllers, v6'.configured => v6.configured, v6'.enable = v3.enable,
         v6'.reference <= v3.reference,
         v6'.position.integral \in -v1.pos.integral .. v1.pos.integral,
         v6'.velocity.pid.integral \in -v1.vel.integral .. v1.vel.integral,
         v6'.velocity.reference \in -v1.requested .. v1.requested,
         v6'.velocity.reference \in -v11'.ramp .. v11'.ramp,
         v6'.local_valid => Loop!IsAbsolute /\ v6'.angle = AngleOf(v11.seen) /\ Turns(v6'.local, v6'.angle),
         Loop!IsAbsolute => v6'.local_valid /\ v6'.position.previous + v6'.origin = v6'.local,
         Loop!IsPosition /\ ~Loop!IsAbsolute => v6'.position.previous + v6'.origin = v3.total
  PROVE  LoopInv'
<1>1. /\ LoopTypes /\ ShaftIsFollowed /\ LoopsAreLimited /\ EffortsAreOfCoordinate /\ HistoryIsOfTheShaft
      /\ v3 \in Encoders /\ v11 \in Truths
  BY DEF Ready, LoopInv, LoopTypes
<1>2. v3.known /\ Loop!Fresh
  BY DEF Ready, Loop!Fresh
<1>3. LoopTypes'
  BY <1>1 DEF LoopTypes
<1>4. ShaftIsFollowed'
  BY <1>1, <1>2 DEF ShaftIsFollowed, Loop!Fresh
<1>5. LoopsAreLimited'
  BY <1>1 DEF LoopsAreLimited, Loop!Valid, Loop!ValidVelocity, Loop!ValidPosition
<1>6. EffortsAreOfCoordinate'
  <2>1. OfCoordinate(v9)'
    BY <1>1 DEF OfCoordinate, Encoders
  <2>2. OfCoordinate(v10)'
    BY <1>1 DEF EffortsAreOfCoordinate, OfCoordinate
  <2> QED
    BY <2>1, <2>2 DEF EffortsAreOfCoordinate
<1>7. HistoryIsOfTheShaft'
  <2>1. /\ v11'.seen - v11'.used + v3'.age <= v5' + FeedbackTimeout
        /\ v11'.used - v11'.seen + v3'.age <= v5' + FeedbackTimeout
    BY <1>1, <1>2, Halves DEF Loop!Fresh, Encoders, Truths
  <2>2. ASSUME Loop!IsPosition, ~Loop!IsAbsolute
        PROVE  v6'.position.previous + v6'.origin + v11'.datum = v11'.used
    <3>1. v3.total + v11.datum = v11.seen
      BY <1>1, <2>2 DEF Ready, ShaftIsFollowed
    <3> QED
      BY <2>2, <3>1
  <2>3. v6'.enable <= v3'.enable
    BY <1>1 DEF Encoders
  <2> QED
    BY <2>1, <2>2, <2>3, SameDesign DEF HistoryIsOfTheShaft
<1> QED
  BY <1>3, <1>4, <1>5, <1>6, <1>7 DEF LoopInv

-----------------------------------------------------------------------------
(* The first update of a history.                                          *)
LEMMA ResetFromIs ==
  ASSUME LoopTypes, NEW s \in Controllers, Loop!Position(s) \in Int
  PROVE  LET t == Loop!ResetFrom(s)
         IN  /\ t \in Controllers /\ t.configured = s.configured /\ t.enable = v3.enable
             /\ t.reference = v3.reference /\ t.local_valid = s.local_valid /\ t.local = s.local
             /\ t.angle = s.angle /\ t.position.integral = 0 /\ t.position.previous = 0
             /\ t.velocity.reference = 0 /\ t.velocity.pid.integral = 0
             /\ Loop!IsPosition => t.origin = Loop!Position(s)
<1> DEFINE here == Loop!Position(s)
           first == v1.kind = "StartupRelative" /\ ~s.started
           p == Loop!PidReset(0)
           v == Loop!VelocityReset(v3.speed)
           origin == IF Loop!IsPosition THEN here ELSE 0
           initial == IF first THEN here ELSE s.initial
           started == s.started \/ first
           t == Loop!ResetFrom(s)
<1>1. t = [s EXCEPT !.live = TRUE, !.enable = v3.enable, !.reference = v3.reference,
                    !.started = started, !.initial = initial, !.origin = origin,
                    !.position = p, !.velocity = v]
  BY DEF Loop!ResetFrom
<1>2. p \in Pids /\ p.integral = 0 /\ p.previous = 0
  BY DEF Loop!PidReset, Pids
<1>3. v3 \in Encoders /\ v3.speed \in Int /\ v3.enable \in Nat /\ v3.reference \in Nat
  BY DEF LoopTypes, Encoders
<1>4. v \in Velocities /\ v.reference = 0 /\ v.pid.integral = 0
  <2> DEFINE q == Loop!PidReset(v3.speed)
             f == IF v1.tau = 0 THEN 0 ELSE v3.speed
  <2>1. v = [filtered |-> f, reference |-> 0, pid |-> q]
    BY DEF Loop!VelocityReset
  <2>2. q \in Pids /\ q.integral = 0
    BY <1>3 DEF Loop!PidReset, Pids
  <2>3. f \in Int
    BY <1>3
  <2> HIDE DEF v, q, f
  <2> QED
    BY <2>1, <2>2, <2>3 DEF Velocities
<1>5. origin \in Int /\ initial \in Int /\ started \in BOOLEAN /\ (Loop!IsPosition => origin = here)
  BY DEF Controllers
<1> HIDE DEF p, v, origin, initial, started, t, here
<1>6. t = [configured |-> s.configured, live |-> TRUE, enable |-> v3.enable, reference |-> v3.reference,
           started |-> started, initial |-> initial, origin |-> origin,
           local_valid |-> s.local_valid, local |-> s.local, angle |-> s.angle,
           position |-> p, velocity |-> v]
  BY <1>1 DEF Controllers
<1>7. t \in Controllers
  BY <1>2, <1>3, <1>4, <1>5, <1>6 DEF Controllers
<1>8. /\ t.configured = s.configured /\ t.enable = v3.enable
      /\ t.reference = v3.reference /\ t.local_valid = s.local_valid /\ t.local = s.local
      /\ t.angle = s.angle /\ t.position = p /\ t.velocity = v /\ t.origin = origin
  BY <1>6
<1> QED
  BY <1>2, <1>4, <1>5, <1>7, <1>8 DEF t, here

LEMMA NoOutputIs == Loop!NoOutput \in Steppings /\ Loop!NoOutput.stepped = FALSE
BY DEF Loop!NoOutput, Steppings

LEMMA FirstKeeps ==
  ASSUME Ready, v6' = Loop!ResetFrom(Loop!Resolved), v7' = Loop!NoOutput, v8' = "Stage",
         v9' = [valid |-> TRUE, enable |-> v3.enable, reference |-> v3.reference, effort |-> 0],
         v11' = [v11 EXCEPT !.used = v11.seen, !.ramp = 0],
         v1' = v1, v2' = v2, v3' = v3, v4' = v4, v5' = 0, v10' = v10
  PROVE  LoopInv'
<1> DEFINE s == Loop!Resolved
<1>1. LoopTypes /\ v3 \in Encoders /\ v11 \in Truths
  BY DEF Ready, LoopInv, LoopTypes
<1>2. /\ s \in Controllers /\ s.configured = v6.configured
      /\ ~Loop!IsAbsolute => ~s.local_valid
      /\ Loop!IsAbsolute => s.local_valid /\ s.angle = AngleOf(v11.seen) /\ Turns(s.local, s.angle)
      /\ Loop!Position(s) \in Int
  BY ResolvedIs
<1>3. v6' = Loop!ResetFrom(s)
  OBVIOUS
<1> HIDE DEF s
<1>4. /\ v6' \in Controllers /\ v6'.configured = s.configured /\ v6'.enable = v3.enable
      /\ v6'.reference = v3.reference /\ v6'.local_valid = s.local_valid /\ v6'.local = s.local
      /\ v6'.angle = s.angle /\ v6'.position.integral = 0 /\ v6'.position.previous = 0
      /\ v6'.velocity.reference = 0 /\ v6'.velocity.pid.integral = 0
      /\ Loop!IsPosition => v6'.origin = Loop!Position(s)
  BY <1>1, <1>2, <1>3, ResetFromIs
<1>5. /\ v11' \in Truths /\ v11'.datum = v11.datum /\ v11'.seen = v11.seen /\ v11'.used = v11.seen
      /\ v11'.ramp = 0
  BY <1>1 DEF Truths
<1>6. v9' \in Asked /\ v9'.enable = v3.enable /\ v9'.reference = v3.reference
  BY <1>1 DEF Asked, Encoders
<1>7. v7' \in Steppings
  BY NoOutputIs
<1>8. /\ Loop!IsAbsolute => Loop!IsPosition /\ Loop!Position(s) = s.local
      /\ ~Loop!IsAbsolute => Loop!Position(s) = v3.total
  BY DEF Loop!IsAbsolute, Loop!IsPosition, Loop!Position
<1>9. v6'.origin \in Int
  BY <1>4 DEF Controllers
<1>10. /\ Loop!IsAbsolute => v6'.position.previous + v6'.origin = v6'.local
       /\ Loop!IsPosition /\ ~Loop!IsAbsolute => v6'.position.previous + v6'.origin = v3.total
  BY <1>4, <1>8, <1>9
<1>11. /\ v6'.position.integral \in -v1.pos.integral .. v1.pos.integral
       /\ v6'.velocity.pid.integral \in -v1.vel.integral .. v1.vel.integral
       /\ v6'.velocity.reference \in -v1.requested .. v1.requested
       /\ v6'.velocity.reference \in -v11'.ramp .. v11'.ramp
  BY <1>1, <1>4, <1>5, DesignFields
<1>12. v6'.reference <= v3.reference
  BY <1>1, <1>4 DEF Encoders
<1>13. v6'.local_valid => Loop!IsAbsolute /\ v6'.angle = AngleOf(v11.seen) /\ Turns(v6'.local, v6'.angle)
  BY <1>2, <1>4
<1> QED
  BY <1>2, <1>4, <1>5, <1>6, <1>7, <1>10, <1>11, <1>12, <1>13, ComputedKeeps

-----------------------------------------------------------------------------
(* What a step of the loops leaves of a history.                           *)
LEMMA StepKeeps ==
  ASSUME Ready, Loop!Resolved.live, Loop!OfThisEpoch(Loop!Resolved),
         NEW p \in Pids, NEW v \in Velocities, NEW ramp \in Nat,
         LET r == Loop!Recentred(Loop!Resolved)
         IN  /\ v6' = [r EXCEPT !.position = p, !.velocity = v]
             /\ Loop!IsPosition => p.previous = Loop!Position(r) - r.origin,
         p.integral \in -v1.pos.integral .. v1.pos.integral,
         v.pid.integral \in -v1.vel.integral .. v1.vel.integral,
         v.reference \in -v1.requested .. v1.requested, v.reference \in -ramp .. ramp,
         v7' \in Steppings, v8' = "Stage", v9' \in Asked, v9'.enable = v3.enable, v9'.reference = v3.reference,
         v11' = [v11 EXCEPT !.used = v11.seen, !.ramp = ramp],
         v1' = v1, v2' = v2, v3' = v3, v4' = v4, v5' = 0, v10' = v10
  PROVE  LoopInv'
<1> DEFINE s == Loop!Resolved
           r == Loop!Recentred(s)
<1>1. LoopTypes /\ HistoryIsOfTheShaft /\ v3 \in Encoders /\ v11 \in Truths
  BY DEF Ready, LoopInv, LoopTypes
<1>2. /\ s \in Controllers /\ s.configured = v6.configured /\ s.reference = v6.reference
      /\ ~Loop!IsAbsolute => ~s.local_valid
      /\ Loop!IsAbsolute => s.local_valid /\ s.angle = AngleOf(v11.seen) /\ Turns(s.local, s.angle)
      /\ Loop!Position(s) \in Int
  BY ResolvedIs
<1>3. s.enable = v3.enable
  BY DEF Loop!OfThisEpoch
<1>4. v6' = [r EXCEPT !.position = p, !.velocity = v] /\ (Loop!IsPosition => p.previous = Loop!Position(r) - r.origin)
  OBVIOUS
<1> HIDE DEF s
<1>5. /\ r \in Controllers /\ r.configured = s.configured /\ r.enable = s.enable
      /\ r.reference = s.reference /\ r.local_valid = s.local_valid /\ r.local = s.local
      /\ r.angle = s.angle /\ Loop!Position(r) = Loop!Position(s)
  BY <1>1, <1>2, RecentredIs
<1> HIDE DEF r
<1>6. v6' \in Controllers
  <2>1. r \in Controllers /\ v6' = [r EXCEPT !.position = p, !.velocity = v]
    BY <1>4, <1>5
  <2> QED
    BY <2>1 DEF Controllers
<1>7. /\ v6'.configured = v6.configured /\ v6'.enable = v3.enable /\ v6'.reference = v6.reference
      /\ v6'.local_valid = s.local_valid /\ v6'.local = s.local /\ v6'.angle = s.angle
      /\ v6'.origin = r.origin /\ v6'.position = p /\ v6'.velocity = v /\ r.origin \in Int
  BY <1>2, <1>3, <1>4, <1>5 DEF Controllers
<1>8. /\ v11' \in Truths /\ v11'.datum = v11.datum /\ v11'.seen = v11.seen /\ v11'.used = v11.seen
      /\ v11'.ramp = ramp
  BY <1>1 DEF Truths
<1>9. /\ Loop!IsAbsolute => Loop!IsPosition /\ Loop!Position(s) = s.local
      /\ ~Loop!IsAbsolute => Loop!Position(s) = v3.total
  BY DEF Loop!IsAbsolute, Loop!IsPosition, Loop!Position
<1>10. /\ Loop!IsAbsolute => v6'.position.previous + v6'.origin = v6'.local
       /\ Loop!IsPosition /\ ~Loop!IsAbsolute => v6'.position.previous + v6'.origin = v3.total
  <2>1. Loop!IsPosition => p.previous + r.origin = Loop!Position(s)
    BY <1>2, <1>4, <1>5, <1>7
  <2> QED
    BY <1>7, <1>9, <2>1
<1>11. v6'.reference <= v3.reference
  BY <1>1, <1>7 DEF HistoryIsOfTheShaft
<1>12. v6'.local_valid => Loop!IsAbsolute /\ v6'.angle = AngleOf(v11.seen) /\ Turns(v6'.local, v6'.angle)
  BY <1>2, <1>7
<1> QED
  BY <1>2, <1>6, <1>7, <1>8, <1>10, <1>11, <1>12, ComputedKeeps

-----------------------------------------------------------------------------
LEMMA GoalIs ==
  ASSUME Ready, NEW s \in Controllers, NEW target \in Int, Loop!Position(s) \in Int, Loop!IsPosition
  PROVE  Loop!Goal(s, target) \in Int
<1> DEFINE here == Loop!Position(s)
           way == Loop!Wrap(target - Loop!Angle)
<1>1. way \in Int
  <2> DEFINE d == target - Loop!Angle
  <2>1. d \in Int
    BY AngleIsSeen
  <2> HIDE DEF d
  <2>2. Loop!Wrap(d) \in Int
    BY <2>1, WrapIs
  <2> QED
    BY <2>2 DEF d
<1>2. s.initial \in Int
  BY DEF Controllers
<1> HIDE DEF here, way
<1>3. CASE v1.kind = "StartupRelative"
  BY <1>2, <1>3 DEF Loop!Goal, Loop!IsAbsolute
<1>4. CASE v1.kind = "AbsoluteNearest"
  <2>1. Loop!Goal(s, target) = here + way
    BY <1>4 DEF Loop!Goal, Loop!IsAbsolute, here, way
  <2> QED
    BY <1>1, <2>1 DEF here
<1>5. CASE v1.kind # "StartupRelative" /\ v1.kind # "AbsoluteNearest"
  BY <1>5 DEF Loop!Goal, Loop!IsAbsolute
<1> QED
  BY <1>3, <1>4, <1>5

LEMMA RampIs ==
  ASSUME NEW bound \in Nat, NEW limit \in Nat, NEW a \in -bound .. bound, a \in -limit .. limit
  PROVE  Loop!Least(bound, limit) \in Nat /\ a \in -Loop!Least(bound, limit) .. Loop!Least(bound, limit)
BY DEF Loop!Least

LEMMA TwiceIsWhole ==
  ASSUME NEW x \in Int, NEW dt \in 1 .. 2, NEW y, y = (2 * x) \div dt
  PROVE  y * dt = 2 * x
<1>1. CASE dt = 1
  BY <1>1
<1>2. CASE dt = 2
  BY <1>2
<1> QED
  BY <1>1, <1>2

(* One step of the loops, over the velocity alone.                         *)
LEMMA VelocityStepKeeps ==
  ASSUME Ready, Loop!Resolved.live, Loop!OfThisEpoch(Loop!Resolved), ~Loop!IsPosition,
         NEW target \in Int, Loop!Abs(target) <= v1.requested,
         LET r    == Loop!Recentred(Loop!Resolved)
             step == Loop!Stepped(r, target)
         IN  /\ v6' = Loop!Advanced(r, step)
             /\ v7' = [stepped |-> TRUE, total |-> step.total, rate |-> 0]
             /\ v9' = [valid |-> TRUE, enable |-> v3.enable, reference |-> v3.reference, effort |-> step.effort],
         v8' = "Stage",
         v11' = [v11 EXCEPT !.used = v11.seen,
                            !.ramp = Loop!Least(v11.ramp + v5 * v1.rising, v1.requested)],
         v1' = v1, v2' = v2, v3' = v3, v4' = v4, v5' = 0, v10' = v10
  PROVE  /\ LoopInv'
         /\ v7'.total > v1.vel.limit => v6'.velocity.pid.integral <= v6.velocity.pid.integral
         /\ v7'.total < -v1.vel.limit => v6'.velocity.pid.integral >= v6.velocity.pid.integral
<1> DEFINE s == Loop!Resolved
           r == Loop!Recentred(s)
           w == Loop!VelocityStep(r.velocity, v1, target, v3.speed, v5)
<1>1. LoopTypes /\ LoopsAreLimited /\ v3 \in Encoders /\ v11 \in Truths /\ v6 \in Controllers
  BY DEF Ready, LoopInv, LoopTypes
<1>2. s \in Controllers /\ s.velocity = v6.velocity /\ s.position = v6.position /\ Loop!Position(s) \in Int
      /\ (s.live => v6.live) /\ s.live
  BY ResolvedIs
<1>3. Loop!Stepped(r, target) = w
  BY DEF Loop!Stepped
<1>4. /\ v6' = [r EXCEPT !.velocity = w.state]
      /\ v7' = [stepped |-> TRUE, total |-> w.total, rate |-> 0]
      /\ v9' = [valid |-> TRUE, enable |-> v3.enable, reference |-> v3.reference, effort |-> w.effort]
  BY <1>3 DEF Loop!Advanced
<1> DEFINE p == r.position
           v == w.state
<1>5. /\ r \in Controllers /\ r.velocity = s.velocity /\ p \in Pids /\ p.integral = s.position.integral
  <2> HIDE DEF s
  <2> QED
    BY <1>1, <1>2, RecentredIs
<1>6. v6' = [r EXCEPT !.position = p, !.velocity = v]
  <2> HIDE DEF r, w
  <2> QED
    BY <1>4, <1>5 DEF Controllers
<1> DEFINE grown == v11.ramp + v5 * v1.rising
           ramp == Loop!Least(grown, v1.requested)
<1>7. /\ w.state \in Velocities /\ w.state.reference \in -v1.requested .. v1.requested
      /\ w.state.reference \in -grown .. grown
      /\ w.state.pid.integral \in -v1.vel.integral .. v1.vel.integral
      /\ w.total \in Int /\ w.effort \in -v1.effort .. v1.effort
      /\ w.total > v1.vel.limit => w.state.pid.integral <= v6.velocity.pid.integral
      /\ w.total < -v1.vel.limit => w.state.pid.integral >= v6.velocity.pid.integral
  <2> DEFINE u == v6.velocity
             d == v1
             speed == v3.speed
             dt == v5
             old == v11.ramp
  <2>1. /\ u \in Velocities /\ d \in DesignRecords /\ d.falling <= d.rising /\ old \in Nat
        /\ target \in -d.requested .. d.requested /\ speed \in Int /\ dt \in Nat \ {0}
        /\ u.reference \in -d.requested .. d.requested /\ u.reference \in -old .. old
        /\ u.pid.integral \in -d.vel.integral .. d.vel.integral
    <3>1. u \in Velocities /\ old \in Nat /\ speed \in Int /\ dt \in Nat \ {0}
      BY <1>1 DEF Ready, Controllers, Truths, Encoders
    <3>2. target \in -d.requested .. d.requested
      BY <1>1, DesignFields DEF Loop!Abs
    <3>3. /\ u.reference \in -d.requested .. d.requested /\ u.reference \in -old .. old
          /\ u.pid.integral \in -d.vel.integral .. d.vel.integral
      BY <1>1, <1>2 DEF LoopsAreLimited
    <3> QED
      BY <1>1, <3>1, <3>2, <3>3, DesignFields
  <2>2. w = Loop!VelocityStep(u, d, target, speed, dt)
    BY <1>2, <1>5
  <2> HIDE DEF u, d, speed, dt, old, w
  <2>3. /\ w.state \in Velocities /\ w.state.reference \in -d.requested .. d.requested
        /\ w.state.reference \in -(old + dt * d.rising) .. old + dt * d.rising
        /\ w.state.pid.integral \in -d.vel.integral .. d.vel.integral
        /\ w.total \in Int /\ w.effort \in -d.effort .. d.effort
        /\ w.total > d.vel.limit => w.state.pid.integral <= u.pid.integral
        /\ w.total < -d.vel.limit => w.state.pid.integral >= u.pid.integral
    BY <2>1, <2>2, VelocityStepIs
  <2> QED
    BY <2>3 DEF u, d, dt, old
<1>8. grown \in Nat /\ v1.requested \in Nat
  BY <1>1, DesignFields DEF Truths, LoopTypes
<1>9. v11' = [v11 EXCEPT !.used = v11.seen, !.ramp = ramp]
  OBVIOUS
<1> HIDE DEF r, w, grown
<1>10. ramp \in Nat /\ v.reference \in -ramp .. ramp
  BY <1>7, <1>8, RampIs
<1>11. p.integral \in -v1.pos.integral .. v1.pos.integral
  BY <1>1, <1>2, <1>5 DEF LoopsAreLimited
<1>12. v7' \in Steppings /\ v7'.total = w.total
  BY <1>4, <1>7 DEF Steppings
<1>13. v9' \in Asked /\ v9'.enable = v3.enable /\ v9'.reference = v3.reference
  <2>1. w.effort \in Int
    BY <1>1, <1>7, DesignFields
  <2> QED
    BY <1>1, <1>4, <2>1 DEF Asked, Encoders
<1>14. v6'.velocity = v
  <2> HIDE DEF p, v
  <2> QED
    BY <1>5, <1>6 DEF Controllers
<1>15. v \in Velocities
  BY <1>7
<1> HIDE DEF ramp, p, v
<1>16. /\ v6' = [Loop!Recentred(Loop!Resolved) EXCEPT !.position = p, !.velocity = v]
       /\ v.pid.integral \in -v1.vel.integral .. v1.vel.integral
       /\ v.reference \in -v1.requested .. v1.requested
  BY <1>6, <1>7 DEF r, v
<1>17. LoopInv'
  BY <1>5, <1>9, <1>10, <1>11, <1>12, <1>13, <1>15, <1>16, StepKeeps
<1> QED
  BY <1>7, <1>12, <1>14, <1>17 DEF v

(* One step of the loops, over the position.                               *)
LEMMA PositionStepKeeps ==
  ASSUME Ready, Loop!Resolved.live, Loop!OfThisEpoch(Loop!Resolved), Loop!IsPosition, v6.configured,
         NEW target \in Int,
         LET r    == Loop!Recentred(Loop!Resolved)
             step == Loop!Stepped(r, target)
         IN  /\ v6' = Loop!Advanced(r, step)
             /\ v7' = [stepped |-> TRUE, total |-> step.total, rate |-> step.rate]
             /\ v9' = [valid |-> TRUE, enable |-> v3.enable, reference |-> v3.reference, effort |-> step.effort],
         v8' = "Stage",
         v11' = [v11 EXCEPT !.used = v11.seen,
                            !.ramp = Loop!Least(v11.ramp + v5 * v1.rising, v1.requested)],
         v1' = v1, v2' = v2, v3' = v3, v4' = v4, v5' = 0, v10' = v10
  PROVE  /\ LoopInv'
         /\ v7'.total > v1.vel.limit => v6'.velocity.pid.integral <= v6.velocity.pid.integral
         /\ v7'.total < -v1.vel.limit => v6'.velocity.pid.integral >= v6.velocity.pid.integral
         /\ v1.pos.tau = 0 => v7'.rate * v5 = 2 * (v11.seen - v11.used)
<1> DEFINE s == Loop!Resolved
           r == Loop!Recentred(s)
           want == Loop!Goal(r, target) - r.origin
           got == Loop!Position(r) - r.origin
           w == Loop!PositionStep(r, v1, want, got, v3.speed, v5)
<1>1. LoopTypes /\ LoopsAreLimited /\ v3 \in Encoders /\ v11 \in Truths /\ v6 \in Controllers /\ Loop!Valid(v1)
  BY DEF Ready, LoopInv, LoopTypes, LoopsAreLimited
<1>2. s \in Controllers /\ s.velocity = v6.velocity /\ s.position = v6.position /\ Loop!Position(s) \in Int
      /\ (s.live => v6.live) /\ s.live
      /\ Loop!Position(s) - s.origin - s.position.previous = v11.seen - v11.used
  BY ResolvedIs
<1>3. Loop!Stepped(r, target) = w
  BY DEF Loop!Stepped
<1>4. /\ v6' = [r EXCEPT !.position = w.position, !.velocity = w.velocity]
      /\ v7' = [stepped |-> TRUE, total |-> w.total, rate |-> w.rate]
      /\ v9' = [valid |-> TRUE, enable |-> v3.enable, reference |-> v3.reference, effort |-> w.effort]
  BY <1>3 DEF Loop!Advanced
<1> DEFINE p == w.position
           v == w.velocity
<1>5. /\ r \in Controllers /\ r.velocity = s.velocity /\ r.position \in Pids
      /\ r.position.integral = s.position.integral
      /\ Loop!Position(r) = Loop!Position(s)
      /\ Loop!Position(s) - r.origin - r.position.previous
         = Loop!Position(s) - s.origin - s.position.previous
  <2> HIDE DEF s
  <2> QED
    BY <1>1, <1>2, RecentredIs
<1> HIDE DEF r, s
<1>6. want \in Int /\ got \in Int /\ got - r.position.previous = v11.seen - v11.used
  <2>1. r.origin \in Int
    BY <1>5 DEF Controllers
  <2>2. Loop!Goal(r, target) \in Int
    BY <1>2, <1>5, GoalIs
  <2> QED
    BY <1>2, <1>5, <2>1, <2>2
<1> DEFINE grown == v11.ramp + v5 * v1.rising
           ramp == Loop!Least(grown, v1.requested)
<1>7. /\ p \in Pids /\ p.integral \in -v1.pos.integral .. v1.pos.integral /\ p.previous = got
      /\ w.rate \in Int /\ (v1.pos.tau = 0 => w.rate = Pace(got, r.position.previous, v5))
      /\ v \in Velocities /\ v.reference \in -v1.requested .. v1.requested
      /\ v.reference \in -grown .. grown
      /\ v.pid.integral \in -v1.vel.integral .. v1.vel.integral
      /\ w.total \in Int /\ w.effort \in -v1.effort .. v1.effort
      /\ w.total > v1.vel.limit => v.pid.integral <= v6.velocity.pid.integral
      /\ w.total < -v1.vel.limit => v.pid.integral >= v6.velocity.pid.integral
  <2> DEFINE d == v1
             speed == v3.speed
             dt == v5
             old == v11.ramp
  <2>1. /\ d \in DesignRecords /\ d.falling <= d.rising /\ d.pos.limit <= d.requested /\ old \in Nat
        /\ speed \in Int /\ dt \in Nat \ {0}
    <3>1. old \in Nat /\ speed \in Int /\ dt \in Nat \ {0}
      BY <1>1 DEF Ready, Truths, Encoders
    <3>2. d.pos.limit <= d.requested
      BY <1>1 DEF Loop!Valid, Loop!ValidPosition, Loop!IsPosition
    <3> QED
      BY <1>1, <3>1, <3>2, DesignFields
  <2>2. /\ r.velocity \in Velocities
        /\ r.position.integral \in -d.pos.integral .. d.pos.integral
        /\ r.velocity.reference \in -d.requested .. d.requested /\ r.velocity.reference \in -old .. old
        /\ r.velocity.pid.integral \in -d.vel.integral .. d.vel.integral
    <3>1. v6.velocity \in Velocities
      BY <1>1 DEF Controllers
    <3> QED
      BY <1>1, <1>2, <1>5, <3>1 DEF LoopsAreLimited
  <2>3. w = Loop!PositionStep(r, d, want, got, speed, dt)
    OBVIOUS
  <2> HIDE DEF d, speed, dt, old, want, got, w
  <2>4. r.position \in Pids /\ want \in Int /\ got \in Int
    BY <1>5, <1>6
  <2> DEFINE x == Loop!PositionStep(r, d, want, got, speed, dt)
  <2>5. /\ x.position \in Pids /\ x.position.integral \in -d.pos.integral .. d.pos.integral
        /\ x.position.previous = got /\ x.rate \in Int
        /\ d.pos.tau = 0 => x.rate = Pace(got, r.position.previous, dt)
        /\ x.velocity \in Velocities /\ x.velocity.reference \in -d.requested .. d.requested
        /\ x.velocity.reference \in -(old + dt * d.rising) .. old + dt * d.rising
        /\ x.velocity.pid.integral \in -d.vel.integral .. d.vel.integral
        /\ x.total \in Int /\ x.effort \in -d.effort .. d.effort
        /\ x.total > d.vel.limit => x.velocity.pid.integral <= r.velocity.pid.integral
        /\ x.total < -d.vel.limit => x.velocity.pid.integral >= r.velocity.pid.integral
    BY <2>1, <2>2, <2>4, PositionStepIs
  <2> HIDE DEF x
  <2> QED
    BY <1>2, <1>5, <2>3, <2>5 DEF x, d, dt, old
<1>8. grown \in Nat /\ v1.requested \in Nat
  BY <1>1, DesignFields DEF Truths, LoopTypes
<1>9. v11' = [v11 EXCEPT !.used = v11.seen, !.ramp = ramp]
  OBVIOUS
<1> HIDE DEF w, grown, want
<1>10. ramp \in Nat /\ v.reference \in -ramp .. ramp
  BY <1>7, <1>8, RampIs
<1>11. v7' \in Steppings /\ v7'.total = w.total /\ v7'.rate = w.rate
  BY <1>4, <1>7 DEF Steppings
<1>12. v9' \in Asked /\ v9'.enable = v3.enable /\ v9'.reference = v3.reference
  <2>1. w.effort \in Int
    BY <1>1, <1>7, DesignFields
  <2> QED
    BY <1>1, <1>4, <2>1 DEF Asked, Encoders
<1>13. v6'.velocity = v
  BY <1>4, <1>5 DEF Controllers
<1>14. v1.pos.tau = 0 => w.rate * v5 = 2 * (v11.seen - v11.used)
  <2> DEFINE x == got - r.position.previous
             y == Pace(got, r.position.previous, v5)
  <2>1. y = (2 * x) \div v5 /\ x \in Int /\ v5 \in 1 .. 2 /\ x = v11.seen - v11.used
    BY <1>1, <1>6 DEF Ready, Pace, Truths
  <2> HIDE DEF x, y
  <2>2. y * v5 = 2 * x
    BY <2>1, TwiceIsWhole
  <2> QED
    BY <1>7, <2>1, <2>2 DEF y
<1> HIDE DEF ramp, p, v
<1>15. /\ v6' = [Loop!Recentred(Loop!Resolved) EXCEPT !.position = p, !.velocity = v]
       /\ p.previous = Loop!Position(Loop!Recentred(Loop!Resolved)) - Loop!Recentred(Loop!Resolved).origin
  BY <1>4, <1>7 DEF r, s, p, v, got
<1>16. LoopInv'
  BY <1>7, <1>9, <1>10, <1>11, <1>12, <1>15, StepKeeps
<1> QED
  BY <1>7, <1>11, <1>13, <1>14, <1>16

-----------------------------------------------------------------------------
(* A step of update() whose output was stepped.                            *)
StepsRightly == Loop!RateIsTrue /\ Loop!WindsNoFurther

LEMMA UpdateKeeps ==
  ASSUME LoopInv, NEW target \in Int, Loop!Update(target)
  PROVE  LoopInv' /\ StepsRightly
<1>0. LoopTypes
  BY DEF LoopInv
<1>1. CASE (Loop!Refuses(target) \/ Loop!Waits) /\ Loop!Fail
  <2>1. /\ v1' = v1 /\ v2' = v2 /\ v3' = v3 /\ v4' = v4 /\ v5' = 0 /\ v8' = v8 /\ v9' = v9 /\ v11' = v11
        /\ v8 = "Update" /\ v6' = Loop!Forgotten(v6) /\ v7' = Loop!NoOutput /\ v10' \in {v10, Loop!Nothing}
    BY <1>1 DEF Loop!Update, Loop!Fail
  <2>2. LoopInv'
    BY <2>1, NoOutputIs, ForgetKeeps
  <2> QED
    BY <2>1, <2>2 DEF StepsRightly, Loop!RateIsTrue, Loop!WindsNoFurther, Loop!Steps
<1>2. CASE ~Loop!Refuses(target) /\ ~Loop!Waits /\ v8' = "Stage"
  <2> DEFINE s == Loop!Resolved
             r == Loop!Recentred(s)
             step == Loop!Stepped(r, target)
  <2>1. Ready
    <3>1. Loop!Fresh /\ v3.active /\ v5 \in v1.dt_min .. v1.dt_max
          /\ (Loop!IsPosition /\ ~Loop!IsAbsolute => v3.valid)
      BY <1>2 DEF Loop!Waits
    <3> QED
      BY <1>0, <3>1, DesignFields DEF Ready
  <2>2. v6.configured /\ (~Loop!IsPosition => Loop!Abs(target) <= v1.requested)
    <3>1. Loop!Abs(target) \in Int /\ v1.requested \in Int
      BY <1>0, DesignFields DEF Loop!Abs
    <3> QED
      BY <1>2, <3>1 DEF Loop!Refuses
  <2>3. v1' = v1 /\ v2' = v2 /\ v3' = v3 /\ v4' = v4 /\ v5' = 0 /\ v10' = v10
    <3>1. ~((Loop!Refuses(target) \/ Loop!Waits) /\ Loop!Fail)
      BY <1>2
    <3> QED
      BY <3>1 DEF Loop!Update
  <2>4. IF s.live /\ Loop!OfThisEpoch(s)
        THEN /\ Loop!Compute(step.effort, Loop!Advanced(r, step),
                             [stepped |-> TRUE, total |-> step.total,
                              rate |-> IF Loop!IsPosition THEN step.rate ELSE 0])
             /\ v11' = [v11 EXCEPT !.used = v11.seen,
                                   !.ramp = Loop!Least(v11.ramp + v5 * v1.rising, v1.requested)]
        ELSE /\ Loop!Compute(0, Loop!ResetFrom(s), Loop!NoOutput)
             /\ v11' = [v11 EXCEPT !.used = v11.seen, !.ramp = 0]
    <3>1. ~((Loop!Refuses(target) \/ Loop!Waits) /\ Loop!Fail)
      BY <1>2
    <3> QED
      BY <3>1 DEF Loop!Update
  <2>5. CASE ~(s.live /\ Loop!OfThisEpoch(s))
    <3>1. /\ v6' = Loop!ResetFrom(s) /\ v7' = Loop!NoOutput
          /\ v9' = [valid |-> TRUE, enable |-> v3.enable, reference |-> v3.reference, effort |-> 0]
          /\ v11' = [v11 EXCEPT !.used = v11.seen, !.ramp = 0]
      BY <2>4, <2>5 DEF Loop!Compute
    <3>2. LoopInv'
      BY <1>2, <2>1, <2>3, <3>1, FirstKeeps
    <3> QED
      BY <3>1, <3>2, NoOutputIs DEF StepsRightly, Loop!RateIsTrue, Loop!WindsNoFurther, Loop!Steps
  <2>6. CASE s.live /\ Loop!OfThisEpoch(s) /\ ~Loop!IsPosition
    <3>1. /\ v6' = Loop!Advanced(r, step) /\ v7' = [stepped |-> TRUE, total |-> step.total, rate |-> 0]
          /\ v9' = [valid |-> TRUE, enable |-> v3.enable, reference |-> v3.reference, effort |-> step.effort]
          /\ v11' = [v11 EXCEPT !.used = v11.seen,
                                !.ramp = Loop!Least(v11.ramp + v5 * v1.rising, v1.requested)]
      BY <2>4, <2>6 DEF Loop!Compute
    <3>2. /\ LoopInv'
          /\ v7'.total > v1.vel.limit => v6'.velocity.pid.integral <= v6.velocity.pid.integral
          /\ v7'.total < -v1.vel.limit => v6'.velocity.pid.integral >= v6.velocity.pid.integral
      BY <1>2, <2>1, <2>2, <2>3, <2>6, <3>1, VelocityStepKeeps
    <3> QED
      BY <2>6, <3>2 DEF StepsRightly, Loop!RateIsTrue, Loop!WindsNoFurther
  <2>7. CASE s.live /\ Loop!OfThisEpoch(s) /\ Loop!IsPosition
    <3>1. /\ v6' = Loop!Advanced(r, step) /\ v7' = [stepped |-> TRUE, total |-> step.total, rate |-> step.rate]
          /\ v9' = [valid |-> TRUE, enable |-> v3.enable, reference |-> v3.reference, effort |-> step.effort]
          /\ v11' = [v11 EXCEPT !.used = v11.seen,
                                !.ramp = Loop!Least(v11.ramp + v5 * v1.rising, v1.requested)]
      BY <2>4, <2>7 DEF Loop!Compute
    <3>2. /\ LoopInv'
          /\ v7'.total > v1.vel.limit => v6'.velocity.pid.integral <= v6.velocity.pid.integral
          /\ v7'.total < -v1.vel.limit => v6'.velocity.pid.integral >= v6.velocity.pid.integral
          /\ v1.pos.tau = 0 => v7'.rate * v5 = 2 * (v11.seen - v11.used)
      BY <1>2, <2>1, <2>2, <2>3, <2>7, <3>1, PositionStepKeeps
    <3> QED
      BY <3>2 DEF StepsRightly, Loop!RateIsTrue, Loop!WindsNoFurther
  <2> HIDE DEF s, step
  <2> QED
    BY <2>5, <2>6, <2>7
<1>3. \/ (Loop!Refuses(target) \/ Loop!Waits) /\ Loop!Fail
      \/ ~Loop!Refuses(target) /\ ~Loop!Waits /\ v8' = "Stage"
  BY DEF Loop!Update, Loop!Compute
<1> QED
  BY <1>1, <1>2, <1>3

LEMMA LoopStep ==
  ASSUME LoopInv, Loop!Next
  PROVE  LoopInv' /\ StepsRightly
<1>1. ASSUME v8' = v8 \/ v8 = "Stage" \/ v8' = "Update"
      PROVE  StepsRightly
  <2>1. ~Loop!Steps
    BY <1>1 DEF LoopInv, LoopTypes, Loop!Steps
  <2> QED
    BY <2>1 DEF StepsRightly, Loop!RateIsTrue, Loop!WindsNoFurther
<1>2. ASSUME NEW turned \in {-1, 1}, NEW arrives \in BOOLEAN, Loop!Period(turned, arrives)
      PROVE  LoopInv' /\ StepsRightly
  <2>1. v8' = v8
    BY <1>2 DEF Loop!Period
  <2>2. CASE arrives
    BY <1>1, <1>2, <2>1, <2>2, FrameKeeps
  <2>3. CASE ~arrives
    <3>1. arrives = FALSE /\ turned \in Int
      BY <2>3
    <3> QED
      BY <1>1, <1>2, <2>1, <3>1, SilenceKeeps
  <2> QED
    BY <2>2, <2>3
<1>3. ASSUME v3.age >= FeedbackTimeout, Loop!Period(Ticks, FALSE)
      PROVE  LoopInv' /\ StepsRightly
  <2>1. v8' = v8
    BY <1>3 DEF Loop!Period
  <2>2. Ticks \in Int
    BY Halves
  <2> QED
    BY <1>1, <1>3, <2>1, <2>2, SilenceKeeps
<1>4. ASSUME Loop!Fault
      PROVE  LoopInv' /\ StepsRightly
  BY <1>1, <1>4, FaultKeeps DEF Loop!Fault
<1>5. ASSUME Loop!Activate
      PROVE  LoopInv' /\ StepsRightly
  BY <1>1, <1>5, ActivateKeeps DEF Loop!Activate
<1>6. ASSUME NEW ticks \in {0}, Loop!Reseed(ticks)
      PROVE  LoopInv' /\ StepsRightly
  <2>1. ticks \in Int /\ v8' = v8
    BY <1>6 DEF Loop!Reseed
  <2> QED
    BY <1>1, <1>6, <2>1, ReseedKeeps
<1>7. ASSUME Loop!Configure
      PROVE  LoopInv' /\ StepsRightly
  BY <1>1, <1>7, ConfigureKeeps DEF Loop!Configure
<1>8. ASSUME Loop!Reset
      PROVE  LoopInv' /\ StepsRightly
  <2>1. /\ v1' = v1 /\ v2' = v2 /\ v3' = v3 /\ v4' = v4 /\ v5' = v5 /\ v7' = v7 /\ v8' = v8 /\ v9' = v9
        /\ v11' = v11 /\ v8 = "Update" /\ v6' = Loop!Forgotten(v6) /\ v10' = Loop!Nothing
    BY <1>8 DEF Loop!Reset
  <2>2. v5 \in 0 .. 3 /\ v7 \in Steppings
    BY DEF LoopInv, LoopTypes
  <2> QED
    BY <1>1, <2>1, <2>2, ForgetKeeps
<1>9. ASSUME NEW target \in {-3, 2}, Loop!Update(target)
      PROVE  LoopInv' /\ StepsRightly
  BY <1>9, UpdateKeeps
<1>10. ASSUME Loop!Stage
      PROVE  LoopInv' /\ StepsRightly
  BY <1>1, <1>10, StageKeeps DEF Loop!Stage
<1> QED
  BY <1>2, <1>3, <1>4, <1>5, <1>6, <1>7, <1>8, <1>9, <1>10 DEF Loop!Next

LEMMA LoopIsTrue ==
  ASSUME LoopInv
  PROVE  Loop!PositionIsTrue /\ Loop!LocalIsTheAngle /\ Loop!EffortIsOfItsReference /\ Loop!RampIsFromRest
<1>1. LoopTypes /\ ShaftIsFollowed /\ LoopsAreLimited /\ EffortsAreOfCoordinate /\ HistoryIsOfTheShaft
  BY DEF LoopInv
<1>2. Loop!PositionIsTrue
  BY <1>1 DEF ShaftIsFollowed, Loop!PositionIsTrue
<1>3. Loop!LocalIsTheAngle
  <2>1. SUFFICES ASSUME v6.local_valid
                 PROVE  (v6.local - v6.angle) % Ticks = 0
    BY DEF Loop!LocalIsTheAngle
  <2>2. \E k \in Int : v6.local = Ticks * k + v6.angle
    BY <1>1, <2>1 DEF HistoryIsOfTheShaft, Turns
  <2>3. PICK k \in Int : v6.local = Ticks * k + v6.angle
    BY <2>2
  <2>4. v6.angle \in Int /\ v6.local \in Int
    BY <1>1 DEF LoopTypes, Controllers
  <2>5. v6.local - v6.angle = Ticks * k
    BY <2>3, <2>4, Halves
  <2>6. (Ticks * k) % Ticks = 0
    BY Halves, MultipleIsWhole
  <2> QED
    BY <2>5, <2>6, Zenon
<1>4. Loop!EffortIsOfItsReference
  BY <1>1 DEF EffortsAreOfCoordinate, OfCoordinate, Loop!EffortIsOfItsReference
<1>5. Loop!RampIsFromRest
  <2>1. v11.ramp \in Nat
    BY <1>1 DEF LoopTypes, Truths
  <2> QED
    BY <1>1, <2>1 DEF LoopsAreLimited, Loop!RampIsFromRest, Loop!Abs
<1> QED
  BY <1>2, <1>3, <1>4, <1>5

-----------------------------------------------------------------------------
(* The module that takes steps is chosen once.                             *)
PortsInv ==
    /\ rig = "CanLink" => LinkInv
    /\ rig = "Rs485" => WiresInv
    /\ rig = "CanImu" => ImuInv
    /\ rig = "Rs485Imu" => SerialInv
    /\ rig = "Heating" => HeatInv
    /\ rig = "Loop" => LoopInv

LEMMA PortsStart == Init => PortsInv
BY LinkStarts, WiresStart, ImuStarts, SerialStarts, HeatStarts, LoopStart DEF Init, PortsInv

LEMMA LinkStutters == LinkInv /\ UNCHANGED vars => LinkInv'
<1> SUFFICES ASSUME LinkInv, UNCHANGED vars PROVE LinkInv'
  OBVIOUS
<1>1. UNCHANGED <<v1, v2, v3, v4, v5, v6, v7, v8, v9, v10, v11, v12>>
  BY DEF vars
<1>2. LinkFits'
  BY <1>1 DEF LinkInv, LinkFits
<1>3. CanLink!TypeOK' /\ LinkSends'
  BY <1>1 DEF LinkInv, LinkSends, CanLink!TypeOK, CanLink!FrameIsRetired
<1>4. Ordered(v1.queue, v2, v3, v4, v10)'
  BY <1>1 DEF LinkInv, Ordered, RingOrdered, RingFollows, PartFollows, ReadyFollows, ReaderStands, Before, Whole
<1> QED
  BY <1>2, <1>3, <1>4 DEF LinkInv

LEMMA WiresStutter == WiresInv /\ UNCHANGED vars => WiresInv'
BY DEF vars, WiresInv, WiresFit, ReplyOver, GrantIsOpen

LEMMA ImuStutters == ImuInv /\ UNCHANGED vars => ImuInv'
BY DEF vars, ImuInv, ImuFits, ImuServes, ImuStamps, SinceTheEpoch, CanImu!TypeOK, CanImu!RequestIsRetired,
       CanImu!EpochIsTrue

LEMMA SerialStutters == SerialInv /\ UNCHANGED vars => SerialInv'
BY DEF vars, SerialInv, SerialFits, SerialStamps, CannotPass, OpenSince, Rs485Imu!ReplyIsOfItsEpoch

LEMMA HeatStutters == HeatInv /\ UNCHANGED vars => HeatInv'
BY DEF vars, HeatInv, HeatFits, HeatIsNew, Heating!StatusIsTrue

LEMMA LoopStutters == LoopInv /\ UNCHANGED vars => LoopInv'
<1> SUFFICES ASSUME LoopInv, UNCHANGED vars PROVE LoopInv'
  OBVIOUS
<1>1. UNCHANGED <<v1, v2, v3, v4, v5, v6, v7, v8, v9, v10, v11>>
  BY DEF vars
<1>2. LoopTypes'
  BY <1>1 DEF LoopInv, LoopTypes
<1>3. ShaftIsFollowed'
  BY <1>1 DEF LoopInv, ShaftIsFollowed, Loop!Fresh
<1>4. LoopsAreLimited'
  BY <1>1 DEF LoopInv, LoopsAreLimited, Loop!Valid, Loop!ValidVelocity, Loop!ValidPosition
<1>5. EffortsAreOfCoordinate'
  BY <1>1 DEF LoopInv, EffortsAreOfCoordinate, OfCoordinate, Loop!Nothing
<1>6. HistoryIsOfTheShaft'
  <2>1. Loop!Fresh' = Loop!Fresh
    BY <1>1 DEF Loop!Fresh
  <2> QED
    BY <1>1, <2>1, SameDesign DEF LoopInv, HistoryIsOfTheShaft
<1> QED
  BY <1>2, <1>3, <1>4, <1>5, <1>6 DEF LoopInv

LEMMA PortsStep == PortsInv /\ [Next]_vars => PortsInv'
<1> SUFFICES ASSUME PortsInv, [Next]_vars PROVE PortsInv'
  OBVIOUS
<1>1. rig' = rig
  BY DEF Next, vars
<1>2. ASSUME rig = "CanLink" PROVE LinkInv'
  BY <1>2, LinkStep, LinkStutters DEF PortsInv, Next
<1>3. ASSUME rig = "Rs485" PROVE WiresInv'
  BY <1>3, WiresStep, WiresStutter DEF PortsInv, Next
<1>4. ASSUME rig = "CanImu" PROVE ImuInv'
  BY <1>4, ImuStep, ImuStutters DEF PortsInv, Next
<1>5. ASSUME rig = "Rs485Imu" PROVE SerialInv'
  BY <1>5, SerialStep, SerialStutters DEF PortsInv, Next
<1>6. ASSUME rig = "Heating" PROVE HeatInv'
  BY <1>6, HeatStep, HeatStutters DEF PortsInv, Next
<1>7. ASSUME rig = "Loop" PROVE LoopInv'
  BY <1>7, LoopStep, LoopStutters DEF PortsInv, Next
<1> QED
  BY <1>1, <1>2, <1>3, <1>4, <1>5, <1>6, <1>7 DEF PortsInv

LEMMA PortsKeep == Spec => []PortsInv
<1>1. Init => PortsInv
  BY PortsStart
<1>2. PortsInv /\ [Next]_vars => PortsInv'
  BY PortsStep
<1> QED
  BY <1>1, <1>2, PTL DEF Spec

(* No frame is given to a CAN driver again, or changed, before the driver  *)
(* has called back for it: neither the fragment of the transport, over     *)
(* restarts and late callbacks (CanInterBoardTransport::service), nor the  *)
(* request to the inertial unit, over failures and recoveries              *)
(* (DmImuCanSource::service, recover).                                     *)
THEOREM FramesAreRetired == Spec => []BuffersAreRetired
<1>1. PortsInv => BuffersAreRetired
  BY DEF PortsInv, LinkInv, ImuInv, ImuServes, LinkSends, BuffersAreRetired
<1> QED
  BY <1>1, PortsKeep, PTL

(* The transport over CAN carries batches, whatever is lost, late, foreign *)
(* or reset: the controller is handed the fragments of a batch in order    *)
(* and each once, and the reader is handed the pieces of a batch in order  *)
(* and is told wherever a batch breaks off (CanInterBoardTransport::send,  *)
(* service, read).                                                         *)
THEOREM BatchesArrive == Spec => BatchesAreCarried
<1>1. Init => Reader!Init
  <2> SUFFICES ASSUME Init PROVE Reader!Init
    OBVIOUS
  <2>1. Delivered.batch = 0 /\ Delivered.piece = Pieces /\ Delivered.told = FALSE
    BY DEF Init, Delivered, CanLink!Init
  <2> QED
    BY <2>1 DEF Reader!Init
<1>2. PortsInv /\ [Next]_vars => [Reader!Next]_<<Delivered.batch, Delivered.piece, Delivered.told>>
  <2> SUFFICES ASSUME PortsInv, [Next]_vars
               PROVE  Reader!Next \/ UNCHANGED <<Delivered.batch, Delivered.piece, Delivered.told>>
    OBVIOUS
  <2>1. rig' = rig
    BY DEF Next, vars
  <2>2. CASE rig = "CanLink" /\ CanLink!Next
    BY <2>1, <2>2, LinkReaderSteps DEF PortsInv
  <2>3. CASE rig # "CanLink" \/ UNCHANGED vars
    BY <2>1, <2>3 DEF Delivered, vars
  <2> QED
    BY <2>2, <2>3 DEF Next
<1>3. PortsInv /\ [Next]_vars => [rig = "CanLink" => CanLink!SendsInOrder]_vars
  BY LinkOrdersIts DEF PortsInv, Next
<1>4. Spec => Reader!Spec
  BY <1>1, <1>2, PortsKeep, PTL DEF Spec, Reader!Spec
<1>5. Spec => [][rig = "CanLink" => CanLink!SendsInOrder]_vars
  BY <1>3, PortsKeep, PTL DEF Spec
<1> QED
  BY <1>4, <1>5, PTL DEF BatchesAreCarried

(* The two ends of the RS485 pair never drive it at once, and the          *)
(* responder speaks only to the request that is open, or while a           *)
(* coordinator that has just started keeps silent, whatever the services   *)
(* and the UARTs delay and whichever end restarts                          *)
(* (Rs485InterBoardTransport::service, send, startReply).                  *)
THEOREM TheWiresAreShared == Spec => WiresAreShared
<1>1. PortsInv => (rig = "Rs485" => Rs485!NoCollision)
  BY WiresApart DEF PortsInv
<1>2. PortsInv /\ [Next]_vars => [rig = "Rs485" => Rs485!RepliesWhenGranted]_vars
  BY WiresGrant DEF PortsInv, Next
<1> QED
  BY <1>1, <1>2, PortsKeep, PTL DEF Spec, WiresAreShared

(* An orientation published over CAN or RS485 was measured after the zero  *)
(* of the unit had moved to the epoch it is published in, and over CAN it  *)
(* was received since the controller was started last                      *)
(* (DmImuCanSource and DmImuRs485Source: resetReference, service).  The    *)
(* position a motor counts is where its shaft is, an angle a loop counts   *)
(* on is the angle to whole turns, and the rate it damps with is how far   *)
(* the shaft turned (Motor::acceptDjiFeedback,                             *)
(* PositionMotor::resolveMeasurement, update).                             *)
THEOREM TheMeasurementsAreTrue == Spec => MeasurementsAreTrue
<1>1. PortsInv => (rig = "CanImu" => CanImu!EpochIsTrue)
  BY DEF PortsInv, ImuInv, ImuStamps
<1>2. PortsInv => (rig = "Rs485Imu" => Rs485Imu!ReplyIsOfItsEpoch)
  BY DEF PortsInv, SerialInv, SerialStamps
<1>3. PortsInv => (rig = "Loop" => Loop!PositionIsTrue /\ Loop!LocalIsTheAngle)
  BY LoopIsTrue DEF PortsInv
<1>4. PortsInv /\ [Next]_vars => [rig = "CanImu" => CanImu!PublishesOfThisStart]_vars
  BY ImuPublishes DEF PortsInv, Next
<1>5. PortsInv /\ [Next]_vars => [rig = "Loop" => Loop!RateIsTrue]_vars
  BY LoopStep DEF PortsInv, Next, StepsRightly
<1> QED
  BY <1>1, <1>2, <1>3, <1>4, <1>5, PortsKeep, PTL DEF Spec, MeasurementsAreTrue

(* A unit that is too hot is heated no longer than a measurement may stay  *)
(* in use and the worker may be late, unless the error of a failed write   *)
(* is reported, and the duty that is reported is what the PWM puts out     *)
(* (ImuHeater::update, failOff).  An effort the bus may send is of the     *)
(* coordinate the motor is in, the velocity asked for grows from rest, and *)
(* no integral grows towards a limit its output is beyond                  *)
(* (PositionMotor::update, control_slew_rate_step, control_pid_step_core). *)
THEOREM TheLoopsAreBounded == Spec => LoopsAreBounded
<1>1. PortsInv => (rig = "Heating" => Heating!HotIsOff /\ Heating!StatusIsTrue)
  BY HeatIsBounded DEF PortsInv
<1>2. PortsInv => (rig = "Loop" => Loop!EffortIsOfItsReference /\ Loop!RampIsFromRest)
  BY LoopIsTrue DEF PortsInv
<1>3. PortsInv /\ [Next]_vars => [rig = "Loop" => Loop!WindsNoFurther]_vars
  BY LoopStep DEF PortsInv, Next, StepsRightly
<1> QED
  BY <1>1, <1>2, <1>3, PortsKeep, PTL DEF Spec, LoopsAreBounded

=============================================================================
