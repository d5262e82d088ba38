---------------------------- MODULE VehicleProofs ----------------------------
(***************************************************************************)
(* Theorems about the rigs of MCVehicle but the shooter: the two boards,   *)
(* the arbiter, the aiming of the head, the axis of the gimbal and the     *)
(* chassis, for all timeouts, bounds and geometries.  Each rig has an      *)
(* inductive invariant of its own; RigSteps puts them together.            *)
(***************************************************************************)
EXTENDS MCVehicle, TLAPS

-----------------------------------------------------------------------------
(* The gimbal board (VehicleBench): v1 is uptime, v2 remote, v3 operator,  *)
(* v4 execution, v5 posted, v6 revoked, v7 comm, v8 publisher, v9 peer,    *)
(* v10 submitted, v11 withdrawn and v12 excess.                            *)

(* What is forwarded is as old as the frame it came from.                  *)
Truthful(target) ==
    target.follow => target.at - target.age = target.source /\ target.age <= target.at

(* Stamps are not of the future, and what is posted is the gate itself.    *)
BoardFits ==
    /\ v1 # 0 /\ v2 <= v1 /\ v7.now <= v1
    /\ v5.gate = v3
    /\ Truthful(v5.target) /\ Truthful(v10.request)

(* A revoked gate is closed, or is about to be by the flag; once a control *)
(* has permitted in spite of it, it is closed and no pass has read it open.*)
BoardRevokes ==
    /\ ~v11 => v12 = 0
    /\ v11 => ~v3.run \/ (v12 = 0 /\ (v6 \/ v7.pc = "Revoke"))
    /\ v12 # 0 => ~v3.run /\ ~(v7.pc = "Publish" /\ v7.gate.run)
    /\ v12 < 2

BoardInv == Board!TypeOK /\ BoardFits /\ BoardRevokes

(* It holds when the board starts.                                         *)
LEMMA BoardStarts == Board!Init => BoardInv
<1> SUFFICES ASSUME Board!Init PROVE BoardInv
  OBVIOUS
<1> USE BoardAssumption DEF Board!Init
<1>1. Board!Gate \in Board!Gates /\ Board!NoTarget \in Board!Targets /\ 0 \in Board!Times /\ 1 \in Board!Times
  BY DEF Board!Gate, Board!Gates, Board!NoTarget, Board!Targets, Board!Times
<1>2. v7 \in [pc : {"Sleep", "Read", "Publish", "Revoke", "Request", "Poll"}, now : Board!Times,
             heard : Board!Times, gate : Board!Gates, revokes : BOOLEAN]
      /\ v5 \in [gate : Board!Gates, target : Board!Targets]
      /\ v10 \in [run : BOOLEAN, request : Board!Targets]
  BY <1>1 DEF Board!Asleep
<1>3. v8 \in [boot : 0 .. MaxPeerBoot, online : BOOLEAN] /\ v9 = v8
  OBVIOUS
<1>4. v1 \in Board!Times /\ v2 \in Board!Times /\ v3 \in Board!Gates /\ v12 \in 0 .. 2
  BY <1>1
<1>5. v4 \in BOOLEAN /\ v6 \in BOOLEAN /\ v11 \in BOOLEAN
  OBVIOUS
<1>6. Board!TypeOK
  BY <1>2, <1>3, <1>4, <1>5 DEF Board!TypeOK
<1>7. BoardFits /\ BoardRevokes
  BY DEF BoardFits, BoardRevokes, Truthful, Board!Asleep, Board!NoTarget, Board!Gate
<1> QED
  BY <1>6, <1>7 DEF BoardInv

(* A cycle of run() leaves the request alone, posts the gate it has        *)
(* decided on, and closes it when the flag was up.                         *)
LEMMA BoardRuns ==
  ASSUME BoardInv, NEW input, NEW pauses \in BOOLEAN, NEW follows \in BOOLEAN,
         Board!Run(input, pauses, follows)
  PROVE  BoardInv'
<1> USE BoardAssumption DEF BoardInv, Board!Run
<1> DEFINE next == [Board!Updated(input) EXCEPT !.run = @ /\ ~v6]
           kept == Board!Centered(next.run, follows)
<1>1. next \in Board!Gates /\ (next.run => ~v6 /\ Board!Fresh(v2, v1))
  BY DEF Board!TypeOK, Board!Updated, Board!Gates, Board!Gate, Board!Times
<1>2. v3' = next /\ v5'.gate = next /\ v5'.target \in {v5.target, kept}
      /\ v5' = [gate |-> v5'.gate, target |-> v5'.target]
      /\ v6' = FALSE /\ v4' \in BOOLEAN
  BY <1>1 DEF Board!TypeOK, Board!Updated, Board!Gates, Board!Gate, Board!Times
<1>3. kept \in Board!Targets /\ Truthful(kept)
  BY <1>1 DEF Board!TypeOK, Board!Centered, Board!Targets, Board!NoTarget, Board!Times, Board!Fresh,
              Truthful, BoardFits
<1>4. v11' \in BOOLEAN /\ v12' \in 0 .. 2
  BY DEF Board!TypeOK
<1>5. Board!TypeOK'
  <2> HIDE DEF next, kept
  <2> QED
    BY <1>1, <1>2, <1>3, <1>4 DEF Board!TypeOK
<1>6. BoardFits'
  BY <1>2, <1>3 DEF BoardFits, Truthful
<1>7. BoardRevokes'
  <2>1. (next.run /\ ~v3.run) \/ (v11' = v11 /\ (next.run => v3.run))
    BY <1>1 DEF Board!TypeOK, Board!Gates
  <2> QED
    BY <1>1, <1>2, <2>1 DEF BoardRevokes, Board!TypeOK, Board!Gates
<1> QED
  BY <1>5, <1>6, <1>7

(* A pass begins, and reads the gate that is posted.                       *)
LEMMA BoardReads ==
  ASSUME BoardInv, Board!BeginPass \/ Board!ReadGate
  PROVE  BoardInv'
<1> USE BoardAssumption DEF BoardInv
<1>1. CASE Board!BeginPass
  <2>1. Board!Gate \in Board!Gates /\ 0 \in Board!Times /\ v7'.pc = "Read" /\ v7'.now = v1
    BY <1>1 DEF Board!Gate, Board!Gates, Board!Times, Board!BeginPass, Board!Asleep
  <2>2. Board!TypeOK'
    BY <1>1, <2>1 DEF Board!BeginPass, Board!TypeOK, Board!Asleep
  <2>3. BoardFits' /\ BoardRevokes'
    BY <1>1, <2>1 DEF Board!BeginPass, Board!TypeOK, BoardFits, BoardRevokes, Truthful, Board!Times
  <2> QED
    BY <2>2, <2>3
<1>2. CASE Board!ReadGate
  <2>1. v7'.pc = "Publish" /\ v7'.gate = v5.gate /\ v7'.now = v7.now
    BY <1>2 DEF Board!ReadGate, Board!TypeOK
  <2>2. Board!TypeOK'
    BY <1>2 DEF Board!ReadGate, Board!TypeOK
  <2>3. BoardFits' /\ BoardRevokes'
    BY <1>2, <2>1 DEF Board!ReadGate, Board!TypeOK, BoardFits, BoardRevokes, Truthful
  <2> QED
    BY <2>2, <2>3
<1> QED
  BY <1>1, <1>2

(* publish() permits only while the flag is down, so after a revocation    *)
(* only a pass that has read the gate before it was closed.                *)
LEMMA BoardPublishes ==
  ASSUME BoardInv, Board!PublishControl
  PROVE  BoardInv'
<1> USE BoardAssumption DEF BoardInv, Board!PublishControl
<1> DEFINE allowed == Board!Allowed(v7.gate)
           permits == /\ allowed /\ ~Board!PeerLost /\ v9.online /\ v9.boot # 0
                      /\ Board!Fresh(v7.gate.at, v7.now)
<1>1. allowed \in BOOLEAN /\ Board!PeerLost \in BOOLEAN /\ (allowed => v7.gate.run /\ ~v6)
  BY DEF Board!Allowed, Board!PeerLost, Board!TypeOK, Board!Gates
<1>2. v7' = [v7 EXCEPT !.pc = IF Board!PeerLost THEN "Revoke" ELSE "Request", !.gate.run = allowed,
                       !.revokes = Board!PeerLost]
      /\ v10' = [v10 EXCEPT !.run = permits] /\ v11' = (v11 \/ Board!PeerLost)
      /\ v12' = IF permits /\ v11' /\ v12 < 2 THEN v12 + 1 ELSE v12
  OBVIOUS
<1>3. Board!TypeOK'
  <2>1. [v7.gate EXCEPT !.run = allowed] \in Board!Gates
    BY <1>1 DEF Board!TypeOK, Board!Gates
  <2>2. v7' = [v7 EXCEPT !.pc = IF Board!PeerLost THEN "Revoke" ELSE "Request",
                         !.gate = [v7.gate EXCEPT !.run = allowed], !.revokes = Board!PeerLost]
    BY <1>2 DEF Board!TypeOK
  <2>3. permits \in BOOLEAN
    BY <1>1 DEF Board!TypeOK
  <2> HIDE DEF allowed, permits
  <2>4. v12' \in 0 .. 2
    BY <1>2 DEF Board!TypeOK
  <2>5. v8' \in [boot : 0 .. MaxPeerBoot, online : BOOLEAN]
    BY DEF Board!TypeOK
  <2>6. v7' \in [pc : {"Sleep", "Read", "Publish", "Revoke", "Request", "Poll"}, now : Board!Times,
                 heard : Board!Times, gate : Board!Gates, revokes : BOOLEAN]
    BY <1>1, <2>1, <2>2 DEF Board!TypeOK
  <2>7. v10' \in [run : BOOLEAN, request : Board!Targets] /\ v11' \in BOOLEAN
    BY <1>1, <1>2, <2>3 DEF Board!TypeOK
  <2> QED
    BY <2>4, <2>5, <2>6, <2>7 DEF Board!TypeOK
<1>4. BoardFits'
  BY <1>1, <1>2 DEF BoardFits, Truthful, Board!TypeOK, Board!Gates, Board!Times
<1>5. BoardRevokes'
  <2> HIDE DEF allowed
  <2>1. v7'.pc = (IF Board!PeerLost THEN "Revoke" ELSE "Request") /\ UNCHANGED <<v3, v6>>
    BY <1>2 DEF Board!TypeOK
  <2>2. CASE Board!PeerLost
    BY <1>2, <2>1, <2>2 DEF BoardRevokes, Board!TypeOK
  <2>3. CASE ~Board!PeerLost
    BY <1>1, <1>2, <2>1, <2>3 DEF BoardRevokes, Board!TypeOK
  <2> QED
    BY <2>2, <2>3
<1> QED
  BY <1>3, <1>4, <1>5

(* The flag is raised.                                                     *)
LEMMA BoardRaises ==
  ASSUME BoardInv, Board!Revoke
  PROVE  BoardInv'
<1> USE BoardAssumption DEF BoardInv, Board!Revoke
<1>1. [v7.gate EXCEPT !.run = FALSE] \in Board!Gates
      /\ v7' = [v7 EXCEPT !.pc = "Request", !.gate = [v7.gate EXCEPT !.run = FALSE]]
  BY DEF Board!TypeOK, Board!Gates
<1>2. Board!TypeOK'
  BY <1>1 DEF Board!TypeOK
<1>3. BoardFits' /\ BoardRevokes'
  BY <1>1 DEF Board!TypeOK, BoardFits, BoardRevokes, Truthful
<1> QED
  BY <1>2, <1>3

(* A request is the target, older by the time it has waited.               *)
LEMMA BoardRequests ==
  ASSUME BoardInv, Board!RequestBigYaw
  PROVE  BoardInv'
<1> USE BoardAssumption DEF BoardInv, Board!RequestBigYaw
<1> DEFINE aged == [v5.target EXCEPT !.at = v7.now, !.age = Board!AgeOf(v5.target)]
<1>1. v10' = [run |-> v10.run, request |-> v10'.request]
      /\ v10'.request \in {v10.request, Board!NoTarget, aged}
      /\ (v10'.request = aged => v10'.request \in {v10.request, Board!NoTarget}
                                 \/ (v5.target.follow /\ Board!ForwardedFresh(v5.target, v7.now)))
  BY DEF Board!TypeOK
<1>2. ASSUME v5.target.follow, Board!ForwardedFresh(v5.target, v7.now)
      PROVE  aged \in Board!Targets /\ Truthful(aged)
  <2>1. v5.target \in Board!Targets /\ v7.now \in Board!Times
    BY DEF Board!TypeOK
  <2>2. aged.at = v7.now /\ aged.age = v5.target.age + (v7.now - v5.target.at)
        /\ aged.source = v5.target.source /\ aged.follow = v5.target.follow
    BY <2>1 DEF Board!AgeOf, Board!Targets
  <2>3. v5.target.at <= v7.now /\ v5.target.age <= v5.target.at
        /\ v5.target.at - v5.target.age = v5.target.source
    BY <1>2, <2>1 DEF Board!ForwardedFresh, Board!Fresh, BoardFits, Truthful
  <2>4. aged.age \in Board!Times
    BY <2>1, <2>2, <2>3 DEF Board!Targets, Board!Times
  <2>5. aged \in Board!Targets
    BY <2>1, <2>4 DEF Board!Targets
  <2>6. aged.at - aged.age = aged.source /\ aged.age <= aged.at
    BY <2>1, <2>2, <2>3 DEF Board!Targets, Board!Times
  <2> QED
    BY <2>5, <2>6 DEF Truthful
<1>3. v10'.request \in Board!Targets /\ Truthful(v10'.request)
  <2>1. Board!NoTarget \in Board!Targets /\ Truthful(Board!NoTarget)
    BY DEF Board!NoTarget, Board!Targets, Board!Times, Truthful
  <2> HIDE DEF aged
  <2> QED
    BY <1>1, <1>2, <2>1 DEF Board!TypeOK, BoardFits
<1>4. v7' = [v7 EXCEPT !.pc = "Poll"]
  OBVIOUS
<1> QED
  BY <1>1, <1>3, <1>4 DEF Board!TypeOK, BoardFits, BoardRevokes, Truthful, Board!Times

(* endpoint.poll() ends the pass.                                          *)
LEMMA BoardPolls ==
  ASSUME BoardInv, Board!Poll
  PROVE  BoardInv'
<1> USE BoardAssumption DEF BoardInv, Board!Poll
<1>1. v9' \in [boot : 0 .. MaxPeerBoot, online : BOOLEAN]
  BY DEF Board!TypeOK
<1> QED
  BY <1>1 DEF Board!TypeOK, BoardFits, BoardRevokes, Truthful, Board!Asleep, Board!Gate, Board!Gates, Board!Times

(* Every step of the board keeps the invariant.                            *)
LEMMA BoardSteps == BoardInv /\ [Board!Next]_Board!bench => BoardInv'
<1> SUFFICES ASSUME BoardInv, [Board!Next]_Board!bench PROVE BoardInv'
  OBVIOUS
<1>1. CASE Board!Hear \/ Board!Tick
  BY <1>1, BoardAssumption
  DEF Board!Hear, Board!Tick, BoardInv, Board!TypeOK, BoardFits, BoardRevokes, Truthful, Board!Times
<1>2. CASE UNCHANGED Board!bench
  BY <1>2 DEF Board!bench, BoardInv, Board!TypeOK, BoardFits, BoardRevokes, Truthful
<1> QED
  BY <1>1, <1>2, BoardRuns, BoardReads, BoardPublishes, BoardRaises, BoardRequests, BoardPolls DEF Board!Next

-----------------------------------------------------------------------------
(* The chassis board (ChassisBoard): v1 is build, v2 peer, v3 link, v4     *)
(* snap, v5 exercise, v6 cached, v7 known and v8 drive.                    *)

(* An order of a boot that is over has aged since the boot was.            *)
Aging(order) == order.boot # v2.boot => order.age >= v2.since \/ order.age > CommandTimeout

(* A kept order of another boot than the link's is too old to be obeyed    *)
(* while the snapshot permits to run, which took the operator neutral_arm. *)
SecondOrders ==
    /\ v3.boot <= v2.boot
    /\ Aging(v3) /\ Aging(v6)
    /\ v4.run /\ v1.pauses # "Console" =>
          /\ v3.boot = v2.boot => v2.since = Arm
          /\ v6.boot # v3.boot => v6.age > CommandTimeout

(* What moves was asked for by the boot that is known, not longer ago than *)
(* its effort allows.                                                      *)
SecondMoves ==
    v8.effort <= EffortTimeout =>
        /\ v8.asked <= CommandTimeout + Latency + v8.effort
        /\ v8.boot = v7

SecondInv == Second!TypeOK /\ SecondOrders /\ SecondMoves

(* It holds when the board starts.                                         *)
LEMMA SecondStarts == Second!Init => SecondInv
<1> SUFFICES ASSUME Second!Init PROVE SecondInv
  OBVIOUS
<1> USE BoardAssumption, SecondAssumption DEF Second!Init
<1>1. Second!TypeOK
  BY DEF Second!TypeOK, Second!Nothing, Second!Orders, Second!Still, Second!Old, Second!Expired, Second!Longest
<1>2. SecondOrders /\ SecondMoves
  BY DEF SecondOrders, SecondMoves, Aging, Second!Nothing, Second!Still, Second!Old
<1> QED
  BY <1>1, <1>2 DEF SecondInv

(* What is heard is of the boot the link knows.                            *)
LEMMA SecondHears ==
  ASSUME SecondInv, NEW order \in Second!Heard
  PROVE  order \in Second!Orders /\ order.boot = v3.boot
  BY DEF Second!Heard

(* The communication thread.                                               *)
LEMMA SecondPolls ==
  ASSUME SecondInv, Second!Poll
  PROVE  SecondInv'
<1> USE BoardAssumption, SecondAssumption DEF SecondInv, Second!Poll
<1>1. Second!Nothing \in Second!Orders /\ Second!Nothing.age > CommandTimeout
  BY DEF Second!Nothing, Second!Orders, Second!Old, Second!Expired
<1>2. v3' \in Second!Orders
      /\ \/ v3'.age > CommandTimeout
         \/ v3' = v3
         \/ v3.boot = v2.boot /\ v3'.boot = v3.boot
  <2>1. CASE ~v4'.online /\ v3' = [Second!Nothing EXCEPT !.boot = v3.boot]
    BY <1>1, <2>1 DEF Second!TypeOK, Second!Orders
  <2>2. CASE v4'.online /\ v3.boot = v2.boot /\ v3' \in Second!Heard
    BY <2>2, SecondHears
  <2>3. CASE v3' = v3
    BY <2>3 DEF Second!TypeOK
  <2>4. CASE v3' = [Second!Nothing EXCEPT !.boot = v2.boot]
    BY <1>1, <2>4 DEF Second!TypeOK, Second!Orders
  <2> QED
    BY <2>1, <2>2, <2>3, <2>4
<1>3. Second!TypeOK'
  BY <1>2 DEF Second!TypeOK
<1>4. SecondOrders'
  <2>1. /\ v3.boot \in Nat /\ v3.age \in Nat /\ v3'.boot \in Nat /\ v3'.age \in Nat
        /\ v6.boot \in Nat /\ v6.age \in Nat /\ v2.boot \in Nat /\ v2.since \in Nat
    BY <1>2 DEF Second!TypeOK, Second!Orders, Second!Old
  <2>2. v3'.boot <= v2.boot
    <3>1. v3'.boot = v3.boot \/ v3'.boot = v2.boot
      BY <1>1, SecondHears DEF Second!TypeOK, Second!Orders, Second!Nothing
    <3> QED
      BY <2>1, <3>1 DEF SecondOrders
  <2>3. Aging(v3)' /\ Aging(v6)'
    BY <1>2, <2>1 DEF Aging, SecondOrders
  <2>4. v4'.run /\ v1.pauses # "Console" => v3'.boot = v2.boot /\ v2.since = Arm
    BY DEF Second!TypeOK
  <2> QED
    BY <2>1, <2>2, <2>3, <2>4 DEF SecondOrders, Aging
<1>5. SecondMoves'
  BY DEF SecondMoves
<1> QED
  BY <1>3, <1>4, <1>5

(* A new boot begins with nothing permitted.                               *)
LEMMA SecondReboots ==
  ASSUME SecondInv, Second!Reboot
  PROVE  SecondInv'
<1> USE BoardAssumption, SecondAssumption DEF SecondInv, Second!Reboot
<1>1. Second!TypeOK'
  BY DEF Second!TypeOK
<1>2. v3 \in Second!Orders /\ v6 \in Second!Orders /\ v2.since \in Nat /\ v2.boot \in Nat
      /\ v2'.boot = v2.boot + 1 /\ v2'.since = 0
  BY DEF Second!TypeOK
<1>3. v3.age \in Nat /\ v6.age \in Nat
  BY <1>2 DEF Second!Orders, Second!Old
<1>4. Aging(v3)' /\ Aging(v6)'
  BY <1>2, <1>3 DEF Aging
<1>5. v4.run /\ v1.pauses # "Console" /\ v6.boot # v3.boot => v6.age > CommandTimeout
  BY DEF SecondOrders
<1>6. v3.boot \in Nat /\ v3.boot <= v2.boot
  BY <1>2 DEF Second!Orders, SecondOrders
<1>7. SecondOrders'
  BY <1>2, <1>4, <1>5, <1>6 DEF SecondOrders
<1>8. SecondMoves'
  BY DEF SecondMoves
<1> QED
  BY <1>1, <1>7, <1>8

(* A cycle carries out an order of the boot it knows, or none.             *)
LEMMA SecondRuns ==
  ASSUME SecondInv, Second!Run
  PROVE  SecondInv'
<1> USE BoardAssumption, SecondAssumption DEF SecondInv
<1> PICK stops \in BOOLEAN, timely \in BOOLEAN, now \in Second!Exercises :
      /\ v5' = now /\ v6' = Second!Order(now)
      /\ \/ UNCHANGED <<v7, v8>>
         \/ /\ v7' = v3.boot
            /\ v8' = IF Second!Moves(Second!Order(now), stops, now)
                     THEN Second!Driven(IF v3.boot = v7 THEN v8 ELSE Second!Still, Second!Order(now), timely)
                     ELSE Second!Still
      /\ UNCHANGED <<v1, v2, v3, v4>>
  BY DEF Second!Run
<1> DEFINE order == Second!Order(now)
<1>1. now \in {"Ready", "Tracking", "Input", "Execution", "Done"}
  BY DEF Second!Exercises, Second!TypeOK
<1>2. /\ order \in Second!Orders
      /\ \/ order.boot = v3.boot /\ (order.age = v3.age \/ order.age > CommandTimeout)
         \/ order.boot = v6.boot /\ order.age = v6.age /\ now = "Input"
  <2>1. v3 \in Second!Orders /\ v6 \in Second!Orders
    BY DEF Second!TypeOK
  <2>2. Second!Snapshot \in Second!Orders /\ Second!Snapshot.boot = v3.boot
        /\ (Second!Snapshot.age = v3.age \/ Second!Snapshot.age > CommandTimeout)
    <3>1. [v3 EXCEPT !.age = Second!Old, !.way = 0] \in Second!Orders /\ Second!Old > CommandTimeout
      <4>1. Second!Old \in 0 .. Second!Old /\ 0 \in 0 .. Latency /\ Second!Old > CommandTimeout
        BY DEF Second!Old
      <4> QED
        BY <2>1, <4>1 DEF Second!Orders
    <3> QED
      BY <2>1, <3>1 DEF Second!Snapshot, Second!Orders
  <2>3. ASSUME NEW p \in 0 .. Second!Expired
        PROVE  [v6 EXCEPT !.permit = p] \in Second!Orders /\ [v6 EXCEPT !.permit = p].boot = v6.boot
               /\ [v6 EXCEPT !.permit = p].age = v6.age
    BY <2>1 DEF Second!Orders
  <2>4. v3.permit \in 0 .. Second!Expired
    BY <2>1 DEF Second!Orders
  <2> QED
    BY <2>1, <2>2, <2>3, <2>4 DEF Second!Order
<1> HIDE DEF order
<1>3. Second!Moves(order, stops, now) =>
          order.boot = v3.boot /\ order.age <= CommandTimeout
  BY <1>2 DEF Second!Moves, Second!Current, SecondOrders, Second!TypeOK, Second!Orders
<1>4. ASSUME NEW motor \in [wanted : BOOLEAN, active : BOOLEAN, effort : 0 .. EffortTimeout + 1,
                  boot : 0 .. MaxBoots, asked : 0 .. Second!Longest + 1],
             order.age <= CommandTimeout
      PROVE  LET d == Second!Driven(motor, order, timely)
             IN  /\ d \in [wanted : BOOLEAN, active : BOOLEAN, effort : 0 .. EffortTimeout + 1,
                            boot : 0 .. MaxBoots, asked : 0 .. Second!Longest + 1]
                 /\ d.effort <= EffortTimeout =>
                       d.asked <= CommandTimeout + Latency /\ d.effort = 0 /\ d.boot = order.boot
  <2>1. order.age \in Nat /\ order.way \in 0 .. Latency /\ order.boot \in 0 .. MaxBoots
        /\ Second!Longest = CommandTimeout + Latency + EffortTimeout
    BY <1>2 DEF Second!Orders, Second!Longest
  <2>2. CASE motor.active /\ timely
    <3>1. Second!Driven(motor, order, timely) =
            [motor EXCEPT !.effort = 0, !.boot = order.boot, !.asked = order.age + order.way]
      BY <2>2 DEF Second!Driven
    <3>2. order.age + order.way \in 0 .. Second!Longest + 1 /\ order.age + order.way <= CommandTimeout + Latency
      BY <1>4, <2>1
    <3>3. 0 \in 0 .. EffortTimeout + 1
      OBVIOUS
    <3>4. Second!Driven(motor, order, timely) \in
            [wanted : BOOLEAN, active : BOOLEAN, effort : 0 .. EffortTimeout + 1,
             boot : 0 .. MaxBoots, asked : 0 .. Second!Longest + 1]
      BY <2>1, <3>1, <3>2, <3>3
    <3> QED
      BY <3>1, <3>2, <3>4
  <2>3. CASE ~(motor.active /\ timely)
    <3>1. Second!Driven(motor, order, timely) =
            [wanted |-> TRUE, active |-> motor.active, effort |-> EffortTimeout + 1, boot |-> 0, asked |-> 0]
      BY <2>3 DEF Second!Driven, Second!Still
    <3>2. EffortTimeout + 1 \in 0 .. EffortTimeout + 1 /\ ~(EffortTimeout + 1 <= EffortTimeout)
          /\ 0 \in 0 .. Second!Longest + 1 /\ 0 \in 0 .. MaxBoots
      BY <2>1
    <3> QED
      BY <3>1, <3>2
  <2> QED
    BY <2>2, <2>3
<1>5. Second!Still \in [wanted : BOOLEAN, active : BOOLEAN, effort : 0 .. EffortTimeout + 1,
                  boot : 0 .. MaxBoots, asked : 0 .. Second!Longest + 1]
      /\ ~(Second!Still.effort <= EffortTimeout)
  BY DEF Second!Still, Second!Longest
<1>6. v8' \in [wanted : BOOLEAN, active : BOOLEAN, effort : 0 .. EffortTimeout + 1,
                  boot : 0 .. MaxBoots, asked : 0 .. Second!Longest + 1]
      /\ SecondMoves'
  BY <1>3, <1>4, <1>5 DEF Second!TypeOK, SecondMoves, order
<1>7. Second!TypeOK'
  BY <1>1, <1>2, <1>6 DEF Second!TypeOK, Second!Orders, order
<1>8. SecondOrders'
  BY <1>2 DEF SecondOrders, Aging, Second!TypeOK, Second!Orders, order
<1> QED
  BY <1>6, <1>7, <1>8

(* A millisecond ages every order and every effort alike.                  *)
LEMMA SecondTicks ==
  ASSUME SecondInv, Second!Tick
  PROVE  SecondInv'
<1> USE BoardAssumption, SecondAssumption DEF SecondInv, Second!Tick
<1>1. ASSUME NEW order \in Second!Orders
      PROVE  LET aged == Second!Aged(order)
             IN  /\ aged \in Second!Orders /\ aged.boot = order.boot /\ aged.age \in Nat
                 /\ aged.age = IF order.age <= CommandTimeout THEN order.age + 1 ELSE CommandTimeout + 1
  <2>1. order.age \in 0 .. CommandTimeout + 1 /\ order.permit \in 0 .. PermissionTimeout + 1
    BY DEF Second!Orders, Second!Old, Second!Expired
  <2>2. Second!Aged(order) = [order EXCEPT !.age = Second!Later(order.age, CommandTimeout + 1),
                                           !.permit = Second!Later(order.permit, PermissionTimeout + 1)]
    BY DEF Second!Aged, Second!Orders, Second!Old, Second!Expired
  <2>3. Second!Later(order.age, CommandTimeout + 1) =
           IF order.age <= CommandTimeout THEN order.age + 1 ELSE CommandTimeout + 1
    BY <2>1 DEF Second!Later
  <2>4. Second!Later(order.permit, PermissionTimeout + 1) \in 0 .. PermissionTimeout + 1
    BY <2>1 DEF Second!Later
  <2>5. Second!Later(order.age, CommandTimeout + 1) \in 0 .. CommandTimeout + 1
    BY <2>1 DEF Second!Later
  <2>6. Second!Aged(order) \in Second!Orders
    BY <2>2, <2>4, <2>5 DEF Second!Orders, Second!Old, Second!Expired
  <2>7. Second!Aged(order).boot = order.boot
        /\ Second!Aged(order).age = Second!Later(order.age, CommandTimeout + 1)
    BY <2>2 DEF Second!Orders
  <2> QED
    BY <2>3, <2>5, <2>6, <2>7
<1>2. v2' \in [boot : 1 .. MaxBoots, since : 0 .. Arm] /\ v2'.boot = v2.boot
      /\ v2'.since = IF v2.since < Arm THEN v2.since + 1 ELSE Arm
  BY DEF Second!TypeOK, Second!Later
<1>3. v8' \in [wanted : BOOLEAN, active : BOOLEAN, effort : 0 .. EffortTimeout + 1,
                  boot : 0 .. MaxBoots, asked : 0 .. Second!Longest + 1]
      /\ SecondMoves'
  <2>1. v8 \in [wanted : BOOLEAN, active : BOOLEAN, effort : 0 .. EffortTimeout + 1,
                boot : 0 .. MaxBoots, asked : 0 .. Second!Longest + 1]
        /\ Second!Longest = CommandTimeout + Latency + EffortTimeout
    BY DEF Second!TypeOK, Second!Longest
  <2>2. CASE v8.effort < EffortTimeout
    <3>1. v8' = [v8 EXCEPT !.effort = v8.effort + 1, !.asked = Second!Later(v8.asked, Second!Longest + 1)]
      BY <2>1, <2>2
    <3>2. Second!Later(v8.asked, Second!Longest + 1) \in 0 .. Second!Longest + 1
          /\ Second!Later(v8.asked, Second!Longest + 1) <= v8.asked + 1
      BY <2>1 DEF Second!Later
    <3>3. v8'.effort = v8.effort + 1 /\ v8'.asked <= v8.asked + 1 /\ v8'.boot = v8.boot
      BY <2>1, <3>1, <3>2
    <3>4. SecondMoves'
      BY <2>1, <2>2, <3>2, <3>3 DEF SecondMoves
    <3>5. v8.effort + 1 \in 0 .. EffortTimeout + 1
      BY <2>1, <2>2
    <3> QED
      BY <2>1, <3>1, <3>2, <3>4, <3>5
  <2>3. CASE ~(v8.effort < EffortTimeout)
    <3>1. v8' = [wanted |-> v8.wanted, active |-> v8.active, effort |-> EffortTimeout + 1, boot |-> 0, asked |-> 0]
      BY <2>1, <2>3 DEF Second!Still
    <3>2. EffortTimeout + 1 \in 0 .. EffortTimeout + 1 /\ ~(EffortTimeout + 1 <= EffortTimeout)
          /\ 0 \in 0 .. Second!Longest + 1 /\ 0 \in 0 .. MaxBoots
      BY <2>1
    <3>3. v8'.effort = EffortTimeout + 1
      <4> HIDE DEF Second!Tick
      <4> QED
        BY <3>1
    <3>4. SecondMoves'
      BY <3>2, <3>3 DEF SecondMoves
    <3>5. v8.wanted \in BOOLEAN /\ v8.active \in BOOLEAN
      BY <2>1
    <3> HIDE DEF Second!Tick
    <3> QED
      BY <3>1, <3>2, <3>4, <3>5
  <2> QED
    BY <2>2, <2>3
<1>4. v3' = Second!Aged(v3) /\ v6' = Second!Aged(v6) /\ v3 \in Second!Orders /\ v6 \in Second!Orders
  BY DEF Second!TypeOK
<1>5. Second!TypeOK'
  BY <1>1, <1>2, <1>3, <1>4 DEF Second!TypeOK
<1>6. SecondOrders'
  <2>1. v3.age \in Nat /\ v6.age \in Nat /\ v2.since \in Nat
    BY <1>4 DEF Second!TypeOK, Second!Orders, Second!Old
  <2> QED
    BY <1>1, <1>2, <1>4, <2>1 DEF SecondOrders, Aging
<1> QED
  BY <1>3, <1>5, <1>6

-----------------------------------------------------------------------------
(* The aiming of the head (HeadAim): v1 is head, v2 goal, v3 since, v4     *)
(* aim, v5 follow, v6 released and v7 ramp.                                *)

Circle == 2 * HalfTurn + 1

(* The circle has a positive length.                                       *)
LEMMA CircleTurns == Circle \in Nat \ {0}
  BY HeadAssumption DEF Circle

(* Wrapping takes whole turns off an angle and leaves a yaw.               *)
LEMMA WrapTurns ==
  ASSUME NEW a \in Int
  PROVE  Head!Wrap(a) \in Head!Yaws /\ \E q \in Int : a = Head!Wrap(a) + Circle * q
<1> DEFINE q == (a + HalfTurn) \div Circle
           r == (a + HalfTurn) % Circle
<1> USE HeadAssumption
<1>1. a + HalfTurn \in Int /\ Circle \in Nat \ {0}
  BY CircleTurns
<1>2. q \in Int /\ r \in 0 .. Circle - 1 /\ a + HalfTurn = Circle * q + r
  <2>1. ASSUME NEW n \in Nat \ {0}, NEW x \in Int
        PROVE  x \div n \in Int /\ x % n \in 0 .. n - 1
    OBVIOUS
  <2>2. ASSUME NEW n \in Nat \ {0}, NEW x \in Int
        PROVE  x = n * (x \div n) + (x % n)
    OBVIOUS
  <2> QED
    BY <1>1, <2>1, <2>2
<1>3. Head!Wrap(a) = r - HalfTurn
  BY DEF Head!Wrap, Circle
<1> HIDE DEF q, r
<1>4. r - HalfTurn \in Head!Yaws
  BY <1>2 DEF Head!Yaws, Circle
<1>5. Circle * q \in Int
  BY <1>1, <1>2
<1>6. a = (r - HalfTurn) + Circle * q
  BY <1>2, <1>5
<1> QED
  BY <1>2, <1>3, <1>4, <1>6

(* A yaw that was turned by whole turns is found again.                    *)
LEMMA WrapFinds ==
  ASSUME NEW a \in Head!Yaws, NEW q \in Int
  PROVE  Head!Wrap(a + Circle * q) = a
<1> USE HeadAssumption
<1> DEFINE r == a + HalfTurn
           n == Circle
<1>1. r \in 0 .. n - 1 /\ n \in Nat \ {0}
  BY CircleTurns DEF Head!Yaws, Circle
<1>2. ASSUME NEW m \in Nat \ {0}, NEW s \in 0 .. m - 1
      PROVE  (s + m * q) % m = s
  OBVIOUS
<1>3. (r + n * q) % n = r
  BY <1>1, <1>2
<1>4. n * q \in Int /\ a + n * q + HalfTurn = r + n * q
  BY <1>1 DEF Head!Yaws
<1>5. Head!Wrap(a + n * q) = ((r + n * q) % n) - HalfTurn
  BY <1>4 DEF Head!Wrap, Circle
<1> QED
  BY <1>3, <1>5 DEF Head!Yaws

(* Turned by d, a yaw is not further from where it was than d.             *)
LEMMA TurnIsBounded ==
  ASSUME NEW y \in Head!Yaws, NEW d \in Int
  PROVE  Head!Abs(Head!Wrap(Head!Wrap(y + d) - y)) <= Head!Abs(d)
<1> USE HeadAssumption
<1>1. y \in Int /\ y + d \in Int
  BY DEF Head!Yaws
<1>2. PICK q \in Int : y + d = Head!Wrap(y + d) + Circle * q
  BY <1>1, WrapTurns
<1>3. Head!Wrap(y + d) \in Int
  BY <1>1, WrapTurns DEF Head!Yaws
<1>4. Circle * q \in Int /\ -q \in Int /\ Circle * (-q) = -(Circle * q)
  BY CircleTurns
<1>5. Head!Wrap(y + d) - y = d + Circle * (-q)
  BY <1>1, <1>2, <1>3, <1>4
<1>6. CASE d \in Head!Yaws
  <2>1. Head!Wrap(Head!Wrap(y + d) - y) = d
    BY <1>4, <1>5, <1>6, WrapFinds
  <2> QED
    BY <2>1 DEF Head!Abs
<1>7. CASE d \notin Head!Yaws
  <2>1. Head!Wrap(Head!Wrap(y + d) - y) \in Head!Yaws
    BY <1>1, <1>3, WrapTurns
  <2> QED
    BY <1>7, <2>1 DEF Head!Yaws, Head!Abs
<1> QED
  BY <1>6, <1>7

Goals == [prepared : BOOLEAN, live : BOOLEAN, reference : 0 .. MaxEpochs, at : Head!Yaws,
          of : 0 .. MaxEpochs, source : Head!Sources \cup {"None"},
          mode : {"Disabled", "Hold", "Rate", "AbsoluteAngle"}]
Follows == [rate : -MaxFollow .. MaxFollow, following : BOOLEAN, enabled : BOOLEAN]
Aims == [valid : BOOLEAN, error : Head!Yaws]

(* A goal is of the frame it is kept for, and none is kept once the head   *)
(* is let go.                                                              *)
HeadFits ==
    /\ v2.live => v2.of = v2.reference
    /\ v6 => ~v2.live
    /\ Head!FollowStartsAtRest

HeadInv == Head!TypeOK /\ HeadFits

(* No goal, and no aim.                                                    *)
LEMMA NoGoalIsHeld ==
  /\ Head!NoGoal \in Goals /\ ~Head!NoGoal.live
  /\ Head!NoAim \in Aims /\ ~Head!NoAim.valid
<1>1. 0 \in 0 .. MaxEpochs /\ 0 \in Head!Yaws
  BY HeadAssumption DEF Head!Yaws
<1> QED
  BY <1>1 DEF Head!NoGoal, Head!NoAim, Goals, Aims

(* It holds when the board starts.                                         *)
LEMMA HeadStarts == Head!Init => HeadInv
<1> SUFFICES ASSUME Head!Init PROVE HeadInv
  OBVIOUS
<1> USE HeadAssumption DEF Head!Init
<1>1. 1 \in 1 .. MaxEpochs /\ MaxCycle + 1 \in 0 .. MaxCycle + 1 /\ 0 \in -MaxFollow .. MaxFollow
      /\ 0 \in 0 .. MaxFollow
  OBVIOUS
<1>2. v1 \in [yaw : Head!Yaws, epoch : 1 .. MaxEpochs] /\ v5 \in Follows
  BY <1>1 DEF Follows
<1>3. v2 \in Goals /\ ~v2.live /\ v4 \in Aims
  BY NoGoalIsHeld
<1>4. v6 \in BOOLEAN
  OBVIOUS
<1>5. Head!TypeOK
  BY <1>1, <1>2, <1>3, <1>4 DEF Head!TypeOK, Goals, Aims, Follows
<1>6. HeadFits
  BY <1>3 DEF HeadFits, Head!FollowStartsAtRest, Head!Abs
<1> QED
  BY <1>5, <1>6 DEF HeadInv

(* The big yaw is accelerated from rest.                                   *)
LEMMA HeadCentres ==
  ASSUME HeadInv, NEW valid, NEW interval, Head!Centre(valid, interval)
  PROVE  v5' \in Follows /\ v7' \in 0 .. MaxFollow /\ Head!FollowStartsAtRest'
<1> USE HeadAssumption
<1>1. v5.rate \in -MaxFollow .. MaxFollow /\ v7 \in 0 .. MaxFollow /\ Head!Abs(v5.rate) <= v7
  BY DEF HeadInv, Head!TypeOK, HeadFits, Head!FollowStartsAtRest
<1>2. CASE \E offset \in Head!Yaws : v5' = Head!Followed(offset) /\ v7' = Head!Least(v7 + Acceleration, MaxFollow)
  <2>1. PICK offset \in Head!Yaws : v5' = Head!Followed(offset)
    BY <1>2
  <2> DEFINE target == IF Head!IsFollowing(offset) THEN Head!Within(offset, -MaxFollow, MaxFollow) ELSE 0
             rate   == v5.rate + Head!Within(target - v5.rate, -Acceleration, Acceleration)
  <2>2. target \in -MaxFollow .. MaxFollow
    BY DEF Head!Yaws, Head!Within
  <2>3. Head!IsFollowing(offset) \in BOOLEAN
    <3>1. Head!Abs(offset) \in Int
      BY DEF Head!Abs, Head!Yaws
    <3>2. (Head!Abs(offset) > CentreBand) \in BOOLEAN /\ (Head!Abs(offset) >= CentreBand + Hysteresis) \in BOOLEAN
      BY <3>1
    <3>3. CASE v5.following
      BY <3>2, <3>3, Zenon DEF Head!IsFollowing
    <3>4. CASE ~v5.following
      BY <3>2, <3>4, Zenon DEF Head!IsFollowing
    <3> QED
      BY <3>3, <3>4
  <2>4. v5' = [rate |-> rate, following |-> Head!IsFollowing(offset), enabled |-> TRUE]
    BY <2>1 DEF Head!Followed
  <2> HIDE DEF target
  <2>5. rate \in -MaxFollow .. MaxFollow /\ Head!Abs(rate) <= Head!Least(v7 + Acceleration, MaxFollow)
        /\ Head!Least(v7 + Acceleration, MaxFollow) \in 0 .. MaxFollow
    BY <1>1, <2>2 DEF Head!Within, Head!Abs, Head!Least
  <2> HIDE DEF rate
  <2>6. v5' \in Follows /\ v5'.rate = rate
    BY <2>3, <2>4, <2>5 DEF Follows
  <2> QED
    BY <1>2, <2>5, <2>6 DEF Head!FollowStartsAtRest
<1>3. CASE v5' = Head!Revoked /\ v7' = 0
  <2>1. 0 \in -MaxFollow .. MaxFollow /\ 0 \in 0 .. MaxFollow
    OBVIOUS
  <2>2. v5' \in Follows /\ v5'.rate = 0
    BY <1>3, <2>1 DEF Head!Revoked, Follows
  <2> QED
    BY <1>3, <2>1, <2>2 DEF Head!FollowStartsAtRest, Head!Abs
<1> QED
  BY <1>2, <1>3 DEF Head!Centre

(* What update() starts from is a goal in the frame of the unit.           *)
LEMMA HeadHolds ==
  ASSUME HeadInv, NEW source \in Head!Sources, NEW mode \in {"Hold", "Rate", "AbsoluteAngle"}
  PROVE  LET g == Head!Held(source, mode)
         IN  /\ g \in Goals /\ g.live /\ g.prepared /\ g.of = v1.epoch /\ g.reference = v1.epoch
             /\ g.mode = mode
             /\ v6 => g.at = v1.yaw
<1> DEFINE begun == [prepared |-> TRUE, live |-> TRUE, reference |-> v1.epoch, at |-> v1.yaw, of |-> v1.epoch,
                     source |-> source, mode |-> mode]
<1>1. v1.yaw \in Head!Yaws /\ v1.epoch \in 0 .. MaxEpochs /\ v2 \in Goals /\ (v2.live => v2.prepared)
  BY HeadAssumption DEF HeadInv, Head!TypeOK, Goals
<1>2. CASE Head!Continues(v2, source, mode)
  BY <1>1, <1>2 DEF Head!Held, Head!Continues, HeadInv, HeadFits
<1>3. CASE ~Head!Continues(v2, source, mode)
  <2>1. begun \in Goals
    BY <1>1 DEF Goals
  <2> QED
    BY <1>3, <2>1 DEF Head!Held
<1> QED
  BY <1>2, <1>3

(* update() of an enabled command: the error is measured in the frame the  *)
(* goal is of, and a head that was let go is aimed from where it is.       *)
LEMMA HeadIsAimed ==
  ASSUME HeadInv, NEW command \in Head!Commands, NEW interval \in {1, MaxCycle + 1}, NEW joint \in BOOLEAN,
         Head!ReferenceMatches(command), Head!Aim(command, interval, joint)
  PROVE  /\ v2' \in Goals /\ v2'.live /\ v2'.prepared /\ v2'.of = v1.epoch /\ v2'.of = v2'.reference
         /\ v3' = 0 /\ v4' \in Aims /\ ~v6'
         /\ v6 /\ v2'.mode # "AbsoluteAngle" => Head!Abs(Head!Wrap(v2'.at - v1.yaw)) <= MaxTurn * MaxCycle
<1> USE HeadAssumption
<1> DEFINE g == Head!Held(command.source, command.mode)
           cycle == Head!Aged(interval) <= MaxCycle
           dt == IF cycle THEN Head!Aged(interval) ELSE 0
           turn == Head!Within(command.rate, -MaxTurn, MaxTurn)
<1>1. /\ command.source \in Head!Sources /\ command.mode \in {"Hold", "Rate", "AbsoluteAngle"}
      /\ command.mode = "AbsoluteAngle" =>
            command.target \in Head!Yaws /\ command.epoch = v1.epoch
      /\ command.mode = "Rate" => command.rate \in Int
  BY DEF Head!Commands, Head!Sources, Head!ReferenceMatches
<1>2. v1.yaw \in Head!Yaws /\ v1.yaw \in Int /\ v1.epoch \in 0 .. MaxEpochs /\ v3 \in 0 .. MaxCycle + 1
  BY DEF HeadInv, Head!TypeOK, Head!Yaws
<1>3. /\ g \in Goals /\ g.live /\ g.prepared /\ g.of = v1.epoch /\ g.reference = v1.epoch
      /\ g.mode = command.mode
      /\ v6 => g.at = v1.yaw
  BY <1>1, HeadHolds
<1>4. dt \in 0 .. MaxCycle
  BY <1>2 DEF Head!Aged, Head!Least
<1>5. v2' = Head!Aimed(command, dt) /\ v3' = 0 /\ ~v6'
      /\ v4' = [valid |-> joint /\ cycle, error |-> Head!Wrap(v2'.at - v1.yaw)]
  BY DEF Head!Aim
<1> HIDE DEF g, dt
<1>6. g.at \in Int
  BY <1>3 DEF Goals, Head!Yaws
<1>7. ASSUME command.mode = "Rate"
      PROVE  turn * dt \in Int /\ Head!Abs(turn * dt) <= MaxTurn * MaxCycle
  <2>1. turn \in -MaxTurn .. MaxTurn
    BY <1>1, <1>7 DEF Head!Within
  <2> HIDE DEF turn
  <2>2. turn * dt <= MaxTurn * dt /\ -(MaxTurn * dt) <= turn * dt /\ turn * dt \in Int
    BY <1>4, <2>1
  <2>3. MaxTurn * dt <= MaxTurn * MaxCycle /\ MaxTurn * dt \in Nat /\ MaxTurn * MaxCycle \in Nat
    BY <1>4
  <2> QED
    BY <2>2, <2>3 DEF Head!Abs
<1>8. /\ v2' \in Goals /\ v2'.live /\ v2'.prepared /\ v2'.of = v1.epoch /\ v2'.reference = v1.epoch
      /\ v2'.mode = command.mode
  <2>1. CASE command.mode = "AbsoluteAngle"
    <3>1. v2' = [g EXCEPT !.at = command.target, !.of = command.epoch]
      BY <1>3, <1>5, <2>1 DEF Head!Aimed, g
    <3> QED
      BY <1>1, <1>2, <1>3, <2>1, <3>1 DEF Goals
  <2>2. CASE command.mode = "Rate"
    <3>1. v2' = [g EXCEPT !.at = Head!Wrap(g.at + turn * dt)]
      BY <1>3, <1>5, <2>2 DEF Head!Aimed, g, Goals
    <3>2. Head!Wrap(g.at + turn * dt) \in Head!Yaws
      BY <1>6, <1>7, <2>2, WrapTurns
    <3> QED
      BY <1>2, <1>3, <3>1, <3>2 DEF Goals
  <2>3. CASE command.mode = "Hold"
    BY <1>3, <1>5, <2>3 DEF Head!Aimed, g
  <2> QED
    BY <1>1, <2>1, <2>2, <2>3
<1>9. v4' \in Aims
  <2>1. v2'.at - v1.yaw \in Int /\ cycle \in BOOLEAN
    BY <1>2, <1>8 DEF Goals, Head!Yaws
  <2>2. Head!Wrap(v2'.at - v1.yaw) \in Head!Yaws /\ (joint /\ cycle) \in BOOLEAN
    BY <2>1, WrapTurns
  <2> HIDE DEF cycle
  <2> QED
    BY <1>5, <2>2 DEF Aims
<1>10. ASSUME v6, command.mode # "AbsoluteAngle"
       PROVE  Head!Abs(Head!Wrap(v2'.at - v1.yaw)) <= MaxTurn * MaxCycle
  <2>1. g.at = v1.yaw
    BY <1>3, <1>10
  <2>2. CASE command.mode = "Rate"
    <3>1. v2'.at = Head!Wrap(v1.yaw + turn * dt)
      BY <1>3, <1>5, <2>1, <2>2 DEF Head!Aimed, g, Goals
    <3>2. Head!Abs(Head!Wrap(v2'.at - v1.yaw)) <= Head!Abs(turn * dt)
      BY <1>2, <1>7, <2>2, <3>1, TurnIsBounded
    <3>3. Head!Abs(turn * dt) \in Int /\ MaxTurn * MaxCycle \in Int
          /\ Head!Abs(Head!Wrap(v2'.at - v1.yaw)) \in Int
      <4>1. v2'.at - v1.yaw \in Int
        BY <1>2, <1>8 DEF Goals, Head!Yaws
      <4>2. Head!Wrap(v2'.at - v1.yaw) \in Int
        BY <4>1, WrapTurns DEF Head!Yaws
      <4> QED
        BY <1>7, <2>2, <4>2 DEF Head!Abs
    <3> QED
      BY <1>7, <2>2, <3>2, <3>3
  <2>3. CASE command.mode = "Hold"
    <3>1. v2'.at = v1.yaw
      BY <1>3, <1>5, <2>1, <2>3 DEF Head!Aimed, g
    <3>2. v2'.at - v1.yaw = 0 + Circle * 0 /\ 0 \in Head!Yaws
      BY <1>2, <3>1, CircleTurns DEF Head!Yaws
    <3>3. Head!Wrap(v2'.at - v1.yaw) = 0
      BY <3>2, WrapFinds
    <3>4. MaxTurn * MaxCycle \in Nat
      OBVIOUS
    <3> QED
      BY <3>3, <3>4 DEF Head!Abs
  <2> QED
    BY <1>1, <1>10, <2>2, <2>3
<1> QED
  BY <1>5, <1>8, <1>9, <1>10

(* A cycle of the loop keeps the invariant, aims in one frame, and from    *)
(* where the head is once it was let go.                                   *)
LEMMA HeadLoops ==
  ASSUME HeadInv, Head!Loop
  PROVE  HeadInv' /\ Head!AimsInOneFrame /\ Head!ForgetsReleased
<1> USE HeadAssumption
<1>1. PICK interval \in {1, MaxCycle + 1} :
        /\ \/ Head!LetGo
           \/ Head!Blind
           \/ Head!Mismatched(interval)
           \/ \E command \in Head!Commands, joint \in BOOLEAN :
                 Head!ReferenceMatches(command) /\ Head!Aim(command, interval, joint)
        /\ Head!Centre(v4'.valid, interval)
        /\ v1' = v1
  BY DEF Head!Loop
<1>2. v5' \in Follows /\ v7' \in 0 .. MaxFollow /\ Head!FollowStartsAtRest'
  BY <1>1, HeadCentres
<1>3. v1' \in [yaw : Head!Yaws, epoch : 1 .. MaxEpochs] /\ v2 \in Goals /\ (v2.live => v2.prepared)
      /\ v3 \in 0 .. MaxCycle + 1 /\ v6 \in BOOLEAN
  BY <1>1 DEF HeadInv, Head!TypeOK, Goals
<1>4. ASSUME /\ v2' \in Goals /\ (v2'.live => v2'.prepared) /\ (v2'.live => v2'.of = v2'.reference)
             /\ v3' \in 0 .. MaxCycle + 1 /\ v4' \in Aims /\ v6' \in BOOLEAN /\ (v6' => ~v2'.live)
      PROVE  HeadInv'
  <2>1. Head!TypeOK'
    BY <1>2, <1>3, <1>4 DEF Head!TypeOK, Goals, Aims, Follows
  <2>2. HeadFits'
    BY <1>2, <1>4 DEF HeadFits
  <2> QED
    BY <2>1, <2>2 DEF HeadInv
<1>5. CASE Head!LetGo \/ Head!Mismatched(interval)
  <2>1. v2' = Head!NoGoal /\ v4' = Head!NoAim /\ v6' = TRUE
    BY <1>5 DEF Head!LetGo, Head!Mismatched
  <2>2. v3' \in 0 .. MaxCycle + 1
    BY <1>3, <1>5 DEF Head!LetGo, Head!Mismatched, Head!Aged, Head!Least
  <2>3. ~v4'.valid /\ v2' \in Goals /\ ~v2'.live /\ v4' \in Aims
    BY <2>1, NoGoalIsHeld
  <2> QED
    BY <1>4, <2>1, <2>2, <2>3 DEF Head!AimsInOneFrame, Head!ForgetsReleased
<1>6. CASE Head!Blind
  <2>1. v2' = v2 /\ v4' = Head!NoAim /\ v6' = v6 /\ v3' = 0
    BY <1>6 DEF Head!Blind
  <2>2. ~v4'.valid /\ v4' \in Aims /\ 0 \in 0 .. MaxCycle + 1
    BY <2>1, NoGoalIsHeld
  <2>3. (v2.live => v2.of = v2.reference) /\ (v6 => ~v2.live)
    BY DEF HeadInv, HeadFits
  <2> QED
    BY <1>3, <1>4, <2>1, <2>2, <2>3 DEF Head!AimsInOneFrame, Head!ForgetsReleased
<1>7. CASE \E command \in Head!Commands, joint \in BOOLEAN :
                 Head!ReferenceMatches(command) /\ Head!Aim(command, interval, joint)
  <2>1. /\ v2' \in Goals /\ v2'.live /\ v2'.prepared /\ v2'.of = v1.epoch /\ v2'.of = v2'.reference
        /\ v3' = 0 /\ v4' \in Aims /\ ~v6'
        /\ v6 /\ v2'.mode # "AbsoluteAngle" => Head!Abs(Head!Wrap(v2'.at - v1.yaw)) <= MaxTurn * MaxCycle
    BY <1>7, HeadIsAimed
  <2>2. v6' = FALSE /\ 0 \in 0 .. MaxCycle + 1
    BY <1>7 DEF Head!Aim
  <2>3. HeadInv'
    BY <1>4, <2>1, <2>2
  <2>4. Head!AimsInOneFrame /\ Head!ForgetsReleased
    BY <2>1 DEF Head!AimsInOneFrame, Head!ForgetsReleased
  <2> QED
    BY <2>3, <2>4
<1> QED
  BY <1>1, <1>5, <1>6, <1>7

(* Every step keeps the invariant.                                         *)
LEMMA HeadSteps == HeadInv /\ [Head!Next]_Head!vars => HeadInv'
<1> SUFFICES ASSUME HeadInv, [Head!Next]_Head!vars PROVE HeadInv'
  OBVIOUS
<1>1. CASE Head!HeadTurns \/ Head!EpochStarts \/ UNCHANGED Head!vars
  <2>1. v1 \in [yaw : Head!Yaws, epoch : 1 .. MaxEpochs] /\ UNCHANGED <<v2, v3, v4, v5, v6, v7>>
    BY <1>1 DEF HeadInv, Head!TypeOK, Head!HeadTurns, Head!EpochStarts, Head!vars
  <2>2. v1' \in [yaw : Head!Yaws, epoch : 1 .. MaxEpochs]
    <3>1. ASSUME NEW by \in {-1, 1} PROVE Head!Wrap(v1.yaw + by) \in Head!Yaws
      <4>1. v1.yaw + by \in Int
        BY <2>1, HeadAssumption DEF Head!Yaws
      <4> QED
        BY <4>1, WrapTurns
    <3>2. CASE Head!HeadTurns
      BY <2>1, <3>1, <3>2 DEF Head!HeadTurns
    <3>3. CASE Head!EpochStarts
      <4>1. v1.epoch + 1 \in 1 .. MaxEpochs
        BY <2>1, <3>3, HeadAssumption DEF Head!EpochStarts
      <4> QED
        BY <2>1, <3>3, <4>1 DEF Head!EpochStarts
    <3>4. CASE UNCHANGED Head!vars
      BY <2>1, <3>4 DEF Head!vars
    <3> QED
      BY <1>1, <3>2, <3>3, <3>4
  <2> QED
    BY <2>1, <2>2 DEF HeadInv, Head!TypeOK, HeadFits, Head!FollowStartsAtRest
<1> QED
  BY <1>1, HeadLoops DEF Head!Next

(* A step that moves the head alone aims at nothing anew.                  *)
LEMMA HeadActs ==
  ASSUME HeadInv, Head!Next
  PROVE  (Head!AimsInOneFrame /\ Head!ForgetsReleased) \/ UNCHANGED <<v1, v2, v3, v4, v5, v6, v7>>
<1>1. CASE Head!Loop
  BY <1>1, HeadLoops
<1>2. CASE Head!HeadTurns \/ Head!EpochStarts
  <2>1. UNCHANGED <<v2, v3, v4, v5, v6, v7>>
    BY <1>2 DEF Head!HeadTurns, Head!EpochStarts
  <2> QED
    BY <2>1 DEF Head!AimsInOneFrame, Head!ForgetsReleased
<1> QED
  BY <1>1, <1>2 DEF Head!Next

-----------------------------------------------------------------------------
(* The arbiter (Arbiter): v1 is profile, v2 time, v3 link, v4 sampled, v5  *)
(* arbiter, v6 decision and v7 record.                                     *)

Arbiters == [previous : {"Safe", "Manual", "Auto"}, entry : 0 .. MaxTime, baseline : 0 .. MaxAims,
             override : BOOLEAN, quiet : Who!Moment]
Records  == [auto : BOOLEAN, since : Who!Moment, known : 0 .. MaxAims, pushed : Who!Moment]

(* The camera steers in Auto while the operator does not override it, and  *)
(* since then the arbiter counts only what is newer.  The stick has been   *)
(* quiet for the release time since it was pushed, or for some of it.      *)
WhoCounts(a, r) ==
    /\ r.auto <=> a.previous = "Auto" /\ ~a.override
    /\ r.auto => r.since = a.entry /\ r.known = a.baseline
    /\ a.previous # "Auto" => r.pushed = Who!Never
    /\ a.override => a.previous = "Auto"
    /\ a.quiet # Who!Never => a.override /\ a.quiet <= v2
    /\ r.pushed # Who!Never =>
          /\ r.pushed <= v2
          /\ a.override /\ a.quiet # Who!Never => a.quiet >= r.pushed
          /\ ~a.override => a.entry - r.pushed >= Release

WhoInv ==
    /\ Who!TypeOK
    /\ v4.aim \in Who!Aim
    /\ WhoCounts(v5, v7)
    /\ Who!TargetsAreOfThisEntry
    /\ Who!FireIsAimed

(* Nothing is steered nor fired before a pass has decided.                 *)
LEMMA DisabledIsSafe ==
  ASSUME v6 = Who!Disabled
  PROVE  /\ v6.target \in Who!Aim /\ v6.gimbal = "Disabled" /\ v6.shooter = "Disabled"
         /\ Who!TargetsAreOfThisEntry /\ Who!FireIsAimed
<1>1. 0 \in 0 .. MaxTime /\ 0 \in 0 .. MaxAims
  BY WhoAssumption
<1>2. Who!NoAim \in Who!Aim
  BY <1>1 DEF Who!NoAim, Who!Aim
<1>3. v6.target = Who!NoAim /\ v6.gimbal = "Disabled" /\ v6.shooter = "Disabled"
  BY DEF Who!Disabled
<1> QED
  BY <1>2, <1>3 DEF Who!TargetsAreOfThisEntry, Who!FireIsAimed

(* It holds when the manager starts.                                       *)
LEMMA WhoStarts == Who!Init => WhoInv
<1> SUFFICES ASSUME Who!Init PROVE WhoInv
  OBVIOUS
<1> USE WhoAssumption DEF Who!Init
<1>1. 0 \in 0 .. MaxTime /\ 0 \in 0 .. MaxAims /\ Who!Never \in Who!Moment
  BY DEF Who!Never, Who!Moment
<1>2. Who!NoAim \in Who!Aim
  BY <1>1 DEF Who!NoAim, Who!Aim
<1>3. v5 \in Arbiters /\ v7 \in Records
  BY <1>1 DEF Arbiters, Records
<1>4. WhoCounts(v5, v7)
  BY DEF WhoCounts
<1>5. v4.aim \in Who!Aim
  BY <1>2 DEF Who!NotSampled
<1>6. v6.target \in Who!Aim /\ v6.gimbal = "Disabled" /\ v6.shooter = "Disabled"
      /\ Who!TargetsAreOfThisEntry /\ Who!FireIsAimed
  BY DisabledIsSafe
<1>7. Who!TypeOK
  BY <1>1, <1>2, <1>3, <1>4, <1>5, <1>6 DEF Who!TypeOK, Arbiters, Records, WhoCounts, Who!Never
<1> QED
  BY <1>4, <1>5, <1>6, <1>7 DEF WhoInv

(* A step that decides nothing: the camera, the clock, or the sampling.    *)
LEMMA WhoWaits ==
  ASSUME WhoInv, v1' = v1, v5' = v5, v7' = v7, v6' = Who!Disabled, v2' \in 0 .. MaxTime, v2 <= v2',
         v3' \in Who!Aim, v4'.aim \in Who!Aim
  PROVE  WhoInv'
<1> USE WhoAssumption DEF WhoInv
<1>1. v6'.target \in Who!Aim /\ v6'.gimbal = "Disabled" /\ v6'.shooter = "Disabled"
      /\ Who!TargetsAreOfThisEntry' /\ Who!FireIsAimed'
  BY DEF Who!Disabled, Who!NoAim, Who!Aim, Who!TargetsAreOfThisEntry, Who!FireIsAimed
<1>2. v5.quiet \in Who!Moment /\ v7.pushed \in Who!Moment /\ v2 \in 0 .. MaxTime
  BY DEF Who!TypeOK
<1>3. v5.quiet \in Int /\ v7.pushed \in Int /\ v2 \in Int /\ v2' \in Int
  BY <1>2 DEF Who!Moment
<1>4. WhoCounts(v5, v7)'
  BY <1>3 DEF WhoCounts
<1>5. Who!TypeOK'
  <2>1. v5'.quiet # Who!Never => v5'.override /\ v2' - v5'.quiet >= 0
    BY <1>3, <1>4 DEF WhoCounts
  <2> QED
    BY <1>1, <2>1 DEF Who!TypeOK
<1> QED
  BY <1>1, <1>4, <1>5

(* The sequence known is one of the link's.                                *)
LEMMA KnownIsSequence == v4.aim \in Who!Aim => Who!Known \in 0 .. MaxAims
<1>1. 0 \in 0 .. MaxAims
  BY WhoAssumption
<1> QED
  BY <1>1 DEF Who!Known, Who!Aim

(* The end of a pass in which the operator does not leave Auto.            *)
LEMMA WhoOverrides ==
  ASSUME WhoInv, NEW stick \in 0 .. 2
  PROVE  LET a == [Who!Overridden(Who!Entered(v5), stick) EXCEPT !.previous = "Auto"]
             auto == ~a.override
             r == [auto |-> auto,
                   since |-> IF ~auto THEN Who!Never ELSE IF v7.auto THEN v7.since ELSE v2,
                   known |-> IF ~auto \/ v7.auto THEN v7.known ELSE Who!Known,
                   pushed |-> IF a.previous # "Auto" THEN Who!Never
                              ELSE IF stick = 2 THEN v2 ELSE v7.pushed]
         IN  a \in Arbiters /\ r \in Records /\ WhoCounts(a, r)
<1> DEFINE e == Who!Entered(v5)
           o == Who!Overridden(e, stick)
           a == [o EXCEPT !.previous = "Auto"]
           auto == ~a.override
           r == [auto |-> auto,
                 since |-> IF ~auto THEN Who!Never ELSE IF v7.auto THEN v7.since ELSE v2,
                 known |-> IF ~auto \/ v7.auto THEN v7.known ELSE Who!Known,
                 pushed |-> IF a.previous # "Auto" THEN Who!Never
                            ELSE IF stick = 2 THEN v2 ELSE v7.pushed]
<1> USE WhoAssumption
<1>1. v5 \in Arbiters /\ v7 \in Records /\ v2 \in 0 .. MaxTime /\ Who!Known \in 0 .. MaxAims
      /\ WhoCounts(v5, v7)
  BY KnownIsSequence DEF WhoInv, Who!TypeOK, Arbiters, Records
<1>2. Who!Never \in Who!Moment /\ v2 \in Who!Moment /\ v2 \in Int /\ Who!Never = -1
  BY <1>1 DEF Who!Never, Who!Moment
<1>3. e \in Arbiters /\ e.override = v5.override /\ e.quiet = v5.quiet
      /\ (v5.previous = "Auto" => e = v5) /\ (v5.previous # "Auto" => e.entry = v2 /\ e.baseline = Who!Known)
  BY <1>1 DEF Who!Entered, Arbiters
<1> HIDE DEF e
<1>4. ASSUME ~v5.override, stick < 2 PROVE a \in Arbiters /\ r \in Records /\ WhoCounts(a, r)
  <2>1. o = e
    BY <1>3, <1>4 DEF Who!Overridden
  <2>2. a \in Arbiters /\ a.previous = "Auto" /\ a.override = FALSE /\ a.quiet = v5.quiet /\ a.entry = e.entry
        /\ a.baseline = e.baseline
    BY <1>3, <1>4, <2>1 DEF Arbiters
  <2> HIDE DEF a
  <2>3. r = [auto |-> TRUE, since |-> IF v7.auto THEN v7.since ELSE v2,
             known |-> IF v7.auto THEN v7.known ELSE Who!Known, pushed |-> v7.pushed]
    <3>1. auto = TRUE /\ stick # 2
      BY <1>4, <2>2
    <3> HIDE DEF auto
    <3> QED
      BY <2>2, <3>1
  <2>4. r \in Records
    BY <1>1, <1>2, <2>3 DEF Records
  <2> HIDE DEF r
  <2>5. CASE v5.previous = "Auto"
    <3>1. v7.auto /\ v7.since = v5.entry /\ v7.known = v5.baseline
      BY <1>1, <1>4, <2>5 DEF WhoCounts
    <3>2. r.auto = TRUE /\ r.since = a.entry /\ r.known = a.baseline /\ r.pushed = v7.pushed
      BY <1>3, <2>2, <2>3, <2>5, <3>1
    <3> QED
      BY <1>1, <1>3, <1>4, <2>2, <2>4, <2>5, <3>2 DEF WhoCounts
  <2>6. CASE v5.previous # "Auto"
    <3>1. ~v7.auto /\ v7.pushed = Who!Never /\ v5.quiet = Who!Never
      BY <1>1, <2>6 DEF WhoCounts
    <3>2. r.auto = TRUE /\ r.since = a.entry /\ r.known = a.baseline /\ r.pushed = Who!Never
      BY <1>3, <2>2, <2>3, <2>6, <3>1
    <3> QED
      BY <2>2, <2>4, <3>1, <3>2 DEF WhoCounts
  <2> QED
    BY <2>5, <2>6
<1>5. ASSUME stick > 0, v5.override \/ stick = 2 PROVE a \in Arbiters /\ r \in Records /\ WhoCounts(a, r)
  <2>1. o = [e EXCEPT !.override = TRUE, !.quiet = Who!Never]
    BY <1>3, <1>5 DEF Who!Overridden, Who!QuietAgain
  <2>2. a \in Arbiters /\ a.previous = "Auto" /\ a.override = TRUE /\ a.quiet = Who!Never
    BY <1>2, <1>3, <2>1 DEF Arbiters
  <2> HIDE DEF a
  <2>3. r = [auto |-> FALSE, since |-> Who!Never, known |-> v7.known, pushed |-> IF stick = 2 THEN v2 ELSE v7.pushed]
    BY <2>2
  <2>4. r \in Records
    BY <1>1, <1>2, <2>3 DEF Records
  <2>5. r.auto = FALSE /\ (r.pushed # Who!Never => r.pushed <= v2)
    <3>1. v7.pushed # Who!Never => v7.pushed <= v2
      BY <1>1 DEF WhoCounts
    <3>2. v2 <= v2
      BY <1>2
    <3> HIDE DEF r
    <3> QED
      BY <2>3, <3>1, <3>2
  <2> HIDE DEF r
  <2> QED
    BY <2>2, <2>4, <2>5 DEF WhoCounts
<1>6. ASSUME stick = 0, v5.override PROVE a \in Arbiters /\ r \in Records /\ WhoCounts(a, r)
  <2> DEFINE since == IF v5.quiet = Who!Never THEN v2 ELSE v5.quiet
  <2>1. v5.previous = "Auto" /\ e = v5 /\ ~v7.auto
    BY <1>1, <1>3, <1>6 DEF WhoCounts
  <2>2. since \in Who!Moment /\ since <= v2 /\ (v7.pushed # Who!Never => since >= v7.pushed /\ v7.pushed <= v2)
    BY <1>1, <1>2, <1>6, <2>1 DEF WhoCounts, Arbiters
  <2>3. since \in Int /\ v7.pushed \in Int
    BY <1>1, <2>2 DEF Records, Who!Moment
  <2>4. o = IF v2 - since >= Release
            THEN [v5 EXCEPT !.override = FALSE, !.quiet = Who!Never, !.entry = v2, !.baseline = Who!Known]
            ELSE [v5 EXCEPT !.quiet = since]
    BY <1>6, <2>1 DEF Who!Overridden
  <2> HIDE DEF since
  <2>5. CASE v2 - since >= Release
    <3>1. a \in Arbiters /\ a.previous = "Auto" /\ a.override = FALSE /\ a.quiet = Who!Never /\ a.entry = v2
          /\ a.baseline = Who!Known
      BY <1>1, <1>2, <2>4, <2>5 DEF Arbiters
    <3> HIDE DEF a
    <3>2. r = [auto |-> TRUE, since |-> v2, known |-> Who!Known, pushed |-> v7.pushed]
      <4>1. auto = TRUE /\ stick # 2
        BY <1>6, <3>1
      <4> HIDE DEF auto
      <4> QED
        BY <2>1, <3>1, <4>1
    <3>3. r \in Records
      BY <1>1, <1>2, <3>2 DEF Records
    <3> HIDE DEF r
    <3>4. r.auto = TRUE /\ r.since = a.entry /\ r.known = a.baseline /\ r.pushed = v7.pushed
      BY <3>1, <3>2
    <3>5. v7.pushed # Who!Never => a.entry - v7.pushed >= Release
      BY <1>2, <2>2, <2>3, <2>5, <3>1
    <3> QED
      BY <2>2, <3>1, <3>3, <3>4, <3>5 DEF WhoCounts
  <2>6. CASE ~(v2 - since >= Release)
    <3>1. a \in Arbiters /\ a.previous = "Auto" /\ a.override = TRUE /\ a.quiet = since
      BY <1>1, <1>6, <2>1, <2>2, <2>4, <2>6 DEF Arbiters
    <3> HIDE DEF a
    <3>2. r = [auto |-> FALSE, since |-> Who!Never, known |-> v7.known, pushed |-> v7.pushed]
      <4>1. auto = FALSE /\ stick # 2
        BY <1>6, <3>1
      <4> HIDE DEF auto
      <4> QED
        BY <3>1, <4>1
    <3>3. r \in Records
      BY <1>1, <1>2, <3>2 DEF Records
    <3> HIDE DEF r
    <3>4. r.auto = FALSE /\ r.pushed = v7.pushed
      BY <3>2
    <3> QED
      BY <2>2, <3>1, <3>3, <3>4 DEF WhoCounts
  <2> QED
    BY <2>5, <2>6
<1>7. (~v5.override /\ stick < 2) \/ (stick > 0 /\ (v5.override \/ stick = 2)) \/ (stick = 0 /\ v5.override)
  OBVIOUS
<1> HIDE DEF a, r
<1>8. a \in Arbiters /\ r \in Records /\ WhoCounts(a, r)
  BY <1>4, <1>5, <1>6, <1>7
<1> QED
  BY <1>8 DEF a, r, o, e

(* The last part of update(): what is decided aims before it fires, and at *)
(* a target that is newer than the operator's hand-over.                   *)
LEMMA WhoPermits ==
  ASSUME NEW requested \in {"Rate", "Hold", "AbsoluteAngle"}, NEW i, NEW v \in Who!Aim, NEW fire \in BOOLEAN,
         NEW by, NEW gimbal_output \in BOOLEAN, NEW shooter_output \in BOOLEAN,
         i.source # "Vision", by \in {"Vision", i.source},
         by = "Vision" <=> requested = "AbsoluteAngle",
         by = "Vision" /\ fire => v.fire /\ (v1 = "PhysicalRemote" => i.fire_requested),
         by = "Vision" => v.control,
         v6' = Who!Permitted(requested, i, v, fire, by, gimbal_output, shooter_output), v1' = v1
  PROVE  /\ v6'.target \in Who!Aim
         /\ v6'.gimbal \in {"Disabled", "Rate", "Hold", "AbsoluteAngle"}
         /\ v6'.shooter \in {"Disabled", "Ready", "Fire"}
         /\ v6'.gimbal = "AbsoluteAngle" => requested = "AbsoluteAngle" /\ v6'.target = v
         /\ Who!FireIsAimed'
<1> DEFINE gimbal == IF gimbal_output THEN requested ELSE "Disabled"
           armed == i.friction_requested /\ shooter_output
           fires == armed /\ fire /\ Who!Aims(gimbal)
<1>1. Who!NoAim \in Who!Aim
  BY WhoAssumption DEF Who!NoAim, Who!Aim
<1>2. /\ v6'.gimbal = gimbal
      /\ v6'.shooter = IF fires THEN "Fire" ELSE IF armed THEN "Ready" ELSE "Disabled"
      /\ v6'.source = IF fires THEN by ELSE IF armed THEN i.source ELSE "None"
      /\ v6'.pulled = i.fire_requested
      /\ v6'.target = IF gimbal = "AbsoluteAngle" THEN v ELSE Who!NoAim
  BY DEF Who!Permitted
<1>3. fires => fire /\ gimbal = requested /\ gimbal \in {"Rate", "AbsoluteAngle"}
  BY DEF Who!Aims
<1>4. gimbal \in {"Disabled", "Rate", "Hold", "AbsoluteAngle"} /\ (gimbal = "AbsoluteAngle" => requested = "AbsoluteAngle")
  OBVIOUS
<1> HIDE DEF gimbal, armed, fires
<1>5. v6'.shooter = "Fire" => fires
  BY <1>2
<1>6. ASSUME fires
      PROVE  /\ v6'.gimbal \in {"Rate", "AbsoluteAngle"}
             /\ v6'.source = "Vision" <=> v6'.gimbal = "AbsoluteAngle"
             /\ v6'.source = "Vision" => v6'.target.control /\ v6'.target.fire
             /\ v6'.source = "Vision" /\ v1' = "PhysicalRemote" => v6'.pulled
  BY <1>2, <1>3, <1>6
<1>7. Who!FireIsAimed'
  BY <1>5, <1>6 DEF Who!FireIsAimed
<1> QED
  BY <1>1, <1>2, <1>4, <1>7

(* The end of a pass.                                                      *)
LEMMA WhoEnds ==
  ASSUME WhoInv, v5' \in Arbiters, v7' \in Records, WhoCounts(v5', v7'),
         v6'.target \in Who!Aim,
         v6'.gimbal \in {"Disabled", "Rate", "Hold", "AbsoluteAngle"},
         v6'.shooter \in {"Disabled", "Ready", "Fire"},
         Who!TargetsAreOfThisEntry', Who!FireIsAimed',
         v4' = Who!NotSampled, UNCHANGED <<v1, v2, v3>>
  PROVE  WhoInv'
<1> USE WhoAssumption DEF WhoInv
<1>1. v4'.aim \in Who!Aim
  BY DEF Who!NotSampled, Who!NoAim, Who!Aim
<1>2. WhoCounts(v5, v7)'
  BY DEF WhoCounts
<1>3. v5'.quiet \in Int /\ v2 \in Int
  BY DEF Who!TypeOK, Arbiters, Who!Moment
<1>4. v5'.quiet # Who!Never => v5'.override /\ v2' - v5'.quiet >= 0
  BY <1>2, <1>3 DEF WhoCounts
<1>5. v5'.override => v5'.previous = "Auto"
  BY <1>2 DEF WhoCounts
<1>6. Who!TypeOK'
  BY <1>1, <1>4, <1>5 DEF Who!TypeOK, Arbiters, Records
<1> QED
  BY <1>1, <1>2, <1>6

(* A pass that disables.                                                   *)
LEMMA WhoDisables ==
  ASSUME WhoInv, Who!Disable
  PROVE  WhoInv'
<1> USE WhoAssumption DEF WhoInv
<1>1. v5 \in Arbiters /\ v7 \in Records /\ Who!Never \in Who!Moment /\ Who!Known \in 0 .. MaxAims
  BY KnownIsSequence DEF Who!TypeOK, Arbiters, Records, Who!Never, Who!Moment
<1>2. /\ v5' = [v5 EXCEPT !.previous = "Safe", !.override = FALSE, !.quiet = Who!Never]
      /\ v6' = Who!Disabled /\ v4' = Who!NotSampled /\ UNCHANGED <<v1, v2, v3>>
  BY DEF Who!Disable, Who!Ended
<1>3. v5' \in Arbiters /\ v5'.previous = "Safe" /\ v5'.override = FALSE /\ v5'.quiet = Who!Never
  BY <1>1, <1>2 DEF Arbiters
<1>4. v7' = [auto |-> FALSE, since |-> Who!Never, known |-> v7.known, pushed |-> Who!Never]
  BY <1>3 DEF Who!Disable, Who!Ended
<1>5. v7' \in Records /\ v7'.auto = FALSE /\ v7'.pushed = Who!Never
  BY <1>1, <1>4 DEF Records
<1>6. WhoCounts(v5', v7')
  BY <1>3, <1>5 DEF WhoCounts
<1>7. v6'.target \in Who!Aim /\ v6'.gimbal = "Disabled" /\ v6'.shooter = "Disabled"
  BY <1>2 DEF Who!Disabled, Who!NoAim, Who!Aim
<1>8. Who!TargetsAreOfThisEntry' /\ Who!FireIsAimed'
  BY <1>7 DEF Who!TargetsAreOfThisEntry, Who!FireIsAimed
<1> QED
  BY <1>2, <1>3, <1>5, <1>6, <1>7, <1>8, WhoEnds

(* What the operator may want.                                             *)
LEMMA IntentsAreKnown ==
  ASSUME NEW p \in Profiles, NEW i \in Intents[p], i.mode \in {"Manual", "Auto"}
  PROVE  /\ i.stick \in 0 .. 2 /\ i.source # "Vision" /\ i.source # "None"
         /\ i.fire_requested \in BOOLEAN /\ i.friction_requested \in BOOLEAN
<1>1. Intents[p] = {Mapper!NoIntent} \cup
        {IF Mapper!Mode(p, r) \in {"Safe", "Refused"} THEN [Mapper!NoIntent EXCEPT !.mode = Mapper!Mode(p, r)]
         ELSE Mapper!Mapped(p, r) : r \in Mapper!Remotes}
  BY DEF Intents, Mapper!Intents
<1>2. Mapper!NoIntent.mode = "Safe"
  BY DEF Mapper!NoIntent
<1>3. PICK r \in Mapper!Remotes :
         i = IF Mapper!Mode(p, r) \in {"Safe", "Refused"} THEN [Mapper!NoIntent EXCEPT !.mode = Mapper!Mode(p, r)]
             ELSE Mapper!Mapped(p, r)
  BY <1>1, <1>2
<1>4. Mapper!Mode(p, r) \notin {"Safe", "Refused"}
  BY <1>3 DEF Mapper!NoIntent
<1>5. i = Mapper!Mapped(p, r)
  BY <1>3, <1>4
<1>6. Mapper!Source(p, r) \in {"Remote", "KeyboardMouse"}
  BY DEF Mapper!Source
<1>7. r.stick \in 0 .. 2 /\ r.friction \in BOOLEAN /\ r.fire \in BOOLEAN
  BY DEF Mapper!Remotes
<1>8. i.stick \in 0 .. 2
  BY <1>5, <1>7 DEF Mapper!Mapped
<1>9. i.source = Mapper!Source(p, r)
  BY <1>5 DEF Mapper!Mapped
<1>10. i.fire_requested \in BOOLEAN /\ i.friction_requested \in BOOLEAN
  BY <1>5, <1>7 DEF Mapper!Mapped
<1> QED
  BY <1>6, <1>8, <1>9, <1>10

(* A pass that steers by hand or by the camera.                            *)
LEMMA WhoDecides ==
  ASSUME WhoInv, NEW i \in Intents[v1], NEW gimbal_output \in BOOLEAN, NEW shooter_output \in BOOLEAN,
         Who!Decide(i, gimbal_output, shooter_output)
  PROVE  WhoInv'
<1> DEFINE v == v4.aim
           auto == i.mode = "Auto"
           a == IF auto THEN [Who!Overridden(Who!Entered(v5), i.stick) EXCEPT !.previous = "Auto"]
                ELSE [v5 EXCEPT !.previous = "Manual", !.override = FALSE, !.quiet = Who!Never]
           by_hand == ~auto \/ a.override
           visual == ~by_hand /\ Who!Steers(a, v)
           fire == IF by_hand THEN i.fire_requested
                   ELSE visual /\ v.fire /\ (v1 = "PhysicalRemote" => i.fire_requested)
           requested == IF by_hand THEN "Rate" ELSE IF visual THEN "AbsoluteAngle" ELSE "Hold"
           by == IF visual THEN "Vision" ELSE i.source
           r == [auto |-> ~by_hand,
                 since |-> IF ~(~by_hand) THEN Who!Never ELSE IF v7.auto THEN v7.since ELSE v2,
                 known |-> IF ~(~by_hand) \/ v7.auto THEN v7.known ELSE Who!Known,
                 pushed |-> IF a.previous # "Auto" THEN Who!Never
                            ELSE IF i.stick = 2 THEN v2 ELSE v7.pushed]
<1> USE WhoAssumption
<1>1. /\ v5' = a /\ v7' = r /\ v4' = Who!NotSampled /\ UNCHANGED <<v1, v2, v3>>
      /\ v6' = Who!Permitted(requested, i, v, fire, by, gimbal_output, shooter_output)
      /\ i.mode \in {"Manual", "Auto"}
  BY DEF Who!Decide, Who!Ended
<1>2. /\ i.stick \in 0 .. 2 /\ i.source # "Vision" /\ i.source # "None"
      /\ i.fire_requested \in BOOLEAN /\ i.friction_requested \in BOOLEAN
  BY <1>1, IntentsAreKnown DEF WhoInv, Who!TypeOK
<1>3. v5 \in Arbiters /\ v7 \in Records /\ v2 \in 0 .. MaxTime /\ Who!Known \in 0 .. MaxAims
      /\ Who!Never \in Who!Moment /\ v \in Who!Aim
  BY KnownIsSequence DEF WhoInv, Who!TypeOK, Arbiters, Records, Who!Never, Who!Moment
<1>4. a \in Arbiters /\ r \in Records /\ WhoCounts(a, r)
  <2>1. CASE auto
    <3> DEFINE b == [Who!Overridden(Who!Entered(v5), i.stick) EXCEPT !.previous = "Auto"]
               s == [auto |-> ~b.override,
                     since |-> IF ~(~b.override) THEN Who!Never ELSE IF v7.auto THEN v7.since ELSE v2,
                     known |-> IF ~(~b.override) \/ v7.auto THEN v7.known ELSE Who!Known,
                     pushed |-> IF b.previous # "Auto" THEN Who!Never
                                ELSE IF i.stick = 2 THEN v2 ELSE v7.pushed]
    <3>1. b \in Arbiters /\ s \in Records /\ WhoCounts(b, s)
      BY <1>2, WhoOverrides
    <3>2. a = b /\ auto = TRUE
      BY <2>1
    <3>3. b.override \in BOOLEAN
      BY <3>1 DEF Arbiters
    <3> HIDE DEF b
    <3>4. by_hand = b.override
      BY <3>2, <3>3
    <3> HIDE DEF a, by_hand
    <3>5. r = s
      BY <3>2, <3>4
    <3> HIDE DEF r, s
    <3> QED
      BY <3>1, <3>2, <3>5
  <2>2. CASE ~auto
    <3>1. a \in Arbiters /\ a.previous = "Manual" /\ a.override = FALSE /\ a.quiet = Who!Never
      BY <1>3, <2>2 DEF Arbiters
    <3>2. by_hand = TRUE
      BY <2>2
    <3> HIDE DEF a, by_hand
    <3>3. r = [auto |-> FALSE, since |-> Who!Never, known |-> v7.known, pushed |-> Who!Never]
      BY <3>1, <3>2
    <3>4. r \in Records /\ r.auto = FALSE /\ r.pushed = Who!Never
      BY <1>3, <3>3 DEF Records
    <3> HIDE DEF r
    <3> QED
      BY <3>1, <3>4 DEF WhoCounts
  <2> QED
    BY <2>1, <2>2
<1>5. by_hand \in BOOLEAN /\ visual \in BOOLEAN /\ fire \in BOOLEAN /\ v.fire \in BOOLEAN
  <2>1. a.override \in BOOLEAN
    BY <1>4 DEF Arbiters
  <2>2. v.fire \in BOOLEAN
    BY <1>3 DEF Who!Aim
  <2> HIDE DEF a
  <2> QED
    BY <1>2, <2>1, <2>2
<1>6. r.auto = ~by_hand
  OBVIOUS
<1>7. visual => v.control /\ v.sequence > a.baseline /\ v.time >= a.entry
  BY DEF Who!Steers, Who!IsNew
<1> HIDE DEF a, r, by_hand
<1>8. /\ requested \in {"Rate", "Hold", "AbsoluteAngle"} /\ by \in {"Vision", i.source}
      /\ (by = "Vision" <=> visual) /\ (requested = "AbsoluteAngle" <=> visual)
      /\ (visual => ~by_hand) /\ (visual /\ fire => v.fire /\ (v1 = "PhysicalRemote" => i.fire_requested))
  BY <1>2, <1>5
<1> HIDE DEF visual, fire, requested, by
<1>9. /\ v6'.target \in Who!Aim
      /\ v6'.gimbal \in {"Disabled", "Rate", "Hold", "AbsoluteAngle"}
      /\ v6'.shooter \in {"Disabled", "Ready", "Fire"}
      /\ (v6'.gimbal = "AbsoluteAngle" => requested = "AbsoluteAngle" /\ v6'.target = v)
      /\ Who!FireIsAimed'
  BY <1>1, <1>2, <1>3, <1>5, <1>7, <1>8, WhoPermits
<1>10. Who!TargetsAreOfThisEntry'
  <2>1. ASSUME visual
        PROVE  /\ r.auto /\ r.since = a.entry /\ r.known = a.baseline
               /\ r.pushed # Who!Never => r.since - r.pushed >= Release
    <3>1. r.auto
      BY <1>6, <1>8, <2>1
    <3> QED
      BY <1>4, <3>1 DEF WhoCounts
  <2> QED
    BY <1>1, <1>7, <1>8, <1>9, <2>1 DEF Who!TargetsAreOfThisEntry
<1> QED
  BY <1>1, <1>4, <1>9, <1>10, WhoEnds

(* Every step keeps the invariant.                                         *)
LEMMA WhoSteps == WhoInv /\ [Who!Next]_Who!vars => WhoInv'
<1> SUFFICES ASSUME WhoInv, [Who!Next]_Who!vars PROVE WhoInv'
  OBVIOUS
<1> USE WhoAssumption
<1>1. v3 \in Who!Aim /\ v2 \in 0 .. MaxTime /\ v4.aim \in Who!Aim
  BY DEF WhoInv, Who!TypeOK
<1>2. ASSUME NEW kind \in Who!Frames, NEW rx \in v2 - Late .. v2, Who!Accept(kind, rx)
      PROVE  WhoInv'
  <2>1. rx \in 0 .. MaxTime /\ v3.sequence + 1 \in 0 .. MaxAims
    <3>1. v3.sequence \in 0 .. MaxAims /\ v3.sequence < MaxAims /\ rx \in 0 .. v2
      BY <1>1, <1>2 DEF Who!Accept, Who!Aim
    <3> QED
      BY <1>1, <3>1
  <2>2. v3' \in Who!Aim
    BY <1>2, <2>1 DEF Who!Accept, Who!Aim
  <2>3. v2 <= v2
    BY <1>1
  <2> QED
    BY <1>1, <1>2, <2>2, <2>3, WhoWaits DEF Who!Accept
<1>3. CASE Who!Tick
  <2>1. v2' \in 0 .. MaxTime /\ v2 <= v2'
    BY <1>1, <1>3 DEF Who!Tick
  <2> QED
    BY <1>1, <1>3, <2>1, WhoWaits DEF Who!Tick
<1>4. CASE Who!Sample
  <2>1. v2 <= v2 /\ v4'.aim = v3
    BY <1>1, <1>4 DEF Who!Sample
  <2> QED
    BY <1>1, <1>4, <2>1, WhoWaits DEF Who!Sample
<1>5. CASE UNCHANGED Who!vars
  BY <1>5 DEF Who!vars, WhoInv, Who!TypeOK, WhoCounts, Who!TargetsAreOfThisEntry, Who!FireIsAimed
<1> QED
  BY <1>2, <1>3, <1>4, <1>5, WhoDisables, WhoDecides DEF Who!Next

-----------------------------------------------------------------------------
(* The axis of the gimbal (GimbalAxis): v1 is topology, v2 axis_turn, v3   *)
(* axis, v4 loop, v5 effort, v6 joint, v7 broken and v8 framed.            *)

Axes   == [target : Axis!Angles, of : Axis!Epochs, mode : Axis!Modes \cup {"Disabled"},
           seeded : BOOLEAN, known : Axis!Angles, dt : 0 .. 1]
Staged == [kind : {"None", "Zero", "Position"}, loop : Axis!Epochs, target : Axis!Epochs]
Joints == [true : Axis!Angles, seen : Axis!Angles, origin : -2 * Reach .. 2 * Reach,
           fresh : BOOLEAN, valid : BOOLEAN, reference : 0 .. 4 * MaxLosses + 2,
           wanted : BOOLEAN, active : BOOLEAN, enable : 0 .. MaxDrives, losses : 0 .. MaxLosses]

(* An epoch that is not over when another one begins.                      *)
Before(a, b) == a.enable <= b.enable /\ a.reference <= b.reference

(* The target is of an epoch that has begun, the history of that epoch or  *)
(* a later one, and a position effort of both while it can be sent.        *)
AxisEpochs ==
    /\ v3.of.live => Before(v3.of, v6)
    /\ v4.live => v3.of.live /\ Before(v3.of, v4) /\ Before(v4, v6)
    /\ v2 = "Drive" => v3.of.live /\ (v4.live => v4 = v3.of)
    /\ v5.kind = "Position" =>
          /\ v5.loop.enable <= v6.enable
          /\ v6.active /\ v5.loop.enable = v6.enable =>
                v5.loop = Axis!Epoch(v6) /\ v5.target = Axis!Epoch(v6)

(* The axis is interrupted exactly while its target is of another epoch,   *)
(* or its drive or its feedback is missing.                                *)
AxisBreaks == v7 <=> ~(v3.of = Axis!Epoch(v6) /\ v6.fresh /\ v6.active)

(* A calibration misses one frame at most, and no epoch of a limited axis  *)
(* begins without one.                                                     *)
AxisCalibrates ==
    /\ v6.fresh => v6.true = v6.seen
    /\ v2 = "Reseed" =>
          /\ v1 = "Limited" /\ v6.true = v6.seen /\ (~v3.seeded \/ ~v6.valid)
          /\ Axis!Abs(v3.known - v6.seen) <= IF v8 THEN 1 ELSE 0
    /\ v1 = "Limited" =>
          /\ v3.seeded => Axis!Abs(v6.origin) <= 1
          /\ v2 = "Look" /\ v6.fresh /\ v6.valid => v3.seeded
          /\ v2 = "Drive" \/ v5.kind = "Position" => v3.seeded

(* Every reference is of a gap or of a calibration that it asks for.       *)
AxisCounts ==
    v6.reference + (IF v6.valid THEN 0 ELSE 1) + (IF v3.seeded THEN 0 ELSE 1)
        <= 1 + 2 * v6.losses - (IF v6.fresh THEN 0 ELSE 2)

AxisInv == Axis!TypeOK /\ AxisEpochs /\ AxisBreaks /\ AxisCalibrates /\ AxisCounts

(* The types of the records.                                               *)
LEMMA AxisRecords ==
  ASSUME Axis!TypeOK
  PROVE  /\ v3 \in Axes /\ v4 \in Axis!Epochs /\ v5 \in Staged /\ v6 \in Joints
         /\ v3.of \in Axis!Epochs /\ v3.target \in Axis!Angles /\ v3.known \in Axis!Angles
         /\ v6.true \in Axis!Angles /\ v6.seen \in Axis!Angles
         /\ v5.loop \in Axis!Epochs /\ v5.target \in Axis!Epochs
  BY DEF Axis!TypeOK, Axes, Staged, Joints

(* The numbers of an epoch.                                                *)
LEMMA EpochsCount ==
  ASSUME Axis!TypeOK
  PROVE  /\ v6.enable \in Nat /\ v6.reference \in Nat
         /\ v3.of.enable \in Nat /\ v3.of.reference \in Nat /\ v4.enable \in Nat /\ v4.reference \in Nat
         /\ v5.loop.enable \in Nat
         /\ \A e \in Axis!Epochs : e = Axis!Epoch(v6) <=> e.live /\ e.enable = v6.enable /\ e.reference = v6.reference
         /\ Axis!Epoch(v6) \in Axis!Epochs
         /\ Axis!Epoch(v6).live = TRUE /\ Axis!Epoch(v6).enable = v6.enable /\ Axis!Epoch(v6).reference = v6.reference
<1>1. v6.enable \in 0 .. MaxDrives /\ v6.reference \in 0 .. 4 * MaxLosses + 2
  BY AxisRecords DEF Joints
<1>2. v3.of \in Axis!Epochs /\ v4 \in Axis!Epochs /\ v5.loop \in Axis!Epochs
  BY AxisRecords
<1>3. ASSUME NEW e \in Axis!Epochs
      PROVE  /\ e.enable \in 0 .. MaxDrives /\ e.reference \in 0 .. 4 * MaxLosses + 2 /\ e.live \in BOOLEAN
             /\ e = [live |-> e.live, enable |-> e.enable, reference |-> e.reference]
  BY DEF Axis!Epochs
<1>4. ASSUME NEW e \in Axis!Epochs
      PROVE  e = Axis!Epoch(v6) <=> e.live /\ e.enable = v6.enable /\ e.reference = v6.reference
  BY <1>3 DEF Axis!Epoch
<1>5. Axis!Epoch(v6) \in Axis!Epochs
  BY <1>1 DEF Axis!Epoch, Axis!Epochs
<1> QED
  BY <1>1, <1>2, <1>3, <1>4, <1>5, AxisAssumption DEF Axis!Epoch

(* What is withdrawn is of no epoch.                                       *)
LEMMA NoLoopIsOver ==
  /\ Axis!NoLoop \in Axis!Epochs /\ ~Axis!NoLoop.live
  /\ Axis!NoEffort \in Staged /\ Axis!NoEffort.kind = "None"
<1>1. 0 \in 0 .. MaxDrives /\ 0 \in 0 .. 4 * MaxLosses + 2
  BY AxisAssumption
<1>2. Axis!NoLoop \in Axis!Epochs /\ ~Axis!NoLoop.live
  BY <1>1 DEF Axis!NoLoop, Axis!Epochs
<1> QED
  BY <1>2 DEF Axis!NoEffort, Staged

(* A target that is withdrawn is of no epoch.                              *)
LEMMA WithdrawnIsTyped ==
  ASSUME NEW a \in Axes
  PROVE  /\ Axis!Withdrawn(a) \in Axes /\ Axis!Withdrawn(a).of = Axis!NoLoop /\ Axis!Withdrawn(a).target = 0
         /\ Axis!Withdrawn(a).seeded = a.seeded
<1>1. 0 \in Axis!Angles
  BY AxisAssumption DEF Axis!Angles
<1> QED
  BY <1>1, NoLoopIsOver DEF Axis!Withdrawn, Axes

(* Types of the next state from those of its records.                      *)
LEMMA AxisTyped ==
  ASSUME v1' \in {"Limited", "Continuous"}, v2' \in {"Poll", "Reseed", "Look", "Drive", "Sleep"},
         v3' \in Axes, v4' \in Axis!Epochs, v5' \in Staged, v6' \in Joints, v7' \in BOOLEAN, v8' \in BOOLEAN,
         v1' = "Limited" /\ v3'.of.live => v3'.target \in Axis!MinAngle .. MaxAngle
  PROVE  Axis!TypeOK'
  BY DEF Axis!TypeOK, Axes, Staged, Joints

(* It holds when the executor starts.                                      *)
LEMMA AxisStarts == Axis!Init => AxisInv
<1> SUFFICES ASSUME Axis!Init PROVE AxisInv
  OBVIOUS
<1> USE AxisAssumption DEF Axis!Init
<1>1. 0 \in Axis!Angles /\ 0 \in 0 .. 1 /\ 0 \in 0 .. MaxDrives /\ 0 \in 0 .. MaxLosses /\ 0 \in 0 .. 4 * MaxLosses + 2
  BY DEF Axis!Angles
<1>2. PICK start \in Axis!Angles :
        v6 = [true |-> start, seen |-> start, fresh |-> TRUE, valid |-> TRUE,
              origin |-> IF v1 = "Limited" THEN -start ELSE 0, reference |-> 0, wanted |-> FALSE,
              active |-> FALSE, enable |-> 0, losses |-> 0]
  OBVIOUS
<1>3. (IF v1 = "Limited" THEN -start ELSE 0) \in -2 * Reach .. 2 * Reach
  BY DEF Axis!Angles
<1>4. v6 \in Joints
  BY <1>1, <1>2, <1>3 DEF Joints
<1>5. v3 \in Axes /\ v3.of = Axis!NoLoop
  BY <1>1, NoLoopIsOver DEF Axes
<1>6. v7 \in BOOLEAN /\ v8 \in BOOLEAN
  OBVIOUS
<1>7. Axis!TypeOK
  BY <1>4, <1>5, <1>6, NoLoopIsOver DEF Axis!TypeOK, Axes, Staged, Joints
<1>8. AxisEpochs /\ AxisBreaks
  BY <1>5, NoLoopIsOver DEF AxisEpochs, AxisBreaks, Axis!Epoch
<1>9. AxisCalibrates /\ AxisCounts
  BY <1>2, NoLoopIsOver DEF AxisCalibrates, AxisCounts
<1> QED
  BY <1>7, <1>8, <1>9 DEF AxisInv

(* suspend() and a target that cannot be looked at: everything is          *)
(* withdrawn.                                                              *)
LEMMA AxisWithdraws ==
  ASSUME AxisInv, v3' = Axis!Withdrawn(v3), v4' = Axis!NoLoop, v5' = Axis!NoEffort, v7' = TRUE, v8' = FALSE,
         v2' = "Sleep", v1' = v1,
         v6' \in {v6, [v6 EXCEPT !.wanted = FALSE, !.active = FALSE]}
  PROVE  AxisInv'
<1> USE AxisAssumption DEF AxisInv
<1>1. v3' \in Axes /\ v3'.of = Axis!NoLoop /\ v3'.seeded = v3.seeded
  BY AxisRecords, WithdrawnIsTyped
<1>2. v6' \in Joints /\ v6'.true = v6.true /\ v6'.seen = v6.seen /\ v6'.origin = v6.origin /\ v6'.fresh = v6.fresh
      /\ v6'.valid = v6.valid /\ v6'.reference = v6.reference /\ v6'.losses = v6.losses
  BY AxisRecords DEF Joints
<1>3. v7' \in BOOLEAN /\ v8' \in BOOLEAN
  OBVIOUS
<1>4. Axis!TypeOK'
  BY <1>1, <1>2, <1>3, AxisTyped, NoLoopIsOver DEF Axis!TypeOK
<1>5. AxisEpochs' /\ AxisBreaks'
  BY <1>1, NoLoopIsOver DEF AxisEpochs, AxisBreaks, Axis!Epoch
<1>6. AxisCalibrates' /\ AxisCounts'
  BY <1>1, <1>2, NoLoopIsOver DEF AxisCalibrates, AxisCounts
<1> QED
  BY <1>4, <1>5, <1>6

(* poll() *)
LEMMA AxisPolls == AxisInv /\ Axis!Poll => AxisInv'
<1> SUFFICES ASSUME AxisInv, Axis!Poll PROVE AxisInv'
  OBVIOUS
<1> USE AxisAssumption DEF AxisInv, Axis!Poll, Axis!ToTurn
<1>1. v6' = [v6 EXCEPT !.wanted = TRUE] /\ v1' = v1 /\ v4' = v4 /\ v5' = v5 /\ v7' = v7 /\ v8' = FALSE
  OBVIOUS
<1>2. /\ v6' \in Joints /\ v6'.true = v6.true /\ v6'.seen = v6.seen /\ v6'.origin = v6.origin
      /\ v6'.fresh = v6.fresh /\ v6'.valid = v6.valid /\ v6'.reference = v6.reference
      /\ v6'.losses = v6.losses /\ v6'.enable = v6.enable /\ v6'.active = v6.active
  <2> HIDE DEF Axis!Poll
  <2> QED
    BY <1>1, AxisRecords DEF Joints
<1>3. /\ v3' \in Axes /\ v3'.of = v3.of /\ v3'.target = v3.target /\ v3'.seeded = v3.seeded
      /\ v2' = "Reseed" => Axis!Calibrates /\ v3'.known = v6.seen
      /\ v2' \in {"Reseed", "Look"}
      /\ v2' = "Look" => ~Axis!Calibrates
  BY AxisRecords DEF Axes
<1>4. v8' \in BOOLEAN /\ v7' \in BOOLEAN
  BY <1>1 DEF Axis!TypeOK
<1> HIDE DEF Axis!Poll
<1>5. Axis!TypeOK'
  BY <1>1, <1>2, <1>3, <1>4, AxisTyped, AxisRecords DEF Axis!TypeOK
<1>6. AxisEpochs' /\ AxisBreaks'
  BY <1>1, <1>2, <1>3 DEF AxisEpochs, AxisBreaks, Axis!Epoch, Before
<1>7. AxisCalibrates' /\ AxisCounts'
  <2>1. v6.seen \in Int
    BY AxisRecords DEF Axis!Angles
  <2> QED
    BY <1>1, <1>2, <1>3, <2>1 DEF AxisCalibrates, AxisCounts, Axis!Calibrates, Axis!Abs
<1> QED
  BY <1>5, <1>6, <1>7

(* reseedPosition() *)
LEMMA AxisReseeds == AxisInv /\ Axis!Reseed => AxisInv'
<1> SUFFICES ASSUME AxisInv, Axis!Reseed PROVE AxisInv'
  OBVIOUS
<1> USE AxisAssumption DEF AxisInv, Axis!Reseed, Axis!ToTurn
<1>1. v2 = "Reseed" /\ v2' = "Look" /\ v8' = FALSE /\ v1' = v1 /\ v4' = v4
  OBVIOUS
<1>2. v1 = "Limited" /\ v6.true = v6.seen /\ (~v3.seeded \/ ~v6.valid) /\ Axis!Abs(v3.known - v6.seen) <= 1
  <2>1. v3.known \in Int /\ v6.seen \in Int
    BY AxisRecords DEF Axis!Angles
  <2>2. Axis!Abs(v3.known - v6.seen) \in Int
    BY <2>1 DEF Axis!Abs
  <2> HIDE DEF Axis!Reseed
  <2> QED
    BY <1>1, <2>2 DEF AxisCalibrates
<1>3. 0 \in Axis!Angles
  BY DEF Axis!Angles
<1>4. CASE v6.fresh
  <2>1. /\ v6' = [v6 EXCEPT !.origin = v3.known - v6.seen, !.valid = TRUE, !.reference = v6.reference + 1]
        /\ v3' = [v3 EXCEPT !.seeded = TRUE, !.known = 0]
        /\ v5' = Axis!NoEffort
        /\ v7' = TRUE
    BY <1>4
  <2>2. v3.known - v6.seen \in -2 * Reach .. 2 * Reach
    BY AxisRecords DEF Axis!Angles
  <2>3. v6.reference + 1 \in 0 .. 4 * MaxLosses + 2 /\ v6.reference + 1 <= 1 + 2 * v6.losses
    <3>1. v6.reference \in Nat /\ v6.losses \in 0 .. MaxLosses
      BY AxisRecords, EpochsCount DEF Joints
    <3> QED
      BY <1>2, <1>4, <3>1 DEF AxisCounts
  <2> HIDE DEF Axis!Reseed
  <2>4. /\ v6' \in Joints /\ v6'.true = v6.true /\ v6'.seen = v6.seen /\ v6'.origin = v3.known - v6.seen
        /\ v6'.fresh = v6.fresh /\ v6'.valid = TRUE /\ v6'.reference = v6.reference + 1
        /\ v6'.losses = v6.losses /\ v6'.enable = v6.enable /\ v6'.active = v6.active
    BY <2>1, <2>2, <2>3, AxisRecords DEF Joints
  <2>5. v3' \in Axes /\ v3'.of = v3.of /\ v3'.target = v3.target /\ v3'.seeded = TRUE
    BY <1>3, <2>1, AxisRecords DEF Axes
  <2>6. Axis!TypeOK'
    <3>1. v7' \in BOOLEAN /\ v8' \in BOOLEAN /\ v2' \in {"Poll", "Reseed", "Look", "Drive", "Sleep"}
      BY <1>1, <2>1
    <3>2. v1' \in {"Limited", "Continuous"} /\ (v1' = "Limited" /\ v3'.of.live => v3'.target \in Axis!MinAngle .. MaxAngle)
      BY <1>1, <2>5 DEF Axis!TypeOK
    <3>3. v4' \in Axis!Epochs /\ v5' \in Staged
      BY <1>1, <2>1, AxisRecords, NoLoopIsOver
    <3> QED
      BY <2>4, <2>5, <3>1, <3>2, <3>3, AxisTyped
  <2>7. v3.of.live => v3.of.reference <= v6.reference /\ v3.of.reference \in Nat /\ v6.reference \in Nat
    BY EpochsCount DEF AxisEpochs, Before
  <2>8. AxisEpochs'
    BY <1>1, <2>1, <2>4, <2>5, <2>7, NoLoopIsOver, EpochsCount DEF AxisEpochs, Before
  <2>9. AxisBreaks'
    BY <2>1, <2>4, <2>5, <2>7 DEF AxisBreaks, Axis!Epoch
  <2>10. AxisCalibrates'
    BY <1>1, <1>2, <1>4, <2>1, <2>4, <2>5, NoLoopIsOver DEF AxisCalibrates
  <2>11. AxisCounts'
    <3>1. v6.losses \in Nat
      BY AxisRecords DEF Joints
    <3> QED
      BY <1>4, <2>3, <2>4, <2>5, <3>1, EpochsCount DEF AxisCounts
  <2> QED
    BY <2>6, <2>8, <2>9, <2>10, <2>11
<1>5. CASE ~v6.fresh
  <2>1. v6' = v6 /\ v3' = [v3 EXCEPT !.known = 0] /\ v5' = v5 /\ v7' = v7
    BY <1>5
  <2> HIDE DEF Axis!Reseed
  <2>2. v3' \in Axes /\ v3'.of = v3.of /\ v3'.target = v3.target /\ v3'.seeded = v3.seeded
    BY <1>3, <2>1, AxisRecords DEF Axes
  <2>3. Axis!TypeOK'
    <3>1. v7' \in BOOLEAN /\ v8' \in BOOLEAN /\ v2' \in {"Poll", "Reseed", "Look", "Drive", "Sleep"}
      BY <1>1, <2>1 DEF Axis!TypeOK
    <3>2. v1' \in {"Limited", "Continuous"} /\ (v1' = "Limited" /\ v3'.of.live => v3'.target \in Axis!MinAngle .. MaxAngle)
      BY <1>1, <2>2 DEF Axis!TypeOK
    <3> QED
      BY <1>1, <2>1, <2>2, <3>1, <3>2, AxisTyped, AxisRecords
  <2>4. AxisEpochs' /\ AxisBreaks'
    BY <1>1, <2>1, <2>2 DEF AxisEpochs, AxisBreaks
  <2>5. AxisCalibrates' /\ AxisCounts'
    BY <1>1, <1>5, <2>1, <2>2 DEF AxisCalibrates, AxisCounts
  <2> QED
    BY <2>3, <2>4, <2>5
<1> QED
  BY <1>4, <1>5

(* An angle on the circle is one, and one that is stays as it is.          *)
LEMMA AxisTurns ==
  ASSUME NEW a \in Int
  PROVE  Axis!Wrap(a) \in Axis!Angles /\ (a \in Axis!Angles => Axis!Wrap(a) = a)
<1> USE AxisAssumption
<1> DEFINE n == 2 * Reach + 1
<1>1. n \in Nat \ {0} /\ a + Reach \in Int
  OBVIOUS
<1>2. (a + Reach) % n \in 0 .. n - 1
  <2> HIDE DEF n
  <2> QED
    BY <1>1
<1>3. ASSUME a \in Axis!Angles PROVE (a + Reach) % n = a + Reach
  <2>1. a + Reach \in 0 .. n - 1
    BY <1>3 DEF Axis!Angles
  <2> HIDE DEF n
  <2> QED
    BY <1>1, <2>1
<1> QED
  BY <1>2, <1>3 DEF Axis!Wrap, Axis!Angles

(* What is within two bounds in order is between them.                     *)
LEMMA WithinIsBetween ==
  ASSUME NEW a \in Int, NEW low \in Int, NEW high \in Int
  PROVE  /\ Axis!Within(a, low, high) \in Int
         /\ low <= high => Axis!Within(a, low, high) \in low .. high
         /\ a \in low .. high => Axis!Within(a, low, high) = a
  BY DEF Axis!Within

(* The measured angle, and the target a cycle starts from.                 *)
LEMMA AxisMeasures ==
  ASSUME AxisInv, NEW mode \in Axis!Modes, NEW goal \in Axis!Angles
  PROVE  Axis!Measured \in Int /\ Axis!Started(mode, goal) \in Int
<1> USE AxisAssumption
<1>1. v6.seen \in Int /\ v6.origin \in Int /\ v3.target \in Int /\ goal \in Int
  BY AxisRecords DEF AxisInv, Joints, Axis!Angles
<1>2. Axis!Measured \in Int
  BY <1>1 DEF Axis!Measured
<1>3. Axis!Withdrawn(v3).target = 0 /\ ~Axis!Withdrawn(v3).of.live
  BY AxisRecords, WithdrawnIsTyped, NoLoopIsOver DEF AxisInv
<1> QED
  BY <1>1, <1>2, <1>3 DEF Axis!Started

(* The input of a cycle.                                                   *)
LEMMA AxisStrides ==
  ASSUME AxisInv, NEW mode \in Axis!Modes, NEW rate \in Axis!Rates, NEW goal \in Axis!Angles, NEW dt \in 0 .. 1
  PROVE  /\ Axis!Stride(mode, rate, goal, dt) \in Int
         /\ ~Axis!IsLive(v3) => Axis!Stride(mode, rate, goal, dt) = 0 \/ mode = "AbsoluteAngle"
         /\ mode = "Hold" => Axis!Stride(mode, rate, goal, dt) = 0
<1> USE AxisAssumption
<1> DEFINE from == Axis!Started(mode, goal)
           reach == IF Axis!IsLive(v3) THEN MaxRate * dt ELSE 0
           missing == IF v1 = "Limited" THEN Axis!Within(goal, Axis!MinAngle, MaxAngle) - from
                                        ELSE Axis!Wrap(goal - from)
<1>1. from \in Int /\ goal \in Int /\ rate \in Int
  BY AxisMeasures DEF Axis!Angles, Axis!Rates
<1>2. MaxRate * dt \in Nat
  <2>1. dt = 0 \/ dt = 1
    OBVIOUS
  <2> QED
    BY <2>1
<1>3. reach \in Int /\ -reach \in Int
  BY <1>2
<1>4. missing \in Int
  <2>1. Axis!Within(goal, Axis!MinAngle, MaxAngle) \in Int
    BY <1>1, WithinIsBetween DEF Axis!MinAngle
  <2>2. Axis!Wrap(goal - from) \in Int
    <3>1. goal - from \in Int
      BY <1>1
    <3> HIDE DEF from
    <3> QED
      BY <3>1, AxisTurns DEF Axis!Angles
  <2> HIDE DEF from
  <2> QED
    BY <1>1, <2>1, <2>2
<1>5. Axis!Within(missing, -reach, reach) \in Int
  <2> HIDE DEF missing, reach
  <2> QED
    BY <1>3, <1>4, WithinIsBetween
<1>6. Axis!Within(rate, -MaxRate, MaxRate) * dt \in Int
  <2>1. Axis!Within(rate, -MaxRate, MaxRate) \in Int
    BY <1>1, WithinIsBetween
  <2>2. dt = 0 \/ dt = 1
    OBVIOUS
  <2> QED
    BY <2>1, <2>2
<1>7. CASE mode = "Hold"
  BY <1>7 DEF Axis!Stride
<1>8. CASE mode = "Rate"
  BY <1>6, <1>8 DEF Axis!Stride
<1>9. CASE mode = "AbsoluteAngle"
  BY <1>5, <1>9 DEF Axis!Stride
<1> QED
  BY <1>7, <1>8, <1>9 DEF Axis!Modes

(* A target is an angle, and one of a limited axis between its limits.     *)
LEMMA AxisLimits ==
  ASSUME AxisInv, NEW mode \in Axis!Modes, NEW target \in Int
  PROVE  /\ Axis!Limits(mode, target) \in Axis!Angles
         /\ v1 = "Limited" => Axis!Limits(mode, target) \in Axis!MinAngle .. MaxAngle
<1> USE AxisAssumption
<1>1. Axis!MinAngle \in Int /\ MaxAngle \in Int /\ Axis!MinAngle <= MaxAngle
      /\ \A a \in Axis!MinAngle .. MaxAngle : a \in Axis!Angles
  BY DEF Axis!MinAngle, Axis!Angles
<1>2. Axis!Measured - MaxLead \in Int /\ Axis!Measured + MaxLead \in Int
  <2>1. 0 \in Axis!Angles
    BY DEF Axis!Angles
  <2> QED
    BY <2>1, AxisMeasures
<1>3. Axis!Within(target, Axis!MinAngle, MaxAngle) \in Axis!MinAngle .. MaxAngle
  BY <1>1, WithinIsBetween
<1>4. ASSUME NEW a \in Int
      PROVE  Axis!Within(Axis!Within(a, Axis!Measured - MaxLead, Axis!Measured + MaxLead), Axis!MinAngle, MaxAngle)
                \in Axis!MinAngle .. MaxAngle
  <2>1. Axis!Within(a, Axis!Measured - MaxLead, Axis!Measured + MaxLead) \in Int
    BY <1>2, WithinIsBetween
  <2> QED
    BY <1>1, <2>1, WithinIsBetween
<1> QED
  BY <1>1, <1>3, <1>4, AxisTurns DEF Axis!Limits

(* A target that is looked at, for the mode, the rate and the goal of the  *)
(* cycle.                                                                  *)
AxisAims(mode, rate, goal, dt) ==
    v3' = [v3 EXCEPT !.target = Axis!Limits(mode, Axis!Started(mode, goal) + Axis!Stride(mode, rate, goal, dt)),
                     !.of = IF Axis!IsLive(v3) THEN v3.of ELSE Axis!Epoch(v6), !.mode = mode, !.dt = dt]

(* GimbalAxis::update() *)
LEMMA AxisLooks ==
  ASSUME AxisInv, v2 = "Look", Axis!FeedbackHealthy, v6.active,
         NEW mode \in Axis!Modes, NEW rate \in Axis!Rates, NEW goal \in Axis!Angles, NEW dt \in 0 .. 1,
         AxisAims(mode, rate, goal, dt),
         v4' = IF v3.of.live /\ ~Axis!IsLive(v3) THEN Axis!NoLoop ELSE v4,
         v5' = IF v3.of.live /\ ~Axis!IsLive(v3) THEN Axis!NoEffort ELSE v5,
         v7' = FALSE, v8' = FALSE, v2' = "Drive", v1' = v1, v6' = v6
  PROVE  AxisInv' /\ v3'.of = Axis!Epoch(v6)
<1> USE AxisAssumption DEF AxisInv
<1> DEFINE target == Axis!Limits(mode, Axis!Started(mode, goal) + Axis!Stride(mode, rate, goal, dt))
<1>1. target \in Axis!Angles /\ (v1 = "Limited" => target \in Axis!MinAngle .. MaxAngle)
  <2>1. Axis!Started(mode, goal) + Axis!Stride(mode, rate, goal, dt) \in Int
    BY AxisMeasures, AxisStrides
  <2> QED
    BY <2>1, AxisLimits
<1>2. v3' = [v3 EXCEPT !.target = target, !.of = Axis!Epoch(v6), !.mode = mode, !.dt = dt]
  BY DEF AxisAims, Axis!IsLive
<1> HIDE DEF target
<1>3. v3' \in Axes /\ v3'.of = Axis!Epoch(v6) /\ v3'.target = target /\ v3'.seeded = v3.seeded
  BY <1>1, <1>2, AxisRecords, EpochsCount DEF Axes
<1>4. v6.fresh /\ (v1 = "Limited" => v6.valid)
  BY DEF Axis!FeedbackHealthy
<1>5. Axis!TypeOK'
  <2>1. v7' \in BOOLEAN /\ v8' \in BOOLEAN
    OBVIOUS
  <2>2. v4' \in Axis!Epochs /\ v5' \in Staged
    BY AxisRecords, NoLoopIsOver
  <2>3. v1' \in {"Limited", "Continuous"} /\ v6' \in Joints
    BY AxisRecords DEF Axis!TypeOK
  <2> QED
    BY <1>1, <1>3, <2>1, <2>2, <2>3, AxisTyped
<1>6. AxisEpochs'
  <2>1. v4'.live => v4' = Axis!Epoch(v6)
    <3>1. CASE Axis!IsLive(v3)
      <4>1. v4' = v4 /\ v3.of = Axis!Epoch(v6)
        BY <3>1 DEF Axis!IsLive
      <4>2. v4 \in Axis!Epochs
        BY AxisRecords
      <4> QED
        BY <4>1, <4>2, EpochsCount DEF AxisEpochs, Before
    <3>2. CASE ~Axis!IsLive(v3)
      BY <3>2, NoLoopIsOver DEF AxisEpochs
    <3> QED
      BY <3>1, <3>2
  <2>2. v5'.kind = "Position" => v5' = v5
    BY NoLoopIsOver
  <2>3. v3'.of.live = TRUE /\ Before(v3'.of, v6) /\ (v4'.live => Before(v3'.of, v4') /\ Before(v4', v6))
    BY <1>3, <2>1, EpochsCount DEF Before
  <2> QED
    BY <1>3, <2>1, <2>2, <2>3 DEF AxisEpochs
<1>7. AxisBreaks'
  BY <1>3, <1>4 DEF AxisBreaks
<1>8. AxisCalibrates'
  BY <1>3, <1>4, NoLoopIsOver DEF AxisCalibrates
<1>9. AxisCounts'
  BY <1>3 DEF AxisCounts
<1> QED
  BY <1>3, <1>5, <1>6, <1>7, <1>8, <1>9

(* PositionMotor::update() *)
LEMMA AxisDrives == AxisInv /\ Axis!Drive => AxisInv'
<1> SUFFICES ASSUME AxisInv, Axis!Drive PROVE AxisInv'
  OBVIOUS
<1> USE AxisAssumption DEF AxisInv, Axis!Drive, Axis!ToTurn
<1>1. v2 = "Drive" /\ v2' = "Sleep" /\ v1' = v1 /\ v6' = v6 /\ v7' = v7 /\ v8' = FALSE
      /\ v3' = [v3 EXCEPT !.dt = 0]
  OBVIOUS
<1>2. v4' = (IF Axis!Waits THEN Axis!NoLoop ELSE Axis!Epoch(v6))
  OBVIOUS
<1>3. v5' = (IF Axis!Waits THEN Axis!NoEffort
             ELSE [kind |-> IF v4 = Axis!Epoch(v6) THEN "Position" ELSE "Zero",
                   loop |-> Axis!Epoch(v6), target |-> v3.of])
  OBVIOUS
<1>4. v7' \in BOOLEAN /\ v8' \in BOOLEAN
  BY <1>1 DEF Axis!TypeOK
<1> HIDE DEF Axis!Drive
<1>5. v3' \in Axes /\ v3'.of = v3.of /\ v3'.target = v3.target /\ v3'.seeded = v3.seeded
  <2>1. 0 \in 0 .. 1
    OBVIOUS
  <2> QED
    BY <1>1, <2>1, AxisRecords DEF Axes
<1>6. v4' \in Axis!Epochs /\ v5' \in Staged
  <2>1. v3.of \in Axis!Epochs
    BY AxisRecords
  <2> QED
    BY <1>2, <1>3, <2>1, NoLoopIsOver, EpochsCount DEF Staged
<1>7. Axis!TypeOK'
  BY <1>1, <1>4, <1>5, <1>6, AxisRecords, AxisTyped DEF Axis!TypeOK
<1>8. AxisEpochs'
  <2>1. v3.of.live
    BY <1>1 DEF AxisEpochs
  <2>2. v4'.live => Before(v3.of, v4') /\ Before(v4', v6)
    BY <1>2, <2>1, NoLoopIsOver, EpochsCount DEF AxisEpochs, Before
  <2>3. ASSUME v5'.kind = "Position"
        PROVE  v5'.loop = Axis!Epoch(v6) /\ v5'.target = Axis!Epoch(v6)
    <3>1. ~Axis!Waits
      BY <1>3, <2>3, NoLoopIsOver
    <3>2. v4 = Axis!Epoch(v6)
      BY <1>3, <2>3, <3>1
    <3>3. v3.of = Axis!Epoch(v6)
      BY <1>1, <3>2, EpochsCount DEF AxisEpochs
    <3> QED
      BY <1>3, <3>1, <3>3
  <2>4. v5'.kind = "Position" => v5'.loop.enable <= v6.enable
    BY <2>3, EpochsCount
  <2> QED
    BY <1>1, <1>5, <2>1, <2>2, <2>3, <2>4 DEF AxisEpochs
<1>9. AxisBreaks' /\ AxisCounts'
  BY <1>1, <1>5 DEF AxisBreaks, AxisCounts
<1>10. AxisCalibrates'
  BY <1>1, <1>5 DEF AxisCalibrates
<1> QED
  BY <1>7, <1>8, <1>9, <1>10

(* A change of the joint alone.                                            *)
LEMMA AxisJointTyped ==
  ASSUME Axis!TypeOK, UNCHANGED <<v1, v2, v3, v4, v5>>, v6' \in Joints, v7' \in BOOLEAN, v8' \in BOOLEAN
  PROVE  Axis!TypeOK'
  BY AxisRecords, AxisTyped DEF Axis!TypeOK

(* A frame that arrives.                                                   *)
LEMMA AxisFrames == AxisInv /\ Axis!Frame => AxisInv'
<1> SUFFICES ASSUME AxisInv, Axis!Frame PROVE AxisInv'
  OBVIOUS
<1> USE AxisAssumption DEF AxisInv
<1>1. PICK a \in Axis!Near(v6.seen) : v6' = [v6 EXCEPT !.true = a, !.seen = a]
  BY DEF Axis!Frame
<1>2. v6.fresh /\ v8 = FALSE /\ v8' = TRUE /\ UNCHANGED <<v1, v2, v3, v4, v5, v7>>
  BY DEF Axis!Frame, Axis!TypeOK
<1>3. a \in Axis!Angles /\ (v1 = "Limited" => Axis!Abs(v6.seen - a) <= 1)
  BY DEF Axis!Near
<1>4. /\ v6' \in Joints /\ v6'.true = a /\ v6'.seen = a /\ v6'.origin = v6.origin
      /\ v6'.fresh = v6.fresh /\ v6'.valid = v6.valid /\ v6'.reference = v6.reference
      /\ v6'.losses = v6.losses /\ v6'.enable = v6.enable /\ v6'.active = v6.active
  BY <1>1, <1>3, AxisRecords DEF Joints
<1>5. Axis!TypeOK'
  BY <1>2, <1>4, AxisJointTyped DEF Axis!TypeOK
<1>6. AxisEpochs' /\ AxisBreaks'
  BY <1>2, <1>4 DEF AxisEpochs, AxisBreaks, Axis!Epoch, Before
<1>7. AxisCalibrates'
  <2>1. v6.seen \in Int /\ a \in Int /\ v3.known \in Int
    BY <1>3, AxisRecords DEF Axis!Angles
  <2>2. ASSUME v2 = "Reseed" PROVE Axis!Abs(v3.known - a) <= 1
    <3>1. Axis!Abs(v3.known - v6.seen) <= 0 /\ v1 = "Limited"
      BY <1>2, <2>2 DEF AxisCalibrates
    <3> QED
      BY <1>3, <2>1, <3>1 DEF Axis!Abs
  <2> QED
    BY <1>2, <1>4, <2>2 DEF AxisCalibrates
<1>8. AxisCounts'
  BY <1>2, <1>4 DEF AxisCounts
<1> QED
  BY <1>5, <1>6, <1>7, <1>8

(* Feedback that stops, and the joint that moves unseen.                   *)
LEMMA AxisStops == AxisInv /\ (Axis!FeedbackStops \/ Axis!MovesUnseen) => AxisInv'
<1> SUFFICES ASSUME AxisInv, Axis!FeedbackStops \/ Axis!MovesUnseen PROVE AxisInv'
  OBVIOUS
<1> USE AxisAssumption DEF AxisInv
<1>1. CASE Axis!FeedbackStops
  <2> USE <1>1 DEF Axis!FeedbackStops
  <2>1. v6.losses \in Nat /\ v6.losses + 1 \in 0 .. MaxLosses
    BY AxisRecords DEF Joints
  <2>2. /\ v6' \in Joints /\ v6'.true = v6.true /\ v6'.seen = v6.seen /\ v6'.origin = v6.origin
        /\ v6.fresh = TRUE /\ v6'.fresh = FALSE /\ v6'.valid = v6.valid /\ v6'.reference = v6.reference
        /\ v6'.losses = v6.losses + 1 /\ v6'.enable = v6.enable /\ v6'.active = v6.active
    BY <2>1, AxisRecords DEF Joints
  <2>3. v7' = TRUE /\ UNCHANGED <<v1, v2, v3, v4, v5, v8>>
    OBVIOUS
  <2> HIDE DEF Axis!FeedbackStops
  <2>4. v7' \in BOOLEAN /\ v8' \in BOOLEAN
    BY <2>3 DEF Axis!TypeOK
  <2>5. Axis!TypeOK'
    BY <2>2, <2>3, <2>4, AxisJointTyped
  <2>6. AxisEpochs' /\ AxisBreaks'
    BY <2>2, <2>3 DEF AxisEpochs, AxisBreaks, Axis!Epoch, Before
  <2>7. AxisCalibrates'
    BY <2>2, <2>3 DEF AxisCalibrates
  <2>8. AxisCounts'
    BY <2>1, <2>2, <2>3, EpochsCount DEF AxisCounts
  <2> QED
    BY <2>5, <2>6, <2>7, <2>8
<1>2. CASE Axis!MovesUnseen
  <2>1. PICK a \in Axis!Near(v6.true) : v6' = [v6 EXCEPT !.true = a]
    BY <1>2 DEF Axis!MovesUnseen
  <2>2. ~v6.fresh /\ v2 = "Poll" /\ UNCHANGED <<v1, v2, v3, v4, v5, v7, v8>>
    BY <1>2 DEF Axis!MovesUnseen
  <2>3. a \in Axis!Angles
    BY DEF Axis!Near
  <2>4. /\ v6' \in Joints /\ v6'.seen = v6.seen /\ v6'.origin = v6.origin
        /\ v6'.fresh = v6.fresh /\ v6'.valid = v6.valid /\ v6'.reference = v6.reference
        /\ v6'.losses = v6.losses /\ v6'.enable = v6.enable /\ v6'.active = v6.active
    BY <2>1, <2>3, AxisRecords DEF Joints
  <2>5. Axis!TypeOK'
    <3>1. v7' \in BOOLEAN /\ v8' \in BOOLEAN
      BY <2>2 DEF Axis!TypeOK
    <3> QED
      BY <2>2, <2>4, <3>1, AxisJointTyped
  <2>6. AxisEpochs' /\ AxisBreaks'
    BY <2>2, <2>4 DEF AxisEpochs, AxisBreaks, Axis!Epoch, Before
  <2>7. AxisCalibrates' /\ AxisCounts'
    BY <2>2, <2>4 DEF AxisCalibrates, AxisCounts
  <2> QED
    BY <2>5, <2>6, <2>7
<1> QED
  BY <1>1, <1>2

(* The frame after a gap: its reference is over.                           *)
LEMMA AxisReturns == AxisInv /\ Axis!FeedbackReturns => AxisInv'
<1> SUFFICES ASSUME AxisInv, Axis!FeedbackReturns PROVE AxisInv'
  OBVIOUS
<1> USE AxisAssumption DEF AxisInv, Axis!FeedbackReturns
<1> DEFINE count == IF v6.valid THEN v6.reference + 1 ELSE v6.reference
<1>1. v6' = [v6 EXCEPT !.fresh = TRUE, !.seen = v6.true, !.valid = FALSE, !.active = FALSE, !.reference = count]
  OBVIOUS
<1>2. ~v6.fresh /\ v8' = TRUE /\ UNCHANGED <<v1, v2, v3, v4, v5, v7>>
  OBVIOUS
<1> HIDE DEF Axis!FeedbackReturns
<1>3. /\ v6.reference \in Nat /\ v6.losses \in 0 .. MaxLosses /\ v6.valid \in BOOLEAN
  BY AxisRecords, EpochsCount DEF Joints
<1>4. count \in 0 .. 4 * MaxLosses + 2 /\ v6.reference <= count
      /\ count + 1 <= v6.reference + (IF v6.valid THEN 0 ELSE 1) + 2 /\ count \in Nat
  BY <1>2, <1>3 DEF AxisCounts
<1> HIDE DEF count
<1>5. /\ v6' \in Joints /\ v6'.true = v6.true /\ v6'.seen = v6.true /\ v6'.origin = v6.origin
      /\ v6'.fresh = TRUE /\ v6'.valid = FALSE /\ v6'.reference = count
      /\ v6'.losses = v6.losses /\ v6'.enable = v6.enable /\ v6'.active = FALSE
  BY <1>1, <1>4, AxisRecords DEF Joints
<1>6. Axis!TypeOK'
  <2>1. v7' \in BOOLEAN /\ v8' \in BOOLEAN
    BY <1>2 DEF Axis!TypeOK
  <2> QED
    BY <1>2, <1>5, <2>1, AxisJointTyped
<1>7. AxisEpochs'
  BY <1>2, <1>4, <1>5, EpochsCount DEF AxisEpochs, Before
<1>8. AxisBreaks'
  <2>1. v7
    BY <1>2 DEF AxisBreaks
  <2>2. v7' /\ ~v6'.active
    BY <1>2, <1>5, <2>1
  <2> QED
    BY <2>2 DEF AxisBreaks
<1>9. AxisCalibrates'
  <2>1. v3.known \in Int /\ v6.seen \in Int
    BY AxisRecords DEF Axis!Angles
  <2>2. Axis!Abs(v3.known - v6.seen) \in Int
    BY <2>1 DEF Axis!Abs
  <2> QED
    BY <1>2, <1>5, <2>2 DEF AxisCalibrates
<1>10. AxisCounts'
  BY <1>2, <1>3, <1>4, <1>5 DEF AxisCounts
<1> QED
  BY <1>6, <1>7, <1>8, <1>9, <1>10

(* A drive that activates or drops.                                        *)
LEMMA AxisSwitches == AxisInv /\ (Axis!DriveActivates \/ Axis!DriveDrops) => AxisInv'
<1> SUFFICES ASSUME AxisInv, Axis!DriveActivates \/ Axis!DriveDrops PROVE AxisInv'
  OBVIOUS
<1> USE AxisAssumption DEF AxisInv
<1>1. CASE Axis!DriveActivates
  <2> USE <1>1 DEF Axis!DriveActivates
  <2>1. v6.enable \in Nat /\ v6.enable + 1 \in 0 .. MaxDrives
    BY AxisRecords DEF Joints
  <2>2. /\ v6' \in Joints /\ v6'.true = v6.true /\ v6'.seen = v6.seen /\ v6'.origin = v6.origin
        /\ v6'.fresh = v6.fresh /\ v6'.valid = v6.valid /\ v6'.reference = v6.reference
        /\ v6'.losses = v6.losses /\ v6'.enable = v6.enable + 1 /\ v6'.active = TRUE /\ ~v6.active
    BY <2>1, AxisRecords DEF Joints
  <2>3. UNCHANGED <<v1, v2, v3, v4, v5, v7, v8>>
    OBVIOUS
  <2> HIDE DEF Axis!DriveActivates
  <2>4. Axis!TypeOK'
    <3>1. v7' \in BOOLEAN /\ v8' \in BOOLEAN
      BY <2>3 DEF Axis!TypeOK
    <3> QED
      BY <2>2, <2>3, <3>1, AxisJointTyped
  <2>5. AxisEpochs'
    BY <2>1, <2>2, <2>3, EpochsCount DEF AxisEpochs, Before
  <2>6. AxisBreaks'
    <3>1. v3.of.live => v3.of.enable <= v6.enable
      BY DEF AxisEpochs, Before
    <3>2. Axis!Epoch(v6)'.live = TRUE /\ Axis!Epoch(v6)'.enable = v6.enable + 1
      BY <2>2 DEF Axis!Epoch
    <3>3. v3.of # Axis!Epoch(v6)'
      BY <2>1, <3>1, <3>2, EpochsCount
    <3> QED
      BY <2>2, <2>3, <3>3 DEF AxisBreaks
  <2>7. AxisCalibrates' /\ AxisCounts'
    BY <2>2, <2>3 DEF AxisCalibrates, AxisCounts
  <2> QED
    BY <2>4, <2>5, <2>6, <2>7
<1>2. CASE Axis!DriveDrops
  <2> USE <1>2 DEF Axis!DriveDrops
  <2>1. /\ v6' \in Joints /\ v6'.true = v6.true /\ v6'.seen = v6.seen /\ v6'.origin = v6.origin
        /\ v6'.fresh = v6.fresh /\ v6'.valid = v6.valid /\ v6'.reference = v6.reference
        /\ v6'.losses = v6.losses /\ v6'.enable = v6.enable /\ v6'.active = FALSE
    BY AxisRecords DEF Joints
  <2>2. v7' = TRUE /\ UNCHANGED <<v1, v2, v3, v4, v5, v8>>
    OBVIOUS
  <2> HIDE DEF Axis!DriveDrops
  <2>3. Axis!TypeOK'
    <3>1. v7' \in BOOLEAN /\ v8' \in BOOLEAN
      BY <2>2 DEF Axis!TypeOK
    <3> QED
      BY <2>1, <2>2, <3>1, AxisJointTyped
  <2>4. AxisEpochs' /\ AxisBreaks'
    BY <2>1, <2>2 DEF AxisEpochs, AxisBreaks, Axis!Epoch, Before
  <2>5. AxisCalibrates' /\ AxisCounts'
    BY <2>1, <2>2 DEF AxisCalibrates, AxisCounts
  <2> QED
    BY <2>3, <2>4, <2>5
<1> QED
  BY <1>1, <1>2

(* Every step of the axis keeps the invariant, and the target of a cycle   *)
(* starts where the joint is or stays where it was.                        *)
LEMMA AxisSteps ==
  AxisInv /\ [Axis!Next]_Axis!vars => AxisInv' /\ Axis!CatchesUpNothing /\ Axis!KeepsHeldAngle
<1> SUFFICES ASSUME AxisInv, [Axis!Next]_Axis!vars
             PROVE  AxisInv' /\ Axis!CatchesUpNothing /\ Axis!KeepsHeldAngle
  OBVIOUS
<1> USE AxisAssumption
<1>1. CASE Axis!Suspend
  <2>1. AxisInv'
    BY <1>1, AxisWithdraws DEF Axis!Suspend, Axis!ToTurn
  <2> QED
    BY <1>1, <2>1 DEF Axis!Suspend, Axis!CatchesUpNothing, Axis!KeepsHeldAngle
<1>2. CASE Axis!Poll
  BY <1>2, AxisPolls DEF Axis!Poll, Axis!CatchesUpNothing, Axis!KeepsHeldAngle
<1>3. CASE Axis!Reseed
  BY <1>3, AxisReseeds DEF Axis!Reseed, Axis!CatchesUpNothing, Axis!KeepsHeldAngle
<1>4. CASE Axis!Look
  <2> USE DEF Axis!Look, Axis!ToTurn
  <2>1. CASE ~(Axis!FeedbackHealthy /\ v6.active)
    <3>1. v3' = Axis!Withdrawn(v3) /\ v4' = Axis!NoLoop /\ v5' = Axis!NoEffort /\ v7' = TRUE /\ v8' = FALSE
          /\ v2' = "Sleep" /\ v1' = v1 /\ v6' = v6
      BY <1>4, <2>1
    <3> HIDE DEF Axis!Look
    <3> QED
      BY <3>1, AxisWithdraws DEF Axis!CatchesUpNothing, Axis!KeepsHeldAngle
  <2>2. CASE Axis!FeedbackHealthy /\ v6.active
    <3>1. PICK mode \in Axis!Modes, rate \in Axis!Rates, goal \in Axis!Angles, dt \in 0 .. 1 :
            AxisAims(mode, rate, goal, dt)
      BY <1>4, <2>2 DEF AxisAims
    <3>2. /\ v2 = "Look" /\ v2' = "Drive" /\ v8' = FALSE /\ v7' = FALSE /\ v1' = v1 /\ v6' = v6
          /\ v4' = IF v3.of.live /\ ~Axis!IsLive(v3) THEN Axis!NoLoop ELSE v4
          /\ v5' = IF v3.of.live /\ ~Axis!IsLive(v3) THEN Axis!NoEffort ELSE v5
      BY <1>4, <2>2
    <3> HIDE DEF Axis!Look
    <3>3. AxisInv'
      BY <2>2, <3>1, <3>2, AxisLooks
    <3>4. /\ v3'.mode = mode
          /\ v3'.target = Axis!Limits(mode, Axis!Started(mode, goal) + Axis!Stride(mode, rate, goal, dt))
      BY <3>1, AxisRecords DEF AxisInv, AxisAims, Axes
    <3>5. v7 <=> ~Axis!IsLive(v3)
      BY <2>2 DEF AxisInv, AxisBreaks, Axis!IsLive, Axis!FeedbackHealthy
    <3>6. ASSUME mode # "AbsoluteAngle", ~Axis!IsLive(v3)
          PROVE  v3'.target = Axis!Measured
      <4>1. Axis!Stride(mode, rate, goal, dt) = 0
        BY <3>6, AxisStrides
      <4>2. ~Axis!Withdrawn(v3).of.live
        BY AxisRecords, WithdrawnIsTyped, NoLoopIsOver DEF AxisInv
      <4>3. Axis!Started(mode, goal) = Axis!Measured
        BY <3>6, <4>2 DEF Axis!Started
      <4>4. v3'.target = Axis!Limits(mode, Axis!Measured)
        BY <3>4, <4>1, <4>3, AxisMeasures
      <4>5. Axis!Limits(mode, Axis!Measured) = Axis!Measured
        <5>1. CASE v1 = "Continuous"
          <6>1. Axis!Measured \in Axis!Angles
            BY <5>1, AxisRecords DEF AxisInv, Axis!Measured
          <6> QED
            BY <5>1, <6>1, AxisMeasures, AxisTurns DEF Axis!Limits
        <5>2. CASE v1 = "Limited"
          <6>1. Axis!Measured \in Axis!MinAngle .. MaxAngle
            BY <2>2, <5>2 DEF Axis!FeedbackHealthy
          <6>2. Axis!Measured \in Axis!Measured - MaxLead .. Axis!Measured + MaxLead
            BY AxisMeasures
          <6>3. /\ Axis!Measured \in Int /\ Axis!Measured - MaxLead \in Int /\ Axis!Measured + MaxLead \in Int
                /\ Axis!MinAngle \in Int /\ MaxAngle \in Int
            BY AxisMeasures DEF Axis!MinAngle
          <6>4. /\ Axis!Within(Axis!Measured, Axis!MinAngle, MaxAngle) = Axis!Measured
                /\ Axis!Within(Axis!Measured, Axis!Measured - MaxLead, Axis!Measured + MaxLead) = Axis!Measured
            BY <6>1, <6>2, <6>3, WithinIsBetween
          <6> QED
            BY <5>2, <6>4 DEF Axis!Limits
        <5> QED
          BY <5>1, <5>2 DEF AxisInv, Axis!TypeOK
      <4> QED
        BY <4>4, <4>5
    <3>7. ASSUME mode = "Hold", v3.mode = "Hold", Axis!IsLive(v3)
          PROVE  v3'.target = v3.target
      <4>1. Axis!Stride(mode, rate, goal, dt) = 0
        BY <3>7, AxisStrides
      <4>2. v3.of.live
        BY <3>7 DEF Axis!IsLive, Axis!Epoch
      <4>3. Axis!Started(mode, goal) = v3.target /\ v3.target \in Int
        BY <3>7, <4>2, AxisRecords DEF Axis!Started, AxisInv, Axis!Angles
      <4>4. v3'.target = Axis!Limits(mode, v3.target)
        BY <3>4, <4>1, <4>3
      <4>5. Axis!Limits(mode, v3.target) = v3.target
        <5>1. CASE v1 = "Continuous"
          BY <4>3, <5>1, AxisRecords, AxisTurns DEF AxisInv, Axis!Limits
        <5>2. CASE v1 = "Limited"
          <6>1. v3.target \in Axis!MinAngle .. MaxAngle
            BY <4>2, <5>2 DEF AxisInv, Axis!TypeOK
          <6>2. Axis!MinAngle \in Int /\ MaxAngle \in Int
            BY DEF Axis!MinAngle
          <6>3. Axis!Within(v3.target, Axis!MinAngle, MaxAngle) = v3.target
            BY <4>3, <6>1, <6>2, WithinIsBetween
          <6> QED
            BY <3>7, <5>2, <6>3 DEF Axis!Limits
        <5> QED
          BY <5>1, <5>2 DEF AxisInv, Axis!TypeOK
      <4> QED
        BY <4>4, <4>5
    <3> QED
      BY <3>3, <3>4, <3>5, <3>6, <3>7 DEF Axis!CatchesUpNothing, Axis!KeepsHeldAngle
  <2> QED
    BY <2>1, <2>2
<1>5. CASE Axis!Drive
  BY <1>5, AxisDrives DEF Axis!Drive, Axis!CatchesUpNothing, Axis!KeepsHeldAngle
<1>6. CASE Axis!Sleep
  <2>1. v2' = "Poll" /\ v8' = FALSE /\ UNCHANGED <<v1, v3, v4, v5, v6, v7>> /\ v2 = "Sleep"
    BY <1>6 DEF Axis!Sleep, Axis!ToTurn
  <2>2. Axis!TypeOK'
    <3>1. v7' \in BOOLEAN /\ v8' \in BOOLEAN
      BY <2>1 DEF AxisInv, Axis!TypeOK
    <3> QED
      BY <2>1, <3>1, AxisRecords, AxisTyped DEF AxisInv, Axis!TypeOK
  <2>3. AxisEpochs' /\ AxisBreaks'
    BY <2>1 DEF AxisInv, AxisEpochs, AxisBreaks
  <2>4. AxisCalibrates' /\ AxisCounts'
    BY <2>1 DEF AxisInv, AxisCalibrates, AxisCounts
  <2> QED
    BY <2>1, <2>2, <2>3, <2>4 DEF AxisInv, Axis!CatchesUpNothing, Axis!KeepsHeldAngle
<1>7. CASE v2' = v2 /\ AxisInv'
  BY <1>7 DEF Axis!CatchesUpNothing, Axis!KeepsHeldAngle
<1>8. CASE UNCHANGED Axis!vars
  BY <1>7, <1>8 DEF Axis!vars, AxisInv, Axis!TypeOK, AxisEpochs, AxisBreaks, AxisCalibrates, AxisCounts
<1>9. Axis!Frame \/ Axis!FeedbackStops \/ Axis!MovesUnseen \/ Axis!FeedbackReturns
      \/ Axis!DriveActivates \/ Axis!DriveDrops => v2' = v2
  BY DEF Axis!Frame, Axis!FeedbackStops, Axis!MovesUnseen, Axis!FeedbackReturns, Axis!DriveActivates,
         Axis!DriveDrops
<1> QED
  BY <1>1, <1>2, <1>3, <1>4, <1>5, <1>6, <1>7, <1>8, <1>9, AxisFrames, AxisStops, AxisReturns, AxisSwitches
  DEF Axis!Next

(* What the invariant says of the effort.                                  *)
LEMMA AxisKeepsPromises == AxisInv => Axis!TypeOK /\ Axis!EffortIsInItsReference /\ Axis!LimitsAreCalibrated
<1> SUFFICES ASSUME AxisInv PROVE Axis!EffortIsInItsReference /\ Axis!LimitsAreCalibrated
  BY DEF AxisInv
<1>1. Axis!EffortIsInItsReference
  BY DEF AxisInv, AxisEpochs, Axis!EffortIsInItsReference
<1>2. Axis!LimitsAreCalibrated
  BY DEF AxisInv, AxisCalibrates, Axis!LimitsAreCalibrated
<1> QED
  BY <1>1, <1>2

-----------------------------------------------------------------------------
(* The chassis (Chassis): v1 is leg, v2 wheel, v3 seen, v4 swerve, v5      *)
(* limiter, v6 stage, v7 allowed and v8 ramped.                            *)

Wheels == [fresh : BOOLEAN, wanted : BOOLEAN, gaps : 0 .. MaxGaps, reference : 0 .. MaxGaps,
           active : [Wheel!Motors -> BOOLEAN], enable : [Wheel!Motors -> 0 .. MaxEnablings]]
Pasts  == [kept : BOOLEAN, epoch : Wheel!Epochs]

(* A reference begins only after a gap; what is computed is of the         *)
(* enabling its history began in; and no scale has recovered further than  *)
(* the time since the last stop allows.                                    *)
WheelFits ==
    /\ v2.reference <= v2.gaps /\ (~v2.fresh => v2.reference < v2.gaps)
    /\ \A m \in Wheel!Motors :
          v6.effort[m].kind = "Computed" => v6.effort[m].began.enable = v6.effort[m].enable
    /\ v5 <= v8 /\ v6.scale <= v8
    /\ Wheel!PowerIsBudgeted

WheelInv == Wheel!TypeOK /\ WheelFits

(* It holds when the chassis starts.                                       *)
LEMMA WheelStarts == Wheel!Init => WheelInv
<1> SUFFICES ASSUME Wheel!Init PROVE WheelInv
  OBVIOUS
<1> USE WheelAssumption DEF Wheel!Init
<1>1. 0 \in 0 .. Full /\ 0 \in 0 .. MaxGaps /\ 0 \in 0 .. MaxEnablings
  OBVIOUS
<1>2. Wheel!Nowhere \in Wheel!Epochs
  BY <1>1 DEF Wheel!Nowhere, Wheel!Epoch, Wheel!Epochs
<1>3. Wheel!NoEffort \in Wheel!Efforts
  BY <1>1, <1>2 DEF Wheel!NoEffort, Wheel!Efforts
<1>4. Wheel!TypeOK
  BY <1>1, <1>2, <1>3 DEF Wheel!TypeOK, Wheel!Nothing, Wheel!Unseen, Wheel!NoPast
<1>5. WheelFits
  BY <1>1 DEF WheelFits, Wheel!Nothing, Wheel!NoEffort, Wheel!PowerIsBudgeted
<1> QED
  BY <1>4, <1>5 DEF WheelInv

(* Whatever is staged before it is computed is nothing.                    *)
LEMMA NothingIsStaged ==
  /\ Wheel!Nothing \in [effort : [Wheel!Motors -> Wheel!Efforts], scale : 0 .. Full]
  /\ Wheel!Nothing.scale = 0
  /\ \A m \in Wheel!Motors : Wheel!Nothing.effort[m].kind = "None"
<1>1. 0 \in 0 .. Full /\ 0 \in 0 .. MaxGaps /\ 0 \in 0 .. MaxEnablings
  BY WheelAssumption
<1>2. Wheel!Nowhere \in Wheel!Epochs
  BY <1>1 DEF Wheel!Nowhere, Wheel!Epoch, Wheel!Epochs
<1>3. Wheel!NoEffort \in Wheel!Efforts /\ Wheel!NoEffort.kind = "None"
  BY <1>1, <1>2 DEF Wheel!NoEffort, Wheel!Efforts
<1> QED
  BY <1>1, <1>3 DEF Wheel!Nothing

(* What the controllers compute and keep.                                  *)
LEMMA WheelEfforts ==
  ASSUME Wheel!TypeOK, NEW cycle \in BOOLEAN, NEW rolls \in BOOLEAN
  PROVE  /\ [m \in Wheel!Motors |-> Wheel!EffortOf(m, cycle, rolls)] \in [Wheel!Motors -> Wheel!Efforts]
         /\ Wheel!Stepped(cycle, rolls) \in [Wheel!Motors -> Pasts]
         /\ \A m \in Wheel!Motors :
               LET e == Wheel!EffortOf(m, cycle, rolls)
               IN  e.kind = "Computed" => cycle /\ e.began.enable = e.enable
<1>1. ASSUME NEW m \in Wheel!Motors
      PROVE  /\ Wheel!EffortOf(m, cycle, rolls) \in Wheel!Efforts
             /\ Wheel!EffortOf(m, cycle, rolls).kind = "Computed" =>
                   cycle /\ Wheel!EffortOf(m, cycle, rolls).began.enable = Wheel!EffortOf(m, cycle, rolls).enable
             /\ Wheel!Stepped(cycle, rolls)[m] \in Pasts
  <2>1. /\ v3[m].valid \in BOOLEAN /\ v3[m].epoch \in Wheel!Epochs /\ v3[m].epoch.enable \in 0 .. MaxEnablings
        /\ v4[m].kept \in BOOLEAN /\ v4[m].epoch \in Wheel!Epochs
    BY DEF Wheel!TypeOK, Wheel!Epochs
  <2>2. Wheel!NoEffort \in Wheel!Efforts /\ Wheel!NoEffort.kind = "None" /\ Wheel!Nowhere \in Wheel!Epochs
    BY WheelAssumption DEF Wheel!NoEffort, Wheel!Efforts, Wheel!Nowhere, Wheel!Epoch, Wheel!Epochs
  <2>3. Wheel!NoPast[m] \in Pasts
    BY <2>2 DEF Wheel!NoPast, Pasts
  <2>4. CASE Wheel!IsIdle(m, cycle, rolls)
    <3>1. [Wheel!NoEffort EXCEPT !.kind = "Zero", !.enable = v3[m].epoch.enable] \in Wheel!Efforts
          /\ [Wheel!NoEffort EXCEPT !.kind = "Zero", !.enable = v3[m].epoch.enable].kind # "Computed"
      BY <2>1, <2>2 DEF Wheel!Efforts
    <3> QED
      BY <2>2, <2>3, <2>4, <3>1 DEF Wheel!EffortOf, Wheel!Stepped
  <2>5. CASE ~Wheel!IsIdle(m, cycle, rolls)
    <3>1. cycle
      BY <2>5 DEF Wheel!IsIdle
    <3> QED
      BY <2>1, <2>5, <3>1 DEF Wheel!EffortOf, Wheel!Stepped, Wheel!Efforts, Pasts, Wheel!Continues
  <2> QED
    BY <2>4, <2>5
<1>2. Wheel!Stepped(cycle, rolls) = [m \in Wheel!Motors |-> Wheel!Stepped(cycle, rolls)[m]]
  BY DEF Wheel!Stepped
<1>3. Wheel!Stepped(cycle, rolls) \in [Wheel!Motors -> Pasts]
  <2> HIDE DEF Wheel!Stepped
  <2> QED
    BY <1>1, <1>2
<1> QED
  BY <1>1, <1>3

(* A cycle that is not executed stops everything.                          *)
LEMMA WheelSuspends ==
  ASSUME WheelInv, Wheel!Suspend
  PROVE  WheelInv'
<1> USE WheelAssumption DEF WheelInv, Wheel!Suspend
<1>1. v2' \in Wheels /\ v2'.reference = v2.reference /\ v2'.gaps = v2.gaps /\ v2'.fresh = v2.fresh
  BY DEF Wheel!TypeOK, Wheels
<1>2. v5' \in 0 .. Full /\ v7' \in 0 .. Full /\ v8' \in 0 .. Full
  BY DEF Wheel!LimiterReset
<1>3. Wheel!TypeOK'
  BY <1>1, <1>2, NothingIsStaged DEF Wheel!TypeOK, Wheels
<1>4. WheelFits'
  BY <1>1, NothingIsStaged DEF WheelFits, Wheel!PowerIsBudgeted, Wheel!LimiterReset
<1> QED
  BY <1>3, <1>4

(* The motors are read.                                                    *)
LEMMA WheelReads ==
  ASSUME WheelInv, Wheel!Read
  PROVE  WheelInv'
<1> USE WheelAssumption DEF WheelInv, Wheel!Read
<1>1. v2' \in Wheels /\ v2'.reference = v2.reference /\ v2'.gaps = v2.gaps /\ v2'.fresh = v2.fresh
  BY DEF Wheel!TypeOK, Wheels
<1>2. ASSUME NEW m \in Wheel!Motors
      PROVE  Wheel!EpochOf(m) \in Wheel!Epochs /\ Wheel!Unseen[m] \in [valid : BOOLEAN, epoch : Wheel!Epochs]
  BY DEF Wheel!TypeOK, Wheel!EpochOf, Wheel!Epoch, Wheel!Epochs, Wheel!Unseen, Wheel!Nowhere
<1>3. v3' \in [Wheel!Motors -> [valid : BOOLEAN, epoch : Wheel!Epochs]]
  BY <1>2
<1>4. Wheel!TypeOK'
  BY <1>1, <1>3 DEF Wheel!TypeOK, Wheels
<1>5. WheelFits'
  BY <1>1 DEF WheelFits, Wheel!PowerIsBudgeted
<1> QED
  BY <1>4, <1>5

(* Efforts are staged at a scale the decision of this cycle allows.        *)
LEMMA WheelStages ==
  ASSUME WheelInv, Wheel!Stage
  PROVE  WheelInv'
<1> USE WheelAssumption DEF WheelInv, Wheel!Stage
<1>1. v3' \in [Wheel!Motors -> [valid : BOOLEAN, epoch : Wheel!Epochs]]
  BY DEF Wheel!Unseen, Wheel!Nowhere, Wheel!Epoch, Wheel!Epochs
<1>2. v5 \in 0 .. Full /\ v8 \in 0 .. Full /\ v6.scale \in 0 .. Full /\ 0 \in 0 .. Full
      /\ v6 \in [effort : [Wheel!Motors -> Wheel!Efforts], scale : 0 .. Full] /\ v5 <= v8 /\ v6.scale <= v8
  BY DEF Wheel!TypeOK, WheelFits
<1>3. CASE Wheel!LostCycle
  <2>1. PICK rolls \in BOOLEAN :
          /\ v4' = Wheel!Stepped(FALSE, rolls)
          /\ v6' = [v6 EXCEPT !.effort = [m \in Wheel!Motors |-> Wheel!EffortOf(m, FALSE, rolls)]]
    BY <1>3 DEF Wheel!LostCycle
  <2>2. v6' \in [effort : [Wheel!Motors -> Wheel!Efforts], scale : 0 .. Full] /\ v6'.scale = v6.scale
        /\ (\A m \in Wheel!Motors : v6'.effort[m].kind # "Computed")
    BY <1>2, <2>1, WheelEfforts
  <2>3. v4' \in [Wheel!Motors -> Pasts]
    BY <2>1, WheelEfforts
  <2>4. Wheel!TypeOK'
    BY <1>1, <1>2, <1>3, <2>2, <2>3 DEF Wheel!LostCycle, Wheel!TypeOK, Pasts
  <2>5. WheelFits'
    BY <1>2, <1>3, <2>2 DEF Wheel!LostCycle, WheelFits, Wheel!PowerIsBudgeted
  <2> QED
    BY <2>4, <2>5
<1>4. CASE Wheel!NoBudget
  <2>1. v4' \in [Wheel!Motors -> Pasts]
    BY <1>4, WheelEfforts DEF Wheel!NoBudget
  <2>2. Wheel!TypeOK'
    BY <1>1, <1>2, <1>4, <2>1, NothingIsStaged DEF Wheel!NoBudget, Wheel!TypeOK, Pasts
  <2>3. WheelFits'
    BY <1>2, <1>4, NothingIsStaged DEF Wheel!NoBudget, WheelFits, Wheel!PowerIsBudgeted
  <2> QED
    BY <2>2, <2>3
<1>5. CASE Wheel!Budgeted
  <2>1. PICK rolls \in BOOLEAN, target \in 0 .. Full :
          /\ v4' = Wheel!Stepped(TRUE, rolls)
          /\ v6' = [effort |-> [m \in Wheel!Motors |-> Wheel!EffortOf(m, TRUE, rolls)],
                    scale |-> Wheel!Decision(target)]
          /\ v5' = Wheel!Decision(target)
          /\ v7' = target
    BY <1>5 DEF Wheel!Budgeted
  <2>2. v8' = Wheel!Least(Full, v8 + Recovery)
    BY <1>5 DEF Wheel!Budgeted
  <2>3. /\ Wheel!Decision(target) \in 0 .. Full /\ Wheel!Decision(target) <= target
        /\ v8' \in 0 .. Full /\ Wheel!Decision(target) <= v8'
    BY <1>2, <2>2 DEF Wheel!Decision, Wheel!Least
  <2>4. v6' \in [effort : [Wheel!Motors -> Wheel!Efforts], scale : 0 .. Full] /\ v6'.scale = Wheel!Decision(target)
        /\ (\A m \in Wheel!Motors : v6'.effort[m].kind = "Computed" => v6'.effort[m].began.enable = v6'.effort[m].enable)
    BY <2>1, <2>3, WheelEfforts
  <2>5. v4' \in [Wheel!Motors -> Pasts]
    BY <2>1, WheelEfforts
  <2>6. Wheel!TypeOK'
    BY <1>1, <2>1, <2>3, <2>4, <2>5 DEF Wheel!TypeOK, Pasts
  <2>7. WheelFits'
    BY <2>1, <2>3, <2>4 DEF WheelFits, Wheel!PowerIsBudgeted
  <2> QED
    BY <2>6, <2>7
<1> QED
  BY <1>3, <1>4, <1>5

(* The CAN thread changes the motors alone.                                *)
LEMMA WheelChanges ==
  ASSUME WheelInv,
         \/ Wheel!FeedbackStops \/ Wheel!FeedbackReturns
         \/ \E m \in Wheel!Motors : Wheel!Activates(m) \/ Wheel!Drops(m)
  PROVE  WheelInv'
<1> USE WheelAssumption DEF WheelInv
<1>1. v2 \in Wheels /\ v2.reference <= v2.gaps /\ (~v2.fresh => v2.reference < v2.gaps)
      /\ UNCHANGED <<v1, v3, v4, v5, v6, v7, v8>>
  BY DEF Wheel!TypeOK, Wheels, WheelFits, Wheel!FeedbackStops, Wheel!FeedbackReturns,
         Wheel!Activates, Wheel!Drops
<1>2. v2' \in Wheels /\ v2'.reference <= v2'.gaps /\ (~v2'.fresh => v2'.reference < v2'.gaps)
  <2>1. CASE Wheel!FeedbackStops
    <3>1. v2.gaps + 1 \in 0 .. MaxGaps /\ v2' = [v2 EXCEPT !.fresh = FALSE, !.gaps = v2.gaps + 1]
      BY <1>1, <2>1 DEF Wheel!FeedbackStops, Wheels
    <3>2. v2' \in Wheels /\ v2'.gaps = v2.gaps + 1 /\ v2'.reference = v2.reference
      BY <1>1, <3>1 DEF Wheels
    <3> QED
      BY <1>1, <3>2 DEF Wheels
  <2>2. CASE Wheel!FeedbackReturns
    <3>1. v2.reference + 1 \in 0 .. MaxGaps /\ v2' = [v2 EXCEPT !.fresh = TRUE, !.reference = v2.reference + 1]
      BY <1>1, <2>2 DEF Wheel!FeedbackReturns, Wheels
    <3>2. v2' \in Wheels /\ v2'.gaps = v2.gaps /\ v2'.reference = v2.reference + 1 /\ v2'.fresh
      BY <1>1, <3>1 DEF Wheels
    <3> QED
      BY <1>1, <2>2, <3>2 DEF Wheels, Wheel!FeedbackReturns
  <2>3. ASSUME NEW m \in Wheel!Motors, Wheel!Activates(m)
        PROVE  v2' \in Wheels /\ v2'.reference = v2.reference /\ v2'.gaps = v2.gaps /\ v2'.fresh = v2.fresh
    <3>1. v2.enable[m] + 1 \in 0 .. MaxEnablings
      <4>1. v2.enable[m] \in 0 .. MaxEnablings
        BY <1>1 DEF Wheels
      <4>2. v2.enable[m] < MaxEnablings
        BY <2>3 DEF Wheel!Activates
      <4> QED
        BY <4>1, <4>2
    <3>2. [v2.enable EXCEPT ![m] = v2.enable[m] + 1] \in [Wheel!Motors -> 0 .. MaxEnablings]
      BY <1>1, <3>1 DEF Wheels
    <3>3. [v2.active EXCEPT ![m] = TRUE] \in [Wheel!Motors -> BOOLEAN]
      BY <1>1 DEF Wheels
    <3>4. v2' = [v2 EXCEPT !.active = [v2.active EXCEPT ![m] = TRUE],
                           !.enable = [v2.enable EXCEPT ![m] = v2.enable[m] + 1]]
      BY <1>1, <2>3 DEF Wheels, Wheel!Activates
    <3> QED
      BY <1>1, <3>2, <3>3, <3>4 DEF Wheels
  <2>4. ASSUME NEW m \in Wheel!Motors, Wheel!Drops(m)
        PROVE  v2' \in Wheels /\ v2'.reference = v2.reference /\ v2'.gaps = v2.gaps /\ v2'.fresh = v2.fresh
    BY <1>1, <2>4 DEF Wheels, Wheel!Drops
  <2> QED
    BY <1>1, <2>1, <2>2, <2>3, <2>4
<1>3. Wheel!TypeOK'
  BY <1>1, <1>2 DEF Wheel!TypeOK, Wheels
<1>4. WheelFits'
  BY <1>1, <1>2 DEF WheelFits, Wheel!PowerIsBudgeted
<1> QED
  BY <1>3, <1>4

(* Every step of the chassis keeps the invariant.                          *)
LEMMA WheelSteps == WheelInv /\ [Wheel!Next]_Wheel!chassis => WheelInv'
<1> SUFFICES ASSUME WheelInv, [Wheel!Next]_Wheel!chassis PROVE WheelInv'
  OBVIOUS
<1>1. CASE Wheel!Sleep \/ UNCHANGED Wheel!chassis
  <2>1. UNCHANGED <<v2, v3, v4, v5, v6, v7, v8>> /\ v1' \in {v1, "Read"}
    BY <1>1 DEF Wheel!Sleep, Wheel!chassis
  <2>2. Wheel!TypeOK'
    BY <2>1 DEF WheelInv, Wheel!TypeOK
  <2>3. WheelFits'
    BY <2>1 DEF WheelInv, WheelFits, Wheel!PowerIsBudgeted
  <2> QED
    BY <2>2, <2>3 DEF WheelInv
<1> QED
  BY <1>1, WheelSuspends, WheelReads, WheelStages, WheelChanges DEF Wheel!Next

-----------------------------------------------------------------------------
(* The rigs together.                                                      *)

(* Every step of the board keeps the invariant.                            *)
LEMMA SecondSteps == SecondInv /\ [Second!Next]_Second!vars => SecondInv'
<1> SUFFICES ASSUME SecondInv, [Second!Next]_Second!vars PROVE SecondInv'
  OBVIOUS
<1>1. CASE Second!Activates
  <2>1. v8'.effort = v8.effort /\ v8'.asked = v8.asked /\ v8'.boot = v8.boot
    BY <1>1 DEF Second!Activates, SecondInv, Second!TypeOK
  <2>2. Second!TypeOK'
    BY <1>1 DEF Second!Activates, SecondInv, Second!TypeOK
  <2>3. SecondOrders' /\ SecondMoves'
    BY <1>1, <2>1 DEF Second!Activates, SecondInv, SecondOrders, SecondMoves, Aging
  <2> QED
    BY <2>2, <2>3 DEF SecondInv
<1>2. CASE UNCHANGED Second!vars
  BY <1>2 DEF Second!vars, SecondInv, Second!TypeOK, SecondOrders, SecondMoves, Aging
<1> QED
  BY <1>1, <1>2, SecondPolls, SecondReboots, SecondRuns, SecondTicks DEF Second!Next
(* The module that takes steps is chosen once, and takes all of them.      *)
LEMMA RigSteps ==
  ASSUME [Next]_vars
  PROVE  /\ rig' = rig
         /\ rig = "Gun" => [Gun!Next]_Gun!vars
         /\ rig = "Axis" => [Axis!Next]_Axis!vars
         /\ rig = "Head" => [Head!Next]_Head!vars
         /\ rig = "Wheel" => [Wheel!Next]_Wheel!chassis
         /\ rig = "Board" => [Board!Next]_Board!bench
         /\ rig = "Second" => [Second!Next]_Second!vars
         /\ rig = "Who" => [Who!Next]_Who!vars
<1>1. CASE UNCHANGED vars
  BY <1>1 DEF vars, Gun!vars, Axis!vars, Head!vars, Wheel!chassis, Board!bench, Second!vars, Who!vars
<1>2. CASE Next
  BY <1>2 DEF Next
<1> QED
  BY <1>1, <1>2

(* A revocation is prompt on the gimbal board, and nothing moves on the    *)
(* chassis board by a request that is too old or of another boot: after    *)
(* the peer was lost the gate of the execution thread is closed by the     *)
(* flag, whatever the threads' order, and a request kept through an        *)
(* exercise has outlived itself before a new boot can permit to run.       *)
THEOREM RevocationHolds == Spec => []RevocationIsPrompt
<1> DEFINE Inv == (rig = "Board" => BoardInv) /\ (rig = "Second" => SecondInv)
<1>1. Init => Inv
  BY BoardStarts, SecondStarts DEF Init
<1>2. Inv /\ [Next]_vars => Inv'
  BY RigSteps, BoardSteps, SecondSteps
<1>3. Inv => RevocationIsPrompt
  <2>1. BoardInv => Board!RevocationIsPrompt /\ Board!RequestIsAsOld
    BY DEF BoardInv, BoardRevokes, BoardFits, Truthful, Board!RevocationIsPrompt, Board!RequestIsAsOld
  <2>2. SecondInv => Second!MovesInTime /\ Second!OrdersAreOfThisBoot
    BY BoardAssumption, SecondAssumption
    DEF SecondInv, Second!TypeOK, SecondMoves, Second!Moving, Second!MovesInTime, Second!OrdersAreOfThisBoot,
        Second!Longest
  <2> QED
    BY <2>1, <2>2 DEF RevocationIsPrompt
<1> QED
  BY <1>1, <1>2, <1>3, PTL DEF Spec

(* The head is aimed only at goals of the frame it measures in, at none    *)
(* from before it was let go, and at the camera's only from when the       *)
(* operator handed over to it (Gimbal::aim() and CommandArbiter): a goal   *)
(* that is kept is of the reference it is kept for, and the record of the  *)
(* handing over agrees with the arbiter's own entry and baseline.          *)
THEOREM GoalsStayCurrent == Spec => GoalsAreCurrent
<1> DEFINE Inv == (rig = "Head" => HeadInv) /\ (rig = "Who" => WhoInv)
           Act == rig = "Head" => Head!AimsInOneFrame /\ Head!ForgetsReleased
           Now == rig = "Who" => Who!TargetsAreOfThisEntry
<1>1. Init => Inv
  BY HeadStarts, WhoStarts DEF Init
<1>2. Inv /\ [Next]_vars => Inv'
  BY RigSteps, HeadSteps, WhoSteps
<1>3. Inv /\ [Next]_vars => [Act]_vars
  <2> SUFFICES ASSUME Inv, Next, rig = "Head", ~UNCHANGED vars
               PROVE  Head!AimsInOneFrame /\ Head!ForgetsReleased
    OBVIOUS
  <2>1. Head!Next /\ UNCHANGED <<rig, free8>>
    BY DEF Next
  <2>2. ~UNCHANGED <<v1, v2, v3, v4, v5, v6, v7>>
    BY <2>1 DEF vars, free8, free9
  <2> QED
    BY <2>1, <2>2, HeadActs
<1>4. Inv => Now
  BY DEF WhoInv
<1> QED
  BY <1>1, <1>2, <1>3, <1>4, PTL DEF Spec, GoalsAreCurrent

(* The big yaw starts from rest, and neither it nor the power of the       *)
(* wheels grows faster than the time since the last stop allows (the ramp  *)
(* of CenteringController and PowerLimiter): what remains of an older      *)
(* cycle is never above the ramp.                                          *)
THEOREM RampsStartAtRest == Spec => []RampsFromRest
<1> DEFINE Inv == (rig = "Head" => HeadInv) /\ (rig = "Wheel" => WheelInv)
<1>1. Init => Inv
  BY HeadStarts, WheelStarts DEF Init
<1>2. Inv /\ [Next]_vars => Inv'
  BY RigSteps, HeadSteps, WheelSteps
<1>3. Inv => RampsFromRest
  BY DEF HeadInv, HeadFits, WheelInv, WheelFits, Wheel!PowerRampsUp, RampsFromRest
<1> QED
  BY <1>1, <1>2, <1>3, PTL DEF Spec

(* The target of an axis restarts where the joint is after any             *)
(* interruption and stays where it was while the axis holds                *)
(* (GimbalAxisController::update()): the axis is interrupted exactly when  *)
(* its target is of another epoch than the joint's.                        *)
THEOREM TargetsStay == Spec => TargetsStayPut
<1> DEFINE Inv == rig = "Axis" => AxisInv
           Act == rig = "Axis" => Axis!CatchesUpNothing /\ Axis!KeepsHeldAngle
<1>1. Init => Inv
  BY AxisStarts DEF Init
<1>2. Inv /\ [Next]_vars => Inv' /\ [Act]_vars
  BY RigSteps, AxisSteps
<1> QED
  BY <1>1, <1>2, PTL DEF Spec, TargetsStayPut

=============================================================================
