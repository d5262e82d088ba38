--------------------------- MODULE InterboardCodec ---------------------------
(***************************************************************************)
(* The payloads of the messages between the boards:                        *)
(* lib/communication/interboard_codec.cpp and communication/wire.hpp.      *)
(*                                                                         *)
(* A field is the sequence of its bytes, least significant first, so that  *)
(* a word is read and written by its place alone.  The sender encodes a    *)
(* message, which it does by decoding it again; the peer decodes the       *)
(* frame, whose payload may be of another build of the program.  The       *)
(* length, the CRC and the marks of a frame are those of FrameScanner.     *)
(***************************************************************************)
EXTENDS Naturals, Sequences

CONSTANTS
    Messages, \* what the sender is given
    Sequences,\* of the frames
    Others    \* the values a byte of another build may have

VARIABLES
    message, \* what the sender was given
    frame,   \* what is on the wire
    received \* what the peer decoded

vars == <<message, frame, received>>

Nothing == [kind |-> "Nothing"]

Gimbal  == <<1>>
Chassis == <<2>>

(* loadLe16, loadLe32 and loadLe64 of wire.hpp *)
Byte(p, at) == SubSeq(p, at + 1, at + 1)
Word(p, at) == SubSeq(p, at + 1, at + 4)
Eight(p, at) == SubSeq(p, at + 1, at + 8)

AtMost(byte, top) == byte[1] <= top
Flag(byte)        == AtMost(byte, 1)
IsZero(word)      == \A i \in DOMAIN word : word[i] = 0
Never             == <<255, 255, 255, 255>> \* UINT32_MAX

(* isfinite() of the four bytes of a float, and its being below zero.      *)
Finite(w)   == ~(w[4] % 128 = 127 /\ w[3] >= 128)
Negative(w) == w[4] >= 128 /\ w # <<0, 0, 0, 128>>

-----------------------------------------------------------------------------
(* What each message is made of, in the order it is stored.                *)

HeartbeatPayload(t) ==
    t.role \o t.safety_state \o t.ready \o t.sync_requested \o t.active_reasons \o t.sender_uptime_ms
    \o t.sender_boot_id

HeartbeatParsed(p) ==
    [kind |-> "Heartbeat", role |-> Byte(p, 0), safety_state |-> Byte(p, 1), ready |-> Byte(p, 2),
     sync_requested |-> Byte(p, 3), active_reasons |-> Word(p, 4), sender_uptime_ms |-> Word(p, 8),
     sender_boot_id |-> Eight(p, 12)]

HeartbeatLegal(role, p) ==
    /\ role \in {Gimbal, Chassis} /\ Byte(p, 0) = role
    /\ AtMost(Byte(p, 1), 6) /\ Flag(Byte(p, 2)) /\ Flag(Byte(p, 3))
    /\ ~IsZero(Eight(p, 12))

ControlPayload(t) ==
    t.mode \o t.source \o t.global_action \o <<0>> \o t.vx \o t.vy \o t.wz \o t.active_reasons \o t.stamp
    \o t.receiver_boot_id

ControlParsed(p) ==
    [kind |-> "ChassisControl", mode |-> Byte(p, 0), source |-> Byte(p, 1), global_action |-> Byte(p, 2),
     vx |-> Word(p, 4), vy |-> Word(p, 8), wz |-> Word(p, 12), active_reasons |-> Word(p, 16),
     stamp |-> Word(p, 20), receiver_boot_id |-> Eight(p, 24)]

ControlLegal(role, p) ==
    /\ role = Gimbal
    /\ AtMost(Byte(p, 0), 2) /\ AtMost(Byte(p, 1), 4) /\ AtMost(Byte(p, 2), 2) /\ IsZero(Byte(p, 3))
    /\ \A at \in {4, 8, 12} : Finite(Word(p, at))

ConstraintPayload(t) ==
    t.valid \o t.enabled \o t.power_valid \o <<0>> \o t.power_limit_w \o t.buffer_energy_j \o t.output_age_ms
    \o t.power_age_ms

ConstraintParsed(p) ==
    [kind |-> "ChassisConstraint", valid |-> Byte(p, 0), enabled |-> Byte(p, 1), power_valid |-> Byte(p, 2),
     power_limit_w |-> Word(p, 4), buffer_energy_j |-> Word(p, 8), output_age_ms |-> Word(p, 12),
     power_age_ms |-> Word(p, 16)]

ConstraintLegal(role, p) ==
    /\ role = Gimbal
    /\ Flag(Byte(p, 0)) /\ Flag(Byte(p, 1)) /\ Flag(Byte(p, 2)) /\ IsZero(Byte(p, 3))
    /\ \A at \in {4, 8} : Finite(Word(p, at)) /\ ~Negative(Word(p, at))

FeedbackPayload(t) ==
    t.execution_state \o t.safety_state \o t.ready \o t.armed \o t.active_reasons \o t.last_command_sequence
    \o t.valid_fields \o t.vx \o t.vy \o t.wz \o t.power_w

FeedbackParsed(p) ==
    [kind |-> "ChassisFeedback", execution_state |-> Byte(p, 0), safety_state |-> Byte(p, 1),
     ready |-> Byte(p, 2), armed |-> Byte(p, 3), active_reasons |-> Word(p, 4),
     last_command_sequence |-> Word(p, 8), valid_fields |-> Word(p, 12), vx |-> Word(p, 16),
     vy |-> Word(p, 20), wz |-> Word(p, 24), power_w |-> Word(p, 28)]

FeedbackLegal(role, p) ==
    /\ role = Chassis
    /\ AtMost(Byte(p, 0), 5) /\ AtMost(Byte(p, 1), 6) /\ Flag(Byte(p, 2)) /\ Flag(Byte(p, 3))
    /\ AtMost(Byte(p, 12), 3) /\ IsZero(SubSeq(p, 14, 16))
    /\ \A at \in {16, 20, 24, 28} : Finite(Word(p, at))
    /\ ~Negative(Word(p, 28))

OperatorPayload(t) ==
    t.run_allowed \o t.emergency_stop \o <<0, 0>> \o t.source_sequence \o t.source_age_ms \o t.clear_event_id
    \o t.clear_event_age_ms \o t.sender_boot_id \o t.receiver_boot_id

OperatorParsed(p) ==
    [kind |-> "OperatorControl", run_allowed |-> Byte(p, 0), emergency_stop |-> Byte(p, 1),
     source_sequence |-> Word(p, 4), source_age_ms |-> Word(p, 8), clear_event_id |-> Word(p, 12),
     clear_event_age_ms |-> Word(p, 16), sender_boot_id |-> Eight(p, 20), receiver_boot_id |-> Eight(p, 28)]

(* The operator runs, stops or clears: never two of them in one message.   *)
OperatorLegal(role, p) ==
    /\ role = Gimbal
    /\ Flag(Byte(p, 0)) /\ Flag(Byte(p, 1)) /\ IsZero(SubSeq(p, 3, 4))
    /\ ~IsZero(Eight(p, 20)) /\ ~IsZero(Eight(p, 28))
    /\ IsZero(Byte(p, 0)) \/ IsZero(Byte(p, 1))
    /\ IF IsZero(Word(p, 12)) THEN Word(p, 16) = Never ELSE IsZero(SubSeq(p, 1, 2))

YawRequestPayload(t) ==
    t.mode \o t.valid \o t.enabled \o <<0>> \o t.target_rate \o t.source_sequence \o t.source_age_ms
    \o t.command_age_ms \o t.receiver_boot_id \o t.permission_age_ms \o t.stamp

YawRequestParsed(p) ==
    [kind |-> "BigYawRequest", mode |-> Byte(p, 0), valid |-> Byte(p, 1), enabled |-> Byte(p, 2),
     target_rate |-> Word(p, 4), source_sequence |-> Word(p, 8), source_age_ms |-> Word(p, 12),
     command_age_ms |-> Word(p, 16), receiver_boot_id |-> Eight(p, 20), permission_age_ms |-> Word(p, 28),
     stamp |-> Word(p, 32)]

YawRequestLegal(role, p) ==
    /\ role = Gimbal
    /\ Flag(Byte(p, 0)) /\ Flag(Byte(p, 1)) /\ Flag(Byte(p, 2)) /\ IsZero(Byte(p, 3))
    /\ Finite(Word(p, 4))

YawFeedbackPayload(t) ==
    t.execution_state \o t.ready \o t.armed \o t.valid \o t.actual_rate \o t.active_reasons
    \o t.last_command_sequence \o t.source_sequence \o t.production_age_ms

YawFeedbackParsed(p) ==
    [kind |-> "BigYawFeedback", execution_state |-> Byte(p, 0), ready |-> Byte(p, 1), armed |-> Byte(p, 2),
     valid |-> Byte(p, 3), actual_rate |-> Word(p, 4), active_reasons |-> Word(p, 8),
     last_command_sequence |-> Word(p, 12), source_sequence |-> Word(p, 16), production_age_ms |-> Word(p, 20)]

YawFeedbackLegal(role, p) ==
    /\ role = Chassis
    /\ AtMost(Byte(p, 0), 5) /\ Flag(Byte(p, 1)) /\ Flag(Byte(p, 2)) /\ Flag(Byte(p, 3))
    /\ Finite(Word(p, 4))

-----------------------------------------------------------------------------
(* The two ends.                                                           *)

Payload(t) ==
    CASE t.kind = "Heartbeat"         -> HeartbeatPayload(t)
      [] t.kind = "ChassisControl"    -> ControlPayload(t)
      [] t.kind = "ChassisConstraint" -> ConstraintPayload(t)
      [] t.kind = "ChassisFeedback"   -> FeedbackPayload(t)
      [] t.kind = "OperatorControl"   -> OperatorPayload(t)
      [] t.kind = "BigYawRequest"     -> YawRequestPayload(t)
      [] t.kind = "BigYawFeedback"    -> YawFeedbackPayload(t)

Parsed(kind, p) ==
    CASE kind = "Heartbeat"         -> HeartbeatParsed(p)
      [] kind = "ChassisControl"    -> ControlParsed(p)
      [] kind = "ChassisConstraint" -> ConstraintParsed(p)
      [] kind = "ChassisFeedback"   -> FeedbackParsed(p)
      [] kind = "OperatorControl"   -> OperatorParsed(p)
      [] kind = "BigYawRequest"     -> YawRequestParsed(p)
      [] kind = "BigYawFeedback"    -> YawFeedbackParsed(p)

Legal(kind, role, p) ==
    CASE kind = "Heartbeat"         -> HeartbeatLegal(role, p)
      [] kind = "ChassisControl"    -> ControlLegal(role, p)
      [] kind = "ChassisConstraint" -> ConstraintLegal(role, p)
      [] kind = "ChassisFeedback"   -> FeedbackLegal(role, p)
      [] kind = "OperatorControl"   -> OperatorLegal(role, p)
      [] kind = "BigYawRequest"     -> YawRequestLegal(role, p)
      [] kind = "BigYawFeedback"    -> YawFeedbackLegal(role, p)

(* The board that produces a message. *)
Sender(t) ==
    CASE t.kind = "Heartbeat" -> t.role
      [] t.kind \in {"ChassisFeedback", "BigYawFeedback"} -> Chassis
      [] OTHER -> Gimbal

(* The sequence of a message, which a command has from its producer and    *)
(* the others from their frame.                                            *)
SequenceOf(kind, body, seq) == IF kind \in {"ChassisControl", "BigYawRequest"} THEN body.stamp ELSE seq

(* encodeHeartbeat() and its like: a message that could not be decoded is  *)
(* not sent.                                                               *)
Encode(t, seq) ==
    /\ message = Nothing
    /\ message' = t
    /\ frame' = IF Legal(t.kind, Sender(t), Payload(t))
                THEN [kind |-> t.kind, role |-> Sender(t), seq |-> seq, payload |-> Payload(t), ours |-> TRUE]
                ELSE Nothing
    /\ UNCHANGED received

(* The peer runs another build: a byte of the payload differs, or it takes *)
(* itself for the other board.                                             *)
Differ ==
    /\ frame # Nothing /\ frame.ours /\ received = Nothing
    /\ \/ \E i \in DOMAIN frame.payload, b \in Others :
            frame' = [frame EXCEPT !.payload[i] = b, !.ours = frame.payload[i] = b]
       \/ frame' = [frame EXCEPT !.role = IF @ = Gimbal THEN Chassis ELSE Gimbal, !.ours = FALSE]
    /\ UNCHANGED <<message, received>>

(* decodeHeartbeat() and its like *)
Decode ==
    /\ frame # Nothing /\ received = Nothing
    /\ Legal(frame.kind, frame.role, frame.payload)
    /\ LET body == Parsed(frame.kind, frame.payload)
       IN  received' = [kind |-> frame.kind, body |-> body,
                        sequence |-> SequenceOf(frame.kind, body, frame.seq)]
    /\ UNCHANGED <<message, frame>>

Init == message = Nothing /\ frame = Nothing /\ received = Nothing

Next == (\E t \in Messages, seq \in Sequences : Encode(t, seq)) \/ Differ \/ Decode

Spec == Init /\ [][Next]_vars

-----------------------------------------------------------------------------
Lengths == [Heartbeat |-> 20, ChassisControl |-> 32, ChassisConstraint |-> 20, ChassisFeedback |-> 32,
            OperatorControl |-> 36, BigYawRequest |-> 36, BigYawFeedback |-> 24]

(* The type invariant: a payload has the length its decoder insists on.    *)
TypeOK ==
    /\ message \in Messages \cup {Nothing}
    /\ frame # Nothing =>
        frame.role \in {Gimbal, Chassis} /\ Len(frame.payload) = Lengths[frame.kind]
    /\ received # Nothing => received.kind \in DOMAIN Lengths

(* What a board sends its peer takes as it was meant: no field lands on    *)
(* another, and a command that is sent again keeps the age and the         *)
(* sequence of its producer (InterBoardCodec).                             *)
MeaningIsKept ==
    frame # Nothing /\ frame.ours =>
        /\ Legal(frame.kind, frame.role, frame.payload)
        /\ received # Nothing =>
            received.body = message /\ received.sequence = SequenceOf(message.kind, message, frame.seq)

(* What a board takes, of whatever build its peer is, it could have sent   *)
(* itself, with the same payload: no byte is passed over.                  *)
NothingIsOverlooked ==
    received # Nothing => Sender(received.body) = frame.role /\ Payload(received.body) = frame.payload
=============================================================================
