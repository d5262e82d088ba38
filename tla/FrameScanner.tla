----------------------------- MODULE FrameScanner -----------------------------
(***************************************************************************)
(* The parsers that find protocol frames in a stream of bytes:             *)
(*   - DmImuRs485Parser and AbProtocol: frames of one length, and after a  *)
(*     timeout everything half read is dropped;                            *)
(*   - DmImuParser: frames of two lengths, dropped likewise;               *)
(*   - InterBoardParser and RefereeParser: frames of two lengths, and a    *)
(*     timeout drops the first byte only and scans what follows again.     *)
(* (drivers/imu/dm_imu_protocol.cpp, lib/communication/interboard_parser   *)
(* .cpp, referee.cpp, vision_ab_protocol.cpp.)                             *)
(*                                                                         *)
(* A byte is the start of a frame, the mark of a short or of a long one,   *)
(* or an end with which the CRC or the trailer is right; any of them may   *)
(* also be payload or noise.                                               *)
(***************************************************************************)
EXTENDS Naturals, Sequences, SequencesExt

CONSTANTS
    Short, Long, \* the lengths of the frames
    Timeout,     \* the assembly timeout
    MaxBytes,    \* bound: bytes of the stream
    MaxChunk,    \* bound: bytes of a call of consume()
    MaxTime      \* bound: the end of time

Bytes == {"Start", "IsShort", "IsLong", "End"}

VARIABLES
    parser,  \* whether it knows long frames, and drops all at a timeout
    clock,   \* the time of the last call of consume()
    stream,  \* the bytes received
    buffer,  \* the bytes it keeps: value, place in the stream, time of reception
    started,\* started_ms_, times_[0]
    frames,  \* the frames delivered: first and last place
    given_up \* the places given up at a timeout

scanVars == <<parser, clock, stream, buffer, started, frames, given_up>>

Init ==
    /\ parser \in {p \in [long : BOOLEAN, whole : BOOLEAN] : p.long \/ p.whole}
    /\ clock = 0 /\ stream = <<>> /\ buffer = <<>> /\ started = 0 /\ frames = <<>> /\ given_up = {}

-----------------------------------------------------------------------------
Total(b) == IF b[2].byte = "IsShort" THEN Short ELSE Long

(* What b begins with is no frame: its header, or its end, is wrong.       *)
Refused(b) ==
    \/ b[1].byte # "Start"
    \/ Len(b) >= 2 /\ b[2].byte \notin {"IsShort"} \cup (IF parser.long THEN {"IsLong"} ELSE {})
    \/ Len(b) >= 2 /\ Len(b) >= Total(b) /\ b[Total(b)].byte # "End"

(* Mutant of AfterRefusal: all of a refused frame is dropped.              *)
AfterRefusalAll(b) == IF Len(b) >= 2 /\ b[2].byte \in {"IsShort", "IsLong"} /\ Len(b) >= Total(b)
                      THEN SubSeq(b, Total(b) + 1, Len(b)) ELSE Tail(b)
AfterRefusal(b) == Tail(b)

(* started_ms_ is set to the present behind a frame, times_[0] never is.   *)
StartedAt(s, rest) == IF parser.whole /\ rest # <<>> THEN rest[1].time ELSE s.now

(* What a frame may begin with, and it is not there yet.                   *)
Waits(b) == b = <<>> \/ (~Refused(b) /\ (Len(b) < 2 \/ Len(b) < Total(b)))

(* A turn of the loop of scan(): it drops a byte of what is no frame, or   *)
(* delivers the one that is complete and goes on behind it.                *)
Turn(s) ==
    LET b == s.buffer
        dropped == AfterRefusal(b)
        rest == SubSeq(b, Total(b) + 1, Len(b))
    IN  IF Waits(b) THEN s
        ELSE IF Refused(b)
        THEN [s EXCEPT !.buffer = dropped, !.started = IF dropped = <<>> THEN @ ELSE dropped[1].time]
        ELSE [s EXCEPT !.buffer = rest, !.started = StartedAt(s, rest),
                !.frames = Append(@, [first |-> b[1].place, last |-> b[Total(b)].place,
                                      time |-> b[Total(b)].time - b[1].time])]

(* scan(): a turn takes a byte at least, so there are no more than bytes.  *)
Scanned(s) ==
    LET turns[n \in 0 .. Len(s.buffer)] == IF n = 0 THEN s ELSE Turn(turns[n - 1])
    IN  turns[Len(s.buffer)]

Expired(now) == buffer # <<>> /\ now - started > Timeout

(* The timeout at the beginning of consume().                              *)
AtTimeout(now) ==
    LET s == [buffer |-> buffer, frames |-> frames, started |-> started, now |-> now]
    IN  IF ~Expired(now) THEN s
        ELSE IF parser.whole THEN [s EXCEPT !.buffer = <<>>]
        ELSE [Scanned([s EXCEPT !.buffer = Tail(@)]) EXCEPT !.started = now]

Kept(s, byte) == [s EXCEPT !.buffer = Append(@, byte), !.started = IF s.buffer = <<>> THEN s.now ELSE @]

(* The loop of consume(): each byte is kept, and scanned with the others.  *)
Pushed(s, bytes) ==
    LET pushed[n \in 0 .. Len(bytes)] == IF n = 0 THEN s ELSE Scanned(Kept(pushed[n - 1], bytes[n]))
    IN  pushed[Len(bytes)]

(* consume(): a chunk of bytes received at one moment.                     *)
Consume ==
    \E now \in clock .. MaxTime, chunk \in BoundedSeq(Bytes, MaxChunk) :
        LET bytes == [i \in DOMAIN chunk |->
                        [byte |-> chunk[i], place |-> Len(stream) + i, time |-> now]]
            s == Pushed(AtTimeout(now), bytes)
        IN  /\ Len(stream) + Len(chunk) <= MaxBytes
            /\ clock' = now /\ stream' = stream \o chunk
            /\ buffer' = s.buffer /\ started' = s.started /\ frames' = s.frames
            /\ given_up' = IF ~Expired(now) THEN given_up
                           ELSE given_up \cup IF parser.whole THEN {b.place : b \in Range(buffer)}
                                              ELSE {buffer[1].place}
            /\ UNCHANGED parser

Next == Consume

Spec == Init /\ [][Next]_scanVars

-----------------------------------------------------------------------------
(* The arrays of the parsers hold one frame at most.                       *)
TypeOK == Len(buffer) < Long /\ \A i \in DOMAIN frames : frames[i].last <= Len(stream)

(* What the bytes of the stream from a place to a place make: a frame.     *)
IsFrame(first, last) ==
    LET mark == stream[first + 1]
    IN  /\ stream[first] = "Start" /\ stream[last] = "End"
        /\ \/ mark = "IsShort" /\ last = first + Short - 1
           \/ mark = "IsLong" /\ parser.long /\ last = first + Long - 1

(* However the stream is cut into calls of consume(), what is delivered    *)
(* are frames of it, in order, none of a byte that another was made of.    *)
FramesAreGenuine ==
    \A i \in DOMAIN frames :
        /\ IsFrame(frames[i].first, frames[i].last)
        /\ i > 1 => frames[i - 1].last < frames[i].first

(* No frame is lost to the noise, the false start or the broken frame      *)
(* before it: it is delivered, or waits, or a frame that began before it   *)
(* used its bytes, or a timeout took its first byte.                       *)
NoFrameIsHidden ==
    \A first \in 1 .. Len(stream) - 2 : \A last \in {first + Short - 1, first + Long - 1} :
        last <= Len(stream) /\ IsFrame(first, last) =>
            \/ first \in given_up
            \/ \E b \in Range(buffer) : b.place = first
            \/ \E i \in DOMAIN frames : first \in frames[i].first .. frames[i].last

(* A parser that drops all at a timeout never delivers a frame that took   *)
(* longer than that.                                                       *)
FramesAreTimely == parser.whole => \A i \in DOMAIN frames : frames[i].time <= Timeout
=============================================================================
