----------------------------- MODULE FrameReader -----------------------------
(***************************************************************************)
(* AAWProxy::readMessage and readFully, inside the loop of forward() that  *)
(* relays frames from the phone to the car.  The other thread may set      *)
(* should_exit at any time, and the car be unplugged.                      *)
(*                                                                         *)
(* A frame is a header of 4 bytes (channel, flags, length in two bytes)    *)
(* and a body; in the first of several frames of one message 4 more bytes, *)
(* not counted in its length, come before the body.  TCP cuts the bytes    *)
(* anywhere.  Here the bytes are numbers, so that a reader that lost its   *)
(* place would take bytes of a body for a header.                          *)
(***************************************************************************)
EXTENDS Integers, Sequences, SequencesExt

CONSTANTS
    Base,       \* values of a byte (256)
    BufferLen,  \* bytes of the buffer (16384)
    Flags,      \* flag bytes the phone uses
    Sizes,      \* lengths the phone puts in its headers
    MaxFrames   \* frames in a session, at most

ASSUME FrameAssumption ==
    /\ Base \in Nat /\ Base > 4
    /\ BufferLen \in Nat /\ BufferLen >= 4
    /\ Flags \subseteq 0 .. Base - 1
    /\ Sizes \subseteq 0 .. Base * Base - 1
    /\ MaxFrames \in Nat

VARIABLES
    frames,     \* what the phone sends in this session
    rest,       \* the bytes of it that were not read yet
    stage,      \* "check", then "header" or "body" (what readFully is reading),
                \* "write"; or "stopped"
    buffer,     \* the bytes of this message read so far
    remaining,  \* remaining_bytes of readFully
    should_exit,
    plugged,    \* the car is there
    usb,        \* what the car has received, write by write
    written,    \* history: frames given to write
    refused     \* history: the relay stopped at a header it did not accept

ends == <<should_exit, plugged>>
vars == <<frames, rest, stage, buffer, remaining, ends, usb, written, refused>>

HeaderLength == 4

\* The last two bits of the flags say: first frame of several, and nothing else.
IsFirst(flags) == flags % 4 = 1

\* What the phone sends for a frame.  Its body is bytes that make a header too.
Extra(flags) == IF IsFirst(flags) THEN 4 ELSE 0
BodyLength(f) == f.size + Extra(f.flags)
Wire(f) == <<0, f.flags, f.size \div Base, f.size % Base>>
             \o [i \in 1 .. BodyLength(f) |-> 1]

Frame == [flags : Flags, size : Sizes]

Init ==
    /\ frames \in SeqOf(Frame, MaxFrames)
    /\ rest = FlattenSeq([i \in DOMAIN frames |-> Wire(frames[i])])
    /\ stage = "check" /\ buffer = <<>> /\ remaining = 0
    /\ should_exit = FALSE /\ plugged = TRUE
    /\ usb = <<>> /\ written = 0 /\ refused = FALSE

\* Mutated form: the 4 bytes of a first frame are forgotten.
MessageLength_NoExtra(b) == b[3] * Base + b[4]

\* message_length, from the header in b.
MessageLength(b) == b[3] * Base + b[4] + Extra(b[2])

\* Mutated form: the header does not count.
TooLong_BodyOnly(n) == n > BufferLen

\* Mutated form: a frame that fits exactly is refused.
TooLong_OffByOne(n) == HeaderLength + n >= BufferLen

TooLong(n) == HeaderLength + n > BufferLen

-----------------------------------------------------------------------------
(* The other thread and the car *)

\* The other direction has stopped; only after this may its signal interrupt a call
\* (FlagInv of module Forwarding).
Stop ==
    /\ ~should_exit
    /\ should_exit' = TRUE
    /\ UNCHANGED <<frames, rest, stage, buffer, remaining, plugged, usb, written, refused>>

\* The first k bytes of the buffer are all of the message that the car receives.
CarTakes(k) ==
    /\ stage = "write" /\ k < Len(buffer)
    /\ usb' = Append(usb, SubSeq(buffer, 1, k))

\* A write that is under way may have got somewhere.
Unplug ==
    /\ plugged
    /\ plugged' = FALSE
    /\ UNCHANGED usb \/ \E k \in 1 .. BufferLen : CarTakes(k)
    /\ UNCHANGED <<frames, rest, stage, buffer, remaining, should_exit, written, refused>>

-----------------------------------------------------------------------------
(* forward, readMessage and readFully *)

\* while (!should_exit), and the same test just after a write.
CheckExit ==
    /\ stage = "check"
    /\ IF should_exit
       THEN stage' = "stopped" /\ UNCHANGED remaining
       ELSE stage' = "header" /\ remaining' = HeaderLength
    /\ UNCHANGED <<frames, rest, buffer, ends, usb, written, refused>>

\* read returns k bytes, readFully asks for what remains.
ReadSome(k) ==
    /\ stage \in {"header", "body"} /\ remaining > 0
    /\ k <= remaining /\ k <= Len(rest)
    /\ buffer' = buffer \o SubSeq(rest, 1, k)
    /\ rest' = SubSeq(rest, k + 1, Len(rest))
    /\ remaining' = remaining - k
    /\ UNCHANGED <<frames, stage, ends, usb, written, refused>>

\* read returns 0 or less: the phone closed, the time-out, a signal.
ReadEnds ==
    /\ stage \in {"header", "body"} /\ remaining > 0
    /\ stage' = "stopped"
    /\ UNCHANGED <<frames, rest, buffer, remaining, ends, usb, written, refused>>

\* The header is complete.  A message longer than the buffer is refused; of an
\* empty body readFully returns the 0 that forward takes for the end.
HeaderDone ==
    /\ stage = "header" /\ remaining = 0
    /\ LET n == MessageLength(buffer)
       IN IF TooLong(n) \/ n = 0
          THEN stage' = "stopped" /\ refused' = TRUE /\ UNCHANGED remaining
          ELSE stage' = "body" /\ remaining' = n /\ UNCHANGED refused
    /\ UNCHANGED <<frames, rest, buffer, ends, usb, written>>

\* The message is complete; should_exit is tested again before it is written.
BodyDone ==
    /\ stage = "body" /\ remaining = 0
    /\ stage' = IF should_exit THEN "stopped" ELSE "write"
    /\ UNCHANGED <<frames, rest, buffer, remaining, ends, usb, written, refused>>

\* write returns a count, of the whole message or less.  However many bytes it was
\* the loop goes on with the next message.
WriteReturns ==
    /\ stage = "write"
    /\ stage' = "check" /\ buffer' = <<>> /\ written' = written + 1
    /\ UNCHANGED <<frames, rest, remaining, ends, refused>>

WriteFrame ==
    /\ plugged /\ WriteReturns
    /\ usb' = Append(usb, buffer)

\* Mutated form: the other thread sends its signal before it sets the flag.
WriteShort_BeforeFlag(k) ==
    /\ plugged /\ WriteReturns
    /\ CarTakes(k)

\* A signal interrupts the write after k bytes.
WriteShort(k) ==
    /\ plugged /\ should_exit /\ WriteReturns
    /\ CarTakes(k)

\* Nothing of what is written now reaches the car.
WriteUnplugged ==
    /\ ~plugged /\ WriteReturns
    /\ UNCHANGED usb

\* write fails: the car is not there, or it was interrupted before the first byte.
WriteFails ==
    /\ stage = "write" /\ (should_exit \/ ~plugged)
    /\ stage' = "stopped"
    /\ UNCHANGED <<frames, rest, buffer, remaining, ends, usb, written, refused>>

Next ==
    \/ Stop \/ Unplug
    \/ CheckExit
    \/ \E k \in 1 .. BufferLen : ReadSome(k) \/ WriteShort(k)
    \/ ReadEnds \/ HeaderDone \/ BodyDone
    \/ WriteFrame \/ WriteUnplugged \/ WriteFails

Spec == Init /\ [][Next]_vars

-----------------------------------------------------------------------------
(* Properties *)

\* Every variable keeps to its values, and what is read never exceeds the buffer,
\* whatever the header said (proxyHandler.cpp 55-61).
TypeOK ==
    /\ frames \in Seq(Frame)
    /\ rest \in Seq(0 .. Base - 1)
    /\ stage \in {"check", "header", "body", "write", "stopped"}
    /\ buffer \in Seq(0 .. Base - 1)
    /\ remaining \in 0 .. BufferLen
    /\ Len(buffer) + remaining <= BufferLen
    /\ should_exit \in BOOLEAN /\ plugged \in BOOLEAN
    /\ usb \in Seq(Seq(0 .. Base - 1))
    /\ written \in Nat /\ refused \in BOOLEAN

\* No more will reach the car.
Over == stage = "stopped" \/ ~plugged \/ (stage = "check" /\ should_exit)

\* The relay with the bytes of each frame: the car receives whole frames, in order,
\* each in one write, wherever TCP cut them; a frame of which it gets only a part,
\* since a signal or the cable cut the write short, is the last it gets anything of,
\* although forward takes a short write for a whole one (proxyHandler.cpp 23-66,
\* 96-137).
R == INSTANCE Relay WITH sent <- [i \in DOMAIN frames |-> Wire(frames[i])],
                         delivered <- usb, over <- Over
RelaysFrames == R!Spec

\* The reader ends a session of its own accord only at a frame that has no body or
\* does not fit in the buffer (proxyHandler.cpp 55-63).
StopsOnlyAtBadFrame ==
    refused =>
        LET f == frames[written + 1]
        IN BodyLength(f) = 0 \/ HeaderLength + BodyLength(f) > BufferLen

-----------------------------------------------------------------------------
(* The inductive invariant.  FrameReaderProofs proves the properties above  *)
(* from it.                                                                *)

\* The bytes of the first k frames.
Sent(k) == FlattenSeq([i \in 1 .. k |-> Wire(frames[i])])

\* The reader knows its place: what it has given to write, what it has in the buffer
\* and what is still to be read are what was sent.
PlaceInv ==
    /\ written <= Len(frames)
    /\ Sent(written) \o (buffer \o rest) = Sent(Len(frames))

\* What it wants is a header, and then the body of the frame of that header.
StageInv ==
    /\ stage = "check" => buffer = <<>> /\ remaining = 0
    /\ stage = "header" => Len(buffer) + remaining = HeaderLength
    /\ stage \in {"body", "write"} =>
         /\ written < Len(frames)
         /\ Len(buffer) + remaining =
                HeaderLength + BodyLength(frames[written + 1])
    /\ stage = "write" => remaining = 0
    /\ refused => stage = "stopped"

\* As long as anything can reach the car, it has received all that was written.
CarInv == ~Over => Len(usb) = written

FrameInv == TypeOK /\ StopsOnlyAtBadFrame /\ PlaceInv /\ StageInv /\ CarInv
=============================================================================
