-------------------------- MODULE FrameReaderProofs --------------------------
(***************************************************************************)
(* FrameInv of FrameReader is inductive, for a byte of any size, a buffer  *)
(* of any length, and every sequence of frames cut anywhere: a reader that *)
(* asks for exactly what a header announces cannot lose its place.  From   *)
(* it, that the reader implements Relay: what a short write cuts off is    *)
(* the last the car receives.                                              *)
(***************************************************************************)
EXTENDS FrameReader, DataLemmas

Bytes == 0 .. Base - 1
Wires == [i \in DOMAIN frames |-> Wire(frames[i])]

-----------------------------------------------------------------------------
(* What the phone sends *)

\* The two bytes of a size say what it is (proxyHandler.cpp 46).
LEMMA SizeBytes ==
    ASSUME NEW s \in 0 .. Base * Base - 1
    PROVE  /\ s \div Base \in Bytes /\ s % Base \in Bytes
           /\ (s \div Base) * Base + (s % Base) = s
<1>1. Base \in Nat /\ Base > 1
    BY FrameAssumption
<1> QED
    BY <1>1, TwoDigits DEF Bytes

\* A frame on the wire is a header and its body.
LEMMA WireFacts ==
    ASSUME NEW f \in Frame
    PROVE  /\ BodyLength(f) \in Nat
           /\ Wire(f) \in Seq(Bytes)
           /\ Len(Wire(f)) = HeaderLength + BodyLength(f)
           /\ Wire(f)[2] = f.flags
           /\ Wire(f)[3] = f.size \div Base
           /\ Wire(f)[4] = f.size % Base
<1> DEFINE header == <<0, f.flags, f.size \div Base, f.size % Base>>
           body == [i \in 1 .. BodyLength(f) |-> 1]
<1>1. f.size \in 0 .. Base * Base - 1 /\ f.flags \in Bytes
    BY FrameAssumption DEF Frame, Bytes
<1>2. f.size \in Nat
    BY <1>1, FrameAssumption
<1>3. BodyLength(f) \in Nat
    BY <1>2 DEF BodyLength, Extra
<1>4. 0 \in Bytes /\ 1 \in Bytes
    BY FrameAssumption DEF Bytes
<1>5. f.size \div Base \in Bytes /\ f.size % Base \in Bytes
    BY <1>1, SizeBytes
<1>6. header \in Seq(Bytes) /\ Len(header) = 4
      /\ header[2] = f.flags /\ header[3] = f.size \div Base /\ header[4] = f.size % Base
    BY <1>1, <1>4, <1>5
<1>7. body \in Seq(Bytes) /\ Len(body) = BodyLength(f)
    BY <1>3, <1>4
<1>8. Wire(f) = header \o body
    BY DEF Wire
<1> HIDE DEF header, body
<1>9. /\ Wire(f) \in Seq(Bytes) /\ Len(Wire(f)) = Len(header) + Len(body)
      /\ \A i \in 1 .. Len(header) + Len(body) :
            Wire(f)[i] = IF i <= Len(header) THEN header[i] ELSE body[i - Len(header)]
  <2>1. /\ header \o body \in Seq(Bytes)
        /\ Len(header \o body) = Len(header) + Len(body)
        /\ \A i \in 1 .. Len(header) + Len(body) : (header \o body)[i] =
                IF i <= Len(header) THEN header[i] ELSE body[i - Len(header)]
    BY <1>6, <1>7, ConcatProperties
  <2> QED
    BY <1>8, <2>1
<1>10. Wire(f)[2] = header[2] /\ Wire(f)[3] = header[3] /\ Wire(f)[4] = header[4]
    BY <1>3, <1>6, <1>7, <1>9
<1> QED
    BY <1>3, <1>6, <1>7, <1>9, <1>10 DEF HeaderLength

\* All frames together.
LEMMA WiresFacts ==
    ASSUME TypeOK, NEW k \in 0 .. Len(frames)
    PROVE  /\ [i \in 1..k |-> Wire(frames[i])] \in Seq(Seq(Bytes))
           /\ Len([i \in 1..k |-> Wire(frames[i])]) = k
           /\ Sent(k) \in Seq(Bytes)
<1> DEFINE s == [i \in 1..k |-> Wire(frames[i])]
<1>1. \A i \in 1..k : frames[i] \in Frame
    BY DEF TypeOK
<1>2. \A i \in 1..k : Wire(frames[i]) \in Seq(Bytes)
    BY <1>1, WireFacts
<1>3. k \in Nat
    BY DEF TypeOK
<1>4. s \in Seq(Seq(Bytes)) /\ Len(s) = k
    BY <1>2, <1>3, IsASeq
<1>5. FlattenSeq(s) \in Seq(Bytes)
  <2> HIDE DEF s
  <2> QED
    BY <1>4, FlattenType
<1> QED
    BY <1>4, <1>5 DEF Sent

\* One frame more.
LEMMA SentNext ==
    ASSUME TypeOK, NEW k \in 0 .. Len(frames) - 1
    PROVE  Sent(k + 1) = Sent(k) \o Wire(frames[k + 1])
<1> DEFINE s == [i \in 1..k |-> Wire(frames[i])]
           t == [i \in 1 .. k + 1 |-> Wire(frames[i])]
           w == Wire(frames[k + 1])
<1>1. k \in 0 .. Len(frames) /\ k + 1 \in 0 .. Len(frames) /\ k \in Nat
      /\ frames[k + 1] \in Frame
    BY DEF TypeOK
<1>2. s \in Seq(Seq(Bytes)) /\ Len(s) = k
    BY <1>1, WiresFacts
<1>3. t \in Seq(Seq(Bytes)) /\ Len(t) = k + 1
    BY <1>1, WiresFacts
<1>4. w \in Seq(Bytes)
    BY <1>1, WireFacts
<1>5. /\ \A i \in 1..k : s[i] = t[i]
      /\ t[k + 1] = w
    BY <1>1
<1>6. t = Append(s, w)
  <2> HIDE DEF s, t, w
  <2>1. /\ Append(s, w) \in Seq(Seq(Bytes)) /\ Len(Append(s, w)) = k + 1
        /\ \A i \in 1..k : Append(s, w)[i] = s[i]
        /\ Append(s, w)[k + 1] = w
    BY <1>2, <1>4, AppendProperties
  <2>2. ASSUME NEW i \in 1 .. k + 1 PROVE t[i] = Append(s, w)[i]
    BY <1>1, <1>5, <2>1
  <2> QED
    BY <1>3, <2>1, <2>2, SeqEqual
<1>7. FlattenSeq(Append(s, w)) = FlattenSeq(s) \o w
  <2> HIDE DEF s, w
  <2> QED
    BY <1>2, <1>4, FlattenAppend
<1> QED
    BY <1>6, <1>7 DEF Sent

\* What was sent begins with the first k frames.
LEMMA SentPrefix ==
    ASSUME TypeOK, NEW k \in 0 .. Len(frames)
    PROVE  \E u \in Seq(Bytes) : Sent(Len(frames)) = Sent(k) \o u
<1> DEFINE d == Len(frames) - k
           T == {m \in 0 .. d : \E u \in Seq(Bytes) : Sent(k + m) = Sent(k) \o u}
<1>1. Len(frames) \in Nat /\ k \in Nat /\ d \in Nat
    BY DEF TypeOK
<1>2. 0 \in T
  <2>1. Sent(k) = Sent(k) \o <<>> /\ <<>> \in Seq(Bytes) /\ k + 0 = k
    BY <1>1, WiresFacts, ConcatEmptySeq
  <2>2. 0 \in 0 .. d
    BY <1>1
  <2> HIDE DEF d
  <2> QED
    BY <2>1, <2>2
<1>3. ASSUME NEW m \in 0 .. d - 1, m \in T PROVE m + 1 \in T
  <2>1. PICK u \in Seq(Bytes) : Sent(k + m) = Sent(k) \o u
    BY <1>3
  <2>2. k + m \in 0 .. Len(frames) - 1 /\ k + (m + 1) = (k + m) + 1
        /\ (k + m) + 1 \in 1 .. Len(frames)
    BY <1>1
  <2> DEFINE w == Wire(frames[(k + m) + 1])
  <2>3. w \in Seq(Bytes)
    <3>1. frames[(k + m) + 1] \in Frame
      BY <2>2 DEF TypeOK
    <3> QED
      BY <3>1, WireFacts
  <2>4. Sent(k + (m + 1)) = (Sent(k) \o u) \o w
    BY <2>1, <2>2, SentNext
  <2>5. Sent(k) \in Seq(Bytes)
    BY WiresFacts
  <2> HIDE DEF w
  <2>6. (Sent(k) \o u) \o w = Sent(k) \o (u \o w) /\ u \o w \in Seq(Bytes)
    BY <2>3, <2>5, ConcatAssociative, ConcatProperties
  <2>7. m + 1 \in 0 .. d
    BY <1>1
  <2> QED
    BY <2>4, <2>6, <2>7
<1>4. 0 .. d \subseteq T
  <2> HIDE DEF T, d
  <2> QED
    BY <1>1, <1>2, <1>3, InductionUpTo
<1>5. d \in T /\ k + d = Len(frames)
  <2>1. d \in 0 .. d /\ k + d = Len(frames)
    BY <1>1
  <2> HIDE DEF T
  <2> QED
    BY <1>4, <2>1
<1> QED
    BY <1>5

-----------------------------------------------------------------------------
(* Where the reader is *)

\* While a frame is missing, what is in the buffer and what is still to be read begin
\* with that frame.
LEMMA Place ==
    ASSUME TypeOK, PlaceInv, written < Len(frames)
    PROVE  /\ frames[written + 1] \in Frame
           /\ \E u \in Seq(Bytes) : buffer \o rest = Wire(frames[written + 1]) \o u
<1> DEFINE k == written
           w == Wire(frames[k + 1])
<1>1. k \in Nat /\ Len(frames) \in Nat /\ k \in 0 .. Len(frames) - 1
      /\ k \in 0 .. Len(frames) /\ k + 1 \in 0 .. Len(frames)
      /\ frames[k + 1] \in Frame
    BY DEF TypeOK
<1>2. w \in Seq(Bytes)
    BY <1>1, WireFacts
<1>3. Sent(k) \in Seq(Bytes) /\ buffer \in Seq(Bytes) /\ rest \in Seq(Bytes)
    BY <1>1, WiresFacts DEF TypeOK, Bytes
<1>4. PICK u \in Seq(Bytes) : Sent(Len(frames)) = Sent(k + 1) \o u
    BY <1>1, SentPrefix
<1>5. Sent(k + 1) = Sent(k) \o w
    BY <1>1, SentNext
<1>6. Sent(k) \o (buffer \o rest) = (Sent(k) \o w) \o u
    BY <1>4, <1>5 DEF PlaceInv
<1> HIDE DEF k, w
<1>7. (Sent(k) \o w) \o u = Sent(k) \o (w \o u)
  <2>1. Sent(k) \in Seq(Bytes) /\ w \in Seq(Bytes) /\ u \in Seq(Bytes)
    BY <1>2, <1>3
  <2> QED
    BY <2>1, ConcatAssociative
<1>8. buffer \o rest \in Seq(Bytes) /\ w \o u \in Seq(Bytes)
    BY <1>2, <1>3, ConcatProperties
<1>9. buffer \o rest = w \o u
    BY <1>3, <1>6, <1>7, <1>8, ConcatSplit
<1> QED
    BY <1>1, <1>9 DEF k, w

\* A whole header in the buffer is that of the next frame.
LEMMA HeaderRead ==
    ASSUME FrameInv, stage = "header", remaining = 0
    PROVE  /\ written < Len(frames)
           /\ frames[written + 1] \in Frame
           /\ MessageLength(buffer) = BodyLength(frames[written + 1])
<1> USE DEF FrameInv
<1>1. buffer \in Seq(Bytes) /\ rest \in Seq(Bytes) /\ Len(buffer) = 4
    BY DEF TypeOK, Bytes, StageInv, HeaderLength
<1>2. written < Len(frames)
  <2> SUFFICES ASSUME written = Len(frames) PROVE FALSE
    BY DEF PlaceInv, TypeOK
  <2>1. Len(frames) \in 0 .. Len(frames)
    BY DEF TypeOK
  <2>2. Sent(Len(frames)) \in Seq(Bytes)
    BY <2>1, WiresFacts
  <2>3. buffer \o rest \in Seq(Bytes) /\ Len(buffer \o rest) = Len(buffer) + Len(rest)
    BY <1>1, ConcatProperties
  <2>4. Sent(Len(frames)) \o (buffer \o rest) = Sent(Len(frames))
    BY DEF PlaceInv
  <2>5. buffer \o rest = <<>>
    BY <2>2, <2>3, <2>4, ConcatEqualIffEmpty
  <2>6. Len(buffer \o rest) = 0
    BY <2>5
  <2> QED
    BY <1>1, <2>3, <2>6
<1> DEFINE f == frames[written + 1]
<1>3. PICK u \in Seq(Bytes) : f \in Frame /\ buffer \o rest = Wire(f) \o u
    BY <1>2, Place
<1> HIDE DEF f
<1>4. /\ BodyLength(f) \in Nat /\ Wire(f) \in Seq(Bytes)
      /\ Len(Wire(f)) = HeaderLength + BodyLength(f)
      /\ Wire(f)[2] = f.flags /\ Wire(f)[3] = f.size \div Base
      /\ Wire(f)[4] = f.size % Base
    BY <1>3, WireFacts
<1>5. ASSUME NEW i \in 1..4 PROVE buffer[i] = Wire(f)[i]
  <2>1. (buffer \o rest)[i] = buffer[i]
    <3>1. Len(rest) \in Nat /\ i \in 1 .. Len(buffer) + Len(rest) /\ i <= Len(buffer)
      BY <1>1
    <3> QED
      BY <1>1, <3>1, ConcatProperties
  <2>2. i \in 1 .. Len(Wire(f)) + Len(u) /\ i <= Len(Wire(f))
    BY <1>4 DEF HeaderLength
  <2>3. (Wire(f) \o u)[i] = Wire(f)[i]
    BY <1>4, <2>2, ConcatProperties
  <2> QED
    BY <1>3, <2>1, <2>3
<1>6. buffer[2] = f.flags /\ buffer[3] = f.size \div Base /\ buffer[4] = f.size % Base
    BY <1>4, <1>5
<1>7. f.size \in 0 .. Base * Base - 1
    BY <1>3, FrameAssumption DEF Frame
<1>8. buffer[3] * Base + buffer[4] = f.size
    BY <1>6, <1>7, SizeBytes
<1>9. MessageLength(buffer) = BodyLength(f)
    BY <1>6, <1>8 DEF MessageLength, BodyLength
<1> QED
    BY <1>2, <1>3, <1>9 DEF f

\* A whole message in the buffer is the next frame.
LEMMA FrameRead ==
    ASSUME FrameInv, stage = "write"
    PROVE  written < Len(frames) /\ buffer = Wire(frames[written + 1])
<1> USE DEF FrameInv
<1>1. /\ buffer \in Seq(Bytes) /\ rest \in Seq(Bytes)
      /\ written < Len(frames)
    BY DEF TypeOK, Bytes, StageInv
<1> DEFINE f == frames[written + 1]
<1>2. PICK u \in Seq(Bytes) : f \in Frame /\ buffer \o rest = Wire(f) \o u
    BY <1>1, Place
<1>3. Len(buffer) = HeaderLength + BodyLength(f)
    BY DEF TypeOK, StageInv
<1> HIDE DEF f
<1>4. Wire(f) \in Seq(Bytes) /\ Len(Wire(f)) = HeaderLength + BodyLength(f)
    BY <1>2, WireFacts
<1>5. buffer = Wire(f)
    BY <1>1, <1>2, <1>3, <1>4, ConcatSplit
<1> QED
    BY <1>1, <1>5 DEF f

-----------------------------------------------------------------------------
(* The invariant *)

\* The initial states satisfy it.
LEMMA InitFrameInv == Init => FrameInv
<1> SUFFICES ASSUME Init PROVE FrameInv
    OBVIOUS
<1>1. frames \in Seq(Frame)
  <2>1. PICK m \in 0 .. MaxFrames : frames \in [1..m -> Frame]
    BY DEF Init, SeqOf
  <2>2. m \in Nat
    BY FrameAssumption
  <2> QED
    BY <2>1, <2>2
<1>2. \A i \in DOMAIN frames : Wire(frames[i]) \in Seq(Bytes)
    BY <1>1, WireFacts
<1>3. Wires \in Seq(Seq(Bytes)) /\ DOMAIN frames = 1 .. Len(frames)
    BY <1>1, <1>2, IsASeq DEF Wires
<1>4. rest = FlattenSeq(Wires)
    BY DEF Init, Wires
<1>5. rest \in Seq(Bytes)
    BY <1>3, <1>4, FlattenType
<1>6. <<>> \in Seq(Bytes) /\ <<>> \in Seq(Seq(Bytes)) /\ Len(<<>>) = 0
    OBVIOUS
<1>7. 0 \in 0 .. BufferLen /\ 0 + 0 <= BufferLen /\ 0 \in Nat
    BY FrameAssumption
<1>8. TypeOK
    BY <1>1, <1>5, <1>6, <1>7 DEF Init, TypeOK, Bytes
<1>9. Sent(Len(frames)) = rest
    BY <1>3, <1>4 DEF Sent, Wires
<1>10. Sent(0) = <<>>
  <2>1. Len([i \in 1..0 |-> Wire(frames[i])]) = 0 /\ [i \in 1..0 |-> Wire(frames[i])] = <<>>
    OBVIOUS
  <2> QED
    BY <2>1 DEF Sent, FlattenSeq
<1>11. Sent(written) \o (buffer \o rest) = Sent(Len(frames))
    BY <1>5, <1>6, <1>9, <1>10, ConcatEmptySeq DEF Init
<1>12. PlaceInv
    BY <1>1, <1>6, <1>11 DEF PlaceInv, Init
<1>13. StageInv /\ StopsOnlyAtBadFrame /\ CarInv
    BY <1>6 DEF Init, StageInv, StopsOnlyAtBadFrame, CarInv
<1> QED
    BY <1>8, <1>12, <1>13 DEF FrameInv

\* A read moves bytes from the phone to the buffer.
LEMMA ReadKeepsInv ==
    ASSUME FrameInv, NEW k \in 1 .. BufferLen, ReadSome(k)
    PROVE  FrameInv'
<1> USE DEF FrameInv
<1> DEFINE part == SubSeq(rest, 1, k)
           left == SubSeq(rest, k + 1, Len(rest))
<1>1. buffer \in Seq(Bytes) /\ rest \in Seq(Bytes) /\ remaining \in 0 .. BufferLen
      /\ k \in 0 .. Len(rest) /\ k \in Nat /\ BufferLen \in Nat
    BY FrameAssumption DEF TypeOK, Bytes, ReadSome
<1>2. /\ part \in Seq(Bytes) /\ Len(part) = k
      /\ left \in Seq(Bytes) /\ part \o left = rest
    BY <1>1, TakeDrop
<1>3. buffer' = buffer \o part /\ rest' = left
    BY DEF ReadSome
<1>4. /\ UNCHANGED <<frames, stage, should_exit, plugged, usb, written, refused>>
      /\ remaining' = remaining - k
      /\ k <= remaining /\ stage \in {"header", "body"}
    BY DEF ReadSome, ends
<1> HIDE DEF part, left
<1>5. buffer' \in Seq(Bytes) /\ Len(buffer') = Len(buffer) + k
    BY <1>1, <1>2, <1>3, ConcatProperties
<1>6. Len(buffer') + remaining' = Len(buffer) + remaining /\ remaining' \in 0 .. BufferLen
    BY <1>1, <1>4, <1>5
<1>7. buffer' \o rest' = buffer \o rest
  <2>1. (buffer \o part) \o left = buffer \o (part \o left)
    <3>1. /\ buffer \in Seq(Bytes) /\ part \in Seq(Bytes) /\ left \in Seq(Bytes)
      BY <1>1, <1>2
    <3> QED
      BY <3>1, ConcatAssociative
  <2> QED
    BY <1>2, <1>3, <2>1
<1>8. TypeOK'
    BY <1>2, <1>3, <1>4, <1>5, <1>6 DEF TypeOK, Bytes
<1>9. Sent(written)' = Sent(written) /\ Sent(Len(frames))' = Sent(Len(frames))
    BY <1>4 DEF Sent
<1>10. PlaceInv'
    BY <1>4, <1>7, <1>9 DEF PlaceInv
<1>11. StageInv' /\ StopsOnlyAtBadFrame' /\ CarInv'
    BY <1>4, <1>6 DEF StageInv, StopsOnlyAtBadFrame, CarInv, Over
<1> QED
    BY <1>8, <1>10, <1>11

\* The header says how long the body is.
LEMMA HeaderKeepsInv ==
    ASSUME FrameInv, HeaderDone
    PROVE  FrameInv'
<1> USE DEF FrameInv
<1> DEFINE n == MessageLength(buffer)
           f == frames[written + 1]
<1>1. /\ written < Len(frames) /\ f \in Frame /\ n = BodyLength(f)
      /\ stage = "header" /\ remaining = 0
    BY HeaderRead DEF HeaderDone
<1>2. n \in Nat
    BY <1>1, WireFacts
<1>3. UNCHANGED <<frames, rest, buffer, should_exit, plugged, usb, written>>
    BY DEF HeaderDone, ends
<1>4. Len(buffer) = 4 /\ buffer \in Seq(Bytes)
    BY <1>1 DEF StageInv, TypeOK, Bytes, HeaderLength
<1>5. PlaceInv'
    BY <1>3 DEF PlaceInv, Sent
<1>6. stage' \in {"stopped", "body"}
    BY DEF HeaderDone
<1>7. CarInv'
    BY <1>1, <1>3, <1>6 DEF CarInv, Over
<1> HIDE DEF n, f
<1>8. CASE TooLong(n) \/ n = 0
  <2>1. stage' = "stopped" /\ refused' = TRUE /\ remaining' = remaining
    BY <1>8 DEF HeaderDone, n
  <2>2. TypeOK'
    BY <1>3, <2>1 DEF TypeOK
  <2>3. n = 0 \/ HeaderLength + n > BufferLen
    BY <1>8 DEF TooLong
  <2>4. StopsOnlyAtBadFrame'
    BY <1>1, <1>3, <2>3 DEF StopsOnlyAtBadFrame, f
  <2>5. StageInv'
    BY <2>1 DEF StageInv
  <2> QED
    BY <1>5, <1>7, <2>2, <2>4, <2>5
<1>9. CASE ~(TooLong(n) \/ n = 0)
  <2>1. stage' = "body" /\ remaining' = n /\ refused' = refused
    BY <1>9 DEF HeaderDone, n
  <2>2. 4 + n <= BufferLen /\ BufferLen \in Nat
    BY <1>2, <1>9, FrameAssumption DEF TooLong, HeaderLength
  <2>3. n \in 0 .. BufferLen /\ Len(buffer') + n <= BufferLen
    BY <1>2, <1>3, <1>4, <2>2
  <2>4. TypeOK'
    BY <1>3, <2>1, <2>3 DEF TypeOK
  <2>5. ~refused
    BY <1>1 DEF StageInv
  <2>6. StageInv' /\ StopsOnlyAtBadFrame'
    BY <1>1, <1>3, <1>4, <2>1, <2>5
       DEF StageInv, StopsOnlyAtBadFrame, f, HeaderLength
  <2> QED
    BY <1>5, <1>7, <2>4, <2>6
<1> QED
    BY <1>8, <1>9

\* What the car gets of a message is a sequence of bytes.
LEMMA CarTakesBytes ==
    ASSUME TypeOK, NEW k \in 1 .. BufferLen, CarTakes(k)
    PROVE  usb' \in Seq(Seq(Bytes))
<1>1. buffer \in Seq(Bytes) /\ usb \in Seq(Seq(Bytes))
    BY DEF TypeOK, Bytes
<1>2. k \in 0 .. Len(buffer)
    BY <1>1, FrameAssumption DEF CarTakes
<1>3. SubSeq(buffer, 1, k) \in Seq(Bytes)
    BY <1>1, <1>2, TakeDrop
<1> QED
    BY <1>1, <1>3, AppendProperties DEF CarTakes

\* A message that was given to write is no longer in the buffer, whatever the car got.
LEMMA WriteKeepsInv ==
    ASSUME FrameInv, WriteReturns, usb' \in Seq(Seq(Bytes)),
           ~Over' => Len(usb') = written + 1
    PROVE  FrameInv'
<1> USE DEF FrameInv
<1> DEFINE k == written
<1>1. /\ stage = "write" /\ stage' = "check"
      /\ buffer' = <<>> /\ written' = written + 1
      /\ UNCHANGED <<frames, rest, remaining, should_exit, plugged, refused>>
    BY DEF WriteReturns, ends
<1>2. k < Len(frames) /\ buffer = Wire(frames[k + 1])
    BY <1>1, FrameRead
<1>3. /\ buffer \in Seq(Bytes) /\ rest \in Seq(Bytes)
      /\ k \in Nat /\ Len(frames) \in Nat /\ k \in 0 .. Len(frames) - 1
      /\ k \in 0 .. Len(frames) /\ k + 1 \in 0 .. Len(frames)
    BY <1>2 DEF TypeOK, Bytes
<1>4. remaining = 0 /\ 0 \in 0 .. BufferLen /\ 0 + 0 <= BufferLen
    BY <1>1, FrameAssumption DEF StageInv
<1>5. <<>> \in Seq(Bytes) /\ Len(<<>>) = 0
    OBVIOUS
<1>6. TypeOK'
    BY <1>1, <1>3, <1>4, <1>5 DEF TypeOK, Bytes
<1>7. ~refused
    BY <1>1 DEF StageInv
<1>8. StageInv' /\ StopsOnlyAtBadFrame' /\ CarInv'
    BY <1>1, <1>4, <1>5, <1>7 DEF StageInv, StopsOnlyAtBadFrame, CarInv
<1>9. Sent(k + 1) = Sent(k) \o buffer
    BY <1>2, <1>3, SentNext
<1>10. Sent(k) \in Seq(Bytes)
    BY <1>3, WiresFacts
<1>11. (Sent(k) \o buffer) \o rest = Sent(k) \o (buffer \o rest)
    BY <1>3, <1>10, ConcatAssociative
<1>12. buffer' \o rest' = rest
    BY <1>1, <1>3, ConcatEmptySeq
<1>13. Sent(written)' = Sent(k + 1) /\ Sent(Len(frames))' = Sent(Len(frames))
    BY <1>1 DEF Sent
<1>14. Sent(k) \o (buffer \o rest) = Sent(Len(frames))
    BY DEF PlaceInv
<1>15. (Sent(written) \o (buffer \o rest))' = Sent(Len(frames))'
    BY <1>9, <1>11, <1>12, <1>13, <1>14
<1>16. PlaceInv'
    BY <1>1, <1>3, <1>15 DEF PlaceInv
<1> QED
    BY <1>6, <1>8, <1>16

\* The car has received all messages but one that was cut off.
LEMMA WritesKeepInv ==
    ASSUME FrameInv, WriteFrame \/ WriteUnplugged \/ \E k \in 1 .. BufferLen : WriteShort(k)
    PROVE  FrameInv'
<1>1. TypeOK /\ CarInv
    BY DEF FrameInv
<1>2. CASE WriteFrame
  <2>1. /\ WriteReturns /\ plugged /\ usb' = Append(usb, buffer)
        /\ stage = "write"
    BY <1>2 DEF WriteFrame, WriteReturns
  <2>2. usb \in Seq(Seq(Bytes)) /\ buffer \in Seq(Bytes) /\ Len(usb) = written
    BY <1>1, <2>1 DEF TypeOK, Bytes, CarInv, Over
  <2>3. usb' \in Seq(Seq(Bytes)) /\ Len(usb') = written + 1
    BY <2>1, <2>2, AppendProperties
  <2> QED
    BY <2>1, <2>3, WriteKeepsInv
<1>3. CASE WriteUnplugged
  <2>1. WriteReturns /\ ~plugged' /\ usb' = usb
    BY <1>3 DEF WriteUnplugged, WriteReturns, ends
  <2>2. usb' \in Seq(Seq(Bytes)) /\ Over'
    BY <1>1, <2>1 DEF TypeOK, Bytes, Over
  <2> QED
    BY <2>1, <2>2, WriteKeepsInv
<1>4. ASSUME NEW k \in 1 .. BufferLen, WriteShort(k) PROVE FrameInv'
  <2>1. WriteReturns /\ CarTakes(k) /\ should_exit' /\ stage' = "check"
    BY <1>1, <1>4 DEF WriteShort, WriteReturns, ends, TypeOK
  <2>2. usb' \in Seq(Seq(Bytes))
    BY <1>1, <2>1, CarTakesBytes
  <2>3. Over'
    BY <2>1 DEF Over
  <2> QED
    BY <2>1, <2>2, <2>3, WriteKeepsInv
<1> QED
    BY <1>2, <1>3, <1>4

\* The other thread and the car keep it, whenever they stop or are unplugged.
LEMMA EndsKeepInv == FrameInv /\ (Stop \/ Unplug) => FrameInv'
<1> SUFFICES ASSUME FrameInv, Stop \/ Unplug PROVE FrameInv'
    OBVIOUS
<1> USE DEF FrameInv
<1>1. UNCHANGED <<frames, rest, stage, buffer, remaining, written, refused>>
    BY DEF Stop, Unplug
<1>2. should_exit' \in BOOLEAN /\ plugged' \in BOOLEAN
    BY DEF Stop, Unplug, TypeOK
<1>3. usb' \in Seq(Seq(Bytes))
  <2>1. CASE UNCHANGED usb
    BY <2>1 DEF TypeOK, Bytes
  <2>2. CASE \E k \in 1 .. BufferLen : CarTakes(k)
    BY <2>2, CarTakesBytes
  <2> QED
    BY <2>1, <2>2 DEF Stop, Unplug
<1>4. TypeOK'
    BY <1>1, <1>2, <1>3 DEF TypeOK, Bytes
<1>5. PlaceInv' /\ StageInv' /\ StopsOnlyAtBadFrame'
    BY <1>1 DEF PlaceInv, StageInv, StopsOnlyAtBadFrame, Sent
<1>6. CarInv'
  <2>1. CASE Stop
    <3>1. UNCHANGED <<stage, plugged, usb, written>> /\ ~should_exit
      BY <2>1 DEF Stop
    <3> QED
      BY <3>1 DEF CarInv, Over
  <2>2. CASE Unplug
    BY <2>2 DEF Unplug, CarInv, Over
  <2> QED
    BY <2>1, <2>2
<1> QED
    BY <1>4, <1>5, <1>6

\* The steps of the loop that move no byte keep it.
LEMMA LoopKeepsInv == FrameInv /\ (CheckExit \/ ReadEnds \/ BodyDone \/ WriteFails) => FrameInv'
<1> SUFFICES ASSUME FrameInv, CheckExit \/ ReadEnds \/ BodyDone \/ WriteFails
             PROVE  FrameInv'
    OBVIOUS
<1> USE DEF FrameInv
<1>1. UNCHANGED <<frames, rest, buffer, should_exit, plugged, usb, written, refused>>
    BY DEF CheckExit, ReadEnds, BodyDone, WriteFails, ends
<1>2. PlaceInv' /\ StopsOnlyAtBadFrame'
    BY <1>1 DEF PlaceInv, StopsOnlyAtBadFrame, Sent
<1>3. CASE CheckExit /\ ~should_exit
  <2>1. stage = "check" /\ stage' = "header" /\ remaining' = 4
    BY <1>3 DEF CheckExit, HeaderLength
  <2>2. buffer = <<>> /\ ~refused
    BY <2>1 DEF StageInv
  <2>3. Len(buffer) = 0 /\ 4 \in 0 .. BufferLen /\ 0 + 4 <= BufferLen
    BY <2>2, FrameAssumption
  <2>4. TypeOK'
    BY <1>1, <2>1, <2>3 DEF TypeOK
  <2>5. StageInv'
    BY <1>1, <2>1, <2>2, <2>3 DEF StageInv, HeaderLength
  <2>6. CarInv'
    BY <1>1, <1>3, <2>1 DEF CarInv, Over
  <2> QED
    BY <1>2, <2>4, <2>5, <2>6
<1>4. CASE BodyDone /\ ~should_exit
  <2>1. stage = "body" /\ stage' = "write" /\ remaining = 0 /\ remaining' = remaining
    BY <1>4 DEF BodyDone
  <2>2. TypeOK' /\ StageInv'
    BY <1>1, <2>1 DEF TypeOK, StageInv
  <2>3. CarInv'
    BY <1>1, <2>1 DEF CarInv, Over
  <2> QED
    BY <1>2, <2>2, <2>3
<1>5. CASE ReadEnds \/ WriteFails \/ should_exit
  <2>1. stage' = "stopped" /\ remaining' = remaining
    BY <1>5 DEF ReadEnds, WriteFails, CheckExit, BodyDone
  <2> QED
    BY <1>1, <1>2, <2>1 DEF TypeOK, StageInv, CarInv, Over
<1> QED
    BY <1>3, <1>4, <1>5

\* The invariant is inductive.
LEMMA FrameInvStep == FrameInv /\ [Next]_vars => FrameInv'
<1> SUFFICES ASSUME FrameInv, [Next]_vars PROVE FrameInv'
    OBVIOUS
<1>1. CASE UNCHANGED vars
    BY <1>1 DEF vars, ends, FrameInv, TypeOK, PlaceInv, StageInv, StopsOnlyAtBadFrame,
                CarInv, Over, Sent
<1> QED
    BY <1>1, ReadKeepsInv, HeaderKeepsInv, WritesKeepInv, EndsKeepInv, LoopKeepsInv
    DEF Next

\* FrameInv holds in every state: the reader knows its place in what the phone sends.
THEOREM FrameInvariant == Spec => []FrameInv
BY InitFrameInv, FrameInvStep, PTL DEF Spec

\* Type correctness: what is read never exceeds the buffer, whatever the header said
\* (proxyHandler.cpp 55-61).
THEOREM FrameTypeCorrect == Spec => []TypeOK
<1>1. FrameInv => TypeOK
    BY DEF FrameInv
<1> QED
    BY FrameInvariant, <1>1, PTL

\* The reader ends a session of its own accord only at a frame that has no body or
\* does not fit in the buffer (proxyHandler.cpp 55-63).
THEOREM StopsAtBadFrame == Spec => []StopsOnlyAtBadFrame
<1>1. FrameInv => StopsOnlyAtBadFrame
    BY DEF FrameInv
<1> QED
    BY FrameInvariant, <1>1, PTL

\* The turn of the frame that is being written.
LEMMA NextToCar ==
    ASSUME FrameInv, stage = "write", plugged
    PROVE  /\ ~Over /\ Len(usb) < Len(Wires) /\ buffer = Wires[Len(usb) + 1]
           /\ Len(buffer) \in Nat
<1>1. ~Over
    BY DEF Over
<1>2. Len(usb) = written /\ TypeOK
    BY <1>1 DEF FrameInv, CarInv
<1>3. written < Len(frames) /\ buffer = Wire(frames[written + 1])
    BY FrameRead
<1>4. /\ written \in Nat /\ Len(frames) \in Nat /\ DOMAIN frames = 1 .. Len(frames)
      /\ Len(buffer) \in Nat
    BY <1>2 DEF TypeOK
<1>5. Wires[written + 1] = buffer /\ Len(Wires) = Len(frames)
    BY <1>3, <1>4 DEF Wires
<1> QED
    BY <1>1, <1>2, <1>3, <1>4, <1>5

\* A frame of which the car gets only a part is cut off.
LEMMA CutsTheFrame ==
    ASSUME FrameInv, plugged, NEW k \in 1 .. BufferLen, CarTakes(k), Over', Wires' = Wires
    PROVE  R!Cut
<1>1. /\ ~Over /\ Len(usb) < Len(Wires) /\ buffer = Wires[Len(usb) + 1]
      /\ Len(buffer) \in Nat
    BY NextToCar DEF CarTakes
<1>2. k \in 1 .. Len(buffer) - 1 /\ usb' = Append(usb, SubSeq(buffer, 1, k))
    BY <1>1, FrameAssumption DEF CarTakes
<1>3. R!Turn = buffer
    BY <1>1 DEF R!Turn, Wires
<1>4. \E m \in 1 .. Len(R!Turn) - 1 : usb' = Append(usb, SubSeq(R!Turn, 1, m))
    BY <1>2, <1>3
<1> QED
    BY <1>1, <1>4 DEF R!Cut, Wires

\* The reader implements Relay: the car receives whole frames, those the phone sent
\* and in that order, and nothing after one that a short write has cut off
\* (proxyHandler.cpp 23-66, 96-137).
THEOREM FramesRelayed == Spec => RelaysFrames
<1>1. Init => R!Init
    BY DEF Init, R!Init, Over
<1>2. FrameInv /\ [Next]_vars => [R!Deliver \/ R!Cut \/ R!End]_R!vars
  <2> SUFFICES ASSUME FrameInv, [Next]_vars
               PROVE  [R!Deliver \/ R!Cut \/ R!End]_R!vars
    OBVIOUS
  <2>1. frames' = frames /\ Wires' = Wires
    <3>1. frames' = frames
      BY DEF Next, Stop, Unplug, CheckExit, ReadSome, ReadEnds, HeaderDone, BodyDone,
             WriteFrame, WriteShort, WriteUnplugged, WriteReturns, WriteFails, vars
    <3> QED
      BY <3>1 DEF Wires
  <2>2. ASSUME usb' = usb, Over => Over' PROVE [R!Deliver \/ R!Cut \/ R!End]_R!vars
    <3>1. Over \in BOOLEAN /\ Over' \in BOOLEAN
      BY DEF Over
    <3>2. CASE Over = Over'
      BY <2>1, <2>2, <3>2 DEF R!vars, Wires
    <3>3. CASE ~Over /\ Over'
      BY <2>1, <2>2, <3>3 DEF R!End, Wires
    <3> QED
      BY <2>2, <3>1, <3>2, <3>3
  <2>3. CASE WriteFrame
    <3>1. stage = "write" /\ plugged /\ usb' = Append(usb, buffer)
      BY <2>3 DEF WriteFrame, WriteReturns
    <3>2. ~Over /\ Len(usb) < Len(Wires) /\ buffer = Wires[Len(usb) + 1]
      BY <3>1, NextToCar
    <3>3. Over' \in BOOLEAN
      BY DEF Over
    <3> QED
      BY <2>1, <3>1, <3>2, <3>3 DEF R!Deliver, R!Turn, Wires
  <2>4. ASSUME NEW k \in 1 .. BufferLen, WriteShort(k) PROVE R!Cut
    <3>1. plugged /\ CarTakes(k) /\ Over'
      BY <2>4 DEF WriteShort, WriteReturns, FrameInv, TypeOK, Over, ends
    <3> QED
      BY <2>1, <3>1, CutsTheFrame
  <2>5. CASE Unplug
    <3>1. plugged /\ Over'
      BY <2>5 DEF Unplug, Over
    <3>2. CASE UNCHANGED usb
      BY <2>2, <3>1, <3>2
    <3>3. CASE \E k \in 1 .. BufferLen : CarTakes(k)
      BY <2>1, <3>1, <3>3, CutsTheFrame
    <3> QED
      BY <2>5, <3>2, <3>3 DEF Unplug
  <2>6. CASE Stop \/ ReadEnds \/ WriteFails \/ CheckExit \/ BodyDone \/ HeaderDone
    <3>1. usb' = usb
      BY <2>6 DEF Stop, ReadEnds, WriteFails, CheckExit, BodyDone, HeaderDone
    <3>2. Over => Over'
      BY <2>6 DEF Stop, ReadEnds, WriteFails, CheckExit, BodyDone, HeaderDone, Over, ends
    <3> QED
      BY <2>2, <3>1, <3>2
  <2>7. CASE WriteUnplugged
    BY <2>2, <2>7 DEF WriteUnplugged, WriteReturns, Over, ends
  <2>8. CASE UNCHANGED vars \/ \E k \in 1 .. BufferLen : ReadSome(k)
    <3>1. UNCHANGED <<stage, should_exit, plugged, usb>>
      BY <2>8 DEF ReadSome, vars, ends
    <3> QED
      BY <2>2, <3>1 DEF Over
  <2> QED
    BY <2>3, <2>4, <2>5, <2>6, <2>7, <2>8 DEF Next
<1> QED
    BY FrameInvariant, <1>1, <1>2, PTL DEF Spec, RelaysFrames, R!Spec
==============================================================================
