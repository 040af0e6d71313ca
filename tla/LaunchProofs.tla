---------------------------- MODULE LaunchProofs ----------------------------
(***************************************************************************)
(* LaunchInv of Launch is inductive, for every number and size of the      *)
(* messages of a phone: whatever is read short and misread later, the      *)
(* credentials go only to a phone that asked for them first.               *)
(***************************************************************************)
EXTENDS Launch, MessagesProofs

\* The initial states satisfy the invariant.
LEMMA InitLaunchInv == Init => LaunchInv
<1> SUFFICES ASSUME Init PROVE LaunchInv
    OBVIOUS
<1>1. 0 \in 0 .. MaxWaiting /\ 0 \in 0 .. MaxBody /\ 0 \in 0..3
    BY LaunchAssumption
<1>2. <<>> \in Seq(Byte) /\ <<>> \in Seq(Ids)
    OBVIOUS
<1> QED
    BY <1>1, <1>2 DEF Init, LaunchInv, TypeOK, CredentialsOnlyOnRequest,
                      FirstMessageInv, Pcs, Ids

\* What a phone sends: a header and a body.
LEMMA MessageFacts ==
    ASSUME NEW i \in Ids, NEW n \in 0 .. MaxBody
    PROVE  /\ Message(i, n) \in Seq(Byte) /\ Len(Message(i, n)) >= 4
           /\ Message(i, n)[1].of = "length" /\ Message(i, n)[2].of = "length"
           /\ Message(i, n)[3] = [of |-> "id", is |-> i]
           /\ Message(i, n)[4] = [of |-> "id", is |-> i]
<1> DEFINE l == [of |-> "length", is |-> n]
           b == [of |-> "id", is |-> i]
           header == <<l, l, b, b>>
           body == [k \in 1 .. n |-> [of |-> "body", is |-> "data"]]
<1>1. l \in Byte /\ b \in Byte /\ [of |-> "body", is |-> "data"] \in Byte
    BY DEF Byte
<1>2. n \in Nat
    BY LaunchAssumption
<1>3. header \in Seq(Byte) /\ Len(header) = 4
    BY <1>1
<1>4. body \in Seq(Byte) /\ Len(body) = n
    BY <1>1, <1>2
<1>5. Message(i, n) = header \o body
    BY DEF Message
<1>6. /\ header \o body \in Seq(Byte) /\ Len(header \o body) = 4 + n
      /\ \A k \in 1..4 : (header \o body)[k] = header[k]
  <2> HIDE DEF header, body
  <2>1. /\ header \o body \in Seq(Byte) /\ Len(header \o body) = Len(header) + Len(body)
        /\ \A k \in 1 .. Len(header) + Len(body) : (header \o body)[k] =
                IF k <= Len(header) THEN header[k] ELSE body[k - Len(header)]
    BY <1>3, <1>4, ConcatProperties
  <2> QED
    BY <1>2, <1>3, <1>4, <2>1
<1>7. header[1] = l /\ header[2] = l /\ header[3] = b /\ header[4] = b
    OBVIOUS
<1> QED
    BY <1>2, <1>5, <1>6, <1>7

\* The phone keeps it: what it sends goes behind what it has sent.
LEMMA PhoneKeepsInv == LaunchInv /\ PhoneNext => LaunchInv'
<1> SUFFICES ASSUME LaunchInv, PhoneNext PROVE LaunchInv'
    OBVIOUS
<1> USE LaunchAssumption DEF LaunchInv, launcher, phone
<1>1. CASE Connect \/ PhoneLeaves
  <2>1. UNCHANGED <<launcher, stream, sent>>
    BY <1>1 DEF Connect, PhoneLeaves
  <2>2. waiting' \in 0 .. MaxWaiting /\ open' \in BOOLEAN
    <3>1. CASE Connect
      BY <3>1 DEF Connect, TypeOK
    <3>2. CASE PhoneLeaves
      BY <3>2 DEF PhoneLeaves, TypeOK
    <3> QED
      BY <1>1, <3>1, <3>2
  <2>3. TypeOK'
    BY <2>1, <2>2 DEF TypeOK
  <2>4. CredentialsOnlyOnRequest' /\ FirstMessageInv'
    BY <2>1 DEF CredentialsOnlyOnRequest, FirstMessageInv, AtHeader, AtId, Asked
  <2> QED
    BY <2>3, <2>4
<1>2. ASSUME NEW i \in Ids, NEW n \in 0 .. MaxBody, PhoneSends(i, n) PROVE LaunchInv'
  <2> DEFINE m == Message(i, n)
  <2>1. /\ m \in Seq(Byte) /\ Len(m) >= 4
        /\ m[1].of = "length" /\ m[2].of = "length"
        /\ m[3] = [of |-> "id", is |-> i] /\ m[4] = [of |-> "id", is |-> i]
    BY <1>2, MessageFacts
  <2> HIDE DEF m
  <2>2. stream' = stream \o m /\ sent' = Append(sent, i)
    BY <1>2 DEF PhoneSends, m
  <2>3. stream \in Seq(Byte) /\ sent \in Seq(Ids)
    BY DEF TypeOK
  <2>4. stream' \in Seq(Byte) /\ sent' \in Seq(Ids) /\ sent' # <<>>
    BY <2>1, <2>2, <2>3
  <2>5. UNCHANGED <<waiting, launcher, open>>
    BY <1>2 DEF PhoneSends
  <2>6. TypeOK'
    BY <2>4, <2>5 DEF TypeOK
  <2>7. sent # <<>> => sent'[1] = sent[1]
    BY <2>2, <2>3
  <2>8. sent = <<>> => sent'[1] = i
    BY <2>2, <2>3
  <2>9. Len(stream') = Len(stream) + Len(m) /\ Len(stream) \in Nat /\ Len(m) \in Nat
    BY <2>1, <2>2, <2>3, ConcatProperties
  <2>10. \A k \in 1 .. Len(stream) : stream'[k] = stream[k]
    BY <2>1, <2>2, <2>3, ConcatProperties
  <2>11. stream = <<>> => stream' = m
    BY <2>1, <2>2, ConcatEmptySeq
  <2>12. AtHeader => AtHeader'
    <3> SUFFICES ASSUME AtHeader PROVE AtHeader'
      OBVIOUS
    <3>1. 1 \in 1 .. Len(stream) /\ 2 \in 1 .. Len(stream)
          /\ 3 \in 1 .. Len(stream) /\ 4 \in 1 .. Len(stream)
      BY <2>9 DEF AtHeader
    <3>2. Len(stream') >= 4
      BY <2>9 DEF AtHeader
    <3> QED
      BY <2>4, <2>7, <2>10, <3>1, <3>2 DEF AtHeader
  <2>13. AtId => AtId'
    <3> SUFFICES ASSUME AtId PROVE AtId'
      OBVIOUS
    <3>1. 1 \in 1 .. Len(stream) /\ 2 \in 1 .. Len(stream)
      BY <2>9 DEF AtId
    <3>2. Len(stream') >= 2
      BY <2>9 DEF AtId
    <3> QED
      BY <2>4, <2>7, <2>10, <3>1, <3>2 DEF AtId
  <2>14. sent = <<>> /\ stream = <<>> => AtHeader'
    BY <2>1, <2>4, <2>8, <2>11 DEF AtHeader
  <2>15. Asked => Asked'
    BY <2>4, <2>7 DEF Asked
  <2>16. FirstMessageInv'
    BY <2>5, <2>12, <2>13, <2>14, <2>15 DEF FirstMessageInv
  <2> QED
    BY <2>4, <2>5, <2>6, <2>7, <2>16 DEF CredentialsOnlyOnRequest
<1> QED
    BY <1>1, <1>2 DEF PhoneNext

\* What is left of the stream when k bytes have been read.
LEMMA TakeFacts ==
    ASSUME TypeOK, NEW n \in Nat, NEW k \in Nat, Take(n, k)
    PROVE  /\ stream' \in Seq(Byte)
           /\ Len(stream') = Len(stream) - k /\ k <= Len(stream)
           /\ \A j \in 1 .. Len(stream) - k : stream'[j] = stream[j + k]
           /\ UNCHANGED <<waiting, open, sent, reads, credentials>>
    BY DEF Take, TypeOK

\* Reading the length of the first message leaves its id at the head of the stream.
LEMMA ReadLengthKeepsInv ==
    ASSUME LaunchInv, NEW k \in 1..2, ReadLength(k)
    PROVE  LaunchInv'
<1> USE LaunchAssumption DEF LaunchInv
<1>1. pc = "length" /\ Take(2, k)
    BY DEF ReadLength
<1>2. /\ stream' \in Seq(Byte)
      /\ Len(stream') = Len(stream) - k /\ k <= Len(stream)
      /\ \A j \in 1 .. Len(stream) - k : stream'[j] = stream[j + k]
      /\ UNCHANGED <<waiting, open, sent, reads, credentials, short>>
    BY <1>1, TakeFacts DEF ReadLength
<1>3. stream \in Seq(Byte) /\ Len(stream) \in Nat
    BY DEF TypeOK
<1>4. CASE k = 2
  <2>1. pc' = "id" /\ id' = id /\ length' \in AsLength(SubSeq(stream, 1, 2))
    BY <1>4 DEF ReadLength
  <2>2. length' \in 0 .. MaxBody
    <3> DEFINE two == SubSeq(stream, 1, 2)
    <3>1. two[1] \in Byte
      BY <1>2, <1>3, <1>4
    <3>2. two[1].of = "length" => two[1].is \in 0 .. MaxBody
      BY <3>1 DEF Byte
    <3> HIDE DEF two
    <3>3. AsLength(two) \subseteq 0 .. MaxBody
      BY <3>2 DEF AsLength
    <3> QED
      BY <2>1, <3>3 DEF two
  <2>3. TypeOK'
    BY <1>1, <1>2, <2>1, <2>2 DEF TypeOK, Pcs
  <2>4. reads = 1 => AtHeader
    BY <1>1, <1>2, <1>4 DEF FirstMessageInv
  <2>5. AtHeader => AtId'
    BY <1>2, <1>3, <1>4 DEF AtHeader, AtId
  <2> QED
    BY <1>2, <2>1, <2>3, <2>4, <2>5 DEF CredentialsOnlyOnRequest, FirstMessageInv
<1>5. CASE k # 2
  <2>1. pc' = "read" /\ id' = "Invalid" /\ length' = length
    BY <1>5 DEF ReadLength
  <2>2. TypeOK'
    BY <1>1, <1>2, <2>1 DEF TypeOK, Pcs
  <2> QED
    BY <1>2, <2>1, <2>2 DEF CredentialsOnlyOnRequest, FirstMessageInv
<1> QED
    BY <1>4, <1>5

\* The id of the first message is read as it was sent, or not at all.
LEMMA ReadIdKeepsInv ==
    ASSUME LaunchInv, NEW k \in 1..2, ReadId(k)
    PROVE  LaunchInv'
<1> USE LaunchAssumption DEF LaunchInv
<1>1. pc = "id" /\ Take(2, k)
    BY DEF ReadId
<1>2. /\ stream' \in Seq(Byte) /\ k <= Len(stream)
      /\ UNCHANGED <<waiting, open, sent, reads, credentials, length, short>>
    BY <1>1, TakeFacts DEF ReadId
<1>3. stream \in Seq(Byte) /\ Len(stream) \in Nat
    BY DEF TypeOK
<1>4. CASE k = 2
  <2> DEFINE two == SubSeq(stream, 1, 2)
  <2>1. pc' = "body" /\ id' \in AsId(two)
    BY <1>4 DEF ReadId
  <2>2. two[1] = stream[1] /\ two[2] = stream[2] /\ two[1] \in Byte
    BY <1>2, <1>3, <1>4
  <2> HIDE DEF two
  <2>3. id' \in Ids
    BY <2>1, <2>2 DEF AsId, Byte
  <2>4. TypeOK'
    BY <1>1, <1>2, <2>1, <2>3 DEF TypeOK, Pcs
  <2>5. reads = 1 => AtId
    BY <1>1 DEF FirstMessageInv
  <2>6. AtId => id' = sent[1] /\ sent # <<>>
    BY <2>1, <2>2 DEF AtId, AsId
  <2> QED
    BY <1>2, <2>1, <2>4, <2>5, <2>6 DEF CredentialsOnlyOnRequest, FirstMessageInv, Asked
<1>5. CASE k # 2
  <2>1. pc' = "read" /\ id' = "Invalid"
    BY <1>5 DEF ReadId
  <2>2. TypeOK'
    BY <1>1, <1>2, <2>1 DEF TypeOK, Pcs
  <2> QED
    BY <1>2, <2>1, <2>2 DEF CredentialsOnlyOnRequest, FirstMessageInv
<1> QED
    BY <1>4, <1>5

\* The dispatcher thread keeps it.
LEMMA LauncherKeepsInv == LaunchInv /\ LauncherNext => LaunchInv'
<1> SUFFICES ASSUME LaunchInv, LauncherNext PROVE LaunchInv'
    OBVIOUS
<1> USE LaunchAssumption DEF LaunchInv, launcher, phone
<1>1. CASE NewConnection
  <2>1. 0 \in 0 .. MaxBody /\ 0 \in 0..3
    OBVIOUS
  <2>2. waiting' \in 0 .. MaxWaiting
    BY <1>1 DEF NewConnection, TypeOK
  <2>3. <<>> \in Seq(Byte) /\ <<>> \in Seq(Ids)
    OBVIOUS
  <2> QED
    BY <1>1, <2>1, <2>2, <2>3 DEF NewConnection, TypeOK, Pcs, Ids,
        CredentialsOnlyOnRequest, FirstMessageInv
<1>2. CASE SendStartRequest
  <2>1. TypeOK'
    BY <1>2 DEF SendStartRequest, TypeOK, Pcs
  <2> QED
    BY <1>2, <2>1 DEF SendStartRequest, CredentialsOnlyOnRequest, FirstMessageInv, AtHeader
<1>3. ASSUME NEW k \in 0 .. MaxBody, ReadBody(k) PROVE LaunchInv'
  <2>1. pc = "body" /\ pc' = "read" /\ length' = 0 /\ id' = id
    BY <1>3 DEF ReadBody
  <2>2. length \in Nat /\ k \in Nat /\ Take(length, k)
    BY <1>3 DEF ReadBody, TypeOK
  <2>3. stream' \in Seq(Byte) /\ UNCHANGED <<waiting, open, sent, reads, credentials>>
    BY <2>2, TakeFacts
  <2>4. short' \in BOOLEAN
    BY <1>3 DEF ReadBody, TypeOK
  <2>5. 0 \in 0 .. MaxBody
    OBVIOUS
  <2>6. TypeOK'
    BY <2>1, <2>3, <2>4, <2>5 DEF TypeOK, Pcs
  <2> QED
    BY <2>1, <2>3, <2>6 DEF CredentialsOnlyOnRequest, FirstMessageInv, Asked
<1>4. CASE ReadEnds
  <2>1. 0 \in 0 .. MaxBody
    OBVIOUS
  <2>2. TypeOK'
    BY <1>4, <2>1 DEF ReadEnds, TypeOK, Pcs
  <2> QED
    BY <1>4, <2>2 DEF ReadEnds, CredentialsOnlyOnRequest, FirstMessageInv, Asked
<1>5. CASE AfterMessage
  <2>1. TypeOK'
    BY <1>5 DEF AfterMessage, TypeOK, Pcs
  <2> QED
    BY <1>5, <2>1 DEF AfterMessage, CredentialsOnlyOnRequest, FirstMessageInv, Asked
<1>6. CASE SendInfoResponse
  <2>1. TypeOK'
    BY <1>6 DEF SendInfoResponse, TypeOK, Pcs
  <2> QED
    BY <1>6, <2>1 DEF SendInfoResponse, CredentialsOnlyOnRequest, FirstMessageInv, Asked
<1>7. CASE Return
  <2>1. TypeOK'
    BY <1>7 DEF Return, TypeOK, Pcs
  <2> QED
    BY <1>7, <2>1 DEF Return, CredentialsOnlyOnRequest, FirstMessageInv
<1> QED
    BY <1>1, <1>2, <1>3, <1>4, <1>5, <1>6, <1>7, ReadLengthKeepsInv, ReadIdKeepsInv
    DEF LauncherNext

\* A step that changes nothing keeps it.
LEMMA StutterKeepsLaunchInv == LaunchInv /\ UNCHANGED vars => LaunchInv'
    BY DEF LaunchInv, TypeOK, CredentialsOnlyOnRequest, FirstMessageInv, AtHeader, AtId,
           Asked, vars

\* LaunchInv holds in every state: until the id of the first message has been read
\* the dispatcher is where the phone began to send.
THEOREM LaunchInvariant == Spec => []LaunchInv
<1>1. LaunchInv /\ [Next]_vars => LaunchInv'
    BY PhoneKeepsInv, LauncherKeepsInv, StutterKeepsLaunchInv DEF Next
<1> QED
    BY InitLaunchInv, <1>1, PTL DEF Spec

\* Type correctness of the exchange; the length of a message is never more than one
\* can have.
THEOREM LaunchTypeCorrect == Spec => []TypeOK
<1>1. LaunchInv => TypeOK
    BY DEF LaunchInv
<1> QED
    BY LaunchInvariant, <1>1, PTL

\* The credentials go only to a phone whose first message asked for them, for every
\* number and size of its messages (bluetoothProfiles.cpp 46-61, 125-153).
THEOREM CredentialsOnRequest == Spec => []CredentialsOnlyOnRequest
<1>1. LaunchInv => CredentialsOnlyOnRequest
    BY DEF LaunchInv
<1> QED
    BY LaunchInvariant, <1>1, PTL

\* Whenever a message is sent it goes out whole exactly if 16 bits count it, for all
\* settings (bluetoothProfiles.cpp 99-113).
THEOREM SentWholeIfCounted == Spec => []FramesGoWhole
<1>1. FramesGoWhole
    BY WholeExactlyIfCounted DEF FramesGoWhole
<1> QED
    BY <1>1, PTL

\* A phone that has the credentials has all settings as configured, whatever they are,
\* if 16 bits count the messages (bluetoothProfiles.cpp 41-59, 99-113, common.cpp
\* 57-67, and the generated serializers and parsers).
THEOREM SettingsLearnt == Spec => []PhoneLearnsSettings
<1>1. PhoneLearnsSettings
    BY SettingsAlwaysArrive DEF PhoneLearnsSettings
<1> QED
    BY <1>1, PTL
==============================================================================
