-------------------------------- MODULE Launch --------------------------------
(***************************************************************************)
(* AAWirelessProfile::NewConnection and AAWirelessLauncher: the exchange   *)
(* by which a phone, connected over Bluetooth, is told where the Wi-Fi is. *)
(* It runs on the D-Bus dispatcher thread, one connection after another,   *)
(* with the descriptor made blocking.                                      *)
(*                                                                         *)
(* A message is a length and an id of two bytes each, and a body.          *)
(* ReadMessage reads each of the three with one read, which may return     *)
(* less than asked for.  A short length or id ends the reading of that     *)
(* message; after a short body the next message begins in the wrong place, *)
(* and length and id are whatever the bytes there make.                    *)
(***************************************************************************)
EXTENDS Messages

CONSTANTS
    MaxWaiting,     \* connections BlueZ has announced and nobody has taken
    MaxMessages,    \* messages a phone sends on one connection, at most
    MaxBody         \* bytes of a body, at most

ASSUME LaunchAssumption ==
    /\ MaxWaiting \in Nat \ {0}
    /\ MaxMessages \in Nat
    /\ MaxBody \in Nat

VARIABLES
    waiting,    \* NewConnection calls the dispatcher has not taken
    pc,         \* where the dispatcher thread is
    reads,      \* which ReadMessage of launch it is in or past
    length,     \* length of the message being read, then what is left to read
    id,         \* messageId
    open,       \* the phone is connected
    stream,     \* bytes the phone has sent and nobody has read
    sent,       \* ids of the messages it has sent on this connection
    credentials,\* WifiInfoResponse was sent on this connection
    short       \* history: a body was read short on this connection

vars == <<waiting, pc, reads, length, id, open, stream, sent, credentials, short>>
launcher == <<pc, reads, length, id, credentials, short>>
phone == <<open, stream, sent>>

Ids == {"WifiInfoRequest", "other"}

\* A byte is one of a length (of so many), one of an id, or one of a body.
Byte == [of : {"length"}, is : 0 .. MaxBody] \cup [of : {"id"}, is : Ids]
            \cup [of : {"body"}, is : {"data"}]

Message(i, n) ==
    LET l == [of |-> "length", is |-> n]
        b == [of |-> "id", is |-> i]
    IN <<l, l, b, b>> \o [k \in 1 .. n |-> [of |-> "body", is |-> "data"]]

\* The numbers two bytes make: what they were, or anything if they were never
\* meant to be read as one.
AsLength(two) ==
    IF \A k \in 1..2 : two[k].of = "length" THEN {two[1].is} ELSE 0 .. MaxBody
AsId(two) == IF \A k \in 1..2 : two[k].of = "id" THEN {two[1].is} ELSE Ids

Pcs == {"idle", "start", "length", "id", "body", "read", "response", "done"}

Init ==
    /\ waiting = 0
    /\ pc = "idle" /\ reads = 0 /\ length = 0 /\ id = "other"
    /\ open = FALSE /\ stream = <<>> /\ sent = <<>>
    /\ credentials = FALSE /\ short = FALSE

-----------------------------------------------------------------------------
(* BlueZ and the phone *)

Connect ==
    /\ waiting < MaxWaiting
    /\ waiting' = waiting + 1
    /\ UNCHANGED <<launcher, phone>>

PhoneSends(i, n) ==
    /\ open /\ Len(sent) < MaxMessages
    /\ stream' = stream \o Message(i, n)
    /\ sent' = Append(sent, i)
    /\ UNCHANGED <<waiting, launcher, open>>

PhoneLeaves ==
    /\ open
    /\ open' = FALSE
    /\ UNCHANGED <<waiting, launcher, stream, sent>>

-----------------------------------------------------------------------------
(* launch *)

NewConnection ==
    /\ pc = "idle" /\ waiting > 0
    /\ waiting' = waiting - 1
    /\ pc' = "start" /\ reads' = 0 /\ length' = 0 /\ id' = "other"
    /\ open' = TRUE /\ stream' = <<>> /\ sent' = <<>>
    /\ credentials' = FALSE /\ short' = FALSE

\* Whether a write succeeds is only logged.
SendStartRequest ==
    /\ pc = "start"
    /\ pc' = "length" /\ reads' = 1
    /\ UNCHANGED <<waiting, length, id, credentials, short, phone>>

\* One read that asks for n bytes takes k.
Take(n, k) ==
    /\ k <= n /\ k <= Len(stream)
    /\ stream' = SubSeq(stream, k + 1, Len(stream))
    /\ UNCHANGED <<waiting, open, sent, reads, credentials>>

\* ReadMessage returns: the first must be a request for the credentials, the other
\* two may be anything.
ReadLength(k) ==
    /\ pc = "length" /\ Take(2, k)
    /\ IF k = 2
       THEN pc' = "id" /\ length' \in AsLength(SubSeq(stream, 1, 2)) /\ UNCHANGED id
       ELSE pc' = "read" /\ id' = "Invalid" /\ UNCHANGED length
    /\ UNCHANGED short

ReadId(k) ==
    /\ pc = "id" /\ Take(2, k)
    /\ IF k = 2
       THEN pc' = "body" /\ id' \in AsId(SubSeq(stream, 1, 2))
       ELSE pc' = "read" /\ id' = "Invalid"
    /\ UNCHANGED <<length, short>>

\* Whatever the read of the body returns, the message counts as read.
ReadBody(k) ==
    /\ pc = "body" /\ Take(length, k)
    /\ k = 0 => length = 0
    /\ short' = (short \/ k < length)
    /\ pc' = "read" /\ length' = 0
    /\ UNCHANGED id

\* Mutated form: the end of the stream is tried again.
ReadEnds_Retried ==
    /\ pc \in {"length", "id", "body"} /\ stream = <<>> /\ ~open
    /\ UNCHANGED vars

\* The phone is gone: read returns 0 or an error.
ReadEnds ==
    /\ pc \in {"length", "id", "body"} /\ stream = <<>> /\ ~open
    /\ pc' = "read" /\ length' = 0
    /\ id' = IF pc = "body" THEN id ELSE "Invalid"
    /\ UNCHANGED <<waiting, reads, credentials, short, phone>>

\* Mutated form: whatever the phone asked for, it gets the credentials.
AfterMessage_Unchecked ==
    /\ pc = "read"
    /\ IF reads = 1 THEN pc' = "response" /\ UNCHANGED reads
       ELSE IF reads = 2 THEN pc' = "length" /\ reads' = 3
       ELSE pc' = "done" /\ UNCHANGED reads
    /\ UNCHANGED <<waiting, length, id, credentials, short, phone>>

\* Mutated form: one message more is awaited than the phone sends.
AfterMessage_OneMore ==
    /\ pc = "read"
    /\ IF reads = 1
       THEN /\ pc' = IF id = "WifiInfoRequest" THEN "response" ELSE "done"
            /\ UNCHANGED reads
       ELSE IF reads <= 3 THEN pc' = "length" /\ reads' = reads + 1
       ELSE pc' = "done" /\ UNCHANGED reads
    /\ UNCHANGED <<waiting, length, id, credentials, short, phone>>

\* Between two calls of ReadMessage.
AfterMessage ==
    /\ pc = "read"
    /\ \/ /\ reads = 1
          /\ pc' = IF id = "WifiInfoRequest" THEN "response" ELSE "done"
          /\ UNCHANGED reads
       \/ reads = 2 /\ pc' = "length" /\ reads' = 3
       \/ reads = 3 /\ pc' = "done" /\ UNCHANGED reads
    /\ UNCHANGED <<waiting, length, id, credentials, short, phone>>

SendInfoResponse ==
    /\ pc = "response"
    /\ credentials' = TRUE
    /\ pc' = "length" /\ reads' = 2
    /\ UNCHANGED <<waiting, length, id, short, phone>>

\* NewConnection returns and the descriptor is closed with its last reference.
Return ==
    /\ pc = "done"
    /\ pc' = "idle" /\ open' = FALSE
    /\ UNCHANGED <<waiting, reads, length, id, credentials, short, stream, sent>>

LauncherNext ==
    \/ NewConnection \/ SendStartRequest
    \/ \E k \in 1..2 : ReadLength(k) \/ ReadId(k)
    \/ \E k \in 0 .. MaxBody : ReadBody(k)
    \/ ReadEnds \/ AfterMessage \/ SendInfoResponse \/ Return

PhoneNext ==
    \/ Connect \/ PhoneLeaves
    \/ \E i \in Ids, n \in 0 .. MaxBody : PhoneSends(i, n)

Next == LauncherNext \/ PhoneNext

\* The dispatcher thread runs when it can.  Phones owe nothing.
Spec == Init /\ [][Next]_vars /\ WF_vars(LauncherNext)

-----------------------------------------------------------------------------
(* Properties *)

\* Every variable keeps to its values; only the three calls of ReadMessage read.
TypeOK ==
    /\ waiting \in 0 .. MaxWaiting
    /\ pc \in Pcs /\ reads \in 0..3
    /\ length \in 0 .. MaxBody /\ id \in Ids \cup {"Invalid"}
    /\ open \in BOOLEAN
    /\ stream \in Seq(Byte) /\ sent \in Seq(Ids)
    /\ credentials \in BOOLEAN /\ short \in BOOLEAN
    /\ pc \in {"length", "id", "body", "read"} => reads > 0

\* The credentials go only to a phone whose first message asked for them: whatever
\* was read short, however a later message is misread (bluetoothProfiles.cpp
\* 46-61, 125-153).
CredentialsOnlyOnRequest ==
    credentials => sent # <<>> /\ sent[1] = "WifiInfoRequest"

\* A phone that has the credentials has all settings, exactly as configured, for
\* every environment whose messages 16 bits can count: empty strings, no address of
\* wlan0, strings and ports at every length of their varints, negative ports
\* (bluetoothProfiles.cpp 41-59, 99-113, common.cpp 57-67, and the generated
\* ByteSizeLong, _InternalSerialize and _InternalParse).
PhoneLearnsSettings == credentials => SettingsArrive

\* A message goes out whole, its header telling its length and every byte of its
\* fields behind it, exactly if 16 bits count it with its header.  Past that the sum
\* of 4 wraps, or SerializeToArray finds the buffer too small, and what is written is
\* not the message.  Two walks over the fields and three conversions must agree
\* (bluetoothProfiles.cpp 99-113, and the generated ByteSizeLong and
\* _InternalSerialize).
FramesGoWhole == reads > 0 => WholeIfCounted

\* A phone that has sent its three messages frees the dispatcher for the next one,
\* even if it stays connected and says no more, unless a body was read short
\* (bluetoothProfiles.cpp 46, 63-64, 148).
ThreeMessagesFreeDispatcher ==
    pc # "idle" /\ Len(sent) = 3 ~> pc = "idle" \/ short

\* A phone that goes away, at any point of the exchange, does not keep the
\* dispatcher (bluetoothProfiles.cpp 129-152).
LeavingFreesDispatcher == pc # "idle" /\ ~open ~> pc = "idle"

-----------------------------------------------------------------------------
(* The inductive invariant *)

Asked == sent # <<>> /\ sent[1] = "WifiInfoRequest"

\* The stream begins with the header of the first message, or with its id.
AtHeader ==
    /\ sent # <<>> /\ Len(stream) >= 4
    /\ stream[1].of = "length" /\ stream[2].of = "length"
    /\ stream[3] = [of |-> "id", is |-> sent[1]]
    /\ stream[4] = [of |-> "id", is |-> sent[1]]
AtId ==
    /\ sent # <<>> /\ Len(stream) >= 2
    /\ stream[1] = [of |-> "id", is |-> sent[1]]
    /\ stream[2] = [of |-> "id", is |-> sent[1]]

\* Nothing is misread before the id of the first message has been read.
FirstMessageInv ==
    /\ pc = "start" \/ (pc = "length" /\ reads = 1) =>
         (sent = <<>> /\ stream = <<>>) \/ AtHeader
    /\ pc = "id" /\ reads = 1 => AtId
    /\ pc \in {"body", "read"} /\ reads = 1 /\ id = "WifiInfoRequest" => Asked
    /\ pc = "response" => Asked

LaunchInv == TypeOK /\ CredentialsOnlyOnRequest /\ FirstMessageInv
==============================================================================
