------------------------------- MODULE Messages -------------------------------
(***************************************************************************)
(* The two messages aawgd sends a phone over Bluetooth: the classes protoc *)
(* generates for WifiStartRequest and WifiInfoResponse, and the frame      *)
(* SendMessage puts them in.  The phone reads them with a parser generated *)
(* from the same definitions.                                              *)
(*                                                                         *)
(* A message is a record of its fields and of has, the set of the fields   *)
(* whose has-bit is set.  A tag is 8 times the number of a field and its   *)
(* wire type: 0 for a varint, 2 for a string.                              *)
(***************************************************************************)
EXTENDS Config, SequencesExt

CONSTANT SizeBase   \* values of a byte of a length or an id: 256

ASSUME MessagesAssumption == SizeBase \in 2..256

-----------------------------------------------------------------------------
(* Varints, as the protobuf library writes and reads them *)

\* Groups of 7 bits a number takes: 32 bits, extended to 64 if negative.
VarintSize(n) ==
    IF n < 0 THEN 10
    ELSE IF n < 128 THEN 1 ELSE IF n < 16384 THEN 2
    ELSE IF n < 2097152 THEN 3 ELSE IF n < 268435456 THEN 4 ELSE 5

\* Powers of 128.
Weight == <<1, 128, 16384, 2097152, 268435456>>

Group(n, k) ==
    CASE k <= 5 -> (n \div Weight[k]) % 128
      [] k \in 6..9 -> 127
      [] k = 10 -> 1

\* The lowest group first; all but the last have the eighth bit set.
Varint(n) ==
    [k \in 1 .. VarintSize(n) |->
        Group(n, k) + IF k < VarintSize(n) THEN 128 ELSE 0]

\* What there is of the first n bytes of b, and what follows them.
Upto(b, n) == SubSeq(b, 1, IF n <= Len(b) THEN n ELSE Len(b))
After(b, n) == SubSeq(b, n + 1, Len(b))

\* Groups of the varint at the start of b; 0 if it does not end in it.
VarintEnd(b) == SelectInSeq(Upto(b, 10), LAMBDA byte : byte < 128)

\* The low 32 bits of the varint at the start of b, as a signed number.
ReadVarint(b) ==
    LET group == [k \in 1..5 |-> IF k <= VarintEnd(b) THEN b[k] % 128 ELSE 0]
        top == group[5] % 16
    IN group[1] + Weight[2] * group[2] + Weight[3] * group[3] + Weight[4] * group[4]
           + Weight[5] * (IF top < 8 THEN top ELSE top - 16)

StringField(k, s) == <<8 * k + 2>> \o Varint(Len(s)) \o s
VarintField(k, n) == <<8 * k>> \o Varint(n)
StringSize(s) == VarintSize(Len(s)) + Len(s)

\* Has-bits.
SetField(m, f, v) == [m EXCEPT !.has = @ \cup {f}, ![f] = v]
Optional(m, f, bytes) == IF f \in m.has THEN bytes ELSE <<>>
Counted(m, f, size) == IF f \in m.has THEN size ELSE 0

-----------------------------------------------------------------------------
(* WifiStartRequest *)

NewStart == [has |-> {}, ip_address |-> <<>>, port |-> 0]

StartFields == {"ip_address", "port"}

StartSerialize(m) ==
    Optional(m, "ip_address", StringField(1, m.ip_address))
        \o Optional(m, "port", VarintField(2, m.port))

StartFallbackSize(m) ==
    Counted(m, "ip_address", 1 + StringSize(m.ip_address))
        + Counted(m, "port", 1 + VarintSize(m.port))

StartByteSize(m) ==
    IF StartFields \subseteq m.has
    THEN 1 + StringSize(m.ip_address) + 1 + VarintSize(m.port)
    ELSE StartFallbackSize(m)

StartField(f) ==
    CASE f.tag = 10 -> "ip_address" [] f.tag = 16 -> "port" [] OTHER -> "unknown"

-----------------------------------------------------------------------------
(* WifiInfoResponse *)

SecurityModes == {0, 1, 2, 3, 4, 8, 12, 20, 24, 28}
AccessPointTypes == {0, 1}

NewInfo == [has |-> {}, ssid |-> <<>>, key |-> <<>>, bssid |-> <<>>,
            security_mode |-> 0, access_point_type |-> 0]

InfoFields == {"ssid", "key", "bssid", "security_mode", "access_point_type"}

InfoSerialize(m) ==
    Optional(m, "ssid", StringField(1, m.ssid))
        \o Optional(m, "key", StringField(2, m.key))
        \o Optional(m, "bssid", StringField(3, m.bssid))
        \o Optional(m, "security_mode", VarintField(4, m.security_mode))
        \o Optional(m, "access_point_type", VarintField(5, m.access_point_type))

InfoFallbackSize(m) ==
    Counted(m, "ssid", 1 + StringSize(m.ssid))
        + Counted(m, "key", 1 + StringSize(m.key))
        + Counted(m, "bssid", 1 + StringSize(m.bssid))
        + Counted(m, "security_mode", 1 + VarintSize(m.security_mode))
        + Counted(m, "access_point_type", 1 + VarintSize(m.access_point_type))

\* Mutated form: the tag of the key is not counted.
InfoByteSize_NoKeyTag(m) ==
    IF InfoFields \subseteq m.has
    THEN 1 + StringSize(m.ssid) + StringSize(m.key) + 1 + StringSize(m.bssid)
           + 1 + VarintSize(m.security_mode) + 1 + VarintSize(m.access_point_type)
    ELSE InfoFallbackSize(m)

InfoByteSize(m) ==
    IF InfoFields \subseteq m.has
    THEN 1 + StringSize(m.ssid) + 1 + StringSize(m.key) + 1 + StringSize(m.bssid)
           + 1 + VarintSize(m.security_mode) + 1 + VarintSize(m.access_point_type)
    ELSE InfoFallbackSize(m)

\* A value the enumeration does not have goes to the unknown fields.
InfoField(f) ==
    CASE f.tag = 10 -> "ssid" [] f.tag = 18 -> "key" [] f.tag = 26 -> "bssid"
      [] f.tag = 32 /\ f.value \in SecurityModes -> "security_mode"
      [] f.tag = 40 /\ f.value \in AccessPointTypes -> "access_point_type"
      [] OTHER -> "unknown"

-----------------------------------------------------------------------------
(* The parsers *)

\* The field at the start of b: its tag, what follows it, and the bytes it takes.  Tag
\* 0 is a failure: a varint or a value that does not end, or a wire type that is none
\* (groups, which nobody sends, are taken for that).
NextField(b) ==
    LET tag == ReadVarint(b)
        wire == tag % 8
        rest == After(b, VarintEnd(b))
        n == ReadVarint(rest)
        size == CASE wire = 1 -> 8
                  [] wire = 2 -> VarintEnd(rest) + n
                  [] wire = 5 -> 4
                  [] OTHER -> VarintEnd(rest)
        failed == \/ VarintEnd(b) = 0 \/ wire \notin {0, 1, 2, 5}
                  \/ wire \in {0, 2} /\ VarintEnd(rest) = 0
                  \/ wire = 2 /\ n < 0
                  \/ size > Len(rest)
    IN IF failed THEN [tag |-> 0, value |-> <<>>, size |-> 0]
       ELSE [tag |-> tag,
             value |-> IF wire = 0 THEN n ELSE SubSeq(rest, VarintEnd(rest) + 1, size),
             size |-> VarintEnd(b) + size]

\* The fields of a message, up to the first failure.
ReadFields(b) ==
    LET from[i \in 1 .. Len(b) + 1] ==
            LET f == NextField(After(b, i - 1))
            IN IF i > Len(b) THEN <<>>
               ELSE <<f>> \o IF f.tag = 0 THEN <<>> ELSE from[i + f.size]
    IN from[1]

Initialized(m, required) == required \subseteq m.has

\* The message with these fields of these names, the last of each name: none if
\* reading failed or a required one is missing.
Parse(new, required, fields, names) ==
    LET of(f) == {i \in DOMAIN fields : names[i] = f}
        has == {f \in required : of(f) # {}}
        m == [f \in DOMAIN new |-> CASE f = "has" -> has
                                     [] f \in has -> fields[Max(of(f))].value
                                     [] OTHER -> new[f]]
        failed == \E i \in DOMAIN fields : fields[i].tag = 0
    IN IF failed \/ ~Initialized(m, required) THEN {} ELSE {m}

\* fields is bound by a set: TLC then reads the bytes once.
ParseStart(bytes) ==
    UNION {Parse(NewStart, StartFields, fields,
                 [i \in DOMAIN fields |-> StartField(fields[i])])
             : fields \in {ReadFields(bytes)}}

ParseInfo(bytes) ==
    UNION {Parse(NewInfo, InfoFields, fields,
                 [i \in DOMAIN fields |-> InfoField(fields[i])])
             : fields \in {ReadFields(bytes)}}

-----------------------------------------------------------------------------
(* launch and SendMessage *)

StartRequest(info) ==
    SetField(SetField(NewStart, "ip_address", info.ipAddress), "port", info.port)

InfoResponse(info) ==
    LET m == SetField(SetField(SetField(NewInfo,
                "ssid", info.ssid), "key", info.key), "bssid", info.bssid)
    IN SetField(SetField(m, "security_mode", info.securityMode),
                "access_point_type", info.accessPointType)

\* htons
Network(n) == <<n \div SizeBase, n % SizeBase>>

Sizes == SizeBase * SizeBase

\* Mutated form: the length counts the four bytes before the body.
SendMessage_WholeLength(messageId, size, body) ==
    LET messageSize == size % Sizes
    IN Network((messageSize + 4) % Sizes) \o Network(messageId) \o body

\* What is written: SerializeToArray writes nothing into a buffer that is too small
\* (a byte of it is then anything, which 256 stands for), and a size near the end of
\* 16 bits leaves a buffer too small for its own header.
SendMessage(messageId, size, body) ==
    LET messageSize == size % Sizes
        total == (messageSize + 4) % Sizes
        buffer == Network(messageSize) \o Network(messageId)
                      \o IF size = messageSize THEN body
                         ELSE [k \in 1 .. messageSize |-> 256]
    IN Upto(buffer, total)

WifiStartRequest == 1
WifiInfoResponse == 3

StartFrame(e) ==
    LET m == StartRequest(GetWifiInfo(e))
    IN SendMessage(WifiStartRequest, StartByteSize(m), StartSerialize(m))
InfoFrame(e) ==
    LET m == InfoResponse(GetWifiInfo(e))
    IN SendMessage(WifiInfoResponse, InfoByteSize(m), InfoSerialize(m))

\* The phone: the frame at the start of b, and what is left.
Number(b) == b[1] * SizeBase + b[2]
FrameId(b) == Number(SubSeq(b, 3, 4))
FrameBody(b) == Upto(After(b, 4), Number(b))
FrameRest(b) == After(b, 4 + Number(b))

-----------------------------------------------------------------------------
(* What Launch promises of them *)

\* Settings whose messages, with their headers, are not counted past 16 bits.
Fits(e) ==
    /\ 4 + Len(StartSerialize(StartRequest(GetWifiInfo(e)))) < Sizes
    /\ 4 + Len(InfoSerialize(InfoResponse(GetWifiInfo(e)))) < Sizes

\* What is written is the body behind its length and its id, exactly if 16 bits count
\* it with its header.
WholeIfCounted ==
    \A e \in Environments :
        LET start == StartSerialize(StartRequest(GetWifiInfo(e)))
            info == InfoSerialize(InfoResponse(GetWifiInfo(e)))
        IN /\ 4 + Len(start) < Sizes <=>
                StartFrame(e) = Network(Len(start)) \o Network(WifiStartRequest) \o start
           /\ 4 + Len(info) < Sizes <=>
                InfoFrame(e) = Network(Len(info)) \o Network(WifiInfoResponse) \o info

\* The phone reads the two frames as they follow each other.
SettingsArrive ==
    \A e \in Environments :
        LET info == GetWifiInfo(e)
            b == StartFrame(e) \o InfoFrame(e)
        IN Fits(e) =>
            /\ FrameId(b) = WifiStartRequest
            /\ ParseStart(FrameBody(b)) = {StartRequest(info)}
            /\ FrameId(FrameRest(b)) = WifiInfoResponse
            /\ ParseInfo(FrameBody(FrameRest(b))) = {InfoResponse(info)}
            /\ FrameRest(FrameRest(b)) = <<>>

\* ByteSizeLong is what _InternalSerialize writes, whichever fields are set.
SizesAgree ==
    \A e \in Environments :
        /\ \A has \in SUBSET StartFields :
             LET m == [StartRequest(GetWifiInfo(e)) EXCEPT !.has = has]
             IN StartByteSize(m) = Len(StartSerialize(m))
        /\ \A has \in SUBSET InfoFields :
             LET m == [InfoResponse(GetWifiInfo(e)) EXCEPT !.has = has]
             IN InfoByteSize(m) = Len(InfoSerialize(m))
===============================================================================
