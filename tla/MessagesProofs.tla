--------------------------- MODULE MessagesProofs ---------------------------
(***************************************************************************)
(* What the phone reads is what aawgd writes, for all settings: the        *)
(* lengths ByteSizeLong counts are those of what _InternalSerialize        *)
(* writes, and the parser gives the messages back.                         *)
(***************************************************************************)
EXTENDS Messages, DataLemmas

Bytes == 0..255

\* Sequences of bytes concatenate.
LEMMA BytesConcat ==
    ASSUME NEW a \in Seq(Bytes), NEW b \in Seq(Bytes)
    PROVE  /\ a \o b \in Seq(Bytes) /\ Len(a \o b) = Len(a) + Len(b)
           /\ Len(a) \in Nat /\ Len(b) \in Nat
           /\ \A i \in 1 .. Len(a) : (a \o b)[i] = a[i]
           /\ \A i \in 1 .. Len(b) : (a \o b)[Len(a) + i] = b[i]
<1>1. /\ a \o b \in Seq(Bytes) /\ Len(a \o b) = Len(a) + Len(b)
      /\ \A i \in 1 .. Len(a) + Len(b) :
            (a \o b)[i] = IF i <= Len(a) THEN a[i] ELSE b[i - Len(a)]
    BY ConcatProperties
<1> QED
    BY <1>1

\* Concatenation is associative.
LEMMA BytesAssociative ==
    ASSUME NEW a \in Seq(Bytes), NEW b \in Seq(Bytes), NEW c \in Seq(Bytes)
    PROVE  (a \o b) \o c = a \o (b \o c)
BY ConcatAssociative

-----------------------------------------------------------------------------
(* Varints *)

\* A varint has as many bytes as VarintSize says.
LEMMA VarintLength ==
    ASSUME NEW n \in Int
    PROVE  VarintSize(n) \in 1..10 /\ Len(Varint(n)) = VarintSize(n)
BY DEF VarintSize, Varint

\* A group is of seven bits.
LEMMA GroupRange ==
    ASSUME NEW n \in Int, NEW k \in 1..10
    PROVE  Group(n, k) \in 0..127
<1>1. CASE k <= 5
  <2>1. Weight[k] \in Nat \ {0}
    BY <1>1 DEF Weight
  <2>2. \A x \in Int : (x % 128) \in 0..127
    OBVIOUS
  <2>3. n \div Weight[k] \in Int
    BY <2>1
  <2> QED
    BY <1>1, <2>2, <2>3 DEF Group
<1>2. CASE k > 5
    BY <1>2 DEF Group
<1> QED
    BY <1>1, <1>2

\* All its bytes but the last have the eighth bit set, and the others hold a group.
LEMMA VarintBytes ==
    ASSUME NEW n \in Int
    PROVE  /\ Varint(n) \in Seq(Bytes)
           /\ \A k \in 1 .. VarintSize(n) :
                /\ (Varint(n)[k] % 128) = Group(n, k)
                /\ Varint(n)[k] < 128 <=> k = VarintSize(n)
<1>1. VarintSize(n) \in 1..10 /\ Len(Varint(n)) = VarintSize(n)
    BY VarintLength
<1>2. ASSUME NEW k \in 1 .. VarintSize(n)
      PROVE  /\ Varint(n)[k] \in Bytes /\ (Varint(n)[k] % 128) = Group(n, k)
             /\ Varint(n)[k] < 128 <=> k = VarintSize(n)
  <2>1. Group(n, k) \in 0..127
    <3>1. k \in 1..10
      BY <1>1
    <3> QED
      BY <3>1, GroupRange
  <2>2. Varint(n)[k] = Group(n, k) + IF k < VarintSize(n) THEN 128 ELSE 0
    BY DEF Varint
  <2>3. \A g \in 0..127 : (g % 128) = g /\ ((g + 128) % 128) = g
    OBVIOUS
  <2>4. CASE k = VarintSize(n)
    <3>1. ~ (k < VarintSize(n))
      BY <1>1, <2>4
    <3>2. Varint(n)[k] = Group(n, k)
      BY <2>1, <2>2, <3>1
    <3> QED
      BY <2>1, <2>3, <2>4, <3>2 DEF Bytes
  <2>5. CASE k # VarintSize(n)
    <3>1. k < VarintSize(n)
      BY <1>1, <2>5
    <3>2. Varint(n)[k] = Group(n, k) + 128
      BY <2>2, <3>1
    <3> QED
      BY <2>1, <2>3, <2>5, <3>2 DEF Bytes
  <2> QED
    BY <2>4, <2>5
<1>3. Varint(n) \in Seq(Bytes)
  <2>1. Varint(n) = [k \in 1 .. VarintSize(n) |-> Varint(n)[k]]
    BY DEF Varint
  <2> QED
    BY <1>1, <1>2, <2>1
<1> QED
    BY <1>2, <1>3

\* The first ten bytes.
LEMMA FirstTen ==
    ASSUME NEW b \in Seq(Bytes)
    PROVE  LET u == Upto(b, 10)
           IN /\ Len(u) = IF 10 <= Len(b) THEN 10 ELSE Len(b)
              /\ \A k \in 1 .. Len(u) : u[k] = b[k]
BY DEF Upto

\* Where a varint ends.
LEMMA EndInRange ==
    ASSUME NEW b \in Seq(Bytes)
    PROVE  VarintEnd(b) \in 0 .. Len(b) /\ VarintEnd(b) <= 10
<1> DEFINE u == Upto(b, 10)
           I == {i \in 1 .. Len(u) : u[i] < 128}
<1>1. Len(u) \in Nat /\ Len(u) <= 10 /\ Len(u) <= Len(b)
    BY FirstTen
<1>2. VarintEnd(b) = IF I # {} THEN Min(I) ELSE 0
    BY DEF VarintEnd, SelectInSeq
<1>3. I \subseteq Nat
    BY <1>1
<1>4. ASSUME I # {} PROVE Min(I) \in I
  <2> HIDE DEF I
  <2>1. PICK x \in I : \A y \in I : x <= y
    BY <1>3, <1>4, LeastNumber
  <2>2. I \subseteq Int
    BY <1>3
  <2>3. Min(I) = x
    BY <2>1, <2>2, MinIs
  <2> QED
    BY <2>3
<1> QED
    BY <1>1, <1>2, <1>4

\* A varint ends in its first byte without the eighth bit.
LEMMA EndIs ==
    ASSUME NEW b \in Seq(Bytes), NEW n \in 1..10, n <= Len(b),
           \A k \in 1..n : b[k] < 128 <=> k = n
    PROVE  VarintEnd(b) = n
<1> DEFINE u == Upto(b, 10)
           I == {i \in 1 .. Len(u) : u[i] < 128}
<1>1. VarintEnd(b) = IF I # {} THEN Min(I) ELSE 0
    BY DEF VarintEnd, SelectInSeq
<1>2. n \in 1 .. Len(u) /\ \A k \in 1 .. Len(u) : u[k] = b[k]
  <2>1. /\ Len(u) = IF 10 <= Len(b) THEN 10 ELSE Len(b)
        /\ \A k \in 1 .. Len(u) : u[k] = b[k]
    BY FirstTen
  <2> HIDE DEF u
  <2> QED
    BY <2>1
<1> HIDE DEF u
<1>3. n \in I
    BY <1>2
<1>4. ASSUME NEW x \in I PROVE x \in Int /\ n <= x
  <2>1. x \in 1 .. Len(u) /\ b[x] < 128
    BY <1>2
  <2> QED
    BY <1>2, <2>1
<1>5. Min(I) = n
  <2> HIDE DEF I
  <2>1. I \subseteq Int
    BY <1>4
  <2> QED
    BY <1>3, <1>4, <2>1, MinIs
<1> QED
    BY <1>1, <1>3, <1>5

\* The groups of a number beyond its bytes are 0.
LEMMA GroupsEnd ==
    ASSUME NEW n \in Int32, NEW k \in 1..5, k > VarintSize(n)
    PROVE  Group(n, k) = 0
<1>1. n >= 0 /\ n < Weight[k]
    BY SMT DEF VarintSize, Weight, Int32
<1>2. n \div Weight[k] = 0 /\ Weight[k] \in Nat
    BY <1>1, SMT DEF Weight, Int32
<1>3. (0 % 128) = 0
    BY SMT
<1> QED
    BY <1>2, <1>3, SMT DEF Group

\* The groups of a number make it up, its sign with the low four bits of the fifth.
LEMMA GroupsMakeNumber ==
    ASSUME NEW n \in Int32
    PROVE  LET top == Group(n, 5) % 16
           IN Group(n, 1) + Weight[2] * Group(n, 2) + Weight[3] * Group(n, 3)
                + Weight[4] * Group(n, 4)
                + Weight[5] * (IF top < 8 THEN top ELSE top - 16) = n
<1> DEFINE h == n \div 268435456
           g5 == h % 128
           top == g5 % 16
<1>1. /\ Group(n, 1) = (n % 128) /\ Group(n, 2) = ((n \div 128) % 128)
      /\ Group(n, 3) = ((n \div 16384) % 128) /\ Group(n, 4) = ((n \div 2097152) % 128)
      /\ Group(n, 5) = g5
    BY SMT DEF Group, Weight, Int32
<1>2. h \in -8..7
    BY SMT DEF Int32
<1>3. (IF top < 8 THEN top ELSE top - 16) = h
  <2> HIDE DEF h
  <2> QED
    BY <1>2
<1>4. (n % 128) + 128 * ((n \div 128) % 128) + 16384 * ((n \div 16384) % 128)
          + 2097152 * ((n \div 2097152) % 128) + 268435456 * h = n
    BY SMT DEF Int32
<1> HIDE DEF h, top
<1> QED
    BY <1>1, <1>3, <1>4, SMT DEF Weight, top

\* A varint at the start of a sequence is read as the number it was written for.
LEMMA ReadBack ==
    ASSUME NEW n \in Int32, NEW r \in Seq(Bytes)
    PROVE  LET b == Varint(n) \o r
           IN /\ b \in Seq(Bytes) /\ VarintEnd(b) = VarintSize(n)
              /\ ReadVarint(b) = n /\ After(b, VarintSize(n)) = r
<1> DEFINE b == Varint(n) \o r
<1>1. n \in Int
    BY DEF Int32
<1>2. /\ Varint(n) \in Seq(Bytes) /\ VarintSize(n) \in 1..10
      /\ Len(Varint(n)) = VarintSize(n)
    BY <1>1, VarintLength, VarintBytes
<1>3. /\ b \in Seq(Bytes) /\ Len(b) = VarintSize(n) + Len(r) /\ Len(r) \in Nat
      /\ \A k \in 1 .. VarintSize(n) : b[k] = Varint(n)[k]
    BY <1>2, BytesConcat
<1>4. \A k \in 1 .. VarintSize(n) : /\ (b[k] % 128) = Group(n, k)
                                    /\ b[k] < 128 <=> k = VarintSize(n)
    BY <1>1, <1>3, VarintBytes
<1>5. After(b, VarintSize(n)) = r
    BY <1>2, Parts DEF After
<1> HIDE DEF b
<1>6. VarintEnd(b) = VarintSize(n)
  <2>1. VarintSize(n) <= Len(b)
    BY <1>2, <1>3
  <2> QED
    BY <1>2, <1>3, <1>4, <2>1, EndIs
<1> DEFINE group == [k \in 1..5 |-> IF k <= VarintEnd(b) THEN b[k] % 128 ELSE 0]
<1>7. ASSUME NEW k \in 1..5 PROVE group[k] = Group(n, k)
  <2>1. CASE k <= VarintSize(n)
    <3>1. k \in 1 .. VarintSize(n)
      BY <1>2, <2>1
    <3> QED
      BY <1>4, <1>6, <2>1, <3>1
  <2>2. CASE ~ (k <= VarintSize(n))
    <3>1. k > VarintSize(n)
      BY <1>2, <2>2
    <3> QED
      BY <1>6, <2>2, <3>1, GroupsEnd
  <2> QED
    BY <2>1, <2>2
<1>8. ReadVarint(b) = n
  <2>1. /\ group[1] = Group(n, 1) /\ group[2] = Group(n, 2) /\ group[3] = Group(n, 3)
        /\ group[4] = Group(n, 4) /\ group[5] = Group(n, 5)
    BY <1>7
  <2>2. ReadVarint(b) =
          LET top == group[5] % 16
          IN group[1] + Weight[2] * group[2] + Weight[3] * group[3]
               + Weight[4] * group[4]
               + Weight[5] * (IF top < 8 THEN top ELSE top - 16)
    BY DEF ReadVarint
  <2> HIDE DEF group
  <2> QED
    BY <2>1, <2>2, GroupsMakeNumber
<1> QED
    BY <1>3, <1>5, <1>6, <1>8 DEF b

\* Whatever is read there is a number.
LEMMA ReadsNumber ==
    ASSUME NEW b \in Seq(Bytes)
    PROVE  ReadVarint(b) \in Int
<1> DEFINE group == [k \in 1..5 |-> IF k <= VarintEnd(b) THEN b[k] % 128 ELSE 0]
<1>1. ASSUME NEW k \in 1..5 PROVE group[k] \in Int
  <2>1. CASE k <= VarintEnd(b)
    <3>1. k \in 1 .. Len(b)
      BY <2>1, EndInRange
    <3>2. b[k] \in Bytes
      BY <3>1
    <3>3. \A x \in Bytes : (x % 128) \in Int
      BY DEF Bytes
    <3> QED
      BY <2>1, <3>2, <3>3
  <2>2. CASE ~ (k <= VarintEnd(b))
    BY <2>2
  <2> QED
    BY <2>1, <2>2
<1>2. /\ group[1] \in Int /\ group[2] \in Int /\ group[3] \in Int /\ group[4] \in Int
      /\ group[5] \in Int
    BY <1>1
<1>3. ReadVarint(b) =
        LET top == group[5] % 16
        IN group[1] + Weight[2] * group[2] + Weight[3] * group[3] + Weight[4] * group[4]
             + Weight[5] * (IF top < 8 THEN top ELSE top - 16)
    BY DEF ReadVarint
<1>4. Weight[2] = 128 /\ Weight[3] = 16384 /\ Weight[4] = 2097152 /\ Weight[5] = 268435456
    BY SMT DEF Weight
<1> DEFINE top == group[5] % 16
           high == IF top < 8 THEN top ELSE top - 16
           x2 == Weight[2] * group[2]
           x3 == Weight[3] * group[3]
           x4 == Weight[4] * group[4]
           x5 == Weight[5] * high
<1>5. high \in Int
  <2>1. top \in Int
    BY <1>2
  <2> HIDE DEF top
  <2> QED
    BY <2>1
<1>6. x2 \in Int /\ x3 \in Int /\ x4 \in Int /\ x5 \in Int
  <2> HIDE DEF group, high
  <2> QED
    BY <1>2, <1>4, <1>5, SMT
<1>7. ReadVarint(b) = group[1] + x2 + x3 + x4 + x5
    BY <1>3
<1> HIDE DEF group, x2, x3, x4, x5
<1> QED
    BY <1>2, <1>6, <1>7
-----------------------------------------------------------------------------
(* Fields *)

\* What is left behind k bytes.
LEMMA AfterFacts ==
    ASSUME NEW b \in Seq(Bytes), NEW k \in 0 .. Len(b)
    PROVE  After(b, k) \in Seq(Bytes) /\ Len(After(b, k)) = Len(b) - k
<1>1. /\ SubSeq(b, k + 1, Len(b)) \in Seq(Bytes)
      /\ Len(SubSeq(b, k + 1, Len(b))) = Len(b) - k
    BY TakeDrop
<1> QED
    BY <1>1 DEF After

\* A field that is read has a byte at least, and ends where the bytes do or before.
LEMMA NextSize ==
    ASSUME NEW b \in Seq(Bytes), NextField(b).tag # 0
    PROVE  NextField(b).size \in 1 .. Len(b)
<1> DEFINE tag == ReadVarint(b)
           wire == tag % 8
           rest == After(b, VarintEnd(b))
           n == ReadVarint(rest)
           size == CASE wire = 1 -> 8
                     [] wire = 2 -> VarintEnd(rest) + n
                     [] wire = 5 -> 4
                     [] OTHER -> VarintEnd(rest)
           failed == \/ VarintEnd(b) = 0 \/ wire \notin {0, 1, 2, 5}
                     \/ wire \in {0, 2} /\ VarintEnd(rest) = 0
                     \/ wire = 2 /\ n < 0
                     \/ size > Len(rest)
           value == IF wire = 0 THEN n ELSE SubSeq(rest, VarintEnd(rest) + 1, size)
<1>1. NextField(b) = [tag |-> IF failed THEN 0 ELSE tag, value |-> value,
                      size |-> VarintEnd(b) + size]
    BY DEF NextField
<1>2. VarintEnd(b) \in 0 .. Len(b)
    BY EndInRange
<1>3. rest \in Seq(Bytes) /\ Len(rest) = Len(b) - VarintEnd(b)
    BY <1>2, AfterFacts
<1>4. VarintEnd(rest) \in 0 .. Len(rest) /\ n \in Int
  <2> HIDE DEF rest
  <2> QED
    BY <1>3, EndInRange, ReadsNumber
<1> HIDE DEF wire, rest, n, value
<1>5. ~ failed
    BY <1>1
<1>6. size \in Nat
    BY <1>4, <1>5
<1>7. NextField(b).size = VarintEnd(b) + size
    BY <1>1
<1>8. VarintEnd(b) # 0 /\ ~ (size > Len(rest))
    BY <1>5
<1> HIDE DEF size
<1> QED
    BY <1>2, <1>3, <1>6, <1>7, <1>8

\* The varint of a tag of these messages is one byte.
LEMMA TagByte ==
    ASSUME NEW t \in 1..127
    PROVE  Varint(t) = <<t>> /\ VarintSize(t) = 1 /\ t \in Int32 /\ <<t>> \in Seq(Bytes)
<1>1. VarintSize(t) = 1
    BY DEF VarintSize
<1>2. Group(t, 1) = t
  <2>1. Group(t, 1) = ((t \div 1) % 128)
    BY SMT DEF Group, Weight
  <2> QED
    BY <2>1
<1>3. Varint(t) = [k \in 1..1 |-> t]
  <2>1. \A k \in 1..1 : Group(t, k) + (IF k < 1 THEN 128 ELSE 0) = t
    BY <1>2
  <2>2. Varint(t) = [k \in 1..1 |-> Group(t, k) + IF k < 1 THEN 128 ELSE 0]
    BY <1>1 DEF Varint
  <2> QED
    BY <2>1, <2>2
<1>4. [k \in 1..1 |-> t] = <<t>>
    OBVIOUS
<1>5. t \in Int32
    BY SMT DEF Int32
<1>6. <<t>> \in Seq(Bytes)
    BY DEF Bytes
<1> QED
    BY <1>1, <1>3, <1>4, <1>5, <1>6

\* How a field begins.
LEMMA AfterTag ==
    ASSUME NEW t \in 1..127, NEW c \in Seq(Bytes)
    PROVE  LET b == <<t>> \o c
           IN /\ b \in Seq(Bytes) /\ VarintEnd(b) = 1 /\ ReadVarint(b) = t
              /\ After(b, 1) = c
<1>1. Varint(t) = <<t>> /\ VarintSize(t) = 1 /\ t \in Int32
    BY TagByte
<1>2. LET b == Varint(t) \o c
      IN /\ b \in Seq(Bytes) /\ VarintEnd(b) = VarintSize(t)
         /\ ReadVarint(b) = t /\ After(b, VarintSize(t)) = c
    BY <1>1, ReadBack
<1> QED
    BY <1>1, <1>2

\* A string is read as it was written.
LEMMA NextString ==
    ASSUME NEW k \in 1..15, NEW s \in Seq(Bytes), Len(s) \in Int32, NEW r \in Seq(Bytes)
    PROVE  NextField(StringField(k, s) \o r) =
             [tag |-> 8 * k + 2, value |-> s, size |-> Len(StringField(k, s))]
<1> DEFINE t == 8 * k + 2
           v == Varint(Len(s))
           c == v \o (s \o r)
           b == StringField(k, s) \o r
<1>1. t \in 1..127 /\ (t % 8) = 2
    OBVIOUS
<1>2. Len(s) \in Int /\ Len(s) >= 0
    OBVIOUS
<1>3. v \in Seq(Bytes) /\ VarintSize(Len(s)) \in 1..10 /\ Len(v) = VarintSize(Len(s))
    BY <1>2, VarintBytes, VarintLength
<1>4. s \o r \in Seq(Bytes) /\ Len(s \o r) = Len(s) + Len(r)
    BY BytesConcat
<1>5. <<t>> \in Seq(Bytes) /\ Len(<<t>>) = 1
    BY <1>1, TagByte
<1>6. c \in Seq(Bytes) /\ Len(c) = VarintSize(Len(s)) + (Len(s) + Len(r))
  <2> HIDE DEF v
  <2> QED
    BY <1>3, <1>4, BytesConcat
<1> HIDE DEF t
<1>7. StringField(k, s) = <<t>> \o v \o s
    BY DEF StringField, t
<1> HIDE DEF v
<1>8. b = <<t>> \o c
  <2>1. v \o s \in Seq(Bytes)
    BY <1>3, BytesConcat
  <2>2. (<<t>> \o v) \o s = <<t>> \o (v \o s)
    BY <1>3, <1>5, ConcatAssociative
  <2>3. (<<t>> \o (v \o s)) \o r = <<t>> \o ((v \o s) \o r)
    BY <1>5, <2>1, ConcatAssociative
  <2>4. (v \o s) \o r = v \o (s \o r)
    BY <1>3, BytesAssociative, Zenon
  <2> QED
    BY <1>7, <2>2, <2>3, <2>4
<1>9. Len(StringField(k, s)) = 1 + VarintSize(Len(s)) + Len(s)
  <2>1. <<t>> \o v \in Seq(Bytes) /\ Len(<<t>> \o v) = 1 + VarintSize(Len(s))
    BY <1>3, <1>5, BytesConcat
  <2>2. Len((<<t>> \o v) \o s) = Len(<<t>> \o v) + Len(s)
    BY <2>1, BytesConcat
  <2> QED
    BY <1>7, <2>1, <2>2
<1>10. VarintEnd(b) = 1 /\ ReadVarint(b) = t /\ After(b, 1) = c
  <2> HIDE DEF b, c
  <2> QED
    BY <1>1, <1>6, <1>8, AfterTag
<1>11. /\ VarintEnd(c) = VarintSize(Len(s)) /\ ReadVarint(c) = Len(s)
       /\ After(c, VarintSize(Len(s))) = s \o r
    BY <1>4, ReadBack DEF v
<1> DEFINE first == VarintSize(Len(s))
<1>12. SubSeq(c, first + 1, first + Len(s)) = s
  <2>1. SubSeq(c, Len(v) + 1, Len(v) + Len(s)) = s
    BY <1>3, MiddlePart
  <2> QED
    BY <1>3, <2>1
<1> HIDE DEF b, c, first
<1>13. first \in 1..10 /\ Len(c) = first + (Len(s) + Len(r)) /\ Len(r) \in Nat
    BY <1>3, <1>6 DEF first
<1>14. NextField(b) = [tag |-> t, value |-> SubSeq(c, first + 1, first + Len(s)),
                       size |-> 1 + (first + Len(s))]
  <2>1. VarintEnd(c) = first /\ ReadVarint(c) = Len(s)
    BY <1>11 DEF first
  <2>2. ~ (first = 0) /\ ~ (Len(s) < 0) /\ ~ (first + Len(s) > Len(c))
    BY <1>2, <1>13
  <2> DEFINE wire == ReadVarint(b) % 8
             rest == After(b, VarintEnd(b))
             n == ReadVarint(rest)
             size == CASE wire = 1 -> 8
                       [] wire = 2 -> VarintEnd(rest) + n
                       [] wire = 5 -> 4
                       [] OTHER -> VarintEnd(rest)
             failed == \/ VarintEnd(b) = 0 \/ wire \notin {0, 1, 2, 5}
                       \/ wire \in {0, 2} /\ VarintEnd(rest) = 0
                       \/ wire = 2 /\ n < 0
                       \/ size > Len(rest)
             value == IF wire = 0 THEN n ELSE SubSeq(rest, VarintEnd(rest) + 1, size)
  <2>3. NextField(b) = IF failed THEN [tag |-> 0, value |-> <<>>, size |-> 0]
                       ELSE [tag |-> ReadVarint(b), value |-> value,
                             size |-> VarintEnd(b) + size]
    BY DEF NextField
  <2>4. wire = 2 /\ rest = c
    BY <1>1, <1>10
  <2>5. n = Len(s) /\ VarintEnd(rest) = first /\ Len(rest) = Len(c)
    BY <2>1, <2>4
  <2> HIDE DEF wire, n, rest
  <2>6. size = first + Len(s)
    BY <2>4, <2>5
  <2>7. ~ failed
    BY <1>10, <2>2, <2>4, <2>5, <2>6
  <2>8. value = SubSeq(c, first + 1, first + Len(s))
    <3>1. wire # 0
      BY <2>4
    <3>2. value = SubSeq(rest, VarintEnd(rest) + 1, size)
      BY <3>1, Zenon
    <3> QED
      BY <2>4, <2>5, <2>6, <3>2
  <2> HIDE DEF size, failed, value
  <2> QED
    BY <1>10, <2>3, <2>6, <2>7, <2>8
<1>15. 1 + (first + Len(s)) = 1 + first + Len(s)
    BY <1>2, <1>13
<1> QED
    BY <1>9, <1>12, <1>14, <1>15 DEF b, t, first

\* So is a number.
LEMMA NextNumber ==
    ASSUME NEW k \in 1..15, NEW n \in Int32, NEW r \in Seq(Bytes)
    PROVE  NextField(VarintField(k, n) \o r) =
             [tag |-> 8 * k, value |-> n, size |-> Len(VarintField(k, n))]
<1> DEFINE t == 8 * k
           v == Varint(n)
           c == v \o r
           b == VarintField(k, n) \o r
<1>1. t \in 1..127 /\ (t % 8) = 0 /\ n \in Int
    BY DEF Int32
<1>2. v \in Seq(Bytes) /\ VarintSize(n) \in 1..10 /\ Len(v) = VarintSize(n)
    BY <1>1, VarintBytes, VarintLength
<1>3. <<t>> \in Seq(Bytes) /\ Len(<<t>>) = 1
    BY <1>1, TagByte
<1>4. c \in Seq(Bytes) /\ Len(c) = VarintSize(n) + Len(r) /\ Len(r) \in Nat
    BY <1>2, BytesConcat
<1> HIDE DEF t
<1>5. VarintField(k, n) = <<t>> \o v
    BY DEF VarintField, t
<1>6. VarintEnd(c) = VarintSize(n) /\ ReadVarint(c) = n
    BY ReadBack
<1> HIDE DEF v
<1>7. b = <<t>> \o c
    BY <1>2, <1>3, <1>5, ConcatAssociative
<1>8. Len(VarintField(k, n)) = 1 + VarintSize(n)
    BY <1>2, <1>3, <1>5, BytesConcat
<1>9. VarintEnd(b) = 1 /\ ReadVarint(b) = t /\ After(b, 1) = c
  <2> HIDE DEF b, c
  <2> QED
    BY <1>1, <1>4, <1>7, AfterTag
<1> HIDE DEF b, c
<1>10. NextField(b) = [tag |-> t, value |-> n, size |-> 1 + VarintSize(n)]
  <2>1. ~ (VarintSize(n) = 0) /\ ~ (VarintSize(n) > Len(c))
    BY <1>2, <1>4
  <2> QED
    BY <1>1, <1>6, <1>9, <2>1 DEF NextField
<1> QED
    BY <1>8, <1>10 DEF b, t
-----------------------------------------------------------------------------
(* ReadFields *)

\* from is what ReadFields computes on its way: the fields from each position on.
Reads(from, b) ==
    from = [i \in 1 .. Len(b) + 1 |->
              LET f == NextField(After(b, i - 1))
              IN IF i > Len(b) THEN <<>>
                 ELSE <<f>> \o IF f.tag = 0 THEN <<>> ELSE from[i + f.size]]

\* There is such a function: built from the end, as each field has a byte at least.
LEMMA ReadsExists ==
    ASSUME NEW b \in Seq(Bytes)
    PROVE  \E from : Reads(from, b)
<1> DEFINE N == Len(b) + 1
           D == 1..N
           Field(i) == NextField(After(b, i - 1))
           Step(g, i) == IF i > Len(b) THEN <<>>
                         ELSE <<Field(i)>> \o IF Field(i).tag = 0 THEN <<>>
                                              ELSE g[i + Field(i).size]
           Good(m, g) == /\ g = [i \in D |-> g[i]]
                         /\ \A i \in D : i > N - m => g[i] = Step(g, i)
           T == {m \in 0..N : \E g : Good(m, g)}
<1>1. Len(b) \in Nat /\ N \in Nat
    OBVIOUS
<1>2. ASSUME NEW i \in D, ~ (i > Len(b)), Field(i).tag # 0
      PROVE  Field(i).size \in Nat \ {0} /\ i + Field(i).size \in D
  <2>1. i - 1 \in 0 .. Len(b)
    BY <1>1, <1>2
  <2> DEFINE rest == After(b, i - 1)
  <2>2. rest \in Seq(Bytes) /\ Len(rest) = Len(b) - (i - 1)
    BY <2>1, AfterFacts
  <2>3. Field(i).size \in 1 .. Len(rest)
    <3>1. NextField(rest).tag # 0
      BY <1>2
    <3> HIDE DEF rest
    <3>2. NextField(rest).size \in 1 .. Len(rest)
      BY <2>2, <3>1, NextSize
    <3> QED
      BY <3>2 DEF rest
  <2> HIDE DEF rest, Field
  <2> QED
    BY <1>1, <2>2, <2>3
<1> HIDE DEF Field
<1>3. 0 \in T
  <2> DEFINE g == [i \in D |-> <<>>]
  <2>1. Good(0, g)
    BY <1>1
  <2>2. 0 \in 0..N
    BY <1>1
  <2> HIDE DEF g, Good
  <2> QED
    BY <2>1, <2>2
<1>4. ASSUME NEW m \in 0 .. N - 1, m \in T PROVE m + 1 \in T
  <2>1. PICK g : Good(m, g)
    BY <1>4
  <2> DEFINE j == N - m
             h == [i \in D |-> IF i = j THEN Step(g, j) ELSE g[i]]
  <2>2. j \in D /\ m + 1 \in 0..N
    BY <1>1
  <2>3. ASSUME NEW i \in D, i > N - (m + 1) PROVE h[i] = Step(h, i)
    <3>1. i >= j
      BY <1>1, <2>3
    <3>2. h[i] = Step(g, i)
      <4>1. CASE i = j
        BY <4>1
      <4>2. CASE i # j
        <5>1. i > N - m
          BY <1>1, <3>1, <4>2
        <5>2. g[i] = Step(g, i)
          BY <2>1, <5>1
        <5> HIDE DEF Step
        <5> QED
          BY <4>2, <5>2
      <4> QED
        BY <4>1, <4>2
    <3>3. Step(g, i) = Step(h, i)
      <4>1. CASE i > Len(b) \/ Field(i).tag = 0
        BY <4>1
      <4>2. CASE ~ (i > Len(b) \/ Field(i).tag = 0)
        <5>1. Field(i).size \in Nat \ {0} /\ i + Field(i).size \in D
          BY <1>2, <4>2
        <5>2. i + Field(i).size # j
          BY <1>1, <3>1, <5>1
        <5>3. h[i + Field(i).size] = g[i + Field(i).size]
          BY <5>1, <5>2
        <5> HIDE DEF h
        <5> QED
          BY <5>3
      <4> QED
        BY <4>1, <4>2
    <3> HIDE DEF h, Step
    <3> QED
      BY <3>2, <3>3
  <2>4. h = [i \in D |-> h[i]]
    OBVIOUS
  <2>5. Good(m + 1, h)
    <3> HIDE DEF h, Step
    <3> QED
      BY <2>3, <2>4
  <2> HIDE DEF h, Good
  <2> QED
    BY <2>2, <2>5
<1>5. N \in T
  <2>1. N \in 0..N
    BY <1>1
  <2> HIDE DEF T, N
  <2>2. 0..N \subseteq T
    BY <1>1, <1>3, <1>4, InductionUpTo
  <2> QED
    BY <2>1, <2>2
<1>6. PICK g : Good(N, g)
    BY <1>5
<1>7. \A i \in D : g[i] = Step(g, i)
  <2>1. \A i \in D : i > N - N
    BY <1>1
  <2> HIDE DEF Step
  <2> QED
    BY <1>6, <2>1
<1>8. g = [i \in D |-> Step(g, i)]
  <2> HIDE DEF Step
  <2>1. g = [i \in D |-> g[i]]
    BY <1>6
  <2> QED
    BY <1>7, <2>1
<1>9. Reads(g, b)
    BY <1>8, Zenon DEF Reads, Field
<1> QED
    BY <1>9

\* Its first value is what ReadFields returns.
LEMMA ReadFieldsIsFirst ==
    ASSUME NEW b \in Seq(Bytes)
    PROVE  \E from : Reads(from, b) /\ ReadFields(b) = from[1]
<1> DEFINE from == CHOOSE g : Reads(g, b)
<1>1. Reads(from, b)
    BY ReadsExists
<1>2. ReadFields(b) = from[1]
    BY Zenon DEF ReadFields, Reads
<1> QED
    BY <1>1, <1>2

\* At the end there are no more fields.
LEMMA ReadsEnd ==
    ASSUME NEW b \in Seq(Bytes), NEW from, Reads(from, b)
    PROVE  from[Len(b) + 1] = <<>>
<1>1. Len(b) + 1 \in 1 .. Len(b) + 1 /\ Len(b) + 1 > Len(b)
    OBVIOUS
<1> QED
    BY <1>1, Zenon DEF Reads

\* Behind p, a field f is read, and then what comes behind it.
LEMMA ReadsNext ==
    ASSUME NEW p \in Seq(Bytes), NEW f \in Seq(Bytes), NEW r \in Seq(Bytes), NEW from,
           Reads(from, p \o (f \o r)), Len(f) > 0,
           NextField(f \o r).tag # 0, NextField(f \o r).size = Len(f)
    PROVE  from[Len(p) + 1] = <<NextField(f \o r)>> \o from[Len(p \o f) + 1]
<1> DEFINE b == p \o (f \o r)
           field == NextField(f \o r)
<1> DEFINE i == Len(p) + 1
<1>1. f \o r \in Seq(Bytes) /\ Len(f \o r) = Len(f) + Len(r)
    BY BytesConcat
<1>2. Len(b) = Len(p) + (Len(f) + Len(r)) /\ Len(p \o f) = Len(p) + Len(f)
  <2>1. Len(p \o (f \o r)) = Len(p) + Len(f \o r)
    BY <1>1, BytesConcat
  <2> QED
    BY <1>1, <2>1, BytesConcat
<1>3. Len(p) \in Nat /\ Len(f) \in Nat /\ Len(r) \in Nat
    OBVIOUS
<1>4. /\ i \in 1 .. Len(b) + 1 /\ ~ (i > Len(b)) /\ i - 1 = Len(p)
      /\ i + Len(f) = Len(p \o f) + 1
    BY <1>2, <1>3
<1>5. After(b, Len(p)) = f \o r
    BY <1>1, Parts DEF After
<1>6. NextField(After(b, i - 1)) = field
    BY <1>4, <1>5
<1> HIDE DEF i, b, field
<1>7. from[i] = <<field>> \o from[i + field.size]
  <2>1. Reads(from, b) /\ field.tag # 0
    BY DEF b, field
  <2> QED
    BY <1>4, <1>6, <2>1, Zenon DEF Reads
<1>8. field.size = Len(f)
    BY DEF field
<1> QED
    BY <1>4, <1>7, <1>8 DEF i, field
-----------------------------------------------------------------------------
(* Messages *)

\* fields have as many names as are required, each once, and the values of m.
Tells(new, required, fields, names, m) ==
    /\ "has" \notin required
    /\ new = [x \in required \cup {"has"} |-> new[x]]
    /\ m = [x \in required \cup {"has"} |-> m[x]] /\ m["has"] = required
    /\ DOMAIN fields \subseteq Int
    /\ \A i \in DOMAIN fields : /\ names[i] \in required /\ fields[i].tag # 0
                                /\ fields[i].value = m[names[i]]
    /\ \A i, j \in DOMAIN fields : names[i] = names[j] => i = j
    /\ \A x \in required : \E i \in DOMAIN fields : names[i] = x

\* Parsing them gives m.
LEMMA ParseGives ==
    ASSUME NEW new, NEW required, NEW fields, NEW names, NEW m,
           Tells(new, required, fields, names, m)
    PROVE  Parse(new, required, fields, names) = {m}
<1> USE DEF Tells
<1> DEFINE of(f) == {i \in DOMAIN fields : names[i] = f}
           has == {f \in required : of(f) # {}}
           read == [f \in DOMAIN new |-> CASE f = "has" -> has
                                           [] f \in has -> fields[Max(of(f))].value
                                           [] OTHER -> new[f]]
           failed == \E i \in DOMAIN fields : fields[i].tag = 0
<1>1. ASSUME NEW x \in required
      PROVE  of(x) # {} /\ fields[Max(of(x))].value = m[x]
  <2>1. PICK i \in DOMAIN fields : names[i] = x
    OBVIOUS
  <2>2. of(x) = {i}
    BY <2>1
  <2>3. Max({i}) = i
    BY MaxOfOne
  <2> HIDE DEF of
  <2> QED
    BY <2>1, <2>2, <2>3
<1>2. has = required
    BY <1>1
<1>3. DOMAIN new = required \cup {"has"}
    BY Zenon
<1>4. read = m
  <2>1. ASSUME NEW x \in required \cup {"has"} PROVE read[x] = m[x]
    <3>1. CASE x = "has"
      BY <1>2, <1>3, <3>1
    <3>2. CASE x # "has"
      <4>1. x \in required /\ x \in has
        BY <1>2, <3>2
      <4>2. read[x] = fields[Max(of(x))].value
        <5> HIDE DEF of, has
        <5> QED
          BY <1>3, <3>2, <4>1
      <4> QED
        BY <1>1, <4>1, <4>2
    <3> QED
      BY <3>1, <3>2
  <2>2. read = [x \in required \cup {"has"} |-> read[x]]
    BY <1>3
  <2> HIDE DEF read
  <2>3. [x \in required \cup {"has"} |-> read[x]] = [x \in required \cup {"has"} |-> m[x]]
    BY <2>1
  <2> QED
    BY <2>2, <2>3, Zenon
<1>5. ~ failed
    OBVIOUS
<1>6. Parse(new, required, fields, names) =
        IF failed \/ ~ (required \subseteq has) THEN {} ELSE {read}
    BY DEF Parse, Initialized
<1> HIDE DEF has, read, failed
<1> QED
    BY <1>2, <1>4, <1>5, <1>6

\* Setting a field.
LEMMA SetFieldFacts ==
    ASSUME NEW D, NEW m, m = [x \in D |-> m[x]], "has" \in D,
           NEW f \in D, f # "has", NEW v
    PROVE  LET r == SetField(m, f, v)
           IN /\ r = [x \in D |-> r[x]]
              /\ r["has"] = m["has"] \cup {f}
              /\ r[f] = v
              /\ \A x \in D : x # f /\ x # "has" => r[x] = m[x]
BY DEF SetField

\* What a message has when launch has set its fields.
LEMMA StartRequestIs ==
    ASSUME NEW info
    PROVE  LET m == StartRequest(info)
           IN /\ m = [x \in StartFields \cup {"has"} |-> m[x]]
              /\ m["has"] = StartFields
              /\ m["ip_address"] = info.ipAddress
              /\ m["port"] = info.port
<1> DEFINE D == StartFields \cup {"has"}
           a == SetField(NewStart, "ip_address", info.ipAddress)
           m == SetField(a, "port", info.port)
<1>1. /\ "has" \in D /\ "ip_address" \in D /\ "port" \in D
      /\ "ip_address" # "has" /\ "port" # "has" /\ "ip_address" # "port"
    BY DEF StartFields
<1>2. NewStart = [x \in D |-> NewStart[x]] /\ NewStart["has"] = {}
    BY DEF NewStart, StartFields
<1> HIDE DEF D
<1>3. /\ a = [x \in D |-> a[x]]
      /\ a["has"] = NewStart["has"] \cup {"ip_address"}
      /\ a["ip_address"] = info.ipAddress
      /\ \A x \in D : x # "ip_address" /\ x # "has" => a[x] = NewStart[x]
    BY <1>1, <1>2, SetFieldFacts
<1> HIDE DEF a
<1>4. /\ m = [x \in D |-> m[x]]
      /\ m["has"] = a["has"] \cup {"port"}
      /\ m["port"] = info.port
      /\ \A x \in D : x # "port" /\ x # "has" => m[x] = a[x]
    BY <1>1, <1>3, SetFieldFacts
<1>5. StartRequest(info) = m
    BY DEF StartRequest, a
<1> HIDE DEF m
<1>6. m["has"] = StartFields
    BY <1>2, <1>3, <1>4 DEF StartFields
<1>7. m["ip_address"] = info.ipAddress
    BY <1>1, <1>3, <1>4
<1> QED
    BY <1>4, <1>5, <1>6, <1>7 DEF D

\* So with the response.
LEMMA InfoResponseIs ==
    ASSUME NEW info
    PROVE  LET m == InfoResponse(info)
           IN /\ m = [x \in InfoFields \cup {"has"} |-> m[x]]
              /\ m["has"] = InfoFields
              /\ m["ssid"] = info.ssid /\ m["key"] = info.key
              /\ m["bssid"] = info.bssid
              /\ m["security_mode"] = info.securityMode
              /\ m["access_point_type"] = info.accessPointType
<1> DEFINE D == InfoFields \cup {"has"}
           a == SetField(NewInfo, "ssid", info.ssid)
           b == SetField(a, "key", info.key)
           c == SetField(b, "bssid", info.bssid)
           d == SetField(c, "security_mode", info.securityMode)
           m == SetField(d, "access_point_type", info.accessPointType)
<1>1. /\ "has" \in D /\ "ssid" \in D /\ "key" \in D /\ "bssid" \in D
      /\ "security_mode" \in D /\ "access_point_type" \in D /\ "has" \notin InfoFields
    BY DEF InfoFields
<1>2. NewInfo = [x \in D |-> NewInfo[x]] /\ NewInfo["has"] = {}
    BY DEF NewInfo, InfoFields
<1> HIDE DEF D
<1>3. /\ a = [x \in D |-> a[x]] /\ a["has"] = NewInfo["has"] \cup {"ssid"}
      /\ a["ssid"] = info.ssid
    BY <1>1, <1>2, SetFieldFacts
<1> HIDE DEF a
<1>4. /\ b = [x \in D |-> b[x]] /\ b["has"] = a["has"] \cup {"key"}
      /\ b["key"] = info.key
      /\ \A x \in D : x # "key" /\ x # "has" => b[x] = a[x]
    BY <1>1, <1>3, SetFieldFacts
<1> HIDE DEF b
<1>5. /\ c = [x \in D |-> c[x]] /\ c["has"] = b["has"] \cup {"bssid"}
      /\ c["bssid"] = info.bssid
      /\ \A x \in D : x # "bssid" /\ x # "has" => c[x] = b[x]
    BY <1>1, <1>4, SetFieldFacts
<1> HIDE DEF c
<1>6. /\ d = [x \in D |-> d[x]] /\ d["has"] = c["has"] \cup {"security_mode"}
      /\ d["security_mode"] = info.securityMode
      /\ \A x \in D : x # "security_mode" /\ x # "has" => d[x] = c[x]
    BY <1>1, <1>5, SetFieldFacts
<1> HIDE DEF d
<1>7. /\ m = [x \in D |-> m[x]] /\ m["has"] = d["has"] \cup {"access_point_type"}
      /\ m["access_point_type"] = info.accessPointType
      /\ \A x \in D : x # "access_point_type" /\ x # "has" => m[x] = d[x]
    BY <1>1, <1>6, SetFieldFacts
<1>8. InfoResponse(info) = m
    BY DEF InfoResponse, a, b, c, d
<1> HIDE DEF m
<1>9. m["has"] = InfoFields
    BY <1>2, <1>3, <1>4, <1>5, <1>6, <1>7 DEF InfoFields
<1>10. /\ m["ssid"] = info.ssid /\ m["key"] = info.key /\ m["bssid"] = info.bssid
       /\ m["security_mode"] = info.securityMode
    BY <1>1, <1>3, <1>4, <1>5, <1>6, <1>7
<1> QED
    BY <1>7, <1>8, <1>9, <1>10 DEF D

\* What comes of the environment.
LEMMA WifiInfoTypes ==
    ASSUME NEW e \in Environments
    PROVE  LET info == GetWifiInfo(e)
           IN /\ info.ssid \in Seq(Bytes) /\ info.key \in Seq(Bytes)
              /\ info.bssid \in Seq(Bytes) /\ info.ipAddress \in Seq(Bytes)
              /\ info.port \in Int32
              /\ info.securityMode = 8 /\ info.accessPointType = 1
<1>1. ASSUME NEW s \in Seq(1..255) PROVE s \in Seq(Bytes)
  <2>1. 1..255 \subseteq Bytes
    BY DEF Bytes
  <2> QED
    BY <2>1, SeqOfMore
<1>2. /\ DefaultSsid \in Seq(1..255) /\ DefaultKey \in Seq(1..255)
      /\ DefaultIp \in Seq(1..255)
    BY ConfigAssumption
<1>3. /\ e.ssid \subseteq Seq(1..255) /\ e.key \subseteq Seq(1..255)
      /\ e.bssid \subseteq Seq(1..255) /\ e.ip \subseteq Seq(1..255)
      /\ e.mac \in Seq(1..255)
    BY ConfigAssumption
<1>4. ASSUME NEW variable, variable \subseteq Seq(1..255), NEW default \in Seq(1..255)
      PROVE  GetenvString(variable, default) \in Seq(Bytes)
  <2>1. GetenvString(variable, default) \in Seq(1..255)
    BY <1>4 DEF GetenvString, Value
  <2> QED
    BY <1>1, <2>1
<1>5. GetenvInt(e.port, 5288) \in Int32
  <2>1. 5288 \in Int32
    BY SMT DEF Int32
  <2>2. CASE e.port = {} \/ e.port = {<<>>}
    BY <2>1, <2>2 DEF GetenvInt
  <2>3. CASE ~ (e.port = {} \/ e.port = {<<>>})
    <3> DEFINE v == Value(e.port)
    <3>1. v \in e.port
      BY <2>3 DEF Value
    <3>2. v \in Seq(Int32)
      BY <3>1, ConfigAssumption
    <3>3. v # <<>>
      <4>1. \A w \in e.port : v = w
        BY <3>1, ConfigAssumption
      <4> HIDE DEF v
      <4>2. e.port = {v}
        BY <3>1, <4>1
      <4> QED
        BY <2>3, <4>2
    <3>4. v[1] \in Int32
      <4> HIDE DEF v
      <4> QED
        BY <3>2, <3>3
    <3>5. GetenvInt(e.port, 5288) = v[1]
      BY <2>3 DEF GetenvInt
    <3> QED
      BY <3>4, <3>5
  <2> QED
    BY <2>2, <2>3
<1> QED
    BY <1>2, <1>3, <1>4, <1>5 DEF GetWifiInfo, GetMacAddress, WPA2_PERSONAL, DYNAMIC
-----------------------------------------------------------------------------
(* ByteSizeLong and _InternalSerialize *)

\* The bytes of a string field.
LEMMA StringLength ==
    ASSUME NEW k \in 1..15, NEW s \in Seq(Bytes)
    PROVE  /\ StringField(k, s) \in Seq(Bytes)
           /\ Len(StringField(k, s)) = 1 + StringSize(s)
           /\ StringSize(s) \in Nat /\ Len(s) < 1 + StringSize(s)
<1> DEFINE t == 8 * k + 2
           v == Varint(Len(s))
<1>1. t \in 1..127 /\ Len(s) \in Int /\ Len(s) >= 0
    OBVIOUS
<1>2. <<t>> \in Seq(Bytes) /\ Len(<<t>>) = 1
    BY <1>1, TagByte
<1>3. /\ v \in Seq(Bytes) /\ Len(v) = VarintSize(Len(s))
      /\ VarintSize(Len(s)) \in 1..10
    BY <1>1, VarintBytes, VarintLength
<1>4. StringField(k, s) = <<t>> \o v \o s
    BY DEF StringField
<1> HIDE DEF t, v
<1>5. <<t>> \o v \in Seq(Bytes) /\ Len(<<t>> \o v) = 1 + VarintSize(Len(s))
    BY <1>2, <1>3, BytesConcat
<1>6. /\ (<<t>> \o v) \o s \in Seq(Bytes)
      /\ Len((<<t>> \o v) \o s) = Len(<<t>> \o v) + Len(s)
    BY <1>5, BytesConcat
<1>7. StringSize(s) = VarintSize(Len(s)) + Len(s)
    BY DEF StringSize
<1> QED
    BY <1>1, <1>3, <1>4, <1>5, <1>6, <1>7

\* The bytes of a number.
LEMMA NumberLength ==
    ASSUME NEW k \in 1..15, NEW n \in Int
    PROVE  /\ VarintField(k, n) \in Seq(Bytes)
           /\ Len(VarintField(k, n)) = 1 + VarintSize(n) /\ VarintSize(n) \in Nat
<1> DEFINE t == 8 * k
<1>1. t \in 1..127
    OBVIOUS
<1>2. <<t>> \in Seq(Bytes) /\ Len(<<t>>) = 1
    BY <1>1, TagByte
<1>3. /\ Varint(n) \in Seq(Bytes) /\ Len(Varint(n)) = VarintSize(n)
      /\ VarintSize(n) \in 1..10
    BY VarintBytes, VarintLength
<1>4. VarintField(k, n) = <<t>> \o Varint(n)
    BY DEF VarintField
<1> HIDE DEF t
<1>5. /\ <<t>> \o Varint(n) \in Seq(Bytes)
      /\ Len(<<t>> \o Varint(n)) = Len(<<t>>) + Len(Varint(n))
    BY <1>2, <1>3, BytesConcat
<1> QED
    BY <1>2, <1>3, <1>4, <1>5

\* A field that is not written is not counted.
LEMMA OptionalLength ==
    ASSUME NEW m, NEW f, NEW bytes \in Seq(Bytes)
    PROVE  /\ Optional(m, f, bytes) \in Seq(Bytes)
           /\ Len(Optional(m, f, bytes)) = Counted(m, f, Len(bytes))
BY DEF Optional, Counted

\* StartByteSize counts what StartSerialize writes.
LEMMA StartSizes ==
    ASSUME NEW m, m.ip_address \in Seq(Bytes), m.port \in Int
    PROVE  /\ StartSerialize(m) \in Seq(Bytes)
           /\ StartByteSize(m) = Len(StartSerialize(m))
<1> DEFINE x == StringField(1, m.ip_address)
           y == VarintField(2, m.port)
<1>1. /\ x \in Seq(Bytes) /\ Len(x) = 1 + StringSize(m.ip_address)
      /\ y \in Seq(Bytes) /\ Len(y) = 1 + VarintSize(m.port)
      /\ StringSize(m.ip_address) \in Nat /\ VarintSize(m.port) \in Nat
  <2>1. 1 \in 1..15 /\ 2 \in 1..15
    OBVIOUS
  <2> QED
    BY <2>1, StringLength, NumberLength
<1> DEFINE ox == Optional(m, "ip_address", x)
           oy == Optional(m, "port", y)
<1>2. /\ ox \in Seq(Bytes) /\ oy \in Seq(Bytes)
      /\ Len(ox) = Counted(m, "ip_address", Len(x)) /\ Len(oy) = Counted(m, "port", Len(y))
  <2> HIDE DEF x, y
  <2> QED
    BY <1>1, OptionalLength
<1>3. StartSerialize(m) = ox \o oy
    BY DEF StartSerialize
<1>4. ox \o oy \in Seq(Bytes) /\ Len(ox \o oy) = Len(ox) + Len(oy)
  <2> HIDE DEF ox, oy
  <2> QED
    BY <1>2, BytesConcat
<1>5. StartFallbackSize(m) = Len(ox) + Len(oy)
  <2> HIDE DEF x, y, ox, oy
  <2> QED
    BY <1>1, <1>2 DEF StartFallbackSize
<1>6. CASE StartFields \subseteq m.has
  <2>1. Len(ox) = Len(x) /\ Len(oy) = Len(y)
    BY <1>2, <1>6 DEF Counted, StartFields
  <2> HIDE DEF x, y, ox, oy
  <2> QED
    BY <1>1, <1>3, <1>4, <1>6, <2>1 DEF StartByteSize
<1>7. CASE ~ (StartFields \subseteq m.has)
    BY <1>3, <1>4, <1>5, <1>7 DEF StartByteSize
<1> QED
    BY <1>6, <1>7

\* InfoByteSize counts what InfoSerialize writes.
LEMMA InfoSizes ==
    ASSUME NEW m, m.ssid \in Seq(Bytes), m.key \in Seq(Bytes), m.bssid \in Seq(Bytes),
           m.security_mode \in Int, m.access_point_type \in Int
    PROVE  /\ InfoSerialize(m) \in Seq(Bytes)
           /\ InfoByteSize(m) = Len(InfoSerialize(m))
<1> DEFINE x == StringField(1, m.ssid)
           y == StringField(2, m.key)
           z == StringField(3, m.bssid)
           u == VarintField(4, m.security_mode)
           v == VarintField(5, m.access_point_type)
<1>1. /\ x \in Seq(Bytes) /\ Len(x) = 1 + StringSize(m.ssid)
      /\ y \in Seq(Bytes) /\ Len(y) = 1 + StringSize(m.key)
      /\ z \in Seq(Bytes) /\ Len(z) = 1 + StringSize(m.bssid)
      /\ u \in Seq(Bytes) /\ Len(u) = 1 + VarintSize(m.security_mode)
      /\ v \in Seq(Bytes) /\ Len(v) = 1 + VarintSize(m.access_point_type)
      /\ StringSize(m.ssid) \in Nat /\ StringSize(m.key) \in Nat
      /\ StringSize(m.bssid) \in Nat /\ VarintSize(m.security_mode) \in Nat
      /\ VarintSize(m.access_point_type) \in Nat
  <2>1. 1 \in 1..15 /\ 2 \in 1..15 /\ 3 \in 1..15 /\ 4 \in 1..15 /\ 5 \in 1..15
    OBVIOUS
  <2>2. /\ x \in Seq(Bytes) /\ Len(x) = 1 + StringSize(m.ssid)
        /\ y \in Seq(Bytes) /\ Len(y) = 1 + StringSize(m.key)
        /\ z \in Seq(Bytes) /\ Len(z) = 1 + StringSize(m.bssid)
        /\ StringSize(m.ssid) \in Nat /\ StringSize(m.key) \in Nat
        /\ StringSize(m.bssid) \in Nat
    BY <2>1, StringLength
  <2>3. /\ u \in Seq(Bytes) /\ Len(u) = 1 + VarintSize(m.security_mode)
        /\ v \in Seq(Bytes) /\ Len(v) = 1 + VarintSize(m.access_point_type)
        /\ VarintSize(m.security_mode) \in Nat /\ VarintSize(m.access_point_type) \in Nat
    BY <2>1, NumberLength
  <2> QED
    BY <2>2, <2>3
<1> HIDE DEF x, y, z, u, v
<1> DEFINE ox == Optional(m, "ssid", x)
           oy == Optional(m, "key", y)
           oz == Optional(m, "bssid", z)
           ou == Optional(m, "security_mode", u)
           ov == Optional(m, "access_point_type", v)
<1>2. /\ ox \in Seq(Bytes) /\ Len(ox) = Counted(m, "ssid", Len(x))
      /\ oy \in Seq(Bytes) /\ Len(oy) = Counted(m, "key", Len(y))
      /\ oz \in Seq(Bytes) /\ Len(oz) = Counted(m, "bssid", Len(z))
      /\ ou \in Seq(Bytes) /\ Len(ou) = Counted(m, "security_mode", Len(u))
      /\ ov \in Seq(Bytes) /\ Len(ov) = Counted(m, "access_point_type", Len(v))
    BY <1>1, OptionalLength
<1>3. InfoSerialize(m) = (((ox \o oy) \o oz) \o ou) \o ov
    BY DEF InfoSerialize, x, y, z, u, v
<1>4. /\ (((ox \o oy) \o oz) \o ou) \o ov \in Seq(Bytes)
      /\ Len((((ox \o oy) \o oz) \o ou) \o ov) =
            Len(ox) + Len(oy) + Len(oz) + Len(ou) + Len(ov)
  <2> HIDE DEF ox, oy, oz, ou, ov
  <2>1. ox \o oy \in Seq(Bytes) /\ Len(ox \o oy) = Len(ox) + Len(oy)
    BY <1>2, BytesConcat
  <2>2. /\ (ox \o oy) \o oz \in Seq(Bytes)
        /\ Len((ox \o oy) \o oz) = Len(ox \o oy) + Len(oz)
    BY <1>2, <2>1, BytesConcat
  <2>3. /\ ((ox \o oy) \o oz) \o ou \in Seq(Bytes)
        /\ Len(((ox \o oy) \o oz) \o ou) = Len((ox \o oy) \o oz) + Len(ou)
    BY <1>2, <2>2, BytesConcat
  <2>4. /\ (((ox \o oy) \o oz) \o ou) \o ov \in Seq(Bytes)
        /\ Len((((ox \o oy) \o oz) \o ou) \o ov) =
              Len(((ox \o oy) \o oz) \o ou) + Len(ov)
    BY <1>2, <2>3, BytesConcat
  <2> QED
    BY <2>1, <2>2, <2>3, <2>4
<1> HIDE DEF ox, oy, oz, ou, ov
<1>5. InfoFallbackSize(m) = Len(ox) + Len(oy) + Len(oz) + Len(ou) + Len(ov)
    BY <1>1, <1>2 DEF InfoFallbackSize
<1>6. CASE InfoFields \subseteq m.has
  <2>1. /\ Len(ox) = Len(x) /\ Len(oy) = Len(y) /\ Len(oz) = Len(z)
        /\ Len(ou) = Len(u) /\ Len(ov) = Len(v)
    BY <1>2, <1>6 DEF Counted, InfoFields
  <2>2. InfoByteSize(m) =
          1 + StringSize(m.ssid) + 1 + StringSize(m.key) + 1 + StringSize(m.bssid)
            + 1 + VarintSize(m.security_mode) + 1 + VarintSize(m.access_point_type)
    BY <1>6, Zenon DEF InfoByteSize
  <2>3. InfoByteSize(m) = Len(ox) + Len(oy) + Len(oz) + Len(ou) + Len(ov)
    <3> DEFINE c1 == StringSize(m.ssid)
               c2 == StringSize(m.key)
               c3 == StringSize(m.bssid)
               c4 == VarintSize(m.security_mode)
               c5 == VarintSize(m.access_point_type)
    <3>1. c1 \in Nat /\ c2 \in Nat /\ c3 \in Nat /\ c4 \in Nat /\ c5 \in Nat
      BY <1>1
    <3>2. /\ Len(ox) = 1 + c1 /\ Len(oy) = 1 + c2 /\ Len(oz) = 1 + c3
          /\ Len(ou) = 1 + c4 /\ Len(ov) = 1 + c5
      BY <1>1, <2>1
    <3>3. InfoByteSize(m) = 1 + c1 + 1 + c2 + 1 + c3 + 1 + c4 + 1 + c5
      BY <2>2
    <3> HIDE DEF c1, c2, c3, c4, c5
    <3> QED
      BY <3>1, <3>2, <3>3
  <2> QED
    BY <1>3, <1>4, <2>3
<1>7. CASE ~ (InfoFields \subseteq m.has)
    BY <1>3, <1>4, <1>5, <1>7 DEF InfoByteSize
<1> QED
    BY <1>6, <1>7

\* ByteSizeLong is what _InternalSerialize writes, for all settings and whichever
\* fields are set.
THEOREM SizesAlwaysAgree == SizesAgree
<1>1. ASSUME NEW e \in Environments, NEW has
      PROVE  LET m == [StartRequest(GetWifiInfo(e)) EXCEPT !.has = has]
             IN StartByteSize(m) = Len(StartSerialize(m))
  <2> DEFINE info == GetWifiInfo(e)
             r == StartRequest(info)
             m == [r EXCEPT !.has = has]
  <2>1. info.ipAddress \in Seq(Bytes) /\ info.port \in Int
    BY WifiInfoTypes DEF Int32
  <2> HIDE DEF info
  <2>2. /\ r = [x \in StartFields \cup {"has"} |-> r[x]]
        /\ r["ip_address"] = info.ipAddress /\ r["port"] = info.port
    BY StartRequestIs
  <2> HIDE DEF r
  <2>3. m.ip_address = r["ip_address"] /\ m.port = r["port"]
    BY <2>2 DEF StartFields
  <2> HIDE DEF m
  <2>4. StartByteSize(m) = Len(StartSerialize(m))
    BY <2>1, <2>2, <2>3, StartSizes
  <2> QED
    BY <2>4 DEF m, r, info
<1>2. ASSUME NEW e \in Environments, NEW has
      PROVE  LET m == [InfoResponse(GetWifiInfo(e)) EXCEPT !.has = has]
             IN InfoByteSize(m) = Len(InfoSerialize(m))
  <2> DEFINE info == GetWifiInfo(e)
             r == InfoResponse(info)
             m == [r EXCEPT !.has = has]
  <2>1. /\ info.ssid \in Seq(Bytes) /\ info.key \in Seq(Bytes) /\ info.bssid \in Seq(Bytes)
        /\ info.securityMode \in Int /\ info.accessPointType \in Int
    BY WifiInfoTypes
  <2> HIDE DEF info
  <2>2. /\ r = [x \in InfoFields \cup {"has"} |-> r[x]]
        /\ r["ssid"] = info.ssid /\ r["key"] = info.key /\ r["bssid"] = info.bssid
        /\ r["security_mode"] = info.securityMode
        /\ r["access_point_type"] = info.accessPointType
    BY InfoResponseIs
  <2> HIDE DEF r
  <2>3. /\ m.ssid = r["ssid"] /\ m.key = r["key"] /\ m.bssid = r["bssid"]
        /\ m.security_mode = r["security_mode"]
        /\ m.access_point_type = r["access_point_type"]
    BY <2>2 DEF InfoFields
  <2> HIDE DEF m
  <2>4. InfoByteSize(m) = Len(InfoSerialize(m))
    BY <2>1, <2>2, <2>3, InfoSizes
  <2> QED
    BY <2>4 DEF m, r, info
<1> QED
    BY <1>1, <1>2 DEF SizesAgree
-----------------------------------------------------------------------------
(* Reading them back *)

\* A field as NextField reads it; and that it comes at i of what ReadFields computes,
\* with the others from j on.
Field(t, v, n) == [tag |-> t, value |-> v, size |-> n]
Comes(from, i, field, j) == from[i] = <<field>> \o from[j]

\* What is read behind p, when a string field or a number comes there.
LEMMA ReadsString ==
    ASSUME NEW p \in Seq(Bytes), NEW k \in 1..15, NEW s \in Seq(Bytes),
           Len(s) \in Int32, NEW r \in Seq(Bytes), NEW from,
           Reads(from, p \o (StringField(k, s) \o r))
    PROVE  Comes(from, Len(p) + 1, Field(8 * k + 2, s, Len(StringField(k, s))),
                 Len(p \o StringField(k, s)) + 1)
<1> DEFINE f == StringField(k, s)
           field == [tag |-> 8 * k + 2, value |-> s, size |-> Len(f)]
<1>1. f \in Seq(Bytes) /\ Len(f) > 0
  <2>1. f \in Seq(Bytes) /\ Len(f) = 1 + StringSize(s) /\ StringSize(s) \in Nat
    BY StringLength
  <2> HIDE DEF f
  <2> QED
    BY <2>1
<1>2. NextField(f \o r) = field
    BY NextString
<1>3. field.size = Len(f) /\ field.tag # 0
    OBVIOUS
<1>4. Reads(from, p \o (f \o r))
    OBVIOUS
<1> HIDE DEF f, field
<1>5. from[Len(p) + 1] = <<NextField(f \o r)>> \o from[Len(p \o f) + 1]
    BY <1>1, <1>2, <1>3, <1>4, ReadsNext
<1> QED
    BY <1>2, <1>5 DEF f, field, Field, Comes

\* So with a number.
LEMMA ReadsNumberField ==
    ASSUME NEW p \in Seq(Bytes), NEW k \in 1..15, NEW n \in Int32,
           NEW r \in Seq(Bytes), NEW from,
           Reads(from, p \o (VarintField(k, n) \o r))
    PROVE  Comes(from, Len(p) + 1, Field(8 * k, n, Len(VarintField(k, n))),
                 Len(p \o VarintField(k, n)) + 1)
<1> DEFINE f == VarintField(k, n)
           field == [tag |-> 8 * k, value |-> n, size |-> Len(f)]
<1>1. f \in Seq(Bytes) /\ Len(f) > 0
  <2>1. n \in Int
    BY DEF Int32
  <2>2. f \in Seq(Bytes) /\ Len(f) = 1 + VarintSize(n) /\ VarintSize(n) \in Nat
    BY <2>1, NumberLength
  <2> HIDE DEF f
  <2> QED
    BY <2>2
<1>2. NextField(f \o r) = field
    BY NextNumber
<1>3. field.size = Len(f) /\ field.tag # 0
    OBVIOUS
<1>4. Reads(from, p \o (f \o r))
    OBVIOUS
<1> HIDE DEF f, field
<1>5. from[Len(p) + 1] = <<NextField(f \o r)>> \o from[Len(p \o f) + 1]
    BY <1>1, <1>2, <1>3, <1>4, ReadsNext
<1> QED
    BY <1>2, <1>5 DEF f, field, Field, Comes

\* What StartSerialize writes of a request, the phone reads as that request.
LEMMA StartParses ==
    ASSUME NEW info, info.ipAddress \in Seq(Bytes), Len(info.ipAddress) \in Int32,
           info.port \in Int32
    PROVE  ParseStart(StartSerialize(StartRequest(info))) = {StartRequest(info)}
<1> DEFINE m == StartRequest(info)
           ip == info.ipAddress
           x == StringField(1, ip)
           y == VarintField(2, info.port)
           b == StartSerialize(m)
           fx == Field(8 * 1 + 2, ip, Len(x))
           fy == Field(8 * 2, info.port, Len(y))
           fields == <<fx>> \o (<<fy>> \o <<>>)
           names == [i \in DOMAIN fields |-> StartField(fields[i])]
<1>1. /\ m = [z \in StartFields \cup {"has"} |-> m[z]] /\ m["has"] = StartFields
      /\ m["ip_address"] = ip /\ m["port"] = info.port
    BY StartRequestIs
<1>2. 1 \in 1..15 /\ 2 \in 1..15 /\ info.port \in Int /\ ip \in Seq(Bytes)
    BY DEF Int32
<1>3. x \in Seq(Bytes) /\ y \in Seq(Bytes)
    BY <1>2, StringLength, NumberLength
<1> HIDE DEF m
<1>4. b = x \o y
    BY <1>1 DEF StartSerialize, Optional, StartFields
<1>5. b \in Seq(Bytes)
    BY <1>3, <1>4, BytesConcat
<1> HIDE DEF b
<1>6. PICK from : Reads(from, b) /\ ReadFields(b) = from[1]
    BY <1>5, ReadFieldsIsFirst
<1>7. from[1] = <<fx>> \o from[Len(x) + 1]
  <2>1. b = <<>> \o (x \o y)
    BY <1>4, <1>5, ConcatEmptySeq
  <2>2. Reads(from, <<>> \o (x \o y)) /\ <<>> \in Seq(Bytes)
    BY <1>6, <2>1
  <2>3. Comes(from, Len(<<>>) + 1, fx, Len(<<>> \o x) + 1)
    BY <1>2, <1>3, <2>2, ReadsString, Zenon
  <2>4. <<>> \o x = x /\ Len(<<>>) + 1 = 1
    BY <1>3, ConcatEmptySeq
  <2> HIDE DEF x, fx
  <2> QED
    BY <2>3, <2>4 DEF Comes
<1>8. from[Len(x) + 1] = <<fy>> \o from[Len(b) + 1]
  <2>1. b = x \o (y \o <<>>)
    BY <1>3, <1>4, ConcatEmptySeq
  <2>2. Reads(from, x \o (y \o <<>>)) /\ <<>> \in Seq(Bytes)
    BY <1>6, <2>1
  <2>3. Comes(from, Len(x) + 1, fy, Len(x \o y) + 1)
    BY <1>2, <1>3, <2>2, ReadsNumberField, Zenon
  <2> HIDE DEF x, y, fy
  <2> QED
    BY <1>4, <2>3 DEF Comes
<1>9. from[Len(b) + 1] = <<>>
    BY <1>5, <1>6, ReadsEnd
<1>10. ReadFields(b) = fields
  <2> HIDE DEF fx, fy, x, y
  <2> QED
    BY <1>6, <1>7, <1>8, <1>9
<1>11. DOMAIN fields = 1..2 /\ fields[1] = fx /\ fields[2] = fy
  <2> HIDE DEF fx, fy
  <2> QED
    OBVIOUS
<1>12a. fx.tag = 10 /\ fx.value = ip /\ fy.tag = 16 /\ fy.value = info.port
    BY DEF Field
<1> HIDE DEF fields, fx, fy
<1>12. names[1] = "ip_address" /\ names[2] = "port"
    BY <1>11, <1>12a DEF StartField
<1>13. ParseStart(b) = Parse(NewStart, StartFields, fields, names)
    BY <1>10 DEF ParseStart
<1> HIDE DEF names
<1>14. Tells(NewStart, StartFields, fields, names, m)
  <2>1. \A i \in 1..2 : i = 1 \/ i = 2
    OBVIOUS
  <2>2. \A i \in 1..2 : names[i] \in StartFields
    BY <1>12, <2>1 DEF StartFields
  <2>3. \A i \in 1..2 : fields[i].tag # 0
    BY <1>11, <1>12a, <2>1
  <2>4. \A i \in 1..2 : fields[i].value = m[names[i]]
    <3>1. fields[1].value = m[names[1]]
      BY <1>1, <1>11, <1>12, <1>12a
    <3>2. fields[2].value = m[names[2]]
      BY <1>1, <1>11, <1>12, <1>12a
    <3> QED
      BY <2>1, <3>1, <3>2
  <2>5. \A i, j \in 1..2 : names[i] = names[j] => i = j
    BY <1>12, <2>1
  <2>6. \A z \in StartFields : \E i \in 1..2 : names[i] = z
    BY <1>12 DEF StartFields
  <2>7. /\ "has" \notin StartFields
        /\ NewStart = [z \in StartFields \cup {"has"} |-> NewStart[z]]
    BY DEF NewStart, StartFields
  <2>8. DOMAIN fields \subseteq Int /\ DOMAIN fields = 1..2
    BY <1>11
  <2>9. \A i \in 1..2 : /\ names[i] \in StartFields /\ fields[i].tag # 0
                        /\ fields[i].value = m[names[i]]
    BY <2>2, <2>3, <2>4
  <2> QED
    BY <1>1, <2>5, <2>6, <2>7, <2>8, <2>9, Zenon DEF Tells
<1>15. Parse(NewStart, StartFields, fields, names) = {m}
    BY <1>14, ParseGives
<1> QED
    BY <1>13, <1>15 DEF b, m

\* Both ways to concatenate three sequences are the same.
Regroups(a, b, c) == (a \o b) \o c = a \o (b \o c)

\* Concatenation is associative, as a predicate that the provers can match.
LEMMA BytesRegroup ==
    ASSUME NEW a \in Seq(Bytes), NEW b \in Seq(Bytes), NEW c \in Seq(Bytes)
    PROVE  Regroups(a, b, c)
BY BytesAssociative DEF Regroups

\* Five sequences, one after the other.
InARow(x, y, z, u, v) == (((x \o y) \o z) \o u) \o v

\* w is those five, cut between any two of them.
Cuts(w, x, y, z, u, v) ==
    /\ w \in Seq(Bytes) /\ x \o y \in Seq(Bytes) /\ (x \o y) \o z \in Seq(Bytes)
    /\ ((x \o y) \o z) \o u \in Seq(Bytes) /\ u \o v \in Seq(Bytes)
    /\ z \o (u \o v) \in Seq(Bytes) /\ y \o (z \o (u \o v)) \in Seq(Bytes)
    /\ w = <<>> \o (x \o (y \o (z \o (u \o v))))
    /\ w = x \o (y \o (z \o (u \o v)))
    /\ w = (x \o y) \o (z \o (u \o v))
    /\ w = ((x \o y) \o z) \o (u \o v)
    /\ w = (((x \o y) \o z) \o u) \o (v \o <<>>)

\* Five fields in a row can be cut anywhere.
LEMMA FiveFields ==
    ASSUME NEW x \in Seq(Bytes), NEW y \in Seq(Bytes), NEW z \in Seq(Bytes),
           NEW u \in Seq(Bytes), NEW v \in Seq(Bytes)
    PROVE  Cuts(InARow(x, y, z, u, v), x, y, z, u, v)
<1> DEFINE b == InARow(x, y, z, u, v)
           xy == x \o y
           xyz == xy \o z
           xyzu == xyz \o u
           uv == u \o v
           zuv == z \o uv
           yzuv == y \o zuv
<1>1. xy \in Seq(Bytes) /\ uv \in Seq(Bytes)
    BY BytesConcat
<1>2. b = xyzu \o v
    BY DEF InARow
<1> HIDE DEF b, xy, uv
<1>3. xyz \in Seq(Bytes) /\ zuv \in Seq(Bytes)
    BY <1>1, BytesConcat
<1> HIDE DEF xyz, zuv
<1>4. xyzu \in Seq(Bytes) /\ yzuv \in Seq(Bytes)
    BY <1>3, BytesConcat
<1>5. xyzu \o v = xyz \o uv
  <2>1. Regroups(xyz, u, v)
    BY <1>3, BytesRegroup, Zenon
  <2> QED
    BY <2>1, Zenon DEF Regroups, xyzu, uv
<1>6. xyz \o uv = xy \o zuv
  <2>1. Regroups(xy, z, uv)
    BY <1>1, BytesRegroup, Zenon
  <2> QED
    BY <2>1, Zenon DEF Regroups, xyz, zuv
<1>7. xy \o zuv = x \o yzuv
  <2>1. Regroups(x, y, zuv)
    BY <1>3, BytesRegroup, Zenon
  <2> QED
    BY <2>1, Zenon DEF Regroups, xy, yzuv
<1> HIDE DEF xyzu, yzuv
<1>8. b \in Seq(Bytes)
    BY <1>2, <1>4, BytesConcat
<1>9. b = <<>> \o b /\ v \o <<>> = v
    BY <1>8, ConcatEmptySeq
<1>10. b = xyz \o uv /\ b = xy \o zuv /\ b = x \o yzuv /\ b = xyzu \o (v \o <<>>)
    BY <1>2, <1>5, <1>6, <1>7, <1>9
<1>11. b = <<>> \o (x \o yzuv)
    BY <1>9, <1>10
<1> QED
    BY <1>1, <1>3, <1>4, <1>8, <1>10, <1>11 DEF Cuts, b, xy, xyz, xyzu, uv, zuv, yzuv

\* So with the response.
LEMMA InfoParses ==
    ASSUME NEW info, info.ssid \in Seq(Bytes), Len(info.ssid) \in Int32,
           info.key \in Seq(Bytes), Len(info.key) \in Int32,
           info.bssid \in Seq(Bytes), Len(info.bssid) \in Int32,
           info.securityMode = 8, info.accessPointType = 1
    PROVE  ParseInfo(InfoSerialize(InfoResponse(info))) = {InfoResponse(info)}
<1> DEFINE m == InfoResponse(info)
           ssid == info.ssid
           key == info.key
           bssid == info.bssid
           x == StringField(1, ssid)
           y == StringField(2, key)
           z == StringField(3, bssid)
           u == VarintField(4, 8)
           v == VarintField(5, 1)
           b == InfoSerialize(m)
           fx == Field(8 * 1 + 2, ssid, Len(x))
           fy == Field(8 * 2 + 2, key, Len(y))
           fz == Field(8 * 3 + 2, bssid, Len(z))
           fu == Field(8 * 4, 8, Len(u))
           fv == Field(8 * 5, 1, Len(v))
           fields == <<fx>> \o (<<fy>> \o (<<fz>> \o (<<fu>> \o (<<fv>> \o <<>>))))
           names == [i \in DOMAIN fields |-> InfoField(fields[i])]
<1>1. /\ m = [w \in InfoFields \cup {"has"} |-> m[w]] /\ m["has"] = InfoFields
      /\ m["ssid"] = ssid /\ m["key"] = key /\ m["bssid"] = bssid
      /\ m["security_mode"] = 8 /\ m["access_point_type"] = 1
    BY InfoResponseIs
<1>2. /\ 1 \in 1..15 /\ 2 \in 1..15 /\ 3 \in 1..15 /\ 4 \in 1..15 /\ 5 \in 1..15
      /\ <<>> \in Seq(Bytes)
    OBVIOUS
<1>3. 8 \in Int32 /\ 1 \in Int32
    BY SMT DEF Int32
<1>4. /\ x \in Seq(Bytes) /\ y \in Seq(Bytes) /\ z \in Seq(Bytes)
      /\ u \in Seq(Bytes) /\ v \in Seq(Bytes)
  <2>1. x \in Seq(Bytes) /\ y \in Seq(Bytes) /\ z \in Seq(Bytes)
    BY <1>2, StringLength
  <2>2. 8 \in Int /\ 1 \in Int
    OBVIOUS
  <2>3. u \in Seq(Bytes) /\ v \in Seq(Bytes)
    BY <1>2, <2>2, NumberLength
  <2> QED
    BY <2>1, <2>3
<1> HIDE DEF m
<1>5. b = InARow(x, y, z, u, v)
    BY <1>1 DEF InfoSerialize, Optional, InfoFields, InARow
<1> HIDE DEF b
<1>6. /\ b \in Seq(Bytes) /\ x \o y \in Seq(Bytes) /\ (x \o y) \o z \in Seq(Bytes)
      /\ ((x \o y) \o z) \o u \in Seq(Bytes) /\ u \o v \in Seq(Bytes)
      /\ z \o (u \o v) \in Seq(Bytes) /\ y \o (z \o (u \o v)) \in Seq(Bytes)
      /\ b = <<>> \o (x \o (y \o (z \o (u \o v))))
      /\ b = x \o (y \o (z \o (u \o v)))
      /\ b = (x \o y) \o (z \o (u \o v))
      /\ b = ((x \o y) \o z) \o (u \o v)
      /\ b = (((x \o y) \o z) \o u) \o (v \o <<>>)
  <2> HIDE DEF x, y, z, u, v
  <2>1. Cuts(InARow(x, y, z, u, v), x, y, z, u, v)
    BY <1>4, FiveFields, Zenon
  <2>2. Cuts(b, x, y, z, u, v)
    BY <1>5, <2>1, Zenon
  <2> QED
    BY <2>2, Zenon DEF Cuts
<1>7. PICK from : Reads(from, b) /\ ReadFields(b) = from[1]
    BY <1>6, ReadFieldsIsFirst
<1>8. /\ Reads(from, <<>> \o (x \o (y \o (z \o (u \o v)))))
      /\ Reads(from, x \o (y \o (z \o (u \o v))))
      /\ Reads(from, (x \o y) \o (z \o (u \o v)))
      /\ Reads(from, ((x \o y) \o z) \o (u \o v))
      /\ Reads(from, (((x \o y) \o z) \o u) \o (v \o <<>>))
  <2> HIDE DEF x, y, z, u, v
  <2> QED
    BY <1>6, <1>7
<1>9. Comes(from, Len(<<>>) + 1, fx, Len(<<>> \o x) + 1)
  <2>1. /\ y \o (z \o (u \o v)) \in Seq(Bytes)
        /\ Reads(from, <<>> \o (x \o (y \o (z \o (u \o v)))))
    BY <1>6, <1>8, Zenon
  <2> HIDE DEF y, z, u, v
  <2> QED
    BY <1>2, <2>1, ReadsString, Zenon
<1>10. Comes(from, Len(x) + 1, fy, Len(x \o y) + 1)
  <2>1. /\ z \o (u \o v) \in Seq(Bytes) /\ x \in Seq(Bytes)
        /\ Reads(from, x \o (y \o (z \o (u \o v))))
    BY <1>4, <1>6, <1>8, Zenon
  <2> HIDE DEF x, z, u, v
  <2> QED
    BY <1>2, <2>1, ReadsString, Zenon
<1>11. Comes(from, Len(x \o y) + 1, fz, Len((x \o y) \o z) + 1)
  <2>1. /\ u \o v \in Seq(Bytes) /\ x \o y \in Seq(Bytes)
        /\ Reads(from, (x \o y) \o (z \o (u \o v)))
    BY <1>6, <1>8, Zenon
  <2> HIDE DEF x, y, u, v
  <2> QED
    BY <1>2, <2>1, ReadsString, Zenon
<1>12. Comes(from, Len((x \o y) \o z) + 1, fu, Len(((x \o y) \o z) \o u) + 1)
  <2>1. /\ (x \o y) \o z \in Seq(Bytes) /\ v \in Seq(Bytes)
        /\ Reads(from, ((x \o y) \o z) \o (u \o v))
    BY <1>4, <1>6, <1>8, Zenon
  <2> HIDE DEF x, y, z, v
  <2> QED
    BY <1>2, <1>3, <2>1, ReadsNumberField, Zenon
<1>13. Comes(from, Len(((x \o y) \o z) \o u) + 1, fv, Len(b) + 1)
  <2>1. /\ ((x \o y) \o z) \o u \in Seq(Bytes)
        /\ Reads(from, (((x \o y) \o z) \o u) \o (v \o <<>>))
    BY <1>6, <1>8, Zenon
  <2>2. Comes(from, Len(((x \o y) \o z) \o u) + 1, fv,
              Len((((x \o y) \o z) \o u) \o v) + 1)
    <3> HIDE DEF x, y, z, u
    <3> QED
      BY <1>2, <1>3, <2>1, ReadsNumberField, Zenon
  <2> HIDE DEF x, y, z, u, v, fv
  <2> QED
    BY <1>5, <2>2 DEF InARow
<1>14. from[Len(b) + 1] = <<>>
    BY <1>6, <1>7, ReadsEnd
<1>15. ReadFields(b) = fields
  <2> HIDE DEF fx, fy, fz, fu, fv
  <2>1. <<>> \o x = x /\ Len(<<>>) + 1 = 1
    BY <1>4, ConcatEmptySeq
  <2> HIDE DEF x, y, z, u, v
  <2>2. from[1] = <<fx>> \o from[Len(x) + 1]
    BY <1>9, <2>1 DEF Comes
  <2> QED
    BY <1>7, <1>10, <1>11, <1>12, <1>13, <1>14, <2>2 DEF Comes
<1>16. /\ DOMAIN fields = 1..5 /\ fields[1] = fx /\ fields[2] = fy /\ fields[3] = fz
       /\ fields[4] = fu /\ fields[5] = fv
  <2> HIDE DEF fx, fy, fz, fu, fv
  <2> QED
    OBVIOUS
<1>17. /\ fx.tag = 10 /\ fx.value = ssid /\ fy.tag = 18 /\ fy.value = key
       /\ fz.tag = 26 /\ fz.value = bssid
    BY DEF Field
<1>18. fu.tag = 32 /\ fu.value = 8 /\ fv.tag = 40 /\ fv.value = 1
    BY DEF Field
<1> HIDE DEF fields, fx, fy, fz, fu, fv
<1>19. /\ names[1] = "ssid" /\ names[2] = "key" /\ names[3] = "bssid"
       /\ names[4] = "security_mode" /\ names[5] = "access_point_type"
  <2>1. \A i \in 1..5 : names[i] = InfoField(fields[i])
    BY <1>16
  <2>2. InfoField(fx) = "ssid" /\ InfoField(fy) = "key" /\ InfoField(fz) = "bssid"
    BY <1>17 DEF InfoField
  <2>3. InfoField(fu) = "security_mode" /\ InfoField(fv) = "access_point_type"
    BY <1>18 DEF InfoField, SecurityModes, AccessPointTypes
  <2> HIDE DEF names
  <2> QED
    BY <1>16, <2>1, <2>2, <2>3
<1>20. ParseInfo(b) = Parse(NewInfo, InfoFields, fields, names)
    BY <1>15 DEF ParseInfo
<1> HIDE DEF names
<1>21. Tells(NewInfo, InfoFields, fields, names, m)
  <2>1. \A i \in 1..5 : i = 1 \/ i = 2 \/ i = 3 \/ i = 4 \/ i = 5
    OBVIOUS
  <2>2. \A i \in 1..5 : names[i] \in InfoFields
    BY <1>19, <2>1 DEF InfoFields
  <2>3. \A i \in 1..5 : fields[i].tag # 0
    BY <1>16, <1>17, <1>18, <2>1
  <2>4. \A i \in 1..5 : fields[i].value = m[names[i]]
    <3>1. /\ fields[1].value = m[names[1]] /\ fields[2].value = m[names[2]]
          /\ fields[3].value = m[names[3]]
      BY <1>1, <1>16, <1>17, <1>19
    <3>2. fields[4].value = m[names[4]] /\ fields[5].value = m[names[5]]
      BY <1>1, <1>16, <1>18, <1>19
    <3> QED
      BY <2>1, <3>1, <3>2
  <2>5. \A i, j \in 1..5 : names[i] = names[j] => i = j
    BY <1>19, <2>1
  <2>6. \A w \in InfoFields : \E i \in 1..5 : names[i] = w
    BY <1>19 DEF InfoFields
  <2>7. /\ "has" \notin InfoFields
        /\ NewInfo = [w \in InfoFields \cup {"has"} |-> NewInfo[w]]
    BY DEF NewInfo, InfoFields
  <2>8. DOMAIN fields \subseteq Int /\ DOMAIN fields = 1..5
    BY <1>16
  <2>9. \A i \in 1..5 : /\ names[i] \in InfoFields /\ fields[i].tag # 0
                        /\ fields[i].value = m[names[i]]
    BY <2>2, <2>3, <2>4
  <2> QED
    BY <1>1, <2>5, <2>6, <2>7, <2>8, <2>9, Zenon DEF Tells
<1>22. Parse(NewInfo, InfoFields, fields, names) = {m}
    BY <1>21, ParseGives
<1> QED
    BY <1>20, <1>22 DEF b, m-----------------------------------------------------------------------------
(* Frames *)

\* A body with its header; and that SendMessage makes that of it.
Frame(id, body) == Network(Len(body)) \o Network(id) \o body

SentAsFrame(id, body) == SendMessage(id, Len(body), body) = Frame(id, body)

\* At the start of b is the frame of body, and rest follows it.
Arrives(b, id, body, rest) ==
    FrameId(b) = id /\ FrameBody(b) = body /\ FrameRest(b) = rest

\* The two bytes of a number.
LEMMA NetworkNumber ==
    ASSUME NEW n \in 0 .. Sizes - 1
    PROVE  /\ n \div SizeBase \in Bytes /\ n % SizeBase \in Bytes
           /\ (n \div SizeBase) * SizeBase + (n % SizeBase) = n
<1>1. SizeBase \in Nat /\ SizeBase > 1 /\ SizeBase <= 256
    BY MessagesAssumption
<1>2. n \in 0 .. SizeBase * SizeBase - 1
    BY DEF Sizes
<1>3. /\ n \div SizeBase \in 0 .. SizeBase - 1 /\ n % SizeBase \in 0 .. SizeBase - 1
      /\ (n \div SizeBase) * SizeBase + (n % SizeBase) = n
    BY <1>1, <1>2, TwoDigits
<1>4. \A d \in 0 .. SizeBase - 1 : d \in Bytes
    BY <1>1 DEF Bytes
<1> QED
    BY <1>3, <1>4

\* The ids of the two messages take two bytes.
LEMMA SizesAtLeast == Sizes \in Nat /\ Sizes >= 4
<1>1. SizeBase \in Int /\ SizeBase >= 2
    BY MessagesAssumption
<1>2. SizeBase * SizeBase >= 2 * SizeBase
    BY <1>1, SMT
<1> QED
    BY <1>1, <1>2 DEF Sizes

\* A remainder.
LEMMA SmallRemainder ==
    ASSUME NEW d \in Nat, d > 0, NEW n \in 0 .. d - 1
    PROVE  (n % d) = n
<1> DEFINE q == n \div d
           r == (n % d)
<1>1. q \in Int /\ r \in 0 .. d - 1 /\ n = d * q + r
    BY SMT
<1> HIDE DEF q, r
<1>2. q = 0
  <2>1. ASSUME q <= -1 PROVE FALSE
    <3>1. d * q <= d * (-1)
      BY <1>1, <2>1
    <3> QED
      BY <1>1, <3>1
  <2>2. ASSUME q >= 1 PROVE FALSE
    <3>1. d * q >= d * 1
      BY <1>1, <2>2
    <3> QED
      BY <1>1, <3>1
  <2> QED
    BY <1>1, <2>1, <2>2
<1> QED
    BY <1>1, <1>2 DEF r

\* A body that 16 bits can count is sent whole, behind its header.
LEMMA SendsFrame ==
    ASSUME NEW id \in 0 .. Sizes - 1, NEW body \in Seq(Bytes), 4 + Len(body) < Sizes
    PROVE  SentAsFrame(id, body) /\ Frame(id, body) \in Seq(Bytes)
<1> DEFINE size == Len(body)
           f == Frame(id, body)
<1>1. size \in Nat /\ Sizes \in Nat /\ 4 + size < Sizes
    BY SizesAtLeast
<1> HIDE DEF size
<1>2. (size % Sizes) = size
    BY <1>1, SmallRemainder
<1>3. ((size + 4) % Sizes) = size + 4
  <2>1. size + 4 \in 0 .. Sizes - 1
    BY <1>1
  <2> HIDE DEF size
  <2> QED
    BY <1>1, <2>1, SmallRemainder
<1>4. f \in Seq(Bytes) /\ Len(f) = size + 4
  <2>1. size \in 0 .. Sizes - 1
    BY <1>1
  <2>2. /\ size \div SizeBase \in Bytes /\ size % SizeBase \in Bytes
        /\ id \div SizeBase \in Bytes /\ id % SizeBase \in Bytes
    BY <2>1, NetworkNumber
  <2>3. /\ Network(size) \in Seq(Bytes) /\ Len(Network(size)) = 2
        /\ Network(id) \in Seq(Bytes) /\ Len(Network(id)) = 2
    BY <2>2 DEF Network
  <2>4. /\ Network(size) \o Network(id) \in Seq(Bytes)
        /\ Len(Network(size) \o Network(id)) = 4
    <3>1. /\ Network(size) \o Network(id) \in Seq(Bytes)
          /\ Len(Network(size) \o Network(id)) = Len(Network(size)) + Len(Network(id))
      BY <2>3, BytesConcat
    <3> QED
      BY <2>3, <3>1
  <2>5. /\ (Network(size) \o Network(id)) \o body \in Seq(Bytes)
        /\ Len((Network(size) \o Network(id)) \o body) = 4 + size
    BY <2>4, BytesConcat DEF size
  <2> QED
    BY <1>1, <2>5 DEF Frame, size
<1>5. SendMessage(id, size, body) = Upto(f, size + 4)
    BY <1>2, <1>3 DEF SendMessage, Frame, size
<1>6. Upto(f, size + 4) = f
  <2> HIDE DEF f
  <2>1. SubSeq(f, 1, Len(f)) = f
    BY <1>4, SubSeqFull
  <2> QED
    BY <1>1, <1>4, <2>1 DEF Upto
<1> QED
    BY <1>4, <1>5, <1>6 DEF SentAsFrame, size

\* A body that 16 bits cannot count with its header is not sent whole: what is written
\* is shorter than the frame.
LEMMA CutsFrame ==
    ASSUME NEW id \in Nat, NEW body \in Seq(Bytes), ~ (4 + Len(body) < Sizes)
    PROVE  SendMessage(id, Len(body), body) # Frame(id, body)
<1> DEFINE size == Len(body)
           messageSize == (size % Sizes)
           total == ((messageSize + 4) % Sizes)
           head == Network(messageSize) \o Network(id)
           rest == IF size = messageSize THEN body ELSE [k \in 1 .. messageSize |-> 256]
           buffer == head \o rest
<1>1. Sizes \in Nat /\ Sizes > 0 /\ size \in Nat /\ size + 4 >= Sizes
    BY SizesAtLeast
<1>2. /\ SizeBase \in Nat /\ SizeBase > 0
      /\ \A n \in Nat : n \div SizeBase \in Int /\ n % SizeBase \in Int
    BY MessagesAssumption
<1>3. \A n \in Nat : Network(n) \in Seq(Int) /\ Len(Network(n)) = 2
    BY <1>2 DEF Network
<1>4. body \in Seq(Int)
  <2>1. Bytes \subseteq Int
    BY DEF Bytes
  <2> QED
    BY <2>1, SeqOfMore
<1> HIDE DEF size
<1>5. messageSize \in Nat
    BY <1>1
<1> HIDE DEF messageSize
<1>6. total \in 0 .. Sizes - 1
  <2>1. messageSize + 4 \in Nat
    BY <1>5
  <2> QED
    BY <1>1, <2>1
<1> HIDE DEF total
<1>7. buffer \in Seq(Int)
  <2>1. [k \in 1 .. messageSize |-> 256] \in Seq(Int)
    BY <1>5
  <2>2. rest \in Seq(Int)
    BY <1>4, <2>1
  <2>3. head \in Seq(Int)
    BY <1>3, <1>5
  <2> HIDE DEF rest, head
  <2> QED
    BY <2>2, <2>3
<1>8. SendMessage(id, Len(body), body) = Upto(buffer, total)
    BY DEF SendMessage, buffer, total, messageSize, size
<1> HIDE DEF buffer
<1>9. Len(Upto(buffer, total)) <= total
    BY <1>6, <1>7 DEF Upto
<1>10. Len(Frame(id, body)) = 4 + size
  <2> DEFINE x == Network(size)
             y == Network(id)
  <2>1. x \in Seq(Int) /\ y \in Seq(Int) /\ Len(x) = 2 /\ Len(y) = 2
    BY <1>1, <1>3
  <2> HIDE DEF x, y
  <2>2. x \o y \in Seq(Int) /\ Len(x \o y) = Len(x) + Len(y)
    BY <2>1, ConcatProperties
  <2>3. Len((x \o y) \o body) = Len(x \o y) + Len(body)
    BY <1>4, <2>2, ConcatProperties
  <2> QED
    BY <2>1, <2>2, <2>3 DEF Frame, size, x, y
<1> QED
    BY <1>1, <1>6, <1>8, <1>9, <1>10

\* The phone takes it apart.
LEMMA FrameArrives ==
    ASSUME NEW id \in 0 .. Sizes - 1, NEW body \in Seq(Bytes), Len(body) < Sizes,
           NEW rest \in Seq(Bytes)
    PROVE  Arrives(Frame(id, body) \o rest, id, body, rest)
<1> DEFINE size == Len(body)
           h1 == size \div SizeBase
           h2 == size % SizeBase
           h3 == id \div SizeBase
           h4 == id % SizeBase
           head == <<h1, h2>> \o <<h3, h4>>
           tail == body \o rest
           b == Frame(id, body) \o rest
<1>1. size \in Nat /\ size \in 0 .. Sizes - 1
    BY SizesAtLeast
<1> HIDE DEF size
<1>2. /\ h1 \in Bytes /\ h2 \in Bytes /\ h3 \in Bytes /\ h4 \in Bytes
      /\ h1 * SizeBase + h2 = size /\ h3 * SizeBase + h4 = id
    BY <1>1, NetworkNumber
<1>3. Frame(id, body) = head \o body
    BY DEF Frame, Network, size
<1> HIDE DEF h1, h2, h3, h4
<1>4. /\ head \in Seq(Bytes) /\ Len(head) = 4
      /\ head[1] = h1 /\ head[2] = h2 /\ head[3] = h3 /\ head[4] = h4
    BY <1>2
<1> HIDE DEF head
<1>5. b = head \o tail
  <2>1. Regroups(head, body, rest)
    BY <1>4, BytesRegroup, Zenon
  <2> QED
    BY <1>3, <2>1, Zenon DEF Regroups
<1>6. tail \in Seq(Bytes) /\ Len(tail) = size + Len(rest) /\ Len(rest) \in Nat
    BY BytesConcat DEF size
<1> HIDE DEF b, tail
<1>7. /\ b \in Seq(Bytes) /\ Len(b) = 4 + Len(tail)
      /\ b[1] = h1 /\ b[2] = h2 /\ b[3] = h3 /\ b[4] = h4
  <2>1. /\ head \o tail \in Seq(Bytes) /\ Len(head \o tail) = Len(head) + Len(tail)
        /\ \A i \in 1 .. Len(head) : (head \o tail)[i] = head[i]
    BY <1>4, <1>6, BytesConcat
  <2>2. 1 \in 1..4 /\ 2 \in 1..4 /\ 3 \in 1..4 /\ 4 \in 1..4
    OBVIOUS
  <2> QED
    BY <1>4, <1>5, <2>1, <2>2
<1>8. Number(b) = size
    BY <1>2, <1>7 DEF Number
<1>9. FrameId(b) = id
  <2>1. SubSeq(b, 3, 4)[1] = h3 /\ SubSeq(b, 3, 4)[2] = h4
    BY <1>1, <1>6, <1>7
  <2> QED
    BY <1>2, <2>1 DEF FrameId, Number
<1>10. After(b, 4) = tail
  <2>1. SubSeq(head \o tail, Len(head) + 1, Len(head \o tail)) = tail
    BY <1>4, <1>6, Parts
  <2> QED
    BY <1>4, <1>5, <2>1 DEF After
<1>11. FrameBody(b) = body
  <2>1. SubSeq(body \o rest, 1, Len(body)) = body
    BY Parts
  <2>2. SubSeq(tail, 1, size) = body
    BY <2>1 DEF tail, size
  <2>3. Upto(tail, size) = body
    BY <1>1, <1>6, <2>2 DEF Upto
  <2> QED
    BY <1>8, <1>10, <2>3 DEF FrameBody
<1>12. FrameRest(b) = rest
  <2> DEFINE before == head \o body
  <2>1. before \in Seq(Bytes) /\ Len(before) = 4 + size
    <3>1. head \o body \in Seq(Bytes) /\ Len(head \o body) = Len(head) + Len(body)
      BY <1>4, BytesConcat
    <3> QED
      BY <1>4, <3>1 DEF size
  <2>2. b = before \o rest
    BY <1>3 DEF b
  <2> HIDE DEF before
  <2>3. SubSeq(before \o rest, Len(before) + 1, Len(before \o rest)) = rest
    BY <2>1, Parts
  <2>4. After(b, 4 + size) = rest
    BY <2>1, <2>2, <2>3 DEF After
  <2> QED
    BY <1>8, <2>4 DEF FrameRest
<1> QED
    BY <1>9, <1>11, <1>12 DEF Arrives, b
-----------------------------------------------------------------------------
(* The settings *)

\* 16 bits, at the most.
LEMMA SizesAtMost == Sizes <= 65536
<1>1. SizeBase \in Int /\ SizeBase >= 0 /\ SizeBase <= 256
    BY MessagesAssumption
<1>2. SizeBase * SizeBase <= 256 * SizeBase
    BY <1>1, SMT
<1> QED
    BY <1>1, <1>2, SMT DEF Sizes

\* A length that 16 bits can count is one 32 bits can.
LEMMA ShortLength ==
    ASSUME NEW n \in Nat, n < Sizes
    PROVE  n \in Int32
BY SizesAtLeast, SizesAtMost, SMT DEF Int32

\* What a request with these settings is.
LEMMA StartGoesWhole ==
    ASSUME NEW e \in Environments,
           4 + Len(StartSerialize(StartRequest(GetWifiInfo(e)))) < Sizes
    PROVE  LET m == StartRequest(GetWifiInfo(e))
               body == StartSerialize(m)
           IN /\ body \in Seq(Bytes) /\ Len(body) < Sizes
              /\ StartFrame(e) = Frame(WifiStartRequest, body)
              /\ ParseStart(body) = {m}
<1> DEFINE info == GetWifiInfo(e)
           m == StartRequest(info)
           body == StartSerialize(m)
<1>1. info.ipAddress \in Seq(Bytes) /\ info.port \in Int32 /\ info.port \in Int
    BY WifiInfoTypes DEF Int32
<1> HIDE DEF info
<1>2. m["ip_address"] = info.ipAddress /\ m["port"] = info.port
    BY StartRequestIs
<1> HIDE DEF m
<1>3. m.ip_address = info.ipAddress /\ m.port = info.port
    BY <1>2
<1>4. body \in Seq(Bytes) /\ StartByteSize(m) = Len(body)
    BY <1>1, <1>3, StartSizes
<1>5. /\ body = Optional(m, "ip_address", StringField(1, m.ip_address))
                  \o Optional(m, "port", VarintField(2, m.port))
      /\ m.has = StartFields
  <2>1. m["has"] = StartFields
    BY StartRequestIs DEF m
  <2> QED
    BY <2>1 DEF StartSerialize
<1>6. Len(info.ipAddress) \in Nat /\ Len(info.ipAddress) < Len(body)
  <2> DEFINE x == StringField(1, info.ipAddress)
             y == VarintField(2, info.port)
  <2>1. 1 \in 1..15 /\ 2 \in 1..15
    OBVIOUS
  <2>2. /\ x \in Seq(Bytes) /\ Len(x) = 1 + StringSize(info.ipAddress)
        /\ Len(info.ipAddress) < 1 + StringSize(info.ipAddress)
    BY <1>1, <2>1, StringLength
  <2>3. y \in Seq(Bytes)
    BY <1>1, <2>1, NumberLength
  <2> HIDE DEF x, y
  <2>4. body = x \o y
    BY <1>3, <1>5 DEF x, y, Optional, StartFields
  <2>5. Len(x \o y) = Len(x) + Len(y) /\ Len(x) \in Nat /\ Len(y) \in Nat
    BY <2>2, <2>3, BytesConcat
  <2> QED
    BY <1>1, <2>2, <2>4, <2>5
<1>7. 4 + Len(body) < Sizes /\ Len(body) \in Nat
    BY <1>4 DEF m, info
<1> HIDE DEF body
<1>8. Len(info.ipAddress) \in Int32
  <2>1. Len(info.ipAddress) < Sizes
    BY <1>6, <1>7, SizesAtLeast
  <2> QED
    BY <1>6, <2>1, ShortLength
<1>9. ParseStart(body) = {m}
    BY <1>1, <1>8, StartParses DEF body, m
<1>10. SentAsFrame(WifiStartRequest, body)
  <2>1. WifiStartRequest \in 0 .. Sizes - 1
    BY SizesAtLeast DEF WifiStartRequest
  <2> QED
    BY <1>4, <1>7, <2>1, SendsFrame, Zenon
<1>11. StartFrame(e) = SendMessage(WifiStartRequest, Len(body), body)
    BY <1>4 DEF StartFrame, body, m, info
<1>12. Len(body) < Sizes
    BY <1>7, SizesAtLeast
<1> QED
    BY <1>4, <1>9, <1>10, <1>11, <1>12 DEF SentAsFrame, body, m, info
\* So with a response.
LEMMA InfoGoesWhole ==
    ASSUME NEW e \in Environments,
           4 + Len(InfoSerialize(InfoResponse(GetWifiInfo(e)))) < Sizes
    PROVE  LET m == InfoResponse(GetWifiInfo(e))
               body == InfoSerialize(m)
           IN /\ body \in Seq(Bytes) /\ Len(body) < Sizes
              /\ InfoFrame(e) = Frame(WifiInfoResponse, body)
              /\ ParseInfo(body) = {m}
<1> DEFINE info == GetWifiInfo(e)
           m == InfoResponse(info)
           body == InfoSerialize(m)
           x == StringField(1, info.ssid)
           y == StringField(2, info.key)
           z == StringField(3, info.bssid)
           u == VarintField(4, 8)
           v == VarintField(5, 1)
<1>1. /\ info.ssid \in Seq(Bytes) /\ info.key \in Seq(Bytes) /\ info.bssid \in Seq(Bytes)
      /\ info.securityMode = 8 /\ info.accessPointType = 1
    BY WifiInfoTypes
<1> HIDE DEF info
<1>2. /\ m["has"] = InfoFields
      /\ m["ssid"] = info.ssid /\ m["key"] = info.key /\ m["bssid"] = info.bssid
      /\ m["security_mode"] = 8 /\ m["access_point_type"] = 1
    BY <1>1, InfoResponseIs
<1> HIDE DEF m
<1>3. /\ m.has = InfoFields
      /\ m.ssid = info.ssid /\ m.key = info.key /\ m.bssid = info.bssid
      /\ m.security_mode = 8 /\ m.access_point_type = 1
    BY <1>2
<1>4. body \in Seq(Bytes) /\ InfoByteSize(m) = Len(body)
  <2>1. m.security_mode \in Int /\ m.access_point_type \in Int
    BY <1>3
  <2> QED
    BY <1>1, <1>3, <2>1, InfoSizes
<1>5. body = InARow(x, y, z, u, v)
    BY <1>3 DEF InfoSerialize, Optional, InfoFields, InARow
<1>6. 4 + Len(body) < Sizes /\ Len(body) \in Nat
    BY <1>4 DEF m, info
<1> HIDE DEF body
<1>7. /\ Len(info.ssid) \in Nat /\ Len(info.ssid) < Len(body)
      /\ Len(info.key) \in Nat /\ Len(info.key) < Len(body)
      /\ Len(info.bssid) \in Nat /\ Len(info.bssid) < Len(body)
  <2>1. 1 \in 1..15 /\ 2 \in 1..15 /\ 3 \in 1..15 /\ 4 \in 1..15 /\ 5 \in 1..15
    OBVIOUS
  <2>2. /\ x \in Seq(Bytes) /\ Len(info.ssid) < Len(x)
        /\ y \in Seq(Bytes) /\ Len(info.key) < Len(y)
        /\ z \in Seq(Bytes) /\ Len(info.bssid) < Len(z)
    <3>1. x \in Seq(Bytes) /\ Len(info.ssid) < Len(x)
      BY <1>1, <2>1, StringLength
    <3>2. y \in Seq(Bytes) /\ Len(info.key) < Len(y)
      BY <1>1, <2>1, StringLength
    <3>3. z \in Seq(Bytes) /\ Len(info.bssid) < Len(z)
      BY <1>1, <2>1, StringLength
    <3> QED
      BY <3>1, <3>2, <3>3
  <2>3. u \in Seq(Bytes) /\ v \in Seq(Bytes)
    <3>1. 8 \in Int /\ 1 \in Int
      OBVIOUS
    <3> QED
      BY <2>1, <3>1, NumberLength
  <2> HIDE DEF x, y, z, u, v
  <2> DEFINE xy == x \o y
             xyz == xy \o z
             xyzu == xyz \o u
  <2>4. /\ xy \in Seq(Bytes) /\ Len(xy) = Len(x) + Len(y)
        /\ Len(x) \in Nat /\ Len(y) \in Nat
    BY <2>2, BytesConcat
  <2> HIDE DEF xy
  <2>5. xyz \in Seq(Bytes) /\ Len(xyz) = Len(xy) + Len(z) /\ Len(z) \in Nat
    BY <2>2, <2>4, BytesConcat
  <2> HIDE DEF xyz
  <2>6. xyzu \in Seq(Bytes) /\ Len(xyzu) = Len(xyz) + Len(u) /\ Len(u) \in Nat
    BY <2>3, <2>5, BytesConcat
  <2> HIDE DEF xyzu
  <2>7. Len(xyzu \o v) = Len(xyzu) + Len(v) /\ Len(v) \in Nat
    BY <2>3, <2>6, BytesConcat
  <2>8. body = xyzu \o v
    BY <1>5 DEF xy, xyz, xyzu, InARow
  <2>9. Len(body) = Len(x) + Len(y) + Len(z) + Len(u) + Len(v)
    BY <2>4, <2>5, <2>6, <2>7, <2>8
  <2>10. Len(info.ssid) \in Nat /\ Len(info.key) \in Nat /\ Len(info.bssid) \in Nat
    BY <1>1
  <2>11. Len(x) <= Len(body) /\ Len(y) <= Len(body) /\ Len(z) <= Len(body)
    BY <2>4, <2>5, <2>6, <2>7, <2>9, SMT
  <2>12. ASSUME NEW j \in Nat, NEW k \in Nat, NEW n \in Nat, j < k, k <= n
         PROVE  j < n
    BY <2>12
  <2> QED
    BY <1>6, <2>2, <2>4, <2>5, <2>10, <2>11, <2>12, Zenon
<1>8. Len(info.ssid) \in Int32 /\ Len(info.key) \in Int32 /\ Len(info.bssid) \in Int32
  <2>1. Len(info.ssid) < Sizes /\ Len(info.key) < Sizes /\ Len(info.bssid) < Sizes
    BY <1>6, <1>7, SizesAtLeast
  <2> QED
    BY <1>7, <2>1, ShortLength
<1>9. ParseInfo(body) = {m}
    BY <1>1, <1>8, InfoParses DEF body, m
<1>10. SentAsFrame(WifiInfoResponse, body)
  <2>1. WifiInfoResponse \in 0 .. Sizes - 1
    BY SizesAtLeast DEF WifiInfoResponse
  <2> QED
    BY <1>4, <1>6, <2>1, SendsFrame, Zenon
<1>11. InfoFrame(e) = SendMessage(WifiInfoResponse, Len(body), body)
    BY <1>4 DEF InfoFrame, body, m, info
<1>12. Len(body) < Sizes
    BY <1>6, SizesAtLeast
<1> QED
    BY <1>4, <1>9, <1>10, <1>11, <1>12 DEF SentAsFrame, body, m, info

\* The phone has from the two frames what GetWifiInfo made of the environment, as long
\* as 16 bits count the messages (bluetoothProfiles.cpp 41-59, 99-113, common.cpp
\* 57-67, the parsers and serializers of both messages).
THEOREM SettingsAlwaysArrive == SettingsArrive
<1> SUFFICES ASSUME NEW e \in Environments, Fits(e)
    PROVE  LET info == GetWifiInfo(e)
               b == StartFrame(e) \o InfoFrame(e)
           IN /\ FrameId(b) = WifiStartRequest
              /\ ParseStart(FrameBody(b)) = {StartRequest(info)}
              /\ FrameId(FrameRest(b)) = WifiInfoResponse
              /\ ParseInfo(FrameBody(FrameRest(b))) = {InfoResponse(info)}
              /\ FrameRest(FrameRest(b)) = <<>>
    BY DEF SettingsArrive
<1> DEFINE info == GetWifiInfo(e)
           start == StartSerialize(StartRequest(info))
           response == InfoSerialize(InfoResponse(info))
           second == Frame(WifiInfoResponse, response)
           b == StartFrame(e) \o InfoFrame(e)
<1>1. 4 + Len(start) < Sizes /\ 4 + Len(response) < Sizes
    BY DEF Fits
<1>2. /\ start \in Seq(Bytes) /\ Len(start) < Sizes
      /\ StartFrame(e) = Frame(WifiStartRequest, start)
      /\ ParseStart(start) = {StartRequest(info)}
    BY <1>1, StartGoesWhole
<1>3. /\ response \in Seq(Bytes) /\ Len(response) < Sizes
      /\ InfoFrame(e) = second
      /\ ParseInfo(response) = {InfoResponse(info)}
    BY <1>1, InfoGoesWhole
<1>4. WifiStartRequest \in 0 .. Sizes - 1 /\ WifiInfoResponse \in 0 .. Sizes - 1
    BY SizesAtLeast DEF WifiStartRequest, WifiInfoResponse
<1> HIDE DEF info, start, response
<1>5. second \in Seq(Bytes)
    BY <1>1, <1>3, <1>4, SendsFrame
<1> HIDE DEF second
<1>6. Arrives(Frame(WifiStartRequest, start) \o second, WifiStartRequest, start, second)
    BY <1>2, <1>4, <1>5, FrameArrives, Zenon
<1>7. b = Frame(WifiStartRequest, start) \o second
    BY <1>2, <1>3
<1>8. Arrives(second, WifiInfoResponse, response, <<>>)
  <2>1. <<>> \in Seq(Bytes)
    OBVIOUS
  <2>2. Arrives(Frame(WifiInfoResponse, response) \o <<>>, WifiInfoResponse, response, <<>>)
    BY <1>3, <1>4, <2>1, FrameArrives, Zenon
  <2>3. second \o <<>> = second
    BY <1>5, ConcatEmptySeq
  <2> QED
    BY <2>2, <2>3 DEF second
<1> QED
    BY <1>2, <1>3, <1>6, <1>7, <1>8 DEF Arrives, info

\* What SendMessage writes for a message is the message, behind its length and its id,
\* exactly if 16 bits count it with its header: for all settings, on both sides of that
\* bound (bluetoothProfiles.cpp 99-113, ByteSizeLong and _InternalSerialize of both
\* messages).
THEOREM WholeExactlyIfCounted == WholeIfCounted
<1> SUFFICES ASSUME NEW e \in Environments
    PROVE  LET start == StartSerialize(StartRequest(GetWifiInfo(e)))
               info == InfoSerialize(InfoResponse(GetWifiInfo(e)))
           IN /\ 4 + Len(start) < Sizes <=> StartFrame(e) = Frame(WifiStartRequest, start)
              /\ 4 + Len(info) < Sizes <=> InfoFrame(e) = Frame(WifiInfoResponse, info)
    BY DEF WholeIfCounted, Frame
<1> DEFINE info == GetWifiInfo(e)
           m == StartRequest(info)
           r == InfoResponse(info)
           start == StartSerialize(m)
           response == InfoSerialize(r)
<1>1. WifiStartRequest \in Nat /\ WifiInfoResponse \in Nat
    BY DEF WifiStartRequest, WifiInfoResponse
<1>2. start \in Seq(Bytes) /\ StartByteSize(m) = Len(start)
  <2>1. info.ipAddress \in Seq(Bytes) /\ info.port \in Int
    BY WifiInfoTypes DEF Int32
  <2> HIDE DEF info
  <2>2. m["ip_address"] = info.ipAddress /\ m["port"] = info.port
    BY StartRequestIs
  <2> HIDE DEF m
  <2>3. m.ip_address = info.ipAddress /\ m.port = info.port
    BY <2>2
  <2> QED
    BY <2>1, <2>3, StartSizes
<1>3. response \in Seq(Bytes) /\ InfoByteSize(r) = Len(response)
  <2>1. /\ info.ssid \in Seq(Bytes) /\ info.key \in Seq(Bytes) /\ info.bssid \in Seq(Bytes)
        /\ info.securityMode = 8 /\ info.accessPointType = 1
    BY WifiInfoTypes
  <2> HIDE DEF info
  <2>2. /\ r["ssid"] = info.ssid /\ r["key"] = info.key /\ r["bssid"] = info.bssid
        /\ r["security_mode"] = 8 /\ r["access_point_type"] = 1
    BY <2>1, InfoResponseIs
  <2> HIDE DEF r
  <2>3. /\ r.ssid = info.ssid /\ r.key = info.key /\ r.bssid = info.bssid
        /\ r.security_mode \in Int /\ r.access_point_type \in Int
    BY <2>2
  <2> QED
    BY <2>1, <2>3, InfoSizes
<1>4. /\ StartFrame(e) = SendMessage(WifiStartRequest, Len(start), start)
      /\ InfoFrame(e) = SendMessage(WifiInfoResponse, Len(response), response)
    BY <1>2, <1>3 DEF StartFrame, InfoFrame
<1>5. 4 + Len(start) < Sizes => StartFrame(e) = Frame(WifiStartRequest, start)
    BY StartGoesWhole
<1>6. 4 + Len(response) < Sizes => InfoFrame(e) = Frame(WifiInfoResponse, response)
    BY InfoGoesWhole
<1> HIDE DEF info, m, r, start, response
<1>7. ~ (4 + Len(start) < Sizes) => StartFrame(e) # Frame(WifiStartRequest, start)
    BY <1>1, <1>2, <1>4, CutsFrame
<1>8. ~ (4 + Len(response) < Sizes) => InfoFrame(e) # Frame(WifiInfoResponse, response)
    BY <1>1, <1>3, <1>4, CutsFrame
<1> QED
    BY <1>5, <1>6, <1>7, <1>8 DEF info, m, r, start, response
=============================================================================
