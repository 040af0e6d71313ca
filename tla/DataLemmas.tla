----------------------------- MODULE DataLemmas -----------------------------
(***************************************************************************)
(* Facts about numbers and sequences that the proofs of FrameReader and of *)
(* Messages need: induction over the natural numbers, stated with a set,   *)
(* which the provers can instantiate, instead of a predicate; the digits   *)
(* of a number; the parts of a sequence; and what FlattenSeq computes.     *)
(***************************************************************************)
EXTENDS SequencesExt, SequenceTheorems, WellFoundedInduction, TLAPS

\* The ordering of the natural numbers, opaque to the provers.
LessThan == OpToRel(<, Nat)

\* What the ordering relates.
LEMMA LessThanPairs ==
    \A x, y : <<x, y>> \in LessThan <=> x \in Nat /\ y \in Nat /\ x < y
BY DEF LessThan, OpToRel

\* It has no infinite descent.
LEMMA LessThanWellFounded == IsWellFoundedOn(LessThan, Nat)
BY NatLessThanWellFounded DEF LessThan

\* A set of natural numbers has a least one.
LEMMA LeastNumber ==
    ASSUME NEW T, T \subseteq Nat, T # {}
    PROVE  \E x \in T : \A y \in T : x <= y
<1>1. PICK x \in T : \A y \in T : ~ (<<y, x>> \in LessThan)
    BY LessThanWellFounded, WFMin
<1>2. ASSUME NEW y \in T PROVE x <= y
  <2>1. x \in Nat /\ y \in Nat
    OBVIOUS
  <2>2. ~ (<<y, x>> \in LessThan)
    BY <1>1
  <2>3. ~ (y < x)
    BY <2>1, <2>2, LessThanPairs, Zenon
  <2> QED
    BY <2>1, <2>3
<1> QED
    BY <1>2

\* Min and Max are what they say.
LEMMA MinIs ==
    ASSUME NEW T, T \subseteq Int, NEW n \in T, \A x \in T : n <= x
    PROVE  Min(T) = n
<1>1. ASSUME NEW x \in T, \A y \in T : x <= y PROVE x = n
  <2>1. x \in Int /\ n \in Int /\ x <= n /\ n <= x
    BY <1>1
  <2> QED
    BY <2>1
<1> QED
    BY <1>1, Zenon DEF Min

\* The greatest of one.
LEMMA MaxOfOne == ASSUME NEW n \in Int PROVE Max({n}) = n
<1>1. n >= n
    OBVIOUS
<1> QED
    BY <1>1, Zenon DEF Max

\* A set that has 0, and with a number the next one, has them all: else it would
\* miss a least one.
LEMMA Induction ==
    ASSUME NEW S, 0 \in S, \A n \in Nat : n \in S => n + 1 \in S
    PROVE  Nat \subseteq S
<1> DEFINE T == Nat \ S
<1> SUFFICES ASSUME T # {} PROVE FALSE
    OBVIOUS
<1>1. PICK x \in T : \A y \in T : x <= y
  <2>1. T \subseteq Nat
    OBVIOUS
  <2> HIDE DEF T
  <2> QED
    BY <2>1, LeastNumber
<1>2. x \in Nat /\ x # 0 /\ x - 1 \in Nat /\ ~ (x <= x - 1)
    OBVIOUS
<1>3. x - 1 \in S
    BY <1>1, <1>2
<1>4. (x - 1) + 1 = x
    BY <1>2
<1> QED
    BY <1>2, <1>3, <1>4

\* The same up to a bound.
LEMMA InductionUpTo ==
    ASSUME NEW n \in Nat, NEW S, 0 \in S,
           \A m \in 0 .. n - 1 : m \in S => m + 1 \in S
    PROVE  0 .. n \subseteq S
<1> DEFINE T == {m \in Nat : m <= n => m \in S}
<1>1. 0 \in T
    OBVIOUS
<1>2. ASSUME NEW m \in Nat, m \in T PROVE m + 1 \in T
    BY <1>2
<1>3. Nat \subseteq T
  <2> HIDE DEF T
  <2> QED
    BY <1>1, <1>2, Induction
<1> QED
    BY <1>3

\* The two digits of a number in base b.
LEMMA TwoDigits ==
    ASSUME NEW b \in Nat, b > 1, NEW n \in 0 .. b * b - 1
    PROVE  /\ n \div b \in 0 .. b - 1 /\ n % b \in 0 .. b - 1
           /\ (n \div b) * b + (n % b) = n
<1> DEFINE q == n \div b
           r == n % b
<1>1. q \in Int /\ r \in 0 .. b - 1 /\ n = b * q + r
    BY SMT
<1>2. n \in Nat /\ n < b * b
    OBVIOUS
<1> HIDE DEF q, r
<1>3. q >= 0
  <2> SUFFICES ASSUME q <= -1 PROVE FALSE
    BY <1>1
  <2>1. b * q <= b * (-1)
    BY <1>1
  <2> QED
    BY <1>1, <1>2, <2>1
<1>4. q < b
  <2> SUFFICES ASSUME q >= b PROVE FALSE
    BY <1>1
  <2>1. b * q >= b * b
    BY <1>1
  <2> QED
    BY <1>1, <1>2, <2>1
<1>5. q * b = b * q
    BY <1>1
<1> QED
    BY <1>1, <1>3, <1>4, <1>5 DEF q, r

-----------------------------------------------------------------------------
(* Taking sequences apart *)

\* A sequence of elements of S is one of elements of any larger set.
LEMMA SeqOfMore ==
    ASSUME NEW S, NEW T, S \subseteq T, NEW s \in Seq(S)
    PROVE  s \in Seq(T)
<1>1. Len(s) \in Nat /\ s = [i \in 1 .. Len(s) |-> s[i]]
    OBVIOUS
<1>2. \A i \in 1 .. Len(s) : s[i] \in T
    OBVIOUS
<1> QED
    BY <1>1, <1>2

\* Two ways to write a sequence in two parts, of which the first are of the same
\* length, are the same.
LEMMA ConcatSplit ==
    ASSUME NEW S, NEW a \in Seq(S), NEW b \in Seq(S), NEW c \in Seq(S), NEW d \in Seq(S),
           a \o b = c \o d, Len(a) = Len(c)
    PROVE  a = c /\ b = d
<1>1. ASSUME NEW i \in 1 .. Len(a) PROVE a[i] = c[i]
  <2>1. (a \o b)[i] = a[i] /\ (c \o d)[i] = c[i]
    BY ConcatProperties
  <2> QED
    BY <2>1
<1>2. a = c
    BY <1>1, SeqEqual
<1>3. b = d
    BY <1>2, ConcatSimplifications
<1> QED
    BY <1>2, <1>3

\* The first k elements and the others.
LEMMA TakeDrop ==
    ASSUME NEW S, NEW s \in Seq(S), NEW k \in 0 .. Len(s)
    PROVE  /\ SubSeq(s, 1, k) \in Seq(S) /\ Len(SubSeq(s, 1, k)) = k
           /\ SubSeq(s, k + 1, Len(s)) \in Seq(S)
           /\ Len(SubSeq(s, k + 1, Len(s))) = Len(s) - k
           /\ SubSeq(s, 1, k) \o SubSeq(s, k + 1, Len(s)) = s
<1>1. /\ SubSeq(s, 1, k) \in Seq(S)
      /\ Len(SubSeq(s, 1, k)) = IF 1 <= k THEN k - 1 + 1 ELSE 0
    BY SubSeqProperties
<1>2. /\ SubSeq(s, k + 1, Len(s)) \in Seq(S)
      /\ Len(SubSeq(s, k + 1, Len(s))) =
            IF k + 1 <= Len(s) THEN Len(s) - (k + 1) + 1 ELSE 0
    BY SubSeqProperties
<1>3. SubSeq(s, 1, k) \o SubSeq(s, k + 1, Len(s)) = SubSeq(s, 1, Len(s))
  <2>1. 1 \in 1 .. Len(s) + 1 /\ k \in 1 - 1 .. Len(s) /\ Len(s) \in k .. Len(s)
    OBVIOUS
  <2> QED
    BY <2>1, ConcatAdjacentSubSeq
<1>4. SubSeq(s, 1, Len(s)) = s
    BY SubSeqFull
<1>5. Len(SubSeq(s, 1, k)) = k
    BY <1>1
<1>6. Len(SubSeq(s, k + 1, Len(s))) = Len(s) - k
    BY <1>2
<1> QED
    BY <1>1, <1>2, <1>3, <1>4, <1>5, <1>6, Zenon

\* Both parts of a concatenation can be had back.
LEMMA Parts ==
    ASSUME NEW S, NEW a \in Seq(S), NEW b \in Seq(S)
    PROVE  /\ SubSeq(a \o b, 1, Len(a)) = a
           /\ SubSeq(a \o b, Len(a) + 1, Len(a \o b)) = b
<1> DEFINE s == a \o b
<1>1. s \in Seq(S) /\ Len(s) = Len(a) + Len(b)
    BY ConcatProperties
<1>2. Len(a) \in 0 .. Len(s)
    BY <1>1
<1> DEFINE c == SubSeq(s, 1, Len(a))
           d == SubSeq(s, Len(a) + 1, Len(s))
<1>3. c \in Seq(S) /\ d \in Seq(S) /\ Len(c) = Len(a) /\ c \o d = a \o b
  <2> HIDE DEF s
  <2>1. c \in Seq(S) /\ d \in Seq(S) /\ Len(c) = Len(a) /\ c \o d = s
    BY <1>1, <1>2, TakeDrop
  <2> QED
    BY <2>1 DEF s
<1>4. c = a /\ d = b
  <2> HIDE DEF c, d
  <2> QED
    BY <1>3, ConcatSplit
<1> QED
    BY <1>4

\* So can the one in the middle.
LEMMA MiddlePart ==
    ASSUME NEW S, NEW a \in Seq(S), NEW b \in Seq(S), NEW c \in Seq(S)
    PROVE  SubSeq(a \o (b \o c), Len(a) + 1, Len(a) + Len(b)) = b
<1> DEFINE t == b \o c
<1>1. t \in Seq(S) /\ Len(t) = Len(b) + Len(c)
    BY ConcatProperties
<1>2. SubSeq(t, 1, Len(b)) = b
    BY Parts
<1>3. Len(a) \in Nat /\ Len(b) \in Nat /\ Len(c) \in Nat
    OBVIOUS
<1>4. CASE Len(b) = 0
  <2>1. SubSeq(a \o t, Len(a) + 1, Len(a) + Len(b)) = <<>>
    <3>1. Len(a) + Len(b) < Len(a) + 1 /\ Len(a) + 1 \in Int /\ Len(a) + Len(b) \in Int
      BY <1>3, <1>4
    <3> HIDE DEF t
    <3> QED
      BY <3>1, SubSeqEmpty
  <2> QED
    BY <1>4, <2>1
<1>5. CASE Len(b) # 0
  <2> HIDE DEF t
  <2>1. SubSeq(a \o t, Len(a) + 1, Len(a) + Len(b)) =
          SubSeq(t, (Len(a) + 1) - Len(a), (Len(a) + Len(b)) - Len(a))
    <3>1. /\ Len(a) + 1 \in Len(a) + 1 .. Len(a) + Len(t)
          /\ Len(a) + Len(b) \in Len(a) + 1 .. Len(a) + Len(t)
      BY <1>1, <1>3, <1>5
    <3> QED
      BY <1>1, <3>1, SubSeqOfConcat2
  <2>2. (Len(a) + 1) - Len(a) = 1 /\ (Len(a) + Len(b)) - Len(a) = Len(b)
    BY <1>3
  <2> QED
    BY <1>2, <2>1, <2>2 DEF t
<1> QED
    BY <1>4, <1>5

-----------------------------------------------------------------------------
(* FlattenSeq *)

\* f is what FlattenSeq computes on its way: the first i of s, concatenated.
Flattens(f, s) ==
    f = [i \in 1 .. Len(s) |-> IF i = 1 THEN s[i] ELSE f[i - 1] \o s[i]]

\* There is such a function, and its values are sequences.
LEMMA FlattensExists ==
    ASSUME NEW S, NEW s \in Seq(Seq(S))
    PROVE  \E f : Flattens(f, s)
<1> DEFINE Good(m, f) ==
        /\ f \in [1..m -> Seq(S)]
        /\ \A i \in 1..m : f[i] = IF i = 1 THEN s[i] ELSE f[i - 1] \o s[i]
    T == {m \in 0 .. Len(s) : \E f \in [1..m -> Seq(S)] : Good(m, f)}
<1>1. 0 \in T
  <2> DEFINE f == [i \in 1..0 |-> <<>>]
  <2>1. f \in [1..0 -> Seq(S)] /\ Good(0, f)
    OBVIOUS
  <2>2. 0 \in 0 .. Len(s)
    OBVIOUS
  <2> HIDE DEF f, Good
  <2> QED
    BY <2>1, <2>2
<1>2. ASSUME NEW m \in 0 .. Len(s) - 1, m \in T PROVE m + 1 \in T
  <2>1. PICK f \in [1..m -> Seq(S)] : Good(m, f)
    BY <1>2
  <2> DEFINE next == IF m = 0 THEN s[1] ELSE f[m] \o s[m + 1]
             g == [i \in 1 .. m + 1 |-> IF i <= m THEN f[i] ELSE next]
  <2>2. next \in Seq(S)
    <3>1. s[1] \in Seq(S) /\ s[m + 1] \in Seq(S)
      OBVIOUS
    <3>2. m # 0 => f[m] \in Seq(S)
      OBVIOUS
    <3> QED
      BY <3>1, <3>2, ConcatProperties
  <2>3. g \in [1 .. m + 1 -> Seq(S)]
    BY <2>2
  <2>4. ASSUME NEW i \in 1 .. m + 1
        PROVE  g[i] = IF i = 1 THEN s[i] ELSE g[i - 1] \o s[i]
    <3>1. CASE i <= m
      <4>1. g[i] = f[i] /\ (i # 1 => g[i - 1] = f[i - 1]) /\ i \in 1..m
        BY <3>1
      <4> QED
        BY <2>1, <4>1
    <3>2. CASE i = m + 1
      <4>1. g[i] = next /\ (i # 1 => g[i - 1] = f[m])
        BY <3>2
      <4> QED
        BY <3>2, <4>1
    <3> QED
      BY <3>1, <3>2
  <2>5. Good(m + 1, g)
    BY <2>3, <2>4
  <2> HIDE DEF g, Good
  <2> QED
    BY <2>3, <2>5
<1>3. Len(s) \in T
  <2>1. Len(s) \in Nat /\ Len(s) \in 0 .. Len(s)
    OBVIOUS
  <2> HIDE DEF T
  <2>2. 0 .. Len(s) \subseteq T
    BY <1>1, <1>2, <2>1, InductionUpTo
  <2> QED
    BY <2>1, <2>2
<1>4. PICK f \in [1 .. Len(s) -> Seq(S)] : Good(Len(s), f)
    BY <1>3
<1>5. Flattens(f, s)
    BY <1>4 DEF Flattens
<1> QED
    BY <1>5

\* What it is, as far as it goes.
LEMMA FlattensFirst ==
    ASSUME NEW s, NEW f, Flattens(f, s), 1 \in 1 .. Len(s)
    PROVE  f[1] = s[1]
BY DEF Flattens

\* Each further value appends one more of the sequences.
LEMMA FlattensNext ==
    ASSUME NEW s, NEW f, Flattens(f, s), NEW m \in Nat, m # 0, m + 1 \in 1 .. Len(s)
    PROVE  f[m + 1] = f[m] \o s[m + 1]
<1>1. (m + 1) - 1 = m /\ m + 1 # 1
    OBVIOUS
<1> QED
    BY <1>1 DEF Flattens

\* All values are sequences of the elements.
LEMMA FlattensType ==
    ASSUME NEW S, NEW s \in Seq(Seq(S)), NEW f, Flattens(f, s)
    PROVE  \A i \in 1 .. Len(s) : f[i] \in Seq(S)
<1> DEFINE T == {m \in 0 .. Len(s) : m > 0 => f[m] \in Seq(S)}
<1>1. 0 \in T
    OBVIOUS
<1>2. ASSUME NEW m \in 0 .. Len(s) - 1, m \in T PROVE m + 1 \in T
  <2>1. s[m + 1] \in Seq(S)
    OBVIOUS
  <2>2. CASE m = 0
    BY <2>1, <2>2, FlattensFirst
  <2>3. CASE m # 0
    <3>1. f[m + 1] = f[m] \o s[m + 1]
      <4>1. m \in Nat /\ m + 1 \in 1 .. Len(s)
        OBVIOUS
      <4> QED
        BY <2>3, <4>1, FlattensNext
    <3>2. f[m] \in Seq(S)
      BY <1>2, <2>3
    <3>3. f[m + 1] \in Seq(S)
      BY <2>1, <3>1, <3>2, ConcatProperties
    <3> QED
      BY <3>3
  <2> QED
    BY <2>2, <2>3
<1>3. 0 .. Len(s) \subseteq T
  <2> HIDE DEF T
  <2>1. Len(s) \in Nat
    OBVIOUS
  <2> QED
    BY <1>1, <1>2, <2>1, InductionUpTo
<1>4. ASSUME NEW i \in 1 .. Len(s) PROVE f[i] \in Seq(S)
  <2>1. i \in 0 .. Len(s) /\ i > 0
    OBVIOUS
  <2> QED
    BY <1>3, <2>1
<1> QED
    BY <1>4

\* FlattenSeq is its last value.
LEMMA FlattenIsLast ==
    ASSUME NEW S, NEW s \in Seq(Seq(S)), s # <<>>
    PROVE  \E f : Flattens(f, s) /\ FlattenSeq(s) = f[Len(s)]
<1> DEFINE f == CHOOSE g : Flattens(g, s)
<1>1. Flattens(f, s)
    BY FlattensExists
<1>2. Len(s) # 0
    OBVIOUS
<1>3. FlattenSeq(s) = f[Len(s)]
    BY <1>2, Zenon DEF FlattenSeq, Flattens
<1> QED
    BY <1>1, <1>3

\* One sequence more is concatenated at the end.
LEMMA FlattenAppend ==
    ASSUME NEW S, NEW s \in Seq(Seq(S)), NEW w \in Seq(S)
    PROVE  FlattenSeq(Append(s, w)) = FlattenSeq(s) \o w
<1> DEFINE t == Append(s, w)
<1>1. /\ t \in Seq(Seq(S)) /\ t # <<>> /\ Len(t) = Len(s) + 1
      /\ t[Len(s) + 1] = w /\ \A i \in 1 .. Len(s) : t[i] = s[i]
    BY AppendProperties
<1> HIDE DEF t
<1>2. PICK g : Flattens(g, t) /\ FlattenSeq(t) = g[Len(t)]
    BY <1>1, FlattenIsLast
<1>3. CASE s = <<>>
  <2>1. FlattenSeq(t) = w
    <3>1. g[1] = t[1]
      BY <1>1, <1>2, FlattensFirst
    <3>2. Len(s) = 0
      BY <1>3
    <3> QED
      BY <1>1, <1>2, <3>1, <3>2
  <2>2. FlattenSeq(s) = <<>>
    BY <1>3 DEF FlattenSeq
  <2> QED
    BY <2>1, <2>2, ConcatEmptySeq DEF t
<1>4. CASE s # <<>>
  <2>1. PICK f : Flattens(f, s) /\ FlattenSeq(s) = f[Len(s)]
    BY <1>4, FlattenIsLast
  <2> DEFINE T == {m \in 0 .. Len(s) : m > 0 => f[m] = g[m]}
  <2>2. 0 \in T
    OBVIOUS
  <2>3. f[1] = s[1] /\ g[1] = t[1]
    BY <1>1, <1>2, <1>4, <2>1, FlattensFirst
  <2>4. ASSUME NEW m \in 0 .. Len(s) - 1, m \in T PROVE m + 1 \in T
    <3>1. CASE m = 0
      BY <1>1, <2>3, <3>1
    <3>2. CASE m # 0
      <4>1. m + 1 \in 1 .. Len(s) /\ m + 1 \in 1 .. Len(t) /\ m \in Nat
        BY <1>1
      <4>2. f[m + 1] = f[m] \o s[m + 1]
        BY <2>1, <3>2, <4>1, FlattensNext
      <4>3. g[m + 1] = g[m] \o t[m + 1]
        BY <1>2, <3>2, <4>1, FlattensNext
      <4>4. f[m] = g[m] /\ s[m + 1] = t[m + 1]
        BY <1>1, <2>4, <3>2, <4>1
      <4>5. f[m + 1] = g[m + 1]
        BY <4>2, <4>3, <4>4
      <4> QED
        BY <4>5
    <3> QED
      BY <3>1, <3>2
  <2>5. f[Len(s)] = g[Len(s)]
    <3>1. 0 .. Len(s) \subseteq T
      <4> HIDE DEF T
      <4>1. Len(s) \in Nat
        OBVIOUS
      <4> QED
        BY <2>2, <2>4, <4>1, InductionUpTo
    <3>2. Len(s) \in 0 .. Len(s) /\ Len(s) > 0
      BY <1>4
    <3> QED
      BY <3>1, <3>2
  <2>6. g[Len(t)] = g[Len(s)] \o w
    <3>1. Len(s) \in Nat /\ Len(s) # 0 /\ Len(s) + 1 \in 1 .. Len(t)
      BY <1>1, <1>4
    <3> QED
      BY <1>1, <1>2, <3>1, FlattensNext
  <2> QED
    BY <1>2, <2>1, <2>5, <2>6 DEF t
<1> QED
    BY <1>3, <1>4

\* The whole is a sequence too.
LEMMA FlattenType ==
    ASSUME NEW S, NEW s \in Seq(Seq(S))
    PROVE  FlattenSeq(s) \in Seq(S)
<1>1. CASE s = <<>>
    BY <1>1 DEF FlattenSeq
<1>2. CASE s # <<>>
  <2>1. PICK f : Flattens(f, s) /\ FlattenSeq(s) = f[Len(s)]
    BY <1>2, FlattenIsLast
  <2>2. \A i \in 1 .. Len(s) : f[i] \in Seq(S)
    BY <2>1, FlattensType
  <2>3. Len(s) \in 1 .. Len(s)
    BY <1>2
  <2> QED
    BY <2>1, <2>2, <2>3
<1> QED
    BY <1>1, <1>2
=============================================================================
