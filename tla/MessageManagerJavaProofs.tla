----------------------- MODULE MessageManagerJavaProofs -----------------------
(***************************************************************************)
(* Proofs about the distributor's message parser, for every even number of *)
(* values of a byte, every set of messages shorter than 2^31 bytes and     *)
(* every way of cutting the stream into reads, and for peers that do not   *)
(* write the lengths the parser expects as well.                           *)
(***************************************************************************)
EXTENDS MessageManagerJava, Integers, SequenceTheorems, WellFoundedInduction, NaturalsInduction, TLAPS

--------------------------------------------------------------------------------
(* Sequences one after the other, and pieces of one *)

\* What is at each place of two sequences one after the other.
LEMMA ConcatAt ==
    ASSUME NEW T, NEW r \in Seq(T), NEW s \in Seq(T)
    PROVE  /\ r \o s \in Seq(T)
           /\ Len(r) \in Nat /\ Len(s) \in Nat
           /\ Len(r \o s) = Len(r) + Len(s)
           /\ \A i \in 1 .. Len(r) : (r \o s)[i] = r[i]
           /\ \A i \in 1 .. Len(s) : (r \o s)[Len(r) + i] = s[i]
<1>1. Len(r) \in Nat /\ Len(s) \in Nat
  BY LenProperties
<1>2. /\ r \o s \in Seq(T)
      /\ Len(r \o s) = Len(r) + Len(s)
      /\ \A i \in 1 .. Len(r) + Len(s) :
            (r \o s)[i] = IF i <= Len(r) THEN r[i] ELSE s[i - Len(r)]
  BY ConcatProperties
<1>3. ASSUME NEW i \in 1 .. Len(r) PROVE (r \o s)[i] = r[i]
  <2>1. i \in 1 .. Len(r) + Len(s) /\ i <= Len(r)
    BY <1>1
  <2> QED BY <1>2, <2>1
<1>4. ASSUME NEW i \in 1 .. Len(s) PROVE (r \o s)[Len(r) + i] = s[i]
  <2>1. /\ Len(r) + i \in 1 .. Len(r) + Len(s) /\ ~(Len(r) + i <= Len(r))
        /\ Len(r) + i - Len(r) = i
    BY <1>1
  <2> QED BY <1>2, <2>1
<1> QED BY <1>1, <1>2, <1>3, <1>4

\* What was read of the stream is a prefix of the longer one too.
LEMMA PrefixStays ==
    ASSUME NEW T, NEW r \in Seq(T), NEW s \in Seq(T), NEW p \in Nat, p <= Len(r)
    PROVE  SubSeq(r \o s, 1, p) = SubSeq(r, 1, p)
<1>1. /\ r \o s \in Seq(T)
      /\ Len(r) \in Nat /\ Len(s) \in Nat
      /\ Len(r \o s) = Len(r) + Len(s)
      /\ \A i \in 1 .. Len(r) : (r \o s)[i] = r[i]
  BY ConcatAt
<1> DEFINE c == r \o s
<1>2. c \in Seq(T) /\ Len(c) \in Nat /\ p <= Len(c) /\ \A i \in 1 .. p : c[i] = r[i]
  BY <1>1
<1> HIDE DEF c
<1>3. /\ SubSeq(c, 1, p) = [i \in 1 .. p |-> c[i]]
      /\ SubSeq(r, 1, p) = [i \in 1 .. p |-> r[i]]
  BY <1>1, <1>2
<1>4. SubSeq(c, 1, p) = SubSeq(r, 1, p)
  BY <1>2, <1>3
<1> QED BY <1>4 DEF c

\* The bytes of the stream up to a place, and further on.
LEMMA PrefixGrows ==
    ASSUME NEW T, NEW s \in Seq(T), NEW p \in Nat, NEW t \in Nat, p + t <= Len(s)
    PROVE  /\ SubSeq(s, 1, p + t) = SubSeq(s, 1, p) \o SubSeq(s, p + 1, p + t)
           /\ SubSeq(s, 1, p) \in Seq(T)
<1>1. Len(s) \in Nat
  BY LenProperties
<1>2. \A i \in 1 .. Len(s) : s[i] \in T
  BY ElementOfSeq
<1>3. SubSeq(s, 1, p) \in Seq(T)
  BY <1>1, <1>2, SubSeqProperties
<1>4. SubSeq(s, 1, p) \o SubSeq(s, p + 1, p + t) = SubSeq(s, 1, p + t)
  BY <1>1, ConcatAdjacentSubSeq
<1> QED BY <1>3, <1>4

\* A piece of the stream.
LEMMA SliceProperties ==
    ASSUME NEW T, NEW s \in Seq(T), NEW p \in Nat, NEW t \in Nat, 0 < t, p + t <= Len(s)
    PROVE  /\ SubSeq(s, p + 1, p + t) \in Seq(T)
           /\ Len(SubSeq(s, p + 1, p + t)) = t
           /\ \A j \in 1 .. t : SubSeq(s, p + 1, p + t)[j] = s[p + j]
<1>1. Len(s) \in Nat
  BY LenProperties
<1>2. \A i \in (p + 1) .. (p + t) : s[i] \in T
  BY <1>1, ElementOfSeq
<1>3. /\ SubSeq(s, p + 1, p + t) \in Seq(T)
      /\ Len(SubSeq(s, p + 1, p + t)) = IF p + 1 <= p + t THEN (p + t) - (p + 1) + 1 ELSE 0
      /\ \A i \in 1 .. ((p + t) - (p + 1) + 1) : SubSeq(s, p + 1, p + t)[i] = s[(p + 1) + i - 1]
  BY <1>1, <1>2, SubSeqProperties
<1>4. p + 1 <= p + t /\ (p + t) - (p + 1) + 1 = t
  OBVIOUS
<1>5. ASSUME NEW j \in 1 .. t PROVE SubSeq(s, p + 1, p + t)[j] = s[p + j]
  <2>1. j \in 1 .. ((p + t) - (p + 1) + 1) /\ (p + 1) + j - 1 = p + j
    OBVIOUS
  <2> QED BY ONLY <1>3, <2>1, Zenon
<1>6. Len(SubSeq(s, p + 1, p + t)) = t
  BY ONLY <1>3, <1>4, Zenon
<1> QED BY ONLY <1>3, <1>5, <1>6, Zenon

\* Appending to the second of two sequences.
LEMMA ConcatAppend ==
    ASSUME NEW T, NEW r \in Seq(T), NEW s \in Seq(T), NEW x \in T
    PROVE  r \o Append(s, x) = Append(r \o s, x) /\ r \o s \in Seq(T)
<1>1. <<x>> \in Seq(T) /\ r \o s \in Seq(T)
  BY ConcatProperties
<1>2. r \o (s \o <<x>>) = (r \o s) \o <<x>>
  BY <1>1, ConcatAssociative
<1> QED BY <1>1, <1>2, AppendIsConcat

\* Bytes joined to the buffer are joined to the whole.
LEMMA JoinMore ==
    ASSUME NEW T, NEW j \in Seq(T), NEW p \in Seq(T), NEW c \in Seq(T), NEW x \in Seq(T)
    PROVE  j \o p = c => j \o (p \o x) = c \o x
<1>1. (j \o p) \o x = j \o (p \o x)
  BY ConcatAssociative, SMTT(60)
<1> QED BY <1>1, Zenon

--------------------------------------------------------------------------------
(* Induction over a set of numbers, and the entries of a list joined *)

\* A set of numbers that is not empty has a least one.
LEMMA LeastElement ==
    ASSUME NEW S \in SUBSET Nat, S # {}
    PROVE  \E m \in S : \A n \in S : m <= n
<1>1. \E x \in S : \A y \in S : ~(<<y, x>> \in OpToRel(<, Nat))
  BY NatLessThanWellFounded, WFMin
<1>2. \A x, y \in S : ~(<<y, x>> \in OpToRel(<, Nat)) => x <= y
  BY DEF OpToRel
<1> QED BY <1>1, <1>2

\* Induction over the natural numbers.
LEMMA SetInduction ==
    ASSUME NEW S \in SUBSET Nat, 0 \in S, \A n \in S : n + 1 \in S
    PROVE  S = Nat
<1>1. SUFFICES ASSUME Nat \ S # {} PROVE FALSE
  OBVIOUS
<1>2. PICK m \in Nat \ S : \A n \in Nat \ S : m <= n
  BY <1>1, LeastElement
<1>3. m # 0 /\ m - 1 \in Nat
  BY <1>2
<1>4. m - 1 \in S
  BY <1>2, <1>3
<1> QED BY <1>2, <1>3, <1>4

\* g[i] is what the first i entries of s give when they are joined.
Flattens(g, s, n) == g = [i \in 1 .. n |-> IF i = 1 THEN s[i] ELSE g[i - 1] \o s[i]]

\* FlattenSeq takes the last of these.
LEMMA FlattenChoice ==
    ASSUME NEW s, Len(s) # 0
    PROVE  FlattenSeq(s) = (CHOOSE g : Flattens(g, s, Len(s)))[Len(s)]
BY DEF FlattenSeq, Flattens

\* There is one.
LEMMA FlattenExists ==
    ASSUME NEW T, NEW s \in Seq(Seq(T)), NEW n \in 0 .. Len(s)
    PROVE  \E g : Flattens(g, s, n)
<1> DEFINE S == {m \in Nat : m <= Len(s) => \E g : Flattens(g, s, m)}
<1>1. 0 \in S
  <2>1. Flattens([i \in 1 .. 0 |-> s[1]], s, 0)
    BY DEF Flattens
  <2> QED BY <2>1
<1>2. ASSUME NEW m \in S PROVE m + 1 \in S
  <2>1. SUFFICES ASSUME m + 1 <= Len(s) PROVE \E g : Flattens(g, s, m + 1)
    BY <1>2
  <2>2. m \in Nat /\ Len(s) \in Nat
    BY <1>2, LenProperties
  <2>3. PICK g : Flattens(g, s, m)
    BY <1>2, <2>1, <2>2
  <2> DEFINE h == [i \in 1 .. (m + 1) |-> IF i = 1 THEN s[i] ELSE g[i - 1] \o s[i]]
  <2>4. ASSUME NEW i \in 1 .. m PROVE h[i] = g[i]
    <3>1. g[i] = IF i = 1 THEN s[i] ELSE g[i - 1] \o s[i]
      BY <2>3 DEF Flattens
    <3>2. i \in 1 .. (m + 1)
      BY <2>2
    <3> QED BY <3>1, <3>2
  <2>5. ASSUME NEW i \in 1 .. (m + 1)
        PROVE  h[i] = IF i = 1 THEN s[i] ELSE h[i - 1] \o s[i]
    <3>1. CASE i = 1
      BY <3>1
    <3>2. CASE i # 1
      <4>1. i - 1 \in 1 .. m
        BY <2>2, <3>2
      <4>2. h[i - 1] = g[i - 1]
        BY <2>4, <4>1
      <4>3. h[i] = g[i - 1] \o s[i]
        BY <3>2
      <4> HIDE DEF h
      <4> QED BY <3>2, <4>2, <4>3
    <3> QED BY <3>1, <3>2
  <2>6. h = [i \in 1 .. (m + 1) |-> h[i]]
    OBVIOUS
  <2> HIDE DEF h
  <2>7. Flattens(h, s, m + 1)
    BY <2>5, <2>6 DEF Flattens
  <2> QED BY <2>7
<1>3. S = Nat
  BY <1>1, <1>2, SetInduction
<1> QED BY <1>3, LenProperties

\* What it is at one place.
LEMMA FlattensAt ==
    ASSUME NEW g, NEW s, NEW n, Flattens(g, s, n), NEW i \in 1 .. n
    PROVE  g[i] = IF i = 1 THEN s[i] ELSE g[i - 1] \o s[i]
BY DEF Flattens

\* Those of a list and of the list with one more entry are the same up to there.
LEMMA FlattenAgree ==
    ASSUME NEW T, NEW s \in Seq(Seq(T)), NEW a, NEW g, NEW h,
           \A i \in 1 .. Len(s) : a[i] = s[i],
           Flattens(g, s, Len(s)), Flattens(h, a, Len(s) + 1)
    PROVE  \A i \in 1 .. Len(s) : g[i] = h[i] /\ g[i] \in Seq(T)
<1> DEFINE S == {m \in Nat : m \in 1 .. Len(s) => g[m] = h[m] /\ g[m] \in Seq(T)}
<1>1. 0 \in S
  OBVIOUS
<1>2. ASSUME NEW m \in S PROVE m + 1 \in S
  <2>1. SUFFICES ASSUME m + 1 \in 1 .. Len(s) PROVE g[m + 1] = h[m + 1] /\ g[m + 1] \in Seq(T)
    BY <1>2
  <2>2. m \in Nat /\ Len(s) \in Nat /\ m + 1 \in 1 .. (Len(s) + 1) /\ m + 1 - 1 = m
    BY <1>2, <2>1, LenProperties
  <2>3. a[m + 1] = s[m + 1] /\ s[m + 1] \in Seq(T)
    BY <2>1, ElementOfSeq
  <2>4. /\ g[m + 1] = IF m + 1 = 1 THEN s[m + 1] ELSE g[m] \o s[m + 1]
        /\ h[m + 1] = IF m + 1 = 1 THEN s[m + 1] ELSE h[m] \o s[m + 1]
    <3>1. g[m + 1] = IF m + 1 = 1 THEN s[m + 1] ELSE g[m + 1 - 1] \o s[m + 1]
      BY <2>1, FlattensAt
    <3>2. h[m + 1] = IF m + 1 = 1 THEN a[m + 1] ELSE h[m + 1 - 1] \o a[m + 1]
      BY <2>2, FlattensAt
    <3> QED BY <2>2, <2>3, <3>1, <3>2, Zenon
  <2>5. CASE m = 0
    BY <2>3, <2>4, <2>5
  <2>6. CASE m # 0
    <3>1. g[m] = h[m] /\ g[m] \in Seq(T)
      BY <1>2, <2>1, <2>2, <2>6
    <3>2. m + 1 # 1
      BY <2>2, <2>6
    <3> QED BY <2>3, <2>4, <3>1, <3>2, ConcatProperties
  <2> QED BY <2>5, <2>6
<1>3. S = Nat
  BY <1>1, <1>2, SetInduction
<1> QED BY <1>3

\* One more entry is joined to the end.
LEMMA FlattenAppend ==
    ASSUME NEW T, NEW s \in Seq(Seq(T)), NEW x \in Seq(T)
    PROVE  /\ FlattenSeq(s) \in Seq(T)
           /\ FlattenSeq(Append(s, x)) = FlattenSeq(s) \o x
<1> DEFINE a == Append(s, x)
           h == CHOOSE f : Flattens(f, a, Len(s) + 1)
           g == CHOOSE f : Flattens(f, s, Len(s))
<1>1. /\ a \in Seq(Seq(T))
      /\ Len(s) \in Nat
      /\ Len(a) = Len(s) + 1
      /\ a[Len(s) + 1] = x
      /\ \A i \in 1 .. Len(s) : a[i] = s[i]
  BY AppendProperties, LenProperties
<1>2. Flattens(h, a, Len(s) + 1)
  <2>1. \E f : Flattens(f, a, Len(s) + 1)
    <3>1. Len(s) + 1 \in 0 .. Len(a)
      BY <1>1
    <3> HIDE DEF a
    <3> QED BY <1>1, <3>1, FlattenExists
  <2> QED BY <2>1
<1>3. Flattens(g, s, Len(s))
  <2>1. \E f : Flattens(f, s, Len(s))
    BY <1>1, FlattenExists
  <2> QED BY <2>1
<1>4. FlattenSeq(a) = h[Len(s) + 1]
  <2>1. Len(a) # 0
    BY <1>1
  <2> HIDE DEF a
  <2> QED BY <1>1, <2>1, FlattenChoice
<1>5. Len(s) # 0 => FlattenSeq(s) = g[Len(s)]
  BY FlattenChoice
<1> HIDE DEF a, g, h
<1>6. h[Len(s) + 1] = IF Len(s) + 1 = 1 THEN x ELSE h[Len(s)] \o x
  <2>1. Len(s) + 1 \in 1 .. (Len(s) + 1) /\ Len(s) + 1 - 1 = Len(s)
    BY <1>1
  <2>2. h[Len(s) + 1] = IF Len(s) + 1 = 1 THEN a[Len(s) + 1] ELSE h[Len(s) + 1 - 1] \o a[Len(s) + 1]
    BY <1>2, <2>1, FlattensAt
  <2> QED BY <1>1, <2>1, <2>2
<1>7. CASE Len(s) = 0
  <2>1. s = <<>>
    BY <1>7, EmptySeq
  <2>2. FlattenSeq(s) = <<>>
    BY <1>7, <2>1 DEF FlattenSeq
  <2>3. FlattenSeq(a) = x
    BY <1>4, <1>6, <1>7
  <2> QED BY <2>2, <2>3, ConcatEmptySeq, EmptySeq DEF a
<1>8. CASE Len(s) # 0
  <2>1. Len(s) \in 1 .. Len(s) /\ Len(s) + 1 # 1
    BY <1>1, <1>8
  <2>2. g[Len(s)] = h[Len(s)] /\ g[Len(s)] \in Seq(T)
    <3>1. \A i \in 1 .. Len(s) : g[i] = h[i] /\ g[i] \in Seq(T)
      <4>1. \A i \in 1 .. Len(s) : a[i] = s[i]
        BY <1>1
      <4> QED BY ONLY s \in Seq(Seq(T)), <1>2, <1>3, <4>1, FlattenAgree, ZenonT(60)
    <3> QED BY <2>1, <3>1
  <2> QED BY <1>4, <1>5, <1>6, <1>8, <2>1, <2>2 DEF a
<1> QED BY <1>7, <1>8

(***************************************************************************)
(* The length bytes.                                                       *)
(***************************************************************************)

\* A number is rebuilt from its quotient and its remainder.
LEMMA DivMod ==
    ASSUME NEW n \in Nat
    PROVE  /\ n \div Base \in Nat
           /\ n % Base \in Byte
           /\ n = (n % Base) + Base * (n \div Base)
  BY BaseAssumption DEF Byte

\* A smaller multiple of Base is a multiple of something smaller.
LEMMA CancelBase ==
    ASSUME NEW x \in Nat, NEW y \in Nat, Base * x < Base * y
    PROVE  x < y
<1>1. SUFFICES ASSUME y <= x PROVE FALSE
  OBVIOUS
<1>2. PICK z \in Nat : x = y + z
  BY <1>1
<1>3. Base * x = Base * y + Base * z
  BY <1>2, BaseAssumption
<1>4. Base * z >= 0 /\ Base * y \in Nat /\ Base * z \in Nat
  BY BaseAssumption
<1> QED BY <1>3, <1>4

\* Dividing by Base loses a factor of the bound.
LEMMA DivBound ==
    ASSUME NEW n \in Nat, NEW y \in Nat, n < Base * y
    PROVE  n \div Base < y
<1> DEFINE q == n \div Base
           r == n % Base
<1>1. q \in Nat /\ r \in Nat /\ n = r + Base * q
  BY DivMod DEF Byte
<1> HIDE DEF q, r
<1>2. Base * q \in Nat /\ Base * y \in Nat
  BY <1>1, BaseAssumption
<1>3. Base * q < Base * y
  BY <1>1, <1>2
<1> QED BY <1>1, <1>3, CancelBase DEF q

\* Reading back the four bytes of a length gives the length.
LEMMA LengthRoundTrip ==
    ASSUME NEW n \in Nat, n < Int32Limit
    PROVE  getInt(Digits(n)) = n
<1> DEFINE q1 == n \div Base
           q2 == q1 \div Base
           q3 == q2 \div Base
           q4 == q3 \div Base
           c2 == Base * Base
           c3 == Base * c2
           c4 == Base * c3
<1>1. /\ q1 \in Nat /\ n = (n % Base) + Base * q1
      /\ n % Base \in Nat
  BY DivMod DEF Byte
<1>2. /\ q2 \in Nat /\ q1 = (q1 % Base) + Base * q2
      /\ q1 % Base \in Nat
  BY <1>1, DivMod DEF Byte
<1>3. /\ q3 \in Nat /\ q2 = (q2 % Base) + Base * q3
      /\ q2 % Base \in Nat
  BY <1>2, DivMod DEF Byte
<1>4. /\ q4 \in Nat /\ q3 = (q3 % Base) + Base * q4
      /\ q3 % Base \in Nat
  BY <1>3, DivMod DEF Byte
<1>5. Digits(n) = <<n % Base, q1 % Base, q2 % Base, q3 % Base>>
  BY DEF Digits
<1>6. c2 \in Nat /\ c3 \in Nat /\ c4 \in Nat
  BY BaseAssumption
<1>7. n < c4
  <2>1. Base * Base * Base * Base = c4
    BY BaseAssumption
  <2>2. Int32Limit = c4 \div 2
    BY <2>1 DEF Int32Limit
  <2> HIDE DEF c4
  <2>3. c4 \div 2 <= c4
    BY <1>6
  <2>4. c4 \div 2 \in Nat
    BY <1>6
  <2> QED BY <1>6, <2>2, <2>3, <2>4
<1> HIDE DEF q1, q2, q3, q4
<1>8. q1 < c3
  BY <1>1, <1>6, <1>7, DivBound DEF q1
<1>9. q2 < c2
  BY <1>2, <1>6, <1>8, <1>1, DivBound DEF q2
<1>10. q3 < Base
  BY <1>3, <1>9, <1>2, BaseAssumption, DivBound DEF q3
<1>11. q4 = 0
  <2>1. Base * 1 = Base
    BY BaseAssumption
  <2>2. q4 < 1
    BY <1>3, <1>4, <1>10, <2>1, DivBound DEF q4
  <2> QED BY <1>4, <2>2
<1>12. q3 % Base = q3
  BY <1>3, <1>4, <1>11, BaseAssumption
<1>13. (n % Base) + Base * ((q1 % Base) + Base * ((q2 % Base) + Base * (q3 % Base))) = n
  BY <1>1, <1>2, <1>3, <1>12
<1> QED BY <1>5, <1>13 DEF getInt

\* The four bytes of a length are bytes.
LEMMA DigitsType ==
    ASSUME NEW n \in Nat
    PROVE  Digits(n) \in Seq(Byte) /\ Len(Digits(n)) = 4
<1> DEFINE q1 == n \div Base
           q2 == q1 \div Base
           q3 == q2 \div Base
<1>1. q1 \in Nat /\ n % Base \in Byte
  BY DivMod
<1>2. q2 \in Nat /\ q1 % Base \in Byte
  BY <1>1, DivMod
<1>3. q3 \in Nat /\ q2 % Base \in Byte
  BY <1>2, DivMod
<1>4. q3 % Base \in Byte
  BY <1>3, DivMod
<1>5. Digits(n) = <<n % Base, q1 % Base, q2 % Base, q3 % Base>>
  BY DEF Digits
<1> HIDE DEF q1, q2, q3
<1> QED BY <1>1, <1>2, <1>3, <1>4, <1>5

\* A larger factor of Base is larger by a Base at least.
LEMMA NextMultiple ==
    ASSUME NEW x \in Nat, NEW y \in Nat, x < y
    PROVE  Base * x + Base <= Base * y /\ Base * x \in Nat /\ Base * y \in Nat
<1>1. PICK z \in Nat : y = x + 1 + z
  <2>1. y - x - 1 \in Nat /\ y = x + 1 + (y - x - 1)
    OBVIOUS
  <2> QED BY <2>1
<1>2. Base * y = Base * x + Base + Base * z
  BY <1>1, BaseAssumption
<1>3. Base * z \in Nat /\ Base * x \in Nat /\ Base * y \in Nat
  BY BaseAssumption
<1> QED BY <1>2, <1>3, BaseAssumption

\* Quotient and remainder are unique.
LEMMA DivModUnique ==
    ASSUME NEW r \in Byte, NEW q \in Nat, NEW n \in Nat, n = r + Base * q
    PROVE  n % Base = r /\ n \div Base = q
<1> DEFINE p == n \div Base
           s == n % Base
<1>1. p \in Nat /\ s \in Byte /\ n = s + Base * p
  BY DivMod
<1> HIDE DEF p, s
<1>2. Base * p \in Nat /\ Base * q \in Nat /\ Base \in Nat
  BY <1>1, BaseAssumption
<1>3. r \in Nat /\ r < Base /\ s \in Nat /\ s < Base
  BY <1>1, BaseAssumption DEF Byte
<1>4. ASSUME p < q PROVE FALSE
  <2>1. Base * p + Base <= Base * q
    BY <1>1, <1>4, NextMultiple
  <2> QED BY <1>1, <1>2, <1>3, <2>1
<1>5. ASSUME q < p PROVE FALSE
  <2>1. Base * q + Base <= Base * p
    BY <1>1, <1>5, NextMultiple
  <2> QED BY <1>1, <1>2, <1>3, <2>1
<1>6. p = q
  BY <1>1, <1>4, <1>5
<1>7. s = r
  BY <1>1, <1>2, <1>3, <1>6
<1> QED BY <1>6, <1>7 DEF p, s

\* One more byte in front.
LEMMA OneMoreByte ==
    ASSUME NEW r \in Byte, NEW q \in Nat, NEW c \in Nat, q < c
    PROVE  r + Base * q \in Nat /\ r + Base * q < Base * c
<1>1. r \in Nat /\ r < Base /\ Base \in Nat
  BY BaseAssumption DEF Byte
<1>2. Base * q + Base <= Base * c /\ Base * q \in Nat /\ Base * c \in Nat
  BY NextMultiple
<1> QED BY <1>1, <1>2

\* Int32Limit is half of what four bytes can hold.
LEMMA Int32Half ==
    /\ Base * (Base * (Base * Base)) \in Nat
    /\ Int32Limit \in Nat
    /\ 2 * Int32Limit = Base * (Base * (Base * Base))
<1> DEFINE h == Base \div 2
           c == Base * (Base * Base)
<1>1. h \in Nat /\ Base = 2 * h
  BY BaseAssumption, EvenAssumption
<1>2. c \in Nat
  BY BaseAssumption
<1> HIDE DEF h
<1>3. Base * Base * Base * Base = Base * c
  BY BaseAssumption
<1> HIDE DEF c
<1>4. Base * c = 2 * (h * c) /\ h * c \in Nat
  BY <1>1, <1>2
<1>5. (Base * c) \div 2 = h * c
  <2> DEFINE k == h * c
  <2>1. k \in Nat /\ Base * c = 2 * k
    BY <1>4
  <2> HIDE DEF k
  <2>2. (2 * k) \div 2 = k
    BY <2>1
  <2> QED BY <2>1, <2>2 DEF k
<1>6. Int32Limit = h * c
  BY <1>3, <1>5 DEF Int32Limit
<1> QED BY <1>4, <1>6 DEF c

\* What is read is a number.
LEMMA getIntType ==
    ASSUME NEW b \in Seq(Byte), Len(b) = 4
    PROVE  getInt(b) \in Int
<1>1. b[1] \in Byte /\ b[2] \in Byte /\ b[3] \in Byte /\ b[4] \in Byte
  <2>1. \A i \in 1 .. Len(b) : b[i] \in Byte
    BY ElementOfSeq
  <2>2. 1 \in 1 .. Len(b) /\ 2 \in 1 .. Len(b) /\ 3 \in 1 .. Len(b) /\ 4 \in 1 .. Len(b)
    OBVIOUS
  <2> QED BY ONLY <2>1, <2>2, Zenon
<1>2. b[1] \in Int /\ b[2] \in Int /\ b[3] \in Int /\ b[4] \in Int /\ Base \in Int
  BY <1>1, BaseAssumption DEF Byte
<1>3. Int32Limit \in Int
  BY Int32Half
<1> DEFINE u == b[1] + Base * (b[2] + Base * (b[3] + Base * b[4]))
<1>4. u \in Int
  BY <1>2
<1>5. getInt(b) = IF u < Int32Limit THEN u ELSE u - 2 * Int32Limit
  BY DEF getInt
<1> HIDE DEF u
<1> QED BY <1>3, <1>4, <1>5

\* Writing the length that was read gives back the four bytes.
LEMMA BytesRoundTrip ==
    ASSUME NEW b \in Seq(Byte), Len(b) = 4, getInt(b) >= 0
    PROVE  getInt(b) \in Nat /\ getInt(b) < Int32Limit /\ Digits(getInt(b)) = b
<1> DEFINE v2 == b[3] + Base * b[4]
           v1 == b[2] + Base * v2
           u == b[1] + Base * v1
<1>1. b[1] \in Byte /\ b[2] \in Byte /\ b[3] \in Byte /\ b[4] \in Byte
  <2>1. \A i \in 1 .. Len(b) : b[i] \in Byte
    BY ElementOfSeq
  <2>2. 1 \in 1 .. Len(b) /\ 2 \in 1 .. Len(b) /\ 3 \in 1 .. Len(b) /\ 4 \in 1 .. Len(b)
    OBVIOUS
  <2> QED BY ONLY <2>1, <2>2, Zenon
<1>2. b[4] \in Nat /\ b[4] < Base /\ Base \in Nat /\ Base * Base \in Nat
      /\ Base * (Base * Base) \in Nat
  BY <1>1, BaseAssumption DEF Byte
<1>3. v2 \in Nat /\ v2 < Base * Base
  BY <1>1, <1>2, OneMoreByte
<1>4. v2 % Base = b[3] /\ v2 \div Base = b[4]
  <2>1. v2 = b[3] + Base * b[4]
    OBVIOUS
  <2>2. \A r \in Byte, q \in Nat, n \in Nat :
           n = r + Base * q => n % Base = r /\ n \div Base = q
    BY DivModUnique
  <2> HIDE DEF v2
  <2>3. b[3] \in Byte /\ b[4] \in Nat /\ v2 \in Nat
    BY <1>1, <1>2, <1>3
  <2> QED BY ONLY <2>1, <2>2, <2>3, Zenon
<1> HIDE DEF v2
<1>5. v1 \in Nat /\ v1 < Base * (Base * Base)
  BY <1>1, <1>2, <1>3, OneMoreByte
<1>6. v1 % Base = b[2] /\ v1 \div Base = v2
  BY <1>1, <1>3, <1>5, DivModUnique
<1> HIDE DEF v1
<1>7. u \in Nat /\ u < Base * (Base * (Base * Base))
  BY <1>1, <1>2, <1>5, OneMoreByte
<1>8. u % Base = b[1] /\ u \div Base = v1
  BY <1>1, <1>5, <1>7, DivModUnique
<1>9. getInt(b) = IF u < Int32Limit THEN u ELSE u - 2 * Int32Limit
  BY DEF getInt, v1, v2
<1> HIDE DEF u
<1>10. b[4] % Base = b[4]
  <2>1. b[4] = b[4] + Base * 0 /\ 0 \in Nat
    BY <1>2
  <2> QED BY <1>1, <1>2, <2>1, DivModUnique
<1>11. getInt(b) = u /\ u < Int32Limit
  <2>1. Int32Limit \in Nat /\ u < 2 * Int32Limit
    BY <1>7, Int32Half
  <2> QED BY <1>7, <1>9, <2>1
<1>12. Digits(u) = <<b[1], b[2], b[3], b[4]>>
  BY <1>4, <1>6, <1>8, <1>10 DEF Digits
<1>13. b = <<b[1], b[2], b[3], b[4]>>
  <2>1. <<b[1], b[2], b[3], b[4]>> \in Seq(Byte)
    BY <1>1
  <2>2. \A i \in 1 .. 4 : b[i] = <<b[1], b[2], b[3], b[4]>>[i]
    OBVIOUS
  <2>3. Len(<<b[1], b[2], b[3], b[4]>>) = 4
    OBVIOUS
  <2> QED BY <2>1, <2>2, <2>3, SeqEqual
<1> QED BY <1>7, <1>11, <1>12, <1>13

(***************************************************************************)
(* The inductive invariant.  Typed and Lossless hold for every peer: what  *)
(* the buffer waits for, and what became of the bytes consumed.  Ours      *)
(* holds for the senders of this system: the stream is the frames of the   *)
(* messages sent, and the parser stands in the frame of the message that   *)
(* follows those it has cut out.                                           *)
(***************************************************************************)
Put == message_buffer.put
Limit == message_buffer.limit

\* The buffer is never full between two iterations.
Typed ==
    /\ TypeOK
    /\ ~thrown /\ reading_length => Limit = 4 /\ Len(Put) < 4
    /\ ~thrown /\ ~reading_length => Limit < Int32Limit /\ Len(Put) < Limit

Frames ==
    /\ start \in Seq(Nat)
    /\ Len(start) = Len(sent) + 1
    /\ start[Len(sent) + 1] = Len(stream)
    /\ \A k \in 1 .. Len(sent) :
          /\ start[k + 1] = start[k] + 4 + Len(sent[k])
          /\ start[k + 1] <= Len(stream)
          /\ \A j \in 1 .. 4 : stream[start[k] + j] = Digits(Len(sent[k]))[j]
          /\ \A j \in 1 .. Len(sent[k]) : stream[start[k] + 4 + j] = sent[k][j]

\* The packets cut out are the first messages sent.
InOrder ==
    /\ Len(parsed) <= Len(sent)
    /\ \A k \in 1 .. Len(parsed) : parsed[k] = sent[k]

Here == Len(parsed) + 1

\* The buffer holds the stream from offset o on, up to where the parser is.
HoldsFrom(o) ==
    /\ pos = o + Len(Put)
    /\ \A j \in 1 .. Len(Put) : Put[j] = stream[o + j]

Position ==
    /\ reading_length => HoldsFrom(start[Here])
    /\ ~reading_length =>
          /\ Here <= Len(sent)
          /\ Limit = Len(sent[Here])
          /\ HoldsFrom(start[Here] + 4)

Ours == ~foreign => ~thrown /\ Frames /\ InOrder /\ Position

Inv == Typed /\ Lossless /\ Ours

--------------------------------------------------------------------------------
(* An iteration of parseData *)

\* What the types say of the lengths.
LEMMA TypedFacts ==
    ASSUME Typed
    PROVE  /\ stream \in Seq(Byte) /\ Len(stream) \in Nat
           /\ sent \in Seq(Message) /\ Len(sent) \in Nat
           /\ Put \in Seq(Byte) /\ Len(Put) \in Nat
           /\ Limit \in Nat /\ Len(Put) <= Limit
           /\ message_buffer = [put |-> Put, limit |-> Limit]
           /\ arrived \in Nat /\ pos \in Nat /\ pos <= arrived /\ arrived <= Len(stream)
           /\ packets \in Seq(Seq(Byte)) /\ received \in Seq(Seq(Byte))
           /\ parsed \in Seq(Seq(Byte)) /\ Len(parsed) \in Nat
           /\ DOMAIN parsed = 1 .. Len(parsed)
           /\ \A k \in 1 .. Len(sent) :
                 /\ sent[k] \in Seq(Byte)
                 /\ Len(sent[k]) \in Nat
                 /\ Len(sent[k]) < Int32Limit
<1>1. /\ stream \in Seq(Byte) /\ sent \in Seq(Message)
      /\ packets \in Seq(Seq(Byte)) /\ received \in Seq(Seq(Byte))
      /\ message_buffer \in [put : Seq(Byte), limit : Nat]
      /\ Len(Put) <= Limit
      /\ arrived \in 0 .. Len(stream) /\ pos \in 0 .. arrived
  BY DEF Typed, TypeOK, Put, Limit
<1>2. Put \in Seq(Byte) /\ Limit \in Nat /\ message_buffer = [put |-> Put, limit |-> Limit]
  BY <1>1 DEF Put, Limit
<1>3. Len(stream) \in Nat /\ Len(sent) \in Nat /\ Len(Put) \in Nat
  BY <1>1, <1>2, LenProperties
<1>4. parsed \in Seq(Seq(Byte))
  BY <1>1, ConcatProperties DEF parsed
<1>5. Len(parsed) \in Nat /\ DOMAIN parsed = 1 .. Len(parsed)
  BY <1>4, LenProperties
<1>6. ASSUME NEW k \in 1 .. Len(sent)
      PROVE  sent[k] \in Seq(Byte) /\ Len(sent[k]) \in Nat /\ Len(sent[k]) < Int32Limit
  <2>1. sent[k] \in Message
    BY <1>1, ElementOfSeq
  <2>2. sent[k] \in Seq(Byte) /\ Len(sent[k]) < Int32Limit
    BY <2>1, MessageAssumption
  <2> QED BY <2>2, LenProperties
<1>7. arrived \in Nat /\ pos \in Nat /\ pos <= arrived /\ arrived <= Len(stream)
  BY <1>1, <1>3
<1> QED BY <1>1, <1>2, <1>3, <1>4, <1>5, <1>6, <1>7

More(t) == SubSeq(stream, pos + 1, pos + t)

\* The loop that copies t bytes into the buffer.
Copies(t) ==
    /\ t \in Nat /\ 0 < t /\ t <= Limit - Len(Put) /\ pos + t <= arrived
    /\ More(t) \in Seq(Byte) /\ Len(More(t)) = t
    /\ \A j \in 1 .. t : More(t)[j] = stream[pos + j]
    /\ Filled.put = Put \o More(t) /\ Filled.limit = Limit
    /\ Filled = [put |-> Filled.put, limit |-> Limit]
    /\ Filled.put \in Seq(Byte) /\ Len(Filled.put) = Len(Put) + t
    /\ pos' = pos + t
    /\ SubSeq(stream, 1, pos + t) = SubSeq(stream, 1, pos) \o More(t)
    /\ SubSeq(stream, 1, pos) \in Seq(Byte)

\* What an iteration copies.
LEMMA CopiesSome ==
    ASSUME Typed, ~thrown, pos < arrived, Copied
    PROVE  \E t : Copies(t)
<1> DEFINE t == IF unreadBytes(message_buffer) <= arrived - pos
                THEN unreadBytes(message_buffer) ELSE arrived - pos
<1>1. /\ stream \in Seq(Byte) /\ Len(stream) \in Nat
      /\ Put \in Seq(Byte) /\ Len(Put) \in Nat
      /\ Limit \in Nat
      /\ message_buffer = [put |-> Put, limit |-> Limit]
      /\ arrived \in Nat /\ pos \in Nat /\ arrived <= Len(stream)
  BY TypedFacts
<1>2. Len(Put) < Limit
  BY DEF Typed
<1>3. unreadBytes(message_buffer) = Limit - Len(Put)
  BY DEF unreadBytes, Limit, Put
<1>4. t \in Nat /\ 0 < t /\ t <= Limit - Len(Put) /\ pos + t <= arrived
  <2>1. arrived - pos \in Nat /\ 0 < arrived - pos /\ Limit - Len(Put) \in Nat /\ 0 < Limit - Len(Put)
    BY <1>1, <1>2
  <2> DEFINE x == Limit - Len(Put)
             y == arrived - pos
  <2>2. t = IF x <= y THEN x ELSE y
    BY <1>3
  <2>3. x \in Nat /\ 0 < x /\ y \in Nat /\ 0 < y /\ pos + y = arrived
    BY <1>1, <2>1
  <2> HIDE DEF t, x, y
  <2>4. t \in Nat /\ 0 < t /\ t <= x /\ t <= y
    BY <2>2, <2>3
  <2> QED BY <1>1, <2>3, <2>4 DEF x
<1>5. Filled = [message_buffer EXCEPT !.put = @ \o SubSeq(stream, pos + 1, pos + t)]
  BY DEF Filled
<1> HIDE DEF t
<1>6. /\ More(t) \in Seq(Byte) /\ Len(More(t)) = t
      /\ \A j \in 1 .. t : More(t)[j] = stream[pos + j]
  <2>1. stream \in Seq(Byte) /\ pos \in Nat /\ t \in Nat /\ 0 < t /\ pos + t <= Len(stream)
    BY <1>1, <1>4
  <2> QED BY ONLY <2>1, SliceProperties DEF More
<1>7. Filled = [put |-> Put \o More(t), limit |-> Limit]
  BY <1>1, <1>5 DEF More
<1>8. Filled.put = Put \o More(t) /\ Filled.limit = Limit
  BY <1>7
<1>9. Put \o More(t) \in Seq(Byte) /\ Len(Put \o More(t)) = Len(Put) + t
  <2>1. Put \in Seq(Byte) /\ More(t) \in Seq(Byte) /\ Len(More(t)) = t
    BY <1>1, <1>6
  <2> QED BY ONLY <2>1, ConcatProperties
<1>10. pos' = pos + t
  <2>1. pos' = pos + Len(Filled.put) - Len(Put)
    BY DEF Copied, Put
  <2>2. Len(Filled.put) = Len(Put) + t
    BY <1>8, <1>9
  <2>3. pos \in Nat /\ Len(Put) \in Nat /\ t \in Nat
    BY <1>1, <1>4
  <2> QED BY ONLY <2>1, <2>2, <2>3
<1>11. /\ SubSeq(stream, 1, pos + t) = SubSeq(stream, 1, pos) \o More(t)
       /\ SubSeq(stream, 1, pos) \in Seq(Byte)
  <2>1. pos + t <= Len(stream)
    BY <1>1, <1>4
  <2> QED BY <1>1, <1>4, <2>1, PrefixGrows DEF More
<1> QED BY <1>4, <1>6, <1>7, <1>8, <1>9, <1>10, <1>11 DEF Copies

\* The five things an iteration can come to.
Waits ==
    /\ Len(Filled.put) < Limit
    /\ message_buffer' = Filled
    /\ UNCHANGED <<reading_length, packets>>
    /\ thrown' = FALSE
EmptyMessage ==
    /\ reading_length /\ Len(Filled.put) = 4 /\ getInt(Filled.put) = 0
    /\ packets' = Append(packets, <<>>)
    /\ message_buffer' = allocate(4)
    /\ reading_length' = TRUE /\ thrown' = FALSE
BodyFollows ==
    /\ reading_length /\ Len(Filled.put) = 4 /\ getInt(Filled.put) > 0
    /\ message_buffer' = allocate(getInt(Filled.put))
    /\ packets' = packets
    /\ reading_length' = FALSE /\ thrown' = FALSE
Throws ==
    /\ reading_length /\ Len(Filled.put) = 4 /\ getInt(Filled.put) < 0
    /\ message_buffer' = Filled
    /\ packets' = packets
    /\ reading_length' = FALSE /\ thrown' = TRUE
BodyComplete ==
    /\ ~reading_length /\ Len(Filled.put) = Limit
    /\ packets' = Append(packets, Filled.put)
    /\ message_buffer' = allocate(4)
    /\ reading_length' = TRUE /\ thrown' = FALSE

\* An iteration copies some bytes and comes to one of them.
LEMMA Iteration ==
    ASSUME Typed, parseData
    PROVE  /\ ~thrown /\ pos < arrived
           /\ UNCHANGED <<sent, stream, start, arrived, foreign, received>>
           /\ \E t : Copies(t)
           /\ Waits \/ EmptyMessage \/ BodyFollows \/ Throws \/ BodyComplete
<1>1. /\ ~thrown /\ pos < arrived /\ Copied
      /\ UNCHANGED <<sent, stream, start, arrived, foreign, received>>
  BY DEF parseData, ReadLength, ReadBody, framingVars
<1>2. PICK t : Copies(t)
  BY <1>1, CopiesSome
<1>3. /\ Filled.limit = Limit /\ Len(Filled.put) \in Nat /\ Limit \in Nat
      /\ Len(Filled.put) <= Limit
  <2>1. /\ t \in Nat /\ t <= Limit - Len(Put) /\ Len(Filled.put) = Len(Put) + t
        /\ Filled.limit = Limit
    BY <1>2 DEF Copies
  <2>2. Len(Put) \in Nat /\ Limit \in Nat
    BY TypedFacts
  <2> QED BY ONLY <2>1, <2>2
<1>4. thrown = FALSE
  BY <1>1 DEF Typed, TypeOK
<1>5. unreadBytes(Filled) = Limit - Len(Filled.put)
  BY <1>3 DEF unreadBytes
<1>6. CASE ReadLength
  <2>1. reading_length = TRUE /\ Limit = 4
    BY <1>1, <1>6 DEF ReadLength, Typed, TypeOK
  <2>2. CASE unreadBytes(Filled) > 0 /\ message_buffer' = Filled
             /\ UNCHANGED <<reading_length, packets, thrown>>
    <3>1. Len(Filled.put) < Limit
      BY ONLY <1>3, <1>5, <2>2
    <3> QED BY <1>1, <1>2, <1>4, <2>2, <3>1 DEF Waits
  <2>3. CASE unreadBytes(Filled) = 0 /\ NextBuffer(getInt(Filled.put))
    <3>1. Len(Filled.put) = 4
      BY ONLY <1>3, <1>5, <2>1, <2>3
    <3>2. EmptyMessage \/ BodyFollows \/ Throws
      BY <1>4, <2>1, <2>3, <3>1 DEF NextBuffer, EmptyMessage, BodyFollows, Throws
    <3> QED BY <1>1, <1>2, <3>2
  <2> QED BY <1>6, <2>2, <2>3 DEF ReadLength
<1>7. CASE ReadBody
  <2>1. ~reading_length /\ thrown' = FALSE
    BY <1>4, <1>7 DEF ReadBody
  <2>2. CASE unreadBytes(Filled) > 0 /\ message_buffer' = Filled
             /\ UNCHANGED <<reading_length, packets>>
    <3>1. Len(Filled.put) < Limit
      BY ONLY <1>3, <1>5, <2>2
    <3> QED BY <1>1, <1>2, <2>1, <2>2, <3>1 DEF Waits
  <2>3. CASE /\ unreadBytes(Filled) = 0
             /\ reading_length' = TRUE
             /\ packets' = Append(packets, Filled.put)
             /\ message_buffer' = allocate(4)
    <3>1. Len(Filled.put) = Limit
      BY ONLY <1>3, <1>5, <2>3
    <3> QED BY <1>1, <1>2, <2>1, <2>3, <3>1 DEF BodyComplete
  <2> QED BY <1>7, <2>2, <2>3 DEF ReadBody
<1> QED BY <1>6, <1>7 DEF parseData

\* An iteration keeps the types: a buffer for a body is below 2^31 bytes, and it
\* is emptied as soon as it is full.
LEMMA IterationKeepsTyped ==
    ASSUME Typed, parseData
    PROVE  Typed'
<1>1. /\ UNCHANGED <<sent, stream, start, arrived, foreign, received>>
      /\ Waits \/ EmptyMessage \/ BodyFollows \/ Throws \/ BodyComplete
      /\ ~thrown
  BY Iteration
<1>2. PICK t : Copies(t)
  BY Iteration
<1>3. /\ Filled \in [put : Seq(Byte), limit : Nat]
      /\ Filled.put \in Seq(Byte) /\ Filled.limit = Limit
      /\ Len(Filled.put) <= Limit
      /\ pos' \in 0 .. arrived
  <2>1. /\ t \in Nat /\ t <= Limit - Len(Put) /\ Len(Filled.put) = Len(Put) + t
        /\ pos + t <= arrived /\ pos' = pos + t
        /\ Filled.limit = Limit /\ Filled.put \in Seq(Byte)
        /\ Filled = [put |-> Filled.put, limit |-> Limit]
    BY <1>2 DEF Copies
  <2>2. Len(Put) \in Nat /\ Limit \in Nat /\ pos \in Nat /\ arrived \in Nat
    BY TypedFacts
  <2>3. Len(Filled.put) <= Limit /\ pos' \in 0 .. arrived
    BY ONLY <2>1, <2>2
  <2>4. Filled \in [put : Seq(Byte), limit : Nat]
    BY <2>1, <2>2
  <2> QED BY <2>1, <2>3, <2>4
<1>4. /\ sent \in Seq(Message) /\ stream \in Seq(Byte) /\ foreign \in BOOLEAN
      /\ arrived \in 0 .. Len(stream) /\ received \in Seq(Seq(Byte))
      /\ packets \in Seq(Seq(Byte)) /\ reading_length \in BOOLEAN /\ thrown = FALSE
  BY <1>1 DEF Typed, TypeOK
<1>5. <<>> \in Seq(Byte) /\ Len(<<>>) = 0
  OBVIOUS
<1>6. CASE Waits
  <2>1. /\ message_buffer' = Filled /\ reading_length' = reading_length
        /\ packets' = packets /\ thrown' = FALSE /\ Len(Filled.put) < Limit
    BY <1>6 DEF Waits
  <2>2. TypeOK'
    BY <1>1, <1>3, <1>4, <2>1 DEF TypeOK
  <2>3. Put' = Filled.put /\ Limit' = Limit
    BY <1>3, <2>1 DEF Put, Limit
  <2>4. /\ reading_length => Limit = 4
        /\ ~reading_length => Limit < Int32Limit
    BY <1>1 DEF Typed
  <2> QED BY <2>1, <2>2, <2>3, <2>4 DEF Typed
<1>7. CASE EmptyMessage \/ BodyComplete
  <2>1. /\ message_buffer' = [put |-> <<>>, limit |-> 4]
        /\ reading_length' = TRUE /\ thrown' = FALSE
        /\ packets' = Append(packets, <<>>) \/ packets' = Append(packets, Filled.put)
    BY <1>7 DEF EmptyMessage, BodyComplete, allocate
  <2>2. packets' \in Seq(Seq(Byte))
    <3>1. \A m \in Seq(Byte) : Append(packets, m) \in Seq(Seq(Byte))
      BY <1>4, AppendProperties
    <3> QED BY ONLY <1>3, <1>5, <2>1, <3>1, Zenon
  <2>3. Put' = <<>> /\ Limit' = 4
    BY <2>1 DEF Put, Limit
  <2>4. message_buffer' \in [put : Seq(Byte), limit : Nat] /\ Len(message_buffer'.put) <= message_buffer'.limit
    BY <1>5, <2>1
  <2>5. TypeOK'
    BY <1>1, <1>3, <1>4, <2>1, <2>2, <2>4 DEF TypeOK
  <2> QED BY <1>5, <2>1, <2>3, <2>5 DEF Typed
<1>8. CASE BodyFollows
  <2> DEFINE n == getInt(Filled.put)
  <2>1. /\ message_buffer' = [put |-> <<>>, limit |-> n]
        /\ reading_length' = FALSE /\ thrown' = FALSE /\ packets' = packets
        /\ n > 0 /\ Len(Filled.put) = 4
    BY <1>8 DEF BodyFollows, allocate
  <2>2. n \in Nat /\ n < Int32Limit
    <3>1. \A b \in Seq(Byte) : Len(b) = 4 /\ getInt(b) >= 0 => getInt(b) \in Nat /\ getInt(b) < Int32Limit
      BY BytesRoundTrip
    <3>2. getInt(Filled.put) \in Int
      <4>1. \A b \in Seq(Byte) : Len(b) = 4 => getInt(b) \in Int
        BY getIntType
      <4> QED BY ONLY <1>3, <2>1, <4>1
    <3>3. n >= 0
      BY <2>1, <3>2
    <3> QED BY ONLY <1>3, <2>1, <3>1, <3>3, Zenon DEF n
  <2> HIDE DEF n
  <2>3. Put' = <<>> /\ Limit' = n
    BY <2>1 DEF Put, Limit
  <2>4. message_buffer' \in [put : Seq(Byte), limit : Nat] /\ Len(message_buffer'.put) <= message_buffer'.limit
    BY <1>5, <2>1, <2>2
  <2>5. TypeOK'
    BY <1>1, <1>3, <1>4, <2>1, <2>4 DEF TypeOK
  <2> QED BY <1>5, <2>1, <2>2, <2>3, <2>5 DEF Typed
<1>9. CASE Throws
  <2>1. /\ message_buffer' = Filled /\ reading_length' = FALSE
        /\ packets' = packets /\ thrown' = TRUE
    BY <1>9 DEF Throws
  <2>2. TypeOK'
    BY <1>1, <1>3, <1>4, <2>1 DEF TypeOK
  <2> QED BY <2>1, <2>2 DEF Typed
<1> QED BY <1>1, <1>6, <1>7, <1>8, <1>9

--------------------------------------------------------------------------------
(* No byte is lost *)

Frame(packet) == Digits(Len(packet)) \o packet

Framed(s) == [k \in DOMAIN s |-> Frame(s[k])]

\* The packets cut out, put back into frames.
Joined == FlattenSeq(Framed(parsed))

\* What the buffer stands for.
Pending == IF reading_length \/ thrown THEN Put ELSE Digits(Limit) \o Put

\* Lossless in these words.
LEMMA LosslessMeans == Lossless <=> Joined \o Pending = SubSeq(stream, 1, pos)
  BY DEF Lossless, Joined, Framed, Frame, Pending, Put, Limit

\* A frame is a sequence of bytes.
LEMMA FrameType ==
    ASSUME NEW p \in Seq(Byte)
    PROVE  Frame(p) \in Seq(Byte)
<1>1. Len(p) \in Nat
  BY LenProperties
<1>2. Digits(Len(p)) \in Seq(Byte)
  BY <1>1, DigitsType
<1> QED BY ONLY p \in Seq(Byte), <1>2, ConcatProperties DEF Frame

\* The frames of a list with one more packet.
LEMMA FramedAppend ==
    ASSUME NEW s \in Seq(Seq(Byte)), NEW m \in Seq(Byte)
    PROVE  /\ Framed(s) \in Seq(Seq(Byte))
           /\ Framed(Append(s, m)) = Append(Framed(s), Frame(m))
<1> DEFINE a == Append(s, m)
<1>1. /\ a \in Seq(Seq(Byte))
      /\ Len(a) = Len(s) + 1
      /\ \A i \in 1 .. Len(s) : a[i] = s[i]
      /\ a[Len(s) + 1] = m
      /\ Len(s) \in Nat
  BY AppendProperties, LenProperties
<1> HIDE DEF a
<1>2. DOMAIN s = 1 .. Len(s) /\ DOMAIN a = 1 .. (Len(s) + 1)
  BY <1>1, LenProperties
<1>3. \A i \in 1 .. Len(s) : Frame(s[i]) \in Seq(Byte)
  <2> SUFFICES ASSUME NEW i \in 1 .. Len(s) PROVE Frame(s[i]) \in Seq(Byte)
    OBVIOUS
  <2>1. s[i] \in Seq(Byte)
    BY ElementOfSeq
  <2> QED BY <2>1, FrameType
<1>4. Framed(s) = [i \in 1 .. Len(s) |-> Frame(s[i])]
  BY <1>2 DEF Framed
<1>5. Framed(s) \in Seq(Seq(Byte)) /\ Len(Framed(s)) = Len(s)
  <2> HIDE DEF Frame
  <2> QED BY <1>1, <1>3, <1>4
<1>6. Framed(a) = [i \in 1 .. (Len(s) + 1) |-> Frame(a[i])]
  BY <1>2 DEF Framed
<1>7. Frame(m) \in Seq(Byte)
  BY FrameType
<1>8. \A i \in 1 .. (Len(s) + 1) : Frame(a[i]) \in Seq(Byte)
  <2> SUFFICES ASSUME NEW i \in 1 .. (Len(s) + 1) PROVE Frame(a[i]) \in Seq(Byte)
    OBVIOUS
  <2>1. a[i] \in Seq(Byte)
    BY <1>1, ElementOfSeq
  <2> QED BY <2>1, FrameType
<1>9. Framed(a) \in Seq(Seq(Byte)) /\ Len(Framed(a)) = Len(s) + 1
  BY <1>1, <1>6, <1>8
<1>10. /\ Append(Framed(s), Frame(m)) \in Seq(Seq(Byte))
       /\ Len(Append(Framed(s), Frame(m))) = Len(s) + 1
       /\ \A i \in 1 .. Len(s) : Append(Framed(s), Frame(m))[i] = Framed(s)[i]
       /\ Append(Framed(s), Frame(m))[Len(s) + 1] = Frame(m)
  <2> DEFINE g == Framed(s)
             x == Frame(m)
  <2>1. g \in Seq(Seq(Byte)) /\ x \in Seq(Byte) /\ Len(g) = Len(s)
    BY <1>5, <1>7
  <2> HIDE DEF g, x
  <2>2. /\ Append(g, x) \in Seq(Seq(Byte))
        /\ Len(Append(g, x)) = Len(g) + 1
        /\ \A i \in 1 .. Len(g) : Append(g, x)[i] = g[i]
        /\ Append(g, x)[Len(g) + 1] = x
    BY ONLY <2>1, AppendProperties
  <2> QED BY <2>1, <2>2 DEF g, x
<1>11. ASSUME NEW i \in 1 .. (Len(s) + 1)
       PROVE  Framed(a)[i] = Append(Framed(s), Frame(m))[i]
  <2>1. Framed(a)[i] = Frame(a[i])
    BY <1>6
  <2>2. CASE i = Len(s) + 1
    BY <1>1, <1>10, <2>1, <2>2
  <2>3. CASE i \in 1 .. Len(s)
    <3>1. Framed(s)[i] = Frame(s[i])
      BY <1>4, <2>3
    <3>2. a[i] = s[i]
      BY <1>1, <2>3
    <3>3. Append(Framed(s), Frame(m))[i] = Framed(s)[i]
      BY <1>10, <2>3
    <3> QED BY ONLY <2>1, <3>1, <3>2, <3>3, Zenon
  <2>4. i = Len(s) + 1 \/ i \in 1 .. Len(s)
    BY <1>1
  <2> QED BY <2>2, <2>3, <2>4, Zenon
<1>12. Framed(a) = Append(Framed(s), Frame(m))
  <2> DEFINE g == Framed(a)
             h == Append(Framed(s), Frame(m))
  <2>1. g \in Seq(Seq(Byte)) /\ h \in Seq(Seq(Byte)) /\ Len(g) = Len(h)
        /\ \A i \in 1 .. Len(g) : g[i] = h[i]
    BY <1>9, <1>10, <1>11
  <2> HIDE DEF g, h
  <2>2. g = h
    BY ONLY <2>1, SeqEqual
  <2> QED BY <2>2 DEF g, h
<1> QED BY <1>5, <1>12 DEF a

\* One more packet is one more frame.
LEMMA JoinedGrows ==
    ASSUME Typed, NEW m \in Seq(Byte), packets' = Append(packets, m), received' = received
    PROVE  /\ parsed' = Append(parsed, m)
           /\ Joined' = Joined \o Frame(m)
<1>1. /\ packets \in Seq(Seq(Byte)) /\ received \in Seq(Seq(Byte))
      /\ parsed \in Seq(Seq(Byte))
  BY TypedFacts
<1>2. received \o Append(packets, m) = Append(received \o packets, m)
  BY ONLY <1>1, m \in Seq(Byte), ConcatAppend
<1>3. parsed' = Append(parsed, m)
  BY <1>2 DEF parsed
<1>4. /\ Framed(parsed) \in Seq(Seq(Byte))
      /\ Framed(Append(parsed, m)) = Append(Framed(parsed), Frame(m))
  BY <1>1, FramedAppend
<1>5. FlattenSeq(Append(Framed(parsed), Frame(m))) = FlattenSeq(Framed(parsed)) \o Frame(m)
  <2>1. Frame(m) \in Seq(Byte)
    BY FrameType
  <2> QED BY ONLY <1>4, <2>1, FlattenAppend
<1>6. Joined' = FlattenSeq(Framed(parsed'))
  BY DEF Joined, Framed
<1> QED BY <1>3, <1>4, <1>5, <1>6 DEF Joined

\* The frames and the buffer are sequences of bytes.
LEMMA JoinedType ==
    ASSUME Typed
    PROVE  Joined \in Seq(Byte) /\ Pending \in Seq(Byte)
<1>1. Joined \in Seq(Byte)
  <2>1. parsed \in Seq(Seq(Byte)) /\ <<>> \in Seq(Byte)
    BY TypedFacts
  <2>2. Framed(parsed) \in Seq(Seq(Byte))
    BY <2>1, FramedAppend
  <2> QED BY ONLY <2>1, <2>2, FlattenAppend DEF Joined
<1>2. Put \in Seq(Byte) /\ Limit \in Nat
  BY TypedFacts
<1>3. Digits(Limit) \in Seq(Byte)
  BY <1>2, DigitsType
<1>4. Digits(Limit) \o Put \in Seq(Byte)
  BY ONLY <1>2, <1>3, ConcatProperties
<1> QED BY <1>1, <1>2, <1>4, Zenon DEF Pending

\* An iteration leaves the packets as they are and joins the bytes it copied to
\* what the buffer stands for, or it makes a packet of all that and starts anew.
LEMMA IterationJoins ==
    ASSUME Typed, parseData, NEW t, Copies(t)
    PROVE  \/ Joined' = Joined /\ Pending' = Pending \o More(t)
           \/ Joined' = Joined \o (Pending \o More(t)) /\ Pending' = <<>>
<1>1. /\ received' = received /\ ~thrown
      /\ Waits \/ EmptyMessage \/ BodyFollows \/ Throws \/ BodyComplete
  BY Iteration
<1>2. /\ Filled.put = Put \o More(t) /\ Filled.limit = Limit
      /\ More(t) \in Seq(Byte) /\ Filled.put \in Seq(Byte)
  BY DEF Copies
<1>3. /\ Put \in Seq(Byte) /\ Limit \in Nat
      /\ Digits(Limit) \in Seq(Byte) /\ Digits(Limit) \o Put \in Seq(Byte)
  <2>1. Put \in Seq(Byte) /\ Limit \in Nat
    BY TypedFacts
  <2>2. Digits(Limit) \in Seq(Byte)
    BY <2>1, DigitsType
  <2>3. Digits(Limit) \o Put \in Seq(Byte)
    BY ONLY <2>1, <2>2, ConcatProperties
  <2> QED BY <2>1, <2>2, <2>3
<1>4. packets' = packets => Joined' = Joined
  <2>1. ASSUME packets' = packets PROVE parsed' = parsed
    BY <1>1, <2>1 DEF parsed
  <2>2. Joined' = FlattenSeq(Framed(parsed'))
    BY DEF Joined, Framed
  <2> QED BY <2>1, <2>2, Zenon DEF Joined
<1>5. reading_length => Pending = Put
  BY DEF Pending
<1>6. ~reading_length => Pending = Digits(Limit) \o Put
  BY <1>1 DEF Pending
<1>7. (Digits(Limit) \o Put) \o More(t) = Digits(Limit) \o (Put \o More(t))
  <2>1. \A r, s, u \in Seq(Byte) : (r \o s) \o u = r \o (s \o u)
    BY ConcatAssociative
  <2> QED BY ONLY <1>2, <1>3, <2>1, ZenonT(60)
<1>8. <<>> \in Seq(Byte) /\ Len(<<>>) = 0
  OBVIOUS
<1>9. \A n \in Nat : Digits(n) \o <<>> = Digits(n)
  <2> SUFFICES ASSUME NEW n \in Nat PROVE Digits(n) \o <<>> = Digits(n)
    OBVIOUS
  <2>1. Digits(n) \in Seq(Byte)
    BY DigitsType
  <2> QED BY ONLY <2>1, ConcatEmptySeq
<1>10. \A b \in Seq(Byte) : Len(b) = 4 /\ getInt(b) >= 0 => getInt(b) \in Nat /\ Digits(getInt(b)) = b
  BY BytesRoundTrip
<1>11. \A b \in Seq(Byte) : Len(b) = 4 /\ getInt(b) > 0 => getInt(b) >= 0
  BY getIntType
<1>12. CASE Waits
  <2>1. /\ Put' = Filled.put /\ Limit' = Limit /\ packets' = packets
        /\ reading_length' = reading_length /\ thrown' = FALSE
    BY <1>2, <1>12 DEF Waits, Put, Limit
  <2>2. CASE reading_length
    <3>1. Pending' = Put'
      BY <2>1, <2>2 DEF Pending
    <3> QED BY <1>2, <1>4, <1>5, <2>1, <2>2, <3>1, Zenon
  <2>3. CASE ~reading_length
    <3>1. Pending' = Digits(Limit') \o Put'
      BY <2>1, <2>3 DEF Pending, Digits
    <3> QED BY <1>2, <1>4, <1>6, <1>7, <2>1, <2>3, <3>1, Zenon
  <2> QED BY <2>2, <2>3
<1>13. CASE EmptyMessage
  <2>1. /\ packets' = Append(packets, <<>>) /\ reading_length
        /\ Len(Filled.put) = 4 /\ getInt(Filled.put) = 0
        /\ Put' = <<>> /\ reading_length' = TRUE
    BY <1>13 DEF EmptyMessage, allocate, Put
  <2>2. Joined' = Joined \o Frame(<<>>)
    BY <1>1, <1>8, <2>1, JoinedGrows
  <2>3. Digits(0) = Filled.put
    <3>1. 0 >= 0
      OBVIOUS
    <3> QED BY ONLY <1>2, <1>10, <2>1, <3>1, Zenon
  <2>4. Frame(<<>>) = Digits(0)
    <3>1. 0 \in Nat
      OBVIOUS
    <3> QED BY ONLY <1>8, <1>9, <3>1, Zenon DEF Frame
  <2>5. Pending' = <<>>
    BY <2>1 DEF Pending
  <2> QED BY <1>2, <1>5, <2>1, <2>2, <2>3, <2>4, <2>5, Zenon
<1>14. CASE BodyFollows
  <2>1. /\ packets' = packets /\ reading_length
        /\ Len(Filled.put) = 4 /\ getInt(Filled.put) > 0
        /\ Put' = <<>> /\ Limit' = getInt(Filled.put)
        /\ reading_length' = FALSE /\ thrown' = FALSE
    BY <1>14 DEF BodyFollows, allocate, Put, Limit
  <2>2. Limit' \in Nat /\ Digits(Limit') = Filled.put
    BY ONLY <1>2, <1>10, <1>11, <2>1, Zenon
  <2>3. Pending' = Digits(Limit') \o Put'
    BY <2>1 DEF Pending, Digits
  <2>4. Pending' = Filled.put
    BY ONLY <1>9, <2>1, <2>2, <2>3, Zenon
  <2> QED BY <1>2, <1>4, <1>5, <2>1, <2>4, Zenon
<1>15. CASE Throws
  <2>1. /\ packets' = packets /\ reading_length /\ Put' = Filled.put /\ thrown' = TRUE
    BY <1>15 DEF Throws, Put
  <2>2. Pending' = Put'
    BY <2>1 DEF Pending
  <2> QED BY <1>2, <1>4, <1>5, <2>1, <2>2, Zenon
<1>16. CASE BodyComplete
  <2>1. /\ packets' = Append(packets, Filled.put) /\ ~reading_length
        /\ Len(Filled.put) = Limit
        /\ Put' = <<>> /\ reading_length' = TRUE
    BY <1>16 DEF BodyComplete, allocate, Put
  <2>2. Joined' = Joined \o Frame(Filled.put)
    BY <1>1, <1>2, <2>1, JoinedGrows
  <2>3. Frame(Filled.put) = Digits(Limit) \o Filled.put
    BY <2>1 DEF Frame
  <2>4. Pending' = <<>>
    BY <2>1 DEF Pending
  <2> QED BY <1>2, <1>6, <1>7, <2>1, <2>2, <2>3, <2>4, Zenon
<1> QED BY <1>1, <1>12, <1>13, <1>14, <1>15, <1>16

\* An iteration loses no byte.
LEMMA IterationKeepsLossless ==
    ASSUME Typed, Lossless, parseData
    PROVE  Lossless'
<1>1. PICK t : Copies(t)
  BY Iteration
<1>2. /\ SubSeq(stream, 1, pos + t) = SubSeq(stream, 1, pos) \o More(t)
      /\ SubSeq(stream, 1, pos) \in Seq(Byte) /\ More(t) \in Seq(Byte)
      /\ pos' = pos + t
  BY <1>1 DEF Copies
<1>3. stream' = stream
  BY Iteration
<1>4. Joined \in Seq(Byte) /\ Pending \in Seq(Byte)
  BY JoinedType
<1>5. Joined \o Pending = SubSeq(stream, 1, pos)
  BY LosslessMeans
<1>6. Joined \o (Pending \o More(t)) = SubSeq(stream, 1, pos) \o More(t)
  <2>1. \A j, p, c, x \in Seq(Byte) : j \o p = c => j \o (p \o x) = c \o x
    BY JoinMore
  <2> QED BY ONLY <1>2, <1>4, <1>5, <2>1, ZenonT(60)
<1>7. SubSeq(stream', 1, pos') = Joined \o (Pending \o More(t))
  BY ONLY <1>2, <1>3, <1>6, Zenon
<1>8. \/ Joined' = Joined /\ Pending' = Pending \o More(t)
      \/ Joined' = Joined \o (Pending \o More(t)) /\ Pending' = <<>>
  BY <1>1, IterationJoins
<1>9. (Joined \o (Pending \o More(t))) \o <<>> = Joined \o (Pending \o More(t))
  <2>1. Joined \o (Pending \o More(t)) \in Seq(Byte)
    <3>1. SubSeq(stream, 1, pos) \o More(t) \in Seq(Byte)
      BY ONLY <1>2, ConcatProperties
    <3> QED BY ONLY <1>6, <3>1, Zenon
  <2> DEFINE w == Joined \o (Pending \o More(t))
  <2> HIDE DEF w
  <2>2. w \in Seq(Byte) => w \o <<>> = w
    BY ONLY ConcatEmptySeq
  <2> QED BY <2>1, <2>2, Zenon DEF w
<1>10. Joined' \o Pending' = SubSeq(stream', 1, pos')
  BY ONLY <1>7, <1>8, <1>9, Zenon
<1>11. Lossless' <=> Joined' \o Pending' = SubSeq(stream', 1, pos')
  BY DEF Lossless, Joined, Framed, Frame, Pending, Put, Limit
<1> QED BY <1>10, <1>11

--------------------------------------------------------------------------------
(* Bytes appended to the stream leave what the parser has read as it was *)

\* Four bytes in the other order are four bytes.
LEMMA LengthBytesType ==
    ASSUME NEW n \in Nat
    PROVE  LengthBytes(n) \in Seq(Byte) /\ Len(LengthBytes(n)) = 4
<1>1. Digits(n) \in Seq(Byte) /\ Len(Digits(n)) = 4
  BY DigitsType
<1>2. \A b \in Seq(Byte) : Len(b) = 4 => Reverse(b) \in Seq(Byte) /\ Len(Reverse(b)) = 4
  <2> SUFFICES ASSUME NEW b \in Seq(Byte), Len(b) = 4
               PROVE  Reverse(b) \in Seq(Byte) /\ Len(Reverse(b)) = 4
    OBVIOUS
  <2>1. Reverse(b) = [i \in 1 .. 4 |-> b[(4 - i) + 1]]
    BY DEF Reverse
  <2>2. \A i \in 1 .. 4 : b[(4 - i) + 1] \in Byte
    <3> SUFFICES ASSUME NEW i \in 1 .. 4 PROVE b[(4 - i) + 1] \in Byte
      OBVIOUS
    <3>1. (4 - i) + 1 \in 1 .. Len(b)
      OBVIOUS
    <3>2. \A k \in 1 .. Len(b) : b[k] \in Byte
      BY ElementOfSeq
    <3> QED BY ONLY <3>1, <3>2, Zenon
  <2> QED BY ONLY <2>1, <2>2
<1> QED BY ONLY <1>1, <1>2, Zenon DEF LengthBytes

\* What a send appends.
LEMMA SendAppends ==
    ASSUME Typed, NEW m \in Message, Send(m)
    PROVE  /\ m \in Seq(Byte) /\ Len(m) \in Nat
           /\ UNCHANGED <<arrived, foreign, pos, reading_length, message_buffer, packets,
                          thrown, received>>
           /\ sent' \in Seq(Message) /\ Len(sent') = Len(sent) + 1
           /\ \A k \in 1 .. Len(sent) : sent'[k] = sent[k]
           /\ sent'[Len(sent) + 1] = m
           /\ stream' \in Seq(Byte) /\ Len(stream') = Len(stream) + 4 + Len(m)
           /\ \A i \in 1 .. Len(stream) : stream'[i] = stream[i]
           /\ \A j \in 1 .. 4 : stream'[Len(stream) + j] = LengthBytes(Len(m))[j]
           /\ \A j \in 1 .. Len(m) : stream'[Len(stream) + 4 + j] = m[j]
           /\ start' = Append(start, start[Len(start)] + 4 + Len(m))
           /\ SubSeq(stream', 1, pos) = SubSeq(stream, 1, pos)
<1> DEFINE d == LengthBytes(Len(m))
           f == d \o m
<1>1. /\ sent' = Append(sent, m)
      /\ stream' = stream \o f
      /\ start' = Append(start, start[Len(start)] + 4 + Len(m))
      /\ UNCHANGED <<arrived, foreign, pos, reading_length, message_buffer, packets,
                     thrown, received>>
  BY DEF Send, send_data, parserVars
<1>2. m \in Seq(Byte) /\ Len(m) \in Nat
  BY MessageAssumption, LenProperties
<1>3. d \in Seq(Byte) /\ Len(d) = 4
  BY <1>2, LengthBytesType
<1> HIDE DEF d
<1>12. \A r, s \in Seq(Byte) : /\ r \o s \in Seq(Byte)
                               /\ Len(r \o s) = Len(r) + Len(s)
                               /\ \A i \in 1 .. Len(r) : (r \o s)[i] = r[i]
                               /\ \A i \in 1 .. Len(s) : (r \o s)[Len(r) + i] = s[i]
  BY ConcatAt
<1>4. /\ f \in Seq(Byte)
      /\ Len(f) = 4 + Len(m)
      /\ \A i \in 1 .. 4 : f[i] = d[i]
      /\ \A i \in 1 .. Len(m) : f[4 + i] = m[i]
  <2>1. /\ f \in Seq(Byte)
        /\ Len(f) = Len(d) + Len(m)
        /\ \A i \in 1 .. Len(d) : f[i] = d[i]
        /\ \A i \in 1 .. Len(m) : f[Len(d) + i] = m[i]
    BY ONLY <1>2, <1>3, <1>12, Zenon DEF f
  <2> QED BY <1>3, <2>1
<1> HIDE DEF f
<1>5. /\ stream \in Seq(Byte) /\ sent \in Seq(Message) /\ Len(stream) \in Nat
      /\ Len(sent) \in Nat /\ pos \in Nat /\ pos <= Len(stream)
  <2>1. /\ stream \in Seq(Byte) /\ sent \in Seq(Message) /\ Len(stream) \in Nat
        /\ Len(sent) \in Nat /\ pos \in Nat /\ arrived \in Nat
        /\ pos <= arrived /\ arrived <= Len(stream)
    BY TypedFacts
  <2> QED BY <2>1
<1>6. /\ sent' \in Seq(Message)
      /\ Len(sent') = Len(sent) + 1
      /\ \A k \in 1 .. Len(sent) : sent'[k] = sent[k]
      /\ sent'[Len(sent) + 1] = m
  BY <1>1, <1>5, AppendProperties
<1>7. /\ stream \o f \in Seq(Byte)
      /\ Len(stream \o f) = Len(stream) + Len(f)
      /\ \A i \in 1 .. Len(stream) : (stream \o f)[i] = stream[i]
      /\ \A i \in 1 .. Len(f) : (stream \o f)[Len(stream) + i] = f[i]
  BY ONLY <1>4, <1>5, <1>12, Zenon
<1>8. Len(stream') = Len(stream) + 4 + Len(m)
  BY <1>1, <1>2, <1>4, <1>5, <1>7
<1>9. ASSUME NEW j \in 1 .. 4 PROVE stream'[Len(stream) + j] = d[j]
  <2>1. j \in 1 .. Len(f)
    BY <1>2, <1>4
  <2>2. (stream \o f)[Len(stream) + j] = f[j]
    BY ONLY <1>7, <2>1, Zenon
  <2> QED BY <1>1, <1>4, <2>2
<1>10. ASSUME NEW j \in 1 .. Len(m) PROVE stream'[Len(stream) + 4 + j] = m[j]
  <2>1. 4 + j \in 1 .. Len(f) /\ Len(stream) + (4 + j) = Len(stream) + 4 + j
    BY <1>2, <1>4, <1>5
  <2>2. (stream \o f)[Len(stream) + (4 + j)] = f[4 + j]
    BY ONLY <1>7, <2>1, Zenon
  <2> QED BY <1>1, <1>4, <2>1, <2>2
<1>11. SubSeq(stream \o f, 1, pos) = SubSeq(stream, 1, pos)
  BY ONLY <1>4, <1>5, PrefixStays
<1> QED BY <1>1, <1>2, <1>6, <1>7, <1>8, <1>9, <1>10, <1>11 DEF d

\* Where the parser of a peer of this system stands.
LEMMA OursFacts ==
    ASSUME Typed, Ours, ~foreign
    PROVE  /\ Frames /\ InOrder /\ Position
           /\ Here \in 1 .. (Len(sent) + 1) /\ Here \in Nat
           /\ \A k \in 1 .. (Len(sent) + 1) : start[k] \in Nat
           /\ start[Here] \in Nat
           /\ ~thrown
<1>1. ~thrown /\ Frames /\ InOrder /\ Position
  BY DEF Ours
<1>2. Len(sent) \in Nat /\ Len(parsed) \in Nat
  BY TypedFacts
<1>3. Len(parsed) <= Len(sent)
  BY <1>1 DEF InOrder
<1>4. Here \in 1 .. (Len(sent) + 1) /\ Here \in Nat
  BY <1>2, <1>3 DEF Here
<1>5. start \in Seq(Nat) /\ Len(start) = Len(sent) + 1
  BY <1>1 DEF Frames
<1>6. \A k \in 1 .. (Len(sent) + 1) : start[k] \in Nat
  BY <1>5, ElementOfSeq
<1>7. start[Here] \in Nat
  BY ONLY <1>4, <1>6, Zenon
<1> QED BY <1>1, <1>4, <1>6, <1>7

\* A send keeps the invariant.
LEMMA SendKeepsInv ==
    ASSUME Inv, NEW m \in Message, Send(m)
    PROVE  Inv'
<1>1. Typed /\ Lossless /\ Ours
  BY DEF Inv
<1>2. /\ m \in Seq(Byte) /\ Len(m) \in Nat
      /\ UNCHANGED <<arrived, foreign, pos, reading_length, message_buffer, packets,
                     thrown, received>>
      /\ sent' \in Seq(Message) /\ Len(sent') = Len(sent) + 1
      /\ \A k \in 1 .. Len(sent) : sent'[k] = sent[k]
      /\ sent'[Len(sent) + 1] = m
      /\ stream' \in Seq(Byte) /\ Len(stream') = Len(stream) + 4 + Len(m)
      /\ \A i \in 1 .. Len(stream) : stream'[i] = stream[i]
      /\ \A j \in 1 .. 4 : stream'[Len(stream) + j] = LengthBytes(Len(m))[j]
      /\ \A j \in 1 .. Len(m) : stream'[Len(stream) + 4 + j] = m[j]
      /\ start' = Append(start, start[Len(start)] + 4 + Len(m))
      /\ SubSeq(stream', 1, pos) = SubSeq(stream, 1, pos)
  BY <1>1, SendAppends
<1>3. /\ Len(stream) \in Nat /\ Len(sent) \in Nat /\ Len(Put) \in Nat
      /\ pos \in Nat /\ arrived \in Nat /\ pos <= arrived /\ arrived <= Len(stream)
      /\ Len(parsed) \in Nat
  BY <1>1, TypedFacts
<1>4. Put' = Put /\ Limit' = Limit /\ parsed' = parsed /\ Here' = Here
  BY <1>2 DEF Put, Limit, parsed, Here
<1>5. Typed'
  <2>1. arrived \in 0 .. Len(stream')
    BY <1>2, <1>3
  <2>2. TypeOK'
    <3>1. TypeOK
      BY <1>1 DEF Typed
    <3> QED BY <1>2, <2>1, <3>1 DEF TypeOK
  <2> QED BY <1>1, <1>2, <1>4, <2>2 DEF Typed
<1>6. Lossless'
  <2>1. Joined' = Joined /\ Pending' = Pending
    BY <1>2, <1>4 DEF Joined, Pending, Framed, Frame, Digits
  <2>2. Joined \o Pending = SubSeq(stream, 1, pos)
    BY <1>1, LosslessMeans
  <2>3. Joined' \o Pending' = SubSeq(stream', 1, pos')
    BY <1>2, <2>1, <2>2, Zenon
  <2>4. Lossless' <=> Joined' \o Pending' = SubSeq(stream', 1, pos')
    BY DEF Lossless, Joined, Framed, Frame, Pending, Put, Limit
  <2> QED BY <2>3, <2>4
<1>7. ASSUME ~foreign PROVE Frames' /\ InOrder' /\ Position' /\ ~thrown'
  <2>1. /\ Frames /\ InOrder /\ Position /\ ~thrown
        /\ Here \in 1 .. (Len(sent) + 1) /\ Here \in Nat
        /\ \A k \in 1 .. (Len(sent) + 1) : start[k] \in Nat
        /\ start[Here] \in Nat
    BY <1>1, <1>7, OursFacts
  <2>2. LengthBytes(Len(m)) = Digits(Len(m))
    BY <1>7 DEF LengthBytes
  <2>3. start \in Seq(Nat) /\ Len(start) = Len(sent) + 1 /\ start[Len(sent) + 1] = Len(stream)
    BY <2>1 DEF Frames
  <2>4. /\ start' \in Seq(Nat)
        /\ Len(start') = Len(sent) + 2
        /\ \A k \in 1 .. (Len(sent) + 1) : start'[k] = start[k]
        /\ start'[Len(sent) + 2] = Len(stream) + 4 + Len(m)
    <3>1. start' = Append(start, Len(stream) + 4 + Len(m)) /\ Len(stream) + 4 + Len(m) \in Nat
      BY <1>2, <1>3, <2>3
    <3>2. /\ Append(start, Len(stream) + 4 + Len(m)) \in Seq(Nat)
          /\ Len(Append(start, Len(stream) + 4 + Len(m))) = Len(start) + 1
          /\ \A i \in 1 .. Len(start) : Append(start, Len(stream) + 4 + Len(m))[i] = start[i]
          /\ Append(start, Len(stream) + 4 + Len(m))[Len(start) + 1] = Len(stream) + 4 + Len(m)
      BY <2>3, <3>1, AppendProperties
    <3>3. Len(start) + 1 = Len(sent) + 2
      BY <1>3, <2>3
    <3> QED BY <2>3, <3>1, <3>2, <3>3
  <2>5. ASSUME NEW k \in 1 .. Len(sent')
        PROVE  /\ start'[k + 1] = start'[k] + 4 + Len(sent'[k])
               /\ start'[k + 1] <= Len(stream')
               /\ \A j \in 1 .. 4 : stream'[start'[k] + j] = Digits(Len(sent'[k]))[j]
               /\ \A j \in 1 .. Len(sent'[k]) : stream'[start'[k] + 4 + j] = sent'[k][j]
    <3>1. CASE k \in 1 .. Len(sent)
      <4>1. /\ start[k + 1] = start[k] + 4 + Len(sent[k])
            /\ start[k + 1] <= Len(stream)
            /\ \A j \in 1 .. 4 : stream[start[k] + j] = Digits(Len(sent[k]))[j]
            /\ \A j \in 1 .. Len(sent[k]) : stream[start[k] + 4 + j] = sent[k][j]
        BY <2>1, <3>1 DEF Frames
      <4>2. k \in 1 .. (Len(sent) + 1) /\ k + 1 \in 1 .. (Len(sent) + 1)
        BY <1>3, <3>1
      <4>3. /\ start'[k] = start[k] /\ start'[k + 1] = start[k + 1]
            /\ sent'[k] = sent[k]
        BY <1>2, <2>4, <3>1, <4>2
      <4>4. start[k] \in Nat /\ Len(sent[k]) \in Nat
        BY <1>1, <2>1, <3>1, <4>2, TypedFacts
      <4>5. start[k] + 4 + Len(sent[k]) <= Len(stream)
        BY <4>1
      <4>6. ASSUME NEW j \in 1 .. 4 PROVE stream'[start[k] + j] = stream[start[k] + j]
        <5>1. \A a, b, c \in Nat : a + 4 + b <= c => a + j \in 1 .. c
          OBVIOUS
        <5>2. start[k] + j \in 1 .. Len(stream)
          BY ONLY <1>3, <4>4, <4>5, <5>1
        <5> QED BY ONLY <1>2, <5>2, Zenon
      <4>7. ASSUME NEW j \in 1 .. Len(sent[k])
            PROVE  stream'[start[k] + 4 + j] = stream[start[k] + 4 + j]
        <5>1. \A a, b, c \in Nat : a + 4 + b <= c => \A i \in 1 .. b : a + 4 + i \in 1 .. c
          OBVIOUS
        <5>2. start[k] + 4 + j \in 1 .. Len(stream)
          BY ONLY <1>3, <4>4, <4>5, <5>1, j \in 1 .. Len(sent[k]), Zenon
        <5> QED BY ONLY <1>2, <5>2, Zenon
      <4>8. start[k + 1] <= Len(stream')
        <5>1. start[k + 1] = start[k] + 4 + Len(sent[k]) /\ Len(stream') = Len(stream) + 4 + Len(m)
          BY <1>2, <4>1
        <5>2. \A a, b, c, d \in Nat : a + 4 + b <= c => a + 4 + b <= c + 4 + d
          OBVIOUS
        <5>3. start[k] + 4 + Len(sent[k]) <= Len(stream) + 4 + Len(m)
          BY ONLY <1>2, <1>3, <4>4, <4>5, <5>2, Zenon
        <5> QED BY ONLY <5>1, <5>3, Zenon
      <4>9. \A j \in 1 .. 4 : stream'[start'[k] + j] = Digits(Len(sent'[k]))[j]
        BY ONLY <4>1, <4>3, <4>6, Zenon
      <4>10. \A j \in 1 .. Len(sent'[k]) : stream'[start'[k] + 4 + j] = sent'[k][j]
        BY ONLY <4>1, <4>3, <4>7, Zenon
      <4>11. start'[k + 1] = start'[k] + 4 + Len(sent'[k]) /\ start'[k + 1] <= Len(stream')
        BY ONLY <4>1, <4>3, <4>8, Zenon
      <4> QED BY <4>9, <4>10, <4>11
    <3>2. CASE k = Len(sent) + 1
      <4>1. /\ start'[k] = Len(stream) /\ start'[k + 1] = Len(stream) + 4 + Len(m)
            /\ sent'[k] = m
        <5>1. k + 1 = Len(sent) + 2 /\ k \in 1 .. (Len(sent) + 1)
          BY <1>3, <3>2
        <5> QED BY <1>2, <2>3, <2>4, <3>2, <5>1
      <4>2. Len(stream) + 4 + Len(m) <= Len(stream')
        BY <1>2, <1>3
      <4> QED BY ONLY <1>2, <2>2, <4>1, <4>2, Zenon
    <3>3. k \in 1 .. Len(sent) \/ k = Len(sent) + 1
      <4>1. Len(sent') = Len(sent) + 1 /\ Len(sent) \in Nat
        BY ONLY <1>2, <1>3, Zenon
      <4> QED BY ONLY <4>1, k \in 1 .. Len(sent')
    <3> QED BY <3>1, <3>2, <3>3, Zenon
  <2>6. Frames'
    <3>1. Len(start') = Len(sent') + 1 /\ start'[Len(sent') + 1] = Len(stream')
      <4>1. Len(sent') + 1 = Len(sent) + 2
        BY <1>2, <1>3
      <4> QED BY <1>2, <2>4, <4>1
    <3> QED BY <2>4, <2>5, <3>1 DEF Frames, Digits
  <2>7. InOrder'
    <3>1. Len(parsed) <= Len(sent) /\ \A k \in 1 .. Len(parsed) : parsed[k] = sent[k]
      BY <2>1 DEF InOrder
    <3>2. ASSUME NEW k \in 1 .. Len(parsed) PROVE parsed[k] = sent'[k]
      <4>1. k \in 1 .. Len(sent)
        BY <1>3, <3>1
      <4> QED BY <1>2, <3>1, <4>1
    <3>3. Len(parsed) <= Len(sent')
      BY <1>2, <1>3, <3>1
    <3> QED BY <1>4, <3>2, <3>3 DEF InOrder
  <2>8. ASSUME NEW o \in Nat, HoldsFrom(o)
        PROVE  /\ pos' = o + Len(Put')
               /\ \A j \in 1 .. Len(Put') : Put'[j] = stream'[o + j]
    <3>1. pos = o + Len(Put) /\ \A j \in 1 .. Len(Put) : Put[j] = stream[o + j]
      BY <2>8 DEF HoldsFrom
    <3>2. ASSUME NEW j \in 1 .. Len(Put) PROVE Put[j] = stream'[o + j]
      <4>1. o + j \in 1 .. Len(stream)
        <5>1. pos = o + Len(Put)
          BY <3>1
        <5> QED BY ONLY <1>3, <5>1, o \in Nat, j \in 1 .. Len(Put)
      <4> QED BY <1>2, <3>1, <4>1
    <3> QED BY <1>2, <1>4, <3>1, <3>2
  <2>9. start'[Here'] = start[Here] /\ start[Here] + 4 \in Nat
    BY <1>4, <2>1, <2>4
  <2>10. CASE reading_length
    <3>1. HoldsFrom(start[Here])
      BY <2>1, <2>10 DEF Position
    <3>2. HoldsFrom(start[Here])'
      BY <2>1, <2>8, <2>9, <3>1 DEF HoldsFrom
    <3>3. Position'
      BY <1>2, <2>10, <3>2 DEF Position
    <3> QED BY <1>2, <2>1, <2>6, <2>7, <3>3
  <2>11. CASE ~reading_length
    <3>1. Here <= Len(sent) /\ Limit = Len(sent[Here]) /\ HoldsFrom(start[Here] + 4)
      BY <2>1, <2>11 DEF Position
    <3>2. HoldsFrom(start[Here] + 4)'
      <4>1. /\ pos' = (start[Here] + 4) + Len(Put')
            /\ \A j \in 1 .. Len(Put') : Put'[j] = stream'[(start[Here] + 4) + j]
        BY <2>8, <2>9, <3>1
      <4> QED BY <2>9, <4>1 DEF HoldsFrom
    <3>3. Here <= Len(sent') /\ sent'[Here] = sent[Here]
      <4>1. Here \in 1 .. Len(sent)
        BY <1>3, <2>1, <3>1
      <4> QED BY <1>2, <1>3, <4>1
    <3>4. Position'
      BY <1>2, <1>4, <2>11, <3>1, <3>2, <3>3 DEF Position
    <3> QED BY <1>2, <2>1, <2>6, <2>7, <3>4
  <2> QED BY <2>10, <2>11
<1> QED BY <1>2, <1>5, <1>6, <1>7 DEF Inv, Ours

--------------------------------------------------------------------------------
(* The parser follows the frames *)

\* Bytes that have arrived and are not consumed belong to a message that was
\* sent: the parser stands in its frame.
LEMMA InAFrame ==
    ASSUME Typed, Ours, ~foreign, pos < arrived
    PROVE  Here \in 1 .. Len(sent)
<1>1. /\ Frames /\ Position /\ Here \in 1 .. (Len(sent) + 1)
  BY OursFacts
<1>2. /\ Len(sent) \in Nat /\ Len(stream) \in Nat /\ Len(Put) \in Nat
      /\ pos \in Nat /\ arrived \in Nat /\ arrived <= Len(stream)
  BY TypedFacts
<1>3. ASSUME Here = Len(sent) + 1 PROVE FALSE
  <2>1. start[Here] = Len(stream)
    BY <1>1, <1>3 DEF Frames
  <2>2. pos = start[Here] + Len(Put) \/ Here <= Len(sent)
    BY <1>1 DEF Position, HoldsFrom
  <2>3. pos = Len(stream) + Len(Put) \/ Here <= Len(sent)
    BY <2>1, <2>2
  <2> QED BY ONLY <1>2, <1>3, <2>3, pos < arrived
<1> QED BY <1>1, <1>2, <1>3

\* The bytes copied continue what the buffer holds.
LEMMA FilledHoldsMore ==
    ASSUME Typed, NEW t, Copies(t), NEW o \in Nat, HoldsFrom(o)
    PROVE  /\ pos' = o + Len(Filled.put)
           /\ \A j \in 1 .. Len(Filled.put) : Filled.put[j] = stream[o + j]
<1>1. /\ t \in Nat /\ More(t) \in Seq(Byte) /\ Len(More(t)) = t
      /\ \A j \in 1 .. t : More(t)[j] = stream[pos + j]
      /\ Filled.put = Put \o More(t) /\ Len(Filled.put) = Len(Put) + t
      /\ pos' = pos + t
  BY DEF Copies
<1>2. Put \in Seq(Byte) /\ Len(Put) \in Nat /\ pos \in Nat
  BY TypedFacts
<1>3. pos = o + Len(Put) /\ \A j \in 1 .. Len(Put) : Put[j] = stream[o + j]
  BY DEF HoldsFrom
<1>4. pos' = o + Len(Filled.put)
  BY ONLY <1>1, <1>2, <1>3, o \in Nat
<1>5. /\ \A i \in 1 .. Len(Put) : (Put \o More(t))[i] = Put[i]
      /\ \A i \in 1 .. Len(More(t)) : (Put \o More(t))[Len(Put) + i] = More(t)[i]
  BY ONLY <1>1, <1>2, ConcatAt
<1>6. ASSUME NEW j \in 1 .. Len(Filled.put) PROVE Filled.put[j] = stream[o + j]
  <2>1. CASE j \in 1 .. Len(Put)
    BY <1>1, <1>3, <1>5, <2>1
  <2>2. CASE j \notin 1 .. Len(Put)
    <3> DEFINE i == j - Len(Put)
    <3>1. /\ i \in 1 .. t /\ Len(Put) + i = j /\ pos + i = o + j
      <4>1. j \in 1 .. (Len(Put) + t) /\ pos = o + Len(Put)
        BY <1>1, <1>3
      <4> QED BY ONLY <1>1, <1>2, <2>2, <4>1, o \in Nat
    <3> HIDE DEF i
    <3>2. (Put \o More(t))[Len(Put) + i] = More(t)[i] /\ More(t)[i] = stream[pos + i]
      BY <1>1, <1>5, <3>1
    <3> QED BY ONLY <1>1, <3>1, <3>2, Zenon
  <2> QED BY <2>1, <2>2
<1> QED BY <1>4, <1>6

\* A packet that equals the message sent keeps the order.
LEMMA OneMoreParsed ==
    ASSUME Typed, InOrder, Here \in 1 .. Len(sent), sent' = sent, received' = received,
           packets' = Append(packets, sent[Here])
    PROVE  InOrder' /\ Here' = Here + 1
<1>1. sent[Here] \in Seq(Byte) /\ Len(parsed) \in Nat /\ Len(sent) \in Nat
      /\ parsed \in Seq(Seq(Byte))
  BY TypedFacts
<1>2. parsed' = Append(parsed, sent[Here])
  BY <1>1, JoinedGrows
<1>3. /\ Len(parsed') = Len(parsed) + 1
      /\ \A j \in 1 .. Len(parsed) : parsed'[j] = parsed[j]
      /\ parsed'[Len(parsed) + 1] = sent[Here]
  BY <1>1, <1>2, AppendProperties
<1>4. Here' = Here + 1
  BY <1>3 DEF Here
<1>5. ASSUME NEW k \in 1 .. Len(parsed') PROVE parsed'[k] = sent'[k]
  <2>1. CASE k \in 1 .. Len(parsed)
    BY <1>3, <2>1 DEF InOrder
  <2>2. CASE k = Len(parsed) + 1
    BY <1>3, <2>2 DEF Here
  <2> QED BY <1>1, <1>3, <2>1, <2>2
<1>6. Len(parsed') <= Len(sent')
  BY <1>1, <1>3 DEF Here
<1> QED BY <1>4, <1>5, <1>6 DEF InOrder

\* What an iteration leaves alone.
LEMMA FramesKept ==
    ASSUME Frames, UNCHANGED <<sent, stream, start>>
    PROVE  Frames'
  BY DEF Frames, Digits

\* An iteration in the middle of a length keeps to the frames: the length it
\* completes is that of the message sent, so parseData does not throw.
LEMMA LengthKeepsOurs ==
    ASSUME Typed, Ours, ~foreign, parseData, reading_length
    PROVE  ~thrown' /\ Frames' /\ InOrder' /\ Position'
<1> DEFINE o == start[Here]
           n == Len(sent[Here])
<1>1. /\ ~thrown /\ pos < arrived
      /\ UNCHANGED <<sent, stream, start, arrived, foreign, received>>
      /\ Waits \/ EmptyMessage \/ BodyFollows \/ Throws \/ BodyComplete
  BY Iteration
<1>2. PICK t : Copies(t)
  BY Iteration
<1>3. /\ Frames /\ InOrder /\ Position /\ o \in Nat
  BY OursFacts
<1>4. Here \in 1 .. Len(sent)
  BY <1>1, InAFrame
<1>5. /\ n \in Nat /\ n < Int32Limit /\ sent[Here] \in Seq(Byte) /\ Len(sent) \in Nat
  BY <1>4, TypedFacts
<1>6. HoldsFrom(o)
  BY <1>3 DEF Position
<1> HIDE DEF o
<1>7. /\ pos' = o + Len(Filled.put)
      /\ \A j \in 1 .. Len(Filled.put) : Filled.put[j] = stream[o + j]
  BY <1>2, <1>3, <1>6, FilledHoldsMore
<1>8. Frames'
  BY <1>1, <1>3, FramesKept
<1>9. /\ start[Here + 1] = o + 4 + n
      /\ \A j \in 1 .. 4 : stream[o + j] = Digits(n)[j]
  BY <1>3, <1>4 DEF Frames, o
<1>10. Filled.put \in Seq(Byte) /\ Filled.limit = Limit
  BY <1>2 DEF Copies
<1>11. Len(Filled.put) = 4 => getInt(Filled.put) = n
  <2> SUFFICES ASSUME Len(Filled.put) = 4 PROVE getInt(Filled.put) = n
    OBVIOUS
  <2>1. \A j \in 1 .. 4 : Filled.put[j] = Digits(n)[j]
    BY <1>7, <1>9
  <2>2. /\ Filled.put[1] = Digits(n)[1] /\ Filled.put[2] = Digits(n)[2]
        /\ Filled.put[3] = Digits(n)[3] /\ Filled.put[4] = Digits(n)[4]
    BY <2>1
  <2>3. getInt(Filled.put) = getInt(Digits(n))
    BY ONLY <2>2, Zenon DEF getInt
  <2> QED BY <1>5, <2>3, LengthRoundTrip
<1>13. CASE Waits
  <2>1. /\ Put' = Filled.put /\ reading_length' = reading_length /\ packets' = packets
        /\ thrown' = FALSE
    BY <1>13 DEF Waits, Put
  <2>2. parsed' = parsed /\ Here' = Here
    BY <1>1, <2>1 DEF parsed, Here
  <2>3. InOrder'
    BY <1>1, <1>3, <2>2 DEF InOrder
  <2>4. HoldsFrom(start[Here])'
    BY <1>1, <1>7, <2>1, <2>2 DEF HoldsFrom, o
  <2>5. Position'
    BY <2>1, <2>4 DEF Position
  <2> QED BY <1>8, <2>1, <2>3, <2>5
<1>14. CASE EmptyMessage
  <2>1. /\ packets' = Append(packets, <<>>) /\ Len(Filled.put) = 4
        /\ getInt(Filled.put) = 0 /\ Put' = <<>>
        /\ reading_length' = TRUE /\ thrown' = FALSE
    BY <1>14 DEF EmptyMessage, allocate, Put
  <2>2. n = 0
    BY <1>11, <2>1
  <2>3. sent[Here] = <<>>
    BY <1>5, <2>2, EmptySeq
  <2>4. InOrder' /\ Here' = Here + 1
    BY <1>1, <1>3, <1>4, <2>1, <2>3, OneMoreParsed
  <2>5. start'[Here'] = o + 4
    BY <1>1, <1>3, <1>9, <2>2, <2>4
  <2>6. HoldsFrom(start[Here])'
    <3>1. pos' = o + 4
      BY <1>7, <2>1
    <3>2. Len(Put') = 0 /\ o + 4 + 0 = o + 4
      BY <1>3, <2>1
    <3>3. pos' = start'[Here'] + Len(Put')
      BY ONLY <2>5, <3>1, <3>2, Zenon
    <3> QED BY <3>2, <3>3 DEF HoldsFrom
  <2>7. Position'
    BY <2>1, <2>6 DEF Position
  <2> QED BY <1>8, <2>1, <2>4, <2>7
<1>15. CASE BodyFollows
  <2>1. /\ packets' = packets /\ Len(Filled.put) = 4
        /\ Put' = <<>> /\ Limit' = getInt(Filled.put)
        /\ reading_length' = FALSE /\ thrown' = FALSE
    BY <1>15 DEF BodyFollows, allocate, Put, Limit
  <2>2. Limit' = n
    BY <1>11, <2>1
  <2>3. parsed' = parsed /\ Here' = Here
    BY <1>1, <2>1 DEF parsed, Here
  <2>4. InOrder'
    BY <1>1, <1>3, <2>3 DEF InOrder
  <2>5. HoldsFrom(start[Here] + 4)'
    <3>1. pos' = o + 4 /\ start'[Here'] = o
      BY <1>1, <1>7, <2>1, <2>3 DEF o
    <3>2. Len(Put') = 0 /\ o + 4 + 0 = o + 4
      BY <1>3, <2>1
    <3>3. pos' = start'[Here'] + 4 + Len(Put')
      BY ONLY <3>1, <3>2, Zenon
    <3> QED BY <3>2, <3>3 DEF HoldsFrom
  <2>6. Here' <= Len(sent') /\ Limit' = Len(sent'[Here'])
    BY <1>1, <1>4, <1>5, <2>2, <2>3
  <2>7. Position'
    BY <2>1, <2>5, <2>6 DEF Position
  <2> QED BY <1>8, <2>1, <2>4, <2>7
<1>16. CASE Throws
  BY <1>5, <1>11, <1>16 DEF Throws
<1>17. CASE BodyComplete
  BY <1>17 DEF BodyComplete
<1> QED BY <1>1, <1>13, <1>14, <1>15, <1>16, <1>17

\* An iteration in the middle of a body keeps to the frames: the packet it
\* completes is the message sent.
LEMMA BodyKeepsOurs ==
    ASSUME Typed, Ours, ~foreign, parseData, ~reading_length
    PROVE  ~thrown' /\ Frames' /\ InOrder' /\ Position'
<1> DEFINE o == start[Here] + 4
           n == Len(sent[Here])
<1>1. /\ ~thrown /\ pos < arrived
      /\ UNCHANGED <<sent, stream, start, arrived, foreign, received>>
      /\ Waits \/ EmptyMessage \/ BodyFollows \/ Throws \/ BodyComplete
  BY Iteration
<1>2. PICK t : Copies(t)
  BY Iteration
<1>3. /\ Frames /\ InOrder /\ Position /\ o \in Nat /\ start[Here] \in Nat
  BY OursFacts
<1>4. Here \in 1 .. Len(sent)
  BY <1>1, InAFrame
<1>5. /\ n \in Nat /\ sent[Here] \in Seq(Byte) /\ Len(sent) \in Nat
  BY <1>4, TypedFacts
<1>6. HoldsFrom(o) /\ Limit = n
  BY <1>3 DEF Position
<1> HIDE DEF o
<1>7. /\ pos' = o + Len(Filled.put)
      /\ \A j \in 1 .. Len(Filled.put) : Filled.put[j] = stream[o + j]
  BY <1>2, <1>3, <1>6, FilledHoldsMore
<1>8. Frames'
  BY <1>1, <1>3, FramesKept
<1>9. /\ start[Here + 1] = o + n
      /\ \A j \in 1 .. n : stream[o + j] = sent[Here][j]
  BY <1>3, <1>4 DEF Frames, o
<1>10. Filled.put \in Seq(Byte) /\ Filled.limit = Limit
  BY <1>2 DEF Copies
<1>11. CASE Waits
  <2>1. /\ Put' = Filled.put /\ Limit' = Limit /\ reading_length' = reading_length
        /\ packets' = packets /\ thrown' = FALSE
    BY <1>10, <1>11 DEF Waits, Put, Limit
  <2>2. parsed' = parsed /\ Here' = Here
    BY <1>1, <2>1 DEF parsed, Here
  <2>3. InOrder'
    BY <1>1, <1>3, <2>2 DEF InOrder
  <2>4. HoldsFrom(start[Here] + 4)'
    BY <1>1, <1>7, <2>1, <2>2 DEF HoldsFrom, o
  <2>5. Here' <= Len(sent') /\ Limit' = Len(sent'[Here'])
    BY <1>1, <1>4, <1>5, <1>6, <2>1, <2>2
  <2>6. Position'
    BY <2>1, <2>4, <2>5 DEF Position
  <2> QED BY <1>8, <2>1, <2>3, <2>6
<1>12. CASE BodyComplete
  <2>1. /\ packets' = Append(packets, Filled.put) /\ Len(Filled.put) = Limit
        /\ Put' = <<>> /\ reading_length' = TRUE /\ thrown' = FALSE
    BY <1>12 DEF BodyComplete, allocate, Put
  <2>2. Filled.put = sent[Here]
    <3>1. Len(Filled.put) = Len(sent[Here])
      BY <1>6, <2>1
    <3>2. \A j \in 1 .. Len(Filled.put) : Filled.put[j] = sent[Here][j]
      BY <1>6, <1>7, <1>9, <2>1
    <3> QED BY ONLY <1>5, <1>10, <3>1, <3>2, SeqEqual
  <2>3. InOrder' /\ Here' = Here + 1
    BY <1>1, <1>3, <1>4, <2>1, <2>2, OneMoreParsed
  <2>4. start'[Here'] = o + n
    BY <1>1, <1>9, <2>3
  <2>5. HoldsFrom(start[Here])'
    <3>1. pos' = o + n
      BY <1>6, <1>7, <2>1
    <3>2. Len(Put') = 0 /\ o + n + 0 = o + n
      BY <1>3, <1>5, <2>1
    <3>3. pos' = start'[Here'] + Len(Put')
      BY ONLY <2>4, <3>1, <3>2, Zenon
    <3> QED BY <3>2, <3>3 DEF HoldsFrom
  <2>6. Position'
    BY <2>1, <2>5 DEF Position
  <2> QED BY <1>8, <2>1, <2>3, <2>6
<1>13. CASE EmptyMessage \/ BodyFollows \/ Throws
  BY <1>13 DEF EmptyMessage, BodyFollows, Throws
<1> QED BY <1>1, <1>11, <1>12, <1>13

--------------------------------------------------------------------------------
(* The theorems *)

\* Taking a packet moves it from the queue to the packets received and leaves
\* the parsed ones as they were; it is the oldest one not received.
LEMMA NextPacketKeepsParsed ==
    ASSUME Typed, nextPacket
    PROVE  /\ parsed' = parsed
           /\ received' \in Seq(Seq(Byte)) /\ packets' \in Seq(Seq(Byte))
           /\ Len(received) \in Nat
           /\ Len(received) + 1 \in 1 .. Len(parsed)
           /\ Head(packets) = parsed[Len(received) + 1]
<1> DEFINE h == Head(packets)
<1>1. /\ packets \in Seq(Seq(Byte)) /\ received \in Seq(Seq(Byte))
  BY TypedFacts
<1>2. /\ packets # <<>>
      /\ received' = Append(received, h) /\ packets' = Tail(packets)
  BY DEF nextPacket
<1>3. /\ h \in Seq(Byte) /\ Tail(packets) \in Seq(Seq(Byte))
      /\ h = packets[1]
  BY <1>1, <1>2, HeadTailProperties
<1>4. /\ Append(received, h) = received \o <<h>>
      /\ <<h>> \in Seq(Seq(Byte))
  BY <1>1, <1>3, AppendIsConcat
<1>5. Len(packets) \in Nat \ {0} /\ Len(received) \in Nat
  BY <1>1, <1>2, EmptySeq, LenProperties
<1>6. <<h>> \o Tail(packets) = packets
  <2>1. SubSeq(packets, 1, Len(packets)) = <<packets[1]>> \o SubSeq(packets, 1 + 1, Len(packets))
    <3>1. 1 \in 1 .. Len(packets) /\ Len(packets) \in 1 .. Len(packets)
      BY <1>5
    <3> QED BY ONLY <1>1, <3>1, SubSeqRecursiveFirst
  <2> QED BY <1>1, <1>2, <1>3, <2>1, SubSeqFull, TailIsSubSeq
<1>7. (received \o <<h>>) \o Tail(packets) = received \o (<<h>> \o Tail(packets))
  BY ONLY <1>1, <1>3, <1>4, ConcatAssociative
<1>8. parsed' = parsed
  BY <1>2, <1>4, <1>6, <1>7 DEF parsed
<1>9. received' \in Seq(Seq(Byte)) /\ packets' \in Seq(Seq(Byte))
  BY <1>1, <1>2, <1>3, AppendProperties
<1>10. /\ Len(parsed) = Len(received) + Len(packets)
       /\ \A i \in 1 .. Len(packets) : parsed[Len(received) + i] = packets[i]
  BY <1>1, ConcatAt DEF parsed
<1>11. Len(received) + 1 \in 1 .. (Len(received) + Len(packets)) /\ 1 \in 1 .. Len(packets)
  BY <1>5
<1>12. parsed[Len(received) + 1] = h
  BY <1>3, <1>10, <1>11
<1> QED BY <1>5, <1>8, <1>9, <1>10, <1>11, <1>12

\* The parser starts within the invariant.
LEMMA InitInv == Init => Inv
<1> SUFFICES ASSUME Init PROVE Inv
  OBVIOUS
<1>1. /\ sent = <<>> /\ stream = <<>> /\ start = <<0>> /\ arrived = 0 /\ pos = 0
      /\ foreign \in BOOLEAN /\ reading_length = TRUE
      /\ message_buffer = [put |-> <<>>, limit |-> 4]
      /\ packets = <<>> /\ thrown = FALSE /\ received = <<>>
  BY DEF Init, FramingInit, allocate
<1>2. Put = <<>> /\ Limit = 4
  BY <1>1 DEF Put, Limit
<1>3. parsed = <<>> /\ Here = 1
  <2>1. <<>> \in Seq(Seq(Byte)) /\ <<>> \o <<>> = <<>>
    OBVIOUS
  <2> QED BY <1>1, <2>1 DEF parsed, Here
<1>4. Typed
  <2>1. <<>> \in Seq(Byte) /\ Len(<<>>) = 0
    OBVIOUS
  <2>2. message_buffer \in [put : Seq(Byte), limit : Nat] /\ Len(message_buffer.put) <= message_buffer.limit
    BY <1>1, <2>1
  <2>3. TypeOK
    <3>1. sent \in Seq(Message) /\ stream \in Seq(Byte) /\ packets \in Seq(Seq(Byte))
          /\ received \in Seq(Seq(Byte)) /\ Len(stream) = 0
      BY <1>1
    <3>2. arrived \in 0 .. Len(stream) /\ pos \in 0 .. arrived
      BY <1>1, <3>1
    <3>3. reading_length \in BOOLEAN /\ thrown \in BOOLEAN /\ foreign \in BOOLEAN
      BY <1>1, Zenon
    <3> QED BY <2>2, <3>1, <3>2, <3>3, Zenon DEF TypeOK
  <2> QED BY <1>1, <1>2, <2>1, <2>3 DEF Typed
<1>5. Lossless
  <2>1. Framed(parsed) = <<>>
    BY <1>3 DEF Framed
  <2>2. Joined = <<>>
    BY <2>1 DEF Joined, FlattenSeq
  <2>3. Pending = <<>>
    BY <1>1, <1>2 DEF Pending
  <2>4. SubSeq(stream, 1, pos) = <<>>
    BY <1>1
  <2>5. <<>> \o <<>> = <<>>
    OBVIOUS
  <2> QED BY <2>2, <2>3, <2>4, <2>5, LosslessMeans
<1>6. Ours
  <2>1. Frames
    BY <1>1 DEF Frames
  <2>2. InOrder
    BY <1>1, <1>3 DEF InOrder
  <2>3. Position
    BY <1>1, <1>2, <1>3 DEF Position, HoldsFrom
  <2> QED BY <1>1, <2>1, <2>2, <2>3 DEF Ours
<1> QED BY <1>4, <1>5, <1>6 DEF Inv

\* A step that changes neither the packets cut out nor the buffer keeps the
\* invariant: more bytes may arrive, and a packet may be taken.
LEMMA ParserRests ==
    ASSUME Inv, parsed' = parsed,
           UNCHANGED <<sent, stream, start, foreign, pos, reading_length, message_buffer, thrown>>,
           arrived' \in arrived .. Len(stream),
           packets' \in Seq(Seq(Byte)), received' \in Seq(Seq(Byte))
    PROVE  Inv'
<1>1. Typed /\ Lossless /\ Ours
  BY DEF Inv
<1>2. Put' = Put /\ Limit' = Limit /\ Here' = Here
  BY DEF Put, Limit, Here
<1>3. Typed'
  <2>1. /\ arrived \in Nat /\ pos \in Nat /\ pos <= arrived /\ Len(stream) \in Nat
    BY <1>1, TypedFacts
  <2>2. arrived' \in 0 .. Len(stream) /\ pos \in 0 .. arrived'
    BY <2>1
  <2>3. TypeOK
    BY <1>1 DEF Typed
  <2>4. TypeOK'
    BY <2>2, <2>3 DEF TypeOK
  <2> QED BY <1>1, <1>2, <2>4 DEF Typed
<1>4. Lossless'
  BY <1>1 DEF Lossless, Digits
<1>5. Ours'
  BY <1>1, <1>2 DEF Ours, Frames, InOrder, Position, HoldsFrom, Digits
<1> QED BY <1>3, <1>4, <1>5 DEF Inv

\* Every step keeps the invariant.
LEMMA NextInv ==
    ASSUME Inv, [Next]_vars
    PROVE  Inv'
<1>1. Typed /\ Lossless /\ Ours
  BY DEF Inv
<1>2. /\ arrived \in Nat /\ Len(stream) \in Nat /\ arrived <= Len(stream)
      /\ packets \in Seq(Seq(Byte)) /\ received \in Seq(Seq(Byte))
  BY <1>1, TypedFacts
<1>3. ASSUME NEW m \in Message, Send(m) PROVE Inv'
  BY <1>3, SendKeepsInv
<1>4. CASE Read
  <2>1. /\ arrived' \in (arrived + 1) .. Len(stream)
        /\ UNCHANGED <<sent, stream, start, foreign, pos, reading_length, message_buffer,
                       packets, thrown, received>>
    BY <1>4 DEF Read, Arrive, parserVars
  <2>2. parsed' = parsed
    BY <2>1 DEF parsed
  <2>3. arrived' \in arrived .. Len(stream)
    BY <1>2, <2>1
  <2> QED BY <1>2, <2>1, <2>2, <2>3, ParserRests
<1>5. CASE parseData
  <2>1. Typed' /\ Lossless'
    BY <1>1, <1>5, IterationKeepsTyped, IterationKeepsLossless
  <2>2. foreign' = foreign
    BY <1>1, <1>5, Iteration
  <2>3. ASSUME ~foreign PROVE ~thrown' /\ Frames' /\ InOrder' /\ Position'
    BY <1>1, <1>5, <2>3, LengthKeepsOurs, BodyKeepsOurs
  <2> QED BY <2>1, <2>2, <2>3 DEF Inv, Ours
<1>6. CASE nextPacket
  <2>1. UNCHANGED <<sent, stream, start, arrived, foreign, pos, reading_length,
                    message_buffer, thrown>>
    BY <1>6 DEF nextPacket, framingVars
  <2>2. /\ parsed' = parsed
        /\ received' \in Seq(Seq(Byte)) /\ packets' \in Seq(Seq(Byte))
    BY <1>1, <1>6, NextPacketKeepsParsed
  <2>3. arrived' \in arrived .. Len(stream)
    BY <1>2, <2>1
  <2> QED BY <2>1, <2>2, <2>3, ParserRests
<1>7. CASE UNCHANGED vars
  <2>1. UNCHANGED <<sent, stream, start, arrived, foreign, pos, reading_length,
                    message_buffer, packets, thrown, received>>
    BY <1>7 DEF vars, framingVars, parserVars
  <2>2. parsed' = parsed
    BY <2>1 DEF parsed
  <2>3. arrived' \in arrived .. Len(stream)
    BY <1>2, <2>1
  <2> QED BY <1>2, <2>1, <2>2, <2>3, ParserRests
<1> QED BY <1>3, <1>4, <1>5, <1>6, <1>7 DEF Next

\* The invariant holds always.
LEMMA Invariance == Spec => []Inv
<1>1. Init => Inv
  BY InitInv
<1>2. Inv /\ [Next]_vars => Inv'
  BY NextInv
<1> QED BY <1>1, <1>2, PTL DEF Spec

\* parseData reads inside the bytes it was given and never puts more into its
\* buffer than was allocated, whatever the lengths on the wire say.
THEOREM TypeCorrect == Spec => []TypeOK
<1>1. Inv => TypeOK
  BY DEF Inv, Typed
<1> QED BY <1>1, Invariance, PTL

\* For every peer, also one that writes lengths in the other byte order, the
\* packets put back into frames and the bytes in message_buffer are the bytes
\* consumed: parseData loses, repeats and moves none.
THEOREM NoByteIsLost == Spec => []Lossless
<1>1. Inv => Lossless
  BY DEF Inv
<1> QED BY <1>1, Invariance, PTL

\* A parser that has consumed every byte stands at the end of the last frame.
LEMMA InvHoldsNothingBack == Inv => NothingHeldBack
<1> SUFFICES ASSUME Inv, ~foreign PROVE ~thrown /\ (pos = Len(stream) => parsed = sent)
  BY DEF NothingHeldBack
<1>1. Typed /\ Ours
  BY DEF Inv
<1>2. /\ Frames /\ InOrder /\ Position /\ ~thrown
      /\ Here \in 1 .. (Len(sent) + 1) /\ start[Here] \in Nat
  BY <1>1, OursFacts
<1>3. /\ Len(sent) \in Nat /\ Len(parsed) \in Nat /\ Len(Put) \in Nat /\ Len(stream) \in Nat
      /\ parsed \in Seq(Seq(Byte)) /\ sent \in Seq(Message)
  BY <1>1, TypedFacts
<1>4. SUFFICES ASSUME pos = Len(stream) PROVE parsed = sent
  BY <1>2
<1>5. ASSUME Here \in 1 .. Len(sent) PROVE FALSE
  <2>1. start[Here] + 4 + Len(sent[Here]) <= Len(stream)
    BY <1>2, <1>5 DEF Frames
  <2>2. Len(sent[Here]) \in Nat
    BY <1>1, <1>5, TypedFacts
  <2>3. CASE reading_length
    <3>1. Len(Put) < 4 /\ pos = start[Here] + Len(Put)
      BY <1>1, <1>2, <2>3 DEF Typed, Position, HoldsFrom
    <3>2. \A a, b, c, d \in Nat : a + 4 + b <= c /\ d < 4 /\ c = a + d => FALSE
      OBVIOUS
    <3> QED BY ONLY <1>2, <1>3, <1>4, <2>1, <2>2, <3>1, <3>2, Zenon
  <2>4. CASE ~reading_length
    <3>1. Len(Put) < Len(sent[Here]) /\ pos = start[Here] + 4 + Len(Put)
      BY <1>1, <1>2, <2>4 DEF Typed, Position, HoldsFrom
    <3>2. \A a, b, c, d \in Nat : a + 4 + b <= c /\ d < b /\ c = a + 4 + d => FALSE
      OBVIOUS
    <3> QED BY ONLY <1>2, <1>3, <1>4, <2>1, <2>2, <3>1, <3>2, Zenon
  <2> QED BY <2>3, <2>4
<1>6. Len(parsed) = Len(sent)
  BY <1>2, <1>3, <1>5 DEF Here
<1>7. \A k \in 1 .. Len(parsed) : parsed[k] = sent[k]
  BY <1>2 DEF InOrder
<1>8. sent \in Seq(Seq(Byte))
  BY <1>3, MessageAssumption
<1> QED BY ONLY <1>3, <1>6, <1>7, <1>8, SeqEqual

\* parseData never throws on what the daemons write, and a message whose last
\* byte was consumed has been cut out, for every split of the stream into reads.
THEOREM NothingIsHeldBack == Spec => []NothingHeldBack
  BY InvHoldsNothingBack, Invariance, PTL

\* The distributor's parser behind any splitting of the byte stream implements
\* a channel that delivers every message of a daemon once, whole and in order.
THEOREM Refinement == Spec => ImplementsStream
<1> DEFINE s == IF foreign THEN <<>> ELSE sent
           r == IF foreign THEN <<>> ELSE received
<1>1. Init => Protocol!Init
  BY DEF Init, FramingInit, Protocol!Init
<1>2. Inv /\ [Next]_vars => [Protocol!Next]_<<s, r>>
  <2> SUFFICES ASSUME Inv, [Next]_vars
               PROVE  Protocol!Next \/ UNCHANGED <<s, r>>
    OBVIOUS
  <2>1. Typed /\ Ours
    BY DEF Inv
  <2>2. foreign' = foreign
    BY DEF Next, Send, Read, parseData, ReadLength, ReadBody, nextPacket, vars
  <2>3. CASE foreign
    BY <2>2, <2>3
  <2>4. CASE ~foreign
    <3>1. s = sent /\ s' = sent' /\ r = received /\ r' = received'
      BY <2>2, <2>4
    <3>2. ASSUME NEW m \in Message, Send(m) PROVE Protocol!Next
      <4>1. sent' = Append(sent, m) /\ received' = received
        BY <3>2 DEF Send, send_data
      <4> QED BY <2>2, <2>4, <4>1 DEF Protocol!Next, Protocol!Send
    <3>3. CASE Read \/ parseData \/ UNCHANGED vars
      <4>1. UNCHANGED <<sent, received>>
        BY <3>3 DEF Read, Arrive, parseData, ReadLength, ReadBody, framingVars, vars
      <4> QED BY <3>1, <4>1
    <3>4. CASE nextPacket
      <4>1. /\ Len(received) \in Nat
            /\ Len(received) + 1 \in 1 .. Len(parsed)
            /\ Head(packets) = parsed[Len(received) + 1]
        BY <2>1, <3>4, NextPacketKeepsParsed
      <4>2. /\ Len(parsed) <= Len(sent) /\ Len(parsed) \in Nat /\ Len(sent) \in Nat
            /\ \A k \in 1 .. Len(parsed) : parsed[k] = sent[k]
        BY <2>1, <2>4, TypedFacts, OursFacts DEF InOrder
      <4>3. Head(packets) = sent[Len(received) + 1]
        BY <4>1, <4>2
      <4>4. Len(received) < Len(sent)
        BY <4>1, <4>2
      <4>5. received' = Append(received, Head(packets)) /\ sent' = sent
        BY <3>4 DEF nextPacket, framingVars
      <4> QED BY <2>2, <2>4, <4>3, <4>4, <4>5 DEF Protocol!Next, Protocol!Receive
    <3> QED BY <3>2, <3>3, <3>4 DEF Next
  <2> QED BY <2>3, <2>4
<1> QED BY <1>1, <1>2, Invariance, PTL DEF Spec, ImplementsStream, Protocol!Spec
================================================================================
