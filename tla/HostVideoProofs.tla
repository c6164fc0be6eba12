---------------------------- MODULE HostVideoProofs ----------------------------
(***************************************************************************)
(* Proofs about HostVideo, for any number of threads, openings and bounds. *)
(***************************************************************************)
EXTENDS HostVideo, Integers, SequenceTheorems, WellFoundedInduction, NaturalsInduction, TLAPS

--------------------------------------------------------------------------------
(* Sequences one after the other *)

\* What is at each place of two sequences one after the other.
LEMMA ConcatAt ==
    ASSUME NEW T, NEW r \in Seq(T), NEW s \in Seq(T)
    PROVE  /\ r \o s \in Seq(T)
           /\ Len(r) \in Nat /\ Len(s) \in Nat
           /\ Len(r \o s) = Len(r) + Len(s)
           /\ \A i \in 1 .. Len(r) : (r \o s)[i] = r[i]
           /\ \A i \in 1 .. Len(s) : (r \o s)[Len(r) + i] = s[i]
<1>1. Len(r) \in Nat /\ Len(s) \in Nat
  BY LenProperties
<1>2. /\ r \o s \in Seq(T)
      /\ Len(r \o s) = Len(r) + Len(s)
      /\ \A i \in 1 .. Len(r) + Len(s) :
            (r \o s)[i] = IF i <= Len(r) THEN r[i] ELSE s[i - Len(r)]
  BY ConcatProperties
<1>3. ASSUME NEW i \in 1 .. Len(r) PROVE (r \o s)[i] = r[i]
  <2>1. i \in 1 .. Len(r) + Len(s) /\ i <= Len(r)
    BY <1>1
  <2> QED BY <1>2, <2>1
<1>4. ASSUME NEW i \in 1 .. Len(s) PROVE (r \o s)[Len(r) + i] = s[i]
  <2>1. /\ Len(r) + i \in 1 .. Len(r) + Len(s) /\ ~(Len(r) + i <= Len(r))
        /\ Len(r) + i - Len(r) = i
    BY <1>1
  <2> QED BY <1>2, <2>1
<1> QED BY <1>1, <1>2, <1>3, <1>4

--------------------------------------------------------------------------------
(* Induction over a set of numbers, and the entries of a list joined *)

\* A set of numbers that is not empty has a least one.
LEMMA LeastElement ==
    ASSUME NEW S \in SUBSET Nat, S # {}
    PROVE  \E m \in S : \A n \in S : m <= n
<1>1. \E x \in S : \A y \in S : ~(<<y, x>> \in OpToRel(<, Nat))
  BY NatLessThanWellFounded, WFMin
<1>2. \A x, y \in S : ~(<<y, x>> \in OpToRel(<, Nat)) => x <= y
  BY DEF OpToRel
<1> QED BY <1>1, <1>2

\* Induction over the natural numbers.
LEMMA SetInduction ==
    ASSUME NEW S \in SUBSET Nat, 0 \in S, \A n \in S : n + 1 \in S
    PROVE  S = Nat
<1>1. SUFFICES ASSUME Nat \ S # {} PROVE FALSE
  OBVIOUS
<1>2. PICK m \in Nat \ S : \A n \in Nat \ S : m <= n
  BY <1>1, LeastElement
<1>3. m # 0 /\ m - 1 \in Nat
  BY <1>2
<1>4. m - 1 \in S
  BY <1>2, <1>3
<1> QED BY <1>2, <1>3, <1>4

\* g[i] is what the first i entries of s give when they are joined.
Flattens(g, s, n) == g = [i \in 1 .. n |-> IF i = 1 THEN s[i] ELSE g[i - 1] \o s[i]]

\* FlattenSeq takes the last of these.
LEMMA FlattenChoice ==
    ASSUME NEW s, Len(s) # 0
    PROVE  FlattenSeq(s) = (CHOOSE g : Flattens(g, s, Len(s)))[Len(s)]
BY DEF FlattenSeq, Flattens

\* There is one.
LEMMA FlattenExists ==
    ASSUME NEW T, NEW s \in Seq(Seq(T)), NEW n \in 0 .. Len(s)
    PROVE  \E g : Flattens(g, s, n)
<1> DEFINE S == {m \in Nat : m <= Len(s) => \E g : Flattens(g, s, m)}
<1>1. 0 \in S
  <2>1. Flattens([i \in 1 .. 0 |-> s[1]], s, 0)
    BY DEF Flattens
  <2> QED BY <2>1
<1>2. ASSUME NEW m \in S PROVE m + 1 \in S
  <2>1. SUFFICES ASSUME m + 1 <= Len(s) PROVE \E g : Flattens(g, s, m + 1)
    BY <1>2
  <2>2. m \in Nat /\ Len(s) \in Nat
    BY <1>2, LenProperties
  <2>3. PICK g : Flattens(g, s, m)
    BY <1>2, <2>1, <2>2
  <2> DEFINE h == [i \in 1 .. (m + 1) |-> IF i = 1 THEN s[i] ELSE g[i - 1] \o s[i]]
  <2>4. ASSUME NEW i \in 1 .. m PROVE h[i] = g[i]
    <3>1. g[i] = IF i = 1 THEN s[i] ELSE g[i - 1] \o s[i]
      BY <2>3 DEF Flattens
    <3>2. i \in 1 .. (m + 1)
      BY <2>2
    <3> QED BY <3>1, <3>2
  <2>5. ASSUME NEW i \in 1 .. (m + 1)
        PROVE  h[i] = IF i = 1 THEN s[i] ELSE h[i - 1] \o s[i]
    <3>1. CASE i = 1
      BY <3>1
    <3>2. CASE i # 1
      <4>1. i - 1 \in 1 .. m
        BY <2>2, <3>2
      <4>2. h[i - 1] = g[i - 1]
        BY <2>4, <4>1
      <4>3. h[i] = g[i - 1] \o s[i]
        BY <3>2
      <4> HIDE DEF h
      <4> QED BY <3>2, <4>2, <4>3
    <3> QED BY <3>1, <3>2
  <2>6. h = [i \in 1 .. (m + 1) |-> h[i]]
    OBVIOUS
  <2> HIDE DEF h
  <2>7. Flattens(h, s, m + 1)
    BY <2>5, <2>6 DEF Flattens
  <2> QED BY <2>7
<1>3. S = Nat
  BY <1>1, <1>2, SetInduction
<1> QED BY <1>3, LenProperties

\* What it is at one place.
LEMMA FlattensAt ==
    ASSUME NEW g, NEW s, NEW n, Flattens(g, s, n), NEW i \in 1 .. n
    PROVE  g[i] = IF i = 1 THEN s[i] ELSE g[i - 1] \o s[i]
BY DEF Flattens

\* Those of a list and of the list with one more entry are the same up to there.
LEMMA FlattenAgree ==
    ASSUME NEW T, NEW s \in Seq(Seq(T)), NEW a, NEW g, NEW h,
           \A i \in 1 .. Len(s) : a[i] = s[i],
           Flattens(g, s, Len(s)), Flattens(h, a, Len(s) + 1)
    PROVE  \A i \in 1 .. Len(s) : g[i] = h[i] /\ g[i] \in Seq(T)
<1> DEFINE S == {m \in Nat : m \in 1 .. Len(s) => g[m] = h[m] /\ g[m] \in Seq(T)}
<1>1. 0 \in S
  OBVIOUS
<1>2. ASSUME NEW m \in S PROVE m + 1 \in S
  <2>1. SUFFICES ASSUME m + 1 \in 1 .. Len(s) PROVE g[m + 1] = h[m + 1] /\ g[m + 1] \in Seq(T)
    BY <1>2
  <2>2. m \in Nat /\ Len(s) \in Nat /\ m + 1 \in 1 .. (Len(s) + 1) /\ m + 1 - 1 = m
    BY <1>2, <2>1, LenProperties
  <2>3. a[m + 1] = s[m + 1] /\ s[m + 1] \in Seq(T)
    BY <2>1, ElementOfSeq
  <2>4. /\ g[m + 1] = IF m + 1 = 1 THEN s[m + 1] ELSE g[m] \o s[m + 1]
        /\ h[m + 1] = IF m + 1 = 1 THEN s[m + 1] ELSE h[m] \o s[m + 1]
    <3>1. g[m + 1] = IF m + 1 = 1 THEN s[m + 1] ELSE g[m + 1 - 1] \o s[m + 1]
      BY <2>1, FlattensAt
    <3>2. h[m + 1] = IF m + 1 = 1 THEN a[m + 1] ELSE h[m + 1 - 1] \o a[m + 1]
      BY <2>2, FlattensAt
    <3> QED BY <2>2, <2>3, <3>1, <3>2, Zenon
  <2>5. CASE m = 0
    BY <2>3, <2>4, <2>5
  <2>6. CASE m # 0
    <3>1. g[m] = h[m] /\ g[m] \in Seq(T)
      BY <1>2, <2>1, <2>2, <2>6
    <3>2. m + 1 # 1
      BY <2>2, <2>6
    <3> QED BY <2>3, <2>4, <3>1, <3>2, ConcatProperties
  <2> QED BY <2>5, <2>6
<1>3. S = Nat
  BY <1>1, <1>2, SetInduction
<1> QED BY <1>3

\* One more entry is joined to the end.
LEMMA FlattenAppend ==
    ASSUME NEW T, NEW s \in Seq(Seq(T)), NEW x \in Seq(T)
    PROVE  /\ FlattenSeq(s) \in Seq(T)
           /\ FlattenSeq(Append(s, x)) = FlattenSeq(s) \o x
<1> DEFINE a == Append(s, x)
           h == CHOOSE f : Flattens(f, a, Len(s) + 1)
           g == CHOOSE f : Flattens(f, s, Len(s))
<1>1. /\ a \in Seq(Seq(T))
      /\ Len(s) \in Nat
      /\ Len(a) = Len(s) + 1
      /\ a[Len(s) + 1] = x
      /\ \A i \in 1 .. Len(s) : a[i] = s[i]
  BY AppendProperties, LenProperties
<1>2. Flattens(h, a, Len(s) + 1)
  <2>1. \E f : Flattens(f, a, Len(s) + 1)
    <3>1. Len(s) + 1 \in 0 .. Len(a)
      BY <1>1
    <3> HIDE DEF a
    <3> QED BY <1>1, <3>1, FlattenExists
  <2> QED BY <2>1
<1>3. Flattens(g, s, Len(s))
  <2>1. \E f : Flattens(f, s, Len(s))
    BY <1>1, FlattenExists
  <2> QED BY <2>1
<1>4. FlattenSeq(a) = h[Len(s) + 1]
  <2>1. Len(a) # 0
    BY <1>1
  <2> HIDE DEF a
  <2> QED BY <1>1, <2>1, FlattenChoice
<1>5. Len(s) # 0 => FlattenSeq(s) = g[Len(s)]
  BY FlattenChoice
<1> HIDE DEF a, g, h
<1>6. h[Len(s) + 1] = IF Len(s) + 1 = 1 THEN x ELSE h[Len(s)] \o x
  <2>1. Len(s) + 1 \in 1 .. (Len(s) + 1) /\ Len(s) + 1 - 1 = Len(s)
    BY <1>1
  <2>2. h[Len(s) + 1] = IF Len(s) + 1 = 1 THEN a[Len(s) + 1] ELSE h[Len(s) + 1 - 1] \o a[Len(s) + 1]
    BY <1>2, <2>1, FlattensAt
  <2> QED BY <1>1, <2>1, <2>2
<1>7. CASE Len(s) = 0
  <2>1. s = <<>>
    BY <1>7, EmptySeq
  <2>2. FlattenSeq(s) = <<>>
    BY <1>7, <2>1 DEF FlattenSeq
  <2>3. FlattenSeq(a) = x
    BY <1>4, <1>6, <1>7
  <2> QED BY <2>2, <2>3, ConcatEmptySeq, EmptySeq DEF a
<1>8. CASE Len(s) # 0
  <2>1. Len(s) \in 1 .. Len(s) /\ Len(s) + 1 # 1
    BY <1>1, <1>8
  <2>2. g[Len(s)] = h[Len(s)] /\ g[Len(s)] \in Seq(T)
    <3>1. \A i \in 1 .. Len(s) : g[i] = h[i] /\ g[i] \in Seq(T)
      <4>1. \A i \in 1 .. Len(s) : a[i] = s[i]
        BY <1>1
      <4> QED BY ONLY s \in Seq(Seq(T)), <1>2, <1>3, <4>1, FlattenAgree, ZenonT(60)
    <3> QED BY <2>1, <3>1
  <2> QED BY <1>4, <1>5, <1>6, <1>8, <2>1, <2>2 DEF a
<1> QED BY <1>7, <1>8

--------------------------------------------------------------------------------
(* The units of a packet *)

\* A unit is longer than its start code, and its start code is one seek_nalu sees.
LEMMA UnitOpens ==
    ASSUME NEW u \in Seq(Nat), IsUnit(u)
    PROVE  /\ Len(u) \in Nat /\ Len(u) >= 4
           /\ u[1] = 0 /\ u[2] = 0 /\ (u[3] = 1 \/ (u[3] = 0 /\ u[4] = 1))
<1>1. Len(u) \in Nat
  BY LenProperties
<1>2. PICK k \in {3, 4} :
        k < Len(u) /\ u[k] = 1 /\ \A i \in 1 .. (k - 1) : u[i] = 0
  BY DEF IsUnit
<1> QED BY <1>1, <1>2

\* Behind the first two bytes of a unit nothing in it looks like a start code, nor
\* do its last bytes together with the first of what follows.
LEMMA UnitCloses ==
    ASSUME NEW u \in Seq(Nat), IsUnit(u), NEW i \in 3 .. Len(u)
    PROVE  \/ u[i] # 0
           \/ i + 1 <= Len(u) /\ u[i + 1] # 0
           \/ i + 2 <= Len(u) /\ u[i + 2] \notin {0, 1}
<1>1. Len(u) \in Nat
  BY LenProperties
<1>2. PICK k \in {3, 4} :
        /\ k < Len(u) /\ u[k] = 1 /\ u[Len(u)] # 0
        /\ \A j \in (k + 1) .. (Len(u) - 2) : ~(u[j] = 0 /\ u[j + 1] = 0 /\ u[j + 2] \in {0, 1})
  BY DEF IsUnit
<1>3. CASE i = Len(u)
  BY <1>2, <1>3
<1>4. CASE i + 1 = Len(u)
  BY <1>1, <1>2, <1>4
<1>5. CASE i + 2 <= Len(u) /\ i > k
  BY <1>1, <1>2, <1>5
<1>6. CASE i + 2 <= Len(u) /\ i <= k
  BY <1>1, <1>2, <1>6
<1> QED BY <1>1, <1>2, <1>3, <1>4, <1>5, <1>6

\* From the beginning of a unit the search ends at the beginning of the next.
LEMMA UnitsNext ==
    ASSUME NEW d \in Seq(Nat), NEW p \in Nat, NEW u \in Seq(Nat), NEW v \in Seq(Nat),
           IsUnit(u), IsUnit(v), p + Len(u) + Len(v) <= Len(d),
           \A i \in 1 .. Len(u) : d[p + i] = u[i],
           \A i \in 1 .. Len(v) : d[p + Len(u) + i] = v[i]
    PROVE  NextUnit(d, p) = p + Len(u)
<1> DEFINE n == p + Len(u)
<1>1. Len(d) \in Nat
  BY LenProperties
<1>2. /\ Len(u) \in Nat /\ Len(u) >= 4
      /\ Len(v) \in Nat /\ Len(v) >= 4
      /\ v[1] = 0 /\ v[2] = 0 /\ (v[3] = 1 \/ (v[3] = 0 /\ v[4] = 1))
  BY UnitOpens
<1>3. n \in Nat /\ n \in (p + 2) .. Len(d) /\ n + 3 < Len(d)
  <2>1. \A a, b, c, e \in Nat :
            b >= 4 /\ c >= 4 /\ a + b + c <= e
                => a + b \in Nat /\ a + b \in (a + 2) .. e /\ a + b + 3 < e
    OBVIOUS
  <2> QED BY ONLY p \in Nat, p + Len(u) + Len(v) <= Len(d), <1>1, <1>2, <2>1, Zenon
<1>4. UnitAt(d, n)
  <2>1. d[n + 1] = v[1] /\ d[n + 2] = v[2] /\ d[n + 3] = v[3] /\ d[n + 4] = v[4]
    <3>1. 1 \in 1 .. Len(v) /\ 2 \in 1 .. Len(v) /\ 3 \in 1 .. Len(v) /\ 4 \in 1 .. Len(v)
      BY ONLY <1>2
    <3> QED BY ONLY \A i \in 1 .. Len(v) : d[p + Len(u) + i] = v[i], <3>1, Zenon DEF n
  <2> HIDE DEF n
  <2> QED BY <1>2, <1>3, <2>1 DEF UnitAt
<1>5. ASSUME NEW q \in (p + 2) .. (n - 1) PROVE ~UnitAt(d, q)
  <2> DEFINE i == q + 1 - p
  <2>1. i \in 3 .. Len(u) /\ q + 1 = p + i /\ q + 2 = p + (i + 1) /\ q + 3 = p + (i + 2)
    BY <1>2
  <2> HIDE DEF i
  <2>2. \/ u[i] # 0
        \/ i + 1 <= Len(u) /\ u[i + 1] # 0
        \/ i + 2 <= Len(u) /\ u[i + 2] \notin {0, 1}
    BY <2>1, UnitCloses
  <2>3. \/ d[q + 1] # 0
        \/ d[q + 2] # 0
        \/ d[q + 3] \notin {0, 1}
    <3>1. CASE u[i] # 0
      <4>1. i \in 1 .. Len(u)
        BY <1>2, <2>1
      <4> QED BY <2>1, <3>1, <4>1
    <3>2. CASE i + 1 <= Len(u) /\ u[i + 1] # 0
      <4>1. i + 1 \in 1 .. Len(u)
        BY <1>2, <2>1, <3>2
      <4> QED BY <2>1, <3>2, <4>1
    <3>3. CASE i + 2 <= Len(u) /\ u[i + 2] \notin {0, 1}
      <4>1. i + 2 \in 1 .. Len(u)
        BY <1>2, <2>1, <3>3
      <4> QED BY <2>1, <3>3, <4>1
    <3> QED BY <2>2, <3>1, <3>2, <3>3
  <2> QED BY <2>3 DEF UnitAt
<1> HIDE DEF n
<1> DEFINE Found(x) == UnitAt(d, x) /\ \A q \in (p + 2) .. (x - 1) : ~UnitAt(d, q)
<1>6. Found(n)
  BY <1>4, <1>5
<1>7. ASSUME NEW x \in (p + 2) .. Len(d), Found(x) PROVE x = n
  <2>1. x \in Nat /\ n \in (p + 2) .. Len(d)
    BY <1>1, <1>3
  <2>2. CASE x < n
    <3>1. x \in (p + 2) .. (n - 1)
      BY <1>3, <2>1, <2>2
    <3> QED BY <1>5, <1>7, <3>1
  <2>3. CASE n < x
    <3>1. n \in (p + 2) .. (x - 1)
      BY <1>3, <2>1, <2>3
    <3> QED BY <1>4, <1>7, <3>1
  <2> QED BY <1>3, <2>1, <2>2, <2>3
<1>8. NextUnit(d, p) = CHOOSE x \in (p + 2) .. Len(d) : Found(x)
  BY DEF NextUnit
<1> HIDE DEF Found
<1>9. (CHOOSE x \in (p + 2) .. Len(d) : Found(x)) = n
  BY <1>3, <1>6, <1>7
<1> QED BY <1>8, <1>9 DEF n

\* What the function in seek_nalu is.
Seeks(f, d) == f = [i \in 0 .. 2 |-> IF i = 0 THEN 0 ELSE NextUnit(d, f[i - 1])]

\* The second unit is found from the first.
LEMMA SeekSecond ==
    ASSUME NEW d
    PROVE  seek_nalu(d, 2) = NextUnit(d, NextUnit(d, 0))
<1> DEFINE a == NextUnit(d, 0)
           b == NextUnit(d, a)
           w == [i \in 0 .. 2 |-> IF i = 0 THEN 0 ELSE IF i = 1 THEN a ELSE b]
           g == CHOOSE f : Seeks(f, d)
<1>1. seek_nalu(d, 2) = g[2]
  BY DEF seek_nalu, Seeks
<1> HIDE DEF a, b
<1>2. \A i \in 0 .. 2 : w[i] = IF i = 0 THEN 0 ELSE NextUnit(d, w[i - 1])
  <2>1. w[0] = 0 /\ w[1] = a /\ w[2] = b
    OBVIOUS
  <2>2. a = NextUnit(d, 0) /\ b = NextUnit(d, a)
    BY DEF a, b
  <2>3. \A i \in 0 .. 2 : i = 0 \/ (i = 1 /\ i - 1 = 0) \/ (i = 2 /\ i - 1 = 1)
    OBVIOUS
  <2> HIDE DEF w
  <2> QED BY <2>1, <2>2, <2>3
<1>3. w = [i \in 0 .. 2 |-> w[i]]
  OBVIOUS
<1> HIDE DEF w
<1>4. Seeks(w, d)
  BY <1>2, <1>3 DEF Seeks
<1>5. Seeks(g, d)
  BY <1>4
<1> HIDE DEF g
<1>6. \A i \in 0 .. 2 : g[i] = IF i = 0 THEN 0 ELSE NextUnit(d, g[i - 1])
  BY <1>5 DEF Seeks
<1>7. g[0] = 0 /\ g[1] = NextUnit(d, g[0]) /\ g[2] = NextUnit(d, g[1])
  <2>1. 0 \in 0 .. 2 /\ 1 \in 0 .. 2 /\ 2 \in 0 .. 2 /\ 1 # 0 /\ 2 # 0 /\ 1 - 1 = 0 /\ 2 - 1 = 1
    OBVIOUS
  <2> QED BY ONLY <1>6, <2>1, Zenon
<1> QED BY <1>1, <1>7, Zenon

\* A list of at least three entries, joined, begins with the three.
LEMMA FlattenThree ==
    ASSUME NEW T, NEW s \in Seq(Seq(T)), Len(s) >= 3
    PROVE  \E r \in Seq(T) : FlattenSeq(s) = ((s[1] \o s[2]) \o s[3]) \o r
<1> DEFINE g == CHOOSE f : Flattens(f, s, Len(s))
           h == (s[1] \o s[2]) \o s[3]
           S == {m \in Nat : m + 3 <= Len(s) => \E r \in Seq(T) : g[m + 3] = h \o r}
<1>1. Len(s) \in Nat
  BY LenProperties
<1>2. Flattens(g, s, Len(s))
  <2>1. \E f : Flattens(f, s, Len(s))
    BY <1>1, FlattenExists
  <2> QED BY <2>1
<1>3. FlattenSeq(s) = g[Len(s)]
  BY <1>1, FlattenChoice
<1> HIDE DEF g
<1>4. \A i \in 1 .. Len(s) : g[i] = IF i = 1 THEN s[i] ELSE g[i - 1] \o s[i]
  BY <1>2, FlattensAt
<1>5. \A i \in 1 .. Len(s) : s[i] \in Seq(T)
  BY ElementOfSeq
<1>6. g[3] = h
  <2>1. /\ 1 \in 1 .. Len(s) /\ 2 \in 1 .. Len(s) /\ 3 \in 1 .. Len(s)
        /\ 2 # 1 /\ 3 # 1 /\ 2 - 1 = 1 /\ 3 - 1 = 2
    BY <1>1
  <2> QED BY ONLY <1>4, <2>1, Zenon DEF h
<1>7. h \in Seq(T)
  <2>1. s[1] \in Seq(T) /\ s[2] \in Seq(T) /\ s[3] \in Seq(T)
    BY <1>1, <1>5
  <2>2. s[1] \o s[2] \in Seq(T)
    BY <2>1, ConcatProperties
  <2> QED BY <2>1, <2>2, ConcatProperties
<1> HIDE DEF h
<1>8. 0 \in S
  <2>1. h = h \o <<>> /\ <<>> \in Seq(T)
    BY <1>7, ConcatEmptySeq, EmptySeq
  <2>2. 0 + 3 = 3
    OBVIOUS
  <2> QED BY <1>6, <2>1, <2>2
<1>9. ASSUME NEW m \in S PROVE m + 1 \in S
  <2>1. SUFFICES ASSUME (m + 1) + 3 <= Len(s) PROVE \E r \in Seq(T) : g[(m + 1) + 3] = h \o r
    <3>1. m + 1 \in Nat
      BY <1>9
    <3> QED BY <3>1, Zenon
  <2>2. /\ m \in Nat /\ m + 3 <= Len(s)
        /\ (m + 1) + 3 \in 1 .. Len(s) /\ (m + 1) + 3 # 1 /\ (m + 1) + 3 - 1 = m + 3
    BY <1>1, <1>9, <2>1
  <2>3. PICK r \in Seq(T) : g[m + 3] = h \o r
    BY <1>9, <2>2
  <2> DEFINE j == (m + 1) + 3
             e == s[j]
  <2>4. e \in Seq(T)
    BY <1>5, <2>2
  <2>5. g[j] = (h \o r) \o e
    <3>1. j \in 1 .. Len(s) /\ j # 1 /\ j - 1 = m + 3
      BY ONLY <1>1, <2>1, <2>2 DEF j
    <3> HIDE DEF j
    <3> QED BY ONLY <1>4, <2>3, <3>1, Zenon
  <2> HIDE DEF e
  <2>6. (h \o r) \o e = h \o (r \o e) /\ r \o e \in Seq(T)
    <3>1. (h \o r) \o e = h \o (r \o e)
      BY ONLY <1>7, r \in Seq(T), <2>4, ConcatAssociative, SMTT(60)
    <3> QED BY <2>4, <3>1, ConcatProperties
  <2> QED BY <2>5, <2>6
<1>10. S = Nat
  BY <1>8, <1>9, SetInduction
<1>11. Len(s) - 3 \in Nat /\ (Len(s) - 3) + 3 = Len(s)
  BY <1>1
<1>12. \E r \in Seq(T) : g[Len(s)] = h \o r
  <2>1. Len(s) - 3 \in S
    BY ONLY <1>10, <1>11, Zenon
  <2>2. (Len(s) - 3) + 3 <= Len(s)
    BY <1>1, <1>11
  <2>3. \E r \in Seq(T) : g[(Len(s) - 3) + 3] = h \o r
    BY ONLY <2>1, <2>2, Zenon
  <2> QED BY ONLY <1>11, <2>3, Zenon
<1> QED BY <1>3, <1>12 DEF h

\* Three units one after the other: the search for the third ends where the first
\* two do.
LEMMA ThreeUnits ==
    ASSUME NEW a \in Seq(Nat), NEW b \in Seq(Nat), NEW c \in Seq(Nat), NEW r \in Seq(Nat),
           IsUnit(a), IsUnit(b), IsUnit(c)
    PROVE  /\ ((a \o b) \o c) \o r \in Seq(Nat)
           /\ seek_nalu(((a \o b) \o c) \o r, 2) = Len(a \o b)
           /\ Len(a \o b) \in 0 .. Len(((a \o b) \o c) \o r)
           /\ SubSeq(((a \o b) \o c) \o r, 1, Len(a \o b)) = a \o b
<1> DEFINE x == a \o b
           y == x \o c
           z == y \o r
<1>a. x = a \o b
  OBVIOUS
<1>b. y = x \o c
  OBVIOUS
<1>c. z = y \o r
  OBVIOUS
<1> HIDE DEF x, y, z
<1>1. /\ x \in Seq(Nat)
      /\ Len(a) \in Nat /\ Len(b) \in Nat
      /\ Len(x) = Len(a) + Len(b)
      /\ \A i \in 1 .. Len(a) : x[i] = a[i]
      /\ \A i \in 1 .. Len(b) : x[Len(a) + i] = b[i]
  <2>1. /\ a \o b \in Seq(Nat)
        /\ Len(a) \in Nat /\ Len(b) \in Nat
        /\ Len(a \o b) = Len(a) + Len(b)
        /\ \A i \in 1 .. Len(a) : (a \o b)[i] = a[i]
        /\ \A i \in 1 .. Len(b) : (a \o b)[Len(a) + i] = b[i]
    <3>1. a \in Seq(Nat) /\ b \in Seq(Nat)
      BY ONLY a \in Seq(Nat), b \in Seq(Nat)
    <3> QED BY ONLY <3>1, ConcatAt
  <2> QED BY ONLY <2>1, <1>a, Zenon
<1>2. /\ y \in Seq(Nat)
      /\ Len(x) \in Nat /\ Len(c) \in Nat
      /\ Len(y) = Len(x) + Len(c)
      /\ \A i \in 1 .. Len(x) : y[i] = x[i]
      /\ \A i \in 1 .. Len(c) : y[Len(x) + i] = c[i]
  <2>1. /\ x \o c \in Seq(Nat)
        /\ Len(x) \in Nat /\ Len(c) \in Nat
        /\ Len(x \o c) = Len(x) + Len(c)
        /\ \A i \in 1 .. Len(x) : (x \o c)[i] = x[i]
        /\ \A i \in 1 .. Len(c) : (x \o c)[Len(x) + i] = c[i]
    <3>1. x \in Seq(Nat) /\ c \in Seq(Nat)
      BY ONLY <1>1, c \in Seq(Nat)
    <3> QED BY ONLY <3>1, ConcatAt
  <2> QED BY ONLY <2>1, <1>b, Zenon
<1>3. /\ z \in Seq(Nat)
      /\ Len(y) \in Nat /\ Len(r) \in Nat
      /\ Len(z) = Len(y) + Len(r)
      /\ \A i \in 1 .. Len(y) : z[i] = y[i]
  <2>1. /\ y \o r \in Seq(Nat)
        /\ Len(y) \in Nat /\ Len(r) \in Nat
        /\ Len(y \o r) = Len(y) + Len(r)
        /\ \A i \in 1 .. Len(y) : (y \o r)[i] = y[i]
    <3>1. y \in Seq(Nat) /\ r \in Seq(Nat)
      BY ONLY <1>2, r \in Seq(Nat)
    <3> QED BY ONLY <3>1, ConcatAt
  <2> QED BY ONLY <2>1, <1>c, Zenon
<1>4. /\ Len(a) \in Nat /\ Len(b) \in Nat /\ Len(c) \in Nat /\ Len(r) \in Nat
      /\ Len(x) = Len(a) + Len(b) /\ Len(y) = Len(x) + Len(c) /\ Len(z) = Len(y) + Len(r)
  BY ONLY <1>1, <1>2, <1>3, Zenon
<1>5. /\ 0 + Len(a) = Len(a)
      /\ 0 + Len(a) + Len(b) <= Len(z)
      /\ Len(a) + Len(b) + Len(c) <= Len(z)
      /\ Len(x) \in 0 .. Len(z)
      /\ \A i \in 1 .. Len(a) : i \in 1 .. Len(x) /\ i \in 1 .. Len(y) /\ 0 + i = i
      /\ \A i \in 1 .. Len(b) : Len(a) + i \in 1 .. Len(x) /\ Len(a) + i \in 1 .. Len(y)
      /\ \A i \in 1 .. Len(c) : Len(x) + i \in 1 .. Len(y)
      /\ \A i \in 1 .. Len(x) : i \in 1 .. Len(y)
  <2> DEFINE na == Len(a)
             nb == Len(b)
             nc == Len(c)
             nr == Len(r)
             nx == Len(x)
             ny == Len(y)
             nz == Len(z)
  <2>1. /\ na \in Nat /\ nb \in Nat /\ nc \in Nat /\ nr \in Nat
        /\ nx = na + nb /\ ny = nx + nc /\ nz = ny + nr
    BY ONLY <1>4, Zenon
  <2> HIDE DEF na, nb, nc, nr, nx, ny, nz
  <2>2. /\ 0 + na = na
        /\ 0 + na + nb <= nz
        /\ na + nb + nc <= nz
        /\ nx \in 0 .. nz
        /\ \A i \in 1 .. na : i \in 1 .. nx /\ i \in 1 .. ny /\ 0 + i = i
        /\ \A i \in 1 .. nb : na + i \in 1 .. nx /\ na + i \in 1 .. ny
        /\ \A i \in 1 .. nc : nx + i \in 1 .. ny
        /\ \A i \in 1 .. nx : i \in 1 .. ny
    BY ONLY <2>1
  <2> QED BY ONLY <2>2, Zenon DEF na, nb, nc, nr, nx, ny, nz
<1>6. \A i \in 1 .. Len(a) : z[0 + i] = a[i]
  BY ONLY <1>1, <1>2, <1>3, <1>5, Zenon
<1>7. \A i \in 1 .. Len(b) : z[Len(a) + i] = b[i]
  BY ONLY <1>1, <1>2, <1>3, <1>5, Zenon
<1>8. \A i \in 1 .. Len(c) : z[Len(x) + i] = c[i]
  BY ONLY <1>2, <1>3, <1>5, Zenon
<1>9. NextUnit(z, 0) = Len(a)
  <2>1. 0 \in Nat
    OBVIOUS
  <2>2. \A i \in 1 .. Len(b) : z[0 + Len(a) + i] = b[i]
    BY ONLY <1>5, <1>7, Zenon
  <2>3. NextUnit(z, 0) = 0 + Len(a)
    BY ONLY a \in Seq(Nat), b \in Seq(Nat), IsUnit(a), IsUnit(b),
            <1>3, <1>5, <1>6, <2>1, <2>2, UnitsNext, ZenonT(60)
  <2> QED BY ONLY <1>5, <2>3, Zenon
<1>10. NextUnit(z, Len(a)) = Len(x)
  <2>1. \A i \in 1 .. Len(c) : z[Len(a) + Len(b) + i] = c[i]
    BY ONLY <1>1, <1>8, Zenon
  <2>2. NextUnit(z, Len(a)) = Len(a) + Len(b)
    BY ONLY b \in Seq(Nat), c \in Seq(Nat), IsUnit(b), IsUnit(c),
            <1>1, <1>3, <1>5, <1>7, <2>1, UnitsNext, ZenonT(60)
  <2> QED BY ONLY <1>1, <2>2, Zenon
<1>11. seek_nalu(z, 2) = Len(x)
  BY ONLY <1>9, <1>10, SeekSecond, Zenon
<1>12. SubSeq(z, 1, Len(x)) = x
  <2>1. \A i \in 1 .. Len(x) : z[i] = x[i]
    BY ONLY <1>2, <1>3, <1>5, Zenon
  <2>2. SubSeq(z, 1, Len(x)) = [i \in 1 .. Len(x) |-> z[i]]
    BY ONLY <1>2, <1>3, <1>5
  <2>3. x = [i \in 1 .. Len(x) |-> x[i]]
    BY ONLY <1>1
  <2> QED BY ONLY <2>1, <2>2, <2>3
<1> QED BY ONLY <1>3, <1>5, <1>11, <1>12, Zenon DEF x, y, z

\* The header that is cut out of a first packet is its first two units, whole.
LEMMA HeaderFound ==
    ASSUME NEW o \in Openings
    PROVE  /\ FlattenSeq(o) \in Seq(Nat)
           /\ seek_nalu(FlattenSeq(o), 2) \in 0 .. Len(FlattenSeq(o))
           /\ SubSeq(FlattenSeq(o), 1, seek_nalu(FlattenSeq(o), 2)) = o[1] \o o[2]
           /\ o[1] \o o[2] \in Seq(Nat)
<1>1. o \in Seq(Seq(Nat)) /\ Len(o) >= 3 /\ \A i \in 1 .. Len(o) : IsUnit(o[i])
  BY OpeningAssumption
<1>2. /\ o[1] \in Seq(Nat) /\ o[2] \in Seq(Nat) /\ o[3] \in Seq(Nat)
      /\ IsUnit(o[1]) /\ IsUnit(o[2]) /\ IsUnit(o[3])
  <2>1. 1 \in 1 .. Len(o) /\ 2 \in 1 .. Len(o) /\ 3 \in 1 .. Len(o)
    BY <1>1, LenProperties
  <2> QED BY <1>1, <2>1, ElementOfSeq
<1>3. PICK r \in Seq(Nat) : FlattenSeq(o) = ((o[1] \o o[2]) \o o[3]) \o r
  BY <1>1, FlattenThree
<1>4. o[1] \o o[2] \in Seq(Nat)
  BY <1>2, ConcatProperties
<1>5. /\ ((o[1] \o o[2]) \o o[3]) \o r \in Seq(Nat)
      /\ seek_nalu(((o[1] \o o[2]) \o o[3]) \o r, 2) = Len(o[1] \o o[2])
      /\ Len(o[1] \o o[2]) \in 0 .. Len(((o[1] \o o[2]) \o o[3]) \o r)
      /\ SubSeq(((o[1] \o o[2]) \o o[3]) \o r, 1, Len(o[1] \o o[2])) = o[1] \o o[2]
  BY ONLY <1>2, r \in Seq(Nat), ThreeUnits, ZenonT(60)
<1> QED BY ONLY <1>3, <1>4, <1>5, ZenonT(60)

\* A packet cut in two gives its two parts.
LEMMA CutInTwo ==
    ASSUME NEW d \in Seq(Nat), NEW k \in 0 .. Len(d)
    PROVE  /\ SubSeq(d, 1, k) \in Seq(Nat)
           /\ SubSeq(d, k + 1, Len(d)) \in Seq(Nat)
           /\ SubSeq(d, 1, k) \o SubSeq(d, k + 1, Len(d)) = d
<1>1. Len(d) \in Nat /\ \A i \in 1 .. Len(d) : d[i] \in Nat
  BY LenProperties, ElementOfSeq
<1>2. SubSeq(d, 1, k) \in Seq(Nat)
  BY <1>1, SubSeqProperties
<1>3. SubSeq(d, k + 1, Len(d)) \in Seq(Nat)
  BY <1>1, SubSeqProperties
<1>4. SubSeq(d, 1, k) \o SubSeq(d, k + 1, Len(d)) = SubSeq(d, 1, Len(d))
  <2>1. 1 \in 1 .. (Len(d) + 1) /\ k \in (1 - 1) .. Len(d) /\ Len(d) \in k .. Len(d)
    BY <1>1
  <2> QED BY <2>1, ConcatAdjacentSubSeq
<1>5. SubSeq(d, 1, Len(d)) = d
  BY SubSeqFull
<1> QED BY <1>2, <1>3, <1>4, <1>5, Zenon

--------------------------------------------------------------------------------
(* What was made for a thread, and what it sent *)

\* An entry of the history.
Made == [data : Seq(Nat), picture : Nat, thread : Thread]

\* A message queued.
Message == [type : {"VIDEO_PARAMS", "DATA"}, payload : Seq(Nat), thread : Thread, after : Nat]

\* The packets made for t, with nothing for those of the others.
Encoded(m, t) == [i \in DOMAIN m |-> IF m[i].thread = t THEN m[i].data ELSE <<>>]

\* The DATA messages of t, with nothing for the other messages.
Sent(s, t) ==
    [i \in DOMAIN s |-> IF s[i].thread = t /\ s[i].type = "DATA" THEN s[i].payload ELSE <<>>]

\* The header h if the first packet was for t.
Lead(m, h, t) == IF m # <<>> /\ m[1].thread = t THEN h ELSE <<>>

\* The stream of t is whole when p is what it is about to send.
Whole(m, s, h, p, t) == Bytes(Encoded(m, t)) = Lead(m, h, t) \o (Bytes(Sent(s, t)) \o p)

\* One packet more.
LEMMA EncodedGrows ==
    ASSUME NEW m \in Seq(Made), NEW e \in Made, NEW t \in Thread
    PROVE  /\ Bytes(Encoded(m, t)) \in Seq(Nat)
           /\ Bytes(Encoded(Append(m, e), t)) =
                Bytes(Encoded(m, t)) \o (IF e.thread = t THEN e.data ELSE <<>>)
<1> DEFINE x == IF e.thread = t THEN e.data ELSE <<>>
           a == Append(m, e)
<1>1. /\ Len(m) \in Nat /\ DOMAIN m = 1 .. Len(m)
      /\ \A i \in 1 .. Len(m) : m[i] \in Made
  BY LenProperties, ElementOfSeq
<1>2. /\ a \in Seq(Made) /\ Len(a) = Len(m) + 1 /\ DOMAIN a = 1 .. (Len(m) + 1)
      /\ \A i \in 1 .. Len(m) : a[i] = m[i]
      /\ a[Len(m) + 1] = e
  BY AppendProperties, LenProperties
<1>3. x \in Seq(Nat)
  BY EmptySeq DEF Made
<1>4. Encoded(m, t) \in Seq(Seq(Nat)) /\ Len(Encoded(m, t)) = Len(m)
  <2>1. \A i \in 1 .. Len(m) : (IF m[i].thread = t THEN m[i].data ELSE <<>>) \in Seq(Nat)
    BY <1>1, EmptySeq DEF Made
  <2> QED BY <1>1, <2>1 DEF Encoded
<1>5. Encoded(a, t) = Append(Encoded(m, t), x)
  <2>1. Append(Encoded(m, t), x) =
            [i \in 1 .. (Len(m) + 1) |-> IF i = Len(m) + 1 THEN x ELSE Encoded(m, t)[i]]
    BY <1>1, <1>3, <1>4
  <2>2. \A i \in 1 .. (Len(m) + 1) : i = Len(m) + 1 \/ i \in 1 .. Len(m)
    BY <1>1
  <2>3. ASSUME NEW i \in 1 .. (Len(m) + 1)
        PROVE  (IF a[i].thread = t THEN a[i].data ELSE <<>>) =
                    IF i = Len(m) + 1 THEN x ELSE Encoded(m, t)[i]
    <3>1. CASE i = Len(m) + 1
      BY <1>2, <3>1
    <3>2. CASE i \in 1 .. Len(m)
      <4>1. i # Len(m) + 1
        BY <1>1, <3>2
      <4> HIDE DEF a, x
      <4> QED BY <1>1, <1>2, <3>2, <4>1 DEF Encoded
    <3> QED BY <2>2, <3>1, <3>2
  <2> HIDE DEF a, x
  <2> QED BY <1>2, <2>1, <2>3 DEF Encoded
<1> HIDE DEF a, x
<1>6. /\ FlattenSeq(Encoded(m, t)) \in Seq(Nat)
      /\ FlattenSeq(Append(Encoded(m, t), x)) = FlattenSeq(Encoded(m, t)) \o x
  BY ONLY <1>3, <1>4, FlattenAppend
<1> QED BY <1>5, <1>6, Zenon DEF Bytes, a, x

\* One message more.
LEMMA SentGrows ==
    ASSUME NEW s \in Seq(Message), NEW e \in Message, NEW t \in Thread
    PROVE  /\ Bytes(Sent(s, t)) \in Seq(Nat)
           /\ Bytes(Sent(Append(s, e), t)) =
                Bytes(Sent(s, t)) \o (IF e.thread = t /\ e.type = "DATA" THEN e.payload ELSE <<>>)
<1> DEFINE x == IF e.thread = t /\ e.type = "DATA" THEN e.payload ELSE <<>>
           a == Append(s, e)
<1>1. /\ Len(s) \in Nat /\ DOMAIN s = 1 .. Len(s)
      /\ \A i \in 1 .. Len(s) : s[i] \in Message
  BY LenProperties, ElementOfSeq
<1>2. /\ a \in Seq(Message) /\ Len(a) = Len(s) + 1 /\ DOMAIN a = 1 .. (Len(s) + 1)
      /\ \A i \in 1 .. Len(s) : a[i] = s[i]
      /\ a[Len(s) + 1] = e
  BY AppendProperties, LenProperties
<1>3. x \in Seq(Nat)
  BY EmptySeq DEF Message
<1>4. Sent(s, t) \in Seq(Seq(Nat)) /\ Len(Sent(s, t)) = Len(s)
  <2>1. \A i \in 1 .. Len(s) :
            (IF s[i].thread = t /\ s[i].type = "DATA" THEN s[i].payload ELSE <<>>) \in Seq(Nat)
    BY <1>1, EmptySeq DEF Message
  <2> QED BY <1>1, <2>1 DEF Sent
<1>5. Sent(a, t) = Append(Sent(s, t), x)
  <2>1. Append(Sent(s, t), x) =
            [i \in 1 .. (Len(s) + 1) |-> IF i = Len(s) + 1 THEN x ELSE Sent(s, t)[i]]
    BY <1>1, <1>3, <1>4
  <2>2. \A i \in 1 .. (Len(s) + 1) : i = Len(s) + 1 \/ i \in 1 .. Len(s)
    BY <1>1
  <2>3. ASSUME NEW i \in 1 .. (Len(s) + 1)
        PROVE  (IF a[i].thread = t /\ a[i].type = "DATA" THEN a[i].payload ELSE <<>>) =
                    IF i = Len(s) + 1 THEN x ELSE Sent(s, t)[i]
    <3>1. CASE i = Len(s) + 1
      BY <1>2, <3>1
    <3>2. CASE i \in 1 .. Len(s)
      <4>1. i # Len(s) + 1
        BY <1>1, <3>2
      <4> HIDE DEF a, x
      <4> QED BY <1>1, <1>2, <3>2, <4>1 DEF Sent
    <3> QED BY <2>2, <3>1, <3>2
  <2> HIDE DEF a, x
  <2> QED BY <1>2, <2>1, <2>3 DEF Sent
<1> HIDE DEF a, x
<1>6. /\ FlattenSeq(Sent(s, t)) \in Seq(Nat)
      /\ FlattenSeq(Append(Sent(s, t), x)) = FlattenSeq(Sent(s, t)) \o x
  BY ONLY <1>3, <1>4, FlattenAppend
<1> QED BY <1>5, <1>6, Zenon DEF Bytes, a, x

\* The bytes of a packet are behind all that the thread has sent and holds.
LEMMA HeldLast ==
    ASSUME NEW L \in Seq(Nat), NEW S \in Seq(Nat), NEW p \in Seq(Nat), NEW x \in Seq(Nat)
    PROVE  (L \o (S \o p)) \o x = L \o (S \o (p \o x))
<1>1. S \o p \in Seq(Nat)
  BY ConcatProperties
<1>2. (L \o (S \o p)) \o x = L \o ((S \o p) \o x)
  BY <1>1, ConcatAssociative, SMTT(60)
<1>3. (S \o p) \o x = S \o (p \o x)
  BY ConcatAssociative, SMTT(60)
<1> QED BY ONLY <1>2, <1>3, Zenon

\* A packet made for t, which is cut into h and x: h is the header if the packet is
\* the first of all, and nothing otherwise.
LEMMA WholeAfterPacket ==
    ASSUME NEW m \in Seq(Made), NEW s \in Seq(Message), NEW g \in Seq(Nat), NEW p \in Seq(Nat),
           NEW h \in Seq(Nat), NEW x \in Seq(Nat), NEW e \in Made, NEW t \in Thread,
           e.thread = t, e.data = h \o x,
           m = <<>> => g = <<>>, m # <<>> => h = <<>>,
           Whole(m, s, g, p, t)
    PROVE  Whole(Append(m, e), s, g \o h, p \o x, t)
<1> DEFINE E == Bytes(Encoded(m, t))
           S == Bytes(Sent(s, t))
           a == Append(m, e)
<1>1. /\ E \in Seq(Nat)
      /\ Bytes(Encoded(a, t)) = E \o (h \o x)
  BY EncodedGrows
<1>2. S \in Seq(Nat)
  <2>1. [type |-> "DATA", payload |-> p, thread |-> t, after |-> 0] \in Message
    BY DEF Message
  <2> QED BY <2>1, SentGrows
<1>3. E = Lead(m, g, t) \o (S \o p)
  BY DEF Whole
<1>4. Len(m) \in Nat /\ a # <<>> /\ \A i \in 1 .. Len(m) : a[i] = m[i]
  <2>1. Len(m) \in Nat
    BY LenProperties
  <2>2. a # <<>>
    <3>1. Len(a) = Len(m) + 1
      BY AppendProperties
    <3> HIDE DEF a
    <3> QED BY <2>1, <3>1, EmptySeq
  <2>3. \A i \in 1 .. Len(m) : a[i] = m[i]
    BY AppendProperties
  <2> QED BY <2>1, <2>2, <2>3, Zenon
<1>5. a[Len(m) + 1] = e
  BY AppendProperties
<1> HIDE DEF E, S, a
<1>6. CASE m = <<>>
  <2>1. a[1] = e
    BY <1>5, <1>6, EmptySeq
  <2>2. E = <<>>
    <3>1. Encoded(m, t) = <<>>
      BY <1>6 DEF Encoded
    <3> QED BY <3>1 DEF E, Bytes, FlattenSeq
  <2>3. S = <<>> /\ p = <<>>
    <3>1. S \o p \in Seq(Nat)
      BY <1>2, ConcatProperties
    <3>2. E = <<>> \o (S \o p)
      BY <1>3, <1>6 DEF Lead
    <3>3. S \o p = <<>>
      BY <2>2, <3>1, <3>2, ConcatEmptySeq
    <3> QED BY ONLY <1>2, p \in Seq(Nat), <3>3, ConcatEqualIffEmpty
  <2>4. Lead(a, g \o h, t) = h
    <3>1. g \o h = h
      BY <1>6, ConcatEmptySeq
    <3> QED BY <1>4, <2>1, <3>1 DEF Lead
  <2>5. S \o (p \o x) = x
    BY <2>3, ConcatEmptySeq
  <2>6. E \o (h \o x) = h \o x
    <3>1. h \o x \in Seq(Nat)
      BY ConcatProperties
    <3> QED BY <2>2, <3>1, ConcatEmptySeq
  <2> QED BY <1>1, <2>4, <2>5, <2>6, Zenon DEF Whole, S, a
<1>7. CASE m # <<>>
  <2>1. a[1] = m[1]
    BY <1>4, <1>7, EmptySeq
  <2>2. h = <<>> /\ g \o h = g /\ h \o x = x
    BY <1>7, ConcatEmptySeq
  <2>3. Lead(a, g \o h, t) = Lead(m, g, t)
    BY <1>4, <1>7, <2>1, <2>2 DEF Lead
  <2>4. Lead(m, g, t) \in Seq(Nat)
    BY EmptySeq DEF Lead
  <2>5. E \o x = Lead(m, g, t) \o (S \o (p \o x))
    <3>1. (Lead(m, g, t) \o (S \o p)) \o x = Lead(m, g, t) \o (S \o (p \o x))
      <4> DEFINE L == Lead(m, g, t)
      <4>1. L \in Seq(Nat)
        BY <2>4
      <4> HIDE DEF L
      <4>2. \A b, c \in Seq(Nat) : (L \o (S \o b)) \o c = L \o (S \o (b \o c))
        BY ONLY <1>2, <4>1, HeldLast, Zenon
      <4>3. (L \o (S \o p)) \o x = L \o (S \o (p \o x))
        BY ONLY <4>2, p \in Seq(Nat), x \in Seq(Nat), Zenon
      <4> QED BY ONLY <4>3, Zenon DEF L
    <3> QED BY ONLY <1>3, <3>1, Zenon
  <2> QED BY <1>1, <2>2, <2>3, <2>5, Zenon DEF Whole, S, a
<1> QED BY <1>6, <1>7

\* A packet made for another thread.
LEMMA WholeAfterOther ==
    ASSUME NEW m \in Seq(Made), NEW s \in Seq(Message), NEW g \in Seq(Nat), NEW p \in Seq(Nat),
           NEW h \in Seq(Nat), NEW e \in Made, NEW t \in Thread,
           e.thread # t,
           m # <<>> => h = <<>>,
           Whole(m, s, g, p, t)
    PROVE  Whole(Append(m, e), s, g \o h, p, t)
<1> DEFINE a == Append(m, e)
<1>1. Bytes(Encoded(a, t)) = Bytes(Encoded(m, t))
  <2>1. /\ Bytes(Encoded(m, t)) \in Seq(Nat)
        /\ Bytes(Encoded(a, t)) = Bytes(Encoded(m, t)) \o <<>>
    BY EncodedGrows
  <2> QED BY <2>1, ConcatEmptySeq
<1>2. Len(m) \in Nat /\ a # <<>> /\ \A i \in 1 .. Len(m) : a[i] = m[i]
  <2>1. Len(m) \in Nat
    BY LenProperties
  <2>2. a # <<>>
    <3>1. Len(a) = Len(m) + 1
      BY AppendProperties
    <3> HIDE DEF a
    <3> QED BY <2>1, <3>1, EmptySeq
  <2>3. \A i \in 1 .. Len(m) : a[i] = m[i]
    BY AppendProperties
  <2> QED BY <2>1, <2>2, <2>3, Zenon
<1>3. a[Len(m) + 1] = e
  BY AppendProperties
<1> HIDE DEF a
<1>4. Lead(a, g \o h, t) = Lead(m, g, t)
  <2>1. CASE m = <<>>
    <3>1. a[1] = e
      BY <1>3, <2>1, EmptySeq
    <3> QED BY <2>1, <3>1 DEF Lead
  <2>2. CASE m # <<>>
    <3>1. a[1] = m[1]
      BY <1>2, <2>2, EmptySeq
    <3>2. g \o h = g
      BY <2>2, ConcatEmptySeq
    <3> QED BY <1>2, <2>2, <3>1, <3>2 DEF Lead
  <2> QED BY <2>1, <2>2
<1> QED BY <1>1, <1>4, Zenon DEF Whole, a

\* A message of which t's stream has the DATA of its own.
LEMMA WholeAfterMessage ==
    ASSUME NEW m \in Seq(Made), NEW s \in Seq(Message), NEW g \in Seq(Nat), NEW p \in Seq(Nat),
           NEW e \in Message, NEW t \in Thread,
           Whole(m, s, g, p, t)
    PROVE  /\ e.thread = t /\ e.type = "DATA" /\ e.payload = p => Whole(m, Append(s, e), g, <<>>, t)
           /\ ~(e.thread = t /\ e.type = "DATA") => Whole(m, Append(s, e), g, p, t)
<1> DEFINE S == Bytes(Sent(s, t))
           a == Append(s, e)
<1>1. /\ S \in Seq(Nat)
      /\ Bytes(Sent(a, t)) = S \o (IF e.thread = t /\ e.type = "DATA" THEN e.payload ELSE <<>>)
  BY SentGrows
<1>2. Bytes(Encoded(m, t)) = Lead(m, g, t) \o (S \o p)
  BY DEF Whole
<1> HIDE DEF S, a
<1>3. ASSUME e.thread = t, e.type = "DATA", e.payload = p PROVE Whole(m, a, g, <<>>, t)
  <2>1. Bytes(Sent(a, t)) = S \o p
    BY <1>1, <1>3
  <2>2. S \o p \in Seq(Nat)
    BY <1>1, ConcatProperties
  <2>3. (S \o p) \o <<>> = S \o p
    BY <2>2, ConcatEmptySeq
  <2> QED BY <1>2, <2>1, <2>3, Zenon DEF Whole
<1>4. ASSUME ~(e.thread = t /\ e.type = "DATA") PROVE Whole(m, a, g, p, t)
  <2>1. Bytes(Sent(a, t)) = S \o <<>>
    BY <1>1, <1>4
  <2>2. S \o <<>> = S
    BY <1>1, ConcatEmptySeq
  <2> QED BY <1>2, <2>1, <2>2, Zenon DEF Whole
<1> QED BY <1>3, <1>4 DEF a

--------------------------------------------------------------------------------
(* The inductive invariant *)

\* What TypeOK leaves out: the bytes and the history.
Typed ==
    /\ TypeOK
    /\ opening \in Openings
    /\ pps_sps \in Seq(Nat)
    /\ packet \in [Thread -> Seq(Nat)]
    /\ made \in Seq(Made)
    /\ send \in Seq(Message)

\* pts_ counts the packets, and the header is in pps_sps_ from the first one on; a
\* context that has made a packet is not the first packet's any more.
Header ==
    /\ pts = Len(made)
    /\ encoder = "used" => pts > 0
    /\ pps_sps = IF pts = 0 THEN <<>> ELSE opening[1] \o opening[2]

\* No packet shows a picture later than the one its thread now has.
Shown == \A i \in DOMAIN made : made[i].picture <= raw[made[i].thread]

\* The inductive invariant.
Inv == Typed /\ Header /\ Shown /\ PicturesInOrder /\ HeaderIntact /\ WholeStream

\* WholeStream, a thread at a time.
LEMMA WholeEach == WholeStream <=> \A t \in Thread : Whole(made, send, pps_sps, packet[t], t)
BY DEF WholeStream, Whole, Encoded, Sent, Lead

\* A packet the encoder makes is cut into a header, which is SPS and PPS for the
\* first packet and nothing for a later one, and the rest.
LEMMA PacketIsCut ==
    ASSUME Typed, Header, NEW t \in Thread, EncodeSucceeds(t)
    PROVE  \E h, x \in Seq(Nat) :
              /\ pps_sps' = pps_sps \o h
              /\ packet' = [packet EXCEPT ![t] = packet[t] \o x]
              /\ made' = Append(made, [data |-> h \o x, picture |-> raw[t], thread |-> t])
              /\ encoder' = "used" /\ pts' = pts + 1
              /\ h = IF pts = 0 THEN opening[1] \o opening[2] ELSE <<>>
<1>1. PICK data \in {FlattenSeq(opening)} \cup (IF encoder = "used" THEN Later ELSE {}) :
        /\ CutHeader(t, data)
        /\ made' = Append(made, [data |-> data, picture |-> raw[t], thread |-> t])
  BY DEF EncodeSucceeds
<1>2. encoder' = "used" /\ pts' = pts + 1 /\ pts \in Nat /\ opening \in Openings
  BY DEF EncodeSucceeds, Typed, TypeOK
<1> DEFINE cut == IF pts = 0 THEN seek_nalu(data, 2) ELSE 0
           h == SubSeq(data, 1, cut)
           x == SubSeq(data, cut + 1, Len(data))
<1>3. /\ pps_sps' = pps_sps \o h
      /\ packet' = [packet EXCEPT ![t] = packet[t] \o x]
  BY <1>1 DEF CutHeader
<1>4. data \in Seq(Nat)
  BY <1>1, <1>2, HeaderFound, LaterAssumption
<1>5. cut \in 0 .. Len(data) /\ h = IF pts = 0 THEN opening[1] \o opening[2] ELSE <<>>
  <2>1. CASE pts = 0
    <3>1. data = FlattenSeq(opening)
      BY <1>1, <2>1 DEF Header
    <3> QED BY <1>2, <2>1, <3>1, HeaderFound
  <2>2. CASE pts # 0
    BY <1>4, <2>2, LenProperties, SubSeqEmpty
  <2> QED BY <2>1, <2>2
<1> HIDE DEF cut
<1>6. h \in Seq(Nat) /\ x \in Seq(Nat) /\ h \o x = data
  BY ONLY <1>4, <1>5, CutInTwo, Zenon
<1> HIDE DEF h, x
<1> QED BY <1>1, <1>2, <1>3, <1>5, <1>6, Zenon

\* The steps, one by one.
LEMMA NextSteps ==
    ASSUME [Next]_vars
    PROVE  \/ ScreenChanges
           \/ Crash
           \/ \E t \in Thread : handle_session_request(t)
           \/ \E t \in Thread : get_frame(t)
           \/ \E t \in Thread : encode_frame(t)
           \/ \E t \in Thread : SendParams(t)
           \/ \E t \in Thread : SendData(t)
           \/ UNCHANGED vars
BY Zenon DEF Next, handle_encode

\* The invariant holds at the start.
LEMMA InitInv == Init => Inv
<1> SUFFICES ASSUME Init PROVE Inv
  OBVIOUS
<1> USE DEF Init
<1>1. TypeOK
  <2>1. screen \in 1 .. MaxPictures /\ acquired \in Blank .. screen
    BY BoundAssumption DEF Blank
  <2>2. raw \in [Thread -> Blank .. screen]
    BY DEF Blank
  <2>3. \A t \in Thread : packet[t] = <<>>
    OBVIOUS
  <2>4. /\ capture \in {"null", "untextured", "looping", "ready"}
        /\ encoder \in {"null", "broken", "fresh", "used"} /\ pts \in Nat
        /\ at \in [Thread -> {"none", "capture", "encode", "params", "data"}]
        /\ crashed \in BOOLEAN
    BY DEF CaptureInit
  <2> QED BY ONLY <2>1, <2>2, <2>3, <2>4, Zenon DEF TypeOK
<1>2. Typed
  BY <1>1, EmptySeq DEF Typed
<1>3. Header
  BY EmptySeq DEF Header
<1>4. Shown /\ PicturesInOrder /\ HeaderIntact
  BY DEF Shown, PicturesInOrder, HeaderIntact
<1>5. WholeStream
  <2>1. ASSUME NEW t \in Thread PROVE Whole(made, send, pps_sps, packet[t], t)
    <3>1. Encoded(made, t) = <<>> /\ Sent(send, t) = <<>>
      BY DEF Encoded, Sent
    <3>2. Bytes(<<>>) = <<>>
      BY DEF Bytes, FlattenSeq
    <3>3. Lead(made, pps_sps, t) = <<>> /\ packet[t] = <<>>
      BY DEF Lead
    <3>4. <<>> = <<>> \o (<<>> \o <<>>)
      OBVIOUS
    <3> QED BY <3>1, <3>2, <3>3, <3>4, Zenon DEF Whole
  <2> QED BY <2>1, WholeEach
<1> QED BY <1>2, <1>3, <1>4, <1>5 DEF Inv

\* The message a step queues is one.
LEMMA QueuedTyped ==
    ASSUME Typed, NEW t \in Thread, NEW k \in {"VIDEO_PARAMS", "DATA"}, NEW x \in Seq(Nat),
           enqueue_msg(t, k, x)
    PROVE  /\ [type |-> k, payload |-> x, thread |-> t, after |-> Len(made)] \in Message
           /\ send' = Append(send, [type |-> k, payload |-> x, thread |-> t, after |-> Len(made)])
           /\ send' \in Seq(Message)
<1> DEFINE e == [type |-> k, payload |-> x, thread |-> t, after |-> Len(made)]
<1>1. Len(made) \in Nat
  BY LenProperties DEF Typed
<1>2. e \in Message
  BY <1>1 DEF Message
<1>3. send' = Append(send, e)
  BY DEF enqueue_msg
<1> HIDE DEF e
<1>4. send' \in Seq(Message)
  BY <1>2, <1>3, AppendProperties DEF Typed
<1> QED BY <1>2, <1>3, <1>4 DEF e

\* Types are kept.
LEMMA TypedStep == ASSUME Typed, Header, [Next]_vars PROVE Typed'
<1> USE DEF Blank
<1>0. TypeOK
  BY DEF Typed
<1>1. CASE ScreenChanges
  <2>1. TypeOK'
    BY <1>0, <1>1, BoundAssumption DEF ScreenChanges, TypeOK
  <2> QED BY <1>1, <2>1 DEF ScreenChanges, Typed
<1>2. CASE Crash
  <2>1. TypeOK'
    BY <1>0, <1>2 DEF Crash, TypeOK
  <2> QED BY <1>2, <2>1 DEF Crash, Typed
<1>3. ASSUME NEW t \in Thread, handle_session_request(t) PROVE Typed'
  <2>1. encoder' \in {"null", "broken", "fresh", "used"}
    BY <1>3 DEF handle_session_request, EncoderInit
  <2>2. TypeOK'
    BY <1>0, <1>3, <2>1 DEF handle_session_request, TypeOK
  <2> QED BY <1>3, <2>2 DEF handle_session_request, Typed
<1>4. ASSUME NEW t \in Thread, get_frame(t) PROVE Typed'
  <2>1. acquired' \in 0 .. screen /\ raw' \in [Thread -> 0 .. screen]
    BY <1>0, <1>4 DEF get_frame, TypeOK
  <2>2. \A u \in Thread : packet[u] # <<>> => at'[u] \in {"params", "data"}
    BY <1>0, <1>4 DEF get_frame, TypeOK
  <2>3. TypeOK'
    BY <1>0, <1>4, <2>1, <2>2 DEF get_frame, TypeOK
  <2> QED BY <1>4, <2>3 DEF get_frame, Typed
<1>5. ASSUME NEW t \in Thread, encode_frame(t) PROVE Typed'
  <2>1. /\ encoder' \in {"null", "broken", "fresh", "used"} /\ pts' \in Nat
        /\ pps_sps' \in Seq(Nat) /\ packet' \in [Thread -> Seq(Nat)] /\ made' \in Seq(Made)
        /\ \A u \in Thread \ {t} : packet'[u] = packet[u]
    <3>1. CASE EncodeFails
      BY <1>0, <3>1 DEF EncodeFails, Typed, TypeOK
    <3>2. CASE EncodeSucceeds(t)
      <4>1. PICK h, x \in Seq(Nat) :
              /\ pps_sps' = pps_sps \o h
              /\ packet' = [packet EXCEPT ![t] = packet[t] \o x]
              /\ made' = Append(made, [data |-> h \o x, picture |-> raw[t], thread |-> t])
              /\ encoder' = "used" /\ pts' = pts + 1
        BY <3>2, PacketIsCut, Zenon
      <4>2. /\ packet \in [Thread -> Seq(Nat)] /\ packet[t] \in Seq(Nat)
            /\ pps_sps \in Seq(Nat) /\ made \in Seq(Made)
        BY DEF Typed
      <4>3. pps_sps \o h \in Seq(Nat) /\ packet[t] \o x \in Seq(Nat) /\ h \o x \in Seq(Nat)
        BY <4>2, ConcatProperties
      <4>4. [data |-> h \o x, picture |-> raw[t], thread |-> t] \in Made
        BY <1>0, <4>3 DEF Made, TypeOK
      <4>5. made' \in Seq(Made)
        BY <4>1, <4>2, <4>4, AppendProperties
      <4> QED BY <1>0, <4>1, <4>2, <4>3, <4>5 DEF TypeOK
    <3> QED BY <1>5, <3>1, <3>2 DEF encode_frame
  <2>2. /\ at' \in [Thread -> {"none", "capture", "encode", "params", "data"}]
        /\ at'[t] \in {"params", "data"}
        /\ \A u \in Thread \ {t} : at'[u] = at[u]
    BY <1>0, <1>5 DEF encode_frame, TypeOK
  <2>3. \A u \in Thread : packet'[u] # <<>> => at'[u] \in {"params", "data"}
    BY <1>0, <2>1, <2>2 DEF TypeOK
  <2>4. UNCHANGED <<capture, screen, acquired, opening, raw, send, crashed>>
    BY <1>5 DEF encode_frame
  <2>5. TypeOK'
    BY <1>0, <2>1, <2>2, <2>3, <2>4 DEF TypeOK
  <2> QED BY <2>1, <2>4, <2>5 DEF Typed
<1>6. ASSUME NEW t \in Thread, SendParams(t) PROVE Typed'
  <2>1. send' \in Seq(Message)
    BY <1>6, QueuedTyped DEF SendParams, Typed
  <2>2. TypeOK'
    BY <1>0, <1>6 DEF SendParams, TypeOK
  <2> QED BY <1>6, <2>1, <2>2 DEF SendParams, Typed
<1>7. ASSUME NEW t \in Thread, SendData(t) PROVE Typed'
  <2>1. packet[t] \in Seq(Nat)
    BY DEF Typed
  <2>2. send' \in Seq(Message)
    BY <1>7, <2>1, QueuedTyped DEF SendData
  <2>3. /\ packet' \in [Thread -> Seq(Nat)] /\ packet'[t] = <<>>
        /\ \A u \in Thread \ {t} : packet'[u] = packet[u]
    BY <1>7, EmptySeq DEF SendData, Typed
  <2>4. at' \in [Thread -> {"none", "capture", "encode", "params", "data"}]
        /\ \A u \in Thread \ {t} : at'[u] = at[u]
    BY <1>0, <1>7 DEF SendData, TypeOK
  <2>5. TypeOK'
    BY <1>0, <1>7, <2>3, <2>4 DEF SendData, TypeOK
  <2> QED BY <1>7, <2>2, <2>3, <2>5 DEF SendData, Typed
<1>8. CASE UNCHANGED vars
  BY <1>0, <1>8 DEF vars, TypeOK, Typed
<1> QED BY <1>1, <1>2, <1>3, <1>4, <1>5, <1>6, <1>7, <1>8, NextSteps

\* The header is there from the first packet on.
LEMMA HeaderStep == ASSUME Typed, Header, [Next]_vars PROVE Header'
<1>1. CASE ScreenChanges
  BY <1>1 DEF ScreenChanges, Header
<1>2. CASE Crash
  BY <1>2 DEF Crash, Header
<1>3. ASSUME NEW t \in Thread, handle_session_request(t) PROVE Header'
  BY <1>3 DEF handle_session_request, EncoderInit, Header
<1>4. ASSUME NEW t \in Thread, get_frame(t) PROVE Header'
  BY <1>4 DEF get_frame, Header
<1>5. ASSUME NEW t \in Thread, encode_frame(t) PROVE Header'
  <2>0. opening' = opening
    BY <1>5 DEF encode_frame
  <2>1. CASE EncodeFails
    BY <2>0, <2>1 DEF EncodeFails, Header
  <2>2. CASE EncodeSucceeds(t)
    <3>1. PICK h, x \in Seq(Nat) :
            /\ pps_sps' = pps_sps \o h
            /\ made' = Append(made, [data |-> h \o x, picture |-> raw[t], thread |-> t])
            /\ encoder' = "used" /\ pts' = pts + 1
            /\ h = IF pts = 0 THEN opening[1] \o opening[2] ELSE <<>>
      BY <2>2, PacketIsCut, Zenon
    <3>2. pts \in Nat /\ pts' > 0 /\ pts' # 0
      BY <3>1 DEF Typed, TypeOK
    <3>3. pts' = Len(made')
      <4>1. [data |-> h \o x, picture |-> raw[t], thread |-> t] \in Made
        <5>1. h \o x \in Seq(Nat)
          BY ConcatProperties
        <5>2. raw[t] \in Nat
          BY DEF Typed, TypeOK, Blank
        <5> QED BY <5>1, <5>2 DEF Made
      <4>2. Len(made') = Len(made) + 1
        BY <3>1, <4>1, AppendProperties DEF Typed
      <4> QED BY <3>1, <4>2 DEF Header
    <3>4. pps_sps' = opening[1] \o opening[2]
      <4>1. CASE pts = 0
        <5>1. pps_sps = <<>> /\ h = opening[1] \o opening[2]
          BY <3>1, <4>1 DEF Header
        <5> QED BY <3>1, <5>1, ConcatEmptySeq
      <4>2. CASE pts # 0
        <5>1. pps_sps = opening[1] \o opening[2] /\ h = <<>> /\ pps_sps \in Seq(Nat)
          BY <3>1, <4>2 DEF Header, Typed
        <5>2. pps_sps \o <<>> = pps_sps
          BY <5>1, ConcatEmptySeq
        <5> QED BY <3>1, <5>1, <5>2, Zenon
      <4> QED BY <4>1, <4>2
    <3> QED BY <2>0, <3>2, <3>3, <3>4 DEF Header
  <2> QED BY <1>5, <2>1, <2>2 DEF encode_frame
<1>6. ASSUME NEW t \in Thread, SendParams(t) PROVE Header'
  BY <1>6 DEF SendParams, Header
<1>7. ASSUME NEW t \in Thread, SendData(t) PROVE Header'
  BY <1>7 DEF SendData, Header
<1>8. CASE UNCHANGED vars
  BY <1>8 DEF vars, Header
<1> QED BY <1>1, <1>2, <1>3, <1>4, <1>5, <1>6, <1>7, <1>8, NextSteps

\* What a packet adds to the history.
LEMMA HistoryGrows ==
    ASSUME Typed, Header, NEW t \in Thread, EncodeSucceeds(t)
    PROVE  /\ Len(made) \in Nat /\ DOMAIN made = 1 .. Len(made)
           /\ DOMAIN made' = 1 .. (Len(made) + 1)
           /\ \A i \in 1 .. Len(made) : made'[i] = made[i] /\ made[i] \in Made
           /\ made'[Len(made) + 1].picture = raw[t] /\ made'[Len(made) + 1].thread = t
<1>1. PICK h, x \in Seq(Nat) :
        made' = Append(made, [data |-> h \o x, picture |-> raw[t], thread |-> t])
  BY PacketIsCut, Zenon
<1> DEFINE e == [data |-> h \o x, picture |-> raw[t], thread |-> t]
<1>2. e \in Made /\ e.picture = raw[t] /\ e.thread = t
  <2>1. h \o x \in Seq(Nat)
    BY ConcatProperties
  <2>2. raw[t] \in Nat
    BY DEF Typed, TypeOK, Blank
  <2> QED BY <2>1, <2>2 DEF Made
<1>3. made' = Append(made, e)
  BY <1>1
<1> HIDE DEF e
<1>4. made \in Seq(Made)
  BY DEF Typed
<1>5. /\ made' \in Seq(Made) /\ Len(made') = Len(made) + 1
      /\ \A i \in 1 .. Len(made) : made'[i] = made[i]
      /\ made'[Len(made) + 1] = e
  BY <1>2, <1>3, <1>4, AppendProperties
<1>6. /\ Len(made) \in Nat /\ DOMAIN made = 1 .. Len(made) /\ DOMAIN made' = 1 .. (Len(made) + 1)
      /\ \A i \in 1 .. Len(made) : made[i] \in Made
  BY <1>4, <1>5, LenProperties, ElementOfSeq
<1> QED BY <1>2, <1>5, <1>6, Zenon

\* A thread's picture never goes back.
LEMMA RawGrows ==
    ASSUME Typed, NEW t \in Thread, get_frame(t)
    PROVE  \A u \in Thread : raw[u] \in Nat /\ raw'[u] \in Nat /\ raw[u] <= raw'[u]
<1>1. screen \in Nat /\ raw \in [Thread -> 0 .. screen]
  BY BoundAssumption DEF Typed, TypeOK, Blank
<1>2. raw' = raw \/ raw' = [raw EXCEPT ![t] = screen]
  BY DEF get_frame
<1> QED BY <1>1, <1>2

\* No packet shows a picture later than its thread's.
LEMMA ShownStep == ASSUME Typed, Header, Shown, [Next]_vars PROVE Shown'
<1>0. made \in Seq(Made) /\ DOMAIN made = 1 .. Len(made) /\ \A i \in DOMAIN made : made[i] \in Made
  BY LenProperties, ElementOfSeq DEF Typed
<1>1. ASSUME UNCHANGED <<made, raw>> PROVE Shown'
  BY <1>1 DEF Shown
<1>2. ASSUME NEW t \in Thread, get_frame(t) PROVE Shown'
  <2>1. made' = made
    BY <1>2 DEF get_frame
  <2>2. ASSUME NEW i \in DOMAIN made PROVE made[i].picture <= raw'[made[i].thread]
    <3>1. made[i].thread \in Thread /\ made[i].picture \in Nat
      BY <1>0 DEF Made
    <3>2. made[i].picture <= raw[made[i].thread]
      BY DEF Shown
    <3>3. /\ raw[made[i].thread] \in Nat /\ raw'[made[i].thread] \in Nat
          /\ raw[made[i].thread] <= raw'[made[i].thread]
      BY <1>2, <3>1, RawGrows, Zenon
    <3> QED BY ONLY <3>1, <3>2, <3>3
  <2> QED BY <2>1, <2>2 DEF Shown
<1>3. ASSUME NEW t \in Thread, encode_frame(t) PROVE Shown'
  <2>0. raw' = raw
    BY <1>3 DEF encode_frame
  <2>1. CASE EncodeFails
    BY <1>1, <2>0, <2>1 DEF EncodeFails
  <2>2. CASE EncodeSucceeds(t)
    <3>1. /\ Len(made) \in Nat /\ DOMAIN made = 1 .. Len(made)
          /\ DOMAIN made' = 1 .. (Len(made) + 1)
          /\ \A i \in 1 .. Len(made) : made'[i] = made[i]
          /\ made'[Len(made) + 1].picture = raw[t] /\ made'[Len(made) + 1].thread = t
      BY <2>2, HistoryGrows
    <3>2. ASSUME NEW i \in DOMAIN made' PROVE made'[i].picture <= raw[made'[i].thread]
      <4>1. i = Len(made) + 1 \/ i \in 1 .. Len(made)
        BY <3>1
      <4>2. CASE i = Len(made) + 1
        <5>1. raw[t] \in Nat
          BY DEF Typed, TypeOK, Blank
        <5> QED BY <3>1, <4>2, <5>1
      <4>3. CASE i \in 1 .. Len(made)
        BY <3>1, <4>3 DEF Shown
      <4> QED BY <4>1, <4>2, <4>3
    <3> QED BY <2>0, <3>2 DEF Shown
  <2> QED BY <1>3, <2>1, <2>2 DEF encode_frame
<1>4. \/ UNCHANGED <<made, raw>>
      \/ \E t \in Thread : get_frame(t)
      \/ \E t \in Thread : encode_frame(t)
  BY NextSteps DEF ScreenChanges, Crash, handle_session_request, SendParams, SendData, vars
<1> QED BY <1>1, <1>2, <1>3, <1>4

\* Pictures stay in order.
LEMMA OrderStep == ASSUME Typed, Header, Shown, PicturesInOrder, [Next]_vars PROVE PicturesInOrder'
<1>1. ASSUME made' = made PROVE PicturesInOrder'
  BY <1>1 DEF PicturesInOrder
<1>2. ASSUME NEW t \in Thread, EncodeSucceeds(t) PROVE PicturesInOrder'
  <2>1. /\ Len(made) \in Nat /\ DOMAIN made = 1 .. Len(made)
        /\ DOMAIN made' = 1 .. (Len(made) + 1)
        /\ \A i \in 1 .. Len(made) : made'[i] = made[i]
        /\ made'[Len(made) + 1].picture = raw[t] /\ made'[Len(made) + 1].thread = t
    BY <1>2, HistoryGrows
  <2>2. ASSUME NEW i \in DOMAIN made', NEW j \in DOMAIN made', i < j,
               made'[i].thread = made'[j].thread
        PROVE  made'[i].picture <= made'[j].picture
    <3>1. i \in 1 .. Len(made) /\ (j = Len(made) + 1 \/ j \in 1 .. Len(made))
      BY <2>1, <2>2
    <3>2. CASE j = Len(made) + 1
      BY <2>1, <2>2, <3>1, <3>2 DEF Shown
    <3>3. CASE j \in 1 .. Len(made)
      BY <2>1, <2>2, <3>1, <3>3 DEF PicturesInOrder
    <3> QED BY <3>1, <3>2, <3>3
  <2> QED BY <2>2 DEF PicturesInOrder
<1>3. made' = made \/ \E t \in Thread : EncodeSucceeds(t)
  BY NextSteps DEF ScreenChanges, Crash, handle_session_request, get_frame, encode_frame,
        EncodeFails, SendParams, SendData, vars
<1> QED BY <1>1, <1>2, <1>3

\* A header that is sent is whole.
LEMMA IntactStep == ASSUME Typed, Header, HeaderIntact, [Next]_vars PROVE HeaderIntact'
<1>0. opening' = opening
  BY NextSteps DEF ScreenChanges, Crash, handle_session_request, get_frame, encode_frame,
        SendParams, SendData, vars
<1>1. ASSUME send' = send PROVE HeaderIntact'
  BY <1>0, <1>1 DEF HeaderIntact
<1>2. ASSUME NEW t \in Thread, NEW k \in {"VIDEO_PARAMS", "DATA"}, NEW x \in Seq(Nat),
             enqueue_msg(t, k, x), k = "VIDEO_PARAMS" => x = pps_sps
      PROVE  HeaderIntact'
  <2> DEFINE e == [type |-> k, payload |-> x, thread |-> t, after |-> Len(made)]
  <2>1. e \in Message /\ send' = Append(send, e) /\ send' \in Seq(Message)
    BY <1>2, QueuedTyped
  <2>2. e.type = k /\ e.payload = x /\ e.after = Len(made)
    OBVIOUS
  <2> HIDE DEF e
  <2>3. send \in Seq(Message) /\ Len(send) \in Nat /\ DOMAIN send = 1 .. Len(send)
    BY LenProperties DEF Typed
  <2>4. /\ DOMAIN send' = 1 .. (Len(send) + 1)
        /\ \A i \in 1 .. Len(send) : send'[i] = send[i]
        /\ send'[Len(send) + 1] = e
    BY <2>1, <2>3, AppendProperties, LenProperties
  <2>5. ASSUME NEW i \in DOMAIN send', send'[i].type = "VIDEO_PARAMS"
        PROVE  \/ send'[i].payload = opening[1] \o opening[2]
               \/ send'[i].payload = <<>> /\ send'[i].after = 0
    <3>1. i = Len(send) + 1 \/ i \in 1 .. Len(send)
      BY <2>3, <2>4
    <3>2. CASE i = Len(send) + 1
      BY <1>2, <2>2, <2>4, <2>5, <3>2 DEF Header
    <3>3. CASE i \in 1 .. Len(send)
      BY <2>3, <2>4, <2>5, <3>3 DEF HeaderIntact
    <3> QED BY <3>1, <3>2, <3>3
  <2> QED BY <1>0, <2>5 DEF HeaderIntact
<1>3. ASSUME NEW t \in Thread, SendParams(t) PROVE HeaderIntact'
  BY <1>2, <1>3 DEF SendParams, Typed
<1>4. ASSUME NEW t \in Thread, SendData(t) PROVE HeaderIntact'
  <2>1. packet[t] \in Seq(Nat)
    BY DEF Typed
  <2> QED BY <1>2, <1>4, <2>1 DEF SendData
<1>5. \/ send' = send
      \/ \E t \in Thread : SendParams(t)
      \/ \E t \in Thread : SendData(t)
  BY NextSteps DEF ScreenChanges, Crash, handle_session_request, get_frame, encode_frame, vars
<1> QED BY <1>1, <1>3, <1>4, <1>5

\* Streams stay whole.
LEMMA WholeStep == ASSUME Typed, Header, WholeStream, [Next]_vars PROVE WholeStream'
<1>0. \A u \in Thread : Whole(made, send, pps_sps, packet[u], u)
  BY WholeEach
<1>1. SUFFICES ASSUME NEW u \in Thread PROVE Whole(made', send', pps_sps', packet'[u], u)
  BY DEF WholeStream, Whole, Encoded, Sent, Lead
<1>2. made \in Seq(Made) /\ send \in Seq(Message) /\ pps_sps \in Seq(Nat) /\ packet[u] \in Seq(Nat)
  BY DEF Typed
<1>3. Whole(made, send, pps_sps, packet[u], u)
  BY <1>0
<1>4. CASE UNCHANGED <<made, send, pps_sps, packet>>
  BY <1>3, <1>4
<1>5. ASSUME NEW t \in Thread, EncodeSucceeds(t), send' = send
      PROVE  Whole(made', send', pps_sps', packet'[u], u)
  <2>1. PICK h, x \in Seq(Nat) :
          /\ pps_sps' = pps_sps \o h
          /\ packet' = [packet EXCEPT ![t] = packet[t] \o x]
          /\ made' = Append(made, [data |-> h \o x, picture |-> raw[t], thread |-> t])
          /\ h = IF pts = 0 THEN opening[1] \o opening[2] ELSE <<>>
    BY <1>5, PacketIsCut, Zenon
  <2> DEFINE e == [data |-> h \o x, picture |-> raw[t], thread |-> t]
  <2>2. e \in Made /\ e.data = h \o x /\ e.thread = t
    <3>1. h \o x \in Seq(Nat)
      BY ConcatProperties
    <3>2. raw[t] \in Nat
      BY DEF Typed, TypeOK, Blank
    <3> QED BY <3>1, <3>2 DEF Made
  <2>3. made' = Append(made, e)
    BY <2>1
  <2> HIDE DEF e
  <2>4. (made = <<>> => pps_sps = <<>>) /\ (made # <<>> => h = <<>>)
    <3>1. pts = Len(made)
      BY DEF Header
    <3>2. made = <<>> => pts = 0
      BY <3>1, EmptySeq
    <3>3. made # <<>> => pts # 0
      BY <1>2, <3>1, EmptySeq
    <3> QED BY <2>1, <3>2, <3>3 DEF Header
  <2>5. CASE u = t
    <3>1. packet'[u] = packet[u] \o x
      BY <2>1, <2>5 DEF Typed
    <3>2. e.thread = u
      BY <2>2, <2>5
    <3>3. Whole(Append(made, e), send, pps_sps \o h, packet[u] \o x, u)
      BY ONLY <1>2, <1>3, <2>2, <2>4, <3>2, u \in Thread, h \in Seq(Nat), x \in Seq(Nat),
              WholeAfterPacket
    <3> QED BY ONLY <1>5, <2>1, <2>3, <3>1, <3>3, Zenon
  <2>6. CASE u # t
    <3>1. packet'[u] = packet[u]
      BY <2>1, <2>6 DEF Typed
    <3>2. e.thread # u
      BY <2>2, <2>6
    <3>3. Whole(Append(made, e), send, pps_sps \o h, packet[u], u)
      BY ONLY <1>2, <1>3, <2>2, <2>4, <3>2, u \in Thread, h \in Seq(Nat), WholeAfterOther
    <3> QED BY ONLY <1>5, <2>1, <2>3, <3>1, <3>3, Zenon
  <2> QED BY <2>5, <2>6
<1>6. ASSUME NEW t \in Thread, SendParams(t)
      PROVE  Whole(made', send', pps_sps', packet'[u], u)
  <2> DEFINE e == [type |-> "VIDEO_PARAMS", payload |-> pps_sps, thread |-> t, after |-> Len(made)]
  <2>1. e \in Message /\ send' = Append(send, e)
    BY <1>2, <1>6, QueuedTyped DEF SendParams
  <2>2. ~(e.thread = u /\ e.type = "DATA")
    OBVIOUS
  <2> HIDE DEF e
  <2>3. Whole(made, Append(send, e), pps_sps, packet[u], u)
    BY ONLY <1>2, <1>3, <2>1, <2>2, u \in Thread, WholeAfterMessage
  <2>4. UNCHANGED <<made, pps_sps, packet>>
    BY <1>6 DEF SendParams
  <2> QED BY <2>1, <2>3, <2>4
<1>7. ASSUME NEW t \in Thread, SendData(t)
      PROVE  Whole(made', send', pps_sps', packet'[u], u)
  <2> DEFINE e == [type |-> "DATA", payload |-> packet[t], thread |-> t, after |-> Len(made)]
  <2>0. packet[t] \in Seq(Nat)
    BY DEF Typed
  <2>1. e \in Message /\ send' = Append(send, e)
    BY <1>7, <2>0, QueuedTyped DEF SendData
  <2>2. e.thread = t /\ e.type = "DATA" /\ e.payload = packet[t]
    OBVIOUS
  <2> HIDE DEF e
  <2>3. /\ e.thread = u /\ e.type = "DATA" /\ e.payload = packet[u] =>
                Whole(made, Append(send, e), pps_sps, <<>>, u)
        /\ ~(e.thread = u /\ e.type = "DATA") => Whole(made, Append(send, e), pps_sps, packet[u], u)
    BY ONLY <1>2, <1>3, <2>1, u \in Thread, WholeAfterMessage
  <2>4. UNCHANGED <<made, pps_sps>> /\ packet' = [packet EXCEPT ![t] = <<>>]
    BY <1>7 DEF SendData
  <2>5. CASE u = t
    <3>1. packet'[u] = <<>>
      BY <2>4, <2>5 DEF Typed
    <3> QED BY <2>1, <2>2, <2>3, <2>4, <2>5, <3>1
  <2>6. CASE u # t
    <3>1. packet'[u] = packet[u]
      BY <2>4, <2>6 DEF Typed
    <3> QED BY <2>1, <2>2, <2>3, <2>4, <2>6, <3>1
  <2> QED BY <2>5, <2>6
<1>8. \/ UNCHANGED <<made, send, pps_sps, packet>>
      \/ \E t \in Thread : EncodeSucceeds(t) /\ send' = send
      \/ \E t \in Thread : SendParams(t)
      \/ \E t \in Thread : SendData(t)
  BY NextSteps DEF ScreenChanges, Crash, handle_session_request, get_frame, encode_frame,
        EncodeFails, vars
<1> QED BY <1>4, <1>5, <1>6, <1>7, <1>8

--------------------------------------------------------------------------------
(* The theorems *)

\* The inductive invariant holds of every run.
THEOREM Invariance == Spec => []Inv
<1>1. Inv /\ [Next]_vars => Inv'
  BY TypedStep, HeaderStep, ShownStep, OrderStep, IntactStep, WholeStep DEF Inv
<1> QED BY <1>1, InitInv, PTL DEF Spec

\* Types are kept, and a packet is held only from its encoding to its sending,
\* through every failure of the capture and of the encoder (handle_encode).
THEOREM TypeCorrect == Spec => []TypeOK
<1>1. Inv => TypeOK
  BY DEF Inv, Typed
<1> QED BY <1>1, Invariance, PTL

\* Every VIDEO_PARAMS message has the whole SPS and PPS of the stream, or nothing if
\* no picture was encoded yet: seek_nalu finds the end of the second unit of any
\* first packet, and encode_frame cuts it out once.
THEOREM HeadersAreIntact == Spec => []HeaderIntact
<1>1. Inv => HeaderIntact
  BY DEF Inv
<1> QED BY <1>1, Invariance, PTL

\* A thread's DATA messages joined are what the encoder made for it, without the
\* header that was cut out (encode_frame and handle_encode).
THEOREM StreamIsWhole == Spec => []WholeStream
<1>1. Inv => WholeStream
  BY DEF Inv
<1> QED BY <1>1, Invariance, PTL

\* A thread never encodes an earlier picture after a later one (get_frame keeps
\* raw_frame when it fails).
THEOREM PicturesStayInOrder == Spec => []PicturesInOrder
<1>1. Inv => PicturesInOrder
  BY DEF Inv
<1> QED BY <1>1, Invariance, PTL
================================================================================
