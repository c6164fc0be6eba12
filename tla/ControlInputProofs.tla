-------------------------- MODULE ControlInputProofs --------------------------
(***************************************************************************)
(* Proofs about ControlInput, for any keys and buttons GLFW has, any       *)
(* positions, any size of the screen and any bounds.                       *)
(*                                                                         *)
(* Base ties messages and tasks to the events they come from.  On it rest  *)
(* Serial, which says how far the host is while the tasks come one after   *)
(* the other, and Ledger, which keeps book of the inputs however they      *)
(* overlap: the inputs injected and those the viewer meant are matched     *)
(* with the same set of pairs <<event, how many of its inputs>>.           *)
(***************************************************************************)
EXTENDS ControlInput, SequenceTheorems, FiniteSetTheorems, WellFoundedInduction,
        NaturalsInduction, TLAPS

--------------------------------------------------------------------------------
(* Sequences one after the other, and pieces of one *)

\* What is at each place of two sequences one after the other.
LEMMA ConcatAt ==
    ASSUME NEW T, NEW r \in Seq(T), NEW s \in Seq(T)
    PROVE  /\ r \o s \in Seq(T)
           /\ Len(r) \in Nat /\ Len(s) \in Nat
           /\ Len(r \o s) = Len(r) + Len(s)
           /\ \A i \in 1 .. Len(r) : (r \o s)[i] = r[i]
           /\ \A i \in 1 .. Len(s) : (r \o s)[Len(r) + i] = s[i]
<1>1. Len(r) \in Nat /\ Len(s) \in Nat
  BY LenProperties
<1>2. /\ r \o s \in Seq(T)
      /\ Len(r \o s) = Len(r) + Len(s)
      /\ \A i \in 1 .. Len(r) + Len(s) :
            (r \o s)[i] = IF i <= Len(r) THEN r[i] ELSE s[i - Len(r)]
  BY ConcatProperties
<1>3. ASSUME NEW i \in 1 .. Len(r) PROVE (r \o s)[i] = r[i]
  <2>1. i \in 1 .. Len(r) + Len(s) /\ i <= Len(r)
    BY <1>1
  <2> QED BY <1>2, <2>1
<1>4. ASSUME NEW i \in 1 .. Len(s) PROVE (r \o s)[Len(r) + i] = s[i]
  <2>1. /\ Len(r) + i \in 1 .. Len(r) + Len(s) /\ ~(Len(r) + i <= Len(r))
        /\ Len(r) + i - Len(r) = i
    BY <1>1
  <2> QED BY <1>2, <2>1
<1> QED BY <1>1, <1>2, <1>3, <1>4

\* What was read of the stream is a prefix of the longer one too.
LEMMA PrefixStays ==
    ASSUME NEW T, NEW r \in Seq(T), NEW s \in Seq(T), NEW p \in Nat, p <= Len(r)
    PROVE  SubSeq(r \o s, 1, p) = SubSeq(r, 1, p)
<1>1. /\ r \o s \in Seq(T)
      /\ Len(r) \in Nat /\ Len(s) \in Nat
      /\ Len(r \o s) = Len(r) + Len(s)
      /\ \A i \in 1 .. Len(r) : (r \o s)[i] = r[i]
  BY ConcatAt
<1> DEFINE c == r \o s
<1>2. c \in Seq(T) /\ Len(c) \in Nat /\ p <= Len(c) /\ \A i \in 1 .. p : c[i] = r[i]
  BY <1>1
<1> HIDE DEF c
<1>3. /\ SubSeq(c, 1, p) = [i \in 1 .. p |-> c[i]]
      /\ SubSeq(r, 1, p) = [i \in 1 .. p |-> r[i]]
  BY <1>1, <1>2
<1>4. SubSeq(c, 1, p) = SubSeq(r, 1, p)
  BY <1>2, <1>3
<1> QED BY <1>4 DEF c

\* Appending to the second of two sequences.
LEMMA ConcatAppend ==
    ASSUME NEW T, NEW r \in Seq(T), NEW s \in Seq(T), NEW x \in T
    PROVE  r \o Append(s, x) = Append(r \o s, x) /\ r \o s \in Seq(T)
<1>1. <<x>> \in Seq(T) /\ r \o s \in Seq(T)
  BY ConcatProperties
<1>2. r \o (s \o <<x>>) = (r \o s) \o <<x>>
  BY <1>1, ConcatAssociative
<1> QED BY <1>1, <1>2, AppendIsConcat

--------------------------------------------------------------------------------
(* Induction over a set of numbers, and the entries of a list joined *)

\* A set of numbers that is not empty has a least one.
LEMMA LeastElement ==
    ASSUME NEW S \in SUBSET Nat, S # {}
    PROVE  \E m \in S : \A n \in S : m <= n
<1>1. \E x \in S : \A y \in S : ~(<<y, x>> \in OpToRel(<, Nat))
  BY NatLessThanWellFounded, WFMin
<1>2. \A x, y \in S : ~(<<y, x>> \in OpToRel(<, Nat)) => x <= y
  BY DEF OpToRel
<1> QED BY <1>1, <1>2

\* Induction over the natural numbers.
LEMMA SetInduction ==
    ASSUME NEW S \in SUBSET Nat, 0 \in S, \A n \in S : n + 1 \in S
    PROVE  S = Nat
<1>1. SUFFICES ASSUME Nat \ S # {} PROVE FALSE
  OBVIOUS
<1>2. PICK m \in Nat \ S : \A n \in Nat \ S : m <= n
  BY <1>1, LeastElement
<1>3. m # 0 /\ m - 1 \in Nat
  BY <1>2
<1>4. m - 1 \in S
  BY <1>2, <1>3
<1> QED BY <1>2, <1>3, <1>4

\* g[i] is what the first i entries of s give when they are joined.
Flattens(g, s, n) == g = [i \in 1 .. n |-> IF i = 1 THEN s[i] ELSE g[i - 1] \o s[i]]

\* FlattenSeq takes the last of these.
LEMMA FlattenChoice ==
    ASSUME NEW s, Len(s) # 0
    PROVE  FlattenSeq(s) = (CHOOSE g : Flattens(g, s, Len(s)))[Len(s)]
BY DEF FlattenSeq, Flattens

\* There is one.
LEMMA FlattenExists ==
    ASSUME NEW T, NEW s \in Seq(Seq(T)), NEW n \in 0 .. Len(s)
    PROVE  \E g : Flattens(g, s, n)
<1> DEFINE S == {m \in Nat : m <= Len(s) => \E g : Flattens(g, s, m)}
<1>1. 0 \in S
  <2>1. Flattens([i \in 1 .. 0 |-> s[1]], s, 0)
    BY DEF Flattens
  <2> QED BY <2>1
<1>2. ASSUME NEW m \in S PROVE m + 1 \in S
  <2>1. SUFFICES ASSUME m + 1 <= Len(s) PROVE \E g : Flattens(g, s, m + 1)
    BY <1>2
  <2>2. m \in Nat /\ Len(s) \in Nat
    BY <1>2, LenProperties
  <2>3. PICK g : Flattens(g, s, m)
    BY <1>2, <2>1, <2>2
  <2> DEFINE h == [i \in 1 .. (m + 1) |-> IF i = 1 THEN s[i] ELSE g[i - 1] \o s[i]]
  <2>4. ASSUME NEW i \in 1 .. m PROVE h[i] = g[i]
    <3>1. g[i] = IF i = 1 THEN s[i] ELSE g[i - 1] \o s[i]
      BY <2>3 DEF Flattens
    <3>2. i \in 1 .. (m + 1)
      BY <2>2
    <3> QED BY <3>1, <3>2
  <2>5. ASSUME NEW i \in 1 .. (m + 1)
        PROVE  h[i] = IF i = 1 THEN s[i] ELSE h[i - 1] \o s[i]
    <3>1. CASE i = 1
      BY <3>1
    <3>2. CASE i # 1
      <4>1. i - 1 \in 1 .. m
        BY <2>2, <3>2
      <4>2. h[i - 1] = g[i - 1]
        BY <2>4, <4>1
      <4>3. h[i] = g[i - 1] \o s[i]
        BY <3>2
      <4> HIDE DEF h
      <4> QED BY <3>2, <4>2, <4>3
    <3> QED BY <3>1, <3>2
  <2>6. h = [i \in 1 .. (m + 1) |-> h[i]]
    OBVIOUS
  <2> HIDE DEF h
  <2>7. Flattens(h, s, m + 1)
    BY <2>5, <2>6 DEF Flattens
  <2> QED BY <2>7
<1>3. S = Nat
  BY <1>1, <1>2, SetInduction
<1> QED BY <1>3, LenProperties

\* What it is at one place.
LEMMA FlattensAt ==
    ASSUME NEW g, NEW s, NEW n, Flattens(g, s, n), NEW i \in 1 .. n
    PROVE  g[i] = IF i = 1 THEN s[i] ELSE g[i - 1] \o s[i]
BY DEF Flattens

\* Those of a list and of the list with one more entry are the same up to there.
LEMMA FlattenAgree ==
    ASSUME NEW T, NEW s \in Seq(Seq(T)), NEW a, NEW g, NEW h,
           \A i \in 1 .. Len(s) : a[i] = s[i],
           Flattens(g, s, Len(s)), Flattens(h, a, Len(s) + 1)
    PROVE  \A i \in 1 .. Len(s) : g[i] = h[i] /\ g[i] \in Seq(T)
<1> DEFINE S == {m \in Nat : m \in 1 .. Len(s) => g[m] = h[m] /\ g[m] \in Seq(T)}
<1>1. 0 \in S
  OBVIOUS
<1>2. ASSUME NEW m \in S PROVE m + 1 \in S
  <2>1. SUFFICES ASSUME m + 1 \in 1 .. Len(s) PROVE g[m + 1] = h[m + 1] /\ g[m + 1] \in Seq(T)
    BY <1>2
  <2>2. m \in Nat /\ Len(s) \in Nat /\ m + 1 \in 1 .. (Len(s) + 1) /\ m + 1 - 1 = m
    BY <1>2, <2>1, LenProperties
  <2>3. a[m + 1] = s[m + 1] /\ s[m + 1] \in Seq(T)
    BY <2>1, ElementOfSeq
  <2>4. /\ g[m + 1] = IF m + 1 = 1 THEN s[m + 1] ELSE g[m] \o s[m + 1]
        /\ h[m + 1] = IF m + 1 = 1 THEN s[m + 1] ELSE h[m] \o s[m + 1]
    <3>1. g[m + 1] = IF m + 1 = 1 THEN s[m + 1] ELSE g[m + 1 - 1] \o s[m + 1]
      BY <2>1, FlattensAt
    <3>2. h[m + 1] = IF m + 1 = 1 THEN a[m + 1] ELSE h[m + 1 - 1] \o a[m + 1]
      BY <2>2, FlattensAt
    <3> QED BY <2>2, <2>3, <3>1, <3>2, Zenon
  <2>5. CASE m = 0
    BY <2>3, <2>4, <2>5
  <2>6. CASE m # 0
    <3>1. g[m] = h[m] /\ g[m] \in Seq(T)
      BY <1>2, <2>1, <2>2, <2>6
    <3>2. m + 1 # 1
      BY <2>2, <2>6
    <3> QED BY <2>3, <2>4, <3>1, <3>2, ConcatProperties
  <2> QED BY <2>5, <2>6
<1>3. S = Nat
  BY <1>1, <1>2, SetInduction
<1> QED BY <1>3

\* One more entry is joined to the end.
LEMMA FlattenAppend ==
    ASSUME NEW T, NEW s \in Seq(Seq(T)), NEW x \in Seq(T)
    PROVE  /\ FlattenSeq(s) \in Seq(T)
           /\ FlattenSeq(Append(s, x)) = FlattenSeq(s) \o x
<1> DEFINE a == Append(s, x)
           h == CHOOSE f : Flattens(f, a, Len(s) + 1)
           g == CHOOSE f : Flattens(f, s, Len(s))
<1>1. /\ a \in Seq(Seq(T))
      /\ Len(s) \in Nat
      /\ Len(a) = Len(s) + 1
      /\ a[Len(s) + 1] = x
      /\ \A i \in 1 .. Len(s) : a[i] = s[i]
  BY AppendProperties, LenProperties
<1>2. Flattens(h, a, Len(s) + 1)
  <2>1. \E f : Flattens(f, a, Len(s) + 1)
    <3>1. Len(s) + 1 \in 0 .. Len(a)
      BY <1>1
    <3> HIDE DEF a
    <3> QED BY <1>1, <3>1, FlattenExists
  <2> QED BY <2>1
<1>3. Flattens(g, s, Len(s))
  <2>1. \E f : Flattens(f, s, Len(s))
    BY <1>1, FlattenExists
  <2> QED BY <2>1
<1>4. FlattenSeq(a) = h[Len(s) + 1]
  <2>1. Len(a) # 0
    BY <1>1
  <2> HIDE DEF a
  <2> QED BY <1>1, <2>1, FlattenChoice
<1>5. Len(s) # 0 => FlattenSeq(s) = g[Len(s)]
  BY FlattenChoice
<1> HIDE DEF a, g, h
<1>6. h[Len(s) + 1] = IF Len(s) + 1 = 1 THEN x ELSE h[Len(s)] \o x
  <2>1. Len(s) + 1 \in 1 .. (Len(s) + 1) /\ Len(s) + 1 - 1 = Len(s)
    BY <1>1
  <2>2. h[Len(s) + 1] = IF Len(s) + 1 = 1 THEN a[Len(s) + 1] ELSE h[Len(s) + 1 - 1] \o a[Len(s) + 1]
    BY <1>2, <2>1, FlattensAt
  <2> QED BY <1>1, <2>1, <2>2
<1>7. CASE Len(s) = 0
  <2>1. s = <<>>
    BY <1>7, EmptySeq
  <2>2. FlattenSeq(s) = <<>>
    BY <1>7, <2>1 DEF FlattenSeq
  <2>3. FlattenSeq(a) = x
    BY <1>4, <1>6, <1>7
  <2> QED BY <2>2, <2>3, ConcatEmptySeq, EmptySeq DEF a
<1>8. CASE Len(s) # 0
  <2>1. Len(s) \in 1 .. Len(s) /\ Len(s) + 1 # 1
    BY <1>1, <1>8
  <2>2. g[Len(s)] = h[Len(s)] /\ g[Len(s)] \in Seq(T)
    <3>1. \A i \in 1 .. Len(s) : g[i] = h[i] /\ g[i] \in Seq(T)
      <4>1. \A i \in 1 .. Len(s) : a[i] = s[i]
        BY <1>1
      <4> QED BY ONLY s \in Seq(Seq(T)), <1>2, <1>3, <4>1, FlattenAgree, ZenonT(60)
    <3> QED BY <2>1, <3>1
  <2> QED BY <1>4, <1>5, <1>6, <1>8, <2>1, <2>2 DEF a
<1> QED BY <1>7, <1>8

--------------------------------------------------------------------------------
(* The inductive invariant *)

\* How often, and as what, an event is to be injected.
Times(e) ==
    CASE e.kind = "key" /\ get_key_mapping(e.code) > 0 -> 1
      [] e.kind = "button" /\ e.code + 1 \in PressedByFlag -> 2
      [] e.kind = "button" /\ e.code >= 6 -> 1
      [] OTHER -> 0

As(e) ==
    CASE e.kind = "key" -> <<"key", get_key_mapping(e.code)>>
      [] e.kind = "button" /\ e.code < 6 -> <<"button", e.code + 1>>
      [] e.kind = "button" /\ e.code >= 6 -> <<"key", e.code + 1>>
      [] OTHER -> <<"key", 0>>

\* How often a task has injected its event.
Done(t) ==
    CASE t.at \in {"cursor", "mouse"} -> 0
      [] t.at = "mouse_again" -> IF t.input.mouse_bitfield \in PressedByFlag THEN 1 ELSE 0
      [] OTHER -> IF t.input.mouse_bitfield > 0 THEN Times(events[t.number]) ELSE 0

\* An input as send_mouse_input and send_virtual_input make it.
Injected ==
    [kind : {"key", "button"}, code : Int, at : {Somewhere} \cup (0 .. Width) \X (0 .. Height)]

\* What TypeOK leaves out.
Typed == TypeOK /\ injected \in Seq(Injected)

\* What is on its way, and what a task works on, is what the callback made of the
\* event with that number; no key is taken for a button, so no task presses one again.
Link ==
    /\ Len(wire) <= Len(events)
    /\ \A j \in 1 .. Len(wire) : wire[j] = Callback(events[Dispatched + j])
    /\ \A t \in tasks :
          /\ t.input = Callback(events[t.number])
          /\ t.at # "key_again"
          /\ t.at = "mouse_again" => t.input.mouse_bitfield \in MouseButton

\* The pixel buffer of an open window holds the last frame of this window or nothing.
Pixels ==
    window = "open" =>
        /\ frame[1] = windows /\ windows >= 1
        /\ pbo \in {Undefined, frame}
        /\ pbo # Undefined => frame[2] >= 1

\* The part of the inductive invariant that all the others rest on.
Base == Typed /\ Link /\ Pixels

--------------------------------------------------------------------------------
(* The mapping of the keys, and the messages *)

\* Every key is mapped to a number, and none to that of a mouse button.
LEMMA MappingType ==
    ASSUME NEW k \in GlfwKeys
    PROVE  get_key_mapping(k) \in Int /\ get_key_mapping(k) \notin MouseButton
<1>1. DOMAIN Punctuation = {39, 44, 45, 46, 47, 59, 61, 91, 92, 93, 96}
  BY DEF Punctuation
<1>2. DOMAIN Editing = 256 .. 269 \cup {280}
  BY DEF Editing
<1>3. k \in Int /\ k \notin MouseButton
  BY DEF GlfwKeys, MouseButton
<1>4. \A j \in DOMAIN Punctuation : Punctuation[j] \in Int /\ Punctuation[j] > 6
  <2>1. \A j \in {39, 44, 45, 46, 47, 59, 61, 91, 92, 93, 96} : Punctuation[j] \in Int
    BY DEF Punctuation
  <2>2. \A j \in {39, 44, 45, 46, 47, 59, 61, 91, 92, 93, 96} : Punctuation[j] > 6
    BY DEF Punctuation
  <2> QED BY <1>1, <2>1, <2>2
<1>5. \A j \in DOMAIN Editing : Editing[j] \in Int /\ Editing[j] > 6
  <2>1. \A j \in 256 .. 269 \cup {280} : Editing[j] \in Int
    BY DEF Editing
  <2>2. \A j \in 256 .. 269 \cup {280} : Editing[j] > 6
    BY DEF Editing
  <2> QED BY <1>2, <2>1, <2>2
<1>6. CASE k \in DOMAIN Punctuation
  <2>1. k \notin DOMAIN Editing /\ k \notin Unmapped
    BY <1>1, <1>2, <1>6 DEF Unmapped
  <2>2. get_key_mapping(k) = Punctuation[k]
    BY <1>6, <2>1 DEF get_key_mapping
  <2> QED BY <1>4, <1>6, <2>2 DEF MouseButton
<1>7. CASE k \in DOMAIN Editing
  <2>1. k \notin DOMAIN Punctuation /\ k \notin Unmapped
    BY <1>1, <1>2, <1>7 DEF Unmapped
  <2>2. get_key_mapping(k) = Editing[k]
    BY <1>7, <2>1 DEF get_key_mapping
  <2> QED BY <1>5, <1>7, <2>2 DEF MouseButton
<1>8. CASE k \notin DOMAIN Punctuation /\ k \notin DOMAIN Editing
  <2>1. get_key_mapping(k) \in {0, k}
    BY <1>8 DEF get_key_mapping
  <2> QED BY <1>3, <2>1 DEF MouseButton
<1> QED BY <1>6, <1>7, <1>8

\* No two keys become one.
LEMMA MappingTellsKeysApart == MappingDistinct
<1> DEFINE m(k) == get_key_mapping(k)
           A == {39, 44, 45, 46, 47, 59, 61, 91, 92, 93, 96}
           B == 256 .. 269 \cup {280}
           C == {k \in GlfwKeys : k \notin A /\ k \notin B /\ m(k) > 0}
<1>1. DOMAIN Punctuation = A /\ DOMAIN Editing = B
  BY DEF Punctuation, Editing
<1>2. /\ \A k \in A : m(k) = Punctuation[k]
      /\ \A k \in B : m(k) = Editing[k]
      /\ \A k \in C : m(k) = k
  <2>1. \A k \in A : k \notin B /\ k \notin Unmapped
    BY DEF Unmapped
  <2>2. \A k \in B : k \notin A /\ k \notin Unmapped
    BY DEF Unmapped
  <2> HIDE DEF A, B
  <2>3. \A k \in A : m(k) = Punctuation[k]
    BY <1>1, <2>1 DEF get_key_mapping
  <2>4. \A k \in B : m(k) = Editing[k]
    BY <1>1, <2>2 DEF get_key_mapping
  <2>5. \A k \in C : m(k) = k
    BY <1>1 DEF get_key_mapping
  <2> QED BY <2>3, <2>4, <2>5
\* The three kinds of keys have different virtual keys.
<1>3. \A k \in A : Punctuation[k] \in 186 .. 192 \cup {219, 221, 222, 226}
  BY DEF Punctuation
<1>4. \A k \in B : Editing[k] \in {8, 9, 13, 20, 27, 45, 46} \cup 33 .. 40
  BY DEF Editing
<1>5. C \subseteq {32, 161, 162} \cup 48 .. 57 \cup 65 .. 90
  <2>1. \A k \in C : k \notin Unmapped /\ k > 0
    BY <1>1 DEF get_key_mapping, GlfwKeys
  <2> QED BY <2>1 DEF GlfwKeys, Unmapped
\* Within a kind they are different as well.
<1>6. \A k, l \in A : Punctuation[k] = Punctuation[l] => k = l
  BY DEF Punctuation
<1>7. \A k, l \in B : Editing[k] = Editing[l] => k = l
  BY DEF Editing
<1> SUFFICES ASSUME NEW k \in GlfwKeys, NEW l \in GlfwKeys, m(k) > 0, m(l) > 0
             PROVE  (m(k) = m(l) => k = l) /\ m(k) \notin MouseButton
  BY DEF MappingDistinct
<1>8. k \in A \cup B \cup C /\ l \in A \cup B \cup C
  OBVIOUS
<1> HIDE DEF m, A, B, C
<1>9. m(k) \notin MouseButton
  BY MappingType DEF m
<1>10. /\ \A i \in A : m(i) \in Int /\ m(i) > 180
       /\ \A i \in B : m(i) \in Int /\ m(i) < 48 /\ m(i) # 32
       /\ \A i \in C : m(i) \in Int /\ (m(i) = 32 \/ (m(i) >= 48 /\ m(i) < 180))
  <2>1. \A x \in 186 .. 192 \cup {219, 221, 222, 226} : x \in Int /\ x > 180
    OBVIOUS
  <2>2. \A x \in {8, 9, 13, 20, 27, 45, 46} \cup 33 .. 40 : x \in Int /\ x < 48 /\ x # 32
    OBVIOUS
  <2>3. \A x \in {32, 161, 162} \cup 48 .. 57 \cup 65 .. 90 :
          x \in Int /\ (x = 32 \/ (x >= 48 /\ x < 180))
    OBVIOUS
  <2>4. \A i \in A : m(i) \in Int /\ m(i) > 180
    BY ONLY <1>2, <1>3, <2>1
  <2>5. \A i \in B : m(i) \in Int /\ m(i) < 48 /\ m(i) # 32
    BY ONLY <1>2, <1>4, <2>2
  <2>6. \A i \in C : m(i) \in Int /\ (m(i) = 32 \/ (m(i) >= 48 /\ m(i) < 180))
    <3>1. \A i \in C : i \in {32, 161, 162} \cup 48 .. 57 \cup 65 .. 90
      BY <1>5, Zenon
    <3> QED BY ONLY <1>2, <2>3, <3>1
  <2> QED BY <2>4, <2>5, <2>6, Zenon
<1>11. ASSUME m(k) = m(l) PROVE k = l
  <2>1. CASE k \in A /\ l \in A
    BY ONLY <1>2, <1>6, <1>11, <2>1
  <2>2. CASE k \in B /\ l \in B
    BY ONLY <1>2, <1>7, <1>11, <2>2
  <2>3. CASE k \in C /\ l \in C
    BY <1>2, <1>11, <2>3, Zenon
  <2> QED BY ONLY <1>8, <1>10, <1>11, <2>1, <2>2, <2>3
<1> QED BY <1>9, <1>11

\* What an event becomes and what is to come of it.
LEMMA EventFacts ==
    ASSUME NEW e \in Event
    PROVE  /\ Callback(e) \in Message
           /\ \/ /\ e.kind = "key"
                 /\ Callback(e).abs = <<-1, -1>>
                 /\ Callback(e).mouse_bitfield = 0
                 /\ Callback(e).virtual_key \in Int \ MouseButton
                 /\ Times(e) = (IF Callback(e).virtual_key > 0 THEN 1 ELSE 0)
                 /\ As(e) = <<"key", Callback(e).virtual_key>>
              \/ /\ e.kind = "button"
                 /\ Callback(e).abs = <<-1, -1>>
                 /\ Callback(e).mouse_bitfield \in Nat \ {0}
                 /\ Callback(e).virtual_key = 0
                 /\ Times(e) = (IF Callback(e).mouse_bitfield \in PressedByFlag THEN 2
                                ELSE IF Callback(e).mouse_bitfield > 6 THEN 1 ELSE 0)
                 /\ As(e) = <<IF Callback(e).mouse_bitfield <= 6 THEN "button" ELSE "key",
                              Callback(e).mouse_bitfield>>
              \/ /\ e.kind = "move"
                 /\ Callback(e).abs = e.code
                 /\ e.code \in Int \X Int
                 /\ Callback(e).mouse_bitfield = 0
                 /\ Callback(e).virtual_key = 0
                 /\ Times(e) = 0
<1>1. CASE e.kind = "key"
  <2> DEFINE v == get_key_mapping(e.code)
  <2>1. v \in Int /\ v \notin MouseButton
    <3>1. e.code \in GlfwKeys
      BY <1>1, KeysAssumption DEF Event
    <3> QED BY <3>1, MappingType
  <2>2. Callback(e) = [abs |-> <<-1, -1>>, mouse_bitfield |-> 0, virtual_key |-> v]
    BY <1>1 DEF Callback, key_cb, ControlInput
  <2>3. Times(e) = (IF v > 0 THEN 1 ELSE 0) /\ As(e) = <<"key", v>>
    BY <1>1 DEF Times, As
  <2> HIDE DEF v
  <2> QED BY <1>1, <2>1, <2>2, <2>3 DEF Message
<1>2. CASE e.kind = "button"
  <2> DEFINE v == e.code + 1
  <2>1. e.code \in Nat /\ v \in Nat \ {0}
    <3>1. e.code \in Buttons
      BY <1>2 DEF Event
    <3>2. e.code \in Nat
      BY <3>1, ButtonsAssumption
    <3> QED BY <3>2
  <2>2. Callback(e) = [abs |-> <<-1, -1>>, mouse_bitfield |-> v, virtual_key |-> 0]
    BY <1>2 DEF Callback, mouse_cb, ControlInput
  <2>3. Times(e) = (IF v \in PressedByFlag THEN 2 ELSE IF v > 6 THEN 1 ELSE 0)
    <3>1. e.code \in Nat
      BY <2>1
    <3>2. CASE v \in PressedByFlag
      BY <1>2, <3>1, <3>2 DEF Times, PressedByFlag
    <3>3. CASE v \notin PressedByFlag
      BY <1>2, <3>1, <3>3 DEF Times
    <3> QED BY <3>2, <3>3
  <2>4. As(e) = <<IF v <= 6 THEN "button" ELSE "key", v>>
    <3>1. CASE v <= 6
      BY <1>2, <2>1, <3>1 DEF As
    <3>2. CASE ~(v <= 6)
      BY <1>2, <2>1, <3>2 DEF As
    <3> QED BY <3>1, <3>2
  <2> HIDE DEF v
  <2> QED BY <1>2, <2>1, <2>2, <2>3, <2>4 DEF Message
<1>3. CASE e.kind = "move"
  <2>1. e.code \in Int \X Int
    BY <1>3, PositionAssumption DEF Event
  <2>2. Callback(e) = [abs |-> e.code, mouse_bitfield |-> 0, virtual_key |-> 0]
    BY <1>3 DEF Callback, mouse_pos_cb, ControlInput
  <2>3. Times(e) = 0
    BY <1>3 DEF Times
  <2> QED BY <1>3, <2>1, <2>2, <2>3 DEF Message
<1> QED BY <1>1, <1>2, <1>3 DEF Event

\* An event is injected at most twice, as a key or as a button.
LEMMA EventTypes ==
    ASSUME NEW e \in Event
    PROVE  /\ Times(e) \in 0 .. 2
           /\ As(e)[1] \in {"key", "button"} /\ As(e)[2] \in Int
<1>1. CASE e.kind = "key"
  <2>1. e.code \in GlfwKeys
    BY <1>1, KeysAssumption DEF Event
  <2> QED BY <1>1, <2>1, MappingType DEF As, Times
<1>2. CASE e.kind = "button"
  <2>1. e.code \in Buttons
    BY <1>2 DEF Event
  <2>2. e.code \in Nat
    BY <2>1, ButtonsAssumption
  <2>3. As(e)[1] \in {"key", "button"} /\ As(e)[2] \in Int
    <3>1. CASE e.code < 6
      BY <1>2, <2>2, <3>1 DEF As
    <3>2. CASE e.code >= 6
      BY <1>2, <2>2, <3>2 DEF As
    <3> QED BY <2>2, <3>1, <3>2
  <2>4. Times(e) \in 0 .. 2
    BY <1>2, EventFacts
  <2> QED BY <2>3, <2>4
<1>3. CASE e.kind = "move"
  BY <1>3 DEF As, Times
<1> QED BY <1>1, <1>2, <1>3 DEF Event

--------------------------------------------------------------------------------
(* A step of handle_input *)

\* Task t injects its event once.
Injects(t) ==
    injected' = Append(injected, [kind |-> As(events[t.number])[1],
                                  code |-> As(events[t.number])[2], at |-> cursor])

\* A step of task t that injects k inputs.
Adds(t, k) == (k = 0 /\ injected' = injected) \/ (k = 1 /\ Injects(t))

\* It goes on to another place, or it ends.
Stays(t, k) ==
    \E place \in {"mouse", "mouse_again", "key"} :
        /\ tasks' = (tasks \ {t}) \cup {[t EXCEPT !.at = place]}
        /\ place = "mouse_again" => t.input.mouse_bitfield \in MouseButton
        /\ Done([t EXCEPT !.at = place]) = Done(t) + k

Ends(t, k) == tasks' = tasks \ {t} /\ Times(events[t.number]) = Done(t) + k

\* What is known of a task.
LEMMA TaskFacts ==
    ASSUME Base, NEW t \in tasks
    PROVE  /\ t \in [number : Nat \ {0}, input : Message, at : Place]
           /\ t.number <= Dispatched /\ t.number <= Len(events)
           /\ Dispatched \in Nat /\ Len(events) \in Nat /\ Len(wire) \in Nat
           /\ events[t.number] \in Event
           /\ t.input = Callback(events[t.number])
<1>1. /\ events \in Seq(Event) /\ wire \in Seq(Message)
      /\ t \in [number : 1 .. Dispatched, input : Message, at : Place]
  BY DEF Base, Typed, TypeOK
<1>2. Len(events) \in Nat /\ Len(wire) \in Nat
  BY <1>1, LenProperties
<1>3. Len(wire) <= Len(events) /\ t.input = Callback(events[t.number])
  BY DEF Base, Link
<1>4. Dispatched \in Nat /\ Dispatched <= Len(events)
  BY <1>2, <1>3 DEF Dispatched
<1>5. t.number \in Nat \ {0} /\ t.number <= Dispatched
  BY <1>1, <1>4
<1>6. t.number \in 1 .. Len(events)
  BY <1>2, <1>4, <1>5
<1>7. events[t.number] \in Event
  BY <1>1, <1>6, ElementOfSeq
<1> QED BY <1>1, <1>2, <1>3, <1>4, <1>5, <1>6, <1>7

\* A step of a task injects its event once more or not at all, and a task ends
\* when it has injected it as often as it should.
LEMMA HandleInput ==
    ASSUME Base, NEW t \in tasks, handle_input(t)
    PROVE  \E k \in {0, 1} : Adds(t, k) /\ (Stays(t, k) \/ Ends(t, k))
<1> DEFINE e == events[t.number]
           m == t.input.mouse_bitfield
           v == t.input.virtual_key
           n == Times(e)
           u(place) == [t EXCEPT !.at = place]
<1>1. /\ t \in [number : Nat \ {0}, input : Message, at : Place]
      /\ e \in Event /\ t.input = Callback(e)
  BY TaskFacts
<1>2. /\ t.at # "key_again"
      /\ t.at = "mouse_again" => m \in MouseButton
  BY DEF Base, Link
<1>3. m \in Int /\ v \in Int
  BY <1>1 DEF Message
<1>4. \/ /\ m = 0 /\ v \notin MouseButton
         /\ v > 0 => n = 1 /\ As(e) = <<"key", v>>
         /\ ~(v > 0) => n = 0
      \/ /\ m \in Nat \ {0} /\ v = 0
         /\ m \in PressedByFlag => n = 2
         /\ m \notin PressedByFlag /\ m > 6 => n = 1
         /\ m \notin PressedByFlag /\ ~(m > 6) => n = 0
         /\ m <= 6 => As(e) = <<"button", m>>
         /\ ~(m <= 6) => As(e) = <<"key", m>>
  <2>1. CASE e.kind = "key"
    BY <1>1, <2>1, EventFacts
  <2>2. CASE e.kind = "button"
    BY <1>1, <2>2, EventFacts DEF MouseButton
  <2>3. CASE e.kind = "move"
    <3>1. m = 0 /\ v = 0 /\ n = 0
      BY <1>1, <2>3, EventFacts
    <3> QED BY <3>1 DEF MouseButton
  <2> QED BY <1>1, <2>1, <2>2, <2>3, EventFacts
<1>5. \A place \in Place :
        /\ u(place).at = place /\ u(place).number = t.number /\ u(place).input = t.input
  BY <1>1
<1>6. /\ t.at \in {"cursor", "mouse"} => Done(t) = 0
      /\ t.at = "mouse_again" /\ m \in PressedByFlag => Done(t) = 1
      /\ t.at = "mouse_again" /\ m \notin PressedByFlag => Done(t) = 0
      /\ t.at = "key" /\ m > 0 => Done(t) = n
      /\ t.at = "key" /\ ~(m > 0) => Done(t) = 0
      /\ Done(u("mouse")) = 0
      /\ m \in PressedByFlag => Done(u("mouse_again")) = 1
      /\ m \notin PressedByFlag => Done(u("mouse_again")) = 0
      /\ m > 0 => Done(u("key")) = n
      /\ ~(m > 0) => Done(u("key")) = 0
  <2>1. ASSUME NEW w, w.input = t.input, w.number = t.number
        PROVE  /\ w.at \in {"cursor", "mouse"} => Done(w) = 0
               /\ w.at = "mouse_again" /\ m \in PressedByFlag => Done(w) = 1
               /\ w.at = "mouse_again" /\ m \notin PressedByFlag => Done(w) = 0
               /\ w.at = "key" /\ m > 0 => Done(w) = n
               /\ w.at = "key" /\ ~(m > 0) => Done(w) = 0
    <3> HIDE DEF n
    <3>1. Done(w) = CASE w.at \in {"cursor", "mouse"} -> 0
                      [] w.at = "mouse_again" -> IF m \in PressedByFlag THEN 1 ELSE 0
                      [] OTHER -> IF m > 0 THEN n ELSE 0
      BY <2>1, Zenon DEF Done, n
    <3> HIDE DEF m
    <3> QED BY <3>1
  <2>2. {"mouse", "mouse_again", "key"} \subseteq Place
    BY DEF Place
  <2> HIDE DEF u, n, m
  <2> QED BY <1>5, <2>1, <2>2
<1>7. /\ \A place : Proceeds(t, place) /\ place # "done" => tasks' = (tasks \ {t}) \cup {u(place)}
      /\ Proceeds(t, "done") => tasks' = tasks \ {t}
  <2>1. (tasks \ {t}) \cup {} = tasks \ {t}
    OBVIOUS
  <2> QED BY <2>1, Zenon DEF Proceeds
<1>8. "mouse" # "done" /\ "mouse_again" # "done" /\ "key" # "done"
  OBVIOUS
<1>9. /\ \A k : \A place \in {"mouse", "mouse_again", "key"} :
              /\ tasks' = (tasks \ {t}) \cup {u(place)}
              /\ place = "mouse_again" => m \in MouseButton
              /\ Done(u(place)) = Done(t) + k
              => Stays(t, k)
      /\ \A k : tasks' = tasks \ {t} /\ n = Done(t) + k => Ends(t, k)
  BY Zenon DEF Stays, Ends
<1>10. /\ injected' = injected => Adds(t, 0)
      /\ \A kind, code : Inject(kind, code) /\ As(e) = <<kind, code>> => Adds(t, 1)
  BY DEF Adds, Inject, Injects
<1>11. \A w, again, after :
        send_virtual_input(t, w, again, after) =>
            \/ w \in MouseButton /\ send_mouse_input(w) /\ Proceeds(t, again)
            \/ w > 6 /\ Inject("key", w) /\ Proceeds(t, after)
            \/ w <= 0 /\ injected' = injected /\ Proceeds(t, after)
  BY Zenon DEF send_virtual_input
<1>12. \A w : send_mouse_input(w) =>
        /\ w \in PressedByFlag => Inject("button", w)
        /\ w \notin PressedByFlag => injected' = injected
  BY Zenon DEF send_mouse_input
<1> DEFINE S(k) == Adds(t, k) /\ (Stays(t, k) \/ Ends(t, k))
<1>13. ASSUME MoveCursor(t) PROVE S(0)
  <2>1. t.at = "cursor" /\ Proceeds(t, "mouse") /\ injected' = injected
    BY <1>13 DEF MoveCursor
  <2> HIDE DEF u, n, m, v, e
  <2>2. tasks' = (tasks \ {t}) \cup {u("mouse")}
    BY <1>7, <1>8, <2>1, Zenon
  <2>3. Done(u("mouse")) = Done(t) + 0
    <3>1. t.at = "cursor"
      BY <2>1, Zenon
    <3> QED BY <1>6, <3>1
  <2> QED BY <1>9, <1>10, <2>1, <2>2, <2>3
<1>14. ASSUME t.at = "mouse", send_virtual_input(t, m, "mouse_again", "key") PROVE S(0) \/ S(1)
  <2> HIDE DEF u, n, m, v, e
  <2>1. Done(t) = 0
    <3>1. t.at = "mouse"
      BY <1>14, Zenon
    <3> QED BY <1>6, <3>1
  <2>2. CASE m \in MouseButton /\ send_mouse_input(m) /\ Proceeds(t, "mouse_again")
    <3>1. tasks' = (tasks \ {t}) \cup {u("mouse_again")}
      BY <1>7, <1>8, <2>2, Zenon
    <3>2. m \in MouseButton
      BY <2>2, Zenon
    <3>3. As(e) = <<"button", m>>
      BY <1>3, <1>4, <3>2 DEF MouseButton
    <3>4. CASE m \in PressedByFlag
      <4>1. Adds(t, 1)
        BY <1>10, <1>12, <2>2, <3>3, <3>4, Zenon
      <4>2. Done(u("mouse_again")) = Done(t) + 1
        BY <1>6, <2>1, <3>4
      <4> QED BY <1>9, <3>1, <3>2, <4>1, <4>2
    <3>5. CASE m \notin PressedByFlag
      <4>1. Adds(t, 0)
        BY <1>10, <1>12, <2>2, <3>5, Zenon
      <4>2. Done(u("mouse_again")) = Done(t) + 0
        BY <1>6, <2>1, <3>5
      <4> QED BY <1>9, <3>1, <3>2, <4>1, <4>2
    <3> QED BY <3>4, <3>5
  <2>3. CASE m > 6 /\ Inject("key", m) /\ Proceeds(t, "key")
    <3>1. tasks' = (tasks \ {t}) \cup {u("key")}
      BY <1>7, <1>8, <2>3, Zenon
    <3>2. As(e) = <<"key", m>> /\ n = 1 /\ m > 0
      <4>1. m > 6
        BY <2>3, Zenon
      <4> QED BY <1>3, <1>4, <4>1 DEF PressedByFlag
    <3>3. Adds(t, 1)
      BY <1>10, <2>3, <3>2, Zenon
    <3>4. Done(u("key")) = Done(t) + 1
      BY <1>6, <2>1, <3>2
    <3> QED BY <1>9, <3>1, <3>3, <3>4
  <2>4. CASE m <= 0 /\ injected' = injected /\ Proceeds(t, "key")
    <3>1. tasks' = (tasks \ {t}) \cup {u("key")}
      BY <1>7, <1>8, <2>4, Zenon
    <3>2. Done(u("key")) = Done(t) + 0
      <4>1. m <= 0
        BY <2>4, Zenon
      <4> QED BY <1>3, <1>6, <2>1, <4>1
    <3>3. Adds(t, 0)
      BY <1>10, <2>4, Zenon
    <3> QED BY <1>9, <3>1, <3>2, <3>3
  <2> QED BY <1>14, <1>11, <2>2, <2>3, <2>4, Zenon
<1>15. ASSUME t.at = "key", send_virtual_input(t, v, "key_again", "done") PROVE S(0) \/ S(1)
  <2> HIDE DEF u, n, m, v, e
  <2>1. v \notin MouseButton
    BY <1>4 DEF MouseButton
  <2>2. (m > 0 => Done(t) = n) /\ (~(m > 0) => Done(t) = 0)
    <3>1. t.at = "key"
      BY <1>15, Zenon
    <3> QED BY <1>6, <3>1
  <2>3. CASE v > 6 /\ Inject("key", v) /\ Proceeds(t, "done")
    <3>1. As(e) = <<"key", v>> /\ n = 1 /\ m = 0
      <4>1. v > 6
        BY <2>3, Zenon
      <4> QED BY <1>3, <1>4, <4>1
    <3>2. Adds(t, 1)
      BY <1>10, <2>3, <3>1, Zenon
    <3>3. n = Done(t) + 1
      BY <2>2, <3>1
    <3>4. Ends(t, 1)
      BY <1>9, <1>7, <2>3, <3>3, Zenon
    <3> QED BY <3>2, <3>4
  <2>4. CASE v <= 0 /\ injected' = injected /\ Proceeds(t, "done")
    <3>1. n \in Nat
      BY <1>4
    <3>2. n = Done(t) + 0
      <4>1. v <= 0
        BY <2>4, Zenon
      <4> QED BY <1>3, <1>4, <2>2, <3>1, <4>1
    <3>3. Adds(t, 0) /\ Ends(t, 0)
      BY <1>9, <1>10, <1>7, <2>4, <3>2, Zenon
    <3> QED BY <3>3
  <2> QED BY <1>15, <1>11, <2>1, <2>3, <2>4, Zenon
<1>16. ASSUME t.at = "mouse_again", send_mouse_input(m), Proceeds(t, "key") PROVE S(0) \/ S(1)
  <2> HIDE DEF u, n, m, v, e
  <2>1. tasks' = (tasks \ {t}) \cup {u("key")}
    BY <1>16, <1>7, <1>8, Zenon
  <2>2. m \in MouseButton /\ t.at = "mouse_again"
    BY <1>2, <1>16, Zenon
  <2>3. As(e) = <<"button", m>> /\ m > 0
        /\ (m \in PressedByFlag => n = 2) /\ (m \notin PressedByFlag => n = 0)
    BY <1>3, <1>4, <2>2 DEF MouseButton
  <2>4. CASE m \in PressedByFlag
    <3>1. Adds(t, 1)
      BY <1>16, <1>10, <1>12, <2>3, <2>4, Zenon
    <3>2. Done(u("key")) = Done(t) + 1
      BY <1>6, <2>2, <2>3, <2>4
    <3> QED BY <1>9, <2>1, <3>1, <3>2
  <2>5. CASE m \notin PressedByFlag
    <3>1. Adds(t, 0)
      BY <1>16, <1>10, <1>12, <2>5, Zenon
    <3>2. Done(u("key")) = Done(t) + 0
      BY <1>6, <2>2, <2>3, <2>5
    <3> QED BY <1>9, <2>1, <3>1, <3>2
  <2> QED BY <2>4, <2>5
<1>17. Press(t) => \/ t.at = "mouse" /\ send_virtual_input(t, m, "mouse_again", "key")
                   \/ t.at = "key" /\ send_virtual_input(t, v, "key_again", "done")
  BY Zenon DEF Press
<1>18. PressAgain(t) => t.at = "mouse_again" /\ send_mouse_input(m) /\ Proceeds(t, "key")
  BY <1>2 DEF PressAgain
<1> HIDE DEF u, n, m, v, e, S
<1>19. S(0) \/ S(1)
  BY <1>13, <1>14, <1>15, <1>16, <1>17, <1>18, Zenon DEF handle_input
<1> QED BY <1>19 DEF S

--------------------------------------------------------------------------------
(* The base of the invariants is kept by every action *)

\* What is known of the sequences.
LEMMA Lengths ==
    ASSUME Base
    PROVE  /\ events \in Seq(Event) /\ wire \in Seq(Message) /\ injected \in Seq(Injected)
           /\ Len(events) \in Nat /\ Len(wire) \in Nat /\ Len(injected) \in Nat
           /\ Dispatched \in Nat /\ Dispatched <= Len(events)
           /\ Dispatched + Len(wire) = Len(events)
<1>1. events \in Seq(Event) /\ wire \in Seq(Message) /\ injected \in Seq(Injected)
  BY DEF Base, Typed, TypeOK
<1>2. Len(events) \in Nat /\ Len(wire) \in Nat /\ Len(injected) \in Nat
  BY <1>1, LenProperties
<1>3. Len(wire) <= Len(events)
  BY DEF Base, Link
<1> QED BY <1>1, <1>2, <1>3 DEF Dispatched

\* It reads nothing but the variables.
LEMMA StutterBase ==
    ASSUME Base, UNCHANGED vars
    PROVE  Base'
BY DEF Base, Typed, TypeOK, Link, Pixels, Dispatched, vars, viewerVars, hostVars

\* The base holds at the start.
LEMMA InitBase == Init => Base
<1> SUFFICES ASSUME Init PROVE Base
  OBVIOUS
<1>1. Typed
  <2>1. /\ windows \in 0 .. MaxWindows
        /\ frame \in (0 .. MaxWindows) \X (0 .. MaxFrames)
    BY BoundsAssumption DEF Init
  <2>2. events \in Seq(Event) /\ wire \in Seq(Message) /\ injected \in Seq(Injected)
    BY DEF Init
  <2> QED BY <2>1, <2>2 DEF Init, Typed, TypeOK
<1>2. Link /\ Pixels
  BY DEF Init, Link, Pixels
<1> QED BY <1>1, <1>2 DEF Base

\* Of the window's own actions only the picture changes.
LEMMA WindowBase ==
    ASSUME Base, create_window \/ UseNoWindow \/ close_window
    PROVE  Base'
<1>1. /\ UNCHANGED <<events, wire, tasks, cursor, injected, overlapped, soiled>>
      /\ Dispatched' = Dispatched
  BY DEF create_window, UseNoWindow, close_window, hostVars, Dispatched
<1>2. Link'
  BY <1>1 DEF Base, Link
<1>3. /\ windows \in 0 .. MaxWindows
      /\ frame \in (0 .. MaxWindows) \X (0 .. MaxFrames)
      /\ {pbo, shown} \subseteq {Undefined} \cup ((1 .. MaxWindows) \X (1 .. MaxFrames))
  BY DEF Base, Typed, TypeOK
<1>4. /\ window' \in {"none", "open", "failed", "crashed"}
      /\ windows' \in 0 .. MaxWindows
      /\ frame' \in (0 .. MaxWindows) \X (0 .. MaxFrames)
      /\ {pbo, shown}' \subseteq {Undefined} \cup ((1 .. MaxWindows) \X (1 .. MaxFrames))
      /\ Pixels'
  <2>1. CASE create_window
    <3>1. /\ window' \in {"open", "failed"} /\ windows' = windows + 1 /\ windows < MaxWindows
          /\ frame' = <<windows', 0>> /\ pbo' = Undefined /\ shown' = Undefined
      BY <2>1 DEF create_window
    <3>2. windows' \in 0 .. MaxWindows /\ windows' >= 1 /\ 0 \in 0 .. MaxFrames
      BY <1>3, <3>1, BoundsAssumption
    <3> QED BY <3>1, <3>2 DEF Pixels
  <2>2. CASE UseNoWindow \/ close_window
    BY <1>3, <2>2 DEF UseNoWindow, close_window, Pixels
  <2> QED BY <2>1, <2>2
<1>5. TypeOK'
  BY <1>1, <1>4 DEF Base, Typed, TypeOK
<1> QED BY <1>1, <1>2, <1>4, <1>5 DEF Base, Typed

\* The events of a poll and their messages are added at the ends.
LEMMA RenderLink ==
    ASSUME Base, NEW n \in 0 .. MaxEvents, NEW evs \in [1 .. n -> Event], render_frame(evs)
    PROVE  /\ events' \in Seq(Event) /\ wire' \in Seq(Message)
           /\ Dispatched' = Dispatched
           /\ Len(events') = Len(events) + n
           /\ \A i \in 1 .. Len(events) : events'[i] = events[i]
           /\ Link'
<1> DEFINE cbs == [i \in DOMAIN evs |-> Callback(evs[i])]
<1>1. n \in Nat
  BY BoundsAssumption
<1>2. evs \in Seq(Event) /\ Len(evs) = n /\ DOMAIN evs = 1 .. n
  BY <1>1
<1>3. \A i \in 1 .. n : Callback(evs[i]) \in Message
  BY EventFacts
<1>4. cbs \in Seq(Message) /\ Len(cbs) = n /\ \A i \in 1 .. n : cbs[i] = Callback(evs[i])
  BY <1>1, <1>2, <1>3
<1>5. events' = events \o evs /\ wire' = wire \o cbs /\ tasks' = tasks
  BY DEF render_frame, hostVars
<1> HIDE DEF cbs
<1>6. /\ events \in Seq(Event) /\ wire \in Seq(Message)
      /\ Len(events) \in Nat /\ Len(wire) \in Nat
      /\ Dispatched \in Nat /\ Dispatched <= Len(events)
      /\ Dispatched + Len(wire) = Len(events)
  BY Lengths
<1>7. /\ events' \in Seq(Event) /\ Len(events') = Len(events) + n
      /\ \A i \in 1 .. Len(events) : events'[i] = events[i]
      /\ \A i \in 1 .. n : events'[Len(events) + i] = evs[i]
  <2>1. /\ events \o evs \in Seq(Event) /\ Len(events \o evs) = Len(events) + Len(evs)
        /\ \A i \in 1 .. Len(events) : (events \o evs)[i] = events[i]
        /\ \A i \in 1 .. Len(evs) : (events \o evs)[Len(events) + i] = evs[i]
    <3>1. ASSUME NEW x \in Seq(Event)
          PROVE  /\ events \o x \in Seq(Event) /\ Len(events \o x) = Len(events) + Len(x)
                 /\ \A i \in 1 .. Len(events) : (events \o x)[i] = events[i]
                 /\ \A i \in 1 .. Len(x) : (events \o x)[Len(events) + i] = x[i]
      BY ONLY <1>6, x \in Seq(Event), ConcatAt
    <3> QED BY <1>2, <3>1, Zenon
  <2> QED BY <1>2, <1>5, <2>1, Zenon
<1>8. /\ wire' \in Seq(Message) /\ Len(wire') = Len(wire) + n
      /\ \A i \in 1 .. Len(wire) : wire'[i] = wire[i]
      /\ \A i \in 1 .. n : wire'[Len(wire) + i] = cbs[i]
  <2>1. /\ wire \o cbs \in Seq(Message) /\ Len(wire \o cbs) = Len(wire) + Len(cbs)
        /\ \A i \in 1 .. Len(wire) : (wire \o cbs)[i] = wire[i]
        /\ \A i \in 1 .. Len(cbs) : (wire \o cbs)[Len(wire) + i] = cbs[i]
    <3>1. ASSUME NEW x \in Seq(Message)
          PROVE  /\ wire \o x \in Seq(Message) /\ Len(wire \o x) = Len(wire) + Len(x)
                 /\ \A i \in 1 .. Len(wire) : (wire \o x)[i] = wire[i]
                 /\ \A i \in 1 .. Len(x) : (wire \o x)[Len(wire) + i] = x[i]
      BY ONLY <1>6, x \in Seq(Message), ConcatAt
    <3> QED BY <1>4, <3>1, Zenon
  <2> QED BY <1>4, <1>5, <2>1, Zenon
<1>9. Dispatched' = Dispatched
  BY <1>1, <1>6, <1>7, <1>8 DEF Dispatched
<1>10. Len(wire') <= Len(events')
  BY <1>1, <1>6, <1>7, <1>8
<1>11. ASSUME NEW j \in 1 .. Len(wire') PROVE wire'[j] = Callback(events'[Dispatched' + j])
  <2>1. CASE j \in 1 .. Len(wire)
    <3>1. wire[j] = Callback(events[Dispatched + j])
      BY <2>1 DEF Base, Link
    <3>2. Dispatched + j \in 1 .. Len(events)
      BY <1>6, <2>1
    <3> QED BY <1>7, <1>8, <1>9, <2>1, <3>1, <3>2
  <2>2. CASE j \notin 1 .. Len(wire)
    <3>1. PICK k \in 1 .. n : j = Len(wire) + k
      <4>1. j - Len(wire) \in 1 .. n /\ j = Len(wire) + (j - Len(wire))
        BY <1>1, <1>6, <1>8, <2>2
      <4> QED BY <4>1
    <3>2. Dispatched + j = Len(events) + k
      BY <1>1, <1>6, <3>1
    <3>3. wire'[j] = Callback(evs[k])
      BY <1>4, <1>8, <3>1
    <3>4. events'[Dispatched + j] = evs[k]
      BY <1>7, <3>2
    <3> QED BY <1>9, <3>3, <3>4
  <2> QED BY <2>1, <2>2
<1>12. ASSUME NEW t \in tasks
       PROVE  /\ t.input = Callback(events'[t.number])
              /\ t.at # "key_again"
              /\ t.at = "mouse_again" => t.input.mouse_bitfield \in MouseButton
  <2>1. t.number \in 1 .. Len(events) /\ t.input = Callback(events[t.number])
    BY <1>6, TaskFacts
  <2>2. events'[t.number] = events[t.number]
    BY <1>7, <2>1
  <2> QED BY <2>1, <2>2 DEF Base, Link
<1>13. Link'
  BY <1>5, <1>10, <1>11, <1>12 DEF Link
<1> QED BY <1>7, <1>8, <1>9, <1>13

\* A frame drawn and a poll of the window keep the base: the texture takes what the
\* pixel buffer held, which is the frame before this one or nothing.
LEMMA RenderBase ==
    ASSUME Base, NEW n \in 0 .. MaxEvents, NEW evs \in [1 .. n -> Event], render_frame(evs)
    PROVE  Base'
<1>1. /\ events' \in Seq(Event) /\ wire' \in Seq(Message)
      /\ Dispatched' = Dispatched /\ Link'
  BY RenderLink
<1>2. /\ window = "open" /\ frame[2] < MaxFrames /\ frame' = <<frame[1], frame[2] + 1>>
      /\ shown' = pbo /\ (pbo' = frame' \/ pbo' = Undefined)
      /\ window' = window /\ windows' = windows
      /\ UNCHANGED <<tasks, cursor, injected, overlapped, soiled>>
  BY DEF render_frame, hostVars
<1>3. /\ windows \in 0 .. MaxWindows
      /\ frame \in (0 .. MaxWindows) \X (0 .. MaxFrames)
      /\ {pbo, shown} \subseteq {Undefined} \cup ((1 .. MaxWindows) \X (1 .. MaxFrames))
      /\ frame[1] = windows /\ windows >= 1
  BY <1>2 DEF Base, Typed, TypeOK, Pixels
<1>4. /\ frame' \in (1 .. MaxWindows) \X (1 .. MaxFrames)
      /\ frame'[1] = windows' /\ windows' >= 1 /\ frame'[2] >= 1
  BY <1>2, <1>3, BoundsAssumption
<1>5. Pixels'
  BY <1>2, <1>4 DEF Pixels
<1>6. /\ {pbo, shown}' \subseteq {Undefined} \cup ((1 .. MaxWindows) \X (1 .. MaxFrames))
      /\ frame' \in (0 .. MaxWindows) \X (0 .. MaxFrames)
  BY <1>2, <1>3, <1>4
<1>7. TypeOK' /\ (injected \in Seq(Injected))'
  BY <1>1, <1>2, <1>3, <1>6 DEF Base, Typed, TypeOK
<1> QED BY <1>1, <1>5, <1>7 DEF Base, Typed

\* The task of a message is numbered like its event.
LEMMA DispatchFacts ==
    ASSUME Base, Dispatch
    PROVE  /\ Dispatched' = Dispatched + 1
           /\ Len(wire) >= 1 /\ Dispatched + 1 <= Len(events)
           /\ Head(wire) = Callback(events[Dispatched + 1]) /\ Head(wire) \in Message
           /\ wire' \in Seq(Message) /\ Len(wire') = Len(wire) - 1
           /\ \A j \in 1 .. Len(wire') : wire'[j] = wire[j + 1]
<1>1. /\ events \in Seq(Event) /\ wire \in Seq(Message)
      /\ Len(events) \in Nat /\ Len(wire) \in Nat
      /\ Dispatched \in Nat
      /\ Dispatched + Len(wire) = Len(events)
  BY Lengths
<1>2. wire # <<>> /\ wire' = Tail(wire) /\ events' = events
  BY DEF Dispatch, viewerVars
<1>3. Len(wire) >= 1
  BY <1>1, <1>2, EmptySeq
<1>4. /\ Head(wire) = wire[1] /\ wire[1] \in Message
      /\ Tail(wire) \in Seq(Message) /\ Len(Tail(wire)) = Len(wire) - 1
      /\ \A j \in 1 .. Len(Tail(wire)) : Tail(wire)[j] = wire[j + 1]
  BY <1>1, <1>2, <1>3, HeadTailProperties, ElementOfSeq
<1>5. wire[1] = Callback(events[Dispatched + 1])
  BY <1>1, <1>3 DEF Base, Link
<1>6. Dispatched' = Dispatched + 1 /\ Dispatched + 1 <= Len(events)
  BY <1>1, <1>2, <1>3, <1>4 DEF Dispatched
<1> QED BY <1>2, <1>3, <1>4, <1>5, <1>6

\* A message that becomes a task keeps the base: its number is that of no other task.
LEMMA DispatchBase ==
    ASSUME Base, Dispatch
    PROVE  Base'
<1> DEFINE d == Dispatched
           u == [number |-> d + 1, input |-> Head(wire), at |-> "cursor"]
<1>1. /\ events \in Seq(Event)
      /\ Len(events) \in Nat /\ Len(wire) \in Nat
      /\ d \in Nat /\ d + Len(wire) = Len(events)
  BY Lengths
<1>2. /\ Dispatched' = d + 1
      /\ Len(wire) >= 1 /\ d + 1 <= Len(events)
      /\ Head(wire) = Callback(events[d + 1]) /\ Head(wire) \in Message
      /\ wire' \in Seq(Message) /\ Len(wire') = Len(wire) - 1
      /\ \A j \in 1 .. Len(wire') : wire'[j] = wire[j + 1]
  BY DispatchFacts
<1>3. /\ UNCHANGED <<window, windows, frame, pbo, shown, events, cursor, injected, soiled>>
      /\ tasks' = tasks \cup {u}
      /\ overlapped' \in BOOLEAN
  BY DEF Dispatch, viewerVars
<1>4. /\ u.number = d + 1 /\ u.input = Head(wire) /\ u.at = "cursor"
      /\ u \in [number : 1 .. (d + 1), input : Message, at : Place]
  BY <1>1, <1>2 DEF Place
<1> HIDE DEF u, d
<1>5. \A t \in tasks : t \in [number : 1 .. d, input : Message, at : Place]
  BY DEF Base, Typed, TypeOK, d
<1>6. tasks' \subseteq [number : 1 .. (d + 1), input : Message, at : Place]
  <2>1. \A t \in tasks : t \in [number : 1 .. (d + 1), input : Message, at : Place]
    BY <1>1, <1>5
  <2> QED BY <1>3, <1>4, <2>1
<1>7. \A t, w \in tasks' : t.number = w.number => t = w
  <2>1. \A t, w \in tasks : t.number = w.number => t = w
    BY DEF Base, Typed, TypeOK
  <2>2. \A t \in tasks : t.number # d + 1
    BY <1>1, <1>5
  <2> QED BY <1>3, <1>4, <2>1, <2>2
<1>8. TypeOK'
  BY <1>2, <1>3, <1>6, <1>7 DEF Base, Typed, TypeOK
<1>9. ASSUME NEW j \in 1 .. Len(wire') PROVE wire'[j] = Callback(events'[Dispatched' + j])
  <2>1. j + 1 \in 1 .. Len(wire) /\ d + (j + 1) = (d + 1) + j
    BY <1>1, <1>2
  <2>2. wire[j + 1] = Callback(events[d + (j + 1)])
    BY <2>1 DEF Base, Link, d
  <2> QED BY <1>2, <1>3, <2>1, <2>2
<1>10. Len(wire') <= Len(events')
  BY <1>1, <1>2, <1>3
<1>11. ASSUME NEW t \in tasks'
       PROVE  /\ t.input = Callback(events'[t.number])
              /\ t.at # "key_again"
              /\ t.at = "mouse_again" => t.input.mouse_bitfield \in MouseButton
  <2>1. CASE t = u
    BY <1>2, <1>3, <1>4, <2>1
  <2>2. CASE t \in tasks
    BY <1>3, <2>2 DEF Base, Link
  <2> QED BY <1>3, <2>1, <2>2
<1>12. Link'
  BY <1>9, <1>10, <1>11 DEF Link
<1>13. Pixels' /\ (injected \in Seq(Injected))'
  BY <1>3 DEF Base, Pixels, Typed
<1> QED BY <1>8, <1>12, <1>13 DEF Base, Typed

\* What a step of a task does to the cursor, and what it leaves alone.
LEMMA CursorStep ==
    ASSUME Base, NEW t \in tasks, handle_input(t)
    PROVE  /\ UNCHANGED <<window, windows, frame, pbo, shown, events, wire, overlapped>>
           /\ soiled' \in BOOLEAN
           /\ cursor' \in {Somewhere} \cup (0 .. Width) \X (0 .. Height)
           /\ t.at = "cursor" =>
                  /\ tasks' = (tasks \ {t}) \cup {[t EXCEPT !.at = "mouse"]}
                  /\ injected' = injected /\ soiled' = soiled
                  /\ cursor' = IF t.input.abs[1] > 0 /\ t.input.abs[2] > 0
                               THEN <<Clamp(t.input.abs[1], Width), Clamp(t.input.abs[2], Height)>>
                               ELSE cursor
           /\ t.at # "cursor" /\ ~soiled' => ~soiled /\ cursor' = cursor
<1>1. /\ cursor \in {Somewhere} \cup (0 .. Width) \X (0 .. Height) /\ soiled \in BOOLEAN
  BY DEF Base, Typed, TypeOK
<1>2. t \in [number : Nat \ {0}, input : Message, at : Place]
  BY TaskFacts
<1>3. CASE MoveCursor(t)
  <2>1. /\ t.at = "cursor" /\ Proceeds(t, "mouse")
        /\ UNCHANGED <<window, windows, frame, pbo, shown, events, wire, overlapped>>
        /\ UNCHANGED <<injected, soiled>>
        /\ cursor' = IF t.input.abs[1] > 0 /\ t.input.abs[2] > 0
                     THEN <<Clamp(t.input.abs[1], Width), Clamp(t.input.abs[2], Height)>>
                     ELSE cursor
    BY <1>3 DEF MoveCursor, viewerVars, set_cursor_location
  <2>2. \A x \in Int : Clamp(x, Width) \in 0 .. Width /\ Clamp(x, Height) \in 0 .. Height
    BY SizeAssumption DEF Clamp
  <2>3. t.input.abs[1] \in Int /\ t.input.abs[2] \in Int
    BY <1>2 DEF Message
  <2>4. cursor' \in {Somewhere} \cup (0 .. Width) \X (0 .. Height)
    <3>1. <<Clamp(t.input.abs[1], Width), Clamp(t.input.abs[2], Height)>>
              \in (0 .. Width) \X (0 .. Height)
      BY <2>2, <2>3
    <3> QED BY <1>1, <2>1, <3>1, Zenon
  <2>5. tasks' = (tasks \ {t}) \cup {[t EXCEPT !.at = "mouse"]}
    <3>1. "mouse" # "done"
      OBVIOUS
    <3> QED BY <2>1, <3>1, Zenon DEF Proceeds
  <2> QED BY <1>1, <2>1, <2>4, <2>5, Zenon
<1>4. CASE Press(t) \/ PressAgain(t)
  <2>1. /\ UNCHANGED <<window, windows, frame, pbo, shown, events, wire, overlapped>>
        /\ t.at # "cursor"
    BY <1>4 DEF Press, PressAgain, viewerVars
  <2>2. \/ cursor' = cursor /\ soiled' = soiled
        \/ cursor' = Somewhere /\ soiled' = TRUE
    BY <1>4, Zenon DEF Press, PressAgain, send_virtual_input, send_mouse_input
  <2> QED BY <1>1, <2>1, <2>2
<1> QED BY <1>3, <1>4 DEF handle_input

\* A step of a task keeps the base.
LEMMA HandleBase ==
    ASSUME Base, NEW t \in tasks, handle_input(t)
    PROVE  Base'
<1> DEFINE d == Dispatched
           R == [number : 1 .. d, input : Message, at : Place]
<1>1. /\ UNCHANGED <<window, windows, frame, pbo, shown, events, wire, overlapped>>
      /\ soiled' \in BOOLEAN
      /\ cursor' \in {Somewhere} \cup (0 .. Width) \X (0 .. Height)
  BY CursorStep
<1>2. PICK k \in {0, 1} : Adds(t, k) /\ (Stays(t, k) \/ Ends(t, k))
  BY HandleInput
<1>3. Dispatched' = d
  BY <1>1 DEF Dispatched
<1>4. /\ \A w \in tasks : w \in R
      /\ \A w, x \in tasks : w.number = x.number => w = x
      /\ injected \in Seq(Injected)
      /\ cursor \in {Somewhere} \cup (0 .. Width) \X (0 .. Height)
  BY DEF Base, Typed, TypeOK
<1>5. /\ \A w \in tasks' : w \in R
      /\ \A w, x \in tasks' : w.number = x.number => w = x
      /\ \A w \in tasks' :
            /\ w.input = Callback(events[w.number])
            /\ w.at # "key_again"
            /\ w.at = "mouse_again" => w.input.mouse_bitfield \in MouseButton
  <2>1. \A w \in tasks :
            /\ w.input = Callback(events[w.number])
            /\ w.at # "key_again"
            /\ w.at = "mouse_again" => w.input.mouse_bitfield \in MouseButton
    BY DEF Base, Link
  <2>2. CASE Ends(t, k)
    <3>1. \A w \in tasks' : w \in tasks
      BY <2>2 DEF Ends
    <3> QED BY <1>4, <2>1, <3>1
  <2>3. CASE Stays(t, k)
    <3>1. PICK place \in {"mouse", "mouse_again", "key"} :
              /\ tasks' = (tasks \ {t}) \cup {[t EXCEPT !.at = place]}
              /\ place = "mouse_again" => t.input.mouse_bitfield \in MouseButton
      BY <2>3, Zenon DEF Stays
    <3> DEFINE u == [t EXCEPT !.at = place]
    <3>2. place \in Place /\ t \in R
      BY <1>4 DEF Place
    <3>3. u.number = t.number /\ u.input = t.input /\ u.at = place /\ u \in R
      BY <3>2
    <3>4. tasks' = (tasks \ {t}) \cup {u}
      BY <3>1
    <3> HIDE DEF u, R
    <3>5. \A w \in tasks' : w = u \/ (w \in tasks /\ w # t)
      BY <3>4
    <3> QED BY <1>4, <2>1, <3>1, <3>3, <3>5
  <2> QED BY <1>2, <2>2, <2>3
<1>6. injected' \in Seq(Injected)
  <2>1. CASE injected' = injected
    BY <1>4, <2>1
  <2>2. CASE Injects(t)
    <3> DEFINE e == events[t.number]
               x == [kind |-> As(e)[1], code |-> As(e)[2], at |-> cursor]
    <3>1. e \in Event
      BY TaskFacts
    <3>2. As(e)[1] \in {"key", "button"} /\ As(e)[2] \in Int
      BY <3>1, EventTypes
    <3> HIDE DEF e
    <3>3. x \in Injected
      BY <1>4, <3>2 DEF Injected
    <3>4. injected' = Append(injected, x)
      BY <2>2 DEF Injects, e
    <3> HIDE DEF x
    <3> QED BY <1>4, <3>3, <3>4, AppendProperties
  <2> QED BY <1>2, <2>1, <2>2 DEF Adds
<1>7. Link'
  BY <1>1, <1>3, <1>5 DEF Base, Link
<1>8. TypeOK'
  <2>1. tasks' \subseteq [number : 1 .. Dispatched', input : Message, at : Place]
    BY <1>3, <1>5
  <2>2. \A w, x \in tasks' : w.number = x.number => w = x
    BY <1>5
  <2> QED BY <1>1, <2>1, <2>2 DEF Base, Typed, TypeOK
<1>9. Pixels'
  BY <1>1 DEF Base, Pixels
<1> QED BY <1>6, <1>7, <1>8, <1>9 DEF Base, Typed

\* So does every step.
LEMMA NextBase == Base /\ [Next]_vars => Base'
<1> SUFFICES ASSUME Base, [Next]_vars PROVE Base'
  OBVIOUS
<1>1. CASE UNCHANGED vars
  BY <1>1, StutterBase
<1>2. CASE create_window \/ UseNoWindow \/ close_window
  BY <1>2, WindowBase
<1>3. CASE \E n \in 0 .. MaxEvents : \E evs \in [1 .. n -> Event] : render_frame(evs)
  BY <1>3, RenderBase
<1>4. CASE Dispatch
  BY <1>4, DispatchBase
<1>5. CASE \E t \in tasks : handle_input(t)
  BY <1>5, HandleBase
<1> QED BY <1>1, <1>2, <1>3, <1>4, <1>5 DEF Next

\* The base of the invariants always holds.
LEMMA BaseInvariance == Spec => []Base
BY InitBase, NextBase, PTL DEF Spec

\* Type correctness; each message poll_network dispatches is handled by one task.
THEOREM TypeCorrect == Spec => []TypeOK
<1>1. Base => TypeOK
  BY DEF Base, Typed
<1> QED BY <1>1, BaseInvariance, PTL

\* The window shows the frame render_frame was given last, the one before it or
\* nothing, never an older one or one of an earlier session.
THEOREM ShowsRecentFrames == Spec => []ShownIsRecent
<1>1. Init => ShownIsRecent
  BY DEF Init, ShownIsRecent
<1>2. ShownIsRecent /\ Base /\ [Next]_vars => ShownIsRecent'
  <2> SUFFICES ASSUME ShownIsRecent, Base, [Next]_vars PROVE ShownIsRecent'
    OBVIOUS
  <2>1. CASE \/ UNCHANGED vars \/ UseNoWindow \/ close_window \/ Dispatch
    BY <2>1 DEF ShownIsRecent, vars, viewerVars, UseNoWindow, close_window, Dispatch
  <2>2. CASE create_window
    BY <2>2 DEF ShownIsRecent, create_window
  <2>3. CASE \E n \in 0 .. MaxEvents : \E evs \in [1 .. n -> Event] : render_frame(evs)
    <3>1. /\ window = "open" /\ frame' = <<frame[1], frame[2] + 1>> /\ shown' = pbo
      BY <2>3 DEF render_frame
    <3>2. pbo \in {Undefined, frame} /\ frame \in (0 .. MaxWindows) \X (0 .. MaxFrames)
      BY <3>1 DEF Base, Pixels, Typed, TypeOK
    <3>3. frame = <<frame'[1], frame'[2] - 1>>
      BY <3>1, <3>2, BoundsAssumption
    <3> QED BY <3>1, <3>2, <3>3 DEF ShownIsRecent
  <2>4. CASE \E t \in tasks : handle_input(t)
    BY <2>4, CursorStep DEF ShownIsRecent
  <2> QED BY <2>1, <2>2, <2>3, <2>4 DEF Next
<1> QED BY <1>1, <1>2, BaseInvariance, PTL DEF Spec

\* While a window is open no two keys are mapped to the same key of the host by
\* get_key_mapping, and none to a number send_virtual_input takes for a button.
THEOREM KeysToldApart == Spec => []KeysDistinct
<1>1. KeysDistinct
  BY MappingTellsKeysApart DEF KeysDistinct
<1> QED BY <1>1, PTL

--------------------------------------------------------------------------------
(* What a sequence of events should do *)

\* The cursor and the inputs of the model, as functions of the events.
Inside(e) == e.kind = "move" /\ e.code[1] > 0 /\ e.code[2] > 0

CursorOf(s, i) ==
    LET inside == {j \in 1 .. i : Inside(s[j])}
    IN  IF inside = {} THEN Somewhere
        ELSE LET p == s[Max(inside)].code
             IN  <<Min({p[1], Width}), Min({p[2], Height})>>

EffectOf(s, i) ==
    [k \in 1 .. Times(s[i]) |->
        [kind |-> As(s[i])[1], code |-> As(s[i])[2], at |-> CursorOf(s, i)]]

MeantBy(s, n) == FlattenSeq([i \in 1 .. n |-> EffectOf(s, i)])

\* Brought back onto the screen from below, a coordinate is the smaller of two.
LEMMA MinClamps ==
    ASSUME NEW x \in Int, x > 0, NEW y \in Nat
    PROVE  Min({x, y}) = Clamp(x, y)
<1>1. PICK m \in {x, y} : m = Clamp(x, y) /\ \A z \in {x, y} : m <= z
  BY DEF Clamp
<1>2. \A w \in {x, y} : (\A z \in {x, y} : w <= z) => w = m
  BY <1>1
<1> QED BY <1>1, <1>2 DEF Min

\* The cursor is where the last position inside put it.
LEMMA CursorNext ==
    ASSUME NEW s \in Seq(Event), NEW n \in Nat, n + 1 <= Len(s)
    PROVE  CursorOf(s, n + 1) =
               IF Inside(s[n + 1])
               THEN <<Clamp(s[n + 1].code[1], Width), Clamp(s[n + 1].code[2], Height)>>
               ELSE CursorOf(s, n)
<1> DEFINE I(k) == {j \in 1 .. k : Inside(s[j])}
<1>1. CASE Inside(s[n + 1])
  <2>1. Max(I(n + 1)) = n + 1
    <3>1. n + 1 \in I(n + 1)
      BY <1>1
    <3>2. I(n + 1) \subseteq Int /\ \A j \in I(n + 1) : n + 1 >= j
      OBVIOUS
    <3> HIDE DEF I
    <3>3. \A x \in I(n + 1) : (\A y \in I(n + 1) : x >= y) => x = n + 1
      BY <3>1, <3>2
    <3> QED BY <3>1, <3>2, <3>3 DEF Max
  <2>2. I(n + 1) # {}
    BY <1>1
  <2>3. n + 1 \in 1 .. Len(s) /\ Len(s) \in Nat
    BY LenProperties
  <2>4. s[n + 1] \in Event
    BY <2>3, ElementOfSeq
  <2>5. /\ s[n + 1].code \in Int \X Int
        /\ s[n + 1].code[1] > 0 /\ s[n + 1].code[2] > 0
    BY <1>1, <2>4, EventFacts DEF Inside
  <2> DEFINE p == s[n + 1].code
  <2>6. /\ Min({p[1], Width}) = Clamp(p[1], Width)
        /\ Min({p[2], Height}) = Clamp(p[2], Height)
    BY <2>5, SizeAssumption, MinClamps
  <2>7. CursorOf(s, n + 1) = <<Min({p[1], Width}), Min({p[2], Height})>>
    BY <2>1, <2>2, Zenon DEF CursorOf
  <2> QED BY <1>1, <2>6, <2>7, Zenon
<1>2. CASE ~Inside(s[n + 1])
  <2>1. I(n + 1) = I(n)
    BY <1>2
  <2> QED BY <1>2, <2>1, Zenon DEF CursorOf
<1> QED BY <1>1, <1>2

\* It is on the screen.
LEMMA CursorType ==
    ASSUME NEW s \in Seq(Event), NEW n \in 0 .. Len(s)
    PROVE  CursorOf(s, n) \in {Somewhere} \cup (0 .. Width) \X (0 .. Height)
<1> DEFINE C == {Somewhere} \cup (0 .. Width) \X (0 .. Height)
           S == {k \in Nat : k <= Len(s) => CursorOf(s, k) \in C}
<1>1. Len(s) \in Nat
  BY LenProperties
<1>2. 0 \in S
  <2>1. {j \in 1 .. 0 : Inside(s[j])} = {}
    OBVIOUS
  <2>2. CursorOf(s, 0) = Somewhere
    BY <2>1, Zenon DEF CursorOf
  <2> QED BY <2>2
<1>3. ASSUME NEW k \in S PROVE k + 1 \in S
  <2>1. SUFFICES ASSUME k + 1 <= Len(s) PROVE CursorOf(s, k + 1) \in C
    BY <1>3
  <2>2. k \in Nat /\ k <= Len(s) /\ k + 1 \in 1 .. Len(s)
    BY <1>1, <1>3, <2>1
  <2>3. CursorOf(s, k) \in C
    BY <1>3, <2>2
  <2>4. CASE Inside(s[k + 1])
    <3>1. s[k + 1] \in Event
      BY <2>2, ElementOfSeq
    <3>2. s[k + 1].code \in Int \X Int
      BY <2>4, <3>1, EventFacts DEF Inside
    <3>3. \A x \in Int : Clamp(x, Width) \in 0 .. Width /\ Clamp(x, Height) \in 0 .. Height
      BY SizeAssumption DEF Clamp
    <3>4. <<Clamp(s[k + 1].code[1], Width), Clamp(s[k + 1].code[2], Height)>> \in C
      BY <3>2, <3>3
    <3>5. CursorOf(s, k + 1) = <<Clamp(s[k + 1].code[1], Width), Clamp(s[k + 1].code[2], Height)>>
      BY <2>1, <2>2, <2>4, CursorNext
    <3> QED BY <3>4, <3>5, Zenon
  <2>5. CASE ~Inside(s[k + 1])
    <3>1. CursorOf(s, k + 1) = CursorOf(s, k)
      BY <2>1, <2>2, <2>5, CursorNext
    <3> QED BY <2>3, <3>1, Zenon
  <2> QED BY <2>4, <2>5
<1>4. S = Nat
  <2> HIDE DEF C
  <2> QED BY <1>2, <1>3, SetInduction
<1> QED BY <1>1, <1>4

\* What an event should do is a sequence of inputs.
LEMMA EffectType ==
    ASSUME NEW s \in Seq(Event), NEW i \in 1 .. Len(s)
    PROVE  /\ EffectOf(s, i) \in Seq(Injected)
           /\ Len(EffectOf(s, i)) = Times(s[i]) /\ Times(s[i]) \in 0 .. 2
           /\ \A k \in 1 .. Times(s[i]) :
                 EffectOf(s, i)[k] =
                    [kind |-> As(s[i])[1], code |-> As(s[i])[2], at |-> CursorOf(s, i)]
<1> DEFINE x == [kind |-> As(s[i])[1], code |-> As(s[i])[2], at |-> CursorOf(s, i)]
<1>1. s[i] \in Event /\ i \in 0 .. Len(s)
  BY ElementOfSeq, LenProperties
<1>2. x \in Injected /\ Times(s[i]) \in 0 .. 2
  <2>1. As(s[i])[1] \in {"key", "button"} /\ As(s[i])[2] \in Int /\ Times(s[i]) \in 0 .. 2
    BY <1>1, EventTypes
  <2>2. CursorOf(s, i) \in {Somewhere} \cup (0 .. Width) \X (0 .. Height)
    BY <1>1, CursorType
  <2> QED BY <2>1, <2>2 DEF Injected
<1>3. EffectOf(s, i) = [k \in 1 .. Times(s[i]) |-> x]
  BY DEF EffectOf
<1> HIDE DEF x
<1>4. /\ [k \in 1 .. Times(s[i]) |-> x] \in Seq(Injected)
      /\ Len([k \in 1 .. Times(s[i]) |-> x]) = Times(s[i])
      /\ \A k \in 1 .. Times(s[i]) : [j \in 1 .. Times(s[i]) |-> x][k] = x
  BY <1>2
<1> QED BY <1>2, <1>3, <1>4, Zenon DEF x

\* One event more.
LEMMA MeantGrows ==
    ASSUME NEW s \in Seq(Event), NEW n \in Nat, n + 1 <= Len(s)
    PROVE  /\ MeantBy(s, n) \in Seq(Injected)
           /\ EffectOf(s, n + 1) \in Seq(Injected)
           /\ MeantBy(s, n + 1) = MeantBy(s, n) \o EffectOf(s, n + 1)
<1> DEFINE f == [i \in 1 .. n |-> EffectOf(s, i)]
           x == EffectOf(s, n + 1)
<1>1. Len(s) \in Nat
  BY LenProperties
<1>2. \A i \in 1 .. (n + 1) : EffectOf(s, i) \in Seq(Injected)
  <2>1. \A i \in 1 .. (n + 1) : i \in 1 .. Len(s)
    BY <1>1
  <2> QED BY <2>1, EffectType
<1>3. f \in Seq(Seq(Injected)) /\ Len(f) = n /\ x \in Seq(Injected)
      /\ \A i \in 1 .. n : f[i] = EffectOf(s, i)
  BY <1>2
<1>4. [i \in 1 .. (n + 1) |-> EffectOf(s, i)] = Append(f, x)
  <2> DEFINE g == [i \in 1 .. (n + 1) |-> EffectOf(s, i)]
  <2>1. g \in Seq(Seq(Injected)) /\ Len(g) = n + 1
        /\ \A i \in 1 .. (n + 1) : g[i] = EffectOf(s, i)
    BY <1>2
  <2> HIDE DEF f, g
  <2>2. /\ Append(f, x) \in Seq(Seq(Injected)) /\ Len(Append(f, x)) = n + 1
        /\ \A i \in 1 .. n : Append(f, x)[i] = f[i]
        /\ Append(f, x)[n + 1] = x
    BY <1>3, AppendProperties
  <2>3. \A i \in 1 .. (n + 1) : i \in 1 .. n \/ i = n + 1
    OBVIOUS
  <2>4. \A i \in 1 .. (n + 1) : g[i] = Append(f, x)[i]
    BY <1>3, <2>1, <2>2, <2>3, Zenon
  <2> QED BY <2>1, <2>2, <2>4, SeqEqual DEF g
<1> HIDE DEF f, x
<1>5. FlattenSeq(f) \in Seq(Injected) /\ FlattenSeq(Append(f, x)) = FlattenSeq(f) \o x
  BY <1>3, FlattenAppend
<1> QED BY <1>3, <1>4, <1>5, Zenon DEF MeantBy, f, x

\* Later events change nothing of it.
LEMMA MeantStable ==
    ASSUME NEW s, NEW r, NEW m \in Nat, \A i \in 1 .. m : r[i] = s[i], NEW n \in 0 .. m
    PROVE  /\ CursorOf(r, n) = CursorOf(s, n)
           /\ n > 0 => EffectOf(r, n) = EffectOf(s, n)
           /\ MeantBy(r, n) = MeantBy(s, n)
<1>1. ASSUME NEW k \in 0 .. m PROVE CursorOf(r, k) = CursorOf(s, k)
  <2> DEFINE I == {j \in 1 .. k : Inside(r[j])}
             J == {j \in 1 .. k : Inside(s[j])}
  <2>1. I = J
    <3>1. \A j \in 1 .. k : r[j] = s[j]
      OBVIOUS
    <3> QED BY <3>1
  <2>2. J # {} => Max(J) \in J
    <3>1. SUFFICES ASSUME J # {} PROVE \E x \in J : \A y \in J : x >= y
      BY DEF Max
    <3>2. J \subseteq 1 .. k
      OBVIOUS
    <3> HIDE DEF J
    <3> DEFINE K == {k - j : j \in J}
    <3>3. K \in SUBSET Nat /\ K # {}
      <4>1. \A j \in J : k - j \in Nat
        BY <3>2
      <4> QED BY <3>1, <4>1
    <3>4. PICK z \in K : \A w \in K : z <= w
      BY <3>3, LeastElement
    <3>5. PICK x \in J : z = k - x
      BY <3>4
    <3>6. \A y \in J : k - x <= k - y
      BY <3>4, <3>5
    <3> QED BY <3>2, <3>5, <3>6
  <2>3. J # {} => r[Max(J)] = s[Max(J)]
    <3>1. \A j \in J : r[j] = s[j]
      OBVIOUS
    <3> QED BY <2>2, <3>1
  <2>4. CursorOf(r, k) = IF J = {} THEN Somewhere
                         ELSE <<Min({s[Max(J)].code[1], Width}), Min({s[Max(J)].code[2], Height})>>
    <3>1. CursorOf(r, k) = IF I = {} THEN Somewhere
                         ELSE <<Min({r[Max(I)].code[1], Width}), Min({r[Max(I)].code[2], Height})>>
      BY Zenon DEF CursorOf
    <3> HIDE DEF I, J
    <3> QED BY <2>1, <2>3, <3>1, Zenon
  <2> QED BY <2>4, Zenon DEF CursorOf
<1>2. ASSUME NEW k \in 1 .. m PROVE EffectOf(r, k) = EffectOf(s, k)
  <2>1. CursorOf(r, k) = CursorOf(s, k) /\ r[k] = s[k]
    BY <1>1
  <2> QED BY <2>1, Zenon DEF EffectOf
<1>3. [i \in 1 .. n |-> EffectOf(r, i)] = [i \in 1 .. n |-> EffectOf(s, i)]
  <2>1. \A i \in 1 .. n : EffectOf(r, i) = EffectOf(s, i)
    BY <1>2
  <2> QED BY <2>1, Zenon
<1>4. n > 0 => n \in 1 .. m
  OBVIOUS
<1> QED BY <1>1, <1>2, <1>3, <1>4, Zenon DEF MeantBy

\* What no events should do is nothing, and all of it is a sequence of inputs.
LEMMA MeantType ==
    ASSUME NEW s \in Seq(Event), NEW n \in 0 .. Len(s)
    PROVE  MeantBy(s, n) \in Seq(Injected) /\ MeantBy(s, 0) = <<>>
<1>1. MeantBy(s, 0) = <<>>
  <2>1. [i \in 1 .. 0 |-> EffectOf(s, i)] = <<>>
    OBVIOUS
  <2>2. FlattenSeq(<<>>) = <<>>
    BY DEF FlattenSeq
  <2> QED BY <2>1, <2>2, Zenon DEF MeantBy
<1>2. Len(s) \in Nat
  BY LenProperties
<1>3. CASE n = 0
  <2>1. <<>> \in Seq(Injected)
    BY EmptySeq
  <2> QED BY <1>1, <1>3, <2>1, Zenon
<1>4. CASE n # 0
  <2>1. n - 1 \in Nat /\ (n - 1) + 1 = n /\ (n - 1) + 1 <= Len(s)
    BY <1>2, <1>4
  <2>2. /\ MeantBy(s, n - 1) \in Seq(Injected)
        /\ EffectOf(s, (n - 1) + 1) \in Seq(Injected)
        /\ MeantBy(s, (n - 1) + 1) = MeantBy(s, n - 1) \o EffectOf(s, (n - 1) + 1)
    BY <2>1, MeantGrows
  <2>3. MeantBy(s, (n - 1) + 1) \in Seq(Injected)
    BY <2>2, ConcatProperties
  <2> QED BY <1>1, <2>1, <2>3
<1> QED BY <1>3, <1>4

\* What fewer events should do is the beginning of what more should do.
LEMMA MeantPrefix ==
    ASSUME NEW s \in Seq(Event), NEW n \in Nat, NEW m \in Nat, n + m <= Len(s)
    PROVE  \E r \in Seq(Injected) : MeantBy(s, n + m) = MeantBy(s, n) \o r
<1> DEFINE S == {k \in Nat : n + k <= Len(s) =>
                    \E r \in Seq(Injected) : MeantBy(s, n + k) = MeantBy(s, n) \o r}
<1>1. Len(s) \in Nat
  BY LenProperties
<1>2. MeantBy(s, n) \in Seq(Injected)
  <2>1. n \in 0 .. Len(s)
    BY <1>1
  <2> QED BY <2>1, MeantType
<1>3. 0 \in S
  <2>1. n + 0 = n
    OBVIOUS
  <2>2. MeantBy(s, n) = MeantBy(s, n) \o <<>> /\ <<>> \in Seq(Injected)
    BY <1>2, ConcatEmptySeq, EmptySeq
  <2> QED BY <2>1, <2>2
<1>4. ASSUME NEW k \in S PROVE k + 1 \in S
  <2>1. k \in Nat /\ k + 1 \in Nat
    BY <1>4
  <2>2. SUFFICES ASSUME n + (k + 1) <= Len(s)
                 PROVE  \E r \in Seq(Injected) : MeantBy(s, n + (k + 1)) = MeantBy(s, n) \o r
    BY <2>1, Zenon
  <2>3. n + k \in Nat /\ (n + k) + 1 <= Len(s) /\ (n + k) + 1 = n + (k + 1) /\ n + k <= Len(s)
    BY <1>1, <2>1, <2>2
  <2>4. PICK r \in Seq(Injected) : MeantBy(s, n + k) = MeantBy(s, n) \o r
    BY <1>4, <2>3
  <2> DEFINE a == MeantBy(s, n)
             x == EffectOf(s, (n + k) + 1)
  <2>5. x \in Seq(Injected) /\ MeantBy(s, n + (k + 1)) = (a \o r) \o x
    <3>1. /\ EffectOf(s, (n + k) + 1) \in Seq(Injected)
          /\ MeantBy(s, (n + k) + 1) = MeantBy(s, n + k) \o EffectOf(s, (n + k) + 1)
      BY <2>3, MeantGrows
    <3> QED BY <2>3, <2>4, <3>1, Zenon
  <2> HIDE DEF a, x
  <2>6. a \in Seq(Injected)
    BY <1>2 DEF a
  <2>7. (a \o r) \o x = a \o (r \o x)
    BY ONLY <2>5, <2>6, r \in Seq(Injected), ConcatAssociative, SMTT(60)
  <2>8. r \o x \in Seq(Injected)
    BY ONLY <2>5, r \in Seq(Injected), ConcatProperties
  <2> QED BY <2>5, <2>7, <2>8, Zenon DEF a
<1>5. S = Nat
  BY <1>3, <1>4, SetInduction
<1> QED BY <1>5

\* The definitions of the model, of the events so far.
LEMMA MeantIs ==
    ASSUME events \in Seq(Event)
    PROVE  /\ Meant = MeantBy(events, Len(events))
           /\ CursorAfter(Len(events)) = CursorOf(events, Len(events))
<1>1. DOMAIN events = 1 .. Len(events)
  BY LenProperties
<1>2. \A i : CursorAfter(i) = CursorOf(events, i)
  BY Zenon DEF CursorAfter, CursorOf, Inside
<1>3. ASSUME NEW i \in 1 .. Len(events) PROVE Effect(i) = EffectOf(events, i)
  <2> DEFINE e == events[i]
             input(kind, code) == [kind |-> kind, code |-> code, at |-> CursorOf(events, i)]
             x == input(As(e)[1], As(e)[2])
  <2>1. e \in Event
    BY ElementOfSeq
  <2>2. Effect(i) =
          CASE e.kind = "key" /\ get_key_mapping(e.code) > 0 ->
                  <<input("key", get_key_mapping(e.code))>>
            [] e.kind = "button" /\ e.code + 1 \in PressedByFlag ->
                  <<input("button", e.code + 1), input("button", e.code + 1)>>
            [] e.kind = "button" /\ e.code >= 6 -> <<input("key", e.code + 1)>>
            [] OTHER -> <<>>
    BY <1>2, Zenon DEF Effect
  <2>3. /\ Times(e) = 0 => Effect(i) = <<>>
        /\ Times(e) = 1 => Effect(i) = <<x>>
        /\ Times(e) = 2 => Effect(i) = <<x, x>>
    <3>1. CASE e.kind = "key"
      <4> DEFINE v == get_key_mapping(e.code)
      <4>1. v \in Int
        <5>1. e.code \in GlfwKeys
          BY <2>1, <3>1, KeysAssumption DEF Event
        <5> QED BY <5>1, MappingType
      <4>2. As(e) = <<"key", v>> /\ Times(e) = (IF v > 0 THEN 1 ELSE 0)
        BY <3>1 DEF As, Times
      <4>3. x = input("key", v)
        BY <4>2
      <4>4. Effect(i) = IF v > 0 THEN <<input("key", v)>> ELSE <<>>
        <5> HIDE DEF input, v
        <5> QED BY <2>2, <3>1 DEF v
      <4> HIDE DEF x, input, v
      <4> QED BY <4>1, <4>2, <4>3, <4>4
    <3>2. CASE e.kind = "button"
      <4> DEFINE v == e.code + 1
      <4>1. e.code \in Nat
        <5>1. e.code \in Buttons
          BY <2>1, <3>2 DEF Event
        <5> QED BY <5>1, ButtonsAssumption
      <4>2. CASE v \in PressedByFlag
        <5>1. ~(e.code >= 6) /\ e.code < 6
          BY <4>1, <4>2 DEF PressedByFlag
        <5>2. Times(e) = 2 /\ As(e) = <<"button", v>>
          BY <3>2, <4>2, <5>1 DEF Times, As
        <5>3. x = input("button", v)
          BY <5>2
        <5>4. Effect(i) = <<input("button", v), input("button", v)>>
          <6> HIDE DEF input
          <6> QED BY <2>2, <3>2, <4>2, <5>1
        <5> HIDE DEF x, input, v
        <5> QED BY <5>2, <5>3, <5>4
      <4>3. CASE v \notin PressedByFlag /\ e.code >= 6
        <5>1. Times(e) = 1 /\ As(e) = <<"key", v>>
          BY <3>2, <4>1, <4>3 DEF Times, As
        <5>2. x = input("key", v)
          BY <5>1
        <5>3. Effect(i) = <<input("key", v)>>
          <6> HIDE DEF input
          <6> QED BY <2>2, <3>2, <4>3
        <5> HIDE DEF x, input, v
        <5> QED BY <5>1, <5>2, <5>3
      <4>4. CASE v \notin PressedByFlag /\ ~(e.code >= 6)
        <5>1. Times(e) = 0
          BY <3>2, <4>4 DEF Times
        <5>2. Effect(i) = <<>>
          <6> HIDE DEF input
          <6> QED BY <2>2, <3>2, <4>4
        <5> HIDE DEF x, input, v
        <5> QED BY <5>1, <5>2
      <4> QED BY <4>2, <4>3, <4>4
    <3>3. CASE e.kind = "move"
      <4>1. Times(e) = 0
        BY <3>3 DEF Times
      <4>2. Effect(i) = <<>>
        <5> HIDE DEF input
        <5> QED BY <2>2, <3>3
      <4> HIDE DEF x
      <4> QED BY <4>1, <4>2
    <3> QED BY <2>1, <3>1, <3>2, <3>3 DEF Event
  <2>4. EffectOf(events, i) = [k \in 1 .. Times(e) |-> x]
    BY Zenon DEF EffectOf
  <2>5. Times(e) \in 0 .. 2
    BY <2>1, EventTypes
  <2> HIDE DEF e, x
  <2>6. CASE Times(e) = 0
    <3>1. [k \in 1 .. 0 |-> x] = <<>>
      OBVIOUS
    <3> QED BY <2>3, <2>4, <2>6, <3>1
  <2>7. CASE Times(e) = 1
    <3>1. [k \in 1 .. 1 |-> x] = <<x>>
      OBVIOUS
    <3> QED BY <2>3, <2>4, <2>7, <3>1
  <2>8. CASE Times(e) = 2
    <3>1. [k \in 1 .. 2 |-> x] = <<x, x>>
      OBVIOUS
    <3> QED BY <2>3, <2>4, <2>8, <3>1
  <2> QED BY <2>5, <2>6, <2>7, <2>8
<1>4. [i \in DOMAIN events |-> Effect(i)] = [i \in 1 .. Len(events) |-> EffectOf(events, i)]
  BY <1>1, <1>3, Zenon
<1> QED BY <1>2, <1>4, Zenon DEF Meant, MeantBy

--------------------------------------------------------------------------------
(* One task after the other *)

\* While no two tasks overlap and no INPUT was dirty, there is at most one task, that
\* of the last message dispatched; the host has done what the events before it should
\* do and as much of this one as the task has come to.
Serial ==
    ~overlapped /\ ~soiled =>
        /\ tasks = {} => /\ injected = MeantBy(events, Dispatched)
                         /\ cursor = CursorOf(events, Dispatched)
        /\ \A t \in tasks :
              /\ t.number = Dispatched
              /\ injected = MeantBy(events, Dispatched - 1)
                              \o SubSeq(EffectOf(events, Dispatched), 1, Done(t))
              /\ cursor = CursorOf(events, IF t.at = "cursor" THEN Dispatched - 1 ELSE Dispatched)

\* A task never injects its event too often.
LEMMA DoneBound ==
    ASSUME NEW w, events[w.number] \in Event, w.input = Callback(events[w.number])
    PROVE  /\ Done(w) \in Nat /\ Done(w) <= Times(events[w.number])
           /\ Times(events[w.number]) \in 0 .. 2
<1> DEFINE e == events[w.number]
           m == w.input.mouse_bitfield
           n == Times(e)
<1>1. n \in 0 .. 2
  BY EventTypes
<1>2. m \in Int /\ (m \in PressedByFlag => n = 2)
  <2>1. CASE e.kind = "button"
    BY <2>1, EventFacts
  <2>2. CASE e.kind \in {"key", "move"}
    BY <2>2, EventFacts DEF PressedByFlag
  <2> QED BY <2>1, <2>2 DEF Event
<1> HIDE DEF n, m
<1>3. Done(w) = CASE w.at \in {"cursor", "mouse"} -> 0
                  [] w.at = "mouse_again" -> IF m \in PressedByFlag THEN 1 ELSE 0
                  [] OTHER -> IF m > 0 THEN n ELSE 0
  BY Zenon DEF Done, n, m
<1>4. Done(w) \in {0, n} \/ (m \in PressedByFlag /\ Done(w) = 1)
  BY <1>3
<1>5. Done(w) \in Nat /\ Done(w) <= n
  BY <1>1, <1>2, <1>4
<1> QED BY <1>1, <1>5 DEF n

\* At the start nothing is to be done and nothing is.
LEMMA InitSerial == Init => Serial
<1> SUFFICES ASSUME Init PROVE Serial
  OBVIOUS
<1>1. tasks = {} /\ injected = <<>> /\ cursor = Somewhere /\ events = <<>> /\ Dispatched = 0
  BY DEF Init, Dispatched
<1>2. MeantBy(events, 0) = <<>>
  <2>1. events \in Seq(Event) /\ 0 \in 0 .. Len(events)
    BY <1>1
  <2> QED BY <2>1, MeantType
<1>3. CursorOf(events, 0) = Somewhere
  <2>1. {j \in 1 .. 0 : Inside(events[j])} = {}
    OBVIOUS
  <2> QED BY <2>1, Zenon DEF CursorOf
<1> QED BY <1>1, <1>2, <1>3 DEF Serial

\* New events come behind those that have been dispatched.
LEMMA RenderSerial ==
    ASSUME Base, Serial,
           NEW n \in 0 .. MaxEvents, NEW evs \in [1 .. n -> Event], render_frame(evs)
    PROVE  Serial'
<1> DEFINE d == Dispatched
<1>1. Dispatched' = d /\ \A i \in 1 .. Len(events) : events'[i] = events[i]
  BY RenderLink
<1>2. UNCHANGED <<tasks, cursor, injected, overlapped, soiled>>
  BY DEF render_frame, hostVars
<1>3. Len(events) \in Nat /\ d \in Nat /\ d <= Len(events)
  BY Lengths
<1> HIDE DEF d
<1>4. \A i \in 0 .. d : /\ CursorOf(events', i) = CursorOf(events, i)
                        /\ MeantBy(events', i) = MeantBy(events, i)
                        /\ i > 0 => EffectOf(events', i) = EffectOf(events, i)
  <2>1. \A i \in 0 .. d : i \in 0 .. Len(events)
    BY <1>3
  <2> QED BY <1>1, <1>3, <2>1, MeantStable
<1> SUFFICES ASSUME ~overlapped', ~soiled'
             PROVE  /\ tasks = {} => /\ injected = MeantBy(events', d)
                                     /\ cursor = CursorOf(events', d)
                    /\ \A t \in tasks :
                          /\ t.number = d
                          /\ injected = MeantBy(events', d - 1)
                                            \o SubSeq(EffectOf(events', d), 1, Done(t)')
                          /\ cursor = CursorOf(events', IF t.at = "cursor" THEN d - 1 ELSE d)
  BY <1>1, <1>2 DEF Serial
<1>5. /\ tasks = {} => /\ injected = MeantBy(events, d)
                       /\ cursor = CursorOf(events, d)
      /\ \A t \in tasks :
            /\ t.number = d
            /\ injected = MeantBy(events, d - 1) \o SubSeq(EffectOf(events, d), 1, Done(t))
            /\ cursor = CursorOf(events, IF t.at = "cursor" THEN d - 1 ELSE d)
  BY <1>2, Zenon DEF Serial, d
<1>6. d \in 0 .. d
  BY <1>3
<1>7. ASSUME NEW t \in tasks
      PROVE  /\ injected = MeantBy(events', d - 1) \o SubSeq(EffectOf(events', d), 1, Done(t)')
             /\ cursor = CursorOf(events', IF t.at = "cursor" THEN d - 1 ELSE d)
  <2>1. t.number \in Nat \ {0} /\ t.number = d /\ t.number \in 1 .. Len(events)
    BY <1>3, <1>5, TaskFacts
  <2>2. d > 0 /\ d - 1 \in 0 .. d
    BY <2>1
  <2>3. events'[t.number] = events[t.number]
    BY <1>1, <2>1
  <2>4. Done(t)' = Done(t)
    BY <2>3, Zenon DEF Done
  <2> QED BY <1>4, <1>5, <1>6, <2>2, <2>4, Zenon
<1> QED BY <1>4, <1>5, <1>6, <1>7, Zenon

\* The first task begins where the last one has ended.
LEMMA DispatchSerial ==
    ASSUME Base, Serial, Dispatch
    PROVE  Serial'
<1> DEFINE d == Dispatched
<1>1. Dispatched' = d + 1 /\ d + 1 <= Len(events)
  BY DispatchFacts
<1>2. PICK u : /\ tasks' = tasks \cup {u}
               /\ u.number = d + 1 /\ u.at = "cursor"
  <2> DEFINE u == [number |-> d + 1, input |-> Head(wire), at |-> "cursor"]
  <2>1. tasks' = tasks \cup {u} /\ u.number = d + 1 /\ u.at = "cursor"
    BY DEF Dispatch
  <2> HIDE DEF u
  <2> QED BY <2>1
<1>3. /\ UNCHANGED <<events, cursor, injected, soiled>>
      /\ overlapped' = (overlapped \/ tasks # {})
  BY DEF Dispatch, viewerVars
<1>4. events \in Seq(Event) /\ Len(events) \in Nat /\ d \in Nat /\ d <= Len(events)
  BY Lengths
<1> HIDE DEF d
<1> SUFFICES ASSUME ~overlapped', ~soiled'
             PROVE  \A t \in tasks' :
                      /\ t.number = d + 1
                      /\ injected = MeantBy(events, (d + 1) - 1)
                                        \o SubSeq(EffectOf(events, d + 1), 1, Done(t)')
                      /\ cursor = CursorOf(events, IF t.at = "cursor" THEN (d + 1) - 1 ELSE d + 1)
  <2>1. tasks' # {}
    BY <1>2
  <2> QED BY <1>1, <1>3, <2>1, Zenon DEF Serial
<1>5. /\ tasks = {} /\ ~overlapped /\ ~soiled
  BY <1>3
<1>6. injected = MeantBy(events, d) /\ cursor = CursorOf(events, d)
  BY <1>5, Zenon DEF Serial, d
<1>7. (d + 1) - 1 = d
  BY <1>4
<1>8. Done(u)' = 0
  <2>1. u.at \in {"cursor", "mouse"} /\ u.at # "mouse_again"
    BY <1>2
  <2> QED BY <2>1 DEF Done
<1>9. SubSeq(EffectOf(events, d + 1), 1, 0) = <<>>
  BY SubSeqEmpty
<1>10. MeantBy(events, d) \o <<>> = MeantBy(events, d)
  <2>1. MeantBy(events, d) \in Seq(Injected)
    BY <1>4, MeantType
  <2> QED BY <2>1, ConcatEmptySeq
<1>11. \A t \in tasks' : t = u
  BY <1>2, <1>5
<1> QED BY <1>2, <1>6, <1>7, <1>8, <1>9, <1>10, <1>11, Zenon

\* It reads nothing else.
LEMMA StutterSerial ==
    ASSUME Serial, UNCHANGED <<events, wire, tasks, cursor, injected, overlapped, soiled>>
    PROVE  Serial'
BY Zenon DEF Serial, Done, Dispatched

\* The task moves the cursor to where the viewer's is, in its first step.
LEMMA CursorObeys ==
    ASSUME Base, NEW t \in tasks, handle_input(t), ~soiled',
           cursor = CursorOf(events, IF t.at = "cursor" THEN t.number - 1 ELSE t.number)
    PROVE  ~soiled /\ cursor' = CursorOf(events, t.number)
<1> DEFINE d == t.number
           e == events[d]
           abs == t.input.abs
<1>1. /\ d \in Nat \ {0} /\ d <= Len(events) /\ e \in Event /\ t.input = Callback(e)
  BY TaskFacts
<1>2. events \in Seq(Event)
  BY Lengths
<1>3. CASE t.at # "cursor"
  BY <1>3, CursorStep
<1>4. CASE t.at = "cursor"
  <2>1. /\ soiled' = soiled
        /\ cursor' = IF abs[1] > 0 /\ abs[2] > 0
                     THEN <<Clamp(abs[1], Width), Clamp(abs[2], Height)>> ELSE cursor
    BY <1>4, CursorStep
  <2>2. d - 1 \in Nat /\ (d - 1) + 1 = d /\ (d - 1) + 1 <= Len(events)
    BY <1>1
  <2>3. CursorOf(events, d) = IF Inside(e)
                              THEN <<Clamp(e.code[1], Width), Clamp(e.code[2], Height)>>
                              ELSE CursorOf(events, d - 1)
    <3>1. ASSUME NEW n \in Nat, n + 1 <= Len(events)
          PROVE  CursorOf(events, n + 1) =
                     IF Inside(events[n + 1])
                     THEN <<Clamp(events[n + 1].code[1], Width),
                            Clamp(events[n + 1].code[2], Height)>>
                     ELSE CursorOf(events, n)
      BY <1>2, <3>1, CursorNext
    <3> HIDE DEF d
    <3> QED BY <2>2, <3>1, Zenon
  <2>4. /\ Inside(e) <=> abs[1] > 0 /\ abs[2] > 0
        /\ Inside(e) => e.code = abs
    BY <1>1, EventFacts DEF Inside
  <2>5. cursor = CursorOf(events, d - 1)
    BY <1>4
  <2> HIDE DEF d, e, abs
  <2> QED BY <2>1, <2>3, <2>4, <2>5, Zenon DEF d
<1> QED BY <1>3, <1>4

\* An input more is the next one of those the event should have.
LEMMA EffectGrows ==
    ASSUME NEW s \in Seq(Event), NEW d \in 1 .. Len(s), NEW q \in Nat, q + 1 <= Times(s[d]),
           NEW m \in Seq(Injected)
    PROVE  m \o SubSeq(EffectOf(s, d), 1, q + 1) =
               Append(m \o SubSeq(EffectOf(s, d), 1, q),
                      [kind |-> As(s[d])[1], code |-> As(s[d])[2], at |-> CursorOf(s, d)])
<1> DEFINE E == EffectOf(s, d)
           x == [kind |-> As(s[d])[1], code |-> As(s[d])[2], at |-> CursorOf(s, d)]
<1>1. /\ E \in Seq(Injected) /\ Len(E) = Times(s[d]) /\ Times(s[d]) \in 0 .. 2
      /\ \A k \in 1 .. Times(s[d]) : E[k] = x
  BY EffectType
<1> HIDE DEF E, x
<1>2. q + 1 \in 1 .. Len(E) /\ (q + 1) - 1 = q
  BY <1>1
<1>3. E[q + 1] = x /\ x \in Injected
  BY <1>1, <1>2, ElementOfSeq
<1>4. SubSeq(E, 1, q) \in Seq(Injected)
  <2>1. \A i \in 1 .. q : E[i] \in Injected
    <3>1. \A i \in 1 .. q : i \in 1 .. Len(E)
      BY <1>2
    <3> QED BY <1>1, <3>1, ElementOfSeq
  <2> QED BY <2>1, SubSeqProperties
<1>5. SubSeq(E, 1, q + 1) = SubSeq(E, 1, q) \o <<x>>
  <2>1. 1 \in 1 .. Len(E) /\ q + 1 \in 1 .. Len(E)
    BY <1>1, <1>2
  <2>2. SubSeq(E, 1, q + 1) = SubSeq(E, 1, (q + 1) - 1) \o <<E[q + 1]>>
    BY <1>1, <2>1, SubSeqRecursiveSecond
  <2> QED BY <1>2, <1>3, <2>2, Zenon
<1>6. Append(SubSeq(E, 1, q), x) = SubSeq(E, 1, q) \o <<x>>
  BY <1>3, <1>4, AppendIsConcat
<1>7. m \o Append(SubSeq(E, 1, q), x) = Append(m \o SubSeq(E, 1, q), x)
  BY <1>3, <1>4, ConcatAppend
<1> QED BY <1>5, <1>6, <1>7, Zenon DEF E, x

\* The only task does what its event should do, one input after the other.
LEMMA HandleSerial ==
    ASSUME Base, Serial, NEW t \in tasks, handle_input(t)
    PROVE  Serial'
<1> DEFINE d == t.number
           n == Times(events[d])
           q == Done(t)
           m == MeantBy(events, d - 1)
           E == EffectOf(events, d)
<1>1. UNCHANGED <<events, wire, overlapped>> /\ Dispatched' = Dispatched
  BY CursorStep DEF Dispatched
<1> SUFFICES ASSUME ~overlapped, ~soiled' PROVE Serial'
  BY <1>1 DEF Serial
<1>2. ~soiled
  <2>1. t.at # "cursor" /\ ~soiled' => ~soiled
    BY CursorStep
  <2>2. t.at = "cursor" => soiled' = soiled
    BY CursorStep
  <2> QED BY <2>1, <2>2
<1>3. /\ d = Dispatched /\ injected = m \o SubSeq(E, 1, q)
      /\ cursor = CursorOf(events, IF t.at = "cursor" THEN d - 1 ELSE d)
      /\ \A w \in tasks : w.number = d
  <2>1. \A w \in tasks :
          /\ w.number = Dispatched
          /\ injected = MeantBy(events, Dispatched - 1)
                          \o SubSeq(EffectOf(events, Dispatched), 1, Done(w))
          /\ cursor = CursorOf(events, IF w.at = "cursor" THEN Dispatched - 1 ELSE Dispatched)
    BY <1>2, Zenon DEF Serial
  <2>2. t.number = Dispatched
    BY <2>1, Zenon
  <2> QED BY <2>1, <2>2, Zenon
<1>4. tasks = {t}
  <2>1. \A w \in tasks : w.number = t.number => w = t
    BY DEF Base, Typed, TypeOK
  <2> QED BY <1>3, <2>1
<1>5. cursor' = CursorOf(events, d)
  BY <1>3, CursorObeys
<1>6. /\ events \in Seq(Event) /\ Len(events) \in Nat /\ d \in 1 .. Len(events)
      /\ d - 1 \in Nat /\ (d - 1) + 1 = d /\ d - 1 \in 0 .. Len(events)
      /\ events[d] \in Event /\ t.input = Callback(events[d])
      /\ t \in [number : Nat \ {0}, input : Message, at : Place]
  BY Lengths, TaskFacts
<1>7. m \in Seq(Injected) /\ E \in Seq(Injected) /\ Len(E) = n /\ n \in 0 .. 2
      /\ MeantBy(events, d) = m \o E
  <2>1. E \in Seq(Injected) /\ Len(E) = n /\ n \in 0 .. 2
    BY <1>6, EffectType
  <2>2. ASSUME NEW j \in Nat, j + 1 = d
        PROVE  MeantBy(events, j) \in Seq(Injected)
               /\ MeantBy(events, d) = MeantBy(events, j) \o E
    BY <1>6, <2>2, MeantGrows
  <2> HIDE DEF E, d
  <2> QED BY <1>6, <2>1, <2>2, Zenon
<1>8. q \in Nat /\ q <= n
  BY <1>6, DoneBound
<1>9. PICK k \in {0, 1} : Adds(t, k) /\ (Stays(t, k) \/ Ends(t, k))
  BY HandleInput
<1>10. q + k <= n => injected' = m \o SubSeq(E, 1, q + k)
  <2>1. CASE k = 0
    <3>1. injected' = injected /\ q + k = q
      BY <1>8, <1>9, <2>1 DEF Adds
    <3> HIDE DEF m, E, q, n
    <3> QED BY <1>3, <3>1, Zenon
  <2>2. CASE k = 1
    <3> DEFINE x == [kind |-> As(events[d])[1], code |-> As(events[d])[2],
                     at |-> CursorOf(events, d)]
    <3> SUFFICES ASSUME q + 1 <= n PROVE injected' = m \o SubSeq(E, 1, q + 1)
      BY <2>2
    <3>1. m \o SubSeq(E, 1, q + 1) = Append(m \o SubSeq(E, 1, q), x)
      BY <1>6, <1>7, <1>8, EffectGrows
    <3>2. Injects(t)
      BY <1>9, <2>2 DEF Adds
    <3>3. t.at # "cursor"
      <4>1. SUFFICES ASSUME t.at = "cursor" PROVE FALSE
        OBVIOUS
      <4>2. injected' = injected
        BY <4>1, CursorStep
      <4>3. PICK y : injected' = Append(injected, y)
        BY <3>2 DEF Injects
      <4>4. injected \in Seq(Injected) /\ injected' \in Seq(Injected)
        BY <4>2, Lengths
      <4> QED BY <4>2, <4>3, <4>4
    <3>4. cursor = CursorOf(events, d)
      BY <1>3, <3>3
    <3>5. injected' = Append(injected, x)
      BY <3>2, <3>4, Zenon DEF Injects
    <3> QED BY <1>3, <3>1, <3>5, Zenon
  <2> QED BY <2>1, <2>2
<1>11. CASE Ends(t, k)
  <2>1. tasks' = {} /\ n = q + k
    BY <1>4, <1>11 DEF Ends
  <2>2. SubSeq(E, 1, q + k) = E
    <3>1. q + k = Len(E)
      BY <1>7, <2>1
    <3> QED BY <1>7, <3>1, SubSeqFull
  <2>3. q + k <= n
    BY <1>7, <2>1
  <2>4. injected' = MeantBy(events, d)
    BY <1>7, <1>10, <2>2, <2>3, Zenon
  <2> QED BY <1>1, <1>3, <1>5, <2>1, <2>4, Zenon DEF Serial
<1>12. CASE Stays(t, k)
  <2>1. PICK u : /\ tasks' = {u} /\ u.number = d /\ u.input = t.input /\ u.at # "cursor"
                 /\ Done(u) = q + k
    <3>1. PICK place \in {"mouse", "mouse_again", "key"} :
              /\ tasks' = (tasks \ {t}) \cup {[t EXCEPT !.at = place]}
              /\ Done([t EXCEPT !.at = place]) = q + k
      BY <1>12, Zenon DEF Stays
    <3> DEFINE u == [t EXCEPT !.at = place]
    <3>2. u.number = t.number /\ u.input = t.input /\ u.at = place
      BY <1>6
    <3>3. tasks' = (tasks \ {t}) \cup {u} /\ Done(u) = q + k
      BY <3>1
    <3> HIDE DEF u, q
    <3>4. tasks' = {u} /\ u.at # "cursor"
      BY <1>4, <3>2, <3>3
    <3> QED BY <3>2, <3>3, <3>4, Zenon
  <2>2. q + k <= n
    <3>1. Done(u) <= Times(events[u.number])
      BY <1>6, <2>1, DoneBound
    <3> QED BY <2>1, <3>1
  <2>3. Done(u)' = q + k
    <3>1. Done(u)' = Done(u)
      BY <1>1, Zenon DEF Done
    <3> QED BY <2>1, <3>1
  <2>4. \A w \in tasks' : /\ w.number = d
                          /\ injected' = m \o SubSeq(E, 1, Done(w)')
                          /\ cursor' = CursorOf(events, IF w.at = "cursor" THEN d - 1 ELSE d)
    <3>1. \A w \in tasks' : w = u
      BY <2>1
    <3> HIDE DEF m, E, q, n
    <3> QED BY <1>5, <1>10, <2>1, <2>2, <2>3, <3>1, Zenon
  <2>5. tasks' # {}
    BY <2>1
  <2> QED BY <1>1, <1>3, <2>4, <2>5, Zenon DEF Serial
<1> QED BY <1>9, <1>11, <1>12

\* Every step keeps the account of the undisturbed host.
LEMMA NextSerial == Base /\ Serial /\ [Next]_vars => Serial'
<1> SUFFICES ASSUME Base, Serial, [Next]_vars PROVE Serial'
  OBVIOUS
<1>1. CASE UNCHANGED vars \/ create_window \/ UseNoWindow \/ close_window
  <2>1. UNCHANGED <<events, wire, tasks, cursor, injected, overlapped, soiled>>
    BY <1>1 DEF vars, viewerVars, hostVars, create_window, UseNoWindow, close_window
  <2> QED BY <2>1, StutterSerial
<1>2. CASE \E n \in 0 .. MaxEvents : \E evs \in [1 .. n -> Event] : render_frame(evs)
  BY <1>2, RenderSerial
<1>3. CASE Dispatch
  BY <1>3, DispatchSerial
<1>4. CASE \E t \in tasks : handle_input(t)
  BY <1>4, HandleSerial
<1> QED BY <1>1, <1>2, <1>3, <1>4 DEF Next

\* What comes first of a joined sequence is a prefix of it.
LEMMA JoinedPrefix ==
    ASSUME NEW T, NEW r \in Seq(T), NEW s \in Seq(T)
    PROVE  IsPrefix(r, r \o s)
<1>1. Len(r) \in Nat /\ Len(s) \in Nat /\ Len(r \o s) = Len(r) + Len(s)
  BY ConcatAt
<1>2. SubSeq(r \o s, 1, Len(r)) = SubSeq(r, 1, Len(r))
  BY <1>1, PrefixStays
<1> QED BY <1>1, <1>2 DEF IsPrefix

\* The inputs of the undisturbed host are the first of those meant.
LEMMA ObeyedSoFar ==
    ASSUME Base, Serial, ~overlapped, ~soiled
    PROVE  IsPrefix(injected, Meant)
<1> DEFINE d == Dispatched
           M(n) == MeantBy(events, n)
<1>1. /\ events \in Seq(Event) /\ injected \in Seq(Injected)
      /\ Len(events) \in Nat /\ Len(wire) \in Nat
      /\ d \in Nat /\ d <= Len(events) /\ d + Len(wire) = Len(events)
  BY Lengths
<1>2. PICK r \in Seq(Injected) : Meant = M(d) \o r
  <2>1. Meant = M(d + Len(wire))
    BY <1>1, MeantIs
  <2>2. \E r \in Seq(Injected) : MeantBy(events, d + Len(wire)) = MeantBy(events, d) \o r
    <3>1. ASSUME NEW n \in Nat, NEW m \in Nat, n + m <= Len(events)
          PROVE  \E r \in Seq(Injected) : MeantBy(events, n + m) = MeantBy(events, n) \o r
      BY <1>1, <3>1, MeantPrefix
    <3>2. d + Len(wire) <= Len(events)
      BY <1>1
    <3> HIDE DEF d
    <3> QED BY <1>1, <3>1, <3>2, Zenon
  <2> QED BY <2>1, <2>2
<1>3. CASE tasks = {}
  <2>1. injected = M(d)
    BY <1>3, Zenon DEF Serial
  <2> QED BY <1>1, <1>2, <2>1, JoinedPrefix
<1>4. ASSUME NEW t \in tasks PROVE IsPrefix(injected, Meant)
  <2> DEFINE E == EffectOf(events, d)
             q == Done(t)
             n == Times(events[d])
             a == M(d - 1)
             b == SubSeq(E, 1, q)
             c == SubSeq(E, q + 1, n)
  <2>1. t.number = d /\ injected = a \o b
    <3>1. \A w \in tasks :
            /\ w.number = Dispatched
            /\ injected = MeantBy(events, Dispatched - 1)
                            \o SubSeq(EffectOf(events, Dispatched), 1, Done(w))
      BY <1>4, Zenon DEF Serial
    <3> QED BY <1>4, <3>1, Zenon
  <2>2. /\ d \in 1 .. Len(events) /\ d - 1 \in Nat /\ (d - 1) + 1 = d
        /\ events[d] \in Event /\ t.input = Callback(events[d])
    <3>1. /\ t.number \in Nat \ {0} /\ t.number <= Len(events)
          /\ events[t.number] \in Event /\ t.input = Callback(events[t.number])
      BY TaskFacts
    <3>2. t.number = d
      BY <2>1, Zenon
    <3> HIDE DEF d
    <3> QED BY ONLY <1>1, <3>1, <3>2
  <2>3. q \in Nat /\ q <= n /\ n \in 0 .. 2
    BY <2>1, <2>2, DoneBound
  <2>4. E \in Seq(Injected) /\ Len(E) = n
    BY <1>1, <2>2, EffectType
  <2>5. a \in Seq(Injected) /\ M(d) = a \o E
    <3>1. ASSUME NEW j \in Nat, j + 1 = d
          PROVE  MeantBy(events, j) \in Seq(Injected)
                 /\ MeantBy(events, d) = MeantBy(events, j) \o EffectOf(events, d)
      BY <1>1, <3>1, MeantGrows
    <3> HIDE DEF d
    <3> QED BY <2>2, <3>1, Zenon
  <2> HIDE DEF E, q, n, a, d
  <2>6. b \o c = E
    <3>1. SubSeq(E, 1, q) \o SubSeq(E, q + 1, n) = SubSeq(E, 1, n)
      <4>1. 1 \in 1 .. (Len(E) + 1) /\ q \in (1 - 1) .. Len(E) /\ n \in q .. Len(E)
        BY <2>3, <2>4
      <4> QED BY <2>4, <4>1, ConcatAdjacentSubSeq
    <3>2. SubSeq(E, 1, n) = E
      BY <2>4, SubSeqFull
    <3> QED BY <3>1, <3>2
  <2>7. b \in Seq(Injected) /\ c \in Seq(Injected)
    <3>1. /\ \A i \in 1 .. q : E[i] \in Injected
          /\ \A i \in (q + 1) .. n : E[i] \in Injected
      <4>1. \A i \in 1 .. Len(E) : E[i] \in Injected
        BY <2>4, ElementOfSeq
      <4> QED BY <2>3, <2>4, <4>1
    <3> QED BY <2>3, <3>1, SubSeqProperties
  <2> HIDE DEF b, c
  <2>8. a \o (b \o c) = (a \o b) \o c
    BY ONLY <2>5, <2>7, ConcatAssociative, SMTT(60)
  <2>9. Meant = ((a \o b) \o c) \o r
    BY <1>2, <2>5, <2>6, <2>8, Zenon
  <2>10. a \o b \in Seq(Injected)
    BY <1>1, <2>1
  <2> DEFINE f == a \o b
  <2>11. f \in Seq(Injected)
    BY <2>10
  <2> HIDE DEF f
  <2>12. (f \o c) \o r = f \o (c \o r)
    BY ONLY <2>7, <2>11, r \in Seq(Injected), ConcatAssociative, SMTT(60)
  <2>13. c \o r \in Seq(Injected)
    BY ONLY <2>7, r \in Seq(Injected), ConcatProperties
  <2>14. IsPrefix(f, f \o (c \o r))
    BY <2>11, <2>13, JoinedPrefix
  <2> QED BY <2>1, <2>9, <2>12, <2>14, Zenon DEF f
<1> QED BY <1>3, <1>4

\* While no two tasks overlap and no INPUT was dirty, handle_input does what the viewer
\* did, in that order and at the place the viewer pointed to, and in the end all of it.
THEOREM ViewerObeyed == Spec => []ViewerIsObeyed
<1>1. Spec => []Serial
  BY InitSerial, NextSerial, BaseInvariance, PTL DEF Spec
<1>2. Base /\ Serial => ViewerIsObeyed
  <2> SUFFICES ASSUME Base, Serial, ~overlapped, ~soiled
               PROVE  /\ IsPrefix(injected, Meant)
                      /\ AllHandled => injected = Meant /\ cursor = CursorAfter(Len(events))
    BY DEF ViewerIsObeyed
  <2>1. ASSUME AllHandled PROVE injected = Meant /\ cursor = CursorAfter(Len(events))
    <3>1. tasks = {} /\ Dispatched = Len(events) /\ events \in Seq(Event)
      BY <2>1, Lengths DEF AllHandled, Dispatched
    <3>2. injected = MeantBy(events, Dispatched) /\ cursor = CursorOf(events, Dispatched)
      BY <3>1, Zenon DEF Serial
    <3> QED BY <3>1, <3>2, MeantIs
  <2> QED BY <2>1, ObeyedSoFar
<1> QED BY <1>1, <1>2, BaseInvariance, PTL

--------------------------------------------------------------------------------
(* However the tasks overlap *)

\* The inputs the first n events of s should have, p[2] counting those of event p[1].
Pairs(s, n) == {p \in (1 .. n) \X (1 .. 2) : p[2] <= Times(s[p[1]])}

\* Those that have been made: a task that is not done has made Done(t) of its own.
Made == {p \in Pairs(events, Dispatched) : \A t \in tasks : t.number = p[1] => p[2] <= Done(t)}

\* L tells for each input of r which of P it is.
Books(s, L, r, P) ==
    /\ L \in [1 .. Len(r) -> P]
    /\ \A i, j \in 1 .. Len(r) : L[i] = L[j] => i = j
    /\ \A p \in P : \E i \in 1 .. Len(r) : L[i] = p
    /\ \A i \in 1 .. Len(r) :
          /\ r[i].kind = As(s[L[i][1]])[1]
          /\ r[i].code = As(s[L[i][1]])[2]

\* Each input injected is one of those made, and each of those made is injected once.
Ledger == \E L : Books(events, L, injected, Made)

\* Nothing is entered in empty books.
LEMMA BooksEmpty ==
    ASSUME NEW s
    PROVE  \E L : Books(s, L, <<>>, {})
<1> DEFINE L == [i \in 1 .. 0 |-> 0]
<1>1. Len(<<>>) = 0 /\ L \in [1 .. 0 -> {}]
  OBVIOUS
<1>2. Books(s, L, <<>>, {})
  <2> HIDE DEF L
  <2> QED BY <1>1 DEF Books
<1> QED BY <1>2

\* An input more is entered behind the others.
LEMMA BooksAppend ==
    ASSUME NEW s, NEW L, NEW P, NEW r \in Seq(Injected), Books(s, L, r, P),
           NEW p, p \notin P, NEW x \in Injected,
           x.kind = As(s[p[1]])[1], x.code = As(s[p[1]])[2]
    PROVE  \E K : Books(s, K, Append(r, x), P \cup {p})
<1> DEFINE n == Len(r)
           K == [i \in 1 .. (n + 1) |-> IF i = n + 1 THEN p ELSE L[i]]
           a == Append(r, x)
<1>1. /\ n \in Nat /\ Len(a) = n + 1 /\ a[n + 1] = x
      /\ \A i \in 1 .. n : a[i] = r[i]
  BY LenProperties, AppendProperties
<1> HIDE DEF a, n
<1>2. \A i \in 1 .. (n + 1) : i \in 1 .. n \/ i = n + 1
  BY <1>1
<1>3. n + 1 \in 1 .. (n + 1) /\ n + 1 \notin 1 .. n /\ \A i \in 1 .. n : i \in 1 .. (n + 1)
  BY <1>1
<1>4. K[n + 1] = p /\ \A i \in 1 .. n : K[i] = L[i]
  BY <1>3
<1>5. /\ L \in [1 .. n -> P]
      /\ \A i, j \in 1 .. n : L[i] = L[j] => i = j
      /\ \A y \in P : \E i \in 1 .. n : L[i] = y
      /\ \A i \in 1 .. n : r[i].kind = As(s[L[i][1]])[1] /\ r[i].code = As(s[L[i][1]])[2]
  BY Zenon DEF Books, n
<1>6. K \in [1 .. (n + 1) -> P \cup {p}]
  <2>1. \A i \in 1 .. (n + 1) : K[i] \in P \cup {p}
    BY <1>2, <1>4, <1>5
  <2> QED BY <2>1
<1> HIDE DEF K
<1>7. \A i, j \in 1 .. (n + 1) : K[i] = K[j] => i = j
  BY <1>2, <1>4, <1>5
<1>8. \A y \in P \cup {p} : \E i \in 1 .. (n + 1) : K[i] = y
  BY <1>3, <1>4, <1>5
<1>9. \A i \in 1 .. (n + 1) : a[i].kind = As(s[K[i][1]])[1] /\ a[i].code = As(s[K[i][1]])[2]
  <2>1. a[n + 1].kind = As(s[K[n + 1][1]])[1] /\ a[n + 1].code = As(s[K[n + 1][1]])[2]
    BY <1>1, <1>4, Zenon
  <2>2. ASSUME NEW i \in 1 .. n
        PROVE  a[i].kind = As(s[K[i][1]])[1] /\ a[i].code = As(s[K[i][1]])[2]
    <3>1. K[i] = L[i] /\ a[i] = r[i]
      BY <1>1, <1>4
    <3> QED BY <1>5, <3>1, Zenon
  <2> QED BY <1>2, <2>1, <2>2, Zenon
<1>10. Books(s, K, a, P \cup {p})
  BY <1>1, <1>6, <1>7, <1>8, <1>9, Zenon DEF Books
<1> QED BY <1>10, Zenon DEF a

\* They stay right while the events entered stay.
LEMMA BooksStay ==
    ASSUME NEW s, NEW e, NEW L, NEW r, NEW P, Books(s, L, r, P), \A p \in P : e[p[1]] = s[p[1]]
    PROVE  Books(e, L, r, P)
<1>1. \A i \in 1 .. Len(r) : L[i] \in P
  BY DEF Books
<1>2. \A i \in 1 .. Len(r) : e[L[i][1]] = s[L[i][1]]
  BY <1>1, Zenon
<1> QED BY <1>2, Zenon DEF Books

\* A finite set is as large as one it can be matched with.
LEMMA SameSize ==
    ASSUME NEW A, NEW B, NEW f, IsFiniteSet(A),
           \A a \in A : f[a] \in B,
           \A a, b \in A : f[a] = f[b] => a = b,
           \A b \in B : \E a \in A : f[a] = b
    PROVE  Cardinality(A) = Cardinality(B)
<1> DEFINE g == [a \in A |-> f[a]]
<1>1. g \in [A -> B] /\ \A a \in A : g[a] = f[a]
  OBVIOUS
<1> HIDE DEF g
<1>2. g \in Bijection(A, B)
  BY <1>1 DEF Bijection, Injection, Surjection, IsInjective
<1>3. ExistsBijection(A, B)
  BY <1>2 DEF ExistsBijection
<1> QED BY <1>3, FS_Bijection

\* Of the inputs entered each is there as often as it is in the books.
LEMMA BooksCount ==
    ASSUME NEW s, NEW L, NEW r \in Seq(Injected), NEW P, Books(s, L, r, P)
    PROVE  /\ Len(r) = Cardinality(P)
           /\ \A kind, code :
                 Count(r, kind, code) =
                     Cardinality({p \in P : As(s[p[1]])[1] = kind /\ As(s[p[1]])[2] = code})
<1> DEFINE n == Len(r)
<1>1. n \in Nat /\ DOMAIN r = 1 .. n
  BY LenProperties
<1>2. /\ \A i \in 1 .. n : L[i] \in P
      /\ \A i, j \in 1 .. n : L[i] = L[j] => i = j
      /\ \A p \in P : \E i \in 1 .. n : L[i] = p
      /\ \A i \in 1 .. n : r[i].kind = As(s[L[i][1]])[1] /\ r[i].code = As(s[L[i][1]])[2]
  BY DEF Books
<1> HIDE DEF n
<1>3. IsFiniteSet(1 .. n) /\ Cardinality(1 .. n) = n
  BY <1>1, FS_Interval
<1>4. n = Cardinality(P)
  <2>1. Cardinality(1 .. n) = Cardinality(P)
    <3> DEFINE A == 1 .. n
    <3>1. /\ IsFiniteSet(A)
          /\ \A i \in A : L[i] \in P
          /\ \A i, j \in A : L[i] = L[j] => i = j
          /\ \A p \in P : \E i \in A : L[i] = p
      BY <1>2, <1>3
    <3> HIDE DEF A
    <3>2. Cardinality(A) = Cardinality(P)
      BY ONLY <3>1, SameSize
    <3> QED BY <3>2 DEF A
  <2> QED BY <1>3, <2>1
<1>5. ASSUME NEW kind, NEW code
      PROVE  Count(r, kind, code) =
                 Cardinality({p \in P : As(s[p[1]])[1] = kind /\ As(s[p[1]])[2] = code})
  <2> DEFINE A == {i \in 1 .. n : r[i].kind = kind /\ r[i].code = code}
             B == {p \in P : As(s[p[1]])[1] = kind /\ As(s[p[1]])[2] = code}
  <2>1. IsFiniteSet(A)
    <3>1. A \in SUBSET (1 .. n)
      OBVIOUS
    <3> HIDE DEF A
    <3> QED BY <1>3, <3>1, FS_Subset
  <2>2. /\ \A i \in A : L[i] \in B
        /\ \A i, j \in A : L[i] = L[j] => i = j
        /\ \A p \in B : \E i \in A : L[i] = p
    <3>1. /\ \A i : i \in A <=> i \in 1 .. n /\ r[i].kind = kind /\ r[i].code = code
          /\ \A p : p \in B <=> p \in P /\ As(s[p[1]])[1] = kind /\ As(s[p[1]])[2] = code
      BY Zenon
    <3> HIDE DEF A, B
    <3>2. \A i \in A : L[i] \in B
      BY <1>2, <3>1, Zenon
    <3>3. \A i, j \in A : L[i] = L[j] => i = j
      BY <1>2, <3>1, Zenon
    <3>4. ASSUME NEW p \in B PROVE \E i \in A : L[i] = p
      <4>1. PICK i \in 1 .. n : L[i] = p
        BY <1>2, <3>1, Zenon
      <4>2. r[i].kind = As(s[p[1]])[1] /\ r[i].code = As(s[p[1]])[2]
        BY <1>2, <4>1, Zenon
      <4> QED BY <3>1, <4>1, <4>2, Zenon
    <3> QED BY <3>2, <3>3, <3>4
  <2> HIDE DEF A, B
  <2>3. Cardinality(A) = Cardinality(B)
    BY <2>1, <2>2, SameSize
  <2> QED BY <1>1, <2>3, Zenon DEF Count, A, B
<1> QED BY <1>4, <1>5 DEF n

\* The books of what events should do have an entry for each of the inputs.
LEMMA MeantBooks ==
    ASSUME NEW s \in Seq(Event), NEW n \in 0 .. Len(s)
    PROVE  \E L : Books(s, L, MeantBy(s, n), Pairs(s, n))
<1> DEFINE S == {m \in Nat : m <= Len(s) => \E L : Books(s, L, MeantBy(s, m), Pairs(s, m))}
<1>1. Len(s) \in Nat
  BY LenProperties
<1>2. 0 \in S
  <2>1. Pairs(s, 0) = {}
    BY DEF Pairs
  <2>2. MeantBy(s, 0) = <<>>
    BY MeantType
  <2>3. \E L : Books(s, L, <<>>, {})
    BY BooksEmpty
  <2> QED BY <2>1, <2>2, <2>3
<1>3. ASSUME NEW m \in S PROVE m + 1 \in S
  <2>1. m \in Nat /\ m + 1 \in Nat
    BY <1>3
  <2>2. SUFFICES ASSUME m + 1 <= Len(s)
                 PROVE  \E L : Books(s, L, MeantBy(s, m + 1), Pairs(s, m + 1))
    BY <2>1, Zenon
  <2> DEFINE d == m + 1
             t == Times(s[d])
             a == MeantBy(s, m)
             E == EffectOf(s, d)
             x == [kind |-> As(s[d])[1], code |-> As(s[d])[2], at |-> CursorOf(s, d)]
             P(q) == Pairs(s, m) \cup ({d} \X (1 .. q))
             Q(q) == \E L : Books(s, L, a \o SubSeq(E, 1, q), P(q))
  <2>3. m <= Len(s) /\ d \in 1 .. Len(s) /\ d \in Nat
    BY <1>1, <2>1, <2>2
  <2>4. \E L : Books(s, L, a, Pairs(s, m))
    BY <1>3, <2>3
  <2>5. /\ E \in Seq(Injected) /\ Len(E) = t /\ t \in 0 .. 2
        /\ \A k \in 1 .. t : E[k] = x
    BY <2>3, EffectType
  <2>6. a \in Seq(Injected) /\ MeantBy(s, d) = a \o E
    BY <2>1, <2>2, MeantGrows
  <2>7. \A p \in Pairs(s, m) : p[1] # d
    BY <2>1 DEF Pairs
  <2>8. Q(0)
    <3>1. SubSeq(E, 1, 0) = <<>>
      BY SubSeqEmpty
    <3>2. a \o <<>> = a
      BY <2>6, ConcatEmptySeq
    <3>3. P(0) = Pairs(s, m)
      BY <2>3
    <3> HIDE DEF a, E
    <3> QED BY <2>4, <3>1, <3>2, <3>3, Zenon
  <2>9. ASSUME NEW q \in {0, 1}, q + 1 <= t, Q(q) PROVE Q(q + 1)
    <3>1. PICK L : Books(s, L, a \o SubSeq(E, 1, q), P(q))
      BY <2>9
    <3> DEFINE p == <<d, q + 1>>
               b == a \o SubSeq(E, 1, q)
    <3>2. a \o SubSeq(E, 1, q + 1) = Append(b, x)
      BY <2>3, <2>6, <2>9, EffectGrows
    <3>3. x \in Injected /\ x.kind = As(s[d])[1] /\ x.code = As(s[d])[2]
      <4>1. E[q + 1] = x /\ E[q + 1] \in Injected
        <5>1. q + 1 \in 1 .. t
          BY <2>5, <2>9
        <5> QED BY <2>5, <5>1, ElementOfSeq
      <4>2. x.kind = As(s[d])[1] /\ x.code = As(s[d])[2]
        OBVIOUS
      <4> HIDE DEF x
      <4> QED BY <4>1, <4>2
    <3>4. b \in Seq(Injected)
      <4>1. \A i \in 1 .. q : E[i] \in Injected
        <5>1. \A i \in 1 .. q : i \in 1 .. Len(E)
          BY <2>5, <2>9
        <5> QED BY <2>5, <5>1, ElementOfSeq
      <4>2. SubSeq(E, 1, q) \in Seq(Injected)
        BY <4>1, SubSeqProperties
      <4> HIDE DEF a, E
      <4> QED BY <2>6, <4>2, ConcatProperties
    <3>5. p \notin P(q) /\ p[1] = d
      <4>1. p \notin Pairs(s, m)
        BY <2>7
      <4>2. p \notin {d} \X (1 .. q)
        BY <2>9
      <4> QED BY <4>1, <4>2
    <3>6. P(q + 1) = P(q) \cup {p}
      <4>1. 1 .. (q + 1) = (1 .. q) \cup {q + 1}
        BY <2>9
      <4>2. {d} \X (1 .. (q + 1)) = ({d} \X (1 .. q)) \cup {<<d, q + 1>>}
        BY <4>1
      <4> QED BY <4>2
    <3> DEFINE F == P(q)
    <3>7. Books(s, L, b, F) /\ p \notin F
      BY <3>1, <3>5
    <3> HIDE DEF x, b, p, F
    <3>8. \E K : Books(s, K, Append(b, x), F \cup {p})
      BY <3>3, <3>4, <3>5, <3>7, BooksAppend
    <3> HIDE DEF a, E
    <3> QED BY <3>2, <3>6, <3>8, Zenon DEF F
  <2>10. Q(t)
    <3> HIDE DEF Q, t
    <3>1. CASE t = 0
      BY <2>8, <3>1
    <3>2. CASE t = 1
      <4>1. Q(0 + 1)
        BY <2>8, <2>9, <3>2
      <4> QED BY <3>2, <4>1
    <3>3. CASE t = 2
      <4>1. Q(0 + 1)
        BY <2>8, <2>9, <3>3
      <4>2. Q(1 + 1)
        <5>1. Q(1) /\ 1 + 1 <= t
          BY <3>3, <4>1
        <5> QED BY <2>9, <5>1
      <4> QED BY <3>3, <4>2
    <3> QED BY <2>5, <3>1, <3>2, <3>3
  <2>11. SubSeq(E, 1, t) = E
    BY <2>5, SubSeqFull
  <2>12. P(t) = Pairs(s, d)
    <3>1. ASSUME NEW p PROVE p \in P(t) <=> p \in Pairs(s, d)
      <4>1. p \in Pairs(s, d) <=>
              p \in (1 .. d) \X (1 .. 2) /\ p[2] <= Times(s[p[1]])
        BY DEF Pairs
      <4>2. p \in Pairs(s, m) <=>
              p \in (1 .. m) \X (1 .. 2) /\ p[2] <= Times(s[p[1]])
        BY DEF Pairs
      <4>3. CASE p \in Pairs(s, m)
        <5>1. p \in (1 .. d) \X (1 .. 2)
          BY <2>1, <4>2, <4>3
        <5> QED BY <4>1, <4>2, <4>3, <5>1
      <4>4. CASE p \notin Pairs(s, m)
        <5>1. ASSUME p \in {d} \X (1 .. t) PROVE p \in Pairs(s, d)
          <6>1. p[1] = d /\ p[2] \in 1 .. t /\ p = <<p[1], p[2]>>
            BY <5>1
          <6> HIDE DEF d
          <6>2. p[2] \in 1 .. 2 /\ p[2] <= t /\ d \in 1 .. d
            BY <2>3, <2>5, <6>1
          <6> QED BY <4>1, <6>1, <6>2
        <5>2. ASSUME p \in Pairs(s, d) PROVE p \in {d} \X (1 .. t)
          <6>1. p \in (1 .. d) \X (1 .. 2) /\ p[2] <= Times(s[p[1]])
            BY <4>1, <5>2
          <6>2. p[1] = d
            BY <2>1, <4>2, <4>4, <6>1
          <6>3. p[2] \in 1 .. t
            BY <2>5, <6>1, <6>2
          <6> HIDE DEF d, t
          <6> QED BY <6>1, <6>2, <6>3
        <5> QED BY <4>4, <5>1, <5>2
      <4> QED BY <4>3, <4>4
    <3> QED BY <3>1
  <2> HIDE DEF P, a, E, t
  <2> QED BY <2>6, <2>10, <2>11, <2>12
<1>4. S = Nat
  BY <1>2, <1>3, SetInduction
<1> QED BY <1>1, <1>4

\* Nothing has been done.
LEMMA InitLedger == Init => Ledger
<1> SUFFICES ASSUME Init PROVE Ledger
  OBVIOUS
<1>1. injected = <<>> /\ Dispatched = 0
  BY DEF Init, Dispatched
<1>2. Made = {}
  BY <1>1 DEF Made, Pairs
<1>3. \E L : Books(events, L, <<>>, {})
  BY BooksEmpty
<1> QED BY <1>1, <1>2, <1>3 DEF Ledger

\* The ledger reads nothing else.
LEMMA StutterLedger ==
    ASSUME Ledger, UNCHANGED <<events, wire, tasks, injected>>
    PROVE  Ledger'
<1>1. Dispatched' = Dispatched /\ Pairs(events', Dispatched') = Pairs(events, Dispatched)
  BY DEF Dispatched
<1>2. \A t : Done(t)' = Done(t)
  BY Zenon DEF Done
<1>3. Made' = Made
  BY <1>1, <1>2, Zenon DEF Made
<1> QED BY <1>3, Zenon DEF Ledger

\* What is in the set of the inputs made.
LEMMA MadeIs ==
    ASSUME Base, NEW p
    PROVE  p \in Made <=>
             /\ p \in (1 .. Dispatched) \X (1 .. 2) /\ p[2] <= Times(events[p[1]])
             /\ \A t \in tasks : t.number = p[1] => p[2] <= Done(t)
BY DEF Made, Pairs

\* New events have no task.
LEMMA RenderLedger ==
    ASSUME Base, Ledger,
           NEW n \in 0 .. MaxEvents, NEW evs \in [1 .. n -> Event], render_frame(evs)
    PROVE  Ledger'
<1> DEFINE d == Dispatched
<1>1. Dispatched' = d /\ \A i \in 1 .. Len(events) : events'[i] = events[i]
  BY RenderLink
<1>2. UNCHANGED <<tasks, injected>>
  BY DEF render_frame, hostVars
<1>3. Len(events) \in Nat /\ d \in Nat /\ d <= Len(events)
  BY Lengths
<1>4. \A i \in 1 .. d : events'[i] = events[i]
  <2>1. \A i \in 1 .. d : i \in 1 .. Len(events)
    BY <1>3
  <2> QED BY <1>1, <2>1
<1> HIDE DEF d
<1>5. Pairs(events', d) = Pairs(events, d)
  <2>1. \A p \in (1 .. d) \X (1 .. 2) : p[1] \in 1 .. d
    OBVIOUS
  <2>2. \A p \in (1 .. d) \X (1 .. 2) : events'[p[1]] = events[p[1]]
    BY <1>4, <2>1, Zenon
  <2>3. \A p \in (1 .. d) \X (1 .. 2) :
          p[2] <= Times(events'[p[1]]) <=> p[2] <= Times(events[p[1]])
    BY <2>2, Zenon
  <2> QED BY <2>3, Zenon DEF Pairs
<1>6. ASSUME NEW t \in tasks PROVE Done(t)' = Done(t)
  <2>1. t.number \in 1 .. Len(events)
    BY <1>3, TaskFacts
  <2>2. events'[t.number] = events[t.number]
    BY <1>1, <2>1
  <2> QED BY <2>2, Zenon DEF Done
<1>7. Made' = Made
  <2>1. Made = {p \in Pairs(events, d) : \A t \in tasks : t.number = p[1] => p[2] <= Done(t)}
    BY Zenon DEF Made, d
  <2>2. Made' = {p \in Pairs(events, d) : \A t \in tasks : t.number = p[1] => p[2] <= Done(t)'}
    BY <1>1, <1>2, <1>5, Zenon DEF Made
  <2>3. \A p : (\A t \in tasks : t.number = p[1] => p[2] <= Done(t)')
                <=> (\A t \in tasks : t.number = p[1] => p[2] <= Done(t))
    BY <1>6, Zenon
  <2> QED BY <2>1, <2>2, <2>3, Zenon
<1>8. PICK L : Books(events, L, injected, Made)
  BY DEF Ledger
<1>9. \A p \in Made : events'[p[1]] = events[p[1]]
  <2>1. \A p \in Made : p[1] \in 1 .. d
    BY DEF Made, Pairs, d
  <2> QED BY <1>4, <2>1, Zenon
<1>10. Books(events', L, injected, Made)
  BY <1>8, <1>9, BooksStay
<1> QED BY <1>2, <1>7, <1>10, Zenon DEF Ledger

\* A new task has made nothing yet.
LEMMA DispatchLedger ==
    ASSUME Base, Ledger, Dispatch
    PROVE  Ledger'
<1> DEFINE d == Dispatched
<1>1. Dispatched' = d + 1 /\ d + 1 <= Len(events)
  BY DispatchFacts
<1>2. PICK u : /\ tasks' = tasks \cup {u}
               /\ u.number = d + 1 /\ u.at = "cursor"
  <2> DEFINE u == [number |-> d + 1, input |-> Head(wire), at |-> "cursor"]
  <2>1. tasks' = tasks \cup {u} /\ u.number = d + 1 /\ u.at = "cursor"
    BY DEF Dispatch
  <2> HIDE DEF u
  <2> QED BY <2>1
<1>3. UNCHANGED <<events, injected>> /\ d \in Nat
  BY Lengths DEF Dispatch, viewerVars
<1>4. \A t : Done(t)' = Done(t)
  BY <1>3, Zenon DEF Done
<1>5. Done(u) = 0
  <2>1. u.at \in {"cursor", "mouse"} /\ u.at # "mouse_again"
    BY <1>2
  <2> QED BY <2>1 DEF Done
<1>6. \A t \in tasks : t.number \in Nat /\ t.number <= d
  BY TaskFacts
<1>7. ASSUME NEW p PROVE p \in Made' <=> p \in Made
  <2>1. p \in Made <=>
           /\ p \in (1 .. d) \X (1 .. 2) /\ p[2] <= Times(events[p[1]])
           /\ \A t \in tasks : t.number = p[1] => p[2] <= Done(t)
    BY MadeIs
  <2>2. p \in Made' <=>
           /\ p \in (1 .. (d + 1)) \X (1 .. 2) /\ p[2] <= Times(events[p[1]])
           /\ \A t \in tasks' : t.number = p[1] => p[2] <= Done(t)
    <3>1. Made' = {x \in (1 .. (d + 1)) \X (1 .. 2) :
                      /\ x[2] <= Times(events[x[1]])
                      /\ \A t \in tasks' : t.number = x[1] => x[2] <= Done(t)}
      <4>1. Pairs(events, d + 1)
              = {x \in (1 .. (d + 1)) \X (1 .. 2) : x[2] <= Times(events[x[1]])}
        BY DEF Pairs
      <4>2. Made' = {x \in Pairs(events, d + 1) :
                        \A t \in tasks' : t.number = x[1] => x[2] <= Done(t)}
        BY <1>1, <1>3, <1>4, Zenon DEF Made
      <4> HIDE DEF d
      <4> QED BY <4>1, <4>2, Zenon
    <3> HIDE DEF d
    <3> QED BY <3>1, Zenon
  <2> HIDE DEF d
  <2>3. CASE p \in (1 .. d) \X (1 .. 2)
    <3>1. p[1] # d + 1 /\ p \in (1 .. (d + 1)) \X (1 .. 2)
      BY <1>3, <2>3
    <3>2. (\A t \in tasks' : t.number = p[1] => p[2] <= Done(t))
            <=> (\A t \in tasks : t.number = p[1] => p[2] <= Done(t))
      BY <1>2, <3>1, Zenon
    <3> QED BY <2>1, <2>2, <2>3, <3>1, <3>2, Zenon
  <2>4. CASE p \notin (1 .. d) \X (1 .. 2)
    <3>1. SUFFICES ASSUME p \in Made' PROVE FALSE
      BY <2>1, <2>4, Zenon
    <3>2. p \in (1 .. (d + 1)) \X (1 .. 2) /\ (u.number = p[1] => p[2] <= Done(u))
      BY <1>2, <2>2, <3>1
    <3>3. p[1] = d + 1 /\ p[2] \in 1 .. 2
      BY <1>3, <2>4, <3>2
    <3> QED BY <1>2, <1>5, <3>2, <3>3
  <2> QED BY <2>3, <2>4
<1>8. Made' = Made
  BY <1>7, Zenon
<1> QED BY <1>3, <1>8, Zenon DEF Ledger

\* A task enters each input it makes.
LEMMA HandleMade ==
    ASSUME Base, NEW t \in tasks, handle_input(t), NEW k \in {0, 1}, Stays(t, k) \/ Ends(t, k)
    PROVE  /\ k = 0 => Made' = Made
           /\ k = 1 => /\ Made' = Made \cup {<<t.number, Done(t) + 1>>}
                       /\ <<t.number, Done(t) + 1>> \notin Made
<1> DEFINE d == Dispatched
           q == Done(t)
           z == t.number
           n == Times(events[z])
<1>1. UNCHANGED <<events, wire>> /\ Dispatched' = d
  BY CursorStep DEF Dispatched
<1>2. /\ t \in [number : Nat \ {0}, input : Message, at : Place]
      /\ z <= d /\ d \in Nat /\ events[z] \in Event /\ t.input = Callback(events[z])
  BY TaskFacts
<1>3. q \in Nat /\ q <= n /\ n \in 0 .. 2
  BY <1>2, DoneBound
<1>4. \A w : Done(w)' = Done(w)
  BY <1>1, Zenon DEF Done
<1>5. \A w \in tasks : w.number = z => w = t
  BY DEF Base, Typed, TypeOK
<1>6. /\ \A w : w \in tasks /\ w.number # z <=> w \in tasks' /\ w.number # z
      /\ \A y \in 1 .. 2 : y <= n =>
            ((\A w \in tasks' : w.number = z => y <= Done(w)) <=> y <= q + k)
      /\ q + k <= n
  <2>1. CASE Ends(t, k)
    <3>1. tasks' = tasks \ {t} /\ n = q + k
      BY <2>1 DEF Ends
    <3>2. \A w \in tasks' : w.number # z
      BY <1>5, <3>1
    <3>3. \A y \in 1 .. 2 : y <= n => y <= q + k
      BY <3>1
    <3>4. q + k <= n
      BY <1>3, <3>1
    <3> HIDE DEF n, q, z
    <3> QED BY <3>1, <3>2, <3>3, <3>4 DEF z
  <2>2. CASE Stays(t, k)
    <3>1. PICK u : /\ tasks' = (tasks \ {t}) \cup {u}
                   /\ u.number = z /\ u.input = t.input /\ Done(u) = q + k
      <4>1. PICK place \in {"mouse", "mouse_again", "key"} :
                /\ tasks' = (tasks \ {t}) \cup {[t EXCEPT !.at = place]}
                /\ Done([t EXCEPT !.at = place]) = q + k
        BY <2>2, Zenon DEF Stays
      <4> DEFINE u == [t EXCEPT !.at = place]
      <4>2. u.number = t.number /\ u.input = t.input
        BY <1>2
      <4>3. tasks' = (tasks \ {t}) \cup {u} /\ Done(u) = q + k
        BY <4>1
      <4> HIDE DEF u, q
      <4> QED BY <4>2, <4>3
    <3>2. q + k <= n
      <4>1. Done(u) <= Times(events[u.number])
        BY <1>2, <3>1, DoneBound
      <4> QED BY <3>1, <4>1
    <3>3. \A w : w \in tasks /\ w.number # z <=> w \in tasks' /\ w.number # z
      BY <3>1
    <3>4. \A w \in tasks' : w.number = z => w = u
      BY <1>5, <3>1
    <3>5. \A y : (\A w \in tasks' : w.number = z => y <= Done(w)) <=> y <= q + k
      <4>1. u \in tasks' /\ u.number = z /\ Done(u) = q + k
        BY <3>1
      <4> HIDE DEF z, q
      <4> QED BY <3>4, <4>1, Zenon
    <3> HIDE DEF n, q, z
    <3> QED BY <3>2, <3>3, <3>5, Zenon
  <2> QED BY <2>1, <2>2
<1>7. ASSUME NEW p
      PROVE  /\ p \in Made <=>
                  /\ p \in (1 .. d) \X (1 .. 2) /\ p[2] <= Times(events[p[1]])
                  /\ \A w \in tasks : w.number = p[1] => p[2] <= Done(w)
             /\ p \in Made' <=>
                  /\ p \in (1 .. d) \X (1 .. 2) /\ p[2] <= Times(events[p[1]])
                  /\ \A w \in tasks' : w.number = p[1] => p[2] <= Done(w)
  <2>1. Made' = {x \in Pairs(events, d) : \A w \in tasks' : w.number = x[1] => x[2] <= Done(w)}
    BY <1>1, <1>4, Zenon DEF Made
  <2>2. Pairs(events, d) = {x \in (1 .. d) \X (1 .. 2) : x[2] <= Times(events[x[1]])}
    BY DEF Pairs
  <2>3. /\ p \in Made <=>
             /\ p \in (1 .. d) \X (1 .. 2) /\ p[2] <= Times(events[p[1]])
             /\ \A w \in tasks : w.number = p[1] => p[2] <= Done(w)
    BY MadeIs
  <2> HIDE DEF d
  <2> QED BY <2>1, <2>2, <2>3, Zenon
<1> HIDE DEF d, q, n
<1>8. ASSUME NEW p, p[1] # z PROVE p \in Made' <=> p \in Made
  <2>1. (\A w \in tasks' : w.number = p[1] => p[2] <= Done(w))
          <=> (\A w \in tasks : w.number = p[1] => p[2] <= Done(w))
    BY <1>6, <1>8, Zenon
  <2> QED BY <1>7, <2>1, Zenon
<1>9. ASSUME NEW p, p[1] = z
      PROVE  /\ p \in Made <=> p \in (1 .. d) \X (1 .. 2) /\ p[2] <= n /\ p[2] <= q
             /\ p \in Made' <=> p \in (1 .. d) \X (1 .. 2) /\ p[2] <= n /\ p[2] <= q + k
  <2>1. (\A w \in tasks : w.number = p[1] => p[2] <= Done(w)) <=> p[2] <= q
    BY <1>5, <1>9, Zenon DEF q
  <2>2. p \in (1 .. d) \X (1 .. 2) => p[2] \in 1 .. 2
    OBVIOUS
  <2>3. p \in (1 .. d) \X (1 .. 2) /\ p[2] <= n =>
          ((\A w \in tasks' : w.number = p[1] => p[2] <= Done(w)) <=> p[2] <= q + k)
    BY <1>6, <1>9, <2>2, Zenon
  <2>4. Times(events[p[1]]) = n
    BY <1>9 DEF n
  <2> QED BY <1>7, <2>1, <2>3, <2>4, Zenon
<1>10. ASSUME k = 0 PROVE Made' = Made
  <2>1. q + k = q
    BY <1>3, <1>10
  <2>2. \A p : p \in Made' <=> p \in Made
    BY <1>8, <1>9, <2>1, Zenon
  <2> QED BY <2>2, Zenon
<1>11. ASSUME k = 1
       PROVE  Made' = Made \cup {<<z, q + 1>>} /\ <<z, q + 1>> \notin Made
  <2> DEFINE x == <<z, q + 1>>
  <2>1. /\ x[1] = z /\ x[2] = q + 1
        /\ x \in (1 .. d) \X (1 .. 2) /\ x[2] <= n /\ ~(x[2] <= q) /\ x[2] <= q + k
    BY <1>2, <1>3, <1>6, <1>11
  <2>2. x \in Made' /\ x \notin Made
    <3> HIDE DEF x
    <3> QED BY <1>9, <2>1, Zenon
  <2>3. ASSUME NEW p \in Made, p[1] = z PROVE p \in Made'
    <3>1. p \in (1 .. d) \X (1 .. 2) /\ p[2] <= n /\ p[2] <= q
      BY <1>9, <2>3, Zenon
    <3>2. p[2] <= q + k
      BY <1>3, <3>1
    <3> QED BY <1>9, <2>3, <3>1, <3>2, Zenon
  <2>4. ASSUME NEW p \in Made', p[1] = z PROVE p \in Made \/ p = x
    <3>1. p \in (1 .. d) \X (1 .. 2) /\ p[2] <= n /\ p[2] <= q + k
      BY <1>9, <2>4, Zenon
    <3>2. p[2] <= q \/ p[2] = q + 1
      BY <1>3, <1>11, <3>1
    <3>3. p = <<p[1], p[2]>>
      BY <3>1
    <3> QED BY <1>9, <2>4, <3>1, <3>2, <3>3, Zenon
  <2> HIDE DEF x
  <2>5. \A p : p \in Made' <=> p \in Made \/ p = x
    BY <1>8, <2>2, <2>3, <2>4, Zenon
  <2> QED BY <2>2, <2>5, Zenon DEF x
<1> QED BY <1>10, <1>11, Zenon DEF q

\* And the books show it.
LEMMA HandleLedger ==
    ASSUME Base, Ledger, NEW t \in tasks, handle_input(t)
    PROVE  Ledger'
<1>1. events' = events
  BY CursorStep
<1>2. PICK k \in {0, 1} : Adds(t, k) /\ (Stays(t, k) \/ Ends(t, k))
  BY HandleInput
<1>3. PICK L : Books(events, L, injected, Made)
  BY DEF Ledger
<1>4. CASE k = 0
  <2>1. Made' = Made /\ injected' = injected
    BY <1>2, <1>4, HandleMade DEF Adds
  <2> QED BY <1>1, <1>3, <2>1, Zenon DEF Ledger
<1>5. CASE k = 1
  <2> DEFINE p == <<t.number, Done(t) + 1>>
             e == events[t.number]
             x == [kind |-> As(e)[1], code |-> As(e)[2], at |-> cursor]
  <2>1. Made' = Made \cup {p} /\ p \notin Made
    BY <1>2, <1>5, HandleMade
  <2>2. injected' = Append(injected, x)
    <3>1. Injects(t)
      BY <1>2, <1>5 DEF Adds
    <3> QED BY <3>1, Zenon DEF Injects
  <2>3. /\ p[1] = t.number /\ x.kind = As(events[p[1]])[1] /\ x.code = As(events[p[1]])[2]
    OBVIOUS
  <2>4. x \in Injected
    <3>1. e \in Event
      BY TaskFacts
    <3>2. As(e)[1] \in {"key", "button"} /\ As(e)[2] \in Int
      BY <3>1, EventTypes
    <3>3. cursor \in {Somewhere} \cup (0 .. Width) \X (0 .. Height)
      BY DEF Base, Typed, TypeOK
    <3> HIDE DEF e
    <3> QED BY <3>2, <3>3 DEF Injected
  <2>5. injected \in Seq(Injected)
    BY Lengths
  <2> HIDE DEF p, x
  <2>6. \E K : Books(events, K, Append(injected, x), Made \cup {p})
    BY <1>3, <2>1, <2>3, <2>4, <2>5, BooksAppend
  <2> QED BY <1>1, <2>1, <2>2, <2>6, Zenon DEF Ledger
<1> QED BY <1>4, <1>5

\* Every step keeps the books.
LEMMA NextLedger == Base /\ Ledger /\ [Next]_vars => Ledger'
<1> SUFFICES ASSUME Base, Ledger, [Next]_vars PROVE Ledger'
  OBVIOUS
<1>1. CASE UNCHANGED vars \/ create_window \/ UseNoWindow \/ close_window
  <2>1. UNCHANGED <<events, wire, tasks, injected>>
    BY <1>1 DEF vars, viewerVars, hostVars, create_window, UseNoWindow, close_window
  <2> QED BY <2>1, StutterLedger
<1>2. CASE \E n \in 0 .. MaxEvents : \E evs \in [1 .. n -> Event] : render_frame(evs)
  BY <1>2, RenderLedger
<1>3. CASE Dispatch
  BY <1>3, DispatchLedger
<1>4. CASE \E t \in tasks : handle_input(t)
  BY <1>4, HandleLedger
<1> QED BY <1>1, <1>2, <1>3, <1>4 DEF Next

\* However the tasks of handle_input overlap and whatever an INPUT held, when all is
\* handled each key and click has been injected exactly as often as the viewer meant.
THEOREM NoInputLost == Spec => []EachInputOnce
<1>1. Spec => []Ledger
  BY InitLedger, NextLedger, BaseInvariance, PTL DEF Spec
<1>2. Base /\ Ledger => EachInputOnce
  <2> SUFFICES ASSUME Base, Ledger, AllHandled
               PROVE  /\ Len(injected) = Len(Meant)
                      /\ \A kind, code : Count(injected, kind, code) = Count(Meant, kind, code)
    BY Zenon DEF EachInputOnce
  <2> DEFINE n == Len(events)
  <2>1. /\ events \in Seq(Event) /\ n \in Nat /\ n \in 0 .. n
        /\ injected \in Seq(Injected)
    BY Lengths
  <2>2. tasks = {} /\ Dispatched = n
    BY Lengths DEF AllHandled, Dispatched
  <2>3. Made = Pairs(events, n)
    BY <2>2, Zenon DEF Made
  <2>4. PICK L : Books(events, L, injected, Pairs(events, n))
    BY <2>3 DEF Ledger
  <2>5. PICK K : Books(events, K, MeantBy(events, n), Pairs(events, n))
    BY <2>1, MeantBooks
  <2>6. Meant = MeantBy(events, n) /\ Meant \in Seq(Injected)
    BY <2>1, MeantIs, MeantType
  <2>7. Books(events, K, Meant, Pairs(events, n))
    BY <2>5, <2>6
  <2> DEFINE P == Pairs(events, n)
             C(kind, code) ==
                 Cardinality({p \in P : As(events[p[1]])[1] = kind /\ As(events[p[1]])[2] = code})
  <2>8. ASSUME NEW r \in Seq(Injected), NEW M, Books(events, M, r, P)
        PROVE  Len(r) = Cardinality(P) /\ \A kind, code : Count(r, kind, code) = C(kind, code)
    <3> HIDE DEF P
    <3>1. Len(r) = Cardinality(P)
      BY ONLY <2>8, r \in Seq(Injected), BooksCount
    <3>2. ASSUME NEW kind, NEW code PROVE Count(r, kind, code) = C(kind, code)
      BY ONLY <2>8, r \in Seq(Injected), BooksCount
    <3> HIDE DEF C
    <3> QED BY <3>1, <3>2
  <2> HIDE DEF P, C
  <2>9. /\ Len(injected) = Cardinality(P)
        /\ \A kind, code : Count(injected, kind, code) = C(kind, code)
    BY <2>1, <2>4, <2>8, Zenon DEF P
  <2>10. Len(Meant) = Cardinality(P) /\ \A kind, code : Count(Meant, kind, code) = C(kind, code)
    BY <2>6, <2>7, <2>8, Zenon DEF P
  <2> QED BY <2>9, <2>10, Zenon
<1> QED BY <1>1, <1>2, BaseInvariance, PTL
================================================================================
