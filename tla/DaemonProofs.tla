----------------------------- MODULE DaemonProofs -----------------------------
(***************************************************************************)
(* Proofs about a daemon's connection, for every set of names in use and   *)
(* every number of commands and user lists.                                *)
(*                                                                         *)
(* The argument is one of conservation.  A greeting puts two tokens into   *)
(* circulation, a heartbeat and a handshake; each passes from the send     *)
(* buffer to the wire, to the distributor, back to the parser and to a     *)
(* task, which returns it.  A user list is no token: what matters is which *)
(* one is the last on its way.                                             *)
(***************************************************************************)
EXTENDS Daemon, SequenceTheorems, FiniteSetTheorems, TLAPS

\* The packets a daemon sends.
OutPkt ==
    {Pkt("HANDSHAKE", "good")} \cup {Pkt("NEW_USER", n) : n \in Nat}
        \cup {Pkt(t, 0) : t \in {"HEARTBEAT", "SESSION_REQUEST", "SESSION_CLOSE"}}

\* The packets it is sent.
InPkt ==
    {Pkt("HANDSHAKE", m) : m \in Magic} \cup {Pkt("USER_LIST", v) : v \in 1 .. MaxLists}
        \cup {Pkt(t, 0) : t \in {"HEARTBEAT", "NAME_TAKEN", "SUCCESS", "USER_NOT_FOUND"}}

\* What is on its way to the handlers, in order.
Arriving == retrieved \o inbox

Types ==
    /\ TypeOK
    /\ send_buffer \in Seq(OutPkt)
    /\ outbox \in Seq(OutPkt)
    /\ retrieved \in Seq(InPkt)
    /\ inbox \in Seq(InPkt)
    /\ IsFiniteSet(registered)
    /\ lists \in 0 .. MaxLists
    /\ greetings \in Nat
    /\ overlapped \in BOOLEAN

\* Where the main thread can be.
Places ==
    /\ main \in {"receive", "dispatch", "flush"} => connected
    /\ main = "constructing" => socket = "none" /\ greetings = 0

\* The heartbeats in circulation.
Heartbeats ==
    Count(send_buffer, "HEARTBEAT") + Count(outbox, "HEARTBEAT") + Count(Arriving, "HEARTBEAT")
        + tasks[Pkt("HEARTBEAT", 0)] + tasks[Pkt("ASLEEP", 0)]

Beating == socket \in {"none", "up"} => Heartbeats = greetings

\* The ways in which a greeting may yet become a name: as a handshake and its answer,
\* as a request for a name, and as a refusal of one.
Shaking ==
    Count(send_buffer, "HANDSHAKE") + Count(outbox, "HANDSHAKE") + Count(Arriving, "HANDSHAKE")
        + tasks[Pkt("HANDSHAKE", "good")] + tasks[Pkt("HANDSHAKE", "bad")]

Asking ==
    Count(send_buffer, "NEW_USER") + Count(outbox, "NEW_USER") + Count(Arriving, "NAME_TAKEN")
        + tasks[Pkt("NAME_TAKEN", 0)] + tasks[Pkt("RENAMED", 0)]

Prospects == Shaking + Asking

\* A greeting is counted when its second packet is queued; until then the first
\* one waits in the send buffer.
Naming ==
    /\ Prospects + Cardinality(registered) <= greetings + (IF main = "beat" THEN 1 ELSE 0)
    /\ main = "beat" => Count(send_buffer, "HANDSHAKE") > 0

Listing(v) == tasks[Pkt("USER_LIST", v)] > 0

\* The last user list in s is the v-th.
EndsInList(s, v) ==
    \E i \in DOMAIN s :
        /\ s[i] = Pkt("USER_LIST", v)
        /\ \A j \in DOMAIN s : j > i => s[j].type # "USER_LIST"

HasNoList(s) == \A i \in DOMAIN s : s[i].type # "USER_LIST"

\* Without an overlap at most one handler of a list is under way, and the latest list
\* is the last on its way, or in that handler, or shown.
Latest ==
    ~overlapped =>
        /\ \A v, w \in 1 .. MaxLists : Listing(v) /\ Listing(w) => v = w
        /\ \A v \in 1 .. MaxLists : tasks[Pkt("USER_LIST", v)] <= 1
        /\ socket \in {"none", "up"} =>
              \/ EndsInList(Arriving, lists)
              \/ HasNoList(Arriving) /\ lists \in 1 .. MaxLists /\ Listing(lists)
              \/ /\ HasNoList(Arriving)
                 /\ \A v \in 1 .. MaxLists : ~Listing(v)
                 /\ remote_users = lists

Inv == Types /\ Places /\ Beating /\ Naming /\ Latest

--------------------------------------------------------------------------------
(* Counting packets of a type *)

At(s, t) == {i \in DOMAIN s : s[i].type = t}

\* n is one more than m if a packet of type u has type t, and m otherwise.
Plus(n, m, u, t) == IF u = t THEN n = m + 1 ELSE n = m

\* The number of packets of a type is a number ...
LEMMA CountType ==
    ASSUME NEW T, NEW s \in Seq(T), NEW t
    PROVE  IsFiniteSet(At(s, t)) /\ Count(s, t) \in Nat /\ Count(s, t) = Cardinality(At(s, t))
<1>1. Len(s) \in Nat /\ DOMAIN s = 1 .. Len(s)
  BY LenProperties
<1>2. IsFiniteSet(1 .. Len(s))
  BY <1>1, FS_Interval
<1>3. At(s, t) \in SUBSET (1 .. Len(s))
  BY <1>1 DEF At
<1>4. IsFiniteSet(At(s, t))
  BY <1>2, <1>3, FS_Subset
<1> QED BY <1>4, FS_CardinalityType DEF Count, At

\* ... none in an empty list ...
LEMMA CountEmpty == \A t : Count(<<>>, t) = 0
<1> SUFFICES ASSUME NEW t PROVE Count(<<>>, t) = 0
  OBVIOUS
<1>1. At(<<>>, t) = {}
  BY DEF At
<1> QED BY <1>1, FS_EmptySet DEF Count, At

\* ... one more, or as many, when a packet is added ...
LEMMA CountAppend ==
    ASSUME NEW T, NEW s \in Seq(T), NEW x \in T, NEW t
    PROVE  Count(Append(s, x), t) = Count(s, t) + (IF x.type = t THEN 1 ELSE 0)
<1>1. /\ Len(s) \in Nat
      /\ DOMAIN s = 1 .. Len(s)
      /\ DOMAIN Append(s, x) = 1 .. (Len(s) + 1)
      /\ \A i \in 1 .. Len(s) : Append(s, x)[i] = s[i]
      /\ Append(s, x)[Len(s) + 1] = x
      /\ Append(s, x) \in Seq(T)
  BY LenProperties, AppendProperties
<1>2. /\ IsFiniteSet(At(s, t))
      /\ Count(s, t) \in Nat
      /\ Count(s, t) = Cardinality(At(s, t))
      /\ Count(Append(s, x), t) = Cardinality(At(Append(s, x), t))
  BY <1>1, CountType
<1>3. CASE x.type = t
  <2>1. At(Append(s, x), t) = At(s, t) \cup {Len(s) + 1}
    BY <1>1, <1>3 DEF At
  <2>2. Len(s) + 1 \notin At(s, t)
    BY <1>1 DEF At
  <2>3. Cardinality(At(s, t) \cup {Len(s) + 1}) = Cardinality(At(s, t)) + 1
    BY <1>2, <2>2, FS_AddElement
  <2> QED BY <1>2, <1>3, <2>1, <2>3
<1>4. CASE x.type # t
  <2>1. At(Append(s, x), t) = At(s, t)
    BY <1>1, <1>4 DEF At
  <2> QED BY <1>2, <1>4, <2>1
<1> QED BY <1>3, <1>4

\* ... one less, or as many, when the first is taken ...
LEMMA CountTail ==
    ASSUME NEW T, NEW s \in Seq(T), s # <<>>, NEW t
    PROVE  Count(s, t) = Count(Tail(s), t) + (IF Head(s).type = t THEN 1 ELSE 0)
<1> DEFINE tl == Tail(s)
           up == {i + 1 : i \in At(tl, t)}
           f == [i \in At(tl, t) |-> i + 1]
<1>1. /\ Len(s) \in Nat \ {0}
      /\ DOMAIN s = 1 .. Len(s)
      /\ tl \in Seq(T)
      /\ DOMAIN tl = 1 .. (Len(s) - 1)
      /\ \A i \in 1 .. (Len(s) - 1) : tl[i] = s[i + 1]
      /\ Head(s) = s[1]
  BY LenProperties, HeadTailProperties, EmptySeq
<1> HIDE DEF tl
<1>2. /\ IsFiniteSet(At(tl, t))
      /\ Count(tl, t) = Cardinality(At(tl, t))
      /\ Count(tl, t) \in Nat
      /\ Count(s, t) = Cardinality(At(s, t))
  BY <1>1, CountType
<1>3. IsFiniteSet(up) /\ Cardinality(up) = Cardinality(At(tl, t))
  <2>1. At(tl, t) \subseteq Nat
    BY <1>1 DEF At
  <2>2. f \in Injection(At(tl, t), up) /\ f \in Surjection(At(tl, t), up)
    BY <2>1 DEF Injection, Surjection, IsInjective
  <2>3. ExistsBijection(At(tl, t), up)
    BY <2>2 DEF ExistsBijection, Bijection
  <2> QED BY <1>2, <2>3, FS_Bijection
<1>4. CASE Head(s).type = t
  <2>1. At(s, t) = up \cup {1}
    <3>1. ASSUME NEW i \in At(s, t), i # 1 PROVE i \in up
      <4>1. i - 1 \in At(tl, t) /\ i = (i - 1) + 1
        BY <1>1, <3>1 DEF At
      <4> QED BY <4>1
    <3> QED BY <1>1, <1>4, <3>1 DEF At
  <2>2. 1 \notin up
    BY <1>1 DEF At
  <2>3. Cardinality(up \cup {1}) = Cardinality(up) + 1
    BY <1>3, <2>2, FS_AddElement
  <2> QED BY <1>2, <1>3, <1>4, <2>1, <2>3 DEF tl
<1>5. CASE Head(s).type # t
  <2>1. At(s, t) = up
    <3>1. ASSUME NEW i \in At(s, t) PROVE i \in up
      <4>1. i - 1 \in At(tl, t) /\ i = (i - 1) + 1
        BY <1>1, <1>5 DEF At
      <4> QED BY <4>1
    <3> QED BY <1>1, <3>1 DEF At
  <2> QED BY <1>2, <1>3, <1>5, <2>1 DEF tl
<1> QED BY <1>4, <1>5

\* The last two facts in a form that needs no arithmetic.
LEMMA CountAppendPlus ==
    ASSUME NEW T, NEW s \in Seq(T), NEW x \in T, NEW t
    PROVE  Plus(Count(Append(s, x), t), Count(s, t), x.type, t)
BY CountAppend, CountType DEF Plus

\* The same, as the ledgers use it.
LEMMA CountTailPlus ==
    ASSUME NEW T, NEW s \in Seq(T), s # <<>>, NEW t
    PROVE  Plus(Count(s, t), Count(Tail(s), t), Head(s).type, t)
<1>1. Tail(s) \in Seq(T)
  BY HeadTailProperties
<1>2. Count(Tail(s), t) \in Nat
  BY <1>1, CountType
<1> QED BY <1>2, CountTail DEF Plus

\* Two lists in a row.
LEMMA CountConcat ==
    ASSUME NEW T, NEW r \in Seq(T), NEW s \in Seq(T), NEW t
    PROVE  Count(r \o s, t) = Count(r, t) + Count(s, t)
<1> DEFINE up == {i + Len(r) : i \in At(s, t)}
           f == [i \in At(s, t) |-> i + Len(r)]
<1>1. /\ Len(r) \in Nat /\ DOMAIN r = 1 .. Len(r)
      /\ Len(s) \in Nat /\ DOMAIN s = 1 .. Len(s)
      /\ r \o s \in Seq(T)
      /\ DOMAIN (r \o s) = 1 .. (Len(r) + Len(s))
      /\ \A i \in 1 .. (Len(r) + Len(s)) : (r \o s)[i] = IF i <= Len(r) THEN r[i] ELSE s[i - Len(r)]
  BY LenProperties, ConcatProperties
<1>2. /\ IsFiniteSet(At(r, t)) /\ Count(r, t) = Cardinality(At(r, t)) /\ Count(r, t) \in Nat
      /\ IsFiniteSet(At(s, t)) /\ Count(s, t) = Cardinality(At(s, t)) /\ Count(s, t) \in Nat
      /\ Count(r \o s, t) = Cardinality(At(r \o s, t))
  BY <1>1, CountType
<1>3. IsFiniteSet(up) /\ Cardinality(up) = Cardinality(At(s, t))
  <2>1. At(s, t) \subseteq Nat
    BY <1>1 DEF At
  <2>2. f \in Injection(At(s, t), up) /\ f \in Surjection(At(s, t), up)
    BY <1>1, <2>1 DEF Injection, Surjection, IsInjective
  <2>3. ExistsBijection(At(s, t), up)
    BY <2>2 DEF ExistsBijection, Bijection
  <2> QED BY <1>2, <2>3, FS_Bijection
<1>4. At(r \o s, t) = At(r, t) \cup up
  <2>1. ASSUME NEW i \in At(r \o s, t), i > Len(r) PROVE i \in up
    <3>1. i - Len(r) \in At(s, t) /\ i = (i - Len(r)) + Len(r)
      BY <1>1, <2>1 DEF At
    <3> QED BY <3>1
  <2>2. ASSUME NEW i \in At(r \o s, t), i <= Len(r) PROVE i \in At(r, t)
    BY <1>1, <2>2 DEF At
  <2>3. At(r, t) \subseteq At(r \o s, t)
    BY <1>1 DEF At
  <2>4. ASSUME NEW i \in At(s, t) PROVE i + Len(r) \in At(r \o s, t)
    BY <1>1 DEF At
  <2>5. At(r \o s, t) \subseteq At(r, t) \cup up
    <3>1. \A i \in At(r \o s, t) : i > Len(r) \/ i <= Len(r)
      BY <1>1 DEF At
    <3> QED BY <2>1, <2>2, <3>1
  <2>6. up \subseteq At(r \o s, t)
    BY <2>4
  <2> HIDE DEF up
  <2> QED BY <2>3, <2>5, <2>6
<1>5. At(r, t) \cap up = {}
  BY <1>1 DEF At
<1>6. Cardinality(At(r, t) \cup up) = Cardinality(At(r, t)) + Cardinality(up)
  <2>1. Cardinality(At(r, t) \cup up)
          = Cardinality(At(r, t)) + Cardinality(up) - Cardinality(At(r, t) \cap up)
    BY <1>2, <1>3, FS_Union
  <2>2. Cardinality(At(r, t) \cap up) = 0
    BY <1>5, FS_EmptySet
  <2> HIDE DEF up
  <2> QED BY <1>2, <1>3, <2>1, <2>2
<1> QED BY <1>2, <1>3, <1>4, <1>6

--------------------------------------------------------------------------------
(* What is on its way to the handlers *)

\* The packets the parser has cut out are counted with those still on the wire.
LEMMA ArrivingType ==
    ASSUME Types
    PROVE  /\ Arriving \in Seq(InPkt)
           /\ \A t : Count(Arriving, t) = Count(retrieved, t) + Count(inbox, t)
<1>1. retrieved \in Seq(InPkt) /\ inbox \in Seq(InPkt)
  BY DEF Types
<1>2. Arriving \in Seq(InPkt)
  BY <1>1, ConcatProperties DEF Arriving
<1>3. ASSUME NEW t PROVE Count(Arriving, t) = Count(retrieved, t) + Count(inbox, t)
  BY <1>1, CountConcat DEF Arriving
<1> QED BY <1>2, <1>3

\* Concatenation over one set stays in it and associates.
LEMMA ConcatAssociates ==
    ASSUME NEW T, NEW r \in Seq(T), NEW s \in Seq(T), NEW t \in Seq(T)
    PROVE  /\ r \o s \in Seq(T)
           /\ (r \o s) \o t = r \o (s \o t)
<1>1. r \o s \in Seq(T)
  BY ConcatProperties
<1>2. (r \o s) \o t = r \o (s \o t)
  BY ConcatAssociative
<1> QED BY <1>1, <1>2

\* A sequence is cut in two.
LEMMA CutProperties ==
    ASSUME NEW T, NEW s \in Seq(T), NEW n \in 1 .. Len(s)
    PROVE  /\ SubSeq(s, 1, n) \in Seq(T)
           /\ SubSeq(s, n + 1, Len(s)) \in Seq(T)
           /\ SubSeq(s, 1, n) \o SubSeq(s, n + 1, Len(s)) = s
<1>1. Len(s) \in Nat /\ \A i \in 1 .. Len(s) : s[i] \in T
  BY LenProperties, ElementOfSeq
<1>2. SubSeq(s, 1, n) \in Seq(T) /\ SubSeq(s, n + 1, Len(s)) \in Seq(T)
  BY <1>1, SubSeqProperties
<1>3. SubSeq(s, 1, n) \o SubSeq(s, n + 1, Len(s)) = s
  BY <1>1, ConcatAdjacentSubSeq, SubSeqFull
<1> QED BY <1>2, <1>3

\* receive_data and parse_blob only move packets.
LEMMA ReadingMovesPackets ==
    ASSUME Types, NEW n \in 1 .. Len(inbox),
           retrieved' = retrieved \o SubSeq(inbox, 1, n),
           inbox' = SubSeq(inbox, n + 1, Len(inbox))
    PROVE  /\ retrieved' \in Seq(InPkt)
           /\ inbox' \in Seq(InPkt)
           /\ Arriving' = Arriving
<1> DEFINE moved == SubSeq(inbox, 1, n)
           left == SubSeq(inbox, n + 1, Len(inbox))
<1>1. retrieved \in Seq(InPkt) /\ inbox \in Seq(InPkt)
  BY DEF Types
<1>2. moved \in Seq(InPkt) /\ left \in Seq(InPkt)
  BY <1>1, CutProperties
<1>3. moved \o left = inbox
  BY <1>1, CutProperties
<1>4. retrieved' = retrieved \o moved /\ inbox' = left
  OBVIOUS
<1> HIDE DEF moved, left
<1>5. ASSUME NEW a \in Seq(InPkt), NEW b \in Seq(InPkt), retrieved \in Seq(InPkt)
      PROVE  (retrieved \o a) \o b = retrieved \o (a \o b)
  BY ONLY ConcatAssociates, retrieved \in Seq(InPkt), a \in Seq(InPkt), b \in Seq(InPkt)
<1>6. (retrieved \o moved) \o left = retrieved \o (moved \o left)
  BY ONLY <1>1, <1>2, <1>5, Zenon
<1>7. retrieved \o moved \in Seq(InPkt)
  BY <1>1, <1>2, ConcatProperties
<1>8. Arriving' = Arriving
  BY <1>3, <1>4, <1>6, Zenon DEF Arriving
<1> QED BY <1>2, <1>4, <1>7, <1>8, Zenon

\* A packet is handed to its handler.
LEMMA DispatchTakesFirst ==
    ASSUME Types, retrieved # <<>>, retrieved' = Tail(retrieved), inbox' = inbox
    PROVE  /\ retrieved' \in Seq(InPkt)
           /\ Head(retrieved) \in InPkt
           /\ Arriving # <<>>
           /\ Head(Arriving) = Head(retrieved)
           /\ Arriving' = Tail(Arriving)
<1>1. retrieved \in Seq(InPkt) /\ inbox \in Seq(InPkt)
  BY DEF Types
<1>2. /\ Tail(retrieved) \in Seq(InPkt)
      /\ Len(retrieved) \in Nat \ {0}
      /\ Len(Tail(retrieved)) = Len(retrieved) - 1
      /\ \A i \in 1 .. (Len(retrieved) - 1) : Tail(retrieved)[i] = retrieved[i + 1]
      /\ Head(retrieved) \in InPkt
      /\ Len(inbox) \in Nat
  BY <1>1, HeadTailProperties, EmptySeq, LenProperties
<1>3. /\ Arriving \in Seq(InPkt)
      /\ Len(Arriving) = Len(retrieved) + Len(inbox)
      /\ \A i \in 1 .. (Len(retrieved) + Len(inbox)) :
            Arriving[i] = IF i <= Len(retrieved) THEN retrieved[i] ELSE inbox[i - Len(retrieved)]
  BY <1>1, ConcatProperties DEF Arriving
<1>4. Arriving # <<>>
  BY <1>2, <1>3, EmptySeq
<1>5. /\ Tail(Arriving) \in Seq(InPkt)
      /\ Len(Tail(Arriving)) = Len(Arriving) - 1
      /\ \A i \in 1 .. (Len(Arriving) - 1) : Tail(Arriving)[i] = Arriving[i + 1]
  BY <1>3, <1>4, HeadTailProperties
<1>6. /\ Arriving' \in Seq(InPkt)
      /\ Len(Arriving') = Len(retrieved) - 1 + Len(inbox)
      /\ \A i \in 1 .. (Len(retrieved) - 1 + Len(inbox)) :
            Arriving'[i] = IF i <= Len(retrieved) - 1 THEN retrieved[i + 1]
                           ELSE inbox[i - (Len(retrieved) - 1)]
  BY <1>1, <1>2, ConcatProperties DEF Arriving
<1>7. ASSUME NEW i \in 1 .. Len(Arriving') PROVE Arriving'[i] = Tail(Arriving)[i]
  <2>1. /\ i \in 1 .. (Len(Arriving) - 1) /\ i + 1 \in 1 .. (Len(retrieved) + Len(inbox))
        /\ i \in 1 .. (Len(retrieved) - 1 + Len(inbox))
        /\ i <= Len(retrieved) - 1 <=> i + 1 <= Len(retrieved)
        /\ i - (Len(retrieved) - 1) = i + 1 - Len(retrieved)
    BY <1>2, <1>3, <1>6
  <2>2. Tail(Arriving)[i] = Arriving[i + 1]
    BY ONLY <1>5, <2>1, Zenon
  <2>3. Arriving[i + 1] = IF i + 1 <= Len(retrieved) THEN retrieved[i + 1]
                          ELSE inbox[i + 1 - Len(retrieved)]
    BY ONLY <1>3, <2>1
  <2>4. Arriving'[i] = IF i <= Len(retrieved) - 1 THEN retrieved[i + 1]
                       ELSE inbox[i - (Len(retrieved) - 1)]
    BY ONLY <1>6, <2>1, Zenon
  <2> QED BY ONLY <2>1, <2>2, <2>3, <2>4, Zenon
<1>8. Arriving' = Tail(Arriving)
  BY <1>2, <1>3, <1>5, <1>6, <1>7, SeqEqual
<1>9. Head(Arriving) = Arriving[1] /\ Head(retrieved) = retrieved[1]
  BY <1>1, <1>3, <1>4
<1> QED BY <1>2, <1>3, <1>4, <1>8, <1>9

\* The distributor sends one more packet.
LEMMA SendingAppends ==
    ASSUME Types, NEW p \in InPkt, inbox' = Append(inbox, p), retrieved' = retrieved
    PROVE  inbox' \in Seq(InPkt) /\ Arriving' = Append(Arriving, p)
<1>1. retrieved \in Seq(InPkt) /\ inbox \in Seq(InPkt) /\ <<p>> \in Seq(InPkt)
  BY DEF Types
<1>2. inbox' = inbox \o <<p>>
  BY <1>1, AppendIsConcat
<1>3. retrieved \o inbox \in Seq(InPkt) /\ inbox' \in Seq(InPkt)
  BY <1>1, <1>2, ConcatProperties
<1>4. retrieved \o (inbox \o <<p>>) = (retrieved \o inbox) \o <<p>>
  BY <1>1, ConcatAssociative
<1> QED BY <1>2, <1>3, <1>4, AppendIsConcat DEF Arriving

\* ... and two.
LEMMA TwoMore ==
    ASSUME NEW s \in Seq(InPkt), NEW x \in InPkt, NEW y \in InPkt
    PROVE  /\ Append(s, x) \in Seq(InPkt)
           /\ Append(Append(s, x), y) \in Seq(InPkt)
           /\ s \o <<x, y>> = Append(Append(s, x), y)
<1>1. /\ <<x, y>> \in Seq(InPkt) /\ <<x>> \in Seq(InPkt) /\ <<y>> \in Seq(InPkt)
      /\ <<x>> \o <<y>> = <<x, y>>
  <2>1. <<x, y>> \in Seq(InPkt)
    OBVIOUS
  <2>2. <<x>> \in Seq(InPkt) /\ <<y>> \in Seq(InPkt)
    OBVIOUS
  <2>3. <<x>> \o <<y>> = <<x, y>>
    <3>1. Len(<<x>>) = 1 /\ Len(<<y>>) = 1 /\ <<x>>[1] = x /\ <<y>>[1] = y
      OBVIOUS
    <3>2. Len(<<x, y>>) = 2 /\ <<x, y>>[1] = x /\ <<x, y>>[2] = y
      OBVIOUS
    <3>3. /\ <<x>> \o <<y>> \in Seq(InPkt)
          /\ Len(<<x>> \o <<y>>) = 2
          /\ (<<x>> \o <<y>>)[1] = x
          /\ (<<x>> \o <<y>>)[2] = y
      BY <2>2, <3>1, ConcatProperties
    <3> DEFINE c == <<x>> \o <<y>>
               d == <<x, y>>
    <3>4. /\ c \in Seq(InPkt) /\ d \in Seq(InPkt) /\ Len(c) = 2 /\ Len(d) = 2
          /\ c[1] = d[1] /\ c[2] = d[2]
      BY <2>1, <3>2, <3>3
    <3> HIDE DEF c, d
    <3>5. \A i \in 1 .. Len(c) : c[i] = d[i]
      BY <3>4
    <3>6. c = d
      BY <3>4, <3>5, SeqEqual
    <3> QED BY <3>6 DEF c, d
  <2> QED BY <2>1, <2>2, <2>3
<1>2. Append(s, x) \in Seq(InPkt) /\ Append(Append(s, x), y) \in Seq(InPkt)
  BY AppendProperties
<1>3. s \o (<<x>> \o <<y>>) = (s \o <<x>>) \o <<y>>
  BY <1>1, ConcatAssociative
<1>4. Append(s, x) = s \o <<x>>
  BY AppendIsConcat
<1>5. Append(Append(s, x), y) = Append(s, x) \o <<y>>
  BY <1>2, AppendIsConcat
<1> QED BY <1>1, <1>2, <1>3, <1>4, <1>5

\* A packet appended to the second of two lists is appended to both together.
LEMMA ConcatAppend ==
    ASSUME NEW r \in Seq(InPkt), NEW s \in Seq(InPkt), NEW x \in InPkt
    PROVE  r \o Append(s, x) = Append(r \o s, x) /\ r \o s \in Seq(InPkt)
<1>1. <<x>> \in Seq(InPkt) /\ r \o s \in Seq(InPkt)
  BY ConcatProperties
<1>2. r \o (s \o <<x>>) = (r \o s) \o <<x>>
  BY <1>1, ConcatAssociative
<1> QED BY <1>1, <1>2, AppendIsConcat

--------------------------------------------------------------------------------
(* Packets and tasks *)

\* What the type of a packet says about it.
LEMMA PacketFacts ==
    /\ \A p \in InPkt :
          /\ p \in Task \/ p.type \in {"SUCCESS", "USER_NOT_FOUND"}
          /\ p \in Task => p.type \in {"HANDSHAKE", "HEARTBEAT", "NAME_TAKEN", "USER_LIST"}
          /\ p.type = "HANDSHAKE" => p \in {Pkt("HANDSHAKE", "good"), Pkt("HANDSHAKE", "bad")}
          /\ p.type = "HEARTBEAT" => p = Pkt("HEARTBEAT", 0)
          /\ p.type = "NAME_TAKEN" => p = Pkt("NAME_TAKEN", 0)
          /\ p.type = "USER_LIST" => \E v \in 1 .. MaxLists : p = Pkt("USER_LIST", v)
    /\ \A p \in OutPkt :
          /\ p.type = "NEW_USER" => p.arg \in Nat
          /\ p.type = "HEARTBEAT" => p = Pkt("HEARTBEAT", 0)
BY DEF InPkt, OutPkt, Task, Pkt, Magic

\* The tasks that are told apart.
LEMMA TaskFacts ==
    /\ Pkt("HANDSHAKE", "good") \in Task
    /\ Pkt("HANDSHAKE", "bad") \in Task
    /\ Pkt("HEARTBEAT", 0) \in Task
    /\ Pkt("ASLEEP", 0) \in Task
    /\ Pkt("NAME_TAKEN", 0) \in Task
    /\ Pkt("RENAMED", 0) \in Task
    /\ \A v \in 1 .. MaxLists : Pkt("USER_LIST", v) \in Task
BY DEF Task, Magic

\* The packets that are sent.
LEMMA SentFacts ==
    /\ Pkt("HANDSHAKE", "good") \in OutPkt
    /\ Pkt("HEARTBEAT", 0) \in OutPkt
    /\ Pkt("SESSION_REQUEST", 0) \in OutPkt
    /\ Pkt("SESSION_CLOSE", 0) \in OutPkt
    /\ \A n \in Nat : Pkt("NEW_USER", n) \in OutPkt
    /\ \A m \in Magic : Pkt("HANDSHAKE", m) \in InPkt
    /\ \A v \in 1 .. MaxLists : Pkt("USER_LIST", v) \in InPkt
    /\ \A t \in {"HEARTBEAT", "NAME_TAKEN", "SUCCESS", "USER_NOT_FOUND"} : Pkt(t, 0) \in InPkt
BY DEF OutPkt, InPkt

\* A packet is named by its type and its argument.
LEMMA PktInjective ==
    \A t, u, m, n : Pkt(t, m) = Pkt(u, n) <=> t = u /\ m = n
BY DEF Pkt

\* The counts of a state are numbers.
LEMMA CountsAreNumbers ==
    ASSUME Types, NEW t
    PROVE  /\ Count(send_buffer, t) \in Nat
           /\ Count(outbox, t) \in Nat
           /\ Count(Arriving, t) \in Nat
           /\ Cardinality(registered) \in Nat
BY ArrivingType, CountType, FS_CardinalityType DEF Types

\* What Heartbeats and Prospects add up.
Numbers ==
    /\ Count(send_buffer, "HEARTBEAT") \in Nat
    /\ Count(send_buffer, "HANDSHAKE") \in Nat
    /\ Count(send_buffer, "NEW_USER") \in Nat
    /\ Count(outbox, "HEARTBEAT") \in Nat
    /\ Count(outbox, "HANDSHAKE") \in Nat
    /\ Count(outbox, "NEW_USER") \in Nat
    /\ Count(Arriving, "HEARTBEAT") \in Nat
    /\ Count(Arriving, "HANDSHAKE") \in Nat
    /\ Count(Arriving, "NAME_TAKEN") \in Nat
    /\ tasks[Pkt("HANDSHAKE", "good")] \in Nat
    /\ tasks[Pkt("HANDSHAKE", "bad")] \in Nat
    /\ tasks[Pkt("HEARTBEAT", 0)] \in Nat
    /\ tasks[Pkt("ASLEEP", 0)] \in Nat
    /\ tasks[Pkt("NAME_TAKEN", 0)] \in Nat
    /\ tasks[Pkt("RENAMED", 0)] \in Nat
    /\ Cardinality(registered) \in Nat
    /\ greetings \in Nat

\* They are numbers, before a step and after it.
LEMMA TypesGiveNumbers == Types => Numbers
<1> SUFFICES ASSUME Types PROVE Numbers
  OBVIOUS
<1>1. \A t : /\ Count(send_buffer, t) \in Nat
             /\ Count(outbox, t) \in Nat
             /\ Count(Arriving, t) \in Nat
  BY CountsAreNumbers
<1>2. Cardinality(registered) \in Nat /\ greetings \in Nat
  BY FS_CardinalityType DEF Types
<1>3. \A k \in Task : tasks[k] \in Nat
  BY DEF Types, TypeOK
<1> QED BY <1>1, <1>2, <1>3, TaskFacts DEF Numbers

\* ... and so in the next state.
LEMMA TypesGiveNumbersNext == Types' => Numbers'
<1> SUFFICES ASSUME Types' PROVE Numbers'
  OBVIOUS
<1>1. /\ send_buffer' \in Seq(OutPkt)
      /\ outbox' \in Seq(OutPkt)
      /\ retrieved' \in Seq(InPkt)
      /\ inbox' \in Seq(InPkt)
      /\ IsFiniteSet(registered')
  BY DEF Types
<1>2. Arriving' \in Seq(InPkt)
  BY <1>1, ConcatProperties DEF Arriving
<1>3. \A t : /\ Count(send_buffer', t) \in Nat
             /\ Count(outbox', t) \in Nat
             /\ Count(Arriving', t) \in Nat
  BY <1>1, <1>2, CountType
<1>4. Cardinality(registered') \in Nat /\ greetings' \in Nat
  BY <1>1, FS_CardinalityType DEF Types
<1>5. \A k \in Task : tasks'[k] \in Nat
  BY DEF Types, TypeOK
<1> QED BY <1>3, <1>4, <1>5, TaskFacts DEF Numbers

\* A packet of type u joins the send buffer.
Queued(u) ==
    /\ Plus(Count(send_buffer, "HEARTBEAT")', Count(send_buffer, "HEARTBEAT"), u, "HEARTBEAT")
    /\ Plus(Count(send_buffer, "HANDSHAKE")', Count(send_buffer, "HANDSHAKE"), u, "HANDSHAKE")
    /\ Plus(Count(send_buffer, "NEW_USER")', Count(send_buffer, "NEW_USER"), u, "NEW_USER")

\* enqueue_msg puts one packet of its type into send_buffer_.
LEMMA Enqueued ==
    ASSUME Types, NEW u, NEW n, Pkt(u, n) \in OutPkt, enqueue_msg(Pkt(u, n))
    PROVE  send_buffer' \in Seq(OutPkt) /\ Queued(u)
<1>1. send_buffer \in Seq(OutPkt) /\ send_buffer' = Append(send_buffer, Pkt(u, n))
  BY DEF Types, enqueue_msg
<1>2. Pkt(u, n).type = u
  BY DEF Pkt
<1>3. \A t : Plus(Count(send_buffer', t), Count(send_buffer, t), u, t)
  BY <1>1, <1>2, CountAppendPlus
<1> QED BY <1>1, <1>3, AppendProperties DEF Queued

\* The packets a daemon queues by itself: a handshake, ...
LEMMA HandshakeQueued ==
    ASSUME Types, enqueue_msg(Pkt("HANDSHAKE", "good"))
    PROVE  /\ send_buffer' \in Seq(OutPkt)
           /\ Count(send_buffer, "HEARTBEAT")' = Count(send_buffer, "HEARTBEAT")
           /\ Count(send_buffer, "HANDSHAKE")' = Count(send_buffer, "HANDSHAKE") + 1
           /\ Count(send_buffer, "NEW_USER")' = Count(send_buffer, "NEW_USER")
<1>1. Pkt("HANDSHAKE", "good") \in OutPkt
  BY SentFacts
<1>2. send_buffer' \in Seq(OutPkt) /\ Queued("HANDSHAKE")
  BY <1>1, Enqueued
<1> QED BY <1>2 DEF Queued, Plus

\* ... a heartbeat ...
LEMMA HeartbeatQueued ==
    ASSUME Types, enqueue_msg(Pkt("HEARTBEAT", 0))
    PROVE  /\ send_buffer' \in Seq(OutPkt)
           /\ Count(send_buffer, "HEARTBEAT")' = Count(send_buffer, "HEARTBEAT") + 1
           /\ Count(send_buffer, "HANDSHAKE")' = Count(send_buffer, "HANDSHAKE")
           /\ Count(send_buffer, "NEW_USER")' = Count(send_buffer, "NEW_USER")
<1>1. Pkt("HEARTBEAT", 0) \in OutPkt
  BY SentFacts
<1>2. send_buffer' \in Seq(OutPkt) /\ Queued("HEARTBEAT")
  BY <1>1, Enqueued
<1> QED BY <1>2 DEF Queued, Plus

\* ... and a request for a name.
LEMMA NameQueued ==
    ASSUME Types, NEW n \in Nat, enqueue_msg(Pkt("NEW_USER", n))
    PROVE  /\ send_buffer' \in Seq(OutPkt)
           /\ Count(send_buffer, "HEARTBEAT")' = Count(send_buffer, "HEARTBEAT")
           /\ Count(send_buffer, "HANDSHAKE")' = Count(send_buffer, "HANDSHAKE")
           /\ Count(send_buffer, "NEW_USER")' = Count(send_buffer, "NEW_USER") + 1
<1>1. Pkt("NEW_USER", n) \in OutPkt
  BY SentFacts
<1>2. send_buffer' \in Seq(OutPkt) /\ Queued("NEW_USER")
  BY <1>1, Enqueued
<1> QED BY <1>2 DEF Queued, Plus

\* What a step leaves as it is.
BufferKept ==
    /\ Count(send_buffer, "HEARTBEAT")' = Count(send_buffer, "HEARTBEAT")
    /\ Count(send_buffer, "HANDSHAKE")' = Count(send_buffer, "HANDSHAKE")
    /\ Count(send_buffer, "NEW_USER")' = Count(send_buffer, "NEW_USER")

OutboxKept ==
    /\ Count(outbox, "HEARTBEAT")' = Count(outbox, "HEARTBEAT")
    /\ Count(outbox, "HANDSHAKE")' = Count(outbox, "HANDSHAKE")
    /\ Count(outbox, "NEW_USER")' = Count(outbox, "NEW_USER")

ArrivingKept ==
    /\ Count(Arriving, "HEARTBEAT")' = Count(Arriving, "HEARTBEAT")
    /\ Count(Arriving, "HANDSHAKE")' = Count(Arriving, "HANDSHAKE")
    /\ Count(Arriving, "NAME_TAKEN")' = Count(Arriving, "NAME_TAKEN")

BeatTasksKept ==
    /\ tasks[Pkt("HEARTBEAT", 0)]' = tasks[Pkt("HEARTBEAT", 0)]
    /\ tasks[Pkt("ASLEEP", 0)]' = tasks[Pkt("ASLEEP", 0)]

ShakeTasksKept ==
    /\ tasks[Pkt("HANDSHAKE", "good")]' = tasks[Pkt("HANDSHAKE", "good")]
    /\ tasks[Pkt("HANDSHAKE", "bad")]' = tasks[Pkt("HANDSHAKE", "bad")]

NameTasksKept ==
    /\ tasks[Pkt("NAME_TAKEN", 0)]' = tasks[Pkt("NAME_TAKEN", 0)]
    /\ tasks[Pkt("RENAMED", 0)]' = tasks[Pkt("RENAMED", 0)]

ListTasksKept ==
    \A v \in 1 .. MaxLists : tasks[Pkt("USER_LIST", v)]' = tasks[Pkt("USER_LIST", v)]

\* What does not change is not counted anew.
LEMMA Kept ==
    /\ UNCHANGED send_buffer => BufferKept
    /\ UNCHANGED outbox => OutboxKept
    /\ UNCHANGED <<retrieved, inbox>> => Arriving' = Arriving
    /\ Arriving' = Arriving => ArrivingKept
    /\ UNCHANGED tasks => BeatTasksKept /\ ShakeTasksKept /\ NameTasksKept /\ ListTasksKept
BY DEF Arriving, BufferKept, OutboxKept, ArrivingKept, BeatTasksKept, ShakeTasksKept,
       NameTasksKept, ListTasksKept

\* What is left in the ledgers.
LEMMA LedgersKept ==
    /\ BufferKept /\ OutboxKept /\ ArrivingKept /\ BeatTasksKept => Heartbeats' = Heartbeats
    /\ BufferKept /\ OutboxKept /\ ArrivingKept /\ ShakeTasksKept => Shaking' = Shaking
    /\ BufferKept /\ OutboxKept /\ ArrivingKept /\ NameTasksKept => Asking' = Asking
BY DEF Heartbeats, Shaking, Asking, BufferKept, OutboxKept, ArrivingKept, BeatTasksKept,
       ShakeTasksKept, NameTasksKept

\* The ledgers hold numbers.
LEMMA Ledgers ==
    /\ Numbers => Heartbeats \in Nat /\ Shaking \in Nat /\ Asking \in Nat
    /\ Numbers' => Heartbeats' \in Nat /\ Shaking' \in Nat /\ Asking' \in Nat
<1>1. Numbers => Heartbeats \in Nat
  BY DEF Numbers, Heartbeats
<1>2. Numbers => Shaking \in Nat
  BY DEF Numbers, Shaking
<1>3. Numbers => Asking \in Nat
  BY DEF Numbers, Asking
<1>4. Numbers' => Heartbeats' \in Nat
  BY DEF Numbers, Heartbeats
<1>5. Numbers' => Shaking' \in Nat
  BY DEF Numbers, Shaking
<1>6. Numbers' => Asking' \in Nat
  BY DEF Numbers, Asking
<1> QED BY <1>1, <1>2, <1>3, <1>4, <1>5, <1>6

--------------------------------------------------------------------------------
(* Every step keeps Inv *)

\* A step that moves no packet across and runs no task.
LEMMA QuietStep ==
    ASSUME Inv, TypeOK', Places',
           retrieved' \in Seq(InPkt), inbox' \in Seq(InPkt), Arriving' = Arriving,
           UNCHANGED <<send_buffer, outbox, tasks, registered, lists, greetings, overlapped,
                       remote_users>>,
           (main' = "beat") <=> (main = "beat"),
           socket' \in {"none", "up"} => socket \in {"none", "up"}
    PROVE  Inv'
<1>1. Types'
  BY DEF Inv, Types
<1>2. Heartbeats' = Heartbeats /\ Prospects' = Prospects
  BY Kept, LedgersKept DEF Prospects
<1>3. Beating'
  BY <1>2 DEF Inv, Beating
<1>4. Naming'
  BY <1>2 DEF Inv, Naming
<1>5. Latest'
  BY <1>2 DEF Inv, Latest, Listing, EndsInList, HasNoList
<1> QED BY <1>1, <1>3, <1>4, <1>5 DEF Inv

\* The steps of that kind.
LEMMA QuietActionsKeepInv ==
    ASSUME Inv,
           \/ CliConnect \/ CliConnected \/ CliName \/ CliExit
           \/ Leave \/ Frame \/ Connect \/ Signal \/ Silence
    PROVE  Inv'
<1>1. /\ UNCHANGED <<retrieved, inbox, send_buffer, outbox, tasks, registered, lists, greetings,
                     overlapped, remote_users>>
      /\ (main' = "beat") <=> (main = "beat")
      /\ socket' \in {"none", "up"} => socket \in {"none", "up"}
  BY DEF Inv, Types, TypeOK, controlVars, taskVars, netVars, Typed, CliConnect, CliConnected,
         CliName, CliExit, Leave, Frame, Connect, Signal, Silence
<1>2. TypeOK' /\ Places'
  <2> USE DEF Inv, Types, TypeOK, Places, controlVars, taskVars, netVars, Typed
  <2>1. CASE CliConnect
    BY <2>1 DEF CliConnect
  <2>7. CASE CliConnected
    BY <2>7 DEF CliConnected
  <2>8. CASE CliName
    BY <2>8 DEF CliName
  <2>9. CASE CliExit
    BY <2>9 DEF CliExit
  <2>2. CASE Leave
    BY <2>2 DEF Leave
  <2>3. CASE Frame
    BY <2>3 DEF Frame
  <2>4. CASE Connect
    BY <2>4 DEF Connect
  <2>5. CASE Signal
    BY <2>5 DEF Signal
  <2>6. CASE Silence
    BY <2>6 DEF Silence
  <2> QED BY <2>1, <2>2, <2>3, <2>4, <2>5, <2>6, <2>7, <2>8, <2>9
<1>3. retrieved' \in Seq(InPkt) /\ inbox' \in Seq(InPkt) /\ Arriving' = Arriving
  BY <1>1 DEF Inv, Types, Arriving
<1> QED BY <1>1, <1>2, <1>3, QuietStep

\* A step after which the same lists are on their way and in the handlers.
LEMMA LatestKept ==
    ASSUME Inv, Arriving' = Arriving, ListTasksKept,
           UNCHANGED <<lists, overlapped, remote_users>>,
           socket' \in {"none", "up"} => socket \in {"none", "up"}
    PROVE  Latest'
BY DEF Inv, Latest, Listing, EndsInList, HasNoList, ListTasksKept

\* The constructor empties the send buffer.
LEMMA ConstructKeepsInv ==
    ASSUME Inv, Construct
    PROVE  Inv'
<1>1. /\ UNCHANGED <<outbox, retrieved, inbox, tasks, registered, greetings, socket, lists,
                     overlapped, remote_users>>
      /\ main = "constructing" /\ main' = "frame"
  BY DEF Construct, netVars
<1>2. OutboxKept /\ ArrivingKept /\ BeatTasksKept /\ ShakeTasksKept /\ NameTasksKept
  BY <1>1, Kept
<1>3. /\ Count(send_buffer, "HEARTBEAT")' = 0
      /\ Count(send_buffer, "HANDSHAKE")' = 0
      /\ Count(send_buffer, "NEW_USER")' = 0
  BY CountEmpty DEF Construct
<1>4. Types'
  BY EmptySeq DEF Inv, Types, TypeOK, Construct, netVars
<1>5. Numbers /\ Numbers'
  BY <1>4, TypesGiveNumbers, TypesGiveNumbersNext DEF Inv
<1>6. Places'
  BY <1>1 DEF Places
<1>7. Heartbeats' <= Heartbeats
  BY <1>2, <1>3, <1>5 DEF Heartbeats, Numbers, OutboxKept, ArrivingKept, BeatTasksKept
<1>8. Shaking' <= Shaking
  BY <1>2, <1>3, <1>5 DEF Shaking, Numbers, OutboxKept, ArrivingKept, ShakeTasksKept
<1>9. Asking' <= Asking
  BY <1>2, <1>3, <1>5 DEF Asking, Numbers, OutboxKept, ArrivingKept, NameTasksKept
<1>10. Beating'
  <2>1. Heartbeats = 0 /\ greetings = 0
    BY <1>1 DEF Inv, Beating, Places
  <2> QED BY <1>1, <1>5, <1>7, <2>1, Ledgers DEF Beating
<1>11. Naming'
  BY <1>1, <1>5, <1>8, <1>9, Ledgers DEF Inv, Naming, Numbers, Prospects
<1>12. Latest'
  BY <1>1, Kept, LatestKept
<1> QED BY <1>4, <1>6, <1>10, <1>11, <1>12 DEF Inv

\* session and endsession.
LEMMA CliSessionKeepsInv ==
    ASSUME Inv, NEW u \in {"SESSION_REQUEST", "SESSION_CLOSE"}, CliSession(u)
    PROVE  Inv'
<1>1. Types /\ Numbers
  BY TypesGiveNumbers DEF Inv
<1>2. /\ UNCHANGED <<outbox, retrieved, inbox, tasks, registered, greetings, socket, lists,
                     overlapped, remote_users, main, connected>>
      /\ enqueue_msg(Pkt(u, 0)) /\ Pkt(u, 0) \in OutPkt
  BY SentFacts DEF CliSession, Typed, taskVars, netVars
<1>3. send_buffer' \in Seq(OutPkt) /\ BufferKept
  <2>1. send_buffer' \in Seq(OutPkt) /\ Queued(u)
    BY <1>1, <1>2, Enqueued
  <2> QED BY <2>1 DEF Queued, Plus, BufferKept
<1>4. Types'
  BY <1>3 DEF Inv, Types, TypeOK, CliSession, Typed, taskVars, netVars
<1>5. Places'
  BY <1>2 DEF Inv, Places
<1>6. Heartbeats' = Heartbeats /\ Prospects' = Prospects
  BY <1>2, <1>3, Kept, LedgersKept DEF Prospects
<1>7. Beating'
  BY <1>2, <1>6 DEF Inv, Beating
<1>8. Naming'
  BY <1>2, <1>3, <1>6 DEF Inv, Naming, BufferKept
<1>9. Latest'
  BY <1>2, Kept, LatestKept
<1> QED BY <1>4, <1>5, <1>7, <1>8, <1>9 DEF Inv

\* send_initial_hs queues the handshake ...
LEMMA GreetKeepsInv ==
    ASSUME Inv, Greet
    PROVE  Inv'
<1>0. Types
  BY DEF Inv
<1>1. Numbers
  BY <1>0, TypesGiveNumbers
<1>2. /\ UNCHANGED <<outbox, retrieved, inbox, tasks, registered, greetings, socket, lists,
                     overlapped, remote_users, connected>>
      /\ enqueue_msg(Pkt("HANDSHAKE", "good"))
      /\ main = "greet" /\ main' = "beat"
  BY DEF Greet, taskVars, netVars
<1>3. /\ Count(send_buffer, "HEARTBEAT")' = Count(send_buffer, "HEARTBEAT")
      /\ Count(send_buffer, "HANDSHAKE")' = Count(send_buffer, "HANDSHAKE") + 1
      /\ Count(send_buffer, "NEW_USER")' = Count(send_buffer, "NEW_USER")
  BY <1>0, <1>2, HandshakeQueued
<1>4. OutboxKept /\ ArrivingKept /\ BeatTasksKept /\ ShakeTasksKept /\ NameTasksKept
  BY <1>2, Kept
<1>5. Types'
  <2>1. send_buffer' \in Seq(OutPkt)
    BY <1>0, <1>2, HandshakeQueued
  <2> QED BY <2>1 DEF Inv, Types, TypeOK, Greet, controlVars, taskVars, netVars
<1>6. Places'
  BY <1>2 DEF Places
<1>7. Heartbeats' = Heartbeats
  BY <1>1, <1>3, <1>4 DEF Heartbeats, OutboxKept, ArrivingKept, BeatTasksKept
<1>8. Shaking' = Shaking + 1
  BY <1>1, <1>3, <1>4 DEF Shaking, Numbers, OutboxKept, ArrivingKept, ShakeTasksKept
<1>9. Asking' = Asking
  BY <1>1, <1>3, <1>4 DEF Asking, OutboxKept, ArrivingKept, NameTasksKept
<1>10. Beating'
  BY <1>2, <1>7 DEF Inv, Beating
<1>11. Naming'
  BY <1>1, <1>2, <1>3, <1>8, <1>9, Ledgers DEF Inv, Naming, Numbers, Prospects
<1>12. Latest'
  BY <1>2, Kept, LatestKept
<1> QED BY <1>5, <1>6, <1>10, <1>11, <1>12 DEF Inv

\* ... and then the heartbeat.
LEMMA FirstBeatKeepsInv ==
    ASSUME Inv, FirstBeat
    PROVE  Inv'
<1>0. Types
  BY DEF Inv
<1>1. Numbers
  BY <1>0, TypesGiveNumbers
<1>2. /\ UNCHANGED <<outbox, retrieved, inbox, tasks, registered, socket, lists, overlapped,
                     remote_users, connected>>
      /\ enqueue_msg(Pkt("HEARTBEAT", 0))
      /\ main = "beat" /\ main' = "frame" /\ greetings' = greetings + 1
  BY DEF FirstBeat, netVars
<1>3. /\ Count(send_buffer, "HEARTBEAT")' = Count(send_buffer, "HEARTBEAT") + 1
      /\ Count(send_buffer, "HANDSHAKE")' = Count(send_buffer, "HANDSHAKE")
      /\ Count(send_buffer, "NEW_USER")' = Count(send_buffer, "NEW_USER")
  BY <1>0, <1>2, HeartbeatQueued
<1>4. OutboxKept /\ ArrivingKept /\ BeatTasksKept /\ ShakeTasksKept /\ NameTasksKept
  BY <1>2, Kept
<1>5. Types'
  <2>1. send_buffer' \in Seq(OutPkt)
    BY <1>0, <1>2, HeartbeatQueued
  <2>2. TypeOK'
    BY DEF Inv, Types, TypeOK, FirstBeat, controlVars, netVars
  <2>3. greetings' \in Nat
    BY <1>1, <1>2 DEF Numbers
  <2> QED BY <1>0, <1>2, <2>1, <2>2, <2>3 DEF Types
<1>6. Places'
  BY <1>2 DEF Places
<1>7. Heartbeats' = Heartbeats + 1
  BY <1>1, <1>3, <1>4 DEF Heartbeats, Numbers, OutboxKept, ArrivingKept, BeatTasksKept
<1>8. Shaking' = Shaking
  BY <1>1, <1>3, <1>4 DEF Shaking, OutboxKept, ArrivingKept, ShakeTasksKept
<1>9. Asking' = Asking
  BY <1>1, <1>3, <1>4 DEF Asking, OutboxKept, ArrivingKept, NameTasksKept
<1>10. Beating'
  BY <1>2, <1>7 DEF Inv, Beating
<1>11. Naming'
  BY <1>1, <1>2, <1>8, <1>9, Ledgers DEF Inv, Naming, Numbers, Prospects
<1>12. Latest'
  BY <1>2, Kept, LatestKept
<1> QED BY <1>5, <1>6, <1>10, <1>11, <1>12 DEF Inv

\* receive_data: nothing, some packets, or what a reset leaves.
LEMMA ReceiveDataKeepsInv ==
    ASSUME Inv, ReceiveData
    PROVE  Inv'
<1>1. Types /\ Numbers
  BY TypesGiveNumbers DEF Inv
<1>2. /\ UNCHANGED <<send_buffer, outbox, tasks, registered, lists, greetings, overlapped,
                     remote_users, socket, connected>>
      /\ main = "receive" /\ main' \in {"flush", "dispatch"}
  BY DEF ReceiveData, taskVars
<1>3. TypeOK' /\ Places'
  BY DEF Inv, Types, TypeOK, Places, ReceiveData, controlVars, taskVars
<1>4. CASE UNCHANGED <<inbox, retrieved>>
  <2>1. retrieved' \in Seq(InPkt) /\ inbox' \in Seq(InPkt) /\ Arriving' = Arriving
    BY <1>1, <1>4 DEF Types, Arriving
  <2> QED BY <1>2, <1>3, <2>1, QuietStep
<1>5. CASE \E n \in 1 .. Len(inbox) :
              /\ retrieved' = retrieved \o SubSeq(inbox, 1, n)
              /\ inbox' = SubSeq(inbox, n + 1, Len(inbox))
  <2>1. retrieved' \in Seq(InPkt) /\ inbox' \in Seq(InPkt) /\ Arriving' = Arriving
    BY <1>1, <1>5, ReadingMovesPackets
  <2> QED BY <1>2, <1>3, <2>1, QuietStep
<1>6. CASE socket = "reset" /\ inbox' = <<>> /\ UNCHANGED retrieved
  <2>1. retrieved \in Seq(InPkt) /\ inbox \in Seq(InPkt) /\ Arriving' = retrieved
    BY <1>1, <1>6, ConcatEmptySeq DEF Types, Arriving
  <2>2. Types'
    BY <1>1, <1>2, <1>3, <1>6, EmptySeq DEF Types
  <2>3. Numbers'
    BY <2>2, TypesGiveNumbersNext
  <2>4. \A t : /\ Count(Arriving, t) = Count(retrieved, t) + Count(inbox, t)
               /\ Count(retrieved, t) \in Nat /\ Count(inbox, t) \in Nat
    BY <1>1, <2>1, ArrivingType, CountType
  <2>5. /\ Count(Arriving, "HANDSHAKE")' <= Count(Arriving, "HANDSHAKE")
        /\ Count(Arriving, "NAME_TAKEN")' <= Count(Arriving, "NAME_TAKEN")
    BY <2>1, <2>4
  <2>6. BufferKept /\ OutboxKept /\ ShakeTasksKept /\ NameTasksKept
    BY <1>2, Kept
  <2>7. Shaking' <= Shaking
    BY <1>1, <2>3, <2>5, <2>6 DEF Shaking, Numbers, BufferKept, OutboxKept, ShakeTasksKept
  <2>8. Asking' <= Asking
    BY <1>1, <2>3, <2>5, <2>6 DEF Asking, Numbers, BufferKept, OutboxKept, NameTasksKept
  <2>9. Naming'
    BY <1>1, <1>2, <2>3, <2>7, <2>8, Ledgers DEF Inv, Naming, Numbers, Prospects
  <2>10. Beating'
    BY <1>2, <1>6 DEF Beating
  <2>11. Latest'
    BY <1>2, <1>6 DEF Inv, Latest, Listing
  <2> QED BY <1>3, <2>2, <2>9, <2>10, <2>11 DEF Inv
<1> QED BY <1>4, <1>5, <1>6 DEF ReceiveData

\* The send buffer is emptied.
LEMMA FlushKeepsInv ==
    ASSUME Inv, Flush
    PROVE  Inv'
<1>1. Types /\ Numbers
  BY TypesGiveNumbers DEF Inv
<1>2. /\ UNCHANGED <<retrieved, inbox, tasks, registered, lists, greetings, overlapped,
                     remote_users, socket, connected>>
      /\ main = "flush" /\ main' \in {"flush", "frame"}
  BY DEF Flush, taskVars
<1>3. TypeOK' /\ Places'
  BY DEF Inv, Types, TypeOK, Places, Flush, controlVars, taskVars
<1>4. CASE UNCHANGED <<send_buffer, outbox>>
  <2>1. retrieved' \in Seq(InPkt) /\ inbox' \in Seq(InPkt) /\ Arriving' = Arriving
    BY <1>1, <1>2 DEF Types, Arriving
  <2> QED BY <1>2, <1>3, <1>4, <2>1, QuietStep
<1>5. CASE /\ send_buffer # <<>>
           /\ send_buffer' = Tail(send_buffer)
           /\ outbox' = IF socket = "up" THEN Append(outbox, Head(send_buffer)) ELSE outbox
  <2>1. /\ send_buffer \in Seq(OutPkt) /\ outbox \in Seq(OutPkt)
        /\ send_buffer' \in Seq(OutPkt) /\ Head(send_buffer) \in OutPkt
    BY <1>1, <1>5, HeadTailProperties DEF Types
  <2>2. outbox' \in Seq(OutPkt)
    BY <1>5, <2>1, AppendProperties
  <2>3. Types' /\ Numbers'
    BY <1>1, <1>2, <1>3, <2>1, <2>2, TypesGiveNumbersNext DEF Types
  <2>4. ArrivingKept /\ BeatTasksKept /\ ShakeTasksKept /\ NameTasksKept
    BY <1>2, Kept
  <2>5. ASSUME NEW t
        PROVE  /\ Count(send_buffer, t)' \in Nat
               /\ Count(send_buffer, t)
                    = Count(send_buffer, t)' + (IF Head(send_buffer).type = t THEN 1 ELSE 0)
               /\ Count(outbox, t) \in Nat
               /\ socket = "up" =>
                    Count(outbox, t)'
                        = Count(outbox, t) + (IF Head(send_buffer).type = t THEN 1 ELSE 0)
               /\ socket # "up" => Count(outbox, t)' = Count(outbox, t)
    <3>1. Count(send_buffer, t) = Count(Tail(send_buffer), t)
                                    + (IF Head(send_buffer).type = t THEN 1 ELSE 0)
      BY <1>5, <2>1, CountTail
    <3>2. Count(Append(outbox, Head(send_buffer)), t)
            = Count(outbox, t) + (IF Head(send_buffer).type = t THEN 1 ELSE 0)
      BY <2>1, CountAppend
    <3>3. Count(send_buffer', t) \in Nat /\ Count(outbox, t) \in Nat
      BY <2>1, CountType
    <3> QED BY <1>5, <3>1, <3>2, <3>3
  <2>6. ASSUME NEW t
        PROVE  /\ Count(send_buffer, t)' + Count(outbox, t)'
                    <= Count(send_buffer, t) + Count(outbox, t)
               /\ socket = "up" => Count(send_buffer, t)' + Count(outbox, t)'
                                     = Count(send_buffer, t) + Count(outbox, t)
    BY <2>5
  <2>7. Beating'
    <3>1. CASE socket = "up"
      <4>1. Count(send_buffer, "HEARTBEAT")' + Count(outbox, "HEARTBEAT")'
              = Count(send_buffer, "HEARTBEAT") + Count(outbox, "HEARTBEAT")
        BY <2>6, <3>1
      <4>2. Heartbeats' = Heartbeats
        BY <1>1, <2>3, <2>4, <4>1 DEF Heartbeats, Numbers, ArrivingKept, BeatTasksKept
      <4> QED BY <1>2, <4>2 DEF Inv, Beating
    <3>2. CASE socket # "up"
      <4>1. socket # "none"
        BY <1>2 DEF Inv, Types, TypeOK, Places
      <4> QED BY <1>2, <3>2, <4>1 DEF Beating
    <3> QED BY <3>1, <3>2
  <2>8. Shaking' <= Shaking
    <3>1. Count(send_buffer, "HANDSHAKE")' + Count(outbox, "HANDSHAKE")'
            <= Count(send_buffer, "HANDSHAKE") + Count(outbox, "HANDSHAKE")
      BY <2>6
    <3> QED BY <1>1, <2>3, <2>4, <3>1 DEF Shaking, Numbers, ArrivingKept, ShakeTasksKept
  <2>9. Asking' <= Asking
    <3>1. Count(send_buffer, "NEW_USER")' + Count(outbox, "NEW_USER")'
            <= Count(send_buffer, "NEW_USER") + Count(outbox, "NEW_USER")
      BY <2>6
    <3> QED BY <1>1, <2>3, <2>4, <3>1 DEF Asking, Numbers, ArrivingKept, NameTasksKept
  <2>10. Naming'
    BY <1>1, <1>2, <2>3, <2>8, <2>9, Ledgers DEF Inv, Naming, Numbers, Prospects
  <2>11. Latest'
    BY <1>2, Kept, LatestKept
  <2> QED BY <1>3, <2>3, <2>7, <2>10, <2>11 DEF Inv
<1> QED BY <1>4, <1>5 DEF Flush

--------------------------------------------------------------------------------
(* The tasks *)

\* Only the tasks a and b are touched.
OnlyTouches(a, b) == \A j \in Task \ {a, b} : tasks'[j] = tasks[j]

\* The tasks of other types stay as they are.
LEMMA UntouchedTasks ==
    ASSUME NEW a, NEW b, OnlyTouches(a, b)
    PROVE  /\ {a.type, b.type} \cap {"HEARTBEAT", "ASLEEP"} = {} => BeatTasksKept
           /\ {a.type, b.type} \cap {"HANDSHAKE"} = {} => ShakeTasksKept
           /\ {a.type, b.type} \cap {"NAME_TAKEN", "RENAMED"} = {} => NameTasksKept
           /\ {a.type, b.type} \cap {"USER_LIST"} = {} => ListTasksKept
<1>1. \A t, n : Pkt(t, n).type = t
  BY DEF Pkt
<1>2. \A t, n : Pkt(t, n) \in Task /\ t \notin {a.type, b.type} => tasks'[Pkt(t, n)] = tasks[Pkt(t, n)]
  BY <1>1 DEF OnlyTouches
<1>3. {a.type, b.type} \cap {"HEARTBEAT", "ASLEEP"} = {} => BeatTasksKept
  BY <1>2, TaskFacts DEF BeatTasksKept
<1>4. {a.type, b.type} \cap {"HANDSHAKE"} = {} => ShakeTasksKept
  BY <1>2, TaskFacts DEF ShakeTasksKept
<1>5. {a.type, b.type} \cap {"NAME_TAKEN", "RENAMED"} = {} => NameTasksKept
  BY <1>2, TaskFacts DEF NameTasksKept
<1>6. {a.type, b.type} \cap {"USER_LIST"} = {} => ListTasksKept
  BY <1>2, TaskFacts DEF ListTasksKept
<1> QED BY <1>3, <1>4, <1>5, <1>6

\* What the three changes to the tasks come to.
LEMMA TaskStarts ==
    ASSUME Types, NEW t, NEW n, Pkt(t, n) \in Task, Starts(Pkt(t, n))
    PROVE  /\ tasks' \in [Task -> Nat]
           /\ tasks[Pkt(t, n)]' = tasks[Pkt(t, n)] + 1
           /\ OnlyTouches(Pkt(t, n), Pkt(t, n))
BY DEF Types, TypeOK, Starts, OnlyTouches

\* A handler returns.
LEMMA TaskEnds ==
    ASSUME Types, NEW t, NEW n, Pkt(t, n) \in Task, Ends(Pkt(t, n))
    PROVE  /\ tasks' \in [Task -> Nat]
           /\ tasks[Pkt(t, n)]' + 1 = tasks[Pkt(t, n)]
           /\ OnlyTouches(Pkt(t, n), Pkt(t, n))
BY DEF Types, TypeOK, Ends, OnlyTouches

\* A handler goes on to its next part.
LEMMA TaskContinues ==
    ASSUME Types, NEW t, NEW u, t # u, Pkt(t, 0) \in Task, Pkt(u, 0) \in Task,
           Continues(Pkt(t, 0), Pkt(u, 0))
    PROVE  /\ tasks' \in [Task -> Nat]
           /\ tasks[Pkt(t, 0)]' + 1 = tasks[Pkt(t, 0)]
           /\ tasks[Pkt(u, 0)]' = tasks[Pkt(u, 0)] + 1
           /\ OnlyTouches(Pkt(t, 0), Pkt(u, 0))
<1>1. Pkt(t, 0) # Pkt(u, 0)
  BY PktInjective
<1>2. tasks \in [Task -> Nat]
  BY DEF Types, TypeOK
<1>3. tasks[Pkt(t, 0)] > 0 /\ tasks' = [tasks EXCEPT ![Pkt(t, 0)] = @ - 1, ![Pkt(u, 0)] = @ + 1]
  BY DEF Continues
<1>4. tasks' \in [Task -> Nat]
  BY <1>2, <1>3
<1>5. tasks[Pkt(t, 0)]' + 1 = tasks[Pkt(t, 0)] /\ tasks[Pkt(u, 0)]' = tasks[Pkt(u, 0)] + 1
  BY <1>1, <1>2, <1>3
<1>6. OnlyTouches(Pkt(t, 0), Pkt(u, 0))
  BY <1>2, <1>3 DEF OnlyTouches
<1> QED BY <1>4, <1>5, <1>6

\* handle_handshake: the distributor's number is answered with a request for a name ...
LEMMA HandshakeGoodKeepsInv ==
    ASSUME Inv, handle_handshake, Ends(Pkt("HANDSHAKE", "good")), enqueue_msg(Pkt("NEW_USER", username))
    PROVE  Inv'
<1>1. Types
  BY DEF Inv
<1>2. Numbers
  BY <1>1, TypesGiveNumbers
<1>3. /\ UNCHANGED <<outbox, retrieved, inbox, registered, greetings, socket, lists, overlapped,
                     remote_users, main, connected>>
      /\ Ends(Pkt("HANDSHAKE", "good"))
      /\ enqueue_msg(Pkt("NEW_USER", username))
  BY DEF handle_handshake, controlVars, netVars
<1>4. /\ tasks' \in [Task -> Nat]
      /\ tasks[Pkt("HANDSHAKE", "good")]' + 1 = tasks[Pkt("HANDSHAKE", "good")]
      /\ OnlyTouches(Pkt("HANDSHAKE", "good"), Pkt("HANDSHAKE", "good"))
  BY <1>1, <1>3, TaskFacts, TaskEnds
<1>5. BeatTasksKept /\ NameTasksKept /\ ListTasksKept
  <2>1. Pkt("HANDSHAKE", "good").type = "HANDSHAKE"
    BY DEF Pkt
  <2> QED BY <1>4, <2>1, UntouchedTasks
<1>6. tasks[Pkt("HANDSHAKE", "bad")]' = tasks[Pkt("HANDSHAKE", "bad")]
  <2>1. Pkt("HANDSHAKE", "bad") # Pkt("HANDSHAKE", "good")
    BY PktInjective
  <2> QED BY <1>4, <2>1, TaskFacts DEF OnlyTouches
<1>7. OutboxKept /\ ArrivingKept /\ Arriving' = Arriving
  BY <1>3, Kept
<1>8. /\ Count(send_buffer, "HEARTBEAT")' = Count(send_buffer, "HEARTBEAT")
      /\ Count(send_buffer, "HANDSHAKE")' = Count(send_buffer, "HANDSHAKE")
      /\ Count(send_buffer, "NEW_USER")' = Count(send_buffer, "NEW_USER") + 1
  <2>1. username \in Nat
    BY <1>1 DEF Types, TypeOK
  <2> QED BY <1>1, <1>3, <2>1, NameQueued
<1>9. Types'
  <2>1. send_buffer' \in Seq(OutPkt)
    BY <1>1, <1>3, NameQueued DEF Types, TypeOK
  <2>2. TypeOK'
    BY <1>1, <1>4 DEF Types, TypeOK, handle_handshake, controlVars, netVars
  <2> QED BY <1>1, <1>3, <2>1, <2>2 DEF Types
<1>10. Numbers'
  BY <1>9, TypesGiveNumbersNext
<1>11. Places'
  BY <1>3 DEF Inv, Places
<1>12. Heartbeats' = Heartbeats
  BY <1>2, <1>10, <1>7, <1>8, <1>5 DEF Heartbeats, Numbers, OutboxKept, ArrivingKept, BeatTasksKept
<1>13. Shaking' + 1 = Shaking
  <2>1. tasks[Pkt("HANDSHAKE", "good")]' + 1 = tasks[Pkt("HANDSHAKE", "good")]
    BY <1>4
  <2> QED BY <1>2, <1>10, <1>7, <1>8, <2>1, <1>6 DEF Shaking, Numbers, OutboxKept, ArrivingKept
<1>14. Asking' = Asking + 1
  BY <1>2, <1>10, <1>7, <1>8, <1>5 DEF Asking, Numbers, OutboxKept, ArrivingKept, NameTasksKept
<1>15. Beating'
  BY <1>3, <1>12 DEF Inv, Beating
<1>16. Naming'
  BY <1>2, <1>3, <1>8, <1>10, <1>13, <1>14, Ledgers DEF Inv, Naming, Numbers, Prospects
<1>17. Latest'
  BY <1>3, <1>5, <1>7, LatestKept
<1> QED BY <1>9, <1>11, <1>15, <1>16, <1>17 DEF Inv

\* ... and another number ends the daemon.
LEMMA HandshakeBadKeepsInv ==
    ASSUME Inv, handle_handshake, Ends(Pkt("HANDSHAKE", "bad")), UNCHANGED send_buffer
    PROVE  Inv'
<1>1. Types
  BY DEF Inv
<1>2. Numbers
  BY <1>1, TypesGiveNumbers
<1>3. /\ UNCHANGED <<outbox, retrieved, inbox, registered, greetings, socket, lists, overlapped,
                     remote_users, main, connected>>
      /\ Ends(Pkt("HANDSHAKE", "bad"))
      /\ UNCHANGED send_buffer
  BY DEF handle_handshake, controlVars, netVars
<1>4. /\ tasks' \in [Task -> Nat]
      /\ tasks[Pkt("HANDSHAKE", "bad")]' + 1 = tasks[Pkt("HANDSHAKE", "bad")]
      /\ OnlyTouches(Pkt("HANDSHAKE", "bad"), Pkt("HANDSHAKE", "bad"))
  BY <1>1, <1>3, TaskFacts, TaskEnds
<1>5. BeatTasksKept /\ NameTasksKept /\ ListTasksKept
  <2>1. Pkt("HANDSHAKE", "bad").type = "HANDSHAKE"
    BY DEF Pkt
  <2> QED BY <1>4, <2>1, UntouchedTasks
<1>6. tasks[Pkt("HANDSHAKE", "good")]' = tasks[Pkt("HANDSHAKE", "good")]
  <2>1. Pkt("HANDSHAKE", "good") # Pkt("HANDSHAKE", "bad")
    BY PktInjective
  <2> QED BY <1>4, <2>1, TaskFacts DEF OnlyTouches
<1>7. OutboxKept /\ ArrivingKept /\ Arriving' = Arriving
  BY <1>3, Kept
<1>8. BufferKept
  BY <1>3, Kept
<1>9. Types'
  <2>1. send_buffer' \in Seq(OutPkt)
    BY <1>1, <1>3 DEF Types
  <2>2. TypeOK'
    BY <1>1, <1>4 DEF Types, TypeOK, handle_handshake, controlVars, netVars
  <2> QED BY <1>1, <1>3, <2>1, <2>2 DEF Types
<1>10. Numbers'
  BY <1>9, TypesGiveNumbersNext
<1>11. Places'
  BY <1>3 DEF Inv, Places
<1>12. Heartbeats' = Heartbeats
  BY <1>2, <1>10, <1>7, <1>8, <1>5 DEF Heartbeats, Numbers, OutboxKept, ArrivingKept, BeatTasksKept, BufferKept
<1>13. Shaking' + 1 = Shaking
  <2>1. tasks[Pkt("HANDSHAKE", "bad")]' + 1 = tasks[Pkt("HANDSHAKE", "bad")]
    BY <1>4
  <2> QED BY <1>2, <1>10, <1>7, <1>8, <2>1, <1>6 DEF Shaking, Numbers, OutboxKept, ArrivingKept, BufferKept
<1>14. Asking' = Asking
  BY <1>2, <1>10, <1>7, <1>8, <1>5 DEF Asking, Numbers, OutboxKept, ArrivingKept, NameTasksKept, BufferKept
<1>15. Beating'
  BY <1>3, <1>12 DEF Inv, Beating
<1>16. Naming'
  BY <1>2, <1>3, <1>8, <1>10, <1>13, <1>14, Ledgers DEF Inv, Naming, Numbers, Prospects, BufferKept
<1>17. Latest'
  BY <1>3, <1>5, <1>7, LatestKept
<1> QED BY <1>9, <1>11, <1>15, <1>16, <1>17 DEF Inv

\* handle_heartbeat goes to sleep ...
LEMMA BeatArrivesKeepsInv ==
    ASSUME Inv, BeatArrives
    PROVE  Inv'
<1>1. Types
  BY DEF Inv
<1>2. Numbers
  BY <1>1, TypesGiveNumbers
<1>3. /\ UNCHANGED <<outbox, retrieved, inbox, registered, greetings, socket, lists, overlapped,
                     remote_users, main, connected>>
      /\ Continues(Pkt("HEARTBEAT", 0), Pkt("ASLEEP", 0))
      /\ UNCHANGED send_buffer
  BY DEF BeatArrives, controlVars, netVars
<1>4. /\ tasks' \in [Task -> Nat]
      /\ tasks[Pkt("HEARTBEAT", 0)]' + 1 = tasks[Pkt("HEARTBEAT", 0)]
      /\ tasks[Pkt("ASLEEP", 0)]' = tasks[Pkt("ASLEEP", 0)] + 1
      /\ OnlyTouches(Pkt("HEARTBEAT", 0), Pkt("ASLEEP", 0))
  BY <1>1, <1>3, TaskFacts, TaskContinues
<1>5. ShakeTasksKept /\ NameTasksKept /\ ListTasksKept
  <2>1. Pkt("HEARTBEAT", 0).type = "HEARTBEAT" /\ Pkt("ASLEEP", 0).type = "ASLEEP"
    BY DEF Pkt
  <2> QED BY <1>4, <2>1, UntouchedTasks
<1>7. OutboxKept /\ ArrivingKept /\ Arriving' = Arriving
  BY <1>3, Kept
<1>8. BufferKept
  BY <1>3, Kept
<1>9. Types'
  <2>1. send_buffer' \in Seq(OutPkt)
    BY <1>1, <1>3 DEF Types
  <2>2. TypeOK'
    BY <1>1, <1>4 DEF Types, TypeOK, BeatArrives, controlVars, netVars
  <2> QED BY <1>1, <1>3, <2>1, <2>2 DEF Types
<1>10. Numbers'
  BY <1>9, TypesGiveNumbersNext
<1>11. Places'
  BY <1>3 DEF Inv, Places
<1>12. Heartbeats' = Heartbeats
  <2>1. /\ tasks[Pkt("HEARTBEAT", 0)]' + 1 = tasks[Pkt("HEARTBEAT", 0)]
        /\ tasks[Pkt("ASLEEP", 0)]' = tasks[Pkt("ASLEEP", 0)] + 1
    BY <1>4
  <2> QED BY <1>2, <1>10, <1>7, <1>8, <2>1 DEF Heartbeats, Numbers, OutboxKept, ArrivingKept, BufferKept
<1>13. Shaking' = Shaking
  BY <1>2, <1>10, <1>7, <1>8, <1>5 DEF Shaking, Numbers, OutboxKept, ArrivingKept, ShakeTasksKept, BufferKept
<1>14. Asking' = Asking
  BY <1>2, <1>10, <1>7, <1>8, <1>5 DEF Asking, Numbers, OutboxKept, ArrivingKept, NameTasksKept, BufferKept
<1>15. Beating'
  BY <1>3, <1>12 DEF Inv, Beating
<1>16. Naming'
  BY <1>2, <1>3, <1>8, <1>10, <1>13, <1>14, Ledgers DEF Inv, Naming, Numbers, Prospects, BufferKept
<1>17. Latest'
  BY <1>3, <1>5, <1>7, LatestKept
<1> QED BY <1>9, <1>11, <1>15, <1>16, <1>17 DEF Inv

\* ... and returns the heartbeat.
LEMMA BeatReturnsKeepsInv ==
    ASSUME Inv, BeatReturns
    PROVE  Inv'
<1>1. Types
  BY DEF Inv
<1>2. Numbers
  BY <1>1, TypesGiveNumbers
<1>3. /\ UNCHANGED <<outbox, retrieved, inbox, registered, greetings, socket, lists, overlapped,
                     remote_users, main, connected>>
      /\ Ends(Pkt("ASLEEP", 0))
      /\ enqueue_msg(Pkt("HEARTBEAT", 0))
  BY DEF BeatReturns, controlVars, netVars
<1>4. /\ tasks' \in [Task -> Nat]
      /\ tasks[Pkt("ASLEEP", 0)]' + 1 = tasks[Pkt("ASLEEP", 0)]
      /\ OnlyTouches(Pkt("ASLEEP", 0), Pkt("ASLEEP", 0))
  BY <1>1, <1>3, TaskFacts, TaskEnds
<1>5. ShakeTasksKept /\ NameTasksKept /\ ListTasksKept
  <2>1. Pkt("ASLEEP", 0).type = "ASLEEP"
    BY DEF Pkt
  <2> QED BY <1>4, <2>1, UntouchedTasks
<1>6. tasks[Pkt("HEARTBEAT", 0)]' = tasks[Pkt("HEARTBEAT", 0)]
  <2>1. Pkt("HEARTBEAT", 0) # Pkt("ASLEEP", 0)
    BY PktInjective
  <2> QED BY <1>4, <2>1, TaskFacts DEF OnlyTouches
<1>7. OutboxKept /\ ArrivingKept /\ Arriving' = Arriving
  BY <1>3, Kept
<1>8. /\ Count(send_buffer, "HEARTBEAT")' = Count(send_buffer, "HEARTBEAT") + 1
      /\ Count(send_buffer, "HANDSHAKE")' = Count(send_buffer, "HANDSHAKE")
      /\ Count(send_buffer, "NEW_USER")' = Count(send_buffer, "NEW_USER")
  BY <1>1, <1>3, HeartbeatQueued
<1>9. Types'
  <2>1. send_buffer' \in Seq(OutPkt)
    BY <1>1, <1>3, HeartbeatQueued DEF Types
  <2>2. TypeOK'
    BY <1>1, <1>4 DEF Types, TypeOK, BeatReturns, controlVars, netVars
  <2> QED BY <1>1, <1>3, <2>1, <2>2 DEF Types
<1>10. Numbers'
  BY <1>9, TypesGiveNumbersNext
<1>11. Places'
  BY <1>3 DEF Inv, Places
<1>12. Heartbeats' = Heartbeats
  <2>1. tasks[Pkt("ASLEEP", 0)]' + 1 = tasks[Pkt("ASLEEP", 0)]
    BY <1>4
  <2> QED BY <1>2, <1>10, <1>7, <1>8, <2>1, <1>6 DEF Heartbeats, Numbers, OutboxKept, ArrivingKept
<1>13. Shaking' = Shaking
  BY <1>2, <1>10, <1>7, <1>8, <1>5 DEF Shaking, Numbers, OutboxKept, ArrivingKept, ShakeTasksKept
<1>14. Asking' = Asking
  BY <1>2, <1>10, <1>7, <1>8, <1>5 DEF Asking, Numbers, OutboxKept, ArrivingKept, NameTasksKept
<1>15. Beating'
  BY <1>3, <1>12 DEF Inv, Beating
<1>16. Naming'
  BY <1>2, <1>3, <1>8, <1>10, <1>13, <1>14, Ledgers DEF Inv, Naming, Numbers, Prospects
<1>17. Latest'
  BY <1>3, <1>5, <1>7, LatestKept
<1> QED BY <1>9, <1>11, <1>15, <1>16, <1>17 DEF Inv

\* handle_servmsg makes the name longer ...
LEMMA RenameKeepsInv ==
    ASSUME Inv, Rename
    PROVE  Inv'
<1>1. Types
  BY DEF Inv
<1>2. Numbers
  BY <1>1, TypesGiveNumbers
<1>3. /\ UNCHANGED <<outbox, retrieved, inbox, registered, greetings, socket, lists, overlapped,
                     remote_users, main, connected>>
      /\ Continues(Pkt("NAME_TAKEN", 0), Pkt("RENAMED", 0))
      /\ UNCHANGED send_buffer
  BY DEF Rename, controlVars, netVars
<1>4. /\ tasks' \in [Task -> Nat]
      /\ tasks[Pkt("NAME_TAKEN", 0)]' + 1 = tasks[Pkt("NAME_TAKEN", 0)]
      /\ tasks[Pkt("RENAMED", 0)]' = tasks[Pkt("RENAMED", 0)] + 1
      /\ OnlyTouches(Pkt("NAME_TAKEN", 0), Pkt("RENAMED", 0))
  BY <1>1, <1>3, TaskFacts, TaskContinues
<1>5. BeatTasksKept /\ ShakeTasksKept /\ ListTasksKept
  <2>1. Pkt("NAME_TAKEN", 0).type = "NAME_TAKEN" /\ Pkt("RENAMED", 0).type = "RENAMED"
    BY DEF Pkt
  <2> QED BY <1>4, <2>1, UntouchedTasks
<1>7. OutboxKept /\ ArrivingKept /\ Arriving' = Arriving
  BY <1>3, Kept
<1>8. BufferKept
  BY <1>3, Kept
<1>9. Types'
  <2>1. send_buffer' \in Seq(OutPkt)
    BY <1>1, <1>3 DEF Types
  <2>2. TypeOK'
    BY <1>1, <1>4 DEF Types, TypeOK, Rename, controlVars, netVars
  <2> QED BY <1>1, <1>3, <2>1, <2>2 DEF Types
<1>10. Numbers'
  BY <1>9, TypesGiveNumbersNext
<1>11. Places'
  BY <1>3 DEF Inv, Places
<1>12. Heartbeats' = Heartbeats
  BY <1>2, <1>10, <1>7, <1>8, <1>5 DEF Heartbeats, Numbers, OutboxKept, ArrivingKept, BeatTasksKept, BufferKept
<1>13. Shaking' = Shaking
  BY <1>2, <1>10, <1>7, <1>8, <1>5 DEF Shaking, Numbers, OutboxKept, ArrivingKept, ShakeTasksKept, BufferKept
<1>14. Asking' = Asking
  <2>1. /\ tasks[Pkt("NAME_TAKEN", 0)]' + 1 = tasks[Pkt("NAME_TAKEN", 0)]
        /\ tasks[Pkt("RENAMED", 0)]' = tasks[Pkt("RENAMED", 0)] + 1
    BY <1>4
  <2> QED BY <1>2, <1>10, <1>7, <1>8, <2>1 DEF Asking, Numbers, OutboxKept, ArrivingKept, BufferKept
<1>15. Beating'
  BY <1>3, <1>12 DEF Inv, Beating
<1>16. Naming'
  BY <1>2, <1>3, <1>8, <1>10, <1>13, <1>14, Ledgers DEF Inv, Naming, Numbers, Prospects, BufferKept
<1>17. Latest'
  BY <1>3, <1>5, <1>7, LatestKept
<1> QED BY <1>9, <1>11, <1>15, <1>16, <1>17 DEF Inv

\* ... and asks for it.
LEMMA AskAgainKeepsInv ==
    ASSUME Inv, AskAgain
    PROVE  Inv'
<1>1. Types
  BY DEF Inv
<1>2. Numbers
  BY <1>1, TypesGiveNumbers
<1>3. /\ UNCHANGED <<outbox, retrieved, inbox, registered, greetings, socket, lists, overlapped,
                     remote_users, main, connected>>
      /\ Ends(Pkt("RENAMED", 0))
      /\ enqueue_msg(Pkt("NEW_USER", username))
  BY DEF AskAgain, controlVars, netVars
<1>4. /\ tasks' \in [Task -> Nat]
      /\ tasks[Pkt("RENAMED", 0)]' + 1 = tasks[Pkt("RENAMED", 0)]
      /\ OnlyTouches(Pkt("RENAMED", 0), Pkt("RENAMED", 0))
  BY <1>1, <1>3, TaskFacts, TaskEnds
<1>5. BeatTasksKept /\ ShakeTasksKept /\ ListTasksKept
  <2>1. Pkt("RENAMED", 0).type = "RENAMED"
    BY DEF Pkt
  <2> QED BY <1>4, <2>1, UntouchedTasks
<1>6. tasks[Pkt("NAME_TAKEN", 0)]' = tasks[Pkt("NAME_TAKEN", 0)]
  <2>1. Pkt("NAME_TAKEN", 0) # Pkt("RENAMED", 0)
    BY PktInjective
  <2> QED BY <1>4, <2>1, TaskFacts DEF OnlyTouches
<1>7. OutboxKept /\ ArrivingKept /\ Arriving' = Arriving
  BY <1>3, Kept
<1>8. /\ Count(send_buffer, "HEARTBEAT")' = Count(send_buffer, "HEARTBEAT")
      /\ Count(send_buffer, "HANDSHAKE")' = Count(send_buffer, "HANDSHAKE")
      /\ Count(send_buffer, "NEW_USER")' = Count(send_buffer, "NEW_USER") + 1
  <2>1. username \in Nat
    BY <1>1 DEF Types, TypeOK
  <2> QED BY <1>1, <1>3, <2>1, NameQueued
<1>9. Types'
  <2>1. send_buffer' \in Seq(OutPkt)
    BY <1>1, <1>3, NameQueued DEF Types, TypeOK
  <2>2. TypeOK'
    BY <1>1, <1>4 DEF Types, TypeOK, AskAgain, controlVars, netVars
  <2> QED BY <1>1, <1>3, <2>1, <2>2 DEF Types
<1>10. Numbers'
  BY <1>9, TypesGiveNumbersNext
<1>11. Places'
  BY <1>3 DEF Inv, Places
<1>12. Heartbeats' = Heartbeats
  BY <1>2, <1>10, <1>7, <1>8, <1>5 DEF Heartbeats, Numbers, OutboxKept, ArrivingKept, BeatTasksKept
<1>13. Shaking' = Shaking
  BY <1>2, <1>10, <1>7, <1>8, <1>5 DEF Shaking, Numbers, OutboxKept, ArrivingKept, ShakeTasksKept
<1>14. Asking' = Asking
  <2>1. tasks[Pkt("RENAMED", 0)]' + 1 = tasks[Pkt("RENAMED", 0)]
    BY <1>4
  <2> QED BY <1>2, <1>10, <1>7, <1>8, <2>1, <1>6 DEF Asking, Numbers, OutboxKept, ArrivingKept
<1>15. Beating'
  BY <1>3, <1>12 DEF Inv, Beating
<1>16. Naming'
  BY <1>2, <1>3, <1>8, <1>10, <1>13, <1>14, Ledgers DEF Inv, Naming, Numbers, Prospects
<1>17. Latest'
  BY <1>3, <1>5, <1>7, LatestKept
<1> QED BY <1>9, <1>11, <1>15, <1>16, <1>17 DEF Inv

--------------------------------------------------------------------------------
(* What the handlers of user lists and the distributor do *)

\* The first packet leaves a list, and one more is added to it.
LEMMA ListsOfTail ==
    ASSUME NEW s \in Seq(InPkt), s # <<>>, NEW v
    PROVE  /\ HasNoList(s) => Head(s).type # "USER_LIST" /\ HasNoList(Tail(s))
           /\ EndsInList(s, v) => \/ EndsInList(Tail(s), v)
                                  \/ Head(s) = Pkt("USER_LIST", v) /\ HasNoList(Tail(s))
<1>1. /\ Len(s) \in Nat \ {0}
      /\ DOMAIN s = 1 .. Len(s)
      /\ DOMAIN Tail(s) = 1 .. (Len(s) - 1)
      /\ \A i \in 1 .. (Len(s) - 1) : Tail(s)[i] = s[i + 1]
      /\ Head(s) = s[1]
  BY LenProperties, HeadTailProperties, EmptySeq
<1>2. HasNoList(s) => Head(s).type # "USER_LIST" /\ HasNoList(Tail(s))
  BY <1>1 DEF HasNoList
<1>3. ASSUME EndsInList(s, v)
      PROVE  \/ EndsInList(Tail(s), v)
             \/ Head(s) = Pkt("USER_LIST", v) /\ HasNoList(Tail(s))
  <2>1. PICK i \in 1 .. Len(s) : /\ s[i] = Pkt("USER_LIST", v)
                                 /\ \A j \in 1 .. Len(s) : j > i => s[j].type # "USER_LIST"
    BY <1>1, <1>3 DEF EndsInList
  <2>2. CASE i = 1
    BY <1>1, <2>1, <2>2 DEF HasNoList
  <2>3. CASE i > 1
    <3>1. i - 1 \in 1 .. (Len(s) - 1) /\ Tail(s)[i - 1] = Pkt("USER_LIST", v)
      BY <1>1, <2>1, <2>3
    <3>2. \A j \in 1 .. (Len(s) - 1) : j > i - 1 => Tail(s)[j].type # "USER_LIST"
      BY <1>1, <2>1
    <3> QED BY <1>1, <3>1, <3>2 DEF EndsInList
  <2> QED BY <1>1, <2>1, <2>2, <2>3
<1> QED BY <1>2, <1>3

\* What one more packet does to the newest user list on its way.
LEMMA ListsOfAppend ==
    ASSUME NEW s \in Seq(InPkt), NEW x \in InPkt, NEW v
    PROVE  /\ x = Pkt("USER_LIST", v) => EndsInList(Append(s, x), v)
           /\ x.type # "USER_LIST" /\ HasNoList(s) => HasNoList(Append(s, x))
           /\ x.type # "USER_LIST" /\ EndsInList(s, v) => EndsInList(Append(s, x), v)
<1>1. /\ Len(s) \in Nat
      /\ DOMAIN s = 1 .. Len(s)
      /\ DOMAIN Append(s, x) = 1 .. (Len(s) + 1)
      /\ \A i \in 1 .. Len(s) : Append(s, x)[i] = s[i]
      /\ Append(s, x)[Len(s) + 1] = x
  BY LenProperties, AppendProperties
<1>2. x = Pkt("USER_LIST", v) => EndsInList(Append(s, x), v)
  BY <1>1 DEF EndsInList
<1>3. x.type # "USER_LIST" /\ HasNoList(s) => HasNoList(Append(s, x))
  BY <1>1 DEF HasNoList
<1>4. x.type # "USER_LIST" /\ EndsInList(s, v) => EndsInList(Append(s, x), v)
  BY <1>1 DEF EndsInList
<1> QED BY <1>2, <1>3, <1>4

\* handle_user_list shows the list.
LEMMA UserListKeepsInv ==
    ASSUME Inv, NEW v \in 1 .. MaxLists, handle_user_list(v)
    PROVE  Inv'
<1>1. Types /\ Pkt("USER_LIST", v) \in Task
  BY TaskFacts DEF Inv
<1>2. /\ UNCHANGED <<send_buffer, outbox, retrieved, inbox, registered, greetings, socket, lists,
                     overlapped, main, connected>>
      /\ Ends(Pkt("USER_LIST", v))
      /\ remote_users' = v
  BY DEF handle_user_list, netVars
<1>3. /\ tasks' \in [Task -> Nat]
      /\ tasks[Pkt("USER_LIST", v)]' + 1 = tasks[Pkt("USER_LIST", v)]
      /\ OnlyTouches(Pkt("USER_LIST", v), Pkt("USER_LIST", v))
  BY <1>1, <1>2, TaskEnds
<1>4. BeatTasksKept /\ ShakeTasksKept /\ NameTasksKept
  <2>1. Pkt("USER_LIST", v).type = "USER_LIST"
    BY DEF Pkt
  <2> QED BY <1>3, <2>1, UntouchedTasks
<1>5. Types'
  <2>1. TypeOK'
    BY <1>1, <1>3, BoundAssumption DEF Types, TypeOK, handle_user_list, controlVars, netVars
  <2> QED BY <1>1, <1>2, <2>1 DEF Types
<1>6. Places'
  BY <1>2 DEF Inv, Places
<1>7. Heartbeats' = Heartbeats /\ Prospects' = Prospects /\ BufferKept /\ Arriving' = Arriving
  BY <1>2, <1>4, Kept, LedgersKept DEF Prospects
<1>8. Beating'
  BY <1>2, <1>7 DEF Inv, Beating
<1>9. Naming'
  BY <1>2, <1>7 DEF Inv, Naming, BufferKept
<1>10. Latest'
  <2> SUFFICES ASSUME ~overlapped PROVE Latest'
    BY <1>2 DEF Latest
  <2>1. Listing(v) /\ tasks[Pkt("USER_LIST", v)] \in Nat
    BY <1>1, <1>2 DEF Ends, Listing, Types, TypeOK
  <2>2. \A w \in 1 .. MaxLists : w # v => ~Listing(w)
    BY <2>1 DEF Inv, Latest
  <2>3. tasks[Pkt("USER_LIST", v)] <= 1
    BY DEF Inv, Latest
  <2>4. tasks[Pkt("USER_LIST", v)]' = 0
    <3>1. tasks'[Pkt("USER_LIST", v)] \in Nat
      BY <1>1, <1>3
    <3> QED BY <1>3, <2>1, <2>3, <3>1
  <2>5. \A w \in 1 .. MaxLists : tasks[Pkt("USER_LIST", w)]' = 0
    <3> SUFFICES ASSUME NEW w \in 1 .. MaxLists, w # v PROVE tasks[Pkt("USER_LIST", w)]' = 0
      BY <2>4
    <3>1. Pkt("USER_LIST", w) # Pkt("USER_LIST", v) /\ Pkt("USER_LIST", w) \in Task
      BY PktInjective, TaskFacts
    <3>2. tasks[Pkt("USER_LIST", w)]' = tasks[Pkt("USER_LIST", w)]
      BY <1>3, <3>1 DEF OnlyTouches
    <3>3. tasks[Pkt("USER_LIST", w)] \in Nat
      BY <1>1, <3>1 DEF Types, TypeOK
    <3> QED BY <2>2, <3>2, <3>3 DEF Listing
  <2>6. \A w \in 1 .. MaxLists : ~Listing(w)'
    BY <2>5 DEF Listing
  <2>7. socket \in {"none", "up"} =>
            \/ EndsInList(Arriving, lists)
            \/ HasNoList(Arriving) /\ lists = v
    BY <2>1, <2>2 DEF Inv, Latest
  <2> QED BY <1>2, <1>7, <2>5, <2>6, <2>7 DEF Latest
<1> QED BY <1>5, <1>6, <1>8, <1>9, <1>10 DEF Inv

\* A packet of type u leaves those on their way.
Handed(u) ==
    /\ Plus(Count(Arriving, "HEARTBEAT"), Count(Arriving, "HEARTBEAT")', u, "HEARTBEAT")
    /\ Plus(Count(Arriving, "HANDSHAKE"), Count(Arriving, "HANDSHAKE")', u, "HANDSHAKE")
    /\ Plus(Count(Arriving, "NAME_TAKEN"), Count(Arriving, "NAME_TAKEN")', u, "NAME_TAKEN")

\* A packet handed over is one less on its way.
LEMMA DispatchCounts ==
    ASSUME Types, retrieved # <<>>, retrieved' = Tail(retrieved), inbox' = inbox,
           NEW u, Head(retrieved).type = u
    PROVE  Handed(u)
<1>1. Arriving \in Seq(InPkt) /\ Arriving # <<>> /\ Head(Arriving).type = u /\ Arriving' = Tail(Arriving)
  BY ArrivingType, DispatchTakesFirst
<1>2. \A t : Plus(Count(Arriving, t), Count(Tail(Arriving), t), u, t)
  BY <1>1, CountTailPlus
<1> QED BY <1>1, <1>2 DEF Handed

\* What poll_network keeps when it hands a packet over.
Handing ==
    /\ main = "dispatch"
    /\ retrieved # <<>>
    /\ retrieved' = Tail(retrieved)
    /\ UNCHANGED <<running, cli, connect_signal, commands, late, username, remote_users, socket,
                   outbox, inbox, registered, lists, main, connected, send_buffer, greetings>>

\* What every case of the dispatch has in common.
LEMMA HandingFacts ==
    ASSUME Inv, Handing, tasks' \in [Task -> Nat], overlapped' \in BOOLEAN
    PROVE  /\ Types' /\ Numbers /\ Numbers'
           /\ Places'
           /\ BufferKept /\ OutboxKept
           /\ Arriving \in Seq(InPkt) /\ Arriving # <<>>
           /\ Head(Arriving) = Head(retrieved) /\ Head(retrieved) \in InPkt
           /\ Arriving' = Tail(Arriving)
<1>1. Types /\ Numbers
  BY TypesGiveNumbers DEF Inv
<1>2. /\ retrieved' \in Seq(InPkt)
      /\ Arriving \in Seq(InPkt) /\ Arriving # <<>>
      /\ Head(Arriving) = Head(retrieved) /\ Head(retrieved) \in InPkt
      /\ Arriving' = Tail(Arriving)
  BY <1>1, ArrivingType, DispatchTakesFirst DEF Handing
<1>3. TypeOK'
  BY <1>1 DEF Types, TypeOK, Handing
<1>4. Types'
  BY <1>1, <1>2, <1>3 DEF Types, Handing
<1>5. Places'
  BY DEF Inv, Places, Handing
<1>6. BufferKept /\ OutboxKept
  BY Kept DEF Handing
<1> QED BY <1>1, <1>2, <1>4, <1>5, <1>6, TypesGiveNumbersNext

\* A packet that is no user list does not change which list is the latest.
LEMMA HandingKeepsLatest ==
    ASSUME Inv, Handing, Arriving \in Seq(InPkt), Arriving # <<>>, Arriving' = Tail(Arriving),
           Head(Arriving).type # "USER_LIST", ListTasksKept, overlapped' = overlapped
    PROVE  Latest'
<1>1. HasNoList(Arriving) => HasNoList(Arriving)'
  BY ListsOfTail DEF HasNoList
<1>2. EndsInList(Arriving, lists) => EndsInList(Arriving, lists)'
  <2> SUFFICES ASSUME EndsInList(Arriving, lists) PROVE EndsInList(Arriving', lists')
    BY DEF EndsInList
  <2>1. Head(Arriving) # Pkt("USER_LIST", lists)
    BY DEF Pkt
  <2>2. EndsInList(Tail(Arriving), lists)
    BY <2>1, ListsOfTail
  <2> QED BY <2>2 DEF Handing
<1>3. \A v \in 1 .. MaxLists : Listing(v)' <=> Listing(v)
  BY DEF ListTasksKept, Listing
<1>4. UNCHANGED <<lists, remote_users, socket>>
  BY DEF Handing
<1>5. CASE overlapped
  BY <1>5 DEF Latest
<1>6. CASE ~overlapped
  <2>1. /\ \A v, w \in 1 .. MaxLists : Listing(v)' /\ Listing(w)' => v = w
        /\ \A v \in 1 .. MaxLists : tasks'[Pkt("USER_LIST", v)] <= 1
    BY <1>3, <1>6 DEF Inv, Latest, ListTasksKept
  <2>2. socket \in {"none", "up"} =>
            \/ EndsInList(Arriving, lists)'
            \/ HasNoList(Arriving)' /\ lists \in 1 .. MaxLists /\ Listing(lists)
            \/ /\ HasNoList(Arriving)'
               /\ \A v \in 1 .. MaxLists : ~Listing(v)'
               /\ remote_users = lists
    BY <1>1, <1>2, <1>3, <1>6 DEF Inv, Latest
  <2>3. lists \in 1 .. MaxLists /\ Listing(lists) => Listing(lists)'
    BY <1>4 DEF ListTasksKept, Listing
  <2> QED BY <1>4, <2>1, <2>2, <2>3 DEF Latest
<1> QED BY <1>5, <1>6

\* One more task k, and no other.
TaskAdded(k) ==
    /\ tasks[k]' = tasks[k] + 1
    /\ OnlyTouches(k, k)

\* poll_network starts handle_heartbeat ...
LEMMA HeartbeatHanded ==
    ASSUME Numbers, Numbers', BufferKept, OutboxKept, Handed("HEARTBEAT"), TaskAdded(Pkt("HEARTBEAT", 0))
    PROVE  /\ Heartbeats' = Heartbeats /\ Prospects' = Prospects
           /\ ListTasksKept
<1>1. Pkt("HEARTBEAT", 0).type = "HEARTBEAT"
  BY DEF Pkt
<1>2. ShakeTasksKept /\ NameTasksKept /\ ListTasksKept
  BY <1>1, UntouchedTasks DEF TaskAdded
<1>3. tasks[Pkt("ASLEEP", 0)]' = tasks[Pkt("ASLEEP", 0)]
  <2>1. Pkt("ASLEEP", 0) # Pkt("HEARTBEAT", 0)
    BY PktInjective
  <2> QED BY <2>1, TaskFacts DEF TaskAdded, OnlyTouches
<1>4. /\ Count(Arriving, "HEARTBEAT")' + 1 = Count(Arriving, "HEARTBEAT")
      /\ Count(Arriving, "HANDSHAKE")' = Count(Arriving, "HANDSHAKE")
      /\ Count(Arriving, "NAME_TAKEN")' = Count(Arriving, "NAME_TAKEN")
  BY DEF Handed, Plus
<1>5. tasks[Pkt("HEARTBEAT", 0)]' = tasks[Pkt("HEARTBEAT", 0)] + 1
  BY DEF TaskAdded
<1>6. Heartbeats' = Heartbeats
  BY <1>3, <1>4, <1>5 DEF Heartbeats, Numbers, BufferKept, OutboxKept
<1>7. Shaking' = Shaking
  BY <1>2, <1>4 DEF Shaking, BufferKept, OutboxKept, ShakeTasksKept
<1>8. Asking' = Asking
  BY <1>2, <1>4 DEF Asking, BufferKept, OutboxKept, NameTasksKept
<1> QED BY <1>2, <1>6, <1>7, <1>8 DEF Prospects

\* ... handle_handshake, with the distributor's number ...
LEMMA GoodHandshakeHanded ==
    ASSUME Numbers, Numbers', BufferKept, OutboxKept, Handed("HANDSHAKE"), TaskAdded(Pkt("HANDSHAKE", "good"))
    PROVE  /\ Heartbeats' = Heartbeats /\ Prospects' = Prospects
           /\ ListTasksKept
<1>1. Pkt("HANDSHAKE", "good").type = "HANDSHAKE"
  BY DEF Pkt
<1>2. BeatTasksKept /\ NameTasksKept /\ ListTasksKept
  BY <1>1, UntouchedTasks DEF TaskAdded
<1>3. tasks[Pkt("HANDSHAKE", "bad")]' = tasks[Pkt("HANDSHAKE", "bad")]
  <2>1. Pkt("HANDSHAKE", "bad") # Pkt("HANDSHAKE", "good")
    BY PktInjective
  <2> QED BY <2>1, TaskFacts DEF TaskAdded, OnlyTouches
<1>4. /\ Count(Arriving, "HEARTBEAT")' = Count(Arriving, "HEARTBEAT")
      /\ Count(Arriving, "HANDSHAKE")' + 1 = Count(Arriving, "HANDSHAKE")
      /\ Count(Arriving, "NAME_TAKEN")' = Count(Arriving, "NAME_TAKEN")
  BY DEF Handed, Plus
<1>5. tasks[Pkt("HANDSHAKE", "good")]' = tasks[Pkt("HANDSHAKE", "good")] + 1
  BY DEF TaskAdded
<1>6. Heartbeats' = Heartbeats
  BY <1>2, <1>4 DEF Heartbeats, BufferKept, OutboxKept, BeatTasksKept
<1>7. Shaking' = Shaking
  BY <1>3, <1>4, <1>5 DEF Shaking, Numbers, BufferKept, OutboxKept
<1>8. Asking' = Asking
  BY <1>2, <1>4 DEF Asking, BufferKept, OutboxKept, NameTasksKept
<1> QED BY <1>2, <1>6, <1>7, <1>8 DEF Prospects

\* ... and with another ...
LEMMA BadHandshakeHanded ==
    ASSUME Numbers, Numbers', BufferKept, OutboxKept, Handed("HANDSHAKE"), TaskAdded(Pkt("HANDSHAKE", "bad"))
    PROVE  /\ Heartbeats' = Heartbeats /\ Prospects' = Prospects
           /\ ListTasksKept
<1>1. Pkt("HANDSHAKE", "bad").type = "HANDSHAKE"
  BY DEF Pkt
<1>2. BeatTasksKept /\ NameTasksKept /\ ListTasksKept
  BY <1>1, UntouchedTasks DEF TaskAdded
<1>3. tasks[Pkt("HANDSHAKE", "good")]' = tasks[Pkt("HANDSHAKE", "good")]
  <2>1. Pkt("HANDSHAKE", "good") # Pkt("HANDSHAKE", "bad")
    BY PktInjective
  <2> QED BY <2>1, TaskFacts DEF TaskAdded, OnlyTouches
<1>4. /\ Count(Arriving, "HEARTBEAT")' = Count(Arriving, "HEARTBEAT")
      /\ Count(Arriving, "HANDSHAKE")' + 1 = Count(Arriving, "HANDSHAKE")
      /\ Count(Arriving, "NAME_TAKEN")' = Count(Arriving, "NAME_TAKEN")
  BY DEF Handed, Plus
<1>5. tasks[Pkt("HANDSHAKE", "bad")]' = tasks[Pkt("HANDSHAKE", "bad")] + 1
  BY DEF TaskAdded
<1>6. Heartbeats' = Heartbeats
  BY <1>2, <1>4 DEF Heartbeats, BufferKept, OutboxKept, BeatTasksKept
<1>7. Shaking' = Shaking
  BY <1>3, <1>4, <1>5 DEF Shaking, Numbers, BufferKept, OutboxKept
<1>8. Asking' = Asking
  BY <1>2, <1>4 DEF Asking, BufferKept, OutboxKept, NameTasksKept
<1> QED BY <1>2, <1>6, <1>7, <1>8 DEF Prospects

\* ... handle_servmsg for a name that is taken ...
LEMMA NameTakenHanded ==
    ASSUME Numbers, Numbers', BufferKept, OutboxKept, Handed("NAME_TAKEN"), TaskAdded(Pkt("NAME_TAKEN", 0))
    PROVE  /\ Heartbeats' = Heartbeats /\ Prospects' = Prospects
           /\ ListTasksKept
<1>1. Pkt("NAME_TAKEN", 0).type = "NAME_TAKEN"
  BY DEF Pkt
<1>2. BeatTasksKept /\ ShakeTasksKept /\ ListTasksKept
  BY <1>1, UntouchedTasks DEF TaskAdded
<1>3. tasks[Pkt("RENAMED", 0)]' = tasks[Pkt("RENAMED", 0)]
  <2>1. Pkt("RENAMED", 0) # Pkt("NAME_TAKEN", 0)
    BY PktInjective
  <2> QED BY <2>1, TaskFacts DEF TaskAdded, OnlyTouches
<1>4. /\ Count(Arriving, "HEARTBEAT")' = Count(Arriving, "HEARTBEAT")
      /\ Count(Arriving, "HANDSHAKE")' = Count(Arriving, "HANDSHAKE")
      /\ Count(Arriving, "NAME_TAKEN")' + 1 = Count(Arriving, "NAME_TAKEN")
  BY DEF Handed, Plus
<1>5. tasks[Pkt("NAME_TAKEN", 0)]' = tasks[Pkt("NAME_TAKEN", 0)] + 1
  BY DEF TaskAdded
<1>6. Heartbeats' = Heartbeats
  BY <1>2, <1>4 DEF Heartbeats, BufferKept, OutboxKept, BeatTasksKept
<1>7. Shaking' = Shaking
  BY <1>2, <1>4 DEF Shaking, BufferKept, OutboxKept, ShakeTasksKept
<1>8. Asking' = Asking
  BY <1>3, <1>4, <1>5 DEF Asking, Numbers, BufferKept, OutboxKept
<1> QED BY <1>2, <1>6, <1>7, <1>8 DEF Prospects

\* None of these changes a ledger or the lists.
LEMMA HandTaskKeepsInv ==
    ASSUME Inv, Handing, NEW u, NEW n, Head(retrieved) = Pkt(u, n),
           Pkt(u, n) \in {Pkt("HEARTBEAT", 0), Pkt("HANDSHAKE", "good"), Pkt("HANDSHAKE", "bad"),
                          Pkt("NAME_TAKEN", 0)},
           Starts(Pkt(u, n)), overlapped' = overlapped
    PROVE  Inv'
<1>1. Types /\ Pkt(u, n) \in Task /\ Pkt(u, n).type = u
  BY TaskFacts DEF Inv, Pkt
<1>2. tasks' \in [Task -> Nat] /\ TaskAdded(Pkt(u, n))
  BY <1>1, TaskStarts DEF TaskAdded
<1>3. overlapped' \in BOOLEAN
  BY DEF Inv, Types
<1>4. /\ Types' /\ Places'
      /\ Arriving \in Seq(InPkt) /\ Arriving # <<>>
      /\ Head(Arriving) = Head(retrieved)
      /\ Arriving' = Tail(Arriving)
  BY <1>2, <1>3, HandingFacts
<1>5. Numbers /\ Numbers' /\ BufferKept /\ OutboxKept
  BY <1>2, <1>3, HandingFacts
<1>6. Handed(u)
  BY <1>1, DispatchCounts DEF Handing
<1>7. Heartbeats' = Heartbeats /\ Prospects' = Prospects /\ ListTasksKept
  BY <1>2, <1>5, <1>6, PktInjective, HeartbeatHanded, GoodHandshakeHanded, BadHandshakeHanded,
     NameTakenHanded
<1>8. Beating'
  BY <1>7 DEF Inv, Beating, Handing
<1>9. Naming'
  BY <1>5, <1>7 DEF Inv, Naming, BufferKept, Handing
<1>10. Latest'
  <2>1. u # "USER_LIST"
    BY PktInjective
  <2> QED BY <1>1, <1>4, <1>7, <2>1, HandingKeepsLatest
<1> QED BY <1>4, <1>8, <1>9, <1>10 DEF Inv

\* ... the handlers that only print ...
LEMMA HandMessageKeepsInv ==
    ASSUME Inv, Handing, Head(retrieved).type \in {"SUCCESS", "USER_NOT_FOUND"},
           UNCHANGED <<tasks, overlapped>>
    PROVE  Inv'
<1>1. Types
  BY DEF Inv
<1>2. tasks' \in [Task -> Nat] /\ overlapped' \in BOOLEAN
  BY <1>1 DEF Types, TypeOK
<1>3. /\ Types' /\ Places' /\ BufferKept /\ OutboxKept
      /\ Arriving \in Seq(InPkt) /\ Arriving # <<>>
      /\ Head(Arriving) = Head(retrieved)
      /\ Arriving' = Tail(Arriving)
  BY <1>2, HandingFacts
<1>4. Numbers /\ Numbers'
  BY <1>2, HandingFacts
<1>5. Handed(Head(retrieved).type)
  BY <1>1, DispatchCounts DEF Handing
<1>6. ArrivingKept
  BY <1>5 DEF Handed, Plus, ArrivingKept
<1>7. Heartbeats' = Heartbeats /\ Prospects' = Prospects /\ ListTasksKept
  BY <1>3, <1>6, Kept, LedgersKept DEF Prospects
<1>8. Beating'
  BY <1>7 DEF Inv, Beating, Handing
<1>9. Naming'
  BY <1>3, <1>7 DEF Inv, Naming, Handing, BufferKept
<1>10. Latest'
  BY <1>3, <1>7, HandingKeepsLatest
<1> QED BY <1>3, <1>8, <1>9, <1>10 DEF Inv

\* ... and handle_user_list, for which the overlap is noted.
LEMMA HandUserListKeepsInv ==
    ASSUME Inv, Handing, NEW v \in 1 .. MaxLists, Head(retrieved) = Pkt("USER_LIST", v),
           Starts(Pkt("USER_LIST", v)),
           overlapped' = (overlapped \/ \E w \in 1 .. MaxLists : tasks[Pkt("USER_LIST", w)] > 0)
    PROVE  Inv'
<1>1. Types /\ Pkt("USER_LIST", v) \in Task
  BY TaskFacts DEF Inv
<1>2. /\ tasks' \in [Task -> Nat]
      /\ tasks[Pkt("USER_LIST", v)]' = tasks[Pkt("USER_LIST", v)] + 1
      /\ OnlyTouches(Pkt("USER_LIST", v), Pkt("USER_LIST", v))
  BY <1>1, TaskStarts
<1>3. Pkt("USER_LIST", v).type = "USER_LIST"
  BY DEF Pkt
<1>4. BeatTasksKept /\ ShakeTasksKept /\ NameTasksKept
  BY <1>2, <1>3, UntouchedTasks
<1>5. overlapped' \in BOOLEAN
  BY <1>1 DEF Types
<1>6. /\ Types' /\ Places' /\ BufferKept /\ OutboxKept
      /\ Arriving \in Seq(InPkt) /\ Arriving # <<>>
      /\ Head(Arriving) = Head(retrieved)
      /\ Arriving' = Tail(Arriving)
  BY <1>2, <1>5, HandingFacts
<1>7. Numbers /\ Numbers'
  BY <1>2, <1>5, HandingFacts
<1>8. Handed("USER_LIST")
  BY <1>1, <1>3, DispatchCounts DEF Handing
<1>9. ArrivingKept
  BY <1>8 DEF Handed, Plus, ArrivingKept
<1>10. Heartbeats' = Heartbeats /\ Prospects' = Prospects
  BY <1>4, <1>6, <1>9, LedgersKept DEF Prospects
<1>11. Beating'
  BY <1>10 DEF Inv, Beating, Handing
<1>12. Naming'
  BY <1>6, <1>10 DEF Inv, Naming, Handing, BufferKept
<1>13. Latest'
  <2> SUFFICES ASSUME ~overlapped' PROVE Latest'
    BY DEF Latest
  <2>1. ~overlapped /\ \A w \in 1 .. MaxLists : ~Listing(w)
    BY DEF Listing
  <2>2. \A w \in 1 .. MaxLists : tasks[Pkt("USER_LIST", w)] = 0
    <3> SUFFICES ASSUME NEW w \in 1 .. MaxLists PROVE tasks[Pkt("USER_LIST", w)] = 0
      OBVIOUS
    <3>1. tasks[Pkt("USER_LIST", w)] \in Nat
      BY <1>1, TaskFacts DEF Types, TypeOK
    <3> QED BY <2>1, <3>1 DEF Listing
  <2>3. \A w \in 1 .. MaxLists : tasks'[Pkt("USER_LIST", w)] = IF w = v THEN 1 ELSE 0
    <3> SUFFICES ASSUME NEW w \in 1 .. MaxLists
                 PROVE  tasks'[Pkt("USER_LIST", w)] = IF w = v THEN 1 ELSE 0
      OBVIOUS
    <3>1. CASE w = v
      <4>1. tasks[Pkt("USER_LIST", v)]' = 0 + 1
        BY <1>2, <2>2
      <4> QED BY <3>1, <4>1
    <3>2. CASE w # v
      <4>1. Pkt("USER_LIST", w) # Pkt("USER_LIST", v) /\ Pkt("USER_LIST", w) \in Task
        BY <3>2, PktInjective, TaskFacts
      <4> QED BY <1>2, <2>2, <3>2, <4>1 DEF OnlyTouches
    <3> QED BY <3>1, <3>2
  <2>4. /\ \A w \in 1 .. MaxLists : Listing(w)' <=> w = v
        /\ \A w \in 1 .. MaxLists : tasks'[Pkt("USER_LIST", w)] <= 1
    BY <2>3 DEF Listing
  <2>5. socket' \in {"none", "up"} =>
            EndsInList(Arriving, lists)' \/ (HasNoList(Arriving)' /\ lists' = v)
    <3> SUFFICES ASSUME socket' \in {"none", "up"}
                 PROVE  EndsInList(Arriving', lists') \/ (HasNoList(Arriving') /\ lists' = v)
      BY DEF EndsInList, HasNoList
    <3>1. ~HasNoList(Arriving)
      BY <1>3, <1>6, ListsOfTail
    <3>2. EndsInList(Arriving, lists)
      BY <2>1, <3>1 DEF Inv, Latest, Handing
    <3>3. \/ EndsInList(Tail(Arriving), lists)
          \/ Pkt("USER_LIST", v) = Pkt("USER_LIST", lists) /\ HasNoList(Tail(Arriving))
      BY <1>6, <3>2, ListsOfTail
    <3> QED BY <1>6, <3>3, PktInjective DEF Handing
  <2>6. lists' = v => lists' \in 1 .. MaxLists /\ Listing(lists)'
    BY <2>3 DEF Listing
  <2> QED BY <2>4, <2>5, <2>6 DEF Latest
<1> QED BY <1>6, <1>11, <1>12, <1>13 DEF Inv

\* poll_network is one of these, or leaves the loop.
LEMMA PollNetworkKeepsInv ==
    ASSUME Inv, poll_network
    PROVE  Inv'
<1>1. Types
  BY DEF Inv
<1>2. CASE retrieved = <<>> /\ main' = "flush" /\ UNCHANGED <<tasks, overlapped, retrieved>>
  <2>1. /\ UNCHANGED <<send_buffer, outbox, tasks, registered, lists, greetings, overlapped,
                       remote_users, socket, retrieved, inbox>>
        /\ main # "beat" /\ main' # "beat"
    BY <1>2 DEF poll_network, netVars
  <2>2. TypeOK' /\ Places'
    BY <1>2 DEF Inv, Types, TypeOK, Places, poll_network, controlVars, netVars
  <2>3. retrieved' \in Seq(InPkt) /\ inbox' \in Seq(InPkt) /\ Arriving' = Arriving
    BY <1>1, <2>1 DEF Types, Arriving
  <2> QED BY <2>1, <2>2, <2>3, QuietStep
<1>3. CASE Handing /\ Dispatch(Head(retrieved))
  <2>1. Head(retrieved) \in InPkt
    BY <1>1, <1>3, DispatchTakesFirst DEF Handing
  <2>2. CASE Head(retrieved).type \in {"SUCCESS", "USER_NOT_FOUND"}
    <3>1. Head(retrieved) \notin Task
      BY <2>1, <2>2, PacketFacts
    <3>2. UNCHANGED <<tasks, overlapped>>
      BY <1>3, <3>1 DEF Dispatch
    <3> QED BY <1>3, <2>2, <3>2, HandMessageKeepsInv
  <2>3. CASE Head(retrieved).type \notin {"SUCCESS", "USER_NOT_FOUND"}
    <3>1. /\ Starts(Head(retrieved))
          /\ overlapped' = (overlapped \/ (/\ Head(retrieved).type = "USER_LIST"
                                           /\ \E w \in 1 .. MaxLists :
                                                 tasks[Pkt("USER_LIST", w)] > 0))
      BY <1>3, <2>3 DEF Dispatch
    <3>2. CASE Head(retrieved).type = "USER_LIST"
      <4>1. PICK v \in 1 .. MaxLists : Head(retrieved) = Pkt("USER_LIST", v)
        BY <2>1, <3>2, PacketFacts
      <4> QED BY <1>3, <3>1, <3>2, <4>1, HandUserListKeepsInv
    <3>3. CASE Head(retrieved).type # "USER_LIST"
      <4>1. overlapped' = overlapped
        BY <1>1, <3>1, <3>3 DEF Types
      <4>2. \/ Head(retrieved) = Pkt("HEARTBEAT", 0)
            \/ Head(retrieved) = Pkt("HANDSHAKE", "good")
            \/ Head(retrieved) = Pkt("HANDSHAKE", "bad")
            \/ Head(retrieved) = Pkt("NAME_TAKEN", 0)
        BY <2>1, <2>3, <3>3, PacketFacts
      <4> QED BY <1>3, <3>1, <4>1, <4>2, HandTaskKeepsInv
    <3> QED BY <3>2, <3>3
  <2> QED BY <2>2, <2>3
<1> QED BY <1>2, <1>3 DEF poll_network, Handing, controlVars, netVars

--------------------------------------------------------------------------------
(* The distributor *)

\* What Serve keeps when it takes a packet.
Serving ==
    /\ socket = "up"
    /\ outbox # <<>>
    /\ outbox' = Tail(outbox)
    /\ UNCHANGED <<running, cli, connect_signal, commands, late, username, remote_users, tasks,
                   overlapped, socket, main, connected, send_buffer, retrieved, greetings>>

\* What every answer of the distributor has in common.
LEMMA ServingFacts ==
    ASSUME Inv, Serving, inbox' \in Seq(InPkt), registered' \subseteq Nat,
           IsFiniteSet(registered'), lists' \in 0 .. MaxLists
    PROVE  /\ Types' /\ Places'
           /\ Numbers /\ Numbers'
           /\ BufferKept /\ BeatTasksKept /\ ShakeTasksKept /\ NameTasksKept /\ ListTasksKept
<1>1. Types /\ Numbers
  BY TypesGiveNumbers DEF Inv
<1>2. outbox' \in Seq(OutPkt)
  BY <1>1, HeadTailProperties DEF Types, Serving
<1>3. TypeOK'
  BY <1>1 DEF Types, TypeOK, Serving
<1>4. Types'
  BY <1>1, <1>2, <1>3 DEF Types, Serving
<1>5. Places'
  BY DEF Inv, Places, Serving
<1>6. BufferKept /\ BeatTasksKept /\ ShakeTasksKept /\ NameTasksKept /\ ListTasksKept
  BY Kept DEF Serving
<1> QED BY <1>1, <1>4, <1>5, <1>6, TypesGiveNumbersNext

\* A packet of type u leaves those sent ...
Taken(u) ==
    /\ Plus(Count(outbox, "HEARTBEAT"), Count(outbox, "HEARTBEAT")', u, "HEARTBEAT")
    /\ Plus(Count(outbox, "HANDSHAKE"), Count(outbox, "HANDSHAKE")', u, "HANDSHAKE")
    /\ Plus(Count(outbox, "NEW_USER"), Count(outbox, "NEW_USER")', u, "NEW_USER")

\* A packet served is one less on its way to the distributor.
LEMMA ServeCounts ==
    ASSUME Types, Serving, NEW u, Head(outbox).type = u
    PROVE  Taken(u)
<1>1. outbox \in Seq(OutPkt) /\ outbox # <<>> /\ outbox' = Tail(outbox)
  BY DEF Types, Serving
<1>2. \A t : Plus(Count(outbox, t), Count(Tail(outbox), t), u, t)
  BY <1>1, CountTailPlus
<1> QED BY <1>1, <1>2 DEF Taken

\* ... and one of type u joins those on their way back.
Answered(u) ==
    /\ Plus(Count(Arriving, "HEARTBEAT")', Count(Arriving, "HEARTBEAT"), u, "HEARTBEAT")
    /\ Plus(Count(Arriving, "HANDSHAKE")', Count(Arriving, "HANDSHAKE"), u, "HANDSHAKE")
    /\ Plus(Count(Arriving, "NAME_TAKEN")', Count(Arriving, "NAME_TAKEN"), u, "NAME_TAKEN")

\* An answer is one more on its way to the daemon.
LEMMA AnswerCounts ==
    ASSUME Types, NEW u, NEW n, Pkt(u, n) \in InPkt, inbox' = Append(inbox, Pkt(u, n)),
           retrieved' = retrieved
    PROVE  /\ inbox' \in Seq(InPkt)
           /\ Arriving \in Seq(InPkt)
           /\ Arriving' = Append(Arriving, Pkt(u, n))
           /\ Answered(u)
<1>1. Arriving \in Seq(InPkt) /\ inbox' \in Seq(InPkt) /\ Arriving' = Append(Arriving, Pkt(u, n))
  BY ArrivingType, SendingAppends
<1>2. Pkt(u, n).type = u
  BY DEF Pkt
<1>3. \A t : Plus(Count(Append(Arriving, Pkt(u, n)), t), Count(Arriving, t), u, t)
  BY <1>1, <1>2, CountAppendPlus
<1> QED BY <1>1, <1>3 DEF Answered

\* handlePacket answers a handshake, a heartbeat and a request for a name each with a
\* packet that takes its place in the ledger.
LEMMA AnswerKeepsLedgers ==
    ASSUME Numbers, Numbers', BufferKept, BeatTasksKept, ShakeTasksKept, NameTasksKept,
           NEW u, NEW w, Taken(u), Answered(w),
           (u = "HEARTBEAT") <=> (w = "HEARTBEAT"),
           (u = "HANDSHAKE") <=> (w = "HANDSHAKE"),
           (u = "NEW_USER") <=> (w = "NAME_TAKEN")
    PROVE  Heartbeats' = Heartbeats /\ Prospects' = Prospects
<1>1. Heartbeats' = Heartbeats
  <2>1. Count(outbox, "HEARTBEAT")' + Count(Arriving, "HEARTBEAT")'
          = Count(outbox, "HEARTBEAT") + Count(Arriving, "HEARTBEAT")
    BY DEF Taken, Answered, Plus, Numbers
  <2> QED BY <2>1 DEF Heartbeats, Numbers, BufferKept, BeatTasksKept
<1>2. Shaking' = Shaking
  <2>1. Count(outbox, "HANDSHAKE")' + Count(Arriving, "HANDSHAKE")'
          = Count(outbox, "HANDSHAKE") + Count(Arriving, "HANDSHAKE")
    BY DEF Taken, Answered, Plus, Numbers
  <2> QED BY <2>1 DEF Shaking, Numbers, BufferKept, ShakeTasksKept
<1>3. Asking' = Asking
  <2>1. Count(outbox, "NEW_USER")' + Count(Arriving, "NAME_TAKEN")'
          = Count(outbox, "NEW_USER") + Count(Arriving, "NAME_TAKEN")
    BY DEF Taken, Answered, Plus, Numbers
  <2> QED BY <2>1 DEF Asking, Numbers, BufferKept, NameTasksKept
<1> QED BY <1>1, <1>2, <1>3 DEF Prospects

\* An answer that is no user list does not change which list is the latest.
LEMMA AnswerKeepsLatest ==
    ASSUME Inv, NEW x \in InPkt, x.type # "USER_LIST", Arriving \in Seq(InPkt),
           Arriving' = Append(Arriving, x), ListTasksKept,
           UNCHANGED <<lists, overlapped, remote_users, socket>>
    PROVE  Latest'
<1>1. HasNoList(Arriving) => HasNoList(Arriving)'
  BY ListsOfAppend DEF HasNoList
<1>2. EndsInList(Arriving, lists) => EndsInList(Arriving, lists)'
  <2> SUFFICES ASSUME EndsInList(Arriving, lists) PROVE EndsInList(Arriving', lists')
    BY DEF EndsInList
  <2>1. EndsInList(Append(Arriving, x), lists)
    BY ListsOfAppend
  <2> QED BY <2>1
<1>3. \A v \in 1 .. MaxLists : Listing(v)' <=> Listing(v)
  BY DEF ListTasksKept, Listing
<1>4. CASE overlapped
  BY <1>4 DEF Latest
<1>5. CASE ~overlapped
  <2>1. /\ \A v, w \in 1 .. MaxLists : Listing(v)' /\ Listing(w)' => v = w
        /\ \A v \in 1 .. MaxLists : tasks'[Pkt("USER_LIST", v)] <= 1
    BY <1>3, <1>5 DEF Inv, Latest, ListTasksKept
  <2>2. socket \in {"none", "up"} =>
            \/ EndsInList(Arriving, lists)'
            \/ HasNoList(Arriving)' /\ lists \in 1 .. MaxLists /\ Listing(lists)
            \/ /\ HasNoList(Arriving)'
               /\ \A v \in 1 .. MaxLists : ~Listing(v)'
               /\ remote_users = lists
    BY <1>1, <1>2, <1>3, <1>5 DEF Inv, Latest
  <2>3. lists \in 1 .. MaxLists /\ Listing(lists) => Listing(lists)'
    BY DEF ListTasksKept, Listing
  <2> QED BY <2>1, <2>2, <2>3 DEF Latest
<1> QED BY <1>4, <1>5

\* A list that is sent is the latest.
LEMMA NewListIsLatest ==
    ASSUME Inv, NEW s \in Seq(InPkt), Pkt("USER_LIST", lists') \in InPkt,
           Arriving' = Append(s, Pkt("USER_LIST", lists')), ListTasksKept,
           UNCHANGED overlapped
    PROVE  Latest'
<1>1. EndsInList(Arriving', lists')
  BY ListsOfAppend
<1>2. \A v \in 1 .. MaxLists : Listing(v)' <=> Listing(v)
  BY DEF ListTasksKept, Listing
<1>3. ~overlapped =>
        /\ \A v, w \in 1 .. MaxLists : Listing(v)' /\ Listing(w)' => v = w
        /\ \A v \in 1 .. MaxLists : tasks'[Pkt("USER_LIST", v)] <= 1
  BY <1>2 DEF Inv, Latest, ListTasksKept
<1> QED BY <1>1, <1>3 DEF Latest, EndsInList

\* handlePacket answers a packet with another ...
LEMMA AnswerKeepsInv ==
    ASSUME Inv, Serving, NEW u, NEW w, NEW n, Head(outbox).type = u, Pkt(w, n) \in InPkt,
           inbox' = Append(inbox, Pkt(w, n)), UNCHANGED <<registered, lists>>,
           <<u, w>> \in {<<"HEARTBEAT", "HEARTBEAT">>, <<"HANDSHAKE", "HANDSHAKE">>,
                         <<"NEW_USER", "NAME_TAKEN">>, <<"SESSION_REQUEST", "USER_NOT_FOUND">>}
    PROVE  Inv'
<1>1. Types /\ Pkt(w, n).type = w
  BY DEF Inv, Pkt
<1>2. /\ (u = "HEARTBEAT") <=> (w = "HEARTBEAT")
      /\ (u = "HANDSHAKE") <=> (w = "HANDSHAKE")
      /\ (u = "NEW_USER") <=> (w = "NAME_TAKEN")
      /\ w # "USER_LIST"
  OBVIOUS
<1>3. /\ inbox' \in Seq(InPkt)
      /\ Arriving \in Seq(InPkt)
      /\ Arriving' = Append(Arriving, Pkt(w, n))
      /\ Answered(w)
  BY <1>1, AnswerCounts DEF Serving
<1>4. registered' \subseteq Nat /\ IsFiniteSet(registered') /\ lists' \in 0 .. MaxLists
  BY <1>1 DEF Types, TypeOK
<1>5. Types' /\ Places' /\ ListTasksKept
  BY <1>3, <1>4, ServingFacts
<1>6. Numbers /\ Numbers' /\ BufferKept /\ BeatTasksKept /\ ShakeTasksKept /\ NameTasksKept
  BY <1>3, <1>4, ServingFacts
<1>7. Taken(u)
  BY <1>1, ServeCounts
<1>8. Heartbeats' = Heartbeats /\ Prospects' = Prospects
  BY <1>2, <1>3, <1>6, <1>7, AnswerKeepsLedgers
<1>9. Beating'
  BY <1>8 DEF Inv, Beating, Serving
<1>10. Naming'
  BY <1>6, <1>8 DEF Inv, Naming, BufferKept, Serving
<1>11. Latest'
  BY <1>1, <1>2, <1>3, <1>5, AnswerKeepsLatest DEF Serving
<1> QED BY <1>5, <1>9, <1>10, <1>11 DEF Inv

\* ... does not answer the end of a session ...
LEMMA ServeCloseKeepsInv ==
    ASSUME Inv, Serving, Head(outbox).type = "SESSION_CLOSE", UNCHANGED <<inbox, registered, lists>>
    PROVE  Inv'
<1>1. Types
  BY DEF Inv
<1>2. /\ inbox' \in Seq(InPkt) /\ registered' \subseteq Nat /\ IsFiniteSet(registered')
      /\ lists' \in 0 .. MaxLists
  BY <1>1 DEF Types, TypeOK
<1>3. Types' /\ Places' /\ ListTasksKept
  BY <1>2, ServingFacts
<1>4. Numbers /\ Numbers' /\ BufferKept /\ BeatTasksKept /\ ShakeTasksKept /\ NameTasksKept
  BY <1>2, ServingFacts
<1>5. OutboxKept
  <2>1. Taken("SESSION_CLOSE")
    BY <1>1, ServeCounts
  <2> QED BY <2>1 DEF Taken, Plus, OutboxKept
<1>6. Arriving' = Arriving /\ ArrivingKept
  BY Kept DEF Serving
<1>7. Heartbeats' = Heartbeats /\ Prospects' = Prospects
  BY <1>4, <1>5, <1>6, LedgersKept DEF Prospects
<1>8. Beating'
  BY <1>7 DEF Inv, Beating, Serving
<1>9. Naming'
  BY <1>4, <1>7 DEF Inv, Naming, BufferKept, Serving
<1>10. Latest'
  BY <1>3, <1>6, LatestKept DEF Serving
<1> QED BY <1>3, <1>8, <1>9, <1>10 DEF Inv

\* A success and a list are sent together.
LEMMA TwoArrive ==
    ASSUME Types, NEW x \in InPkt, NEW y \in InPkt, inbox' = inbox \o <<x, y>>,
           retrieved' = retrieved, x.type = "SUCCESS", y.type = "USER_LIST"
    PROVE  /\ inbox' \in Seq(InPkt)
           /\ Append(Arriving, x) \in Seq(InPkt)
           /\ Arriving' = Append(Append(Arriving, x), y)
           /\ ArrivingKept
<1>1. retrieved \in Seq(InPkt) /\ inbox \in Seq(InPkt) /\ Arriving \in Seq(InPkt)
  BY ArrivingType DEF Types
<1>2. /\ inbox' \in Seq(InPkt)
      /\ Append(Arriving, x) \in Seq(InPkt)
      /\ Arriving' = Append(Append(Arriving, x), y)
  <2>1. /\ Append(inbox, x) \in Seq(InPkt)
        /\ Append(Append(inbox, x), y) \in Seq(InPkt)
        /\ inbox' = Append(Append(inbox, x), y)
    BY <1>1, TwoMore
  <2>2. retrieved \o Append(inbox, x) = Append(retrieved \o inbox, x)
    BY <1>1, ConcatAppend
  <2>3. retrieved \o Append(Append(inbox, x), y) = Append(retrieved \o Append(inbox, x), y)
    BY <1>1, <2>1, ConcatAppend
  <2>4. Append(Arriving, x) \in Seq(InPkt)
    BY <1>1, AppendProperties
  <2> QED BY <2>1, <2>2, <2>3, <2>4 DEF Arriving
<1>3. \A t : Plus(Count(Append(Arriving, x), t), Count(Arriving, t), "SUCCESS", t)
  BY <1>1, CountAppendPlus
<1>4. \A t : Plus(Count(Append(Append(Arriving, x), y), t), Count(Append(Arriving, x), t), "USER_LIST", t)
  BY <1>2, CountAppendPlus
<1>5. \A t : t \notin {"SUCCESS", "USER_LIST"} => Count(Arriving', t) = Count(Arriving, t)
  BY <1>2, <1>3, <1>4 DEF Plus
<1>8. ArrivingKept
  BY <1>5 DEF ArrivingKept
<1> QED BY <1>2, <1>8

\* A request for a name leaves the ledger ...
LEMMA OneRequestLess ==
    ASSUME Numbers, Numbers', BufferKept, ArrivingKept, BeatTasksKept, ShakeTasksKept, NameTasksKept,
           Taken("NEW_USER")
    PROVE  Heartbeats' = Heartbeats /\ Shaking' = Shaking /\ Asking' + 1 = Asking
<1>1. /\ Count(outbox, "HEARTBEAT")' = Count(outbox, "HEARTBEAT")
      /\ Count(outbox, "HANDSHAKE")' = Count(outbox, "HANDSHAKE")
      /\ Count(outbox, "NEW_USER")' + 1 = Count(outbox, "NEW_USER")
  BY DEF Taken, Plus
<1>2. Heartbeats' = Heartbeats
  BY <1>1 DEF Heartbeats, BufferKept, ArrivingKept, BeatTasksKept
<1>3. Shaking' = Shaking
  BY <1>1 DEF Shaking, BufferKept, ArrivingKept, ShakeTasksKept
<1>4. Asking' + 1 = Asking
  BY <1>1 DEF Asking, Numbers, BufferKept, ArrivingKept, NameTasksKept
<1> QED BY <1>2, <1>3, <1>4

\* ... and becomes a name.
LEMMA OneNameMore ==
    ASSUME Numbers, Numbers', Naming, Shaking' = Shaking, Asking' + 1 = Asking,
           Cardinality(registered)' = Cardinality(registered) + 1,
           UNCHANGED <<main, greetings>>, BufferKept
    PROVE  Naming'
<1>1. Prospects' + Cardinality(registered)' = Prospects + Cardinality(registered)
  BY Ledgers DEF Prospects, Numbers
<1> QED BY <1>1 DEF Naming, BufferKept

\* ... and registers a name nobody has, whereupon everybody is sent the new list.
LEMMA GiveNameKeepsInv ==
    ASSUME Inv, Serving, Head(outbox).type = "NEW_USER",
           Head(outbox).arg \notin registered \cup Others,
           lists < MaxLists,
           registered' = registered \cup {Head(outbox).arg},
           lists' = lists + 1,
           inbox' = inbox \o <<Pkt("SUCCESS", 0), Pkt("USER_LIST", lists')>>
    PROVE  Inv'
<1>1. Types
  BY DEF Inv
<1>2. lists' \in 0 .. MaxLists /\ lists' \in 1 .. MaxLists
  BY <1>1, BoundAssumption DEF Types
<1>3. /\ Pkt("SUCCESS", 0) \in InPkt /\ Pkt("SUCCESS", 0).type = "SUCCESS"
      /\ Pkt("USER_LIST", lists') \in InPkt /\ Pkt("USER_LIST", lists').type = "USER_LIST"
  BY <1>2, SentFacts DEF Pkt
<1>4. /\ inbox' \in Seq(InPkt)
      /\ Append(Arriving, Pkt("SUCCESS", 0)) \in Seq(InPkt)
      /\ Arriving' = Append(Append(Arriving, Pkt("SUCCESS", 0)), Pkt("USER_LIST", lists'))
      /\ ArrivingKept
  BY <1>1, <1>3, TwoArrive DEF Serving
<1>6. /\ Head(outbox).arg \in Nat
      /\ registered' \subseteq Nat /\ IsFiniteSet(registered')
      /\ Cardinality(registered)' = Cardinality(registered) + 1
  <2>1. Head(outbox) \in OutPkt
    BY <1>1, HeadTailProperties DEF Types, Serving
  <2>2. Head(outbox).arg \in Nat
    BY <2>1, PacketFacts
  <2>3. IsFiniteSet(registered) /\ registered \subseteq Nat
    BY <1>1 DEF Types, TypeOK
  <2> QED BY <2>2, <2>3, FS_AddElement
<1>8. Types' /\ Places' /\ ListTasksKept
  BY <1>2, <1>4, <1>6, ServingFacts
<1>9. Numbers /\ Numbers' /\ BufferKept /\ BeatTasksKept /\ ShakeTasksKept /\ NameTasksKept
  BY <1>2, <1>4, <1>6, ServingFacts
<1>10. Heartbeats' = Heartbeats /\ Shaking' = Shaking /\ Asking' + 1 = Asking
  <2>1. Taken("NEW_USER")
    BY <1>1, ServeCounts
  <2> QED BY <1>4, <1>9, <2>1, OneRequestLess
<1>15. Beating'
  BY <1>10 DEF Inv, Beating, Serving
<1>16. Naming'
  <2>1. Cardinality(registered)' = Cardinality(registered) + 1
    BY <1>6
  <2>2. UNCHANGED <<main, greetings>>
    BY DEF Serving
  <2> QED BY <1>9, <1>10, <2>1, <2>2, OneNameMore DEF Inv
<1>17. Latest'
  BY <1>3, <1>4, <1>8, NewListIsLatest DEF Serving
<1> QED BY <1>8, <1>15, <1>16, <1>17 DEF Inv

\* Serve is one of these.
LEMMA ServeKeepsInv ==
    ASSUME Inv, Serve
    PROVE  Inv'
<1>1. Serving /\ Reply(Head(outbox))
  BY DEF Serve, Serving, controlVars, taskVars
<1>2. Types
  BY DEF Inv
<1>3. CASE Head(outbox).type = "HANDSHAKE"
  <2>1. PICK m \in Magic : inbox' = Append(inbox, Pkt("HANDSHAKE", m)) /\ UNCHANGED <<registered, lists>>
    BY <1>1, <1>3 DEF Reply
  <2>2. Pkt("HANDSHAKE", m) \in InPkt
    BY SentFacts
  <2> QED BY <1>1, <1>3, <2>1, <2>2, AnswerKeepsInv
<1>4. CASE Head(outbox).type = "HEARTBEAT"
  <2>1. Head(outbox) \in OutPkt
    BY <1>1, <1>2, HeadTailProperties DEF Types, Serving
  <2>2. Head(outbox) = Pkt("HEARTBEAT", 0) /\ Pkt("HEARTBEAT", 0) \in InPkt
    BY <1>4, <2>1, PacketFacts, SentFacts
  <2>3. inbox' = Append(inbox, Pkt("HEARTBEAT", 0)) /\ UNCHANGED <<registered, lists>>
    BY <1>1, <1>4, <2>2 DEF Reply
  <2> QED BY <1>1, <1>4, <2>2, <2>3, AnswerKeepsInv
<1>5. CASE Head(outbox).type = "NEW_USER"
  <2>1. CASE Head(outbox).arg \in registered \cup Others
    <3>1. inbox' = Append(inbox, Pkt("NAME_TAKEN", 0)) /\ UNCHANGED <<registered, lists>>
      BY <1>1, <1>5, <2>1 DEF Reply
    <3>2. Pkt("NAME_TAKEN", 0) \in InPkt
      BY SentFacts
    <3> QED BY <1>1, <1>5, <3>1, <3>2, AnswerKeepsInv
  <2>2. CASE Head(outbox).arg \notin registered \cup Others
    BY <1>1, <1>5, <2>2, GiveNameKeepsInv DEF Reply
  <2> QED BY <2>1, <2>2
<1>6. CASE Head(outbox).type = "SESSION_REQUEST"
  <2>1. inbox' = Append(inbox, Pkt("USER_NOT_FOUND", 0)) /\ UNCHANGED <<registered, lists>>
    BY <1>1, <1>6 DEF Reply
  <2>2. Pkt("USER_NOT_FOUND", 0) \in InPkt
    BY SentFacts
  <2> QED BY <1>1, <1>6, <2>1, <2>2, AnswerKeepsInv
<1>7. CASE Head(outbox).type = "SESSION_CLOSE"
  BY <1>1, <1>7, ServeCloseKeepsInv DEF Reply
<1> QED BY <1>1, <1>3, <1>4, <1>5, <1>6, <1>7 DEF Reply

\* Another daemon registers.
LEMMA OtherRegistersKeepsInv ==
    ASSUME Inv, OtherRegisters
    PROVE  Inv'
<1>1. Types
  BY DEF Inv
<1>2. /\ UNCHANGED <<running, cli, connect_signal, late, username, remote_users, tasks,
                     overlapped, socket, outbox, registered, main, connected, send_buffer,
                     retrieved, greetings>>
      /\ lists' = lists + 1 /\ lists < MaxLists
      /\ inbox' = Append(inbox, Pkt("USER_LIST", lists'))
  BY DEF OtherRegisters, controlVars, taskVars
<1>3. lists' \in 0 .. MaxLists /\ lists' \in 1 .. MaxLists
  BY <1>1, <1>2, BoundAssumption DEF Types
<1>4. Pkt("USER_LIST", lists') \in InPkt
  BY <1>3, SentFacts
<1>5. /\ inbox' \in Seq(InPkt)
      /\ Arriving \in Seq(InPkt)
      /\ Arriving' = Append(Arriving, Pkt("USER_LIST", lists'))
  BY <1>1, <1>2, <1>4, AnswerCounts
<1>6. Types'
  <2>1. TypeOK'
    BY <1>1, <1>2 DEF Types, TypeOK
  <2> QED BY <1>1, <1>2, <1>3, <1>5, <2>1 DEF Types
<1>7. Places'
  BY <1>2 DEF Inv, Places
<1>8. ArrivingKept
  <2>1. Answered("USER_LIST")
    BY <1>1, <1>2, <1>4, AnswerCounts
  <2> QED BY <2>1 DEF Answered, Plus, ArrivingKept
<1>9. Heartbeats' = Heartbeats /\ Prospects' = Prospects /\ BufferKept /\ ListTasksKept
  BY <1>2, <1>8, Kept, LedgersKept DEF Prospects
<1>10. Beating'
  BY <1>2, <1>9 DEF Inv, Beating
<1>11. Naming'
  BY <1>2, <1>9 DEF Inv, Naming, BufferKept
<1>12. Latest'
  BY <1>2, <1>4, <1>5, <1>9, NewListIsLatest
<1> QED BY <1>6, <1>7, <1>10, <1>11, <1>12 DEF Inv

\* The distributor goes away.
LEMMA VanishKeepsInv ==
    ASSUME Inv, Vanish
    PROVE  Inv'
<1>1. Types /\ Numbers
  BY TypesGiveNumbers DEF Inv
<1>2. /\ UNCHANGED <<running, cli, connect_signal, late, username, remote_users, tasks,
                     overlapped, inbox, registered, lists, main, connected, send_buffer,
                     retrieved, greetings>>
      /\ socket = "up" /\ socket' \in {"closed", "reset", "lost"} /\ outbox' = <<>>
  BY DEF Vanish, controlVars, taskVars
<1>3. Types'
  <2>1. TypeOK'
    BY <1>1, <1>2 DEF Types, TypeOK
  <2> QED BY <1>1, <1>2, <2>1, EmptySeq DEF Types
<1>4. Places'
  BY <1>2 DEF Inv, Places
<1>5. Numbers'
  BY <1>3, TypesGiveNumbersNext
<1>6. Count(outbox, "HANDSHAKE")' = 0 /\ Count(outbox, "NEW_USER")' = 0
  BY <1>2, CountEmpty
<1>7. BufferKept /\ ArrivingKept /\ ShakeTasksKept /\ NameTasksKept
  BY <1>2, Kept
<1>8. Shaking' <= Shaking
  BY <1>1, <1>5, <1>6, <1>7 DEF Shaking, Numbers, BufferKept, ArrivingKept, ShakeTasksKept
<1>9. Asking' <= Asking
  BY <1>1, <1>5, <1>6, <1>7 DEF Asking, Numbers, BufferKept, ArrivingKept, NameTasksKept
<1>10. Beating'
  BY <1>2 DEF Beating
<1>11. Naming'
  <2>1. Numbers /\ Naming
    BY <1>1 DEF Inv
  <2>2. Prospects' <= Prospects /\ Prospects' \in Nat /\ Prospects \in Nat
    BY <1>5, <1>8, <1>9, <2>1, Ledgers DEF Prospects
  <2> QED BY <1>2, <1>7, <2>1, <2>2 DEF Naming, Numbers, BufferKept
<1>12. Latest'
  BY <1>2 DEF Inv, Latest, Listing
<1> QED BY <1>3, <1>4, <1>10, <1>11, <1>12 DEF Inv

--------------------------------------------------------------------------------
(* The theorems *)

\* The state the constructor starts from.
LEMMA InitInv == Init => Inv
<1> SUFFICES ASSUME Init PROVE Inv
  OBVIOUS
<1>1. Arriving = <<>>
  BY ConcatEmptySeq DEF Init, Arriving
<1>2. \A k \in Task : tasks[k] = 0
  BY DEF Init
<1>3. Types
  <2>1. TypeOK
    <3>1. remote_users \in 0 .. MaxLists
      BY BoundAssumption DEF Init
    <3>2. tasks \in [Task -> Nat] /\ username \in Nat /\ registered \subseteq Nat
      BY DEF Init
    <3>3. connected = (socket # "none")
      BY DEF Init
    <3> QED BY <3>1, <3>2, <3>3 DEF Init, TypeOK
  <2>2. IsFiniteSet(registered)
    BY FS_EmptySet DEF Init
  <2>3. lists \in 0 .. MaxLists
    BY BoundAssumption DEF Init
  <2>4. /\ send_buffer \in Seq(OutPkt) /\ outbox \in Seq(OutPkt)
        /\ retrieved \in Seq(InPkt) /\ inbox \in Seq(InPkt)
    BY EmptySeq DEF Init
  <2> QED BY <2>1, <2>2, <2>3, <2>4 DEF Init, Types
<1>4. Places
  BY DEF Init, Places
<1>5. /\ Count(send_buffer, "HEARTBEAT") = 0 /\ Count(send_buffer, "HANDSHAKE") = 0
      /\ Count(send_buffer, "NEW_USER") = 0
      /\ Count(outbox, "HEARTBEAT") = 0 /\ Count(outbox, "HANDSHAKE") = 0
      /\ Count(outbox, "NEW_USER") = 0
      /\ Count(Arriving, "HEARTBEAT") = 0 /\ Count(Arriving, "HANDSHAKE") = 0
      /\ Count(Arriving, "NAME_TAKEN") = 0
  BY <1>1, CountEmpty DEF Init
<1>6. /\ tasks[Pkt("HANDSHAKE", "good")] = 0 /\ tasks[Pkt("HANDSHAKE", "bad")] = 0
      /\ tasks[Pkt("HEARTBEAT", 0)] = 0 /\ tasks[Pkt("ASLEEP", 0)] = 0
      /\ tasks[Pkt("NAME_TAKEN", 0)] = 0 /\ tasks[Pkt("RENAMED", 0)] = 0
  BY <1>2, TaskFacts
<1>7. Beating
  <2>1. Heartbeats = 0
    BY <1>5, <1>6 DEF Heartbeats
  <2> QED BY <2>1 DEF Beating, Init
<1>8. Naming
  <2>1. Prospects = 0
    BY <1>5, <1>6 DEF Prospects, Shaking, Asking
  <2>2. Cardinality(registered) = 0 /\ greetings = 0 /\ main # "beat"
    BY FS_EmptySet DEF Init
  <2> QED BY <2>1, <2>2 DEF Naming
<1>9. Latest
  <2>1. \A v \in 1 .. MaxLists : tasks[Pkt("USER_LIST", v)] = 0
    BY <1>2, TaskFacts
  <2>2. HasNoList(Arriving)
    BY <1>1 DEF HasNoList
  <2> QED BY <2>1, <2>2 DEF Latest, Listing, Init
<1> QED BY <1>3, <1>4, <1>7, <1>8, <1>9 DEF Inv

\* One step, whichever thread takes it.
LEMMA NextInv == Inv /\ [Next]_vars => Inv'
<1> SUFFICES ASSUME Inv, [Next]_vars PROVE Inv'
  OBVIOUS
<1>1. CASE Construct
  BY <1>1, ConstructKeepsInv
<1>2. CASE handle_cli
  BY <1>2, QuietActionsKeepInv, CliSessionKeepsInv DEF handle_cli
<1>3. CASE run_frame
  BY <1>3, QuietActionsKeepInv, ReceiveDataKeepsInv, PollNetworkKeepsInv, FlushKeepsInv,
     GreetKeepsInv, FirstBeatKeepsInv DEF run_frame
<1>4. CASE Silence
  BY <1>4, QuietActionsKeepInv
<1>5. CASE RunTask
  <2>1. CASE handle_handshake
    BY <2>1, HandshakeGoodKeepsInv, HandshakeBadKeepsInv DEF handle_handshake
  <2>2. CASE handle_heartbeat
    BY <2>2, BeatArrivesKeepsInv, BeatReturnsKeepsInv DEF handle_heartbeat
  <2>3. CASE handle_servmsg
    BY <2>3, RenameKeepsInv, AskAgainKeepsInv DEF handle_servmsg
  <2>4. CASE \E v \in 1 .. MaxLists : handle_user_list(v)
    BY <2>4, UserListKeepsInv
  <2> QED BY <1>5, <2>1, <2>2, <2>3, <2>4 DEF RunTask
<1>6. CASE Remote
  BY <1>6, ServeKeepsInv, OtherRegistersKeepsInv, VanishKeepsInv DEF Remote
<1>7. CASE UNCHANGED vars
  <2>1. /\ TypeOK' /\ Places'
        /\ UNCHANGED <<retrieved, inbox>>
        /\ UNCHANGED <<send_buffer, outbox, tasks, registered, lists, greetings, overlapped,
                       remote_users, main, socket>>
    BY <1>7 DEF Inv, Types, TypeOK, Places, vars, controlVars, taskVars, netVars
  <2>2. retrieved' \in Seq(InPkt) /\ inbox' \in Seq(InPkt) /\ Arriving' = Arriving
    BY <2>1 DEF Inv, Types, Arriving
  <2> QED BY <2>1, <2>2, QuietStep
<1> QED BY <1>1, <1>2, <1>3, <1>4, <1>5, <1>6, <1>7 DEF Next

\* Inv is an invariant: no order of the threads, the user and the network breaks it.
THEOREM Invariance == Spec => []Inv
BY InitInv, NextInv, PTL DEF Spec

\* Type correctness of the daemon, whatever the user types and the distributor sends.
THEOREM TypeCorrect == Spec => []TypeOK
<1>1. Inv => TypeOK
  BY DEF Inv, Types
<1> QED BY <1>1, Invariance, PTL

\* handle_heartbeat, poll_network, the send loop and the distributor pass every
\* heartbeat on exactly once: while the connection is up there are as many as
\* send_initial_hs has sent.
THEOREM HeartbeatsGoRound == Spec => []HeartbeatConserved
<1>1. Inv => HeartbeatConserved
  <2> SUFFICES ASSUME Inv, socket \in {"none", "up"}
               PROVE  Count(send_buffer, "HEARTBEAT") + Count(outbox, "HEARTBEAT")
                        + Count(inbox, "HEARTBEAT") + Count(retrieved, "HEARTBEAT")
                        + tasks[Pkt("HEARTBEAT", 0)] + tasks[Pkt("ASLEEP", 0)] = greetings
    BY DEF HeartbeatConserved
  <2>1. Heartbeats = greetings
    BY DEF Inv, Beating
  <2>2. Numbers
    BY TypesGiveNumbers DEF Inv
  <2>3. Count(Arriving, "HEARTBEAT") = Count(retrieved, "HEARTBEAT") + Count(inbox, "HEARTBEAT")
    BY ArrivingType DEF Inv
  <2>4. Count(retrieved, "HEARTBEAT") \in Nat /\ Count(inbox, "HEARTBEAT") \in Nat
    BY CountType DEF Inv, Types
  <2> QED BY <2>1, <2>2, <2>3, <2>4 DEF Heartbeats, Numbers
<1> QED BY <1>1, Invariance, PTL

\* The distributor never registers more names for a daemon than it was greeted:
\* handle_handshake asks once, and handle_servmsg asks again only for a refusal.
THEOREM NamesAreAskedForOnce == Spec => []OneNamePerGreeting
<1>1. Inv => OneNamePerGreeting
  <2> SUFFICES ASSUME Inv PROVE Cardinality(registered) <= greetings
    BY DEF OneNamePerGreeting
  <2>1. Numbers
    BY TypesGiveNumbers DEF Inv
  <2>2. Prospects \in Nat /\ (main = "beat" => Prospects > 0)
    <3>1. Shaking \in Nat /\ Asking \in Nat
      BY <2>1, Ledgers
    <3>2. main = "beat" => Shaking > 0
      BY <2>1 DEF Inv, Naming, Shaking, Numbers
    <3> QED BY <3>1, <3>2 DEF Prospects
  <2>3. Prospects + Cardinality(registered) <= greetings + (IF main = "beat" THEN 1 ELSE 0)
    BY DEF Inv, Naming
  <2> QED BY <2>1, <2>2, <2>3 DEF Numbers
<1> QED BY <1>1, Invariance, PTL

\* When everything that was sent has been handled, handle_user_list has left the latest
\* list on show, unless poll_network had started two of them at once.
THEOREM LatestListIsShown == Spec => []LatestList
<1>1. Inv => LatestList
  <2> SUFFICES ASSUME Inv, ~overlapped, inbox = <<>>, retrieved = <<>>,
                      \A k \in Task : tasks[k] = 0, socket = "up"
               PROVE  remote_users = lists
    BY DEF LatestList
  <2>1. Arriving = <<>>
    BY ConcatEmptySeq DEF Arriving
  <2>2. ~EndsInList(Arriving, lists)
    BY <2>1 DEF EndsInList
  <2>3. \A v \in 1 .. MaxLists : ~Listing(v)
    BY TaskFacts DEF Listing
  <2> QED BY <2>2, <2>3 DEF Inv, Latest
<1> QED BY <1>1, Invariance, PTL
================================================================================
