--------------------------- MODULE DistributorProofs ---------------------------
(***************************************************************************)
(* Proofs about the distributor, for every set of connections, names and   *)
(* parameters and every bound.                                             *)
(***************************************************************************)
EXTENDS Distributor, SequenceTheorems, TLAPS

(***************************************************************************)
(* Lists.  ArrayList.remove(index) and the updates of one entry.           *)
(***************************************************************************)

\* What RemoveAt leaves of a list.
LEMMA RemoveAtProperties ==
    ASSUME NEW T, NEW s \in Seq(T), NEW i \in DOMAIN s
    PROVE  /\ RemoveAt(s, i) \in Seq(T)
           /\ Len(RemoveAt(s, i)) = Len(s) - 1
           /\ DOMAIN RemoveAt(s, i) = 1 .. (Len(s) - 1)
           /\ \A j \in 1 .. (Len(s) - 1) :
                 RemoveAt(s, i)[j] = IF j < i THEN s[j] ELSE s[j + 1]
<1> DEFINE l == SubSeq(s, 1, i - 1)
           r == SubSeq(s, i + 1, Len(s))
<1>1. /\ Len(s) \in Nat
      /\ DOMAIN s = 1 .. Len(s)
      /\ i \in 1 .. Len(s)
  BY LenProperties
<1>2. /\ l \in Seq(T)
      /\ Len(l) = i - 1
      /\ \A j \in 1 .. (i - 1) : l[j] = s[j]
  BY <1>1, SubSeqProperties
<1>3. /\ r \in Seq(T)
      /\ Len(r) = Len(s) - i
      /\ \A j \in 1 .. (Len(s) - i) : r[j] = s[i + j]
  BY <1>1, SubSeqProperties
<1>4. RemoveAt(s, i) = l \o r
  BY DEF RemoveAt
<1> HIDE DEF l, r
<1>5. /\ l \o r \in Seq(T)
      /\ Len(l \o r) = Len(l) + Len(r)
      /\ \A j \in 1 .. (Len(l) + Len(r)) :
            (l \o r)[j] = IF j <= Len(l) THEN l[j] ELSE r[j - Len(l)]
  BY <1>2, <1>3, ConcatProperties
<1>6. Len(l \o r) = Len(s) - 1
  BY <1>1, <1>2, <1>3, <1>5
<1>7. \A j \in 1 .. (Len(s) - 1) : (l \o r)[j] = IF j < i THEN s[j] ELSE s[j + 1]
  <2>1. TAKE j \in 1 .. (Len(s) - 1)
  <2>2. CASE j < i
    BY <1>1, <1>2, <1>3, <1>5, <2>2
  <2>3. CASE ~(j < i)
    <3>1. /\ j - Len(l) \in 1 .. (Len(s) - i)
          /\ i + (j - Len(l)) = j + 1
      BY <1>1, <1>2, <2>3
    <3>2. (l \o r)[j] = r[j - Len(l)]
      <4>1. j \in 1 .. (Len(l) + Len(r)) /\ ~(j <= Len(l))
        BY <1>1, <1>2, <1>3, <2>3
      <4> QED BY ONLY <1>5, <4>1, Zenon
    <3> QED BY <1>3, <2>3, <3>1, <3>2
  <2> QED BY <2>2, <2>3
<1> QED BY <1>1, <1>5, <1>6, <1>7, <1>4, LenProperties

\* A list with one entry replaced.
LEMMA ReplaceProperties ==
    ASSUME NEW T, NEW s \in Seq(T), NEW i \in DOMAIN s, NEW e \in T
    PROVE  /\ [s EXCEPT ![i] = e] \in Seq(T)
           /\ DOMAIN [s EXCEPT ![i] = e] = DOMAIN s
           /\ Len([s EXCEPT ![i] = e]) = Len(s)
           /\ \A j \in DOMAIN s : [s EXCEPT ![i] = e][j] = IF j = i THEN e ELSE s[j]
  BY ExceptSeq, LenProperties

\* A list with an entry appended.
LEMMA AppendedProperties ==
    ASSUME NEW T, NEW s \in Seq(T), NEW e \in T
    PROVE  /\ Append(s, e) \in Seq(T)
           /\ Len(s) \in Nat
           /\ DOMAIN s = 1 .. Len(s)
           /\ DOMAIN Append(s, e) = 1 .. (Len(s) + 1)
           /\ Len(Append(s, e)) = Len(s) + 1
           /\ \A j \in DOMAIN s : Append(s, e)[j] = s[j]
           /\ Append(s, e)[Len(s) + 1] = e
  BY AppendProperties, LenProperties

\* A session list in which one client list was replaced.
LEMMA EditClients ==
    ASSUME NEW S \in Seq(Session), NEW i \in DOMAIN S, NEW x \in Seq(Name)
    PROVE  LET T == [S EXCEPT ![i].clients = x]
           IN  /\ T \in Seq(Session)
               /\ DOMAIN T = DOMAIN S
               /\ \A j \in DOMAIN S :
                     /\ T[j].host = S[j].host
                     /\ T[j].params = S[j].params
                     /\ T[j].clients = IF j = i THEN x ELSE S[j].clients
<1> DEFINE e == [S[i] EXCEPT !.clients = x]
<1>1. S[i] \in Session
  BY ElementOfSeq, LenProperties
<1>2. e \in Session
  BY <1>1 DEF Session
<1>3. [S EXCEPT ![i].clients = x] = [S EXCEPT ![i] = e]
  BY DEF Session
<1>4. e.host = S[i].host /\ e.params = S[i].params /\ e.clients = x
  BY <1>1 DEF Session
<1> HIDE DEF e
<1> QED BY <1>2, <1>3, <1>4, ReplaceProperties

\* The entries of a session list are sessions.
LEMMA SessionFields ==
    ASSUME NEW S \in Seq(Session), NEW i \in DOMAIN S
    PROVE  /\ S[i] \in Session
           /\ S[i].host \in Name
           /\ S[i].clients \in Seq(Name)
           /\ S[i].params \in Param \cup {NoParam}
           /\ \A k \in DOMAIN S[i].clients : S[i].clients[k] \in Name
<1>1. S[i] \in Session
  BY ElementOfSeq, LenProperties
<1>2. S[i].clients \in Seq(Name)
  BY <1>1 DEF Session
<1> QED BY <1>1, <1>2, ElementOfSeq, LenProperties DEF Session

(***************************************************************************)
(* The properties of a session list S by itself, and with a user table U.  *)
(***************************************************************************)
HostsDiffer(S) == \A i, j \in DOMAIN S : S[i].host = S[j].host => i = j

RolesDiffer(S) ==
    \A i, j \in DOMAIN S :
        /\ \A k \in DOMAIN S[i].clients : S[i].clients[k] # S[j].host
        /\ \A k \in DOMAIN S[i].clients, l \in DOMAIN S[j].clients :
              S[i].clients[k] = S[j].clients[l] => i = j /\ k = l

Known(S, U) ==
    \A i \in DOMAIN S :
        /\ U[S[i].host] # NoChannel
        /\ \A k \in DOMAIN S[i].clients : U[S[i].clients[k]] # NoChannel

Live == {"open", "closing", "gone"}

\* The inductive invariant.  UniqueHost and RolesDiffer are what makes the
\* single removal of removeSelf enough to keep Known.
Inv == TypeOK /\ UniqueHost /\ NameOwner /\ OneRole /\ NoDangling /\ NoZombie

\* Dropping a session keeps the hosts and the roles apart.
LEMMA DropSession ==
    ASSUME NEW S \in Seq(Session), NEW i \in DOMAIN S, HostsDiffer(S)
    PROVE  /\ RemoveAt(S, i) \in Seq(Session)
           /\ HostsDiffer(RemoveAt(S, i))
           /\ RolesDiffer(S) => RolesDiffer(RemoveAt(S, i))
           /\ \A j \in DOMAIN RemoveAt(S, i) :
                 \E o \in DOMAIN S : o # i /\ RemoveAt(S, i)[j] = S[o]
<1> DEFINE T == RemoveAt(S, i)
           old(j) == IF j < i THEN j ELSE j + 1
<1>1. /\ Len(S) \in Nat
      /\ DOMAIN S = 1 .. Len(S)
      /\ T \in Seq(Session)
      /\ DOMAIN T = 1 .. (Len(S) - 1)
      /\ \A j \in 1 .. (Len(S) - 1) : T[j] = IF j < i THEN S[j] ELSE S[j + 1]
  BY RemoveAtProperties, LenProperties
<1> HIDE DEF T
<1>2. \A j \in DOMAIN T : old(j) \in DOMAIN S /\ old(j) # i /\ T[j] = S[old(j)]
  BY <1>1
<1>3. \A j, k \in DOMAIN T : old(j) = old(k) => j = k
  BY <1>1
<1> HIDE DEF old
<1>4. HostsDiffer(T)
  BY <1>2, <1>3 DEF HostsDiffer
<1>5. RolesDiffer(S) => RolesDiffer(T)
  <2>1. SUFFICES ASSUME RolesDiffer(S), NEW j \in DOMAIN T, NEW k \in DOMAIN T
                 PROVE  /\ \A m \in DOMAIN T[j].clients : T[j].clients[m] # T[k].host
                        /\ \A m \in DOMAIN T[j].clients, l \in DOMAIN T[k].clients :
                              T[j].clients[m] = T[k].clients[l] => j = k /\ m = l
    BY DEF RolesDiffer
  <2>2. /\ T[j] = S[old(j)] /\ old(j) \in DOMAIN S
        /\ T[k] = S[old(k)] /\ old(k) \in DOMAIN S
        /\ old(j) = old(k) => j = k
    BY <1>2, <1>3
  <2> QED BY <2>1, <2>2 DEF RolesDiffer
<1> QED BY <1>1, <1>2, <1>4, <1>5 DEF T

\* Dropping one client of a session keeps the hosts and the roles apart.
LEMMA DropClient ==
    ASSUME NEW S \in Seq(Session), NEW i \in DOMAIN S, HostsDiffer(S),
           NEW k \in DOMAIN S[i].clients
    PROVE  /\ RemoveClient(S, i, k) \in Seq(Session)
           /\ HostsDiffer(RemoveClient(S, i, k))
           /\ RolesDiffer(S) => RolesDiffer(RemoveClient(S, i, k))
           /\ DOMAIN RemoveClient(S, i, k) = DOMAIN S
           /\ \A j \in DOMAIN S :
                 /\ RemoveClient(S, i, k)[j].host = S[j].host
                 /\ \A l \in DOMAIN RemoveClient(S, i, k)[j].clients :
                       \E m \in DOMAIN S[j].clients :
                           /\ RemoveClient(S, i, k)[j].clients[l] = S[j].clients[m]
                           /\ j = i => m # k
<1> DEFINE x == RemoveAt(S[i].clients, k)
           T == [S EXCEPT ![i].clients = x]
           old(j, l) == IF j = i /\ ~(l < k) THEN l + 1 ELSE l
<1>1. S[i].clients \in Seq(Name)
  BY SessionFields
<1>2. /\ Len(S[i].clients) \in Nat
      /\ DOMAIN S[i].clients = 1 .. Len(S[i].clients)
      /\ x \in Seq(Name)
      /\ DOMAIN x = 1 .. (Len(S[i].clients) - 1)
      /\ \A j \in 1 .. (Len(S[i].clients) - 1) :
            x[j] = IF j < k THEN S[i].clients[j] ELSE S[i].clients[j + 1]
  BY <1>1, RemoveAtProperties, LenProperties
<1>3. RemoveClient(S, i, k) = T
  BY DEF RemoveClient
<1> HIDE DEF x
<1>4. /\ T \in Seq(Session)
      /\ DOMAIN T = DOMAIN S
      /\ \A j \in DOMAIN S :
            /\ T[j].host = S[j].host
            /\ T[j].clients = IF j = i THEN x ELSE S[j].clients
  BY <1>2, EditClients
<1> HIDE DEF T
<1>5. \A j \in DOMAIN S : \A l \in DOMAIN T[j].clients :
         /\ old(j, l) \in DOMAIN S[j].clients
         /\ T[j].clients[l] = S[j].clients[old(j, l)]
         /\ j = i => old(j, l) # k
  <2>1. TAKE j \in DOMAIN S
  <2>2. TAKE l \in DOMAIN T[j].clients
  <2>3. CASE j = i
    <3>1. l \in 1 .. (Len(S[i].clients) - 1) /\ T[j].clients[l] = x[l]
      BY <1>2, <1>4, <2>3
    <3>2. k \in 1 .. Len(S[i].clients)
      BY <1>2
    <3>3. CASE l < k
      BY <1>2, <2>3, <3>1, <3>2, <3>3
    <3>4. CASE ~(l < k)
      BY <1>2, <2>3, <3>1, <3>2, <3>4
    <3> QED BY <3>3, <3>4
  <2>4. CASE j # i
    BY <1>4, <2>4
  <2> QED BY <2>3, <2>4
<1>6. \A j \in DOMAIN S : \A l, m \in DOMAIN T[j].clients :
         old(j, l) = old(j, m) => l = m
  BY <1>2, <1>4
<1> HIDE DEF old
<1>7. HostsDiffer(T)
  BY <1>4 DEF HostsDiffer
<1>8. RolesDiffer(S) => RolesDiffer(T)
  BY <1>4, <1>5, <1>6 DEF RolesDiffer
<1> QED BY <1>3, <1>4, <1>5, <1>7, <1>8

(***************************************************************************)
(* Loops that write one packet to many names.                              *)
(***************************************************************************)
IsLoop(nm) ==
    /\ DOMAIN nm \subseteq Nat \X Nat
    /\ \A p \in DOMAIN nm : nm[p] \in Name

\* A loop over the clients of some sessions; it throws only if one is missing.
LEMMA ClientsOfLoop ==
    ASSUME NEW S \in Seq(Session), NEW I, I \subseteq DOMAIN S
    PROVE  /\ IsLoop(ClientsOf(S, I))
           /\ Known(S, users) => ~Throws(ClientsOf(S, I))
<1> DEFINE nm == ClientsOf(S, I)
<1>1. /\ DOMAIN nm = UNION {{i} \X DOMAIN S[i].clients : i \in I}
      /\ \A p \in DOMAIN nm : nm[p] = S[p[1]].clients[p[2]]
  BY DEF ClientsOf
<1> HIDE DEF nm
<1>2. ASSUME NEW p \in DOMAIN nm
      PROVE  /\ p \in Nat \X Nat
             /\ nm[p] \in Name
             /\ Known(S, users) => Registered(nm[p])
  <2>1. PICK i \in I : p \in {i} \X DOMAIN S[i].clients
    BY <1>1
  <2>2. PICK k \in DOMAIN S[i].clients : p = <<i, k>>
    BY <2>1
  <2>3. i \in DOMAIN S /\ i \in Nat
    BY LenProperties
  <2>4. /\ S[i].clients \in Seq(Name)
        /\ S[i].clients[k] \in Name
    BY <2>3, SessionFields
  <2>5. k \in Nat
    BY <2>4, LenProperties
  <2>6. nm[p] = S[i].clients[k]
    BY <1>1, <2>2
  <2> QED BY <2>2, <2>3, <2>4, <2>5, <2>6 DEF Known, Registered
<1> QED BY <1>2 DEF IsLoop, Throws, Missing, nm

\* A loop over the hosts of some sessions.
LEMMA HostOfLoop ==
    ASSUME NEW S \in Seq(Session), NEW I, I \subseteq DOMAIN S
    PROVE  IsLoop(HostOf(S, I))
<1> DEFINE nm == HostOf(S, I)
<1>1. /\ DOMAIN nm = I \X {1}
      /\ \A p \in DOMAIN nm : nm[p] = S[p[1]].host
  BY DEF HostOf
<1> HIDE DEF nm
<1>2. ASSUME NEW p \in DOMAIN nm
      PROVE  p \in Nat \X Nat /\ nm[p] \in Name
  <2>1. PICK i \in I : p = <<i, 1>>
    BY <1>1
  <2>2. i \in DOMAIN S /\ i \in Nat
    BY LenProperties
  <2>3. S[i].host \in Name
    BY <2>2, SessionFields
  <2> QED BY <1>1, <2>1, <2>2, <2>3
<1> QED BY <1>2 DEF IsLoop, nm

\* A loop only writes to channels: it stops before the first missing name.
LEMMA LoopWrites ==
    ASSUME users \in [Name -> Channel \cup {NoChannel}],
           NEW nm, IsLoop(nm), NEW pkt \in Packet
    PROVE  sendProto(pkt, Reached(nm)) \in Write
<1>1. ASSUME NEW p \in DOMAIN nm, \A r \in Missing(nm) : Before(p, r)
      PROVE  users[nm[p]] \in Channel
  <2>1. PICK i \in Nat, k \in Nat : p = <<i, k>>
    BY DEF IsLoop
  <2>2. ~Before(p, p)
    BY <2>1 DEF Before
  <2>3. p \notin Missing(nm)
    BY <1>1, <2>2
  <2> QED BY <2>3 DEF Missing, Registered, IsLoop
<1>2. Reached(nm) \subseteq Channel
  BY <1>1 DEF Reached
<1> QED BY <1>2 DEF sendProto, Write

\* What the handlers build are packets.
LEMMA PacketTypes ==
    /\ \A t \in PacketType : Pkt(t) \in Packet
    /\ \A p \in Param \cup {NoParam} : VideoParams(p) \in Packet
  BY DEF Pkt, VideoParams, Packet, PacketType

(***************************************************************************)
(* removeSelf.                                                             *)
(***************************************************************************)

\* The removal of a connection keeps the invariant when what is left of the
\* session list does.
LEMMA CloseKeepsInv ==
    ASSUME TypeOK, NameOwner, NoZombie,
           NEW c \in Channel, chan[c] \in Live,
           NEW S \in Seq(Session), HostsDiffer(S),
           NEW U, U = users \/ (selfName[c] # Anon /\ U = Without(selfName[c])),
           strayed' \in BOOLEAN,
           ~strayed' => ~strayed /\ RolesDiffer(S) /\ Known(S, U),
           NEW out \in Seq(Write),
           Close(c, S, U, out),
           running' = [running EXCEPT ![c] = FALSE],
           selfName' = selfName
    PROVE  Inv'
<1>1. /\ U \in [Name -> Channel \cup {NoChannel}]
      /\ selfName[c] \in Name
  BY DEF TypeOK, Without
<1>2. TypeOK'
  BY <1>1 DEF TypeOK, Close, Live, ChanState
<1>3. UniqueHost'
  BY DEF UniqueHost, HostsDiffer, Close
<1>4. NameOwner'
  <2>1. SUFFICES ASSUME NEW d \in Channel, chan'[d] \in Live, selfName[d] # Anon
                 PROVE  users'[selfName[d]] = d
    BY DEF NameOwner, Live
  <2>2. d # c /\ chan[d] \in Live
    BY <2>1 DEF Close, TypeOK, Live
  <2>3. users[selfName[d]] = d
    BY <2>1, <2>2 DEF NameOwner, Live
  <2>4. selfName[c] # Anon => selfName[d] # selfName[c]
    BY <2>2, <2>3 DEF NameOwner, Live
  <2>5. selfName[d] \in Name
    BY DEF TypeOK
  <2> QED BY <1>1, <2>3, <2>4, <2>5 DEF Close, Without, TypeOK
<1>5. OneRole' /\ NoDangling'
  BY DEF Close, OneRole, NoDangling, RolesDiffer, Known, Registered
<1>6. NoZombie'
  BY DEF Close, NoZombie, TypeOK, Live
<1> QED BY <1>2, <1>3, <1>4, <1>5, <1>6 DEF Inv

\* Sessions that do not mention n stay known when n is forgotten.
LEMMA KnownWithout ==
    ASSUME users \in [Name -> Channel \cup {NoChannel}], NEW n \in Name,
           NEW S \in Seq(Session), Known(S, users),
           \A i \in DOMAIN S :
              /\ S[i].host # n
              /\ \A k \in DOMAIN S[i].clients : S[i].clients[k] # n
    PROVE  Known(S, Without(n))
  BY SessionFields DEF Known, Without

\* removeSelf keeps the invariant, whichever handler or thread runs it.
LEMMA RemoveSelfKeepsInv ==
    ASSUME Inv, NEW c \in Channel, chan[c] \in Live,
           NEW S \in Seq(Session), HostsDiffer(S),
           strayed' \in BOOLEAN,
           ~strayed' => ~strayed /\ RolesDiffer(S) /\ Known(S, users),
           NEW out \in Seq(Write), NEW left \in Live,
           removeSelf(c, S, out, left)
    PROVE  Inv'
<1> DEFINE me == selfName[c]
<1>1. /\ me \in Name
      /\ users \in [Name -> Channel \cup {NoChannel}]
      /\ TypeOK /\ NameOwner /\ NoZombie
  BY DEF Inv, TypeOK
<1>2. running' = [running EXCEPT ![c] = FALSE] /\ selfName' = selfName
  BY DEF removeSelf
<1>3. CASE RemoveSelfAnonymous(c, S, out)
  BY <1>1, <1>2, <1>3, CloseKeepsInv DEF RemoveSelfAnonymous
<1>4. CASE RemoveSelfIdle(c, S, out)
  <2>1. ASSUME NEW i \in DOMAIN S
        PROVE  /\ S[i].host # me
               /\ \A k \in DOMAIN S[i].clients : S[i].clients[k] # me
    <3>1. ~Involves(S[i], me)
      BY <1>4 DEF RemoveSelfIdle
    <3>2. DOMAIN S[i].clients = 1 .. Len(S[i].clients)
      BY SessionFields, LenProperties
    <3> QED BY <3>1, <3>2 DEF Involves, Contains
  <2>2. ~strayed' => Known(S, Without(me))
    BY <1>1, <2>1, KnownWithout
  <2> QED BY <1>1, <1>2, <1>4, <2>2, CloseKeepsInv DEF RemoveSelfIdle
<1>5. CASE RemoveSelfHost(c, S, out, left)
  <2> DEFINE notices(i) == ClientsOf(S, {i})
             wrote(i) == Append(out, sendProto(Pkt("SESSION_CLOSE"), Reached(notices(i))))
  <2>1. PICK i \in DOMAIN S :
           /\ me # Anon
           /\ S[i].host = me
           /\ \/ /\ Throws(notices(i))
                 /\ sessions' = S
                 /\ sent' = wrote(i)
                 /\ chan' = [chan EXCEPT ![c] = left]
                 /\ UNCHANGED users
              \/ /\ ~Throws(notices(i))
                 /\ Close(c, RemoveAt(S, i), Without(me), wrote(i))
    BY <1>5 DEF RemoveSelfHost
  <2>2. /\ IsLoop(notices(i))
        /\ ~strayed' => ~Throws(notices(i))
    BY ClientsOfLoop
  <2> HIDE DEF notices
  <2>3. wrote(i) \in Seq(Write)
    <3>1. Pkt("SESSION_CLOSE") \in Packet
      BY PacketTypes DEF PacketType
    <3>2. sendProto(Pkt("SESSION_CLOSE"), Reached(notices(i))) \in Write
      BY <1>1, <2>2, <3>1, LoopWrites
    <3> QED BY <3>2, AppendProperties
  <2> HIDE DEF wrote
  <2>4. CASE Throws(notices(i))
    <3>1. /\ sessions' = S
          /\ sent' = wrote(i)
          /\ chan' = [chan EXCEPT ![c] = left]
          /\ users' = users
      BY <2>1, <2>4
    <3>2. strayed'
      BY <2>2, <2>4
    <3>3. TypeOK'
      BY <1>1, <1>2, <2>3, <3>1 DEF TypeOK, Live, ChanState
    <3>4. UniqueHost'
      BY <3>1 DEF UniqueHost, HostsDiffer
    <3>5. NameOwner'
      BY <1>1, <1>2, <3>1 DEF NameOwner, Live, TypeOK
    <3>6. OneRole' /\ NoDangling' /\ NoZombie'
      BY <3>2 DEF OneRole, NoDangling, NoZombie
    <3> QED BY <3>3, <3>4, <3>5, <3>6 DEF Inv
  <2>5. CASE ~Throws(notices(i))
    <3> DEFINE T == RemoveAt(S, i)
    <3>1. Close(c, T, Without(me), wrote(i))
      BY <2>1, <2>5
    <3>2. /\ T \in Seq(Session)
          /\ HostsDiffer(T)
          /\ RolesDiffer(S) => RolesDiffer(T)
          /\ \A j \in DOMAIN T : \E o \in DOMAIN S : o # i /\ T[j] = S[o]
      BY DropSession
    <3> HIDE DEF T
    <3>3. ASSUME ~strayed'
          PROVE  Known(T, Without(me))
      <4>1. ASSUME NEW o \in DOMAIN S, o # i
            PROVE  /\ S[o].host # me
                   /\ \A k \in DOMAIN S[o].clients : S[o].clients[k] # me
        BY <2>1, <3>3, <4>1 DEF HostsDiffer, RolesDiffer
      <4>2. Known(T, users)
        BY <3>2, <3>3 DEF Known
      <4>3. \A j \in DOMAIN T :
               /\ T[j].host # me
               /\ \A l \in DOMAIN T[j].clients : T[j].clients[l] # me
        BY <3>2, <4>1
      <4> QED BY <1>1, <3>2, <4>2, <4>3, KnownWithout
    <3> QED BY <1>1, <1>2, <2>1, <2>3, <3>1, <3>2, <3>3, CloseKeepsInv
  <2> QED BY <2>4, <2>5
<1>6. CASE RemoveSelfClient(c, S, out)
  <2> DEFINE Leaves(i, k) ==
               /\ me # Anon
               /\ S[i].clients[k] = me
               /\ \/ Close(c, RemoveAt(S, i), Without(me), out)
                  \/ Close(c, RemoveClient(S, i, k), Without(me), out)
  <2>a. PICK i \in DOMAIN S : \E k \in DOMAIN S[i].clients : Leaves(i, k)
    BY <1>6 DEF RemoveSelfClient, FirstOccurrence
  <2>1. PICK k \in DOMAIN S[i].clients : Leaves(i, k)
    BY <2>a
  <2>2. ASSUME ~strayed', NEW o \in DOMAIN S
        PROVE  /\ S[o].host # me
               /\ \A m \in DOMAIN S[o].clients : S[o].clients[m] = me => o = i /\ m = k
    BY <2>1, <2>2 DEF RolesDiffer
  <2>3. CASE Close(c, RemoveAt(S, i), Without(me), out)
    <3> DEFINE T == RemoveAt(S, i)
    <3>1. /\ T \in Seq(Session)
          /\ HostsDiffer(T)
          /\ RolesDiffer(S) => RolesDiffer(T)
          /\ \A j \in DOMAIN T : \E o \in DOMAIN S : o # i /\ T[j] = S[o]
      BY DropSession
    <3>2. Close(c, T, Without(me), out)
      BY <2>3
    <3> HIDE DEF T
    <3>3. ASSUME ~strayed'
          PROVE  Known(T, Without(me))
      <4>1. Known(T, users)
        BY <3>1, <3>3 DEF Known
      <4>2. \A j \in DOMAIN T :
               /\ T[j].host # me
               /\ \A l \in DOMAIN T[j].clients : T[j].clients[l] # me
        BY <2>2, <3>1, <3>3
      <4> QED BY <1>1, <3>1, <4>1, <4>2, KnownWithout
    <3> QED BY <1>1, <1>2, <2>1, <3>1, <3>2, <3>3, CloseKeepsInv
  <2>4. CASE Close(c, RemoveClient(S, i, k), Without(me), out)
    <3> DEFINE T == RemoveClient(S, i, k)
    <3>1. /\ T \in Seq(Session)
          /\ HostsDiffer(T)
          /\ RolesDiffer(S) => RolesDiffer(T)
          /\ DOMAIN T = DOMAIN S
          /\ \A j \in DOMAIN S :
                /\ T[j].host = S[j].host
                /\ \A l \in DOMAIN T[j].clients :
                      \E m \in DOMAIN S[j].clients :
                          T[j].clients[l] = S[j].clients[m] /\ (j = i => m # k)
      BY DropClient
    <3>2. Close(c, T, Without(me), out)
      BY <2>4
    <3> HIDE DEF T
    <3>3. ASSUME ~strayed'
          PROVE  Known(T, Without(me))
      <4>1. Known(T, users)
        BY <3>1, <3>3 DEF Known
      <4>2. \A j \in DOMAIN T :
               /\ T[j].host # me
               /\ \A l \in DOMAIN T[j].clients : T[j].clients[l] # me
        BY <2>2, <3>1, <3>3
      <4> QED BY <1>1, <3>1, <4>1, <4>2, KnownWithout
    <3> QED BY <1>1, <1>2, <2>1, <3>1, <3>2, <3>3, CloseKeepsInv
  <2> QED BY <2>1, <2>3, <2>4
<1> QED BY <1>3, <1>4, <1>5, <1>6 DEF removeSelf

(***************************************************************************)
(* The steps of the distributor.                                           *)
(***************************************************************************)

\* The invariant, as facts about the session list.
LEMMA SessionFacts ==
    ASSUME Inv
    PROVE  /\ sessions \in Seq(Session)
           /\ HostsDiffer(sessions)
           /\ ~strayed => RolesDiffer(sessions) /\ Known(sessions, users)
           /\ users \in [Name -> Channel \cup {NoChannel}]
           /\ strayed \in BOOLEAN
  BY DEF Inv, TypeOK, UniqueHost, OneRole, NoDangling, HostsDiffer, RolesDiffer,
         Known, Registered

\* Conversely, a step that leaves the connections alone keeps the invariant when
\* the new session list has these properties.
LEMMA SessionStep ==
    ASSUME Inv, sessions' \in Seq(Session), HostsDiffer(sessions'),
           strayed' \in BOOLEAN,
           ~strayed' => ~strayed /\ RolesDiffer(sessions') /\ Known(sessions', users),
           sent' \in Seq(Write), UNCHANGED <<users, selfName, chan, running>>
    PROVE  Inv'
<1>1. TypeOK'
  BY DEF Inv, TypeOK
<1>2. UniqueHost'
  BY DEF UniqueHost, HostsDiffer
<1>3. NameOwner'
  BY DEF Inv, NameOwner
<1>4. OneRole' /\ NoDangling'
  BY DEF OneRole, NoDangling, RolesDiffer, Known, Registered
<1>5. NoZombie'
  BY DEF Inv, NoZombie
<1> QED BY <1>1, <1>2, <1>3, <1>4, <1>5 DEF Inv

\* A step that changes the state of one live connection and nothing else.
LEMMA ChannelStep ==
    ASSUME Inv, NEW c \in Channel, NEW to \in Live, chan[c] \in Live,
           chan' = [chan EXCEPT ![c] = to], sent' \in Seq(Write),
           UNCHANGED <<users, sessions, selfName, running, strayed>>
    PROVE  Inv'
<1>1. TypeOK'
  BY DEF Inv, TypeOK, Live, ChanState
<1>2. UniqueHost' /\ OneRole' /\ NoDangling'
  BY DEF Inv, UniqueHost, OneRole, NoDangling, Registered
<1>3. NameOwner'
  BY DEF Inv, NameOwner, TypeOK, Live
<1>4. NoZombie'
  BY DEF Inv, NoZombie, TypeOK, Live
<1> QED BY <1>1, <1>2, <1>3, <1>4 DEF Inv

\* A handler that writes nothing.
LEMMA EmptyWrites == <<>> \in Seq(Write)
  BY EmptySeq

\* A packet for one channel.
LEMMA UnicastWrite ==
    ASSUME NEW c \in Channel, NEW pkt \in Packet
    PROVE  sendProto(pkt, {c}) \in Write
  BY DEF sendProto, Write

\* A handler that only answers keeps the invariant.
LEMMA AnswerKeepsInv ==
    ASSUME Inv, NEW c \in Channel, NEW out \in Seq(Write), Answer(c, out)
    PROVE  Inv'
<1>1. /\ sent' = out
      /\ UNCHANGED <<users, sessions, selfName, chan, running, strayed>>
  BY DEF Answer
<1> QED BY <1>1, SessionFacts, SessionStep

\* The connection events keep the invariant.
LEMMA ConnectionEventKeepsInv ==
    ASSUME Inv, NEW c \in Channel, ConnectionEvent(c)
    PROVE  Inv'
<1>1. CASE channelActive(c)
  <2>1. /\ chan[c] = "new"
        /\ chan' = [chan EXCEPT ![c] = "open"]
        /\ running' = [running EXCEPT ![c] = TRUE]
        /\ sent' = <<>>
        /\ UNCHANGED <<users, sessions, selfName, strayed>>
    BY <1>1 DEF channelActive
  <2>2. TypeOK'
    BY <2>1, EmptyWrites DEF Inv, TypeOK, ChanState
  <2>3. UniqueHost' /\ OneRole' /\ NoDangling'
    BY <2>1 DEF Inv, UniqueHost, OneRole, NoDangling, Registered
  <2>4. NameOwner'
    BY <2>1 DEF Inv, NameOwner, TypeOK
  <2>5. NoZombie'
    BY <2>1 DEF Inv, NoZombie, TypeOK
  <2> QED BY <2>2, <2>3, <2>4, <2>5 DEF Inv
<1>2. CASE PeerCloses(c)
  BY <1>2, EmptyWrites, ChannelStep DEF PeerCloses, Live
<1>3. CASE ReadEnds(c)
  BY <1>3, EmptyWrites, ChannelStep DEF ReadEnds, Live
<1>4. CASE ConnectionReset(c)
  <2>1. /\ chan[c] \in Live
        /\ removeSelf(c, sessions, <<>>, chan[c])
        /\ strayed' = strayed
    BY <1>4 DEF ConnectionReset, exceptionCaught, Live
  <2> QED BY <2>1, EmptyWrites, SessionFacts, RemoveSelfKeepsInv
<1>5. CASE HeartbeatTimeout(c)
  <2>1. /\ removeSelf(c, sessions, <<>>, chan[c])
        /\ strayed' = strayed
    BY <1>5 DEF HeartbeatTimeout
  <2>2. chan[c] \in Live
    BY <1>5 DEF HeartbeatTimeout, Inv, TypeOK, ChanState, Live
  <2> QED BY <2>1, <2>2, EmptyWrites, SessionFacts, RemoveSelfKeepsInv
<1> QED BY <1>1, <1>2, <1>3, <1>4, <1>5 DEF ConnectionEvent

\* An exception in a handler keeps the invariant when the session list the
\* handler had made so far would.
LEMMA ExceptionKeepsInv ==
    ASSUME Inv, NEW c \in Channel, Handling(c),
           NEW S \in Seq(Session), HostsDiffer(S),
           strayed' \in BOOLEAN,
           ~strayed' => ~strayed /\ RolesDiffer(S) /\ Known(S, users),
           NEW out \in Seq(Write),
           exceptionCaught(c, S, out)
    PROVE  Inv'
<1> DEFINE left == IF chan[c] = "closing" THEN "gone" ELSE chan[c]
<1>1. chan[c] \in Live /\ left \in Live
  BY DEF Handling, Live
<1>2. removeSelf(c, S, out, left)
  BY DEF exceptionCaught
<1> HIDE DEF left
<1> QED BY <1>1, <1>2, RemoveSelfKeepsInv

\* onNewUser keeps the invariant: only a free name is taken.
LEMMA NewUserKeepsInv ==
    ASSUME Inv, NEW c \in Channel, NEW n \in Name, onNewUser(c, n)
    PROVE  Inv'
<1>1. CASE onNewUserAccepted(c, n)
  <2>1. /\ Handling(c)
        /\ users[n] = NoChannel
        /\ users' = [users EXCEPT ![n] = c]
        /\ selfName' = [selfName EXCEPT ![c] = n]
        /\ sent' = <<sendProto(Pkt("SUCCESS"), {c}),
                     sendProto(Pkt("USER_LIST"), values([users EXCEPT ![n] = c]))>>
        /\ UNCHANGED <<sessions, chan, running, strayed>>
    BY <1>1 DEF onNewUserAccepted, Registered
  <2>2. sent' \in Seq(Write)
    <3>1. Pkt("SUCCESS") \in Packet /\ Pkt("USER_LIST") \in Packet
      BY PacketTypes DEF PacketType
    <3>2. values([users EXCEPT ![n] = c]) \subseteq Channel
      BY SessionFacts DEF values
    <3>3. /\ sendProto(Pkt("SUCCESS"), {c}) \in Write
          /\ sendProto(Pkt("USER_LIST"), values([users EXCEPT ![n] = c])) \in Write
      BY <3>1, <3>2 DEF sendProto, Write
    <3> QED BY <2>1, <3>3
  <2>3. TypeOK'
    BY <2>1, <2>2 DEF Inv, TypeOK, Handling
  <2>4. UniqueHost' /\ OneRole'
    BY <2>1 DEF Inv, UniqueHost, OneRole
  <2>5. NameOwner'
    <3>1. SUFFICES ASSUME NEW d \in Channel, chan[d] \in Live, selfName'[d] # Anon
                   PROVE  users'[selfName'[d]] = d
      BY <2>1 DEF NameOwner, Live
    <3>2. CASE d = c
      BY <2>1, <3>2 DEF Inv, TypeOK
    <3>3. CASE d # c
      <4>1. selfName'[d] = selfName[d] /\ selfName[d] \in Name
        BY <2>1, <3>3 DEF Inv, TypeOK
      <4>2. users[selfName[d]] = d
        BY <3>1, <4>1 DEF Inv, NameOwner, Live
      <4>3. selfName[d] # n
        BY <2>1, <4>2, NoChannelAssumption
      <4> QED BY <2>1, <4>1, <4>2, <4>3 DEF Inv, TypeOK
    <3> QED BY <3>2, <3>3
  <2>6. NoDangling'
    <3>1. SUFFICES ASSUME ~strayed, NEW i \in DOMAIN sessions
                   PROVE  /\ users'[sessions[i].host] # NoChannel
                          /\ \A k \in DOMAIN sessions[i].clients :
                                users'[sessions[i].clients[k]] # NoChannel
      BY <2>1 DEF NoDangling, Registered
    <3>2. /\ sessions[i].host \in Name
          /\ \A k \in DOMAIN sessions[i].clients : sessions[i].clients[k] \in Name
      BY SessionFacts, SessionFields
    <3>3. \A m \in Name : users[m] # NoChannel => users'[m] # NoChannel
      BY <2>1, SessionFacts, NoChannelAssumption
    <3>4. Known(sessions, users)
      BY <3>1, SessionFacts
    <3> QED BY <3>2, <3>3, <3>4 DEF Known
  <2>7. NoZombie'
    BY <2>1 DEF Inv, NoZombie
  <2> QED BY <2>3, <2>4, <2>5, <2>6, <2>7 DEF Inv
<1>2. CASE onNewUserTaken(c, n)
  <2>1. Pkt("NAME_TAKEN") \in Packet
    BY PacketTypes DEF PacketType
  <2>2. <<sendProto(Pkt("NAME_TAKEN"), {c})>> \in Seq(Write)
    BY <2>1, UnicastWrite
  <2> QED BY <1>2, <2>2, AnswerKeepsInv DEF onNewUserTaken
<1> QED BY <1>1, <1>2 DEF onNewUser

\* A registered name that no session mentions.
Unmentioned(n) ==
    /\ users[n] # NoChannel
    /\ \A i \in DOMAIN sessions :
          /\ sessions[i].host # n
          /\ \A k \in DOMAIN sessions[i].clients : sessions[i].clients[k] # n

\* A request that does not stray comes from such a name.
LEMMA NotStraying ==
    ASSUME Inv, NEW c \in Channel, NEW n \in Name, ~Strays(c, n)
    PROVE  selfName[c] # n /\ Unmentioned(selfName[c])
<1>1. \A i \in DOMAIN sessions :
         DOMAIN sessions[i].clients = 1 .. Len(sessions[i].clients)
  BY SessionFacts, SessionFields, LenProperties
<1> QED BY <1>1, NoChannelAssumption DEF Strays, Involves, Contains, Unmentioned

\* The session list after a join.
LEMMA JoinedProperties ==
    ASSUME Inv, NEW i \in DOMAIN sessions, NEW me \in Name
    PROVE  /\ Joined(i, me) \in Seq(Session)
           /\ HostsDiffer(Joined(i, me))
           /\ ~strayed /\ Unmentioned(me)
                 => RolesDiffer(Joined(i, me)) /\ Known(Joined(i, me), users)
<1> DEFINE x == Append(sessions[i].clients, me)
           T == [sessions EXCEPT ![i].clients = x]
           len == Len(sessions[i].clients)
<1>1. Joined(i, me) = T
  BY DEF Joined
<1>2. sessions[i].clients \in Seq(Name)
  BY SessionFacts, SessionFields
<1>3. /\ x \in Seq(Name)
      /\ len \in Nat
      /\ DOMAIN sessions[i].clients = 1 .. len
      /\ DOMAIN x = 1 .. (len + 1)
      /\ \A k \in 1 .. len : x[k] = sessions[i].clients[k]
      /\ x[len + 1] = me
  BY <1>2, AppendedProperties
<1> HIDE DEF x, len
<1>4. /\ T \in Seq(Session)
      /\ DOMAIN T = DOMAIN sessions
      /\ \A j \in DOMAIN sessions :
            /\ T[j].host = sessions[j].host
            /\ T[j].clients = IF j = i THEN x ELSE sessions[j].clients
  BY <1>3, SessionFacts, EditClients
<1> HIDE DEF T
<1>5. HostsDiffer(T)
  BY <1>4, SessionFacts DEF HostsDiffer
<1>6. ASSUME ~strayed, Unmentioned(me)
      PROVE  RolesDiffer(T) /\ Known(T, users)
  <2>1. RolesDiffer(sessions) /\ Known(sessions, users)
    BY <1>6, SessionFacts
  <2>2. ASSUME NEW j \in DOMAIN sessions, NEW k \in DOMAIN T[j].clients
        PROVE  \/ k \in DOMAIN sessions[j].clients /\ T[j].clients[k] = sessions[j].clients[k]
               \/ j = i /\ k = len + 1 /\ T[j].clients[k] = me
    BY <1>3, <1>4
  <2>3. Known(T, users)
    BY <1>4, <1>6, <2>1, <2>2 DEF Known, Unmentioned
  <2>4. RolesDiffer(T)
    BY <1>4, <1>6, <2>1, <2>2 DEF RolesDiffer, Unmentioned
  <2> QED BY <2>3, <2>4
<1> QED BY <1>1, <1>4, <1>5, <1>6

\* The session list after a new session was added.
LEMMA CreatedProperties ==
    ASSUME Inv, NEW n \in Name, NEW me \in Name, users[n] # NoChannel,
           \A j \in DOMAIN sessions : ~Involves(sessions[j], n)
    PROVE  /\ Append(sessions, NewSession(n, me)) \in Seq(Session)
           /\ HostsDiffer(Append(sessions, NewSession(n, me)))
           /\ ~strayed /\ me # n /\ Unmentioned(me)
                 => /\ RolesDiffer(Append(sessions, NewSession(n, me)))
                    /\ Known(Append(sessions, NewSession(n, me)), users)
<1> DEFINE e == NewSession(n, me)
           T == Append(sessions, e)
           len == Len(sessions)
<1>1. /\ e \in Session
      /\ e.host = n
      /\ DOMAIN e.clients = {1}
      /\ e.clients[1] = me
  BY DEF NewSession, Session
<1> HIDE DEF e
<1>2. /\ T \in Seq(Session)
      /\ len \in Nat
      /\ DOMAIN sessions = 1 .. len
      /\ DOMAIN T = 1 .. (len + 1)
      /\ \A j \in DOMAIN sessions : T[j] = sessions[j]
      /\ T[len + 1] = e
  BY <1>1, SessionFacts, AppendedProperties
<1> HIDE DEF T, len
<1>3. ASSUME NEW j \in DOMAIN T
      PROVE  \/ j \in DOMAIN sessions /\ T[j] = sessions[j]
             \/ j = len + 1 /\ T[j] = e
  BY <1>2
<1>4. ASSUME NEW j \in DOMAIN sessions
      PROVE  /\ sessions[j].host # n
             /\ \A k \in DOMAIN sessions[j].clients : sessions[j].clients[k] # n
  <2>1. DOMAIN sessions[j].clients = 1 .. Len(sessions[j].clients)
    BY SessionFacts, SessionFields, LenProperties
  <2> QED BY <2>1 DEF Involves, Contains
<1>5. HostsDiffer(T)
  BY <1>1, <1>3, <1>4, SessionFacts DEF HostsDiffer
<1>6. ASSUME ~strayed, me # n, Unmentioned(me)
      PROVE  RolesDiffer(T) /\ Known(T, users)
  <2>1. RolesDiffer(sessions) /\ Known(sessions, users)
    BY <1>6, SessionFacts
  <2>2. Known(T, users)
    BY <1>1, <1>3, <1>6, <2>1 DEF Known, Unmentioned
  <2>3. RolesDiffer(T)
    BY <1>1, <1>3, <1>4, <1>6, <2>1 DEF RolesDiffer, Unmentioned
  <2> QED BY <2>2, <2>3
<1> QED BY <1>2, <1>5, <1>6 DEF T, e

\* onSessionRequest keeps the invariant.
LEMMA SessionRequestKeepsInv ==
    ASSUME Inv, NEW c \in Channel, NEW n \in Name, onSessionRequest(c, n)
    PROVE  Inv'
<1> DEFINE me == selfName[c]
<1>1. /\ me \in Name
      /\ \A t \in PacketType : sendProto(Pkt(t), {c}) \in Write
  BY PacketTypes, UnicastWrite DEF Inv, TypeOK
<1>2. CASE onSessionRequestUnknown(c, n)
  <2>1. <<sendProto(Pkt("USER_NOT_FOUND"), {c})>> \in Seq(Write)
    BY <1>1 DEF PacketType
  <2> QED BY <1>2, <2>1, AnswerKeepsInv DEF onSessionRequestUnknown
<1>3. CASE onSessionRequestBusy(c, n)
  <2>1. <<sendProto(Pkt("USER_ALREADY_IN_SESSION"), {c})>> \in Seq(Write)
    BY <1>1 DEF PacketType
  <2> QED BY <1>3, <2>1, AnswerKeepsInv DEF onSessionRequestBusy
<1>4. CASE onSessionRequestJoin(c, n)
  <2> DEFINE starting == sendProto(Pkt("SESSION_STARTING"), {c})
  <2>1. PICK i \in DOMAIN sessions :
           \/ exceptionCaught(c, Joined(i, me), <<starting>>)
           \/ /\ sessions' = Joined(i, me)
              /\ sent' = <<starting, sendProto(VideoParams(sessions[i].params), {c})>>
              /\ UNCHANGED <<users, selfName, chan, running>>
    BY <1>4 DEF onSessionRequestJoin
  <2>2. /\ Handling(c)
        /\ strayed' \in BOOLEAN
        /\ ~strayed' => ~strayed /\ ~Strays(c, n)
    BY <1>4, SessionFacts DEF onSessionRequestJoin
  <2>3. /\ starting \in Write
        /\ sendProto(VideoParams(sessions[i].params), {c}) \in Write
    <3>1. VideoParams(sessions[i].params) \in Packet
      BY SessionFacts, SessionFields, PacketTypes
    <3> QED BY <1>1, <3>1, UnicastWrite DEF PacketType
  <2> HIDE DEF starting
  <2>4. <<starting>> \in Seq(Write)
    BY <2>3
  <2>5. /\ Joined(i, me) \in Seq(Session)
        /\ HostsDiffer(Joined(i, me))
    BY <1>1, JoinedProperties
  <2>6. ~strayed' => RolesDiffer(Joined(i, me)) /\ Known(Joined(i, me), users)
    BY <1>1, <2>2, NotStraying, JoinedProperties
  <2>7. CASE exceptionCaught(c, Joined(i, me), <<starting>>)
    BY <2>2, <2>4, <2>5, <2>6, <2>7, ExceptionKeepsInv
  <2>8. CASE /\ sessions' = Joined(i, me)
             /\ sent' = <<starting, sendProto(VideoParams(sessions[i].params), {c})>>
             /\ UNCHANGED <<users, selfName, chan, running>>
    <3>1. sent' \in Seq(Write)
      BY <2>3, <2>8
    <3> QED BY <2>2, <2>5, <2>6, <2>8, <3>1, SessionStep
  <2> QED BY <2>1, <2>7, <2>8
<1>5. CASE onSessionRequestCreate(c, n)
  <2> DEFINE T == Append(sessions, NewSession(n, me))
  <2>1. /\ users[n] # NoChannel
        /\ \A i \in DOMAIN sessions : ~Involves(sessions[i], n)
        /\ sessions' = T
        /\ sent' = <<sendProto(Pkt("SESSION_STARTING"), {c}),
                     sendProto(Pkt("SESSION_REQUEST"), {users[n]})>>
        /\ strayed' \in BOOLEAN
        /\ ~strayed' => ~strayed /\ ~Strays(c, n)
        /\ UNCHANGED <<users, selfName, chan, running>>
    BY <1>5, SessionFacts DEF onSessionRequestCreate, Create, Registered
  <2>2. sent' \in Seq(Write)
    <3>1. users[n] \in Channel
      BY <2>1, SessionFacts
    <3>2. Pkt("SESSION_REQUEST") \in Packet
      BY PacketTypes DEF PacketType
    <3>3. sendProto(Pkt("SESSION_REQUEST"), {users[n]}) \in Write
      BY <3>1, <3>2, UnicastWrite
    <3>4. sendProto(Pkt("SESSION_STARTING"), {c}) \in Write
      BY <1>1 DEF PacketType
    <3> QED BY <2>1, <3>3, <3>4
  <2>3. T \in Seq(Session) /\ HostsDiffer(T)
    BY <1>1, <2>1, CreatedProperties
  <2>4. ~strayed' => RolesDiffer(T) /\ Known(T, users)
    BY <1>1, <2>1, NotStraying, CreatedProperties
  <2> HIDE DEF T
  <2> QED BY <2>1, <2>2, <2>3, <2>4, SessionStep
<1> QED BY <1>2, <1>3, <1>4, <1>5 DEF onSessionRequest

\* onSessionClose keeps the invariant.
LEMMA SessionCloseKeepsInv ==
    ASSUME Inv, NEW c \in Channel,
           \/ onSessionCloseThrows(c)
           \/ onSessionCloseClient(c)
           \/ onSessionCloseHost(c)
           \/ onSessionCloseNobody(c)
    PROVE  Inv'
<1> DEFINE notice == CloseNotice(selfName[c])
<1>1. <<notice>> \in Seq(Write)
  <2>1. IsLoop(ToldOfClose(selfName[c]))
    BY SessionFacts, ClientsOfLoop DEF ToldOfClose, HostedBy
  <2>2. Pkt("SESSION_CLOSE") \in Packet
    BY PacketTypes DEF PacketType
  <2>3. notice \in Write
    BY <2>1, <2>2, SessionFacts, LoopWrites DEF CloseNotice
  <2> HIDE DEF notice
  <2> QED BY <2>3
<1> HIDE DEF notice
<1>2. CASE onSessionCloseThrows(c)
  <2>1. /\ Handling(c)
        /\ exceptionCaught(c, sessions, <<notice>>)
        /\ strayed' = strayed
    BY <1>2 DEF onSessionCloseThrows, notice
  <2> QED BY <1>1, <2>1, SessionFacts, ExceptionKeepsInv
<1>3. CASE onSessionCloseClient(c)
  <2>1. PICK i \in DOMAIN sessions : \E k \in DOMAIN sessions[i].clients :
           sessions' = RemoveClient(sessions, i, k)
    BY <1>3 DEF onSessionCloseClient
  <2>2. PICK k \in DOMAIN sessions[i].clients : sessions' = RemoveClient(sessions, i, k)
    BY <2>1
  <2>3. /\ sent' = <<notice>>
        /\ UNCHANGED <<users, selfName, chan, running, strayed>>
    BY <1>3 DEF onSessionCloseClient, notice
  <2>4. /\ sessions' \in Seq(Session)
        /\ HostsDiffer(sessions')
        /\ RolesDiffer(sessions) => RolesDiffer(sessions')
        /\ Known(sessions, users) => Known(sessions', users)
    <3> DEFINE T == RemoveClient(sessions, i, k)
    <3>1. /\ T \in Seq(Session)
          /\ HostsDiffer(T)
          /\ RolesDiffer(sessions) => RolesDiffer(T)
          /\ DOMAIN T = DOMAIN sessions
          /\ \A j \in DOMAIN sessions :
                /\ T[j].host = sessions[j].host
                /\ \A l \in DOMAIN T[j].clients :
                      \E m \in DOMAIN sessions[j].clients :
                          T[j].clients[l] = sessions[j].clients[m]
      BY SessionFacts, DropClient
    <3> HIDE DEF T
    <3>2. Known(sessions, users) => Known(T, users)
      BY <3>1 DEF Known
    <3> QED BY <2>2, <3>1, <3>2 DEF T
  <2> QED BY <1>1, <2>3, <2>4, SessionFacts, SessionStep
<1>4. CASE onSessionCloseHost(c)
  <2>1. PICK i \in DOMAIN sessions : sessions' = RemoveAt(sessions, i)
    BY <1>4 DEF onSessionCloseHost, HostedBy
  <2>2. /\ sent' = <<notice>>
        /\ UNCHANGED <<users, selfName, chan, running, strayed>>
    BY <1>4 DEF onSessionCloseHost, notice
  <2>3. /\ sessions' \in Seq(Session)
        /\ HostsDiffer(sessions')
        /\ RolesDiffer(sessions) => RolesDiffer(sessions')
        /\ Known(sessions, users) => Known(sessions', users)
    <3> DEFINE T == RemoveAt(sessions, i)
    <3>1. /\ T \in Seq(Session)
          /\ HostsDiffer(T)
          /\ RolesDiffer(sessions) => RolesDiffer(T)
          /\ \A j \in DOMAIN T : \E o \in DOMAIN sessions : T[j] = sessions[o]
      BY SessionFacts, DropSession
    <3> HIDE DEF T
    <3>2. Known(sessions, users) => Known(T, users)
      BY <3>1 DEF Known
    <3> QED BY <2>1, <3>1, <3>2 DEF T
  <2> QED BY <1>1, <2>2, <2>3, SessionFacts, SessionStep
<1>5. CASE onSessionCloseNobody(c)
  BY <1>5, EmptyWrites, AnswerKeepsInv DEF onSessionCloseNobody
<1> QED BY <1>2, <1>3, <1>4, <1>5

\* onVideoParams keeps the invariant: it changes neither hosts nor clients.
LEMMA VideoParamsKeepsInv ==
    ASSUME Inv, NEW c \in Channel, NEW p \in Param, onVideoParams(c, p)
    PROVE  Inv'
<1> DEFINE mine == HostedBy(sessions, selfName[c])
           viewers == ClientsOf(sessions, mine)
           stored == [i \in DOMAIN sessions |->
                         IF i \in mine /\ \A r \in Missing(viewers) : i <= r[1]
                         THEN [sessions[i] EXCEPT !.params = p]
                         ELSE sessions[i]]
           wrote == <<sendProto(VideoParams(p), Reached(viewers))>>
<1>1. wrote \in Seq(Write)
  <2>1. IsLoop(viewers)
    BY SessionFacts, ClientsOfLoop DEF HostedBy
  <2>2. VideoParams(p) \in Packet
    BY PacketTypes
  <2> HIDE DEF viewers
  <2>3. sendProto(VideoParams(p), Reached(viewers)) \in Write
    BY <2>1, <2>2, SessionFacts, LoopWrites
  <2> QED BY <2>3
<1>2. /\ Handling(c)
      /\ strayed' = strayed
      /\ \/ exceptionCaught(c, stored, wrote)
         \/ sessions' = stored /\ sent' = wrote /\ UNCHANGED <<users, selfName, chan, running>>
  BY DEF onVideoParams
<1> HIDE DEF viewers, mine, wrote
<1>3. ASSUME NEW i \in DOMAIN sessions
      PROVE  /\ stored[i] \in Session
             /\ stored[i].host = sessions[i].host
             /\ stored[i].clients = sessions[i].clients
  <2>1. sessions[i] \in Session
    BY SessionFacts, SessionFields
  <2> QED BY <2>1 DEF Session
<1>4. DOMAIN stored = DOMAIN sessions
  OBVIOUS
<1> HIDE DEF stored
<1>5. stored \in Seq(Session)
  <2>1. Len(sessions) \in Nat /\ DOMAIN sessions = 1 .. Len(sessions)
    BY SessionFacts, LenProperties
  <2>2. stored = [i \in 1 .. Len(sessions) |-> stored[i]]
    BY <1>4, <2>1 DEF stored
  <2>3. stored \in [1 .. Len(sessions) -> Session]
    BY <1>3, <2>1, <2>2
  <2> QED BY <2>1, <2>3
<1>6. /\ HostsDiffer(stored)
      /\ RolesDiffer(sessions) => RolesDiffer(stored)
      /\ Known(sessions, users) => Known(stored, users)
  BY <1>3, <1>4, SessionFacts DEF HostsDiffer, RolesDiffer, Known
<1>7. CASE exceptionCaught(c, stored, wrote)
  BY <1>1, <1>2, <1>5, <1>6, <1>7, SessionFacts, ExceptionKeepsInv
<1>8. CASE sessions' = stored /\ sent' = wrote /\ UNCHANGED <<users, selfName, chan, running>>
  BY <1>1, <1>2, <1>5, <1>6, <1>8, SessionFacts, SessionStep
<1> QED BY <1>2, <1>7, <1>8

\* A relayed packet keeps the invariant.
LEMMA RelayKeepsInv ==
    ASSUME Inv, NEW c \in Channel, NEW nm, IsLoop(nm), NEW pkt \in Packet,
           Relay(c, nm, pkt)
    PROVE  Inv'
<1> DEFINE wrote == <<sendProto(pkt, Reached(nm))>>
<1>1. wrote \in Seq(Write)
  BY SessionFacts, LoopWrites
<1>2. /\ Handling(c)
      /\ strayed' = strayed
      /\ \/ exceptionCaught(c, sessions, wrote)
         \/ sent' = wrote /\ UNCHANGED <<users, sessions, selfName, chan, running>>
  BY DEF Relay
<1> HIDE DEF wrote
<1>3. CASE exceptionCaught(c, sessions, wrote)
  BY <1>1, <1>2, <1>3, SessionFacts, ExceptionKeepsInv
<1>4. CASE sent' = wrote /\ UNCHANGED <<users, sessions, selfName, chan, running>>
  BY <1>1, <1>2, <1>4, SessionFacts, SessionStep
<1> QED BY <1>2, <1>3, <1>4

\* Every packet handler keeps the invariant.
LEMMA HandlePacketKeepsInv ==
    ASSUME Inv, NEW c \in Channel, HandlePacket(c)
    PROVE  Inv'
<1>1. \A t \in PacketType : Pkt(t) \in Packet /\ <<sendProto(Pkt(t), {c})>> \in Seq(Write)
  BY PacketTypes, UnicastWrite
<1>2. CASE onHandshake(c)
  BY <1>1, <1>2, AnswerKeepsInv DEF onHandshake, PacketType
<1>3. CASE onHandshakeRefused(c)
  BY <1>3, EmptyWrites, ChannelStep DEF onHandshakeRefused, Handling, Live
<1>4. CASE onHeartbeat(c)
  BY <1>1, <1>4, AnswerKeepsInv DEF onHeartbeat, PacketType
<1>5. CASE \E p \in Param : onVideoParams(c, p)
  BY <1>5, VideoParamsKeepsInv
<1>6. CASE Data(c)
  <2>1. IsLoop(ClientsOf(sessions, HostedBy(sessions, selfName[c])))
    BY SessionFacts, ClientsOfLoop DEF HostedBy
  <2>2. Pkt("DATA") \in Packet
    BY <1>1 DEF PacketType
  <2> QED BY <1>6, <2>1, <2>2, RelayKeepsInv DEF Data
<1>7. CASE ControlInput(c)
  <2> DEFINE I == {i \in DOMAIN sessions : Contains(sessions[i].clients, selfName[c])}
  <2>1. IsLoop(HostOf(sessions, I))
    BY SessionFacts, HostOfLoop
  <2>2. Pkt("CONTROL_INPUT") \in Packet
    BY <1>1 DEF PacketType
  <2> QED BY <1>7, <2>1, <2>2, RelayKeepsInv DEF ControlInput
<1>8. CASE \E n \in Wants[c] : onNewUser(c, n)
  BY <1>8, NewUserKeepsInv, WantsAssumption
<1>9. CASE \E n \in Name : onSessionRequest(c, n)
  BY <1>9, SessionRequestKeepsInv
<1> QED BY <1>2, <1>3, <1>4, <1>5, <1>6, <1>7, <1>8, <1>9, SessionCloseKeepsInv
        DEF HandlePacket

\* The server starts within the invariant.
LEMMA InitInv ==
    ASSUME Init
    PROVE  Inv
<1>1. sessions = <<>> /\ sessions \in Seq(Session) /\ DOMAIN sessions = {}
  BY EmptySeq DEF Init
<1>2. TypeOK
  BY <1>1, EmptyWrites, AnonAssumption DEF Init, TypeOK, ChanState
<1>3. UniqueHost /\ OneRole /\ NoDangling
  BY <1>1 DEF UniqueHost, OneRole, NoDangling
<1>4. NameOwner /\ NoZombie
  BY DEF Init, NameOwner, NoZombie
<1> QED BY <1>2, <1>3, <1>4 DEF Inv

\* Every step of the server keeps the invariant.
LEMMA NextKeepsInv ==
    ASSUME Inv, [Next]_vars
    PROVE  Inv'
<1>1. CASE Next
  BY <1>1, ConnectionEventKeepsInv, HandlePacketKeepsInv DEF Next
<1>2. CASE UNCHANGED vars
  <2>1. UNCHANGED <<users, sessions, selfName, chan, running, sent, strayed>>
    BY <1>2 DEF vars
  <2>2. sent' \in Seq(Write)
    BY <2>1 DEF Inv, TypeOK
  <2> QED BY <2>1, <2>2, SessionFacts, SessionStep
<1> QED BY <1>1, <1>2

\* The invariant holds always.
LEMMA Invariance == Spec => []Inv
<1>1. Init => Inv
  BY InitInv
<1>2. Inv /\ [Next]_vars => Inv'
  BY NextKeepsInv
<1> QED BY <1>1, <1>2, PTL DEF Spec

(***************************************************************************)
(* What a step does to the members of a session.                           *)
(***************************************************************************)

\* Nobody is taken out of S: it has the hosts and clients of the session list.
Covers(S) ==
    /\ S \in Seq(Session)
    /\ \A i \in DOMAIN sessions :
          /\ i \in DOMAIN S
          /\ S[i].host = sessions[i].host
          /\ \A k \in DOMAIN sessions[i].clients :
                \E m \in DOMAIN S[i].clients : S[i].clients[m] = sessions[i].clients[k]

\* Nobody is new in T: its sessions are sessions of S, less some clients.
Derived(S, T) ==
    \A j \in DOMAIN T : \E i \in DOMAIN S :
        /\ T[j].host = S[i].host
        /\ T[j].params = S[i].params
        /\ \A k \in DOMAIN T[j].clients :
              \E m \in DOMAIN S[i].clients : T[j].clients[k] = S[i].clients[m]

\* What CloseIsAnnounced says of a step.
Announced ==
    \A i \in DOMAIN sessions :
        (\A j \in DOMAIN sessions' : sessions'[j].host # sessions[i].host) =>
            \A k \in DOMAIN sessions[i].clients :
                LET d == users'[sessions[i].clients[k]]
                IN  d = NoChannel \/ Delivers(sent', Pkt("SESSION_CLOSE"), d)

\* What ParamsReachClients says of a step.
ParamsReached ==
    ~strayed' =>
        \A j \in DOMAIN sessions' : \A k \in DOMAIN sessions'[j].clients :
            LET s == sessions'[j]
            IN  \/ s.params = NoParam
                \/ \E i \in DOMAIN sessions :
                      /\ sessions[i].host = s.host
                      /\ sessions[i].params = s.params
                      /\ Contains(sessions[i].clients, s.clients[k])
                \/ Delivers(sent', VideoParams(s.params), users'[s.clients[k]])

\* Where every host keeps a session there is nothing to announce.
LEMMA HostsStay ==
    ASSUME \A i \in DOMAIN sessions : \E j \in DOMAIN sessions' : sessions'[j].host = sessions[i].host
    PROVE  Announced
BY DEF Announced

\* The session list itself.
LEMMA SessionsCover ==
    ASSUME Inv
    PROVE  Covers(sessions) /\ Derived(sessions, sessions)
BY SessionFacts DEF Covers, Derived

\* A list with one entry less still has every other one.
LEMMA RemoveAtKeeps ==
    ASSUME NEW T, NEW s \in Seq(T), NEW i \in DOMAIN s, NEW o \in DOMAIN s, o # i
    PROVE  \E j \in DOMAIN RemoveAt(s, i) : RemoveAt(s, i)[j] = s[o]
<1>1. /\ Len(s) \in Nat
      /\ DOMAIN s = 1 .. Len(s)
      /\ DOMAIN RemoveAt(s, i) = 1 .. (Len(s) - 1)
      /\ \A j \in 1 .. (Len(s) - 1) : RemoveAt(s, i)[j] = IF j < i THEN s[j] ELSE s[j + 1]
  BY RemoveAtProperties, LenProperties
<1>2. CASE o < i
  <2>1. o \in 1 .. (Len(s) - 1)
    BY <1>1, <1>2
  <2> QED BY <1>1, <1>2, <2>1
<1>3. CASE ~(o < i)
  <2>1. o - 1 \in 1 .. (Len(s) - 1) /\ ~(o - 1 < i) /\ (o - 1) + 1 = o
    BY <1>1, <1>3
  <2>2. RemoveAt(s, i)[o - 1] = s[o]
    BY <1>1, <2>1
  <2> QED BY <1>1, <2>1, <2>2
<1> QED BY <1>2, <1>3

\* ... and no entry that was not there.
LEMMA RemoveAtAddsNothing ==
    ASSUME NEW T, NEW s \in Seq(T), NEW i \in DOMAIN s
    PROVE  \A j \in DOMAIN RemoveAt(s, i) : \E o \in DOMAIN s : RemoveAt(s, i)[j] = s[o]
<1>1. /\ Len(s) \in Nat
      /\ DOMAIN s = 1 .. Len(s)
      /\ DOMAIN RemoveAt(s, i) = 1 .. (Len(s) - 1)
      /\ \A j \in 1 .. (Len(s) - 1) : RemoveAt(s, i)[j] = IF j < i THEN s[j] ELSE s[j + 1]
  BY RemoveAtProperties, LenProperties
<1>2. TAKE j \in DOMAIN RemoveAt(s, i)
<1>3. j \in DOMAIN s /\ j + 1 \in DOMAIN s
  BY <1>1
<1>4. RemoveAt(s, i)[j] = s[j] \/ RemoveAt(s, i)[j] = s[j + 1]
  BY <1>1
<1> QED BY <1>3, <1>4

\* A loop that does not throw reaches everyone it names.
LEMMA LoopReachesAll ==
    ASSUME NEW S, NEW I, NEW i \in I, NEW k \in DOMAIN S[i].clients, ~Throws(ClientsOf(S, I))
    PROVE  users[S[i].clients[k]] \in Reached(ClientsOf(S, I))
<1> DEFINE nm == ClientsOf(S, I)
<1>1. /\ DOMAIN nm = UNION {{j} \X DOMAIN S[j].clients : j \in I}
      /\ \A p \in DOMAIN nm : nm[p] = S[p[1]].clients[p[2]]
  BY DEF ClientsOf
<1> HIDE DEF nm
<1>2. <<i, k>> \in DOMAIN nm /\ nm[<<i, k>>] = S[i].clients[k]
  BY <1>1
<1>3. Missing(nm) = {}
  BY DEF Throws, nm
<1>4. users[nm[<<i, k>>]] \in Reached(nm)
  BY <1>2, <1>3 DEF Reached
<1> QED BY <1>2, <1>4 DEF nm

\* A session list in which one client was dropped.
LEMMA ClientLeaves ==
    ASSUME NEW S \in Seq(Session), NEW i \in DOMAIN S, NEW k \in DOMAIN S[i].clients
    PROVE  /\ Derived(S, RemoveClient(S, i, k))
           /\ DOMAIN RemoveClient(S, i, k) = DOMAIN S
           /\ \A j \in DOMAIN S : RemoveClient(S, i, k)[j].host = S[j].host
<1> DEFINE x == RemoveAt(S[i].clients, k)
           T == [S EXCEPT ![i].clients = x]
<1>1. S[i].clients \in Seq(Name)
  BY SessionFields
<1>2. /\ x \in Seq(Name)
      /\ \A j \in DOMAIN x : \E m \in DOMAIN S[i].clients : x[j] = S[i].clients[m]
  BY <1>1, RemoveAtProperties, RemoveAtAddsNothing
<1>3. RemoveClient(S, i, k) = T
  BY DEF RemoveClient
<1> HIDE DEF x
<1>4. /\ DOMAIN T = DOMAIN S
      /\ \A j \in DOMAIN S :
            /\ T[j].host = S[j].host
            /\ T[j].params = S[j].params
            /\ T[j].clients = IF j = i THEN x ELSE S[j].clients
  BY <1>2, EditClients
<1> HIDE DEF T
<1>5. Derived(S, T)
  BY <1>2, <1>4 DEF Derived
<1> QED BY <1>3, <1>4, <1>5

\* Delivery by the last of the writes.
LEMMA LastDelivers ==
    ASSUME NEW out \in Seq(Write), NEW w \in Write, NEW d \in w.to
    PROVE  Delivers(Append(out, w), w.pkt, d)
<1>1. /\ DOMAIN Append(out, w) = 1 .. (Len(out) + 1)
      /\ Len(out) \in Nat
      /\ Append(out, w)[Len(out) + 1] = w
  BY AppendedProperties
<1>2. Len(out) + 1 \in DOMAIN Append(out, w)
  BY <1>1
<1> QED BY <1>1, <1>2 DEF Delivers

\* removeSelf of a host tells the clients, that of the last client has nobody to
\* tell, and no other case drops a session.
LEMMA RemoveSelfAnnounces ==
    ASSUME Inv, NEW c \in Channel, NEW S, Covers(S), NEW out \in Seq(Write), NEW left,
           removeSelf(c, S, out, left)
    PROVE  Announced /\ Derived(S, sessions')
<1> DEFINE me == selfName[c]
<1>1. /\ S \in Seq(Session)
      /\ me \in Name
      /\ users \in [Name -> Channel \cup {NoChannel}]
  BY SessionFacts DEF Covers, Inv, TypeOK
<1>2. ASSUME sessions' = S PROVE Announced /\ Derived(S, sessions')
  BY <1>2, HostsStay DEF Covers, Derived
<1>3. CASE RemoveSelfAnonymous(c, S, out)
  BY <1>2, <1>3 DEF RemoveSelfAnonymous, Close
<1>4. CASE RemoveSelfIdle(c, S, out)
  BY <1>2, <1>4 DEF RemoveSelfIdle, Close
<1>5. CASE RemoveSelfHost(c, S, out, left)
  <2>1. PICK i \in DOMAIN S :
           \/ sessions' = S
           \/ /\ ~Throws(ClientsOf(S, {i}))
              /\ sessions' = RemoveAt(S, i)
              /\ users' = Without(me)
              /\ sent' = Append(out, sendProto(Pkt("SESSION_CLOSE"), Reached(ClientsOf(S, {i}))))
    BY <1>5 DEF RemoveSelfHost, Close
  <2>2. CASE sessions' = S
    BY <1>2, <2>2
  <2>3. CASE /\ ~Throws(ClientsOf(S, {i}))
             /\ sessions' = RemoveAt(S, i)
             /\ users' = Without(me)
             /\ sent' = Append(out, sendProto(Pkt("SESSION_CLOSE"), Reached(ClientsOf(S, {i}))))
    <3> DEFINE w == sendProto(Pkt("SESSION_CLOSE"), Reached(ClientsOf(S, {i})))
    <3>1. w \in Write /\ w.pkt = Pkt("SESSION_CLOSE") /\ w.to = Reached(ClientsOf(S, {i}))
      <4>1. IsLoop(ClientsOf(S, {i}))
        BY <1>1, ClientsOfLoop
      <4>2. Pkt("SESSION_CLOSE") \in Packet
        BY PacketTypes DEF PacketType
      <4>3. w \in Write
        BY <1>1, <4>1, <4>2, LoopWrites
      <4> QED BY <4>3 DEF sendProto
    <3>2. sent' = Append(out, w)
      BY <2>3
    <3> HIDE DEF w
    <3>3. Derived(S, sessions')
      <4>1. \A j \in DOMAIN RemoveAt(S, i) : \E o \in DOMAIN S : RemoveAt(S, i)[j] = S[o]
        BY <1>1, RemoveAtAddsNothing
      <4> QED BY <2>3, <4>1 DEF Derived
    <3>4. ASSUME NEW o \in DOMAIN sessions,
                 \A j \in DOMAIN sessions' : sessions'[j].host # sessions[o].host,
                 NEW k \in DOMAIN sessions[o].clients
          PROVE  LET d == users'[sessions[o].clients[k]]
                 IN  d = NoChannel \/ Delivers(sent', Pkt("SESSION_CLOSE"), d)
      <4>1. o \in DOMAIN S /\ S[o].host = sessions[o].host
        BY DEF Covers
      <4>2. o = i
        BY <1>1, <2>3, <3>4, <4>1, RemoveAtKeeps
      <4>3. PICK m \in DOMAIN S[i].clients : S[i].clients[m] = sessions[o].clients[k]
        BY <4>2 DEF Covers
      <4>4. users[S[i].clients[m]] \in w.to
        <5>1. users[S[i].clients[m]] \in Reached(ClientsOf(S, {i}))
          <6>1. i \in {i}
            OBVIOUS
          <6> QED BY ONLY <2>3, <4>3, <6>1, LoopReachesAll, Zenon
        <5> QED BY ONLY <3>1, <5>1, Zenon
      <4>5. S[i].clients[m] \in Name
        BY <1>1, SessionFields
      <4>6. \/ users'[S[i].clients[m]] = NoChannel
            \/ users'[S[i].clients[m]] = users[S[i].clients[m]]
        BY <1>1, <2>3, <4>5 DEF Without
      <4>7. Delivers(sent', Pkt("SESSION_CLOSE"), users[S[i].clients[m]])
        BY <3>1, <3>2, <4>4, LastDelivers
      <4> QED BY <4>3, <4>6, <4>7
    <3>5. Announced
      BY <3>4 DEF Announced
    <3> QED BY <3>3, <3>5
  <2> QED BY <2>1, <2>2, <2>3
<1>6. CASE RemoveSelfClient(c, S, out)
  <2>1. PICK i \in DOMAIN S : \E k \in DOMAIN S[i].clients :
           /\ FirstOccurrence(S[i].clients, me, k)
           /\ \/ Len(S[i].clients) = 1 /\ sessions' = RemoveAt(S, i)
              \/ sessions' = RemoveClient(S, i, k)
           /\ users' = Without(me)
    BY <1>6 DEF RemoveSelfClient, Close
  <2>2. PICK k \in DOMAIN S[i].clients :
           /\ S[i].clients[k] = me
           /\ \/ Len(S[i].clients) = 1 /\ sessions' = RemoveAt(S, i)
              \/ sessions' = RemoveClient(S, i, k)
           /\ users' = Without(me)
    BY <2>1 DEF FirstOccurrence
  <2>3. CASE Len(S[i].clients) = 1 /\ sessions' = RemoveAt(S, i)
    <3>1. Derived(S, sessions')
      <4>1. \A j \in DOMAIN RemoveAt(S, i) : \E o \in DOMAIN S : RemoveAt(S, i)[j] = S[o]
        BY <1>1, RemoveAtAddsNothing
      <4> QED BY <2>3, <4>1 DEF Derived
    <3>2. ASSUME NEW o \in DOMAIN sessions,
                 \A j \in DOMAIN sessions' : sessions'[j].host # sessions[o].host,
                 NEW l \in DOMAIN sessions[o].clients
          PROVE  users'[sessions[o].clients[l]] = NoChannel
      <4>1. o \in DOMAIN S /\ S[o].host = sessions[o].host
        BY DEF Covers
      <4>2. o = i
        BY <1>1, <2>3, <3>2, <4>1, RemoveAtKeeps
      <4>3. PICK m \in DOMAIN S[i].clients : S[i].clients[m] = sessions[o].clients[l]
        BY <4>2 DEF Covers
      <4>4. S[i].clients \in Seq(Name)
        BY <1>1, SessionFields
      <4>5. DOMAIN S[i].clients = {1}
        BY <2>3, <4>4, LenProperties
      <4>6. sessions[o].clients[l] = me
        BY <2>2, <4>3, <4>5
      <4> QED BY <1>1, <2>2, <4>6 DEF Without
    <3>3. Announced
      BY <3>2 DEF Announced
    <3> QED BY <3>1, <3>3
  <2>4. CASE sessions' = RemoveClient(S, i, k)
    BY <1>1, <2>4, ClientLeaves DEF Covers, Announced
  <2> QED BY <2>2, <2>3, <2>4
<1> QED BY <1>3, <1>4, <1>5, <1>6 DEF removeSelf

\* A step that adds nobody and changes no parameters has nothing to pass on.
LEMMA DerivedReached ==
    ASSUME Inv, NEW S \in Seq(Session), Derived(S, sessions'),
           \A i \in DOMAIN S : S[i].params = NoParam \/ (i \in DOMAIN sessions /\ S[i] = sessions[i])
    PROVE  ParamsReached
<1> SUFFICES ASSUME NEW j \in DOMAIN sessions', NEW k \in DOMAIN sessions'[j].clients,
                    sessions'[j].params # NoParam
             PROVE  \E i \in DOMAIN sessions :
                       /\ sessions[i].host = sessions'[j].host
                       /\ sessions[i].params = sessions'[j].params
                       /\ Contains(sessions[i].clients, sessions'[j].clients[k])
  BY DEF ParamsReached
<1>1. PICK i \in DOMAIN S :
         /\ sessions'[j].host = S[i].host
         /\ sessions'[j].params = S[i].params
         /\ \E m \in DOMAIN S[i].clients : sessions'[j].clients[k] = S[i].clients[m]
  BY DEF Derived
<1>2. i \in DOMAIN sessions /\ S[i] = sessions[i]
  BY <1>1
<1>3. DOMAIN sessions[i].clients = 1 .. Len(sessions[i].clients)
  BY <1>2, SessionFacts, SessionFields, LenProperties
<1> QED BY <1>1, <1>2, <1>3 DEF Contains

\* A step that leaves the session list alone.
LEMMA SessionsStay ==
    ASSUME Inv, sessions' = sessions
    PROVE  Announced /\ ParamsReached
BY HostsStay, SessionFacts, SessionsCover, DerivedReached

\* removeSelf on the session list as it was.
LEMMA RemovalReached ==
    ASSUME Inv, NEW c \in Channel, NEW out \in Seq(Write), NEW left,
           removeSelf(c, sessions, out, left)
    PROVE  Announced /\ ParamsReached
BY SessionFacts, SessionsCover, RemoveSelfAnnounces, DerivedReached

\* The same after an exception in a handler.
LEMMA ExceptionReached ==
    ASSUME Inv, NEW c \in Channel, NEW out \in Seq(Write), exceptionCaught(c, sessions, out)
    PROVE  Announced /\ ParamsReached
BY RemovalReached DEF exceptionCaught

\* The connection events.
LEMMA ConnectionEventReached ==
    ASSUME Inv, NEW c \in Channel, ConnectionEvent(c)
    PROVE  Announced /\ ParamsReached
<1>1. CASE channelActive(c) \/ PeerCloses(c) \/ ReadEnds(c)
  BY <1>1, SessionsStay DEF channelActive, PeerCloses, ReadEnds
<1>2. CASE ConnectionReset(c) \/ HeartbeatTimeout(c)
  BY <1>2, EmptyWrites, RemovalReached, ExceptionReached DEF ConnectionReset, HeartbeatTimeout
<1> QED BY <1>1, <1>2 DEF ConnectionEvent

\* The session list after a join covers the old one.
LEMMA JoinedCovers ==
    ASSUME Inv, NEW i \in DOMAIN sessions, NEW me \in Name
    PROVE  /\ Covers(Joined(i, me))
           /\ DOMAIN Joined(i, me) = DOMAIN sessions
           /\ \A j \in DOMAIN sessions :
                 /\ Joined(i, me)[j].host = sessions[j].host
                 /\ Joined(i, me)[j].params = sessions[j].params
                 /\ j # i => Joined(i, me)[j] = sessions[j]
           /\ \A k \in DOMAIN Joined(i, me)[i].clients :
                 \/ Joined(i, me)[i].clients[k] = me
                 \/ Contains(sessions[i].clients, Joined(i, me)[i].clients[k])
<1> DEFINE x == Append(sessions[i].clients, me)
           T == [sessions EXCEPT ![i].clients = x]
           len == Len(sessions[i].clients)
<1>1. Joined(i, me) = T
  BY DEF Joined
<1>2. sessions[i].clients \in Seq(Name)
  BY SessionFacts, SessionFields
<1>3. /\ x \in Seq(Name)
      /\ len \in Nat
      /\ DOMAIN sessions[i].clients = 1 .. len
      /\ DOMAIN x = 1 .. (len + 1)
      /\ \A k \in 1 .. len : x[k] = sessions[i].clients[k]
      /\ x[len + 1] = me
  BY <1>2, AppendedProperties
<1> HIDE DEF x
<1>4. /\ T \in Seq(Session)
      /\ DOMAIN T = DOMAIN sessions
      /\ \A j \in DOMAIN sessions :
            /\ T[j].host = sessions[j].host
            /\ T[j].params = sessions[j].params
            /\ T[j].clients = IF j = i THEN x ELSE sessions[j].clients
  BY <1>3, SessionFacts, EditClients
<1>5. \A j \in DOMAIN sessions : j # i => T[j] = sessions[j]
  OBVIOUS
<1> HIDE DEF T
<1>6. Covers(T)
  <2>1. ASSUME NEW j \in DOMAIN sessions, NEW k \in DOMAIN sessions[j].clients
        PROVE  \E m \in DOMAIN T[j].clients : T[j].clients[m] = sessions[j].clients[k]
    <3>1. CASE j = i
      <4>1. k \in 1 .. (len + 1) /\ k \in 1 .. len
        BY <1>3, <3>1
      <4> QED BY <1>3, <1>4, <3>1, <4>1
    <3>2. CASE j # i
      BY <1>4, <3>2
    <3> QED BY <3>1, <3>2
  <2> QED BY <1>4, <2>1 DEF Covers
<1>7. ASSUME NEW k \in DOMAIN T[i].clients
      PROVE  T[i].clients[k] = me \/ Contains(sessions[i].clients, T[i].clients[k])
  <2>1. k \in 1 .. (len + 1) /\ T[i].clients[k] = x[k]
    BY <1>3, <1>4
  <2>2. CASE k = len + 1
    BY <1>3, <2>1, <2>2
  <2>3. CASE k \in 1 .. len
    BY <1>3, <2>1, <2>3 DEF Contains
  <2> QED BY <1>3, <2>1, <2>2, <2>3
<1> QED BY <1>1, <1>4, <1>5, <1>6, <1>7

\* onSessionRequest drops nobody; who joins a session that has its parameters is
\* sent them.
LEMMA SessionRequestReached ==
    ASSUME Inv, NEW c \in Channel, NEW n \in Name, onSessionRequest(c, n)
    PROVE  Announced /\ ParamsReached
<1> DEFINE me == selfName[c]
<1>1. me \in Name
  BY DEF Inv, TypeOK
<1>2. CASE onSessionRequestUnknown(c, n) \/ onSessionRequestBusy(c, n)
  BY <1>2, SessionsStay DEF onSessionRequestUnknown, onSessionRequestBusy, Answer
<1>3. CASE onSessionRequestJoin(c, n)
  <2> DEFINE starting == sendProto(Pkt("SESSION_STARTING"), {c})
  <2>1. PICK i \in DOMAIN sessions :
           \/ sessions[i].params = NoParam /\ exceptionCaught(c, Joined(i, me), <<starting>>)
           \/ /\ sessions' = Joined(i, me)
              /\ sent' = <<starting, sendProto(VideoParams(sessions[i].params), {c})>>
              /\ UNCHANGED users
    BY <1>3 DEF onSessionRequestJoin
  <2>2. <<starting>> \in Seq(Write)
    <3>1. Pkt("SESSION_STARTING") \in Packet
      BY PacketTypes DEF PacketType
    <3>2. starting \in Write
      BY <3>1, UnicastWrite
    <3> HIDE DEF starting
    <3> QED BY <3>2
  <2> HIDE DEF starting
  <2> DEFINE T == Joined(i, me)
  <2>3. /\ Covers(T)
        /\ DOMAIN T = DOMAIN sessions
        /\ \A j \in DOMAIN sessions :
              /\ T[j].host = sessions[j].host
              /\ T[j].params = sessions[j].params
              /\ j # i => T[j] = sessions[j]
        /\ \A k \in DOMAIN T[i].clients :
              T[i].clients[k] = me \/ Contains(sessions[i].clients, T[i].clients[k])
    BY <1>1, JoinedCovers
  <2> HIDE DEF T
  <2>4. CASE sessions[i].params = NoParam /\ exceptionCaught(c, T, <<starting>>)
    <3>1. Announced /\ Derived(T, sessions')
      BY <2>2, <2>3, <2>4, RemoveSelfAnnounces DEF exceptionCaught
    <3>2. \A j \in DOMAIN T : T[j].params = NoParam \/ (j \in DOMAIN sessions /\ T[j] = sessions[j])
      BY <2>3, <2>4
    <3>3. T \in Seq(Session)
      BY <2>3 DEF Covers
    <3> QED BY <3>1, <3>2, <3>3, DerivedReached
  <2>5. CASE /\ sessions' = T
             /\ sent' = <<starting, sendProto(VideoParams(sessions[i].params), {c})>>
             /\ UNCHANGED users
    <3>1. Announced
      BY <2>3, <2>5, HostsStay
    <3>2. ASSUME ~strayed', NEW j \in DOMAIN T, NEW k \in DOMAIN T[j].clients
          PROVE  \/ \E o \in DOMAIN sessions :
                       /\ sessions[o].host = T[j].host
                       /\ sessions[o].params = T[j].params
                       /\ Contains(sessions[o].clients, T[j].clients[k])
                 \/ Delivers(sent', VideoParams(T[j].params), users[T[j].clients[k]])
      <4>1. CASE j # i
        <5>1. DOMAIN sessions[j].clients = 1 .. Len(sessions[j].clients)
          BY <2>3, SessionFacts, SessionFields, LenProperties
        <5> QED BY <2>3, <4>1, <5>1 DEF Contains
      <4>2. CASE j = i /\ Contains(sessions[i].clients, T[i].clients[k])
        BY <2>3, <4>2
      <4>3. CASE j = i /\ T[i].clients[k] = me
        <5>1. users[me] = c
          BY <1>3, <3>2, SessionFacts DEF onSessionRequestJoin, Strays
        <5>2. /\ sent'[2].pkt = VideoParams(sessions[i].params)
              /\ c \in sent'[2].to
              /\ 2 \in DOMAIN sent'
          BY <2>5 DEF sendProto
        <5> QED BY <2>3, <4>3, <5>1, <5>2 DEF Delivers
      <4> QED BY <2>3, <3>2, <4>1, <4>2, <4>3
    <3>3. ParamsReached
      BY <2>5, <3>2 DEF ParamsReached
    <3> QED BY <3>1, <3>3
  <2> QED BY <2>1, <2>4, <2>5 DEF T
<1>4. CASE onSessionRequestCreate(c, n)
  <2> DEFINE e == NewSession(n, me)
  <2>1. sessions' = Append(sessions, e)
    BY <1>4 DEF onSessionRequestCreate, Create
  <2>2. e \in Session /\ e.params = NoParam
    BY <1>1 DEF NewSession, Session
  <2> HIDE DEF e
  <2>3. /\ sessions' \in Seq(Session)
        /\ Len(sessions) \in Nat
        /\ DOMAIN sessions = 1 .. Len(sessions)
        /\ DOMAIN sessions' = 1 .. (Len(sessions) + 1)
        /\ \A j \in DOMAIN sessions : sessions'[j] = sessions[j]
        /\ sessions'[Len(sessions) + 1] = e
    BY <2>1, <2>2, SessionFacts, AppendedProperties
  <2>4. \A j \in DOMAIN sessions : j \in DOMAIN sessions'
    BY <2>3
  <2>5. \A j \in DOMAIN sessions' : j \in DOMAIN sessions \/ j = Len(sessions) + 1
    BY <2>3
  <2>6. Announced
    BY <2>3, <2>4, HostsStay
  <2>7. Derived(sessions', sessions')
    BY DEF Derived
  <2>8. \A j \in DOMAIN sessions' :
           sessions'[j].params = NoParam \/ (j \in DOMAIN sessions /\ sessions'[j] = sessions[j])
    BY <2>2, <2>3, <2>5
  <2> QED BY <2>3, <2>6, <2>7, <2>8, DerivedReached
<1> QED BY <1>2, <1>3, <1>4 DEF onSessionRequest

\* onSessionClose: a host that closes tells its clients, all of whom are there,
\* and a client that leaves takes nobody else along.
LEMMA SessionCloseReached ==
    ASSUME Inv, NEW c \in Channel,
           \/ onSessionCloseThrows(c)
           \/ onSessionCloseClient(c)
           \/ onSessionCloseHost(c)
           \/ onSessionCloseNobody(c)
    PROVE  Announced /\ ParamsReached
<1> DEFINE me == selfName[c]
           told == ToldOfClose(me)
           notice == CloseNotice(me)
<1>1. notice \in Write /\ notice.pkt = Pkt("SESSION_CLOSE") /\ notice.to = Reached(told)
  <2>1. IsLoop(told)
    BY SessionFacts, ClientsOfLoop DEF ToldOfClose, HostedBy
  <2>2. Pkt("SESSION_CLOSE") \in Packet
    BY PacketTypes DEF PacketType
  <2> HIDE DEF told
  <2>3. sendProto(Pkt("SESSION_CLOSE"), Reached(told)) \in Write
    BY <2>1, <2>2, SessionFacts, LoopWrites
  <2> QED BY <2>3 DEF CloseNotice, sendProto, told
<1>2. /\ sessions \in Seq(Session)
      /\ Derived(sessions, sessions') => ParamsReached
  BY SessionFacts, DerivedReached
<1>3. CASE onSessionCloseThrows(c)
  <2>1. exceptionCaught(c, sessions, <<notice>>)
    BY <1>3 DEF onSessionCloseThrows
  <2> HIDE DEF notice
  <2>2. <<notice>> \in Seq(Write)
    BY <1>1
  <2> QED BY <2>1, <2>2, ExceptionReached
<1>4. CASE onSessionCloseClient(c)
  <2>1. PICK i \in DOMAIN sessions : \E k \in DOMAIN sessions[i].clients :
           sessions' = RemoveClient(sessions, i, k)
    BY <1>4 DEF onSessionCloseClient
  <2>2. PICK k \in DOMAIN sessions[i].clients : sessions' = RemoveClient(sessions, i, k)
    BY <2>1
  <2>3. /\ Derived(sessions, sessions')
        /\ DOMAIN sessions' = DOMAIN sessions
        /\ \A j \in DOMAIN sessions : sessions'[j].host = sessions[j].host
    BY <1>2, <2>2, ClientLeaves
  <2> QED BY <1>2, <2>3, HostsStay
<1>5. CASE onSessionCloseHost(c)
  <2>1. PICK i \in HostedBy(sessions, me) : sessions' = RemoveAt(sessions, i)
    BY <1>5 DEF onSessionCloseHost
  <2>2. /\ \A j \in DOMAIN sessions : ~LeavesAt(me, j)
        /\ ~Throws(told)
        /\ sent' = <<notice>>
        /\ UNCHANGED users
    BY <1>5 DEF onSessionCloseHost
  <2>3. told = ClientsOf(sessions, HostedBy(sessions, me))
    <3>1. {j \in HostedBy(sessions, me) : \A l \in DOMAIN sessions : LeavesAt(me, l) => j < l}
             = HostedBy(sessions, me)
      BY <2>2
    <3> QED BY <3>1 DEF ToldOfClose
  <2>4. i \in DOMAIN sessions
    BY DEF HostedBy
  <2>5. Derived(sessions, sessions')
    <3>1. \A j \in DOMAIN RemoveAt(sessions, i) :
             \E o \in DOMAIN sessions : RemoveAt(sessions, i)[j] = sessions[o]
      BY <1>2, <2>4, RemoveAtAddsNothing
    <3> QED BY <2>1, <3>1 DEF Derived
  <2> HIDE DEF told, notice
  <2>6. ASSUME NEW o \in DOMAIN sessions,
               \A j \in DOMAIN sessions' : sessions'[j].host # sessions[o].host,
               NEW k \in DOMAIN sessions[o].clients
        PROVE  Delivers(sent', Pkt("SESSION_CLOSE"), users'[sessions[o].clients[k]])
    <3>1. o = i
      BY <1>2, <2>1, <2>4, <2>6, RemoveAtKeeps
    <3>2. users[sessions[o].clients[k]] \in notice.to
      BY <1>1, <2>2, <2>3, <3>1, LoopReachesAll
    <3>3. 1 \in DOMAIN sent' /\ sent'[1] = notice
      BY <2>2
    <3> QED BY <1>1, <2>2, <3>2, <3>3 DEF Delivers
  <2>7. Announced
    BY <2>6 DEF Announced
  <2> QED BY <1>2, <2>5, <2>7
<1>6. CASE onSessionCloseNobody(c)
  BY <1>6, SessionsStay DEF onSessionCloseNobody, Answer
<1> QED BY <1>3, <1>4, <1>5, <1>6

\* onVideoParams passes the parameters it stores on to every client, unless one is
\* missing, which takes a connection that strayed.
LEMMA VideoParamsReached ==
    ASSUME Inv, NEW c \in Channel, NEW p \in Param, onVideoParams(c, p)
    PROVE  Announced /\ ParamsReached
<1> DEFINE mine == HostedBy(sessions, selfName[c])
           viewers == ClientsOf(sessions, mine)
           stored == [i \in DOMAIN sessions |->
                         IF i \in mine /\ \A r \in Missing(viewers) : i <= r[1]
                         THEN [sessions[i] EXCEPT !.params = p]
                         ELSE sessions[i]]
           wrote == <<sendProto(VideoParams(p), Reached(viewers))>>
<1>1. /\ strayed' = strayed
      /\ \/ Throws(viewers) /\ exceptionCaught(c, stored, wrote)
         \/ ~Throws(viewers) /\ sessions' = stored /\ sent' = wrote /\ UNCHANGED users
  BY DEF onVideoParams
<1>2. mine \subseteq DOMAIN sessions /\ IsLoop(viewers)
  BY SessionFacts, ClientsOfLoop DEF HostedBy
<1>3. ~strayed => ~Throws(viewers)
  BY <1>2, SessionFacts, ClientsOfLoop
<1>4. wrote \in Seq(Write)
  <2>1. VideoParams(p) \in Packet
    BY PacketTypes
  <2> HIDE DEF viewers
  <2>2. sendProto(VideoParams(p), Reached(viewers)) \in Write
    BY <1>2, <2>1, SessionFacts, LoopWrites
  <2> QED BY <2>2
<1>5. ASSUME NEW i \in DOMAIN sessions
      PROVE  /\ stored[i] \in Session
             /\ stored[i].host = sessions[i].host
             /\ stored[i].clients = sessions[i].clients
             /\ stored[i] = sessions[i] \/ (i \in mine /\ stored[i].params = p)
  <2>1. sessions[i] \in Session
    BY SessionFacts, SessionFields
  <2> HIDE DEF mine, viewers
  <2> QED BY <2>1 DEF Session
<1>6. DOMAIN stored = DOMAIN sessions
  OBVIOUS
<1>7. \A i \in mine : \A k \in DOMAIN sessions[i].clients :
         ~Throws(viewers) => users[sessions[i].clients[k]] \in Reached(viewers)
  BY LoopReachesAll
<1> HIDE DEF viewers, mine
<1>8. wrote[1].pkt = VideoParams(p) /\ wrote[1].to = Reached(viewers) /\ 1 \in DOMAIN wrote
  BY DEF sendProto
<1> HIDE DEF wrote
<1>9. Covers(stored)
  <2>1. Len(sessions) \in Nat /\ DOMAIN sessions = 1 .. Len(sessions)
    BY SessionFacts, LenProperties
  <2>2. stored = [i \in 1 .. Len(sessions) |-> stored[i]]
    BY <2>1
  <2> HIDE DEF stored
  <2>3. stored \in [1 .. Len(sessions) -> Session]
    BY <1>5, <2>1, <2>2
  <2>4. stored \in Seq(Session)
    BY <2>1, <2>3
  <2> QED BY <1>5, <1>6, <2>4 DEF Covers
<1> HIDE DEF stored
<1>10. CASE Throws(viewers) /\ exceptionCaught(c, stored, wrote)
  <2>1. Announced
    BY <1>4, <1>9, <1>10, RemoveSelfAnnounces DEF exceptionCaught
  <2>2. ParamsReached
    BY <1>1, <1>3, <1>10, SessionFacts DEF ParamsReached
  <2> QED BY <2>1, <2>2
<1>11. CASE ~Throws(viewers) /\ sessions' = stored /\ sent' = wrote /\ UNCHANGED users
  <2>1. Announced
    BY <1>5, <1>6, <1>11, HostsStay
  <2>2. ASSUME NEW j \in DOMAIN sessions, NEW k \in DOMAIN stored[j].clients
        PROVE  \/ \E i \in DOMAIN sessions :
                     /\ sessions[i].host = stored[j].host
                     /\ sessions[i].params = stored[j].params
                     /\ Contains(sessions[i].clients, stored[j].clients[k])
               \/ Delivers(wrote, VideoParams(stored[j].params), users[stored[j].clients[k]])
    <3>1. CASE stored[j] = sessions[j]
      <4>1. DOMAIN sessions[j].clients = 1 .. Len(sessions[j].clients)
        BY SessionFacts, SessionFields, LenProperties
      <4> QED BY <3>1, <4>1 DEF Contains
    <3>2. CASE j \in mine /\ stored[j].params = p
      <4>1. users[stored[j].clients[k]] \in wrote[1].to
        BY <1>5, <1>7, <1>8, <1>11, <3>2
      <4> QED BY <1>8, <3>2, <4>1 DEF Delivers
    <3> QED BY <1>5, <3>1, <3>2
  <2>3. ParamsReached
    BY <1>6, <1>11, <2>2 DEF ParamsReached
  <2> QED BY <2>1, <2>3
<1> QED BY <1>1, <1>10, <1>11

\* A relayed packet.
LEMMA RelayReached ==
    ASSUME Inv, NEW c \in Channel, NEW nm, IsLoop(nm), NEW pkt \in Packet, Relay(c, nm, pkt)
    PROVE  Announced /\ ParamsReached
<1> DEFINE wrote == <<sendProto(pkt, Reached(nm))>>
<1>1. wrote \in Seq(Write)
  BY SessionFacts, LoopWrites
<1>2. exceptionCaught(c, sessions, wrote) \/ UNCHANGED sessions
  BY DEF Relay
<1> HIDE DEF wrote
<1> QED BY <1>1, <1>2, ExceptionReached, SessionsStay

\* Every packet handler.
LEMMA HandlePacketReached ==
    ASSUME Inv, NEW c \in Channel, HandlePacket(c)
    PROVE  Announced /\ ParamsReached
<1>1. CASE onHandshake(c) \/ onHandshakeRefused(c) \/ onHeartbeat(c)
  BY <1>1, SessionsStay DEF onHandshake, onHandshakeRefused, onHeartbeat, Answer
<1>2. CASE Data(c)
  <2>1. IsLoop(ClientsOf(sessions, HostedBy(sessions, selfName[c])))
    BY SessionFacts, ClientsOfLoop DEF HostedBy
  <2>2. Pkt("DATA") \in Packet
    BY PacketTypes DEF PacketType
  <2> QED BY <1>2, <2>1, <2>2, RelayReached DEF Data
<1>3. CASE ControlInput(c)
  <2> DEFINE I == {i \in DOMAIN sessions : Contains(sessions[i].clients, selfName[c])}
  <2>1. IsLoop(HostOf(sessions, I))
    BY SessionFacts, HostOfLoop
  <2>2. Pkt("CONTROL_INPUT") \in Packet
    BY PacketTypes DEF PacketType
  <2> QED BY <1>3, <2>1, <2>2, RelayReached DEF ControlInput
<1>4. CASE \E n \in Wants[c] : onNewUser(c, n)
  BY <1>4, SessionsStay DEF onNewUser, onNewUserAccepted, onNewUserTaken, Answer
<1>5. CASE \E p \in Param : onVideoParams(c, p)
  BY <1>5, VideoParamsReached
<1>6. CASE \E n \in Name : onSessionRequest(c, n)
  BY <1>6, SessionRequestReached
<1> QED BY <1>1, <1>2, <1>3, <1>4, <1>5, <1>6, SessionCloseReached DEF HandlePacket

\* Every step of the server.
LEMMA NextReached ==
    ASSUME Inv, [Next]_vars
    PROVE  [Announced]_vars /\ [ParamsReached]_vars
BY ConnectionEventReached, HandlePacketReached DEF Next

(***************************************************************************)
(* The theorems.                                                           *)
(***************************************************************************)

\* The state of ServerHandler, UsersData and SessionData is well typed in every
\* reachable state, for any number of connections, names and sessions.
THEOREM TypeCorrect == Spec => []TypeOK
<1>1. Inv => TypeOK
  BY DEF Inv
<1> QED BY <1>1, Invariance, PTL

\* No two sessions ever have the same host, however requests, closes and failing
\* handlers interleave.
THEOREM HostIsUnique == Spec => []UniqueHost
<1>1. Inv => UniqueHost
  BY DEF Inv
<1> QED BY <1>1, Invariance, PTL

\* A connection owns its name until it is reaped: removeSelf deletes its own
\* entry of the user table and no other.
THEOREM NameIsOwned == Spec => []NameOwner
<1>1. Inv => NameOwner
  BY DEF Inv
<1> QED BY <1>1, Invariance, PTL

\* While no client asks for a session it has no business in, every name has at
\* most one role in at most one session.
THEOREM RoleIsUnique == Spec => []OneRole
<1>1. Inv => OneRole
  BY DEF Inv
<1> QED BY <1>1, Invariance, PTL

\* Under the same condition getUser(...) never answers null for a member of a
\* session, so no loop over hosts or clients throws.
THEOREM MembersAreRegistered == Spec => []NoDangling
<1>1. Inv => NoDangling
  BY DEF Inv
<1> QED BY <1>1, Invariance, PTL

\* Under the same condition no connection outlives its heartbeat thread.
THEOREM ConnectionsAreWatched == Spec => []NoZombie
<1>1. Inv => NoZombie
  BY DEF Inv
<1> QED BY <1>1, Invariance, PTL

\* Whichever handler drops a session, and whatever it had done before an
\* exception cut it short, the clients that stay registered are told: for every
\* server, also one whose clients ask for sessions they have no business in.
THEOREM ClosesAreAnnounced == Spec => CloseIsAnnounced
<1>1. Inv /\ [Next]_vars => [Announced]_vars
  BY NextReached
<1> QED BY <1>1, Invariance, PTL DEF Spec, CloseIsAnnounced, Announced

\* While no client strays, whoever is added to a session with parameters, and
\* whoever is in one when they change, is sent them in the same step.
THEOREM ParamsAreDelivered == Spec => ParamsReachClients
<1>1. Inv /\ [Next]_vars => [ParamsReached]_vars
  BY NextReached
<1> QED BY <1>1, Invariance, PTL DEF Spec, ParamsReachClients, ParamsReached
================================================================================
