---------------------------- MODULE RegistryProofs ----------------------------
(***************************************************************************)
(* Proofs about the name registry at the grain of the calls of UsersData,  *)
(* for every set of connections and names and every assignment of event    *)
(* loops.                                                                  *)
(*                                                                         *)
(* A connection registers once: getUser is tried only while selfName is    *)
(* empty, and selfName is never emptied.  So asked[c] is the one name that *)
(* can lead to c, and what the threads of c have done is told from where   *)
(* they are.                                                               *)
(***************************************************************************)
EXTENDS Registry, TLAPS

\* c has been through addUser.
Added(c) == selfName[c] # NoName \/ at["loop"][c] \in {"keySet", "values", "selfName"}

\* The table leads to a connection only by the one name it asked for; selfName is
\* that name, assigned when onNewUser is through.
Ids ==
    /\ \A c \in Channel, n \in Name : users[n] = c => asked[c] = n /\ Added(c)
    /\ \A c \in Channel : selfName[c] # NoName => selfName[c] = asked[c]
    /\ \A c \in Channel :
          at["loop"][c] \in Registering => asked[c] \in Name /\ selfName[c] = NoName

\* Where the two threads of a connection are while it is removed.
Removal ==
    /\ \A t \in Thread, c \in Channel :
          at[t][c] \in {"remove", "close"} => ~running[c]
    /\ \A t \in Thread, c \in Channel : at[t][c] = "remove" => selfName[c] # NoName
    /\ \A c \in Channel : at["beat"][c] \notin Registering
    /\ \A c \in Channel : chan[c] = "closed" => ~running[c]
    /\ \A c \in Channel : chan[c] = "new" => at["beat"][c] = "idle"

\* The list with the names of two users is written to both, or one of them has a
\* call before it that will see to it.
Telling ==
    /\ \A n \in Name :
          users[n] # NoChannel /\ at["loop"][users[n]] = "values" => n \in listed[users[n]]
    /\ \A m, n \in Name :
          users[m] # NoChannel /\ users[n] # NoChannel =>
              \/ n \in told[users[m]]
              \/ at["loop"][users[n]] \in {"keySet", "values"}
              \/ at["loop"][users[m]] = "keySet"
              \/ at["loop"][users[m]] = "values" /\ n \in listed[users[m]]

\* Without a clash and without a second removal: a name found free is free until
\* it is added, and stays with its owner until the owner's remove.
Owning ==
    races \subseteq {"late"} =>
        /\ \A c \in Channel : at["loop"][c] = "addUser" => users[asked[c]] = NoChannel
        /\ \A c, d \in Channel :
              at["loop"][c] = "addUser" /\ at["loop"][d] = "addUser" /\ asked[c] = asked[d]
                  => c = d
        /\ \A c \in Channel :
              Added(c) /\ (running[c] \/ \E t \in Thread : at[t][c] = "remove")
                  => users[asked[c]] = c
        /\ \A c \in Channel : \A t, u \in Thread :
              at[t][c] \in {"remove", "close"} /\ at[u][c] \in {"remove", "close"} => t = u

\* Without a late registration: a connection registers only while it runs, and
\* one that does not run holds a name only until a thread of it removes it.
Leaving ==
    "late" \notin races =>
        /\ \A c \in Channel : at["loop"][c] \in Registering => running[c]
        /\ \A c \in Channel, n \in Name :
              users[n] = c /\ ~running[c] => \E t \in Thread : at[t][c] = "remove"

Inv == TypeOK /\ Ids /\ Removal /\ Telling /\ Owning /\ Leaving

--------------------------------------------------------------------------------
(* Every step keeps Inv *)

\* A new connection: its heartbeat thread was not running before.
LEMMA ChannelActiveKeepsInv ==
    ASSUME Inv, NEW c \in Channel, channelActive(c)
    PROVE  Inv'
<1> USE NoChannelAssumption, NoNameAssumption DEF Inv, TypeOK, Thread, Moves, channelActive
<1>1. TypeOK'
  BY DEF Registering, Place, Race
<1>2. Ids'
  BY DEF Ids, Added, Registering
<1>3. Removal'
  BY DEF Ids, Removal, Registering
<1>4. Telling'
  BY DEF Ids, Telling, Added, Registering
<1>5. Owning'
  BY DEF Ids, Removal, Owning, Added, Registering
<1>6. Leaving'
  BY DEF Ids, Removal, Leaving, Added, Registering
<1> QED BY <1>1, <1>2, <1>3, <1>4, <1>5, <1>6

\* A peer that leaves: none of its packets is being handled.
LEMMA PeerClosesKeepsInv ==
    ASSUME Inv, NEW c \in Channel, PeerCloses(c)
    PROVE  Inv'
<1> USE NoChannelAssumption, NoNameAssumption DEF Inv, TypeOK, Thread, Moves, PeerCloses
<1>1. TypeOK'
  BY DEF Registering, Place, Race, LoopFree
<1>2. Ids'
  BY DEF Ids, Added, Registering, LoopFree
<1>3. Removal'
  BY DEF Ids, Removal, Registering, LoopFree
<1>4. Telling'
  BY DEF Ids, Telling, Added, Registering, LoopFree
<1>5. Owning'
  BY DEF Ids, Removal, Owning, Added, Registering, LoopFree
<1>6. Leaving'
  BY DEF Ids, Removal, Leaving, Added, Registering, LoopFree
<1> QED BY <1>1, <1>2, <1>3, <1>4, <1>5, <1>6

\* getUser finds the name free.  If another handler has found the same name free this
\* is a clash, and if the connection is being removed it is a late registration.
LEMMA GetUserKeepsInv ==
    ASSUME Inv, NEW c \in Channel, NEW m \in Name, getUser(c, m)
    PROVE  Inv'
<1> USE NoChannelAssumption, NoNameAssumption DEF Inv, TypeOK, Thread, Moves, getUser
<1>1. TypeOK'
  BY DEF Registering, Place, Race, Noting, LoopFree
<1>2. Ids'
  BY DEF Ids, Added, Registering, LoopFree
<1>3. Removal'
  BY DEF Ids, Removal, Registering, LoopFree
<1>4. Telling'
  BY DEF Ids, Telling, Added, Registering, LoopFree
<1>5. Owning'
  BY DEF Ids, Removal, Owning, Added, Registering, Noting, LoopFree
<1>6. Leaving'
  BY DEF Ids, Removal, Leaving, Added, Registering, Noting, LoopFree
<1> QED BY <1>1, <1>2, <1>3, <1>4, <1>5, <1>6

\* addUser: without a clash nobody else has the name or is about to get it.
LEMMA AddUserKeepsInv ==
    ASSUME Inv, NEW c \in Channel, addUser(c)
    PROVE  Inv'
<1> USE NoChannelAssumption, NoNameAssumption DEF Inv, TypeOK, Thread, Moves, addUser
<1>1. TypeOK'
  BY DEF Registering, Place, Race
<1>2. Ids'
  BY DEF Ids, Added, Registering
<1>3. Removal'
  BY DEF Ids, Removal, Registering
<1>4. Telling'
  BY DEF Ids, Telling, Added, Registering
<1>5. Owning'
  BY DEF Ids, Removal, Owning, Added, Registering
<1>6. Leaving'
  BY DEF Ids, Removal, Leaving, Added, Registering
<1> QED BY <1>1, <1>2, <1>3, <1>4, <1>5, <1>6

\* keySet: every name that is in the table is listed.
LEMMA KeySetKeepsInv ==
    ASSUME Inv, NEW c \in Channel, keySet(c)
    PROVE  Inv'
<1> USE NoChannelAssumption, NoNameAssumption DEF Inv, TypeOK, Thread, Moves, keySet
<1>1. TypeOK'
  BY DEF Registering, Place, Race
<1>2. Ids'
  BY DEF Ids, Added, Registering
<1>3. Removal'
  BY DEF Ids, Removal, Registering
<1>4. Telling'
  BY DEF Ids, Telling, Added, Registering
<1>5. Owning'
  BY DEF Ids, Removal, Owning, Added, Registering
<1>6. Leaving'
  BY DEF Ids, Removal, Leaving, Added, Registering
<1> QED BY <1>1, <1>2, <1>3, <1>4, <1>5, <1>6

\* values: everybody in the table is told what was listed.
LEMMA ValuesKeepsInv ==
    ASSUME Inv, NEW c \in Channel, values(c)
    PROVE  Inv'
<1> USE NoChannelAssumption, NoNameAssumption DEF Inv, TypeOK, Thread, Moves, values
<1>1. TypeOK'
  BY DEF Registering, Place, Race
<1>2. Ids'
  BY DEF Ids, Added, Registering
<1>3. Removal'
  BY DEF Ids, Removal, Registering
<1>4. Telling'
  BY DEF Ids, Telling, Added, Registering
<1>5. Owning'
  BY DEF Ids, Removal, Owning, Added, Registering
<1>6. Leaving'
  BY DEF Ids, Removal, Leaving, Added, Registering
<1> QED BY <1>1, <1>2, <1>3, <1>4, <1>5, <1>6

\* The end of onNewUser.
LEMMA SetSelfNameKeepsInv ==
    ASSUME Inv, NEW c \in Channel, SetSelfName(c)
    PROVE  Inv'
<1> USE NoChannelAssumption, NoNameAssumption DEF Inv, TypeOK, Thread, Moves, SetSelfName
<1>1. TypeOK'
  BY DEF Registering, Place, Race
<1>2. Ids'
  BY DEF Ids, Added, Registering
<1>3. Removal'
  BY DEF Ids, Removal, Registering
<1>4. Telling'
  BY DEF Ids, Telling, Added, Registering
<1>5. Owning'
  BY DEF Ids, Removal, Owning, Added, Registering
<1>6. Leaving'
  BY DEF Ids, Removal, Leaving, Added, Registering
<1> QED BY <1>1, <1>2, <1>3, <1>4, <1>5, <1>6

\* The heartbeat thread gives the connection up.
LEMMA HeartbeatTimeoutKeepsInv ==
    ASSUME Inv, NEW c \in Channel, HeartbeatTimeout(c)
    PROVE  Inv'
<1> USE NoChannelAssumption, NoNameAssumption DEF Inv, TypeOK, Thread, Moves, HeartbeatTimeout
<1>1. TypeOK'
  BY DEF Registering, Place, Race
<1>2. Ids'
  BY DEF Ids, Added, Registering
<1>3. Removal'
  BY DEF Ids, Removal, Registering
<1>4. Telling'
  BY DEF Ids, Telling, Added, Registering
<1>5. Owning'
  BY DEF Ids, Removal, Owning, Added, Registering
<1>6. Leaving'
  BY DEF Ids, Removal, Leaving, Added, Registering
<1> QED BY <1>1, <1>2, <1>3, <1>4, <1>5, <1>6

\* The heartbeat thread ends.
LEMMA HeartbeatEndsKeepsInv ==
    ASSUME Inv, NEW c \in Channel, HeartbeatEnds(c)
    PROVE  Inv'
<1> USE NoChannelAssumption, NoNameAssumption DEF Inv, TypeOK, Thread, Moves, HeartbeatEnds
<1>1. TypeOK'
  BY DEF Registering, Place, Race
<1>2. Ids'
  BY DEF Ids, Added, Registering
<1>3. Removal'
  BY DEF Ids, Removal, Registering
<1>4. Telling'
  BY DEF Ids, Telling, Added, Registering
<1>5. Owning'
  BY DEF Ids, Removal, Owning, Added, Registering
<1>6. Leaving'
  BY DEF Ids, Removal, Leaving, Added, Registering
<1> QED BY <1>1, <1>2, <1>3, <1>4, <1>5, <1>6

\* exceptionCaught, on an event loop that handles nothing else.
LEMMA ExceptionKeepsInv ==
    ASSUME Inv, NEW c \in Channel, exceptionCaught(c)
    PROVE  Inv'
<1> USE NoChannelAssumption, NoNameAssumption DEF Inv, TypeOK, Thread, Moves, exceptionCaught
<1>1. TypeOK'
  BY DEF Registering, Place, Race, LoopFree
<1>2. Ids'
  BY DEF Ids, Added, Registering, LoopFree
<1>3. Removal'
  BY DEF Ids, Removal, Registering, LoopFree
<1>4. Telling'
  BY DEF Ids, Telling, Added, Registering, LoopFree
<1>5. Owning'
  BY DEF Ids, Removal, Owning, Added, Registering, LoopFree
<1>6. Leaving'
  BY DEF Ids, Removal, Leaving, Added, Registering, LoopFree
<1> QED BY <1>1, <1>2, <1>3, <1>4, <1>5, <1>6

\* removeSelf begins: the first thread to do so finds running set, and a connection that
\* is in the table has its selfName, unless it is still registering.
LEMMA RemoveSelfKeepsInv ==
    ASSUME Inv, NEW t \in Thread, NEW c \in Channel, removeSelf(t, c)
    PROVE  Inv'
<1> USE NoChannelAssumption, NoNameAssumption DEF Inv, TypeOK, Thread, Moves, removeSelf
<1>1. TypeOK'
  BY DEF Registering, Place, Race, Noting
<1>2. Ids'
  BY DEF Ids, Added, Registering
<1>3. Removal'
  BY DEF Ids, Removal, Registering
<1>4. Telling'
  BY DEF Ids, Telling, Added, Registering
<1>5. Owning'
  BY DEF Ids, Removal, Owning, Added, Registering, Noting
<1>6. Leaving'
  BY DEF Ids, Removal, Leaving, Added, Registering, Noting
<1> QED BY <1>1, <1>2, <1>3, <1>4, <1>5, <1>6

\* remove: without a second removal the entry is the connection's own.
LEMMA RemoveKeepsInv ==
    ASSUME Inv, NEW t \in Thread, NEW c \in Channel, remove(t, c)
    PROVE  Inv'
<1> USE NoChannelAssumption, NoNameAssumption DEF Inv, TypeOK, Thread, Moves, remove
<1>1. TypeOK'
  BY DEF Registering, Place, Race
<1>2. Ids'
  BY DEF Ids, Added, Registering
<1>3. Removal'
  BY DEF Ids, Removal, Registering
<1>4. Telling'
  BY DEF Ids, Telling, Added, Registering
<1>5. Owning'
  BY DEF Ids, Removal, Owning, Added, Registering
<1>6. Leaving'
  BY DEF Ids, Removal, Leaving, Added, Registering
<1> QED BY <1>1, <1>2, <1>3, <1>4, <1>5, <1>6

\* close, between two handlers.
LEMMA CloseKeepsInv ==
    ASSUME Inv, NEW t \in Thread, NEW c \in Channel, close(t, c)
    PROVE  Inv'
<1> USE NoChannelAssumption, NoNameAssumption DEF Inv, TypeOK, Thread, Moves, close
<1>1. TypeOK'
  BY DEF Registering, Place, Race, LoopFree
<1>2. Ids'
  BY DEF Ids, Added, Registering, LoopFree
<1>3. Removal'
  BY DEF Ids, Removal, Registering, LoopFree
<1>4. Telling'
  BY DEF Ids, Telling, Added, Registering, LoopFree
<1>5. Owning'
  BY DEF Ids, Removal, Owning, Added, Registering, LoopFree
<1>6. Leaving'
  BY DEF Ids, Removal, Leaving, Added, Registering, LoopFree
<1> QED BY <1>1, <1>2, <1>3, <1>4, <1>5, <1>6

\* Initially nobody is registered and no thread runs.
LEMMA InitInv == Init => Inv
<1> SUFFICES ASSUME Init PROVE Inv
  OBVIOUS
<1> USE NoChannelAssumption DEF Init, Thread, Registering
<1>1. TypeOK
  BY DEF TypeOK, Place
<1>2. Ids /\ Removal /\ Telling
  BY DEF Ids, Removal, Telling
<1>3. Owning /\ Leaving
  BY DEF Owning, Leaving, Added
<1> QED BY <1>1, <1>2, <1>3 DEF Inv

\* Every step keeps the invariant.
LEMMA NextInv == Inv /\ [Next]_vars => Inv'
<1> SUFFICES ASSUME Inv, [Next]_vars PROVE Inv'
  OBVIOUS
<1>1. ASSUME NEW c \in Channel, channelActive(c) PROVE Inv'
  BY <1>1, ChannelActiveKeepsInv
<1>2. ASSUME NEW c \in Channel, PeerCloses(c) PROVE Inv'
  BY <1>2, PeerClosesKeepsInv
<1>3. ASSUME NEW c \in Channel, NEW n \in Name, getUser(c, n) PROVE Inv'
  BY <1>3, GetUserKeepsInv
<1>4. ASSUME NEW c \in Channel, onNewUser(c) PROVE Inv'
  BY <1>4, AddUserKeepsInv, KeySetKeepsInv, ValuesKeepsInv, SetSelfNameKeepsInv DEF onNewUser
<1>5. ASSUME NEW c \in Channel, HeartbeatTimeout(c) PROVE Inv'
  BY <1>5, HeartbeatTimeoutKeepsInv
<1>6. ASSUME NEW c \in Channel, HeartbeatEnds(c) PROVE Inv'
  BY <1>6, HeartbeatEndsKeepsInv
<1>7. ASSUME NEW c \in Channel, exceptionCaught(c) PROVE Inv'
  BY <1>7, ExceptionKeepsInv
<1>8. ASSUME NEW t \in Thread, NEW c \in Channel, Reap(t, c) PROVE Inv'
  BY <1>8, RemoveSelfKeepsInv, RemoveKeepsInv, CloseKeepsInv DEF Reap
<1>9. CASE UNCHANGED vars
  BY <1>9 DEF vars, Inv, TypeOK, Ids, Removal, Telling, Owning, Leaving, Added
<1> QED BY <1>1, <1>2, <1>3, <1>4, <1>5, <1>6, <1>7, <1>8, <1>9 DEF Next

\* The invariant holds always.
LEMMA Invariance == Spec => []Inv
BY InitInv, NextInv, PTL DEF Spec

--------------------------------------------------------------------------------
(* The theorems *)

\* The registry keeps its type, and a connection stays open as long as a handler of
\* it is in onNewUser, however event loops and heartbeat threads interleave.
THEOREM TypeCorrect == Spec => []TypeOK
<1>1. Inv => TypeOK
  BY DEF Inv
<1> QED BY <1>1, Invariance, PTL

\* Users always learn of each other: addUser before keySet before values is enough
\* for any number of handlers in any interleaving, the races included.
THEOREM UsersLearnOfEachOther == Spec => []EveryoneWasTold
<1>1. Inv => EveryoneWasTold
  BY DEF Inv, TypeOK, Telling, EveryoneWasTold, Registering
<1> QED BY <1>1, Invariance, PTL

\* Two handlers that ask for one name at once, and two removals of one connection,
\* are the only ways in which a running connection can lose its name.
THEOREM NameStaysOwned == Spec => []NameOwned
<1>1. Inv => NameOwned
  BY DEF Inv, Ids, Owning, Added, NameOwned
<1> QED BY <1>1, Invariance, PTL

\* A registration during the removal of its connection is the only way in which a
\* closed connection can keep a name.
THEOREM NoNameLeaks == Spec => []NothingLeaks
<1>1. Inv => NothingLeaks
  BY DEF Inv, Removal, Leaving, NothingLeaks, Thread
<1> QED BY <1>1, Invariance, PTL
================================================================================
