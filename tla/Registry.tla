------------------------------- MODULE Registry -------------------------------
(***************************************************************************)
(* The name registry of the distributor, one call of UsersData at a time.  *)
(* Distributor takes a packet handler as one step; here the handlers of    *)
(* connections on different event loops, and the heartbeat threads that    *)
(* reap connections, interleave at every call.  The methods of UsersData   *)
(* are synchronized, so each call is one step, but onNewUser and           *)
(* removeSelf make several.  Sessions are left to Distributor.             *)
(*                                                                         *)
(* Each connection has two threads: "loop", its event loop, and "beat",    *)
(* its heartbeat thread.  Both may run removeSelf.                         *)
(***************************************************************************)
EXTENDS Naturals

CONSTANTS
    Channel,    \* connections
    NoChannel,  \* what users.get answers for an absent name
    Name,       \* user names
    NoName,     \* the empty name, selfName before a registration
    Loop        \* the event loop Netty has assigned to each connection

ASSUME NoChannelAssumption == NoChannel \notin Channel
ASSUME NoNameAssumption == NoName \notin Name

VARIABLES
    users,     \* UsersData.users
    selfName,  \* selfName of each handler
    running,   \* running of each handler
    chan,      \* state of each connection
    at,        \* where each thread of a connection is
    asked,     \* username of the NEW_USER packet the loop handles
    listed,    \* the names keySet() returned to it
    told,      \* history: the names in the user lists written to a connection
    races      \* history: the kinds of overlap that have happened

vars == <<users, selfName, running, chan, at, asked, listed, told, races>>

Thread == {"loop", "beat"}

Registering == {"addUser", "keySet", "values", "selfName"}

Place == Registering \cup {"idle", "watching", "removeSelf", "remove", "close"}

\* "clash": two handlers found the same name free before either added it;
\* "late": a connection registered while it was being removed;
\* "twice": both threads of a connection ran removeSelf.
Race == {"clash", "late", "twice"}

Noting(condition, race) == IF condition THEN {race} ELSE {}

LoopFree(c) == \A d \in Channel : Loop[d] = Loop[c] => at["loop"][d] = "idle"

Moves(t, c, place) == at' = [at EXCEPT ![t][c] = place]

Init ==
    /\ users = [n \in Name |-> NoChannel]
    /\ selfName = [c \in Channel |-> NoName]
    /\ running = [c \in Channel |-> TRUE]
    /\ chan = [c \in Channel |-> "new"]
    /\ at = [t \in Thread |-> [c \in Channel |-> "idle"]]
    /\ asked = [c \in Channel |-> NoName]
    /\ listed = [c \in Channel |-> {}]
    /\ told = [c \in Channel |-> {}]
    /\ races = {}

--------------------------------------------------------------------------------
(* The connection *)

channelActive(c) ==
    /\ chan[c] = "new"
    /\ chan' = [chan EXCEPT ![c] = "open"]
    /\ Moves("beat", c, "watching")
    /\ UNCHANGED <<users, selfName, running, asked, listed, told, races>>

\* The peer leaves without a word: nothing more is read and no handler is told.
PeerCloses(c) ==
    /\ chan[c] = "open"
    /\ LoopFree(c)
    /\ chan' = [chan EXCEPT ![c] = "gone"]
    /\ UNCHANGED <<users, selfName, running, at, asked, listed, told, races>>

--------------------------------------------------------------------------------
(* onNewUser.  A daemon asks for another name only when the first was taken. *)

\* Mutant: the name is granted without a look.
GrantUnseen(c, n) ==
    /\ chan[c] = "open"
    /\ LoopFree(c)
    /\ selfName[c] = NoName
    /\ asked' = [asked EXCEPT ![c] = n]
    /\ Moves("loop", c, "addUser")
    /\ UNCHANGED <<users, selfName, running, chan, listed, told, races>>

getUser(c, n) ==
    /\ chan[c] = "open"
    /\ LoopFree(c)
    /\ selfName[c] = NoName
    /\ users[n] = NoChannel
    /\ asked' = [asked EXCEPT ![c] = n]
    /\ Moves("loop", c, "addUser")
    /\ races' = races
          \cup Noting(\E d \in Channel : at["loop"][d] = "addUser" /\ asked[d] = n, "clash")
          \cup Noting(~running[c], "late")
    /\ UNCHANGED <<users, selfName, running, chan, listed, told>>

addUser(c) ==
    /\ at["loop"][c] = "addUser"
    /\ users' = [users EXCEPT ![asked[c]] = c]
    /\ Moves("loop", c, "keySet")
    /\ UNCHANGED <<selfName, running, chan, asked, listed, told, races>>

\* Mutant: the list leaves out the user it is about.
KeySetOfOthers(c) ==
    /\ at["loop"][c] = "keySet"
    /\ listed' = [listed EXCEPT ![c] = {n \in Name : users[n] \notin {NoChannel, c}}]
    /\ Moves("loop", c, "values")
    /\ UNCHANGED <<users, selfName, running, chan, asked, told, races>>

keySet(c) ==
    /\ at["loop"][c] = "keySet"
    /\ listed' = [listed EXCEPT ![c] = {n \in Name : users[n] # NoChannel}]
    /\ Moves("loop", c, "values")
    /\ UNCHANGED <<users, selfName, running, chan, asked, told, races>>

\* values() and the writes of the list to every channel it returned.
values(c) ==
    /\ at["loop"][c] = "values"
    /\ told' = [d \in Channel |->
                  IF \E n \in Name : users[n] = d THEN told[d] \cup listed[c] ELSE told[d]]
    /\ Moves("loop", c, "selfName")
    /\ UNCHANGED <<users, selfName, running, chan, asked, listed, races>>

SetSelfName(c) ==
    /\ at["loop"][c] = "selfName"
    /\ selfName' = [selfName EXCEPT ![c] = asked[c]]
    /\ Moves("loop", c, "idle")
    /\ UNCHANGED <<users, running, chan, asked, listed, told, races>>

onNewUser(c) == addUser(c) \/ keySet(c) \/ values(c) \/ SetSelfName(c)

--------------------------------------------------------------------------------
(* removeSelf, by either thread *)

\* The heartbeat thread has found running set and seen no heartbeat for 7 s.
HeartbeatTimeout(c) ==
    /\ at["beat"][c] = "watching"
    /\ running[c]
    /\ Moves("beat", c, "removeSelf")
    /\ UNCHANGED <<users, selfName, running, chan, asked, listed, told, races>>

\* exceptionCaught has cleared running.
HeartbeatEnds(c) ==
    /\ at["beat"][c] = "watching"
    /\ ~running[c]
    /\ Moves("beat", c, "idle")
    /\ UNCHANGED <<users, selfName, running, chan, asked, listed, told, races>>

\* A reset of the connection, or a packet handler that threw.
exceptionCaught(c) ==
    /\ chan[c] = "open"
    /\ LoopFree(c)
    /\ Moves("loop", c, "removeSelf")
    /\ UNCHANGED <<users, selfName, running, chan, asked, listed, told, races>>

removeSelf(t, c) ==
    /\ at[t][c] = "removeSelf"
    /\ running' = [running EXCEPT ![c] = FALSE]
    /\ Moves(t, c, IF selfName[c] = NoName THEN "close" ELSE "remove")
    /\ races' = races \cup Noting(~running[c], "twice")
                      \cup Noting(at["loop"][c] \in Registering, "late")
    /\ UNCHANGED <<users, selfName, chan, asked, listed, told>>

\* Mutant: the name stays in the table.
KeepName(t, c) ==
    /\ at[t][c] = "remove"
    /\ Moves(t, c, "close")
    /\ UNCHANGED <<users, selfName, running, chan, asked, listed, told, races>>

remove(t, c) ==
    /\ at[t][c] = "remove"
    /\ users' = [users EXCEPT ![selfName[c]] = NoChannel]
    /\ Moves(t, c, "close")
    /\ UNCHANGED <<selfName, running, chan, asked, listed, told, races>>

\* Mutant: the connection is closed under a running handler.
CloseAtOnce(t, c) ==
    /\ at[t][c] = "close"
    /\ chan' = [chan EXCEPT ![c] = "closed"]
    /\ Moves(t, c, "idle")
    /\ UNCHANGED <<users, selfName, running, asked, listed, told, races>>

\* channel.close() takes effect on the event loop, between two handlers.
close(t, c) ==
    /\ at[t][c] = "close"
    /\ t = "beat" => LoopFree(c)
    /\ chan' = [chan EXCEPT ![c] = "closed"]
    /\ Moves(t, c, "idle")
    /\ UNCHANGED <<users, selfName, running, asked, listed, told, races>>

Reap(t, c) == removeSelf(t, c) \/ remove(t, c) \/ close(t, c)

Next ==
    \E c \in Channel :
        \/ channelActive(c)
        \/ PeerCloses(c)
        \/ \E n \in Name : getUser(c, n)
        \/ onNewUser(c)
        \/ HeartbeatTimeout(c)
        \/ HeartbeatEnds(c)
        \/ exceptionCaught(c)
        \/ \E t \in Thread : Reap(t, c)

Spec == Init /\ [][Next]_vars

\* Event loops finish what they handle, and the heartbeat thread of a peer that
\* has left wakes every second and sees no more heartbeats.
FairSpec ==
    /\ Spec
    /\ \A c \in Channel :
          /\ WF_vars(onNewUser(c))
          /\ WF_vars(chan[c] = "gone" /\ HeartbeatTimeout(c))
          /\ \A t \in Thread : WF_vars(Reap(t, c))

--------------------------------------------------------------------------------
(* Properties *)

\* Type correctness; a connection is open as long as a handler of it registers.
TypeOK ==
    /\ users \in [Name -> Channel \cup {NoChannel}]
    /\ selfName \in [Channel -> Name \cup {NoName}]
    /\ running \in [Channel -> BOOLEAN]
    /\ chan \in [Channel -> {"new", "open", "gone", "closed"}]
    /\ at \in [Thread -> [Channel -> Place]]
    /\ asked \in [Channel -> Name \cup {NoName}]
    /\ listed \in [Channel -> SUBSET Name]
    /\ told \in [Channel -> SUBSET Name]
    /\ races \subseteq Race
    /\ \A c \in Channel : at["loop"][c] \in Registering => chan[c] = "open"

\* However the handlers interleave, two users that are in the table know of each
\* other once their own registrations are through: onNewUser adds the name before
\* it reads the names and the channels, so the later of the two writes a list
\* with both to both.
EveryoneWasTold ==
    \A m, n \in Name :
        /\ users[m] # NoChannel /\ at["loop"][users[m]] \notin Registering
        /\ users[n] # NoChannel /\ at["loop"][users[n]] \notin Registering
        => n \in told[users[m]]

\* A connection that is not being removed owns the name it was granted, unless
\* two handlers asked for a name at once or some connection was removed twice:
\* these two overlaps, and no other, hand a name to two owners or take it from
\* its owner.
NameOwned ==
    races \subseteq {"late"} =>
        \A c \in Channel :
            running[c] /\ selfName[c] # NoName => users[selfName[c]] = c

\* A connection that is gone for good holds no name, unless it registered while
\* it was being removed: the others need not fear a name nobody can take.
NothingLeaks ==
    "late" \notin races =>
        \A c \in Channel, n \in Name :
            chan[c] = "closed" /\ (\A t \in Thread : at[t][c] \in {"idle", "watching"})
                => users[n] # c

\* A peer that leaves without a word loses its name, whatever the other
\* connections do; only its heartbeat thread can see to it.
DepartedIsReaped ==
    \A c \in Channel, n \in Name :
        (chan[c] = "gone" /\ selfName[c] = n /\ running[c]) ~> users[n] # c
================================================================================
