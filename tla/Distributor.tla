------------------------------ MODULE Distributor ------------------------------
(***************************************************************************)
(* The distributor: the server every daemon connects to.  It keeps the     *)
(* table of users (UsersData.users), the list of sessions                  *)
(* (UsersData.sessions) and, for each connection, a ServerHandler with the *)
(* name the connection registered and a heartbeat thread that reaps the    *)
(* connection.                                                             *)
(*                                                                         *)
(* One step is one whole packet handler, one run of removeSelf by the      *)
(* heartbeat thread, or one event of the connection.  A handler that       *)
(* dereferences a missing user or missing video parameters keeps what it   *)
(* did so far and continues in exceptionCaught, as Netty does; an          *)
(* exception of removeSelf itself leaves the connection open.              *)
(***************************************************************************)
EXTENDS Naturals, Sequences, FiniteSets, SequencesExt

CONSTANTS
    Channel,      \* connections, each accepted at most once
    NoChannel,    \* what users.get answers for an absent name: null
    Name,         \* user names
    Anon,         \* the empty name, selfName before a registration
    Wants,        \* the names each connection may ask to register under
    Rogue,        \* connections that may send a wrong magic number
    Param,        \* video parameters a host may announce
    NoParam,      \* SessionData.videoParams before the host announced any
    MaxSessions,  \* bound on the length of the session list
    MaxClients    \* bound on the length of a session's client list

ASSUME NoChannelAssumption == NoChannel \notin Channel
ASSUME AnonAssumption == Anon \in Name
ASSUME WantsAssumption == Wants \in [Channel -> SUBSET Name]
ASSUME RogueAssumption == Rogue \subseteq Channel
ASSUME NoParamAssumption == NoParam \notin Param
ASSUME BoundAssumption == MaxSessions \in Nat /\ MaxClients \in Nat

VARIABLES
    users,     \* UsersData.users
    sessions,  \* UsersData.sessions
    selfName,  \* selfName of each connection's handler
    chan,      \* state of each connection
    running,   \* running flag of each handler: its heartbeat thread is alive
    sent,      \* what the last step wrote, in the order it wrote it
    strayed    \* history: a connection asked for a session it had no business in

vars == <<users, sessions, selfName, chan, running, sent, strayed>>

\* "closing": closed by a bad handshake while channelRead still loops over the
\* packets it had read; "gone": nothing will be read any more, removeSelf has
\* not run; "closed": removeSelf has run as well.
ChanState == {"new", "open", "closing", "gone", "closed"}

PacketType == {"HANDSHAKE", "HEARTBEAT", "USER_LIST", "SUCCESS", "NAME_TAKEN",
               "USER_NOT_FOUND", "USER_ALREADY_IN_SESSION", "SESSION_STARTING",
               "SESSION_REQUEST", "SESSION_CLOSE", "VIDEO_PARAMS", "DATA",
               "CONTROL_INPUT"}

Packet == [type : PacketType, params : Param \cup {NoParam}]

Pkt(t) == [type |-> t, params |-> NoParam]

VideoParams(p) == [type |-> "VIDEO_PARAMS", params |-> p]

\* sendProto: one packet handed to the channels of a loop (or to just one).
Write == [pkt : Packet, to : SUBSET Channel]

sendProto(pkt, targets) == [pkt |-> pkt, to |-> targets]

Session == [host : Name, clients : Seq(Name), params : Param \cup {NoParam}]

--------------------------------------------------------------------------------
(* UsersData and SessionData *)

Registered(n) == users[n] # NoChannel

values(U) == {U[n] : n \in Name} \ {NoChannel}

NewSession(host, client) ==
    [host |-> host, clients |-> <<client>>, params |-> NoParam]

Involves(s, n) == s.host = n \/ Contains(s.clients, n)

\* The position at which a loop over the sessions meets n first.
FirstInvolving(S, n, i) ==
    /\ i \in DOMAIN S
    /\ Involves(S[i], n)
    /\ \A j \in DOMAIN S : j < i => ~Involves(S[j], n)

FirstOccurrence(s, n, k) ==
    /\ k \in DOMAIN s
    /\ s[k] = n
    /\ \A j \in DOMAIN s : j < k => s[j] # n

RemoveClient(S, i, k) == [S EXCEPT ![i].clients = RemoveAt(@, k)]

HostedBy(S, n) == {i \in DOMAIN S : S[i].host = n}

--------------------------------------------------------------------------------
(* Loops that send one packet to many names.  Such a loop is a function nm    *)
(* from <<session, position>> to the name written to, in lexicographic order; *)
(* it throws at the first name that getUser does not find.                    *)

Before(p, q) == p[1] < q[1] \/ (p[1] = q[1] /\ p[2] < q[2])

ClientsOf(S, I) ==
    [p \in UNION {{i} \X DOMAIN S[i].clients : i \in I} |->
        S[p[1]].clients[p[2]]]

HostOf(S, I) == [p \in I \X {1} |-> S[p[1]].host]

Missing(nm) == {p \in DOMAIN nm : ~Registered(nm[p])}

Throws(nm) == Missing(nm) # {}

Reached(nm) ==
    {users[nm[p]] : p \in {q \in DOMAIN nm : \A r \in Missing(nm) : Before(q, r)}}

--------------------------------------------------------------------------------
(* removeSelf and the close that follows it *)

\* The normal end of removeSelf followed by channel.close() / ctx.close().
Close(c, S, U, out) ==
    /\ sessions' = S
    /\ users' = U
    /\ chan' = [chan EXCEPT ![c] = "closed"]
    /\ sent' = out

Without(n) == [users EXCEPT ![n] = NoChannel]

RemoveSelfAnonymous(c, S, out) ==
    /\ selfName[c] = Anon
    /\ Close(c, S, users, out)

RemoveSelfIdle(c, S, out) ==
    /\ selfName[c] # Anon
    /\ \A i \in DOMAIN S : ~Involves(S[i], selfName[c])
    /\ Close(c, S, Without(selfName[c]), out)

\* An exception here escapes removeSelf: no session and no user is removed and
\* the close is skipped, so the connection is left in state left.
RemoveSelfHost(c, S, out, left) ==
    \E i \in DOMAIN S :
        LET notices == ClientsOf(S, {i})
            wrote == Append(out, sendProto(Pkt("SESSION_CLOSE"), Reached(notices)))
        IN
        /\ selfName[c] # Anon
        /\ FirstInvolving(S, selfName[c], i)
        /\ S[i].host = selfName[c]
        /\ \/ /\ Throws(notices)
              /\ sessions' = S
              /\ sent' = wrote
              /\ chan' = [chan EXCEPT ![c] = left]
              /\ UNCHANGED users
           \/ /\ ~Throws(notices)
              /\ Close(c, RemoveAt(S, i), Without(selfName[c]), wrote)

\* Mutant: the client list is left alone.
KeepClient(c, S, out) ==
    \E i \in DOMAIN S :
        /\ selfName[c] # Anon
        /\ FirstInvolving(S, selfName[c], i)
        /\ S[i].host # selfName[c]
        /\ Close(c, S, Without(selfName[c]), out)

RemoveSelfClient(c, S, out) ==
    \E i \in DOMAIN S :
        /\ selfName[c] # Anon
        /\ FirstInvolving(S, selfName[c], i)
        /\ S[i].host # selfName[c]
        /\ \E k \in DOMAIN S[i].clients :
              /\ FirstOccurrence(S[i].clients, selfName[c], k)
              /\ \/ /\ Len(S[i].clients) = 1
                    /\ Close(c, RemoveAt(S, i), Without(selfName[c]), out)
                 \/ /\ Len(S[i].clients) > 1
                    /\ Close(c, RemoveClient(S, i, k), Without(selfName[c]), out)

\* Mutant: running is not cleared.
KeepRunning(c, S, out, left) ==
    /\ \/ RemoveSelfAnonymous(c, S, out)
       \/ RemoveSelfIdle(c, S, out)
       \/ RemoveSelfHost(c, S, out, left)
       \/ RemoveSelfClient(c, S, out)
    /\ UNCHANGED <<selfName, running>>

\* removeSelf on the session list S, after the writes out.
removeSelf(c, S, out, left) ==
    /\ running' = [running EXCEPT ![c] = FALSE]
    /\ \/ RemoveSelfAnonymous(c, S, out)
       \/ RemoveSelfIdle(c, S, out)
       \/ RemoveSelfHost(c, S, out, left)
       \/ RemoveSelfClient(c, S, out)
    /\ UNCHANGED selfName

\* An exception inside a packet handler also ends the loop of channelRead.
exceptionCaught(c, S, out) ==
    removeSelf(c, S, out, IF chan[c] = "closing" THEN "gone" ELSE chan[c])

--------------------------------------------------------------------------------
(* Connection events *)

Init ==
    /\ users = [n \in Name |-> NoChannel]
    /\ sessions = <<>>
    /\ selfName = [c \in Channel |-> Anon]
    /\ chan = [c \in Channel |-> "new"]
    /\ running = [c \in Channel |-> FALSE]
    /\ sent = <<>>
    /\ strayed = FALSE

channelActive(c) ==
    /\ chan[c] = "new"
    /\ chan' = [chan EXCEPT ![c] = "open"]
    /\ running' = [running EXCEPT ![c] = TRUE]
    /\ sent' = <<>>
    /\ UNCHANGED <<users, sessions, selfName, strayed>>

\* The peer leaves.  No handler method runs: ServerHandler does not override
\* channelInactive.
PeerCloses(c) ==
    /\ chan[c] = "open"
    /\ chan' = [chan EXCEPT ![c] = "gone"]
    /\ sent' = <<>>
    /\ UNCHANGED <<users, sessions, selfName, running, strayed>>

\* channelRead has handled the last packet it had read before the close.
ReadEnds(c) ==
    /\ chan[c] = "closing"
    /\ chan' = [chan EXCEPT ![c] = "gone"]
    /\ sent' = <<>>
    /\ UNCHANGED <<users, sessions, selfName, running, strayed>>

\* A failed read (connection reset) reaches exceptionCaught.
ConnectionReset(c) ==
    /\ chan[c] = "open"
    /\ exceptionCaught(c, sessions, <<>>)
    /\ UNCHANGED strayed

\* The heartbeat thread has seen no heartbeat for 7000 ms.
HeartbeatTimeout(c) ==
    /\ running[c]
    /\ removeSelf(c, sessions, <<>>, chan[c])
    /\ UNCHANGED strayed

--------------------------------------------------------------------------------
(* Packet handlers *)

Handling(c) == chan[c] \in {"open", "closing"}

\* A handler that only answers.
Answer(c, out) ==
    /\ Handling(c)
    /\ sent' = out
    /\ UNCHANGED <<users, sessions, selfName, chan, running, strayed>>

onHandshake(c) == Answer(c, <<sendProto(Pkt("HANDSHAKE"), {c})>>)

\* A wrong magic number: handlePacket closes the channel and goes on.
onHandshakeRefused(c) ==
    /\ c \in Rogue
    /\ Handling(c)
    /\ chan' = [chan EXCEPT ![c] = "closing"]
    /\ sent' = <<>>
    /\ UNCHANGED <<users, sessions, selfName, running, strayed>>

onHeartbeat(c) == Answer(c, <<sendProto(Pkt("HEARTBEAT"), {c})>>)

\* Mutant: a name in use is taken over.
TakeName(c, n) ==
    /\ Handling(c)
    /\ users' = [users EXCEPT ![n] = c]
    /\ selfName' = [selfName EXCEPT ![c] = n]
    /\ sent' = <<sendProto(Pkt("SUCCESS"), {c})>>
    /\ UNCHANGED <<sessions, chan, running, strayed>>

onNewUserAccepted(c, n) ==
    /\ Handling(c)
    /\ ~Registered(n)
    /\ users' = [users EXCEPT ![n] = c]
    /\ selfName' = [selfName EXCEPT ![c] = n]
    /\ sent' = <<sendProto(Pkt("SUCCESS"), {c}),
                 sendProto(Pkt("USER_LIST"), values([users EXCEPT ![n] = c]))>>
    /\ UNCHANGED <<sessions, chan, running, strayed>>

onNewUserTaken(c, n) ==
    /\ Registered(n)
    /\ Answer(c, <<sendProto(Pkt("NAME_TAKEN"), {c})>>)

\* A request that a client with a name of its own, in no session, would not
\* make.  The distributor does not tell it from any other.
Strays(c, n) ==
    \/ users[selfName[c]] # c
    \/ n = selfName[c]
    \/ \E i \in DOMAIN sessions : Involves(sessions[i], selfName[c])

onSessionRequestUnknown(c, n) ==
    /\ ~Registered(n)
    /\ Answer(c, <<sendProto(Pkt("USER_NOT_FOUND"), {c})>>)

onSessionRequestBusy(c, n) ==
    /\ Registered(n)
    /\ \E i \in DOMAIN sessions :
          /\ FirstInvolving(sessions, n, i)
          /\ sessions[i].host # n
    /\ Answer(c, <<sendProto(Pkt("USER_ALREADY_IN_SESSION"), {c})>>)

Joined(i, n) == [sessions EXCEPT ![i].clients = Append(@, n)]

\* Mutant: the stored parameters are not passed on.
JoinUntold(c, n) ==
    /\ Handling(c)
    /\ Registered(n)
    /\ strayed' = (strayed \/ Strays(c, n))
    /\ \E i \in DOMAIN sessions :
          /\ FirstInvolving(sessions, n, i)
          /\ sessions[i].host = n
          /\ Len(sessions[i].clients) < MaxClients
          /\ sessions' = Joined(i, selfName[c])
    /\ sent' = <<sendProto(Pkt("SESSION_STARTING"), {c})>>
    /\ UNCHANGED <<users, selfName, chan, running>>

\* n already hosts: join its session.  getVideoParams() is null until the host
\* has announced them, and toByteArray() then throws.
onSessionRequestJoin(c, n) ==
    /\ Handling(c)
    /\ Registered(n)
    /\ strayed' = (strayed \/ Strays(c, n))
    /\ \E i \in DOMAIN sessions :
          /\ FirstInvolving(sessions, n, i)
          /\ sessions[i].host = n
          /\ Len(sessions[i].clients) < MaxClients
          /\ \/ /\ sessions[i].params = NoParam
                /\ exceptionCaught(c, Joined(i, selfName[c]),
                                   <<sendProto(Pkt("SESSION_STARTING"), {c})>>)
             \/ /\ sessions[i].params # NoParam
                /\ sessions' = Joined(i, selfName[c])
                /\ sent' = <<sendProto(Pkt("SESSION_STARTING"), {c}),
                             sendProto(VideoParams(sessions[i].params), {c})>>
                /\ UNCHANGED <<users, selfName, chan, running>>

\* A new session for n, without the search for one n takes part in.
Create(c, n) ==
    /\ Handling(c)
    /\ Registered(n)
    /\ Len(sessions) < MaxSessions
    /\ 0 < MaxClients
    /\ sessions' = Append(sessions, NewSession(n, selfName[c]))
    /\ sent' = <<sendProto(Pkt("SESSION_STARTING"), {c}),
                 sendProto(Pkt("SESSION_REQUEST"), {users[n]})>>
    /\ strayed' = (strayed \/ Strays(c, n))
    /\ UNCHANGED <<users, selfName, chan, running>>

\* Mutant: only the hosts of the sessions are searched.
CreateForClient(c, n) ==
    /\ HostedBy(sessions, n) = {}
    /\ Create(c, n)

\* Mutant: only the clients of the sessions are searched.
CreateForHost(c, n) ==
    /\ \A i \in DOMAIN sessions : ~Contains(sessions[i].clients, n)
    /\ Create(c, n)

onSessionRequestCreate(c, n) ==
    /\ \A i \in DOMAIN sessions : ~Involves(sessions[i], n)
    /\ Create(c, n)

OnlyClient(s, n) == s.host # n /\ Contains(s.clients, n)

\* The loop of onSessionClose stops at the first session the sender is only a
\* client of; the sessions it hosts before that one are told of the close.
LeavesAt(n, i) ==
    /\ i \in DOMAIN sessions
    /\ OnlyClient(sessions[i], n)
    /\ \A j \in DOMAIN sessions : j < i => ~OnlyClient(sessions[j], n)

ToldOfClose(n) ==
    ClientsOf(sessions, {i \in HostedBy(sessions, n) :
                            \A j \in DOMAIN sessions : LeavesAt(n, j) => i < j})

CloseNotice(n) == sendProto(Pkt("SESSION_CLOSE"), Reached(ToldOfClose(n)))

onSessionCloseThrows(c) ==
    /\ Handling(c)
    /\ Throws(ToldOfClose(selfName[c]))
    /\ exceptionCaught(c, sessions, <<CloseNotice(selfName[c])>>)
    /\ UNCHANGED strayed

\* A client leaves.  The reply is built and never sent, and the early return
\* skips the removal of a hosted session met before.
onSessionCloseClient(c) ==
    /\ Handling(c)
    /\ ~Throws(ToldOfClose(selfName[c]))
    /\ \E i \in DOMAIN sessions :
          /\ LeavesAt(selfName[c], i)
          /\ \E k \in DOMAIN sessions[i].clients :
                /\ FirstOccurrence(sessions[i].clients, selfName[c], k)
                /\ sessions' = RemoveClient(sessions, i, k)
    /\ sent' = <<CloseNotice(selfName[c])>>
    /\ UNCHANGED <<users, selfName, chan, running, strayed>>

\* Mutant: the clients are not told.
CloseSilently(c) ==
    /\ Handling(c)
    /\ \A i \in DOMAIN sessions : ~LeavesAt(selfName[c], i)
    /\ \E i \in HostedBy(sessions, selfName[c]) : sessions' = RemoveAt(sessions, i)
    /\ sent' = <<>>
    /\ UNCHANGED <<users, selfName, chan, running, strayed>>

\* The host closes: toRemove is the last session of the list it hosts.
onSessionCloseHost(c) ==
    /\ Handling(c)
    /\ ~Throws(ToldOfClose(selfName[c]))
    /\ \A i \in DOMAIN sessions : ~LeavesAt(selfName[c], i)
    /\ \E i \in HostedBy(sessions, selfName[c]) :
          /\ \A j \in HostedBy(sessions, selfName[c]) : j <= i
          /\ sessions' = RemoveAt(sessions, i)
    /\ sent' = <<CloseNotice(selfName[c])>>
    /\ UNCHANGED <<users, selfName, chan, running, strayed>>

onSessionCloseNobody(c) ==
    /\ \A i \in DOMAIN sessions : ~Involves(sessions[i], selfName[c])
    /\ Answer(c, <<>>)

\* The parameters are stored session by session before they are passed on, so
\* an exception leaves the later sessions without them.
onVideoParams(c, p) ==
    LET mine == HostedBy(sessions, selfName[c])
        viewers == ClientsOf(sessions, mine)
        stored == [i \in DOMAIN sessions |->
                      IF i \in mine /\ \A r \in Missing(viewers) : i <= r[1]
                      THEN [sessions[i] EXCEPT !.params = p]
                      ELSE sessions[i]]
        wrote == <<sendProto(VideoParams(p), Reached(viewers))>>
    IN
    /\ Handling(c)
    /\ \/ /\ Throws(viewers)
          /\ exceptionCaught(c, stored, wrote)
       \/ /\ ~Throws(viewers)
          /\ sessions' = stored
          /\ sent' = wrote
          /\ UNCHANGED <<users, selfName, chan, running>>
    /\ UNCHANGED strayed

\* A packet passed on unchanged to the names of nm.
Relay(c, nm, pkt) ==
    /\ Handling(c)
    /\ \/ /\ Throws(nm)
          /\ exceptionCaught(c, sessions, <<sendProto(pkt, Reached(nm))>>)
       \/ /\ ~Throws(nm)
          /\ sent' = <<sendProto(pkt, Reached(nm))>>
          /\ UNCHANGED <<users, sessions, selfName, chan, running>>
    /\ UNCHANGED strayed

Data(c) ==
    Relay(c, ClientsOf(sessions, HostedBy(sessions, selfName[c])), Pkt("DATA"))

ControlInput(c) ==
    Relay(c, HostOf(sessions, {i \in DOMAIN sessions :
                                  Contains(sessions[i].clients, selfName[c])}),
          Pkt("CONTROL_INPUT"))

--------------------------------------------------------------------------------
(* handlePacket *)
onNewUser(c, n) == onNewUserAccepted(c, n) \/ onNewUserTaken(c, n)

onSessionRequest(c, n) ==
    \/ onSessionRequestUnknown(c, n)
    \/ onSessionRequestBusy(c, n)
    \/ onSessionRequestJoin(c, n)
    \/ onSessionRequestCreate(c, n)

HandlePacket(c) ==
    \/ onHandshake(c)
    \/ onHandshakeRefused(c)
    \/ onHeartbeat(c)
    \/ onSessionCloseThrows(c)
    \/ onSessionCloseClient(c)
    \/ onSessionCloseHost(c)
    \/ onSessionCloseNobody(c)
    \/ \E p \in Param : onVideoParams(c, p)
    \/ Data(c)
    \/ ControlInput(c)
    \/ \E n \in Wants[c] : onNewUser(c, n)
    \/ \E n \in Name : onSessionRequest(c, n)

ConnectionEvent(c) ==
    \/ channelActive(c)
    \/ PeerCloses(c)
    \/ ReadEnds(c)
    \/ ConnectionReset(c)
    \/ HeartbeatTimeout(c)

Next == \E c \in Channel : ConnectionEvent(c) \/ HandlePacket(c)

Spec == Init /\ [][Next]_vars

--------------------------------------------------------------------------------
(* Properties *)

\* Type correctness of the distributor's state.  A connection that has been
\* reaped has no heartbeat thread (removeSelf clears running before the close),
\* and one that was not accepted yet has neither a thread nor a name.
TypeOK ==
    /\ users \in [Name -> Channel \cup {NoChannel}]
    /\ sessions \in Seq(Session)
    /\ selfName \in [Channel -> Name]
    /\ chan \in [Channel -> ChanState]
    /\ running \in [Channel -> BOOLEAN]
    /\ sent \in Seq(Write)
    /\ strayed \in BOOLEAN
    /\ \A c \in Channel : chan[c] \in {"new", "closed"} => ~running[c]
    /\ \A c \in Channel : chan[c] = "new" => selfName[c] = Anon

\* No two sessions have the same host, whatever requests arrive: every loop of
\* ServerHandler that looks for "the" session of a host meets at most one.
UniqueHost ==
    \A i, j \in DOMAIN sessions : sessions[i].host = sessions[j].host => i = j

\* A connection that has not been reaped still owns the name it carries, so
\* UsersData.remove(selfName) never deletes another connection's entry.
NameOwner ==
    \A c \in Channel :
        chan[c] \in {"open", "closing", "gone"} /\ selfName[c] # Anon
            => users[selfName[c]] = c

\* While every client asks for a session only under its own name and from
\* outside any session, each name takes part in at most one session and in one
\* role (USER_ALREADY_IN_SESSION and the join of a hosted session see to it) ...
OneRole ==
    ~strayed =>
        \A i, j \in DOMAIN sessions :
            /\ \A k \in DOMAIN sessions[i].clients : sessions[i].clients[k] # sessions[j].host
            /\ \A k \in DOMAIN sessions[i].clients, l \in DOMAIN sessions[j].clients :
                  sessions[i].clients[k] = sessions[j].clients[l] => i = j /\ k = l

\* ... and everyone the session list mentions is registered: getUser(...) in the
\* loops over hosts and clients finds a channel.
NoDangling ==
    ~strayed =>
        \A i \in DOMAIN sessions :
            /\ Registered(sessions[i].host)
            /\ \A k \in DOMAIN sessions[i].clients : Registered(sessions[i].clients[k])

\* Then removeSelf never throws, so no connection outlives its heartbeat thread:
\* one whose peer leaves is still going to be reaped.
NoZombie ==
    ~strayed =>
        \A c \in Channel : chan[c] \in {"open", "closing", "gone"} => running[c]

Delivers(out, pkt, d) == \E w \in DOMAIN out : out[w].pkt = pkt /\ d \in out[w].to

\* A session never disappears behind its members' backs: when a step drops the
\* session of a host, every client that stays registered is written a
\* SESSION_CLOSE by that step (onSessionClose, removeSelf).
CloseIsAnnounced ==
    [][\A i \in DOMAIN sessions :
          (\A j \in DOMAIN sessions' : sessions'[j].host # sessions[i].host) =>
              \A k \in DOMAIN sessions[i].clients :
                  LET d == users'[sessions[i].clients[k]]
                  IN  d = NoChannel \/ Delivers(sent', Pkt("SESSION_CLOSE"), d)]_vars

\* A client is never left with parameters other than its session's: whenever a
\* step adds a client to a session that has parameters, or changes the
\* parameters, it writes them to that client (onVideoParams and the join of
\* onSessionRequest), unless the client had exactly these before.
ParamsReachClients ==
    [][~strayed' =>
        \A j \in DOMAIN sessions' : \A k \in DOMAIN sessions'[j].clients :
            LET s == sessions'[j]
            IN  \/ s.params = NoParam
                \/ \E i \in DOMAIN sessions :
                      /\ sessions[i].host = s.host
                      /\ sessions[i].params = s.params
                      /\ Contains(sessions[i].clients, s.clients[k])
                \/ Delivers(sent', VideoParams(s.params), users'[s.clients[k]])]_vars

--------------------------------------------------------------------------------
(* What comments of ServerHandler say of it and the code does not do *)

\* "send new user video params" (onSessionRequest): who joins a session gets its
\* video parameters.
JoinerGetsParams ==
    [][\A c \in Channel, n \in Name : ~strayed' /\ onSessionRequestJoin(c, n)
          => \E p \in Param : Delivers(sent', VideoParams(p), c)]_vars
================================================================================
