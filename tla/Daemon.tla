--------------------------------- MODULE Daemon ---------------------------------
(***************************************************************************)
(* A daemon's connection to the distributor: the main thread that runs     *)
(* run_frame in a loop, the thread that reads commands from stdin, and the *)
(* handlers that poll_network starts with std::async, one task per packet  *)
(* received.  They share the atomics of DaemonBackendController, username_ *)
(* and send_buffer_; only the main thread touches the socket.              *)
(*                                                                         *)
(* A name is the number of times "1" was appended to the nickname the user *)
(* chose; a user list is the number of lists the distributor had sent when *)
(* it sent this one.  The packets of a session are left to the session's   *)
(* own threads.                                                            *)
(***************************************************************************)
EXTENDS Naturals, Sequences, FiniteSets, SequencesExt

CONSTANTS
    Others,       \* names other daemons have registered
    MaxCommands,  \* bound on the commands typed
    MaxLists      \* bound on the user lists the distributor sends

ASSUME OthersAssumption == Others \subseteq Nat
ASSUME BoundAssumption == MaxCommands \in Nat /\ MaxLists \in Nat

VARIABLES
    running,         \* running_
    main,            \* where the main thread is
    cli,             \* "waiting": handle_cli spins on connect_signal_
    connect_signal,  \* connect_signal_
    connected,       \* NetworkManager::connected_
    late,            \* more than 6 s have passed since last_heartbeat_time_
    username,        \* username_
    remote_users,    \* remote_users_
    send_buffer,     \* send_buffer_
    retrieved,       \* what parse_blob has cut out and no handler was given
    tasks,           \* nonblocking_tasks_ by what they have yet to do
    socket,          \* the connection as the remote side left it
    outbox,          \* packets on their way to the distributor
    inbox,           \* packets on their way to the daemon
    registered,      \* the names the distributor has registered for the daemon
    lists,           \* number of user lists sent
    greetings,       \* history: handshakes started by send_initial_hs
    commands,        \* history: number of commands typed
    overlapped       \* history: two user list handlers ran at the same time

controlVars == <<running, cli, connect_signal, commands>>
taskVars == <<late, username, remote_users, tasks, overlapped>>
netVars == <<socket, outbox, inbox, registered, lists>>

vars == <<controlVars, taskVars, netVars, main, connected, send_buffer, retrieved, greetings>>

Pkt(t, n) == [type |-> t, arg |-> n]

\* The magic numbers a handshake is answered with: the distributor's, or another.
Magic == {"good", "bad"}

\* The tasks by what they have yet to do: the packet whose handler has not run,
\* or the rest of a handler that is split where another thread can see it.
Task ==
    {Pkt("HANDSHAKE", m) : m \in Magic} \cup
    {Pkt(t, 0) : t \in {"HEARTBEAT", "ASLEEP", "NAME_TAKEN", "RENAMED"}} \cup
    {Pkt("USER_LIST", v) : v \in 1 .. MaxLists}

Starts(k) == tasks' = [tasks EXCEPT ![k] = @ + 1]
Ends(k) == tasks[k] > 0 /\ tasks' = [tasks EXCEPT ![k] = @ - 1]
Continues(k, l) == tasks[k] > 0 /\ tasks' = [tasks EXCEPT ![k] = @ - 1, ![l] = @ + 1]

enqueue_msg(pkt) == send_buffer' = Append(send_buffer, pkt)

--------------------------------------------------------------------------------
(* Construction *)

\* The members in front of cli_thread_ are initialised, the others are not yet:
\* connect_signal_ has no value that means anything.
Init ==
    /\ running = TRUE
    /\ main = "constructing"
    /\ cli = "prompt"
    /\ connect_signal \in BOOLEAN
    /\ connected = FALSE
    /\ late = FALSE
    /\ username = 0
    /\ remote_users = 0
    /\ send_buffer = <<>>
    /\ retrieved = <<>>
    /\ tasks = [k \in Task |-> 0]
    /\ socket = "none"
    /\ outbox = <<>>
    /\ inbox = <<>>
    /\ registered = {}
    /\ lists = 0
    /\ greetings = 0
    /\ commands = 0
    /\ overlapped = FALSE

\* The rest of the constructor and init, with the command thread running.
Construct ==
    /\ main = "constructing"
    /\ main' = "frame"
    /\ connect_signal' = FALSE
    /\ send_buffer' = <<>>
    /\ username' = 0
    /\ UNCHANGED <<running, cli, commands, late, remote_users, tasks, overlapped, netVars,
                   connected, retrieved, greetings>>

--------------------------------------------------------------------------------
(* handle_cli *)

Typed ==
    /\ cli = "prompt"
    /\ main # "ended"
    /\ commands < MaxCommands
    /\ commands' = commands + 1

CliConnect ==
    /\ Typed
    /\ connect_signal' = TRUE
    /\ cli' = "waiting"
    /\ UNCHANGED <<running, taskVars, netVars, main, connected, send_buffer, retrieved, greetings>>

\* The loop on connect_signal_ ends and the outcome is printed.
CliConnected ==
    /\ cli = "waiting"
    /\ main # "ended"
    /\ ~connect_signal
    /\ cli' = "prompt"
    /\ UNCHANGED <<running, connect_signal, commands, taskVars, netVars, main, connected,
                   send_buffer, retrieved, greetings>>

CliName ==
    /\ Typed
    /\ username' = 0
    /\ UNCHANGED <<running, cli, connect_signal, late, remote_users, tasks, overlapped, netVars,
                   main, connected, send_buffer, retrieved, greetings>>

\* "session" and "endsession"
CliSession(t) ==
    /\ Typed
    /\ enqueue_msg(Pkt(t, 0))
    /\ UNCHANGED <<running, cli, connect_signal, taskVars, netVars, main, connected, retrieved,
                   greetings>>

CliExit ==
    /\ Typed
    /\ running' = FALSE
    /\ UNCHANGED <<cli, connect_signal, taskVars, netVars, main, connected, send_buffer,
                   retrieved, greetings>>

handle_cli ==
    \/ CliConnect
    \/ CliConnected
    \/ CliName
    \/ \E t \in {"SESSION_REQUEST", "SESSION_CLOSE"} : CliSession(t)
    \/ CliExit

--------------------------------------------------------------------------------
(* The main thread *)

Leave ==
    /\ main = "frame"
    /\ ~running
    /\ main' = "ended"
    /\ UNCHANGED <<controlVars, taskVars, netVars, connected, send_buffer, retrieved, greetings>>

\* Mutant: a silent distributor goes unnoticed.
FrameUnchecked ==
    /\ main = "frame"
    /\ running
    /\ connected
    /\ main' = "receive"
    /\ UNCHANGED <<controlVars, taskVars, netVars, connected, send_buffer, retrieved, greetings>>

\* run_frame while connected: the check of the last heartbeat.
Frame ==
    /\ main = "frame"
    /\ running
    /\ connected
    /\ running' = ~late
    /\ main' = "receive"
    /\ UNCHANGED <<cli, connect_signal, commands, taskVars, netVars, connected, send_buffer,
                   retrieved, greetings>>

\* receive_data reads until recv fails.  On a connection the remote side has
\* closed recv returns 0, which is no failure: the loop goes on.
ReceiveData ==
    /\ main = "receive"
    /\ \/ /\ socket \in {"up", "lost"}
          /\ \/ main' = "flush" /\ UNCHANGED <<inbox, retrieved>>
             \/ /\ \E n \in 1 .. Len(inbox) :
                      /\ retrieved' = retrieved \o SubSeq(inbox, 1, n)
                      /\ inbox' = SubSeq(inbox, n + 1, Len(inbox))
                /\ main' = "dispatch"
       \/ /\ socket = "reset"
          /\ inbox' = <<>>
          /\ main' = "flush"
          /\ UNCHANGED retrieved
    /\ UNCHANGED <<controlVars, taskVars, socket, outbox, registered, lists, connected,
                   send_buffer, greetings>>

\* The handler of the packet is started as a task.  The handlers that only print
\* are not kept.
Dispatch(pkt) ==
    \/ /\ pkt \in Task
       /\ Starts(pkt)
       /\ overlapped' = (overlapped \/ (/\ pkt.type = "USER_LIST"
                                        /\ \E v \in 1 .. MaxLists : tasks[Pkt("USER_LIST", v)] > 0))
    \/ /\ pkt.type \in {"SUCCESS", "USER_NOT_FOUND"}
       /\ UNCHANGED <<tasks, overlapped>>

poll_network ==
    /\ main = "dispatch"
    /\ \/ /\ retrieved # <<>>
          /\ Dispatch(Head(retrieved))
          /\ retrieved' = Tail(retrieved)
          /\ UNCHANGED main
       \/ /\ retrieved = <<>>
          /\ main' = "flush"
          /\ UNCHANGED <<tasks, overlapped, retrieved>>
    /\ UNCHANGED <<controlVars, late, username, remote_users, netVars, connected, send_buffer,
                   greetings>>

\* The loop that empties send_buffer_.  What is written after the remote side has
\* gone is lost.
Flush ==
    /\ main = "flush"
    /\ \/ /\ send_buffer # <<>>
          /\ send_buffer' = Tail(send_buffer)
          /\ outbox' = IF socket = "up" THEN Append(outbox, Head(send_buffer)) ELSE outbox
          /\ UNCHANGED main
       \/ /\ send_buffer = <<>>
          /\ main' = "frame"
          /\ UNCHANGED <<send_buffer, outbox>>
    /\ UNCHANGED <<controlVars, taskVars, socket, inbox, registered, lists, connected, retrieved,
                   greetings>>

\* Mutant: the outcome of the connect is not looked at.
ConnectUnchecked ==
    /\ main = "frame"
    /\ running
    /\ ~connected
    /\ connect_signal
    /\ connected' = TRUE
    /\ socket' \in {"up", "none"}
    /\ main' = "signal"
    /\ UNCHANGED <<controlVars, taskVars, outbox, inbox, registered, lists, send_buffer,
                   retrieved, greetings>>

\* run_frame while not connected: NetworkManager::connect ...
Connect ==
    /\ main = "frame"
    /\ running
    /\ ~connected
    /\ connect_signal
    /\ connected' \in BOOLEAN
    /\ socket' = IF connected' THEN "up" ELSE "none"
    /\ main' = "signal"
    /\ UNCHANGED <<controlVars, taskVars, outbox, inbox, registered, lists, send_buffer,
                   retrieved, greetings>>

\* Mutant: the command thread is released only by a connect that failed.
SignalFailure ==
    /\ main = "signal"
    /\ connect_signal' = connected
    /\ main' = "greet"
    /\ UNCHANGED <<running, cli, commands, taskVars, netVars, connected, send_buffer, retrieved,
                   greetings>>

\* ... then the command thread is released, whether or not it worked ...
Signal ==
    /\ main = "signal"
    /\ connect_signal' = FALSE
    /\ main' = "greet"
    /\ UNCHANGED <<running, cli, commands, taskVars, netVars, connected, send_buffer, retrieved,
                   greetings>>

\* ... and send_initial_hs queues the two packets of a greeting.
Greet ==
    /\ main = "greet"
    /\ enqueue_msg(Pkt("HANDSHAKE", "good"))
    /\ main' = "beat"
    /\ UNCHANGED <<controlVars, taskVars, netVars, connected, retrieved, greetings>>

FirstBeat ==
    /\ main = "beat"
    /\ enqueue_msg(Pkt("HEARTBEAT", 0))
    /\ greetings' = greetings + 1
    /\ late' = FALSE
    /\ main' = "frame"
    /\ UNCHANGED <<controlVars, username, remote_users, tasks, overlapped, netVars, connected,
                   retrieved>>

run_frame ==
    \/ Leave
    \/ Frame
    \/ ReceiveData
    \/ poll_network
    \/ Flush
    \/ Connect
    \/ Signal
    \/ Greet
    \/ FirstBeat

\* The clock: the heartbeat is more than six seconds old.
Silence ==
    /\ connected
    /\ main # "ended"
    /\ ~late
    /\ late' = TRUE
    /\ UNCHANGED <<controlVars, username, remote_users, tasks, overlapped, netVars, main,
                   connected, send_buffer, retrieved, greetings>>

--------------------------------------------------------------------------------
(* Handlers running as tasks *)

\* Mutant: the name is asked for twice.
AskTwice ==
    /\ Ends(Pkt("HANDSHAKE", "good"))
    /\ send_buffer' = send_buffer \o <<Pkt("NEW_USER", username), Pkt("NEW_USER", username)>>
    /\ UNCHANGED <<controlVars, late, username, remote_users, overlapped, netVars, main,
                   connected, retrieved, greetings>>

handle_handshake ==
    /\ \/ /\ Ends(Pkt("HANDSHAKE", "good"))
          /\ enqueue_msg(Pkt("NEW_USER", username))
          /\ UNCHANGED running
       \/ /\ Ends(Pkt("HANDSHAKE", "bad"))
          /\ running' = FALSE
          /\ UNCHANGED send_buffer
    /\ UNCHANGED <<cli, connect_signal, commands, late, username, remote_users, overlapped, netVars, main,
                   connected, retrieved, greetings>>

\* Mutant: every heartbeat is answered twice.
BeatTwice ==
    /\ Ends(Pkt("ASLEEP", 0))
    /\ send_buffer' = send_buffer \o <<Pkt("HEARTBEAT", 0), Pkt("HEARTBEAT", 0)>>
    /\ UNCHANGED <<controlVars, late, username, remote_users, overlapped, netVars, main,
                   connected, retrieved, greetings>>

\* handle_heartbeat before and after its sleep of two seconds.
BeatArrives ==
    /\ Continues(Pkt("HEARTBEAT", 0), Pkt("ASLEEP", 0))
    /\ late' = FALSE
    /\ UNCHANGED <<controlVars, username, remote_users, overlapped, netVars, main, connected,
                   send_buffer, retrieved, greetings>>

BeatReturns ==
    /\ Ends(Pkt("ASLEEP", 0))
    /\ enqueue_msg(Pkt("HEARTBEAT", 0))
    /\ UNCHANGED <<controlVars, late, username, remote_users, overlapped, netVars, main,
                   connected, retrieved, greetings>>

handle_heartbeat == BeatArrives \/ BeatReturns

\* handle_servmsg for NAME_TAKEN: username_ grows, then is read again.
Rename ==
    /\ Continues(Pkt("NAME_TAKEN", 0), Pkt("RENAMED", 0))
    /\ username' = username + 1
    /\ UNCHANGED <<controlVars, late, remote_users, overlapped, netVars, main, connected,
                   send_buffer, retrieved, greetings>>

AskAgain ==
    /\ Ends(Pkt("RENAMED", 0))
    /\ enqueue_msg(Pkt("NEW_USER", username))
    /\ UNCHANGED <<controlVars, late, username, remote_users, overlapped, netVars, main,
                   connected, retrieved, greetings>>

handle_servmsg == Rename \/ AskAgain

\* Mutant: a list is kept only when there was none.
KeepFirstList(v) ==
    /\ Ends(Pkt("USER_LIST", v))
    /\ remote_users' = IF remote_users = 0 THEN v ELSE remote_users
    /\ UNCHANGED <<controlVars, late, username, overlapped, netVars, main, connected,
                   send_buffer, retrieved, greetings>>

handle_user_list(v) ==
    /\ Ends(Pkt("USER_LIST", v))
    /\ remote_users' = v
    /\ UNCHANGED <<controlVars, late, username, overlapped, netVars, main, connected,
                   send_buffer, retrieved, greetings>>

RunTask ==
    /\ main # "ended"
    /\ \/ handle_handshake
       \/ handle_heartbeat
       \/ handle_servmsg
       \/ \E v \in 1 .. MaxLists : handle_user_list(v)

--------------------------------------------------------------------------------
(* The distributor, as this connection sees it *)

\* handlePacket; a server that is no distributor answers the handshake with a
\* number of its own.  A session request is answered as for a name nobody has.
Reply(pkt) ==
    \/ /\ pkt.type = "HANDSHAKE"
       /\ \E m \in Magic : inbox' = Append(inbox, Pkt("HANDSHAKE", m))
       /\ UNCHANGED <<registered, lists>>
    \/ /\ pkt.type = "HEARTBEAT"
       /\ inbox' = Append(inbox, pkt)
       /\ UNCHANGED <<registered, lists>>
    \/ /\ pkt.type = "NEW_USER"
       /\ pkt.arg \notin registered \cup Others
       /\ lists < MaxLists
       /\ registered' = registered \cup {pkt.arg}
       /\ lists' = lists + 1
       /\ inbox' = inbox \o <<Pkt("SUCCESS", 0), Pkt("USER_LIST", lists')>>
    \/ /\ pkt.type = "NEW_USER"
       /\ pkt.arg \in registered \cup Others
       /\ inbox' = Append(inbox, Pkt("NAME_TAKEN", 0))
       /\ UNCHANGED <<registered, lists>>
    \/ /\ pkt.type = "SESSION_REQUEST"
       /\ inbox' = Append(inbox, Pkt("USER_NOT_FOUND", 0))
       /\ UNCHANGED <<registered, lists>>
    \/ /\ pkt.type = "SESSION_CLOSE"
       /\ UNCHANGED <<inbox, registered, lists>>

Serve ==
    /\ socket = "up"
    /\ outbox # <<>>
    /\ outbox' = Tail(outbox)
    /\ Reply(Head(outbox))
    /\ UNCHANGED <<controlVars, taskVars, socket, main, connected, send_buffer, retrieved,
                   greetings>>

\* Another daemon registers: everybody is sent the new list.
OtherRegisters ==
    /\ socket = "up"
    /\ registered # {}
    /\ lists < MaxLists
    /\ lists' = lists + 1
    /\ inbox' = Append(inbox, Pkt("USER_LIST", lists'))
    /\ UNCHANGED <<controlVars, taskVars, socket, outbox, registered, main, connected,
                   send_buffer, retrieved, greetings>>

\* The distributor closes the connection, resets it, or falls silent.
Vanish ==
    /\ socket = "up"
    /\ socket' \in {"closed", "reset", "lost"}
    /\ outbox' = <<>>
    /\ UNCHANGED <<controlVars, taskVars, inbox, registered, lists, main, connected,
                   send_buffer, retrieved, greetings>>

Remote == main # "ended" /\ (Serve \/ OtherRegisters \/ Vanish)

Next == Construct \/ handle_cli \/ run_frame \/ Silence \/ RunTask \/ Remote

Spec == Init /\ [][Next]_vars

\* Every thread is scheduled, the clock goes on, and a distributor that is up
\* answers.  Nobody has to type, to register or to vanish.
FairSpec ==
    /\ Spec
    /\ WF_vars(Construct)
    /\ WF_vars(CliConnected)
    /\ WF_vars(run_frame)
    /\ WF_vars(Silence)
    /\ WF_vars(RunTask)

--------------------------------------------------------------------------------
(* Properties *)

Count(s, t) == Cardinality({i \in DOMAIN s : s[i].type = t})

\* Type correctness of the daemon's state.
TypeOK ==
    /\ running \in BOOLEAN
    /\ main \in {"constructing", "frame", "receive", "dispatch", "flush", "signal", "greet",
                 "beat", "ended"}
    /\ cli \in {"prompt", "waiting"}
    /\ connect_signal \in BOOLEAN
    /\ connected \in BOOLEAN
    /\ late \in BOOLEAN
    /\ username \in Nat
    /\ remote_users \in 0 .. MaxLists
    /\ tasks \in [Task -> Nat]
    /\ socket \in {"none", "up", "closed", "reset", "lost"}
    /\ registered \subseteq Nat
    /\ connected = (socket # "none")

\* The heartbeat of a greeting goes round for as long as the connection is up:
\* handle_heartbeat and the distributor each pass it on exactly once, so it is
\* never lost (both sides would give the connection up) and never multiplies.
HeartbeatConserved ==
    socket \in {"none", "up"} =>
        Count(send_buffer, "HEARTBEAT") + Count(outbox, "HEARTBEAT")
          + Count(inbox, "HEARTBEAT") + Count(retrieved, "HEARTBEAT")
          + tasks[Pkt("HEARTBEAT", 0)] + tasks[Pkt("ASLEEP", 0)] = greetings

\* A greeting leads to at most one name: handle_servmsg asks for a longer name
\* only while none was given.  (A connect that fails leaves a greeting behind in
\* send_buffer_, so a second attempt may register the daemon twice.)
OneNamePerGreeting == Cardinality(registered) <= greetings

\* Unless the handlers of two lists ran side by side, the user list shown is the
\* latest that was sent once everything has been handled.
LatestList ==
    ~overlapped /\ inbox = <<>> /\ retrieved = <<>> /\ (\A k \in Task : tasks[k] = 0)
        /\ socket = "up"
        => remote_users = lists

\* A connect command given while there is no connection is answered, whether the
\* attempt succeeds or not and whatever the main thread is doing.
ConnectAnswered ==
    (cli = "waiting" /\ ~connected) ~> (cli = "prompt" \/ main = "ended")

\* The daemon ends when told to, and when the distributor falls silent or resets
\* the connection (the timeout of run_frame), unless it is caught in receive_data.
DaemonEnds ==
    (~running \/ socket \in {"lost", "reset"}) ~> (main = "ended" \/ socket = "closed")

--------------------------------------------------------------------------------
(* What the documentation says and the code does not do *)

\* "send and receive calls are non-blocking" (client_socket.hh): receive_data
\* returns to run_frame.
ReceiveReturns == main = "receive" ~> main # "receive"
================================================================================
