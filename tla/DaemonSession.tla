----------------------------- MODULE DaemonSession -----------------------------
(***************************************************************************)
(* The session half of a daemon: the handlers that poll_network starts as  *)
(* tasks for SESSION_STARTING, VIDEO_PARAMS, SESSION_CLOSE and             *)
(* SESSION_REQUEST, the DATA packets the main thread queues itself, and    *)
(* the decoder, renderer and encoder threads the handlers start and join.  *)
(* The distributor sends what ServerHandler sends to one user.             *)
(*                                                                         *)
(* state_, decoder_running_ and the thread pointers have no initial value: *)
(* Init lets them have any.  Using a pointer to no thread, or a codec that *)
(* is not set up, ends the process or goes on, as chance has it.           *)
(***************************************************************************)
EXTENDS Naturals, Sequences, FiniteSets, SequencesExt

CONSTANTS
    MaxSessions,  \* bound on the sessions the daemon joins
    MaxFrames,    \* bound on the DATA packets received
    MaxRequests,  \* bound on the sessions the daemon is asked to host
    MaxQueued,    \* bound on the packets the encoder threads queue
    MaxTasks      \* bound on the handlers under way at the same time

ASSUME BoundAssumption == {MaxSessions, MaxFrames, MaxRequests, MaxQueued, MaxTasks} \subseteq Nat

VARIABLES
    state,             \* state_
    running,           \* running_
    decoder_running,   \* decoder_running_
    renderer_running,  \* renderer_running_
    encoder_running,   \* encoder_running_
    pointer,           \* decoding_thread_, rendering_thread_, encoding_thread_
    decoders,          \* what each decoder thread is doing
    renderers,         \* what each renderer thread is doing
    encoders,          \* what each encoder thread is doing
    held,              \* the frame each decoder thread has dequeued
    decoder,           \* decoder_
    encoder,           \* encoder_
    window,            \* create_window was called, close_window not yet
    encoded_buffer,    \* encoded_buffer_
    decode_buffer,     \* decode_buffer_
    queued,            \* what the encoder threads put into send_buffer_
    tasks,             \* the handler tasks by what they have yet to do
    crashed,           \* the process died of a wild pointer
    phase,             \* the session as the distributor sees it
    sessions,          \* number of sessions joined
    params,            \* number of VIDEO_PARAMS sent to the daemon
    frames,            \* number of DATA packets sent to the daemon
    requests,          \* number of SESSION_REQUESTs sent to the daemon
    shown,             \* history: the frames rendered, and by which thread
    disorder           \* history: two handlers ran at once, or a session was
                       \* left with endsession, which tells nobody

flagVars == <<state, running, decoder_running, renderer_running, encoder_running, pointer>>
threadVars == <<decoders, renderers, encoders, held>>
codecVars == <<decoder, encoder, window>>
bufferVars == <<encoded_buffer, decode_buffer, queued, shown>>
remoteVars == <<phase, sessions, params, frames, requests, disorder>>

vars == <<flagVars, threadVars, codecVars, bufferVars, tasks, crashed, remoteVars>>

Viewer == 1 .. MaxSessions
Streamer == 1 .. MaxRequests

\* "unset" is a value that is none of the enumeration's.
SessionState == {"LOBBY", "CLIENT", "HOST", "unset"}

Codec == {"off", "on", "failed"}

\* A frame and the number of the VIDEO_PARAMS it was sent after.
Frame == [of : 0 .. MaxSessions, n : 1 .. MaxFrames]

\* A thread object that was not created, one not finished, one that was joined,
\* one that was deleted.
Unfinished == {"starting", "idle", "busy", "first", "announce", "deliver", "again"}
Thread == {"none", "ended", "joined", "deleted"} \cup Unfinished

\* Handlers at their start, and where they are cut.
Step == {"STARTING", "REQUEST", "START_ENCODER", "PARAMS", "START_THREADS", "CLOSE",
         "JOIN_DECODER", "JOIN_RENDERER", "SHUTDOWN", "JOIN_ENCODER"}

Starts(k) ==
    /\ SumFunction(tasks) < MaxTasks
    /\ tasks' = [tasks EXCEPT ![k] = @ + 1]
    /\ disorder' = (disorder \/ \E l \in Step : tasks[l] > 0)
Ends(k) == tasks[k] > 0 /\ tasks' = [tasks EXCEPT ![k] = @ - 1]
Continues(k, l) == tasks[k] > 0 /\ tasks' = [tasks EXCEPT ![k] = @ - 1, ![l] = @ + 1]

Unused(f) == CHOOSE i \in DOMAIN f : f[i] = "none" /\ \A j \in DOMAIN f : j < i => f[j] # "none"

Init ==
    /\ state \in SessionState
    /\ running = TRUE
    /\ decoder_running \in BOOLEAN
    /\ renderer_running = FALSE  \* set before any read
    /\ encoder_running = FALSE   \* set before any read
    /\ pointer = [decoding |-> 0, rendering |-> 0, encoding |-> 0]
    /\ decoders = [i \in Viewer |-> "none"]
    /\ renderers = [i \in Viewer |-> "none"]
    /\ encoders = [i \in Streamer |-> "none"]
    /\ held = [i \in Viewer |-> <<>>]
    /\ decoder = "off"
    /\ encoder = "off"
    /\ window = FALSE
    /\ encoded_buffer = <<>>
    /\ decode_buffer = <<>>
    /\ queued = <<>>
    /\ tasks = [k \in Step |-> 0]
    /\ crashed = FALSE
    /\ phase = "idle"
    /\ sessions = 0
    /\ params = 0
    /\ frames = 0
    /\ requests = 0
    /\ shown = <<>>
    /\ disorder = FALSE

--------------------------------------------------------------------------------
(* Handlers running as tasks *)

\* handle_servmsg
HandleStarting ==
    /\ Ends("STARTING")
    /\ state' = "CLIENT"
    /\ UNCHANGED <<running, decoder_running, renderer_running, encoder_running, pointer,
                   threadVars, codecVars, bufferVars, crashed, remoteVars>>

\* handle_session_request up to encoder_.init, whose result nobody looks at ...
InitEncoder ==
    /\ Continues("REQUEST", "START_ENCODER")
    /\ encoder' \in {"on", "failed"}
    /\ UNCHANGED <<flagVars, threadVars, decoder, window, bufferVars, crashed, remoteVars>>

\* ... and the rest of it.
StartEncoder ==
    /\ Ends("START_ENCODER")
    /\ encoder_running' = TRUE
    /\ LET i == Unused(encoders)
       IN  /\ encoders' = [encoders EXCEPT ![i] = "first"]
           /\ pointer' = [pointer EXCEPT !.encoding = i]
    /\ UNCHANGED <<state, running, decoder_running, renderer_running, decoders, renderers, held,
                   codecVars, bufferVars, crashed, remoteVars>>

\* handle_video_params up to decoder_.init ...
InitDecoder ==
    /\ Continues("PARAMS", "START_THREADS")
    /\ \/ decoder' = "on" /\ UNCHANGED running
       \/ decoder' = "failed" /\ running' = FALSE
    /\ UNCHANGED <<state, decoder_running, renderer_running, encoder_running, pointer, threadVars,
                   encoder, window, bufferVars, crashed, remoteVars>>

\* A codec that is not set up is used: null is dereferenced.
Crashes(codec) ==
    /\ codec # "on"
    /\ crashed' = TRUE
    /\ UNCHANGED <<flagVars, threadVars, codecVars, bufferVars, tasks, remoteVars>>

\* ... and the rest of it, which decodes the header first.
StartThreads ==
    \/ tasks["START_THREADS"] > 0 /\ Crashes(decoder)
    \/ /\ Ends("START_THREADS")
       /\ renderer_running' = TRUE
       /\ LET i == Unused(decoders)
          IN  /\ decoders' = [decoders EXCEPT ![i] = "idle"]
              /\ renderers' = [renderers EXCEPT ![i] = "starting"]
              /\ pointer' = [pointer EXCEPT !.decoding = i, !.rendering = i]
       /\ UNCHANGED <<state, running, decoder_running, encoder_running, encoders, held, codecVars,
                      bufferVars, crashed, remoteVars>>

--------------------------------------------------------------------------------
(* close_session_inner *)

CloseNothing ==
    /\ state \in {"LOBBY", "unset"}
    /\ Ends("CLOSE")
    /\ UNCHANGED <<flagVars, threadVars, codecVars, bufferVars, crashed, remoteVars>>

\* Mutant: the decoder thread is not told to end.
CloseClientUntold ==
    /\ state = "CLIENT"
    /\ Continues("CLOSE", "JOIN_DECODER")
    /\ UNCHANGED <<flagVars, threadVars, codecVars, bufferVars, crashed, remoteVars>>

CloseClient ==
    /\ state = "CLIENT"
    /\ Continues("CLOSE", "JOIN_DECODER")
    /\ decoder_running' = FALSE
    /\ UNCHANGED <<state, running, renderer_running, encoder_running, pointer, threadVars,
                   codecVars, bufferVars, crashed, remoteVars>>

CloseHost ==
    /\ state = "HOST"
    /\ Continues("CLOSE", "JOIN_ENCODER")
    /\ encoder_running' = FALSE
    /\ UNCHANGED <<state, running, decoder_running, renderer_running, pointer, threadVars,
                   codecVars, bufferVars, crashed, remoteVars>>

\* What a pointer leads to.
Status(f, i) == IF i = 0 THEN "wild" ELSE f[i]

\* join of a thread that was joined before throws out of the handler; the future
\* keeps the exception to itself.  So may a join through a pointer that was never
\* set or was deleted, or else the process dies.
JoinFails(k, f, i) ==
    /\ tasks[k] > 0
    /\ \/ /\ Status(f, i) \in {"wild", "joined", "deleted"}
          /\ Ends(k)
          /\ UNCHANGED crashed
       \/ /\ Status(f, i) \in {"wild", "deleted"}
          /\ crashed' = TRUE
          /\ UNCHANGED tasks
    /\ UNCHANGED <<flagVars, threadVars, codecVars, bufferVars, remoteVars>>

\* Mutant: the decoder thread is told to end, not waited for.
JoinDecoderUnwaited ==
    /\ Status(decoders, pointer.decoding) # "wild"
    /\ Continues("JOIN_DECODER", "JOIN_RENDERER")
    /\ renderer_running' = FALSE
    /\ UNCHANGED <<state, running, decoder_running, encoder_running, pointer, threadVars,
                   codecVars, bufferVars, crashed, remoteVars>>

JoinDecoder ==
    \/ JoinFails("JOIN_DECODER", decoders, pointer.decoding)
    \/ /\ Status(decoders, pointer.decoding) = "ended"
       /\ Continues("JOIN_DECODER", "JOIN_RENDERER")
       /\ decoders' = [decoders EXCEPT ![pointer.decoding] = "joined"]
       /\ renderer_running' = FALSE
       /\ UNCHANGED <<state, running, decoder_running, encoder_running, pointer, renderers,
                      encoders, held, codecVars, bufferVars, crashed, remoteVars>>

JoinRenderer ==
    \/ JoinFails("JOIN_RENDERER", renderers, pointer.rendering)
    \/ /\ Status(renderers, pointer.rendering) = "ended"
       /\ Continues("JOIN_RENDERER", "SHUTDOWN")
       /\ renderers' = [renderers EXCEPT ![pointer.rendering] = "joined"]
       /\ UNCHANGED <<flagVars, decoders, encoders, held, codecVars, bufferVars, crashed,
                      remoteVars>>

\* Mutant: the decoded frames are kept.
ShutdownUncleared ==
    /\ Ends("SHUTDOWN")
    /\ window' = FALSE
    /\ decoder' = "off"
    /\ state' = "LOBBY"
    /\ renderers' = [renderers EXCEPT ![pointer.rendering] = "deleted"]
    /\ UNCHANGED <<running, decoder_running, renderer_running, encoder_running, pointer, decoders,
                   encoders, held, encoder, bufferVars, crashed, remoteVars>>

Shutdown ==
    /\ Ends("SHUTDOWN")
    /\ window' = FALSE
    /\ decoder' = "off"
    /\ state' = "LOBBY"
    /\ decode_buffer' = <<>>
    /\ renderers' = [renderers EXCEPT ![pointer.rendering] = "deleted"]
    /\ UNCHANGED <<running, decoder_running, renderer_running, encoder_running, pointer, decoders,
                   encoders, held, encoder, encoded_buffer, queued, shown, crashed, remoteVars>>

JoinEncoder ==
    \/ JoinFails("JOIN_ENCODER", encoders, pointer.encoding)
    \/ /\ Status(encoders, pointer.encoding) = "ended"
       /\ Ends("JOIN_ENCODER")
       /\ encoders' = [encoders EXCEPT ![pointer.encoding] = "deleted"]
       /\ encoder' = "off"
       /\ state' = "LOBBY"
       /\ UNCHANGED <<running, decoder_running, renderer_running, encoder_running, pointer,
                      decoders, renderers, held, decoder, window, bufferVars, crashed, remoteVars>>

close_session_inner ==
    \/ CloseNothing
    \/ CloseClient
    \/ CloseHost
    \/ JoinDecoder
    \/ JoinRenderer
    \/ Shutdown
    \/ JoinEncoder

RunTask ==
    \/ HandleStarting
    \/ InitEncoder
    \/ StartEncoder
    \/ InitDecoder
    \/ StartThreads
    \/ close_session_inner

--------------------------------------------------------------------------------
(* handle_decode; got_pps_sps_ is true from the start *)

DecoderEnds(i) ==
    /\ decoders[i] = "idle"
    /\ ~decoder_running
    /\ decoders' = [decoders EXCEPT ![i] = "ended"]
    /\ UNCHANGED <<flagVars, renderers, encoders, held, codecVars, bufferVars, tasks, crashed,
                   remoteVars>>

Dequeue(i) ==
    /\ decoders[i] = "idle"
    /\ decoder_running
    /\ encoded_buffer # <<>>
    /\ decoders' = [decoders EXCEPT ![i] = "busy"]
    /\ held' = [held EXCEPT ![i] = <<Head(encoded_buffer)>>]
    /\ encoded_buffer' = Tail(encoded_buffer)
    /\ UNCHANGED <<flagVars, renderers, encoders, codecVars, decode_buffer, queued, shown, tasks,
                   crashed, remoteVars>>

\* Mutant: the frame decoded stays with the thread.
DecodeKept(i) ==
    /\ decoders[i] = "busy"
    /\ decoder = "on"
    /\ decode_buffer' = decode_buffer \o held[i]
    /\ decoders' = [decoders EXCEPT ![i] = "idle"]
    /\ UNCHANGED <<flagVars, renderers, encoders, held, codecVars, encoded_buffer, queued, shown,
                   tasks, crashed, remoteVars>>

\* A packet the decoder accepts yields a frame; of others nothing is kept.
Decode(i) ==
    /\ decoders[i] = "busy"
    /\ \/ Crashes(decoder)
       \/ /\ \/ decoder = "on" /\ decode_buffer' = decode_buffer \o held[i]
             \/ UNCHANGED decode_buffer
          /\ decoders' = [decoders EXCEPT ![i] = "idle"]
          /\ held' = [held EXCEPT ![i] = <<>>]
          /\ UNCHANGED <<flagVars, renderers, encoders, codecVars, encoded_buffer, queued, shown,
                         tasks, crashed, remoteVars>>

handle_decode(i) == DecoderEnds(i) \/ Dequeue(i) \/ Decode(i)

--------------------------------------------------------------------------------
(* handle_render *)

\* Whether create_window succeeds nobody looks at.
CreateWindow(i) ==
    /\ renderers[i] = "starting"
    /\ renderers' = [renderers EXCEPT ![i] = "idle"]
    /\ window' = TRUE
    /\ UNCHANGED <<flagVars, decoders, encoders, held, decoder, encoder, bufferVars, tasks,
                   crashed, remoteVars>>

Render(i) ==
    /\ renderers[i] = "idle"
    /\ renderer_running
    /\ decode_buffer # <<>>
    /\ shown' = Append(shown, [by |-> i, frame |-> Head(decode_buffer)])
    /\ decode_buffer' = Tail(decode_buffer)
    /\ UNCHANGED <<flagVars, threadVars, codecVars, encoded_buffer, queued, tasks, crashed,
                   remoteVars>>

RendererEnds(i) ==
    /\ renderers[i] = "idle"
    /\ ~renderer_running
    /\ renderers' = [renderers EXCEPT ![i] = "ended"]
    /\ UNCHANGED <<flagVars, decoders, encoders, held, codecVars, bufferVars, tasks, crashed,
                   remoteVars>>

handle_render(i) == CreateWindow(i) \/ Render(i) \/ RendererEnds(i)

--------------------------------------------------------------------------------
(* handle_encode: "first" while sent_param is false, then "again" *)

EncoderEnds(i) ==
    /\ encoders[i] \in {"first", "again"}
    /\ ~encoder_running
    /\ encoders' = [encoders EXCEPT ![i] = "ended"]
    /\ UNCHANGED <<flagVars, decoders, renderers, held, codecVars, bufferVars, tasks, crashed,
                   remoteVars>>

EncodeFrame(i) ==
    /\ encoders[i] \in {"first", "again"}
    /\ encoder_running
    /\ Len(queued) < MaxQueued
    /\ \/ Crashes(encoder)
       \/ /\ encoders' = [encoders EXCEPT ![i] = IF @ = "first" THEN "announce" ELSE "deliver"]
          /\ UNCHANGED <<flagVars, decoders, renderers, held, codecVars, bufferVars, tasks,
                         crashed, remoteVars>>

EnqueuePacket(i, at, t, next) ==
    /\ encoders[i] = at
    /\ queued' = Append(queued, [type |-> t, by |-> i])
    /\ encoders' = [encoders EXCEPT ![i] = next]
    /\ UNCHANGED <<flagVars, decoders, renderers, held, codecVars, encoded_buffer, decode_buffer,
                   shown, tasks, crashed, remoteVars>>

handle_encode(i) ==
    \/ EncoderEnds(i)
    \/ EncodeFrame(i)
    \/ EnqueuePacket(i, "announce", "VIDEO_PARAMS", "deliver")
    \/ EnqueuePacket(i, "deliver", "DATA", "again")

--------------------------------------------------------------------------------
(* What the distributor sends to this user, and poll_network *)

\* onSessionRequest answers a request of this user; onVideoParams or the join
\* brings the parameters; onSessionClose or removeSelf of the host ends it.
SessionStarting ==
    /\ phase = "idle"
    /\ sessions < MaxSessions
    /\ sessions' = sessions + 1
    /\ phase' = "starting"
    /\ Starts("STARTING")
    /\ UNCHANGED <<params, frames, requests, encoded_buffer>>

VideoParams ==
    /\ phase = "starting"
    /\ phase' = "streaming"
    /\ params' = params + 1
    /\ Starts("PARAMS")
    /\ UNCHANGED <<sessions, frames, requests, encoded_buffer>>

SessionClose ==
    /\ phase # "idle"
    /\ phase' = "idle"
    /\ Starts("CLOSE")
    /\ UNCHANGED <<sessions, params, frames, requests, encoded_buffer>>

\* handle_data runs on the main thread.
handle_data ==
    /\ phase = "streaming"
    /\ frames < MaxFrames
    /\ frames' = frames + 1
    /\ encoded_buffer' = Append(encoded_buffer, [of |-> params, n |-> frames'])
    /\ UNCHANGED <<phase, sessions, params, requests, tasks, disorder>>

\* Another user starts a session with this one as its host.
SessionRequest ==
    /\ phase = "idle"
    /\ requests < MaxRequests
    /\ requests' = requests + 1
    /\ Starts("REQUEST")
    /\ UNCHANGED <<phase, sessions, params, frames, encoded_buffer>>

\* The user types endsession: the distributor forgets the client, and nothing
\* tells the daemon's threads.
EndSession ==
    /\ phase # "idle"
    /\ phase' = "idle"
    /\ disorder' = TRUE
    /\ UNCHANGED <<sessions, params, frames, requests, encoded_buffer, tasks>>

Receive ==
    /\ running
    /\ SessionStarting \/ VideoParams \/ SessionClose \/ handle_data \/ SessionRequest \/ EndSession
    /\ UNCHANGED <<flagVars, threadVars, codecVars, decode_buffer, queued, shown, crashed>>

Next ==
    /\ ~crashed
    /\ \/ RunTask
       \/ \E i \in Viewer : handle_decode(i) \/ handle_render(i)
       \/ \E i \in Streamer : handle_encode(i)
       \/ Receive

Spec == Init /\ [][Next]_vars

\* Every thread is scheduled; nobody has to send anything.
FairSpec ==
    /\ Spec
    /\ WF_vars(~crashed /\ RunTask)
    /\ \A i \in Viewer : WF_vars(~crashed /\ handle_decode(i)) /\ WF_vars(~crashed /\ handle_render(i))
    /\ \A i \in Streamer : WF_vars(~crashed /\ handle_encode(i))

--------------------------------------------------------------------------------
(* Properties *)

\* Type correctness; a decoder thread holds a frame exactly while it decodes.
TypeOK ==
    /\ state \in SessionState
    /\ {running, decoder_running, renderer_running, encoder_running, window, crashed, disorder}
          \subseteq BOOLEAN
    /\ pointer \in [decoding : 0 .. MaxSessions, rendering : 0 .. MaxSessions,
                    encoding : 0 .. MaxRequests]
    /\ decoders \in [Viewer -> Thread]
    /\ renderers \in [Viewer -> Thread]
    /\ encoders \in [Streamer -> Thread]
    /\ {decoder, encoder} \subseteq Codec
    /\ encoded_buffer \in Seq(Frame)
    /\ decode_buffer \in Seq(Frame)
    /\ queued \in Seq([type : {"VIDEO_PARAMS", "DATA"}, by : Streamer])
    /\ tasks \in [Step -> Nat]
    /\ \A i \in Viewer : held[i] \in Seq(Frame) /\ (held[i] # <<>>) = (decoders[i] = "busy")

\* When the handlers run one after the other, close_session_inner joins the
\* threads before it takes away what they use: a decoder thread never works on a
\* decoder that was shut down, and in the lobby no decoder or renderer thread is
\* left, and no window.
QuietLobby ==
    ~disorder =>
        /\ \A i \in Viewer : decoders[i] = "busy" => decoder # "off"
        /\ state = "LOBBY" =>
              /\ ~window
              /\ \A i \in Viewer : decoders[i] \notin Unfinished /\ renderers[i] \notin Unfinished

\* Then the frames shown are frames of the session they are shown in, and they
\* are shown in the order in which they were received: nothing is left over in
\* decode_buffer_ when the next session starts.
FreshFrames ==
    ~disorder =>
        \A k \in DOMAIN shown :
            /\ shown[k].by = shown[k].frame.of
            /\ k > 1 => shown[k - 1].frame.n < shown[k].frame.n

\* A SESSION_CLOSE that finds a session with its threads running brings the
\* daemon back to the lobby: the joins do not wait for ever.
CloseCompletes ==
    (/\ tasks["JOIN_DECODER"] > 0
     /\ Status(decoders, pointer.decoding) \in Unfinished
     /\ ~disorder) ~> (state = "LOBBY" \/ disorder \/ crashed)

--------------------------------------------------------------------------------
(* What the documentation says and the code does not do *)

\* "session {target name} ; starts a session with target user", one of the
\* "(working) commands" of the README: when the session has its parameters and a
\* frame is waiting, the frame is taken to be shown, or the session ends.
SessionRuns ==
    (phase = "streaming" /\ encoded_buffer # <<>> /\ ~disorder)
        ~> (encoded_buffer = <<>> \/ phase = "idle" \/ disorder \/ crashed \/ ~running)
================================================================================
