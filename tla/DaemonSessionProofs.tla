-------------------------- MODULE DaemonSessionProofs --------------------------
(***************************************************************************)
(* Proofs about DaemonSession, for any bounds.                             *)
(***************************************************************************)
EXTENDS DaemonSession, Integers, SequenceTheorems, TLAPS

--------------------------------------------------------------------------------
(* Sequences one after the other *)

\* What is at each place of two sequences one after the other.
LEMMA ConcatAt ==
    ASSUME NEW T, NEW r \in Seq(T), NEW s \in Seq(T)
    PROVE  /\ r \o s \in Seq(T)
           /\ Len(r) \in Nat /\ Len(s) \in Nat
           /\ Len(r \o s) = Len(r) + Len(s)
           /\ \A i \in 1 .. Len(r) : (r \o s)[i] = r[i]
           /\ \A i \in 1 .. Len(s) : (r \o s)[Len(r) + i] = s[i]
<1>1. Len(r) \in Nat /\ Len(s) \in Nat
  BY LenProperties
<1>2. /\ r \o s \in Seq(T)
      /\ Len(r \o s) = Len(r) + Len(s)
      /\ \A i \in 1 .. Len(r) + Len(s) :
            (r \o s)[i] = IF i <= Len(r) THEN r[i] ELSE s[i - Len(r)]
  BY ConcatProperties
<1>3. ASSUME NEW i \in 1 .. Len(r) PROVE (r \o s)[i] = r[i]
  <2>1. i \in 1 .. Len(r) + Len(s) /\ i <= Len(r)
    BY <1>1
  <2> QED BY <1>2, <2>1
<1>4. ASSUME NEW i \in 1 .. Len(s) PROVE (r \o s)[Len(r) + i] = s[i]
  <2>1. /\ Len(r) + i \in 1 .. Len(r) + Len(s) /\ ~(Len(r) + i <= Len(r))
        /\ Len(r) + i - Len(r) = i
    BY <1>1
  <2> QED BY <1>2, <2>1
<1> QED BY <1>1, <1>2, <1>3, <1>4

--------------------------------------------------------------------------------
(* The inductive invariant *)

\* What TypeOK leaves out.
Typed ==
    /\ TypeOK
    /\ held \in [Viewer -> Seq(Frame)]
    /\ shown \in Seq([by : Viewer, frame : Frame])
    /\ phase \in {"idle", "starting", "streaming"}
    /\ sessions \in 0 .. MaxSessions
    /\ params \in Nat
    /\ frames \in 0 .. MaxFrames
    /\ requests \in 0 .. MaxRequests

\* Threads are started one after the other, a decoder and a renderer for each
\* VIDEO_PARAMS that was handled and an encoder for each SESSION_REQUEST; the
\* pointers lead to the last ones.
Counted ==
    /\ params <= sessions
    /\ phase = "starting" => params < sessions
    /\ pointer.rendering = pointer.decoding
    /\ pointer.decoding + tasks["PARAMS"] + tasks["START_THREADS"] = params
    /\ pointer.encoding + tasks["REQUEST"] + tasks["START_ENCODER"] = requests
    /\ \A i \in Viewer :
          /\ decoders[i] # "none" <=> i <= pointer.decoding
          /\ renderers[i] # "none" <=> i <= pointer.decoding
    /\ \A i \in Streamer : encoders[i] # "none" <=> i <= pointer.encoding

\* No handler is under way, or only the one that is at k.
None == \A l \in Step : tasks[l] = 0
Only(k) == \A l \in Step : tasks[l] = IF l = k THEN 1 ELSE 0
Alone == ~disorder => None \/ \E k \in Step : Only(k)

\* A handler on the way through close_session_inner.
Closing == {"CLOSE", "JOIN_DECODER", "JOIN_RENDERER", "SHUTDOWN"}

\* Which handler can be under way in which phase of a session, and that the daemon
\* knows of the session when it is closed.
AtPhase ==
    ~disorder =>
        /\ phase # "idle" /\ tasks["STARTING"] = 0 => state = "CLIENT"
        /\ \A k \in Closing : tasks[k] > 0 => state = "CLIENT" /\ phase = "idle"
        /\ tasks["JOIN_ENCODER"] = 0
        /\ tasks["STARTING"] > 0 => phase = "starting"
        /\ \A k \in {"PARAMS", "START_THREADS"} : tasks[k] > 0 => phase = "streaming"
        /\ \A k \in {"REQUEST", "START_ENCODER"} : tasks[k] > 0 => phase = "idle"

\* The last threads are done with, or they are those of a session that goes on.
Past ==
    \/ pointer.decoding = 0
    \/ decoders[pointer.decoding] = "joined" /\ renderers[pointer.decoding] = "deleted"
Live ==
    /\ pointer.decoding > 0
    /\ decoders[pointer.decoding] \in {"idle", "busy", "ended"}
    /\ renderers[pointer.decoding] \in {"starting", "idle"}
    /\ renderer_running

\* How far the last threads are at each step of a session; those before them are
\* done with.
Staged ==
    ~disorder =>
        /\ \A i \in Viewer :
              i < pointer.decoding => decoders[i] = "joined" /\ renderers[i] = "deleted"
        /\ phase = "streaming" /\ tasks["PARAMS"] = 0 /\ tasks["START_THREADS"] = 0 => Live
        /\ phase = "starting" \/ tasks["PARAMS"] > 0 \/ tasks["START_THREADS"] > 0 => Past
        /\ tasks["CLOSE"] > 0 \/ tasks["JOIN_DECODER"] > 0 => Live \/ Past
        /\ tasks["JOIN_RENDERER"] > 0 =>
              /\ pointer.decoding > 0
              /\ decoders[pointer.decoding] = "joined"
              /\ renderers[pointer.decoding] \in {"starting", "idle", "ended"}
        /\ tasks["SHUTDOWN"] > 0 =>
              /\ pointer.decoding > 0
              /\ decoders[pointer.decoding] = "joined"
              /\ renderers[pointer.decoding] = "joined"
        /\ phase = "idle" /\ (\A k \in Closing : tasks[k] = 0) => Past

\* The decoder is set up while a thread may use it, and the window is that of a
\* renderer which was not deleted.
Equipped ==
    ~disorder =>
        /\ tasks["START_THREADS"] > 0 => decoder # "off"
        /\ \A i \in Viewer : decoders[i] \in {"idle", "busy"} => decoder # "off"
        /\ window =>
              /\ pointer.decoding > 0
              /\ renderers[pointer.decoding] \in {"idle", "ended", "joined"}

\* What is in a queue or a history.
Entries(s) == {s[a] : a \in DOMAIN s}

\* decoder_running_ is never true in a second session.
Once ==
    decoder_running =>
        sessions <= 1 /\ (sessions = 1 /\ phase = "idle" => tasks["CLOSE"] > 0)

\* What a thread holds is of its session, and what was decoded is of the session
\* whose renderer is there.
Own ==
    /\ \A x \in Entries(encoded_buffer) : x.of \in 1 .. params
    /\ \A i \in Viewer : \A x \in Entries(held[i]) : x.of = i
    /\ \A x \in Entries(decode_buffer) : x.of = pointer.decoding
    /\ decode_buffer # <<>> => pointer.decoding > 0 /\ renderers[pointer.decoding] # "deleted"
    /\ \A r \in Entries(shown) : r.by = r.frame.of
Fresh == ~disorder => Once /\ Own

\* Frames in the order in which they were received.
Rising(s) == \A a, b \in DOMAIN s : a < b => s[a].n < s[b].n
Before(s, t) == \A x \in Entries(s), y \in Entries(t) : x.n < y.n
UpTo(s, m) == \A x \in Entries(s) : x.n <= m

\* The frames of a history of shown frames.
FramesOf(h) == [a \in DOMAIN h |-> h[a].frame]

\* Frames are received, decoded and shown in one order.
Ordered ==
    ~disorder =>
        /\ Rising(FramesOf(shown)) /\ Rising(decode_buffer) /\ Rising(encoded_buffer)
        /\ Before(FramesOf(shown), decode_buffer)
        /\ Before(FramesOf(shown), encoded_buffer)
        /\ Before(decode_buffer, encoded_buffer)
        /\ \A i \in Viewer :
              /\ Rising(held[i])
              /\ Before(FramesOf(shown), held[i])
              /\ Before(decode_buffer, held[i])
              /\ Before(held[i], encoded_buffer)
              /\ UpTo(held[i], frames)
        /\ UpTo(FramesOf(shown), frames) /\ UpTo(decode_buffer, frames)
        /\ UpTo(encoded_buffer, frames)

\* The inductive invariant.
Inv == Typed /\ Counted /\ Alone /\ AtPhase /\ Staged /\ Equipped /\ Fresh /\ Ordered

--------------------------------------------------------------------------------
(* The steps, one by one *)

\* The process dies.
Dies ==
    /\ crashed' = TRUE
    /\ UNCHANGED <<flagVars, threadVars, codecVars, bufferVars, tasks, remoteVars>>

\* A task ends without having done anything.
GivesUp(k) ==
    /\ Ends(k)
    /\ UNCHANGED <<flagVars, threadVars, codecVars, bufferVars, crashed, remoteVars>>

\* The threads of a session start.
ThreadsStart ==
    /\ Ends("START_THREADS")
    /\ renderer_running' = TRUE
    /\ decoders' = [decoders EXCEPT ![Unused(decoders)] = "idle"]
    /\ renderers' = [renderers EXCEPT ![Unused(decoders)] = "starting"]
    /\ pointer' = [pointer EXCEPT !.decoding = Unused(decoders), !.rendering = Unused(decoders)]
    /\ UNCHANGED <<state, running, decoder_running, encoder_running, encoders, held, codecVars,
                   bufferVars, crashed, remoteVars>>

\* The joins that succeed.
DecoderJoined ==
    /\ Status(decoders, pointer.decoding) = "ended"
    /\ Continues("JOIN_DECODER", "JOIN_RENDERER")
    /\ decoders' = [decoders EXCEPT ![pointer.decoding] = "joined"]
    /\ renderer_running' = FALSE
    /\ UNCHANGED <<state, running, decoder_running, encoder_running, pointer, renderers,
                   encoders, held, codecVars, bufferVars, crashed, remoteVars>>
RendererJoined ==
    /\ Status(renderers, pointer.rendering) = "ended"
    /\ Continues("JOIN_RENDERER", "SHUTDOWN")
    /\ renderers' = [renderers EXCEPT ![pointer.rendering] = "joined"]
    /\ UNCHANGED <<flagVars, decoders, encoders, held, codecVars, bufferVars, crashed, remoteVars>>
EncoderJoined ==
    /\ Status(encoders, pointer.encoding) = "ended"
    /\ Ends("JOIN_ENCODER")
    /\ encoders' = [encoders EXCEPT ![pointer.encoding] = "deleted"]
    /\ encoder' = "off"
    /\ state' = "LOBBY"
    /\ UNCHANGED <<running, decoder_running, renderer_running, encoder_running, pointer,
                   decoders, renderers, held, decoder, window, bufferVars, crashed, remoteVars>>

\* A packet is decoded, or dropped.
Decoded(i) ==
    /\ decoders[i] = "busy"
    /\ decode_buffer' \in {decode_buffer \o held[i], decode_buffer}
    /\ decoders' = [decoders EXCEPT ![i] = "idle"]
    /\ held' = [held EXCEPT ![i] = <<>>]
    /\ UNCHANGED <<flagVars, renderers, encoders, codecVars, encoded_buffer, queued, shown,
                   tasks, crashed, remoteVars>>

\* An encoder thread goes on; nothing of a viewer is touched.
EncoderMoves(i) ==
    /\ encoders[i] # "none"
    /\ \E w \in {"ended", "announce", "deliver", "again"} : encoders' = [encoders EXCEPT ![i] = w]
    /\ \/ queued' = queued
       \/ \E t \in {"VIDEO_PARAMS", "DATA"} : queued' = Append(queued, [type |-> t, by |-> i])
    /\ UNCHANGED <<flagVars, decoders, renderers, held, codecVars, encoded_buffer, decode_buffer,
                   shown, tasks, crashed, remoteVars>>

\* What the main thread leaves alone when it receives a packet.
Received(A) ==
    /\ A
    /\ UNCHANGED <<flagVars, threadVars, codecVars, decode_buffer, queued, shown, crashed>>

\* Every step is one of these.
LEMMA NextSteps ==
    ASSUME [Next]_vars
    PROVE  \/ UNCHANGED vars
           \/ Dies
           \/ HandleStarting \/ InitEncoder \/ StartEncoder \/ InitDecoder \/ ThreadsStart
           \/ CloseNothing \/ CloseClient \/ CloseHost
           \/ GivesUp("JOIN_DECODER")
                /\ Status(decoders, pointer.decoding) \in {"wild", "joined", "deleted"}
           \/ GivesUp("JOIN_RENDERER")
                /\ Status(renderers, pointer.rendering) \in {"wild", "joined", "deleted"}
           \/ GivesUp("JOIN_ENCODER")
           \/ DecoderJoined \/ RendererJoined \/ EncoderJoined
           \/ Shutdown
           \/ \E i \in Viewer : DecoderEnds(i) \/ Dequeue(i) \/ Decoded(i)
           \/ \E i \in Viewer : CreateWindow(i) \/ Render(i) \/ RendererEnds(i)
           \/ \E i \in Streamer : EncoderMoves(i)
           \/ Received(SessionStarting) \/ Received(VideoParams) \/ Received(SessionClose)
           \/ Received(handle_data) \/ Received(SessionRequest) \/ Received(EndSession)
<1>1. CASE UNCHANGED vars
  BY <1>1
<1>2. CASE Next
  <2>1. CASE RunTask
    <3>1. CASE StartThreads
      BY <3>1 DEF StartThreads, Crashes, ThreadsStart, Dies
    <3>2. CASE close_session_inner
      <4>1. CASE JoinDecoder
        BY <4>1 DEF JoinDecoder, JoinFails, GivesUp, DecoderJoined, Dies
      <4>2. CASE JoinRenderer
        BY <4>2 DEF JoinRenderer, JoinFails, GivesUp, RendererJoined, Dies
      <4>3. CASE JoinEncoder
        BY <4>3 DEF JoinEncoder, JoinFails, GivesUp, EncoderJoined, Dies
      <4> QED BY <3>2, <4>1, <4>2, <4>3 DEF close_session_inner
    <3> QED BY <2>1, <3>1, <3>2 DEF RunTask
  <2>2. ASSUME NEW i \in Viewer, handle_decode(i)
        PROVE  Dies \/ DecoderEnds(i) \/ Dequeue(i) \/ Decoded(i)
    BY <2>2 DEF handle_decode, Decode, Crashes, Dies, Decoded
  <2>3. ASSUME NEW i \in Viewer, handle_render(i)
        PROVE  CreateWindow(i) \/ Render(i) \/ RendererEnds(i)
    BY <2>3 DEF handle_render
  <2>4. ASSUME NEW i \in Streamer, handle_encode(i)
        PROVE  Dies \/ EncoderMoves(i)
    <3>1. CASE EncoderEnds(i)
      BY <3>1 DEF EncoderEnds, EncoderMoves, bufferVars
    <3>2. CASE EncodeFrame(i)
      BY <3>2 DEF EncodeFrame, Crashes, Dies, EncoderMoves, bufferVars
    <3>3. CASE EnqueuePacket(i, "announce", "VIDEO_PARAMS", "deliver")
      BY <3>3 DEF EnqueuePacket, EncoderMoves
    <3>4. CASE EnqueuePacket(i, "deliver", "DATA", "again")
      BY <3>4 DEF EnqueuePacket, EncoderMoves
    <3> QED BY <2>4, <3>1, <3>2, <3>3, <3>4 DEF handle_encode
  <2>5. CASE Receive
    BY <2>5 DEF Receive, Received
  <2> QED BY <1>2, <2>1, <2>2, <2>3, <2>4, <2>5, Zenon DEF Next
<1> QED BY <1>1, <1>2

--------------------------------------------------------------------------------
(* Tasks *)

\* A task that ends leaves none behind if it was alone.
LEMMA EndsCount ==
    ASSUME tasks \in [Step -> Nat], NEW k \in Step, Ends(k)
    PROVE  /\ tasks' \in [Step -> Nat]
           /\ tasks[k] > 0 /\ tasks[k] = tasks'[k] + 1
           /\ \A l \in Step : l # k => tasks'[l] = tasks[l]
           /\ None \/ (\E j \in Step : Only(j)) => Only(k) /\ None'
<1>1. tasks[k] > 0 /\ tasks' = [tasks EXCEPT ![k] = tasks[k] - 1] /\ tasks[k] \in Nat
  BY DEF Ends
<1>2. tasks' \in [Step -> Nat] /\ tasks[k] = tasks'[k] + 1
  BY <1>1
<1>3. \A l \in Step : l # k => tasks'[l] = tasks[l]
  BY <1>1
<1>4. ASSUME None \/ \E j \in Step : Only(j) PROVE Only(k) /\ None'
  <2>1. PICK j \in Step : Only(j)
    BY <1>1, <1>4 DEF None
  <2>2. j = k
    BY <1>1, <2>1 DEF Only
  <2>3. None'
    BY <1>2, <1>3, <2>1, <2>2 DEF Only, None
  <2> QED BY <2>1, <2>2, <2>3
<1> QED BY <1>1, <1>2, <1>3, <1>4

\* A task that goes on is still alone.
LEMMA ContinuesCount ==
    ASSUME tasks \in [Step -> Nat], NEW k \in Step, NEW m \in Step, k # m, Continues(k, m)
    PROVE  /\ tasks' \in [Step -> Nat]
           /\ tasks[k] > 0 /\ tasks[k] = tasks'[k] + 1 /\ tasks'[m] = tasks[m] + 1
           /\ \A l \in Step : l # k /\ l # m => tasks'[l] = tasks[l]
           /\ None \/ (\E j \in Step : Only(j)) => Only(k) /\ Only(m)'
<1>1. /\ tasks[k] > 0 /\ tasks[k] \in Nat /\ tasks[m] \in Nat
      /\ tasks' = [tasks EXCEPT ![k] = tasks[k] - 1, ![m] = tasks[m] + 1]
  BY DEF Continues
<1>2. tasks' \in [Step -> Nat] /\ tasks[k] = tasks'[k] + 1 /\ tasks'[m] = tasks[m] + 1
  BY <1>1
<1>3. \A l \in Step : l # k /\ l # m => tasks'[l] = tasks[l]
  BY <1>1
<1>4. ASSUME None \/ \E j \in Step : Only(j) PROVE Only(k) /\ Only(m)'
  <2>1. PICK j \in Step : Only(j)
    BY <1>1, <1>4 DEF None
  <2>2. j = k
    BY <1>1, <2>1 DEF Only
  <2>3. Only(m)'
    BY <1>2, <1>3, <2>1, <2>2 DEF Only
  <2> QED BY <2>1, <2>2, <2>3
<1> QED BY <1>1, <1>2, <1>3, <1>4

\* A task that starts is alone, or there is disorder.
LEMMA StartsCount ==
    ASSUME tasks \in [Step -> Nat], NEW k \in Step, Starts(k)
    PROVE  /\ tasks' \in [Step -> Nat]
           /\ tasks'[k] = tasks[k] + 1
           /\ \A l \in Step : l # k => tasks'[l] = tasks[l]
           /\ ~disorder' => ~disorder /\ None /\ Only(k)'
<1>1. /\ tasks[k] \in Nat /\ tasks' = [tasks EXCEPT ![k] = tasks[k] + 1]
      /\ disorder' = (disorder \/ \E l \in Step : tasks[l] > 0)
  BY DEF Starts
<1>2. /\ tasks' \in [Step -> Nat] /\ tasks'[k] = tasks[k] + 1
      /\ \A l \in Step : l # k => tasks'[l] = tasks[l]
  BY <1>1
<1>3. ASSUME ~disorder' PROVE ~disorder /\ None /\ Only(k)'
  <2>1. ~disorder /\ \A l \in Step : ~(tasks[l] > 0)
    BY <1>1, <1>3, Zenon
  <2>2. None
    BY <2>1 DEF None
  <2>3. Only(k)'
    BY <1>2, <2>2 DEF None, Only
  <2> QED BY <2>1, <2>2, <2>3
<1> QED BY <1>2, <1>3

\* The handlers one after the other.
LEMMA AloneStep == ASSUME Typed, Alone, [Next]_vars PROVE Alone'
<1>0. tasks \in [Step -> Nat]
  BY DEF Typed, TypeOK
<1>1. ASSUME UNCHANGED <<tasks, disorder>> PROVE Alone'
  BY <1>1 DEF Alone, None, Only
<1>2. ASSUME NEW k \in Step, Ends(k), disorder' = disorder PROVE Alone'
  BY <1>0, <1>2, EndsCount DEF Alone
<1>3. ASSUME NEW k \in Step, NEW m \in Step, k # m, Continues(k, m), disorder' = disorder PROVE Alone'
  <2>1. None \/ (\E j \in Step : Only(j)) => Only(k) /\ Only(m)'
    BY <1>0, <1>3, ContinuesCount, Zenon
  <2> QED BY <1>3, <2>1 DEF Alone
<1>4. ASSUME NEW k \in Step, Starts(k) PROVE Alone'
  <2>1. ~disorder' => Only(k)'
    BY <1>0, <1>4, StartsCount, Zenon
  <2> QED BY <2>1 DEF Alone
<1>5. CASE disorder'
  BY <1>5 DEF Alone
<1>6. \/ UNCHANGED <<tasks, disorder>>
      \/ disorder'
      \/ \E k \in Step : Starts(k)
      \/ \E k \in Step : Ends(k) /\ disorder' = disorder
      \/ \E k, m \in Step : k # m /\ Continues(k, m) /\ disorder' = disorder
  <2>1. /\ HandleStarting => Ends("STARTING") /\ disorder' = disorder
        /\ StartEncoder => Ends("START_ENCODER") /\ disorder' = disorder
        /\ ThreadsStart => Ends("START_THREADS") /\ disorder' = disorder
        /\ CloseNothing => Ends("CLOSE") /\ disorder' = disorder
        /\ Shutdown => Ends("SHUTDOWN") /\ disorder' = disorder
        /\ EncoderJoined => Ends("JOIN_ENCODER") /\ disorder' = disorder
        /\ \A k \in Step : GivesUp(k) => Ends(k) /\ disorder' = disorder
    BY DEF HandleStarting, StartEncoder, ThreadsStart, CloseNothing, Shutdown, EncoderJoined,
          GivesUp, remoteVars
  <2>2. /\ InitEncoder => Continues("REQUEST", "START_ENCODER") /\ disorder' = disorder
        /\ InitDecoder => Continues("PARAMS", "START_THREADS") /\ disorder' = disorder
        /\ CloseClient => Continues("CLOSE", "JOIN_DECODER") /\ disorder' = disorder
        /\ CloseHost => Continues("CLOSE", "JOIN_ENCODER") /\ disorder' = disorder
        /\ DecoderJoined => Continues("JOIN_DECODER", "JOIN_RENDERER") /\ disorder' = disorder
        /\ RendererJoined => Continues("JOIN_RENDERER", "SHUTDOWN") /\ disorder' = disorder
    BY DEF InitEncoder, InitDecoder, CloseClient, CloseHost, DecoderJoined, RendererJoined, remoteVars
  <2>3. /\ Received(SessionStarting) => Starts("STARTING")
        /\ Received(VideoParams) => Starts("PARAMS")
        /\ Received(SessionClose) => Starts("CLOSE")
        /\ Received(SessionRequest) => Starts("REQUEST")
        /\ Received(EndSession) => disorder'
        /\ Received(handle_data) => UNCHANGED <<tasks, disorder>>
    BY DEF Received, SessionStarting, VideoParams, SessionClose, SessionRequest, EndSession, handle_data
  <2>4. Dies \/ UNCHANGED vars => UNCHANGED <<tasks, disorder>>
    BY DEF Dies, vars, remoteVars
  <2>5. {"STARTING", "REQUEST", "START_ENCODER", "PARAMS", "START_THREADS", "CLOSE",
         "JOIN_DECODER", "JOIN_RENDERER", "SHUTDOWN", "JOIN_ENCODER"} \subseteq Step
    BY DEF Step
  <2>6. \A k \in Step : Starts(k) => \E l \in Step : Starts(l)
    OBVIOUS
  <2>7. \A k \in Step : Ends(k) /\ disorder' = disorder => \E l \in Step : Ends(l) /\ disorder' = disorder
    OBVIOUS
  <2>8. \A k, l \in Step : k # l /\ Continues(k, l) /\ disorder' = disorder =>
            \E m, n \in Step : m # n /\ Continues(m, n) /\ disorder' = disorder
    OBVIOUS
  <2>9. CASE \/ HandleStarting \/ StartEncoder \/ ThreadsStart \/ CloseNothing \/ Shutdown
             \/ EncoderJoined \/ GivesUp("JOIN_DECODER") \/ GivesUp("JOIN_RENDERER")
             \/ GivesUp("JOIN_ENCODER")
    BY <2>1, <2>5, <2>7, <2>9
  <2>10. CASE \/ InitEncoder \/ InitDecoder \/ CloseClient \/ CloseHost
              \/ DecoderJoined \/ RendererJoined
    BY <2>2, <2>5, <2>8, <2>10
  <2>11. CASE \/ Received(SessionStarting) \/ Received(VideoParams) \/ Received(SessionClose)
              \/ Received(SessionRequest) \/ Received(EndSession) \/ Received(handle_data)
    BY <2>3, <2>5, <2>6, <2>11
  <2>12. CASE UNCHANGED vars \/ Dies
    BY <2>4, <2>12
  <2>13. ASSUME NEW i \in Viewer, \/ DecoderEnds(i) \/ Dequeue(i) \/ Decoded(i)
                                 \/ CreateWindow(i) \/ Render(i) \/ RendererEnds(i)
         PROVE  UNCHANGED <<tasks, disorder>>
    BY <2>13 DEF DecoderEnds, Dequeue, Decoded, CreateWindow, Render, RendererEnds, remoteVars
  <2>14. ASSUME NEW i \in Streamer, EncoderMoves(i) PROVE UNCHANGED <<tasks, disorder>>
    BY <2>14 DEF EncoderMoves, remoteVars
  <2> QED BY <2>9, <2>10, <2>11, <2>12, <2>13, <2>14, NextSteps
<1> QED BY <1>1, <1>2, <1>3, <1>4, <1>5, <1>6

--------------------------------------------------------------------------------
(* Types and the numbers of threads *)

\* The first thread that was not started is the one behind the pointer.
LEMMA UnusedIsNext ==
    ASSUME NEW m \in Nat, NEW p \in Nat, p < m, NEW f, DOMAIN f = 1 .. m,
           \A i \in 1 .. m : f[i] # "none" <=> i <= p
    PROVE  Unused(f) = p + 1 /\ p + 1 \in 1 .. m
<1> DEFINE First(i) == f[i] = "none" /\ \A j \in DOMAIN f : j < i => f[j] # "none"
<1>1. p + 1 \in 1 .. m /\ ~(p + 1 <= p)
  OBVIOUS
<1>2. First(p + 1)
  <2>1. f[p + 1] = "none"
    BY <1>1
  <2>2. \A j \in 1 .. m : j < p + 1 => j <= p
    OBVIOUS
  <2> QED BY <2>1, <2>2
<1>3. ASSUME NEW i \in 1 .. m, First(i) PROVE i = p + 1
  <2>1. ~(i <= p)
    BY <1>3
  <2>2. ~(p + 1 < i)
    <3>1. p + 1 < i => f[p + 1] # "none"
      BY <1>1, <1>3
    <3> QED BY <1>2, <3>1
  <2> QED BY <2>1, <2>2
<1>4. Unused(f) = CHOOSE i \in 1 .. m : First(i)
  BY DEF Unused
<1> HIDE DEF First
<1>5. (CHOOSE i \in 1 .. m : First(i)) = p + 1
  BY <1>1, <1>2, <1>3
<1> QED BY <1>1, <1>4, <1>5

\* The thread that StartThreads starts.
LEMMA NextViewer ==
    ASSUME Typed, Counted, tasks["START_THREADS"] > 0
    PROVE  Unused(decoders) = pointer.decoding + 1 /\ pointer.decoding + 1 \in Viewer
<1>1. /\ MaxSessions \in Nat /\ pointer.decoding \in Nat /\ sessions \in 0 .. MaxSessions /\ params \in Nat
      /\ DOMAIN decoders = 1 .. MaxSessions
      /\ tasks["PARAMS"] \in Nat /\ tasks["START_THREADS"] \in Nat
  BY BoundAssumption DEF Typed, TypeOK, Viewer, Step
<1>2. params <= sessions /\ pointer.decoding + tasks["PARAMS"] + tasks["START_THREADS"] = params
  BY DEF Counted
<1>3. pointer.decoding < MaxSessions
  BY <1>1, <1>2
<1>4. \A i \in 1 .. MaxSessions : decoders[i] # "none" <=> i <= pointer.decoding
  BY DEF Counted, Viewer
<1> QED BY <1>1, <1>3, <1>4, UnusedIsNext DEF Viewer

\* The thread that StartEncoder starts.
LEMMA NextStreamer ==
    ASSUME Typed, Counted, tasks["START_ENCODER"] > 0
    PROVE  Unused(encoders) = pointer.encoding + 1 /\ pointer.encoding + 1 \in Streamer
<1>1. /\ MaxRequests \in Nat /\ pointer.encoding \in Nat /\ requests \in 0 .. MaxRequests
      /\ DOMAIN encoders = 1 .. MaxRequests
      /\ tasks["REQUEST"] \in Nat /\ tasks["START_ENCODER"] \in Nat
  BY BoundAssumption DEF Typed, TypeOK, Streamer, Step
<1>2. pointer.encoding + tasks["REQUEST"] + tasks["START_ENCODER"] = requests
  BY DEF Counted
<1>3. pointer.encoding < MaxRequests
  BY <1>1, <1>2
<1>4. \A i \in 1 .. MaxRequests : encoders[i] # "none" <=> i <= pointer.encoding
  BY DEF Counted, Streamer
<1> QED BY <1>1, <1>3, <1>4, UnusedIsNext DEF Streamer

\* Types, but for tasks and the frames.
Pieces ==
    /\ state \in SessionState
    /\ {running, decoder_running, renderer_running, encoder_running, window, crashed, disorder}
          \subseteq BOOLEAN
    /\ pointer \in [decoding : 0 .. MaxSessions, rendering : 0 .. MaxSessions,
                    encoding : 0 .. MaxRequests]
    /\ decoders \in [Viewer -> Thread]
    /\ renderers \in [Viewer -> Thread]
    /\ encoders \in [Streamer -> Thread]
    /\ {decoder, encoder} \subseteq Codec

Frameful ==
    /\ encoded_buffer \in Seq(Frame)
    /\ decode_buffer \in Seq(Frame)
    /\ queued \in Seq([type : {"VIDEO_PARAMS", "DATA"}, by : Streamer])
    /\ held \in [Viewer -> Seq(Frame)]
    /\ shown \in Seq([by : Viewer, frame : Frame])
    /\ \A i \in Viewer : (held[i] # <<>>) = (decoders[i] = "busy")

Numbers ==
    /\ tasks \in [Step -> Nat]
    /\ phase \in {"idle", "starting", "streaming"}
    /\ sessions \in 0 .. MaxSessions
    /\ params \in Nat
    /\ frames \in 0 .. MaxFrames
    /\ requests \in 0 .. MaxRequests

\* Typed, in these pieces.
LEMMA TypedPieces == Typed <=> Pieces /\ Frameful /\ Numbers
BY DEF Typed, TypeOK, Pieces, Frameful, Numbers

\* The flags, pointers and threads keep their types.
LEMMA PiecesStep == ASSUME Typed, Counted, [Next]_vars PROVE Pieces'
<1> USE DEF flagVars, threadVars, codecVars, remoteVars
<1>0. Pieces
  BY TypedPieces
<1> USE DEF Pieces
<1>1. ASSUME Ends("START_THREADS"), ThreadsStart PROVE Pieces'
  <2>1. Unused(decoders) = pointer.decoding + 1 /\ pointer.decoding + 1 \in Viewer
    BY <1>1, NextViewer DEF Ends
  <2>2. pointer' = [pointer EXCEPT !.decoding = Unused(decoders), !.rendering = Unused(decoders)]
    BY <1>1 DEF ThreadsStart
  <2>3. pointer.decoding + 1 \in 0 .. MaxSessions
    BY <2>1, BoundAssumption DEF Viewer
  <2>4. pointer' \in [decoding : 0 .. MaxSessions, rendering : 0 .. MaxSessions, encoding : 0 .. MaxRequests]
    BY <1>0, <2>1, <2>2, <2>3
  <2> QED BY <1>0, <1>1, <2>4 DEF ThreadsStart, Thread, Unfinished
<1>2. ASSUME Ends("START_ENCODER"), StartEncoder PROVE Pieces'
  <2>1. Unused(encoders) = pointer.encoding + 1 /\ pointer.encoding + 1 \in Streamer
    BY <1>2, NextStreamer DEF Ends
  <2>2. pointer' = [pointer EXCEPT !.encoding = Unused(encoders)]
    BY <1>2 DEF StartEncoder
  <2>3. pointer.encoding + 1 \in 0 .. MaxRequests
    BY <2>1, BoundAssumption DEF Streamer
  <2>4. pointer' \in [decoding : 0 .. MaxSessions, rendering : 0 .. MaxSessions, encoding : 0 .. MaxRequests]
    BY <1>0, <2>1, <2>2, <2>3
  <2> QED BY <1>0, <1>2, <2>4 DEF StartEncoder, Thread, Unfinished
<1>3. CASE HandleStarting
  BY <1>0, <1>3 DEF HandleStarting, SessionState
<1>4. CASE InitEncoder
  BY <1>0, <1>4 DEF InitEncoder, Codec
<1>5. CASE InitDecoder
  BY <1>0, <1>5 DEF InitDecoder, Codec
<1>6. CASE CloseNothing \/ CloseClient \/ CloseHost
  BY <1>0, <1>6 DEF CloseNothing, CloseClient, CloseHost
<1>7. ASSUME NEW k, GivesUp(k) PROVE Pieces'
  BY <1>0, <1>7 DEF GivesUp
<1>8. CASE DecoderJoined \/ RendererJoined
  BY <1>0, <1>8 DEF DecoderJoined, RendererJoined, Thread
<1>9. CASE EncoderJoined
  BY <1>0, <1>9 DEF EncoderJoined, Thread, Codec, SessionState
<1>10. CASE Shutdown
  BY <1>0, <1>10 DEF Shutdown, Thread, Codec, SessionState
<1>11. ASSUME NEW i \in Viewer, DecoderEnds(i) \/ Dequeue(i) \/ Decoded(i) PROVE Pieces'
  BY <1>0, <1>11 DEF DecoderEnds, Dequeue, Decoded, Thread, Unfinished
<1>12. ASSUME NEW i \in Viewer, CreateWindow(i) \/ Render(i) \/ RendererEnds(i) PROVE Pieces'
  BY <1>0, <1>12 DEF CreateWindow, Render, RendererEnds, Thread, Unfinished
<1>13. ASSUME NEW i \in Streamer, EncoderMoves(i) PROVE Pieces'
  BY <1>0, <1>13 DEF EncoderMoves, Thread, Unfinished
<1>14. CASE UNCHANGED vars \/ Dies
  BY <1>0, <1>14 DEF vars, Dies
<1>15. ASSUME UNCHANGED <<flagVars, threadVars, codecVars, crashed>>, disorder' \in BOOLEAN PROVE Pieces'
  BY <1>0, <1>15
<1>16. CASE \/ Received(SessionStarting) \/ Received(VideoParams) \/ Received(SessionClose)
            \/ Received(SessionRequest) \/ Received(EndSession) \/ Received(handle_data)
  <2>1. UNCHANGED <<flagVars, threadVars, codecVars, crashed>>
    BY <1>16 DEF Received
  <2>2. disorder' \in BOOLEAN
    BY <1>0, <1>16 DEF Received, SessionStarting, VideoParams, SessionClose, SessionRequest,
          EndSession, handle_data, Starts
  <2> QED BY <1>15, <2>1, <2>2
<1>17. ThreadsStart => Ends("START_THREADS")
  BY DEF ThreadsStart
<1>18. StartEncoder => Ends("START_ENCODER")
  BY DEF StartEncoder
<1> QED BY <1>1, <1>2, <1>3, <1>4, <1>5, <1>6, <1>7, <1>8, <1>9, <1>10, <1>11, <1>12, <1>13,
          <1>14, <1>16, <1>17, <1>18, NextSteps

\* The frames keep their types.
LEMMA FramefulStep == ASSUME Typed, Counted, [Next]_vars PROVE Frameful'
<1> USE DEF threadVars, bufferVars
<1>0. Frameful /\ decoders \in [Viewer -> Thread]
  BY TypedPieces DEF Pieces
<1> USE DEF Frameful
<1>1. ASSUME UNCHANGED <<encoded_buffer, decode_buffer, shown, held>>,
             queued' = queued \/ queued' \in Seq([type : {"VIDEO_PARAMS", "DATA"}, by : Streamer]),
             \A i \in Viewer : (decoders'[i] = "busy") = (decoders[i] = "busy")
      PROVE  Frameful'
  BY <1>0, <1>1
<1>2. CASE ThreadsStart
  <2>1. Unused(decoders) = pointer.decoding + 1 /\ pointer.decoding + 1 \in Viewer
    BY <1>2, NextViewer DEF ThreadsStart, Ends
  <2>2. ~(pointer.decoding + 1 <= pointer.decoding)
    BY DEF Typed, TypeOK
  <2>3. decoders[Unused(decoders)] = "none"
    BY <2>1, <2>2 DEF Counted
  <2>4. /\ UNCHANGED <<bufferVars, held>>
        /\ decoders' = [decoders EXCEPT ![Unused(decoders)] = "idle"]
    BY <1>2 DEF ThreadsStart
  <2>5. \A i \in Viewer : (decoders'[i] = "busy") = (decoders[i] = "busy")
    BY <1>0, <2>3, <2>4
  <2> QED BY <1>1, <2>4, <2>5
<1>3. CASE DecoderJoined
  <2>1. /\ UNCHANGED <<bufferVars, held>> /\ decoders[pointer.decoding] = "ended"
        /\ decoders' = [decoders EXCEPT ![pointer.decoding] = "joined"]
    BY <1>3 DEF DecoderJoined, Status
  <2>2. \A i \in Viewer : (decoders'[i] = "busy") = (decoders[i] = "busy")
    BY <1>0, <2>1
  <2> QED BY <1>1, <2>1, <2>2
<1>4. CASE Shutdown
  <2>1. UNCHANGED <<encoded_buffer, queued, shown, held, decoders>> /\ decode_buffer' = <<>>
    BY <1>4 DEF Shutdown
  <2> QED BY <1>0, <2>1
<1>5. ASSUME NEW i \in Viewer, DecoderEnds(i) PROVE Frameful'
  <2>1. \A j \in Viewer : (decoders'[j] = "busy") = (decoders[j] = "busy")
    BY <1>0, <1>5 DEF DecoderEnds
  <2> QED BY <1>1, <1>5, <2>1 DEF DecoderEnds
<1>6. ASSUME NEW i \in Viewer, Dequeue(i) PROVE Frameful'
  <2>1. /\ encoded_buffer # <<>> /\ encoded_buffer \in Seq(Frame)
        /\ encoded_buffer' = Tail(encoded_buffer)
        /\ decoders' = [decoders EXCEPT ![i] = "busy"]
        /\ held' = [held EXCEPT ![i] = <<Head(encoded_buffer)>>]
        /\ UNCHANGED <<decode_buffer, queued, shown>>
    BY <1>0, <1>6 DEF Dequeue
  <2>2. Head(encoded_buffer) \in Frame /\ encoded_buffer' \in Seq(Frame)
    BY <2>1, HeadTailProperties
  <2>3. <<Head(encoded_buffer)>> \in Seq(Frame) /\ <<Head(encoded_buffer)>> # <<>>
    BY <2>2
  <2>4. held' \in [Viewer -> Seq(Frame)]
    BY <1>0, <2>1, <2>3
  <2>5. ASSUME NEW j \in Viewer PROVE (held'[j] # <<>>) = (decoders'[j] = "busy")
    BY <1>0, <2>1, <2>3
  <2> QED BY <1>0, <2>1, <2>2, <2>4, <2>5
<1>7. ASSUME NEW i \in Viewer, Decoded(i) PROVE Frameful'
  <2>1. /\ decode_buffer' \in {decode_buffer \o held[i], decode_buffer}
        /\ decoders' = [decoders EXCEPT ![i] = "idle"]
        /\ held' = [held EXCEPT ![i] = <<>>]
        /\ UNCHANGED <<encoded_buffer, queued, shown>>
    BY <1>7 DEF Decoded
  <2>2. held[i] \in Seq(Frame) /\ decode_buffer \in Seq(Frame)
    BY <1>0
  <2>3. decode_buffer' \in Seq(Frame)
    BY <2>1, <2>2, ConcatProperties
  <2>4. held' \in [Viewer -> Seq(Frame)]
    BY <1>0, <2>1
  <2>5. ASSUME NEW j \in Viewer PROVE (held'[j] # <<>>) = (decoders'[j] = "busy")
    BY <1>0, <2>1
  <2> QED BY <1>0, <2>1, <2>3, <2>4, <2>5
<1>8. ASSUME NEW i \in Viewer, Render(i) PROVE Frameful'
  <2>1. /\ decode_buffer # <<>> /\ decode_buffer \in Seq(Frame)
        /\ decode_buffer' = Tail(decode_buffer)
        /\ shown' = Append(shown, [by |-> i, frame |-> Head(decode_buffer)])
        /\ UNCHANGED <<encoded_buffer, queued, held, decoders>>
    BY <1>0, <1>8 DEF Render
  <2>2. Head(decode_buffer) \in Frame /\ decode_buffer' \in Seq(Frame)
    BY <2>1, HeadTailProperties
  <2>3. [by |-> i, frame |-> Head(decode_buffer)] \in [by : Viewer, frame : Frame]
    BY <2>2
  <2>4. shown' \in Seq([by : Viewer, frame : Frame])
    BY <1>0, <2>1, <2>3, AppendProperties
  <2> QED BY <1>0, <2>1, <2>2, <2>4
<1>9. ASSUME NEW i \in Viewer, CreateWindow(i) \/ RendererEnds(i) PROVE Frameful'
  BY <1>1, <1>9 DEF CreateWindow, RendererEnds
<1>10. ASSUME NEW i \in Streamer, EncoderMoves(i) PROVE Frameful'
  <2>1. UNCHANGED <<encoded_buffer, decode_buffer, shown, held, decoders>>
    BY <1>10 DEF EncoderMoves
  <2>2. queued' = queued \/ \E t \in {"VIDEO_PARAMS", "DATA"} : queued' = Append(queued, [type |-> t, by |-> i])
    BY <1>10 DEF EncoderMoves
  <2>3. queued' = queued \/ queued' \in Seq([type : {"VIDEO_PARAMS", "DATA"}, by : Streamer])
    <3>1. \A t \in {"VIDEO_PARAMS", "DATA"} :
            [type |-> t, by |-> i] \in [type : {"VIDEO_PARAMS", "DATA"}, by : Streamer]
      OBVIOUS
    <3>2. ASSUME NEW t \in {"VIDEO_PARAMS", "DATA"}, queued' = Append(queued, [type |-> t, by |-> i])
          PROVE  queued' \in Seq([type : {"VIDEO_PARAMS", "DATA"}, by : Streamer])
      <4> DEFINE P == [type : {"VIDEO_PARAMS", "DATA"}, by : Streamer]
                 x == [type |-> t, by |-> i]
      <4>1. x \in P /\ queued \in Seq(P) /\ queued' = Append(queued, x)
        BY <1>0, <3>1, <3>2
      <4> HIDE DEF P, x
      <4>2. queued' \in Seq(P)
        BY <4>1, AppendProperties
      <4> QED BY <4>2 DEF P
    <3> QED BY <2>2, <3>2
  <2> QED BY <1>1, <2>1, <2>3
<1>11. CASE Received(handle_data)
  <2>1. /\ UNCHANGED <<decode_buffer, queued, shown, held, decoders>>
        /\ frames < MaxFrames /\ frames' = frames + 1
        /\ encoded_buffer' = Append(encoded_buffer, [of |-> params, n |-> frames'])
    BY <1>11 DEF Received, handle_data
  <2>2. params \in 0 .. MaxSessions /\ frames' \in 1 .. MaxFrames
    BY <2>1, BoundAssumption DEF Typed, Counted
  <2>3. [of |-> params, n |-> frames'] \in Frame
    BY <2>2 DEF Frame
  <2>4. encoded_buffer' \in Seq(Frame)
    BY <1>0, <2>1, <2>3, AppendProperties
  <2> QED BY <1>0, <2>1, <2>4
<1>12. CASE \/ UNCHANGED vars \/ Dies \/ HandleStarting \/ InitEncoder \/ StartEncoder \/ InitDecoder
            \/ CloseNothing \/ CloseClient \/ CloseHost
            \/ GivesUp("JOIN_DECODER") \/ GivesUp("JOIN_RENDERER") \/ GivesUp("JOIN_ENCODER")
            \/ RendererJoined \/ EncoderJoined
  <2>1. UNCHANGED <<bufferVars, decoders, held>>
    BY <1>12 DEF vars, Dies, HandleStarting, InitEncoder, StartEncoder, InitDecoder, CloseNothing,
          CloseClient, CloseHost, GivesUp, RendererJoined, EncoderJoined
  <2> QED BY <1>1, <2>1
<1>13. CASE \/ Received(SessionStarting) \/ Received(VideoParams) \/ Received(SessionClose)
            \/ Received(SessionRequest) \/ Received(EndSession)
  <2>1. UNCHANGED <<bufferVars, decoders, held>>
    BY <1>13 DEF Received, SessionStarting, VideoParams, SessionClose, SessionRequest, EndSession
  <2> QED BY <1>1, <2>1
<1> QED BY <1>2, <1>3, <1>4, <1>5, <1>6, <1>7, <1>8, <1>9, <1>10, <1>11, <1>12, <1>13, NextSteps

\* The numbers keep their types.
LEMMA NumbersStep == ASSUME Typed, [Next]_vars PROVE Numbers'
<1> USE DEF remoteVars
<1>0. Numbers
  BY TypedPieces
<1>1. ASSUME tasks' \in [Step -> Nat], UNCHANGED <<phase, sessions, params, frames, requests>> PROVE Numbers'
  BY <1>0, <1>1 DEF Numbers
<1>2. /\ \A k \in Step : Ends(k) => tasks' \in [Step -> Nat]
      /\ \A k \in Step : Starts(k) => tasks' \in [Step -> Nat]
      /\ \A k, m \in Step : k # m /\ Continues(k, m) => tasks' \in [Step -> Nat]
  BY <1>0 DEF Numbers, Ends, Starts, Continues
<1>3. {"STARTING", "REQUEST", "START_ENCODER", "PARAMS", "START_THREADS", "CLOSE",
       "JOIN_DECODER", "JOIN_RENDERER", "SHUTDOWN", "JOIN_ENCODER"} \subseteq Step
  BY DEF Step
<1>4. CASE \/ HandleStarting \/ StartEncoder \/ ThreadsStart \/ CloseNothing \/ Shutdown
           \/ EncoderJoined \/ GivesUp("JOIN_DECODER") \/ GivesUp("JOIN_RENDERER")
           \/ GivesUp("JOIN_ENCODER")
  <2>1. (\E k \in Step : Ends(k)) /\ UNCHANGED remoteVars
    BY <1>3, <1>4 DEF HandleStarting, StartEncoder, ThreadsStart, CloseNothing, Shutdown, EncoderJoined,
          GivesUp
  <2> QED BY <1>1, <1>2, <2>1
<1>5. CASE \/ InitEncoder \/ InitDecoder \/ CloseClient \/ CloseHost
           \/ DecoderJoined \/ RendererJoined
  <2>1. (\E k, m \in Step : k # m /\ Continues(k, m)) /\ UNCHANGED remoteVars
    BY <1>3, <1>5 DEF InitEncoder, InitDecoder, CloseClient, CloseHost, DecoderJoined, RendererJoined
  <2> QED BY <1>1, <1>2, <2>1
<1>6. CASE Received(SessionStarting) \/ Received(VideoParams) \/ Received(SessionClose) \/ Received(SessionRequest)
  <2>1. tasks' \in [Step -> Nat]
    BY <1>2, <1>3, <1>6 DEF Received, SessionStarting, VideoParams, SessionClose, SessionRequest
  <2> QED BY <1>0, <1>6, <2>1, BoundAssumption
          DEF Numbers, Received, SessionStarting, VideoParams, SessionClose, SessionRequest
<1>7. CASE Received(handle_data) \/ Received(EndSession)
  BY <1>0, <1>7, BoundAssumption DEF Numbers, Received, handle_data, EndSession
<1>8. CASE UNCHANGED vars \/ Dies
  BY <1>0, <1>8 DEF vars, Dies, Numbers
<1>9. ASSUME NEW i \in Viewer, \/ DecoderEnds(i) \/ Dequeue(i) \/ Decoded(i)
                               \/ CreateWindow(i) \/ Render(i) \/ RendererEnds(i)
      PROVE  Numbers'
  <2>1. UNCHANGED <<tasks, remoteVars>>
    BY <1>9 DEF DecoderEnds, Dequeue, Decoded, CreateWindow, Render, RendererEnds
  <2> QED BY <1>0, <2>1 DEF Numbers
<1>10. ASSUME NEW i \in Streamer, EncoderMoves(i) PROVE Numbers'
  BY <1>0, <1>10 DEF Numbers, EncoderMoves
<1> QED BY <1>4, <1>5, <1>6, <1>7, <1>8, <1>9, <1>10, NextSteps

\* The numbers of threads and of handlers go with those of the packets.
LEMMA CountedStep == ASSUME Typed, Counted, [Next]_vars PROVE Counted'
<1> USE DEF flagVars, threadVars, remoteVars
<1>0. /\ pointer \in [decoding : 0 .. MaxSessions, rendering : 0 .. MaxSessions, encoding : 0 .. MaxRequests]
      /\ decoders \in [Viewer -> Thread] /\ renderers \in [Viewer -> Thread] /\ encoders \in [Streamer -> Thread]
      /\ tasks \in [Step -> Nat] /\ params \in Nat /\ sessions \in Nat /\ requests \in Nat
  BY DEF Typed, TypeOK
<1> DEFINE Starting == tasks["PARAMS"] + tasks["START_THREADS"]
           Hosting == tasks["REQUEST"] + tasks["START_ENCODER"]
           Started(f) == \A i \in Viewer : f[i] # "none" <=> i <= pointer.decoding
           Streaming(f) == \A i \in Streamer : f[i] # "none" <=> i <= pointer.encoding
<1>1. /\ params <= sessions /\ (phase = "starting" => params < sessions)
      /\ pointer.rendering = pointer.decoding
      /\ pointer.decoding + Starting = params
      /\ pointer.encoding + Hosting = requests
      /\ Started(decoders) /\ Started(renderers) /\ Streaming(encoders)
  BY <1>0 DEF Counted, Step
<1>2. ASSUME params' <= sessions', phase' = "starting" => params' < sessions',
             pointer'.rendering = pointer'.decoding,
             pointer'.decoding + Starting' = params',
             pointer'.encoding + Hosting' = requests',
             Started(decoders)', Started(renderers)', Streaming(encoders)',
             tasks' \in [Step -> Nat],
             pointer'.decoding \in Nat, pointer'.encoding \in Nat
      PROVE  Counted'
  BY <1>2 DEF Counted, Step
<1>3. ASSUME UNCHANGED <<params, sessions, phase, requests, pointer>>,
             Starting' = Starting, Hosting' = Hosting, tasks' \in [Step -> Nat],
             \A i \in Viewer : decoders'[i] # "none" <=> decoders[i] # "none",
             \A i \in Viewer : renderers'[i] # "none" <=> renderers[i] # "none",
             \A i \in Streamer : encoders'[i] # "none" <=> encoders[i] # "none"
      PROVE  Counted'
  <2> HIDE DEF Starting, Hosting
  <2> QED BY <1>0, <1>1, <1>2, <1>3
<1>4. {"STARTING", "REQUEST", "START_ENCODER", "PARAMS", "START_THREADS", "CLOSE",
       "JOIN_DECODER", "JOIN_RENDERER", "SHUTDOWN", "JOIN_ENCODER"} \subseteq Step
  BY DEF Step
<1>5. ASSUME NEW k \in Step \ {"REQUEST", "START_ENCODER", "PARAMS", "START_THREADS"}, Ends(k)
      PROVE  Starting' = Starting /\ Hosting' = Hosting /\ tasks' \in [Step -> Nat]
  <2>1. tasks' \in [Step -> Nat] /\ \A l \in Step : l # k => tasks'[l] = tasks[l]
    BY <1>0, <1>5, EndsCount, Zenon
  <2> QED BY <1>4, <2>1
<1>6. ASSUME NEW k \in Step \ {"REQUEST", "START_ENCODER", "PARAMS", "START_THREADS"},
             NEW m \in Step \ {"REQUEST", "START_ENCODER", "PARAMS", "START_THREADS"},
             k # m, Continues(k, m)
      PROVE  Starting' = Starting /\ Hosting' = Hosting /\ tasks' \in [Step -> Nat]
  <2>1. tasks' \in [Step -> Nat] /\ \A l \in Step : l # k /\ l # m => tasks'[l] = tasks[l]
    BY <1>0, <1>6, ContinuesCount, Zenon
  <2> QED BY <1>4, <2>1
<1>7. ASSUME NEW k \in Step \ {"REQUEST", "START_ENCODER", "PARAMS", "START_THREADS"}, Starts(k)
      PROVE  Starting' = Starting /\ Hosting' = Hosting /\ tasks' \in [Step -> Nat]
  <2>1. tasks' \in [Step -> Nat] /\ \A l \in Step : l # k => tasks'[l] = tasks[l]
    BY <1>0, <1>7, StartsCount, Zenon
  <2> QED BY <1>4, <2>1
<1>8. CASE \/ HandleStarting \/ CloseNothing
           \/ GivesUp("JOIN_DECODER") \/ GivesUp("JOIN_RENDERER") \/ GivesUp("JOIN_ENCODER")
  <2>1. UNCHANGED <<params, sessions, phase, requests, pointer, decoders, renderers, encoders>>
    BY <1>8 DEF HandleStarting, CloseNothing, GivesUp
  <2>2. Ends("STARTING") \/ Ends("CLOSE") \/ Ends("JOIN_DECODER") \/ Ends("JOIN_RENDERER") \/ Ends("JOIN_ENCODER")
    BY <1>8 DEF HandleStarting, CloseNothing, GivesUp
  <2>3. Starting' = Starting /\ Hosting' = Hosting /\ tasks' \in [Step -> Nat]
    <3> HIDE DEF Starting, Hosting
    <3> QED BY <1>4, <1>5, <2>2
  <2> HIDE DEF Starting, Hosting
  <2> QED BY <1>3, <2>1, <2>3
<1>9. CASE CloseClient \/ CloseHost
  <2>1. UNCHANGED <<params, sessions, phase, requests, pointer, decoders, renderers, encoders>>
    BY <1>9 DEF CloseClient, CloseHost
  <2>2. Continues("CLOSE", "JOIN_DECODER") \/ Continues("CLOSE", "JOIN_ENCODER")
    BY <1>9 DEF CloseClient, CloseHost
  <2>3. Starting' = Starting /\ Hosting' = Hosting /\ tasks' \in [Step -> Nat]
    <3> HIDE DEF Starting, Hosting
    <3> QED BY <1>4, <1>6, <2>2
  <2> HIDE DEF Starting, Hosting
  <2> QED BY <1>3, <2>1, <2>3
<1>10. CASE DecoderJoined \/ RendererJoined
  <2>1. UNCHANGED <<params, sessions, phase, requests, pointer, encoders>>
    BY <1>10 DEF DecoderJoined, RendererJoined
  <2>2. Continues("JOIN_DECODER", "JOIN_RENDERER") \/ Continues("JOIN_RENDERER", "SHUTDOWN")
    BY <1>10 DEF DecoderJoined, RendererJoined
  <2>3. Starting' = Starting /\ Hosting' = Hosting /\ tasks' \in [Step -> Nat]
    <3> HIDE DEF Starting, Hosting
    <3> QED BY <1>4, <1>6, <2>2
  <2>4. /\ \A i \in Viewer : decoders'[i] # "none" <=> decoders[i] # "none"
        /\ \A i \in Viewer : renderers'[i] # "none" <=> renderers[i] # "none"
    BY <1>0, <1>10 DEF DecoderJoined, RendererJoined, Status
  <2> HIDE DEF Starting, Hosting
  <2> QED BY <1>3, <2>1, <2>3, <2>4
<1>11. CASE Shutdown
  <2>1. UNCHANGED <<params, sessions, phase, requests, pointer, decoders, encoders>> /\ Ends("SHUTDOWN")
    BY <1>11 DEF Shutdown
  <2>2. Starting' = Starting /\ Hosting' = Hosting /\ tasks' \in [Step -> Nat]
    <3> HIDE DEF Starting, Hosting
    <3> QED BY <1>4, <1>5, <2>1
  <2>3. \A i \in Viewer : renderers'[i] # "none" <=> renderers[i] # "none"
    <3>1. renderers' = [renderers EXCEPT ![pointer.rendering] = "deleted"]
      BY <1>11 DEF Shutdown
    <3>2. pointer.rendering \in Viewer => renderers[pointer.rendering] # "none"
      BY <1>0, <1>1
    <3> QED BY <1>0, <3>1, <3>2
  <2> HIDE DEF Starting, Hosting
  <2> QED BY <1>3, <2>1, <2>2, <2>3
<1>12. CASE EncoderJoined
  <2>1. UNCHANGED <<params, sessions, phase, requests, pointer, decoders, renderers>> /\ Ends("JOIN_ENCODER")
    BY <1>12 DEF EncoderJoined
  <2>2. Starting' = Starting /\ Hosting' = Hosting /\ tasks' \in [Step -> Nat]
    <3> HIDE DEF Starting, Hosting
    <3> QED BY <1>4, <1>5, <2>1
  <2>3. \A i \in Streamer : encoders'[i] # "none" <=> encoders[i] # "none"
    BY <1>0, <1>12 DEF EncoderJoined, Status
  <2> HIDE DEF Starting, Hosting
  <2> QED BY <1>3, <2>1, <2>2, <2>3
<1>13. CASE InitDecoder \/ InitEncoder
  <2>1. UNCHANGED <<params, sessions, phase, requests, pointer, decoders, renderers, encoders>>
    BY <1>13 DEF InitDecoder, InitEncoder
  <2>2. Starting' = Starting /\ Hosting' = Hosting /\ tasks' \in [Step -> Nat]
    <3>1. CASE Continues("PARAMS", "START_THREADS")
      <4>1. /\ tasks' \in [Step -> Nat]
            /\ tasks["PARAMS"] = tasks'["PARAMS"] + 1 /\ tasks'["START_THREADS"] = tasks["START_THREADS"] + 1
            /\ \A l \in Step : l # "PARAMS" /\ l # "START_THREADS" => tasks'[l] = tasks[l]
        BY <1>0, <1>4, <3>1, ContinuesCount
      <4> QED BY <1>0, <1>4, <4>1
    <3>2. CASE Continues("REQUEST", "START_ENCODER")
      <4>1. /\ tasks' \in [Step -> Nat]
            /\ tasks["REQUEST"] = tasks'["REQUEST"] + 1 /\ tasks'["START_ENCODER"] = tasks["START_ENCODER"] + 1
            /\ \A l \in Step : l # "REQUEST" /\ l # "START_ENCODER" => tasks'[l] = tasks[l]
        BY <1>0, <1>4, <3>2, ContinuesCount
      <4> QED BY <1>0, <1>4, <4>1
    <3> QED BY <1>13, <3>1, <3>2 DEF InitDecoder, InitEncoder
  <2> HIDE DEF Starting, Hosting
  <2> QED BY <1>3, <2>1, <2>2
<1>14. CASE ThreadsStart
  <2>1. Unused(decoders) = pointer.decoding + 1 /\ pointer.decoding + 1 \in Viewer
    BY <1>14, NextViewer DEF ThreadsStart, Ends
  <2> DEFINE u == pointer.decoding + 1
  <2>2. /\ Ends("START_THREADS")
        /\ decoders' = [decoders EXCEPT ![u] = "idle"] /\ renderers' = [renderers EXCEPT ![u] = "starting"]
        /\ pointer' = [pointer EXCEPT !.decoding = u, !.rendering = u]
        /\ UNCHANGED <<params, sessions, phase, requests, encoders>>
    BY <1>14, <2>1 DEF ThreadsStart
  <2>3. u \in Viewer /\ pointer.decoding \in Nat /\ u = pointer.decoding + 1
    BY <1>0, <2>1
  <2>4. pointer'.decoding = u /\ pointer'.rendering = u /\ pointer'.encoding = pointer.encoding
    BY <1>0, <2>2
  <2>5. /\ tasks' \in [Step -> Nat] /\ tasks["START_THREADS"] = tasks'["START_THREADS"] + 1
        /\ \A l \in Step : l # "START_THREADS" => tasks'[l] = tasks[l]
    BY <1>0, <1>4, <2>2, EndsCount
  <2>6. Hosting' = Hosting /\ pointer'.decoding + Starting' = params'
    BY <1>0, <1>1, <1>4, <2>2, <2>3, <2>4, <2>5
  <2> HIDE DEF u
  <2>7. ASSUME NEW i \in Viewer
        PROVE  (decoders'[i] # "none" <=> i <= u) /\ (renderers'[i] # "none" <=> i <= u)
    <3>1. i \in Nat
      BY DEF Viewer
    <3> QED BY <1>0, <1>1, <2>2, <2>3, <2>7, <3>1
  <2> HIDE DEF Starting, Hosting
  <2> QED BY <1>0, <1>1, <1>2, <2>2, <2>3, <2>4, <2>5, <2>6, <2>7
<1>15. CASE StartEncoder
  <2>1. Unused(encoders) = pointer.encoding + 1 /\ pointer.encoding + 1 \in Streamer
    BY <1>15, NextStreamer DEF StartEncoder, Ends
  <2> DEFINE u == pointer.encoding + 1
  <2>2. /\ Ends("START_ENCODER")
        /\ encoders' = [encoders EXCEPT ![u] = "first"]
        /\ pointer' = [pointer EXCEPT !.encoding = u]
        /\ UNCHANGED <<params, sessions, phase, requests, decoders, renderers>>
    BY <1>15, <2>1 DEF StartEncoder
  <2>3. u \in Streamer /\ pointer.encoding \in Nat /\ u = pointer.encoding + 1
    BY <1>0, <2>1
  <2>4. pointer'.decoding = pointer.decoding /\ pointer'.rendering = pointer.rendering /\ pointer'.encoding = u
    BY <1>0, <2>2
  <2>5. /\ tasks' \in [Step -> Nat] /\ tasks["START_ENCODER"] = tasks'["START_ENCODER"] + 1
        /\ \A l \in Step : l # "START_ENCODER" => tasks'[l] = tasks[l]
    BY <1>0, <1>4, <2>2, EndsCount
  <2>6. Starting' = Starting /\ pointer'.encoding + Hosting' = requests'
    BY <1>0, <1>1, <1>4, <2>2, <2>3, <2>4, <2>5
  <2> HIDE DEF u
  <2>7. ASSUME NEW i \in Streamer PROVE encoders'[i] # "none" <=> i <= u
    <3>1. i \in Nat
      BY DEF Streamer
    <3> QED BY <1>0, <1>1, <2>2, <2>3, <2>7, <3>1
  <2> HIDE DEF Starting, Hosting
  <2> QED BY <1>0, <1>1, <1>2, <2>2, <2>3, <2>4, <2>5, <2>6, <2>7
<1>16. ASSUME NEW i \in Viewer, \/ DecoderEnds(i) \/ Dequeue(i) \/ Decoded(i)
                                \/ CreateWindow(i) \/ Render(i) \/ RendererEnds(i)
       PROVE  Counted'
  <2>1. UNCHANGED <<params, sessions, phase, requests, pointer, encoders, tasks>>
    BY <1>16 DEF DecoderEnds, Dequeue, Decoded, CreateWindow, Render, RendererEnds
  <2>2. /\ \A j \in Viewer : decoders'[j] # "none" <=> decoders[j] # "none"
        /\ \A j \in Viewer : renderers'[j] # "none" <=> renderers[j] # "none"
    BY <1>0, <1>16 DEF DecoderEnds, Dequeue, Decoded, CreateWindow, Render, RendererEnds
  <2> QED BY <1>0, <1>3, <2>1, <2>2
<1>17. ASSUME NEW i \in Streamer, EncoderMoves(i) PROVE Counted'
  <2>1. UNCHANGED <<params, sessions, phase, requests, pointer, decoders, renderers, tasks>>
    BY <1>17 DEF EncoderMoves
  <2>2. \A j \in Streamer : encoders'[j] # "none" <=> encoders[j] # "none"
    BY <1>0, <1>17 DEF EncoderMoves
  <2> QED BY <1>0, <1>3, <2>1, <2>2
<1>18. CASE UNCHANGED vars \/ Dies
  <2>1. UNCHANGED <<params, sessions, phase, requests, pointer, decoders, renderers, encoders, tasks>>
    BY <1>18 DEF vars, Dies
  <2> QED BY <1>0, <1>3, <2>1
<1>19. CASE Received(SessionStarting) \/ Received(SessionClose)
  <2>1. UNCHANGED <<pointer, decoders, renderers, encoders, params, requests>>
    BY <1>19 DEF Received, SessionStarting, SessionClose
  <2>2. Starting' = Starting /\ Hosting' = Hosting /\ tasks' \in [Step -> Nat]
    <3>1. Starts("STARTING") \/ Starts("CLOSE")
      BY <1>19 DEF Received, SessionStarting, SessionClose
    <3> HIDE DEF Starting, Hosting
    <3> QED BY <1>4, <1>7, <3>1
  <2>3. params' <= sessions' /\ (phase' = "starting" => params' < sessions')
    BY <1>0, <1>1, <1>19 DEF Received, SessionStarting, SessionClose
  <2> HIDE DEF Starting, Hosting
  <2> QED BY <1>0, <1>1, <1>2, <2>1, <2>2, <2>3
<1>20. CASE Received(VideoParams)
  <2>1. /\ UNCHANGED <<pointer, decoders, renderers, encoders, sessions, requests>>
        /\ phase = "starting" /\ phase' = "streaming" /\ params' = params + 1 /\ Starts("PARAMS")
    BY <1>20 DEF Received, VideoParams
  <2>2. /\ tasks' \in [Step -> Nat] /\ tasks'["PARAMS"] = tasks["PARAMS"] + 1
        /\ \A l \in Step : l # "PARAMS" => tasks'[l] = tasks[l]
    BY <1>0, <1>4, <2>1, StartsCount
  <2>3. Hosting' = Hosting /\ pointer'.decoding + Starting' = params'
    BY <1>0, <1>1, <1>4, <2>1, <2>2
  <2>4. params' <= sessions' /\ (phase' = "starting" => params' < sessions')
    BY <1>0, <1>1, <2>1
  <2> HIDE DEF Starting, Hosting
  <2> QED BY <1>0, <1>1, <1>2, <2>1, <2>2, <2>3, <2>4
<1>21. CASE Received(SessionRequest)
  <2>1. /\ UNCHANGED <<pointer, decoders, renderers, encoders, sessions, params, phase>>
        /\ requests' = requests + 1 /\ Starts("REQUEST")
    BY <1>21 DEF Received, SessionRequest
  <2>2. /\ tasks' \in [Step -> Nat] /\ tasks'["REQUEST"] = tasks["REQUEST"] + 1
        /\ \A l \in Step : l # "REQUEST" => tasks'[l] = tasks[l]
    BY <1>0, <1>4, <2>1, StartsCount
  <2>3. Starting' = Starting /\ pointer'.encoding + Hosting' = requests'
    BY <1>0, <1>1, <1>4, <2>1, <2>2
  <2> HIDE DEF Starting, Hosting
  <2> QED BY <1>0, <1>1, <1>2, <2>1, <2>2, <2>3
<1>22. CASE Received(handle_data) \/ Received(EndSession)
  <2>1. /\ UNCHANGED <<pointer, decoders, renderers, encoders, sessions, params, requests, tasks>>
        /\ phase' = "starting" => phase = "starting"
    BY <1>22 DEF Received, handle_data, EndSession
  <2> QED BY <1>0, <1>1, <1>2, <2>1
<1> QED BY <1>8, <1>9, <1>10, <1>11, <1>12, <1>13, <1>14, <1>15, <1>16, <1>17, <1>18, <1>19, <1>20,
          <1>21, <1>22, NextSteps

--------------------------------------------------------------------------------
(* One session after the other *)

\* A step of a handler that was alone: it ends, it goes on, or it starts.
LEMMA TaskAlone ==
    ASSUME Typed, Alone
    PROVE  /\ \A k \in Step : Ends(k) /\ ~disorder => Only(k) /\ None'
           /\ \A k, m \in Step : k # m /\ Continues(k, m) /\ ~disorder => Only(k) /\ Only(m)'
           /\ \A k \in Step : Starts(k) /\ ~disorder' => ~disorder /\ None /\ Only(k)'
<1>1. tasks \in [Step -> Nat]
  BY DEF Typed, TypeOK
<1>2. ASSUME NEW k \in Step, Ends(k), ~disorder PROVE Only(k) /\ None'
  BY <1>1, <1>2, EndsCount DEF Alone
<1>3. ASSUME NEW k \in Step, NEW m \in Step, k # m, Continues(k, m), ~disorder PROVE Only(k) /\ Only(m)'
  <2>1. None \/ (\E j \in Step : Only(j)) => Only(k) /\ Only(m)'
    BY <1>1, <1>3, ContinuesCount, Zenon
  <2> QED BY <1>3, <2>1 DEF Alone
<1>4. ASSUME NEW k \in Step, Starts(k), ~disorder' PROVE ~disorder /\ None /\ Only(k)'
  BY <1>1, <1>4, StartsCount, Zenon
<1> QED BY <1>2, <1>3, <1>4

\* What each step of a handler does when the handlers run one after the other.
LEMMA StepsAlone ==
    ASSUME Typed, Alone, ~disorder'
    PROVE  /\ HandleStarting => ~disorder /\ Only("STARTING") /\ None'
           /\ StartEncoder => ~disorder /\ Only("START_ENCODER") /\ None'
           /\ ThreadsStart => ~disorder /\ Only("START_THREADS") /\ None'
           /\ CloseNothing => ~disorder /\ Only("CLOSE") /\ None'
           /\ Shutdown => ~disorder /\ Only("SHUTDOWN") /\ None'
           /\ EncoderJoined => ~disorder /\ Only("JOIN_ENCODER") /\ None'
           /\ \A k \in Step : GivesUp(k) => ~disorder /\ Only(k) /\ None'
           /\ InitEncoder => ~disorder /\ Only("REQUEST") /\ Only("START_ENCODER")'
           /\ InitDecoder => ~disorder /\ Only("PARAMS") /\ Only("START_THREADS")'
           /\ CloseClient => ~disorder /\ Only("CLOSE") /\ Only("JOIN_DECODER")'
           /\ CloseHost => ~disorder /\ Only("CLOSE") /\ Only("JOIN_ENCODER")'
           /\ DecoderJoined => ~disorder /\ Only("JOIN_DECODER") /\ Only("JOIN_RENDERER")'
           /\ RendererJoined => ~disorder /\ Only("JOIN_RENDERER") /\ Only("SHUTDOWN")'
           /\ Received(SessionStarting) => ~disorder /\ None /\ Only("STARTING")'
           /\ Received(VideoParams) => ~disorder /\ None /\ Only("PARAMS")'
           /\ Received(SessionClose) => ~disorder /\ None /\ Only("CLOSE")'
           /\ Received(SessionRequest) => ~disorder /\ None /\ Only("REQUEST")'
           /\ ~Received(EndSession)
<1>1. {"STARTING", "REQUEST", "START_ENCODER", "PARAMS", "START_THREADS", "CLOSE",
       "JOIN_DECODER", "JOIN_RENDERER", "SHUTDOWN", "JOIN_ENCODER"} \subseteq Step
  BY DEF Step
<1>2. /\ \A k \in Step : Ends(k) /\ ~disorder => Only(k) /\ None'
      /\ \A k, m \in Step : k # m /\ Continues(k, m) /\ ~disorder => Only(k) /\ Only(m)'
      /\ \A k \in Step : Starts(k) /\ ~disorder' => ~disorder /\ None /\ Only(k)'
  BY TaskAlone
<1>3. /\ HandleStarting => Ends("STARTING") /\ disorder' = disorder
      /\ StartEncoder => Ends("START_ENCODER") /\ disorder' = disorder
      /\ ThreadsStart => Ends("START_THREADS") /\ disorder' = disorder
      /\ CloseNothing => Ends("CLOSE") /\ disorder' = disorder
      /\ Shutdown => Ends("SHUTDOWN") /\ disorder' = disorder
      /\ EncoderJoined => Ends("JOIN_ENCODER") /\ disorder' = disorder
      /\ \A k \in Step : GivesUp(k) => Ends(k) /\ disorder' = disorder
  BY DEF HandleStarting, StartEncoder, ThreadsStart, CloseNothing, Shutdown, EncoderJoined,
        GivesUp, remoteVars
<1>4. /\ InitEncoder => Continues("REQUEST", "START_ENCODER") /\ disorder' = disorder
      /\ InitDecoder => Continues("PARAMS", "START_THREADS") /\ disorder' = disorder
      /\ CloseClient => Continues("CLOSE", "JOIN_DECODER") /\ disorder' = disorder
      /\ CloseHost => Continues("CLOSE", "JOIN_ENCODER") /\ disorder' = disorder
      /\ DecoderJoined => Continues("JOIN_DECODER", "JOIN_RENDERER") /\ disorder' = disorder
      /\ RendererJoined => Continues("JOIN_RENDERER", "SHUTDOWN") /\ disorder' = disorder
  BY DEF InitEncoder, InitDecoder, CloseClient, CloseHost, DecoderJoined, RendererJoined, remoteVars
<1>5. /\ Received(SessionStarting) => Starts("STARTING")
      /\ Received(VideoParams) => Starts("PARAMS")
      /\ Received(SessionClose) => Starts("CLOSE")
      /\ Received(SessionRequest) => Starts("REQUEST")
      /\ Received(EndSession) => disorder'
  BY DEF Received, SessionStarting, VideoParams, SessionClose, SessionRequest, EndSession
<1>6. /\ HandleStarting => ~disorder /\ Only("STARTING") /\ None'
      /\ StartEncoder => ~disorder /\ Only("START_ENCODER") /\ None'
      /\ ThreadsStart => ~disorder /\ Only("START_THREADS") /\ None'
      /\ CloseNothing => ~disorder /\ Only("CLOSE") /\ None'
      /\ Shutdown => ~disorder /\ Only("SHUTDOWN") /\ None'
      /\ EncoderJoined => ~disorder /\ Only("JOIN_ENCODER") /\ None'
      /\ \A k \in Step : GivesUp(k) => ~disorder /\ Only(k) /\ None'
  BY <1>1, <1>2, <1>3
<1>7. /\ InitEncoder => ~disorder /\ Only("REQUEST") /\ Only("START_ENCODER")'
      /\ InitDecoder => ~disorder /\ Only("PARAMS") /\ Only("START_THREADS")'
      /\ CloseClient => ~disorder /\ Only("CLOSE") /\ Only("JOIN_DECODER")'
      /\ CloseHost => ~disorder /\ Only("CLOSE") /\ Only("JOIN_ENCODER")'
      /\ DecoderJoined => ~disorder /\ Only("JOIN_DECODER") /\ Only("JOIN_RENDERER")'
      /\ RendererJoined => ~disorder /\ Only("JOIN_RENDERER") /\ Only("SHUTDOWN")'
  BY <1>1, <1>2, <1>4
<1>8. /\ Received(SessionStarting) => ~disorder /\ None /\ Only("STARTING")'
      /\ Received(VideoParams) => ~disorder /\ None /\ Only("PARAMS")'
      /\ Received(SessionClose) => ~disorder /\ None /\ Only("CLOSE")'
      /\ Received(SessionRequest) => ~disorder /\ None /\ Only("REQUEST")'
      /\ ~Received(EndSession)
  BY <1>1, <1>2, <1>5
<1> QED BY <1>6, <1>7, <1>8, Zenon

\* A handler finds the session in the phase it is for.
LEMMA AtPhaseStep == ASSUME Typed, Alone, AtPhase, [Next]_vars PROVE AtPhase'
<1> SUFFICES ASSUME ~disorder' PROVE AtPhase'
  BY DEF AtPhase
<1> USE DEF flagVars, remoteVars
<1>0. tasks \in [Step -> Nat]
  BY DEF Typed, TypeOK
<1>1. ASSUME UNCHANGED <<tasks, disorder, phase, state>> PROVE AtPhase'
  BY <1>1 DEF AtPhase
<1> USE DEF AtPhase, Closing, Step, None, Only
<1>2. CASE HandleStarting
  BY <1>2, StepsAlone DEF HandleStarting
<1>3. CASE StartEncoder
  BY <1>3, StepsAlone DEF StartEncoder
<1>4. CASE ThreadsStart
  BY <1>4, StepsAlone DEF ThreadsStart
<1>5. CASE CloseNothing
  BY <1>5, StepsAlone DEF CloseNothing
<1>6. CASE Shutdown
  <2>1. ~disorder /\ Only("SHUTDOWN") /\ None'
    BY ONLY <1>6, Typed, Alone, ~disorder', StepsAlone
  <2>2. state' = "LOBBY" /\ phase' = phase
    BY <1>6 DEF Shutdown
  <2>3. phase = "idle"
    BY <2>1
  <2> QED BY ONLY <2>1, <2>2, <2>3 DEF AtPhase, Closing, Step, None
<1>7. CASE EncoderJoined
  BY <1>7, StepsAlone DEF EncoderJoined
<1>8. ASSUME NEW k \in Step, GivesUp(k), k \in {"JOIN_DECODER", "JOIN_RENDERER", "JOIN_ENCODER"} PROVE AtPhase'
  BY <1>8, StepsAlone DEF GivesUp
<1>9. CASE InitEncoder
  BY <1>9, StepsAlone DEF InitEncoder
<1>10. CASE InitDecoder
  BY <1>10, StepsAlone DEF InitDecoder
<1>11. CASE CloseClient
  BY <1>11, StepsAlone DEF CloseClient
<1>12. CASE CloseHost
  <2>1. ~disorder /\ Only("CLOSE")
    BY ONLY <1>12, Typed, Alone, ~disorder', StepsAlone
  <2>2. state = "HOST"
    BY <1>12 DEF CloseHost
  <2> QED BY <2>1, <2>2
<1>13. CASE DecoderJoined
  <2>1. ~disorder /\ Only("JOIN_DECODER") /\ Only("JOIN_RENDERER")'
    BY ONLY <1>13, Typed, Alone, ~disorder', StepsAlone
  <2>2. state' = state /\ phase' = phase
    BY <1>13 DEF DecoderJoined
  <2>3. state = "CLIENT" /\ phase = "idle"
    BY <2>1
  <2> QED BY ONLY <2>1, <2>2, <2>3 DEF AtPhase, Closing, Step, Only
<1>14. CASE RendererJoined
  BY <1>14, StepsAlone DEF RendererJoined
<1>15. CASE Received(SessionStarting)
  BY <1>15, StepsAlone DEF Received, SessionStarting
<1>16. CASE Received(VideoParams)
  BY <1>16, StepsAlone DEF Received, VideoParams
<1>17. CASE Received(SessionClose)
  BY <1>17, StepsAlone DEF Received, SessionClose
<1>18. CASE Received(SessionRequest)
  BY <1>18, StepsAlone DEF Received, SessionRequest
<1>19. ~Received(EndSession)
  BY StepsAlone
<1>20. CASE Received(handle_data)
  BY <1>1, <1>20 DEF Received, handle_data
<1>21. ASSUME NEW i \in Viewer, \/ DecoderEnds(i) \/ Dequeue(i) \/ Decoded(i)
                                \/ CreateWindow(i) \/ Render(i) \/ RendererEnds(i)
       PROVE  AtPhase'
  BY <1>1, <1>21 DEF DecoderEnds, Dequeue, Decoded, CreateWindow, Render, RendererEnds
<1>22. ASSUME NEW i \in Streamer, EncoderMoves(i) PROVE AtPhase'
  BY <1>1, <1>22 DEF EncoderMoves
<1>23. CASE UNCHANGED vars \/ Dies
  BY <1>1, <1>23 DEF vars, Dies
<1> QED BY <1>2, <1>3, <1>4, <1>5, <1>6, <1>7, <1>8, <1>9, <1>10, <1>11, <1>12, <1>13, <1>14, <1>15,
          <1>16, <1>17, <1>18, <1>19, <1>20, <1>21, <1>22, <1>23, NextSteps

\* The pointers and the threads they lead to.
LEMMA PointerTypes ==
    ASSUME Typed, Counted
    PROVE  /\ pointer \in [decoding : 0 .. MaxSessions, rendering : 0 .. MaxSessions, encoding : 0 .. MaxRequests]
           /\ pointer.decoding \in Nat /\ pointer.rendering = pointer.decoding
           /\ decoders \in [Viewer -> Thread] /\ renderers \in [Viewer -> Thread]
           /\ phase \in {"idle", "starting", "streaming"}
           /\ pointer.decoding > 0 => pointer.decoding \in Viewer
<1>1. /\ pointer \in [decoding : 0 .. MaxSessions, rendering : 0 .. MaxSessions, encoding : 0 .. MaxRequests]
      /\ decoders \in [Viewer -> Thread] /\ renderers \in [Viewer -> Thread]
      /\ phase \in {"idle", "starting", "streaming"}
  BY DEF Typed, TypeOK
<1>2. pointer.rendering = pointer.decoding
  BY DEF Counted
<1>3. MaxSessions \in Nat /\ pointer.decoding \in 0 .. MaxSessions
  BY <1>1, BoundAssumption
<1>4. pointer.decoding > 0 => pointer.decoding \in Viewer
  BY <1>3 DEF Viewer
<1> QED BY <1>1, <1>2, <1>3, <1>4

\* A thread that is not finished is the one the pointer leads to.
LEMMA LastViewer ==
    ASSUME Typed, Counted, Staged, ~disorder, NEW i \in Viewer,
           decoders[i] \in Unfinished \/ renderers[i] \in Unfinished
    PROVE  i = pointer.decoding /\ pointer.decoding > 0
<1>1. i \in Nat /\ i > 0 /\ pointer.decoding \in Nat
  BY DEF Typed, TypeOK, Viewer
<1>2. decoders[i] # "none" \/ renderers[i] # "none"
  BY DEF Unfinished
<1>3. i <= pointer.decoding
  BY <1>2 DEF Counted
<1>4. ~(i < pointer.decoding)
  BY DEF Staged, Unfinished
<1> QED BY <1>1, <1>3, <1>4

\* The threads go through a session one step at a time, and before the next one
\* starts they were joined and deleted.
LEMMA StagedStep == ASSUME Typed, Counted, Alone, AtPhase, Staged, [Next]_vars PROVE Staged'
<1> SUFFICES ASSUME ~disorder' PROVE Staged'
  BY DEF Staged
<1> USE DEF flagVars, threadVars, remoteVars
<1>0. /\ pointer \in [decoding : 0 .. MaxSessions, rendering : 0 .. MaxSessions, encoding : 0 .. MaxRequests]
      /\ pointer.decoding \in Nat /\ pointer.rendering = pointer.decoding
      /\ decoders \in [Viewer -> Thread] /\ renderers \in [Viewer -> Thread]
      /\ phase \in {"idle", "starting", "streaming"}
      /\ pointer.decoding > 0 => pointer.decoding \in Viewer
  BY PointerTypes
<1>1. ASSUME UNCHANGED <<pointer, decoders, renderers, renderer_running>>
      PROVE  Past' = Past /\ Live' = Live
  BY <1>1 DEF Past, Live
<1>2. ASSUME UNCHANGED <<tasks, disorder, phase, pointer, decoders, renderers, renderer_running>> PROVE Staged'
  BY <1>2 DEF Staged, Past, Live
<1> DEFINE Finished == \A i \in Viewer : i < pointer.decoding => decoders[i] = "joined" /\ renderers[i] = "deleted"
\* The threads are done with ...
<1>3. ASSUME Finished', Past', phase' \in {"idle", "starting"},
             None' \/ \E k \in Step \ {"JOIN_RENDERER", "SHUTDOWN"} : Only(k)'
      PROVE  Staged'
  BY <1>3 DEF Staged, None, Only, Step, Closing
<1>4. ASSUME Finished', Past', phase' = "streaming", Only("PARAMS")' \/ Only("START_THREADS")' PROVE Staged'
  BY <1>4 DEF Staged, None, Only, Step, Closing
\* ... they run ...
<1>5. ASSUME Finished', Live', phase' = "streaming", None' PROVE Staged'
  BY <1>5 DEF Staged, None, Only, Step, Closing
\* ... or a handler is about to end them.
<1>6. ASSUME Finished', Live' \/ Past', phase' = "idle", Only("CLOSE")' \/ Only("JOIN_DECODER")' PROVE Staged'
  BY <1>6 DEF Staged, None, Only, Step, Closing
<1>7. ASSUME ~disorder, UNCHANGED <<pointer, decoders, renderers>> PROVE Finished'
  BY <1>7 DEF Staged
<1>8. ASSUME ~disorder PROVE Finished
  BY <1>8 DEF Staged
<1> HIDE DEF Finished
<1>9. ASSUME ~disorder, tasks["STARTING"] > 0 PROVE phase = "starting" /\ Past
  BY <1>9 DEF AtPhase, Staged
<1>10. ASSUME ~disorder, tasks["REQUEST"] > 0 \/ tasks["START_ENCODER"] > 0,
              Only("REQUEST") \/ Only("START_ENCODER")
       PROVE  phase = "idle" /\ Past
  BY <1>10 DEF AtPhase, Staged, Only, Closing, Step
<1>11. ASSUME ~disorder, tasks["PARAMS"] > 0 \/ tasks["START_THREADS"] > 0 PROVE phase = "streaming" /\ Past
  BY <1>11 DEF AtPhase, Staged
<1>12. ASSUME ~disorder, NEW k \in Closing, tasks[k] > 0 PROVE phase = "idle" /\ state = "CLIENT"
  BY <1>12 DEF AtPhase
<1>13. ASSUME NEW k \in Step, Only(k) PROVE tasks[k] > 0
  BY <1>13 DEF Only
<1>14. {"STARTING", "REQUEST", "START_ENCODER", "PARAMS", "START_THREADS", "CLOSE",
        "JOIN_DECODER", "JOIN_RENDERER", "SHUTDOWN", "JOIN_ENCODER"} \subseteq Step
  BY DEF Step
<1>15. CASE HandleStarting
  <2>1. ~disorder /\ Only("STARTING") /\ None'
    BY <1>15, StepsAlone
  <2>2. UNCHANGED <<phase, pointer, decoders, renderers, renderer_running>>
    BY <1>15 DEF HandleStarting
  <2> QED BY <1>1, <1>3, <1>7, <1>9, <1>13, <1>14, <2>1, <2>2
<1>16. CASE StartEncoder
  <2>1. ~disorder /\ Only("START_ENCODER") /\ None'
    BY <1>16, StepsAlone
  <2>2. UNCHANGED <<phase, decoders, renderers, renderer_running>> /\ pointer'.decoding = pointer.decoding
    BY <1>0, <1>16 DEF StartEncoder
  <2>3. phase = "idle" /\ Past
    BY <1>10, <1>13, <1>14, <2>1
  <2>4. Past' /\ Finished'
    BY <1>8, <2>1, <2>2, <2>3 DEF Past, Finished
  <2> QED BY <1>3, <2>1, <2>2, <2>3, <2>4
<1>17. CASE InitEncoder
  <2>1. ~disorder /\ Only("REQUEST") /\ Only("START_ENCODER")'
    BY <1>17, StepsAlone
  <2>2. UNCHANGED <<phase, pointer, decoders, renderers, renderer_running>>
    BY <1>17 DEF InitEncoder
  <2>3. phase = "idle" /\ Past
    BY <1>10, <1>13, <1>14, <2>1
  <2> QED BY <1>1, <1>3, <1>7, <1>14, <2>1, <2>2, <2>3
<1>18. CASE InitDecoder
  <2>1. ~disorder /\ Only("PARAMS") /\ Only("START_THREADS")'
    BY <1>18, StepsAlone
  <2>2. UNCHANGED <<phase, pointer, decoders, renderers, renderer_running>>
    BY <1>18 DEF InitDecoder
  <2>3. phase = "streaming" /\ Past
    BY <1>11, <1>13, <1>14, <2>1
  <2> QED BY <1>1, <1>4, <1>7, <2>1, <2>2, <2>3
<1>19. CASE ThreadsStart
  <2>1. ~disorder /\ Only("START_THREADS") /\ None'
    BY <1>19, StepsAlone
  <2>2. phase = "streaming" /\ Past
    BY <1>11, <1>13, <1>14, <2>1
  <2>3. Unused(decoders) = pointer.decoding + 1 /\ pointer.decoding + 1 \in Viewer
    BY <1>19, NextViewer DEF ThreadsStart, Ends
  <2> DEFINE u == pointer.decoding + 1
  <2>4. /\ decoders' = [decoders EXCEPT ![u] = "idle"] /\ renderers' = [renderers EXCEPT ![u] = "starting"]
        /\ pointer' = [pointer EXCEPT !.decoding = u, !.rendering = u]
        /\ phase' = phase /\ renderer_running'
    BY <1>19, <2>3 DEF ThreadsStart
  <2>5. u \in Viewer /\ u > 0 /\ u = pointer.decoding + 1
    BY <1>0, <2>3
  <2>6. pointer'.decoding = u
    BY <1>0, <2>4
  <2> HIDE DEF u
  <2>7. Live'
    BY <1>0, <2>4, <2>5, <2>6 DEF Live
  <2>8. ASSUME NEW i \in Viewer, i < u PROVE decoders'[i] = "joined" /\ renderers'[i] = "deleted"
    <3>1. i \in Nat /\ i # u /\ i > 0 /\ (i = pointer.decoding \/ i < pointer.decoding)
      BY <1>0, <2>5, <2>8 DEF Viewer
    <3>2. decoders[i] = "joined" /\ renderers[i] = "deleted"
      BY <1>8, <2>1, <2>2, <3>1 DEF Past, Finished
    <3> QED BY <1>0, <2>4, <3>1, <3>2
  <2> QED BY <1>5, <2>1, <2>2, <2>4, <2>6, <2>7, <2>8 DEF Finished
<1>20. ~CloseNothing /\ ~CloseHost
  <2>1. ASSUME CloseNothing \/ CloseHost PROVE FALSE
    <3>1. ~disorder /\ Only("CLOSE")
      BY <2>1, StepsAlone
    <3>2. state # "CLIENT"
      BY <2>1 DEF CloseNothing, CloseHost
    <3> QED BY <1>12, <1>13, <1>14, <3>1, <3>2 DEF Closing
  <2> QED BY <2>1
<1>21. ~EncoderJoined /\ ~GivesUp("JOIN_ENCODER")
  <2>1. ASSUME EncoderJoined \/ GivesUp("JOIN_ENCODER") PROVE FALSE
    <3>1. ~disorder /\ Only("JOIN_ENCODER")
      BY <1>14, <2>1, StepsAlone
    <3> QED BY <3>1, <1>14 DEF AtPhase, Only
  <2> QED BY <2>1
<1>22. CASE CloseClient
  <2>1. ~disorder /\ Only("CLOSE") /\ Only("JOIN_DECODER")'
    BY <1>22, StepsAlone
  <2>2. UNCHANGED <<phase, pointer, decoders, renderers, renderer_running>>
    BY <1>22 DEF CloseClient
  <2>3. phase = "idle" /\ (Live \/ Past)
    BY <1>12, <1>13, <1>14, <2>1 DEF Closing, Staged
  <2> QED BY <1>1, <1>6, <1>7, <2>1, <2>2, <2>3
<1>23. ASSUME GivesUp("JOIN_DECODER"),
              Status(decoders, pointer.decoding) \in {"wild", "joined", "deleted"}
       PROVE  Staged'
  <2>1. ~disorder /\ Only("JOIN_DECODER") /\ None'
    BY <1>14, <1>23, StepsAlone
  <2>2. UNCHANGED <<phase, pointer, decoders, renderers, renderer_running>>
    BY <1>23 DEF GivesUp
  <2>3. phase = "idle" /\ (Live \/ Past)
    BY <1>12, <1>13, <1>14, <2>1 DEF Closing, Staged
  <2>4. ~Live
    BY <1>23 DEF Live, Status
  <2> QED BY <1>1, <1>3, <1>7, <2>1, <2>2, <2>3, <2>4
<1>24. ~(GivesUp("JOIN_RENDERER") /\ Status(renderers, pointer.rendering) \in {"wild", "joined", "deleted"})
  <2>1. ASSUME GivesUp("JOIN_RENDERER"),
               Status(renderers, pointer.rendering) \in {"wild", "joined", "deleted"}
        PROVE  FALSE
    <3>1. ~disorder /\ Only("JOIN_RENDERER")
      BY <1>14, <2>1, StepsAlone
    <3>2. pointer.decoding > 0 /\ renderers[pointer.decoding] \in {"starting", "idle", "ended"}
      BY <1>13, <1>14, <3>1 DEF Staged
    <3> QED BY <1>0, <2>1, <3>2 DEF Status
  <2> QED BY <2>1
<1>25. CASE DecoderJoined
  <2>1. ~disorder /\ Only("JOIN_DECODER") /\ Only("JOIN_RENDERER")'
    BY <1>25, StepsAlone
  <2>2. /\ UNCHANGED <<phase, pointer, renderers>> /\ Status(decoders, pointer.decoding) = "ended"
        /\ decoders' = [decoders EXCEPT ![pointer.decoding] = "joined"]
    BY <1>25 DEF DecoderJoined
  <2>3. phase = "idle" /\ (Live \/ Past)
    BY <1>12, <1>13, <1>14, <2>1 DEF Closing, Staged
  <2>4. pointer.decoding > 0 /\ decoders[pointer.decoding] = "ended"
    BY <1>0, <2>2 DEF Status
  <2>5. Live
    BY <2>3, <2>4 DEF Past
  <2>6. decoders'[pointer.decoding] = "joined" /\ Finished'
    BY <1>0, <1>8, <2>1, <2>2, <2>4 DEF Finished
  <2> QED BY <2>1, <2>2, <2>3, <2>5, <2>6 DEF Live, Staged, Only, Step, Closing, Finished
<1>26. CASE RendererJoined
  <2>1. ~disorder /\ Only("JOIN_RENDERER") /\ Only("SHUTDOWN")'
    BY <1>26, StepsAlone
  <2>2. /\ UNCHANGED <<phase, pointer, decoders>>
        /\ renderers' = [renderers EXCEPT ![pointer.decoding] = "joined"]
    BY <1>0, <1>26 DEF RendererJoined
  <2>3. phase = "idle"
    BY <1>12, <1>13, <1>14, <2>1 DEF Closing
  <2>4. pointer.decoding > 0 /\ decoders[pointer.decoding] = "joined"
    BY <1>13, <1>14, <2>1 DEF Staged
  <2>5. renderers'[pointer.decoding] = "joined" /\ Finished'
    BY <1>0, <1>8, <2>1, <2>2, <2>4 DEF Finished
  <2> QED BY <2>1, <2>2, <2>3, <2>4, <2>5 DEF Staged, Only, Step, Closing, Finished
<1>27. CASE Shutdown
  <2>1. ~disorder /\ Only("SHUTDOWN") /\ None'
    BY <1>27, StepsAlone
  <2>2. /\ UNCHANGED <<phase, pointer, decoders>>
        /\ renderers' = [renderers EXCEPT ![pointer.decoding] = "deleted"]
    BY <1>0, <1>27 DEF Shutdown
  <2>3. phase = "idle"
    BY <1>12, <1>13, <1>14, <2>1 DEF Closing
  <2>4. pointer.decoding > 0 /\ decoders[pointer.decoding] = "joined"
    BY <1>13, <1>14, <2>1 DEF Staged
  <2>5. Past' /\ Finished'
    BY <1>0, <1>8, <2>1, <2>2, <2>4 DEF Finished, Past
  <2> QED BY <1>3, <2>1, <2>2, <2>3, <2>5
<1>28. ASSUME NEW i \in Viewer, DecoderEnds(i) \/ Dequeue(i) \/ Decoded(i) PROVE Staged'
  <2>1. /\ UNCHANGED <<tasks, disorder, phase, pointer, renderers, renderer_running>>
        /\ decoders[i] \in {"idle", "busy"}
        /\ \E w \in {"idle", "busy", "ended"} : decoders' = [decoders EXCEPT ![i] = w]
    BY <1>28 DEF DecoderEnds, Dequeue, Decoded
  <2>2. i = pointer.decoding /\ pointer.decoding > 0
    BY <2>1, LastViewer DEF Unfinished
  <2>3. ~Past /\ decoders[pointer.decoding] # "joined"
    BY <2>1, <2>2 DEF Past
  <2>4. Finished' /\ (Live => Live')
    BY <1>0, <1>8, <2>1, <2>2 DEF Finished, Live
  <2> QED BY <2>1, <2>3, <2>4 DEF Staged, Finished
<1>29. ASSUME NEW i \in Viewer, CreateWindow(i) PROVE Staged'
  <2>1. /\ UNCHANGED <<tasks, disorder, phase, pointer, decoders, renderer_running>>
        /\ renderers[i] = "starting"
        /\ renderers' = [renderers EXCEPT ![i] = "idle"]
    BY <1>29 DEF CreateWindow
  <2>2. i = pointer.decoding /\ pointer.decoding > 0
    BY <2>1, LastViewer DEF Unfinished
  <2>3. ~Past /\ renderers[pointer.decoding] # "joined" /\ renderers'[pointer.decoding] = "idle"
    BY <1>0, <2>1, <2>2 DEF Past
  <2>4. Finished' /\ (Live => Live')
    BY <1>0, <1>8, <2>1, <2>2 DEF Finished, Live
  <2> QED BY <2>1, <2>3, <2>4 DEF Staged, Finished
<1>30. ASSUME NEW i \in Viewer, RendererEnds(i) PROVE Staged'
  <2>1. /\ UNCHANGED <<tasks, disorder, phase, pointer, decoders, renderer_running>>
        /\ renderers[i] = "idle" /\ ~renderer_running
        /\ renderers' = [renderers EXCEPT ![i] = "ended"]
    BY <1>30 DEF RendererEnds
  <2>2. i = pointer.decoding /\ pointer.decoding > 0
    BY <2>1, LastViewer DEF Unfinished
  <2>3. ~Past /\ ~Live /\ renderers[pointer.decoding] # "joined" /\ renderers'[pointer.decoding] = "ended"
    BY <1>0, <2>1, <2>2 DEF Past, Live
  <2>4. Finished'
    BY <1>0, <1>8, <2>1, <2>2 DEF Finished
  <2> QED BY <2>1, <2>3, <2>4 DEF Staged, Finished
<1>31. CASE Received(SessionStarting) \/ Received(SessionRequest)
  <2>1. ~disorder /\ None /\ (Only("STARTING")' \/ Only("REQUEST")')
    BY <1>31, StepsAlone
  <2>2. UNCHANGED <<pointer, decoders, renderers, renderer_running>> /\ phase = "idle" /\ phase' \in {"idle", "starting"}
    BY <1>31 DEF Received, SessionStarting, SessionRequest
  <2>3. Past
    BY <2>1, <2>2 DEF Staged, None, Closing, Step
  <2> QED BY <1>1, <1>3, <1>7, <1>14, <2>1, <2>2, <2>3
<1>32. CASE Received(VideoParams)
  <2>1. ~disorder /\ None /\ Only("PARAMS")'
    BY <1>32, StepsAlone
  <2>2. UNCHANGED <<pointer, decoders, renderers, renderer_running>> /\ phase = "starting" /\ phase' = "streaming"
    BY <1>32 DEF Received, VideoParams
  <2>3. Past
    BY <2>1, <2>2 DEF Staged
  <2> QED BY <1>1, <1>4, <1>7, <2>1, <2>2, <2>3
<1>33. CASE Received(SessionClose)
  <2>1. ~disorder /\ None /\ Only("CLOSE")'
    BY <1>33, StepsAlone
  <2>2. UNCHANGED <<pointer, decoders, renderers, renderer_running>> /\ phase # "idle" /\ phase' = "idle"
    BY <1>33 DEF Received, SessionClose
  <2>3. Live \/ Past
    BY <1>0, <1>14, <2>1, <2>2 DEF Staged, None
  <2> QED BY <1>1, <1>6, <1>7, <2>1, <2>2, <2>3
<1>34. CASE Received(handle_data)
  BY <1>2, <1>34 DEF Received, handle_data
<1>35. ~Received(EndSession)
  BY StepsAlone
<1>36. ASSUME NEW i \in Viewer, Render(i) PROVE Staged'
  BY <1>2, <1>36 DEF Render
<1>37. ASSUME NEW i \in Streamer, EncoderMoves(i) PROVE Staged'
  BY <1>2, <1>37 DEF EncoderMoves
<1>38. CASE UNCHANGED vars \/ Dies
  BY <1>2, <1>38 DEF vars, Dies
<1> QED BY <1>15, <1>16, <1>17, <1>18, <1>19, <1>20, <1>21, <1>22, <1>23, <1>24, <1>25, <1>26, <1>27, <1>28,
          <1>29, <1>30, <1>31, <1>32, <1>33, <1>34, <1>35, <1>36, <1>37, <1>38, NextSteps

\* While a decoder thread is at work the last threads are those of a session that
\* goes on.
LEMMA DecodingIsLive ==
    ASSUME Typed, Counted, AtPhase, Staged, ~disorder, NEW i \in Viewer, decoders[i] \in {"idle", "busy"}
    PROVE  i = pointer.decoding /\ Live
<1>1. i = pointer.decoding
  BY LastViewer DEF Unfinished
<1>2. ~Past /\ decoders[pointer.decoding] # "joined"
  BY <1>1, PointerTypes DEF Past, Viewer
<1>3. phase \in {"idle", "starting", "streaming"}
  BY PointerTypes
<1>4. \A k \in Step : tasks[k] \in Nat
  BY DEF Typed, TypeOK
<1> QED BY <1>1, <1>2, <1>3, <1>4 DEF Staged, Closing, Step

\* The decoder is there for the threads, and the window goes with its renderer.
LEMMA EquippedStep ==
    ASSUME Typed, Counted, Alone, AtPhase, Staged, Equipped, [Next]_vars
    PROVE  Equipped'
<1> SUFFICES ASSUME ~disorder' PROVE Equipped'
  BY DEF Equipped
<1> USE DEF flagVars, threadVars, codecVars, remoteVars
<1>0. /\ pointer \in [decoding : 0 .. MaxSessions, rendering : 0 .. MaxSessions, encoding : 0 .. MaxRequests]
      /\ pointer.decoding \in Nat /\ pointer.rendering = pointer.decoding
      /\ decoders \in [Viewer -> Thread] /\ renderers \in [Viewer -> Thread]
      /\ phase \in {"idle", "starting", "streaming"}
      /\ pointer.decoding > 0 => pointer.decoding \in Viewer
  BY PointerTypes
<1>1. "START_THREADS" \in Step
  BY DEF Step
<1>2. ASSUME ~disorder, tasks'["START_THREADS"] = tasks["START_THREADS"] \/ tasks'["START_THREADS"] = 0,
             UNCHANGED <<decoder, decoders, window, renderers>>, pointer'.decoding = pointer.decoding
      PROVE  Equipped'
  BY <1>2 DEF Equipped
<1>3. ASSUME ~disorder, None', UNCHANGED <<decoder, decoders, window, renderers>>,
             pointer'.decoding = pointer.decoding
      PROVE  Equipped'
  BY <1>1, <1>2, <1>3 DEF None
<1>4. CASE HandleStarting \/ CloseNothing \/ EncoderJoined
  <2>1. ~disorder /\ None'
    BY <1>4, StepsAlone
  <2> QED BY <1>3, <1>4, <2>1 DEF HandleStarting, CloseNothing, EncoderJoined
<1>5. CASE StartEncoder
  <2>1. ~disorder /\ None'
    BY <1>5, StepsAlone
  <2>2. UNCHANGED <<decoder, decoders, window, renderers>> /\ pointer'.decoding = pointer.decoding
    BY <1>0, <1>5 DEF StartEncoder
  <2> QED BY <1>3, <2>1, <2>2
<1>6. ASSUME NEW k \in Step, GivesUp(k) PROVE Equipped'
  <2>1. ~disorder /\ None'
    BY <1>6, StepsAlone
  <2> QED BY <1>3, <1>6, <2>1 DEF GivesUp
<1>7. CASE InitEncoder \/ CloseClient \/ CloseHost
  <2>1. ~disorder /\ (Only("START_ENCODER")' \/ Only("JOIN_DECODER")' \/ Only("JOIN_ENCODER")')
    BY <1>7, StepsAlone
  <2>2. tasks'["START_THREADS"] = 0
    BY <1>1, <2>1 DEF Only
  <2> QED BY <1>2, <1>7, <2>1, <2>2 DEF InitEncoder, CloseClient, CloseHost
<1>8. CASE \/ Received(SessionStarting) \/ Received(VideoParams) \/ Received(SessionClose)
           \/ Received(SessionRequest)
  <2>1. /\ ~disorder
        /\ Only("STARTING")' \/ Only("PARAMS")' \/ Only("CLOSE")' \/ Only("REQUEST")'
    BY <1>8, StepsAlone
  <2>2. tasks'["START_THREADS"] = 0
    BY <1>1, <2>1 DEF Only
  <2>3. UNCHANGED <<decoder, decoders, window, renderers, pointer>>
    BY <1>8 DEF Received
  <2> QED BY <1>2, <2>1, <2>2, <2>3
<1>9. CASE InitDecoder
  <2>1. ~disorder
    BY <1>9, StepsAlone
  <2>2. decoder' # "off" /\ UNCHANGED <<decoders, window, renderers, pointer>>
    BY <1>9 DEF InitDecoder
  <2> QED BY <2>1, <2>2 DEF Equipped
<1>10. CASE ThreadsStart
  <2>1. ~disorder /\ Only("START_THREADS") /\ None'
    BY <1>10, StepsAlone
  <2>2. tasks["START_THREADS"] > 0 /\ tasks'["START_THREADS"] = 0
    BY <1>1, <2>1 DEF Only, None
  <2>3. decoder # "off" /\ Past
    BY <2>1, <2>2 DEF Staged, Equipped
  <2>4. ~window
    BY <2>1, <2>3 DEF Equipped, Past
  <2>5. UNCHANGED <<decoder, window>>
    BY <1>10 DEF ThreadsStart
  <2> QED BY <2>2, <2>3, <2>4, <2>5 DEF Equipped
<1>11. CASE DecoderJoined
  <2>1. ~disorder /\ Only("JOIN_RENDERER")'
    BY <1>11, StepsAlone
  <2>2. tasks'["START_THREADS"] = 0
    BY <1>1, <2>1 DEF Only
  <2>3. /\ decoders' = [decoders EXCEPT ![pointer.decoding] = "joined"]
        /\ UNCHANGED <<decoder, window, renderers, pointer>>
    BY <1>11 DEF DecoderJoined
  <2>4. \A i \in Viewer : decoders'[i] \in {"idle", "busy"} => decoders[i] \in {"idle", "busy"}
    BY <1>0, <2>3
  <2> QED BY <2>1, <2>2, <2>3, <2>4 DEF Equipped
<1>12. CASE RendererJoined
  <2>1. ~disorder /\ Only("JOIN_RENDERER") /\ Only("SHUTDOWN")'
    BY <1>12, StepsAlone
  <2>2. tasks'["START_THREADS"] = 0
    BY <1>1, <2>1 DEF Only
  <2>3. /\ renderers' = [renderers EXCEPT ![pointer.decoding] = "joined"]
        /\ UNCHANGED <<decoder, window, decoders, pointer>>
    BY <1>0, <1>12 DEF RendererJoined
  <2>4. window' => pointer.decoding > 0 /\ renderers'[pointer.decoding] = "joined"
    BY <1>0, <2>1, <2>3 DEF Equipped
  <2> QED BY <2>1, <2>2, <2>3, <2>4 DEF Equipped
<1>13. CASE Shutdown
  <2>1. ~disorder /\ Only("SHUTDOWN") /\ None'
    BY <1>13, StepsAlone
  <2>2. tasks["SHUTDOWN"] > 0 /\ tasks'["START_THREADS"] = 0
    BY <1>1, <2>1 DEF Only, None, Step
  <2>3. ~Live
    BY <2>1, <2>2 DEF Staged, Live
  <2>4. \A i \in Viewer : decoders[i] \notin {"idle", "busy"}
    BY <2>1, <2>3, DecodingIsLive
  <2>5. window' = FALSE /\ decoders' = decoders
    BY <1>13 DEF Shutdown
  <2> QED BY <2>2, <2>4, <2>5 DEF Equipped
<1>14. ASSUME NEW i \in Viewer, DecoderEnds(i) \/ Dequeue(i) \/ Decoded(i) PROVE Equipped'
  <2>1. /\ UNCHANGED <<tasks, disorder, decoder, window, renderers, pointer>>
        /\ decoders[i] \in {"idle", "busy"}
        /\ \E w \in {"idle", "busy", "ended"} : decoders' = [decoders EXCEPT ![i] = w]
    BY <1>14 DEF DecoderEnds, Dequeue, Decoded
  <2>2. \A j \in Viewer : decoders'[j] \in {"idle", "busy"} => decoders[j] \in {"idle", "busy"}
    BY <1>0, <2>1
  <2> QED BY <2>1, <2>2 DEF Equipped
<1>15. ASSUME NEW i \in Viewer, CreateWindow(i) \/ RendererEnds(i) PROVE Equipped'
  <2>1. /\ UNCHANGED <<tasks, disorder, decoder, decoders, pointer>>
        /\ renderers[i] \in {"starting", "idle"}
        /\ \E w \in {"idle", "ended"} : renderers' = [renderers EXCEPT ![i] = w]
    BY <1>15 DEF CreateWindow, RendererEnds
  <2>2. i = pointer.decoding /\ pointer.decoding > 0
    BY <2>1, LastViewer DEF Unfinished
  <2>3. pointer'.decoding > 0 /\ renderers'[pointer'.decoding] \in {"idle", "ended"}
    BY <1>0, <2>1, <2>2
  <2> QED BY <2>1, <2>3 DEF Equipped
<1>16. CASE Received(handle_data)
  BY <1>2, <1>16 DEF Received, handle_data
<1>17. ASSUME NEW i \in Viewer, Render(i) PROVE Equipped'
  BY <1>2, <1>17 DEF Render
<1>18. ASSUME NEW i \in Streamer, EncoderMoves(i) PROVE Equipped'
  BY <1>2, <1>18 DEF EncoderMoves
<1>19. CASE UNCHANGED vars \/ Dies
  BY <1>2, <1>19 DEF vars, Dies
<1>20. ~Received(EndSession)
  BY StepsAlone
<1>21. {"JOIN_DECODER", "JOIN_RENDERER", "JOIN_ENCODER"} \subseteq Step
  BY DEF Step
<1> QED BY <1>4, <1>5, <1>6, <1>7, <1>8, <1>9, <1>10, <1>11, <1>12, <1>13, <1>14, <1>15, <1>16, <1>17,
          <1>18, <1>19, <1>20, <1>21, NextSteps

--------------------------------------------------------------------------------
(* Queues of frames *)

\* What is at each place of a queue whose head was taken.
LEMMA TailAt ==
    ASSUME NEW T, NEW s \in Seq(T), s # <<>>
    PROVE  /\ 1 \in DOMAIN s /\ Head(s) = s[1]
           /\ \A a \in DOMAIN Tail(s) : a \in Nat /\ a + 1 \in DOMAIN s /\ 1 < a + 1 /\ Tail(s)[a] = s[a + 1]
<1>1. Len(s) \in Nat /\ DOMAIN s = 1 .. Len(s)
  BY LenProperties
<1>2. Len(s) # 0
  BY EmptySeq
<1>3. /\ Tail(s) \in Seq(T) /\ Len(Tail(s)) = Len(s) - 1 /\ Head(s) = s[1]
      /\ \A a \in 1 .. Len(Tail(s)) : Tail(s)[a] = s[a + 1]
  BY <1>1, <1>2, HeadTailProperties
<1>4. DOMAIN Tail(s) = 1 .. Len(Tail(s))
  BY <1>3, LenProperties
<1> QED BY <1>1, <1>2, <1>3, <1>4

\* What is at each place of a queue to which something was added.
LEMMA AppendAt ==
    ASSUME NEW T, NEW s \in Seq(T), NEW x \in T
    PROVE  \A a \in DOMAIN Append(s, x) :
              /\ a \in Nat /\ Len(s) \in Nat
              /\ \/ a \in DOMAIN s /\ Append(s, x)[a] = s[a] /\ a <= Len(s)
                 \/ a = Len(s) + 1 /\ Append(s, x)[a] = x
<1>1. Len(s) \in Nat /\ DOMAIN s = 1 .. Len(s)
  BY LenProperties
<1>2. /\ Append(s, x) \in Seq(T) /\ Len(Append(s, x)) = Len(s) + 1
      /\ \A a \in 1 .. Len(s) : Append(s, x)[a] = s[a]
      /\ Append(s, x)[Len(s) + 1] = x
  BY AppendProperties
<1>3. DOMAIN Append(s, x) = 1 .. (Len(s) + 1)
  BY <1>2, LenProperties
<1>4. \A a \in 1 .. (Len(s) + 1) : a \in Nat /\ ((a \in 1 .. Len(s) /\ a <= Len(s)) \/ a = Len(s) + 1)
  BY <1>1
<1> QED BY <1>1, <1>2, <1>3, <1>4, Zenon

\* What is at each place of two queues one after the other.
LEMMA JoinAt ==
    ASSUME NEW T, NEW s \in Seq(T), NEW t \in Seq(T)
    PROVE  \A a \in DOMAIN (s \o t) :
              /\ a \in Nat /\ Len(s) \in Nat
              /\ \/ a \in DOMAIN s /\ (s \o t)[a] = s[a] /\ a <= Len(s)
                 \/ a > Len(s) /\ a - Len(s) \in DOMAIN t /\ (s \o t)[a] = t[a - Len(s)]
<1>1. /\ s \o t \in Seq(T)
      /\ Len(s) \in Nat /\ Len(t) \in Nat
      /\ Len(s \o t) = Len(s) + Len(t)
      /\ \A a \in 1 .. Len(s) : (s \o t)[a] = s[a]
      /\ \A b \in 1 .. Len(t) : (s \o t)[Len(s) + b] = t[b]
  BY ConcatAt
<1>2. DOMAIN s = 1 .. Len(s) /\ DOMAIN t = 1 .. Len(t)
  BY LenProperties
<1>3. DOMAIN (s \o t) = 1 .. (Len(s) + Len(t))
  BY <1>1, LenProperties
<1>4. ASSUME NEW a \in 1 .. (Len(s) + Len(t)), a > Len(s)
      PROVE  a - Len(s) \in 1 .. Len(t) /\ (s \o t)[a] = t[a - Len(s)]
  <2>1. a - Len(s) \in 1 .. Len(t) /\ Len(s) + (a - Len(s)) = a
    BY <1>1, <1>4
  <2>2. (s \o t)[Len(s) + (a - Len(s))] = t[a - Len(s)]
    BY <1>1, <2>1, Zenon
  <2> QED BY <2>1, <2>2
<1>5. ASSUME NEW a \in 1 .. (Len(s) + Len(t)), ~(a > Len(s))
      PROVE  a \in 1 .. Len(s) /\ a <= Len(s) /\ (s \o t)[a] = s[a]
  <2>1. a \in 1 .. Len(s) /\ a <= Len(s)
    BY <1>1, <1>5
  <2> QED BY <1>1, <2>1
<1>6. \A a \in 1 .. (Len(s) + Len(t)) : a \in Nat
  BY <1>1
<1> QED BY <1>1, <1>2, <1>3, <1>4, <1>5, <1>6, Zenon

\* Taking the head keeps a queue in order, and the head comes before the rest.
LEMMA RisingTail ==
    ASSUME NEW s \in Seq(Frame), s # <<>>, Rising(s)
    PROVE  Rising(Tail(s)) /\ \A y \in Entries(Tail(s)) : Head(s).n < y.n
<1>1. /\ 1 \in DOMAIN s /\ Head(s) = s[1]
      /\ \A a \in DOMAIN Tail(s) : a \in Nat /\ a + 1 \in DOMAIN s /\ 1 < a + 1 /\ Tail(s)[a] = s[a + 1]
  BY TailAt
<1>2. ASSUME NEW a \in DOMAIN Tail(s), NEW b \in DOMAIN Tail(s), a < b PROVE Tail(s)[a].n < Tail(s)[b].n
  <2>1. a + 1 \in DOMAIN s /\ b + 1 \in DOMAIN s /\ a + 1 < b + 1
    BY <1>1, <1>2
  <2>2. s[a + 1].n < s[b + 1].n
    BY <2>1 DEF Rising
  <2> QED BY <1>1, <2>2
<1>3. ASSUME NEW y \in Entries(Tail(s)) PROVE Head(s).n < y.n
  <2>1. PICK b \in DOMAIN Tail(s) : y = Tail(s)[b]
    BY DEF Entries
  <2>2. b + 1 \in DOMAIN s /\ 1 < b + 1 /\ y = s[b + 1]
    BY <1>1, <2>1
  <2> QED BY <1>1, <2>2 DEF Rising
<1> QED BY <1>2, <1>3 DEF Rising

\* Adding a later frame keeps a queue in order.
LEMMA RisingAppend ==
    ASSUME NEW s \in Seq(Frame), NEW x \in Frame, Rising(s), \A y \in Entries(s) : y.n < x.n
    PROVE  Rising(Append(s, x))
<1> DEFINE t == Append(s, x)
<1>1. \A a \in DOMAIN t :
         /\ a \in Nat /\ Len(s) \in Nat
         /\ \/ a \in DOMAIN s /\ t[a] = s[a] /\ a <= Len(s)
            \/ a = Len(s) + 1 /\ t[a] = x
  BY AppendAt
<1> HIDE DEF t
<1>2. ASSUME NEW a \in DOMAIN t, NEW b \in DOMAIN t, a < b PROVE t[a].n < t[b].n
  <2>1. a \in DOMAIN s /\ t[a] = s[a]
    BY <1>1, <1>2
  <2>2. CASE b \in DOMAIN s /\ t[b] = s[b]
    BY <1>2, <2>1, <2>2 DEF Rising
  <2>3. CASE t[b] = x
    BY <2>1, <2>3 DEF Entries
  <2> QED BY <1>1, <2>2, <2>3
<1>3. Rising(t)
  BY <1>2 DEF Rising
<1> QED BY <1>3 DEF t

\* Two queues in order, the one before the other, make one in order.
LEMMA RisingJoin ==
    ASSUME NEW s \in Seq(Frame), NEW t \in Seq(Frame), Rising(s), Rising(t), Before(s, t)
    PROVE  Rising(s \o t)
<1> DEFINE c == s \o t
<1>1. \A a \in DOMAIN c :
         /\ a \in Nat /\ Len(s) \in Nat
         /\ \/ a \in DOMAIN s /\ c[a] = s[a] /\ a <= Len(s)
            \/ a > Len(s) /\ a - Len(s) \in DOMAIN t /\ c[a] = t[a - Len(s)]
  BY JoinAt
<1> HIDE DEF c
<1>2. ASSUME NEW a \in DOMAIN c, NEW b \in DOMAIN c, a < b PROVE c[a].n < c[b].n
  <2>1. CASE b \in DOMAIN s /\ c[b] = s[b] /\ b <= Len(s)
    <3>1. a \in DOMAIN s /\ c[a] = s[a]
      BY <1>1, <1>2, <2>1
    <3> QED BY <1>2, <2>1, <3>1 DEF Rising
  <2>2. CASE b > Len(s) /\ b - Len(s) \in DOMAIN t /\ c[b] = t[b - Len(s)]
    <3>1. CASE a \in DOMAIN s /\ c[a] = s[a]
      <4>1. s[a] \in Entries(s) /\ t[b - Len(s)] \in Entries(t)
        BY <2>2, <3>1, Zenon DEF Entries
      <4>2. s[a].n < t[b - Len(s)].n
        BY <4>1 DEF Before
      <4> QED BY <2>2, <3>1, <4>2
    <3>2. CASE a > Len(s) /\ a - Len(s) \in DOMAIN t /\ c[a] = t[a - Len(s)]
      <4>1. a - Len(s) < b - Len(s)
        BY <1>1, <1>2
      <4> QED BY <2>2, <3>2, <4>1 DEF Rising
    <3> QED BY <1>1, <3>1, <3>2
  <2> QED BY <1>1, <2>1, <2>2
<1>3. Rising(c)
  BY <1>2 DEF Rising
<1> QED BY <1>3 DEF c

\* What is in a queue whose head was taken.
LEMMA TailEntries ==
    ASSUME NEW T, NEW s \in Seq(T), s # <<>>
    PROVE  Entries(Tail(s)) \subseteq Entries(s) /\ Head(s) \in Entries(s)
BY TailAt DEF Entries

\* What is in a queue to which something was added.
LEMMA AppendEntries ==
    ASSUME NEW T, NEW s \in Seq(T), NEW x \in T
    PROVE  Entries(Append(s, x)) \subseteq Entries(s) \cup {x}
BY AppendAt DEF Entries

\* What is in two queues one after the other.
LEMMA JoinEntries ==
    ASSUME NEW T, NEW s \in Seq(T), NEW t \in Seq(T)
    PROVE  Entries(s \o t) \subseteq Entries(s) \cup Entries(t)
BY JoinAt DEF Entries

\* What is in no queue, and in a queue of one.
LEMMA FewEntries == Entries(<<>>) = {} /\ \A x : Entries(<<x>>) = {x} /\ Rising(<<x>>) /\ Rising(<<>>)
<1>1. Entries(<<>>) = {}
  BY DEF Entries
<1>2. ASSUME NEW x PROVE Entries(<<x>>) = {x} /\ Rising(<<x>>)
  <2>1. DOMAIN <<x>> = {1} /\ <<x>>[1] = x
    OBVIOUS
  <2> QED BY <2>1 DEF Entries, Rising
<1>3. Rising(<<>>)
  BY DEF Rising
<1> QED BY <1>1, <1>2, <1>3

\* What is in a sequence is of its kind.
LEMMA EntriesTyped == ASSUME NEW T, NEW s \in Seq(T) PROVE Entries(s) \subseteq T
BY LenProperties, ElementOfSeq DEF Entries

\* The frames of a history.
LEMMA FramesTyped ==
    ASSUME NEW h \in Seq([by : Viewer, frame : Frame])
    PROVE  /\ FramesOf(h) \in Seq(Frame) /\ Len(FramesOf(h)) = Len(h)
           /\ \A a \in 1 .. Len(h) : FramesOf(h)[a] = h[a].frame
<1>1. Len(h) \in Nat /\ DOMAIN h = 1 .. Len(h) /\ \A a \in 1 .. Len(h) : h[a] \in [by : Viewer, frame : Frame]
  BY LenProperties, ElementOfSeq
<1>2. FramesOf(h) = [a \in 1 .. Len(h) |-> h[a].frame]
  BY <1>1 DEF FramesOf
<1> QED BY <1>1, <1>2

\* One frame more.
LEMMA FramesAppend ==
    ASSUME NEW h \in Seq([by : Viewer, frame : Frame]), NEW r \in [by : Viewer, frame : Frame]
    PROVE  FramesOf(Append(h, r)) = Append(FramesOf(h), r.frame)
<1> DEFINE g == FramesOf(h)
           p == Append(h, r)
<1>1. Len(h) \in Nat
  BY LenProperties
<1>2. g \in Seq(Frame) /\ Len(g) = Len(h) /\ \A a \in 1 .. Len(h) : g[a] = h[a].frame
  BY FramesTyped
<1>3. /\ p \in Seq([by : Viewer, frame : Frame]) /\ Len(p) = Len(h) + 1
      /\ \A a \in 1 .. Len(h) : p[a] = h[a]
      /\ p[Len(h) + 1] = r
  BY AppendProperties
<1>4. DOMAIN p = 1 .. (Len(h) + 1)
  BY <1>3, LenProperties
<1> HIDE DEF g, p
<1>5. FramesOf(p) = [a \in 1 .. (Len(h) + 1) |-> p[a].frame]
  BY <1>4 DEF FramesOf
<1>6. Append(g, r.frame) = [a \in 1 .. (Len(h) + 1) |-> IF a = Len(h) + 1 THEN r.frame ELSE g[a]]
  BY <1>1, <1>2
<1>7. \A a \in 1 .. (Len(h) + 1) : p[a].frame = IF a = Len(h) + 1 THEN r.frame ELSE g[a]
  BY <1>1, <1>2, <1>3
<1>8. FramesOf(p) = Append(g, r.frame)
  BY <1>5, <1>6, <1>7
<1> QED BY <1>8 DEF g, p

--------------------------------------------------------------------------------
(* Frames of the session they are shown in *)

\* A decoder thread that was told to end is never told to go on.
LEMMA OnceStep ==
    ASSUME Typed, Counted, Alone, AtPhase, Staged, ~disorder => Once, [Next]_vars, ~disorder'
    PROVE  Once'
<1> USE DEF flagVars, remoteVars
<1>0. "CLOSE" \in Step /\ "CLOSE" \in Closing /\ sessions \in Nat
  BY DEF Step, Closing, Typed
<1>1. ASSUME ~disorder, UNCHANGED <<decoder_running, sessions, phase>>,
             tasks'["CLOSE"] = tasks["CLOSE"] \/ tasks["CLOSE"] = 0
      PROVE  Once'
  BY <1>1 DEF Once
<1>2. ASSUME NEW k \in Step \ {"CLOSE"}, Only(k) PROVE tasks["CLOSE"] = 0
  BY <1>0, <1>2 DEF Only
<1>3. {"STARTING", "REQUEST", "START_ENCODER", "PARAMS", "START_THREADS", "CLOSE",
       "JOIN_DECODER", "JOIN_RENDERER", "SHUTDOWN", "JOIN_ENCODER"} \subseteq Step
  BY DEF Step
<1>4. CASE HandleStarting \/ StartEncoder \/ ThreadsStart \/ Shutdown \/ EncoderJoined
  <2>1. /\ ~disorder
        /\ \/ Only("STARTING") \/ Only("START_ENCODER") \/ Only("START_THREADS")
           \/ Only("SHUTDOWN") \/ Only("JOIN_ENCODER")
    BY <1>4, StepsAlone
  <2>2. UNCHANGED <<decoder_running, sessions, phase>>
    BY <1>4 DEF HandleStarting, StartEncoder, ThreadsStart, Shutdown, EncoderJoined
  <2> QED BY <1>1, <1>2, <1>3, <2>1, <2>2
<1>5. ASSUME NEW k \in Step \ {"CLOSE"}, GivesUp(k) PROVE Once'
  <2>1. ~disorder /\ Only(k)
    BY <1>5, StepsAlone
  <2> QED BY <1>1, <1>2, <1>5, <2>1 DEF GivesUp
<1>6. CASE InitEncoder \/ InitDecoder \/ DecoderJoined \/ RendererJoined
  <2>1. ~disorder /\ (Only("REQUEST") \/ Only("PARAMS") \/ Only("JOIN_DECODER") \/ Only("JOIN_RENDERER"))
    BY <1>6, StepsAlone
  <2>2. UNCHANGED <<decoder_running, sessions, phase>>
    BY <1>6 DEF InitEncoder, InitDecoder, DecoderJoined, RendererJoined
  <2> QED BY <1>1, <1>2, <1>3, <2>1, <2>2
<1>7. ~CloseNothing /\ ~CloseHost
  <2>1. ASSUME CloseNothing \/ CloseHost PROVE FALSE
    <3>1. ~disorder /\ Only("CLOSE")
      BY <2>1, StepsAlone
    <3>2. state # "CLIENT"
      BY <2>1 DEF CloseNothing, CloseHost
    <3>3. tasks["CLOSE"] > 0
      BY <1>0, <3>1 DEF Only
    <3> QED BY <1>0, <3>1, <3>2, <3>3 DEF AtPhase
  <2> QED BY <2>1
<1>8. CASE CloseClient
  BY <1>8 DEF CloseClient, Once
<1>9. CASE Received(SessionStarting)
  <2>1. ~disorder /\ None
    BY <1>9, StepsAlone
  <2>2. phase = "idle" /\ phase' = "starting" /\ sessions' = sessions + 1 /\ decoder_running' = decoder_running
    BY <1>9 DEF Received, SessionStarting
  <2>3. tasks["CLOSE"] = 0
    BY <1>0, <2>1 DEF None
  <2> QED BY <1>0, <2>1, <2>2, <2>3 DEF Once
<1>10. CASE Received(VideoParams)
  <2>1. ~disorder
    BY <1>10, StepsAlone
  <2>2. phase' = "streaming" /\ sessions' = sessions /\ decoder_running' = decoder_running
    BY <1>10 DEF Received, VideoParams
  <2> QED BY <2>1, <2>2 DEF Once
<1>11. CASE Received(SessionClose)
  <2>1. ~disorder /\ Only("CLOSE")'
    BY <1>11, StepsAlone
  <2>2. sessions' = sessions /\ decoder_running' = decoder_running
    BY <1>11 DEF Received, SessionClose
  <2>3. tasks'["CLOSE"] > 0
    BY <1>0, <2>1 DEF Only
  <2> QED BY <2>1, <2>2, <2>3 DEF Once
<1>12. CASE Received(SessionRequest)
  <2>1. ~disorder /\ None
    BY <1>12, StepsAlone
  <2>2. tasks["CLOSE"] = 0
    BY <1>0, <2>1 DEF None
  <2> QED BY <1>1, <1>12, <2>1, <2>2 DEF Received, SessionRequest
<1>13. CASE Received(handle_data)
  BY <1>1, <1>13 DEF Received, handle_data
<1>14. ~Received(EndSession)
  BY StepsAlone
<1>15. ASSUME NEW i \in Viewer, \/ DecoderEnds(i) \/ Dequeue(i) \/ Decoded(i)
                                \/ CreateWindow(i) \/ Render(i) \/ RendererEnds(i)
       PROVE  Once'
  BY <1>1, <1>15 DEF DecoderEnds, Dequeue, Decoded, CreateWindow, Render, RendererEnds
<1>16. ASSUME NEW i \in Streamer, EncoderMoves(i) PROVE Once'
  BY <1>1, <1>16 DEF EncoderMoves
<1>17. CASE UNCHANGED vars \/ Dies
  BY <1>1, <1>17 DEF vars, Dies
<1> QED BY <1>3, <1>4, <1>5, <1>6, <1>7, <1>8, <1>9, <1>10, <1>11, <1>12, <1>13, <1>14, <1>15, <1>16, <1>17,
          NextSteps

\* The frames that a renderer shows are those of its session.
LEMMA OwnStep ==
    ASSUME Typed, Counted, Alone, AtPhase, Staged, ~disorder => Once /\ Own, [Next]_vars, ~disorder'
    PROVE  Own'
<1> USE DEF flagVars, threadVars, bufferVars, remoteVars
<1>0. /\ pointer \in [decoding : 0 .. MaxSessions, rendering : 0 .. MaxSessions, encoding : 0 .. MaxRequests]
      /\ pointer.decoding \in Nat /\ pointer.rendering = pointer.decoding
      /\ decoders \in [Viewer -> Thread] /\ renderers \in [Viewer -> Thread]
      /\ phase \in {"idle", "starting", "streaming"}
      /\ pointer.decoding > 0 => pointer.decoding \in Viewer
  BY PointerTypes
<1>1. Frameful /\ sessions \in Nat /\ params \in Nat /\ params <= sessions
  BY TypedPieces DEF Typed, Counted
<1>2. pointer.decoding <= params
  <2>1. /\ pointer.decoding + tasks["PARAMS"] + tasks["START_THREADS"] = params
        /\ tasks["PARAMS"] \in Nat /\ tasks["START_THREADS"] \in Nat
    BY DEF Counted, Typed, TypeOK, Step
  <2> QED BY ONLY <1>0, <1>1, <2>1
<1>3. ASSUME ~disorder, UNCHANGED <<params, encoded_buffer, held, decode_buffer, renderers, shown>>,
             pointer'.decoding = pointer.decoding
      PROVE  Own'
  BY <1>3 DEF Own
<1>4. CASE StartEncoder
  <2>1. ~disorder
    BY <1>4, StepsAlone
  <2>2. /\ UNCHANGED <<params, encoded_buffer, held, decode_buffer, renderers, shown>>
        /\ pointer'.decoding = pointer.decoding
    BY <1>0, <1>4 DEF StartEncoder
  <2> QED BY <1>3, <2>1, <2>2
<1>5. CASE \/ UNCHANGED vars \/ Dies \/ HandleStarting \/ InitEncoder \/ InitDecoder
           \/ CloseNothing \/ CloseClient \/ CloseHost
           \/ GivesUp("JOIN_DECODER") \/ GivesUp("JOIN_RENDERER") \/ GivesUp("JOIN_ENCODER")
           \/ DecoderJoined \/ EncoderJoined
  <2>1. UNCHANGED <<disorder, params, encoded_buffer, held, decode_buffer, renderers, shown, pointer>>
    BY <1>5 DEF vars, Dies, HandleStarting, InitEncoder, InitDecoder, CloseNothing, CloseClient, CloseHost,
          GivesUp, DecoderJoined, EncoderJoined
  <2> QED BY <1>3, <2>1
<1>6. CASE Received(SessionStarting) \/ Received(SessionClose) \/ Received(SessionRequest)
  <2>1. ~disorder
    BY <1>6, StepsAlone
  <2>2. UNCHANGED <<params, encoded_buffer, held, decode_buffer, renderers, shown, pointer>>
    BY <1>6 DEF Received, SessionStarting, SessionClose, SessionRequest
  <2> QED BY <1>3, <2>1, <2>2
<1>7. CASE Received(VideoParams)
  <2>1. ~disorder
    BY <1>7, StepsAlone
  <2>2. UNCHANGED <<encoded_buffer, held, decode_buffer, renderers, shown, pointer>> /\ params' = params + 1
    BY <1>7 DEF Received, VideoParams
  <2>3. 1 .. params \subseteq 1 .. params'
    BY <1>1, <2>2
  <2> QED BY <2>1, <2>2, <2>3 DEF Own
<1>8. CASE Received(handle_data)
  <2>1. /\ UNCHANGED <<disorder, params, held, decode_buffer, renderers, shown, pointer>>
        /\ phase = "streaming" /\ frames < MaxFrames /\ frames' = frames + 1
        /\ encoded_buffer' = Append(encoded_buffer, [of |-> params, n |-> frames'])
    BY <1>8 DEF Received, handle_data
  <2> DEFINE x == [of |-> params, n |-> frames']
  <2>2. x \in Frame /\ x.of = params
    <3>1. params \in 0 .. MaxSessions /\ frames' \in 1 .. MaxFrames
      BY <2>1, BoundAssumption DEF Typed, Counted
    <3> QED BY <3>1 DEF Frame
  <2>3. params \in 1 .. params
    <3>1. tasks["PARAMS"] \in Nat /\ tasks["START_THREADS"] \in Nat
      BY DEF Typed, TypeOK, Step
    <3>2. pointer.decoding + tasks["PARAMS"] + tasks["START_THREADS"] = params
      BY DEF Counted
    <3>3. tasks["PARAMS"] > 0 \/ tasks["START_THREADS"] > 0 \/ pointer.decoding > 0
      BY <2>1, <3>1 DEF Staged, Live
    <3> QED BY ONLY <1>0, <1>1, <3>1, <3>2, <3>3
  <2>4. encoded_buffer' = Append(encoded_buffer, x)
    BY <2>1
  <2> HIDE DEF x
  <2>5. Entries(encoded_buffer') \subseteq Entries(encoded_buffer) \cup {x}
    BY <1>1, <2>2, <2>4, AppendEntries DEF Frameful
  <2>6. \A y \in Entries(encoded_buffer') : y.of \in 1 .. params
    BY <2>1, <2>2, <2>3, <2>5 DEF Own
  <2> QED BY <2>1, <2>6 DEF Own
<1>9. CASE ThreadsStart
  <2>1. ~disorder /\ Only("START_THREADS")
    BY <1>9, StepsAlone
  <2>2. Past
    BY <2>1 DEF Staged, Only, Step
  <2>3. decode_buffer = <<>>
    BY <2>1, <2>2 DEF Own, Past
  <2>4. UNCHANGED <<params, encoded_buffer, held, decode_buffer, shown>>
    BY <1>9 DEF ThreadsStart
  <2> QED BY <2>1, <2>3, <2>4, FewEntries DEF Own
<1>10. CASE RendererJoined
  <2>1. ~disorder
    BY <1>10, StepsAlone
  <2>2. /\ UNCHANGED <<params, encoded_buffer, held, decode_buffer, shown, pointer>>
        /\ renderers' = [renderers EXCEPT ![pointer.decoding] = "joined"]
    BY <1>0, <1>10 DEF RendererJoined
  <2>3. decode_buffer' # <<>> => pointer.decoding > 0 /\ renderers'[pointer.decoding] # "deleted"
    BY <1>0, <2>1, <2>2 DEF Own
  <2> QED BY <2>1, <2>2, <2>3 DEF Own
<1>11. CASE Shutdown
  <2>1. ~disorder
    BY <1>11, StepsAlone
  <2>2. UNCHANGED <<params, encoded_buffer, held, shown>> /\ decode_buffer' = <<>>
    BY <1>11 DEF Shutdown
  <2> QED BY <2>1, <2>2, FewEntries DEF Own
<1>12. ASSUME NEW i \in Viewer, DecoderEnds(i) PROVE Own'
  BY <1>3, <1>12 DEF DecoderEnds
<1>13. ASSUME NEW i \in Viewer, Dequeue(i) PROVE Own'
  <2>1. /\ UNCHANGED <<disorder, params, decode_buffer, shown, pointer, renderers>>
        /\ decoders[i] = "idle" /\ decoder_running /\ encoded_buffer # <<>>
        /\ encoded_buffer' = Tail(encoded_buffer)
        /\ held' = [held EXCEPT ![i] = <<Head(encoded_buffer)>>]
    BY <1>13 DEF Dequeue
  <2>2. Entries(encoded_buffer') \subseteq Entries(encoded_buffer) /\ Head(encoded_buffer) \in Entries(encoded_buffer)
    BY <1>1, <2>1, TailEntries DEF Frameful
  <2>3. i = pointer.decoding /\ i > 0 /\ i \in Nat
    BY <1>0, <2>1, LastViewer DEF Unfinished
  <2>4. Head(encoded_buffer).of \in 1 .. params
    BY <2>1, <2>2 DEF Own
  <2>5. sessions <= 1
    BY <2>1 DEF Once
  <2>6. Head(encoded_buffer).of = i
    BY ONLY <1>1, <1>2, <2>3, <2>4, <2>5
  <2>7. ASSUME NEW j \in Viewer, NEW y \in Entries(held'[j]) PROVE y.of = j
    <3>1. CASE j = i
      <4>1. held'[j] = <<Head(encoded_buffer)>>
        BY <1>1, <2>1, <3>1 DEF Frameful
      <4>2. y = Head(encoded_buffer)
        BY <2>7, <4>1, FewEntries
      <4> QED BY <2>6, <3>1, <4>2
    <3>2. CASE j # i
      <4>1. held'[j] = held[j]
        BY <1>1, <2>1, <3>2 DEF Frameful
      <4> QED BY <2>1, <2>7, <4>1 DEF Own
    <3> QED BY <3>1, <3>2
  <2>8. \A y \in Entries(encoded_buffer') : y.of \in 1 .. params
    BY <2>1, <2>2 DEF Own
  <2> QED BY <2>1, <2>7, <2>8 DEF Own
<1>14. ASSUME NEW i \in Viewer, Decoded(i) PROVE Own'
  <2>1. /\ UNCHANGED <<disorder, params, encoded_buffer, shown, pointer, renderers>>
        /\ decoders[i] = "busy"
        /\ decode_buffer' \in {decode_buffer \o held[i], decode_buffer}
        /\ held' = [held EXCEPT ![i] = <<>>]
    BY <1>14 DEF Decoded
  <2>2. i = pointer.decoding /\ Live
    BY <2>1, DecodingIsLive
  <2>3. decode_buffer \in Seq(Frame) /\ held[i] \in Seq(Frame)
    BY <1>1 DEF Frameful
  <2>4. Entries(decode_buffer \o held[i]) \subseteq Entries(decode_buffer) \cup Entries(held[i])
    BY <2>3, JoinEntries
  <2>5. Entries(decode_buffer') \subseteq Entries(decode_buffer) \cup Entries(held[i])
    BY <2>1, <2>4
  <2>6. \A y \in Entries(decode_buffer') : y.of = pointer.decoding
    BY <2>1, <2>2, <2>5 DEF Own
  <2>7. ASSUME NEW j \in Viewer, NEW y \in Entries(held'[j]) PROVE y.of = j
    <3>1. j # i
      <4>1. held'[i] = <<>>
        BY <1>1, <2>1 DEF Frameful
      <4> QED BY <2>7, <4>1, FewEntries
    <3>2. held'[j] = held[j]
      BY <1>1, <2>1, <3>1 DEF Frameful
    <3> QED BY <2>1, <2>7, <3>2 DEF Own
  <2>8. pointer.decoding > 0 /\ renderers[pointer.decoding] # "deleted"
    BY <2>2 DEF Live
  <2> QED BY <2>1, <2>6, <2>7, <2>8 DEF Own
<1>15. ASSUME NEW i \in Viewer, CreateWindow(i) \/ RendererEnds(i) PROVE Own'
  <2>1. /\ UNCHANGED <<disorder, params, encoded_buffer, held, decode_buffer, shown, pointer>>
        /\ \E w \in {"idle", "ended"} : renderers' = [renderers EXCEPT ![i] = w]
    BY <1>15 DEF CreateWindow, RendererEnds
  <2>2. decode_buffer' # <<>> => pointer.decoding > 0 /\ renderers'[pointer.decoding] # "deleted"
    BY <1>0, <2>1 DEF Own
  <2> QED BY <2>1, <2>2 DEF Own
<1>16. ASSUME NEW i \in Viewer, Render(i) PROVE Own'
  <2>1. /\ UNCHANGED <<disorder, params, encoded_buffer, held, renderers, pointer>>
        /\ renderers[i] = "idle" /\ decode_buffer # <<>> /\ decode_buffer' = Tail(decode_buffer)
        /\ shown' = Append(shown, [by |-> i, frame |-> Head(decode_buffer)])
    BY <1>16 DEF Render
  <2>2. Entries(decode_buffer') \subseteq Entries(decode_buffer) /\ Head(decode_buffer) \in Entries(decode_buffer)
    BY <1>1, <2>1, TailEntries DEF Frameful
  <2>3. i = pointer.decoding
    BY <2>1, LastViewer DEF Unfinished
  <2>4. Head(decode_buffer).of = i /\ Head(decode_buffer) \in Frame
    BY <1>1, <2>1, <2>2, <2>3, EntriesTyped DEF Own, Frameful
  <2> DEFINE r == [by |-> i, frame |-> Head(decode_buffer)]
             H == [by : Viewer, frame : Frame]
  <2>5. r \in H /\ shown \in Seq(H) /\ shown' = Append(shown, r) /\ r.by = r.frame.of
    BY <1>1, <2>1, <2>4 DEF Frameful
  <2> HIDE DEF r, H
  <2>6. Entries(shown') \subseteq Entries(shown) \cup {r}
    BY <2>5, AppendEntries
  <2>7. \A q \in Entries(shown') : q.by = q.frame.of
    BY <2>1, <2>5, <2>6 DEF Own
  <2>8. \A y \in Entries(decode_buffer') : y.of = pointer.decoding
    BY <2>1, <2>2 DEF Own
  <2>9. pointer.decoding > 0 /\ renderers[pointer.decoding] # "deleted"
    BY <2>1 DEF Own
  <2> QED BY <2>1, <2>7, <2>8, <2>9 DEF Own
<1>17. ASSUME NEW i \in Streamer, EncoderMoves(i) PROVE Own'
  BY <1>3, <1>17 DEF EncoderMoves
<1>18. ~Received(EndSession)
  BY StepsAlone
<1> QED BY <1>4, <1>5, <1>6, <1>7, <1>8, <1>9, <1>10, <1>11, <1>12, <1>13, <1>14, <1>15, <1>16, <1>17, <1>18,
          NextSteps

\* Frames keep the order in which they were received on the way to the window.
LEMMA OrderedStep ==
    ASSUME Typed, Counted, Alone, AtPhase, Staged, Ordered, [Next]_vars
    PROVE  Ordered'
<1> SUFFICES ASSUME ~disorder' PROVE Ordered'
  BY DEF Ordered
<1> USE DEF threadVars, bufferVars, remoteVars
<1> DEFINE S == FramesOf(shown)
           D == decode_buffer
           E == encoded_buffer
           Middle(i) == /\ Rising(held[i])
                        /\ Before(S, held[i]) /\ Before(D, held[i]) /\ Before(held[i], E)
                        /\ UpTo(held[i], frames)
           Ends3 == /\ Rising(S) /\ Rising(D) /\ Rising(E)
                    /\ Before(S, D) /\ Before(S, E) /\ Before(D, E)
                    /\ UpTo(S, frames) /\ UpTo(D, frames) /\ UpTo(E, frames)
<1>1. /\ D \in Seq(Frame) /\ E \in Seq(Frame)
      /\ held \in [Viewer -> Seq(Frame)] /\ \A i \in Viewer : held[i] \in Seq(Frame)
  BY DEF Typed, TypeOK
<1>2. /\ shown \in Seq([by : Viewer, frame : Frame])
      /\ S \in Seq(Frame)
      /\ \A r \in [by : Viewer, frame : Frame] : FramesOf(Append(shown, r)) = Append(S, r.frame)
  BY FramesTyped, FramesAppend DEF Typed
<1>3. \A x \in Frame : x.n \in Nat
  BY BoundAssumption DEF Frame
<1>4. ~disorder => Ends3 /\ \A i \in Viewer : Middle(i)
  BY DEF Ordered
<1>5. ASSUME Ends3', \A i \in Viewer : Middle(i)' PROVE Ordered'
  BY <1>5 DEF Ordered
<1>6. ASSUME ~disorder, UNCHANGED <<encoded_buffer, held, decode_buffer, shown, frames>> PROVE Ordered'
  BY <1>6 DEF Ordered
<1>7. CASE Shutdown
  <2>1. ~disorder /\ UNCHANGED <<encoded_buffer, held, shown, frames>> /\ decode_buffer' = <<>>
    BY <1>7 DEF Shutdown
  <2>2. Entries(D') = {} /\ Rising(D')
    BY <2>1, FewEntries
  <2>3. Ends3'
    BY <1>4, <2>1, <2>2 DEF Before, UpTo
  <2>4. \A i \in Viewer : Middle(i)'
    BY <1>4, <2>1, <2>2 DEF Before, UpTo
  <2> QED BY <1>5, <2>3, <2>4
<1>8. ASSUME NEW i \in Viewer, Dequeue(i) PROVE Ordered'
  <2>1. /\ ~disorder /\ UNCHANGED <<decode_buffer, shown, frames>> /\ E # <<>> /\ E' = Tail(E)
        /\ held' = [held EXCEPT ![i] = <<Head(E)>>]
    BY <1>8 DEF Dequeue
  <2>2. Entries(E') \subseteq Entries(E) /\ Head(E) \in Entries(E)
    BY <1>1, <2>1, TailEntries
  <2>3. Rising(E') /\ \A y \in Entries(E') : Head(E).n < y.n
    BY <1>1, <1>4, <2>1, RisingTail
  <2>4. held'[i] = <<Head(E)>> /\ \A j \in Viewer : j # i => held'[j] = held[j]
    BY <1>1, <2>1
  <2>5. Entries(held'[i]) = {Head(E)} /\ Rising(held'[i])
    BY <2>4, FewEntries
  <2>6. UNCHANGED <<S, D, frames>>
    BY <2>1
  <2>7. ~disorder => Ends3 /\ \A j \in Viewer : Middle(j)
    BY <1>4
  <2> HIDE DEF S, D, E
  <2>8. Ends3'
    BY <2>1, <2>2, <2>3, <2>6, <2>7 DEF Before, UpTo
  <2>9. Middle(i)'
    <3>1. /\ Before(S, E) /\ Before(D, E) /\ UpTo(E, frames)
      BY <2>1, <2>7
    <3>2. Before(S', held'[i]) /\ Before(D', held'[i]) /\ UpTo(held'[i], frames')
      BY <2>2, <2>5, <2>6, <3>1 DEF Before, UpTo
    <3>3. Before(held'[i], E')
      BY <2>3, <2>5 DEF Before
    <3> QED BY <2>5, <3>2, <3>3
  <2>10. ASSUME NEW j \in Viewer, j # i PROVE Middle(j)'
    <3>1. held'[j] = held[j] /\ Middle(j)
      BY <2>1, <2>4, <2>7, <2>10
    <3>2. Before(held[j], E')
      BY <2>2, <3>1 DEF Before
    <3> QED BY <2>6, <3>1, <3>2
  <2> QED BY <1>5, <2>8, <2>9, <2>10
<1>9. ASSUME NEW i \in Viewer, Decoded(i) PROVE Ordered'
  <2>1. /\ ~disorder /\ UNCHANGED <<encoded_buffer, shown, frames>> /\ D' \in {D \o held[i], D}
        /\ decoders[i] = "busy" /\ held' = [held EXCEPT ![i] = <<>>]
    BY <1>9 DEF Decoded
  <2>2. held[i] \in Seq(Frame) /\ Rising(D) /\ Rising(held[i]) /\ Before(D, held[i])
    BY <1>1, <1>4, <2>1
  <2>3. Entries(D \o held[i]) \subseteq Entries(D) \cup Entries(held[i]) /\ Rising(D \o held[i])
    BY <1>1, <2>2, JoinEntries, RisingJoin
  <2>4. Entries(D') \subseteq Entries(D) \cup Entries(held[i]) /\ Rising(D')
    BY <2>1, <2>2, <2>3
  <2>5. ASSUME NEW j \in Viewer PROVE held'[j] = <<>>
    <3>1. CASE j = i
      BY <1>1, <2>1, <3>1
    <3>2. CASE j # i
      <4>1. i = pointer.decoding
        BY <2>1, LastViewer DEF Unfinished
      <4>2. decoders[j] = "busy" => j = pointer.decoding
        BY <2>1, LastViewer DEF Unfinished
      <4>3. held[j] = <<>>
        BY <3>2, <4>1, <4>2 DEF Typed, TypeOK
      <4> QED BY <1>1, <2>1, <3>2, <4>3
    <3> QED BY <3>1, <3>2
  <2>6. UNCHANGED <<S, E, frames>> /\ ~disorder
    BY <2>1
  <2>7. Ends3 /\ Middle(i)
    BY <1>4, <2>1
  <2> HIDE DEF S, D, E
  <2>8. Ends3'
    <3>1. Before(S', D')
      BY <2>4, <2>6, <2>7 DEF Before
    <3>2. Before(D', E')
      BY <2>4, <2>6, <2>7 DEF Before
    <3>3. UpTo(D', frames')
      BY <2>4, <2>6, <2>7 DEF UpTo
    <3> QED BY <2>4, <2>6, <2>7, <3>1, <3>2, <3>3
  <2>9. ASSUME NEW j \in Viewer PROVE Middle(j)'
    <3>1. Entries(held'[j]) = {} /\ Rising(held'[j])
      BY <2>5, FewEntries
    <3> QED BY <3>1 DEF Before, UpTo
  <2> QED BY <1>5, <2>8, <2>9
<1>10. ASSUME NEW i \in Viewer, Render(i) PROVE Ordered'
  <2>1. /\ ~disorder /\ UNCHANGED <<encoded_buffer, held, frames>> /\ D # <<>> /\ D' = Tail(D)
        /\ shown' = Append(shown, [by |-> i, frame |-> Head(D)])
    BY <1>10 DEF Render
  <2>2. Entries(D') \subseteq Entries(D) /\ Head(D) \in Entries(D)
    BY <1>1, <2>1, TailEntries
  <2>3. Rising(D') /\ \A y \in Entries(D') : Head(D).n < y.n
    BY <1>1, <1>4, <2>1, RisingTail
  <2>4. Head(D) \in Frame
    BY <1>1, <2>2, EntriesTyped
  <2>5. S \in Seq(Frame) /\ S' = Append(S, Head(D))
    <3>1. [by |-> i, frame |-> Head(D)] \in [by : Viewer, frame : Frame]
      BY <2>4
    <3>2. S \in Seq(Frame) /\ FramesOf(shown') = Append(S, [by |-> i, frame |-> Head(D)].frame)
      BY <1>2, <2>1, <3>1
    <3> QED BY <3>2
  <2>6. UNCHANGED <<E, held, frames>>
    BY <2>1
  <2>7. Ends3 /\ \A j \in Viewer : Middle(j)
    BY <1>4, <2>1
  <2> HIDE DEF S, D, E
  <2>8. Entries(S') \subseteq Entries(S) \cup {Head(D)}
    BY <2>4, <2>5, AppendEntries
  <2>9. Rising(S')
    <3>1. \A y \in Entries(S) : y.n < Head(D).n
      BY <2>2, <2>7 DEF Before
    <3> QED BY <2>4, <2>5, <2>7, <3>1, RisingAppend
  <2>10. Ends3'
    <3>1. Before(S', D')
      BY <2>2, <2>3, <2>7, <2>8 DEF Before
    <3>2. Before(S', E') /\ Before(D', E')
      BY <2>2, <2>6, <2>7, <2>8 DEF Before
    <3>3. UpTo(S', frames') /\ UpTo(D', frames')
      BY <2>2, <2>6, <2>7, <2>8 DEF UpTo
    <3> QED BY <2>3, <2>6, <2>7, <2>9, <3>1, <3>2, <3>3
  <2>11. ASSUME NEW j \in Viewer PROVE Middle(j)'
    <3>1. Middle(j)
      BY <2>7
    <3>2. Before(S', held[j]) /\ Before(D', held[j])
      BY <2>2, <2>8, <3>1 DEF Before
    <3> QED BY <2>6, <3>1, <3>2
  <2> QED BY <1>5, <2>10, <2>11
<1>11. CASE Received(handle_data)
  <2>1. /\ ~disorder /\ UNCHANGED <<decode_buffer, held, shown>>
        /\ frames < MaxFrames /\ frames' = frames + 1
        /\ E' = Append(E, [of |-> params, n |-> frames'])
    BY <1>11 DEF Received, handle_data
  <2> DEFINE x == [of |-> params, n |-> frames']
  <2>2. x \in Frame /\ x.n = frames + 1 /\ E' = Append(E, x)
    <3>1. params \in 0 .. MaxSessions /\ frames' \in 1 .. MaxFrames
      BY <2>1, BoundAssumption DEF Typed, Counted
    <3> QED BY <2>1, <3>1 DEF Frame
  <2> HIDE DEF x
  <2>3. UNCHANGED <<S, D, held>>
    BY <2>1
  <2>4. frames \in Nat
    BY DEF Typed
  <2>5. Ends3 /\ \A j \in Viewer : Middle(j)
    BY <1>4, <2>1
  <2>6. S \in Seq(Frame)
    BY <1>2
  <2>7. /\ Entries(S) \subseteq Frame /\ Entries(D) \subseteq Frame /\ Entries(E) \subseteq Frame
        /\ \A j \in Viewer : Entries(held[j]) \subseteq Frame
    BY <1>1, <2>6, EntriesTyped
  <2>8. Entries(E') \subseteq Entries(E) \cup {x}
    BY <1>1, <2>2, AppendEntries
  <2> HIDE DEF S, D, E
  <2>9. ASSUME NEW a, Entries(a) \subseteq Frame, UpTo(a, frames)
        PROVE  UpTo(a, frames + 1) /\ \A y \in Entries(a) : y.n < x.n
    BY <1>3, <2>2, <2>4, <2>9 DEF UpTo
  <2>10. ASSUME NEW a, Entries(a) \subseteq Frame, UpTo(a, frames), Before(a, E) PROVE Before(a, E')
    BY <2>8, <2>9, <2>10 DEF Before
  <2>11. Rising(E')
    BY <1>1, <2>2, <2>5, <2>7, <2>9, RisingAppend DEF E
  <2>12. UpTo(E', frames + 1)
    <3>1. UpTo(E, frames + 1) /\ x.n <= frames + 1
      BY <2>2, <2>4, <2>5, <2>7, <2>9
    <3> QED BY <2>8, <3>1 DEF UpTo
  <2>13. Ends3'
    BY <2>1, <2>3, <2>5, <2>7, <2>9, <2>10, <2>11, <2>12
  <2>14. ASSUME NEW j \in Viewer PROVE Middle(j)'
    <3>1. Middle(j) /\ Entries(held[j]) \subseteq Frame
      BY <2>5, <2>7
    <3>2. UpTo(held[j], frames + 1) /\ Before(held[j], E')
      BY <2>9, <2>10, <3>1
    <3> QED BY <2>1, <2>3, <3>1, <3>2
  <2> QED BY <1>5, <2>13, <2>14
<1>12. CASE \/ UNCHANGED vars \/ Dies \/ HandleStarting \/ InitEncoder \/ StartEncoder \/ InitDecoder \/ ThreadsStart
            \/ CloseNothing \/ CloseClient \/ CloseHost
            \/ GivesUp("JOIN_DECODER") \/ GivesUp("JOIN_RENDERER") \/ GivesUp("JOIN_ENCODER")
            \/ DecoderJoined \/ RendererJoined \/ EncoderJoined
  <2>1. UNCHANGED <<disorder, encoded_buffer, held, decode_buffer, shown, frames>>
    BY <1>12 DEF vars, Dies, HandleStarting, InitEncoder, StartEncoder, InitDecoder, ThreadsStart, CloseNothing,
          CloseClient, CloseHost, GivesUp, DecoderJoined, RendererJoined, EncoderJoined
  <2> QED BY <1>6, <2>1
<1>13. CASE Received(SessionStarting) \/ Received(VideoParams) \/ Received(SessionClose) \/ Received(SessionRequest)
  <2>1. ~disorder
    BY <1>13, StepsAlone
  <2>2. UNCHANGED <<encoded_buffer, held, decode_buffer, shown, frames>>
    BY <1>13 DEF Received, SessionStarting, VideoParams, SessionClose, SessionRequest
  <2> QED BY <1>6, <2>1, <2>2
<1>14. ASSUME NEW i \in Viewer, DecoderEnds(i) \/ CreateWindow(i) \/ RendererEnds(i) PROVE Ordered'
  <2>1. UNCHANGED <<disorder, encoded_buffer, held, decode_buffer, shown, frames>>
    BY <1>14 DEF DecoderEnds, CreateWindow, RendererEnds
  <2> QED BY <1>6, <2>1
<1>15. ASSUME NEW i \in Streamer, EncoderMoves(i) PROVE Ordered'
  BY <1>6, <1>15 DEF EncoderMoves
<1>16. ~Received(EndSession)
  BY StepsAlone
<1> QED BY <1>7, <1>8, <1>9, <1>10, <1>11, <1>12, <1>13, <1>14, <1>15, <1>16, NextSteps

--------------------------------------------------------------------------------
(* The theorems *)

\* The initial states satisfy the invariant.
LEMMA InitInv == Init => Inv
<1> SUFFICES ASSUME Init PROVE Inv
  OBVIOUS
<1>1. /\ MaxSessions \in Nat /\ MaxFrames \in Nat /\ MaxRequests \in Nat
      /\ \A i \in Viewer : i \in Nat /\ ~(i <= 0)
      /\ \A i \in Streamer : i \in Nat /\ ~(i <= 0)
  BY BoundAssumption DEF Viewer, Streamer
<1>2. \A k \in Step : tasks[k] = 0
  BY DEF Init
<1>3. Pieces
  <2>1. /\ pointer = [decoding |-> 0, rendering |-> 0, encoding |-> 0]
        /\ 0 \in 0 .. MaxSessions /\ 0 \in 0 .. MaxRequests
    BY <1>1 DEF Init
  <2>2. pointer \in [decoding : 0 .. MaxSessions, rendering : 0 .. MaxSessions, encoding : 0 .. MaxRequests]
    BY <2>1
  <2>3. /\ decoders \in [Viewer -> Thread] /\ renderers \in [Viewer -> Thread]
        /\ encoders \in [Streamer -> Thread]
    BY DEF Init, Thread
  <2>4. /\ state \in SessionState /\ {decoder, encoder} \subseteq Codec
        /\ {running, decoder_running, renderer_running, encoder_running, window, crashed, disorder}
              \subseteq BOOLEAN
    BY DEF Init, Codec
  <2> QED BY <2>2, <2>3, <2>4 DEF Pieces
<1>4. Frameful
  <2>1. \A T : <<>> \in Seq(T)
    BY EmptySeq
  <2> QED BY <2>1 DEF Init, Frameful
<1>5. Numbers
  BY <1>1 DEF Init, Numbers
<1>6. Typed
  BY <1>3, <1>4, <1>5, TypedPieces
<1>7. Counted
  BY <1>1 DEF Init, Counted, Step
<1>8. Alone
  BY <1>2 DEF Alone, None
<1>9. AtPhase
  BY <1>2 DEF Init, AtPhase, Closing, Step
<1>10. Staged
  BY <1>1, <1>2 DEF Init, Staged, Past, Step
<1>11. Equipped
  BY <1>2 DEF Init, Equipped, Step
<1>12. Fresh
  BY FewEntries DEF Init, Fresh, Once, Own
<1>13. Ordered
  <2>1. FramesOf(shown) = <<>>
    <3>1. shown \in Seq([by : Viewer, frame : Frame]) /\ Len(shown) = 0
      BY EmptySeq DEF Init
    <3>2. FramesOf(shown) \in Seq(Frame) /\ Len(FramesOf(shown)) = 0
      BY <3>1, FramesTyped
    <3> QED BY <3>2, EmptySeq
  <2>2. \A i \in Viewer : held[i] = <<>>
    BY DEF Init
  <2>3. decode_buffer = <<>> /\ encoded_buffer = <<>>
    BY DEF Init
  <2> QED BY <2>1, <2>2, <2>3, FewEntries DEF Ordered, Before, UpTo
<1> QED BY <1>6, <1>7, <1>8, <1>9, <1>10, <1>11, <1>12, <1>13 DEF Inv

\* Every step keeps the invariant.
LEMMA StepInv == Inv /\ [Next]_vars => Inv'
<1> SUFFICES ASSUME Inv, [Next]_vars PROVE Inv'
  OBVIOUS
<1>1. Typed /\ Counted /\ Alone /\ AtPhase /\ Staged /\ Equipped /\ Fresh /\ Ordered
  BY DEF Inv
<1>2. Pieces' /\ Frameful' /\ Numbers'
  BY <1>1, PiecesStep, FramefulStep, NumbersStep
<1>3. Typed'
  BY <1>2 DEF Typed, TypeOK, Pieces, Frameful, Numbers
<1>4. Counted' /\ Alone' /\ AtPhase'
  BY <1>1, CountedStep, AloneStep, AtPhaseStep
<1>5. Staged' /\ Equipped'
  BY <1>1, StagedStep, EquippedStep
<1>6. Fresh'
  <2>1. /\ ~disorder => Once
        /\ ~disorder => Once /\ Own
    BY <1>1 DEF Fresh
  <2>2. ~disorder' => Once'
    BY <1>1, <2>1, OnceStep
  <2>3. ~disorder' => Own'
    BY <1>1, <2>1, OwnStep
  <2> QED BY <2>2, <2>3 DEF Fresh
<1>7. Ordered'
  BY <1>1, OrderedStep
<1> QED BY <1>3, <1>4, <1>5, <1>6, <1>7 DEF Inv

\* The invariant holds whatever the handlers, the threads and the distributor do.
THEOREM Invariance == Spec => []Inv
BY InitInv, StepInv, PTL DEF Spec

\* The flags, pointers, threads and buffers have their types, and a decoder thread
\* holds a frame exactly while it decodes.
THEOREM TypeCorrect == Spec => []TypeOK
<1>1. Inv => TypeOK
  BY DEF Inv, Typed
<1> QED BY <1>1, Invariance, PTL

\* close_session_inner joins the threads before it takes away what they use: as long
\* as the handlers run one after the other, no decoder thread works on a decoder that
\* was shut down, and the lobby has no thread and no window.
THEOREM LobbyIsQuiet == Spec => []QuietLobby
<1>1. Inv => QuietLobby
  <2> SUFFICES ASSUME Inv, ~disorder
               PROVE  /\ \A i \in Viewer : decoders[i] = "busy" => decoder # "off"
                      /\ state = "LOBBY" =>
                            /\ ~window
                            /\ \A i \in Viewer : decoders[i] \notin Unfinished /\ renderers[i] \notin Unfinished
    BY DEF QuietLobby
  <2>1. Typed /\ Counted /\ AtPhase /\ Staged /\ Equipped
    BY DEF Inv
  <2>2. \A i \in Viewer : decoders[i] = "busy" => decoder # "off"
    BY <2>1 DEF Equipped
  <2>3. ASSUME state = "LOBBY"
        PROVE  ~window /\ \A i \in Viewer : decoders[i] \notin Unfinished /\ renderers[i] \notin Unfinished
    <3>1. /\ \A k \in Closing \cup {"STARTING"} : tasks[k] \in Nat
          /\ phase \in {"idle", "starting", "streaming"}
      BY <2>1 DEF Typed, TypeOK, Closing, Step
    <3>2. \A k \in Closing : tasks[k] = 0
      BY <2>1, <2>3, <3>1 DEF AtPhase
    <3>3. phase = "idle" \/ phase = "starting"
      BY <2>1, <2>3, <3>1 DEF AtPhase
    <3>4. Past
      BY <2>1, <3>2, <3>3 DEF Staged
    <3>5. ~window
      BY <2>1, <3>4 DEF Equipped, Past
    <3>6. ASSUME NEW i \in Viewer PROVE decoders[i] \notin Unfinished /\ renderers[i] \notin Unfinished
      <4>1. decoders[i] \in Unfinished \/ renderers[i] \in Unfinished => i = pointer.decoding /\ pointer.decoding > 0
        BY <2>1, LastViewer
      <4>2. pointer.decoding > 0 => decoders[pointer.decoding] = "joined" /\ renderers[pointer.decoding] = "deleted"
        BY <3>4 DEF Past
      <4> QED BY <4>1, <4>2 DEF Unfinished
    <3> QED BY <3>5, <3>6
  <2> QED BY <2>2, <2>3
<1> QED BY <1>1, Invariance, PTL

\* As long as the handlers run one after the other, a renderer shows frames of its own
\* session only, in the order in which they were received.
THEOREM FramesAreFresh == Spec => []FreshFrames
<1>1. Inv => FreshFrames
  <2> SUFFICES ASSUME Inv, ~disorder, NEW k \in DOMAIN shown
               PROVE  /\ shown[k].by = shown[k].frame.of
                      /\ k > 1 => shown[k - 1].frame.n < shown[k].frame.n
    BY DEF FreshFrames
  <2>1. Typed /\ Fresh /\ Ordered
    BY DEF Inv
  <2>2. shown[k].by = shown[k].frame.of
    <3>1. shown[k] \in Entries(shown)
      BY DEF Entries
    <3> QED BY <2>1, <3>1 DEF Fresh, Own
  <2>3. ASSUME k > 1 PROVE shown[k - 1].frame.n < shown[k].frame.n
    <3>1. shown \in Seq([by : Viewer, frame : Frame])
      BY <2>1 DEF Typed
    <3>2. Len(shown) \in Nat /\ DOMAIN shown = 1 .. Len(shown)
      BY <3>1, LenProperties
    <3>3. k \in 1 .. Len(shown) /\ k - 1 \in 1 .. Len(shown) /\ k - 1 < k
      BY <2>3, <3>2
    <3>4. /\ FramesOf(shown)[k - 1] = shown[k - 1].frame /\ FramesOf(shown)[k] = shown[k].frame
          /\ DOMAIN FramesOf(shown) = 1 .. Len(shown)
      BY <3>2, <3>3 DEF FramesOf
    <3>5. FramesOf(shown)[k - 1].n < FramesOf(shown)[k].n
      BY <2>1, <3>3, <3>4 DEF Ordered, Rising
    <3> QED BY <3>4, <3>5
  <2> QED BY <2>2, <2>3
<1> QED BY <1>1, Invariance, PTL
================================================================================
