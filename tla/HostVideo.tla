------------------------------- MODULE HostVideo -------------------------------
(***************************************************************************)
(* The host's side of a session: DxgiCapture takes a picture of the        *)
(* screen, H264Encoder makes a packet of it, and handle_encode queues one  *)
(* VIDEO_PARAMS message with the stream's header and then one DATA message *)
(* for each turn of its loop.                                              *)
(*                                                                         *)
(* No result is looked at, so every failure below is followed by the rest  *)
(* of the turn.  HOST is never assigned to state_, so encoder_running_     *)
(* stays set and a second SESSION_REQUEST starts a second thread on the    *)
(* same capture and the same encoder.                                      *)
(*                                                                         *)
(* A packet is a sequence of NAL units, each a start code and a body; 2    *)
(* stands for the byte values other than 0, 1 and 3.  libavcodec and DXGI  *)
(* are external: they may fail at any call.                                *)
(***************************************************************************)
EXTENDS Naturals, Sequences, FiniteSets, SequencesExt

CONSTANTS
    Thread,       \* encoder threads, numbered from 1
    Openings,     \* first packets of a stream: SPS, PPS and a picture
    Later,        \* packets with a picture alone
    MaxPictures,  \* bound on the changes of the screen
    MaxMessages   \* bound on the messages queued

ASSUME ThreadAssumption == Thread \subseteq Nat \ {0}
ASSUME BoundAssumption == MaxPictures \in Nat \ {0}

\* A NAL unit in a byte stream: a start code of k bytes and a body that begins and
\* ends with a byte other than zero and holds no start code, nor the first three
\* bytes of a long one.
IsUnit(u) ==
    \E k \in {3, 4} :
        /\ k < Len(u)
        /\ u[k] = 1 /\ \A i \in 1 .. (k - 1) : u[i] = 0
        /\ u[k + 1] # 0 /\ u[Len(u)] # 0
        /\ \A i \in (k + 1) .. (Len(u) - 2) : ~(u[i] = 0 /\ u[i + 1] = 0 /\ u[i + 2] \in {0, 1})

ASSUME OpeningAssumption ==
    \A o \in Openings : o \in Seq(Seq(Nat)) /\ Len(o) >= 3 /\ \A i \in 1 .. Len(o) : IsUnit(o[i])
ASSUME LaterAssumption == Later \subseteq Seq(Nat)

VARIABLES
    capture,    \* how far DxgiCapture::init came
    screen,     \* number of the picture on the screen
    acquired,   \* number of the picture AcquireNextFrame gave last
    encoder,    \* "null": pointers missing; "broken": not open; "fresh"; "used"
    opening,    \* the first packet an encoder with these parameters makes
    pts,        \* pts_
    pps_sps,    \* pps_sps_
    at,         \* where each encoder thread is
    raw,        \* raw_frame of each thread, as the number of its picture
    packet,     \* packet_out of each thread
    send,       \* the messages in send_buffer_
    made,       \* history: the packets received from the encoder
    crashed     \* the daemon is gone

vars == <<capture, screen, acquired, encoder, opening, pts, pps_sps, at, raw,
          packet, send, made, crashed>>

Blank == 0  \* a frame no picture was copied into

--------------------------------------------------------------------------------
(* H264Encoder: NAL units in a packet.  Offsets count from 0, as in the code. *)

\* Both comparisons of seek_nalu; a zero is never the first byte of a body.
UnitAt(data, off) ==
    /\ off + 3 < Len(data)
    /\ data[off + 1] = 0 /\ data[off + 2] = 0
    /\ data[off + 3] = 1 \/ (data[off + 3] = 0 /\ data[off + 4] = 1)

\* Mutant: the search starts at the unit it should leave.
NextUnitFromHere(data, off) ==
    CHOOSE p \in off .. Len(data) :
        UnitAt(data, p) /\ \A q \in off .. (p - 1) : ~UnitAt(data, q)

NextUnit(data, off) ==
    CHOOSE p \in (off + 2) .. Len(data) :
        UnitAt(data, p) /\ \A q \in (off + 2) .. (p - 1) : ~UnitAt(data, q)

seek_nalu(data, num_nalu) ==
    LET off[i \in 0 .. num_nalu] == IF i = 0 THEN 0 ELSE NextUnit(data, off[i - 1])
    IN  off[num_nalu]

--------------------------------------------------------------------------------
(* DxgiCapture *)

\* Without an adapter, a device or a duplicator init gives up before it has a
\* duplicator ("null") or before it has a texture ("untextured"); without an
\* output it asks for the next one for ever ("looping").
CaptureInit == capture \in {"null", "untextured", "looping", "ready"}

\* Mutant: a frame that could not be had is a blank one.
GetFrameBlank(t) ==
    /\ at[t] = "capture" /\ ~crashed
    /\ capture # "null"
    /\ \/ raw' = [raw EXCEPT ![t] = Blank] /\ UNCHANGED acquired
       \/ /\ capture = "ready" /\ acquired # screen
          /\ acquired' = screen
          /\ raw' = [raw EXCEPT ![t] = screen]
    /\ at' = [at EXCEPT ![t] = "encode"]
    /\ UNCHANGED <<capture, screen, encoder, opening, pts, pps_sps, packet, send, made, crashed>>

\* AcquireNextFrame runs into its timeout or fails; or the picture is acquired and
\* cannot be read (no texture, a failed query or map); or it is copied.
get_frame(t) ==
    /\ at[t] = "capture" /\ ~crashed
    /\ capture # "null"
    /\ \/ UNCHANGED <<acquired, raw>>
       \/ acquired # screen /\ acquired' = screen /\ UNCHANGED raw
       \/ /\ capture = "ready" /\ acquired # screen
          /\ acquired' = screen
          /\ raw' = [raw EXCEPT ![t] = screen]
    /\ at' = [at EXCEPT ![t] = "encode"]
    /\ UNCHANGED <<capture, screen, encoder, opening, pts, pps_sps, packet, send, made, crashed>>

ScreenChanges ==
    /\ screen < MaxPictures
    /\ screen' = screen + 1
    /\ UNCHANGED <<capture, acquired, encoder, opening, pts, pps_sps, at, raw, packet, send, made, crashed>>

--------------------------------------------------------------------------------
(* The encoder *)

\* A failed init has no context ("null"), or one that is not open, with the
\* buffers of an earlier init if there was one ("broken").
EncoderInit ==
    \/ encoder' = "fresh"
    \/ encoder' = "null"
    \/ encoder # "null" /\ encoder' = "broken"

\* Mutant: the packet keeps the header that was cut out.
KeepHeader(t, data) ==
    /\ pps_sps' = IF pts = 0 THEN pps_sps \o SubSeq(data, 1, seek_nalu(data, 2)) ELSE pps_sps
    /\ packet' = [packet EXCEPT ![t] = @ \o data]

\* The header is cut out of the first packet ever, pts_ being zero.
CutHeader(t, data) ==
    LET cut == IF pts = 0 THEN seek_nalu(data, 2) ELSE 0
    IN  /\ pps_sps' = pps_sps \o SubSeq(data, 1, cut)
        /\ packet' = [packet EXCEPT ![t] = @ \o SubSeq(data, cut + 1, Len(data))]

\* avcodec_send_frame or avcodec_receive_packet fails.
EncodeFails == UNCHANGED <<encoder, pts, pps_sps, packet, made>>

\* A packet of a new context opens with SPS, PPS and the first picture; later ones
\* are a picture, or at a new group of pictures the same again.
EncodeSucceeds(t) ==
    /\ encoder \in {"fresh", "used"}
    /\ \E data \in {FlattenSeq(opening)} \cup (IF encoder = "used" THEN Later ELSE {}) :
          /\ CutHeader(t, data)
          /\ made' = Append(made, [data |-> data, picture |-> raw[t], thread |-> t])
    /\ encoder' = "used"
    /\ pts' = pts + 1

ParamsSent(t) == \E i \in DOMAIN send : send[i].type = "VIDEO_PARAMS" /\ send[i].thread = t

encode_frame(t) ==
    /\ at[t] = "encode" /\ ~crashed
    /\ encoder # "null"
    /\ EncodeFails \/ EncodeSucceeds(t)
    /\ at' = [at EXCEPT ![t] = IF ParamsSent(t) THEN "data" ELSE "params"]
    /\ UNCHANGED <<capture, screen, acquired, opening, raw, send, crashed>>

--------------------------------------------------------------------------------
(* DaemonBackendController *)

enqueue_msg(t, type, payload) ==
    /\ Len(send) < MaxMessages
    /\ send' = Append(send, [type |-> type, payload |-> payload, thread |-> t, after |-> Len(made)])

\* The rest of a turn of handle_encode: VIDEO_PARAMS in the first turn only, with
\* what get_pps_sps has, be it nothing; then DATA, whatever encode_frame returned.
SendParams(t) ==
    /\ at[t] = "params" /\ ~crashed
    /\ enqueue_msg(t, "VIDEO_PARAMS", pps_sps)
    /\ at' = [at EXCEPT ![t] = "data"]
    /\ UNCHANGED <<capture, screen, acquired, encoder, opening, pts, pps_sps, raw, packet, made, crashed>>

\* Mutant: the packet is copied into the message and the next one added to it.
SendDataCopied(t) ==
    /\ at[t] = "data" /\ ~crashed
    /\ enqueue_msg(t, "DATA", packet[t])
    /\ at' = [at EXCEPT ![t] = "capture"]
    /\ UNCHANGED <<capture, screen, acquired, encoder, opening, pts, pps_sps, raw, packet, made, crashed>>

SendData(t) ==
    /\ at[t] = "data" /\ ~crashed
    /\ enqueue_msg(t, "DATA", packet[t])
    /\ packet' = [packet EXCEPT ![t] = <<>>]
    /\ at' = [at EXCEPT ![t] = "capture"]
    /\ UNCHANGED <<capture, screen, acquired, encoder, opening, pts, pps_sps, raw, made, crashed>>

handle_encode(t) == get_frame(t) \/ encode_frame(t) \/ SendParams(t) \/ SendData(t)

\* The daemon's main thread polls the network only after init has returned.
handle_session_request(t) ==
    /\ at[t] = "none" /\ ~crashed
    /\ \A u \in Thread : u < t => at[u] # "none"
    /\ capture # "looping"
    /\ EncoderInit
    /\ at' = [at EXCEPT ![t] = "capture"]
    /\ UNCHANGED <<capture, screen, acquired, opening, pts, pps_sps, raw, packet, send, made, crashed>>

\* A null duplicator or null buffers are used; or two threads are in the encoder at
\* once, or it is set up again while a thread is in it, which may also end well.
Crash ==
    /\ ~crashed
    /\ \E t \in Thread :
          \/ at[t] = "capture" /\ capture = "null"
          \/ at[t] = "encode" /\ encoder = "null"
          \/ at[t] = "encode" /\ \E u \in Thread \ {t} : at[u] \in {"encode", "none"}
    /\ crashed' = TRUE
    /\ UNCHANGED <<capture, screen, acquired, encoder, opening, pts, pps_sps, at, raw, packet, send, made>>

Init ==
    /\ CaptureInit
    /\ screen = 1
    /\ acquired = Blank
    /\ encoder = "null"
    /\ opening \in Openings
    /\ pts = 0
    /\ pps_sps = <<>>
    /\ at = [t \in Thread |-> "none"]
    /\ raw = [t \in Thread |-> Blank]
    /\ packet = [t \in Thread |-> <<>>]
    /\ send = <<>>
    /\ made = <<>>
    /\ crashed = FALSE

Next ==
    \/ ScreenChanges
    \/ Crash
    \/ \E t \in Thread : handle_session_request(t) \/ handle_encode(t)

Spec == Init /\ [][Next]_vars

--------------------------------------------------------------------------------
(* Properties *)

\* Type correctness; a packet is held only from its encoding to its sending.
TypeOK ==
    /\ capture \in {"null", "untextured", "looping", "ready"}
    /\ screen \in 1 .. MaxPictures
    /\ acquired \in Blank .. screen
    /\ encoder \in {"null", "broken", "fresh", "used"}
    /\ pts \in Nat
    /\ at \in [Thread -> {"none", "capture", "encode", "params", "data"}]
    /\ raw \in [Thread -> Blank .. screen]
    /\ crashed \in BOOLEAN
    /\ \A t \in Thread : packet[t] # <<>> => at[t] \in {"params", "data"}

\* Every header a viewer is given is the stream's SPS and PPS, whole and once, also
\* the one of a second session, whose encoder makes its own; it is empty only if
\* no picture had been encoded when it was sent.
HeaderIntact ==
    \A i \in DOMAIN send :
        send[i].type = "VIDEO_PARAMS" =>
            \/ send[i].payload = opening[1] \o opening[2]
            \/ send[i].payload = <<>> /\ send[i].after = 0

Bytes(s) == FlattenSeq(s)

\* What a thread sends is what the encoder made for it: whatever fails on the way,
\* its messages joined are its packets joined, without the header if the first
\* packet was its, and with what it is about to send.
WholeStream ==
    \A t \in Thread :
        LET encoded == [i \in DOMAIN made |-> IF made[i].thread = t THEN made[i].data ELSE <<>>]
            data == [i \in DOMAIN send |->
                        IF send[i].thread = t /\ send[i].type = "DATA" THEN send[i].payload ELSE <<>>]
            first == made # <<>> /\ made[1].thread = t
        IN  Bytes(encoded) = (IF first THEN pps_sps ELSE <<>>) \o (Bytes(data) \o packet[t])

\* A thread never goes back to an earlier picture or to a blank one, however often
\* the capture fails in between.
PicturesInOrder ==
    \A i, j \in DOMAIN made :
        i < j /\ made[i].thread = made[j].thread => made[i].picture <= made[j].picture
================================================================================
