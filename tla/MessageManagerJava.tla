-------------------------- MODULE MessageManagerJava --------------------------
(***************************************************************************)
(* The Java MessageManager of the distributor.  It differs from the C++    *)
(* one in its state, a ByteBuffer that has been allocated for exactly the  *)
(* bytes it waits for, and on a negative length, for which the allocation  *)
(* throws out of parseData.  A step is one iteration of the outer loop.    *)
(***************************************************************************)
EXTENDS Framing

VARIABLES
    foreign,         \* the peer writes lengths in Java's own byte order
    pos,             \* bytes of stream consumed (arrived - pos: unread data)
    reading_length,  \* reading_length
    message_buffer,  \* message_buffer: the bytes put into it and its limit
    packets,         \* packets
    thrown,          \* parseData threw; ServerHandler then drops the connection
    received         \* history: what nextPacket returned

parserVars == <<pos, reading_length, message_buffer, packets, thrown>>

vars == <<framingVars, foreign, parserVars, received>>

\* getInt() of a little-endian buffer: a signed 32 bit number.
getInt(b) ==
    LET u == b[1] + Base * (b[2] + Base * (b[3] + Base * b[4]))
    IN  IF u < Int32Limit THEN u ELSE u - 2 * Int32Limit

allocate(n) == [put |-> <<>>, limit |-> n]

unreadBytes(buf) == buf.limit - Len(buf.put)

Init ==
    /\ FramingInit
    /\ foreign \in BOOLEAN
    /\ pos = 0
    /\ reading_length = TRUE
    /\ message_buffer = allocate(4)
    /\ packets = <<>>
    /\ thrown = FALSE
    /\ received = <<>>

\* Both senders of the system write the length little-endian; a peer that uses
\* the buffer's default order, as a test program does, is big-endian.
LengthBytes(n) == IF foreign THEN Reverse(Digits(n)) ELSE Digits(n)

Send(m) ==
    /\ send_data(LengthBytes(Len(m)), m)
    /\ UNCHANGED <<foreign, parserVars, received>>

\* parseData is called with the bytes of the next read.
Read ==
    /\ ~thrown
    /\ pos = arrived
    /\ Arrive
    /\ UNCHANGED <<foreign, parserVars, received>>

\* message_buffer after the loop that copies bytes into it.
Filled ==
    LET n == IF unreadBytes(message_buffer) <= arrived - pos
             THEN unreadBytes(message_buffer) ELSE arrived - pos
    IN  [message_buffer EXCEPT !.put = @ \o SubSeq(stream, pos + 1, pos + n)]

\* Mutant: the position advances by what the buffer wants, not by what there was.
CopiedWanted == pos' = pos + unreadBytes(message_buffer)

Copied == pos' = pos + Len(Filled.put) - Len(message_buffer.put)

\* Mutant: the buffer for a zero-length message waits for one more byte.
NextBufferPadded(len) ==
    /\ message_buffer' = allocate(IF len = 0 THEN 1 ELSE len)
    /\ reading_length' = FALSE
    /\ UNCHANGED <<packets, thrown>>

\* The buffer that follows a complete length.
NextBuffer(len) ==
    \/ /\ len = 0
       /\ packets' = Append(packets, <<>>)
       /\ message_buffer' = allocate(4)
       /\ UNCHANGED <<reading_length, thrown>>
    \/ /\ len > 0
       /\ message_buffer' = allocate(len)
       /\ reading_length' = FALSE
       /\ UNCHANGED <<packets, thrown>>
    \/ /\ len < 0
       /\ thrown' = TRUE
       /\ message_buffer' = Filled
       /\ reading_length' = FALSE
       /\ UNCHANGED packets

ReadLength ==
    /\ ~thrown
    /\ pos < arrived
    /\ reading_length
    /\ Copied
    /\ \/ /\ unreadBytes(Filled) > 0
          /\ message_buffer' = Filled
          /\ UNCHANGED <<reading_length, packets, thrown>>
       \/ /\ unreadBytes(Filled) = 0
          /\ NextBuffer(getInt(Filled.put))
    /\ UNCHANGED <<framingVars, foreign, received>>

ReadBody ==
    /\ ~thrown
    /\ pos < arrived
    /\ ~reading_length
    /\ Copied
    /\ \/ /\ unreadBytes(Filled) > 0
          /\ message_buffer' = Filled
          /\ UNCHANGED <<reading_length, packets>>
       \/ /\ unreadBytes(Filled) = 0
          /\ reading_length' = TRUE
          /\ packets' = Append(packets, Filled.put)
          /\ message_buffer' = allocate(4)
    /\ UNCHANGED <<framingVars, foreign, thrown, received>>

parseData == ReadLength \/ ReadBody

\* Mutant: peek instead of poll.
PeekPacket ==
    /\ ~thrown
    /\ pos = arrived
    /\ packets # <<>>
    /\ Len(received) < MaxMessages
    /\ received' = Append(received, Head(packets))
    /\ UNCHANGED <<framingVars, foreign, parserVars>>

\* channelRead takes the packets once parseData has returned; when parseData
\* threw, the packets are lost with the connection.
nextPacket ==
    /\ ~thrown
    /\ pos = arrived
    /\ packets # <<>>
    /\ received' = Append(received, Head(packets))
    /\ packets' = Tail(packets)
    /\ UNCHANGED <<framingVars, foreign, pos, reading_length, message_buffer, thrown>>

Next ==
    \/ \E m \in Message : Send(m)
    \/ Read
    \/ parseData
    \/ nextPacket

Spec == Init /\ [][Next]_vars

--------------------------------------------------------------------------------
(* Properties *)

\* Type correctness; the buffer never takes more bytes than were allocated.
TypeOK ==
    /\ sent \in Seq(Message)
    /\ stream \in Seq(Byte)
    /\ foreign \in BOOLEAN
    /\ arrived \in 0 .. Len(stream)
    /\ pos \in 0 .. arrived
    /\ reading_length \in BOOLEAN
    /\ message_buffer \in [put : Seq(Byte), limit : Nat]
    /\ Len(message_buffer.put) <= message_buffer.limit
    /\ packets \in Seq(Seq(Byte))
    /\ thrown \in BOOLEAN
    /\ received \in Seq(Seq(Byte))

parsed == received \o packets

\* parseData never throws on what the senders of this system write; once it has
\* consumed all of it, the packets it has cut out are the messages sent.
NothingHeldBack ==
    foreign \/ (~thrown /\ (pos = Len(stream) => parsed = sent))

\* The parser implements the protocol's promise to the senders of this system.
Protocol == INSTANCE MessageStream
            WITH Message <- Message,
                 sent <- IF foreign THEN <<>> ELSE sent,
                 received <- IF foreign THEN <<>> ELSE received
ImplementsStream == Protocol!Spec

\* Whatever the lengths on the wire say, also ones the other side did not mean,
\* no byte is lost, repeated or moved: the packets, put back into frames, and
\* what the buffer holds are exactly the bytes consumed.
Lossless ==
    LET frame(packet) == Digits(Len(packet)) \o packet
        pending == IF reading_length \/ thrown THEN message_buffer.put
                   ELSE Digits(message_buffer.limit) \o message_buffer.put
    IN  FlattenSeq([k \in DOMAIN parsed |-> frame(parsed[k])]) \o pending
            = SubSeq(stream, 1, pos)
================================================================================
