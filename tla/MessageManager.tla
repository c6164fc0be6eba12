---------------------------- MODULE MessageManager ----------------------------
(***************************************************************************)
(* The C++ MessageManager of the daemon: parse_blob takes the bytes a read *)
(* of the socket returned and cuts them into messages.  A step of the      *)
(* parser is one iteration of the loop of parse_blob; the parser has left  *)
(* the loop when pos = arrived.                                            *)
(***************************************************************************)
EXTENDS Framing

VARIABLES
    pos,              \* bytes of stream consumed (arrived - pos: remaining_blob)
    reading_length,   \* reading_length_
    next_message,     \* next_message_, an int32_t
    partial,          \* partial_message_buffer_
    buffers,          \* message_buffers_
    received          \* history: what retrieve_message returned

parserVars == <<pos, reading_length, next_message, partial, buffers>>

vars == <<framingVars, parserVars, received>>

\* The four bytes reinterpreted as an int32_t on a little-endian machine.
Int32(b) ==
    LET u == b[1] + Base * (b[2] + Base * (b[3] + Base * b[4]))
    IN  IF u < Int32Limit THEN u ELSE u - 2 * Int32Limit

\* static_cast<size_t> of an int32_t: a negative one becomes huge.
SizeT(n) == IF n >= 0 THEN n ELSE n + 4 * Int32Limit * Int32Limit

\* Mutant: the bytes wanted are taken, also when the blob has fewer.
Wanted(x, y) == x

\* std::min
Lesser(x, y) == IF x <= y THEN x ELSE y

Init ==
    /\ FramingInit
    /\ pos = 0
    /\ reading_length = TRUE
    /\ next_message = 0
    /\ partial = <<>>
    /\ buffers = <<>>
    /\ received = <<>>

Send(m) == send_data(Digits(Len(m)), m) /\ UNCHANGED <<parserVars, received>>

\* parse_blob is called with the bytes of the next read.
Blob == pos = arrived /\ Arrive /\ UNCHANGED <<parserVars, received>>

\* The partial buffer after the bytes this iteration inserts.
Inserted(remaining_len) ==
    partial \o SubSeq(stream, pos + 1, pos + Lesser(remaining_len, arrived - pos))

\* Mutant: the safeguard against zero-length messages is missing.
ReadLengthUnguarded ==
    LET filled == Inserted(4 - Len(partial))
    IN
    /\ pos < arrived
    /\ reading_length
    /\ pos' = pos + Lesser(4 - Len(partial), arrived - pos)
    /\ \/ /\ Len(filled) < 4
          /\ partial' = filled
          /\ UNCHANGED <<reading_length, next_message>>
       \/ /\ Len(filled) = 4
          /\ next_message' = Int32(filled)
          /\ partial' = <<>>
          /\ reading_length' = FALSE
    /\ UNCHANGED <<framingVars, buffers, received>>

ReadLength ==
    LET filled == Inserted(4 - Len(partial))
    IN
    /\ pos < arrived
    /\ reading_length
    /\ pos' = pos + Lesser(4 - Len(partial), arrived - pos)
    /\ \/ /\ Len(filled) < 4
          /\ partial' = filled
          /\ UNCHANGED <<reading_length, next_message, buffers>>
       \/ /\ Len(filled) = 4
          /\ next_message' = Int32(filled)
          /\ partial' = <<>>
          /\ \/ /\ Int32(filled) = 0
                /\ buffers' = Append(buffers, <<>>)
                /\ UNCHANGED reading_length
             \/ /\ Int32(filled) # 0
                /\ reading_length' = FALSE
                /\ UNCHANGED buffers
    /\ UNCHANGED <<framingVars, received>>

\* Mutant: what was read of the message before this blob is not counted.
ReadBodyForgetful ==
    LET filled == Inserted(SizeT(next_message))
    IN
    /\ pos < arrived
    /\ ~reading_length
    /\ pos' = pos + Lesser(SizeT(next_message), arrived - pos)
    /\ \/ /\ Len(filled) < SizeT(next_message)
          /\ partial' = filled
          /\ UNCHANGED <<reading_length, next_message, buffers>>
       \/ /\ Len(filled) >= SizeT(next_message)
          /\ reading_length' = TRUE
          /\ next_message' = -1
          /\ buffers' = Append(buffers, filled)
          /\ partial' = <<>>
    /\ UNCHANGED <<framingVars, received>>

ReadBody ==
    LET filled == Inserted(SizeT(next_message) - Len(partial))
    IN
    /\ pos < arrived
    /\ ~reading_length
    /\ pos' = pos + Lesser(SizeT(next_message) - Len(partial), arrived - pos)
    /\ \/ /\ Len(filled) # SizeT(next_message)
          /\ partial' = filled
          /\ UNCHANGED <<reading_length, next_message, buffers>>
       \/ /\ Len(filled) = SizeT(next_message)
          /\ reading_length' = TRUE
          /\ next_message' = -1
          /\ buffers' = Append(buffers, filled)
          /\ partial' = <<>>
    /\ UNCHANGED <<framingVars, received>>

parse_blob == ReadLength \/ ReadBody

\* Mutant: the queue is popped at the wrong end.
RetrieveLast ==
    /\ pos = arrived
    /\ buffers # <<>>
    /\ received' = Append(received, buffers[Len(buffers)])
    /\ buffers' = SubSeq(buffers, 1, Len(buffers) - 1)
    /\ UNCHANGED <<framingVars, pos, reading_length, next_message, partial>>

\* A successful call; poll_network makes it after parse_blob has returned.
retrieve_message ==
    /\ pos = arrived
    /\ buffers # <<>>
    /\ received' = Append(received, Head(buffers))
    /\ buffers' = Tail(buffers)
    /\ UNCHANGED <<framingVars, pos, reading_length, next_message, partial>>

Next ==
    \/ \E m \in Message : Send(m)
    \/ Blob
    \/ parse_blob
    \/ retrieve_message

Spec == Init /\ [][Next]_vars

--------------------------------------------------------------------------------
(* Properties *)

\* Type correctness; the parser never runs ahead of what has arrived.
TypeOK ==
    /\ sent \in Seq(Message)
    /\ stream \in Seq(Byte)
    /\ start \in Seq(Nat)
    /\ arrived \in 0 .. Len(stream)
    /\ pos \in 0 .. arrived
    /\ reading_length \in BOOLEAN
    /\ next_message \in Int
    /\ partial \in Seq(Byte)
    /\ buffers \in Seq(Seq(Byte))
    /\ received \in Seq(Seq(Byte))

parsed == received \o buffers

\* Whatever the sizes of the blobs, the messages parse_blob has cut out are the
\* first messages sent, byte for byte and in order.
InOrder ==
    /\ Len(parsed) <= Len(sent)
    /\ \A k \in DOMAIN parsed : parsed[k] = sent[k]

\* The parser holds nothing back: once every byte written has been consumed,
\* every message sent is in the buffers or was retrieved, the empty ones too.
NothingHeldBack == pos = Len(stream) => Len(parsed) = Len(sent)

\* The parser implements the protocol's promise.
Protocol == INSTANCE MessageStream
            WITH Message <- Message, sent <- sent, received <- received
ImplementsStream == Protocol!Spec
================================================================================
