-------------------------------- MODULE Framing --------------------------------
(***************************************************************************)
(* The sending side of the message manager protocol and the TCP connection *)
(* below it.  Every message is written as a four byte length followed by   *)
(* its bytes (ClientSocket::send_data, ServerHandler.sendProto); the       *)
(* connection hands the bytes to the receiver in order and in pieces of    *)
(* any size.  Base is the number of values of a byte: 256 in the code.     *)
(***************************************************************************)
EXTENDS Integers, Sequences, SequencesExt

CONSTANTS
    Base,         \* values of a byte
    Message,      \* messages that may be sent
    MaxMessages   \* bound on the number of messages sent

Byte == 0 .. (Base - 1)

\* 2^31: lengths below it are the same number as uint32_t and as int32_t.
Int32Limit == (Base * Base * Base * Base) \div 2

ASSUME BaseAssumption == Base \in Nat /\ Base >= 2
ASSUME EvenAssumption == Base % 2 = 0
ASSUME MessageAssumption ==
    Message \subseteq Seq(Byte) /\ \A m \in Message : Len(m) < Int32Limit

VARIABLES
    sent,     \* history: the messages sent
    stream,   \* the bytes written to the connection so far
    start,    \* history: start[k] bytes precede the k-th frame in stream
    arrived   \* how many bytes of stream were handed to the receiver

framingVars == <<sent, stream, start, arrived>>

\* The bytes of an uint32_t, least significant first.
Digits(n) ==
    LET q1 == n \div Base
        q2 == q1 \div Base
        q3 == q2 \div Base
    IN  <<n % Base, q1 % Base, q2 % Base, q3 % Base>>

FramingInit ==
    /\ sent = <<>>
    /\ stream = <<>>
    /\ start = <<0>>
    /\ arrived = 0

\* One message, after the bytes of its length.
send_data(length, m) ==
    /\ Len(sent) < MaxMessages
    /\ sent' = Append(sent, m)
    /\ stream' = stream \o (length \o m)
    /\ start' = Append(start, start[Len(start)] + 4 + Len(m))
    /\ UNCHANGED arrived

\* A read of the socket returns the next bytes, as many as it likes.
Arrive ==
    /\ arrived' \in (arrived + 1) .. Len(stream)
    /\ UNCHANGED <<sent, stream, start>>
================================================================================
