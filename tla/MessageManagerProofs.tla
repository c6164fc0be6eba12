------------------------- MODULE MessageManagerProofs -------------------------
(***************************************************************************)
(* Proofs about the daemon's message parser, for every alphabet of bytes,  *)
(* every set of messages shorter than 2^31 bytes and every way of cutting  *)
(* the stream into blobs.                                                  *)
(***************************************************************************)
EXTENDS MessageManager, SequenceTheorems, TLAPS

(***************************************************************************)
(* The length bytes.                                                       *)
(***************************************************************************)

\* A number is rebuilt from its quotient and its remainder.
LEMMA DivMod ==
    ASSUME NEW n \in Nat
    PROVE  /\ n \div Base \in Nat
           /\ n % Base \in Byte
           /\ n = (n % Base) + Base * (n \div Base)
  BY BaseAssumption DEF Byte

\* A smaller multiple of Base is a multiple of something smaller.
LEMMA CancelBase ==
    ASSUME NEW x \in Nat, NEW y \in Nat, Base * x < Base * y
    PROVE  x < y
<1>1. SUFFICES ASSUME y <= x PROVE FALSE
  OBVIOUS
<1>2. PICK z \in Nat : x = y + z
  BY <1>1
<1>3. Base * x = Base * y + Base * z
  BY <1>2, BaseAssumption
<1>4. Base * z >= 0 /\ Base * y \in Nat /\ Base * z \in Nat
  BY BaseAssumption
<1> QED BY <1>3, <1>4

\* Dividing by Base loses a factor of the bound.
LEMMA DivBound ==
    ASSUME NEW n \in Nat, NEW y \in Nat, n < Base * y
    PROVE  n \div Base < y
<1> DEFINE q == n \div Base
           r == n % Base
<1>1. q \in Nat /\ r \in Nat /\ n = r + Base * q
  BY DivMod DEF Byte
<1> HIDE DEF q, r
<1>2. Base * q \in Nat /\ Base * y \in Nat
  BY <1>1, BaseAssumption
<1>3. Base * q < Base * y
  BY <1>1, <1>2
<1> QED BY <1>1, <1>3, CancelBase DEF q

\* Reading back the four bytes of a length gives the length.
LEMMA LengthRoundTrip ==
    ASSUME NEW n \in Nat, n < Int32Limit
    PROVE  Int32(Digits(n)) = n
<1> DEFINE q1 == n \div Base
           q2 == q1 \div Base
           q3 == q2 \div Base
           q4 == q3 \div Base
           c2 == Base * Base
           c3 == Base * c2
           c4 == Base * c3
<1>1. /\ q1 \in Nat /\ n = (n % Base) + Base * q1
      /\ n % Base \in Nat
  BY DivMod DEF Byte
<1>2. /\ q2 \in Nat /\ q1 = (q1 % Base) + Base * q2
      /\ q1 % Base \in Nat
  BY <1>1, DivMod DEF Byte
<1>3. /\ q3 \in Nat /\ q2 = (q2 % Base) + Base * q3
      /\ q2 % Base \in Nat
  BY <1>2, DivMod DEF Byte
<1>4. /\ q4 \in Nat /\ q3 = (q3 % Base) + Base * q4
      /\ q3 % Base \in Nat
  BY <1>3, DivMod DEF Byte
<1>5. Digits(n) = <<n % Base, q1 % Base, q2 % Base, q3 % Base>>
  BY DEF Digits
<1>6. c2 \in Nat /\ c3 \in Nat /\ c4 \in Nat
  BY BaseAssumption
<1>7. n < c4
  <2>1. Base * Base * Base * Base = c4
    BY BaseAssumption
  <2>2. Int32Limit = c4 \div 2
    BY <2>1 DEF Int32Limit
  <2> HIDE DEF c4
  <2>3. c4 \div 2 <= c4
    BY <1>6
  <2>4. c4 \div 2 \in Nat
    BY <1>6
  <2> QED BY <1>6, <2>2, <2>3, <2>4
<1> HIDE DEF q1, q2, q3, q4
<1>8. q1 < c3
  BY <1>1, <1>6, <1>7, DivBound DEF q1
<1>9. q2 < c2
  BY <1>2, <1>6, <1>8, <1>1, DivBound DEF q2
<1>10. q3 < Base
  BY <1>3, <1>9, <1>2, BaseAssumption, DivBound DEF q3
<1>11. q4 = 0
  <2>1. Base * 1 = Base
    BY BaseAssumption
  <2>2. q4 < 1
    BY <1>3, <1>4, <1>10, <2>1, DivBound DEF q4
  <2> QED BY <1>4, <2>2
<1>12. q3 % Base = q3
  BY <1>3, <1>4, <1>11, BaseAssumption
<1>13. (n % Base) + Base * ((q1 % Base) + Base * ((q2 % Base) + Base * (q3 % Base))) = n
  BY <1>1, <1>2, <1>3, <1>12
<1> QED BY <1>5, <1>13 DEF Int32

(***************************************************************************)
(* The inductive invariant: the stream is the frames of the messages sent, *)
(* one after the other, and the parser stands in the frame of the message  *)
(* that follows those it has cut out.                                      *)
(***************************************************************************)
Frames ==
    /\ sent \in Seq(Message)
    /\ stream \in Seq(Byte)
    /\ start \in Seq(Nat)
    /\ Len(start) = Len(sent) + 1
    /\ start[Len(sent) + 1] = Len(stream)
    /\ \A k \in 1 .. Len(sent) :
          /\ start[k + 1] = start[k] + 4 + Len(sent[k])
          /\ start[k + 1] <= Len(stream)
          /\ \A j \in 1 .. 4 : stream[start[k] + j] = Digits(Len(sent[k]))[j]
          /\ \A j \in 1 .. Len(sent[k]) : stream[start[k] + 4 + j] = sent[k][j]

Here == Len(parsed) + 1

Position ==
    /\ arrived \in 0 .. Len(stream)
    /\ pos \in 0 .. arrived
    /\ partial \in Seq(Byte)
    /\ buffers \in Seq(Seq(Byte))
    /\ received \in Seq(Seq(Byte))
    /\ \/ /\ reading_length = TRUE
          /\ next_message \in Int
          /\ Len(partial) < 4
          /\ pos = start[Here] + Len(partial)
          /\ \A j \in 1 .. Len(partial) : partial[j] = stream[start[Here] + j]
       \/ /\ reading_length = FALSE
          /\ Here <= Len(sent)
          /\ next_message = Len(sent[Here])
          /\ Len(partial) < next_message
          /\ pos = start[Here] + 4 + Len(partial)
          /\ \A j \in 1 .. Len(partial) : partial[j] = stream[start[Here] + 4 + j]

Inv == Frames /\ InOrder /\ Position

\* The lengths and entries the invariant speaks of are well defined.
LEMMA InvTypes ==
    ASSUME Inv
    PROVE  /\ Len(sent) \in Nat /\ Len(stream) \in Nat
           /\ Len(partial) \in Nat /\ Len(parsed) \in Nat
           /\ parsed \in Seq(Seq(Byte))
           /\ DOMAIN parsed = 1 .. Len(parsed)
           /\ Here \in 1 .. (Len(sent) + 1)
           /\ \A k \in 1 .. (Len(sent) + 1) : start[k] \in Nat
           /\ \A k \in 1 .. Len(sent) :
                 /\ sent[k] \in Seq(Byte)
                 /\ Len(sent[k]) \in Nat
                 /\ Len(sent[k]) < Int32Limit
<1>1. /\ sent \in Seq(Message) /\ stream \in Seq(Byte) /\ start \in Seq(Nat)
      /\ Len(start) = Len(sent) + 1
      /\ partial \in Seq(Byte)
      /\ buffers \in Seq(Seq(Byte)) /\ received \in Seq(Seq(Byte))
  BY DEF Inv, Frames, Position
<1>2. /\ Len(sent) \in Nat /\ Len(stream) \in Nat /\ Len(partial) \in Nat
  BY <1>1, LenProperties
<1>3. parsed \in Seq(Seq(Byte))
  BY <1>1, ConcatProperties DEF parsed
<1>4. Len(parsed) \in Nat /\ DOMAIN parsed = 1 .. Len(parsed)
  BY <1>3, LenProperties
<1>5. Here \in 1 .. (Len(sent) + 1)
  BY <1>2, <1>4 DEF Here, Inv, InOrder
<1>6. \A k \in 1 .. (Len(sent) + 1) : start[k] \in Nat
  BY <1>1, ElementOfSeq
<1>7. ASSUME NEW k \in 1 .. Len(sent)
      PROVE  sent[k] \in Seq(Byte) /\ Len(sent[k]) \in Nat /\ Len(sent[k]) < Int32Limit
  <2>1. sent[k] \in Message
    BY <1>1, ElementOfSeq
  <2>2. sent[k] \in Seq(Byte) /\ Len(sent[k]) < Int32Limit
    BY <2>1, MessageAssumption
  <2> QED BY <2>2, LenProperties
<1> QED BY <1>2, <1>3, <1>4, <1>5, <1>6, <1>7

\* What an iteration of parse_blob inserts continues what partial holds: if
\* partial is the stream from offset o on, so is the filled buffer.
LEMMA InsertedProperties ==
    ASSUME Inv, NEW o \in Nat, NEW want \in Nat, want > 0, pos < arrived,
           pos = o + Len(partial),
           \A j \in 1 .. Len(partial) : partial[j] = stream[o + j]
    PROVE  LET t == Lesser(want, arrived - pos)
           IN  /\ t \in Nat /\ 0 < t /\ t <= want /\ pos + t <= arrived
               /\ Inserted(want) \in Seq(Byte)
               /\ Len(Inserted(want)) = Len(partial) + t
               /\ \A j \in 1 .. (Len(partial) + t) : Inserted(want)[j] = stream[o + j]
<1> DEFINE t == Lesser(want, arrived - pos)
           more == SubSeq(stream, pos + 1, pos + t)
<1>1. /\ stream \in Seq(Byte) /\ Len(stream) \in Nat
      /\ partial \in Seq(Byte) /\ Len(partial) \in Nat
      /\ arrived \in Nat /\ pos \in Nat /\ arrived <= Len(stream)
  BY InvTypes DEF Inv, Frames, Position
<1>2. t \in Nat /\ 0 < t /\ t <= want /\ pos + t <= arrived
  <2>1. arrived - pos \in Nat /\ 0 < arrived - pos
    BY <1>1
  <2>2. CASE want <= arrived - pos
    <3>1. t = want
      BY <2>2 DEF Lesser
    <3> HIDE DEF t
    <3> QED BY <1>1, <2>1, <2>2, <3>1
  <2>3. CASE ~(want <= arrived - pos)
    <3>1. t = arrived - pos
      BY <2>3 DEF Lesser
    <3> HIDE DEF t
    <3> QED BY <1>1, <2>1, <2>3, <3>1
  <2> QED BY <2>2, <2>3
<1> HIDE DEF t
<1>3. /\ more \in Seq(Byte)
      /\ Len(more) = t
      /\ \A j \in 1 .. t : more[j] = stream[pos + j]
  <2>1. \A i \in (pos + 1) .. (pos + t) : stream[i] \in Byte
    BY <1>1, <1>2, ElementOfSeq
  <2>2. /\ more \in Seq(Byte)
        /\ Len(more) = IF pos + 1 <= pos + t THEN (pos + t) - (pos + 1) + 1 ELSE 0
        /\ \A i \in 1 .. ((pos + t) - (pos + 1) + 1) : more[i] = stream[(pos + 1) + i - 1]
    BY <1>1, <1>2, <2>1, SubSeqProperties
  <2> QED BY <1>1, <1>2, <2>2
<1>4. Inserted(want) = partial \o more
  BY DEF Inserted, t
<1> HIDE DEF more
<1>5. /\ partial \o more \in Seq(Byte)
      /\ Len(partial \o more) = Len(partial) + t
      /\ \A i \in 1 .. (Len(partial) + t) :
            (partial \o more)[i] = IF i <= Len(partial) THEN partial[i] ELSE more[i - Len(partial)]
  BY <1>1, <1>3, ConcatProperties
<1>6. ASSUME NEW j \in 1 .. (Len(partial) + t)
      PROVE  (partial \o more)[j] = stream[o + j]
  <2>1. CASE j <= Len(partial)
    BY <1>1, <1>2, <1>5, <2>1
  <2>2. CASE ~(j <= Len(partial))
    <3>1. /\ j - Len(partial) \in 1 .. t
          /\ pos + (j - Len(partial)) = o + j
      BY <1>1, <1>2, <2>2
    <3>2. (partial \o more)[j] = more[j - Len(partial)]
      BY <1>5, <2>2
    <3> QED BY <1>3, <3>1, <3>2
  <2> QED BY <2>1, <2>2
<1> QED BY <1>2, <1>4, <1>5, <1>6 DEF t

\* A message put into message_buffers_ is one more parsed message.
LEMMA ParsedGrows ==
    ASSUME Inv, NEW m \in Seq(Byte), buffers' = Append(buffers, m), received' = received
    PROVE  /\ Len(parsed') = Len(parsed) + 1
           /\ \A j \in 1 .. Len(parsed) : parsed'[j] = parsed[j]
           /\ parsed'[Len(parsed) + 1] = m
           /\ buffers' \in Seq(Seq(Byte))
<1>1. buffers \in Seq(Seq(Byte)) /\ received \in Seq(Seq(Byte))
  BY DEF Inv, Position
<1>2. /\ buffers' \in Seq(Seq(Byte))
      /\ Len(buffers') = Len(buffers) + 1
      /\ \A i \in 1 .. Len(buffers) : buffers'[i] = buffers[i]
      /\ buffers'[Len(buffers) + 1] = m
  BY <1>1, AppendProperties
<1>3. Len(buffers) \in Nat /\ Len(received) \in Nat
  BY <1>1, LenProperties
<1>4. /\ Len(parsed) = Len(received) + Len(buffers)
      /\ \A i \in 1 .. (Len(received) + Len(buffers)) :
            parsed[i] = IF i <= Len(received) THEN received[i] ELSE buffers[i - Len(received)]
  BY <1>1, ConcatProperties DEF parsed
<1>5. /\ Len(parsed') = Len(received) + Len(buffers')
      /\ \A i \in 1 .. (Len(received) + Len(buffers')) :
            parsed'[i] = IF i <= Len(received) THEN received[i] ELSE buffers'[i - Len(received)]
  <2>1. parsed' = received \o buffers'
    BY DEF parsed
  <2> QED BY <1>1, <1>2, <2>1, ConcatProperties
<1>6. Len(parsed') = Len(parsed) + 1
  BY <1>2, <1>3, <1>4, <1>5
<1>7. ASSUME NEW j \in 1 .. Len(parsed)
      PROVE  parsed'[j] = parsed[j]
  <2>1. /\ j \in 1 .. (Len(received) + Len(buffers))
        /\ j \in 1 .. (Len(received) + Len(buffers'))
    BY <1>2, <1>3, <1>4
  <2>2. CASE j <= Len(received)
    <3>1. parsed[j] = received[j]
      BY <1>4, <2>1, <2>2
    <3>2. parsed'[j] = received[j]
      BY <1>5, <2>1, <2>2
    <3> QED BY <3>1, <3>2
  <2>3. CASE ~(j <= Len(received))
    <3>1. parsed[j] = buffers[j - Len(received)]
      BY <1>4, <2>1, <2>3
    <3>2. parsed'[j] = buffers'[j - Len(received)]
      BY <1>5, <2>1, <2>3
    <3>3. j - Len(received) \in 1 .. Len(buffers)
      BY <1>3, <2>1, <2>3
    <3> QED BY <1>2, <3>1, <3>2, <3>3
  <2> QED BY <2>2, <2>3
<1>8. parsed'[Len(parsed) + 1] = m
  <2>1. /\ Len(parsed) + 1 \in 1 .. (Len(received) + Len(buffers'))
        /\ ~(Len(parsed) + 1 <= Len(received))
        /\ Len(parsed) + 1 - Len(received) = Len(buffers) + 1
    BY <1>2, <1>3, <1>4
  <2> QED BY <1>2, <1>5, <2>1
<1> QED BY <1>2, <1>6, <1>7, <1>8

\* Retrieving a message moves it from message_buffers_ to the messages received
\* and leaves the parsed ones as they were; it is the oldest one not received.
LEMMA RetrieveKeepsParsed ==
    ASSUME Inv, retrieve_message
    PROVE  /\ parsed' = parsed
           /\ received' \in Seq(Seq(Byte)) /\ buffers' \in Seq(Seq(Byte))
           /\ Len(received) + 1 \in 1 .. Len(parsed)
           /\ Head(buffers) = parsed[Len(received) + 1]
<1> DEFINE h == Head(buffers)
<1>1. /\ buffers \in Seq(Seq(Byte)) /\ received \in Seq(Seq(Byte))
      /\ buffers # <<>>
      /\ received' = Append(received, h) /\ buffers' = Tail(buffers)
  BY DEF Inv, Position, retrieve_message
<1>2. /\ h \in Seq(Byte) /\ Tail(buffers) \in Seq(Seq(Byte))
      /\ h = buffers[1]
  BY <1>1, HeadTailProperties
<1>3. /\ Append(received, h) = received \o <<h>>
      /\ <<h>> \in Seq(Seq(Byte))
  BY <1>1, <1>2, AppendIsConcat
<1>4. Len(buffers) \in Nat \ {0} /\ Len(received) \in Nat
  BY <1>1, EmptySeq, LenProperties
<1>5. <<h>> \o Tail(buffers) = buffers
  <2>1. SubSeq(buffers, 1, Len(buffers)) = <<buffers[1]>> \o SubSeq(buffers, 1 + 1, Len(buffers))
    <3>1. 1 \in 1 .. Len(buffers) /\ Len(buffers) \in 1 .. Len(buffers)
      BY <1>4
    <3> QED BY ONLY <1>1, <3>1, SubSeqRecursiveFirst
  <2> QED BY <1>1, <1>2, <2>1, SubSeqFull, TailIsSubSeq
<1>6. (received \o <<h>>) \o Tail(buffers) = received \o (<<h>> \o Tail(buffers))
  BY <1>1, <1>2, <1>3, ConcatAssociative
<1>7. parsed' = parsed
  BY <1>1, <1>3, <1>5, <1>6 DEF parsed
<1>8. received' \in Seq(Seq(Byte)) /\ buffers' \in Seq(Seq(Byte))
  BY <1>1, <1>2, AppendProperties
<1>9. Len(parsed) = Len(received) + Len(buffers)
  BY <1>1, ConcatProperties DEF parsed
<1>10. Len(received) + 1 \in 1 .. (Len(received) + Len(buffers))
  BY <1>4
<1>11. parsed[Len(received) + 1] = buffers[Len(received) + 1 - Len(received)]
  BY <1>1, <1>4, <1>10, ConcatProperties DEF parsed
<1> QED BY <1>2, <1>4, <1>7, <1>8, <1>9, <1>10, <1>11

\* Bytes that have arrived and are not consumed belong to a message that was
\* sent: the parser stands in its frame.
LEMMA InAFrame ==
    ASSUME Inv, pos < arrived
    PROVE  Here \in 1 .. Len(sent)
<1>1. Here \in 1 .. (Len(sent) + 1) /\ Len(partial) \in Nat /\ Len(stream) \in Nat /\ Len(sent) \in Nat
  BY InvTypes
<1>2. ASSUME Here = Len(sent) + 1 PROVE FALSE
  <2>1. start[Here] = Len(stream) /\ arrived \in 0 .. Len(stream) /\ pos \in 0 .. arrived
    BY <1>2 DEF Inv, Frames, Position
  <2>2. pos = Len(stream) + Len(partial) \/ Here <= Len(sent)
    BY <2>1 DEF Inv, Position
  <2> QED BY <1>1, <1>2, <2>1, <2>2
<1> QED BY <1>1, <1>2

\* A step of the parser leaves the frames as they are.
LEMMA FramesKept ==
    ASSUME Inv, UNCHANGED <<sent, stream, start>>
    PROVE  Frames'
  BY DEF Inv, Frames

\* Bytes appended to the stream leave what the parser has read as it was.
LEMMA SendKeepsInv ==
    ASSUME Inv, NEW m \in Message, Send(m)
    PROVE  Inv'
<1> DEFINE d == Digits(Len(m))
           f == d \o m
<1>1. /\ sent' = Append(sent, m)
      /\ stream' = stream \o f
      /\ start' = Append(start, start[Len(start)] + 4 + Len(m))
      /\ arrived' = arrived
      /\ UNCHANGED <<pos, reading_length, next_message, partial, buffers, received>>
  BY DEF Send, send_data, parserVars
<1>2. m \in Seq(Byte) /\ Len(m) \in Nat
  BY MessageAssumption, LenProperties
<1>3. d \in Seq(Byte) /\ Len(d) = 4
  <2> DEFINE q1 == Len(m) \div Base
             q2 == q1 \div Base
             q3 == q2 \div Base
  <2>1. q1 \in Nat /\ Len(m) % Base \in Byte
    BY <1>2, DivMod
  <2>2. q2 \in Nat /\ q1 % Base \in Byte
    BY <2>1, DivMod
  <2>3. q3 \in Nat /\ q2 % Base \in Byte
    BY <2>2, DivMod
  <2>4. q3 % Base \in Byte
    BY <2>3, DivMod
  <2>5. d = <<Len(m) % Base, q1 % Base, q2 % Base, q3 % Base>>
    BY DEF Digits
  <2> HIDE DEF d, q1, q2, q3
  <2> QED BY <2>1, <2>2, <2>3, <2>4, <2>5
<1> HIDE DEF d
<1>4. /\ f \in Seq(Byte)
      /\ Len(f) = 4 + Len(m)
      /\ \A i \in 1 .. (4 + Len(m)) : f[i] = IF i <= 4 THEN d[i] ELSE m[i - 4]
  <2>1. /\ f \in Seq(Byte)
        /\ Len(f) = Len(d) + Len(m)
        /\ \A i \in 1 .. Len(d) + Len(m) : f[i] = IF i <= Len(d) THEN d[i] ELSE m[i - Len(d)]
    BY ONLY <1>2, <1>3, ConcatProperties
  <2> QED BY <1>3, <2>1
<1> HIDE DEF f
<1>5. /\ stream \in Seq(Byte) /\ Len(stream) \in Nat
      /\ sent \in Seq(Message) /\ Len(sent) \in Nat
      /\ start \in Seq(Nat) /\ Len(start) = Len(sent) + 1
      /\ start[Len(sent) + 1] = Len(stream)
      /\ \A k \in 1 .. (Len(sent) + 1) : start[k] \in Nat
  BY InvTypes DEF Inv, Frames
<1>6. /\ stream' \in Seq(Byte)
      /\ Len(stream') = Len(stream) + 4 + Len(m)
      /\ \A i \in 1 .. Len(stream) : stream'[i] = stream[i]
      /\ \A i \in 1 .. (4 + Len(m)) : stream'[Len(stream) + i] = f[i]
  <2>1. /\ stream \o f \in Seq(Byte)
        /\ Len(stream \o f) = Len(stream) + Len(f)
        /\ \A i \in 1 .. (Len(stream) + Len(f)) :
              (stream \o f)[i] = IF i <= Len(stream) THEN stream[i] ELSE f[i - Len(stream)]
    <3>1. stream \in Seq(Byte) /\ f \in Seq(Byte)
      BY <1>4, <1>5
    <3> QED BY ONLY <3>1, ConcatProperties
  <2>2. ASSUME NEW i \in 1 .. Len(stream) PROVE stream'[i] = stream[i]
    <3>1. i \in 1 .. (Len(stream) + Len(f)) /\ i <= Len(stream)
      BY <1>2, <1>4, <1>5
    <3> QED BY <1>1, <2>1, <3>1
  <2>3. ASSUME NEW i \in 1 .. (4 + Len(m)) PROVE stream'[Len(stream) + i] = f[i]
    <3>1. /\ Len(stream) + i \in 1 .. (Len(stream) + Len(f))
          /\ ~(Len(stream) + i <= Len(stream))
          /\ Len(stream) + i - Len(stream) = i
      BY <1>2, <1>4, <1>5
    <3> QED BY <1>1, <2>1, <3>1
  <2> QED BY <1>1, <1>2, <1>4, <1>5, <2>1, <2>2, <2>3
<1>7. /\ sent' \in Seq(Message)
      /\ Len(sent') = Len(sent) + 1
      /\ \A k \in 1 .. Len(sent) : sent'[k] = sent[k]
      /\ sent'[Len(sent) + 1] = m
  BY <1>1, <1>5, AppendProperties
<1>8. /\ start' \in Seq(Nat)
      /\ Len(start') = Len(sent) + 2
      /\ \A k \in 1 .. (Len(sent) + 1) : start'[k] = start[k]
      /\ start'[Len(sent) + 2] = Len(stream) + 4 + Len(m)
  <2>1. start' = Append(start, Len(stream) + 4 + Len(m)) /\ Len(stream) + 4 + Len(m) \in Nat
    BY <1>1, <1>2, <1>5
  <2>2. /\ Append(start, Len(stream) + 4 + Len(m)) \in Seq(Nat)
        /\ Len(Append(start, Len(stream) + 4 + Len(m))) = Len(start) + 1
        /\ \A i \in 1 .. Len(start) : Append(start, Len(stream) + 4 + Len(m))[i] = start[i]
        /\ Append(start, Len(stream) + 4 + Len(m))[Len(start) + 1] = Len(stream) + 4 + Len(m)
    BY <1>5, <2>1, AppendProperties
  <2>3. Len(start) + 1 = Len(sent) + 2
    BY <1>5
  <2> QED BY <1>5, <2>1, <2>2, <2>3
<1>9. ASSUME NEW k \in 1 .. Len(sent')
      PROVE  /\ start'[k + 1] = start'[k] + 4 + Len(sent'[k])
             /\ start'[k + 1] <= Len(stream')
             /\ \A j \in 1 .. 4 : stream'[start'[k] + j] = Digits(Len(sent'[k]))[j]
             /\ \A j \in 1 .. Len(sent'[k]) : stream'[start'[k] + 4 + j] = sent'[k][j]
  <2>1. CASE k \in 1 .. Len(sent)
    <3>1. /\ start[k + 1] = start[k] + 4 + Len(sent[k])
          /\ start[k + 1] <= Len(stream)
          /\ \A j \in 1 .. 4 : stream[start[k] + j] = Digits(Len(sent[k]))[j]
          /\ \A j \in 1 .. Len(sent[k]) : stream[start[k] + 4 + j] = sent[k][j]
      BY <2>1 DEF Inv, Frames
    <3>2. /\ start'[k] = start[k] /\ start'[k + 1] = start[k + 1]
          /\ sent'[k] = sent[k]
      <4>1. k \in 1 .. (Len(sent) + 1) /\ k + 1 \in 1 .. (Len(sent) + 1)
        BY <1>5, <2>1
      <4> QED BY <1>7, <1>8, <2>1, <4>1
    <3>3. start[k] \in Nat /\ Len(sent[k]) \in Nat
      <4>1. k \in 1 .. (Len(sent) + 1)
        BY <1>5, <2>1
      <4> QED BY <1>5, <2>1, <4>1, InvTypes
    <3>7. start[k] + 4 + Len(sent[k]) <= Len(stream) /\ Len(stream) \in Nat
      BY <1>5, <3>1
    <3>4. ASSUME NEW j \in 1 .. 4 PROVE stream'[start[k] + j] = stream[start[k] + j]
      <4>1. start[k] + j \in 1 .. Len(stream)
        <5>1. \A a, b, c \in Nat : a + 4 + b <= c => a + j \in 1 .. c
          OBVIOUS
        <5> QED BY <3>3, <3>7, <5>1
      <4> QED BY <1>6, <4>1
    <3>5. ASSUME NEW j \in 1 .. Len(sent[k])
          PROVE  stream'[start[k] + 4 + j] = stream[start[k] + 4 + j]
      <4>1. \A a, b, c \in Nat : a + 4 + b <= c => \A i \in 1 .. b : a + 4 + i \in 1 .. c
        OBVIOUS
      <4>2. start[k] + 4 + j \in 1 .. Len(stream)
        BY ONLY <3>3, <3>7, <4>1, j \in 1 .. Len(sent[k]), Zenon
      <4> QED BY ONLY <1>6, <4>2, Zenon
    <3>6. start[k + 1] <= Len(stream')
      <4>1. start[k + 1] = start[k] + 4 + Len(sent[k]) /\ Len(stream') = Len(stream) + 4 + Len(m)
        BY <1>6, <3>1
      <4> QED BY <1>2, <3>3, <3>7, <4>1
    <3>8. \A j \in 1 .. 4 : stream'[start'[k] + j] = Digits(Len(sent'[k]))[j]
      BY ONLY <3>1, <3>2, <3>4, Zenon
    <3>9. \A j \in 1 .. Len(sent'[k]) : stream'[start'[k] + 4 + j] = sent'[k][j]
      BY ONLY <3>1, <3>2, <3>5, Zenon
    <3>10. start'[k + 1] = start'[k] + 4 + Len(sent'[k]) /\ start'[k + 1] <= Len(stream')
      BY ONLY <3>1, <3>2, <3>6, Zenon
    <3> QED BY <3>8, <3>9, <3>10
  <2>2. CASE k = Len(sent) + 1
    <3>1. /\ start'[k] = Len(stream) /\ start'[k + 1] = Len(stream) + 4 + Len(m)
          /\ sent'[k] = m
      <4>1. k + 1 = Len(sent) + 2 /\ k \in 1 .. (Len(sent) + 1)
        BY <1>5, <2>2
      <4> QED BY <1>5, <1>7, <1>8, <2>2, <4>1
    <3>2. ASSUME NEW j \in 1 .. 4 PROVE stream'[Len(stream) + j] = Digits(Len(m))[j]
      <4>1. j \in 1 .. (4 + Len(m)) /\ j <= 4
        BY <1>2
      <4> QED BY <1>4, <1>6, <4>1 DEF d
    <3>3. ASSUME NEW j \in 1 .. Len(m) PROVE stream'[Len(stream) + 4 + j] = m[j]
      <4>1. /\ 4 + j \in 1 .. (4 + Len(m)) /\ ~(4 + j <= 4) /\ 4 + j - 4 = j
            /\ Len(stream) + 4 + j = Len(stream) + (4 + j)
        BY <1>2, <1>5
      <4>2. f[4 + j] = m[j]
        BY <1>4, <4>1
      <4> QED BY <1>6, <4>1, <4>2
    <3>4. Len(stream) + 4 + Len(m) <= Len(stream')
      BY <1>2, <1>5, <1>6
    <3> QED BY <3>1, <3>2, <3>3, <3>4
  <2> QED BY <1>5, <1>7, <2>1, <2>2
<1>10. Frames'
  <2>1. Len(start') = Len(sent') + 1 /\ start'[Len(sent') + 1] = Len(stream')
    <3>1. Len(sent') + 1 = Len(sent) + 2
      BY <1>5, <1>7
    <3> QED BY <1>6, <1>8, <3>1
  <2> QED BY <1>6, <1>7, <1>8, <1>9, <2>1 DEF Frames
<1>11. parsed' = parsed /\ Here' = Here
  BY <1>1 DEF parsed, Here
<1>12. InOrder'
  <2>1. /\ Len(parsed) <= Len(sent) /\ Len(parsed) \in Nat
        /\ DOMAIN parsed = 1 .. Len(parsed)
        /\ \A k \in DOMAIN parsed : parsed[k] = sent[k]
    BY InvTypes DEF Inv, InOrder
  <2>2. ASSUME NEW k \in DOMAIN parsed PROVE parsed[k] = sent'[k]
    <3>1. k \in 1 .. Len(sent)
      BY <1>5, <2>1
    <3> QED BY <1>7, <2>1, <3>1
  <2>3. Len(parsed) <= Len(sent')
    BY <1>5, <1>7, <2>1
  <2> QED BY <1>11, <2>2, <2>3 DEF InOrder
<1>13. Position'
  <2>1. /\ arrived \in 0 .. Len(stream) /\ pos \in 0 .. arrived
        /\ partial \in Seq(Byte) /\ Len(partial) \in Nat
        /\ buffers \in Seq(Seq(Byte)) /\ received \in Seq(Seq(Byte))
        /\ Here \in 1 .. (Len(sent) + 1)
    BY InvTypes DEF Inv, Position
  <2>2. arrived' \in 0 .. Len(stream') /\ pos' \in 0 .. arrived'
    BY <1>1, <1>2, <1>5, <1>6, <2>1
  <2>3. start'[Here] = start[Here] /\ start[Here] \in Nat
    BY <1>5, <1>8, <2>1
  <2>6. Len(stream) \in Nat /\ Len(partial) \in Nat /\ pos <= Len(stream)
    BY <1>5, <2>1
  <2>4. CASE reading_length = TRUE
    <3>1. /\ next_message \in Int
          /\ Len(partial) < 4
          /\ pos = start[Here] + Len(partial)
          /\ \A j \in 1 .. Len(partial) : partial[j] = stream[start[Here] + j]
      BY <2>4 DEF Inv, Position
    <3>2. ASSUME NEW j \in 1 .. Len(partial) PROVE stream'[start[Here] + j] = partial[j]
      <4>1. pos = start[Here] + Len(partial) /\ start[Here] \in Nat
        BY <2>3, <3>1
      <4>2. start[Here] + j \in 1 .. Len(stream)
        BY <2>6, <4>1
      <4> QED BY <1>6, <3>1, <4>2
    <3> QED BY <1>1, <1>11, <2>1, <2>2, <2>3, <2>4, <3>1, <3>2 DEF Position
  <2>5. CASE reading_length # TRUE
    <3>1. /\ reading_length = FALSE
          /\ Here <= Len(sent)
          /\ next_message = Len(sent[Here])
          /\ Len(partial) < next_message
          /\ pos = start[Here] + 4 + Len(partial)
          /\ \A j \in 1 .. Len(partial) : partial[j] = stream[start[Here] + 4 + j]
      BY <2>5 DEF Inv, Position
    <3>2. ASSUME NEW j \in 1 .. Len(partial) PROVE stream'[start[Here] + 4 + j] = partial[j]
      <4>1. pos = start[Here] + 4 + Len(partial) /\ start[Here] \in Nat
        BY <2>3, <3>1
      <4>2. start[Here] + 4 + j \in 1 .. Len(stream)
        BY <2>6, <4>1
      <4> QED BY <1>6, <3>1, <4>2
    <3>3. Here <= Len(sent') /\ sent'[Here] = sent[Here]
      <4>1. Here \in 1 .. Len(sent)
        BY <1>5, <2>1, <3>1
      <4> QED BY <1>5, <1>7, <4>1
    <3> QED BY <1>1, <1>11, <2>1, <2>2, <2>3, <3>1, <3>2, <3>3 DEF Position
  <2> QED BY <2>4, <2>5
<1> QED BY <1>10, <1>12, <1>13 DEF Inv

\* Where the parser stands in the frame while it reads a length, and while it
\* reads a body.
LEMMA ReadingLength ==
    ASSUME Inv, pos < arrived, reading_length
    PROVE  /\ Len(partial) < 4
           /\ pos = start[Here] + Len(partial)
           /\ \A j \in 1 .. Len(partial) : partial[j] = stream[start[Here] + j]
  BY DEF Inv, Position

\* What the parser knows while it reads a body.
LEMMA ReadingBody ==
    ASSUME Inv, ~reading_length
    PROVE  /\ Here <= Len(sent)
           /\ next_message = Len(sent[Here])
           /\ Len(partial) < next_message
           /\ pos = start[Here] + 4 + Len(partial)
           /\ \A j \in 1 .. Len(partial) : partial[j] = stream[start[Here] + 4 + j]
  BY DEF Inv, Position

\* A message cut out that equals the one sent keeps the order.
LEMMA OneMoreParsed ==
    ASSUME Inv, Here \in 1 .. Len(sent), sent' = sent, received' = received,
           buffers' = Append(buffers, sent[Here])
    PROVE  InOrder' /\ Here' = Here + 1 /\ buffers' \in Seq(Seq(Byte))
<1>1. sent[Here] \in Seq(Byte) /\ Len(parsed) \in Nat /\ Len(sent) \in Nat
      /\ DOMAIN parsed = 1 .. Len(parsed)
  BY InvTypes
<1>2. /\ Len(parsed') = Len(parsed) + 1
      /\ \A j \in 1 .. Len(parsed) : parsed'[j] = parsed[j]
      /\ parsed'[Len(parsed) + 1] = sent[Here]
      /\ buffers' \in Seq(Seq(Byte))
  BY <1>1, ParsedGrows
<1>3. Here' = Here + 1
  BY <1>2 DEF Here
<1>4. DOMAIN parsed' = 1 .. (Len(parsed) + 1)
  <2>1. parsed' \in Seq(Seq(Byte))
    <3>1. received' \in Seq(Seq(Byte))
      BY DEF Inv, Position
    <3>2. parsed' = received' \o buffers'
      BY DEF parsed
    <3> QED BY ONLY <1>2, <3>1, <3>2, ConcatProperties
  <2> QED BY <1>2, <2>1, LenProperties
<1>5. ASSUME NEW k \in DOMAIN parsed' PROVE parsed'[k] = sent'[k]
  <2>1. CASE k \in 1 .. Len(parsed)
    BY <1>1, <1>2, <2>1 DEF Inv, InOrder
  <2>2. CASE k = Len(parsed) + 1
    BY <1>2, <2>2 DEF Here
  <2> QED BY <1>1, <1>4, <2>1, <2>2
<1>6. Len(parsed') <= Len(sent')
  BY <1>1, <1>2 DEF Here
<1> QED BY <1>2, <1>3, <1>5, <1>6 DEF InOrder

\* Reading what there is of a length keeps the invariant.
LEMMA ReadLengthKeepsInv ==
    ASSUME Inv, ReadLength
    PROVE  Inv'
<1> DEFINE o == start[Here]
           w == 4 - Len(partial)
           t == Lesser(w, arrived - pos)
           filled == Inserted(w)
           n == Len(sent[Here])
<1>1. /\ pos < arrived /\ reading_length
      /\ pos' = pos + t
      /\ UNCHANGED <<sent, stream, start, arrived, received>>
  BY DEF ReadLength, framingVars
<1>2. Here \in 1 .. Len(sent)
  BY <1>1, InAFrame
<1>3. /\ o \in Nat /\ n \in Nat /\ n < Int32Limit /\ sent[Here] \in Seq(Byte)
      /\ Len(partial) \in Nat /\ Len(stream) \in Nat
      /\ arrived \in 0 .. Len(stream) /\ pos \in 0 .. arrived
      /\ Here \in 1 .. (Len(sent) + 1)
  BY <1>2, InvTypes DEF Inv, Position
<1>4. /\ Len(partial) < 4
      /\ pos = o + Len(partial)
      /\ \A j \in 1 .. Len(partial) : partial[j] = stream[o + j]
  BY <1>1, ReadingLength
<1>5. w \in Nat /\ w > 0
  BY <1>3, <1>4
<1>6. /\ t \in Nat /\ 0 < t /\ t <= w /\ pos + t <= arrived
      /\ filled \in Seq(Byte)
      /\ Len(filled) = Len(partial) + t
      /\ \A j \in 1 .. (Len(partial) + t) : filled[j] = stream[o + j]
  BY <1>1, <1>3, <1>4, <1>5, InsertedProperties
<1>7. \/ /\ Len(filled) < 4
         /\ partial' = filled
         /\ UNCHANGED <<reading_length, next_message, buffers>>
      \/ /\ Len(filled) = 4
         /\ next_message' = Int32(filled)
         /\ partial' = <<>>
         /\ \/ Int32(filled) = 0 /\ buffers' = Append(buffers, <<>>) /\ UNCHANGED reading_length
            \/ Int32(filled) # 0 /\ reading_length' = FALSE /\ UNCHANGED buffers
  BY DEF ReadLength
<1> HIDE DEF o, w, t, filled, n
<1>8. Frames'
  BY <1>1, FramesKept
<1>9. pos' = o + Len(filled) /\ pos' \in 0 .. arrived'
  BY <1>1, <1>3, <1>4, <1>6
<1>10. <<>> \in Seq(Byte) /\ Len(<<>>) = 0
  OBVIOUS
<1>11. received \in Seq(Seq(Byte)) /\ buffers \in Seq(Seq(Byte)) /\ next_message \in Int
  <2>1. next_message \in Int
    BY <1>1 DEF Inv, Position
  <2> QED BY <2>1 DEF Inv, Position
<1>12. CASE Len(filled) < 4
  <2>1. partial' = filled /\ UNCHANGED <<reading_length, next_message, buffers>>
    BY <1>7, <1>12, <1>6
  <2>2. parsed' = parsed /\ Here' = Here
    BY <1>1, <2>1 DEF parsed, Here
  <2>3. InOrder'
    BY <1>1, <2>2 DEF Inv, InOrder
  <2>4. reading_length' = TRUE
    BY <1>1, <2>1 DEF Inv, Position
  <2>5. Position'
    BY <1>1, <1>3, <1>6, <1>9, <1>11, <1>12, <2>1, <2>2, <2>4 DEF Position, o
  <2> QED BY <1>8, <2>3, <2>5 DEF Inv
<1>13. CASE Len(filled) = 4
  <2>1. /\ next_message' = Int32(filled)
        /\ partial' = <<>>
        /\ \/ Int32(filled) = 0 /\ buffers' = Append(buffers, <<>>) /\ UNCHANGED reading_length
           \/ Int32(filled) # 0 /\ reading_length' = FALSE /\ UNCHANGED buffers
    BY <1>7, <1>13
  <2>2. \A j \in 1 .. 4 : filled[j] = Digits(n)[j]
    <3>1. \A j \in 1 .. 4 : stream[o + j] = Digits(n)[j]
      BY <1>2 DEF Inv, Frames, o, n
    <3> QED BY <1>6, <1>13, <3>1
  <2>3. Int32(filled) = n
    <3>1. Int32(filled) = Int32(Digits(n))
      <4>1. /\ filled[1] = Digits(n)[1] /\ filled[2] = Digits(n)[2]
            /\ filled[3] = Digits(n)[3] /\ filled[4] = Digits(n)[4]
        BY <2>2
      <4> QED BY <4>1 DEF Int32
    <3> QED BY <1>3, <3>1, LengthRoundTrip
  <2>4. start[Here + 1] = o + 4 + n /\ Len(sent) \in Nat
    BY <1>2, InvTypes DEF Inv, Frames, o, n
  <2>5. CASE n = 0
    <3>1. buffers' = Append(buffers, <<>>) /\ reading_length' = TRUE
      BY <1>1, <2>1, <2>3, <2>5 DEF Inv, Position
    <3>2. sent[Here] = <<>>
      BY <1>3, <2>5, EmptySeq DEF n
    <3>3. InOrder' /\ Here' = Here + 1 /\ buffers' \in Seq(Seq(Byte))
      BY <1>1, <1>2, <3>1, <3>2, OneMoreParsed
    <3>4. start'[Here'] = o + 4
      BY <1>1, <1>3, <2>4, <2>5, <3>3
    <3>5. pos' = start'[Here'] + Len(partial') /\ Len(partial') = 0
      BY <1>3, <1>9, <1>10, <1>13, <2>1, <3>4
    <3>6. Position'
      BY <1>1, <1>3, <1>9, <1>10, <1>11, <2>1, <2>3, <2>5, <3>1, <3>3, <3>5 DEF Position
    <3> QED BY <1>8, <3>3, <3>6 DEF Inv
  <2>6. CASE n # 0
    <3>1. reading_length' = FALSE /\ UNCHANGED buffers
      BY <2>1, <2>3, <2>6
    <3>2. parsed' = parsed /\ Here' = Here
      BY <1>1, <3>1 DEF parsed, Here
    <3>3. InOrder'
      BY <1>1, <3>2 DEF Inv, InOrder
    <3>4. /\ pos' = start'[Here'] + 4 + Len(partial') /\ Len(partial') = 0
          /\ next_message' = Len(sent'[Here']) /\ Len(partial') < next_message'
          /\ Here' <= Len(sent')
      <4>1. start'[Here'] = o /\ sent'[Here'] = sent[Here] /\ sent' = sent
        BY <1>1, <3>2 DEF o
      <4>2. Len(partial') = 0 /\ next_message' = n /\ pos' = o + 4
        BY <1>9, <1>10, <1>13, <2>1, <2>3
      <4>3. o + 4 + 0 = o + 4 /\ 0 < n /\ Here <= Len(sent)
        BY ONLY <1>2, <1>3, <2>4, <2>6
      <4> QED BY ONLY <3>2, <4>1, <4>2, <4>3, Zenon DEF n
    <3>5. Position'
      BY <1>1, <1>3, <1>9, <1>10, <1>11, <2>1, <3>1, <3>4 DEF Position
    <3> QED BY <1>8, <3>3, <3>5 DEF Inv
  <2> QED BY <2>5, <2>6
<1> QED BY <1>7, <1>12, <1>13

\* Reading what there is of a body keeps the invariant.
LEMMA ReadBodyKeepsInv ==
    ASSUME Inv, ReadBody
    PROVE  Inv'
<1> DEFINE o == start[Here] + 4
           n == Len(sent[Here])
           w == n - Len(partial)
           t == Lesser(w, arrived - pos)
           filled == Inserted(w)
<1>1. /\ pos < arrived /\ ~reading_length
      /\ UNCHANGED <<sent, stream, start, arrived, received>>
  BY DEF ReadBody, framingVars
<1>2. Here \in 1 .. Len(sent)
  BY <1>1, InAFrame
<1>3. /\ o \in Nat /\ n \in Nat /\ sent[Here] \in Seq(Byte)
      /\ Len(partial) \in Nat /\ Len(stream) \in Nat
      /\ arrived \in 0 .. Len(stream) /\ pos \in 0 .. arrived
      /\ Here \in 1 .. (Len(sent) + 1) /\ start[Here] \in Nat
  <2>1. /\ start[Here] \in Nat /\ n \in Nat /\ sent[Here] \in Seq(Byte)
        /\ Len(partial) \in Nat /\ Len(stream) \in Nat
        /\ Here \in 1 .. (Len(sent) + 1)
    BY <1>2, InvTypes
  <2>2. o \in Nat
    BY <2>1
  <2> QED BY <2>1, <2>2 DEF Inv, Position
<1>4. /\ next_message = n
      /\ Len(partial) < n
      /\ pos = o + Len(partial)
      /\ \A j \in 1 .. Len(partial) : partial[j] = stream[o + j]
  BY <1>1, <1>3, ReadingBody
<1>5. w \in Nat /\ w > 0
  BY <1>3, <1>4
<1>6. /\ t \in Nat /\ 0 < t /\ t <= w /\ pos + t <= arrived
      /\ filled \in Seq(Byte)
      /\ Len(filled) = Len(partial) + t
      /\ \A j \in 1 .. (Len(partial) + t) : filled[j] = stream[o + j]
  BY <1>1, <1>3, <1>4, <1>5, InsertedProperties
<1>7. SizeT(next_message) = n
  BY <1>3, <1>4 DEF SizeT
<1>8. /\ pos' = pos + t
      /\ \/ /\ Len(filled) # n
            /\ partial' = filled
            /\ UNCHANGED <<reading_length, next_message, buffers>>
         \/ /\ Len(filled) = n
            /\ reading_length' = TRUE
            /\ next_message' = -1
            /\ buffers' = Append(buffers, filled)
            /\ partial' = <<>>
  BY <1>7 DEF ReadBody
<1>14. w = n - Len(partial)
  OBVIOUS
<1> HIDE DEF o, w, t, filled, n
<1>9. Frames'
  BY <1>1, FramesKept
<1>10. pos' = o + Len(filled) /\ pos' \in 0 .. arrived' /\ Len(filled) <= n
  BY <1>1, <1>3, <1>4, <1>6, <1>8, <1>14
<1>11. received \in Seq(Seq(Byte)) /\ buffers \in Seq(Seq(Byte)) /\ <<>> \in Seq(Byte)
  BY DEF Inv, Position
<1>12. CASE Len(filled) # n
  <2>1. partial' = filled /\ UNCHANGED <<reading_length, next_message, buffers>>
    BY <1>8, <1>12
  <2>2. parsed' = parsed /\ Here' = Here
    BY <1>1, <2>1 DEF parsed, Here
  <2>3. InOrder'
    BY <1>1, <2>2 DEF Inv, InOrder
  <2>4. reading_length' = FALSE /\ Len(filled) < n
    <3>1. Len(filled) < n
      <4>1. Len(filled) \in Nat /\ n \in Nat /\ Len(filled) <= n
        BY <1>3, <1>6, <1>10
      <4> QED BY <1>12, <4>1
    <3> QED BY <1>1, <2>1, <3>1 DEF Inv, Position
  <2>5. /\ Here' <= Len(sent') /\ next_message' = Len(sent'[Here'])
        /\ pos' = start'[Here'] + 4 + Len(partial')
    BY <1>1, <1>2, <1>4, <1>10, <2>1, <2>2, <1>3 DEF n, o
  <2>6. \A j \in 1 .. Len(partial') : partial'[j] = stream'[start'[Here'] + 4 + j]
    BY <1>1, <1>6, <2>1, <2>2 DEF o
  <2>7. Position'
    <3>1. Len(partial') < next_message'
      BY <1>4, <2>1, <2>4
    <3> QED BY <1>1, <1>3, <1>6, <1>10, <1>11, <2>1, <2>4, <2>5, <2>6, <3>1 DEF Position
  <2> QED BY <1>9, <2>3, <2>7 DEF Inv
<1>13. CASE Len(filled) = n
  <2>1. /\ reading_length' = TRUE /\ next_message' = -1
        /\ buffers' = Append(buffers, filled) /\ partial' = <<>>
    BY <1>8, <1>13
  <2>2. filled = sent[Here]
    <3>1. \A j \in 1 .. n : stream[o + j] = sent[Here][j]
      BY <1>2 DEF Inv, Frames, o, n
    <3>2. \A j \in 1 .. Len(filled) : filled[j] = sent[Here][j]
      BY <1>6, <1>13, <3>1
    <3> QED BY <1>3, <1>6, <1>13, <3>2, SeqEqual DEF n
  <2>3. InOrder' /\ Here' = Here + 1 /\ buffers' \in Seq(Seq(Byte))
    BY <1>1, <1>2, <2>1, <2>2, OneMoreParsed
  <2>4. start[Here + 1] = o + n
    BY <1>2, <1>3 DEF Inv, Frames, o, n
  <2>5. pos' = start'[Here'] + Len(partial') /\ Len(partial') = 0
    BY <1>1, <1>3, <1>10, <1>13, <2>1, <2>3, <2>4
  <2>6. Position'
    BY <1>1, <1>3, <1>10, <1>11, <2>1, <2>3, <2>5 DEF Position
  <2> QED BY <1>9, <2>3, <2>6 DEF Inv
<1> QED BY <1>12, <1>13

--------------------------------------------------------------------------------
(* The theorems *)

\* The parser starts within the invariant.
LEMMA InitInv == Init => Inv
<1> SUFFICES ASSUME Init PROVE Inv
  OBVIOUS
<1>1. /\ sent = <<>> /\ stream = <<>> /\ start = <<0>> /\ arrived = 0 /\ pos = 0
      /\ reading_length = TRUE /\ next_message = 0 /\ partial = <<>>
      /\ buffers = <<>> /\ received = <<>>
  BY DEF Init, FramingInit
<1>2. parsed = <<>> /\ Here = 1
  <2>1. <<>> \in Seq(Seq(Byte)) /\ <<>> \o <<>> = <<>>
    OBVIOUS
  <2> QED BY <1>1, <2>1 DEF parsed, Here
<1>3. Frames
  BY <1>1 DEF Frames
<1>4. InOrder
  BY <1>1, <1>2 DEF InOrder
<1>5. Position
  BY <1>1, <1>2 DEF Position
<1> QED BY <1>3, <1>4, <1>5 DEF Inv

\* Every step keeps the invariant.
LEMMA NextInv ==
    ASSUME Inv, [Next]_vars
    PROVE  Inv'
<1>1. ASSUME NEW m \in Message, Send(m) PROVE Inv'
  BY <1>1, SendKeepsInv
<1>2. CASE Blob
  <2>1. /\ arrived' \in (arrived + 1) .. Len(stream)
        /\ UNCHANGED <<sent, stream, start, pos, reading_length, next_message, partial,
                       buffers, received>>
    BY <1>2 DEF Blob, Arrive, parserVars
  <2>2. parsed' = parsed /\ Here' = Here
    BY <2>1 DEF parsed, Here
  <2>3. Frames' /\ InOrder'
    BY <2>1, <2>2 DEF Inv, Frames, InOrder
  <2>4. arrived' \in 0 .. Len(stream') /\ pos' \in 0 .. arrived'
    <3>1. Len(stream) \in Nat /\ arrived \in 0 .. Len(stream) /\ pos \in 0 .. arrived
      BY InvTypes DEF Inv, Position
    <3> QED BY <2>1, <3>1
  <2>5. Position'
    BY <2>1, <2>2, <2>4 DEF Inv, Position
  <2> QED BY <2>3, <2>5 DEF Inv
<1>3. CASE ReadLength
  BY <1>3, ReadLengthKeepsInv
<1>4. CASE ReadBody
  BY <1>4, ReadBodyKeepsInv
<1>5. CASE retrieve_message
  <2>1. UNCHANGED <<sent, stream, start, arrived, pos, reading_length, next_message, partial>>
    BY <1>5 DEF retrieve_message, framingVars
  <2>2. /\ parsed' = parsed
        /\ received' \in Seq(Seq(Byte)) /\ buffers' \in Seq(Seq(Byte))
    BY <1>5, RetrieveKeepsParsed
  <2>3. Here' = Here
    BY <2>2 DEF Here
  <2>4. Frames' /\ InOrder'
    BY <2>1, <2>2 DEF Inv, Frames, InOrder
  <2>5. Position'
    BY <2>1, <2>2, <2>3 DEF Inv, Position
  <2> QED BY <2>4, <2>5 DEF Inv
<1>6. CASE UNCHANGED vars
  <2>1. UNCHANGED <<sent, stream, start, arrived, pos, reading_length, next_message, partial,
                    buffers, received>>
    BY <1>6 DEF vars, framingVars, parserVars
  <2>2. parsed' = parsed /\ Here' = Here
    BY <2>1 DEF parsed, Here
  <2> QED BY <2>1, <2>2 DEF Inv, Frames, InOrder, Position
<1> QED BY <1>1, <1>2, <1>3, <1>4, <1>5, <1>6 DEF Next, parse_blob

\* A parser that has consumed every byte stands at the end of the last frame.
LEMMA InvHoldsNothingBack == Inv => NothingHeldBack
<1> SUFFICES ASSUME Inv, pos = Len(stream) PROVE Len(parsed) = Len(sent)
  BY DEF NothingHeldBack
<1>1. /\ Here \in 1 .. (Len(sent) + 1) /\ Len(sent) \in Nat /\ Len(parsed) \in Nat
      /\ Len(partial) \in Nat /\ Len(stream) \in Nat
  BY InvTypes
<1>2. ASSUME Here \in 1 .. Len(sent) PROVE FALSE
  <2>1. /\ start[Here + 1] = start[Here] + 4 + Len(sent[Here])
        /\ start[Here + 1] <= Len(stream)
    BY <1>2 DEF Inv, Frames
  <2>2. start[Here] \in Nat /\ Len(sent[Here]) \in Nat
    BY <1>1, <1>2, InvTypes
  <2>3. \/ Len(partial) < 4 /\ pos = start[Here] + Len(partial)
        \/ Len(partial) < Len(sent[Here]) /\ pos = start[Here] + 4 + Len(partial)
    BY DEF Inv, Position
  <2>4. start[Here] + 4 + Len(sent[Here]) <= pos
    BY <2>1
  <2>5. CASE Len(partial) < 4 /\ pos = start[Here] + Len(partial)
    <3>1. \A a, b, c \in Nat : a + 4 + b <= a + c /\ c < 4 => FALSE
      OBVIOUS
    <3> QED BY ONLY <1>1, <2>2, <2>4, <2>5, <3>1, Zenon
  <2>6. CASE Len(partial) < Len(sent[Here]) /\ pos = start[Here] + 4 + Len(partial)
    <3>1. \A a, b, c \in Nat : a + 4 + b <= a + 4 + c /\ c < b => FALSE
      OBVIOUS
    <3> QED BY ONLY <1>1, <2>2, <2>4, <2>6, <3>1, Zenon
  <2> QED BY <2>3, <2>5, <2>6
<1> QED BY <1>1, <1>2 DEF Here

\* The invariant holds always.
LEMMA Invariance == Spec => []Inv
<1>1. Init => Inv
  BY InitInv
<1>2. Inv /\ [Next]_vars => Inv'
  BY NextInv
<1> QED BY <1>1, <1>2, PTL DEF Spec

\* parse_blob reads inside the blob it was given and its state keeps its type,
\* for every split of the stream into blobs.
THEOREM TypeCorrect == Spec => []TypeOK
<1>1. ASSUME Inv PROVE TypeOK
  <2>1. next_message \in Int /\ reading_length \in BOOLEAN
    <3>1. CASE reading_length = TRUE
      BY <1>1, <3>1 DEF Inv, Position
    <3>2. CASE reading_length # TRUE
      <4>1. /\ reading_length = FALSE
            /\ Here <= Len(sent) /\ next_message = Len(sent[Here])
        BY <1>1, <3>2 DEF Inv, Position
      <4>2. Here \in 1 .. Len(sent)
        BY <1>1, <4>1, InvTypes
      <4>3. Len(sent[Here]) \in Nat
        BY <1>1, <4>2, InvTypes
      <4>4. next_message \in Int
        BY <4>1, <4>3
      <4>5. reading_length \in BOOLEAN
        BY <4>1, Zenon
      <4> QED BY <4>4, <4>5
    <3> QED BY <3>1, <3>2
  <2> QED BY <1>1, <2>1 DEF Inv, Frames, Position, TypeOK
<1> QED BY <1>1, Invariance, PTL

\* The messages parse_blob cuts out are the ones sent, byte for byte and in
\* order, for all messages below 2^31 bytes and every split into blobs.
THEOREM MessagesInOrder == Spec => []InOrder
<1>1. Inv => InOrder
  BY DEF Inv
<1> QED BY <1>1, Invariance, PTL

\* A message whose last byte was consumed has left the partial buffer.
THEOREM NothingIsHeldBack == Spec => []NothingHeldBack
  BY InvHoldsNothingBack, Invariance, PTL

\* The daemon's parser behind any splitting of the byte stream implements a
\* channel that delivers every message once, whole and in order.
THEOREM Refinement == Spec => ImplementsStream
<1>1. Init => Protocol!Init
  BY DEF Init, FramingInit, Protocol!Init
<1>2. Inv /\ [Next]_vars => [Protocol!Next]_<<sent, received>>
  <2> SUFFICES ASSUME Inv, [Next]_vars
               PROVE  Protocol!Next \/ UNCHANGED <<sent, received>>
    OBVIOUS
  <2>1. ASSUME NEW m \in Message, Send(m)
        PROVE  Protocol!Next
    BY <2>1 DEF Send, send_data, Protocol!Next, Protocol!Send
  <2>2. CASE Blob
    BY <2>2 DEF Blob, Arrive
  <2>3. CASE parse_blob
    BY <2>3 DEF parse_blob, ReadLength, ReadBody, framingVars
  <2>4. CASE retrieve_message
    <3>1. /\ Len(received) + 1 \in 1 .. Len(parsed)
          /\ Head(buffers) = parsed[Len(received) + 1]
      BY <2>4, RetrieveKeepsParsed
    <3>2. /\ Len(parsed) <= Len(sent) /\ Len(parsed) \in Nat /\ Len(sent) \in Nat
          /\ DOMAIN parsed = 1 .. Len(parsed)
          /\ \A k \in DOMAIN parsed : parsed[k] = sent[k]
      BY InvTypes DEF Inv, InOrder
    <3>3. Head(buffers) = sent[Len(received) + 1]
      BY <3>1, <3>2
    <3>4. Len(received) < Len(sent)
      <4>1. Len(received) \in Nat
        BY LenProperties DEF Inv, Position
      <4> QED BY <3>1, <3>2, <4>1
    <3>5. received' = Append(received, Head(buffers)) /\ UNCHANGED sent
      BY <2>4 DEF retrieve_message, framingVars
    <3> QED BY <3>3, <3>4, <3>5 DEF Protocol!Next, Protocol!Receive
  <2>5. CASE UNCHANGED vars
    BY <2>5 DEF vars, framingVars
  <2> QED BY <2>1, <2>2, <2>3, <2>4, <2>5 DEF Next
<1> QED BY <1>1, <1>2, Invariance, PTL DEF Spec, ImplementsStream, Protocol!Spec
================================================================================
