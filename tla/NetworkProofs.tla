----------------------------- MODULE NetworkProofs -----------------------------
(***************************************************************************)
(* Proofs about Framing for any messages, any cutting of the stream into   *)
(* chunks and any number of reconnections, and about UdpImages for any     *)
(* clients and cameras and any number of losses, timeouts, duplicated      *)
(* datagrams and restarts of the server.                                   *)
(***************************************************************************)
EXTENDS Framing, UdpImages, FiniteSetTheorems, SequenceTheorems, TLAPS

-----------------------------------------------------------------------------
(* Framing. *)

\* Messages are on their way in the order of sending, and none is older than the last image.
StreamAhead ==
  /\ \A i, j \in 1..Len(stream) : i <= j => stream[i].msg <= stream[j].msg
  /\ \A i \in 1..Len(stream) : mLastId <= stream[i].msg /\ stream[i].msg <= sent

\* Neither is what is left in mBuffer, and all that comes is newer than its beginning.
BufferAhead ==
  Len(mBuffer) > 0 =>
    /\ mLastId <= mBuffer[1].msg
    /\ mBuffer[1].msg <= sent
    /\ \A i \in 1..Len(stream) : mBuffer[1].msg <= stream[i].msg

Ahead == mLastId <= sent /\ StreamAhead /\ BufferAhead

IInv == TypeOK /\ Ahead

\* A message whose first unit is on its way is on its way as a whole.
MessagesWhole ==
  \A i \in 1..Len(stream) : stream[i].pos = 1 =>
    \A p \in 1..SizeField(stream[i].msg) :
      /\ i + p - 1 <= Len(stream)
      /\ stream[i + p - 1] = [msg |-> stream[i].msg, pos |-> p]

\* The i-th unit of what mBuffer will hold when the stream has been read.
Pending(i) == IF i <= Len(mBuffer) THEN mBuffer[i] ELSE stream[i - Len(mBuffer)]

\* The payload of m begins mBuffer, or will when the rest of it has come.
InProgress(m) ==
  /\ mSize = SizeField(m)
  /\ Payload[m] <= Len(mBuffer) + Len(stream)
  /\ \A i \in 1..Payload[m] : Pending(i) = [msg |-> m, pos |-> SizeOfBegin + i]

\* On the first connection a size is that of a message in progress.
Started == reconnects = 0 /\ mSize # 0 => \E m \in Messages : InProgress(m)

\* What is on its way of a message that is alone is an end of it; if it is all of it,
\* nothing of it has been read.
AloneStream ==
  alone =>
    /\ sent \in Messages
    /\ Len(stream) <= SizeField(sent)
    /\ \A i \in 1..Len(stream) :
         stream[i] = [msg |-> sent, pos |-> SizeField(sent) - Len(stream) + i]
    /\ Len(stream) = SizeField(sent) => count = 0 /\ ~intact

\* When its header has been read, mBuffer gets the rest and is delivered with the last unit.
Expected ==
  alone /\ intact =>
    /\ mSize = SizeField(sent)
    /\ Len(mBuffer) + Len(stream) = Payload[sent]
    /\ count = IF stream = <<>> THEN 1 ELSE 0

\* What DeliveriesWhole says of the last delivery.
DeliveredWhole ==
  reconnects = 0 /\ delivery # Nothing =>
    \E m \in Messages : /\ IsPrefix(Body(m), delivery)
                        /\ Len(delivery) <= Payload[m] + SizeOfBegin

WholeInv == IInv /\ MessagesWhole /\ Started /\ AloneStream /\ Expected /\ DeliveredWhole

-----------------------------------------------------------------------------
(* Messages and their units. *)

LEMMA MessageTypes ==
  /\ Len(Payload) \in Nat
  /\ Messages = 1..Len(Payload)
  /\ \A m \in Messages : Payload[m] \in Nat \ {0}
  /\ \A u \in Unit : u.msg \in Messages /\ u.msg \in Nat
<1>1. Len(Payload) \in Nat /\ Messages = 1..Len(Payload) /\ Payload \in [1..Len(Payload) -> Nat \ {0}]
  BY PayloadAssumption, LenProperties DEF Messages
<1>2. \A u \in Unit : u.msg \in Messages
  BY DEF Unit
<1> QED
  BY <1>1, <1>2

LEMMA BodyUnits ==
  ASSUME NEW m \in Messages
  PROVE  /\ Body(m) \in Seq(Unit)
         /\ Len(Body(m)) = Payload[m]
         /\ \A i \in 1..Payload[m] : Body(m)[i].msg = m
<1>1. Payload[m] \in Nat
  BY MessageTypes
<1>2. \A i \in 1..Payload[m] : [msg |-> m, pos |-> SizeOfBegin + i] \in Unit
  BY <1>1 DEF Unit, SizeOfBegin
<1>3. Body(m) \in [1..Payload[m] -> Unit]
  BY <1>2 DEF Body
<1>4. Body(m) \in Seq(Unit) /\ Len(Body(m)) = Payload[m]
  BY <1>1, <1>3
<1> QED
  BY <1>4 DEF Body

LEMMA FramedUnits ==
  ASSUME NEW m \in Messages
  PROVE  /\ Framed(m) \in Seq(Unit)
         /\ Len(Framed(m)) \in Nat
         /\ \A i \in 1..Len(Framed(m)) : Framed(m)[i].msg = m
<1> DEFINE header == [i \in 1..SizeOfBegin |-> [msg |-> m, pos |-> i]]
<1>1. \A i \in 1..SizeOfBegin : [msg |-> m, pos |-> i] \in Unit
  BY DEF Unit, SizeOfBegin
<1>2. header \in [1..SizeOfBegin -> Unit] /\ SizeOfBegin \in Nat
  BY <1>1 DEF SizeOfBegin
<1>3. header \in Seq(Unit) /\ Len(header) = SizeOfBegin
  BY <1>2
<1>4. \A i \in 1..SizeOfBegin : header[i].msg = m
  OBVIOUS
<1>5. Framed(m) = header \o Body(m)
  BY DEF Framed
<1> HIDE DEF header
<1>6. Payload[m] \in Nat
  BY MessageTypes
<1> QED
  BY <1>2, <1>3, <1>4, <1>5, <1>6, BodyUnits, ConcatProperties

\* What the worker reads a delivery as is the message of its first unit.
LEMMA ReadFirst ==
  ASSUME NEW s \in Seq(Unit), NEW m \in Messages, ReadAs(s, m)
  PROVE  Len(s) > 0 /\ s[1].msg = m
<1>1. /\ Body(m) \in Seq(Unit) /\ Len(Body(m)) = Payload[m] /\ Payload[m] \in Nat \ {0}
      /\ Body(m)[1].msg = m /\ Len(s) \in Nat
  BY BodyUnits, MessageTypes, LenProperties
<1>2. Len(Body(m)) <= Len(s) /\ SubSeq(Body(m), 1, Len(Body(m))) = SubSeq(s, 1, Len(Body(m)))
  BY DEF ReadAs, IsPrefix
<1>3. \A i \in 1..Len(Body(m)) : Body(m)[i] \in Unit /\ s[i] \in Unit
  BY <1>1, <1>2, ElementOfSeq
<1>4. SubSeq(Body(m), 1, Len(Body(m)))[1] = Body(m)[1] /\ SubSeq(s, 1, Len(Body(m)))[1] = s[1]
  BY <1>1, <1>3, SubSeqProperties
<1>5. Body(m)[1] = s[1]
  BY <1>2, <1>4, Zenon
<1> QED
  BY <1>1, <1>2, <1>5

-----------------------------------------------------------------------------
(* A chunk. *)

\* A beginning of s begins with the first unit of s.
LEMMA FirstOfUnits ==
  ASSUME NEW s \in Seq(Unit), NEW n \in Int
  PROVE  /\ FirstOf(s, n) \in Seq(Unit)
         /\ Len(FirstOf(s, n)) > 0 => Len(s) > 0 /\ FirstOf(s, n)[1] = s[1]
<1> DEFINE k == IF n < Len(s) THEN n ELSE Len(s)
<1>1. Len(s) \in Nat /\ k \in Int /\ k <= Len(s)
  BY LenProperties
<1>2. FirstOf(s, n) = SubSeq(s, 1, k)
  BY DEF FirstOf
<1> HIDE DEF k
<1>3. \A i \in 1..k : s[i] \in Unit
  BY <1>1, ElementOfSeq
<1> QED
  BY <1>1, <1>2, <1>3, SubSeqProperties

\* The chunk is the beginning of the stream, the rest of it remains.
LEMMA ChunkUnits ==
  ASSUME NEW s \in Seq(Unit), NEW k \in 1..Len(s)
  PROVE  /\ SubSeq(s, 1, k) \in Seq(Unit)
         /\ Len(SubSeq(s, 1, k)) = k
         /\ \A i \in 1..k : SubSeq(s, 1, k)[i] = s[i]
         /\ SubSeq(s, k + 1, Len(s)) \in Seq(Unit)
         /\ Len(SubSeq(s, k + 1, Len(s))) = Len(s) - k
         /\ \A i \in 1..(Len(s) - k) : SubSeq(s, k + 1, Len(s))[i] = s[i + k]
<1>1. Len(s) \in Nat /\ \A i \in 1..Len(s) : s[i] \in Unit
  BY LenProperties, ElementOfSeq
<1>2. /\ SubSeq(s, 1, k) \in Seq(Unit)
      /\ Len(SubSeq(s, 1, k)) = k
      /\ \A i \in 1..k : SubSeq(s, 1, k)[i] = s[i]
  BY <1>1, SubSeqProperties
<1>3. /\ SubSeq(s, k + 1, Len(s)) \in Seq(Unit)
      /\ Len(SubSeq(s, k + 1, Len(s))) = Len(s) - k
      /\ \A i \in 1..(Len(s) - k) : SubSeq(s, k + 1, Len(s))[i] = s[i + k]
  BY <1>1, SubSeqProperties
<1> QED
  BY <1>2, <1>3

\* The payload in the chunk.
LEMMA HeaderCut ==
  ASSUME NEW s \in Seq(Unit)
  PROVE  /\ AfterHeader(s) \in Seq(Unit)
         /\ Len(AfterHeader(s)) > 0 => 4 \in 1..Len(s) /\ AfterHeader(s)[1] = s[4]
<1>1. Len(s) \in Nat /\ \A i \in (SizeOfBegin + 1)..Len(s) : s[i] \in Unit
  BY LenProperties, ElementOfSeq DEF SizeOfBegin
<1>2. AfterHeader(s) = SubSeq(s, 4, Len(s)) /\ \A i \in 4..Len(s) : s[i] \in Unit
  BY <1>1 DEF AfterHeader, SizeOfBegin
<1> QED
  BY <1>1, <1>2, SubSeqProperties

\* mSize is a size.
LEMMA SizeRead ==
  ASSUME NEW s \in Seq(Unit), Len(s) > 0
  PROVE  /\ ReadSize(s) \in {0} \cup {SizeOfBegin + Payload[m] : m \in Messages}
         /\ ReadSize(s) \in Nat
<1>1. Len(s) \in Nat /\ s[1] \in Unit
  BY LenProperties, ElementOfSeq
<1>2. s[1].msg \in Messages /\ Payload[s[1].msg] \in Nat
  BY <1>1, MessageTypes
<1> QED
  BY <1>2 DEF ReadSize, SizeField, SizeOfBegin

\* Where mBuffer begins after a chunk: where it began, or in the chunk.  What is delivered
\* begins there, too.
LEMMA BufferAfter ==
  ASSUME TypeOK, NEW chunk \in Seq(Unit), Len(chunk) > 0,
         IF HasMagic(chunk) THEN BeginMessage(chunk) ELSE Continue(chunk)
  PROVE  /\ mBuffer' \in Seq(Unit)
         /\ mSize' \in {0} \cup {SizeOfBegin + Payload[m] : m \in Messages}
         /\ Len(mBuffer') > 0 => \/ Len(mBuffer) > 0 /\ mBuffer'[1] = mBuffer[1]
                                 \/ \E i \in 1..Len(chunk) : mBuffer'[1] = chunk[i]
         /\ delivery' \in Seq(Unit)
         /\ Len(delivery') > 0 => Len(mBuffer') > 0 /\ delivery'[1] = mBuffer'[1]
<1>1. /\ mBuffer \in Seq(Unit) /\ Len(mBuffer) \in Nat /\ Len(chunk) \in Nat
      /\ mSize \in {0} \cup {SizeOfBegin + Payload[m] : m \in Messages}
      /\ Nothing \in Seq(Unit) /\ Len(Nothing) = 0
  BY LenProperties, EmptySeq DEF TypeOK, Nothing
<1>2. CASE HasMagic(chunk)
  <2>1. /\ mSize' = ReadSize(chunk)
        /\ mBuffer' = IF mSize' > 0 THEN AfterHeader(chunk) ELSE mBuffer
        /\ delivery' = IF mSize' = Len(chunk) THEN mBuffer' ELSE Nothing
    BY <1>2 DEF BeginMessage
  <2>2. mBuffer' \in Seq(Unit)
    BY <1>1, <2>1, HeaderCut
  <2>3. Len(mBuffer') > 0 => \/ Len(mBuffer) > 0 /\ mBuffer'[1] = mBuffer[1]
                             \/ \E i \in 1..Len(chunk) : mBuffer'[1] = chunk[i]
    BY <1>1, <2>1, HeaderCut
  <2>4. /\ delivery' \in Seq(Unit)
        /\ Len(delivery') > 0 => Len(mBuffer') > 0 /\ delivery'[1] = mBuffer'[1]
    BY <1>1, <2>1, <2>2
  <2> QED
    BY <2>1, <2>2, <2>3, <2>4, SizeRead
<1>3. CASE ~HasMagic(chunk)
  <2>1. /\ mSize' = mSize
        /\ mBuffer' = mBuffer \o chunk
        /\ delivery' \in {mBuffer', FirstOf(mBuffer', mSize), Nothing}
    BY <1>3 DEF Continue
  <2>2. /\ mBuffer' \in Seq(Unit)
        /\ Len(mBuffer') = Len(mBuffer) + Len(chunk)
        /\ \A i \in 1..(Len(mBuffer) + Len(chunk)) :
             mBuffer'[i] = IF i <= Len(mBuffer) THEN mBuffer[i] ELSE chunk[i - Len(mBuffer)]
    BY <1>1, <2>1, ConcatProperties
  <2>3. \/ Len(mBuffer) > 0 /\ mBuffer'[1] = mBuffer[1]
        \/ \E i \in 1..Len(chunk) : mBuffer'[1] = chunk[i]
    <3>1. CASE Len(mBuffer) > 0
      BY <1>1, <2>2, <3>1
    <3>2. CASE Len(mBuffer) = 0
      BY <1>1, <2>2, <3>2
    <3> QED
      BY <1>1, <3>1, <3>2
  <2>4. mSize \in Int
    BY <1>1, MessageTypes DEF SizeOfBegin
  <2>5. /\ delivery' \in Seq(Unit)
        /\ Len(delivery') > 0 => Len(mBuffer') > 0 /\ delivery'[1] = mBuffer'[1]
    <3>1. CASE delivery' = mBuffer'
      BY <2>2, <3>1
    <3>2. CASE delivery' = FirstOf(mBuffer', mSize)
      BY <2>2, <2>4, <3>2, FirstOfUnits
    <3>3. CASE delivery' = Nothing
      BY <1>1, <3>3
    <3> QED
      BY <2>1, <3>1, <3>2, <3>3
  <2> QED
    BY <1>1, <2>1, <2>2, <2>3, <2>5
<1> QED
  BY <1>2, <1>3

\* A read: the image the worker takes is the one mBuffer begins with.
LEMMA ReceiveStep ==
  ASSUME IInv, Receive
  PROVE  IInv' /\ mLastId <= mLastId'
<1>1. /\ TypeOK /\ StreamAhead /\ BufferAhead /\ stream \in Seq(Unit) /\ Len(stream) \in Nat
      /\ sent \in 0..Len(Payload) /\ mLastId \in 0..Len(Payload) /\ Len(Payload) \in Nat
      /\ mLastId <= sent
  BY LenProperties, MessageTypes DEF IInv, Ahead, TypeOK
<1>2. PICK k \in 1..Len(stream) :
        LET chunk == SubSeq(stream, 1, k)
        IN  /\ stream' = SubSeq(stream, k + 1, Len(stream))
            /\ IF HasMagic(chunk) THEN BeginMessage(chunk) ELSE Continue(chunk)
            /\ Load
            /\ intact' = (intact \/ (Len(chunk) >= SizeOfBegin /\ chunk[1] = [msg |-> sent, pos |-> 1]))
            /\ count' = IF delivery' = Nothing THEN count ELSE count + 1
            /\ UNCHANGED <<sent, reconnects, alone>>
  BY DEF Receive
<1> DEFINE chunk == SubSeq(stream, 1, k)
<1>3. /\ stream' = SubSeq(stream, k + 1, Len(stream))
      /\ IF HasMagic(chunk) THEN BeginMessage(chunk) ELSE Continue(chunk)
      /\ Load
      /\ intact' \in BOOLEAN /\ count' \in Nat
      /\ UNCHANGED <<sent, reconnects, alone>>
  BY <1>1, <1>2 DEF TypeOK
<1>4. /\ chunk \in Seq(Unit) /\ Len(chunk) = k /\ \A i \in 1..k : chunk[i] = stream[i]
      /\ stream' \in Seq(Unit) /\ Len(stream') = Len(stream) - k
      /\ \A i \in 1..(Len(stream) - k) : stream'[i] = stream[i + k]
  BY <1>1, <1>3, ChunkUnits
<1> HIDE DEF chunk
<1>5. /\ mBuffer' \in Seq(Unit)
      /\ mSize' \in {0} \cup {SizeOfBegin + Payload[m] : m \in Messages}
      /\ Len(mBuffer') > 0 => \/ Len(mBuffer) > 0 /\ mBuffer'[1] = mBuffer[1]
                              \/ \E i \in 1..Len(chunk) : mBuffer'[1] = chunk[i]
      /\ delivery' \in Seq(Unit)
      /\ Len(delivery') > 0 => Len(mBuffer') > 0 /\ delivery'[1] = mBuffer'[1]
  BY <1>1, <1>3, <1>4, BufferAfter
<1>6. \A i \in 1..Len(stream) : stream[i].msg \in Nat
  BY <1>1, ElementOfSeq, MessageTypes
<1>7. Len(mBuffer') > 0 =>
        /\ mLastId <= mBuffer'[1].msg
        /\ mBuffer'[1].msg <= sent
        /\ mBuffer'[1].msg \in Nat
        /\ \A i \in 1..Len(stream') : mBuffer'[1].msg <= stream'[i].msg
  <2> SUFFICES ASSUME Len(mBuffer') > 0
               PROVE  /\ mLastId <= mBuffer'[1].msg
                      /\ mBuffer'[1].msg <= sent
                      /\ mBuffer'[1].msg \in Nat
                      /\ \A i \in 1..Len(stream') : mBuffer'[1].msg <= stream'[i].msg
    OBVIOUS
  <2>1. \A i \in 1..Len(stream') : i + k \in 1..Len(stream) /\ stream'[i] = stream[i + k]
    BY <1>1, <1>4
  <2>2. mBuffer'[1].msg \in Nat
    <3>1. Len(mBuffer') \in Nat
      BY <1>5, LenProperties
    <3> QED
      BY <1>5, <3>1, ElementOfSeq, MessageTypes
  <2>3. CASE Len(mBuffer) > 0 /\ mBuffer'[1] = mBuffer[1]
    BY <1>1, <2>1, <2>2, <2>3 DEF BufferAhead
  <2>4. ASSUME NEW j \in 1..Len(chunk), mBuffer'[1] = chunk[j]
        PROVE  /\ mLastId <= mBuffer'[1].msg
               /\ mBuffer'[1].msg <= sent
               /\ \A i \in 1..Len(stream') : mBuffer'[1].msg <= stream'[i].msg
    <3>1. j \in 1..Len(stream) /\ mBuffer'[1] = stream[j] /\ j <= k
      BY <1>1, <1>4, <2>4
    <3>2. \A i \in 1..Len(stream') : j <= i + k
      BY <1>1, <1>4, <3>1
    <3> QED
      BY <1>1, <2>1, <3>1, <3>2 DEF StreamAhead
  <2> QED
    BY <1>5, <2>2, <2>3, <2>4
<1>8. \/ mLastId' = mLastId
      \/ Len(mBuffer') > 0 /\ mLastId' = mBuffer'[1].msg /\ mLastId' \in Messages
  <2>1. CASE \E m \in Messages : ReadAs(delivery', m)
    <3>1. mLastId' \in Messages /\ ReadAs(delivery', mLastId')
      BY <1>3, <2>1 DEF Load
    <3>2. Len(delivery') > 0 /\ delivery'[1].msg = mLastId'
      BY <1>5, <3>1, ReadFirst
    <3> QED
      BY <1>5, <3>1, <3>2
  <2>2. CASE ~\E m \in Messages : ReadAs(delivery', m)
    BY <1>3, <2>2 DEF Load
  <2> QED
    BY <2>1, <2>2
<1>9. mLastId <= mLastId' /\ mLastId' <= sent /\ mLastId' \in 0..Len(Payload)
  BY <1>1, <1>7, <1>8, MessageTypes
<1>10. TypeOK'
  BY <1>1, <1>3, <1>4, <1>5, <1>9 DEF TypeOK
<1>11. StreamAhead'
  <2>1. \A i \in 1..Len(stream') : i + k \in 1..Len(stream) /\ stream'[i] = stream[i + k]
    BY <1>1, <1>4
  <2>2. \A i, j \in 1..Len(stream') : i <= j => stream'[i].msg <= stream'[j].msg
    <3> SUFFICES ASSUME NEW i \in 1..Len(stream'), NEW j \in 1..Len(stream'), i <= j
                 PROVE  stream'[i].msg <= stream'[j].msg
      OBVIOUS
    <3>1. i + k <= j + k
      BY <1>1
    <3> QED
      BY <1>1, <2>1, <3>1 DEF StreamAhead
  <2>3. \A i \in 1..Len(stream') : stream'[i].msg <= sent
    BY <1>1, <2>1 DEF StreamAhead
  <2>4. \A i \in 1..Len(stream') : mLastId' <= stream'[i].msg
    BY <1>1, <1>7, <1>8, <2>1 DEF StreamAhead
  <2> QED
    BY <1>3, <2>2, <2>3, <2>4 DEF StreamAhead
<1>12. BufferAhead'
  <2>1. Len(mBuffer') > 0 => mLastId' <= mBuffer'[1].msg
    BY <1>7, <1>8
  <2> QED
    BY <1>3, <1>7, <2>1 DEF BufferAhead
<1> QED
  BY <1>3, <1>9, <1>10, <1>11, <1>12 DEF IInv, Ahead

LEMMA SendStep ==
  ASSUME IInv, Send
  PROVE  IInv' /\ mLastId' = mLastId
<1>1. /\ TypeOK /\ StreamAhead /\ BufferAhead /\ stream \in Seq(Unit) /\ Len(stream) \in Nat
      /\ mLastId <= sent /\ sent \in Nat /\ mLastId \in Nat
      /\ sent' = sent + 1 /\ sent' \in Messages /\ sent' \in 0..Len(Payload)
  BY LenProperties, MessageTypes DEF IInv, Ahead, TypeOK, Send
<1>2. /\ stream' = stream \o Framed(sent')
      /\ alone' \in BOOLEAN /\ intact' = FALSE /\ count' = 0 /\ delivery' = Nothing
      /\ UNCHANGED <<mBuffer, mSize, mLastId, reconnects>>
  BY DEF Send
<1>3. /\ Framed(sent') \in Seq(Unit) /\ Len(Framed(sent')) \in Nat
      /\ \A i \in 1..Len(Framed(sent')) : Framed(sent')[i].msg = sent'
  BY <1>1, FramedUnits
<1>4. /\ stream' \in Seq(Unit)
      /\ Len(stream') = Len(stream) + Len(Framed(sent'))
      /\ \A i \in 1..Len(stream') : \/ i \in 1..Len(stream) /\ stream'[i] = stream[i]
                                    \/ i > Len(stream) /\ stream'[i].msg = sent'
  BY <1>1, <1>2, <1>3, ConcatProperties
<1>5. \A i \in 1..Len(stream) : stream[i].msg \in Nat /\ stream[i].msg < sent'
  <2>1. \A i \in 1..Len(stream) : stream[i].msg \in Nat
    BY <1>1, ElementOfSeq, MessageTypes
  <2> QED
    BY <1>1, <2>1 DEF StreamAhead
<1>6. TypeOK'
  BY <1>1, <1>2, <1>4, EmptySeq DEF TypeOK, Nothing
<1>7. StreamAhead'
  <2>1. \A i \in 1..Len(stream') : stream'[i].msg \in Nat /\ stream'[i].msg <= sent'
    BY <1>1, <1>4, <1>5
  <2>2. \A i \in 1..Len(stream) : mLastId <= stream[i].msg
    BY <1>1 DEF StreamAhead
  <2>3. \A i \in 1..Len(stream') : mLastId' <= stream'[i].msg
    BY <1>1, <1>2, <1>4, <2>2
  <2>4. ASSUME NEW i \in 1..Len(stream'), NEW j \in 1..Len(stream'), i <= j
        PROVE  stream'[i].msg <= stream'[j].msg
    <3>1. CASE j \in 1..Len(stream) /\ stream'[j] = stream[j]
      <4>1. i \in 1..Len(stream) /\ stream'[i] = stream[i]
        BY <1>4, <2>4, <3>1
      <4> QED
        BY <1>1, <2>4, <3>1, <4>1 DEF StreamAhead
    <3>2. CASE stream'[j].msg = sent'
      BY <2>1, <3>2
    <3> QED
      BY <1>4, <3>1, <3>2
  <2> QED
    BY <2>1, <2>3, <2>4 DEF StreamAhead
<1>8. BufferAhead'
  <2>1. Len(mBuffer) > 0 => mBuffer[1].msg \in Nat
    <3>1. mBuffer \in Seq(Unit) /\ Len(mBuffer) \in Nat
      BY <1>1, LenProperties DEF TypeOK
    <3> QED
      BY <3>1, ElementOfSeq, MessageTypes
  <2> QED
    BY <1>1, <1>2, <1>4, <2>1 DEF BufferAhead
<1> QED
  BY <1>1, <1>2, <1>6, <1>7, <1>8 DEF IInv, Ahead

LEMMA ReconnectStep ==
  ASSUME IInv, Reconnect
  PROVE  IInv' /\ mLastId' = mLastId
<1>1. /\ stream' = <<>> /\ Len(stream') = 0
      /\ UNCHANGED <<mBuffer, mSize, sent, mLastId, intact, count>>
      /\ delivery' = Nothing /\ alone' = FALSE /\ reconnects' = reconnects + 1
      /\ reconnects < MaxReconnects
  BY EmptySeq DEF Reconnect
<1>2. TypeOK'
  <2>1. stream' \in Seq(Unit) /\ delivery' \in Seq(Unit)
    BY <1>1, EmptySeq DEF Nothing
  <2>2. reconnects' \in 0..MaxReconnects
    BY <1>1, PayloadAssumption DEF IInv, TypeOK
  <2> QED
    BY <1>1, <2>1, <2>2 DEF IInv, TypeOK
<1> QED
  BY <1>1, <1>2 DEF IInv, Ahead, StreamAhead, BufferAhead

LEMMA InitInv == Init => IInv
<1> SUFFICES ASSUME Init PROVE IInv
  OBVIOUS
<1>1. Len(stream) = 0 /\ Len(mBuffer) = 0 /\ <<>> \in Seq(Unit)
  BY EmptySeq DEF Init
<1>2. TypeOK
  <2>1. stream \in Seq(Unit) /\ mBuffer \in Seq(Unit) /\ delivery \in Seq(Unit)
    BY <1>1 DEF Init, Nothing
  <2>2. /\ sent \in 0..Len(Payload) /\ mLastId \in 0..Len(Payload)
        /\ reconnects \in 0..MaxReconnects
    BY MessageTypes, PayloadAssumption DEF Init
  <2> QED
    BY <2>1, <2>2 DEF Init, TypeOK
<1>3. mLastId = 0 /\ sent = 0
  BY DEF Init
<1> QED
  BY <1>1, <1>2, <1>3 DEF IInv, Ahead, StreamAhead, BufferAhead

LEMMA StepInv ==
  ASSUME IInv, [Next]_vars
  PROVE  IInv' /\ mLastId' >= mLastId
<1>1. mLastId \in Nat
  BY MessageTypes DEF IInv, TypeOK
<1>2. CASE UNCHANGED vars
  BY <1>1, <1>2 DEF vars, IInv, TypeOK, Ahead, StreamAhead, BufferAhead
<1>3. CASE Receive
  <2>1. IInv' /\ mLastId <= mLastId'
    BY <1>3, ReceiveStep
  <2> QED
    BY <2>1
<1>4. CASE Send \/ Reconnect
  BY <1>1, <1>4, SendStep, ReconnectStep
<1> QED
  BY <1>2, <1>3, <1>4 DEF Next

-----------------------------------------------------------------------------
(* Deliveries are whole messages. *)

\* A message on the stream: its units are numbered from 1 to its size.
LEMMA NumberedUnits ==
  ASSUME NEW m \in Messages
  PROVE  /\ Payload[m] \in Nat \ {0} /\ SizeField(m) = Payload[m] + 3 /\ SizeField(m) \in Nat
         /\ Len(Framed(m)) = SizeField(m)
         /\ \A p \in 1..SizeField(m) : Framed(m)[p] = [msg |-> m, pos |-> p]
         /\ Len(Body(m)) = Payload[m]
         /\ \A i \in 1..Payload[m] : Body(m)[i] = [msg |-> m, pos |-> SizeOfBegin + i]
<1> DEFINE header == [i \in 1..SizeOfBegin |-> [msg |-> m, pos |-> i]]
<1>1. Payload[m] \in Nat \ {0} /\ SizeField(m) = Payload[m] + 3 /\ SizeField(m) \in Nat
  BY MessageTypes DEF SizeField, SizeOfBegin
<1>2. /\ Body(m) \in Seq(Unit) /\ Len(Body(m)) = Payload[m]
      /\ \A i \in 1..Payload[m] : Body(m)[i] = [msg |-> m, pos |-> SizeOfBegin + i]
  BY BodyUnits DEF Body
<1>3. \A i \in 1..SizeOfBegin : [msg |-> m, pos |-> i] \in Unit
  BY DEF Unit, SizeOfBegin
<1>4. header \in [1..SizeOfBegin -> Unit] /\ SizeOfBegin \in Nat
  BY <1>3 DEF SizeOfBegin
<1>5. header \in Seq(Unit) /\ Len(header) = SizeOfBegin
  BY <1>4
<1>6. \A i \in 1..SizeOfBegin : header[i] = [msg |-> m, pos |-> i]
  OBVIOUS
<1>7. Framed(m) = header \o Body(m)
  BY DEF Framed
<1> HIDE DEF header
<1>8. /\ Len(Framed(m)) = SizeOfBegin + Payload[m]
      /\ \A p \in 1..(SizeOfBegin + Payload[m]) :
           Framed(m)[p] = IF p <= SizeOfBegin THEN header[p] ELSE Body(m)[p - SizeOfBegin]
  <2> DEFINE body == Body(m)
  <2>1. body \in Seq(Unit) /\ Len(body) = Payload[m]
    BY <1>2
  <2> HIDE DEF body
  <2>2. /\ Len(header \o body) = Len(header) + Len(body)
        /\ \A p \in 1..(Len(header) + Len(body)) :
             (header \o body)[p] = IF p <= Len(header) THEN header[p] ELSE body[p - Len(header)]
    BY <1>5, <2>1, ConcatProperties
  <2> QED
    BY <1>5, <1>7, <2>1, <2>2 DEF body
<1>9. SizeOfBegin = 3
  BY DEF SizeOfBegin
<1>10. \A p \in 1..SizeField(m) : Framed(m)[p] = [msg |-> m, pos |-> p]
  <2> SUFFICES ASSUME NEW p \in 1..SizeField(m)
               PROVE  Framed(m)[p] = [msg |-> m, pos |-> p]
    OBVIOUS
  <2>1. CASE p <= SizeOfBegin
    BY <1>1, <1>6, <1>8, <1>9, <2>1
  <2>2. CASE p > SizeOfBegin
    <3>1. p - SizeOfBegin \in 1..Payload[m] /\ SizeOfBegin + (p - SizeOfBegin) = p
      BY <1>1, <1>9, <2>2
    <3>2. Framed(m)[p] = Body(m)[p - SizeOfBegin]
      BY <1>1, <1>8, <1>9, <2>2
    <3> QED
      BY <1>2, <3>1, <3>2
  <2> QED
    BY <1>1, <1>9, <2>1, <2>2
<1> QED
  BY <1>1, <1>2, <1>8, <1>9, <1>10

\* A sequence that has the units of a payload at its beginning is read as that message.
LEMMA BeginsWithBody ==
  ASSUME NEW m \in Messages, NEW s \in Seq(Unit), Payload[m] <= Len(s),
         \A i \in 1..Payload[m] : s[i] = [msg |-> m, pos |-> SizeOfBegin + i]
  PROVE  IsPrefix(Body(m), s)
<1>1. /\ Payload[m] \in Nat \ {0} /\ Len(Body(m)) = Payload[m] /\ Body(m) \in Seq(Unit)
      /\ \A i \in 1..Payload[m] : Body(m)[i] = s[i]
  BY NumberedUnits, BodyUnits
<1>2. Payload[m] \in 1..Len(s) /\ Payload[m] \in 1..Len(Body(m)) /\ Len(s) \in Nat
  BY <1>1, LenProperties
<1> DEFINE a == SubSeq(Body(m), 1, Payload[m])
           b == SubSeq(s, 1, Payload[m])
<1>3. /\ a \in Seq(Unit) /\ Len(a) = Payload[m]
      /\ \A i \in 1..Payload[m] : a[i] = Body(m)[i]
  BY <1>1, <1>2, ChunkUnits
<1>4. /\ b \in Seq(Unit) /\ Len(b) = Payload[m]
      /\ \A i \in 1..Payload[m] : b[i] = s[i]
  BY <1>1, <1>2, ChunkUnits
<1> HIDE DEF a, b
<1>5. a = b
  BY <1>1, <1>3, <1>4, SeqEqual
<1> QED
  BY <1>1, <1>5 DEF a, b, IsPrefix

\* What a read does: a chunk leaves the stream and begins a message or continues one.
ChunkRead(k, chunk) ==
  /\ chunk \in Seq(Unit) /\ Len(chunk) = k
  /\ \A i \in 1..k : chunk[i] = stream[i]
  /\ Len(stream') = Len(stream) - k
  /\ \A i \in 1..Len(stream') : stream'[i] = stream[i + k]
  /\ IF HasMagic(chunk) THEN BeginMessage(chunk) ELSE Continue(chunk)
  /\ intact' = (intact \/ (Len(chunk) >= SizeOfBegin /\ chunk[1] = [msg |-> sent, pos |-> 1]))
  /\ count' = IF delivery' = Nothing THEN count ELSE count + 1
  /\ UNCHANGED <<sent, reconnects, alone>>

LEMMA SomeChunk ==
  ASSUME TypeOK, Receive
  PROVE  \E k \in 1..Len(stream) : \E chunk \in Seq(Unit) : ChunkRead(k, chunk)
<1>1. stream \in Seq(Unit) /\ Len(stream) \in Nat
  BY LenProperties DEF TypeOK
<1>2. PICK k \in 1..Len(stream) :
        LET chunk == SubSeq(stream, 1, k)
        IN  /\ stream' = SubSeq(stream, k + 1, Len(stream))
            /\ IF HasMagic(chunk) THEN BeginMessage(chunk) ELSE Continue(chunk)
            /\ Load
            /\ intact' = (intact \/ (Len(chunk) >= SizeOfBegin /\ chunk[1] = [msg |-> sent, pos |-> 1]))
            /\ count' = IF delivery' = Nothing THEN count ELSE count + 1
            /\ UNCHANGED <<sent, reconnects, alone>>
  BY DEF Receive
<1> DEFINE chunk == SubSeq(stream, 1, k)
<1>3. /\ stream' = SubSeq(stream, k + 1, Len(stream))
      /\ IF HasMagic(chunk) THEN BeginMessage(chunk) ELSE Continue(chunk)
      /\ intact' = (intact \/ (Len(chunk) >= SizeOfBegin /\ chunk[1] = [msg |-> sent, pos |-> 1]))
      /\ count' = IF delivery' = Nothing THEN count ELSE count + 1
      /\ UNCHANGED <<sent, reconnects, alone>>
  BY <1>2
<1>4. /\ chunk \in Seq(Unit) /\ Len(chunk) = k /\ \A i \in 1..k : chunk[i] = stream[i]
      /\ Len(stream') = Len(stream) - k
      /\ \A i \in 1..(Len(stream) - k) : stream'[i] = stream[i + k]
  BY <1>1, <1>3, ChunkUnits
<1> HIDE DEF chunk
<1>5. ChunkRead(k, chunk)
  BY <1>3, <1>4 DEF ChunkRead
<1> QED
  BY <1>4, <1>5

\* A chunk that begins a message and has its header: what is to come of the message is the
\* rest of the chunk and of the stream, and it is delivered if the chunk ends with it.
LEMMA MessageBegun ==
  ASSUME IInv, MessagesWhole, NEW k \in 1..Len(stream), NEW chunk \in Seq(Unit),
         ChunkRead(k, chunk), HasMagic(chunk), k >= SizeOfBegin,
         NEW m \in Messages, m = stream[1].msg
  PROVE  /\ mSize' = SizeField(m)
         /\ mBuffer' \in Seq(Unit) /\ Len(mBuffer') = k - SizeOfBegin
         /\ InProgress(m)'
         /\ k = SizeField(m) => delivery' = mBuffer' /\ Len(delivery') = Payload[m]
         /\ k # SizeField(m) => delivery' = Nothing
<1>1. /\ stream \in Seq(Unit) /\ Len(stream) \in Nat /\ 1 \in 1..Len(stream)
      /\ chunk \in Seq(Unit) /\ Len(chunk) = k /\ k \in Nat /\ k >= 3
      /\ \A i \in 1..k : chunk[i] = stream[i]
      /\ Len(stream') = Len(stream) - k
      /\ \A i \in 1..Len(stream') : stream'[i] = stream[i + k]
  BY LenProperties DEF IInv, TypeOK, ChunkRead, SizeOfBegin
<1>2. stream[1].pos = 1 /\ chunk[1] = stream[1]
  BY <1>1 DEF HasMagic
<1>3. Payload[m] \in Nat \ {0} /\ SizeField(m) = Payload[m] + 3 /\ SizeField(m) \in 1..SizeField(m)
  BY NumberedUnits
<1>4. \A p \in 1..SizeField(m) : 1 + p - 1 <= Len(stream)
                                 /\ stream[1 + p - 1] = [msg |-> m, pos |-> p]
  BY <1>1, <1>2 DEF MessagesWhole
<1>5. \A p \in 1..SizeField(m) : p <= Len(stream) /\ stream[p] = [msg |-> m, pos |-> p]
  <2> SUFFICES ASSUME NEW p \in 1..SizeField(m)
               PROVE  p <= Len(stream) /\ stream[p] = [msg |-> m, pos |-> p]
    OBVIOUS
  <2>1. 1 + p - 1 = p
    BY <1>3
  <2> QED
    BY <1>4, <2>1
<1>6. SizeField(m) <= Len(stream)
  BY <1>3, <1>5
<1>7. ReadSize(chunk) = SizeField(m) /\ ReadSize(chunk) > 0
  BY <1>1, <1>2, <1>3 DEF ReadSize, SizeOfBegin
<1>8. /\ mSize' = SizeField(m) /\ mBuffer' = AfterHeader(chunk)
      /\ delivery' = IF mSize' = k THEN mBuffer' ELSE Nothing
  BY <1>1, <1>7 DEF ChunkRead, BeginMessage
<1>9. AfterHeader(chunk) = SubSeq(chunk, 4, k)
  BY <1>1 DEF AfterHeader, SizeOfBegin
<1>10. /\ Len(mBuffer') = k - 3
       /\ \A i \in 1..(k - 3) : mBuffer'[i] = stream[i + 3]
  <2>1. \A i \in 4..k : chunk[i] \in Unit
    BY <1>1, ElementOfSeq
  <2>2. /\ Len(mBuffer') = k - 3
        /\ \A i \in 1..(k - 3) : mBuffer'[i] = chunk[i + 3]
    BY <1>1, <1>8, <1>9, <2>1, SubSeqProperties
  <2> QED
    BY <1>1, <2>2
<1>11. \A i \in 1..Payload[m] : Pending(i)' = [msg |-> m, pos |-> SizeOfBegin + i]
  <2> SUFFICES ASSUME NEW i \in 1..Payload[m]
               PROVE  Pending(i)' = [msg |-> m, pos |-> SizeOfBegin + i]
    OBVIOUS
  <2>1. i + 3 \in 1..SizeField(m) /\ SizeOfBegin + i = i + 3
    BY <1>3 DEF SizeOfBegin
  <2>2. stream[i + 3] = [msg |-> m, pos |-> SizeOfBegin + i] /\ i + 3 <= Len(stream)
    BY <1>5, <2>1
  <2>3. CASE i <= k - 3
    <3>1. Pending(i)' = mBuffer'[i]
      BY <1>10, <2>3 DEF Pending
    <3>2. i \in 1..(k - 3)
      BY <1>1, <1>3, <2>3
    <3> QED
      BY <1>10, <2>2, <3>1, <3>2
  <2>4. CASE ~(i <= k - 3)
    <3>1. Pending(i)' = stream'[i - (k - 3)]
      BY <1>10, <2>4 DEF Pending
    <3>2. i - (k - 3) \in 1..Len(stream') /\ (i - (k - 3)) + k = i + 3
      BY <1>1, <1>3, <2>2, <2>4
    <3> QED
      BY <1>1, <2>2, <3>1, <3>2
  <2> QED
    BY <2>3, <2>4
<1>12. InProgress(m)'
  <2>1. Payload[m] <= Len(mBuffer') + Len(stream')
    <3>1. /\ Len(mBuffer') = k - 3 /\ Len(stream') = Len(stream) - k /\ k \in Nat
          /\ SizeField(m) = Payload[m] + 3 /\ SizeField(m) <= Len(stream)
          /\ Payload[m] \in Nat /\ Len(stream) \in Nat
      BY <1>1, <1>3, <1>6, <1>10
    <3> QED
      BY <3>1
  <2> QED
    BY <1>8, <1>11, <2>1 DEF InProgress
<1>13. k = SizeField(m) => delivery' = mBuffer' /\ Len(delivery') = Payload[m]
  BY <1>3, <1>8, <1>10
<1> QED
  BY <1>8, <1>10, <1>12, <1>13, HeaderCut DEF SizeOfBegin

\* A chunk that continues one: what mBuffer will hold does not change.
LEMMA MessageContinued ==
  ASSUME IInv, NEW k \in 1..Len(stream), NEW chunk \in Seq(Unit),
         ChunkRead(k, chunk), ~HasMagic(chunk)
  PROVE  /\ mSize' = mSize
         /\ mBuffer' = mBuffer \o chunk /\ mBuffer' \in Seq(Unit)
         /\ Len(mBuffer') = Len(mBuffer) + k
         /\ \A i \in 1..(Len(mBuffer) + Len(stream)) : Pending(i)' = Pending(i)
         /\ \A m \in Messages : InProgress(m) => InProgress(m)'
<1>1. /\ stream \in Seq(Unit) /\ Len(stream) \in Nat /\ mBuffer \in Seq(Unit) /\ Len(mBuffer) \in Nat
      /\ chunk \in Seq(Unit) /\ Len(chunk) = k /\ k \in Nat
      /\ \A i \in 1..k : chunk[i] = stream[i]
      /\ Len(stream') = Len(stream) - k
      /\ \A i \in 1..Len(stream') : stream'[i] = stream[i + k]
  BY LenProperties DEF IInv, TypeOK, ChunkRead
<1>2. mSize' = mSize /\ mBuffer' = mBuffer \o chunk
  BY DEF ChunkRead, Continue
<1>3. /\ mBuffer' \in Seq(Unit) /\ Len(mBuffer') = Len(mBuffer) + k
      /\ \A i \in 1..(Len(mBuffer) + k) :
           mBuffer'[i] = IF i <= Len(mBuffer) THEN mBuffer[i] ELSE chunk[i - Len(mBuffer)]
  BY <1>1, <1>2, ConcatProperties
<1>4. \A i \in 1..(Len(mBuffer) + Len(stream)) : Pending(i)' = Pending(i)
  <2> SUFFICES ASSUME NEW i \in 1..(Len(mBuffer) + Len(stream))
               PROVE  Pending(i)' = Pending(i)
    OBVIOUS
  <2>1. CASE i <= Len(mBuffer)
    BY <1>1, <1>3, <2>1 DEF Pending
  <2>2. CASE i > Len(mBuffer) /\ i <= Len(mBuffer) + k
    <3>1. i - Len(mBuffer) \in 1..k /\ i \in 1..(Len(mBuffer) + k)
      BY <1>1, <2>2
    <3>2. Pending(i)' = mBuffer'[i] /\ mBuffer'[i] = chunk[i - Len(mBuffer)]
      BY <1>1, <1>3, <2>2, <3>1 DEF Pending
    <3>3. Pending(i) = stream[i - Len(mBuffer)]
      BY <1>1, <2>2 DEF Pending
    <3> QED
      BY <1>1, <3>1, <3>2, <3>3
  <2>3. CASE i > Len(mBuffer) + k
    <3>1. Pending(i)' = stream'[i - (Len(mBuffer) + k)]
      BY <1>1, <1>3, <2>3 DEF Pending
    <3>2. /\ i - (Len(mBuffer) + k) \in 1..Len(stream')
          /\ (i - (Len(mBuffer) + k)) + k = i - Len(mBuffer)
      BY <1>1, <2>3
    <3>3. Pending(i) = stream[i - Len(mBuffer)]
      BY <1>1, <2>3 DEF Pending
    <3> QED
      BY <1>1, <3>1, <3>2, <3>3
  <2> QED
    BY <1>1, <2>1, <2>2, <2>3
<1>5. ASSUME NEW m \in Messages, InProgress(m)
      PROVE  InProgress(m)'
  <2>1. Payload[m] \in Nat /\ Payload[m] <= Len(mBuffer) + Len(stream)
    BY <1>5, MessageTypes DEF InProgress
  <2>2. Payload[m] <= Len(mBuffer') + Len(stream')
    BY <1>1, <1>3, <2>1
  <2>3. \A i \in 1..Payload[m] : i \in 1..(Len(mBuffer) + Len(stream))
    BY <1>1, <2>1
  <2>4. \A i \in 1..Payload[m] : Pending(i) = [msg |-> m, pos |-> SizeOfBegin + i]
    BY <1>5 DEF InProgress
  <2>5. \A i \in 1..Payload[m] : Pending(i)' = [msg |-> m, pos |-> SizeOfBegin + i]
    BY <1>4, <2>3, <2>4
  <2> QED
    BY <1>2, <1>5, <2>2, <2>5 DEF InProgress
<1> QED
  BY <1>2, <1>3, <1>4, <1>5

\* A chunk that ends after the magic number: the size is not known.
LEMMA SizeMissing ==
  ASSUME IInv, NEW k \in 1..Len(stream), NEW chunk \in Seq(Unit),
         ChunkRead(k, chunk), HasMagic(chunk), k < SizeOfBegin
  PROVE  mSize' = 0 /\ mBuffer' = mBuffer /\ delivery' = Nothing
<1>1. Len(chunk) = k /\ k = 2
  BY LenProperties DEF ChunkRead, HasMagic, SizeOfBegin
<1>2. ReadSize(chunk) = 0
  BY <1>1 DEF ReadSize, SizeOfBegin
<1> QED
  BY <1>1, <1>2 DEF ChunkRead, BeginMessage

\* What a chunk that continues a message delivers.
LEMMA ContinuedDelivery ==
  ASSUME IInv, NEW k \in 1..Len(stream), NEW chunk \in Seq(Unit),
         ChunkRead(k, chunk), ~HasMagic(chunk)
  PROVE  /\ mSize = 0 => delivery' = Nothing
         /\ \A m \in Messages : mSize = SizeField(m) =>
              /\ Len(mBuffer') < Payload[m] => delivery' = Nothing
              /\ Len(mBuffer') = Payload[m] => delivery' = mBuffer'
              /\ Len(mBuffer') > Payload[m] => delivery' = FirstOf(mBuffer', SizeField(m))
<1>1. /\ delivery' = IF Len(mBuffer') = mSize - SizeOfBegin THEN mBuffer'
                     ELSE IF Len(mBuffer') > mSize - SizeOfBegin THEN FirstOf(mBuffer', mSize)
                     ELSE Nothing
      /\ mBuffer' \in Seq(Unit) /\ Len(mBuffer') \in Nat
  BY MessageContinued, LenProperties DEF ChunkRead, Continue
<1>2. ASSUME mSize = 0
      PROVE  delivery' = Nothing
  <2>1. delivery' = FirstOf(mBuffer', 0)
    BY <1>1, <1>2 DEF SizeOfBegin
  <2>2. FirstOf(mBuffer', 0) = SubSeq(mBuffer', 1, 0)
    BY <1>1 DEF FirstOf
  <2>3. SubSeq(mBuffer', 1, 0) \in Seq(Unit) /\ Len(SubSeq(mBuffer', 1, 0)) = 0
    BY <1>1, SubSeqProperties
  <2> QED
    BY <2>1, <2>2, <2>3, EmptySeq DEF Nothing
<1>3. ASSUME NEW m \in Messages, mSize = SizeField(m)
      PROVE  /\ Len(mBuffer') < Payload[m] => delivery' = Nothing
             /\ Len(mBuffer') = Payload[m] => delivery' = mBuffer'
             /\ Len(mBuffer') > Payload[m] => delivery' = FirstOf(mBuffer', SizeField(m))
  <2>1. mSize - SizeOfBegin = Payload[m] /\ Payload[m] \in Nat
    BY <1>3, NumberedUnits DEF SizeOfBegin
  <2> QED
    BY <1>1, <1>3, <2>1
<1> QED
  BY <1>2, <1>3

\* If mBuffer has come to hold the message in progress, its beginning is that message.
LEMMA WholeInBuffer ==
  ASSUME NEW m \in Messages, mBuffer' \in Seq(Unit), InProgress(m)', Payload[m] <= Len(mBuffer'),
         \/ delivery' = mBuffer' /\ Len(mBuffer') = Payload[m]
         \/ delivery' = FirstOf(mBuffer', SizeField(m))
  PROVE  IsPrefix(Body(m), delivery') /\ Len(delivery') <= Payload[m] + SizeOfBegin
<1>1. /\ Payload[m] \in Nat \ {0} /\ SizeField(m) = Payload[m] + 3 /\ SizeField(m) \in Nat
      /\ Len(mBuffer') \in Nat
  BY NumberedUnits, LenProperties
<1>2. \A i \in 1..Payload[m] : mBuffer'[i] = [msg |-> m, pos |-> SizeOfBegin + i]
  BY <1>1 DEF InProgress, Pending
<1>3. CASE delivery' = mBuffer' /\ Len(mBuffer') = Payload[m]
  BY <1>1, <1>2, <1>3, BeginsWithBody DEF SizeOfBegin
<1>4. CASE delivery' = FirstOf(mBuffer', SizeField(m))
  <2> DEFINE n == IF SizeField(m) < Len(mBuffer') THEN SizeField(m) ELSE Len(mBuffer')
  <2>1. n \in 1..Len(mBuffer') /\ n <= SizeField(m) /\ Payload[m] <= n
    BY <1>1
  <2>2. delivery' = SubSeq(mBuffer', 1, n)
    BY <1>4 DEF FirstOf
  <2> HIDE DEF n
  <2>3. /\ delivery' \in Seq(Unit) /\ Len(delivery') = n
        /\ \A i \in 1..n : delivery'[i] = mBuffer'[i]
    BY <2>1, <2>2, ChunkUnits
  <2>4. \A i \in 1..Payload[m] : delivery'[i] = [msg |-> m, pos |-> SizeOfBegin + i]
    BY <1>1, <1>2, <2>1, <2>3
  <2> QED
    BY <1>1, <2>1, <2>3, <2>4, BeginsWithBody DEF SizeOfBegin
<1> QED
  BY <1>3, <1>4

LEMMA ReceiveWhole ==
  ASSUME WholeInv, Receive
  PROVE  WholeInv'
<1>1. /\ IInv /\ IInv' /\ TypeOK /\ MessagesWhole /\ Started /\ AloneStream /\ Expected
      /\ stream \in Seq(Unit) /\ Len(stream) \in Nat /\ stream' \in Seq(Unit)
      /\ mBuffer \in Seq(Unit) /\ Len(mBuffer) \in Nat /\ count \in Nat
      /\ mBuffer' \in Seq(Unit) /\ Len(mBuffer') \in Nat
      /\ mSize \in {0} \cup {SizeOfBegin + Payload[m] : m \in Messages}
  BY ReceiveStep, LenProperties DEF WholeInv, IInv, TypeOK
<1>2. PICK k \in 1..Len(stream) : \E c \in Seq(Unit) : ChunkRead(k, c)
  BY <1>1, SomeChunk
<1>3. PICK chunk \in Seq(Unit) : ChunkRead(k, chunk)
  BY <1>2
<1>4. /\ Len(chunk) = k /\ k \in Nat /\ 1 \in 1..Len(stream) /\ chunk[1] = stream[1]
      /\ Len(stream') = Len(stream) - k
      /\ \A i \in 1..Len(stream') : stream'[i] = stream[i + k] /\ i + k \in 1..Len(stream)
      /\ intact' = (intact \/ (Len(chunk) >= SizeOfBegin /\ chunk[1] = [msg |-> sent, pos |-> 1]))
      /\ count' = IF delivery' = Nothing THEN count ELSE count + 1
      /\ sent' = sent /\ reconnects' = reconnects /\ alone' = alone
      /\ HasMagic(chunk) <=> k >= 2 /\ stream[1].pos = 1
  BY <1>1, <1>3 DEF ChunkRead, HasMagic
<1>5. MessagesWhole'
  <2> SUFFICES ASSUME NEW i \in 1..Len(stream'), stream'[i].pos = 1,
                      NEW p \in 1..SizeField(stream'[i].msg)
               PROVE  /\ i + p - 1 <= Len(stream')
                      /\ stream'[i + p - 1] = [msg |-> stream'[i].msg, pos |-> p]
    BY DEF MessagesWhole
  <2>1. i + k \in 1..Len(stream) /\ stream'[i] = stream[i + k]
    BY <1>4
  <2>2. /\ (i + k) + p - 1 <= Len(stream)
        /\ stream[(i + k) + p - 1] = [msg |-> stream'[i].msg, pos |-> p]
    BY <1>1, <2>1 DEF MessagesWhole
  <2>3. p \in Nat /\ p >= 1
    <3>1. stream[i + k].msg \in Messages
      BY <1>1, <2>1, ElementOfSeq, MessageTypes
    <3> QED
      BY <2>1, <3>1, NumberedUnits
  <2>4. i + p - 1 \in 1..Len(stream') /\ (i + p - 1) + k = (i + k) + p - 1
    <3>1. /\ Len(stream') = Len(stream) - k /\ k \in Nat /\ Len(stream) \in Nat
          /\ i \in Nat /\ i >= 1
      BY <1>1, <1>4
    <3> QED
      BY <2>2, <2>3, <3>1
  <2> QED
    BY <1>4, <2>2, <2>4
<1>6. AloneStream'
  <2> SUFFICES ASSUME alone
               PROVE  /\ sent \in Messages
                      /\ Len(stream') <= SizeField(sent)
                      /\ \A i \in 1..Len(stream') :
                           stream'[i] = [msg |-> sent, pos |-> SizeField(sent) - Len(stream') + i]
                      /\ Len(stream') # SizeField(sent)
    BY <1>4 DEF AloneStream
  <2>1. /\ sent \in Messages /\ Len(stream) <= SizeField(sent)
        /\ \A i \in 1..Len(stream) :
             stream[i] = [msg |-> sent, pos |-> SizeField(sent) - Len(stream) + i]
    BY <1>1 DEF AloneStream
  <2>2. SizeField(sent) \in Nat
    BY <2>1, NumberedUnits
  <2>3. ASSUME NEW i \in 1..Len(stream')
        PROVE  stream'[i] = [msg |-> sent, pos |-> SizeField(sent) - Len(stream') + i]
    <3>1. stream'[i] = stream[i + k] /\ i + k \in 1..Len(stream)
      BY <1>4
    <3>2. SizeField(sent) - Len(stream) + (i + k) = SizeField(sent) - Len(stream') + i
      BY <1>1, <1>4, <2>2
    <3> QED
      BY <2>1, <3>1, <3>2
  <2> QED
    BY <1>1, <1>4, <2>1, <2>2, <2>3
<1>7. CASE HasMagic(chunk) /\ k >= SizeOfBegin
  <2>1. PICK m \in Messages : m = stream[1].msg
    BY <1>1, <1>4, ElementOfSeq, MessageTypes
  <2>2. /\ mSize' = SizeField(m) /\ Len(mBuffer') = k - SizeOfBegin
        /\ InProgress(m)'
        /\ k = SizeField(m) => delivery' = mBuffer' /\ Len(delivery') = Payload[m]
        /\ k # SizeField(m) => delivery' = Nothing
    BY <1>1, <1>3, <1>7, <2>1, MessageBegun
  <2>3. Payload[m] \in Nat \ {0} /\ SizeField(m) = Payload[m] + 3
    BY NumberedUnits
  <2>4. Started'
    BY <2>2 DEF Started
  <2>5. DeliveredWhole'
    <3>1. CASE k = SizeField(m)
      <4>1. Len(mBuffer') = Payload[m] /\ delivery' = mBuffer' /\ Payload[m] <= Len(mBuffer')
        BY <2>2, <2>3, <3>1
      <4>2. IsPrefix(Body(m), delivery') /\ Len(delivery') <= Payload[m] + SizeOfBegin
        BY <1>1, <2>2, <4>1, WholeInBuffer
      <4> QED
        BY <4>2 DEF DeliveredWhole
    <3>2. CASE k # SizeField(m)
      BY <2>2, <3>2 DEF DeliveredWhole
    <3> QED
      BY <3>1, <3>2
  <2>6. ASSUME alone
        PROVE  /\ m = sent /\ Len(stream) = SizeField(m) /\ count = 0
    <3>1. /\ sent \in Messages /\ Len(stream) <= SizeField(sent)
          /\ stream[1] = [msg |-> sent, pos |-> SizeField(sent) - Len(stream) + 1]
          /\ Len(stream) = SizeField(sent) => count = 0
      BY <1>1, <1>4, <2>6 DEF AloneStream
    <3>2. m = sent /\ SizeField(sent) - Len(stream) + 1 = 1
      BY <1>4, <1>7, <2>1, <3>1
    <3> QED
      BY <1>1, <2>3, <3>1, <3>2
  <2>7. Expected'
    <3> SUFFICES ASSUME alone
                 PROVE  /\ mSize' = SizeField(sent)
                        /\ Len(mBuffer') + Len(stream') = Payload[sent]
                        /\ count' = IF stream' = <<>> THEN 1 ELSE 0
      BY <1>4 DEF Expected
    <3>1. mSize' = SizeField(sent) /\ Len(mBuffer') + Len(stream') = Payload[sent]
      <4>1. Len(mBuffer') = k - 3 /\ Len(stream') = (Payload[m] + 3) - k /\ m = sent
        BY <1>4, <2>2, <2>3, <2>6 DEF SizeOfBegin
      <4>2. Len(mBuffer') + Len(stream') = Payload[m]
        BY <1>4, <2>3, <4>1
      <4> QED
        BY <2>2, <4>1, <4>2
    <3>2. stream' = <<>> <=> k = SizeField(m)
      BY <1>1, <1>4, <2>6, EmptySeq
    <3>3. k = SizeField(m) => delivery' # Nothing
      BY <2>2, <2>3, EmptySeq DEF Nothing
    <3> QED
      BY <1>4, <2>2, <2>6, <3>1, <3>2, <3>3
  <2> QED
    BY <1>1, <1>5, <1>6, <2>4, <2>5, <2>7 DEF WholeInv
<1>8. CASE HasMagic(chunk) /\ ~(k >= SizeOfBegin)
  <2>1. k < SizeOfBegin
    BY <1>4, <1>8 DEF SizeOfBegin
  <2>2. mSize' = 0 /\ mBuffer' = mBuffer /\ delivery' = Nothing
    BY <1>1, <1>3, <1>8, <2>1, SizeMissing
  <2>3. Started' /\ DeliveredWhole'
    BY <2>2 DEF Started, DeliveredWhole
  <2>4. ASSUME alone
        PROVE  ~intact'
    <3>1. /\ sent \in Messages /\ Len(stream) <= SizeField(sent)
          /\ stream[1] = [msg |-> sent, pos |-> SizeField(sent) - Len(stream) + 1]
          /\ Len(stream) = SizeField(sent) => ~intact
      BY <1>1, <1>4, <2>4 DEF AloneStream
    <3>2. SizeField(sent) - Len(stream) + 1 = 1 /\ SizeField(sent) \in Nat
      BY <1>4, <1>8, <3>1, NumberedUnits
    <3>3. ~intact
      BY <1>1, <3>1, <3>2
    <3> QED
      <4>1. ~(Len(chunk) >= SizeOfBegin)
        BY <1>4, <2>1 DEF SizeOfBegin
      <4> QED
        BY <1>4, <3>3, <4>1, Zenon
  <2>5. Expected'
    BY <1>4, <2>4 DEF Expected
  <2> QED
    BY <1>1, <1>5, <1>6, <2>3, <2>5 DEF WholeInv
<1>9. CASE ~HasMagic(chunk)
  <2>1. /\ mSize' = mSize /\ Len(mBuffer') = Len(mBuffer) + k
        /\ \A m \in Messages : InProgress(m) => InProgress(m)'
    BY <1>1, <1>3, <1>9, MessageContinued
  <2>2. /\ mSize = 0 => delivery' = Nothing
        /\ \A m \in Messages : mSize = SizeField(m) =>
             /\ Len(mBuffer') < Payload[m] => delivery' = Nothing
             /\ Len(mBuffer') = Payload[m] => delivery' = mBuffer'
             /\ Len(mBuffer') > Payload[m] => delivery' = FirstOf(mBuffer', SizeField(m))
    BY <1>1, <1>3, <1>9, ContinuedDelivery
  <2>3. Started'
    BY <1>1, <1>4, <2>1 DEF Started
  <2>4. DeliveredWhole'
    <3> SUFFICES ASSUME reconnects = 0, delivery' # Nothing
                 PROVE  \E m \in Messages : /\ IsPrefix(Body(m), delivery')
                                            /\ Len(delivery') <= Payload[m] + SizeOfBegin
      BY <1>4 DEF DeliveredWhole
    <3>1. PICK m \in Messages : InProgress(m)
      BY <1>1, <2>2 DEF Started
    <3>2. InProgress(m)' /\ mSize = SizeField(m) /\ Payload[m] \in Nat
      BY <2>1, <3>1, NumberedUnits DEF InProgress
    <3>3. \/ Len(mBuffer') = Payload[m] /\ delivery' = mBuffer'
          \/ Len(mBuffer') > Payload[m] /\ delivery' = FirstOf(mBuffer', SizeField(m))
      BY <1>1, <2>2, <3>2
    <3>4. Payload[m] <= Len(mBuffer')
      BY <1>1, <3>2, <3>3
    <3> QED
      BY <1>1, <3>2, <3>3, <3>4, WholeInBuffer
  <2>5. Expected'
    <3> SUFFICES ASSUME alone, intact'
                 PROVE  /\ mSize' = SizeField(sent)
                        /\ Len(mBuffer') + Len(stream') = Payload[sent]
                        /\ count' = IF stream' = <<>> THEN 1 ELSE 0
      BY <1>4 DEF Expected
    <3>1. intact
      <4>1. ~(Len(chunk) >= SizeOfBegin /\ chunk[1] = [msg |-> sent, pos |-> 1])
        BY <1>4, <1>9 DEF SizeOfBegin
      <4> QED
        BY <1>4, <4>1, Zenon
    <3>2. /\ mSize = SizeField(sent) /\ Len(mBuffer) + Len(stream) = Payload[sent]
          /\ count = IF stream = <<>> THEN 1 ELSE 0
          /\ sent \in Messages
      BY <1>1, <3>1 DEF Expected, AloneStream
    <3>3. mSize' = SizeField(sent) /\ Len(mBuffer') + Len(stream') = Payload[sent]
      BY <1>1, <1>4, <2>1, <3>2
    <3>4. Payload[sent] \in Nat \ {0} /\ count = 0 /\ k >= 1
      BY <1>4, <3>2, NumberedUnits, EmptySeq
    <3>5. CASE Len(mBuffer') = Payload[sent]
      <4>1. delivery' = mBuffer' /\ delivery' # Nothing
        BY <2>2, <3>2, <3>4, <3>5, EmptySeq DEF Nothing
      <4>2. stream' = <<>>
        BY <1>1, <3>3, <3>4, <3>5, <1>4, EmptySeq
      <4> QED
        BY <1>4, <3>3, <3>4, <4>1, <4>2
    <3>6. CASE Len(mBuffer') # Payload[sent]
      <4>1. Len(mBuffer') < Payload[sent] /\ stream' # <<>>
        BY <1>1, <1>4, <3>3, <3>4, <3>6, EmptySeq
      <4>2. delivery' = Nothing
        BY <2>2, <3>2, <4>1
      <4> QED
        BY <1>4, <3>3, <3>4, <4>1, <4>2
    <3> QED
      BY <3>5, <3>6
  <2> QED
    BY <1>1, <1>5, <1>6, <2>3, <2>4, <2>5 DEF WholeInv
<1> QED
  BY <1>7, <1>8, <1>9

LEMMA SendWhole ==
  ASSUME WholeInv, Send
  PROVE  WholeInv'
<1>1. /\ IInv /\ IInv' /\ MessagesWhole /\ Started
      /\ stream \in Seq(Unit) /\ Len(stream) \in Nat
      /\ mBuffer \in Seq(Unit) /\ Len(mBuffer) \in Nat
      /\ sent' \in Messages
  <2>1. IInv'
    BY SendStep DEF WholeInv
  <2>2. sent' \in Messages
    BY MessageTypes DEF WholeInv, IInv, TypeOK, Send
  <2> QED
    BY <2>1, <2>2, LenProperties DEF WholeInv, IInv, TypeOK
<1>2. /\ stream' = stream \o Framed(sent')
      /\ alone' = (stream = <<>>) /\ intact' = FALSE /\ count' = 0 /\ delivery' = Nothing
      /\ mBuffer' = mBuffer /\ mSize' = mSize /\ reconnects' = reconnects
  BY DEF Send
<1> DEFINE new == Framed(sent')
<1>3. /\ new \in Seq(Unit) /\ Len(new) = SizeField(sent') /\ SizeField(sent') \in Nat
      /\ \A p \in 1..SizeField(sent') : new[p] = [msg |-> sent', pos |-> p]
  BY <1>1, FramedUnits, NumberedUnits
<1> HIDE DEF new
<1>4. /\ Len(stream') = Len(stream) + Len(new)
      /\ \A i \in 1..(Len(stream) + Len(new)) :
           stream'[i] = IF i <= Len(stream) THEN stream[i] ELSE new[i - Len(stream)]
  <2>1. stream' = stream \o new
    BY <1>2 DEF new
  <2> QED
    BY <1>1, <1>3, <2>1, ConcatProperties
<1>5. MessagesWhole'
  <2> SUFFICES ASSUME NEW i \in 1..Len(stream'), stream'[i].pos = 1,
                      NEW p \in 1..SizeField(stream'[i].msg)
               PROVE  /\ i + p - 1 <= Len(stream')
                      /\ stream'[i + p - 1] = [msg |-> stream'[i].msg, pos |-> p]
    BY DEF MessagesWhole
  <2>1. CASE i <= Len(stream)
    <3>1. stream'[i] = stream[i] /\ i \in 1..Len(stream)
      BY <1>1, <1>3, <1>4, <2>1
    <3>2. stream[i].msg \in Messages
      BY <1>1, <3>1, ElementOfSeq, MessageTypes
    <3>3. SizeField(stream[i].msg) \in Nat
      BY <3>2, NumberedUnits
    <3>4. /\ i + p - 1 <= Len(stream)
          /\ stream[i + p - 1] = [msg |-> stream'[i].msg, pos |-> p]
      BY <1>1, <3>1 DEF MessagesWhole
    <3>5. i + p - 1 \in 1..(Len(stream) + Len(new))
      BY <1>1, <1>3, <3>1, <3>3, <3>4
    <3> QED
      BY <1>1, <1>3, <1>4, <3>4, <3>5
  <2>2. CASE ~(i <= Len(stream))
    <3>1. i - Len(stream) \in 1..SizeField(sent') /\ stream'[i] = new[i - Len(stream)]
      BY <1>1, <1>3, <1>4, <2>2
    <3>2. stream'[i] = [msg |-> sent', pos |-> i - Len(stream)]
      BY <1>3, <3>1
    <3>3. i = Len(stream) + 1 /\ stream'[i].msg = sent'
      BY <1>1, <3>1, <3>2
    <3>4. p \in 1..SizeField(sent')
      BY <3>3
    <3>5. /\ i + p - 1 \in 1..(Len(stream) + Len(new)) /\ i + p - 1 > Len(stream)
          /\ (i + p - 1) - Len(stream) = p
      BY <1>1, <1>3, <3>3, <3>4
    <3>6. stream'[i + p - 1] = new[p]
      <4>1. ASSUME NEW j \in 1..(Len(stream) + Len(new)), j > Len(stream), j - Len(stream) = p
            PROVE  stream'[j] = new[p]
        BY <1>1, <1>4, <4>1
      <4> QED
        BY <3>5, <4>1
    <3> QED
      BY <1>3, <1>4, <3>3, <3>4, <3>5, <3>6
  <2> QED
    BY <2>1, <2>2
<1>6. Started'
  <2> SUFFICES ASSUME reconnects = 0, mSize # 0
               PROVE  \E m \in Messages : InProgress(m)'
    BY <1>2 DEF Started
  <2>1. PICK m \in Messages : InProgress(m)
    BY <1>1 DEF Started
  <2>2. Payload[m] \in Nat /\ Payload[m] <= Len(mBuffer) + Len(stream)
    BY <2>1, NumberedUnits DEF InProgress
  <2>3. ASSUME NEW i \in 1..Payload[m]
        PROVE  Pending(i)' = [msg |-> m, pos |-> SizeOfBegin + i]
    <3>1. Pending(i) = [msg |-> m, pos |-> SizeOfBegin + i]
      BY <2>1 DEF InProgress
    <3>2. CASE i <= Len(mBuffer)
      BY <1>2, <3>1, <3>2 DEF Pending
    <3>3. CASE ~(i <= Len(mBuffer))
      <4>1. i - Len(mBuffer) \in 1..Len(stream)
        BY <1>1, <2>2, <3>3
      <4>2. stream'[i - Len(mBuffer)] = stream[i - Len(mBuffer)]
        BY <1>1, <1>3, <1>4, <4>1
      <4> QED
        BY <1>2, <3>1, <3>3, <4>2 DEF Pending
    <3> QED
      BY <3>2, <3>3
  <2>4. InProgress(m)'
    <3>1. Payload[m] <= Len(mBuffer') + Len(stream')
      BY <1>1, <1>2, <1>3, <1>4, <2>2
    <3>2. mSize' = SizeField(m)
      BY <1>2, <2>1 DEF InProgress
    <3> QED
      BY <2>3, <3>1, <3>2 DEF InProgress
  <2> QED
    BY <2>4
<1>7. AloneStream'
  <2> SUFFICES ASSUME stream = <<>>
               PROVE  /\ Len(stream') <= SizeField(sent')
                      /\ \A i \in 1..Len(stream') :
                           stream'[i] = [msg |-> sent', pos |-> SizeField(sent') - Len(stream') + i]
    BY <1>1, <1>2 DEF AloneStream
  <2>1. Len(stream) = 0 /\ Len(stream') = SizeField(sent')
    BY <1>3, <1>4, EmptySeq
  <2>2. ASSUME NEW i \in 1..Len(stream')
        PROVE  stream'[i] = [msg |-> sent', pos |-> SizeField(sent') - Len(stream') + i]
    <3>1. stream'[i] = new[i] /\ SizeField(sent') - Len(stream') + i = i
      BY <1>3, <1>4, <2>1
    <3> QED
      BY <1>3, <2>1, <3>1
  <2> QED
    BY <1>3, <2>1, <2>2
<1>8. Expected' /\ DeliveredWhole'
  BY <1>2 DEF Expected, DeliveredWhole
<1> QED
  BY <1>1, <1>5, <1>6, <1>7, <1>8 DEF WholeInv

LEMMA WholeStep ==
  ASSUME WholeInv, [Next]_vars
  PROVE  WholeInv'
<1>1. CASE UNCHANGED vars
  BY <1>1 DEF vars, WholeInv, IInv, TypeOK, Ahead, StreamAhead, BufferAhead, MessagesWhole,
              Started, InProgress, Pending, AloneStream, Expected, DeliveredWhole
<1>2. CASE Reconnect
  <2>1. /\ stream' = <<>> /\ Len(stream') = 0
        /\ delivery' = Nothing /\ alone' = FALSE /\ reconnects' = reconnects + 1
    BY <1>2, EmptySeq DEF Reconnect
  <2>2. reconnects' # 0
    BY <2>1 DEF WholeInv, IInv, TypeOK
  <2>3. IInv'
    BY <1>2, ReconnectStep DEF WholeInv
  <2> QED
    BY <2>1, <2>2, <2>3 DEF WholeInv, MessagesWhole, Started, AloneStream, Expected, DeliveredWhole
<1>3. CASE Send \/ Receive
  BY <1>3, SendWhole, ReceiveWhole
<1> QED
  BY <1>1, <1>2, <1>3 DEF Next

LEMMA InitWhole == Init => WholeInv
<1> SUFFICES ASSUME Init PROVE WholeInv
  OBVIOUS
<1>1. Len(stream) = 0 /\ mSize = 0 /\ ~alone /\ delivery = Nothing
  BY EmptySeq DEF Init, Nothing
<1> QED
  BY <1>1, InitInv DEF WholeInv, MessagesWhole, Started, AloneStream, Expected, DeliveredWhole

-----------------------------------------------------------------------------
(* The theorems. *)

\* The units on their way, in mBuffer and in a delivery are units of messages, and mSize is
\* the size of one of them, however the stream is cut.
THEOREM TypeCorrect == Spec => []TypeOK
<1>1. IInv /\ [Next]_vars => IInv'
  BY StepInv
<1>2. IInv => TypeOK
  BY DEF IInv
<1> QED
  BY <1>1, <1>2, InitInv, PTL DEF Spec

\* The receiver never takes an image older than its last: mBuffer is never emptied, but
\* what is left in it of an earlier message or connection is overwritten, or continued, by
\* newer messages only.
THEOREM ImagesNeverBackwards == Spec => NeverBackwards
<1>1. IInv /\ [Next]_vars => IInv' /\ [mLastId' >= mLastId]_vars
  BY StepInv
<1> QED
  BY <1>1, InitInv, PTL DEF Spec, NeverBackwards

\* However the stream is cut, what the worker gets on a connection that was never restarted
\* begins with a whole message, and a message that is alone on the stream and has kept its
\* header in one piece is delivered once (onReadFinished).
THEOREM MessagesDeliveredWhole == Spec => []DeliveriesWhole
<1>1. WholeInv /\ [Next]_vars => WholeInv'
  BY WholeStep
<1>2. WholeInv => DeliveriesWhole
  BY DEF WholeInv, IInv, Expected, DeliveredWhole, DeliveriesWhole
<1> QED
  BY <1>1, <1>2, InitWhole, PTL DEF Spec

-----------------------------------------------------------------------------
(* UdpImages. *)

\* What a client gets is what it asked for.
Answered(d) ==
  /\ d.to \in Clients
  /\ d.answer.code = "image" => /\ Wants[d.to] \in Cameras /\ d.answer.camera = Wants[d.to]
                                /\ d.answer.id \in Ids
  /\ d.answer.code = "text" => Wants[d.to] = Text

\* The socket is reopened after a timeout only.
Reopened(c) == mSocket[c] + (IF mErrorTimer[c] THEN 1 ELSE 0) <= timeouts[c]

\* The image pushed last is the last one of mLastId.
Pushed(c) ==
  /\ frames[c] = <<>> <=> mLastIds[c] = Null
  /\ frames[c] # <<>> => frames[c][Len(frames[c])] = mLastIds[c]
  /\ Len(frames[c]) = 2 => frames[c][1] # frames[c][2]

UdpInv ==
  /\ UdpTypeOK
  /\ \A d \in BagToSet(answers) : Answered(d)
  /\ \A c \in Clients : Reopened(c) /\ Pushed(c)

\* As long as nothing goes wrong a client has one request or one answer on its way, or
\* waits to send the next request.
Untroubled(c) == timeouts[c] = 0 /\ duplicates = 0 /\ serverRestarts = 0
Asking(c) == {r \in BagToSet(requests) : r.from = c}
Answering(c) == {d \in BagToSet(answers) : d.to = c}
OneChain(c) ==
  /\ \A r \in Asking(c) : r.socket = 0 /\ requests[r] = 1
  /\ \A d \in Answering(c) : answers[d] = 1 /\ Answering(c) = {d}
  /\ Asking(c) = {} \/ Answering(c) = {}
  /\ mConnectTimer[c] \/ mRequestTimer[c] => Asking(c) = {} /\ Answering(c) = {}
  /\ ~(mConnectTimer[c] /\ mRequestTimer[c])

\* Its images are then older than those that come.
Ordered(c) ==
  /\ mLastIds[c] # Null => Wants[c] \in Cameras /\ mLastIds[c] <= newest[Wants[c]]
  /\ \A d \in Answering(c) : d.answer.code = "image" =>
       mLastIds[c] <= d.answer.id /\ d.answer.id <= newest[Wants[c]]
  /\ Len(frames[c]) = 2 => frames[c][1] < frames[c][2]

ChainInv == UdpInv /\ \A c \in Clients : Untroubled(c) => OneChain(c) /\ Ordered(c)

\* The connection restarts only when two timeouts in a row at least got no answer.
Patient(c) ==
  2 * (mSocket[c] + (IF mErrorTimer[c] THEN 1 ELSE 0)) + mErrorNumber[c] <= timeouts[c]
Waited(c) ==
  /\ Patient(c) /\ IsFiniteSet(ComingTo(c, answers))
  /\ Chains(c) <= 1 + timeouts[c] + duplicates

\* So the requests that a restart sends at once are no more than the timeouts before it, and
\* those of an old socket are not answered any more.
PileInv ==
  /\ UdpInv
  /\ \A r \in BagToSet(requests) : r.socket <= mSocket[r.from]
  /\ \A c \in Clients : Waited(c)

-----------------------------------------------------------------------------
\* A bag with some more copies of an element, and with one copy less.
LEMMA BagAdd ==
  ASSUME NEW B, IsABag(B), NEW e, NEW n \in Nat \ {0}, NEW A, DOMAIN A = {e}, A[e] = n,
         NEW N, N = B (+) A
  PROVE  /\ IsABag(N) /\ DOMAIN N = DOMAIN B \cup {e}
         /\ \A x \in DOMAIN B : x # e => N[x] = B[x]
         /\ e \notin DOMAIN B => N[e] = n
  BY DEF IsABag, (+)
LEMMA BagAddOne ==
  ASSUME NEW B, IsABag(B), NEW e, NEW N, N = B (+) SetToBag({e})
  PROVE  /\ IsABag(N) /\ DOMAIN N = DOMAIN B \cup {e}
         /\ \A x \in DOMAIN B : x # e => N[x] = B[x]
         /\ e \notin DOMAIN B => N[e] = 1
  BY DEF IsABag, (+), SetToBag
LEMMA BagRemove ==
  ASSUME NEW B, IsABag(B), NEW e \in DOMAIN B, NEW N, N = B (-) SetToBag({e})
  PROVE  /\ IsABag(N) /\ DOMAIN N \subseteq DOMAIN B
         /\ \A x \in DOMAIN N : x # e => N[x] = B[x]
         /\ B[e] = 1 => e \notin DOMAIN N
  BY DEF IsABag, (-), SetToBag

-----------------------------------------------------------------------------
\* What the worker answers.
LEMMA AnswerFacts ==
  ASSUME UdpTypeOK, NEW c \in Clients
  PROVE  LET answer == AnswerTo(Wants[c])
         IN  /\ answer.code = "image" => /\ Wants[c] \in Cameras /\ answer.camera = Wants[c]
                                         /\ answer.id \in Ids /\ answer.id = newest[Wants[c]]
             /\ answer.code = "text" => Wants[c] = Text
<1>1. \A camera \in Cameras : newest[camera] \in Ids \cup {Null}
  BY DEF UdpTypeOK
<1> QED
  BY <1>1 DEF AnswerTo, Save

\* The sender that is read is the one that is answered, because the queue was empty.
LEMMA TakenFacts ==
  ASSUME mQueue = <<>>, NEW request
  PROVE  Taken(Appended(request)).sender = request /\ Taken(Appended(request)).rest = <<>>
<1>1. Append(<<>>, request) = <<request>> /\ <<request>> \in Seq({request})
  OBVIOUS
<1>2. Head(<<request>>) = request /\ Tail(<<request>>) = <<>>
  OBVIOUS
<1> QED
  BY <1>1, <1>2 DEF Taken, Appended

\* However often an answer is handed over, its image is taken once, and not again.
LEMMA CopiesFacts ==
  ASSUME NEW c, mSocket[c] \in Nat, NEW answer
  PROVE  Copies(c, answer) = IF answer.code = "image" /\ answer.id # mLastIds[c] THEN 1 ELSE 0
<1> DEFINE K == {k \in 0..mSocket[c] : Loads(IF k = 0 THEN mLastIds[c] ELSE answer.id, answer)}
<1>1. K = IF answer.code = "image" /\ answer.id # mLastIds[c] THEN {0} ELSE {}
  BY DEF Loads
<1>2. Cardinality({0}) = 1 /\ Cardinality({}) = 0
  BY FS_Singleton, FS_EmptySet
<1> QED
  BY <1>1, <1>2 DEF Copies

\* A buffer of at most two, and the last two of three.
LEMMA LenOfTwo ==
  ASSUME NEW S, NEW s \in Seq(S), Len(s) <= 2
  PROVE  Len(s) \in 0..2
<1>1. Len(s) \in Nat
  BY LenProperties
<1>2. \A k \in Nat : k <= 2 => k \in 0..2
  OBVIOUS
<1> QED
  BY <1>1, <1>2
LEMMA LastTwoOfThree ==
  ASSUME NEW S, NEW a \in Seq(S), Len(a) = 3
  PROVE  Last2(a) \in Seq(S) /\ Len(Last2(a)) = 2 /\ Last2(a)[1] = a[2] /\ Last2(a)[2] = a[3]
<1>1. Last2(a) = SubSeq(a, 2, 3)
  BY DEF Last2
<1>2. \A i \in 2..3 : a[i] \in S
  <2>1. \A i \in 1..3 : a[i] \in S
    BY ElementOfSeq
  <2> QED
    BY <2>1
<1>3. /\ SubSeq(a, 2, 3) \in Seq(S) /\ Len(SubSeq(a, 2, 3)) = 3 - 2 + 1
      /\ \A i \in 1..3 - 2 + 1 : SubSeq(a, 2, 3)[i] = a[2 + i - 1]
  BY <1>2, SubSeqProperties
<1> QED
  BY <1>1, <1>3

\* A client's buffer after no image, and after one.
LEMMA BufferSame ==
  ASSUME NEW s \in Seq(Ids), Len(s) <= 2
  PROVE  Last2(s \o <<>>) = s
<1>1. Len(s) \in 0..2
  BY LenOfTwo
<1>2. s \o <<>> = s
  OBVIOUS
<1> QED
  BY <1>1, <1>2 DEF Last2
LEMMA BufferPushed ==
  ASSUME NEW s \in Seq(Ids), Len(s) <= 2, NEW x \in Ids, NEW t, t = Last2(s \o <<x>>)
  PROVE  /\ t \in Seq(Ids) /\ Len(t) <= 2 /\ t # <<>> /\ t[Len(t)] = x
         /\ Len(t) = 2 => s # <<>> /\ t[1] = s[Len(s)]
<1> DEFINE a == s \o <<x>>
<1>1. Len(s) \in 0..2
  BY LenOfTwo
<1>2. /\ a \in Seq(Ids) /\ Len(a) = Len(s) + 1 /\ a[Len(s) + 1] = x
      /\ \A i \in 1..Len(s) : a[i] = s[i]
  OBVIOUS
<1>3. t = Last2(a)
  OBVIOUS
<1> HIDE DEF a
<1>4. CASE Len(s) = 2
  <2>1. Len(a) = 3
    BY <1>2, <1>4
  <2>2. t \in Seq(Ids) /\ Len(t) = 2 /\ t[1] = a[2] /\ t[2] = a[3]
    BY <1>2, <1>3, <2>1, LastTwoOfThree
  <2> QED
    BY <1>2, <1>4, <2>2
<1>5. CASE Len(s) < 2
  <2>1. t = a
    BY <1>1, <1>2, <1>3, <1>5 DEF Last2
  <2>2. Len(a) = 2 => s # <<>> /\ a[1] = s[Len(s)]
    BY <1>1, <1>2
  <2>3. a # <<>> /\ a[Len(a)] = x /\ Len(a) <= 2
    BY <1>1, <1>2, <1>5
  <2> QED
    BY <1>2, <2>1, <2>2, <2>3
<1> QED
  BY <1>1, <1>4, <1>5

-----------------------------------------------------------------------------
(* Every step keeps the invariant. *)

\* A client whose variables a step leaves alone.
LEMMA ClientKept ==
  ASSUME NEW c, mSocket'[c] = mSocket[c], mErrorTimer'[c] = mErrorTimer[c],
         timeouts'[c] = timeouts[c], frames'[c] = frames[c], mLastIds'[c] = mLastIds[c]
  PROVE  /\ Reopened(c) => Reopened(c)'
         /\ Pushed(c) => Pushed(c)'
  BY DEF Reopened, Pushed

LEMMA PushBackKeeps ==
  ASSUME UdpInv, NEW camera \in Cameras, PushBack(camera)
  PROVE  UdpInv'
<1>1. /\ UNCHANGED <<mQueue, serverRestarts, requests, answers, duplicates, mSocket, mLastIds>>
      /\ UNCHANGED <<frames, mTimer, mRequestTimer, mErrorTimer, mConnectTimer, mErrorNumber>>
      /\ UNCHANGED <<timeouts, faults>>
  BY DEF PushBack, network, images, timers, history
<1>2. newest' \in [Cameras -> Ids \cup {Null}]
  <2>0. newest[camera] \in Ids \cup {Null} /\ newest[camera] < MaxId
    BY DEF UdpInv, UdpTypeOK, PushBack
  <2>1. newest[camera] + 1 \in Ids
    BY <2>0, UdpAssumption DEF Ids, Null
  <2> QED
    BY <2>1 DEF UdpInv, UdpTypeOK, PushBack
<1>3. UdpTypeOK'
  BY <1>1, <1>2 DEF UdpInv, UdpTypeOK, Ids
<1>4. \A d : Answered(d) => Answered(d)'
  BY DEF Answered, Ids
<1> QED
  BY <1>1, <1>3, <1>4, ClientKept DEF UdpInv

LEMMA RestartServerKeeps ==
  ASSUME UdpInv, RestartServer
  PROVE  UdpInv'
<1>1. /\ UNCHANGED <<requests, answers, duplicates, mSocket, mLastIds, frames>>
      /\ UNCHANGED <<mTimer, mRequestTimer, mErrorTimer, mConnectTimer, mErrorNumber, timeouts>>
      /\ mQueue' = <<>> /\ serverRestarts' = serverRestarts + 1 /\ faults' = faults + 1
      /\ faults < MaxFaults /\ newest' \in [Cameras -> Ids \cup {Null}]
  BY DEF RestartServer, network, images, timers, Fault
<1>2. UdpTypeOK'
  <2>1. /\ faults' \in 0..MaxFaults /\ serverRestarts' \in 0..faults' /\ duplicates' \in 0..faults'
        /\ 0..faults \subseteq 0..faults'
    BY <1>1, UdpAssumption DEF UdpInv, UdpTypeOK
  <2>2. timeouts' \in [Clients -> 0..faults']
    BY <1>1, <2>1 DEF UdpInv, UdpTypeOK
  <2> QED
    BY <1>1, <2>1, <2>2 DEF UdpInv, UdpTypeOK, Ids
<1>3. \A d : Answered(d) => Answered(d)'
  BY DEF Answered, Ids
<1> QED
  BY <1>1, <1>2, <1>3, ClientKept DEF UdpInv

\* Only the client that asked gets the answer.
LEMMA ServerReadsFacts ==
  ASSUME UdpTypeOK, NEW request \in BagToSet(requests), ServerReads(request)
  PROVE  LET datagram == [to |-> request.from, answer |-> AnswerTo(Wants[request.from])]
         IN  /\ request.from \in Clients
             /\ requests' = requests (-) SetToBag({request}) /\ mQueue' = <<>>
             /\ \/ answers' = answers
                \/ /\ request.socket = mSocket[request.from]
                   /\ answers' = answers (+) SetToBag({datagram})
<1>1. mQueue = <<>> /\ request.from \in Clients
  BY DEF UdpTypeOK
<1> QED
  BY <1>1, TakenFacts DEF ServerReads

LEMMA ServerReadsKeeps ==
  ASSUME UdpInv, NEW request \in BagToSet(requests), ServerReads(request)
  PROVE  UdpInv'
<1> DEFINE datagram == [to |-> request.from, answer |-> AnswerTo(Wants[request.from])]
<1>1. /\ UNCHANGED <<newest, serverRestarts, duplicates, mSocket, mLastIds, frames>>
      /\ UNCHANGED <<mTimer, mRequestTimer, mErrorTimer, mConnectTimer, mErrorNumber>>
      /\ UNCHANGED <<timeouts, faults>>
  BY DEF ServerReads, images, timers, history
<1>2. /\ request.from \in Clients /\ mQueue' = <<>>
      /\ requests' = requests (-) SetToBag({request})
      /\ answers' = answers \/ answers' = answers (+) SetToBag({datagram})
  BY ServerReadsFacts DEF UdpInv
<1>3. /\ IsABag(requests') /\ BagToSet(requests') \subseteq BagToSet(requests)
      /\ IsABag(answers') /\ BagToSet(answers') \subseteq BagToSet(answers) \cup {datagram}
  <2>1. IsABag(requests) /\ request \in DOMAIN requests /\ IsABag(answers)
    BY DEF UdpInv, UdpTypeOK, BagToSet
  <2>2. IsABag(requests') /\ BagToSet(requests') \subseteq BagToSet(requests)
    BY <1>2, <2>1, BagRemove DEF BagToSet
  <2>3. CASE answers' = answers
    BY <2>1, <2>2, <2>3
  <2>4. CASE answers' = answers (+) SetToBag({datagram})
    <3> HIDE DEF datagram
    <3>1. IsABag(answers') /\ DOMAIN answers' = DOMAIN answers \cup {datagram}
      BY <2>1, <2>4, BagAddOne
    <3> QED
      BY <2>2, <3>1 DEF BagToSet
  <2> QED
    BY <1>2, <2>3, <2>4
<1>4. Answered(datagram)
  BY <1>2, AnswerFacts DEF UdpInv, Answered
<1>5. \A d \in BagToSet(answers') : Answered(d)
  BY <1>3, <1>4 DEF UdpInv
<1>6. UdpTypeOK'
  <2>1. \A d \in BagToSet(answers') : d.to \in Clients
    BY <1>5 DEF Answered
  <2> QED
    BY <1>1, <1>2, <1>3, <2>1 DEF UdpInv, UdpTypeOK, Ids
<1>7. \A d : Answered(d) => Answered(d)'
  BY DEF Answered, Ids
<1> QED
  BY <1>1, <1>5, <1>6, <1>7, ClientKept DEF UdpInv

LEMMA LoseKeeps ==
  ASSUME UdpInv, Lose
  PROVE  UdpInv'
<1>1. /\ UNCHANGED <<newest, mQueue, serverRestarts, duplicates, mSocket, mLastIds, frames>>
      /\ UNCHANGED <<mTimer, mRequestTimer, mErrorTimer, mConnectTimer, mErrorNumber>>
      /\ UNCHANGED <<timeouts, faults>>
  BY DEF Lose, server, images, timers, history
<1>2. /\ IsABag(requests') /\ BagToSet(requests') \subseteq BagToSet(requests)
      /\ IsABag(answers') /\ BagToSet(answers') \subseteq BagToSet(answers)
  <2>1. IsABag(requests) /\ IsABag(answers)
    BY DEF UdpInv, UdpTypeOK
  <2>2. CASE \E r \in BagToSet(requests) :
               requests' = requests (-) SetToBag({r}) /\ UNCHANGED answers
    BY <2>1, <2>2, BagRemove DEF BagToSet
  <2>3. CASE \E d \in BagToSet(answers) :
               answers' = answers (-) SetToBag({d}) /\ UNCHANGED requests
    BY <2>1, <2>3, BagRemove DEF BagToSet
  <2> QED
    BY <2>2, <2>3 DEF Lose
<1>3. UdpTypeOK'
  BY <1>1, <1>2 DEF UdpInv, UdpTypeOK, Ids
<1>4. \A d : Answered(d) => Answered(d)'
  BY DEF Answered, Ids
<1> QED
  BY <1>1, <1>2, <1>3, <1>4, ClientKept DEF UdpInv

LEMMA DuplicateKeeps ==
  ASSUME UdpInv, Duplicate
  PROVE  UdpInv'
<1>1. /\ UNCHANGED <<newest, mQueue, serverRestarts, mSocket, mLastIds, frames>>
      /\ UNCHANGED <<mTimer, mRequestTimer, mErrorTimer, mConnectTimer, mErrorNumber, timeouts>>
      /\ duplicates' = duplicates + 1 /\ faults' = faults + 1 /\ faults < MaxFaults
  BY DEF Duplicate, Fault, server, images, timers
<1>2. /\ IsABag(requests') /\ BagToSet(requests') = BagToSet(requests)
      /\ IsABag(answers') /\ BagToSet(answers') = BagToSet(answers)
  <2>1. IsABag(requests) /\ IsABag(answers)
    BY DEF UdpInv, UdpTypeOK
  <2>2. CASE \E r \in BagToSet(requests) :
               requests' = requests (+) SetToBag({r}) /\ UNCHANGED answers
    <3>1. PICK r \in DOMAIN requests : requests' = requests (+) SetToBag({r}) /\ answers' = answers
      BY <2>2 DEF BagToSet
    <3>2. IsABag(requests') /\ DOMAIN requests' = DOMAIN requests \cup {r}
      BY <2>1, <3>1, BagAddOne
    <3> QED
      BY <2>1, <3>1, <3>2 DEF BagToSet
  <2>3. CASE \E d \in BagToSet(answers) :
               answers' = answers (+) SetToBag({d}) /\ UNCHANGED requests
    <3>1. PICK d \in DOMAIN answers : answers' = answers (+) SetToBag({d}) /\ requests' = requests
      BY <2>3 DEF BagToSet
    <3>2. IsABag(answers') /\ DOMAIN answers' = DOMAIN answers \cup {d}
      BY <2>1, <3>1, BagAddOne
    <3> QED
      BY <2>1, <3>1, <3>2 DEF BagToSet
  <2> QED
    BY <2>2, <2>3 DEF Duplicate
<1>3. UdpTypeOK'
  <2>1. /\ faults' \in 0..MaxFaults /\ duplicates' \in 0..faults' /\ serverRestarts' \in 0..faults'
        /\ 0..faults \subseteq 0..faults'
    BY <1>1, UdpAssumption DEF UdpInv, UdpTypeOK
  <2>2. timeouts' \in [Clients -> 0..faults']
    BY <1>1, <2>1 DEF UdpInv, UdpTypeOK
  <2> QED
    BY <1>1, <1>2, <2>1, <2>2 DEF UdpInv, UdpTypeOK, Ids
<1>4. \A d : Answered(d) => Answered(d)'
  BY DEF Answered, Ids
<1> QED
  BY <1>1, <1>2, <1>3, <1>4, ClientKept DEF UdpInv

\* The datagrams a client sends.
LEMMA SentFacts ==
  ASSUME UdpTypeOK, NEW c \in Clients, NEW n \in Nat \ {0}, SendRequest(c, n)
  PROVE  /\ IsABag(requests')
         /\ BagToSet(requests') \subseteq [from : Clients, socket : 0..MaxFaults]
         /\ BagToSet(requests') = BagToSet(requests) \cup {[from |-> c, socket |-> mSocket[c]]}
         /\ \A r \in BagToSet(requests) : r.from # c => requests'[r] = requests[r]
         /\ \A r \in BagToSet(requests') : r.from = c /\ r \notin BagToSet(requests)
              => requests'[r] = n
         /\ mTimer' \in [Clients -> BOOLEAN]
<1> DEFINE asked == [from |-> c, socket |-> mSocket[c]]
<1>1. asked \in [from : Clients, socket : 0..MaxFaults] /\ IsABag(requests)
      /\ BagToSet(requests) \subseteq [from : Clients, socket : 0..MaxFaults]
  BY DEF UdpTypeOK
<1>2. asked.from = c
  OBVIOUS
<1>3. requests' = requests (+) [r \in {asked} |-> n]
  BY DEF SendRequest
<1>4. mTimer' \in [Clients -> BOOLEAN]
  BY DEF SendRequest, UdpTypeOK
<1> DEFINE A == [r \in {asked} |-> n]
<1>6. DOMAIN A = {asked} /\ A[asked] = n /\ requests' = requests (+) A
  BY <1>3
<1> HIDE DEF asked, A
<1>5. /\ IsABag(requests') /\ DOMAIN requests' = DOMAIN requests \cup {asked}
      /\ \A r \in DOMAIN requests : r # asked => requests'[r] = requests[r]
      /\ asked \notin DOMAIN requests => requests'[asked] = n
  <2>1. IsABag(requests') /\ DOMAIN requests' = DOMAIN requests \cup {asked}
    BY <1>1, <1>6, BagAdd
  <2>2. \A r \in DOMAIN requests : r # asked => requests'[r] = requests[r]
    BY <1>1, <1>6 DEF IsABag, (+)
  <2>3. asked \notin DOMAIN requests => requests'[asked] = n
    BY <1>1, <1>6, n \in Nat DEF IsABag, (+)
  <2> QED
    BY <2>1, <2>2, <2>3
<1> QED
  BY <1>1, <1>2, <1>4, <1>5 DEF BagToSet, asked

\* What an answer does to the client that reads it: a new image is pushed behind the last.
LEMMA ClientReadsFacts ==
  ASSUME UdpInv, NEW c \in Clients, NEW answer, ClientReads(c, answer),
         answer.code = "image" => answer.id \in Ids
  PROVE  /\ answer.code # "image" => frames'[c] = frames[c] /\ mLastIds'[c] = mLastIds[c]
         /\ answer.code = "image" =>
              /\ mLastIds'[c] = answer.id
              /\ answer.id = mLastIds[c] => frames'[c] = frames[c]
              /\ answer.id # mLastIds[c] =>
                   /\ frames'[c] # <<>> /\ frames'[c][Len(frames'[c])] = answer.id
                   /\ Len(frames'[c]) = 2 =>
                        frames[c] # <<>> /\ frames'[c][1] = frames[c][Len(frames[c])]
         /\ frames'[c] \in Seq(Ids) /\ Len(frames'[c]) <= 2
         /\ \A e \in Clients \ {c} : frames'[e] = frames[e] /\ mLastIds'[e] = mLastIds[e]
<1>1. /\ frames' = [frames EXCEPT ![c] = Last2(@ \o [k \in 1..Copies(c, answer) |-> answer.id])]
      /\ mLastIds' = [mLastIds EXCEPT ![c] = IF answer.code = "image" THEN answer.id ELSE @]
  BY DEF ClientReads
<1>2. answer.code = "image" => answer.id \in Ids
  OBVIOUS
<1>3. Copies(c, answer) = IF answer.code = "image" /\ answer.id # mLastIds[c] THEN 1 ELSE 0
  BY CopiesFacts DEF UdpInv, UdpTypeOK
<1>4. frames[c] \in Seq(Ids) /\ Len(frames[c]) <= 2 /\ mLastIds[c] \in Ids \cup {Null}
  BY DEF UdpInv, UdpTypeOK
<1> DEFINE t == Last2(frames[c] \o [k \in 1..Copies(c, answer) |-> answer.id])
<1>5. /\ frames'[c] = t
      /\ mLastIds'[c] = IF answer.code = "image" THEN answer.id ELSE mLastIds[c]
      /\ \A e \in Clients \ {c} : frames'[e] = frames[e] /\ mLastIds'[e] = mLastIds[e]
  BY <1>1 DEF UdpInv, UdpTypeOK
<1>6. CASE answer.code = "image" /\ answer.id # mLastIds[c]
  <2>1. [k \in 1..Copies(c, answer) |-> answer.id] = <<answer.id>>
    BY <1>3, <1>6
  <2>2. t = Last2(frames[c] \o <<answer.id>>)
    BY <2>1
  <2> HIDE DEF t
  <2>3. /\ t \in Seq(Ids) /\ Len(t) <= 2 /\ t # <<>> /\ t[Len(t)] = answer.id
        /\ Len(t) = 2 => frames[c] # <<>> /\ t[1] = frames[c][Len(frames[c])]
    BY <1>2, <1>4, <1>6, <2>2, BufferPushed
  <2> QED
    BY <1>5, <1>6, <2>3
<1>7. CASE ~(answer.code = "image" /\ answer.id # mLastIds[c])
  <2>1. [k \in 1..Copies(c, answer) |-> answer.id] = <<>>
    BY <1>3, <1>7
  <2>2. t = frames[c]
    BY <1>4, <2>1, BufferSame
  <2> HIDE DEF t
  <2> QED
    BY <1>4, <1>5, <1>7, <2>2
<1> QED
  BY <1>6, <1>7

LEMMA ClientReadsKeeps ==
  ASSUME UdpInv, NEW d \in BagToSet(answers), ClientReads(d.to, d.answer)
  PROVE  UdpInv'
<1> DEFINE c == d.to
           answer == d.answer
<1>1. c \in Clients /\ Answered(d)
  BY DEF UdpInv, UdpTypeOK
<1>2. /\ UNCHANGED <<newest, mQueue, serverRestarts, requests, duplicates, mSocket>>
      /\ UNCHANGED <<mErrorTimer, mConnectTimer, timeouts, faults>>
      /\ frames' = [frames EXCEPT ![c] = Last2(@ \o [k \in 1..Copies(c, answer) |-> answer.id])]
      /\ mLastIds' = [mLastIds EXCEPT ![c] = IF answer.code = "image" THEN answer.id ELSE @]
      /\ mErrorNumber' = [mErrorNumber EXCEPT ![c] = 0]
      /\ mTimer' = [mTimer EXCEPT ![c] = TRUE]
      /\ mRequestTimer' = [mRequestTimer EXCEPT ![c] = TRUE]
  BY DEF ClientReads, server, history
<1>3. IsABag(answers') /\ BagToSet(answers') \subseteq BagToSet(answers)
  <2> DEFINE read == [to |-> c, answer |-> answer]
  <2>1. IsABag(answers) /\ read \in DOMAIN answers /\ answers' = answers (-) SetToBag({read})
    BY DEF UdpInv, UdpTypeOK, ClientReads, BagIn, BagToSet
  <2> HIDE DEF read
  <2> QED
    BY <2>1, BagRemove DEF BagToSet
<1>4. answer.code = "image" => answer.id \in Ids
  BY <1>1 DEF Answered
<1>7. /\ answer.code # "image" => frames'[c] = frames[c] /\ mLastIds'[c] = mLastIds[c]
      /\ answer.code = "image" =>
           /\ mLastIds'[c] = answer.id
           /\ answer.id = mLastIds[c] => frames'[c] = frames[c]
           /\ answer.id # mLastIds[c] =>
                /\ frames'[c] # <<>> /\ frames'[c][Len(frames'[c])] = answer.id
                /\ Len(frames'[c]) = 2 =>
                     frames[c] # <<>> /\ frames'[c][1] = frames[c][Len(frames[c])]
      /\ frames'[c] \in Seq(Ids) /\ Len(frames'[c]) <= 2
      /\ \A e \in Clients \ {c} : frames'[e] = frames[e] /\ mLastIds'[e] = mLastIds[e]
  BY <1>1, <1>4, ClientReadsFacts
<1> HIDE DEF c, answer
<1>8. UdpTypeOK'
  <2>1. frames' \in [Clients -> Seq(Ids)] /\ \A e \in Clients : Len(frames'[e]) <= 2
    <3>1. \A e \in Clients : frames'[e] \in Seq(Ids) /\ Len(frames'[e]) <= 2
      BY <1>7 DEF UdpInv, UdpTypeOK
    <3>2. frames' = [e \in Clients |-> frames'[e]]
      BY <1>2 DEF UdpInv, UdpTypeOK
    <3> QED
      BY <3>1, <3>2
  <2>2. mLastIds' \in [Clients -> Ids \cup {Null}]
    BY <1>2, <1>4 DEF UdpInv, UdpTypeOK
  <2>3. mTimer' \in [Clients -> BOOLEAN] /\ mRequestTimer' \in [Clients -> BOOLEAN]
    BY <1>2 DEF UdpInv, UdpTypeOK
  <2>4. mErrorNumber' \in [Clients -> 0..(MaxNetworkErrorNumber - 1)]
    <3>1. 0 \in 0..(MaxNetworkErrorNumber - 1)
      BY UdpAssumption
    <3> QED
      BY <1>2, <3>1 DEF UdpInv, UdpTypeOK
  <2>5. {mTimer, mRequestTimer, mErrorTimer, mConnectTimer}' \subseteq [Clients -> BOOLEAN]
    BY <1>2, <2>3 DEF UdpInv, UdpTypeOK
  <2>6. \A e \in BagToSet(answers)' : e.to \in Clients
    BY <1>3 DEF UdpInv, UdpTypeOK
  <2> QED
    BY <1>2, <1>3, <2>1, <2>2, <2>4, <2>5, <2>6 DEF UdpInv, UdpTypeOK, Ids
<1>9. \A e \in Clients : Reopened(e)' /\ Pushed(e)'
  <2>1. \A e \in Clients : Reopened(e)'
    BY <1>2 DEF UdpInv, Reopened
  <2>2. \A e \in Clients \ {c} : Pushed(e)'
    BY <1>7 DEF UdpInv, Pushed
  <2>3. Pushed(c)'
    <3>1. Pushed(c)
      BY <1>1 DEF UdpInv
    <3>2. answer.code = "image" => answer.id # Null
      BY <1>4, UdpAssumption DEF Ids, Null
    <3>3. CASE answer.code = "image" /\ answer.id # mLastIds[c]
      <4>1. /\ mLastIds'[c] = answer.id /\ frames'[c] # <<>>
            /\ frames'[c][Len(frames'[c])] = answer.id
            /\ Len(frames'[c]) = 2 =>
                 frames[c] # <<>> /\ frames'[c][1] = frames[c][Len(frames[c])]
        BY <1>7, <3>3
      <4>2. frames[c] # <<>> => frames[c][Len(frames[c])] # answer.id
        BY <3>1, <3>3 DEF Pushed
      <4>3. Len(frames'[c]) = 2 => frames'[c][1] # frames'[c][2]
        BY <4>1, <4>2
      <4> QED
        BY <3>2, <3>3, <4>1, <4>3 DEF Pushed
    <3>4. CASE ~(answer.code = "image" /\ answer.id # mLastIds[c])
      <4>1. mLastIds'[c] = mLastIds[c] /\ frames'[c] = frames[c]
        BY <1>7, <3>4
      <4> QED
        BY <3>1, <4>1 DEF Pushed
    <3> QED
      BY <3>3, <3>4
  <2> QED
    BY <1>1, <2>1, <2>2, <2>3
<1>10. \A e : Answered(e) => Answered(e)'
  BY DEF Answered, Ids
<1> QED
  BY <1>3, <1>8, <1>9, <1>10 DEF UdpInv

LEMMA TimerRequestTimeoutKeeps ==
  ASSUME UdpInv, NEW c \in Clients, TimerRequestTimeout(c)
  PROVE  UdpInv'
<1>1. /\ UNCHANGED <<newest, mQueue, serverRestarts, duplicates, answers, mSocket, mLastIds>>
      /\ UNCHANGED <<frames, mErrorTimer, mConnectTimer, mErrorNumber, timeouts, faults>>
      /\ mRequestTimer' = [mRequestTimer EXCEPT ![c] = FALSE] /\ SendRequest(c, 1)
  BY DEF TimerRequestTimeout, server, images, history
<1>2. /\ IsABag(requests') /\ BagToSet(requests') \subseteq [from : Clients, socket : 0..MaxFaults]
      /\ mTimer' \in [Clients -> BOOLEAN]
  BY <1>1, SentFacts DEF UdpInv
<1>3. UdpTypeOK'
  <2>1. mRequestTimer' \in [Clients -> BOOLEAN]
    BY <1>1 DEF UdpInv, UdpTypeOK
  <2>2. {mTimer, mRequestTimer, mErrorTimer, mConnectTimer}' \subseteq [Clients -> BOOLEAN]
    BY <1>1, <1>2, <2>1 DEF UdpInv, UdpTypeOK
  <2> QED
    BY <1>1, <1>2, <2>2 DEF UdpInv, UdpTypeOK, Ids
<1>4. \A d : Answered(d) => Answered(d)'
  BY DEF Answered, Ids
<1> QED
  BY <1>1, <1>3, <1>4, ClientKept DEF UdpInv

LEMMA TimerTimeoutKeeps ==
  ASSUME UdpInv, NEW c \in Clients, TimerTimeout(c)
  PROVE  UdpInv'
<1>1. /\ UNCHANGED <<newest, mQueue, serverRestarts, duplicates, answers, mSocket, mLastIds>>
      /\ UNCHANGED <<frames, mRequestTimer, mConnectTimer>>
      /\ timeouts' = [timeouts EXCEPT ![c] = @ + 1] /\ faults' = faults + 1 /\ faults < MaxFaults
      /\ mErrorNumber[c] \in 0..(MaxNetworkErrorNumber - 1)
  BY DEF TimerTimeout, Fault, server, images, UdpInv, UdpTypeOK
<1>2. /\ IsABag(requests') /\ BagToSet(requests') \subseteq [from : Clients, socket : 0..MaxFaults]
      /\ mTimer' \in [Clients -> BOOLEAN] /\ mErrorTimer' \in [Clients -> BOOLEAN]
      /\ mErrorNumber' \in [Clients -> 0..(MaxNetworkErrorNumber - 1)]
      /\ \A e \in Clients \ {c} : mErrorTimer'[e] = mErrorTimer[e]
  <2>0. mTimer \in [Clients -> BOOLEAN] /\ mErrorTimer \in [Clients -> BOOLEAN]
        /\ mErrorNumber \in [Clients -> 0..(MaxNetworkErrorNumber - 1)]
    BY DEF UdpInv, UdpTypeOK
  <2>1. CASE /\ mErrorNumber[c] + 1 < MaxNetworkErrorNumber
             /\ mErrorNumber' = [mErrorNumber EXCEPT ![c] = @ + 1]
             /\ SendRequest(c, 1) /\ UNCHANGED mErrorTimer
    <3>1. mErrorNumber[c] + 1 \in 0..(MaxNetworkErrorNumber - 1)
      BY <1>1, <2>1, UdpAssumption
    <3>2. mErrorNumber' \in [Clients -> 0..(MaxNetworkErrorNumber - 1)]
      BY <2>0, <2>1, <3>1
    <3> QED
      BY <2>0, <2>1, <3>2, SentFacts DEF UdpInv
  <2>2. CASE /\ mErrorNumber' = [mErrorNumber EXCEPT ![c] = 0]
             /\ mErrorTimer' = [mErrorTimer EXCEPT ![c] = TRUE]
             /\ UNCHANGED <<requests, mTimer>>
    <3>1. 0 \in 0..(MaxNetworkErrorNumber - 1)
      BY UdpAssumption
    <3>2. mErrorNumber' \in [Clients -> 0..(MaxNetworkErrorNumber - 1)]
      BY <2>0, <2>2, <3>1
    <3>3. IsABag(requests) /\ BagToSet(requests) \subseteq [from : Clients, socket : 0..MaxFaults]
      BY DEF UdpInv, UdpTypeOK
    <3> QED
      BY <2>0, <2>2, <3>2, <3>3
  <2> QED
    BY <2>1, <2>2 DEF TimerTimeout
<1>3. UdpTypeOK'
  <2>1. /\ faults' \in 0..MaxFaults /\ duplicates' \in 0..faults' /\ serverRestarts' \in 0..faults'
        /\ 0..faults \subseteq 0..faults' /\ \A k \in 0..faults : k + 1 \in 0..faults'
    BY <1>1, UdpAssumption DEF UdpInv, UdpTypeOK
  <2>2. timeouts' \in [Clients -> 0..faults']
    BY <1>1, <2>1 DEF UdpInv, UdpTypeOK
  <2>3. {mTimer, mRequestTimer, mErrorTimer, mConnectTimer}' \subseteq [Clients -> BOOLEAN]
    BY <1>1, <1>2 DEF UdpInv, UdpTypeOK
  <2> QED
    BY <1>1, <1>2, <2>1, <2>2, <2>3 DEF UdpInv, UdpTypeOK, Ids
<1>4. \A d : Answered(d) => Answered(d)'
  BY DEF Answered, Ids
<1>5. \A e \in Clients : Reopened(e)' /\ Pushed(e)'
  <2>1. \A e \in Clients \ {c} : Reopened(e)'
    BY <1>1, <1>2 DEF UdpInv, UdpTypeOK, Reopened
  <2>2. Reopened(c)'
    <3>1. timeouts'[c] = timeouts[c] + 1 /\ timeouts[c] \in Nat /\ mSocket[c] \in Nat
      BY <1>1, UdpAssumption DEF UdpInv, UdpTypeOK
    <3>2. mSocket[c] <= timeouts[c]
      BY <3>1 DEF UdpInv, Reopened
    <3> QED
      BY <1>1, <3>1, <3>2 DEF Reopened
  <2>3. \A e \in Clients : Pushed(e)'
    BY <1>1 DEF UdpInv, Pushed
  <2> QED
    BY <2>1, <2>2, <2>3
<1> QED
  BY <1>1, <1>3, <1>4, <1>5 DEF UdpInv

LEMMA TimerErrorTimeoutKeeps ==
  ASSUME UdpInv, NEW c \in Clients, TimerErrorTimeout(c)
  PROVE  UdpInv'
<1>1. /\ UNCHANGED <<newest, mQueue, serverRestarts, duplicates, requests, mLastIds, frames>>
      /\ UNCHANGED <<mTimer, mRequestTimer, mErrorNumber, timeouts, faults>>
      /\ mErrorTimer[c] /\ mErrorTimer' = [mErrorTimer EXCEPT ![c] = FALSE]
      /\ mConnectTimer' = [mConnectTimer EXCEPT ![c] = TRUE]
      /\ mSocket' = [mSocket EXCEPT ![c] = @ + 1]
  BY DEF TimerErrorTimeout, server, images, history
<1>2. IsABag(answers') /\ BagToSet(answers') = {a \in BagToSet(answers) : a.to # c}
  BY DEF TimerErrorTimeout, UdpInv, UdpTypeOK, IsABag, BagToSet
<1>3. /\ mSocket[c] + 1 <= timeouts[c] /\ timeouts[c] \in 0..MaxFaults /\ mSocket[c] \in Nat
      /\ mSocket'[c] = mSocket[c] + 1 /\ ~mErrorTimer'[c]
      /\ \A e \in Clients \ {c} : mSocket'[e] = mSocket[e] /\ mErrorTimer'[e] = mErrorTimer[e]
  <2>1. mSocket'[c] = mSocket[c] + 1 /\ ~mErrorTimer'[c]
        /\ \A e \in Clients \ {c} : mSocket'[e] = mSocket[e] /\ mErrorTimer'[e] = mErrorTimer[e]
    BY <1>1 DEF UdpInv, UdpTypeOK
  <2>2. timeouts[c] \in 0..MaxFaults /\ mSocket[c] \in Nat
    BY UdpAssumption DEF UdpInv, UdpTypeOK
  <2> QED
    BY <1>1, <2>1, <2>2 DEF UdpInv, Reopened
<1>4. UdpTypeOK'
  <2>1. mSocket[c] + 1 \in 0..MaxFaults
    BY <1>3, UdpAssumption
  <2>2. mSocket' \in [Clients -> 0..MaxFaults]
    BY <1>1, <2>1 DEF UdpInv, UdpTypeOK
  <2>3. mErrorTimer' \in [Clients -> BOOLEAN] /\ mConnectTimer' \in [Clients -> BOOLEAN]
    BY <1>1 DEF UdpInv, UdpTypeOK
  <2>4. {mTimer, mRequestTimer, mErrorTimer, mConnectTimer}' \subseteq [Clients -> BOOLEAN]
    BY <1>1, <2>3 DEF UdpInv, UdpTypeOK
  <2> QED
    BY <1>1, <1>2, <2>2, <2>4 DEF UdpInv, UdpTypeOK, Ids
<1>5. \A d : Answered(d) => Answered(d)'
  BY DEF Answered, Ids
<1>6. \A e \in Clients : Reopened(e)' /\ Pushed(e)'
  <2>1. \A e \in Clients \ {c} : Reopened(e)'
    BY <1>1, <1>3 DEF UdpInv, Reopened
  <2>2. Reopened(c)'
    BY <1>1, <1>3 DEF Reopened
  <2>3. \A e \in Clients : Pushed(e)'
    BY <1>1 DEF UdpInv, Pushed
  <2> QED
    BY <2>1, <2>2, <2>3
<1> QED
  BY <1>2, <1>4, <1>5, <1>6 DEF UdpInv

LEMMA TimerConnectTimeoutKeeps ==
  ASSUME UdpInv, NEW c \in Clients, TimerConnectTimeout(c)
  PROVE  UdpInv'
<1>1. /\ UNCHANGED <<newest, mQueue, serverRestarts, duplicates, answers, mSocket, mLastIds>>
      /\ UNCHANGED <<frames, mErrorTimer, mRequestTimer, mErrorNumber, timeouts, faults>>
      /\ mConnectTimer' = [mConnectTimer EXCEPT ![c] = FALSE] /\ SendRequest(c, mSocket[c] + 1)
  BY DEF TimerConnectTimeout, server, images, history
<1>2. /\ IsABag(requests') /\ BagToSet(requests') \subseteq [from : Clients, socket : 0..MaxFaults]
      /\ mTimer' \in [Clients -> BOOLEAN]
  <2>1. mSocket[c] + 1 \in Nat \ {0}
    BY DEF UdpInv, UdpTypeOK
  <2> QED
    BY <1>1, <2>1, SentFacts DEF UdpInv
<1>3. UdpTypeOK'
  <2>1. mConnectTimer' \in [Clients -> BOOLEAN]
    BY <1>1 DEF UdpInv, UdpTypeOK
  <2>2. {mTimer, mRequestTimer, mErrorTimer, mConnectTimer}' \subseteq [Clients -> BOOLEAN]
    BY <1>1, <1>2, <2>1 DEF UdpInv, UdpTypeOK
  <2> QED
    BY <1>1, <1>2, <2>2 DEF UdpInv, UdpTypeOK, Ids
<1>4. \A d : Answered(d) => Answered(d)'
  BY DEF Answered, Ids
<1> QED
  BY <1>1, <1>3, <1>4, ClientKept DEF UdpInv

LEMMA UdpStep ==
  ASSUME UdpInv, [UdpNext]_udpVars
  PROVE  UdpInv'
<1>1. CASE UdpNext
  BY <1>1, PushBackKeeps, RestartServerKeeps, ServerReadsKeeps, LoseKeeps, DuplicateKeeps,
     ClientReadsKeeps, TimerRequestTimeoutKeeps, TimerTimeoutKeeps, TimerErrorTimeoutKeeps,
     TimerConnectTimeoutKeeps DEF UdpNext
<1>2. CASE UNCHANGED udpVars
  <2>1. /\ UNCHANGED <<newest, mQueue, serverRestarts, requests, answers, duplicates, mSocket>>
        /\ UNCHANGED <<mLastIds, frames, mTimer, mRequestTimer, mErrorTimer, mConnectTimer>>
        /\ UNCHANGED <<mErrorNumber, timeouts, faults>>
    BY <1>2 DEF udpVars, server, network, images, timers, history
  <2>2. UdpTypeOK'
    BY <2>1 DEF UdpInv, UdpTypeOK, Ids
  <2>3. \A d : Answered(d) => Answered(d)'
    BY DEF Answered, Ids
  <2> QED
    BY <2>1, <2>2, <2>3, ClientKept DEF UdpInv
<1> QED
  BY <1>1, <1>2

LEMMA UdpStart ==
  ASSUME UdpInit
  PROVE  UdpInv
<1>1. IsABag(EmptyBag) /\ BagToSet(EmptyBag) = {}
  BY DEF EmptyBag, SetToBag, IsABag, BagToSet
<1>2. UdpTypeOK
  <2>1. /\ serverRestarts \in 0..faults /\ duplicates \in 0..faults /\ faults \in 0..MaxFaults
        /\ timeouts \in [Clients -> 0..faults] /\ mSocket \in [Clients -> 0..MaxFaults]
        /\ mErrorNumber \in [Clients -> 0..(MaxNetworkErrorNumber - 1)]
    BY UdpAssumption DEF UdpInit
  <2>2. frames \in [Clients -> Seq(Ids)] /\ \A c \in Clients : Len(frames[c]) <= 2
    BY DEF UdpInit
  <2> QED
    BY <1>1, <2>1, <2>2 DEF UdpInit, UdpTypeOK
<1>3. \A c \in Clients : Reopened(c) /\ Pushed(c)
  BY DEF UdpInit, Reopened, Pushed
<1> QED
  BY <1>1, <1>2, <1>3 DEF UdpInit, UdpInv

\* A client only gets what it asked for, whoever else is served by the one worker and its
\* queue, and whatever the network does with the datagrams.
THEOREM OnlyWhatWasAsked == UdpSpec => []AnswersMatch
<1>1. UdpInv => AnswersMatch
  BY DEF UdpInv, Answered, AnswersMatch
<1> QED
  BY <1>1, UdpStart, UdpStep, PTL DEF UdpSpec
-----------------------------------------------------------------------------
(* An untroubled client has one request or one answer on its way. *)

\* A step that at most takes datagrams of a client away, or gives a camera a newer image.
LEMMA ChainKept ==
  ASSUME NEW c, OneChain(c), Ordered(c),
         Asking(c)' \subseteq Asking(c), \A r \in Asking(c)' : requests'[r] = requests[r],
         Answering(c)' \subseteq Answering(c), \A d \in Answering(c)' : answers'[d] = answers[d],
         mConnectTimer'[c] = mConnectTimer[c], mRequestTimer'[c] = mRequestTimer[c],
         mLastIds'[c] = mLastIds[c], frames'[c] = frames[c],
         newest' = newest
  PROVE  OneChain(c)' /\ Ordered(c)'
<1>1. OneChain(c)'
  BY DEF OneChain
<1>2. Ordered(c)'
  BY DEF Ordered
<1> QED
  BY <1>1, <1>2

LEMMA PushBackChain ==
  ASSUME ChainInv, NEW camera \in Cameras, PushBack(camera), NEW c \in Clients, Untroubled(c)'
  PROVE  OneChain(c)' /\ Ordered(c)'
<1>1. /\ UNCHANGED <<serverRestarts, requests, answers, duplicates, mLastIds, frames>>
      /\ UNCHANGED <<mRequestTimer, mConnectTimer, timeouts>>
  BY DEF PushBack, network, images, timers, history
<1>2. OneChain(c) /\ Ordered(c)
  BY <1>1 DEF ChainInv, Untroubled
<1>3. \A k \in Cameras : newest[k] \in Int /\ newest'[k] \in Int /\ newest[k] <= newest'[k]
  <2>1. newest \in [Cameras -> Ids \cup {Null}] /\ Ids \cup {Null} \subseteq Int
    BY UdpAssumption DEF ChainInv, UdpInv, UdpTypeOK, Ids, Null
  <2>2. newest' = [newest EXCEPT ![camera] = @ + 1]
    BY DEF PushBack
  <2> QED
    BY <2>1, <2>2
<1>4. OneChain(c)'
  BY <1>1, <1>2 DEF OneChain, Asking, Answering
<1>5. mLastIds[c] \in Int
  BY UdpAssumption DEF ChainInv, UdpInv, UdpTypeOK, Ids, Null
<1>6. \A d \in Answering(c) : d.answer.code = "image" => Wants[c] \in Cameras /\ d.answer.id \in Int
  BY UdpAssumption DEF ChainInv, UdpInv, Answered, Answering, Ids
<1>7. Answering(c)' = Answering(c)
  BY <1>1 DEF Answering
<1>8. Ordered(c)'
  <2>1. mLastIds'[c] # Null => Wants[c] \in Cameras /\ mLastIds'[c] <= newest'[Wants[c]]
    BY <1>1, <1>2, <1>3, <1>5 DEF Ordered
  <2>2. \A d \in Answering(c)' : d.answer.code = "image" =>
          mLastIds'[c] <= d.answer.id /\ d.answer.id <= newest'[Wants[c]]
    BY <1>1, <1>2, <1>3, <1>6, <1>7 DEF Ordered
  <2>3. Len(frames'[c]) = 2 => frames'[c][1] < frames'[c][2]
    BY <1>1, <1>2 DEF Ordered
  <2> QED
    BY <2>1, <2>2, <2>3 DEF Ordered
<1> QED
  BY <1>4, <1>8

LEMMA ServerReadsChain ==
  ASSUME ChainInv, NEW request \in BagToSet(requests), ServerReads(request),
         NEW c \in Clients, Untroubled(c)'
  PROVE  OneChain(c)' /\ Ordered(c)'
<1> DEFINE datagram == [to |-> request.from, answer |-> AnswerTo(Wants[request.from])]
<1>1. /\ UNCHANGED <<newest, serverRestarts, duplicates, mSocket, mLastIds, frames>>
      /\ UNCHANGED <<mRequestTimer, mConnectTimer, timeouts>>
  BY DEF ServerReads, images, timers, history
<1>2. OneChain(c) /\ Ordered(c)
  BY <1>1 DEF ChainInv, Untroubled
<1>3. /\ request.from \in Clients /\ requests' = requests (-) SetToBag({request})
      /\ answers' = answers \/ answers' = answers (+) SetToBag({datagram})
  BY ServerReadsFacts DEF ChainInv, UdpInv
<1>4. datagram.to = request.from /\ datagram.answer = AnswerTo(Wants[request.from])
  OBVIOUS
<1> HIDE DEF datagram
<1>5. /\ BagToSet(requests') \subseteq BagToSet(requests)
      /\ \A r \in BagToSet(requests') : r # request => requests'[r] = requests[r]
      /\ requests[request] = 1 => request \notin BagToSet(requests')
  <2>1. IsABag(requests) /\ request \in DOMAIN requests
    BY DEF ChainInv, UdpInv, UdpTypeOK, BagToSet
  <2>2. /\ DOMAIN requests' \subseteq DOMAIN requests
        /\ \A r \in DOMAIN requests' : r # request => requests'[r] = requests[r]
        /\ requests[request] = 1 => request \notin DOMAIN requests'
    BY <1>3, <2>1, BagRemove
  <2> QED
    BY <2>2 DEF BagToSet
<1>6. /\ BagToSet(answers') \subseteq BagToSet(answers) \cup {datagram}
      /\ \A d \in BagToSet(answers) : d # datagram => answers'[d] = answers[d]
      /\ datagram \notin BagToSet(answers) /\ datagram \in BagToSet(answers')
           => answers'[datagram] = 1
  <2>1. CASE answers' = answers
    BY <2>1
  <2>2. CASE answers' = answers (+) SetToBag({datagram})
    <3>1. IsABag(answers)
      BY DEF ChainInv, UdpInv, UdpTypeOK
    <3>2. /\ DOMAIN answers' = DOMAIN answers \cup {datagram}
          /\ \A d \in DOMAIN answers : d # datagram => answers'[d] = answers[d]
          /\ datagram \notin DOMAIN answers => answers'[datagram] = 1
      <4>1. DOMAIN answers' = DOMAIN answers \cup {datagram}
        BY <2>2, <3>1, BagAddOne
      <4>2. \A d \in DOMAIN answers : d # datagram => answers'[d] = answers[d]
        BY <2>2, <3>1 DEF IsABag, (+), SetToBag
      <4>3. datagram \notin DOMAIN answers => answers'[datagram] = 1
        BY <2>2, <3>1, BagAddOne
      <4> QED
        BY <4>1, <4>2, <4>3
    <3> QED
      BY <3>2 DEF BagToSet
  <2> QED
    BY <1>3, <2>1, <2>2
<1>7. CASE request.from # c
  <2>1. /\ Asking(c)' \subseteq Asking(c) /\ \A r \in Asking(c)' : requests'[r] = requests[r]
        /\ Answering(c)' \subseteq Answering(c) /\ \A d \in Answering(c)' : answers'[d] = answers[d]
    BY <1>4, <1>5, <1>6, <1>7 DEF Asking, Answering
  <2> QED
    BY <1>1, <1>2, <2>1, ChainKept
<1>8. CASE request.from = c
  <2>1. request \in Asking(c)
    BY <1>8 DEF Asking
  <2>2. Answering(c) = {} /\ ~mConnectTimer[c] /\ ~mRequestTimer[c] /\ request.socket = 0
        /\ requests[request] = 1
    BY <1>2, <2>1 DEF OneChain
  <2>3. Asking(c)' = {}
    <3>1. \A r \in Asking(c) :
            r.socket = 0 /\ r.from = c /\ r \in [from : Clients, socket : 0..MaxFaults]
      BY <1>2 DEF OneChain, Asking, ChainInv, UdpInv, UdpTypeOK
    <3>2. \A r \in Asking(c) : r = request
      BY <2>1, <3>1
    <3> QED
      BY <1>5, <2>2, <3>2 DEF Asking
  <2>4. Answering(c)' \subseteq {datagram} /\ \A d \in Answering(c)' : answers'[d] = 1
    BY <1>6, <2>2 DEF Answering
  <2>5. OneChain(c)'
    BY <1>1, <2>2, <2>3, <2>4 DEF OneChain
  <2>6. datagram.answer.code = "image" =>
          /\ Wants[c] \in Cameras /\ datagram.answer.id \in Ids
          /\ datagram.answer.id = newest[Wants[c]]
    BY <1>4, <1>8, AnswerFacts DEF ChainInv, UdpInv
  <2>7. datagram.answer.code = "image" =>
          mLastIds[c] <= datagram.answer.id /\ datagram.answer.id <= newest[Wants[c]]
    <3>1. \A k \in Ids : k \in Int /\ Null <= k /\ k <= k
      BY UdpAssumption DEF Ids, Null
    <3>2. mLastIds[c] # Null => mLastIds[c] <= newest[Wants[c]]
      BY <1>2 DEF Ordered
    <3> QED
      BY <2>6, <3>1, <3>2
  <2>8. Ordered(c)'
    BY <1>1, <1>2, <2>4, <2>7 DEF Ordered
  <2> QED
    BY <2>5, <2>8
<1> QED
  BY <1>7, <1>8

LEMMA LoseChain ==
  ASSUME ChainInv, Lose, NEW c \in Clients, Untroubled(c)'
  PROVE  OneChain(c)' /\ Ordered(c)'
<1>1. /\ UNCHANGED <<newest, serverRestarts, duplicates, mLastIds, frames>>
      /\ UNCHANGED <<mRequestTimer, mConnectTimer, timeouts>>
  BY DEF Lose, server, images, timers, history
<1>2. OneChain(c) /\ Ordered(c)
  BY <1>1 DEF ChainInv, Untroubled
<1>3. IsABag(requests) /\ IsABag(answers)
  BY DEF ChainInv, UdpInv, UdpTypeOK
<1>4. CASE \E r \in BagToSet(requests) :
             requests' = requests (-) SetToBag({r}) /\ UNCHANGED answers
  <2>1. PICK r \in DOMAIN requests : requests' = requests (-) SetToBag({r}) /\ answers' = answers
    BY <1>4 DEF BagToSet
  <2>2. /\ DOMAIN requests' \subseteq DOMAIN requests
        /\ \A q \in DOMAIN requests' : q # r => requests'[q] = requests[q]
        /\ requests[r] = 1 => r \notin DOMAIN requests'
    BY <1>3, <2>1, BagRemove
  <2>3. Asking(c)' \subseteq Asking(c) /\ Answering(c)' = Answering(c)
    BY <2>1, <2>2 DEF Asking, Answering, BagToSet
  <2>4. \A q \in Asking(c)' : requests'[q] = requests[q]
    BY <1>2, <2>2, <2>3 DEF OneChain, Asking, BagToSet
  <2> QED
    BY <1>1, <1>2, <2>1, <2>3, <2>4, ChainKept
<1>5. CASE \E d \in BagToSet(answers) :
             answers' = answers (-) SetToBag({d}) /\ UNCHANGED requests
  <2>1. PICK d \in DOMAIN answers : answers' = answers (-) SetToBag({d}) /\ requests' = requests
    BY <1>5 DEF BagToSet
  <2>2. /\ DOMAIN answers' \subseteq DOMAIN answers
        /\ \A a \in DOMAIN answers' : a # d => answers'[a] = answers[a]
        /\ answers[d] = 1 => d \notin DOMAIN answers'
    BY <1>3, <2>1, BagRemove
  <2>3. Answering(c)' \subseteq Answering(c) /\ Asking(c)' = Asking(c)
    BY <2>1, <2>2 DEF Asking, Answering, BagToSet
  <2>4. \A a \in Answering(c)' : answers'[a] = answers[a]
    BY <1>2, <2>2, <2>3 DEF OneChain, Answering, BagToSet
  <2> QED
    BY <1>1, <1>2, <2>1, <2>3, <2>4, ChainKept
<1> QED
  BY <1>4, <1>5 DEF Lose

LEMMA ClientReadsChain ==
  ASSUME ChainInv, NEW d \in BagToSet(answers), ClientReads(d.to, d.answer),
         NEW c \in Clients, Untroubled(c)'
  PROVE  OneChain(c)' /\ Ordered(c)'
<1> DEFINE from == d.to
           answer == d.answer
           read == [to |-> from, answer |-> answer]
<1>1. /\ UNCHANGED <<newest, serverRestarts, requests, duplicates, mConnectTimer, timeouts>>
      /\ answers' = answers (-) SetToBag({read}) /\ read \in BagToSet(answers)
      /\ mRequestTimer' = [mRequestTimer EXCEPT ![from] = TRUE]
      /\ from \in Clients /\ (answer.code = "image" => answer.id \in Ids)
  BY DEF ClientReads, server, history, ChainInv, UdpInv, UdpTypeOK, Answered, BagIn, BagToSet
<1>2. OneChain(c) /\ Ordered(c) /\ Pushed(c)
  BY <1>1 DEF ChainInv, UdpInv, Untroubled
<1>3. read.to = from /\ read.answer = answer
  OBVIOUS
<1>4. /\ answer.code # "image" => frames'[from] = frames[from] /\ mLastIds'[from] = mLastIds[from]
      /\ answer.code = "image" =>
           /\ mLastIds'[from] = answer.id
           /\ answer.id = mLastIds[from] => frames'[from] = frames[from]
           /\ answer.id # mLastIds[from] =>
                /\ frames'[from] # <<>> /\ frames'[from][Len(frames'[from])] = answer.id
                /\ Len(frames'[from]) = 2 =>
                     frames[from] # <<>> /\ frames'[from][1] = frames[from][Len(frames[from])]
      /\ \A e \in Clients \ {from} : frames'[e] = frames[e] /\ mLastIds'[e] = mLastIds[e]
  <2>1. UdpInv /\ ClientReads(from, answer)
    BY DEF ChainInv
  <2> QED
    BY <1>1, <2>1, ClientReadsFacts
<1> HIDE DEF from, answer, read
<1>5. /\ BagToSet(answers') \subseteq BagToSet(answers)
      /\ \A a \in BagToSet(answers') : a # read => answers'[a] = answers[a]
      /\ answers[read] = 1 => read \notin BagToSet(answers')
  <2>1. IsABag(answers) /\ read \in DOMAIN answers
    BY <1>1 DEF ChainInv, UdpInv, UdpTypeOK, BagToSet
  <2>2. /\ DOMAIN answers' \subseteq DOMAIN answers
        /\ \A a \in DOMAIN answers' : a # read => answers'[a] = answers[a]
        /\ answers[read] = 1 => read \notin DOMAIN answers'
    BY <1>1, <2>1, BagRemove
  <2> QED
    BY <2>2 DEF BagToSet
<1>6. CASE from # c
  <2>1. /\ Asking(c)' = Asking(c) /\ Answering(c)' \subseteq Answering(c)
        /\ \A a \in Answering(c)' : answers'[a] = answers[a]
    BY <1>1, <1>3, <1>5, <1>6 DEF Asking, Answering
  <2>2. mRequestTimer'[c] = mRequestTimer[c] /\ frames'[c] = frames[c] /\ mLastIds'[c] = mLastIds[c]
    BY <1>1, <1>4, <1>6 DEF ChainInv, UdpInv, UdpTypeOK
  <2> QED
    BY <1>1, <1>2, <2>1, <2>2, ChainKept
<1>7. CASE from = c
  <2>1. read \in Answering(c)
    BY <1>1, <1>3, <1>7 DEF Answering
  <2>2. Answering(c) = {read} /\ answers[read] = 1 /\ Asking(c) = {} /\ ~mConnectTimer[c]
    BY <1>2, <2>1 DEF OneChain
  <2>3. Asking(c)' = {} /\ Answering(c)' = {}
    BY <1>1, <1>5, <2>2 DEF Asking, Answering
  <2>4. OneChain(c)'
    BY <1>1, <2>2, <2>3 DEF OneChain
  <2>5. Ordered(c)'
    <3>1. CASE answer.code # "image"
      BY <1>1, <1>2, <1>4, <1>7, <2>3, <3>1 DEF Ordered
    <3>2. CASE answer.code = "image"
      <4>1. mLastIds[c] <= answer.id /\ answer.id <= newest[Wants[c]]
        BY <1>2, <1>3, <2>1, <3>2 DEF Ordered
      <4>2. mLastIds'[c] = answer.id /\ Wants[c] \in Cameras
        <5>1. Answered(read)
          BY <1>1 DEF ChainInv, UdpInv
        <5> QED
          BY <1>3, <1>4, <1>7, <3>2, <5>1 DEF Answered
      <4>3. Len(frames'[c]) = 2 => frames'[c][1] < frames'[c][2]
        <5>1. CASE answer.id = mLastIds[c]
          BY <1>2, <1>4, <1>7, <3>2, <5>1 DEF Ordered
        <5>2. CASE answer.id # mLastIds[c]
          <6>1. mLastIds[c] \in Int /\ answer.id \in Int
            BY <1>1, <3>2, UdpAssumption DEF ChainInv, UdpInv, UdpTypeOK, Ids, Null
          <6>2. mLastIds[c] < answer.id
            BY <4>1, <5>2, <6>1
          <6>3. /\ frames'[c][Len(frames'[c])] = answer.id
                /\ Len(frames'[c]) = 2 =>
                     frames[c] # <<>> /\ frames'[c][1] = frames[c][Len(frames[c])]
            BY <1>4, <1>7, <3>2, <5>2
          <6>4. frames[c] # <<>> => frames[c][Len(frames[c])] = mLastIds[c]
            BY <1>2 DEF Pushed
          <6> QED
            BY <6>2, <6>3, <6>4
        <5> QED
          BY <5>1, <5>2
      <4> QED
        BY <1>1, <2>3, <4>1, <4>2, <4>3 DEF Ordered
    <3> QED
      BY <3>1, <3>2
  <2> QED
    BY <2>4, <2>5
<1> QED
  BY <1>6, <1>7

\* A request is asked when a timer of the client ends that is its only chain.
LEMMA SendChain ==
  ASSUME ChainInv, NEW s \in Clients, NEW n, n = 1 \/ n = mSocket[s] + 1, SendRequest(s, n),
         mRequestTimer[s] \/ mConnectTimer[s],
         UNCHANGED <<newest, answers, mLastIds, frames>>,
         \A e \in Clients \ {s} :
           mRequestTimer'[e] = mRequestTimer[e] /\ mConnectTimer'[e] = mConnectTimer[e],
         NEW c \in Clients, Untroubled(c), c = s => ~mRequestTimer'[s] /\ ~mConnectTimer'[s]
  PROVE  OneChain(c)' /\ Ordered(c)'
<1> DEFINE asked == [from |-> s, socket |-> mSocket[s]]
<1>1. OneChain(c) /\ Ordered(c) /\ Reopened(c)
  BY DEF ChainInv, UdpInv
<1>2. asked.from = s /\ asked.socket = mSocket[s]
  OBVIOUS
<1>3. /\ BagToSet(requests') = BagToSet(requests) \cup {asked}
      /\ \A r \in BagToSet(requests) : r.from # s => requests'[r] = requests[r]
      /\ \A r \in BagToSet(requests') : r.from = s /\ r \notin BagToSet(requests)
           => requests'[r] = n
  <2>1. n \in Nat \ {0}
    BY DEF ChainInv, UdpInv, UdpTypeOK
  <2> QED
    BY <2>1, SentFacts DEF ChainInv, UdpInv
<1> HIDE DEF asked
<1>4. Answering(c)' = Answering(c)
  BY DEF Answering
<1>5. CASE c # s
  <2>1. Asking(c)' = Asking(c) /\ \A r \in Asking(c)' : requests'[r] = requests[r]
    BY <1>2, <1>3, <1>5 DEF Asking
  <2> QED
    BY <1>1, <1>4, <1>5, <2>1, ChainKept
<1>6. CASE c = s
  <2>1. Asking(c) = {} /\ Answering(c) = {}
    BY <1>1, <1>6 DEF OneChain
  <2>2. mSocket[c] = 0
    <3>1. mSocket[c] \in Nat /\ timeouts[c] = 0
      BY UdpAssumption DEF Untroubled, ChainInv, UdpInv, UdpTypeOK
    <3> QED
      BY <1>1, <3>1 DEF Reopened
  <2>3. Asking(c)' = {asked} /\ requests'[asked] = 1 /\ asked.socket = 0
    BY <1>2, <1>3, <1>6, <2>1, <2>2 DEF Asking
  <2>4. OneChain(c)'
    BY <1>4, <1>6, <2>1, <2>3 DEF OneChain
  <2>5. Ordered(c)'
    BY <1>1, <1>4 DEF Ordered
  <2> QED
    BY <2>4, <2>5
<1> QED
  BY <1>5, <1>6

LEMMA TimerRequestTimeoutChain ==
  ASSUME ChainInv, NEW s \in Clients, TimerRequestTimeout(s), NEW c \in Clients, Untroubled(c)'
  PROVE  OneChain(c)' /\ Ordered(c)'
<1>1. /\ UNCHANGED <<newest, serverRestarts, answers, duplicates, mLastIds, frames, timeouts>>
      /\ mRequestTimer[s] /\ mRequestTimer' = [mRequestTimer EXCEPT ![s] = FALSE]
      /\ mConnectTimer' = mConnectTimer /\ SendRequest(s, 1)
  BY DEF TimerRequestTimeout, server, images, history
<1>2. Untroubled(c) /\ OneChain(c)
  BY <1>1 DEF ChainInv, Untroubled
<1>3. mRequestTimer \in [Clients -> BOOLEAN]
  BY DEF ChainInv, UdpInv, UdpTypeOK
<1>4. /\ \A e \in Clients \ {s} : mRequestTimer'[e] = mRequestTimer[e]
      /\ c = s => ~mRequestTimer'[s] /\ ~mConnectTimer'[s]
  BY <1>1, <1>2, <1>3 DEF OneChain
<1> QED
  BY <1>1, <1>2, <1>4, SendChain

LEMMA TimerConnectTimeoutChain ==
  ASSUME ChainInv, NEW s \in Clients, TimerConnectTimeout(s), NEW c \in Clients, Untroubled(c)'
  PROVE  OneChain(c)' /\ Ordered(c)'
<1>1. /\ UNCHANGED <<newest, serverRestarts, answers, duplicates, mLastIds, frames, timeouts>>
      /\ mConnectTimer[s] /\ mConnectTimer' = [mConnectTimer EXCEPT ![s] = FALSE]
      /\ mRequestTimer' = mRequestTimer /\ SendRequest(s, mSocket[s] + 1)
  BY DEF TimerConnectTimeout, server, images, history
<1>2. Untroubled(c) /\ OneChain(c)
  BY <1>1 DEF ChainInv, Untroubled
<1>3. mConnectTimer \in [Clients -> BOOLEAN]
  BY DEF ChainInv, UdpInv, UdpTypeOK
<1>4. /\ \A e \in Clients \ {s} : mConnectTimer'[e] = mConnectTimer[e]
      /\ c = s => ~mRequestTimer'[s] /\ ~mConnectTimer'[s]
  BY <1>1, <1>2, <1>3 DEF OneChain
<1> QED
  BY <1>1, <1>2, <1>4, SendChain

LEMMA TimerTimeoutChain ==
  ASSUME ChainInv, NEW s \in Clients, TimerTimeout(s), NEW c \in Clients, Untroubled(c)'
  PROVE  OneChain(c)' /\ Ordered(c)'
<1>1. /\ UNCHANGED <<newest, serverRestarts, answers, duplicates, mLastIds, frames>>
      /\ UNCHANGED <<mRequestTimer, mConnectTimer>>
      /\ timeouts' = [timeouts EXCEPT ![s] = @ + 1]
      /\ SendRequest(s, 1) \/ requests' = requests
  BY DEF TimerTimeout, server, images
<1>2. timeouts \in [Clients -> Nat]
  BY UdpAssumption DEF ChainInv, UdpInv, UdpTypeOK
<1>3. c # s /\ Untroubled(c) /\ OneChain(c) /\ Ordered(c)
  <2>1. c # s
    BY <1>1, <1>2 DEF Untroubled
  <2> QED
    BY <1>1, <1>2, <2>1 DEF ChainInv, Untroubled
<1>4. Asking(c)' = Asking(c) /\ \A r \in Asking(c)' : requests'[r] = requests[r]
  <2>1. CASE SendRequest(s, 1)
    BY <1>3, <2>1, SentFacts DEF ChainInv, UdpInv, Asking
  <2>2. CASE requests' = requests
    BY <2>2 DEF Asking
  <2> QED
    BY <1>1, <2>1, <2>2
<1>5. Answering(c)' = Answering(c)
  BY <1>1 DEF Answering
<1> QED
  BY <1>1, <1>3, <1>4, <1>5, ChainKept

LEMMA TimerErrorTimeoutChain ==
  ASSUME ChainInv, NEW s \in Clients, TimerErrorTimeout(s), NEW c \in Clients, Untroubled(c)'
  PROVE  OneChain(c)' /\ Ordered(c)'
<1>1. /\ UNCHANGED <<newest, serverRestarts, requests, duplicates, mLastIds, frames, timeouts>>
      /\ mErrorTimer[s] /\ UNCHANGED mRequestTimer
      /\ mConnectTimer' = [mConnectTimer EXCEPT ![s] = TRUE]
      /\ answers' = [d \in {a \in BagToSet(answers) : a.to # s} |-> answers[d]]
  BY DEF TimerErrorTimeout, server, images, history
<1>2. Untroubled(c) /\ OneChain(c) /\ Ordered(c)
  BY <1>1 DEF ChainInv, Untroubled
<1>3. c # s
  <2>1. timeouts[s] # 0
    BY <1>1 DEF ChainInv, UdpInv, UdpTypeOK, Reopened
  <2> QED
    BY <1>2, <2>1 DEF Untroubled
<1>4. mConnectTimer'[c] = mConnectTimer[c]
  BY <1>1, <1>3 DEF ChainInv, UdpInv, UdpTypeOK
<1>5. Asking(c)' = Asking(c) /\ Answering(c)' = Answering(c)
      /\ \A d \in Answering(c) : answers'[d] = answers[d]
  BY <1>1, <1>3 DEF Asking, Answering, BagToSet
<1> QED
  BY <1>1, <1>2, <1>4, <1>5, ChainKept

LEMMA ChainStep ==
  ASSUME ChainInv, [UdpNext]_udpVars
  PROVE  ChainInv'
<1>1. UdpInv'
  BY UdpStep DEF ChainInv
<1>2. SUFFICES ASSUME NEW c \in Clients, Untroubled(c)'
               PROVE  OneChain(c)' /\ Ordered(c)'
  BY <1>1 DEF ChainInv
<1>3. CASE \E camera \in Cameras : PushBack(camera)
  BY <1>2, <1>3, PushBackChain
<1>4. CASE RestartServer
  <2>1. serverRestarts \in Nat /\ serverRestarts' = serverRestarts + 1
    BY <1>4 DEF RestartServer, ChainInv, UdpInv, UdpTypeOK
  <2> QED
    BY <1>2, <2>1 DEF Untroubled
<1>5. CASE \E request \in BagToSet(requests) : ServerReads(request)
  BY <1>2, <1>5, ServerReadsChain
<1>6. CASE Lose
  BY <1>2, <1>6, LoseChain
<1>7. CASE Duplicate
  <2>1. duplicates \in Nat /\ duplicates' = duplicates + 1
    BY <1>7 DEF Duplicate, ChainInv, UdpInv, UdpTypeOK
  <2> QED
    BY <1>2, <2>1 DEF Untroubled
<1>8. CASE \E datagram \in BagToSet(answers) : ClientReads(datagram.to, datagram.answer)
  BY <1>2, <1>8, ClientReadsChain
<1>9. CASE \E s \in Clients : \/ TimerRequestTimeout(s) \/ TimerTimeout(s)
                              \/ TimerErrorTimeout(s) \/ TimerConnectTimeout(s)
  BY <1>2, <1>9, TimerRequestTimeoutChain, TimerTimeoutChain, TimerErrorTimeoutChain,
     TimerConnectTimeoutChain
<1>10. CASE UNCHANGED udpVars
  <2>1. UNCHANGED <<newest, requests, answers, serverRestarts, duplicates, mLastIds, frames>>
        /\ UNCHANGED <<mRequestTimer, mConnectTimer, timeouts>>
    BY <1>10 DEF udpVars, server, network, images, timers, history
  <2>2. OneChain(c) /\ Ordered(c)
    BY <1>2, <2>1 DEF ChainInv, Untroubled
  <2>3. Asking(c)' = Asking(c) /\ Answering(c)' = Answering(c)
    BY <2>1 DEF Asking, Answering
  <2> QED
    BY <2>1, <2>2, <2>3, ChainKept
<1> QED
  BY <1>3, <1>4, <1>5, <1>6, <1>7, <1>8, <1>9, <1>10 DEF UdpNext

LEMMA ChainStart ==
  ASSUME UdpInit
  PROVE  ChainInv
<1>1. BagToSet(EmptyBag) = {}
  BY DEF EmptyBag, SetToBag, BagToSet
<1>2. \A c \in Clients : OneChain(c) /\ Ordered(c)
  BY <1>1 DEF UdpInit, OneChain, Ordered, Asking, Answering
<1> QED
  BY <1>2, UdpStart DEF ChainInv

\* No image is pushed twice in a row into a client's buffer, and an untroubled client gets
\* them in order, however the network reorders: there is only one datagram to reorder.
THEOREM NewImagesOnly == UdpSpec => []NoFrameTwice
<1>1. ChainInv => NoFrameTwice
  BY DEF ChainInv, UdpInv, Pushed, Untroubled, Ordered, NoFrameTwice
<1> QED
  BY <1>1, ChainStart, ChainStep, PTL DEF UdpSpec

-----------------------------------------------------------------------------
(* The requests and answers of a client do not pile up. *)

\* The copies of an element, when a bag gets some more of an element, and one less.
LEMMA CopiesAdded ==
  ASSUME NEW B, IsABag(B), NEW e, NEW n \in Nat \ {0}, NEW A, DOMAIN A = {e}, A[e] = n,
         NEW N, N = B (+) A, NEW x
  PROVE  CopiesOf(x, N) = CopiesOf(x, B) + (IF x = e THEN n ELSE 0) /\ CopiesOf(x, B) \in Nat
  BY DEF IsABag, (+), CopiesOf, BagIn, BagToSet
LEMMA CopiesRemoved ==
  ASSUME NEW B, IsABag(B), NEW e \in DOMAIN B, NEW N, N = B (-) SetToBag({e}), NEW x
  PROVE  CopiesOf(x, N) = CopiesOf(x, B) - (IF x = e THEN 1 ELSE 0) /\ CopiesOf(x, B) \in Nat
  BY DEF IsABag, (-), SetToBag, CopiesOf, BagIn, BagToSet

LEMMA ComingMembers ==
  ASSUME NEW c, NEW B
  PROVE  /\ \A d, k : <<d, k>> \in ComingTo(c, B) <=> d \in DOMAIN B /\ d.to = c /\ k \in 1..B[d]
         /\ \A x \in ComingTo(c, B) : \E d, k : x = <<d, k>>
  BY DEF ComingTo, BagToSet
LEMMA PairsSubset ==
  ASSUME NEW S, NEW T, \A x \in S : \E d, k : x = <<d, k>>,
         \A d, k : <<d, k>> \in S => <<d, k>> \in T
  PROVE  S \subseteq T
  OBVIOUS
LEMMA ComingSame ==
  ASSUME NEW c, NEW B, NEW N,
         \A d : d.to = c => (d \in DOMAIN N <=> d \in DOMAIN B),
         \A d \in DOMAIN B : d.to = c => N[d] = B[d]
  PROVE  ComingTo(c, N) = ComingTo(c, B)
<1>1. \A d, k : <<d, k>> \in ComingTo(c, N) <=> <<d, k>> \in ComingTo(c, B)
  BY ComingMembers
<1>2. /\ \A x \in ComingTo(c, N) : \E d, k : x = <<d, k>>
      /\ \A x \in ComingTo(c, B) : \E d, k : x = <<d, k>>
  BY ComingMembers
<1>3. ComingTo(c, N) \subseteq ComingTo(c, B) /\ ComingTo(c, B) \subseteq ComingTo(c, N)
  BY <1>1, <1>2, PairsSubset
<1> QED
  BY <1>3
LEMMA ComingAdded ==
  ASSUME NEW c, NEW B, IsABag(B), NEW e, NEW N, N = B (+) SetToBag({e}),
         IsFiniteSet(ComingTo(c, B))
  PROVE  /\ IsFiniteSet(ComingTo(c, N))
         /\ Cardinality(ComingTo(c, N)) = Cardinality(ComingTo(c, B)) + (IF e.to = c THEN 1 ELSE 0)
<1> DEFINE n == IF e \in DOMAIN B THEN B[e] ELSE 0
<1>1. /\ n \in Nat /\ DOMAIN N = DOMAIN B \cup {e} /\ N[e] = n + 1
      /\ \A d \in DOMAIN B : B[d] \in Nat \ {0}
      /\ \A d \in DOMAIN B : d # e => N[d] = B[d]
  BY DEF IsABag, (+), SetToBag
<1>2. 1..n + 1 = 1..n \cup {n + 1} /\ n + 1 \notin 1..n
  BY <1>1
<1>3. e \notin DOMAIN B => 1..n = {}
  OBVIOUS
<1>4. e \in DOMAIN B => n = B[e]
  OBVIOUS
<1> HIDE DEF n
<1>5. CASE e.to = c
  <2>1. <<e, n + 1>> \notin ComingTo(c, B)
    BY <1>2, <1>4, ComingMembers
  <2>2. ComingTo(c, N) \subseteq ComingTo(c, B) \cup {<<e, n + 1>>}
    <3>1. SUFFICES ASSUME NEW d, NEW k, <<d, k>> \in ComingTo(c, N)
                   PROVE  <<d, k>> \in ComingTo(c, B) \cup {<<e, n + 1>>}
      <4>1. \A x \in ComingTo(c, N) : \E d, k : x = <<d, k>>
        BY ComingMembers
      <4> QED
        BY <4>1, PairsSubset
    <3>2. d \in DOMAIN N /\ d.to = c /\ k \in 1..N[d]
      BY <3>1, ComingMembers
    <3>3. CASE d = e
      <4>1. k = n + 1 \/ k \in 1..n
        BY <1>1, <1>2, <3>2, <3>3
      <4> QED
        BY <1>3, <1>4, <1>5, <3>3, <4>1, ComingMembers
    <3>4. CASE d # e
      BY <1>1, <3>2, <3>4, ComingMembers
    <3> QED
      BY <3>3, <3>4
  <2>3. ComingTo(c, B) \cup {<<e, n + 1>>} \subseteq ComingTo(c, N)
    <3>1. n + 1 \in 1..N[e]
      BY <1>1
    <3>2. <<e, n + 1>> \in ComingTo(c, N)
      BY <1>1, <1>5, <3>1, ComingMembers
    <3>3. SUFFICES ASSUME NEW d, NEW k, <<d, k>> \in ComingTo(c, B)
                   PROVE  <<d, k>> \in ComingTo(c, N)
      <4>1. \A x \in ComingTo(c, B) : \E d, k : x = <<d, k>>
        BY ComingMembers
      <4> QED
        BY <3>2, <4>1, PairsSubset
    <3>4. d \in DOMAIN B /\ d.to = c /\ k \in 1..B[d]
      BY <3>3, ComingMembers
    <3>5. k \in 1..N[d]
      BY <1>1, <1>2, <1>4, <3>4
    <3> QED
      BY <1>1, <3>4, <3>5, ComingMembers
  <2>4. ComingTo(c, N) = ComingTo(c, B) \cup {<<e, n + 1>>}
    BY <2>2, <2>3
  <2> QED
    BY <1>5, <2>1, <2>4, FS_AddElement
<1>6. CASE e.to # c
  <2>1. ComingTo(c, N) = ComingTo(c, B)
    BY <1>1, <1>6, ComingSame
  <2>2. Cardinality(ComingTo(c, B)) \in Nat
    BY FS_CardinalityType
  <2> QED
    BY <1>6, <2>1, <2>2
<1> QED
  BY <1>5, <1>6
LEMMA ComingRemoved ==
  ASSUME NEW c, NEW B, IsABag(B), NEW e \in DOMAIN B, NEW N, N = B (-) SetToBag({e}),
         IsFiniteSet(ComingTo(c, B))
  PROVE  /\ IsFiniteSet(ComingTo(c, N))
         /\ Cardinality(ComingTo(c, N)) = Cardinality(ComingTo(c, B)) - (IF e.to = c THEN 1 ELSE 0)
<1>1. /\ B[e] \in Nat \ {0} /\ DOMAIN N \subseteq DOMAIN B
      /\ \A d \in DOMAIN B : d # e => d \in DOMAIN N /\ N[d] = B[d]
      /\ e \in DOMAIN N <=> B[e] > 1
      /\ e \in DOMAIN N => N[e] = B[e] - 1
  BY DEF IsABag, (-), SetToBag
<1>2. /\ \A k : k \in 1..B[e] /\ k # B[e] <=> k \in 1..B[e] - 1
      /\ B[e] \in 1..B[e]
  BY <1>1
<1>3. CASE e.to = c
  <2>1. <<e, B[e]>> \in ComingTo(c, B)
    BY <1>2, <1>3, ComingMembers
  <2>2. \A d, k : <<d, k>> \in ComingTo(c, N)
                  <=> <<d, k>> \in ComingTo(c, B) /\ <<d, k>> # <<e, B[e]>>
    <3>1. TAKE d, k
    <3>2. CASE d = e
      <4>1. <<d, k>> \in ComingTo(c, N) <=> e \in DOMAIN N /\ k \in 1..B[e] - 1
        BY <1>1, <1>3, <3>2, ComingMembers
      <4>2. k \in 1..B[e] - 1 => B[e] > 1
        BY <1>1
      <4>3. <<d, k>> \in ComingTo(c, N) <=> k \in 1..B[e] /\ k # B[e]
        BY <1>1, <1>2, <4>1, <4>2
      <4> QED
        BY <1>3, <3>2, <4>3, ComingMembers
    <3>3. CASE d # e
      BY <1>1, <3>3, ComingMembers
    <3> QED
      BY <3>2, <3>3
  <2>3. ComingTo(c, N) = ComingTo(c, B) \ {<<e, B[e]>>}
    <3> DEFINE T == ComingTo(c, B) \ {<<e, B[e]>>}
    <3>1. /\ \A x \in ComingTo(c, N) : \E d, k : x = <<d, k>>
          /\ \A x \in T : \E d, k : x = <<d, k>>
      BY ComingMembers
    <3>2. \A d, k : <<d, k>> \in ComingTo(c, N) <=> <<d, k>> \in T
      BY <2>2
    <3> HIDE DEF T
    <3>3. ComingTo(c, N) \subseteq T /\ T \subseteq ComingTo(c, N)
      BY <3>1, <3>2, PairsSubset
    <3>4. ComingTo(c, N) = T
      BY <3>3
    <3> QED
      BY <3>4 DEF T
  <2> QED
    BY <1>3, <2>1, <2>3, FS_RemoveElement
<1>4. CASE e.to # c
  <2>1. ComingTo(c, N) = ComingTo(c, B)
    BY <1>1, <1>4, ComingSame
  <2>2. Cardinality(ComingTo(c, B)) \in Nat
    BY FS_CardinalityType
  <2> QED
    BY <1>4, <2>1, <2>2
<1> QED
  BY <1>3, <1>4

\* The requests of a client to its present socket, and the answers to it.
Own(c) == CopiesOf([from |-> c, socket |-> mSocket[c]], requests)
Coming(c) == Cardinality(ComingTo(c, answers))

LEMMA PileNumbers ==
  ASSUME PileInv, NEW c \in Clients
  PROVE  /\ Own(c) \in Nat /\ Coming(c) \in Nat /\ IsABag(requests) /\ IsABag(answers)
         /\ mSocket[c] \in Nat /\ mErrorNumber[c] \in Nat /\ timeouts[c] \in Nat
         /\ duplicates \in Nat /\ mErrorTimer[c] \in BOOLEAN
         /\ mRequestTimer[c] \in BOOLEAN /\ mConnectTimer[c] \in BOOLEAN
         /\ IsFiniteSet(ComingTo(c, answers)) /\ Patient(c)
         /\ Own(c) + Coming(c) + (IF mRequestTimer[c] THEN 1 ELSE 0)
            + (IF mConnectTimer[c] THEN mSocket[c] + 1 ELSE 0) <= 1 + timeouts[c] + duplicates
<1>1. IsFiniteSet(ComingTo(c, answers)) /\ Patient(c) /\ Chains(c) <= 1 + timeouts[c] + duplicates
  BY DEF PileInv, Waited
<1>2. Coming(c) \in Nat
  BY <1>1, FS_CardinalityType DEF Coming
<1>3. /\ mSocket[c] \in 0..MaxFaults /\ mErrorNumber[c] \in 0..(MaxNetworkErrorNumber - 1)
      /\ timeouts[c] \in 0..faults /\ duplicates \in 0..faults
      /\ IsABag(requests) /\ IsABag(answers) /\ mErrorTimer[c] \in BOOLEAN
      /\ mRequestTimer[c] \in BOOLEAN /\ mConnectTimer[c] \in BOOLEAN
  BY DEF PileInv, UdpInv, UdpTypeOK
<1>4. Own(c) \in Nat
  BY <1>3 DEF Own, CopiesOf, BagIn, BagToSet, IsABag
<1> QED
  BY <1>1, <1>2, <1>3, <1>4 DEF Chains, Own, Coming

\* A step that starts nothing for a client.
LEMMA WaitedKept ==
  ASSUME PileInv, NEW c \in Clients, Own(c)' \in Int, Coming(c)' \in Int, duplicates' \in Int,
         IsFiniteSet(ComingTo(c, answers'))
         /\ mSocket'[c] = mSocket[c] /\ mErrorTimer'[c] = mErrorTimer[c]
         /\ mErrorNumber'[c] = mErrorNumber[c] /\ timeouts'[c] = timeouts[c]
         /\ mRequestTimer'[c] = mRequestTimer[c] /\ mConnectTimer'[c] = mConnectTimer[c],
         Own(c)' + Coming(c)' - duplicates' <= Own(c) + Coming(c) - duplicates
  PROVE  Waited(c)'
<1>1. Patient(c)'
  BY PileNumbers DEF Patient
<1>2. Chains(c)' = Own(c)' + Coming(c)' + (IF mRequestTimer[c] THEN 1 ELSE 0)
                   + (IF mConnectTimer[c] THEN mSocket[c] + 1 ELSE 0)
  BY DEF Chains, Own, Coming
<1> HIDE DEF Own, Coming
<1>3. Chains(c)' <= 1 + timeouts[c] + duplicates'
  BY <1>2, PileNumbers
<1> QED
  BY <1>1, <1>3 DEF Waited

\* One that leaves its datagrams alone.
LEMMA WaitedAlone ==
  ASSUME PileInv, NEW c \in Clients, Own(c)' = Own(c), ComingTo(c, answers') = ComingTo(c, answers),
         duplicates' = duplicates,
         /\ mSocket'[c] = mSocket[c] /\ mErrorTimer'[c] = mErrorTimer[c]
         /\ mErrorNumber'[c] = mErrorNumber[c] /\ timeouts'[c] = timeouts[c]
         /\ mRequestTimer'[c] = mRequestTimer[c] /\ mConnectTimer'[c] = mConnectTimer[c]
  PROVE  Waited(c)'
<1>1. Coming(c)' = Coming(c)
  BY DEF Coming
<1> QED
  BY <1>1, PileNumbers, WaitedKept

LEMMA QuietPile ==
  ASSUME PileInv, UNCHANGED <<requests, answers, duplicates, mSocket, mErrorTimer, mErrorNumber>>,
         UNCHANGED <<mRequestTimer, mConnectTimer, timeouts>>, NEW c \in Clients
  PROVE  Waited(c)'
  BY WaitedAlone DEF Own

LEMMA ServerReadsPile ==
  ASSUME PileInv, NEW request \in BagToSet(requests), ServerReads(request), NEW c \in Clients
  PROVE  Waited(c)'
<1> DEFINE datagram == [to |-> request.from, answer |-> AnswerTo(Wants[request.from])]
           own == [from |-> c, socket |-> mSocket[c]]
<1>1. /\ UNCHANGED <<duplicates, mSocket, mErrorTimer, mErrorNumber>>
      /\ UNCHANGED <<mRequestTimer, mConnectTimer, timeouts>>
  BY DEF ServerReads, images, timers, history
<1>2. /\ request.from \in Clients /\ requests' = requests (-) SetToBag({request})
      /\ \/ answers' = answers
         \/ /\ request.socket = mSocket[request.from]
            /\ answers' = answers (+) SetToBag({datagram})
  BY ServerReadsFacts DEF PileInv, UdpInv
<1>3. request \in [from : Clients, socket : 0..MaxFaults] /\ request \in DOMAIN requests
  BY DEF PileInv, UdpInv, UdpTypeOK, BagToSet
<1>4. request.from = c /\ request.socket = mSocket[request.from] <=> own = request
  BY <1>3
<1>5. datagram.to = request.from
  OBVIOUS
<1> HIDE DEF datagram, own
<1>6. Own(c)' = Own(c) - (IF own = request THEN 1 ELSE 0)
  <2>1. CopiesOf(own, requests') = CopiesOf(own, requests) - (IF own = request THEN 1 ELSE 0)
    BY <1>2, <1>3, PileNumbers, CopiesRemoved
  <2> QED
    BY <1>1, <2>1 DEF Own, own
<1>7. CASE answers' = answers
  <2>1. Coming(c)' = Coming(c)
    BY <1>7 DEF Coming
  <2>2. Own(c)' \in Int /\ Own(c)' <= Own(c)
    BY <1>6, PileNumbers
  <2> QED
    BY <1>1, <1>7, <2>1, <2>2, PileNumbers, WaitedKept
<1>8. CASE request.socket = mSocket[request.from] /\ answers' = answers (+) SetToBag({datagram})
  <2>1. /\ IsFiniteSet(ComingTo(c, answers'))
        /\ Coming(c)' = Coming(c) + (IF datagram.to = c THEN 1 ELSE 0)
    BY <1>8, PileNumbers, ComingAdded DEF Coming
  <2>2. Own(c)' \in Int /\ Coming(c)' \in Int /\ Own(c)' + Coming(c)' = Own(c) + Coming(c)
    BY <1>4, <1>5, <1>6, <1>8, <2>1, PileNumbers
  <2> QED
    BY <1>1, <2>1, <2>2, PileNumbers, WaitedKept
<1> QED
  BY <1>2, <1>7, <1>8

LEMMA LosePile ==
  ASSUME PileInv, Lose, NEW c \in Clients
  PROVE  Waited(c)'
<1> DEFINE own == [from |-> c, socket |-> mSocket[c]]
<1>1. /\ UNCHANGED <<duplicates, mSocket, mErrorTimer, mErrorNumber>>
      /\ UNCHANGED <<mRequestTimer, mConnectTimer, timeouts>>
  BY DEF Lose, server, images, timers, history
<1> HIDE DEF own
<1>2. CASE \E r \in BagToSet(requests) :
             requests' = requests (-) SetToBag({r}) /\ UNCHANGED answers
  <2>1. PICK r \in DOMAIN requests : requests' = requests (-) SetToBag({r}) /\ answers' = answers
    BY <1>2 DEF BagToSet
  <2>2. CopiesOf(own, requests') = CopiesOf(own, requests) - (IF own = r THEN 1 ELSE 0)
    BY <2>1, PileNumbers, CopiesRemoved
  <2>3. Own(c)' = Own(c) - (IF own = r THEN 1 ELSE 0)
    BY <1>1, <2>2 DEF Own, own
  <2>4. Coming(c)' = Coming(c)
    BY <2>1 DEF Coming
  <2>5. Own(c)' \in Int /\ Own(c)' <= Own(c)
    BY <2>3, PileNumbers
  <2> QED
    BY <1>1, <2>1, <2>4, <2>5, PileNumbers, WaitedKept
<1>3. CASE \E d \in BagToSet(answers) :
             answers' = answers (-) SetToBag({d}) /\ UNCHANGED requests
  <2>1. PICK d \in DOMAIN answers : answers' = answers (-) SetToBag({d}) /\ requests' = requests
    BY <1>3 DEF BagToSet
  <2>2. /\ IsFiniteSet(ComingTo(c, answers'))
        /\ Coming(c)' = Coming(c) - (IF d.to = c THEN 1 ELSE 0)
    BY <2>1, PileNumbers, ComingRemoved DEF Coming
  <2>3. Own(c)' = Own(c)
    BY <1>1, <2>1 DEF Own
  <2>4. Coming(c)' \in Int /\ Coming(c)' <= Coming(c)
    BY <2>2, PileNumbers
  <2> QED
    BY <1>1, <2>2, <2>3, <2>4, PileNumbers, WaitedKept
<1> QED
  BY <1>2, <1>3 DEF Lose

LEMMA DuplicatePile ==
  ASSUME PileInv, Duplicate, NEW c \in Clients
  PROVE  Waited(c)'
<1> DEFINE own == [from |-> c, socket |-> mSocket[c]]
<1>1. /\ UNCHANGED <<mSocket, mErrorTimer, mErrorNumber, mRequestTimer, mConnectTimer, timeouts>>
      /\ duplicates' = duplicates + 1
  BY DEF Duplicate, Fault, server, images, timers
<1> HIDE DEF own
<1>2. CASE \E r \in BagToSet(requests) :
             requests' = requests (+) SetToBag({r}) /\ UNCHANGED answers
  <2>1. PICK r \in DOMAIN requests : requests' = requests (+) SetToBag({r}) /\ answers' = answers
    BY <1>2 DEF BagToSet
  <2>2. CopiesOf(own, requests') = CopiesOf(own, requests) + (IF own = r THEN 1 ELSE 0)
    <3> DEFINE A == SetToBag({r})
    <3>1. DOMAIN A = {r} /\ A[r] = 1 /\ requests' = requests (+) A
      BY <2>1 DEF SetToBag
    <3>2. IsABag(requests) /\ 1 \in Nat \ {0}
      BY PileNumbers
    <3> HIDE DEF A
    <3> QED
      BY <3>1, <3>2, CopiesAdded
  <2>3. Own(c)' = Own(c) + (IF own = r THEN 1 ELSE 0)
    BY <1>1, <2>2 DEF Own, own
  <2>4. Coming(c)' = Coming(c)
    BY <2>1 DEF Coming
  <2>5. Own(c)' \in Int /\ Own(c)' <= Own(c) + 1
    BY <2>3, PileNumbers
  <2> QED
    BY <1>1, <2>1, <2>4, <2>5, PileNumbers, WaitedKept
<1>3. CASE \E d \in BagToSet(answers) :
             answers' = answers (+) SetToBag({d}) /\ UNCHANGED requests
  <2>1. PICK d \in DOMAIN answers : answers' = answers (+) SetToBag({d}) /\ requests' = requests
    BY <1>3 DEF BagToSet
  <2>2. /\ IsFiniteSet(ComingTo(c, answers'))
        /\ Coming(c)' = Coming(c) + (IF d.to = c THEN 1 ELSE 0)
    BY <2>1, PileNumbers, ComingAdded DEF Coming
  <2>3. Own(c)' = Own(c)
    BY <1>1, <2>1 DEF Own
  <2>4. Coming(c)' \in Int /\ Coming(c)' <= Coming(c) + 1
    BY <2>2, PileNumbers
  <2> QED
    BY <1>1, <2>2, <2>3, <2>4, PileNumbers, WaitedKept
<1> QED
  BY <1>2, <1>3 DEF Duplicate

LEMMA ClientReadsPile ==
  ASSUME PileInv, NEW d \in BagToSet(answers), ClientReads(d.to, d.answer), NEW c \in Clients
  PROVE  Waited(c)'
<1> DEFINE from == d.to
           read == [to |-> from, answer |-> d.answer]
<1>1. /\ UNCHANGED <<requests, duplicates, mSocket, mErrorTimer, mConnectTimer, timeouts>>
      /\ answers' = answers (-) SetToBag({read}) /\ read \in DOMAIN answers
      /\ mRequestTimer' = [mRequestTimer EXCEPT ![from] = TRUE]
      /\ mErrorNumber' = [mErrorNumber EXCEPT ![from] = 0]
      /\ from \in Clients /\ mRequestTimer \in [Clients -> BOOLEAN]
      /\ mErrorNumber \in [Clients -> 0..(MaxNetworkErrorNumber - 1)]
  BY DEF ClientReads, server, history, PileInv, UdpInv, UdpTypeOK, BagIn, BagToSet
<1>2. read.to = from
  OBVIOUS
<1> HIDE DEF from, read
<1>3. /\ IsFiniteSet(ComingTo(c, answers'))
      /\ Coming(c)' = Coming(c) - (IF read.to = c THEN 1 ELSE 0)
  BY <1>1, PileNumbers, ComingRemoved DEF Coming
<1>4. Own(c)' = Own(c)
  BY <1>1 DEF Own
<1>5. CASE from # c
  <2>1. Coming(c)' = Coming(c)
    BY <1>2, <1>3, <1>5, PileNumbers
  <2>2. mRequestTimer'[c] = mRequestTimer[c] /\ mErrorNumber'[c] = mErrorNumber[c]
    BY <1>1, <1>5
  <2>3. /\ Own(c)' \in Int /\ Coming(c)' \in Int /\ duplicates' \in Int
        /\ Own(c)' + Coming(c)' - duplicates' <= Own(c) + Coming(c) - duplicates
    BY <1>1, <1>4, <2>1, PileNumbers
  <2>4. /\ mSocket'[c] = mSocket[c] /\ mErrorTimer'[c] = mErrorTimer[c]
        /\ timeouts'[c] = timeouts[c] /\ mConnectTimer'[c] = mConnectTimer[c]
    BY <1>1
  <2> QED
    BY <1>3, <2>2, <2>3, <2>4, WaitedKept
<1>6. CASE from = c
  <2>1. Coming(c)' = Coming(c) - 1
    BY <1>2, <1>3, <1>6
  <2>2. mRequestTimer'[c] = TRUE /\ mErrorNumber'[c] = 0
    BY <1>1, <1>6
  <2>3. Patient(c)'
    BY <1>1, <2>2, PileNumbers DEF Patient
  <2>4. Chains(c)' = Own(c) + (Coming(c) - 1) + 1 + (IF mConnectTimer[c] THEN mSocket[c] + 1 ELSE 0)
    <3>1. Chains(c)' = Own(c)' + Coming(c)' + (IF mRequestTimer'[c] THEN 1 ELSE 0)
                       + (IF mConnectTimer'[c] THEN mSocket'[c] + 1 ELSE 0)
      BY DEF Chains, Own, Coming
    <3> QED
      BY <1>1, <1>4, <2>1, <2>2, <3>1
  <2>5. Chains(c)' <= 1 + timeouts'[c] + duplicates'
    BY <1>1, <2>4, PileNumbers
  <2> QED
    BY <1>3, <2>3, <2>5 DEF Waited
<1> QED
  BY <1>5, <1>6

\* What a client sends is to its present socket.
LEMMA SentOwn ==
  ASSUME PileInv, NEW s \in Clients, NEW n \in Nat \ {0}, SendRequest(s, n),
         UNCHANGED mSocket, NEW c \in Clients
  PROVE  Own(c)' = Own(c) + (IF c = s THEN n ELSE 0)
<1> DEFINE asked == [from |-> s, socket |-> mSocket[s]]
           own == [from |-> c, socket |-> mSocket[c]]
           A == [r \in {asked} |-> n]
<1>1. own = asked <=> c = s
  OBVIOUS
<1>2. DOMAIN A = {asked} /\ A[asked] = n /\ requests' = requests (+) A
  BY DEF SendRequest
<1>3. IsABag(requests)
  BY PileNumbers
<1> HIDE DEF asked, own, A
<1>4. CopiesOf(own, requests') = CopiesOf(own, requests) + (IF own = asked THEN n ELSE 0)
  BY <1>2, <1>3, CopiesAdded
<1> QED
  BY <1>1, <1>4 DEF Own, own

LEMMA TimerRequestTimeoutPile ==
  ASSUME PileInv, NEW s \in Clients, TimerRequestTimeout(s), NEW c \in Clients
  PROVE  Waited(c)'
<1>1. /\ UNCHANGED <<answers, duplicates, mSocket, mErrorTimer, mErrorNumber>>
      /\ UNCHANGED <<mConnectTimer, timeouts>> /\ SendRequest(s, 1)
      /\ mRequestTimer[s] /\ mRequestTimer' = [mRequestTimer EXCEPT ![s] = FALSE]
      /\ mRequestTimer \in [Clients -> BOOLEAN]
  BY DEF TimerRequestTimeout, server, images, history, PileInv, UdpInv, UdpTypeOK
<1>2. Own(c)' = Own(c) + (IF c = s THEN 1 ELSE 0)
  BY <1>1, SentOwn
<1>3. Coming(c)' = Coming(c)
  BY <1>1 DEF Coming
<1>4. CASE c # s
  <2>1. Own(c)' = Own(c) /\ mRequestTimer'[c] = mRequestTimer[c]
    BY <1>1, <1>2, <1>4, PileNumbers
  <2> QED
    BY <1>1, <2>1, WaitedAlone
<1>5. CASE c = s
  <2>1. mRequestTimer'[c] = FALSE
    BY <1>1, <1>5
  <2>2. Patient(c)'
    BY <1>1, PileNumbers DEF Patient
  <2>3. Chains(c)' = Own(c)' + Coming(c)' + (IF mConnectTimer[c] THEN mSocket[c] + 1 ELSE 0)
    <3>1. Chains(c)' = Own(c)' + Coming(c)' + (IF mRequestTimer'[c] THEN 1 ELSE 0)
                       + (IF mConnectTimer'[c] THEN mSocket'[c] + 1 ELSE 0)
      BY DEF Chains, Own, Coming
    <3> QED
      BY <1>1, <1>2, <1>3, <2>1, <3>1, PileNumbers
  <2>4. Chains(c)' <= 1 + timeouts'[c] + duplicates'
    BY <1>1, <1>2, <1>3, <1>5, <2>3, PileNumbers
  <2>5. IsFiniteSet(ComingTo(c, answers'))
    BY <1>1, PileNumbers
  <2> QED
    BY <2>2, <2>4, <2>5 DEF Waited
<1> QED
  BY <1>4, <1>5

LEMMA TimerConnectTimeoutPile ==
  ASSUME PileInv, NEW s \in Clients, TimerConnectTimeout(s), NEW c \in Clients
  PROVE  Waited(c)'
<1>1. /\ UNCHANGED <<answers, duplicates, mSocket, mErrorTimer, mErrorNumber>>
      /\ UNCHANGED <<mRequestTimer, timeouts>> /\ SendRequest(s, mSocket[s] + 1)
      /\ mConnectTimer[s] /\ mConnectTimer' = [mConnectTimer EXCEPT ![s] = FALSE]
      /\ mConnectTimer \in [Clients -> BOOLEAN]
  BY DEF TimerConnectTimeout, server, images, history, PileInv, UdpInv, UdpTypeOK
<1>2. Own(c)' = Own(c) + (IF c = s THEN mSocket[s] + 1 ELSE 0)
  <2>1. mSocket[s] + 1 \in Nat \ {0}
    BY PileNumbers
  <2> QED
    BY <1>1, <2>1, SentOwn
<1>3. Coming(c)' = Coming(c)
  BY <1>1 DEF Coming
<1>4. CASE c # s
  <2>1. Own(c)' = Own(c) /\ mConnectTimer'[c] = mConnectTimer[c]
    BY <1>1, <1>2, <1>4, PileNumbers
  <2> QED
    BY <1>1, <2>1, WaitedAlone
<1>5. CASE c = s
  <2>1. mConnectTimer'[c] = FALSE
    BY <1>1, <1>5
  <2>2. Patient(c)'
    BY <1>1, PileNumbers DEF Patient
  <2>3. Chains(c)' = Own(c)' + Coming(c)' + (IF mRequestTimer[c] THEN 1 ELSE 0)
    <3>1. Chains(c)' = Own(c)' + Coming(c)' + (IF mRequestTimer'[c] THEN 1 ELSE 0)
                       + (IF mConnectTimer'[c] THEN mSocket'[c] + 1 ELSE 0)
      BY DEF Chains, Own, Coming
    <3> QED
      BY <1>1, <1>2, <1>3, <2>1, <3>1, PileNumbers
  <2>4. Chains(c)' <= 1 + timeouts'[c] + duplicates'
    BY <1>1, <1>2, <1>3, <1>5, <2>3, PileNumbers
  <2>5. IsFiniteSet(ComingTo(c, answers'))
    BY <1>1, PileNumbers
  <2> QED
    BY <2>2, <2>4, <2>5 DEF Waited
<1> QED
  BY <1>4, <1>5

LEMMA TimerTimeoutPile ==
  ASSUME PileInv, NEW s \in Clients, TimerTimeout(s), NEW c \in Clients
  PROVE  Waited(c)'
<1>1. /\ UNCHANGED <<answers, duplicates, mSocket, mRequestTimer, mConnectTimer>>
      /\ timeouts' = [timeouts EXCEPT ![s] = @ + 1]
      /\ \/ /\ mErrorNumber' = [mErrorNumber EXCEPT ![s] = @ + 1]
            /\ SendRequest(s, 1) /\ mErrorTimer' = mErrorTimer
         \/ /\ mErrorNumber[s] + 1 >= MaxNetworkErrorNumber
            /\ mErrorNumber' = [mErrorNumber EXCEPT ![s] = 0]
            /\ mErrorTimer' = [mErrorTimer EXCEPT ![s] = TRUE]
            /\ requests' = requests
  BY DEF TimerTimeout, server, images
<1>2. /\ timeouts \in [Clients -> 0..faults] /\ mErrorTimer \in [Clients -> BOOLEAN]
      /\ mErrorNumber \in [Clients -> 0..(MaxNetworkErrorNumber - 1)]
  BY DEF PileInv, UdpInv, UdpTypeOK
<1>3. Coming(c)' = Coming(c) /\ IsFiniteSet(ComingTo(c, answers'))
  BY <1>1, PileNumbers DEF Coming
<1>4. Own(c)' = Own(c) \/ (c = s /\ Own(c)' = Own(c) + 1)
  <2>1. CASE SendRequest(s, 1)
    <3>1. Own(c)' = Own(c) + (IF c = s THEN 1 ELSE 0)
      BY <1>1, <2>1, SentOwn
    <3> QED
      BY <3>1, PileNumbers
  <2>2. CASE requests' = requests
    BY <1>1, <2>2 DEF Own
  <2> QED
    BY <1>1, <2>1, <2>2
<1>5. CASE c # s
  <2>1. Own(c)' = Own(c) /\ timeouts'[c] = timeouts[c]
        /\ mErrorNumber'[c] = mErrorNumber[c] /\ mErrorTimer'[c] = mErrorTimer[c]
    BY <1>1, <1>2, <1>4, <1>5
  <2> QED
    BY <1>1, <2>1, WaitedAlone
<1>6. CASE c = s
  <2>1. timeouts'[c] = timeouts[c] + 1
    BY <1>1, <1>2, <1>6
  <2>2. Patient(c)'
    <3>1. CASE mErrorNumber' = [mErrorNumber EXCEPT ![s] = @ + 1] /\ mErrorTimer' = mErrorTimer
      <4>1. mErrorNumber'[c] = mErrorNumber[c] + 1 /\ mErrorTimer'[c] = mErrorTimer[c]
        BY <1>2, <1>6, <3>1
      <4> QED
        BY <1>1, <2>1, <4>1, PileNumbers DEF Patient
    <3>2. CASE /\ mErrorNumber[s] + 1 >= MaxNetworkErrorNumber
               /\ mErrorNumber' = [mErrorNumber EXCEPT ![s] = 0]
               /\ mErrorTimer' = [mErrorTimer EXCEPT ![s] = TRUE]
      <4>1. mErrorNumber'[c] = 0 /\ mErrorTimer'[c] = TRUE /\ mErrorNumber[c] >= 1
        BY <1>2, <1>6, <3>2, UdpAssumption
      <4> QED
        BY <1>1, <2>1, <4>1, PileNumbers DEF Patient
    <3> QED
      BY <1>1, <3>1, <3>2
  <2>3. Chains(c)' = Own(c)' + Coming(c)' + (IF mRequestTimer[c] THEN 1 ELSE 0)
                     + (IF mConnectTimer[c] THEN mSocket[c] + 1 ELSE 0)
    BY <1>1 DEF Chains, Own, Coming
  <2>4. Chains(c)' <= 1 + timeouts'[c] + duplicates'
    BY <1>1, <1>3, <1>4, <2>1, <2>3, PileNumbers
  <2> QED
    BY <1>3, <2>2, <2>4 DEF Waited
<1> QED
  BY <1>5, <1>6

LEMMA TimerErrorTimeoutPile ==
  ASSUME PileInv, NEW s \in Clients, TimerErrorTimeout(s), NEW c \in Clients
  PROVE  Waited(c)'
<1>1. /\ UNCHANGED <<requests, duplicates, mErrorNumber, mRequestTimer, timeouts>>
      /\ mErrorTimer[s] /\ mErrorTimer' = [mErrorTimer EXCEPT ![s] = FALSE]
      /\ mSocket' = [mSocket EXCEPT ![s] = @ + 1]
      /\ mConnectTimer' = [mConnectTimer EXCEPT ![s] = TRUE]
      /\ answers' = [d \in {a \in BagToSet(answers) : a.to # s} |-> answers[d]]
  BY DEF TimerErrorTimeout, server, images, history
<1>2. /\ mErrorTimer \in [Clients -> BOOLEAN] /\ mConnectTimer \in [Clients -> BOOLEAN]
      /\ mSocket \in [Clients -> 0..MaxFaults]
  BY DEF PileInv, UdpInv, UdpTypeOK
<1>3. /\ \A d : d \in DOMAIN answers' <=> d \in DOMAIN answers /\ d.to # s
      /\ \A d \in DOMAIN answers' : answers'[d] = answers[d]
  BY <1>1 DEF BagToSet
<1>4. CASE c # s
  <2>1. ComingTo(c, answers') = ComingTo(c, answers)
    BY <1>3, <1>4, ComingSame
  <2>2. /\ mErrorTimer'[c] = mErrorTimer[c] /\ mSocket'[c] = mSocket[c]
        /\ mConnectTimer'[c] = mConnectTimer[c]
    BY <1>1, <1>2, <1>4
  <2>3. Own(c)' = Own(c)
    BY <1>1, <2>2 DEF Own
  <2> QED
    BY <1>1, <2>1, <2>2, <2>3, WaitedAlone
<1>5. CASE c = s
  <2>1. mErrorTimer'[c] = FALSE /\ mSocket'[c] = mSocket[c] + 1 /\ mConnectTimer'[c] = TRUE
    BY <1>1, <1>2, <1>5
  <2>2. ComingTo(c, answers') = {}
    <3>1. \A d, k : <<d, k>> \notin ComingTo(c, answers')
      BY <1>3, <1>5, ComingMembers
    <3> QED
      BY <3>1, ComingMembers
  <2>3. Coming(c)' = 0 /\ IsFiniteSet(ComingTo(c, answers'))
    BY <2>2, FS_EmptySet DEF Coming
  <2>4. Own(c)' = 0
    <3> DEFINE own == [from |-> c, socket |-> mSocket[c] + 1]
    <3>1. own.from = c /\ own.socket = mSocket[c] + 1
      OBVIOUS
    <3>2. own \notin BagToSet(requests)
      BY <3>1, PileNumbers DEF PileInv
    <3> QED
      BY <1>1, <2>1, <3>2 DEF Own, CopiesOf, BagIn
  <2>5. Patient(c)'
    BY <1>1, <1>5, <2>1, PileNumbers DEF Patient
  <2>6. Chains(c)' = (IF mRequestTimer[c] THEN 1 ELSE 0) + (mSocket[c] + 2)
    <3>1. Chains(c)' = Own(c)' + Coming(c)' + (IF mRequestTimer'[c] THEN 1 ELSE 0)
                       + (IF mConnectTimer'[c] THEN mSocket'[c] + 1 ELSE 0)
      BY DEF Chains, Own, Coming
    <3> QED
      BY <1>1, <2>1, <2>3, <2>4, <3>1, PileNumbers
  <2>7. 2 * (mSocket[c] + 1) <= timeouts[c]
    BY <1>1, <1>5, PileNumbers DEF Patient
  <2>8. Chains(c)' <= 1 + timeouts'[c] + duplicates'
    BY <1>1, <2>6, <2>7, PileNumbers
  <2> QED
    BY <2>3, <2>5, <2>8 DEF Waited
<1> QED
  BY <1>4, <1>5

\* The requests on their way were asked to sockets the clients have had.
LEMMA SocketsKept ==
  ASSUME PileInv, UdpNext
  PROVE  \A r \in BagToSet(requests') : r.socket <= mSocket'[r.from]
<1>1. /\ \A r \in BagToSet(requests) : r.socket <= mSocket[r.from]
      /\ BagToSet(requests) \subseteq [from : Clients, socket : 0..MaxFaults]
      /\ mSocket \in [Clients -> 0..MaxFaults] /\ IsABag(requests)
  BY DEF PileInv, UdpInv, UdpTypeOK
<1>2. CASE mSocket' = mSocket /\ BagToSet(requests') \subseteq BagToSet(requests)
  BY <1>1, <1>2
<1>3. ASSUME NEW s \in Clients, NEW n \in Nat \ {0}, SendRequest(s, n), mSocket' = mSocket
      PROVE  \A r \in BagToSet(requests') : r.socket <= mSocket'[r.from]
  <2>1. BagToSet(requests') = BagToSet(requests) \cup {[from |-> s, socket |-> mSocket[s]]}
    BY <1>3, SentFacts DEF PileInv, UdpInv
  <2>2. mSocket[s] <= mSocket[s]
    BY <1>1
  <2> QED
    BY <1>1, <1>3, <2>1, <2>2
<1>4. ASSUME NEW request \in BagToSet(requests), ServerReads(request)
      PROVE  mSocket' = mSocket /\ BagToSet(requests') \subseteq BagToSet(requests)
  <2>1. mSocket' = mSocket /\ requests' = requests (-) SetToBag({request})
    BY <1>4 DEF ServerReads
  <2> QED
    BY <1>1, <1>4, <2>1, BagRemove DEF BagToSet
<1>5. ASSUME Lose
      PROVE  mSocket' = mSocket /\ BagToSet(requests') \subseteq BagToSet(requests)
  BY <1>1, <1>5, BagRemove DEF Lose, BagToSet
<1>6. ASSUME Duplicate
      PROVE  mSocket' = mSocket /\ BagToSet(requests') \subseteq BagToSet(requests)
  <2>1. mSocket' = mSocket
    BY <1>6 DEF Duplicate
  <2>2. CASE requests' = requests
    BY <2>1, <2>2
  <2>3. ASSUME NEW r \in DOMAIN requests, requests' = requests (+) SetToBag({r})
        PROVE  BagToSet(requests') \subseteq BagToSet(requests)
    <3>1. DOMAIN requests' = DOMAIN requests \cup {r}
      BY <1>1, <2>3, BagAddOne
    <3> QED
      BY <3>1 DEF BagToSet
  <2> QED
    BY <1>6, <2>1, <2>2, <2>3 DEF Duplicate, BagToSet
<1>7. ASSUME NEW s \in Clients, TimerErrorTimeout(s)
      PROVE  \A r \in BagToSet(requests') : r.socket <= mSocket'[r.from]
  <2>1. requests' = requests /\ mSocket' = [mSocket EXCEPT ![s] = @ + 1]
    BY <1>7 DEF TimerErrorTimeout
  <2>2. \A e \in Clients : mSocket[e] \in Nat /\ mSocket'[e] \in Nat /\ mSocket[e] <= mSocket'[e]
    BY <1>1, <2>1
  <2>3. \A r \in BagToSet(requests) : r.from \in Clients /\ r.socket \in Nat
    BY <1>1
  <2> QED
    BY <1>1, <2>1, <2>2, <2>3
<1>8. ASSUME NEW s \in Clients,
             TimerRequestTimeout(s) \/ TimerTimeout(s) \/ TimerConnectTimeout(s)
      PROVE  \A r \in BagToSet(requests') : r.socket <= mSocket'[r.from]
  <2>1. /\ mSocket' = mSocket
        /\ SendRequest(s, 1) \/ SendRequest(s, mSocket[s] + 1) \/ requests' = requests
    BY <1>8 DEF TimerRequestTimeout, TimerTimeout, TimerConnectTimeout
  <2>2. 1 \in Nat \ {0} /\ mSocket[s] + 1 \in Nat \ {0}
    BY <1>1
  <2> QED
    BY <1>1, <1>3, <2>1, <2>2
<1>9. CASE \/ \E camera \in Cameras : PushBack(camera)
           \/ RestartServer
           \/ \E d \in BagToSet(answers) : ClientReads(d.to, d.answer)
  <2>1. mSocket' = mSocket /\ requests' = requests
    BY <1>9 DEF PushBack, RestartServer, ClientReads, network
  <2> QED
    BY <1>1, <2>1
<1> QED
  BY <1>2, <1>4, <1>5, <1>6, <1>7, <1>8, <1>9 DEF UdpNext

LEMMA PileStep ==
  ASSUME PileInv, [UdpNext]_udpVars
  PROVE  PileInv'
<1>1. UdpInv'
  BY UdpStep DEF PileInv
<1>2. CASE UNCHANGED udpVars
  <2>1. UNCHANGED <<requests, answers, duplicates, mSocket, mErrorTimer, mErrorNumber>>
        /\ UNCHANGED <<mRequestTimer, mConnectTimer, timeouts>>
    BY <1>2 DEF udpVars, network, timers, history
  <2> QED
    BY <1>1, <2>1, QuietPile DEF PileInv
<1>3. CASE UdpNext
  <2>1. SUFFICES ASSUME NEW c \in Clients PROVE Waited(c)'
    BY <1>1, <1>3, SocketsKept DEF PileInv
  <2>2. CASE (\E camera \in Cameras : PushBack(camera)) \/ RestartServer
    <3>1. UNCHANGED <<requests, answers, duplicates, mSocket, mErrorTimer, mErrorNumber>>
          /\ UNCHANGED <<mRequestTimer, mConnectTimer, timeouts>>
      BY <2>2 DEF PushBack, RestartServer, network, timers, history
    <3> QED
      BY <3>1, QuietPile
  <2> QED
    BY <1>3, <2>2, ServerReadsPile, LosePile, DuplicatePile, ClientReadsPile,
       TimerRequestTimeoutPile, TimerTimeoutPile, TimerErrorTimeoutPile,
       TimerConnectTimeoutPile DEF UdpNext
<1> QED
  BY <1>2, <1>3

LEMMA PileStart ==
  ASSUME UdpInit
  PROVE  PileInv
<1>1. DOMAIN EmptyBag = {}
  BY DEF EmptyBag, SetToBag
<1>2. \A r \in BagToSet(requests) : r.socket <= mSocket[r.from]
  BY <1>1 DEF UdpInit, BagToSet
<1>3. ASSUME NEW c \in Clients PROVE Waited(c)
  <2>1. Patient(c)
    BY DEF UdpInit, Patient
  <2>2. ComingTo(c, answers) = {}
    <3>1. \A d, k : <<d, k>> \notin ComingTo(c, answers)
      BY <1>1, ComingMembers DEF UdpInit
    <3> QED
      BY <3>1, ComingMembers
  <2>3. Chains(c) = 0 + 0 + 0 + 1
    BY <1>1, <2>2, FS_EmptySet DEF UdpInit, Chains, CopiesOf, BagIn, BagToSet
  <2> QED
    BY <2>1, <2>2, <2>3, FS_EmptySet DEF UdpInit, Waited
<1> QED
  BY <1>2, <1>3, UdpStart DEF PileInv

\* The requests and answers of a connection do not pile up, though a restart of the
\* connection sends one request for each time the socket was opened.
THEOREM NoPileOfRequests == UdpSpec => []RequestsDoNotPileUp
<1>1. PileInv => RequestsDoNotPileUp
  BY DEF PileInv, Waited, RequestsDoNotPileUp
<1> QED
  BY <1>1, PileStart, PileStep, PTL DEF UdpSpec
=============================================================================
