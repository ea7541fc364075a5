------------------------------- MODULE Framing -------------------------------
(***************************************************************************)
(* Messages on a TCP stream: insertBeginInfo puts a header (magic number   *)
(* and size) before a message, onReadFinished looks for it at the          *)
(* beginning of whatever readAll returns.                                  *)
(*                                                                         *)
(* TCP keeps the order but not the boundaries: a chunk is any part of the  *)
(* stream.  A chunk that does not begin with a magic number continues the  *)
(* message in mBuffer; mBuffer is not emptied by a delivery, nor by        *)
(* restart, which gives the object a new socket.                           *)
(*                                                                         *)
(* A message is cut into units: two for the magic number, one for the      *)
(* size, the others for the payload.  No payload contains a magic number.  *)
(* Messages are images with growing identifiers; the receiver skips one    *)
(* with the identifier of the last (CDeSerializer::load).                  *)
(***************************************************************************)
EXTENDS Integers, Sequences, SequencesExt

CONSTANTS
  Payload,        \* Payload[m]: units of message m, without its header
  MaxReconnects   \* bound: restarts of the connection

ASSUME PayloadAssumption ==
  /\ Payload \in Seq(Nat \ {0})
  /\ MaxReconnects \in Nat

VARIABLES
  stream,      \* units on their way
  mBuffer, mSize,
  sent,        \* messages sent
  delivery,    \* what the last read has handed to the worker
  mLastId,     \* identifier of the last image
  reconnects,
  alone,       \* history: nothing else has been on its way with the newest message
  intact,      \* history: its header came in one piece, at the beginning of a chunk
  count        \* history: deliveries since it was sent

vars == <<stream, mBuffer, mSize, sent, delivery, mLastId, reconnects, alone, intact, count>>

Messages == DOMAIN Payload
SizeOfBegin == 3
Nothing == <<>>

Body(m) == [i \in 1..Payload[m] |-> [msg |-> m, pos |-> SizeOfBegin + i]]

\* insertBeginInfo: the size in the header includes the header.
SizeField(m) == SizeOfBegin + Payload[m]
Framed(m) == [i \in 1..SizeOfBegin |-> [msg |-> m, pos |-> i]] \o Body(m)

-----------------------------------------------------------------------------
(* onReadFinished on a chunk. *)

HasMagic(chunk) == Len(chunk) >= 2 /\ chunk[1].pos = 1
ReadSize(chunk) == IF Len(chunk) >= SizeOfBegin THEN SizeField(chunk[1].msg) ELSE 0
AfterHeader(s) == SubSeq(s, SizeOfBegin + 1, Len(s))
FirstOf(s, n) == SubSeq(s, 1, IF n < Len(s) THEN n ELSE Len(s))

\* Mutant of BeginMessage: a message in one chunk is delivered without mBuffer.
BeginMessageDirect(chunk) ==
  /\ mSize' = ReadSize(chunk)
  /\ mBuffer' = IF mSize' > 0 /\ mSize' # Len(chunk) THEN AfterHeader(chunk) ELSE mBuffer
  /\ delivery' = IF mSize' = Len(chunk) THEN AfterHeader(chunk) ELSE Nothing

\* The chunk begins a message; a chunk that is longer than it is not delivered yet.
BeginMessage(chunk) ==
  /\ mSize' = ReadSize(chunk)
  /\ mBuffer' = IF mSize' > 0 THEN AfterHeader(chunk) ELSE mBuffer
  /\ delivery' = IF mSize' = Len(chunk) THEN mBuffer' ELSE Nothing

\* Mutant of Continue: the whole buffer is delivered.
ContinueAll(chunk) ==
  /\ mBuffer' = mBuffer \o chunk
  /\ delivery' = IF Len(mBuffer') >= mSize - SizeOfBegin THEN mBuffer' ELSE Nothing
  /\ UNCHANGED mSize

\* The chunk continues one (without a size there is nothing to continue, and what
\* the worker gets is empty); if mBuffer is too long, its first mSize units are taken,
\* which is SizeOfBegin more than the message has.
Continue(chunk) ==
  /\ mBuffer' = mBuffer \o chunk
  /\ delivery' = IF Len(mBuffer') = mSize - SizeOfBegin THEN mBuffer'
                 ELSE IF Len(mBuffer') > mSize - SizeOfBegin THEN FirstOf(mBuffer', mSize)
                 ELSE Nothing
  /\ UNCHANGED mSize

\* The message a delivery is read as.  A reader that checks no hash (mIsCheckHash)
\* ignores what follows the message; one that does accepts less.
ReadAs(s, m) == IsPrefix(Body(m), s)

\* The worker takes an image it has not just seen.
Load ==
  IF \E m \in Messages : ReadAs(delivery', m)
    THEN mLastId' = CHOOSE m \in Messages : ReadAs(delivery', m)
    ELSE UNCHANGED mLastId

-----------------------------------------------------------------------------
Send ==
  /\ sent < Len(Payload)
  /\ sent' = sent + 1
  /\ stream' = stream \o Framed(sent')
  /\ alone' = (stream = <<>>)
  /\ intact' = FALSE
  /\ count' = 0
  /\ delivery' = Nothing
  /\ UNCHANGED <<mBuffer, mSize, mLastId, reconnects>>

\* readyRead: everything that has arrived, a part of what was sent.
Receive ==
  \E k \in 1..Len(stream) :
    LET chunk == SubSeq(stream, 1, k)
    IN  /\ stream' = SubSeq(stream, k + 1, Len(stream))
        /\ IF HasMagic(chunk) THEN BeginMessage(chunk) ELSE Continue(chunk)
        /\ Load
        /\ intact' = (intact \/ (Len(chunk) >= SizeOfBegin /\ chunk[1] = [msg |-> sent, pos |-> 1]))
        /\ count' = IF delivery' = Nothing THEN count ELSE count + 1
        /\ UNCHANGED <<sent, reconnects, alone>>

\* restart: what was on its way is lost, mBuffer and mSize stay.
Reconnect ==
  /\ reconnects < MaxReconnects
  /\ reconnects' = reconnects + 1
  /\ stream' = <<>>
  /\ delivery' = Nothing
  /\ alone' = FALSE
  /\ UNCHANGED <<mBuffer, mSize, sent, mLastId, intact, count>>

Init ==
  /\ stream = <<>> /\ mBuffer = <<>> /\ mSize = 0
  /\ sent = 0 /\ delivery = Nothing /\ mLastId = 0 /\ reconnects = 0
  /\ alone = FALSE /\ intact = FALSE /\ count = 0

Next == Send \/ Receive \/ Reconnect

Spec == Init /\ [][Next]_vars

-----------------------------------------------------------------------------
Unit == [msg : Messages, pos : Nat \ {0}]

TypeOK ==
  /\ stream \in Seq(Unit) /\ mBuffer \in Seq(Unit) /\ delivery \in Seq(Unit)
  /\ mSize \in {0} \cup {SizeOfBegin + Payload[m] : m \in Messages}
  /\ sent \in 0..Len(Payload) /\ mLastId \in 0..Len(Payload)
  /\ reconnects \in 0..MaxReconnects
  /\ alone \in BOOLEAN /\ intact \in BOOLEAN /\ count \in Nat

-----------------------------------------------------------------------------
(* Properties. *)

\* However TCP cuts and joins the messages of a connection that is never restarted,
\* what the worker gets is a message from its beginning to its end, followed by no
\* more than a header.  A request or an answer that is alone on the stream is delivered
\* once, unless its header was cut: what is left in mBuffer of earlier messages, and of
\* an earlier connection, does no harm.
DeliveriesWhole ==
  /\ TypeOK
  /\ reconnects = 0 /\ delivery # Nothing =>
       \E m \in Messages : /\ IsPrefix(Body(m), delivery)
                           /\ Len(delivery) <= Payload[m] + SizeOfBegin
  /\ alone /\ intact => count = (IF stream = <<>> THEN 1 ELSE 0)

\* The receiver forgets all identifiers but the last, so it relies on this: what is
\* delivered again, after a restart too, is never older than the last image.
NeverBackwards == [][mLastId' >= mLastId]_vars
=============================================================================
