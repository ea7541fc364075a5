---------------------------- MODULE MjpegClient ----------------------------
(***************************************************************************)
(* The connections of the MJPEG server (CImageServerMJPEG and              *)
(* CClientConnectionMJPEG): a viewer sends requests, a timer writes the    *)
(* newest frame of the buffer asked for.  The buffers are those of the     *)
(* program (Program), which extends this module.                           *)
(*                                                                         *)
(* Everything runs in the event loop; a request may arrive in any number   *)
(* of chunks, and a chunk may hold several requests or the rest of one.    *)
(* A chunk is what its GET lines say; buffer b of the code is b + 1 here.  *)
(***************************************************************************)
EXTENDS Integers, Sequences, FiniteSets

CONSTANTS
  Viewers,         \* connections at a time
  Chunks,          \* sequences of the GET lines that arrive together
  IsLoginNeeded,   \* mUserName and mPassword are configured
  MaxConnections,  \* bound: connections over time
  MaxChunks        \* bound: chunks of one connection

\* A GET line: the page of all buffers, or a buffer and an image type; a path without a
\* number means the first buffer, one without a type the full image (good).
GetLine == [all : BOOLEAN, login : BOOLEAN, buffer : Nat \ {0}, good : BOOLEAN]

ASSUME ViewersAssumption ==
  /\ Chunks \subseteq Seq(GetLine)
  /\ IsLoginNeeded \in BOOLEAN
  /\ MaxConnections \in Nat /\ MaxChunks \in Nat

VARIABLES
  socket,      \* of every viewer: none, open, or closing (closed here)
  chunks,      \* read from the connection
  mIsLoginValid, mBufferId, isTypeGood,   \* fields of the connection (mImageType < MAX_VALUE)
  timer,       \* mTimerNextImage runs
  written,     \* history: what was written last
  asked,       \* history: the last GET line of the connection
  connections  \* made so far

fields == <<mIsLoginValid, mBufferId, isTypeGood>>
mjpeg == <<socket, chunks, fields, timer, written, asked, connections>>

NotAsked == [all |-> FALSE, login |-> FALSE, buffer |-> 0, good |-> FALSE]
Nothing == [kind |-> "nothing"]
Closing == {"status", "page", "error"}   \* what is followed by close()

-----------------------------------------------------------------------------
\* newConnectionSlot. The constructor does not initialise the fields of the request,
\* which are read when the first chunk holds no GET line.
NewConnection(v) ==
  /\ socket[v] = "none" /\ connections < MaxConnections
  /\ connections' = connections + 1
  /\ socket' = [socket EXCEPT ![v] = "open"]
  /\ \E login, good \in BOOLEAN, b \in 1..2 :
       /\ mIsLoginValid' = [mIsLoginValid EXCEPT ![v] = login]
       /\ mBufferId' = [mBufferId EXCEPT ![v] = b]
       /\ isTypeGood' = [isTypeGood EXCEPT ![v] = good]
  /\ UNCHANGED <<chunks, timer, written, asked>>

\* Mutant of Parsed: a path without a number keeps the buffer asked for before.
ParsedKeeping(v, chunk) ==
  IF chunk = <<>> THEN UNCHANGED <<fields, asked>>
  ELSE LET get == chunk[Len(chunk)]
       IN  /\ mIsLoginValid' = [mIsLoginValid EXCEPT ![v] = ~IsLoginNeeded \/ get.login]
           /\ mBufferId' = [mBufferId EXCEPT ![v] = IF get.buffer = 1 THEN @ ELSE get.buffer]
           /\ isTypeGood' = [isTypeGood EXCEPT ![v] = get.good]
           /\ asked' = [asked EXCEPT ![v] = get]

\* The lines of a chunk are parsed in turn: the last GET line decides.
Parsed(v, chunk) ==
  IF chunk = <<>> THEN UNCHANGED <<fields, asked>>
  ELSE LET get == chunk[Len(chunk)]
       IN  /\ mIsLoginValid' = [mIsLoginValid EXCEPT ![v] = ~IsLoginNeeded \/ get.login]
           /\ mBufferId' = [mBufferId EXCEPT ![v] = get.buffer]
           /\ isTypeGood' = [isTypeGood EXCEPT ![v] = get.good]
           /\ asked' = [asked EXCEPT ![v] = get]

\* What slotReadClient writes: a viewer that is not logged in gets a status, and as the
\* socket is closed by then nothing that the handler goes on to write.
Reply(v, chunk, size) ==
  IF ~mIsLoginValid'[v] THEN "status"
  ELSE IF \E k \in 1..Len(chunk) : chunk[k].all THEN "page"
  ELSE IF mBufferId'[v] <= size /\ isTypeGood'[v] THEN "header" ELSE "error"

\* Whether it starts the timer, also after the status.
Starts(v, chunk, size) ==
  /\ \A k \in 1..Len(chunk) : ~chunk[k].all
  /\ mBufferId'[v] <= size /\ isTypeGood'[v]

\* Mutant of ReadClient: the page is given without closing the connection.
ReadClientOn(v, chunk, size) ==
  /\ socket[v] = "open" /\ chunks[v] < MaxChunks
  /\ chunks' = [chunks EXCEPT ![v] = @ + 1]
  /\ Parsed(v, chunk)
  /\ LET reply == Reply(v, chunk, size)
     IN  /\ written' = [written EXCEPT ![v] = [kind |-> reply]]
         /\ socket' = [socket EXCEPT ![v] = IF reply \in Closing \ {"page"} THEN "closing" ELSE "open"]
  /\ timer' = [timer EXCEPT ![v] = @ \/ Starts(v, chunk, size)]
  /\ UNCHANGED connections

\* slotReadClient with as many buffers as size. A page is given if any GET line of the
\* chunk asks for it; a header is written again for each chunk.
ReadClient(v, chunk, size) ==
  /\ socket[v] = "open" /\ chunks[v] < MaxChunks
  /\ chunks' = [chunks EXCEPT ![v] = @ + 1]
  /\ Parsed(v, chunk)
  /\ LET reply == Reply(v, chunk, size)
     IN  /\ written' = [written EXCEPT ![v] = [kind |-> reply]]
         /\ socket' = [socket EXCEPT ![v] = IF reply \in Closing THEN "closing" ELSE "open"]
  /\ timer' = [timer EXCEPT ![v] = @ \/ Starts(v, chunk, size)]
  /\ UNCHANGED connections

\* Mutant of TimerTimeout: the timer is a single shot.
TimerTimeoutOnce(v, lastOf) ==
  /\ timer[v] /\ socket[v] = "open"
  /\ mBufferId[v] \in DOMAIN lastOf /\ lastOf[mBufferId[v]].id > 0
  /\ written' = [written EXCEPT ![v] = [kind |-> "frame", frame |-> lastOf[mBufferId[v]]]]
  /\ timer' = [timer EXCEPT ![v] = FALSE]
  /\ UNCHANGED <<socket, chunks, fields, asked, connections>>

\* timerTimeout and writeImage: the newest frame (lastOf) of the buffer, unless the
\* socket is closed or the buffer is empty.
TimerTimeout(v, lastOf) ==
  /\ timer[v] /\ socket[v] = "open"
  /\ mBufferId[v] \in DOMAIN lastOf /\ lastOf[mBufferId[v]].id > 0
  /\ written' = [written EXCEPT ![v] = [kind |-> "frame", frame |-> lastOf[mBufferId[v]]]]
  /\ UNCHANGED <<socket, chunks, fields, timer, asked, connections>>

\* The viewer hangs up, or what was written before close() is sent: slotClose and
\* closingClient delete the connection with its timer.
Disconnected(v) ==
  /\ socket[v] # "none"
  /\ socket' = [socket EXCEPT ![v] = "none"]
  /\ chunks' = [chunks EXCEPT ![v] = 0]
  /\ mIsLoginValid' = [mIsLoginValid EXCEPT ![v] = FALSE]
  /\ mBufferId' = [mBufferId EXCEPT ![v] = 1]
  /\ isTypeGood' = [isTypeGood EXCEPT ![v] = FALSE]
  /\ timer' = [timer EXCEPT ![v] = FALSE]
  /\ written' = [written EXCEPT ![v] = Nothing]
  /\ asked' = [asked EXCEPT ![v] = NotAsked]
  /\ UNCHANGED connections

MjpegInit ==
  /\ socket = [v \in Viewers |-> "none"]
  /\ chunks = [v \in Viewers |-> 0]
  /\ mIsLoginValid = [v \in Viewers |-> FALSE]
  /\ mBufferId = [v \in Viewers |-> 1]
  /\ isTypeGood = [v \in Viewers |-> FALSE]
  /\ timer = [v \in Viewers |-> FALSE]
  /\ written = [v \in Viewers |-> Nothing]
  /\ asked = [v \in Viewers |-> NotAsked]
  /\ connections = 0

=============================================================================
