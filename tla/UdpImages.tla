----------------------------- MODULE UdpImages ------------------------------
(***************************************************************************)
(* Images and texts over UDP: one server (CUDPServer with one              *)
(* CImageSenderWorker) and clients (CUDPClient with CImageReceiverWorker)  *)
(* on a network that loses, duplicates and reorders datagrams.             *)
(*                                                                         *)
(* The server has one worker for all clients: the sender of a datagram is  *)
(* put into mQueue when it is read, and taken out when its answer is       *)
(* written.  A client asks for the newest image of one camera, waits for   *)
(* the answer or a timeout, and asks again.  Of the timers of a client     *)
(* only their order is kept here (mTimer with mIncreaseErrorCountTimer is  *)
(* one timeout): NetReceiver has them all.                                 *)
(***************************************************************************)
EXTENDS Integers, Sequences, FiniteSets, Bags

CONSTANTS
  Clients,
  Wants,                  \* of a client: the camera, or "text"
  Cameras,                \* the buffers of the server, the first is 0
  MaxNetworkErrorNumber,  \* sMaxNetworkErrorNumber
  MaxId,                  \* bound: identifiers of images
  MaxFaults               \* bound: timeouts, duplicated datagrams and restarts of the server

ASSUME UdpAssumption ==
  /\ IsFiniteSet(Cameras) /\ Cameras \subseteq Nat /\ 0 \in Cameras
  /\ \A c \in Clients : Wants[c] \in Nat \cup {-1}
  /\ MaxNetworkErrorNumber \in Nat \ {0, 1}
  /\ {MaxId, MaxFaults} \subseteq Nat

Null == -1       \* no image; mLastId of a client without one
Text == -1       \* Wants of a client of the text buffer

VARIABLES
  newest,                     \* the identifier of the last image of a camera
  mQueue,                     \* the senders the server still has to answer
  requests, answers,          \* bags of datagrams under way
  serverRestarts, duplicates,
  mSocket,                    \* how often the socket of a client was reopened
  mLastIds,                   \* mLastId of each client
  frames,                     \* the last two images of a client's buffer
  mTimer, mRequestTimer, mErrorTimer, mConnectTimer,   \* running or not
  mErrorNumber,
  timeouts,                   \* history: timeouts of a client
  faults                      \* history: all timeouts, duplicates and restarts of the server

server == <<newest, mQueue, serverRestarts>>
history == <<timeouts, faults>>
network == <<requests, answers, duplicates>>
images == <<mLastIds, frames>>
timers == <<mTimer, mRequestTimer, mErrorTimer, mConnectTimer, mErrorNumber>>
udpVars == <<server, network, mSocket, images, timers, history>>

Fault == faults < MaxFaults /\ faults' = faults + 1
Last2(s) == IF Len(s) > 2 THEN SubSeq(s, Len(s) - 1, Len(s)) ELSE s

-----------------------------------------------------------------------------
(* The server. *)

\* processNextFrame of a camera of the server.
PushBack(camera) ==
  /\ newest[camera] < MaxId
  /\ newest' = [newest EXCEPT ![camera] = @ + 1]
  /\ UNCHANGED <<mQueue, serverRestarts, network, mSocket, images, timers, history>>

\* The program of the server is started again: its identifiers start again.
RestartServer ==
  /\ Fault
  /\ serverRestarts' = serverRestarts + 1
  /\ newest' = [camera \in Cameras |-> Null]
  /\ mQueue' = <<>>
  /\ UNCHANGED <<network, mSocket, images, timers, timeouts>>

\* save with a buffer number: the lock and the image are asked for even if only a text is.
Save(camera, code) ==
  IF newest[camera] = Null THEN [code |-> "nullptr", camera |-> camera, id |-> Null]
  ELSE [code |-> code, camera |-> camera, id |-> IF code = "image" THEN newest[camera] ELSE Null]

\* receiveCallBack: what is answered to a client.
AnswerTo(want) ==
  IF want = Text THEN Save(0, "text")
  ELSE IF want \in Cameras THEN Save(want, "image")
  ELSE Save(0, "outOfRange")

\* afterRead.
Appended(sender) == Append(mQueue, sender)

\* Mutant of Taken: the sender stays in the queue.
TakenFirst(queue) == [sender |-> Head(queue), rest |-> queue]

\* sendImplementation: the first of the queue gets the answer.
Taken(queue) == [sender |-> Head(queue), rest |-> Tail(queue)]

\* readyRead of the server: read, answer and write are one event.  An image that is too
\* large for a datagram is not written, and the client is not told.
ServerReads(request) ==
  /\ BagIn(request, requests)
  /\ requests' = requests (-) SetToBag({request})
  /\ LET taken == Taken(Appended(request))
         answer == AnswerTo(Wants[request.from])
         datagram == [to |-> taken.sender.from, answer |-> answer]
         arrives == taken.sender.socket = mSocket[taken.sender.from]
     IN  /\ mQueue' = taken.rest
         /\ \/ arrives /\ answers' = answers (+) SetToBag({datagram})
            \/ (~arrives \/ answer.code = "image") /\ UNCHANGED answers
  /\ UNCHANGED <<newest, serverRestarts, duplicates, mSocket, images, timers, history>>

-----------------------------------------------------------------------------
(* The network. *)

Lose ==
  /\ \/ \E request \in BagToSet(requests) :
          requests' = requests (-) SetToBag({request}) /\ UNCHANGED answers
     \/ \E datagram \in BagToSet(answers) :
          answers' = answers (-) SetToBag({datagram}) /\ UNCHANGED requests
  /\ UNCHANGED <<server, duplicates, mSocket, images, timers, history>>

Duplicate ==
  /\ Fault
  /\ duplicates' = duplicates + 1
  /\ \/ \E request \in BagToSet(requests) :
          requests' = requests (+) SetToBag({request}) /\ UNCHANGED answers
     \/ \E datagram \in BagToSet(answers) :
          answers' = answers (+) SetToBag({datagram}) /\ UNCHANGED requests
  /\ UNCHANGED <<server, mSocket, images, timers, timeouts>>

-----------------------------------------------------------------------------
(* A client. *)

\* sendImageRequest, n times.
SendRequest(c, n) ==
  /\ requests' = requests (+) [r \in {[from |-> c, socket |-> mSocket[c]]} |-> n]
  /\ mTimer' = [mTimer EXCEPT ![c] = TRUE]

\* Mutant of Loads: the image of the last answer is taken again.
LoadsAny(last, answer) == answer.code = "image"

\* CDeSerializer::load: the image of the last answer is refused.
Loads(last, answer) == answer.code = "image" /\ answer.id # last

\* start connects readyRead again each time the socket is reopened, so an answer is handed
\* to the worker once for each; what follows the first comes out of mBuffer.
Copies(c, answer) ==
  Cardinality({k \in 0..mSocket[c] : Loads(IF k = 0 THEN mLastIds[c] ELSE answer.id, answer)})

\* readyRead and receiveCallBack.
ClientReads(c, answer) ==
  /\ BagIn([to |-> c, answer |-> answer], answers)
  /\ answers' = answers (-) SetToBag({[to |-> c, answer |-> answer]})
  /\ frames' = [frames EXCEPT ![c] = Last2(@ \o [k \in 1..Copies(c, answer) |-> answer.id])]
  /\ mLastIds' = [mLastIds EXCEPT ![c] = IF answer.code = "image" THEN answer.id ELSE @]
  /\ mErrorNumber' = [mErrorNumber EXCEPT ![c] = 0]
  /\ mTimer' = [mTimer EXCEPT ![c] = TRUE]
  /\ mRequestTimer' = [mRequestTimer EXCEPT ![c] = TRUE]
  /\ UNCHANGED <<server, requests, duplicates, mSocket, mErrorTimer, mConnectTimer, history>>

\* Mutant of TimerRequestTimeout: mRequestTimer, which repeats, is not stopped.
TimerRequestRepeats(c) ==
  /\ mRequestTimer[c]
  /\ SendRequest(c, 1)
  /\ UNCHANGED <<server, answers, duplicates, mSocket, images, mRequestTimer, mErrorTimer,
                 mConnectTimer, mErrorNumber, history>>

TimerRequestTimeout(c) ==
  /\ mRequestTimer[c]
  /\ mRequestTimer' = [mRequestTimer EXCEPT ![c] = FALSE]
  /\ SendRequest(c, 1)
  /\ UNCHANGED <<server, answers, duplicates, mSocket, images, mErrorTimer, mConnectTimer,
                 mErrorNumber, history>>

\* timerTimeout and increaseErrorCount.
TimerTimeout(c) ==
  /\ mTimer[c]
  /\ Fault
  /\ timeouts' = [timeouts EXCEPT ![c] = @ + 1]
  /\ \/ /\ mErrorNumber[c] + 1 < MaxNetworkErrorNumber
        /\ mErrorNumber' = [mErrorNumber EXCEPT ![c] = @ + 1]
        /\ SendRequest(c, 1)
        /\ UNCHANGED mErrorTimer
     \/ /\ mErrorNumber[c] + 1 >= MaxNetworkErrorNumber
        /\ mErrorNumber' = [mErrorNumber EXCEPT ![c] = 0]
        /\ mErrorTimer' = [mErrorTimer EXCEPT ![c] = TRUE]
        /\ UNCHANGED <<requests, mTimer>>
  /\ UNCHANGED <<server, answers, duplicates, mSocket, images, mRequestTimer, mConnectTimer>>

\* timerErorTimeout: close and start; what is under way to the old socket is lost.
TimerErrorTimeout(c) ==
  /\ mErrorTimer[c]
  /\ mErrorTimer' = [mErrorTimer EXCEPT ![c] = FALSE]
  /\ mSocket' = [mSocket EXCEPT ![c] = @ + 1]
  /\ mConnectTimer' = [mConnectTimer EXCEPT ![c] = TRUE]
  /\ answers' = [d \in {a \in BagToSet(answers) : a.to # c} |-> answers[d]]
  /\ UNCHANGED <<server, requests, duplicates, images, mTimer, mRequestTimer, mErrorNumber,
                 history>>

\* timerConnectTimeout, connected once for each start: a UDP socket is always ready.
TimerConnectTimeout(c) ==
  /\ mConnectTimer[c]
  /\ mConnectTimer' = [mConnectTimer EXCEPT ![c] = FALSE]
  /\ SendRequest(c, mSocket[c] + 1)
  /\ UNCHANGED <<server, answers, duplicates, mSocket, images, mRequestTimer, mErrorTimer,
                 mErrorNumber, history>>

-----------------------------------------------------------------------------
UdpInit ==
  /\ newest = [camera \in Cameras |-> Null]
  /\ mQueue = <<>>
  /\ requests = EmptyBag /\ answers = EmptyBag
  /\ serverRestarts = 0 /\ duplicates = 0
  /\ mSocket = [c \in Clients |-> 0]
  /\ mLastIds = [c \in Clients |-> Null]
  /\ frames = [c \in Clients |-> <<>>]
  /\ mTimer = [c \in Clients |-> FALSE]
  /\ mRequestTimer = [c \in Clients |-> FALSE]
  /\ mErrorTimer = [c \in Clients |-> FALSE]
  /\ mConnectTimer = [c \in Clients |-> TRUE]
  /\ mErrorNumber = [c \in Clients |-> 0]
  /\ timeouts = [c \in Clients |-> 0] /\ faults = 0

UdpNext ==
  \/ \E camera \in Cameras : PushBack(camera)
  \/ RestartServer
  \/ \E request \in BagToSet(requests) : ServerReads(request)
  \/ Lose \/ Duplicate
  \/ \E datagram \in BagToSet(answers) : ClientReads(datagram.to, datagram.answer)
  \/ \E c \in Clients : \/ TimerRequestTimeout(c) \/ TimerTimeout(c)
                        \/ TimerErrorTimeout(c) \/ TimerConnectTimeout(c)

UdpSpec == UdpInit /\ [][UdpNext]_udpVars

-----------------------------------------------------------------------------
(* Properties. *)

Ids == 0..MaxId

UdpTypeOK ==
  /\ newest \in [Cameras -> Ids \cup {Null}]
  /\ mQueue = <<>>
  /\ IsABag(requests) /\ BagToSet(requests) \subseteq [from : Clients, socket : 0..MaxFaults]
  /\ IsABag(answers) /\ \A d \in BagToSet(answers) : d.to \in Clients
  /\ serverRestarts \in 0..faults /\ duplicates \in 0..faults
  /\ timeouts \in [Clients -> 0..faults] /\ faults \in 0..MaxFaults
  /\ mSocket \in [Clients -> 0..MaxFaults]
  /\ mLastIds \in [Clients -> Ids \cup {Null}]
  /\ frames \in [Clients -> Seq(Ids)] /\ \A c \in Clients : Len(frames[c]) <= 2
  /\ {mTimer, mRequestTimer, mErrorTimer, mConnectTimer} \subseteq [Clients -> BOOLEAN]
  /\ mErrorNumber \in [Clients -> 0..(MaxNetworkErrorNumber - 1)]

\* A client only gets what it asked for, though all clients share one worker and one queue:
\* an image of its own camera, the texts, or an error.
AnswersMatch ==
  /\ UdpTypeOK
  /\ \A d \in BagToSet(answers) :
       /\ d.answer.code = "image" => d.answer.camera = Wants[d.to]
       /\ d.answer.code = "text" => Wants[d.to] = Text

\* No image is pushed twice in a row into a client's buffer, whatever the network
\* duplicates and however often an answer is handed over after restarts.  A client that
\* asks for one image at a time gets them in order from a network that reorders, as long
\* as it had no timeout and the server was not restarted.
NoFrameTwice ==
  \A c \in Clients : Len(frames[c]) = 2 =>
    /\ frames[c][1] # frames[c][2]
    /\ timeouts[c] = 0 /\ duplicates = 0 /\ serverRestarts = 0 => frames[c][1] < frames[c][2]

\* How often a datagram is in a bag, and the copies in a bag of the answers to a client.
CopiesOf(datagram, bag) == IF BagIn(datagram, bag) THEN bag[datagram] ELSE 0
ComingTo(c, bag) == UNION {{d} \X (1..bag[d]) : d \in {a \in BagToSet(bag) : a.to = c}}

\* What keeps a client asking.
Chains(c) ==
  CopiesOf([from |-> c, socket |-> mSocket[c]], requests) + Cardinality(ComingTo(c, answers))
  + (IF mRequestTimer[c] THEN 1 ELSE 0) + (IF mConnectTimer[c] THEN mSocket[c] + 1 ELSE 0)

\* The requests and answers of a connection do not pile up: there is the first one, and one
\* more for each timeout or duplicate, even though every restart of the connection sends
\* one request for each time the socket was opened.
RequestsDoNotPileUp == \A c \in Clients : Chains(c) <= 1 + timeouts[c] + duplicates
=============================================================================
