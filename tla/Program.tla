------------------------------ MODULE Program ------------------------------
(***************************************************************************)
(* The program from its configuration on (main): the capture of the local  *)
(* inputs (CVideoCapture), the clients of the network inputs (CClient),    *)
(* the algorithms, the camera threads and the event loop, together with    *)
(* the viewers of the MJPEG server (MjpegClient).                          *)
(*                                                                         *)
(* Everything after the configuration finds its input by the number of a   *)
(* buffer: captures, buffers, threads, algorithms and viewers.  That number*)
(* is only right because local inputs come first in mInputList             *)
(* (Configuration) and because each part takes the next number in turn.    *)
(* Buffer b of the code is b + 1 here.                                     *)
(***************************************************************************)
EXTENDS MjpegClient

CONSTANTS
  Inputs,     \* mInputList: a sequence of "CAMERA", "FILE" and "URL"
  NLocal,     \* its local inputs
  MaxFrames   \* bound: frames of one input

\* One Input section: its network inputs follow the local ones. (With a second section
\* local inputs may follow network inputs: see the README.)
ASSUME InputsAssumption ==
  /\ Inputs \in Seq({"CAMERA", "FILE", "URL"})
  /\ NLocal \in 0..Len(Inputs)
  /\ \A k \in 1..Len(Inputs) : k <= NLocal <=> Inputs[k] # "URL"
  /\ MaxFrames \in Nat

VARIABLES
  pc,          \* of main: the part of the start-up it is in
  entry,       \* the entry of mInputList it looks at
  buffers,     \* CImageBuffer: the entry each buffer was made for, and its newest frame
  captures,    \* mInputCaptures: the entry read once it is open, else 0
  workers,     \* the network clients: entry and buffer
  algorithms,  \* the entry whose coefficients the algorithms of each buffer use
  threads,     \* camera threads started
  exists       \* the files that can be opened

main == <<pc, entry, workers, algorithms, threads>>
vars == <<main, buffers, captures, exists, mjpeg>>

Entry == 1..Len(Inputs)
Frame == [from : Entry \cup {0}, id : 0..MaxFrames]
NoFrame == [from |-> 0, id |-> 0]
NewBuffer(k) == [info |-> k, last |-> NoFrame]

\* resizeBuffersToSize and setBufferInfo: buffers are only ever added.
Resized(size, k) ==
  IF size > Len(buffers) THEN Append(buffers, NewBuffer(k))
                         ELSE [buffers EXCEPT ![size].info = k]

\* push_back of the next frame of entry k.
PushBack(b, k) ==
  /\ buffers[b].last.id < MaxFrames
  /\ buffers' = [buffers EXCEPT ![b].last = [from |-> k, id |-> @.id + 1]]

-----------------------------------------------------------------------------
(* The constructor of CVideoCapture. *)

\* Mutant of AddCapture: the size is not counted up for a file.
AddCaptureUncounted ==
  /\ pc = "capture" /\ entry <= Len(Inputs) /\ Inputs[entry] # "URL"
  /\ \/ Inputs[entry] = "CAMERA" /\ captures' \in {Append(captures, entry), Append(captures, 0)}
     \/ Inputs[entry] = "FILE" /\ captures' = Append(captures, 0)
  /\ buffers' = Resized(Cardinality({k \in 1..entry-1 : Inputs[k] = "CAMERA"}) + 1, entry)
  /\ entry' = entry + 1
  /\ UNCHANGED <<pc, workers, algorithms, threads, exists, mjpeg>>

\* A local input: a camera is opened if it can be, a file not yet.
AddCapture ==
  /\ pc = "capture" /\ entry <= Len(Inputs) /\ Inputs[entry] # "URL"
  /\ \/ Inputs[entry] = "CAMERA" /\ captures' \in {Append(captures, entry), Append(captures, 0)}
     \/ Inputs[entry] = "FILE" /\ captures' = Append(captures, 0)
  /\ buffers' = Resized(Len(captures) + 1, entry)
  /\ entry' = entry + 1
  /\ UNCHANGED <<pc, workers, algorithms, threads, exists, mjpeg>>

\* A network input: nothing is done yet.
SkipCapture ==
  /\ pc = "capture" /\ entry <= Len(Inputs) /\ Inputs[entry] = "URL"
  /\ entry' = entry + 1
  /\ UNCHANGED <<pc, workers, algorithms, threads, buffers, captures, exists, mjpeg>>

\* The servers and the database, which are served from the event loop on.
StartServers ==
  /\ pc = "capture" /\ entry > Len(Inputs)
  /\ pc' = "clients" /\ entry' = 1
  /\ UNCHANGED <<workers, algorithms, threads, buffers, captures, exists, mjpeg>>

\* addClientToList: a client with the next buffer.
AddClient ==
  /\ pc = "clients" /\ entry <= Len(Inputs)
  /\ entry' = entry + 1
  /\ \/ /\ Inputs[entry] = "URL"
        /\ buffers' = Resized(Len(buffers) + 1, entry)
        /\ workers' = Append(workers, [entry |-> entry, buffer |-> Len(buffers) + 1])
     \/ Inputs[entry] # "URL" /\ UNCHANGED <<buffers, workers>>
  /\ UNCHANGED <<pc, algorithms, threads, captures, exists, mjpeg>>

\* addAlgorithm: one set of algorithms for each buffer, with the coefficients of the
\* entry of the same number.
AddAlgorithm ==
  /\ pc = "clients" /\ entry > Len(Inputs)
  /\ Len(algorithms) < Len(buffers)
  /\ algorithms' = Append(algorithms, Len(algorithms) + 1)
  /\ UNCHANGED <<pc, entry, workers, threads, buffers, captures, exists, mjpeg>>

StartThreads ==
  /\ pc = "clients" /\ entry > Len(Inputs)
  /\ Len(algorithms) = Len(buffers)
  /\ threads' = Len(captures)
  /\ pc' = "loop"
  /\ UNCHANGED <<entry, workers, algorithms, buffers, captures, exists, mjpeg>>

-----------------------------------------------------------------------------
(* processNextFrame in the thread of capture b. *)

\* Mutant of OpenFile: only an open file is opened again, as it is for a camera.
OpenFileTwice(b) ==
  /\ captures[b] # 0
  /\ b <= Len(Inputs) /\ Inputs[b] = "FILE" /\ b \in exists
  /\ captures' = [captures EXCEPT ![b] = b]

\* open: a file is tried before every frame until it opens. (A camera that is closed
\* stays closed: the condition asks whether it is open already.)
OpenFile(b) ==
  /\ captures[b] = 0
  /\ b <= Len(Inputs) /\ Inputs[b] = "FILE" /\ b \in exists
  /\ captures' = [captures EXCEPT ![b] = b]

\* A frame is read and pushed. A file opened for it gives its first frame at once, and a
\* file at its end or a camera that is gone gives an empty image, which changes nothing.
ProcessNextFrame(b) ==
  /\ b <= threads
  /\ \/ OpenFile(b)
     \/ captures[b] # 0 /\ UNCHANGED captures
  /\ PushBack(b, captures'[b])
  /\ UNCHANGED <<main, exists, mjpeg>>

\* A client pushes an image it received (NetReceiver).
PushFromNet(k) ==
  /\ pc = "loop"
  /\ PushBack(workers[k].buffer, workers[k].entry)
  /\ UNCHANGED <<main, captures, exists, mjpeg>>

\* The environment: a file appears or goes away.
FileChanges(b) ==
  /\ exists' \in {exists \cup {b}, exists \ {b}}
  /\ exists' # exists
  /\ UNCHANGED <<main, buffers, captures, mjpeg>>

-----------------------------------------------------------------------------
LastOf == [b \in 1..Len(buffers) |-> buffers[b].last]

Timeout(v) == TimerTimeout(v, LastOf) /\ UNCHANGED <<main, buffers, captures, exists>>

Viewer(v) ==
  /\ pc = "loop"
  /\ \/ NewConnection(v)
     \/ \E chunk \in Chunks : ReadClient(v, chunk, Len(buffers))
     \/ Disconnected(v)
  /\ UNCHANGED <<main, buffers, captures, exists>>

Init ==
  /\ pc = "capture" /\ entry = 1
  /\ buffers = <<>> /\ captures = <<>> /\ workers = <<>> /\ algorithms = <<>>
  /\ threads = 0
  /\ exists = {}
  /\ MjpegInit

StartUp ==
  AddCapture \/ SkipCapture \/ StartServers \/ AddClient \/ AddAlgorithm \/ StartThreads

Next ==
  \/ StartUp
  \/ \E b \in 1..Len(captures) : ProcessNextFrame(b)
  \/ \E k \in 1..Len(workers) : PushFromNet(k)
  \/ \E b \in {k \in Entry : Inputs[k] = "FILE"} : FileChanges(b)
  \/ \E v \in Viewers : Timeout(v) \/ Viewer(v)

\* main and the camera threads go on, and a timer that runs expires.
Spec ==
  /\ Init /\ [][Next]_vars
  /\ WF_vars(StartUp)
  /\ \A b \in Entry : WF_vars(b <= Len(captures) /\ ProcessNextFrame(b))
  /\ \A v \in Viewers : WF_vars(Timeout(v))

-----------------------------------------------------------------------------
TypeOK ==
  /\ pc \in {"capture", "clients", "loop"}
  /\ entry \in 1..Len(Inputs) + 1
  /\ buffers \in Seq([info : Entry, last : Frame])
  /\ captures \in Seq(Entry \cup {0})
  /\ workers \in Seq([entry : Entry, buffer : Nat])
  /\ algorithms \in Seq(Nat)
  /\ threads \in 0..Len(Inputs)
  /\ exists \subseteq Entry
  /\ socket \in [Viewers -> {"none", "open", "closing"}]
  /\ timer \in [Viewers -> BOOLEAN]

-----------------------------------------------------------------------------
(* Properties. *)

\* The number of a buffer is the number of its input for everyone: what it is called,
\* what is pushed into it, whose coefficients its algorithms use and which entry a
\* thread reads.
BuffersMatchInputs ==
  /\ TypeOK
  /\ Len(buffers) <= Len(Inputs)
  /\ \A b \in 1..Len(buffers) : buffers[b].info = b /\ buffers[b].last.from \in {0, b}
  /\ \A b \in 1..Len(captures) : captures[b] \in {0, b}
  /\ \A b \in 1..Len(algorithms) : algorithms[b] = b /\ b <= Len(buffers)

\* A viewer sees frames of the input it asked for last, not of the one before.
FramesOfRequest ==
  \A v \in Viewers :
    written[v].kind = "frame" /\ asked[v] # NotAsked =>
      /\ written[v].frame.from = asked[v].buffer
      /\ asked[v].good

\* On one connection a frame follows a header or a frame, a frame is never older than
\* one before it for the same request, and nothing follows what is followed by close().
StreamWellFormed ==
  [][\A v \in Viewers : written'[v] # written[v] /\ socket'[v] # "none" =>
       /\ written[v].kind \notin Closing
       /\ written'[v].kind = "frame" =>
            /\ written[v].kind \in {"header", "frame"}
            /\ written[v].kind = "frame" => written'[v].frame.id > written[v].frame.id]_vars

\* A file that is there from some time on is read, whenever that is.
FilesGetRead ==
  \A b \in {k \in Entry : Inputs[k] = "FILE"} :
    <>[](b \in exists) => <>(b <= Len(buffers) /\ buffers[b].last.id > 0)

\* A viewer whose request was accepted gets the newest frame of its buffer, as long as
\* neither side closes and it asks for nothing else.
ViewerFollows ==
  \A v \in Viewers, b \in Entry :
    (/\ socket[v] = "open" /\ written[v].kind \in {"header", "frame"}
     /\ mBufferId[v] = b /\ buffers[b].last.id > 0)
    ~> (\/ socket[v] # "open" \/ mBufferId[v] # b
        \/ written[v].kind = "frame" /\ written[v].frame = buffers[b].last)
=============================================================================
