---------------------------- MODULE ProgramProofs ----------------------------
(***************************************************************************)
(* Proofs about Program for every list of inputs, every number of viewers, *)
(* every request and every number of frames, and about Configuration, from *)
(* which the program starts, for every document and command line.          *)
(***************************************************************************)
EXTENDS Program, Configuration, SequenceTheorems, WellFoundedInduction, TLAPS

\* The buffers made so far: one for each local input looked at, then one for each
\* network input.
Counted ==
  /\ pc = "capture" =>
       /\ Len(captures) = Len(buffers) /\ algorithms = <<>> /\ workers = <<>>
       /\ entry - 1 <= NLocal => Len(buffers) = entry - 1
       /\ entry - 1 > NLocal => Len(buffers) = NLocal
  /\ pc # "capture" =>
       /\ Len(captures) = NLocal
       /\ entry - 1 <= NLocal => Len(buffers) = NLocal
       /\ entry - 1 > NLocal => Len(buffers) = entry - 1
  /\ threads <= Len(captures)

BuffersNumbered ==
  \A b \in 1..Len(buffers) :
    /\ buffers[b].info = b
    /\ buffers[b].last.from \in {0, b}
    /\ buffers[b].last.id > 0 => buffers[b].last.from = b

\* Whoever pushes into a buffer has the entry of its number.
Numbered ==
  /\ BuffersNumbered
  /\ \A b \in 1..Len(captures) : captures[b] \in {0, b}
  /\ \A k \in 1..Len(workers) :
       workers[k].buffer = workers[k].entry /\ workers[k].buffer <= Len(buffers)
  /\ \A b \in 1..Len(algorithms) : algorithms[b] = b /\ b <= Len(buffers)

ViewersType ==
  /\ mBufferId \in [Viewers -> Nat \ {0}]
  /\ isTypeGood \in [Viewers -> BOOLEAN]
  /\ asked \in [Viewers -> GetLine \cup {NotAsked}]
  /\ written \in [Viewers -> [kind : {"nothing", "header"} \cup Closing]
                             \cup [kind : {"frame"}, frame : [from : Entry, id : 1..MaxFrames]]]

\* The buffer of a viewer exists and is what it asked for.
Accepted(v) == mBufferId[v] <= Len(buffers) /\ isTypeGood[v]

Served(v) ==
  /\ socket[v] = "none" => written[v] = Nothing /\ ~timer[v] /\ asked[v] = NotAsked
  /\ asked[v] # NotAsked => mBufferId[v] = asked[v].buffer /\ (isTypeGood[v] <=> asked[v].good)
  /\ written[v].kind \in Closing => socket[v] # "open"
  /\ socket[v] = "open" /\ timer[v] => Accepted(v) /\ written[v].kind \in {"header", "frame"}
  /\ written[v].kind = "frame" =>
       /\ Accepted(v)
       /\ written[v].frame.from = mBufferId[v]
       /\ written[v].frame.id <= buffers[mBufferId[v]].last.id

IInv == TypeOK /\ Counted /\ Numbered /\ ViewersType /\ \A v \in Viewers : Served(v)

Buffer == [info : Entry, last : Frame]

-----------------------------------------------------------------------------
USE DEF Entry

\* What the inputs of a step leave alone, and what follows from the type of buffers.
LEMMA BuffersType ==
  ASSUME TypeOK, NEW b \in 1..Len(buffers)
  PROVE  /\ buffers[b].info \in Entry
         /\ buffers[b].last.from \in Entry \cup {0}
         /\ buffers[b].last.id \in 0..MaxFrames
         /\ buffers[b].last.id \in Int
         /\ buffers[b] = [info |-> buffers[b].info, last |-> buffers[b].last]
         /\ buffers[b].last = [from |-> buffers[b].last.from, id |-> buffers[b].last.id]
<1>1. buffers[b] \in Buffer
  BY ElementOfSeq DEF TypeOK, Buffer
<1>2. buffers[b].last \in Frame
  BY <1>1 DEF Buffer
<1>3. buffers[b].last.id \in 0..MaxFrames
  BY <1>2 DEF Frame
<1> QED
  BY <1>1, <1>2, <1>3 DEF Buffer, Frame

\* No buffer goes away or back to an older frame.
Kept ==
  /\ buffers' \in Seq(Buffer) /\ Len(buffers') >= Len(buffers)
  /\ \A b \in 1..Len(buffers) : buffers'[b].last.id >= buffers[b].last.id

\* The next buffer is appended, and nothing else changes in the list.
LEMMA ResizedByOne ==
  ASSUME TypeOK, Numbered, NEW k \in Entry, k = Len(buffers) + 1, buffers' = Resized(k, k)
  PROVE  /\ buffers' \in Seq(Buffer)
         /\ Len(buffers') = k
         /\ Kept
         /\ BuffersNumbered'
<1>1. buffers' = Append(buffers, NewBuffer(k))
  BY DEF Resized, TypeOK
<1>2. NewBuffer(k) \in Buffer
  BY InputsAssumption DEF NewBuffer, NoFrame, Buffer, Frame
<1>3. buffers \in Seq(Buffer)
  BY DEF TypeOK, Buffer
<1> QED
  <2> DEFINE new == NewBuffer(k)
  <2> HIDE DEF new
  <2>1. buffers' = Append(buffers, new) /\ new \in Buffer
    BY <1>1, <1>2 DEF new
  <2>2. /\ buffers' \in Seq(Buffer)
        /\ Len(buffers') = Len(buffers) + 1
        /\ \A b \in 1..Len(buffers) : buffers'[b] = buffers[b]
        /\ buffers'[Len(buffers) + 1] = new
    BY <2>1, <1>3, AppendProperties
  <2>3. Len(buffers) \in Nat /\ 1..k = 1..Len(buffers) \cup {k}
    BY <1>3
  <2>4. BuffersNumbered'
    BY <2>2, <2>3 DEF new, NewBuffer, NoFrame, Numbered, BuffersNumbered
  <2>5. ASSUME NEW b \in 1..Len(buffers) PROVE buffers'[b].last.id >= buffers[b].last.id
    <3>1. buffers'[b] = buffers[b] /\ buffers[b].last.id \in Int
      BY <2>2, BuffersType
    <3> QED
      BY <3>1
  <2> QED
    BY <2>2, <2>3, <2>4, <2>5 DEF Kept

\* A push changes the newest frame of one buffer, and gives it the next number.
LEMMA PushBackKeeps ==
  ASSUME TypeOK, Numbered, NEW b \in 1..Len(buffers), b \in Entry, PushBack(b, b)
  PROVE  /\ buffers' \in Seq(Buffer)
         /\ Len(buffers') = Len(buffers)
         /\ Kept
         /\ BuffersNumbered'
<1> DEFINE next == [buffers[b] EXCEPT !.last = [from |-> b, id |-> buffers[b].last.id + 1]]
<1>1. buffers[b].last.id < MaxFrames /\ buffers' = [buffers EXCEPT ![b] = next]
  BY DEF PushBack
<1>2. next = [info |-> buffers[b].info, last |-> [from |-> b, id |-> buffers[b].last.id + 1]]
  <2>1. buffers[b] = [info |-> buffers[b].info, last |-> buffers[b].last]
    BY BuffersType
  <2> QED
    BY <2>1
<1>3. buffers[b].last.id + 1 \in 0..MaxFrames
  <2>1. buffers[b].last.id \in 0..MaxFrames /\ buffers[b].last.id < MaxFrames
    BY <1>1, BuffersType
  <2> QED
    BY <2>1, InputsAssumption
<1>4. next \in Buffer
  BY <1>2, <1>3, BuffersType DEF Buffer, Frame
<1>5. buffers \in Seq(Buffer)
  BY DEF TypeOK, Buffer
<1> HIDE DEF next
<1>6. /\ buffers' \in Seq(Buffer) /\ Len(buffers') = Len(buffers)
      /\ \A c \in 1..Len(buffers) : buffers'[c] = IF c = b THEN next ELSE buffers[c]
  BY <1>1, <1>4, <1>5, ExceptSeq
<1>7. next.info = buffers[b].info /\ next.last.from = b /\ next.last.id = buffers[b].last.id + 1
  BY <1>2 DEF next
<1>8. BuffersNumbered'
  BY <1>6, <1>7 DEF Numbered, BuffersNumbered
<1>9. ASSUME NEW c \in 1..Len(buffers) PROVE buffers'[c].last.id >= buffers[c].last.id
  <2>1. buffers[c].last.id \in Int
    BY BuffersType
  <2>2. CASE c = b
    BY <2>1, <2>2, <1>6, <1>7
  <2>3. CASE c # b
    BY <2>1, <2>3, <1>6
  <2> QED
    BY <2>2, <2>3
<1> QED
  BY <1>6, <1>8, <1>9 DEF Kept

-----------------------------------------------------------------------------
(***************************************************************************)
(* The invariant holds initially and is kept by every step.                *)
(***************************************************************************)
LEMMA IInvInit == Init => IInv
<1> SUFFICES ASSUME Init PROVE IInv
  OBVIOUS
<1>1. TypeOK /\ Counted /\ Numbered
  BY InputsAssumption DEF Init, MjpegInit, TypeOK, Counted, Numbered, BuffersNumbered
<1>2. ViewersType /\ \A v \in Viewers : Served(v)
  BY DEF Init, MjpegInit, ViewersType, Served, Nothing, NotAsked, Closing
<1> QED
  BY <1>1, <1>2 DEF IInv

\* What the viewers were given stays right while frames and buffers are only added.
LEMMA ServedKept ==
  ASSUME IInv, UNCHANGED mjpeg, Kept
  PROVE  ViewersType' /\ \A v \in Viewers : Served(v)'
<1>1. ViewersType'
  BY DEF IInv, ViewersType, mjpeg, fields
<1>2. ASSUME NEW v \in Viewers PROVE Served(v)'
  <2>1. mBufferId[v] \in Nat \ {0}
    BY DEF IInv, ViewersType
  <2>2. Accepted(v) => Accepted(v)' /\ mBufferId[v] \in 1..Len(buffers)
    <3>1. Len(buffers) \in Nat /\ Len(buffers') \in Nat /\ Len(buffers') >= Len(buffers)
      BY LenProperties DEF Kept, IInv, TypeOK
    <3> QED
      BY <2>1, <3>1 DEF Accepted, mjpeg, fields
  <2>3. written[v].kind = "frame" =>
          written[v].frame.id <= buffers'[mBufferId[v]].last.id
    <3> SUFFICES ASSUME written[v].kind = "frame"
                 PROVE  written[v].frame.id <= buffers'[mBufferId[v]].last.id
      OBVIOUS
    <3>1. /\ mBufferId[v] \in 1..Len(buffers)
          /\ written[v].frame.id <= buffers[mBufferId[v]].last.id
      BY <2>2 DEF IInv, Served
    <3>2. buffers[mBufferId[v]].last.id \in 0..MaxFrames
      BY <3>1, BuffersType DEF IInv
    <3>3. written[v].frame.id \in 1..MaxFrames
      BY DEF IInv, ViewersType, Closing
    <3>4. buffers'[mBufferId[v]] \in Buffer
      BY <3>1, ElementOfSeq DEF Kept
    <3>5. buffers'[mBufferId[v]].last.id \in 0..MaxFrames
      BY <3>4 DEF Buffer, Frame
    <3>6. buffers'[mBufferId[v]].last.id >= buffers[mBufferId[v]].last.id
      BY <3>1 DEF Kept
    <3> DEFINE old == buffers[mBufferId[v]].last.id
               new == buffers'[mBufferId[v]].last.id
               mine == written[v].frame.id
    <3>7. old \in Int /\ new \in Int /\ mine \in Int /\ mine <= old /\ new >= old
      BY <3>1, <3>2, <3>3, <3>5, <3>6, InputsAssumption
    <3> HIDE DEF old, new, mine
    <3>8. mine <= new
      BY <3>7
    <3> QED
      BY <3>8 DEF mine, new
  <2> QED
    BY <2>2, <2>3 DEF IInv, Served, mjpeg, fields
<1> QED
  BY <1>1, <1>2

LEMMA AddCaptureStep == IInv /\ AddCapture => IInv'
<1> SUFFICES ASSUME IInv, AddCapture PROVE IInv'
  OBVIOUS
<1>1. entry \in Entry /\ entry <= NLocal /\ NLocal \in Nat /\ Len(Inputs) \in Nat
  BY InputsAssumption DEF IInv, TypeOK, AddCapture
<1>2. Len(buffers) = entry - 1 /\ Len(captures) = entry - 1
  BY <1>1 DEF IInv, Counted, AddCapture
<1>3. buffers' = Resized(entry, entry) /\ entry = Len(buffers) + 1
  BY <1>1, <1>2 DEF AddCapture
<1>4. /\ buffers' \in Seq(Buffer) /\ Len(buffers') = entry
      /\ Kept /\ BuffersNumbered'
  BY <1>1, <1>3, ResizedByOne DEF IInv
<1>5. PICK c \in {0, entry} : captures' = Append(captures, c)
  BY DEF AddCapture
<1>6. /\ captures' \in Seq(Entry \cup {0}) /\ Len(captures') = entry
      /\ \A b \in 1..Len(captures) : captures'[b] = captures[b]
      /\ captures'[entry] = c
  BY <1>1, <1>2, <1>5, AppendProperties DEF IInv, TypeOK
<1>7. /\ pc = "capture" /\ UNCHANGED <<pc, workers, algorithms, threads, exists, mjpeg>>
      /\ entry' = entry + 1
  BY DEF AddCapture
<1>8. \A b \in 1..entry : b # entry => b \in 1..Len(captures)
  BY <1>1, <1>2
<1>9. TypeOK'
  BY <1>1, <1>4, <1>6, <1>7 DEF IInv, TypeOK, Buffer, mjpeg
<1>10. Counted'
  BY <1>1, <1>2, <1>4, <1>6, <1>7 DEF IInv, TypeOK, Counted
<1>11. Numbered'
  BY <1>4, <1>6, <1>7, <1>8 DEF IInv, Counted, Numbered
<1>12. ViewersType' /\ \A v \in Viewers : Served(v)'
  BY <1>4, <1>7, ServedKept
<1> QED
  BY <1>9, <1>10, <1>11, <1>12 DEF IInv

\* A step that leaves the buffers alone.
LEMMA KeptUnchanged ==
  ASSUME IInv, UNCHANGED buffers
  PROVE  Kept /\ BuffersNumbered' /\ Len(buffers') = Len(buffers)
<1>1. ASSUME NEW b \in 1..Len(buffers) PROVE buffers'[b].last.id >= buffers[b].last.id
  <2>1. buffers'[b] = buffers[b] /\ buffers[b].last.id \in Int
    BY BuffersType DEF IInv
  <2> QED
    BY <2>1
<1>2. Len(buffers') >= Len(buffers) /\ buffers' \in Seq(Buffer)
  BY LenProperties DEF IInv, TypeOK, Buffer
<1> QED
  BY <1>1, <1>2 DEF Kept, IInv, Numbered, BuffersNumbered

LEMMA AddClientStep == IInv /\ AddClient => IInv'
<1> SUFFICES ASSUME IInv, AddClient PROVE IInv'
  OBVIOUS
<1>1. /\ pc = "clients" /\ UNCHANGED <<pc, algorithms, threads, captures, exists, mjpeg>>
      /\ entry \in Entry /\ entry' = entry + 1 /\ NLocal \in Nat /\ Len(Inputs) \in Nat
  BY InputsAssumption DEF AddClient, IInv, TypeOK
<1>2. CASE Inputs[entry] = "URL"
  <2>1. entry > NLocal /\ Len(buffers) = entry - 1
    BY <1>1, <1>2, InputsAssumption DEF IInv, Counted
  <2>2. /\ buffers' = Resized(entry, entry) /\ entry = Len(buffers) + 1
        /\ workers' = Append(workers, [entry |-> entry, buffer |-> entry])
    BY <1>1, <1>2, <2>1 DEF AddClient
  <2>3. /\ buffers' \in Seq(Buffer) /\ Len(buffers') = entry
        /\ Kept /\ BuffersNumbered'
    BY <1>1, <2>2, ResizedByOne DEF IInv
  <2> DEFINE new == [entry |-> entry, buffer |-> entry]
  <2>4. new \in [entry : Entry, buffer : Nat] /\ new.entry = entry /\ new.buffer = entry
    BY <1>1
  <2>5. workers' = Append(workers, new)
    BY <2>2
  <2> HIDE DEF new
  <2>6. /\ workers' \in Seq([entry : Entry, buffer : Nat])
        /\ Len(workers') = Len(workers) + 1 /\ Len(workers) \in Nat
        /\ \A k \in 1..Len(workers) : workers'[k] = workers[k]
        /\ workers'[Len(workers) + 1] = new
    BY <2>4, <2>5, AppendProperties, LenProperties DEF IInv, TypeOK
  <2>7. ASSUME NEW k \in 1..Len(workers')
        PROVE  workers'[k].buffer = workers'[k].entry /\ workers'[k].buffer <= Len(buffers')
    <3>1. CASE k \in 1..Len(workers)
      <4>1. /\ workers'[k] = workers[k] /\ workers[k].buffer <= Len(buffers)
            /\ workers[k].buffer = workers[k].entry
        BY <2>6, <3>1 DEF IInv, Numbered
      <4>2. workers[k] \in [entry : Entry, buffer : Nat]
        BY <3>1, ElementOfSeq DEF IInv, TypeOK
      <4> QED
        BY <1>1, <2>1, <2>3, <4>1, <4>2
    <3>2. CASE k = Len(workers) + 1
      BY <1>1, <2>3, <2>4, <2>6, <3>2
    <3> QED
      BY <2>6, <3>1, <3>2
  <2>8. TypeOK'
    BY <1>1, <2>3, <2>6 DEF IInv, TypeOK, Buffer, mjpeg
  <2>9. Counted'
    BY <1>1, <2>1, <2>3 DEF IInv, Counted
  <2>10. Numbered'
    BY <1>1, <2>1, <2>3, <2>7 DEF IInv, TypeOK, Numbered
  <2> QED
    BY <1>1, <2>3, <2>8, <2>9, <2>10, ServedKept DEF IInv
<1>3. CASE Inputs[entry] # "URL"
  <2>1. UNCHANGED <<buffers, workers>> /\ entry <= NLocal
    BY <1>1, <1>3, InputsAssumption DEF AddClient
  <2>2. Kept /\ BuffersNumbered'
    BY <2>1, KeptUnchanged
  <2>3. TypeOK' /\ Counted'
    BY <1>1, <2>1 DEF IInv, TypeOK, Counted, mjpeg
  <2>4. Numbered'
    BY <1>1, <2>1, <2>2 DEF IInv, Numbered
  <2> QED
    BY <1>1, <2>2, <2>3, <2>4, ServedKept DEF IInv
<1> QED
  BY <1>2, <1>3

\* The other steps of the start-up.
LEMMA StartUpStep == IInv /\ StartUp => IInv'
<1> SUFFICES ASSUME IInv, StartUp PROVE IInv'
  OBVIOUS
<1>1. CASE AddCapture
  BY <1>1, AddCaptureStep
<1>2. CASE AddClient
  BY <1>2, AddClientStep
<1>3. CASE SkipCapture \/ StartServers \/ StartThreads
  <2>1. UNCHANGED <<workers, algorithms, buffers, captures, exists, mjpeg>>
    BY <1>3 DEF SkipCapture, StartServers, StartThreads
  <2>2. Kept /\ BuffersNumbered'
    BY <2>1, KeptUnchanged
  <2>3. ViewersType' /\ \A v \in Viewers : Served(v)'
    BY <2>1, <2>2, ServedKept
  <2>4. NLocal \in Nat /\ Len(Inputs) \in Nat /\ NLocal <= Len(Inputs) /\ entry \in Nat
    BY InputsAssumption DEF IInv, TypeOK
  <2>5. Len(buffers) \in Nat /\ Len(captures) \in Nat
    BY LenProperties DEF IInv, TypeOK
  <2>6. TypeOK' /\ Counted'
    <3>1. CASE SkipCapture
      <4>1. entry \in 1..Len(Inputs) /\ Inputs[entry] = "URL"
        BY <2>4, <3>1 DEF SkipCapture, IInv, TypeOK
      <4>2. ~(entry <= NLocal)
        BY <4>1, InputsAssumption
      <4>3. entry > NLocal
        BY <2>4, <4>2
      <4> QED
        BY <2>1, <2>4, <2>5, <3>1, <4>3 DEF SkipCapture, IInv, TypeOK, Counted, mjpeg
    <3>2. CASE StartServers
      <4>1. /\ pc = "capture" /\ pc' = "clients" /\ entry' = 1 /\ threads' = threads
            /\ entry > Len(Inputs)
        BY <3>2 DEF StartServers
      <4>2. Len(captures) = NLocal /\ Len(buffers) = NLocal
        <5>1. entry - 1 <= NLocal => entry - 1 = NLocal
          BY <2>4, <4>1
        <5> QED
          BY <2>4, <2>5, <4>1, <5>1 DEF IInv, Counted
      <4>3. Counted'
        BY <2>1, <2>4, <2>5, <4>1, <4>2 DEF IInv, Counted
      <4>4. TypeOK'
        BY <2>1, <2>4, <4>1 DEF IInv, TypeOK, mjpeg
      <4> QED
        BY <4>3, <4>4
    <3>3. CASE StartThreads
      <4>1. pc = "clients" /\ pc' = "loop" /\ entry' = entry /\ threads' = Len(captures)
        BY <3>3 DEF StartThreads
      <4>2. Len(captures) = NLocal
        BY <4>1 DEF IInv, Counted
      <4> QED
        BY <2>1, <2>4, <4>1, <4>2 DEF IInv, TypeOK, Counted, mjpeg
    <3> QED
      BY <1>3, <3>1, <3>2, <3>3
  <2>7. Numbered'
    BY <2>1, <2>2 DEF IInv, Numbered
  <2> QED
    BY <2>3, <2>6, <2>7 DEF IInv
<1>4. CASE AddAlgorithm
  <2>1. /\ UNCHANGED <<pc, entry, workers, threads, buffers, captures, exists, mjpeg>>
        /\ pc = "clients" /\ Len(algorithms) < Len(buffers)
        /\ algorithms' = Append(algorithms, Len(algorithms) + 1)
    BY <1>4 DEF AddAlgorithm
  <2>2. Kept /\ BuffersNumbered'
    BY <2>1, KeptUnchanged
  <2>3. ViewersType' /\ \A v \in Viewers : Served(v)'
    BY <2>1, <2>2, ServedKept
  <2>4. Len(algorithms) \in Nat /\ Len(buffers) \in Nat
    BY LenProperties DEF IInv, TypeOK
  <2>5. /\ algorithms' \in Seq(Nat) /\ Len(algorithms') = Len(algorithms) + 1
        /\ \A b \in 1..Len(algorithms) : algorithms'[b] = algorithms[b]
        /\ algorithms'[Len(algorithms) + 1] = Len(algorithms) + 1
    BY <2>1, <2>4, AppendProperties DEF IInv, TypeOK
  <2>6. TypeOK' /\ Counted'
    BY <2>1, <2>5 DEF IInv, TypeOK, Counted, mjpeg
  <2>7. Numbered'
    BY <2>1, <2>2, <2>4, <2>5 DEF IInv, Numbered
  <2> QED
    BY <2>3, <2>6, <2>7 DEF IInv
<1> QED
  BY <1>1, <1>2, <1>3, <1>4 DEF StartUp

\* A push of entry b into buffer b, by whoever does it.
LEMMA PushStep ==
  ASSUME IInv, NEW b \in 1..Len(buffers), PushBack(b, b), UNCHANGED <<main, exists, mjpeg>>,
         captures' \in Seq(Entry \cup {0}), Len(captures') = Len(captures),
         \A c \in 1..Len(captures) : captures'[c] \in {0, c}
  PROVE  IInv'
<1>1. b \in Entry
  <2>1. Len(buffers) \in Nat /\ entry \in Nat /\ NLocal \in Nat /\ Len(Inputs) \in Nat
        /\ NLocal <= Len(Inputs) /\ entry <= Len(Inputs) + 1
    BY LenProperties, InputsAssumption DEF IInv, TypeOK
  <2>2. Len(buffers) <= Len(Inputs)
    BY <2>1 DEF IInv, Counted
  <2> QED
    BY <2>1, <2>2
<1>2. /\ buffers' \in Seq(Buffer) /\ Len(buffers') = Len(buffers)
      /\ Kept /\ BuffersNumbered'
  BY <1>1, PushBackKeeps DEF IInv
<1>3. UNCHANGED <<pc, entry, workers, algorithms, threads, exists, mjpeg>>
  BY DEF main
<1>4. TypeOK' /\ Counted'
  BY <1>2, <1>3 DEF IInv, TypeOK, Buffer, Counted, mjpeg
<1>5. Numbered'
  BY <1>2, <1>3 DEF IInv, Numbered
<1> QED
  BY <1>2, <1>3, <1>4, <1>5, ServedKept DEF IInv

LEMMA ProcessNextFrameStep ==
  ASSUME IInv, NEW b \in 1..Len(captures), ProcessNextFrame(b)
  PROVE  IInv'
<1>1. /\ captures \in Seq(Entry \cup {0}) /\ b \in Nat /\ Len(captures) \in Nat
      /\ \A c \in 1..Len(captures) : captures[c] \in {0, c}
  BY LenProperties DEF IInv, TypeOK, Numbered
<1>2. /\ captures' \in Seq(Entry \cup {0}) /\ Len(captures') = Len(captures)
      /\ \A c \in 1..Len(captures) : captures'[c] \in {0, c}
      /\ captures'[b] = b
  <2>1. CASE OpenFile(b)
    <3>1. b \in Entry \cup {0} /\ captures' = [captures EXCEPT ![b] = b]
      BY <2>1, <1>1, LenProperties, InputsAssumption DEF OpenFile
    <3> QED
      BY <1>1, <3>1, ExceptSeq
  <2>2. CASE captures[b] # 0 /\ UNCHANGED captures
    BY <1>1, <2>2
  <2> QED
    BY <2>1, <2>2 DEF ProcessNextFrame
<1>3. b \in 1..Len(buffers)
  <2>1. Len(buffers) \in Nat /\ entry \in Nat /\ NLocal \in Nat
    BY LenProperties, InputsAssumption DEF IInv, TypeOK
  <2>2. Len(captures) <= Len(buffers)
    BY <1>1, <2>1 DEF IInv, Counted
  <2> QED
    BY <1>1, <2>1, <2>2
<1>4. PushBack(b, b) /\ UNCHANGED <<main, exists, mjpeg>>
  BY <1>2 DEF ProcessNextFrame
<1> QED
  BY <1>2, <1>3, <1>4, PushStep

LEMMA PushFromNetStep ==
  ASSUME IInv, NEW k \in 1..Len(workers), PushFromNet(k)
  PROVE  IInv'
<1>1. /\ workers[k] \in [entry : Entry, buffer : Nat] /\ Len(buffers) \in Nat
  BY ElementOfSeq, LenProperties DEF IInv, TypeOK
<1>2. workers[k].buffer = workers[k].entry /\ workers[k].buffer <= Len(buffers)
  BY DEF IInv, Numbered
<1>3. workers[k].entry \in 1..Len(buffers)
  BY <1>1, <1>2
<1>4. PushBack(workers[k].entry, workers[k].entry) /\ UNCHANGED <<main, captures, exists, mjpeg>>
  BY <1>2 DEF PushFromNet
<1>5. /\ captures \in Seq(Entry \cup {0})
      /\ \A c \in 1..Len(captures) : captures[c] \in {0, c}
  BY DEF IInv, TypeOK, Numbered
<1> QED
  BY <1>3, <1>4, <1>5, PushStep

\* Steps of the environment, and steps in which nothing happens.
LEMMA FileStep ==
  ASSUME IInv, exists' \subseteq Entry, UNCHANGED <<main, buffers, captures, mjpeg>>
  PROVE  IInv'
<1>1. Kept /\ BuffersNumbered' /\ Len(buffers') = Len(buffers)
  BY KeptUnchanged
<1>2. UNCHANGED <<pc, entry, workers, algorithms, threads>>
  BY DEF main
<1>3. TypeOK' /\ Counted'
  BY <1>2 DEF IInv, TypeOK, Counted, mjpeg
<1>4. Numbered'
  BY <1>1, <1>2 DEF IInv, Numbered
<1> QED
  BY <1>1, <1>3, <1>4, ServedKept DEF IInv

-----------------------------------------------------------------------------
(***************************************************************************)
(* The steps of one viewer.                                                *)
(***************************************************************************)
\* What a step of viewer v has to show: the rest of the invariant is not touched.
LEMMA ViewerStep ==
  ASSUME IInv, NEW v \in Viewers, UNCHANGED <<main, buffers, captures, exists>>,
         NEW s \in {"none", "open", "closing"}, socket' = [socket EXCEPT ![v] = s],
         NEW i \in Nat \ {0}, mBufferId' = [mBufferId EXCEPT ![v] = i],
         isTypeGood' \in [Viewers -> BOOLEAN],
         \A u \in Viewers : u # v => (isTypeGood'[u] <=> isTypeGood[u]),
         timer' \in [Viewers -> BOOLEAN],
         \A u \in Viewers : u # v => (timer'[u] <=> timer[u]),
         ViewersType', Served(v)',
         \A u \in Viewers : u # v => written'[u] = written[u] /\ asked'[u] = asked[u]
  PROVE  IInv'
<1>1. Kept /\ BuffersNumbered' /\ Len(buffers') = Len(buffers)
  BY KeptUnchanged
<1>2. UNCHANGED <<pc, entry, workers, algorithms, threads>>
  BY DEF main
<1>3. TypeOK' /\ Counted'
  <2>1. socket' \in [Viewers -> {"none", "open", "closing"}]
    BY DEF IInv, TypeOK
  <2> QED
    BY <1>2, <2>1 DEF IInv, TypeOK, Counted
<1>4. Numbered'
  BY <1>1, <1>2 DEF IInv, Numbered
<1>5. ASSUME NEW u \in Viewers, u # v PROVE Served(u)'
  <2>1. socket'[u] = socket[u] /\ mBufferId'[u] = mBufferId[u]
    BY <1>5 DEF IInv, TypeOK, ViewersType
  <2>2. /\ isTypeGood'[u] <=> isTypeGood[u]
        /\ timer'[u] <=> timer[u]
        /\ written'[u] = written[u] /\ asked'[u] = asked[u]
    BY <1>5
  <2>3. Served(u)
    BY DEF IInv
  <2> QED
    BY <2>1, <2>2, <2>3 DEF Served, Accepted
<1> QED
  BY <1>3, <1>4, <1>5 DEF IInv

LEMMA NewConnectionStep ==
  ASSUME IInv, NEW v \in Viewers, NewConnection(v), UNCHANGED <<main, buffers, captures, exists>>
  PROVE  IInv'
<1>1. PICK good \in BOOLEAN, b \in 1..2 :
        /\ mBufferId' = [mBufferId EXCEPT ![v] = b]
        /\ isTypeGood' = [isTypeGood EXCEPT ![v] = good]
  BY DEF NewConnection
<1>2. /\ socket[v] = "none" /\ socket' = [socket EXCEPT ![v] = "open"]
      /\ UNCHANGED <<timer, written, asked>>
  BY DEF NewConnection
<1>3. b \in Nat \ {0} /\ isTypeGood' \in [Viewers -> BOOLEAN]
      /\ \A u \in Viewers : u # v => (isTypeGood'[u] <=> isTypeGood[u])
  BY <1>1 DEF IInv, ViewersType
<1>4. ViewersType'
  BY <1>1, <1>2, <1>3 DEF IInv, ViewersType
<1>5. written[v] = Nothing /\ ~timer[v] /\ asked[v] = NotAsked
  BY <1>2 DEF IInv, Served
<1>6. Served(v)'
  <2>1. socket'[v] = "open"
    BY <1>2 DEF IInv, TypeOK
  <2>2. ~timer'[v] /\ asked'[v] = NotAsked /\ written'[v].kind = "nothing"
    BY <1>2, <1>5 DEF Nothing
  <2> QED
    BY <2>1, <2>2 DEF Served, Closing
<1> QED
  BY <1>1, <1>2, <1>3, <1>4, <1>6, ViewerStep DEF IInv, TypeOK

LEMMA DisconnectedStep ==
  ASSUME IInv, NEW v \in Viewers, Disconnected(v), UNCHANGED <<main, buffers, captures, exists>>
  PROVE  IInv'
<1>1. /\ socket' = [socket EXCEPT ![v] = "none"]
      /\ mBufferId' = [mBufferId EXCEPT ![v] = 1]
      /\ isTypeGood' = [isTypeGood EXCEPT ![v] = FALSE]
      /\ timer' = [timer EXCEPT ![v] = FALSE]
      /\ written' = [written EXCEPT ![v] = Nothing]
      /\ asked' = [asked EXCEPT ![v] = NotAsked]
  BY DEF Disconnected
<1>2. /\ isTypeGood' \in [Viewers -> BOOLEAN] /\ timer' \in [Viewers -> BOOLEAN]
      /\ \A u \in Viewers : u # v => (isTypeGood'[u] <=> isTypeGood[u])
      /\ \A u \in Viewers : u # v => (timer'[u] <=> timer[u])
  BY <1>1 DEF IInv, TypeOK, ViewersType
<1>3. ViewersType'
  BY <1>1 DEF IInv, ViewersType, Nothing
<1>4. Served(v)'
  <2>1. socket'[v] = "none" /\ written'[v] = Nothing /\ asked'[v] = NotAsked
    BY <1>1 DEF IInv, TypeOK, ViewersType
  <2>2. ~timer'[v]
    BY <1>1 DEF IInv, TypeOK
  <2> QED
    BY <2>1, <2>2 DEF Served, Nothing, Closing
<1>5. \A u \in Viewers : u # v => written'[u] = written[u] /\ asked'[u] = asked[u]
  BY <1>1 DEF IInv, ViewersType
<1>6. /\ socket' = [socket EXCEPT ![v] = "none"] /\ "none" \in {"none", "open", "closing"}
      /\ mBufferId' = [mBufferId EXCEPT ![v] = 1] /\ 1 \in Nat \ {0}
  BY <1>1
<1> QED
  BY <1>2, <1>3, <1>4, <1>5, <1>6, ViewerStep

LEMMA TimeoutStep ==
  ASSUME IInv, NEW v \in Viewers, Timeout(v)
  PROVE  IInv'
<1> DEFINE b == mBufferId[v]
<1>1. /\ timer[v] /\ socket[v] = "open" /\ b \in 1..Len(buffers) /\ buffers[b].last.id > 0
      /\ written' = [written EXCEPT ![v] = [kind |-> "frame", frame |-> buffers[b].last]]
      /\ UNCHANGED <<socket, mBufferId, isTypeGood, timer, asked>>
      /\ UNCHANGED <<main, buffers, captures, exists>>
  BY DEF Timeout, TimerTimeout, LastOf, fields
<1>2. /\ buffers[b].last.from = b /\ buffers[b].last.id \in 1..MaxFrames
      /\ buffers[b].last = [from |-> b, id |-> buffers[b].last.id] /\ b \in Entry
  <2>1. buffers[b].last.from = b
    BY <1>1 DEF IInv, Numbered, BuffersNumbered
  <2>2. buffers[b].last.id \in 0..MaxFrames /\ buffers[b].last.from \in Entry \cup {0}
    BY <1>1, BuffersType DEF IInv
  <2>3. buffers[b].last = [from |-> buffers[b].last.from, id |-> buffers[b].last.id]
    BY <1>1, BuffersType DEF IInv
  <2> QED
    BY <1>1, <2>1, <2>2, <2>3
<1> DEFINE f == buffers[b].last
<1>3. f \in [from : Entry, id : 1..MaxFrames] /\ f.from = b /\ f.id \in Int
  BY <1>2
<1>4. f = buffers[mBufferId[v]].last /\ b = mBufferId[v]
  OBVIOUS
<1>5. written' = [written EXCEPT ![v] = [kind |-> "frame", frame |-> f]]
  BY <1>1
<1> HIDE DEF f, b
<1>6. /\ written'[v].kind = "frame" /\ written'[v].frame = f
      /\ \A u \in Viewers : u # v => written'[u] = written[u]
  BY <1>5 DEF IInv, ViewersType
<1>7. ViewersType'
  BY <1>1, <1>3, <1>5 DEF IInv, ViewersType
<1>8. Served(v)'
  <2>1. Accepted(v)
    BY <1>1 DEF IInv, Served
  <2>2. asked[v] # NotAsked => mBufferId[v] = asked[v].buffer /\ (isTypeGood[v] <=> asked[v].good)
    BY DEF IInv, Served
  <2> QED
    BY <1>1, <1>3, <1>4, <1>6, <2>1, <2>2 DEF Served, Accepted, Closing
<1>9. /\ socket' = [socket EXCEPT ![v] = "open"]
      /\ mBufferId' = [mBufferId EXCEPT ![v] = mBufferId[v]]
      /\ mBufferId[v] \in Nat \ {0}
  BY <1>1 DEF IInv, TypeOK, ViewersType
<1> QED
  BY <1>1, <1>6, <1>7, <1>8, <1>9, ViewerStep DEF IInv, TypeOK, ViewersType

\* A chunk of a viewer: what is written and the timer follow the last GET line.
LEMMA ReadClientStep ==
  ASSUME IInv, NEW v \in Viewers, NEW chunk \in Chunks, ReadClient(v, chunk, Len(buffers)),
         UNCHANGED <<main, buffers, captures, exists>>
  PROVE  IInv'
<1> DEFINE reply == Reply(v, chunk, Len(buffers))
           s == IF reply \in Closing THEN "closing" ELSE "open"
           get == chunk[Len(chunk)]
<1>1. /\ socket[v] = "open" /\ Parsed(v, chunk)
      /\ written' = [written EXCEPT ![v] = [kind |-> reply]]
      /\ socket' = [socket EXCEPT ![v] = s]
      /\ timer' = [timer EXCEPT ![v] = timer[v] \/ Starts(v, chunk, Len(buffers))]
  BY DEF ReadClient
<1>2. chunk # <<>> => get \in GetLine
  BY ViewersAssumption, LenProperties, ElementOfSeq, EmptySeq
<1>3. get \in GetLine => get.good \in BOOLEAN /\ get.buffer \in Nat \ {0} /\ get # NotAsked
  BY DEF GetLine, NotAsked
<1>4. /\ mBufferId'[v] \in Nat \ {0}
      /\ mBufferId' = [mBufferId EXCEPT ![v] = mBufferId'[v]]
      /\ isTypeGood' \in [Viewers -> BOOLEAN]
      /\ \A u \in Viewers : u # v => (isTypeGood'[u] <=> isTypeGood[u])
      /\ asked' \in [Viewers -> GetLine \cup {NotAsked}]
      /\ \A u \in Viewers : u # v => asked'[u] = asked[u]
      /\ asked'[v] # NotAsked =>
           mBufferId'[v] = asked'[v].buffer /\ (isTypeGood'[v] <=> asked'[v].good)
  <2> HIDE DEF get
  <2>1. CASE chunk = <<>>
    <3>1. UNCHANGED <<mBufferId, isTypeGood, asked>>
      BY <1>1, <2>1 DEF Parsed, fields
    <3> QED
      BY <3>1 DEF IInv, ViewersType, Served
  <2>2. CASE chunk # <<>>
    <3>1. /\ mBufferId' = [mBufferId EXCEPT ![v] = get.buffer]
          /\ isTypeGood' = [isTypeGood EXCEPT ![v] = get.good]
          /\ asked' = [asked EXCEPT ![v] = get]
          /\ get \in GetLine
      BY <1>1, <1>2, <2>2 DEF Parsed, get
    <3>2. get.good \in BOOLEAN /\ get.buffer \in Nat \ {0}
      BY <1>3, <3>1
    <3> QED
      BY <3>1, <3>2 DEF IInv, ViewersType
  <2> QED
    BY <2>1, <2>2
<1>5. timer' \in [Viewers -> BOOLEAN] /\ \A u \in Viewers : u # v => (timer'[u] <=> timer[u])
  <2>1. (timer[v] \/ Starts(v, chunk, Len(buffers))) \in BOOLEAN
    OBVIOUS
  <2> QED
    BY <1>1, <2>1 DEF IInv, TypeOK
<1>6. reply \in {"header"} \cup Closing
  BY DEF Reply, Closing
<1>7. reply = "header" => mBufferId'[v] <= Len(buffers) /\ isTypeGood'[v]
  BY DEF Reply
<1> HIDE DEF reply, s, get
<1>8. /\ written'[v] = [kind |-> reply] /\ written'[v].kind = reply
      /\ \A u \in Viewers : u # v => written'[u] = written[u]
      /\ written' \in [Viewers -> [kind : {"nothing", "header"} \cup Closing]
                     \cup [kind : {"frame"}, frame : [from : Entry, id : 1..MaxFrames]]]
  <2>1. [kind |-> reply] \in [kind : {"nothing", "header"} \cup Closing]
    BY <1>6
  <2> QED
    BY <1>1, <2>1 DEF IInv, ViewersType
<1>9. ViewersType'
  <2>1. mBufferId' \in [Viewers -> Nat \ {0}]
    BY <1>4 DEF IInv, ViewersType
  <2> QED
    BY <1>4, <1>8, <2>1 DEF ViewersType
<1>10. s \in {"none", "open", "closing"} /\ s # "none" /\ socket'[v] = s
       /\ (reply \in Closing => s # "open")
  BY <1>1 DEF s, IInv, TypeOK
<1>11. Served(v)'
  <2>1. reply # "frame" /\ (reply \in Closing \/ reply = "header")
    BY <1>6 DEF Closing
  <2> QED
    BY <1>4, <1>7, <1>8, <1>10, <2>1 DEF Served, Accepted
<1>12. \A u \in Viewers : u # v => written'[u] = written[u] /\ asked'[u] = asked[u]
  BY <1>4, <1>8
<1>13. socket' = [socket EXCEPT ![v] = s]
  BY <1>1
<1> QED
  BY <1>4, <1>5, <1>9, <1>10, <1>11, <1>12, <1>13, ViewerStep

LEMMA IInvStep == IInv /\ [Next]_vars => IInv'
<1> SUFFICES ASSUME IInv, [Next]_vars PROVE IInv'
  OBVIOUS
<1>1. CASE StartUp
  BY <1>1, StartUpStep
<1>2. CASE \E b \in 1..Len(captures) : ProcessNextFrame(b)
  BY <1>2, ProcessNextFrameStep
<1>3. CASE \E k \in 1..Len(workers) : PushFromNet(k)
  BY <1>3, PushFromNetStep
<1>4. CASE \E b \in {k \in Entry : Inputs[k] = "FILE"} : FileChanges(b)
  <2>1. PICK b \in Entry : FileChanges(b)
    BY <1>4
  <2>2. exists' \subseteq Entry /\ UNCHANGED <<main, buffers, captures, mjpeg>>
    BY <2>1 DEF FileChanges, IInv, TypeOK
  <2> QED
    BY <2>2, FileStep
<1>5. CASE \E v \in Viewers : Timeout(v)
  BY <1>5, TimeoutStep
<1>6. CASE \E v \in Viewers : Viewer(v)
  <2>1. PICK v \in Viewers : Viewer(v)
    BY <1>6
  <2>2. UNCHANGED <<main, buffers, captures, exists>>
    BY <2>1 DEF Viewer
  <2> QED
    BY <2>1, <2>2, NewConnectionStep, ReadClientStep, DisconnectedStep DEF Viewer
<1>7. CASE UNCHANGED vars
  <2>1. exists' \subseteq Entry /\ UNCHANGED <<main, buffers, captures, mjpeg>>
    BY <1>7 DEF vars, IInv, TypeOK
  <2> QED
    BY <2>1, FileStep
<1> QED
  BY <1>1, <1>2, <1>3, <1>4, <1>5, <1>6, <1>7 DEF Next

-----------------------------------------------------------------------------
LEMMA ProgramInvariant == Spec => []IInv
<1>1. IInv /\ [Next]_vars => IInv'
  BY IInvStep
<1> QED
  BY <1>1, IInvInit, PTL DEF Spec

(***************************************************************************)
(* The number of a buffer is the number of its input for captures, clients,*)
(* threads and algorithms (CVideoCapture, CClient.addClientToList,         *)
(* addAlgorithm), whatever the inputs and whichever cameras open.          *)
(***************************************************************************)
THEOREM BuffersMatch == Spec => []BuffersMatchInputs
<1>1. IInv => BuffersMatchInputs
  <2> SUFFICES ASSUME IInv PROVE BuffersMatchInputs
    OBVIOUS
  <2>1. Len(buffers) \in Nat /\ entry \in Nat /\ NLocal \in Nat /\ Len(Inputs) \in Nat
        /\ NLocal <= Len(Inputs) /\ entry <= Len(Inputs) + 1
    BY LenProperties, InputsAssumption DEF IInv, TypeOK
  <2>2. Len(buffers) <= Len(Inputs)
    BY <2>1 DEF IInv, Counted
  <2> QED
    BY <2>2 DEF IInv, Numbered, BuffersNumbered, BuffersMatchInputs
<1> QED
  BY <1>1, ProgramInvariant, PTL

(***************************************************************************)
(* A viewer of the MJPEG server sees frames of the input its last GET line *)
(* asked for (CClientConnectionMJPEG.slotReadClient, writeImage).          *)
(***************************************************************************)
THEOREM FramesRequested == Spec => []FramesOfRequest
<1>1. IInv => FramesOfRequest
  BY DEF IInv, Served, Accepted, FramesOfRequest
<1> QED
  BY <1>1, ProgramInvariant, PTL

(***************************************************************************)
(* What a viewer reads is a header, then frames that only get newer, and   *)
(* nothing after what ends the connection.                                 *)
(***************************************************************************)
THEOREM StreamsWellFormed == Spec => StreamWellFormed
<1> DEFINE WellFormed ==
      \A v \in Viewers : written'[v] # written[v] /\ socket'[v] # "none" =>
        /\ written[v].kind \notin Closing
        /\ written'[v].kind = "frame" =>
             /\ written[v].kind \in {"header", "frame"}
             /\ written[v].kind = "frame" => written'[v].frame.id > written[v].frame.id
<1>1. IInv /\ [Next]_vars => [WellFormed]_vars
  <2> SUFFICES ASSUME IInv, Next,
                      NEW v \in Viewers, written'[v] # written[v], socket'[v] # "none"
               PROVE  /\ written[v].kind \notin Closing
                      /\ written'[v].kind = "frame" =>
                           /\ written[v].kind \in {"header", "frame"}
                           /\ written[v].kind = "frame" =>
                                written'[v].frame.id > written[v].frame.id
    OBVIOUS
  <2>1. ~UNCHANGED mjpeg
    BY DEF mjpeg
  <2>2. PICK u \in Viewers : Timeout(u) \/ Viewer(u)
    BY <2>1 DEF Next, StartUp, AddCapture, SkipCapture, StartServers, AddClient, AddAlgorithm,
       StartThreads, ProcessNextFrame, PushFromNet, FileChanges
  <2>3. u = v
    BY <2>2 DEF Timeout, TimerTimeout, Viewer, NewConnection, ReadClient, Disconnected, IInv,
       ViewersType
  <2>4. CASE Timeout(v)
    <3> DEFINE b == mBufferId[v]
               f == buffers[b].last
    <3>1. /\ timer[v] /\ socket[v] = "open" /\ b \in 1..Len(buffers)
          /\ written' = [written EXCEPT ![v] = [kind |-> "frame", frame |-> f]]
      BY <2>4 DEF Timeout, TimerTimeout, LastOf
    <3>2. written[v].kind \notin Closing /\ written[v].kind \in {"header", "frame"}
      BY <3>1 DEF IInv, Served, Closing
    <3>3. written'[v] = [kind |-> "frame", frame |-> f]
      BY <3>1 DEF IInv, ViewersType
    <3>4. f = [from |-> f.from, id |-> f.id] /\ f.id \in Int
      BY <3>1, BuffersType DEF IInv
    <3>5. ASSUME written[v].kind = "frame" PROVE f.id > written[v].frame.id
      <4> DEFINE g == written[v].frame
      <4>1. written[v] \in [kind : {"frame"}, frame : [from : Entry, id : 1..MaxFrames]]
        BY <3>5 DEF IInv, ViewersType, Closing
      <4>2. /\ written[v] = [kind |-> "frame", frame |-> g]
            /\ g = [from |-> g.from, id |-> g.id] /\ g.id \in Int
        BY <4>1
      <4>3. g.from = b /\ g.id <= f.id
        BY <3>5 DEF IInv, Served
      <4>4. f.from = b
        <5>1. g.id >= 1
          BY <4>1
        <5>2. f.id > 0
          BY <3>4, <4>2, <4>3, <5>1
        <5> QED
          BY <3>1, <5>2 DEF IInv, Numbered, BuffersNumbered
      <4>5. f # g
        BY <3>3, <4>2
      <4>6. f.id # g.id
        BY <3>4, <4>2, <4>3, <4>4, <4>5
      <4> QED
        BY <3>4, <4>2, <4>3, <4>6
    <3> QED
      BY <3>2, <3>3, <3>5
  <2>5. CASE Viewer(v)
    <3>1. PICK chunk \in Chunks : ReadClient(v, chunk, Len(buffers))
      BY <2>5 DEF Viewer, NewConnection, Disconnected, IInv, TypeOK
    <3>2. socket[v] = "open"
      BY <3>1 DEF ReadClient
    <3>3. written'[v].kind # "frame"
      <4>1. written'[v] = [kind |-> Reply(v, chunk, Len(buffers))]
        BY <3>1 DEF ReadClient, IInv, ViewersType
      <4> QED
        BY <4>1 DEF Reply
    <3> QED
      BY <3>2, <3>3 DEF IInv, Served
  <2> QED
    BY <2>2, <2>3, <2>4, <2>5
<1> QED
  BY <1>1, ProgramInvariant, PTL DEF Spec, StreamWellFormed

-----------------------------------------------------------------------------
(* The configuration. *)

\* What a start tag becomes in the history, and an element that is read now.
Tags == [name : {d.name : d \in Elements}, has : {d.has : d \in Elements},
         count : Nat, at : Nat, section : Nat]

Tag(element) == [name |-> element.name, has |-> element.has, count |-> element.count,
                 at |-> Len(document) + 1, section |-> section]

\* A field of the right kind is kept for every name.
FieldsOf(c) ==
  /\ c = [f \in Fields |-> c[f]]
  /\ \A n \in Notifiers : c[n] = [own |-> c[n].own, alert |-> c[n].alert, list |-> c[n].list]

Shaped ==
  /\ FieldsOf(config)
  /\ algoConfig = [m \in Movers |-> algoConfig[m]]
  /\ \A m \in Movers : algoConfig[m] = [common |-> algoConfig[m].common,
                                         HistoryLength |-> algoConfig[m].HistoryLength]

\* Sections follow one another, and the section that is open reaches to the end.
Sectioned ==
  /\ document \in Seq(Tags)
  /\ \A i \in 1..Len(document) : document[i].section \in 0..(i - 1)
  /\ \A i \in 1..Len(document) : section # 0 /\ i > section => document[i].section # 0

\* The base of the alerts, which does not change inside a section.
BaseHolds ==
  /\ baseAlertConfig = ValueAt(LatestOf(Top("BaseAlert")), "alert")
  /\ section # 0 => \A j \in Top("BaseAlert") : j < section

\* The fields that only the latest element of a name decides.
LatestCounts ==
  /\ \A n \in Notifiers : /\ config[n].own = ValueAt(LatestOf(Read(n)), "own")
                          /\ config[n].alert = AlertOf(n)
  /\ \A m \in Movers : algoConfig[m] = MoverOf(m)
  /\ \A n \in Plain : config[n] = ValueAt(LatestOf(Top(n)), "own")

\* Nothing is applied before the document is read.
Applied == outcome = "start" => args = {}

ReaderInv ==
  /\ ReaderTypeOK /\ Shaped /\ Sectioned /\ BaseHolds /\ Applied /\ SilentWhenAsked
  /\ outcome \in {"start", "reading"} => LatestCounts

\* A set of positions has a latest one.
LEMMA LatestIn ==
  ASSUME NEW k \in Nat, NEW S \in SUBSET (1..k), S # {}
  PROVE  LatestOf(S) \in S /\ \A y \in S : y <= LatestOf(S)
<1> DEFINE T == {k - y : y \in S}
           R == OpToRel(<, Nat)
<1>0. \A y \in S : y \in Nat /\ k - y \in Nat
  OBVIOUS
<1>1. T \subseteq Nat /\ T # {}
  BY <1>0
<1>2. IsWellFoundedOn(R, Nat)
  BY NatLessThanWellFounded
<1>3. \A x, y \in T : y < x => <<y, x>> \in R
  BY <1>1 DEF OpToRel
<1> HIDE DEF R
<1>4. PICK x \in T : \A y \in T : ~(<<y, x>> \in R)
  BY <1>1, <1>2, WFMin
<1>5. \A y \in S : ~(k - y < x)
  BY <1>3, <1>4
<1>6. PICK z \in S : x = k - z
  BY <1>4
<1>7. \A y \in S : z >= y
  BY <1>5, <1>6
<1>8. LatestOf(S) = CHOOSE y \in S : \A w \in S : y >= w
  BY DEF LatestOf, Max
<1>9. LatestOf(S) \in S /\ \A y \in S : LatestOf(S) >= y
  BY <1>7, <1>8
<1> QED
  BY <1>9

LEMMA LatestRange ==
  ASSUME NEW k \in Nat, NEW S \in SUBSET (1..k)
  PROVE  LatestOf(S) \in 0..k
<1>1. CASE S = {}
  <2>1. LatestOf({}) = 0
    BY DEF LatestOf
  <2> QED
    BY <1>1, <2>1
<1>2. CASE S # {}
  <2>1. LatestOf(S) \in S
    BY <1>2, LatestIn
  <2>2. \A x \in S : x \in 0..k
    OBVIOUS
  <2> QED
    BY <2>1, <2>2
<1> QED
  BY <1>1, <1>2

\* One that is greater than all others is the latest.
LEMMA LatestGrows ==
  ASSUME NEW k \in Nat, NEW S \in SUBSET (1..k)
  PROVE  LatestOf(S \cup {k + 1}) = k + 1
<1>1. S \cup {k + 1} \in SUBSET (1..(k + 1)) /\ S \cup {k + 1} # {}
  OBVIOUS
<1>2. k + 1 \in Nat
  OBVIOUS
<1>3. LatestOf(S \cup {k + 1}) \in S \cup {k + 1}
        /\ \A y \in S \cup {k + 1} : y <= LatestOf(S \cup {k + 1})
  BY <1>1, <1>2, LatestIn
<1> DEFINE m == LatestOf(S \cup {k + 1})
<1>4. m \in S \cup {k + 1} /\ k + 1 <= m
  BY <1>3
<1> HIDE DEF m
<1>5. m = k + 1
  BY <1>4
<1> QED
  BY <1>5 DEF m

\* A start tag is one more position of its name, at the top or in its section.
LEMMA Grown ==
  ASSUME document \in Seq(Tags), NEW e \in Tags, document' = Append(document, e),
         e.section \in 0..Len(document),
         \A i \in 1..Len(document) : document[i].section \in 0..(i - 1)
  PROVE  /\ document' \in Seq(Tags) /\ Len(document') = Len(document) + 1
         /\ Len(document) \in Nat
         /\ \A i \in 1..Len(document) : document'[i] = document[i]
         /\ document'[Len(document) + 1] = e
         /\ \A n : Top(n)' = IF e.name = n /\ e.section = 0
                             THEN Top(n) \cup {Len(document) + 1} ELSE Top(n)
         /\ \A n : In(n)' = IF /\ e.name = n /\ e.section # 0
                               /\ n \in Children[document[e.section].name]
                            THEN In(n) \cup {Len(document) + 1} ELSE In(n)
         /\ \A n : Top(n) \in SUBSET (1..Len(document)) /\ In(n) \in SUBSET (1..Len(document))
<1> DEFINE k == Len(document)
<1>1. document' \in Seq(Tags) /\ Len(document') = k + 1 /\ k \in Nat
  OBVIOUS
<1>2. /\ \A i \in 1..k : document'[i] = document[i]
      /\ document'[k + 1] = e
  OBVIOUS
<1>3. 1..Len(document') = 1..k \cup {k + 1} /\ k + 1 \notin 1..k
  BY <1>1
<1>4. ASSUME NEW n
      PROVE  Top(n)' = IF e.name = n /\ e.section = 0 THEN Top(n) \cup {k + 1} ELSE Top(n)
  <2>1. Top(n)' = {i \in 1..k \cup {k + 1} : document'[i].name = n /\ document'[i].section = 0}
    BY <1>3 DEF Top
  <2> QED
    BY <2>1, <1>2, <1>3 DEF Top
<1>5. ASSUME NEW n
      PROVE  In(n)' = IF /\ e.name = n /\ e.section # 0
                         /\ n \in Children[document[e.section].name]
                      THEN In(n) \cup {k + 1} ELSE In(n)
  <2>1. In(n)' = {i \in 1..k \cup {k + 1} :
                    document'[i].name = n /\ document'[i].section # 0
                      /\ n \in Children[document'[document'[i].section].name]}
    BY <1>3 DEF In
  <2>2. \A i \in 1..k : document'[i].section # 0 =>
          document'[document'[i].section] = document[document[i].section]
    BY <1>1, <1>2
  <2>3. e.section # 0 => document'[e.section] = document[e.section]
    BY <1>1, <1>2
  <2>4. \A i \in 1..k : i \in In(n)' <=> i \in In(n)
    BY <2>1, <2>2, <1>2 DEF In
  <2>5. k + 1 \in In(n)' <=> /\ e.name = n /\ e.section # 0
                            /\ n \in Children[document[e.section].name]
    BY <2>1, <2>3, <1>2, <1>3
  <2>6. In(n)' \subseteq 1..k \cup {k + 1} /\ In(n) \subseteq 1..k
    BY <2>1 DEF In
  <2> DEFINE Read0 == /\ e.name = n /\ e.section # 0
                      /\ n \in Children[document[e.section].name]
             Old == In(n)
             New == In(n)'
  <2>7. /\ \A i \in 1..k : i \in New <=> i \in Old
        /\ k + 1 \in New <=> Read0
        /\ New \subseteq 1..k \cup {k + 1} /\ Old \subseteq 1..k
    BY <2>4, <2>5, <2>6
  <2> HIDE DEF k, Read0, Old, New
  <2>8. New = IF Read0 THEN Old \cup {k + 1} ELSE Old
    <3>1. CASE Read0
      BY <2>7, <3>1, <1>3
    <3>2. CASE ~Read0
      <4>1. \A x : x \in New <=> x \in Old
        BY <2>7, <3>2, <1>3
      <4> QED
        BY <4>1, <3>2
    <3> QED
      BY <3>1, <3>2
  <2> QED
    BY <2>8 DEF Read0, Old, New
<1>6. \A n : Top(n) \in SUBSET (1..k) /\ In(n) \in SUBSET (1..k)
  BY DEF Top, In
<1> QED
  BY <1>1, <1>2, <1>4, <1>5, <1>6

\* Where the notifier n is read.
ReadsIn(n) == section # 0 /\ n \in Children[document[section].name]

(* What the element e writes, for the fields that only the latest element decides. *)

WritesNotifiers(e) ==
  \A n \in Notifiers :
    IF e.name = n /\ ReadsIn(n)
      THEN /\ config'[n].own = Parse(e, "own")
           /\ config'[n].alert =
                IF n = "Telegram" THEN ParseIfNotExist(baseAlertConfig, e, "alert")
                ELSE IF n = "smtp" THEN baseAlertConfig ELSE Unset
      ELSE config'[n] = config[n]

WritesPlain(e) ==
  \A n \in Plain :
    config'[n] = IF e.name = n /\ section = 0 THEN Parse(e, "own") ELSE config[n]

WritesMovers(e) ==
  \A m \in Movers :
    IF section = 0 /\ e.name = m
      THEN algoConfig'[m] =
             [common |-> ParseIfNotExist(algoConfig[m].common, e, "common"),
              HistoryLength |-> IF m \in Subtractors THEN Parse(e, "HistoryLength") ELSE Unset]
    ELSE IF section = 0 /\ e.name = "moveDetectBase"
      THEN algoConfig'[m] = [algoConfig[m] EXCEPT !.common = Parse(e, "common")]
    ELSE algoConfig'[m] = algoConfig[m]

WritesBase(e) ==
  baseAlertConfig' = IF section = 0 /\ e.name = "BaseAlert" THEN Parse(e, "alert")
                     ELSE baseAlertConfig

WritesSection(e) ==
  section' = IF section = 0 /\ e.name \in Sections THEN e.at ELSE section

Writes(e) ==
  Shaped' /\ WritesNotifiers(e) /\ WritesPlain(e) /\ WritesMovers(e)
    /\ WritesBase(e) /\ WritesSection(e)

LEMMA TopWrites ==
  ASSUME Shaped, NEW e, e.name \in ReadAt(0), section = 0, ParseTop(e)
  PROVE  Writes(e)
<1> USE DEF Sections, Children
<1>1. CASE /\ e.name \in Sections
           /\ section' = e.at
           /\ UNCHANGED <<configBase, baseAlertConfig, config, algoConfig>>
  BY <1>1 DEF Shaped, FieldsOf, Plain, Movers, Subtractors, Writes, WritesNotifiers, WritesPlain,
              WritesMovers, WritesBase, WritesSection, ReadsIn
<1>2. CASE ParseBase(e) /\ UNCHANGED <<section, config, algoConfig>>
  <2>1. e.name \in {"BaseInput", "BaseAlert"}
    BY <1>2 DEF ParseBase
  <2>2. WritesNotifiers(e) /\ WritesPlain(e) /\ WritesMovers(e) /\ WritesSection(e) /\ Shaped'
    BY <2>1, <1>2 DEF Shaped, FieldsOf, Plain, Movers, Subtractors, WritesNotifiers, WritesPlain,
                      WritesMovers, WritesSection, ReadsIn
  <2>3. WritesBase(e)
    BY <1>2 DEF ParseBase, WritesBase
  <2> QED
    BY <2>2, <2>3 DEF Writes
<1>3. CASE ParseMove(e) /\ UNCHANGED <<section, configBase, baseAlertConfig, config>>
  <2>1. e.name \in Movers \cup {"moveDetectBase"}
    BY <1>3 DEF ParseMove
  <2>2. WritesNotifiers(e) /\ WritesPlain(e) /\ WritesBase(e) /\ WritesSection(e)
    BY <2>1, <1>3 DEF Plain, Movers, Subtractors, WritesNotifiers, WritesPlain, WritesBase,
                      WritesSection, ReadsIn
  <2>3. CASE e.name \in Movers
    <3>1. e.name # "moveDetectBase"
      BY <2>3 DEF Movers, Subtractors
    <3>2. algoConfig' = [algoConfig EXCEPT ![e.name] =
            [common |-> ParseIfNotExist(@.common, e, "common"),
             HistoryLength |-> IF e.name \in Subtractors THEN Parse(e, "HistoryLength")
                                                         ELSE Unset]]
      BY <1>3, <3>1 DEF ParseMove
    <3>3. WritesMovers(e)
      BY <3>1, <3>2, <2>3 DEF WritesMovers, Shaped, FieldsOf
    <3>4. Shaped'
      BY <3>2, <1>3 DEF Shaped, FieldsOf
    <3> QED
      BY <2>2, <3>3, <3>4 DEF Writes
  <2>4. CASE e.name = "moveDetectBase"
    <3>1. e.name \notin Movers
      BY <2>4 DEF Movers, Subtractors
    <3>2. algoConfig' = [m \in Movers |-> [algoConfig[m] EXCEPT !.common = Parse(e, "common")]]
      BY <1>3, <3>1 DEF ParseMove
    <3>3. WritesMovers(e)
      BY <3>1, <3>2, <2>4 DEF WritesMovers
    <3>4. \A m \in Movers : algoConfig'[m] = [common |-> Parse(e, "common"),
                                             HistoryLength |-> algoConfig[m].HistoryLength]
      BY <3>2 DEF Shaped, FieldsOf
    <3>5. Shaped'
      BY <3>2, <3>4, <1>3 DEF Shaped, FieldsOf
    <3> QED
      BY <2>2, <3>3, <3>5 DEF Writes
  <2> QED
    BY <2>1, <2>3, <2>4
<1>4. CASE /\ e.name \in Plain /\ ParsePlain(e)
           /\ UNCHANGED <<section, configBase, baseAlertConfig, algoConfig>>
  <2>1. config' = [config EXCEPT ![e.name] = Parse(e, "own"),
                                 !.cascades = IF e.name = "faceDetect" THEN @ \o Split(e) ELSE @]
    BY <1>4 DEF ParsePlain
  <2>2. /\ \A f \in Fields : f # e.name /\ f # "cascades" => config'[f] = config[f]
        /\ e.name # "cascades" => config'[e.name] = Parse(e, "own")
        /\ config' = [f \in Fields |-> config'[f]]
    BY <2>1, <1>4 DEF Shaped, FieldsOf, Fields
  <2>3. /\ \A n \in Notifiers : n \in Fields /\ n # e.name /\ n # "cascades"
        /\ \A n \in Plain : n \in Fields /\ n # "cascades"
        /\ e.name \notin Movers \cup Sections \cup {"moveDetectBase", "BaseAlert"}
    BY <1>4 DEF Notifiers, Plain, Fields, Movers, Subtractors
  <2>4. WritesNotifiers(e) /\ WritesPlain(e) /\ Shaped'
    BY <2>2, <2>3, <1>4 DEF WritesNotifiers, WritesPlain, Shaped, FieldsOf
  <2>5. WritesMovers(e) /\ WritesBase(e) /\ WritesSection(e)
    BY <2>3, <1>4 DEF WritesMovers, WritesBase, WritesSection
  <2> QED
    BY <2>4, <2>5 DEF Writes
<1>5. CASE /\ e.name \in Listed \ {"Pattern"} /\ ParseListed(e)
           /\ UNCHANGED <<section, configBase, baseAlertConfig, algoConfig>>
  BY <1>5 DEF Shaped, FieldsOf, Plain, Movers, Subtractors, ParseListed, Notifiers, Fields, Listed,
              Writes, WritesNotifiers, WritesPlain, WritesMovers, WritesBase, WritesSection, ReadsIn
<1> QED
  BY <1>1, <1>2, <1>3, <1>4, <1>5 DEF ParseTop

LEMMA ChildWrites ==
  ASSUME Shaped, NEW e, section # 0, e.name \in Children[document[section].name], ParseChild(e)
  PROVE  Writes(e)
<1>0. UNCHANGED <<section, baseAlertConfig, algoConfig>>
  BY DEF ParseChild
<1>1. WritesMovers(e) /\ WritesBase(e) /\ WritesSection(e)
  BY <1>0 DEF WritesMovers, WritesBase, WritesSection
<1>2. ReadsIn(e.name)
  BY DEF ReadsIn
<1>3. CASE e.name \in Children.Input /\ ParseInput(e)
  BY <1>0, <1>1, <1>3 DEF Shaped, FieldsOf, Children, LocalInputs, Plain, ParseInput, Notifiers, Fields,
                          Writes, WritesNotifiers, WritesPlain
<1>4. CASE e.name \in Notifiers /\ (ParseNotifier(e) \/ ParseSMTPConfig(e))
  <2> DEFINE Other == \A n \in Fields : n # e.name => config'[n] = config[n]
             Base == IF e.name = "Telegram" THEN ParseIfNotExist(baseAlertConfig, e, "alert")
                     ELSE IF e.name = "smtp" THEN baseAlertConfig ELSE Unset
  <2>1. \E list : config' = [config EXCEPT ![e.name] =
                             [own |-> Parse(e, "own"), alert |-> Base, list |-> list]]
    <3>1. CASE ParseNotifier(e)
      BY <3>1 DEF ParseNotifier
    <3>2. CASE ParseSMTPConfig(e)
      BY <3>2 DEF ParseSMTPConfig
    <3> QED
      BY <1>4, <3>1, <3>2
  <2>2. e.name \in Fields /\ Notifiers \subseteq Fields /\ Plain \subseteq Fields
          /\ e.name \notin Plain
    BY <1>4 DEF Fields, Notifiers, Plain
  <2>3. PICK list : config' = [config EXCEPT ![e.name] =
                               [own |-> Parse(e, "own"), alert |-> Base, list |-> list]]
    BY <2>1
  <2>4. /\ config'[e.name] = [own |-> Parse(e, "own"), alert |-> Base, list |-> list]
        /\ Other
        /\ config' = [f \in Fields |-> config'[f]]
    BY <2>2, <2>3 DEF Shaped, FieldsOf
  <2>5. WritesNotifiers(e)
    BY <1>2, <2>2, <2>4 DEF WritesNotifiers
  <2>6. WritesPlain(e)
    BY <2>2, <2>4 DEF WritesPlain
  <2>7. Shaped'
    BY <1>0, <2>2, <2>4 DEF Shaped, FieldsOf
  <2> QED
    BY <1>1, <2>5, <2>6, <2>7 DEF Writes
<1>5. CASE e.name = "Command" /\ ParseCommand(e)
  BY <1>0, <1>1, <1>5 DEF Shaped, FieldsOf, Plain, ParseCommand, Notifiers, Fields, Writes,
                          WritesNotifiers, WritesPlain
<1>6. CASE e.name = "Pattern" /\ ParseListed(e)
  BY <1>0, <1>1, <1>6 DEF Shaped, FieldsOf, Plain, ParseListed, Notifiers, Fields, Listed, Writes,
                          WritesNotifiers, WritesPlain
<1> QED
  BY <1>3, <1>4, <1>5, <1>6 DEF ParseChild

\* An element in a place where it is not read writes nothing.
LEMMA ElementWrites ==
  ASSUME Shaped, NEW element \in Elements, StartElement(element)
  PROVE  Writes(Tag(element))
<1> DEFINE e == Tag(element)
<1>1. \/ e.name \in ReadAt(section) /\ section = 0 /\ ParseTop(e)
      \/ e.name \in ReadAt(section) /\ section # 0 /\ ParseChild(e)
      \/ /\ e.name \notin ReadAt(section)
         /\ UNCHANGED <<section, locals, config, algoConfig>>
  BY DEF StartElement, Tag
<1> HIDE DEF e
<1>2. Writes(e)
  <2>1. CASE e.name \in ReadAt(section) /\ section = 0 /\ ParseTop(e)
    BY <2>1, TopWrites
  <2>2. CASE e.name \in ReadAt(section) /\ section # 0 /\ ParseChild(e)
    BY <2>2, ChildWrites DEF ReadAt
  <2>3. CASE /\ e.name \notin ReadAt(section)
             /\ UNCHANGED <<section, locals, config, algoConfig>>
    BY <2>3 DEF Shaped, FieldsOf, ReadAt, locals, Writes, WritesNotifiers, WritesPlain, WritesMovers,
                WritesBase, WritesSection, ReadsIn
  <2> QED
    BY <1>1, <2>1, <2>2, <2>3
<1> QED
  BY <1>2 DEF e

-----------------------------------------------------------------------------
\* What the tags up to k say stays when one more is read, and the new one has said what it
\* gives.
LEMMA ValuesKept ==
  ASSUME document \in Seq(Tags), NEW k \in Nat, k = Len(document), NEW e \in Tags,
         e.at = k + 1, document' = Append(document, e)
  PROVE  /\ \A i \in 0..k : \A a : ValueAt(i, a)' = ValueAt(i, a)
         /\ \A i \in 1..k : \A a : Gave(i, a)' <=> Gave(i, a)
         /\ \A a : Gave(k + 1, a)' <=> a \in e.has
         /\ \A a : ValueAt(k + 1, a)' = Parse(e, a)
<1>1. /\ \A i \in 1..k : document'[i] = document[i]
      /\ document'[k + 1] = e /\ k + 1 # 0
  OBVIOUS
<1>2. /\ \A i \in 1..k : \A a : Gave(i, a)' <=> Gave(i, a)
      /\ \A a : Gave(k + 1, a)' <=> a \in e.has
  BY <1>1 DEF Gave
<1>3. ASSUME NEW i \in 0..k, NEW a
      PROVE  ValueAt(i, a)' = ValueAt(i, a)
  <2>1. CASE i = 0
    BY <2>1 DEF ValueAt
  <2>2. CASE i # 0
    <3>1. i \in 1..k
      BY <2>2
    <3> QED
      BY <3>1, <1>2 DEF ValueAt
  <2> QED
    BY <2>1, <2>2
<1>4. ASSUME NEW a
      PROVE  ValueAt(k + 1, a)' = Parse(e, a)
  BY <1>1, <1>2 DEF ValueAt, Parse
<1> QED
  BY <1>2, <1>3, <1>4

\* The base before position s, also when one more tag is read.
LEMMA InheritedKept ==
  ASSUME Sectioned, NEW k \in Nat, k = Len(document), NEW e \in Tags, e.at = k + 1,
         e.section \in 0..k, document' = Append(document, e), NEW s \in 0..k, NEW base, NEW a
  PROVE  Inherited(base, a, s)' = Inherited(base, a, s)
<1> DEFINE Before0 == {j \in Top(base) : j < s}
<1>1. Top(base)' \in {Top(base), Top(base) \cup {k + 1}} /\ Top(base) \in SUBSET (1..k)
  BY Grown DEF Sectioned
<1>2. Before0' = Before0 /\ Before0 \in SUBSET (1..k)
  BY <1>1
<1>3. LatestOf(Before0) \in 0..k
  BY <1>2, LatestRange
<1>4. LatestOf(Before0)' = LatestOf(Before0)
  BY <1>2
<1>5. ValueAt(LatestOf(Before0), a)' = ValueAt(LatestOf(Before0), a)
  <2>1. \A i \in 0..k : ValueAt(i, a)' = ValueAt(i, a)
    BY ValuesKept DEF Sectioned
  <2> QED
    BY <2>1, <1>3, <1>4 DEF ValueAt, Gave
<1> QED
  BY <1>5 DEF Inherited

\* The latest position of a name.
LEMMA LatestKept ==
  ASSUME Sectioned, NEW k \in Nat, k = Len(document), NEW e \in Tags,
         e.section \in 0..k, document' = Append(document, e)
  PROVE  /\ \A n : LatestOf(Top(n)) \in 0..k /\ LatestOf(In(n)) \in 0..k
         /\ \A n : LatestOf(Top(n)') = IF e.name = n /\ e.section = 0 THEN k + 1
                                      ELSE LatestOf(Top(n))
         /\ \A n : LatestOf(In(n)') = IF /\ e.name = n /\ e.section # 0
                                        /\ n \in Children[document[e.section].name]
                                     THEN k + 1 ELSE LatestOf(In(n))
<1>1. /\ \A n : Top(n)' = IF e.name = n /\ e.section = 0 THEN Top(n) \cup {k + 1} ELSE Top(n)
      /\ \A n : In(n)' = IF /\ e.name = n /\ e.section # 0
                            /\ n \in Children[document[e.section].name]
                         THEN In(n) \cup {k + 1} ELSE In(n)
      /\ \A n : Top(n) \in SUBSET (1..k) /\ In(n) \in SUBSET (1..k)
  BY Grown DEF Sectioned
<1>2. ASSUME NEW n
      PROVE  /\ LatestOf(Top(n)) \in 0..k /\ LatestOf(In(n)) \in 0..k
             /\ LatestOf(Top(n) \cup {k + 1}) = k + 1
             /\ LatestOf(In(n) \cup {k + 1}) = k + 1
  BY <1>1, LatestRange, LatestGrows
<1> QED
  BY <1>1, <1>2

LEMMA StartElementStep ==
  ASSUME ReaderInv, NEW element \in Elements, StartElement(element)
  PROVE  ReaderInv'
<1>0. PICK k \in Nat : k = Len(document)
  BY DEF ReaderInv, Sectioned
<1> DEFINE e == Tag(element)
<1>1. /\ e.name = element.name /\ e.has = element.has /\ e.count = element.count
      /\ e.at = k + 1 /\ e.section = section
      /\ document' = Append(document, e)
      /\ outcome = "reading" /\ UNCHANGED <<args, outcome, broken>>
      /\ k < MaxElements
  BY <1>0 DEF StartElement, Tag, Reading
<1>2. k \in Nat /\ section \in 0..k /\ document \in Seq(Tags)
  BY <1>0 DEF ReaderInv, ReaderTypeOK, Sectioned
<1>3. e \in Tags
  BY <1>0, <1>2, ElementsAssumption DEF Tags, Tag
<1>4. Writes(e)
  BY ElementWrites DEF ReaderInv
<1> HIDE DEF e
<1>5. /\ Shaped /\ Sectioned /\ BaseHolds /\ LatestCounts /\ ReaderTypeOK
  BY <1>1 DEF ReaderInv
<1>6. /\ document' \in Seq(Tags) /\ Len(document') = k + 1
      /\ \A i \in 1..k : document'[i] = document[i]
      /\ document'[k + 1] = e
      /\ \A i \in 1..k : document[i].section \in 0..(i - 1)
      /\ \A n : Top(n) \in SUBSET (1..k)
      /\ \A n : Top(n)' = IF e.name = n /\ section = 0 THEN Top(n) \cup {k + 1} ELSE Top(n)
  BY <1>1, <1>2, <1>3, <1>5, <1>0, Grown DEF Sectioned
<1>7. /\ \A n : LatestOf(Top(n)) \in 0..k /\ LatestOf(In(n)) \in 0..k
      /\ \A n : LatestOf(Top(n)') = IF e.name = n /\ section = 0 THEN k + 1
                                   ELSE LatestOf(Top(n))
      /\ \A n : LatestOf(In(n)') = IF e.name = n /\ ReadsIn(n) THEN k + 1
                                  ELSE LatestOf(In(n))
  BY <1>1, <1>2, <1>3, <1>5, <1>0, LatestKept DEF ReadsIn
<1>8. /\ \A i \in 0..k : \A a : ValueAt(i, a)' = ValueAt(i, a)
      /\ \A i \in 1..k : \A a : Gave(i, a)' <=> Gave(i, a)
      /\ \A a : Gave(k + 1, a)' <=> a \in e.has
      /\ \A a : ValueAt(k + 1, a)' = Parse(e, a)
  BY <1>1, <1>2, <1>3, <1>0, ValuesKept
<1>9. \A s \in 0..k : Inherited("BaseAlert", "alert", s)' = Inherited("BaseAlert", "alert", s)
  BY <1>1, <1>2, <1>3, <1>5, <1>0, InheritedKept
<1>10. section' = IF section = 0 /\ e.name \in Sections THEN k + 1 ELSE section
  BY <1>1, <1>4 DEF Writes, WritesSection
<1>11. ReaderTypeOK' /\ Applied' /\ SilentWhenAsked'
  <2>1. Len(document') <= MaxElements /\ section' \in 0..Len(document')
    BY <1>1, <1>2, <1>6, <1>10, ElementsAssumption
  <2> QED
    BY <2>1, <1>1, <1>5 DEF ReaderTypeOK, Applied, SilentWhenAsked
<1>12. Sectioned'
  <2>1. ASSUME NEW i \in 1..(k + 1)
        PROVE  /\ document'[i].section \in 0..(i - 1)
               /\ section' # 0 /\ i > section' => document'[i].section # 0
    <3>1. CASE i = k + 1
      BY <3>1, <1>1, <1>2, <1>6, <1>10
    <3>2. CASE i # k + 1
      <4>1. i \in 1..k
        BY <3>2, <1>2
      <4>2. section # 0 /\ i > section => document[i].section # 0
        BY <4>1, <1>0, <1>5 DEF Sectioned
      <4> QED
        BY <4>1, <4>2, <1>2, <1>6, <1>10
    <3> QED
      BY <3>1, <3>2
  <2> QED
    BY <2>1, <1>6 DEF Sectioned
<1>13. BaseHolds'
  <2>1. /\ baseAlertConfig = ValueAt(LatestOf(Top("BaseAlert")), "alert")
        /\ section # 0 => \A j \in Top("BaseAlert") : j < section
    BY <1>5 DEF BaseHolds
  <2>2. "BaseAlert" \notin Sections
    BY DEF Sections, Children
  <2>3. baseAlertConfig' = IF section = 0 /\ e.name = "BaseAlert" THEN Parse(e, "alert")
                           ELSE baseAlertConfig
    BY <1>4 DEF Writes, WritesBase
  <2>4. \A i \in 0..(k + 1) : LatestOf(Top("BaseAlert")') = i =>
          ValueAt(LatestOf(Top("BaseAlert")), "alert")' = ValueAt(i, "alert")'
    BY DEF ValueAt, Gave
  <2>5. baseAlertConfig' = ValueAt(LatestOf(Top("BaseAlert")), "alert")'
    <3>1. CASE section = 0 /\ e.name = "BaseAlert"
      BY <3>1, <2>3, <2>4, <1>7, <1>8
    <3>2. CASE ~(section = 0 /\ e.name = "BaseAlert")
      BY <3>2, <2>1, <2>3, <2>4, <1>7, <1>8
    <3> QED
      BY <3>1, <3>2
  <2>6. section' # 0 => \A j \in Top("BaseAlert")' : j < section'
    BY <2>1, <2>2, <1>2, <1>6, <1>10
  <2> QED
    BY <2>5, <2>6 DEF BaseHolds
<1>14. ASSUME NEW n \in Plain
       PROVE  (config[n] = ValueAt(LatestOf(Top(n)), "own"))'
  <2>1. config'[n] = IF e.name = n /\ section = 0 THEN Parse(e, "own") ELSE config[n]
    BY <1>4 DEF Writes, WritesPlain
  <2>2. \A i \in 0..(k + 1) : LatestOf(Top(n)') = i =>
          ValueAt(LatestOf(Top(n)), "own")' = ValueAt(i, "own")'
    BY DEF ValueAt, Gave
  <2>3. config[n] = ValueAt(LatestOf(Top(n)), "own")
    BY <1>5 DEF LatestCounts
  <2>4. CASE section = 0 /\ e.name = n
    BY <2>4, <2>1, <2>2, <1>7, <1>8
  <2>5. CASE ~(section = 0 /\ e.name = n)
    BY <2>5, <2>1, <2>2, <2>3, <1>7, <1>8
  <2> QED
    BY <2>4, <2>5
<1>15. ASSUME NEW n \in Notifiers
       PROVE  (/\ config[n].own = ValueAt(LatestOf(Read(n)), "own")
               /\ config[n].alert = AlertOf(n))'
  <2>1. Read(n) = In(n) /\ Read(n)' = In(n)'
    BY DEF Read, Sections, Children, Notifiers
  <2>2. PICK i \in 0..(k + 1) : i = LatestOf(In(n)')
    BY <1>7
  <2>3. ValueAt(LatestOf(Read(n)), "own")' = ValueAt(i, "own")'
    BY <2>1, <2>2 DEF ValueAt, Gave
  <2>4. /\ config[n].own = ValueAt(LatestOf(In(n)), "own")
        /\ config[n].alert = AlertOf(n)
    BY <2>1, <1>5 DEF LatestCounts
  <2>5. IF e.name = n /\ ReadsIn(n)
          THEN /\ config'[n].own = Parse(e, "own")
               /\ config'[n].alert =
                    IF n = "Telegram" THEN ParseIfNotExist(baseAlertConfig, e, "alert")
                    ELSE IF n = "smtp" THEN baseAlertConfig ELSE Unset
          ELSE config'[n] = config[n]
    BY <1>4 DEF Writes, WritesNotifiers
  <2>6. ASSUME i # 0
        PROVE  document'[i].section \in 0..k
    BY <2>6, <1>0, <1>1, <1>2, <1>6
  <2>7. AlertOf(n)' = IF i = 0 \/ n \notin {"Telegram", "smtp"} THEN Unset
                      ELSE IF n = "Telegram" /\ Gave(i, "alert")' THEN i
                      ELSE Inherited("BaseAlert", "alert", document[i].section)'
    BY <2>1, <2>2 DEF AlertOf, Inherited, ValueAt, Gave
  <2>8. ASSUME i # 0
        PROVE  Inherited("BaseAlert", "alert", document[i].section)'
                 = Inherited("BaseAlert", "alert", document'[i].section)
    <3>1. PICK s \in 0..k : s = document'[i].section
      BY <2>6, <2>8
    <3>2. Inherited("BaseAlert", "alert", document[i].section)'
            = Inherited("BaseAlert", "alert", s)'
      BY <3>1 DEF Inherited, ValueAt, Gave
    <3> QED
      BY <3>1, <3>2, <1>9
  <2>9. CASE e.name = n /\ ReadsIn(n)
    <3>1. i = k + 1 /\ i # 0
      BY <2>2, <2>9, <1>7
    <3>2. document'[i].section = section /\ section # 0
      BY <3>1, <2>9, <1>1, <1>6 DEF ReadsIn
    <3>3. Inherited("BaseAlert", "alert", section) = baseAlertConfig
      <4>1. {j \in Top("BaseAlert") : j < section} = Top("BaseAlert")
        BY <3>2, <1>5 DEF BaseHolds
      <4> QED
        BY <4>1, <1>5 DEF Inherited, BaseHolds
    <3>4. Inherited("BaseAlert", "alert", document[i].section)' = baseAlertConfig
      BY <3>1, <3>2, <3>3, <2>8
    <3>5. Gave(i, "alert")' <=> "alert" \in e.has
      BY <3>1, <1>8
    <3>6. config'[n].alert = AlertOf(n)'
      <4>1. CASE n = "Telegram"
        <5>1. config'[n].alert = ParseIfNotExist(baseAlertConfig, e, "alert")
          BY <4>1, <2>5, <2>9
        <5>2. CASE "alert" \in e.has
          <6>1. AlertOf(n)' = i
            BY <5>2, <4>1, <3>1, <3>5, <2>7
          <6> QED
            BY <5>1, <5>2, <6>1, <3>1, <1>1 DEF ParseIfNotExist
        <5>3. CASE "alert" \notin e.has
          <6>1. AlertOf(n)' = baseAlertConfig
            BY <5>3, <4>1, <3>1, <3>4, <3>5, <2>7
          <6> QED
            BY <5>1, <5>3, <6>1 DEF ParseIfNotExist
        <5> QED
          BY <5>2, <5>3
      <4>2. CASE n = "smtp"
        BY <4>2, <3>1, <3>4, <2>5, <2>7, <2>9
      <4>3. CASE n \notin {"Telegram", "smtp"}
        BY <4>3, <3>1, <2>5, <2>7, <2>9
      <4> QED
        BY <4>1, <4>2, <4>3
    <3>7. config'[n].own = ValueAt(LatestOf(Read(n)), "own")'
      BY <3>1, <2>3, <2>5, <2>9, <1>8
    <3> QED
      BY <3>6, <3>7
  <2>10. CASE ~(e.name = n /\ ReadsIn(n))
    <3>1. i = LatestOf(In(n)) /\ i \in 0..k
      BY <2>2, <2>10, <1>7
    <3>2. config'[n] = config[n]
      BY <2>5, <2>10
    <3>3. config'[n].own = ValueAt(LatestOf(Read(n)), "own")'
      BY <3>1, <3>2, <2>3, <2>4, <1>8
    <3>4. AlertOf(n) = IF i = 0 \/ n \notin {"Telegram", "smtp"} THEN Unset
                       ELSE IF n = "Telegram" /\ Gave(i, "alert") THEN i
                       ELSE Inherited("BaseAlert", "alert", document[i].section)
      BY <2>1, <3>1 DEF AlertOf
    <3>5. i # 0 => /\ document'[i] = document[i]
                   /\ Gave(i, "alert")' <=> Gave(i, "alert")
      BY <3>1, <1>6, <1>8
    <3>6. AlertOf(n)' = AlertOf(n)
      BY <3>4, <3>5, <2>7, <2>8
    <3> QED
      BY <3>2, <3>3, <3>6, <2>4
  <2> QED
    BY <2>9, <2>10
<1>16. ASSUME NEW m \in Movers
       PROVE  (algoConfig[m] = MoverOf(m))'
  <2> DEFINE Given(w) == {j \in Top(w) : Gave(j, "common")}
  <2>1. m # "moveDetectBase"
    BY DEF Movers, Subtractors
  <2>2. Given(m) \in SUBSET (1..k)
    BY <1>6
  <2>3. Given(m)' = IF e.name = m /\ section = 0 /\ "common" \in e.has
                    THEN Given(m) \cup {k + 1} ELSE Given(m)
    <3>1. k + 1 \notin 1..k
      OBVIOUS
    <3>2. CASE e.name = m /\ section = 0
      <4>1. Top(m)' = Top(m) \cup {k + 1} /\ Top(m) \subseteq 1..k
        BY <3>2, <1>6
      <4> QED
        BY <4>1, <3>1, <3>2, <1>8
    <3>3. CASE ~(e.name = m /\ section = 0)
      <4>1. Top(m)' = Top(m) /\ Top(m) \subseteq 1..k
        BY <3>3, <1>6
      <4> QED
        BY <4>1, <3>3, <1>8
    <3> QED
      BY <3>2, <3>3
  <2>4. LatestOf(Given(m)) \in 0..k /\ LatestOf(Given(m) \cup {k + 1}) = k + 1
    BY <2>2, LatestRange, LatestGrows
  <2>5. PICK own \in 0..(k + 1) : own = LatestOf(Given(m)')
    <3>1. LatestOf(Given(m)') \in {LatestOf(Given(m)), LatestOf(Given(m) \cup {k + 1})}
      BY <2>3
    <3> HIDE DEF Given
    <3> QED
      BY <3>1, <2>4
  <2>6. PICK base0 \in 0..(k + 1) : base0 = LatestOf(Top("moveDetectBase")')
    BY <1>7
  <2>7. PICK i \in 0..(k + 1) : i = LatestOf(Top(m)')
    BY <1>7
  <2>8. MoverOf(m)' = [common |-> IF own > base0 THEN own ELSE ValueAt(base0, "common")',
                       HistoryLength |-> IF m \in Subtractors THEN ValueAt(i, "HistoryLength")'
                                         ELSE Unset]
    BY <2>5, <2>6, <2>7 DEF MoverOf, ValueAt, Gave
  <2>9. /\ MoverOf(m) =
             [common |-> IF LatestOf(Given(m)) > LatestOf(Top("moveDetectBase"))
                         THEN LatestOf(Given(m))
                         ELSE ValueAt(LatestOf(Top("moveDetectBase")), "common"),
              HistoryLength |-> IF m \in Subtractors
                                THEN ValueAt(LatestOf(Top(m)), "HistoryLength") ELSE Unset]
        /\ algoConfig[m] = MoverOf(m)
    BY <1>5 DEF MoverOf, LatestCounts
  <2>10. IF section = 0 /\ e.name = m
           THEN algoConfig'[m] =
                  [common |-> ParseIfNotExist(algoConfig[m].common, e, "common"),
                   HistoryLength |-> IF m \in Subtractors THEN Parse(e, "HistoryLength")
                                     ELSE Unset]
         ELSE IF section = 0 /\ e.name = "moveDetectBase"
           THEN algoConfig'[m] = [algoConfig[m] EXCEPT !.common = Parse(e, "common")]
         ELSE algoConfig'[m] = algoConfig[m]
    BY <1>4 DEF Writes, WritesMovers
  <2> HIDE DEF Given
  <2>11. CASE section = 0 /\ e.name = m
    <3>1. base0 = LatestOf(Top("moveDetectBase")) /\ base0 \in 0..k /\ i = k + 1
      BY <2>1, <2>6, <2>7, <2>11, <1>7
    <3>2. ValueAt(i, "HistoryLength")' = Parse(e, "HistoryLength")
            /\ ValueAt(base0, "common")' = ValueAt(base0, "common")
      BY <3>1, <1>8
    <3>3. ParseIfNotExist(algoConfig[m].common, e, "common")
            = IF own > base0 THEN own ELSE ValueAt(base0, "common")
      <4>1. CASE "common" \in e.has
        BY <4>1, <3>1, <2>3, <2>4, <2>5, <2>11, <1>1 DEF ParseIfNotExist
      <4>2. CASE "common" \notin e.has
        BY <4>2, <3>1, <2>3, <2>5, <2>9 DEF ParseIfNotExist
      <4> QED
        BY <4>1, <4>2
    <3> QED
      BY <3>2, <3>3, <2>8, <2>10, <2>11
  <2>12. CASE section = 0 /\ e.name = "moveDetectBase"
    <3>1. base0 = k + 1 /\ i = LatestOf(Top(m)) /\ i \in 0..k
            /\ own = LatestOf(Given(m)) /\ own \in 0..k
      BY <2>1, <2>3, <2>4, <2>5, <2>6, <2>7, <2>12, <1>7
    <3>2. ValueAt(i, "HistoryLength")' = ValueAt(i, "HistoryLength")
            /\ ValueAt(base0, "common")' = Parse(e, "common")
      BY <3>1, <1>8
    <3>3. ~(own > base0)
      BY <3>1
    <3>4. algoConfig'[m] = [algoConfig[m] EXCEPT !.common = Parse(e, "common")]
      BY <2>1, <2>10, <2>12
    <3> QED
      BY <3>1, <3>2, <3>3, <3>4, <2>8, <2>9
  <2>13. CASE section # 0 \/ e.name \notin {m, "moveDetectBase"}
    <3>1. /\ base0 = LatestOf(Top("moveDetectBase")) /\ base0 \in 0..k
          /\ i = LatestOf(Top(m)) /\ i \in 0..k /\ own = LatestOf(Given(m))
      BY <2>3, <2>5, <2>6, <2>7, <2>13, <1>7
    <3>2. ValueAt(i, "HistoryLength")' = ValueAt(i, "HistoryLength")
            /\ ValueAt(base0, "common")' = ValueAt(base0, "common")
      BY <3>1, <1>8
    <3> QED
      BY <3>1, <3>2, <2>8, <2>9, <2>10, <2>13
  <2> QED
    BY <2>11, <2>12, <2>13
<1>17. LatestCounts'
  BY <1>14, <1>15, <1>16 DEF LatestCounts
<1> QED
  BY <1>4, <1>11, <1>12, <1>13, <1>17 DEF ReaderInv, Writes

-----------------------------------------------------------------------------
LEMMA ReaderInitial == ReaderInit => ReaderInv
<1> SUFFICES ASSUME ReaderInit PROVE ReaderInv
  OBVIOUS
<1> USE DEF ReaderInit
<1>1. ReaderTypeOK /\ Applied /\ SilentWhenAsked
  <2>1. MaxElements \in Nat
    BY ElementsAssumption
  <2>2. Len(document) = 0
    OBVIOUS
  <2>3. outcome = "start" /\ args = {} /\ section = 0 /\ broken = FALSE
    OBVIOUS
  <2> HIDE DEF ReaderInit
  <2>4. Len(document) <= MaxElements /\ section \in 0..Len(document)
    BY <2>1, <2>2, <2>3
  <2>5. ReaderTypeOK
    BY <2>3, <2>4 DEF ReaderTypeOK
  <2> QED
    BY <2>3, <2>5 DEF Applied, SilentWhenAsked
<1>2. /\ \A n \in Notifiers : config[n] = Null
      /\ \A n \in Plain : config[n] = Unset
  BY DEF Fields, Notifiers, Plain
<1>3. Shaped
  BY <1>2 DEF Shaped, FieldsOf, Null
<1>4. document \in Seq(Tags) /\ Len(document) = 0
  OBVIOUS
<1>5. Sectioned
  BY <1>4 DEF Sectioned
<1>6. \A n : Top(n) = {} /\ In(n) = {}
  BY <1>4 DEF Top, In
<1>7. LatestOf({}) = 0 /\ \A a : ValueAt(0, a) = Unset
  BY DEF LatestOf, ValueAt
<1>8. BaseHolds
  BY <1>6, <1>7 DEF BaseHolds
<1>9. \A n \in Notifiers : LatestOf(Read(n)) = 0
  BY <1>6, <1>7 DEF Read
<1>10. \A n \in Notifiers : AlertOf(n) = Unset
  BY <1>9 DEF AlertOf
<1>11. ASSUME NEW m \in Movers
       PROVE  algoConfig[m] = MoverOf(m)
  <2>1. {i \in Top(m) : Gave(i, "common")} = {}
    BY <1>6
  <2>2. MoverOf(m) = [common |-> Unset, HistoryLength |-> Unset]
    <3> HIDE DEF ReaderInit
    <3>1. /\ LatestOf({i \in Top(m) : Gave(i, "common")}) = 0
          /\ LatestOf(Top("moveDetectBase")) = 0 /\ LatestOf(Top(m)) = 0
      BY <2>1, <1>6, <1>7
    <3> QED
      BY <3>1, <1>7 DEF MoverOf
  <2> QED
    BY <2>2
<1>12. \A n \in Notifiers : config[n].own = Unset /\ config[n].alert = Unset
  BY <1>2 DEF Null
<1> HIDE DEF ReaderInit
<1>13. LatestCounts
  BY <1>2, <1>6, <1>7, <1>9, <1>10, <1>11, <1>12 DEF LatestCounts
<1> QED
  BY <1>1, <1>3, <1>5, <1>8, <1>13 DEF ReaderInv

\* What the document says changes only with the document.
LEMMA MeaningKept ==
  ASSUME UNCHANGED document
  PROVE  /\ \A n : Top(n)' = Top(n) /\ Read(n)' = Read(n) /\ AlertOf(n)' = AlertOf(n)
                  /\ ValueAt(LatestOf(Top(n)), "own")' = ValueAt(LatestOf(Top(n)), "own")
                  /\ ValueAt(LatestOf(Top(n)), "alert")' = ValueAt(LatestOf(Top(n)), "alert")
                  /\ ValueAt(LatestOf(Read(n)), "own")' = ValueAt(LatestOf(Read(n)), "own")
                  /\ MoverOf(n)' = MoverOf(n)
  BY DEF Top, In, Read, ValueAt, Gave, AlertOf, Inherited, MoverOf

LEMMA CountsKept ==
  ASSUME LatestCounts, UNCHANGED <<document, algoConfig>>,
         \A n \in Notifiers : config'[n] = config[n],
         \A n \in Plain : config'[n] = config[n]
  PROVE  LatestCounts'
  BY MeaningKept DEF LatestCounts

LEMMA EndElementStep == ASSUME ReaderInv, EndElement PROVE ReaderInv'
<1>1. /\ outcome = "reading" /\ section' = 0
      /\ config' = [config EXCEPT !.mInputList = @ \o inputUrlList]
      /\ UNCHANGED <<args, outcome, document, broken, baseAlertConfig, algoConfig>>
  BY DEF EndElement, Reading
<1>2. /\ \A n \in Notifiers : config'[n] = config[n]
      /\ \A n \in Plain : config'[n] = config[n]
      /\ Shaped'
  BY <1>1 DEF ReaderInv, Shaped, FieldsOf, Fields, Notifiers, Plain
<1>3. LatestCounts'
  BY <1>1, <1>2, CountsKept DEF ReaderInv
<1>4. Sectioned' /\ BaseHolds'
  BY <1>1, MeaningKept DEF ReaderInv, Sectioned, BaseHolds
<1>5. Len(document) \in Nat
  BY DEF ReaderInv, Sectioned
<1>6. ReaderTypeOK' /\ Applied' /\ SilentWhenAsked'
  BY <1>1, <1>5 DEF ReaderInv, ReaderTypeOK, Applied, SilentWhenAsked
<1> QED
  BY <1>2, <1>3, <1>4, <1>6 DEF ReaderInv

\* The steps that write no field.
LEMMA OutcomeStep ==
  ASSUME ReaderInv, ParseParams \/ Break \/ ReadInvalid
  PROVE  ReaderInv'
<1>1. /\ UNCHANGED <<args, document, section, baseAlertConfig, config, algoConfig>>
      /\ broken' \in BOOLEAN
  BY DEF ParseParams, Break, ReadInvalid, reader, locals, ReaderInv, ReaderTypeOK
<1>2. /\ outcome' \in {"reading", "parsed", "thrown"}
      /\ outcome' = "parsed" => args = {}
      /\ outcome' = "reading" => outcome \in {"start", "reading"}
  BY DEF ParseParams, Break, ReadInvalid, Reading, ReaderInv, Applied
<1>3. Shaped' /\ Sectioned' /\ BaseHolds'
  BY <1>1, MeaningKept DEF ReaderInv, Shaped, Sectioned, BaseHolds
<1>4. outcome' = "reading" => LatestCounts'
  BY <1>1, <1>2, CountsKept DEF ReaderInv
<1>5. ReaderTypeOK' /\ Applied' /\ SilentWhenAsked'
  BY <1>1, <1>2 DEF ReaderInv, ReaderTypeOK, Applied, SilentWhenAsked
<1> QED
  BY <1>2, <1>3, <1>4, <1>5 DEF ReaderInv

\* One attribute of a notifier is changed.
WithOwn(c, n, v) == [c EXCEPT ![n].own = v]

LEMMA OwnChanged ==
  ASSUME NEW c, FieldsOf(c), NEW n \in Notifiers, NEW v
  PROVE  /\ FieldsOf(WithOwn(c, n, v))
         /\ WithOwn(c, n, v)[n].own = v
         /\ WithOwn(c, n, v)[n].list = c[n].list
         /\ \A o \in Notifiers \ {n} : WithOwn(c, n, v)[o] = c[o]
<1>1. n \in Fields /\ Notifiers \subseteq Fields
  BY DEF Fields
<1>2. [c[n] EXCEPT !.own = v] = [own |-> v, alert |-> c[n].alert, list |-> c[n].list]
  <2>1. c[n] = [own |-> c[n].own, alert |-> c[n].alert, list |-> c[n].list]
    BY DEF FieldsOf
  <2>2. \A x, y, z : [[own |-> x, alert |-> y, list |-> z] EXCEPT !.own = v]
                      = [own |-> v, alert |-> y, list |-> z]
    OBVIOUS
  <2> QED
    BY <2>1, <2>2
<1> DEFINE d == [c EXCEPT ![n].own = v]
<1>3. /\ d = [f \in Fields |-> d[f]]
      /\ d[n] = [own |-> v, alert |-> c[n].alert, list |-> c[n].list]
      /\ \A f \in Fields \ {n} : d[f] = c[f]
  BY <1>1, <1>2 DEF FieldsOf
<1> HIDE DEF d
<1>4. FieldsOf(d) /\ d[n].own = v /\ d[n].list = c[n].list
        /\ \A o \in Notifiers \ {n} : d[o] = c[o]
  BY <1>1, <1>3 DEF FieldsOf
<1> QED
  BY <1>4 DEF d, WithOwn

LEMMA ListChanged ==
  ASSUME NEW c, FieldsOf(c), NEW n \in Notifiers, NEW v
  PROVE  FieldsOf([c EXCEPT ![n].list = v]) /\ [c EXCEPT ![n].list = v][n].list = v
<1>1. n \in Fields /\ Notifiers \subseteq Fields
  BY DEF Fields
<1>2. [c[n] EXCEPT !.list = v] = [own |-> c[n].own, alert |-> c[n].alert, list |-> v]
  <2>1. c[n] = [own |-> c[n].own, alert |-> c[n].alert, list |-> c[n].list]
    BY DEF FieldsOf
  <2>2. \A x, y, z : [[own |-> x, alert |-> y, list |-> z] EXCEPT !.list = v]
                      = [own |-> x, alert |-> y, list |-> v]
    OBVIOUS
  <2> QED
    BY <2>1, <2>2
<1> DEFINE d == [c EXCEPT ![n].list = v]
<1>3. /\ d = [f \in Fields |-> d[f]]
      /\ d[n] = [own |-> c[n].own, alert |-> c[n].alert, list |-> v]
      /\ \A f \in Fields \ {n} : d[f] = c[f]
  BY <1>1, <1>2 DEF FieldsOf
<1> HIDE DEF d
<1>4. FieldsOf(d) /\ d[n].list = v
  BY <1>1, <1>3 DEF FieldsOf
<1> QED
  BY <1>4 DEF d

\* What the options clear, and that they leave every field of its kind.
LEMMA ApplyClears ==
  ASSUME NEW c, FieldsOf(c), NEW a
  PROVE  /\ FieldsOf(Apply(c, a))
         /\ {"noSend", "debugMode"} \cap a # {} =>
              Apply(c, a).smtp.own = Default /\ Apply(c, a).Telegram.own = Default
         /\ "debugMode" \in a => Apply(c, a).FinalVideo.list = <<>>
<1> DEFINE debug == IF "debugMode" \in a THEN ClearPaths(ClearSmtp(c)) ELSE c
           cleared == ClearSmtp(debug)
           silent == IF "noSend" \in a \/ "debugMode" \in a
                     THEN [cleared EXCEPT !.Telegram.own = Default] ELSE debug
<1>0. {"smtp", "Telegram", "FinalVideo"} \subseteq Notifiers
  BY DEF Notifiers
<1>1. FieldsOf(debug) /\ ("debugMode" \in a => debug.FinalVideo.list = <<>>)
  <2>1. FieldsOf(ClearSmtp(c))
    <3>1. ClearSmtp(c) = WithOwn(c, "smtp", Default)
      BY DEF ClearSmtp, WithOwn
    <3> QED
      BY <1>0, <3>1, OwnChanged
  <2>2. FieldsOf(ClearPaths(ClearSmtp(c))) /\ ClearPaths(ClearSmtp(c)).FinalVideo.list = <<>>
    BY <1>0, <2>1, ListChanged DEF ClearPaths
  <2> QED
    BY <2>2
<1> HIDE DEF debug
<1>2. FieldsOf(cleared) /\ cleared.smtp.own = Default /\ cleared.FinalVideo = debug.FinalVideo
  <2>1. cleared = WithOwn(debug, "smtp", Default)
    BY DEF ClearSmtp, WithOwn
  <2>2. "smtp" \in Notifiers /\ "FinalVideo" \in Notifiers \ {"smtp"}
    BY <1>0
  <2> HIDE DEF cleared
  <2> QED
    BY <1>1, <2>1, <2>2, OwnChanged
<1> HIDE DEF cleared
<1>3. /\ FieldsOf(silent)
      /\ {"noSend", "debugMode"} \cap a # {} =>
           silent.smtp.own = Default /\ silent.Telegram.own = Default
      /\ "debugMode" \in a => silent.FinalVideo.list = <<>>
  <2>1. [cleared EXCEPT !.Telegram.own = Default] = WithOwn(cleared, "Telegram", Default)
    BY DEF WithOwn
  <2>2. "Telegram" \in Notifiers /\ {"smtp", "FinalVideo"} \subseteq Notifiers \ {"Telegram"}
    BY <1>0
  <2> DEFINE e == WithOwn(cleared, "Telegram", Default)
  <2>3. /\ FieldsOf(e) /\ e.Telegram.own = Default
        /\ e.smtp = cleared.smtp /\ e.FinalVideo = cleared.FinalVideo
    BY <1>2, <2>2, OwnChanged
  <2> HIDE DEF e
  <2>4. silent = IF "noSend" \in a \/ "debugMode" \in a THEN e ELSE debug
    BY <2>1 DEF e
  <2> QED
    BY <1>1, <1>2, <2>3, <2>4
<1> HIDE DEF silent
<1>4. Apply(c, a) = IF "noAlgThread" \in a THEN [silent EXCEPT !.AlgoConfing = Off] ELSE silent
  BY DEF Apply, silent, debug, cleared
<1>5. \A n \in Notifiers : n \in Fields /\ n # "AlgoConfing"
  BY DEF Notifiers, Fields
<1>6. FieldsOf(Apply(c, a)) /\ \A n \in Notifiers : Apply(c, a)[n] = silent[n]
  BY <1>3, <1>4, <1>5 DEF FieldsOf
<1> QED
  BY <1>0, <1>3, <1>6

LEMMA EndDocumentStep == ASSUME ReaderInv, EndDocument PROVE ReaderInv'
<1>1. UNCHANGED <<document, section, broken, baseAlertConfig, algoConfig>>
  BY DEF EndDocument, reader, locals
<1>2. Sectioned' /\ BaseHolds'
  BY <1>1, MeaningKept DEF ReaderInv, Sectioned, BaseHolds
<1>3. outcome' \in {"parsed", "crashed"}
  BY DEF EndDocument
<1>4. ReaderTypeOK' /\ Applied'
  BY <1>1, <1>3 DEF ReaderInv, ReaderTypeOK, Applied
<1>5. Shaped' /\ SilentWhenAsked'
  <2>1. CASE outcome' = "crashed" /\ UNCHANGED config
    BY <2>1, <1>1 DEF ReaderInv, Shaped, SilentWhenAsked
  <2>2. CASE outcome' = "parsed" /\ config' = Apply(config, args')
    <3>1. /\ FieldsOf(config')
          /\ {"noSend", "debugMode"} \cap args' # {} =>
               config'.smtp.own = Default /\ config'.Telegram.own = Default
          /\ "debugMode" \in args' => config'.FinalVideo.list = <<>>
      BY <2>2, ApplyClears DEF ReaderInv, Shaped
    <3>2. Shaped'
      BY <3>1, <1>1 DEF ReaderInv, Shaped
    <3>3. SilentWhenAsked'
      BY <3>1 DEF SilentWhenAsked
    <3> QED
      BY <3>2, <3>3
  <2> QED
    BY <2>1, <2>2 DEF EndDocument
<1> QED
  BY <1>2, <1>3, <1>4, <1>5 DEF ReaderInv

LEMMA ReaderStep == ReaderInv /\ [ReaderNext]_readerVars => ReaderInv'
<1> SUFFICES ASSUME ReaderInv, [ReaderNext]_readerVars PROVE ReaderInv'
  OBVIOUS
<1>1. CASE ParseParams \/ Break \/ ReadInvalid
  BY <1>1, OutcomeStep
<1>2. CASE \E element \in Elements : StartElement(element)
  BY <1>2, StartElementStep
<1>3. CASE EndElement
  BY <1>3, EndElementStep
<1>4. CASE EndDocument
  BY <1>4, EndDocumentStep
<1>5. CASE UNCHANGED readerVars
  <2>1. UNCHANGED <<args, outcome, document, section, broken, baseAlertConfig, config, algoConfig>>
    BY <1>5 DEF readerVars, reader, locals
  <2>2. Shaped' /\ Sectioned' /\ BaseHolds'
    BY <2>1, MeaningKept DEF ReaderInv, Shaped, Sectioned, BaseHolds
  <2>3. LatestCounts => LatestCounts'
    BY <2>1, CountsKept
  <2>4. ReaderTypeOK' /\ Applied' /\ SilentWhenAsked'
    BY <2>1 DEF ReaderInv, ReaderTypeOK, Applied, SilentWhenAsked
  <2> QED
    BY <2>1, <2>2, <2>3, <2>4 DEF ReaderInv
<1> QED
  BY <1>1, <1>2, <1>3, <1>4, <1>5 DEF ReaderNext

LEMMA ReaderInvariant == ReaderSpec => []ReaderInv
  BY ReaderInitial, ReaderStep, PTL DEF ReaderSpec

\* Whatever is read, however often an element is repeated and wherever bases, sections and
\* misplaced elements stand: the configuration holds what the latest one of its name says.
THEOREM LatestElement == ReaderSpec => []LatestElementCounts
<1>1. ReaderInv => LatestElementCounts
  BY DEF ReaderInv, LatestCounts, LatestElementCounts
<1> QED
  BY <1>1, ReaderInvariant, PTL

\* No document of any length gives a program that was told not to send a host, a token or,
\* in debug mode, a path of videos.
THEOREM NothingSent == ReaderSpec => []SilentWhenAsked
<1>1. ReaderInv => SilentWhenAsked
  BY DEF ReaderInv
<1> QED
  BY <1>1, ReaderInvariant, PTL

-----------------------------------------------------------------------------
(* The lists of the configuration: what the element e appends to them, and the base of the
   inputs. *)

AppendsToNotifiers(e) ==
  \A n \in Notifiers :
    config'[n].list =
      IF e.name = n /\ ReadsIn(n)
        THEN IF n \in {"Telegram", "FinalVideo"} THEN config[n].list \o Split(e) ELSE Split(e)
      ELSE config[n].list

AppendsToListed(e) ==
  \A n \in Listed :
    config'[n] = IF e.name = n /\ Pushes(e) /\ (IF n = "Pattern" THEN ReadsIn(n) ELSE section = 0)
                 THEN config[n] \o Split(e) ELSE config[n]

AppendsInputs(e) ==
  /\ config'.mInputList = IF e.name \in LocalInputs /\ ReadsIn(e.name)
                          THEN config.mInputList \o Entries(e) ELSE config.mInputList
  /\ inputUrlList' = IF e.name = "NetInput" /\ ReadsIn(e.name)
                     THEN inputUrlList \o Entries(e) ELSE inputUrlList
  /\ configBase' = IF e.name = "BaseInput" /\ section = 0
                   THEN [a \in InputBase |-> Parse(e, a)] ELSE configBase

Appends(e) == AppendsToNotifiers(e) /\ AppendsToListed(e) /\ AppendsInputs(e)

\* Nothing is appended when no list changes and nothing is read.
LEMMA NothingAppended ==
  ASSUME NEW e, UNCHANGED <<configBase, inputUrlList>>,
         \A f \in Notifiers \cup Listed \cup {"mInputList"} : config'[f] = config[f],
         e.name \notin Notifiers \cup Listed \cup LocalInputs \cup {"NetInput"},
         e.name = "BaseInput" => section # 0
  PROVE  Appends(e)
  BY DEF Appends, AppendsToNotifiers, AppendsToListed, AppendsInputs

LEMMA TopAppends ==
  ASSUME Shaped, NEW e, e.name \in ReadAt(0), section = 0, ParseTop(e)
  PROVE  Appends(e)
<1> DEFINE Lists0 == Notifiers \cup Listed \cup {"mInputList"}
<1>0. UNCHANGED inputUrlList /\ Lists0 \subseteq Fields /\ \A n : ~ReadsIn(n)
  BY DEF ParseTop, Fields, ReadsIn
<1>1. CASE /\ e.name \in Sections
           /\ UNCHANGED <<configBase, config>>
  <2>1. e.name \notin Lists0 \cup LocalInputs \cup {"NetInput", "BaseInput"}
    BY <1>1 DEF Sections, Children, Notifiers, Listed, LocalInputs
  <2> QED
    BY <2>1, <1>0, <1>1, NothingAppended
<1>2. CASE ParseBase(e) /\ UNCHANGED config
  <2>1. e.name \in {"BaseInput", "BaseAlert"}
    BY <1>2 DEF ParseBase
  <2>2. AppendsToNotifiers(e) /\ AppendsToListed(e)
    BY <2>1, <1>0, <1>2 DEF AppendsToNotifiers, AppendsToListed, Notifiers, Listed
  <2>3. AppendsInputs(e)
    BY <2>1, <1>0, <1>2 DEF AppendsInputs, ParseBase, LocalInputs
  <2> QED
    BY <2>2, <2>3 DEF Appends
<1>3. CASE ParseMove(e) /\ UNCHANGED <<configBase, config>>
  <2>1. e.name \notin Lists0 \cup LocalInputs \cup {"NetInput", "BaseInput"}
    BY <1>3 DEF ParseMove, Movers, Subtractors, Notifiers, Listed, LocalInputs
  <2> QED
    BY <2>1, <1>0, <1>3, NothingAppended
<1>4. CASE e.name \in Plain /\ ParsePlain(e) /\ UNCHANGED configBase
  <2>1. e.name \notin Lists0 \cup LocalInputs \cup {"NetInput", "BaseInput"}
          /\ "cascades" \notin Lists0
    BY <1>4 DEF Plain, Notifiers, Listed, LocalInputs
  <2>2. \A f \in Lists0 : config'[f] = config[f]
    BY <2>1, <1>0, <1>4 DEF ParsePlain, Shaped, FieldsOf
  <2> QED
    BY <2>1, <2>2, <1>0, <1>4, NothingAppended
<1>5. CASE e.name \in Listed \ {"Pattern"} /\ ParseListed(e) /\ UNCHANGED configBase
  <2>1. e.name \notin Notifiers \cup LocalInputs \cup {"NetInput", "BaseInput", "mInputList"}
    BY <1>5 DEF Listed, Notifiers, LocalInputs
  <2>2. \A f \in Lists0 : config'[f] = IF f = e.name /\ Pushes(e) THEN config[f] \o Split(e)
                                                            ELSE config[f]
    BY <1>0, <1>5 DEF ParseListed, Shaped, FieldsOf
  <2>3. AppendsToNotifiers(e) /\ AppendsToListed(e)
    BY <2>1, <2>2, <1>0, <1>5 DEF AppendsToNotifiers, AppendsToListed
  <2>4. AppendsInputs(e)
    BY <2>1, <2>2, <1>0, <1>5 DEF AppendsInputs
  <2> QED
    BY <2>3, <2>4 DEF Appends
<1> QED
  BY <1>1, <1>2, <1>3, <1>4, <1>5 DEF ParseTop

LEMMA ChildAppends ==
  ASSUME Shaped, NEW e, section # 0, e.name \in Children[document[section].name], ParseChild(e)
  PROVE  Appends(e)
<1> DEFINE Lists0 == Notifiers \cup Listed \cup {"mInputList"}
<1>0. UNCHANGED configBase /\ Lists0 \subseteq Fields /\ ReadsIn(e.name)
  BY DEF ParseChild, Fields, ReadsIn
<1>1. CASE e.name \in Children.Input /\ ParseInput(e)
  <2>1. e.name \in LocalInputs \cup {"NetInput"} /\ "NetInput" \notin LocalInputs
          /\ e.name \notin Notifiers \cup Listed /\ "mInputList" \notin Notifiers \cup Listed
    BY <1>1 DEF Children, LocalInputs, Notifiers, Listed
  <2>2. CASE /\ e.name \in LocalInputs
             /\ config' = [config EXCEPT !.mInputList = @ \o Entries(e)]
             /\ UNCHANGED inputUrlList
    <3>1. \A f \in Lists0 : config'[f] = IF f = "mInputList" THEN config[f] \o Entries(e)
                                         ELSE config[f]
      BY <2>2, <1>0 DEF Shaped, FieldsOf
    <3>2. AppendsToNotifiers(e) /\ AppendsToListed(e)
      BY <3>1, <2>1 DEF AppendsToNotifiers, AppendsToListed
    <3>3. e.name # "NetInput" /\ e.name # "BaseInput"
      BY <2>2 DEF LocalInputs
    <3>4. AppendsInputs(e)
      BY <3>1, <3>3, <2>2, <1>0 DEF AppendsInputs
    <3> QED
      BY <3>2, <3>4 DEF Appends
  <2>3. CASE e.name = "NetInput" /\ inputUrlList' = inputUrlList \o Entries(e) /\ UNCHANGED config
    BY <2>1, <2>3, <1>0 DEF Appends, AppendsToNotifiers, AppendsToListed, AppendsInputs
  <2> QED
    BY <1>1, <2>2, <2>3 DEF ParseInput
<1>2. CASE /\ e.name \in Notifiers /\ UNCHANGED inputUrlList
           /\ ParseNotifier(e) \/ ParseSMTPConfig(e)
  <2> DEFINE list0 == IF e.name \in {"Telegram", "FinalVideo"} THEN config[e.name].list \o Split(e)
                      ELSE Split(e)
  <2>1. \E own, alert : config' = [config EXCEPT ![e.name] =
                                [own |-> own, alert |-> alert, list |-> list0]]
    <3>1. CASE ParseNotifier(e)
      BY <3>1, <1>2 DEF ParseNotifier, Notifiers
    <3>2. CASE ParseSMTPConfig(e)
      BY <3>2 DEF ParseSMTPConfig
    <3> QED
      BY <1>2, <3>1, <3>2
  <2>2. e.name \notin Listed \cup LocalInputs \cup {"NetInput", "BaseInput", "mInputList"}
    BY <1>2 DEF Listed, Notifiers, LocalInputs
  <2>3. PICK own, alert : config' = [config EXCEPT ![e.name] =
                                  [own |-> own, alert |-> alert, list |-> list0]]
    BY <2>1
  <2>4. /\ \A f \in Lists0 \ {e.name} : config'[f] = config[f]
        /\ config'[e.name].list = list0
    BY <2>3, <1>0, <1>2 DEF Shaped, FieldsOf
  <2>5. AppendsToNotifiers(e)
    BY <2>4, <1>0, <1>2 DEF AppendsToNotifiers
  <2>6. AppendsToListed(e) /\ AppendsInputs(e)
    BY <2>2, <2>4, <1>0, <1>2 DEF AppendsToListed, AppendsInputs
  <2> QED
    BY <2>5, <2>6 DEF Appends
<1>3. CASE e.name = "Command" /\ ParseCommand(e) /\ UNCHANGED inputUrlList
  <2>1. e.name \notin Lists0 \cup LocalInputs \cup {"NetInput", "BaseInput"}
          /\ "mCommandMap" \notin Lists0
    BY <1>3 DEF Notifiers, Listed, LocalInputs
  <2>2. \A f \in Lists0 : config'[f] = config[f]
    BY <2>1, <1>0, <1>3 DEF ParseCommand, Shaped, FieldsOf
  <2> QED
    BY <2>1, <2>2, <1>0, <1>3, NothingAppended
<1>4. CASE e.name = "Pattern" /\ ParseListed(e) /\ UNCHANGED inputUrlList
  <2>1. e.name \notin Notifiers \cup LocalInputs \cup {"NetInput", "BaseInput", "mInputList"}
    BY <1>4 DEF Notifiers, LocalInputs
  <2>2. \A f \in Lists0 : config'[f] = IF f = e.name /\ Pushes(e) THEN config[f] \o Split(e)
                                                            ELSE config[f]
    BY <1>0, <1>4 DEF ParseListed, Shaped, FieldsOf, Listed
  <2>3. AppendsToNotifiers(e) /\ AppendsToListed(e)
    BY <2>1, <2>2, <1>0, <1>4 DEF AppendsToNotifiers, AppendsToListed
  <2>4. AppendsInputs(e)
    BY <2>1, <2>2, <1>0, <1>4 DEF AppendsInputs
  <2> QED
    BY <2>3, <2>4 DEF Appends
<1> QED
  BY <1>1, <1>2, <1>3, <1>4 DEF ParseChild

LEMMA ElementAppends ==
  ASSUME Shaped, NEW element \in Elements, StartElement(element)
  PROVE  Appends(Tag(element))
<1> DEFINE e == Tag(element)
<1>1. \/ e.name \in ReadAt(section) /\ section = 0 /\ ParseTop(e)
      \/ e.name \in ReadAt(section) /\ section # 0 /\ ParseChild(e)
      \/ /\ e.name \notin ReadAt(section)
         /\ UNCHANGED <<section, locals, config, algoConfig>>
  BY DEF StartElement, Tag
<1> HIDE DEF e
<1>2. Appends(e)
  <2>1. CASE e.name \in ReadAt(section) /\ section = 0 /\ ParseTop(e)
    BY <2>1, TopAppends
  <2>2. CASE e.name \in ReadAt(section) /\ section # 0 /\ ParseChild(e)
    BY <2>2, ChildAppends DEF ReadAt
  <2>3. CASE /\ e.name \notin ReadAt(section)
             /\ UNCHANGED <<section, locals, config, algoConfig>>
    BY <2>3 DEF ReadAt, locals, ReadsIn, Appends, AppendsToNotifiers, AppendsToListed, AppendsInputs
  <2> QED
    BY <1>1, <2>1, <2>2, <2>3
<1> QED
  BY <1>2 DEF e

\* A list, whatever its entries are.
IsList(l) == l \in Seq(Range(l))

LEMMA Concatenated ==
  ASSUME NEW l, NEW m, IsList(l), IsList(m)
  PROVE  /\ IsList(l \o m)
         /\ Range(l \o m) = Range(l) \cup Range(m)
         /\ \A a, b \in DOMAIN (l \o m) : a < b =>
              \/ \E c, d \in DOMAIN l : c < d /\ (l \o m)[a] = l[c] /\ (l \o m)[b] = l[d]
              \/ (l \o m)[a] \in Range(l) /\ (l \o m)[b] \in Range(m)
              \/ \E c, d \in DOMAIN m : c < d /\ (l \o m)[a] = m[c] /\ (l \o m)[b] = m[d]
<1> DEFINE S == Range(l) \cup Range(m)
           j == Len(l)
           k == Len(m)
           n == l \o m
<1>1. l \in Seq(S) /\ m \in Seq(S)
  BY DEF IsList
<1>2. /\ j \in Nat /\ k \in Nat /\ DOMAIN l = 1..j /\ DOMAIN m = 1..k
      /\ n \in Seq(S) /\ DOMAIN n = 1..(j + k)
      /\ \A i \in 1..j : n[i] = l[i]
      /\ \A i \in 1..(j + k) : i > j => n[i] = m[i - j]
      /\ \A i \in 1..k : n[j + i] = m[i]
  <2> HIDE DEF S
  <2> QED
    BY <1>1
<1> HIDE DEF j, k, n
<1>3. Range(n) = S
  <2>1. ASSUME NEW i \in DOMAIN n
        PROVE  n[i] \in S
    <3>1. CASE i <= j
      BY <3>1, <1>2 DEF Range
    <3>2. CASE i > j
      <4>1. i - j \in 1..k
        BY <3>2, <1>2
      <4> QED
        BY <4>1, <3>2, <1>2 DEF Range
    <3> QED
      BY <3>1, <3>2, <1>2
  <2>2. ASSUME NEW i \in 1..j
        PROVE  l[i] \in Range(n)
    <3>1. i \in DOMAIN n
      BY <1>2
    <3> QED
      BY <3>1, <1>2 DEF Range
  <2>3. ASSUME NEW i \in 1..k
        PROVE  m[i] \in Range(n)
    <3>1. j + i \in DOMAIN n
      BY <1>2
    <3> QED
      BY <3>1, <1>2 DEF Range
  <2> QED
    BY <2>1, <2>2, <2>3, <1>2 DEF Range
<1>4. ASSUME NEW a \in DOMAIN n, NEW b \in DOMAIN n, a < b
      PROVE  \/ \E c, d \in DOMAIN l : c < d /\ n[a] = l[c] /\ n[b] = l[d]
             \/ n[a] \in Range(l) /\ n[b] \in Range(m)
             \/ \E c, d \in DOMAIN m : c < d /\ n[a] = m[c] /\ n[b] = m[d]
  <2>1. CASE b <= j
    BY <2>1, <1>2, <1>4
  <2>2. CASE a <= j /\ b > j
    <3>1. a \in 1..j /\ b - j \in 1..k
      BY <2>2, <1>2
    <3> QED
      BY <3>1, <2>2, <1>2 DEF Range
  <2>3. CASE a > j
    <3>1. a - j \in 1..k /\ b - j \in 1..k /\ a - j < b - j
      BY <2>3, <1>2, <1>4
    <3> QED
      BY <3>1, <2>3, <1>2, <1>4
  <2> QED
    BY <2>1, <2>2, <2>3, <1>2, <1>4
<1> QED
  BY <1>2, <1>3, <1>4 DEF n, IsList

\* Entries of elements further down are put behind a list.
LEMMA ListsGrow ==
  ASSUME NEW l, NEW m, NEW S, NEW T, IsList(l), IsList(m), Lists(l, S), Lists(m, T),
         \A x \in S : \A y \in T : Precedes(x, y)
  PROVE  IsList(l \o m) /\ Lists(l \o m, S \cup T)
<1>1. /\ IsList(l \o m) /\ Range(l \o m) = S \cup T
      /\ \A a, b \in DOMAIN (l \o m) : a < b =>
           \/ \E c, d \in DOMAIN l : c < d /\ (l \o m)[a] = l[c] /\ (l \o m)[b] = l[d]
           \/ (l \o m)[a] \in Range(l) /\ (l \o m)[b] \in Range(m)
           \/ \E c, d \in DOMAIN m : c < d /\ (l \o m)[a] = m[c] /\ (l \o m)[b] = m[d]
  BY Concatenated DEF Lists
<1>2. \A a, b \in DOMAIN (l \o m) : a < b => Precedes((l \o m)[a], (l \o m)[b])
  <2> SUFFICES ASSUME NEW a \in DOMAIN (l \o m), NEW b \in DOMAIN (l \o m), a < b
               PROVE  Precedes((l \o m)[a], (l \o m)[b])
    OBVIOUS
  <2> DEFINE x == (l \o m)[a]
             y == (l \o m)[b]
  <2>1. \/ \E c, d \in DOMAIN l : c < d /\ x = l[c] /\ y = l[d]
        \/ x \in Range(l) /\ y \in Range(m)
        \/ \E c, d \in DOMAIN m : c < d /\ x = m[c] /\ y = m[d]
    BY <1>1
  <2> HIDE DEF x, y
  <2>2. Precedes(x, y)
    BY <2>1 DEF Lists
  <2> QED
    BY <2>2 DEF x, y
<1> QED
  BY <1>1, <1>2 DEF Lists

\* The lists of inputs, likewise.
InputsInOrder(l) == IsList(l) /\ \A a, b \in DOMAIN l : a < b => InputPrecedes(l[a], l[b])

LEMMA InputsGrow ==
  ASSUME NEW l, NEW m, InputsInOrder(l), InputsInOrder(m),
         \A x \in Range(l) : \A y \in Range(m) : InputPrecedes(x, y)
  PROVE  InputsInOrder(l \o m) /\ Range(l \o m) = Range(l) \cup Range(m)
<1>1. /\ IsList(l \o m) /\ Range(l \o m) = Range(l) \cup Range(m)
      /\ \A a, b \in DOMAIN (l \o m) : a < b =>
           \/ \E c, d \in DOMAIN l : c < d /\ (l \o m)[a] = l[c] /\ (l \o m)[b] = l[d]
           \/ (l \o m)[a] \in Range(l) /\ (l \o m)[b] \in Range(m)
           \/ \E c, d \in DOMAIN m : c < d /\ (l \o m)[a] = m[c] /\ (l \o m)[b] = m[d]
  BY Concatenated DEF InputsInOrder
<1>2. ASSUME NEW a \in DOMAIN (l \o m), NEW b \in DOMAIN (l \o m), a < b
      PROVE  InputPrecedes((l \o m)[a], (l \o m)[b])
  <2> DEFINE x == (l \o m)[a]
             y == (l \o m)[b]
  <2>1. \/ \E c, d \in DOMAIN l : c < d /\ x = l[c] /\ y = l[d]
        \/ x \in Range(l) /\ y \in Range(m)
        \/ \E c, d \in DOMAIN m : c < d /\ x = m[c] /\ y = m[d]
    BY <1>1, <1>2
  <2> HIDE DEF x, y
  <2>2. InputPrecedes(x, y)
    BY <2>1 DEF InputsInOrder
  <2> QED
    BY <2>2 DEF x, y
<1> QED
  BY <1>1, <1>2 DEF InputsInOrder

\* What split(";") makes of one element.
LEMMA SplitLists ==
  ASSUME NEW e \in Tags
  PROVE  IsList(Split(e)) /\ Lists(Split(e), {e.at} \X (1..e.count))
<1>1. e.count \in Nat /\ e.at \in Nat
  BY DEF Tags
<1>2. /\ DOMAIN Split(e) = 1..e.count
      /\ \A k \in 1..e.count : Split(e)[k] = <<e.at, k>>
  BY DEF Split
<1>3. Range(Split(e)) = {e.at} \X (1..e.count)
  <2>1. \A x : x \in Range(Split(e)) <=> \E k \in 1..e.count : x = <<e.at, k>>
    BY <1>2 DEF Range
  <2>2. \A x : x \in {e.at} \X (1..e.count) <=> \E k \in 1..e.count : x = <<e.at, k>>
    OBVIOUS
  <2> QED
    BY <2>1, <2>2
<1>4. Split(e) \in Seq({e.at} \X (1..e.count))
  <2>1. Split(e) \in [1..e.count -> {e.at} \X (1..e.count)]
    BY DEF Split
  <2> QED
    BY <2>1, <1>1
<1>5. \A a, b \in DOMAIN Split(e) : a < b => Precedes(Split(e)[a], Split(e)[b])
  BY <1>2 DEF Precedes
<1> QED
  BY <1>3, <1>4, <1>5 DEF IsList, Lists

\* How many entries the input at position i has.
InputCount(i) == IF document[i].name = "NetInput" THEN document[i].count ELSE 1

LEMMA InputMeant ==
  ASSUME NEW I
  PROVE  \A x : x \in InputsOf(I) <=> \E i \in I : \E k \in 1..InputCount(i) : x = InputAt(i, k)
  BY DEF InputsOf, InputCount

LEMMA InputMeantNext ==
  ASSUME NEW I
  PROVE  \A x : x \in InputsOf(I)' <=>
                  \E i \in I : \E k \in 1..InputCount(i)' : x = InputAt(i, k)'
  BY DEF InputsOf, InputCount

LEMMA EntryMeant ==
  ASSUME NEW I
  PROVE  \A x : x \in EntriesOf(I) <=>
                  \E i \in I : \E k \in 1..document[i].count : x = <<i, k>>
<1>1. ASSUME NEW x
      PROVE  x \in EntriesOf(I) <=> \E i \in I : x \in {i} \X (1..document[i].count)
  BY DEF EntriesOf
<1>2. ASSUME NEW x, NEW i \in I
      PROVE  x \in {i} \X (1..document[i].count) <=> \E k \in 1..document[i].count : x = <<i, k>>
  OBVIOUS
<1> QED
  BY <1>1, <1>2

\* The entries of the elements read so far stay when one more is read, which has its own.
LEMMA EntriesKept ==
  ASSUME document \in Seq(Tags), NEW k \in Nat, k = Len(document), NEW e \in Tags,
         e.at = k + 1, document' = Append(document, e), NEW I \in SUBSET (1..k)
  PROVE  /\ EntriesOf(I)' = EntriesOf(I)
         /\ EntriesOf(I \cup {k + 1})' = EntriesOf(I) \cup ({k + 1} \X (1..e.count))
         /\ EntriesOf({k + 1})' = {k + 1} \X (1..e.count)
<1>1. /\ \A i \in 1..k : document'[i] = document[i]
      /\ document'[k + 1] = e
  OBVIOUS
<1>2. \A i \in I : {i} \X (1..document'[i].count) = {i} \X (1..document[i].count)
  BY <1>1
<1>3. EntriesOf(I)' = EntriesOf(I)
  BY <1>2 DEF EntriesOf
<1>4. /\ EntriesOf(I \cup {k + 1})'
           = EntriesOf(I)' \cup ({k + 1} \X (1..document'[k + 1].count))
      /\ EntriesOf({k + 1})' = {k + 1} \X (1..document'[k + 1].count)
  <2> DEFINE of(i) == {i} \X (1..document'[i].count)
  <2>1. \A J, x : x \in UNION {of(i) : i \in J} <=> \E i \in J : x \in of(i)
    <3> HIDE DEF of
    <3> QED
      OBVIOUS
  <2>2. /\ EntriesOf(I \cup {k + 1})' = UNION {of(i) : i \in I \cup {k + 1}}
        /\ EntriesOf(I)' = UNION {of(i) : i \in I}
        /\ EntriesOf({k + 1})' = UNION {of(i) : i \in {k + 1}}
    BY DEF EntriesOf
  <2> HIDE DEF of
  <2>3. UNION {of(i) : i \in I \cup {k + 1}} = (UNION {of(i) : i \in I}) \cup of(k + 1)
    <3>1. \A x : x \in UNION {of(i) : i \in I \cup {k + 1}}
                  <=> x \in (UNION {of(i) : i \in I}) \/ x \in of(k + 1)
      BY <2>1
    <3> QED
      BY <3>1
  <2>4. UNION {of(i) : i \in {k + 1}} = of(k + 1)
    BY <2>1
  <2> QED
    BY <2>2, <2>3, <2>4 DEF of
<1> QED
  BY <1>1, <1>3, <1>4

\* Entries of earlier elements precede those of later ones.
LEMMA EntriesInOrder ==
  ASSUME NEW k \in Nat, NEW I \in SUBSET (1..k), NEW c
  PROVE  \A x \in EntriesOf(I) : \A y \in {k + 1} \X (1..c) : Precedes(x, y)
<1> SUFFICES ASSUME NEW x \in EntriesOf(I), NEW y \in {k + 1} \X (1..c)
             PROVE  Precedes(x, y)
  OBVIOUS
<1>1. PICK i \in I : \E j \in 1..document[i].count : x = <<i, j>>
  BY EntryMeant
<1>2. x[1] = i /\ y[1] = k + 1
  BY <1>1
<1> QED
  BY <1>2 DEF Precedes

\* The inputs read so far stay when one more tag is read.
LEMMA InputsKept ==
  ASSUME Sectioned, NEW k \in Nat, k = Len(document), NEW e \in Tags, e.at = k + 1,
         e.section \in 0..k, document' = Append(document, e)
  PROVE  /\ \A i \in 1..k : InputCount(i)' = InputCount(i)
                           /\ \A m : InputAt(i, m)' = InputAt(i, m)
         /\ \A I \in SUBSET (1..k) : InputsOf(I)' = InputsOf(I)
<1>1. \A i \in 1..k : document'[i] = document[i]
  BY DEF Sectioned
<1>2. \A i \in 1..k : InputCount(i)' = InputCount(i)
  BY <1>1 DEF InputCount
<1>3. ASSUME NEW i \in 1..k, NEW m
      PROVE  InputAt(i, m)' = InputAt(i, m)
  <2>1. PICK s : s = document[i].section
    OBVIOUS
  <2>2. s \in 0..k
    BY <2>1 DEF Sectioned
  <2>3. document'[i] = document[i] /\ document'[i].section = s
    BY <1>1, <2>1
  <2>4. \A a : Inherited("BaseInput", a, s)' = Inherited("BaseInput", a, s)
    BY <2>2, InheritedKept
  <2> QED
    BY <2>1, <2>3, <2>4 DEF InputAt
<1>4. ASSUME NEW I \in SUBSET (1..k)
      PROVE  InputsOf(I)' = InputsOf(I)
  <2>1. \A x : x \in InputsOf(I)' <=>
                 \E i \in I : \E m \in 1..InputCount(i)' : x = InputAt(i, m)'
    BY InputMeantNext
  <2>2. \A x : x \in InputsOf(I) <=> \E i \in I : \E m \in 1..InputCount(i) : x = InputAt(i, m)
    BY InputMeant
  <2>3. \A i \in I : /\ InputCount(i)' = InputCount(i)
                     /\ \A m : InputAt(i, m)' = InputAt(i, m)
    BY <1>2, <1>3
  <2>4. \A x : x \in InputsOf(I)' <=> x \in InputsOf(I)
    BY <2>1, <2>2, <2>3
  <2> QED
    BY <2>4
<1> QED
  BY <1>2, <1>3, <1>4

\* The entries of an input are its numbers on the base.
LEMMA EntriesMeant ==
  ASSUME Sectioned, NEW k \in Nat, k = Len(document), NEW e \in Tags, e.at = k + 1,
         e.section \in 0..k, document' = Append(document, e),
         \A a \in InputBase : configBase[a] = Inherited("BaseInput", a, e.section),
         NEW l, l = Entries(e)
  PROVE  /\ InputsInOrder(l)'
         /\ InputsOf({k + 1})' = Range(l)
         /\ \A I \in SUBSET (1..k) : InputsOf(I \cup {k + 1})' = InputsOf(I) \cup Range(l)
<1> DEFINE n == IF e.name = "NetInput" THEN e.count ELSE 1
           base == [a \in InputBase |->
                      IF a \in e.has \cap Overrides(e.name) THEN e.at
                      ELSE Inherited("BaseInput", a, e.section)]
           numbered(m) == [type |-> e.name, own |-> <<k + 1, m>>, base |-> base]
<1>1. n \in Nat /\ document'[k + 1] = e
  BY DEF Sectioned, Tags
<1>2. l = [m \in 1..n |-> numbered(m)]
  <2>1. base = [a \in InputBase |-> IF a \in Overrides(e.name)
                                    THEN ParseIfNotExist(configBase[a], e, a) ELSE configBase[a]]
    BY DEF ParseIfNotExist
  <2> QED
    BY <2>1 DEF Entries
<1>3. PICK s : s = e.section
  OBVIOUS
<1>4. \A a : Inherited("BaseInput", a, s)' = Inherited("BaseInput", a, s)
  BY <1>3, InheritedKept
<1>5. InputCount(k + 1)' = n
  BY <1>1 DEF InputCount
<1>6. \A m : InputAt(k + 1, m)' = numbered(m)
  BY <1>1, <1>3, <1>4 DEF InputAt
<1>7. \A m : numbered(m).own = <<k + 1, m>> /\ numbered(m).type = e.name
  OBVIOUS
<1> HIDE DEF n, numbered
<1>8. \A x : x \in Range(l) <=> \E m \in 1..n : x = numbered(m)
  BY <1>2 DEF Range
<1>9. InputsInOrder(l)'
  <2>1. l \in Seq(Range(l))
    <3>1. l \in [1..n -> Range(l)]
      BY <1>2 DEF Range
    <3> QED
      BY <3>1, <1>1
  <2>2. ASSUME NEW a \in DOMAIN l, NEW b \in DOMAIN l, a < b
        PROVE  InputPrecedes(l[a], l[b])'
    <3>1. l[a] = numbered(a) /\ l[b] = numbered(b)
      BY <1>2
    <3>2. Precedes(numbered(a).own, numbered(b).own)
      BY <2>2, <1>7 DEF Precedes
    <3> QED
      BY <3>1, <3>2, <1>7 DEF InputPrecedes
  <2> QED
    BY <2>1, <2>2 DEF InputsInOrder, IsList
<1>10. ASSUME NEW J
       PROVE  \A x : x \in InputsOf(J)' <=>
                       \E i \in J : \E m \in 1..InputCount(i)' : x = InputAt(i, m)'
  BY InputMeantNext
<1>11. InputsOf({k + 1})' = Range(l)
  <2>1. \A x : x \in InputsOf({k + 1})' <=> x \in Range(l)
    BY <1>5, <1>6, <1>8, <1>10
  <2> QED
    BY <2>1
<1>12. ASSUME NEW I \in SUBSET (1..k)
       PROVE  InputsOf(I \cup {k + 1})' = InputsOf(I) \cup Range(l)
  <2>1. InputsOf(I)' = InputsOf(I)
    BY InputsKept
  <2>2. \A x : x \in InputsOf(I \cup {k + 1})' <=> x \in InputsOf(I)' \/ x \in Range(l)
    BY <1>5, <1>6, <1>8, <1>10
  <2> QED
    BY <2>1, <2>2
<1> QED
  BY <1>9, <1>11, <1>12

\* The network inputs that wait for the end of their section.
UrlPending == {i \in In("NetInput") : document[i].section = section}

\* The elements behind the start of the section that is open are all in it.
SectionHolds ==
  \A i \in 1..Len(document) : section # 0 /\ i > section => document[i].section = section

\* The base of the inputs, which does not change inside a section.
InputBaseHolds ==
  /\ configBase = [a \in InputBase |-> ValueAt(LatestOf(Top("BaseInput")), a)]
  /\ section # 0 => \A j \in Top("BaseInput") : j < section

InputsHold ==
  /\ InputsInOrder(config.mInputList) /\ Range(config.mInputList) = InputsOf(InputsDone)
  /\ InputsInOrder(inputUrlList) /\ Range(inputUrlList) = InputsOf(UrlPending)

NotifiersHold ==
  \A n \in Notifiers : IsList(config[n].list) /\ Lists(config[n].list, NotifierEntries(n))

ListedHold == \A n \in Listed : IsList(config[n]) /\ Lists(config[n], EntriesOf(Listing(n)))

ListsHold == SectionHolds /\ InputBaseHolds /\ InputsHold /\ NotifiersHold /\ ListedHold

ListsInv == outcome \in {"start", "reading"} => ListsHold

\* The empty list has no entries.
LEMMA NothingListed ==
  IsList(<<>>) /\ Lists(<<>>, EntriesOf({})) /\ InputsInOrder(<<>>) /\ Range(<<>>) = InputsOf({})
<1>1. Range(<<>>) = {} /\ DOMAIN <<>> = {} /\ <<>> \in Seq({})
  BY DEF Range
<1>2. EntriesOf({}) = {} /\ InputsOf({}) = {}
  BY DEF EntriesOf, InputsOf
<1>3. IsList(<<>>)
  BY <1>1 DEF IsList
<1>4. Lists(<<>>, {})
  BY <1>1 DEF Lists
<1>5. InputsInOrder(<<>>)
  BY <1>1, <1>3 DEF InputsInOrder
<1> QED
  BY <1>1, <1>2, <1>3, <1>4, <1>5

LEMMA ListsInitial == ReaderInit => ListsInv
<1> SUFFICES ASSUME ReaderInit PROVE ListsHold
  BY DEF ListsInv
<1>1. /\ document = <<>> /\ section = 0 /\ inputUrlList = <<>>
      /\ configBase = [a \in InputBase |-> Unset]
      /\ \A n \in Notifiers : config[n].list = <<>>
      /\ \A n \in Listed : config[n] = <<>>
      /\ config.mInputList = <<>>
  BY DEF ReaderInit, Fields, Notifiers, Listed, Plain, Null
<1>2. \A n : Top(n) = {} /\ In(n) = {} /\ Read(n) = {} /\ Listing(n) = {}
  BY <1>1 DEF Top, In, Read, Listing
<1>3. LatestOf({}) = 0 /\ \A a : ValueAt(0, a) = Unset
  BY DEF LatestOf, ValueAt
<1>4. InputsDone = {} /\ UrlPending = {}
  BY <1>2 DEF InputsDone, UrlPending
<1>5. \A n : NotifierEntries(n) = EntriesOf({})
  BY <1>2, <1>3 DEF NotifierEntries
<1>6. SectionHolds /\ InputBaseHolds
  BY <1>1, <1>2, <1>3 DEF SectionHolds, InputBaseHolds
<1>7. InputsHold /\ NotifiersHold /\ ListedHold
  BY <1>1, <1>2, <1>4, <1>5, NothingListed DEF InputsHold, NotifiersHold, ListedHold
<1> QED
  BY <1>6, <1>7 DEF ListsHold

\* What is meant changes only with the document and the section.
LEMMA ListsMeantKept ==
  ASSUME UNCHANGED document
  PROVE  /\ \A n : EntriesOf(Listing(n))' = EntriesOf(Listing(n))
                  /\ NotifierEntries(n)' = NotifierEntries(n)
         /\ \A n : In(n)' = In(n)
         /\ \A I : InputsOf(I)' = InputsOf(I)
         /\ InputBaseHolds /\ UNCHANGED <<configBase, section>> => InputBaseHolds'
<1>1. \A n : In(n)' = In(n) /\ Top(n)' = Top(n)
  BY DEF In, Top
<1>2. \A n : Read(n)' = Read(n)
  BY <1>1 DEF Read
<1>3. \A I : EntriesOf(I)' = EntriesOf(I)
  BY DEF EntriesOf
<1>4. \A n : EntriesOf(Listing(n))' = EntriesOf(Listing(n))
  BY <1>2 DEF EntriesOf, Listing, Gave
<1>5. \A n : NotifierEntries(n)' = NotifierEntries(n)
  BY <1>2 DEF NotifierEntries, EntriesOf
<1>6. \A I : InputsOf(I)' = InputsOf(I)
  BY DEF InputsOf, InputAt, Inherited, Top, ValueAt, Gave
<1>7. InputBaseHolds /\ UNCHANGED <<configBase, section>> => InputBaseHolds'
  BY <1>1 DEF InputBaseHolds, ValueAt, Gave
<1> QED
  BY <1>1, <1>4, <1>5, <1>6, <1>7

\* The steps that write no field.
LEMMA ListsUntouched ==
  ASSUME ListsHold, UNCHANGED <<document, section, configBase, inputUrlList, config>>
  PROVE  ListsHold'
<1>1. SectionHolds' /\ InputBaseHolds'
  BY ListsMeantKept DEF ListsHold, SectionHolds
<1>2. InputsDone' = InputsDone /\ UrlPending' = UrlPending
  BY ListsMeantKept DEF InputsDone, UrlPending
<1>3. InputsHold'
  <2>1. PICK I, J : I = InputsDone /\ J = UrlPending
    OBVIOUS
  <2>2. InputsOf(InputsDone)' = InputsOf(I)' /\ InputsOf(UrlPending)' = InputsOf(J)'
    BY <1>2, <2>1 DEF InputsOf
  <2>3. InputsOf(I)' = InputsOf(I) /\ InputsOf(J)' = InputsOf(J)
    BY ListsMeantKept
  <2>4. \A l : InputsInOrder(l)' <=> InputsInOrder(l)
    BY DEF InputsInOrder, InputPrecedes
  <2>5. InputsInOrder(config.mInputList)' /\ InputsInOrder(inputUrlList)'
    BY <2>4 DEF ListsHold, InputsHold, InputsInOrder, InputPrecedes
  <2> QED
    BY <2>1, <2>2, <2>3, <2>5 DEF ListsHold, InputsHold
<1>4. NotifiersHold' /\ ListedHold'
  BY ListsMeantKept DEF ListsHold, NotifiersHold, ListedHold
<1> QED
  BY <1>1, <1>3, <1>4 DEF ListsHold
\* Every input that is read stands in a section, those that wait in the one that is open.
LEMMA InputsPlaced ==
  ASSUME ReaderTypeOK, Sectioned, SectionHolds, NEW k \in Nat, k = Len(document)
  PROVE  /\ InputsDone \in SUBSET (1..k) /\ UrlPending \in SUBSET (1..k)
         /\ \A i \in InputsDone :
              /\ document[i].name \in LocalInputs \/ document[i].section # section
              /\ section # 0 => document[i].section <= section
         /\ \A i \in UrlPending : document[i].name = "NetInput" /\ document[i].section = section
         /\ section = 0 => UrlPending = {}
<1>1. \A n : In(n) \subseteq 1..k
        /\ \A i \in In(n) : document[i].name = n /\ document[i].section # 0
  BY DEF In
<1> DEFINE Local0 == UNION {In(n) : n \in LocalInputs}
<1>0. \A i : i \in Local0 <=> \E n \in LocalInputs : i \in In(n)
  OBVIOUS
<1> HIDE DEF Local0
<1>2. InputsDone \in SUBSET (1..k) /\ UrlPending \in SUBSET (1..k)
  <2>1. InputsDone = Local0 \cup {i \in In("NetInput") : document[i].section # section}
    BY DEF InputsDone, Local0
  <2>2. Local0 \subseteq 1..k
    BY <1>0, <1>1
  <2> QED
    BY <2>1, <2>2, <1>1 DEF UrlPending
<1>3. \A i \in UrlPending : document[i].name = "NetInput" /\ document[i].section = section
                             /\ document[i].section # 0
  BY <1>1 DEF UrlPending
<1>4. \A i \in InputsDone : document[i].name \in LocalInputs \/ document[i].section # section
  BY <1>0, <1>1 DEF InputsDone, Local0
<1>5. ASSUME NEW i \in 1..k, section # 0
      PROVE  document[i].section <= section
  <2>1. document[i].section \in 0..(i - 1) /\ section \in Nat
    BY DEF Sectioned, ReaderTypeOK
  <2>2. i > section => document[i].section = section
    BY <1>5 DEF SectionHolds
  <2>3. CASE i > section
    BY <2>1, <2>2, <2>3
  <2>4. CASE ~(i > section)
    BY <2>1, <2>4
  <2> QED
    BY <2>3, <2>4
<1> QED
  BY <1>2, <1>3, <1>4, <1>5

\* At the end of a section the network inputs that waited follow all others.
LEMMA EndElementLists ==
  ASSUME ReaderTypeOK, Shaped, Sectioned, ListsHold, EndElement
  PROVE  ListsHold'
<1>0. PICK k \in Nat : k = Len(document)
  BY DEF Sectioned
<1>1. /\ section # 0 /\ section' = 0 /\ inputUrlList' = <<>>
      /\ config' = [config EXCEPT !.mInputList = @ \o inputUrlList]
      /\ UNCHANGED <<document, configBase>>
  BY DEF EndElement
<1>2. /\ \A f \in Notifiers \cup Listed : config'[f] = config[f]
      /\ config'.mInputList = config.mInputList \o inputUrlList
  BY <1>1 DEF Shaped, FieldsOf, Fields, Notifiers, Listed
<1>3. PICK I, J : I = InputsDone /\ J = UrlPending
  OBVIOUS
<1>4. /\ I \in SUBSET (1..k) /\ J \in SUBSET (1..k)
      /\ \A i \in I : /\ document[i].name \in LocalInputs \/ document[i].section # section
                      /\ document[i].section <= section
      /\ \A i \in J : document[i].name = "NetInput" /\ document[i].section = section
  BY <1>0, <1>1, <1>3, InputsPlaced DEF ListsHold
<1>5. PICK l, m : l = config.mInputList /\ m = inputUrlList
  OBVIOUS
<1>6. /\ InputsInOrder(l) /\ InputsInOrder(m)
      /\ Range(l) = InputsOf(I) /\ Range(m) = InputsOf(J)
  BY <1>3, <1>5 DEF ListsHold, InputsHold
<1>7. ASSUME NEW x \in Range(l), NEW y \in Range(m)
      PROVE  InputPrecedes(x, y)
  <2>1. PICK i \in I : \E n \in 1..InputCount(i) : x = InputAt(i, n)
    BY <1>6, <1>7, InputMeant
  <2>2. PICK j \in J : \E n \in 1..InputCount(j) : y = InputAt(j, n)
    BY <1>6, <1>7, InputMeant
  <2>3. /\ x.own[1] = i /\ x.type = document[i].name
        /\ y.own[1] = j /\ y.type = document[j].name
    BY <2>1, <2>2 DEF InputAt
  <2>4. "NetInput" \notin LocalInputs
    BY DEF LocalInputs
  <2>5. document[i].section \in Nat /\ section \in Nat
    BY <1>0, <1>4, <2>1 DEF Sectioned, ReaderTypeOK
  <2>6. document[i].section < section \/ document[i].section = section
    BY <1>4, <2>1, <2>5
  <2> QED
    BY <1>4, <2>1, <2>2, <2>3, <2>4, <2>6 DEF InputPrecedes
<1>8. InputsInOrder(l \o m) /\ Range(l \o m) = Range(l) \cup Range(m)
  BY <1>6, <1>7, InputsGrow
<1>9. /\ \A n : In(n)' = In(n)
      /\ \A S : InputsOf(S)' = InputsOf(S)
  BY <1>1, ListsMeantKept
<1>10. InputsDone' = I \cup J
  <2>1. \A i \in In("NetInput") : document[i].section # 0
    BY DEF In
  <2>2. InputsDone' = (UNION {In(n) : n \in LocalInputs}) \cup In("NetInput")
    BY <1>1, <1>9, <2>1 DEF InputsDone
  <2> DEFINE Local0 == UNION {In(n) : n \in LocalInputs}
  <2>3. InputsDone = Local0 \cup {i \in In("NetInput") : document[i].section # section}
    BY DEF InputsDone
  <2>4. UrlPending = {i \in In("NetInput") : document[i].section = section}
    BY DEF UrlPending
  <2> HIDE DEF Local0
  <2>5. Local0 \cup In("NetInput") = InputsDone \cup UrlPending
    BY <2>3, <2>4
  <2> QED
    BY <1>3, <2>2, <2>5 DEF Local0
<1>11. UrlPending' = {}
  <2>1. \A i \in In("NetInput") : document[i].section # 0
    BY DEF In
  <2> QED
    BY <1>1, <1>9, <2>1 DEF UrlPending
<1>12. InputsOf(I \cup J) = InputsOf(I) \cup InputsOf(J)
  <2>1. \A x : x \in InputsOf(I \cup J) <=> x \in InputsOf(I) \/ x \in InputsOf(J)
    BY InputMeant
  <2> QED
    BY <2>1
<1>13. InputsHold'
  <2>1. PICK s : s = l \o m
    OBVIOUS
  <2>2. config'.mInputList = s /\ inputUrlList' = <<>>
    BY <1>1, <1>2, <1>5, <2>1
  <2>3. InputsInOrder(s) /\ Range(s) = InputsOf(I) \cup InputsOf(J)
    BY <1>6, <1>8, <2>1
  <2>4. InputsInOrder(s)' /\ InputsInOrder(<<>>)'
    <3>1. \A t : InputsInOrder(t)' <=> InputsInOrder(t)
      BY <1>1 DEF InputsInOrder, InputPrecedes
    <3> QED
      BY <2>3, <3>1, NothingListed
  <2>5. InputsInOrder(config.mInputList)' /\ InputsInOrder(inputUrlList)'
    BY <2>2, <2>4 DEF InputsInOrder, InputPrecedes, IsList, Range
  <2>6. InputsOf(InputsDone)' = InputsOf(I \cup J)
    <3>1. PICK S : S = I \cup J
      OBVIOUS
    <3>2. InputsOf(InputsDone)' = InputsOf(S)'
      BY <1>10, <3>1 DEF InputsOf
    <3> QED
      BY <1>9, <3>1, <3>2
  <2>7. InputsOf(UrlPending)' = {}
    BY <1>11 DEF InputsOf
  <2>8. Range(config.mInputList)' = Range(s) /\ Range(inputUrlList)' = {}
    BY <2>2 DEF Range
  <2> QED
    BY <1>12, <2>3, <2>5, <2>6, <2>7, <2>8 DEF InputsHold
<1>14. SectionHolds' /\ InputBaseHolds'
  <2>1. \A n : Top(n)' = Top(n)
    BY <1>1 DEF Top
  <2> QED
    BY <1>1, <2>1 DEF ListsHold, SectionHolds, InputBaseHolds, ValueAt, Gave
<1>15. NotifiersHold' /\ ListedHold'
  BY <1>1, <1>2, ListsMeantKept DEF ListsHold, NotifiersHold, ListedHold
<1> QED
  BY <1>13, <1>14, <1>15 DEF ListsHold

\* What a list of entries becomes with the element e.
LEMMA EntriesGrow ==
  ASSUME document \in Seq(Tags), NEW k \in Nat, k = Len(document), NEW e \in Tags,
         e.at = k + 1, document' = Append(document, e), NEW I \in SUBSET (1..k),
         NEW l, IsList(l)
  PROVE  /\ Lists(l, EntriesOf(I)) =>
              IsList(l \o Split(e)) /\ Lists(l \o Split(e), EntriesOf(I \cup {k + 1})')
         /\ IsList(Split(e)) /\ Lists(Split(e), EntriesOf({k + 1})')
         /\ Lists(l, EntriesOf(I)) => Lists(l, EntriesOf(I)')
<1>1. PICK S, T : S = EntriesOf(I) /\ T = {k + 1} \X (1..e.count)
  OBVIOUS
<1>2. /\ EntriesOf(I)' = S /\ EntriesOf({k + 1})' = T
      /\ EntriesOf(I \cup {k + 1})' = S \cup T
  BY <1>1, EntriesKept
<1>3. IsList(Split(e)) /\ Lists(Split(e), T)
  BY <1>1, SplitLists
<1>4. \A x \in S : \A y \in T : Precedes(x, y)
  BY <1>1, EntriesInOrder
<1>5. Lists(l, S) => IsList(l \o Split(e)) /\ Lists(l \o Split(e), S \cup T)
  BY <1>3, <1>4, ListsGrow
<1> QED
  BY <1>1, <1>2, <1>3, <1>5

\* The inputs read so far keep their order when one more tag is read.
LEMMA OrderKept ==
  ASSUME Sectioned, NEW k \in Nat, k = Len(document), NEW e \in Tags,
         document' = Append(document, e), NEW I \in SUBSET (1..k),
         NEW l, InputsInOrder(l), Range(l) = InputsOf(I)
  PROVE  InputsInOrder(l)'
<1>1. \A i \in 1..k : document'[i] = document[i]
  BY DEF Sectioned
<1>2. ASSUME NEW x \in Range(l)
      PROVE  x.own[1] \in 1..k
  <2>1. PICK i \in I : \E n \in 1..InputCount(i) : x = InputAt(i, n)
    <3>1. \A z : z \in InputsOf(I) <=> \E i \in I : \E n \in 1..InputCount(i) : z = InputAt(i, n)
      BY InputMeant
    <3> QED
      BY <3>1, <1>2
  <2> QED
    BY <2>1 DEF InputAt
<1>3. ASSUME NEW a \in DOMAIN l, NEW b \in DOMAIN l, a < b
      PROVE  InputPrecedes(l[a], l[b])'
  <2>1. l[a] \in Range(l) /\ l[b] \in Range(l)
    BY DEF Range
  <2>2. InputPrecedes(l[a], l[b])
    BY <1>3 DEF InputsInOrder
  <2> QED
    BY <1>1, <1>2, <2>1, <2>2 DEF InputPrecedes
<1> QED
  BY <1>3 DEF InputsInOrder, IsList

\* The entries of the element e follow those of the positions I in its section or before.
LEMMA InputsAppended ==
  ASSUME Sectioned, NEW k \in Nat, k = Len(document), NEW e \in Tags, e.at = k + 1,
         e.section \in 0..k, document' = Append(document, e),
         \A a \in InputBase : configBase[a] = Inherited("BaseInput", a, e.section),
         NEW I \in SUBSET (1..k), NEW l, InputsInOrder(l), Range(l) = InputsOf(I),
         \A i \in I : \/ document[i].section < e.section
                      \/ /\ document[i].section = e.section
                         /\ document[i].name = "NetInput" <=> e.name = "NetInput",
         NEW m, m = Entries(e)
  PROVE  InputsInOrder(l \o m)' /\ Range(l \o m) = InputsOf(I \cup {k + 1})'
<1>1. /\ InputsInOrder(m)' /\ InputsOf({k + 1})' = Range(m)
      /\ InputsOf(I \cup {k + 1})' = InputsOf(I) \cup Range(m)
  BY EntriesMeant
<1>2. InputsInOrder(l)'
  BY OrderKept
<1>3. /\ \A i \in 1..k : document'[i] = document[i]
      /\ document'[k + 1] = e
  BY DEF Sectioned
<1>4. ASSUME NEW x \in Range(l), NEW y \in Range(m)
      PROVE  InputPrecedes(x, y)'
  <2>1. PICK i \in I : \E n \in 1..InputCount(i) : x = InputAt(i, n)
    <3>1. \A z : z \in InputsOf(I) <=> \E i \in I : \E n \in 1..InputCount(i) : z = InputAt(i, n)
      BY InputMeant
    <3> QED
      BY <3>1, <1>4
  <2>2. x.own[1] = i /\ x.type = document[i].name
    BY <2>1 DEF InputAt
  <2>3. y.own[1] = k + 1 /\ y.type = e.name
    <3>1. PICK n \in DOMAIN m : y = m[n]
      BY <1>4 DEF Range
    <3> QED
      BY <3>1 DEF Entries
  <2>4. Precedes(x.own, y.own)
    <3>1. i < k + 1
      BY ONLY <2>1, k \in Nat, I \in SUBSET (1..k)
    <3> QED
      BY <2>2, <2>3, <3>1 DEF Precedes
  <2>5. \/ document[i].section < e.section
        \/ /\ document[i].section = e.section
           /\ document[i].name = "NetInput" <=> e.name = "NetInput"
    BY <2>1
  <2> QED
    BY <1>3, <2>1, <2>2, <2>3, <2>4, <2>5 DEF InputPrecedes
<1>5. InputsInOrder(l \o m)' /\ Range(l \o m) = Range(l) \cup Range(m)
  <2>1. \A a, b \in DOMAIN l : a < b => InputPrecedes(l[a], l[b])'
    BY <1>2 DEF InputsInOrder
  <2>2. \A a, b \in DOMAIN m : a < b => InputPrecedes(m[a], m[b])'
    BY <1>1 DEF InputsInOrder
  <2>3. IsList(l) /\ IsList(m)
    BY <1>1, <1>2 DEF InputsInOrder, IsList
  <2>4. /\ IsList(l \o m) /\ Range(l \o m) = Range(l) \cup Range(m)
        /\ \A a, b \in DOMAIN (l \o m) : a < b =>
             \/ \E c, d \in DOMAIN l : c < d /\ (l \o m)[a] = l[c] /\ (l \o m)[b] = l[d]
             \/ (l \o m)[a] \in Range(l) /\ (l \o m)[b] \in Range(m)
             \/ \E c, d \in DOMAIN m : c < d /\ (l \o m)[a] = m[c] /\ (l \o m)[b] = m[d]
    BY <2>3, Concatenated
  <2>5. ASSUME NEW a \in DOMAIN (l \o m), NEW b \in DOMAIN (l \o m), a < b
        PROVE  InputPrecedes((l \o m)[a], (l \o m)[b])'
    <3>1. PICK x, y : x = (l \o m)[a] /\ y = (l \o m)[b]
      OBVIOUS
    <3>2. \/ \E c, d \in DOMAIN l : c < d /\ x = l[c] /\ y = l[d]
          \/ x \in Range(l) /\ y \in Range(m)
          \/ \E c, d \in DOMAIN m : c < d /\ x = m[c] /\ y = m[d]
      BY <2>4, <2>5, <3>1
    <3>3. InputPrecedes(x, y)'
      BY <2>1, <2>2, <3>2, <1>4
    <3> QED
      BY <3>1, <3>3
  <2> QED
    BY <2>4, <2>5 DEF InputsInOrder, IsList
<1> QED
  BY <1>1, <1>5

\* What a start tag means for the lists: where it is read and what it adds.
LEMMA NotifiersGrow ==
  ASSUME Sectioned, NEW k \in Nat, k = Len(document), NEW e \in Tags, e.at = k + 1,
         e.section = section, section \in 0..k, document' = Append(document, e),
         NotifiersHold, AppendsToNotifiers(e)
  PROVE  NotifiersHold'
<1>1. /\ \A n : In(n)' = IF e.name = n /\ ReadsIn(n) THEN In(n) \cup {k + 1} ELSE In(n)
      /\ \A n : In(n) \in SUBSET (1..k)
  BY Grown DEF Sectioned, ReadsIn
<1>2. \A n : /\ LatestOf(In(n)) \in 0..k
             /\ LatestOf(In(n)') = IF e.name = n /\ ReadsIn(n) THEN k + 1 ELSE LatestOf(In(n))
  BY LatestKept DEF ReadsIn
<1>3. document \in Seq(Tags)
  BY DEF Sectioned
<1>4. ASSUME NEW n \in Notifiers
      PROVE  IsList(config[n].list)' /\ Lists(config[n].list, NotifierEntries(n))'
  <2>1. Read(n) = In(n) /\ Read(n)' = In(n)'
    BY DEF Read, Notifiers, Sections, Children
  <2>2. PICK l, I, J : /\ l = config[n].list /\ J = In(n)
                       /\ I = IF n \in {"Telegram", "FinalVideo"} THEN In(n)
                              ELSE {LatestOf(In(n))} \ {0}
    OBVIOUS
  <2>3. I \in SUBSET (1..k) /\ J \in SUBSET (1..k)
    BY <1>1, <1>2, <2>2
  <2>4. IsList(l) /\ Lists(l, EntriesOf(I))
    BY <2>1, <2>2 DEF NotifiersHold, NotifierEntries
  <2>5. PICK m, K : /\ m = config'[n].list
                    /\ K = IF n \in {"Telegram", "FinalVideo"} THEN In(n)'
                           ELSE {LatestOf(In(n)')} \ {0}
    OBVIOUS
  <2>6. NotifierEntries(n)' = EntriesOf(K)'
    BY <2>1, <2>5 DEF NotifierEntries, EntriesOf
  <2>7. IsList(m) /\ Lists(m, EntriesOf(K)')
    <3>1. CASE e.name = n /\ ReadsIn(n) /\ n \in {"Telegram", "FinalVideo"}
      <4>1. m = l \o Split(e) /\ K = I \cup {k + 1}
        BY <3>1, <1>1, <2>2, <2>5 DEF AppendsToNotifiers
      <4> QED
        BY <4>1, <1>3, <2>3, <2>4, EntriesGrow
    <3>2. CASE e.name = n /\ ReadsIn(n) /\ n \notin {"Telegram", "FinalVideo"}
      <4>1. m = Split(e) /\ K = {k + 1}
        BY <3>2, <1>2, <2>2, <2>5 DEF AppendsToNotifiers
      <4> QED
        BY <4>1, <1>3, <2>3, <2>4, EntriesGrow
    <3>3. CASE ~(e.name = n /\ ReadsIn(n))
      <4>1. m = l /\ K = I
        BY <3>3, <1>1, <1>2, <2>2, <2>5 DEF AppendsToNotifiers
      <4> QED
        BY <4>1, <1>3, <2>3, <2>4, EntriesGrow
    <3> QED
      BY <3>1, <3>2, <3>3
  <2> QED
    BY <2>5, <2>6, <2>7 DEF IsList, Lists, Range
<1> QED
  BY <1>4 DEF NotifiersHold

LEMMA ListedGrow ==
  ASSUME Sectioned, NEW k \in Nat, k = Len(document), NEW e \in Tags, e.at = k + 1,
         e.section = section, section \in 0..k, document' = Append(document, e),
         ListedHold, AppendsToListed(e)
  PROVE  ListedHold'
<1>1. /\ \A n : In(n)' = IF e.name = n /\ ReadsIn(n) THEN In(n) \cup {k + 1} ELSE In(n)
      /\ \A n : Top(n)' = IF e.name = n /\ section = 0 THEN Top(n) \cup {k + 1} ELSE Top(n)
      /\ \A n : In(n) \in SUBSET (1..k) /\ Top(n) \in SUBSET (1..k)
  BY Grown DEF Sectioned, ReadsIn
<1>2. document \in Seq(Tags)
  BY DEF Sectioned
<1>3. ASSUME NEW n \in Listed
      PROVE  IsList(config[n])' /\ Lists(config[n], EntriesOf(Listing(n)))'
  <2>1. /\ Read(n) = IF n = "Pattern" THEN In(n) ELSE Top(n)
        /\ Read(n)' = IF n = "Pattern" THEN In(n)' ELSE Top(n)'
    <3>1. (\E s \in Sections : n \in Children[s]) <=> n = "Pattern"
      <4>1. Sections = {"Input", "CommonAlert", "Commands", "Patterns"}
        BY DEF Sections, Children
      <4>2. /\ Children["Input"] = LocalInputs \cup {"NetInput"}
            /\ Children["CommonAlert"] = Notifiers
            /\ Children["Commands"] = {"Command"} /\ Children["Patterns"] = {"Pattern"}
        BY DEF Children
      <4> QED
        BY <4>1, <4>2 DEF Listed, LocalInputs, Notifiers
    <3> QED
      BY <3>1 DEF Read
  <2> DEFINE reads == e.name = n /\ (IF n = "Pattern" THEN ReadsIn(n) ELSE section = 0)
  <2>2. Listing(n) \in SUBSET (1..k)
        /\ Listing(n)' = IF reads /\ Pushes(e) THEN Listing(n) \cup {k + 1} ELSE Listing(n)
    <3>1. Read(n) \in SUBSET (1..k)
          /\ Read(n)' = IF reads THEN Read(n) \cup {k + 1} ELSE Read(n)
      BY <1>1, <2>1
    <3> HIDE DEF reads
    <3>2. /\ document'[k + 1] = e
          /\ \A i \in 1..k : document'[i] = document[i]
      BY <1>2, AppendProperties
    <3>3. \A i \in Read(n) : Gave(i, "Expression")' <=> Gave(i, "Expression")
      BY <3>1, <3>2 DEF Gave
    <3>4. reads => (Pushes(e) <=> (n = "Condition" => Gave(k + 1, "Expression")'))
      BY <3>2 DEF reads, Pushes, Gave
    <3>5. Listing(n)' = {i \in Read(n)' : n = "Condition" => Gave(i, "Expression")'}
      BY DEF Listing
    <3>6. Listing(n) = {i \in Read(n) : n = "Condition" => Gave(i, "Expression")}
      BY DEF Listing
    <3>7. CASE reads
      <4>1. CASE Pushes(e)
        BY <3>1, <3>3, <3>4, <3>5, <3>6, <3>7, <4>1
      <4>2. CASE ~Pushes(e)
        <5>1. k + 1 \notin Read(n)
          BY <3>1
        <5> QED
          BY <3>1, <3>3, <3>4, <3>5, <3>6, <3>7, <4>2, <5>1
      <4> QED
        BY <4>1, <4>2
    <3>8. CASE ~reads
      BY <3>1, <3>3, <3>5, <3>6, <3>8
    <3> QED
      BY <3>7, <3>8
  <2>3. PICK l, I, m, K : l = config[n] /\ I = Listing(n) /\ m = config'[n] /\ K = Listing(n)'
    OBVIOUS
  <2>4. I \in SUBSET (1..k)
    BY <2>2, <2>3
  <2>5. IsList(l) /\ Lists(l, EntriesOf(I))
    BY <2>3 DEF ListedHold
  <2>6. EntriesOf(Listing(n))' = EntriesOf(K)'
    BY <2>3 DEF EntriesOf
  <2>7. IsList(m) /\ Lists(m, EntriesOf(K)')
    <3>1. CASE reads /\ Pushes(e)
      <4>1. m = l \o Split(e) /\ K = I \cup {k + 1}
        BY <3>1, <2>2, <2>3 DEF AppendsToListed
      <4> QED
        BY <4>1, <1>2, <2>4, <2>5, EntriesGrow
    <3>2. CASE ~(reads /\ Pushes(e))
      <4>1. m = l /\ K = I
        BY <3>2, <2>2, <2>3 DEF AppendsToListed
      <4> QED
        BY <4>1, <1>2, <2>4, <2>5, EntriesGrow
    <3> QED
      BY <3>1, <3>2
  <2> QED
    BY <2>3, <2>6, <2>7 DEF IsList, Lists, Range
<1> QED
  BY <1>3 DEF ListedHold

LEMMA BaseKept ==
  ASSUME Sectioned, NEW k \in Nat, k = Len(document), NEW e \in Tags, e.at = k + 1,
         e.section = section, section \in 0..k, document' = Append(document, e),
         SectionHolds, InputBaseHolds, WritesSection(e), AppendsInputs(e)
  PROVE  SectionHolds' /\ InputBaseHolds'
<1>1. /\ Len(document') = k + 1 /\ document'[k + 1] = e
      /\ \A i \in 1..k : document'[i] = document[i]
      /\ \A n : Top(n)' = IF e.name = n /\ section = 0 THEN Top(n) \cup {k + 1} ELSE Top(n)
      /\ \A n : Top(n) \in SUBSET (1..k)
  BY Grown DEF Sectioned
<1>2. \A n : /\ LatestOf(Top(n)) \in 0..k
             /\ LatestOf(Top(n)') = IF e.name = n /\ section = 0 THEN k + 1 ELSE LatestOf(Top(n))
  BY LatestKept
<1>3. /\ \A i \in 0..k : \A a : ValueAt(i, a)' = ValueAt(i, a)
      /\ \A a : ValueAt(k + 1, a)' = Parse(e, a)
  BY ValuesKept DEF Sectioned
<1>4. section' = IF section = 0 /\ e.name \in Sections THEN k + 1 ELSE section
  BY DEF WritesSection
<1>5. SectionHolds'
  <2>1. ASSUME NEW i \in 1..(k + 1), section' # 0, i > section'
        PROVE  document'[i].section = section'
    <3>1. section # 0 /\ section' = section
      BY <1>4, <2>1
    <3>2. CASE i = k + 1
      BY <3>1, <3>2, <1>1
    <3>3. CASE i # k + 1
      <4>1. i \in 1..k
        BY <3>3
      <4> QED
        BY <3>1, <4>1, <1>1, <2>1 DEF SectionHolds
    <3> QED
      BY <3>2, <3>3
  <2> QED
    BY <1>1, <2>1 DEF SectionHolds
<1>6. "BaseInput" \notin Sections
  BY DEF Sections, Children
<1>7. PICK S, j : S = Top("BaseInput") /\ j = LatestOf(Top("BaseInput")')
  OBVIOUS
<1>8. InputBaseHolds'
  <2>1. /\ configBase = [a \in InputBase |-> ValueAt(LatestOf(S), a)]
        /\ section # 0 => \A i \in S : i < section
    BY <1>7 DEF InputBaseHolds
  <2>2. configBase' = IF e.name = "BaseInput" /\ section = 0
                      THEN [a \in InputBase |-> Parse(e, a)] ELSE configBase
    BY DEF AppendsInputs
  <2>3. configBase' = [a \in InputBase |-> ValueAt(j, a)']
    <3>1. CASE e.name = "BaseInput" /\ section = 0
      BY <3>1, <2>2, <1>2, <1>3, <1>7
    <3>2. CASE ~(e.name = "BaseInput" /\ section = 0)
      <4>1. j = LatestOf(S) /\ j \in 0..k
        BY <3>2, <1>2, <1>7
      <4> QED
        BY <3>2, <4>1, <2>1, <2>2, <1>3
    <3> QED
      BY <3>1, <3>2
  <2>4. LatestOf(Top("BaseInput"))' = j
    BY <1>7
  <2>5. section' # 0 => \A i \in Top("BaseInput")' : i < section'
    <3>1. CASE section # 0
      BY <3>1, <1>1, <1>4, <1>7, <2>1
    <3>2. CASE section = 0 /\ section' # 0
      <4>1. e.name \in Sections /\ section' = k + 1
        BY <3>2, <1>4
      <4>2. Top("BaseInput")' = S /\ S \in SUBSET (1..k)
        BY <4>1, <1>1, <1>6, <1>7
      <4>3. \A i \in S : i < k + 1
        BY <4>2
      <4> QED
        BY <4>1, <4>2, <4>3
    <3> QED
      BY <3>1, <3>2
  <2> QED
    BY <2>3, <2>4, <2>5 DEF InputBaseHolds, ValueAt, Gave
<1> QED
  BY <1>5, <1>8
\* What the element e, read in a section or not, adds to the inputs.
LEMMA StartElementInputs ==
  ASSUME ReaderTypeOK, Sectioned, NEW k \in Nat, k = Len(document), NEW e \in Tags,
         e.at = k + 1, e.section = section, section \in 0..k, document' = Append(document, e),
         SectionHolds, InputBaseHolds, InputsHold, WritesSection(e), AppendsInputs(e)
  PROVE  InputsHold'
<1> DEFINE readsLocal == e.name \in LocalInputs /\ ReadsIn(e.name)
           readsNet == e.name = "NetInput" /\ ReadsIn(e.name)
<1>1. /\ \A i \in 1..k : document'[i] = document[i]
      /\ document'[k + 1] = e
      /\ \A n : In(n)' = IF e.name = n /\ ReadsIn(n) THEN In(n) \cup {k + 1} ELSE In(n)
      /\ \A n : In(n) \in SUBSET (1..k)
      /\ Top("BaseInput") \in SUBSET (1..k)
  BY Grown DEF Sectioned, ReadsIn
<1>2. section' = IF section = 0 /\ e.name \in Sections THEN k + 1 ELSE section
  BY DEF WritesSection
<1>3. PICK I, J, l, m, n : /\ I = InputsDone /\ J = UrlPending
                           /\ l = config.mInputList /\ m = inputUrlList /\ n = Entries(e)
  OBVIOUS
<1>4. /\ I \in SUBSET (1..k) /\ J \in SUBSET (1..k)
      /\ \A i \in I : /\ document[i].name \in LocalInputs \/ document[i].section # section
                      /\ section # 0 => document[i].section <= section
      /\ \A i \in J : document[i].name = "NetInput" /\ document[i].section = section
      /\ section = 0 => J = {}
  BY <1>3, InputsPlaced
<1>5. /\ InputsInOrder(l) /\ InputsInOrder(m)
      /\ Range(l) = InputsOf(I) /\ Range(m) = InputsOf(J)
  BY <1>3 DEF InputsHold
<1>6. \A S \in SUBSET (1..k) : InputsOf(S)' = InputsOf(S)
  BY InputsKept
<1>7. InputsInOrder(l)' /\ InputsInOrder(m)'
  <2>1. InputsInOrder(l)'
    BY <1>4, <1>5, OrderKept
  <2>2. InputsInOrder(m)'
    BY <1>4, <1>5, OrderKept
  <2> QED
    BY <2>1, <2>2
<1>8. /\ config'.mInputList = IF readsLocal THEN l \o n ELSE l
      /\ inputUrlList' = IF readsNet THEN m \o n ELSE m
  BY <1>3 DEF AppendsInputs
<1>9. InputsDone' = IF readsLocal THEN I \cup {k + 1} ELSE I
  <2>1. InputsDone' = (UNION {In(x)' : x \in LocalInputs})
                        \cup {i \in In("NetInput")' : document'[i].section # section'}
    BY DEF InputsDone
  <2> DEFINE Local0 == UNION {In(x) : x \in LocalInputs}
             Local1 == UNION {In(x)' : x \in LocalInputs}
             Net1 == {i \in In("NetInput")' : document'[i].section # section'}
  <2>2. InputsDone = Local0 \cup {i \in In("NetInput") : document[i].section # section}
    BY DEF InputsDone
  <2>3. Local1 = IF readsLocal THEN Local0 \cup {k + 1} ELSE Local0
    <3>1. /\ \A i : i \in Local0 <=> \E x \in LocalInputs : i \in In(x)
          /\ \A i : i \in Local1 <=> \E x \in LocalInputs : i \in In(x)'
      OBVIOUS
    <3> HIDE DEF Local0, Local1
    <3>2. \A i : i \in Local1 <=> i \in Local0 \/ (readsLocal /\ i = k + 1)
      BY <3>1, <1>1
    <3> QED
      BY <3>2
  <2>4. Net1 = {i \in In("NetInput") : document[i].section # section}
    <3>1. ASSUME NEW i \in In("NetInput")
          PROVE  document'[i].section # section' <=> document[i].section # section
      <4>1. /\ i \in 1..k /\ document'[i] = document[i] /\ document[i].section # 0
            /\ document[i].section \in 0..(i - 1)
        BY <1>1 DEF In, Sectioned
      <4> QED
        BY <4>1, <1>2
    <3>2. readsNet => document'[k + 1].section = section' /\ section # 0
      BY <1>1, <1>2 DEF ReadsIn
    <3>3. \A i : i \in In("NetInput")' <=> i \in In("NetInput") \/ (readsNet /\ i = k + 1)
      BY <1>1
    <3> HIDE DEF readsNet
    <3> QED
      BY <3>1, <3>2, <3>3
  <2> HIDE DEF Local0, Local1, Net1, readsLocal
  <2>5. InputsDone' = Local1 \cup Net1
    BY <2>1 DEF Local1, Net1
  <2> QED
    BY <1>3, <2>2, <2>3, <2>4, <2>5
<1>10. UrlPending' = IF readsNet THEN J \cup {k + 1} ELSE J
  <2>1. ASSUME NEW i \in In("NetInput")
        PROVE  document'[i].section = section' <=> document[i].section = section
    <3>1. /\ i \in 1..k /\ document'[i] = document[i] /\ document[i].section # 0
          /\ document[i].section \in 0..(i - 1)
      BY <1>1 DEF In, Sectioned
    <3> QED
      BY <3>1, <1>2
  <2>2. readsNet => document'[k + 1].section = section'
    BY <1>1, <1>2 DEF ReadsIn
  <2>3. \A i : i \in In("NetInput")' <=> i \in In("NetInput") \/ (readsNet /\ i = k + 1)
    BY <1>1
  <2> HIDE DEF readsNet
  <2>4. UrlPending' = {i \in In("NetInput")' : document'[i].section = section'}
    BY DEF UrlPending
  <2>5. \A i : i \in UrlPending' <=> i \in UrlPending \/ (readsNet /\ i = k + 1)
    BY <2>1, <2>2, <2>3, <2>4 DEF UrlPending
  <2> QED
    BY <1>3, <2>5
<1>11. ASSUME section # 0
       PROVE  \A a \in InputBase : configBase[a] = Inherited("BaseInput", a, e.section)
  <2>1. {j \in Top("BaseInput") : j < section} = Top("BaseInput")
    BY <1>11 DEF InputBaseHolds
  <2> QED
    BY <2>1 DEF InputBaseHolds, Inherited
<1>12. ASSUME NEW S \in SUBSET (1..k), NEW q, InputsInOrder(q), Range(q) = InputsOf(S),
              section # 0,
              \A i \in S : \/ document[i].section < e.section
                           \/ /\ document[i].section = e.section
                              /\ document[i].name = "NetInput" <=> e.name = "NetInput"
       PROVE  InputsInOrder(q \o n)' /\ Range(q \o n) = InputsOf(S \cup {k + 1})'
  <2>1. \A a \in InputBase : configBase[a] = Inherited("BaseInput", a, e.section)
    BY <1>11, <1>12
  <2>2. e.section \in 0..k /\ n = Entries(e)
    BY <1>3
  <2>3. InputsInOrder(q \o n)'
    BY ONLY Sectioned, k \in Nat, k = Len(document), e \in Tags, e.at = k + 1,
       document' = Append(document, e), <1>12, <2>1, <2>2, InputsAppended
  <2>4. Range(q \o n) = InputsOf(S \cup {k + 1})'
    BY ONLY Sectioned, k \in Nat, k = Len(document), e \in Tags, e.at = k + 1,
       document' = Append(document, e), <1>12, <2>1, <2>2, InputsAppended
  <2> QED
    BY <2>3, <2>4
<1>13. readsLocal => InputsInOrder(l \o n)' /\ Range(l \o n) = InputsOf(I \cup {k + 1})'
  <2> SUFFICES ASSUME readsLocal
               PROVE  InputsInOrder(l \o n)' /\ Range(l \o n) = InputsOf(I \cup {k + 1})'
    OBVIOUS
  <2>1. section # 0 /\ e.name # "NetInput" /\ "NetInput" \notin LocalInputs
    BY DEF ReadsIn, LocalInputs
  <2>2. ASSUME NEW i \in I
        PROVE  \/ document[i].section < e.section
               \/ /\ document[i].section = e.section
                  /\ document[i].name = "NetInput" <=> e.name = "NetInput"
    <3>1. document[i].section \in Nat
      BY <1>4 DEF Sectioned
    <3> QED
      BY <3>1, <1>4, <2>1
  <2> QED
    BY ONLY <1>4, <1>5, <1>12, <2>1, <2>2
<1>14. readsNet => InputsInOrder(m \o n)' /\ Range(m \o n) = InputsOf(J \cup {k + 1})'
  <2> SUFFICES ASSUME readsNet
               PROVE  InputsInOrder(m \o n)' /\ Range(m \o n) = InputsOf(J \cup {k + 1})'
    OBVIOUS
  <2>1. section # 0 /\ e.name = "NetInput"
    BY DEF ReadsIn
  <2>2. ASSUME NEW i \in J
        PROVE  \/ document[i].section < e.section
               \/ /\ document[i].section = e.section
                  /\ document[i].name = "NetInput" <=> e.name = "NetInput"
    BY <1>4, <2>1
  <2> QED
    BY ONLY <1>4, <1>5, <1>12, <2>1, <2>2
<1> HIDE DEF readsLocal, readsNet
<1>15. PICK S, T : S = InputsDone' /\ T = UrlPending'
  OBVIOUS
<1>16. PICK s, t : s = config'.mInputList /\ t = inputUrlList'
  OBVIOUS
<1>17. InputsOf(InputsDone)' = InputsOf(S)' /\ InputsOf(UrlPending)' = InputsOf(T)'
  BY <1>15 DEF InputsOf
<1>18. InputsInOrder(s)' /\ Range(s) = InputsOf(S)'
  BY <1>4, <1>5, <1>6, <1>7, <1>8, <1>9, <1>13, <1>15, <1>16
<1>19. InputsInOrder(t)' /\ Range(t) = InputsOf(T)'
  BY <1>4, <1>5, <1>6, <1>7, <1>8, <1>10, <1>14, <1>15, <1>16
<1>20. InputsInOrder(config.mInputList)' /\ InputsInOrder(inputUrlList)'
  <2>1. InputsInOrder(config.mInputList)'
    BY ONLY <1>16, <1>18 DEF InputsInOrder, InputPrecedes, IsList, Range
  <2>2. InputsInOrder(inputUrlList)'
    BY ONLY <1>16, <1>19 DEF InputsInOrder, InputPrecedes, IsList, Range
  <2> QED
    BY <2>1, <2>2
<1>21. Range(config.mInputList)' = Range(s) /\ Range(inputUrlList)' = Range(t)
  BY <1>16 DEF Range
<1> QED
  BY <1>17, <1>18, <1>19, <1>20, <1>21 DEF InputsHold

LEMMA StartElementLists ==
  ASSUME ReaderTypeOK, Shaped, Sectioned, ListsHold,
         NEW element \in Elements, StartElement(element)
  PROVE  ListsHold'
<1>0. PICK k \in Nat : k = Len(document)
  BY DEF Sectioned
<1> DEFINE e == Tag(element)
<1>1. e \in Tags /\ e.at = k + 1 /\ e.section = section /\ section \in 0..k
  BY <1>0, ElementsAssumption DEF Tags, Tag, Sectioned, ReaderTypeOK
<1>2. document' = Append(document, e)
  BY DEF StartElement, Tag
<1>3. /\ AppendsToNotifiers(e) /\ AppendsToListed(e) /\ AppendsInputs(e)
      /\ WritesSection(e)
  BY ElementAppends, ElementWrites DEF Appends, Writes
<1> HIDE DEF e
<1>4. NotifiersHold'
  BY <1>0, <1>1, <1>2, <1>3, NotifiersGrow DEF ListsHold
<1>5. ListedHold'
  BY <1>0, <1>1, <1>2, <1>3, ListedGrow DEF ListsHold
<1>6. SectionHolds' /\ InputBaseHolds'
  BY <1>0, <1>1, <1>2, <1>3, BaseKept DEF ListsHold
<1>7. InputsHold'
  BY <1>0, <1>1, <1>2, <1>3, StartElementInputs DEF ListsHold
<1> QED
  BY <1>4, <1>5, <1>6, <1>7 DEF ListsHold

LEMMA ListsStep == ReaderInv /\ ListsInv /\ [ReaderNext]_readerVars => ListsInv'
<1> SUFFICES ASSUME ReaderInv, ListsInv, [ReaderNext]_readerVars, outcome' \in {"start", "reading"}
             PROVE  ListsHold'
  BY DEF ListsInv
<1>0. ReaderTypeOK /\ Shaped /\ Sectioned
  BY DEF ReaderInv
<1>1. CASE ParseParams \/ Break \/ ReadInvalid \/ UNCHANGED readerVars
  <2>1. outcome \in {"start", "reading"}
    BY <1>1 DEF ParseParams, Break, ReadInvalid, Reading, readerVars
  <2>2. UNCHANGED <<document, section, configBase, inputUrlList, config>>
    BY <1>1 DEF ParseParams, Break, ReadInvalid, readerVars, reader, locals
  <2> QED
    BY <2>1, <2>2, ListsUntouched DEF ListsInv
<1>2. CASE \E element \in Elements : StartElement(element)
  <2>1. ListsHold
    BY <1>2 DEF StartElement, Reading, ListsInv
  <2> QED
    BY <1>0, <1>2, <2>1, StartElementLists
<1>3. CASE EndElement
  <2>1. ListsHold
    BY <1>3 DEF EndElement, Reading, ListsInv
  <2> QED
    BY <1>0, <1>3, <2>1, EndElementLists
<1>4. CASE EndDocument
  BY <1>4 DEF EndDocument
<1> QED
  BY <1>1, <1>2, <1>3, <1>4 DEF ReaderNext

\* A document of any length leaves the lists it means: every entry of every element that is
\* read once and in order, the inputs on the base before their section, and in a section
\* the network inputs last.
THEOREM ListsMeant == ReaderSpec => []ListsMeanDocument
<1>1. ListsInv => ListsMeanDocument
  BY DEF ListsInv, ListsHold, InputsHold, InputsInOrder, NotifiersHold, ListedHold,
         ListsMeanDocument
<1>2. ReaderSpec => []ListsInv
  BY ReaderInvariant, ListsInitial, ListsStep, PTL DEF ReaderSpec
<1> QED
  BY <1>1, <1>2, PTL
=============================================================================
