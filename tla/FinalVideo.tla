----------------------------- MODULE FinalVideo -----------------------------
(***************************************************************************)
(* The video of an alert (CFinalVideoWriter) of one buffer and one path:   *)
(* the frames before the alert, the alert, and the frames after it.        *)
(*                                                                         *)
(* Two threads use the writer.  The algorithm thread hands it a copy of    *)
(* the buffer: an alert and the reply call that follows see the same       *)
(* frames.  The text handler hands it a copy of its own for an alert, so   *)
(* that copies of different age meet in the writer, and the live buffer    *)
(* for a warning or a reply call: the producer may push between two reads  *)
(* of it.  mFinalVideoMutex covers the writing but not the count of the    *)
(* frames after an alert, which a reply call may set back.                 *)
(*                                                                         *)
(* A frame is a serial number n of this program and the identifier id the  *)
(* source gave it; a remote server that restarts counts from 0 again.      *)
(***************************************************************************)
EXTENDS Integers, Sequences, FiniteSets

CONSTANTS
  Threads,       \* subset of {"algo", "text"}
  RingSize,      \* frames in the ring (BufferSize)
  LongSize,      \* frames in the long list
  FrameBefore,   \* mFrameBeforeAlertToVideo
  FrameAfter,    \* mFrameAfterAlertToVideo
  MaxFrames,     \* bound: frames pushed, one less for each fault
  MaxFaults      \* bound: restarts of the remote source, files that cannot be opened

ASSUME SizesAssumption ==
  /\ {RingSize, FrameBefore, FrameAfter, MaxFrames} \subseteq Nat \ {0}
  /\ {LongSize, MaxFaults} \subseteq Nat
  /\ Threads \subseteq {"algo", "text"}

VARIABLES
  ring, long,              \* the live buffer
  next,                    \* frames pushed so far
  nextId,                  \* identifier the source gives to its next image
  mLastId,                 \* identifier of the last image received, -1 before the first
  restarts,
  buff,                    \* the buffer each thread works on: the live one or a copy
  pc,                      \* where each thread is
  last,                    \* the newest frame at the check of each thread
  held,                    \* the list each thread has read to write it
  seen,                    \* the count each thread has read to raise it
  mutex,                   \* holder of mFinalVideoMutex, or "free"
  mLastImageId,
  mAfterAlertFramesCount,
  opened,                  \* mVideoWriter.isOpened()
  failures,
  video,                   \* frames written, in the order of writing
  after,                   \* history: frames written after the last alert
  raced                    \* history: what another thread has overtaken, see Overtaken

source == <<ring, long, next, nextId, mLastId, restarts>>
work == <<buff, last, held, seen>>
file == <<opened, failures, video, after>>
vars == <<source, work, pc, mutex, mLastImageId, mAfterAlertFramesCount, file, raced>>

Frame == [n : 0..(MaxFrames - 1), id : 0..(MaxFrames - 1)]
NoFrame == [n |-> 0, id |-> 0]
Unused == [live |-> FALSE, list |-> <<>>, longList |-> <<>>]
Live == [live |-> TRUE, list |-> <<>>, longList |-> <<>>]
Copy == [live |-> FALSE, list |-> ring, longList |-> long]

LastOf(s) == s[Len(s)]
View(t) == IF buff[t].live THEN [list |-> ring, longList |-> long]
           ELSE [list |-> buff[t].list, longList |-> buff[t].longList]
Newest(t) == LastOf(View(t).list)
IsFull(t) == Len(View(t).list) >= RingSize
Goto(t, where) == pc' = [pc EXCEPT ![t] = where]
GoOn(t, where) == Goto(t, where) /\ UNCHANGED work

-----------------------------------------------------------------------------
(* The producer. *)

\* "repeat number": an image with the identifier of the last one received.
Refused == nextId = mLastId

PushBack ==
  /\ next + restarts + failures < MaxFrames
  /\ nextId' = nextId + 1
  /\ IF Refused THEN UNCHANGED <<ring, long, next, mLastId>>
     ELSE /\ next' = next + 1 /\ mLastId' = nextId
          /\ LET all == Append(ring, [n |-> next, id |-> nextId])
                 longer == Append(long, Head(all))
             IN  IF Len(all) > RingSize
                   THEN /\ ring' = Tail(all)
                        /\ \/ /\ LongSize > 0
                              /\ long' = IF Len(longer) > LongSize THEN Tail(longer) ELSE longer
                           \/ Len(long) = LongSize /\ UNCHANGED long
                   ELSE ring' = all /\ UNCHANGED long
  /\ UNCHANGED <<restarts, work, pc, mutex, mLastImageId, mAfterAlertFramesCount, file, raced>>

RemoteRestart ==
  /\ restarts + failures < MaxFaults
  /\ restarts' = restarts + 1
  /\ nextId' = 0
  /\ UNCHANGED <<ring, long, next, mLastId>>
  /\ UNCHANGED <<work, pc, mutex, mLastImageId, mAfterAlertFramesCount, file, raced>>

-----------------------------------------------------------------------------
(* A pass of the algorithm thread, a call of the text handler. *)

Begin(t, where, b) ==
  /\ t \in Threads /\ pc[t] = "idle"
  /\ Goto(t, where)
  /\ buff' = [buff EXCEPT ![t] = b]
  /\ UNCHANGED <<source, last, held, seen, mutex, mLastImageId, mAfterAlertFramesCount>>
  /\ UNCHANGED <<file, raced>>

\* doAlgo copies the buffer; an alert is followed by the reply call.
BeginPass ==
  /\ Len(ring) >= RingSize
  /\ \E where \in {"alert", "reply"} : Begin("algo", where, Copy)

\* CCommonAlert copies the buffer for an alert only.
BeginText ==
  \/ Begin("text", "alert", Copy)
  \/ \E where \in {"warning", "reply"} : Begin("text", where, Live)

\* The end of a call: its copy and its variables go.
Return(t) ==
  /\ Goto(t, "idle")
  /\ buff' = [buff EXCEPT ![t] = Unused]
  /\ last' = [last EXCEPT ![t] = NoFrame]
  /\ held' = [held EXCEPT ![t] = <<>>]
  /\ seen' = [seen EXCEPT ![t] = 0]

\* The end of a writeVideo: the algorithm pass goes on to the reply call.
Written(t) == IF t = "algo" THEN GoOn(t, "reply") ELSE Return(t)

-----------------------------------------------------------------------------
(* writeVideo. *)

\* onAlert starts the count of the frames after the alert, onWarning leaves it.
WriteBegin(t) ==
  /\ pc[t] \in {"alert", "warning"}
  /\ mutex = "free"
  /\ IF ~IsFull(t)
       THEN Written(t) /\ UNCHANGED <<mutex, mAfterAlertFramesCount, after>>
       ELSE /\ IF pc[t] = "alert" THEN mAfterAlertFramesCount' = 0 /\ after' = {}
                                  ELSE UNCHANGED <<mAfterAlertFramesCount, after>>
            /\ IF Newest(t).id > mLastImageId
                 THEN /\ last' = [last EXCEPT ![t] = Newest(t)]
                      /\ mutex' = t
                      /\ Goto(t, "open") /\ UNCHANGED <<buff, held, seen>>
                 ELSE Written(t) /\ UNCHANGED mutex
  /\ UNCHANGED <<source, mLastImageId, opened, failures, video, raced>>

\* writeFinalVideo reads the list.  A file is opened if none is, or if the date has
\* changed; if that fails nothing is written, but the frames count as written.
WriteOpen(t) ==
  /\ pc[t] = "open"
  /\ \E reopen, works \in BOOLEAN :
       /\ ~opened => reopen
       /\ opened' = works
       /\ IF works
            THEN /\ held' = [held EXCEPT ![t] = View(t).list]
                 /\ Goto(t, "write")
                 /\ UNCHANGED <<buff, last, seen, failures, mLastImageId, mutex>>
            ELSE /\ reopen /\ restarts + failures < MaxFaults
                 /\ failures' = failures + 1
                 /\ mLastImageId' = last[t].id
                 /\ mutex' = "free"
                 /\ Written(t)
  /\ UNCHANGED <<source, mAfterAlertFramesCount, video, after, raced>>

\* The numbers of S in ascending order.
Ascending(S) ==
  CHOOSE f \in [1..Cardinality(S) -> S] : \A i, j \in DOMAIN f : i < j => f[i] < f[j]

\* Numbers of the frames of s that come after the last image written.
Newer(s) ==
  LET newer == Ascending({i \in DOMAIN s : s[i].id > mLastImageId})
  IN  [i \in DOMAIN newer |-> s[newer[i]].n]

\* Mutant of Before: the filter on mLastImageId is left out.
BeforeAll(v) ==
  LET s == SubSeq(v.list, IF Len(v.list) < FrameBefore THEN 1 ELSE Len(v.list) - FrameBefore + 1,
                  Len(v.list) - 1)
  IN  [i \in DOMAIN s |-> s[i].n]
\* Mutant of Before: the window begins one frame late.
BeforeShort(v) ==
  Newer(SubSeq(v.list, IF Len(v.list) < FrameBefore THEN 2 ELSE Len(v.list) - FrameBefore + 2,
               Len(v.list) - 1))

\* The frames before the alert: the last FrameBefore of the ring, and, if the ring
\* is too short and the long list has not the missing ones either, the long list
\* but its last frame.
Before(v) ==
  LET missing == FrameBefore - Len(v.list)
  IN  IF missing <= 0 THEN Newer(SubSeq(v.list, 1 - missing, Len(v.list) - 1))
      ELSE (IF Len(v.longList) < missing
              THEN Newer(SubSeq(v.longList, 1, Len(v.longList) - 1)) ELSE <<>>)
           \o Newer(SubSeq(v.list, 1, Len(v.list) - 1))

\* The producer has overtaken a warning or a reply call on the live buffer.
Overtaken(t, kind) == IF Newest(t) # last[t] THEN {kind} ELSE {}

\* Mutant of WriteFrames: mLastImageId is not updated.
WriteForget(t) ==
  /\ pc[t] = "write"
  /\ video' = video \o Before([list |-> held[t], longList |-> View(t).longList])
                    \o <<LastOf(held[t]).n>>
  /\ mutex' = "free"
  /\ Written(t)
  /\ raced' = raced \cup Overtaken(t, "warning")
  /\ UNCHANGED <<source, mLastImageId, mAfterAlertFramesCount, opened, failures, after>>

\* The long list is read only now; the frame of the check is marked.
WriteFrames(t) ==
  /\ pc[t] = "write"
  /\ video' = video \o Before([list |-> held[t], longList |-> View(t).longList])
                    \o <<LastOf(held[t]).n>>
  /\ mLastImageId' = last[t].id
  /\ mutex' = "free"
  /\ Written(t)
  /\ raced' = raced \cup Overtaken(t, "warning")
  /\ UNCHANGED <<source, mAfterAlertFramesCount, opened, failures, after>>

-----------------------------------------------------------------------------
(* checkAndSendReply: one more frame after the alert. *)

NextAfterCount(count) == IF count + 1 >= FrameAfter THEN -1 ELSE count + 1

\* The count runs without the mutex and is no atomic variable: it is read ...
ReplyBegin(t) ==
  /\ pc[t] = "reply"
  /\ IF mAfterAlertFramesCount < 0
       THEN Return(t)
       ELSE /\ seen' = [seen EXCEPT ![t] = mAfterAlertFramesCount]
            /\ Goto(t, "count")
            /\ UNCHANGED <<buff, last, held>>
  /\ UNCHANGED <<source, mutex, mLastImageId, mAfterAlertFramesCount, file, raced>>

\* ... and written; the first check has no mutex either.
ReplyCount(t) ==
  /\ pc[t] = "count"
  /\ mAfterAlertFramesCount' = NextAfterCount(seen[t])
  /\ raced' = raced \cup (IF mAfterAlertFramesCount # seen[t] THEN {"count"} ELSE {})
  /\ IF IsFull(t) /\ Newest(t).id > mLastImageId
       THEN GoOn(t, "lock") ELSE Return(t)
  /\ UNCHANGED <<source, mutex, mLastImageId, file>>

\* "double check", then writeFinalVideoAfter reads the newest frame again and writes it.
\* (One step: a frame pushed between the two is newer still until a restart.)
ReplyLock(t) ==
  /\ pc[t] = "lock"
  /\ mutex = "free"
  /\ IF Newest(t).id > mLastImageId
       THEN /\ mutex' = t
            /\ Goto(t, "mark")
            /\ last' = [last EXCEPT ![t] = Newest(t)]
            /\ IF opened THEN /\ video' = Append(video, Newest(t).n)
                              /\ after' = after \cup {Newest(t).n}
                         ELSE UNCHANGED <<video, after>>
            /\ UNCHANGED <<buff, held, seen>>
       ELSE Return(t) /\ UNCHANGED <<mutex, video, after>>
  /\ UNCHANGED <<source, mLastImageId, mAfterAlertFramesCount, opened, failures, raced>>

\* The newest frame is read once more to be marked as written.
ReplyMark(t) ==
  /\ pc[t] = "mark"
  /\ mLastImageId' = Newest(t).id
  /\ mutex' = "free"
  /\ Return(t)
  /\ raced' = raced \cup Overtaken(t, "reply")
  /\ UNCHANGED <<source, mAfterAlertFramesCount, file>>

-----------------------------------------------------------------------------
Init ==
  /\ ring = <<>> /\ long = <<>> /\ next = 0 /\ nextId = 0 /\ mLastId = -1 /\ restarts = 0
  /\ buff = [t \in Threads |-> Unused]
  /\ pc = [t \in Threads |-> "idle"]
  /\ last = [t \in Threads |-> NoFrame]
  /\ held = [t \in Threads |-> <<>>]
  /\ seen = [t \in Threads |-> 0]
  /\ mutex = "free"
  /\ mLastImageId = 0
  /\ mAfterAlertFramesCount = -1
  /\ opened = FALSE /\ failures = 0
  /\ video = <<>>
  /\ after = {} /\ raced = {}

Next ==
  \/ \E t \in Threads :
       \/ WriteBegin(t) \/ WriteOpen(t) \/ WriteFrames(t)
       \/ ReplyBegin(t) \/ ReplyCount(t) \/ ReplyLock(t) \/ ReplyMark(t)
  \/ BeginPass \/ BeginText
  \/ PushBack \/ RemoteRestart

Spec == Init /\ [][Next]_vars

-----------------------------------------------------------------------------
TypeOK ==
  /\ ring \in Seq(Frame) /\ long \in Seq(Frame)
  /\ next \in 0..MaxFrames /\ nextId \in 0..next /\ mLastId \in -1..(next - 1)
  /\ restarts \in 0..MaxFaults
  /\ buff \in [Threads -> [live : BOOLEAN, list : Seq(Frame), longList : Seq(Frame)]]
  /\ pc \in [Threads -> {"idle", "alert", "warning", "open", "write",
                        "reply", "count", "lock", "mark"}]
  /\ last \in [Threads -> Frame]
  /\ held \in [Threads -> Seq(Frame)]
  /\ seen \in [Threads -> 0..(FrameAfter - 1)]
  /\ mutex \in Threads \cup {"free"}
  /\ mLastImageId \in 0..MaxFrames
  /\ mAfterAlertFramesCount \in -1..(FrameAfter - 1)
  /\ opened \in BOOLEAN /\ failures \in 0..MaxFaults
  /\ video \in Seq(0..(MaxFrames - 1))
  /\ after \subseteq 0..(MaxFrames - 1)
  /\ raced \subseteq {"warning", "reply", "count"}

Times(n) == Cardinality({i \in DOMAIN video : video[i] = n})
InVideo(n) == \E i \in DOMAIN video : video[i] = n

-----------------------------------------------------------------------------
(* Properties. *)

\* The videos of a session show every frame at most once and in the order of capture,
\* however alerts over copies of different age, warnings, replies, file changes and
\* failures follow, until the camera pushes a frame while a warning reads the live buffer.
\* (After a restart of the source the ring holds frames of both sessions, and older ones
\* may be written once more.)
VideoInOrder ==
  /\ TypeOK
  /\ restarts = 0 /\ "warning" \notin raced =>
       \A i, j \in DOMAIN video : i < j => video[i] < video[j]

\* A warning reads the live buffer three times.  It may write frames newer than the one it
\* marks, and a frame that is evicted between the reads of the two lists from both; the
\* next writing shows it again, but marks it: in a session no frame is shown four times.
AtMostThrice == restarts = 0 => \A i \in DOMAIN video : Times(video[i]) <= 3

\* In a session without failing files, and as long as no reply call on the live buffer was
\* overtaken by the camera (it marks the frame after the one it wrote), the frames marked
\* as written are in the video, or newer ones that passed over them.
Recording == restarts = 0 /\ failures = 0 /\ "reply" \notin raced
Reached(n) == \E m \in n..next : InVideo(m)

Asked(t) ==
  {held[t][i] : i \in {j \in DOMAIN held[t] : j > Len(held[t]) - FrameBefore}}

LeftOut(t) == pc[t] = "alert" /\ pc'[t] \notin {"alert", "open"} /\ IsFull(t)

\* The frames that the window before an alert asks for are in the video when it was
\* written, but for those that a call with a newer copy or a reply has passed over; and an
\* alert is left out only if a frame as new as its own is in the video, whatever the
\* age of the copies.  (The frame with identifier 0 equals the initial mLastImageId.)
\* As long as no two threads raise the count at the same time, FrameAfter reply calls
\* are counted after an alert, and at most one more of each further thread that was counted
\* before the alert.
WindowRecorded ==
  [][/\ "count" \notin raced => Cardinality(after) < FrameAfter + Cardinality(Threads)
     /\ \A t \in Threads : Recording =>
          /\ WriteFrames(t) =>
               \A f \in Asked(t) : f.id > 0 => InVideo(f.n)' \/ Reached(f.n)
          /\ LeftOut(t) /\ Newest(t).id > 0 => Reached(Newest(t).n)]_vars

\* "if detect motion: save video": an alert whose buffer is full leaves a video that shows
\* the frame of the alert, unless no file could be opened (or it is the frame with the
\* identifier 0).
AlertSaved ==
  [][\A t \in Threads : LeftOut(t) /\ Newest(t).id > 0 /\ failures = 0 =>
       InVideo(Newest(t).n)]_vars
=============================================================================
