----------------------------- MODULE FrameBuffer -----------------------------
(***************************************************************************)
(* One recording buffer of the program (CImageBuffer::CRingBuffer) and the *)
(* life of the frames in it (CMatWithTimeStampImpl).                       *)
(*                                                                         *)
(* A producer (a camera loop or a network receiver) pushes frames.  The    *)
(* newest mMaxSize of them form the ring, and some of those that leave it  *)
(* are kept in the long list.  An uncompressed frame is large, so a frame  *)
(* counts its users: when mRefCounter falls to zero its matrices are       *)
(* released and only a JPEG copy of the full image stays.  The motion      *)
(* algorithms need the gray image, which can be computed from an           *)
(* uncompressed frame only.                                                *)
(*                                                                         *)
(* A frame is identified by its serial number in this buffer.  A push is   *)
(* one step: it runs under the mutex of the buffer, and the two counters   *)
(* it may decrease belong to two different frames.                         *)
(***************************************************************************)
EXTENDS Integers, Sequences, FiniteSets

CONSTANTS
  MaxSize,            \* mMaxSize: frames in the ring (config BufferSize)
  MaxLongSize,        \* mMaxLongSize: frames in the long list
  LongSkipCount,      \* mLongSkipCount: sampling period of the long list
  MinAlgoFrameCount,  \* sMinAlgoFrameCount: the newest frames kept uncompressed
  Depths,             \* how many newest frames the algorithms lock (2 or 3)
  MaxFrames,          \* bound: frames pushed in a behaviour
  Viewers,            \* senders and servers that use the newest frame
  NoFrame             \* a viewer that uses no frame

ASSUME SizesAssumption ==
  /\ MaxSize \in Nat \ {0}
  /\ MaxLongSize \in Nat
  /\ LongSkipCount \in Nat
  /\ MinAlgoFrameCount \in Nat \ {0}
  /\ Depths \subseteq 1..MinAlgoFrameCount
  /\ MaxFrames \in Nat

ASSUME ViewersAssumption ==
  /\ IsFiniteSet(Viewers)
  /\ NoFrame \notin 0..(MaxFrames - 1)

VARIABLES
  mList,        \* ring, oldest frame first
  mLongList,    \* sampled older frames, oldest first
  mId,          \* serial number of the next frame
  mLongId,      \* evictions counted by the sampling of the long list
  mRefCounter,  \* users of every frame; may fall below zero
  raw,          \* frames whose uncompressed full image is present
  jpeg,         \* frames whose JPEG copy (mBuffer) is present
  pc,           \* where the algorithm pass of this buffer is
  snap,         \* the pass's copy of the ring
  depth,        \* frames the algorithm of the pass locks
  held,         \* frames it has locked
  todo,         \* locked frames whose gray image it still has to read
  missed,       \* the pass met a released frame (the exception is caught)
  target,       \* the frame each viewer holds a pointer to
  locked        \* the viewers that have locked their frame

ring == <<mList, mLongList, mId, mLongId>>
frames == <<mRefCounter, raw, jpeg>>
pass == <<pc, snap, depth, held, todo, missed>>
views == <<target, locked>>
vars == <<ring, frames, pass, views>>

Frame == 0..(MaxFrames - 1)
Phases == {"idle", "lock", "read", "unlock"}

Elements(s) == {s[i] : i \in DOMAIN s}
LastOf(s) == s[Len(s)]
IsFull == Len(mList) >= MaxSize

\* Mutants of DecreaseRefCounter: no JPEG copy; released one user too early.
DecreaseNoJpeg(S) ==
  /\ mRefCounter' = [f \in Frame |-> IF f \in S THEN mRefCounter[f] - 1 ELSE mRefCounter[f]]
  /\ raw' = raw \ {f \in S : mRefCounter[f] = 1}
  /\ UNCHANGED jpeg
DecreaseTooEarly(S) ==
  LET cleared == {f \in S : mRefCounter[f] = 2}
  IN  /\ mRefCounter' = [f \in Frame |-> IF f \in S THEN mRefCounter[f] - 1
                                                    ELSE mRefCounter[f]]
      /\ raw' = raw \ cleared
      /\ jpeg' = jpeg \cup cleared

(***************************************************************************)
(* decreaseRefCounter on the frames of S: a counter that reaches zero      *)
(* compresses the frame and releases its matrices.                         *)
(***************************************************************************)
DecreaseRefCounter(S) ==
  LET cleared == {f \in S : mRefCounter[f] = 1}
  IN  /\ mRefCounter' = [f \in Frame |-> IF f \in S THEN mRefCounter[f] - 1
                                                    ELSE mRefCounter[f]]
      /\ raw' = raw \ cleared
      /\ jpeg' = jpeg \cup cleared

IncreaseRefCounter(f) ==
  /\ mRefCounter' = [mRefCounter EXCEPT ![f] = @ + 1]
  /\ UNCHANGED <<raw, jpeg>>

-----------------------------------------------------------------------------
(* The producer. *)

Overflows == Len(mList) >= MaxSize
Pushed == IF Overflows THEN Tail(Append(mList, mId)) ELSE Append(mList, mId)
Evicted == IF Overflows THEN {Head(Append(mList, mId))} ELSE {}

\* Mutants of Aged: one position too new; the call left out.
AgedTooNew(s) == IF Len(s) > MinAlgoFrameCount THEN {s[Len(s) - MinAlgoFrameCount + 1]} ELSE {}
AgedNever(s) == {}

\* The frame that stops being one of the newest MinAlgoFrameCount.
Aged(s) == IF Len(s) > MinAlgoFrameCount + 1 THEN {s[Len(s) - MinAlgoFrameCount]} ELSE {}

\* The evicted frame goes to the long list when its turn comes or there is room.
CountsEvictions == MaxLongSize > 0 /\ LongSkipCount > 0
\* Mutant of IsSampled: only free room counts, so a full long list never changes.
SampledIfRoom == Len(mLongList) < MaxLongSize
IsSampled ==
  \/ CountsEvictions /\ mLongId % LongSkipCount = 0
  \/ Len(mLongList) < MaxLongSize
\* Mutant of LongListWith: the frame enters at the wrong end.
LongListPushFront(f) ==
  LET long == <<f>> \o mLongList
  IN  IF Len(long) > MaxLongSize THEN Tail(long) ELSE long
LongListWith(f) ==
  LET long == Append(mLongList, f)
  IN  IF Len(long) > MaxLongSize THEN Tail(long) ELSE long

PushBack ==
  /\ mId < MaxFrames
  /\ mId' = mId + 1
  /\ mList' = Pushed
  /\ mLongId' = IF Overflows /\ CountsEvictions THEN mLongId + 1 ELSE mLongId
  /\ mLongList' = IF Overflows /\ IsSampled THEN LongListWith(Head(Append(mList, mId)))
                                            ELSE mLongList
  /\ DecreaseRefCounter(Evicted \cup Aged(Pushed))
  /\ UNCHANGED <<pass, views>>

\* A network receiver drops the buffer after repeated connection errors.
Clear ==
  /\ mList' = <<>>
  /\ mLongList' = <<>>
  /\ UNCHANGED <<mId, mLongId, frames, pass, views>>

-----------------------------------------------------------------------------
(***************************************************************************)
(* The algorithm pass (doAlgo).  doAlgoAsync threads of a buffer exclude   *)
(* each other by try_lock, so at most one pass runs.  It copies the ring,  *)
(* locks the newest frames oldest first, reads their gray images newest    *)
(* first, and its lockers are destroyed in the reverse order of locking.   *)
(***************************************************************************)
Window == {snap[i] : i \in (Len(snap) - depth + 1)..Len(snap)}
IsNewest(f, S) == f \in S /\ \A g \in S : g <= f
IsOldest(f, S) == f \in S /\ \A g \in S : f <= g

BeginPass(d) ==
  /\ pc = "idle"
  /\ Len(mList) > MinAlgoFrameCount
  /\ IsFull
  /\ pc' = "lock"
  /\ snap' = mList
  /\ depth' = d
  /\ missed' = FALSE
  /\ UNCHANGED <<ring, frames, held, todo, views>>

LockNext ==
  /\ pc = "lock"
  /\ \E f \in Frame :
       /\ IsOldest(f, Window \ held)
       /\ IncreaseRefCounter(f)
       /\ held' = held \cup {f}
       /\ IF held' = Window THEN pc' = "read" /\ todo' = Window
                            ELSE UNCHANGED <<pc, todo>>
  /\ UNCHANGED <<ring, snap, depth, missed, views>>

ReadNext ==
  /\ pc = "read"
  /\ \E f \in Frame :
       /\ IsNewest(f, todo)
       /\ missed' = (f \notin raw)
       /\ todo' = IF f \in raw THEN todo \ {f} ELSE {}
       /\ pc' = IF todo' = {} THEN "unlock" ELSE "read"
  /\ UNCHANGED <<ring, frames, snap, depth, held, views>>

UnlockNext ==
  /\ pc = "unlock"
  /\ \E f \in Frame :
       /\ IsNewest(f, held)
       /\ DecreaseRefCounter({f})
       /\ held' = held \ {f}
  /\ UNCHANGED <<ring, pc, snap, depth, todo, missed, views>>

\* The pass goes on to its next algorithm, unless this one has alerted.
NextAlgorithm(d) ==
  /\ pc = "unlock"
  /\ held = {}
  /\ pc' = "lock"
  /\ depth' = d
  /\ missed' = FALSE
  /\ UNCHANGED <<ring, frames, snap, held, todo, views>>

\* The pass ends; on an alert a sender (viewer v) gets the newest frame of the copy.
EndPass ==
  /\ pc = "unlock"
  /\ held = {}
  /\ pc' = "idle"
  /\ snap' = <<>>
  /\ missed' = FALSE
  /\ \/ UNCHANGED target
     \/ /\ ~missed
        /\ \E v \in Viewers : /\ target[v] = NoFrame
                              /\ target' = [target EXCEPT ![v] = LastOf(snap)]
  /\ UNCHANGED <<ring, frames, depth, held, todo, locked>>

-----------------------------------------------------------------------------
(***************************************************************************)
(* A viewer: a server answering a client, or a sender, takes a pointer to  *)
(* the newest frame (getLast), locks the frame, uses it and unlocks it.    *)
(***************************************************************************)
Take(v) ==
  /\ target[v] = NoFrame
  /\ mList # <<>>
  /\ target' = [target EXCEPT ![v] = LastOf(mList)]
  /\ UNCHANGED <<ring, frames, pass, locked>>

LockTarget(v) ==
  /\ target[v] # NoFrame
  /\ v \notin locked
  /\ IncreaseRefCounter(target[v])
  /\ locked' = locked \cup {v}
  /\ UNCHANGED <<ring, pass, target>>

\* Mutant of UnlockTarget: the locker is dropped without its decrement.
UnlockNoDecrease(v) ==
  /\ v \in locked
  /\ locked' = locked \ {v}
  /\ target' = [target EXCEPT ![v] = NoFrame]
  /\ UNCHANGED <<ring, frames, pass>>

UnlockTarget(v) ==
  /\ v \in locked
  /\ DecreaseRefCounter({target[v]})
  /\ locked' = locked \ {v}
  /\ target' = [target EXCEPT ![v] = NoFrame]
  /\ UNCHANGED <<ring, pass>>

-----------------------------------------------------------------------------
Init ==
  /\ mList = <<>>
  /\ mLongList = <<>>
  /\ mId = 0
  /\ mLongId = 0
  /\ mRefCounter = [f \in Frame |-> 1]
  /\ raw = Frame
  /\ jpeg = {}
  /\ pc = "idle"
  /\ snap = <<>>
  /\ depth = 1
  /\ held = {}
  /\ todo = {}
  /\ missed = FALSE
  /\ target = [v \in Viewers |-> NoFrame]
  /\ locked = {}

Next ==
  \/ PushBack
  \/ Clear
  \/ \E d \in Depths : BeginPass(d) \/ NextAlgorithm(d)
  \/ LockNext
  \/ ReadNext
  \/ UnlockNext
  \/ EndPass
  \/ \E v \in Viewers : Take(v) \/ LockTarget(v) \/ UnlockTarget(v)

Spec == Init /\ [][Next]_vars

-----------------------------------------------------------------------------
TypeOK ==
  /\ mList \in Seq(Frame)
  /\ mLongList \in Seq(Frame)
  /\ mId \in 0..MaxFrames
  /\ mLongId \in Nat
  /\ mRefCounter \in [Frame -> Int]
  /\ raw \subseteq Frame
  /\ jpeg \subseteq Frame
  /\ pc \in Phases
  /\ snap \in Seq(Frame)
  /\ depth \in 1..MinAlgoFrameCount
  /\ held \subseteq Frame
  /\ todo \subseteq Frame
  /\ missed \in BOOLEAN
  /\ target \in [Viewers -> Frame \cup {NoFrame}]
  /\ locked \subseteq Viewers

\* Lockers that exist for frame f.
ViewersOf(f) == {v \in locked : target[v] = f}
Lockers(f) == (IF f \in held THEN 1 ELSE 0) + Cardinality(ViewersOf(f))

\* The buffer's own share in the counter of f: 1, less ageing, less eviction.
Share(f) == mRefCounter[f] - Lockers(f)

Newest == {mList[i] : i \in {j \in DOMAIN mList : j > Len(mList) - MinAlgoFrameCount}}

-----------------------------------------------------------------------------
(* Safety properties. *)

\* A video of the long list followed by the ring is in the order of capture
\* and repeats no frame; both lists respect their configured sizes.
VideoChronological ==
  LET video == mLongList \o mList
  IN  /\ \A i, j \in DOMAIN video : i < j => video[i] < video[j]
      /\ \A i \in DOMAIN video : video[i] < mId
      /\ Len(mList) <= MaxSize
      /\ Len(mLongList) <= MaxLongSize

\* The algorithms' window: the newest frames of the ring are never released,
\* whatever the users of a frame did and in whatever order they unlocked it.
NewestUncompressed == Newest \subseteq raw

\* Lockers and pushes never unbalance a counter: without its lockers a frame
\* counts 1 while it is new, 0 or 1 in the ring and at least -1 afterwards.
CountersBalanced ==
  /\ \A f \in Newest : Share(f) = 1
  /\ \A f \in Elements(mList) : Share(f) \in {0, 1}
  /\ \A f \in Frame : Share(f) \in {-1, 0, 1}

\* "delete data for less mem ussage": a frame nobody has locked is uncompressed
\* only among the newest of the ring, or as the very oldest of it (the first
\* frame of a session is never aged, only evicted).
OldFramesCompressed ==
  LET ringAged == {mList[i] : i \in 2..(Len(mList) - MinAlgoFrameCount)}
  IN  \A f \in Elements(mLongList) \cup ringAged : f \in raw => Lockers(f) > 0

\* The full image of every frame can still be delivered.
FullImageRecoverable == \A f \in Frame : f \in raw \/ f \in jpeg

\* A pass loses its frames to ageing only if it was overtaken: the camera
\* pushed so many frames since the copy that the oldest of the window aged.
MissedOnlyIfOvertaken ==
  /\ TypeOK
  /\ missed => mId - (LastOf(snap) + 1) >= MinAlgoFrameCount + 1 - depth

\* A frame somebody keeps locked is not released while it is in the ring.
LockKeepsFrameInRing ==
  [][\A f \in raw \cap Elements(mList') :
       Lockers(f) > 0 /\ Lockers(f)' > 0 => f \in raw']_vars

-----------------------------------------------------------------------------
(***************************************************************************)
(* The buffer records a history: the ring is a window without holes on the *)
(* frames pushed since the last clear, the long list a sample of the       *)
(* frames before the window.                                               *)
(***************************************************************************)
History == INSTANCE FrameHistory WITH
  WindowSize <- MaxSize,
  SampleSize <- MaxLongSize,
  Period <- LongSkipCount,
  first <- IF mList = <<>> THEN mId ELSE Head(mList),
  next <- mId,
  sample <- Elements(mLongList)

\* What users of a recording rely on: no hole between the oldest and the newest
\* frame of the ring, and no hole longer than LongSkipCount before it.
RecordsHistory == History!Spec
=============================================================================
