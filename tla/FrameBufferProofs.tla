-------------------------- MODULE FrameBufferProofs --------------------------
(***************************************************************************)
(* Proofs about FrameBuffer for every ring size, every number of viewers   *)
(* and every number of frames.                                             *)
(***************************************************************************)
EXTENDS FrameBuffer, FiniteSetTheorems, SequenceTheorems, TLAPS

\* Serial number of the oldest frame of the ring, mId when the ring is empty.
First == mId - Len(mList)

\* The long list holds frame f.
InLong(f) == \E i \in 1..Len(mLongList) : mLongList[i] = f

\* The ring holds consecutive frames that end with the last one pushed.
RingConsecutive ==
  /\ Len(mList) <= MaxSize
  /\ Len(mList) <= mId
  /\ \A i \in 1..Len(mList) : mList[i] = First + i - 1

\* Pointers of the pass and of the viewers lead to frames that were pushed.
PointersKnown ==
  /\ \A i \in 1..Len(snap) : snap[i] < mId
  /\ \A f \in held : f < mId
  /\ \A v \in Viewers : target[v] # NoFrame => target[v] < mId
  /\ \A v \in locked : target[v] # NoFrame
  /\ \A f \in Frame : InLong(f) => f < First
  /\ pc # "idle" => Len(snap) > MinAlgoFrameCount

\* The buffer's share in each counter, by the place of the frame.
SharesKnown ==
  /\ \A f \in Frame : Share(f) \in {-1, 0, 1}
  /\ \A f \in Frame : f >= First => Share(f) \in {0, 1}
  /\ \A f \in Frame : f >= First /\ f >= mId - MinAlgoFrameCount => Share(f) = 1
  /\ \A f \in Frame : f > First /\ f < mId - MinAlgoFrameCount => Share(f) = 0
  /\ \A f \in Frame : InLong(f) => Share(f) <= 0

\* A frame with users is not released, a frame without users is.
RawCounted ==
  /\ \A f \in raw : mRefCounter[f] >= 1
  /\ \A f \in Frame : f >= First /\ f >= mId - MinAlgoFrameCount => f \in raw

IInv == TypeOK /\ RingConsecutive /\ PointersKnown /\ SharesKnown /\ RawCounted

-----------------------------------------------------------------------------
USE DEF Frame

(***************************************************************************)
(* The number of lockers of a frame is a natural number; it changes only   *)
(* by the steps that lock or unlock that frame.                            *)
(***************************************************************************)
LEMMA LockersType ==
  ASSUME TypeOK
  PROVE  \A f \in Frame : /\ IsFiniteSet(ViewersOf(f))
                          /\ Cardinality(ViewersOf(f)) \in Nat
                          /\ Lockers(f) \in Nat
                          /\ f \in held => Lockers(f) >= 1
                          /\ ViewersOf(f) # {} => Lockers(f) >= 1
<1> SUFFICES ASSUME NEW f \in Frame
             PROVE  /\ IsFiniteSet(ViewersOf(f))
                    /\ Cardinality(ViewersOf(f)) \in Nat
                    /\ Lockers(f) \in Nat
                    /\ f \in held => Lockers(f) >= 1
                    /\ ViewersOf(f) # {} => Lockers(f) >= 1
  OBVIOUS
<1>1. ViewersOf(f) \subseteq Viewers
  BY DEF ViewersOf, TypeOK
<1>2. IsFiniteSet(ViewersOf(f))
  BY <1>1, FS_Subset, ViewersAssumption
<1>3. Cardinality(ViewersOf(f)) \in Nat
  BY <1>2, FS_CardinalityType
<1>4. ViewersOf(f) # {} => Cardinality(ViewersOf(f)) # 0
  BY <1>2, FS_EmptySet
<1> QED
  BY <1>2, <1>3, <1>4 DEF Lockers

\* Steps that move no locker.
LEMMA LockersSame ==
  ASSUME held' = held, locked' = locked,
         \A v \in locked : target'[v] = target[v]
  PROVE  \A f \in Frame : Lockers(f)' = Lockers(f)
<1> SUFFICES ASSUME NEW f \in Frame PROVE Lockers(f)' = Lockers(f)
  OBVIOUS
<1>1. ViewersOf(f)' = ViewersOf(f)
  BY DEF ViewersOf
<1> QED
  BY <1>1 DEF Lockers

\* The pass locks or unlocks frame g.
LEMMA LockersOfPass ==
  ASSUME TypeOK, NEW g \in Frame, UNCHANGED views,
         \/ g \notin held /\ held' = held \cup {g}
         \/ g \in held /\ held' = held \ {g}
  PROVE  \A f \in Frame :
           Lockers(f)' = IF f # g THEN Lockers(f)
                         ELSE IF g \in held THEN Lockers(f) - 1 ELSE Lockers(f) + 1
<1> SUFFICES ASSUME NEW f \in Frame
             PROVE  Lockers(f)' = IF f # g THEN Lockers(f)
                                  ELSE IF g \in held THEN Lockers(f) - 1 ELSE Lockers(f) + 1
  OBVIOUS
<1>1. ViewersOf(f)' = ViewersOf(f)
  BY DEF ViewersOf, views
<1>2. Cardinality(ViewersOf(f)) \in Nat
  BY LockersType
<1> QED
  BY <1>1, <1>2 DEF Lockers

\* Viewer v locks its frame.
LEMMA LockersOfLock ==
  ASSUME TypeOK, NEW v \in Viewers, LockTarget(v)
  PROVE  \A f \in Frame :
           Lockers(f)' = IF f = target[v] THEN Lockers(f) + 1 ELSE Lockers(f)
<1> SUFFICES ASSUME NEW f \in Frame
             PROVE  Lockers(f)' = IF f = target[v] THEN Lockers(f) + 1 ELSE Lockers(f)
  OBVIOUS
<1>1. held' = held /\ target' = target /\ locked' = locked \cup {v} /\ v \notin locked
  BY DEF LockTarget, pass
<1>2. IsFiniteSet(ViewersOf(f)) /\ Cardinality(ViewersOf(f)) \in Nat
  BY LockersType
<1>3. CASE f = target[v]
  <2>1. ViewersOf(f)' = ViewersOf(f) \cup {v} /\ v \notin ViewersOf(f)
    BY <1>1, <1>3 DEF ViewersOf
  <2>2. Cardinality(ViewersOf(f))' = Cardinality(ViewersOf(f)) + 1
    BY <2>1, <1>2, FS_AddElement
  <2> QED
    BY <2>2, <1>1, <1>2, <1>3 DEF Lockers
<1>4. CASE f # target[v]
  <2>1. ViewersOf(f)' = ViewersOf(f)
    BY <1>1, <1>4 DEF ViewersOf
  <2> QED
    BY <2>1, <1>1, <1>4 DEF Lockers
<1> QED
  BY <1>3, <1>4

\* Viewer v unlocks its frame.
LEMMA LockersOfUnlock ==
  ASSUME TypeOK, NEW v \in Viewers, UnlockTarget(v)
  PROVE  \A f \in Frame :
           Lockers(f)' = IF f = target[v] THEN Lockers(f) - 1 ELSE Lockers(f)
<1> SUFFICES ASSUME NEW f \in Frame
             PROVE  Lockers(f)' = IF f = target[v] THEN Lockers(f) - 1 ELSE Lockers(f)
  OBVIOUS
<1>1. /\ held' = held /\ locked' = locked \ {v} /\ v \in locked
      /\ \A w \in Viewers : w # v => target'[w] = target[w]
  BY DEF UnlockTarget, pass, TypeOK
<1>2. IsFiniteSet(ViewersOf(f)) /\ Cardinality(ViewersOf(f)) \in Nat
  BY LockersType
<1>3. locked \subseteq Viewers
  BY DEF TypeOK
<1>4. CASE f = target[v]
  <2>1. ViewersOf(f)' = ViewersOf(f) \ {v} /\ v \in ViewersOf(f)
    BY <1>1, <1>3, <1>4 DEF ViewersOf
  <2>2. Cardinality(ViewersOf(f))' = Cardinality(ViewersOf(f)) - 1
    BY <2>1, <1>2, FS_RemoveElement
  <2> QED
    BY <2>2, <1>1, <1>2, <1>4 DEF Lockers
<1>5. CASE f # target[v]
  <2>1. ViewersOf(f)' = ViewersOf(f)
    BY <1>1, <1>3, <1>5 DEF ViewersOf
  <2> QED
    BY <2>1, <1>1, <1>5 DEF Lockers
<1> QED
  BY <1>4, <1>5

-----------------------------------------------------------------------------
(* The ring after a push. *)

LEMMA PushedRing ==
  ASSUME TypeOK, mId < MaxFrames
  PROVE  /\ Pushed \in Seq(Frame)
         /\ Overflows => /\ Len(Pushed) = Len(mList)
                         /\ \A i \in 1..Len(Pushed) :
                              Pushed[i] = IF i = Len(mList) THEN mId ELSE mList[i + 1]
                         /\ mList # <<>>
                         /\ Head(Append(mList, mId)) = mList[1]
                         /\ mList[1] \in Frame
         /\ ~Overflows => /\ Len(Pushed) = Len(mList) + 1
                          /\ \A i \in 1..Len(Pushed) :
                               Pushed[i] = IF i = Len(mList) + 1 THEN mId ELSE mList[i]
<1> DEFINE both == Append(mList, mId)
<1>1. /\ mId \in Frame /\ mList \in Seq(Frame) /\ Len(mList) \in Nat
      /\ MaxSize \in Nat \ {0}
  BY SizesAssumption, LenProperties DEF TypeOK
<1>2. /\ both \in Seq(Frame)
      /\ Len(both) = Len(mList) + 1
      /\ \A i \in 1..Len(mList) : both[i] = mList[i]
      /\ both[Len(mList) + 1] = mId
  BY <1>1, AppendProperties
<1>3. CASE Overflows
  <2>1. Len(mList) >= 1
    BY <1>3, <1>1 DEF Overflows
  <2>2. /\ both # <<>>
        /\ Tail(both) \in Seq(Frame)
        /\ Len(Tail(both)) = Len(both) - 1
        /\ \A i \in 1..Len(Tail(both)) : Tail(both)[i] = both[i + 1]
        /\ Head(both) = both[1]
    BY <1>2, <2>1, HeadTailProperties
  <2>3. mList # <<>> /\ mList[1] \in Frame
    <3>1. 1 \in 1..Len(mList)
      BY <2>1, <1>1
    <3>2. mList[1] \in Frame
      BY <3>1, <1>1, ElementOfSeq
    <3>3. Len(<<>>) = 0
      OBVIOUS
    <3>4. mList # <<>>
      BY <3>3, <2>1
    <3> QED
      BY <3>2, <3>4
  <2> QED
    BY <1>1, <1>2, <1>3, <2>1, <2>2, <2>3 DEF Pushed
<1>4. CASE ~Overflows
  BY <1>1, <1>2, <1>4 DEF Pushed
<1> QED
  BY <1>3, <1>4

LEMMA SampledList ==
  ASSUME TypeOK, NEW f \in Frame
  PROVE  /\ LongListWith(f) \in Seq(Frame)
         /\ \A i \in 1..Len(LongListWith(f)) :
               LongListWith(f)[i] = f \/ \E j \in 1..Len(mLongList) : LongListWith(f)[i] = mLongList[j]
<1> DEFINE long == Append(mLongList, f)
<1>1. mLongList \in Seq(Frame)
  BY DEF TypeOK
<1>2. /\ long \in Seq(Frame)
      /\ Len(long) = Len(mLongList) + 1
      /\ \A i \in 1..Len(mLongList) : long[i] = mLongList[i]
      /\ long[Len(mLongList) + 1] = f
  BY <1>1, AppendProperties
<1>3. /\ Tail(long) \in Seq(Frame)
      /\ Len(Tail(long)) = Len(long) - 1
      /\ \A i \in 1..Len(Tail(long)) : Tail(long)[i] = long[i + 1]
  BY <1>1, <1>2, HeadTailProperties
<1>4. CASE Len(long) > MaxLongSize
  <2>1. LongListWith(f) = Tail(long)
    BY <1>4 DEF LongListWith
  <2> HIDE DEF long
  <2> QED
    BY <1>1, <1>2, <1>3, <2>1, LenProperties
<1>5. CASE ~(Len(long) > MaxLongSize)
  <2>1. LongListWith(f) = long
    BY <1>5 DEF LongListWith
  <2> HIDE DEF long
  <2> QED
    BY <1>1, <1>2, <2>1, LenProperties
<1> QED
  BY <1>4, <1>5

-----------------------------------------------------------------------------
(* Types are preserved by every step. *)

LEMMA DecreaseType ==
  ASSUME TypeOK, NEW S \in SUBSET Frame, DecreaseRefCounter(S)
  PROVE  /\ mRefCounter' \in [Frame -> Int]
         /\ raw' \subseteq Frame
         /\ jpeg' \subseteq Frame
         /\ \A f \in Frame : mRefCounter'[f] = IF f \in S THEN mRefCounter[f] - 1
                                                         ELSE mRefCounter[f]
         /\ \A f \in Frame : f \in raw' <=> f \in raw /\ (f \in S => mRefCounter[f] # 1)
         /\ \A f \in Frame : f \in raw \/ f \in jpeg => f \in raw' \/ f \in jpeg'
<1>1. /\ mRefCounter' = [f \in Frame |-> IF f \in S THEN mRefCounter[f] - 1 ELSE mRefCounter[f]]
      /\ raw' = raw \ {f \in S : mRefCounter[f] = 1}
      /\ jpeg' = jpeg \cup {f \in S : mRefCounter[f] = 1}
  BY DEF DecreaseRefCounter
<1>2. mRefCounter \in [Frame -> Int] /\ raw \subseteq Frame /\ jpeg \subseteq Frame
  BY DEF TypeOK
<1>3. mRefCounter' \in [Frame -> Int]
  BY <1>1, <1>2
<1>4. raw' \subseteq Frame /\ jpeg' \subseteq Frame
  BY <1>1, <1>2
<1> QED
  BY <1>1, <1>3, <1>4

LEMMA IncreaseType ==
  ASSUME TypeOK, NEW g \in Frame, IncreaseRefCounter(g)
  PROVE  /\ mRefCounter' \in [Frame -> Int]
         /\ raw' = raw /\ jpeg' = jpeg
         /\ \A f \in Frame : mRefCounter'[f] = IF f = g THEN mRefCounter[f] + 1
                                                       ELSE mRefCounter[f]
BY DEF TypeOK, IncreaseRefCounter

\* The frames whose counter a push decreases.
LEMMA PushDrops ==
  ASSUME TypeOK, RingConsecutive, mId < MaxFrames
  PROVE  /\ Evicted = IF Overflows THEN {First} ELSE {}
         /\ Overflows => First \in Frame
         /\ Aged(Pushed) = IF Len(Pushed) > MinAlgoFrameCount + 1
                           THEN {mId - MinAlgoFrameCount} ELSE {}
         /\ Aged(Pushed) \subseteq Frame
         /\ Evicted \subseteq Frame
         /\ Len(Pushed) \in Nat
<1>1. /\ mId \in Nat /\ MinAlgoFrameCount \in Nat \ {0} /\ MaxSize \in Nat \ {0}
      /\ Len(mList) \in Nat /\ MaxFrames \in Nat
  BY SizesAssumption, LenProperties DEF TypeOK
<1>2. Len(Pushed) \in Nat
  BY PushedRing, LenProperties
<1>3. Evicted = IF Overflows THEN {First} ELSE {}
  <2>1. CASE Overflows
    <3>1. Len(mList) >= 1
      BY <2>1, <1>1 DEF Overflows
    <3>2. mList[1] = First
      BY <3>1, <1>1 DEF RingConsecutive, First
    <3> QED
      BY <2>1, <3>2, PushedRing DEF Evicted
  <2> QED
    BY <2>1 DEF Evicted
<1>4. Overflows => First \in Frame
  BY <1>1, PushedRing DEF First, RingConsecutive, Overflows
<1>5. ASSUME Len(Pushed) > MinAlgoFrameCount + 1
      PROVE  Pushed[Len(Pushed) - MinAlgoFrameCount] = mId - MinAlgoFrameCount
             /\ mId - MinAlgoFrameCount \in Frame
  <2>1. CASE Overflows
    <3>1. Len(Pushed) = Len(mList)
      BY <2>1, PushedRing
    <3>2. Len(mList) - MinAlgoFrameCount \in 1..Len(Pushed)
      BY <1>1, <1>5, <3>1
    <3>3. \A i \in 1..Len(Pushed) : Pushed[i] = IF i = Len(mList) THEN mId ELSE mList[i + 1]
      BY <2>1, PushedRing
    <3>4. Pushed[Len(mList) - MinAlgoFrameCount] = mList[Len(mList) - MinAlgoFrameCount + 1]
      BY <1>1, <3>2, <3>3
    <3>5. Len(mList) - MinAlgoFrameCount + 1 \in 1..Len(mList)
      BY <1>1, <1>5, <3>1
    <3>6. mList[Len(mList) - MinAlgoFrameCount + 1]
            = mId - Len(mList) + (Len(mList) - MinAlgoFrameCount + 1) - 1
      BY <3>5 DEF RingConsecutive, First
    <3>7. Pushed[Len(Pushed) - MinAlgoFrameCount] = mId - MinAlgoFrameCount
      BY <1>1, <3>1, <3>4, <3>6
    <3> QED
      BY <1>1, <1>5, <3>1, <3>7 DEF RingConsecutive
  <2>2. CASE ~Overflows
    <3>1. Len(Pushed) = Len(mList) + 1
      BY <2>2, PushedRing
    <3>2. Len(Pushed) - MinAlgoFrameCount \in 1..Len(mList)
      BY <1>1, <1>5, <3>1
    <3>3. Pushed[Len(Pushed) - MinAlgoFrameCount] = mList[Len(Pushed) - MinAlgoFrameCount]
      <4>1. \A i \in 1..Len(Pushed) : Pushed[i] = IF i = Len(mList) + 1 THEN mId ELSE mList[i]
        BY <2>2, PushedRing
      <4>2. /\ Len(Pushed) - MinAlgoFrameCount \in 1..Len(Pushed)
            /\ Len(Pushed) - MinAlgoFrameCount # Len(mList) + 1
        BY <1>1, <3>1, <3>2
      <4> QED
        BY <4>1, <4>2
    <3>4. mList[Len(Pushed) - MinAlgoFrameCount]
            = mId - Len(mList) + (Len(Pushed) - MinAlgoFrameCount) - 1
      BY <3>2 DEF RingConsecutive, First
    <3>5. Pushed[Len(Pushed) - MinAlgoFrameCount] = mId - MinAlgoFrameCount
      BY <1>1, <3>1, <3>3, <3>4
    <3> QED
      BY <1>1, <1>5, <3>1, <3>5 DEF RingConsecutive
  <2> QED
    BY <2>1, <2>2
<1> QED
  BY <1>2, <1>3, <1>4, <1>5 DEF Aged

-----------------------------------------------------------------------------
LEMMA ConstantTypes ==
  /\ MaxSize \in Nat \ {0} /\ MaxLongSize \in Nat /\ LongSkipCount \in Nat
  /\ MinAlgoFrameCount \in Nat \ {0} /\ MaxFrames \in Nat
BY SizesAssumption

LEMMA LengthTypes ==
  ASSUME TypeOK
  PROVE  Len(mList) \in Nat /\ Len(mLongList) \in Nat /\ Len(snap) \in Nat /\ mId \in Nat
BY LenProperties, ConstantTypes DEF TypeOK

\* The newest frame of a copied ring is a frame.
LEMMA SnapLast ==
  ASSUME IInv, pc # "idle"
  PROVE  LastOf(snap) \in Frame /\ LastOf(snap) < mId
<1>1. Len(snap) \in 1..Len(snap)
  BY LengthTypes, ConstantTypes DEF IInv, PointersKnown
<1> QED
  BY <1>1, ElementOfSeq DEF LastOf, IInv, TypeOK, PointersKnown

LEMMA TypeStep ==
  ASSUME IInv, [Next]_vars
  PROVE  TypeOK'
<1>1. TypeOK
  BY DEF IInv
<1>2. CASE PushBack
  <2>1. mId < MaxFrames /\ mId' = mId + 1 /\ mList' = Pushed /\ UNCHANGED <<pass, views>>
        /\ DecreaseRefCounter(Evicted \cup Aged(Pushed))
        /\ mLongId' \in {mLongId, mLongId + 1}
    BY <1>2 DEF PushBack
  <2>2. mLongList' \in Seq(Frame)
    <3>1. CASE Overflows /\ IsSampled
      BY <3>1, <1>1, <1>2, <2>1, PushedRing, SampledList DEF PushBack
    <3>2. CASE ~(Overflows /\ IsSampled)
      BY <3>2, <1>1, <1>2 DEF PushBack, TypeOK
    <3> QED
      BY <3>1, <3>2
  <2>3. mList' \in Seq(Frame)
    BY <1>1, <2>1, PushedRing
  <2>4. Evicted \cup Aged(Pushed) \in SUBSET Frame
    BY <2>1, PushDrops DEF IInv
  <2>5. /\ mRefCounter' \in [Frame -> Int]
        /\ raw' \subseteq Frame
        /\ jpeg' \subseteq Frame
    BY <1>1, <2>1, <2>4, DecreaseType
  <2>6. mId' \in 0..MaxFrames /\ mLongId' \in Nat
    BY <1>1, <2>1, ConstantTypes DEF TypeOK
  <2> QED
    BY <1>1, <2>1, <2>2, <2>3, <2>5, <2>6 DEF TypeOK, pass, views
<1>3. CASE Clear
  BY <1>1, <1>3, EmptySeq DEF Clear, TypeOK, frames, pass, views
<1>4. ASSUME NEW d \in Depths, BeginPass(d) \/ NextAlgorithm(d) PROVE TypeOK'
  BY <1>1, <1>4, SizesAssumption DEF BeginPass, NextAlgorithm, TypeOK, ring, frames, views, Phases
<1>5. CASE LockNext
  <2>1. PICK f \in Frame : /\ IsOldest(f, Window \ held)
                           /\ IncreaseRefCounter(f)
                           /\ held' = held \cup {f}
                           /\ IF held' = Window THEN pc' = "read" /\ todo' = Window
                                                ELSE UNCHANGED <<pc, todo>>
    BY <1>5 DEF LockNext
  <2>2. mRefCounter' \in [Frame -> Int] /\ raw' = raw /\ jpeg' = jpeg
    BY <1>1, <2>1, IncreaseType
  <2>3. held' \subseteq Frame
    BY <1>1, <2>1 DEF TypeOK
  <2>4. todo' \subseteq Frame /\ pc' \in Phases
    BY <1>1, <2>1, <2>3 DEF TypeOK, Phases
  <2> QED
    BY <1>1, <1>5, <2>2, <2>3, <2>4 DEF LockNext, TypeOK, ring, views
<1>6. CASE ReadNext
  BY <1>1, <1>6 DEF ReadNext, TypeOK, ring, frames, views, Phases
<1>7. CASE UnlockNext
  <2>1. PICK f \in Frame : /\ IsNewest(f, held)
                           /\ DecreaseRefCounter({f})
                           /\ held' = held \ {f}
    BY <1>7 DEF UnlockNext
  <2>2. /\ mRefCounter' \in [Frame -> Int]
        /\ raw' \subseteq Frame
        /\ jpeg' \subseteq Frame
    BY <1>1, <2>1, DecreaseType
  <2> QED
    BY <1>1, <1>7, <2>1, <2>2 DEF UnlockNext, TypeOK, ring, views
<1>8. CASE EndPass
  <2>1. LastOf(snap) \in Frame
    BY <1>8, SnapLast DEF EndPass
  <2>2. target' \in [Viewers -> Frame \cup {NoFrame}]
    BY <1>1, <1>8, <2>1 DEF EndPass, TypeOK
  <2> QED
    BY <1>1, <1>8, <2>2, EmptySeq DEF EndPass, TypeOK, ring, frames, Phases
<1>9. ASSUME NEW v \in Viewers, Take(v) PROVE TypeOK'
  <2>1. Len(mList) \in 1..Len(mList)
    BY <1>1, <1>9, LengthTypes, EmptySeq DEF Take, TypeOK
  <2>2. LastOf(mList) \in Frame
    BY <1>1, <2>1, ElementOfSeq DEF LastOf, TypeOK
  <2> QED
    BY <1>1, <1>9, <2>2 DEF Take, TypeOK, ring, frames, pass
<1>10. ASSUME NEW v \in Viewers, LockTarget(v) PROVE TypeOK'
  <2>1. target[v] \in Frame /\ IncreaseRefCounter(target[v])
    BY <1>1, <1>10 DEF LockTarget, TypeOK
  <2>2. mRefCounter' \in [Frame -> Int] /\ raw' = raw /\ jpeg' = jpeg
    BY <1>1, <2>1, IncreaseType
  <2> QED
    BY <1>1, <1>10, <2>2 DEF LockTarget, TypeOK, ring, pass
<1>11. ASSUME NEW v \in Viewers, UnlockTarget(v) PROVE TypeOK'
  <2>1. target[v] \in Frame /\ DecreaseRefCounter({target[v]})
    BY <1>1, <1>11 DEF UnlockTarget, TypeOK, IInv, PointersKnown
  <2>2. /\ mRefCounter' \in [Frame -> Int]
        /\ raw' \subseteq Frame
        /\ jpeg' \subseteq Frame
    BY <1>1, <2>1, DecreaseType
  <2> QED
    BY <1>1, <1>11, <2>2 DEF UnlockTarget, TypeOK, ring, pass
<1>12. CASE UNCHANGED vars
  BY <1>1, <1>12 DEF vars, ring, frames, pass, views, TypeOK
<1> QED
  BY <1>2, <1>3, <1>4, <1>5, <1>6, <1>7, <1>8, <1>9, <1>10, <1>11, <1>12 DEF Next

-----------------------------------------------------------------------------
(***************************************************************************)
(* A push: the ring slides over the frames, the frame it evicts and the    *)
(* frame that ages lose the share the buffer had in their counters.        *)
(***************************************************************************)
LEMMA PushStep ==
  ASSUME IInv, PushBack
  PROVE  RingConsecutive' /\ PointersKnown' /\ SharesKnown' /\ RawCounted'
<1>1. /\ TypeOK /\ RingConsecutive /\ PointersKnown /\ SharesKnown /\ RawCounted
      /\ mId < MaxFrames /\ mId' = mId + 1 /\ mList' = Pushed
      /\ DecreaseRefCounter(Evicted \cup Aged(Pushed))
      /\ UNCHANGED <<pc, snap, depth, held, todo, missed, target, locked>>
  BY DEF IInv, PushBack, pass, views
<1>2. /\ mId \in Nat /\ Len(mList) \in Nat /\ MinAlgoFrameCount \in Nat \ {0}
      /\ MaxSize \in Nat \ {0} /\ MaxFrames \in Nat /\ Len(mLongList) \in Nat
  BY <1>1, LengthTypes, ConstantTypes
<1>3. /\ Len(mList)' = IF Overflows THEN Len(mList) ELSE Len(mList) + 1
      /\ First' = IF Overflows THEN First + 1 ELSE First
      /\ First \in Nat
  <2>1. Len(mList)' = IF Overflows THEN Len(mList) ELSE Len(mList) + 1
    BY <1>1, PushedRing
  <2>2. First' = mId' - Len(mList)'
    BY DEF First
  <2> QED
    BY <1>1, <1>2, <2>1, <2>2 DEF First, RingConsecutive
<1>4. Overflows <=> Len(mList) = MaxSize
  BY <1>1, <1>2 DEF Overflows, RingConsecutive
<1>5. RingConsecutive'
  <2>1. Len(mList)' <= MaxSize /\ Len(mList)' <= mId'
    BY <1>1, <1>2, <1>3, <1>4 DEF RingConsecutive
  <2>2. ASSUME NEW i \in 1..Len(mList)' PROVE mList'[i] = First' + i - 1
    <3>1. CASE Overflows
      <4>1. Pushed[i] = IF i = Len(mList) THEN mId ELSE mList[i + 1]
        BY <1>1, <2>2, <3>1, PushedRing
      <4>2. i # Len(mList) => i + 1 \in 1..Len(mList)
        BY <1>2, <1>3, <2>2, <3>1
      <4>3. i # Len(mList) => mList[i + 1] = First + (i + 1) - 1
        BY <1>1, <4>2 DEF RingConsecutive
      <4> QED
        BY <1>1, <1>2, <1>3, <3>1, <4>1, <4>3 DEF First
    <3>2. CASE ~Overflows
      <4>1. Pushed[i] = IF i = Len(mList) + 1 THEN mId ELSE mList[i]
        BY <1>1, <2>2, <3>2, PushedRing
      <4>2. i # Len(mList) + 1 => i \in 1..Len(mList)
        BY <1>2, <1>3, <2>2, <3>2
      <4>3. i # Len(mList) + 1 => mList[i] = First + i - 1
        BY <1>1, <4>2 DEF RingConsecutive
      <4> QED
        BY <1>1, <1>2, <1>3, <3>2, <4>1, <4>3 DEF First
    <3> QED
      BY <3>1, <3>2
  <2> QED
    BY <2>1, <2>2 DEF RingConsecutive
<1>6. \A f \in Frame : InLong(f)' => InLong(f) \/ (Overflows /\ f = First)
  <2>1. CASE Overflows /\ IsSampled
    <3>1. Len(mList) >= 1
      BY <1>2, <1>4, <2>1
    <3>2. mList[1] = First /\ Head(Append(mList, mId)) = mList[1] /\ mList[1] \in Frame
      BY <1>1, <1>2, <2>1, <3>1, PushedRing DEF RingConsecutive, First
    <3>3. mLongList' = LongListWith(mList[1])
      BY <2>1, <3>2 DEF PushBack
    <3> QED
      BY <1>1, <2>1, <3>2, <3>3, SampledList DEF InLong
  <2>2. CASE ~(Overflows /\ IsSampled)
    BY <2>2 DEF PushBack, InLong
  <2> QED
    BY <2>1, <2>2
<1>7. PointersKnown'
  <2>1. \A f \in Frame : InLong(f)' => f < First'
    BY <1>1, <1>2, <1>3, <1>6 DEF PointersKnown
  <2>2. \A i \in 1..Len(snap) : snap[i] \in Frame
    BY <1>1, ElementOfSeq DEF TypeOK
  <2>3. \A i \in 1..Len(snap) : snap[i] < mId'
    BY <1>1, <1>2, <2>2 DEF PointersKnown
  <2>4. \A f \in held : f < mId'
    BY <1>1, <1>2 DEF PointersKnown, TypeOK
  <2>5. \A v \in Viewers : target[v] # NoFrame => target[v] < mId'
    BY <1>1, <1>2 DEF PointersKnown, TypeOK
  <2> QED
    BY <1>1, <2>1, <2>3, <2>4, <2>5 DEF PointersKnown
<1>8. /\ \A f \in Frame : Lockers(f)' = Lockers(f)
      /\ \A f \in Frame : Lockers(f) \in Nat
  BY <1>1, LockersSame, LockersType
<1>9. /\ Evicted = IF Overflows THEN {First} ELSE {}
      /\ Aged(Pushed) = IF Len(Pushed) > MinAlgoFrameCount + 1
                        THEN {mId - MinAlgoFrameCount} ELSE {}
      /\ Evicted \cup Aged(Pushed) \in SUBSET Frame
      /\ Len(Pushed) = Len(mList)'
      /\ Overflows => First \in Frame
  BY <1>1, PushDrops
<1>10. /\ \A f \in Frame : mRefCounter'[f] = IF f \in Evicted \cup Aged(Pushed)
                                             THEN mRefCounter[f] - 1 ELSE mRefCounter[f]
       /\ \A f \in Frame : f \in raw' <=> f \in raw /\ (f \in Evicted \cup Aged(Pushed)
                                                       => mRefCounter[f] # 1)
  BY <1>1, <1>9, DecreaseType
<1>11. \A f \in Frame : mRefCounter[f] \in Int /\ Share(f) \in Int
                        /\ Share(f) = mRefCounter[f] - Lockers(f)
                        /\ Share(f)' = mRefCounter'[f] - Lockers(f)
  BY <1>1, <1>8 DEF Share, TypeOK
<1>12. SharesKnown'
  <2>1. ASSUME NEW f \in Frame
        PROVE  /\ Share(f)' \in {-1, 0, 1}
               /\ f >= First' => Share(f)' \in {0, 1}
               /\ f >= First' /\ f >= mId' - MinAlgoFrameCount => Share(f)' = 1
               /\ f > First' /\ f < mId' - MinAlgoFrameCount => Share(f)' = 0
               /\ InLong(f)' => Share(f)' <= 0
    <3>1. /\ Share(f) \in {-1, 0, 1}
          /\ f >= First => Share(f) \in {0, 1}
          /\ f >= First /\ f >= mId - MinAlgoFrameCount => Share(f) = 1
          /\ f > First /\ f < mId - MinAlgoFrameCount => Share(f) = 0
          /\ InLong(f) => Share(f) <= 0
      BY <1>1 DEF SharesKnown
    <3>2. f \in Evicted <=> Overflows /\ f = First
      BY <1>9
    <3>3. f \in Aged(Pushed) <=> /\ Len(mList)' > MinAlgoFrameCount + 1
                                /\ f = mId - MinAlgoFrameCount
      BY <1>9
    <3>4. Share(f)' = IF f \in Evicted \cup Aged(Pushed) THEN Share(f) - 1 ELSE Share(f)
      <4>1. Share(f) = mRefCounter[f] - Lockers(f) /\ Share(f)' = mRefCounter'[f] - Lockers(f)
            /\ mRefCounter[f] \in Int /\ Lockers(f) \in Nat
        BY <1>8, <1>11
      <4>2. mRefCounter'[f] = IF f \in Evicted \cup Aged(Pushed)
                                THEN mRefCounter[f] - 1 ELSE mRefCounter[f]
        BY <1>10
      <4> QED
        BY <4>1, <4>2
    <3>5. Share(f)' = IF \/ Overflows /\ f = First
                         \/ Len(mList)' > MinAlgoFrameCount + 1 /\ f = mId - MinAlgoFrameCount
                      THEN Share(f) - 1 ELSE Share(f)
      BY <3>2, <3>3, <3>4
    <3>6. First = mId - Len(mList) /\ f \in Nat /\ (InLong(f) => f < First)
          /\ (InLong(f)' => InLong(f) \/ (Overflows /\ f = First))
      BY <1>1, <1>6 DEF First, PointersKnown
    <3> HIDE DEF Frame
    <3>7. CASE Overflows /\ f = First
      <4>1. Share(f)' = Share(f) - 1 /\ First' = f + 1 /\ Share(f) \in {0, 1}
        BY <1>2, <1>3, <3>1, <3>5, <3>6, <3>7
      <4> QED
        BY <4>1, <3>6
    <3>8. CASE ~(Overflows /\ f = First)
      <4>1. CASE Len(mList)' > MinAlgoFrameCount + 1 /\ f = mId - MinAlgoFrameCount
        <5>1. f > First
          BY <1>2, <1>3, <1>4, <3>6, <3>8, <4>1
        <5>2. Share(f) = 1 /\ Share(f)' = 0
          <6>1. Share(f) = 1
            BY <1>2, <1>3, <3>1, <3>6, <4>1, <5>1
          <6> QED
            BY <3>5, <4>1, <6>1
        <5> QED
          BY <1>1, <1>2, <5>1, <5>2, <3>6, <4>1
      <4>2. CASE ~(Len(mList)' > MinAlgoFrameCount + 1 /\ f = mId - MinAlgoFrameCount)
        <5>1. Share(f)' = Share(f)
          BY <3>5, <3>8, <4>2
        <5> QED
          BY <1>1, <1>2, <1>3, <1>4, <5>1, <3>1, <3>6, <3>8, <4>2
      <4> QED
        BY <4>1, <4>2
    <3> QED
      BY <3>7, <3>8
  <2> QED
    BY <2>1 DEF SharesKnown
<1>13. RawCounted'
  <2>1. ASSUME NEW f \in raw' PROVE mRefCounter'[f] >= 1
    <3>1. f \in Frame /\ f \in raw
      BY <1>1, <1>9, <1>10, <2>1, DecreaseType
    <3>2. mRefCounter[f] >= 1
      BY <1>1, <3>1 DEF RawCounted
    <3> QED
      BY <1>10, <1>11, <2>1, <3>1, <3>2
  <2>2. ASSUME NEW f \in Frame, f >= First', f >= mId' - MinAlgoFrameCount
        PROVE  f \in raw'
    <3>1. f >= First /\ f >= mId - MinAlgoFrameCount
      BY <1>1, <1>2, <1>3, <2>2
    <3>2. f \in raw
      BY <1>1, <3>1 DEF RawCounted
    <3>3. f \notin Evicted \cup Aged(Pushed)
      BY <1>1, <1>2, <1>3, <1>9, <2>2
    <3> QED
      BY <1>10, <3>2, <3>3
  <2> QED
    BY <2>1, <2>2 DEF RawCounted
<1> QED
  BY <1>5, <1>7, <1>12, <1>13

-----------------------------------------------------------------------------
(***************************************************************************)
(* Steps of the users of frames.  They leave the ring alone.  A lock adds  *)
(* one to a counter and to the frame's lockers, an unlock takes one from   *)
(* both, so the shares stay; and since the newest frames have share 1, an  *)
(* unlock never brings their counters to zero.                             *)
(***************************************************************************)
LEMMA SharesKept ==
  ASSUME IInv, UNCHANGED <<mList, mLongList, mId>>,
         \A f \in Frame : Share(f)' = Share(f)
  PROVE  RingConsecutive' /\ SharesKnown'
<1>1. First' = First /\ \A f \in Frame : InLong(f)' = InLong(f)
  BY DEF First, InLong
<1>2. RingConsecutive'
  BY <1>1 DEF IInv, RingConsecutive
<1>3. SharesKnown'
  BY <1>1 DEF IInv, SharesKnown
<1> QED
  BY <1>2, <1>3

LEMMA NoFrameTouched ==
  ASSUME IInv, UNCHANGED <<mList, mLongList, mId, mRefCounter, raw>>,
         held' = held, locked' = locked, \A v \in locked : target'[v] = target[v]
  PROVE  RingConsecutive' /\ SharesKnown' /\ RawCounted'
<1>1. \A f \in Frame : Lockers(f)' = Lockers(f)
  BY LockersSame
<1>2. \A f \in Frame : Share(f)' = Share(f)
  BY <1>1 DEF Share
<1>3. RawCounted'
  BY DEF IInv, RawCounted, First
<1> QED
  BY <1>2, <1>3, SharesKept

LEMMA LockKeepsInv ==
  ASSUME IInv, NEW g \in Frame, IncreaseRefCounter(g), UNCHANGED <<mList, mLongList, mId>>,
         \A f \in Frame : Lockers(f)' = IF f = g THEN Lockers(f) + 1 ELSE Lockers(f)
  PROVE  RingConsecutive' /\ SharesKnown' /\ RawCounted'
<1>1. TypeOK /\ RawCounted
  BY DEF IInv
<1>2. /\ raw' = raw
      /\ \A f \in Frame : mRefCounter'[f] = IF f = g THEN mRefCounter[f] + 1
                                                    ELSE mRefCounter[f]
  BY <1>1, IncreaseType
<1>3. \A f \in Frame : mRefCounter[f] \in Int /\ Lockers(f) \in Nat
  BY <1>1, LockersType DEF TypeOK
<1>4. \A f \in Frame : Share(f)' = Share(f)
  BY <1>2, <1>3 DEF Share
<1>5. RawCounted'
  BY <1>1, <1>2, <1>3 DEF RawCounted, First, TypeOK
<1> QED
  BY <1>4, <1>5, SharesKept

LEMMA UnlockKeepsInv ==
  ASSUME IInv, NEW g \in Frame, DecreaseRefCounter({g}), UNCHANGED <<mList, mLongList, mId>>,
         Lockers(g) >= 1,
         \A f \in Frame : Lockers(f)' = IF f = g THEN Lockers(f) - 1 ELSE Lockers(f)
  PROVE  RingConsecutive' /\ SharesKnown' /\ RawCounted'
<1>1. TypeOK /\ RawCounted /\ SharesKnown
  BY DEF IInv
<1>2. /\ \A f \in Frame : mRefCounter'[f] = IF f = g THEN mRefCounter[f] - 1
                                                    ELSE mRefCounter[f]
      /\ \A f \in Frame : f \in raw' <=> f \in raw /\ (f = g => mRefCounter[f] # 1)
      /\ raw' \subseteq Frame
  BY <1>1, DecreaseType
<1>3. \A f \in Frame : mRefCounter[f] \in Int /\ Lockers(f) \in Nat
  BY <1>1, LockersType DEF TypeOK
<1>4. \A f \in Frame : Share(f)' = Share(f)
  BY <1>2, <1>3 DEF Share
<1>5. RawCounted'
  <2>1. ASSUME NEW f \in raw' PROVE mRefCounter'[f] >= 1
    BY <1>1, <1>2, <1>3, <2>1 DEF RawCounted
  <2>2. ASSUME NEW f \in Frame, f >= First, f >= mId - MinAlgoFrameCount
        PROVE  f \in raw'
    <3>1. f \in raw /\ Share(f) = 1
      BY <1>1, <2>2 DEF RawCounted, SharesKnown
    <3>2. f = g => mRefCounter[f] >= 2
      BY <1>3, <3>1 DEF Share
    <3> QED
      BY <1>2, <1>3, <3>1, <3>2
  <2> QED
    BY <2>1, <2>2 DEF RawCounted, First
<1> QED
  BY <1>4, <1>5, SharesKept

\* The pointers of a step that leaves the ring alone.
LEMMA PointersKept ==
  ASSUME IInv, UNCHANGED <<mList, mLongList, mId>>,
         pc' # "idle" => Len(snap') > MinAlgoFrameCount,
         \A i \in 1..Len(snap') : snap'[i] < mId,
         \A f \in held' : f < mId,
         \A v \in Viewers : target'[v] # NoFrame => target'[v] < mId,
         \A v \in locked' : target'[v] # NoFrame
  PROVE  PointersKnown'
<1>1. First' = First /\ \A f \in Frame : InLong(f)' = InLong(f)
  BY DEF First, InLong
<1> QED
  BY <1>1 DEF PointersKnown, IInv

LEMMA RingKnown ==
  ASSUME IInv
  PROVE  /\ \A i \in 1..Len(mList) : mList[i] < mId
         /\ mList # <<>> => LastOf(mList) \in Frame /\ LastOf(mList) < mId
<1>1. TypeOK /\ mId \in Nat /\ Len(mList) \in Nat
  BY LengthTypes DEF IInv
<1>2. ASSUME NEW i \in 1..Len(mList) PROVE mList[i] < mId
  <2>1. mList[i] = mId - Len(mList) + i - 1
    BY DEF IInv, RingConsecutive, First
  <2> QED
    BY <1>1, <2>1
<1>3. ASSUME mList # <<>> PROVE LastOf(mList) \in Frame /\ LastOf(mList) < mId
  <2>1. Len(mList) \in 1..Len(mList)
    BY <1>1, <1>3, EmptySeq DEF TypeOK
  <2>2. LastOf(mList) \in Frame
    BY <1>1, <2>1, ElementOfSeq DEF LastOf, TypeOK
  <2> QED
    BY <1>2, <2>1, <2>2 DEF LastOf
<1> QED
  BY <1>2, <1>3

-----------------------------------------------------------------------------
LEMMA InitInv == Init => IInv
<1> SUFFICES ASSUME Init PROVE IInv
  OBVIOUS
<1>1. TypeOK
  <2>1. mList \in Seq(Frame) /\ mLongList \in Seq(Frame) /\ snap \in Seq(Frame)
    BY EmptySeq DEF Init
  <2>2. mId \in 0..MaxFrames /\ depth \in 1..MinAlgoFrameCount /\ mLongId \in Nat
    BY ConstantTypes DEF Init
  <2>3. mRefCounter \in [Frame -> Int] /\ target \in [Viewers -> Frame \cup {NoFrame}]
    BY DEF Init
  <2>4. pc \in Phases /\ missed \in BOOLEAN /\ raw \subseteq Frame /\ jpeg \subseteq Frame
        /\ held \subseteq Frame /\ todo \subseteq Frame /\ locked \subseteq Viewers
    BY DEF Init, Phases
  <2> QED
    BY <2>1, <2>2, <2>3, <2>4 DEF TypeOK
<1>2. Len(mList) = 0 /\ Len(mLongList) = 0 /\ Len(snap) = 0 /\ First = 0 /\ mId = 0
  <2>1. Len(<<>>) = 0
    OBVIOUS
  <2>2. mList = <<>> /\ mLongList = <<>> /\ snap = <<>>
    BY DEF Init
  <2>3. Len(mList) = 0 /\ Len(mLongList) = 0 /\ Len(snap) = 0
    BY <2>1, <2>2, Zenon
  <2>4. mId = 0
    BY DEF Init
  <2>5. First = 0
    BY <2>3, <2>4 DEF First
  <2> QED
    BY <2>3, <2>4, <2>5
<1>3. RingConsecutive
  BY <1>2, ConstantTypes DEF RingConsecutive
<1>4. PointersKnown
  BY <1>2 DEF PointersKnown, Init, InLong
<1>5. \A f \in Frame : Share(f) = 1
  <2> SUFFICES ASSUME NEW f \in Frame PROVE Share(f) = 1
    OBVIOUS
  <2>1. ViewersOf(f) = {}
    BY DEF ViewersOf, Init
  <2>2. Cardinality(ViewersOf(f)) = 0
    BY <2>1, FS_EmptySet
  <2> QED
    BY <2>2 DEF Share, Lockers, Init
<1>6. SharesKnown
  BY <1>2, <1>5, ConstantTypes DEF SharesKnown, InLong
<1>7. RawCounted
  BY DEF RawCounted, Init
<1> QED
  BY <1>1, <1>3, <1>4, <1>6, <1>7 DEF IInv

LEMMA StepInv == IInv /\ [Next]_vars => IInv'
<1> SUFFICES ASSUME IInv, [Next]_vars
             PROVE  RingConsecutive' /\ PointersKnown' /\ SharesKnown' /\ RawCounted'
  BY TypeStep DEF IInv
<1>1. TypeOK /\ PointersKnown /\ RingConsecutive
  BY DEF IInv
<1>0. /\ \A i \in 1..Len(snap) : snap[i] < mId
      /\ \A f \in held : f < mId
      /\ \A v \in Viewers : target[v] # NoFrame => target[v] < mId
      /\ \A v \in locked : target[v] # NoFrame
      /\ pc # "idle" => Len(snap) > MinAlgoFrameCount
  BY <1>1 DEF PointersKnown
<1>2. CASE PushBack
  BY <1>2, PushStep
<1>3. CASE Clear
  <2>1. /\ mList' = <<>> /\ mLongList' = <<>> /\ Len(<<>>) = 0
        /\ UNCHANGED <<mId, mRefCounter, raw, pc, snap, held, target, locked>>
    BY <1>3 DEF Clear, frames, pass, views
  <2>2. First' = mId /\ mId \in Nat /\ First <= mId /\ \A f \in Frame : ~InLong(f)'
    <3>1. Len(mList)' = 0 /\ Len(mLongList)' = 0
      BY <2>1
    <3> QED
      BY <1>1, <2>1, <3>1, LengthTypes DEF First, InLong
  <2>3. RingConsecutive'
    BY <2>1, <2>2, ConstantTypes DEF RingConsecutive
  <2>4. PointersKnown'
    BY <1>1, <2>1, <2>2 DEF PointersKnown
  <2>5. \A f \in Frame : Share(f)' = Share(f)
    BY <2>1, LockersSame DEF Share
  <2>6. First \in Int /\ MinAlgoFrameCount \in Nat
    BY <1>1, LengthTypes, ConstantTypes DEF First
  <2>7. SharesKnown'
    BY <2>1, <2>2, <2>5, <2>6 DEF SharesKnown, IInv
  <2>8. RawCounted'
    BY <2>1, <2>2, <2>6 DEF RawCounted, IInv
  <2> QED
    BY <2>3, <2>4, <2>7, <2>8
<1>4. ASSUME NEW d \in Depths, BeginPass(d) \/ NextAlgorithm(d)
      PROVE  RingConsecutive' /\ PointersKnown' /\ SharesKnown' /\ RawCounted'
  <2>1. CASE BeginPass(d)
    <3>1. PointersKnown'
      BY <1>0, <2>1, RingKnown, PointersKept DEF BeginPass, ring, views
    <3> QED
      BY <2>1, <3>1, NoFrameTouched DEF BeginPass, ring, frames, views
  <2>2. CASE NextAlgorithm(d)
    <3>1. PointersKnown'
      BY <1>0, <2>2, PointersKept DEF NextAlgorithm, ring, views
    <3> QED
      BY <2>2, <3>1, NoFrameTouched DEF NextAlgorithm, ring, frames, views
  <2> QED
    BY <1>4, <2>1, <2>2
<1>5. CASE LockNext
  <2>1. PICK f \in Frame : /\ IsOldest(f, Window \ held)
                           /\ IncreaseRefCounter(f)
                           /\ held' = held \cup {f}
                           /\ pc' \in {pc, "read"}
    BY <1>5 DEF LockNext
  <2>2. f \in Window /\ f \notin held /\ pc = "lock"
    BY <1>5, <2>1 DEF IsOldest, LockNext
  <2>3. \A g \in Frame : Lockers(g)' = IF g = f THEN Lockers(g) + 1 ELSE Lockers(g)
    BY <1>1, <1>5, <2>1, <2>2, LockersOfPass DEF LockNext
  <2>4. RingConsecutive' /\ SharesKnown' /\ RawCounted'
    BY <1>5, <2>1, <2>3, LockKeepsInv DEF LockNext, ring
  <2>5. f \in Elements(snap)
    <3>1. Len(snap) > MinAlgoFrameCount /\ depth \in 1..MinAlgoFrameCount
      BY <1>1, <2>2 DEF PointersKnown, TypeOK
    <3>2. PICK i \in (Len(snap) - depth + 1)..Len(snap) : f = snap[i]
      BY <2>2 DEF Window
    <3>3. i \in 1..Len(snap)
      BY <1>1, <3>1, <3>2, LengthTypes, ConstantTypes
    <3>4. DOMAIN snap = 1..Len(snap)
      BY <1>1, LenProperties DEF TypeOK
    <3> QED
      BY <3>2, <3>3, <3>4 DEF Elements
  <2>6. f < mId
    BY <1>0, <1>1, <2>5, LenProperties DEF Elements, TypeOK
  <2>7. PointersKnown'
    BY <1>0, <1>5, <2>1, <2>2, <2>6, PointersKept DEF LockNext, ring, views
  <2> QED
    BY <2>4, <2>7
<1>6. CASE ReadNext
  <2>1. PointersKnown'
    BY <1>0, <1>6, PointersKept DEF ReadNext, ring, views
  <2> QED
    BY <1>6, <2>1, NoFrameTouched DEF ReadNext, ring, frames, views
<1>7. CASE UnlockNext
  <2>1. PICK f \in Frame : /\ IsNewest(f, held)
                           /\ DecreaseRefCounter({f})
                           /\ held' = held \ {f}
    BY <1>7 DEF UnlockNext
  <2>2. f \in held /\ Lockers(f) >= 1
    BY <1>1, <2>1, LockersType DEF IsNewest
  <2>3. \A g \in Frame : Lockers(g)' = IF g = f THEN Lockers(g) - 1 ELSE Lockers(g)
    BY <1>1, <1>7, <2>1, <2>2, LockersOfPass DEF UnlockNext
  <2>4. RingConsecutive' /\ SharesKnown' /\ RawCounted'
    BY <1>7, <2>1, <2>2, <2>3, UnlockKeepsInv DEF UnlockNext, ring
  <2>5. PointersKnown'
    BY <1>0, <1>7, <2>1, PointersKept DEF UnlockNext, ring, views
  <2> QED
    BY <2>4, <2>5
<1>8. CASE EndPass
  <2>1. LastOf(snap) \in Frame /\ LastOf(snap) < mId
    BY <1>8, SnapLast DEF EndPass
  <2>2. LastOf(snap) # NoFrame
    BY <2>1, ViewersAssumption
  <2>3. \A v \in Viewers : \/ target'[v] = target[v]
                           \/ target[v] = NoFrame /\ target'[v] = LastOf(snap)
    BY <1>1, <1>8 DEF EndPass, TypeOK
  <2>4. locked' = locked /\ locked \subseteq Viewers /\ \A v \in locked : target[v] # NoFrame
    BY <1>1, <1>8 DEF EndPass, TypeOK, PointersKnown
  <2>5. \A v \in locked : target'[v] = target[v]
    BY <2>3, <2>4
  <2>6. PointersKnown'
    <3>1. Len(snap') = 0 /\ pc' = "idle" /\ held' = held /\ UNCHANGED <<mList, mLongList, mId>>
      <4>1. Len(<<>>) = 0
        OBVIOUS
      <4> QED
        BY <4>1, <1>8 DEF EndPass, ring
    <3>2. \A i \in 1..Len(snap') : snap'[i] < mId
      BY <3>1
    <3> QED
      BY <1>0, <2>1, <2>3, <2>4, <2>5, <3>1, <3>2, PointersKept
  <2> QED
    BY <1>8, <2>5, <2>6, NoFrameTouched DEF EndPass, ring, frames
<1>9. ASSUME NEW v \in Viewers, Take(v)
      PROVE  RingConsecutive' /\ PointersKnown' /\ SharesKnown' /\ RawCounted'
  <2>2. LastOf(mList) \in Frame /\ LastOf(mList) < mId
    BY <1>9, RingKnown DEF Take
  <2>3. \A w \in Viewers : \/ target'[w] = target[w]
                           \/ target[w] = NoFrame /\ target'[w] = LastOf(mList)
    BY <1>1, <1>9 DEF Take, TypeOK
  <2>4. locked' = locked /\ locked \subseteq Viewers /\ \A w \in locked : target[w] # NoFrame
    BY <1>1, <1>9 DEF Take, TypeOK, PointersKnown
  <2>5. \A w \in locked : target'[w] = target[w]
    BY <2>3, <2>4
  <2>6. PointersKnown'
    BY <1>0, <1>9, <2>2, <2>3, <2>4, <2>5, PointersKept DEF Take, ring, pass
  <2> QED
    BY <1>9, <2>5, <2>6, NoFrameTouched DEF Take, ring, frames, pass
<1>10. ASSUME NEW v \in Viewers, LockTarget(v)
       PROVE  RingConsecutive' /\ PointersKnown' /\ SharesKnown' /\ RawCounted'
  <2>1. target[v] \in Frame /\ IncreaseRefCounter(target[v])
    BY <1>1, <1>10 DEF LockTarget, TypeOK
  <2>2. RingConsecutive' /\ SharesKnown' /\ RawCounted'
    BY <1>1, <1>10, <2>1, LockersOfLock, LockKeepsInv DEF LockTarget, ring
  <2>3. PointersKnown'
    BY <1>0, <1>10, PointersKept DEF LockTarget, ring, pass
  <2> QED
    BY <2>2, <2>3
<1>11. ASSUME NEW v \in Viewers, UnlockTarget(v)
       PROVE  RingConsecutive' /\ PointersKnown' /\ SharesKnown' /\ RawCounted'
  <2>1. target[v] \in Frame /\ DecreaseRefCounter({target[v]}) /\ v \in ViewersOf(target[v])
    BY <1>1, <1>11 DEF UnlockTarget, TypeOK, PointersKnown, ViewersOf
  <2>2. Lockers(target[v]) >= 1
    BY <1>1, <2>1, LockersType
  <2>3. RingConsecutive' /\ SharesKnown' /\ RawCounted'
    BY <1>1, <1>11, <2>1, <2>2, LockersOfUnlock, UnlockKeepsInv DEF UnlockTarget, ring
  <2>4. \A w \in Viewers : target'[w] = IF w = v THEN NoFrame ELSE target[w]
    BY <1>1, <1>11 DEF UnlockTarget, TypeOK
  <2>5. PointersKnown'
    <3>1. \A w \in locked' : target'[w] # NoFrame
      BY <1>0, <1>1, <1>11, <2>4 DEF UnlockTarget, TypeOK
    <3> QED
      BY <1>0, <1>11, <2>4, <3>1, PointersKept DEF UnlockTarget, ring, pass
  <2> QED
    BY <2>3, <2>5
<1>12. CASE UNCHANGED vars
  BY <1>0, <1>12, PointersKept, NoFrameTouched DEF vars, ring, frames, pass, views
<1> QED
  BY <1>2, <1>3, <1>4, <1>5, <1>6, <1>7, <1>8, <1>9, <1>10, <1>11, <1>12 DEF Next

-----------------------------------------------------------------------------
(* What the inductive invariant says in the words of FrameBuffer. *)

LEMMA NewestFrames ==
  ASSUME IInv
  PROVE  \A f \in Newest : f \in Frame /\ f >= First /\ f >= mId - MinAlgoFrameCount
<1>1. TypeOK /\ RingConsecutive /\ mId \in Nat /\ Len(mList) \in Nat
  BY LengthTypes DEF IInv
<1>2. DOMAIN mList = 1..Len(mList)
  BY <1>1 DEF TypeOK
<1>3. SUFFICES ASSUME NEW i \in 1..Len(mList), i > Len(mList) - MinAlgoFrameCount
               PROVE  /\ mList[i] \in Frame /\ mList[i] >= First
                      /\ mList[i] >= mId - MinAlgoFrameCount
  BY <1>2 DEF Newest
<1>4. mList[i] \in Frame
  BY <1>1, ElementOfSeq DEF TypeOK
<1>5. mList[i] = First + i - 1
  BY <1>1 DEF RingConsecutive
<1> QED
  BY <1>1, <1>3, <1>4, <1>5, ConstantTypes DEF First

LEMMA RingFrames ==
  ASSUME IInv
  PROVE  \A f \in Elements(mList) : f \in Frame /\ f >= First
<1>1. TypeOK /\ RingConsecutive /\ mId \in Nat /\ Len(mList) \in Nat
  BY LengthTypes DEF IInv
<1>2. DOMAIN mList = 1..Len(mList)
  BY <1>1 DEF TypeOK
<1>3. SUFFICES ASSUME NEW i \in 1..Len(mList)
               PROVE  mList[i] \in Frame /\ mList[i] >= First
  BY <1>2 DEF Elements
<1>4. mList[i] \in Frame
  BY <1>1, ElementOfSeq DEF TypeOK
<1>5. mList[i] = First + i - 1
  BY <1>1 DEF RingConsecutive
<1> QED
  BY <1>1, <1>4, <1>5 DEF First

\* A frame the buffer has no share in is uncompressed only while it is locked.
LEMMA CompressedUnlessLocked ==
  ASSUME IInv, NEW f \in Frame, Share(f) <= 0, f \in raw
  PROVE  Lockers(f) > 0
<1>1. mRefCounter[f] \in Int /\ mRefCounter[f] >= 1
  BY DEF IInv, TypeOK, RawCounted
<1>2. Lockers(f) \in Nat
  BY LockersType DEF IInv
<1> QED
  BY <1>1, <1>2 DEF Share

\* A step releases only frames whose counter it takes to zero.
LEMMA ReleasedAtZero ==
  ASSUME IInv, [Next]_vars
  PROVE  \A f \in raw \ raw' : mRefCounter'[f] = 0
<1>0. TypeOK /\ RingConsecutive
  BY DEF IInv
<1>1. ASSUME NEW S \in SUBSET Frame, DecreaseRefCounter(S)
      PROVE  \A f \in raw \ raw' : mRefCounter'[f] = 0
  BY <1>0, <1>1 DEF DecreaseRefCounter, TypeOK
<1>2. ASSUME raw' = raw
      PROVE  \A f \in raw \ raw' : mRefCounter'[f] = 0
  BY <1>2
<1>3. CASE PushBack
  <2>1. Evicted \cup Aged(Pushed) \subseteq Frame
    BY <1>0, <1>3, PushDrops DEF PushBack
  <2> QED
    BY <1>1, <1>3, <2>1 DEF PushBack
<1>4. CASE UnlockNext
  BY <1>1, <1>4 DEF UnlockNext
<1>5. ASSUME NEW v \in Viewers, UnlockTarget(v)
      PROVE  \A f \in raw \ raw' : mRefCounter'[f] = 0
  <2>1. \A f \in raw \ raw' : f \in Frame /\ mRefCounter[f] = 1 /\ f \in {target[v]}
    BY <1>0, <1>5 DEF UnlockTarget, DecreaseRefCounter, TypeOK
  <2> QED
    BY <1>0, <1>5, <2>1 DEF UnlockTarget, DecreaseRefCounter, TypeOK
<1>6. CASE Clear \/ (\E d \in Depths : BeginPass(d) \/ NextAlgorithm(d)) \/ LockNext \/ ReadNext \/ EndPass
           \/ UNCHANGED vars
  BY <1>2, <1>6 DEF Clear, BeginPass, NextAlgorithm, LockNext, ReadNext, EndPass, IncreaseRefCounter, frames, vars
<1>7. ASSUME NEW v \in Viewers, Take(v) \/ LockTarget(v)
      PROVE  raw' = raw
  BY <1>7 DEF Take, LockTarget, IncreaseRefCounter, frames
<1> QED
  BY <1>2, <1>3, <1>4, <1>5, <1>6, <1>7 DEF Next

\* A locked frame of the ring has a positive counter.
LocksCounted == \A f \in Elements(mList) : Lockers(f) > 0 => mRefCounter[f] >= 1

LEMMA RingLocksCounted ==
  ASSUME IInv
  PROVE  LocksCounted
<1> SUFFICES ASSUME NEW f \in Elements(mList), Lockers(f) > 0
             PROVE  mRefCounter[f] >= 1
  BY DEF LocksCounted
<1>1. f \in Frame /\ f >= First
  BY RingFrames
<1>2. Share(f) \in {0, 1}
  BY <1>1 DEF IInv, SharesKnown
<1>3. mRefCounter[f] \in Int /\ Lockers(f) \in Nat
  BY <1>1, LockersType DEF IInv, TypeOK
<1> QED
  BY <1>2, <1>3 DEF Share

-----------------------------------------------------------------------------
(***************************************************************************)
(* What a pass that was not overtaken finds.  A ring that holds the whole  *)
(* window evicts no frame of it, so that the newest frames keep their      *)
(* share and their image even when a clear empties the ring under a pass.  *)
(***************************************************************************)
NewestKept ==
  MinAlgoFrameCount <= MaxSize =>
    \A f \in Frame : f >= mId - MinAlgoFrameCount => f \in raw /\ Share(f) = 1

\* A copied ring is consecutive, and a pass begins with a full ring only.
SnapConsecutive ==
  pc # "idle" =>
    /\ MinAlgoFrameCount <= MaxSize
    /\ Len(snap) > MinAlgoFrameCount
    /\ \A i \in 1..Len(snap) : snap[i] = LastOf(snap) - (Len(snap) - i)

\* A pass reads no other frames than its window.
ReadsWindow == pc = "read" => todo \subseteq Window

Overtaken ==
  missed => pc # "idle" /\ mId - (LastOf(snap) + 1) >= MinAlgoFrameCount + 1 - depth

PassInv == IInv /\ NewestKept /\ SnapConsecutive /\ ReadsWindow /\ Overtaken

\* A step of the users of frames leaves the newest alone.
LEMMA NewestKeptByUsers ==
  ASSUME IInv, NewestKept, mId' = mId,
         \A f \in Frame : Share(f)' = Share(f),
         \A f \in Frame : f \in raw /\ Share(f) = 1 => f \in raw'
  PROVE  NewestKept'
BY DEF NewestKept

LEMMA NewestKeptByPush ==
  ASSUME IInv, NewestKept, PushBack
  PROVE  NewestKept'
<1>1. /\ TypeOK /\ RingConsecutive /\ mId < MaxFrames /\ mId' = mId + 1
      /\ DecreaseRefCounter(Evicted \cup Aged(Pushed))
      /\ UNCHANGED <<held, target, locked>>
      /\ mId \in Nat /\ Len(mList) \in Nat /\ MinAlgoFrameCount \in Nat \ {0}
      /\ MaxSize \in Nat /\ MaxFrames \in Nat
  BY LengthTypes, ConstantTypes DEF IInv, PushBack, pass, views
<1>2. SUFFICES ASSUME NEW f \in Frame, MinAlgoFrameCount <= MaxSize, f >= mId + 1 - MinAlgoFrameCount
               PROVE  f \in raw' /\ Share(f)' = 1
  BY <1>1 DEF NewestKept
<1>3. f \in raw /\ Share(f) = 1
  BY <1>1, <1>2 DEF NewestKept
<1>4. /\ Evicted = IF Overflows THEN {First} ELSE {}
      /\ Aged(Pushed) = IF Len(Pushed) > MinAlgoFrameCount + 1
                        THEN {mId - MinAlgoFrameCount} ELSE {}
      /\ Evicted \cup Aged(Pushed) \in SUBSET Frame
  BY <1>1, PushDrops
<1>5. Overflows => First <= mId - MinAlgoFrameCount
  BY <1>1, <1>2 DEF Overflows, First
<1>6. f \notin Evicted \cup Aged(Pushed)
  BY <1>1, <1>2, <1>4, <1>5 DEF First
<1>7. mRefCounter'[f] = mRefCounter[f] /\ f \in raw'
  BY <1>1, <1>3, <1>4, <1>6, DecreaseType
<1>8. Lockers(f)' = Lockers(f)
  BY <1>1, LockersSame
<1> QED
  BY <1>3, <1>7, <1>8 DEF Share

LEMMA NewestStep ==
  ASSUME IInv, NewestKept, [Next]_vars
  PROVE  NewestKept'
<1>1. TypeOK /\ PointersKnown
  BY DEF IInv
<1>2. \A f \in Frame : mRefCounter[f] \in Int /\ Lockers(f) \in Nat
  BY <1>1, LockersType DEF TypeOK
<1>3. ASSUME NEW g \in Frame, IncreaseRefCounter(g), mId' = mId,
             \A f \in Frame : Lockers(f)' = IF f = g THEN Lockers(f) + 1 ELSE Lockers(f)
      PROVE  NewestKept'
  <2>1. raw' = raw /\ \A f \in Frame : Share(f)' = Share(f)
    BY <1>1, <1>2, <1>3, IncreaseType DEF Share
  <2> QED
    BY <1>3, <2>1, NewestKeptByUsers
<1>4. ASSUME NEW g \in Frame, DecreaseRefCounter({g}), mId' = mId, Lockers(g) >= 1,
             \A f \in Frame : Lockers(f)' = IF f = g THEN Lockers(f) - 1 ELSE Lockers(f)
      PROVE  NewestKept'
  <2>1. /\ \A f \in Frame : mRefCounter'[f] = IF f = g THEN mRefCounter[f] - 1
                                                      ELSE mRefCounter[f]
        /\ \A f \in Frame : f \in raw' <=> f \in raw /\ (f = g => mRefCounter[f] # 1)
    BY <1>1, <1>4, DecreaseType
  <2>2. \A f \in Frame : Share(f)' = Share(f)
    BY <1>2, <1>4, <2>1 DEF Share
  <2>3. \A f \in Frame : f \in raw /\ Share(f) = 1 => f \in raw'
    BY <1>2, <1>4, <2>1 DEF Share
  <2> QED
    BY <1>4, <2>2, <2>3, NewestKeptByUsers
<1>5. ASSUME UNCHANGED <<mId, mRefCounter, raw, held, locked>>,
             \A v \in locked : target'[v] = target[v]
      PROVE  NewestKept'
  <2>1. \A f \in Frame : Share(f)' = Share(f)
    BY <1>5, LockersSame DEF Share
  <2> QED
    BY <1>5, <2>1, NewestKeptByUsers
<1>6. CASE PushBack
  BY <1>6, NewestKeptByPush
<1>7. CASE Clear
  BY <1>5, <1>7 DEF Clear, frames, pass, views
<1>8. ASSUME NEW d \in Depths, BeginPass(d) \/ NextAlgorithm(d)
      PROVE  NewestKept'
  BY <1>5, <1>8 DEF BeginPass, NextAlgorithm, ring, frames, views
<1>9. CASE LockNext
  <2>1. PICK g \in Frame : /\ IsOldest(g, Window \ held)
                           /\ IncreaseRefCounter(g)
                           /\ held' = held \cup {g}
    BY <1>9 DEF LockNext
  <2>2. \A f \in Frame : Lockers(f)' = IF f = g THEN Lockers(f) + 1 ELSE Lockers(f)
    BY <1>1, <1>9, <2>1, LockersOfPass DEF LockNext, IsOldest
  <2> QED
    BY <1>3, <1>9, <2>1, <2>2 DEF LockNext, ring
<1>10. CASE ReadNext
  BY <1>5, <1>10 DEF ReadNext, ring, frames, views
<1>11. CASE UnlockNext
  <2>1. PICK g \in Frame : /\ IsNewest(g, held)
                           /\ DecreaseRefCounter({g})
                           /\ held' = held \ {g}
    BY <1>11 DEF UnlockNext
  <2>2. g \in held /\ Lockers(g) >= 1
    BY <1>1, <2>1, LockersType DEF IsNewest
  <2>3. \A f \in Frame : Lockers(f)' = IF f = g THEN Lockers(f) - 1 ELSE Lockers(f)
    BY <1>1, <1>11, <2>1, <2>2, LockersOfPass DEF UnlockNext
  <2> QED
    BY <1>4, <1>11, <2>1, <2>2, <2>3 DEF UnlockNext, ring
<1>12. CASE EndPass
  <2>1. \A v \in locked : target'[v] = target[v]
    BY <1>1, <1>12 DEF EndPass, TypeOK, PointersKnown
  <2> QED
    BY <1>5, <1>12, <2>1 DEF EndPass, ring, frames
<1>13. ASSUME NEW v \in Viewers, Take(v)
       PROVE  NewestKept'
  <2>1. \A w \in locked : target'[w] = target[w]
    BY <1>1, <1>13 DEF Take, TypeOK, PointersKnown
  <2> QED
    BY <1>5, <1>13, <2>1 DEF Take, ring, frames, pass
<1>14. ASSUME NEW v \in Viewers, LockTarget(v)
       PROVE  NewestKept'
  <2>1. target[v] \in Frame /\ IncreaseRefCounter(target[v])
    BY <1>1, <1>14 DEF LockTarget, TypeOK
  <2> QED
    BY <1>1, <1>3, <1>14, <2>1, LockersOfLock DEF LockTarget, ring
<1>15. ASSUME NEW v \in Viewers, UnlockTarget(v)
       PROVE  NewestKept'
  <2>1. target[v] \in Frame /\ DecreaseRefCounter({target[v]}) /\ v \in ViewersOf(target[v])
    BY <1>1, <1>15 DEF UnlockTarget, TypeOK, PointersKnown, ViewersOf
  <2>2. Lockers(target[v]) >= 1
    BY <1>1, <2>1, LockersType
  <2> QED
    BY <1>1, <1>4, <1>15, <2>1, <2>2, LockersOfUnlock DEF UnlockTarget, ring
<1>16. CASE UNCHANGED vars
  BY <1>5, <1>16 DEF vars, ring, frames, pass, views
<1> QED
  BY <1>6, <1>7, <1>8, <1>9, <1>10, <1>11, <1>12, <1>13, <1>14, <1>15, <1>16 DEF Next

\* A frame of the window of a pass that was not overtaken is among the newest.
LEMMA WindowIsNew ==
  ASSUME PassInv, pc # "idle", NEW f \in Window
  PROVE  /\ f \in Frame
         /\ mId - (LastOf(snap) + 1) < MinAlgoFrameCount + 1 - depth => f \in raw
<1>1. /\ TypeOK /\ NewestKept /\ SnapConsecutive /\ MinAlgoFrameCount \in Nat \ {0}
      /\ depth \in 1..MinAlgoFrameCount /\ Len(snap) \in Nat /\ mId \in Nat
      /\ snap \in Seq(Frame)
  BY LengthTypes, ConstantTypes DEF PassInv, IInv, TypeOK
<1>2. PICK i \in (Len(snap) - depth + 1)..Len(snap) : f = snap[i]
  BY DEF Window
<1>3. i \in 1..Len(snap) /\ i > Len(snap) - depth /\ Len(snap) \in 1..Len(snap)
  BY <1>1, <1>2 DEF SnapConsecutive
<1>4. f \in Frame /\ LastOf(snap) \in Frame
  BY <1>1, <1>2, <1>3, ElementOfSeq DEF LastOf
<1>5. f = LastOf(snap) - (Len(snap) - i) /\ MinAlgoFrameCount <= MaxSize
  BY <1>1, <1>2, <1>3 DEF SnapConsecutive
<1>6. mId - (LastOf(snap) + 1) < MinAlgoFrameCount + 1 - depth => f >= mId - MinAlgoFrameCount
  BY <1>1, <1>3, <1>4, <1>5
<1> QED
  BY <1>1, <1>4, <1>5, <1>6 DEF NewestKept

LEMMA PassInit == Init => PassInv
<1> SUFFICES ASSUME Init PROVE PassInv
  OBVIOUS
<1>1. ASSUME NEW f \in Frame PROVE Share(f) = 1
  <2>1. ViewersOf(f) = {} /\ f \notin held /\ mRefCounter[f] = 1
    BY DEF Init, ViewersOf
  <2>2. Cardinality(ViewersOf(f)) = 0
    BY <2>1, FS_EmptySet
  <2> QED
    BY <2>1, <2>2 DEF Share, Lockers
<1>2. NewestKept
  BY <1>1 DEF Init, NewestKept
<1> QED
  BY <1>2, InitInv DEF Init, PassInv, SnapConsecutive, ReadsWindow, Overtaken

\* A step that leaves the pass alone.
LEMMA PassAlone ==
  ASSUME PassInv, UNCHANGED pass, mId' \in Nat, mId' >= mId
  PROVE  SnapConsecutive' /\ ReadsWindow' /\ Overtaken'
<1>1. UNCHANGED <<pc, snap, depth, held, todo, missed>>
  BY DEF pass
<1>2. SnapConsecutive' /\ ReadsWindow'
  BY <1>1 DEF PassInv, SnapConsecutive, ReadsWindow, Window, LastOf
<1>3. ASSUME missed
      PROVE  pc # "idle" /\ mId' - (LastOf(snap) + 1) >= MinAlgoFrameCount + 1 - depth
  <2>1. MinAlgoFrameCount \in Nat /\ depth \in Nat /\ mId \in Nat
    BY LengthTypes, ConstantTypes DEF PassInv, IInv, TypeOK
  <2>2. pc # "idle" /\ mId - (LastOf(snap) + 1) >= MinAlgoFrameCount + 1 - depth
    BY <1>3 DEF PassInv, Overtaken
  <2>3. LastOf(snap) \in Int
    <3>1. pc # "idle"
      BY <1>3 DEF PassInv, Overtaken
    <3> QED
      BY <3>1, SnapLast DEF PassInv
  <2> QED
    BY <2>1, <2>2, <2>3
<1> QED
  BY <1>1, <1>2, <1>3 DEF Overtaken, LastOf

LEMMA PassStep == PassInv /\ [Next]_vars => PassInv'
<1> SUFFICES ASSUME PassInv, [Next]_vars PROVE PassInv'
  OBVIOUS
<1>1. IInv' /\ NewestKept'
  BY StepInv, NewestStep DEF PassInv
<1>2. /\ TypeOK /\ RingConsecutive /\ SnapConsecutive /\ ReadsWindow /\ Overtaken
      /\ mId \in Nat /\ Len(mList) \in Nat /\ MinAlgoFrameCount \in Nat /\ MaxSize \in Nat
  BY LengthTypes, ConstantTypes DEF PassInv, IInv
<1>3. SUFFICES SnapConsecutive' /\ ReadsWindow' /\ Overtaken'
  BY <1>1 DEF PassInv
<1>4. CASE UNCHANGED pass
  <2>1. mId' \in Nat /\ mId' >= mId
    <3>1. mId' \in {mId, mId + 1}
      BY <1>4 DEF Next, PushBack, Clear, BeginPass, NextAlgorithm, LockNext, ReadNext, UnlockNext,
                  EndPass, Take, LockTarget, UnlockTarget, vars, ring
    <3> QED
      BY <1>2, <3>1
  <2> QED
    BY <1>4, <2>1, PassAlone
<1>5. ASSUME NEW d \in Depths, BeginPass(d)
      PROVE  SnapConsecutive' /\ ReadsWindow' /\ Overtaken'
  <2>1. pc' = "lock" /\ snap' = mList /\ missed' = FALSE /\ Len(mList) > MinAlgoFrameCount
    BY <1>5 DEF BeginPass
  <2>2. MinAlgoFrameCount <= MaxSize
    BY <1>2, <2>1 DEF RingConsecutive
  <2>3. \A i \in 1..Len(mList) : mList[i] = First + i - 1
    BY <1>2 DEF RingConsecutive
  <2>4. LastOf(mList) = First + Len(mList) - 1
    BY <1>2, <2>1, <2>3 DEF LastOf
  <2>5. \A i \in 1..Len(mList) : mList[i] = LastOf(mList) - (Len(mList) - i)
    BY <1>2, <2>3, <2>4 DEF First
  <2>6. SnapConsecutive'
    BY <2>1, <2>2, <2>5 DEF SnapConsecutive, LastOf
  <2> QED
    BY <2>1, <2>6 DEF ReadsWindow, Overtaken
<1>6. ASSUME NEW d \in Depths, NextAlgorithm(d)
      PROVE  SnapConsecutive' /\ ReadsWindow' /\ Overtaken'
  BY <1>2, <1>6 DEF NextAlgorithm, SnapConsecutive, ReadsWindow, Overtaken, LastOf
<1>7. CASE LockNext
  <2>1. /\ pc = "lock" /\ pc' \in {"lock", "read"} /\ UNCHANGED <<mId, snap, depth, missed>>
        /\ pc' = "read" => todo' = Window
    BY <1>7 DEF LockNext, ring
  <2> QED
    BY <1>2, <2>1 DEF SnapConsecutive, ReadsWindow, Overtaken, LastOf, Window
<1>8. CASE ReadNext
  <2>1. PICK f \in Frame : /\ IsNewest(f, todo)
                           /\ missed' = (f \notin raw)
                           /\ todo' \subseteq todo
    BY <1>8 DEF ReadNext
  <2>2. pc = "read" /\ pc' \in {"read", "unlock"} /\ UNCHANGED <<mId, snap, depth>>
    BY <1>8 DEF ReadNext, ring
  <2>3. f \in Window /\ todo' \subseteq Window
    BY <1>2, <2>1, <2>2 DEF IsNewest, ReadsWindow
  <2>4. SnapConsecutive' /\ ReadsWindow'
    BY <1>2, <2>2, <2>3 DEF SnapConsecutive, ReadsWindow, Window, LastOf
  <2>5. missed' => mId - (LastOf(snap) + 1) >= MinAlgoFrameCount + 1 - depth
    <3>1. mId - (LastOf(snap) + 1) < MinAlgoFrameCount + 1 - depth => f \in raw
      BY <2>2, <2>3, WindowIsNew
    <3>2. LastOf(snap) \in Nat /\ depth \in Nat
      BY <1>2, <2>2, SnapLast, ConstantTypes DEF PassInv, TypeOK
    <3>3. missed' => f \notin raw
      BY <2>1
    <3> QED
      BY <1>2, <3>1, <3>2, <3>3
  <2> QED
    BY <2>2, <2>4, <2>5 DEF Overtaken, LastOf
<1>9. CASE UnlockNext
  <2>1. pc = "unlock" /\ UNCHANGED <<mId, pc, snap, depth, missed>>
    BY <1>9 DEF UnlockNext, ring
  <2> QED
    BY <1>2, <2>1 DEF SnapConsecutive, ReadsWindow, Overtaken, LastOf
<1>10. CASE EndPass
  BY <1>10 DEF EndPass, SnapConsecutive, ReadsWindow, Overtaken
<1>11. CASE PushBack \/ Clear \/ UNCHANGED vars
  BY <1>4, <1>11 DEF PushBack, Clear, vars
<1>12. ASSUME NEW v \in Viewers, Take(v) \/ LockTarget(v) \/ UnlockTarget(v)
       PROVE  SnapConsecutive' /\ ReadsWindow' /\ Overtaken'
  BY <1>4, <1>12 DEF Take, LockTarget, UnlockTarget
<1> QED
  BY <1>5, <1>6, <1>7, <1>8, <1>9, <1>10, <1>11, <1>12 DEF Next

-----------------------------------------------------------------------------
(* The theorems: the invariants of FrameBuffer in every reachable state. *)

\* The inductive invariant holds in every reachable state.
THEOREM InductiveInvariant == Spec => []IInv
<1> QED
  BY InitInv, StepInv, PTL DEF Spec

\* Every variable keeps its type: a push, a pass or a viewer never makes a
\* pointer to a frame that does not exist.
THEOREM TypeCorrect == Spec => []TypeOK
<1>1. IInv => TypeOK
  BY DEF IInv
<1> QED
  BY <1>1, InductiveInvariant, PTL

\* The frames the algorithms compare (the newest of the ring) always have their
\* uncompressed image, whatever pushes, passes and viewers did to the counters.
THEOREM NewestAreUncompressed == Spec => []NewestUncompressed
<1>1. IInv => NewestUncompressed
  BY NewestFrames DEF IInv, RawCounted, NewestUncompressed
<1> QED
  BY <1>1, InductiveInvariant, PTL

\* Lockers and pushes keep every counter balanced: less its lockers it counts 1
\* among the newest frames, 0 or 1 in the ring, and between -1 and 1 anywhere.
THEOREM CountersStayBalanced == Spec => []CountersBalanced
<1>1. IInv => CountersBalanced
  BY NewestFrames, RingFrames DEF IInv, SharesKnown, CountersBalanced
<1> QED
  BY <1>1, InductiveInvariant, PTL

\* Frames past the newest are released once nobody has locked them: the memory
\* of a recording is bounded by the newest frames, the oldest and the lockers.
THEOREM OldFramesAreCompressed == Spec => []OldFramesCompressed
<1>1. ASSUME IInv PROVE OldFramesCompressed
  <2>1. TypeOK /\ RingConsecutive /\ SharesKnown /\ mId \in Nat /\ Len(mList) \in Nat
        /\ Len(mLongList) \in Nat
    BY <1>1, LengthTypes DEF IInv
  <2>2. \A f \in Elements(mLongList) : f \in Frame /\ Share(f) <= 0
    <3>1. DOMAIN mLongList = 1..Len(mLongList)
      BY <2>1 DEF TypeOK
    <3>2. SUFFICES ASSUME NEW i \in 1..Len(mLongList)
                   PROVE  mLongList[i] \in Frame /\ Share(mLongList[i]) <= 0
      BY <3>1 DEF Elements
    <3>3. mLongList[i] \in Frame /\ InLong(mLongList[i])
      BY <2>1, ElementOfSeq DEF TypeOK, InLong
    <3> QED
      BY <2>1, <3>3 DEF SharesKnown
  <2>3. \A i \in 2..(Len(mList) - MinAlgoFrameCount) :
          mList[i] \in Frame /\ Share(mList[i]) = 0
    <3> SUFFICES ASSUME NEW i \in 2..(Len(mList) - MinAlgoFrameCount)
                 PROVE  mList[i] \in Frame /\ Share(mList[i]) = 0
      OBVIOUS
    <3>1. i \in 1..Len(mList)
      BY <2>1, ConstantTypes
    <3>2. mList[i] \in Frame
      BY <2>1, <3>1, ElementOfSeq DEF TypeOK
    <3>3. mList[i] = First + i - 1
      BY <2>1, <3>1 DEF RingConsecutive
    <3>4. mList[i] > First /\ mList[i] < mId - MinAlgoFrameCount
      BY <2>1, <3>3, ConstantTypes DEF First
    <3> QED
      BY <2>1, <3>2, <3>4 DEF SharesKnown
  <2>4. \A f \in Frame : Share(f) <= 0 /\ f \in raw => Lockers(f) > 0
    BY <1>1, CompressedUnlessLocked
  <2> QED
    BY <2>2, <2>3, <2>4 DEF OldFramesCompressed
<1> QED
  BY <1>1, InductiveInvariant, PTL

\* No step loses an image: a frame is compressed before it is released.
THEOREM ImagesStayRecoverable == Spec => []FullImageRecoverable
<1>1. Init => FullImageRecoverable
  BY DEF Init, FullImageRecoverable
<1>2. FullImageRecoverable /\ [Next]_vars => FullImageRecoverable'
  <2> SUFFICES ASSUME FullImageRecoverable, [Next]_vars
               PROVE  FullImageRecoverable'
    OBVIOUS
  <2>1. ASSUME NEW S, DecreaseRefCounter(S) PROVE FullImageRecoverable'
    BY <2>1 DEF DecreaseRefCounter, FullImageRecoverable
  <2>2. ASSUME UNCHANGED <<raw, jpeg>> PROVE FullImageRecoverable'
    BY <2>2 DEF FullImageRecoverable
  <2>3. CASE PushBack
    BY <2>1, <2>3 DEF PushBack
  <2>4. CASE UnlockNext
    BY <2>1, <2>4 DEF UnlockNext
  <2>5. ASSUME NEW v \in Viewers, UnlockTarget(v) PROVE FullImageRecoverable'
    BY <2>1, <2>5 DEF UnlockTarget
  <2>6. ASSUME NEW v \in Viewers, Take(v) \/ LockTarget(v) PROVE FullImageRecoverable'
    BY <2>2, <2>6 DEF Take, LockTarget, IncreaseRefCounter, frames
  <2>7. CASE Clear \/ (\E d \in Depths : BeginPass(d) \/ NextAlgorithm(d)) \/ LockNext \/ ReadNext \/ EndPass
             \/ UNCHANGED vars
    BY <2>2, <2>7 DEF Clear, BeginPass, NextAlgorithm, LockNext, ReadNext, EndPass, IncreaseRefCounter,
                      frames, vars
  <2> QED
    BY <2>3, <2>4, <2>5, <2>6, <2>7 DEF Next
<1> QED
  BY <1>1, <1>2, PTL DEF Spec

\* A frame somebody keeps locked is not released while it is in the ring.
THEOREM LocksAreKept == Spec => LockKeepsFrameInRing
<1>1. IInv => LocksCounted
  BY RingLocksCounted
<1>2. ASSUME IInv, [Next]_vars, LocksCounted'
      PROVE  \A f \in raw \cap Elements(mList') :
               Lockers(f) > 0 /\ Lockers(f)' > 0 => f \in raw'
  <2>1. ASSUME NEW f \in raw \cap Elements(mList'), Lockers(f)' > 0, f \notin raw'
        PROVE  FALSE
    <3>1. mRefCounter'[f] = 0
      BY <1>2, <2>1, ReleasedAtZero
    <3>2. mRefCounter'[f] >= 1
      BY <1>2, <2>1 DEF LocksCounted
    <3> QED
      BY <3>1, <3>2
  <2> QED
    BY <2>1
<1>3. IInv /\ [Next]_vars /\ LocksCounted' =>
        \A f \in raw \cap Elements(mList') :
          Lockers(f) > 0 /\ Lockers(f)' > 0 => f \in raw'
  BY <1>2
<1> QED
  BY <1>1, <1>3, InductiveInvariant, PTL DEF Spec, LockKeepsFrameInRing

\* A pass that meets a released frame was overtaken: the camera pushed so many frames
\* since the copy that the oldest of its window left the newest ones.  A clear between
\* the copy and the reading costs no alert.
THEOREM OnlyOvertakenMiss == Spec => []MissedOnlyIfOvertaken
<1>1. Spec => []PassInv
  BY PassInit, PassStep, PTL DEF Spec
<1>2. PassInv => MissedOnlyIfOvertaken
  BY DEF PassInv, IInv, Overtaken, MissedOnlyIfOvertaken
<1> QED
  BY <1>1, <1>2, PTL

-----------------------------------------------------------------------------
(***************************************************************************)
(* What the buffer records: its two lists make a video in the order of     *)
(* capture, and they implement FrameHistory, for every size of the lists   *)
(* and every sampling period.                                              *)
(***************************************************************************)

\* The long list respects its size and repeats no frame.
LongOrdered ==
  /\ Len(mLongList) <= MaxLongSize
  /\ \A i, j \in 1..Len(mLongList) : i < j => mLongList[i] < mLongList[j]

\* Neighbours of the long list are no further apart than the period, and the last of them
\* from the ring by no more than the evictions counted since the sampling had its turn.
LongDense ==
  LongSkipCount > 0 =>
    /\ \A i \in 1..(Len(mLongList) - 1) : mLongList[i + 1] - mLongList[i] <= LongSkipCount
    /\ Len(mLongList) > 0 =>
         /\ mLongId > 0
         /\ First - mLongList[Len(mLongList)] <= ((mLongId - 1) % LongSkipCount) + 1

HInv == IInv /\ LongOrdered /\ LongDense

USE DEF Frame

-----------------------------------------------------------------------------
(* The turn of the sampling. *)

LEMMA SmallMultiple ==
  ASSUME NEW p \in Nat \ {0}, NEW d \in Int, p * d < p, -p < p * d
  PROVE  d = 0
<1>1. CASE d >= 1
  BY <1>1
<1>2. CASE d <= -1
  BY <1>2
<1> QED
  BY <1>1, <1>2

LEMMA Division ==
  ASSUME NEW p \in Nat \ {0}, NEW k \in Nat
  PROVE  /\ k % p \in 0..(p - 1)
         /\ k \div p \in Int
         /\ k = p * (k \div p) + (k % p)
<1>1. k % p \in 0..(p - 1) /\ (k \div p) \in Int
  OBVIOUS
<1>2. k = p * (k \div p) + (k % p)
  OBVIOUS
<1> QED
  BY <1>1, <1>2

\* Between two turns the remainder counts up.
LEMMA NextMod ==
  ASSUME NEW p \in Nat \ {0}, NEW k \in Nat \ {0}, k % p # 0
  PROVE  k % p = ((k - 1) % p) + 1
<1> DEFINE a == k \div p
           b == (k - 1) \div p
           r == k % p
           s == (k - 1) % p
<1>1. r \in 1..(p - 1) /\ s \in 0..(p - 1) /\ a \in Int /\ b \in Int
  BY Division
<1>2. k = p * a + r /\ k - 1 = p * b + s
  BY Division
<1> HIDE DEF a, b, r, s
<1>3. p * (b - a) = r - s - 1
  BY <1>1, <1>2
<1>4. b - a = 0
  BY <1>1, <1>3, SmallMultiple
<1>5. r - s - 1 = 0
  BY <1>1, <1>3, <1>4
<1> QED
  BY <1>1, <1>5 DEF r, s

-----------------------------------------------------------------------------
(* The lists after a push. *)

LEMMA LongListEntries ==
  ASSUME TypeOK, NEW f \in Frame
  PROVE  LET drop == IF Len(mLongList) + 1 > MaxLongSize THEN 1 ELSE 0
         IN  /\ Len(LongListWith(f)) = Len(mLongList) + 1 - drop
             /\ \A i \in 1..(Len(mLongList) + 1 - drop) :
                  LongListWith(f)[i] = IF i + drop = Len(mLongList) + 1 THEN f
                                                                       ELSE mLongList[i + drop]
<1> DEFINE long == Append(mLongList, f)
<1>1. mLongList \in Seq(Frame) /\ Len(mLongList) \in Nat
  BY LengthTypes DEF TypeOK
<1>2. /\ long \in Seq(Frame)
      /\ Len(long) = Len(mLongList) + 1
      /\ \A i \in 1..Len(mLongList) : long[i] = mLongList[i]
      /\ long[Len(mLongList) + 1] = f
  BY <1>1, AppendProperties
<1>3. /\ Len(Tail(long)) = Len(long) - 1
      /\ \A i \in 1..Len(Tail(long)) : Tail(long)[i] = long[i + 1]
  BY <1>1, <1>2, HeadTailProperties
<1>4. CASE Len(long) > MaxLongSize
  <2>1. LongListWith(f) = Tail(long)
    BY <1>4 DEF LongListWith
  <2> HIDE DEF long
  <2>2. Len(mLongList) + 1 > MaxLongSize
    BY <1>2, <1>4
  <2>3. Len(LongListWith(f)) = Len(mLongList)
    BY <1>1, <1>2, <1>3, <2>1
  <2>4. \A i \in 1..Len(mLongList) :
          LongListWith(f)[i] = IF i + 1 = Len(mLongList) + 1 THEN f ELSE mLongList[i + 1]
    BY <1>1, <1>2, <1>3, <2>1, <2>3
  <2> QED
    BY <1>1, <2>2, <2>3, <2>4
<1>5. CASE ~(Len(long) > MaxLongSize)
  <2>1. LongListWith(f) = long
    BY <1>5 DEF LongListWith
  <2> HIDE DEF long
  <2> QED
    BY <1>1, <1>2, <1>5, <2>1, ConstantTypes
<1> QED
  BY <1>4, <1>5

\* The oldest frame of the ring.
LEMMA FirstFrame ==
  ASSUME IInv
  PROVE  /\ First \in Nat /\ First <= mId /\ mId \in Nat /\ Len(mList) \in Nat
         /\ mList = <<>> <=> Len(mList) = 0
         /\ mList # <<>> => Head(mList) = First /\ mList[1] = First /\ First \in Frame
         /\ Overflows <=> Len(mList) = MaxSize
<1>1. /\ TypeOK /\ RingConsecutive /\ mList \in Seq(Frame) /\ mId \in 0..MaxFrames
      /\ mId \in Nat /\ Len(mList) \in Nat /\ MaxSize \in Nat \ {0}
  BY LengthTypes, ConstantTypes DEF IInv, TypeOK
<1>2. First \in Nat /\ First <= mId
  BY <1>1 DEF First, RingConsecutive
<1>3. mList = <<>> <=> Len(mList) = 0
  BY <1>1, EmptySeq
<1>4. ASSUME mList # <<>>
      PROVE  Head(mList) = First /\ mList[1] = First /\ First \in Frame
  <2>1. 1 \in 1..Len(mList)
    BY <1>1, <1>3, <1>4
  <2>2. mList[1] = First
    BY <1>1, <2>1 DEF RingConsecutive, First
  <2>3. mList[1] \in Frame
    BY <1>1, <2>1, ElementOfSeq
  <2> QED
    BY <1>1, <1>4, <2>2, <2>3
<1>5. Overflows <=> Len(mList) = MaxSize
  BY <1>1 DEF Overflows, RingConsecutive
<1> QED
  BY <1>1, <1>2, <1>3, <1>4, <1>5

\* The long list is older than the ring.
LEMMA LongOlder ==
  ASSUME IInv
  PROVE  /\ mLongList \in Seq(Frame) /\ Len(mLongList) \in Nat
         /\ \A i \in 1..Len(mLongList) : mLongList[i] \in Frame /\ mLongList[i] < First
<1>1. mLongList \in Seq(Frame) /\ Len(mLongList) \in Nat
  BY LengthTypes DEF IInv, TypeOK
<1>2. \A i \in 1..Len(mLongList) : mLongList[i] \in Frame /\ InLong(mLongList[i])
  BY <1>1, ElementOfSeq DEF InLong
<1> QED
  BY <1>1, <1>2 DEF IInv, PointersKnown

\* A push into a full ring evicts its oldest frame; the long list takes it in turn.
LEMMA PushEvicts ==
  ASSUME IInv, PushBack
  PROVE  /\ mId' = mId + 1
         /\ First' = IF Overflows THEN First + 1 ELSE First
         /\ Len(mList') = IF Overflows THEN Len(mList) ELSE Len(mList) + 1
         /\ Overflows => First \in Frame
         /\ mLongList' = IF Overflows /\ IsSampled THEN LongListWith(First) ELSE mLongList
         /\ mLongId' = IF Overflows /\ CountsEvictions THEN mLongId + 1 ELSE mLongId
<1>1. TypeOK /\ mId < MaxFrames
  BY DEF IInv, PushBack
<1>2. mId' = mId + 1 /\ mList' = Pushed
  BY DEF PushBack
<1>3. Len(mList') = IF Overflows THEN Len(mList) ELSE Len(mList) + 1
  BY <1>1, <1>2, PushedRing
<1>4. First' = mId' - Len(mList') /\ First = mId - Len(mList)
  BY DEF First
<1>5. First' = IF Overflows THEN First + 1 ELSE First
  BY <1>2, <1>3, <1>4, FirstFrame
<1>6. Overflows => First \in Frame /\ Head(Append(mList, mId)) = First
  BY <1>1, PushedRing, FirstFrame
<1> QED
  BY <1>2, <1>3, <1>5, <1>6 DEF PushBack

-----------------------------------------------------------------------------
(* The invariant is kept. *)

LEMMA LongStep ==
  ASSUME HInv, PushBack
  PROVE  LongOrdered' /\ LongDense'
<1>0. /\ IInv /\ TypeOK /\ LongOrdered /\ LongDense
      /\ MaxLongSize \in Nat /\ LongSkipCount \in Nat /\ mLongId \in Nat
  BY ConstantTypes DEF HInv, IInv, TypeOK
<1>1. /\ Len(mLongList) \in Nat /\ First \in Nat /\ (Overflows => First \in Frame)
      /\ \A i \in 1..Len(mLongList) : mLongList[i] \in Nat /\ mLongList[i] < First
  BY <1>0, LongOlder, FirstFrame, PushEvicts
<1>2. CASE ~Overflows
  <2>1. mLongList' = mLongList /\ First' = First /\ mLongId' = mLongId
    BY <1>0, <1>2, PushEvicts
  <2> QED
    BY <1>0, <2>1 DEF LongOrdered, LongDense
<1>3. CASE Overflows /\ ~IsSampled
  <2>1. mLongList' = mLongList /\ First' = First + 1
        /\ mLongId' = IF CountsEvictions THEN mLongId + 1 ELSE mLongId
    BY <1>0, <1>3, PushEvicts
  <2>2. LongOrdered'
    BY <1>0, <2>1 DEF LongOrdered
  <2>3. ASSUME LongSkipCount > 0, Len(mLongList) > 0
        PROVE  /\ mLongId' > 0
               /\ First' - mLongList[Len(mLongList)] <= ((mLongId' - 1) % LongSkipCount) + 1
    <3>1. CountsEvictions /\ mLongId' = mLongId + 1
      BY <1>0, <1>1, <2>1, <2>3 DEF CountsEvictions, LongOrdered
    <3>2. mLongId % LongSkipCount # 0
      BY <1>3, <3>1 DEF IsSampled
    <3>3. mLongId > 0
          /\ First - mLongList[Len(mLongList)] <= ((mLongId - 1) % LongSkipCount) + 1
      BY <1>0, <2>3 DEF LongDense
    <3>4. mLongId % LongSkipCount = ((mLongId - 1) % LongSkipCount) + 1
      <4>1. mLongId \in Nat \ {0} /\ LongSkipCount \in Nat \ {0}
        BY <1>0, <2>3, <3>3
      <4> QED
        BY <3>2, <4>1, NextMod
    <3>5. mLongId % LongSkipCount \in Nat /\ mLongList[Len(mLongList)] \in Nat
      <4>1. LongSkipCount \in Nat \ {0} /\ Len(mLongList) \in 1..Len(mLongList)
        BY <1>0, <1>1, <2>3
      <4>2. mLongId % LongSkipCount \in Nat
        BY <1>0, <4>1, Division
      <4> QED
        BY <1>1, <4>1, <4>2
    <3>6. (mLongId' - 1) % LongSkipCount = mLongId % LongSkipCount
      BY <1>0, <3>1
    <3> QED
      BY <1>0, <1>1, <2>1, <3>1, <3>3, <3>4, <3>5, <3>6
  <2>4. LongDense'
    BY <1>0, <2>1, <2>3 DEF LongDense
  <2> QED
    BY <2>2, <2>4
<1>4. CASE Overflows /\ IsSampled
  <2> DEFINE drop == IF Len(mLongList) + 1 > MaxLongSize THEN 1 ELSE 0
             n == Len(mLongList) + 1 - drop
  <2>1. mLongList' = LongListWith(First) /\ First' = First + 1
        /\ mLongId' = IF CountsEvictions THEN mLongId + 1 ELSE mLongId
    BY <1>0, <1>4, PushEvicts
  <2>2. /\ Len(mLongList') = n
        /\ \A i \in 1..n : mLongList'[i] = IF i + drop = Len(mLongList) + 1 THEN First
                                                                         ELSE mLongList[i + drop]
    BY <1>0, <1>1, <1>4, <2>1, LongListEntries
  <2>3. MaxLongSize > 0
    BY <1>0, <1>1, <1>4 DEF IsSampled, CountsEvictions
  <2>4. drop \in {0, 1} /\ n \in Nat /\ n <= MaxLongSize /\ n + drop = Len(mLongList) + 1 /\ n > 0
    BY <1>0, <1>1, <2>3 DEF LongOrdered
  <2> HIDE DEF drop, n
  <2>5. \A i \in 1..n : i + drop \in 1..(Len(mLongList) + 1)
    BY <1>1, <2>4
  <2>6. LongOrdered'
    <3>1. ASSUME NEW i \in 1..n, NEW j \in 1..n, i < j
          PROVE  mLongList'[i] < mLongList'[j]
      <4>1. i + drop \in 1..Len(mLongList) /\ mLongList'[i] = mLongList[i + drop]
        BY <1>1, <2>2, <2>4, <3>1
      <4>2. CASE j + drop = Len(mLongList) + 1
        BY <1>1, <2>2, <4>1, <4>2
      <4>3. CASE j + drop # Len(mLongList) + 1
        <5>1. j + drop \in 1..Len(mLongList) /\ mLongList'[j] = mLongList[j + drop]
          BY <1>1, <2>2, <2>4, <2>5, <4>3
        <5>2. i + drop < j + drop
          BY <2>4, <3>1
        <5> QED
          BY <1>0, <4>1, <5>1, <5>2 DEF LongOrdered
      <4> QED
        BY <4>2, <4>3
    <3> QED
      BY <2>2, <2>4, <3>1 DEF LongOrdered
  <2>7. ASSUME LongSkipCount > 0
        PROVE  /\ \A i \in 1..(n - 1) : mLongList'[i + 1] - mLongList'[i] <= LongSkipCount
               /\ mLongId' > 0
               /\ First' - mLongList'[n] <= ((mLongId' - 1) % LongSkipCount) + 1
    <3>1. CountsEvictions /\ mLongId' = mLongId + 1
      BY <1>0, <2>1, <2>3, <2>7 DEF CountsEvictions
    <3>2. mLongId % LongSkipCount \in Nat /\ (mLongId' - 1) % LongSkipCount = mLongId % LongSkipCount
      BY <1>0, <2>7, <3>1, Division
    <3>3. mLongList'[n] = First
      BY <2>2, <2>4
    <3>4. ASSUME NEW i \in 1..(n - 1)
          PROVE  mLongList'[i + 1] - mLongList'[i] <= LongSkipCount
      <4>1. /\ i \in 1..n /\ i + 1 \in 1..n /\ i + drop \in 1..Len(mLongList)
            /\ (i + 1) + drop = (i + drop) + 1
        BY <1>1, <2>4
      <4>2. mLongList'[i] = mLongList[i + drop]
        BY <1>1, <2>2, <4>1
      <4>3. CASE i + drop = Len(mLongList)
        <5>1. mLongList'[i + 1] = First
          BY <1>1, <2>2, <4>1, <4>3
        <5>2. mLongId > 0
              /\ First - mLongList[i + drop] <= ((mLongId - 1) % LongSkipCount) + 1
          BY <1>0, <2>7, <4>1, <4>3 DEF LongDense
        <5>3. (mLongId - 1) % LongSkipCount \in 0..(LongSkipCount - 1)
          BY <1>0, <2>7, <5>2, Division
        <5> QED
          BY <1>0, <1>1, <4>1, <4>2, <5>1, <5>2, <5>3
      <4>4. CASE i + drop # Len(mLongList)
        <5>1. i + drop \in 1..(Len(mLongList) - 1)
          BY <1>1, <4>1, <4>4
        <5>2. mLongList'[i + 1] = mLongList[(i + drop) + 1]
          BY <1>1, <2>2, <4>1, <5>1
        <5> QED
          BY <1>0, <2>7, <4>2, <5>1, <5>2 DEF LongDense
      <4> QED
        BY <4>3, <4>4
    <3> QED
      BY <1>0, <1>1, <2>1, <3>1, <3>2, <3>3, <3>4
  <2>8. LongDense'
    BY <2>2, <2>7 DEF LongDense
  <2> QED
    BY <2>6, <2>8
<1> QED
  BY <1>2, <1>3, <1>4

\* Only a push and a clear change the lists.
LEMMA OtherSteps ==
  ASSUME [Next]_vars
  PROVE  PushBack \/ Clear \/ UNCHANGED ring
BY DEF Next, BeginPass, NextAlgorithm, LockNext, ReadNext, UnlockNext, EndPass, Take, LockTarget,
       UnlockTarget, vars

LEMMA HInit == Init => HInv
<1> SUFFICES ASSUME Init PROVE HInv
  OBVIOUS
<1>1. mLongList = <<>> /\ Len(<<>>) = 0
  BY DEF Init
<1>2. Len(mLongList) = 0
  BY <1>1, Zenon
<1> QED
  BY <1>2, InitInv, ConstantTypes DEF HInv, LongOrdered, LongDense

LEMMA HStep == HInv /\ [Next]_vars => HInv'
<1> SUFFICES ASSUME HInv, [Next]_vars PROVE HInv'
  OBVIOUS
<1>1. IInv'
  BY StepInv DEF HInv
<1>2. CASE PushBack
  BY <1>1, <1>2, LongStep DEF HInv
<1>3. CASE Clear
  <2>1. mLongList' = <<>> /\ Len(<<>>) = 0
    BY <1>3 DEF Clear
  <2>2. Len(mLongList') = 0
    BY <2>1, Zenon
  <2> QED
    BY <1>1, <2>2, ConstantTypes DEF HInv, LongOrdered, LongDense
<1>4. CASE UNCHANGED ring
  BY <1>1, <1>4 DEF ring, HInv, LongOrdered, LongDense, First
<1> QED
  BY <1>2, <1>3, <1>4, OtherSteps

\* The lists stay ordered and dense in every reachable state.
THEOREM ListsStayDense == Spec => []HInv
BY HInit, HStep, PTL DEF Spec

-----------------------------------------------------------------------------
(* The video of both lists. *)

\* The video that is written from the long list followed by the ring is in the order of
\* capture and repeats no frame, and the lists keep to the configured sizes.
THEOREM VideoStaysChronological == Spec => []VideoChronological
<1>1. ASSUME HInv PROVE VideoChronological
  <2> DEFINE video == mLongList \o mList
             m == Len(mLongList)
             n == Len(mList)
  <2>1. /\ IInv /\ LongOrdered /\ RingConsecutive /\ mList \in Seq(Frame)
        /\ mId \in Nat /\ First \in Nat /\ n \in Nat /\ m \in Nat /\ First = mId - n
    BY <1>1, FirstFrame, LongOlder DEF HInv, IInv, TypeOK, First
  <2>2. \A i \in 1..m : mLongList[i] \in Nat /\ mLongList[i] < First
    BY <2>1, LongOlder
  <2>3. mLongList \in Seq(Frame)
    BY <2>1, LongOlder
  <2>4. /\ video \in Seq(Frame) /\ Len(video) = m + n
        /\ \A i \in 1..(m + n) : video[i] = IF i <= m THEN mLongList[i] ELSE mList[i - m]
    BY <2>1, <2>3, ConcatProperties
  <2>5. DOMAIN video = 1..(m + n)
    BY <2>4, LenProperties
  <2> HIDE DEF video
  <2>6. \A i \in 1..(m + n) : i > m => video[i] = First + (i - m) - 1
    <3> SUFFICES ASSUME NEW i \in 1..(m + n), i > m PROVE video[i] = First + (i - m) - 1
      OBVIOUS
    <3>1. i - m \in 1..n /\ video[i] = mList[i - m]
      BY <2>1, <2>4
    <3>2. mList[i - m] = First + (i - m) - 1
      BY <2>1, <3>1 DEF RingConsecutive
    <3> QED
      BY <3>1, <3>2
  <2>7. \A i \in 1..(m + n) : i <= m => i \in 1..m /\ video[i] = mLongList[i]
    BY <2>1, <2>4
  <2> HIDE DEF m, n
  <2>8. ASSUME NEW i \in 1..(m + n), NEW j \in 1..(m + n), i < j PROVE video[i] < video[j]
    <3>1. CASE j <= m
      <4>1. i \in 1..m /\ j \in 1..m /\ video[i] = mLongList[i] /\ video[j] = mLongList[j]
        BY <2>1, <2>7, <2>8, <3>1
      <4> QED
        BY <2>1, <2>8, <4>1 DEF LongOrdered, m
    <3>2. CASE j > m
      BY <2>1, <2>2, <2>6, <2>7, <2>8, <3>2
    <3> QED
      BY <2>1, <3>1, <3>2
  <2>9. \A i \in 1..(m + n) : video[i] < mId
    BY <2>1, <2>2, <2>6, <2>7
  <2> QED
    BY <2>1, <2>5, <2>8, <2>9 DEF VideoChronological, video, m, n, LongOrdered, RingConsecutive
<1> QED
  BY <1>1, ListsStayDense, PTL

-----------------------------------------------------------------------------
(* The refinement. *)

\* A list has at most as many different frames as entries.
LEMMA ElementsBound ==
  ASSUME NEW s \in Seq(Frame)
  PROVE  Cardinality(Elements(s)) <= Len(s)
<1>1. Len(s) \in Nat /\ DOMAIN s = 1..Len(s) /\ s = [i \in 1..Len(s) |-> s[i]]
  BY LenProperties
<1>2. s \in Surjection(1..Len(s), Elements(s))
  BY <1>1 DEF Surjection, Elements
<1>3. ExistsSurjection(1..Len(s), Elements(s))
  BY <1>2 DEF ExistsSurjection
<1> QED
  BY <1>1, <1>3, FS_SurjCardinalityBound

\* Where the history that the lists stand for begins.
Begin == IF mList = <<>> THEN mId ELSE Head(mList)

\* No gap of the sample, nor the one before the window, is longer than the period.
LEMMA SampleDense ==
  ASSUME HInv, LongSkipCount > 0
  PROVE  History!Dense(Elements(mLongList), First)
<1>0. IInv /\ LongOrdered /\ LongDense /\ mLongId \in Nat
  BY DEF HInv, IInv, TypeOK
<1>1. /\ mLongList \in Seq(Frame) /\ Len(mLongList) \in Nat /\ First \in Nat
      /\ LongSkipCount \in Nat /\ mLongId \in Nat /\ LongOrdered /\ LongDense
      /\ \A i \in 1..Len(mLongList) : mLongList[i] \in Nat /\ mLongList[i] < First
  BY <1>0, LongOlder, FirstFrame, ConstantTypes
<1>2. DOMAIN mLongList = 1..Len(mLongList)
  BY <1>1, LenProperties
<1>3. SUFFICES ASSUME NEW i \in 1..Len(mLongList)
               PROVE  \E g \in Elements(mLongList) \cup {First} :
                        mLongList[i] < g /\ g - mLongList[i] <= LongSkipCount
  BY <1>2 DEF History!Dense, Elements
<1>4. CASE i = Len(mLongList)
  <2>1. mLongId > 0 /\ First - mLongList[i] <= ((mLongId - 1) % LongSkipCount) + 1
    BY <1>1, <1>4 DEF LongDense
  <2>2. (mLongId - 1) % LongSkipCount \in 0..(LongSkipCount - 1)
    BY <1>1, <2>1, Division
  <2>3. mLongList[i] < First /\ First - mLongList[i] <= LongSkipCount
    BY <1>1, <2>1, <2>2
  <2> QED
    BY <2>3
<1>5. CASE i # Len(mLongList)
  <2>1. i + 1 \in 1..Len(mLongList) /\ i \in 1..(Len(mLongList) - 1) /\ i < i + 1
    BY <1>1, <1>5
  <2>2. mLongList[i] < mLongList[i + 1] /\ mLongList[i + 1] - mLongList[i] <= LongSkipCount
    BY <1>1, <2>1 DEF LongOrdered, LongDense
  <2>3. mLongList[i + 1] \in Elements(mLongList)
    BY <1>2, <2>1 DEF Elements
  <2> QED
    BY <2>2, <2>3
<1> QED
  BY <1>4, <1>5

\* What a push does to the sample: it may add the frame that leaves the window, and drops
\* only what is older than all that stays.
LEMMA SampleStep ==
  ASSUME HInv, PushBack, Overflows
  PROVE  /\ Elements(mLongList') \subseteq Elements(mLongList) \cup {First}
         /\ \A f \in Elements(mLongList) \ Elements(mLongList') :
              \A g \in Elements(mLongList') : f < g
<1>1. /\ IInv /\ TypeOK /\ LongOrdered /\ First \in Frame
      /\ mLongList \in Seq(Frame) /\ Len(mLongList) \in Nat
      /\ \A i \in 1..Len(mLongList) : mLongList[i] \in Nat /\ mLongList[i] < First
  BY LongOlder, PushEvicts DEF HInv, IInv
<1>2. DOMAIN mLongList = 1..Len(mLongList)
  BY <1>1, LenProperties
<1>3. CASE ~IsSampled
  <2>1. mLongList' = mLongList
    BY <1>1, <1>3, PushEvicts
  <2> QED
    BY <2>1
<1>4. CASE IsSampled
  <2> DEFINE drop == IF Len(mLongList) + 1 > MaxLongSize THEN 1 ELSE 0
             n == Len(mLongList) + 1 - drop
  <2>1. mLongList' = LongListWith(First)
    BY <1>1, <1>4, PushEvicts
  <2>2. /\ Len(mLongList') = n
        /\ \A i \in 1..n : mLongList'[i] = IF i + drop = Len(mLongList) + 1 THEN First
                                                                         ELSE mLongList[i + drop]
    BY <1>1, <2>1, LongListEntries
  <2>3. drop \in {0, 1} /\ n \in Nat /\ n + drop = Len(mLongList) + 1
    BY <1>1
  <2>4. DOMAIN mLongList' = 1..n
    <3>1. mLongList' \in Seq(Frame)
      BY <1>1, <2>1, SampledList
    <3> QED
      BY <2>2, <3>1, LenProperties
  <2> HIDE DEF drop, n
  <2>5. \A i \in 1..n :
          \/ mLongList'[i] = First
          \/ i + drop \in 1..Len(mLongList) /\ mLongList'[i] = mLongList[i + drop]
    BY <1>1, <2>2, <2>3
  <2>6. Elements(mLongList') \subseteq Elements(mLongList) \cup {First}
    BY <1>2, <2>4, <2>5 DEF Elements
  <2>7. ASSUME NEW k \in 1..Len(mLongList), mLongList[k] \notin Elements(mLongList'),
               NEW i \in 1..n
        PROVE  mLongList[k] < mLongList'[i]
    <3>1. k <= drop
      <4> SUFFICES ASSUME k > drop PROVE FALSE
        BY <1>1, <2>3
      <4>1. k - drop \in 1..n /\ (k - drop) + drop = k /\ k # Len(mLongList) + 1
        BY <1>1, <2>3
      <4>2. mLongList'[k - drop] = mLongList[k]
        BY <2>2, <4>1
      <4> QED
        BY <2>4, <2>7, <4>1, <4>2 DEF Elements
    <3>2. CASE mLongList'[i] = First
      BY <1>1, <3>2
    <3>3. CASE i + drop \in 1..Len(mLongList) /\ mLongList'[i] = mLongList[i + drop]
      <4>1. k < i + drop
        BY <2>3, <3>1
      <4> QED
        BY <1>1, <3>3, <4>1 DEF LongOrdered
    <3> QED
      BY <2>5, <3>2, <3>3
  <2> QED
    BY <1>2, <2>4, <2>6, <2>7 DEF Elements
<1> QED
  BY <1>3, <1>4

\* What the lists are in the words of FrameHistory.
WellRecorded ==
  /\ Begin = First
  /\ Cardinality(Elements(mLongList)) <= MaxLongSize
  /\ LongSkipCount > 0 => History!Dense(Elements(mLongList), First)

LEMMA ListsRecordWell ==
  ASSUME HInv
  PROVE  WellRecorded
<1>1. /\ IInv /\ mLongList \in Seq(Frame) /\ Len(mLongList) \in Nat /\ Len(mLongList) <= MaxLongSize
      /\ MaxLongSize \in Nat /\ MaxFrames \in Nat
  BY LongOlder, ConstantTypes DEF HInv, LongOrdered
<1>2. Begin = First
  BY <1>1, FirstFrame DEF Begin, First
<1>3. Cardinality(Elements(mLongList)) <= Len(mLongList)
  BY <1>1, ElementsBound
<1>4. Cardinality(Elements(mLongList)) \in Nat
  <2>1. Elements(mLongList) \subseteq 0..(MaxFrames - 1)
    <3>1. DOMAIN mLongList = 1..Len(mLongList)
      BY <1>1, LenProperties
    <3> QED
      BY <1>1, <3>1, ElementOfSeq DEF Elements
  <2>2. IsFiniteSet(0..(MaxFrames - 1))
    BY <1>1, FS_Interval
  <2> QED
    BY <2>1, <2>2, FS_Subset, FS_CardinalityType
<1> QED
  BY <1>1, <1>2, <1>3, <1>4, SampleDense DEF WellRecorded

\* The instance of FrameHistory has an operator of its own for the size of a sample.
LEMMA SameCardinality ==
  ASSUME NEW S
  PROVE  History!Cardinality(S) = Cardinality(S)
BY DEF History!Cardinality, Cardinality

LEMMA HistoryStep ==
  ASSUME HInv, WellRecorded, WellRecorded', [Next]_vars
  PROVE  [History!Next]_(History!history)
<1>1. /\ IInv /\ Begin = First /\ Begin' = First'
      /\ First = mId - Len(mList) /\ Len(mList) \in Nat /\ mId \in Nat /\ First \in Nat
      /\ MaxSize \in Nat \ {0}
  BY FirstFrame, ConstantTypes DEF HInv, First, WellRecorded
<1>2. CASE PushBack
  <2>1. /\ mId' = mId + 1
        /\ First' = IF Overflows THEN First + 1 ELSE First
    BY <1>1, <1>2, PushEvicts
  <2>2. CASE ~Overflows
    <3>1. mLongList' = mLongList
      BY <1>1, <1>2, <2>2, PushEvicts
    <3>2. mId - Begin < MaxSize
      BY <1>1, <2>2 DEF Overflows
    <3>3. Begin' = Begin /\ Elements(mLongList') = Elements(mLongList)
      BY <1>1, <2>1, <2>2, <3>1
    <3>4. History!Grow
      BY <2>1, <3>2, <3>3 DEF History!Grow, Begin, Elements
    <3> QED
      BY <3>4 DEF History!Next
  <2>3. CASE Overflows
    <3>1. mId - Begin = MaxSize
      BY <1>1, <2>3, FirstFrame
    <3>2. Begin' = Begin + 1
      BY <1>1, <2>1, <2>3
    <3>3. /\ Elements(mLongList') \subseteq Elements(mLongList) \cup {Begin}
          /\ \A f \in Elements(mLongList) \ Elements(mLongList') :
               \A g \in Elements(mLongList') : f < g
      BY <1>1, <1>2, <2>3, SampleStep
    <3>4. Cardinality(Elements(mLongList')) <= MaxLongSize
      BY DEF WellRecorded, Elements
    <3>5. LongSkipCount > 0 => History!Dense(Elements(mLongList'), Begin')
      BY <1>1 DEF WellRecorded, History!Dense, Elements
    <3>6. Elements(mLongList)' = Elements(mLongList')
      BY DEF Elements
    <3>7. /\ mId - Begin = MaxSize /\ mId' = mId + 1 /\ Begin' = Begin + 1
          /\ Elements(mLongList)' \subseteq Elements(mLongList) \cup {Begin}
          /\ Cardinality(Elements(mLongList)') <= MaxLongSize
          /\ \A f \in Elements(mLongList) \ Elements(mLongList)' :
               \A g \in Elements(mLongList)' : f < g
          /\ LongSkipCount > 0 => History!Dense(Elements(mLongList)', Begin')
      BY <2>1, <3>1, <3>2, <3>3, <3>4, <3>5, <3>6
    <3>8. History!Slide
      BY <3>7, SameCardinality, Zenon DEF History!Slide, Begin
    <3> QED
      BY <3>8 DEF History!Next
  <2> QED
    BY <2>2, <2>3
<1>3. CASE Clear
  <2>1. mList' = <<>> /\ mLongList' = <<>> /\ mId' = mId
    BY <1>3 DEF Clear
  <2>2. Elements(<<>>) = {}
    BY DEF Elements
  <2>3. History!Forget
    BY <2>1, <2>2 DEF History!Forget, Elements
  <2> QED
    BY <2>3 DEF History!Next
<1>4. CASE UNCHANGED ring
  BY <1>4 DEF ring, History!history, Elements
<1> QED
  BY <1>2, <1>3, <1>4, OtherSteps

\* The buffer implements the history it promises: each push grows or slides the window
\* and keeps the sample dense, a clear forgets it, and no user of a frame changes it.
THEOREM BufferRecordsHistory == Spec => RecordsHistory
<1>1. Init => History!Init
  BY DEF Init, History!Init, Elements
<1>2. HInv => WellRecorded
  BY ListsRecordWell
<1>3. HInv /\ WellRecorded /\ WellRecorded' /\ [Next]_vars => [History!Next]_(History!history)
  BY HistoryStep
<1> QED
  BY <1>1, <1>2, <1>3, ListsStayDense, PTL DEF Spec, RecordsHistory, History!Spec
=============================================================================
