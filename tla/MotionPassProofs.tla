-------------------------- MODULE MotionPassProofs ---------------------------
(***************************************************************************)
(* Proofs about MotionPass for any list of detectors with any mSkipFrames, *)
(* any images, any ring and any number of waiting threads.                 *)
(***************************************************************************)
EXTENDS MotionPass, SequenceTheorems, TLAPS

\* What TypeOK leaves open: the counters are those of the detectors, and a ring that is
\* full has frames enough for a pass.
Filled ==
  /\ mCurrentFrame \in [Names -> Nat]
  /\ Len(frames) = AtMost(Window, size)

\* An alert after the switching off was the running pass's: it asks no more detectors.
Last ==
  /\ lateAlerts \in 0..1
  /\ lateAlerts = 1 => ~mIsRunMotionAlgo /\ pc \notin {"ask", "alert"}

\* As many passes with a movement may go unnoticed as the move detector has skipped since
\* it looked.
Budget(n) ==
  n <= IF mCurrentFrame["move"] = 0 THEN Cycle("move") - 1 ELSE mCurrentFrame["move"] - 1

\* Before the move detector is asked the passes so far are covered, afterwards this one is too.
Covered ==
  \A m \in DOMAIN Detectors : Detectors[m] = "move" =>
    /\ unnoticed \in 0..(Cycle("move") - 1)
    /\ pc = "ask" => mHasAlert = FALSE
    /\ pc = "free" \/ (pc = "ask" /\ detector <= m) => Budget(unnoticed)
    /\ (pc = "ask" /\ detector > m) \/ (pc = "reply" /\ mHasAlert = FALSE) =>
         (HasMove(window) /\ ~threw => Budget(unnoticed + 1))

IInv == TypeOK /\ Filled /\ Last /\ Covered

-----------------------------------------------------------------------------
LEMMA ListFacts ==
  /\ Len(Detectors) \in Nat \ {0} /\ DOMAIN Detectors = 1..Len(Detectors)
  /\ \A d \in DOMAIN Detectors :
       /\ d \in Nat /\ d >= 1 /\ d <= Len(Detectors)
       /\ Detectors[d] \in Names
       /\ \A e \in DOMAIN Detectors : Detectors[d] = Detectors[e] => d = e
<1>1. Len(Detectors) \in Nat \ {0} /\ DOMAIN Detectors = 1..Len(Detectors)
  BY DetectorsAssumption, LenProperties, EmptySeq
<1> QED
  BY <1>1, DetectorsAssumption DEF Names

LEMMA Bounds ==
  /\ MinPositiveFrames \in Nat /\ MaxThreads \in Nat \ {0}
  /\ RingSize \in Nat /\ RingSize > Window /\ Window = 3
  BY DetectorsAssumption DEF Window

LEMMA CycleFacts ==
  \A d \in Names : Cycle(d) \in Nat \ {0}
  BY DetectorsAssumption DEF Names, Cycle

\* A counter runs through its cycle.
LEMMA CountedFacts ==
  ASSUME NEW d \in Names, mCurrentFrame[d] \in 0..(Cycle(d) - 1)
  PROVE  /\ Counted(d) \in 0..(Cycle(d) - 1)
         /\ Counted(d) = IF mCurrentFrame[d] + 1 = Cycle(d) THEN 0 ELSE mCurrentFrame[d] + 1
<1>1. Cycle(d) \in Nat \ {0}
  BY CycleFacts
<1>2. ASSUME NEW c \in Nat \ {0}, NEW n \in 0..(c - 1)
      PROVE  (n + 1) % c = IF n + 1 = c THEN 0 ELSE n + 1
  <2>1. CASE n + 1 = c
    <3>1. c % c = 0
      OBVIOUS
    <3> QED
      BY <2>1, <3>1
  <2>2. CASE n + 1 # c
    <3>1. n + 1 \in 0..(c - 1)
      BY <2>2
    <3>2. ASSUME NEW k \in 0..(c - 1) PROVE k % c = k
      OBVIOUS
    <3> QED
      BY <2>2, <3>1, <3>2
  <2> QED
    BY <2>1, <2>2
<1>3. Counted(d) = IF mCurrentFrame[d] + 1 = Cycle(d) THEN 0 ELSE mCurrentFrame[d] + 1
  BY <1>1, <1>2 DEF Counted
<1> QED
  BY <1>1, <1>3

\* The detector that is asked.
LEMMA CurrentFacts ==
  ASSUME IInv
  PROVE  /\ detector \in Nat /\ detector >= 1 /\ detector <= Len(Detectors)
         /\ Current \in Names /\ mCurrentFrame[Current] \in 0..(Cycle(Current) - 1)
  BY ListFacts DEF IInv, TypeOK, Current

-----------------------------------------------------------------------------
LEMMA IInvInit == Init => IInv
<1> SUFFICES ASSUME Init PROVE IInv
  OBVIOUS
<1>1. <<>> \in Seq(Images) /\ Len(<<>>) = 0
  BY EmptySeq
<1>2. \A d \in Names : 0 \in 0..(Cycle(d) - 1) /\ mCurrentFrame[d] = 0
  BY CycleFacts DEF Init
<1>3. 1 \in DOMAIN Detectors
  BY ListFacts
<1>4. TypeOK
  <2>1. 0 \in 0..RingSize /\ 0 \in 0..MaxThreads /\ 0 \in 0..(RingSize - Window)
        /\ 0 \in 0..MinPositiveFrames /\ 0 <= Window
    BY Bounds
  <2> QED
    <3>1. frames \in Seq(Images) /\ Len(frames) <= Window /\ size \in 0..RingSize
      BY <1>1, <2>1 DEF Init
    <3>2. /\ spawned \in 0..MaxThreads /\ pc = "free" /\ detector \in DOMAIN Detectors
          /\ window \in {<<>>} /\ ahead \in 0..(RingSize - Window)
      BY <1>3, <2>1 DEF Init
    <3>3. mPositiveFrames \in 0..MinPositiveFrames /\ faceFrames \in 0..2
      BY <2>1 DEF Init
    <3> QED
      BY <1>2, <3>1, <3>2, <3>3 DEF Init, TypeOK
<1>5. Filled /\ Last
  BY <1>1, Bounds DEF Init, Filled, Last, AtMost
<1>6. Covered
  <2> SUFFICES ASSUME NEW m \in DOMAIN Detectors, Detectors[m] = "move"
               PROVE  unnoticed \in 0..(Cycle("move") - 1) /\ Budget(unnoticed)
    BY DEF Covered, Init
  <2>1. "move" \in Names
    BY ListFacts
  <2> QED
    BY <1>2, <2>1, CycleFacts DEF Init, Budget
<1> QED
  BY <1>4, <1>5, <1>6 DEF IInv

\* A step of the camera or of the bot, or a thread that gives up: the pass does not change.
LEMMA CoveredAside ==
  ASSUME Covered, UNCHANGED <<pc, detector, window, mCurrentFrame, mHasAlert, unnoticed, threw>>
  PROVE  Covered'
  BY DEF Covered, Budget, HasMove, IsLarge, Differ

LEMMA CaptureStep == IInv /\ Capture => IInv'
<1> SUFFICES ASSUME IInv, Capture PROVE IInv'
  OBVIOUS
<1>1. /\ spawned < MaxThreads /\ (window # <<>> => ahead < RingSize - Window)
      /\ ahead' = (IF window = <<>> THEN 0 ELSE ahead + 1)
      /\ spawned' = (IF mIsRunMotionAlgo THEN spawned + 1 ELSE spawned)
      /\ size' = AtMost(RingSize, size + 1)
      /\ UNCHANGED <<pc, detector, window, mCurrentFrame, mPositiveFrames, mHasAlert>>
      /\ UNCHANGED <<mIsRunMotionAlgo, mHomeStatus, bot, lateAlerts, unnoticed, threw,
                     faceFrames>>
  BY DEF Capture, Pushed, counters, status
<1>2. PICK image \in Images :
        frames' = IF Len(frames) < Window THEN Append(frames, image)
                                          ELSE Append(Tail(frames), image)
  BY DEF Capture, Pushed
<1>3. frames \in Seq(Images) /\ Len(frames) \in Nat /\ Len(frames) <= Window
      /\ size \in 0..RingSize /\ Len(frames) = AtMost(Window, size)
  BY LenProperties DEF IInv, TypeOK, Filled
<1>4. frames' \in Seq(Images) /\ Len(frames') = AtMost(Window, Len(frames) + 1)
  <2>1. CASE Len(frames) < Window
    <3>1. Append(frames, image) \in Seq(Images) /\ Len(Append(frames, image)) = Len(frames) + 1
      BY <1>3, AppendProperties
    <3> QED
      BY <1>2, <1>3, <2>1, <3>1, Bounds DEF AtMost
  <2>2. CASE ~(Len(frames) < Window)
    <3>1. frames # <<>>
      BY <1>3, <2>2, EmptySeq, Bounds
    <3>2. Tail(frames) \in Seq(Images) /\ Len(Tail(frames)) = Len(frames) - 1
      BY <1>3, <3>1, HeadTailProperties
    <3>3. Append(Tail(frames), image) \in Seq(Images)
          /\ Len(Append(Tail(frames), image)) = Len(Tail(frames)) + 1
      BY <3>2, AppendProperties
    <3> QED
      BY <1>2, <1>3, <2>2, <3>2, <3>3, Bounds DEF AtMost
  <2> QED
    BY <2>1, <2>2
<1>5. Len(frames') = AtMost(Window, size') /\ size' \in 0..RingSize /\ Len(frames') <= Window
  BY <1>1, <1>3, <1>4, Bounds DEF AtMost
<1>6. spawned' \in 0..MaxThreads /\ ahead' \in 0..(RingSize - Window)
  BY <1>1, Bounds DEF IInv, TypeOK
<1>7. TypeOK'
  <2>1. \A d \in Names : mCurrentFrame'[d] \in 0..(Cycle(d) - 1)
    BY <1>1 DEF IInv, TypeOK
  <2> QED
    BY <1>1, <1>4, <1>5, <1>6, <2>1 DEF IInv, TypeOK
<1>8. Filled' /\ Last'
  BY <1>1, <1>5 DEF IInv, Filled, Last
<1> QED
  BY <1>1, <1>7, <1>8, CoveredAside DEF IInv

\* The bot changes only its switches and what is known of late alerts.
LEMMA BotStep ==
  ASSUME IInv, UNCHANGED <<camera, spawned, thread, counters, mHasAlert, unnoticed, threw,
                           faces>>,
         \/ UNCHANGED <<mIsRunMotionAlgo, lateAlerts>>
         \/ lateAlerts' = 0 /\ mIsRunMotionAlgo' \in BOOLEAN,
         mHomeStatus' \in {"in", "out"}, bot' \in {"poll", "motion", "confirm", "stopped"}
  PROVE  IInv'
<1>1. /\ UNCHANGED <<frames, size, spawned, pc, detector, window, ahead, mCurrentFrame>>
      /\ UNCHANGED <<mPositiveFrames, mHasAlert, unnoticed, threw, fresh, faceFrames>>
  BY DEF camera, thread, counters, faces
<1>2. mIsRunMotionAlgo' \in BOOLEAN
  BY DEF IInv, TypeOK
<1>3. TypeOK'
  <2>1. \A d \in Names : mCurrentFrame'[d] \in 0..(Cycle(d) - 1)
    BY <1>1 DEF IInv, TypeOK
  <2> QED
    BY <1>1, <1>2, <2>1 DEF IInv, TypeOK
<1>4. Filled' /\ Last'
  BY <1>1 DEF IInv, Filled, Last
<1> QED
  BY <1>1, <1>3, <1>4, CoveredAside DEF IInv

LEMMA BeginPassStep == IInv /\ BeginPass => IInv'
<1> SUFFICES ASSUME IInv, BeginPass PROVE IInv'
  OBVIOUS
<1>1. /\ spawned > 0 /\ pc = "free" /\ spawned' = spawned - 1
      /\ UNCHANGED <<frames, size, mCurrentFrame, mPositiveFrames, mIsRunMotionAlgo>>
      /\ UNCHANGED <<mHomeStatus, bot, lateAlerts, unnoticed, threw, faceFrames>>
  BY DEF BeginPass, camera, counters, status
<1>2. spawned' \in 0..MaxThreads
  BY <1>1, Bounds DEF IInv, TypeOK
<1>3. \A d \in Names : mCurrentFrame'[d] \in 0..(Cycle(d) - 1)
  BY <1>1 DEF IInv, TypeOK
<1>4. CASE MayRun /\ LookAtRing
  <2>1. /\ pc' = "ask" /\ detector' = 1 /\ window' = frames /\ ahead' = 0 /\ mHasAlert' = FALSE
        /\ mIsRunMotionAlgo /\ size = RingSize
    BY <1>4 DEF LookAtRing, MayRun, IsFull
  <2>2. window' \in [1..Window -> Images]
    <3>1. frames \in Seq(Images) /\ Len(frames) = Window
      BY <2>1, Bounds DEF IInv, TypeOK, Filled, AtMost
    <3> QED
      BY <2>1, <3>1, LenProperties, ElementOfSeq
  <2>3. 1 \in DOMAIN Detectors /\ 0 \in 0..(RingSize - Window)
    BY ListFacts, Bounds
  <2>4. TypeOK'
    BY <1>1, <1>2, <1>3, <2>1, <2>2, <2>3 DEF IInv, TypeOK
  <2>5. Filled' /\ Last'
    BY <1>1, <2>1 DEF IInv, Filled, Last
  <2>6. Covered'
    <3> SUFFICES ASSUME NEW m \in DOMAIN Detectors, Detectors[m] = "move"
                 PROVE  unnoticed' \in 0..(Cycle("move") - 1) /\ Budget(unnoticed)'
      BY <2>1, ListFacts DEF Covered
    <3> QED
      BY <1>1 DEF IInv, Covered, Budget
  <2> QED
    BY <2>4, <2>5, <2>6 DEF IInv
<1>5. CASE UNCHANGED <<thread, mHasAlert>>
  <2>1. UNCHANGED <<pc, detector, window, ahead, mHasAlert>>
    BY <1>5 DEF thread
  <2>2. TypeOK'
    BY <1>1, <1>2, <1>3, <2>1 DEF IInv, TypeOK
  <2>3. Filled' /\ Last'
    BY <1>1, <2>1 DEF IInv, Filled, Last
  <2> QED
    BY <1>1, <2>1, <2>2, <2>3, CoveredAside DEF IInv
<1> QED
  BY <1>4, <1>5 DEF BeginPass

\* A detector that is not the move detector, or the move detector at its turn in the cycle:
\* what the pass owes is covered.
LEMMA AskedStep ==
  ASSUME IInv, pc = "ask", NEW alert \in BOOLEAN, GoOn(alert),
         mCurrentFrame' = [mCurrentFrame EXCEPT ![Current] = Counted(Current)],
         threw' \in {threw, TRUE},
         Current = "move" /\ HasMove(window) /\ mCurrentFrame[Current] = 0 /\ ~threw' => alert,
         UNCHANGED <<camera, spawned, window, ahead, mHasAlert, status, lateAlerts, unnoticed>>,
         mPositiveFrames' \in 0..MinPositiveFrames, faceFrames' \in 0..2
  PROVE  IInv'
<1>1. /\ UNCHANGED <<frames, size, spawned, window, ahead, mHasAlert, mIsRunMotionAlgo>>
      /\ UNCHANGED <<mHomeStatus, bot, lateAlerts, unnoticed>>
  BY DEF camera, status
<1>2. /\ detector \in Nat /\ detector >= 1 /\ detector <= Len(Detectors)
      /\ Current \in Names /\ mCurrentFrame[Current] \in 0..(Cycle(Current) - 1)
  BY CurrentFacts
<1>3. /\ Counted(Current) \in 0..(Cycle(Current) - 1)
      /\ Counted(Current) = IF mCurrentFrame[Current] + 1 = Cycle(Current) THEN 0
                            ELSE mCurrentFrame[Current] + 1
  BY <1>2, CountedFacts
<1>4. /\ mCurrentFrame'[Current] = Counted(Current)
      /\ \A d \in Names : d # Current => mCurrentFrame'[d] = mCurrentFrame[d]
  BY <1>2 DEF IInv, Filled
<1>5. \/ alert /\ pc' = "alert" /\ detector' = detector
      \/ ~alert /\ detector = Len(Detectors) /\ pc' = "reply" /\ detector' = detector
      \/ ~alert /\ detector < Len(Detectors) /\ pc' = "ask" /\ detector' = detector + 1
  <2>1. Len(Detectors) \in Nat
    BY ListFacts
  <2>2. CASE alert
    BY <2>2 DEF GoOn
  <2>3. CASE ~alert /\ detector = Len(Detectors)
    BY <2>3 DEF GoOn
  <2>4. CASE ~alert /\ detector # Len(Detectors)
    <3>1. detector < Len(Detectors)
      BY <1>2, <2>1, <2>4
    <3> QED
      BY <2>4, <3>1 DEF GoOn
  <2> QED
    BY <2>2, <2>3, <2>4
<1>6. TypeOK'
  <2>1. \A d \in Names : mCurrentFrame'[d] \in 0..(Cycle(d) - 1)
    BY <1>3, <1>4 DEF IInv, TypeOK
  <2>2. pc' \in {"ask", "alert", "reply"} /\ detector' \in DOMAIN Detectors
    <3>1. Len(Detectors) \in Nat /\ DOMAIN Detectors = 1..Len(Detectors)
      BY ListFacts
    <3>2. detector \in 1..Len(Detectors)
      BY <1>2, <3>1
    <3>3. CASE detector' = detector
      BY <1>5, <3>1, <3>2, <3>3
    <3>4. CASE detector < Len(Detectors) /\ detector' = detector + 1
      <4>1. detector + 1 \in 1..Len(Detectors)
        BY <3>1, <3>2, <3>4
      <4> QED
        BY <1>5, <3>1, <3>4, <4>1
    <3> QED
      BY <1>5, <3>3, <3>4
  <2> QED
    BY <1>1, <2>1, <2>2 DEF IInv, TypeOK
<1>7. Filled'
  <2>1. mCurrentFrame' \in [Names -> Nat]
    BY <1>2, <1>3, CycleFacts DEF IInv, Filled
  <2> QED
    BY <1>1, <2>1 DEF IInv, Filled
<1>8. Last'
  BY <1>1 DEF IInv, Last
<1>9. Covered'
  <2> SUFFICES ASSUME NEW m \in DOMAIN Detectors, Detectors[m] = "move"
               PROVE  /\ unnoticed' \in 0..(Cycle("move") - 1)
                      /\ pc' = "ask" => mHasAlert' = FALSE
                      /\ pc' = "free" \/ (pc' = "ask" /\ detector' <= m) => Budget(unnoticed)'
                      /\ (pc' = "ask" /\ detector' > m) \/ (pc' = "reply" /\ mHasAlert' = FALSE) =>
                           (HasMove(window)' /\ ~threw' => Budget(unnoticed + 1)')
    BY DEF Covered
  <2>1. /\ unnoticed \in 0..(Cycle("move") - 1) /\ mHasAlert = FALSE
        /\ detector <= m => Budget(unnoticed)
        /\ detector > m => (HasMove(window) /\ ~threw => Budget(unnoticed + 1))
    BY DEF IInv, Covered
  <2>2. m \in Nat /\ m <= Len(Detectors) /\ "move" \in Names
        /\ Cycle("move") \in Nat \ {0} /\ mCurrentFrame["move"] \in 0..(Cycle("move") - 1)
    BY ListFacts, CycleFacts DEF IInv, TypeOK
  <2>3. (HasMove(window)' <=> HasMove(window)) /\ (~threw' => ~threw)
    <3>1. HasMove(window)' <=> HasMove(window)
      BY <1>1 DEF HasMove, IsLarge, Differ
    <3>2. threw \in BOOLEAN
      BY DEF IInv, TypeOK
    <3>3. ~threw' => ~threw
      <4>1. CASE threw' = threw
        BY <4>1
      <4>2. CASE threw' = TRUE
        BY <4>2
      <4> QED
        BY <4>1, <4>2
    <3> QED
      BY <3>1, <3>3
  <2>4. Current = "move" <=> detector = m
    BY <1>2, ListFacts DEF Current, IInv, TypeOK
  <2>5. CASE Current # "move"
    <3>1. mCurrentFrame'["move"] = mCurrentFrame["move"]
      BY <1>4, <2>2, <2>5
    <3>2. (Budget(unnoticed)' <=> Budget(unnoticed))
          /\ (Budget(unnoticed + 1)' <=> Budget(unnoticed + 1))
      BY <1>1, <3>1 DEF Budget
    <3>3. detector < m \/ detector > m
      BY <1>2, <2>2, <2>4, <2>5
    <3> QED
      BY <1>1, <1>2, <1>5, <2>1, <2>2, <2>3, <3>2, <3>3
  <2>6. CASE Current = "move"
    <3>1. detector = m /\ Budget(unnoticed)
      BY <1>2, <2>1, <2>2, <2>4, <2>6
    <3>2. CASE mCurrentFrame["move"] = 0
      BY <1>1, <1>2, <1>5, <2>1, <2>2, <2>3, <2>6, <3>1, <3>2
    <3>3. CASE mCurrentFrame["move"] # 0
      <4>1. Budget(unnoticed + 1)'
        BY <1>1, <1>3, <1>4, <2>1, <2>2, <2>6, <3>1, <3>3 DEF Budget
      <4> QED
        BY <1>1, <1>2, <1>5, <2>1, <2>2, <2>3, <3>1, <4>1
    <3> QED
      BY <3>2, <3>3
  <2> QED
    BY <2>5, <2>6
<1> QED
  BY <1>6, <1>7, <1>8, <1>9 DEF IInv

\* A detector that is asked alerts, or not, or throws.
LEMMA AskDetectorKinds ==
  ASSUME IInv, AskDetector
  PROVE  \E alert \in BOOLEAN :
           /\ pc = "ask" /\ GoOn(alert)
           /\ threw' \in {threw, TRUE}
           /\ Current = "move" /\ HasMove(window) /\ mCurrentFrame[Current] = 0 /\ ~threw' => alert
<1>1. CASE GoOn(mCurrentFrame[Current] = 0 /\ HasAlert(Current, window)) /\ UNCHANGED threw
  <2> DEFINE alert == mCurrentFrame[Current] = 0 /\ HasAlert(Current, window)
  <2>1. alert \in BOOLEAN /\ GoOn(alert)
    BY <1>1
  <2>2. Current = "move" /\ HasMove(window) /\ mCurrentFrame[Current] = 0 => alert
    BY DEF HasAlert
  <2>3. pc = "ask" /\ threw' \in {threw, TRUE}
    BY <1>1 DEF AskDetector
  <2> HIDE DEF alert
  <2> QED
    BY <2>1, <2>2, <2>3
<1>2. CASE GoOn(FALSE) /\ threw' = (threw \/ Current = "move")
  <2>1. pc = "ask"
    BY DEF AskDetector
  <2>2. CASE Current = "move"
    <3>1. threw' = TRUE
      BY <1>2, <2>2
    <3> QED
      BY <1>2, <2>1, <3>1
  <2>3. CASE Current # "move"
    <3>1. threw \in BOOLEAN
      BY DEF IInv, TypeOK
    <3>2. threw' = threw
      BY <1>2, <2>3, <3>1
    <3> QED
      BY <1>2, <2>1, <2>3, <3>2
  <2> QED
    BY <2>2, <2>3
<1> QED
  BY <1>1, <1>2 DEF AskDetector

LEMMA AskDetectorStep == IInv /\ AskDetector => IInv'
<1> SUFFICES ASSUME IInv, AskDetector PROVE IInv'
  OBVIOUS
<1>1. PICK alert \in BOOLEAN :
        /\ pc = "ask" /\ GoOn(alert)
        /\ threw' \in {threw, TRUE}
        /\ Current = "move" /\ HasMove(window) /\ mCurrentFrame[Current] = 0 /\ ~threw' => alert
  BY AskDetectorKinds
<1>2. /\ mCurrentFrame' = [mCurrentFrame EXCEPT ![Current] = Counted(Current)]
      /\ UNCHANGED <<camera, spawned, window, ahead, mPositiveFrames, mHasAlert, status>>
      /\ UNCHANGED <<lateAlerts, unnoticed, faces>>
  BY DEF AskDetector
<1>3. mPositiveFrames' \in 0..MinPositiveFrames /\ faceFrames' \in 0..2
  BY <1>2 DEF IInv, TypeOK, faces
<1> QED
  BY <1>1, <1>2, <1>3, AskedStep

LEMMA AskFaceDetectorStep == IInv /\ AskFaceDetector => IInv'
<1> SUFFICES ASSUME IInv, AskFaceDetector PROVE IInv'
  OBVIOUS
<1> DEFINE seen == (mCurrentFrame["face"] = 0 \/ mPositiveFrames > 0) /\ HasAlert("face", window)
           alert == seen /\ mPositiveFrames' >= MinPositiveFrames
<1>1. alert \in BOOLEAN
  OBVIOUS
<1>2. /\ pc = "ask" /\ Current = "face" /\ GoOn(alert)
      /\ mCurrentFrame' = [mCurrentFrame EXCEPT ![Current] = Counted(Current)]
      /\ mPositiveFrames' = PositiveAfter(seen)
      /\ faceFrames' = IF ~seen THEN 0 ELSE IF fresh.copy THEN AtMost(2, faceFrames + 1)
                                                          ELSE faceFrames
      /\ UNCHANGED <<camera, spawned, window, ahead, mHasAlert, status, lateAlerts,
                     unnoticed, threw>>
  BY DEF AskFaceDetector
<1> HIDE DEF seen
<1>3. mPositiveFrames' \in 0..MinPositiveFrames /\ faceFrames' \in 0..2
  BY <1>2, Bounds DEF IInv, TypeOK, PositiveAfter, AtMost
<1> HIDE DEF alert
<1> QED
  BY <1>1, <1>2, <1>3, AskedStep

LEMMA SendAlertStep == IInv /\ SendAlert => IInv'
<1> SUFFICES ASSUME IInv, SendAlert PROVE IInv'
  OBVIOUS
<1>1. /\ pc = "alert" /\ pc' = "reply" /\ mHasAlert' = TRUE
      /\ lateAlerts' = (IF mIsRunMotionAlgo THEN 0 ELSE AtMost(2, lateAlerts + 1))
      /\ UNCHANGED <<frames, size, spawned, detector, window, ahead, mCurrentFrame>>
      /\ UNCHANGED <<mPositiveFrames, mIsRunMotionAlgo, mHomeStatus, bot, unnoticed, threw,
                     faceFrames>>
  BY DEF SendAlert, camera, counters, status, faces
<1>2. lateAlerts = 0
  BY <1>1 DEF IInv, Last
<1>3. TypeOK'
  <2>1. \A d \in Names : mCurrentFrame'[d] \in 0..(Cycle(d) - 1)
    BY <1>1 DEF IInv, TypeOK
  <2> QED
    BY <1>1, <2>1 DEF IInv, TypeOK
<1>4. Filled' /\ Last'
  BY <1>1, <1>2 DEF IInv, Filled, Last, AtMost
<1>5. Covered'
  BY <1>1 DEF IInv, Covered
<1> QED
  BY <1>3, <1>4, <1>5 DEF IInv

LEMMA EndPassStep == IInv /\ EndPass => IInv'
<1> SUFFICES ASSUME IInv, EndPass PROVE IInv'
  OBVIOUS
<1>1. /\ pc = "reply" /\ pc' = "free" /\ detector' = 1 /\ window' = <<>> /\ ahead' = 0
      /\ unnoticed' = (IF mHasAlert \/ ~HasMove(window) \/ threw THEN 0 ELSE unnoticed + 1)
      /\ threw' = FALSE
      /\ UNCHANGED <<frames, size, spawned, mCurrentFrame, mPositiveFrames, mHasAlert>>
      /\ UNCHANGED <<mIsRunMotionAlgo, mHomeStatus, bot, lateAlerts, faceFrames>>
  BY DEF EndPass, camera, counters, status, faces
<1>2. TypeOK'
  <2>1. \A d \in Names : mCurrentFrame'[d] \in 0..(Cycle(d) - 1)
    BY <1>1 DEF IInv, TypeOK
  <2>2. 1 \in DOMAIN Detectors /\ 0 \in 0..(RingSize - Window)
    BY ListFacts, Bounds
  <2> QED
    BY <1>1, <2>1, <2>2 DEF IInv, TypeOK
<1>3. Filled' /\ Last'
  BY <1>1 DEF IInv, Filled, Last
<1>4. Covered'
  <2> SUFFICES ASSUME NEW m \in DOMAIN Detectors, Detectors[m] = "move"
               PROVE  unnoticed' \in 0..(Cycle("move") - 1) /\ Budget(unnoticed)'
    BY <1>1 DEF Covered
  <2>1. Cycle("move") \in Nat \ {0} /\ mCurrentFrame["move"] \in 0..(Cycle("move") - 1)
    BY ListFacts, CycleFacts DEF IInv, TypeOK
  <2>2. CASE mHasAlert \/ ~HasMove(window) \/ threw
    BY <1>1, <2>1, <2>2 DEF Budget
  <2>3. CASE ~(mHasAlert \/ ~HasMove(window) \/ threw)
    <3>1. mHasAlert = FALSE /\ unnoticed' = unnoticed + 1
      BY <1>1, <2>3 DEF IInv, TypeOK
    <3>2. unnoticed \in Nat /\ Budget(unnoticed + 1)
      BY <1>1, <2>1, <2>3, <3>1 DEF IInv, Covered
    <3> QED
      BY <1>1, <2>1, <3>1, <3>2 DEF Budget
  <2> QED
    BY <2>2, <2>3
<1> QED
  BY <1>2, <1>3, <1>4 DEF IInv

LEMMA PassInvariant == Spec => []IInv
<1>1. Init => IInv
  BY IInvInit
<1>2. IInv /\ [Next]_vars => IInv'
  <2> SUFFICES ASSUME IInv, [Next]_vars PROVE IInv'
    OBVIOUS
  <2>1. CASE Capture
    BY <2>1, CaptureStep
  <2>2. CASE GiveUp
    <3>1. /\ spawned > 0 /\ spawned' = spawned - 1
          /\ UNCHANGED <<frames, size, pc, detector, window, ahead, mCurrentFrame>>
          /\ UNCHANGED <<mPositiveFrames, mHasAlert, mIsRunMotionAlgo, mHomeStatus, bot>>
          /\ UNCHANGED <<lateAlerts, unnoticed, threw, faceFrames>>
      BY <2>2 DEF GiveUp, camera, thread, counters, status, faces
    <3>2. TypeOK'
      <4>1. \A d \in Names : mCurrentFrame'[d] \in 0..(Cycle(d) - 1)
        BY <3>1 DEF IInv, TypeOK
      <4> QED
        BY <3>1, <4>1, Bounds DEF IInv, TypeOK
    <3>3. Filled' /\ Last'
      BY <3>1 DEF IInv, Filled, Last
    <3> QED
      BY <3>1, <3>2, <3>3, CoveredAside DEF IInv
  <2>3. CASE BeginPass
    BY <2>3, BeginPassStep
  <2>4. CASE PassStep
    BY <2>4, AskDetectorStep, AskFaceDetectorStep, SendAlertStep, EndPassStep DEF PassStep
  <2>5. CASE Bot
    <3>1. ASSUME NEW homeStatus \in {"in", "out"}, SetHome(homeStatus) PROVE IInv'
      BY <3>1, BotStep DEF SetHome
    <3>2. ASSUME NEW on \in BOOLEAN, SetMotion(on) PROVE IInv'
      BY <3>2, BotStep DEF SetMotion, Switch, IInv, TypeOK
    <3>3. CASE SetHomeMotion
      BY <3>3, BotStep DEF SetHomeMotion, Switch, IInv, TypeOK
    <3>4. CASE Confirm
      BY <3>4, BotStep DEF Confirm, IInv, TypeOK
    <3>5. CASE BotStops
      BY <3>5, BotStep DEF BotStops, IInv, TypeOK
    <3> QED
      BY <2>5, <3>1, <3>2, <3>3, <3>4, <3>5 DEF Bot
  <2>6. CASE UNCHANGED vars
    BY <2>6, BotStep DEF vars, status, IInv, TypeOK
  <2> QED
    BY <2>1, <2>2, <2>3, <2>4, <2>5, <2>6 DEF Next
<1> QED
  BY <1>1, <1>2, PTL DEF Spec

-----------------------------------------------------------------------------
(* Faces. *)

\* The pass has the face detector before it.
ToAskFace == pc = "ask" /\ \E f \in DOMAIN Detectors : Detectors[f] = "face" /\ detector <= f

\* Looks at one frame: only a thread that was waiting when the frame was looked at first
\* looks at it again, so the looks that counted it and those that may still come are no
\* more than the threads.
Looks ==
  /\ fresh \in [ring : BOOLEAN, copy : BOOLEAN]
  /\ pc = "ask" /\ ~fresh.ring => spawned < MaxThreads
  /\ faceFrames = 0 => /\ mPositiveFrames = 0
                       /\ size > 0 => fresh.copy \/ fresh.ring
                       /\ ToAskFace => fresh.copy
  /\ faceFrames = 1 /\ ~fresh.copy =>
       mPositiveFrames + (IF ToAskFace THEN 1 ELSE 0) + (IF fresh.ring THEN 0 ELSE spawned)
         <= MaxThreads

\* The types the proofs about Looks need.
LEMMA LookTypes ==
  ASSUME IInv
  PROVE  /\ MaxThreads \in Nat \ {0} /\ MinPositiveFrames \in Nat
         /\ spawned \in Nat /\ spawned <= MaxThreads /\ size \in Nat
         /\ mPositiveFrames \in Nat /\ faceFrames \in {0, 1, 2}
  BY Bounds DEF IInv, TypeOK

\* Neither the looks nor the threads that may look change for the worse.
LEMMA LooksAside ==
  ASSUME IInv, Looks, UNCHANGED <<size, mPositiveFrames, fresh, faceFrames>>,
         spawned' \in Nat, spawned' <= spawned, pc' = "ask" => pc = "ask", ToAskFace' => ToAskFace
  PROVE  Looks'
  BY LookTypes DEF Looks

\* The pass goes to the next detector, or ends with this one.
LEMMA NextDetector ==
  ASSUME IInv, pc = "ask", NEW alert \in BOOLEAN, GoOn(alert)
  PROVE  /\ ToAskFace' => ToAskFace
         /\ Current = "face" => ToAskFace /\ ~ToAskFace'
         /\ pc' = "alert" => alert
<1>1. /\ Len(Detectors) \in Nat /\ DOMAIN Detectors = 1..Len(Detectors)
      /\ detector \in Nat /\ detector \in DOMAIN Detectors
  BY ListFacts DEF IInv, TypeOK
<1>2. pc' = "ask" => detector' = detector + 1
  BY DEF GoOn
<1>3. ToAskFace' => ToAskFace
  BY <1>1, <1>2 DEF ToAskFace
<1>4. ASSUME Current = "face"
      PROVE  ToAskFace /\ ~ToAskFace'
  <2>1. \A f \in DOMAIN Detectors : Detectors[f] = "face" => f = detector
    BY <1>1, <1>4, ListFacts DEF Current
  <2>2. ToAskFace
    BY <1>1, <1>4 DEF ToAskFace, Current
  <2>3. ~ToAskFace'
    BY <1>1, <1>2, <2>1 DEF ToAskFace
  <2> QED
    BY <2>2, <2>3
<1>5. pc' = "alert" => alert
  BY DEF GoOn
<1> QED
  BY <1>3, <1>4, <1>5

LEMMA CaptureLooks == IInv /\ Looks /\ Capture => Looks'
<1> SUFFICES ASSUME IInv, Looks, Capture PROVE Looks'
  OBVIOUS
<1>1. /\ spawned < MaxThreads /\ spawned' \in {spawned, spawned + 1}
      /\ size' = AtMost(RingSize, size + 1)
      /\ fresh' = [fresh EXCEPT !.ring = TRUE]
      /\ UNCHANGED <<pc, detector, mPositiveFrames, faceFrames>>
  BY DEF Capture, Pushed, counters
<1>2. /\ fresh' \in [ring : BOOLEAN, copy : BOOLEAN] /\ fresh'.ring /\ fresh'.copy = fresh.copy
  BY <1>1 DEF Looks
<1>3. ToAskFace' <=> ToAskFace
  BY <1>1 DEF ToAskFace
<1> QED
  BY <1>1, <1>2, <1>3, LookTypes DEF Looks

LEMMA BeginPassLooks == IInv /\ Looks /\ BeginPass => Looks'
<1> SUFFICES ASSUME IInv, Looks, BeginPass PROVE Looks'
  OBVIOUS
<1>1. /\ spawned > 0 /\ pc = "free" /\ spawned' = spawned - 1
      /\ UNCHANGED <<size, mPositiveFrames, faceFrames>>
  BY DEF BeginPass, camera, counters
<1>2. ~ToAskFace
  BY <1>1 DEF ToAskFace
<1>3. CASE MayRun /\ LookAtRing
  <2>1. size > 0
    BY <1>3, Bounds DEF MayRun, IsFull
  <2>2. fresh' = [ring |-> FALSE, copy |-> fresh.copy \/ fresh.ring]
    BY <1>3 DEF LookAtRing
  <2>3. /\ fresh' \in [ring : BOOLEAN, copy : BOOLEAN] /\ ~fresh'.ring
        /\ fresh'.copy <=> fresh.copy \/ fresh.ring
    BY <2>2 DEF Looks
  <2>4. spawned' < MaxThreads /\ spawned' \in Nat
    BY <1>1, LookTypes
  <2>5. faceFrames = 0 => mPositiveFrames = 0 /\ fresh'.copy
    BY <2>1, <2>3 DEF Looks
  <2>6. faceFrames = 1 /\ ~fresh'.copy => mPositiveFrames + 1 + spawned' <= MaxThreads
    BY <1>1, <1>2, <2>3, LookTypes DEF Looks
  <2> QED
    BY <1>1, <2>3, <2>4, <2>5, <2>6, LookTypes DEF Looks
<1>4. CASE UNCHANGED <<thread, mHasAlert, fresh>>
  <2>1. UNCHANGED <<pc, detector, fresh>>
    BY <1>4 DEF thread
  <2>2. spawned' \in Nat /\ spawned' <= spawned
    BY <1>1, LookTypes
  <2>3. ToAskFace' => ToAskFace
    BY <2>1 DEF ToAskFace
  <2> QED
    BY <1>1, <2>1, <2>2, <2>3, LooksAside
<1> QED
  BY <1>3, <1>4 DEF BeginPass

\* The look itself: it counts the frame, or starts anew.
LEMMA FaceLooks ==
  ASSUME IInv, Looks, AskFaceDetector
  PROVE  /\ Looks'
         /\ pc' = "alert" /\ MinPositiveFrames > MaxThreads => faceFrames' = 2
<1> DEFINE seen == (mCurrentFrame["face"] = 0 \/ mPositiveFrames > 0) /\ HasAlert("face", window)
           alert == seen /\ mPositiveFrames' >= MinPositiveFrames
<1>1. /\ pc = "ask" /\ Current = "face" /\ GoOn(alert)
      /\ mPositiveFrames' = PositiveAfter(seen)
      /\ faceFrames' = IF ~seen THEN 0 ELSE IF fresh.copy THEN AtMost(2, faceFrames + 1)
                                                          ELSE faceFrames
      /\ fresh' = [fresh EXCEPT !.copy = ~seen]
      /\ UNCHANGED <<size, spawned>>
  BY DEF AskFaceDetector, camera
<1>2. seen \in BOOLEAN /\ alert \in BOOLEAN
  OBVIOUS
<1>3. alert => seen /\ mPositiveFrames' >= MinPositiveFrames
  OBVIOUS
<1> HIDE DEF seen, alert
<1>4. ToAskFace /\ ~ToAskFace' /\ (pc' = "alert" => alert)
  BY <1>1, <1>2, NextDetector
<1>5. /\ fresh' \in [ring : BOOLEAN, copy : BOOLEAN] /\ fresh'.ring = fresh.ring
      /\ fresh'.copy = ~seen
  BY <1>1, <1>2 DEF Looks
<1>6. ~fresh.ring => spawned < MaxThreads
  BY <1>1 DEF Looks
<1>7. CASE ~seen
  <2>1. mPositiveFrames' = 0 /\ faceFrames' = 0 /\ fresh'.copy
    BY <1>1, <1>5, <1>7 DEF PositiveAfter
  <2>2. pc' # "alert"
    BY <1>3, <1>4, <1>7
  <2> QED
    BY <1>1, <1>5, <1>6, <2>1, <2>2, LookTypes DEF Looks
<1>8. CASE seen
  <2>1. /\ mPositiveFrames' = AtMost(MinPositiveFrames, mPositiveFrames + 1)
        /\ faceFrames' = IF fresh.copy THEN AtMost(2, faceFrames + 1) ELSE faceFrames
        /\ ~fresh'.copy
    BY <1>1, <1>5, <1>8 DEF PositiveAfter
  <2>2. mPositiveFrames' \in Nat /\ mPositiveFrames' <= mPositiveFrames + 1
    BY <2>1, LookTypes DEF AtMost
  <2>3. CASE faceFrames = 0
    <3>1. fresh.copy /\ mPositiveFrames = 0
      BY <1>4, <2>3 DEF Looks
    <3>2. faceFrames' = 1 /\ mPositiveFrames' <= 1
      BY <2>1, <2>2, <2>3, <3>1 DEF AtMost
    <3>3. mPositiveFrames' + 0 + (IF fresh.ring THEN 0 ELSE spawned) <= MaxThreads
      BY <1>6, <2>2, <3>2, LookTypes
    <3>4. ~(mPositiveFrames' >= MinPositiveFrames /\ MinPositiveFrames > MaxThreads)
      BY <2>2, <3>2, LookTypes
    <3> QED
      BY <1>1, <1>3, <1>4, <1>5, <1>6, <3>2, <3>3, <3>4 DEF Looks
  <2>4. CASE faceFrames = 1 /\ ~fresh.copy
    <3>1. mPositiveFrames + 1 + (IF fresh.ring THEN 0 ELSE spawned) <= MaxThreads
      BY <1>4, <2>4 DEF Looks
    <3>2. mPositiveFrames' + 0 + (IF fresh.ring THEN 0 ELSE spawned) <= MaxThreads
      BY <2>2, <3>1, LookTypes
    <3>3. ~(mPositiveFrames' >= MinPositiveFrames /\ MinPositiveFrames > MaxThreads)
      BY <2>2, <3>2, LookTypes
    <3>4. faceFrames' = 1
      BY <2>1, <2>4
    <3> QED
      BY <1>1, <1>3, <1>4, <1>5, <1>6, <3>2, <3>3, <3>4 DEF Looks
  <2>5. CASE faceFrames = 2 \/ (faceFrames = 1 /\ fresh.copy)
    <3>1. faceFrames' = 2
      BY <2>1, <2>5 DEF AtMost
    <3> QED
      BY <1>1, <1>5, <1>6, <3>1 DEF Looks
  <2> QED
    BY <1>2, <2>3, <2>4, <2>5, LookTypes
<1> QED
  BY <1>2, <1>7, <1>8

LEMMA OtherLooks ==
  ASSUME IInv, Looks, AskDetector \/ SendAlert \/ EndPass \/ GiveUp \/ Bot \/ UNCHANGED vars
  PROVE  Looks'
<1>1. CASE AskDetector
  <2>1. PICK alert \in BOOLEAN : pc = "ask" /\ GoOn(alert)
    BY <1>1, AskDetectorKinds
  <2>2. UNCHANGED <<size, spawned, mPositiveFrames, fresh, faceFrames>>
    BY <1>1 DEF AskDetector, camera, faces
  <2>3. ToAskFace' => ToAskFace
    BY <2>1, NextDetector
  <2> QED
    BY <2>1, <2>2, <2>3, LooksAside, LookTypes
<1>2. CASE SendAlert \/ EndPass
  <2>1. /\ pc' # "ask" /\ UNCHANGED <<size, spawned, mPositiveFrames, fresh, faceFrames>>
    BY <1>2 DEF SendAlert, EndPass, camera, counters, faces
  <2>2. ~ToAskFace'
    BY <2>1 DEF ToAskFace
  <2> QED
    BY <2>1, <2>2, LooksAside, LookTypes
<1>3. CASE GiveUp \/ Bot \/ UNCHANGED vars
  <2>1. /\ UNCHANGED <<pc, detector, size, mPositiveFrames, fresh, faceFrames>>
        /\ spawned' = spawned \/ (spawned > 0 /\ spawned' = spawned - 1)
    BY <1>3 DEF GiveUp, Bot, SetHome, SetMotion, SetHomeMotion, Confirm, BotStops, vars, camera,
                thread, counters, faces
  <2>2. spawned' \in Nat /\ spawned' <= spawned
    BY <2>1, LookTypes
  <2>3. ToAskFace' => ToAskFace
    BY <2>1 DEF ToAskFace
  <2> QED
    BY <2>1, <2>2, <2>3, LooksAside
<1> QED
  BY <1>1, <1>2, <1>3

LEMMA LooksInit == Init => Looks
<1> SUFFICES ASSUME Init PROVE Looks
  OBVIOUS
<1>1. /\ fresh = [ring |-> FALSE, copy |-> FALSE] /\ faceFrames = 0 /\ mPositiveFrames = 0
      /\ pc = "free" /\ size = 0
  BY DEF Init
<1> QED
  BY <1>1 DEF Looks, ToAskFace

LEMMA LooksStep ==
  ASSUME IInv, Looks, [Next]_vars
  PROVE  /\ Looks'
         /\ AskFaceDetector /\ pc' = "alert" /\ MinPositiveFrames > MaxThreads => faceFrames' = 2
<1>1. AskFaceDetector => /\ Looks'
                         /\ pc' = "alert" /\ MinPositiveFrames > MaxThreads => faceFrames' = 2
  BY FaceLooks
<1>2. Looks'
  BY <1>1, CaptureLooks, BeginPassLooks, OtherLooks DEF Next, PassStep
<1> QED
  BY <1>1, <1>2

-----------------------------------------------------------------------------
\* Once the bot has switched the motion algorithms off, one alert may follow and no more,
\* whatever threads wait for the mutex (doAlgo looks at the switch again).
THEOREM OneAlertAfterOff == Spec => []QuietAfterOff
<1>1. IInv => QuietAfterOff
  BY DEF IInv, Last, QuietAfterOff
<1> QED
  BY <1>1, PassInvariant, PTL

\* Whatever detectors stand before the move detector in the list and however their
\* alerts cut passes short, a movement is missed in fewer passes than its mSkipFrames
\* (hasAlertWithSkip).
THEOREM MovementIsNoticed == Spec => []MotionNoticed
<1>1. IInv => MotionNoticed
  <2> SUFFICES ASSUME IInv, "move" \in Names PROVE unnoticed < Cycle("move")
    BY DEF MotionNoticed
  <2>1. PICK m \in DOMAIN Detectors : Detectors[m] = "move"
    BY DEF Names
  <2>2. Cycle("move") \in Nat
    BY CycleFacts
  <2> QED
    BY <2>1, <2>2 DEF IInv, Covered
<1> QED
  BY <1>1, PassInvariant, PTL

\* A pass may look at the frame of the pass before it, so a face may be counted more often
\* than it was seen; however the threads wait for their turn, an alert means two different
\* frames if mMinPositiveFrames exceeds their number (CAlertFaceDetection).
THEOREM FaceSeenTwice == Spec => FaceInTwoFrames
<1>1. Init => IInv /\ Looks
  BY IInvInit, LooksInit
<1>2. /\ Looks /\ IInv /\ IInv' /\ [Next]_vars
      => /\ Looks'
         /\ [(AskFaceDetector /\ pc' = "alert" /\ MinPositiveFrames > MaxThreads)
               => faceFrames' = 2]_vars
  BY LooksStep
<1> QED
  BY <1>1, <1>2, PassInvariant, PTL DEF Spec, FaceInTwoFrames
=============================================================================
