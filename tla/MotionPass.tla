----------------------------- MODULE MotionPass -----------------------------
(***************************************************************************)
(* The detectors of one camera and the switches of the Telegram bot.       *)
(*                                                                         *)
(* Every frame of the camera starts a thread (doAlgoAsync) if the motion   *)
(* algorithms are switched on.  The threads of a camera exclude each other *)
(* by a mutex they only try to lock: a thread that finds it locked drops   *)
(* its frame.  The one that holds it copies the buffer and asks the        *)
(* detectors one after the other until one of them alerts.  A detector     *)
(* keeps counters from pass to pass.  The bot is a thread of its own that  *)
(* switches mIsRunMotionAlgo while passes run.  (doAlgo in the thread of   *)
(* the camera, without mIsAlgoRunAsync, is the special case where the      *)
(* camera waits for each pass.)                                            *)
(*                                                                         *)
(* An image is the set of its bright pixels, and whether it shows a face.  *)
(* A pass ends before the camera has replaced the frames it looks at:      *)
(* what happens otherwise is FrameBuffer's subject.                        *)
(***************************************************************************)
EXTENDS Integers, Sequences, FiniteSets

CONSTANTS
  Detectors,      \* the algorithms of the camera, in the order of addAlgorithm
  Skip,           \* Skip[d]: mSkipFrames of detector d
  AreaMinSize,    \* pixels that make a movement
  MinDistance,    \* pixels that make a different hash
  MinPositiveFrames,
  Images,         \* records [bright : a set of pixels, face : BOOLEAN]
  RingSize,       \* frames of the ring
  MaxThreads      \* bound: threads that have not tried the mutex yet

Window == 3       \* IAlertAlgorithm::sMinAlgoFrameCount

ASSUME DetectorsAssumption ==
  /\ Detectors \in Seq({"phash", "move", "and", "background", "face"}) /\ Detectors # <<>>
  /\ \A d, e \in DOMAIN Detectors : Detectors[d] = Detectors[e] => d = e
  /\ \A d \in DOMAIN Detectors : Skip[Detectors[d]] \in Nat
  /\ "face" \in DOMAIN Skip => Skip["face"] > 0     \* the face detector divides by it
  /\ {AreaMinSize, MinDistance, MinPositiveFrames} \subseteq Nat
  /\ \A i \in Images : i.face \in BOOLEAN
  /\ RingSize \in Nat /\ RingSize > Window
  /\ MaxThreads \in Nat \ {0}

VARIABLES
  frames,            \* the newest images of the ring, at most Window
  size,              \* frames in the ring
  spawned,           \* threads before their try_lock
  pc,                \* what the thread with the mutex does, or "free"
  detector,          \* the index of the detector it asks
  window,            \* the images of its copy
  ahead,             \* frames the camera has pushed since it was made
  mCurrentFrame,     \* of each detector, modulo mSkipFrames
  mPositiveFrames,   \* of the face detector, up to MinPositiveFrames
  mHasAlert,
  mIsRunMotionAlgo, mHomeStatus,
  bot,               \* what the bot does
  lateAlerts,        \* history: alerts since the bot began to confirm the switching off
  unnoticed,         \* history: passes in a row with a movement and no alert ...
  threw,             \* history: ... in none of which the move detector has thrown
  fresh, faceFrames  \* history: frames with a face in a row that were looked at

camera == <<frames, size>>
thread == <<pc, detector, window, ahead>>
counters == <<mCurrentFrame, mPositiveFrames>>
status == <<mIsRunMotionAlgo, mHomeStatus, bot>>
faces == <<fresh, faceFrames>>
vars == <<camera, spawned, thread, counters, mHasAlert, status, lateAlerts, unnoticed,
          threw, faces>>

Names == {Detectors[d] : d \in DOMAIN Detectors}
IsFull == size = RingSize
AtMost(bound, n) == IF n < bound THEN n ELSE bound

-----------------------------------------------------------------------------
(* The camera. *)

\* processNextFrame.
Pushed(image) ==
  /\ frames' = IF Len(frames) < Window THEN Append(frames, image) ELSE Append(Tail(frames), image)
  /\ size' = AtMost(RingSize, size + 1)

\* A frame, and a thread for it if the algorithms are on.
Capture ==
  /\ spawned < MaxThreads
  /\ window # <<>> => ahead < RingSize - Window
  /\ \E image \in Images : Pushed(image)
  /\ ahead' = IF window = <<>> THEN 0 ELSE ahead + 1
  /\ spawned' = IF mIsRunMotionAlgo THEN spawned + 1 ELSE spawned
  /\ fresh' = [fresh EXCEPT !.ring = TRUE]
  /\ UNCHANGED <<pc, detector, window, counters, mHasAlert, status, lateAlerts, unnoticed,
                 threw, faceFrames>>

-----------------------------------------------------------------------------
(* doAlgoAsync and doAlgo. *)

\* The mutex is held by another pass: the frame is dropped.
GiveUp ==
  /\ spawned > 0
  /\ pc # "free"
  /\ spawned' = spawned - 1
  /\ UNCHANGED <<camera, thread, counters, mHasAlert, status, lateAlerts, unnoticed, threw,
                 faces>>

\* Mutant of MayRun: the switch is not looked at again.
RunsAnyway == IsFull

\* The switch is looked at again, and the buffer must be full.
MayRun == mIsRunMotionAlgo /\ IsFull

LookAtRing ==
  /\ pc' = "ask" /\ detector' = 1 /\ window' = frames /\ ahead' = 0
  /\ mHasAlert' = FALSE
  /\ fresh' = [ring |-> FALSE, copy |-> fresh.copy \/ fresh.ring]

\* Mutant of BeginPass: the mutex is not released by a pass that has nothing to do.
BeginPassLocked ==
  /\ spawned > 0
  /\ pc = "free"
  /\ spawned' = spawned - 1
  /\ \/ MayRun /\ LookAtRing
     \/ ~MayRun /\ pc' = "locked" /\ UNCHANGED <<detector, window, ahead, mHasAlert, fresh>>
  /\ UNCHANGED <<camera, counters, status, lateAlerts, unnoticed, threw, faceFrames>>

BeginPass ==
  /\ spawned > 0
  /\ pc = "free"
  /\ spawned' = spawned - 1
  /\ \/ MayRun /\ LookAtRing
     \/ ~MayRun /\ UNCHANGED <<thread, mHasAlert, fresh>>
  /\ UNCHANGED <<camera, counters, status, lateAlerts, unnoticed, threw, faceFrames>>

-----------------------------------------------------------------------------
(* hasAlert of the detectors, on the images of the window, the newest last. *)

Differ(a, b) == (a.bright \ b.bright) \cup (b.bright \ a.bright)

\* findContours: the pixels make one contour.
IsLarge(pixels) == Cardinality(pixels) >= AreaMinSize

HasMove(w) == IsLarge(Differ(w[3], w[2]))
HasMoveInGray(w) == IsLarge(Differ(w[3], w[2]) \cap Differ(w[2], w[1]))
HashDiffers(w) == Cardinality(Differ(w[3], w[2])) > MinDistance
HasFace(w) == w[3].face

\* The average of the background subtractor starts empty, so its type never equals
\* that of an image, and hasAlert returns before it is computed.
HasBackground(w) == FALSE

HasAlert(d, w) ==
  CASE d = "move" -> HasMove(w)
    [] d = "and" -> HasMoveInGray(w)
    [] d = "phash" -> HashDiffers(w)
    [] d = "background" -> HasBackground(w)
    [] d = "face" -> HasFace(w)

-----------------------------------------------------------------------------
(* hasAlertWithSkip. *)

Current == Detectors[detector]
Cycle(d) == IF Skip[d] = 0 THEN 1 ELSE Skip[d]

Counted(d) == (mCurrentFrame[d] + 1) % Cycle(d)

\* The first alert ends the pass.
GoOn(alert) ==
  /\ pc' = IF alert THEN "alert" ELSE IF detector = Len(Detectors) THEN "reply" ELSE "ask"
  /\ detector' = IF pc' = "ask" THEN detector + 1 ELSE detector

\* Mutant of AskDetector: the counter only advances when the detector looks.
AskDetectorStuck ==
  /\ pc = "ask" /\ Current # "face"
  /\ LET looks == mCurrentFrame[Current] = 0
     IN  /\ mCurrentFrame' = [mCurrentFrame EXCEPT ![Current] = IF looks THEN Counted(Current) ELSE @]
         /\ GoOn(looks /\ HasAlert(Current, window))
  /\ UNCHANGED <<camera, spawned, window, ahead, mPositiveFrames, mHasAlert, status,
                 lateAlerts, unnoticed, threw, faces>>

\* Every detector but the face detector looks at each mSkipFrames-th pass; an exception of
\* hasAlert is caught and means no alert.
AskDetector ==
  /\ pc = "ask" /\ Current # "face"
  /\ mCurrentFrame' = [mCurrentFrame EXCEPT ![Current] = Counted(Current)]
  /\ LET looks == mCurrentFrame[Current] = 0
     IN  \/ GoOn(looks /\ HasAlert(Current, window)) /\ UNCHANGED threw
         \/ looks /\ GoOn(FALSE) /\ threw' = (threw \/ Current = "move")
  /\ UNCHANGED <<camera, spawned, window, ahead, mPositiveFrames, mHasAlert, status,
                 lateAlerts, unnoticed, faces>>

\* Mutant of PositiveAfter: a look without a face does not start anew.
PositiveKept(seen) == IF seen THEN AtMost(MinPositiveFrames, mPositiveFrames + 1) ELSE mPositiveFrames

PositiveAfter(seen) == IF seen THEN AtMost(MinPositiveFrames, mPositiveFrames + 1) ELSE 0

\* The face detector looks at each mSkipFrames-th pass and as long as it sees a face.
AskFaceDetector ==
  /\ pc = "ask" /\ Current = "face"
  /\ mCurrentFrame' = [mCurrentFrame EXCEPT !["face"] = Counted("face")]
  /\ LET seen == (mCurrentFrame["face"] = 0 \/ mPositiveFrames > 0) /\ HasAlert("face", window)
     IN  /\ mPositiveFrames' = PositiveAfter(seen)
         /\ GoOn(seen /\ mPositiveFrames' >= MinPositiveFrames)
         /\ faceFrames' = IF ~seen THEN 0 ELSE IF fresh.copy THEN AtMost(2, faceFrames + 1)
                                                              ELSE faceFrames
         /\ fresh' = [fresh EXCEPT !.copy = ~seen]
  /\ UNCHANGED <<camera, spawned, window, ahead, mHasAlert, status, lateAlerts, unnoticed,
                 threw>>

\* sendAlert; the other detectors are not asked any more.
SendAlert ==
  /\ pc = "alert"
  /\ mHasAlert' = TRUE
  /\ pc' = "reply"
  /\ lateAlerts' = IF mIsRunMotionAlgo THEN 0 ELSE AtMost(2, lateAlerts + 1)
  /\ UNCHANGED <<camera, spawned, detector, window, ahead, counters, status, unnoticed,
                 threw, faces>>

\* checkAndSendReplyAndForce, and the end of the pass.
EndPass ==
  /\ pc = "reply"
  /\ pc' = "free" /\ detector' = 1 /\ window' = <<>> /\ ahead' = 0
  /\ unnoticed' = IF mHasAlert \/ ~HasMove(window) \/ threw THEN 0 ELSE unnoticed + 1
  /\ threw' = FALSE
  /\ UNCHANGED <<camera, spawned, counters, mHasAlert, status, lateAlerts, faces>>

-----------------------------------------------------------------------------
(* The bot. *)

Switch(on) ==
  /\ mIsRunMotionAlgo' = on
  /\ bot' = "confirm"
  /\ lateAlerts' = 0

\* setHomeIn and setHomeOut: two flags, one after the other.
SetHome(homeStatus) ==
  /\ bot = "poll"
  /\ mHomeStatus' = homeStatus
  /\ bot' = "motion"
  /\ UNCHANGED <<camera, spawned, thread, counters, mHasAlert, mIsRunMotionAlgo,
                 lateAlerts, unnoticed, threw, faces>>

SetHomeMotion ==
  /\ bot = "motion"
  /\ Switch(mHomeStatus = "out")
  /\ UNCHANGED <<camera, spawned, thread, counters, mHasAlert, mHomeStatus, unnoticed,
                 threw, faces>>

\* motionAlarmOn and motionAlarmOff.
SetMotion(on) ==
  /\ bot = "poll"
  /\ Switch(on)
  /\ UNCHANGED <<camera, spawned, thread, counters, mHasAlert, mHomeStatus, unnoticed,
                 threw, faces>>

\* sendMessageToAll: a message that cannot be sent is given up.
Confirm ==
  /\ bot = "confirm"
  /\ bot' = "poll"
  /\ UNCHANGED <<camera, spawned, thread, counters, mHasAlert, mIsRunMotionAlgo, mHomeStatus,
                 lateAlerts, unnoticed, threw, faces>>

\* The poll, or an answer to /Stat, /Help or an unknown user, throws: botLoop ends.
BotStops ==
  /\ bot = "poll"
  /\ bot' = "stopped"
  /\ UNCHANGED <<camera, spawned, thread, counters, mHasAlert, mIsRunMotionAlgo, mHomeStatus,
                 lateAlerts, unnoticed, threw, faces>>

-----------------------------------------------------------------------------
Init ==
  /\ frames = <<>> /\ size = 0
  /\ spawned = 0
  /\ pc = "free" /\ detector = 1 /\ window = <<>> /\ ahead = 0
  /\ mCurrentFrame = [d \in Names |-> 0]
  /\ mPositiveFrames = 0
  /\ mHasAlert = FALSE
  /\ mIsRunMotionAlgo = TRUE /\ mHomeStatus = "out"
  /\ bot = "poll"
  /\ lateAlerts = 0 /\ unnoticed = 0 /\ threw = FALSE
  /\ fresh = [ring |-> FALSE, copy |-> FALSE] /\ faceFrames = 0

Bot ==
  \/ \E homeStatus \in {"in", "out"} : SetHome(homeStatus)
  \/ \E on \in BOOLEAN : SetMotion(on)
  \/ SetHomeMotion \/ Confirm \/ BotStops

PassStep == AskDetector \/ AskFaceDetector \/ SendAlert \/ EndPass

Next == Capture \/ GiveUp \/ BeginPass \/ PassStep \/ Bot

Spec == Init /\ [][Next]_vars

\* The camera delivers, and threads that can run do.
FairSpec == Spec /\ WF_vars(Capture) /\ WF_vars(GiveUp) /\ WF_vars(BeginPass) /\ WF_vars(PassStep)

-----------------------------------------------------------------------------
(* Properties. *)

TypeOK ==
  /\ frames \in Seq(Images) /\ Len(frames) <= Window
  /\ size \in 0..RingSize
  /\ spawned \in 0..MaxThreads
  /\ pc \in {"free", "ask", "alert", "reply"}
  /\ detector \in DOMAIN Detectors
  /\ window \in IF pc = "free" THEN {<<>>} ELSE [1..Window -> Images]
  /\ ahead \in 0..(RingSize - Window)
  /\ \A d \in Names : mCurrentFrame[d] \in 0..(Cycle(d) - 1)
  /\ mPositiveFrames \in 0..MinPositiveFrames
  /\ {mHasAlert, mIsRunMotionAlgo, threw} \subseteq BOOLEAN
  /\ mHomeStatus \in {"in", "out"}
  /\ bot \in {"poll", "motion", "confirm", "stopped"}
  /\ faceFrames \in 0..2

\* A movement that lasts for mSkipFrames passes of the move detector is alerted, by it or
\* by a detector asked before it: neither the alerts that cut a pass short nor the passes
\* that were dropped nor the exceptions of others make it miss its turn for longer.  If it
\* throws itself, that pass is lost and the count begins anew.
MotionNoticed ==
  "move" \in Names => unnoticed < Cycle("move")

\* A face is alerted when it was seen on at least two frames, though a pass may look again
\* at the frames of the pass before it, if mMinPositiveFrames exceeds the threads that may
\* wait for their try_lock.
FaceInTwoFrames ==
  [][ (AskFaceDetector /\ pc' = "alert" /\ MinPositiveFrames > MaxThreads) => faceFrames' = 2 ]_vars

\* Once the motion algorithms are switched off, only the pass that was running may still
\* alert: the threads that wait look at the switch again when they have the mutex.
QuietAfterOff == TypeOK /\ lateAlerts <= 1

\* While the algorithms stay switched on, passes begin again and again, whatever passes
\* found the switch off or the buffer not full before.
PassesGoOn == <>[](mIsRunMotionAlgo /\ IsFull) => []<><<BeginPass>>_vars
=============================================================================
