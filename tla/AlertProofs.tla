----------------------------- MODULE AlertProofs -----------------------------
(***************************************************************************)
(* Proofs about the notifiers: AlertSchedule, when they send, and          *)
(* EmailSend, what the threads of their mails do.                          *)
(*                                                                         *)
(* AlertSchedule is for any number of threads and notifiers, any lists of  *)
(* notifiers and any configuration; EmailSend for any number of threads,   *)
(* buffers and images, any lists of buffers and any kinds of passes.       *)
(***************************************************************************)
EXTENDS AlertSchedule, EmailSend, FiniteSetTheorems, SequenceTheorems, TLAPS

-----------------------------------------------------------------------------
(* AlertSchedule. *)

\* What a thread relies on between its decision and its sending.
Thread(p) ==
  /\ \A i \in 1..Len(calls[p]) : p \in Users(calls[p][i].of)
  /\ decided[p] # "none" => seen[p] <= now /\ now - seen[p] <= MaxStall
  /\ decided[p] = "alert" => /\ now - alertSent[p][Target(p)] > MinIntervalRepeatSend
                             /\ now > FirstTimeSkip
  /\ decided[p] = "reply" => /\ mLastAlgoName[Target(p)]
                             /\ now - alertSent[p][Target(p)] > ReplyDiffTime
  /\ decided[p] \in {"force", "forceLocked"} => now - forceSent[p] > ForceSendInterval

\* The notifiers know of every alert, and of every forced mail while nobody forces one.
Known ==
  /\ \A n \in Notifiers : mLastSendTime[n] <= now /\ (~mIsFirstTime[n] => now > FirstTimeSkip)
  /\ \A p \in Threads, n \in Notifiers : alertSent[p][n] <= mLastSendTime[n]
  /\ \A p \in Threads : forceSent[p] <= now
  /\ forceOwner = Nobody => \A p \in Threads : forceSent[p] <= sLastForceSendTime
  /\ \A p \in Threads : decided[p] = "forceLocked" <=> forceOwner = p
  /\ \A p \in Threads : forceOwner = p => sLastForceSendTime = seen[p] - MinIntervalRepeatSend

\* Replies sent and replies decided.
Pending(n) == {p \in Threads : decided[p] = "reply" /\ Target(p) = n}
MoreUsers(n) == IF Cardinality(Users(n)) > 1 THEN Cardinality(Users(n)) - 1 ELSE 0
Counted ==
  \A n \in Notifiers : mReplyId[n] + Cardinality(Pending(n)) <= ReplyCount + MoreUsers(n)

IInv == TypeOK /\ (\A p \in Threads : Thread(p)) /\ Known /\ Counted

-----------------------------------------------------------------------------
\* The parameters are natural numbers.
LEMMA Parameters ==
  /\ MinIntervalRepeatSend \in Nat /\ ReplyDiffTime \in Nat /\ ReplyCount \in Nat
  /\ FirstTimeSkip \in Nat /\ ForceSendInterval \in Nat /\ MaxStall \in Nat /\ MaxTime \in Nat
  /\ MinIntervalRepeatSend + MaxStall <= ForceSendInterval
  BY ConfigAssumption

LEMMA UsersFacts ==
  ASSUME NEW n
  PROVE  /\ IsFiniteSet(Users(n)) /\ Cardinality(Users(n)) \in Nat /\ MoreUsers(n) \in Nat
<1>1. Users(n) \subseteq Threads
  BY DEF Users
<1> QED
  BY <1>1, FS_Subset, FS_CardinalityType, ThreadsAssumption DEF MoreUsers

\* The call a thread is in leads to a notifier of its list.
LEMMA TargetFacts ==
  ASSUME TypeOK, NEW p \in Threads, Thread(p), calls[p] # <<>>
  PROVE  /\ Target(p) \in Notifiers /\ p \in Users(Target(p))
         /\ Tail(calls[p]) \in Seq(Call) /\ Len(Tail(calls[p])) = Len(calls[p]) - 1
         /\ \A i \in 1..Len(Tail(calls[p])) : Tail(calls[p])[i] = calls[p][i + 1]
<1>1. calls[p] \in Seq(Call)
  BY DEF TypeOK
<1>2. Len(calls[p]) \in Nat \ {0} /\ Head(calls[p]) = calls[p][1]
  BY <1>1, EmptySeq, LenProperties, HeadTailProperties
<1>3. calls[p][1] \in Call
  BY <1>1, <1>2, ElementOfSeq
<1>4. Target(p) \in Notifiers /\ p \in Users(Target(p))
  BY <1>2, <1>3 DEF Target, Call, Thread
<1> QED
  BY <1>1, <1>4, HeadTailProperties

\* How the two ends of a step change what is known of the threads.
LEMMA DecideFacts ==
  ASSUME TypeOK, NEW p \in Threads, NEW what \in Decisions \ {"none"}, Decide(p, what),
         calls[p] # <<>>
  PROVE  /\ calls' = calls
         /\ decided' \in [Threads -> Decisions] /\ seen' \in [Threads -> 0..MaxTime]
         /\ decided'[p] = what /\ seen'[p] = now
         /\ \A q \in Threads : q # p => decided'[q] = decided[q] /\ seen'[q] = seen[q]
         /\ \A q \in Threads : decided'[q] # "none" => calls'[q] # <<>>
  BY DEF Decide, TypeOK

LEMMA ReturnFacts ==
  ASSUME TypeOK, NEW p \in Threads, Thread(p), Return(p), calls[p] # <<>>
  PROVE  /\ calls' \in [Threads -> Seq(Call)] /\ calls'[p] = Tail(calls[p])
         /\ decided' \in [Threads -> Decisions] /\ seen' \in [Threads -> 0..MaxTime]
         /\ decided'[p] = "none"
         /\ \A q \in Threads : q # p =>
              calls'[q] = calls[q] /\ decided'[q] = decided[q] /\ seen'[q] = seen[q]
         /\ \A q \in Threads : decided'[q] # "none" => calls'[q] # <<>>
         /\ \A i \in 1..Len(calls'[p]) : p \in Users(calls'[p][i].of)
<1>1. 0 \in 0..MaxTime /\ "none" \in Decisions
  BY Parameters DEF Decisions
<1>2. Tail(calls[p]) \in Seq(Call)
  BY TargetFacts
<1>3. /\ calls' \in [Threads -> Seq(Call)] /\ calls'[p] = Tail(calls[p])
      /\ decided' \in [Threads -> Decisions] /\ seen' \in [Threads -> 0..MaxTime]
      /\ decided'[p] = "none"
      /\ \A q \in Threads : q # p =>
           calls'[q] = calls[q] /\ decided'[q] = decided[q] /\ seen'[q] = seen[q]
  BY <1>1, <1>2 DEF Return, TypeOK
<1>4. \A i \in 1..Len(calls'[p]) : p \in Users(calls'[p][i].of)
  <2> SUFFICES ASSUME NEW i \in 1..Len(Tail(calls[p])) PROVE p \in Users(Tail(calls[p])[i].of)
    BY <1>3
  <2>1. Len(Tail(calls[p])) = Len(calls[p]) - 1 /\ Tail(calls[p])[i] = calls[p][i + 1]
    BY TargetFacts
  <2>2. Len(calls[p]) \in Nat
    BY LenProperties DEF TypeOK
  <2>3. i + 1 \in 1..Len(calls[p])
    BY <2>1, <2>2
  <2> QED
    BY <2>1, <2>3 DEF Thread
<1> QED
  BY <1>3, <1>4 DEF TypeOK

\* A thread that does not take part in a step keeps what it relies on.
LEMMA ThreadKept ==
  ASSUME IInv, NEW q \in Threads, now' = now, calls'[q] = calls[q], decided'[q] = decided[q],
         seen'[q] = seen[q], alertSent'[q] = alertSent[q], forceSent'[q] = forceSent[q],
         \A n \in Notifiers : mLastAlgoName[n] => mLastAlgoName'[n]
  PROVE  Thread(q)'
<1>1. Target(q)' = Target(q) /\ Thread(q)
  BY DEF Target, IInv
<1>2. decided[q] # "none" => Target(q) \in Notifiers
  BY <1>1, TargetFacts DEF IInv, TypeOK
<1> QED
  BY <1>1, <1>2 DEF Thread

LEMMA PendingFacts ==
  ASSUME TypeOK, \A p \in Threads : Thread(p), NEW n \in Notifiers
  PROVE  /\ Pending(n) \subseteq Users(n) /\ IsFiniteSet(Pending(n))
         /\ Cardinality(Pending(n)) \in Nat
<1>1. ASSUME NEW p \in Pending(n) PROVE p \in Users(n)
  <2>1. p \in Threads /\ decided[p] = "reply" /\ Target(p) = n
    BY DEF Pending
  <2>2. calls[p] # <<>>
    BY <2>1 DEF TypeOK
  <2> QED
    BY <2>1, <2>2, TargetFacts
<1> QED
  BY <1>1, UsersFacts, FS_Subset, FS_CardinalityType

\* No reply is decided or sent by the step.
LEMMA CountedKept ==
  ASSUME IInv, \A n \in Notifiers : Pending(n)' \subseteq Pending(n),
         \A n \in Notifiers : mReplyId'[n] \in Nat /\ mReplyId'[n] <= mReplyId[n]
  PROVE  Counted'
<1> SUFFICES ASSUME NEW n \in Notifiers
             PROVE  mReplyId'[n] + Cardinality(Pending(n)') <= ReplyCount + MoreUsers(n)
  BY DEF Counted, MoreUsers, Users
<1>1. /\ Cardinality(Pending(n)') \in Nat /\ Cardinality(Pending(n)) \in Nat
      /\ Cardinality(Pending(n)') <= Cardinality(Pending(n))
  BY PendingFacts, FS_Subset, FS_CardinalityType DEF IInv
<1>2. mReplyId[n] + Cardinality(Pending(n)) <= ReplyCount + MoreUsers(n)
  BY DEF IInv, Counted
<1>3. mReplyId[n] \in Nat /\ MoreUsers(n) \in Nat /\ ReplyCount \in Nat
  BY UsersFacts, Parameters DEF IInv, TypeOK
<1> QED
  BY <1>1, <1>2, <1>3

\* A step after which the thread is in no reply, and that decides nothing for the others.
LEMMA PendingShrinks ==
  ASSUME IInv, NEW p \in Threads, decided'[p] # "reply",
         \A q \in Threads : q # p => calls'[q] = calls[q] /\ decided'[q] = decided[q]
  PROVE  \A n \in Notifiers : Pending(n)' \subseteq Pending(n)
  BY DEF Pending, Target

-----------------------------------------------------------------------------
LEMMA IInvInit == Init => IInv
<1> SUFFICES ASSUME Init PROVE IInv
  OBVIOUS
<1>1. TypeOK
  BY Parameters DEF Init, TypeOK, Decisions
<1>2. \A p \in Threads : Thread(p)
  BY DEF Init, Thread
<1>3. Known
  BY ThreadsAssumption DEF Init, Known
<1>4. Counted
  <2> SUFFICES ASSUME NEW n \in Notifiers
               PROVE  mReplyId[n] + Cardinality(Pending(n)) <= ReplyCount + MoreUsers(n)
    BY DEF Counted
  <2>1. Pending(n) = {}
    BY DEF Init, Pending
  <2> QED
    BY <2>1, FS_EmptySet, UsersFacts, Parameters DEF Init
<1> QED
  BY <1>1, <1>2, <1>3, <1>4 DEF IInv

LEMMA TickStep == IInv /\ Tick => IInv'
<1> SUFFICES ASSUME IInv, Tick PROVE IInv'
  OBVIOUS
<1>1. /\ now' = now + 1 /\ now \in Nat /\ now < MaxTime
      /\ UNCHANGED <<calls, decided, seen, mLastSendTime, mIsFirstTime, mLastAlgoName, mReplyId>>
      /\ UNCHANGED <<sLastForceSendTime, forceOwner, alertSent, forceSent>>
      /\ \A p \in Threads : decided[p] # "none" => now - seen[p] < MaxStall
  BY DEF Tick, notifier, force, sent, IInv, TypeOK
<1>2. TypeOK'
  BY <1>1, Parameters DEF IInv, TypeOK
<1>3. ASSUME NEW p \in Threads PROVE Thread(p)'
  <2>1. Thread(p) /\ seen[p] \in Nat /\ forceSent[p] \in Nat
    BY DEF IInv, TypeOK
  <2>2. decided[p] # "none" => alertSent[p][Target(p)] \in Nat
    <3>1. decided[p] # "none" => Target(p) \in Notifiers
      BY <2>1, TargetFacts DEF IInv, TypeOK
    <3> QED
      BY <3>1 DEF IInv, TypeOK
  <2>3. Target(p)' = Target(p)
    BY <1>1 DEF Target
  <2>4. \A i \in 1..Len(calls'[p]) : p \in Users(calls'[p][i].of)
    BY <1>1, <2>1 DEF Thread
  <2> QED
    BY <1>1, <2>1, <2>2, <2>3, <2>4, Parameters DEF Thread, Users
<1>4. Known'
  BY <1>1, Parameters DEF IInv, TypeOK, Known
<1>5. Counted'
  BY <1>1 DEF IInv, Counted, Pending, Target, MoreUsers, Users
<1> QED
  BY <1>2, <1>3, <1>4, <1>5 DEF IInv

LEMMA PassStep ==
  ASSUME IInv, NEW p \in Threads, Pass(p)
  PROVE  IInv'
<1>1. /\ calls[p] = <<>>
      /\ UNCHANGED <<now, decided, seen, mLastSendTime, mIsFirstTime, mLastAlgoName, mReplyId>>
      /\ UNCHANGED <<sLastForceSendTime, forceOwner, alertSent, forceSent>>
  BY DEF Pass, notifier, force, sent
<1>2. decided[p] = "none"
  BY <1>1 DEF IInv, TypeOK
<1> DEFINE Mine(s) == s \in Seq(Call) /\ \A i \in 1..Len(s) : p \in Users(s[i].of)
<1>3. ASSUME NEW op \in Handlers PROVE Mine(CallAll(p, op))
  <2>1. List[p] \in Seq(Notifiers) /\ Len(List[p]) \in Nat
    BY ThreadsAssumption, LenProperties
  <2>2. ASSUME NEW i \in 1..Len(List[p]) PROVE List[p][i] \in Notifiers /\ p \in Users(List[p][i])
    BY <2>1, ElementOfSeq DEF Users
  <2>3. CallAll(p, op) \in Seq(Call) /\ Len(CallAll(p, op)) = Len(List[p])
    BY <2>1, <2>2 DEF CallAll, Call
  <2>4. ASSUME NEW i \in 1..Len(List[p]) PROVE CallAll(p, op)[i].of = List[p][i]
    BY DEF CallAll
  <2> QED
    BY <2>2, <2>3, <2>4
<1>4. ASSUME NEW s, NEW t, Mine(s), Mine(t) PROVE Mine(s \o t)
  <2>1. /\ s \o t \in Seq(Call) /\ Len(s \o t) = Len(s) + Len(t)
        /\ Len(s) \in Nat /\ Len(t) \in Nat
    BY <1>4, ConcatProperties, LenProperties
  <2>2. ASSUME NEW i \in 1..Len(s \o t) PROVE p \in Users((s \o t)[i].of)
    <3>1. CASE i <= Len(s)
      BY <1>4, <2>1, <3>1, ConcatProperties
    <3>2. CASE i > Len(s)
      <4>1. i - Len(s) \in 1..Len(t) /\ (s \o t)[i] = t[i - Len(s)]
        BY <1>4, <2>1, <3>2, ConcatProperties
      <4> QED
        BY <1>4, <4>1
    <3> QED
      BY <2>1, <3>1, <3>2
  <2> QED
    BY <2>1, <2>2
<1> HIDE DEF Mine
<1>5. Mine(ReplyAndForce(p)) /\ Mine(CallAll(p, "alert"))
      /\ Mine(CallAll(p, "alert") \o ReplyAndForce(p))
  BY <1>3, <1>4 DEF ReplyAndForce, Handlers
<1>6. PICK s : Mine(s) /\ calls' = [calls EXCEPT ![p] = s]
  BY <1>5 DEF Pass
<1>7. /\ calls' \in [Threads -> Seq(Call)] /\ calls'[p] = s
      /\ \A q \in Threads : q # p => calls'[q] = calls[q]
  BY <1>6 DEF Mine, IInv, TypeOK
<1>8. TypeOK'
  BY <1>1, <1>2, <1>7 DEF IInv, TypeOK
<1>9. ASSUME NEW q \in Threads PROVE Thread(q)'
  <2>1. CASE q = p
    BY <1>1, <1>2, <1>6, <1>7, <2>1 DEF Mine, Thread, Users
  <2>2. CASE q # p
    BY <1>1, <1>7, <2>2, ThreadKept
  <2> QED
    BY <2>1, <2>2
<1>10. Known'
  BY <1>1 DEF IInv, Known
<1>11. Counted'
  <2>1. \A n \in Notifiers : Pending(n)' \subseteq Pending(n)
    BY <1>1, <1>2, <1>7, PendingShrinks
  <2> QED
    BY <1>1, <2>1, CountedKept, Parameters DEF IInv, TypeOK
<1> QED
  BY <1>8, <1>9, <1>10, <1>11 DEF IInv

-----------------------------------------------------------------------------
\* A handler that returns without sending; onAlert may have cleared mIsFirstTime.
LEMMA QuietReturn ==
  ASSUME IInv, NEW p \in Threads, Return(p), calls[p] # <<>>, decided[p] # "forceLocked",
         UNCHANGED <<now, mLastSendTime, mLastAlgoName, mReplyId, force, sent>>,
         mIsFirstTime' \in [Notifiers -> BOOLEAN],
         \A n \in Notifiers : ~mIsFirstTime'[n] => now > FirstTimeSkip
  PROVE  IInv'
<1> USE ReturnFacts DEF IInv
<1>1. TypeOK'
  <2>1. /\ calls' \in [Threads -> Seq(Call)] /\ decided' \in [Threads -> Decisions]
        /\ seen' \in [Threads -> 0..MaxTime]
        /\ \A q \in Threads : decided'[q] # "none" => calls'[q] # <<>>
    OBVIOUS
  <2> QED
    BY <2>1 DEF TypeOK, force, sent
<1>2. ASSUME NEW q \in Threads PROVE Thread(q)'
  <2>1. CASE q = p
    BY <2>1 DEF Thread, Users
  <2>2. CASE q # p
    <3>1. calls'[q] = calls[q] /\ decided'[q] = decided[q] /\ seen'[q] = seen[q]
      BY <2>2
    <3> QED
      BY <3>1, ThreadKept DEF sent
  <2> QED
    BY <2>1, <2>2
<1>3. Known'
  <2>1. \A q \in Threads : decided'[q] = "forceLocked" <=> forceOwner = q
    BY DEF Known
  <2>2. \A q \in Threads : forceOwner = q => seen'[q] = seen[q]
    BY DEF Known
  <2> QED
    BY <2>1, <2>2 DEF Known, force, sent
<1>4. Counted'
  <2>1. \A n \in Notifiers : Pending(n)' \subseteq Pending(n)
    <3>1. \A q \in Threads : q # p => calls'[q] = calls[q] /\ decided'[q] = decided[q]
      OBVIOUS
    <3> QED
      BY <3>1, PendingShrinks
  <2> QED
    BY <2>1, CountedKept, Parameters DEF TypeOK
<1> QED
  BY <1>1, <1>2, <1>3, <1>4

\* A handler that decides to send something other than a reply.
LEMMA QuietDecide ==
  ASSUME IInv, NEW p \in Threads, NEW what \in {"alert", "force"}, Decide(p, what),
         calls[p] # <<>>, decided[p] = "none",
         UNCHANGED <<now, mLastSendTime, mLastAlgoName, mReplyId, force, sent>>,
         mIsFirstTime' \in [Notifiers -> BOOLEAN],
         \A n \in Notifiers : ~mIsFirstTime'[n] => now > FirstTimeSkip,
         what = "alert" => /\ now - alertSent[p][Target(p)] > MinIntervalRepeatSend
                           /\ now > FirstTimeSkip,
         what = "force" => now - forceSent[p] > ForceSendInterval
  PROVE  IInv'
<1>1. what \in Decisions \ {"none"} /\ TypeOK /\ now \in Nat
  BY DEF Decisions, IInv, TypeOK
<1>2. /\ calls' = calls
      /\ decided' \in [Threads -> Decisions] /\ seen' \in [Threads -> 0..MaxTime]
      /\ decided'[p] = what /\ seen'[p] = now
      /\ \A q \in Threads : q # p => decided'[q] = decided[q] /\ seen'[q] = seen[q]
      /\ \A q \in Threads : decided'[q] # "none" => calls'[q] # <<>>
  BY <1>1, DecideFacts
<1>3. TypeOK'
  BY <1>2 DEF IInv, TypeOK, force, sent
<1>4. ASSUME NEW q \in Threads PROVE Thread(q)'
  <2>1. CASE q = p
    <3>1. Target(p)' = Target(p) /\ alertSent' = alertSent /\ forceSent' = forceSent /\ now' = now
      BY <1>2 DEF Target, sent
    <3>2. now - now = 0
      BY <1>1
    <3> QED
      BY <1>1, <1>2, <2>1, <3>1, <3>2, Parameters DEF Thread, Users, IInv
  <2>2. CASE q # p
    BY <1>2, <2>2, ThreadKept DEF sent
  <2> QED
    BY <2>1, <2>2
<1>5. Known'
  <2>1. \A q \in Threads : decided'[q] = "forceLocked" <=> forceOwner = q
    BY <1>2 DEF Known, IInv
  <2>2. \A q \in Threads : forceOwner = q => seen'[q] = seen[q]
    BY <1>2 DEF Known, IInv
  <2> QED
    BY <2>1, <2>2 DEF IInv, Known, force, sent
<1>6. Counted'
  <2>1. \A n \in Notifiers : Pending(n)' \subseteq Pending(n)
    BY <1>2, PendingShrinks
  <2> QED
    BY <2>1, CountedKept, Parameters DEF IInv, TypeOK
<1> QED
  BY <1>3, <1>4, <1>5, <1>6 DEF IInv

LEMMA AlertCheckStep ==
  ASSUME IInv, NEW p \in Threads, AlertCheck(p)
  PROVE  IInv'
<1> DEFINE n == Target(p)
           first == mIsFirstTime[n] /\ now - mLastSendTime[n] <= FirstTimeSkip
<1>1. /\ calls[p] # <<>> /\ decided[p] = "none"
      /\ UNCHANGED <<now, mLastSendTime, mLastAlgoName, mReplyId, force, sent>>
      /\ mIsFirstTime' = [mIsFirstTime EXCEPT ![n] = first]
  BY DEF AlertCheck, In
<1>2. n \in Notifiers /\ now \in Nat /\ mLastSendTime[n] \in Nat /\ alertSent[p][n] \in Nat
      /\ alertSent[p][n] <= mLastSendTime[n] /\ mLastSendTime[n] <= now
  <2>1. n \in Notifiers
    BY <1>1, TargetFacts DEF IInv
  <2> QED
    BY <2>1 DEF IInv, TypeOK, Known
<1>3. ~first => now > FirstTimeSkip
  BY <1>2, Parameters DEF IInv, Known
<1>4. mIsFirstTime' \in [Notifiers -> BOOLEAN]
  <2>1. first \in BOOLEAN
    OBVIOUS
  <2> HIDE DEF first
  <2> QED
    BY <1>1, <2>1 DEF IInv, TypeOK
<1>5. \A k \in Notifiers : ~mIsFirstTime'[k] => now > FirstTimeSkip
  <2> SUFFICES ASSUME NEW k \in Notifiers, ~mIsFirstTime'[k] PROVE now > FirstTimeSkip
    OBVIOUS
  <2>1. CASE k = n
    BY <1>1, <1>2, <1>3, <2>1 DEF IInv, TypeOK
  <2>2. CASE k # n
    BY <1>1, <2>2 DEF IInv, TypeOK, Known
  <2> QED
    BY <2>1, <2>2
<1>6. CASE now - mLastSendTime[n] > MinIntervalRepeatSend /\ ~first
  <2>1. Decide(p, "alert")
    BY <1>6 DEF AlertCheck
  <2>2. now - alertSent[p][Target(p)] > MinIntervalRepeatSend
    BY <1>2, <1>6, Parameters
  <2> HIDE DEF first
  <2> QED
    BY <1>1, <1>3, <1>4, <1>5, <1>6, <2>1, <2>2, QuietDecide
<1>7. CASE ~(now - mLastSendTime[n] > MinIntervalRepeatSend /\ ~first)
  <2>1. Return(p)
    BY <1>7 DEF AlertCheck
  <2> HIDE DEF first
  <2> QED
    BY <1>1, <1>4, <1>5, <2>1, QuietReturn
<1> QED
  BY <1>6, <1>7

LEMMA ForceCheckStep ==
  ASSUME IInv, NEW p \in Threads, ForceCheck(p)
  PROVE  IInv'
<1>1. /\ calls[p] # <<>> /\ decided[p] = "none"
      /\ UNCHANGED <<now, mLastSendTime, mLastAlgoName, mReplyId, force, sent, mIsFirstTime>>
  BY DEF ForceCheck, In, notifier
<1>2. mIsFirstTime' \in [Notifiers -> BOOLEAN]
      /\ \A n \in Notifiers : ~mIsFirstTime'[n] => now > FirstTimeSkip
  BY <1>1 DEF IInv, TypeOK, Known
<1>3. CASE Decide(p, "force") /\ now - sLastForceSendTime > ForceSendInterval
  <2>1. now \in Nat /\ sLastForceSendTime \in Int /\ forceSent[p] \in Nat
    BY DEF IInv, TypeOK
  <2>2. forceOwner = Nobody
    <3> SUFFICES ASSUME forceOwner # Nobody PROVE FALSE
      OBVIOUS
    <3>1. PICK q \in Threads : forceOwner = q
      BY DEF IInv, TypeOK
    <3>2. decided[q] = "forceLocked" /\ sLastForceSendTime = seen[q] - MinIntervalRepeatSend
      BY <3>1 DEF IInv, Known
    <3>3. seen[q] \in Nat /\ now - seen[q] <= MaxStall
      BY <3>2 DEF IInv, Thread, TypeOK
    <3> QED
      BY <1>3, <2>1, <3>2, <3>3, Parameters
  <2>3. now - forceSent[p] > ForceSendInterval
    <3>1. forceSent[p] <= sLastForceSendTime
      BY <2>2 DEF IInv, Known
    <3> QED
      BY <1>3, <2>1, <3>1, Parameters
  <2> QED
    BY <1>1, <1>2, <1>3, <2>3, QuietDecide
<1>4. CASE Return(p)
  BY <1>1, <1>2, <1>4, QuietReturn
<1> QED
  BY <1>3, <1>4 DEF ForceCheck

LEMMA ForceGiveUpStep ==
  ASSUME IInv, NEW p \in Threads, ForceGiveUp(p)
  PROVE  IInv'
<1>1. /\ decided[p] = "force" /\ calls[p] # <<>> /\ Return(p)
      /\ UNCHANGED <<now, mLastSendTime, mLastAlgoName, mReplyId, force, sent, mIsFirstTime>>
  BY DEF ForceGiveUp, notifier, IInv, TypeOK
<1>2. mIsFirstTime' \in [Notifiers -> BOOLEAN]
      /\ \A n \in Notifiers : ~mIsFirstTime'[n] => now > FirstTimeSkip
  BY <1>1 DEF IInv, TypeOK, Known
<1> QED
  BY <1>1, <1>2, QuietReturn

LEMMA ForceLockStep ==
  ASSUME IInv, NEW p \in Threads, ForceLock(p)
  PROVE  IInv'
<1>1. /\ decided[p] = "force" /\ forceOwner = Nobody /\ forceOwner' = p
      /\ sLastForceSendTime' = seen[p] - MinIntervalRepeatSend
      /\ decided' = [decided EXCEPT ![p] = "forceLocked"]
      /\ UNCHANGED <<now, calls, seen, mLastSendTime, mIsFirstTime, mLastAlgoName, mReplyId>>
      /\ UNCHANGED <<alertSent, forceSent>>
  BY DEF ForceLock, notifier, sent
<1>2. /\ decided' \in [Threads -> Decisions] /\ decided'[p] = "forceLocked"
      /\ \A q \in Threads : q # p => decided'[q] = decided[q]
  BY <1>1 DEF IInv, TypeOK, Decisions
<1>3. TypeOK'
  BY <1>1, <1>2, Parameters DEF IInv, TypeOK
<1>4. ASSUME NEW q \in Threads PROVE Thread(q)'
  <2>1. CASE q = p
    BY <1>1, <1>2, <2>1 DEF IInv, Thread, Users, Target
  <2>2. CASE q # p
    BY <1>1, <1>2, <2>2, ThreadKept
  <2> QED
    BY <2>1, <2>2
<1>5. Known'
  BY <1>1, <1>2, ThreadsAssumption DEF IInv, Known
<1>6. Counted'
  <2>1. \A n \in Notifiers : Pending(n)' \subseteq Pending(n)
    BY <1>1, <1>2, PendingShrinks
  <2> QED
    BY <1>1, <2>1, CountedKept, Parameters DEF IInv, TypeOK
<1> QED
  BY <1>3, <1>4, <1>5, <1>6 DEF IInv

LEMMA ForceSendStep ==
  ASSUME IInv, NEW p \in Threads, ForceSend(p)
  PROVE  IInv'
<1>1. /\ decided[p] = "forceLocked" /\ calls[p] # <<>> /\ Return(p)
      /\ sLastForceSendTime' = now /\ forceOwner' = Nobody
      /\ forceSent' = [forceSent EXCEPT ![p] = now]
      /\ UNCHANGED <<now, mLastSendTime, mIsFirstTime, mLastAlgoName, mReplyId, alertSent>>
  BY DEF ForceSend, notifier, IInv, TypeOK
<1>2. /\ calls' \in [Threads -> Seq(Call)] /\ decided' \in [Threads -> Decisions]
      /\ seen' \in [Threads -> 0..MaxTime] /\ decided'[p] = "none"
      /\ \A q \in Threads : q # p =>
           calls'[q] = calls[q] /\ decided'[q] = decided[q] /\ seen'[q] = seen[q]
      /\ \A q \in Threads : decided'[q] # "none" => calls'[q] # <<>>
      /\ \A i \in 1..Len(calls'[p]) : p \in Users(calls'[p][i].of)
  BY <1>1, ReturnFacts DEF IInv
<1>3. TypeOK'
  <2>1. /\ now \in 0..MaxTime /\ now \in Int /\ Nobody \in Threads \cup {Nobody}
        /\ forceSent \in [Threads -> 0..MaxTime]
    BY DEF IInv, TypeOK
  <2>2. forceSent' \in [Threads -> 0..MaxTime]
    BY <1>1, <2>1
  <2>3. /\ sLastForceSendTime' \in Int /\ forceOwner' \in Threads \cup {Nobody}
    BY <1>1, <2>1
  <2> QED
    BY <1>1, <1>2, <2>2, <2>3 DEF IInv, TypeOK
<1>4. ASSUME NEW q \in Threads PROVE Thread(q)'
  <2>1. CASE q = p
    BY <1>2, <2>1 DEF Thread, Users
  <2>2. CASE q # p
    BY <1>1, <1>2, <2>2, ThreadKept DEF IInv, TypeOK
  <2> QED
    BY <2>1, <2>2
<1>5. Known'
  <2>1. \A q \in Threads : forceSent'[q] <= now
    BY <1>1 DEF IInv, TypeOK, Known
  <2>2. forceOwner = p
    BY <1>1 DEF IInv, Known
  <2>3. \A q \in Threads : decided'[q] # "forceLocked" /\ q # Nobody
    BY <1>2, <2>2, ThreadsAssumption DEF IInv, Known
  <2> QED
    BY <1>1, <2>1, <2>3 DEF IInv, Known
<1>6. Counted'
  <2>1. \A n \in Notifiers : Pending(n)' \subseteq Pending(n)
    BY <1>2, PendingShrinks
  <2> QED
    BY <1>1, <2>1, CountedKept, Parameters DEF IInv, TypeOK
<1> QED
  BY <1>3, <1>4, <1>5, <1>6 DEF IInv

LEMMA AlertSendStep ==
  ASSUME IInv, NEW p \in Threads, AlertSend(p)
  PROVE  IInv'
<1> DEFINE n == Target(p)
<1>1. /\ decided[p] = "alert" /\ calls[p] # <<>> /\ Return(p)
      /\ mLastSendTime' = [mLastSendTime EXCEPT ![n] = now]
      /\ mLastAlgoName' = [mLastAlgoName EXCEPT ![n] = TRUE]
      /\ mReplyId' = [mReplyId EXCEPT ![n] = 0]
      /\ alertSent' = [alertSent EXCEPT ![p][n] = now]
      /\ UNCHANGED <<now, mIsFirstTime, sLastForceSendTime, forceOwner, forceSent>>
  BY DEF AlertSend, force, IInv, TypeOK
<1>2. /\ calls' \in [Threads -> Seq(Call)] /\ decided' \in [Threads -> Decisions]
      /\ seen' \in [Threads -> 0..MaxTime] /\ decided'[p] = "none"
      /\ \A q \in Threads : q # p =>
           calls'[q] = calls[q] /\ decided'[q] = decided[q] /\ seen'[q] = seen[q]
      /\ \A q \in Threads : decided'[q] # "none" => calls'[q] # <<>>
      /\ \A i \in 1..Len(calls'[p]) : p \in Users(calls'[p][i].of)
  BY <1>1, ReturnFacts DEF IInv
<1>3. n \in Notifiers /\ p \in Users(n) /\ now \in 0..MaxTime
  BY <1>1, TargetFacts DEF IInv, TypeOK
<1> HIDE DEF n
<1>4. TypeOK'
  BY <1>1, <1>2, <1>3 DEF IInv, TypeOK
<1>5. ASSUME NEW q \in Threads PROVE Thread(q)'
  <2>1. CASE q = p
    BY <1>2, <2>1 DEF Thread, Users
  <2>2. CASE q # p
    <3>1. alertSent'[q] = alertSent[q] /\ \A k \in Notifiers : mLastAlgoName[k] => mLastAlgoName'[k]
      BY <1>1, <1>3, <2>2 DEF IInv, TypeOK
    <3> QED
      BY <1>1, <1>2, <2>2, <3>1, ThreadKept
  <2> QED
    BY <2>1, <2>2
<1>6. Known'
  <2>1. \A k \in Notifiers : mLastSendTime'[k] <= now
    BY <1>1, <1>3 DEF IInv, TypeOK, Known
  <2>2. \A q \in Threads, k \in Notifiers : alertSent'[q][k] <= mLastSendTime'[k]
    <3> SUFFICES ASSUME NEW q \in Threads, NEW k \in Notifiers
                 PROVE  alertSent'[q][k] <= mLastSendTime'[k]
      OBVIOUS
    <3>1. alertSent[q][k] \in Nat /\ alertSent[q][k] <= mLastSendTime[k]
          /\ mLastSendTime[k] <= now /\ mLastSendTime[k] \in Nat
      BY DEF IInv, TypeOK, Known
    <3>2. alertSent'[q][k] = IF q = p /\ k = n THEN now ELSE alertSent[q][k]
      BY <1>1, <1>3 DEF IInv, TypeOK
    <3>3. mLastSendTime'[k] = IF k = n THEN now ELSE mLastSendTime[k]
      BY <1>1, <1>3 DEF IInv, TypeOK
    <3> QED
      BY <1>3, <3>1, <3>2, <3>3
  <2>3. \A q \in Threads : decided'[q] = "forceLocked" <=> forceOwner = q
    BY <1>1, <1>2 DEF IInv, Known
  <2>4. \A q \in Threads : forceOwner = q => seen'[q] = seen[q]
    BY <1>1, <1>2 DEF IInv, Known
  <2> QED
    BY <1>1, <2>1, <2>2, <2>3, <2>4 DEF IInv, Known
<1>7. Counted'
  <2>1. \A k \in Notifiers : Pending(k)' \subseteq Pending(k)
    BY <1>2, PendingShrinks
  <2>2. \A k \in Notifiers : mReplyId'[k] \in Nat /\ mReplyId'[k] <= mReplyId[k]
    BY <1>1, <1>3 DEF IInv, TypeOK
  <2> QED
    BY <2>1, <2>2, CountedKept
<1> QED
  BY <1>4, <1>5, <1>6, <1>7 DEF IInv

\* The time of a reply grows with its number.
LEMMA ReplyTime ==
  ASSUME NEW d \in Nat, NEW k \in Nat
  PROVE  d * (k + 1) >= d
<1>1. d * k \in Nat
  OBVIOUS
<1>2. d * (k + 1) = d * k + d
  OBVIOUS
<1> QED
  BY <1>1, <1>2

LEMMA ReplyCheckStep ==
  ASSUME IInv, NEW p \in Threads, ReplyCheck(p)
  PROVE  IInv'
<1> DEFINE n == Target(p)
<1>1. /\ calls[p] # <<>> /\ decided[p] = "none"
      /\ UNCHANGED <<now, mLastSendTime, mIsFirstTime, mLastAlgoName, mReplyId>>
      /\ UNCHANGED <<sLastForceSendTime, forceOwner, alertSent, forceSent>>
  BY DEF ReplyCheck, In, notifier, force, sent
<1>2. CASE Return(p)
  <2>1. mIsFirstTime' \in [Notifiers -> BOOLEAN]
        /\ \A k \in Notifiers : ~mIsFirstTime'[k] => now > FirstTimeSkip
    BY <1>1 DEF IInv, TypeOK, Known
  <2> QED
    BY <1>1, <1>2, <2>1, QuietReturn DEF force, sent
<1>3. CASE Decide(p, "reply") /\ ReplyDue(n)
  <2>1. n \in Notifiers /\ p \in Users(n)
    BY <1>1, TargetFacts DEF IInv
  <2>2. /\ now \in Nat /\ mLastSendTime[n] \in Nat /\ mReplyId[n] \in Nat
        /\ alertSent[p][n] \in Nat /\ alertSent[p][n] <= mLastSendTime[n]
        /\ Thread(p)
    BY <2>1 DEF IInv, TypeOK, Known
  <2>3. mLastAlgoName[n] /\ now - alertSent[p][n] > ReplyDiffTime
    <3>1. ReplyDiffTime * (mReplyId[n] + 1) >= ReplyDiffTime
      BY <2>2, ReplyTime, Parameters
    <3>2. ReplyDiffTime * (mReplyId[n] + 1) \in Int /\ ReplyDiffTime \in Int
      BY <2>2, Parameters
    <3>3. mLastAlgoName[n] /\ now - mLastSendTime[n] > ReplyDiffTime * (mReplyId[n] + 1)
      BY <1>3 DEF ReplyDue
    <3> QED
      BY <2>2, <3>1, <3>2, <3>3
  <2>4. mReplyId[n] < ReplyCount
    BY <1>3 DEF ReplyDue
  <2>5. /\ calls' = calls
        /\ decided' \in [Threads -> Decisions] /\ seen' \in [Threads -> 0..MaxTime]
        /\ decided'[p] = "reply" /\ seen'[p] = now
        /\ \A q \in Threads : q # p => decided'[q] = decided[q] /\ seen'[q] = seen[q]
        /\ \A q \in Threads : decided'[q] # "none" => calls'[q] # <<>>
    <3>1. "reply" \in Decisions \ {"none"}
      BY DEF Decisions
    <3> QED
      BY <1>1, <1>3, <3>1, DecideFacts DEF IInv
  <2>6. TypeOK'
    BY <1>1, <2>5 DEF IInv, TypeOK
  <2>7. ASSUME NEW q \in Threads PROVE Thread(q)'
    <3>1. CASE q = p
      <4>1. Target(p)' = n /\ now - now = 0
        BY <2>2, <2>5 DEF Target
      <4>2. /\ mLastAlgoName'[n] /\ now' - alertSent'[p][n] > ReplyDiffTime
            /\ seen'[p] <= now' /\ now' - seen'[p] <= MaxStall
        BY <1>1, <2>2, <2>3, <2>5, <4>1, Parameters
      <4>3. \A i \in 1..Len(calls'[p]) : p \in Users(calls'[p][i].of)
        BY <2>2, <2>5 DEF Thread
      <4> QED
        BY <2>5, <3>1, <4>1, <4>2, <4>3 DEF Thread, Users
    <3>2. CASE q # p
      BY <1>1, <2>5, <3>2, ThreadKept
    <3> QED
      BY <3>1, <3>2
  <2>8. Known'
    <3>1. \A q \in Threads : decided'[q] = "forceLocked" <=> forceOwner = q
      BY <1>1, <2>5 DEF IInv, Known
    <3>2. \A q \in Threads : forceOwner = q => seen'[q] = seen[q]
      BY <1>1, <2>5 DEF IInv, Known
    <3> QED
      BY <1>1, <3>1, <3>2 DEF IInv, Known
  <2>9. Counted'
    <3> SUFFICES ASSUME NEW k \in Notifiers
                 PROVE  mReplyId[k] + Cardinality(Pending(k)') <= ReplyCount + MoreUsers(k)
      BY <1>1 DEF Counted, MoreUsers, Users
    <3>1. /\ mReplyId[k] \in Nat /\ MoreUsers(k) \in Nat
          /\ mReplyId[k] + Cardinality(Pending(k)) <= ReplyCount + MoreUsers(k)
      BY UsersFacts DEF IInv, TypeOK, Counted
    <3>2. CASE k # n
      <4>1. Pending(k)' = Pending(k)
        BY <1>1, <2>5, <3>2 DEF Pending, Target
      <4> QED
        BY <3>1, <4>1
    <3>3. CASE k = n
      <4>1. p \notin Pending(n)
        BY <1>1 DEF Pending
      <4>2. Pending(k)' = Pending(n) \cup {p}
        BY <1>1, <2>5, <3>3 DEF Pending, Target
      <4>3. Pending(n) \subseteq Users(n) /\ IsFiniteSet(Pending(n))
            /\ Cardinality(Pending(n)) \in Nat
        BY <2>1, PendingFacts DEF IInv
      <4>4. Cardinality(Pending(n) \cup {p}) = Cardinality(Pending(n)) + 1
        BY <4>1, <4>3, FS_AddElement
      <4>5. Cardinality(Pending(n) \cup {p}) <= Cardinality(Users(n))
        <5>1. Pending(n) \cup {p} \subseteq Users(n) /\ IsFiniteSet(Users(n))
          BY <2>1, <4>3, UsersFacts
        <5> QED
          BY <5>1, FS_Subset
      <4>6. Cardinality(Users(n)) \in Nat
        BY UsersFacts
      <4>7. Cardinality(Pending(n)) <= MoreUsers(n)
        BY <4>3, <4>4, <4>5, <4>6 DEF MoreUsers
      <4>8. mReplyId[n] + (Cardinality(Pending(n)) + 1) <= ReplyCount + MoreUsers(n)
        BY <2>2, <2>4, <3>1, <3>3, <4>3, <4>7, Parameters
      <4> QED
        BY <3>3, <4>2, <4>4, <4>8
    <3> QED
      BY <3>2, <3>3
  <2> QED
    BY <2>6, <2>7, <2>8, <2>9 DEF IInv
<1> QED
  BY <1>2, <1>3 DEF ReplyCheck

LEMMA ReplySendStep ==
  ASSUME IInv, NEW p \in Threads, ReplySend(p)
  PROVE  IInv'
<1> DEFINE n == Target(p)
<1>1. /\ decided[p] = "reply" /\ calls[p] # <<>> /\ Return(p)
      /\ mReplyId' = [mReplyId EXCEPT ![n] = @ + 1]
      /\ UNCHANGED <<now, mLastSendTime, mIsFirstTime, mLastAlgoName>>
      /\ UNCHANGED <<sLastForceSendTime, forceOwner, alertSent, forceSent>>
  BY DEF ReplySend, force, sent, IInv, TypeOK
<1>2. /\ calls' \in [Threads -> Seq(Call)] /\ decided' \in [Threads -> Decisions]
      /\ seen' \in [Threads -> 0..MaxTime] /\ decided'[p] = "none"
      /\ \A q \in Threads : q # p =>
           calls'[q] = calls[q] /\ decided'[q] = decided[q] /\ seen'[q] = seen[q]
      /\ \A q \in Threads : decided'[q] # "none" => calls'[q] # <<>>
      /\ \A i \in 1..Len(calls'[p]) : p \in Users(calls'[p][i].of)
  BY <1>1, ReturnFacts DEF IInv
<1>3. n \in Notifiers /\ mReplyId \in [Notifiers -> Nat]
  BY <1>1, TargetFacts DEF IInv, TypeOK
<1>4. TypeOK'
  <2>1. mReplyId' \in [Notifiers -> Nat]
    BY <1>1, <1>3
  <2> QED
    BY <1>1, <1>2, <2>1 DEF IInv, TypeOK
<1>5. ASSUME NEW q \in Threads PROVE Thread(q)'
  <2>1. CASE q = p
    BY <1>2, <2>1 DEF Thread, Users
  <2>2. CASE q # p
    BY <1>1, <1>2, <2>2, ThreadKept
  <2> QED
    BY <2>1, <2>2
<1>6. Known'
  <2>1. \A q \in Threads : decided'[q] = "forceLocked" <=> forceOwner = q
    BY <1>1, <1>2 DEF IInv, Known
  <2>2. \A q \in Threads : forceOwner = q => seen'[q] = seen[q]
    BY <1>1, <1>2 DEF IInv, Known
  <2> QED
    BY <1>1, <2>1, <2>2 DEF IInv, Known
<1>7. Counted'
  <2> SUFFICES ASSUME NEW k \in Notifiers
               PROVE  mReplyId'[k] + Cardinality(Pending(k)') <= ReplyCount + MoreUsers(k)
    BY DEF Counted, MoreUsers, Users
  <2>1. mReplyId[k] + Cardinality(Pending(k)) <= ReplyCount + MoreUsers(k)
    BY DEF IInv, Counted
  <2>2. CASE k # n
    <3>1. Pending(k)' = Pending(k)
      BY <1>1, <1>2, <2>2 DEF Pending, Target
    <3>2. mReplyId'[k] = mReplyId[k]
      BY <1>1, <1>3, <2>2
    <3> QED
      BY <2>1, <3>1, <3>2
  <2>3. CASE k = n
    <3>1. p \in Pending(n)
      BY <1>1 DEF Pending
    <3>2. Pending(k)' = Pending(n) \ {p}
      BY <1>2, <2>3 DEF Pending, Target
    <3>3. IsFiniteSet(Pending(n)) /\ Cardinality(Pending(n)) \in Nat
      BY <1>3, PendingFacts DEF IInv
    <3>4. Cardinality(Pending(n) \ {p}) = Cardinality(Pending(n)) - 1
      BY <3>1, <3>3, FS_RemoveElement
    <3>5. mReplyId'[n] = mReplyId[n] + 1 /\ mReplyId[n] \in Nat
      BY <1>1, <1>3
    <3> QED
      BY <2>1, <2>3, <3>2, <3>3, <3>4, <3>5
  <2> QED
    BY <2>2, <2>3
<1> QED
  BY <1>4, <1>5, <1>6, <1>7 DEF IInv

LEMMA StutterStep == IInv /\ UNCHANGED vars => IInv'
<1> SUFFICES ASSUME IInv, UNCHANGED vars PROVE IInv'
  OBVIOUS
<1>1. /\ UNCHANGED <<now, calls, decided, seen, mLastSendTime, mIsFirstTime, mLastAlgoName>>
      /\ UNCHANGED <<mReplyId, sLastForceSendTime, forceOwner, alertSent, forceSent>>
  BY DEF vars, notifier, force, sent
<1>2. TypeOK' /\ Known'
  BY <1>1 DEF IInv, TypeOK, Known
<1>3. \A q \in Threads : Thread(q)'
  BY <1>1, ThreadKept
<1>4. Counted'
  BY <1>1 DEF IInv, Counted, Pending, Target, MoreUsers, Users
<1> QED
  BY <1>2, <1>3, <1>4 DEF IInv

LEMMA ScheduleInvariant == Spec => []IInv
<1>1. Init => IInv
  BY IInvInit
<1>2. IInv /\ [Next]_vars => IInv'
  <2> SUFFICES ASSUME IInv, [Next]_vars PROVE IInv'
    OBVIOUS
  <2>1. CASE Tick
    BY <2>1, TickStep
  <2>2. CASE UNCHANGED vars
    BY <2>2, StutterStep
  <2>3. ASSUME NEW p \in Threads,
               Pass(p) \/ AlertCheck(p) \/ AlertSend(p) \/ ForceCheck(p) \/ ForceLock(p)
               \/ ForceGiveUp(p) \/ ForceSend(p) \/ ReplyCheck(p) \/ ReplySend(p)
        PROVE  IInv'
    BY <2>3, PassStep, AlertCheckStep, AlertSendStep, ForceCheckStep, ForceLockStep,
       ForceGiveUpStep, ForceSendStep, ReplyCheckStep, ReplySendStep
  <2> QED
    BY <2>1, <2>2, <2>3 DEF Next
<1> QED
  BY <1>1, <1>2, PTL DEF Spec

-----------------------------------------------------------------------------
\* However many threads share a mail notifier, the replies of one alert stay within
\* ReplyCount and one for each further thread (CSMTPAlert::checkAndSendReply, whose counter
\* mReplyId has no lock).
THEOREM RepliesAreBounded == Spec => []RepliesBounded
<1>1. IInv => RepliesBounded
  <2> SUFFICES ASSUME IInv, NEW n \in Notifiers
               PROVE  mReplyId[n] <= ReplyCount + MoreUsers(n)
    BY DEF RepliesBounded, MoreUsers, IInv
  <2>1. mReplyId[n] + Cardinality(Pending(n)) <= ReplyCount + MoreUsers(n)
    BY DEF IInv, Counted
  <2>2. Cardinality(Pending(n)) \in Nat /\ mReplyId[n] \in Nat /\ MoreUsers(n) \in Nat
    BY PendingFacts, UsersFacts DEF IInv, TypeOK
  <2> QED
    BY <2>1, <2>2, Parameters
<1> QED
  BY <1>1, ScheduleInvariant, PTL

\* No thread sends two alerts through one notifier within AlertMinIntervalSend, nor a reply
\* too soon after its own alert, whatever the other threads that share the notifier do
\* between its decision and its sending (onAlert and checkAndSendReply).
THEOREM AlertsAreSpaced == Spec => AlertsSpaced
<1> DEFINE Step == \A p \in Threads :
       /\ AlertSend(p) => /\ now - alertSent[p][Target(p)] > MinIntervalRepeatSend
                          /\ now > FirstTimeSkip
       /\ ReplySend(p) => /\ mLastAlgoName[Target(p)]
                          /\ now - alertSent[p][Target(p)] > ReplyDiffTime
<1>1. IInv => Step
  BY DEF IInv, Thread, AlertSend, ReplySend
<1>2. IInv /\ [Next]_vars => [Step]_vars
  BY <1>1
<1> QED
  BY <1>2, ScheduleInvariant, PTL DEF Spec, AlertsSpaced

\* No thread forces two mails within ForceSendInterval (checkAndSendForce): while the mutex
\* is held sLastForceSendTime is a time of the past, but never one old enough for a third
\* party to start another forced mail.
THEOREM ForcedMailsSpaced == Spec => ForcedSpaced
<1> DEFINE Step == \A p \in Threads :
       ForceSend(p) => now - forceSent[p] > ForceSendInterval
<1>1. IInv => Step
  BY DEF IInv, Thread, ForceSend
<1>2. IInv /\ [Next]_vars => [Step]_vars
  BY <1>1
<1> QED
  BY <1>2, ScheduleInvariant, PTL DEF Spec, ForcedSpaced

-----------------------------------------------------------------------------
(* EmailSend. *)

\* A thread that still has all it saved, or is deleting it from the step-th on.
Keeping == {"buffer", "save", "lock", "open", "zip", "send", "unsent"}
Owns(m, f) ==
  \E i \in 1..Len(savedNames[m]) :
    savedNames[m][i] = f /\ (pc[m] \in Keeping \/ (pc[m] = "delete" /\ step[m] <= i))

File == [dir : Nat, name : Nat \X Nat]
Jobs ==
  /\ job \in [MailThreads -> [kind : {"none", "alert", "force", "reply"},
                              bufferIds : Seq(Buffers), copy : [Buffers -> 0..MaxImages]]]
  /\ savedNames \in [MailThreads -> Seq(File)]
  /\ zipped \in [MailThreads -> SUBSET (Nat \X Nat)]
  /\ \A m \in MailThreads :
       pc[m] = "unused" => job[m].bufferIds = <<>> /\ savedNames[m] = <<>> /\ at[m] = 0

\* Where a thread is in its job.
Place(m) ==
  /\ tmpIdDir[m] # NoDir => tmpIdDir[m] \in DirsOf(m)
  /\ pc[m] = "save" => /\ at[m] \in Shown(m) /\ tmpIdDir[m] = job[m].copy[at[m]]
                       /\ step[m] \in FirstImage(job[m].copy[at[m]])..job[m].copy[at[m]]
  /\ pc[m] \in {"open", "zip", "send", "delete", "rmdir"} =>
       savedNames[m] # <<>> /\ tmpIdDir[m] # NoDir
  /\ pc[m] \in {"zip", "delete"} => step[m] \in 1..Len(savedNames[m])
  /\ m \in archives => pc[m] \in {"zip", "send", "unsent"} /\ tmpIdDir[m] # NoDir

\* The images a thread has passed, of the buffers before the one it is at and of that one.
Passed(m, image) ==
  /\ image[1] \in Shown(m)
  /\ image[2] \in FirstImage(job[m].copy[image[1]])..job[m].copy[image[1]]
  /\ image[1] < at[m] \/ (pc[m] = "save" /\ image[1] = at[m] /\ image[2] < step[m])

\* The files it has saved: each image once.
SavedFile(m, i) ==
  LET image == savedNames[m][i].name
  IN  savedNames[m][i].dir = job[m].copy[image[1]] /\ Passed(m, image)
Saved(m) ==
  /\ \A i \in 1..Len(savedNames[m]) : SavedFile(m, i)
  /\ \A i, j \in 1..Len(savedNames[m]) : i # j => savedNames[m][i].name # savedNames[m][j].name

\* Every file has an owner, every directory a thread that will remove it.
Cleans(m, d) == d \in DirsOf(m) /\ (pc[m] # "done" \/ Cardinality(DirsOf(m)) > 1)
Owned ==
  /\ \A f \in files : \E m \in MailThreads : Owns(m, f)
  /\ \A d \in dirs : \E m \in MailThreads : Cleans(m, d)

AllThreads == \A m \in MailThreads : Place(m) /\ Saved(m)
MailInv == MailTypeOK /\ Jobs /\ AllThreads /\ Owned

-----------------------------------------------------------------------------
LEMMA BufferFacts ==
  ASSUME Jobs, NEW m \in MailThreads
  PROVE  /\ job[m].copy \in [Buffers -> 0..MaxImages]
         /\ job[m].bufferIds \in Seq(Buffers) /\ Len(job[m].bufferIds) \in Nat
         /\ savedNames[m] \in Seq(File) /\ Len(savedNames[m]) \in Nat
         /\ Buffers \subseteq Nat /\ MaxImages \in Nat /\ ImageCount \in Nat \ {0}
         /\ Shown(m) \subseteq Buffers
         /\ \A b \in Buffers : FirstImage(job[m].copy[b]) \in Nat \ {0}
<1>1. /\ job[m].copy \in [Buffers -> 0..MaxImages]
      /\ job[m].bufferIds \in Seq(Buffers) /\ savedNames[m] \in Seq(File)
  BY DEF Jobs
<1>2. /\ Buffers \subseteq Nat /\ MaxImages \in Nat /\ ImageCount \in Nat \ {0}
      /\ NumBuffers \in Nat
  BY BuffersAssumption DEF Buffers
<1>3. \A b \in Buffers : FirstImage(job[m].copy[b]) \in Nat \ {0}
  BY <1>1, <1>2 DEF FirstImage
<1> QED
  BY <1>1, <1>2, <1>3, LenProperties DEF Shown

\* What another thread does leaves a thread as it is.
Same(m) ==
  /\ job'[m] = job[m] /\ pc'[m] = pc[m] /\ at'[m] = at[m] /\ step'[m] = step[m]
  /\ tmpIdDir'[m] = tmpIdDir[m] /\ savedNames'[m] = savedNames[m]
  /\ zipped'[m] = zipped[m] /\ outcome'[m] = outcome[m]
  /\ m \in archives' => m \in archives

LEMMA SameShown ==
  ASSUME NEW m, job'[m] = job[m]
  PROVE  Shown(m)' = Shown(m) /\ DirsOf(m)' = DirsOf(m)
<1>1. Shown(m)' = Shown(m)
  BY DEF Shown, Buffers
<1> QED
  BY <1>1 DEF DirsOf

LEMMA SameKept ==
  ASSUME NEW m, Same(m)
  PROVE  /\ Place(m) => Place(m)'
         /\ Saved(m) => Saved(m)'
         /\ \A f : Owns(m, f) => Owns(m, f)'
         /\ \A d : Cleans(m, d) => Cleans(m, d)'
<1>1. Shown(m)' = Shown(m) /\ DirsOf(m)' = DirsOf(m)
  BY SameShown DEF Same
<1>2. Place(m) => Place(m)'
  BY <1>1 DEF Place, Same, FirstImage, NoDir
<1>3. \A image : Passed(m, image) <=> Passed(m, image)'
  BY <1>1 DEF Passed, Same, FirstImage
<1>4. \A i : SavedFile(m, i) => SavedFile(m, i)'
  BY <1>3 DEF SavedFile, Same
<1>5. Saved(m) => Saved(m)'
  BY <1>4 DEF Saved, Same
<1>6. \A f : Owns(m, f) => Owns(m, f)'
  BY DEF Owns, Same, Keeping
<1>7. \A d : Cleans(m, d) => Cleans(m, d)'
  BY <1>1 DEF Cleans, Same
<1> QED
  BY <1>2, <1>5, <1>6, <1>7

\* One thread steps: the others keep what the invariant says of them, and what they own.
LEMMA OneThread ==
  ASSUME AllThreads, NEW m \in MailThreads,
         \A k \in MailThreads \ {m} : Same(k), Place(m)', Saved(m)'
  PROVE  /\ AllThreads'
         /\ \A k \in MailThreads \ {m} : \A f : Owns(k, f) => Owns(k, f)'
         /\ \A k \in MailThreads \ {m} : \A d : Cleans(k, d) => Cleans(k, d)'
  BY SameKept DEF AllThreads

\* The directory of a saved file is one of the thread.
LEMMA OwnedDir ==
  ASSUME Jobs, NEW m \in MailThreads, Saved(m), NEW f, Owns(m, f)
  PROVE  f.dir \in DirsOf(m) /\ pc[m] \notin {"rmdir", "done", "unused"}
<1>1. PICK i \in 1..Len(savedNames[m]) : savedNames[m][i] = f
  BY DEF Owns
<1>2. f.name[1] \in Shown(m) /\ f.dir = job[m].copy[f.name[1]]
  BY <1>1 DEF Saved, SavedFile, Passed
<1> QED
  BY <1>2 DEF DirsOf, Owns, Keeping

\* One directory, unless there are several.
LEMMA SingleDir ==
  ASSUME Jobs, NEW m \in MailThreads, ~(Cardinality(DirsOf(m)) > 1),
         NEW c \in DirsOf(m), NEW d \in DirsOf(m)
  PROVE  c = d
<1>1. IsFiniteSet(DirsOf(m)) /\ Cardinality(DirsOf(m)) \in Nat
  <2>1. DirsOf(m) \subseteq 0..MaxImages /\ MaxImages \in Nat
    BY BufferFacts DEF DirsOf
  <2>2. IsFiniteSet(0..MaxImages)
    BY <2>1, FS_Interval
  <2> QED
    BY <2>1, <2>2, FS_Subset, FS_CardinalityType
<1>2. ASSUME c # d PROVE FALSE
  <2>1. {c, d} \subseteq DirsOf(m)
    OBVIOUS
  <2>2. IsFiniteSet({c}) /\ Cardinality({c}) = 1
    BY FS_Singleton
  <2>3. Cardinality({c, d}) = 2
    <3>1. {c, d} = {c} \cup {d} /\ d \notin {c}
      BY <1>2
    <3> QED
      BY <2>2, <3>1, FS_AddElement
  <2> QED
    BY <1>1, <2>1, <2>3, FS_Subset
<1> QED
  BY <1>2

-----------------------------------------------------------------------------
(* Each step of a thread keeps the invariant. *)

LEMMA NextBufferKeeps ==
  ASSUME MailInv, NEW m \in MailThreads, NextBuffer(m)
  PROVE  MailInv'
<1> DEFINE b == at[m]
           copy == job[m].copy
<1>1. /\ MailTypeOK /\ Jobs /\ AllThreads /\ Owned /\ Place(m) /\ Saved(m)
      /\ pc[m] = "buffer" /\ at[m] \in Nat
  BY DEF MailInv, AllThreads, NextBuffer, Runs, MailTypeOK
<1>2. /\ UNCHANGED <<newest, files, archives, job, savedNames, zipped, outcome, crashed>>
      /\ \A k \in MailThreads \ {m} : Same(k)
      /\ pc'[m] \in {"lock", "buffer", "save"} /\ at'[m] \in {b, b + 1}
      /\ pc'[m] = "save" => /\ b < Len(job[m].bufferIds) /\ b \in Buffers /\ copy[b] # 0
                            /\ at'[m] = b /\ step'[m] = FirstImage(copy[b])
                            /\ tmpIdDir'[m] = copy[b] /\ dirs' = dirs \cup {copy[b]}
      /\ pc'[m] # "save" => tmpIdDir'[m] = tmpIdDir[m] /\ dirs' = dirs
  BY <1>1 DEF NextBuffer, Runs, Goto, Same, MailTypeOK
<1>3. b < Len(job[m].bufferIds) /\ b \in Buffers /\ copy[b] # 0 =>
        /\ b \in Shown(m) /\ copy[b] \in DirsOf(m) /\ copy[b] \in 1..MaxImages
        /\ FirstImage(copy[b]) \in 1..copy[b]
  <2> SUFFICES ASSUME b < Len(job[m].bufferIds), b \in Buffers, copy[b] # 0
               PROVE  /\ b \in Shown(m) /\ copy[b] \in DirsOf(m) /\ copy[b] \in 1..MaxImages
                      /\ FirstImage(copy[b]) \in 1..copy[b]
    OBVIOUS
  <2>1. copy[b] \in 1..MaxImages /\ b \in Nat /\ Len(job[m].bufferIds) \in Nat
        /\ ImageCount \in Nat \ {0}
    BY <1>1, BufferFacts
  <2>2. b \in Shown(m)
    BY <2>1 DEF Shown
  <2> QED
    BY <2>1, <2>2 DEF DirsOf, FirstImage
<1>4. Shown(m)' = Shown(m) /\ DirsOf(m)' = DirsOf(m) /\ m \notin archives'
  BY <1>1, <1>2, SameShown DEF Place
<1>5. MailTypeOK'
  <2>1. at' \in [MailThreads -> Nat] /\ pc' \in [MailThreads -> Steps]
    <3>1. /\ at' = [at EXCEPT ![m] = at'[m]] /\ pc' = [pc EXCEPT ![m] = pc'[m]]
          /\ at'[m] \in Nat /\ pc'[m] \in Steps
      BY <1>1, <1>2 DEF MailTypeOK, NextBuffer, Goto, Steps
    <3> QED
      BY <1>1, <3>1 DEF MailTypeOK
  <2>2. /\ step' \in [MailThreads -> Nat] /\ tmpIdDir' \in [MailThreads -> 0..MaxImages]
        /\ dirs \subseteq dirs' /\ dirs' \subseteq 1..MaxImages
    <3>1. CASE pc'[m] = "save"
      <4>1. copy[b] \in 1..MaxImages /\ FirstImage(copy[b]) \in Nat
        BY <1>2, <1>3, <3>1
      <4>2. /\ step' = [step EXCEPT ![m] = step'[m]] /\ step'[m] = FirstImage(copy[b])
            /\ tmpIdDir' = [tmpIdDir EXCEPT ![m] = tmpIdDir'[m]]
            /\ tmpIdDir'[m] = copy[b] /\ dirs' = dirs \cup {copy[b]}
        BY <1>1, <1>2, <3>1 DEF NextBuffer, Goto, MailTypeOK
      <4>3. step' \in [MailThreads -> Nat] /\ tmpIdDir' \in [MailThreads -> 0..MaxImages]
        BY <1>1, <4>1, <4>2 DEF MailTypeOK
      <4> QED
        BY <1>1, <4>1, <4>2, <4>3 DEF MailTypeOK
    <3>2. CASE pc'[m] # "save"
      <4>1. step' = step /\ tmpIdDir' = tmpIdDir /\ dirs' = dirs
        BY <1>1, <3>2 DEF NextBuffer, Goto, MailTypeOK
      <4> QED
        BY <1>1, <4>1 DEF MailTypeOK
    <3> QED
      BY <3>1, <3>2
  <2> QED
    BY <1>1, <1>2, <2>1, <2>2 DEF MailTypeOK, Buffers
<1>6. Jobs'
  BY <1>1, <1>2 DEF Jobs, Same, Buffers
<1>7. Place(m)'
  <2>1. tmpIdDir'[m] # NoDir => tmpIdDir'[m] \in DirsOf(m)
    BY <1>1, <1>2, <1>3 DEF Place
  <2>2. pc'[m] = "save" => /\ at'[m] \in Shown(m) /\ tmpIdDir'[m] = copy[at'[m]]
                           /\ step'[m] \in FirstImage(copy[at'[m]])..copy[at'[m]]
    BY <1>1, <1>2, <1>3, BufferFacts
  <2> QED
    BY <1>2, <1>4, <2>1, <2>2 DEF Place, FirstImage, NoDir
<1>8. Saved(m)'
  <2>1. \A image : Passed(m, image) => Passed(m, image)'
    BY <1>1, <1>2, <1>4, BufferFacts DEF Passed, FirstImage
  <2> QED
    BY <1>1, <1>2, <2>1 DEF Saved, SavedFile
<1>9. AllThreads' /\ \A k \in MailThreads \ {m} : /\ \A f : Owns(k, f) => Owns(k, f)'
                                                /\ \A d : Cleans(k, d) => Cleans(k, d)'
  BY <1>1, <1>2, <1>7, <1>8, OneThread
<1>10. Owned'
  <2>1. \A f : Owns(m, f) => Owns(m, f)'
    BY <1>1, <1>2 DEF Owns, Keeping
  <2>2. \A d : Cleans(m, d) \/ (pc'[m] = "save" /\ d = copy[b]) => Cleans(m, d)'
    BY <1>2, <1>3, <1>4 DEF Cleans
  <2> QED
    BY <1>1, <1>2, <1>9, <2>1, <2>2 DEF Owned
<1> QED
  BY <1>5, <1>6, <1>9, <1>10 DEF MailInv

LEMMA SaveImageKeeps ==
  ASSUME MailInv, NEW m \in MailThreads, SaveImage(m)
  PROVE  MailInv'
<1> DEFINE b == at[m]
           s == step[m]
           copy == job[m].copy
           name == <<b, s>>
           file == [dir |-> tmpIdDir[m], name |-> name]
           there == tmpIdDir[m] \in dirs
           n == Len(savedNames[m])
<1>1. /\ MailTypeOK /\ Jobs /\ AllThreads /\ Owned /\ Place(m) /\ Saved(m)
      /\ pc[m] = "save" /\ b \in Nat /\ s \in Nat /\ tmpIdDir[m] \in Nat
  BY BuffersAssumption DEF MailInv, AllThreads, SaveImage, Runs, MailTypeOK
<1>2. /\ UNCHANGED <<newest, dirs, archives, job, tmpIdDir, zipped, outcome, crashed>>
      /\ \A k \in MailThreads \ {m} : Same(k)
      /\ step'[m] = s + 1
      /\ s < copy[b] => at'[m] = b /\ pc'[m] = "save"
      /\ ~(s < copy[b]) => at'[m] = b + 1 /\ pc'[m] = "buffer"
      /\ there => files' = files \cup {file} /\ savedNames'[m] = Append(savedNames[m], file)
      /\ ~there => files' = files /\ savedNames'[m] = savedNames[m]
  BY <1>1 DEF SaveImage, Runs, Goto, Same, MailTypeOK, Jobs
<1>3. /\ b \in Shown(m) /\ tmpIdDir[m] = copy[b] /\ b \in Buffers /\ copy[b] \in Nat
      /\ FirstImage(copy[b]) \in Nat /\ s \in FirstImage(copy[b])..copy[b]
  BY <1>1, BufferFacts DEF Place
<1>4. Shown(m)' = Shown(m) /\ DirsOf(m)' = DirsOf(m) /\ m \notin archives'
  BY <1>1, <1>2, SameShown DEF Place
<1>5. file \in File /\ savedNames[m] \in Seq(File) /\ n \in Nat
  BY <1>1, BufferFacts DEF File
<1>6. /\ savedNames'[m] \in Seq(File) /\ Len(savedNames'[m]) \in {n, n + 1}
      /\ ~there => Len(savedNames'[m]) = n
      /\ \A i \in 1..n : savedNames'[m][i] = savedNames[m][i]
      /\ there => Len(savedNames'[m]) = n + 1 /\ savedNames'[m][n + 1] = file
  <2>1. /\ Append(savedNames[m], file) \in Seq(File)
        /\ Len(Append(savedNames[m], file)) = n + 1
        /\ \A i \in 1..n : Append(savedNames[m], file)[i] = savedNames[m][i]
        /\ Append(savedNames[m], file)[n + 1] = file
    BY <1>5, AppendProperties
  <2> QED
    BY <1>2, <1>5, <2>1
<1>7. MailTypeOK'
  <2>1. \A f \in files' : f.dir \in dirs'
    BY <1>1, <1>2 DEF MailTypeOK
  <2>2. step' = [step EXCEPT ![m] = s + 1]
    BY DEF SaveImage
  <2>3. at' = at \/ at' = [at EXCEPT ![m] = b + 1]
    BY DEF SaveImage
  <2>4. pc' = pc \/ pc' = [pc EXCEPT ![m] = "buffer"]
    BY DEF SaveImage, Goto
  <2>5. step' \in [MailThreads -> Nat] /\ at' \in [MailThreads -> Nat]
    BY <1>1, <2>2, <2>3 DEF MailTypeOK
  <2>6. pc' \in [MailThreads -> Steps]
    BY <1>1, <2>4 DEF MailTypeOK, Steps
  <2> QED
    BY <1>1, <1>2, <2>1, <2>5, <2>6 DEF MailTypeOK, Buffers
<1>8. Jobs'
  <2>1. savedNames' \in [MailThreads -> Seq(File)]
    <3>1. savedNames' = IF there THEN [savedNames EXCEPT ![m] = savedNames'[m]] ELSE savedNames
      BY <1>1, <1>2 DEF Jobs, SaveImage
    <3> QED
      BY <1>1, <1>6, <3>1 DEF Jobs
  <2> QED
    BY <1>1, <1>2, <2>1 DEF Jobs, Same, Buffers
<1>9. Place(m)'
  <2>1. pc'[m] = "save" => step'[m] \in FirstImage(copy[b])..copy[b] /\ at'[m] = b
    BY <1>2, <1>3
  <2>2. pc'[m] \in {"save", "buffer"}
    BY <1>2, <1>3
  <2> QED
    BY <1>1, <1>2, <1>3, <1>4, <2>1, <2>2 DEF Place, FirstImage, NoDir
<1>10. Saved(m)'
  <2>1. \A image : Passed(m, image) => Passed(m, image)' /\ image # name
    <3> SUFFICES ASSUME NEW image, Passed(m, image)
                 PROVE  Passed(m, image)' /\ image # name
      OBVIOUS
    <3>1. /\ image[1] \in Nat /\ image[2] \in Nat
          /\ image[1] < b \/ (image[1] = b /\ image[2] < s)
      BY <1>1, BufferFacts DEF Passed
    <3>2. image[1] < at'[m] \/ (pc'[m] = "save" /\ image[1] = at'[m] /\ image[2] < step'[m])
      BY <1>1, <1>2, <1>3, <3>1
    <3>3. Passed(m, image)'
      BY <1>2, <1>4, <3>2 DEF Passed, FirstImage
    <3>4. image # name
      BY <3>1, <1>1
    <3> QED
      BY <3>3, <3>4
  <2>2. \A image : image = name => Passed(m, image)'
    <3>1. b < at'[m] \/ (pc'[m] = "save" /\ b = at'[m] /\ s < step'[m])
      BY <1>1, <1>2, <1>3
    <3> QED
      BY <1>2, <1>3, <1>4, <3>1 DEF Passed, FirstImage
  <2>3. \A i \in 1..n : SavedFile(m, i) /\ Passed(m, savedNames[m][i].name)
    BY <1>1 DEF Saved, SavedFile
  <2>4. \A i \in 1..n : SavedFile(m, i)' /\ savedNames[m][i].name # name
    BY <1>2, <1>6, <2>1, <2>3 DEF SavedFile
  <2>5. there => \A i : i = n + 1 => SavedFile(m, i)'
    BY <1>2, <1>3, <1>6, <2>2 DEF SavedFile
  <2>6. \A i \in 1..Len(savedNames'[m]) : i \in 1..n \/ (there /\ i = n + 1)
    BY <1>5, <1>6
  <2>7. \A i \in 1..Len(savedNames'[m]) : SavedFile(m, i)'
    BY <2>4, <2>5, <2>6
  <2>8. \A i, j \in 1..Len(savedNames'[m]) :
           i # j => savedNames'[m][i].name # savedNames'[m][j].name
    <3>1. \A i, j \in 1..n : i # j => savedNames[m][i].name # savedNames[m][j].name
      BY <1>1 DEF Saved
    <3> SUFFICES ASSUME NEW i \in 1..Len(savedNames'[m]), NEW j \in 1..Len(savedNames'[m]),
                        i # j
                 PROVE  savedNames'[m][i].name # savedNames'[m][j].name
      OBVIOUS
    <3>2. CASE i \in 1..n /\ j \in 1..n
      BY <1>6, <3>1, <3>2
    <3>3. CASE i \notin 1..n \/ j \notin 1..n
      <4>1. there /\ ((i \in 1..n /\ j = n + 1) \/ (i = n + 1 /\ j \in 1..n))
        BY <2>6, <3>3
      <4>2. savedNames'[m][n + 1].name = name
        BY <1>6, <4>1
      <4>3. \A k \in 1..n : savedNames'[m][k].name # name
        BY <1>6, <2>4
      <4> QED
        BY <4>1, <4>2, <4>3
    <3> QED
      BY <3>2, <3>3
  <2> QED
    BY <2>7, <2>8 DEF Saved
<1>11. AllThreads' /\ \A k \in MailThreads \ {m} : /\ \A f : Owns(k, f) => Owns(k, f)'
                                                 /\ \A d : Cleans(k, d) => Cleans(k, d)'
  BY <1>1, <1>2, <1>9, <1>10, OneThread
<1>12. Owned'
  <2>1. pc'[m] \in {"save", "buffer"}
    BY <1>2, <1>3
  <2>2. \A f : Owns(m, f) => Owns(m, f)'
    <3> SUFFICES ASSUME NEW f, NEW i \in 1..n, savedNames[m][i] = f PROVE Owns(m, f)'
      BY <1>1 DEF Owns
    <3>1. i \in 1..Len(savedNames'[m]) /\ savedNames'[m][i] = f
      BY <1>5, <1>6
    <3> QED
      BY <2>1, <3>1 DEF Owns, Keeping
  <2>3. there => \A f : f = file => Owns(m, f)'
    <3>1. there => n + 1 \in 1..Len(savedNames'[m]) /\ savedNames'[m][n + 1] = file
      BY <1>5, <1>6
    <3> QED
      BY <2>1, <3>1 DEF Owns, Keeping
  <2>4. \A d : Cleans(m, d) => Cleans(m, d)'
    BY <1>4, <2>1 DEF Cleans
  <2> QED
    BY <1>1, <1>2, <1>11, <2>2, <2>3, <2>4 DEF Owned
<1> QED
  BY <1>7, <1>8, <1>11, <1>12 DEF MailInv

LEMMA LockLastKeeps ==
  ASSUME MailInv, NEW m \in MailThreads, LockLast(m)
  PROVE  MailInv'
<1>1. /\ MailTypeOK /\ Jobs /\ AllThreads /\ Owned /\ Place(m) /\ Saved(m) /\ pc[m] = "lock"
  BY DEF MailInv, AllThreads, LockLast, Runs
<1>2. /\ UNCHANGED <<newest, disk, job, at, step, tmpIdDir, savedNames, zipped, outcome>>
      /\ \A k \in MailThreads \ {m} : Same(k)
      /\ pc'[m] \in {"lock", "unsent", "open"}
      /\ pc'[m] = "open" => tmpIdDir[m] # NoDir /\ savedNames[m] # <<>>
  BY <1>1 DEF LockLast, Runs, Goto, Same, MailTypeOK, disk
<1>3. Shown(m)' = Shown(m) /\ DirsOf(m)' = DirsOf(m)
  BY <1>2, SameShown
<1>4. MailTypeOK'
  BY <1>1, <1>2 DEF MailTypeOK, LockLast, Goto, Steps, Buffers, disk
<1>5. Jobs'
  BY <1>1, <1>2 DEF Jobs, Same, Buffers
<1>6. Place(m)'
  BY <1>1, <1>2, <1>3 DEF Place, NoDir, disk
<1>7. Saved(m)'
  <2>1. \A image : Passed(m, image) => Passed(m, image)'
    BY <1>1, <1>2, <1>3 DEF Passed, FirstImage
  <2> QED
    BY <1>1, <1>2, <2>1 DEF Saved, SavedFile
<1>8. AllThreads' /\ \A k \in MailThreads \ {m} : /\ \A f : Owns(k, f) => Owns(k, f)'
                                                /\ \A d : Cleans(k, d) => Cleans(k, d)'
  BY <1>1, <1>2, <1>6, <1>7, OneThread
<1>9. Owned'
  <2>1. \A f : Owns(m, f) => Owns(m, f)'
    BY <1>1, <1>2 DEF Owns, Keeping
  <2>2. \A d : Cleans(m, d) => Cleans(m, d)'
    BY <1>2, <1>3 DEF Cleans
  <2> QED
    BY <1>1, <1>2, <1>8, <2>1, <2>2 DEF Owned, disk
<1> QED
  BY <1>4, <1>5, <1>8, <1>9 DEF MailInv

LEMMA OpenZipKeeps ==
  ASSUME MailInv, NEW m \in MailThreads, OpenZip(m)
  PROVE  MailInv'
<1>1. /\ MailTypeOK /\ Jobs /\ AllThreads /\ Owned /\ Place(m) /\ Saved(m) /\ pc[m] = "open"
      /\ Len(savedNames[m]) \in Nat \ {0}
  BY BufferFacts, EmptySeq DEF MailInv, AllThreads, OpenZip, Runs, Place
<1>2. /\ UNCHANGED <<newest, dirs, files, job, at, tmpIdDir, savedNames, zipped, outcome, crashed>>
      /\ \A k \in MailThreads \ {m} : Same(k)
      /\ pc'[m] \in {"zip", "unsent"} /\ step'[m] = 1
      /\ m \in archives' => pc'[m] = "zip"
      /\ archives' \subseteq archives \cup {m}
  BY <1>1 DEF OpenZip, Runs, Goto, Same, MailTypeOK, Place
<1>3. Shown(m)' = Shown(m) /\ DirsOf(m)' = DirsOf(m)
  BY <1>2, SameShown
<1>4. MailTypeOK'
  BY <1>1, <1>2 DEF MailTypeOK, OpenZip, Goto, Steps, Buffers
<1>5. Jobs'
  BY <1>1, <1>2 DEF Jobs, Same, Buffers
<1>6. Place(m)'
  BY <1>1, <1>2, <1>3 DEF Place, NoDir
<1>7. Saved(m)'
  <2>1. \A image : Passed(m, image) => Passed(m, image)'
    BY <1>1, <1>2, <1>3 DEF Passed, FirstImage
  <2> QED
    BY <1>1, <1>2, <2>1 DEF Saved, SavedFile
<1>8. AllThreads' /\ \A k \in MailThreads \ {m} : /\ \A f : Owns(k, f) => Owns(k, f)'
                                                /\ \A d : Cleans(k, d) => Cleans(k, d)'
  BY <1>1, <1>2, <1>6, <1>7, OneThread
<1>9. Owned'
  <2>1. \A f : Owns(m, f) => Owns(m, f)'
    BY <1>1, <1>2 DEF Owns, Keeping
  <2>2. \A d : Cleans(m, d) => Cleans(m, d)'
    BY <1>2, <1>3 DEF Cleans
  <2> QED
    BY <1>1, <1>2, <1>8, <2>1, <2>2 DEF Owned
<1> QED
  BY <1>4, <1>5, <1>8, <1>9 DEF MailInv

LEMMA ZipFileKeeps ==
  ASSUME MailInv, NEW m \in MailThreads, ZipFile(m)
  PROVE  MailInv'
<1>1. /\ MailTypeOK /\ Jobs /\ AllThreads /\ Owned /\ Place(m) /\ Saved(m) /\ pc[m] = "zip"
      /\ Len(savedNames[m]) \in Nat /\ step[m] \in 1..Len(savedNames[m])
  BY BufferFacts DEF MailInv, AllThreads, ZipFile, Runs, Place
<1>2. /\ UNCHANGED <<newest, disk, job, at, tmpIdDir, savedNames, outcome, crashed>>
      /\ \A k \in MailThreads \ {m} : Same(k)
      /\ pc'[m] \in {"zip", "send", "unsent"}
      /\ pc'[m] = "zip" => step'[m] = step[m] + 1 /\ step[m] < Len(savedNames[m])
  BY <1>1 DEF ZipFile, Runs, Goto, Same, MailTypeOK, disk, Jobs
<1>3. Shown(m)' = Shown(m) /\ DirsOf(m)' = DirsOf(m)
  BY <1>2, SameShown
<1>4. MailTypeOK'
  BY <1>1, <1>2 DEF MailTypeOK, ZipFile, Goto, Steps, Buffers, disk
<1>5. Jobs'
  <2>1. ZippedNext(m) \in SUBSET (Nat \X Nat)
    <3>1. savedNames[m][step[m]] \in File /\ zipped[m] \in SUBSET (Nat \X Nat)
      BY <1>1, BufferFacts, ElementOfSeq DEF Jobs
    <3> QED
      BY <3>1 DEF ZippedNext, File
  <2>2. zipped' \in [MailThreads -> SUBSET (Nat \X Nat)]
    BY <1>1, <2>1 DEF Jobs, ZipFile
  <2> QED
    BY <1>1, <1>2, <2>2 DEF Jobs, Same, Buffers
<1>6. Place(m)'
  BY <1>1, <1>2, <1>3 DEF Place, NoDir, disk
<1>7. Saved(m)'
  <2>1. \A image : Passed(m, image) => Passed(m, image)'
    BY <1>1, <1>2, <1>3 DEF Passed, FirstImage
  <2> QED
    BY <1>1, <1>2, <2>1 DEF Saved, SavedFile
<1>8. AllThreads' /\ \A k \in MailThreads \ {m} : /\ \A f : Owns(k, f) => Owns(k, f)'
                                                /\ \A d : Cleans(k, d) => Cleans(k, d)'
  BY <1>1, <1>2, <1>6, <1>7, OneThread
<1>9. Owned'
  <2>1. \A f : Owns(m, f) => Owns(m, f)'
    BY <1>1, <1>2 DEF Owns, Keeping
  <2>2. \A d : Cleans(m, d) => Cleans(m, d)'
    BY <1>2, <1>3 DEF Cleans
  <2> QED
    BY <1>1, <1>2, <1>8, <2>1, <2>2 DEF Owned, disk
<1> QED
  BY <1>4, <1>5, <1>8, <1>9 DEF MailInv

LEMMA SendKeeps ==
  ASSUME MailInv, NEW m \in MailThreads, Send(m)
  PROVE  MailInv'
<1>1. /\ MailTypeOK /\ Jobs /\ AllThreads /\ Owned /\ Place(m) /\ Saved(m) /\ pc[m] = "send"
      /\ Len(savedNames[m]) \in Nat \ {0}
  BY BufferFacts, EmptySeq DEF MailInv, AllThreads, Send, Runs, Place
<1>2. /\ UNCHANGED <<newest, dirs, files, job, at, tmpIdDir, savedNames, zipped, crashed>>
      /\ \A k \in MailThreads \ {m} : Same(k)
      /\ pc'[m] = "delete" /\ step'[m] = 1 /\ archives' = archives \ {m}
  BY <1>1 DEF Send, Runs, Goto, Same, MailTypeOK
<1>3. Shown(m)' = Shown(m) /\ DirsOf(m)' = DirsOf(m)
  BY <1>2, SameShown
<1>4. MailTypeOK'
  BY <1>1, <1>2 DEF MailTypeOK, Send, Goto, Steps, Buffers
<1>5. Jobs'
  BY <1>1, <1>2 DEF Jobs, Same, Buffers
<1>6. Place(m)'
  BY <1>1, <1>2, <1>3 DEF Place, NoDir
<1>7. Saved(m)'
  <2>1. \A image : Passed(m, image) => Passed(m, image)'
    BY <1>1, <1>2, <1>3 DEF Passed, FirstImage
  <2> QED
    BY <1>1, <1>2, <2>1 DEF Saved, SavedFile
<1>8. AllThreads' /\ \A k \in MailThreads \ {m} : /\ \A f : Owns(k, f) => Owns(k, f)'
                                                /\ \A d : Cleans(k, d) => Cleans(k, d)'
  BY <1>1, <1>2, <1>6, <1>7, OneThread
<1>9. Owned'
  <2>1. \A f : Owns(m, f) => Owns(m, f)'
    BY <1>1, <1>2 DEF Owns, Keeping
  <2>2. \A d : Cleans(m, d) => Cleans(m, d)'
    BY <1>2, <1>3 DEF Cleans
  <2> QED
    BY <1>1, <1>2, <1>8, <2>1, <2>2 DEF Owned
<1> QED
  BY <1>4, <1>5, <1>8, <1>9 DEF MailInv

\* A thread that deletes a file no longer owns it, and still owns those behind it.
LEMMA DeleteFileKeeps ==
  ASSUME MailInv, NEW m \in MailThreads, DeleteFile(m)
  PROVE  MailInv'
<1>1. /\ MailTypeOK /\ Jobs /\ AllThreads /\ Owned /\ Place(m) /\ Saved(m) /\ pc[m] = "delete"
      /\ Len(savedNames[m]) \in Nat /\ step[m] \in 1..Len(savedNames[m])
  BY BufferFacts DEF MailInv, AllThreads, DeleteFile, Runs, Place
<1>2. /\ UNCHANGED <<newest, dirs, archives, job, at, tmpIdDir, savedNames, zipped, outcome,
                     crashed>>
      /\ \A k \in MailThreads \ {m} : Same(k)
      /\ files' = files \ {savedNames[m][step[m]]}
      /\ \/ step[m] < Len(savedNames[m]) /\ pc'[m] = "delete" /\ step'[m] = step[m] + 1
         \/ step[m] = Len(savedNames[m]) /\ pc'[m] = "rmdir"
  BY <1>1 DEF DeleteFile, Runs, Goto, Same, MailTypeOK
<1>3. Shown(m)' = Shown(m) /\ DirsOf(m)' = DirsOf(m) /\ m \notin archives'
  BY <1>1, <1>2, SameShown DEF Place
<1>4. MailTypeOK'
  <2>1. pc' \in [MailThreads -> Steps] /\ step' \in [MailThreads -> Nat]
    <3>1. step' = step \/ step' = [step EXCEPT ![m] = @ + 1]
      BY DEF DeleteFile
    <3>2. pc' = [pc EXCEPT ![m] = "delete"] \/ pc' = [pc EXCEPT ![m] = "rmdir"]
      BY <1>1, <1>2 DEF DeleteFile, Goto, MailTypeOK
    <3>3. step \in [MailThreads -> Nat] /\ pc \in [MailThreads -> Steps]
      BY <1>1 DEF MailTypeOK
    <3>4. step' \in [MailThreads -> Nat]
      BY <3>1, <3>3
    <3>5. pc' \in [MailThreads -> Steps]
      BY <3>2, <3>3 DEF Steps
    <3> QED
      BY <3>4, <3>5
  <2> QED
    BY <1>1, <1>2, <2>1 DEF MailTypeOK, Buffers
<1>5. Jobs'
  BY <1>1, <1>2 DEF Jobs, Same, Buffers
<1>6. Place(m)'
  BY <1>1, <1>2, <1>3 DEF Place, NoDir
<1>7. Saved(m)'
  <2>1. \A image : Passed(m, image) => Passed(m, image)'
    BY <1>1, <1>2, <1>3 DEF Passed, FirstImage
  <2> QED
    BY <1>1, <1>2, <2>1 DEF Saved, SavedFile
<1>8. AllThreads' /\ \A k \in MailThreads \ {m} : /\ \A f : Owns(k, f) => Owns(k, f)'
                                                /\ \A d : Cleans(k, d) => Cleans(k, d)'
  BY <1>1, <1>2, <1>6, <1>7, OneThread
<1>9. Owned'
  <2>1. \A f \in files' : Owns(m, f) => Owns(m, f)'
    BY <1>1, <1>2 DEF Owns, Keeping
  <2>2. \A d : Cleans(m, d) => Cleans(m, d)'
    BY <1>2, <1>3 DEF Cleans
  <2> QED
    BY <1>1, <1>2, <1>8, <2>1, <2>2 DEF Owned
<1> QED
  BY <1>4, <1>5, <1>8, <1>9 DEF MailInv

\* A directory that stays after a thread is done is used by another one that cleans it, or
\* is not the one of its last buffer.
LEMMA RemoveDirKeeps ==
  ASSUME MailInv, NEW m \in MailThreads, RemoveDir(m)
  PROVE  MailInv'
<1>1. /\ MailTypeOK /\ Jobs /\ AllThreads /\ Owned /\ Place(m) /\ Saved(m) /\ pc[m] = "rmdir"
  BY DEF MailInv, AllThreads, RemoveDir, Runs
<1>2. /\ UNCHANGED <<newest, files, archives, job, at, step, tmpIdDir, savedNames, zipped, outcome,
                     crashed>>
      /\ \A k \in MailThreads \ {m} : Same(k)
      /\ pc'[m] = "done" /\ dirs' \subseteq dirs
      /\ \A d \in dirs' : d = tmpIdDir[m] => Used(d)
      /\ \A d \in dirs : Used(d) => d \in dirs'
  BY <1>1 DEF RemoveDir, Runs, Goto, Same, MailTypeOK
<1>3. Shown(m)' = Shown(m) /\ DirsOf(m)' = DirsOf(m) /\ m \notin archives'
  BY <1>1, <1>2, SameShown DEF Place
<1>4. MailTypeOK'
  <2>1. \A f \in files' : f.dir \in dirs'
    BY <1>1, <1>2 DEF MailTypeOK, Used
  <2> QED
    BY <1>1, <1>2, <2>1 DEF MailTypeOK, RemoveDir, Goto, Steps, Buffers
<1>5. Jobs'
  BY <1>1, <1>2 DEF Jobs, Same, Buffers
<1>6. Place(m)'
  BY <1>1, <1>2, <1>3 DEF Place, NoDir
<1>7. Saved(m)'
  <2>1. \A image : Passed(m, image) => Passed(m, image)'
    BY <1>1, <1>2, <1>3 DEF Passed, FirstImage
  <2> QED
    BY <1>1, <1>2, <2>1 DEF Saved, SavedFile
<1>8. AllThreads' /\ \A k \in MailThreads \ {m} : /\ \A f : Owns(k, f) => Owns(k, f)'
                                                /\ \A d : Cleans(k, d) => Cleans(k, d)'
  BY <1>1, <1>2, <1>6, <1>7, OneThread
<1>9. ASSUME NEW f \in files' PROVE \E k \in MailThreads : Owns(k, f)'
  <2>1. PICK k \in MailThreads : Owns(k, f)
    BY <1>1, <1>2 DEF Owned
  <2>2. k # m
    BY <1>1, <2>1 DEF Owns, Keeping
  <2> QED
    BY <1>8, <2>1, <2>2
<1>10. ASSUME NEW d \in dirs' PROVE \E k \in MailThreads : Cleans(k, d)'
  <2>1. PICK k \in MailThreads : Cleans(k, d)
    BY <1>1, <1>2 DEF Owned
  <2>2. CASE k # m
    BY <1>8, <2>1, <2>2
  <2>3. CASE k = m /\ Cardinality(DirsOf(m)) > 1
    BY <1>3, <2>1, <2>3 DEF Cleans
  <2>4. CASE k = m /\ ~(Cardinality(DirsOf(m)) > 1)
    <3>1. tmpIdDir[m] \in DirsOf(m) /\ d \in DirsOf(m)
      BY <1>1, <2>1, <2>4 DEF Place, Cleans
    <3>2. d = tmpIdDir[m]
      BY <1>1, <2>4, <3>1, SingleDir
    <3>3. CASE \E f \in files : f.dir = d
      <4>1. PICK f \in files, j \in MailThreads : f.dir = d /\ Owns(j, f)
        BY <1>1, <3>3 DEF Owned
      <4>2. d \in DirsOf(j) /\ pc[j] \notin {"rmdir", "done"}
        BY <1>1, <4>1, OwnedDir DEF AllThreads
      <4>3. j # m /\ Cleans(j, d)
        BY <1>1, <4>2 DEF Cleans
      <4> QED
        BY <1>8, <4>3
    <3>4. CASE \E j \in archives : tmpIdDir[j] = d
      <4>1. PICK j \in archives : tmpIdDir[j] = d
        BY <3>4
      <4>2. j \in MailThreads /\ j # m /\ Place(j)
        BY <1>1, <1>2, <1>3 DEF MailTypeOK, AllThreads
      <4>3. Cleans(j, d)
        BY <4>1, <4>2 DEF Place, Cleans
      <4> QED
        BY <1>8, <4>2, <4>3
    <3> QED
      BY <1>2, <3>2, <3>3, <3>4 DEF Used
  <2> QED
    BY <2>2, <2>3, <2>4
<1> QED
  BY <1>4, <1>5, <1>8, <1>9, <1>10 DEF MailInv, Owned

LEMMA PushBackKeeps ==
  ASSUME MailInv, NEW b \in Buffers, PushBack(b)
  PROVE  MailInv'
<1>1. UNCHANGED <<dirs, files, archives, job, pc, at, step, tmpIdDir, savedNames, zipped, outcome,
                  crashed>>
  BY DEF PushBack, disk, thread
<1>2. newest' \in [Buffers -> 0..MaxImages]
  BY BuffersAssumption DEF MailInv, MailTypeOK, PushBack
<1>3. MailTypeOK' /\ Jobs'
  BY <1>1, <1>2 DEF MailInv, MailTypeOK, Jobs, Buffers
<1>4. \A m \in MailThreads : Same(m)
  BY <1>1 DEF Same
<1>5. AllThreads' /\ Owned'
  BY <1>1, <1>4, SameKept DEF MailInv, AllThreads, Owned
<1> QED
  BY <1>3, <1>5 DEF MailInv

\* What a pass does to the threads: those it starts were never used before.
LEMMA StartFacts ==
  ASSUME MailTypeOK, Jobs, Start
  PROVE  /\ UNCHANGED <<newest, dirs, files, archives, at, step, tmpIdDir, savedNames, zipped,
                        outcome, crashed>>
         /\ job' \in [MailThreads -> [kind : {"none", "alert", "force", "reply"},
                                      bufferIds : Seq(Buffers), copy : [Buffers -> 0..MaxImages]]]
         /\ pc' \in [MailThreads -> Steps]
         /\ \A m \in MailThreads : Same(m) \/ (pc[m] = "unused" /\ pc'[m] = "buffer")
<1>1. PICK kinds \in KindsOfPass, list \in BufferLists :
        \E of \in [kinds -> {m \in MailThreads : pc[m] = "unused"}] :
          LET kindOf(m) == CHOOSE k \in kinds : of[k] = m
              started == {of[k] : k \in kinds}
          IN  /\ job' = [m \in MailThreads |->
                           IF m \in started
                             THEN [kind |-> kindOf(m), bufferIds |-> list, copy |-> newest]
                             ELSE job[m]]
              /\ pc' = [m \in MailThreads |-> IF m \in started THEN "buffer" ELSE pc[m]]
              /\ UNCHANGED <<newest, disk, at, step, tmpIdDir, savedNames, zipped, outcome,
                             crashed>>
  BY DEF Start
<1>2. PICK of \in [kinds -> {m \in MailThreads : pc[m] = "unused"}] :
        LET kindOf(m) == CHOOSE k \in kinds : of[k] = m
            started == {of[k] : k \in kinds}
        IN  /\ job' = [m \in MailThreads |->
                         IF m \in started
                           THEN [kind |-> kindOf(m), bufferIds |-> list, copy |-> newest]
                           ELSE job[m]]
            /\ pc' = [m \in MailThreads |-> IF m \in started THEN "buffer" ELSE pc[m]]
            /\ UNCHANGED <<newest, disk, at, step, tmpIdDir, savedNames, zipped, outcome,
                           crashed>>
  BY <1>1
<1> DEFINE started == {of[k] : k \in kinds}
           kindOf(m) == CHOOSE k \in kinds : of[k] = m
<1>3. \A m \in started : m \in MailThreads /\ pc[m] = "unused"
  BY <1>2
<1>4. list \in Seq(Buffers) /\ newest \in [Buffers -> 0..MaxImages]
  BY BuffersAssumption DEF MailTypeOK, Buffers
<1>5. \A m \in started : kindOf(m) \in {"none", "alert", "force", "reply"}
  BY BuffersAssumption
<1>6. job' \in [MailThreads -> [kind : {"none", "alert", "force", "reply"},
                                bufferIds : Seq(Buffers), copy : [Buffers -> 0..MaxImages]]]
  BY <1>2, <1>4, <1>5 DEF Jobs
<1>7. pc' \in [MailThreads -> Steps]
  BY <1>2 DEF MailTypeOK, Steps
<1>8. \A m \in MailThreads : m \notin started => Same(m)
  BY <1>2 DEF Same, disk
<1> QED
  BY <1>2, <1>3, <1>6, <1>7, <1>8 DEF disk

LEMMA StartKeeps ==
  ASSUME MailInv, Start
  PROVE  MailInv'
<1>1. MailTypeOK /\ Jobs /\ AllThreads /\ Owned
  BY DEF MailInv
<1>2. /\ UNCHANGED <<newest, dirs, files, archives, at, step, tmpIdDir, savedNames, zipped,
                     outcome, crashed>>
      /\ \A m \in MailThreads : Same(m) \/ (pc[m] = "unused" /\ pc'[m] = "buffer")
  BY <1>1, StartFacts
<1>3. MailTypeOK'
  BY <1>1, <1>2, StartFacts DEF MailTypeOK, Buffers
<1>4. Jobs'
  <2>1. \A m \in MailThreads : pc'[m] = "unused" =>
          job'[m].bufferIds = <<>> /\ savedNames'[m] = <<>> /\ at'[m] = 0
    BY <1>1, <1>2 DEF Jobs, Same
  <2> QED
    BY <1>1, <1>2, <2>1, StartFacts DEF Jobs, Buffers
<1>5. ASSUME NEW m \in MailThreads, pc[m] = "unused"
      PROVE  DirsOf(m) = {} /\ Len(savedNames[m]) = 0
  <2>1. job[m].bufferIds = <<>> /\ savedNames[m] = <<>>
    BY <1>1, <1>5 DEF Jobs
  <2>2. Shown(m) = {}
    BY <2>1 DEF Shown
  <2> QED
    BY <2>1, <2>2 DEF DirsOf
<1>6. AllThreads'
  <2> SUFFICES ASSUME NEW m \in MailThreads PROVE Place(m)' /\ Saved(m)'
    BY DEF AllThreads
  <2>1. Place(m) /\ Saved(m)
    BY <1>1 DEF AllThreads
  <2>2. CASE pc[m] = "unused" /\ pc'[m] = "buffer"
    <3>1. tmpIdDir[m] = NoDir /\ m \notin archives /\ Len(savedNames[m]) = 0
      BY <1>5, <2>1, <2>2 DEF Place
    <3>2. Place(m)'
      BY <1>2, <2>2, <3>1 DEF Place, NoDir
    <3>3. Saved(m)'
      BY <1>2, <3>1 DEF Saved
    <3> QED
      BY <3>2, <3>3
  <2> QED
    BY <1>2, <2>1, <2>2, SameKept
<1>7. Owned'
  <2>1. \A m \in MailThreads : \A f : Owns(m, f) => Owns(m, f)'
    BY <1>2, <1>5, SameKept DEF Owns
  <2>2. \A m \in MailThreads : \A d : Cleans(m, d) => Cleans(m, d)'
    BY <1>2, <1>5, SameKept DEF Cleans
  <2> QED
    BY <1>1, <1>2, <2>1, <2>2 DEF Owned
<1> QED
  BY <1>3, <1>4, <1>6, <1>7 DEF MailInv

LEMMA InitHolds == MailInit => MailInv
<1> SUFFICES ASSUME MailInit PROVE MailInv
  OBVIOUS
<1>1. MailTypeOK
  <2>1. 0 \in 0..MaxImages
    BY BuffersAssumption
  <2>2. newest \in [Buffers -> 0..MaxImages] /\ tmpIdDir \in [MailThreads -> 0..MaxImages]
    BY <2>1 DEF MailInit, NoDir
  <2>3. pc \in [MailThreads -> Steps] /\ outcome \in [MailThreads -> {"none", "sent", "refused"}]
    BY DEF MailInit, Steps
  <2>4. at \in [MailThreads -> Nat] /\ step \in [MailThreads -> Nat]
    BY DEF MailInit
  <2> QED
    BY <2>2, <2>3, <2>4 DEF MailInit, MailTypeOK
<1>2. Jobs
  <2>1. NoJob \in [kind : {"none", "alert", "force", "reply"},
                   bufferIds : Seq(Buffers), copy : [Buffers -> 0..MaxImages]]
    BY BuffersAssumption, EmptySeq DEF NoJob
  <2> QED
    BY <2>1, EmptySeq DEF MailInit, Jobs, NoJob
<1>3. AllThreads
  BY EmptySeq DEF MailInit, AllThreads, Place, Saved, NoDir
<1> QED
  BY <1>1, <1>2, <1>3 DEF MailInit, MailInv, Owned

LEMMA StepKeeps == MailInv /\ [MailNext]_mailVars => MailInv'
<1> SUFFICES ASSUME MailInv, [MailNext]_mailVars PROVE MailInv'
  OBVIOUS
<1>1. CASE UNCHANGED mailVars
  <2>1. UNCHANGED <<newest, dirs, files, archives, job, pc, at, step, tmpIdDir, savedNames, zipped,
                    outcome, crashed>>
    BY <1>1 DEF mailVars, disk, thread
  <2>2. MailTypeOK' /\ Jobs'
    BY <2>1 DEF MailInv, MailTypeOK, Jobs, Buffers
  <2>3. \A m \in MailThreads : Same(m)
    BY <2>1 DEF Same
  <2>4. AllThreads' /\ Owned'
    BY <2>1, <2>3, SameKept DEF MailInv, AllThreads, Owned
  <2> QED
    BY <2>2, <2>4 DEF MailInv
<1> QED
  BY <1>1, PushBackKeeps, StartKeeps, NextBufferKeeps, SaveImageKeeps, LockLastKeeps,
     OpenZipKeeps, ZipFileKeeps, SendKeeps, DeleteFileKeeps, RemoveDirKeeps DEF MailNext

\* Whatever a mail thread has saved it still has the name of until it has deleted it, and a
\* directory that is there is one of a thread that has not come to its end, or of a thread
\* that has several (saveAndSendEmailManyBuffers).
LEMMA MailInvariant == MailSpec => []MailInv
<1>1. MailInit => MailInv
  BY InitHolds
<1>2. MailInv /\ [MailNext]_mailVars => MailInv'
  BY StepKeeps
<1> QED
  BY <1>1, <1>2, PTL DEF MailSpec

\* The threads of a directory leave nothing behind, in whatever order they finish and however
\* many they are: the last one finds the directory empty (sendEmailAndDeleteFiles).
THEOREM NothingLeft == MailSpec => []CleanedUp
<1>1. MailInv => CleanedUp
  <2> SUFFICES ASSUME MailInv PROVE CleanedUp
    OBVIOUS
  <2>1. \A f \in files : \E m \in MailThreads : f.dir \in DirsOf(m) /\ pc[m] # "done"
    BY OwnedDir DEF MailInv, Owned, AllThreads
  <2>2. \A d \in dirs : \E m \in MailThreads :
          d \in DirsOf(m) /\ (pc[m] # "done" \/ Cardinality(DirsOf(m)) > 1)
    BY DEF MailInv, Owned, Cleans
  <2> QED
    BY <2>1, <2>2 DEF CleanedUp
<1> QED
  BY <1>1, MailInvariant, PTL

-----------------------------------------------------------------------------
(* What becomes of a mail when at most one other thread has its directories. *)

Few(m) == Cardinality(Sharing(m)) <= 2
Others(m) == Sharing(m) \ {m}
Leaving == {"delete", "rmdir", "done"}

\* A file of m is missing before it was packed, and nobody will save it again.
Doomed(m) ==
  /\ \E i \in 1..Len(savedNames[m]) :
       /\ savedNames[m][i] \notin files
       /\ pc[m] \in {"buffer", "save", "lock", "open"} \/ (pc[m] = "zip" /\ step[m] <= i)
  /\ \E k \in Others(m) : pc[k] \in Leaving
Missed(m) ==
  pc[m] = "zip" /\ \E i \in 1..(step[m] - 1) : savedNames[m][i].name \notin zipped[m]

\* What m saved is all of some buffers, and of the one it is at what it has passed,
\* unless the directory was gone when it came there.
Partial(m) ==
  IF pc[m] = "save" THEN {at[m]} \X (FirstImage(job[m].copy[at[m]])..(step[m] - 1)) ELSE {}
Behind(m) == {b \in Shown(m) : b < at[m]}
Whole(m) ==
  \E B \in SUBSET Behind(m) :
    \/ NamesOf(m) = ImagesOf(m, B) \cup Partial(m)
    \/ pc[m] = "save" /\ tmpIdDir[m] \notin dirs /\ NamesOf(m) = ImagesOf(m, B)

Unpacked == {"buffer", "save", "lock", "open", "zip"}
Fate(m) ==
  /\ pc[m] = "save" /\ tmpIdDir[m] \notin dirs => \E k \in Others(m) : pc[k] = "done"
  /\ pc[m] \in Unpacked => Doomed(m) \/ Missed(m) \/ Whole(m)
  /\ pc[m] = "send" => Whole(m)

Complete(m) == \E buffers \in (SUBSET Shown(m)) \ {{}} : zipped[m] = ImagesOf(m, buffers)
Packed(m) ==
  /\ pc[m] \in Keeping \cup {"unused"} => outcome[m] = "none"
  /\ pc[m] \in {"unused", "buffer", "save", "lock", "open"} => zipped[m] = {}
  /\ pc[m] = "zip" =>
       \A name \in zipped[m] : \E i \in 1..(step[m] - 1) : name = savedNames[m][i].name
  /\ pc[m] = "send" => zipped[m] = NamesOf(m)
  /\ outcome[m] = "sent" => zipped[m] = NamesOf(m) /\ (Few(m) => Complete(m))

WholeInv ==
  /\ MailInv
  /\ \A m \in MailThreads : Packed(m) /\ (Few(m) => Fate(m))

-----------------------------------------------------------------------------
\* One thread, besides m, has directories of m at most.
LEMMA OneOther ==
  ASSUME NEW m \in MailThreads, Few(m), NEW j \in Others(m), NEW k \in Others(m)
  PROVE  j = k
<1>1. IsFiniteSet(Sharing(m)) /\ Cardinality(Sharing(m)) \in Nat
  BY BuffersAssumption, FS_Subset, FS_CardinalityType DEF Sharing
<1>2. {m, j, k} \subseteq Sharing(m)
  BY DEF Others, Sharing
<1>3. ASSUME j # k PROVE FALSE
  <2>1. IsFiniteSet({m}) /\ Cardinality({m}) = 1
    BY FS_Singleton
  <2>2. IsFiniteSet({m} \cup {j}) /\ Cardinality({m} \cup {j}) = 2
    <3>1. j \notin {m}
      BY DEF Others
    <3> QED
      BY <2>1, <3>1, FS_AddElement
  <2>3. Cardinality(({m} \cup {j}) \cup {k}) = 3
    <3> DEFINE two == {m} \cup {j}
    <3>1. k \notin two /\ IsFiniteSet(two) /\ Cardinality(two) = 2
      BY <1>3, <2>2 DEF Others
    <3> HIDE DEF two
    <3>2. Cardinality(two \cup {k}) = Cardinality(two) + 1
      BY <3>1, FS_AddElement
    <3>3. Cardinality(two \cup {k}) = 3
      BY <3>1, <3>2
    <3> QED
      BY <3>3 DEF two
  <2>4. ({m} \cup {j}) \cup {k} \subseteq Sharing(m)
    BY <1>2
  <2> QED
    BY <1>1, <2>3, <2>4, FS_Subset DEF Few
<1> QED
  BY <1>3

\* A thread that was started keeps its directories, so those who share them stay.
LEMMA SharingGrows ==
  ASSUME MailInv, [MailNext]_mailVars, NEW m \in MailThreads
  PROVE  /\ Sharing(m) \subseteq Sharing(m)' /\ Others(m) \subseteq Others(m)'
         /\ Few(m)' => Few(m)
<1>1. \A k \in MailThreads : DirsOf(k) \subseteq DirsOf(k)'
  <2>1. CASE Start
    <3> SUFFICES ASSUME NEW k \in MailThreads PROVE DirsOf(k) \subseteq DirsOf(k)'
      OBVIOUS
    <3>1. Same(k) \/ pc[k] = "unused"
      BY <2>1, StartFacts DEF MailInv
    <3>2. CASE pc[k] = "unused"
      <4>1. job[k].bufferIds = <<>>
        BY <3>2 DEF MailInv, Jobs
      <4>2. DirsOf(k) = {}
        BY <4>1 DEF DirsOf, Shown
      <4> QED
        BY <4>2
    <3> QED
      BY <3>1, <3>2, SameShown DEF Same
  <2>2. CASE UNCHANGED job
    BY <2>2, SameShown
  <2>3. Start \/ UNCHANGED job
    BY DEF MailNext, mailVars, thread, PushBack, NextBuffer, SaveImage, LockLast, OpenZip, ZipFile,
           Send, DeleteFile, RemoveDir
  <2> QED
    BY <2>1, <2>2, <2>3
<1>2. Sharing(m) \subseteq Sharing(m)'
  BY <1>1 DEF Sharing
<1>3. Few(m)' => Few(m)
  <2>1. /\ IsFiniteSet(Sharing(m)) /\ Cardinality(Sharing(m)) \in Nat
        /\ IsFiniteSet(Sharing(m)') /\ Cardinality(Sharing(m)') \in Nat
    BY BuffersAssumption, FS_Subset, FS_CardinalityType DEF Sharing
  <2>2. Cardinality(Sharing(m)) <= Cardinality(Sharing(m)')
    BY <1>2, <2>1, FS_Subset
  <2> QED
    BY <2>1, <2>2 DEF Few
<1> QED
  BY <1>2, <1>3 DEF Others

LEMMA ImagesFacts ==
  ASSUME NEW m, NEW B, NEW b
  PROVE  /\ ImagesOf(m, {}) = {}
         /\ ImagesOf(m, B \cup {b}) =
              ImagesOf(m, B) \cup ({b} \X (FirstImage(job[m].copy[b])..job[m].copy[b]))
         /\ job'[m] = job[m] => ImagesOf(m, B)' = ImagesOf(m, B)
  BY DEF ImagesOf, FirstImage

\* The parts that depend on what a thread itself does.
LEMMA SameNames ==
  ASSUME NEW m, Same(m)
  PROVE  /\ NamesOf(m)' = NamesOf(m) /\ Partial(m)' = Partial(m)
         /\ Shown(m)' = Shown(m) /\ Behind(m)' = Behind(m)
         /\ Missed(m) => Missed(m)'
         /\ Complete(m) => Complete(m)'
         /\ (\A B : ImagesOf(m, B)' = ImagesOf(m, B))
<1>1. Shown(m)' = Shown(m)
  BY SameShown DEF Same
<1>2. \A B : ImagesOf(m, B)' = ImagesOf(m, B)
  BY ImagesFacts DEF Same
<1>3. Partial(m)' = Partial(m)
  BY DEF Same, Partial, FirstImage
<1>4. NamesOf(m)' = NamesOf(m)
  BY DEF Same, NamesOf
<1>5. Missed(m) => Missed(m)'
  BY DEF Same, Missed
<1>6. Complete(m) => Complete(m)'
  BY <1>1, <1>2 DEF Complete, Same
<1> QED
  BY <1>1, <1>2, <1>3, <1>4, <1>5, <1>6 DEF Behind, Same

\* What the step of another thread must not do to the mail of m.
Undisturbed(m) ==
  /\ \A k \in Others(m) : /\ pc[k] \in Leaving => pc'[k] \in Leaving
                          /\ pc[k] = "done" => pc'[k] = "done"
  /\ \A i \in 1..Len(savedNames[m]) :
       Doomed(m) /\ savedNames[m][i] \notin files => savedNames[m][i] \notin files'
  /\ pc[m] = "save" /\ tmpIdDir[m] \notin dirs => tmpIdDir[m] \notin dirs'
  /\ pc[m] = "save" /\ tmpIdDir[m] \in dirs /\ tmpIdDir[m] \notin dirs' =>
       \E k \in Others(m) : pc'[k] = "done"

LEMMA PackedKept ==
  ASSUME NEW m \in MailThreads, Same(m), Packed(m), Few(m)' => Few(m)
  PROVE  Packed(m)'
<1>1. NamesOf(m)' = NamesOf(m) /\ (Complete(m) => Complete(m)')
  BY SameNames
<1>2. pc'[m] \in Keeping \cup {"unused"} => outcome'[m] = "none"
  BY DEF Packed, Same
<1>3. pc'[m] \in {"unused", "buffer", "save", "lock", "open"} => zipped'[m] = {}
  BY DEF Packed, Same
<1>4. pc'[m] = "zip" =>
        \A name \in zipped'[m] : \E i \in 1..(step'[m] - 1) : name = savedNames'[m][i].name
  BY DEF Packed, Same
<1>5. pc'[m] = "send" => zipped'[m] = NamesOf(m)'
  BY <1>1 DEF Packed, Same
<1>6. outcome'[m] = "sent" => zipped'[m] = NamesOf(m)' /\ (Few(m)' => Complete(m)')
  BY <1>1 DEF Packed, Same
<1> QED
  BY <1>2, <1>3, <1>4, <1>5, <1>6 DEF Packed, Keeping

LEMMA UndisturbedKept ==
  ASSUME NEW m \in MailThreads, Same(m), Undisturbed(m), Fate(m), Others(m) \subseteq Others(m)'
  PROVE  Fate(m)'
<1>1. NamesOf(m)' = NamesOf(m) /\ (Missed(m) => Missed(m)')
  BY SameNames
<1>2. pc'[m] = "save" /\ tmpIdDir'[m] \notin dirs' => \E k \in Others(m)' : pc'[k] = "done"
  BY DEF Fate, Undisturbed, Same
<1>3. Doomed(m) => Doomed(m)'
  BY DEF Doomed, Undisturbed, Same
<1>4. Whole(m) => Whole(m)'
  <2> SUFFICES ASSUME NEW B \in SUBSET Behind(m),
                      \/ NamesOf(m) = ImagesOf(m, B) \cup Partial(m)
                      \/ pc[m] = "save" /\ tmpIdDir[m] \notin dirs /\ NamesOf(m) = ImagesOf(m, B)
               PROVE  Whole(m)'
    BY DEF Whole
  <2> QED
    BY SameNames DEF Whole, Undisturbed, Same
<1>5. /\ pc'[m] \in Unpacked => Doomed(m)' \/ Missed(m)' \/ Whole(m)'
      /\ pc'[m] = "send" => Whole(m)'
  BY <1>1, <1>3, <1>4 DEF Fate, Same
<1> QED
  BY <1>2, <1>5 DEF Fate, Unpacked

-----------------------------------------------------------------------------
(* Each step, as another thread sees it. *)

LEMMA NextBufferUndisturbed ==
  ASSUME MailInv, NEW m \in MailThreads, NEW k \in MailThreads \ {m}, NextBuffer(k),
         Few(m), Fate(m)
  PROVE  Undisturbed(m)
<1> DEFINE d == job[k].copy[at[k]]
<1>1. /\ MailTypeOK /\ Jobs /\ pc[k] = "buffer"
      /\ files' = files /\ \A j \in MailThreads \ {k} : pc'[j] = pc[j]
  BY DEF MailInv, MailTypeOK, NextBuffer, Runs, Goto
<1>2. \A j \in Others(m) : /\ pc[j] \in Leaving => pc'[j] \in Leaving
                           /\ pc[j] = "done" => pc'[j] = "done"
  BY <1>1 DEF Others, Sharing, Leaving
<1>3. \/ dirs' = dirs
      \/ dirs' = dirs \cup {d} /\ d \in DirsOf(k)
  <2>1. CASE at[k] < Len(job[k].bufferIds) /\ at[k] \in Buffers /\ d # 0
    <3>1. at[k] \in Nat /\ Len(job[k].bufferIds) \in Nat /\ d \in Nat
      BY <1>1, <2>1, BufferFacts DEF MailTypeOK
    <3>2. at[k] \in Shown(k)
      BY <2>1, <3>1 DEF Shown
    <3>3. d \in DirsOf(k)
      BY <3>2 DEF DirsOf
    <3> QED
      BY <1>1, <3>3 DEF NextBuffer
  <2>2. CASE ~(at[k] < Len(job[k].bufferIds) /\ at[k] \in Buffers /\ d # 0)
    <3>1. at[k] \in Nat /\ Len(job[k].bufferIds) \in Nat
      BY <1>1, BufferFacts DEF MailTypeOK
    <3> QED
      BY <2>2, <3>1 DEF NextBuffer
  <2> QED
    BY <2>1, <2>2
<1>4. ASSUME pc[m] = "save", tmpIdDir[m] \notin dirs PROVE tmpIdDir[m] \notin dirs'
  <2>1. PICK j \in Others(m) : pc[j] = "done"
    BY <1>4 DEF Fate
  <2>2. tmpIdDir[m] \in DirsOf(m)
    BY <1>4 DEF MailInv, AllThreads, Place, DirsOf
  <2>3. tmpIdDir[m] \notin DirsOf(k)
    <3> SUFFICES ASSUME tmpIdDir[m] \in DirsOf(k) PROVE FALSE
      OBVIOUS
    <3>1. k \in Others(m)
      BY <2>2 DEF Others, Sharing
    <3> QED
      BY <1>1, <2>1, <3>1, OneOther
  <2> QED
    BY <1>3, <1>4, <2>3
<1> QED
  BY <1>1, <1>2, <1>3, <1>4 DEF Undisturbed

LEMMA SaveImageUndisturbed ==
  ASSUME MailInv, NEW m \in MailThreads, NEW k \in MailThreads \ {m}, SaveImage(k),
         Few(m), Fate(m)
  PROVE  Undisturbed(m)
<1>1. /\ MailTypeOK /\ Jobs /\ pc[k] = "save" /\ Place(k) /\ Saved(m)
      /\ dirs' = dirs /\ \A j \in MailThreads \ {k} : pc'[j] = pc[j]
  BY DEF MailInv, MailTypeOK, AllThreads, SaveImage, Runs, Goto
<1>2. \A j \in Others(m) : /\ pc[j] \in Leaving => pc'[j] \in Leaving
                           /\ pc[j] = "done" => pc'[j] = "done"
  BY <1>1 DEF Others, Sharing, Leaving
<1>3. ASSUME NEW i \in 1..Len(savedNames[m]), Doomed(m), savedNames[m][i] \notin files
      PROVE  savedNames[m][i] \notin files'
  <2> SUFFICES ASSUME savedNames[m][i] \in files' PROVE FALSE
    OBVIOUS
  <2>1. savedNames[m][i].dir = tmpIdDir[k]
    BY <1>3 DEF SaveImage
  <2>2. tmpIdDir[k] \in DirsOf(k)
    BY <1>1 DEF Place, DirsOf
  <2>3. savedNames[m][i].dir \in DirsOf(m)
    BY <1>1 DEF Saved, SavedFile, Passed, DirsOf
  <2>4. k \in Others(m)
    BY <2>1, <2>2, <2>3 DEF Others, Sharing
  <2>5. PICK j \in Others(m) : pc[j] \in Leaving
    BY <1>3 DEF Doomed
  <2>6. j = k
    BY <2>4, <2>5, OneOther
  <2> QED
    BY <1>1, <2>5, <2>6 DEF Leaving
<1> QED
  BY <1>1, <1>2, <1>3 DEF Undisturbed

LEMMA RemoveDirUndisturbed ==
  ASSUME MailInv, NEW m \in MailThreads, NEW k \in MailThreads \ {m}, RemoveDir(k)
  PROVE  Undisturbed(m)
<1>1. /\ MailTypeOK /\ Place(k) /\ pc[k] = "rmdir" /\ pc'[k] = "done"
      /\ files' = files /\ \A j \in MailThreads \ {k} : pc'[j] = pc[j]
      /\ dirs' \subseteq dirs /\ \A d \in dirs : d \in dirs' \/ d = tmpIdDir[k]
  BY DEF MailInv, MailTypeOK, AllThreads, RemoveDir, Runs, Goto
<1>2. \A j \in Others(m) : /\ pc[j] \in Leaving => pc'[j] \in Leaving
                           /\ pc[j] = "done" => pc'[j] = "done"
  BY <1>1 DEF Others, Sharing, Leaving
<1>3. ASSUME pc[m] = "save", tmpIdDir[m] \in dirs, tmpIdDir[m] \notin dirs'
      PROVE  \E j \in Others(m) : pc'[j] = "done"
  <2>1. tmpIdDir[m] \in DirsOf(m)
    BY <1>3 DEF MailInv, AllThreads, Place, DirsOf
  <2>2. tmpIdDir[m] \in DirsOf(k)
    BY <1>1, <1>3 DEF Place
  <2>3. k \in Others(m)
    BY <2>1, <2>2 DEF Others, Sharing
  <2> QED
    BY <1>1, <2>3
<1> QED
  BY <1>1, <1>2, <1>3 DEF Undisturbed

\* The other steps remove files at most.
LEMMA OtherStepsUndisturbed ==
  ASSUME MailInv, NEW m \in MailThreads, NEW k \in MailThreads \ {m},
         LockLast(k) \/ OpenZip(k) \/ ZipFile(k) \/ Send(k) \/ DeleteFile(k)
  PROVE  Undisturbed(m)
<1>1. /\ pc[k] \in {"delete", "rmdir", "done"} => pc'[k] \in {"delete", "rmdir"}
      /\ pc[k] # "done" /\ dirs' = dirs /\ files' \subseteq files
      /\ \A j \in MailThreads \ {k} : pc'[j] = pc[j]
  BY DEF MailInv, MailTypeOK, LockLast, OpenZip, ZipFile, Send, DeleteFile, Runs, Goto, disk
<1>2. \A j \in Others(m) : /\ pc[j] \in Leaving => pc'[j] \in Leaving
                           /\ pc[j] = "done" => pc'[j] = "done"
  BY <1>1 DEF Others, Sharing, Leaving
<1> QED
  BY <1>1, <1>2 DEF Undisturbed

\* The step of a thread, or of none, changes nothing of what another one is at.
LEMMA OthersSame ==
  ASSUME MailInv, NEW k \in MailThreads, NEW m \in MailThreads \ {k},
         \/ NextBuffer(k) \/ SaveImage(k) \/ LockLast(k) \/ OpenZip(k)
         \/ ZipFile(k) \/ Send(k) \/ DeleteFile(k) \/ RemoveDir(k)
  PROVE  Same(m)
<1>1. MailTypeOK /\ Jobs
  BY DEF MailInv
<1>2. NextBuffer(k) \/ SaveImage(k) => Same(m)
  BY <1>1 DEF MailTypeOK, Jobs, NextBuffer, SaveImage, Goto, Same
<1>3. LockLast(k) \/ OpenZip(k) \/ ZipFile(k) => Same(m)
  BY <1>1 DEF MailTypeOK, Jobs, LockLast, OpenZip, ZipFile, Goto, Same, disk
<1>4. Send(k) \/ DeleteFile(k) \/ RemoveDir(k) => Same(m)
  BY <1>1 DEF MailTypeOK, Jobs, Send, DeleteFile, RemoveDir, Goto, Same
<1> QED
  BY <1>2, <1>3, <1>4

-----------------------------------------------------------------------------
(* What its own steps do to a mail. *)

LEMMA NextBufferFate ==
  ASSUME WholeInv, NEW m \in MailThreads, NextBuffer(m), Sharing(m)' = Sharing(m)
  PROVE  Packed(m)' /\ (Few(m)' => Fate(m)')
<1>1. /\ MailTypeOK /\ Jobs /\ Packed(m) /\ pc[m] = "buffer"
      /\ Few(m)' = Few(m) /\ (Few(m) => Fate(m)) /\ Others(m)' = Others(m)
  BY DEF WholeInv, MailInv, NextBuffer, Runs, Few, Others
<1>2. /\ files' = files /\ job' = job /\ savedNames' = savedNames
      /\ zipped' = zipped /\ outcome' = outcome
      /\ pc'[m] \in {"lock", "buffer", "save"} /\ at'[m] \in {at[m], at[m] + 1}
      /\ pc'[m] = "save" => /\ step'[m] = FirstImage(job[m].copy[at[m]]) /\ at'[m] = at[m]
                            /\ at[m] \in Buffers /\ tmpIdDir'[m] \in dirs'
      /\ \A k \in MailThreads \ {m} : pc'[k] = pc[k]
  BY <1>1 DEF NextBuffer, Goto, MailTypeOK
<1>3. Packed(m)'
  <2>1. NamesOf(m)' = NamesOf(m)
    BY <1>2 DEF NamesOf
  <2> QED
    BY <1>1, <1>2, <2>1 DEF Packed, Keeping
<1>4. Doomed(m) => Doomed(m)'
  BY <1>1, <1>2 DEF Doomed, Others, Sharing
<1>5. Whole(m) => Whole(m)'
  <2> SUFFICES ASSUME NEW B \in SUBSET Behind(m), NamesOf(m) = ImagesOf(m, B) PROVE Whole(m)'
    BY <1>1 DEF Whole, Partial
  <2>1. Shown(m)' = Shown(m) /\ at[m] \in Nat
    BY <1>1, <1>2, SameShown DEF MailTypeOK
  <2>2. B \in SUBSET Behind(m)'
    BY <1>1, <1>2, <2>1, BufferFacts DEF Behind
  <2>3. Partial(m)' = {}
    <3>1. CASE pc'[m] = "save"
      <4>1. FirstImage(job[m].copy[at[m]]) \in Nat
        BY <1>1, <1>2, <3>1, BufferFacts
      <4>2. FirstImage(job'[m].copy[at'[m]])..(step'[m] - 1) = {}
        BY <1>2, <3>1, <4>1 DEF FirstImage
      <4>3. Partial(m)' = {at'[m]} \X {}
        BY <3>1, <4>2 DEF Partial, FirstImage
      <4> QED
        BY <4>3
    <3> QED
      BY <3>1 DEF Partial
  <2>4. NamesOf(m)' = NamesOf(m)
    BY <1>2 DEF NamesOf
  <2>5. ImagesOf(m, B)' = ImagesOf(m, B)
    BY <1>2 DEF ImagesOf, FirstImage
  <2> QED
    BY <2>2, <2>3, <2>4, <2>5 DEF Whole
<1> QED
  BY <1>1, <1>2, <1>3, <1>4, <1>5 DEF Fate, Unpacked, Missed

LEMMA SaveImageFate ==
  ASSUME WholeInv, NEW m \in MailThreads, SaveImage(m), Sharing(m)' = Sharing(m)
  PROVE  Packed(m)' /\ (Few(m)' => Fate(m)')
<1> DEFINE b == at[m]
           s == step[m]
           copy == job[m].copy
           first == FirstImage(copy[b])
           name == <<b, s>>
           file == [dir |-> tmpIdDir[m], name |-> name]
           there == tmpIdDir[m] \in dirs
           n == Len(savedNames[m])
<1>1. /\ MailTypeOK /\ Jobs /\ Packed(m) /\ pc[m] = "save" /\ Place(m) /\ Saved(m) /\ b \in Nat
      /\ Few(m)' = Few(m) /\ (Few(m) => Fate(m)) /\ Others(m)' = Others(m)
  BY DEF WholeInv, MailInv, AllThreads, MailTypeOK, SaveImage, Runs, Few, Others
<1>2. /\ dirs' = dirs /\ job' = job /\ tmpIdDir' = tmpIdDir
      /\ zipped' = zipped /\ outcome' = outcome
      /\ step'[m] = s + 1
      /\ s < copy[b] => at'[m] = b /\ pc'[m] = "save"
      /\ ~(s < copy[b]) => at'[m] = b + 1 /\ pc'[m] = "buffer"
      /\ there => files' = files \cup {file} /\ savedNames'[m] = Append(savedNames[m], file)
      /\ ~there => files' = files /\ savedNames'[m] = savedNames[m]
      /\ \A k \in MailThreads \ {m} : pc'[k] = pc[k]
  BY <1>1 DEF SaveImage, Goto, MailTypeOK, Jobs
<1>3. /\ b \in Shown(m) /\ tmpIdDir[m] = copy[b] /\ copy[b] \in Nat
      /\ first \in Nat /\ s \in first..copy[b]
  BY <1>1, BufferFacts DEF Place
<1>4. file \in File /\ savedNames[m] \in Seq(File) /\ n \in Nat
  <2>1. tmpIdDir[m] \in Nat
    BY <1>3
  <2> QED
    BY <1>1, <1>3, <2>1, BufferFacts DEF File
<1>5. /\ ~there => Len(savedNames'[m]) = n
      /\ \A i \in 1..n : savedNames'[m][i] = savedNames[m][i]
      /\ there => Len(savedNames'[m]) = n + 1 /\ savedNames'[m][n + 1] = file
  <2>1. /\ Append(savedNames[m], file) \in Seq(File)
        /\ Len(Append(savedNames[m], file)) = n + 1
        /\ \A i \in 1..n : Append(savedNames[m], file)[i] = savedNames[m][i]
        /\ Append(savedNames[m], file)[n + 1] = file
    BY <1>4, AppendProperties
  <2> QED
    BY <1>2, <1>4, <2>1
<1>6. pc'[m] \in {"save", "buffer"} /\ outcome'[m] = "none" /\ zipped'[m] = {}
  BY <1>1, <1>2 DEF Packed, Keeping
<1>7. Packed(m)'
  BY <1>6 DEF Packed
<1>8. NamesOf(m)' = IF there THEN NamesOf(m) \cup {name} ELSE NamesOf(m)
  <2>1. /\ NamesOf(m) = {savedNames[m][i].name : i \in 1..n}
        /\ NamesOf(m)' = {savedNames'[m][i].name : i \in 1..Len(savedNames'[m])}
    <3>1. savedNames'[m] \in Seq(File)
      BY <1>2, <1>4, AppendProperties
    <3> QED
      BY <1>4, <3>1, LenProperties DEF NamesOf
  <2>2. CASE there
    <3>1. 1..Len(savedNames'[m]) = (1..n) \cup {n + 1}
      BY <1>4, <1>5, <2>2
    <3>2. savedNames'[m][n + 1].name = name
      BY <1>5, <2>2
    <3>3. NamesOf(m)' = {savedNames'[m][i].name : i \in 1..n} \cup {savedNames'[m][n + 1].name}
      BY <2>1, <3>1
    <3>4. {savedNames'[m][i].name : i \in 1..n} = NamesOf(m)
      BY <1>5, <2>1
    <3> QED
      BY <2>2, <3>2, <3>3, <3>4
  <2>3. CASE ~there
    BY <1>2, <2>3 DEF NamesOf
  <2> QED
    BY <2>2, <2>3
<1>9. Few(m) => (Doomed(m) => Doomed(m)')
  <2> SUFFICES ASSUME Doomed(m) PROVE Doomed(m)'
    OBVIOUS
  <2>1. PICK i \in 1..n : savedNames[m][i] \notin files
    BY DEF Doomed
  <2>2. savedNames[m][i].name # name
    <3>1. Passed(m, savedNames[m][i].name)
      BY <1>1 DEF Saved, SavedFile
    <3> QED
      BY <1>1, <1>3, <3>1 DEF Passed
  <2>3. savedNames'[m][i] \notin files' /\ i \in 1..Len(savedNames'[m])
    BY <1>2, <1>4, <1>5, <2>1, <2>2
  <2>4. \E k \in Others(m)' : pc'[k] \in Leaving
    BY <1>1, <1>2 DEF Doomed, Others, Sharing
  <2> QED
    BY <1>6, <2>3, <2>4 DEF Doomed
<1>10. ASSUME Few(m), NEW B \in SUBSET Behind(m), ~there,
              NamesOf(m) = ImagesOf(m, B) \cup Partial(m), NamesOf(m) # ImagesOf(m, B)
       PROVE  Doomed(m)
  <2>1. PICK image \in Partial(m) : image \in NamesOf(m)
    BY <1>10
  <2>2. image[1] = b
    BY <1>1, <2>1 DEF Partial
  <2>3. PICK i \in 1..n : savedNames[m][i].name = image
    BY <1>4, <2>1, LenProperties DEF NamesOf
  <2>4. savedNames[m][i].dir = copy[b]
    BY <1>1, <2>2, <2>3 DEF Saved, SavedFile
  <2>5. savedNames[m][i] \notin files
    BY <1>1, <1>3, <1>10, <2>4 DEF MailTypeOK
  <2>6. \E k \in Others(m) : pc[k] = "done"
    BY <1>1, <1>10 DEF Fate
  <2> QED
    BY <1>1, <2>5, <2>6 DEF Doomed, Leaving
<1>11. ASSUME Few(m), Whole(m) PROVE Doomed(m) \/ Whole(m)'
  <2>1. PICK B \in SUBSET Behind(m) :
          \/ NamesOf(m) = ImagesOf(m, B) \cup Partial(m)
          \/ tmpIdDir[m] \notin dirs /\ NamesOf(m) = ImagesOf(m, B)
    BY <1>11 DEF Whole
  <2>2. /\ Shown(m)' = Shown(m) /\ Partial(m) = {b} \X (first..(s - 1))
        /\ \A C : ImagesOf(m, C)' = ImagesOf(m, C)
    BY <1>1, <1>2, SameShown, ImagesFacts DEF Partial
  <2>3. /\ Behind(m) \subseteq Behind(m)'
        /\ pc'[m] = "buffer" => b \in Behind(m)'
    BY <1>1, <1>2, <1>3, <2>2, BufferFacts DEF Behind
  <2>4. CASE ~there
    <3>1. CASE NamesOf(m) = ImagesOf(m, B)
      <4>1. pc'[m] = "buffer" => Partial(m)' = {}
        BY DEF Partial
      <4> QED
        BY <1>2, <1>6, <1>8, <2>2, <2>3, <2>4, <3>1, <4>1 DEF Whole
    <3> QED
      BY <1>10, <1>11, <2>1, <2>4, <3>1
  <2>5. CASE there
    <3>1. NamesOf(m)' = ImagesOf(m, B) \cup ({b} \X (first..s))
      <4>1. first..s = (first..(s - 1)) \cup {s}
        BY <1>3
      <4> QED
        BY <1>8, <2>1, <2>2, <2>5, <4>1
    <3>2. CASE s < copy[b]
      <4>1. Partial(m)' = {b} \X (first..s)
        <5>1. Partial(m)' = {at'[m]} \X (FirstImage(job'[m].copy[at'[m]])..(step'[m] - 1))
          BY <1>2, <3>2 DEF Partial, FirstImage
        <5>2. step'[m] - 1 = s
          BY <1>2, <1>3
        <5> QED
          BY <1>2, <3>2, <5>1, <5>2
      <4> QED
        BY <2>2, <2>3, <3>1, <4>1 DEF Whole
    <3>3. CASE ~(s < copy[b])
      <4>1. Partial(m)' = {} /\ s = copy[b]
        BY <1>2, <1>3, <3>3 DEF Partial
      <4>2. NamesOf(m)' = ImagesOf(m, B \cup {b})
        <5>1. ImagesOf(m, B \cup {b}) = ImagesOf(m, B) \cup ({b} \X (first..copy[b]))
          BY ImagesFacts
        <5> QED
          BY <3>1, <4>1, <5>1
      <4>3. B \cup {b} \in SUBSET Behind(m)'
        BY <1>2, <2>3, <3>3
      <4>4. \E C \in SUBSET Behind(m)' : NamesOf(m)' = ImagesOf(m, C)'
        BY <2>2, <4>2, <4>3
      <4> QED
        BY <4>1, <4>4 DEF Whole
    <3> QED
      BY <3>2, <3>3
  <2> QED
    BY <2>4, <2>5
<1>12. ASSUME Few(m) PROVE Fate(m)'
  <2>1. Fate(m) /\ (Doomed(m)' \/ Whole(m)')
    BY <1>1, <1>9, <1>11, <1>12 DEF Fate, Unpacked, Missed
  <2>2. pc'[m] = "save" /\ tmpIdDir'[m] \notin dirs' => \E k \in Others(m)' : pc'[k] = "done"
    BY <1>1, <1>2, <2>1 DEF Fate, Others, Sharing
  <2> QED
    BY <1>6, <2>1, <2>2 DEF Fate
<1> QED
  BY <1>1, <1>7, <1>12

LEMMA LockOpenFate ==
  ASSUME WholeInv, NEW m \in MailThreads, LockLast(m) \/ OpenZip(m), Sharing(m)' = Sharing(m)
  PROVE  Packed(m)' /\ (Few(m)' => Fate(m)')
<1>1. /\ MailTypeOK /\ Jobs /\ Packed(m) /\ pc[m] \in {"lock", "open"}
      /\ Few(m)' = Few(m) /\ (Few(m) => Fate(m)) /\ Others(m)' = Others(m)
      /\ Len(savedNames[m]) \in Nat
  BY BufferFacts DEF WholeInv, MailInv, LockLast, OpenZip, Runs, Few, Others
<1>2. /\ files' = files /\ job' = job /\ savedNames' = savedNames /\ at' = at
      /\ zipped' = zipped /\ outcome' = outcome
      /\ pc'[m] \in {"lock", "open", "zip", "unsent"} /\ (pc'[m] = "zip" => step'[m] = 1)
      /\ \A k \in MailThreads \ {m} : pc'[k] = pc[k]
  BY <1>1 DEF LockLast, OpenZip, Goto, MailTypeOK, disk
<1>3. NamesOf(m)' = NamesOf(m)
  BY <1>2 DEF NamesOf
<1>4. Packed(m)'
  BY <1>1, <1>2, <1>3 DEF Packed, Keeping
<1>5. Doomed(m) /\ pc'[m] # "unsent" => Doomed(m)'
  BY <1>1, <1>2 DEF Doomed, Others, Sharing
<1>6. Whole(m) => Whole(m)'
  <2> SUFFICES ASSUME NEW B \in SUBSET Behind(m), NamesOf(m) = ImagesOf(m, B) PROVE Whole(m)'
    BY <1>1 DEF Whole, Partial
  <2>1. Shown(m)' = Shown(m) /\ ImagesOf(m, B)' = ImagesOf(m, B)
    BY <1>2, SameShown, ImagesFacts
  <2>2. Behind(m)' = Behind(m) /\ Partial(m)' = {}
    BY <1>2, <2>1 DEF Behind, Partial
  <2> QED
    BY <1>3, <2>1, <2>2 DEF Whole
<1> QED
  BY <1>1, <1>2, <1>4, <1>5, <1>6 DEF Fate, Unpacked, Missed

\* A missing file is found missing when it is packed, and then the mail is not sent.
LEMMA ZipFileFate ==
  ASSUME WholeInv, NEW m \in MailThreads, ZipFile(m), Sharing(m)' = Sharing(m)
  PROVE  Packed(m)' /\ (Few(m)' => Fate(m)')
<1> DEFINE s == step[m]
           n == Len(savedNames[m])
<1>1. /\ MailTypeOK /\ Jobs /\ Packed(m) /\ pc[m] = "zip" /\ Saved(m)
      /\ Few(m)' = Few(m) /\ (Few(m) => Fate(m)) /\ Others(m)' = Others(m)
      /\ n \in Nat /\ s \in 1..n
  BY BufferFacts DEF WholeInv, MailInv, AllThreads, Place, ZipFile, Runs, Few, Others
<1>2. /\ files' = files /\ dirs' = dirs /\ job' = job /\ savedNames' = savedNames /\ at' = at
      /\ outcome' = outcome /\ zipped'[m] = ZippedNext(m)
      /\ \/ s < n /\ pc'[m] = "zip" /\ step'[m] = s + 1
         \/ s = n /\ pc'[m] = "send" /\ ZippedNext(m) = NamesOf(m)
         \/ s = n /\ pc'[m] = "unsent"
      /\ \A k \in MailThreads \ {m} : pc'[k] = pc[k]
  BY <1>1 DEF ZipFile, Goto, MailTypeOK, disk, Jobs
<1>3. NamesOf(m)' = NamesOf(m)
  BY <1>2 DEF NamesOf
<1>4. /\ \A name \in ZippedNext(m) : \E i \in 1..s : name = savedNames[m][i].name
      /\ zipped[m] \subseteq ZippedNext(m)
      /\ savedNames[m][s] \notin files => ZippedNext(m) = zipped[m]
  BY <1>1 DEF Packed, ZippedNext
<1>5. Packed(m)'
  BY <1>1, <1>2, <1>3, <1>4 DEF Packed, Keeping
<1>6. \A i \in 1..n : (s < i \/ (s = i /\ savedNames[m][i] \notin files)) =>
                        savedNames[m][i].name \notin ZippedNext(m)
  <2> SUFFICES ASSUME NEW i \in 1..n, s < i \/ (s = i /\ savedNames[m][i] \notin files),
                      savedNames[m][i].name \in ZippedNext(m)
               PROVE  FALSE
    OBVIOUS
  <2>1. PICK j \in 1..s : savedNames[m][i].name = savedNames[m][j].name
                          /\ (s = i => j \in 1..(s - 1))
    BY <1>1, <1>4 DEF Packed
  <2>2. j \in 1..n /\ i # j
    BY <1>1, <2>1
  <2> QED
    BY <1>1, <2>1, <2>2 DEF Saved
<1>7. ASSUME Doomed(m) PROVE Doomed(m)' \/ Missed(m)' \/ pc'[m] = "unsent"
  <2>1. PICK i \in 1..n : savedNames[m][i] \notin files /\ s <= i
    BY <1>1, <1>7 DEF Doomed
  <2>2. \E k \in Others(m)' : pc'[k] \in Leaving
    BY <1>1, <1>2, <1>7 DEF Doomed, Others, Sharing
  <2>3. CASE pc'[m] = "zip" /\ s < i
    BY <1>1, <1>2, <2>1, <2>2, <2>3 DEF Doomed
  <2>4. CASE pc'[m] = "zip" /\ s = i
    BY <1>1, <1>2, <1>6, <2>1, <2>4 DEF Missed
  <2>5. CASE pc'[m] = "send"
    <3>1. s = i /\ savedNames[m][i].name \notin ZippedNext(m)
      BY <1>1, <1>2, <1>6, <2>1, <2>5
    <3>2. savedNames[m][i].name \in NamesOf(m)
      BY <1>1, LenProperties, BufferFacts DEF NamesOf
    <3> QED
      BY <1>2, <2>5, <3>1, <3>2
  <2> QED
    BY <1>1, <1>2, <2>1, <2>3, <2>4, <2>5
<1>8. ASSUME Missed(m) PROVE Missed(m)' \/ pc'[m] = "unsent"
  <2>1. PICK i \in 1..(s - 1) : savedNames[m][i].name \notin zipped[m]
    BY <1>8 DEF Missed
  <2>2. i \in 1..n /\ i # s
    BY <1>1, <2>1
  <2>3. savedNames[m][i].name \notin ZippedNext(m)
    <3>1. savedNames[m][i].name # savedNames[m][s].name
      BY <1>1, <2>2 DEF Saved
    <3> QED
      BY <2>1, <3>1 DEF ZippedNext
  <2>4. savedNames[m][i].name \in NamesOf(m)
    BY <1>1, <2>2, LenProperties, BufferFacts DEF NamesOf
  <2>5. pc'[m] = "zip" => i \in 1..(step'[m] - 1)
    BY <1>1, <1>2, <2>1
  <2> QED
    BY <1>2, <2>3, <2>4, <2>5 DEF Missed
<1>9. Whole(m) => Whole(m)'
  <2> SUFFICES ASSUME NEW B \in SUBSET Behind(m), NamesOf(m) = ImagesOf(m, B) PROVE Whole(m)'
    BY <1>1 DEF Whole, Partial
  <2>1. Shown(m)' = Shown(m) /\ ImagesOf(m, B)' = ImagesOf(m, B)
    BY <1>2, SameShown, ImagesFacts
  <2>2. Behind(m)' = Behind(m) /\ Partial(m)' = {}
    BY <1>2, <2>1 DEF Behind, Partial
  <2> QED
    BY <1>3, <2>1, <2>2 DEF Whole
<1>10. ASSUME Few(m) PROVE Fate(m)'
  <2>1. Doomed(m) \/ Missed(m) \/ Whole(m)
    BY <1>1, <1>10 DEF Fate, Unpacked
  <2>2. pc'[m] = "send" => ~Doomed(m)' /\ ~Missed(m)'
    BY DEF Doomed, Missed
  <2> QED
    BY <1>2, <1>7, <1>8, <1>9, <2>1, <2>2 DEF Fate, Unpacked
<1> QED
  BY <1>1, <1>5, <1>10

LEMMA SendFate ==
  ASSUME WholeInv, NEW m \in MailThreads, Send(m), Sharing(m)' = Sharing(m)
  PROVE  Packed(m)' /\ (Few(m)' => Fate(m)')
<1>1. /\ MailTypeOK /\ Jobs /\ Packed(m) /\ pc[m] = "send" /\ savedNames[m] # <<>>
      /\ Few(m)' = Few(m) /\ (Few(m) => Fate(m))
  BY DEF WholeInv, MailInv, AllThreads, Place, Send, Runs, Few
<1>2. job' = job /\ savedNames' = savedNames /\ zipped' = zipped /\ pc'[m] = "delete"
  BY <1>1 DEF Send, Goto, MailTypeOK
<1>3. zipped[m] = NamesOf(m) /\ NamesOf(m)' = NamesOf(m)
  BY <1>1, <1>2 DEF Packed, NamesOf
<1>4. Few(m) => Complete(m)'
  <2> SUFFICES ASSUME Few(m) PROVE Complete(m)'
    OBVIOUS
  <2>1. PICK B \in SUBSET Behind(m) : NamesOf(m) = ImagesOf(m, B)
    BY <1>1 DEF Fate, Whole, Partial
  <2>2. NamesOf(m) # {}
    <3>1. 1 \in 1..Len(savedNames[m]) /\ DOMAIN savedNames[m] = 1..Len(savedNames[m])
      <4>1. savedNames[m] \in Seq(File)
        BY <1>1, BufferFacts
      <4> QED
        BY <1>1, <4>1, EmptySeq, LenProperties
    <3>2. savedNames[m][1].name \in NamesOf(m)
      BY <3>1 DEF NamesOf
    <3> QED
      BY <3>2
  <2>3. B # {}
    BY <2>1, <2>2, ImagesFacts
  <2>4. Shown(m)' = Shown(m) /\ ImagesOf(m, B)' = ImagesOf(m, B) /\ B \subseteq Shown(m)
    BY <1>2, SameShown, ImagesFacts DEF Behind
  <2>5. B \in (SUBSET Shown(m)') \ {{}} /\ zipped'[m] = ImagesOf(m, B)'
    BY <1>2, <1>3, <2>1, <2>3, <2>4
  <2> QED
    BY <2>5 DEF Complete
<1>5. Packed(m)'
  BY <1>1, <1>2, <1>3, <1>4 DEF Packed, Keeping
<1> QED
  BY <1>2, <1>5 DEF Fate, Unpacked

LEMMA CleaningFate ==
  ASSUME WholeInv, NEW m \in MailThreads, DeleteFile(m) \/ RemoveDir(m), Sharing(m)' = Sharing(m)
  PROVE  Packed(m)' /\ (Few(m)' => Fate(m)')
<1>1. MailTypeOK /\ Jobs /\ Packed(m) /\ Few(m)' = Few(m)
  BY DEF WholeInv, MailInv, Few
<1>2. /\ job' = job /\ savedNames' = savedNames /\ zipped' = zipped /\ outcome' = outcome
      /\ pc'[m] \in Leaving
  BY <1>1 DEF DeleteFile, RemoveDir, Runs, Goto, MailTypeOK, Leaving
<1>3. NamesOf(m)' = NamesOf(m)
  BY <1>2 DEF NamesOf
<1>4. Complete(m) => Complete(m)'
  <2>1. Shown(m)' = Shown(m) /\ \A B : ImagesOf(m, B)' = ImagesOf(m, B)
    BY <1>2, SameShown, ImagesFacts
  <2> QED
    BY <1>2, <2>1 DEF Complete
<1>5. Packed(m)'
  BY <1>1, <1>2, <1>3, <1>4 DEF Packed, Keeping, Leaving
<1> QED
  BY <1>2, <1>5 DEF Fate, Unpacked, Leaving

-----------------------------------------------------------------------------
LEMMA StartFate ==
  ASSUME WholeInv, Start, NEW m \in MailThreads,
         Others(m) \subseteq Others(m)', Few(m)' => Few(m)
  PROVE  Packed(m)' /\ (Few(m)' => Fate(m)')
<1>1. /\ MailTypeOK /\ Jobs /\ Packed(m) /\ (Few(m) => Fate(m))
      /\ UNCHANGED <<newest, dirs, files, archives, at, step, tmpIdDir, savedNames, zipped,
                     outcome, crashed>>
      /\ \A k \in MailThreads : Same(k) \/ (pc[k] = "unused" /\ pc'[k] = "buffer")
  BY StartFacts DEF WholeInv, MailInv
<1>2. CASE Same(m)
  <2>1. \A k \in Others(m) : pc[k] = "unused" => FALSE
    <3> SUFFICES ASSUME NEW k \in Others(m), pc[k] = "unused" PROVE FALSE
      OBVIOUS
    <3>1. k \in MailThreads /\ DirsOf(k) # {}
      BY DEF Others, Sharing
    <3>2. job[k].bufferIds = <<>>
      BY <1>1, <3>1 DEF Jobs
    <3> QED
      BY <3>1, <3>2 DEF DirsOf, Shown
  <2>2. \A k \in Others(m) : pc'[k] = pc[k]
    BY <1>1, <2>1 DEF Others, Sharing, Same
  <2>3. Undisturbed(m)
    BY <1>1, <2>2 DEF Undisturbed
  <2> QED
    BY <1>1, <1>2, <2>3, PackedKept, UndisturbedKept
<1>3. CASE pc[m] = "unused" /\ pc'[m] = "buffer"
  <2>1. savedNames[m] = <<>> /\ zipped[m] = {} /\ outcome[m] = "none"
    BY <1>1, <1>3 DEF Jobs, Packed
  <2>2. Packed(m)'
    BY <1>1, <1>3, <2>1 DEF Packed
  <2>3. NamesOf(m)' = {} /\ Partial(m)' = {}
    BY <1>1, <1>3, <2>1 DEF NamesOf, Partial
  <2>4. ImagesOf(m, {})' = {}
    BY DEF ImagesOf
  <2>5. Whole(m)'
    BY <2>3, <2>4 DEF Whole
  <2> QED
    BY <1>3, <2>2, <2>5 DEF Fate
<1> QED
  BY <1>1, <1>2, <1>3

LEMMA WholeStep == WholeInv /\ [MailNext]_mailVars => WholeInv'
<1> SUFFICES ASSUME WholeInv, [MailNext]_mailVars PROVE WholeInv'
  OBVIOUS
<1>1. MailInv /\ MailInv'
  BY StepKeeps DEF WholeInv
<1>2. SUFFICES ASSUME NEW m \in MailThreads PROVE Packed(m)' /\ (Few(m)' => Fate(m)')
  BY <1>1 DEF WholeInv
<1>3. Packed(m) /\ (Few(m) => Fate(m))
  BY DEF WholeInv
<1>4. Sharing(m) \subseteq Sharing(m)' /\ Others(m) \subseteq Others(m)' /\ (Few(m)' => Few(m))
  BY <1>1, SharingGrows
<1>5. CASE Start
  BY <1>4, <1>5, StartFate
<1>6. CASE UNCHANGED <<dirs, files, archives, job, pc, at, step, tmpIdDir, savedNames, zipped,
                       outcome>>
  <2>1. Same(m) /\ Undisturbed(m)
    BY <1>6 DEF Same, Undisturbed
  <2> QED
    BY <1>3, <1>4, <2>1, PackedKept, UndisturbedKept
<1>7. ASSUME NEW k \in MailThreads,
             \/ NextBuffer(k) \/ SaveImage(k) \/ LockLast(k) \/ OpenZip(k)
             \/ ZipFile(k) \/ Send(k) \/ DeleteFile(k) \/ RemoveDir(k)
      PROVE  Packed(m)' /\ (Few(m)' => Fate(m)')
  <2>1. CASE k # m
    <3>1. Same(m)
      BY <1>1, <1>7, <2>1, OthersSame
    <3>2. Packed(m)'
      BY <1>3, <1>4, <3>1, PackedKept
    <3>3. ASSUME Few(m) PROVE Fate(m)'
      <4>1. Undisturbed(m)
        BY <1>1, <1>3, <1>7, <2>1, <3>3, NextBufferUndisturbed, SaveImageUndisturbed,
           RemoveDirUndisturbed, OtherStepsUndisturbed
      <4> QED
        BY <1>3, <1>4, <3>1, <3>3, <4>1, UndisturbedKept
    <3> QED
      BY <1>4, <3>2, <3>3
  <2>2. CASE k = m
    <3>1. job' = job
      BY <1>7 DEF NextBuffer, SaveImage, LockLast, OpenZip, ZipFile, Send, DeleteFile, RemoveDir
    <3>2. \A j \in MailThreads : DirsOf(j)' = DirsOf(j)
      BY <3>1, SameShown
    <3>3. Sharing(m)' = Sharing(m)
      BY <3>2 DEF Sharing
    <3> QED
      BY <1>7, <2>2, <3>3, NextBufferFate, SaveImageFate, LockOpenFate, ZipFileFate, SendFate,
         CleaningFate
  <2> QED
    BY <2>1, <2>2
<1> QED
  BY <1>5, <1>6, <1>7 DEF MailNext, PushBack, mailVars, disk, thread

LEMMA WholeInit == MailInit => WholeInv
<1> SUFFICES ASSUME MailInit, NEW m \in MailThreads PROVE Packed(m) /\ Fate(m)
  BY InitHolds DEF WholeInv
<1>1. pc[m] = "unused" /\ zipped[m] = {} /\ outcome[m] = "none"
  BY DEF MailInit
<1> QED
  BY <1>1 DEF Packed, Fate, Unpacked

\* A mail that is sent shows what its thread has saved, and if at most one other thread works
\* in its directories, all the images of some of its buffers: a file the other one has deleted
\* makes createZipFile fail, and a directory it has removed stays away until the buffer is
\* passed (addFilesAndSaveStatic, createZipFile).
THEOREM MailsSentWhole == MailSpec => []MailsComplete
<1>1. WholeInv => MailsComplete
  <2> SUFFICES ASSUME WholeInv PROVE MailsComplete
    OBVIOUS
  <2>1. MailTypeOK
    BY DEF WholeInv, MailInv
  <2>2. \A m \in MailThreads : outcome[m] = "sent" =>
          /\ zipped[m] = NamesOf(m)
          /\ Cardinality(Sharing(m)) <= 2 =>
               \E buffers \in (SUBSET Shown(m)) \ {{}} : zipped[m] = ImagesOf(m, buffers)
    BY DEF WholeInv, Packed, Few, Complete
  <2> QED
    BY <2>1, <2>2 DEF MailsComplete
<1> QED
  BY <1>1, WholeInit, WholeStep, PTL DEF MailSpec
=============================================================================
