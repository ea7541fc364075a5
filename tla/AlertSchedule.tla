---------------------------- MODULE AlertSchedule ----------------------------
(***************************************************************************)
(* When alerts become messages: the rate limits of CSMTPAlert (mail) and   *)
(* CTelegramAlertNotification, driven by the threads that run algorithm    *)
(* and text passes.                                                        *)
(*                                                                         *)
(* A pass calls CCommonAlert, which calls every notifier of its list.  A   *)
(* notifier is a plain object without a lock: a Telegram notifier is one   *)
(* for the whole process, a mail notifier belongs to a camera or to a      *)
(* network client, whose algorithm thread and text handler share it.  So a *)
(* handler is two steps: the decision, which reads the notifier, and the   *)
(* sending, which updates it; other threads may run in between.  Only the  *)
(* time of the last forced mail, common to all notifiers, has a mutex,     *)
(* taken after the decision.                                               *)
(*                                                                         *)
(* The clock counts seconds since the notifiers were constructed.          *)
(***************************************************************************)
EXTENDS Integers, Sequences, FiniteSets

CONSTANTS
  Threads,                 \* threads that run passes
  TextThreads,             \* those that run text passes (doTextAlgo)
  Notifiers,
  Mails,                   \* the notifiers that repeat and force (CSMTPAlert)
  List,                    \* List[p]: mAlertList of the CCommonAlert thread p uses
  Nobody,                  \* the mutex is free
  MinIntervalRepeatSend, ReplyDiffTime, ReplyCount, FirstTimeSkip, ForceSendInterval,
  MaxStall,                \* seconds between a decision and its sending, at most
  MaxTime                  \* bound of the clock

ASSUME ConfigAssumption ==
  /\ {MinIntervalRepeatSend, ReplyDiffTime, ReplyCount, FirstTimeSkip, ForceSendInterval,
      MaxStall, MaxTime} \subseteq Nat
  /\ MinIntervalRepeatSend + MaxStall <= ForceSendInterval

ASSUME ThreadsAssumption ==
  /\ IsFiniteSet(Threads)
  /\ TextThreads \subseteq Threads
  /\ Mails \subseteq Notifiers
  /\ List \in [Threads -> Seq(Notifiers)]
  /\ Nobody \notin Threads

VARIABLES
  now,            \* CDateTime::getSecondsSinceEpoch
  calls,          \* calls[p]: handler calls the pass of p still has to make
  decided,        \* decided[p]: what the handler p is in has decided to do
  seen,           \* seen[p]: the clock when it decided (currentTime), else 0
  mLastSendTime, mIsFirstTime, mLastAlgoName, mReplyId,   \* fields of a notifier
  sLastForceSendTime,
  forceOwner,     \* holder of sMutexUpdateForceSetTime
  alertSent,      \* history: alertSent[p][n], last alert p sent through n
  forceSent       \* history: last mail p forced

notifier == <<mLastSendTime, mIsFirstTime, mLastAlgoName, mReplyId>>
force == <<sLastForceSendTime, forceOwner>>
sent == <<alertSent, forceSent>>
vars == <<now, calls, decided, seen, notifier, force, sent>>

Handlers == {"alert", "force", "reply"}
Decisions == {"none", "alert", "force", "forceLocked", "reply"}

Op(p) == Head(calls[p]).op
Target(p) == Head(calls[p]).of
In(p, op) == calls[p] # <<>> /\ Op(p) = op /\ decided[p] = "none"
Decide(p, what) ==
  /\ decided' = [decided EXCEPT ![p] = what]
  /\ seen' = [seen EXCEPT ![p] = now]
  /\ UNCHANGED calls
Return(p) ==
  /\ calls' = [calls EXCEPT ![p] = Tail(@)]
  /\ decided' = [decided EXCEPT ![p] = "none"]
  /\ seen' = [seen EXCEPT ![p] = 0]

-----------------------------------------------------------------------------
(* A pass: the calls it makes, in their order. *)

CallAll(p, op) == [i \in 1..Len(List[p]) |-> [op |-> op, of |-> List[p][i]]]
ReplyAndForce(p) == CallAll(p, "force") \o CallAll(p, "reply")

\* An algorithm pass calls checkAndSendReplyAndForce whatever it found, a text
\* pass only when no condition holds.
Pass(p) ==
  /\ calls[p] = <<>>
  /\ \E found \in BOOLEAN :
       calls' = [calls EXCEPT ![p] =
                   IF ~found THEN ReplyAndForce(p)
                   ELSE IF p \in TextThreads THEN CallAll(p, "alert")
                   ELSE CallAll(p, "alert") \o ReplyAndForce(p)]
  /\ UNCHANGED <<now, decided, seen, notifier, force, sent>>

-----------------------------------------------------------------------------
(* onAlert of CSMTPAlert and of CTelegramAlertNotification. *)

AlertCheck(p) ==
  LET n == Target(p)
      diffTime == now - mLastSendTime[n]
      first == mIsFirstTime[n] /\ diffTime <= FirstTimeSkip
  IN  /\ In(p, "alert")
      /\ mIsFirstTime' = [mIsFirstTime EXCEPT ![n] = first]
      /\ IF diffTime > MinIntervalRepeatSend /\ ~first THEN Decide(p, "alert") ELSE Return(p)
      /\ UNCHANGED <<now, mLastSendTime, mLastAlgoName, mReplyId, force, sent>>

\* Mutant of AlertSend: the interval is not restarted.
AlertKeepTime(p) ==
  /\ decided[p] = "alert"
  /\ mLastAlgoName' = [mLastAlgoName EXCEPT ![Target(p)] = TRUE]
  /\ mReplyId' = [mReplyId EXCEPT ![Target(p)] = 0]
  /\ alertSent' = [alertSent EXCEPT ![p][Target(p)] = now]
  /\ Return(p)
  /\ UNCHANGED <<now, mLastSendTime, mIsFirstTime, force, forceSent>>

AlertSend(p) ==
  /\ decided[p] = "alert"
  /\ mLastSendTime' = [mLastSendTime EXCEPT ![Target(p)] = now]
  /\ mLastAlgoName' = [mLastAlgoName EXCEPT ![Target(p)] = TRUE]
  /\ mReplyId' = [mReplyId EXCEPT ![Target(p)] = 0]
  /\ alertSent' = [alertSent EXCEPT ![p][Target(p)] = now]
  /\ Return(p)
  /\ UNCHANGED <<now, mIsFirstTime, force, forceSent>>

-----------------------------------------------------------------------------
(* checkAndSendForce of CSMTPAlert: a mail even if nothing happens, one for all. *)

\* The other notifiers inherit IAlert's, which does nothing.
ForceCheck(p) ==
  /\ In(p, "force")
  /\ IF Target(p) \in Mails /\ now - sLastForceSendTime > ForceSendInterval
        /\ ForceSendInterval > 0
       THEN Decide(p, "force") ELSE Return(p)
  /\ UNCHANGED <<now, notifier, force, sent>>

\* try_lock, then the first of the two assignments of sLastForceSendTime.
ForceLock(p) ==
  /\ decided[p] = "force"
  /\ forceOwner = Nobody
  /\ forceOwner' = p
  /\ sLastForceSendTime' = seen[p] - MinIntervalRepeatSend
  /\ decided' = [decided EXCEPT ![p] = "forceLocked"]
  /\ UNCHANGED <<now, calls, seen, notifier, sent>>

ForceGiveUp(p) ==
  /\ decided[p] = "force"
  /\ forceOwner # Nobody
  /\ Return(p)
  /\ UNCHANGED <<now, notifier, force, sent>>

\* Mutant of ForceSend: the second assignment is left out.
ForceKeepTime(p) ==
  /\ decided[p] = "forceLocked"
  /\ forceOwner' = Nobody
  /\ forceSent' = [forceSent EXCEPT ![p] = now]
  /\ Return(p)
  /\ UNCHANGED <<now, notifier, sLastForceSendTime, alertSent>>

ForceSend(p) ==
  /\ decided[p] = "forceLocked"
  /\ sLastForceSendTime' = now
  /\ forceOwner' = Nobody
  /\ forceSent' = [forceSent EXCEPT ![p] = now]
  /\ Return(p)
  /\ UNCHANGED <<now, notifier, alertSent>>

-----------------------------------------------------------------------------
(* checkAndSendReply: an alert is repeated ReplyCount times. *)

\* Mutant of ReplyDue: an alert too many.
ReplyOneMore(n) ==
  /\ mLastAlgoName[n]
  /\ ReplyDiffTime > 0
  /\ ReplyCount > 0
  /\ mReplyId[n] <= ReplyCount
  /\ now - mLastSendTime[n] > ReplyDiffTime * (mReplyId[n] + 1)

ReplyDue(n) ==
  /\ mLastAlgoName[n]
  /\ ReplyDiffTime > 0
  /\ ReplyCount > 0
  /\ mReplyId[n] < ReplyCount
  /\ now - mLastSendTime[n] > ReplyDiffTime * (mReplyId[n] + 1)

ReplyCheck(p) ==
  /\ In(p, "reply")
  /\ IF Target(p) \in Mails /\ ReplyDue(Target(p)) THEN Decide(p, "reply") ELSE Return(p)
  /\ UNCHANGED <<now, notifier, force, sent>>

ReplySend(p) ==
  /\ decided[p] = "reply"
  /\ mReplyId' = [mReplyId EXCEPT ![Target(p)] = @ + 1]
  /\ Return(p)
  /\ UNCHANGED <<now, mLastSendTime, mIsFirstTime, mLastAlgoName, force, sent>>

-----------------------------------------------------------------------------
Tick ==
  /\ now < MaxTime
  /\ \A p \in Threads : decided[p] # "none" => now - seen[p] < MaxStall
  /\ now' = now + 1
  /\ UNCHANGED <<calls, decided, seen, notifier, force, sent>>

Init ==
  /\ now = 0
  /\ calls = [p \in Threads |-> <<>>]
  /\ decided = [p \in Threads |-> "none"]
  /\ seen = [p \in Threads |-> 0]
  /\ mLastSendTime = [n \in Notifiers |-> 0]
  /\ mIsFirstTime = [n \in Notifiers |-> TRUE]
  /\ mLastAlgoName = [n \in Notifiers |-> FALSE]
  /\ mReplyId = [n \in Notifiers |-> 0]
  /\ sLastForceSendTime = 0
  /\ forceOwner = Nobody
  /\ alertSent = [p \in Threads |-> [n \in Notifiers |-> 0]]
  /\ forceSent = [p \in Threads |-> 0]

Next ==
  \/ Tick
  \/ \E p \in Threads :
       \/ Pass(p)
       \/ AlertCheck(p) \/ AlertSend(p)
       \/ ForceCheck(p) \/ ForceLock(p) \/ ForceGiveUp(p) \/ ForceSend(p)
       \/ ReplyCheck(p) \/ ReplySend(p)

Spec == Init /\ [][Next]_vars

-----------------------------------------------------------------------------
Call == [op : Handlers, of : Notifiers]

TypeOK ==
  /\ now \in 0..MaxTime
  /\ calls \in [Threads -> Seq(Call)]
  /\ decided \in [Threads -> Decisions]
  /\ \A p \in Threads : decided[p] # "none" => calls[p] # <<>>
  /\ seen \in [Threads -> 0..MaxTime]
  /\ mLastSendTime \in [Notifiers -> 0..MaxTime]
  /\ mIsFirstTime \in [Notifiers -> BOOLEAN]
  /\ mLastAlgoName \in [Notifiers -> BOOLEAN]
  /\ mReplyId \in [Notifiers -> Nat]
  /\ sLastForceSendTime \in Int
  /\ forceOwner \in Threads \cup {Nobody}
  /\ alertSent \in [Threads -> [Notifiers -> 0..MaxTime]]
  /\ forceSent \in [Threads -> 0..MaxTime]

Users(n) == {p \in Threads : \E i \in DOMAIN List[p] : List[p][i] = n}

-----------------------------------------------------------------------------
(* Properties. *)

\* However the threads that share a notifier interleave, one of them never sends
\* two alerts through it within MinIntervalRepeatSend seconds: the limit can be
\* exceeded only by a factor of the number of threads. Nor does one repeat an alert it
\* has sent itself within ReplyDiffTime seconds, or before there was one, although another
\* thread may have reset the notifier; and "skip N first second (don't send alert messages)".
AlertsSpaced ==
  [][\A p \in Threads :
       /\ AlertSend(p) => /\ now - alertSent[p][Target(p)] > MinIntervalRepeatSend
                          /\ now > FirstTimeSkip
       /\ ReplySend(p) => /\ mLastAlgoName[Target(p)]
                          /\ now - alertSent[p][Target(p)] > ReplyDiffTime]_vars

\* An alert is repeated at most ReplyCount times, and once more by each further
\* thread that shares the notifier.
RepliesBounded ==
  /\ TypeOK
  /\ \A n \in Notifiers :
       mReplyId[n] <= ReplyCount + (IF Cardinality(Users(n)) > 1
                                      THEN Cardinality(Users(n)) - 1 ELSE 0)

\* The unlocked decision lets several threads force a mail at the same time, but
\* no thread forces two within ForceSendInterval seconds, although another one
\* may store a time of the past (the first assignment) in between.
ForcedSpaced ==
  [][\A p \in Threads : ForceSend(p) => now - forceSent[p] > ForceSendInterval]_vars
=============================================================================
