-------------------------- MODULE NetReceiverProofs --------------------------
(***************************************************************************)
(* Proofs about NetReceiver: the client never falls silent, for any        *)
(* intervals of its timers, any bounds of its counters and any number of   *)
(* faults of the network.                                                  *)
(***************************************************************************)
EXTENDS NetReceiver, SequenceTheorems, TLAPS

\* The periodic timer runs, or nothing was ever asked and one of the timers of the
\* reconnection runs.
Watched ==
  \/ Armed("answer")
  \/ /\ asked = 0 /\ unsent = 0 /\ ~Armed("request")
     /\ Armed("increase") \/ Armed("error") \/ Armed("connect")

IInv == TypeOK /\ Watched

-----------------------------------------------------------------------------
\* Every interval is positive: a timer that was started runs.
LEMMA Intervals == \A t \in Timers : Interval[t] \in Nat /\ Interval[t] # Off
<1> SUFFICES ASSUME NEW t \in Timers PROVE Interval[t] \in Nat /\ Interval[t] # Off
  OBVIOUS
<1>1. /\ TimeOut \in Nat \ {0} /\ SleepTime \in Nat \ {0} /\ ErrorTimeOut \in Nat \ {0}
      /\ ConnectTime \in Nat \ {0}
  BY IntervalsAssumption
<1> QED
  BY <1>1 DEF Timers, Interval, Off

\* What starting and stopping timers does to each of them.
LEMMA SetFacts ==
  ASSUME TypeOK, NEW Changed, NEW On, timer' = Set(Changed, On)
  PROVE  /\ timer' \in [Timers -> Nat \cup {Off}]
         /\ \A t \in Timers :
              Armed(t)' <=> t \in On \/ (t \notin Changed /\ Armed(t))
<1>1. \A t \in Timers : timer'[t] = IF t \in On THEN Interval[t]
                                    ELSE IF t \in Changed THEN Off ELSE timer[t]
  BY DEF Set
<1>2. timer' \in [Timers -> Nat \cup {Off}]
  BY Intervals DEF TypeOK, Set
<1> QED
  BY <1>1, <1>2, Intervals DEF Armed

LEMMA AtMostType ==
  ASSUME NEW bound \in Nat, NEW n \in Nat
  PROVE  AtMost(bound, n) \in 0..bound
  BY DEF AtMost

LEMMA Bounds ==
  /\ MaxErrors \in Nat \ {0} /\ MaxSlots \in Nat \ {0} /\ BufferSize \in Nat /\ MaxPending \in Nat
  /\ MaxClear \in Nat /\ MaxFaults \in Nat
  BY IntervalsAssumption

\* n requests more that are to be written.
LEMMA SendType ==
  ASSUME TypeOK, NEW n \in Nat, Send(n)
  PROVE  unsent' \in 0..MaxPending
<1>1. unsent + n \in Nat /\ MaxPending \in Nat
  BY Bounds DEF TypeOK
<1>2. AtMost(MaxPending, unsent + n) \in 0..MaxPending
  BY <1>1, AtMostType
<1> QED
  BY <1>1, <1>2 DEF Send

-----------------------------------------------------------------------------
LEMMA IInvInit == Init => IInv
<1> SUFFICES ASSUME Init PROVE IInv
  OBVIOUS
<1>1. timer \in [Timers -> Nat \cup {Off}]
  BY IntervalsAssumption DEF Init
<1>2. timer["connect"] = ConnectTime /\ timer["request"] = Off
  BY DEF Init, Timers
<1>3. TypeOK
  <2>1. <<>> \in Seq(Ids \cup {NoId})
    BY EmptySeq
  <2> QED
    BY <1>1, <2>1, Bounds DEF Init, TypeOK
<1>4. Watched
  BY <1>2, IntervalsAssumption DEF Init, Watched, Armed, Off
<1> QED
  BY <1>3, <1>4 DEF IInv

LEMMA IInvNext == IInv /\ [Next]_vars => IInv'
<1> SUFFICES ASSUME IInv, [Next]_vars PROVE IInv'
  OBVIOUS
<1>1. TypeOK /\ Watched
  BY DEF IInv
<1>2. {"answer", "increase", "error", "request", "connect"} = Timers
  BY DEF Timers
<1>3. CASE Receive
  <2>1. /\ timer' = Set({}, {"answer", "request"})
        /\ answers' = Tail(answers) /\ answers # <<>> /\ mErrorNumber' = 0
        /\ mLastId' \in {mLastId, Head(answers)}
        /\ Head(answers) \in Ids \/ mLastId' = mLastId
        /\ buffered' \in {buffered, AtMost(BufferSize, buffered + 1)}
        /\ UNCHANGED <<mClearCount, slots, conn, unsent, asked, faults>>
    BY <1>3 DEF Receive
  <2>2. Tail(answers) \in Seq(Ids \cup {NoId})
    BY <1>1, <2>1, HeadTailProperties DEF TypeOK
  <2>3. buffered' \in 0..BufferSize
    <3>1. buffered \in 0..BufferSize /\ buffered + 1 \in Nat /\ BufferSize \in Nat
      BY <1>1, Bounds DEF TypeOK
    <3>2. AtMost(BufferSize, buffered + 1) \in 0..BufferSize
      BY <3>1, AtMostType
    <3> QED
      BY <2>1, <3>1, <3>2
  <2>4. timer' \in [Timers -> Nat \cup {Off}] /\ Armed("answer")'
    BY <1>1, <1>2, <2>1, SetFacts
  <2> QED
    BY <1>1, <2>1, <2>2, <2>3, <2>4, Bounds DEF IInv, TypeOK, Watched
<1>4. CASE Write
  <2>1. /\ timer' = Set({}, {"answer"}) /\ unsent' = 0 /\ unsent > 0
        /\ asked' = AtMost(MaxPending, asked + unsent)
        /\ UNCHANGED <<worker, conn, answers, faults>>
    BY <1>4 DEF Write
  <2>2. asked' \in 0..MaxPending
    <3>1. asked + unsent \in Nat /\ MaxPending \in Nat
      BY <1>1, Bounds DEF TypeOK
    <3> QED
      BY <2>1, <3>1, AtMostType
  <2>3. timer' \in [Timers -> Nat \cup {Off}] /\ Armed("answer")'
    BY <1>1, <1>2, <2>1, SetFacts
  <2> QED
    BY <1>1, <2>1, <2>2, <2>3, Bounds DEF IInv, TypeOK, Watched, worker
<1>5. CASE TimerTimeout
  <2>1. timer' = Set({}, {"answer", "increase"}) /\ UNCHANGED <<worker, net, faults>>
    BY <1>5 DEF TimerTimeout
  <2>2. timer' \in [Timers -> Nat \cup {Off}] /\ Armed("answer")'
    BY <1>1, <1>2, <2>1, SetFacts
  <2> QED
    BY <1>1, <2>1, <2>2 DEF IInv, TypeOK, Watched, worker, net
<1>6. CASE IncreaseErrorCount
  <2>1. UNCHANGED <<mLastId, slots, conn, asked, answers, faults>>
    BY <1>6 DEF IncreaseErrorCount
  <2>2. CASE mErrorNumber + 1 >= MaxErrors
    <3>1. /\ timer' = Set({"increase"}, {"error"}) /\ mErrorNumber' = 0 /\ unsent' = unsent
          /\ buffered' = 0 \/ buffered' = buffered
          /\ mClearCount' = 0 \/ (~(mClearCount >= MaxClear) /\ mClearCount' = mClearCount + 1)
      BY <1>6, <2>2 DEF IncreaseErrorCount
    <3>2. /\ timer' \in [Timers -> Nat \cup {Off}] /\ Armed("error")'
          /\ Armed("answer") => Armed("answer")'
          /\ Armed("request")' => Armed("request")
      BY <1>1, <1>2, <3>1, SetFacts
    <3>3. mClearCount' \in 0..MaxClear /\ buffered' \in 0..BufferSize
      BY <1>1, <3>1, Bounds DEF TypeOK
    <3> QED
      BY <1>1, <2>1, <3>1, <3>2, <3>3, Bounds DEF IInv, TypeOK, Watched
  <2>3. CASE ~(mErrorNumber + 1 >= MaxErrors)
    <3>1. /\ timer' = Set({"increase"}, {"answer"}) /\ mErrorNumber' = mErrorNumber + 1 /\ Send(1)
          /\ UNCHANGED <<mClearCount, buffered>>
      BY <1>6, <2>3 DEF IncreaseErrorCount
    <3>2. timer' \in [Timers -> Nat \cup {Off}] /\ Armed("answer")'
      BY <1>1, <1>2, <3>1, SetFacts
    <3>3. unsent' \in 0..MaxPending /\ mErrorNumber' \in 0..MaxErrors
      BY <1>1, <2>3, <3>1, SendType, Bounds DEF TypeOK
    <3> QED
      BY <1>1, <2>1, <3>1, <3>2, <3>3 DEF IInv, TypeOK, Watched
  <2> QED
    BY <2>2, <2>3
<1>7. CASE TimerErrorTimeout
  <2>1. /\ timer' = Set({"error"}, {"connect"})
        /\ conn' = "opening" /\ unsent' = 0 /\ asked' = 0 /\ answers' = <<>>
        /\ slots' = AtMost(MaxSlots, slots + 1)
        /\ UNCHANGED <<mErrorNumber, mClearCount, mLastId, buffered, faults>>
    BY <1>7 DEF TimerErrorTimeout, Restart
  <2>2. /\ timer' \in [Timers -> Nat \cup {Off}] /\ Armed("connect")'
        /\ Armed("answer") => Armed("answer")'
        /\ Armed("request")' => Armed("request")
    BY <1>1, <1>2, <2>1, SetFacts
  <2>3. slots' \in 1..MaxSlots /\ <<>> \in Seq(Ids \cup {NoId})
    BY <1>1, <2>1, Bounds, EmptySeq DEF TypeOK, AtMost
  <2> QED
    BY <1>1, <2>1, <2>2, <2>3, Bounds DEF IInv, TypeOK, Watched
<1>8. CASE TimerRequestTimeout
  <2>1. /\ timer' = Set({"request"}, {"answer"}) /\ Send(1)
        /\ UNCHANGED <<worker, conn, asked, answers, faults>>
    BY <1>8 DEF TimerRequestTimeout
  <2>2. timer' \in [Timers -> Nat \cup {Off}] /\ Armed("answer")'
    BY <1>1, <1>2, <2>1, SetFacts
  <2>3. unsent' \in 0..MaxPending
    BY <1>1, <2>1, SendType
  <2> QED
    BY <1>1, <2>1, <2>2, <2>3 DEF IInv, TypeOK, Watched, worker
<1>9. CASE TimerConnectTimeout
  <2>1. UNCHANGED <<mClearCount, mLastId, buffered, slots, conn, asked, answers, faults>>
    BY <1>9 DEF TimerConnectTimeout
  <2>2. CASE conn = "open"
    <3>1. timer' = Set({"connect"}, {"answer"}) /\ Send(slots) /\ mErrorNumber' = mErrorNumber
      BY <1>9, <2>2 DEF TimerConnectTimeout
    <3>2. timer' \in [Timers -> Nat \cup {Off}] /\ Armed("answer")'
      BY <1>1, <1>2, <3>1, SetFacts
    <3>3. slots \in Nat
      BY <1>1, Bounds DEF TypeOK
    <3>4. unsent' \in 0..MaxPending
      BY <1>1, <3>1, <3>3, SendType
    <3> QED
      BY <1>1, <2>1, <3>1, <3>2, <3>4 DEF IInv, TypeOK, Watched
  <2>3. CASE conn # "open"
    <3>1. timer' = Set({"connect"}, {"increase"}) /\ mErrorNumber' = MaxErrors /\ unsent' = unsent
      BY <1>9, <2>3 DEF TimerConnectTimeout
    <3>2. /\ timer' \in [Timers -> Nat \cup {Off}] /\ Armed("increase")'
          /\ Armed("answer") => Armed("answer")'
          /\ Armed("request")' => Armed("request")
      BY <1>1, <1>2, <3>1, SetFacts
    <3> QED
      BY <1>1, <2>1, <3>1, <3>2, Bounds DEF IInv, TypeOK, Watched
  <2> QED
    BY <2>2, <2>3
<1>10. CASE ConnectionFails
  <2>1. /\ timer' = Set({}, {"increase"})
        /\ mErrorNumber' = MaxErrors \/ mErrorNumber' = mErrorNumber
        /\ conn' = "closed" /\ unsent' = 0 /\ asked' = 0 /\ answers' = <<>>
        /\ faults < MaxFaults /\ faults' = faults + 1
        /\ UNCHANGED <<mClearCount, mLastId, buffered, slots>>
    BY <1>10 DEF ConnectionFails, OnError, Fault
  <2>2. /\ timer' \in [Timers -> Nat \cup {Off}] /\ Armed("increase")'
        /\ Armed("answer") => Armed("answer")'
        /\ Armed("request")' => Armed("request")
    BY <1>1, <1>2, <2>1, SetFacts
  <2>3. <<>> \in Seq(Ids \cup {NoId})
    BY EmptySeq
  <2> QED
    BY <1>1, <2>1, <2>2, <2>3, Bounds DEF IInv, TypeOK, Watched
<1>11. CASE ConnectSucceeds
  BY <1>1, <1>11 DEF ConnectSucceeds, IInv, TypeOK, Watched, Armed, worker
<1>12. CASE Answer
  <2>1. /\ asked > 0 /\ asked' = asked - 1
        /\ UNCHANGED <<timer, worker, conn, unsent, faults>>
    BY <1>12 DEF Answer
  <2>2. answers' \in Seq(Ids \cup {NoId})
    BY <1>1, <1>12, AppendProperties DEF Answer, TypeOK
  <2>3. asked' \in 0..MaxPending
    BY <1>1, <2>1, Bounds DEF TypeOK
  <2>4. Armed("answer")'
    BY <1>1, <2>1 DEF TypeOK, Watched, Armed
  <2> QED
    BY <1>1, <2>1, <2>2, <2>3, <2>4 DEF IInv, TypeOK, Watched, worker
<1>13. CASE LoseRequests
  BY <1>1, <1>13, Bounds DEF LoseRequests, Fault, IInv, TypeOK, Watched, Armed, worker
<1>14. CASE Tick \/ Delay
  <2>1. /\ NoTimerDue /\ Elapse /\ UNCHANGED <<worker, net>>
        /\ faults' = faults \/ (faults < MaxFaults /\ faults' = faults + 1)
    BY <1>14 DEF Tick, Delay, Fault
  <2>2. \A t \in Timers : /\ timer[t] \in Nat \cup {Off} /\ timer[t] # 0
                          /\ timer'[t] = IF timer[t] = Off THEN Off ELSE timer[t] - 1
    BY <1>1, <2>1 DEF TypeOK, NoTimerDue, Elapse
  <2>3. timer' \in [Timers -> Nat \cup {Off}]
    <3>1. \A t \in Timers : (IF timer[t] = Off THEN Off ELSE timer[t] - 1) \in Nat \cup {Off}
      BY <2>2 DEF Off
    <3> QED
      BY <2>1, <3>1 DEF Elapse
  <2>4. \A t \in Timers : Armed(t)' <=> Armed(t)
    BY <2>2 DEF Armed, Off
  <2>5. faults' \in 0..MaxFaults
    BY <1>1, <2>1, Bounds DEF TypeOK
  <2> QED
    BY <1>1, <1>2, <2>1, <2>3, <2>4, <2>5 DEF IInv, TypeOK, Watched, worker, net
<1>15. CASE UNCHANGED vars
  BY <1>1, <1>15 DEF vars, worker, net, IInv, TypeOK, Watched, Armed
<1> QED
  BY <1>3, <1>4, <1>5, <1>6, <1>7, <1>8, <1>9, <1>10, <1>11, <1>12, <1>13, <1>14, <1>15
  DEF Next, Handler

-----------------------------------------------------------------------------
\* Whatever fails and in whatever order the timers fire, a timer that makes the client ask
\* again or reconnect runs (the slots of CImageReceiverWorker): without a bound on the
\* faults, the intervals or the restarts.
THEOREM ClientStaysAwake == Spec => []NeverSilent
<1>1. IInv => NeverSilent
  <2>1. {"answer", "increase", "error", "request", "connect"} = Timers
    BY DEF Timers
  <2> QED
    BY <2>1 DEF IInv, Watched, NeverSilent, TypeOK
<1> QED
  BY <1>1, IInvInit, IInvNext, PTL DEF Spec
=============================================================================
