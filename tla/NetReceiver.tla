----------------------------- MODULE NetReceiver -----------------------------
(***************************************************************************)
(* The network client of one remote buffer (CImageReceiverWorker over      *)
(* CTCPClient).  It asks the server for an image, waits SleepTime after    *)
(* the answer and asks again.  Everything else is error handling by five   *)
(* timers of the Qt event loop:                                            *)
(*                                                                         *)
(*   answer    mTimer, the only periodic one: no answer for TimeOut        *)
(*   increase  mIncreaseErrorCountTimer: counts an error, asks again       *)
(*   error     mErrorTimer: restarts the connection                        *)
(*   request   mRequestTimer: the next request                             *)
(*   connect   mConnectTimer: looks whether the socket is connected        *)
(*                                                                         *)
(* Starting a timer that runs starts its interval anew.  A handler is one  *)
(* step: the event loop runs one at a time.  Time is counted in ticks; a   *)
(* timer that has reached zero fires before time goes on.                  *)
(*                                                                         *)
(* The network misbehaves at most MaxFaults times: it loses a request or a *)
(* connection, refuses one, or takes longer than a tick.  Between the      *)
(* faults it is prompt.                                                    *)
(***************************************************************************)
EXTENDS Integers, Sequences, FiniteSets

CONSTANTS
  TimeOut,        \* interval of mTimer
  SleepTime,      \* interval of mRequestTimer; mIncreaseErrorCountTimer waits twice as long
  ErrorTimeOut,   \* interval of mErrorTimer
  ConnectTime,    \* interval of mConnectTimer
  MaxErrors,      \* sMaxNetworkErrorNumber
  MaxClear,       \* sMaxNumberForClear
  Ids,            \* image identifiers of the server
  NoId,           \* no image: mLastId at the start, an answer without image
  BufferSize,     \* bound: images of the buffer that are counted
  MaxPending,     \* bound: requests and answers on their way
  MaxSlots,       \* bound: connections of timerConnectTimeout that are counted
  MaxFaults       \* bound: faults of the network

ASSUME IntervalsAssumption ==
  /\ {TimeOut, SleepTime, ErrorTimeOut, ConnectTime, MaxErrors, MaxSlots, BufferSize,
      MaxPending} \subseteq Nat \ {0}
  /\ {MaxClear, MaxFaults} \subseteq Nat
  /\ NoId \notin Ids

VARIABLES
  timer,         \* remaining ticks of every timer
  mErrorNumber,
  mClearCount,
  mLastId,
  buffered,      \* images in the buffer of this client
  slots,         \* how often timerConnectTimeout is connected to its timer
  conn,          \* the socket
  unsent,        \* requests the socket has not written
  asked,         \* requests on their way to the server
  answers,       \* answers on their way to the client
  faults         \* faults so far

worker == <<mErrorNumber, mClearCount, mLastId, buffered, slots>>
net == <<conn, unsent, asked, answers>>
vars == <<timer, worker, net, faults>>

Timers == {"answer", "increase", "error", "request", "connect"}
Off == -1
Interval == [answer |-> TimeOut, increase |-> 2 * SleepTime, error |-> ErrorTimeOut,
             request |-> SleepTime, connect |-> ConnectTime]

\* The timers after starting those of On and stopping the others of Changed.
Set(Changed, On) ==
  [t \in Timers |-> IF t \in On THEN Interval[t] ELSE IF t \in Changed THEN Off ELSE timer[t]]
Fires(t) == timer[t] = 0

AtMost(bound, n) == IF n < bound THEN n ELSE bound
Fault == faults < MaxFaults /\ faults' = faults + 1

-----------------------------------------------------------------------------
(* Helpers of the handlers. *)

\* n calls of sendImageRequest; a closed socket drops what is written to it.
Send(n) == unsent' = IF conn = "closed" THEN 0 ELSE AtMost(MaxPending, unsent + n)

\* CNetBase::restart: a new socket, and onConnect connects one more slot.
Restart ==
  /\ conn' = "opening"
  /\ unsent' = 0
  /\ asked' = 0
  /\ answers' = <<>>
  /\ slots' = AtMost(MaxSlots, slots + 1)

-----------------------------------------------------------------------------
(* The handlers. *)

Receive ==
  /\ conn = "open"
  /\ answers # <<>>
  /\ answers' = Tail(answers)
  /\ LET id == Head(answers) IN
       IF id \in Ids /\ id # mLastId
         THEN /\ mLastId' = id
              /\ buffered' \in {buffered, AtMost(BufferSize, buffered + 1)}   \* or not decoded
         ELSE UNCHANGED <<mLastId, buffered>>
  /\ mErrorNumber' = 0
  /\ timer' = Set({}, {"answer", "request"})
  /\ UNCHANGED <<mClearCount, slots, conn, unsent, asked, faults>>

\* The socket has written the requests (sendCallBack).
Write ==
  /\ conn = "open"
  /\ unsent > 0
  /\ unsent' = 0
  /\ asked' = AtMost(MaxPending, asked + unsent)
  /\ timer' = Set({}, {"answer"})
  /\ UNCHANGED <<worker, conn, answers, faults>>

TimerTimeout ==
  /\ Fires("answer")
  /\ timer' = Set({}, {"answer", "increase"})
  /\ UNCHANGED <<worker, net, faults>>

\* Mutant of IncreaseErrorCount: mErrorTimer is not started.
IncreaseNoRestart ==
  /\ Fires("increase")
  /\ IF mErrorNumber + 1 >= MaxErrors
       THEN /\ mErrorNumber' = 0
            /\ timer' = Set({"increase"}, {})
            /\ UNCHANGED <<mClearCount, buffered, unsent>>
       ELSE /\ mErrorNumber' = mErrorNumber + 1
            /\ timer' = Set({"increase"}, {"answer"})
            /\ Send(1)
            /\ UNCHANGED <<mClearCount, buffered>>
  /\ UNCHANGED <<mLastId, slots, conn, asked, answers, faults>>

\* Mutant of IncreaseErrorCount: mErrorTimer is started by every error.
IncreaseAlwaysRestarts ==
  /\ Fires("increase")
  /\ mErrorNumber' = IF mErrorNumber + 1 >= MaxErrors THEN 0 ELSE mErrorNumber + 1
  /\ timer' = Set({"increase"}, {"error", "answer"})
  /\ Send(1)
  /\ UNCHANGED <<mClearCount, buffered, mLastId, slots, conn, asked, answers, faults>>

IncreaseErrorCount ==
  /\ Fires("increase")
  /\ IF mErrorNumber + 1 >= MaxErrors
       THEN /\ mErrorNumber' = 0
            /\ IF mClearCount >= MaxClear THEN buffered' = 0 /\ mClearCount' = 0
                                          ELSE mClearCount' = mClearCount + 1 /\ UNCHANGED buffered
            /\ timer' = Set({"increase"}, {"error"})
            /\ UNCHANGED unsent
       ELSE /\ mErrorNumber' = mErrorNumber + 1
            /\ timer' = Set({"increase"}, {"answer"})
            /\ Send(1)
            /\ UNCHANGED <<mClearCount, buffered>>
  /\ UNCHANGED <<mLastId, slots, conn, asked, answers, faults>>

TimerErrorTimeout ==
  /\ Fires("error")
  /\ timer' = Set({"error"}, {"connect"})
  /\ Restart
  /\ UNCHANGED <<mErrorNumber, mClearCount, mLastId, buffered, faults>>

TimerRequestTimeout ==
  /\ Fires("request")
  /\ timer' = Set({"request"}, {"answer"})
  /\ Send(1)
  /\ UNCHANGED <<worker, conn, asked, answers, faults>>

\* Mutant of TimerConnectTimeout: no error is reported when the socket is not connected.
ConnectUnreported ==
  /\ Fires("connect")
  /\ IF conn = "open" THEN timer' = Set({"connect"}, {"answer"}) /\ Send(slots)
                      ELSE timer' = Set({"connect"}, {}) /\ UNCHANGED unsent
  /\ UNCHANGED <<worker, conn, asked, answers, faults>>

\* Every slot runs: each sends a request, or each reports the timeout to onError.
TimerConnectTimeout ==
  /\ Fires("connect")
  /\ IF conn = "open"
       THEN /\ timer' = Set({"connect"}, {"answer"})
            /\ Send(slots)
            /\ UNCHANGED mErrorNumber
       ELSE /\ timer' = Set({"connect"}, {"increase"})
            /\ mErrorNumber' = MaxErrors
            /\ UNCHANGED unsent
  /\ UNCHANGED <<mClearCount, mLastId, buffered, slots, conn, asked, answers, faults>>

\* onError: the kinds of hardError exhaust the error counter at once.
OnError(hardError) ==
  /\ mErrorNumber' = IF hardError THEN MaxErrors ELSE mErrorNumber
  /\ timer' = Set({}, {"increase"})

-----------------------------------------------------------------------------
(* The network and the server. *)

ConnectSucceeds ==
  /\ conn = "opening"
  /\ conn' = "open"
  /\ UNCHANGED <<timer, worker, unsent, asked, answers, faults>>

\* Refused or lost (hard), or a host that is not found (soft).
ConnectionFails ==
  /\ conn # "closed"
  /\ Fault
  /\ conn' = "closed"
  /\ unsent' = 0
  /\ asked' = 0
  /\ answers' = <<>>
  /\ \E hardError \in BOOLEAN : OnError(hardError)
  /\ UNCHANGED <<mClearCount, mLastId, buffered, slots>>

\* The server answers a request with its newest image, or that it has none.
Answer ==
  /\ conn = "open"
  /\ asked > 0
  /\ Len(answers) < MaxPending
  /\ asked' = asked - 1
  /\ \E id \in Ids \cup {NoId} : answers' = Append(answers, id)
  /\ UNCHANGED <<timer, worker, conn, unsent, faults>>

LoseRequests ==
  /\ asked > 0
  /\ Fault
  /\ asked' = 0
  /\ UNCHANGED <<timer, worker, conn, unsent, answers>>

NoTimerDue == \A t \in Timers : timer[t] # 0
NetworkBusy == conn = "opening" \/ (conn = "open" /\ (unsent > 0 \/ asked > 0 \/ answers # <<>>))
Elapse == timer' = [t \in Timers |-> IF timer[t] = Off THEN Off ELSE timer[t] - 1]

Tick == NoTimerDue /\ ~NetworkBusy /\ Elapse /\ UNCHANGED <<worker, net, faults>>
Delay == NoTimerDue /\ NetworkBusy /\ Fault /\ Elapse /\ UNCHANGED <<worker, net>>

-----------------------------------------------------------------------------
\* After start(): the socket connects and onConnect has run once.
Init ==
  /\ timer = [t \in Timers |-> IF t = "connect" THEN ConnectTime ELSE Off]
  /\ mErrorNumber = 0
  /\ mClearCount = 0
  /\ mLastId = NoId
  /\ buffered = 0
  /\ slots = 1
  /\ conn = "opening"
  /\ unsent = 0
  /\ asked = 0
  /\ answers = <<>>
  /\ faults = 0

Handler ==
  Receive \/ Write \/ TimerTimeout \/ IncreaseErrorCount \/ TimerErrorTimeout
    \/ TimerRequestTimeout \/ TimerConnectTimeout

Next ==
  \/ Handler
  \/ ConnectSucceeds \/ Answer \/ Tick
  \/ ConnectionFails \/ LoseRequests \/ Delay

Spec == Init /\ [][Next]_vars

\* The event loop serves every event, the clock runs, the network is prompt
\* between its faults.  No timer is favoured over another that is due.
Fairness ==
  /\ WF_vars(Receive) /\ WF_vars(Write)
  /\ WF_vars(TimerTimeout) /\ WF_vars(IncreaseErrorCount) /\ WF_vars(TimerErrorTimeout)
  /\ WF_vars(TimerRequestTimeout) /\ WF_vars(TimerConnectTimeout)
  /\ WF_vars(ConnectSucceeds) /\ WF_vars(Answer) /\ WF_vars(Tick)

FairSpec == Spec /\ Fairness

-----------------------------------------------------------------------------
TypeOK ==
  /\ timer \in [Timers -> Nat \cup {Off}]
  /\ mErrorNumber \in 0..MaxErrors
  /\ mClearCount \in 0..MaxClear
  /\ mLastId \in Ids \cup {NoId}
  /\ buffered \in 0..BufferSize
  /\ slots \in 1..MaxSlots
  /\ conn \in {"closed", "opening", "open"}
  /\ unsent \in 0..MaxPending
  /\ asked \in 0..MaxPending
  /\ answers \in Seq(Ids \cup {NoId})
  /\ faults \in 0..MaxFaults

Armed(t) == timer[t] # Off

-----------------------------------------------------------------------------
(* Properties. *)

\* The client never falls silent: whatever failed and in whatever order the
\* timers fired, one of the timers that make it ask or reconnect is running,
\* and once it has asked it is the periodic one.
NeverSilent ==
  /\ TypeOK
  /\ \E t \in Timers : Armed(t)
  /\ Armed("request") \/ asked > 0 \/ unsent > 0 => Armed("answer")
  /\ conn = "closed" /\ ~Armed("answer") => Armed("increase") \/ Armed("error") \/ Armed("connect")

\* The settings with which the timers that restart one another leave each other the time to
\* fire: an error is counted before the next timeout, and the restart takes place before
\* the timeouts exhaust the error counter once more.  (The code accepts any others.)
Paced ==
  /\ 2 * SleepTime < TimeOut
  /\ ErrorTimeOut < TimeOut + (MaxErrors - 1) * (TimeOut + 2 * SleepTime)

\* Once the faults are over the client receives answers again and again.
Recovers == Paced => []<><<Receive>>_vars

\* A restart that has been scheduled takes place: later errors, which schedule it
\* anew, do not put it off for ever.
ScheduledRestartHappens == Paced => (Armed("error") ~> ~Armed("error"))

\* "after this errors image buffer clear and restart connection": timeouts are errors, so a
\* client whose requests time out again and again hears from the server or restarts.
TimeoutsEnd ==
  Paced /\ []<><<TimerTimeout>>_vars => []<><<Receive \/ TimerErrorTimeout>>_vars
=============================================================================
