------------------------------ MODULE TextAlert ------------------------------
(***************************************************************************)
(* Sensor values: the text buffer (CTextBuffer), the alert thresholds      *)
(* (doTextConditions), the expressions on values (CConditionExpression)    *)
(* and a second instance of the program that fetches the text buffer.      *)
(*                                                                         *)
(* Everything here runs in the Qt event loop (the call of doAlgo that      *)
(* evaluates expressions in a camera thread is not compiled in), so a line *)
(* of the serial port or an answer of the server is one step.  Only the    *)
(* Telegram bot, a thread of its own, changes the status between two of    *)
(* them.                                                                   *)
(*                                                                         *)
(* A buffer entry keeps the value that made it an entry (data) and the     *)
(* newest value (current): a value closer than mDiffNotSave to data makes  *)
(* no new entry.                                                           *)
(***************************************************************************)
EXTENDS Integers, Sequences, FiniteSets

CONSTANTS
  Patterns,
  Values,              \* sensor values
  DiffNotSave,         \* mDiffNotSave
  ThresholdAlert, ThresholdWarning,
  IsReverse,           \* mIsReverse: low values are the dangerous ones
  Processed,           \* the patterns with mIsProcess
  EdgeAt,              \* the expression holds when a value rises to EdgeAt
  NoValue,
  MaxBufferLastSize,
  MaxReadings          \* bound: lines read

ASSUME PatternsAssumption ==
  /\ IsFiniteSet(Patterns)
  /\ Values \subseteq Nat
  /\ DiffNotSave \in Nat
  /\ IsReverse \in BOOLEAN
  /\ Processed \subseteq Patterns
  /\ EdgeAt \in Nat
  /\ MaxBufferLastSize \in Nat \ {0}
  /\ MaxReadings \in Nat
  /\ NoValue \notin Values

VARIABLES
  mMap,          \* the text buffer: entries of every pattern, oldest first
  sId,           \* next identifier of an entry
  value,         \* history: the last value of every sensor
  readings,
  outcome,       \* what the last reading led to
  homeStatus,    \* of mRunStatus, switched by the bot
  property, prev,       \* the JavaScript variables x and PREV_x
  edges, blind, fired,  \* history: rising edges of the sensors, evaluations of an
                        \* expression before its sensor had two values, commands run
  mState,        \* of the speech engine
  clientMap,     \* the text buffer of the other instance
  clientJudged   \* the conditions it found at its last fetch

buffer == <<mMap, sId, value, readings, outcome>>
script == <<property, prev, edges, blind, fired>>
client == <<clientMap, clientJudged>>
vars == <<buffer, homeStatus, script, mState, client>>

Conditions == {"none", "warning", "alert"}
LastOf(s) == s[Len(s)]
Gap(v, w) == IF v > w THEN v - w ELSE w - v

-----------------------------------------------------------------------------
(* CTextBuffer. *)

\* Mutant of IsNews: a value is compared with the newest one, not with the saved one.
IsNewsToCurrent(s, v) ==
  \/ s = <<>>
  \/ Gap(LastOf(s).current, v) > 0 /\ Gap(LastOf(s).current, v) >= DiffNotSave
IsNews(s, v) ==
  \/ s = <<>>
  \/ Gap(LastOf(s).data, v) > 0 /\ Gap(LastOf(s).data, v) >= DiffNotSave

\* append on a list and the next identifier: a value that is no news renews the
\* last entry, which gets a new identifier if it is an alert.
Appended(b, v, isAlert) ==
  LET s == b.list
      list == IF IsNews(s, v) THEN Append(s, [id |-> b.id, data |-> v, current |-> v])
              ELSE [s EXCEPT ![Len(s)] = [id |-> IF isAlert THEN b.id ELSE @.id,
                                          data |-> @.data, current |-> v]]
  IN  [list |-> IF Len(list) > MaxBufferLastSize THEN Tail(list) ELSE list,
       id |-> IF IsNews(s, v) \/ isAlert THEN b.id + 1 ELSE b.id]

-----------------------------------------------------------------------------
(* doTextConditions and checkAllExpression. *)

Reaches(v, threshold) == IF IsReverse THEN v <= threshold ELSE v >= threshold
Condition(v) ==
  IF Reaches(v, ThresholdAlert) THEN "alert"
  ELSE IF Reaches(v, ThresholdWarning) THEN "warning" ELSE "none"

\* The commands run for the expression PREV_x < EdgeAt && x >= EdgeAt of every pattern.
\* A name without a value is an error, which evaluate(...).toBool() makes true.
Fires(p) == prev'[p] = NoValue \/ (prev'[p] < EdgeAt /\ property'[p] >= EdgeAt)

\* Mutant of Checked: PREV_x is set for the pattern of the line only when it changes.
CheckedOnChange(map) ==
  LET known == {p \in Patterns : map[p] # <<>>}
  IN  /\ property' = [p \in Patterns |-> IF p \in known THEN LastOf(map[p]).current ELSE NoValue]
      /\ prev' = [p \in Patterns |-> IF property'[p] # property[p] THEN property[p] ELSE prev[p]]
      /\ fired' = fired + Cardinality({p \in Patterns : Fires(p)})

\* setProperty saves the old value of every pattern in PREV_x, then the
\* expressions are evaluated.
Checked(map) ==
  LET known == {p \in Patterns : map[p] # <<>>}
  IN  /\ property' = [p \in Patterns |-> IF p \in known THEN LastOf(map[p]).current ELSE NoValue]
      /\ prev' = [p \in Patterns |-> IF p \in known /\ property[p] # NoValue THEN property[p]
                                                                          ELSE prev[p]]
      /\ fired' = fired + Cardinality({p \in Patterns : Fires(p)})

\* say is ignored while the engine speaks.
Say == mState' = IF fired' > fired THEN "speaking" ELSE mState

-----------------------------------------------------------------------------
\* A line of the serial port with value v of pattern p (doTextAlgo).
ReadLine(p, v) ==
  LET first == Appended([list |-> mMap[p], id |-> sId], v, FALSE)
      condition == IF p \in Processed THEN Condition(v) ELSE "none"
      second == IF homeStatus = "out" THEN Appended(first, v, condition # "none") ELSE first
  IN  /\ readings < MaxReadings
      /\ readings' = readings + 1
      /\ mMap' = [mMap EXCEPT ![p] = second.list]
      /\ sId' = second.id
      /\ value' = [value EXCEPT ![p] = v]
      /\ outcome' = IF homeStatus = "out" THEN condition ELSE "none"
      /\ edges' = IF value[p] # NoValue /\ value[p] < EdgeAt /\ v >= EdgeAt THEN edges + 1
                                                                           ELSE edges
      /\ blind' = blind + Cardinality({q \in Patterns : value[q] = NoValue})
      /\ Checked(mMap')
      /\ Say
      /\ UNCHANGED <<homeStatus, client>>

\* The other instance fetches the buffer (setList) and judges the saved values.
Fetch ==
  /\ clientMap' = mMap
  /\ clientJudged' = [p \in Patterns |->
                        IF mMap[p] # <<>> /\ p \in Processed THEN Condition(LastOf(mMap[p]).data)
                                                             ELSE "none"]
  /\ UNCHANGED <<buffer, homeStatus, script, mState>>

SpeechEnds ==
  /\ mState = "speaking"
  /\ mState' = "ready"
  /\ UNCHANGED <<buffer, homeStatus, script, client>>

-----------------------------------------------------------------------------
\* setHomeIn and setHomeOut of the bot.
SetHome(status) ==
  /\ homeStatus # status
  /\ homeStatus' = status
  /\ UNCHANGED <<buffer, script, mState, client>>

-----------------------------------------------------------------------------
Init ==
  /\ mMap = [p \in Patterns |-> <<>>]
  /\ sId = 1
  /\ value = [p \in Patterns |-> NoValue]
  /\ readings = 0
  /\ outcome = "none"
  /\ homeStatus = "out"
  /\ property = [p \in Patterns |-> NoValue]
  /\ prev = [p \in Patterns |-> NoValue]
  /\ edges = 0 /\ blind = 0 /\ fired = 0
  /\ mState = "ready"
  /\ clientMap = [p \in Patterns |-> <<>>]
  /\ clientJudged = [p \in Patterns |-> "none"]

Next ==
  \/ \E p \in Patterns, v \in Values : ReadLine(p, v)
  \/ Fetch
  \/ SpeechEnds
  \/ \E status \in {"in", "out"} : SetHome(status)

Spec == Init /\ [][Next]_vars

-----------------------------------------------------------------------------
Entry == [id : Nat, data : Values, current : Values]

TypeOK ==
  /\ mMap \in [Patterns -> Seq(Entry)]
  /\ \A p \in Patterns : Len(mMap[p]) <= MaxBufferLastSize
  /\ {sId, edges, blind, fired} \subseteq Nat
  /\ value \in [Patterns -> Values \cup {NoValue}]
  /\ readings \in 0..MaxReadings
  /\ outcome \in Conditions
  /\ homeStatus \in {"in", "out"}
  /\ property \in [Patterns -> Values \cup {NoValue}]
  /\ prev \in [Patterns -> Values \cup {NoValue}]
  /\ mState \in {"ready", "speaking"}
  /\ clientMap \in [Patterns -> Seq(Entry)]
  /\ clientJudged \in [Patterns -> Conditions]

-----------------------------------------------------------------------------
(* Properties. *)

\* "if (newValue - oldValue) >= mDiffNotSave - save": the saved value never drifts
\* mDiffNotSave away from the sensor, however small its steps are, and the entry
\* always knows the newest value.  Another instance judges the value saved last, not the
\* current one; what it decides is right for a value less than mDiffNotSave away from it.
SavedCloseToSensor ==
  /\ TypeOK
  /\ \A p \in Patterns : mMap[p] # <<>> =>
       /\ LastOf(mMap[p]).current = value[p]
       /\ \/ Gap(LastOf(mMap[p]).data, value[p]) < DiffNotSave
          \/ LastOf(mMap[p]).data = value[p]
  /\ \A p \in Processed : clientMap[p] # <<>> =>
       \E v \in Values :
         /\ v = LastOf(clientMap[p]).current \/ Gap(v, LastOf(clientMap[p]).current) < DiffNotSave
         /\ clientJudged[p] = Condition(v)

\* The command of an expression on PREV_x and x runs once for every rise of its sensor,
\* whatever lines of other patterns cause evaluations in between, and besides only at the
\* evaluations up to the first value of the sensor, where PREV_x has none: at every line of
\* the other patterns before it, and once at its own.
CommandsMatchEdges == fired = edges + blind
=============================================================================
