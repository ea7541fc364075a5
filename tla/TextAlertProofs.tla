--------------------------- MODULE TextAlertProofs ---------------------------
(***************************************************************************)
(* Proofs about TextAlert for any set of patterns and sensor values, any   *)
(* thresholds and any length of the history.                               *)
(***************************************************************************)
EXTENDS TextAlert, FiniteSetTheorems, SequenceTheorems, TLAPS

\* An entry of the history is close to the value v that the sensor had then.
CloseTo(entry, v) == entry.data = v \/ Gap(entry.data, v) < DiffNotSave

\* The last entry of every history knows the newest value, and so does the script, which
\* has a former value only of what it has seen.
Followed ==
  \A p \in Patterns :
    /\ mMap[p] = <<>> <=> value[p] = NoValue
    /\ mMap[p] # <<>> => /\ LastOf(mMap[p]).current = value[p]
                         /\ CloseTo(LastOf(mMap[p]), value[p])
    /\ property[p] = value[p]
    /\ property[p] = NoValue => prev[p] = NoValue

\* What the other instance fetched was close to the sensor then.
Judged ==
  \A p \in Processed : clientMap[p] # <<>> =>
    /\ CloseTo(LastOf(clientMap[p]), LastOf(clientMap[p]).current)
    /\ LastOf(clientMap[p]).data \in Values
    /\ clientJudged[p] = Condition(LastOf(clientMap[p]).data)

IInv == TypeOK /\ Followed /\ Judged /\ CommandsMatchEdges

-----------------------------------------------------------------------------
\* The last entry of a history that is not empty.
LEMMA LastFacts ==
  ASSUME NEW s \in Seq(Entry), s # <<>>
  PROVE  /\ Len(s) \in Nat \ {0} /\ Len(s) \in 1..Len(s)
         /\ LastOf(s) = s[Len(s)] /\ LastOf(s) \in Entry
<1>1. Len(s) \in Nat \ {0}
  BY EmptySeq, LenProperties
<1>2. Len(s) \in 1..Len(s)
  BY <1>1
<1> QED
  BY <1>1, <1>2, ElementOfSeq DEF LastOf

\* append keeps the value, close to what it saves, whatever the value is.
LEMMA AppendedFacts ==
  ASSUME NEW s \in Seq(Entry), Len(s) <= MaxBufferLastSize, NEW id \in Nat, NEW v \in Values,
         NEW isAlert \in BOOLEAN,
         NEW b, b = Appended([list |-> s, id |-> id], v, isAlert)
  PROVE  /\ b = [list |-> b.list, id |-> b.id]
         /\ b.list \in Seq(Entry) /\ b.list # <<>> /\ Len(b.list) <= MaxBufferLastSize
         /\ b.id \in Nat
         /\ LastOf(b.list).current = v /\ CloseTo(LastOf(b.list), v)
<1> DEFINE news == [id |-> id, data |-> v, current |-> v]
           renewed == [s EXCEPT ![Len(s)] = [id |-> IF isAlert THEN id ELSE @.id,
                                             data |-> @.data, current |-> v]]
           list == IF IsNews(s, v) THEN Append(s, news) ELSE renewed
<1>1. v \in Nat /\ MaxBufferLastSize \in Nat \ {0} /\ DiffNotSave \in Nat /\ Values \subseteq Nat
  BY PatternsAssumption
<1>2. b = [list |-> IF Len(list) > MaxBufferLastSize THEN Tail(list) ELSE list,
           id |-> IF IsNews(s, v) \/ isAlert THEN id + 1 ELSE id]
  BY DEF Appended
<1>3. /\ list \in Seq(Entry) /\ list # <<>> /\ Len(list) <= MaxBufferLastSize + 1
      /\ LastOf(list).current = v /\ CloseTo(LastOf(list), v)
  <2>1. CASE IsNews(s, v)
    <3>1. news \in Entry
      BY DEF Entry
    <3>2. /\ Append(s, news) \in Seq(Entry) /\ Len(Append(s, news)) = Len(s) + 1
          /\ Append(s, news)[Len(s) + 1] = news /\ Len(s) \in Nat
      BY <3>1, AppendProperties, LenProperties
    <3>3. Append(s, news) # <<>>
      BY <3>2, EmptySeq
    <3> QED
      BY <1>1, <2>1, <3>2, <3>3 DEF LastOf, CloseTo
  <2>2. CASE ~IsNews(s, v)
    <3>1. s # <<>> /\ ~(Gap(LastOf(s).data, v) > 0 /\ Gap(LastOf(s).data, v) >= DiffNotSave)
      BY <2>2 DEF IsNews
    <3>2. /\ Len(s) \in Nat \ {0} /\ Len(s) \in 1..Len(s)
          /\ LastOf(s) = s[Len(s)] /\ LastOf(s) \in Entry
      BY <3>1, LastFacts
    <3>3. LastOf(s).data \in Values /\ LastOf(s).data \in Nat
      BY <1>1, <3>2 DEF Entry
    <3>4. LastOf(s).data = v \/ Gap(LastOf(s).data, v) < DiffNotSave
      BY <1>1, <3>1, <3>3 DEF Gap
    <3> DEFINE entry == [id |-> IF isAlert THEN id ELSE LastOf(s).id,
                         data |-> LastOf(s).data, current |-> v]
    <3>5. entry \in Entry
      BY <3>2 DEF Entry
    <3>6. renewed = [s EXCEPT ![Len(s)] = entry]
      BY <3>2
    <3> HIDE DEF entry, renewed
    <3>7. /\ renewed \in Seq(Entry) /\ Len(renewed) = Len(s) /\ renewed[Len(s)] = entry
      BY <3>2, <3>5, <3>6, ExceptSeq
    <3>8. renewed # <<>>
      BY <3>2, <3>7, EmptySeq
    <3>9. entry.current = v /\ entry.data = LastOf(s).data
      BY DEF entry
    <3>10. LastOf(renewed) = entry
      BY <3>7 DEF LastOf
    <3> QED
      BY <1>1, <2>2, <3>2, <3>4, <3>7, <3>8, <3>9, <3>10 DEF CloseTo
  <2> QED
    BY <2>1, <2>2
<1>4. b.id \in Nat
  BY <1>2
<1> HIDE DEF list
<1>5. CASE Len(list) > MaxBufferLastSize
  <2>1. Len(list) \in Nat /\ Len(list) >= 2
    BY <1>1, <1>3, <1>5, LenProperties
  <2>2. /\ Tail(list) \in Seq(Entry) /\ Len(Tail(list)) = Len(list) - 1
        /\ \A i \in 1..Len(Tail(list)) : Tail(list)[i] = list[i + 1]
    BY <1>3, HeadTailProperties
  <2>3. Len(Tail(list)) \in 1..Len(Tail(list)) /\ Tail(list) # <<>>
    BY <2>1, <2>2, EmptySeq
  <2>4. Tail(list)[Len(Tail(list))] = list[Len(list)]
    <3>1. Tail(list)[Len(Tail(list))] = list[Len(Tail(list)) + 1]
      BY <2>2, <2>3
    <3>2. Len(Tail(list)) + 1 = Len(list)
      BY <2>1, <2>2
    <3> QED
      BY <3>1, <3>2
  <2>5. LastOf(Tail(list)) = LastOf(list)
    BY <2>4 DEF LastOf
  <2>6. b.list = Tail(list) /\ b = [list |-> b.list, id |-> b.id]
    BY <1>2, <1>5
  <2>7. Len(Tail(list)) <= MaxBufferLastSize
    BY <1>1, <1>3, <2>1, <2>2
  <2> QED
    BY <1>3, <1>4, <2>2, <2>3, <2>5, <2>6, <2>7
<1>6. CASE ~(Len(list) > MaxBufferLastSize)
  <2>1. b.list = list /\ Len(list) \in Nat
    BY <1>2, <1>3, <1>6, LenProperties
  <2> QED
    BY <1>1, <1>2, <1>3, <1>4, <1>6, <2>1
<1> QED
  BY <1>5, <1>6

-----------------------------------------------------------------------------
LEMMA IInvInit == Init => IInv
<1> SUFFICES ASSUME Init PROVE IInv
  OBVIOUS
<1>1. TypeOK
  <2>1. <<>> \in Seq(Entry) /\ Len(<<>>) = 0
    BY EmptySeq
  <2> QED
    BY <2>1, PatternsAssumption DEF Init, TypeOK, Conditions
<1>2. Followed /\ Judged /\ CommandsMatchEdges
  BY PatternsAssumption DEF Init, Followed, Judged, CommandsMatchEdges
<1> QED
  BY <1>1, <1>2 DEF IInv

\* The conditions are about the value only.
LEMMA ConditionType == \A v : Condition(v) \in Conditions
  BY DEF Condition, Conditions

\* A line: each of its two calls of append keeps what is known of the history of p.
LEMMA LineAppended ==
  ASSUME IInv, NEW p \in Patterns, NEW v \in Values, ReadLine(p, v)
  PROVE  \E b : /\ mMap' = [mMap EXCEPT ![p] = b.list] /\ sId' = b.id
                /\ b.list \in Seq(Entry) /\ b.list # <<>> /\ Len(b.list) <= MaxBufferLastSize
                /\ b.id \in Nat
                /\ LastOf(b.list).current = v /\ CloseTo(LastOf(b.list), v)
<1> DEFINE condition == IF p \in Processed THEN Condition(v) ELSE "none"
           first == Appended([list |-> mMap[p], id |-> sId], v, FALSE)
           again == Appended(first, v, condition # "none")
<1>1. mMap[p] \in Seq(Entry) /\ Len(mMap[p]) <= MaxBufferLastSize /\ sId \in Nat
  BY DEF IInv, TypeOK
<1>2. /\ first = [list |-> first.list, id |-> first.id]
      /\ first.list \in Seq(Entry) /\ first.list # <<>> /\ Len(first.list) <= MaxBufferLastSize
      /\ first.id \in Nat
      /\ LastOf(first.list).current = v /\ CloseTo(LastOf(first.list), v)
  <2>1. FALSE \in BOOLEAN
    OBVIOUS
  <2> QED
    BY <1>1, <2>1, AppendedFacts
<1>3. CASE homeStatus = "out"
  <2>1. mMap' = [mMap EXCEPT ![p] = again.list] /\ sId' = again.id
    BY <1>3 DEF ReadLine
  <2>2. (condition # "none") \in BOOLEAN
    OBVIOUS
  <2> HIDE DEF condition, first
  <2>3. /\ again.list \in Seq(Entry) /\ again.list # <<>> /\ Len(again.list) <= MaxBufferLastSize
        /\ again.id \in Nat
        /\ LastOf(again.list).current = v /\ CloseTo(LastOf(again.list), v)
    <3>1. PICK s, i : first = [list |-> s, id |-> i]
      BY <1>2
    <3>2. s \in Seq(Entry) /\ Len(s) <= MaxBufferLastSize /\ i \in Nat
      BY <1>2, <3>1
    <3>3. PICK c \in BOOLEAN : c = (condition # "none")
      OBVIOUS
    <3>4. again = Appended([list |-> s, id |-> i], v, c)
      BY <3>1, <3>3
    <3> HIDE DEF again
    <3> QED
      BY <3>2, <3>4, AppendedFacts
  <2> QED
    BY <2>1, <2>3
<1>4. CASE homeStatus # "out"
  <2>1. mMap' = [mMap EXCEPT ![p] = first.list] /\ sId' = first.id
    BY <1>4 DEF ReadLine
  <2> HIDE DEF first
  <2> QED
    BY <1>2, <2>1
<1> QED
  BY <1>3, <1>4

LEMMA ReadLineStep ==
  ASSUME IInv, NEW p \in Patterns, NEW v \in Values, ReadLine(p, v)
  PROVE  IInv'
<1>1. PICK b : /\ mMap' = [mMap EXCEPT ![p] = b.list] /\ sId' = b.id
               /\ b.list \in Seq(Entry) /\ b.list # <<>> /\ Len(b.list) <= MaxBufferLastSize
               /\ b.id \in Nat
               /\ LastOf(b.list).current = v /\ CloseTo(LastOf(b.list), v)
  BY LineAppended
<1>2. /\ readings' = readings + 1 /\ readings < MaxReadings
      /\ value' = [value EXCEPT ![p] = v]
      /\ edges' = IF value[p] # NoValue /\ value[p] < EdgeAt /\ v >= EdgeAt THEN edges + 1
                                                                            ELSE edges
      /\ Checked(mMap') /\ Say
      /\ UNCHANGED <<homeStatus, clientMap, clientJudged>>
  BY DEF ReadLine, client
<1>3. v # NoValue
  BY PatternsAssumption
<1>4. /\ mMap'[p] = b.list /\ \A q \in Patterns : q # p => mMap'[q] = mMap[q]
      /\ value'[p] = v /\ \A q \in Patterns : q # p => value'[q] = value[q]
  BY <1>1, <1>2 DEF IInv, TypeOK
<1> DEFINE known == {q \in Patterns : mMap'[q] # <<>>}
<1>5. /\ property' = [q \in Patterns |-> IF q \in known THEN LastOf(mMap'[q]).current
                                                         ELSE NoValue]
      /\ prev' = [q \in Patterns |-> IF q \in known /\ property[q] # NoValue THEN property[q]
                                                                             ELSE prev[q]]
      /\ fired' = fired + Cardinality({q \in Patterns : Fires(q)})
  BY <1>2 DEF Checked
<1>6. \A q \in Patterns : property'[q] = value'[q]
  <2> SUFFICES ASSUME NEW q \in Patterns PROVE property'[q] = value'[q]
    OBVIOUS
  <2>1. CASE q = p
    BY <1>1, <1>4, <1>5, <2>1
  <2>2. CASE q # p
    BY <1>4, <1>5, <2>2 DEF IInv, Followed
  <2> QED
    BY <2>1, <2>2
<1>7. Followed'
  <2> SUFFICES ASSUME NEW q \in Patterns
               PROVE  /\ mMap'[q] = <<>> <=> value'[q] = NoValue
                      /\ mMap'[q] # <<>> => /\ LastOf(mMap'[q]).current = value'[q]
                                            /\ CloseTo(LastOf(mMap'[q]), value'[q])
                      /\ property'[q] = value'[q]
                      /\ property'[q] = NoValue => prev'[q] = NoValue
    BY DEF Followed
  <2>1. CASE q = p
    BY <1>1, <1>3, <1>4, <1>6, <2>1
  <2>2. CASE q # p
    BY <1>4, <1>5, <1>6, <2>2 DEF IInv, Followed
  <2> QED
    BY <2>1, <2>2
<1>8. CommandsMatchEdges' /\ edges' \in Nat /\ blind' \in Nat /\ fired' \in Nat
  <2> DEFINE unread == {q \in Patterns : value[q] = NoValue}
             edge == value[p] # NoValue /\ value[p] < EdgeAt /\ v >= EdgeAt
             fires == {q \in Patterns : Fires(q)}
  <2>1. /\ fired' = fired + Cardinality(fires)
        /\ blind' = blind + Cardinality(unread)
        /\ edges' = IF edge THEN edges + 1 ELSE edges
    BY <1>2, <1>5 DEF ReadLine
  <2>2. ASSUME NEW q \in Patterns
        PROVE  /\ prev'[q] = NoValue <=> value[q] = NoValue
               /\ value[q] # NoValue => prev'[q] = value[q] /\ value[q] \in Nat
    <3>1. CASE value[q] = NoValue
      BY <1>5, <3>1 DEF IInv, Followed
    <3>2. CASE value[q] # NoValue
      <4>1. value[q] \in Values /\ value[q] \in Nat /\ property[q] = value[q]
        BY <3>2, PatternsAssumption DEF IInv, TypeOK, Followed
      <4>2. mMap'[q] # <<>>
        BY <1>1, <1>4, <3>2 DEF IInv, Followed
      <4>3. prev'[q] = value[q]
        BY <1>5, <3>2, <4>1, <4>2
      <4> QED
        BY <3>2, <4>1, <4>3
    <3> QED
      BY <3>1, <3>2
  <2>3. ASSUME NEW q \in Patterns, q # p, value[q] # NoValue PROVE ~Fires(q)
    <3>1. prev'[q] = value[q] /\ value[q] \in Nat /\ property'[q] = value[q]
      BY <1>4, <1>6, <2>2, <2>3
    <3> QED
      BY <2>3, <3>1, PatternsAssumption DEF Fires
  <2>4. Fires(p) <=> value[p] = NoValue \/ edge
    BY <1>4, <1>6, <2>2 DEF Fires
  <2>5. \A q \in unread : Fires(q)
    BY <2>2 DEF Fires
  <2>6. IsFiniteSet(unread) /\ Cardinality(unread) \in Nat
    BY PatternsAssumption, FS_Subset, FS_CardinalityType
  <2>7. Cardinality(fires) = Cardinality(unread) + (IF edge THEN 1 ELSE 0)
    <3>1. CASE edge
      <4>1. p \notin unread
        BY <3>1
      <4>2. fires = unread \cup {p}
        BY <2>3, <2>4, <2>5, <3>1
      <4> HIDE DEF fires, unread
      <4> QED
        BY <2>6, <3>1, <4>1, <4>2, FS_AddElement
    <3>2. CASE ~edge
      <4>1. fires = unread
        BY <2>3, <2>4, <2>5, <3>2
      <4> QED
        BY <2>6, <3>2, <4>1
    <3> QED
      BY <3>1, <3>2
  <2>8. edges \in Nat /\ blind \in Nat /\ fired = edges + blind
    BY DEF IInv, TypeOK, CommandsMatchEdges
  <2> HIDE DEF fires, unread, edge
  <2>9. edges' \in Nat /\ blind' \in Nat /\ fired' = edges' + blind'
    BY <2>1, <2>6, <2>7, <2>8
  <2>10. fired' \in Nat
    <3>1. \A x, y \in Nat : x + y \in Nat
      OBVIOUS
    <3> QED
      BY <2>9, <3>1, Zenon
  <2> QED
    BY <2>9, <2>10 DEF CommandsMatchEdges
<1>9. TypeOK'
  <2>1. mMap' \in [Patterns -> Seq(Entry)] /\ \A q \in Patterns : Len(mMap'[q]) <= MaxBufferLastSize
    <3>1. mMap' \in [Patterns -> Seq(Entry)]
      BY <1>1 DEF IInv, TypeOK
    <3> QED
      BY <1>1, <1>4, <3>1 DEF IInv, TypeOK
  <2>2. {sId', edges', blind', fired'} \subseteq Nat
    BY <1>1, <1>8
  <2>3. value' \in [Patterns -> Values \cup {NoValue}]
    BY <1>2 DEF IInv, TypeOK
  <2>4. property' \in [Patterns -> Values \cup {NoValue}]
    BY <1>5, <1>6, <2>3
  <2>5. prev' \in [Patterns -> Values \cup {NoValue}]
    BY <1>5 DEF IInv, TypeOK
  <2>6. outcome' \in Conditions
    BY ConditionType DEF ReadLine, Conditions
  <2>7. mState' \in {"ready", "speaking"}
    BY <1>2 DEF Say, IInv, TypeOK
  <2>8. readings' \in 0..MaxReadings
    BY <1>2, PatternsAssumption DEF IInv, TypeOK
  <2> QED
    BY <1>1, <1>2, <2>1, <2>2, <2>3, <2>4, <2>5, <2>6, <2>7, <2>8 DEF IInv, TypeOK
<1>10. Judged'
  BY <1>2 DEF IInv, Judged, Condition
<1> QED
  BY <1>7, <1>8, <1>9, <1>10 DEF IInv

LEMMA FetchStep == IInv /\ Fetch => IInv'
<1> SUFFICES ASSUME IInv, Fetch PROVE IInv'
  OBVIOUS
<1>1. /\ clientMap' = mMap
      /\ clientJudged' = [p \in Patterns |->
                            IF mMap[p] # <<>> /\ p \in Processed
                              THEN Condition(LastOf(mMap[p]).data) ELSE "none"]
      /\ UNCHANGED <<mMap, sId, value, readings, outcome, homeStatus, property, prev>>
      /\ UNCHANGED <<edges, blind, fired, mState>>
  BY DEF Fetch, buffer, script
<1>2. TypeOK'
  <2>1. clientJudged' \in [Patterns -> Conditions]
    BY <1>1, ConditionType DEF Conditions
  <2> QED
    BY <1>1, <2>1 DEF IInv, TypeOK
<1>3. Judged'
  <2> SUFFICES ASSUME NEW p \in Processed, mMap[p] # <<>>
               PROVE  /\ CloseTo(LastOf(mMap[p]), LastOf(mMap[p]).current)
                      /\ LastOf(mMap[p]).data \in Values
                      /\ clientJudged'[p] = Condition(LastOf(mMap[p]).data)
    BY <1>1 DEF Judged, Condition, Reaches
  <2>1. p \in Patterns /\ mMap[p] \in Seq(Entry)
    BY PatternsAssumption DEF IInv, TypeOK
  <2>2. LastOf(mMap[p]) \in Entry
    BY <2>1, LastFacts
  <2> QED
    BY <1>1, <2>1, <2>2 DEF IInv, Followed, Entry
<1> QED
  BY <1>1, <1>2, <1>3 DEF IInv, Followed, CommandsMatchEdges

LEMMA OtherStep ==
  ASSUME IInv, UNCHANGED <<mMap, sId, value, readings, outcome, property, prev>>,
         UNCHANGED <<edges, blind, fired>>,
         UNCHANGED <<clientMap, clientJudged>>,
         homeStatus' \in {"in", "out"}, mState' \in {"ready", "speaking"}
  PROVE  IInv'
  BY DEF IInv, TypeOK, Followed, Judged, CommandsMatchEdges, Condition, Reaches

LEMMA TextInvariant == Spec => []IInv
<1>1. Init => IInv
  BY IInvInit
<1>2. IInv /\ [Next]_vars => IInv'
  <2> SUFFICES ASSUME IInv, [Next]_vars PROVE IInv'
    OBVIOUS
  <2>1. ASSUME NEW p \in Patterns, NEW v \in Values, ReadLine(p, v) PROVE IInv'
    BY <2>1, ReadLineStep
  <2>2. CASE Fetch
    BY <2>2, FetchStep
  <2>3. CASE SpeechEnds
    BY <2>3, OtherStep DEF SpeechEnds, buffer, script, client, IInv, TypeOK
  <2>4. ASSUME NEW status \in {"in", "out"}, SetHome(status) PROVE IInv'
    BY <2>4, OtherStep DEF SetHome, buffer, script, client, IInv, TypeOK
  <2>5. CASE UNCHANGED vars
    BY <2>5, OtherStep DEF vars, buffer, script, client, IInv, TypeOK
  <2> QED
    BY <2>1, <2>2, <2>3, <2>4, <2>5 DEF Next
<1> QED
  BY <1>1, <1>2, PTL DEF Spec

-----------------------------------------------------------------------------
\* The value the history keeps (CTextBuffer::append) is never mDiffNotSave away from the
\* sensor, and what another instance concludes from it (doTextConditions) holds for a
\* value as close to the one it fetched.
THEOREM SavedStaysClose == Spec => []SavedCloseToSensor
<1>1. IInv => SavedCloseToSensor
  <2> SUFFICES ASSUME IInv PROVE SavedCloseToSensor
    OBVIOUS
  <2>1. ASSUME NEW p \in Patterns, mMap[p] # <<>>
        PROVE  /\ LastOf(mMap[p]).current = value[p]
               /\ \/ Gap(LastOf(mMap[p]).data, value[p]) < DiffNotSave
                  \/ LastOf(mMap[p]).data = value[p]
    BY <2>1 DEF IInv, Followed, CloseTo
  <2>2. ASSUME NEW p \in Processed, clientMap[p] # <<>>
        PROVE  \E v \in Values :
                 /\ v = LastOf(clientMap[p]).current
                    \/ Gap(v, LastOf(clientMap[p]).current) < DiffNotSave
                 /\ clientJudged[p] = Condition(v)
    <3>1. /\ LastOf(clientMap[p]).data \in Values
          /\ CloseTo(LastOf(clientMap[p]), LastOf(clientMap[p]).current)
          /\ clientJudged[p] = Condition(LastOf(clientMap[p]).data)
      BY <2>2 DEF IInv, Judged
    <3> QED
      BY <3>1 DEF CloseTo
  <2> QED
    BY <2>1, <2>2 DEF SavedCloseToSensor, IInv
<1> QED
  BY <1>1, TextInvariant, PTL

\* The commands of an expression on a value and the one before it (setProperty,
\* checkAllExpression) are run once for each rise of its sensor and once for each
\* evaluation before the sensor had two values, for any number of sensors whose lines
\* are mixed.
THEOREM CommandsRunForEdges == Spec => []CommandsMatchEdges
<1>1. IInv => CommandsMatchEdges
  BY DEF IInv
<1> QED
  BY <1>1, TextInvariant, PTL
=============================================================================
