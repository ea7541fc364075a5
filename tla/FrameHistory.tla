---------------------------- MODULE FrameHistory ----------------------------
(***************************************************************************)
(* What a recording buffer promises, whatever its lists look like: a       *)
(* window first..next-1 of consecutive frames, the newest WindowSize of    *)
(* those recorded since the history was last forgotten, and before it a    *)
(* sample of at most SampleSize older frames in which no two neighbours,   *)
(* nor the last of them and the window, are further apart than Period.     *)
(***************************************************************************)
EXTENDS Integers, FiniteSets

CONSTANTS
  WindowSize,   \* a positive number
  SampleSize,
  Period        \* 0: no bound on the distance of neighbours

VARIABLES first, next, sample

history == <<first, next, sample>>

\* Every sampled frame is followed by another one, or by the window, in time.
Dense(S, start) ==
  \A f \in S : \E g \in S \cup {start} : f < g /\ g - f <= Period

Forget ==
  /\ first' = next
  /\ sample' = {}
  /\ UNCHANGED next

\* The window still has room.
Grow ==
  /\ next - first < WindowSize
  /\ next' = next + 1
  /\ UNCHANGED <<first, sample>>

\* The window slides; the frame that leaves it may join the sample.
Slide ==
  /\ next - first = WindowSize
  /\ next' = next + 1
  /\ first' = first + 1
  /\ sample' \subseteq sample \cup {first}
  /\ Cardinality(sample') <= SampleSize
  /\ \A f \in sample \ sample' : \A g \in sample' : f < g
  /\ Period > 0 => Dense(sample', first')

Init == first = 0 /\ next = 0 /\ sample = {}

Next == Forget \/ Grow \/ Slide

Spec == Init /\ [][Next]_history
=============================================================================
