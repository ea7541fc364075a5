--------------------------- MODULE FinalVideoProofs ---------------------------
(***************************************************************************)
(* Proofs about FinalVideo for every size of the buffer and of the window, *)
(* any number of frames, and any order of alerts, warnings, replies and    *)
(* failures of both threads.                                               *)
(***************************************************************************)
EXTENDS FinalVideo, FiniteSetTheorems, SequenceTheorems, WellFoundedInduction, TLAPS

Numbers == 0..(MaxFrames - 1)

Places == {"idle", "alert", "warning", "open", "write", "reply", "count", "lock", "mark"}

\* Who works on a buffer found it full, and who writes has the mutex.
Filled ==
  /\ Len(ring) <= RingSize
  /\ \A t \in Threads :
       /\ Len(buff[t].list) <= RingSize
       /\ pc[t] \in {"open", "write", "lock", "mark"} => Len(View(t).list) >= RingSize
       /\ pc[t] \in {"open", "write", "mark"} <=> mutex = t
       /\ pc[t] = "write" => Len(held[t]) = RingSize

\* Without a restart of the source the ring holds the frames before e ...
Run(list, e) ==
  \A i \in 1..Len(list) : list[i].n = e - Len(list) + i - 1 /\ list[i].id = list[i].n

\* ... and the long list some of the frames before b.
Sampled(longList, b) ==
  /\ \A i \in 1..Len(longList) : longList[i].id = longList[i].n /\ longList[i].n < b
  /\ \A i, j \in 1..Len(longList) : i < j => longList[i].n < longList[j].n

InOrder(v, e) == Run(v.list, e) /\ Sampled(v.longList, e - Len(v.list))

Numbered ==
  /\ nextId = next /\ mLastId = next - 1 /\ Len(ring) <= next
  /\ Run(ring, next) /\ Sampled(long, next - Len(ring))
  /\ \A t \in Threads : \E e \in 0..next : InOrder(buff[t], e)

\* How often a number is in a sequence.
Occ(w, k) == Cardinality({i \in 1..Len(w) : w[i] = k})

\* The last image written, where the one who has just written has not said so yet.
Marked == IF mutex # "free" /\ pc[mutex] = "mark" THEN Newest(mutex).id ELSE mLastImageId

\* Who writes a list saw a frame that was not written yet.  The list is not older than that,
\* and what the video shows twice and is not marked was evicted before a live list was read.
HeldRun(t, e) ==
  /\ Run(held[t], e) /\ last[t].n < e /\ e <= Newest(t).n + 1
  /\ buff[t].live => \A k \in Numbers : Occ(video, k) >= 2 => k <= mLastImageId \/ k < e - RingSize

Writing ==
  \A t \in Threads : 
    /\ pc[t] \in {"open", "write", "mark"} => last[t].id = last[t].n /\ last[t].n <= Newest(t).n
    /\ pc[t] \in {"open", "write"} =>
         /\ mLastImageId < last[t].n
         /\ ~buff[t].live => last[t] = Newest(t)
         /\ buff[t].live => \A k \in Numbers : Occ(video, k) >= 1 => k <= last[t].n
    /\ pc[t] = "write" => \E e \in 0..next : HeldRun(t, e)

Increasing(w) == \A i, j \in 1..Len(w) : i < j => w[i] < w[j]

Chronological ==
  "warning" \notin raced => Increasing(video) /\ \A i \in 1..Len(video) : video[i] <= Marked

\* No frame four times; one that is shown three times is marked, one that is shown twice is
\* marked or evicted from the ring, whose first frame is b; and all are before e.
Shown(w, m, b, e) ==
  \A k \in Numbers :
    /\ Occ(w, k) <= 3
    /\ Occ(w, k) >= 1 => k < e
    /\ Occ(w, k) >= 2 => k <= m \/ k < b
    /\ Occ(w, k) >= 3 => k <= m

Repeated ==
  /\ Shown(video, Marked, next - Len(ring), next)
  /\ mLastImageId <= Marked

Session == Numbered /\ Writing /\ Chronological /\ Repeated

IInv == TypeOK /\ Filled /\ (restarts = 0 => Session)

-----------------------------------------------------------------------------
(* Numbers in ascending order. *)

\* A set of numbers that is not empty has a least one.
LEMMA LeastNumber ==
  ASSUME NEW T \in SUBSET Nat, T # {}
  PROVE  \E x \in T : \A y \in T : x <= y
<1>1. IsWellFoundedOn(OpToRel(<, Nat), Nat)
  BY NatLessThanWellFounded
<1> DEFINE R == OpToRel(<, Nat)
<1>2. IsWellFoundedOn(R, Nat)
  BY <1>1
<1>3. \A x, y \in Nat : y < x => <<y, x>> \in R
  BY DEF OpToRel
<1> HIDE DEF R
<1>4. PICK x \in T : \A y \in T : ~(<<y, x>> \in R)
  BY <1>2, WFMin
<1>5. \A y \in T : ~(y < x)
  BY <1>3, <1>4
<1>6. x \in Nat /\ \A y \in T : y \in Nat
  OBVIOUS
<1>7. \A y \in T : x <= y
  BY <1>5, <1>6
<1> QED
  BY <1>7

\* f enumerates S in ascending order.
Enumerates(f, S) ==
  /\ f \in [1..Cardinality(S) -> S]
  /\ \A i, j \in DOMAIN f : i < j => f[i] < f[j]

LEMMA LeastFirst ==
  ASSUME NEW S \in SUBSET Nat, IsFiniteSet(S), NEW x \in S, \A y \in S : x <= y,
         NEW f, Enumerates(f, S \ {x})
  PROVE  \E g : Enumerates(g, S)
<1> DEFINE c == Cardinality(S)
           g == [i \in 1..c |-> IF i = 1 THEN x ELSE f[i - 1]]
<1>1. c \in Nat /\ c # 0 /\ Cardinality(S \ {x}) = c - 1
  BY FS_CardinalityType, FS_EmptySet, FS_RemoveElement
<1> HIDE DEF c
<1>2. /\ f \in [1..(c - 1) -> S \ {x}]
      /\ \A i, j \in 1..(c - 1) : i < j => f[i] < f[j]
  BY <1>1 DEF Enumerates
<1>3. \A i \in 1..c : i # 1 => i - 1 \in 1..(c - 1) /\ f[i - 1] \in S \ {x}
  BY <1>1, <1>2
<1>4. g \in [1..c -> S]
  BY <1>3
<1>5. \A i \in 1..c : g[i] = IF i = 1 THEN x ELSE f[i - 1]
  OBVIOUS
<1> HIDE DEF g
<1>6. ASSUME NEW i \in 1..c, NEW j \in 1..c, i < j
      PROVE  g[i] < g[j]
  <2>1. j # 1 /\ g[j] = f[j - 1] /\ j - 1 \in 1..(c - 1) /\ g[j] \in S \ {x}
    BY <1>1, <1>3, <1>5, <1>6
  <2>2. CASE i = 1
    <3>1. g[i] = x /\ g[j] # x /\ x <= g[j] /\ x \in Nat /\ g[j] \in Nat
      BY <1>5, <2>1, <2>2
    <3> QED
      BY <3>1
  <2>3. CASE i # 1
    <3>1. g[i] = f[i - 1] /\ i - 1 \in 1..(c - 1) /\ i - 1 < j - 1
      BY <1>1, <1>3, <1>5, <1>6, <2>3
    <3> QED
      BY <1>2, <2>1, <3>1
  <2> QED
    BY <2>2, <2>3
<1>7. Enumerates(g, S)
  BY <1>4, <1>6 DEF Enumerates, c
<1> QED
  BY <1>7

\* A set of numbers without an ascending enumeration: none is the smallest such.
LEMMA AscendingExists ==
  ASSUME NEW S \in SUBSET Nat, IsFiniteSet(S)
  PROVE  \E f : Enumerates(f, S)
<1> DEFINE Bad == {n \in Nat : \E R \in SUBSET Nat : /\ IsFiniteSet(R) /\ Cardinality(R) = n
                                                      /\ ~\E f : Enumerates(f, R)}
<1>1. Bad = {}
  <2> SUFFICES ASSUME Bad # {} PROVE FALSE
    OBVIOUS
  <2>1. Bad \in SUBSET Nat
    OBVIOUS
  <2>2. PICK n \in Bad : \A m \in Bad : n <= m
    BY <2>1, LeastNumber
  <2>3. PICK R \in SUBSET Nat : /\ IsFiniteSet(R) /\ Cardinality(R) = n
                                /\ ~\E f : Enumerates(f, R)
    BY <2>2
  <2>4. CASE R = {}
    <3>1. Enumerates([i \in 1..0 |-> i], R)
      BY <2>4, FS_EmptySet DEF Enumerates
    <3> QED
      BY <2>3, <3>1
  <2>5. CASE R # {}
    <3>1. PICK x \in R : \A y \in R : x <= y
      BY <2>5, LeastNumber
    <3>2. /\ IsFiniteSet(R \ {x}) /\ Cardinality(R \ {x}) = n - 1 /\ R \ {x} \in SUBSET Nat
      BY <2>3, FS_RemoveElement
    <3>3. n - 1 \in Nat
      BY <3>2, FS_CardinalityType
    <3>4. n - 1 \notin Bad
      BY <2>1, <2>2, <3>3
    <3>5. PICK f : Enumerates(f, R \ {x})
      BY <3>2, <3>3, <3>4
    <3> QED
      BY <2>3, <3>1, <3>5, LeastFirst
  <2> QED
    BY <2>4, <2>5
<1>2. Cardinality(S) \in Nat
  BY FS_CardinalityType
<1> QED
  BY <1>1, <1>2

LEMMA AscendingFacts ==
  ASSUME NEW S \in SUBSET Nat, IsFiniteSet(S)
  PROVE  Enumerates(Ascending(S), S)
<1>1. \E f \in [1..Cardinality(S) -> S] : \A i, j \in DOMAIN f : i < j => f[i] < f[j]
  BY AscendingExists DEF Enumerates
<1> QED
  BY <1>1 DEF Ascending, Enumerates

-----------------------------------------------------------------------------
(* The frames a writing takes from a list. *)

LEMMA Bounds ==
  /\ RingSize \in Nat \ {0} /\ FrameBefore \in Nat \ {0} /\ FrameAfter \in Nat \ {0}
  /\ MaxFrames \in Nat \ {0} /\ LongSize \in Nat /\ MaxFaults \in Nat
  /\ Threads \subseteq {"algo", "text"} /\ "free" \notin Threads
  BY SizesAssumption

LEMMA FrameFacts ==
  /\ Numbers \subseteq Nat
  /\ \A f \in Frame : f.n \in Numbers /\ f.id \in Numbers /\ f.n \in Nat /\ f.id \in Nat
<1>1. Numbers \subseteq Nat
  BY Bounds DEF Numbers
<1> QED
  BY <1>1 DEF Frame, Numbers

\* Newer takes frames of s in their order.
LEMMA NewerOrder ==
  ASSUME NEW s \in Seq(Frame)
  PROVE  /\ Newer(s) \in Seq(Numbers)
         /\ \E f \in [1..Len(Newer(s)) -> 1..Len(s)] :
              /\ \A i, j \in 1..Len(Newer(s)) : i < j => f[i] < f[j]
              /\ \A i \in 1..Len(Newer(s)) : /\ Newer(s)[i] = s[f[i]].n
                                             /\ s[f[i]].id > mLastImageId
<1> DEFINE new == {i \in DOMAIN s : s[i].id > mLastImageId}
           f == Ascending(new)
           c == Cardinality(new)
<1>1. Len(s) \in Nat /\ DOMAIN s = 1..Len(s) /\ \A i \in 1..Len(s) : s[i] \in Frame
  BY LenProperties, ElementOfSeq
<1>2. new \in SUBSET (1..Len(s)) /\ new \in SUBSET Nat
  BY <1>1
<1>3. IsFiniteSet(new)
  <2>1. IsFiniteSet(1..Len(s))
    BY <1>1, FS_Interval
  <2> QED
    BY <1>2, <2>1, FS_Subset
<1>4. \A i \in new : s[i].id > mLastImageId
  OBVIOUS
<1>5. Newer(s) = [i \in DOMAIN f |-> s[f[i]].n]
  BY DEF Newer
<1> HIDE DEF new
<1>6. Enumerates(f, new)
  BY <1>2, <1>3, AscendingFacts
<1>7. c \in Nat
  BY <1>3, FS_CardinalityType
<1> HIDE DEF f, c
<1>8. f \in [1..c -> new] /\ \A i, j \in 1..c : i < j => f[i] < f[j]
  BY <1>6 DEF Enumerates, c
<1>9. \A i \in 1..c : f[i] \in 1..Len(s) /\ s[f[i]].n \in Numbers
  BY <1>1, <1>2, <1>8, FrameFacts
<1>10. Newer(s) \in [1..c -> Numbers]
  BY <1>5, <1>8, <1>9
<1>11. Newer(s) \in Seq(Numbers) /\ Len(Newer(s)) = c
  BY <1>7, <1>10
<1>12. f \in [1..c -> 1..Len(s)]
  BY <1>2, <1>8
<1>13. \A i \in 1..c : Newer(s)[i] = s[f[i]].n /\ s[f[i]].id > mLastImageId
  BY <1>4, <1>5, <1>8
<1> QED
  BY <1>8, <1>11, <1>12, <1>13

\* Numbers in ascending order, after a and before b.
Between(w, a, b) ==
  /\ w \in Seq(Numbers) /\ Increasing(w)
  /\ \A i \in 1..Len(w) : a < w[i] /\ w[i] < b

\* Of a part of a list with its frames in order, Newer takes the newer ones in order.
LEMMA NewerBetween ==
  ASSUME NEW s \in Seq(Frame), NEW lo \in Int, NEW hi \in Int,
         \A i, j \in 1..Len(s) : i < j => s[i].n < s[j].n,
         \A i \in 1..Len(s) : s[i].id = s[i].n /\ lo <= s[i].n /\ s[i].n < hi
  PROVE  /\ Between(Newer(s), mLastImageId, hi)
         /\ \A i \in 1..Len(Newer(s)) : lo <= Newer(s)[i]
<1>1. /\ Newer(s) \in Seq(Numbers)
      /\ \E f \in [1..Len(Newer(s)) -> 1..Len(s)] :
              /\ \A i, j \in 1..Len(Newer(s)) : i < j => f[i] < f[j]
              /\ \A i \in 1..Len(Newer(s)) : /\ Newer(s)[i] = s[f[i]].n
                                             /\ s[f[i]].id > mLastImageId
  BY NewerOrder
<1> DEFINE w == Newer(s)
<1> HIDE DEF w
<1>2. PICK f \in [1..Len(w) -> 1..Len(s)] :
        /\ \A i, j \in 1..Len(w) : i < j => f[i] < f[j]
        /\ \A i \in 1..Len(w) : w[i] = s[f[i]].n /\ s[f[i]].id > mLastImageId
  BY <1>1 DEF w
<1>3. \A i \in 1..Len(w) : f[i] \in 1..Len(s)
  OBVIOUS
<1>4. Increasing(w)
  BY <1>2, <1>3 DEF Increasing
<1>5. \A i \in 1..Len(w) : mLastImageId < w[i] /\ w[i] < hi /\ lo <= w[i]
  BY <1>2, <1>3
<1> QED
  BY <1>1, <1>4, <1>5 DEF w, Between

\* Two such sequences, one after the other.
LEMMA BetweenJoined ==
  ASSUME NEW a \in Int, NEW b \in Int, NEW c \in Int, b <= c, NEW u, NEW w,
         Between(u, a, b), Between(w, a, c), \A i \in 1..Len(w) : b <= w[i]
  PROVE  Between(u \o w, a, c)
<1>1. /\ u \in Seq(Numbers) /\ w \in Seq(Numbers) /\ Len(u) \in Nat /\ Len(w) \in Nat
      /\ \A i \in 1..Len(u) : u[i] \in Nat
      /\ \A i \in 1..Len(w) : w[i] \in Nat
  BY LenProperties, ElementOfSeq, FrameFacts DEF Between
<1> DEFINE z == u \o w
<1>2. /\ z \in Seq(Numbers) /\ Len(z) = Len(u) + Len(w)
      /\ \A i \in 1..(Len(u) + Len(w)) :
           z[i] = IF i <= Len(u) THEN u[i] ELSE w[i - Len(u)]
  BY <1>1, ConcatProperties
<1> HIDE DEF z
<1>3. \A i \in 1..Len(z) : \/ i <= Len(u) /\ i \in 1..Len(u) /\ z[i] = u[i]
                           \/ i > Len(u) /\ i - Len(u) \in 1..Len(w) /\ z[i] = w[i - Len(u)]
  BY <1>1, <1>2
<1>4. ASSUME NEW i \in 1..Len(z), NEW j \in 1..Len(z), i < j
      PROVE  z[i] < z[j]
  <2>1. CASE j <= Len(u)
    <3>1. i \in 1..Len(u) /\ j \in 1..Len(u) /\ z[i] = u[i] /\ z[j] = u[j]
      BY <1>1, <1>2, <1>3, <1>4, <2>1
    <3> QED
      BY <1>4, <3>1 DEF Between, Increasing
  <2>2. CASE j > Len(u) /\ i <= Len(u)
    <3>1. i \in 1..Len(u) /\ z[i] = u[i] /\ j - Len(u) \in 1..Len(w) /\ z[j] = w[j - Len(u)]
      BY <1>1, <1>2, <1>3, <2>2
    <3>2. u[i] < b /\ b <= w[j - Len(u)] /\ u[i] \in Nat /\ w[j - Len(u)] \in Nat
      BY <1>1, <3>1 DEF Between
    <3> QED
      BY <3>1, <3>2
  <2>3. CASE i > Len(u)
    <3>1. /\ i - Len(u) \in 1..Len(w) /\ j - Len(u) \in 1..Len(w) /\ i - Len(u) < j - Len(u)
          /\ z[i] = w[i - Len(u)] /\ z[j] = w[j - Len(u)]
      BY <1>1, <1>2, <1>3, <1>4, <2>3
    <3> QED
      BY <3>1 DEF Between, Increasing
  <2> QED
    BY <1>1, <1>2, <2>1, <2>2, <2>3
<1>5. ASSUME NEW i \in 1..Len(z)
      PROVE  a < z[i] /\ z[i] < c
  <2>1. CASE i \in 1..Len(u) /\ z[i] = u[i]
    <3>1. a < u[i] /\ u[i] < b /\ u[i] \in Nat
      BY <1>1, <2>1 DEF Between
    <3> QED
      BY <2>1, <3>1
  <2>2. CASE i - Len(u) \in 1..Len(w) /\ z[i] = w[i - Len(u)]
    BY <2>2 DEF Between
  <2> QED
    BY <1>3, <2>1, <2>2
<1> QED
  BY <1>2, <1>4, <1>5 DEF Between, Increasing, z

\* A part of a list.
LEMMA PartOf ==
  ASSUME NEW s \in Seq(Frame), NEW a \in Nat \ {0}, NEW b \in Int, b <= Len(s)
  PROVE  /\ SubSeq(s, a, b) \in Seq(Frame)
         /\ \A i \in 1..Len(SubSeq(s, a, b)) :
              a + i - 1 \in 1..b /\ SubSeq(s, a, b)[i] = s[a + i - 1]
<1>1. Len(s) \in Nat /\ \A i \in a..b : s[i] \in Frame
  BY LenProperties, ElementOfSeq
<1>2. /\ SubSeq(s, a, b) \in Seq(Frame)
      /\ Len(SubSeq(s, a, b)) = (IF a <= b THEN b - a + 1 ELSE 0)
      /\ \A i \in 1..(b - a + 1) : SubSeq(s, a, b)[i] = s[a + i - 1]
  BY <1>1, SubSeqProperties
<1> DEFINE p == SubSeq(s, a, b)
<1> HIDE DEF p
<1>3. ASSUME NEW i \in 1..Len(p)
      PROVE  a + i - 1 \in 1..b /\ p[i] = s[a + i - 1]
  <2>1. i \in 1..(b - a + 1)
    BY <1>1, <1>2 DEF p
  <2> QED
    BY <1>1, <1>2, <2>1 DEF p
<1> QED
  BY <1>2, <1>3 DEF p

\* The frames before an alert are frames of the view.
LEMMA BeforeType ==
  ASSUME NEW v, v.list \in Seq(Frame), v.longList \in Seq(Frame)
  PROVE  Before(v) \in Seq(Numbers)
<1>1. Len(v.list) \in Nat /\ Len(v.longList) \in Nat /\ FrameBefore \in Nat
  BY LenProperties, Bounds
<1>2. /\ SubSeq(v.longList, 1, Len(v.longList) - 1) \in Seq(Frame)
      /\ SubSeq(v.list, 1, Len(v.list) - 1) \in Seq(Frame)
  BY <1>1, PartOf
<1>3. CASE FrameBefore - Len(v.list) <= 0
  <2>1. 1 - (FrameBefore - Len(v.list)) \in Nat \ {0}
    BY <1>1, <1>3
  <2>2. SubSeq(v.list, 1 - (FrameBefore - Len(v.list)), Len(v.list) - 1) \in Seq(Frame)
    BY <1>1, <2>1, PartOf
  <2> QED
    BY <1>3, <2>2, NewerOrder DEF Before
<1>4. CASE ~(FrameBefore - Len(v.list) <= 0)
  <2> DEFINE u == IF Len(v.longList) < FrameBefore - Len(v.list)
                    THEN Newer(SubSeq(v.longList, 1, Len(v.longList) - 1)) ELSE <<>>
             w == Newer(SubSeq(v.list, 1, Len(v.list) - 1))
  <2>1. u \in Seq(Numbers) /\ w \in Seq(Numbers)
    BY <1>2, NewerOrder, EmptySeq
  <2>2. Before(v) = u \o w
    BY <1>4 DEF Before
  <2> HIDE DEF u, w
  <2> QED
    BY <2>1, <2>2, ConcatProperties
<1> QED
  BY <1>3, <1>4

\* From the ring come frames after the long list's, and not the newest.
LEMMA RingPart ==
  ASSUME NEW l \in Seq(Frame), NEW e \in Int, Run(l, e), NEW a \in Nat \ {0}, mLastImageId \in Int
  PROVE  /\ Between(Newer(SubSeq(l, a, Len(l) - 1)), mLastImageId, e - 1)
         /\ \A i \in 1..Len(Newer(SubSeq(l, a, Len(l) - 1))) :
              e - Len(l) <= Newer(SubSeq(l, a, Len(l) - 1))[i]
<1> DEFINE s == SubSeq(l, a, Len(l) - 1)
<1>1. Len(l) \in Nat
  BY LenProperties
<1>2. /\ s \in Seq(Frame)
      /\ \A i \in 1..Len(s) : a + i - 1 \in 1..(Len(l) - 1) /\ s[i] = l[a + i - 1]
  BY <1>1, PartOf
<1> HIDE DEF s
<1>3. ASSUME NEW i \in 1..Len(s)
      PROVE  /\ s[i].n = e - Len(l) + (a + i - 1) - 1 /\ s[i].id = s[i].n
             /\ e - Len(l) <= s[i].n /\ s[i].n < e - 1
  <2>1. a + i - 1 \in 1..(Len(l) - 1) /\ a + i - 1 \in 1..Len(l) /\ s[i] = l[a + i - 1]
    BY <1>1, <1>2
  <2>2. s[i].n = e - Len(l) + (a + i - 1) - 1 /\ s[i].id = s[i].n
    BY <2>1 DEF Run
  <2> QED
    BY <1>1, <2>1, <2>2
<1>4. ASSUME NEW i \in 1..Len(s), NEW j \in 1..Len(s), i < j
      PROVE  s[i].n < s[j].n
  <2>1. s[i].n = e - Len(l) + (a + i - 1) - 1 /\ s[j].n = e - Len(l) + (a + j - 1) - 1
    BY <1>3
  <2> QED
    BY <1>1, <1>4, <2>1
<1>5. /\ Between(Newer(s), mLastImageId, e - 1)
      /\ \A i \in 1..Len(Newer(s)) : e - Len(l) <= Newer(s)[i]
  <2> DEFINE lo == e - Len(l)
             hi == e - 1
  <2>1. /\ lo \in Int /\ hi \in Int
        /\ \A i \in 1..Len(s) : s[i].id = s[i].n /\ lo <= s[i].n /\ s[i].n < hi
    BY <1>1, <1>3
  <2> HIDE DEF lo, hi
  <2>2. Between(Newer(s), mLastImageId, hi) /\ \A i \in 1..Len(Newer(s)) : lo <= Newer(s)[i]
    BY <1>2, <1>4, <2>1, NewerBetween
  <2> QED
    BY <2>2 DEF lo, hi
<1> QED
  BY <1>5 DEF s

LEMMA LongPart ==
  ASSUME NEW g \in Seq(Frame), NEW h \in Int, Sampled(g, h), mLastImageId \in Int
  PROVE  Between(Newer(SubSeq(g, 1, Len(g) - 1)), mLastImageId, h)
<1> DEFINE s == SubSeq(g, 1, Len(g) - 1)
<1>1. Len(g) \in Nat
  BY LenProperties
<1>2. /\ s \in Seq(Frame)
      /\ \A i \in 1..Len(s) : 1 + i - 1 \in 1..(Len(g) - 1) /\ s[i] = g[1 + i - 1]
  BY <1>1, PartOf
<1> HIDE DEF s
<1>3. \A i \in 1..Len(s) : i \in 1..Len(g) /\ s[i] = g[i]
  <2> SUFFICES ASSUME NEW i \in 1..Len(s) PROVE i \in 1..Len(g) /\ s[i] = g[i]
    OBVIOUS
  <2>1. 1 + i - 1 = i
    OBVIOUS
  <2> QED
    BY <1>1, <1>2, <2>1
<1>4. \A i \in 1..Len(s) : s[i].id = s[i].n /\ s[i].n < h
  BY <1>3 DEF Sampled
<1>5. \A i \in 1..Len(s) : 0 <= s[i].n
  BY <1>2, ElementOfSeq, FrameFacts
<1>6. \A i, j \in 1..Len(s) : i < j => s[i].n < s[j].n
  BY <1>3 DEF Sampled
<1>7. Between(Newer(s), mLastImageId, h)
  <2>1. \A i \in 1..Len(s) : s[i].id = s[i].n /\ 0 <= s[i].n /\ s[i].n < h
    BY <1>4, <1>5
  <2>2. 0 \in Int
    OBVIOUS
  <2> QED
    BY <1>2, <1>6, <2>1, <2>2, NewerBetween
<1> QED
  BY <1>7 DEF s

\* What is written before an alert: frames of the long list, before b, and frames of the list,
\* which ends before e; all after the last image written, each in order.
LEMMA BeforeParts ==
  ASSUME NEW v, v.list \in Seq(Frame), v.longList \in Seq(Frame), Len(v.list) > 0,
         NEW e \in Int, NEW b \in Int, Run(v.list, e), Sampled(v.longList, b),
         mLastImageId \in Int
  PROVE  \E u, w : /\ Before(v) = u \o w
                   /\ Between(u, mLastImageId, b)
                   /\ Between(w, mLastImageId, e - 1)
                   /\ \A i \in 1..Len(w) : e - Len(v.list) <= w[i]
<1> DEFINE l == v.list
           g == v.longList
<1>1. l \in Seq(Frame) /\ g \in Seq(Frame) /\ Len(l) > 0 /\ Run(l, e) /\ Sampled(g, b)
  OBVIOUS
<1>2. Before(v) = LET missing == FrameBefore - Len(l)
                  IN  IF missing <= 0 THEN Newer(SubSeq(l, 1 - missing, Len(l) - 1))
                      ELSE (IF Len(g) < missing
                              THEN Newer(SubSeq(g, 1, Len(g) - 1)) ELSE <<>>)
                           \o Newer(SubSeq(l, 1, Len(l) - 1))
  BY DEF Before
<1> SUFFICES \E u, w : /\ Before(v) = u \o w
                       /\ Between(u, mLastImageId, b)
                       /\ Between(w, mLastImageId, e - 1)
                       /\ \A i \in 1..Len(w) : e - Len(l) <= w[i]
  OBVIOUS
<1> HIDE DEF l, g
<1>3. Len(l) \in Nat /\ FrameBefore \in Nat
  BY <1>1, LenProperties, Bounds
<1>4. Between(<<>>, mLastImageId, b)
  BY EmptySeq DEF Between, Increasing
<1>5. CASE FrameBefore - Len(l) <= 0
  <2> DEFINE a == 1 - (FrameBefore - Len(l))
             w == Newer(SubSeq(l, a, Len(l) - 1))
  <2>1. a \in Nat \ {0}
    BY <1>3, <1>5
  <2>2. Before(v) = w
    BY <1>2, <1>5
  <2> HIDE DEF a
  <2>3. Between(w, mLastImageId, e - 1) /\ \A i \in 1..Len(w) : e - Len(l) <= w[i]
    BY <1>1, <2>1, RingPart
  <2> HIDE DEF w
  <2>4. Before(v) = <<>> \o w
    BY <2>2, <2>3, ConcatEmptySeq DEF Between
  <2> QED
    BY <1>4, <2>3, <2>4
<1>6. CASE ~(FrameBefore - Len(l) <= 0)
  <2> DEFINE u == IF Len(g) < FrameBefore - Len(l) THEN Newer(SubSeq(g, 1, Len(g) - 1)) ELSE <<>>
             w == Newer(SubSeq(l, 1, Len(l) - 1))
  <2>1. Before(v) = u \o w
    BY <1>2, <1>6
  <2>2. Between(w, mLastImageId, e - 1) /\ \A i \in 1..Len(w) : e - Len(l) <= w[i]
    BY <1>1, RingPart
  <2>3. Between(u, mLastImageId, b)
    BY <1>1, <1>4, LongPart
  <2> HIDE DEF u, w
  <2> QED
    BY <2>1, <2>2, <2>3
<1> QED
  BY <1>5, <1>6

-----------------------------------------------------------------------------
(* The video grows by numbers in ascending order. *)

LEMMA GrownUnits ==
  ASSUME NEW v \in Seq(Numbers), NEW w \in Seq(Numbers)
  PROVE  /\ v \o w \in Seq(Numbers) /\ Len(v \o w) = Len(v) + Len(w)
         /\ Len(v) \in Nat /\ Len(w) \in Nat
         /\ \A i \in 1..Len(v \o w) :
              \/ i \in 1..Len(v) /\ (v \o w)[i] = v[i] /\ v[i] \in Nat
              \/ i > Len(v) /\ i - Len(v) \in 1..Len(w) /\ (v \o w)[i] = w[i - Len(v)]
                 /\ w[i - Len(v)] \in Nat
<1>1. Len(v) \in Nat /\ Len(w) \in Nat
  BY LenProperties
<1> DEFINE z == v \o w
<1>2. /\ z \in Seq(Numbers) /\ Len(z) = Len(v) + Len(w)
      /\ \A i \in 1..(Len(v) + Len(w)) :
           z[i] = IF i <= Len(v) THEN v[i] ELSE w[i - Len(v)]
  BY <1>1, ConcatProperties
<1> HIDE DEF z
<1>3. /\ \A i \in 1..Len(v) : v[i] \in Nat
      /\ \A i \in 1..Len(w) : w[i] \in Nat
  BY ElementOfSeq, FrameFacts
<1>4. \A i \in 1..Len(z) :
        \/ i \in 1..Len(v) /\ z[i] = v[i] /\ v[i] \in Nat
        \/ i > Len(v) /\ i - Len(v) \in 1..Len(w) /\ z[i] = w[i - Len(v)] /\ w[i - Len(v)] \in Nat
  BY <1>1, <1>2, <1>3
<1> QED
  BY <1>1, <1>2, <1>4 DEF z

\* Of two equal numbers the later one is a new one: the earlier one is not.
LEMMA GrownIncreasing ==
  ASSUME NEW v \in Seq(Numbers), NEW w, NEW a \in Int, NEW b \in Int, Between(w, a, b),
         Increasing(v), \A i \in 1..Len(v) : v[i] <= a, a < b
  PROVE  Increasing(v \o w) /\ \A i \in 1..Len(v \o w) : (v \o w)[i] < b
<1> DEFINE z == v \o w
<1>1. /\ w \in Seq(Numbers) /\ \A k, m \in 1..Len(w) : k < m => w[k] < w[m]
      /\ \A k \in 1..Len(w) : a < w[k] /\ w[k] < b
  BY DEF Between, Increasing
<1>2. /\ Len(v) \in Nat /\ Len(w) \in Nat
      /\ \A k \in 1..Len(z) :
           \/ k \in 1..Len(v) /\ z[k] = v[k] /\ v[k] \in Nat
           \/ /\ k > Len(v) /\ k - Len(v) \in 1..Len(w)
              /\ z[k] = w[k - Len(v)] /\ w[k - Len(v)] \in Nat
  BY <1>1, GrownUnits
<1>3. Len(z) \in Nat
  BY <1>1, GrownUnits
<1> HIDE DEF z
<1>4. ASSUME NEW i \in 1..Len(z), NEW j \in 1..Len(z), i < j
      PROVE  z[i] < z[j]
  <2>1. CASE j \in 1..Len(v)
    <3>1. i \in 1..Len(v) /\ z[i] = v[i] /\ z[j] = v[j]
      BY <1>2, <1>3, <1>4, <2>1
    <3> QED
      BY <1>4, <2>1, <3>1 DEF Increasing
  <2>2. CASE i \in 1..Len(v) /\ j > Len(v)
    <3>1. /\ z[i] = v[i] /\ v[i] \in Nat /\ z[j] = w[j - Len(v)] /\ j - Len(v) \in 1..Len(w)
          /\ w[j - Len(v)] \in Nat
      BY <1>2, <2>2
    <3>2. v[i] <= a /\ a < w[j - Len(v)]
      BY <1>1, <2>2, <3>1
    <3> QED
      BY <3>1, <3>2
  <2>3. CASE i > Len(v)
    <3>1. /\ i - Len(v) \in 1..Len(w) /\ j - Len(v) \in 1..Len(w) /\ i - Len(v) < j - Len(v)
          /\ z[i] = w[i - Len(v)] /\ z[j] = w[j - Len(v)]
      BY <1>2, <1>3, <1>4, <2>3
    <3> QED
      BY <1>1, <3>1
  <2> QED
    BY <1>2, <1>4, <2>1, <2>2, <2>3
<1>5. ASSUME NEW i \in 1..Len(z)
      PROVE  z[i] < b
  <2>1. CASE i \in 1..Len(v) /\ z[i] = v[i] /\ v[i] \in Nat
    <3>1. v[i] <= a
      BY <2>1
    <3> QED
      BY <2>1, <3>1
  <2>2. CASE i - Len(v) \in 1..Len(w) /\ z[i] = w[i - Len(v)]
    BY <1>1, <2>2
  <2> QED
    BY <1>2, <2>1, <2>2
<1> QED
  BY <1>4, <1>5 DEF z, Increasing

\* The places of a number, and how many there are.
LEMMA OccFacts ==
  ASSUME NEW w \in Seq(Numbers), NEW k
  PROVE  /\ IsFiniteSet({i \in 1..Len(w) : w[i] = k})
         /\ Occ(w, k) \in Nat
         /\ Occ(w, k) >= 1 <=> \E i \in 1..Len(w) : w[i] = k
         /\ Increasing(w) => Occ(w, k) <= 1
<1> DEFINE S == {i \in 1..Len(w) : w[i] = k}
<1>1. Len(w) \in Nat
  BY LenProperties
<1>2. IsFiniteSet(S)
  <2>1. S \in SUBSET (1..Len(w)) /\ IsFiniteSet(1..Len(w))
    BY <1>1, FS_Interval
  <2> QED
    BY <2>1, FS_Subset
<1>3. Occ(w, k) = Cardinality(S) /\ Cardinality(S) \in Nat
  BY <1>2, FS_CardinalityType DEF Occ
<1>4. Cardinality(S) = 0 <=> S = {}
  BY <1>2, FS_EmptySet
<1>5. Occ(w, k) >= 1 <=> \E i \in 1..Len(w) : w[i] = k
  <2>1. S # {} <=> \E i \in 1..Len(w) : w[i] = k
    OBVIOUS
  <2> QED
    BY <1>3, <1>4, <2>1
<1>6. ASSUME Increasing(w) PROVE Cardinality(S) <= 1
  <2>1. CASE S = {}
    BY <1>4, <2>1
  <2>2. CASE S # {}
    <3>1. PICK x : x \in S
      BY <2>2
    <3>2. S = {x}
      <4> SUFFICES ASSUME NEW y \in S PROVE y = x
        BY <3>1
      <4>1. x \in 1..Len(w) /\ y \in 1..Len(w) /\ w[x] = k /\ w[y] = k /\ w[x] \in Nat
        BY <3>1, ElementOfSeq, FrameFacts
      <4>2. ~(x < y) /\ ~(y < x)
        BY <1>6, <4>1 DEF Increasing
      <4> QED
        BY <1>1, <4>1, <4>2
    <3>3. Cardinality({x}) = 1
      BY FS_Singleton
    <3> HIDE DEF S
    <3> QED
      BY <3>2, <3>3
  <2> QED
    BY <2>1, <2>2
<1> QED
  BY <1>2, <1>3, <1>5, <1>6

LEMMA OccJoined ==
  ASSUME NEW v \in Seq(Numbers), NEW w \in Seq(Numbers), NEW k
  PROVE  Occ(v \o w, k) = Occ(v, k) + Occ(w, k)
<1> DEFINE z == v \o w
           A == {i \in 1..Len(v) : v[i] = k}
           B == {i \in 1..Len(w) : w[i] = k}
           C == {i \in 1..Len(z) : z[i] = k}
           D == {i \in C : i > Len(v)}
           f == [i \in B |-> i + Len(v)]
<1>1. /\ z \in Seq(Numbers) /\ Len(z) = Len(v) + Len(w) /\ Len(v) \in Nat /\ Len(w) \in Nat
      /\ \A i \in 1..(Len(v) + Len(w)) : z[i] = IF i <= Len(v) THEN v[i] ELSE w[i - Len(v)]
  BY LenProperties, ConcatProperties
<1>2. IsFiniteSet(A) /\ IsFiniteSet(B)
  BY OccFacts
<1> HIDE DEF z
<1>3. C = A \cup D /\ A \cap D = {}
  <2>1. \A i \in 1..Len(z) : i <= Len(v) => i \in 1..Len(v) /\ z[i] = v[i]
    BY <1>1
  <2>2. \A i \in 1..Len(v) : i \in 1..Len(z) /\ z[i] = v[i] /\ ~(i > Len(v))
    BY <1>1
  <2>3. \A i \in C : i \in A \/ i \in D
    BY <1>1, <2>1
  <2>4. \A i \in A : i \in C /\ i \notin D
    BY <2>2
  <2> QED
    BY <2>3, <2>4
<1>4. \A i \in B : i + Len(v) \in D
  <2> SUFFICES ASSUME NEW i \in B PROVE i + Len(v) \in D
    OBVIOUS
  <2>1. i \in 1..Len(w) /\ w[i] = k
    OBVIOUS
  <2>2. i + Len(v) \in 1..Len(z) /\ i + Len(v) > Len(v) /\ z[i + Len(v)] = w[i]
    <3>1. (i + Len(v)) - Len(v) = i /\ i + Len(v) \in 1..(Len(v) + Len(w)) /\ i + Len(v) > Len(v)
      BY <1>1, <2>1
    <3> QED
      BY <1>1, <3>1
  <2> QED
    BY <2>1, <2>2
<1>5. \A j \in D : j - Len(v) \in B /\ j = (j - Len(v)) + Len(v)
  <2> SUFFICES ASSUME NEW j \in D PROVE j - Len(v) \in B /\ j = (j - Len(v)) + Len(v)
    OBVIOUS
  <2>1. j \in 1..Len(z) /\ j > Len(v) /\ z[j] = k
    OBVIOUS
  <2>2. j - Len(v) \in 1..Len(w) /\ z[j] = w[j - Len(v)] /\ j = (j - Len(v)) + Len(v)
    BY <1>1, <2>1
  <2> QED
    BY <2>1, <2>2
<1>6. \A i \in B : i \in Int
  OBVIOUS
<1>7. f \in Bijection(B, D)
  <2>1. f \in [B -> D]
    BY <1>4
  <2>2. \A i, j \in B : f[i] = f[j] => i = j
    BY <1>1, <1>6
  <2>3. \A j \in D : \E i \in B : f[i] = j
    BY <1>5
  <2> QED
    BY <2>1, <2>2, <2>3 DEF Bijection, Injection, IsInjective, Surjection
<1> HIDE DEF A, B, C, D, f
<1>8. IsFiniteSet(D) /\ Cardinality(D) = Cardinality(B)
  <2>1. \E g : g \in Bijection(B, D)
    BY <1>7
  <2> QED
    BY <1>2, <2>1, FS_Bijection DEF ExistsBijection
<1>9. Cardinality(C) = Cardinality(A) + Cardinality(D) - Cardinality(A \cap D)
  BY <1>2, <1>3, <1>8, FS_Union
<1>10. Cardinality(A \cap D) = 0 /\ Cardinality(A) \in Nat /\ Cardinality(D) \in Nat
  BY <1>2, <1>3, <1>8, FS_EmptySet, FS_CardinalityType
<1>11. Cardinality(C) = Cardinality(A) + Cardinality(B)
  BY <1>8, <1>9, <1>10
<1> QED
  BY <1>11 DEF Occ, A, B, C, z

\* A number that is not between a and b is not among numbers that are.
LEMMA OccBetween ==
  ASSUME NEW a \in Int, NEW b \in Int, NEW w, Between(w, a, b), NEW k \in Numbers
  PROVE  /\ Occ(w, k) \in {0, 1}
         /\ Occ(w, k) = 1 => \E i \in 1..Len(w) : w[i] = k
         /\ Occ(w, k) = 1 => a < k /\ k < b
<1>1. w \in Seq(Numbers) /\ Increasing(w) /\ \A i \in 1..Len(w) : a < w[i] /\ w[i] < b
  BY DEF Between
<1>2. /\ Occ(w, k) \in Nat /\ Occ(w, k) <= 1
      /\ Occ(w, k) >= 1 => \E i \in 1..Len(w) : w[i] = k
  BY <1>1, OccFacts
<1> QED
  BY <1>1, <1>2


-----------------------------------------------------------------------------
(* The lists of the buffer. *)

LEMMA RunGrows ==
  ASSUME NEW r \in Seq(Frame), NEW e \in Int, Run(r, e), NEW x \in Frame, x.n = e, x.id = e
  PROVE  Append(r, x) \in Seq(Frame) /\ Len(Append(r, x)) = Len(r) + 1 /\ Run(Append(r, x), e + 1)
<1> DEFINE z == Append(r, x)
<1>1. /\ Len(r) \in Nat /\ z \in Seq(Frame) /\ Len(z) = Len(r) + 1
      /\ \A i \in 1..Len(r) : z[i] = r[i]
      /\ z[Len(r) + 1] = x
  BY LenProperties, AppendProperties
<1> HIDE DEF z
<1>2. ASSUME NEW i \in 1..Len(z)
      PROVE  z[i].n = e + 1 - Len(z) + i - 1 /\ z[i].id = z[i].n
  <2>1. CASE i \in 1..Len(r)
    <3>1. z[i] = r[i] /\ r[i].n = e - Len(r) + i - 1 /\ r[i].id = r[i].n
      BY <1>1, <2>1 DEF Run
    <3> QED
      BY <1>1, <3>1
  <2>2. CASE i = Len(r) + 1
    BY <1>1, <2>2
  <2> QED
    BY <1>1, <2>1, <2>2
<1> QED
  BY <1>1, <1>2 DEF z, Run

LEMMA RunTail ==
  ASSUME NEW r \in Seq(Frame), NEW e \in Int, Run(r, e), r # <<>>
  PROVE  Tail(r) \in Seq(Frame) /\ Len(Tail(r)) = Len(r) - 1 /\ Run(Tail(r), e)
<1> DEFINE z == Tail(r)
<1>1. /\ Len(r) \in Nat /\ z \in Seq(Frame) /\ Len(z) = Len(r) - 1
      /\ \A i \in 1..Len(z) : z[i] = r[i + 1]
  BY LenProperties, HeadTailProperties
<1> HIDE DEF z
<1>2. ASSUME NEW i \in 1..Len(z)
      PROVE  z[i].n = e - Len(z) + i - 1 /\ z[i].id = z[i].n
  <2>1. i + 1 \in 1..Len(r) /\ z[i] = r[i + 1]
    BY <1>1
  <2>2. r[i + 1].n = e - Len(r) + (i + 1) - 1 /\ r[i + 1].id = r[i + 1].n
    BY <2>1 DEF Run
  <2> QED
    BY <1>1, <2>1, <2>2
<1> QED
  BY <1>1, <1>2 DEF z, Run

LEMMA SampledGrows ==
  ASSUME NEW g \in Seq(Frame), NEW b \in Int, Sampled(g, b), NEW x \in Frame, x.n = b, x.id = b
  PROVE  Append(g, x) \in Seq(Frame) /\ Append(g, x) # <<>> /\ Sampled(Append(g, x), b + 1)
<1> DEFINE z == Append(g, x)
<1>1. /\ Len(g) \in Nat /\ z \in Seq(Frame) /\ Len(z) = Len(g) + 1
      /\ \A i \in 1..Len(g) : z[i] = g[i]
      /\ z[Len(g) + 1] = x
  BY LenProperties, AppendProperties
<1>2. z # <<>>
  BY <1>1, EmptySeq
<1> HIDE DEF z
<1>3. \A i \in 1..Len(g) : g[i].n \in Nat
  BY ElementOfSeq, FrameFacts
<1>4. \A i \in 1..Len(z) : \/ i \in 1..Len(g) /\ z[i] = g[i]
                           \/ i = Len(g) + 1 /\ z[i] = x
  BY <1>1
<1>5. \A i \in 1..Len(z) : z[i].id = z[i].n /\ z[i].n < b + 1
  BY <1>3, <1>4 DEF Sampled
<1>6. ASSUME NEW i \in 1..Len(z), NEW j \in 1..Len(z), i < j
      PROVE  z[i].n < z[j].n
  <2>1. i \in 1..Len(g) /\ z[i] = g[i]
    BY <1>1, <1>4, <1>6
  <2> QED
    BY <1>4, <1>6, <2>1 DEF Sampled
<1> QED
  BY <1>1, <1>2, <1>5, <1>6 DEF z, Sampled

LEMMA SampledTail ==
  ASSUME NEW g \in Seq(Frame), NEW b \in Int, Sampled(g, b), g # <<>>
  PROVE  Tail(g) \in Seq(Frame) /\ Sampled(Tail(g), b)
<1> DEFINE z == Tail(g)
<1>1. /\ Len(g) \in Nat /\ z \in Seq(Frame) /\ Len(z) = Len(g) - 1
      /\ \A i \in 1..Len(z) : z[i] = g[i + 1]
  BY LenProperties, HeadTailProperties
<1> HIDE DEF z
<1>2. \A i \in 1..Len(z) : i + 1 \in 1..Len(g)
  BY <1>1
<1>3. \A i \in 1..Len(z) : z[i].id = z[i].n /\ z[i].n < b
  BY <1>1, <1>2 DEF Sampled
<1>4. ASSUME NEW i \in 1..Len(z), NEW j \in 1..Len(z), i < j
      PROVE  z[i].n < z[j].n
  <2>1. i + 1 \in 1..Len(g) /\ j + 1 \in 1..Len(g) /\ i + 1 < j + 1
    BY <1>1, <1>4
  <2> QED
    BY <1>1, <2>1 DEF Sampled
<1> QED
  BY <1>1, <1>3, <1>4 DEF z, Sampled

LEMMA SampledLater ==
  ASSUME NEW g \in Seq(Frame), NEW b \in Int, NEW c \in Int, b <= c, Sampled(g, b)
  PROVE  Sampled(g, c)
<1>1. \A i \in 1..Len(g) : g[i].n \in Nat
  BY ElementOfSeq, FrameFacts
<1> QED
  BY <1>1 DEF Sampled

-----------------------------------------------------------------------------
(* What a thread reads. *)

\* What the buffer of a thread is: the live one, or a copy of its own.
LEMMA ViewFacts ==
  ASSUME TypeOK
  PROVE  \A t \in Threads :
           /\ View(t).list \in Seq(Frame) /\ View(t).longList \in Seq(Frame)
           /\ Len(View(t).list) \in Nat
           /\ buff[t].live => View(t).list = ring /\ View(t).longList = long
           /\ ~buff[t].live => View(t).list = buff[t].list /\ View(t).longList = buff[t].longList
<1> SUFFICES ASSUME NEW t \in Threads
             PROVE  /\ View(t).list \in Seq(Frame) /\ View(t).longList \in Seq(Frame)
                    /\ Len(View(t).list) \in Nat
                    /\ buff[t].live => View(t).list = ring /\ View(t).longList = long
                    /\ ~buff[t].live => /\ View(t).list = buff[t].list
                                        /\ View(t).longList = buff[t].longList
  OBVIOUS
<1>1. /\ buff[t].live => View(t).list = ring /\ View(t).longList = long
      /\ ~buff[t].live => View(t).list = buff[t].list /\ View(t).longList = buff[t].longList
  BY DEF View
<1>2. /\ buff[t].list \in Seq(Frame) /\ buff[t].longList \in Seq(Frame)
      /\ ring \in Seq(Frame) /\ long \in Seq(Frame)
  BY DEF TypeOK
<1>3. View(t).list \in Seq(Frame) /\ View(t).longList \in Seq(Frame)
  BY <1>1, <1>2
<1> QED
  BY <1>1, <1>3, LenProperties

LEMMA NewestType ==
  ASSUME TypeOK
  PROVE  \A t \in Threads : Len(View(t).list) > 0 => Newest(t) \in Frame
<1> SUFFICES ASSUME NEW t \in Threads, Len(View(t).list) > 0 PROVE Newest(t) \in Frame
  OBVIOUS
<1>1. View(t).list \in Seq(Frame) /\ Len(View(t).list) \in Nat
  BY ViewFacts
<1>2. Len(View(t).list) \in 1..Len(View(t).list)
  BY <1>1
<1> QED
  BY <1>1, <1>2, ElementOfSeq DEF LastOf, Newest

\* The newest frame of a list in order is the one before its end.
LEMMA RunLast ==
  ASSUME NEW r \in Seq(Frame), NEW e \in Int, Run(r, e), Len(r) > 0
  PROVE  LastOf(r) \in Frame /\ LastOf(r).n = e - 1 /\ LastOf(r).id = e - 1
<1>1. Len(r) \in Nat /\ Len(r) \in 1..Len(r)
  BY LenProperties
<1>2. r[Len(r)].n = e - Len(r) + Len(r) - 1 /\ r[Len(r)].id = r[Len(r)].n
  BY <1>1 DEF Run
<1>3. r[Len(r)] \in Frame
  BY <1>1, ElementOfSeq
<1> QED
  BY <1>1, <1>2, <1>3 DEF LastOf

\* In a session the list of a thread ends before some frame e, the live one before the next.
LEMMA NewestFacts ==
  ASSUME TypeOK, Numbered, NEW t \in Threads, Len(View(t).list) > 0
  PROVE  /\ Newest(t) \in Frame /\ Newest(t).id = Newest(t).n /\ Newest(t).n \in Nat
         /\ Newest(t).n < next
         /\ InOrder(View(t), Newest(t).n + 1)
         /\ buff[t].live => Newest(t).n = next - 1
<1>1. /\ View(t).list \in Seq(Frame) /\ View(t).longList \in Seq(Frame)
      /\ Len(View(t).list) \in Nat /\ next \in Nat
  BY ViewFacts, Bounds DEF TypeOK
<1>2. PICK e \in 0..next : InOrder(View(t), e) /\ (buff[t].live => e = next)
  <2>1. CASE ~buff[t].live
    <3>1. PICK e \in 0..next : InOrder(buff[t], e)
      BY DEF Numbered
    <3>2. InOrder(View(t), e)
      BY <2>1, <3>1, ViewFacts DEF InOrder
    <3> QED
      BY <2>1, <3>2
  <2>2. CASE buff[t].live
    <3>1. InOrder(View(t), next)
      BY <2>2, ViewFacts DEF InOrder, Numbered
    <3>2. next \in 0..next
      BY <1>1
    <3> QED
      BY <3>1, <3>2
  <2> QED
    BY <2>1, <2>2
<1>3. e \in Int /\ e <= next
  BY <1>1
<1> DEFINE x == Newest(t)
<1>4. x \in Frame /\ x.n = e - 1 /\ x.id = e - 1
  BY <1>1, <1>2, <1>3, RunLast DEF InOrder, Newest
<1>5. x.n \in Nat
  BY <1>4, FrameFacts
<1> HIDE DEF x
<1>6. x.n + 1 = e /\ x.id = x.n /\ x.n < next /\ (buff[t].live => x.n = next - 1)
  BY <1>1, <1>2, <1>3, <1>4, <1>5
<1>7. InOrder(View(t), x.n + 1)
  BY <1>2, <1>6
<1> QED
  BY <1>4, <1>5, <1>6, <1>7 DEF x

-----------------------------------------------------------------------------
(* Types, and who has the mutex. *)

LEMMA InitInvariant ==
  ASSUME Init
  PROVE  IInv
<1>1. TypeOK
  <2>1. /\ 0 \in Numbers /\ 0 \in 0..MaxFrames /\ 0 \in 0..MaxFaults /\ 0 \in 0..0
        /\ -1 \in -1..(FrameAfter - 1) /\ 0 \in 0..(FrameAfter - 1) /\ -1 \in -1..(0 - 1)
    BY Bounds DEF Numbers
  <2>2. NoFrame \in Frame
    BY <2>1 DEF Frame, NoFrame, Numbers
  <2>3. <<>> \in Seq(Frame) /\ <<>> \in Seq(Numbers)
    BY EmptySeq
  <2>4. Unused \in [live : BOOLEAN, list : Seq(Frame), longList : Seq(Frame)]
    BY <2>3 DEF Unused
  <2> QED
    BY <2>1, <2>2, <2>3, <2>4 DEF Init, TypeOK, Numbers
<1>2. Len(<<>>) = 0
  BY EmptySeq
<1>3. Filled
  BY <1>2, Bounds DEF Init, Filled, Unused
<1>4. Session
  <2>1. InOrder(Unused, 0) /\ Run(<<>>, 0) /\ Sampled(<<>>, 0 - Len(<<>>))
    BY <1>2 DEF Unused, InOrder, Run, Sampled
  <2>2. Numbered
    BY <1>2, <2>1 DEF Init, Numbered
  <2>3. Writing
    BY DEF Init, Writing
  <2>4. Chronological
    BY <1>2, Bounds DEF Init, Chronological, Increasing
  <2>5. Marked = 0
    BY DEF Init, Marked
  <2>6. \A k : Occ(<<>>, k) = 0
    <3> SUFFICES ASSUME NEW k PROVE Occ(<<>>, k) = 0
      OBVIOUS
    <3>1. {i \in 1..Len(<<>>) : <<>>[i] = k} = {}
      BY <1>2
    <3> QED
      BY <3>1, FS_EmptySet DEF Occ
  <2>7. Repeated
    BY <2>5, <2>6 DEF Init, Repeated, Shown
  <2> QED
    BY <2>2, <2>3, <2>4, <2>7 DEF Session
<1> QED
  BY <1>1, <1>3, <1>4 DEF IInv

\* An image that is not refused goes to the end of the ring, whose first frame goes to the
\* long list if the ring is full.
LEMMA PushBackLists ==
  ASSUME TypeOK, Filled, PushBack
  PROVE  /\ ring' \in Seq(Frame) /\ long' \in Seq(Frame)
         /\ Len(ring) \in Nat /\ Len(ring') \in Nat
         /\ Len(ring') <= RingSize /\ Len(ring) <= Len(ring') /\ Len(ring') <= Len(ring) + 1
<1>1. /\ ring \in Seq(Frame) /\ long \in Seq(Frame) /\ Len(ring) \in Nat /\ Len(long) \in Nat
      /\ RingSize \in Nat /\ Len(ring) <= RingSize
  BY LenProperties, Bounds DEF TypeOK, Filled
<1>2. CASE nextId = mLastId
  BY <1>1, <1>2 DEF PushBack, Refused
<1>3. CASE nextId # mLastId
  <2> DEFINE x == [n |-> next, id |-> nextId]
             all == Append(ring, x)
             longer == Append(long, Head(all))
  <2>1. x \in Frame
    <3>1. next \in Numbers /\ nextId \in Numbers
      BY Bounds DEF TypeOK, PushBack, Refused, Numbers
    <3> QED
      BY <3>1 DEF Frame, Numbers
  <2>2. \/ ring' = Tail(all) /\ Len(all) > RingSize
           /\ (long' = Tail(longer) \/ long' = longer \/ long' = long)
        \/ ring' = all /\ ~(Len(all) > RingSize) /\ long' = long
    BY <1>3 DEF PushBack, Refused
  <2> HIDE DEF x
  <2>3. all \in Seq(Frame) /\ all # <<>> /\ Len(all) = Len(ring) + 1
    BY <1>1, <2>1, AppendProperties
  <2> HIDE DEF all
  <2>4. Tail(all) \in Seq(Frame) /\ Len(Tail(all)) = Len(ring) /\ Head(all) \in Frame
    BY <1>1, <2>3, HeadTailProperties
  <2>5. longer \in Seq(Frame) /\ longer # <<>>
    BY <1>1, <2>4, AppendProperties
  <2> HIDE DEF longer
  <2>6. Tail(longer) \in Seq(Frame)
    BY <2>5, HeadTailProperties
  <2>7. /\ ring' \in Seq(Frame) /\ Len(ring') \in Nat
        /\ Len(ring') <= RingSize /\ Len(ring) <= Len(ring') /\ Len(ring') <= Len(ring) + 1
    <3>1. CASE ring' = Tail(all)
      BY <1>1, <2>4, <3>1
    <3>2. CASE ring' = all /\ ~(Len(all) > RingSize)
      BY <1>1, <2>3, <3>2
    <3> QED
      BY <2>2, <3>1, <3>2
  <2>8. long' \in Seq(Frame)
    BY <1>1, <2>2, <2>5, <2>6
  <2> QED
    BY <1>1, <2>7, <2>8
<1> QED
  BY <1>2, <1>3

\* The steps of a thread, and what they leave of the others.
Steps(t) ==
  \/ WriteBegin(t) \/ WriteOpen(t) \/ WriteFrames(t)
  \/ ReplyBegin(t) \/ ReplyCount(t) \/ ReplyLock(t) \/ ReplyMark(t)

Begins(t) == \E where \in Places : \E b : Begin(t, where, b)

Others(t) ==
  /\ UNCHANGED source
  /\ \A u \in Threads : u # t =>
       /\ pc'[u] = pc[u] /\ buff'[u] = buff[u] /\ last'[u] = last[u] /\ held'[u] = held[u]
       /\ seen'[u] = seen[u]
       /\ View(u)' = View(u) /\ Newest(u)' = Newest(u)

\* A call ends, or goes on to the reply call.
LEMMA EndFacts ==
  ASSUME TypeOK, NEW t \in Threads, Return(t) \/ Written(t)
  PROVE  /\ pc' \in [Threads -> Places] /\ pc'[t] \in {"reply", "idle"}
         /\ buff' \in [Threads -> [live : BOOLEAN, list : Seq(Frame), longList : Seq(Frame)]]
         /\ last' \in [Threads -> Frame]
         /\ held' \in [Threads -> Seq(Frame)]
         /\ seen' \in [Threads -> 0..(FrameAfter - 1)]
         /\ buff'[t] = buff[t] \/ buff'[t] = Unused
         /\ Len(buff'[t].list) <= Len(buff[t].list)
         /\ \A u \in Threads : u # t =>
              /\ pc'[u] = pc[u] /\ buff'[u] = buff[u] /\ last'[u] = last[u] /\ held'[u] = held[u]
              /\ seen'[u] = seen[u]
<1>1. /\ pc \in [Threads -> Places] /\ last \in [Threads -> Frame]
      /\ held \in [Threads -> Seq(Frame)]
      /\ buff \in [Threads -> [live : BOOLEAN, list : Seq(Frame), longList : Seq(Frame)]]
      /\ seen \in [Threads -> 0..(FrameAfter - 1)]
  BY DEF TypeOK, Places
<1>2. CASE Return(t)
  <2>1. <<>> \in Seq(Frame) /\ 0 \in 0..(FrameAfter - 1) /\ 0 \in 0..(MaxFrames - 1)
    BY EmptySeq, Bounds
  <2>2. NoFrame \in Frame /\ Unused \in [live : BOOLEAN, list : Seq(Frame), longList : Seq(Frame)]
    BY <2>1 DEF NoFrame, Frame, Unused
  <2>3. "idle" \in Places
    BY DEF Places
  <2>4. Len(Unused.list) <= Len(buff[t].list)
    BY <1>1, EmptySeq, LenProperties DEF Unused
  <2> QED
    BY <1>1, <1>2, <2>1, <2>2, <2>3, <2>4 DEF Return, Goto
<1>3. CASE t = "algo" /\ GoOn(t, "reply")
  <2>1. Len(buff[t].list) \in Nat
    BY <1>1, LenProperties
  <2> QED
    BY <1>1, <1>3, <2>1 DEF GoOn, Goto, work, Places
<1> QED
  BY <1>2, <1>3 DEF Written

LEMMA EndLength ==
  ASSUME TypeOK, Filled, NEW t \in Threads, Return(t) \/ Written(t)
  PROVE  pc'[t] \in {"reply", "idle"} /\ Len(buff'[t].list) <= RingSize
<1>1. /\ Len(buff[t].list) \in Nat /\ Len(buff[t].list) <= RingSize
      /\ buff'[t].list \in Seq(Frame)
  BY EndFacts, LenProperties DEF TypeOK, Filled
<1>2. Len(buff'[t].list) \in Nat
  BY <1>1, LenProperties
<1> QED
  BY <1>1, <1>2, EndFacts, Bounds

LEMMA OthersKept ==
  ASSUME TypeOK, NEW t \in Threads, Steps(t) \/ Begins(t)
  PROVE  Others(t)
<1>1. UNCHANGED source
  BY DEF Steps, Begins, Begin, WriteBegin, WriteOpen, WriteFrames, ReplyBegin, ReplyCount,
         ReplyLock, ReplyMark
<1>2. /\ pc \in [Threads -> Places] /\ last \in [Threads -> Frame]
      /\ held \in [Threads -> Seq(Frame)]
      /\ buff \in [Threads -> [live : BOOLEAN, list : Seq(Frame), longList : Seq(Frame)]]
      /\ seen \in [Threads -> 0..(FrameAfter - 1)]
  BY DEF TypeOK, Places
<1>3. \A u \in Threads : u # t =>
        /\ pc'[u] = pc[u] /\ buff'[u] = buff[u] /\ last'[u] = last[u] /\ held'[u] = held[u]
        /\ seen'[u] = seen[u]
  <2>1. CASE Return(t) \/ Written(t)
    BY <2>1, EndFacts
  <2>2. CASE Begins(t)
    BY <1>2, <2>2 DEF Begins, Begin, Goto
  <2>3. CASE WriteBegin(t)
    BY <1>2, <2>1, <2>3 DEF WriteBegin, Goto
  <2>4. CASE WriteOpen(t)
    BY <1>2, <2>1, <2>4 DEF WriteOpen, Goto
  <2>5. CASE WriteFrames(t)
    BY <2>1, <2>5 DEF WriteFrames
  <2>6. CASE ReplyBegin(t)
    BY <1>2, <2>1, <2>6 DEF ReplyBegin, Goto
  <2>7. CASE ReplyCount(t)
    BY <1>2, <2>1, <2>7 DEF ReplyCount, GoOn, Goto, work
  <2>8. CASE ReplyLock(t)
    BY <1>2, <2>1, <2>8 DEF ReplyLock, Goto
  <2>9. CASE ReplyMark(t)
    BY <2>1, <2>9 DEF ReplyMark
  <2> QED
    BY <2>2, <2>3, <2>4, <2>5, <2>6, <2>7, <2>8, <2>9 DEF Steps
<1>4. ASSUME NEW u \in Threads, u # t
      PROVE  View(u)' = View(u) /\ Newest(u)' = Newest(u)
  <2>1. buff'[u] = buff[u] /\ ring' = ring /\ long' = long
    BY <1>1, <1>3, <1>4 DEF source
  <2>2. View(u)' = View(u)
    BY <2>1 DEF View
  <2> QED
    BY <2>2 DEF Newest, LastOf
<1> QED
  BY <1>1, <1>3, <1>4 DEF Others

\* A step keeps the buffers full and the mutex with one thread.
LEMMA FilledKept ==
  ASSUME TypeOK, Filled, NEW t \in Threads, Others(t),
         Len(buff'[t].list) <= RingSize,
         pc'[t] \in {"open", "write", "lock", "mark"} => Len(View(t)'.list) >= RingSize,
         pc'[t] = "write" => Len(held'[t]) = RingSize,
         \/ mutex' = mutex /\ mutex # t /\ pc'[t] \notin {"open", "write", "mark"}
         \/ /\ mutex \in {"free", t}
            /\ \/ mutex' = t /\ pc'[t] \in {"open", "write", "mark"}
               \/ mutex' = "free" /\ pc'[t] \notin {"open", "write", "mark"}
  PROVE  Filled'
<1>1. ring' = ring
  BY DEF Others, source
<1>2. ASSUME NEW u \in Threads
      PROVE  /\ Len(buff'[u].list) <= RingSize
             /\ pc'[u] \in {"open", "write", "lock", "mark"} => Len(View(u)'.list) >= RingSize
             /\ pc'[u] \in {"open", "write", "mark"} <=> mutex' = u
             /\ pc'[u] = "write" => Len(held'[u]) = RingSize
  <2>1. CASE u = t
    BY <2>1, Bounds
  <2>2. CASE u # t
    <3>1. /\ pc'[u] = pc[u] /\ buff'[u] = buff[u] /\ held'[u] = held[u] /\ View(u)' = View(u)
      BY <2>2 DEF Others
    <3>2. pc'[u] \in {"open", "write", "mark"} <=> mutex' = u
      BY <2>2, <3>1, Bounds DEF Filled
    <3> QED
      BY <3>1, <3>2 DEF Filled
  <2> QED
    BY <2>1, <2>2
<1> QED
  BY <1>1, <1>2 DEF Filled

LEMMA SameView ==
  ASSUME NEW t \in Threads, UNCHANGED source, buff'[t] = buff[t]
  PROVE  View(t)' = View(t) /\ Newest(t)' = Newest(t)
<1>1. View(t)' = View(t)
  BY DEF View, source
<1> QED
  BY <1>1 DEF Newest, LastOf

\* What a thread begins with: a copy of the buffer, or the live one.
LEMMA BeginKinds ==
  ASSUME BeginPass \/ BeginText
  PROVE  \E t \in Threads, where \in {"alert", "warning", "reply"}, b \in {Copy, Live} :
           Begin(t, where, b)
<1>1. CASE BeginPass
  <2>1. PICK where \in {"alert", "reply"} : Begin("algo", where, Copy)
    BY <1>1 DEF BeginPass
  <2>2. "algo" \in Threads
    BY <2>1 DEF Begin
  <2> QED
    BY <2>1, <2>2
<1>2. CASE BeginText
  <2>1. PICK where \in {"alert", "warning", "reply"}, b \in {Copy, Live} : Begin("text", where, b)
    BY <1>2 DEF BeginText
  <2>2. "text" \in Threads
    BY <2>1 DEF Begin
  <2> QED
    BY <2>1, <2>2
<1> QED
  BY <1>1, <1>2

LEMMA BeginType ==
  ASSUME TypeOK, Filled, NEW t \in Threads, NEW where \in {"alert", "warning", "reply"},
         NEW b \in {Copy, Live}, Begin(t, where, b)
  PROVE  TypeOK' /\ Filled' /\ Others(t)
<1>1. /\ pc' = [pc EXCEPT ![t] = where] /\ buff' = [buff EXCEPT ![t] = b] /\ pc[t] = "idle"
      /\ UNCHANGED <<source, last, held, seen, mutex, mLastImageId, mAfterAlertFramesCount>>
      /\ UNCHANGED <<file, raced>>
  BY DEF Begin, Goto
<1>2. /\ b \in [live : BOOLEAN, list : Seq(Frame), longList : Seq(Frame)]
      /\ Len(b.list) <= RingSize
  <2>1. <<>> \in Seq(Frame) /\ Len(<<>>) = 0
    BY EmptySeq
  <2>2. CASE b = Copy
    BY <2>2 DEF Copy, TypeOK, Filled
  <2>3. CASE b = Live
    BY <2>1, <2>3, Bounds DEF Live
  <2> QED
    BY <2>2, <2>3
<1>3. TypeOK'
  BY <1>1, <1>2 DEF TypeOK, source, file
<1>4. Others(t)
  <2>1. where \in Places
    BY DEF Places
  <2> QED
    BY <2>1, OthersKept DEF Begins
<1>5. pc'[t] = where /\ buff'[t] = b /\ mutex # t
  BY <1>1 DEF TypeOK, Filled
<1>6. Filled'
  BY <1>1, <1>2, <1>4, <1>5, FilledKept
<1> QED
  BY <1>3, <1>4, <1>6

LEMMA WriteBeginType ==
  ASSUME TypeOK, Filled, NEW t \in Threads, WriteBegin(t)
  PROVE  TypeOK' /\ Filled' /\ Others(t)
<1>1. Others(t)
  BY OthersKept DEF Steps
<1>2. \/ Written(t) /\ UNCHANGED mutex
      \/ /\ last' = [last EXCEPT ![t] = Newest(t)] /\ mutex' = t /\ Goto(t, "open") /\ IsFull(t)
         /\ UNCHANGED <<buff, held, seen>>
  BY DEF WriteBegin
<1>3. \/ UNCHANGED <<mAfterAlertFramesCount, after>>
      \/ mAfterAlertFramesCount' = 0 /\ after' = {}
  BY DEF WriteBegin
<1>4. /\ UNCHANGED <<source, mLastImageId, opened, failures, video, raced>>
      /\ pc[t] \in {"alert", "warning"} /\ mutex = "free"
  BY DEF WriteBegin
<1>5. mAfterAlertFramesCount' \in -1..(FrameAfter - 1) /\ after' \subseteq 0..(MaxFrames - 1)
  <2>1. 0 \in -1..(FrameAfter - 1) /\ {} \subseteq 0..(MaxFrames - 1)
    BY Bounds
  <2> QED
    BY <1>3, <2>1 DEF TypeOK
<1>6. CASE Written(t) /\ UNCHANGED mutex
  <2>1. TypeOK'
    BY <1>4, <1>5, <1>6, EndFacts DEF TypeOK, source, Places
  <2>2. pc'[t] \in {"reply", "idle"} /\ Len(buff'[t].list) <= RingSize
    BY <1>6, EndLength
  <2>3. mutex # t
    BY <1>4, Bounds
  <2> QED
    BY <1>1, <1>6, <2>1, <2>2, <2>3, FilledKept
<1>7. CASE /\ last' = [last EXCEPT ![t] = Newest(t)] /\ mutex' = t /\ Goto(t, "open") /\ IsFull(t)
           /\ UNCHANGED <<buff, held, seen>>
  <2>1. Len(View(t).list) >= RingSize /\ Len(View(t).list) > 0 /\ Newest(t) \in Frame
    BY <1>7, ViewFacts, NewestType, Bounds DEF IsFull
  <2>2. TypeOK'
    BY <1>4, <1>5, <1>7, <2>1 DEF TypeOK, source, Goto
  <2>3. pc'[t] = "open" /\ Len(buff'[t].list) <= RingSize /\ View(t)' = View(t)
    BY <1>4, <1>7, SameView DEF TypeOK, Goto, Filled
  <2> QED
    BY <1>1, <1>4, <1>7, <2>1, <2>2, <2>3, FilledKept
<1> QED
  BY <1>2, <1>6, <1>7

\* The video is opened, or could not be.
LEMMA WriteOpenKinds ==
  ASSUME TypeOK, NEW t \in Threads, WriteOpen(t)
  PROVE  \/ /\ opened' = TRUE /\ held' = [held EXCEPT ![t] = View(t).list] /\ Goto(t, "write")
            /\ UNCHANGED <<buff, last, seen, failures, mLastImageId, mutex>>
         \/ /\ opened' = FALSE /\ failures' = failures + 1 /\ restarts + failures < MaxFaults
            /\ mLastImageId' = last[t].id /\ mutex' = "free" /\ Written(t)
BY DEF WriteOpen

LEMMA WriteOpenType ==
  ASSUME TypeOK, Filled, NEW t \in Threads, WriteOpen(t)
  PROVE  TypeOK' /\ Filled' /\ Others(t)
<1>1. Others(t)
  BY OthersKept DEF Steps
<1>2. /\ UNCHANGED <<source, mAfterAlertFramesCount, video, after, raced>> /\ pc[t] = "open"
      /\ mutex = t /\ Len(View(t).list) >= RingSize
  BY DEF WriteOpen, Filled
<1>3. Len(View(t).list) <= RingSize /\ View(t).list \in Seq(Frame) /\ Len(View(t).list) \in Nat
  BY ViewFacts DEF Filled
<1>4. CASE /\ opened' = TRUE /\ held' = [held EXCEPT ![t] = View(t).list] /\ Goto(t, "write")
           /\ UNCHANGED <<buff, last, seen, failures, mLastImageId, mutex>>
  <2>1. TypeOK'
    BY <1>2, <1>3, <1>4 DEF TypeOK, source, Goto
  <2>2. /\ pc'[t] = "write" /\ held'[t] = View(t).list /\ View(t)' = View(t)
        /\ Len(buff'[t].list) <= RingSize
    BY <1>2, <1>4, SameView DEF TypeOK, Goto, Filled
  <2>3. Len(held'[t]) = RingSize
    BY <1>2, <1>3, <2>2, Bounds
  <2> QED
    BY <1>1, <1>2, <1>4, <2>1, <2>2, <2>3, FilledKept
<1>5. CASE /\ opened' = FALSE /\ failures' = failures + 1 /\ restarts + failures < MaxFaults
           /\ mLastImageId' = last[t].id /\ mutex' = "free" /\ Written(t)
  <2>1. mLastImageId' \in 0..MaxFrames
    <3>1. last[t].id \in Numbers
      BY FrameFacts DEF TypeOK
    <3> QED
      BY <1>5, <3>1, Bounds DEF Numbers
  <2>2. failures' \in 0..MaxFaults
    BY <1>5, Bounds DEF TypeOK
  <2>3. TypeOK'
    BY <1>2, <1>5, <2>1, <2>2, EndFacts DEF TypeOK, source, Places
  <2>4. pc'[t] \in {"reply", "idle"} /\ Len(buff'[t].list) <= RingSize
    BY <1>5, EndLength
  <2> QED
    BY <1>1, <1>2, <1>5, <2>3, <2>4, FilledKept
<1> QED
  BY <1>4, <1>5, WriteOpenKinds

\* What is written before an alert, and the newest frame of the list.
Part(t) == Before([list |-> held[t], longList |-> View(t).longList]) \o <<LastOf(held[t]).n>>

LEMMA PartType ==
  ASSUME TypeOK, Filled, NEW t \in Threads, pc[t] = "write"
  PROVE  /\ held[t] \in Seq(Frame) /\ Len(held[t]) \in Nat /\ Len(held[t]) > 0
         /\ LastOf(held[t]) \in Frame
         /\ Before([list |-> held[t], longList |-> View(t).longList]) \in Seq(Numbers)
         /\ Part(t) \in Seq(Numbers)
<1>1. held[t] \in Seq(Frame) /\ Len(held[t]) \in Nat /\ Len(held[t]) > 0
  BY LenProperties, Bounds DEF TypeOK, Filled
<1>2. LastOf(held[t]) \in Frame
  BY <1>1, ElementOfSeq DEF LastOf
<1> DEFINE v == [list |-> held[t], longList |-> View(t).longList]
<1>3. v.list \in Seq(Frame) /\ v.longList \in Seq(Frame)
  BY <1>1, ViewFacts
<1> HIDE DEF v
<1>4. Before(v) \in Seq(Numbers)
  BY <1>3, BeforeType
<1>5. <<LastOf(held[t]).n>> \in Seq(Numbers)
  BY <1>2, FrameFacts
<1>6. Before(v) \o <<LastOf(held[t]).n>> \in Seq(Numbers)
  BY <1>4, <1>5, ConcatProperties
<1> QED
  BY <1>1, <1>2, <1>4, <1>6 DEF v, Part

LEMMA WriteFramesVideo ==
  ASSUME TypeOK, Filled, NEW t \in Threads, WriteFrames(t)
  PROVE  video' = video \o Part(t)
<1>1. /\ Before([list |-> held[t], longList |-> View(t).longList]) \in Seq(Numbers)
      /\ LastOf(held[t]).n \in Numbers /\ video \in Seq(Numbers)
  BY PartType, FrameFacts DEF WriteFrames, TypeOK, Numbers
<1> DEFINE w == Before([list |-> held[t], longList |-> View(t).longList])
           y == <<LastOf(held[t]).n>>
<1>2. w \in Seq(Numbers) /\ y \in Seq(Numbers) /\ video' = (video \o w) \o y
  BY <1>1 DEF WriteFrames
<1>3. Part(t) = w \o y
  BY DEF Part
<1> HIDE DEF w, y
<1>4. (video \o w) \o y = video \o (w \o y)
  BY <1>1, <1>2, ConcatAssociative
<1> QED
  BY <1>2, <1>3, <1>4

LEMMA WriteFramesType ==
  ASSUME TypeOK, Filled, NEW t \in Threads, WriteFrames(t)
  PROVE  TypeOK' /\ Filled' /\ Others(t)
<1>1. Others(t)
  BY OthersKept DEF Steps
<1>2. /\ UNCHANGED <<source, mAfterAlertFramesCount, opened, failures, after>> /\ pc[t] = "write"
      /\ mutex = t /\ mLastImageId' = last[t].id /\ mutex' = "free" /\ Written(t)
      /\ raced' = raced \/ raced' = raced \cup {"warning"}
  BY DEF WriteFrames, Filled, Overtaken
<1>3. video' \in Seq(Numbers)
  <2>1. video \in Seq(Numbers) /\ Part(t) \in Seq(Numbers) /\ video' = video \o Part(t)
    BY <1>2, WriteFramesVideo, PartType DEF TypeOK, Numbers
  <2> QED
    BY <2>1, ConcatProperties
<1>4. mLastImageId' \in 0..MaxFrames
  <2>1. last[t].id \in Numbers
    BY FrameFacts DEF TypeOK
  <2> QED
    BY <1>2, <2>1, Bounds DEF Numbers
<1>5. TypeOK'
  BY <1>2, <1>3, <1>4, EndFacts DEF TypeOK, source, Numbers, Places
<1>6. pc'[t] \in {"reply", "idle"} /\ Len(buff'[t].list) <= RingSize
  BY <1>2, EndLength
<1> QED
  BY <1>1, <1>2, <1>5, <1>6, FilledKept

LEMMA ReplyBeginType ==
  ASSUME TypeOK, Filled, NEW t \in Threads, ReplyBegin(t)
  PROVE  TypeOK' /\ Filled' /\ Others(t)
<1>1. Others(t)
  BY OthersKept DEF Steps
<1>2. /\ UNCHANGED <<source, mutex, mLastImageId, mAfterAlertFramesCount, file, raced>>
      /\ pc[t] = "reply" /\ mutex # t
  BY DEF ReplyBegin, Filled
<1>3. CASE Return(t)
  <2>1. TypeOK'
    BY <1>2, <1>3, EndFacts DEF TypeOK, source, file, Places
  <2> QED
    BY <1>1, <1>2, <1>3, <2>1, EndLength, FilledKept
<1>4. CASE /\ ~(mAfterAlertFramesCount < 0) /\ Goto(t, "count") /\ UNCHANGED <<buff, last, held>>
           /\ seen' = [seen EXCEPT ![t] = mAfterAlertFramesCount]
  <2>1. mAfterAlertFramesCount \in 0..(FrameAfter - 1)
    BY <1>4, Bounds DEF TypeOK
  <2>2. TypeOK'
    BY <1>2, <1>4, <2>1 DEF TypeOK, source, file, Goto
  <2>3. pc'[t] = "count" /\ Len(buff'[t].list) <= RingSize
    BY <1>2, <1>4 DEF TypeOK, Goto, Filled
  <2> QED
    BY <1>1, <1>2, <2>2, <2>3, FilledKept
<1> QED
  BY <1>3, <1>4 DEF ReplyBegin

LEMMA ReplyCountType ==
  ASSUME TypeOK, Filled, NEW t \in Threads, ReplyCount(t)
  PROVE  TypeOK' /\ Filled' /\ Others(t)
<1>1. Others(t)
  BY OthersKept DEF Steps
<1>2. /\ UNCHANGED <<source, mutex, mLastImageId, file>> /\ pc[t] = "count" /\ mutex # t
      /\ raced' = raced \/ raced' = raced \cup {"count"}
      /\ mAfterAlertFramesCount' = NextAfterCount(seen[t])
  BY DEF ReplyCount, Filled
<1>3. mAfterAlertFramesCount' \in -1..(FrameAfter - 1)
  BY <1>2, Bounds DEF NextAfterCount, TypeOK
<1>4. CASE Return(t)
  <2>1. TypeOK'
    BY <1>2, <1>3, <1>4, EndFacts DEF TypeOK, source, file, Places
  <2> QED
    BY <1>1, <1>2, <1>4, <2>1, EndLength, FilledKept
<1>5. CASE GoOn(t, "lock") /\ IsFull(t)
  <2>1. pc' = [pc EXCEPT ![t] = "lock"] /\ UNCHANGED <<buff, last, held, seen>>
    BY <1>5 DEF GoOn, Goto, work
  <2>2. TypeOK'
    BY <1>2, <1>3, <2>1 DEF TypeOK, source, file
  <2>3. pc'[t] = "lock" /\ Len(buff'[t].list) <= RingSize /\ View(t)' = View(t)
    BY <1>2, <2>1, SameView DEF TypeOK, Filled
  <2>4. Len(View(t).list) >= RingSize
    BY <1>5 DEF IsFull
  <2> QED
    BY <1>1, <1>2, <2>2, <2>3, <2>4, FilledKept
<1> QED
  BY <1>4, <1>5 DEF ReplyCount

LEMMA ReplyLockKinds ==
  ASSUME TypeOK, Filled, NEW t \in Threads, ReplyLock(t)
  PROVE  /\ Newest(t) \in Frame /\ Len(View(t).list) >= RingSize /\ Len(View(t).list) > 0
         /\ \/ /\ Newest(t).id > mLastImageId
               /\ mutex' = t /\ pc' = [pc EXCEPT ![t] = "mark"]
               /\ last' = [last EXCEPT ![t] = Newest(t)]
               /\ UNCHANGED <<buff, held, seen>>
               /\ \/ /\ opened /\ video' = Append(video, Newest(t).n)
                     /\ after' = after \cup {Newest(t).n}
                  \/ ~opened /\ UNCHANGED <<video, after>>
            \/ Return(t) /\ UNCHANGED <<mutex, video, after>>
<1>1. Len(View(t).list) >= RingSize /\ Len(View(t).list) > 0
  BY ViewFacts, Bounds DEF ReplyLock, Filled
<1> QED
  BY <1>1, NewestType DEF ReplyLock, Goto

LEMMA ReplyLockType ==
  ASSUME TypeOK, Filled, NEW t \in Threads, ReplyLock(t)
  PROVE  TypeOK' /\ Filled' /\ Others(t)
<1>1. Others(t)
  BY OthersKept DEF Steps
<1>2. /\ UNCHANGED <<source, mLastImageId, mAfterAlertFramesCount, opened, failures, raced>>
      /\ pc[t] = "lock" /\ mutex = "free" /\ mutex # t
  BY Bounds DEF ReplyLock
<1>3. CASE Return(t) /\ UNCHANGED <<mutex, video, after>>
  <2>1. TypeOK'
    BY <1>2, <1>3, EndFacts DEF TypeOK, source, Places
  <2> QED
    BY <1>1, <1>2, <1>3, <2>1, EndLength, FilledKept
<1>4. CASE /\ mutex' = t /\ pc' = [pc EXCEPT ![t] = "mark"]
           /\ last' = [last EXCEPT ![t] = Newest(t)]
           /\ UNCHANGED <<buff, held, seen>>
           /\ \/ opened /\ video' = Append(video, Newest(t).n) /\ after' = after \cup {Newest(t).n}
              \/ ~opened /\ UNCHANGED <<video, after>>
  <2>1. Newest(t) \in Frame /\ Newest(t).n \in Numbers /\ Len(View(t).list) >= RingSize
    BY ReplyLockKinds, FrameFacts
  <2>2. video' \in Seq(Numbers) /\ after' \subseteq Numbers
    <3>1. Append(video, Newest(t).n) \in Seq(Numbers)
      BY <2>1, AppendProperties DEF TypeOK, Numbers
    <3> QED
      BY <1>4, <2>1, <3>1 DEF TypeOK, Numbers
  <2>3. TypeOK'
    BY <1>2, <1>4, <2>1, <2>2 DEF TypeOK, source, Numbers
  <2>4. pc'[t] = "mark" /\ Len(buff'[t].list) <= RingSize /\ View(t)' = View(t)
    BY <1>2, <1>4, SameView DEF TypeOK, Filled
  <2> QED
    BY <1>1, <1>2, <1>4, <2>1, <2>3, <2>4, FilledKept
<1> QED
  BY <1>3, <1>4, ReplyLockKinds

LEMMA ReplyMarkType ==
  ASSUME TypeOK, Filled, NEW t \in Threads, ReplyMark(t)
  PROVE  TypeOK' /\ Filled' /\ Others(t) /\ Newest(t) \in Frame
<1>1. Others(t)
  BY OthersKept DEF Steps
<1>2. /\ UNCHANGED <<source, mAfterAlertFramesCount, file>> /\ pc[t] = "mark" /\ mutex = t
      /\ mLastImageId' = Newest(t).id /\ mutex' = "free" /\ Return(t)
      /\ raced' = raced \/ raced' = raced \cup {"reply"}
  BY DEF ReplyMark, Filled, Overtaken
<1>3. Newest(t) \in Frame
  BY <1>2, ViewFacts, NewestType, Bounds DEF Filled
<1>4. mLastImageId' \in 0..MaxFrames
  <2>1. Newest(t).id \in Numbers
    BY <1>3, FrameFacts
  <2> QED
    BY <1>2, <2>1, Bounds DEF Numbers
<1>5. TypeOK'
  BY <1>2, <1>4, EndFacts DEF TypeOK, source, file, Places
<1> QED
  BY <1>1, <1>2, <1>3, <1>5, EndLength, FilledKept

LEMMA PushBackType ==
  ASSUME TypeOK, Filled, PushBack
  PROVE  TypeOK' /\ Filled'
<1>1. /\ UNCHANGED <<restarts, work, pc, mutex, mLastImageId, mAfterAlertFramesCount, file, raced>>
      /\ next < MaxFrames /\ nextId' = nextId + 1
      /\ \/ nextId = mLastId /\ next' = next /\ mLastId' = mLastId
         \/ nextId # mLastId /\ next' = next + 1 /\ mLastId' = nextId
  BY Bounds DEF PushBack, Refused, TypeOK
<1>2. next' \in 0..MaxFrames /\ nextId' \in 0..next' /\ mLastId' \in -1..(next' - 1)
  BY <1>1, Bounds DEF TypeOK
<1>3. TypeOK'
  BY <1>1, <1>2, PushBackLists DEF TypeOK, work, file
<1>4. \A u \in Threads : Len(View(u).list) >= RingSize => Len(View(u)'.list) >= RingSize
  <2> SUFFICES ASSUME NEW u \in Threads, Len(View(u).list) >= RingSize
               PROVE  Len(View(u)'.list) >= RingSize
    OBVIOUS
  <2>1. CASE ~buff[u].live
    BY <1>1, <2>1 DEF View, work
  <2>2. CASE buff[u].live
    <3>1. View(u).list = ring /\ View(u)'.list = ring'
      BY <1>1, <2>2 DEF View, work
    <3> QED
      BY <3>1, PushBackLists, Bounds
  <2> QED
    BY <2>1, <2>2
<1>5. Filled'
  BY <1>1, <1>4, PushBackLists DEF Filled, work
<1> QED
  BY <1>3, <1>5

LEMMA TypeStep ==
  ASSUME TypeOK, Filled, [Next]_vars
  PROVE  TypeOK' /\ Filled'
<1>1. CASE PushBack
  BY <1>1, PushBackType
<1>2. CASE RemoteRestart
  <2>1. restarts' \in 0..MaxFaults /\ nextId' \in 0..next'
    BY <1>2, Bounds DEF RemoteRestart, TypeOK
  <2>2. TypeOK'
    BY <1>2, <2>1 DEF RemoteRestart, TypeOK, work, file
  <2>3. \A u \in Threads : View(u)' = View(u)
    BY <1>2 DEF RemoteRestart, View, work
  <2>4. Filled'
    BY <1>2, <2>3 DEF RemoteRestart, Filled, work
  <2> QED
    BY <2>2, <2>4
<1>3. CASE BeginPass \/ BeginText
  BY <1>3, BeginKinds, BeginType
<1>4. ASSUME NEW t \in Threads, Steps(t)
      PROVE  TypeOK' /\ Filled'
  BY <1>4, WriteBeginType, WriteOpenType, WriteFramesType, ReplyBeginType, ReplyCountType,
     ReplyLockType, ReplyMarkType DEF Steps
<1>5. CASE UNCHANGED vars
  <2>1. \A u \in Threads : View(u)' = View(u)
    BY <1>5 DEF vars, View, source, work
  <2> QED
    BY <1>5, <2>1 DEF vars, source, work, file, TypeOK, Filled
<1> QED
  BY <1>1, <1>2, <1>3, <1>4, <1>5 DEF Next, Steps

-----------------------------------------------------------------------------
(* The session: what the video holds, and what is marked. *)

\* Who has the mutex has just written, or is about to.
LEMMA MarkedFacts ==
  ASSUME TypeOK, Filled
  PROVE  /\ Marked \in Int
         /\ mutex = "free" => Marked = mLastImageId
         /\ \A t \in Threads :
              /\ pc[t] \in {"open", "write"} => Marked = mLastImageId /\ mutex = t
              /\ pc[t] = "mark" => Marked = Newest(t).id /\ mutex = t /\ Newest(t) \in Frame
<1>1. \A t \in Threads : pc[t] \in {"open", "write", "mark"} => mutex = t /\ mutex # "free"
  BY Bounds DEF Filled
<1>2. mutex = "free" => Marked = mLastImageId
  BY DEF Marked
<1>3. \A t \in Threads : pc[t] \in {"open", "write"} => Marked = mLastImageId /\ mutex = t
  BY <1>1 DEF Marked
<1>4. \A t \in Threads : pc[t] = "mark" => Len(View(t).list) > 0
  BY ViewFacts, Bounds DEF Filled
<1>5. \A t \in Threads : pc[t] = "mark" => Marked = Newest(t).id /\ mutex = t /\ Newest(t) \in Frame
  BY <1>1, <1>4, NewestType DEF Marked
<1>6. Marked \in Int
  <2>1. CASE mutex # "free" /\ pc[mutex] = "mark"
    <3>1. mutex \in Threads
      BY <2>1 DEF TypeOK
    <3> QED
      BY <1>5, <2>1, <3>1, FrameFacts
  <2>2. CASE ~(mutex # "free" /\ pc[mutex] = "mark")
    BY <2>2, Bounds DEF Marked, TypeOK
  <2> QED
    BY <2>1, <2>2
<1> QED
  BY <1>2, <1>3, <1>5, <1>6

LEMMA VideoUnits ==
  ASSUME TypeOK
  PROVE  /\ video \in Seq(Numbers) /\ Len(video) \in Nat
         /\ \A i \in 1..Len(video) : video[i] \in Nat /\ video[i] \in Numbers
         /\ DOMAIN video = 1..Len(video)
         /\ \A k : Occ(video, k) \in Nat
         /\ \A i \in 1..Len(video) : Occ(video, video[i]) >= 1
<1>1. video \in Seq(Numbers)
  BY DEF TypeOK, Numbers
<1>2. Len(video) \in Nat /\ \A i \in 1..Len(video) : video[i] \in Nat /\ video[i] \in Numbers
  BY <1>1, LenProperties, ElementOfSeq, FrameFacts
<1>3. \A k : Occ(video, k) \in Nat /\ (Occ(video, k) >= 1 <=> \E i \in 1..Len(video) : video[i] = k)
  BY <1>1, OccFacts
<1> QED
  BY <1>1, <1>2, <1>3, LenProperties

\* What is marked, evicted or pushed stays so.
LEMMA ShownLater ==
  ASSUME NEW w \in Seq(Numbers), NEW m \in Int, NEW b \in Int, NEW e \in Int, Shown(w, m, b, e),
         NEW m2 \in Int, NEW b2 \in Int, NEW e2 \in Int, m <= m2, b <= b2, e <= e2
  PROVE  Shown(w, m2, b2, e2)
<1> SUFFICES ASSUME NEW k \in Numbers
             PROVE  /\ Occ(w, k) <= 3
                    /\ Occ(w, k) >= 1 => k < e2
                    /\ Occ(w, k) >= 2 => k <= m2 \/ k < b2
                    /\ Occ(w, k) >= 3 => k <= m2
  BY DEF Shown
<1>1. k \in Int /\ Occ(w, k) \in Nat
  <2>1. k \in Nat
    BY FrameFacts
  <2>2. Occ(w, k) \in Nat
    BY OccFacts
  <2> QED
    BY <2>1, <2>2
<1>2. /\ Occ(w, k) <= 3
      /\ Occ(w, k) >= 1 => k < e
      /\ Occ(w, k) >= 2 => k <= m \/ k < b
      /\ Occ(w, k) >= 3 => k <= m
  BY DEF Shown
<1> QED
  BY <1>1, <1>2

LEMMA PushBackNumbered ==
  ASSUME TypeOK, Filled, Numbered, PushBack
  PROVE  /\ Numbered'
         /\ next' = next + 1
<1> DEFINE x == [n |-> next, id |-> nextId]
           all == Append(ring, x)
           longer == Append(long, Head(all))
           b == next - Len(ring)
           e == next + 1
<1>1. /\ ring \in Seq(Frame) /\ long \in Seq(Frame) /\ Len(ring) \in Nat
      /\ RingSize \in Nat \ {0} /\ next \in Nat /\ next \in Int
  BY LenProperties, Bounds DEF TypeOK
<1>2. /\ nextId = next /\ mLastId = next - 1 /\ Len(ring) <= next
      /\ Run(ring, next) /\ Sampled(long, b)
      /\ \A t \in Threads : \E d \in 0..next : InOrder(buff[t], d)
  BY DEF Numbered
<1>3. x \in Frame /\ x.n = next /\ x.id = next
  <2>1. next \in Numbers /\ nextId \in Numbers
    BY <1>2, Bounds DEF TypeOK, PushBack, Refused, Numbers
  <2> QED
    BY <1>1, <1>2, <2>1 DEF Frame, Numbers
<1>4. nextId # mLastId
  BY <1>1, <1>2
<1>5. \/ ring' = Tail(all) /\ Len(all) > RingSize
         /\ (long' = Tail(longer) \/ long' = longer \/ long' = long)
      \/ ring' = all /\ ~(Len(all) > RingSize) /\ long' = long
  BY <1>4 DEF PushBack, Refused
<1>6. next' = next + 1 /\ nextId' = next + 1 /\ mLastId' = next /\ buff' = buff
  BY <1>2, <1>4 DEF PushBack, Refused, work
<1> HIDE DEF x
<1>7. all \in Seq(Frame) /\ Len(all) = Len(ring) + 1 /\ Run(all, e)
  BY <1>1, <1>2, <1>3, RunGrows
<1>8. all # <<>>
  BY <1>1, <1>7, EmptySeq
<1>9. /\ \A i \in 1..Len(ring) : all[i] = ring[i]
      /\ all[Len(ring) + 1] = x
  BY <1>1, <1>3, AppendProperties
<1> HIDE DEF all
<1>10. e \in Int /\ e = next + 1 /\ b \in Int /\ b + 1 \in Int /\ b <= b + 1
  BY <1>1
<1>11. Tail(all) \in Seq(Frame) /\ Len(Tail(all)) = Len(ring) /\ Run(Tail(all), e)
  BY <1>1, <1>7, <1>8, <1>10, RunTail
<1> HIDE DEF e
<1>12. ASSUME Len(all) > RingSize, ring' = Tail(all),
              long' = Tail(longer) \/ long' = longer \/ long' = long
       PROVE  /\ Run(ring', e) /\ Sampled(long', e - Len(ring'))
              /\ Len(ring') <= e
  <2>1. Len(ring) > 0 /\ 1 \in 1..Len(ring)
    BY <1>1, <1>7, <1>12
  <2>2. Head(all) = ring[1] /\ ring[1] \in Frame
    BY <1>1, <1>7, <1>8, <1>9, <2>1, ElementOfSeq
  <2>3. ring[1].n = b /\ ring[1].id = b
    <3>1. ring[1].n = next - Len(ring) + 1 - 1 /\ ring[1].id = ring[1].n
      BY <1>2, <2>1 DEF Run
    <3> QED
      BY <1>1, <3>1
  <2> HIDE DEF b
  <2>4. longer \in Seq(Frame) /\ longer # <<>> /\ Sampled(longer, b + 1)
    BY <1>1, <1>2, <1>10, <2>2, <2>3, SampledGrows
  <2> HIDE DEF longer
  <2>5. Sampled(Tail(longer), b + 1)
    BY <1>10, <2>4, SampledTail
  <2>6. Sampled(long, b + 1)
    BY <1>1, <1>2, <1>10, SampledLater
  <2>7. Sampled(long', b + 1)
    BY <1>12, <2>4, <2>5, <2>6
  <2>8. Len(ring') = Len(ring) /\ Run(ring', e)
    BY <1>11, <1>12
  <2>9. e - Len(ring') = b + 1
    BY <1>1, <1>10, <2>8 DEF b
  <2>10. Len(ring') <= e
    BY <1>1, <1>2, <1>10, <2>8
  <2> QED
    BY <2>7, <2>8, <2>9, <2>10
<1>13. ASSUME ring' = all, long' = long
       PROVE  /\ Run(ring', e) /\ Sampled(long', e - Len(ring'))
              /\ Len(ring') <= e
  <2>1. e - Len(ring') = b /\ Len(ring') <= e
    BY <1>1, <1>2, <1>7, <1>10, <1>13 DEF b
  <2> HIDE DEF b
  <2> QED
    BY <1>2, <1>7, <1>13, <2>1
<1>14. Run(ring', e) /\ Sampled(long', e - Len(ring')) /\ Len(ring') <= e
  BY <1>5, <1>12, <1>13
<1>15. \A t \in Threads : \E d \in 0..(next + 1) : InOrder(buff[t], d)
  BY <1>1, <1>2
<1>16. Numbered'
  BY <1>1, <1>6, <1>10, <1>14, <1>15 DEF Numbered, InOrder
<1> QED
  BY <1>6, <1>16

\* The newest frame that a thread reads gets no older.
LEMMA PushBackNewest ==
  ASSUME TypeOK, Filled, Numbered, PushBack
  PROVE  \A t \in Threads : Len(View(t).list) > 0 =>
           /\ Len(View(t)'.list) > 0
           /\ Newest(t)' \in Frame /\ Newest(t)'.id = Newest(t)'.n
           /\ Newest(t).n <= Newest(t)'.n /\ Newest(t).id <= Newest(t)'.id
           /\ ~buff[t].live => Newest(t)' = Newest(t)
<1> SUFFICES ASSUME NEW t \in Threads, Len(View(t).list) > 0
             PROVE  /\ Len(View(t)'.list) > 0
                    /\ Newest(t)' \in Frame /\ Newest(t)'.id = Newest(t)'.n
                    /\ Newest(t).n <= Newest(t)'.n /\ Newest(t).id <= Newest(t)'.id
                    /\ ~buff[t].live => Newest(t)' = Newest(t)
  OBVIOUS
<1>1. Newest(t) \in Frame /\ Newest(t).id = Newest(t).n /\ Newest(t).n \in Nat /\ Newest(t).n < next
  BY NewestFacts
<1>2. buff' = buff
  BY DEF PushBack, Refused, work
<1>3. CASE ~buff[t].live
  <2>1. View(t)' = View(t)
    BY <1>2, <1>3 DEF View
  <2>2. Newest(t)' = Newest(t)
    BY <2>1 DEF Newest, LastOf
  <2> QED
    BY <1>1, <2>1, <2>2
<1>4. CASE buff[t].live
  <2>1. View(t).list = ring /\ View(t)'.list = ring' /\ Newest(t)' = LastOf(ring')
    BY <1>2, <1>4 DEF View, Newest, LastOf
  <2>2. /\ ring' \in Seq(Frame) /\ Len(ring') > 0
        /\ Run(ring', next + 1) /\ next \in Nat /\ next + 1 \in Int
    <3>1. Len(ring') > 0 /\ ring' \in Seq(Frame)
      BY <2>1, PushBackLists
    <3>2. Run(ring', next + 1)
      BY PushBackNumbered DEF Numbered
    <3> QED
      BY <3>1, <3>2, Bounds DEF TypeOK
  <2> DEFINE r == ring'
             e == next + 1
  <2>3. r \in Seq(Frame) /\ Len(r) > 0 /\ Run(r, e) /\ e \in Int
    BY <2>2
  <2> HIDE DEF r, e
  <2>4. LastOf(r) \in Frame /\ LastOf(r).n = e - 1 /\ LastOf(r).id = e - 1
    BY <2>3, RunLast
  <2>5. Newest(t)' = LastOf(r) /\ e - 1 = next
    BY <2>1, <2>2 DEF r, e
  <2> QED
    BY <1>1, <1>4, <2>1, <2>2, <2>4, <2>5
<1> QED
  BY <1>3, <1>4

LEMMA PushBackWriting ==
  ASSUME TypeOK, Filled, Session, PushBack
  PROVE  Writing'
<1>1. /\ UNCHANGED <<buff, pc, last, held, mLastImageId, video>>
      /\ next' = next + 1 /\ next \in Nat /\ Numbered
  BY PushBackNumbered, Bounds DEF PushBack, Refused, work, file, TypeOK, Session
<1> SUFFICES ASSUME NEW t \in Threads
             PROVE  /\ pc[t] \in {"open", "write", "mark"} =>
                         last[t].id = last[t].n /\ last[t].n <= Newest(t)'.n
                    /\ pc[t] \in {"open", "write"} =>
                         /\ mLastImageId < last[t].n
                         /\ ~buff[t].live => last[t] = Newest(t)'
                         /\ buff[t].live => \A k \in Numbers : Occ(video, k) >= 1 => k <= last[t].n
                    /\ pc[t] = "write" => \E e \in 0..next' : HeldRun(t, e)'
  BY <1>1 DEF Writing
<1>2. CASE pc[t] \notin {"open", "write", "mark"}
  BY <1>2
<1>3. CASE pc[t] \in {"open", "write", "mark"}
  <2>1. Len(View(t).list) > 0
    BY <1>3, ViewFacts, Bounds DEF Filled
  <2>2. /\ Newest(t) \in Frame /\ Newest(t)' \in Frame /\ Newest(t).n <= Newest(t)'.n
        /\ ~buff[t].live => Newest(t)' = Newest(t)
    BY <1>1, <2>1, NewestType, PushBackNewest
  <2>3. last[t] \in Frame /\ last[t].n \in Nat /\ Newest(t).n \in Nat /\ Newest(t)'.n \in Nat
    BY <2>2, FrameFacts DEF TypeOK
  <2>4. /\ pc[t] \in {"open", "write", "mark"} =>
             last[t].id = last[t].n /\ last[t].n <= Newest(t).n
        /\ pc[t] \in {"open", "write"} =>
             /\ mLastImageId < last[t].n
             /\ ~buff[t].live => last[t] = Newest(t)
             /\ buff[t].live => \A k \in Numbers : Occ(video, k) >= 1 => k <= last[t].n
        /\ pc[t] = "write" => \E e \in 0..next : HeldRun(t, e)
    BY DEF Session, Writing
  <2>5. ASSUME pc[t] = "write" PROVE \E e \in 0..next' : HeldRun(t, e)'
    <3>1. PICK e \in 0..next : HeldRun(t, e)
      BY <2>4, <2>5
    <3>2. e \in 0..next' /\ e \in Int /\ e <= Newest(t)'.n + 1
      BY <1>1, <2>2, <2>3, <3>1 DEF HeldRun
    <3>3. HeldRun(t, e)'
      BY <1>1, <3>1, <3>2 DEF HeldRun
    <3> QED
      BY <3>2, <3>3
  <2> QED
    BY <2>2, <2>3, <2>4, <2>5
<1> QED
  BY <1>2, <1>3

LEMMA PushBackSession ==
  ASSUME TypeOK, Filled, Session, PushBack
  PROVE  Session'
<1>1. /\ UNCHANGED <<buff, pc, mutex, mLastImageId, video, raced>>
      /\ next' = next + 1 /\ next \in Nat /\ Numbered /\ Numbered'
  <2>1. UNCHANGED <<buff, pc, mutex, mLastImageId, video, raced>>
    BY DEF PushBack, Refused, work, file
  <2>2. next \in Nat /\ Numbered
    BY Bounds DEF TypeOK, Session
  <2> QED
    BY <2>1, <2>2, PushBackNumbered
<1>2. Marked \in Int /\ Marked' \in Int /\ Marked <= Marked'
  <2>1. CASE mutex # "free" /\ pc[mutex] = "mark"
    <3>1. mutex \in Threads /\ mutex' = mutex /\ pc' = pc
      BY <1>1, <2>1 DEF TypeOK
    <3>2. Len(View(mutex).list) > 0
      BY <2>1, <3>1, ViewFacts, Bounds DEF Filled
    <3>3. Marked = Newest(mutex).id /\ Marked' = Newest(mutex)'.id
      BY <2>1, <3>1 DEF Marked, Newest, View
    <3>4. /\ Newest(mutex) \in Frame /\ Newest(mutex)' \in Frame
          /\ Newest(mutex).id <= Newest(mutex)'.id
      BY <1>1, <3>1, <3>2, NewestType, PushBackNewest
    <3> QED
      BY <3>3, <3>4, FrameFacts
  <2>2. CASE ~(mutex # "free" /\ pc[mutex] = "mark")
    <3>1. Marked = mLastImageId /\ Marked' = mLastImageId
      BY <1>1, <2>2 DEF Marked
    <3> QED
      BY <3>1, Bounds DEF TypeOK
  <2> QED
    BY <2>1, <2>2
<1>3. video \in Seq(Numbers) /\ mLastImageId \in Int /\ \A i \in 1..Len(video) : video[i] \in Nat
  BY VideoUnits, Bounds DEF TypeOK
<1>4. Chronological'
  <2>1. "warning" \notin raced => Increasing(video) /\ \A i \in 1..Len(video) : video[i] <= Marked
    BY DEF Session, Chronological
  <2>2. "warning" \notin raced => \A i \in 1..Len(video) : video[i] <= Marked'
    BY <1>2, <1>3, <2>1
  <2> QED
    BY <1>1, <2>1, <2>2 DEF Chronological, Increasing
<1>5. Repeated'
  <2> DEFINE m == Marked
             m2 == Marked'
             b == next - Len(ring)
             b2 == next' - Len(ring')
             e2 == next'
  <2>1. Shown(video, m, b, next) /\ mLastImageId <= m
    BY DEF Session, Repeated
  <2>2. /\ m \in Int /\ m2 \in Int /\ b \in Int /\ b2 \in Int /\ next \in Int /\ e2 \in Int
        /\ m <= m2 /\ b <= b2 /\ next <= e2
    BY <1>1, <1>2, PushBackLists
  <2> HIDE DEF m, m2, b, b2, e2
  <2>3. Shown(video, m2, b2, e2) /\ mLastImageId <= m2
    BY <1>3, <2>1, <2>2, ShownLater
  <2> QED
    BY <1>1, <2>3 DEF Repeated, Shown, m2, b2, e2
<1> QED
  BY <1>1, <1>4, <1>5, PushBackWriting DEF Session

\* A thread changes its own buffer only.
LEMMA NumberedKept ==
  ASSUME TypeOK, Numbered, NEW t \in Threads, Others(t), buff'[t] \in {buff[t], Unused, Live, Copy}
  PROVE  Numbered'
<1>1. UNCHANGED <<ring, long, next, nextId, mLastId>> /\ next \in Nat
  BY Bounds DEF Others, source, TypeOK
<1>2. \A u \in Threads : \E e \in 0..next : InOrder(buff[u], e)
  BY DEF Numbered
<1>3. \E e \in 0..next : InOrder(buff'[t], e)
  <2>1. CASE buff'[t] = buff[t]
    BY <1>2, <2>1
  <2>2. CASE buff'[t] \in {Unused, Live}
    <3>1. InOrder(buff'[t], 0)
      BY <2>2, EmptySeq DEF Unused, Live, InOrder, Run, Sampled
    <3> QED
      BY <1>1, <3>1
  <2>3. CASE buff'[t] = Copy
    <3>1. InOrder(buff'[t], next)
      BY <2>3 DEF Copy, InOrder, Numbered
    <3> QED
      BY <1>1, <3>1
  <2> QED
    BY <2>1, <2>2, <2>3
<1>4. \A u \in Threads : \E e \in 0..next : InOrder(buff'[u], e)
  BY <1>2, <1>3 DEF Others
<1> QED
  BY <1>1, <1>4 DEF Numbered, InOrder, Run, Sampled

\* A step without the mutex leaves the video and what is marked.
LEMMA QuietSession ==
  ASSUME TypeOK, Filled, Session, NEW t \in Threads, Others(t), Filled', TypeOK',
         buff'[t] \in {buff[t], Unused, Live, Copy},
         UNCHANGED <<video, mLastImageId, mutex>>, mutex # t, raced \subseteq raced'
  PROVE  Session'
<1>1. Numbered' /\ UNCHANGED <<ring, next>>
  BY NumberedKept DEF Session, Others, source
<1>2. \A u \in Threads : pc'[u] \in {"open", "write", "mark"} => u # t
  BY DEF Filled
<1>3. \A u \in Threads : pc'[u] \in {"open", "write", "mark"} =>
        /\ pc'[u] = pc[u] /\ buff'[u] = buff[u] /\ last'[u] = last[u] /\ held'[u] = held[u]
        /\ Newest(u)' = Newest(u)
  BY <1>2 DEF Others
<1>4. Writing'
  <2> SUFFICES ASSUME NEW u \in Threads, pc'[u] \in {"open", "write", "mark"}
               PROVE  /\ last'[u].id = last'[u].n /\ last'[u].n <= Newest(u)'.n
                      /\ pc'[u] \in {"open", "write"} =>
                           /\ mLastImageId' < last'[u].n
                           /\ ~buff'[u].live => last'[u] = Newest(u)'
                           /\ buff'[u].live =>
                                \A k \in Numbers : Occ(video, k) >= 1 => k <= last'[u].n
                      /\ pc'[u] = "write" => \E e \in 0..next' : HeldRun(u, e)'
    BY DEF Writing
  <2>1. /\ last[u].id = last[u].n /\ last[u].n <= Newest(u).n
        /\ pc[u] \in {"open", "write"} =>
             /\ mLastImageId < last[u].n
             /\ ~buff[u].live => last[u] = Newest(u)
             /\ buff[u].live => \A k \in Numbers : Occ(video, k) >= 1 => k <= last[u].n
        /\ pc[u] = "write" => \E e \in 0..next : HeldRun(u, e)
    BY <1>3 DEF Session, Writing
  <2>2. ASSUME NEW e, HeldRun(u, e) PROVE HeldRun(u, e)'
    BY <1>3, <2>2 DEF HeldRun
  <2> QED
    BY <1>1, <1>3, <2>1, <2>2
<1>5. Marked' = Marked
  <2>1. CASE mutex = "free"
    BY <2>1 DEF Marked
  <2>2. CASE mutex # "free"
    <3>1. mutex \in Threads /\ mutex # t
      BY <2>2 DEF TypeOK
    <3>2. pc'[mutex] = pc[mutex] /\ Newest(mutex)' = Newest(mutex)
      BY <3>1 DEF Others
    <3>3. mutex' = mutex /\ pc'[mutex] = pc[mutex] /\ Newest(mutex') = Newest(mutex)
      BY <3>2
    <3> QED
      BY <2>2, <3>2 DEF Marked, Newest, View, Others
  <2> QED
    BY <2>1, <2>2
<1>6. Chronological'
  BY <1>5 DEF Session, Chronological, Increasing
<1>7. Repeated'
  BY <1>1, <1>5 DEF Session, Repeated, Shown
<1> QED
  BY <1>1, <1>4, <1>6, <1>7 DEF Session

LEMMA BeginSession ==
  ASSUME TypeOK, Filled, Session, BeginPass \/ BeginText
  PROVE  Session'
<1>1. PICK t \in Threads, where \in {"alert", "warning", "reply"}, b \in {Copy, Live} :
        Begin(t, where, b)
  BY BeginKinds
<1>2. /\ pc[t] = "idle" /\ buff' = [buff EXCEPT ![t] = b]
      /\ UNCHANGED <<video, mLastImageId, mutex, raced>>
  BY <1>1 DEF Begin, file
<1>3. buff'[t] \in {buff[t], Unused, Live, Copy} /\ mutex # t
  BY <1>2 DEF TypeOK, Filled
<1> QED
  BY <1>1, <1>2, <1>3, BeginType, QuietSession

LEMMA WriteBeginSession ==
  ASSUME TypeOK, Filled, Session, NEW t \in Threads, WriteBegin(t)
  PROVE  Session'
<1>1. TypeOK' /\ Filled' /\ Others(t)
  BY WriteBeginType
<1>2. UNCHANGED <<video, mLastImageId, raced>> /\ mutex = "free" /\ mutex # t
  BY Bounds DEF WriteBegin
<1>3. CASE Written(t) /\ UNCHANGED mutex
  <2>1. buff'[t] = buff[t] \/ buff'[t] = Unused
    BY <1>3, EndFacts
  <2> QED
    BY <1>1, <1>2, <1>3, <2>1, QuietSession
<1>4. CASE /\ Newest(t).id > mLastImageId /\ last' = [last EXCEPT ![t] = Newest(t)] /\ mutex' = t
           /\ pc' = [pc EXCEPT ![t] = "open"] /\ IsFull(t) /\ UNCHANGED <<buff, held, seen>>
  <2>1. Len(View(t).list) > 0
    BY <1>4, ViewFacts, Bounds DEF IsFull
  <2>2. /\ Newest(t) \in Frame /\ Newest(t).id = Newest(t).n /\ Newest(t).n \in Nat
        /\ Newest(t).n < next /\ (buff[t].live => Newest(t).n = next - 1)
    BY <2>1, NewestFacts DEF Session
  <2>3. pc'[t] = "open" /\ last'[t] = Newest(t) /\ buff'[t] = buff[t] /\ mutex' # "free"
    BY <1>4, Bounds DEF TypeOK
  <2>4. Numbered' /\ View(t)' = View(t) /\ Newest(t)' = Newest(t) /\ UNCHANGED <<ring, next>>
    BY <1>1, <2>3, NumberedKept, SameView DEF Session, Others, source
  <2>5. Marked = mLastImageId /\ Marked' = mLastImageId /\ mLastImageId \in Int /\ next \in Nat
    <3>1. pc'[mutex'] # "mark"
      BY <1>4, <2>3
    <3> QED
      BY <1>2, <3>1, Bounds DEF Marked, TypeOK
  <2>6. \A k \in Numbers : k \in Nat /\ (Occ(video, k) >= 1 => k < next)
    BY FrameFacts DEF Session, Repeated, Shown
  <2>7. \A u \in Threads : pc'[u] \in {"open", "write", "mark"} => u = t
    BY <1>1, <1>4 DEF Filled
  <2>8. Writing'
    <3>1. buff[t].live => \A k \in Numbers : Occ(video, k) >= 1 => k <= Newest(t).n
      BY <2>2, <2>5, <2>6
    <3>2. /\ last'[t].id = last'[t].n /\ last'[t].n <= Newest(t)'.n /\ mLastImageId < last'[t].n
          /\ last'[t] = Newest(t)' /\ pc'[t] # "write"
      BY <1>4, <2>2, <2>3, <2>4, <2>5
    <3> QED
      BY <1>2, <2>3, <2>7, <3>1, <3>2 DEF Writing
  <2>9. Chronological'
    BY <1>2, <2>5 DEF Session, Chronological, Increasing
  <2>10. Repeated'
    BY <1>2, <2>4, <2>5 DEF Session, Repeated, Shown
  <2> QED
    BY <2>4, <2>8, <2>9, <2>10 DEF Session
<1> QED
  BY <1>3, <1>4 DEF WriteBegin, Goto

\* Who gives back the mutex leaves nobody writing.
LEMMA MutexFree ==
  ASSUME Filled', mutex' = "free"
  PROVE  Writing' /\ Marked' = mLastImageId'
<1>1. \A u \in Threads : pc'[u] \notin {"open", "write", "mark"}
  BY Bounds DEF Filled
<1> QED
  BY <1>1 DEF Writing, Marked

LEMMA WriteOpenSession ==
  ASSUME TypeOK, Filled, Session, NEW t \in Threads, WriteOpen(t)
  PROVE  Session'
<1>1. TypeOK' /\ Filled' /\ Others(t)
  BY WriteOpenType
<1>2. UNCHANGED <<video, raced>> /\ pc[t] = "open" /\ mutex = t /\ Len(View(t).list) >= RingSize
  BY DEF WriteOpen, Filled
<1>3. /\ Marked = mLastImageId /\ mLastImageId \in Int /\ next \in Nat
      /\ last[t].id = last[t].n /\ last[t].n <= Newest(t).n /\ mLastImageId < last[t].n
      /\ ~buff[t].live => last[t] = Newest(t)
      /\ buff[t].live => \A k \in Numbers : Occ(video, k) >= 1 => k <= last[t].n
  <2>1. mLastImageId \in Int /\ next \in Nat
    BY Bounds DEF TypeOK
  <2>2. Marked = mLastImageId
    BY <1>2, MarkedFacts
  <2>3. /\ last[t].id = last[t].n /\ last[t].n <= Newest(t).n /\ mLastImageId < last[t].n
        /\ ~buff[t].live => last[t] = Newest(t)
        /\ buff[t].live => \A k \in Numbers : Occ(video, k) >= 1 => k <= last[t].n
    BY <1>2 DEF Session, Writing
  <2> QED
    BY <2>1, <2>2, <2>3
<1>4. UNCHANGED <<ring, next>>
  BY <1>1 DEF Others, source
<1>5. CASE /\ held' = [held EXCEPT ![t] = View(t).list] /\ Goto(t, "write")
           /\ UNCHANGED <<buff, last, mLastImageId, mutex>>
  <2>1. /\ pc'[t] = "write" /\ held'[t] = View(t).list /\ last'[t] = last[t] /\ buff'[t] = buff[t]
        /\ mutex' # "free" /\ View(t)' = View(t) /\ Newest(t)' = Newest(t)
    BY <1>1, <1>2, <1>5, SameView, Bounds DEF TypeOK, Goto, Others
  <2>2. Numbered'
    BY <1>1, <2>1, NumberedKept DEF Session
  <2>3. Marked' = mLastImageId
    BY <1>2, <1>5, <2>1 DEF Marked
  <2>4. /\ Newest(t) \in Frame /\ Newest(t).n \in Nat /\ Newest(t).n < next
        /\ InOrder(View(t), Newest(t).n + 1) /\ (buff[t].live => Newest(t).n = next - 1)
    <3>1. Len(View(t).list) > 0
      BY <1>2, ViewFacts, Bounds
    <3> QED
      BY <3>1, NewestFacts DEF Session
  <2>5. \E e \in 0..next : HeldRun(t, e)'
    <3> DEFINE e == Newest(t).n + 1
    <3>1. e \in 0..next /\ e \in Int /\ Run(held'[t], e) /\ last[t].n < e /\ e <= Newest(t)'.n + 1
      <4>1. last[t].n \in Nat
        BY FrameFacts DEF TypeOK
      <4>2. Run(held'[t], e)
        BY <2>1, <2>4 DEF InOrder
      <4> QED
        BY <1>3, <2>1, <2>4, <4>1, <4>2
    <3>2. ASSUME buff[t].live, NEW k \in Numbers, Occ(video, k) >= 2
          PROVE  k <= mLastImageId \/ k < e - RingSize
      <4>1. k <= mLastImageId \/ k < next - Len(ring)
        BY <1>3, <3>2 DEF Session, Repeated, Shown
      <4>2. Len(ring) >= RingSize /\ Len(ring) <= RingSize /\ Len(ring) \in Nat
        BY <1>2, <3>2, ViewFacts DEF Filled
      <4>3. e - RingSize = next - Len(ring)
        BY <1>3, <2>4, <3>2, <4>2, Bounds
      <4> QED
        BY <4>1, <4>3
    <3> DEFINE b == e - RingSize
    <3>3. buff[t].live => \A k \in Numbers : Occ(video, k) >= 2 => k <= mLastImageId \/ k < b
      BY <3>2
    <3>4. b = e - RingSize
      OBVIOUS
    <3> HIDE DEF b
    <3>5. \E f \in 0..next : /\ Run(held'[t], f) /\ last[t].n < f /\ f <= Newest(t)'.n + 1
                             /\ buff[t].live => \A k \in Numbers : Occ(video, k) >= 2 =>
                                  k <= mLastImageId \/ k < f - RingSize
      <4> HIDE DEF e
      <4> QED
        BY <3>1, <3>3, <3>4
    <3>6. PICK f \in 0..next : /\ Run(held'[t], f) /\ last[t].n < f /\ f <= Newest(t)'.n + 1
                               /\ buff[t].live => \A k \in Numbers : Occ(video, k) >= 2 =>
                                    k <= mLastImageId \/ k < f - RingSize
      BY <3>5
    <3>7. HeldRun(t, f)'
      BY <1>2, <1>5, <2>1, <3>6 DEF HeldRun
    <3> QED
      BY <3>7
  <2>6. \A u \in Threads : pc'[u] \in {"open", "write", "mark"} => u = t
    BY <1>1, <1>2, <1>5 DEF Filled
  <2>7. Writing'
    BY <1>2, <1>3, <1>4, <1>5, <2>1, <2>5, <2>6 DEF Writing
  <2>8. Chronological'
    BY <1>2, <1>3, <2>3 DEF Session, Chronological, Increasing
  <2>9. Repeated'
    BY <1>2, <1>3, <1>4, <1>5, <2>3 DEF Session, Repeated, Shown
  <2> QED
    BY <2>2, <2>7, <2>8, <2>9 DEF Session
<1>6. CASE mLastImageId' = last[t].id /\ mutex' = "free" /\ Written(t)
  <2>1. buff'[t] = buff[t] \/ buff'[t] = Unused
    BY <1>6, EndFacts
  <2>2. Numbered'
    BY <1>1, <2>1, NumberedKept DEF Session
  <2>3. Writing' /\ Marked' = last[t].n /\ mLastImageId' = last[t].n /\ last[t].n \in Int
    <3>1. last[t].n \in Int
      BY FrameFacts DEF TypeOK
    <3>2. Writing' /\ Marked' = mLastImageId'
      BY <1>1, <1>6, MutexFree
    <3> QED
      BY <1>3, <1>6, <3>1, <3>2
  <2>4. video \in Seq(Numbers) /\ \A i \in 1..Len(video) : video[i] \in Nat
    BY VideoUnits
  <2>5. Chronological'
    <3>1. "warning" \notin raced => Increasing(video) /\ \A i \in 1..Len(video) : video[i] <= Marked
      BY DEF Session, Chronological
    <3>2. "warning" \notin raced => \A i \in 1..Len(video) : video[i] <= last[t].n
      BY <1>3, <2>3, <2>4, <3>1
    <3> QED
      BY <1>2, <2>3, <3>1, <3>2 DEF Chronological, Increasing
  <2>6. Repeated'
    <3> DEFINE b == next - Len(ring)
               m == last[t].n
    <3>1. Shown(video, mLastImageId, b, next)
      BY <1>3 DEF Session, Repeated
    <3>2. b \in Int /\ m \in Int /\ mLastImageId <= m /\ next \in Int
      BY <1>3, <2>3, LenProperties DEF TypeOK
    <3> HIDE DEF b, m
    <3>3. Shown(video, m, b, next)
      BY <1>3, <2>4, <3>1, <3>2, ShownLater
    <3> QED
      BY <1>2, <1>4, <2>3, <3>2, <3>3 DEF Repeated, Shown, b, m
  <2> QED
    BY <2>2, <2>3, <2>5, <2>6 DEF Session
<1> QED
  BY <1>5, <1>6, WriteOpenKinds

\* One frame is a sequence of this kind.
LEMMA OneBetween ==
  ASSUME NEW x \in Numbers, NEW a \in Int, a < x
  PROVE  /\ Between(<<x>>, a, x + 1)
         /\ \A v \in Seq(Numbers) : Append(v, x) = v \o <<x>>
<1>1. x \in Nat /\ <<x>> \in Seq(Numbers) /\ Len(<<x>>) = 1 /\ <<x>>[1] = x
  BY FrameFacts
<1>2. Between(<<x>>, a, x + 1)
  BY <1>1 DEF Between, Increasing
<1>3. \A v \in Seq(Numbers) : Append(v, x) = v \o <<x>>
  BY <1>1, AppendIsConcat
<1> QED
  BY <1>2, <1>3

\* What a writing writes: frames of the long list, before b, and frames of the list, which
\* ends before e.
LEMMA PartFacts ==
  ASSUME TypeOK, Filled, Session, NEW t \in Threads, pc[t] = "write",
         NEW e \in 0..next, HeldRun(t, e)
  PROVE  \E u, w : /\ Part(t) = u \o w
                   /\ Between(u, mLastImageId, Newest(t).n + 1 - Len(View(t).list))
                   /\ Between(w, mLastImageId, e)
                   /\ \A i \in 1..Len(w) : e - RingSize <= w[i]
<1> DEFINE v == [list |-> held[t], longList |-> View(t).longList]
           b == Newest(t).n + 1 - Len(View(t).list)
           x == LastOf(held[t]).n
           one == <<x>>
<1>1. /\ held[t] \in Seq(Frame) /\ Len(held[t]) = RingSize /\ Len(held[t]) > 0
      /\ LastOf(held[t]) \in Frame /\ RingSize \in Nat /\ RingSize > 0
  BY PartType, Bounds DEF Filled
<1>2. /\ Run(held[t], e) /\ last[t].n < e /\ mLastImageId < last[t].n /\ last[t].n \in Nat
      /\ e \in Int /\ mLastImageId \in Int
  BY FrameFacts, Bounds DEF HeldRun, Session, Writing, TypeOK
<1>3. x = e - 1 /\ x \in Numbers /\ x \in Nat /\ mLastImageId < x
  <2>1. x = e - 1 /\ x \in Numbers
    BY <1>1, <1>2, RunLast, FrameFacts
  <2> HIDE DEF x
  <2> QED
    BY <1>2, <2>1, FrameFacts
<1>4. Len(View(t).list) > 0 /\ Len(View(t).list) \in Nat
  BY ViewFacts, Bounds DEF Filled
<1>5. Newest(t).n \in Nat /\ InOrder(View(t), Newest(t).n + 1)
  BY <1>4, NewestFacts DEF Session
<1>6. b \in Int /\ Sampled(View(t).longList, b)
  BY <1>4, <1>5 DEF InOrder
<1> HIDE DEF b
<1>7. /\ v.list \in Seq(Frame) /\ v.longList \in Seq(Frame) /\ Len(v.list) > 0
      /\ Run(v.list, e) /\ Sampled(v.longList, b) /\ Len(v.list) = RingSize
  BY <1>1, <1>2, <1>6, ViewFacts
<1> HIDE DEF v, x
<1>8. PICK u, w : /\ Before(v) = u \o w
                  /\ Between(u, mLastImageId, b)
                  /\ Between(w, mLastImageId, e - 1)
                  /\ \A i \in 1..Len(w) : e - Len(v.list) <= w[i]
  BY <1>2, <1>6, <1>7, BeforeParts
<1>9. Between(one, mLastImageId, e) /\ \A i \in 1..Len(one) : e - 1 <= one[i]
  <2>1. Between(<<x>>, mLastImageId, x + 1)
    BY <1>2, <1>3, OneBetween
  <2>2. x + 1 = e
    BY <1>2, <1>3
  <2>3. Len(one) = 1 /\ one[1] = x
    OBVIOUS
  <2> QED
    BY <1>2, <1>3, <2>1, <2>2, <2>3
<1>10. u \in Seq(Numbers) /\ w \in Seq(Numbers) /\ one \in Seq(Numbers)
  BY <1>8, <1>9 DEF Between
<1> DEFINE c == e - 1
           w2 == w \o one
<1>11. c \in Int /\ c <= e /\ Between(w, mLastImageId, c) /\ \A i \in 1..Len(one) : c <= one[i]
  BY <1>2, <1>8, <1>9
<1> HIDE DEF c, one
<1>12. Between(w2, mLastImageId, e)
  BY <1>2, <1>9, <1>11, BetweenJoined
<1>13. \A i \in 1..Len(w2) : e - RingSize <= w2[i]
  <2>1. \A i \in 1..Len(w2) : \/ i \in 1..Len(w) /\ w2[i] = w[i]
                              \/ i - Len(w) \in 1..Len(one) /\ w2[i] = one[i - Len(w)]
    BY <1>10, GrownUnits
  <2>2. \A i \in 1..Len(w) : e - RingSize <= w[i]
    BY <1>7, <1>8
  <2>3. \A i \in 1..Len(one) : e - RingSize <= one[i]
    <3>1. \A i \in 1..Len(one) : e - 1 <= one[i] /\ one[i] \in Nat
      BY <1>9, <1>10, ElementOfSeq, FrameFacts
    <3> QED
      BY <1>1, <1>2, <3>1
  <2> QED
    BY <2>1, <2>2, <2>3
<1>14. Part(t) = u \o w2
  <2>1. Part(t) = (u \o w) \o one
    BY <1>8 DEF Part, v, one, x
  <2> QED
    BY <1>10, <2>1, ConcatAssociative
<1> HIDE DEF w2
<1> QED
  BY <1>8, <1>12, <1>13, <1>14 DEF b

\* How often the video shows a number after a writing.
LEMMA PartOccurs ==
  ASSUME TypeOK, Filled, Session, NEW t \in Threads, pc[t] = "write"
  PROVE  Shown(video \o Part(t), last[t].n, next - Len(ring), next)
<1>1. PICK e \in 0..next : HeldRun(t, e)
  BY DEF Session, Writing
<1>2. PICK u, w : /\ Part(t) = u \o w
                  /\ Between(u, mLastImageId, Newest(t).n + 1 - Len(View(t).list))
                  /\ Between(w, mLastImageId, e)
                  /\ \A i \in 1..Len(w) : e - RingSize <= w[i]
  BY <1>1, PartFacts
<1> DEFINE m == last[t].n
           b == Newest(t).n + 1 - Len(View(t).list)
           c == next - Len(ring)
<1>3. Len(View(t).list) = RingSize /\ RingSize \in Nat \ {0} /\ Len(View(t).list) \in Nat
  BY ViewFacts, Bounds DEF Filled
<1>4. /\ Newest(t).n \in Nat /\ Newest(t).n < next
      /\ buff[t].live => Newest(t).n = next - 1 /\ View(t).list = ring
  BY <1>3, NewestFacts, ViewFacts DEF Session
<1>5. /\ mLastImageId \in Int /\ next \in Nat /\ e \in Int /\ e <= next /\ m \in Nat
      /\ c \in Int /\ Len(ring) \in Nat
  BY FrameFacts, LenProperties, Bounds DEF TypeOK
<1>6. /\ mLastImageId < m /\ m < e /\ e <= Newest(t).n + 1
      /\ ~buff[t].live => m = Newest(t).n
      /\ buff[t].live => \A k \in Numbers : Occ(video, k) >= 1 => k <= m
      /\ buff[t].live =>
           \A k \in Numbers : Occ(video, k) >= 2 => k <= mLastImageId \/ k < e - RingSize
  BY <1>1 DEF HeldRun, Session, Writing
<1>7. Shown(video, mLastImageId, c, next)
  <2>1. Marked = mLastImageId
    BY MarkedFacts
  <2> QED
    BY <2>1 DEF Session, Repeated
<1>8. /\ b \in Int /\ b <= next
      /\ buff[t].live => b = c
      /\ ~buff[t].live => e = m + 1 /\ b = e - RingSize
  BY <1>3, <1>4, <1>5, <1>6
<1>9. Between(u, mLastImageId, b)
  BY <1>2
<1> HIDE DEF m, b, c
<1>10. video \in Seq(Numbers) /\ u \in Seq(Numbers) /\ w \in Seq(Numbers) /\ u \o w \in Seq(Numbers)
  BY <1>2, <1>9, VideoUnits, ConcatProperties DEF Between
<1> SUFFICES ASSUME NEW k \in Numbers
             PROVE  /\ Occ(video \o Part(t), k) <= 3
                    /\ Occ(video \o Part(t), k) >= 1 => k < next
                    /\ Occ(video \o Part(t), k) >= 2 => k <= m \/ k < c
                    /\ Occ(video \o Part(t), k) >= 3 => k <= m
  BY DEF Shown, m, c
<1> DEFINE a == Occ(video, k)
           p == Occ(u, k)
           q == Occ(w, k)
<1>11. Occ(video \o Part(t), k) = a + p + q
  <2>1. Occ(u \o w, k) = p + q
    BY <1>10, OccJoined
  <2>2. Occ(video \o (u \o w), k) = a + Occ(u \o w, k)
    BY <1>10, OccJoined
  <2>3. a \in Nat /\ p \in Nat /\ q \in Nat
    BY <1>10, OccFacts
  <2> QED
    BY <1>2, <2>1, <2>2, <2>3
<1>12. k \in Nat /\ a \in Nat
  <2>1. k \in Nat
    BY FrameFacts
  <2> QED
    BY <1>10, <2>1, OccFacts
<1>13. p \in {0, 1} /\ (p = 1 => mLastImageId < k /\ k < b)
  BY <1>5, <1>8, <1>9, OccBetween
<1>14. q \in {0, 1} /\ (q = 1 => mLastImageId < k /\ k < e /\ e - RingSize <= k)
  <2>1. /\ q \in {0, 1} /\ (q = 1 => mLastImageId < k /\ k < e)
        /\ q = 1 => \E i \in 1..Len(w) : w[i] = k
    BY <1>2, <1>5, OccBetween
  <2> QED
    BY <1>2, <2>1
<1>15. /\ a <= 3 /\ (a >= 1 => k < next) /\ (a >= 2 => k <= mLastImageId \/ k < c)
       /\ a >= 3 => k <= mLastImageId
  BY <1>7 DEF Shown
<1>16. /\ buff[t].live => (a >= 1 => k <= m)
       /\ buff[t].live => (a >= 2 => k <= mLastImageId \/ k < e - RingSize)
  BY <1>6
<1> HIDE DEF a, p, q
<1>17. RingSize \in Nat
  BY <1>3
<1>18. CASE buff[t].live
  <2>1. /\ a >= 1 => k <= m
        /\ a >= 2 => k <= mLastImageId \/ q = 0
        /\ a >= 3 => p = 0 /\ q = 0
        /\ p = 1 => k < c /\ k < next
        /\ q = 1 => k < next
    BY <1>5, <1>8, <1>12, <1>13, <1>14, <1>15, <1>16, <1>17, <1>18
  <2>2. k <= mLastImageId => p = 0 /\ q = 0
    BY <1>5, <1>12, <1>13, <1>14
  <2> QED
    BY <1>5, <1>11, <1>12, <1>13, <1>14, <1>15, <2>1, <2>2
<1>19. CASE ~buff[t].live
  <2>1. p = 1 => q = 0 /\ k <= m /\ k < next
    BY <1>5, <1>8, <1>12, <1>13, <1>14, <1>17, <1>19
  <2>2. q = 1 => p = 0 /\ k <= m /\ k < next
    BY <1>5, <1>8, <1>12, <1>13, <1>14, <1>17, <1>19
  <2>3. k <= mLastImageId => p = 0 /\ q = 0 /\ k <= m
    BY <1>5, <1>6, <1>12, <1>13, <1>14
  <2> QED
    BY <1>5, <1>11, <1>12, <1>13, <1>14, <1>15, <2>1, <2>2, <2>3
<1> QED
  BY <1>18, <1>19

\* Frames newer than a, and the newest of them, are written in the order of capture.
LEMMA WrittenInOrder ==
  ASSUME NEW v \in Seq(Numbers), NEW w, NEW a \in Int, NEW x \in Numbers,
         a < x, Between(w, a, x + 1), Increasing(v), \A i \in 1..Len(v) : v[i] <= a
  PROVE  Increasing(v \o w) /\ \A i \in 1..Len(v \o w) : (v \o w)[i] <= x
<1> DEFINE b == x + 1
           z == v \o w
<1>1. x \in Nat /\ b \in Int /\ b = x + 1 /\ a < b /\ Between(w, a, b) /\ w \in Seq(Numbers)
  BY FrameFacts DEF Between
<1> HIDE DEF b
<1>2. Increasing(z) /\ \A i \in 1..Len(z) : z[i] < b
  BY <1>1, GrownIncreasing
<1>3. z \in Seq(Numbers)
  BY <1>1, ConcatProperties
<1> HIDE DEF z
<1>4. \A i \in 1..Len(z) : z[i] \in Nat
  BY <1>3, ElementOfSeq, FrameFacts
<1>5. \A i \in 1..Len(z) : z[i] <= x
  BY <1>1, <1>2, <1>4
<1> QED
  BY <1>2, <1>5 DEF z

\* A writing that no push has overtaken keeps the order of capture.
LEMMA PartInOrder ==
  ASSUME TypeOK, Filled, Session, NEW t \in Threads, pc[t] = "write", Newest(t) = last[t],
         "warning" \notin raced
  PROVE  /\ Increasing(video \o Part(t))
         /\ \A i \in 1..Len(video \o Part(t)) : (video \o Part(t))[i] <= last[t].n
<1>1. PICK e \in 0..next : HeldRun(t, e)
  BY DEF Session, Writing
<1>2. PICK u, w : /\ Part(t) = u \o w
                  /\ Between(u, mLastImageId, Newest(t).n + 1 - Len(View(t).list))
                  /\ Between(w, mLastImageId, e)
                  /\ \A i \in 1..Len(w) : e - RingSize <= w[i]
  BY <1>1, PartFacts
<1> DEFINE x == last[t].n
           b == e - RingSize
           y == x + 1
<1>3. Len(View(t).list) = RingSize /\ RingSize \in Nat
  BY ViewFacts, Bounds DEF Filled
<1>4. x \in Numbers /\ x \in Nat /\ mLastImageId \in Int /\ mLastImageId < x
  BY FrameFacts, Bounds DEF TypeOK, Session, Writing
<1>5. e \in Int /\ x < e /\ e <= x + 1
  BY <1>1, Bounds DEF HeldRun, TypeOK
<1>6. e = y /\ y \in Int /\ b \in Int /\ b <= y
  BY <1>3, <1>4, <1>5
<1>7. Newest(t).n + 1 - Len(View(t).list) = b
  <2>1. Newest(t).n = x
    OBVIOUS
  <2> QED
    BY <1>3, <1>4, <1>5, <1>6, <2>1
<1>8. /\ Between(u, mLastImageId, b) /\ Between(w, mLastImageId, y)
      /\ \A i \in 1..Len(w) : b <= w[i]
  BY <1>2, <1>6, <1>7
<1> HIDE DEF b, y
<1>9. Between(u \o w, mLastImageId, y)
  BY <1>4, <1>6, <1>8, BetweenJoined
<1>10. Between(Part(t), mLastImageId, x + 1)
  BY <1>2, <1>9 DEF y
<1>11. /\ video \in Seq(Numbers) /\ Increasing(video)
       /\ \A i \in 1..Len(video) : video[i] <= mLastImageId
  <2>1. Marked = mLastImageId
    BY MarkedFacts
  <2> QED
    BY <2>1, VideoUnits DEF Session, Chronological
<1> HIDE DEF x
<1>12. /\ Increasing(video \o Part(t))
       /\ \A i \in 1..Len(video \o Part(t)) : (video \o Part(t))[i] <= x
  BY <1>4, <1>10, <1>11, WrittenInOrder
<1> QED
  BY <1>12 DEF x

LEMMA WriteFramesSession ==
  ASSUME TypeOK, Filled, Session, NEW t \in Threads, WriteFrames(t)
  PROVE  Session'
<1>1. TypeOK' /\ Filled' /\ Others(t)
  BY WriteFramesType
<1>2. /\ pc[t] = "write" /\ mLastImageId' = last[t].id /\ mutex' = "free" /\ Written(t)
      /\ raced' = raced \cup Overtaken(t, "warning")
  BY DEF WriteFrames
<1>3. last[t].id = last[t].n /\ UNCHANGED <<ring, next>>
  BY <1>1, <1>2 DEF Session, Writing, Others, source
<1>4. Numbered'
  <2>1. buff'[t] = buff[t] \/ buff'[t] = Unused
    BY <1>2, EndFacts
  <2> QED
    BY <1>1, <2>1, NumberedKept DEF Session
<1>5. Writing' /\ Marked' = last[t].n /\ mLastImageId' = last[t].n /\ last[t].n \in Int
  <2>1. last[t].n \in Int
    BY FrameFacts DEF TypeOK
  <2>2. Writing' /\ Marked' = mLastImageId'
    BY <1>1, <1>2, MutexFree
  <2> QED
    BY <1>2, <1>3, <2>1, <2>2
<1> DEFINE z == video \o Part(t)
<1>6. video' = z
  BY WriteFramesVideo
<1>7. Chronological'
  <2> SUFFICES ASSUME "warning" \notin raced'
               PROVE  Increasing(z) /\ \A i \in 1..Len(z) : z[i] <= last[t].n
    BY <1>5, <1>6 DEF Chronological, Increasing
  <2>1. "warning" \notin raced /\ Newest(t) = last[t]
    BY <1>2 DEF Overtaken
  <2> QED
    BY <1>2, <2>1, PartInOrder
<1>8. Repeated'
  <2>1. Shown(z, last[t].n, next - Len(ring), next)
    BY <1>2, PartOccurs
  <2> HIDE DEF z
  <2> QED
    BY <1>3, <1>5, <1>6, <2>1 DEF Repeated, Shown
<1> QED
  BY <1>4, <1>5, <1>7, <1>8 DEF Session

LEMMA ReplyBeginSession ==
  ASSUME TypeOK, Filled, Session, NEW t \in Threads, ReplyBegin(t) \/ ReplyCount(t)
  PROVE  Session'
<1>1. TypeOK' /\ Filled' /\ Others(t)
  BY ReplyBeginType, ReplyCountType
<1>2. UNCHANGED <<video, mLastImageId, mutex>> /\ pc[t] \in {"reply", "count"}
  BY DEF ReplyBegin, ReplyCount, file
<1>3. raced \subseteq raced'
  BY DEF ReplyBegin, ReplyCount
<1>4. mutex # t
  BY <1>2 DEF Filled
<1>5. buff'[t] = buff[t] \/ buff'[t] = Unused
  BY EndFacts DEF ReplyBegin, ReplyCount, GoOn, work
<1> QED
  BY <1>1, <1>2, <1>3, <1>4, <1>5, QuietSession

\* A newer frame than all that is marked may be written once more.
LEMMA ShownOnce ==
  ASSUME NEW w \in Seq(Numbers), NEW m \in Int, NEW b \in Int, NEW e \in Int, Shown(w, m, b, e),
         NEW x \in Numbers, m < x, x < e
  PROVE  Shown(Append(w, x), x, b, e) /\ Shown(w, x, b, e)
<1>1. x \in Nat /\ <<x>> \in Seq(Numbers) /\ Append(w, x) = w \o <<x>>
      /\ Between(<<x>>, m, x + 1)
  BY OneBetween, FrameFacts
<1> DEFINE z == w \o <<x>>
<1>2. ASSUME NEW k \in Numbers
      PROVE  /\ Occ(z, k) <= 3
             /\ Occ(z, k) >= 1 => k < e
             /\ Occ(z, k) >= 2 => k <= x \/ k < b
             /\ Occ(z, k) >= 3 => k <= x
  <2> DEFINE a == Occ(w, k)
             q == Occ(<<x>>, k)
  <2>1. Occ(z, k) = a + q
    BY <1>1, OccJoined
  <2>2. k \in Nat /\ a \in Nat
    <3>1. k \in Nat
      BY FrameFacts
    <3> QED
      BY <3>1, OccFacts
  <2>3. q \in {0, 1} /\ (q = 1 => k = x)
    <3> DEFINE y == x + 1
    <3>1. y \in Int /\ Between(<<x>>, m, y)
      BY <1>1
    <3> HIDE DEF y
    <3>2. q \in {0, 1} /\ (q = 1 => \E i \in 1..Len(<<x>>) : <<x>>[i] = k)
      BY <3>1, OccBetween
    <3> QED
      BY <3>2
  <2>4. /\ a <= 3
        /\ a >= 1 => k < e
        /\ a >= 2 => k <= m \/ k < b
        /\ a >= 3 => k <= m
    BY DEF Shown
  <2> HIDE DEF a, q, z
  <2> QED
    BY <1>1, <2>1, <2>2, <2>3, <2>4
<1>3. Shown(z, x, b, e)
  BY <1>2 DEF Shown
<1>4. Shown(w, x, b, e)
  BY <1>1, ShownLater
<1> QED
  BY <1>1, <1>3, <1>4

LEMMA ReplyLockSession ==
  ASSUME TypeOK, Filled, Session, NEW t \in Threads, ReplyLock(t)
  PROVE  Session'
<1>1. TypeOK' /\ Filled' /\ Others(t)
  BY ReplyLockType
<1>2. UNCHANGED <<mLastImageId, raced>> /\ mutex = "free" /\ mutex # t /\ pc[t] = "lock"
  BY Bounds DEF ReplyLock
<1>3. CASE Return(t) /\ UNCHANGED <<mutex, video, after>>
  <2>1. buff'[t] = buff[t] \/ buff'[t] = Unused
    BY <1>3, EndFacts
  <2> QED
    BY <1>1, <1>2, <1>3, <2>1, QuietSession
<1>4. CASE /\ Newest(t).id > mLastImageId
           /\ mutex' = t /\ pc' = [pc EXCEPT ![t] = "mark"]
           /\ last' = [last EXCEPT ![t] = Newest(t)]
           /\ UNCHANGED <<buff, held, seen>>
           /\ \/ opened /\ video' = Append(video, Newest(t).n) /\ after' = after \cup {Newest(t).n}
              \/ ~opened /\ UNCHANGED <<video, after>>
  <2> DEFINE x == Newest(t).n
             b == next - Len(ring)
  <2>1. Newest(t).id = x /\ x \in Numbers /\ x \in Nat /\ x < next /\ mLastImageId < x
    BY <1>4, ReplyLockKinds, NewestFacts, FrameFacts, Bounds DEF Session, TypeOK
  <2>2. pc'[t] = "mark" /\ last'[t] = Newest(t) /\ buff'[t] = buff[t] /\ mutex' # "free"
    BY <1>4, Bounds DEF TypeOK
  <2>3. Numbered' /\ Newest(t)' = Newest(t) /\ UNCHANGED <<ring, next>>
    BY <1>1, <2>2, NumberedKept, SameView DEF Session, Others, source
  <2>4. Marked = mLastImageId /\ Marked' = x /\ mLastImageId \in Int
    <3>1. Marked' = Newest(t)'.id
      BY <1>1, <1>4, <2>2, MarkedFacts DEF Marked, Newest, View
    <3> QED
      BY <1>2, <2>1, <2>3, <3>1, Bounds DEF Marked, TypeOK
  <2>5. \A u \in Threads : pc'[u] \in {"open", "write", "mark"} => u = t
    BY <1>1, <1>4 DEF Filled
  <2>6. Writing'
    <3>1. last'[t].id = last'[t].n /\ last'[t].n <= Newest(t)'.n
      BY <2>1, <2>2, <2>3
    <3> QED
      BY <2>2, <2>5, <3>1 DEF Writing
  <2>7. video \in Seq(Numbers) /\ b \in Int /\ next \in Int /\ Shown(video, mLastImageId, b, next)
    BY <2>4, VideoUnits, LenProperties, Bounds DEF Session, Repeated, TypeOK
  <2> HIDE DEF x, b
  <2>8. video' \in {video, Append(video, x)}
    BY <1>4 DEF x
  <2>9. Shown(Append(video, x), x, b, next) /\ Shown(video, x, b, next)
    BY <2>1, <2>4, <2>7, ShownOnce
  <2>10. Repeated'
    <3>1. Shown(video', x, b, next)
      BY <2>8, <2>9
    <3> QED
      BY <1>2, <2>1, <2>3, <2>4, <3>1 DEF Repeated, Shown, b
  <2>11. ASSUME "warning" \notin raced
         PROVE  \A z \in {video, Append(video, x)} :
                  Increasing(z) /\ \A i \in 1..Len(z) : z[i] <= x
    <3>1. Increasing(video) /\ \A i \in 1..Len(video) : video[i] <= mLastImageId
      BY <2>4, <2>11 DEF Session, Chronological
    <3>2. \A i \in 1..Len(video) : video[i] <= x
      BY <2>1, <2>4, <3>1, VideoUnits
    <3>3. Between(<<x>>, mLastImageId, x + 1) /\ Append(video, x) = video \o <<x>>
      BY <2>1, <2>4, <2>7, OneBetween
    <3>4. /\ Increasing(video \o <<x>>)
          /\ \A i \in 1..Len(video \o <<x>>) : (video \o <<x>>)[i] <= x
      BY <2>1, <2>4, <2>7, <3>1, <3>3, WrittenInOrder
    <3> QED
      BY <3>1, <3>2, <3>3, <3>4
  <2>12. Chronological'
    BY <1>2, <2>4, <2>8, <2>11 DEF Chronological, Increasing
  <2> QED
    BY <2>3, <2>6, <2>10, <2>12 DEF Session
<1> QED
  BY <1>3, <1>4, ReplyLockKinds

LEMMA ReplyMarkSession ==
  ASSUME TypeOK, Filled, Session, NEW t \in Threads, ReplyMark(t)
  PROVE  Session'
<1>1. TypeOK' /\ Filled' /\ Others(t)
  BY ReplyMarkType
<1>2. /\ pc[t] = "mark" /\ mLastImageId' = Newest(t).id /\ mutex' = "free" /\ Return(t)
      /\ video' = video /\ raced \subseteq raced'
  BY DEF ReplyMark, file
<1>3. Marked = Newest(t).id /\ Marked \in Int /\ UNCHANGED <<ring, next>>
  BY <1>1, <1>2, MarkedFacts DEF Others, source
<1>4. Writing' /\ Marked' = mLastImageId'
  BY <1>1, <1>2, MutexFree
<1>5. Numbered'
  <2>1. buff'[t] = buff[t] \/ buff'[t] = Unused
    BY <1>2, EndFacts
  <2> QED
    BY <1>1, <2>1, NumberedKept DEF Session
<1>6. Chronological'
  BY <1>2, <1>3, <1>4 DEF Session, Chronological, Increasing
<1>7. Repeated'
  BY <1>2, <1>3, <1>4 DEF Session, Repeated, Shown
<1> QED
  BY <1>4, <1>5, <1>6, <1>7 DEF Session

-----------------------------------------------------------------------------
(* The invariant, and what it says of the video. *)

LEMMA StutterSession ==
  ASSUME Session, UNCHANGED vars
  PROVE  Session'
<1>1. UNCHANGED <<ring, long, next, nextId, mLastId, buff, pc, last, held, mutex, mLastImageId,
                  video, raced>>
  BY DEF vars, source, work, file
<1>2. Numbered'
  BY <1>1 DEF Session, Numbered, InOrder, Run, Sampled
<1>3. \A t : Newest(t)' = Newest(t)
  BY <1>1 DEF Newest, View, LastOf
<1>4. Writing'
  <2>1. ASSUME NEW t \in Threads, NEW e, HeldRun(t, e) PROVE HeldRun(t, e)'
    BY <1>1, <1>3, <2>1 DEF HeldRun
  <2> QED
    BY <1>1, <1>3, <2>1 DEF Session, Writing
<1>5. Marked' = Marked
  BY <1>1 DEF Marked, Newest, View
<1>6. Chronological'
  BY <1>1, <1>5 DEF Session, Chronological, Increasing
<1>7. Repeated'
  BY <1>1, <1>5 DEF Session, Repeated, Shown
<1> QED
  BY <1>2, <1>4, <1>6, <1>7 DEF Session

LEMMA SessionStep ==
  ASSUME TypeOK, Filled, Session, [Next]_vars, ~RemoteRestart
  PROVE  Session'
<1>1. CASE PushBack
  BY <1>1, PushBackSession
<1>2. CASE BeginPass \/ BeginText
  BY <1>2, BeginSession
<1>3. ASSUME NEW t \in Threads, Steps(t)
      PROVE  Session'
  BY <1>3, WriteBeginSession, WriteOpenSession, WriteFramesSession, ReplyBeginSession,
     ReplyLockSession, ReplyMarkSession DEF Steps
<1>4. CASE UNCHANGED vars
  BY <1>4, StutterSession
<1> QED
  BY <1>1, <1>2, <1>3, <1>4 DEF Next, Steps

\* A session ends with a restart of the source only.
LEMMA RestartStep ==
  ASSUME TypeOK, [Next]_vars, restarts' = 0
  PROVE  ~RemoteRestart /\ restarts = 0
<1>1. ~RemoteRestart
  BY Bounds DEF RemoteRestart, TypeOK
<1>2. restarts' = restarts
  <2>1. CASE PushBack
    BY <2>1 DEF PushBack, Refused
  <2>2. CASE BeginPass \/ BeginText
    <3>1. PICK t \in Threads, where \in {"alert", "warning", "reply"}, b \in {Copy, Live} :
            Begin(t, where, b)
      BY <2>2, BeginKinds
    <3> QED
      BY <3>1 DEF Begin, source
  <2>3. ASSUME NEW t \in Threads, Steps(t)
        PROVE  restarts' = restarts
    BY <2>3, OthersKept DEF Others, source
  <2>4. CASE UNCHANGED vars
    BY <2>4 DEF vars, source
  <2> QED
    BY <1>1, <2>1, <2>2, <2>3, <2>4 DEF Next, Steps
<1> QED
  BY <1>1, <1>2

LEMMA InvariantStep ==
  ASSUME IInv, [Next]_vars
  PROVE  IInv'
<1>1. TypeOK /\ Filled /\ (restarts = 0 => Session)
  BY DEF IInv
<1>2. TypeOK' /\ Filled'
  BY <1>1, TypeStep
<1>3. restarts' = 0 => Session'
  BY <1>1, RestartStep, SessionStep
<1> QED
  BY <1>2, <1>3 DEF IInv

\* Every action keeps the invariant: buffers are full where a writer reads them, one thread
\* writes at a time, and in a session identifiers, numbers and mLastImageId agree.
THEOREM WriterInvariant == Spec => []IInv
<1>1. Init => IInv
  BY InitInvariant
<1>2. IInv /\ [Next]_vars => IInv'
  BY InvariantStep
<1> QED
  BY <1>1, <1>2, PTL DEF Spec

\* CFinalVideoWriter, for every size of the buffer and of the window and copies of any age: the
\* videos of a session show every frame at most once and in the order of capture, until a push
\* overtakes a warning that reads the live buffer.
THEOREM AlwaysInOrder == Spec => []VideoInOrder
<1>1. IInv => VideoInOrder
  <2> SUFFICES ASSUME IInv PROVE VideoInOrder
    OBVIOUS
  <2>1. TypeOK
    BY DEF IInv
  <2>2. restarts = 0 /\ "warning" \notin raced => Increasing(video)
    BY DEF IInv, Session, Chronological
  <2> QED
    BY <2>1, <2>2, VideoUnits DEF VideoInOrder, Increasing
<1> QED
  BY <1>1, WriterInvariant, PTL

\* The same where pushes do overtake warnings: no frame of a session is shown four times,
\* because what is written a third time has been marked.
THEOREM NeverFourTimes == Spec => []AtMostThrice
<1>1. IInv => AtMostThrice
  <2> SUFFICES ASSUME IInv, restarts = 0, NEW i \in DOMAIN video
               PROVE  Times(video[i]) <= 3
    BY DEF AtMostThrice
  <2>1. TypeOK /\ Shown(video, Marked, next - Len(ring), next)
    BY DEF IInv, Session, Repeated
  <2>2. DOMAIN video = 1..Len(video) /\ video[i] \in Numbers
    BY <2>1, VideoUnits
  <2>3. Occ(video, video[i]) <= 3
    BY <2>1, <2>2 DEF Shown
  <2>4. Times(video[i]) = Occ(video, video[i])
    BY <2>2 DEF Times, Occ
  <2> QED
    BY <2>3, <2>4
<1> QED
  BY <1>1, WriterInvariant, PTL

-----------------------------------------------------------------------------
(* An alert is recorded, and the frames after it are counted. *)

\* Reply calls that are counted and have still to write their frame.
Waiting == {t \in Threads : pc[t] = "lock"}
AfterAlert == Cardinality(after) + Cardinality(Waiting)
CountedSo == IF mAfterAlertFramesCount >= 0 THEN mAfterAlertFramesCount ELSE FrameAfter

\* An alert starts the count at 0, while any other thread may have been counted before.
Counted == "count" \notin raced => AfterAlert < Cardinality(Threads) + CountedSo

\* A file is open, or somebody is about to open one.
Alerted == opened \/ \E t \in Threads : pc[t] = "open"

\* The last image written, or a newer one, is in the video of an open file; frames are counted
\* when a file is open or about to be, and written when it is.
Noted ==
  /\ mLastImageId > 0 => opened /\ Reached(mLastImageId)
  /\ mAfterAlertFramesCount >= 0 => Alerted
  /\ \A t \in Threads :
       /\ pc[t] \in {"count", "lock"} => Alerted
       /\ pc[t] \in {"write", "mark"} => opened
       /\ pc[t] = "mark" => InVideo(last[t].n)

Recorded == Counted /\ (Recording => Noted)

\* What the frames of a part of a list are.
LEMMA PartHas ==
  ASSUME NEW s \in Seq(Frame), NEW a \in Nat \ {0}, NEW b \in Int, b <= Len(s), NEW j \in a..b
  PROVE  j - a + 1 \in 1..Len(SubSeq(s, a, b)) /\ SubSeq(s, a, b)[j - a + 1] = s[j]
<1>1. Len(s) \in Nat /\ \A i \in a..b : s[i] \in Frame
  BY LenProperties, ElementOfSeq
<1>2. /\ Len(SubSeq(s, a, b)) = (IF a <= b THEN b - a + 1 ELSE 0)
      /\ \A i \in 1..(b - a + 1) : SubSeq(s, a, b)[i] = s[a + i - 1]
  BY <1>1, SubSeqProperties
<1>3. a <= b /\ j - a + 1 \in 1..(b - a + 1) /\ a + (j - a + 1) - 1 = j
  OBVIOUS
<1> QED
  BY <1>2, <1>3

\* Newer leaves out no frame that comes after the last image written.
LEMMA NewerCovers ==
  ASSUME NEW s \in Seq(Frame), NEW k \in 1..Len(s), s[k].id > mLastImageId
  PROVE  \E i \in 1..Len(Newer(s)) : Newer(s)[i] = s[k].n
<1> DEFINE new == {i \in DOMAIN s : s[i].id > mLastImageId}
           f == Ascending(new)
           c == Cardinality(new)
<1>1. Len(s) \in Nat /\ DOMAIN s = 1..Len(s)
  BY LenProperties
<1>2. new \in SUBSET (1..Len(s)) /\ new \in SUBSET Nat /\ k \in new
  BY <1>1
<1>3. IsFiniteSet(new)
  <2>1. IsFiniteSet(1..Len(s))
    BY <1>1, FS_Interval
  <2> QED
    BY <1>2, <2>1, FS_Subset
<1>4. Newer(s) = [i \in DOMAIN f |-> s[f[i]].n]
  BY DEF Newer
<1> HIDE DEF new
<1>5. Enumerates(f, new)
  BY <1>2, <1>3, AscendingFacts
<1>6. c \in Nat
  BY <1>3, FS_CardinalityType
<1> HIDE DEF f, c
<1>7. f \in [1..c -> new] /\ \A i, j \in 1..c : i < j => f[i] < f[j]
  BY <1>5 DEF Enumerates, c
<1>8. f \in Injection(1..c, new)
  <2>1. \A i \in 1..c : f[i] \in Nat
    BY <1>2, <1>7
  <2>2. ASSUME NEW i \in 1..c, NEW j \in 1..c, f[i] = f[j]
        PROVE  i = j
    <3>1. ~(f[i] < f[j]) /\ ~(f[j] < f[i])
      BY <2>1, <2>2
    <3>2. ~(i < j) /\ ~(j < i)
      BY <1>7, <3>1
    <3> QED
      BY <3>2
  <2> QED
    BY <1>7, <2>2 DEF Injection, IsInjective
<1>9. f \in Surjection(1..c, new)
  <2>1. Cardinality(1..c) = c
    BY <1>6, FS_Interval
  <2> QED
    BY <1>3, <1>8, <2>1, FS_Injection DEF c
<1>10. PICK i \in 1..c : f[i] = k
  BY <1>2, <1>9 DEF Surjection
<1>11. Newer(s) = [j \in 1..c |-> s[f[j]].n]
  BY <1>4, <1>7
<1>12. Len(Newer(s)) = c
  BY <1>6, <1>11
<1> QED
  BY <1>10, <1>11, <1>12

\* The frames before an alert are all that the window asks for and that were not written yet.
LEMMA BeforeCovers ==
  ASSUME NEW v, v.list \in Seq(Frame), v.longList \in Seq(Frame),
         NEW j \in 1..(Len(v.list) - 1), j > Len(v.list) - FrameBefore,
         v.list[j].id > mLastImageId
  PROVE  \E i \in 1..Len(Before(v)) : Before(v)[i] = v.list[j].n
<1>1. Len(v.list) \in Nat /\ Len(v.longList) \in Nat /\ FrameBefore \in Nat
  BY LenProperties, Bounds
<1>2. CASE FrameBefore - Len(v.list) <= 0
  <2> DEFINE a == 1 - (FrameBefore - Len(v.list))
             s == SubSeq(v.list, a, Len(v.list) - 1)
  <2>1. a \in Nat \ {0} /\ j \in a..(Len(v.list) - 1)
    BY <1>1, <1>2
  <2>2. Before(v) = Newer(s)
    BY <1>2 DEF Before
  <2> HIDE DEF a
  <2>3. s \in Seq(Frame)
    BY <1>1, <2>1, PartOf
  <2>4. j - a + 1 \in 1..Len(s) /\ s[j - a + 1] = v.list[j]
    BY <1>1, <2>1, PartHas
  <2> HIDE DEF s
  <2> QED
    BY <2>2, <2>3, <2>4, NewerCovers
<1>3. CASE ~(FrameBefore - Len(v.list) <= 0)
  <2> DEFINE s == SubSeq(v.list, 1, Len(v.list) - 1)
             u == IF Len(v.longList) < FrameBefore - Len(v.list)
                    THEN Newer(SubSeq(v.longList, 1, Len(v.longList) - 1)) ELSE <<>>
             w == Newer(s)
  <2>1. SubSeq(v.longList, 1, Len(v.longList) - 1) \in Seq(Frame) /\ s \in Seq(Frame)
    BY <1>1, PartOf
  <2>2. u \in Seq(Numbers) /\ w \in Seq(Numbers)
    BY <2>1, NewerOrder, EmptySeq
  <2>3. Before(v) = u \o w
    BY <1>3 DEF Before
  <2>4. j - 1 + 1 \in 1..Len(s) /\ s[j - 1 + 1] = v.list[j]
    BY <1>1, PartHas
  <2>5. j \in 1..Len(s) /\ s[j] = v.list[j]
    BY <2>4
  <2> HIDE DEF s, u
  <2>6. PICK i \in 1..Len(w) : w[i] = v.list[j].n
    BY <2>1, <2>5, NewerCovers
  <2> HIDE DEF w
  <2>7. /\ Len(u) \in Nat /\ Len(w) \in Nat /\ Len(u \o w) = Len(u) + Len(w)
        /\ \A k \in 1..(Len(u) + Len(w)) : (u \o w)[k] = IF k <= Len(u) THEN u[k] ELSE w[k - Len(u)]
    BY <2>2, ConcatProperties, LenProperties
  <2>8. Len(u) + i \in 1..Len(u \o w) /\ (u \o w)[Len(u) + i] = w[i]
    BY <2>6, <2>7
  <2> QED
    BY <2>3, <2>6, <2>8
<1> QED
  BY <1>2, <1>3

\* One frame more at most.
LEMMA AfterFinite ==
  ASSUME TypeOK
  PROVE  /\ IsFiniteSet(after) /\ Cardinality(after) \in Nat
         /\ after = {} => Cardinality(after) = 0
         /\ \A n : Cardinality(after \cup {n}) <= Cardinality(after) + 1
                   /\ Cardinality(after \cup {n}) \in Nat
<1>1. IsFiniteSet(after)
  <2>1. IsFiniteSet(0..(MaxFrames - 1))
    BY Bounds, FS_Interval
  <2> QED
    BY <2>1, FS_Subset DEF TypeOK
<1>2. Cardinality(after) \in Nat /\ (after = {} => Cardinality(after) = 0)
  BY <1>1, FS_CardinalityType, FS_EmptySet
<1>3. ASSUME NEW n
      PROVE  /\ Cardinality(after \cup {n}) <= Cardinality(after) + 1
             /\ Cardinality(after \cup {n}) \in Nat
  BY <1>1, <1>2, FS_AddElement
<1> QED
  BY <1>1, <1>2, <1>3

\* The threads are finitely many; one that does not wait is not among those that do.
LEMMA WaitingFinite ==
  ASSUME TypeOK
  PROVE  /\ IsFiniteSet(Waiting) /\ Cardinality(Waiting) \in Nat /\ Cardinality(Threads) \in Nat
         /\ \A t \in Threads : pc[t] # "lock" => Cardinality(Waiting) < Cardinality(Threads)
<1>1. IsFiniteSet(Threads) /\ Cardinality(Threads) \in Nat
  <2> DEFINE S == ({} \cup {"algo"}) \cup {"text"}
  <2>1. IsFiniteSet(S)
    <3>1. IsFiniteSet({} \cup {"algo"})
      BY FS_EmptySet, FS_AddElement
    <3> QED
      BY <3>1, FS_AddElement
  <2>2. Threads \in SUBSET S
    BY Bounds
  <2> HIDE DEF S
  <2>3. IsFiniteSet(Threads)
    BY <2>1, <2>2, FS_Subset
  <2> QED
    BY <2>3, FS_CardinalityType
<1>2. Waiting \in SUBSET Threads
  BY DEF Waiting
<1>3. IsFiniteSet(Waiting) /\ Cardinality(Waiting) <= Cardinality(Threads)
  BY <1>1, <1>2, FS_Subset
<1>4. Cardinality(Waiting) \in Nat
  BY <1>3, FS_CardinalityType
<1>5. ASSUME NEW t \in Threads, pc[t] # "lock"
      PROVE  Cardinality(Waiting) < Cardinality(Threads)
  <2>1. Waiting # Threads
    BY <1>5 DEF Waiting
  <2>2. Cardinality(Threads) # Cardinality(Waiting)
    BY <1>1, <1>2, <2>1, FS_Subset
  <2> QED
    BY <1>1, <1>3, <1>4, <2>2
<1> QED
  BY <1>1, <1>3, <1>4, <1>5

\* A thread begins to wait, waits no longer, or neither.
LEMMA WaitingStep ==
  ASSUME TypeOK, NEW t \in Threads, Others(t)
  PROVE  /\ Cardinality(Waiting') \in Nat
         /\ Cardinality(Waiting') <= Cardinality(Waiting) + 1
         /\ pc'[t] # "lock" => Cardinality(Waiting') <= Cardinality(Waiting)
         /\ pc'[t] # "lock" /\ pc[t] = "lock" => Cardinality(Waiting') < Cardinality(Waiting)
<1>1. IsFiniteSet(Waiting) /\ Cardinality(Waiting) \in Nat
  BY WaitingFinite
<1>2. \A u \in Threads : u # t => pc'[u] = pc[u]
  BY DEF Others
<1>3. CASE pc'[t] = "lock"
  <2>1. Waiting' = Waiting \cup {t}
    BY <1>2, <1>3 DEF Waiting
  <2> QED
    BY <1>1, <1>3, <2>1, FS_AddElement
<1>4. CASE pc'[t] # "lock"
  <2>1. Waiting' = Waiting \ {t} /\ (pc[t] = "lock" => t \in Waiting)
    BY <1>2, <1>4 DEF Waiting
  <2>2. /\ Cardinality(Waiting') = IF t \in Waiting THEN Cardinality(Waiting) - 1
                                                    ELSE Cardinality(Waiting)
        /\ IsFiniteSet(Waiting')
    BY <1>1, <2>1, FS_RemoveElement
  <2>3. Cardinality(Waiting') \in Nat
    BY <2>2, FS_CardinalityType
  <2> QED
    BY <1>1, <1>4, <2>1, <2>2, <2>3
<1> QED
  BY <1>3, <1>4

\* What each step does to the count, to the frames after the alert and to those who wait.
LEMMA CountKinds ==
  ASSUME TypeOK, Filled, [Next]_vars
  PROVE  \/ UNCHANGED <<mAfterAlertFramesCount, after, pc, raced>>
         \/ \E t \in Threads :
              /\ Others(t)
              /\ \/ /\ pc'[t] # "lock" /\ raced \subseteq raced'
                    /\ UNCHANGED <<mAfterAlertFramesCount, after>>
                 \/ pc[t] = "alert" /\ pc'[t] # "lock" /\ mAfterAlertFramesCount' = 0 /\ after' = {}
                 \/ /\ ReplyCount(t)
                    /\ UNCHANGED after
                 \/ /\ pc[t] = "lock" /\ pc'[t] = "mark"
                    /\ UNCHANGED <<mAfterAlertFramesCount, raced>>
                    /\ after' = after \cup {Newest(t).n}
<1>1. CASE PushBack \/ RemoteRestart \/ UNCHANGED vars
  BY <1>1 DEF PushBack, Refused, RemoteRestart, vars, file
<1>2. CASE BeginPass \/ BeginText
  <2>1. PICK t \in Threads, where \in {"alert", "warning", "reply"}, b \in {Copy, Live} :
          Begin(t, where, b)
    BY <1>2, BeginKinds
  <2>2. Others(t) /\ pc'[t] = where /\ UNCHANGED <<mAfterAlertFramesCount, after, raced>>
    BY <2>1, BeginType DEF Begin, Goto, file, TypeOK
  <2> QED
    BY <2>2
<1>3. ASSUME NEW t \in Threads, Steps(t)
      PROVE  /\ Others(t)
             /\ \/ /\ pc'[t] # "lock" /\ raced \subseteq raced'
                   /\ UNCHANGED <<mAfterAlertFramesCount, after>>
                \/ pc[t] = "alert" /\ pc'[t] # "lock" /\ mAfterAlertFramesCount' = 0 /\ after' = {}
                \/ /\ ReplyCount(t)
                   /\ UNCHANGED after
                \/ /\ pc[t] = "lock" /\ pc'[t] = "mark"
                   /\ UNCHANGED <<mAfterAlertFramesCount, raced>>
                   /\ after' = after \cup {Newest(t).n}
  <2>1. Others(t)
    BY <1>3, OthersKept
  <2>2. Return(t) \/ Written(t) => pc'[t] # "lock"
    BY EndFacts
  <2>3. pc \in [Threads -> Places]
    BY DEF TypeOK, Places
  <2>4. CASE WriteBegin(t)
    <3>1. pc'[t] # "lock" /\ raced' = raced
      BY <2>2, <2>3, <2>4 DEF WriteBegin, Goto
    <3>2. \/ UNCHANGED <<mAfterAlertFramesCount, after>>
          \/ pc[t] = "alert" /\ mAfterAlertFramesCount' = 0 /\ after' = {}
      BY <2>4 DEF WriteBegin
    <3> QED
      BY <2>1, <3>1, <3>2
  <2>5. CASE WriteOpen(t)
    <3>1. pc'[t] # "lock"
      BY <2>2, <2>3, <2>5 DEF WriteOpen, Goto
    <3> QED
      BY <2>1, <2>5, <3>1 DEF WriteOpen
  <2>6. CASE WriteFrames(t)
    BY <2>1, <2>2, <2>6 DEF WriteFrames
  <2>7. CASE ReplyBegin(t)
    <3>1. pc'[t] # "lock"
      BY <2>2, <2>3, <2>7 DEF ReplyBegin, Goto
    <3> QED
      BY <2>1, <2>7, <3>1 DEF ReplyBegin, file
  <2>8. CASE ReplyCount(t)
    BY <2>1, <2>8 DEF ReplyCount, file
  <2>9. CASE ReplyLock(t)
    <3>1. pc[t] = "lock" /\ UNCHANGED <<mAfterAlertFramesCount, raced>>
      BY <2>9 DEF ReplyLock
    <3>2. \/ /\ pc'[t] = "mark"
             /\ \/ after' = after \cup {Newest(t).n}
                \/ UNCHANGED after
          \/ pc'[t] # "lock" /\ UNCHANGED after
      BY <2>2, <2>3, <2>9, ReplyLockKinds
    <3> QED
      BY <2>1, <3>1, <3>2
  <2>10. CASE ReplyMark(t)
    BY <2>1, <2>2, <2>10 DEF ReplyMark, file
  <2> QED
    BY <1>3, <2>4, <2>5, <2>6, <2>7, <2>8, <2>9, <2>10 DEF Steps
<1> QED
  BY <1>1, <1>2, <1>3 DEF Next, Steps

\* Between two alerts every frame written after the first is counted once.
LEMMA CountedStep ==
  ASSUME TypeOK, Filled, Counted, [Next]_vars
  PROVE  Counted'
<1> SUFFICES ASSUME "count" \notin raced'
             PROVE  AfterAlert' < Cardinality(Threads) + CountedSo'
  BY DEF Counted
<1> DEFINE a == Cardinality(after)
           w == Cardinality(Waiting)
           N == Cardinality(Threads)
           c == CountedSo
           a1 == Cardinality(after')
           w1 == Cardinality(Waiting')
           c1 == CountedSo'
<1>1. a \in Nat /\ w \in Nat /\ N \in Nat /\ c \in Nat
  <2>1. mAfterAlertFramesCount \in -1..(FrameAfter - 1)
    BY DEF TypeOK
  <2> QED
    BY <2>1, AfterFinite, WaitingFinite, Bounds DEF CountedSo
<1>2. "count" \notin raced => a + w < N + c
  BY DEF Counted, AfterAlert
<1>3. AfterAlert' = a1 + w1
  BY DEF AfterAlert
<1>4. CASE UNCHANGED <<mAfterAlertFramesCount, after, pc, raced>>
  <2>1. Waiting' = Waiting /\ c1 = c
    BY <1>4 DEF Waiting, CountedSo
  <2> QED
    BY <1>2, <1>3, <1>4, <2>1
<1>5. ASSUME NEW t \in Threads, Others(t), pc'[t] # "lock", raced \subseteq raced',
             UNCHANGED <<mAfterAlertFramesCount, after>>
      PROVE  a1 + w1 < N + c1
  <2>1. w1 \in Nat /\ w1 <= w /\ a1 = a /\ c1 = c
    BY <1>5, WaitingStep DEF CountedSo
  <2> HIDE DEF a, w, N, c, a1, w1, c1
  <2>2. a + w < N + c
    BY <1>2, <1>5
  <2> QED
    BY <1>1, <2>1, <2>2
<1>6. ASSUME NEW t \in Threads, Others(t), pc[t] = "alert", pc'[t] # "lock",
             mAfterAlertFramesCount' = 0, after' = {}
      PROVE  a1 + w1 < N + c1
  <2>1. w1 \in Nat /\ w1 <= w /\ w < N
    BY <1>6, WaitingStep, WaitingFinite
  <2>2. a1 = 0 /\ c1 = 0
    BY <1>6, FS_EmptySet DEF CountedSo
  <2> HIDE DEF a, w, N, c, a1, w1, c1
  <2> QED
    BY <1>1, <2>1, <2>2
<1>7. ASSUME NEW t \in Threads, Others(t), ReplyCount(t), UNCHANGED after
      PROVE  a1 + w1 < N + c1
  <2>1. w1 \in Nat /\ w1 <= w + 1 /\ a1 = a
    BY <1>7, WaitingStep
  <2>2. mAfterAlertFramesCount = seen[t] /\ "count" \notin raced
    BY <1>7 DEF ReplyCount
  <2>3. c1 = c + 1
    <3>1. seen[t] \in 0..(FrameAfter - 1)
      BY DEF TypeOK
    <3>2. mAfterAlertFramesCount' = NextAfterCount(seen[t])
      BY <1>7 DEF ReplyCount
    <3> QED
      BY <2>2, <3>1, <3>2, Bounds DEF NextAfterCount, CountedSo
  <2> HIDE DEF a, w, N, c, a1, w1, c1
  <2> QED
    BY <1>1, <1>2, <2>1, <2>2, <2>3
<1>8. ASSUME NEW t \in Threads, Others(t), pc[t] = "lock", pc'[t] = "mark",
             UNCHANGED <<mAfterAlertFramesCount, raced>>, after' = after \cup {Newest(t).n}
      PROVE  a1 + w1 < N + c1
  <2>1. w1 \in Nat /\ w1 < w /\ c1 = c
    BY <1>8, WaitingStep DEF CountedSo
  <2>2. a1 \in Nat /\ a1 <= a + 1
    BY <1>8, AfterFinite
  <2> HIDE DEF a, w, N, c, a1, w1, c1
  <2>3. a + w < N + c
    BY <1>2, <1>8
  <2> QED
    BY <1>1, <2>1, <2>2, <2>3
<1>9. a1 + w1 < N + c1 => AfterAlert' < Cardinality(Threads) + CountedSo'
  BY <1>3
<1> HIDE DEF a, w, N, c, a1, w1, c1
<1> QED
  BY <1>4, <1>5, <1>6, <1>7, <1>8, <1>9, CountKinds

\* The video only grows, and frames are only pushed.
LEMMA VideoGrows ==
  ASSUME TypeOK, Filled, [Next]_vars
  PROVE  /\ next \in Nat /\ next' \in Nat /\ next <= next'
         /\ \A n : InVideo(n) => InVideo(n)'
         /\ \A n \in Nat : Reached(n) => Reached(n)'
<1>1. next \in Nat /\ next' \in Nat /\ next <= next'
  <2>1. next \in Nat /\ (next' = next \/ next' = next + 1)
    <3>1. next' = next \/ next' = next + 1
      <4>1. CASE PushBack
        BY <4>1 DEF PushBack, Refused
      <4>2. CASE RemoteRestart \/ UNCHANGED vars
        BY <4>2 DEF RemoteRestart, vars, source
      <4>3. CASE BeginPass \/ BeginText
        BY <4>3, BeginKinds DEF Begin, source
      <4>4. ASSUME NEW t \in Threads, Steps(t)
            PROVE  next' = next
        BY <4>4, OthersKept DEF Others, source
      <4> QED
        BY <4>1, <4>2, <4>3, <4>4 DEF Next, Steps
    <3> QED
      BY <3>1, Bounds DEF TypeOK
  <2> QED
    BY <2>1
<1>2. \E w \in Seq(Numbers) : video' = video \o w
  <2> DEFINE e == <<>>
  <2>1. e \in Seq(Numbers) /\ video \in Seq(Numbers) /\ video \o e = video
    BY VideoUnits, EmptySeq, ConcatEmptySeq
  <2>2. UNCHANGED video => \E w \in Seq(Numbers) : video' = video \o w
    BY <2>1
  <2> HIDE DEF e
  <2>3. CASE PushBack \/ RemoteRestart \/ UNCHANGED vars
    BY <2>2, <2>3 DEF PushBack, Refused, RemoteRestart, vars, file
  <2>4. CASE BeginPass \/ BeginText
    BY <2>2, <2>4, BeginKinds DEF Begin, file
  <2>5. ASSUME NEW t \in Threads, WriteFrames(t)
        PROVE  \E w \in Seq(Numbers) : video' = video \o w
    BY <2>5, WriteFramesVideo, PartType DEF WriteFrames
  <2>6. ASSUME NEW t \in Threads, ReplyLock(t)
        PROVE  \E w \in Seq(Numbers) : video' = video \o w
    <3>1. Newest(t).n \in Numbers
      BY <2>6, ReplyLockKinds, FrameFacts
    <3> DEFINE y == <<Newest(t).n>>
    <3>2. y \in Seq(Numbers) /\ Append(video, Newest(t).n) = video \o y
      BY <2>1, <3>1, AppendIsConcat
    <3> HIDE DEF y
    <3>3. UNCHANGED video \/ video' = Append(video, Newest(t).n)
      BY <2>6 DEF ReplyLock
    <3> QED
      BY <2>2, <3>2, <3>3
  <2>7. ASSUME NEW t \in Threads,
               WriteBegin(t) \/ WriteOpen(t) \/ ReplyBegin(t) \/ ReplyCount(t) \/ ReplyMark(t)
        PROVE  UNCHANGED video
    BY <2>7 DEF WriteBegin, WriteOpen, ReplyBegin, ReplyCount, ReplyMark, file
  <2> QED
    BY <2>2, <2>3, <2>4, <2>5, <2>6, <2>7 DEF Next
<1>3. \A n : InVideo(n) => InVideo(n)'
  <2>1. PICK w \in Seq(Numbers) : video' = video \o w
    BY <1>2
  <2>2. /\ video \in Seq(Numbers) /\ Len(video) \in Nat /\ Len(w) \in Nat
        /\ DOMAIN video = 1..Len(video)
    BY VideoUnits, LenProperties
  <2>3. /\ video \o w \in Seq(Numbers) /\ Len(video \o w) = Len(video) + Len(w)
        /\ \A i \in 1..(Len(video) + Len(w)) :
             (video \o w)[i] = IF i <= Len(video) THEN video[i] ELSE w[i - Len(video)]
    BY <2>2, ConcatProperties
  <2>4. \A i \in 1..Len(video) : i \in DOMAIN (video \o w) /\ (video \o w)[i] = video[i]
    BY <2>2, <2>3
  <2> QED
    BY <2>1, <2>2, <2>4 DEF InVideo
<1>4. ASSUME NEW n \in Nat, Reached(n)
      PROVE  Reached(n)'
  <2>1. PICK m \in n..next : InVideo(m)
    BY <1>4 DEF Reached
  <2>2. m \in n..next' /\ InVideo(m)'
    BY <1>1, <1>3, <2>1
  <2> QED
    BY <2>2 DEF Reached
<1> QED
  BY <1>1, <1>3, <1>4

\* What is appended is in the video.
LEMMA InJoined ==
  ASSUME NEW v \in Seq(Numbers), NEW w \in Seq(Numbers), NEW j \in 1..Len(w)
  PROVE  \E i \in DOMAIN (v \o w) : (v \o w)[i] = w[j]
<1>1. Len(v) \in Nat /\ Len(w) \in Nat
  BY LenProperties
<1>2. /\ v \o w \in Seq(Numbers) /\ Len(v \o w) = Len(v) + Len(w)
      /\ \A i \in 1..(Len(v) + Len(w)) : (v \o w)[i] = IF i <= Len(v) THEN v[i] ELSE w[i - Len(v)]
  BY <1>1, ConcatProperties
<1>3. Len(v) + j \in DOMAIN (v \o w) /\ (v \o w)[Len(v) + j] = w[j]
  BY <1>1, <1>2
<1> QED
  BY <1>3

\* A writing shows the newest frame of its list and what Before takes.
LEMMA PartShown ==
  ASSUME TypeOK, Filled, NEW t \in Threads, WriteFrames(t)
  PROVE  \A n : \/ n = LastOf(held[t]).n
                \/ \E i \in 1..Len(Before([list |-> held[t], longList |-> View(t).longList])) :
                     Before([list |-> held[t], longList |-> View(t).longList])[i] = n
                => InVideo(n)'
<1> DEFINE w == Before([list |-> held[t], longList |-> View(t).longList])
           y == <<LastOf(held[t]).n>>
<1>1. w \in Seq(Numbers) /\ LastOf(held[t]) \in Frame
  BY PartType DEF WriteFrames
<1>2. y \in Seq(Numbers) /\ Len(y) = 1 /\ y[1] = LastOf(held[t]).n
  BY <1>1, FrameFacts
<1>3. video \in Seq(Numbers) /\ video' = video \o (w \o y)
  BY VideoUnits, WriteFramesVideo DEF Part
<1> HIDE DEF w, y
<1>4. w \o y \in Seq(Numbers) /\ Len(w) \in Nat /\ Len(w \o y) = Len(w) + Len(y)
  BY <1>1, <1>2, ConcatProperties, LenProperties
<1>5. \A j \in 1..Len(w \o y) : \E i \in DOMAIN video' : video'[i] = (w \o y)[j]
  BY <1>3, <1>4, InJoined
<1>6. \A j \in 1..(Len(w) + Len(y)) : (w \o y)[j] = IF j <= Len(w) THEN w[j] ELSE y[j - Len(w)]
  BY <1>1, <1>2, ConcatProperties
<1>7. Len(w) + 1 \in 1..Len(w \o y) /\ (w \o y)[Len(w) + 1] = LastOf(held[t]).n
  BY <1>2, <1>4, <1>6
<1>8. \A j \in 1..Len(w) : j \in 1..Len(w \o y) /\ (w \o y)[j] = w[j]
  BY <1>2, <1>4, <1>6
<1>9. \E i \in DOMAIN video' : video'[i] = LastOf(held[t]).n
  BY <1>5, <1>7
<1>10. \A j \in 1..Len(w) : \E i \in DOMAIN video' : video'[i] = w[j]
  BY <1>5, <1>8
<1>11. ASSUME NEW n, n = LastOf(held[t]).n \/ \E j \in 1..Len(w) : w[j] = n
       PROVE  InVideo(n)'
  BY <1>9, <1>10, <1>11 DEF InVideo
<1> QED
  BY <1>11 DEF w

\* A file that is open or about to be opened stays so while no file fails.
LEMMA OpenedStep ==
  ASSUME TypeOK, Filled, [Next]_vars, Recording'
  PROVE  /\ Recording
         /\ opened => opened'
         /\ Alerted => Alerted'
<1>1. /\ restarts \in Nat /\ failures \in Nat
  BY Bounds DEF TypeOK
<1>2. /\ pc \in [Threads -> Places]
  BY DEF TypeOK, Places
<1>3. CASE PushBack \/ UNCHANGED vars
  BY <1>3 DEF PushBack, Refused, vars, file, work, source, Recording, Alerted
<1>4. CASE RemoteRestart
  BY <1>1, <1>4 DEF RemoteRestart, Recording
<1>5. CASE BeginPass \/ BeginText
  <2>1. PICK t \in Threads, where \in {"alert", "warning", "reply"}, b \in {Copy, Live} :
          Begin(t, where, b)
    BY <1>5, BeginKinds
  <2>2. Others(t) /\ pc[t] = "idle" /\ UNCHANGED <<source, file, raced>>
    BY <2>1, BeginType DEF Begin
  <2> QED
    BY <2>2 DEF Others, source, file, Recording, Alerted
<1>6. ASSUME NEW t \in Threads, WriteOpen(t)
      PROVE  Recording /\ opened'
  <2>1. failures' = failures
    <3>1. failures' = failures + 1 => failures' # 0
      BY <1>1
    <3> QED
      BY <1>6, <3>1, WriteOpenKinds DEF Recording
  <2>2. failures # failures + 1
    BY <1>1
  <2>3. opened'
    BY <1>6, <2>1, <2>2, WriteOpenKinds
  <2> QED
    BY <1>6, <2>1, <2>3 DEF WriteOpen, source, Recording
<1>7. ASSUME NEW t \in Threads,
             WriteBegin(t) \/ WriteFrames(t) \/ ReplyBegin(t) \/ ReplyCount(t) \/ ReplyLock(t)
               \/ ReplyMark(t)
      PROVE  Recording /\ (opened => opened') /\ (Alerted => Alerted')
  <2>1. /\ pc[t] # "open" /\ UNCHANGED <<source, opened, failures>> /\ raced \subseteq raced'
    BY <1>7 DEF WriteBegin, WriteFrames, ReplyBegin, ReplyCount, ReplyLock, ReplyMark, file
  <2>2. Others(t)
    BY <1>7, OthersKept DEF Steps
  <2> QED
    BY <2>1, <2>2 DEF Others, source, Recording, Alerted
<1> QED
  BY <1>3, <1>4, <1>5, <1>6, <1>7 DEF Next, Alerted

\* An identifier not after the last image written has been reached.
LEMMA ReachedBefore ==
  ASSUME TypeOK, Recording, Noted, NEW n \in Nat, n > 0, n <= mLastImageId
  PROVE  opened /\ Reached(n)
<1>1. mLastImageId \in Nat /\ mLastImageId > 0 /\ next \in Nat
  BY Bounds DEF TypeOK
<1>2. PICK m \in mLastImageId..next : InVideo(m)
  BY <1>1 DEF Noted, Reached
<1>3. m \in n..next
  BY <1>1
<1> QED
  BY <1>1, <1>2, <1>3 DEF Noted, Reached

\* A step that leaves mLastImageId, or marks a frame in the video, and a thread that
\* counts, writes or marks only as a file is open.
LEMMA NotedKept ==
  ASSUME TypeOK, Filled, [Next]_vars, Recording', Noted, NEW t \in Threads, Others(t),
         \/ mLastImageId' = mLastImageId
         \/ opened /\ \E m \in Nat : mLastImageId' = m /\ Reached(m)',
         mAfterAlertFramesCount' >= 0 => mAfterAlertFramesCount >= 0 \/ Alerted',
         pc'[t] \in {"count", "lock"} => Alerted',
         pc'[t] \in {"write", "mark"} => opened',
         pc'[t] = "mark" => \E n : last'[t].n = n /\ InVideo(n)'
  PROVE  Noted'
<1>1. /\ opened => opened'
      /\ Alerted => Alerted'
  BY OpenedStep
<1>2. mLastImageId' > 0 => opened' /\ \E m \in mLastImageId'..next' : InVideo(m)'
  <2>1. CASE mLastImageId' = mLastImageId
    <3>1. mLastImageId \in Nat
      BY Bounds DEF TypeOK
    <3> QED
      BY <1>1, <2>1, <3>1, VideoGrows DEF Noted, Reached
  <2>2. CASE opened /\ \E m \in Nat : mLastImageId' = m /\ Reached(m)'
    BY <1>1, <2>2 DEF Reached
  <2> QED
    BY <2>1, <2>2
<1>3. mLastImageId' > 0 => opened' /\ Reached(mLastImageId)'
  BY <1>2 DEF Reached
<1>4. ASSUME NEW u \in Threads
      PROVE  /\ pc'[u] \in {"count", "lock"} => Alerted'
             /\ pc'[u] \in {"write", "mark"} => opened'
             /\ pc'[u] = "mark" => \E n : last'[u].n = n /\ InVideo(n)'
  <2>1. CASE u = t
    BY <2>1
  <2>2. CASE u # t
    <3>1. pc'[u] = pc[u] /\ last'[u] = last[u]
      BY <2>2 DEF Others
    <3>2. pc[u] = "mark" => \E n : last[u].n = n /\ InVideo(n)'
      BY VideoGrows DEF Noted
    <3> QED
      BY <1>1, <3>1, <3>2 DEF Noted
  <2> QED
    BY <2>1, <2>2
<1>5. \A u \in Threads : pc'[u] = "mark" => InVideo(last[u].n)'
  BY <1>4 DEF InVideo
<1>6. mAfterAlertFramesCount' >= 0 => Alerted'
  BY <1>1 DEF Noted
<1> QED
  BY <1>3, <1>4, <1>5, <1>6 DEF Noted

\* A full buffer of more than one frame has a newest frame after the first.
LEMMA NewestPositive ==
  ASSUME RingSize > 1, TypeOK, Session, NEW t \in Threads, Len(View(t).list) >= RingSize
  PROVE  Newest(t).id = Newest(t).n /\ Newest(t).n \in Nat /\ Newest(t).n > 0 /\ Newest(t).n < next
<1>1. Len(View(t).list) \in Nat /\ Len(View(t).list) > 1 /\ View(t).list \in Seq(Frame)
  BY ViewFacts, Bounds
<1>2. /\ Newest(t).id = Newest(t).n /\ Newest(t).n \in Nat /\ Newest(t).n < next
      /\ Run(View(t).list, Newest(t).n + 1)
  <2>1. Len(View(t).list) > 0
    BY <1>1
  <2> QED
    BY <2>1, NewestFacts DEF Session, InOrder
<1>3. View(t).list[1].n = (Newest(t).n + 1) - Len(View(t).list) + 1 - 1
  BY <1>1, <1>2 DEF Run
<1>4. View(t).list[1].n \in Nat
  <2>1. 1 \in 1..Len(View(t).list)
    BY <1>1
  <2> QED
    BY <1>1, <2>1, ElementOfSeq, FrameFacts
<1> QED
  BY <1>1, <1>2, <1>3, <1>4

LEMMA WriteBeginNoted ==
  ASSUME RingSize > 1, TypeOK, Filled, Session, Noted, [Next]_vars, Recording',
         NEW t \in Threads, WriteBegin(t)
  PROVE  Noted'
<1>1. Others(t) /\ Recording
  BY OthersKept, OpenedStep DEF Steps
<1>2. mLastImageId' = mLastImageId /\ pc \in [Threads -> Places]
  BY DEF WriteBegin, TypeOK, Places
<1>3. CASE ~IsFull(t)
  <2>1. Written(t) /\ mAfterAlertFramesCount' = mAfterAlertFramesCount
    BY <1>3 DEF WriteBegin
  <2>2. pc'[t] \in {"reply", "idle"}
    BY <2>1, EndFacts
  <2> QED
    BY <1>1, <1>2, <2>1, <2>2, NotedKept
<1>4. CASE IsFull(t) /\ Newest(t).id > mLastImageId
  <2>1. pc'[t] = "open"
    BY <1>2, <1>4 DEF WriteBegin, Goto
  <2>2. Alerted'
    BY <2>1 DEF Alerted
  <2> QED
    BY <1>1, <1>2, <2>1, <2>2, NotedKept
<1>5. CASE IsFull(t) /\ ~(Newest(t).id > mLastImageId)
  <2>1. Written(t)
    BY <1>5 DEF WriteBegin
  <2>2. pc'[t] \in {"reply", "idle"}
    BY <2>1, EndFacts
  <2>3. opened
    <3>1. Newest(t).id \in Nat /\ Newest(t).id > 0
      BY <1>5, NewestPositive DEF IsFull
    <3>2. Newest(t).id <= mLastImageId
      BY <1>5, <3>1, Bounds DEF TypeOK
    <3> QED
      BY <1>1, <3>1, <3>2, ReachedBefore
  <2>4. Alerted'
    BY <2>3, OpenedStep DEF Alerted
  <2> QED
    BY <1>1, <1>2, <2>2, <2>4, NotedKept
<1> QED
  BY <1>3, <1>4, <1>5

LEMMA WriteOpenNoted ==
  ASSUME TypeOK, Filled, Noted, [Next]_vars, Recording', NEW t \in Threads, WriteOpen(t)
  PROVE  Noted'
<1>1. Others(t) /\ pc \in [Threads -> Places]
  BY OthersKept DEF Steps, TypeOK, Places
<1>2. failures' # failures + 1
  <2>1. failures \in Nat
    BY Bounds DEF TypeOK
  <2> QED
    BY <2>1 DEF Recording
<1>3. opened' = TRUE /\ Goto(t, "write") /\ mLastImageId' = mLastImageId
  BY <1>2, WriteOpenKinds
<1>4. pc'[t] = "write" /\ mAfterAlertFramesCount' = mAfterAlertFramesCount
  BY <1>1, <1>3 DEF Goto, WriteOpen
<1> QED
  BY <1>1, <1>3, <1>4, NotedKept

\* The frame of the check is marked, and the newest of the list, which is as new, is written.
LEMMA WriteFramesNoted ==
  ASSUME TypeOK, Filled, Session, Noted, [Next]_vars, Recording', NEW t \in Threads, WriteFrames(t)
  PROVE  Noted'
<1>1. Others(t)
  BY OthersKept DEF Steps
<1>2. /\ pc[t] = "write" /\ opened /\ mLastImageId' = last[t].id
      /\ mAfterAlertFramesCount' = mAfterAlertFramesCount
      /\ Written(t)
  BY DEF WriteFrames, Noted
<1>3. pc'[t] \in {"reply", "idle"}
  BY <1>2, EndFacts
<1>4. /\ last[t].id = last[t].n /\ last[t].n \in Nat
      /\ \E e \in 0..next : HeldRun(t, e)
  BY <1>2, FrameFacts DEF Session, Writing, TypeOK
<1>5. PICK e \in 0..next : HeldRun(t, e)
  BY <1>4
<1>6. next \in Nat /\ next' = next
  BY <1>1, Bounds DEF Others, source, TypeOK
<1>7. e - 1 \in last[t].n..next' /\ LastOf(held[t]).n = e - 1
  <2>1. LastOf(held[t]).n = e - 1
    <3>1. Run(held[t], e) /\ e \in Int
      BY <1>5, <1>6 DEF HeldRun
    <3>2. held[t] \in Seq(Frame) /\ Len(held[t]) > 0
      BY <1>2, PartType
    <3> QED
      BY <3>1, <3>2, RunLast
  <2> QED
    BY <1>4, <1>5, <1>6, <2>1 DEF HeldRun
<1>8. InVideo(e - 1)'
  BY <1>7, PartShown
<1>9. \E m \in Nat : mLastImageId' = m /\ Reached(m)'
  <2>1. \E k \in last[t].n..next' : InVideo(k)'
    BY <1>7, <1>8
  <2>2. \A m : m = last[t].n => Reached(m)'
    BY <2>1 DEF Reached
  <2> QED
    BY <1>2, <1>4, <2>2
<1> QED
  BY <1>1, <1>2, <1>3, <1>9, NotedKept

LEMMA ReplyBeginNoted ==
  ASSUME TypeOK, Filled, Noted, [Next]_vars, Recording', NEW t \in Threads,
         ReplyBegin(t) \/ ReplyCount(t)
  PROVE  Noted'
<1>1. Others(t) /\ pc \in [Threads -> Places]
  BY OthersKept DEF Steps, TypeOK, Places
<1>2. mLastImageId' = mLastImageId /\ pc'[t] \in {"idle", "reply", "count", "lock"}
  BY <1>1, EndFacts DEF ReplyBegin, ReplyCount, GoOn, Goto
<1>3. mAfterAlertFramesCount >= 0 \/ pc[t] = "count" => Alerted
  BY DEF Noted
<1>4. CASE ReplyBegin(t)
  <2>1. /\ mAfterAlertFramesCount' = mAfterAlertFramesCount
        /\ pc'[t] \in {"count", "lock"} => Alerted
    <3>1. mAfterAlertFramesCount \in Int
      BY Bounds DEF TypeOK
    <3>2. Return(t) => pc'[t] = "idle"
      BY <1>1 DEF Return, Goto
    <3> QED
      BY <1>3, <1>4, <3>1, <3>2 DEF ReplyBegin
  <2> QED
    BY <1>1, <1>2, <2>1, OpenedStep, NotedKept
<1>5. CASE ReplyCount(t)
  <2>1. Alerted'
    BY <1>3, <1>5, OpenedStep DEF ReplyCount
  <2> QED
    BY <1>1, <1>2, <2>1, NotedKept
<1> QED
  BY <1>4, <1>5

\* Nobody opens a file while the mutex is free: the frame after the alert is written.
LEMMA ReplyLockNoted ==
  ASSUME TypeOK, Filled, Noted, [Next]_vars, Recording', NEW t \in Threads, ReplyLock(t)
  PROVE  Noted'
<1>1. Others(t) /\ pc \in [Threads -> Places] /\ last \in [Threads -> Frame]
  BY OthersKept DEF Steps, TypeOK, Places
<1>2. /\ mLastImageId' = mLastImageId /\ mAfterAlertFramesCount' = mAfterAlertFramesCount
      /\ pc[t] = "lock" /\ mutex = "free"
  BY DEF ReplyLock
<1>3. opened
  <2>1. \A u \in Threads : pc[u] # "open"
    BY <1>2, Bounds DEF Filled
  <2> QED
    BY <1>2, <2>1 DEF Noted, Alerted
<1>4. opened'
  BY <1>3, OpenedStep
<1>5. pc'[t] = "mark" => \E n : last'[t].n = n /\ InVideo(n)'
  <2> SUFFICES ASSUME pc'[t] = "mark" PROVE \E n : last'[t].n = n /\ InVideo(n)'
    OBVIOUS
  <2>1. /\ last' = [last EXCEPT ![t] = Newest(t)] /\ video' = Append(video, Newest(t).n)
        /\ Newest(t) \in Frame
    BY <1>1, <1>3, ReplyLockKinds, EndFacts
  <2>2. last'[t].n = Newest(t).n /\ Newest(t).n \in Numbers
    BY <1>1, <2>1, FrameFacts
  <2>3. video \in Seq(Numbers) /\ Len(video) \in Nat
    BY VideoUnits
  <2>4. /\ Append(video, Newest(t).n) \in Seq(Numbers)
        /\ Len(Append(video, Newest(t).n)) = Len(video) + 1
        /\ Append(video, Newest(t).n)[Len(video) + 1] = Newest(t).n
    BY <2>2, <2>3, AppendProperties
  <2>5. Len(video) + 1 \in DOMAIN video' /\ video'[Len(video) + 1] = Newest(t).n
    BY <2>1, <2>3, <2>4
  <2>6. ASSUME NEW n, n = Newest(t).n
        PROVE  InVideo(n)'
    BY <2>5, <2>6 DEF InVideo
  <2> QED
    BY <2>2, <2>6
<1>6. pc'[t] \in {"reply", "idle", "mark"}
  BY <1>1, ReplyLockKinds, EndFacts
<1> QED
  BY <1>1, <1>2, <1>4, <1>5, <1>6, NotedKept

\* No push has overtaken this reply call: it marks the frame it wrote.
LEMMA ReplyMarkNoted ==
  ASSUME TypeOK, Filled, Session, Noted, [Next]_vars, Recording', NEW t \in Threads, ReplyMark(t)
  PROVE  Noted'
<1>1. Others(t)
  BY OthersKept DEF Steps
<1>2. /\ pc[t] = "mark" /\ mLastImageId' = Newest(t).id /\ Return(t)
      /\ mAfterAlertFramesCount' = mAfterAlertFramesCount
      /\ Newest(t) = last[t]
  BY DEF ReplyMark, Overtaken, Recording, file
<1>3. pc'[t] \in {"reply", "idle"}
  BY <1>2, EndFacts
<1>4. /\ last[t].id = last[t].n /\ last[t].n <= Newest(t).n /\ last[t].n \in Nat
      /\ opened /\ InVideo(last[t].n)
  BY <1>2, FrameFacts DEF Session, Writing, Noted, TypeOK
<1>5. Newest(t).n < next
  <2>1. Len(View(t).list) > 0
    BY <1>2, ViewFacts, Bounds DEF Filled
  <2> QED
    BY <2>1, NewestFacts DEF Session
<1>6. Reached(last[t].n)
  <2>1. last[t].n \in last[t].n..next
    BY <1>2, <1>4, <1>5, VideoGrows
  <2> QED
    BY <1>4, <2>1 DEF Reached
<1>7. \E m \in Nat : mLastImageId' = m /\ Reached(m)'
  BY <1>2, <1>4, <1>6, VideoGrows
<1> QED
  BY <1>1, <1>2, <1>3, <1>4, <1>7, NotedKept

LEMMA RecordedStep ==
  ASSUME RingSize > 1, IInv, Recorded, [Next]_vars
  PROVE  Recorded'
<1>1. TypeOK /\ Filled /\ (restarts = 0 => Session) /\ Counted
  BY DEF IInv, Recorded
<1>2. Counted'
  BY <1>1, CountedStep
<1>3. ASSUME Recording'
      PROVE  Noted'
  <2>1. Recording /\ Session /\ Noted
    BY <1>1, <1>3, OpenedStep DEF Recording, Recorded
  <2>2. CASE PushBack
    <3>1. UNCHANGED <<pc, last, mLastImageId, mAfterAlertFramesCount, opened, video>>
      BY <2>2 DEF PushBack, Refused, work, file
    <3>2. mLastImageId \in Nat
      BY <1>1, Bounds DEF TypeOK
    <3>3. mLastImageId' > 0 => opened' /\ Reached(mLastImageId)'
      BY <1>1, <2>1, <3>1, <3>2, VideoGrows DEF Noted, Reached
    <3> QED
      BY <2>1, <3>1, <3>3 DEF Noted, Alerted, InVideo
  <2>3. CASE UNCHANGED vars
    BY <2>1, <2>3 DEF vars, source, work, file, Noted, Alerted, Reached, InVideo
  <2>4. CASE RemoteRestart
    BY <1>1, <1>3, <2>4, RestartStep DEF Recording
  <2>5. CASE BeginPass \/ BeginText
    <3>1. PICK t \in Threads, where \in {"alert", "warning", "reply"}, b \in {Copy, Live} :
            Begin(t, where, b)
      BY <2>5, BeginKinds
    <3>2. Others(t)
      BY <1>1, <3>1, BeginType
    <3>3. /\ mLastImageId' = mLastImageId /\ mAfterAlertFramesCount' = mAfterAlertFramesCount
          /\ pc'[t] = where
      BY <1>1, <3>1 DEF Begin, Goto, TypeOK
    <3> QED
      BY <1>1, <1>3, <2>1, <3>2, <3>3, NotedKept
  <2>6. ASSUME NEW t \in Threads, Steps(t)
        PROVE  Noted'
    BY <1>1, <1>3, <2>1, <2>6, WriteBeginNoted, WriteOpenNoted, WriteFramesNoted, ReplyBeginNoted,
       ReplyLockNoted, ReplyMarkNoted DEF Steps
  <2> QED
    BY <2>2, <2>3, <2>4, <2>5, <2>6 DEF Next, Steps
<1> QED
  BY <1>2, <1>3 DEF Recorded

LEMMA InitRecorded == Init => Recorded
<1> SUFFICES ASSUME Init PROVE Recorded
  OBVIOUS
<1>1. TypeOK
  BY InitInvariant DEF IInv
<1>2. Counted
  <2>1. after = {} /\ Waiting = {} /\ mAfterAlertFramesCount = -1
    BY DEF Init, Waiting
  <2>2. Cardinality(after) = 0 /\ Cardinality(Waiting) = 0 /\ Cardinality(Threads) \in Nat
    BY <1>1, <2>1, FS_EmptySet, WaitingFinite
  <2> QED
    BY <2>1, <2>2, Bounds DEF Counted, AfterAlert, CountedSo
<1>3. Noted
  BY DEF Init, Noted
<1> QED
  BY <1>2, <1>3 DEF Recorded

\* What a writing leaves out has been written, or passed over.
LEMMA WindowShown ==
  ASSUME TypeOK, Filled, Session, Noted, Recording, NEW t \in Threads, WriteFrames(t),
         NEW f \in Asked(t), f.id > 0
  PROVE  InVideo(f.n)' \/ Reached(f.n)
<1>1. /\ held[t] \in Seq(Frame) /\ Len(held[t]) \in Nat /\ Len(held[t]) > 0
  BY PartType DEF WriteFrames
<1>2. PICK j \in 1..Len(held[t]) : j > Len(held[t]) - FrameBefore /\ f = held[t][j]
  BY <1>1 DEF Asked
<1>3. f \in Frame /\ f.n \in Nat /\ f.id \in Nat /\ mLastImageId \in Nat
  BY <1>1, <1>2, ElementOfSeq, FrameFacts, Bounds DEF TypeOK
<1>4. f.id = f.n
  <2>1. PICK e \in 0..next : HeldRun(t, e)
    BY DEF Session, Writing, WriteFrames
  <2> QED
    BY <1>2, <2>1 DEF HeldRun, Run
<1>5. CASE f.id <= mLastImageId
  BY <1>3, <1>4, <1>5, ReachedBefore
<1>6. CASE j = Len(held[t])
  <2>1. f.n = LastOf(held[t]).n
    BY <1>2, <1>6 DEF LastOf
  <2> HIDE DEF Recording, Session
  <2>2. \A n : n = LastOf(held[t]).n => InVideo(n)'
    BY PartShown
  <2> QED
    BY <2>1, <2>2
<1>7. CASE f.id > mLastImageId /\ j # Len(held[t])
  <2> DEFINE v == [list |-> held[t], longList |-> View(t).longList]
  <2>1. v.list = held[t] /\ v.list \in Seq(Frame) /\ v.longList \in Seq(Frame)
    BY <1>1, ViewFacts
  <2>2. \A n : (\E i \in 1..Len(Before(v)) : Before(v)[i] = n) => InVideo(n)'
    BY PartShown
  <2> HIDE DEF v
  <2>3. \E i \in 1..Len(Before(v)) : Before(v)[i] = f.n
    <3>1. j \in 1..(Len(v.list) - 1) /\ j > Len(v.list) - FrameBefore
      BY <1>1, <1>2, <1>7, <2>1
    <3>2. v.list[j] = f
      BY <1>2, <2>1
    <3> QED
      BY <1>7, <2>1, <3>1, <3>2, BeforeCovers
  <2> QED
    BY <2>2, <2>3
<1> QED
  BY <1>3, <1>5, <1>6, <1>7

\* An alert is left out by the check on mLastImageId only.
LEMMA AlertShown ==
  ASSUME TypeOK, Filled, Session, Noted, Recording, [Next]_vars,
         NEW t \in Threads, LeftOut(t), Newest(t).id > 0
  PROVE  Reached(Newest(t).n)
<1>1. WriteBegin(t)
  <2>1. pc[t] = "alert" /\ pc'[t] # pc[t]
    BY DEF LeftOut
  <2>2. CASE PushBack \/ RemoteRestart \/ UNCHANGED vars
    BY <2>1, <2>2 DEF PushBack, Refused, RemoteRestart, vars
  <2>3. CASE BeginPass \/ BeginText
    <3>1. PICK u \in Threads, where \in {"alert", "warning", "reply"}, b \in {Copy, Live} :
            Begin(u, where, b)
      BY <2>3, BeginKinds
    <3>2. Others(u) /\ pc[u] = "idle"
      BY <3>1, BeginType DEF Begin
    <3> QED
      BY <2>1, <3>2 DEF Others
  <2>4. ASSUME NEW u \in Threads, Steps(u)
        PROVE  WriteBegin(t)
    <3>1. Others(u)
      BY <2>4, OthersKept
    <3>2. u = t
      BY <2>1, <3>1 DEF Others
    <3> QED
      BY <2>1, <2>4, <3>2
         DEF Steps, WriteOpen, WriteFrames, ReplyBegin, ReplyCount, ReplyLock, ReplyMark
  <2> QED
    BY <2>2, <2>3, <2>4 DEF Next, Steps
<1>2. Len(View(t).list) >= RingSize /\ Len(View(t).list) > 0
  BY ViewFacts, Bounds DEF LeftOut, IsFull
<1>3. Newest(t).id = Newest(t).n /\ Newest(t).n \in Nat /\ mLastImageId \in Nat
  <2>1. mLastImageId \in Nat
    BY Bounds DEF TypeOK
  <2> QED
    BY <1>2, <2>1, NewestFacts DEF Session
<1>4. ~(Newest(t).id > mLastImageId)
  <2>1. pc \in [Threads -> Places]
    BY DEF TypeOK, Places
  <2> QED
    BY <1>1, <2>1 DEF LeftOut, WriteBegin, Goto
<1> QED
  BY <1>3, <1>4, ReachedBefore

LEMMA FramesCounted ==
  ASSUME TypeOK, Counted, "count" \notin raced
  PROVE  Cardinality(after) < FrameAfter + Cardinality(Threads)
<1> DEFINE a == Cardinality(after)
           w == Cardinality(Waiting)
           N == Cardinality(Threads)
           c == CountedSo
<1>1. a \in Nat /\ w \in Nat /\ N \in Nat /\ a + w < N + c
  BY AfterFinite, WaitingFinite DEF Counted, AfterAlert
<1>2. c \in Nat /\ c <= FrameAfter /\ FrameAfter \in Nat
  <2>1. mAfterAlertFramesCount \in -1..(FrameAfter - 1)
    BY DEF TypeOK
  <2> QED
    BY <2>1, Bounds DEF CountedSo
<1> HIDE DEF a, w, N, c
<1>3. a < FrameAfter + N
  BY <1>1, <1>2
<1> QED
  BY <1>3 DEF a, N

LEMMA StepRecords ==
  ASSUME IInv, Recorded, [Next]_vars
  PROVE  /\ "count" \notin raced => Cardinality(after) < FrameAfter + Cardinality(Threads)
         /\ \A t \in Threads : Recording =>
              /\ WriteFrames(t) =>
                   \A f \in Asked(t) : f.id > 0 => InVideo(f.n)' \/ Reached(f.n)
              /\ LeftOut(t) /\ Newest(t).id > 0 => Reached(Newest(t).n)
<1>1. TypeOK /\ Filled /\ (Recording => Session /\ Noted) /\ Counted
  BY DEF IInv, Recorded, Recording
<1>2. "count" \notin raced => Cardinality(after) < FrameAfter + Cardinality(Threads)
  BY <1>1, FramesCounted
<1>3. ASSUME NEW t \in Threads, Recording, WriteFrames(t), NEW f \in Asked(t), f.id > 0
      PROVE  InVideo(f.n)' \/ Reached(f.n)
  BY <1>1, <1>3, WindowShown
<1>4. ASSUME NEW t \in Threads, Recording, LeftOut(t), Newest(t).id > 0
      PROVE  Reached(Newest(t).n)
  BY <1>1, <1>4, AlertShown
<1> QED
  BY <1>2, <1>3, <1>4

\* The same for what must not be missing, for a buffer of at least two frames: the window that
\* an alert asks for, an alert that is left out, and the count of the frames after it.
THEOREM AlwaysRecorded ==
  ASSUME RingSize > 1
  PROVE  Spec => WindowRecorded
<1>1. Init => IInv /\ Recorded
  BY InitInvariant, InitRecorded
<1>2. IInv /\ Recorded /\ [Next]_vars => IInv' /\ Recorded'
  BY InvariantStep, RecordedStep
<1>3. IInv /\ Recorded /\ [Next]_vars =>
        [/\ "count" \notin raced => Cardinality(after) < FrameAfter + Cardinality(Threads)
         /\ \A t \in Threads : Recording =>
              /\ WriteFrames(t) =>
                   \A f \in Asked(t) : f.id > 0 => InVideo(f.n)' \/ Reached(f.n)
              /\ LeftOut(t) /\ Newest(t).id > 0 => Reached(Newest(t).n)]_vars
  BY StepRecords
<1> QED
  BY <1>1, <1>2, <1>3, PTL DEF Spec, WindowRecorded
=============================================================================
