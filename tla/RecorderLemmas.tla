---------------------------- MODULE RecorderLemmas ----------------------------
(***************************************************************************)
(* What the recorders share: the pointer surgery of SfpImpl keeps a        *)
(* TStampList sorted, for any number of threads; the buckets of histo.H    *)
(* lose nothing at their boundaries, for words of any width; and the       *)
(* number of windows in a stretch of the trace.                            *)
(***************************************************************************)
EXTENDS StampList, SublogHisto, CountingLemmas

\* The list of a line that has not been accessed is a list.
LEMMA EmptyType == EmptyStamps \in StampLists
BY DEF EmptyStamps, StampLists

\* Moving a thread to the front of a list makes a list.
LEMMA MoveType ==
  ASSUME NEW list \in StampLists, NEW t \in Threads, NEW pos \in Nat,
         NEW pr \in Threads \cup {NIL}
  PROVE  MovedToFront(list, t, pos, pr) \in StampLists
BY DEF MovedToFront, StampLists

\* NIL is no thread.
LEMMA NilIsNoThread == NIL \notin Threads
BY ThreadIdAssumption DEF NIL, Threads

\* The list of a datum nobody accessed is sorted.
LEMMA EmptySorted == MostRecentFirst(EmptyStamps)
BY DEF MostRecentFirst, EmptyStamps, Older

\* Where the walk of thread t is: at i, after pr, and t is not passed yet.
WalkAt(list, t, pr, i) ==
  /\ pr = NIL => i = list.head
  /\ pr # NIL => /\ pr # t
                 /\ list.latest[pr] > 0
                 /\ list.next[pr] = i
                 /\ list.latest[t] < list.latest[pr]

\* The walk goes on from i to the next of i.
LEMMA WalkPasses ==
  ASSUME NEW list \in StampLists, MostRecentFirst(list), NEW t \in Threads,
         NEW pr \in Threads \cup {NIL}, NEW i \in Threads, i # t,
         WalkAt(list, t, pr, i)
  PROVE  WalkAt(list, t, i, list.next[i])
<1>. USE NilIsNoThread DEF StampLists
<1>1. list.latest[i] > 0 /\ list.latest[t] < list.latest[i]
  <2>1. CASE pr = NIL
    <3>1. i = list.head
      BY <2>1 DEF WalkAt
    <3>2. list.latest[i] > 0 /\ list.latest[t] <= list.latest[i]
      BY <3>1 DEF MostRecentFirst
    <3>3. list.latest[i] # list.latest[t]
      BY <3>2 DEF MostRecentFirst
    <3>. QED
      BY <3>2, <3>3
  <2>2. CASE pr # NIL
    <3>1. pr \in Threads /\ list.next[pr] = i /\ list.latest[t] < list.latest[pr]
      BY <2>2 DEF WalkAt
    <3>2. /\ i \in Older(list, pr)
          /\ \A w \in Older(list, pr) : list.latest[w] <= list.latest[i]
      BY <3>1 DEF MostRecentFirst
    <3>3. list.latest[i] > 0 /\ list.latest[t] <= list.latest[i]
      BY <3>1, <3>2 DEF Older
    <3>4. list.latest[i] # list.latest[t]
      BY <3>3 DEF MostRecentFirst
    <3>. QED
      BY <3>3, <3>4
  <2>. QED
    BY <2>1, <2>2
<1>. QED
  BY <1>1 DEF WalkAt

\* The walk starts with nobody passed ...
LEMMA PassedAtHead ==
  ASSUME NEW list \in StampLists, MostRecentFirst(list)
  PROVE  Passed(list, list.head) = {}
BY NilIsNoThread DEF StampLists, MostRecentFirst, Passed

\* ... and each of its steps passes one more.
LEMMA PassedGrows ==
  ASSUME NEW list \in StampLists, MostRecentFirst(list), NEW i \in Threads,
         list.latest[i] > 0
  PROVE  /\ Passed(list, list.next[i]) = Passed(list, i) \cup {i}
         /\ i \notin Passed(list, i)
<1>. USE NilIsNoThread DEF StampLists
<1>1. i \notin Passed(list, i)
  BY DEF Passed
<1>2. \A u \in Threads : u # i /\ list.latest[u] > 0 => list.latest[u] # list.latest[i]
  BY DEF MostRecentFirst
<1>3. CASE list.next[i] = NIL
  <2>1. Older(list, i) = {}
    BY <1>3 DEF MostRecentFirst
  <2>2. \A u \in Threads : list.latest[u] > 0 => list.latest[u] >= list.latest[i]
    BY <2>1 DEF Older
  <2>3. \A u \in Threads : list.latest[u] > 0 <=> list.latest[u] > list.latest[i] \/ u = i
    BY <1>2, <2>2
  <2>. QED
    BY <1>1, <1>3, <2>3 DEF Passed
<1>4. CASE list.next[i] # NIL
  <2>1. list.next[i] \in Threads
    BY <1>4
  <2>2. /\ list.next[i] \in Older(list, i)
        /\ \A w \in Older(list, i) : list.latest[w] <= list.latest[list.next[i]]
    BY <1>4 DEF MostRecentFirst
  <2>3. /\ 0 < list.latest[list.next[i]]
        /\ list.latest[list.next[i]] < list.latest[i]
    BY <2>2 DEF Older
  <2>4. \A u \in Threads : list.latest[u] > list.latest[list.next[i]]
                             => list.latest[u] >= list.latest[i]
    BY <2>1, <2>2, <2>3 DEF Older
  <2>5. \A u \in Threads : list.latest[u] > list.latest[list.next[i]]
                             <=> list.latest[u] > list.latest[i] \/ u = i
    BY <1>2, <2>1, <2>3, <2>4
  <2>. QED
    BY <1>1, <1>4, <2>5 DEF Passed
<1>. QED
  BY <1>3, <1>4

\* The number of threads passed goes up by one with each step of the walk.
LEMMA PassedCount ==
  ASSUME NEW list \in StampLists, MostRecentFirst(list), NEW i \in Threads,
         list.latest[i] > 0
  PROVE  /\ Cardinality(Passed(list, i)) \in Nat
         /\ Cardinality(Passed(list, list.next[i])) = Cardinality(Passed(list, i)) + 1
<1>1. IsFiniteSet(Threads)
  BY FS_Interval, ThreadIdAssumption DEF Threads
<1>2. IsFiniteSet(Passed(list, i))
  BY <1>1, FS_Subset DEF Passed
<1>. QED
  BY <1>2, PassedGrows, FS_AddElement, FS_CardinalityType

\* The thread that walks is not among those it has passed.
LEMMA WalkNotPassed ==
  ASSUME NEW list \in StampLists, MostRecentFirst(list), NEW t \in Threads,
         NEW pr \in Threads \cup {NIL}, NEW i, WalkAt(list, t, pr, i)
  PROVE  t \notin Passed(list, i)
<1>1. CASE pr = NIL
  BY <1>1, PassedAtHead DEF WalkAt
<1>2. CASE pr # NIL
  <2>1. /\ pr \in Threads /\ list.latest[pr] > 0 /\ list.next[pr] = i
        /\ pr # t /\ list.latest[t] < list.latest[pr]
    BY <1>2 DEF WalkAt
  <2>2. Passed(list, i) = Passed(list, pr) \cup {pr}
    BY <2>1, PassedGrows
  <2>3. t \notin Passed(list, pr)
    BY <2>1, NilIsNoThread DEF Passed, StampLists
  <2>. QED
    BY <2>1, <2>2, <2>3
<1>. QED
  BY <1>1, <1>2

\* Once the walk has met t or come to the end, moving t to the front with a
\* stamp later than all others leaves the list sorted.
LEMMA MoveSorted ==
  ASSUME NEW list \in StampLists, MostRecentFirst(list), NEW t \in Threads,
         NEW pos \in Nat, \A u \in Threads : list.latest[u] < pos,
         NEW pr \in Threads \cup {NIL}, NEW i \in {t, NIL},
         WalkAt(list, t, pr, i)
  PROVE  MostRecentFirst(MovedToFront(list, t, pos, pr))
<1>. USE NilIsNoThread DEF StampLists
<1>. DEFINE moved == MovedToFront(list, t, pos, pr)
<1>1. /\ moved.head = t
      /\ moved.latest = [list.latest EXCEPT ![t] = pos]
  BY DEF MovedToFront
<1>2. pos > 0
  OBVIOUS
<1>3. /\ moved.latest[t] = pos
      /\ \A u \in Threads \ {t} : moved.latest[u] = list.latest[u]
  BY <1>1
<1>4. /\ (moved.head = NIL <=> \A u \in Threads : moved.latest[u] = 0)
      /\ moved.head # NIL => /\ moved.latest[moved.head] > 0
                             /\ \A u \in Threads : moved.latest[u] <= moved.latest[moved.head]
  BY <1>1, <1>2, <1>3
<1>5. \A u, v \in Threads : u # v /\ moved.latest[u] > 0 => moved.latest[u] # moved.latest[v]
  BY <1>3 DEF MostRecentFirst
<1>6. Older(moved, t) = {w \in Threads \ {t} : 0 < list.latest[w]}
  BY <1>3 DEF Older
<1>7. \A u \in Threads \ {t} : Older(moved, u) = Older(list, u) \ {t}
  BY <1>3 DEF Older
<1>. DEFINE Linked(u) ==
       IF moved.next[u] = NIL
       THEN Older(moved, u) = {}
       ELSE /\ moved.next[u] \in Older(moved, u)
            /\ \A w \in Older(moved, u) : moved.latest[w] <= moved.latest[moved.next[u]]
<1>8. CASE pr = NIL
  <2>1. moved.next = list.next /\ list.head \in {t, NIL}
    BY <1>8 DEF MovedToFront, WalkAt
  <2>2. \A u \in Threads \ {t} : list.latest[u] = 0 \/ list.latest[u] < list.latest[t]
    BY <2>1 DEF MostRecentFirst
  <2>3. \A u \in Threads : Older(moved, u) = Older(list, u)
    BY <1>6, <1>7, <2>2 DEF Older
  <2>4. \A u \in Threads : t \notin Older(moved, u)
    BY <1>6, <1>7
  <2>5. \A u \in Threads : Linked(u)
    BY <1>3, <2>1, <2>3, <2>4 DEF MostRecentFirst, Older
  <2>. QED
    BY <1>4, <1>5, <2>5 DEF MostRecentFirst
<1>9. CASE pr # NIL
  <2>1. /\ pr \in Threads /\ pr # t
        /\ 0 < list.latest[pr] /\ list.next[pr] = i
        /\ list.latest[t] < list.latest[pr]
    BY <1>9 DEF WalkAt
  <2>2. /\ moved.next[pr] = list.next[t]
        /\ moved.next[t] = list.head
        /\ \A u \in Threads \ {t, pr} : moved.next[u] = list.next[u]
    BY <1>9, <2>1 DEF MovedToFront
  <2>3. Linked(t)
    <3>1. list.head \in Threads /\ list.head # t /\ list.latest[list.head] > 0
      BY <2>1 DEF MostRecentFirst
    <3>2. \A u \in Threads : list.latest[u] <= list.latest[list.head]
      BY <3>1 DEF MostRecentFirst
    <3>. QED
      BY <1>3, <1>6, <2>2, <3>1, <3>2
  <2>4. Older(list, pr) \ {t} = Older(list, t)
    <3>1. CASE i = NIL
      <4>1. Older(list, pr) = {}
        BY <2>1, <3>1 DEF MostRecentFirst
      <4>. QED
        BY <2>1, <4>1 DEF Older
    <3>2. CASE i = t
      <4>1. /\ t \in Older(list, pr)
            /\ \A w \in Older(list, pr) : list.latest[w] <= list.latest[t]
        BY <2>1, <3>2 DEF MostRecentFirst
      <4>2. \A w \in Threads : w # t /\ list.latest[w] > 0 => list.latest[w] # list.latest[t]
        BY DEF MostRecentFirst
      <4>. QED
        BY <2>1, <4>1, <4>2 DEF Older
    <3>. QED
      BY <3>1, <3>2
  <2>5. Linked(pr)
    <3>1. Older(moved, pr) = Older(list, t)
      BY <1>7, <2>1, <2>4
    <3>2. t \notin Older(list, t)
      BY DEF Older
    <3>. QED
      BY <1>3, <2>2, <3>1, <3>2 DEF MostRecentFirst, Older
  <2>6. ASSUME NEW u \in Threads \ {t, pr} PROVE Linked(u)
    <3>1. moved.next[u] = list.next[u]
      BY <2>2
    <3>2. list.next[u] # t
      <4>1. SUFFICES ASSUME list.next[u] = t PROVE FALSE
        OBVIOUS
      <4>2. /\ t \in Older(list, u)
            /\ \A w \in Older(list, u) : list.latest[w] <= list.latest[t]
        BY <4>1 DEF MostRecentFirst
      <4>3. /\ 0 < list.latest[t] /\ list.latest[t] < list.latest[u]
        BY <4>2 DEF Older
      <4>4. pr \notin Older(list, u)
        BY <2>1, <4>2
      <4>5. list.latest[pr] # list.latest[u]
        BY <2>1 DEF MostRecentFirst
      <4>6. list.latest[u] < list.latest[pr]
        BY <2>1, <4>4, <4>5 DEF Older
      <4>7. u \in Older(list, pr) /\ u \notin Older(list, t)
        BY <4>3, <4>6 DEF Older
      <4>. QED
        BY <2>4, <4>7
    <3>3. Older(moved, u) = Older(list, u) \ {t}
      BY <1>7
    <3>4. CASE list.next[u] = NIL
      BY <3>1, <3>3, <3>4 DEF MostRecentFirst
    <3>5. CASE list.next[u] # NIL
      <4>1. /\ list.next[u] \in Older(list, u)
            /\ \A w \in Older(list, u) : list.latest[w] <= list.latest[list.next[u]]
        BY <3>5 DEF MostRecentFirst
      <4>. QED
        BY <1>3, <3>1, <3>2, <3>3, <4>1 DEF Older
    <3>. QED
      BY <3>4, <3>5
  <2>7. \A u \in Threads : Linked(u)
    BY <2>3, <2>5, <2>6
  <2>. QED
    BY <1>4, <1>5, <2>7 DEF MostRecentFirst
<1>. QED
  BY <1>8, <1>9

-----------------------------------------------------------------------------
(***************************************************************************)
(* The last access of the thread whose last access is the (k+1)-th latest. *)
(***************************************************************************)
\* The threads whose last access is later than r.
LaterThan(list, r) == {u \in Threads : list.latest[u] > r}

\* At most k threads accessed the datum after r, and if r is not the beginning
\* of the trace, more than k did from r on.
IsRecent(list, k, r) ==
  /\ r \in Nat
  /\ Cardinality(LaterThan(list, r)) <= k
  /\ r > 0 => Cardinality(LaterThan(list, r - 1)) > k

Recent(list, k) == CHOOSE r : IsRecent(list, k, r)

\* The threads after a stamp are counted, and fewer after a later one.
LEMMA LaterCounts ==
  ASSUME NEW list \in StampLists, NEW q \in Int, NEW r \in Int, q <= r
  PROVE  /\ IsFiniteSet(LaterThan(list, q)) /\ Cardinality(LaterThan(list, q)) \in Nat
         /\ LaterThan(list, r) \subseteq LaterThan(list, q)
         /\ Cardinality(LaterThan(list, r)) <= Cardinality(LaterThan(list, q))
<1>1. IsFiniteSet(Threads)
  BY FS_Interval, ThreadIdAssumption DEF Threads
<1>2. LaterThan(list, q) \subseteq Threads
  BY DEF LaterThan
<1>3. IsFiniteSet(LaterThan(list, q))
  BY <1>1, <1>2, FS_Subset
<1>4. LaterThan(list, r) \subseteq LaterThan(list, q)
  <2>1. \A u \in Threads : list.latest[u] > r => list.latest[u] > q
    BY DEF StampLists
  <2>. QED
    BY <2>1 DEF LaterThan
<1>. QED
  BY <1>3, <1>4, FS_Subset, FS_CardinalityType

\* The stamp of a higher level is no later, and that of a level is unique.
LEMMA RecentOrder ==
  ASSUME NEW list \in StampLists, NEW k \in Nat, NEW m \in Nat, k <= m,
         NEW r, IsRecent(list, k, r), NEW q, IsRecent(list, m, q)
  PROVE  q <= r
<1>1. r \in Nat /\ q \in Nat
  BY DEF IsRecent
<1>2. SUFFICES ASSUME q > r PROVE FALSE
  BY <1>1
<1>3. Cardinality(LaterThan(list, q - 1)) <= Cardinality(LaterThan(list, r))
  BY <1>1, <1>2, LaterCounts
<1>4. Cardinality(LaterThan(list, q - 1)) > m /\ Cardinality(LaterThan(list, r)) <= k
  BY <1>1, <1>2 DEF IsRecent
<1>5. Cardinality(LaterThan(list, q - 1)) \in Nat /\ Cardinality(LaterThan(list, r)) \in Nat
  <2>1. q - 1 \in Int
    BY <1>1
  <2>. QED
    BY <1>1, <2>1, LaterCounts
<1>. QED
  BY <1>3, <1>4, <1>5

\* A number that meets the definition of Recent is it ...
LEMMA RecentIs ==
  ASSUME NEW list \in StampLists, NEW k \in Nat, NEW r, IsRecent(list, k, r)
  PROVE  Recent(list, k) = r
<1>. DEFINE q == CHOOSE x : IsRecent(list, k, x)
<1>1. IsRecent(list, k, q)
  OBVIOUS
<1>. HIDE DEF q
<1>2. q <= r /\ r <= q
  BY <1>1, RecentOrder
<1>3. q \in Nat /\ r \in Nat
  BY <1>1 DEF IsRecent
<1>4. q = r
  BY <1>2, <1>3
<1>. QED
  BY <1>4 DEF q, Recent

\* ... and there is one.
LEMMA RecentExists ==
  ASSUME NEW list \in StampLists, NEW k \in Nat,
         NEW n \in Nat, \A u \in Threads : list.latest[u] <= n
  PROVE  IsRecent(list, k, Recent(list, k)) /\ Recent(list, k) <= n
<1>. DEFINE S == {r \in Nat : Cardinality(LaterThan(list, r)) <= k}
<1>1. n \in S
  <2>1. LaterThan(list, n) = {}
    BY DEF LaterThan, StampLists
  <2>2. Cardinality(LaterThan(list, n)) = 0
    BY <2>1, FS_EmptySet
  <2>. QED
    BY <2>2
<1>2. PICK r \in S : \A q \in S : r <= q
  <2>1. S \subseteq Nat
    OBVIOUS
  <2>. HIDE DEF S
  <2>. QED
    BY <1>1, <2>1, LeastElement
<1>3. IsRecent(list, k, r)
  <2>1. r \in Nat /\ Cardinality(LaterThan(list, r)) <= k
    BY <1>2
  <2>2. ASSUME r > 0 PROVE Cardinality(LaterThan(list, r - 1)) > k
    <3>1. r - 1 \in Nat /\ ~ (r <= r - 1)
      BY <2>1, <2>2
    <3>2. r - 1 \notin S
      BY <1>2, <3>1
    <3>3. Cardinality(LaterThan(list, r - 1)) \in Nat
      BY <3>1, LaterCounts
    <3>. QED
      BY <3>1, <3>2, <3>3
  <2>. QED
    BY <2>1, <2>2 DEF IsRecent
<1>4. Recent(list, k) = r
  BY <1>3, RecentIs
<1>. QED
  BY <1>1, <1>2, <1>3, <1>4

\* A stamp is not the beginning exactly if more than k threads are in the list.
LEMMA RecentPositive ==
  ASSUME NEW list \in StampLists, NEW k \in Nat, NEW r, IsRecent(list, k, r)
  PROVE  r > 0 <=> k < Cardinality(LaterThan(list, 0))
<1>1. r \in Nat
  BY DEF IsRecent
<1>2. Cardinality(LaterThan(list, 0)) \in Nat
  BY LaterCounts
<1>3. CASE r = 0
  BY <1>2, <1>3 DEF IsRecent
<1>4. CASE r # 0
  <2>1. Cardinality(LaterThan(list, r - 1)) <= Cardinality(LaterThan(list, 0)) /\ r - 1 \in Int
    BY <1>1, <1>4, LaterCounts
  <2>2. Cardinality(LaterThan(list, r - 1)) > k /\ Cardinality(LaterThan(list, r - 1)) \in Nat
    BY <1>1, <1>4, <2>1, LaterCounts DEF IsRecent
  <2>. QED
    BY <1>1, <1>2, <1>4, <2>1, <2>2
<1>. QED
  BY <1>3, <1>4

\* The threads a walk has passed are those with a later stamp than where it is.
LEMMA PassedIsLater ==
  ASSUME NEW list, NEW i
  PROVE  Passed(list, i) = LaterThan(list, IF i = NIL THEN 0 ELSE list.latest[i])
BY DEF Passed, LaterThan

\* A walk that has passed k threads is at the stamp of level k.
LEMMA RecentAtWalk ==
  ASSUME NEW list \in StampLists, NEW i \in Threads \cup {NIL},
         i # NIL => list.latest[i] > 0
  PROVE  Recent(list, Cardinality(Passed(list, i))) = IF i = NIL THEN 0 ELSE list.latest[i]
<1>. DEFINE r == IF i = NIL THEN 0 ELSE list.latest[i]
            c == Cardinality(Passed(list, i))
<1>1. r \in Nat /\ c = Cardinality(LaterThan(list, r))
  BY PassedIsLater DEF StampLists
<1>2. c \in Nat
  BY <1>1, LaterCounts
<1>3. ASSUME r > 0 PROVE Cardinality(LaterThan(list, r - 1)) > c
  <2>1. i \in Threads /\ r = list.latest[i]
    BY <1>3
  <2>2. LaterThan(list, r) \cup {i} \subseteq LaterThan(list, r - 1) /\ i \notin LaterThan(list, r)
    BY <1>1, <2>1 DEF LaterThan, StampLists
  <2>3. IsFiniteSet(LaterThan(list, r)) /\ IsFiniteSet(LaterThan(list, r - 1))
    <3>1. r - 1 \in Int
      BY <1>1
    <3>. QED
      BY <1>1, <3>1, LaterCounts
  <2>. HIDE DEF r, c
  <2>4. Cardinality(LaterThan(list, r) \cup {i}) = c + 1
    BY <1>1, <2>2, <2>3, FS_AddElement
  <2>5. c + 1 <= Cardinality(LaterThan(list, r - 1)) /\ Cardinality(LaterThan(list, r - 1)) \in Nat
    BY <2>2, <2>3, <2>4, FS_Subset, FS_CardinalityType
  <2>. QED
    BY <1>2, <2>5
<1>. HIDE DEF r, c
<1>4. IsRecent(list, c, r)
  BY <1>1, <1>2, <1>3 DEF IsRecent
<1>5. Recent(list, c) = r
  BY <1>2, <1>4, RecentIs
<1>. QED
  BY <1>5 DEF r, c
\* When t moves to the front, each level up to that of t takes the stamp of the
\* level below it, level 0 the new one, and those above t keep theirs.
LEMMA RecentMoved ==
  ASSUME NEW list \in StampLists, NEW t \in Threads,
         NEW pos \in Nat, \A u \in Threads : list.latest[u] < pos,
         NEW pr \in Threads \cup {NIL}, NEW k \in Nat, NEW c \in Nat,
         c = Cardinality(LaterThan(list, list.latest[t]))
  PROVE  Recent(MovedToFront(list, t, pos, pr), k)
           = IF k = 0 THEN pos ELSE Recent(list, IF k <= c THEN k - 1 ELSE k)
<1>. DEFINE moved == MovedToFront(list, t, pos, pr)
            p == list.latest[t]
<1>1. /\ moved \in StampLists /\ p \in Nat /\ moved.latest[t] = pos
      /\ \A u \in Threads : u # t => moved.latest[u] = list.latest[u]
  BY MoveType DEF MovedToFront, StampLists
<1>2. \A u \in Threads : list.latest[u] \in Nat /\ list.latest[u] < pos
  BY DEF StampLists
<1>3. ASSUME NEW r \in Int, r < pos PROVE LaterThan(moved, r) = LaterThan(list, r) \cup {t}
  BY <1>1, <1>2, <1>3 DEF LaterThan
<1>4. \A m \in Nat : IsRecent(list, m, Recent(list, m)) /\ Recent(list, m) <= pos
  BY <1>2, RecentExists
<1>5. c = Cardinality(LaterThan(list, p))
  OBVIOUS
<1>. HIDE DEF moved, p
<1>6. CASE k = 0
  <2>1. LaterThan(moved, pos) = {} /\ t \in LaterThan(moved, pos - 1)
    BY <1>1, <1>2 DEF LaterThan
  <2>2. Cardinality(LaterThan(moved, pos)) = 0
    BY <2>1, FS_EmptySet
  <2>3. IsFiniteSet(LaterThan(moved, pos - 1)) /\ Cardinality(LaterThan(moved, pos - 1)) \in Nat
    <3>1. pos - 1 \in Int
      OBVIOUS
    <3>. QED
      BY <1>1, <3>1, LaterCounts
  <2>4. Cardinality(LaterThan(moved, pos - 1)) # 0
    BY <2>1, <2>3, FS_EmptySet
  <2>5. IsRecent(moved, 0, pos)
    BY <2>2, <2>3, <2>4 DEF IsRecent
  <2>. QED
    BY <1>1, <1>6, <2>5, RecentIs DEF moved
<1>7. CASE k # 0 /\ k <= c
  <2>. DEFINE r == Recent(list, k - 1)
  <2>1. k - 1 \in Nat /\ IsRecent(list, k - 1, r)
    BY <1>4, <1>7
  <2>. HIDE DEF r
  <2>2. r \in Nat /\ Cardinality(LaterThan(list, r)) <= k - 1
        /\ (r > 0 => Cardinality(LaterThan(list, r - 1)) > k - 1)
    BY <2>1 DEF IsRecent
  <2>3. /\ IsFiniteSet(LaterThan(list, r)) /\ Cardinality(LaterThan(list, r)) \in Nat
    BY <2>2, LaterCounts
  <2>4. p <= r
    <3>1. SUFFICES ASSUME r < p PROVE FALSE
      BY <1>1, <2>2
    <3>2. c <= Cardinality(LaterThan(list, r))
      BY <1>1, <1>5, <2>2, <3>1, LaterCounts
    <3>. QED
      BY <1>7, <2>2, <2>3, <3>2
  <2>5. t \notin LaterThan(list, r)
    BY <1>1, <2>2, <2>4 DEF LaterThan, p
  <2>6. r < pos
    <3>1. CASE r = 0
      BY <1>1, <1>2, <3>1
    <3>2. CASE r # 0
      <4>1. Cardinality(LaterThan(list, r - 1)) > k - 1
        BY <2>2, <3>2
      <4>2. LaterThan(list, r - 1) # {}
        <5>1. k - 1 \in Nat
          BY <1>7
        <5>2. Cardinality({}) = 0
          BY FS_EmptySet
        <5>. QED
          BY <4>1, <5>1, <5>2
      <4>. QED
        BY <1>2, <2>2, <4>2 DEF LaterThan
    <3>. QED
      BY <3>1, <3>2
  <2>7. Cardinality(LaterThan(moved, r)) <= k
    <3>1. Cardinality(LaterThan(list, r) \cup {t}) = Cardinality(LaterThan(list, r)) + 1
      BY <2>3, <2>5, FS_AddElement
    <3>2. LaterThan(moved, r) = LaterThan(list, r) \cup {t}
      BY <1>3, <2>2, <2>6
    <3>. QED
      BY <2>2, <2>3, <3>1, <3>2
  <2>8. ASSUME r > 0 PROVE Cardinality(LaterThan(moved, r - 1)) > k
    <3>1. r - 1 \in Int /\ r - 1 < pos /\ r - 1 <= r /\ Cardinality(LaterThan(list, r - 1)) > k - 1
      BY <2>2, <2>6, <2>8
    <3>2. LaterThan(moved, r - 1) = LaterThan(list, r - 1) \cup {t}
      BY <1>3, <3>1
    <3>3. IsFiniteSet(LaterThan(list, r - 1)) /\ Cardinality(LaterThan(list, r - 1)) \in Nat
      BY <3>1, LaterCounts
    <3>4. CASE t \notin LaterThan(list, r - 1)
      <4>1. Cardinality(LaterThan(moved, r - 1)) = Cardinality(LaterThan(list, r - 1)) + 1
        BY <3>2, <3>3, <3>4, FS_AddElement
      <4>. QED
        BY <3>1, <3>3, <4>1
    <3>5. CASE t \in LaterThan(list, r - 1)
      <4>1. p > r - 1
        BY <3>5 DEF LaterThan, p
      <4>2. r = p
        BY <1>1, <2>2, <2>4, <4>1
      <4>3. LaterThan(list, p) = LaterThan(list, r)
        BY <4>2
      <4>. QED
        BY <1>5, <1>7, <2>2, <2>3, <4>3
    <3>. QED
      BY <3>4, <3>5
  <2>9. IsRecent(moved, k, r)
    BY <2>2, <2>7, <2>8 DEF IsRecent
  <2>10. Recent(moved, k) = r
    BY <1>1, <2>9, RecentIs
  <2>. QED
    BY <1>7, <2>10 DEF moved, r
<1>8. CASE k # 0 /\ ~ (k <= c)
  <2>. DEFINE r == Recent(list, k)
  <2>1. IsRecent(list, k, r)
    BY <1>4
  <2>. HIDE DEF r
  <2>2. r \in Nat /\ Cardinality(LaterThan(list, r)) <= k
        /\ (r > 0 => Cardinality(LaterThan(list, r - 1)) > k)
    BY <2>1 DEF IsRecent
  <2>3. IsFiniteSet(LaterThan(list, r)) /\ Cardinality(LaterThan(list, r)) \in Nat
    BY <2>2, LaterCounts
  <2>4. r <= p
    <3>1. SUFFICES ASSUME p < r PROVE FALSE
      BY <1>1, <2>2
    <3>2. r > 0 /\ p <= r - 1 /\ r - 1 \in Int
      BY <1>1, <2>2, <3>1
    <3>3. Cardinality(LaterThan(list, r - 1)) <= c /\ Cardinality(LaterThan(list, r - 1)) \in Nat
      BY <1>1, <1>5, <3>2, LaterCounts
    <3>. QED
      BY <1>8, <2>2, <3>2, <3>3
  <2>5. r < pos
    BY <1>1, <1>2, <2>2, <2>4 DEF p
  <2>6. Cardinality(LaterThan(moved, r)) <= k
    <3>1. LaterThan(moved, r) = LaterThan(list, r) \cup {t}
      BY <1>3, <2>2, <2>5
    <3>2. CASE t \in LaterThan(list, r)
      <4>1. LaterThan(moved, r) = LaterThan(list, r)
        BY <3>1, <3>2
      <4>. QED
        BY <2>2, <4>1
    <3>3. CASE t \notin LaterThan(list, r)
      <4>1. Cardinality(LaterThan(list, r) \cup {t}) = Cardinality(LaterThan(list, r)) + 1
        BY <2>3, <3>3, FS_AddElement
      <4>2. r = p
        BY <1>1, <2>2, <2>4, <3>3 DEF LaterThan, p
      <4>3. Cardinality(LaterThan(list, r)) = c
        BY <1>5, <4>2
      <4>. QED
        BY <1>8, <3>1, <4>1, <4>3
    <3>. QED
      BY <3>2, <3>3
  <2>7. ASSUME r > 0 PROVE Cardinality(LaterThan(moved, r - 1)) > k
    <3>1. r - 1 \in Int /\ r - 1 < pos /\ r - 1 < p
      BY <1>1, <2>2, <2>4, <2>5, <2>7
    <3>2. LaterThan(moved, r - 1) = LaterThan(list, r - 1) \cup {t}
      BY <1>3, <3>1
    <3>3. t \in LaterThan(list, r - 1)
      BY <3>1 DEF LaterThan, p
    <3>4. LaterThan(moved, r - 1) = LaterThan(list, r - 1)
      BY <3>2, <3>3
    <3>. QED
      BY <2>2, <2>7, <3>4
  <2>8. IsRecent(moved, k, r)
    BY <2>2, <2>6, <2>7 DEF IsRecent
  <2>9. Recent(moved, k) = r
    BY <1>1, <2>8, RecentIs
  <2>. QED
    BY <1>8, <2>9 DEF moved, r
<1>. QED
  BY <1>6, <1>7, <1>8
-----------------------------------------------------------------------------
(***************************************************************************)
(* The buckets of the histogram.                                           *)
(***************************************************************************)
\* The quotient and the remainder of a division by a positive number.
LEMMA Division ==
  ASSUME NEW v \in Nat, NEW b \in Nat \ {0}
  PROVE  /\ v \div b \in Nat /\ v % b \in 0 .. b - 1
         /\ v = b * (v \div b) + (v % b)
OBVIOUS

\* There is a sub-bucket.
LEMMA SubBucketsType == SubBuckets \in Nat \ {0}
BY SublogAssumption, PowerOfTwo DEF SubBuckets

\* The highest bit of a number that is not less than SubBuckets.
LEMMA MsbOf ==
  ASSUME NEW v \in Nat, v < 2 ^ WordBits, SubBuckets <= v
  PROVE  /\ Msb(v) \in SublogBits .. WordBits - 1
         /\ 2 ^ Msb(v) <= v /\ v < 2 ^ (Msb(v) + 1)
<1>. DEFINE Above == {n \in Nat : v < 2 ^ n}
<1>1. PICK n \in Above : \A i \in Above : n <= i
  <2>1. Above \subseteq Nat /\ WordBits \in Above
    BY SublogAssumption
  <2>. HIDE DEF Above
  <2>. QED
    BY <2>1, LeastElement
<1>2. n \in Nat /\ v < 2 ^ n /\ n <= WordBits
  BY <1>1, SublogAssumption
<1>3. SublogBits < n
  <2>. SUFFICES ASSUME n <= SublogBits PROVE FALSE
    BY <1>2, SublogAssumption
  <2>1. 2 ^ n <= 2 ^ SublogBits
    BY <1>2, SublogAssumption, PowerGrows
  <2>2. 2 ^ n \in Nat /\ 2 ^ SublogBits \in Nat
    BY <1>2, SublogAssumption, PowerOfTwo
  <2>. QED
    BY <1>2, <2>1, <2>2 DEF SubBuckets
<1>. DEFINE m == n - 1
<1>4. m \in Nat /\ m + 1 = n /\ m \in SublogBits .. WordBits - 1
  BY <1>2, <1>3, SublogAssumption
<1>5. 2 ^ m <= v
  <2>1. m \notin Above
    BY <1>1, <1>4
  <2>2. 2 ^ m \in Nat
    BY <1>4, PowerOfTwo
  <2>. QED
    BY <1>4, <2>1, <2>2
<1>. DEFINE P(i) == 2 ^ i <= v /\ v < 2 ^ (i + 1)
<1>6. P(m)
  BY <1>2, <1>4, <1>5
<1>7. ASSUME NEW i \in 0 .. WordBits - 1, P(i) PROVE i = m
  <2>1. i \in Nat /\ i + 1 \in Nat /\ m + 1 \in Nat
    BY <1>4, SublogAssumption
  <2>2. ASSUME NEW p \in Nat, NEW q \in Nat, p < q, P(p), P(q) PROVE FALSE
    <3>1. 2 ^ (p + 1) <= 2 ^ q
      BY <2>2, PowerGrows
    <3>2. 2 ^ (p + 1) \in Nat /\ 2 ^ q \in Nat
      BY PowerOfTwo
    <3>. QED
      BY <2>2, <3>1, <3>2
  <2>. QED
    BY <1>4, <1>6, <1>7, <2>1, <2>2
<1>8. m \in 0 .. WordBits - 1
  BY <1>4, SublogAssumption
<1>9. Msb(v) = m
  <2>. HIDE DEF m
  <2>1. Msb(v) = CHOOSE i \in 0 .. WordBits - 1 : P(i)
    BY DEF Msb
  <2>. HIDE DEF P
  <2>. QED
    BY <1>6, <1>7, <1>8, <2>1
<1>. QED
  BY <1>4, <1>6, <1>9

\* A value that is no less than SubBuckets: its octave and the sub-bucket r.
LEMMA OctaveOf ==
  ASSUME NEW v \in Nat, v < 2 ^ WordBits, SubBuckets <= v
  PROVE  \E h \in 0 .. WordBits - 1 - SublogBits, r \in 0 .. SubBuckets - 1 :
           /\ sublog_value_to_index(v) = (h + 1) * SubBuckets + r
           /\ (SubBuckets + r) * 2 ^ h <= v
           /\ v < (SubBuckets + r + 1) * 2 ^ h
<1>. DEFINE h == Msb(v) - SublogBits
            w == 2 ^ h
            q == v \div w
            B == SubBuckets
<1>1. /\ Msb(v) \in Nat /\ SublogBits <= Msb(v) /\ Msb(v) <= WordBits - 1
      /\ 2 ^ Msb(v) <= v /\ v < 2 ^ (Msb(v) + 1)
  BY MsbOf, SublogAssumption
<1>2. h \in Nat /\ h \in 0 .. WordBits - 1 - SublogBits
  BY <1>1, SublogAssumption
<1>3. w \in Nat \ {0} /\ B \in Nat \ {0}
  BY <1>2, PowerOfTwo, SubBucketsType
<1>4. 2 ^ Msb(v) = B * w /\ 2 ^ (Msb(v) + 1) = 2 * (B * w)
  <2>1. 2 ^ Msb(v) = B * w
    BY <1>1, SublogAssumption, PowerGrows DEF SubBuckets
  <2>2. 2 ^ (Msb(v) + 1) = 2 * 2 ^ Msb(v)
    BY <1>1, PowerOfTwo
  <2>. QED
    BY <2>1, <2>2
<1>5. q \in Nat /\ v % w \in 0 .. w - 1 /\ v = w * q + (v % w)
  BY <1>3, Division
<1>6. sublog_value_to_index(v) = (h + 1) * B + (q % B)
  <2>1. B \in Nat /\ ~ (v < B)
    BY <1>3
  <2>. QED
    BY <2>1 DEF sublog_value_to_index
<1>. HIDE DEF h, w, q, B
<1>7. B * w <= v /\ v < 2 * (B * w)
  BY <1>1, <1>4
<1>8. B <= q
  <2>. SUFFICES ASSUME q + 1 <= B PROVE FALSE
    BY <1>3, <1>5
  <2>1. (q + 1) * w <= B * w
    BY <1>3, <1>5
  <2>2. w * q + w = (q + 1) * w
    BY <1>3, <1>5
  <2>3. B * w \in Nat /\ w * q \in Nat
    BY <1>3, <1>5
  <2>. QED
    BY <1>3, <1>5, <1>7, <2>1, <2>2, <2>3
<1>9. q < 2 * B
  <2>. SUFFICES ASSUME 2 * B <= q PROVE FALSE
    BY <1>3, <1>5
  <2>1. w * (2 * B) <= w * q
    BY <1>3, <1>5
  <2>2. w * (2 * B) = 2 * (B * w)
    BY <1>3
  <2>3. B * w \in Nat /\ w * q \in Nat
    BY <1>3, <1>5
  <2>. QED
    BY <1>3, <1>5, <1>7, <2>1, <2>2, <2>3
<1>. DEFINE r == q - B
<1>10. r \in 0 .. B - 1 /\ B + r = q
  BY <1>3, <1>5, <1>8, <1>9
<1>11. q % B = r
  BY <1>3, <1>5, <1>8, <1>9
<1>12. q * w <= v /\ v < (q + 1) * w
  <2>1. q * w = w * q /\ (q + 1) * w = w * q + w
    BY <1>3, <1>5
  <2>2. w * q \in Nat
    BY <1>3, <1>5
  <2>. QED
    BY <1>3, <1>5, <2>1, <2>2
<1>. HIDE DEF r
<1>13. /\ r \in 0 .. SubBuckets - 1
       /\ sublog_value_to_index(v) = (h + 1) * SubBuckets + r
       /\ (SubBuckets + r) * 2 ^ h <= v
       /\ v < (SubBuckets + r + 1) * 2 ^ h
  BY <1>6, <1>10, <1>11, <1>12 DEF w, B
<1>. QED
  BY <1>2, <1>13

\* The octave and the sub-bucket of a bucket.
LEMMA OctaveOfBucket ==
  ASSUME NEW j \in Nat, SubBuckets <= j
  PROVE  \E g \in Nat, t \in 0 .. SubBuckets - 1 :
           /\ j = (g + 1) * SubBuckets + t
           /\ sublog_index_to_value(j) = (SubBuckets + t) * 2 ^ g
<1>. DEFINE B == SubBuckets
            g == j \div B - 1
            t == j % B
<1>1. B \in Nat \ {0}
  BY SubBucketsType
<1>2. j \div B \in Nat /\ t \in 0 .. B - 1 /\ j = B * (j \div B) + t
  BY <1>1, Division
<1>3. j \div B # 0
  <2>. SUFFICES ASSUME j \div B = 0 PROVE FALSE
    OBVIOUS
  <2>1. B * 0 = 0
    BY <1>1
  <2>. HIDE DEF B, t
  <2>. QED
    BY <1>1, <1>2, <2>1 DEF B
<1>4. g \in Nat /\ g + 1 = j \div B
  BY <1>2, <1>3
<1>5. sublog_index_to_value(j) = (B + t) * 2 ^ g
  BY <1>3 DEF sublog_index_to_value
<1>6. (g + 1) * B = B * (j \div B)
  BY <1>1, <1>2, <1>4
<1>. HIDE DEF g, t
<1>7. j = (g + 1) * SubBuckets + t /\ t \in 0 .. SubBuckets - 1
  BY <1>2, <1>6
<1>. QED
  BY <1>4, <1>5, <1>7

\* A bucket of a higher octave begins above the values of a lower one.
LEMMA OctavesApart ==
  ASSUME NEW g \in Nat, NEW h \in Nat, g < h,
         NEW t \in 0 .. SubBuckets - 1, NEW r \in 0 .. SubBuckets - 1
  PROVE  /\ (SubBuckets + t + 1) * 2 ^ g <= (SubBuckets + r) * 2 ^ h
         /\ (g + 1) * SubBuckets + t < (h + 1) * SubBuckets + r
<1>. DEFINE B == SubBuckets
            w == 2 ^ g
            e == 2 ^ (h - g - 1)
<1>1. B \in Nat \ {0} /\ w \in Nat \ {0} /\ e \in Nat \ {0}
  BY SubBucketsType, PowerOfTwo
<1>2. 2 ^ h = (2 * w) * e
  <2>1. g + 1 \in Nat /\ g + 1 <= h /\ h - (g + 1) = h - g - 1
    OBVIOUS
  <2>2. 2 ^ h = 2 ^ (g + 1) * 2 ^ (h - (g + 1))
    BY <2>1, PowerGrows
  <2>3. 2 ^ (g + 1) = 2 * w
    BY PowerOfTwo
  <2>4. 2 ^ (h - (g + 1)) = e
    BY <2>1
  <2>. QED
    BY <2>2, <2>3, <2>4
<1>. HIDE DEF B, w, e
<1>3. t + 1 <= B /\ B + t + 1 \in Nat /\ B + r \in Nat /\ t \in Nat /\ r \in Nat
  BY <1>1 DEF B
<1>4. (B + t + 1) * w <= (2 * B) * w
  BY <1>1, <1>3
<1>5. (2 * B) * w = B * (2 * w)
  BY <1>1
<1>6. B * (2 * w) <= (B + r) * (2 * w)
  BY <1>1, <1>3
<1>7. 2 * w <= (2 * w) * e
  BY <1>1
<1>8. (B + r) * (2 * w) <= (B + r) * ((2 * w) * e)
  <2>. DEFINE c == B + r
              x == 2 * w
              y == (2 * w) * e
  <2>1. c \in Nat /\ x \in Nat /\ y \in Nat /\ x <= y
    BY <1>1, <1>3, <1>7
  <2>. HIDE DEF c, x, y
  <2>2. c * x <= c * y
    BY <2>1
  <2>. QED
    BY <2>2 DEF c, x, y
<1>9. /\ (B + t + 1) * w \in Nat /\ (2 * B) * w \in Nat /\ B * (2 * w) \in Nat
      /\ (B + r) * (2 * w) \in Nat /\ (B + r) * ((2 * w) * e) \in Nat
  <2>1. (2 * w) * e \in Nat /\ 2 * w \in Nat /\ 2 * B \in Nat
    BY <1>1
  <2>. QED
    BY <1>1, <1>3, <2>1
<1>10. (B + t + 1) * w <= (B + r) * ((2 * w) * e)
  BY <1>4, <1>5, <1>6, <1>8, <1>9
<1>11. (g + 1) * B + t < (h + 1) * B + r
  <2>1. (g + 2) * B <= (h + 1) * B
    BY <1>1
  <2>2. (g + 2) * B = (g + 1) * B + B
    BY <1>1
  <2>3. (g + 1) * B \in Nat /\ (h + 1) * B \in Nat
    BY <1>1
  <2>. QED
    BY <1>1, <1>3, <2>1, <2>2, <2>3
<1>. QED
  BY <1>2, <1>10, <1>11 DEF B, w

\* Within an octave the buckets follow the values.
LEMMA BucketsInOctave ==
  ASSUME NEW h \in Nat, NEW t \in 0 .. SubBuckets - 1, NEW r \in 0 .. SubBuckets - 1,
         NEW v \in Nat, (SubBuckets + r) * 2 ^ h <= v, v < (SubBuckets + r + 1) * 2 ^ h
  PROVE  t <= r <=> (SubBuckets + t) * 2 ^ h <= v
<1>. DEFINE B == SubBuckets
            w == 2 ^ h
<1>1. B \in Nat \ {0} /\ w \in Nat \ {0}
  BY SubBucketsType, PowerOfTwo
<1>2. (B + r) * w <= v /\ v < (B + r + 1) * w
  OBVIOUS
<1>3. t \in Nat /\ r \in Nat /\ B + t \in Nat /\ B + r \in Nat
  BY <1>1
<1>. HIDE DEF B, w
<1>4. /\ (B + t) * w \in Nat /\ (B + r) * w \in Nat /\ (B + r + 1) * w \in Nat
  BY <1>1, <1>3
<1>5. CASE t <= r
  <2>1. (B + t) * w <= (B + r) * w
    BY <1>1, <1>3, <1>5
  <2>. QED
    BY <1>2, <1>4, <1>5, <2>1 DEF B, w
<1>6. CASE r < t
  <2>1. (B + r + 1) * w <= (B + t) * w
    BY <1>1, <1>3, <1>6
  <2>2. ~ ((B + t) * w <= v)
    BY <1>2, <1>4, <2>1
  <2>. QED
    BY <1>3, <1>6, <2>2 DEF B, w
<1>. QED
  BY <1>3, <1>5, <1>6

\* Bucket j begins with a value no less than j; that of bucket 0 is 0.
LEMMA BucketValue ==
  ASSUME NEW j \in Nat
  PROVE  sublog_index_to_value(j) \in Nat /\ sublog_index_to_value(j) >= j
<1>. DEFINE B == SubBuckets
<1>1. B \in Nat \ {0}
  BY SubBucketsType
<1>2. CASE j < B
  <2>1. j \div B = 0
    BY <1>1, <1>2
  <2>. QED
    BY <2>1 DEF sublog_index_to_value
<1>3. CASE ~ (j < B)
  <2>1. PICK g \in Nat, t \in 0 .. B - 1 :
              /\ j = (g + 1) * B + t
              /\ sublog_index_to_value(j) = (B + t) * 2 ^ g
    BY <1>1, <1>3, OctaveOfBucket
  <2>. DEFINE w == 2 ^ g
  <2>2. w \in Nat /\ g + 1 <= w /\ t \in Nat /\ sublog_index_to_value(j) = (B + t) * w
    BY <1>1, <2>1, PowerAbove, PowerOfTwo
  <2>. HIDE DEF B, w
  <2>3. (g + 1) * B <= w * B /\ (B + t) * w = w * B + w * t
    BY <1>1, <2>2
  <2>4. t <= w * t
    <3>1. 1 * t <= w * t
      BY <2>2
    <3>. QED
      BY <2>2, <3>1
  <2>5. w * B \in Nat /\ w * t \in Nat /\ (g + 1) * B \in Nat
    BY <1>1, <2>2
  <2>. QED
    BY <2>1, <2>2, <2>3, <2>4, <2>5
<1>. QED
  BY <1>2, <1>3

\* Every value of a word has a bucket in the arrays, and it is bucket j or one
\* above exactly if the value reaches that which opens bucket j: a row of the
\* histogram is exact although the lengths are not counted one by one.
THEOREM BucketBoundaries ==
  ASSUME NEW v \in Nat, v < 2 ^ WordBits
  PROVE  /\ sublog_value_to_index(v) \in 0 .. MAX_WINDOW - 1
         /\ \A j \in Nat : sublog_value_to_index(v) >= j <=> v >= sublog_index_to_value(j)
<1>. DEFINE B == SubBuckets
<1>1. B \in Nat \ {0}
  BY SubBucketsType
<1>2. \A j \in 0 .. B - 1 : sublog_index_to_value(j) = j
  <2>. TAKE j \in 0 .. B - 1
  <2>1. j \div B = 0
    BY <1>1
  <2>. QED
    BY <2>1 DEF sublog_index_to_value
<1>3. CASE v < B
  <2>1. sublog_value_to_index(v) = v
    BY <1>3 DEF sublog_value_to_index
  <2>2. v \in 0 .. MAX_WINDOW - 1
    <3>1. 1 * B <= (WordBits + 1 - SublogBits) * B
      <4>. DEFINE c == WordBits + 1 - SublogBits
      <4>1. c \in Nat /\ 1 <= c
        BY SublogAssumption
      <4>. HIDE DEF c, B
      <4>2. 1 * B <= c * B /\ c * B \in Nat
        BY <1>1, <4>1
      <4>. QED
        BY <4>2 DEF c
    <3>2. MAX_WINDOW = (WordBits + 1 - SublogBits) * B /\ MAX_WINDOW \in Nat
      <4>1. WordBits + 1 - SublogBits \in Nat
        BY SublogAssumption
      <4>. QED
        BY <1>1, <4>1 DEF MAX_WINDOW
    <3>. QED
      BY <1>1, <1>3, <3>1, <3>2
  <2>3. ASSUME NEW j \in Nat PROVE v >= j <=> v >= sublog_index_to_value(j)
    <3>1. CASE j < B
      BY <1>1, <1>2, <3>1
    <3>2. CASE ~ (j < B)
      <4>1. PICK g \in Nat, t \in 0 .. B - 1 :
                  /\ j = (g + 1) * B + t
                  /\ sublog_index_to_value(j) = (B + t) * 2 ^ g
        BY <1>1, <3>2, OctaveOfBucket
      <4>2. 2 ^ g \in Nat \ {0}
        BY PowerOfTwo
      <4>3. B <= (B + t) * 2 ^ g /\ (B + t) * 2 ^ g \in Nat
        <5>. DEFINE w == 2 ^ g
        <5>. HIDE DEF w, B
        <5>1. w \in Nat \ {0} /\ t \in Nat
          BY <1>1, <4>2 DEF w
        <5>2. (B + t) * w \in Nat /\ B * 1 <= (B + t) * w
          BY <1>1, <5>1
        <5>. QED
          BY <1>1, <5>2 DEF w
      <4>. QED
        BY <1>1, <1>3, <3>2, <4>1, <4>3
    <3>. QED
      BY <3>1, <3>2
  <2>. QED
    BY <2>1, <2>2, <2>3
<1>4. CASE ~ (v < B)
  <2>1. PICK h \in 0 .. WordBits - 1 - SublogBits, r \in 0 .. B - 1 :
              /\ sublog_value_to_index(v) = (h + 1) * B + r
              /\ (B + r) * 2 ^ h <= v
              /\ v < (B + r + 1) * 2 ^ h
    <3>1. v >= SubBuckets
      BY <1>1, <1>4
    <3>. QED
      BY <3>1, OctaveOf
  <2>2. h \in Nat /\ h <= WordBits - 1 - SublogBits /\ r \in Nat /\ r < B
    BY <1>1, <2>1, SublogAssumption
  <2>3. sublog_value_to_index(v) \in 0 .. MAX_WINDOW - 1
    <3>. DEFINE c == WordBits + 1 - SublogBits
    <3>1. c \in Nat /\ h + 2 <= c
      BY <2>2, SublogAssumption
    <3>2. MAX_WINDOW = c * B
      BY DEF MAX_WINDOW
    <3>. HIDE DEF c, B
    <3>3. (h + 2) * B <= c * B
      BY <1>1, <2>2, <3>1
    <3>4. (h + 2) * B = (h + 1) * B + B
      BY <1>1, <2>2
    <3>5. (h + 1) * B \in Nat /\ c * B \in Nat
      BY <1>1, <2>2, <3>1
    <3>. QED
      BY <1>1, <2>1, <2>2, <3>2, <3>3, <3>4, <3>5
  <2>4. ASSUME NEW j \in Nat
        PROVE  sublog_value_to_index(v) >= j <=> v >= sublog_index_to_value(j)
    <3>1. CASE j < B
      <4>1. sublog_index_to_value(j) = j
        BY <1>1, <1>2, <3>1
      <4>2. (h + 1) * B + r >= B /\ (h + 1) * B + r \in Nat
        <5>. HIDE DEF B
        <5>1. (h + 1) * B \in Nat /\ 1 * B <= (h + 1) * B
          BY <1>1, <2>2
        <5>. QED
          BY <1>1, <2>2, <5>1
      <4>. QED
        BY <1>1, <1>4, <2>1, <3>1, <4>1, <4>2
    <3>2. CASE ~ (j < B)
      <4>1. PICK g \in Nat, t \in 0 .. B - 1 :
                  /\ j = (g + 1) * B + t
                  /\ sublog_index_to_value(j) = (B + t) * 2 ^ g
        BY <1>1, <3>2, OctaveOfBucket
      <4>2. t \in Nat /\ 2 ^ g \in Nat /\ 2 ^ h \in Nat
        BY <1>1, <2>2, PowerOfTwo
      <4>3. /\ (g + 1) * B \in Nat /\ (h + 1) * B \in Nat
            /\ (B + t) * 2 ^ g \in Nat /\ (B + r) * 2 ^ h \in Nat
            /\ (B + t + 1) * 2 ^ g \in Nat /\ (B + r + 1) * 2 ^ h \in Nat
        BY <1>1, <2>2, <4>2
      <4>4. CASE g = h
        <5>1. t <= r <=> (B + t) * 2 ^ h <= v
          BY <2>1, <2>2, BucketsInOctave
        <5>. QED
          BY <2>1, <2>2, <4>1, <4>2, <4>3, <4>4, <5>1
      <4>5. CASE g < h
        <5>1. /\ (B + t + 1) * 2 ^ g <= (B + r) * 2 ^ h
              /\ (g + 1) * B + t < (h + 1) * B + r
          BY <2>2, <4>5, OctavesApart
        <5>2. (B + t) * 2 ^ g <= (B + t + 1) * 2 ^ g
          <6>. DEFINE w == 2 ^ g
          <6>. HIDE DEF w, B
          <6>1. w \in Nat
            BY <4>2 DEF w
          <6>2. (B + t) * w <= (B + t + 1) * w
            BY <1>1, <4>2, <6>1
          <6>. QED
            BY <6>2 DEF w
        <5>. QED
          BY <2>1, <2>2, <4>1, <4>2, <4>3, <5>1, <5>2
      <4>6. CASE h < g
        <5>1. /\ (B + r + 1) * 2 ^ h <= (B + t) * 2 ^ g
              /\ (h + 1) * B + r < (g + 1) * B + t
          BY <2>2, <4>6, OctavesApart
        <5>. QED
          BY <2>1, <2>2, <4>1, <4>2, <4>3, <5>1
      <4>. QED
        BY <2>2, <4>4, <4>5, <4>6
    <3>. QED
      BY <3>1, <3>2
  <2>. QED
    BY <2>3, <2>4
<1>. QED
  BY <1>1, <1>3, <1>4

\* The buckets of an octave begin at equal distances.
LEMMA BucketAt ==
  ASSUME NEW g \in Nat, NEW t \in 0 .. SubBuckets - 1
  PROVE  sublog_index_to_value((g + 1) * SubBuckets + t) = (SubBuckets + t) * 2 ^ g
<1>. DEFINE B == SubBuckets
            j == (g + 1) * B + t
<1>1. B \in Nat \ {0} /\ t \in Nat
  BY SubBucketsType
<1>2. j \in Nat /\ B <= j
  <2>. HIDE DEF B
  <2>1. (g + 1) * B = g * B + B /\ g * B \in Nat
    BY <1>1
  <2>. QED
    BY <1>1, <2>1
<1>3. PICK h \in Nat, r \in 0 .. B - 1 :
            /\ j = (h + 1) * B + r
            /\ sublog_index_to_value(j) = (B + r) * 2 ^ h
  BY <1>2, OctaveOfBucket
<1>4. r \in Nat
  BY <1>1, <1>3
<1>5. (g + 1) * B + t = (h + 1) * B + r /\ (g + 1) * B + t \in Int
  BY <1>2, <1>3
<1>6. g = h
  <2>1. ASSUME g < h PROVE FALSE
    <3>1. (g + 1) * B + t < (h + 1) * B + r
      BY <1>1, <1>3, <2>1, OctavesApart
    <3>. QED
      BY <1>5, <3>1
  <2>2. ASSUME h < g PROVE FALSE
    <3>1. (h + 1) * B + r < (g + 1) * B + t
      BY <1>1, <1>3, <2>2, OctavesApart
    <3>. QED
      BY <1>5, <3>1
  <2>. QED
    BY <2>1, <2>2
<1>7. t = r
  <2>. DEFINE w == (g + 1) * B
  <2>1. w \in Int /\ r \in Int /\ w + t = w + r
    BY <1>1, <1>3, <1>6
  <2>. HIDE DEF w
  <2>. QED
    BY <1>1, <2>1
<1>. QED
  BY <1>3, <1>6, <1>7

\* From one bucket to the next the value grows, and at most doubles.
LEMMA NextBucket ==
  ASSUME NEW j \in Nat \ {0}
  PROVE  /\ sublog_index_to_value(j) < sublog_index_to_value(j + 1)
         /\ sublog_index_to_value(j + 1) <= 2 * sublog_index_to_value(j)
<1>. DEFINE B == SubBuckets
<1>1. B \in Nat \ {0}
  BY SubBucketsType
<1>2. \A i \in 0 .. B - 1 : sublog_index_to_value(i) = i
  <2>. TAKE i \in 0 .. B - 1
  <2>1. i \div B = 0
    BY <1>1
  <2>. QED
    BY <2>1 DEF sublog_index_to_value
<1>3. sublog_index_to_value(B) = B
  <2>1. sublog_index_to_value((0 + 1) * B + 0) = (B + 0) * 2 ^ 0
    <3>1. 0 \in Nat /\ 0 \in 0 .. B - 1
      BY <1>1
    <3>. QED
      BY <3>1, BucketAt
  <2>2. 2 ^ 0 = 1
    OBVIOUS
  <2>3. (0 + 1) * B + 0 = B /\ (B + 0) * 1 = B
    BY <1>1
  <2>. QED
    BY <2>1, <2>2, <2>3
<1>4. CASE j < B
  <2>1. sublog_index_to_value(j) = j
    BY <1>1, <1>2, <1>4
  <2>2. sublog_index_to_value(j + 1) = j + 1
    <3>1. j + 1 \in 0 .. B - 1 \/ j + 1 = B
      BY <1>1, <1>4
    <3>. QED
      BY <1>2, <1>3, <3>1
  <2>. QED
    BY <2>1, <2>2
<1>5. CASE ~ (j < B)
  <2>1. PICK g \in Nat, t \in 0 .. B - 1 :
              /\ j = (g + 1) * B + t
              /\ sublog_index_to_value(j) = (B + t) * 2 ^ g
    BY <1>1, <1>5, OctaveOfBucket
  <2>. DEFINE w == 2 ^ g
  <2>2. w \in Nat \ {0} /\ 2 ^ (g + 1) = 2 * w /\ t \in Nat
    BY <1>1, <2>1, PowerOfTwo
  <2>3. sublog_index_to_value(j + 1) = (B + t + 1) * w
    <3>1. CASE t < B - 1
      <4>1. t + 1 \in 0 .. B - 1
        BY <1>1, <3>1
      <4>2. sublog_index_to_value((g + 1) * B + (t + 1)) = (B + (t + 1)) * w
        BY <4>1, BucketAt
      <4>3. (g + 1) * B + (t + 1) = j + 1 /\ B + (t + 1) = B + t + 1
        BY <1>1, <2>1, <2>2
      <4>. QED
        BY <4>2, <4>3
    <3>2. CASE t = B - 1
      <4>1. sublog_index_to_value((g + 1 + 1) * B + 0) = (B + 0) * 2 ^ (g + 1)
        BY <1>1, BucketAt
      <4>. HIDE DEF w, B
      <4>2. (g + 1 + 1) * B + 0 = (g + 1) * B + t + 1
        BY <1>1, <3>2
      <4>3. (B + 0) * (2 * w) = (B + t + 1) * w
        <5>1. B + t + 1 = 2 * B
          BY <1>1, <3>2
        <5>. QED
          BY <1>1, <2>2, <5>1
      <4>. QED
        BY <2>1, <2>2, <4>1, <4>2, <4>3
    <3>. QED
      BY <1>1, <3>1, <3>2
  <2>. HIDE DEF w, B
  <2>4. (B + t + 1) * w = (B + t) * w + w /\ (B + t) * w \in Nat
    BY <1>1, <2>2
  <2>5. 1 * w <= (B + t) * w
    BY <1>1, <2>2
  <2>6. sublog_index_to_value(j) = (B + t) * w
    BY <2>1 DEF w
  <2>7. PICK x \in Nat : x = (B + t) * w
    BY <2>4
  <2>. QED
    BY <2>2, <2>3, <2>4, <2>5, <2>6, <2>7
<1>. QED
  BY <1>4, <1>5
-----------------------------------------------------------------------------
(***************************************************************************)
(* Windows.                                                                *)
(***************************************************************************)
\* The number of windows of ws accesses in d accesses.
WindowsIn(d, ws) == IF d >= ws THEN d - ws + 1 ELSE 0

\* W has the windows that begin after a, not after b, and end by p.
WindowsFrom(W, a, b, p, ws) ==
  /\ a \in Nat /\ b \in Nat /\ a <= b /\ p \in Int /\ ws \in Nat \ {0}
  /\ W = {i \in a + 1 .. b : i + ws - 1 <= p}

\* There are as many as begin after a less those that begin after b.
LEMMA WindowCount ==
  ASSUME NEW W, NEW a, NEW b, NEW p, NEW ws, WindowsFrom(W, a, b, p, ws)
  PROVE  IsFiniteSet(W) /\ Cardinality(W) = WindowsIn(p - a, ws) - WindowsIn(p - b, ws)
<1>. DEFINE m == IF b <= p - ws + 1 THEN b ELSE p - ws + 1
<1>0. a \in Nat /\ b \in Nat /\ a <= b /\ p \in Int /\ ws \in Nat \ {0}
  BY DEF WindowsFrom
<1>1. m \in Int /\ a + 1 \in Int
  BY <1>0
<1>2. W = a + 1 .. m
  BY DEF WindowsFrom
<1>3. /\ IsFiniteSet(a + 1 .. m)
      /\ Cardinality(a + 1 .. m) = IF a + 1 > m THEN 0 ELSE m - (a + 1) + 1
  <2>. HIDE DEF m
  <2>. QED
    BY <1>1, FS_Interval
<1>4. (IF a + 1 > m THEN 0 ELSE m - (a + 1) + 1) = WindowsIn(p - a, ws) - WindowsIn(p - b, ws)
  BY <1>0 DEF WindowsIn
<1>. HIDE DEF m
<1>. QED
  BY <1>2, <1>3, <1>4
=============================================================================
