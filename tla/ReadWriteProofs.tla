--------------------------- MODULE ReadWriteProofs ---------------------------
(***************************************************************************)
(* ReadWriteRecorder, for every number of threads and lines and any bound  *)
(* on the trace: its types, and that the three printed tables are the      *)
(* footprints of all windows, of those that only read, and of those with a *)
(* write.                                                                  *)
(***************************************************************************)
EXTENDS ReadWriteRecorder, RecorderLemmas

-----------------------------------------------------------------------------
(***************************************************************************)
(* The walk over a list.                                                   *)
(***************************************************************************)
\* The constants have their types.
LEMMA Constants ==
  /\ NumThreads \in Nat \ {0} /\ NumLines \in Nat \ {0} /\ MaxTrace \in Nat
  /\ IsFiniteSet(Threads) /\ Cardinality(Threads) = NumThreads
  /\ IsFiniteSet(Lines) /\ IsFiniteSet(Levels)
  /\ 0 \in Levels /\ 0 \in Lines /\ \A k \in Levels : k \in Nat
<1>1. NumThreads \in Nat \ {0} /\ NumLines \in Nat \ {0} /\ MaxTrace \in Nat
  BY ThreadIdAssumption, ReadWriteAssumption
<1>2. /\ IsFiniteSet(0 .. NumThreads - 1) /\ Cardinality(0 .. NumThreads - 1) = NumThreads
      /\ IsFiniteSet(0 .. NumLines - 1)
  <2>1. 0 \in Int /\ NumThreads - 1 \in Int /\ NumLines - 1 \in Int
    BY <1>1
  <2>. QED
    BY <1>1, <2>1, FS_Interval
<1>. QED
  BY <1>1, <1>2 DEF Threads, Lines, Levels

\* The chain of a list follows its links.
LEMMA ChainIs ==
  ASSUME NEW list \in StampLists
  PROVE  /\ Chain(list) \in [Levels -> Threads \cup {NIL}]
         /\ Chain(list)[0] = list.head
         /\ \A i \in Levels \ {0} :
              /\ i - 1 \in Levels
              /\ Chain(list)[i - 1] = NIL => Chain(list)[i] = NIL
              /\ Chain(list)[i - 1] # NIL => Chain(list)[i] = list.next[Chain(list)[i - 1]]
<1>. DEFINE T(h) == [i \in Levels |-> IF i = 0 THEN list.head
                                      ELSE IF h[i - 1] = NIL THEN NIL ELSE list.next[h[i - 1]]]
            F    == [p \in Levels \X (Threads \cup {NIL}) |->
                       IF p[2] = NIL THEN NIL ELSE list.next[p[2]]]
            S    == Threads \cup {NIL}
<1>1. Chain(list) = CHOOSE h : h = T(h)
  BY DEF Chain
<1>2. PICK n \in Nat : n = NumThreads - 1 /\ Levels = 0 .. n
  BY ThreadIdAssumption DEF Levels
<1>3. \A i \in 1 .. n, y \in S : F[<<i, y>>] = IF y = NIL THEN NIL ELSE list.next[y]
  BY <1>2
<1>4. IsLoop(n, S, list.head, F)
  <2>1. list.head \in S /\ \A y \in S : y # NIL => list.next[y] \in S
    BY DEF StampLists
  <2>2. NIL \in S
    OBVIOUS
  <2>. HIDE DEF S, F
  <2>. QED
    BY <1>3, <2>1, <2>2 DEF IsLoop
<1>5. PICK h : Runs(n, S, list.head, F, h)
  BY <1>4, TurnsExist
<1>6. h = T(h)
  <2>1. h \in [Levels -> S] /\ h[0] = list.head
    BY <1>2, <1>5 DEF Runs
  <2>2. \A i \in Levels : i # 0 => h[i] = IF h[i - 1] = NIL THEN NIL ELSE list.next[h[i - 1]]
    <3>. SUFFICES ASSUME NEW i \in Levels, i # 0
                  PROVE  h[i] = IF h[i - 1] = NIL THEN NIL ELSE list.next[h[i - 1]]
      OBVIOUS
    <3>1. i \in 1 .. n /\ i - 1 \in Levels
      BY <1>2
    <3>2. h[i] = F[<<i, h[i - 1]>>] /\ h[i - 1] \in S
      BY <1>5, <2>1, <3>1 DEF Runs
    <3>. QED
      BY <1>3, <3>1, <3>2
  <2>. QED
    BY <2>1, <2>2
<1>. DEFINE c == Chain(list)
<1>7. c = T(c)
  <2>. HIDE DEF T
  <2>. QED
    BY <1>1, <1>6
<1>8. \A i \in Levels : c[i] = IF i = 0 THEN list.head
                               ELSE IF c[i - 1] = NIL THEN NIL ELSE list.next[c[i - 1]]
  BY <1>7, Zenon
<1>9. 0 \in Levels /\ \A i \in Levels : i # 0 => i \in 1 .. n /\ i - 1 \in Levels
  BY <1>2
<1>10. c \in [Levels -> S]
  <2>. DEFINE Good == {i \in 0 .. n : c[i] \in S}
  <2>1. 0 \in Good
    BY <1>8, <1>9 DEF StampLists
  <2>2. \A i \in 1 .. n : i - 1 \in Good => i \in Good
    BY <1>2, <1>8 DEF StampLists
  <2>3. \A i \in 0 .. n : i \in Good
    <3>. HIDE DEF Good
    <3>. QED
      BY <2>1, <2>2, AllTurns
  <2>4. \A i \in Levels : c[i] \in S
    BY <1>2, <2>3
  <2>5. c = [i \in Levels |-> c[i]]
    BY <1>7, Zenon
  <2>. HIDE DEF c, S
  <2>. QED
    BY <2>4, <2>5
<1>. QED
  BY <1>8, <1>9, <1>10, Zenon

\* It has the threads of the list by their last access: with the (k+1)-th
\* latest at k.
LEMMA ChainSorted ==
  ASSUME NEW list \in StampLists, MostRecentFirst(list), NEW k \in Levels,
         NEW n, n = Cardinality(LaterThan(list, 0))
  PROVE  /\ n \in Nat /\ k \in Nat
         /\ k < n => /\ Chain(list)[k] \in Threads /\ list.latest[Chain(list)[k]] > 0
                     /\ Cardinality(Passed(list, Chain(list)[k])) = k
                     /\ Recent(list, k) = list.latest[Chain(list)[k]]
         /\ ~ (k < n) => Chain(list)[k] = NIL
<1>. DEFINE c == Chain(list)
            Here(i) == IF c[i] = NIL THEN n <= i
                       ELSE /\ c[i] \in Threads /\ list.latest[c[i]] > 0
                            /\ Cardinality(Passed(list, c[i])) = i
<1>0. /\ c \in [Levels -> Threads \cup {NIL}] /\ c[0] = list.head
      /\ \A i \in Levels \ {0} : /\ i - 1 \in Levels
                                 /\ c[i - 1] = NIL => c[i] = NIL
                                 /\ c[i - 1] # NIL => c[i] = list.next[c[i - 1]]
  BY ChainIs
<1>1. PICK m \in Nat : m = NumThreads - 1 /\ Levels = 0 .. m
  BY ThreadIdAssumption DEF Levels
<1>2. n \in Nat /\ k \in Nat /\ Passed(list, NIL) = LaterThan(list, 0)
  BY LaterCounts, <1>1, PassedIsLater
<1>. HIDE DEF c
<1>. DEFINE Good == {i \in 0 .. m : Here(i)}
<1>3. 0 \in Good
  <2>1. Cardinality(Passed(list, list.head)) = 0
    BY PassedAtHead, FS_EmptySet
  <2>2. CASE c[0] = NIL
    BY <1>0, <1>2, <2>1, <2>2
  <2>3. CASE c[0] # NIL
    <3>1. c[0] \in Threads /\ list.latest[c[0]] > 0
      BY <1>0, <1>1, <2>3 DEF MostRecentFirst, StampLists
    <3>. QED
      BY <1>0, <2>1, <2>3, <3>1
  <2>. QED
    BY <2>2, <2>3
<1>4. ASSUME NEW i \in 1 .. m, i - 1 \in Good PROVE i \in Good
  <2>1. i \in Levels \ {0} /\ Here(i - 1) /\ i - 1 \in Levels
    BY <1>1, <1>4
  <2>2. CASE c[i - 1] = NIL
    BY <1>0, <1>2, <2>1, <2>2
  <2>3. CASE c[i - 1] # NIL
    <3>1. PICK u \in Threads : /\ u = c[i - 1] /\ list.latest[u] > 0
                               /\ Cardinality(Passed(list, u)) = i - 1
                               /\ c[i] = list.next[u]
      BY <1>0, <2>1, <2>3
    <3>2. Cardinality(Passed(list, list.next[u])) = i
      BY <3>1, PassedCount
    <3>3. CASE c[i] = NIL
      BY <1>2, <3>1, <3>2, <3>3
    <3>4. CASE c[i] # NIL
      <4>1. c[i] \in Threads /\ list.latest[c[i]] > 0
        BY <3>1, <3>4 DEF MostRecentFirst, StampLists, Older
      <4>. QED
        BY <3>1, <3>2, <3>4, <4>1
    <3>. QED
      BY <3>3, <3>4
  <2>. QED
    BY <2>2, <2>3
<1>5. Here(k)
  <2>1. \A i \in 0 .. m : i \in Good
    <3>. HIDE DEF Good
    <3>. QED
      BY <1>3, <1>4, AllTurns
  <2>. QED
    BY <1>1, <2>1
<1>6. CASE c[k] = NIL
  BY <1>2, <1>5, <1>6 DEF c
<1>7. CASE c[k] # NIL
  <2>1. c[k] \in Threads /\ list.latest[c[k]] > 0 /\ Cardinality(Passed(list, c[k])) = k
    BY <1>5, <1>7
  <2>2. Recent(list, k) = list.latest[c[k]]
    BY <1>7, <2>1, RecentAtWalk
  <2>3. k < n
    <3>1. IsRecent(list, k, Recent(list, k))
      <4>1. PICK q \in Nat : \A u \in Threads : list.latest[u] <= q
        <5>1. c[k] \in Threads /\ list.latest \in [Threads -> Nat]
          BY <2>1 DEF StampLists
        <5>2. \A u \in Threads : list.latest[u] <= list.latest[list.head]
          BY <2>1, <5>1, <1>0 DEF MostRecentFirst
        <5>3. list.head # NIL /\ list.head \in Threads
          BY <2>1, <5>1 DEF MostRecentFirst, StampLists
        <5>. QED
          BY <5>1, <5>2, <5>3
      <4>. QED
        BY <1>2, <4>1, RecentExists
    <3>. QED
      BY <1>2, <2>1, <2>2, <3>1, RecentPositive
  <2>. QED
    BY <1>2, <1>7, <2>1, <2>2, <2>3 DEF c
<1>. QED
  BY <1>6, <1>7

\* A thread's level in a list: so many accessed the line after it.
LevelOf(list, t) == Cardinality(LaterThan(list, list.latest[t]))

\* The walk of thread t passes the threads that come before it in the list,
\* and stops at t if it is in the list: then it is at its level.
LEMMA WalkPassed ==
  ASSUME NEW list \in StampLists, MostRecentFirst(list), NEW t \in Threads,
         NEW n, n = Cardinality(LaterThan(list, 0)), NEW c, c = LevelOf(list, t)
  PROVE  /\ n \in Nat /\ c \in Levels /\ c <= n
         /\ InList(list) = {i \in Levels : i < n}
         /\ PassedBy(list, t) = {i \in Levels : i < c}
         /\ Visited(list, t) = {i \in Levels : i < c \/ (i = c /\ c < n)}
         /\ Found(list, t) <=> c < n
         /\ c < n => Chain(list)[c] = t
         /\ \A i \in Levels : i < n /\ Chain(list)[i] = t => i = c
<1>0. /\ \A u \in Threads : list.latest[u] \in Nat
      /\ Levels = {i \in Nat : i < NumThreads}
  BY ThreadIdAssumption DEF StampLists, Levels
<1>1. /\ n \in Nat /\ c \in Nat /\ c <= n
      /\ t \notin LaterThan(list, list.latest[t])
  <2>1. list.latest[t] \in Int /\ 0 <= list.latest[t] /\ 0 \in Int
    BY <1>0
  <2>2. /\ Cardinality(LaterThan(list, 0)) \in Nat
        /\ Cardinality(LaterThan(list, list.latest[t])) \in Nat
        /\ Cardinality(LaterThan(list, list.latest[t])) <= Cardinality(LaterThan(list, 0))
    BY <2>1, LaterCounts
  <2>3. t \notin LaterThan(list, list.latest[t])
    BY <2>1 DEF LaterThan
  <2>. QED
    BY <2>2, <2>3 DEF LevelOf
<1>2. c < NumThreads /\ n <= NumThreads /\ c \in Levels
  <2>1. LaterThan(list, 0) \subseteq Threads /\ LaterThan(list, list.latest[t]) \subseteq Threads
    BY DEF LaterThan
  <2>2. n <= NumThreads
    BY <2>1, Constants, FS_Subset
  <2>3. LaterThan(list, list.latest[t]) # Threads
    BY <1>1
  <2>4. c < NumThreads
    <3>1. c <= NumThreads /\ c # NumThreads
      BY <2>1, <2>3, Constants, FS_Subset DEF LevelOf
    <3>. QED
      BY <1>1, <3>1, Constants
  <2>. QED
    BY <1>0, <1>1, <2>2, <2>4
<1>3. list.latest[t] > 0 => c < n
  <2>. SUFFICES ASSUME list.latest[t] > 0 PROVE c < n
    OBVIOUS
  <2>1. t \in LaterThan(list, 0) /\ LaterThan(list, list.latest[t]) \subseteq LaterThan(list, 0)
    BY <1>0 DEF LaterThan
  <2>2. LaterThan(list, list.latest[t]) # LaterThan(list, 0) /\ IsFiniteSet(LaterThan(list, 0))
    <3>1. 0 \in Int /\ 0 <= 0
      OBVIOUS
    <3>. QED
      BY <1>1, <2>1, <3>1, LaterCounts
  <2>3. c # n
    BY <2>1, <2>2, FS_Subset DEF LevelOf
  <2>. QED
    BY <1>1, <2>3
<1>4. ~ (list.latest[t] > 0) => c = n
  BY <1>0 DEF LevelOf
<1>5. \A i \in Levels : /\ i < n => /\ Chain(list)[i] \in Threads
                                    /\ list.latest[Chain(list)[i]] > 0
                                    /\ Cardinality(Passed(list, Chain(list)[i])) = i
                                    /\ Recent(list, i) = list.latest[Chain(list)[i]]
                        /\ ~ (i < n) => Chain(list)[i] = NIL
  BY ChainSorted
<1>6. InList(list) = {i \in Levels : i < n}
  BY <1>5, NilIsNoThread DEF InList
<1>7. \A i \in Levels : i < n /\ Chain(list)[i] = t => i = c
  <2>1. t # NIL => Passed(list, t) = LaterThan(list, list.latest[t])
    BY PassedIsLater
  <2>. QED
    BY <1>5, <2>1, NilIsNoThread DEF LevelOf
<1>8. c < n => Chain(list)[c] = t
  <2>. SUFFICES ASSUME c < n PROVE Chain(list)[c] = t
    OBVIOUS
  <2>1. t # NIL /\ Passed(list, t) = LaterThan(list, list.latest[t])
    BY PassedIsLater, NilIsNoThread
  <2>2. list.latest[t] > 0
    BY <1>1, <1>4
  <2>3. Recent(list, c) = list.latest[t]
    <3>1. t \in Threads \cup {NIL}
      OBVIOUS
    <3>. QED
      BY <2>1, <2>2, <3>1, RecentAtWalk DEF LevelOf
  <2>4. PICK u \in Threads : u = Chain(list)[c] /\ list.latest[u] > 0 /\ list.latest[u] = list.latest[t]
    BY <1>2, <1>5, <2>3
  <2>. QED
    BY <2>4 DEF MostRecentFirst
<1>9. Visited(list, t) = {i \in Levels : i < c \/ (i = c /\ c < n)}
  <2>1. ASSUME NEW i \in Visited(list, t) PROVE i \in Levels /\ (i < c \/ (i = c /\ c < n))
    <3>1. i \in Levels /\ i < n /\ \A j \in 0 .. i - 1 : Chain(list)[j] # t
      BY <1>6 DEF Visited
    <3>2. ~ (c < i)
      <4>. SUFFICES ASSUME c < i PROVE FALSE
        OBVIOUS
      <4>1. c < n /\ c \in 0 .. i - 1
        BY <1>0, <1>1, <3>1
      <4>. QED
        BY <1>8, <3>1, <4>1
    <3>. QED
      BY <1>0, <1>1, <3>1, <3>2
  <2>2. ASSUME NEW i \in Levels, i < c \/ (i = c /\ c < n) PROVE i \in Visited(list, t)
    <3>0. i \in Nat /\ c \in Nat /\ n \in Nat /\ c <= n
      BY <1>0, <1>1
    <3>1. i < n /\ i <= c
      BY <2>2, <3>0
    <3>2. ASSUME NEW j \in 0 .. i - 1 PROVE Chain(list)[j] # t
      <4>0. j \in Nat /\ j < i
        BY <3>0
      <4>1. j \in Levels /\ j < n /\ j # c
        BY <1>0, <2>2, <3>0, <3>1, <4>0, Constants
      <4>. QED
        BY <1>7, <4>1
    <3>. QED
      BY <1>6, <2>2, <3>1, <3>2 DEF Visited
  <2>. QED
    BY <2>1, <2>2
<1>10. PassedBy(list, t) = {i \in Levels : i < c}
  <2>1. \A i \in Levels : i < c => i < n /\ i # c
    BY <1>0, <1>1
  <2>2. c < n => Chain(list)[c] = t
    BY <1>8
  <2>. QED
    BY <1>7, <1>9, <2>1, <2>2 DEF PassedBy
<1>11. Found(list, t) <=> c < n
  BY <1>1, <1>3, <1>4 DEF Found
<1>. QED
  BY <1>1, <1>2, <1>6, <1>7, <1>8, <1>9, <1>10, <1>11

\* The thread before t is the one it links around: the list stays sorted, and
\* each level up to that of t takes the stamp of the level below.
LEMMA MoveKeeps ==
  ASSUME NEW list \in StampLists, MostRecentFirst(list), NEW t \in Threads,
         NEW pos \in Nat, \A u \in Threads : list.latest[u] < pos,
         NEW new, new = MovedToFront(list, t, pos, Prev(list, t)),
         NEW c, c = LevelOf(list, t)
  PROVE  /\ new \in StampLists /\ MostRecentFirst(new)
         /\ new.latest = [list.latest EXCEPT ![t] = pos]
         /\ \A k \in Nat : Recent(new, k)
              = IF k = 0 THEN pos ELSE Recent(list, IF k <= c THEN k - 1 ELSE k)
<1>. DEFINE pr == Prev(list, t)
            n  == Cardinality(LaterThan(list, 0))
<1>1. /\ n \in Nat /\ c \in Levels /\ c <= n
      /\ PassedBy(list, t) = {i \in Levels : i < c}
      /\ Found(list, t) <=> c < n
      /\ c < n => Chain(list)[c] = t
  BY WalkPassed
<1>2. c \in Nat /\ \A i \in Nat : i < c => i \in Levels
  BY <1>1, Constants DEF Levels
<1>3. /\ Chain(list)[0] = list.head
      /\ \A i \in Levels \ {0} :
           Chain(list)[i - 1] # NIL => Chain(list)[i] = list.next[Chain(list)[i - 1]]
  BY ChainIs
<1>4. \A i \in Levels : /\ i < n => /\ Chain(list)[i] \in Threads
                                    /\ list.latest[Chain(list)[i]] > 0
                                    /\ Recent(list, i) = list.latest[Chain(list)[i]]
                        /\ ~ (i < n) => Chain(list)[i] = NIL
  BY ChainSorted
<1>. HIDE DEF n
<1>5. /\ c = 0 => pr = NIL
      /\ c > 0 => pr = Chain(list)[c - 1] /\ c - 1 \in Levels /\ c - 1 < n
  <2>1. CASE c = 0
    <3>0. \A i \in Levels : i \in Nat /\ ~ (i < 0)
      BY Constants
    <3>1. PassedBy(list, t) = {}
      BY <1>1, <2>1, <3>0
    <3>. QED
      BY <2>1, <3>1 DEF Prev
  <2>2. CASE c > 0
    <3>0. c - 1 \in Nat /\ c - 1 < c /\ \A i \in Nat : i < c => i <= c - 1
      BY <1>2, <2>2
    <3>1. c - 1 \in PassedBy(list, t) /\ \A i \in PassedBy(list, t) : i <= c - 1
      <4>1. c - 1 \in Levels
        BY <1>2, <3>0
      <4>. QED
        BY <1>1, <3>0, <4>1, Constants
    <3>2. PassedBy(list, t) \subseteq Int
      BY <1>1, Constants
    <3>3. Max(PassedBy(list, t)) = c - 1
      <4>. DEFINE S == PassedBy(list, t)
      <4>1. \A x \in S : (\A y \in S : x >= y) => x = c - 1
        BY <1>2, <3>1, <3>2
      <4>2. c - 1 \in S /\ \A y \in S : c - 1 >= y
        BY <1>2, <3>1, <3>2
      <4>. HIDE DEF S
      <4>3. Max(S) = c - 1
        BY <4>1, <4>2 DEF Max
      <4>. QED
        BY <4>3 DEF S
    <3>4. c - 1 < n
      BY <1>1, <1>2
    <3>. QED
      BY <1>1, <2>2, <3>1, <3>3, <3>4 DEF Prev
  <2>. QED
    BY <1>2, <2>1, <2>2
<1>6. pr \in Threads \cup {NIL}
  BY <1>2, <1>4, <1>5
<1>7. PICK i \in {t, NIL} : i = IF c < n THEN t ELSE NIL
  OBVIOUS
<1>8. Chain(list)[c] = i
  BY <1>1, <1>4, <1>7
<1>9. WalkAt(list, t, pr, i)
  <2>1. CASE c = 0
    BY <1>3, <1>5, <1>8, <2>1 DEF WalkAt
  <2>2. CASE c > 0
    <3>1. PICK u \in Threads : /\ u = pr /\ u = Chain(list)[c - 1] /\ list.latest[u] > 0
                               /\ Recent(list, c - 1) = list.latest[u]
      BY <1>4, <1>5, <2>2
    <3>2. c \in Levels \ {0} /\ u # NIL /\ list.next[u] = i
      BY <1>1, <1>3, <1>8, <2>2, <3>1, NilIsNoThread
    <3>3. c - 1 \in Nat
      BY <1>2, <2>2
    <3>4. IsRecent(list, c - 1, list.latest[u])
      <4>1. \A v \in Threads : list.latest[v] <= pos
        BY DEF StampLists
      <4>. QED
        BY <3>1, <3>3, <4>1, RecentExists
    <3>5. /\ list.latest[u] \in Int /\ list.latest[t] \in Int
          /\ Cardinality(LaterThan(list, list.latest[u])) \in Nat
          /\ Cardinality(LaterThan(list, list.latest[u])) <= c - 1
      <4>1. list.latest[u] \in Int /\ list.latest[t] \in Int
        BY DEF StampLists
      <4>. QED
        BY <3>4, <4>1, LaterCounts DEF IsRecent
    <3>6. ~ (list.latest[u] <= list.latest[t])
      <4>. SUFFICES ASSUME list.latest[u] <= list.latest[t] PROVE FALSE
        OBVIOUS
      <4>1. c <= Cardinality(LaterThan(list, list.latest[u]))
        BY <3>5, LaterCounts DEF LevelOf
      <4>. QED
        BY <1>2, <3>5, <4>1
    <3>7. list.latest[t] < list.latest[u] /\ u # t
      BY <3>5, <3>6
    <3>. QED
      BY <3>1, <3>2, <3>7 DEF WalkAt
  <2>. QED
    BY <1>2, <2>1, <2>2
<1>. HIDE DEF pr
<1>10. new = MovedToFront(list, t, pos, pr)
  BY DEF pr
<1>11. MostRecentFirst(MovedToFront(list, t, pos, pr))
  BY <1>6, <1>9, MoveSorted
<1>12. MovedToFront(list, t, pos, pr) \in StampLists
  BY <1>6, MoveType
<1>13. new.latest = [list.latest EXCEPT ![t] = pos]
  BY <1>10 DEF MovedToFront
<1>14. \A k \in Nat : Recent(MovedToFront(list, t, pos, pr), k)
         = IF k = 0 THEN pos ELSE Recent(list, IF k <= c THEN k - 1 ELSE k)
  BY <1>2, <1>6, RecentMoved DEF LevelOf
<1>. QED
  BY <1>10, <1>11, <1>12, <1>13, <1>14

-----------------------------------------------------------------------------
(***************************************************************************)
(* Counting intervals.                                                     *)
(***************************************************************************)
Tables == [Levels -> [Buckets -> Int]]

AreIntervals(ints) ==
  /\ IsFiniteSet(ints)
  /\ \A x \in ints : x.n \in Int /\ x.d \in Nat

\* Their lengths fit in a word.
InWord(ints) == \A x \in ints : x.d < 2 ^ WordBits

Signs(ints)   == [x \in ints |-> x.n]
Lengths(ints) == [x \in ints |-> x.n * x.d]

SignSum(S)   == MapThenSumSet(LAMBDA x : x.n, S)
LengthSum(S) == MapThenSumSet(LAMBDA x : x.n * x.d, S)

\* MapThenSumSet adds up the signs ...
LEMMA SignSumIs ==
  ASSUME NEW S, IsFiniteSet(S), NEW F, \A x \in S : F[x] = x.n
  PROVE  SignSum(S) = SumOf(F, S)
<1>. DEFINE V(x) == x.n
            P(h) == h = [u \in SUBSET S |->
                           IF u = {} THEN 0 ELSE V(Picked(u)) + h[u \ {Picked(u)}]]
<1>1. SignSum(S) = (CHOOSE h : P(h))[S]
  BY Zenon DEF SignSum, MapThenSumSet, MapThenFoldSet, Picked
<1>2. \A x \in S : F[x] = V(x)
  OBVIOUS
<1>. HIDE DEF V
<1>3. \A h : IsSum(F, S, h) <=> P(h)
  <2>1. \A u \in SUBSET S : u # {} => F[Picked(u)] = V(Picked(u))
    BY <1>2, PickedIn
  <2>. QED
    BY <2>1 DEF IsSum
<1>4. P(CHOOSE h : P(h))
  <2>1. \E h : P(h)
    BY <1>3, SumExists
  <2>. HIDE DEF P
  <2>. QED
    BY <2>1
<1>. HIDE DEF P
<1>. QED
  BY <1>1, <1>3, <1>4, SumIs

\* ... and the lengths of intervals.
LEMMA LengthSumIs ==
  ASSUME NEW S, IsFiniteSet(S), NEW F, \A x \in S : F[x] = x.n * x.d
  PROVE  LengthSum(S) = SumOf(F, S)
<1>. DEFINE V(x) == x.n * x.d
            P(h) == h = [u \in SUBSET S |->
                           IF u = {} THEN 0 ELSE V(Picked(u)) + h[u \ {Picked(u)}]]
<1>1. LengthSum(S) = (CHOOSE h : P(h))[S]
  BY Zenon DEF LengthSum, MapThenSumSet, MapThenFoldSet, Picked
<1>2. \A x \in S : F[x] = V(x)
  OBVIOUS
<1>. HIDE DEF V
<1>3. \A h : IsSum(F, S, h) <=> P(h)
  <2>1. \A u \in SUBSET S : u # {} => F[Picked(u)] = V(Picked(u))
    BY <1>2, PickedIn
  <2>. QED
    BY <2>1 DEF IsSum
<1>4. P(CHOOSE h : P(h))
  <2>1. \E h : P(h)
    BY <1>3, SumExists
  <2>. HIDE DEF P
  <2>. QED
    BY <2>1
<1>. HIDE DEF P
<1>. QED
  BY <1>1, <1>3, <1>4, SumIs

\* The intervals of a level in a bucket change its two counts.
LEMMA CountedIs ==
  ASSUME NEW count \in Tables, NEW ints, AreIntervals(ints), NEW k \in Levels, NEW b \in Buckets
  PROVE  /\ IsFiniteSet(In(ints, k, b))
         /\ Counted(count, ints)[k][b] = count[k][b] + SumOf(Signs(ints), In(ints, k, b))
         /\ Summed(count, ints)[k][b] = count[k][b] + SumOf(Lengths(ints), In(ints, k, b))
<1>1. In(ints, k, b) \subseteq ints /\ IsFiniteSet(In(ints, k, b))
  BY FS_Subset DEF In, AreIntervals
<1>2. /\ \A x \in In(ints, k, b) : Signs(ints)[x] = x.n
      /\ \A x \in In(ints, k, b) : Lengths(ints)[x] = x.n * x.d
  BY <1>1 DEF Signs, Lengths
<1>3. Counted(count, ints)[k][b] = count[k][b] + SignSum(In(ints, k, b))
  BY Zenon DEF Counted, SignSum
<1>4. Summed(count, ints)[k][b] = count[k][b] + LengthSum(In(ints, k, b))
  BY Zenon DEF Summed, LengthSum
<1>5. SignSum(In(ints, k, b)) = SumOf(Signs(ints), In(ints, k, b))
  BY <1>1, <1>2, SignSumIs
<1>6. LengthSum(In(ints, k, b)) = SumOf(Lengths(ints), In(ints, k, b))
  BY <1>1, <1>2, LengthSumIs
<1>. QED
  BY <1>1, <1>3, <1>4, <1>5, <1>6

\* Counting intervals keeps the types.
LEMMA CountedType ==
  ASSUME NEW count \in Tables, NEW ints, AreIntervals(ints)
  PROVE  Counted(count, ints) \in Tables /\ Summed(count, ints) \in Tables
<1>1. ASSUME NEW k \in Levels, NEW b \in Buckets
      PROVE  Counted(count, ints)[k][b] \in Int /\ Summed(count, ints)[k][b] \in Int
  <2>1. In(ints, k, b) \subseteq ints /\ IsFiniteSet(In(ints, k, b))
    BY CountedIs DEF In
  <2>2. \A x \in In(ints, k, b) : Signs(ints)[x] \in Int /\ Lengths(ints)[x] \in Int
    BY <2>1 DEF AreIntervals, Signs, Lengths
  <2>3. /\ SumOf(Signs(ints), In(ints, k, b)) \in Int
        /\ SumOf(Lengths(ints), In(ints, k, b)) \in Int
    BY <2>1, <2>2, SumType
  <2>4. count[k][b] \in Int
    BY DEF Tables
  <2>. QED
    BY <2>3, <2>4, CountedIs
<1>2. PICK c, d : c = Counted(count, ints) /\ d = Summed(count, ints)
  OBVIOUS
<1>3. /\ c = [k \in Levels |-> [b \in Buckets |-> c[k][b]]]
      /\ d = [k \in Levels |-> [b \in Buckets |-> d[k][b]]]
  BY <1>2, Zenon DEF Counted, Summed
<1>4. \A k \in Levels, b \in Buckets : c[k][b] \in Int /\ d[k][b] \in Int
  BY <1>1, <1>2
<1>5. c \in Tables /\ d \in Tables
  BY <1>3, <1>4 DEF Tables
<1>. QED
  BY <1>2, <1>5

BucketsFrom(j) == {b \in Buckets : b >= j}

\* What a bucket counts for windows of ws accesses, if its intervals are no
\* shorter than they; and a row.
RowIn(count, count_i, k, ws) == [b \in Buckets |-> count_i[k][b] - (ws - 1) * count[k][b]]

RowOf(count, count_i, k, j) ==
  SumOf(RowIn(count, count_i, k, sublog_index_to_value(j)), BucketsFrom(j))

AtLevel(ints, k) == {x \in ints : x.level = k}

\* The windows that intervals add to a row.
Worth(ints, ws) == [x \in ints |-> x.n * WindowsIn(x.d, ws)]

\* There are finitely many buckets, and a row is for windows of an access or
\* more.
LEMMA BucketTypes ==
  ASSUME NEW j \in Nat \ {0}
  PROVE  /\ IsFiniteSet(BucketsFrom(j)) /\ BucketsFrom(j) \subseteq Buckets
         /\ \A b \in Buckets : b \in Nat
         /\ sublog_index_to_value(j) \in Nat \ {0}
<1>1. MAX_WINDOW \in Nat
  <2>1. WordBits + 1 - SublogBits \in Nat
    BY SublogAssumption
  <2>. QED
    BY <2>1, SubBucketsType DEF MAX_WINDOW
<1>2. IsFiniteSet(Buckets)
  <2>1. 0 \in Int /\ MAX_WINDOW - 1 \in Int
    BY <1>1
  <2>. QED
    BY <2>1, FS_Interval DEF Buckets
<1>3. BucketsFrom(j) \subseteq Buckets
  BY DEF BucketsFrom
<1>4. sublog_index_to_value(j) \in Nat \ {0}
  <2>1. sublog_index_to_value(j) \in Nat /\ sublog_index_to_value(j) >= j
    BY BucketValue
  <2>. QED
    BY <2>1
<1>5. \A b \in Buckets : b \in Nat
  BY <1>1 DEF Buckets
<1>6. IsFiniteSet(BucketsFrom(j))
  BY <1>2, <1>3, FS_Subset
<1>. QED
  BY <1>3, <1>4, <1>5, <1>6

\* The sums of rows are numbers.
LEMMA RowType ==
  ASSUME NEW count \in Tables, NEW count_i \in Tables, NEW k \in Levels, NEW j \in Nat \ {0}
  PROVE  RowOf(count, count_i, k, j) \in Int
<1>1. PICK ws \in Nat : ws = sublog_index_to_value(j)
  BY BucketTypes
<1>2. PICK R : R = RowIn(count, count_i, k, ws)
  OBVIOUS
<1>3. \A b \in BucketsFrom(j) : R[b] \in Int
  <2>. TAKE b \in BucketsFrom(j)
  <2>1. PICK x \in Int, y \in Int : x = count[k][b] /\ y = count_i[k][b]
    BY BucketTypes DEF Tables
  <2>2. R[b] = y - (ws - 1) * x
    BY <1>2, <2>1, BucketTypes DEF RowIn
  <2>. QED
    BY <2>2
<1>4. SumOf(R, BucketsFrom(j)) \in Int
  BY <1>3, BucketTypes, SumType
<1>. QED
  BY <1>1, <1>2, <1>4 DEF RowOf

\* A row grows by the windows of the intervals at its level: those of the
\* buckets from j on are those that are long enough.
LEMMA RowCounted ==
  ASSUME NEW count \in Tables, NEW count_i \in Tables,
         NEW ints, AreIntervals(ints), InWord(ints),
         NEW k \in Levels, NEW j \in Nat \ {0}, NEW ws, ws = sublog_index_to_value(j)
  PROVE  /\ SumOf(Worth(ints, ws), AtLevel(ints, k)) \in Int
         /\ RowOf(Counted(count, ints), Summed(count_i, ints), k, j)
              = RowOf(count, count_i, k, j) + SumOf(Worth(ints, ws), AtLevel(ints, k))
<1>. DEFINE B    == BucketsFrom(j)
            A    == AtLevel(ints, k)
            T    == {x \in A : x.d >= ws}
<1>0. /\ IsFiniteSet(B) /\ B \subseteq Buckets /\ ws \in Nat \ {0}
      /\ IsFiniteSet(A) /\ A \subseteq ints /\ T \subseteq A /\ IsFiniteSet(T)
  <2>1. A \subseteq ints /\ T \subseteq A /\ IsFiniteSet(ints)
    BY DEF AtLevel, AreIntervals
  <2>. QED
    BY <2>1, BucketTypes, FS_Subset
<1>1. PICK E : E = [x \in ints |-> x.n * (x.d - (ws - 1))]
  OBVIOUS
<1>2. PICK P : P = [b \in B |-> In(ints, k, b)]
  OBVIOUS
<1>3. PICK G : G = [b \in B |-> SumOf(E, P[b])]
  OBVIOUS
<1>4. PICK a \in Int, m \in Int, one \in Int : a = ws - 1 /\ m = 0 - a /\ one = 1
  BY <1>0
<1>5. \A n \in Int, d \in Int : /\ n * (d - a) = one * (n * d) + m * n
                                /\ n * (d - a) \in Int /\ n * d \in Int
  BY <1>4
<1>6. \A x \in ints : /\ E[x] = one * Lengths(ints)[x] + m * Signs(ints)[x]
                      /\ E[x] \in Int /\ Lengths(ints)[x] \in Int /\ Signs(ints)[x] \in Int
  <2>. TAKE x \in ints
  <2>1. PICK n \in Int, d \in Int : n = x.n /\ d = x.d
    BY DEF AreIntervals
  <2>2. E[x] = n * (d - a) /\ Lengths(ints)[x] = n * d /\ Signs(ints)[x] = n
    BY <1>1, <1>4, <2>1 DEF Lengths, Signs
  <2>3. PICK p, q : p = n * d /\ q = n * (d - a)
    OBVIOUS
  <2>4. q = one * p + m * n /\ q \in Int /\ p \in Int
    BY <1>5, <2>3
  <2>. QED
    BY <2>2, <2>3, <2>4
<1>7. ASSUME NEW b \in B
      PROVE  /\ IsFiniteSet(P[b]) /\ P[b] \subseteq ints /\ P[b] = In(ints, k, b)
             /\ G[b] = SumOf(E, P[b]) /\ G[b] \in Int
             /\ G[b] = one * SumOf(Lengths(ints), P[b]) + m * SumOf(Signs(ints), P[b])
             /\ SumOf(Lengths(ints), P[b]) \in Int /\ SumOf(Signs(ints), P[b]) \in Int
  <2>1. P[b] = In(ints, k, b) /\ G[b] = SumOf(E, P[b]) /\ P[b] \subseteq ints
    BY <1>2, <1>3 DEF In
  <2>2. IsFiniteSet(P[b])
    BY <2>1, FS_Subset DEF AreIntervals
  <2>3. PICK X, L, S : X = P[b] /\ L = Lengths(ints) /\ S = Signs(ints)
    OBVIOUS
  <2>4. \A x \in X : /\ E[x] = one * L[x] + m * S[x]
                     /\ E[x] \in Int /\ L[x] \in Int /\ S[x] \in Int
    BY <1>6, <2>1, <2>3
  <2>5. SumOf(E, X) = one * SumOf(L, X) + m * SumOf(S, X)
    BY <2>2, <2>3, <2>4, SumLinear
  <2>6. SumOf(E, X) \in Int /\ SumOf(L, X) \in Int /\ SumOf(S, X) \in Int
    BY <2>2, <2>3, <2>4, SumType
  <2>. QED
    BY <2>1, <2>2, <2>3, <2>5, <2>6
<1>8. PICK R, Q : /\ R = RowIn(count, count_i, k, ws)
                  /\ Q = RowIn(Counted(count, ints), Summed(count_i, ints), k, ws)
  OBVIOUS
<1>9. \A b \in B : R[b] \in Int /\ G[b] \in Int /\ Q[b] = one * R[b] + one * G[b]
  <2>. TAKE b \in B
  <2>1. PICK x \in Int, y \in Int : x = count[k][b] /\ y = count_i[k][b]
    BY <1>0 DEF Tables
  <2>2. PICK u \in Int, v \in Int : u = SumOf(Signs(ints), P[b]) /\ v = SumOf(Lengths(ints), P[b])
    BY <1>7
  <2>3. /\ Counted(count, ints)[k][b] = x + u
        /\ Summed(count_i, ints)[k][b] = y + v
    <3>1. b \in Buckets /\ P[b] = In(ints, k, b)
      BY <1>0, <1>7
    <3>. QED
      BY <2>1, <2>2, <3>1, CountedIs
  <2>4. R[b] = y - a * x /\ Q[b] = (y + v) - a * (x + u)
    <3>1. b \in Buckets
      BY <1>0
    <3>. QED
      BY <1>4, <1>8, <2>1, <2>3, <3>1 DEF RowIn
  <2>5. G[b] = one * v + m * u /\ G[b] \in Int
    BY <1>7, <2>2
  <2>6. /\ y - a * x \in Int
        /\ (y + v) - a * (x + u) = one * (y - a * x) + one * (one * v + m * u)
    BY <1>4
  <2>. QED
    BY <2>4, <2>5, <2>6
<1>10. SumOf(Q, B) = one * SumOf(R, B) + one * SumOf(G, B)
  <2>. HIDE DEF B
  <2>. QED
    BY <1>0, <1>9, SumLinear, SMTT(30)
<1>11. AllParts(B, P) = T
  <2>1. ASSUME NEW x \in ints PROVE sublog_value_to_index(x.d) \in B <=> x.d >= ws
    <3>1. x.d \in Nat /\ x.d < 2 ^ WordBits
      BY DEF AreIntervals, InWord
    <3>. QED
      BY <3>1, BucketBoundaries DEF BucketsFrom, Buckets
  <2>2. \A b \in B : P[b] = {x \in ints : x.level = k /\ sublog_value_to_index(x.d) = b}
    BY <1>7 DEF In
  <2>3. AllParts(B, P) \subseteq T
    BY <2>1, <2>2 DEF AllParts, AtLevel
  <2>4. T \subseteq AllParts(B, P)
    <3>. SUFFICES ASSUME NEW x \in T PROVE x \in AllParts(B, P)
      OBVIOUS
    <3>1. x \in ints /\ x.level = k /\ sublog_value_to_index(x.d) \in B
      BY <2>1 DEF AtLevel
    <3>2. x \in P[sublog_value_to_index(x.d)]
      BY <2>2, <3>1
    <3>. QED
      BY <3>1, <3>2 DEF AllParts
  <2>. QED
    BY <2>3, <2>4
<1>12. SumOf(G, B) = SumOf(E, T)
  <2>1. \A b \in B : P[b] \subseteq ints
    BY <1>7
  <2>2. \A b \in B : IsFiniteSet(P[b]) /\ G[b] = SumOf(E, P[b]) /\ \A x \in P[b] : E[x] \in Int
    BY <1>6, <1>7
  <2>3. \A b, e \in B : b # e => P[b] \cap P[e] = {}
    BY <1>7 DEF In
  <2>4. AreParts(B, P, E, G)
    <3>. HIDE DEF B
    <3>. QED
      BY <1>0, <2>2, <2>3 DEF AreParts
  <2>5. SumOf(G, B) = SumOf(E, AllParts(B, P))
    <3>. HIDE DEF B
    <3>. QED
      BY <2>4, SumByParts
  <2>. QED
    BY <1>11, <2>5
<1>13. PICK W : W = Worth(ints, ws)
  OBVIOUS
<1>14. \A x \in A : W[x] \in Int /\ (x \in T => W[x] = E[x]) /\ (x \notin T => W[x] = 0)
  <2>. TAKE x \in A
  <2>1. PICK n \in Int, d \in Nat : n = x.n /\ d = x.d
    BY <1>0 DEF AreIntervals
  <2>2. W[x] = n * WindowsIn(d, ws) /\ E[x] = n * (d - (ws - 1))
    BY <1>0, <1>1, <1>13, <2>1 DEF Worth
  <2>3. CASE d >= ws
    <3>1. x \in T /\ WindowsIn(d, ws) = d - (ws - 1) /\ d - (ws - 1) \in Int
      BY <1>0, <2>1, <2>3 DEF WindowsIn
    <3>. QED
      BY <2>2, <3>1
  <2>4. CASE ~ (d >= ws)
    <3>1. x \notin T /\ WindowsIn(d, ws) = 0 /\ n * 0 = 0
      BY <2>1, <2>4 DEF WindowsIn
    <3>. QED
      BY <2>2, <3>1
  <2>. QED
    BY <2>3, <2>4
<1>15. SumOf(W, A) = SumOf(E, T) /\ SumOf(W, A) \in Int
  <2>. HIDE DEF A
  <2>1. \A x \in A \ T : W[x] = 0
    BY <1>14
  <2>2. SumOf(W, A) = SumOf(W, T)
    BY <1>0, <1>14, <2>1, SumSubset
  <2>3. \A x \in T : W[x] = E[x]
    BY <1>0, <1>14
  <2>. HIDE DEF T
  <2>4. SumOf(W, T) = SumOf(E, T)
    BY <1>0, <2>3, SumEqual
  <2>5. SumOf(W, A) \in Int
    BY <1>0, <1>14, SumType
  <2>. QED
    BY <2>2, <2>4, <2>5
<1>16. SumOf(R, B) \in Int /\ SumOf(G, B) \in Int
  <2>. HIDE DEF B
  <2>. QED
    BY <1>0, <1>9, SumType
<1>17. SumOf(Q, B) = SumOf(R, B) + SumOf(W, A)
  <2>1. PICK x \in Int, y \in Int : x = SumOf(R, B) /\ y = SumOf(G, B)
    BY <1>16
  <2>2. one * x + one * y = x + y
    BY <1>4
  <2>. HIDE DEF B, A
  <2>. QED
    BY <1>10, <1>12, <1>15, <2>1, <2>2
<1>. QED
  BY <1>8, <1>13, <1>15, <1>17 DEF RowOf

-----------------------------------------------------------------------------
(***************************************************************************)
(* Windows.  Those of a line that begin after the (k+1)-th latest of the   *)
(* last accesses in its list have at most k users and are counted without  *)
(* being looked at; of the others, those with at most k users have been    *)
(* counted when that access was made or before.                            *)
(***************************************************************************)
\* The threads that access line l in a window of trace tr.
Users(tr, l, i, ws) == {tr[x].thread : x \in {y \in i .. i + ws - 1 : tr[y].line = l}}

\* The list has the last accesses to line l among the first n of the trace.
Listed(tr, n, l, list) ==
  /\ n \in Nat /\ list \in StampLists
  /\ \A x \in 1 .. n : tr[x].thread \in Threads
  /\ \A x \in 1 .. n : tr[x].line = l => x <= list.latest[tr[x].thread]
  /\ \A u \in Threads : list.latest[u] <= n
  /\ \A u \in Threads : list.latest[u] > 0 => /\ tr[list.latest[u]].thread = u
                                              /\ tr[list.latest[u]].line = l

\* The windows of ws accesses that begin after a, not after r, and have at most
\* k users.
Few(tr, n, l, k, ws, a, r) ==
  {i \in a + 1 .. r : i + ws - 1 <= n /\ Cardinality(Users(tr, l, i, ws)) <= k}

\* Those that begin after a and have more than k.
Many(tr, n, l, k, ws, a) ==
  {i \in a + 1 .. n : i + ws - 1 <= n /\ Cardinality(Users(tr, l, i, ws)) > k}

Later(p, q) == IF p < q THEN q ELSE p

\* The stamp of a level, and that the list has no later one.
LEMMA ListedRecent ==
  ASSUME NEW tr, NEW n, NEW l, NEW list, Listed(tr, n, l, list), NEW k \in Nat
  PROVE  /\ IsRecent(list, k, Recent(list, k))
         /\ Recent(list, k) \in Nat /\ Recent(list, k) <= n
BY RecentExists DEF Listed, IsRecent

\* The users of a window are threads.
LEMMA UsersType ==
  ASSUME NEW tr, NEW n, NEW l, NEW list, Listed(tr, n, l, list),
         NEW i \in Nat \ {0}, NEW ws \in Nat \ {0}, i + ws - 1 <= n
  PROVE  /\ Users(tr, l, i, ws) \subseteq Threads
         /\ IsFiniteSet(Users(tr, l, i, ws)) /\ Cardinality(Users(tr, l, i, ws)) \in Nat
<1>1. ASSUME NEW u \in Users(tr, l, i, ws) PROVE u \in Threads
  <2>1. PICK x \in i .. i + ws - 1 : u = tr[x].thread
    BY <1>1 DEF Users
  <2>2. x \in 1 .. n
    BY <2>1 DEF Listed
  <2>. QED
    BY <2>1, <2>2 DEF Listed
<1>. QED
  BY <1>1, Constants, FS_Subset, FS_CardinalityType

\* A window that begins by the stamp of level k and reaches to the end has more
\* than k users.
LEMMA ManyUsers ==
  ASSUME NEW tr, NEW n, NEW l, NEW list, Listed(tr, n, l, list),
         NEW i \in Nat \ {0}, NEW ws \in Nat \ {0}, i + ws - 1 = n,
         NEW k \in Nat, NEW r, IsRecent(list, k, r), i <= r
  PROVE  Cardinality(Users(tr, l, i, ws)) > k
<1>1. r \in Nat /\ r > 0 /\ Cardinality(LaterThan(list, r - 1)) > k
  BY DEF IsRecent
<1>2. ASSUME NEW u \in LaterThan(list, r - 1) PROVE u \in Users(tr, l, i, ws)
  <2>. DEFINE x == list.latest[u]
  <2>1. u \in Threads /\ x \in Nat /\ x > r - 1 /\ x <= n
    BY DEF LaterThan, StampLists, Listed
  <2>2. x \in i .. i + ws - 1 /\ x > 0
    BY <1>1, <2>1
  <2>3. tr[x].thread = u /\ tr[x].line = l
    BY <2>1, <2>2 DEF Listed
  <2>. QED
    BY <2>2, <2>3 DEF Users
<1>3. IsFiniteSet(Users(tr, l, i, ws)) /\ Cardinality(Users(tr, l, i, ws)) \in Nat
  <2>1. i + ws - 1 <= n
    BY DEF Listed
  <2>. QED
    BY <2>1, UsersType
<1>4. Cardinality(LaterThan(list, r - 1)) <= Cardinality(Users(tr, l, i, ws))
  BY <1>2, <1>3, FS_Subset
<1>5. Cardinality(LaterThan(list, r - 1)) \in Nat
  <2>1. r - 1 \in Int /\ list \in StampLists
    BY <1>1 DEF Listed
  <2>. QED
    BY <2>1, LaterCounts
<1>. QED
  BY <1>1, <1>3, <1>4, <1>5

\* A window that begins after it has at most k users.
LEMMA FewUsers ==
  ASSUME NEW tr, NEW n, NEW l, NEW list, Listed(tr, n, l, list),
         NEW i \in Nat \ {0}, NEW ws \in Nat \ {0}, i + ws - 1 <= n,
         NEW k \in Nat, NEW r, IsRecent(list, k, r), r < i
  PROVE  Cardinality(Users(tr, l, i, ws)) <= k
<1>1. r \in Nat /\ Cardinality(LaterThan(list, r)) <= k
  BY DEF IsRecent
<1>2. ASSUME NEW u \in Users(tr, l, i, ws) PROVE u \in LaterThan(list, r)
  <2>1. PICK x \in i .. i + ws - 1 : tr[x].line = l /\ u = tr[x].thread
    BY <1>2 DEF Users
  <2>2. x \in 1 .. n
    BY <2>1 DEF Listed
  <2>3. u \in Threads /\ x <= list.latest[u] /\ list.latest[u] \in Nat
    BY <2>1, <2>2 DEF Listed, StampLists
  <2>4. list.latest[u] > r
    BY <1>1, <2>1, <2>3
  <2>. QED
    BY <2>3, <2>4 DEF LaterThan
<1>3. IsFiniteSet(LaterThan(list, r)) /\ Cardinality(LaterThan(list, r)) \in Nat
  BY <1>1, LaterCounts DEF Listed
<1>4. Cardinality(Users(tr, l, i, ws)) <= Cardinality(LaterThan(list, r))
  BY <1>2, <1>3, FS_Subset
<1>5. Cardinality(Users(tr, l, i, ws)) \in Nat
  BY UsersType
<1>. QED
  BY <1>1, <1>3, <1>4, <1>5

\* The sizes of two disjoint finite sets add up.
LEMMA UnionCount ==
  ASSUME NEW A, IsFiniteSet(A), NEW B, IsFiniteSet(B), A \cap B = {}
  PROVE  /\ IsFiniteSet(A \cup B)
         /\ Cardinality(A) \in Nat /\ Cardinality(B) \in Nat
         /\ Cardinality(A \cup B) = Cardinality(A) + Cardinality(B)
<1>1. Cardinality(A \cap B) = 0
  BY FS_EmptySet
<1>2. Cardinality(A) \in Nat /\ Cardinality(B) \in Nat
  BY FS_CardinalityType
<1>3. Cardinality(A \cup B) = Cardinality(A) + Cardinality(B) - Cardinality(A \cap B)
  BY FS_Union
<1>. QED
  BY <1>1, <1>2, <1>3, FS_Union

\* Sets of windows are finite.
LEMMA WindowsFinite ==
  ASSUME NEW n \in Nat, NEW a \in Nat, NEW W, W \subseteq a + 1 .. n
  PROVE  IsFiniteSet(W) /\ Cardinality(W) \in Nat
<1>1. a + 1 \in Int /\ n \in Int
  OBVIOUS
<1>2. IsFiniteSet(a + 1 .. n)
  BY <1>1, FS_Interval
<1>. QED
  BY <1>2, FS_Subset, FS_CardinalityType

\* An access, to this line or another, moves the stamp of level k from r to q.
\* Of the windows that begin between them, those that end before the access
\* have at most k users; those that end with it have more.
LEMMA FewGrows ==
  ASSUME NEW tr, NEW n, NEW l, NEW list, Listed(tr, n, l, list),
         NEW next, NEW moved, Listed(next, n + 1, l, moved), \A x \in 1 .. n : next[x] = tr[x],
         NEW k \in Nat, NEW ws \in Nat \ {0}, NEW a \in Nat, a <= n,
         Recent(list, k) <= Recent(moved, k),
         NEW b, b = Later(Recent(list, k), a), NEW e, e = Later(Recent(moved, k), a)
  PROVE  Cardinality(Few(next, n + 1, l, k, ws, a, e))
           = Cardinality(Few(tr, n, l, k, ws, a, b)) + (WindowsIn(n - b, ws) - WindowsIn(n - e, ws))
<1>. DEFINE Old == Few(tr, n, l, k, ws, a, b)
            New == {i \in b + 1 .. e : i + ws - 1 <= n}
            All == Few(next, n + 1, l, k, ws, a, e)
<1>1. PICK r \in Nat, q \in Nat : /\ r = Recent(list, k) /\ IsRecent(list, k, r) /\ r <= n
                                  /\ q = Recent(moved, k) /\ IsRecent(moved, k, q) /\ q <= n + 1
                                  /\ r <= q
  BY ListedRecent
<1>2. n \in Nat /\ n + 1 \in Nat
  BY DEF Listed
<1>3. /\ b \in Nat /\ e \in Nat /\ a <= b /\ b <= e /\ b <= n /\ e <= n + 1
      /\ r <= b /\ (e = q \/ e = a)
  BY <1>1, <1>2 DEF Later
<1>4. ASSUME NEW i \in Nat \ {0}, i + ws - 1 <= n
      PROVE  Users(next, l, i, ws) = Users(tr, l, i, ws)
  <2>1. \A x \in i .. i + ws - 1 : next[x] = tr[x]
    BY <1>2, <1>4
  <2>. QED
    BY <2>1 DEF Users
<1>5. ASSUME NEW i \in a + 1 .. e, i + ws - 1 <= n + 1, Cardinality(Users(next, l, i, ws)) <= k
      PROVE  i + ws - 1 <= n
  <2>1. i \in Nat \ {0} /\ e = q /\ i <= q
    BY <1>1, <1>3, <1>5
  <2>2. ~ (i + ws - 1 = n + 1)
    <3>. SUFFICES ASSUME i + ws - 1 = n + 1 PROVE FALSE
      OBVIOUS
    <3>1. Cardinality(Users(next, l, i, ws)) > k
      BY <1>1, <1>2, <2>1, ManyUsers
    <3>2. Cardinality(Users(next, l, i, ws)) \in Nat
      BY <1>5, <2>1, UsersType
    <3>. QED
      BY <1>5, <3>1, <3>2
  <2>. QED
    BY <1>2, <1>5, <2>1, <2>2
<1>6. ASSUME NEW i \in b + 1 .. e, i + ws - 1 <= n
      PROVE  i \in a + 1 .. e /\ i + ws - 1 <= n + 1 /\ Cardinality(Users(next, l, i, ws)) <= k
  <2>1. i \in Nat \ {0} /\ r < i
    BY <1>1, <1>3, <1>6
  <2>2. Cardinality(Users(tr, l, i, ws)) <= k
    BY <1>1, <1>6, <2>1, FewUsers
  <2>3. i \in a + 1 .. e /\ i + ws - 1 <= n + 1
    BY <1>2, <1>3, <1>6
  <2>4. Users(next, l, i, ws) = Users(tr, l, i, ws)
    BY <1>4, <1>6, <2>1
  <2>. QED
    BY <2>2, <2>3, <2>4
<1>7. All = Old \cup New
  <2>1. ASSUME NEW i \in All PROVE i \in Old \cup New
    <3>1. /\ i \in a + 1 .. e /\ i + ws - 1 <= n + 1 /\ Cardinality(Users(next, l, i, ws)) <= k
      BY <2>1 DEF Few
    <3>2. i \in Nat \ {0} /\ i + ws - 1 <= n
      BY <1>3, <1>5, <3>1
    <3>3. Cardinality(Users(tr, l, i, ws)) <= k
      BY <1>4, <3>1, <3>2
    <3>. QED
      BY <1>3, <3>1, <3>2, <3>3 DEF Few
  <2>2. ASSUME NEW i \in Old PROVE i \in All
    <3>1. /\ i \in a + 1 .. b /\ i + ws - 1 <= n /\ Cardinality(Users(tr, l, i, ws)) <= k
      BY <2>2 DEF Few
    <3>2. i \in Nat \ {0} /\ i \in a + 1 .. e /\ i + ws - 1 <= n + 1
      BY <1>2, <1>3, <3>1
    <3>3. Cardinality(Users(next, l, i, ws)) <= k
      BY <1>4, <3>1, <3>2
    <3>. QED
      BY <3>2, <3>3 DEF Few
  <2>3. ASSUME NEW i \in New PROVE i \in All
    BY <1>6, <2>3 DEF Few
  <2>. QED
    BY <2>1, <2>2, <2>3
<1>8. Old \cap New = {}
  BY <1>3 DEF Few
<1>9. IsFiniteSet(New) /\ Cardinality(New) = WindowsIn(n - b, ws) - WindowsIn(n - e, ws)
  <2>1. WindowsFrom(New, b, e, n, ws)
    BY <1>2, <1>3 DEF WindowsFrom
  <2>. HIDE DEF New
  <2>. QED
    BY <2>1, WindowCount
<1>10. IsFiniteSet(Old)
  <2>1. Old \subseteq a + 1 .. n
    BY <1>2, <1>3 DEF Few
  <2>. HIDE DEF Old
  <2>. QED
    BY <1>2, <2>1, WindowsFinite
<1>11. Cardinality(Old \cup New) = Cardinality(Old) + Cardinality(New)
  <2>. HIDE DEF Old, New
  <2>. QED
    BY <1>8, <1>9, <1>10, UnionCount
<1>. QED
  BY <1>7, <1>9, <1>11

\* The windows that begin after a and have more than k users are those that
\* have not been found to have at most k.
LEMMA ManyCount ==
  ASSUME NEW tr, NEW n, NEW l, NEW list, Listed(tr, n, l, list),
         NEW k \in Nat, NEW ws \in Nat \ {0}, NEW a \in Nat, a <= n,
         NEW b, b = Later(Recent(list, k), a)
  PROVE  /\ IsFiniteSet(Many(tr, n, l, k, ws, a))
         /\ Cardinality(Few(tr, n, l, k, ws, a, b)) \in Nat
         /\ Cardinality(Many(tr, n, l, k, ws, a))
              = WindowsIn(n - a, ws) - WindowsIn(n - b, ws) - Cardinality(Few(tr, n, l, k, ws, a, b))
<1>. DEFINE Old == Few(tr, n, l, k, ws, a, b)
            Has == Many(tr, n, l, k, ws, a)
            End == {i \in b + 1 .. n : i + ws - 1 <= n}
            All == {i \in a + 1 .. n : i + ws - 1 <= n}
<1>1. PICK r \in Nat : r = Recent(list, k) /\ IsRecent(list, k, r) /\ r <= n
  BY ListedRecent
<1>2. n \in Nat
  BY DEF Listed
<1>3. b \in Nat /\ a <= b /\ b <= n /\ r <= b
  BY <1>1, <1>2 DEF Later
<1>4. ASSUME NEW i \in a + 1 .. n, i + ws - 1 <= n
      PROVE  i \in Nat \ {0} /\ Cardinality(Users(tr, l, i, ws)) \in Nat
  <2>1. i \in Nat \ {0}
    OBVIOUS
  <2>. QED
    BY <1>4, <2>1, UsersType
<1>5. ASSUME NEW i \in End PROVE Cardinality(Users(tr, l, i, ws)) <= k
  <2>1. i \in Nat \ {0} /\ r < i /\ i + ws - 1 <= n
    BY <1>2, <1>3
  <2>. QED
    BY <1>1, <2>1, FewUsers
<1>6. All = (Has \cup Old) \cup End
  <2>1. Has \subseteq All /\ Old \subseteq All /\ End \subseteq All
    BY <1>2, <1>3 DEF Many, Few
  <2>2. ASSUME NEW i \in All PROVE i \in (Has \cup Old) \cup End
    <3>1. /\ i \in a + 1 .. n /\ i + ws - 1 <= n
          /\ Cardinality(Users(tr, l, i, ws)) \in Nat
      BY <1>4
    <3>2. CASE Cardinality(Users(tr, l, i, ws)) > k
      BY <3>1, <3>2 DEF Many
    <3>3. CASE Cardinality(Users(tr, l, i, ws)) <= k
      BY <1>2, <1>3, <3>1, <3>3 DEF Few
    <3>. QED
      BY <3>1, <3>2, <3>3
  <2>. QED
    BY <2>1, <2>2
<1>7. Has \cap Old = {}
  <2>1. \A i \in Has : Cardinality(Users(tr, l, i, ws)) \in Nat /\ Cardinality(Users(tr, l, i, ws)) > k
    BY <1>4 DEF Many
  <2>2. \A i \in Old : Cardinality(Users(tr, l, i, ws)) <= k
    BY DEF Few
  <2>. HIDE DEF Has, Old
  <2>3. ASSUME NEW i \in Has \cap Old PROVE FALSE
    BY <2>1, <2>2
  <2>. QED
    BY <2>3
<1>8. (Has \cup Old) \cap End = {}
  <2>1. \A i \in Has : Cardinality(Users(tr, l, i, ws)) \in Nat /\ Cardinality(Users(tr, l, i, ws)) > k
    BY <1>4 DEF Many
  <2>2. Old \cap End = {}
    BY <1>3 DEF Few
  <2>. HIDE DEF Has, Old, End
  <2>3. ASSUME NEW i \in Has \cap End PROVE FALSE
    BY <1>5, <2>1
  <2>. QED
    BY <2>2, <2>3
<1>9. /\ IsFiniteSet(All) /\ Cardinality(All) = WindowsIn(n - a, ws)
      /\ IsFiniteSet(End) /\ Cardinality(End) = WindowsIn(n - b, ws)
  <2>1. WindowsFrom(All, a, n, n, ws) /\ WindowsFrom(End, b, n, n, ws)
    BY <1>2, <1>3 DEF WindowsFrom
  <2>2. WindowsIn(n - n, ws) = 0
    BY <1>2 DEF WindowsIn
  <2>3. WindowsIn(n - a, ws) \in Int /\ WindowsIn(n - b, ws) \in Int
    BY <1>2, <1>3 DEF WindowsIn
  <2>. HIDE DEF All, End
  <2>. QED
    BY <2>1, <2>2, <2>3, WindowCount
<1>10. /\ IsFiniteSet(Has) /\ IsFiniteSet(Old)
  <2>1. Has \subseteq a + 1 .. n /\ Old \subseteq a + 1 .. n
    BY <1>2, <1>3 DEF Few, Many
  <2>. HIDE DEF Old, Has
  <2>. QED
    BY <1>2, <2>1, WindowsFinite
<1>. HIDE DEF All, End, Has, Old
<1>11. /\ IsFiniteSet(Has \cup Old)
       /\ Cardinality(Has) \in Nat /\ Cardinality(Old) \in Nat
       /\ Cardinality(Has \cup Old) = Cardinality(Has) + Cardinality(Old)
  BY <1>7, <1>10, UnionCount
<1>12. /\ Cardinality(End) \in Nat
       /\ Cardinality(All) = Cardinality(Has) + Cardinality(Old) + Cardinality(End)
  <2>1. /\ Cardinality(End) \in Nat
        /\ Cardinality((Has \cup Old) \cup End) = Cardinality(Has \cup Old) + Cardinality(End)
    BY <1>8, <1>9, <1>11, UnionCount
  <2>. QED
    BY <1>6, <1>11, <2>1
<1>13. /\ IsFiniteSet(Has) /\ Cardinality(Old) \in Nat
       /\ Cardinality(Has) = WindowsIn(n - a, ws) - WindowsIn(n - b, ws) - Cardinality(Old)
  BY <1>9, <1>10, <1>11, <1>12
<1>. QED
  BY <1>13 DEF Has, Old

\* The last write to line l among the first n accesses is at w.
WrittenAt(tr, n, l, w) ==
  /\ w \in Nat /\ w <= n
  /\ w > 0 => tr[w].line = l /\ tr[w].type = "WRITE_ACCESS"
  /\ \A x \in w + 1 .. n : tr[x].line = l => tr[x].type = "READ_ACCESS"

OnlyRead(tr, l, i, ws) ==
  \A x \in i .. i + ws - 1 : tr[x].line = l => tr[x].type = "READ_ACCESS"

\* The windows with more than k users, which all read.
ManyReads(tr, n, l, k, ws) ==
  {i \in 1 .. n : /\ i + ws - 1 <= n
                  /\ Cardinality(Users(tr, l, i, ws)) > k /\ OnlyRead(tr, l, i, ws)}

\* What a line accounts for in a row of all accesses, and in one of reads: the
\* windows that ended before the last write, less those that began after it and
\* have been found to have at most k users.
AllAt(tr, n, l, list, k, ws) ==
  Cardinality(Few(tr, n, l, k, ws, 0, Later(Recent(list, k), 0)))

ReadsAt(tr, n, l, list, w, k, ws) ==
  Cardinality(ManyReads(tr, w - 1, l, k, ws))
    - Cardinality(Few(tr, n, l, k, ws, w, Later(Recent(list, k), w)))

\* The windows of reads are those before the last write and all after it.
LEMMA ReadsCount ==
  ASSUME NEW tr, NEW n, NEW l, NEW list, Listed(tr, n, l, list), NEW w, WrittenAt(tr, n, l, w),
         NEW k \in Nat, NEW ws \in Nat \ {0}, NEW b, b = Later(Recent(list, k), w)
  PROVE  /\ IsFiniteSet(ManyReads(tr, n, l, k, ws))
         /\ ReadsAt(tr, n, l, list, w, k, ws) \in Int
         /\ Cardinality(ManyReads(tr, n, l, k, ws))
              = ReadsAt(tr, n, l, list, w, k, ws) + (WindowsIn(n - w, ws) - WindowsIn(n - b, ws))
<1>. DEFINE Old == ManyReads(tr, w - 1, l, k, ws)
            New == Many(tr, n, l, k, ws, w)
            All == ManyReads(tr, n, l, k, ws)
            F   == Few(tr, n, l, k, ws, w, b)
<1>1. n \in Nat /\ w \in Nat /\ w <= n
  BY DEF Listed, WrittenAt
<1>2. ASSUME NEW i \in All PROVE i \in Old \cup New
  <2>1. /\ i \in 1 .. n /\ i + ws - 1 <= n
        /\ Cardinality(Users(tr, l, i, ws)) > k /\ OnlyRead(tr, l, i, ws)
    BY <1>2 DEF ManyReads
  <2>2. CASE i > w
    BY <1>1, <2>1, <2>2 DEF Many
  <2>3. CASE ~ (i > w)
    <3>1. w > 0 /\ i <= w
      BY <1>1, <2>1, <2>3
    <3>2. ~ (w \in i .. i + ws - 1)
      BY <2>1, <3>1 DEF OnlyRead, WrittenAt
    <3>3. i + ws - 1 <= w - 1 /\ i \in 1 .. w - 1
      BY <1>1, <2>1, <3>1, <3>2
    <3>. QED
      BY <2>1, <3>3 DEF ManyReads
  <2>. QED
    BY <2>2, <2>3
<1>3. ASSUME NEW i \in Old PROVE i \in All /\ i \notin New
  <2>1. /\ i \in 1 .. w - 1 /\ i + ws - 1 <= w - 1
        /\ Cardinality(Users(tr, l, i, ws)) > k /\ OnlyRead(tr, l, i, ws)
    BY <1>3 DEF ManyReads
  <2>2. i \in 1 .. n /\ i + ws - 1 <= n /\ ~ (i \in w + 1 .. n)
    BY <1>1, <2>1
  <2>. QED
    BY <2>1, <2>2 DEF ManyReads, Many
<1>4. ASSUME NEW i \in New PROVE i \in All
  <2>1. i \in w + 1 .. n /\ i + ws - 1 <= n /\ Cardinality(Users(tr, l, i, ws)) > k
    BY <1>4 DEF Many
  <2>2. \A x \in i .. i + ws - 1 : x \in w + 1 .. n
    BY <1>1, <2>1
  <2>3. OnlyRead(tr, l, i, ws)
    BY <2>2 DEF OnlyRead, WrittenAt
  <2>4. i \in 1 .. n
    BY <1>1, <2>1
  <2>. QED
    BY <2>1, <2>3, <2>4 DEF ManyReads
<1>5. IsFiniteSet(Old)
  <2>1. Old \subseteq 0 + 1 .. n
    BY <1>1, <1>3 DEF ManyReads
  <2>. HIDE DEF Old
  <2>. QED
    BY <1>1, <2>1, WindowsFinite
<1>6. /\ IsFiniteSet(New) /\ Cardinality(F) \in Nat
      /\ Cardinality(New) = WindowsIn(n - w, ws) - WindowsIn(n - b, ws) - Cardinality(F)
  BY <1>1, ManyCount
<1>. HIDE DEF Old, New, All, F
<1>7. All = Old \cup New /\ Old \cap New = {}
  BY <1>2, <1>3, <1>4
<1>8. /\ IsFiniteSet(All) /\ Cardinality(Old) \in Nat /\ Cardinality(New) \in Nat
      /\ Cardinality(All) = Cardinality(Old) + Cardinality(New)
  BY <1>5, <1>6, <1>7, UnionCount
<1>9. ReadsAt(tr, n, l, list, w, k, ws) = Cardinality(Old) - Cardinality(F)
  BY DEF ReadsAt, Old, F
<1>10. WindowsIn(n - w, ws) \in Int /\ WindowsIn(n - b, ws) \in Int
  <2>1. b \in Int
    BY <1>1, ListedRecent DEF Later
  <2>. QED
    BY <1>1, <2>1 DEF WindowsIn
<1>11. PICK x \in Int, y \in Int : x = WindowsIn(n - w, ws) /\ y = WindowsIn(n - b, ws)
  BY <1>10
<1>12. /\ Cardinality(Old) - Cardinality(F) \in Int
       /\ Cardinality(All) = (Cardinality(Old) - Cardinality(F)) + (x - y)
  BY <1>6, <1>8, <1>11
<1>. QED
  BY <1>8, <1>9, <1>11, <1>12 DEF All

\* The windows of reads that have ended stay what they are.
LEMMA ReadsStay ==
  ASSUME NEW tr, NEW next, NEW n \in Int, \A x \in 1 .. n : next[x] = tr[x],
         NEW l, NEW k, NEW ws \in Nat \ {0}
  PROVE  ManyReads(next, n, l, k, ws) = ManyReads(tr, n, l, k, ws)
<1>1. ASSUME NEW i \in 1 .. n, i + ws - 1 <= n
      PROVE  /\ Users(next, l, i, ws) = Users(tr, l, i, ws)
             /\ OnlyRead(next, l, i, ws) <=> OnlyRead(tr, l, i, ws)
  <2>1. \A x \in i .. i + ws - 1 : next[x] = tr[x]
    BY <1>1
  <2>. QED
    BY <2>1 DEF Users, OnlyRead
<1>. QED
  BY <1>1 DEF ManyReads

\* An access that does not write the line, or is to another, counts the windows
\* between the two stamps of level k, as far as they began after the last write.
LEMMA LineGrows ==
  ASSUME NEW tr, NEW n, NEW l, NEW list, Listed(tr, n, l, list),
         NEW next, NEW moved, Listed(next, n + 1, l, moved), \A x \in 1 .. n : next[x] = tr[x],
         NEW w, WrittenAt(tr, n, l, w),
         NEW k \in Nat, NEW ws \in Nat \ {0}, Recent(list, k) <= Recent(moved, k),
         NEW b, b = Later(Recent(list, k), w), NEW e, e = Later(Recent(moved, k), w)
  PROVE  /\ AllAt(next, n + 1, l, moved, k, ws)
              = AllAt(tr, n, l, list, k, ws)
                  + (WindowsIn(n - Recent(list, k), ws) - WindowsIn(n - Recent(moved, k), ws))
         /\ ReadsAt(next, n + 1, l, moved, w, k, ws)
              = ReadsAt(tr, n, l, list, w, k, ws) - (WindowsIn(n - b, ws) - WindowsIn(n - e, ws))
<1>1. n \in Nat /\ w \in Nat /\ w <= n /\ 0 \in Nat /\ 0 <= n
  BY DEF Listed, WrittenAt
<1>2. PICK r \in Nat, q \in Nat : r = Recent(list, k) /\ q = Recent(moved, k)
  BY ListedRecent
<1>3. Later(Recent(list, k), 0) = Recent(list, k) /\ Later(Recent(moved, k), 0) = Recent(moved, k)
  BY <1>2 DEF Later
<1>4. Cardinality(Few(next, n + 1, l, k, ws, 0, Recent(moved, k)))
        = Cardinality(Few(tr, n, l, k, ws, 0, Recent(list, k)))
            + (WindowsIn(n - Recent(list, k), ws) - WindowsIn(n - Recent(moved, k), ws))
  BY <1>1, <1>3, FewGrows
<1>5. Cardinality(Few(next, n + 1, l, k, ws, w, e))
        = Cardinality(Few(tr, n, l, k, ws, w, b)) + (WindowsIn(n - b, ws) - WindowsIn(n - e, ws))
  BY <1>1, FewGrows
<1>6. ManyReads(next, w - 1, l, k, ws) = ManyReads(tr, w - 1, l, k, ws)
  <2>1. w - 1 \in Int /\ \A x \in 1 .. w - 1 : next[x] = tr[x]
    BY <1>1
  <2>. QED
    BY <2>1, ReadsStay
<1>7. PICK x \in Int, y \in Int : x = WindowsIn(n - b, ws) /\ y = WindowsIn(n - e, ws)
  <2>1. b \in Int /\ e \in Int
    BY <1>1, <1>2 DEF Later
  <2>2. WindowsIn(n - b, ws) \in Int /\ WindowsIn(n - e, ws) \in Int
    BY <1>1, <2>1 DEF WindowsIn
  <2>. QED
    BY <2>2
<1>8. PICK c \in Int : c = Cardinality(ManyReads(tr, w - 1, l, k, ws))
  <2>1. ManyReads(tr, w - 1, l, k, ws) \subseteq 0 + 1 .. n
    BY <1>1 DEF ManyReads
  <2>2. Cardinality(ManyReads(tr, w - 1, l, k, ws)) \in Nat
    BY <1>1, <2>1, WindowsFinite
  <2>. QED
    BY <2>2
<1>9. PICK f \in Int : f = Cardinality(Few(tr, n, l, k, ws, w, b))
  <2>1. Cardinality(Few(tr, n, l, k, ws, w, b)) \in Nat
    BY <1>1, ManyCount
  <2>. QED
    BY <2>1
<1>10. /\ ReadsAt(next, n + 1, l, moved, w, k, ws) = c - (f + (x - y))
       /\ ReadsAt(tr, n, l, list, w, k, ws) = c - f
  BY <1>5, <1>6, <1>7, <1>8, <1>9 DEF ReadsAt
<1>. QED
  BY <1>3, <1>4, <1>7, <1>10 DEF AllAt

\* A write counts all windows since the last one that have more than k users.
LEMMA LineWritten ==
  ASSUME NEW tr, NEW n, NEW l, NEW list, Listed(tr, n, l, list),
         NEW next, NEW moved, Listed(next, n + 1, l, moved), \A x \in 1 .. n : next[x] = tr[x],
         NEW w, WrittenAt(tr, n, l, w), NEW k \in Nat, NEW ws \in Nat \ {0},
         NEW b, b = Later(Recent(list, k), w)
  PROVE  ReadsAt(next, n + 1, l, moved, n + 1, k, ws)
           = ReadsAt(tr, n, l, list, w, k, ws) + (WindowsIn(n - w, ws) - WindowsIn(n - b, ws))
<1>1. n \in Nat
  BY DEF Listed
<1>2. PICK q \in Nat : q = Recent(moved, k) /\ q <= n + 1
  BY ListedRecent
<1>0. PICK m : m = n + 1
  OBVIOUS
<1>3. Few(next, m, l, k, ws, m, Later(Recent(moved, k), m)) = {}
  BY <1>0, <1>1, <1>2 DEF Few, Later
<1>4. ManyReads(next, m - 1, l, k, ws) = ManyReads(tr, n, l, k, ws)
  <2>1. m - 1 = n /\ n \in Int
    BY <1>0, <1>1
  <2>2. ManyReads(next, n, l, k, ws) = ManyReads(tr, n, l, k, ws)
    BY <2>1, ReadsStay
  <2>. QED
    BY <2>1, <2>2
<1>5. Cardinality(ManyReads(tr, n, l, k, ws)) \in Nat
  BY ReadsCount, FS_CardinalityType
<1>6. Cardinality({}) = 0
  BY FS_EmptySet
<1>7. ReadsAt(next, m, l, moved, m, k, ws) = Cardinality(ManyReads(tr, n, l, k, ws))
  <2>1. ReadsAt(next, m, l, moved, m, k, ws) = Cardinality(ManyReads(tr, n, l, k, ws)) - 0
    BY <1>3, <1>4, <1>6 DEF ReadsAt
  <2>. QED
    BY <1>5, <2>1
<1>8. Cardinality(ManyReads(tr, n, l, k, ws))
        = ReadsAt(tr, n, l, list, w, k, ws) + (WindowsIn(n - w, ws) - WindowsIn(n - b, ws))
  BY ReadsCount
<1>. QED
  BY <1>0, <1>7, <1>8

-----------------------------------------------------------------------------
(***************************************************************************)
(* The intervals of an access.  At each level at most one is added and one *)
(* is subtracted.                                                          *)
(***************************************************************************)
\* The set has one element, of value v, or none, and v is 0.
IsOne(A, F, v) == v \in Int /\ ((A = {} /\ v = 0) \/ \E x : A = {x} /\ F[x] = v)

\* The sum over two such sets.
LEMMA SumTwo ==
  ASSUME NEW A, NEW B, A \cap B = {}, NEW F, NEW u, NEW v, IsOne(A, F, u), IsOne(B, F, v)
  PROVE  SumOf(F, A \cup B) = u + v
<1>1. ASSUME NEW C, NEW z, IsOne(C, F, z)
      PROVE  IsFiniteSet(C) /\ SumOf(F, C) = z /\ \A x \in C : F[x] \in Int
  <2>1. CASE C = {} /\ z = 0
    BY <2>1, FS_EmptySet, SumStep
  <2>2. CASE \E x : C = {x} /\ F[x] = z
    <3>1. PICK x : C = {x} /\ F[x] = z
      BY <2>2
    <3>2. F[x] \in Int
      BY <1>1, <3>1 DEF IsOne
    <3>. QED
      BY <3>1, <3>2, SumSingle, FS_Singleton
  <2>. QED
    BY <1>1, <2>1, <2>2 DEF IsOne
<1>2. /\ IsFiniteSet(A) /\ SumOf(F, A) = u /\ \A x \in A : F[x] \in Int
      /\ IsFiniteSet(B) /\ SumOf(F, B) = v /\ \A x \in B : F[x] \in Int
  BY <1>1
<1>3. \A x \in A \cup B : F[x] \in Int
  BY <1>2
<1>4. SumOf(F, A \cup B) = SumOf(F, A) + SumOf(F, B)
  BY <1>2, <1>3, SumDisjoint
<1>. QED
  BY <1>2, <1>4

\* Where thread t accesses a line after n accesses, c being its level.
Accesses(n, list, t, c) ==
  /\ n \in Nat /\ t \in Threads
  /\ list \in StampLists /\ MostRecentFirst(list) /\ \A u \in Threads : list.latest[u] <= n
  /\ c = LevelOf(list, t)

\* What it is about such an access that the next lemmas use.
LEMMA AccessFacts ==
  ASSUME NEW n, NEW list, NEW t, NEW c, Accesses(n, list, t, c),
         NEW m, m = Cardinality(LaterThan(list, 0))
  PROVE  /\ n \in Nat /\ m \in Nat /\ c \in Levels /\ c \in Nat /\ c <= m
         /\ InList(list) = {i \in Levels : i < m}
         /\ PassedBy(list, t) = {i \in Levels : i < c}
         /\ Visited(list, t) = {i \in Levels : i < c \/ (i = c /\ c < m)}
         /\ Found(list, t) <=> c < m
         /\ c < m => Chain(list)[c] = t
         /\ \A i \in Levels : i < m /\ Chain(list)[i] = t => i = c
         /\ \A i \in Levels : i < m => list.latest[Chain(list)[i]] = Recent(list, i)
         /\ \A i \in Levels : /\ Recent(list, i) \in Nat /\ Recent(list, i) <= n /\ i \in Nat
                              /\ IsRecent(list, i, Recent(list, i))
                              /\ Recent(list, i) > 0 <=> i < m
         /\ \A i, j \in Levels : i <= j => Recent(list, j) <= Recent(list, i)
<1>1. /\ n \in Nat /\ t \in Threads /\ list \in StampLists
      /\ MostRecentFirst(list) /\ (\A u \in Threads : list.latest[u] <= n) /\ c = LevelOf(list, t)
  BY DEF Accesses
<1>2. /\ m \in Nat /\ c \in Levels /\ c <= m
      /\ InList(list) = {i \in Levels : i < m}
      /\ PassedBy(list, t) = {i \in Levels : i < c}
      /\ Visited(list, t) = {i \in Levels : i < c \/ (i = c /\ c < m)}
      /\ Found(list, t) <=> c < m
      /\ c < m => Chain(list)[c] = t
      /\ \A i \in Levels : i < m /\ Chain(list)[i] = t => i = c
  BY <1>1, WalkPassed
<1>3. \A i \in Levels : i < m => list.latest[Chain(list)[i]] = Recent(list, i)
  BY <1>1, ChainSorted
<1>4. ASSUME NEW i \in Levels
      PROVE  /\ Recent(list, i) \in Nat /\ Recent(list, i) <= n /\ i \in Nat
             /\ IsRecent(list, i, Recent(list, i))
             /\ Recent(list, i) > 0 <=> i < m
  <2>1. i \in Nat
    BY Constants
  <2>2. IsRecent(list, i, Recent(list, i)) /\ Recent(list, i) <= n
    BY <1>1, <2>1, RecentExists
  <2>3. Recent(list, i) \in Nat
    BY <2>2 DEF IsRecent
  <2>4. Recent(list, i) > 0 <=> i < m
    BY <1>1, <2>1, <2>2, RecentPositive
  <2>. QED
    BY <2>1, <2>2, <2>3, <2>4
<1>5. ASSUME NEW i \in Levels, NEW j \in Levels, i <= j PROVE Recent(list, j) <= Recent(list, i)
  BY <1>1, <1>4, <1>5, RecentOrder
<1>. QED
  BY <1>1, <1>2, <1>3, <1>4, <1>5, Constants

\* The intervals of an access are numbers of accesses within the trace.
Bounded(ints, n) ==
  /\ IsFiniteSet(ints)
  /\ \A x \in ints : x.n \in {-1, 1} /\ x.d \in Nat /\ x.d <= n

\* Intervals within the trace so far are intervals, and fit into a word if the trace does.
LEMMA BoundedIntervals ==
  ASSUME NEW ints, NEW n \in Nat, Bounded(ints, n)
  PROVE  AreIntervals(ints) /\ (n < 2 ^ WordBits => InWord(ints))
<1>1. 2 ^ WordBits \in Int
  BY PowerOfTwo, SublogAssumption
<1>. QED
  BY <1>1 DEF Bounded, AreIntervals, InWord

\* The walk of thread t to its level c, by m threads that are in the list since
\* time w: it closes their intervals at their levels and, but for the last one's,
\* opens them again at the next level; if t is none of the m, the interval from w
\* is closed too.
WalkIntervals(ints, n, list, c, m, w, s) ==
  /\ Bounded(ints, n)
  /\ \A x : x \in ints <=>
       \/ \E i \in Levels : i <= c /\ i < m /\ x = Interval("met", i, n - Recent(list, i), s)
       \/ \E i \in Levels : i < c /\ i < m /\ x = Interval("passed", i + 1, n - Recent(list, i), 0 - s)
       \/ m <= c /\ x = Interval("first", m, n - w, s)

\* What those are worth: the windows that begin between the old and the new stamp
\* of level k, after w.
Moved(n, list, c, k, ws, w) ==
  (IF k <= c THEN WindowsIn(n - Later(Recent(list, k), w), ws) ELSE 0)
    - (IF k > 0 /\ k <= c THEN WindowsIn(n - Later(Recent(list, k - 1), w), ws) ELSE 0)

\* One interval, of s * d windows.
LEMMA OneInterval ==
  ASSUME NEW ints, NEW ws \in Nat \ {0}, NEW A, NEW x, x \in ints, x \in A,
         \A y \in A : y = x, NEW s, s \in {-1, 1}, x.n = s,
         NEW d \in Nat, x.d = d
  PROVE  IsOne(A, Worth(ints, ws), s * WindowsIn(d, ws))
<1>1. PICK y : y = WindowsIn(d, ws) /\ y \in Int
  BY DEF WindowsIn
<1>2. Worth(ints, ws)[x] = s * y
  BY <1>1 DEF Worth
<1>3. A = {x}
  OBVIOUS
<1>4. s * y \in Int
  BY <1>1
<1>. QED
  BY <1>1, <1>2, <1>3, <1>4 DEF IsOne

\* No interval.
LEMMA NoInterval ==
  ASSUME NEW A, NEW F, \A y \in A : FALSE
  PROVE  IsOne(A, F, 0)
BY DEF IsOne
\* The stamp of level k is after w exactly if more than k threads are.
LEMMA RecentAfter ==
  ASSUME NEW list \in StampLists, NEW k \in Nat, NEW r, IsRecent(list, k, r), NEW w \in Nat,
         NEW m, m = Cardinality(LaterThan(list, w))
  PROVE  m \in Nat /\ (r > w <=> k < m) /\ Later(r, w) = IF k < m THEN r ELSE w
<1>1. r \in Nat /\ Cardinality(LaterThan(list, r)) <= k
      /\ (r > 0 => Cardinality(LaterThan(list, r - 1)) > k)
  BY DEF IsRecent
<1>2. m \in Nat /\ Cardinality(LaterThan(list, r)) \in Nat
      /\ Cardinality(LaterThan(list, r - 1)) \in Nat
  BY <1>1, LaterCounts
<1>3. CASE r > w
  <2>1. w <= r - 1 /\ r - 1 \in Int /\ w \in Int
    BY <1>1, <1>3
  <2>2. Cardinality(LaterThan(list, r - 1)) <= m
    BY <2>1, LaterCounts
  <2>. QED
    BY <1>1, <1>2, <1>3, <2>2 DEF Later
<1>4. CASE r <= w
  <2>1. m <= Cardinality(LaterThan(list, r))
    BY <1>1, <1>4, LaterCounts
  <2>. QED
    BY <1>1, <1>2, <1>4, <2>1 DEF Later
<1>. QED
  BY <1>1, <1>3, <1>4

\* The intervals of a walk are worth the windows between the stamps.
LEMMA WalkWorth ==
  ASSUME NEW n, NEW list, NEW t, NEW c, Accesses(n, list, t, c),
         NEW w \in Nat, w <= n, NEW m, m = Cardinality(LaterThan(list, w)),
         NEW s \in {-1, 1}, NEW ints, WalkIntervals(ints, n, list, c, m, w, s),
         NEW k \in Levels, NEW ws \in Nat \ {0}
  PROVE  SumOf(Worth(ints, ws), AtLevel(ints, k)) = s * Moved(n, list, c, k, ws, w)
<1>. DEFINE A == {x \in ints : x.level = k /\ x.at # "passed"}
            B == {x \in ints : x.level = k /\ x.at = "passed"}
            F == Worth(ints, ws)
            L(i) == Later(Recent(list, i), w)
<1>1. /\ n \in Nat /\ c \in Nat /\ k \in Nat
      /\ \A i \in Levels : i \in Nat /\ Recent(list, i) \in Nat /\ Recent(list, i) <= n
      /\ \A i \in Levels : IsRecent(list, i, Recent(list, i))
      /\ list \in StampLists
  <2>1. list \in StampLists
    BY DEF Accesses
  <2>2. PICK h : h = Cardinality(LaterThan(list, 0))
    OBVIOUS
  <2>3. /\ n \in Nat /\ c \in Nat
        /\ \A i \in Levels : /\ Recent(list, i) \in Nat /\ Recent(list, i) <= n /\ i \in Nat
                             /\ IsRecent(list, i, Recent(list, i))
    BY <2>2, AccessFacts
  <2>. QED
    BY <2>1, <2>3
<1>2. /\ m \in Nat
      /\ \A i \in Levels : L(i) = IF i < m THEN Recent(list, i) ELSE w
  BY <1>1, RecentAfter
<1>3. \A i \in Levels : L(i) \in Nat /\ n - L(i) \in Nat
  BY <1>1, <1>2
<1>4. k > 0 => k - 1 \in Levels
  BY Constants DEF Levels
<1>5. \A x : x \in ints <=>
       \/ \E i \in Levels : i <= c /\ i < m /\ x = Interval("met", i, n - Recent(list, i), s)
       \/ \E i \in Levels : i < c /\ i < m /\ x = Interval("passed", i + 1, n - Recent(list, i), 0 - s)
       \/ m <= c /\ x = Interval("first", m, n - w, s)
  BY DEF WalkIntervals
<1>6. s \in Int /\ 0 - s \in {-1, 1}
  OBVIOUS
<1>7. PICK u : u = IF k <= c /\ k <= m THEN s * WindowsIn(n - L(k), ws) ELSE 0
  OBVIOUS
<1>8. PICK v : v = IF k > 0 /\ k <= c /\ k <= m THEN (0 - s) * WindowsIn(n - L(k - 1), ws) ELSE 0
  OBVIOUS
<1>. HIDE DEF L
<1>9. IsOne(A, F, u)
  <2>1. CASE k <= c /\ k < m
    <3>1. PICK x : x = Interval("met", k, n - L(k), s)
      OBVIOUS
    <3>2. x \in ints
      BY <1>2, <1>5, <2>1, <3>1
    <3>3. x.level = k /\ x.at # "passed" /\ x.n = s /\ x.d = n - L(k)
      BY <3>1 DEF Interval
    <3>4. ASSUME NEW y \in A PROVE y = x
      <4>1. CASE \E i \in Levels : i <= c /\ i < m /\ y = Interval("met", i, n - Recent(list, i), s)
        BY <1>2, <2>1, <3>1, <4>1 DEF Interval
      <4>2. CASE \E i \in Levels : /\ i < c /\ i < m
                                   /\ y = Interval("passed", i + 1, n - Recent(list, i), 0 - s)
        BY <4>2 DEF Interval
      <4>3. CASE m <= c /\ y = Interval("first", m, n - w, s)
        <5>1. y.level = m
          BY <4>3 DEF Interval
        <5>. QED
          BY <1>1, <1>2, <2>1, <5>1
      <4>. QED
        BY <1>5, <4>1, <4>2, <4>3
    <3>5. x \in A /\ n - L(k) \in Nat
      BY <1>3, <3>2, <3>3
    <3>6. u = s * WindowsIn(n - L(k), ws)
      BY <1>1, <1>2, <1>7, <2>1
    <3>7. IsOne(A, F, s * WindowsIn(n - L(k), ws))
      <4>. HIDE DEF A
      <4>. QED
        BY <3>2, <3>3, <3>4, <3>5, OneInterval
    <3>. QED
      BY <3>6, <3>7
  <2>2. CASE k <= c /\ k = m
    <3>1. PICK x : x = Interval("first", m, n - w, s)
      OBVIOUS
    <3>2. x \in ints
      BY <1>5, <2>2, <3>1
    <3>3. x.level = k /\ x.at # "passed" /\ x.n = s /\ x.d = n - L(k)
      <4>1. L(k) = w
        BY <1>1, <1>2, <2>2
      <4>. QED
        BY <2>2, <3>1, <4>1 DEF Interval
    <3>4. ASSUME NEW y \in A PROVE y = x
      <4>1. CASE \E i \in Levels : i <= c /\ i < m /\ y = Interval("met", i, n - Recent(list, i), s)
        <5>1. PICK i \in Levels : i < m /\ y = Interval("met", i, n - Recent(list, i), s)
          BY <4>1
        <5>2. y.level = i
          BY <5>1 DEF Interval
        <5>. QED
          BY <1>1, <1>2, <2>2, <5>1, <5>2
      <4>2. CASE \E i \in Levels : /\ i < c /\ i < m
                                   /\ y = Interval("passed", i + 1, n - Recent(list, i), 0 - s)
        BY <4>2 DEF Interval
      <4>3. CASE m <= c /\ y = Interval("first", m, n - w, s)
        BY <3>1, <4>3
      <4>. QED
        BY <1>5, <4>1, <4>2, <4>3
    <3>5. x \in A /\ n - L(k) \in Nat
      BY <1>3, <3>2, <3>3
    <3>6. u = s * WindowsIn(n - L(k), ws)
      BY <1>1, <1>2, <1>7, <2>2
    <3>7. IsOne(A, F, s * WindowsIn(n - L(k), ws))
      <4>. HIDE DEF A
      <4>. QED
        BY <3>2, <3>3, <3>4, <3>5, OneInterval
    <3>. QED
      BY <3>6, <3>7
  <2>3. CASE ~ (k <= c /\ k <= m)
    <3>1. ASSUME NEW y \in A PROVE FALSE
      <4>0. y \in ints /\ y.level = k /\ y.at # "passed"
        OBVIOUS
      <4>1. CASE \E i \in Levels : i <= c /\ i < m /\ y = Interval("met", i, n - Recent(list, i), s)
        <5>1. PICK i \in Levels : i <= c /\ i < m /\ y = Interval("met", i, n - Recent(list, i), s)
          BY <4>1
        <5>2. y.level = i
          BY <5>1 DEF Interval
        <5>. QED
          BY <1>1, <1>2, <2>3, <4>0, <5>1, <5>2
      <4>2. CASE \E i \in Levels : /\ i < c /\ i < m
                                   /\ y = Interval("passed", i + 1, n - Recent(list, i), 0 - s)
        BY <4>0, <4>2 DEF Interval
      <4>3. CASE m <= c /\ y = Interval("first", m, n - w, s)
        <5>1. y.level = m
          BY <4>3 DEF Interval
        <5>. QED
          BY <1>1, <1>2, <2>3, <4>0, <4>3, <5>1
      <4>. QED
        BY <1>5, <4>0, <4>1, <4>2, <4>3
    <3>. QED
      BY <1>7, <2>3, <3>1, NoInterval
  <2>. QED
    BY <1>1, <1>2, <2>1, <2>2, <2>3

<1>10. IsOne(B, F, v)
  <2>1. CASE k > 0 /\ k <= c /\ k <= m
    <3>1. PICK j \in Levels : j = k - 1 /\ j < c /\ j < m /\ j + 1 = k
      BY <1>1, <1>2, <1>4, <2>1
    <3>2. PICK x : x = Interval("passed", j + 1, n - L(j), 0 - s)
      OBVIOUS
    <3>3. x \in ints
      BY <1>2, <1>5, <3>1, <3>2
    <3>4. x.level = k /\ x.at = "passed" /\ x.n = 0 - s /\ x.d = n - L(j)
      BY <3>1, <3>2 DEF Interval
    <3>5. ASSUME NEW y \in B PROVE y = x
      <4>0. y \in ints /\ y.level = k /\ y.at = "passed"
        OBVIOUS
      <4>1. CASE \E i \in Levels : i <= c /\ i < m /\ y = Interval("met", i, n - Recent(list, i), s)
        BY <4>0, <4>1 DEF Interval
      <4>2. CASE \E i \in Levels : /\ i < c /\ i < m
                                   /\ y = Interval("passed", i + 1, n - Recent(list, i), 0 - s)
        <5>1. PICK i \in Levels : /\ i < c /\ i < m
                                  /\ y = Interval("passed", i + 1, n - Recent(list, i), 0 - s)
          BY <4>2
        <5>2. y.level = i + 1
          BY <5>1 DEF Interval
        <5>3. i = j
          BY <1>1, <3>1, <4>0, <5>2
        <5>. QED
          BY <1>2, <3>1, <3>2, <5>1, <5>3
      <4>3. CASE m <= c /\ y = Interval("first", m, n - w, s)
        BY <4>0, <4>3 DEF Interval
      <4>. QED
        BY <1>5, <4>0, <4>1, <4>2, <4>3
    <3>6. x \in B /\ n - L(j) \in Nat
      BY <1>3, <3>3, <3>4
    <3>7. v = (0 - s) * WindowsIn(n - L(j), ws)
      BY <1>8, <2>1, <3>1
    <3>8. IsOne(B, F, (0 - s) * WindowsIn(n - L(j), ws))
      <4>. HIDE DEF B
      <4>. QED
        BY <1>6, <3>3, <3>4, <3>5, <3>6, OneInterval
    <3>. QED
      BY <3>7, <3>8
  <2>2. CASE ~ (k > 0 /\ k <= c /\ k <= m)
    <3>1. ASSUME NEW y \in B PROVE FALSE
      <4>0. y \in ints /\ y.level = k /\ y.at = "passed"
        OBVIOUS
      <4>1. CASE \E i \in Levels : i <= c /\ i < m /\ y = Interval("met", i, n - Recent(list, i), s)
        BY <4>0, <4>1 DEF Interval
      <4>2. CASE \E i \in Levels : /\ i < c /\ i < m
                                   /\ y = Interval("passed", i + 1, n - Recent(list, i), 0 - s)
        <5>1. PICK i \in Levels : /\ i < c /\ i < m
                                  /\ y = Interval("passed", i + 1, n - Recent(list, i), 0 - s)
          BY <4>2
        <5>2. y.level = i + 1
          BY <5>1 DEF Interval
        <5>. QED
          BY <1>1, <1>2, <2>2, <4>0, <5>1, <5>2
      <4>3. CASE m <= c /\ y = Interval("first", m, n - w, s)
        BY <4>0, <4>3 DEF Interval
      <4>. QED
        BY <1>5, <4>0, <4>1, <4>2, <4>3
    <3>. QED
      BY <1>8, <2>2, <3>1, NoInterval
  <2>. QED
    BY <2>1, <2>2
<1>11. AtLevel(ints, k) = A \cup B /\ A \cap B = {}
  BY DEF AtLevel
<1>12. SumOf(F, A \cup B) = u + v
  <2>. HIDE DEF A, B, F
  <2>. QED
    BY <1>9, <1>10, <1>11, SumTwo
<1>13. PICK y, z : y = WindowsIn(n - L(k), ws) /\ z = WindowsIn(n - L(k - 1), ws)
  OBVIOUS
<1>14. y \in Int /\ (k > 0 => z \in Int)
  BY <1>1, <1>3, <1>4, <1>13 DEF WindowsIn
<1>15. k > 0 /\ k > m => y = z
  <2>1. ASSUME k > 0, k > m PROVE L(k) = w /\ L(k - 1) = w
    BY <1>1, <1>2, <1>4, <2>1
  <2>. QED
    BY <1>13, <2>1
<1>16. Moved(n, list, c, k, ws, w) = (IF k <= c THEN y ELSE 0) - (IF k > 0 /\ k <= c THEN z ELSE 0)
  BY <1>13 DEF Moved, L
<1>17. /\ u = IF k <= c /\ k <= m THEN s * y ELSE 0
       /\ v = IF k > 0 /\ k <= c /\ k <= m THEN (0 - s) * z ELSE 0
  BY <1>7, <1>8, <1>13
<1>18. u + v = s * Moved(n, list, c, k, ws, w)
  <2>1. CASE s = 1
    BY <1>1, <1>2, <1>14, <1>15, <1>16, <1>17, <2>1
  <2>2. CASE s = -1
    BY <1>1, <1>2, <1>14, <1>15, <1>16, <1>17, <2>2
  <2>. QED
    BY <2>1, <2>2
<1>. QED
  BY <1>11, <1>12, <1>18

\* So many levels are below h.
LEMMA CountBelow ==
  ASSUME NEW h \in Nat, h <= NumThreads
  PROVE  Cardinality({i \in Levels : i < h}) = h
<1>1. {i \in Levels : i < h} = 0 .. h - 1
  BY Constants DEF Levels
<1>2. 0 \in Int /\ h - 1 \in Int
  OBVIOUS
<1>3. Cardinality(0 .. h - 1) = IF 0 > h - 1 THEN 0 ELSE h - 1 - 0 + 1
  BY <1>2, FS_Interval
<1>4. (IF 0 > h - 1 THEN 0 ELSE h - 1 - 0 + 1) = h
  OBVIOUS
<1>. QED
  BY <1>1, <1>3, <1>4

\* There are no more images than elements.
LEMMA ImagesFinite ==
  ASSUME NEW S, IsFiniteSet(S), NEW f, DOMAIN f = S, f = [x \in S |-> f[x]],
         NEW X, \A y \in X : \E x \in S : y = f[x]
  PROVE  IsFiniteSet(X)
<1>1. PICK W : W = {f[x] : x \in S}
  OBVIOUS
<1>2. f \in Surjection(S, W)
  BY <1>1 DEF Surjection
<1>3. IsFiniteSet(W)
  BY <1>2, FS_Surjection
<1>4. X \subseteq W
  BY <1>1
<1>. QED
  BY <1>3, <1>4, FS_Subset

\* Intervals of a walk, from those it meets, those it passes and the first.
LEMMA WalkIs ==
  ASSUME NEW n, NEW list, NEW t, NEW c, Accesses(n, list, t, c),
         NEW w \in Nat, w <= n, NEW m \in Nat, NEW s \in {-1, 1},
         NEW X, \A x : x \in X <=> \E i \in Levels :
                         i <= c /\ i < m /\ x = Interval("met", i, n - Recent(list, i), s),
         NEW Y, \A x : x \in Y <=> \E i \in Levels :
                         i < c /\ i < m /\ x = Interval("passed", i + 1, n - Recent(list, i), 0 - s),
         NEW Z, \A x : x \in Z <=> m <= c /\ x = Interval("first", m, n - w, s)
  PROVE  WalkIntervals(X \cup Y \cup Z, n, list, c, m, w, s)
<1>1. /\ n \in Nat /\ IsFiniteSet(Levels)
      /\ \A i \in Levels : n - Recent(list, i) \in Nat /\ n - Recent(list, i) <= n
  <2>1. PICK h : h = Cardinality(LaterThan(list, 0))
    OBVIOUS
  <2>2. n \in Nat /\ \A i \in Levels : Recent(list, i) \in Nat /\ Recent(list, i) <= n
    BY <2>1, AccessFacts
  <2>. QED
    BY <2>2, Constants
<1>2. n - w \in Nat /\ n - w <= n /\ s \in {-1, 1} /\ 0 - s \in {-1, 1}
  BY <1>1
<1>3. IsFiniteSet(X)
  <2>1. PICK f : f = [i \in Levels |-> Interval("met", i, n - Recent(list, i), s)]
    OBVIOUS
  <2>2. \A y \in X : \E i \in Levels : y = f[i]
    BY <2>1
  <2>3. DOMAIN f = Levels /\ f = [i \in Levels |-> f[i]]
    BY <2>1
  <2>. QED
    BY <1>1, <2>2, <2>3, ImagesFinite
<1>4. IsFiniteSet(Y)
  <2>1. PICK f : f = [i \in Levels |-> Interval("passed", i + 1, n - Recent(list, i), 0 - s)]
    OBVIOUS
  <2>2. \A y \in Y : \E i \in Levels : y = f[i]
    BY <2>1
  <2>3. DOMAIN f = Levels /\ f = [i \in Levels |-> f[i]]
    BY <2>1
  <2>. QED
    BY <1>1, <2>2, <2>3, ImagesFinite
<1>5. IsFiniteSet(Z)
  <2>1. PICK x : x = Interval("first", m, n - w, s)
    OBVIOUS
  <2>2. Z \subseteq {x}
    BY <2>1
  <2>. QED
    BY <2>2, FS_Singleton, FS_Subset
<1>6. IsFiniteSet(X \cup Y \cup Z)
  BY <1>3, <1>4, <1>5, FS_Union
<1>7. ASSUME NEW x \in X \cup Y \cup Z
      PROVE  x.n \in {-1, 1} /\ x.d \in Nat /\ x.d <= n
  <2>1. CASE x \in X
    <3>1. PICK i \in Levels : x = Interval("met", i, n - Recent(list, i), s)
      BY <2>1
    <3>2. x.n = s /\ x.d = n - Recent(list, i)
      BY <3>1 DEF Interval
    <3>. QED
      BY <1>1, <1>2, <3>2
  <2>2. CASE x \in Y
    <3>1. PICK i \in Levels : x = Interval("passed", i + 1, n - Recent(list, i), 0 - s)
      BY <2>2
    <3>2. x.n = 0 - s /\ x.d = n - Recent(list, i)
      BY <3>1 DEF Interval
    <3>. QED
      BY <1>1, <1>2, <3>2
  <2>3. CASE x \in Z
    <3>1. x = Interval("first", m, n - w, s)
      BY <2>3
    <3>2. x.n = s /\ x.d = n - w
      BY <3>1 DEF Interval
    <3>. QED
      BY <1>2, <3>2
  <2>. QED
    BY <2>1, <2>2, <2>3
<1>8. Bounded(X \cup Y \cup Z, n)
  BY <1>6, <1>7 DEF Bounded
<1>9. \A x : x \in X \cup Y \cup Z <=>
       \/ \E i \in Levels : i <= c /\ i < m /\ x = Interval("met", i, n - Recent(list, i), s)
       \/ \E i \in Levels : i < c /\ i < m /\ x = Interval("passed", i + 1, n - Recent(list, i), 0 - s)
       \/ m <= c /\ x = Interval("first", m, n - w, s)
  BY Zenon
<1>. QED
  BY <1>8, <1>9 DEF WalkIntervals

\* The intervals of all accesses that an access closes ...
LEMMA ClosedIs ==
  ASSUME NEW n, NEW list, NEW t, NEW c, Accesses(n, list, t, c),
         NEW m, m = Cardinality(LaterThan(list, 0))
  PROVE  WalkIntervals(Closed(list, t, n + 1), n, list, c, m, 0, 1)
<1>0. PICK p : p = n + 1
  OBVIOUS
<1>. DEFINE D(i) == p - list.latest[Chain(list)[i]] - 1
<1>1. n \in Nat /\ m \in Nat /\ c \in Levels /\ c \in Nat /\ c <= m
  BY AccessFacts
<1>2. \A i \in Levels : i < m => D(i) = n - Recent(list, i)
  <2>1. \A i \in Levels : i < m => list.latest[Chain(list)[i]] = Recent(list, i)
    BY AccessFacts
  <2>2. \A i \in Levels : Recent(list, i) \in Nat
    BY AccessFacts
  <2>3. ASSUME NEW i \in Levels, i < m PROVE D(i) = n - Recent(list, i)
    <3>1. PICK r \in Nat : r = list.latest[Chain(list)[i]] /\ r = Recent(list, i)
      BY <2>1, <2>2, <2>3
    <3>2. p - r - 1 = n - r
      BY <1>0, <1>1
    <3>. QED
      BY <3>1, <3>2
  <2>. QED
    BY <2>3
<1>3. \A i : i \in Visited(list, t) <=> i \in Levels /\ i <= c /\ i < m
  <2>1. Visited(list, t) = {i \in Levels : i < c \/ (i = c /\ c < m)}
    BY AccessFacts
  <2>2. \A i \in Levels : i < c \/ (i = c /\ c < m) <=> i <= c /\ i < m
    BY <1>1, Constants
  <2>. QED
    BY <2>1, <2>2
<1>4. \A i : i \in PassedBy(list, t) <=> i \in Levels /\ i < c /\ i < m
  <2>1. PassedBy(list, t) = {i \in Levels : i < c}
    BY AccessFacts
  <2>2. \A i \in Levels : i < c <=> i < c /\ i < m
    BY <1>1, Constants
  <2>. QED
    BY <2>1, <2>2
<1>5. Cardinality(PassedBy(list, t)) = c
  <2>1. c <= NumThreads
    BY <1>1, Constants DEF Levels
  <2>2. PassedBy(list, t) = {i \in Levels : i < c}
    BY AccessFacts
  <2>. QED
    BY <1>1, <2>1, <2>2, CountBelow
<1>6. PICK X : X = {Interval("met", i, D(i), 1) : i \in Visited(list, t)}
  OBVIOUS
<1>7. PICK Y : Y = {Interval("passed", i + 1, D(i), -1) : i \in PassedBy(list, t)}
  OBVIOUS
<1>8. PICK Z : Z = IF Found(list, t) THEN {}
                   ELSE {Interval("first", Cardinality(PassedBy(list, t)), p - 1, 1)}
  OBVIOUS
<1>9. Closed(list, t, p) = X \cup Y \cup Z
  BY <1>6, <1>7, <1>8, Zenon DEF Closed
<1>. HIDE DEF D
<1>10. \A x : x \in X <=> \E i \in Levels :
                i <= c /\ i < m /\ x = Interval("met", i, n - Recent(list, i), 1)
  BY <1>2, <1>3, <1>6
<1>11. \A x : x \in Y <=> \E i \in Levels :
                i < c /\ i < m /\ x = Interval("passed", i + 1, n - Recent(list, i), 0 - 1)
  BY <1>2, <1>4, <1>7
<1>12. \A x : x \in Z <=> m <= c /\ x = Interval("first", m, n - 0, 1)
  <2>1. p - 1 = n /\ n - 0 = n /\ (m <= c <=> ~ (c < m)) /\ (m <= c => m = c)
    BY <1>0, <1>1
  <2>2. Found(list, t) <=> c < m
    BY AccessFacts
  <2>. QED
    BY <1>5, <1>8, <2>1, <2>2
<1>13. WalkIntervals(X \cup Y \cup Z, n, list, c, m, 0, 1)
  <2>1. 0 \in Nat /\ 0 <= n /\ m \in Nat /\ 1 \in {-1, 1}
    BY <1>1
  <2>. QED
    BY <1>10, <1>11, <1>12, <2>1, WalkIs
<1>. QED
  BY <1>0, <1>9, <1>13

\* ... and those of reads: the walk counts the threads since the last write only.
LEMMA ReadClosedIs ==
  ASSUME NEW n, NEW list, NEW t, NEW c, Accesses(n, list, t, c), NEW w \in Nat, w <= n,
         NEW m, m = Cardinality(LaterThan(list, w))
  PROVE  WalkIntervals(ReadClosed(list, t, n + 1, w), n, list, c, m, w, -1)
<1>0. PICK p : p = n + 1
  OBVIOUS
<1>. DEFINE D(i) == p - list.latest[Chain(list)[i]] - 1
            Reads(I) == {i \in I : SinceWrite(list, i, w)}
            Before(i) == Cardinality(Reads({j \in PassedBy(list, t) : j < i}))
<1>1. PICK h : h = Cardinality(LaterThan(list, 0))
  OBVIOUS
<1>2. n \in Nat /\ h \in Nat /\ c \in Levels /\ c \in Nat /\ c <= h /\ list \in StampLists
  BY <1>1, AccessFacts DEF Accesses
<1>3. m \in Nat /\ m <= h
  BY <1>1, <1>2, LaterCounts
<1>4. ASSUME NEW i \in Levels, i < h
      PROVE  (SinceWrite(list, i, w) <=> i < m) /\ D(i) = n - Recent(list, i)
  <2>1. list.latest[Chain(list)[i]] = Recent(list, i)
    BY <1>1, <1>4, AccessFacts
  <2>2. IsRecent(list, i, Recent(list, i)) /\ i \in Nat
    BY <1>1, AccessFacts
  <2>3. Recent(list, i) > w <=> i < m
    BY <1>2, <2>2, RecentAfter
  <2>4. PICK r \in Nat : r = list.latest[Chain(list)[i]] /\ r = Recent(list, i)
    BY <2>1, <2>2 DEF IsRecent
  <2>5. p - r - 1 = n - r
    BY <1>0, <1>2
  <2>. QED
    BY <2>3, <2>4, <2>5 DEF SinceWrite
<1>5. \A i : i \in Visited(list, t) <=> i \in Levels /\ i <= c /\ i < h
  <2>1. Visited(list, t) = {i \in Levels : i < c \/ (i = c /\ c < h)}
    BY <1>1, AccessFacts
  <2>2. \A i \in Levels : i < c \/ (i = c /\ c < h) <=> i <= c /\ i < h
    BY <1>2, Constants
  <2>. QED
    BY <2>1, <2>2
<1>6. \A i : i \in PassedBy(list, t) <=> i \in Levels /\ i < c /\ i < h
  <2>1. PassedBy(list, t) = {i \in Levels : i < c}
    BY <1>1, AccessFacts
  <2>2. \A i \in Levels : i < c <=> i < c /\ i < h
    BY <1>2, Constants
  <2>. QED
    BY <2>1, <2>2
<1>7. \A i \in Levels : i \in Nat /\ (i < m => i < h)
  BY <1>2, <1>3, Constants
<1>8. \A i : i \in Reads(Visited(list, t)) <=> i \in Levels /\ i <= c /\ i < m
  BY <1>4, <1>5, <1>7
<1>9. \A i : i \in Reads(PassedBy(list, t)) <=> i \in Levels /\ i < c /\ i < m
  BY <1>4, <1>6, <1>7
<1>10. ASSUME NEW i \in Levels, i <= c, i < m PROVE Before(i) = i
  <2>1. \A j \in Levels : j < i => j < c /\ j < m /\ j < h
    BY <1>2, <1>3, <1>7, <1>10
  <2>2. Reads({j \in PassedBy(list, t) : j < i}) = {j \in Levels : j < i}
    BY <1>4, <1>6, <2>1
  <2>3. i \in Nat /\ i <= NumThreads
    BY Constants DEF Levels
  <2>. QED
    BY <2>2, <2>3, CountBelow
<1>11. m <= c => Cardinality(Reads(PassedBy(list, t))) = m
  <2>1. ASSUME m <= c PROVE Reads(PassedBy(list, t)) = {i \in Levels : i < m}
    <3>1. \A i \in Levels : i < m => i < c
      BY <1>2, <1>3, <1>7, <2>1
    <3>. HIDE DEF Reads
    <3>. QED
      BY <1>9, <3>1
  <2>2. m <= c => m <= NumThreads
    BY <1>2, <1>3, Constants DEF Levels
  <2>. QED
    BY <1>3, <2>1, <2>2, CountBelow
<1>12. (\E i \in Reads(Visited(list, t)) : Chain(list)[i] = t) <=> c < m
  <2>1. \A i \in Levels : i < h /\ Chain(list)[i] = t => i = c
    BY <1>1, AccessFacts
  <2>2. c < h => Chain(list)[c] = t
    BY <1>1, AccessFacts
  <2>3. c <= c
    BY <1>2
  <2>4. ASSUME c < m PROVE \E i \in Reads(Visited(list, t)) : Chain(list)[i] = t
    <3>. HIDE DEF Reads
    <3>. QED
      BY <1>2, <1>7, <1>8, <2>2, <2>3, <2>4
  <2>5. ASSUME NEW i \in Reads(Visited(list, t)), Chain(list)[i] = t PROVE c < m
    <3>. HIDE DEF Reads
    <3>. QED
      BY <1>7, <1>8, <2>1, <2>5
  <2>. QED
    BY <2>4, <2>5
<1>13. PICK X : X = {Interval("met", Before(i), D(i), -1) : i \in Reads(Visited(list, t))}
  OBVIOUS
<1>14. PICK Y : Y = {Interval("passed", Before(i) + 1, D(i), 1) : i \in Reads(PassedBy(list, t))}
  OBVIOUS
<1>15. PICK Z : Z = IF \E i \in Reads(Visited(list, t)) : Chain(list)[i] = t THEN {}
                    ELSE {Interval("first", Cardinality(Reads(PassedBy(list, t))), p - w - 1, -1)}
  OBVIOUS
<1>16. ReadClosed(list, t, p, w) = X \cup Y \cup Z
  BY <1>13, <1>14, <1>15, Zenon DEF ReadClosed
<1>17. \A i \in Levels : i < m => D(i) = n - Recent(list, i)
  BY <1>4, <1>7
<1>. HIDE DEF D, Reads, Before
<1>18. \A x : x \in X <=> \E i \in Levels :
                i <= c /\ i < m /\ x = Interval("met", i, n - Recent(list, i), -1)
  BY <1>8, <1>10, <1>13, <1>17
<1>19. \A x : x \in Y <=> \E i \in Levels :
                i < c /\ i < m /\ x = Interval("passed", i + 1, n - Recent(list, i), 0 - (-1))
  <2>1. 0 - (-1) = 1 /\ \A i \in Levels : i < c => i <= c
    BY <1>2, <1>7
  <2>. QED
    BY <1>9, <1>10, <1>14, <1>17, <2>1
<1>20. \A x : x \in Z <=> m <= c /\ x = Interval("first", m, n - w, -1)
  <2>1. p - w - 1 = n - w /\ (m <= c <=> ~ (c < m))
    BY <1>0, <1>2, <1>3
  <2>. QED
    BY <1>11, <1>12, <1>15, <2>1
<1>21. WalkIntervals(X \cup Y \cup Z, n, list, c, m, w, -1)
  <2>1. m \in Nat /\ -1 \in {-1, 1}
    BY <1>3
  <2>. QED
    BY <1>18, <1>19, <1>20, <2>1, WalkIs
<1>. QED
  BY <1>0, <1>16, <1>21

\* What the threads since time w leave open after n accesses, the intervals and
\* the segments at the places p and q.
LeftIntervals(ints, n, list, w, p, q) ==
  /\ Bounded(ints, n) /\ p # q
  /\ \A x : x \in ints <=> \E i \in Levels :
       /\ Recent(list, i) > 0 /\ w <= Recent(list, i)
       /\ x = Interval(p, i, n - Recent(list, i), -1) \/ x = Interval(q, i, n - w, 1)

\* They are worth the windows that begin after w up to the stamp of the level.
LEMMA LeftWorth ==
  ASSUME NEW n, NEW list, NEW t, NEW c, Accesses(n, list, t, c), NEW w \in Nat, w <= n,
         NEW ints, NEW p, NEW q, LeftIntervals(ints, n, list, w, p, q),
         NEW k \in Levels, NEW ws \in Nat \ {0}
  PROVE  SumOf(Worth(ints, ws), AtLevel(ints, k))
           = WindowsIn(n - w, ws) - WindowsIn(n - Later(Recent(list, k), w), ws)
<1>. DEFINE A == {x \in ints : x.level = k /\ x.at # p}
            B == {x \in ints : x.level = k /\ x.at = p}
            F == Worth(ints, ws)
<1>1. PICK h : h = Cardinality(LaterThan(list, 0))
  OBVIOUS
<1>2. PICK r \in Nat : r = Recent(list, k) /\ r <= n
  BY <1>1, AccessFacts
<1>3. n \in Nat /\ n - r \in Nat /\ n - w \in Nat
  BY <1>1, <1>2, AccessFacts
<1>4. \A x : x \in ints <=> \E i \in Levels :
       /\ Recent(list, i) > 0 /\ w <= Recent(list, i)
       /\ x = Interval(p, i, n - Recent(list, i), -1) \/ x = Interval(q, i, n - w, 1)
  BY DEF LeftIntervals
<1>5. p # q
  BY DEF LeftIntervals
<1>6. AtLevel(ints, k) = A \cup B /\ A \cap B = {}
  BY DEF AtLevel
<1>7. PICK y, z : y = WindowsIn(n - w, ws) /\ z = WindowsIn(n - r, ws) /\ y \in Int /\ z \in Int
  BY <1>3 DEF WindowsIn
<1>8. ASSUME r > 0, w <= r PROVE SumOf(F, A \cup B) = y - z
  <2>1. PICK x : x = Interval(q, k, n - w, 1)
    OBVIOUS
  <2>2. x \in ints /\ x.level = k /\ x.at # p /\ x.n = 1 /\ x.d = n - w
    BY <1>2, <1>4, <1>5, <1>8, <2>1 DEF Interval
  <2>3. ASSUME NEW a \in A PROVE a = x
    <3>1. PICK i \in Levels : a = Interval(p, i, n - Recent(list, i), -1) \/ a = Interval(q, i, n - w, 1)
      BY <1>4
    <3>2. a = Interval(q, i, n - w, 1)
      BY <3>1 DEF Interval
    <3>3. i = k
      BY <3>2 DEF Interval
    <3>. QED
      BY <2>1, <3>2, <3>3
  <2>4. x \in A /\ 1 \in {-1, 1}
    BY <2>2
  <2>5. IsOne(A, F, 1 * WindowsIn(n - w, ws))
    <3>. HIDE DEF A
    <3>. QED
      BY <1>3, <2>2, <2>3, <2>4, OneInterval
  <2>6. PICK u : u = Interval(p, k, n - r, -1)
    OBVIOUS
  <2>7. u \in ints /\ u.level = k /\ u.at = p /\ u.n = -1 /\ u.d = n - r
    BY <1>2, <1>4, <1>8, <2>6 DEF Interval
  <2>8. ASSUME NEW a \in B PROVE a = u
    <3>1. PICK i \in Levels : a = Interval(p, i, n - Recent(list, i), -1) \/ a = Interval(q, i, n - w, 1)
      BY <1>4
    <3>2. a = Interval(p, i, n - Recent(list, i), -1)
      BY <1>5, <3>1 DEF Interval
    <3>3. i = k
      BY <3>2 DEF Interval
    <3>. QED
      BY <1>2, <2>6, <3>2, <3>3
  <2>9. u \in B /\ -1 \in {-1, 1}
    BY <2>7
  <2>10. IsOne(B, F, (-1) * WindowsIn(n - r, ws))
    <3>. HIDE DEF B
    <3>. QED
      BY <1>3, <2>7, <2>8, <2>9, OneInterval
  <2>11. 1 * y = y /\ (-1) * z = 0 - z /\ y + (0 - z) = y - z
    BY <1>7
  <2>12. IsOne(A, F, y) /\ IsOne(B, F, 0 - z)
    BY <1>7, <2>5, <2>10, <2>11
  <2>13. SumOf(F, A \cup B) = y + (0 - z)
    <3>. HIDE DEF A, B, F
    <3>. QED
      BY <1>6, <2>12, SumTwo
  <2>. QED
    BY <2>11, <2>13
<1>9. ASSUME ~ (r > 0 /\ w <= r) PROVE SumOf(F, A \cup B) = 0
  <2>1. ASSUME NEW a \in ints, a.level = k PROVE FALSE
    <3>1. PICK i \in Levels :
            /\ Recent(list, i) > 0 /\ w <= Recent(list, i)
            /\ a = Interval(p, i, n - Recent(list, i), -1) \/ a = Interval(q, i, n - w, 1)
      BY <1>4
    <3>2. i = k
      BY <2>1, <3>1 DEF Interval
    <3>. QED
      BY <1>2, <1>9, <3>1, <3>2
  <2>2. A \cup B = {}
    BY <2>1
  <2>. QED
    BY <2>2, FS_EmptySet, SumStep
<1>10. Later(r, w) = IF w <= r THEN r ELSE w
  BY <1>2 DEF Later
<1>11. WindowsIn(n - Later(Recent(list, k), w), ws) = IF r > 0 /\ w <= r THEN z ELSE y
  <2>1. CASE w <= r /\ r > 0
    BY <1>2, <1>7, <1>10, <2>1
  <2>2. CASE w <= r /\ ~ (r > 0)
    <3>1. r = w
      BY <1>2, <2>2
    <3>. QED
      BY <1>2, <1>7, <1>10, <2>2, <3>1
  <2>3. CASE ~ (w <= r)
    BY <1>2, <1>7, <1>10, <2>3
  <2>. QED
    BY <1>2, <2>1, <2>2, <2>3
<1>. QED
  BY <1>6, <1>7, <1>8, <1>9, <1>11

\* The threads since a time that may be that of a write.
LEMMA SinceIs ==
  ASSUME NEW n, NEW list, NEW t, NEW c, Accesses(n, list, t, c), NEW w \in Nat, w <= n
  PROVE  /\ \A i : i \in {j \in InList(list) : list.latest[Chain(list)[j]] >= w}
                     <=> i \in Levels /\ Recent(list, i) > 0 /\ w <= Recent(list, i)
         /\ \A i \in InList(list) : n - list.latest[Chain(list)[i]] = n - Recent(list, i)
         /\ \A i : i \in InList(list) <=> i \in Levels /\ Recent(list, i) > 0
<1>1. PICK h : h = Cardinality(LaterThan(list, 0))
  OBVIOUS
<1>2. \A i : i \in InList(list) <=> i \in Levels /\ i < h
  <2>1. InList(list) = {i \in Levels : i < h}
    BY <1>1, AccessFacts
  <2>. QED
    BY <2>1
<1>3. \A i \in Levels : Recent(list, i) > 0 <=> i < h
  BY <1>1, AccessFacts
<1>4. \A i \in Levels : i < h => list.latest[Chain(list)[i]] = Recent(list, i)
  BY <1>1, AccessFacts
<1>5. \A i \in Levels : Recent(list, i) \in Nat
  BY <1>1, AccessFacts
<1>. QED
  BY <1>2, <1>3, <1>4, <1>5

\* Intervals that end within the trace, from two families.
LEMMA LeftIs ==
  ASSUME NEW n, NEW list, NEW t, NEW c, Accesses(n, list, t, c), NEW w \in Nat, w <= n,
         NEW p, NEW q, p # q, NEW ints,
         \A x : x \in ints <=> \E i \in Levels :
           /\ Recent(list, i) > 0 /\ w <= Recent(list, i)
           /\ x = Interval(p, i, n - Recent(list, i), -1) \/ x = Interval(q, i, n - w, 1)
  PROVE  LeftIntervals(ints, n, list, w, p, q)
<1>1. /\ n \in Nat /\ IsFiniteSet(Levels)
      /\ \A i \in Levels : n - Recent(list, i) \in Nat /\ n - Recent(list, i) <= n
  <2>1. PICK h : h = Cardinality(LaterThan(list, 0))
    OBVIOUS
  <2>2. n \in Nat /\ \A i \in Levels : Recent(list, i) \in Nat /\ Recent(list, i) <= n
    BY <2>1, AccessFacts
  <2>. QED
    BY <2>2, Constants
<1>2. n - w \in Nat /\ n - w <= n
  BY <1>1
<1>3. PICK X : X = {x \in ints : \E i \in Levels : x = Interval(p, i, n - Recent(list, i), -1)}
  OBVIOUS
<1>4. PICK Y : Y = {x \in ints : \E i \in Levels : x = Interval(q, i, n - w, 1)}
  OBVIOUS
<1>5. IsFiniteSet(X)
  <2>1. PICK f : f = [i \in Levels |-> Interval(p, i, n - Recent(list, i), -1)]
    OBVIOUS
  <2>2. \A y \in X : \E i \in Levels : y = f[i]
    BY <1>3, <2>1
  <2>3. DOMAIN f = Levels /\ f = [i \in Levels |-> f[i]]
    BY <2>1
  <2>. QED
    BY <1>1, <2>2, <2>3, ImagesFinite
<1>6. IsFiniteSet(Y)
  <2>1. PICK f : f = [i \in Levels |-> Interval(q, i, n - w, 1)]
    OBVIOUS
  <2>2. \A y \in Y : \E i \in Levels : y = f[i]
    BY <1>4, <2>1
  <2>3. DOMAIN f = Levels /\ f = [i \in Levels |-> f[i]]
    BY <2>1
  <2>. QED
    BY <1>1, <2>2, <2>3, ImagesFinite
<1>7. ints = X \cup Y
  BY <1>3, <1>4
<1>8. IsFiniteSet(ints)
  BY <1>5, <1>6, <1>7, FS_Union
<1>9. ASSUME NEW x \in ints PROVE x.n \in {-1, 1} /\ x.d \in Nat /\ x.d <= n
  <2>1. PICK i \in Levels : x = Interval(p, i, n - Recent(list, i), -1) \/ x = Interval(q, i, n - w, 1)
    OBVIOUS
  <2>2. (x.n = -1 /\ x.d = n - Recent(list, i)) \/ (x.n = 1 /\ x.d = n - w)
    BY <2>1 DEF Interval
  <2>. QED
    BY <1>1, <1>2, <2>2
<1>. QED
  BY <1>8, <1>9 DEF LeftIntervals, Bounded

\* The read-only intervals that a write closes ...
LEMMA LeftOverIs ==
  ASSUME NEW n, NEW list, NEW t, NEW c, Accesses(n, list, t, c), NEW w \in Nat, w <= n
  PROVE  LeftIntervals(LeftOver(list, n, w), n, list, w, "left", "segment")
<1>1. PICK S : S = {i \in InList(list) : list.latest[Chain(list)[i]] >= w}
  OBVIOUS
<1>2. /\ \A i : i \in S <=> i \in Levels /\ Recent(list, i) > 0 /\ w <= Recent(list, i)
      /\ \A i \in S : n - list.latest[Chain(list)[i]] = n - Recent(list, i)
  BY <1>1, SinceIs
<1>3. PICK X : X = {Interval("left", i, n - list.latest[Chain(list)[i]], -1) : i \in S}
  OBVIOUS
<1>4. PICK Y : Y = {Interval("segment", i, n - w, 1) : i \in S}
  OBVIOUS
<1>5. LeftOver(list, n, w) = X \cup Y
  BY <1>1, <1>3, <1>4, Zenon DEF LeftOver
<1>6. \A x : x \in X <=> \E i \in S : x = Interval("left", i, n - Recent(list, i), -1)
  BY <1>2, <1>3
<1>7. \A x : x \in Y <=> \E i \in S : x = Interval("segment", i, n - w, 1)
  BY <1>4
<1>8. \A x : x \in X \cup Y <=> \E i \in Levels :
        /\ Recent(list, i) > 0 /\ w <= Recent(list, i)
        /\ x = Interval("left", i, n - Recent(list, i), -1) \/ x = Interval("segment", i, n - w, 1)
  BY <1>2, <1>6, <1>7
<1>9. LeftIntervals(X \cup Y, n, list, w, "left", "segment")
  <2>1. "left" # "segment"
    OBVIOUS
  <2>. QED
    BY <1>8, <2>1, LeftIs
<1>. QED
  BY <1>5, <1>9

\* The intervals of a line that the end of the trace closes, the read-only ones
\* with their line ...
Tagged(l, list, end, written) == {[x EXCEPT !.at = <<l, @>>] : x \in LeftOver(list, end, written)}

\* The intervals left over by a write, told apart by their line.
LEMMA TaggedIs ==
  ASSUME NEW n, NEW list, NEW t, NEW c, Accesses(n, list, t, c), NEW w \in Nat, w <= n, NEW l
  PROVE  LeftIntervals(Tagged(l, list, n, w), n, list, w, <<l, "left">>, <<l, "segment">>)
<1>1. PICK ints : ints = LeftOver(list, n, w)
  OBVIOUS
<1>2. \A x : x \in ints <=> \E i \in Levels :
        /\ Recent(list, i) > 0 /\ w <= Recent(list, i)
        /\ x = Interval("left", i, n - Recent(list, i), -1) \/ x = Interval("segment", i, n - w, 1)
  BY <1>1, LeftOverIs DEF LeftIntervals
<1>3. PICK T : T = {[x EXCEPT !.at = <<l, @>>] : x \in ints}
  OBVIOUS
<1>4. \A x : x \in T <=> \E y \in ints : x = [y EXCEPT !.at = <<l, @>>]
  BY <1>3
<1>5. ASSUME NEW i, NEW d, NEW m, NEW at
      PROVE  [Interval(at, i, d, m) EXCEPT !.at = <<l, @>>] = Interval(<<l, at>>, i, d, m)
  BY DEF Interval
<1>6. \A x : x \in T <=> \E i \in Levels :
        /\ Recent(list, i) > 0 /\ w <= Recent(list, i)
        /\ \/ x = Interval(<<l, "left">>, i, n - Recent(list, i), -1)
           \/ x = Interval(<<l, "segment">>, i, n - w, 1)
  <2>1. ASSUME NEW x \in T
        PROVE  \E i \in Levels :
                 /\ Recent(list, i) > 0 /\ w <= Recent(list, i)
                 /\ \/ x = Interval(<<l, "left">>, i, n - Recent(list, i), -1)
                    \/ x = Interval(<<l, "segment">>, i, n - w, 1)
    <3>1. PICK y \in ints : x = [y EXCEPT !.at = <<l, @>>]
      BY <1>4
    <3>2. PICK i \in Levels :
            /\ Recent(list, i) > 0 /\ w <= Recent(list, i)
            /\ y = Interval("left", i, n - Recent(list, i), -1) \/ y = Interval("segment", i, n - w, 1)
      BY <1>2
    <3>3. \/ x = Interval(<<l, "left">>, i, n - Recent(list, i), -1)
          \/ x = Interval(<<l, "segment">>, i, n - w, 1)
      BY <1>5, <3>1, <3>2
    <3>. QED
      BY <3>2, <3>3
  <2>2. ASSUME NEW x, NEW i \in Levels, Recent(list, i) > 0, w <= Recent(list, i),
               \/ x = Interval(<<l, "left">>, i, n - Recent(list, i), -1)
               \/ x = Interval(<<l, "segment">>, i, n - w, 1)
        PROVE  x \in T
    <3>1. CASE x = Interval(<<l, "left">>, i, n - Recent(list, i), -1)
      <4>1. PICK y : y = Interval("left", i, n - Recent(list, i), -1)
        OBVIOUS
      <4>2. y \in ints
        BY <1>2, <2>2, <4>1
      <4>3. [y EXCEPT !.at = <<l, @>>] = x
        BY <1>5, <3>1, <4>1
      <4>. QED
        BY <1>4, <4>2, <4>3
    <3>2. CASE x = Interval(<<l, "segment">>, i, n - w, 1)
      <4>1. PICK y : y = Interval("segment", i, n - w, 1)
        OBVIOUS
      <4>2. y \in ints
        BY <1>2, <2>2, <4>1
      <4>3. [y EXCEPT !.at = <<l, @>>] = x
        BY <1>5, <3>2, <4>1
      <4>. QED
        BY <1>4, <4>2, <4>3
    <3>. QED
      BY <2>2, <3>1, <3>2
  <2>. QED
    BY <2>1, <2>2
<1>7. LeftIntervals(T, n, list, w, <<l, "left">>, <<l, "segment">>)
  <2>1. PICK p, q : p = <<l, "left">> /\ q = <<l, "segment">>
    OBVIOUS
  <2>2. p # q
    BY <2>1
  <2>3. \A x : x \in T <=> \E i \in Levels :
          /\ Recent(list, i) > 0 /\ w <= Recent(list, i)
          /\ x = Interval(p, i, n - Recent(list, i), -1) \/ x = Interval(q, i, n - w, 1)
    BY <1>6, <2>1
  <2>4. LeftIntervals(T, n, list, w, p, q)
    BY <2>2, <2>3, LeftIs
  <2>. QED
    BY <2>1, <2>4
<1>. QED
  BY <1>1, <1>3, <1>7 DEF Tagged

\* ... and those of all accesses: the windows that begin by the stamp of a level
\* have not been looked at.
OpenOf(l, list, n) ==
  {Interval(l, i, n - list.latest[Chain(list)[i]], 1) : i \in InList(list)}

\* What the intervals that are open at the end are worth in a row.
LEMMA OpenWorth ==
  ASSUME NEW n, NEW list, NEW t, NEW c, Accesses(n, list, t, c), NEW l,
         NEW ints, ints = OpenOf(l, list, n), NEW k \in Levels, NEW ws \in Nat \ {0}
  PROVE  /\ Bounded(ints, n) /\ \A x \in ints : x.at = l
         /\ SumOf(Worth(ints, ws), AtLevel(ints, k))
              = IF Recent(list, k) > 0 THEN WindowsIn(n - Recent(list, k), ws) ELSE 0
<1>1. PICK h : h = Cardinality(LaterThan(list, 0))
  OBVIOUS
<1>2. /\ n \in Nat /\ IsFiniteSet(Levels)
      /\ \A i \in Levels : n - Recent(list, i) \in Nat /\ n - Recent(list, i) <= n
  <2>1. n \in Nat /\ \A i \in Levels : Recent(list, i) \in Nat /\ Recent(list, i) <= n
    BY <1>1, AccessFacts
  <2>. QED
    BY <2>1, Constants
<1>3. \A x : x \in ints <=> \E i \in Levels :
        Recent(list, i) > 0 /\ x = Interval(l, i, n - Recent(list, i), 1)
  <2>1. PICK S : S = InList(list)
    OBVIOUS
  <2>2. /\ \A i : i \in S <=> i \in Levels /\ Recent(list, i) > 0
        /\ \A i \in S : n - list.latest[Chain(list)[i]] = n - Recent(list, i)
    <3>1. 0 \in Nat /\ 0 <= n
      BY <1>2
    <3>. QED
      BY <2>1, <3>1, SinceIs
  <2>3. ints = {Interval(l, i, n - list.latest[Chain(list)[i]], 1) : i \in S}
    BY <2>1 DEF OpenOf
  <2>4. \A x : x \in ints <=> \E i \in S : x = Interval(l, i, n - Recent(list, i), 1)
    BY <2>2, <2>3
  <2>. QED
    BY <2>2, <2>4
<1>4. IsFiniteSet(ints)
  <2>1. PICK f : f = [i \in Levels |-> Interval(l, i, n - Recent(list, i), 1)]
    OBVIOUS
  <2>2. \A y \in ints : \E i \in Levels : y = f[i]
    BY <1>3, <2>1
  <2>3. DOMAIN f = Levels /\ f = [i \in Levels |-> f[i]]
    BY <2>1
  <2>. QED
    BY <1>2, <2>2, <2>3, ImagesFinite
<1>5. ASSUME NEW x \in ints
      PROVE  x.n \in {-1, 1} /\ x.d \in Nat /\ x.d <= n /\ x.at = l
  <2>1. PICK i \in Levels : x = Interval(l, i, n - Recent(list, i), 1)
    BY <1>3
  <2>2. x.n = 1 /\ x.d = n - Recent(list, i) /\ x.at = l
    BY <2>1 DEF Interval
  <2>. QED
    BY <1>2, <2>2
<1>6. Bounded(ints, n)
  BY <1>4, <1>5 DEF Bounded
<1>7. PICK A : A = AtLevel(ints, k)
  OBVIOUS
<1>8. ASSUME Recent(list, k) > 0
      PROVE  SumOf(Worth(ints, ws), A) = WindowsIn(n - Recent(list, k), ws)
  <2>1. PICK x : x = Interval(l, k, n - Recent(list, k), 1)
    OBVIOUS
  <2>2. x \in ints /\ x.level = k /\ x.n = 1 /\ x.d = n - Recent(list, k)
    BY <1>3, <1>8, <2>1 DEF Interval
  <2>3. ASSUME NEW a \in A PROVE a = x
    <3>1. a \in ints /\ a.level = k
      BY <1>7 DEF AtLevel
    <3>2. PICK i \in Levels : a = Interval(l, i, n - Recent(list, i), 1)
      BY <1>3, <3>1
    <3>3. i = k
      BY <3>1, <3>2 DEF Interval
    <3>. QED
      BY <2>1, <3>2, <3>3
  <2>4. x \in A /\ 1 \in {-1, 1}
    BY <1>7, <2>2 DEF AtLevel
  <2>5. PICK d \in Nat : d = n - Recent(list, k)
    BY <1>2
  <2>6. IsOne(A, Worth(ints, ws), 1 * WindowsIn(d, ws))
    BY <2>2, <2>3, <2>4, <2>5, OneInterval
  <2>7. 1 * WindowsIn(d, ws) = WindowsIn(d, ws)
    BY DEF WindowsIn
  <2>8. A = {x} /\ Worth(ints, ws)[x] = WindowsIn(d, ws) /\ WindowsIn(d, ws) \in Int
    BY <2>3, <2>4, <2>6, <2>7 DEF IsOne
  <2>. QED
    BY <2>5, <2>8, SumSingle
<1>9. ASSUME ~ (Recent(list, k) > 0) PROVE SumOf(Worth(ints, ws), A) = 0
  <2>1. ASSUME NEW a \in A PROVE FALSE
    <3>1. a \in ints /\ a.level = k
      BY <1>7 DEF AtLevel
    <3>2. PICK i \in Levels : Recent(list, i) > 0 /\ a = Interval(l, i, n - Recent(list, i), 1)
      BY <1>3, <3>1
    <3>3. i = k
      BY <3>1, <3>2 DEF Interval
    <3>. QED
      BY <1>9, <3>2, <3>3
  <2>2. A = {}
    BY <2>1
  <2>. QED
    BY <2>2, FS_EmptySet, SumStep
<1>. QED
  BY <1>5, <1>6, <1>7, <1>8, <1>9

\* The list after an access.
AfterAccess(n, list, t) == MovedToFront(list, t, n + 1, Prev(list, t))

IsAfterAccess(n, list, t, c, moved) ==
  /\ moved \in StampLists /\ MostRecentFirst(moved)
  /\ moved.latest = [list.latest EXCEPT ![t] = n + 1]
  /\ \A k \in Levels :
       /\ Recent(moved, k)
            = IF k = 0 THEN n + 1 ELSE Recent(list, IF k <= c THEN k - 1 ELSE k)
       /\ Recent(list, k) <= Recent(moved, k)

\* An access moves the stamps of the levels up to that of the thread.
LEMMA AccessList ==
  ASSUME NEW n, NEW list, NEW t, NEW c, Accesses(n, list, t, c),
         NEW moved, moved = AfterAccess(n, list, t)
  PROVE  IsAfterAccess(n, list, t, c, moved)
<1>1. /\ list \in StampLists /\ MostRecentFirst(list) /\ t \in Threads /\ n \in Nat
      /\ (\A u \in Threads : list.latest[u] <= n) /\ c = LevelOf(list, t)
  BY DEF Accesses
<1>2. PICK h : h = Cardinality(LaterThan(list, 0))
  OBVIOUS
<1>3. /\ c \in Nat /\ \A k \in Levels : k \in Nat
      /\ \A i \in Levels : Recent(list, i) \in Nat /\ Recent(list, i) <= n
      /\ \A i, j \in Levels : i <= j => Recent(list, j) <= Recent(list, i)
  BY <1>2, AccessFacts, Constants
<1>4. /\ moved \in StampLists /\ MostRecentFirst(moved)
      /\ moved.latest = [list.latest EXCEPT ![t] = n + 1]
      /\ \A i \in Nat : Recent(moved, i)
           = IF i = 0 THEN n + 1 ELSE Recent(list, IF i <= c THEN i - 1 ELSE i)
  <2>1. n + 1 \in Nat /\ \A u \in Threads : list.latest[u] < n + 1
    <3>1. \A u \in Threads : list.latest[u] \in Nat
      BY <1>1 DEF StampLists
    <3>. QED
      BY <1>1, <3>1
  <2>2. PICK p \in Nat : p = n + 1
    BY <2>1
  <2>3. moved = MovedToFront(list, t, p, Prev(list, t)) /\ \A u \in Threads : list.latest[u] < p
    BY <2>1, <2>2 DEF AfterAccess
  <2>4. /\ moved \in StampLists /\ MostRecentFirst(moved)
        /\ moved.latest = [list.latest EXCEPT ![t] = p]
        /\ \A k \in Nat : Recent(moved, k)
             = IF k = 0 THEN p ELSE Recent(list, IF k <= c THEN k - 1 ELSE k)
    BY <1>1, <2>3, MoveKeeps
  <2>. QED
    BY <2>2, <2>4
<1>5. ASSUME NEW k \in Levels
      PROVE  Recent(moved, k) = IF k = 0 THEN n + 1 ELSE Recent(list, IF k <= c THEN k - 1 ELSE k)
  BY <1>3, <1>4
<1>6. ASSUME NEW k \in Levels, k > 0 PROVE k - 1 \in Levels
  BY <1>6, Constants DEF Levels
<1>7. ASSUME NEW k \in Levels PROVE Recent(list, k) <= Recent(moved, k)
  <2>1. CASE k = 0
    BY <1>1, <1>3, <1>5, <2>1
  <2>2. CASE k > 0 /\ k <= c
    <3>1. k - 1 <= k
      BY <1>3
    <3>2. Recent(list, k) <= Recent(list, k - 1)
      BY <1>3, <1>6, <2>2, <3>1
    <3>3. Recent(moved, k) = Recent(list, k - 1)
      BY <1>3, <1>5, <2>2
    <3>. QED
      BY <3>2, <3>3
  <2>3. CASE k > 0 /\ ~ (k <= c)
    <3>1. Recent(moved, k) = Recent(list, k)
      BY <1>3, <1>5, <2>3
    <3>. QED
      BY <1>3, <3>1
  <2>. QED
    BY <1>3, <2>1, <2>2, <2>3
<1>. QED
  BY <1>4, <1>5, <1>7 DEF IsAfterAccess

\* The windows between them are those that the intervals of the walk are worth.
LEMMA MovedShift ==
  ASSUME NEW n, NEW list, NEW t, NEW c, Accesses(n, list, t, c),
         NEW moved, moved = AfterAccess(n, list, t),
         NEW k \in Levels, NEW ws \in Nat \ {0}, NEW w \in Nat, w <= n
  PROVE  Moved(n, list, c, k, ws, w)
           = WindowsIn(n - Later(Recent(list, k), w), ws)
               - WindowsIn(n - Later(Recent(moved, k), w), ws)
<1>1. n \in Nat
  BY DEF Accesses
<1>2. PICK h : h = Cardinality(LaterThan(list, 0))
  OBVIOUS
<1>3. c \in Nat /\ k \in Nat /\ Recent(list, k) \in Nat
  BY <1>2, AccessFacts, Constants
<1>4. IsAfterAccess(n, list, t, c, moved)
  BY AccessList
<1>5. Recent(moved, k) = IF k = 0 THEN n + 1 ELSE Recent(list, IF k <= c THEN k - 1 ELSE k)
  BY <1>4 DEF IsAfterAccess
<1>8. \A d \in Int : WindowsIn(d, ws) \in Int
  BY DEF WindowsIn
<1>9. PICK x : x = WindowsIn(n - Later(Recent(list, k), w), ws) /\ x \in Int
  <2>1. n - Later(Recent(list, k), w) \in Int
    BY <1>1, <1>3 DEF Later
  <2>. QED
    BY <1>8, <2>1
<1>10. PICK y : y = WindowsIn(n - Later(Recent(moved, k), w), ws)
  OBVIOUS
<1>11. Moved(n, list, c, k, ws, w) = x - y
  <2>1. CASE k = 0
    <3>1. Recent(moved, k) = n + 1
      BY <1>5, <2>1
    <3>2. Later(n + 1, w) = n + 1
      BY <1>1 DEF Later
    <3>3. WindowsIn(n - (n + 1), ws) = 0
      <4>1. n - (n + 1) = -1
        BY <1>1
      <4>2. WindowsIn(-1, ws) = 0
        BY DEF WindowsIn
      <4>. QED
        BY <4>1, <4>2
    <3>4. y = 0
      BY <1>10, <3>1, <3>2, <3>3
    <3>5. k <= c /\ ~ (k > 0)
      BY <1>3, <2>1
    <3>6. Moved(n, list, c, k, ws, w) = x - 0
      BY <1>9, <3>5 DEF Moved
    <3>. QED
      BY <3>4, <3>6
  <2>2. CASE k > 0 /\ k <= c
    <3>1. Recent(moved, k) = Recent(list, k - 1)
      BY <1>3, <1>5, <2>2
    <3>. QED
      BY <1>9, <1>10, <2>2, <3>1 DEF Moved
  <2>3. CASE k > 0 /\ ~ (k <= c)
    <3>1. Recent(moved, k) = Recent(list, k)
      BY <1>3, <1>5, <2>3
    <3>2. x = y /\ x - y = 0
      BY <1>9, <1>10, <3>1
    <3>3. Moved(n, list, c, k, ws, w) = 0 - 0
      BY <2>3 DEF Moved
    <3>. QED
      BY <3>2, <3>3
  <2>. QED
    BY <1>3, <2>1, <2>2, <2>3
<1>. QED
  BY <1>9, <1>10, <1>11

-----------------------------------------------------------------------------
(***************************************************************************)
(* What an access changes, line by line.                                   *)
(***************************************************************************)
\* What the recorder knows of line l after n accesses.
LineKnown(tr, n, l, list, w) ==
  /\ Listed(tr, n, l, list) /\ MostRecentFirst(list) /\ WrittenAt(tr, n, l, w)

\* The trace goes on with an access of type ty by thread t to line l.
GoesOn(tr, next, n, t, l, ty) ==
  /\ t \in Threads /\ ty \in TAccessType
  /\ \A x \in 1 .. n : next[x] = tr[x]
  /\ next[n + 1].thread = t /\ next[n + 1].line = l /\ next[n + 1].type = ty

\* A known line can be accessed by any thread.
LEMMA KnownAccess ==
  ASSUME NEW tr, NEW n, NEW l, NEW list, NEW w, LineKnown(tr, n, l, list, w), NEW t \in Threads
  PROVE  /\ Accesses(n, list, t, LevelOf(list, t))
         /\ n \in Nat /\ w \in Nat /\ w <= n
BY DEF LineKnown, Listed, WrittenAt, Accesses

\* Of the other lines it is known what it was.
LEMMA OtherLine ==
  ASSUME NEW tr, NEW n, NEW l, NEW list, NEW w, LineKnown(tr, n, l, list, w),
         NEW next, NEW t, NEW u, NEW ty, GoesOn(tr, next, n, t, u, ty), u # l
  PROVE  /\ LineKnown(next, n + 1, l, list, w)
         /\ \A k \in Levels, ws \in Nat \ {0} :
              /\ AllAt(next, n + 1, l, list, k, ws) = AllAt(tr, n, l, list, k, ws)
              /\ ReadsAt(next, n + 1, l, list, w, k, ws) = ReadsAt(tr, n, l, list, w, k, ws)
<1>1. /\ Listed(tr, n, l, list) /\ MostRecentFirst(list) /\ WrittenAt(tr, n, l, w)
      /\ n \in Nat /\ w \in Nat /\ w <= n
  BY DEF LineKnown, Listed, WrittenAt
<1>2. /\ t \in Threads /\ \A x \in 1 .. n : next[x] = tr[x]
      /\ next[n + 1].thread = t /\ next[n + 1].line # l
  BY DEF GoesOn
<1>3. \A x \in 1 .. n + 1 : x \in 1 .. n \/ x = n + 1
  BY <1>1
<1>4. Listed(next, n + 1, l, list)
  <2>1. /\ list \in StampLists /\ (\A u1 \in Threads : list.latest[u1] \in Nat)
        /\ \A u1 \in Threads : list.latest[u1] <= n
    BY <1>1 DEF Listed, StampLists
  <2>2. \A x \in 1 .. n + 1 : next[x].thread \in Threads
    BY <1>1, <1>2, <1>3 DEF Listed
  <2>3. \A x \in 1 .. n + 1 : next[x].line = l => x <= list.latest[next[x].thread]
    BY <1>1, <1>2, <1>3 DEF Listed
  <2>4. \A u1 \in Threads : list.latest[u1] <= n + 1
    BY <1>1, <2>1
  <2>5. \A u1 \in Threads : list.latest[u1] > 0 => /\ next[list.latest[u1]].thread = u1
                                                   /\ next[list.latest[u1]].line = l
    <3>1. ASSUME NEW u1 \in Threads, list.latest[u1] > 0
          PROVE  next[list.latest[u1]] = tr[list.latest[u1]]
      BY <1>1, <1>2, <2>1, <3>1
    <3>. QED
      BY <1>1, <3>1 DEF Listed
  <2>. QED
    BY <1>1, <2>1, <2>2, <2>3, <2>4, <2>5 DEF Listed
<1>5. WrittenAt(next, n + 1, l, w)
  <2>1. w > 0 => next[w] = tr[w]
    BY <1>1, <1>2
  <2>2. \A x \in w + 1 .. n + 1 : x \in w + 1 .. n \/ x = n + 1
    BY <1>1
  <2>3. \A x \in w + 1 .. n : next[x] = tr[x]
    BY <1>1, <1>2
  <2>4. w <= n + 1
    BY <1>1
  <2>. QED
    BY <1>1, <1>2, <2>1, <2>2, <2>3, <2>4 DEF WrittenAt
<1>6. ASSUME NEW k \in Levels, NEW ws \in Nat \ {0}
      PROVE  /\ AllAt(next, n + 1, l, list, k, ws) = AllAt(tr, n, l, list, k, ws)
             /\ ReadsAt(next, n + 1, l, list, w, k, ws) = ReadsAt(tr, n, l, list, w, k, ws)
  <2>1. k \in Nat
    BY Constants
  <2>2. PICK r \in Nat : r = Recent(list, k) /\ r <= n
    BY <1>1, <2>1, ListedRecent
  <2>3. PICK b : b = Later(Recent(list, k), w)
    OBVIOUS
  <2>4. Recent(list, k) <= Recent(list, k)
    BY <2>2
  <2>5. /\ AllAt(next, n + 1, l, list, k, ws)
             = AllAt(tr, n, l, list, k, ws)
                 + (WindowsIn(n - Recent(list, k), ws) - WindowsIn(n - Recent(list, k), ws))
        /\ ReadsAt(next, n + 1, l, list, w, k, ws)
             = ReadsAt(tr, n, l, list, w, k, ws) - (WindowsIn(n - b, ws) - WindowsIn(n - b, ws))
    BY <1>1, <1>2, <1>4, <2>1, <2>3, <2>4, LineGrows
  <2>6. /\ WindowsIn(n - Recent(list, k), ws) - WindowsIn(n - Recent(list, k), ws) = 0
        /\ WindowsIn(n - b, ws) - WindowsIn(n - b, ws) = 0
    <3>1. n - Recent(list, k) \in Int /\ n - b \in Int
      BY <1>1, <2>2, <2>3 DEF Later
    <3>2. WindowsIn(n - Recent(list, k), ws) \in Int /\ WindowsIn(n - b, ws) \in Int
      BY <3>1 DEF WindowsIn
    <3>. QED
      BY <3>2
  <2>7. AllAt(tr, n, l, list, k, ws) \in Int
    <3>1. PICK e : e = Later(Recent(list, k), 0)
      OBVIOUS
    <3>2. 0 \in Nat /\ 0 <= n
      BY <1>1
    <3>. QED
      BY <1>1, <2>1, <3>1, <3>2, ManyCount DEF AllAt
  <2>8. ReadsAt(tr, n, l, list, w, k, ws) \in Int
    BY <1>1, <2>1, <2>3, ReadsCount
  <2>. QED
    BY <2>5, <2>6, <2>7, <2>8
<1>. QED
  BY <1>1, <1>4, <1>5, <1>6 DEF LineKnown

\* The time of the last write, after an access.
WrittenTo(w, n, ty) == IF ty = "WRITE_ACCESS" THEN n + 1 ELSE w

\* The line that is accessed has the thread at the front of its list.
LEMMA AccessedLine ==
  ASSUME NEW tr, NEW n, NEW l, NEW list, NEW w, LineKnown(tr, n, l, list, w),
         NEW next, NEW t, NEW ty, GoesOn(tr, next, n, t, l, ty),
         NEW moved, moved = AfterAccess(n, list, t)
  PROVE  LineKnown(next, n + 1, l, moved, WrittenTo(w, n, ty))
<1>1. /\ Listed(tr, n, l, list) /\ MostRecentFirst(list) /\ WrittenAt(tr, n, l, w)
      /\ n \in Nat /\ w \in Nat /\ w <= n
  BY DEF LineKnown, Listed, WrittenAt
<1>2. /\ t \in Threads /\ ty \in TAccessType /\ \A x \in 1 .. n : next[x] = tr[x]
      /\ next[n + 1].thread = t /\ next[n + 1].line = l /\ next[n + 1].type = ty
  BY DEF GoesOn
<1>3. \A x \in 1 .. n + 1 : x \in 1 .. n \/ x = n + 1
  BY <1>1
<1>4. /\ moved \in StampLists /\ MostRecentFirst(moved)
      /\ moved.latest = [list.latest EXCEPT ![t] = n + 1]
  <2>1. PICK c : c = LevelOf(list, t)
    OBVIOUS
  <2>2. Accesses(n, list, t, c)
    BY <1>2, <2>1, KnownAccess
  <2>. QED
    BY <2>2, AccessList DEF IsAfterAccess
<1>5. /\ \A u \in Threads : list.latest[u] \in Nat /\ list.latest[u] <= n
      /\ \A u \in Threads : moved.latest[u] = IF u = t THEN n + 1 ELSE list.latest[u]
  <2>1. /\ list.latest \in [Threads -> Nat]
        /\ \A u \in Threads : list.latest[u] <= n
    BY <1>1 DEF Listed, StampLists
  <2>. QED
    BY <1>4, <2>1
<1>6. Listed(next, n + 1, l, moved)
  <2>1. \A x \in 1 .. n + 1 : next[x].thread \in Threads
    BY <1>1, <1>2, <1>3 DEF Listed
  <2>2. ASSUME NEW x \in 1 .. n + 1, next[x].line = l
        PROVE  x <= moved.latest[next[x].thread]
    <3>1. CASE x = n + 1
      BY <1>1, <1>2, <1>5, <3>1
    <3>2. CASE x \in 1 .. n /\ next[x].thread = t
      BY <1>1, <1>2, <1>5, <3>2
    <3>3. CASE x \in 1 .. n /\ next[x].thread # t
      <4>1. next[x] = tr[x] /\ tr[x].thread \in Threads /\ tr[x].line = l
        BY <1>1, <1>2, <2>2, <3>3 DEF Listed
      <4>2. x <= list.latest[tr[x].thread]
        BY <1>1, <3>3, <4>1 DEF Listed
      <4>. QED
        BY <1>5, <3>3, <4>1, <4>2
    <3>. QED
      BY <1>3, <3>1, <3>2, <3>3
  <2>3. \A u \in Threads : moved.latest[u] <= n + 1
    BY <1>1, <1>5
  <2>4. ASSUME NEW u \in Threads, moved.latest[u] > 0
        PROVE  next[moved.latest[u]].thread = u /\ next[moved.latest[u]].line = l
    <3>1. CASE u = t
      BY <1>2, <1>5, <3>1
    <3>2. CASE u # t
      <4>1. PICK x : x = list.latest[u] /\ x = moved.latest[u]
        BY <1>5, <3>2
      <4>2. x \in 1 .. n
        <5>1. x \in Nat /\ x <= n
          BY <1>5, <4>1
        <5>2. x > 0
          BY <2>4, <4>1
        <5>. QED
          BY <1>1, <5>1, <5>2
      <4>3. next[x] = tr[x]
        BY <1>2, <4>2
      <4>4. tr[x].thread = u /\ tr[x].line = l
        BY <1>1, <2>4, <4>1 DEF Listed
      <4>. QED
        BY <4>1, <4>3, <4>4
    <3>. QED
      BY <3>1, <3>2
  <2>5. n + 1 \in Nat
    BY <1>1
  <2>. QED
    BY <1>4, <2>1, <2>2, <2>3, <2>4, <2>5 DEF Listed
<1>7. WrittenAt(next, n + 1, l, WrittenTo(w, n, ty))
  <2>1. CASE ty = "WRITE_ACCESS"
    <3>1. PICK p : p = n + 1
      OBVIOUS
    <3>2. p \in Nat /\ p <= p /\ \A x \in p + 1 .. p : FALSE
      BY <1>1, <3>1
    <3>3. next[p].line = l /\ next[p].type = "WRITE_ACCESS"
      BY <1>2, <2>1, <3>1
    <3>4. WrittenAt(next, p, l, p)
      BY <3>2, <3>3 DEF WrittenAt
    <3>. QED
      BY <2>1, <3>1, <3>4 DEF WrittenTo
  <2>2. CASE ty # "WRITE_ACCESS"
    <3>1. next[n + 1].type = "READ_ACCESS"
      BY <1>2, <2>2 DEF TAccessType
    <3>2. w > 0 => next[w] = tr[w]
      BY <1>1, <1>2
    <3>3. \A x \in w + 1 .. n + 1 : x \in w + 1 .. n \/ x = n + 1
      BY <1>1
    <3>4. \A x \in w + 1 .. n : next[x] = tr[x]
      BY <1>1, <1>2
    <3>5. w <= n + 1
      BY <1>1
    <3>6. WrittenAt(next, n + 1, l, w)
      BY <1>1, <3>1, <3>2, <3>3, <3>4, <3>5 DEF WrittenAt
    <3>. QED
      BY <2>2, <3>6 DEF WrittenTo
  <2>. QED
    BY <2>1, <2>2
<1>. QED
  BY <1>4, <1>6, <1>7 DEF LineKnown

\* The intervals it closes, those of all accesses and the read-only ones ...
ReadOnlyClosed(list, t, n, w, ty) ==
  IF ty = "READ_ACCESS" THEN ReadClosed(list, t, n + 1, w) ELSE LeftOver(list, n, w)

\* ... change what it accounts for in each row.
LEMMA AccessedCounts ==
  ASSUME NEW tr, NEW n, NEW l, NEW list, NEW w, LineKnown(tr, n, l, list, w),
         NEW next, NEW t, NEW ty, GoesOn(tr, next, n, t, l, ty),
         NEW moved, moved = AfterAccess(n, list, t),
         NEW all, all = Closed(list, t, n + 1),
         NEW ro, ro = ReadOnlyClosed(list, t, n, w, ty),
         NEW k \in Levels, NEW ws \in Nat \ {0}
  PROVE  /\ Bounded(all, n) /\ Bounded(ro, n)
         /\ AllAt(tr, n, l, list, k, ws) \in Int /\ ReadsAt(tr, n, l, list, w, k, ws) \in Int
         /\ AllAt(next, n + 1, l, moved, k, ws)
              = AllAt(tr, n, l, list, k, ws) + SumOf(Worth(all, ws), AtLevel(all, k))
         /\ ReadsAt(next, n + 1, l, moved, WrittenTo(w, n, ty), k, ws)
              = ReadsAt(tr, n, l, list, w, k, ws) + SumOf(Worth(ro, ws), AtLevel(ro, k))
<1>1. /\ Listed(tr, n, l, list) /\ WrittenAt(tr, n, l, w)
      /\ n \in Nat /\ w \in Nat /\ w <= n /\ 0 \in Nat /\ 0 <= n
  BY DEF LineKnown, Listed, WrittenAt
<1>2. t \in Threads /\ ty \in TAccessType /\ \A x \in 1 .. n : next[x] = tr[x]
  BY DEF GoesOn
<1>3. PICK c : c = LevelOf(list, t)
  OBVIOUS
<1>4. Accesses(n, list, t, c)
  BY <1>2, <1>3, KnownAccess
<1>5. Listed(next, n + 1, l, moved)
  BY AccessedLine DEF LineKnown
<1>6. k \in Nat
  BY Constants
<1>7. PICK r \in Nat, q \in Nat : r = Recent(list, k) /\ q = Recent(moved, k)
  BY <1>1, <1>5, <1>6, ListedRecent
<1>17. ASSUME NEW v \in Nat, v <= n
       PROVE  Moved(n, list, c, k, ws, v)
                = WindowsIn(n - Later(Recent(list, k), v), ws)
                    - WindowsIn(n - Later(Recent(moved, k), v), ws)
  BY <1>4, <1>17, MovedShift
<1>8. r <= q
  <2>1. IsAfterAccess(n, list, t, c, moved)
    BY <1>4, AccessList
  <2>. QED
    BY <1>7, <2>1 DEF IsAfterAccess
<1>9. PICK b, e : b = Later(Recent(list, k), w) /\ e = Later(Recent(moved, k), w)
  OBVIOUS
<1>10. b \in Int /\ e \in Int
  BY <1>1, <1>7, <1>9 DEF Later
<1>11. /\ AllAt(next, n + 1, l, moved, k, ws)
             = AllAt(tr, n, l, list, k, ws)
                 + (WindowsIn(n - Recent(list, k), ws) - WindowsIn(n - Recent(moved, k), ws))
       /\ ReadsAt(next, n + 1, l, moved, w, k, ws)
             = ReadsAt(tr, n, l, list, w, k, ws) - (WindowsIn(n - b, ws) - WindowsIn(n - e, ws))
  BY <1>1, <1>2, <1>5, <1>6, <1>7, <1>8, <1>9, LineGrows
<1>12. AllAt(tr, n, l, list, k, ws) \in Int /\ ReadsAt(tr, n, l, list, w, k, ws) \in Int
  <2>1. AllAt(tr, n, l, list, k, ws) \in Int
    <3>1. PICK e0 : e0 = Later(Recent(list, k), 0)
      OBVIOUS
    <3>. QED
      BY <1>1, <1>6, <3>1, ManyCount DEF AllAt
  <2>2. ReadsAt(tr, n, l, list, w, k, ws) \in Int
    BY <1>1, <1>6, <1>9, ReadsCount
  <2>. QED
    BY <2>1, <2>2
<1>13. \A d \in Int : WindowsIn(d, ws) \in Int
  BY DEF WindowsIn
<1>14. SumOf(Worth(all, ws), AtLevel(all, k)) = WindowsIn(n - r, ws) - WindowsIn(n - q, ws)
       /\ Bounded(all, n)
  <2>1. PICK m : m = Cardinality(LaterThan(list, 0))
    OBVIOUS
  <2>2. WalkIntervals(all, n, list, c, m, 0, 1)
    BY <1>4, <2>1, ClosedIs
  <2>3. SumOf(Worth(all, ws), AtLevel(all, k)) = 1 * Moved(n, list, c, k, ws, 0)
    <3>1. 1 \in {-1, 1}
      OBVIOUS
    <3>. QED
      BY <1>1, <1>4, <2>1, <2>2, <3>1, WalkWorth
  <2>4. Moved(n, list, c, k, ws, 0)
          = WindowsIn(n - Later(Recent(list, k), 0), ws)
              - WindowsIn(n - Later(Recent(moved, k), 0), ws)
    BY <1>1, <1>17
  <2>5. Later(Recent(list, k), 0) = r /\ Later(Recent(moved, k), 0) = q
    BY <1>7 DEF Later
  <2>6. WindowsIn(n - r, ws) - WindowsIn(n - q, ws) \in Int
    <3>1. n - r \in Int /\ n - q \in Int
      BY <1>1
    <3>2. WindowsIn(n - r, ws) \in Int /\ WindowsIn(n - q, ws) \in Int
      BY <1>13, <3>1
    <3>. QED
      BY <3>2
  <2>. QED
    BY <2>2, <2>3, <2>4, <2>5, <2>6 DEF WalkIntervals
<1>15. CASE ty = "READ_ACCESS"
  <2>1. ro = ReadClosed(list, t, n + 1, w) /\ WrittenTo(w, n, ty) = w
    BY <1>15 DEF ReadOnlyClosed, WrittenTo
  <2>2. PICK m : m = Cardinality(LaterThan(list, w))
    OBVIOUS
  <2>3. WalkIntervals(ro, n, list, c, m, w, -1)
    BY <1>1, <1>4, <2>1, <2>2, ReadClosedIs
  <2>4. SumOf(Worth(ro, ws), AtLevel(ro, k)) = (-1) * Moved(n, list, c, k, ws, w)
    <3>1. -1 \in {-1, 1}
      OBVIOUS
    <3>. QED
      BY <1>1, <1>4, <2>2, <2>3, <3>1, WalkWorth
  <2>5. Moved(n, list, c, k, ws, w) = WindowsIn(n - b, ws) - WindowsIn(n - e, ws)
    BY <1>1, <1>9, <1>17
  <2>6. PICK y \in Int : y = WindowsIn(n - b, ws) - WindowsIn(n - e, ws)
    <3>1. n - b \in Int /\ n - e \in Int
      BY <1>1, <1>10
    <3>2. WindowsIn(n - b, ws) \in Int /\ WindowsIn(n - e, ws) \in Int
      BY <1>13, <3>1
    <3>. QED
      BY <3>2
  <2>7. PICK z \in Int : z = ReadsAt(tr, n, l, list, w, k, ws)
    BY <1>12
  <2>8. (-1) * y = 0 - y /\ z - y = z + (0 - y)
    OBVIOUS
  <2>9. ReadsAt(next, n + 1, l, moved, w, k, ws) = z - y
    BY <1>11, <2>6, <2>7
  <2>10. SumOf(Worth(ro, ws), AtLevel(ro, k)) = 0 - y
    BY <2>4, <2>5, <2>6, <2>8
  <2>11. ReadsAt(next, n + 1, l, moved, WrittenTo(w, n, ty), k, ws)
              = ReadsAt(tr, n, l, list, w, k, ws) + SumOf(Worth(ro, ws), AtLevel(ro, k))
    BY <2>1, <2>7, <2>8, <2>9, <2>10
  <2>. QED
    BY <1>7, <1>11, <1>12, <1>14, <2>3, <2>11 DEF WalkIntervals
<1>16. CASE ty = "WRITE_ACCESS"
  <2>1. ro = LeftOver(list, n, w) /\ WrittenTo(w, n, ty) = n + 1
    BY <1>16 DEF ReadOnlyClosed, WrittenTo
  <2>2. LeftIntervals(ro, n, list, w, "left", "segment")
    BY <1>1, <1>4, <2>1, LeftOverIs
  <2>3. SumOf(Worth(ro, ws), AtLevel(ro, k)) = WindowsIn(n - w, ws) - WindowsIn(n - b, ws)
    <3>1. PICK p, s : p = "left" /\ s = "segment"
      OBVIOUS
    <3>2. LeftIntervals(ro, n, list, w, p, s)
      BY <2>2, <3>1
    <3>. QED
      BY <1>1, <1>4, <1>9, <3>2, LeftWorth
  <2>4. ReadsAt(next, n + 1, l, moved, n + 1, k, ws)
          = ReadsAt(tr, n, l, list, w, k, ws) + (WindowsIn(n - w, ws) - WindowsIn(n - b, ws))
    BY <1>1, <1>2, <1>5, <1>6, <1>9, LineWritten
  <2>. QED
    BY <1>7, <1>11, <1>12, <1>14, <2>1, <2>2, <2>3, <2>4 DEF LeftIntervals
<1>. QED
  BY <1>2, <1>15, <1>16 DEF TAccessType

\* Whether more than k threads are in a list.
Shares(list, k) == IF Recent(list, k) > 0 THEN 1 ELSE 0

\* A thread that is new to a line makes it shared at one more level.
LEMMA SharesAfter ==
  ASSUME NEW n, NEW list, NEW t, NEW c, Accesses(n, list, t, c),
         NEW moved, moved = AfterAccess(n, list, t), NEW k \in Levels
  PROVE  /\ Cardinality(PassedBy(list, t)) = c /\ c \in Levels
         /\ Shares(moved, k) = Shares(list, k) + (IF ~ Found(list, t) /\ k = c THEN 1 ELSE 0)
<1>1. PICK h : h = Cardinality(LaterThan(list, 0))
  OBVIOUS
<1>2. n \in Nat /\ h \in Nat /\ c \in Nat /\ c \in Levels /\ c <= h
  BY <1>1, AccessFacts
<1>3. Found(list, t) <=> c < h
  BY <1>1, AccessFacts
<1>4. \A i \in Levels : (Recent(list, i) > 0 <=> i < h) /\ i \in Nat
  BY <1>1, AccessFacts
<1>5. Cardinality(PassedBy(list, t)) = c
  <2>1. PassedBy(list, t) = {i \in Levels : i < c}
    BY <1>1, AccessFacts
  <2>2. c <= NumThreads
    BY <1>2, Constants DEF Levels
  <2>. QED
    BY <1>2, <2>1, <2>2, CountBelow
<1>6. IsAfterAccess(n, list, t, c, moved)
  BY AccessList
<1>7. Recent(moved, k) = IF k = 0 THEN n + 1 ELSE Recent(list, IF k <= c THEN k - 1 ELSE k)
  BY <1>6 DEF IsAfterAccess
<1>8. k \in Nat /\ (k > 0 => k - 1 \in Levels)
  BY Constants DEF Levels
<1>9. Recent(moved, k) > 0 <=> k < h \/ k = c
  <2>1. CASE k = 0
    <3>1. Recent(moved, k) > 0
      BY <1>2, <1>7, <2>1
    <3>. QED
      BY <1>2, <2>1, <3>1
  <2>2. CASE k > 0 /\ k <= c
    <3>1. Recent(moved, k) = Recent(list, k - 1)
      BY <1>7, <1>8, <2>2
    <3>2. k - 1 < h
      BY <1>2, <1>8, <2>2
    <3>3. Recent(list, k - 1) > 0
      BY <1>4, <1>8, <2>2, <3>2
    <3>4. k < h \/ k = c
      BY <1>2, <1>8, <2>2
    <3>. QED
      BY <3>1, <3>3, <3>4
  <2>3. CASE k > 0 /\ ~ (k <= c)
    <3>1. Recent(moved, k) = Recent(list, k)
      BY <1>7, <1>8, <2>3
    <3>2. k # c
      BY <1>2, <2>3
    <3>. QED
      BY <1>4, <3>1, <3>2
  <2>. QED
    BY <1>8, <2>1, <2>2, <2>3
<1>10. Recent(list, k) > 0 <=> k < h
  BY <1>4
<1>11. k = c => (~ (c < h) <=> ~ (k < h))
  OBVIOUS
<1>. QED
  BY <1>2, <1>3, <1>5, <1>9, <1>10, <1>11 DEF Shares

\* The buckets that are longer than the trace are empty.
Short(count, n) ==
  \A k \in Levels, b \in Buckets : sublog_index_to_value(b) > n => count[k][b] = 0

\* They stay so when intervals within the trace are counted.
LEMMA ShortStays ==
  ASSUME NEW count \in Tables, NEW m \in Nat, NEW n \in Nat, m <= n, n < 2 ^ WordBits,
         Short(count, m), NEW ints, Bounded(ints, m)
  PROVE  Short(Counted(count, ints), n) /\ Short(Summed(count, ints), n)
<1>1. AreIntervals(ints)
  BY BoundedIntervals
<1>2. ASSUME NEW k \in Levels, NEW b \in Buckets, sublog_index_to_value(b) > n
      PROVE  Counted(count, ints)[k][b] = 0 /\ Summed(count, ints)[k][b] = 0
  <2>1. b \in Nat
    <3>1. 1 \in Nat \ {0}
      OBVIOUS
    <3>. QED
      BY <3>1, BucketTypes
  <2>2. sublog_index_to_value(b) \in Nat
    BY <2>1, BucketValue
  <2>3. ASSUME NEW x \in In(ints, k, b) PROVE FALSE
    <3>1. x \in ints /\ sublog_value_to_index(x.d) = b
      BY DEF In
    <3>2. x.d \in Nat /\ x.d <= m
      BY <3>1 DEF Bounded
    <3>3. PICK d \in Nat : d = x.d /\ d <= m
      BY <3>2
    <3>4. d < 2 ^ WordBits
      <4>1. 2 ^ WordBits \in Int
        BY PowerOfTwo, SublogAssumption
      <4>. QED
        BY <3>3, <4>1
    <3>5. sublog_value_to_index(d) >= b <=> d >= sublog_index_to_value(b)
      BY <2>1, <3>4, BucketBoundaries
    <3>6. d >= sublog_index_to_value(b)
      BY <2>1, <3>1, <3>3, <3>5
    <3>. QED
      BY <1>2, <2>2, <3>3, <3>6
  <2>4. In(ints, k, b) = {}
    BY <2>3
  <2>5. SumOf(Signs(ints), In(ints, k, b)) = 0 /\ SumOf(Lengths(ints), In(ints, k, b)) = 0
    BY <2>4, FS_EmptySet, SumStep
  <2>6. sublog_index_to_value(b) > m
    BY <1>2, <2>2
  <2>7. count[k][b] = 0
    BY <2>6 DEF Short
  <2>. QED
    BY <1>1, <2>5, <2>7, CountedIs
<1>. QED
  BY <1>2 DEF Short

\* A row of a sum over the lines.
RowIs(count, count_i, k, j, F) ==
  /\ RowOf(count, count_i, k, j) = SumOf(F, Lines)
  /\ \A l \in Lines : F[l] \in Int

\* When one line changes by what the counted intervals are worth, so does the row.
LEMMA RowAccess ==
  ASSUME NEW count \in Tables, NEW count_i \in Tables, NEW k \in Levels, NEW j \in Nat \ {0},
         NEW n \in Nat, n < 2 ^ WordBits, NEW ints, Bounded(ints, n),
         NEW d, d = SumOf(Worth(ints, sublog_index_to_value(j)), AtLevel(ints, k)),
         NEW F, RowIs(count, count_i, k, j, F), NEW u \in Lines,
         NEW G, \A l \in Lines : G[l] = IF l = u THEN F[l] + d ELSE F[l]
  PROVE  RowIs(Counted(count, ints), Summed(count_i, ints), k, j, G)
<1>1. AreIntervals(ints) /\ InWord(ints)
  BY BoundedIntervals
<1>2. /\ d \in Int
      /\ RowOf(Counted(count, ints), Summed(count_i, ints), k, j) = RowOf(count, count_i, k, j) + d
  BY <1>1, RowCounted
<1>3. /\ RowOf(count, count_i, k, j) = SumOf(F, Lines)
      /\ \A l \in Lines : F[l] \in Int
  BY DEF RowIs
<1>4. SumOf(G, Lines) = SumOf(F, Lines) + d
  BY <1>2, <1>3, Constants, SumChange
<1>. QED
  BY <1>2, <1>3, <1>4 DEF RowIs
-----------------------------------------------------------------------------
(***************************************************************************)
(* The invariant of the recorder: its types, and what it knows of a line.  *)
(***************************************************************************)
Accessed == [thread : Threads, line : Lines, type : TAccessType]

Known ==
  /\ TypeOK
  /\ trace \in Seq(Accessed) /\ Len(trace) = N /\ N <= MaxTrace
  /\ \A l \in Lines : LineKnown(trace, N, l, stamps[l], last_write[l])

\* It holds at the beginning.
LEMMA KnownInit == Init => Known
<1>. SUFFICES ASSUME Init PROVE Known
  OBVIOUS
<1>1. /\ N = 0 /\ M = [k \in Levels |-> 0] /\ trace = <<>> /\ stage = "run"
      /\ stamps = [l \in Lines |-> EmptyStamps] /\ last_write = [l \in Lines |-> 0]
      /\ wcount = NoCount /\ wcount_i = NoCount /\ wcount_ro = NoCount /\ wcount_ro_i = NoCount
  BY DEF Init
<1>2. NoCount \in [Levels -> [Buckets -> Int]]
  BY DEF NoCount
<1>3. EmptyStamps \in StampLists /\ MostRecentFirst(EmptyStamps)
  BY EmptyType, EmptySorted
<1>4. TypeOK
  BY <1>1, <1>2, <1>3 DEF TypeOK
<1>5. trace \in Seq(Accessed) /\ Len(trace) = N /\ N <= MaxTrace
  BY <1>1, Constants
<1>6. ASSUME NEW l \in Lines PROVE LineKnown(trace, N, l, stamps[l], last_write[l])
  <2>1. stamps[l] = EmptyStamps /\ last_write[l] = 0 /\ N = 0
    BY <1>1
  <2>2. \A u \in Threads : EmptyStamps.latest[u] = 0
    BY DEF EmptyStamps
  <2>3. Listed(trace, 0, l, EmptyStamps)
    BY <1>3, <2>2 DEF Listed
  <2>4. WrittenAt(trace, 0, l, 0)
    BY DEF WrittenAt
  <2>. QED
    BY <1>3, <2>1, <2>3, <2>4 DEF LineKnown
<1>. QED
  BY <1>4, <1>5, <1>6 DEF Known

\* What an access changes.
RecordIs(t, u, ty) ==
  /\ t \in Threads /\ u \in Lines /\ ty \in TAccessType /\ stage = "run" /\ stage' = stage
  /\ N < MaxTrace /\ N' = N + 1
  /\ GoesOn(trace, trace', N, t, u, ty)
  /\ trace' \in Seq(Accessed) /\ Len(trace') = N'
  /\ \A l \in Lines :
       /\ stamps'[l] = IF l = u THEN AfterAccess(N, stamps[u], t) ELSE stamps[l]
       /\ last_write'[l] = IF l = u THEN WrittenTo(last_write[u], N, ty) ELSE last_write[l]
  /\ stamps' = [l \in Lines |-> stamps'[l]] /\ last_write' = [l \in Lines |-> last_write'[l]]

\* What an access does to the variables.
LEMMA RecordFacts ==
  ASSUME Known, NEW t \in Threads, NEW u \in Lines, NEW ty \in TAccessType, RecordMem(t, u, ty)
  PROVE  RecordIs(t, u, ty)
<1>1. /\ N \in Nat /\ stamps \in [Lines -> StampLists] /\ last_write \in [Lines -> 0 .. N]
      /\ trace \in Seq(Accessed) /\ Len(trace) = N
  BY DEF Known, TypeOK
<1>2. /\ stage = "run" /\ stage' = stage /\ N < MaxTrace /\ N' = N + 1
      /\ stamps' = [stamps EXCEPT ![u] = MovedToFront(stamps[u], t, N + 1, Prev(stamps[u], t))]
      /\ last_write' = Written(u, ty)
      /\ trace' = Append(trace, [thread |-> t, line |-> u, type |-> ty])
  BY DEF RecordMem
<1>3. PICK a : a = [thread |-> t, line |-> u, type |-> ty]
  OBVIOUS
<1>4. a \in Accessed /\ a.thread = t /\ a.line = u /\ a.type = ty
  BY <1>3 DEF Accessed
<1>5. /\ trace' \in Seq(Accessed) /\ Len(trace') = N + 1 /\ trace'[N + 1] = a
      /\ \A x \in 1 .. N : trace'[x] = trace[x]
  BY <1>1, <1>2, <1>3, <1>4
<1>6. GoesOn(trace, trace', N, t, u, ty)
  BY <1>4, <1>5 DEF GoesOn
<1>7. /\ stamps' = [stamps EXCEPT ![u] = AfterAccess(N, stamps[u], t)]
      /\ last_write' = IF ty = "WRITE_ACCESS" THEN [last_write EXCEPT ![u] = N + 1] ELSE last_write
  BY <1>2 DEF AfterAccess, Written
<1>8. \A l \in Lines : stamps'[l] = IF l = u THEN AfterAccess(N, stamps[u], t) ELSE stamps[l]
  BY <1>1, <1>7
<1>9. \A l \in Lines :
        last_write'[l] = IF l = u THEN WrittenTo(last_write[u], N, ty) ELSE last_write[l]
  BY <1>1, <1>7 DEF WrittenTo
<1>10. stamps' = [l \in Lines |-> stamps'[l]] /\ last_write' = [l \in Lines |-> last_write'[l]]
  BY <1>1, <1>7
<1>. QED
  BY <1>2, <1>5, <1>6, <1>8, <1>9, <1>10 DEF RecordIs

\* An access keeps what is known of the lines ...
LEMMA RecordKnown ==
  ASSUME Known, NEW t, NEW u, NEW ty, RecordIs(t, u, ty), NEW l \in Lines
  PROVE  /\ LineKnown(trace, N, l, stamps[l], last_write[l])
         /\ LineKnown(trace', N + 1, l, stamps'[l], last_write'[l])
         /\ Accesses(N, stamps[l], t, LevelOf(stamps[l], t)) /\ N \in Nat /\ t \in Threads
<1>1. LineKnown(trace, N, l, stamps[l], last_write[l]) /\ N \in Nat
  BY DEF Known, TypeOK
<1>2. /\ t \in Threads /\ GoesOn(trace, trace', N, t, u, ty)
      /\ stamps'[l] = IF l = u THEN AfterAccess(N, stamps[u], t) ELSE stamps[l]
      /\ last_write'[l] = IF l = u THEN WrittenTo(last_write[u], N, ty) ELSE last_write[l]
  BY DEF RecordIs
<1>3. CASE l = u
  <2>1. PICK moved : moved = AfterAccess(N, stamps[l], t)
    OBVIOUS
  <2>2. GoesOn(trace, trace', N, t, l, ty)
    BY <1>2, <1>3
  <2>3. LineKnown(trace', N + 1, l, moved, WrittenTo(last_write[l], N, ty))
    BY <1>1, <2>1, <2>2, AccessedLine
  <2>4. stamps'[l] = moved /\ last_write'[l] = WrittenTo(last_write[l], N, ty)
    BY <1>2, <1>3, <2>1
  <2>. QED
    BY <1>1, <1>2, <2>3, <2>4, KnownAccess
<1>4. CASE l # u
  <2>1. LineKnown(trace', N + 1, l, stamps[l], last_write[l])
    BY <1>1, <1>2, <1>4, OtherLine
  <2>2. stamps'[l] = stamps[l] /\ last_write'[l] = last_write[l]
    BY <1>2, <1>4
  <2>. QED
    BY <1>1, <1>2, <2>1, <2>2, KnownAccess
<1>. QED
  BY <1>3, <1>4

\* ... and counts the intervals it closes.
CountsIs(all, ro) ==
  /\ wcount' = Counted(wcount, all) /\ wcount_i' = Summed(wcount_i, all)
  /\ wcount_ro' = Counted(wcount_ro, ro) /\ wcount_ro_i' = Summed(wcount_ro_i, ro)
  /\ Bounded(all, N) /\ Bounded(ro, N)

\* An access adds its closed intervals to the buckets, and nothing else.
LEMMA RecordCounts ==
  ASSUME Known, NEW t \in Threads, NEW u \in Lines, NEW ty \in TAccessType, RecordMem(t, u, ty),
         NEW all, all = Closed(stamps[u], t, N + 1),
         NEW ro, ro = ReadOnlyClosed(stamps[u], t, N, last_write[u], ty)
  PROVE  CountsIs(all, ro)
<1>1. RecordIs(t, u, ty)
  BY RecordFacts
<1>2. LineKnown(trace, N, u, stamps[u], last_write[u])
  BY <1>1, RecordKnown
<1>3. GoesOn(trace, trace', N, t, u, ty)
  BY <1>1 DEF RecordIs
<1>4. PICK moved : moved = AfterAccess(N, stamps[u], t)
  OBVIOUS
<1>5. Bounded(all, N) /\ Bounded(ro, N)
  <2>1. 0 \in Levels /\ 1 \in Nat \ {0}
    BY Constants
  <2>2. PICK list, w, next, n : list = stamps[u] /\ w = last_write[u] /\ next = trace' /\ n = N
    OBVIOUS
  <2>3. PICK tr : tr = trace
    OBVIOUS
  <2>4. /\ LineKnown(tr, n, u, list, w) /\ GoesOn(tr, next, n, t, u, ty)
        /\ moved = AfterAccess(n, list, t)
        /\ all = Closed(list, t, n + 1) /\ ro = ReadOnlyClosed(list, t, n, w, ty)
    BY <1>2, <1>3, <1>4, <2>2, <2>3
  <2>5. Bounded(all, n) /\ Bounded(ro, n)
    BY <2>1, <2>4, AccessedCounts
  <2>. QED
    BY <2>2, <2>5
<1>6. /\ wcount' = Counted(wcount, Closed(stamps[u], t, N + 1))
      /\ wcount_i' = Summed(wcount_i, Closed(stamps[u], t, N + 1))
  BY Zenon DEF RecordMem
<1>7. /\ wcount_ro' = Counted(wcount_ro, ReadOnlyClosed(stamps[u], t, N, last_write[u], ty))
      /\ wcount_ro_i' = Summed(wcount_ro_i, ReadOnlyClosed(stamps[u], t, N, last_write[u], ty))
  BY Zenon DEF RecordMem, ReadOnlyClosed
<1>. QED
  BY <1>5, <1>6, <1>7 DEF CountsIs

\* The table M has the number of lines shared at each level.
SharedRows == \A k \in Levels : M[k] = SumOf([l \in Lines |-> Shares(stamps[l], k)], Lines)

\* Counting intervals keeps the types of the tables.
LEMMA TablesType ==
  ASSUME Known, NEW all, NEW ro, CountsIs(all, ro)
  PROVE  \A count \in {wcount', wcount_i', wcount_ro', wcount_ro_i'} :
           count \in [Levels -> [Buckets -> Int]]
<1>1. /\ wcount \in Tables /\ wcount_i \in Tables /\ wcount_ro \in Tables /\ wcount_ro_i \in Tables
      /\ N \in Nat
  BY DEF Known, TypeOK, Tables
<1>2. AreIntervals(all) /\ AreIntervals(ro)
  BY <1>1, BoundedIntervals DEF CountsIs
<1>3. /\ Counted(wcount, all) \in Tables /\ Summed(wcount_i, all) \in Tables
      /\ Counted(wcount_ro, ro) \in Tables /\ Summed(wcount_ro_i, ro) \in Tables
  BY <1>1, <1>2, CountedType
<1>. QED
  BY <1>3 DEF CountsIs, Tables

\* An access keeps the invariant.
LEMMA KnownRecord ==
  ASSUME Known, NEW t \in Threads, NEW u \in Lines, NEW ty \in TAccessType, RecordMem(t, u, ty)
  PROVE  Known'
<1>1. RecordIs(t, u, ty)
  BY RecordFacts
<1>2. \A l \in Lines : LineKnown(trace', N + 1, l, stamps'[l], last_write'[l])
  BY <1>1, RecordKnown
<1>3. \A count \in {wcount', wcount_i', wcount_ro', wcount_ro_i'} :
        count \in [Levels -> [Buckets -> Int]]
  <2>1. PICK all, ro : /\ all = Closed(stamps[u], t, N + 1)
                       /\ ro = ReadOnlyClosed(stamps[u], t, N, last_write[u], ty)
    OBVIOUS
  <2>2. CountsIs(all, ro)
    BY <2>1, RecordCounts
  <2>. QED
    BY <2>2, TablesType
<1>4. /\ N' = N + 1 /\ N < MaxTrace /\ N \in Nat /\ stage' = "run" /\ M \in [Levels -> Nat]
      /\ trace' \in Seq(Accessed) /\ Len(trace') = N'
      /\ stamps' = [l \in Lines |-> stamps'[l]] /\ last_write' = [l \in Lines |-> last_write'[l]]
  BY <1>1 DEF RecordIs, Known, TypeOK
<1>5. M' \in [Levels -> Nat]
  <2>1. Cardinality(PassedBy(stamps[u], t)) \in Levels
    <3>1. PICK c : c = LevelOf(stamps[u], t)
      OBVIOUS
    <3>2. Accesses(N, stamps[u], t, c)
      BY <1>1, <3>1, RecordKnown
    <3>3. PICK n, list : n = N /\ list = stamps[u]
      OBVIOUS
    <3>4. Accesses(n, list, t, c) /\ 0 \in Levels
      BY <3>2, <3>3, Constants
    <3>5. Cardinality(PassedBy(list, t)) = c /\ c \in Levels
      BY <3>4, SharesAfter
    <3>. QED
      BY <3>3, <3>5
  <2>2. M' = IF Found(stamps[u], t) THEN M
             ELSE [M EXCEPT ![Cardinality(PassedBy(stamps[u], t))] = @ + 1]
    BY DEF RecordMem
  <2>. QED
    BY <1>4, <2>1, <2>2
<1>6. stamps' \in [Lines -> StampLists]
  <2>1. \A l \in Lines : stamps'[l] \in StampLists
    BY <1>2 DEF LineKnown, Listed
  <2>. QED
    BY <1>4, <2>1
<1>7. last_write' \in [Lines -> 0 .. N']
  <2>1. \A l \in Lines : last_write'[l] \in Nat /\ last_write'[l] <= N + 1
    BY <1>2 DEF LineKnown, WrittenAt
  <2>2. \A l \in Lines : last_write'[l] \in 0 .. N'
    BY <1>4, <2>1
  <2>. QED
    BY <1>4, <2>2
<1>8. N' \in Nat /\ N' <= MaxTrace
  BY <1>4, Constants
<1>9. TypeOK'
  BY <1>3, <1>4, <1>5, <1>6, <1>7, <1>8 DEF TypeOK
<1>10. \A l \in Lines : LineKnown(trace', N', l, stamps'[l], last_write'[l])
  BY <1>2, <1>4
<1>. QED
  BY <1>4, <1>8, <1>9, <1>10 DEF Known

\* Intervals of several lines, which are told apart, are worth what those of each
\* line are.
LEMMA UnionWorth ==
  ASSUME NEW n \in Nat, NEW P, \A l \in Lines : Bounded(P[l], n),
         \A l, m \in Lines : l # m => P[l] \cap P[m] = {},
         NEW ints, ints = AllParts(Lines, P), NEW k \in Levels, NEW ws \in Nat \ {0},
         NEW G, \A l \in Lines : G[l] = SumOf(Worth(P[l], ws), AtLevel(P[l], k))
  PROVE  /\ Bounded(ints, n)
         /\ SumOf(Worth(ints, ws), AtLevel(ints, k)) = SumOf(G, Lines)
         /\ \A l \in Lines : G[l] \in Int
<1>1. IsFiniteSet(Lines)
  BY Constants
<1>2. IsFiniteSet(ints)
  <2>1. PICK F : F = [x \in ints |-> 0]
    OBVIOUS
  <2>2. PICK Z : Z = [l \in Lines |-> SumOf(F, P[l])]
    OBVIOUS
  <2>3. \A l \in Lines : IsFiniteSet(P[l]) /\ P[l] \subseteq ints
    BY DEF Bounded, AllParts
  <2>4. AreParts(Lines, P, F, Z)
    BY <1>1, <2>1, <2>2, <2>3 DEF AreParts
  <2>. QED
    BY <2>4, SumByParts
<1>3. ASSUME NEW x \in ints PROVE x.n \in {-1, 1} /\ x.d \in Nat /\ x.d <= n
  BY DEF Bounded, AllParts
<1>4. Bounded(ints, n)
  BY <1>2, <1>3 DEF Bounded
<1>5. PICK F : F = Worth(ints, ws)
  OBVIOUS
<1>6. \A x \in ints : F[x] = x.n * WindowsIn(x.d, ws) /\ F[x] \in Int
  <2>. TAKE x \in ints
  <2>1. F[x] = x.n * WindowsIn(x.d, ws)
    BY <1>5 DEF Worth
  <2>2. WindowsIn(x.d, ws) \in Int /\ x.n \in Int
    BY <1>3 DEF WindowsIn
  <2>3. PICK a \in Int, b \in Int : a = x.n /\ b = WindowsIn(x.d, ws)
    BY <2>2
  <2>4. a * b \in Int
    OBVIOUS
  <2>. QED
    BY <2>1, <2>3, <2>4
<1>7. PICK Q : Q = [l \in Lines |-> AtLevel(P[l], k)]
  OBVIOUS
<1>8. ASSUME NEW l \in Lines
      PROVE  /\ Q[l] = AtLevel(P[l], k) /\ Q[l] \subseteq P[l] /\ P[l] \subseteq ints
             /\ IsFiniteSet(Q[l]) /\ G[l] = SumOf(F, Q[l]) /\ \A x \in Q[l] : F[x] \in Int
  <2>1. Q[l] = AtLevel(P[l], k)
    BY <1>7
  <2>2. Q[l] \subseteq P[l] /\ P[l] \subseteq ints
    BY <2>1 DEF AtLevel, AllParts
  <2>3. IsFiniteSet(Q[l])
    BY <1>2, <2>2, FS_Subset
  <2>4. PICK H : H = Worth(P[l], ws)
    OBVIOUS
  <2>5. \A x \in Q[l] : H[x] = F[x]
    BY <1>6, <2>2, <2>4 DEF Worth
  <2>6. SumOf(H, Q[l]) = SumOf(F, Q[l])
    BY <2>3, <2>5, SumEqual
  <2>. QED
    BY <1>6, <2>1, <2>2, <2>3, <2>4, <2>6
<1>9. \A l, m \in Lines : l # m => Q[l] \cap Q[m] = {}
  BY <1>8
<1>10. AreParts(Lines, Q, F, G)
  BY <1>1, <1>8, <1>9 DEF AreParts
<1>11. AllParts(Lines, Q) = AtLevel(ints, k)
  <2>1. \A x : x \in AllParts(Lines, Q) <=> \E l \in Lines : x \in AtLevel(P[l], k)
    BY <1>8 DEF AllParts
  <2>2. \A x : x \in AtLevel(ints, k) <=> \E l \in Lines : x \in P[l] /\ x.level = k
    BY DEF AtLevel, AllParts
  <2>. QED
    BY <2>1, <2>2 DEF AtLevel
<1>12. SumOf(G, Lines) = SumOf(F, AtLevel(ints, k))
  BY <1>10, <1>11, SumByParts
<1>13. \A l \in Lines : G[l] \in Int
  BY <1>8, SumType
<1>. QED
  BY <1>4, <1>5, <1>12, <1>13

\* What the end of the trace adds for a line: to a row of all accesses the windows
\* that begin by the stamp of the level, to one of reads those since the last write.
OpenAt(n, list, k, ws) ==
  IF Recent(list, k) > 0 THEN WindowsIn(n - Recent(list, k), ws) ELSE 0

SinceAt(n, list, w, k, ws) ==
  WindowsIn(n - w, ws) - WindowsIn(n - Later(Recent(list, k), w), ws)

Opens(n, st)        == [l \in Lines |-> OpenOf(l, st[l], n)]
TaggedAll(n, st, lw) == [l \in Lines |-> Tagged(l, st[l], n, lw[l])]

\* What it counts is worth that, summed over the lines.
LEMMA OpensWorth ==
  ASSUME NEW n \in Nat, NEW st, NEW lw,
         \A l \in Lines : Accesses(n, st[l], 0, LevelOf(st[l], 0)) /\ lw[l] \in Nat /\ lw[l] <= n,
         NEW all, all = AllParts(Lines, Opens(n, st)),
         NEW ro, ro = AllParts(Lines, TaggedAll(n, st, lw)), NEW k \in Levels, NEW ws \in Nat \ {0},
         NEW F, \A l \in Lines : F[l] = OpenAt(n, st[l], k, ws),
         NEW G, \A l \in Lines : G[l] = SinceAt(n, st[l], lw[l], k, ws)
  PROVE  /\ Bounded(all, n) /\ Bounded(ro, n)
         /\ SumOf(Worth(all, ws), AtLevel(all, k)) = SumOf(F, Lines)
         /\ SumOf(Worth(ro, ws), AtLevel(ro, k)) = SumOf(G, Lines)
         /\ \A l \in Lines : F[l] \in Int /\ G[l] \in Int
<1>1. PICK P : P = Opens(n, st)
  OBVIOUS
<1>2. ASSUME NEW l \in Lines
      PROVE  /\ Bounded(P[l], n) /\ \A x \in P[l] : x.at = l
             /\ SumOf(Worth(P[l], ws), AtLevel(P[l], k)) = F[l]
  <2>1. PICK ints, list, c : ints = P[l] /\ list = st[l] /\ c = LevelOf(list, 0)
    OBVIOUS
  <2>2. Accesses(n, list, 0, c) /\ ints = OpenOf(l, list, n)
    BY <1>1, <2>1 DEF Opens
  <2>3. /\ Bounded(ints, n) /\ \A x \in ints : x.at = l
        /\ SumOf(Worth(ints, ws), AtLevel(ints, k))
             = IF Recent(list, k) > 0 THEN WindowsIn(n - Recent(list, k), ws) ELSE 0
    BY <2>2, OpenWorth
  <2>. QED
    BY <2>1, <2>3 DEF OpenAt
<1>3. /\ Bounded(all, n)
      /\ SumOf(Worth(all, ws), AtLevel(all, k)) = SumOf(F, Lines)
      /\ \A l \in Lines : F[l] \in Int
  <2>1. \A l, m \in Lines : l # m => P[l] \cap P[m] = {}
    BY <1>2
  <2>2. /\ all = AllParts(Lines, P)
        /\ \A l \in Lines : Bounded(P[l], n) /\ F[l] = SumOf(Worth(P[l], ws), AtLevel(P[l], k))
    BY <1>1, <1>2
  <2>. QED
    BY <2>1, <2>2, UnionWorth
<1>4. PICK Q : Q = TaggedAll(n, st, lw)
  OBVIOUS
<1>5. ASSUME NEW l \in Lines
      PROVE  /\ Bounded(Q[l], n) /\ \A x \in Q[l] : x.at \in {<<l, "left">>, <<l, "segment">>}
             /\ SumOf(Worth(Q[l], ws), AtLevel(Q[l], k)) = G[l]
  <2>1. PICK ints, list, c, w : ints = Q[l] /\ list = st[l] /\ c = LevelOf(list, 0) /\ w = lw[l]
    OBVIOUS
  <2>2. Accesses(n, list, 0, c) /\ ints = Tagged(l, list, n, w) /\ w \in Nat /\ w <= n
    BY <1>4, <2>1 DEF TaggedAll
  <2>3. PICK p, q : p = <<l, "left">> /\ q = <<l, "segment">>
    OBVIOUS
  <2>4. LeftIntervals(ints, n, list, w, p, q)
    BY <2>2, <2>3, TaggedIs
  <2>5. SumOf(Worth(ints, ws), AtLevel(ints, k))
          = WindowsIn(n - w, ws) - WindowsIn(n - Later(Recent(list, k), w), ws)
    BY <2>2, <2>4, LeftWorth
  <2>6. \A x \in ints : x.at = p \/ x.at = q
    BY <2>4 DEF LeftIntervals, Interval
  <2>. QED
    BY <2>1, <2>3, <2>4, <2>5, <2>6 DEF SinceAt, LeftIntervals
<1>6. /\ Bounded(ro, n)
      /\ SumOf(Worth(ro, ws), AtLevel(ro, k)) = SumOf(G, Lines)
      /\ \A l \in Lines : G[l] \in Int
  <2>1. \A l, m \in Lines : l # m => Q[l] \cap Q[m] = {}
    <3>1. ASSUME NEW l \in Lines, NEW m \in Lines, l # m, NEW x, x \in Q[l], x \in Q[m] PROVE FALSE
      <4>1. x.at \in {<<l, "left">>, <<l, "segment">>} /\ x.at \in {<<m, "left">>, <<m, "segment">>}
        BY <1>5, <3>1
      <4>. QED
        BY <3>1, <4>1
    <3>. QED
      BY <3>1
  <2>2. /\ ro = AllParts(Lines, Q)
        /\ \A l \in Lines : Bounded(Q[l], n) /\ G[l] = SumOf(Worth(Q[l], ws), AtLevel(Q[l], k))
    BY <1>4, <1>5
  <2>. QED
    BY <2>1, <2>2, UnionWorth
<1>. QED
  BY <1>3, <1>6

\* Fini counts the intervals of all lines, and keeps the invariant.
LEMMA FiniCounts ==
  ASSUME Known, Fini, NEW all, all = AllParts(Lines, Opens(N, stamps)),
         NEW ro, ro = AllParts(Lines, TaggedAll(N, stamps, last_write))
  PROVE  CountsIs(all, ro) /\ Known'
<1>1. PICK A, R : A = UNION {Open(l) : l \in Lines}
                  /\ R = UNION {Tagged(l, stamps[l], N, last_write[l]) : l \in Lines}
  OBVIOUS
<1>2. A = all
  <2>1. \A l \in Lines : Opens(N, stamps)[l] = Open(l)
    BY Zenon DEF Opens, OpenOf, Open
  <2>2. \A x : x \in A <=> \E l \in Lines : x \in Open(l)
    BY <1>1
  <2>3. \A x : x \in all <=> \E l \in Lines : x \in Opens(N, stamps)[l]
    BY DEF AllParts
  <2>. QED
    BY <2>1, <2>2, <2>3
<1>3. R = ro
  <2>1. \A l \in Lines : TaggedAll(N, stamps, last_write)[l] = Tagged(l, stamps[l], N, last_write[l])
    BY DEF TaggedAll
  <2>2. \A x : x \in R <=> \E l \in Lines : x \in Tagged(l, stamps[l], N, last_write[l])
    BY <1>1
  <2>3. \A x : x \in ro <=> \E l \in Lines : x \in TaggedAll(N, stamps, last_write)[l]
    BY DEF AllParts
  <2>. QED
    BY <2>1, <2>2, <2>3
<1>4. /\ wcount' = Counted(wcount, A) /\ wcount_i' = Summed(wcount_i, A)
      /\ wcount_ro' = Counted(wcount_ro, R) /\ wcount_ro_i' = Summed(wcount_ro_i, R)
      /\ stage' = "done" /\ UNCHANGED <<N, M, stamps, last_write, trace>>
  BY <1>1, Zenon DEF Fini, Tagged
<1>5. N \in Nat /\ \A l \in Lines : /\ LineKnown(trace, N, l, stamps[l], last_write[l])
                                   /\ Accesses(N, stamps[l], 0, LevelOf(stamps[l], 0))
                                   /\ last_write[l] \in Nat /\ last_write[l] <= N
  <2>1. 0 \in Threads
    BY Constants DEF Threads
  <2>2. N \in Nat /\ \A l \in Lines : LineKnown(trace, N, l, stamps[l], last_write[l])
    BY DEF Known, TypeOK
  <2>. QED
    BY <2>1, <2>2, KnownAccess
<1>6. Bounded(all, N) /\ Bounded(ro, N)
  <2>1. 0 \in Levels /\ 1 \in Nat \ {0}
    BY Constants
  <2>2. PICK n \in Nat : n = N
    BY <1>5
  <2>3. PICK st, lw : st = stamps /\ lw = last_write
    OBVIOUS
  <2>4. PICK F, G : /\ F = [l \in Lines |-> OpenAt(n, st[l], 0, 1)]
                    /\ G = [l \in Lines |-> SinceAt(n, st[l], lw[l], 0, 1)]
    OBVIOUS
  <2>5. \A l \in Lines : F[l] = OpenAt(n, st[l], 0, 1) /\ G[l] = SinceAt(n, st[l], lw[l], 0, 1)
    BY <2>4
  <2>6. /\ \A l \in Lines : Accesses(n, st[l], 0, LevelOf(st[l], 0)) /\ lw[l] \in Nat /\ lw[l] <= n
        /\ all = AllParts(Lines, Opens(n, st)) /\ ro = AllParts(Lines, TaggedAll(n, st, lw))
    BY <1>5, <2>2, <2>3
  <2>7. Bounded(all, n) /\ Bounded(ro, n)
    BY <2>1, <2>5, <2>6, OpensWorth
  <2>. QED
    BY <2>2, <2>7
<1>7. CountsIs(all, ro)
  BY <1>2, <1>3, <1>4, <1>6 DEF CountsIs
<1>8. \A count \in {wcount', wcount_i', wcount_ro', wcount_ro_i'} :
        count \in [Levels -> [Buckets -> Int]]
  BY <1>7, TablesType
<1>9. Known'
  BY <1>4, <1>8 DEF Known, TypeOK
<1>. QED
  BY <1>7, <1>9

\* Every step keeps it.
LEMMA KnownNext == Known /\ [Next]_vars => Known'
<1>. SUFFICES ASSUME Known, [Next]_vars PROVE Known'
  OBVIOUS
<1>1. CASE \E t \in Threads, l \in Lines, type \in TAccessType : RecordMem(t, l, type)
  BY <1>1, KnownRecord
<1>2. CASE Fini
  <2>1. PICK all, ro : /\ all = AllParts(Lines, Opens(N, stamps))
                       /\ ro = AllParts(Lines, TaggedAll(N, stamps, last_write))
    OBVIOUS
  <2>. QED
    BY <1>2, <2>1, FiniCounts
<1>3. CASE UNCHANGED vars
  BY <1>3 DEF vars, Known, TypeOK
<1>4. CASE Terminated
  BY <1>3, <1>4 DEF Terminated
<1>. QED
  BY <1>1, <1>2, <1>3, <1>4 DEF Next

\* What is known of the lines holds in all states.
LEMMA KnownInvariant == Spec => []Known
<1>. QED
  BY KnownInit, KnownNext, PTL DEF Spec

\* The variables have their types: the walk of an access ends within the levels,
\* and the counts, which go up and down, are whole numbers.
THEOREM TypeCorrect == Spec => []TypeOK
<1>1. Known => TypeOK
  BY DEF Known
<1>. QED
  BY <1>1, KnownInvariant, PTL
-----------------------------------------------------------------------------
(***************************************************************************)
(* The rows of the tables, as sums over the lines.                         *)
(***************************************************************************)
\* The length of an access or a trace fits in a word.
TraceFits == MaxTrace + 1 < 2 ^ WordBits

AllRow(tr, n, st, k, ws) == [l \in Lines |-> AllAt(tr, n, l, st[l], k, ws)]

ReadRow(tr, n, st, lw, k, ws) == [l \in Lines |-> ReadsAt(tr, n, l, st[l], lw[l], k, ws)]

\* At the end, the windows that begin by the stamp of a level are added, and those
\* of reads are all counted.
AllEnded(tr, n, st, k, ws) ==
  [l \in Lines |-> AllAt(tr, n, l, st[l], k, ws) + OpenAt(n, st[l], k, ws)]

ReadEnded(tr, n, k, ws) == [l \in Lines |-> Cardinality(ManyReads(tr, n, l, k, ws))]

AllShort(n) ==
  Short(wcount, n) /\ Short(wcount_i, n) /\ Short(wcount_ro, n) /\ Short(wcount_ro_i, n)

RunRows ==
  \A k \in Levels, j \in Nat \ {0} :
    /\ RowIs(wcount, wcount_i, k, j, AllRow(trace, N, stamps, k, sublog_index_to_value(j)))
    /\ RowIs(wcount_ro, wcount_ro_i, k, j,
             ReadRow(trace, N, stamps, last_write, k, sublog_index_to_value(j)))

EndRows ==
  \A k \in Levels, j \in Nat \ {0} :
    /\ RowIs(wcount, wcount_i, k, j, AllEnded(trace, N, stamps, k, sublog_index_to_value(j)))
    /\ RowIs(wcount_ro, wcount_ro_i, k, j, ReadEnded(trace, N, k, sublog_index_to_value(j)))

Counts ==
  /\ Known /\ SharedRows /\ AllShort(N)
  /\ stage = "run" => RunRows
  /\ stage = "done" => EndRows

\* Before the first access no window has been counted, and no line is shared.
LEMMA NothingAt ==
  ASSUME NEW tr, NEW l, NEW list, LineKnown(tr, 0, l, list, 0), \A u \in Threads : list.latest[u] = 0,
         NEW k \in Levels, NEW ws \in Nat \ {0}
  PROVE  /\ AllAt(tr, 0, l, list, k, ws) = 0 /\ ReadsAt(tr, 0, l, list, 0, k, ws) = 0
         /\ Shares(list, k) = 0
<1>1. k \in Nat
  BY Constants
<1>2. Recent(list, k) = 0
  <2>1. Listed(tr, 0, l, list)
    BY DEF LineKnown
  <2>2. Recent(list, k) \in Nat /\ Recent(list, k) <= 0
    BY <1>1, <2>1, ListedRecent
  <2>. QED
    BY <2>2
<1>3. Later(Recent(list, k), 0) = 0
  BY <1>2 DEF Later
<1>4. Few(tr, 0, l, k, ws, 0, 0) = {}
  BY DEF Few
<1>5. ManyReads(tr, 0 - 1, l, k, ws) = {}
  BY DEF ManyReads
<1>6. Cardinality({}) = 0
  BY FS_EmptySet
<1>7. AllAt(tr, 0, l, list, k, ws) = 0
  BY <1>3, <1>4, <1>6 DEF AllAt
<1>8. ReadsAt(tr, 0, l, list, 0, k, ws) = 0
  BY <1>3, <1>4, <1>5, <1>6 DEF ReadsAt
<1>. QED
  BY <1>2, <1>7, <1>8 DEF Shares

\* Empty tables have empty rows.
LEMMA NoRow ==
  ASSUME NEW k \in Levels, NEW j \in Nat \ {0}, NEW F, \A l \in Lines : F[l] = 0
  PROVE  RowIs(NoCount, NoCount, k, j, F)
<1>1. PICK ws \in Nat : ws = sublog_index_to_value(j)
  BY BucketTypes
<1>2. PICK R : R = RowIn(NoCount, NoCount, k, ws)
  OBVIOUS
<1>3. \A b \in BucketsFrom(j) : R[b] = 0
  <2>. TAKE b \in BucketsFrom(j)
  <2>1. NoCount[k][b] = 0
    BY BucketTypes DEF NoCount
  <2>2. R[b] = 0 - (ws - 1) * 0
    BY <1>2, <2>1, BucketTypes DEF RowIn
  <2>. QED
    BY <2>2
<1>4. SumOf(R, BucketsFrom(j)) = 0
  BY <1>3, BucketTypes, SumZero
<1>5. SumOf(F, Lines) = 0
  BY Constants, SumZero
<1>. QED
  BY <1>1, <1>2, <1>4, <1>5 DEF RowIs, RowOf

\* The invariant holds at the beginning.
LEMMA CountsInit == Init => Counts
<1>. SUFFICES ASSUME Init PROVE Counts
  OBVIOUS
<1>1. Known
  BY KnownInit
<1>2. /\ N = 0 /\ M = [k \in Levels |-> 0] /\ stage = "run"
      /\ stamps = [l \in Lines |-> EmptyStamps] /\ last_write = [l \in Lines |-> 0]
      /\ wcount = NoCount /\ wcount_i = NoCount /\ wcount_ro = NoCount /\ wcount_ro_i = NoCount
  BY DEF Init
<1>3. ASSUME NEW l \in Lines, NEW k \in Levels, NEW ws \in Nat \ {0}
      PROVE  /\ AllAt(trace, N, l, stamps[l], k, ws) = 0
             /\ ReadsAt(trace, N, l, stamps[l], last_write[l], k, ws) = 0
             /\ Shares(stamps[l], k) = 0
  <2>1. LineKnown(trace, 0, l, stamps[l], 0)
    BY <1>1, <1>2 DEF Known
  <2>2. \A u \in Threads : stamps[l].latest[u] = 0
    BY <1>2 DEF EmptyStamps
  <2>3. PICK tr, list : tr = trace /\ list = stamps[l]
    OBVIOUS
  <2>4. LineKnown(tr, 0, l, list, 0) /\ \A u \in Threads : list.latest[u] = 0
    BY <2>1, <2>2, <2>3
  <2>5. /\ AllAt(tr, 0, l, list, k, ws) = 0 /\ ReadsAt(tr, 0, l, list, 0, k, ws) = 0
        /\ Shares(list, k) = 0
    BY <2>4, NothingAt
  <2>6. N = 0 /\ last_write[l] = 0
    BY <1>2
  <2>. QED
    BY <2>3, <2>5, <2>6
<1>4. SharedRows
  <2>1. ASSUME NEW k \in Levels
        PROVE  M[k] = SumOf([l \in Lines |-> Shares(stamps[l], k)], Lines)
    <3>1. PICK F : F = [l \in Lines |-> Shares(stamps[l], k)]
      OBVIOUS
    <3>2. 1 \in Nat \ {0}
      OBVIOUS
    <3>3. \A l \in Lines : F[l] = 0
      BY <1>3, <3>1, <3>2
    <3>4. SumOf(F, Lines) = 0
      BY <3>3, Constants, SumZero
    <3>. QED
      BY <1>2, <3>1, <3>4
  <2>. QED
    BY <2>1 DEF SharedRows
<1>5. AllShort(N)
  BY <1>2 DEF AllShort, Short, NoCount
<1>6. RunRows
  <2>1. ASSUME NEW k \in Levels, NEW j \in Nat \ {0}, NEW ws, ws = sublog_index_to_value(j)
        PROVE  /\ RowIs(wcount, wcount_i, k, j, AllRow(trace, N, stamps, k, ws))
               /\ RowIs(wcount_ro, wcount_ro_i, k, j,
                        ReadRow(trace, N, stamps, last_write, k, ws))
    <3>1. PICK F, G : /\ F = AllRow(trace, N, stamps, k, ws)
                      /\ G = ReadRow(trace, N, stamps, last_write, k, ws)
      OBVIOUS
    <3>2. ws \in Nat \ {0}
      BY <2>1, BucketTypes
    <3>3. \A l \in Lines : F[l] = 0 /\ G[l] = 0
      BY <1>3, <3>1, <3>2 DEF AllRow, ReadRow
    <3>4. RowIs(NoCount, NoCount, k, j, F) /\ RowIs(NoCount, NoCount, k, j, G)
      BY <3>3, NoRow
    <3>. QED
      BY <1>2, <3>1, <3>4
  <2>. QED
    BY <2>1 DEF RunRows
<1>. QED
  BY <1>1, <1>2, <1>4, <1>5, <1>6 DEF Counts

\* The lines after an access by thread t to line u.
LinesGoOn(tr, n, st, lw, next, st2, lw2, t, u, ty) ==
  /\ u \in Lines
  /\ \A l \in Lines : LineKnown(tr, n, l, st[l], lw[l])
  /\ GoesOn(tr, next, n, t, u, ty)
  /\ \A l \in Lines : st2[l] = IF l = u THEN AfterAccess(n, st[u], t) ELSE st[l]
  /\ \A l \in Lines : lw2[l] = IF l = u THEN WrittenTo(lw[u], n, ty) ELSE lw[l]

\* The access changes the row of that line by what its intervals are worth, and no
\* other.
LEMMA AccessRows ==
  ASSUME NEW tr, NEW n, NEW st, NEW lw, NEW next, NEW st2, NEW lw2, NEW t, NEW u, NEW ty,
         LinesGoOn(tr, n, st, lw, next, st2, lw2, t, u, ty),
         NEW all, all = Closed(st[u], t, n + 1),
         NEW ro, ro = ReadOnlyClosed(st[u], t, n, lw[u], ty),
         NEW k \in Levels, NEW ws \in Nat \ {0}, NEW l \in Lines
  PROVE  /\ AllRow(next, n + 1, st2, k, ws)[l]
              = IF l = u THEN AllRow(tr, n, st, k, ws)[l] + SumOf(Worth(all, ws), AtLevel(all, k))
                         ELSE AllRow(tr, n, st, k, ws)[l]
         /\ ReadRow(next, n + 1, st2, lw2, k, ws)[l]
              = IF l = u THEN ReadRow(tr, n, st, lw, k, ws)[l] + SumOf(Worth(ro, ws), AtLevel(ro, k))
                         ELSE ReadRow(tr, n, st, lw, k, ws)[l]
<1>. USE DEF LinesGoOn
<1>1. /\ AllRow(next, n + 1, st2, k, ws)[l] = AllAt(next, n + 1, l, st2[l], k, ws)
      /\ ReadRow(next, n + 1, st2, lw2, k, ws)[l]
           = ReadsAt(next, n + 1, l, st2[l], lw2[l], k, ws)
      /\ AllRow(tr, n, st, k, ws)[l] = AllAt(tr, n, l, st[l], k, ws)
      /\ ReadRow(tr, n, st, lw, k, ws)[l] = ReadsAt(tr, n, l, st[l], lw[l], k, ws)
  BY DEF AllRow, ReadRow
<1>2. PICK list, w : list = st[l] /\ w = lw[l]
  OBVIOUS
<1>3. LineKnown(tr, n, l, list, w)
  BY <1>2
<1>4. CASE l = u
  <2>1. PICK moved : moved = AfterAccess(n, list, t)
    OBVIOUS
  <2>2. /\ GoesOn(tr, next, n, t, l, ty)
        /\ all = Closed(list, t, n + 1) /\ ro = ReadOnlyClosed(list, t, n, w, ty)
    BY <1>2, <1>4
  <2>3. /\ AllAt(next, n + 1, l, moved, k, ws)
             = AllAt(tr, n, l, list, k, ws) + SumOf(Worth(all, ws), AtLevel(all, k))
        /\ ReadsAt(next, n + 1, l, moved, WrittenTo(w, n, ty), k, ws)
             = ReadsAt(tr, n, l, list, w, k, ws) + SumOf(Worth(ro, ws), AtLevel(ro, k))
    BY <1>3, <2>1, <2>2, AccessedCounts
  <2>4. st2[l] = moved /\ lw2[l] = WrittenTo(w, n, ty)
    BY <1>2, <1>4, <2>1
  <2>. QED
    BY <1>1, <1>2, <1>4, <2>3, <2>4
<1>5. CASE l # u
  <2>1. /\ AllAt(next, n + 1, l, list, k, ws) = AllAt(tr, n, l, list, k, ws)
        /\ ReadsAt(next, n + 1, l, list, w, k, ws) = ReadsAt(tr, n, l, list, w, k, ws)
    BY <1>3, <1>5, OtherLine
  <2>2. st2[l] = list /\ lw2[l] = w
    BY <1>2, <1>5
  <2>. QED
    BY <1>1, <1>2, <1>5, <2>1, <2>2
<1>. QED
  BY <1>4, <1>5

\* It keeps the rows exact.
LEMMA RunRowsRecord ==
  ASSUME TraceFits, Known, RunRows,
         NEW t \in Threads, NEW u \in Lines, NEW ty \in TAccessType, RecordMem(t, u, ty)
  PROVE  RunRows'
<1>1. RecordIs(t, u, ty)
  BY RecordFacts
<1>2. PICK all, ro : /\ all = Closed(stamps[u], t, N + 1)
                     /\ ro = ReadOnlyClosed(stamps[u], t, N, last_write[u], ty)
  OBVIOUS
<1>3. CountsIs(all, ro)
  BY <1>2, RecordCounts
<1>4. /\ wcount \in Tables /\ wcount_i \in Tables /\ wcount_ro \in Tables /\ wcount_ro_i \in Tables
      /\ N \in Nat /\ N <= MaxTrace
  BY DEF Known, TypeOK, Tables
<1>5. N < 2 ^ WordBits
  <2>1. 2 ^ WordBits \in Nat
    BY PowerOfTwo, SublogAssumption
  <2>. QED
    BY <1>4, <2>1, Constants DEF TraceFits
<1>6. ASSUME NEW k \in Levels, NEW j \in Nat \ {0}, NEW ws, ws = sublog_index_to_value(j)
      PROVE  /\ RowIs(wcount', wcount_i', k, j, AllRow(trace', N', stamps', k, ws))
             /\ RowIs(wcount_ro', wcount_ro_i', k, j,
                      ReadRow(trace', N', stamps', last_write', k, ws))
  <2>1. PICK tr, n, st, lw : tr = trace /\ n = N /\ st = stamps /\ lw = last_write
    OBVIOUS
  <2>2. PICK next, st2, lw2 : next = trace' /\ st2 = stamps' /\ lw2 = last_write'
    OBVIOUS
  <2>3. PICK F, G : F = AllRow(tr, n, st, k, ws) /\ G = ReadRow(tr, n, st, lw, k, ws)
    OBVIOUS
  <2>4. PICK F2, G2 : /\ F2 = AllRow(next, n + 1, st2, k, ws)
                      /\ G2 = ReadRow(next, n + 1, st2, lw2, k, ws)
    OBVIOUS
  <2>5. PICK d, e : d = SumOf(Worth(all, ws), AtLevel(all, k)) /\ e = SumOf(Worth(ro, ws), AtLevel(ro, k))
    OBVIOUS
  <2>6. ws \in Nat \ {0}
    BY <1>6, BucketTypes
  <2>7. /\ LinesGoOn(tr, n, st, lw, next, st2, lw2, t, u, ty)
        /\ all = Closed(st[u], t, n + 1) /\ ro = ReadOnlyClosed(st[u], t, n, lw[u], ty)
    BY <1>1, <1>2, <2>1, <2>2 DEF Known, RecordIs, LinesGoOn
  <2>8. \A l \in Lines : /\ F2[l] = IF l = u THEN F[l] + d ELSE F[l]
                         /\ G2[l] = IF l = u THEN G[l] + e ELSE G[l]
    <3>1. ASSUME NEW l \in Lines
          PROVE  /\ AllRow(next, n + 1, st2, k, ws)[l]
                      = IF l = u THEN AllRow(tr, n, st, k, ws)[l]
                                        + SumOf(Worth(all, ws), AtLevel(all, k))
                                 ELSE AllRow(tr, n, st, k, ws)[l]
                 /\ ReadRow(next, n + 1, st2, lw2, k, ws)[l]
                      = IF l = u THEN ReadRow(tr, n, st, lw, k, ws)[l]
                                        + SumOf(Worth(ro, ws), AtLevel(ro, k))
                                 ELSE ReadRow(tr, n, st, lw, k, ws)[l]
      BY <2>6, <2>7, AccessRows
    <3>. QED
      BY <2>3, <2>4, <2>5, <3>1
  <2>9. RowIs(wcount, wcount_i, k, j, F) /\ RowIs(wcount_ro, wcount_ro_i, k, j, G)
    BY <1>6, <2>1, <2>3 DEF RunRows
  <2>10. Bounded(all, N) /\ Bounded(ro, N)
    BY <1>3 DEF CountsIs
  <2>11. RowIs(Counted(wcount, all), Summed(wcount_i, all), k, j, F2)
    <3>1. PICK c, ci : c = wcount /\ ci = wcount_i
      OBVIOUS
    <3>2. c \in Tables /\ ci \in Tables /\ RowIs(c, ci, k, j, F)
      BY <1>4, <2>9, <3>1
    <3>3. \A l \in Lines : F2[l] = IF l = u THEN F[l] + d ELSE F[l]
      BY <2>8
    <3>4. d = SumOf(Worth(all, sublog_index_to_value(j)), AtLevel(all, k))
      BY <1>6, <2>5
    <3>5. RowIs(Counted(c, all), Summed(ci, all), k, j, F2)
      BY <1>4, <1>5, <2>10, <3>2, <3>3, <3>4, RowAccess
    <3>. QED
      BY <3>1, <3>5
  <2>12. RowIs(Counted(wcount_ro, ro), Summed(wcount_ro_i, ro), k, j, G2)
    <3>1. PICK c, ci : c = wcount_ro /\ ci = wcount_ro_i
      OBVIOUS
    <3>2. c \in Tables /\ ci \in Tables /\ RowIs(c, ci, k, j, G)
      BY <1>4, <2>9, <3>1
    <3>3. \A l \in Lines : G2[l] = IF l = u THEN G[l] + e ELSE G[l]
      BY <2>8
    <3>4. e = SumOf(Worth(ro, sublog_index_to_value(j)), AtLevel(ro, k))
      BY <1>6, <2>5
    <3>5. RowIs(Counted(c, ro), Summed(ci, ro), k, j, G2)
      BY <1>4, <1>5, <2>10, <3>2, <3>3, <3>4, RowAccess
    <3>. QED
      BY <3>1, <3>5
  <2>13. /\ wcount' = Counted(wcount, all) /\ wcount_i' = Summed(wcount_i, all)
         /\ wcount_ro' = Counted(wcount_ro, ro) /\ wcount_ro_i' = Summed(wcount_ro_i, ro)
    BY <1>3 DEF CountsIs
  <2>14. F2 = AllRow(trace', N', stamps', k, ws) /\ G2 = ReadRow(trace', N', stamps', last_write', k, ws)
    <3>1. N' = n + 1
      BY <1>1, <2>1 DEF RecordIs
    <3>. QED
      BY <2>2, <2>4, <3>1
  <2>. QED
    BY <2>11, <2>12, <2>13, <2>14
<1>. QED
  BY <1>6 DEF RunRows

\* It keeps M the numbers of shared lines.
LEMMA SharedRecord ==
  ASSUME Known, SharedRows,
         NEW t \in Threads, NEW u \in Lines, NEW ty \in TAccessType, RecordMem(t, u, ty)
  PROVE  SharedRows'
<1>1. RecordIs(t, u, ty)
  BY RecordFacts
<1>2. M \in [Levels -> Nat]
  BY DEF Known, TypeOK
<1>3. PICK n, list, c : n = N /\ list = stamps[u] /\ c = LevelOf(list, t)
  OBVIOUS
<1>4. PICK moved : moved = AfterAccess(n, list, t)
  OBVIOUS
<1>5. Accesses(n, list, t, c)
  BY <1>1, <1>3, RecordKnown
<1>6. M' = IF Found(list, t) THEN M ELSE [M EXCEPT ![Cardinality(PassedBy(list, t))] = @ + 1]
  BY <1>3 DEF RecordMem
<1>7. ASSUME NEW k \in Levels
      PROVE  M'[k] = SumOf([l \in Lines |-> Shares(stamps'[l], k)], Lines)
  <2>1. /\ Cardinality(PassedBy(list, t)) = c /\ c \in Levels
        /\ Shares(moved, k) = Shares(list, k) + (IF ~ Found(list, t) /\ k = c THEN 1 ELSE 0)
    BY <1>4, <1>5, SharesAfter
  <2>2. PICK d \in Int : d = IF ~ Found(list, t) /\ k = c THEN 1 ELSE 0
    OBVIOUS
  <2>3. M'[k] = M[k] + d
    <3>1. PICK m \in Nat : m = M[k]
      BY <1>2
    <3>2. CASE Found(list, t)
      BY <1>6, <2>2, <3>1, <3>2
    <3>3. CASE ~ Found(list, t) /\ k = c
      BY <1>2, <1>6, <2>1, <2>2, <3>1, <3>3
    <3>4. CASE ~ Found(list, t) /\ k # c
      BY <1>2, <1>6, <2>1, <2>2, <3>1, <3>4
    <3>. QED
      BY <3>2, <3>3, <3>4
  <2>4. PICK F, G : /\ F = [l \in Lines |-> Shares(stamps[l], k)]
                    /\ G = [l \in Lines |-> Shares(stamps'[l], k)]
    OBVIOUS
  <2>5. M[k] = SumOf(F, Lines)
    BY <2>4 DEF SharedRows
  <2>6. \A l \in Lines : F[l] \in Int
    BY <2>4 DEF Shares
  <2>7. ASSUME NEW l \in Lines PROVE G[l] = IF l = u THEN F[l] + d ELSE F[l]
    <3>1. stamps'[l] = IF l = u THEN moved ELSE stamps[l]
      BY <1>1, <1>3, <1>4 DEF RecordIs
    <3>. QED
      BY <1>3, <2>1, <2>2, <2>4, <3>1
  <2>8. SumOf(G, Lines) = SumOf(F, Lines) + d
    BY <2>6, <2>7, Constants, SumChange
  <2>. QED
    BY <2>3, <2>4, <2>5, <2>8
<1>. QED
  BY <1>7 DEF SharedRows

\* Counting intervals within the trace keeps the long buckets empty.
LEMMA ShortCounts ==
  ASSUME TraceFits, Known, AllShort(N), NEW all, NEW ro, CountsIs(all, ro),
         NEW n \in Nat, N <= n, n <= MaxTrace
  PROVE  AllShort(n)'
<1>1. /\ wcount \in Tables /\ wcount_i \in Tables /\ wcount_ro \in Tables /\ wcount_ro_i \in Tables
      /\ N \in Nat
  BY DEF Known, TypeOK, Tables
<1>2. n < 2 ^ WordBits
  <2>1. 2 ^ WordBits \in Nat
    BY PowerOfTwo, SublogAssumption
  <2>. QED
    BY <2>1, Constants DEF TraceFits
<1>3. Bounded(all, N) /\ Bounded(ro, N)
  BY DEF CountsIs
<1>4. ASSUME NEW count \in Tables, Short(count, N), NEW ints, Bounded(ints, N)
      PROVE  Short(Counted(count, ints), n) /\ Short(Summed(count, ints), n)
  <2>1. PICK m \in Nat : m = N
    BY <1>1
  <2>2. Short(count, m) /\ Bounded(ints, m) /\ m <= n
    BY <1>4, <2>1
  <2>. QED
    BY <1>2, <2>2, ShortStays
<1>5. /\ Short(Counted(wcount, all), n) /\ Short(Summed(wcount_i, all), n)
      /\ Short(Counted(wcount_ro, ro), n) /\ Short(Summed(wcount_ro_i, ro), n)
  BY <1>1, <1>3, <1>4 DEF AllShort
<1>6. /\ Short(wcount', n) /\ Short(wcount_i', n) /\ Short(wcount_ro', n) /\ Short(wcount_ro_i', n)
  BY <1>5 DEF CountsIs
<1>. QED
  BY <1>6 DEF AllShort, Short

\* An access keeps the invariant.
LEMMA CountsRecord ==
  ASSUME TraceFits, Counts,
         NEW t \in Threads, NEW u \in Lines, NEW ty \in TAccessType, RecordMem(t, u, ty)
  PROVE  Counts'
<1>1. RecordIs(t, u, ty) /\ Known /\ SharedRows /\ AllShort(N)
  BY RecordFacts DEF Counts
<1>2. PICK all, ro : /\ all = Closed(stamps[u], t, N + 1)
                     /\ ro = ReadOnlyClosed(stamps[u], t, N, last_write[u], ty)
  OBVIOUS
<1>3. CountsIs(all, ro)
  BY <1>1, <1>2, RecordCounts
<1>4. stage = "run" /\ stage' = "run" /\ N' = N + 1 /\ N < MaxTrace /\ N \in Nat
  BY <1>1 DEF RecordIs, Known, TypeOK
<1>5. PICK n : n = N + 1
  OBVIOUS
<1>6. n \in Nat /\ N <= n /\ n <= MaxTrace /\ N' = n
  BY <1>4, <1>5, Constants
<1>7. AllShort(n)'
  BY <1>1, <1>3, <1>6, ShortCounts
<1>8. AllShort(N)'
  BY <1>6, <1>7 DEF AllShort, Short
<1>9. Known' /\ SharedRows' /\ RunRows'
  BY <1>1, <1>4, KnownRecord, SharedRecord, RunRowsRecord DEF Counts
<1>. QED
  BY <1>4, <1>8, <1>9 DEF Counts

\* When each line changes, and the counted intervals are worth the sum of that, the
\* row follows.
LEMMA RowAdd ==
  ASSUME NEW count \in Tables, NEW count_i \in Tables, NEW k \in Levels, NEW j \in Nat \ {0},
         NEW n \in Nat, n < 2 ^ WordBits, NEW ints, Bounded(ints, n),
         NEW A, \A l \in Lines : A[l] \in Int,
         SumOf(Worth(ints, sublog_index_to_value(j)), AtLevel(ints, k)) = SumOf(A, Lines),
         NEW F, RowIs(count, count_i, k, j, F),
         NEW G, \A l \in Lines : G[l] = F[l] + A[l]
  PROVE  RowIs(Counted(count, ints), Summed(count_i, ints), k, j, G)
<1>1. AreIntervals(ints) /\ InWord(ints)
  BY BoundedIntervals
<1>2. RowOf(Counted(count, ints), Summed(count_i, ints), k, j)
        = RowOf(count, count_i, k, j) + SumOf(A, Lines)
  BY <1>1, RowCounted
<1>3. /\ RowOf(count, count_i, k, j) = SumOf(F, Lines)
      /\ \A l \in Lines : F[l] \in Int
  BY DEF RowIs
<1>4. PICK a \in Int : a = 1
  OBVIOUS
<1>5. \A l \in Lines : G[l] = a * F[l] + a * A[l] /\ G[l] \in Int
  BY <1>3, <1>4
<1>6. SumOf(F, Lines) \in Int /\ SumOf(A, Lines) \in Int
  BY <1>3, Constants, SumType
<1>7. SumOf(G, Lines) = a * SumOf(F, Lines) + a * SumOf(A, Lines)
  BY <1>3, <1>5, Constants, SumLinear
<1>8. SumOf(G, Lines) = SumOf(F, Lines) + SumOf(A, Lines)
  BY <1>4, <1>6, <1>7
<1>. QED
  BY <1>2, <1>3, <1>5, <1>8 DEF RowIs

\* The end of the trace makes the rows those of all windows.
LEMMA RowsFini ==
  ASSUME TraceFits, Known, RunRows, Fini
  PROVE  EndRows'
<1>1. PICK all, ro : /\ all = AllParts(Lines, Opens(N, stamps))
                     /\ ro = AllParts(Lines, TaggedAll(N, stamps, last_write))
  OBVIOUS
<1>2. CountsIs(all, ro)
  BY <1>1, FiniCounts
<1>3. /\ wcount \in Tables /\ wcount_i \in Tables /\ wcount_ro \in Tables /\ wcount_ro_i \in Tables
      /\ N \in Nat /\ N <= MaxTrace
  BY DEF Known, TypeOK, Tables
<1>4. N < 2 ^ WordBits
  <2>1. 2 ^ WordBits \in Nat
    BY PowerOfTwo, SublogAssumption
  <2>. QED
    BY <1>3, <2>1, Constants DEF TraceFits
<1>5. PICK n, tr, st, lw : n = N /\ tr = trace /\ st = stamps /\ lw = last_write
  OBVIOUS
<1>6. \A l \in Lines : /\ LineKnown(tr, n, l, st[l], lw[l])
                       /\ Accesses(n, st[l], 0, LevelOf(st[l], 0)) /\ lw[l] \in Nat /\ lw[l] <= n
  <2>1. 0 \in Threads
    BY Constants DEF Threads
  <2>2. \A l \in Lines : LineKnown(tr, n, l, st[l], lw[l])
    BY <1>5 DEF Known
  <2>. QED
    BY <2>1, <2>2, KnownAccess
<1>7. n \in Nat /\ n < 2 ^ WordBits /\ Bounded(all, n) /\ Bounded(ro, n)
  BY <1>2, <1>3, <1>4, <1>5 DEF CountsIs
<1>8. ASSUME NEW k \in Levels, NEW j \in Nat \ {0}, NEW ws, ws = sublog_index_to_value(j)
      PROVE  /\ RowIs(wcount', wcount_i', k, j, AllEnded(trace', N', stamps', k, ws))
             /\ RowIs(wcount_ro', wcount_ro_i', k, j, ReadEnded(trace', N', k, ws))
  <2>1. ws \in Nat \ {0} /\ k \in Nat
    BY <1>8, BucketTypes, Constants
  <2>2. PICK A, B : /\ A = [l \in Lines |-> OpenAt(n, st[l], k, ws)]
                    /\ B = [l \in Lines |-> SinceAt(n, st[l], lw[l], k, ws)]
    OBVIOUS
  <2>3. PICK F, G : F = AllRow(tr, n, st, k, ws) /\ G = ReadRow(tr, n, st, lw, k, ws)
    OBVIOUS
  <2>4. PICK F2, G2 : F2 = AllEnded(tr, n, st, k, ws) /\ G2 = ReadEnded(tr, n, k, ws)
    OBVIOUS
  <2>5. RowIs(wcount, wcount_i, k, j, F) /\ RowIs(wcount_ro, wcount_ro_i, k, j, G)
    BY <1>5, <1>8, <2>3 DEF RunRows
  <2>6. /\ SumOf(Worth(all, ws), AtLevel(all, k)) = SumOf(A, Lines)
        /\ SumOf(Worth(ro, ws), AtLevel(ro, k)) = SumOf(B, Lines)
        /\ \A l \in Lines : A[l] \in Int /\ B[l] \in Int
    <3>1. \A l \in Lines : Accesses(n, st[l], 0, LevelOf(st[l], 0)) /\ lw[l] \in Nat /\ lw[l] <= n
      BY <1>6
    <3>2. all = AllParts(Lines, Opens(n, st)) /\ ro = AllParts(Lines, TaggedAll(n, st, lw))
      BY <1>1, <1>5
    <3>3. /\ \A l \in Lines : A[l] = OpenAt(n, st[l], k, ws)
          /\ \A l \in Lines : B[l] = SinceAt(n, st[l], lw[l], k, ws)
      BY <2>2
    <3>4. /\ Bounded(all, n) /\ Bounded(ro, n)
          /\ SumOf(Worth(all, ws), AtLevel(all, k)) = SumOf(A, Lines)
          /\ SumOf(Worth(ro, ws), AtLevel(ro, k)) = SumOf(B, Lines)
          /\ \A l \in Lines : A[l] \in Int /\ B[l] \in Int
      BY <1>7, <2>1, <3>1, <3>2, <3>3, OpensWorth
    <3>. QED
      BY <3>4
  <2>7. \A l \in Lines : F2[l] = F[l] + A[l]
    BY <2>2, <2>3, <2>4 DEF AllEnded, AllRow
  <2>8. ASSUME NEW l \in Lines PROVE G2[l] = G[l] + B[l]
    <3>1. PICK list, w : list = st[l] /\ w = lw[l]
      OBVIOUS
    <3>2. PICK b : b = Later(Recent(list, k), w)
      OBVIOUS
    <3>3. Listed(tr, n, l, list) /\ WrittenAt(tr, n, l, w)
      BY <1>6, <3>1 DEF LineKnown
    <3>4. Cardinality(ManyReads(tr, n, l, k, ws))
            = ReadsAt(tr, n, l, list, w, k, ws) + (WindowsIn(n - w, ws) - WindowsIn(n - b, ws))
      BY <2>1, <3>2, <3>3, ReadsCount
    <3>5. B[l] = WindowsIn(n - w, ws) - WindowsIn(n - b, ws)
      BY <2>2, <3>1, <3>2 DEF SinceAt
    <3>6. G[l] = ReadsAt(tr, n, l, list, w, k, ws) /\ G2[l] = Cardinality(ManyReads(tr, n, l, k, ws))
      BY <2>3, <2>4, <3>1 DEF ReadRow, ReadEnded
    <3>. QED
      BY <3>4, <3>5, <3>6
  <2>9. RowIs(Counted(wcount, all), Summed(wcount_i, all), k, j, F2)
    <3>1. PICK c, ci : c = wcount /\ ci = wcount_i
      OBVIOUS
    <3>2. c \in Tables /\ ci \in Tables /\ RowIs(c, ci, k, j, F)
      BY <1>3, <2>5, <3>1
    <3>3. SumOf(Worth(all, sublog_index_to_value(j)), AtLevel(all, k)) = SumOf(A, Lines)
      BY <1>8, <2>6
    <3>4. \A l \in Lines : A[l] \in Int
      BY <2>6
    <3>5. RowIs(Counted(c, all), Summed(ci, all), k, j, F2)
      BY <1>7, <2>7, <3>2, <3>3, <3>4, RowAdd
    <3>. QED
      BY <3>1, <3>5
  <2>10. RowIs(Counted(wcount_ro, ro), Summed(wcount_ro_i, ro), k, j, G2)
    <3>1. PICK c, ci : c = wcount_ro /\ ci = wcount_ro_i
      OBVIOUS
    <3>2. c \in Tables /\ ci \in Tables /\ RowIs(c, ci, k, j, G)
      BY <1>3, <2>5, <3>1
    <3>3. SumOf(Worth(ro, sublog_index_to_value(j)), AtLevel(ro, k)) = SumOf(B, Lines)
      BY <1>8, <2>6
    <3>4. \A l \in Lines : B[l] \in Int /\ G2[l] = G[l] + B[l]
      BY <2>6, <2>8
    <3>5. RowIs(Counted(c, ro), Summed(ci, ro), k, j, G2)
      BY <1>7, <3>2, <3>3, <3>4, RowAdd
    <3>. QED
      BY <3>1, <3>5
  <2>11. /\ wcount' = Counted(wcount, all) /\ wcount_i' = Summed(wcount_i, all)
         /\ wcount_ro' = Counted(wcount_ro, ro) /\ wcount_ro_i' = Summed(wcount_ro_i, ro)
    BY <1>2 DEF CountsIs
  <2>12. F2 = AllEnded(trace', N', stamps', k, ws) /\ G2 = ReadEnded(trace', N', k, ws)
    <3>1. N' = n /\ trace' = tr /\ stamps' = st
      BY <1>5 DEF Fini
    <3>. QED
      BY <2>4, <3>1
  <2>. QED
    BY <2>9, <2>10, <2>11, <2>12
<1>. QED
  BY <1>8 DEF EndRows

\* The invariant is kept by the end of the trace ...
LEMMA CountsFini ==
  ASSUME TraceFits, Counts, Fini
  PROVE  Counts'
<1>1. PICK all, ro : /\ all = AllParts(Lines, Opens(N, stamps))
                     /\ ro = AllParts(Lines, TaggedAll(N, stamps, last_write))
  OBVIOUS
<1>2. Known /\ SharedRows /\ AllShort(N) /\ stage = "run" /\ RunRows
  BY DEF Counts, Fini
<1>3. CountsIs(all, ro) /\ Known'
  BY <1>1, <1>2, FiniCounts
<1>4. stage' = "done" /\ UNCHANGED <<N, M, stamps, last_write, trace>>
  BY DEF Fini
<1>5. PICK n : n = N
  OBVIOUS
<1>6. n \in Nat /\ N <= n /\ n <= MaxTrace /\ N' = n
  BY <1>2, <1>4, <1>5 DEF Known, TypeOK
<1>7. AllShort(n)'
  BY <1>2, <1>3, <1>6, ShortCounts
<1>8. AllShort(N)'
  BY <1>6, <1>7 DEF AllShort, Short
<1>9. SharedRows'
  BY <1>2, <1>4 DEF SharedRows
<1>10. EndRows'
  BY <1>2, RowsFini
<1>. QED
  BY <1>3, <1>4, <1>8, <1>9, <1>10 DEF Counts

\* ... and by every step.
LEMMA CountsNext ==
  ASSUME TraceFits
  PROVE  Counts /\ [Next]_vars => Counts'
<1>. SUFFICES ASSUME Counts, [Next]_vars PROVE Counts'
  OBVIOUS
<1>1. CASE \E t \in Threads, l \in Lines, type \in TAccessType : RecordMem(t, l, type)
  BY <1>1, CountsRecord
<1>2. CASE Fini
  BY <1>2, CountsFini
<1>3. CASE UNCHANGED vars
  <2>1. Known'
    BY <1>3, KnownNext DEF Counts
  <2>2. (SharedRows /\ AllShort(N))'
    BY <1>3 DEF vars, Counts, SharedRows, AllShort, Short
  <2>3. stage' = stage /\ (RunRows => RunRows') /\ (EndRows => EndRows')
    BY <1>3 DEF vars, RunRows, EndRows
  <2>. QED
    BY <2>1, <2>2, <2>3 DEF Counts
<1>4. CASE Terminated
  BY <1>3, <1>4 DEF Terminated
<1>. QED
  BY <1>1, <1>2, <1>3, <1>4 DEF Next

\* What the tables have counted is right in all states.
LEMMA CountsInvariant ==
  ASSUME TraceFits
  PROVE  Spec => []Counts
<1>. QED
  BY CountsInit, CountsNext, PTL DEF Spec

-----------------------------------------------------------------------------
(***************************************************************************)
(* The printed tables.                                                     *)
(***************************************************************************)
\* MapThenSumSet adds up the buckets of a row ...
LEMMA TotalIs ==
  ASSUME NEW count, NEW k, NEW F, F = count[k], NEW j, IsFiniteSet(j .. sublog_value_to_index(N + 1))
  PROVE  Total(count, k, j) = SumOf(F, j .. sublog_value_to_index(N + 1))
<1>. DEFINE T == j .. sublog_value_to_index(N + 1)
            V(b) == count[k][b]
            P(h) == h = [u \in SUBSET T |->
                           IF u = {} THEN 0 ELSE V(Picked(u)) + h[u \ {Picked(u)}]]
<1>1. IsFiniteSet(T)
  OBVIOUS
<1>2. Total(count, k, j) = (CHOOSE h : P(h))[T]
  BY Zenon DEF Total, MapThenSumSet, MapThenFoldSet, Picked
<1>3. \A b \in T : F[b] = V(b)
  OBVIOUS
<1>. HIDE DEF V, T
<1>4. \A h : IsSum(F, T, h) <=> P(h)
  <2>1. \A u \in SUBSET T : u # {} => F[Picked(u)] = V(Picked(u))
    BY <1>3, PickedIn
  <2>. QED
    BY <2>1 DEF IsSum
<1>5. P(CHOOSE h : P(h))
  <2>1. \E h : P(h)
    BY <1>1, <1>4, SumExists
  <2>. HIDE DEF P
  <2>. QED
    BY <2>1
<1>. HIDE DEF P
<1>. QED
  BY <1>1, <1>2, <1>4, <1>5, SumIs DEF T

\* ... and the windows of the lines, those that only read ...
ReadTable(k, ws) == Windows(ws, LAMBDA X : SharedBy(k, X) /\ ReadOnly(X))

ReadWindows(l, k, ws) ==
  {i \in 1 .. N - ws + 1 : SharedBy(k, Window(l, i, ws)) /\ ReadOnly(Window(l, i, ws))}

\* The reference table of reads, taken line by line.
LEMMA ReadWindowsIs ==
  ASSUME NEW F, NEW k, NEW ws, \A l \in Lines : F[l] = Cardinality(ReadWindows(l, k, ws))
  PROVE  ReadTable(k, ws) = SumOf(F, Lines)
<1>. DEFINE V(l) == Cardinality(ReadWindows(l, k, ws))
            P(h) == h = [u \in SUBSET Lines |->
                           IF u = {} THEN 0 ELSE V(Picked(u)) + h[u \ {Picked(u)}]]
<1>1. ReadTable(k, ws) = (CHOOSE h : P(h))[Lines]
  BY Zenon DEF ReadTable, Windows, ReadWindows, MapThenSumSet, MapThenFoldSet, Picked
<1>2. \A l \in Lines : F[l] = V(l)
  OBVIOUS
<1>. HIDE DEF V
<1>3. \A h : IsSum(F, Lines, h) <=> P(h)
  <2>1. \A u \in SUBSET Lines : u # {} => F[Picked(u)] = V(Picked(u))
    BY <1>2, PickedIn
  <2>. QED
    BY <2>1 DEF IsSum
<1>4. P(CHOOSE h : P(h))
  <2>1. \E h : P(h)
    BY <1>3, SumExists, Constants
  <2>. HIDE DEF P
  <2>. QED
    BY <2>1
<1>. HIDE DEF P
<1>. QED
  BY <1>1, <1>3, <1>4, SumIs, Constants

\* ... and those with a write.
WriteTable(k, ws) == Windows(ws, LAMBDA X : SharedBy(k, X) /\ ~ ReadOnly(X))

WriteWindows(l, k, ws) ==
  {i \in 1 .. N - ws + 1 : SharedBy(k, Window(l, i, ws)) /\ ~ ReadOnly(Window(l, i, ws))}

\* The reference table of writes, taken line by line.
LEMMA WriteWindowsIs ==
  ASSUME NEW F, NEW k, NEW ws, \A l \in Lines : F[l] = Cardinality(WriteWindows(l, k, ws))
  PROVE  WriteTable(k, ws) = SumOf(F, Lines)
<1>. DEFINE V(l) == Cardinality(WriteWindows(l, k, ws))
            P(h) == h = [u \in SUBSET Lines |->
                           IF u = {} THEN 0 ELSE V(Picked(u)) + h[u \ {Picked(u)}]]
<1>1. WriteTable(k, ws) = (CHOOSE h : P(h))[Lines]
  BY Zenon DEF WriteTable, Windows, WriteWindows, MapThenSumSet, MapThenFoldSet, Picked
<1>2. \A l \in Lines : F[l] = V(l)
  OBVIOUS
<1>. HIDE DEF V
<1>3. \A h : IsSum(F, Lines, h) <=> P(h)
  <2>1. \A u \in SUBSET Lines : u # {} => F[Picked(u)] = V(Picked(u))
    BY <1>2, PickedIn
  <2>. QED
    BY <2>1 DEF IsSum
<1>4. P(CHOOSE h : P(h))
  <2>1. \E h : P(h)
    BY <1>3, SumExists, Constants
  <2>. HIDE DEF P
  <2>. QED
    BY <2>1
<1>. HIDE DEF P
<1>. QED
  BY <1>1, <1>3, <1>4, SumIs, Constants

\* No row is for windows longer than the trace.
LEMMA RowFits ==
  ASSUME TraceFits, Known, NEW j \in Rows
  PROVE  /\ j \in Nat \ {0} /\ sublog_index_to_value(j) \in 1 .. N
         /\ N \in Nat /\ N + 1 \in Nat /\ N + 1 < 2 ^ WordBits
<1>1. N \in Nat /\ N + 1 \in Nat /\ N < 2 ^ WordBits /\ N + 1 < 2 ^ WordBits
  <2>1. 2 ^ WordBits \in Nat
    BY PowerOfTwo, SublogAssumption
  <2>. QED
    BY <2>1, Constants DEF TraceFits, Known, TypeOK
<1>2. PICK i : i = sublog_value_to_index(N)
  OBVIOUS
<1>3. i \in 0 .. MAX_WINDOW - 1 /\ \A m \in Nat : i >= m <=> N >= sublog_index_to_value(m)
  BY <1>1, <1>2, BucketBoundaries
<1>4. j \in 1 .. i
  BY <1>2 DEF Rows
<1>5. j \in Nat \ {0} /\ i >= j
  <2>1. i \in Int
    BY <1>3
  <2>. QED
    BY <1>4, <2>1
<1>6. sublog_index_to_value(j) \in Nat \ {0} /\ N >= sublog_index_to_value(j)
  BY <1>3, <1>5, BucketTypes
<1>. QED
  BY <1>1, <1>5, <1>6

\* What the two sums of a row come to is the sum of the row.
LEMMA RowSums ==
  ASSUME TraceFits, Known, NEW j \in Rows, NEW k \in Levels,
         NEW count \in Tables, NEW count_i \in Tables, Short(count, N), Short(count_i, N)
  PROVE  RowSum(count, count_i, k, j) = RowOf(count, count_i, k, j)
<1>1. /\ j \in Nat \ {0} /\ N \in Nat /\ N + 1 \in Nat /\ N + 1 < 2 ^ WordBits
  BY RowFits
<1>2. PICK n : n = sublog_value_to_index(N + 1)
  OBVIOUS
<1>3. n \in Buckets /\ \A m \in Nat : n >= m <=> N + 1 >= sublog_index_to_value(m)
  BY <1>1, <1>2, BucketBoundaries DEF Buckets
<1>4. PICK T : T = j .. n
  OBVIOUS
<1>5. PICK B : B = BucketsFrom(j)
  OBVIOUS
<1>6. /\ IsFiniteSet(B) /\ B \subseteq Buckets /\ T \subseteq B
      /\ \A b \in Buckets : b \in Nat
  <2>1. \A b \in Buckets : b \in Nat
    BY <1>1, BucketTypes
  <2>2. n \in Nat
    BY <1>3, <2>1
  <2>3. \A b \in T : b \in Buckets /\ b >= j
    <3>1. WordBits + 1 - SublogBits \in Nat
      BY SublogAssumption
    <3>2. MAX_WINDOW \in Nat
      BY <3>1, SubBucketsType DEF MAX_WINDOW
    <3>. QED
      BY <1>1, <1>3, <1>4, <2>2, <3>2 DEF Buckets
  <2>4. T \subseteq B
    BY <1>5, <2>3 DEF BucketsFrom
  <2>. QED
    BY <1>1, <1>5, <2>1, <2>4, BucketTypes
<1>7. IsFiniteSet(T)
  BY <1>6, FS_Subset
<1>8. PICK F, G : F = count_i[k] /\ G = count[k]
  OBVIOUS
<1>9. \A b \in Buckets : F[b] \in Int /\ G[b] \in Int
  BY <1>8 DEF Tables
<1>10. ASSUME NEW b \in B \ T PROVE F[b] = 0 /\ G[b] = 0
  <2>1. b \in Buckets /\ b \in Nat /\ b >= j /\ ~ (n >= b)
    BY <1>1, <1>3, <1>4, <1>5, <1>6 DEF BucketsFrom
  <2>2. sublog_index_to_value(b) \in Nat /\ ~ (N + 1 >= sublog_index_to_value(b))
    BY <1>3, <2>1, BucketValue
  <2>3. sublog_index_to_value(b) > N
    BY <1>1, <2>2
  <2>. QED
    BY <1>8, <2>1, <2>3 DEF Short
<1>11. PICK ws \in Nat \ {0} : ws = sublog_index_to_value(j)
  BY <1>1, BucketTypes
<1>12. PICK a \in Int : a = ws - 1
  BY <1>11
<1>13. PICK one \in Int, m \in Int : one = 1 /\ m = 0 - a
  BY <1>12
<1>14. \A x, y \in Int : a * x \in Int /\ y - a * x = one * y + m * x
  BY <1>13
<1>15. PICK R : R = RowIn(count, count_i, k, ws)
  OBVIOUS
<1>16. ASSUME NEW b \in Buckets
       PROVE  R[b] \in Int /\ R[b] = F[b] - a * G[b] /\ R[b] = one * F[b] + m * G[b]
  <2>1. PICK x \in Int, y \in Int : x = G[b] /\ y = F[b]
    BY <1>9
  <2>2. R[b] = y - a * x
    BY <1>8, <1>12, <1>15, <2>1 DEF RowIn
  <2>3. a * x \in Int /\ y - a * x = one * y + m * x
    BY <1>14
  <2>. QED
    BY <2>1, <2>2, <2>3
<1>17. SumOf(R, B) = SumOf(R, T)
  <2>1. ASSUME NEW b \in B \ T PROVE R[b] = 0
    <3>1. F[b] = 0 /\ G[b] = 0 /\ b \in Buckets
      BY <1>6, <1>10
    <3>2. a * 0 = 0
      BY <1>12
    <3>3. R[b] = F[b] - a * G[b]
      BY <1>16, <3>1
    <3>. QED
      BY <3>1, <3>2, <3>3
  <2>2. \A b \in B : R[b] \in Int
    BY <1>6, <1>16
  <2>. QED
    BY <1>6, <2>1, <2>2, SumSubset
<1>18. SumOf(R, T) = one * SumOf(F, T) + m * SumOf(G, T)
  <2>1. T \subseteq Buckets
    BY <1>6
  <2>2. /\ \A b \in T : F[b] \in Int /\ G[b] \in Int
        /\ \A b \in T : R[b] = one * F[b] + m * G[b]
    BY <1>9, <1>16, <2>1
  <2>. QED
    BY <1>7, <1>13, <2>2, SumLinear, SMTT(30)
<1>19. PICK x \in Int, y \in Int : x = SumOf(F, T) /\ y = SumOf(G, T)
  <2>1. \A b \in T : F[b] \in Int /\ G[b] \in Int
    BY <1>6, <1>9
  <2>2. SumOf(F, T) \in Int /\ SumOf(G, T) \in Int
    BY <1>7, <2>1, SumType
  <2>. QED
    BY <2>2
<1>20. Total(count_i, k, j) = SumOf(F, T) /\ Total(count, k, j) = SumOf(G, T)
  <2>1. T = j .. sublog_value_to_index(N + 1)
    BY <1>2, <1>4
  <2>2. IsFiniteSet(j .. sublog_value_to_index(N + 1))
    BY <1>7, <2>1
  <2>3. Total(count_i, k, j) = SumOf(F, j .. sublog_value_to_index(N + 1))
    BY <1>8, <2>2, TotalIs
  <2>4. Total(count, k, j) = SumOf(G, j .. sublog_value_to_index(N + 1))
    BY <1>8, <2>2, TotalIs
  <2>. QED
    BY <2>1, <2>3, <2>4
<1>21. x - a * y = SumOf(R, B)
  BY <1>14, <1>17, <1>18, <1>19
<1>22. RowSum(count, count_i, k, j) = x - a * y
  BY <1>11, <1>12, <1>19, <1>20 DEF RowSum
<1>. QED
  BY <1>5, <1>11, <1>15, <1>21, <1>22 DEF RowOf

\* What the recorder subtracts from the shared lines times the number of windows is
\* what is to be subtracted, line by line.
LEMMA LineEnded ==
  ASSUME NEW tr, NEW n, NEW l, NEW list, Listed(tr, n, l, list),
         NEW k \in Levels, NEW ws \in 1 .. n
  PROVE  /\ IsFiniteSet(Many(tr, n, l, k, ws, 0))
         /\ AllAt(tr, n, l, list, k, ws) + OpenAt(n, list, k, ws) \in Int
         /\ Shares(list, k) \in Int
         /\ Cardinality(Many(tr, n, l, k, ws, 0))
              = Shares(list, k) * (n - ws + 1)
                  - (AllAt(tr, n, l, list, k, ws) + OpenAt(n, list, k, ws))
<1>1. n \in Nat /\ k \in Nat /\ ws \in Nat \ {0} /\ 0 \in Nat /\ 0 <= n /\ ws <= n
  BY Constants DEF Listed
<1>2. PICK r \in Nat : r = Recent(list, k)
  BY <1>1, ListedRecent
<1>3. Later(Recent(list, k), 0) = r
  BY <1>2 DEF Later
<1>4. PICK f : f = Cardinality(Few(tr, n, l, k, ws, 0, r))
  OBVIOUS
<1>5. /\ IsFiniteSet(Many(tr, n, l, k, ws, 0)) /\ f \in Nat
      /\ Cardinality(Many(tr, n, l, k, ws, 0)) = WindowsIn(n - 0, ws) - WindowsIn(n - r, ws) - f
  <2>1. r = Later(Recent(list, k), 0)
    BY <1>3
  <2>2. /\ IsFiniteSet(Many(tr, n, l, k, ws, 0))
        /\ Cardinality(Few(tr, n, l, k, ws, 0, r)) \in Nat
        /\ Cardinality(Many(tr, n, l, k, ws, 0))
             = WindowsIn(n - 0, ws) - WindowsIn(n - r, ws) - Cardinality(Few(tr, n, l, k, ws, 0, r))
    BY <1>1, <2>1, ManyCount
  <2>. QED
    BY <1>4, <2>2
<1>6. WindowsIn(n - 0, ws) = n - ws + 1
  BY <1>1 DEF WindowsIn
<1>7. AllAt(tr, n, l, list, k, ws) = f
  BY <1>3, <1>4 DEF AllAt
<1>8. PICK x \in Int : x = WindowsIn(n - r, ws)
  <2>1. WindowsIn(n - r, ws) \in Int
    BY <1>1 DEF WindowsIn
  <2>. QED
    BY <2>1
<1>9. CASE r > 0
  <2>1. Shares(list, k) = 1 /\ OpenAt(n, list, k, ws) = x
    BY <1>2, <1>8, <1>9 DEF Shares, OpenAt
  <2>. QED
    BY <1>1, <1>5, <1>6, <1>7, <1>8, <2>1
<1>10. CASE r = 0
  <2>1. Shares(list, k) = 0 /\ OpenAt(n, list, k, ws) = 0
    BY <1>2, <1>10 DEF Shares, OpenAt
  <2>2. Few(tr, n, l, k, ws, 0, r) = {}
    BY <1>10 DEF Few
  <2>3. f = 0
    BY <1>4, <2>2, FS_EmptySet
  <2>4. x = n - ws + 1
    BY <1>1, <1>6, <1>8, <1>10
  <2>. QED
    BY <1>1, <1>5, <1>6, <1>7, <1>8, <2>1, <2>3, <2>4
<1>. QED
  BY <1>9, <1>10

\* The windows of the properties are those the rows count.
LEMMA WindowsAre ==
  ASSUME NEW l \in Lines, LineKnown(trace, N, l, stamps[l], last_write[l]),
         NEW k \in Levels, NEW ws \in 1 .. N
  PROVE  /\ ReadWindows(l, k, ws) = ManyReads(trace, N, l, k, ws)
         /\ WriteWindows(l, k, ws) = Many(trace, N, l, k, ws, 0) \ ManyReads(trace, N, l, k, ws)
         /\ ManyReads(trace, N, l, k, ws) \subseteq Many(trace, N, l, k, ws, 0)
<1>1. N \in Nat
  BY DEF LineKnown, Listed
<1>2. ASSUME NEW i
      PROVE  /\ SharedBy(k, Window(l, i, ws)) <=> Cardinality(Users(trace, l, i, ws)) > k
             /\ ReadOnly(Window(l, i, ws)) <=> OnlyRead(trace, l, i, ws)
  BY DEF SharedBy, Window, Users, ReadOnly, OnlyRead
<1>3. \A i : i \in 1 .. N - ws + 1 <=> i \in 1 .. N /\ i + ws - 1 <= N
  BY <1>1
<1>4. \A i : i \in ReadWindows(l, k, ws) <=> i \in ManyReads(trace, N, l, k, ws)
  BY <1>2, <1>3 DEF ReadWindows, ManyReads
<1>5. \A i : i \in ManyReads(trace, N, l, k, ws)
               <=> i \in Many(trace, N, l, k, ws, 0) /\ OnlyRead(trace, l, i, ws)
  BY <1>1 DEF ManyReads, Many
<1>6. \A i : i \in WriteWindows(l, k, ws)
               <=> i \in Many(trace, N, l, k, ws, 0) /\ ~ OnlyRead(trace, l, i, ws)
  BY <1>1, <1>2, <1>3 DEF WriteWindows, Many
<1>. QED
  BY <1>4, <1>5, <1>6

\* At the end the read-only rows have the windows of reads ...
LEMMA ReadRowExact ==
  ASSUME TraceFits, Counts, stage = "done", NEW j \in Rows, NEW k \in Levels,
         NEW ws, ws = sublog_index_to_value(j)
  PROVE  \E F : /\ \A l \in Lines : /\ F[l] = Cardinality(ManyReads(trace, N, l, k, ws))
                                    /\ F[l] \in Int
                /\ READONLY_SFP(k, j) = SumOf(F, Lines)
<1>1. /\ Known /\ AllShort(N) /\ EndRows
      /\ wcount_ro \in Tables /\ wcount_ro_i \in Tables
  BY DEF Counts, Known, TypeOK, Tables
<1>2. j \in Nat \ {0}
  BY <1>1, RowFits
<1>3. PICK F : F = ReadEnded(trace, N, k, ws)
  OBVIOUS
<1>4. RowIs(wcount_ro, wcount_ro_i, k, j, F)
  BY <1>1, <1>2, <1>3 DEF EndRows
<1>5. RowSum(wcount_ro, wcount_ro_i, k, j) = RowOf(wcount_ro, wcount_ro_i, k, j)
  BY <1>1, RowSums DEF AllShort
<1>6. READONLY_SFP(k, j) = SumOf(F, Lines) /\ \A l \in Lines : F[l] \in Int
  BY <1>4, <1>5 DEF READONLY_SFP, RowIs
<1>7. \A l \in Lines : F[l] = Cardinality(ManyReads(trace, N, l, k, ws))
  BY <1>3 DEF ReadEnded
<1>. QED
  BY <1>6, <1>7

\* ... and the rows of all accesses those with more than k users.
LEMMA AllRowExact ==
  ASSUME TraceFits, Counts, stage = "done", NEW j \in Rows, NEW k \in Levels,
         NEW ws, ws = sublog_index_to_value(j)
  PROVE  \E F : /\ \A l \in Lines : /\ F[l] = Cardinality(Many(trace, N, l, k, ws, 0))
                                    /\ F[l] \in Int
                /\ ALL_SFP(k, j) = SumOf(F, Lines)
<1>1. /\ Known /\ SharedRows /\ AllShort(N) /\ EndRows
      /\ wcount \in Tables /\ wcount_i \in Tables
  BY DEF Counts, Known, TypeOK, Tables
<1>2. j \in Nat \ {0} /\ ws \in 1 .. N /\ N \in Nat
  BY <1>1, RowFits
<1>3. PICK A : A = AllEnded(trace, N, stamps, k, ws)
  OBVIOUS
<1>4. PICK S : S = [l \in Lines |-> Shares(stamps[l], k)]
  OBVIOUS
<1>5. PICK F : F = [l \in Lines |-> Cardinality(Many(trace, N, l, k, ws, 0))]
  OBVIOUS
<1>6. M[k] = SumOf(S, Lines)
  BY <1>1, <1>4 DEF SharedRows
<1>7. RowSum(wcount, wcount_i, k, j) = SumOf(A, Lines)
  <2>1. RowIs(wcount, wcount_i, k, j, A)
    BY <1>1, <1>2, <1>3 DEF EndRows
  <2>2. RowSum(wcount, wcount_i, k, j) = RowOf(wcount, wcount_i, k, j)
    BY <1>1, RowSums DEF AllShort
  <2>. QED
    BY <2>1, <2>2 DEF RowIs
<1>8. PICK w \in Int, m \in Int : w = N - ws + 1 /\ m = -1
  BY <1>2
<1>9. ASSUME NEW l \in Lines
      PROVE  /\ S[l] \in Int /\ A[l] \in Int /\ F[l] \in Int
             /\ F[l] = S[l] * w - A[l]
             /\ F[l] = Cardinality(Many(trace, N, l, k, ws, 0))
  <2>1. PICK list, tr, n : list = stamps[l] /\ tr = trace /\ n = N
    OBVIOUS
  <2>2. Listed(tr, n, l, list) /\ ws \in 1 .. n
    BY <1>1, <1>2, <2>1 DEF Known, LineKnown
  <2>3. /\ IsFiniteSet(Many(tr, n, l, k, ws, 0))
        /\ AllAt(tr, n, l, list, k, ws) + OpenAt(n, list, k, ws) \in Int
        /\ Shares(list, k) \in Int
        /\ Cardinality(Many(tr, n, l, k, ws, 0))
             = Shares(list, k) * (n - ws + 1)
                 - (AllAt(tr, n, l, list, k, ws) + OpenAt(n, list, k, ws))
    BY <2>2, LineEnded
  <2>4. S[l] = Shares(list, k)
    BY <1>4, <2>1
  <2>5. A[l] = AllAt(tr, n, l, list, k, ws) + OpenAt(n, list, k, ws)
    BY <1>3, <2>1 DEF AllEnded
  <2>6. F[l] = Cardinality(Many(tr, n, l, k, ws, 0))
    BY <1>5, <2>1
  <2>7. Cardinality(Many(tr, n, l, k, ws, 0)) \in Int
    BY <2>3, FS_CardinalityType
  <2>. QED
    BY <1>8, <2>1, <2>3, <2>4, <2>5, <2>6, <2>7
<1>10. \A x, y \in Int : x * w - y = w * x + m * y
  BY <1>8
<1>11. \A l \in Lines : F[l] = w * S[l] + m * A[l]
  BY <1>9, <1>10
<1>12. SumOf(F, Lines) = w * SumOf(S, Lines) + m * SumOf(A, Lines)
  BY <1>9, <1>11, Constants, SumLinear
<1>13. PICK x \in Int, y \in Int : x = SumOf(S, Lines) /\ y = SumOf(A, Lines)
  <2>1. SumOf(S, Lines) \in Int /\ SumOf(A, Lines) \in Int
    BY <1>9, Constants, SumType
  <2>. QED
    BY <2>1
<1>14. ALL_SFP(k, j) = x * w - y
  BY <1>6, <1>7, <1>8, <1>13 DEF ALL_SFP
<1>15. ALL_SFP(k, j) = SumOf(F, Lines)
  BY <1>10, <1>12, <1>13, <1>14
<1>. QED
  BY <1>9, <1>15

\* So the three tables are the footprints they are printed as.
LEMMA TablesExact ==
  ASSUME TraceFits
  PROVE  Counts => ReadOnlyIsExact /\ ReadWriteIsExact
<1>. SUFFICES ASSUME Counts, stage = "done", NEW j \in Rows, NEW k \in Levels,
                     NEW ws, ws = sublog_index_to_value(j)
              PROVE  /\ READONLY_SFP(k, j) = ReadTable(k, ws)
                     /\ READWRITE_SFP(k, j) = WriteTable(k, ws)
  BY Zenon DEF ReadOnlyIsExact, ReadWriteIsExact, ReadTable, WriteTable
<1>1. Known
  BY DEF Counts
<1>2. ws \in 1 .. N /\ N \in Nat
  BY <1>1, RowFits
<1>3. PICK F : /\ \A l \in Lines : /\ F[l] = Cardinality(ManyReads(trace, N, l, k, ws))
                                   /\ F[l] \in Int
               /\ READONLY_SFP(k, j) = SumOf(F, Lines)
  BY ReadRowExact
<1>4. PICK G : /\ \A l \in Lines : /\ G[l] = Cardinality(Many(trace, N, l, k, ws, 0))
                                   /\ G[l] \in Int
               /\ ALL_SFP(k, j) = SumOf(G, Lines)
  BY AllRowExact
<1>5. PICK H : H = [l \in Lines |-> Cardinality(WriteWindows(l, k, ws))]
  OBVIOUS
<1>6. ASSUME NEW l \in Lines
      PROVE  /\ F[l] = Cardinality(ReadWindows(l, k, ws))
             /\ H[l] = Cardinality(WriteWindows(l, k, ws)) /\ H[l] = G[l] - F[l]
  <2>1. LineKnown(trace, N, l, stamps[l], last_write[l])
    BY <1>1 DEF Known
  <2>2. /\ ReadWindows(l, k, ws) = ManyReads(trace, N, l, k, ws)
        /\ WriteWindows(l, k, ws) = Many(trace, N, l, k, ws, 0) \ ManyReads(trace, N, l, k, ws)
        /\ ManyReads(trace, N, l, k, ws) \subseteq Many(trace, N, l, k, ws, 0)
    BY <1>2, <2>1, WindowsAre
  <2>3. PICK A, B : A = Many(trace, N, l, k, ws, 0) /\ B = ManyReads(trace, N, l, k, ws)
    OBVIOUS
  <2>4. IsFiniteSet(A)
    <3>1. A \subseteq 0 + 1 .. N /\ 0 \in Nat
      BY <1>2, <2>3 DEF Many
    <3>. QED
      BY <1>2, <3>1, WindowsFinite
  <2>5. B \subseteq A /\ A = B \cup (A \ B) /\ B \cap (A \ B) = {}
    BY <2>2, <2>3
  <2>6. IsFiniteSet(B) /\ IsFiniteSet(A \ B)
    BY <2>4, <2>5, FS_Subset
  <2>7. /\ Cardinality(B) \in Nat /\ Cardinality(A \ B) \in Nat
        /\ Cardinality(A) = Cardinality(B) + Cardinality(A \ B)
    BY <2>5, <2>6, UnionCount
  <2>8. F[l] = Cardinality(B) /\ G[l] = Cardinality(A) /\ H[l] = Cardinality(A \ B)
    BY <1>3, <1>4, <1>5, <2>2, <2>3
  <2>. QED
    BY <1>5, <2>2, <2>3, <2>7, <2>8
<1>7. READONLY_SFP(k, j) = ReadTable(k, ws)
  <2>1. ReadTable(k, ws) = SumOf(F, Lines)
    BY <1>6, ReadWindowsIs
  <2>. QED
    BY <1>3, <2>1
<1>8. READWRITE_SFP(k, j) = SumOf(H, Lines)
  <2>1. PICK one \in Int, m \in Int : one = 1 /\ m = -1
    OBVIOUS
  <2>2. \A x, y \in Int : x - y = one * x + m * y
    BY <2>1
  <2>3. \A l \in Lines : G[l] \in Int /\ F[l] \in Int /\ H[l] = one * G[l] + m * F[l]
    BY <1>3, <1>4, <1>6, <2>2
  <2>4. SumOf(H, Lines) = one * SumOf(G, Lines) + m * SumOf(F, Lines)
    BY <2>3, Constants, SumLinear
  <2>5. SumOf(G, Lines) \in Int /\ SumOf(F, Lines) \in Int
    BY <2>3, Constants, SumType
  <2>6. SumOf(H, Lines) = SumOf(G, Lines) - SumOf(F, Lines)
    BY <2>2, <2>4, <2>5
  <2>. QED
    BY <1>3, <1>4, <2>6 DEF READWRITE_SFP
<1>9. WriteTable(k, ws) = SumOf(H, Lines)
  BY <1>6, WriteWindowsIs
<1>. QED
  BY <1>7, <1>8, <1>9

\* The second file has exactly the footprint of the windows that only read, if the
\* trace is not as long as a word can count.
THEOREM ReadOnlyExact ==
  ASSUME TraceFits
  PROVE  Spec => []ReadOnlyIsExact
<1>1. Counts => ReadOnlyIsExact
  BY TablesExact
<1>. QED
  BY <1>1, CountsInvariant, PTL

\* The third, which is printed as a difference, has that of the windows in which a
\* line is written.
THEOREM ReadWriteExact ==
  ASSUME TraceFits
  PROVE  Spec => []ReadWriteIsExact
<1>1. Counts => ReadWriteIsExact
  BY TablesExact
<1>. QED
  BY <1>1, CountsInvariant, PTL
=============================================================================
