---------------------------- MODULE TaskSetProofs ----------------------------
(***************************************************************************)
(* TaskSetRecorder, for every number of threads, tasks, lines and pillars, *)
(* every nesting of tasks and every bound on the time: its types; the      *)
(* locks of the sets and of the rows exclude each other; the lists that    *)
(* are trimmed stay sorted by time; and no walk over a pillar loses a      *)
(* window or counts one twice.                                             *)
(***************************************************************************)
EXTENDS TaskSetRecorder, CountingLemmas

-----------------------------------------------------------------------------
(***************************************************************************)
(* Times and rows of windows.                                              *)
(***************************************************************************)
\* The constants have their types, and a word holds every time of a run.
LEMMA Constants ==
  /\ NumThreads \in Nat \ {0} /\ NumTasks \in Nat \ {0} /\ NumLines \in Nat \ {0}
  /\ NumSets \in Nat \ {0} /\ MAX_THREAD \in Nat \ {0} /\ MAX_PILLARS \in Nat
  /\ gLowestPillar \in Nat /\ MaxTime \in Nat \ {0} /\ MaxTime <= 2 ^ WordBits - 2
  /\ 2 ^ WordBits \in Nat \ {0} /\ SFP_LIST_TRIM_FREQUENCY \in Nat
  /\ NIL \notin Tasks /\ 0 \in Tasks /\ 0 \in Lines
<1>1. 2 ^ WordBits \in Nat \ {0}
  BY SublogAssumption, PowerOfTwo
<1>. QED
  BY <1>1, ThreadIdAssumption, TaskSetAssumption DEF NIL, Tasks, Lines

\* Unsigned times are natural numbers, and exact as long as none wraps around.
LEMMA WrapIs ==
  ASSUME NEW v \in Int
  PROVE  /\ Wrap(v) \in Nat
         /\ v \in 0 .. 2 ^ WordBits - 1 => Wrap(v) = v
<1>1. PICK m \in Nat \ {0} : m = 2 ^ WordBits
  BY Constants
<1>2. v % m \in Nat /\ (v \in 0 .. m - 1 => v % m = v)
  OBVIOUS
<1>. QED
  BY <1>1, <1>2 DEF Wrap

\* Pillars have a length, and longer ones come later.
LEMMA PillarsAscend ==
  ASSUME NEW i \in Pillars
  PROVE  /\ gPillarLengths(i) \in Nat \ {0}
         /\ \A j \in Pillars : j <= i => gPillarLengths(j) <= gPillarLengths(i)
<1>1. \A j \in Pillars : 2 * j + gLowestPillar \in Nat
  BY Constants DEF Pillars
<1>2. gPillarLengths(i) \in Nat \ {0}
  BY <1>1, PowerOfTwo DEF gPillarLengths
<1>3. ASSUME NEW j \in Pillars, j <= i PROVE gPillarLengths(j) <= gPillarLengths(i)
  <2>1. 2 * j + gLowestPillar <= 2 * i + gLowestPillar
    BY <1>3, Constants DEF Pillars
  <2>. QED
    BY <1>1, <2>1, PowerGrows DEF gPillarLengths
<1>. QED
  BY <1>2, <1>3

\* There are finitely many tasks and sets of tasks.
LEMMA FiniteTasks ==
  /\ IsFiniteSet(Tasks) /\ Cardinality(Tasks) = NumTasks
  /\ IsFiniteSet(SUBSET Tasks) /\ IsFiniteSet(Threads) /\ IsFiniteSet(Lines)
<1>1. IsFiniteSet(Tasks) /\ Cardinality(Tasks) = NumTasks
  <2>1. 0 \in Int /\ NumTasks - 1 \in Int /\ ~ (0 > NumTasks - 1)
    BY Constants
  <2>2. IsFiniteSet(0 .. NumTasks - 1) /\ Cardinality(0 .. NumTasks - 1) = NumTasks - 1 - 0 + 1
    BY <2>1, FS_Interval
  <2>. QED
    BY <2>2, Constants DEF Tasks
<1>2. IsFiniteSet(SUBSET Tasks)
  BY <1>1, FS_SUBSET
<1>3. IsFiniteSet(Threads) /\ IsFiniteSet(Lines)
  <2>1. 0 \in Int /\ NumThreads - 1 \in Int /\ NumLines - 1 \in Int
    BY Constants
  <2>2. IsFiniteSet(0 .. NumThreads - 1) /\ IsFiniteSet(0 .. NumLines - 1)
    BY <2>1, FS_Interval
  <2>. QED
    BY <2>2 DEF Threads, Lines
<1>. QED
  BY <1>1, <1>2, <1>3

\* The windows counted in the row of a pillar, under whatever set of tasks.
WindowsOf(rows) == SumOf(rows, SUBSET Tasks)

\* Counting windows under some set adds as many to the row.
LEMMA AddWindows ==
  ASSUME NEW rows \in PillarRows, NEW b \in SUBSET Tasks, NEW d \in Nat
  PROVE  /\ [rows EXCEPT ![b] = @ + d] \in PillarRows
         /\ WindowsOf(rows) \in Nat
         /\ WindowsOf([rows EXCEPT ![b] = @ + d]) = WindowsOf(rows) + d
<1>1. PICK r : r = [rows EXCEPT ![b] = @ + d]
  OBVIOUS
<1>2. /\ r \in PillarRows
      /\ \A x \in SUBSET Tasks : /\ rows[x] \in Nat /\ rows[x] \in Int
                                 /\ r[x] = IF x = b THEN rows[x] + d ELSE rows[x]
  <2>1. rows \in [SUBSET Tasks -> Nat] /\ r \in [SUBSET Tasks -> Nat]
    BY <1>1 DEF PillarRows
  <2>2. \A x \in SUBSET Tasks : r[x] = IF x = b THEN rows[x] + d ELSE rows[x]
    BY <1>1, <2>1
  <2>3. \A x \in SUBSET Tasks : rows[x] \in Nat /\ rows[x] \in Int
    <3>. TAKE x \in SUBSET Tasks
    <3>1. rows[x] \in Nat
      BY <2>1
    <3>. QED
      BY <3>1
  <2>4. r \in PillarRows
    BY <2>1 DEF PillarRows
  <2>. QED
    BY <2>2, <2>3, <2>4, Zenon
<1>3. SumOf(rows, SUBSET Tasks) \in Nat
  BY <1>2, FiniteTasks, SumType
<1>4. SumOf(r, SUBSET Tasks) = SumOf(rows, SUBSET Tasks) + d
  <2>1. PICK S : S = SUBSET Tasks
    OBVIOUS
  <2>2. d \in Int /\ IsFiniteSet(S) /\ b \in S
    BY <2>1, FiniteTasks
  <2>3. /\ \A x \in S : rows[x] \in Int
        /\ \A x \in S : r[x] = IF x = b THEN rows[x] + d ELSE rows[x]
    BY <1>2, <2>1
  <2>4. SumOf(r, S) = SumOf(rows, S) + d
    BY <2>2, <2>3, SumChange
  <2>. QED
    BY <2>1, <2>4
<1>. QED
  BY <1>1, <1>2, <1>3, <1>4 DEF WindowsOf

-----------------------------------------------------------------------------
(***************************************************************************)
(* The walk over one pillar.                                               *)
(***************************************************************************)
WalkStates == [list : TLists(Tasks), curr : Tasks \cup {NIL}, rpoint : Nat,
               bitmap : SUBSET Tasks, counts : PillarRows]

\* Trimming a list changes at most the link of the element it ends at.
LEMMA TrimmedIs ==
  ASSUME NEW s \in TLists(Tasks), NEW e \in Tasks, NEW pos, NEW trims
  PROVE  /\ Trimmed(s, e, pos, trims) \in TLists(Tasks)
         /\ Trimmed(s, e, pos, trims).head = s.head
         /\ Trimmed(s, e, pos, trims).time = s.time
         /\ \/ Trimmed(s, e, pos, trims).next = s.next
            \/ Trimmed(s, e, pos, trims).next = [s.next EXCEPT ![e] = NIL]
<1>1. \/ Trimmed(s, e, pos, trims) = s
      \/ Trimmed(s, e, pos, trims) = [s EXCEPT !.next[e] = NIL]
  BY DEF Trimmed, remove_rest
<1>2. PICK r : r = [s EXCEPT !.next[e] = NIL]
  OBVIOUS
<1>3. /\ r \in TLists(Tasks) /\ r.head = s.head /\ r.time = s.time
      /\ r.next = [s.next EXCEPT ![e] = NIL]
  BY <1>2 DEF TLists
<1>. QED
  BY <1>1, <1>2, <1>3

\* Every window of a pillar ends before the access, and the windows in which
\* the walk ends lie before those it begins with.
LEMMA LowType ==
  ASSUME NEW s \in TLists(Tasks), NEW i \in Pillars
  PROVE  /\ Low(s, i) \in Nat
         /\ \A r \in TLists(Tasks) : r.head = s.head /\ r.time = s.time => Low(r, i) = Low(s, i)
         /\ s.head = NIL => Low(s, i) = 0
         /\ s.head # NIL => /\ s.time[s.head] \in Nat
                            /\ Low(s, i) = IF s.time[s.head] > gPillarLengths(i)
                                           THEN s.time[s.head] - gPillarLengths(i) ELSE 0
<1>1. PICK p \in Nat : p = gPillarLengths(i)
  BY PillarsAscend
<1>2. s.head # NIL => s.time[s.head] \in Nat
  BY DEF TLists
<1>3. s.head # NIL => Low(s, i) = IF s.time[s.head] > p THEN s.time[s.head] - p ELSE 0
  BY <1>1 DEF Low
<1>4. s.head = NIL => Low(s, i) = 0
  BY DEF Low
<1>5. \A r \in TLists(Tasks) : r.head = s.head /\ r.time = s.time => Low(r, i) = Low(s, i)
  BY DEF Low
<1>6. Low(s, i) \in Nat
  BY <1>1, <1>2, <1>3, <1>4
<1>. QED
  BY <1>1, <1>2, <1>3, <1>4, <1>5, <1>6

\* What one turn does: it ends, passes the task, or adds the windows between
\* two accesses to the count of the tasks passed so far.
Turned(w, v, s, low, high) ==
  LET c == w.list.time[w.curr]
  IN  /\ v.list = s
      /\ c <= low => v.curr = NIL /\ v.rpoint = w.rpoint /\ v.counts = w.counts
      /\ c > low => v.curr = s.next[w.curr]
      /\ c > low /\ c > high => v.rpoint = w.rpoint /\ v.counts = w.counts
      /\ c > low /\ c <= high =>
           /\ v.rpoint = c
           /\ v.counts = [w.counts EXCEPT ![w.bitmap] = @ + Wrap(w.rpoint - c)]

\* Visit is one such turn.
LEMMA VisitIs ==
  ASSUME NEW w \in WalkStates, NEW pos \in Nat, NEW i \in Pillars, NEW trims, w.curr # NIL,
         NEW s, s = Trimmed(w.list, w.curr, pos, trims)
  PROVE  /\ Visit(w, pos, i, trims) \in WalkStates
         /\ Turned(w, Visit(w, pos, i, trims), s, Low(s, i), High(pos, i))
<1>1. PICK c : c = w.list.time[w.curr]
  OBVIOUS
<1>2. /\ w.list \in TLists(Tasks) /\ w.curr \in Tasks
      /\ w.rpoint \in Nat /\ w.bitmap \in SUBSET Tasks /\ w.counts \in PillarRows
  BY DEF WalkStates
<1>3. s \in TLists(Tasks)
  BY <1>2, TrimmedIs
<1>4. c \in Nat
  BY <1>1, <1>2 DEF TLists
<1>5. PICK low \in Nat, high \in Nat : low = Low(s, i) /\ high = High(pos, i)
  <2>1. pos - gPillarLengths(i) \in Int
    BY PillarsAscend
  <2>. QED
    BY <1>3, <2>1, LowType, WrapIs DEF High
<1>6. PICK d \in Nat : d = Wrap(w.rpoint - c)
  <2>1. w.rpoint - c \in Int
    BY <1>2, <1>4
  <2>. QED
    BY <2>1, WrapIs
<1>7. PICK u : u = Pass(w, s)
  OBVIOUS
<1>8. /\ u \in WalkStates /\ u.list = s /\ u.curr = s.next[w.curr]
      /\ u.rpoint = w.rpoint /\ u.counts = w.counts /\ u.bitmap = w.bitmap \cup {w.curr}
  <2>1. PICK y : y = s.next[w.curr]
    OBVIOUS
  <2>2. y \in Tasks \cup {NIL}
    BY <1>2, <1>3, <2>1 DEF TLists
  <2>3. PICK z \in SUBSET Tasks : z = w.bitmap \cup {w.curr}
    BY <1>2
  <2>4. u = [w EXCEPT !.list = s, !.bitmap = z, !.curr = y]
    BY <1>7, <2>1, <2>3 DEF Pass
  <2>. QED
    BY <1>2, <1>3, <2>1, <2>2, <2>3, <2>4 DEF WalkStates
<1>9. PICK r \in PillarRows : r = [w.counts EXCEPT ![w.bitmap] = @ + d]
  BY <1>2, AddWindows
<1>10. PICK v : v = Visit(w, pos, i, trims)
  OBVIOUS
<1>11. v = IF c <= low THEN [w EXCEPT !.list = s, !.curr = NIL]
           ELSE IF c > high THEN u
           ELSE [u EXCEPT !.rpoint = c, !.counts[w.bitmap] = @ + d]
  BY <1>1, <1>5, <1>6, <1>7, <1>10 DEF Visit
<1>12. CASE c <= low
  <2>1. v = [w EXCEPT !.list = s, !.curr = NIL]
    BY <1>11, <1>12
  <2>2. v \in WalkStates /\ v.list = s /\ v.curr = NIL /\ v.rpoint = w.rpoint /\ v.counts = w.counts
    BY <1>2, <1>3, <2>1 DEF WalkStates
  <2>3. ~ (c > low)
    BY <1>4, <1>5, <1>12
  <2>. QED
    BY <1>1, <1>5, <1>10, <2>2, <2>3 DEF Turned
<1>13. CASE c > low /\ c > high
  <2>1. v = u /\ ~ (c <= low) /\ ~ (c <= high)
    BY <1>4, <1>5, <1>11, <1>13
  <2>. QED
    BY <1>1, <1>5, <1>8, <1>10, <2>1 DEF Turned
<1>14. CASE c > low /\ c <= high
  <2>1. ~ (c <= low) /\ ~ (c > high)
    BY <1>4, <1>5, <1>14
  <2>2. v = [u EXCEPT !.rpoint = c, !.counts[w.bitmap] = @ + d]
    BY <1>11, <2>1
  <2>3. v = [u EXCEPT !.rpoint = c, !.counts = r]
    BY <1>8, <1>9, <2>2
  <2>4. /\ v \in WalkStates /\ v.list = s /\ v.curr = s.next[w.curr]
        /\ v.rpoint = c /\ v.counts = r
    BY <1>4, <1>8, <1>9, <2>3 DEF WalkStates
  <2>. QED
    BY <1>1, <1>5, <1>6, <1>9, <1>10, <2>1, <2>4 DEF Turned
<1>. QED
  BY <1>4, <1>5, <1>12, <1>13, <1>14

\* The states of a walk after each of its turns.
IsWalk(h, s, pos, i, rows, trims) ==
  /\ h \in [0 .. NumTasks -> WalkStates]
  /\ h[0] = WalkFrom(s, pos, i, rows)
  /\ \A n \in 1 .. NumTasks : h[n] = Visit(h[n - 1], pos, i, trims)

\* A walk has such states, and ends with the windows that are left.
LEMMA WalkIs ==
  ASSUME NEW s \in TLists(Tasks), NEW pos \in Nat, NEW i \in Pillars, NEW rows \in PillarRows,
         NEW trims
  PROVE  \E h : /\ IsWalk(h, s, pos, i, rows, trims)
                /\ PillarWalk(s, pos, i, rows, trims)
                     = [h[NumTasks] EXCEPT
                          !.counts[h[NumTasks].bitmap] = @ + Wrap(h[NumTasks].rpoint - Low(s, i))]
<1>. DEFINE T(h) == [n \in 0 .. NumTasks |->
                       IF n = 0 THEN WalkFrom(s, pos, i, rows) ELSE Visit(h[n - 1], pos, i, trims)]
            turn == CHOOSE h : h = T(h)
<1>1. NumTasks \in Nat
  BY Constants
<1>2. WalkFrom(s, pos, i, rows) \in WalkStates
  <2>1. High(pos, i) \in Nat
    <3>1. pos - gPillarLengths(i) \in Int
      BY PillarsAscend
    <3>. QED
      BY <3>1, WrapIs DEF High
  <2>2. s.head \in Tasks \cup {NIL}
    BY DEF TLists
  <2>. QED
    BY <2>1, <2>2 DEF WalkFrom, WalkStates
<1>3. \A w \in WalkStates : Visit(w, pos, i, trims) \in WalkStates
  <2>. TAKE w \in WalkStates
  <2>1. CASE w.curr = NIL
    BY <2>1 DEF Visit
  <2>2. CASE w.curr # NIL
    BY <2>2, VisitIs
  <2>. QED
    BY <2>1, <2>2
<1>4. PICK F : F = [x \in (1 .. NumTasks) \X WalkStates |-> Visit(x[2], pos, i, trims)]
  OBVIOUS
<1>5. \A n \in 1 .. NumTasks : \A w \in WalkStates :
        F[<<n, w>>] = Visit(w, pos, i, trims) /\ F[<<n, w>>] \in WalkStates
  BY <1>3, <1>4
<1>6. PICK h \in [0 .. NumTasks -> WalkStates] :
           h[0] = WalkFrom(s, pos, i, rows) /\ \A n \in 1 .. NumTasks : h[n] = F[<<n, h[n - 1]>>]
  <2>1. IsLoop(NumTasks, WalkStates, WalkFrom(s, pos, i, rows), F)
    BY <1>1, <1>2, <1>5 DEF IsLoop
  <2>2. PICK h : Runs(NumTasks, WalkStates, WalkFrom(s, pos, i, rows), F, h)
    BY <2>1, TurnsExist
  <2>. QED
    BY <2>2 DEF Runs
<1>7. \A n \in 1 .. NumTasks : h[n] = Visit(h[n - 1], pos, i, trims)
  <2>. TAKE n \in 1 .. NumTasks
  <2>1. n - 1 \in 0 .. NumTasks
    BY <1>1
  <2>2. h[n - 1] \in WalkStates
    BY <1>6, <2>1
  <2>. QED
    BY <1>5, <1>6, <2>2
<1>8. h = T(h)
  <2>1. \A n \in 0 .. NumTasks : h[n] = T(h)[n]
    BY <1>1, <1>6, <1>7
  <2>. QED
    BY <1>6, <2>1
<1>9. turn = T(turn)
  <2>1. \E g : g = T(g)
    BY <1>8
  <2>. HIDE DEF T
  <2>. QED
    BY <2>1, Zenon
<1>10. /\ turn[0] = WalkFrom(s, pos, i, rows)
       /\ \A n \in 1 .. NumTasks : turn[n] = Visit(turn[n - 1], pos, i, trims)
  <2>. HIDE DEF turn
  <2>1. \A n \in 0 .. NumTasks : turn[n] = T(turn)[n]
    BY <1>9
  <2>. QED
    BY <1>1, <2>1
<1>11. PICK Good : Good = {n \in 0 .. NumTasks : turn[n] \in WalkStates}
  OBVIOUS
<1>12. \A n \in 0 .. NumTasks : n \in Good
  <2>. HIDE DEF turn
  <2>1. 0 \in Good
    BY <1>1, <1>2, <1>10, <1>11
  <2>2. \A n \in 1 .. NumTasks : n - 1 \in Good => n \in Good
    BY <1>1, <1>3, <1>10, <1>11
  <2>. QED
    BY <1>1, <2>1, <2>2, AllTurns
<1>13. turn \in [0 .. NumTasks -> WalkStates]
  <2>. HIDE DEF turn
  <2>1. turn = [n \in 0 .. NumTasks |-> turn[n]]
    <3>1. PICK g : g = T(turn)
      OBVIOUS
    <3>2. g = [n \in 0 .. NumTasks |-> g[n]]
      BY <3>1
    <3>. QED
      BY <1>9, <3>1, <3>2
  <2>. QED
    BY <1>11, <1>12, <2>1
<1>14. IsWalk(turn, s, pos, i, rows, trims)
  <2>. HIDE DEF turn
  <2>. QED
    BY <1>10, <1>13 DEF IsWalk
<1>15. PillarWalk(s, pos, i, rows, trims)
         = [turn[NumTasks] EXCEPT
              !.counts[turn[NumTasks].bitmap] = @ + Wrap(turn[NumTasks].rpoint - Low(s, i))]
  BY DEF PillarWalk
<1>. QED
  <2>. HIDE DEF turn
  <2>. QED
    BY <1>14, <1>15

\* The elements I of a list, from its head on, are sorted by time.
SortedOver(s, I) ==
  /\ I \subseteq Tasks
  /\ s.head \in I \cup {NIL}
  /\ \A e \in I : /\ s.next[e] \in I \cup {NIL}
                  /\ s.next[e] # NIL => s.time[s.next[e]] < s.time[e]

\* Between two turns: the windows that are left end before the task that is
\* next, and those that are gone have been counted, each of them once.
WalkOK(w, s, I, pos, i, rows) ==
  /\ w \in WalkStates
  /\ w.list.head = s.head /\ w.list.time = s.time
  /\ SortedOver(w.list, I)
  /\ w.curr \in I \cup {NIL}
  /\ Low(s, i) <= w.rpoint /\ w.rpoint <= High(pos, i)
  /\ w.curr # NIL => w.rpoint = High(pos, i) \/ s.time[w.curr] <= w.rpoint
  /\ WindowsOf(w.counts) + w.rpoint = WindowsOf(rows) + High(pos, i)

\* A turn keeps that.
LEMMA TurnCounts ==
  ASSUME NEW w, NEW s \in TLists(Tasks), NEW I, NEW pos \in Nat, NEW i \in Pillars,
         NEW rows \in PillarRows, NEW trims,
         pos < 2 ^ WordBits, WalkOK(w, s, I, pos, i, rows), w.curr # NIL
  PROVE  WalkOK(Visit(w, pos, i, trims), s, I, pos, i, rows)
<1>1. PICK v : v = Visit(w, pos, i, trims)
  OBVIOUS
<1>2. PICK r : r = Trimmed(w.list, w.curr, pos, trims)
  OBVIOUS
<1>3. /\ w \in WalkStates /\ w.list \in TLists(Tasks) /\ w.curr \in I /\ w.curr \in Tasks
      /\ w.list.head = s.head /\ w.list.time = s.time /\ SortedOver(w.list, I)
      /\ w.rpoint \in Nat /\ w.bitmap \in SUBSET Tasks /\ w.counts \in PillarRows
  BY DEF WalkOK, SortedOver, WalkStates
<1>4. /\ r \in TLists(Tasks) /\ r.head = s.head /\ r.time = s.time
      /\ r.next = w.list.next \/ r.next = [w.list.next EXCEPT ![w.curr] = NIL]
  BY <1>2, <1>3, TrimmedIs
<1>5. SortedOver(r, I)
  <2>1. \A e \in I : r.next[e] = w.list.next[e] \/ r.next[e] = NIL
    BY <1>3, <1>4 DEF SortedOver, TLists
  <2>. QED
    BY <1>3, <1>4, <2>1 DEF SortedOver
<1>6. v \in WalkStates /\ Turned(w, v, r, Low(s, i), High(pos, i))
  <2>1. v \in WalkStates /\ Turned(w, v, r, Low(r, i), High(pos, i))
    BY <1>1, <1>2, <1>3, VisitIs
  <2>2. Low(r, i) = Low(s, i)
    BY <1>4, LowType
  <2>. QED
    BY <2>1, <2>2
<1>7. PICK c \in Nat, low \in Nat, high \in Nat :
           c = s.time[w.curr] /\ low = Low(s, i) /\ high = High(pos, i)
  <2>1. s.time[w.curr] \in Nat
    BY <1>3 DEF TLists
  <2>2. pos - gPillarLengths(i) \in Int
    BY PillarsAscend
  <2>. QED
    BY <2>1, <2>2, LowType, WrapIs DEF High
<1>8. high < 2 ^ WordBits
  <2>1. PICK m \in Nat \ {0} : m = 2 ^ WordBits
    BY Constants
  <2>2. PICK x \in Int : x = pos - gPillarLengths(i)
    BY PillarsAscend
  <2>3. x % m < m
    OBVIOUS
  <2>. QED
    BY <1>7, <2>1, <2>2, <2>3 DEF High, Wrap
<1>9. /\ low <= w.rpoint /\ w.rpoint <= high
      /\ w.rpoint = high \/ c <= w.rpoint
      /\ WindowsOf(w.counts) + w.rpoint = WindowsOf(rows) + high
  BY <1>7 DEF WalkOK
<1>10. CASE c <= low
  <2>1. v.list = r /\ v.curr = NIL /\ v.rpoint = w.rpoint /\ v.counts = w.counts
    BY <1>3, <1>6, <1>7, <1>10 DEF Turned
  <2>. QED
    BY <1>1, <1>4, <1>5, <1>6, <1>7, <1>9, <2>1 DEF WalkOK
<1>11. \/ r.next[w.curr] = NIL
       \/ /\ r.next[w.curr] \in I /\ s.time[r.next[w.curr]] < c
          /\ s.time[r.next[w.curr]] \in Nat
  <2>1. CASE r.next[w.curr] # NIL
    <3>1. r.next[w.curr] \in I /\ s.time[r.next[w.curr]] < c /\ I \subseteq Tasks
      BY <1>3, <1>4, <1>5, <1>7, <2>1 DEF SortedOver
    <3>2. s.time[r.next[w.curr]] \in Nat
      BY <3>1 DEF TLists
    <3>. QED
      BY <3>1, <3>2
  <2>. QED
    BY <2>1
<1>12. CASE c > low /\ c > high
  <2>1. v.list = r /\ v.curr = r.next[w.curr] /\ v.rpoint = w.rpoint /\ v.counts = w.counts
    BY <1>3, <1>6, <1>7, <1>12 DEF Turned
  <2>2. w.rpoint = high
    BY <1>3, <1>7, <1>9, <1>12
  <2>. QED
    BY <1>1, <1>4, <1>5, <1>6, <1>7, <1>9, <1>11, <2>1, <2>2 DEF WalkOK
<1>13. CASE c > low /\ c <= high
  <2>1. /\ v.list = r /\ v.curr = r.next[w.curr] /\ v.rpoint = c
        /\ v.counts = [w.counts EXCEPT ![w.bitmap] = @ + Wrap(w.rpoint - c)]
    BY <1>3, <1>6, <1>7, <1>13 DEF Turned
  <2>2. c <= w.rpoint
    BY <1>3, <1>7, <1>9, <1>13
  <2>3. Wrap(w.rpoint - c) = w.rpoint - c /\ w.rpoint - c \in Nat
    <3>1. PICK m \in Nat \ {0} : m = 2 ^ WordBits
      BY Constants
    <3>2. w.rpoint - c \in 0 .. m - 1 /\ w.rpoint - c \in Int
      BY <1>3, <1>7, <1>8, <1>9, <2>2, <3>1
    <3>. QED
      BY <3>1, <3>2, WrapIs
  <2>4. WindowsOf(v.counts) = WindowsOf(w.counts) + (w.rpoint - c) /\ WindowsOf(w.counts) \in Nat
    BY <1>3, <2>1, <2>3, AddWindows
  <2>5. WindowsOf(v.counts) + c = WindowsOf(rows) + high
    <3>1. WindowsOf(rows) \in Nat
      BY AddWindows
    <3>. QED
      BY <1>3, <1>7, <1>9, <2>4, <3>1
  <2>6. low <= c
    BY <1>7, <1>13
  <2>7. r.next[w.curr] # NIL => s.time[r.next[w.curr]] <= c
    BY <1>7, <1>11
  <2>. QED
    BY <1>1, <1>4, <1>5, <1>6, <1>7, <1>11, <1>13, <2>1, <2>5, <2>6, <2>7 DEF WalkOK
<1>. QED
  BY <1>7, <1>10, <1>12, <1>13

\* A walk leaves a list and a row.
LEMMA WalkType ==
  ASSUME NEW s \in TLists(Tasks), NEW pos \in Nat, NEW i \in Pillars, NEW rows \in PillarRows,
         NEW trims
  PROVE  /\ PillarWalk(s, pos, i, rows, trims).list \in TLists(Tasks)
         /\ PillarWalk(s, pos, i, rows, trims).counts \in PillarRows
<1>1. PICK h : /\ IsWalk(h, s, pos, i, rows, trims)
               /\ PillarWalk(s, pos, i, rows, trims)
                    = [h[NumTasks] EXCEPT
                         !.counts[h[NumTasks].bitmap] = @ + Wrap(h[NumTasks].rpoint - Low(s, i))]
  BY WalkIs
<1>2. PICK w \in WalkStates : w = h[NumTasks]
  <2>1. NumTasks \in 0 .. NumTasks
    BY Constants
  <2>. QED
    BY <1>1, <2>1 DEF IsWalk
<1>3. /\ w.list \in TLists(Tasks) /\ w.rpoint \in Nat
      /\ w.bitmap \in SUBSET Tasks /\ w.counts \in PillarRows
  BY DEF WalkStates
<1>4. PICK d \in Nat : d = Wrap(w.rpoint - Low(s, i))
  BY <1>3, LowType, WrapIs
<1>5. PICK r \in PillarRows : r = [w.counts EXCEPT ![w.bitmap] = @ + d]
  BY <1>3, AddWindows
<1>6. PillarWalk(s, pos, i, rows, trims) = [w EXCEPT !.counts = r]
  BY <1>1, <1>2, <1>4, <1>5
<1>. QED
  BY <1>2, <1>3, <1>6 DEF WalkStates

\* A walk over a sorted list counts each window once: those that end before the
\* access, or the end of the trace, at pos, and not before the last access.
LEMMA WalkExact ==
  ASSUME NEW s \in TLists(Tasks), NEW I, NEW pos \in Nat, NEW i \in Pillars,
         NEW rows \in PillarRows, NEW trims,
         SortedOver(s, I), pos < 2 ^ WordBits, gPillarLengths(i) < pos,
         s.head # NIL => s.time[s.head] < pos,
         NEW p, p = PillarWalk(s, pos, i, rows, trims)
  PROVE  /\ p.list.head = s.head /\ p.list.time = s.time /\ SortedOver(p.list, I)
         /\ WindowsOf(p.counts) = WindowsOf(rows) + (pos - gPillarLengths(i) - Low(s, i))
<1>1. PICK h : /\ IsWalk(h, s, pos, i, rows, trims)
               /\ p = [h[NumTasks] EXCEPT
                         !.counts[h[NumTasks].bitmap] = @ + Wrap(h[NumTasks].rpoint - Low(s, i))]
  BY WalkIs
<1>2. PICK len \in Nat \ {0}, low \in Nat :
           len = gPillarLengths(i) /\ low = Low(s, i)
  BY PillarsAscend, LowType
<1>3. PICK m \in Nat \ {0} : m = 2 ^ WordBits
  BY Constants
<1>4. High(pos, i) = pos - len /\ pos - len \in Nat
  <2>1. pos - len \in 0 .. m - 1 /\ pos - len \in Int
    BY <1>2, <1>3
  <2>2. Wrap(pos - len) = pos - len
    BY <1>3, <2>1, WrapIs
  <2>. QED
    BY <1>2, <2>1, <2>2 DEF High
<1>5. low <= pos - len
  <2>1. CASE s.head = NIL
    BY <1>2, <1>4, <2>1, LowType
  <2>2. CASE s.head # NIL
    <3>1. PICK c \in Nat : c = s.time[s.head]
      BY <2>2, LowType
    <3>2. low = IF c > len THEN c - len ELSE 0
      BY <1>2, <2>2, <3>1, LowType
    <3>3. c < pos
      BY <2>2, <3>1
    <3>. QED
      BY <1>2, <1>4, <3>2, <3>3
  <2>. QED
    BY <2>1, <2>2
<1>6. NumTasks \in Nat
  BY Constants
<1>7. h[0] = WalkFrom(s, pos, i, rows) /\ \A n \in 0 .. NumTasks : h[n] \in WalkStates
  BY <1>1 DEF IsWalk
<1>8. WalkOK(h[0], s, I, pos, i, rows)
  <2>1. h[0] \in WalkStates
    BY <1>6, <1>7
  <2>2. /\ h[0].list = s /\ h[0].curr = s.head /\ h[0].rpoint = High(pos, i)
        /\ h[0].counts = rows
    BY <1>7 DEF WalkFrom
  <2>3. s.head \in I \cup {NIL}
    BY DEF SortedOver
  <2>. QED
    BY <1>2, <1>4, <1>5, <2>1, <2>2, <2>3 DEF WalkOK
<1>9. PICK Good : Good = {n \in 0 .. NumTasks : WalkOK(h[n], s, I, pos, i, rows)}
  OBVIOUS
<1>10. \A n \in 0 .. NumTasks : n \in Good
  <2>1. 0 \in Good
    BY <1>6, <1>8, <1>9
  <2>2. ASSUME NEW n \in 1 .. NumTasks, n - 1 \in Good PROVE n \in Good
    <3>1. n \in 0 .. NumTasks /\ h[n] = Visit(h[n - 1], pos, i, trims)
      BY <1>1, <1>6 DEF IsWalk
    <3>2. PICK w : w = h[n - 1] /\ WalkOK(w, s, I, pos, i, rows)
      BY <1>9, <2>2
    <3>3. CASE w.curr = NIL
      <4>1. h[n] = w
        BY <3>1, <3>2, <3>3 DEF Visit
      <4>. QED
        BY <1>9, <3>1, <3>2, <4>1
    <3>4. CASE w.curr # NIL
      <4>1. WalkOK(Visit(w, pos, i, trims), s, I, pos, i, rows)
        BY <3>2, <3>4, TurnCounts
      <4>. QED
        BY <1>9, <3>1, <3>2, <4>1
    <3>. QED
      BY <3>3, <3>4
  <2>. QED
    BY <1>6, <2>1, <2>2, AllTurns
<1>11. PICK w : w = h[NumTasks] /\ WalkOK(w, s, I, pos, i, rows)
  <2>1. NumTasks \in Good
    BY <1>6, <1>10
  <2>. QED
    BY <1>9, <2>1
<1>12. /\ w.list.head = s.head /\ w.list.time = s.time /\ SortedOver(w.list, I)
       /\ w.rpoint \in Nat /\ w.bitmap \in SUBSET Tasks /\ w.counts \in PillarRows
       /\ low <= w.rpoint /\ w.rpoint <= pos - len
       /\ WindowsOf(w.counts) + w.rpoint = WindowsOf(rows) + (pos - len)
       /\ w \in WalkStates
  BY <1>2, <1>4, <1>11 DEF WalkOK, WalkStates
<1>13. PICK d \in Nat : d = w.rpoint - low /\ d = Wrap(w.rpoint - Low(s, i))
  <2>1. w.rpoint - low \in 0 .. m - 1 /\ w.rpoint - low \in Int
    BY <1>2, <1>3, <1>12
  <2>2. Wrap(w.rpoint - low) = w.rpoint - low
    BY <1>3, <2>1, WrapIs
  <2>. QED
    BY <1>2, <2>1, <2>2
<1>14. PICK r : r = [w.counts EXCEPT ![w.bitmap] = @ + d]
  OBVIOUS
<1>15. /\ WindowsOf(r) = WindowsOf(w.counts) + d
       /\ WindowsOf(w.counts) \in Nat /\ WindowsOf(rows) \in Nat
  BY <1>12, <1>14, AddWindows
<1>16. p = [w EXCEPT !.counts = r]
  BY <1>1, <1>11, <1>13, <1>14
<1>17. p.list = w.list /\ p.counts = r
  BY <1>12, <1>16 DEF WalkStates
<1>18. WindowsOf(p.counts) = WindowsOf(rows) + (pos - len - low)
  BY <1>2, <1>12, <1>13, <1>15, <1>17
<1>. QED
  BY <1>2, <1>12, <1>17, <1>18

-----------------------------------------------------------------------------
(***************************************************************************)
(* The walks over all pillars.                                             *)
(***************************************************************************)
PillarTables == [Pillars -> PillarRows]

WalksStates == [list : TLists(Tasks), counts : PillarTables, over : BOOLEAN]

\* The step from pillar to pillar.
NextPillar(b, n, pos, trims) ==
  IF b.over \/ pos <= gPillarLengths(n - 1) THEN [b EXCEPT !.over = TRUE]
  ELSE LET w == PillarWalk(b.list, pos, n - 1, b.counts[n - 1], trims)
       IN  [b EXCEPT !.list = w.list, !.counts[n - 1] = w.counts]

FirstPillar(s, counts) == [list |-> s, counts |-> counts, over |-> FALSE]

AreWalks(h, s, pos, counts, trims) ==
  /\ h \in [0 .. MAX_PILLARS -> WalksStates]
  /\ h[0] = FirstPillar(s, counts)
  /\ \A n \in 1 .. MAX_PILLARS : h[n] = NextPillar(h[n - 1], n, pos, trims)

\* The step keeps the types, and is a walk over the pillar or none.
LEMMA NextPillarIs ==
  ASSUME NEW b \in WalksStates, NEW n \in 1 .. MAX_PILLARS, NEW pos \in Nat, NEW trims,
         NEW c, c = NextPillar(b, n, pos, trims),
         NEW w, w = PillarWalk(b.list, pos, n - 1, b.counts[n - 1], trims)
  PROVE  /\ c \in WalksStates /\ n - 1 \in Pillars
         /\ b.over \/ pos <= gPillarLengths(n - 1) =>
              c.list = b.list /\ c.counts = b.counts /\ c.over
         /\ ~ b.over /\ ~ (pos <= gPillarLengths(n - 1)) =>
              /\ c.list = w.list /\ c.counts = [b.counts EXCEPT ![n - 1] = w.counts]
              /\ ~ c.over
<1>1. n - 1 \in Pillars
  BY Constants DEF Pillars
<1>2. b.list \in TLists(Tasks) /\ b.counts \in PillarTables /\ b.counts[n - 1] \in PillarRows
  BY <1>1 DEF WalksStates, PillarTables
<1>3. w.list \in TLists(Tasks) /\ w.counts \in PillarRows
  BY <1>1, <1>2, WalkType
<1>4. CASE b.over \/ pos <= gPillarLengths(n - 1)
  <2>1. c = [b EXCEPT !.over = TRUE]
    BY <1>4 DEF NextPillar
  <2>. QED
    BY <1>1, <1>4, <2>1 DEF WalksStates
<1>5. CASE ~ (b.over \/ pos <= gPillarLengths(n - 1))
  <2>1. PICK x : x = [b.counts EXCEPT ![n - 1] = w.counts]
    OBVIOUS
  <2>2. x \in PillarTables
    BY <1>2, <1>3, <2>1 DEF PillarTables
  <2>3. c = [b EXCEPT !.list = w.list, !.counts[n - 1] = w.counts]
    BY <1>5 DEF NextPillar
  <2>4. c = [b EXCEPT !.list = w.list, !.counts = x]
    BY <2>1, <2>3
  <2>. QED
    BY <1>1, <1>3, <1>5, <2>1, <2>2, <2>4 DEF WalksStates
<1>. QED
  BY <1>4, <1>5

\* The walks have a state after each pillar.
LEMMA WalksAre ==
  ASSUME NEW s \in TLists(Tasks), NEW pos \in Nat, NEW counts \in PillarTables, NEW trims
  PROVE  \E h : /\ AreWalks(h, s, pos, counts, trims)
                /\ PillarWalks(s, pos, counts, trims) = h[MAX_PILLARS]
<1>. DEFINE T(h) == [n \in 0 .. MAX_PILLARS |-> IF n = 0 THEN FirstPillar(s, counts)
                                                ELSE NextPillar(h[n - 1], n, pos, trims)]
            after == CHOOSE h : h = T(h)
<1>1. MAX_PILLARS \in Nat
  BY Constants
<1>2. FirstPillar(s, counts) \in WalksStates
  BY DEF FirstPillar, WalksStates
<1>3. \A n \in 1 .. MAX_PILLARS, b \in WalksStates : NextPillar(b, n, pos, trims) \in WalksStates
  BY NextPillarIs
<1>4. PICK F : F = [x \in (1 .. MAX_PILLARS) \X WalksStates |-> NextPillar(x[2], x[1], pos, trims)]
  OBVIOUS
<1>5. \A n \in 1 .. MAX_PILLARS : \A b \in WalksStates :
        F[<<n, b>>] = NextPillar(b, n, pos, trims) /\ F[<<n, b>>] \in WalksStates
  BY <1>3, <1>4
<1>6. PICK h \in [0 .. MAX_PILLARS -> WalksStates] :
           h[0] = FirstPillar(s, counts) /\ \A n \in 1 .. MAX_PILLARS : h[n] = F[<<n, h[n - 1]>>]
  <2>1. IsLoop(MAX_PILLARS, WalksStates, FirstPillar(s, counts), F)
    BY <1>1, <1>2, <1>5 DEF IsLoop
  <2>2. PICK h : Runs(MAX_PILLARS, WalksStates, FirstPillar(s, counts), F, h)
    BY <2>1, TurnsExist
  <2>. QED
    BY <2>2 DEF Runs
<1>7. \A n \in 1 .. MAX_PILLARS : h[n] = NextPillar(h[n - 1], n, pos, trims)
  <2>. TAKE n \in 1 .. MAX_PILLARS
  <2>1. n - 1 \in 0 .. MAX_PILLARS
    BY <1>1
  <2>2. h[n - 1] \in WalksStates
    BY <1>6, <2>1
  <2>. QED
    BY <1>5, <1>6, <2>2
<1>8. h = T(h)
  <2>1. \A n \in 0 .. MAX_PILLARS : h[n] = T(h)[n]
    BY <1>1, <1>6, <1>7
  <2>. QED
    BY <1>6, <2>1
<1>9. after = T(after)
  <2>1. \E g : g = T(g)
    BY <1>8
  <2>. HIDE DEF T
  <2>. QED
    BY <2>1, Zenon
<1>10. /\ after[0] = FirstPillar(s, counts)
       /\ \A n \in 1 .. MAX_PILLARS : after[n] = NextPillar(after[n - 1], n, pos, trims)
  <2>. HIDE DEF after
  <2>1. \A n \in 0 .. MAX_PILLARS : after[n] = T(after)[n]
    BY <1>9
  <2>. QED
    BY <1>1, <2>1
<1>11. PICK Good : Good = {n \in 0 .. MAX_PILLARS : after[n] \in WalksStates}
  OBVIOUS
<1>12. \A n \in 0 .. MAX_PILLARS : n \in Good
  <2>. HIDE DEF after
  <2>1. 0 \in Good
    BY <1>1, <1>2, <1>10, <1>11
  <2>2. \A n \in 1 .. MAX_PILLARS : n - 1 \in Good => n \in Good
    BY <1>1, <1>3, <1>10, <1>11
  <2>. QED
    BY <1>1, <2>1, <2>2, AllTurns
<1>13. after \in [0 .. MAX_PILLARS -> WalksStates]
  <2>. HIDE DEF after
  <2>1. after = [n \in 0 .. MAX_PILLARS |-> after[n]]
    <3>1. PICK g : g = T(after)
      OBVIOUS
    <3>2. g = [n \in 0 .. MAX_PILLARS |-> g[n]]
      BY <3>1
    <3>. QED
      BY <1>9, <3>1, <3>2
  <2>. QED
    BY <1>11, <1>12, <2>1
<1>14. AreWalks(after, s, pos, counts, trims)
  <2>. HIDE DEF after
  <2>. QED
    BY <1>10, <1>13 DEF AreWalks
<1>15. PillarWalks(s, pos, counts, trims) = after[MAX_PILLARS]
  BY DEF PillarWalks, FirstPillar, NextPillar
<1>. QED
  <2>. HIDE DEF after
  <2>. QED
    BY <1>14, <1>15

\* The walks leave a list and a table.
LEMMA WalksType ==
  ASSUME NEW s \in TLists(Tasks), NEW pos \in Nat, NEW counts \in PillarTables, NEW trims
  PROVE  PillarWalks(s, pos, counts, trims) \in WalksStates
<1>1. PICK h : /\ AreWalks(h, s, pos, counts, trims)
               /\ PillarWalks(s, pos, counts, trims) = h[MAX_PILLARS]
  BY WalksAre
<1>2. MAX_PILLARS \in 0 .. MAX_PILLARS
  BY Constants
<1>. QED
  BY <1>1, <1>2 DEF AreWalks

\* The windows of a pillar that an access at pos closes in a list.
Closed(s, pos, i) ==
  IF gPillarLengths(i) < pos THEN pos - gPillarLengths(i) - Low(s, i) ELSE 0

\* After n pillars: their windows are counted, and nothing else has changed.
WalksOK(b, s, I, pos, counts, n) ==
  /\ b \in WalksStates
  /\ b.list.head = s.head /\ b.list.time = s.time /\ SortedOver(b.list, I)
  /\ b.over => \E j \in 0 .. n - 1 : pos <= gPillarLengths(j)
  /\ \A i \in Pillars :
       WindowsOf(b.counts[i]) = IF i < n THEN WindowsOf(counts[i]) + Closed(s, pos, i)
                                ELSE WindowsOf(counts[i])

\* The next pillar's walk keeps that.
LEMMA NextPillarCounts ==
  ASSUME NEW s \in TLists(Tasks), NEW I, NEW pos \in Nat, NEW counts \in PillarTables, NEW trims,
         pos < 2 ^ WordBits, s.head # NIL => s.time[s.head] < pos,
         NEW n \in 1 .. MAX_PILLARS, NEW b, WalksOK(b, s, I, pos, counts, n - 1)
  PROVE  WalksOK(NextPillar(b, n, pos, trims), s, I, pos, counts, n)
<1>1. PICK c : c = NextPillar(b, n, pos, trims)
  OBVIOUS
<1>2. PICK w : w = PillarWalk(b.list, pos, n - 1, b.counts[n - 1], trims)
  OBVIOUS
<1>3. /\ b \in WalksStates /\ b.list \in TLists(Tasks) /\ b.counts \in PillarTables
      /\ b.list.head = s.head /\ b.list.time = s.time /\ SortedOver(b.list, I)
  BY DEF WalksOK, WalksStates
<1>4. /\ c \in WalksStates /\ n - 1 \in Pillars
      /\ b.over \/ pos <= gPillarLengths(n - 1) =>
           c.list = b.list /\ c.counts = b.counts /\ c.over
      /\ ~ b.over /\ ~ (pos <= gPillarLengths(n - 1)) =>
           /\ c.list = w.list /\ c.counts = [b.counts EXCEPT ![n - 1] = w.counts]
           /\ ~ c.over
  BY <1>1, <1>2, <1>3, NextPillarIs
<1>5. \A i \in Pillars : /\ gPillarLengths(i) \in Nat /\ i \in Nat
                         /\ \A j \in Pillars : j <= i => gPillarLengths(j) <= gPillarLengths(i)
                         /\ b.counts[i] \in PillarRows /\ counts[i] \in PillarRows
                         /\ WindowsOf(counts[i]) \in Nat
  <2>. TAKE i \in Pillars
  <2>1. b.counts[i] \in PillarRows /\ counts[i] \in PillarRows /\ i \in Nat
    BY <1>3, Constants DEF PillarTables, Pillars
  <2>2. {} \in SUBSET Tasks /\ 0 \in Nat
    OBVIOUS
  <2>3. WindowsOf(counts[i]) \in Nat
    BY <2>1, <2>2, AddWindows
  <2>. QED
    BY <2>1, <2>3, PillarsAscend
<1>6. \A i \in Pillars :
        WindowsOf(b.counts[i]) = IF i < n - 1 THEN WindowsOf(counts[i]) + Closed(s, pos, i)
                                 ELSE WindowsOf(counts[i])
  BY DEF WalksOK
<1>7. CASE b.over \/ pos <= gPillarLengths(n - 1)
  <2>1. PICK j \in 0 .. n - 1 : pos <= gPillarLengths(j)
    <3>1. CASE b.over
      <4>1. PICK j \in 0 .. (n - 1) - 1 : pos <= gPillarLengths(j)
        BY <3>1 DEF WalksOK
      <4>2. j \in 0 .. n - 1
        OBVIOUS
      <4>. QED
        BY <4>1, <4>2
    <3>2. CASE ~ b.over
      <4>1. n - 1 \in 0 .. n - 1
        OBVIOUS
      <4>. QED
        BY <1>7, <3>2, <4>1
    <3>. QED
      BY <3>1, <3>2
  <2>2. j \in Pillars /\ j <= n - 1
    BY <1>4, Constants DEF Pillars
  <2>3. Closed(s, pos, n - 1) = 0
    <3>1. gPillarLengths(j) <= gPillarLengths(n - 1)
      BY <1>4, <1>5, <2>2
    <3>2. gPillarLengths(j) \in Nat /\ gPillarLengths(n - 1) \in Nat
      BY <1>4, <1>5, <2>2
    <3>3. ~ (gPillarLengths(n - 1) < pos)
      BY <2>1, <3>1, <3>2
    <3>. QED
      BY <3>3 DEF Closed
  <2>4. \A i \in Pillars :
          WindowsOf(c.counts[i]) = IF i < n THEN WindowsOf(counts[i]) + Closed(s, pos, i)
                                   ELSE WindowsOf(counts[i])
    <3>. TAKE i \in Pillars
    <3>1. c.counts[i] = b.counts[i] /\ i \in Nat /\ WindowsOf(counts[i]) \in Nat
      BY <1>4, <1>5, <1>7
    <3>2. CASE i = n - 1
      <4>1. i < n /\ ~ (i < n - 1)
        BY <3>2
      <4>2. WindowsOf(b.counts[i]) = WindowsOf(counts[i])
        BY <1>6, <4>1
      <4>. QED
        BY <2>3, <3>1, <3>2, <4>1, <4>2
    <3>3. CASE i # n - 1
      <4>1. (i < n) <=> (i < n - 1)
        BY <3>1, <3>3
      <4>. QED
        BY <1>6, <3>1, <4>1
    <3>. QED
      BY <3>2, <3>3
  <2>. QED
    BY <1>1, <1>3, <1>4, <1>7, <2>1, <2>4 DEF WalksOK
<1>8. CASE ~ b.over /\ ~ (pos <= gPillarLengths(n - 1))
  <2>1. gPillarLengths(n - 1) < pos
    BY <1>4, <1>5, <1>8
  <2>2. b.counts[n - 1] \in PillarRows
    BY <1>4, <1>5
  <2>3. /\ w.list.head = b.list.head /\ w.list.time = b.list.time /\ SortedOver(w.list, I)
        /\ WindowsOf(w.counts) = WindowsOf(b.counts[n - 1])
                                   + (pos - gPillarLengths(n - 1) - Low(b.list, n - 1))
    BY <1>2, <1>3, <1>4, <2>1, <2>2, WalkExact
  <2>4. Low(b.list, n - 1) = Low(s, n - 1)
    BY <1>3, <1>4, LowType
  <2>5. Closed(s, pos, n - 1) = pos - gPillarLengths(n - 1) - Low(b.list, n - 1)
    BY <2>1, <2>4 DEF Closed
  <2>6. \A i \in Pillars :
          WindowsOf(c.counts[i]) = IF i < n THEN WindowsOf(counts[i]) + Closed(s, pos, i)
                                   ELSE WindowsOf(counts[i])
    <3>. TAKE i \in Pillars
    <3>1. i \in Nat /\ c.counts = [b.counts EXCEPT ![n - 1] = w.counts]
      BY <1>4, <1>5, <1>8
    <3>2. CASE i = n - 1
      <4>1. i < n /\ ~ (i < n - 1)
        BY <3>2
      <4>2. WindowsOf(b.counts[i]) = WindowsOf(counts[i])
        BY <1>6, <4>1
      <4>3. c.counts[i] = w.counts
        BY <1>3, <3>1, <3>2 DEF PillarTables
      <4>. QED
        BY <2>3, <2>5, <3>2, <4>1, <4>2, <4>3
    <3>3. CASE i # n - 1
      <4>1. (i < n) <=> (i < n - 1)
        BY <3>1, <3>3
      <4>2. c.counts[i] = b.counts[i]
        BY <1>3, <3>1, <3>3 DEF PillarTables
      <4>. QED
        BY <1>6, <4>1, <4>2
    <3>. QED
      BY <3>2, <3>3
  <2>. QED
    BY <1>1, <1>3, <1>4, <1>8, <2>3, <2>6 DEF WalksOK
<1>. QED
  BY <1>7, <1>8

\* The walks count every window of every pillar once.
LEMMA WalksExact ==
  ASSUME NEW s \in TLists(Tasks), NEW I, NEW pos \in Nat, NEW counts \in PillarTables, NEW trims,
         SortedOver(s, I), pos < 2 ^ WordBits, s.head # NIL => s.time[s.head] < pos,
         NEW p, p = PillarWalks(s, pos, counts, trims)
  PROVE  /\ p.list.head = s.head /\ p.list.time = s.time /\ SortedOver(p.list, I)
         /\ \A i \in Pillars : WindowsOf(p.counts[i]) = WindowsOf(counts[i]) + Closed(s, pos, i)
<1>1. PICK h : AreWalks(h, s, pos, counts, trims) /\ p = h[MAX_PILLARS]
  BY WalksAre
<1>2. MAX_PILLARS \in Nat
  BY Constants
<1>3. PICK Good : Good = {n \in 0 .. MAX_PILLARS : WalksOK(h[n], s, I, pos, counts, n)}
  OBVIOUS
<1>4. 0 \in Good
  <2>1. h[0] = FirstPillar(s, counts) /\ h[0] \in WalksStates
    BY <1>1, <1>2 DEF AreWalks
  <2>2. h[0].list = s /\ h[0].counts = counts /\ ~ h[0].over
    BY <2>1 DEF FirstPillar
  <2>3. \A i \in Pillars : ~ (i < 0)
    BY Constants DEF Pillars
  <2>4. WalksOK(h[0], s, I, pos, counts, 0)
    BY <2>1, <2>2, <2>3 DEF WalksOK
  <2>. QED
    BY <1>2, <1>3, <2>4
<1>5. ASSUME NEW n \in 1 .. MAX_PILLARS, n - 1 \in Good PROVE n \in Good
  <2>1. h[n] = NextPillar(h[n - 1], n, pos, trims) /\ n \in 0 .. MAX_PILLARS
    BY <1>1, <1>2 DEF AreWalks
  <2>2. WalksOK(h[n - 1], s, I, pos, counts, n - 1)
    BY <1>3, <1>5
  <2>3. WalksOK(NextPillar(h[n - 1], n, pos, trims), s, I, pos, counts, n)
    BY <2>2, NextPillarCounts
  <2>. QED
    BY <1>3, <2>1, <2>3
<1>6. WalksOK(p, s, I, pos, counts, MAX_PILLARS)
  <2>1. MAX_PILLARS \in 0 .. MAX_PILLARS
    BY <1>2
  <2>2. MAX_PILLARS \in Good
    BY <1>2, <1>4, <1>5, <2>1, AllTurns
  <2>. QED
    BY <1>1, <1>3, <2>2
<1>7. \A i \in Pillars : i < MAX_PILLARS
  BY <1>2 DEF Pillars
<1>. QED
  BY <1>6, <1>7 DEF WalksOK

-----------------------------------------------------------------------------
(***************************************************************************)
(* The elements of a list.                                                 *)
(***************************************************************************)
NextElement(s, q, n) ==
  LET e == IF n = 1 THEN s.head ELSE s.next[q[n - 1]]
  IN  IF Len(q) < n - 1 \/ e = NIL THEN q ELSE Append(q, e)

AreElements(h, s) ==
  /\ h \in [0 .. NumTasks -> Seq(Tasks)]
  /\ h[0] = <<>>
  /\ \A n \in 1 .. NumTasks : h[n] = NextElement(s, h[n - 1], n)

\* A list is followed link by link.
LEMMA ElementsAre ==
  ASSUME NEW s \in TLists(Tasks)
  PROVE  \E h : AreElements(h, s) /\ Elements(s) = h[NumTasks]
<1>. DEFINE T(h) == [n \in 0 .. NumTasks |-> IF n = 0 THEN <<>> ELSE NextElement(s, h[n - 1], n)]
            upTo == CHOOSE h : h = T(h)
<1>1. NumTasks \in Nat
  BY Constants
<1>2. <<>> \in Seq(Tasks)
  OBVIOUS
<1>3. ASSUME NEW n \in 1 .. NumTasks, NEW q \in Seq(Tasks)
      PROVE  NextElement(s, q, n) \in Seq(Tasks)
  <2>1. PICK e : e = IF n = 1 THEN s.head ELSE s.next[q[n - 1]]
    OBVIOUS
  <2>2. NextElement(s, q, n) = IF Len(q) < n - 1 \/ e = NIL THEN q ELSE Append(q, e)
    BY <2>1 DEF NextElement
  <2>3. CASE Len(q) < n - 1 \/ e = NIL
    BY <2>2, <2>3
  <2>4. CASE ~ (Len(q) < n - 1) /\ e # NIL
    <3>1. e \in Tasks
      <4>1. CASE n = 1
        BY <2>1, <2>4, <4>1 DEF TLists
      <4>2. CASE n # 1
        <5>1. n - 1 \in 1 .. Len(q)
          BY <2>4, <4>2
        <5>2. q[n - 1] \in Tasks
          BY <5>1
        <5>. QED
          BY <2>1, <2>4, <4>2, <5>2 DEF TLists
      <4>. QED
        BY <4>1, <4>2
    <3>. QED
      BY <2>2, <2>4, <3>1
  <2>. QED
    BY <2>3, <2>4
<1>4. PICK F : F = [x \in (1 .. NumTasks) \X Seq(Tasks) |-> NextElement(s, x[2], x[1])]
  OBVIOUS
<1>5. \A n \in 1 .. NumTasks : \A q \in Seq(Tasks) :
        F[<<n, q>>] = NextElement(s, q, n) /\ F[<<n, q>>] \in Seq(Tasks)
  BY <1>3, <1>4
<1>6. PICK h \in [0 .. NumTasks -> Seq(Tasks)] :
           h[0] = <<>> /\ \A n \in 1 .. NumTasks : h[n] = F[<<n, h[n - 1]>>]
  <2>1. IsLoop(NumTasks, Seq(Tasks), <<>>, F)
    BY <1>1, <1>2, <1>5 DEF IsLoop
  <2>2. PICK h : Runs(NumTasks, Seq(Tasks), <<>>, F, h)
    BY <2>1, TurnsExist
  <2>. QED
    BY <2>2 DEF Runs
<1>7. \A n \in 1 .. NumTasks : h[n] = NextElement(s, h[n - 1], n)
  <2>. TAKE n \in 1 .. NumTasks
  <2>1. n - 1 \in 0 .. NumTasks
    BY <1>1
  <2>2. h[n - 1] \in Seq(Tasks)
    BY <1>6, <2>1
  <2>. QED
    BY <1>5, <1>6, <2>2
<1>8. h = T(h)
  <2>1. \A n \in 0 .. NumTasks : h[n] = T(h)[n]
    BY <1>1, <1>6, <1>7
  <2>. QED
    BY <1>6, <2>1
<1>9. upTo = T(upTo)
  <2>1. \E g : g = T(g)
    BY <1>8
  <2>. HIDE DEF T
  <2>. QED
    BY <2>1, Zenon
<1>10. /\ upTo[0] = <<>>
       /\ \A n \in 1 .. NumTasks : upTo[n] = NextElement(s, upTo[n - 1], n)
  <2>. HIDE DEF upTo
  <2>1. \A n \in 0 .. NumTasks : upTo[n] = T(upTo)[n]
    BY <1>9
  <2>. QED
    BY <1>1, <2>1
<1>11. PICK Good : Good = {n \in 0 .. NumTasks : upTo[n] \in Seq(Tasks)}
  OBVIOUS
<1>12. \A n \in 0 .. NumTasks : n \in Good
  <2>. HIDE DEF upTo
  <2>1. 0 \in Good
    <3>1. 0 \in 0 .. NumTasks
      BY <1>1
    <3>2. upTo[0] \in Seq(Tasks)
      BY <1>2, <1>10
    <3>. QED
      BY <1>11, <3>1, <3>2
  <2>2. \A n \in 1 .. NumTasks : n - 1 \in Good => n \in Good
    BY <1>1, <1>3, <1>10, <1>11
  <2>. QED
    BY <1>1, <2>1, <2>2, AllTurns
<1>13. upTo \in [0 .. NumTasks -> Seq(Tasks)]
  <2>. HIDE DEF upTo
  <2>1. upTo = [n \in 0 .. NumTasks |-> upTo[n]]
    <3>1. PICK g : g = T(upTo)
      OBVIOUS
    <3>2. g = [n \in 0 .. NumTasks |-> g[n]]
      BY <3>1
    <3>. QED
      BY <1>9, <3>1, <3>2
  <2>. QED
    BY <1>11, <1>12, <2>1
<1>14. AreElements(upTo, s)
  <2>. HIDE DEF upTo
  <2>. QED
    BY <1>10, <1>13 DEF AreElements
<1>15. Elements(s) = upTo[NumTasks]
  BY DEF Elements, NextElement
<1>. QED
  <2>. HIDE DEF upTo
  <2>. QED
    BY <1>14, <1>15

\* The elements of a sorted list in its order, down to the last or not.
InOrder(q, s, I) ==
  /\ q \in Seq(Tasks)
  /\ \A m \in 1 .. Len(q) : q[m] \in I
  /\ Len(q) > 0 => q[1] = s.head
  /\ \A m \in 1 .. Len(q) - 1 : q[m + 1] = s.next[q[m]]
  /\ \A m, n \in 1 .. Len(q) : m < n => s.time[q[n]] < s.time[q[m]]

Following(q, s) == IF Len(q) = 0 THEN s.head ELSE s.next[q[Len(q)]]

\* The element that follows is older than all before it.
LEMMA OlderFollows ==
  ASSUME NEW s \in TLists(Tasks), NEW I, SortedOver(s, I), NEW q, InOrder(q, s, I),
         Following(q, s) # NIL
  PROVE  /\ Following(q, s) \in I
         /\ \A m \in 1 .. Len(q) : s.time[Following(q, s)] < s.time[q[m]]
<1>1. q \in Seq(Tasks) /\ Len(q) \in Nat /\ \A m \in 1 .. Len(q) : q[m] \in I
  BY DEF InOrder
<1>2. I \subseteq Tasks /\ \A e \in Tasks : s.time[e] \in Nat
  BY DEF SortedOver, TLists
<1>3. CASE Len(q) = 0
  BY <1>1, <1>3 DEF Following, SortedOver
<1>4. CASE Len(q) > 0
  <2>1. PICK z : z = q[Len(q)] /\ z \in I
    BY <1>1, <1>4
  <2>2. PICK f : f = Following(q, s) /\ f = s.next[z]
    BY <1>1, <1>4, <2>1 DEF Following
  <2>3. f \in I /\ s.time[f] < s.time[z]
    BY <2>1, <2>2 DEF SortedOver
  <2>4. ASSUME NEW m \in 1 .. Len(q) PROVE s.time[f] < s.time[q[m]]
    <3>1. m = Len(q) \/ s.time[z] < s.time[q[m]]
      BY <1>1, <1>4, <2>1 DEF InOrder
    <3>2. s.time[f] \in Nat /\ s.time[z] \in Nat /\ s.time[q[m]] \in Nat
      BY <1>1, <1>2, <2>1, <2>3
    <3>. QED
      BY <2>1, <2>3, <3>1, <3>2
  <2>. QED
    BY <2>2, <2>3, <2>4
<1>. QED
  BY <1>1, <1>3, <1>4

\* A sorted list ends, and its elements are those that the loop visits.
LEMMA ElementsExact ==
  ASSUME NEW s \in TLists(Tasks), NEW I, SortedOver(s, I)
  PROVE  InOrder(Elements(s), s, I) /\ Following(Elements(s), s) = NIL
<1>1. PICK h : AreElements(h, s) /\ Elements(s) = h[NumTasks]
  BY ElementsAre
<1>2. NumTasks \in Nat
  BY Constants
<1>. DEFINE OK(q, n) == /\ InOrder(q, s, I) /\ Len(q) <= n
                        /\ Len(q) = n \/ Following(q, s) = NIL
<1>3. PICK Good : Good = {n \in 0 .. NumTasks : OK(h[n], n)}
  OBVIOUS
<1>4. 0 \in Good
  <2>1. h[0] = <<>>
    BY <1>1 DEF AreElements
  <2>2. OK(h[0], 0)
    BY <2>1 DEF InOrder
  <2>. QED
    BY <1>2, <1>3, <2>2
<1>5. ASSUME NEW n \in 1 .. NumTasks, n - 1 \in Good PROVE n \in Good
  <2>1. PICK q : q = h[n - 1] /\ OK(q, n - 1)
    BY <1>3, <1>5
  <2>2. q \in Seq(Tasks) /\ Len(q) \in Nat /\ h[n] = NextElement(s, q, n)
    BY <1>1, <2>1 DEF InOrder, AreElements
  <2>3. CASE Len(q) < n - 1
    <3>1. h[n] = q
      BY <2>2, <2>3 DEF NextElement
    <3>2. OK(q, n)
      BY <2>1, <2>2, <2>3
    <3>. QED
      BY <1>2, <1>3, <3>1, <3>2
  <2>4. CASE Len(q) = n - 1 /\ Following(q, s) = NIL
    <3>1. h[n] = q
      BY <2>2, <2>4 DEF NextElement, Following
    <3>2. OK(q, n)
      BY <2>1, <2>2, <2>4
    <3>. QED
      BY <1>2, <1>3, <3>1, <3>2
  <2>5. CASE Len(q) = n - 1 /\ Following(q, s) # NIL
    <3>1. PICK e : e = Following(q, s)
      OBVIOUS
    <3>2. h[n] = Append(q, e)
      BY <2>2, <2>5, <3>1 DEF NextElement, Following
    <3>3. e \in I /\ e \in Tasks /\ \A m \in 1 .. Len(q) : s.time[e] < s.time[q[m]]
      BY <2>1, <2>5, <3>1, OlderFollows DEF SortedOver
    <3>4. PICK r : r = Append(q, e)
      OBVIOUS
    <3>5. /\ r \in Seq(Tasks) /\ Len(r) = n /\ r[n] = e
          /\ \A m \in 1 .. n - 1 : r[m] = q[m]
      BY <2>2, <2>5, <3>3, <3>4
    <3>6. \A m \in 1 .. n : r[m] \in I
      BY <2>1, <2>5, <3>3, <3>5 DEF InOrder
    <3>7. r[1] = s.head
      <4>1. CASE n = 1
        BY <2>5, <3>1, <3>5, <4>1 DEF Following
      <4>2. CASE n # 1
        BY <2>1, <2>5, <3>5, <4>2 DEF InOrder
      <4>. QED
        BY <4>1, <4>2
    <3>8. ASSUME NEW m \in 1 .. n - 1 PROVE r[m + 1] = s.next[r[m]]
      <4>1. CASE m = n - 1
        BY <2>5, <3>1, <3>5, <4>1 DEF Following
      <4>2. CASE m # n - 1
        <5>1. m \in 1 .. Len(q) - 1 /\ m + 1 \in 1 .. n - 1
          BY <2>5, <4>2
        <5>. QED
          BY <2>1, <3>5, <5>1 DEF InOrder
      <4>. QED
        BY <4>1, <4>2
    <3>9. ASSUME NEW l \in 1 .. n, NEW m \in 1 .. n, l < m PROVE s.time[r[m]] < s.time[r[l]]
      <4>1. l \in 1 .. n - 1 /\ r[l] = q[l]
        BY <3>5, <3>9
      <4>2. CASE m = n
        BY <2>5, <3>3, <3>5, <4>1, <4>2
      <4>3. CASE m # n
        <5>1. m \in 1 .. Len(q) /\ l \in 1 .. Len(q) /\ r[m] = q[m]
          BY <2>5, <3>5, <4>1, <4>3
        <5>. QED
          BY <2>1, <3>9, <4>1, <5>1 DEF InOrder
      <4>. QED
        BY <4>2, <4>3
    <3>10. OK(r, n)
      <4>1. \A m \in 1 .. Len(r) : r[m] \in I
        BY <3>5, <3>6
      <4>2. \A m \in 1 .. Len(r) - 1 : r[m + 1] = s.next[r[m]]
        BY <3>5, <3>8
      <4>3. \A l, m \in 1 .. Len(r) : l < m => s.time[r[m]] < s.time[r[l]]
        BY <3>5, <3>9
      <4>4. InOrder(r, s, I)
        BY <3>5, <3>7, <4>1, <4>2, <4>3, Zenon DEF InOrder
      <4>. QED
        BY <3>5, <4>4
    <3>11. n \in 0 .. NumTasks /\ h[n] = r
      BY <1>2, <3>2, <3>4
    <3>. HIDE DEF OK
    <3>. QED
      BY <1>3, <3>10, <3>11
  <2>. QED
    BY <2>1, <2>2, <2>3, <2>4, <2>5
<1>6. PICK q : q = Elements(s) /\ OK(q, NumTasks)
  <2>. HIDE DEF OK
  <2>1. NumTasks \in 0 .. NumTasks
    BY <1>2
  <2>2. NumTasks \in Good
    BY <1>2, <1>4, <1>5, <2>1, AllTurns
  <2>. QED
    BY <1>1, <1>3, <2>2
<1>7. ASSUME Following(q, s) # NIL PROVE FALSE
  <2>1. PICK e : e = Following(q, s)
    OBVIOUS
  <2>2. Len(q) = NumTasks /\ InOrder(q, s, I) /\ q \in Seq(Tasks)
    BY <1>6, <1>7 DEF InOrder
  <2>3. e \in Tasks /\ \A m \in 1 .. NumTasks : s.time[e] < s.time[q[m]]
    BY <1>7, <2>1, <2>2, OlderFollows DEF SortedOver
  <2>4. PICK f : f = [m \in 1 .. NumTasks + 1 |-> IF m <= NumTasks THEN q[m] ELSE e]
    OBVIOUS
  <2>5. f \in [1 .. NumTasks + 1 -> Tasks]
    BY <2>2, <2>3, <2>4
  <2>6. ASSUME NEW l \in 1 .. NumTasks + 1, NEW m \in 1 .. NumTasks + 1, l < m
        PROVE  f[l] # f[m]
    <3>1. l \in 1 .. NumTasks /\ f[l] = q[l] /\ q[l] \in Tasks
      BY <1>2, <2>2, <2>4, <2>6
    <3>2. s.time[f[m]] < s.time[f[l]]
      <4>1. CASE m <= NumTasks
        <5>1. m \in 1 .. NumTasks /\ f[m] = q[m]
          BY <1>2, <2>4, <4>1
        <5>. QED
          BY <2>2, <2>6, <3>1, <5>1 DEF InOrder
      <4>2. CASE ~ (m <= NumTasks)
        <5>1. f[m] = e
          BY <2>4, <4>2
        <5>. QED
          BY <2>3, <3>1, <5>1
      <4>. QED
        BY <4>1, <4>2
    <3>3. s.time[f[l]] \in Nat
      BY <3>1 DEF TLists
    <3>. QED
      BY <3>2, <3>3
  <2>7. \A l, m \in 1 .. NumTasks + 1 : l # m => f[l] # f[m]
    <3>. TAKE l, m \in 1 .. NumTasks + 1
    <3>1. l # m => l < m \/ m < l
      BY <1>2
    <3>. QED
      BY <2>6, <3>1
  <2>8. /\ IsFiniteSet(1 .. NumTasks + 1)
        /\ Cardinality(Tasks) < Cardinality(1 .. NumTasks + 1)
    <3>1. 1 \in Int /\ NumTasks + 1 \in Int /\ ~ (1 > NumTasks + 1)
      BY <1>2
    <3>2. /\ IsFiniteSet(1 .. NumTasks + 1)
          /\ Cardinality(1 .. NumTasks + 1) = (NumTasks + 1) - 1 + 1
      BY <3>1, FS_Interval
    <3>. QED
      BY <1>2, <3>2, FiniteTasks
  <2>9. \E l, m \in 1 .. NumTasks + 1 : l # m /\ f[l] = f[m]
    <3>1. PICK S : S = 1 .. NumTasks + 1
      OBVIOUS
    <3>2. IsFiniteSet(S) /\ Cardinality(Tasks) < Cardinality(S) /\ f \in [S -> Tasks]
      BY <2>5, <2>8, <3>1
    <3>3. \E l, m \in S : l # m /\ f[l] = f[m]
      BY <3>2, FiniteTasks, FS_PigeonHole
    <3>. QED
      BY <3>1, <3>3
  <2>. QED
    BY <2>7, <2>9
<1>. QED
  BY <1>6, <1>7

\* The elements of any list are tasks, and a task has a place among them.
LEMMA PlaceIs ==
  ASSUME NEW s \in TLists(Tasks), NEW k \in Tasks
  PROVE  /\ Elements(s) \in Seq(Tasks) /\ Len(Elements(s)) \in Nat
         /\ Place(Elements(s), k) \in 1 .. Len(Elements(s)) + 1
         /\ Place(Elements(s), k) <= Len(Elements(s)) => Elements(s)[Place(Elements(s), k)] = k
         /\ Place(Elements(s), k) > Len(Elements(s)) =>
              \A n \in 1 .. Len(Elements(s)) : Elements(s)[n] # k
<1>1. PICK q \in Seq(Tasks) : q = Elements(s)
  <2>1. PICK h : AreElements(h, s) /\ Elements(s) = h[NumTasks]
    BY ElementsAre
  <2>2. NumTasks \in 0 .. NumTasks
    BY Constants
  <2>. QED
    BY <2>1, <2>2 DEF AreElements
<1>2. Len(q) \in Nat /\ DOMAIN q = 1 .. Len(q)
  OBVIOUS
<1>3. CASE \E n \in DOMAIN q : q[n] = k
  <2>1. PICK n : n = Place(q, k)
    OBVIOUS
  <2>2. n \in DOMAIN q /\ q[n] = k
    BY <1>3, <2>1 DEF Place
  <2>3. n \in 1 .. Len(q)
    BY <1>2, <2>2
  <2>4. n \in 1 .. Len(q) + 1 /\ n <= Len(q) /\ ~ (n > Len(q))
    BY <1>2, <2>3
  <2>. QED
    BY <1>1, <1>2, <2>1, <2>2, <2>4
<1>4. CASE ~ \E n \in DOMAIN q : q[n] = k
  <2>1. Place(q, k) = Len(q) + 1
    BY <1>4 DEF Place
  <2>2. Len(q) + 1 \in 1 .. Len(q) + 1 /\ ~ (Len(q) + 1 <= Len(q))
    BY <1>2
  <2>. QED
    BY <1>1, <1>2, <1>4, <2>1, <2>2
<1>. QED
  BY <1>3, <1>4

\* Moving a task to the front gives a list that begins with the task, ...
LEMMA ToFrontIs ==
  ASSUME NEW s \in TLists(Tasks), NEW k \in Tasks, NEW pos \in Nat,
         NEW n, n = ToFront(s, k, pos), NEW q, q = Elements(s), NEW own, own = Place(q, k)
  PROVE  /\ n \in TLists(Tasks) /\ n.head = k /\ n.time = [s.time EXCEPT ![k] = pos]
         /\ s.head = k /\ own \notin 2 .. Len(q) => n.next = s.next
         /\ s.head # k /\ own \notin 2 .. Len(q) => n.next = [s.next EXCEPT ![k] = s.head]
         /\ s.head # k /\ own \in 2 .. Len(q) =>
              n.next = [[s.next EXCEPT ![q[own - 1]] = s.next[k]] EXCEPT ![k] = s.head]
<1>1. q \in Seq(Tasks)
  BY PlaceIs
<1>2. PICK s1 : s1 = IF own \in 2 .. Len(q) THEN erase(s, q[own - 1], k) ELSE s
  OBVIOUS
<1>3. PICK nx \in [Tasks -> Tasks \cup {NIL}] :
           /\ s1 = [s EXCEPT !.next = nx]
           /\ own \in 2 .. Len(q) => nx = [s.next EXCEPT ![q[own - 1]] = s.next[k]]
           /\ own \notin 2 .. Len(q) => nx = s.next
  <2>1. s.next \in [Tasks -> Tasks \cup {NIL}] /\ s = [s EXCEPT !.next = s.next]
    BY DEF TLists
  <2>2. CASE own \in 2 .. Len(q)
    <3>1. PICK nx : nx = [s.next EXCEPT ![q[own - 1]] = s.next[k]]
      OBVIOUS
    <3>2. nx \in [Tasks -> Tasks \cup {NIL}]
      BY <2>1, <3>1
    <3>3. s1 = [s EXCEPT !.next = nx]
      BY <1>2, <2>2, <3>1 DEF erase
    <3>. QED
      BY <2>2, <3>1, <3>2, <3>3
  <2>3. CASE own \notin 2 .. Len(q)
    BY <1>2, <2>1, <2>3
  <2>. QED
    BY <2>2, <2>3
<1>4. PICK tm : tm = [s.time EXCEPT ![k] = pos]
  OBVIOUS
<1>5. tm \in [Tasks -> Nat] /\ s.time \in [Tasks -> Nat]
  BY <1>4 DEF TLists
<1>6. PICK s2 : s2 = set_at(s1, k, pos)
  OBVIOUS
<1>7. s2 = [head |-> s.head, next |-> nx, time |-> tm]
  <2>1. s1 = [head |-> s.head, next |-> nx, time |-> s.time]
    BY <1>3 DEF TLists
  <2>. QED
    BY <1>4, <1>6, <2>1 DEF set_at
<1>8. n = set_front(s2, k)
  BY <1>2, <1>6 DEF ToFront
<1>9. s.head \in Tasks \cup {NIL}
  BY DEF TLists
<1>10. CASE s.head = k
  <2>1. n = s2
    BY <1>7, <1>8, <1>10 DEF set_front
  <2>. QED
    BY <1>3, <1>4, <1>5, <1>7, <1>9, <1>10, <2>1 DEF TLists
<1>11. CASE s.head # k
  <2>1. PICK ny : ny = [nx EXCEPT ![k] = s.head]
    OBVIOUS
  <2>2. ny \in [Tasks -> Tasks \cup {NIL}]
    BY <1>3, <1>9, <2>1
  <2>3. n = [head |-> k, next |-> ny, time |-> tm]
    BY <1>7, <1>8, <1>11, <2>1 DEF set_front
  <2>4. n.next = ny /\ n \in TLists(Tasks) /\ n.head = k /\ n.time = tm
    BY <1>5, <2>2, <2>3 DEF TLists
  <2>. QED
    BY <1>3, <1>4, <1>11, <2>1, <2>4
<1>. QED
  BY <1>10, <1>11

\* ... and at the time of the access, ...
LEMMA ToFrontTime ==
  ASSUME NEW s \in TLists(Tasks), NEW k \in Tasks, NEW pos \in Nat
  PROVE  /\ ToFront(s, k, pos).head = k
         /\ ToFront(s, k, pos).time = [s.time EXCEPT ![k] = pos]
<1>1. PICK n, q, own : n = ToFront(s, k, pos) /\ q = Elements(s) /\ own = Place(q, k)
  OBVIOUS
<1>2. /\ n \in TLists(Tasks) /\ n.head = k /\ n.time = [s.time EXCEPT ![k] = pos]
      /\ s.head = k /\ own \notin 2 .. Len(q) => n.next = s.next
      /\ s.head # k /\ own \notin 2 .. Len(q) => n.next = [s.next EXCEPT ![k] = s.head]
      /\ s.head # k /\ own \in 2 .. Len(q) =>
           n.next = [[s.next EXCEPT ![q[own - 1]] = s.next[k]] EXCEPT ![k] = s.head]
  BY <1>1, ToFrontIs
<1>. QED
  BY <1>1, <1>2

\* ... and that is sorted if the list was, and the access is the latest.
LEMMA ToFrontSorted ==
  ASSUME NEW s \in TLists(Tasks), NEW I, SortedOver(s, I), NEW k \in Tasks, NEW pos \in Nat,
         \A e \in Tasks : s.time[e] < pos
  PROVE  \E J : SortedOver(ToFront(s, k, pos), J)
<1>1. PICK n : n = ToFront(s, k, pos)
  OBVIOUS
<1>2. PICK q : q = Elements(s)
  OBVIOUS
<1>3. PICK own : own = Place(q, k)
  OBVIOUS
<1>4. /\ n \in TLists(Tasks) /\ n.head = k /\ n.time = [s.time EXCEPT ![k] = pos]
      /\ s.head = k /\ own \notin 2 .. Len(q) => n.next = s.next
      /\ s.head # k /\ own \notin 2 .. Len(q) => n.next = [s.next EXCEPT ![k] = s.head]
      /\ s.head # k /\ own \in 2 .. Len(q) =>
           n.next = [[s.next EXCEPT ![q[own - 1]] = s.next[k]] EXCEPT ![k] = s.head]
  BY <1>1, <1>2, <1>3, ToFrontIs
<1>5. /\ q \in Seq(Tasks) /\ Len(q) \in Nat /\ own \in 1 .. Len(q) + 1
      /\ own <= Len(q) => q[own] = k
      /\ own > Len(q) => \A m \in 1 .. Len(q) : q[m] # k
  BY <1>2, <1>3, PlaceIs
<1>6. InOrder(q, s, I) /\ Following(q, s) = NIL
  BY <1>2, ElementsExact
<1>7. PICK len \in Nat : len = Len(q)
  BY <1>5
<1>8. \A m \in 1 .. len : /\ q[m] \in Tasks /\ q[m] # NIL /\ s.time[q[m]] \in Nat
                          /\ s.next[q[m]] = IF m < len THEN q[m + 1] ELSE NIL
  <2>. TAKE m \in 1 .. len
  <2>1. q[m] \in Tasks
    BY <1>5, <1>7
  <2>2. s.next[q[m]] = IF m < len THEN q[m + 1] ELSE NIL
    <3>1. CASE m < len
      <4>1. m \in 1 .. Len(q) - 1
        BY <1>7, <3>1
      <4>. QED
        BY <1>6, <3>1, <4>1 DEF InOrder
    <3>2. CASE m = len
      BY <1>6, <1>7, <3>2 DEF Following
    <3>. QED
      BY <3>1, <3>2
  <2>. QED
    BY <2>1, <2>2, Constants DEF TLists
<1>9. \A l, m \in 1 .. len : l < m => s.time[q[m]] < s.time[q[l]]
  BY <1>6, <1>7 DEF InOrder
<1>10. \A l, m \in 1 .. len : l # m => q[l] # q[m]
  <2>. TAKE l, m \in 1 .. len
  <2>1. s.time[q[l]] \in Nat /\ s.time[q[m]] \in Nat
    BY <1>8
  <2>2. l # m => s.time[q[m]] < s.time[q[l]] \/ s.time[q[l]] < s.time[q[m]]
    BY <1>9
  <2>. QED
    BY <2>1, <2>2
<1>11. s.head = IF len = 0 THEN NIL ELSE q[1]
  BY <1>6, <1>7 DEF InOrder, Following
<1>12. /\ \A m \in 1 .. len : q[m] # k => n.time[q[m]] = s.time[q[m]]
       /\ n.time[k] = pos
       /\ \A e \in Tasks : s.time[e] \in Nat
  BY <1>4, <1>8 DEF TLists
<1>13. PICK J : J = {k} \cup {q[m] : m \in 1 .. len}
  OBVIOUS
<1>14. J \subseteq Tasks /\ k \in J /\ \A m \in 1 .. len : q[m] \in J
  BY <1>8, <1>13
<1>. DEFINE Right(e) == /\ n.next[e] \in J \cup {NIL}
                        /\ n.next[e] # NIL => n.time[n.next[e]] < n.time[e]
<1>15. s.next \in [Tasks -> Tasks \cup {NIL}]
  BY DEF TLists
<1>16. ASSUME NEW m \in 1 .. len, q[m] # k, n.next[q[m]] = s.next[q[m]],
              m + 1 \in 1 .. len => q[m + 1] # k
       PROVE  Right(q[m])
  <2>1. CASE m < len
    <3>1. m + 1 \in 1 .. len /\ s.next[q[m]] = q[m + 1]
      BY <1>8, <2>1
    <3>2. n.time[q[m + 1]] < n.time[q[m]]
      BY <1>9, <1>12, <1>16, <3>1
    <3>. QED
      BY <1>14, <1>16, <3>1, <3>2
  <2>2. CASE ~ (m < len)
    BY <1>8, <1>16, <2>2
  <2>. QED
    BY <2>1, <2>2
<1>17. CASE s.head = k
  <2>1. len > 0 /\ q[1] = k /\ 1 \in 1 .. len
    BY <1>7, <1>11, <1>17, Constants
  <2>2. own = 1
    <3>1. own \in 1 .. len
      BY <1>5, <1>7, <2>1
    <3>. QED
      BY <1>5, <1>7, <1>10, <2>1, <3>1
  <2>3. n.next = s.next
    BY <1>4, <1>17, <2>2
  <2>4. ASSUME NEW m \in 1 .. len, m # 1 PROVE Right(q[m])
    <3>1. q[m] # k /\ (m + 1 \in 1 .. len => q[m + 1] # k)
      BY <1>10, <2>1, <2>4
    <3>. QED
      BY <1>16, <2>3, <3>1
  <2>5. Right(k)
    <3>1. CASE 1 < len
      <4>1. 2 \in 1 .. len /\ s.next[k] = q[2] /\ q[2] # k
        BY <1>8, <1>10, <2>1, <3>1
      <4>2. n.time[q[2]] = s.time[q[2]] /\ s.time[q[2]] < pos
        BY <1>8, <1>12, <4>1
      <4>. QED
        BY <1>12, <1>14, <2>3, <4>1, <4>2
    <3>2. CASE ~ (1 < len)
      BY <1>8, <2>1, <2>3, <3>2
    <3>. QED
      BY <3>1, <3>2
  <2>6. \A e \in J : Right(e)
    <3>. TAKE e \in J
    <3>1. e = k \/ \E m \in 1 .. len : m # 1 /\ e = q[m]
      BY <1>13, <2>1
    <3>. HIDE DEF Right
    <3>. QED
      BY <2>4, <2>5, <3>1
  <2>. QED
    BY <1>1, <1>4, <1>14, <2>6 DEF SortedOver
<1>18. CASE s.head # k
  <2>1. Right(k)
    <3>1. n.next[k] = s.head
      <4>1. CASE own \in 2 .. Len(q)
        <5>1. PICK f : f = [s.next EXCEPT ![q[own - 1]] = s.next[k]]
          OBVIOUS
        <5>2. f \in [Tasks -> Tasks \cup {NIL}]
          BY <1>15, <5>1
        <5>3. n.next = [f EXCEPT ![k] = s.head]
          BY <1>4, <1>18, <4>1, <5>1
        <5>. QED
          BY <5>2, <5>3
      <4>2. CASE own \notin 2 .. Len(q)
        <5>1. n.next = [s.next EXCEPT ![k] = s.head]
          BY <1>4, <1>18, <4>2
        <5>. QED
          BY <1>15, <5>1
      <4>. QED
        BY <4>1, <4>2
    <3>2. CASE len = 0
      BY <1>11, <3>1, <3>2
    <3>3. CASE len # 0
      <4>1. 1 \in 1 .. len /\ s.head = q[1] /\ q[1] # k
        BY <1>11, <1>18, <3>3
      <4>2. n.time[q[1]] = s.time[q[1]] /\ s.time[q[1]] < pos
        BY <1>8, <1>12, <4>1
      <4>. QED
        BY <1>12, <1>14, <3>1, <4>1, <4>2
    <3>. QED
      BY <3>2, <3>3
  <2>2. ASSUME NEW m \in 1 .. len, q[m] # k PROVE Right(q[m])
    <3>1. CASE own \notin 2 .. Len(q)
      <4>1. n.next = [s.next EXCEPT ![k] = s.head]
        BY <1>4, <1>18, <3>1
      <4>2. n.next[q[m]] = s.next[q[m]]
        BY <1>8, <1>15, <2>2, <4>1
      <4>3. \A l \in 1 .. len : q[l] # k
        <5>1. own # 1
          <6>1. own = 1 => q[1] = k /\ len # 0
            BY <1>5, <1>7
          <6>. QED
            BY <1>11, <1>18, <6>1
        <5>. QED
          BY <1>5, <1>7, <3>1, <5>1
      <4>. QED
        BY <1>16, <2>2, <4>2, <4>3
    <3>2. CASE own \in 2 .. Len(q)
      <4>1. own \in 2 .. len /\ own - 1 \in 1 .. len /\ q[own] = k /\ own \in 1 .. len
        BY <1>5, <1>7, <3>2
      <4>2. PICK f : f = [s.next EXCEPT ![q[own - 1]] = s.next[k]]
        OBVIOUS
      <4>3. f \in [Tasks -> Tasks \cup {NIL}]
        BY <1>15, <4>2
      <4>4. n.next = [f EXCEPT ![k] = s.head]
        BY <1>4, <1>18, <3>2, <4>2
      <4>5. n.next[q[m]] = f[q[m]]
        BY <1>8, <2>2, <4>3, <4>4
      <4>6. CASE m # own - 1
        <5>1. q[m] # q[own - 1]
          BY <1>10, <4>1, <4>6
        <5>2. n.next[q[m]] = s.next[q[m]]
          BY <1>8, <1>15, <4>2, <4>5, <5>1
        <5>3. m + 1 \in 1 .. len => q[m + 1] # k
          <6>1. m + 1 # own
            BY <4>1, <4>6
          <6>. QED
            BY <1>10, <4>1, <6>1
        <5>. QED
          BY <1>16, <2>2, <5>2, <5>3
      <4>7. CASE m = own - 1
        <5>1. n.next[q[m]] = s.next[k]
          BY <1>8, <1>15, <4>1, <4>2, <4>5, <4>7
        <5>2. CASE own < len
          <6>1. s.next[k] = q[own + 1] /\ own + 1 \in 1 .. len /\ m < own + 1
            BY <1>8, <4>1, <4>7, <5>2
          <6>2. q[own + 1] # k
            BY <1>10, <4>1, <6>1
          <6>3. n.time[q[own + 1]] = s.time[q[own + 1]] /\ n.time[q[m]] = s.time[q[m]]
            BY <1>12, <2>2, <6>1, <6>2
          <6>4. s.time[q[own + 1]] < s.time[q[m]]
            BY <1>9, <6>1
          <6>. QED
            BY <1>14, <5>1, <6>1, <6>3, <6>4
        <5>3. CASE ~ (own < len)
          BY <1>8, <4>1, <5>1, <5>3
        <5>. QED
          BY <5>2, <5>3
      <4>. QED
        BY <4>6, <4>7
    <3>. QED
      BY <3>1, <3>2
  <2>3. \A e \in J : Right(e)
    <3>. TAKE e \in J
    <3>1. e = k \/ \E m \in 1 .. len : q[m] # k /\ e = q[m]
      BY <1>13
    <3>. HIDE DEF Right
    <3>. QED
      BY <2>1, <2>2, <3>1
  <2>. QED
    BY <1>1, <1>4, <1>14, <2>3 DEF SortedOver
<1>. QED
  BY <1>17, <1>18

-----------------------------------------------------------------------------
(***************************************************************************)
(* The types of the counts of intervals.                                   *)
(***************************************************************************)
LevelTables == [Levels -> LevelRows]

\* Adding to an entry of a row, if there is one, gives a row.
LEMMA RowAdds ==
  ASSUME NEW r \in [Buckets -> Int], NEW b, NEW d \in Int
  PROVE  [r EXCEPT ![b] = @ + d] \in [Buckets -> Int]
<1>1. CASE b \in Buckets
  BY <1>1
<1>2. CASE b \notin Buckets
  BY <1>2
<1>. QED
  BY <1>1, <1>2

\* Counting an interval keeps the types.
LEMMA IntervalType ==
  ASSUME NEW level \in LevelTables, NEW k, NEW d \in Int, NEW x \in Int
  PROVE  Interval(level, k, d, x) \in LevelTables
<1>1. PICK b : b = sublog_value_to_index(d)
  OBVIOUS
<1>2. Interval(level, k, d, x) = [[level EXCEPT ![k].wcount[b] = @ + x]
                                    EXCEPT ![k].wcount_i[b] = @ + x * d]
  BY <1>1 DEF Interval
<1>3. CASE k \in Levels
  <2>1. PICK r \in LevelRows : r = level[k]
    BY <1>3 DEF LevelTables
  <2>2. r.wcount \in [Buckets -> Int] /\ r.wcount_i \in [Buckets -> Int] /\ x * d \in Int
    BY DEF LevelRows
  <2>3. PICK u \in [Buckets -> Int] : u = [r.wcount EXCEPT ![b] = @ + x]
    BY <2>2, RowAdds
  <2>4. PICK v \in [Buckets -> Int] : v = [r.wcount_i EXCEPT ![b] = @ + x * d]
    BY <2>2, RowAdds
  <2>5. PICK r1 : r1 = [r EXCEPT !.wcount = u]
    OBVIOUS
  <2>6. r1 \in LevelRows /\ r1.wcount_i = r.wcount_i
    BY <2>3, <2>5 DEF LevelRows
  <2>7. PICK l1 : l1 = [level EXCEPT ![k] = r1]
    OBVIOUS
  <2>8. l1 \in LevelTables /\ l1[k] = r1
    BY <1>3, <2>6, <2>7 DEF LevelTables
  <2>9. l1 = [level EXCEPT ![k].wcount[b] = @ + x]
    BY <2>1, <2>3, <2>5, <2>7
  <2>10. PICK r2 : r2 = [r1 EXCEPT !.wcount_i = v]
    OBVIOUS
  <2>11. r2 \in LevelRows
    BY <2>4, <2>6, <2>10 DEF LevelRows
  <2>12. [l1 EXCEPT ![k].wcount_i[b] = @ + x * d] = [l1 EXCEPT ![k] = r2]
    BY <2>4, <2>6, <2>8, <2>10
  <2>13. [l1 EXCEPT ![k] = r2] \in LevelTables
    BY <2>8, <2>11 DEF LevelTables
  <2>. QED
    BY <1>2, <2>9, <2>12, <2>13
<1>4. CASE k \notin Levels
  <2>1. [level EXCEPT ![k].wcount[b] = @ + x] = level
    BY <1>4 DEF LevelTables
  <2>2. [level EXCEPT ![k].wcount_i[b] = @ + x * d] = level
    BY <1>4 DEF LevelTables
  <2>. QED
    BY <1>2, <2>1, <2>2
<1>. QED
  BY <1>3, <1>4

\* Distances in a list are natural numbers.
LEMMA GapType ==
  ASSUME NEW s \in TLists(Tasks), NEW e \in Tasks, NEW pos \in Nat
  PROVE  Gap(s, e, pos) \in Nat /\ Wrap(pos - s.time[e]) \in Nat
<1>1. s.time[e] \in Nat
  BY DEF TLists
<1>2. pos - s.time[e] - 1 \in Int /\ pos - s.time[e] \in Int
  BY <1>1
<1>. QED
  BY <1>2, WrapIs DEF Gap

\* A loop over tables of intervals, whose turns are F, ends with a table.
LEMMA TableTurns ==
  ASSUME NEW n \in Nat, NEW F, NEW level \in LevelTables,
         \A i \in 1 .. n, x \in LevelTables : F[<<i, x>>] \in LevelTables
  PROVE  \E h : Runs(n, LevelTables, level, F, h)
<1>1. IsLoop(n, LevelTables, level, F)
  BY DEF IsLoop
<1>. QED
  BY <1>1, TurnsExist

\* The intervals that an access closes keep the types.
LEMMA IntervalsType ==
  ASSUME NEW s \in TLists(Tasks), NEW k \in Tasks, NEW pos \in Nat, NEW level \in LevelTables
  PROVE  Intervals(s, k, pos, level) \in LevelTables
<1>1. PICK q : q = Elements(s)
  OBVIOUS
<1>2. PICK own : own = Place(q, k)
  OBVIOUS
<1>3. q \in Seq(Tasks) /\ Len(q) \in Nat /\ own \in 1 .. Len(q) + 1
  BY <1>1, <1>2, PlaceIs
<1>4. own - 1 \in Nat
  BY <1>3
<1>. DEFINE Turn(n, x) == LET d == Gap(s, q[n], pos)
                          IN  Interval(Interval(x, n - 1, d, 1), n, d, -1)
            T(h) == [n \in 0 .. own - 1 |-> IF n = 0 THEN level ELSE Turn(n, h[n - 1])]
            passed == CHOOSE h : h = T(h)
            last == passed[own - 1]
<1>5. ASSUME NEW n \in 1 .. own - 1, NEW x \in LevelTables PROVE Turn(n, x) \in LevelTables
  <2>1. q[n] \in Tasks
    BY <1>3
  <2>2. PICK d \in Int : d = Gap(s, q[n], pos)
    BY <2>1, GapType
  <2>3. 1 \in Int /\ -1 \in Int
    OBVIOUS
  <2>4. Interval(Interval(x, n - 1, d, 1), n, d, -1) \in LevelTables
    BY <2>3, IntervalType
  <2>. QED
    BY <2>2, <2>4
<1>6. PICK F : F = [x \in (1 .. own - 1) \X LevelTables |-> Turn(x[1], x[2])]
  OBVIOUS
<1>7. \A n \in 1 .. own - 1, x \in LevelTables :
        F[<<n, x>>] = Turn(n, x) /\ F[<<n, x>>] \in LevelTables
  <2>. TAKE n \in 1 .. own - 1, x \in LevelTables
  <2>1. Turn(n, x) \in LevelTables
    BY <1>5
  <2>. HIDE DEF Turn
  <2>. QED
    BY <1>6, <2>1
<1>8. PICK h \in [0 .. own - 1 -> LevelTables] :
           h[0] = level /\ \A n \in 1 .. own - 1 : h[n] = F[<<n, h[n - 1]>>]
  <2>1. \A n \in 1 .. own - 1, x \in LevelTables : F[<<n, x>>] \in LevelTables
    BY <1>7
  <2>2. PICK h : Runs(own - 1, LevelTables, level, F, h)
    BY <1>4, <2>1, TableTurns
  <2>. QED
    BY <2>2 DEF Runs
<1>9. h = T(h)
  <2>. HIDE DEF Turn
  <2>1. ASSUME NEW n \in 1 .. own - 1 PROVE h[n] = Turn(n, h[n - 1])
    <3>1. n - 1 \in 0 .. own - 1
      BY <1>4
    <3>2. h[n - 1] \in LevelTables
      BY <1>8, <3>1
    <3>. QED
      BY <1>7, <1>8, <3>2
  <2>2. \A n \in 0 .. own - 1 : h[n] = T(h)[n]
    BY <1>4, <1>8, <2>1
  <2>. QED
    BY <1>8, <2>2
<1>10. passed = T(passed)
  <2>1. \E g : g = T(g)
    BY <1>9
  <2>. HIDE DEF T
  <2>. QED
    BY <2>1, Zenon
<1>11. passed[0] = level /\ \A n \in 1 .. own - 1 : passed[n] = Turn(n, passed[n - 1])
  <2>. HIDE DEF passed, Turn
  <2>1. \A n \in 0 .. own - 1 : passed[n] = T(passed)[n]
    BY <1>10
  <2>. QED
    BY <1>4, <2>1
<1>12. last \in LevelTables
  <2>. HIDE DEF passed, Turn
  <2>1. PICK Good : Good = {n \in 0 .. own - 1 : passed[n] \in LevelTables}
    OBVIOUS
  <2>2. 0 \in Good
    BY <1>4, <1>11, <2>1
  <2>3. \A n \in 1 .. own - 1 : n - 1 \in Good => n \in Good
    BY <1>4, <1>5, <1>11, <2>1
  <2>4. own - 1 \in Good
    <3>1. own - 1 \in 0 .. own - 1
      BY <1>4
    <3>. QED
      BY <1>4, <2>2, <2>3, <3>1, AllTurns
  <2>. QED
    BY <2>1, <2>4
<1>13. Intervals(s, k, pos, level)
         = IF own <= Len(q)
           THEN Interval(last, own - 1, Gap(s, k, pos), 1)
           ELSE [Interval(last, own - 1, Wrap(pos - 1), 1) EXCEPT ![own - 1].M = @ + 1]
  BY <1>1, <1>2 DEF Intervals
<1>. HIDE DEF passed, last
<1>14. Gap(s, k, pos) \in Int /\ Wrap(pos - 1) \in Int /\ 1 \in Int
  <2>1. Gap(s, k, pos) \in Nat
    BY GapType
  <2>2. pos - 1 \in Int
    OBVIOUS
  <2>3. Wrap(pos - 1) \in Nat
    BY <2>2, WrapIs
  <2>. QED
    BY <2>1, <2>3
<1>15. /\ Interval(last, own - 1, Gap(s, k, pos), 1) \in LevelTables
       /\ Interval(last, own - 1, Wrap(pos - 1), 1) \in LevelTables
  BY <1>12, <1>14, IntervalType
<1>16. ASSUME NEW x \in LevelTables, NEW j PROVE [x EXCEPT ![j].M = @ + 1] \in LevelTables
  <2>1. CASE j \in Levels
    <3>1. x[j] \in LevelRows
      BY <2>1 DEF LevelTables
    <3>2. [x[j] EXCEPT !.M = @ + 1] \in LevelRows
      BY <3>1 DEF LevelRows
    <3>. QED
      BY <2>1, <3>2 DEF LevelTables
  <2>2. CASE j \notin Levels
    BY <2>2 DEF LevelTables
  <2>. QED
    BY <2>1, <2>2
<1>. QED
  BY <1>13, <1>15, <1>16

\* So do those that are open at the end.
LEMMA OpenIntervalsType ==
  ASSUME NEW s \in TLists(Tasks), NEW end \in Nat, NEW level \in LevelTables
  PROVE  OpenIntervals(s, end, level) \in LevelTables
<1>1. PICK q : q = Elements(s)
  OBVIOUS
<1>2. q \in Seq(Tasks) /\ Len(q) \in Nat
  BY <1>1, PlaceIs, Constants
<1>. DEFINE Turn(n, x) == Interval(x, n - 1, Wrap(end - s.time[q[n]]), 1)
            T(h) == [n \in 0 .. Len(q) |-> IF n = 0 THEN level ELSE Turn(n, h[n - 1])]
            at == CHOOSE h : h = T(h)
<1>3. ASSUME NEW n \in 1 .. Len(q), NEW x \in LevelTables PROVE Turn(n, x) \in LevelTables
  <2>1. q[n] \in Tasks
    BY <1>2
  <2>2. Wrap(end - s.time[q[n]]) \in Nat
    BY <2>1, GapType
  <2>3. Wrap(end - s.time[q[n]]) \in Int /\ 1 \in Int
    BY <2>2
  <2>. QED
    BY <2>3, IntervalType
<1>4. PICK F : F = [x \in (1 .. Len(q)) \X LevelTables |-> Turn(x[1], x[2])]
  OBVIOUS
<1>5. \A n \in 1 .. Len(q), x \in LevelTables :
        F[<<n, x>>] = Turn(n, x) /\ F[<<n, x>>] \in LevelTables
  <2>. TAKE n \in 1 .. Len(q), x \in LevelTables
  <2>1. Turn(n, x) \in LevelTables
    BY <1>3
  <2>. HIDE DEF Turn
  <2>. QED
    BY <1>4, <2>1
<1>6. PICK h \in [0 .. Len(q) -> LevelTables] :
           h[0] = level /\ \A n \in 1 .. Len(q) : h[n] = F[<<n, h[n - 1]>>]
  <2>1. \A n \in 1 .. Len(q), x \in LevelTables : F[<<n, x>>] \in LevelTables
    BY <1>5
  <2>2. PICK h : Runs(Len(q), LevelTables, level, F, h)
    BY <1>2, <2>1, TableTurns
  <2>. QED
    BY <2>2 DEF Runs
<1>7. h = T(h)
  <2>. HIDE DEF Turn
  <2>1. ASSUME NEW n \in 1 .. Len(q) PROVE h[n] = Turn(n, h[n - 1])
    <3>1. n - 1 \in 0 .. Len(q)
      BY <1>2
    <3>2. h[n - 1] \in LevelTables
      BY <1>6, <3>1
    <3>. QED
      BY <1>5, <1>6, <3>2
  <2>2. \A n \in 0 .. Len(q) : h[n] = T(h)[n]
    BY <1>2, <1>6, <2>1
  <2>. QED
    BY <1>6, <2>2
<1>8. at = T(at)
  <2>1. \E g : g = T(g)
    BY <1>7
  <2>. HIDE DEF T
  <2>. QED
    BY <2>1, Zenon
<1>9. at[0] = level /\ \A n \in 1 .. Len(q) : at[n] = Turn(n, at[n - 1])
  <2>. HIDE DEF at, Turn
  <2>1. \A n \in 0 .. Len(q) : at[n] = T(at)[n]
    BY <1>8
  <2>. QED
    BY <1>2, <2>1
<1>10. at[Len(q)] \in LevelTables
  <2>. HIDE DEF at, Turn
  <2>1. PICK Good : Good = {n \in 0 .. Len(q) : at[n] \in LevelTables}
    OBVIOUS
  <2>2. 0 \in Good
    BY <1>2, <1>9, <2>1
  <2>3. \A n \in 1 .. Len(q) : n - 1 \in Good => n \in Good
    BY <1>2, <1>3, <1>9, <2>1
  <2>4. Len(q) \in Good
    <3>1. Len(q) \in 0 .. Len(q)
      BY <1>2
    <3>. QED
      BY <1>2, <2>2, <2>3, <3>1, AllTurns
  <2>. QED
    BY <2>1, <2>4
<1>11. OpenIntervals(s, end, level) = at[Len(q)]
  BY <1>1 DEF OpenIntervals
<1>. QED
  BY <1>10, <1>11

\* The counts after the first lines.
Collects(h, n) ==
  /\ h \in [0 .. NumLines -> CountRecords]
  /\ h[0] = total
  /\ \A l \in 1 .. NumLines : h[l] = CollectLine(h[l - 1], l - 1, n)

\* The counts c of the pillars are those after the walks for the end of line l.
EndWalks(l, n, counts, c) ==
  c.pillar = PillarWalks(list[l], Wrap(n + 1), counts.pillar, FALSE).counts

\* A line adds to the counts what CollectLastAccesses finds in its list.
LEMMA CollectLineIs ==
  ASSUME list \in [Lines -> TLists(Tasks)], NEW counts \in CountRecords, NEW l \in Lines,
         NEW n \in Nat, NEW c, c = CollectLine(counts, l, n)
  PROVE  /\ c \in CountRecords
         /\ list[l].head = NIL => c = counts
         /\ list[l].head # NIL => EndWalks(l, n, counts, c)
<1>1. /\ list[l] \in TLists(Tasks) /\ counts.level \in LevelTables
      /\ counts.pillar \in PillarTables
  BY DEF CountRecords, LevelTables, PillarTables
<1>2. CASE list[l].head = NIL
  BY <1>2 DEF CollectLine
<1>3. CASE list[l].head # NIL
  <2>1. PICK x \in LevelTables : x = OpenIntervals(list[l], n, counts.level)
    BY <1>1, OpenIntervalsType
  <2>2. PICK w : w = PillarWalks(list[l], Wrap(n + 1), counts.pillar, FALSE)
    OBVIOUS
  <2>3. w \in WalksStates
    <3>1. n + 1 \in Int
      OBVIOUS
    <3>2. Wrap(n + 1) \in Nat
      BY <3>1, WrapIs
    <3>. QED
      BY <1>1, <2>2, <3>2, WalksType
  <2>4. w.counts \in PillarTables
    BY <2>3 DEF WalksStates
  <2>5. c = [level |-> x, pillar |-> w.counts]
    BY <1>3, <2>1, <2>2 DEF CollectLine
  <2>6. c \in CountRecords /\ c.pillar = w.counts
    BY <2>4, <2>5 DEF CountRecords, LevelTables, PillarTables
  <2>7. EndWalks(l, n, counts, c)
    BY <2>2, <2>6 DEF EndWalks
  <2>. QED
    BY <1>3, <2>6, <2>7
<1>. QED
  BY <1>2, <1>3

\* At the end the lines are added one after the other.
LEMMA CollectIs ==
  ASSUME list \in [Lines -> TLists(Tasks)], total \in CountRecords, NEW n \in Nat
  PROVE  \E h : Collects(h, n) /\ CollectLastAccesses(n) = h[NumLines]
<1>. DEFINE T(h) == [l \in 0 .. NumLines |-> IF l = 0 THEN total
                                             ELSE CollectLine(h[l - 1], l - 1, n)]
            upTo == CHOOSE h : h = T(h)
<1>1. NumLines \in Nat /\ \A l \in 1 .. NumLines : l - 1 \in Lines
  BY Constants DEF Lines
<1>2. \A l \in 1 .. NumLines, c \in CountRecords : CollectLine(c, l - 1, n) \in CountRecords
  BY <1>1, CollectLineIs
<1>3. PICK F : F = [x \in (1 .. NumLines) \X CountRecords |-> CollectLine(x[2], x[1] - 1, n)]
  OBVIOUS
<1>4. \A l \in 1 .. NumLines : \A c \in CountRecords :
        F[<<l, c>>] = CollectLine(c, l - 1, n) /\ F[<<l, c>>] \in CountRecords
  BY <1>2, <1>3
<1>5. PICK h \in [0 .. NumLines -> CountRecords] :
           h[0] = total /\ \A l \in 1 .. NumLines : h[l] = F[<<l, h[l - 1]>>]
  <2>1. IsLoop(NumLines, CountRecords, total, F)
    BY <1>1, <1>4 DEF IsLoop
  <2>2. PICK h : Runs(NumLines, CountRecords, total, F, h)
    BY <2>1, TurnsExist
  <2>. QED
    BY <2>2 DEF Runs
<1>6. \A l \in 1 .. NumLines : h[l] = CollectLine(h[l - 1], l - 1, n)
  <2>. TAKE l \in 1 .. NumLines
  <2>1. l - 1 \in 0 .. NumLines
    BY <1>1
  <2>2. h[l - 1] \in CountRecords
    BY <1>5, <2>1
  <2>. QED
    BY <1>4, <1>5, <2>2
<1>7. h = T(h)
  <2>1. \A l \in 0 .. NumLines : h[l] = T(h)[l]
    BY <1>1, <1>5, <1>6
  <2>. QED
    BY <1>5, <2>1
<1>8. upTo = T(upTo)
  <2>1. \E g : g = T(g)
    BY <1>7
  <2>. HIDE DEF T
  <2>. QED
    BY <2>1, Zenon
<1>9. /\ upTo[0] = total
      /\ \A l \in 1 .. NumLines : upTo[l] = CollectLine(upTo[l - 1], l - 1, n)
  <2>. HIDE DEF upTo
  <2>1. \A l \in 0 .. NumLines : upTo[l] = T(upTo)[l]
    BY <1>8
  <2>. QED
    BY <1>1, <2>1
<1>10. PICK Good : Good = {l \in 0 .. NumLines : upTo[l] \in CountRecords}
  OBVIOUS
<1>11. \A l \in 0 .. NumLines : l \in Good
  <2>. HIDE DEF upTo
  <2>1. 0 \in Good
    BY <1>1, <1>9, <1>10
  <2>2. ASSUME NEW l \in 1 .. NumLines, l - 1 \in Good
        PROVE  l \in Good
    <3>1. upTo[l - 1] \in CountRecords
      BY <1>10, <2>2
    <3>2. upTo[l] \in CountRecords
      BY <1>2, <1>9, <3>1
    <3>3. l \in 0 .. NumLines
      BY <1>1
    <3>. QED
      BY <1>10, <3>2, <3>3
  <2>. QED
    BY <1>1, <2>1, <2>2, AllTurns
<1>12. upTo \in [0 .. NumLines -> CountRecords]
  <2>. HIDE DEF upTo
  <2>1. upTo = [l \in 0 .. NumLines |-> upTo[l]]
    <3>1. PICK g : g = T(upTo)
      OBVIOUS
    <3>2. g = [l \in 0 .. NumLines |-> g[l]]
      BY <3>1
    <3>. QED
      BY <1>8, <3>1, <3>2
  <2>. QED
    BY <1>10, <1>11, <2>1
<1>13. Collects(upTo, n)
  <2>. HIDE DEF upTo
  <2>. QED
    BY <1>9, <1>12 DEF Collects
<1>14. CollectLastAccesses(n) = upTo[NumLines]
  BY DEF CollectLastAccesses
<1>. QED
  <2>. HIDE DEF upTo
  <2>. QED
    BY <1>13, <1>14

-----------------------------------------------------------------------------
(***************************************************************************)
(* Types.                                                                  *)
(***************************************************************************)
\* The type of row r of the counts.
RowType(r) == IF r < MAX_THREAD THEN LevelRows ELSE PillarRows

\* The first counts are 0.
LEMMA NoCountsType ==
  NoLevel \in LevelRows /\ NoPillar \in PillarRows /\ NoCounts \in CountRecords
<1>1. NoLevel \in LevelRows
  BY DEF NoLevel, LevelRows
<1>2. NoPillar \in PillarRows
  BY DEF NoPillar, PillarRows
<1>. QED
  BY <1>1, <1>2 DEF NoCounts, CountRecords

\* The rows are those of the levels and those of the pillars.
LEMMA RowsSplit ==
  ASSUME NEW r \in Rows
  PROVE  /\ r \in Nat /\ r < MAX_THREAD + MAX_PILLARS
         /\ r < MAX_THREAD => r \in Levels
         /\ ~ (r < MAX_THREAD) => r - MAX_THREAD \in Pillars
BY Constants DEF Rows, Levels, Pillars

\* Adding two rows of a type gives one of the type.
LEMMA RowSumType ==
  ASSUME NEW r \in Rows, NEW x \in RowType(r), NEW y \in RowType(r)
  PROVE  RowSum(r, x, y) \in RowType(r)
<1>1. CASE r < MAX_THREAD
  <2>1. \A f, g \in [Buckets -> Int] : Sum2(f, g) \in [Buckets -> Int]
    BY DEF Sum2
  <2>2. x \in LevelRows /\ y \in LevelRows
    BY <1>1 DEF RowType
  <2>. QED
    BY <1>1, <2>1, <2>2 DEF RowSum, RowType, LevelRows
<1>2. CASE ~ (r < MAX_THREAD)
  <2>1. x \in PillarRows /\ y \in PillarRows
    BY <1>2 DEF RowType
  <2>2. Sum2(x, y) \in PillarRows
    BY <2>1 DEF Sum2, PillarRows
  <2>. QED
    BY <1>2, <2>2 DEF RowSum, RowType
<1>. QED
  BY <1>1, <1>2

\* Reading a row, and writing one.
LEMMA RowIs ==
  ASSUME NEW counts \in CountRecords, NEW r \in Rows, NEW v \in RowType(r)
  PROVE  /\ Row(counts, r) \in RowType(r)
         /\ WithRow(counts, r, v) \in CountRecords
         /\ \A q \in Rows \ {r} : Row(WithRow(counts, r, v), q) = Row(counts, q)
         /\ r < MAX_THREAD => WithRow(counts, r, v).pillar = counts.pillar
         /\ ~ (r < MAX_THREAD) =>
              \A i \in Pillars : WithRow(counts, r, v).pillar[i] =
                                   IF i = r - MAX_THREAD THEN v ELSE counts.pillar[i]
<1>1. counts.level \in LevelTables /\ counts.pillar \in PillarTables
  BY DEF CountRecords, LevelTables, PillarTables
<1>2. CASE r < MAX_THREAD
  <2>1. r \in Levels /\ v \in LevelRows
    BY <1>2, RowsSplit DEF RowType
  <2>2. PICK x : x = [counts.level EXCEPT ![r] = v]
    OBVIOUS
  <2>3. x \in LevelTables
    BY <1>1, <2>1, <2>2 DEF LevelTables
  <2>4. PICK c : c = [level |-> x, pillar |-> counts.pillar]
    OBVIOUS
  <2>5. WithRow(counts, r, v) = c
    BY <1>2, <2>2, <2>4 DEF WithRow, CountRecords
  <2>6. c \in CountRecords /\ c.level = x /\ c.pillar = counts.pillar
    BY <1>1, <2>3, <2>4 DEF CountRecords, LevelTables, PillarTables
  <2>7. ASSUME NEW q \in Rows \ {r} PROVE Row(c, q) = Row(counts, q)
    <3>1. CASE q < MAX_THREAD
      <4>1. q \in Levels
        BY <3>1, RowsSplit
      <4>2. x[q] = counts.level[q]
        BY <1>1, <2>2, <2>7, <4>1 DEF LevelTables
      <4>. QED
        BY <2>6, <3>1, <4>2 DEF Row
    <3>2. CASE ~ (q < MAX_THREAD)
      BY <2>6, <3>2 DEF Row
    <3>. QED
      BY <3>1, <3>2
  <2>8. Row(counts, r) \in RowType(r)
    BY <1>1, <1>2, <2>1 DEF Row, RowType, LevelTables
  <2>. QED
    BY <1>2, <2>5, <2>6, <2>7, <2>8
<1>3. CASE ~ (r < MAX_THREAD)
  <2>1. r - MAX_THREAD \in Pillars /\ v \in PillarRows
    BY <1>3, RowsSplit DEF RowType
  <2>2. PICK x : x = [counts.pillar EXCEPT ![r - MAX_THREAD] = v]
    OBVIOUS
  <2>3. x \in PillarTables
    BY <1>1, <2>1, <2>2 DEF PillarTables
  <2>4. PICK c : c = [level |-> counts.level, pillar |-> x]
    OBVIOUS
  <2>5. WithRow(counts, r, v) = c
    BY <1>3, <2>2, <2>4 DEF WithRow, CountRecords
  <2>6. c \in CountRecords /\ c.level = counts.level /\ c.pillar = x
    BY <1>1, <2>3, <2>4 DEF CountRecords, LevelTables, PillarTables
  <2>7. ASSUME NEW q \in Rows \ {r} PROVE Row(c, q) = Row(counts, q)
    <3>1. CASE ~ (q < MAX_THREAD)
      <4>1. q - MAX_THREAD \in Pillars /\ q - MAX_THREAD # r - MAX_THREAD
        BY <2>7, <3>1, RowsSplit, Constants
      <4>2. x[q - MAX_THREAD] = counts.pillar[q - MAX_THREAD]
        BY <1>1, <2>2, <4>1 DEF PillarTables
      <4>. QED
        BY <2>6, <3>1, <4>2 DEF Row
    <3>2. CASE q < MAX_THREAD
      BY <2>6, <3>2 DEF Row
    <3>. QED
      BY <3>1, <3>2
  <2>8. Row(counts, r) \in RowType(r)
    BY <1>1, <1>3, <2>1 DEF Row, RowType, PillarTables
  <2>9. \A i \in Pillars : x[i] = IF i = r - MAX_THREAD THEN v ELSE counts.pillar[i]
    BY <1>1, <2>2 DEF PillarTables
  <2>. QED
    BY <1>3, <2>5, <2>6, <2>7, <2>8, <2>9
<1>. QED
  BY <1>2, <1>3

\* The program's stack of a thread begins with task 0.
StackOK == \A t \in Threads : Len(tasks[t]) >= 1 /\ tasks[t][1] = 0

\* A thread that adds its counts is at one of their rows.
AddsRow == \A t \in Threads : pc[t] = "add" => row[t] \in Rows

TypeInv == TypeOK /\ StackOK /\ AddsRow

\* The types hold at first, ...
LEMMA InitTypeInv == Init => TypeInv
<1>. SUFFICES ASSUME Init PROVE TypeInv
  OBVIOUS
<1>1. ThreadTypeOK
  BY ThreadAssumption DEF Init, ThreadInit, ThreadTypeOK, TlsStates
<1>2. TList(Tasks) \in TLists(Tasks)
  BY DEF TList, TLists
<1>3. lstat \in [Threads -> CountRecords] /\ total \in CountRecords
  BY NoCountsType DEF Init
<1>4. /\ list \in [Lines -> TLists(Tasks)] /\ lock \in [Sets -> {0, 1}]
      /\ rowLock \in [Rows -> {0, 1}] /\ pc \in [Threads -> PcLabels]
      /\ tempN \in [Threads -> Nat]
  BY <1>2 DEF Init, PcLabels
<1>5. /\ tasks \in [Threads -> Seq(Tasks)] /\ current_task \in [Threads -> Tasks]
      /\ line \in [Threads -> Lines] /\ row \in [Threads -> 0 .. MAX_THREAD + MAX_PILLARS]
  BY Constants DEF Init
<1>6. DOMAIN sum = Threads /\ \A t \in Threads : pc[t] = "idle" /\ sum[t] \in LevelRows
  BY NoCountsType DEF Init
<1>7. TypeOK
  BY <1>1, <1>3, <1>4, <1>5, <1>6 DEF Init, TypeOK
<1>8. StackOK /\ AddsRow
  BY <1>6 DEF Init, StackOK, AddsRow
<1>. QED
  BY <1>7, <1>8 DEF TypeInv

\* ... and every step keeps them: the thread callbacks and the controller, ...
LEMMA ThreadsType ==
  ASSUME TypeInv, NEW t \in Threads,
         StartThread(t) \/ ControlStart(t) \/ ControlStop(t)
  PROVE  TypeInv'
<1>1. /\ pc[t] = "idle" /\ pc' = pc
      /\ UNCHANGED <<accessVars, mergeVars, finiVars>>
  BY DEF StartThread, ControlStart, ControlStop, Goto, TypeInv, TypeOK
<1>2. ThreadTypeOK'
  <2>1. CASE ThreadStart(t)
    BY <2>1, ThreadAssumption
    DEF TypeInv, TypeOK, ThreadTypeOK, ThreadStart, MayStart, TlsStates
  <2>2. CASE activate(t)
    BY <2>2 DEF TypeInv, TypeOK, ThreadTypeOK, activate, TlsStates
  <2>3. CASE deactivate(t)
    BY <2>3 DEF TypeInv, TypeOK, ThreadTypeOK, deactivate, TlsStates
  <2>. QED
    BY <2>1, <2>2, <2>3 DEF StartThread, ControlStart, ControlStop
<1>3. /\ rdtsc' \in Nat /\ gStartTime' \in 0 .. rdtsc' /\ gEndTime' \in 0 .. rdtsc'
      /\ ev' \in {"none", "start", "stop"}
  BY DEF TypeInv, TypeOK, StartThread, ControlStart, ControlStop, SetStartTime, ReadClock
<1>4. /\ tasks' \in [Threads -> Seq(Tasks)] /\ current_task' \in [Threads -> Tasks]
      /\ lstat' \in [Threads -> CountRecords] /\ StackOK'
  <2>1. CASE StartThread(t)
    <3>1. <<0>> \in Seq(Tasks) /\ Len(<<0>>) >= 1 /\ <<0>>[1] = 0
      BY Constants
    <3>2. tasks' \in [Threads -> Seq(Tasks)] /\ StackOK'
      BY <2>1, <3>1 DEF StartThread, TypeInv, TypeOK, StackOK
    <3>. QED
      BY <2>1, <3>2, Constants, NoCountsType DEF StartThread, TypeInv, TypeOK
  <2>2. CASE ControlStart(t) \/ ControlStop(t)
    BY <2>2 DEF ControlStart, ControlStop, TypeInv, TypeOK, StackOK, taskVars
  <2>. QED
    BY <2>1, <2>2
<1>5. TypeOK'
  BY <1>1, <1>2, <1>3, <1>4 DEF TypeInv, TypeOK, accessVars, mergeVars, finiVars
<1>6. AddsRow'
  BY <1>1 DEF TypeInv, AddsRow, mergeVars
<1>. QED
  BY <1>4, <1>5, <1>6 DEF TypeInv

\* ... the tasks, ...
LEMMA TasksType ==
  ASSUME TypeInv, NEW t \in Threads, BeforeTaskStart(t) \/ BeforeTaskEnd(t)
  PROVE  TypeInv'
<1>1. pc' = pc /\ UNCHANGED <<threadVars, clockVars, accessVars, lstat, mergeVars, finiVars>>
  BY DEF BeforeTaskStart, BeforeTaskEnd, Goto, TypeInv, TypeOK
<1>2. PICK s \in Seq(Tasks) : s = tasks[t]
  BY DEF TypeInv, TypeOK
<1>3. Len(s) \in Nat /\ Len(s) >= 1 /\ s[1] = 0
  BY <1>2 DEF TypeInv, StackOK
<1>4. \E n \in Seq(Tasks), k \in Tasks :
        /\ Len(n) >= 1 /\ n[1] = 0
        /\ tasks' = [tasks EXCEPT ![t] = n]
        /\ current_task' = [current_task EXCEPT ![t] = k]
  <2>1. CASE BeforeTaskStart(t)
    <3>1. PICK k \in Tasks : /\ tasks' = [tasks EXCEPT ![t] = Append(s, k)]
                             /\ current_task' = [current_task EXCEPT ![t] = k]
      BY <1>2, <2>1, TaskSetAssumption DEF BeforeTaskStart
    <3>2. Append(s, k) \in Seq(Tasks) /\ Len(Append(s, k)) >= 1 /\ Append(s, k)[1] = 0
      BY <1>3
    <3>. QED
      BY <3>1, <3>2
  <2>2. CASE BeforeTaskEnd(t)
    <3>1. /\ tasks' = [tasks EXCEPT ![t] = SubSeq(s, 1, Len(s) - 1)]
          /\ current_task' = [current_task EXCEPT ![t] = s[Len(s) - 1]]
      BY <1>2, <2>2 DEF BeforeTaskEnd
    <3>2. Len(s) > 1
      BY <1>2, <2>2 DEF BeforeTaskEnd
    <3>3. PICK m \in Nat : m = Len(s) - 1 /\ m >= 1
      <4>1. PICK l \in Nat : l = Len(s)
        BY <1>3
      <4>2. l >= 1 /\ l # 1
        BY <1>3, <3>2, <4>1
      <4>3. l - 1 \in Nat /\ l - 1 >= 1
        BY <4>2
      <4>. QED
        BY <4>1, <4>3
    <3>4. PICK n : n = SubSeq(s, 1, m)
      OBVIOUS
    <3>5. \A i \in 1 .. m : s[i] \in Tasks
      BY <1>3, <3>3
    <3>6. n \in Seq(Tasks) /\ Len(n) = m /\ n[1] = s[1]
      <4>1. n = [i \in 1 .. m |-> s[i]]
        BY <3>3, <3>4
      <4>2. n \in [1 .. m -> Tasks]
        BY <3>5, <4>1
      <4>. QED
        BY <3>3, <4>1, <4>2
    <3>7. s[m] \in Tasks
      BY <3>3, <3>5
    <3>. QED
      BY <1>3, <3>1, <3>3, <3>4, <3>6, <3>7
  <2>. QED
    BY <2>1, <2>2
<1>5. /\ tasks' \in [Threads -> Seq(Tasks)] /\ current_task' \in [Threads -> Tasks]
      /\ StackOK'
  BY <1>4 DEF TypeInv, TypeOK, StackOK
<1>6. TypeOK'
  BY <1>1, <1>5 DEF TypeInv, TypeOK, ThreadTypeOK, threadVars, clockVars, accessVars,
     mergeVars, finiVars
<1>7. AddsRow'
  BY <1>1 DEF TypeInv, AddsRow, mergeVars
<1>. QED
  BY <1>5, <1>6, <1>7 DEF TypeInv

\* ... the access, ...
LEMMA RecordingType ==
  ASSUME TypeInv, NEW t \in Threads, RecordMem(t) \/ Recording(t)
  PROVE  TypeInv'
<1>1. /\ UNCHANGED <<threadVars, gStartTime, gEndTime, ev, taskVars, mergeVars, finiVars>>
      /\ \E to \in {"acquire", "clock", "profile", "release", "idle"} :
           pc' = [pc EXCEPT ![t] = to]
  BY DEF RecordMem, Recording, LockAcquire, ReserveTime, SfpImpl, LockRelease, Goto,
     runVars, clockVars
<1>2. rdtsc' \in Nat /\ rdtsc <= rdtsc'
  <2>1. rdtsc' = rdtsc \/ rdtsc' = rdtsc + 1
    BY DEF RecordMem, Recording, LockAcquire, ReserveTime, SfpImpl, LockRelease,
       runVars, clockVars, ReadClock
  <2>2. rdtsc \in Nat
    BY DEF TypeInv, TypeOK
  <2>. QED
    BY <2>1, <2>2
<1>3. line' \in [Threads -> Lines]
  BY Constants DEF RecordMem, Recording, LockAcquire, ReserveTime, SfpImpl, LockRelease,
     TypeInv, TypeOK
<1>4. lock' \in [Sets -> {0, 1}]
  BY DEF RecordMem, Recording, LockAcquire, ReserveTime, SfpImpl, LockRelease,
     TypeInv, TypeOK
<1>5. /\ tempN' \in [Threads -> Nat]
      /\ trace' \subseteq [time : Nat, task : Tasks, line : Lines]
  <2>1. CASE ReserveTime(t)
    <3>1. PICK n \in Nat : n = rdtsc + 1 - gStartTime
      BY DEF TypeInv, TypeOK
    <3>2. PICK a : a = [time |-> n, task |-> current_task[t], line |-> line[t]]
      OBVIOUS
    <3>3. a \in [time : Nat, task : Tasks, line : Lines]
      BY <3>2 DEF TypeInv, TypeOK
    <3>4. tempN' = [tempN EXCEPT ![t] = n] /\ trace' = trace \cup {a}
      BY <2>1, <3>1, <3>2 DEF ReserveTime
    <3>. QED
      BY <3>3, <3>4 DEF TypeInv, TypeOK
  <2>2. CASE ~ ReserveTime(t)
    <3>1. trace' = trace /\ (tempN' = tempN \/ tempN' = [tempN EXCEPT ![t] = 0])
      BY <2>2 DEF RecordMem, Recording, LockAcquire, SfpImpl, LockRelease
    <3>2. tempN \in [Threads -> Nat]
      BY DEF TypeInv, TypeOK
    <3>3. trace \subseteq [time : Nat, task : Tasks, line : Lines]
      BY DEF TypeInv, TypeOK
    <3>. QED
      BY <3>1, <3>2, <3>3
  <2>. QED
    BY <2>1, <2>2
<1>6. list' \in [Lines -> TLists(Tasks)] /\ lstat' \in [Threads -> CountRecords]
  <2>1. CASE SfpImpl(t)
    <3>1. PICK s \in TLists(Tasks) : s = list[line[t]]
      BY DEF TypeInv, TypeOK
    <3>2. PICK c \in CountRecords : c = lstat[t]
      BY DEF TypeInv, TypeOK
    <3>3. PICK pos \in Nat : pos = tempN[t]
      BY DEF TypeInv, TypeOK
    <3>4. PICK k \in Tasks : k = current_task[t]
      BY DEF TypeInv, TypeOK
    <3>5. c.level \in LevelTables /\ c.pillar \in PillarTables
      BY DEF CountRecords, LevelTables, PillarTables
    <3>6. PICK p : p = PillarWalks(s, pos, c.pillar, TRUE)
      OBVIOUS
    <3>7. p \in WalksStates
      BY <3>5, <3>6, WalksType
    <3>8. p.list \in TLists(Tasks) /\ p.counts \in PillarTables
      BY <3>7 DEF WalksStates
    <3>9. PICK x \in LevelTables : x = Intervals(p.list, k, pos, c.level)
      BY <3>5, <3>8, IntervalsType
    <3>10. PICK q \in TLists(Tasks) : q = ToFront(p.list, k, pos)
      <4>1. PICK l \in TLists(Tasks) : l = p.list
        BY <3>8
      <4>2. PICK q, e, o : q = ToFront(l, k, pos) /\ e = Elements(l) /\ o = Place(e, k)
        OBVIOUS
      <4>3. q \in TLists(Tasks)
        BY <4>2, ToFrontIs
      <4>. QED
        BY <4>1, <4>2, <4>3
    <3>11. PICK n : n = [level |-> x, pillar |-> p.counts]
      OBVIOUS
    <3>12. n \in CountRecords
      BY <3>8, <3>11 DEF CountRecords, LevelTables, PillarTables
    <3>13. lstat' = [lstat EXCEPT ![t] = n] /\ list' = [list EXCEPT ![line[t]] = q]
      BY <2>1, <3>1, <3>2, <3>3, <3>4, <3>6, <3>9, <3>10, <3>11 DEF SfpImpl, TypeInv, TypeOK
    <3>. QED
      BY <3>12, <3>13 DEF TypeInv, TypeOK
  <2>2. CASE ~ SfpImpl(t)
    BY <2>2 DEF RecordMem, Recording, LockAcquire, ReserveTime, LockRelease, TypeInv, TypeOK
  <2>. QED
    BY <2>1, <2>2
<1>7. pc' \in [Threads -> PcLabels] /\ \A u \in Threads : pc'[u] = "add" => pc[u] = "add"
  BY <1>1 DEF PcLabels, TypeInv, TypeOK
<1>8. /\ UNCHANGED <<live, tls, gThreadNum, gStartTime, gEndTime, ev, tasks, current_task>>
      /\ UNCHANGED <<total, rowLock, row, sum, N, stage>>
  BY <1>1 DEF threadVars, taskVars, mergeVars, finiVars
<1>9. \A u \in Threads : sum'[u] \in (IF pc'[u] = "add" /\ row'[u] >= MAX_THREAD
                                      THEN PillarRows ELSE LevelRows)
  <2>. TAKE u \in Threads
  <2>1. pc'[u] = "add" <=> pc[u] = "add"
    BY <1>1, <1>7 DEF RecordMem, Recording, LockAcquire, ReserveTime, SfpImpl, LockRelease,
       Goto, TypeInv, TypeOK
  <2>. QED
    BY <1>8, <2>1 DEF TypeInv, TypeOK
<1>10. TypeOK'
  BY <1>2, <1>3, <1>4, <1>5, <1>6, <1>7, <1>8, <1>9
  DEF TypeInv, TypeOK, ThreadTypeOK
<1>11. StackOK' /\ AddsRow'
  BY <1>7, <1>8 DEF TypeInv, StackOK, AddsRow
<1>. QED
  BY <1>10, <1>11 DEF TypeInv

\* ... the exit of a thread, ...
LEMMA MergingType ==
  ASSUME TypeInv, NEW t \in Threads, BeginMerge(t) \/ Merging(t)
  PROVE  TypeInv'
<1>1. /\ UNCHANGED <<tls, gThreadNum, rdtsc, gStartTime, gEndTime, ev, tasks, current_task>>
      /\ UNCHANGED <<lock, list, line, tempN, trace, lstat, N, stage>>
  BY DEF BeginMerge, Merging, ReadRow, AddRow, EndMerge, Goto, ThreadFini, runVars,
     threadVars, clockVars, taskVars, accessVars, finiVars
<1>2. live' \subseteq live
  BY DEF BeginMerge, Merging, ReadRow, AddRow, EndMerge, ThreadFini, runVars, threadVars
<1>3. StackOK'
  BY <1>1 DEF TypeInv, StackOK
<1>4. /\ total \in CountRecords /\ row[t] \in 0 .. MAX_THREAD + MAX_PILLARS
      /\ rowLock \in [Rows -> {0, 1}] /\ pc \in [Threads -> PcLabels]
      /\ row \in [Threads -> 0 .. MAX_THREAD + MAX_PILLARS]
  BY DEF TypeInv, TypeOK
<1>5. CASE BeginMerge(t) \/ EndMerge(t)
  <2>1. /\ UNCHANGED <<total, rowLock, sum>>
        /\ pc' = [pc EXCEPT ![t] = "merge"] \/ pc' = [pc EXCEPT ![t] = "idle"]
        /\ row' = row \/ row' = [row EXCEPT ![t] = 0]
        /\ pc[t] # "add"
    BY <1>5 DEF BeginMerge, EndMerge, Goto, mergeVars
  <2>2. /\ pc' \in [Threads -> PcLabels] /\ DOMAIN sum' = Threads
        /\ row' \in [Threads -> 0 .. MAX_THREAD + MAX_PILLARS]
    <3>1. pc' \in [Threads -> PcLabels]
      BY <1>4, <2>1 DEF PcLabels
    <3>2. DOMAIN sum' = Threads
      BY <2>1 DEF TypeInv, TypeOK
    <3>3. 0 \in 0 .. MAX_THREAD + MAX_PILLARS
      BY Constants
    <3>. QED
      BY <1>4, <2>1, <3>1, <3>2, <3>3
  <2>3. \A u \in Threads : /\ pc'[u] = "add" => pc[u] = "add" /\ row'[u] = row[u]
                           /\ pc[u] = "add" => pc'[u] = "add"
    BY <1>4, <2>1
  <2>4. \A u \in Threads : sum'[u] \in (IF pc'[u] = "add" /\ row'[u] >= MAX_THREAD
                                        THEN PillarRows ELSE LevelRows)
    BY <2>1, <2>3 DEF TypeInv, TypeOK
  <2>5. TypeOK'
    BY <1>1, <1>2, <2>1, <2>2, <2>4 DEF TypeInv, TypeOK, ThreadTypeOK
  <2>6. AddsRow'
    BY <2>3 DEF TypeInv, AddsRow
  <2>. QED
    BY <1>3, <2>5, <2>6 DEF TypeInv
<1>6. CASE ReadRow(t)
  <2>1. /\ UNCHANGED <<total, row>> /\ row[t] \in Rows
        /\ pc' = [pc EXCEPT ![t] = "add"]
        /\ rowLock' = [rowLock EXCEPT ![row[t]] = 1]
        /\ sum' = [sum EXCEPT ![t] = Row(total, row[t])]
    BY <1>6 DEF ReadRow, Goto
  <2>2. Row(total, row[t]) \in RowType(row[t])
    <3>1. \E v : v \in RowType(row[t])
      BY NoCountsType DEF RowType
    <3>. QED
      BY <1>4, <2>1, <3>1, RowIs
  <2>3. pc' \in [Threads -> PcLabels] /\ rowLock' \in [Rows -> {0, 1}]
    BY <1>4, <2>1 DEF PcLabels
  <2>4. /\ DOMAIN sum' = Threads
        /\ \A u \in Threads : sum'[u] \in (IF pc'[u] = "add" /\ row'[u] >= MAX_THREAD
                                           THEN PillarRows ELSE LevelRows)
    <3>1. DOMAIN sum' = Threads
      BY <2>1 DEF TypeInv, TypeOK
    <3>2. row[t] >= MAX_THREAD <=> ~ (row[t] < MAX_THREAD)
      BY <1>4, Constants
    <3>3. sum'[t] \in (IF row[t] >= MAX_THREAD THEN PillarRows ELSE LevelRows)
      BY <2>1, <2>2, <3>2 DEF RowType, TypeInv, TypeOK
    <3>4. ASSUME NEW u \in Threads, u # t
          PROVE  sum'[u] = sum[u] /\ row'[u] = row[u] /\ (pc'[u] = "add" <=> pc[u] = "add")
      BY <1>4, <2>1, <3>4 DEF TypeInv, TypeOK
    <3>. QED
      BY <2>1, <3>1, <3>3, <3>4, <1>4 DEF TypeInv, TypeOK
  <2>5. TypeOK'
    BY <1>1, <1>2, <2>1, <2>3, <2>4 DEF TypeInv, TypeOK, ThreadTypeOK
  <2>6. AddsRow'
    BY <1>4, <2>1 DEF TypeInv, AddsRow
  <2>. QED
    BY <1>3, <2>5, <2>6 DEF TypeInv
<1>7. CASE AddRow(t)
  <2>1. PICK r \in Rows : r = row[t]
    BY <1>7 DEF AddRow, Goto, TypeInv, AddsRow
  <2>2. PICK c \in CountRecords : c = lstat[t]
    BY DEF TypeInv, TypeOK
  <2>3. PICK x \in RowType(r) : x = sum[t]
    <3>1. pc[t] = "add" /\ (r >= MAX_THREAD <=> ~ (r < MAX_THREAD))
      BY <1>7, RowsSplit, Constants DEF AddRow, Goto
    <3>. QED
      BY <2>1, <3>1 DEF RowType, TypeInv, TypeOK
  <2>4. PICK y \in RowType(r) : y = Row(c, r)
    BY <2>3, RowIs
  <2>5. PICK v \in RowType(r) : v = RowSum(r, x, y)
    BY RowSumType
  <2>6. PICK n \in CountRecords : n = WithRow(total, r, v)
    BY <1>4, RowIs
  <2>7. /\ total' = n /\ rowLock' = [rowLock EXCEPT ![r] = 0]
        /\ row' = [row EXCEPT ![t] = r + 1] /\ sum' = [sum EXCEPT ![t] = NoLevel]
        /\ pc' = [pc EXCEPT ![t] = "merge"]
    BY <1>7, <2>1, <2>2, <2>3, <2>4, <2>5, <2>6 DEF AddRow, Goto, TypeInv, TypeOK
  <2>8. r + 1 \in 0 .. MAX_THREAD + MAX_PILLARS
    BY RowsSplit, Constants
  <2>9. /\ total' \in CountRecords /\ rowLock' \in [Rows -> {0, 1}]
        /\ pc' \in [Threads -> PcLabels] /\ row' \in [Threads -> 0 .. MAX_THREAD + MAX_PILLARS]
    BY <1>4, <2>7, <2>8 DEF PcLabels
  <2>10. ASSUME NEW u \in Threads, u # t
         PROVE  sum'[u] = sum[u] /\ row'[u] = row[u] /\ (pc'[u] = "add" <=> pc[u] = "add")
    BY <1>4, <2>7, <2>10 DEF TypeInv, TypeOK
  <2>11. /\ DOMAIN sum' = Threads /\ pc'[t] # "add"
         /\ sum'[t] \in LevelRows
    BY <1>4, <2>7, NoCountsType DEF TypeInv, TypeOK
  <2>12. \A u \in Threads : sum'[u] \in (IF pc'[u] = "add" /\ row'[u] >= MAX_THREAD
                                         THEN PillarRows ELSE LevelRows)
    BY <2>10, <2>11 DEF TypeInv, TypeOK
  <2>13. TypeOK'
    BY <1>1, <1>2, <2>9, <2>11, <2>12 DEF TypeInv, TypeOK, ThreadTypeOK
  <2>14. AddsRow'
    BY <2>10, <2>11 DEF TypeInv, AddsRow
  <2>. QED
    BY <1>3, <2>13, <2>14 DEF TypeInv
<1>. QED
  BY <1>5, <1>6, <1>7 DEF Merging

\* ... and the end of the run.
LEMMA FiniType == TypeInv /\ Fini => TypeInv'
<1>. SUFFICES ASSUME TypeInv, Fini PROVE TypeInv'
  OBVIOUS
<1>1. /\ UNCHANGED <<live, gThreadNum, gStartTime, tasks, current_task>>
      /\ UNCHANGED <<lock, list, line, tempN, trace, lstat, rowLock, row, sum, pc>>
      /\ stage' = "done"
  BY DEF Fini, ThreadEnd, taskVars, accessVars
<1>2. ThreadTypeOK'
  BY DEF TypeInv, TypeOK, ThreadTypeOK, Fini, ThreadEnd, TlsStates
<1>3. /\ rdtsc' \in Nat /\ gStartTime' \in 0 .. rdtsc' /\ gEndTime' \in 0 .. rdtsc'
      /\ ev' \in {"none", "start", "stop"}
  BY DEF Fini, ThreadEnd, ReadClock, TypeInv, TypeOK
<1>4. N' \in Nat
  <2>1. gEndTime' - gStartTime \in Int
    BY <1>1, <1>3
  <2>. QED
    BY <2>1, WrapIs DEF Fini
<1>5. total' \in CountRecords
  <2>1. PICK n \in Nat : n = N'
    BY <1>4
  <2>2. PICK h : Collects(h, n) /\ CollectLastAccesses(n) = h[NumLines]
    BY CollectIs DEF TypeInv, TypeOK
  <2>3. total' = CollectLastAccesses(n)
    BY <2>1 DEF Fini
  <2>4. NumLines \in 0 .. NumLines
    BY Constants
  <2>. QED
    BY <2>2, <2>3, <2>4 DEF Collects
<1>6. TypeOK'
  BY <1>1, <1>2, <1>3, <1>4, <1>5 DEF TypeInv, TypeOK
<1>7. StackOK' /\ AddsRow'
  BY <1>1 DEF TypeInv, StackOK, AddsRow
<1>. QED
  BY <1>6, <1>7 DEF TypeInv

\* Nothing else changes a variable but the clock.
LEMMA TickType == TypeInv /\ (Tick \/ UNCHANGED vars) => TypeInv'
<1>. SUFFICES ASSUME TypeInv, Tick \/ UNCHANGED vars PROVE TypeInv'
  OBVIOUS
<1>1. /\ UNCHANGED <<threadVars, gStartTime, gEndTime, ev, taskVars, accessVars, lstat>>
      /\ UNCHANGED <<mergeVars, pc, finiVars>>
      /\ rdtsc' = rdtsc \/ rdtsc' = rdtsc + 1
  BY DEF Tick, ReadClock, vars, runVars, clockVars
<1>2. /\ UNCHANGED <<live, tls, gThreadNum, gStartTime, gEndTime, ev, tasks, current_task>>
      /\ UNCHANGED <<lock, list, line, tempN, trace, lstat, total, rowLock, row, sum>>
      /\ UNCHANGED <<pc, N, stage>>
  BY <1>1 DEF threadVars, taskVars, accessVars, mergeVars, finiVars
<1>3. rdtsc' \in Nat /\ gStartTime' \in 0 .. rdtsc' /\ gEndTime' \in 0 .. rdtsc'
  BY <1>1, <1>2 DEF TypeInv, TypeOK
<1>4. TypeOK'
  BY <1>2, <1>3 DEF TypeInv, TypeOK, ThreadTypeOK
<1>5. StackOK' /\ AddsRow'
  BY <1>2 DEF TypeInv, StackOK, AddsRow
<1>. QED
  BY <1>4, <1>5 DEF TypeInv

\* So every step does.
LEMMA NextTypeInv == TypeInv /\ [Next]_vars => TypeInv'
BY ThreadsType, TasksType, RecordingType, MergingType, FiniType, TickType
DEF Next, Terminated

\* Every variable keeps its type, in every state of every execution.
THEOREM TypeCorrect == Spec => []TypeOK
<1>1. Spec => []TypeInv
  BY InitTypeInv, NextTypeInv, PTL DEF Spec
<1>2. TypeInv => TypeOK
  BY DEF TypeInv
<1>. QED
  BY <1>1, <1>2, PTL

-----------------------------------------------------------------------------
(***************************************************************************)
(* The locks: who is at a row and at a list.                               *)
(***************************************************************************)
\* The steps of thread t.
Steps(t) ==
  \/ StartThread(t) \/ ControlStart(t) \/ ControlStop(t)
  \/ BeforeTaskStart(t) \/ BeforeTaskEnd(t)
  \/ RecordMem(t) \/ Recording(t)
  \/ BeginMerge(t) \/ Merging(t)

\* They keep the types.
LEMMA StepsType ==
  ASSUME TypeInv, NEW t \in Threads, Steps(t)
  PROVE  TypeInv'
<1>1. CASE StartThread(t) \/ ControlStart(t) \/ ControlStop(t)
  BY <1>1, ThreadsType
<1>2. CASE BeforeTaskStart(t) \/ BeforeTaskEnd(t)
  BY <1>2, TasksType
<1>3. CASE RecordMem(t) \/ Recording(t)
  BY <1>3, RecordingType
<1>4. CASE BeginMerge(t) \/ Merging(t)
  BY <1>4, MergingType
<1>. QED
  BY <1>1, <1>2, <1>3, <1>4 DEF Steps

\* Each changes what belongs to the thread, and nothing that belongs to another.
LEMMA OthersKeep ==
  ASSUME TypeInv, NEW t \in Threads, Steps(t), NEW u \in Threads, u # t
  PROVE  /\ pc'[u] = pc[u] /\ line'[u] = line[u] /\ tempN'[u] = tempN[u]
         /\ row'[u] = row[u] /\ sum'[u] = sum[u] /\ lstat'[u] = lstat[u]
         /\ tls'[u] = tls[u] /\ (u \in live' <=> u \in live)
<1>1. /\ pc \in [Threads -> PcLabels] /\ line \in [Threads -> Lines]
      /\ tempN \in [Threads -> Nat] /\ row \in [Threads -> 0 .. MAX_THREAD + MAX_PILLARS]
      /\ DOMAIN sum = Threads /\ lstat \in [Threads -> CountRecords]
      /\ tls \in [Threads -> TlsStates]
  BY DEF TypeInv, TypeOK, ThreadTypeOK
<1>2. CASE StartThread(t) \/ ControlStart(t) \/ ControlStop(t)
  BY <1>1, <1>2 DEF StartThread, ControlStart, ControlStop, Goto, ThreadStart, activate,
     deactivate, accessVars, mergeVars
<1>3. CASE BeforeTaskStart(t) \/ BeforeTaskEnd(t)
  BY <1>1, <1>3 DEF BeforeTaskStart, BeforeTaskEnd, Goto, threadVars, accessVars, mergeVars
<1>4. CASE RecordMem(t) \/ Recording(t)
  BY <1>1, <1>4 DEF RecordMem, Recording, LockAcquire, ReserveTime, SfpImpl, LockRelease,
     Goto, runVars, threadVars, mergeVars
<1>5. CASE BeginMerge(t) \/ Merging(t)
  BY <1>1, <1>5 DEF BeginMerge, Merging, ReadRow, AddRow, EndMerge, Goto, ThreadFini,
     runVars, threadVars, accessVars, mergeVars
<1>. QED
  BY <1>2, <1>3, <1>4, <1>5 DEF Steps

\* Only a thread that merges its counts is at a row, and only a thread that
\* runs is at anything.
RowOK == \A t \in Threads : /\ pc[t] \notin {"merge", "add"} => row[t] = 0
                            /\ t \notin live => pc[t] = "idle"

\* A thread that adds a row has its lock, alone, and has read what is there.
AddOf(t) == row[t] \in Rows /\ rowLock[row[t]] = 1 /\ sum[t] = Row(total, row[t])

AddOK ==
  /\ \A t \in Threads : pc[t] = "add" => AddOf(t)
  /\ \A t, u \in Threads : pc[t] = "add" /\ pc[u] = "add" /\ t # u => row[t] # row[u]

\* A thread at the list of a line has the lock of its set, alone.
Holds(t) == pc[t] \in {"clock", "profile", "release"}

LockOK ==
  /\ \A t \in Threads : Holds(t) => lock[SetIndex(line[t])] = 1
  /\ \A t, u \in Threads : Holds(t) /\ Holds(u) /\ t # u =>
       SetIndex(line[t]) # SetIndex(line[u])

LocksInv == RowOK /\ AddOK /\ LockOK

\* They hold at first, ...
LEMMA InitLocks == Init => LocksInv
BY Constants DEF Init, ThreadInit, LocksInv, RowOK, AddOK, LockOK, Holds

\* ... and every step keeps them.
LEMMA RowKept ==
  ASSUME TypeInv, RowOK, NEW t \in Threads, Steps(t)
  PROVE  RowOK'
<1>1. /\ pc \in [Threads -> PcLabels] /\ row \in [Threads -> 0 .. MAX_THREAD + MAX_PILLARS]
  BY DEF TypeInv, TypeOK
<1>2. /\ pc'[t] \notin {"merge", "add"} => row'[t] = 0
      /\ t \notin live' => pc'[t] = "idle"
  <2>1. CASE StartThread(t) \/ ControlStart(t) \/ ControlStop(t)
    BY <1>1, <2>1 DEF StartThread, ControlStart, ControlStop, Goto, ThreadStart, activate,
       deactivate, mergeVars, RowOK
  <2>2. CASE BeforeTaskStart(t) \/ BeforeTaskEnd(t)
    BY <1>1, <2>2 DEF BeforeTaskStart, BeforeTaskEnd, Goto, threadVars, mergeVars, RowOK
  <2>3. CASE RecordMem(t) \/ Recording(t)
    BY <1>1, <2>3 DEF RecordMem, Recording, LockAcquire, ReserveTime, SfpImpl, LockRelease,
       Goto, runVars, threadVars, mergeVars, RowOK
  <2>4. CASE BeginMerge(t) \/ Merging(t)
    BY <1>1, <2>4 DEF BeginMerge, Merging, ReadRow, AddRow, EndMerge, Goto, ThreadFini,
       runVars, threadVars, mergeVars, RowOK
  <2>. QED
    BY <2>1, <2>2, <2>3, <2>4 DEF Steps
<1>3. ASSUME NEW u \in Threads, u # t
      PROVE  /\ pc'[u] \notin {"merge", "add"} => row'[u] = 0
             /\ u \notin live' => pc'[u] = "idle"
  BY <1>3, OthersKeep DEF RowOK
<1>. QED
  BY <1>2, <1>3 DEF RowOK

\* A thread reads a row only when nobody else is at it.
LEMMA AddKept ==
  ASSUME TypeInv, AddOK, NEW t \in Threads, Steps(t)
  PROVE  AddOK'
<1>1. /\ pc \in [Threads -> PcLabels] /\ row \in [Threads -> 0 .. MAX_THREAD + MAX_PILLARS]
      /\ rowLock \in [Rows -> {0, 1}] /\ DOMAIN sum = Threads /\ total \in CountRecords
  BY DEF TypeInv, TypeOK
<1>2. CASE ~ ReadRow(t) /\ ~ AddRow(t)
  <2>1. rowLock' = rowLock /\ total' = total /\ pc'[t] # "add"
    <3>1. CASE StartThread(t) \/ ControlStart(t) \/ ControlStop(t)
      BY <1>1, <3>1 DEF StartThread, ControlStart, ControlStop, Goto, mergeVars
    <3>2. CASE BeforeTaskStart(t) \/ BeforeTaskEnd(t)
      BY <1>1, <3>2 DEF BeforeTaskStart, BeforeTaskEnd, Goto, mergeVars
    <3>3. CASE RecordMem(t) \/ Recording(t)
      BY <1>1, <3>3 DEF RecordMem, Recording, LockAcquire, ReserveTime, SfpImpl,
         LockRelease, Goto, mergeVars
    <3>4. CASE BeginMerge(t) \/ EndMerge(t)
      BY <1>1, <3>4 DEF BeginMerge, EndMerge, Goto, mergeVars
    <3>. QED
      BY <1>2, <3>1, <3>2, <3>3, <3>4 DEF Steps, Merging
  <2>2. ASSUME NEW u \in Threads, pc'[u] = "add"
        PROVE  u # t /\ pc[u] = "add" /\ row'[u] = row[u] /\ sum'[u] = sum[u]
    <3>1. u # t
      BY <2>1, <2>2
    <3>. QED
      BY <2>2, <3>1, OthersKeep
  <2>3. \A u \in Threads : pc'[u] = "add" => AddOf(u)'
    BY <2>1, <2>2 DEF AddOK, AddOf
  <2>. QED
    BY <2>2, <2>3 DEF AddOK
<1>3. CASE ReadRow(t)
  <2>1. /\ row[t] \in Rows /\ rowLock[row[t]] = 0 /\ total' = total /\ row' = row
        /\ rowLock' = [rowLock EXCEPT ![row[t]] = 1]
        /\ sum' = [sum EXCEPT ![t] = Row(total, row[t])]
    BY <1>3 DEF ReadRow, RowUnlocked
  <2>2. AddOf(t)'
    BY <1>1, <2>1 DEF AddOf
  <2>3. ASSUME NEW u \in Threads, u # t, pc'[u] = "add"
        PROVE  AddOf(u)' /\ row[u] # row[t] /\ pc[u] = "add"
    <3>1. pc[u] = "add" /\ sum'[u] = sum[u]
      BY <2>3, OthersKeep
    <3>2. AddOf(u)
      BY <3>1 DEF AddOK
    <3>3. row[u] # row[t]
      BY <2>1, <3>2 DEF AddOf
    <3>. QED
      BY <1>1, <2>1, <3>1, <3>2, <3>3 DEF AddOf
  <2>. QED
    BY <2>1, <2>2, <2>3 DEF AddOK
<1>4. CASE AddRow(t)
  <2>1. pc[t] = "add" /\ pc'[t] = "merge" /\ row[t] \in Rows
    BY <1>1, <1>4 DEF AddRow, Goto, TypeInv, AddsRow
  <2>2. PICK v : v = RowSum(row[t], sum[t], Row(lstat[t], row[t]))
    OBVIOUS
  <2>3. /\ total' = WithRow(total, row[t], v)
        /\ rowLock' = [rowLock EXCEPT ![row[t]] = 0]
    BY <1>4, <2>2 DEF AddRow
  <2>4. \A q \in Rows \ {row[t]} : Row(total', q) = Row(total, q)
    <3>1. \E x : x \in RowType(row[t])
      BY NoCountsType DEF RowType
    <3>2. sum[t] \in RowType(row[t])
      <4>1. row[t] >= MAX_THREAD <=> ~ (row[t] < MAX_THREAD)
        BY <1>1, Constants
      <4>. QED
        BY <2>1, <4>1 DEF RowType, TypeInv, TypeOK
    <3>3. PICK y \in RowType(row[t]) : y = Row(lstat[t], row[t])
      <4>1. lstat[t] \in CountRecords
        BY DEF TypeInv, TypeOK
      <4>. QED
        BY <2>1, <3>1, <4>1, RowIs
    <3>4. v \in RowType(row[t])
      BY <2>1, <2>2, <3>2, <3>3, RowSumType
    <3>. QED
      BY <1>1, <2>1, <2>3, <3>4, RowIs
  <2>5. ASSUME NEW u \in Threads, pc'[u] = "add"
        PROVE  u # t /\ pc[u] = "add" /\ row'[u] = row[u] /\ AddOf(u)'
    <3>1. u # t /\ pc[u] = "add" /\ row'[u] = row[u] /\ sum'[u] = sum[u]
      BY <2>1, <2>5, OthersKeep
    <3>2. AddOf(u) /\ row[u] # row[t]
      BY <2>1, <3>1 DEF AddOK
    <3>3. rowLock'[row[u]] = rowLock[row[u]] /\ Row(total', row[u]) = Row(total, row[u])
      BY <1>1, <2>3, <2>4, <3>2 DEF AddOf
    <3>. QED
      BY <3>1, <3>2, <3>3 DEF AddOf
  <2>. QED
    BY <2>5 DEF AddOK
<1>. QED
  BY <1>2, <1>3, <1>4

\* Every line has a set.
LEMMA SetIndexType == \A l \in Lines : SetIndex(l) \in Sets
<1>1. PICK n \in Nat \ {0} : n = NumSets
  BY Constants
<1>2. \A l \in Nat : l % n \in 0 .. n - 1
  OBVIOUS
<1>3. Lines \subseteq Nat
  BY Constants DEF Lines
<1>. QED
  BY <1>1, <1>2, <1>3 DEF SetIndex, Sets

\* A thread takes a free lock only.
LEMMA LockKept ==
  ASSUME TypeInv, LockOK, NEW t \in Threads, Steps(t)
  PROVE  LockOK'
<1>1. pc \in [Threads -> PcLabels] /\ line \in [Threads -> Lines] /\ lock \in [Sets -> {0, 1}]
  BY DEF TypeInv, TypeOK
<1>2. PICK i \in Sets : i = SetIndex(line[t])
  BY <1>1, SetIndexType
<1>3. ASSUME NEW u \in Threads, u # t
      PROVE  (Holds(u)' <=> Holds(u)) /\ line'[u] = line[u]
  BY <1>3, OthersKeep DEF Holds
<1>4. CASE LockAcquire(t)
  <2>1. lock[i] = 0 /\ lock' = [lock EXCEPT ![i] = 1] /\ line' = line
    BY <1>2, <1>4 DEF LockAcquire
  <2>2. \A u \in Threads \ {t} : Holds(u) => SetIndex(line[u]) # i
    BY <2>1 DEF LockOK
  <2>3. ASSUME NEW u \in Threads, Holds(u)' PROVE lock'[SetIndex(line'[u])] = 1
    <3>1. CASE u = t
      BY <1>1, <1>2, <2>1, <3>1
    <3>2. CASE u # t
      BY <1>1, <1>3, <2>1, <2>2, <2>3, <3>2, SetIndexType DEF LockOK
    <3>. QED
      BY <3>1, <3>2
  <2>. QED
    BY <1>2, <1>3, <2>1, <2>2, <2>3 DEF LockOK
<1>5. CASE LockRelease(t)
  <2>1. /\ pc[t] = "release" /\ pc'[t] = "idle" /\ lock' = [lock EXCEPT ![i] = 0]
    BY <1>1, <1>2, <1>5 DEF LockRelease, Goto
  <2>2. ~ Holds(t)' /\ Holds(t)
    BY <2>1 DEF Holds
  <2>3. ASSUME NEW u \in Threads, Holds(u)' PROVE lock'[SetIndex(line'[u])] = 1
    <3>1. u # t /\ Holds(u) /\ line'[u] = line[u]
      BY <1>3, <2>2, <2>3
    <3>2. SetIndex(line[u]) # i /\ lock[SetIndex(line[u])] = 1
      BY <1>2, <2>2, <3>1 DEF LockOK
    <3>. QED
      BY <1>1, <2>1, <3>1, <3>2, SetIndexType
  <2>. QED
    BY <1>3, <2>2, <2>3 DEF LockOK
<1>6. CASE ReserveTime(t) \/ SfpImpl(t)
  <2>1. lock' = lock /\ line' = line /\ Holds(t)
    BY <1>6 DEF ReserveTime, SfpImpl, Goto, Holds
  <2>. QED
    BY <1>3, <2>1 DEF LockOK
<1>7. CASE ~ Recording(t)
  <2>1. lock' = lock /\ ~ Holds(t)'
    <3>1. CASE StartThread(t) \/ ControlStart(t) \/ ControlStop(t)
      BY <1>1, <3>1 DEF StartThread, ControlStart, ControlStop, Goto, accessVars, Holds
    <3>2. CASE BeforeTaskStart(t) \/ BeforeTaskEnd(t)
      BY <1>1, <3>2 DEF BeforeTaskStart, BeforeTaskEnd, Goto, accessVars, Holds
    <3>3. CASE RecordMem(t)
      BY <1>1, <3>3 DEF RecordMem, Goto, Holds
    <3>4. CASE BeginMerge(t) \/ Merging(t)
      BY <1>1, <3>4 DEF BeginMerge, Merging, ReadRow, AddRow, EndMerge, Goto, accessVars, Holds
    <3>. QED
      BY <1>7, <3>1, <3>2, <3>3, <3>4 DEF Steps
  <2>. QED
    BY <1>3, <2>1 DEF LockOK
<1>. QED
  BY <1>4, <1>5, <1>6, <1>7 DEF Recording

\* The locks work whatever the threads do.
LEMMA LocksKept ==
  ASSUME TypeInv, LocksInv, NEW t \in Threads, Steps(t)
  PROVE  LocksInv'
BY RowKept, AddKept, LockKept DEF LocksInv

\* What leaves the counts, the locks and the threads alone keeps it, too.
LEMMA QuietLocks ==
  ASSUME LocksInv, UNCHANGED <<pc, row, live, rowLock, sum, total, lock, line>>
  PROVE  LocksInv'
BY DEF LocksInv, RowOK, AddOK, AddOf, LockOK, Holds

\* At the end of the run no thread is at anything.
LEMMA FiniLocks == LocksInv /\ Fini => LocksInv'
<1>. SUFFICES ASSUME LocksInv, Fini PROVE LocksInv'
  OBVIOUS
<1>1. live' = live /\ pc' = pc /\ row' = row /\ live = {}
  BY DEF Fini, ThreadEnd
<1>2. \A t \in Threads : pc[t] = "idle"
  BY <1>1 DEF LocksInv, RowOK
<1>. QED
  BY <1>1, <1>2 DEF LocksInv, RowOK, AddOK, LockOK, Holds

\* The steps are those of the threads, of the clock and of the end.
LEMMA NextIs == [Next]_vars => (\E t \in Threads : Steps(t)) \/ Tick \/ Fini \/ UNCHANGED vars
BY DEF Next, Terminated, Steps

\* In every state the counts of a row that a thread is adding are the ones it
\* has read, and no two threads are at a row or at the lists of a set.
THEOREM LocksExclude == Spec => []LocksInv
<1>1. ASSUME TypeInv, LocksInv, [Next]_vars PROVE LocksInv'
  <2>1. CASE \E t \in Threads : Steps(t)
    BY <1>1, <2>1, LocksKept
  <2>2. CASE Tick \/ UNCHANGED vars
    BY <1>1, <2>2, QuietLocks
    DEF Tick, vars, runVars, threadVars, accessVars, mergeVars
  <2>3. CASE Fini
    BY <1>1, <2>3, FiniLocks
  <2>. QED
    BY <1>1, <2>1, <2>2, <2>3, NextIs
<1>2. TypeInv /\ LocksInv /\ [Next]_vars => TypeInv' /\ LocksInv'
  BY <1>1, NextTypeInv
<1>. QED
  BY <1>2, InitTypeInv, InitLocks, PTL DEF Spec

-----------------------------------------------------------------------------
(***************************************************************************)
(* The clock and the lists.                                                *)
(***************************************************************************)
\* Nothing is recorded before the first start.
StartOK ==
  /\ \A t \in Threads :
       tls[t] = "enabled" \/ pc[t] = "acquire" \/ Holds(t) => gStartTime # 0
  /\ gStartTime = 0 => \A l \in Lines, e \in Tasks : list[l].time[e] = 0
  /\ ev = "start" => gStartTime # 0

\* There is time for every access that will still take one.
RoomOK == rdtsc + Cardinality(Untimed) <= MaxTime

\* No time is from the future, and that of an access is later than all of its line.
TimeOf(t) ==
  pc[t] = "profile" =>
    /\ tempN[t] \in 1 .. rdtsc - gStartTime
    /\ \A e \in Tasks : list[line[t]].time[e] < tempN[t]

TimeOK ==
  /\ \A l \in Lines, e \in Tasks : list[l].time[e] <= rdtsc - gStartTime
  /\ \A t \in Threads : TimeOf(t)

\* The lists are sorted, also when they have been trimmed.
ListOK == \A l \in Lines : \E I : SortedOver(list[l], I)

\* The lists begin with an access of the trace, and no other line has one,
\* unless a thread is at its list.
TraceOf(t) == pc[t] = "profile" => \E a \in trace : a.line = line[t] /\ a.time = tempN[t]

TraceOK ==
  /\ \A a \in trace : \/ list[a.line].head # NIL
                      \/ \E t \in Threads : pc[t] = "profile" /\ line[t] = a.line
  /\ \A l \in Lines : list[l].head # NIL =>
       \E a \in trace : a.line = l /\ a.time = list[l].time[list[l].head]
  /\ \A t \in Threads : TraceOf(t)

ListsInv == StartOK /\ RoomOK /\ TimeOK /\ ListOK /\ TraceOK

\* They hold at first.
LEMMA InitLists == Init => ListsInv
<1>. SUFFICES ASSUME Init PROVE ListsInv
  OBVIOUS
<1>1. \A t \in Threads : pc[t] = "idle" /\ tls[t] = "null"
  BY DEF Init, ThreadInit
<1>2. \A l \in Lines : /\ list[l].head = NIL
                       /\ \A e \in Tasks : list[l].time[e] = 0
  BY DEF Init, TList
<1>3. StartOK
  BY <1>1, <1>2 DEF StartOK, Holds, Init
<1>4. RoomOK
  <2>1. Untimed = {}
    BY <1>1 DEF Untimed
  <2>. QED
    BY <2>1, FS_EmptySet, Constants DEF RoomOK, Init
<1>5. TimeOK /\ TraceOK
  BY <1>1, <1>2 DEF TimeOK, TimeOf, TraceOK, TraceOf, Init
<1>6. ListOK
  <2>1. \A l \in Lines : SortedOver(list[l], {})
    BY <1>2 DEF SortedOver
  <2>. QED
    BY <2>1 DEF ListOK
<1>. QED
  BY <1>3, <1>4, <1>5, <1>6 DEF ListsInv

\* No reading of the clock is greater than MaxTime.
LEMMA TimeBound ==
  ASSUME TypeInv, RoomOK
  PROVE  IsFiniteSet(Untimed) /\ Cardinality(Untimed) \in Nat /\ rdtsc <= MaxTime
<1>1. IsFiniteSet(Untimed) /\ Cardinality(Untimed) \in Nat
  BY FiniteTasks, FS_Subset, FS_CardinalityType DEF Untimed
<1>2. rdtsc \in Nat
  BY DEF TypeInv, TypeOK
<1>. QED
  BY <1>1, <1>2, Constants DEF RoomOK

\* What SfpImpl does with the list s of the line of thread t, which becomes n:
\* the access is the first of it, and its windows are added to the counts.
Profiled(t, s, n) ==
  /\ n.head \in Tasks /\ n.time[n.head] = tempN[t]
  /\ \A e \in Tasks : n.time[e] = s.time[e] \/ n.time[e] = tempN[t]
  /\ \E J : SortedOver(n, J)
  /\ \A l \in Lines : l # line[t] => list'[l] = list[l]
  /\ \A i \in Pillars : WindowsOf(lstat'[t].pillar[i]) =
                          WindowsOf(lstat[t].pillar[i]) + Closed(s, tempN[t], i)

\* SfpImpl does this.
LEMMA SfpImplIs ==
  ASSUME TypeInv, RoomOK, TimeOK, ListOK, NEW t \in Threads, SfpImpl(t)
  PROVE  Profiled(t, list[line[t]], list'[line[t]])
<1>1. PICK s \in TLists(Tasks) : s = list[line[t]]
  BY DEF TypeInv, TypeOK
<1>2. PICK c \in CountRecords : c = lstat[t]
  BY DEF TypeInv, TypeOK
<1>3. PICK pos \in Nat : pos = tempN[t]
  BY DEF TypeInv, TypeOK
<1>4. PICK k \in Tasks : k = current_task[t]
  BY DEF TypeInv, TypeOK
<1>5. c.level \in LevelTables /\ c.pillar \in PillarTables
  BY DEF CountRecords, LevelTables, PillarTables
<1>6. PICK p : p = PillarWalks(s, pos, c.pillar, TRUE)
  OBVIOUS
<1>7. PICK I : SortedOver(s, I)
  BY <1>1 DEF ListOK, TypeInv, TypeOK
<1>8. /\ pos < 2 ^ WordBits
      /\ \A e \in Tasks : s.time[e] < pos
  <2>1. pc[t] = "profile"
    BY DEF SfpImpl, Goto
  <2>2. pos \in 1 .. rdtsc - gStartTime /\ \A e \in Tasks : s.time[e] < pos
    BY <1>1, <1>3, <2>1 DEF TimeOK, TimeOf
  <2>3. rdtsc \in Nat /\ gStartTime \in Nat
    BY DEF TypeInv, TypeOK
  <2>4. rdtsc <= MaxTime
    BY TimeBound
  <2>. QED
    BY <2>2, <2>3, <2>4, Constants
<1>9. /\ p.list.time = s.time /\ SortedOver(p.list, I)
      /\ \A i \in Pillars : WindowsOf(p.counts[i]) = WindowsOf(c.pillar[i]) + Closed(s, pos, i)
  <2>1. s.head # NIL => s.time[s.head] < pos
    BY <1>8 DEF TLists
  <2>2. PICK counts \in PillarTables : counts = c.pillar
    BY <1>5
  <2>3. PICK trims : trims = TRUE
    OBVIOUS
  <2>4. p = PillarWalks(s, pos, counts, trims)
    BY <1>6, <2>2, <2>3
  <2>5. /\ p.list.time = s.time /\ SortedOver(p.list, I)
        /\ \A i \in Pillars : WindowsOf(p.counts[i]) = WindowsOf(counts[i]) + Closed(s, pos, i)
    BY <1>7, <1>8, <2>1, <2>4, WalksExact
  <2>. QED
    BY <2>2, <2>5
<1>10. p.list \in TLists(Tasks) /\ p.counts \in PillarTables
  BY <1>5, <1>6, WalksType DEF WalksStates
<1>11. PICK m \in TLists(Tasks) : m = p.list
  BY <1>10
<1>12. PICK n, q, own : n = ToFront(m, k, pos) /\ q = Elements(m) /\ own = Place(q, k)
  OBVIOUS
<1>13. n.head = k /\ n.time = [m.time EXCEPT ![k] = pos]
  BY <1>12, ToFrontTime
<1>14. \E J : SortedOver(n, J)
  BY <1>8, <1>9, <1>11, <1>12, ToFrontSorted
<1>15. \A e \in Tasks : n.time[e] = s.time[e] \/ n.time[e] = pos
  BY <1>9, <1>11, <1>13 DEF TLists
<1>16. n.time[n.head] = pos
  BY <1>13 DEF TLists
<1>17. PICK x : x = [level |-> Intervals(p.list, k, pos, c.level), pillar |-> p.counts]
  OBVIOUS
<1>18. lstat' = [lstat EXCEPT ![t] = x] /\ list' = [list EXCEPT ![line[t]] = n]
  BY <1>1, <1>2, <1>3, <1>4, <1>6, <1>11, <1>12, <1>17 DEF SfpImpl, TypeInv, TypeOK
<1>19. list'[line[t]] = n /\ \A l \in Lines : l # line[t] => list'[l] = list[l]
  BY <1>18 DEF TypeInv, TypeOK
<1>20. lstat'[t].pillar = p.counts
  BY <1>17, <1>18 DEF TypeInv, TypeOK
<1>21. \A i \in Pillars : WindowsOf(lstat'[t].pillar[i]) =
                            WindowsOf(lstat[t].pillar[i]) + Closed(s, pos, i)
  BY <1>2, <1>9, <1>20
<1>. QED
  BY <1>1, <1>3, <1>13, <1>14, <1>15, <1>16, <1>19, <1>21 DEF Profiled

\* How a step of a thread moves the clock, the start and the lists.
LEMMA ClockMoves ==
  ASSUME TypeInv, NEW t \in Threads, Steps(t)
  PROVE  /\ rdtsc' = rdtsc \/ rdtsc' = rdtsc + 1
         /\ gStartTime' = gStartTime \/ (gStartTime = 0 /\ gStartTime' = rdtsc + 1 /\ rdtsc' = rdtsc + 1)
         /\ ~ SfpImpl(t) => list' = list
         /\ ~ ReserveTime(t) => trace' = trace
         /\ stage = "run" /\ stage' = "run"
<1>1. CASE StartThread(t) \/ ControlStart(t) \/ ControlStop(t)
  BY <1>1 DEF StartThread, ControlStart, ControlStop, SetStartTime, ReadClock, Goto,
     accessVars, finiVars
<1>2. CASE BeforeTaskStart(t) \/ BeforeTaskEnd(t)
  BY <1>2 DEF BeforeTaskStart, BeforeTaskEnd, Goto, clockVars, accessVars, finiVars
<1>3. CASE RecordMem(t) \/ Recording(t)
  BY <1>3 DEF RecordMem, Recording, LockAcquire, ReserveTime, SfpImpl, LockRelease,
     Goto, ReadClock, runVars, clockVars, finiVars
<1>4. CASE BeginMerge(t) \/ Merging(t)
  BY <1>4 DEF BeginMerge, Merging, ReadRow, AddRow, EndMerge, Goto, runVars, clockVars,
     accessVars, finiVars
<1>. QED
  BY <1>1, <1>2, <1>3, <1>4 DEF Steps

\* A thread that records has been started, which sets the start.
LEMMA StartKept ==
  ASSUME TypeInv, StartOK, NEW t \in Threads, Steps(t)
  PROVE  StartOK'
<1>1. /\ pc \in [Threads -> PcLabels] /\ tls \in [Threads -> TlsStates]
      /\ rdtsc \in Nat /\ gStartTime \in Nat
  BY DEF TypeInv, TypeOK, ThreadTypeOK
<1>2. gStartTime # 0 => gStartTime' # 0
  BY ClockMoves
<1>3. gStartTime' = 0 => gStartTime = 0
  BY <1>2
<1>4. gStartTime' # gStartTime => gStartTime' # 0
  BY <1>1, ClockMoves
<1>5. SfpImpl(t) => gStartTime # 0
  BY DEF SfpImpl, Goto, StartOK, Holds
<1>6. tls'[t] = "enabled" \/ pc'[t] = "acquire" \/ Holds(t)' => gStartTime' # 0
  <2>1. CASE StartThread(t) \/ ControlStart(t) \/ ControlStop(t)
    <3>1. pc'[t] = "idle"
      BY <1>1, <2>1 DEF StartThread, ControlStart, ControlStop, Goto
    <3>2. tls'[t] = "enabled" => SetStartTime
      BY <1>1, <2>1 DEF StartThread, ControlStart, ControlStop, ThreadStart, deactivate
    <3>3. SetStartTime => gStartTime' # 0
      BY <1>1 DEF SetStartTime
    <3>. QED
      BY <3>1, <3>2, <3>3 DEF Holds
  <2>2. CASE BeforeTaskStart(t) \/ BeforeTaskEnd(t)
    BY <1>1, <1>2, <2>2 DEF BeforeTaskStart, BeforeTaskEnd, Goto, threadVars, StartOK, Holds
  <2>3. CASE RecordMem(t) \/ Recording(t)
    <3>1. tls' = tls /\ (tls[t] = "enabled" \/ pc[t] = "acquire" \/ Holds(t))
      BY <2>3 DEF RecordMem, Recording, LockAcquire, ReserveTime, SfpImpl, LockRelease, Goto,
         runVars, threadVars, Holds
    <3>. QED
      BY <1>2, <3>1 DEF StartOK
  <2>4. CASE BeginMerge(t) \/ Merging(t)
    <3>1. tls' = tls /\ pc'[t] \in {"merge", "add", "idle"}
      BY <1>1, <2>4 DEF BeginMerge, Merging, ReadRow, AddRow, EndMerge, Goto, ThreadFini,
         runVars, threadVars
    <3>. QED
      BY <1>2, <3>1 DEF StartOK, Holds
  <2>. QED
    BY <2>1, <2>2, <2>3, <2>4 DEF Steps
<1>7. ASSUME NEW u \in Threads, u # t
      PROVE  tls'[u] = "enabled" \/ pc'[u] = "acquire" \/ Holds(u)' => gStartTime' # 0
  BY <1>2, <1>7, OthersKeep DEF StartOK, Holds
<1>8. gStartTime' = 0 => \A l \in Lines, e \in Tasks : list'[l].time[e] = 0
  BY <1>3, <1>5, ClockMoves DEF StartOK
<1>9. ev' = "start" => gStartTime' # 0
  <2>1. ev' = "start" => ev = "start" \/ ControlStart(t)
    BY DEF Steps, StartThread, ControlStop, BeforeTaskStart, BeforeTaskEnd, RecordMem, Recording,
       LockAcquire, ReserveTime, SfpImpl, LockRelease, BeginMerge, Merging, ReadRow, AddRow,
       EndMerge, runVars, clockVars
  <2>2. ControlStart(t) => gStartTime' # 0
    BY <1>1 DEF ControlStart, SetStartTime
  <2>. QED
    BY <1>2, <2>1, <2>2 DEF StartOK
<1>. QED
  BY <1>6, <1>7, <1>8, <1>9 DEF StartOK

\* An access keeps room for its time from its first step on.
LEMMA RoomKept ==
  ASSUME TypeInv, RoomOK, NEW t \in Threads, Steps(t)
  PROVE  RoomOK'
<1>1. /\ pc \in [Threads -> PcLabels] /\ rdtsc \in Nat /\ MaxTime \in Nat
      /\ IsFiniteSet(Untimed) /\ Cardinality(Untimed) \in Nat
  BY TimeBound, Constants DEF TypeInv, TypeOK
<1>2. \A u \in Threads : u # t => (u \in Untimed' <=> u \in Untimed)
  BY OthersKeep DEF Untimed
<1>3. Untimed \subseteq Threads /\ Untimed' \subseteq Threads
  BY DEF Untimed
<1>4. CASE RecordMem(t)
  <2>1. TimeLeft /\ rdtsc' = rdtsc /\ pc[t] = "idle" /\ pc'[t] = "acquire"
    BY <1>1, <1>4 DEF RecordMem, Goto, runVars, clockVars
  <2>2. t \notin Untimed /\ Untimed' = Untimed \cup {t}
    BY <1>2, <1>3, <2>1 DEF Untimed
  <2>3. Cardinality(Untimed') = Cardinality(Untimed) + 1
    BY <1>1, <2>2, FS_AddElement
  <2>. QED
    BY <1>1, <2>1, <2>3 DEF RoomOK, TimeLeft
<1>5. CASE ReserveTime(t)
  <2>1. rdtsc' = rdtsc + 1 /\ pc[t] = "clock" /\ pc'[t] = "profile"
    BY <1>1, <1>5 DEF ReserveTime, Goto, ReadClock
  <2>2. t \in Untimed /\ Untimed' = Untimed \ {t}
    BY <1>2, <1>3, <2>1 DEF Untimed
  <2>3. Cardinality(Untimed') = Cardinality(Untimed) - 1
    BY <1>1, <2>2, FS_RemoveElement
  <2>. QED
    BY <1>1, <2>1, <2>3 DEF RoomOK
<1>6. CASE ~ RecordMem(t) /\ ~ ReserveTime(t)
  <2>1. t \in Untimed' <=> t \in Untimed
    <3>1. CASE StartThread(t) \/ ControlStart(t) \/ ControlStop(t)
      BY <1>1, <3>1 DEF StartThread, ControlStart, ControlStop, Goto, Untimed
    <3>2. CASE BeforeTaskStart(t) \/ BeforeTaskEnd(t)
      BY <1>1, <3>2 DEF BeforeTaskStart, BeforeTaskEnd, Goto, Untimed
    <3>3. CASE LockAcquire(t) \/ SfpImpl(t) \/ LockRelease(t)
      BY <1>1, <3>3 DEF LockAcquire, SfpImpl, LockRelease, Goto, Untimed
    <3>4. CASE BeginMerge(t) \/ Merging(t)
      BY <1>1, <3>4 DEF BeginMerge, Merging, ReadRow, AddRow, EndMerge, Goto, Untimed
    <3>. QED
      BY <1>6, <3>1, <3>2, <3>3, <3>4 DEF Steps, Recording
  <2>2. Untimed' = Untimed
    BY <1>2, <1>3, <2>1
  <2>3. rdtsc' = rdtsc \/ (rdtsc' = rdtsc + 1 /\ TimeLeft)
    <3>1. CASE StartThread(t) \/ ControlStart(t) \/ ControlStop(t)
      BY <3>1 DEF StartThread, ControlStart, ControlStop, SetStartTime, ReadClock
    <3>2. CASE BeforeTaskStart(t) \/ BeforeTaskEnd(t)
      BY <3>2 DEF BeforeTaskStart, BeforeTaskEnd, clockVars
    <3>3. CASE LockAcquire(t) \/ SfpImpl(t) \/ LockRelease(t)
      BY <3>3 DEF LockAcquire, SfpImpl, LockRelease, runVars, clockVars
    <3>4. CASE BeginMerge(t) \/ Merging(t)
      BY <3>4 DEF BeginMerge, Merging, ReadRow, AddRow, EndMerge, runVars, clockVars
    <3>. QED
      BY <1>6, <3>1, <3>2, <3>3, <3>4 DEF Steps, Recording
  <2>. QED
    BY <1>1, <2>2, <2>3 DEF RoomOK, TimeLeft
<1>. QED
  BY <1>4, <1>5, <1>6

\* Only ReserveTime leads to SfpImpl.
LEMMA ProfileNext ==
  ASSUME TypeInv, NEW t \in Threads, Steps(t)
  PROVE  /\ pc'[t] = "profile" <=> ReserveTime(t)
         /\ pc[t] = "profile" <=> SfpImpl(t)
<1>1. pc \in [Threads -> PcLabels]
  BY DEF TypeInv, TypeOK
<1>2. CASE StartThread(t) \/ ControlStart(t) \/ ControlStop(t)
  BY <1>1, <1>2 DEF StartThread, ControlStart, ControlStop, Goto, ReserveTime, SfpImpl
<1>3. CASE BeforeTaskStart(t) \/ BeforeTaskEnd(t)
  BY <1>1, <1>3 DEF BeforeTaskStart, BeforeTaskEnd, Goto, ReserveTime, SfpImpl
<1>4. CASE RecordMem(t) \/ Recording(t)
  BY <1>1, <1>4 DEF RecordMem, Recording, LockAcquire, ReserveTime, SfpImpl, LockRelease, Goto
<1>5. CASE BeginMerge(t) \/ Merging(t)
  BY <1>1, <1>5 DEF BeginMerge, Merging, ReadRow, AddRow, EndMerge, Goto, ReserveTime, SfpImpl
<1>. QED
  BY <1>2, <1>3, <1>4, <1>5 DEF Steps

\* The list of a thread in SfpImpl is left alone by the others.
LEMMA OwnList ==
  ASSUME TypeInv, LockOK, RoomOK, TimeOK, ListOK, NEW t \in Threads, Steps(t),
         NEW u \in Threads, u # t, pc'[u] = "profile"
  PROVE  /\ pc[u] = "profile" /\ line'[u] = line[u] /\ tempN'[u] = tempN[u]
         /\ line[u] \in Lines /\ list'[line[u]] = list[line[u]]
<1>1. pc[u] = "profile" /\ line'[u] = line[u] /\ tempN'[u] = tempN[u] /\ line[u] \in Lines
  BY OthersKeep DEF TypeInv, TypeOK
<1>2. CASE SfpImpl(t)
  <2>1. pc[t] = "profile"
    BY <1>2 DEF SfpImpl, Goto
  <2>2. line[u] # line[t]
    BY <1>1, <2>1 DEF LockOK, Holds
  <2>. QED
    BY <1>1, <1>2, <2>2, SfpImplIs DEF Profiled
<1>3. CASE ~ SfpImpl(t)
  BY <1>1, <1>3, ClockMoves
<1>. QED
  BY <1>2, <1>3

\* The time of an access is read under the lock of its list, and so is later
\* than all times in it.
LEMMA TimeKept ==
  ASSUME TypeInv, LockOK, StartOK, RoomOK, TimeOK, ListOK, NEW t \in Threads, Steps(t)
  PROVE  TimeOK'
<1>1. /\ rdtsc \in Nat /\ gStartTime \in Nat /\ gStartTime <= rdtsc
      /\ rdtsc' \in Nat /\ gStartTime' \in Nat /\ gStartTime' <= rdtsc'
      /\ line \in [Threads -> Lines] /\ tempN \in [Threads -> Nat]
      /\ \A l \in Lines, e \in Tasks : list[l].time[e] \in Nat
  <2>1. rdtsc \in Nat /\ gStartTime \in 0 .. rdtsc
    BY DEF TypeInv, TypeOK
  <2>2. rdtsc' \in Nat /\ gStartTime' \in 0 .. rdtsc'
    BY <2>1, ClockMoves
  <2>3. \A l \in Lines, e \in Tasks : list[l].time[e] \in Nat
    <3>1. list \in [Lines -> TLists(Tasks)]
      BY DEF TypeInv, TypeOK
    <3>. QED
      BY <3>1 DEF TLists
  <2>4. line \in [Threads -> Lines] /\ tempN \in [Threads -> Nat]
    BY DEF TypeInv, TypeOK
  <2>. QED
    BY <2>1, <2>2, <2>3, <2>4
<1>2. CASE gStartTime' # gStartTime
  <2>1. gStartTime = 0
    BY <1>2, ClockMoves
  <2>2. \A u \in Threads : ~ Holds(u)
    BY <2>1 DEF StartOK
  <2>3. ~ SfpImpl(t) /\ ~ ReserveTime(t)
    BY <2>2 DEF SfpImpl, ReserveTime, Goto, Holds
  <2>4. \A l \in Lines, e \in Tasks : list'[l].time[e] = 0
    BY <2>1, <2>3, ClockMoves DEF StartOK
  <2>5. \A u \in Threads : pc'[u] # "profile"
    <3>1. pc'[t] # "profile"
      BY <2>3, ProfileNext
    <3>2. \A u \in Threads : u # t => pc'[u] # "profile"
      BY <2>2, OthersKeep DEF Holds
    <3>. QED
      BY <3>1, <3>2
  <2>. QED
    BY <1>1, <2>4, <2>5 DEF TimeOK, TimeOf
<1>3. CASE gStartTime' = gStartTime
  <2>1. PICK d \in Nat : d = rdtsc - gStartTime
    <3>1. rdtsc - gStartTime \in Nat
      BY <1>1
    <3>. QED
      BY <3>1
  <2>2. PICK e \in Nat : e = rdtsc' - gStartTime' /\ d <= e
    <3>1. rdtsc' = rdtsc \/ rdtsc' = rdtsc + 1
      BY ClockMoves
    <3>2. rdtsc' - gStartTime' = d \/ rdtsc' - gStartTime' = d + 1
      <4>1. rdtsc \in Nat /\ gStartTime \in Nat
        BY <1>1
      <4>. QED
        BY <1>3, <2>1, <3>1, <4>1
    <3>3. d \in Nat /\ d + 1 \in Nat /\ d <= d /\ d <= d + 1
      OBVIOUS
    <3>. QED
      BY <3>2, <3>3
  <2>3. d <= e
    BY <2>2
  <2>4. ASSUME NEW l \in Lines, NEW k \in Tasks PROVE list'[l].time[k] <= e
    <3>1. list[l].time[k] <= d /\ list[l].time[k] \in Nat
      BY <1>1, <2>1 DEF TimeOK
    <3>2. CASE SfpImpl(t) /\ l = line[t]
      <4>1. pc[t] = "profile"
        BY <3>2 DEF SfpImpl, Goto
      <4>2. tempN[t] <= d /\ tempN[t] \in Nat
        BY <1>1, <2>1, <4>1 DEF TimeOK, TimeOf
      <4>3. list'[l].time[k] = list[l].time[k] \/ list'[l].time[k] = tempN[t]
        BY <3>2, SfpImplIs DEF Profiled
      <4>. QED
        BY <2>3, <3>1, <4>2, <4>3
    <3>3. CASE ~ (SfpImpl(t) /\ l = line[t])
      <4>1. list'[l] = list[l]
        BY <3>3, SfpImplIs, ClockMoves DEF Profiled
      <4>. QED
        BY <2>3, <3>1, <4>1
    <3>. QED
      BY <3>2, <3>3
  <2>5. TimeOf(t)'
    <3>1. CASE ReserveTime(t)
      <4>1. rdtsc' = rdtsc + 1 /\ line' = line /\ list' = list
            /\ tempN' = [tempN EXCEPT ![t] = rdtsc + 1 - gStartTime]
        BY <3>1 DEF ReserveTime, ReadClock
      <4>2. tempN'[t] = d + 1 /\ e = d + 1
        BY <1>1, <1>3, <2>1, <2>2, <4>1
      <4>3. \A k \in Tasks : list'[line'[t]].time[k] < d + 1
        <5>1. \A k \in Tasks : list[line[t]].time[k] <= d /\ list[line[t]].time[k] \in Nat
          BY <1>1, <2>1 DEF TimeOK
        <5>. QED
          BY <4>1, <5>1
      <4>. QED
        BY <2>2, <4>2, <4>3 DEF TimeOf
    <3>2. CASE ~ ReserveTime(t)
      BY <3>2, ProfileNext DEF TimeOf
    <3>. QED
      BY <3>1, <3>2
  <2>6. ASSUME NEW u \in Threads, u # t PROVE TimeOf(u)'
    <3>1. CASE pc'[u] = "profile"
      <4>1. /\ pc[u] = "profile" /\ line'[u] = line[u] /\ tempN'[u] = tempN[u]
            /\ list'[line[u]] = list[line[u]]
        BY <2>6, <3>1, OwnList
      <4>2. tempN[u] \in 1 .. d /\ \A k \in Tasks : list[line[u]].time[k] < tempN[u]
        BY <2>1, <4>1 DEF TimeOK, TimeOf
      <4>3. tempN[u] \in 1 .. e
        BY <2>3, <4>2
      <4>. QED
        BY <2>2, <4>1, <4>2, <4>3 DEF TimeOf
    <3>2. CASE pc'[u] # "profile"
      BY <3>2 DEF TimeOf
    <3>. QED
      BY <3>1, <3>2
  <2>. QED
    BY <2>2, <2>4, <2>5, <2>6 DEF TimeOK
<1>. QED
  BY <1>2, <1>3

\* Only SfpImpl changes a list.
LEMMA ListKept ==
  ASSUME TypeInv, RoomOK, TimeOK, ListOK, NEW t \in Threads, Steps(t)
  PROVE  ListOK'
<1>1. ASSUME NEW l \in Lines PROVE \E J : SortedOver(list'[l], J)
  <2>1. CASE SfpImpl(t) /\ l = line[t]
    BY <2>1, SfpImplIs DEF Profiled
  <2>2. CASE ~ (SfpImpl(t) /\ l = line[t])
    <3>1. list'[l] = list[l]
      BY <2>2, SfpImplIs, ClockMoves DEF Profiled
    <3>. QED
      BY <3>1 DEF ListOK
  <2>. QED
    BY <2>1, <2>2
<1>. QED
  BY <1>1 DEF ListOK

\* An access is in the trace before it is in its list.
LEMMA TraceKept ==
  ASSUME TypeInv, RoomOK, TimeOK, ListOK, TraceOK, NEW t \in Threads, Steps(t)
  PROVE  TraceOK'
<1>1. /\ pc \in [Threads -> PcLabels] /\ line \in [Threads -> Lines]
      /\ tempN \in [Threads -> Nat] /\ \A a \in trace : a.line \in Lines
  BY DEF TypeInv, TypeOK
<1>2. ASSUME NEW u \in Threads, u # t
      PROVE  /\ pc'[u] = "profile" <=> pc[u] = "profile"
             /\ line'[u] = line[u] /\ tempN'[u] = tempN[u]
  BY <1>2, OthersKeep
<1>3. trace \subseteq trace'
  BY ClockMoves DEF ReserveTime
<1>4. ASSUME NEW u \in Threads, u # t PROVE TraceOf(u)'
  <2>1. CASE pc'[u] = "profile"
    <3>1. \E a \in trace : a.line = line[u] /\ a.time = tempN[u]
      BY <1>2, <1>4, <2>1 DEF TraceOK, TraceOf
    <3>. QED
      BY <1>2, <1>3, <1>4, <3>1 DEF TraceOf
  <2>2. CASE pc'[u] # "profile"
    BY <2>2 DEF TraceOf
  <2>. QED
    BY <2>1, <2>2
<1>5. CASE SfpImpl(t)
  <2>1. /\ trace' = trace /\ pc'[t] # "profile" /\ pc[t] = "profile"
    BY <1>1, <1>5, ClockMoves, ProfileNext DEF SfpImpl, Goto
  <2>2. PICK n : n = list'[line[t]]
    OBVIOUS
  <2>3. /\ n.head \in Tasks /\ n.time[n.head] = tempN[t]
        /\ \A l \in Lines : l # line[t] => list'[l] = list[l]
    BY <1>5, <2>2, SfpImplIs DEF Profiled
  <2>4. n.head # NIL
    BY <2>3, Constants
  <2>5. ASSUME NEW a \in trace
        PROVE  \/ list'[a.line].head # NIL
               \/ \E u \in Threads : pc'[u] = "profile" /\ line'[u] = a.line
    <3>1. CASE a.line = line[t]
      BY <2>2, <2>4, <3>1
    <3>2. CASE a.line # line[t] /\ list[a.line].head # NIL
      BY <1>1, <2>3, <2>5, <3>2
    <3>3. CASE a.line # line[t] /\ \E u \in Threads : pc[u] = "profile" /\ line[u] = a.line
      <4>1. PICK u \in Threads : pc[u] = "profile" /\ line[u] = a.line
        BY <3>3
      <4>2. u # t
        BY <3>3, <4>1
      <4>. QED
        BY <1>2, <4>1, <4>2
    <3>. QED
      BY <2>5, <3>1, <3>2, <3>3 DEF TraceOK
  <2>6. ASSUME NEW l \in Lines, list'[l].head # NIL
        PROVE  \E a \in trace : a.line = l /\ a.time = list'[l].time[list'[l].head]
    <3>1. CASE l = line[t]
      <4>1. \E a \in trace : a.line = line[t] /\ a.time = tempN[t]
        BY <2>1 DEF TraceOK, TraceOf
      <4>. QED
        BY <2>2, <2>3, <3>1, <4>1
    <3>2. CASE l # line[t]
      <4>1. list'[l] = list[l]
        BY <2>3, <3>2
      <4>. QED
        BY <2>6, <4>1 DEF TraceOK
    <3>. QED
      BY <3>1, <3>2
  <2>7. TraceOf(t)'
    BY <2>1 DEF TraceOf
  <2>. QED
    BY <1>4, <2>1, <2>5, <2>6, <2>7 DEF TraceOK
<1>6. CASE ~ SfpImpl(t)
  <2>1. list' = list /\ pc[t] # "profile"
    BY <1>6, ClockMoves, ProfileNext
  <2>2. ASSUME NEW a \in trace
        PROVE  \/ list'[a.line].head # NIL
               \/ \E u \in Threads : pc'[u] = "profile" /\ line'[u] = a.line
    <3>1. CASE list[a.line].head # NIL
      BY <2>1, <3>1
    <3>2. CASE \E u \in Threads : pc[u] = "profile" /\ line[u] = a.line
      <4>1. PICK u \in Threads : pc[u] = "profile" /\ line[u] = a.line
        BY <3>2
      <4>2. u # t
        BY <2>1, <4>1
      <4>. QED
        BY <1>2, <4>1, <4>2
    <3>. QED
      BY <2>2, <3>1, <3>2 DEF TraceOK
  <2>3. \A l \in Lines : list'[l].head # NIL =>
          \E a \in trace' : a.line = l /\ a.time = list'[l].time[list'[l].head]
    BY <1>3, <2>1 DEF TraceOK
  <2>4. CASE ReserveTime(t)
    <3>1. PICK a : a = [time |-> rdtsc + 1 - gStartTime, task |-> current_task[t],
                        line |-> line[t]]
      OBVIOUS
    <3>2. /\ trace' = trace \cup {a} /\ a.line = line[t] /\ a.time = tempN'[t]
          /\ line' = line /\ pc'[t] = "profile"
      BY <1>1, <2>4, <3>1 DEF ReserveTime, Goto
    <3>3. TraceOf(t)'
      BY <3>2 DEF TraceOf
    <3>4. \A b \in trace' : \/ list'[b.line].head # NIL
                            \/ \E u \in Threads : pc'[u] = "profile" /\ line'[u] = b.line
      BY <2>2, <3>2
    <3>. QED
      BY <1>4, <2>3, <3>3, <3>4 DEF TraceOK
  <2>5. CASE ~ ReserveTime(t)
    <3>1. trace' = trace /\ TraceOf(t)'
      BY <2>5, ClockMoves, ProfileNext DEF TraceOf
    <3>. QED
      BY <1>4, <2>2, <2>3, <3>1 DEF TraceOK
  <2>. QED
    BY <2>4, <2>5
<1>. QED
  BY <1>5, <1>6

\* So the clock and the lists are as they should whatever a thread does, ...
LEMMA ListsKept ==
  ASSUME TypeInv, LocksInv, ListsInv, NEW t \in Threads, Steps(t)
  PROVE  ListsInv'
BY StartKept, RoomKept, TimeKept, ListKept, TraceKept DEF ListsInv, LocksInv

\* ... while time goes by, ...
LEMMA TickLists == TypeInv /\ ListsInv /\ Tick => ListsInv'
<1>. SUFFICES ASSUME TypeInv, ListsInv, Tick PROVE ListsInv'
  OBVIOUS
<1>1. /\ UNCHANGED <<tls, pc, gStartTime, ev, list, line, tempN, trace>>
      /\ rdtsc' = rdtsc + 1 /\ TimeLeft
  BY DEF Tick, ReadClock, threadVars, accessVars
<1>2. /\ rdtsc \in Nat /\ gStartTime \in 0 .. rdtsc /\ MaxTime \in Nat
      /\ Cardinality(Untimed) \in Nat
  BY TimeBound, Constants DEF TypeInv, TypeOK, ListsInv
<1>3. StartOK' /\ ListOK' /\ TraceOK'
  BY <1>1 DEF ListsInv, StartOK, ListOK, TraceOK, TraceOf, Holds
<1>4. RoomOK'
  <2>1. Untimed' = Untimed
    BY <1>1 DEF Untimed
  <2>. QED
    BY <1>1, <1>2, <2>1 DEF RoomOK, TimeLeft
<1>5. TimeOK'
  <2>1. PICK d \in Nat : d = rdtsc - gStartTime
    BY <1>2
  <2>2. rdtsc' - gStartTime' = d + 1
    BY <1>1, <1>2, <2>1
  <2>3. ASSUME NEW l \in Lines, NEW e \in Tasks PROVE list'[l].time[e] <= d + 1
    <3>1. list[l].time[e] <= d /\ list[l].time[e] \in Nat
      BY <2>1 DEF ListsInv, TimeOK, TypeInv, TypeOK, TLists
    <3>. QED
      BY <1>1, <3>1
  <2>4. ASSUME NEW t \in Threads PROVE TimeOf(t)'
    <3>1. pc[t] = "profile" => tempN[t] \in 1 .. d
      BY <2>1 DEF ListsInv, TimeOK, TimeOf
    <3>2. pc[t] = "profile" => tempN[t] \in 1 .. d + 1
      BY <3>1
    <3>. QED
      BY <1>1, <2>2, <3>2 DEF ListsInv, TimeOK, TimeOf
  <2>. QED
    BY <2>2, <2>3, <2>4 DEF TimeOK
<1>. QED
  BY <1>3, <1>4, <1>5 DEF ListsInv

\* ... and when nothing happens.
LEMMA StillLists == ListsInv /\ UNCHANGED vars => ListsInv'
<1>. SUFFICES ASSUME ListsInv, UNCHANGED vars PROVE ListsInv'
  OBVIOUS
<1>1. UNCHANGED <<tls, pc, gStartTime, ev, list, line, tempN, trace, rdtsc>>
  BY DEF vars, runVars, threadVars, clockVars, accessVars
<1>2. Untimed' = Untimed
  BY <1>1 DEF Untimed
<1>. QED
  BY <1>1, <1>2
  DEF ListsInv, StartOK, RoomOK, TimeOK, TimeOf, ListOK, TraceOK, TraceOf, Holds

-----------------------------------------------------------------------------
(***************************************************************************)
(* The windows of a pillar: those that are counted, by a thread or in the  *)
(* global counts, are those before the last access of each line.           *)
(***************************************************************************)
\* The windows that thread t has still to add to the counts of pillar i ...
Pending(i) == [t \in Threads |-> IF t \in live /\ row[t] <= MAX_THREAD + i
                                 THEN WindowsOf(lstat[t].pillar[i]) ELSE 0]

\* ... and those that end before the last access of line l.
Begun(i) == [l \in Lines |-> Low(list[l], i)]

Counted(i) == WindowsOf(total.pillar[i]) + SumOf(Pending(i), Threads)

SumOK == \A i \in Pillars : Counted(i) = SumOf(Begun(i), Lines)

\* Rows have a number of windows, and two rows together have both numbers.
LEMMA WindowsAdd ==
  ASSUME NEW x \in PillarRows, NEW y \in PillarRows
  PROVE  /\ WindowsOf(x) \in Nat /\ WindowsOf(y) \in Nat
         /\ WindowsOf(Sum2(x, y)) = WindowsOf(x) + WindowsOf(y)
<1>1. PICK z : z = Sum2(x, y)
  OBVIOUS
<1>2. PICK S : S = SUBSET Tasks
  OBVIOUS
<1>3. x \in [S -> Nat] /\ y \in [S -> Nat] /\ z \in [S -> Nat] /\ IsFiniteSet(S)
  BY <1>1, <1>2, FiniteTasks DEF PillarRows, Sum2
<1>4. \A s \in S : /\ x[s] \in Int /\ x[s] \in Nat /\ y[s] \in Int /\ y[s] \in Nat
                   /\ z[s] = 1 * x[s] + 1 * y[s]
  <2>. TAKE s \in S
  <2>1. z[s] = x[s] + y[s]
    BY <1>1, <1>3 DEF Sum2
  <2>2. x[s] \in Nat /\ y[s] \in Nat
    BY <1>3
  <2>. QED
    BY <2>1, <2>2
<1>5. SumOf(x, S) \in Nat /\ SumOf(y, S) \in Nat
  BY <1>3, <1>4, SumType
<1>6. SumOf(z, S) = 1 * SumOf(x, S) + 1 * SumOf(y, S)
  <2>1. 1 \in Int
    OBVIOUS
  <2>. QED
    BY <1>3, <1>4, <2>1, SumLinear
<1>. QED
  BY <1>1, <1>2, <1>5, <1>6 DEF WindowsOf

\* A row without a window.
LEMMA NoWindows == WindowsOf(NoPillar) = 0
<1>1. \A s \in SUBSET Tasks : NoPillar[s] = 0
  BY DEF NoPillar
<1>. QED
  BY <1>1, FiniteTasks, SumZero DEF WindowsOf

\* Every pillar of the counts has a number of windows.
LEMMA CountsWindows ==
  ASSUME NEW i \in Pillars
  PROVE  \A c \in CountRecords : WindowsOf(c.pillar[i]) \in Nat
<1>1. \A c \in CountRecords : c.pillar[i] \in PillarRows
  BY DEF CountRecords
<1>. QED
  BY <1>1, WindowsAdd

\* The types of the parts of the sum.
LEMMA PendingType ==
  ASSUME TypeInv, NEW i \in Pillars
  PROVE  /\ Pending(i) \in [Threads -> Nat] /\ Begun(i) \in [Lines -> Nat]
         /\ SumOf(Pending(i), Threads) \in Nat /\ SumOf(Begun(i), Lines) \in Nat
         /\ WindowsOf(total.pillar[i]) \in Nat
<1>1. \A c \in CountRecords : WindowsOf(c.pillar[i]) \in Nat
  BY CountsWindows
<1>2. Pending(i) \in [Threads -> Nat]
  BY <1>1 DEF Pending, TypeInv, TypeOK
<1>3. Begun(i) \in [Lines -> Nat]
  BY LowType DEF Begun, TypeInv, TypeOK
<1>4. PICK p \in [Threads -> Nat], b \in [Lines -> Nat] : p = Pending(i) /\ b = Begun(i)
  BY <1>2, <1>3
<1>5. SumOf(p, Threads) \in Nat /\ SumOf(b, Lines) \in Nat
  <2>1. /\ \A t \in Threads : p[t] \in Int /\ p[t] \in Nat
        /\ \A l \in Lines : b[l] \in Int /\ b[l] \in Nat
    OBVIOUS
  <2>. QED
    BY <2>1, FiniteTasks, SumType
<1>6. WindowsOf(total.pillar[i]) \in Nat
  BY <1>1 DEF TypeInv, TypeOK
<1>. QED
  BY <1>2, <1>3, <1>4, <1>5, <1>6

\* All are 0 at first.
LEMMA InitSum == Init => SumOK
<1>. SUFFICES ASSUME Init, NEW i \in Pillars PROVE Counted(i) = SumOf(Begun(i), Lines)
  BY DEF SumOK
<1>1. TypeInv
  BY InitTypeInv
<1>2. WindowsOf(total.pillar[i]) = 0
  BY NoWindows DEF Init, NoCounts
<1>3. PICK p, b : p = Pending(i) /\ b = Begun(i)
  OBVIOUS
<1>4. \A t \in Threads : p[t] = 0
  BY <1>3 DEF Pending, Init, ThreadInit
<1>5. \A l \in Lines : b[l] = 0
  BY <1>3 DEF Begun, Init, TList, Low
<1>6. SumOf(p, Threads) = 0 /\ SumOf(b, Lines) = 0
  BY <1>4, <1>5, FiniteTasks, SumZero
<1>. QED
  BY <1>2, <1>3, <1>6 DEF Counted

\* A step of a thread changes its own part of the sum only.
LEMMA PendingMoves ==
  ASSUME TypeInv, NEW t \in Threads, Steps(t), NEW i \in Pillars
  PROVE  SumOf(Pending(i)', Threads) = SumOf(Pending(i), Threads)
                                         + (Pending(i)'[t] - Pending(i)[t])
<1>1. TypeInv'
  BY StepsType
<1>2. Pending(i) \in [Threads -> Nat] /\ Pending(i)' \in [Threads -> Nat]
  <2>1. \A c \in CountRecords : WindowsOf(c.pillar[i]) \in Nat
    BY CountsWindows
  <2>2. Pending(i)' \in [Threads -> Nat]
    BY <1>1, <2>1 DEF Pending, TypeInv, TypeOK
  <2>. QED
    BY <2>2, PendingType
<1>3. ASSUME NEW u \in Threads, u # t PROVE Pending(i)'[u] = Pending(i)[u]
  <2>1. row'[u] = row[u] /\ lstat'[u] = lstat[u] /\ (u \in live' <=> u \in live)
    BY <1>3, OthersKeep
  <2>. QED
    BY <2>1 DEF Pending
<1>4. PICK p \in [Threads -> Nat], q \in [Threads -> Nat] : p = Pending(i) /\ q = Pending(i)'
  BY <1>2
<1>5. PICK d \in Int : d = q[t] - p[t]
  OBVIOUS
<1>6. \A u \in Threads : p[u] \in Int /\ q[u] = IF u = t THEN p[u] + d ELSE p[u]
  BY <1>3, <1>4, <1>5
<1>7. SumOf(q, Threads) = SumOf(p, Threads) + d
  BY <1>6, FiniteTasks, SumChange
<1>. QED
  BY <1>4, <1>5, <1>7

\* An access adds its windows to the counts of its thread, and its line has as
\* many more before its last access.
LEMMA SfpImplSum ==
  ASSUME TypeInv, LocksInv, ListsInv, NEW t \in Threads, SfpImpl(t), NEW i \in Pillars
  PROVE  \E c \in Nat :
           /\ Pending(i)'[t] = Pending(i)[t] + c
           /\ SumOf(Begun(i)', Lines) = SumOf(Begun(i), Lines) + c
<1>1. PICK k \in Lines : k = line[t]
  BY DEF TypeInv, TypeOK
<1>2. PICK s \in TLists(Tasks) : s = list[k]
  BY DEF TypeInv, TypeOK
<1>3. TypeInv'
  BY StepsType DEF Steps, Recording
<1>4. PICK n \in TLists(Tasks) : n = list'[k]
  BY <1>3 DEF TypeInv, TypeOK
<1>5. PICK pos \in Nat : pos = tempN[t]
  BY DEF TypeInv, TypeOK
<1>6. Profiled(t, s, n)
  BY <1>1, <1>2, <1>4, SfpImplIs DEF ListsInv
<1>7. PICK len \in Nat : len = gPillarLengths(i)
  BY PillarsAscend
<1>8. s.head # NIL => s.time[s.head] < pos /\ s.time[s.head] \in Nat
  <2>1. pc[t] = "profile"
    BY DEF SfpImpl, Goto
  <2>2. \A e \in Tasks : s.time[e] < pos
    BY <1>1, <1>2, <1>5, <2>1 DEF ListsInv, TimeOK, TimeOf
  <2>. QED
    BY <2>2 DEF TLists
<1>9. PICK a \in Nat : a = Low(s, i)
  BY LowType
<1>10. a = IF s.head = NIL THEN 0
           ELSE IF s.time[s.head] > len THEN s.time[s.head] - len ELSE 0
  BY <1>7, <1>9, LowType
<1>11. Low(n, i) = IF pos > len THEN pos - len ELSE 0
  <2>1. n.head # NIL /\ n.time[n.head] = pos
    BY <1>5, <1>6, Constants DEF Profiled
  <2>. QED
    BY <1>7, <2>1, LowType
<1>12. PICK c \in Nat : c = Closed(s, pos, i) /\ Low(n, i) = a + c
  <2>1. CASE len < pos
    <3>1. Closed(s, pos, i) = pos - len - a
      BY <1>7, <1>9, <2>1 DEF Closed
    <3>2. a <= pos - len
      <4>1. CASE s.head = NIL
        BY <1>10, <2>1, <4>1
      <4>2. CASE s.head # NIL
        <5>1. PICK b \in Nat : b = s.time[s.head] /\ b < pos
          BY <1>8, <4>2
        <5>2. a = IF b > len THEN b - len ELSE 0
          BY <1>10, <4>2, <5>1
        <5>. QED
          BY <2>1, <5>1, <5>2
      <4>. QED
        BY <4>1, <4>2
    <3>3. Low(n, i) = pos - len
      BY <1>11, <2>1
    <3>4. pos - len - a \in Nat /\ a + (pos - len - a) = pos - len
      BY <3>2
    <3>. QED
      BY <3>1, <3>3, <3>4
  <2>2. CASE ~ (len < pos)
    <3>1. Closed(s, pos, i) = 0
      BY <1>7, <2>2 DEF Closed
    <3>2. Low(n, i) = 0
      BY <1>11, <2>2
    <3>3. a = 0
      <4>1. CASE s.head = NIL
        BY <1>10, <4>1
      <4>2. CASE s.head # NIL
        <5>1. PICK b \in Nat : b = s.time[s.head] /\ b < pos
          BY <1>8, <4>2
        <5>2. a = IF b > len THEN b - len ELSE 0
          BY <1>10, <4>2, <5>1
        <5>. QED
          BY <2>2, <5>1, <5>2
      <4>. QED
        BY <4>1, <4>2
    <3>. QED
      BY <3>1, <3>2, <3>3
  <2>. QED
    BY <2>1, <2>2
<1>13. Pending(i)'[t] = Pending(i)[t] + c
  <2>1. t \in live /\ row[t] = 0 /\ live' = live /\ row' = row
    BY DEF SfpImpl, Goto, LocksInv, RowOK, runVars, threadVars, mergeVars
  <2>2. 0 <= MAX_THREAD + i
    BY Constants DEF Pillars
  <2>3. /\ Pending(i)[t] = WindowsOf(lstat[t].pillar[i])
        /\ Pending(i)'[t] = WindowsOf(lstat'[t].pillar[i])
    BY <2>1, <2>2 DEF Pending
  <2>4. WindowsOf(lstat'[t].pillar[i]) = WindowsOf(lstat[t].pillar[i]) + Closed(s, tempN[t], i)
    BY <1>6 DEF Profiled
  <2>. QED
    BY <1>5, <1>12, <2>3, <2>4
<1>14. SumOf(Begun(i)', Lines) = SumOf(Begun(i), Lines) + c
  <2>1. PICK f, g : f = Begun(i) /\ g = Begun(i)'
    OBVIOUS
  <2>2. \A l \in Lines : f[l] \in Int
    BY <2>1, PendingType
  <2>3. ASSUME NEW l \in Lines PROVE g[l] = IF l = k THEN f[l] + c ELSE f[l]
    <3>1. f[l] = Low(list[l], i) /\ g[l] = Low(list'[l], i)
      BY <2>1 DEF Begun, Low
    <3>2. CASE l = k
      BY <1>2, <1>4, <1>9, <1>12, <3>1, <3>2
    <3>3. CASE l # k
      <4>1. list'[l] = list[l]
        BY <1>1, <1>6, <3>3 DEF Profiled
      <4>. QED
        BY <3>1, <3>3, <4>1
    <3>. QED
      BY <3>2, <3>3
  <2>4. c \in Int
    OBVIOUS
  <2>5. SumOf(g, Lines) = SumOf(f, Lines) + c
    BY <2>2, <2>3, <2>4, FiniteTasks, SumChange
  <2>. QED
    BY <2>1, <2>5
<1>. QED
  BY <1>13, <1>14

\* A thread that adds a row of its counts has no more to add there, and only
\* there.
LEMMA AddRowSum ==
  ASSUME TypeInv, LocksInv, NEW t \in Threads, AddRow(t), NEW i \in Pillars
  PROVE  WindowsOf(total'.pillar[i]) + Pending(i)'[t]
           = WindowsOf(total.pillar[i]) + Pending(i)[t]
<1>1. PICK r \in Rows : r = row[t]
  BY DEF AddRow, Goto, TypeInv, AddsRow
<1>2. PICK c \in CountRecords : c = lstat[t]
  BY DEF TypeInv, TypeOK
<1>3. PICK d \in CountRecords : d = total
  BY DEF TypeInv, TypeOK
<1>4. /\ pc[t] = "add" /\ pc \in [Threads -> PcLabels]
      /\ row \in [Threads -> 0 .. MAX_THREAD + MAX_PILLARS]
  BY DEF AddRow, Goto, TypeInv, TypeOK
<1>5. sum[t] = Row(d, r)
  BY <1>1, <1>3, <1>4 DEF LocksInv, AddOK, AddOf
<1>6. /\ total' = WithRow(d, r, RowSum(r, Row(d, r), Row(c, r)))
      /\ row' = [row EXCEPT ![t] = r + 1] /\ lstat' = lstat /\ live' = live
  BY <1>1, <1>2, <1>3, <1>5 DEF AddRow, runVars, threadVars
<1>7. t \in live
  BY <1>4 DEF LocksInv, RowOK
<1>8. row'[t] = r + 1 /\ r \in Nat
  BY <1>4, <1>6, RowsSplit
<1>9. \E x : x \in RowType(r)
  BY NoCountsType DEF RowType
<1>10. PICK x \in RowType(r), y \in RowType(r) : x = Row(d, r) /\ y = Row(c, r)
  BY <1>9, RowIs
<1>11. PICK v \in RowType(r) : v = RowSum(r, x, y)
  BY RowSumType
<1>12. total' = WithRow(d, r, v)
  BY <1>6, <1>10, <1>11
<1>13. /\ Pending(i)[t] = IF r <= MAX_THREAD + i THEN WindowsOf(c.pillar[i]) ELSE 0
       /\ Pending(i)'[t] = IF r + 1 <= MAX_THREAD + i THEN WindowsOf(c.pillar[i]) ELSE 0
  BY <1>1, <1>2, <1>6, <1>7, <1>8 DEF Pending
<1>14. i \in Nat /\ MAX_THREAD \in Nat
  BY Constants DEF Pillars
<1>15. CASE r < MAX_THREAD
  <2>1. total'.pillar = d.pillar
    BY <1>12, <1>15, RowIs
  <2>2. r <= MAX_THREAD + i /\ r + 1 <= MAX_THREAD + i
    BY <1>8, <1>14, <1>15
  <2>. QED
    BY <1>3, <1>13, <2>1, <2>2
<1>16. CASE ~ (r < MAX_THREAD)
  <2>1. PICK j \in Pillars : j = r - MAX_THREAD
    BY <1>16, RowsSplit
  <2>2. j \in Nat /\ r = MAX_THREAD + j
    BY <1>8, <1>14, <2>1 DEF Pillars
  <2>3. total'.pillar[i] = IF i = j THEN v ELSE d.pillar[i]
    <3>1. \A k \in Pillars : WithRow(d, r, v).pillar[k] =
                             IF k = r - MAX_THREAD THEN v ELSE d.pillar[k]
      BY <1>16, RowIs
    <3>. QED
      BY <1>12, <2>1, <3>1
  <2>4. CASE i = j
    <3>1. x = d.pillar[i] /\ y = c.pillar[i] /\ v = Sum2(x, y)
      BY <1>10, <1>11, <1>16, <2>1, <2>4 DEF Row, RowSum
    <3>2. x \in PillarRows /\ y \in PillarRows
      BY <1>10, <1>16 DEF RowType
    <3>3. /\ WindowsOf(x) \in Nat /\ WindowsOf(y) \in Nat
          /\ WindowsOf(v) = WindowsOf(x) + WindowsOf(y)
      BY <3>1, <3>2, WindowsAdd
    <3>4. r <= MAX_THREAD + i /\ ~ (r + 1 <= MAX_THREAD + i)
      BY <1>14, <2>2, <2>4
    <3>. QED
      BY <1>3, <1>13, <2>3, <2>4, <3>1, <3>3, <3>4
  <2>5. CASE i # j
    <3>1. r <= MAX_THREAD + i <=> r + 1 <= MAX_THREAD + i
      BY <1>14, <2>2, <2>5
    <3>. QED
      BY <1>3, <1>13, <2>3, <2>5, <3>1
  <2>. QED
    BY <2>4, <2>5
<1>. QED
  BY <1>15, <1>16

\* Nothing else that a thread does changes its part of the sum.
LEMMA OtherSum ==
  ASSUME TypeInv, LocksInv, NEW t \in Threads, Steps(t), ~ SfpImpl(t), ~ AddRow(t),
         NEW i \in Pillars
  PROVE  Pending(i)'[t] = Pending(i)[t] /\ total' = total
<1>1. CASE StartThread(t)
  <2>1. t \notin live
    BY <1>1 DEF StartThread, ThreadStart, MayStart
  <2>2. Pending(i)[t] = 0
    BY <2>1 DEF Pending
  <2>3. lstat'[t] = NoCounts
    BY <1>1 DEF StartThread, TypeInv, TypeOK
  <2>4. WindowsOf(lstat'[t].pillar[i]) = 0
    BY <2>3, NoWindows DEF NoCounts
  <2>5. Pending(i)'[t] = 0
    BY <2>4 DEF Pending
  <2>. QED
    BY <1>1, <2>2, <2>5 DEF StartThread, mergeVars
<1>2. CASE EndMerge(t)
  <2>1. row[t] \notin Rows /\ row[t] \in 0 .. MAX_THREAD + MAX_PILLARS
    BY <1>2 DEF EndMerge, TypeInv, TypeOK
  <2>2. ~ (row[t] <= MAX_THREAD + i)
    BY <2>1, Constants DEF Rows, Pillars
  <2>3. t \notin live'
    BY <1>2 DEF EndMerge, ThreadFini
  <2>4. Pending(i)[t] = 0 /\ Pending(i)'[t] = 0
    BY <2>2, <2>3 DEF Pending
  <2>. QED
    BY <1>2, <2>4 DEF EndMerge
<1>3. CASE ~ StartThread(t) /\ ~ EndMerge(t)
  <2>1. UNCHANGED <<live, row, lstat, total>>
    <3>1. CASE ControlStart(t) \/ ControlStop(t)
      BY <3>1 DEF ControlStart, ControlStop, activate, deactivate, mergeVars
    <3>2. CASE BeforeTaskStart(t) \/ BeforeTaskEnd(t)
      BY <3>2 DEF BeforeTaskStart, BeforeTaskEnd, threadVars, mergeVars
    <3>3. CASE RecordMem(t) \/ LockAcquire(t) \/ ReserveTime(t) \/ LockRelease(t)
      BY <3>3 DEF RecordMem, LockAcquire, ReserveTime, LockRelease, runVars, threadVars, mergeVars
    <3>4. CASE BeginMerge(t) \/ ReadRow(t)
      BY <3>4 DEF BeginMerge, ReadRow, runVars, threadVars, mergeVars
    <3>. QED
      BY <1>3, <3>1, <3>2, <3>3, <3>4 DEF Steps, Recording, Merging
  <2>. QED
    BY <2>1 DEF Pending
<1>. QED
  BY <1>1, <1>2, <1>3

\* So no step of a thread loses a window or counts one twice.
LEMMA SumKept ==
  ASSUME TypeInv, LocksInv, ListsInv, SumOK, NEW t \in Threads, Steps(t)
  PROVE  SumOK'
<1>. SUFFICES ASSUME NEW i \in Pillars PROVE (Counted(i) = SumOf(Begun(i), Lines))'
  BY DEF SumOK
<1>1. TypeInv'
  BY StepsType
<1>2. PICK w \in Nat, p \in Nat, b \in Nat :
           w = WindowsOf(total.pillar[i]) /\ p = SumOf(Pending(i), Threads)
             /\ b = SumOf(Begun(i), Lines)
  BY PendingType
<1>3. w + p = b
  BY <1>2 DEF SumOK, Counted
<1>4. PICK x \in Nat, y \in Nat : x = Pending(i)[t] /\ y = Pending(i)'[t]
  <2>1. \A c \in CountRecords : WindowsOf(c.pillar[i]) \in Nat
    BY CountsWindows
  <2>2. Pending(i)'[t] \in Nat
    BY <1>1, <2>1 DEF Pending, TypeInv, TypeOK
  <2>3. Pending(i)[t] \in Nat
    BY PendingType
  <2>. QED
    BY <2>2, <2>3
<1>5. SumOf(Pending(i)', Threads) = p + (y - x)
  BY <1>2, <1>4, PendingMoves
<1>6. WindowsOf(total'.pillar[i]) + SumOf(Pending(i)', Threads) = SumOf(Begun(i)', Lines)
  <2>1. CASE SfpImpl(t)
    <3>1. PICK c \in Nat : y = x + c /\ SumOf(Begun(i)', Lines) = b + c
      BY <1>2, <1>4, <2>1, SfpImplSum
    <3>2. total' = total
      BY <2>1 DEF SfpImpl, mergeVars
    <3>. QED
      BY <1>2, <1>3, <1>5, <3>1, <3>2
  <2>2. CASE ~ SfpImpl(t)
    <3>1. SumOf(Begun(i)', Lines) = b
      <4>1. list' = list
        BY <2>2, ClockMoves
      <4>2. Begun(i)' = Begun(i)
        BY <4>1 DEF Begun, Low
      <4>. QED
        BY <1>2, <4>2
    <3>2. CASE AddRow(t)
      <4>1. PICK z \in Nat : z = WindowsOf(total'.pillar[i])
        BY <1>1, CountsWindows DEF TypeInv, TypeOK
      <4>2. z + y = w + x
        <5>1. WindowsOf(total'.pillar[i]) + Pending(i)'[t]
                = WindowsOf(total.pillar[i]) + Pending(i)[t]
          BY <3>2, AddRowSum
        <5>. QED
          BY <1>2, <1>4, <4>1, <5>1
      <4>3. z + (p + (y - x)) = b
        BY <1>3, <4>2
      <4>. QED
        BY <1>5, <3>1, <4>1, <4>3
    <3>3. CASE ~ AddRow(t)
      BY <1>2, <1>3, <1>4, <1>5, <2>2, <3>1, <3>3, OtherSum
    <3>. QED
      BY <3>2, <3>3
  <2>. QED
    BY <2>1, <2>2
<1>. QED
  BY <1>6 DEF Counted

-----------------------------------------------------------------------------
(***************************************************************************)
(* The end of the run.                                                     *)
(***************************************************************************)
\* The windows that the end of the trace closes in every line.
Rest(pos, i) == [l \in Lines |-> IF list[l].head = NIL THEN 0 ELSE Closed(list[l], pos, i)]

\* CollectLastAccesses adds them to the counts.
LEMMA RestAdded ==
  ASSUME TypeInv, ListOK, NEW n \in Nat, NEW pos \in Nat, pos = n + 1, pos < 2 ^ WordBits,
         \A l \in Lines : list[l].head # NIL => list[l].time[list[l].head] < pos,
         NEW h, Collects(h, n), NEW i \in Pillars
  PROVE  /\ Rest(pos, i) \in [Lines -> Int]
         /\ WindowsOf(h[NumLines].pillar[i]) = WindowsOf(total.pillar[i]) + SumOf(Rest(pos, i), Lines)
<1>1. list \in [Lines -> TLists(Tasks)] /\ total \in CountRecords
  BY DEF TypeInv, TypeOK
<1>2. \A s \in TLists(Tasks) : Closed(s, pos, i) \in Int
  <2>. TAKE s \in TLists(Tasks)
  <2>1. PICK len \in Nat, a \in Nat : len = gPillarLengths(i) /\ a = Low(s, i)
    BY PillarsAscend, LowType
  <2>2. pos - len - a \in Int
    OBVIOUS
  <2>. QED
    BY <2>1, <2>2 DEF Closed
<1>3. PICK E : E = Rest(pos, i)
  OBVIOUS
<1>4. E \in [Lines -> Int]
  <2>1. \A l \in Lines : (IF list[l].head = NIL THEN 0 ELSE Closed(list[l], pos, i)) \in Int
    BY <1>1, <1>2
  <2>. QED
    BY <1>3, <2>1 DEF Rest
<1>5. Wrap(n + 1) = pos
  <2>1. pos \in 0 .. 2 ^ WordBits - 1
    BY Constants
  <2>. QED
    BY <2>1, WrapIs
<1>6. PICK m \in Nat : m = NumLines
  BY Constants
<1>7. ASSUME NEW l \in Lines, NEW counts \in CountRecords
      PROVE  WindowsOf(CollectLine(counts, l, n).pillar[i]) = WindowsOf(counts.pillar[i]) + E[l]
  <2>1. PICK s \in TLists(Tasks) : s = list[l]
    BY <1>1
  <2>2. PICK c : c = CollectLine(counts, l, n)
    OBVIOUS
  <2>3. /\ c \in CountRecords
        /\ list[l].head = NIL => c = counts
        /\ list[l].head # NIL => EndWalks(l, n, counts, c)
    BY <1>1, <2>2, CollectLineIs
  <2>4. CASE s.head = NIL
    <3>1. c = counts /\ E[l] = 0
      BY <1>3, <2>1, <2>3, <2>4 DEF Rest
    <3>2. WindowsOf(counts.pillar[i]) \in Nat
      BY CountsWindows
    <3>. QED
      BY <2>2, <3>1, <3>2
  <2>5. CASE s.head # NIL
    <3>1. PICK I : SortedOver(s, I)
      BY <2>1 DEF ListOK
    <3>2. s.time[s.head] < pos
      BY <2>1, <2>5
    <3>3. PICK rows \in PillarTables : rows = counts.pillar
      BY DEF CountRecords, PillarTables
    <3>4. PICK trims : trims = FALSE
      OBVIOUS
    <3>5. PICK p : p = PillarWalks(s, pos, rows, trims)
      OBVIOUS
    <3>6. /\ p.list.head = s.head /\ p.list.time = s.time /\ SortedOver(p.list, I)
          /\ \A j \in Pillars : WindowsOf(p.counts[j]) = WindowsOf(rows[j]) + Closed(s, pos, j)
      BY <3>1, <3>2, <3>5, WalksExact
    <3>7. c.pillar = p.counts
      BY <1>5, <2>1, <2>3, <2>5, <3>3, <3>4, <3>5 DEF EndWalks
    <3>8. E[l] = Closed(s, pos, i)
      BY <1>3, <2>1, <2>5 DEF Rest
    <3>. QED
      BY <2>2, <3>3, <3>6, <3>7, <3>8
  <2>. QED
    BY <2>4, <2>5
<1>8. \A l \in 1 .. m : l - 1 \in Lines
  BY <1>6 DEF Lines
<1>9. /\ \A l \in 0 .. m : h[l] \in CountRecords
      /\ h[0] = total
      /\ \A l \in 1 .. m : h[l] = CollectLine(h[l - 1], l - 1, n)
  BY <1>6 DEF Collects
<1>10. PICK w \in [0 .. m -> Nat] : \A l \in 0 .. m : w[l] = WindowsOf(h[l].pillar[i])
  <2>1. \A l \in 0 .. m : WindowsOf(h[l].pillar[i]) \in Nat
    BY <1>9, CountsWindows
  <2>2. PICK w : w = [l \in 0 .. m |-> WindowsOf(h[l].pillar[i])]
    OBVIOUS
  <2>. QED
    BY <2>1, <2>2
<1>11. \A l \in 1 .. m : w[l] = w[l - 1] + E[l - 1]
  <2>. TAKE l \in 1 .. m
  <2>1. l - 1 \in 0 .. m /\ l \in 0 .. m /\ l - 1 \in Lines
    BY <1>8
  <2>2. PICK k \in Lines : k = l - 1
    BY <2>1
  <2>3. WindowsOf(h[l].pillar[i]) = WindowsOf(h[k].pillar[i]) + E[k]
    BY <1>7, <1>9, <2>1, <2>2
  <2>. QED
    BY <1>10, <2>1, <2>2, <2>3
<1>12. PICK Good : Good = {l \in 0 .. m : w[l] = w[0] + SumOf(E, 0 .. l - 1)}
  OBVIOUS
<1>13. 0 \in Good
  <2>1. 0 .. 0 - 1 = {}
    OBVIOUS
  <2>2. SumOf(E, 0 .. 0 - 1) = 0
    BY <2>1, FS_EmptySet, SumStep
  <2>3. 0 \in 0 .. m
    OBVIOUS
  <2>. QED
    BY <1>12, <2>2, <2>3
<1>14. ASSUME NEW l \in 1 .. m, l - 1 \in Good PROVE l \in Good
  <2>1. PICK k \in Nat : k = l - 1
    OBVIOUS
  <2>2. PICK S : S = 0 .. l - 1
    OBVIOUS
  <2>3. IsFiniteSet(S) /\ k \in S /\ S \subseteq Lines /\ S \ {k} = 0 .. k - 1
    <3>1. 0 \in Int /\ l - 1 \in Int
      OBVIOUS
    <3>2. IsFiniteSet(S)
      BY <2>2, <3>1, FS_Interval
    <3>3. S \subseteq Lines
      BY <1>6, <2>2 DEF Lines
    <3>. QED
      BY <2>1, <2>2, <3>2, <3>3
  <2>4. SumOf(E, S) = E[k] + SumOf(E, S \ {k})
    <3>1. \A y \in S : E[y] \in Int
      BY <1>4, <2>3
    <3>. QED
      BY <2>3, <3>1, SumAdds
  <2>5. PICK r \in Int, e \in Int : r = SumOf(E, S \ {k}) /\ e = E[k]
    <3>1. \A y \in S \ {k} : E[y] \in Int
      BY <1>4, <2>3
    <3>2. IsFiniteSet(S \ {k})
      BY <2>3, FS_Subset
    <3>3. SumOf(E, S \ {k}) \in Int
      BY <3>1, <3>2, SumType
    <3>. QED
      BY <1>4, <2>3, <3>3
  <2>6. w[k] = w[0] + r
    BY <1>12, <1>14, <2>1, <2>3, <2>5
  <2>7. w[l] = w[k] + e
    BY <1>11, <2>1, <2>5
  <2>8. w[0] \in Nat
    BY <1>10
  <2>9. w[l] = w[0] + SumOf(E, S)
    BY <2>4, <2>5, <2>6, <2>7, <2>8
  <2>10. l \in 0 .. m
    OBVIOUS
  <2>. QED
    BY <1>12, <2>2, <2>9, <2>10
<1>15. m \in Good
  <2>1. m \in 0 .. m
    OBVIOUS
  <2>. QED
    BY <1>13, <1>14, <2>1, AllTurns
<1>16. w[m] = w[0] + SumOf(E, Lines)
  BY <1>6, <1>12, <1>15 DEF Lines
<1>17. w[m] = WindowsOf(h[m].pillar[i]) /\ w[0] = WindowsOf(h[0].pillar[i])
  BY <1>10
<1>. QED
  BY <1>3, <1>4, <1>6, <1>9, <1>16, <1>17

\* Time that goes by changes no part of the sum.
LEMMA StillSum == SumOK /\ (Tick \/ UNCHANGED vars) => SumOK'
<1>. SUFFICES ASSUME SumOK, Tick \/ UNCHANGED vars PROVE SumOK'
  OBVIOUS
<1>1. UNCHANGED <<live, row, lstat, total, list>>
  BY DEF Tick, vars, runVars, threadVars, accessVars, mergeVars
<1>. SUFFICES ASSUME NEW i \in Pillars PROVE (Counted(i) = SumOf(Begun(i), Lines))'
  BY DEF SumOK
<1>2. Pending(i)' = Pending(i)
  BY <1>1 DEF Pending
<1>3. Begun(i)' = Begun(i)
  BY <1>1 DEF Begun, Low
<1>4. Counted(i) = SumOf(Begun(i), Lines)
  BY DEF SumOK
<1>. QED
  BY <1>1, <1>2, <1>3, <1>4 DEF Counted

\* The trace ends after all its accesses, at a time that a word holds.
LEMMA EndTimes ==
  ASSUME TypeInv, ListsInv, Fini, EndsLast'
  PROVE  /\ N' \in Nat /\ N' + 1 < 2 ^ WordBits
         /\ \A l \in Lines : list[l].head # NIL => list[l].time[list[l].head] < N' + 1
<1>1. PICK g \in Nat, e \in Nat, r \in Nat, x \in Nat, w \in Nat :
           g = gStartTime /\ e = gEndTime' /\ r = rdtsc /\ x = MaxTime /\ w = 2 ^ WordBits
  <2>1. TypeInv'
    BY FiniType
  <2>2. rdtsc \in Nat /\ rdtsc' \in Nat
    BY <2>1 DEF TypeInv, TypeOK
  <2>3. gEndTime' \in 0 .. rdtsc'
    BY <2>1 DEF TypeInv, TypeOK
  <2>4. gEndTime' \in Nat
    BY <2>2, <2>3
  <2>5. gStartTime \in 0 .. rdtsc
    BY DEF TypeInv, TypeOK
  <2>6. gStartTime \in Nat
    BY <2>2, <2>5
  <2>. QED
    BY <2>2, <2>4, <2>6, Constants
<1>2. g < e /\ \A a \in trace : g + a.time <= e
  BY <1>1 DEF EndsLast, Fini, accessVars
<1>3. x <= w - 2 /\ r <= x
  BY <1>1, Constants, TimeBound DEF ListsInv
<1>4. e - g <= x
  <2>1. CASE ev = "start"
    <3>1. g # 0
      BY <1>1, <2>1 DEF ListsInv, StartOK
    <3>2. e = r + 1
      BY <1>1, <2>1 DEF Fini
    <3>. QED
      BY <1>3, <3>1, <3>2
  <2>2. CASE ev # "start"
    <3>1. gEndTime' = gEndTime
      BY <2>2 DEF Fini
    <3>2. gEndTime \in 0 .. rdtsc
      BY DEF TypeInv, TypeOK
    <3>3. e <= r
      BY <1>1, <3>1, <3>2
    <3>. QED
      BY <1>3, <3>3
  <2>. QED
    BY <2>1, <2>2
<1>5. N' = e - g
  <2>1. N' = Wrap(e - g)
    BY <1>1 DEF Fini
  <2>2. e - g \in Int /\ e - g \in 0 .. w - 1
    BY <1>2, <1>3, <1>4
  <2>. QED
    BY <1>1, <2>1, <2>2, WrapIs
<1>6. N' \in Nat /\ N' + 1 < 2 ^ WordBits
  <2>1. PICK q \in Nat : q = e - g
    BY <1>2
  <2>2. q + 1 < w
    BY <1>3, <1>4, <2>1
  <2>. QED
    BY <1>1, <1>5, <2>1, <2>2
<1>7. ASSUME NEW l \in Lines, list[l].head # NIL
      PROVE  list[l].time[list[l].head] < N' + 1
  <2>1. PICK a \in trace : a.line = l /\ a.time = list[l].time[list[l].head]
    <3>1. TraceOK
      BY DEF ListsInv
    <3>2. \A k \in Lines : list[k].head # NIL =>
            \E a \in trace : a.line = k /\ a.time = list[k].time[list[k].head]
      BY <3>1 DEF TraceOK
    <3>. QED
      BY <1>7, <3>2
  <2>2. PICK y \in Nat : y = a.time
    BY DEF TypeInv, TypeOK
  <2>3. g + y <= e
    BY <1>2, <2>2
  <2>. QED
    BY <1>5, <2>1, <2>2, <2>3
<1>. QED
  BY <1>6, <1>7

\* At the end of the run no thread has counts of its own, ...
LEMMA NothingPending ==
  ASSUME TypeInv, LocksInv, SumOK, Fini, NEW i \in Pillars
  PROVE  WindowsOf(total.pillar[i]) = SumOf(Begun(i), Lines)
<1>1. live = {}
  BY DEF Fini
<1>2. PICK P : P = Pending(i)
  OBVIOUS
<1>3. \A t \in Threads : P[t] = 0
  BY <1>1, <1>2 DEF Pending
<1>4. SumOf(P, Threads) = 0
  BY <1>3, FiniteTasks, SumZero
<1>5. WindowsOf(total.pillar[i]) \in Nat
  BY PendingType
<1>6. WindowsOf(total.pillar[i]) + SumOf(P, Threads) = SumOf(Begun(i), Lines)
  BY <1>2 DEF SumOK, Counted
<1>. QED
  BY <1>4, <1>5, <1>6

\* ... and the lines with a list are those that were accessed.
LEMMA AccessedLines ==
  ASSUME TypeInv, LocksInv, ListsInv, Fini
  PROVE  {a.line : a \in trace} = {l \in Lines : list[l].head # NIL}
<1>1. \A t \in Threads : pc[t] # "profile"
  <2>1. live = {}
    BY DEF Fini
  <2>. QED
    BY <2>1 DEF LocksInv, RowOK
<1>2. TraceOK
  BY DEF ListsInv
<1>3. ASSUME NEW a \in trace PROVE a.line \in Lines /\ list[a.line].head # NIL
  <2>1. a.line \in Lines
    BY DEF TypeInv, TypeOK
  <2>2. list[a.line].head # NIL
    BY <1>1, <1>2 DEF TraceOK
  <2>. QED
    BY <2>1, <2>2
<1>4. ASSUME NEW l \in Lines, list[l].head # NIL PROVE \E a \in trace : a.line = l
  <2>1. \A k \in Lines : list[k].head # NIL =>
          \E a \in trace : a.line = k /\ a.time = list[k].time[list[k].head]
    BY <1>2 DEF TraceOK
  <2>. QED
    BY <1>4, <2>1
<1>. QED
  BY <1>3, <1>4

\* So the end of the trace completes the windows of every line.
LEMMA LinesComplete ==
  ASSUME TypeInv, NEW i \in Pillars, NEW pos \in Nat, gPillarLengths(i) < pos,
         Rest(pos, i) \in [Lines -> Int]
  PROVE  SumOf(Begun(i), Lines) + SumOf(Rest(pos, i), Lines)
           = Cardinality({l \in Lines : list[l].head # NIL}) * (pos - gPillarLengths(i))
<1>1. PICK F \in [Lines -> Int] : F = Begun(i)
  <2>1. Begun(i) \in [Lines -> Nat]
    BY PendingType
  <2>2. \A l \in Lines : Begun(i)[l] \in Int
    BY <2>1
  <2>. QED
    BY <2>1, <2>2
<1>2. PICK G \in [Lines -> Int] : G = Rest(pos, i)
  OBVIOUS
<1>3. PICK T : T = {l \in Lines : list[l].head # NIL}
  OBVIOUS
<1>4. PICK c \in Int, len \in Nat : len = gPillarLengths(i) /\ c = pos - len
  BY PillarsAscend
<1>5. PICK H : H = [l \in Lines |-> F[l] + G[l]]
  OBVIOUS
<1>6. \A l \in Lines : H[l] = IF l \in T THEN c ELSE 0
  <2>. TAKE l \in Lines
  <2>1. PICK s \in TLists(Tasks) : s = list[l]
    BY DEF TypeInv, TypeOK
  <2>2. PICK a \in Nat : a = Low(s, i)
    BY LowType
  <2>3. F[l] = a
    BY <1>1, <2>1, <2>2 DEF Begun
  <2>4. CASE s.head = NIL
    <3>1. G[l] = 0
      BY <1>2, <2>1, <2>4 DEF Rest
    <3>2. a = 0
      BY <2>2, <2>4, LowType
    <3>3. l \notin T
      BY <1>3, <2>1, <2>4
    <3>. QED
      BY <1>5, <2>3, <3>1, <3>2, <3>3
  <2>5. CASE s.head # NIL
    <3>1. G[l] = Closed(s, pos, i)
      BY <1>2, <2>1, <2>5 DEF Rest
    <3>2. G[l] = pos - len - a
      BY <1>4, <2>2, <3>1 DEF Closed
    <3>3. l \in T
      BY <1>3, <2>1, <2>5
    <3>. QED
      BY <1>4, <1>5, <2>3, <3>2, <3>3
  <2>. QED
    BY <2>4, <2>5
<1>7. IsFiniteSet(Lines) /\ T \subseteq Lines /\ IsFiniteSet(T)
  BY <1>3, FiniteTasks, FS_Subset
<1>8. SumOf(H, Lines) = SumOf(F, Lines) + SumOf(G, Lines)
  <2>1. \A l \in Lines : F[l] \in Int /\ G[l] \in Int
    OBVIOUS
  <2>2. \A l \in Lines : H[l] = 1 * F[l] + 1 * G[l]
    BY <1>5
  <2>3. SumOf(H, Lines) = 1 * SumOf(F, Lines) + 1 * SumOf(G, Lines)
    BY <1>7, <2>1, <2>2, SumLinear
  <2>4. SumOf(F, Lines) \in Int /\ SumOf(G, Lines) \in Int
    BY <1>7, <2>1, SumType
  <2>. QED
    BY <2>3, <2>4
<1>9. SumOf(H, Lines) = SumOf(H, T)
  <2>1. \A l \in Lines : H[l] \in Int
    BY <1>5
  <2>2. \A l \in Lines \ T : H[l] = 0
    BY <1>6
  <2>. QED
    BY <1>7, <2>1, <2>2, SumSubset
<1>10. SumOf(H, T) = Cardinality(T) * c
  <2>1. \A l \in T : H[l] = c
    BY <1>6, <1>7
  <2>. QED
    BY <1>7, <2>1, SumConstant
<1>. QED
  BY <1>1, <1>2, <1>3, <1>4, <1>8, <1>9, <1>10

\* The sum of a row that WindowsCountedOnce takes ...
RowTotal(rows) == MapThenSumSet(LAMBDA set : rows[set], SUBSET Tasks)

\* ... is the number of its windows.
LEMMA RowTotalIs ==
  ASSUME NEW rows
  PROVE  RowTotal(rows) = WindowsOf(rows)
<1>. DEFINE S    == SUBSET Tasks
            V(g) == rows[g]
            P(h) == h = [u \in SUBSET S |->
                           IF u = {} THEN 0 ELSE V(Picked(u)) + h[u \ {Picked(u)}]]
<1>1. RowTotal(rows) = (CHOOSE h : P(h))[S]
  BY Zenon DEF RowTotal, MapThenSumSet, MapThenFoldSet, Picked
<1>2. PICK F : F = rows
  OBVIOUS
<1>3. \A g \in S : F[g] = V(g)
  BY <1>2
<1>4. IsFiniteSet(S)
  BY FiniteTasks
<1>5. WindowsOf(rows) = SumOf(F, S)
  BY <1>2 DEF WindowsOf
<1>. HIDE DEF V, S
<1>6. \A h : IsSum(F, S, h) <=> P(h)
  <2>1. \A u \in SUBSET S : u # {} => F[Picked(u)] = V(Picked(u))
    BY <1>3, PickedIn
  <2>. QED
    BY <2>1 DEF IsSum
<1>7. P(CHOOSE h : P(h))
  <2>1. \E h : P(h)
    BY <1>4, <1>6, SumExists
  <2>. HIDE DEF P
  <2>. QED
    BY <2>1
<1>. HIDE DEF P
<1>. QED
  BY <1>1, <1>4, <1>5, <1>6, <1>7, SumIs

\* At the end the rows of every file add up to the windows of its lines.
LEMMA CountedAtEnd ==
  ASSUME TypeInv, LocksInv, ListsInv, SumOK, Fini, EndsLast',
         NEW i \in Pillars, gPillarLengths(i) <= N'
  PROVE  WindowsOf(total'.pillar[i])
           = (N' - gPillarLengths(i) + 1) * Cardinality({a.line : a \in trace})
<1>1. /\ N' \in Nat /\ N' + 1 < 2 ^ WordBits
      /\ \A l \in Lines : list[l].head # NIL => list[l].time[list[l].head] < N' + 1
  BY EndTimes
<1>2. PICK n \in Nat : n = N'
  BY <1>1
<1>3. PICK pos \in Nat : pos = n + 1
  OBVIOUS
<1>4. PICK h : Collects(h, n) /\ CollectLastAccesses(n) = h[NumLines]
  BY CollectIs DEF TypeInv, TypeOK
<1>5. total' = h[NumLines]
  BY <1>2, <1>4 DEF Fini
<1>6. /\ Rest(pos, i) \in [Lines -> Int]
      /\ WindowsOf(h[NumLines].pillar[i])
           = WindowsOf(total.pillar[i]) + SumOf(Rest(pos, i), Lines)
  <2>1. pos < 2 ^ WordBits
    BY <1>1, <1>2, <1>3
  <2>2. \A l \in Lines : list[l].head # NIL => list[l].time[list[l].head] < pos
    BY <1>1, <1>2, <1>3
  <2>3. ListOK
    BY DEF ListsInv
  <2>. QED
    BY <1>3, <1>4, <2>1, <2>2, <2>3, RestAdded
<1>7. WindowsOf(total.pillar[i]) = SumOf(Begun(i), Lines)
  BY NothingPending
<1>8. SumOf(Begun(i), Lines) + SumOf(Rest(pos, i), Lines)
        = Cardinality({l \in Lines : list[l].head # NIL}) * (pos - gPillarLengths(i))
  <2>1. gPillarLengths(i) < pos
    BY <1>2, <1>3, PillarsAscend
  <2>. QED
    BY <1>6, <2>1, LinesComplete
<1>9. {a.line : a \in trace} = {l \in Lines : list[l].head # NIL}
  BY AccessedLines
<1>10. PICK T : T = {l \in Lines : list[l].head # NIL}
  OBVIOUS
<1>11. PICK k \in Nat, len \in Nat : k = Cardinality(T) /\ len = gPillarLengths(i)
  <2>1. IsFiniteSet(T)
    BY <1>10, FiniteTasks, FS_Subset
  <2>. QED
    BY <2>1, FS_CardinalityType, PillarsAscend
<1>12. k * (pos - len) = (n - len + 1) * k
  <2>1. pos - len = n - len + 1
    BY <1>3
  <2>2. PICK d \in Int : d = n - len + 1
    OBVIOUS
  <2>3. k * d = d * k
    OBVIOUS
  <2>. QED
    BY <2>1, <2>2, <2>3
<1>. QED
  BY <1>2, <1>5, <1>6, <1>7, <1>8, <1>9, <1>10, <1>11, <1>12

\* WindowsCountedOnce, with the sums of the rows as numbers of windows.
CountedOnce ==
  stage = "done" /\ EndsLast =>
    \A i \in Written :
      WindowsOf(total.pillar[i]) = (N - gPillarLengths(i) + 1) * Cardinality({a.line : a \in trace})

\* It implies the property as it is stated, with the sums of the library.
LEMMA CountedOnceIs == CountedOnce => WindowsCountedOnce
<1>1. ASSUME CountedOnce, stage = "done", EndsLast, NEW i \in Written
      PROVE  RowTotal(total.pillar[i])
               = (N - gPillarLengths(i) + 1) * Cardinality({a.line : a \in trace})
  BY <1>1, RowTotalIs DEF CountedOnce
<1>. QED
  BY <1>1 DEF WindowsCountedOnce, RowTotal

\* It holds when the run ends.
LEMMA FiniCounts == TypeInv /\ LocksInv /\ ListsInv /\ SumOK /\ Fini => CountedOnce'
<1>. SUFFICES ASSUME TypeInv, LocksInv, ListsInv, SumOK, Fini, EndsLast', NEW i \in Written'
              PROVE  WindowsOf(total'.pillar[i])
                       = (N' - gPillarLengths(i) + 1) * Cardinality({a.line : a \in trace'})
  BY DEF CountedOnce
<1>1. i \in Pillars /\ gPillarLengths(i) <= N'
  BY DEF Written
<1>2. trace' = trace
  BY DEF Fini, accessVars
<1>3. WindowsOf(total'.pillar[i])
        = (N' - gPillarLengths(i) + 1) * Cardinality({a.line : a \in trace})
  BY <1>1, CountedAtEnd
<1>. QED
  BY <1>2, <1>3

\* The lists and the sums while the program runs, and the counts when it has ended.
RunInv == /\ TypeInv /\ LocksInv
          /\ stage = "run" => ListsInv /\ SumOK
          /\ CountedOnce

\* They hold at first, ...
LEMMA InitRun == Init => RunInv
<1>1. Init => stage = "run"
  BY DEF Init
<1>. QED
  BY <1>1, InitTypeInv, InitLocks, InitLists, InitSum DEF RunInv, CountedOnce

\* ... and every step keeps them.
LEMMA NextRun == RunInv /\ [Next]_vars => RunInv'
<1>. SUFFICES ASSUME RunInv, [Next]_vars PROVE RunInv'
  OBVIOUS
<1>1. TypeInv /\ LocksInv /\ (stage = "run" => ListsInv /\ SumOK) /\ CountedOnce
  BY DEF RunInv
<1>2. TypeInv'
  BY <1>1, NextTypeInv
<1>3. CASE \E t \in Threads : Steps(t)
  <2>1. PICK t \in Threads : Steps(t)
    BY <1>3
  <2>2. stage = "run" /\ stage' = "run"
    BY <1>1, <2>1, ClockMoves
  <2>3. LocksInv'
    BY <1>1, <2>1, LocksKept
  <2>4. ListsInv'
    BY <1>1, <2>1, <2>2, ListsKept
  <2>5. SumOK'
    BY <1>1, <2>1, <2>2, SumKept
  <2>6. CountedOnce'
    BY <2>2 DEF CountedOnce
  <2>. QED
    BY <1>2, <2>3, <2>4, <2>5, <2>6 DEF RunInv
<1>4. CASE Tick
  <2>1. stage = "run" /\ stage' = "run"
    BY <1>4 DEF Tick, finiVars
  <2>2. UNCHANGED <<pc, row, live, rowLock, sum, total, lock, line>>
    BY <1>4 DEF Tick, threadVars, mergeVars, accessVars
  <2>3. LocksInv'
    BY <1>1, <2>2, QuietLocks
  <2>4. ListsInv'
    BY <1>1, <1>4, <2>1, TickLists
  <2>5. SumOK'
    BY <1>1, <1>4, <2>1, StillSum
  <2>6. CountedOnce'
    BY <2>1 DEF CountedOnce
  <2>. QED
    BY <1>2, <2>3, <2>4, <2>5, <2>6 DEF RunInv
<1>5. CASE Fini
  <2>1. stage = "run" /\ stage' = "done"
    BY <1>5 DEF Fini
  <2>2. LocksInv'
    BY <1>1, <1>5, FiniLocks
  <2>3. CountedOnce'
    BY <1>1, <1>5, <2>1, FiniCounts
  <2>. QED
    BY <1>2, <2>1, <2>2, <2>3 DEF RunInv
<1>6. CASE UNCHANGED vars
  <2>1. UNCHANGED <<pc, row, live, rowLock, sum, total, lock, line>>
    BY <1>6 DEF vars, runVars, threadVars, mergeVars, accessVars
  <2>2. LocksInv'
    BY <1>1, <2>1, QuietLocks
  <2>3. stage' = stage
    BY <1>6 DEF vars, finiVars
  <2>4. stage' = "run" => ListsInv' /\ SumOK'
    BY <1>1, <1>6, <2>3, StillLists, StillSum
  <2>5. CountedOnce'
    <3>1. UNCHANGED <<stage, total, N, trace, gStartTime, gEndTime>>
      BY <1>6 DEF vars, runVars, clockVars, accessVars, mergeVars, finiVars
    <3>. QED
      BY <1>1, <3>1 DEF CountedOnce, EndsLast, Written
  <2>. QED
    BY <1>2, <2>2, <2>4, <2>5 DEF RunInv
<1>. QED
  BY <1>3, <1>4, <1>5, <1>6, NextIs

\* The rows of every file add up to the windows of the trace, once for each
\* line that was accessed, whatever was trimmed and however the threads merged.
THEOREM OnceCounted == Spec => []WindowsCountedOnce
<1>1. Spec => []RunInv
  BY InitRun, NextRun, PTL DEF Spec
<1>2. RunInv => WindowsCountedOnce
  BY CountedOnceIs DEF RunInv
<1>. QED
  BY <1>1, <1>2, PTL
=============================================================================
