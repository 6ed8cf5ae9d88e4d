----------------------------- MODULE AnySetProofs -----------------------------
(***************************************************************************)
(* The any-set profiler is an any-k profiler, whose invariants it has and  *)
(* whose report is as exact; its walks over the pillars count every window *)
(* under the set of threads that touch the line in it; and the graphs that *)
(* it writes in the end are exact, if no access straddles lines.  The last *)
(* part is about the script that composes the footprints of groups.        *)
(***************************************************************************)
EXTENDS SetComposition, SfpRecorderProofs

\* Every step is a step of the any-k profiler, or one of its walks.
LEMMA NextIsRecorderStep == [AnySetNext]_anysetVars => [Next]_vars
<1>. SUFFICES ASSUME [AnySetNext]_anysetVars PROVE [Next]_vars
  OBVIOUS
<1>1. ASSUME NEW t \in Threads, Lifecycle(t) \/ RecordMem(t) PROVE [Next]_vars
  BY <1>1 DEF Next
<1>2. ASSUME NEW t \in Threads, AnySetRecording(t) PROVE [Next]_vars
  <2>1. Recording(t) \/ UNCHANGED vars
    BY <1>2 DEF AnySetRecording, BeginPillars, ProfilePillar, CountIntervals, Recording
  <2>. QED
    BY <2>1 DEF Next
<1>3. CASE AnySetFini \/ CollectPillar \/ CollectIntervals \/ CollectLine
  BY <1>3 DEF Next, AnySetFini, CollectPillar, CollectIntervals, CollectLine
<1>4. CASE Terminated
  BY <1>4 DEF Terminated
<1>5. CASE UNCHANGED anysetVars
  BY <1>5 DEF anysetVars
<1>. QED
  BY <1>1, <1>2, <1>3, <1>4, <1>5 DEF AnySetNext

\* Whatever is proved of the any-k profiler holds of the any-set profiler.
LEMMA AnySetRecords == AnySetSpec => Spec
<1>1. AnySetInit => Init
  BY DEF AnySetInit
<1>. QED
  BY <1>1, NextIsRecorderStep, PTL DEF AnySetSpec, Spec
-----------------------------------------------------------------------------
(***************************************************************************)
(* One walk.                                                               *)
(***************************************************************************)
\* A walk that is under way began because the pillar is shorter than pos.
WalkInv(list, pos, w) ==
  w.pillar < MAX_PILLARS => /\ pos > gPillarLengths(w.pillar)
                            /\ SharersOfWindows(list, pos, w)

\* The lengths of the pillars are numbers, and grow.
LEMMA LengthType ==
  ASSUME NEW i \in Nat
  PROVE  /\ gPillarLengths(i) \in Nat \ {0}
         /\ \A j \in Nat : i <= j => gPillarLengths(i) <= gPillarLengths(j)
<1>1. gLowestPillar + 2 * i \in Nat
  BY PillarAssumption
<1>2. ASSUME NEW j \in Nat, i <= j
      PROVE  gLowestPillar + 2 * j \in Nat /\ gLowestPillar + 2 * i <= gLowestPillar + 2 * j
  BY <1>2, PillarAssumption
<1>. QED
  BY <1>1, <1>2, PowerOfTwo, PowerGrows DEF gPillarLengths

\* The lists a walk is given: sorted, and all stamps are before pos.
Walkable(list, pos) ==
  /\ list \in StampLists
  /\ MostRecentFirst(list)
  /\ pos \in Nat
  /\ \A u \in Threads : list.latest[u] < pos

\* The left ends of the windows are an interval of natural numbers.
LEMMA EndsInOrder ==
  ASSUME NEW list, NEW pos, Walkable(list, pos), NEW i \in Nat, pos > gPillarLengths(i)
  PROVE  /\ Low(list, i) \in Nat /\ High(pos, i) \in Nat
         /\ Low(list, i) <= High(pos, i)
<1>1. gPillarLengths(i) \in Int
  BY LengthType
<1>2. High(pos, i) \in Nat
  BY <1>1 DEF High, Walkable
<1>3. CASE list.head # NIL /\ list.latest[list.head] > gPillarLengths(i)
  <2>1. list.latest[list.head] \in Nat /\ list.latest[list.head] < pos
    BY <1>3 DEF Walkable, StampLists
  <2>. QED
    BY <1>1, <1>2, <1>3, <2>1 DEF Low, High, Walkable
<1>4. CASE ~ (list.head # NIL /\ list.latest[list.head] > gPillarLengths(i))
  BY <1>2, <1>4 DEF Low
<1>. QED
  BY <1>2, <1>3, <1>4

\* The last left end already counted is a number.
LEMMA LowType ==
  ASSUME NEW list, NEW pos, Walkable(list, pos), NEW i \in Pillars
  PROVE  Low(list, i) \in Nat
<1>1. gPillarLengths(i) \in Nat
  BY LengthType DEF Pillars
<1>2. CASE list.head # NIL /\ list.latest[list.head] > gPillarLengths(i)
  <2>1. list.latest[list.head] \in Nat
    BY <1>2 DEF Walkable, StampLists
  <2>. QED
    BY <1>1, <1>2, <2>1 DEF Low
<1>3. CASE ~ (list.head # NIL /\ list.latest[list.head] > gPillarLengths(i))
  BY <1>3 DEF Low
<1>. QED
  BY <1>2, <1>3

\* A walk begins at the head with no sharers and all windows to count.
LEMMA WalkBegins ==
  ASSUME NEW list, NEW pos, Walkable(list, pos), NEW i \in Nat
  PROVE  /\ WalkFrom(list, pos, i) \in Walks
         /\ WalkInv(list, pos, WalkFrom(list, pos, i))
<1>. DEFINE w == WalkFrom(list, pos, i)
<1>1. CASE i < MAX_PILLARS /\ pos > gPillarLengths(i)
  <2>1. w = [pillar |-> i, iter |-> list.head, rpoint |-> High(pos, i), bitmap |-> {}]
    BY <1>1 DEF WalkFrom
  <2>2. /\ Low(list, i) \in Nat /\ High(pos, i) \in Nat
        /\ Low(list, i) <= High(pos, i)
    BY <1>1, EndsInOrder
  <2>3. Passed(list, list.head) = {}
    BY PassedAtHead DEF Walkable
  <2>4. w \in Walks
    BY <1>1, <2>1, <2>2, PillarAssumption DEF Walks, Walkable, StampLists
  <2>5. SharersOfWindows(list, pos, w)
    BY <2>1, <2>2, <2>3 DEF SharersOfWindows
  <2>. QED
    BY <1>1, <2>1, <2>4, <2>5 DEF WalkInv
<1>2. CASE ~ (i < MAX_PILLARS /\ pos > gPillarLengths(i))
  <2>1. w = WalkOver
    BY <1>2 DEF WalkFrom
  <2>. QED
    BY <2>1, PillarAssumption DEF WalkOver, Walks, WalkInv
<1>. QED
  BY <1>1, <1>2

\* A thread that is not passed by the walk, later than the trace's beginning.
LEMMA WalkGoesOn ==
  ASSUME NEW list, NEW pos, Walkable(list, pos), NEW w \in Walks, w.pillar < MAX_PILLARS,
         WalkInv(list, pos, w),
         InAllWindows(list, pos, w) \/ SplitsWindows(list, pos, w)
  PROVE  /\ Walked(list, pos, w) \in Walks
         /\ WalkInv(list, pos, Walked(list, pos, w))
         /\ SplitsWindows(list, pos, w) =>
              list.latest[w.iter] \in Nat /\ list.latest[w.iter] <= w.rpoint
<1>. DEFINE i == w.iter
            c == list.latest[i]
            v == Walked(list, pos, w)
            low == Low(list, w.pillar)
            high == High(pos, w.pillar)
<1>1. /\ w.pillar \in Nat /\ w.rpoint \in Nat /\ w.bitmap \subseteq Threads
      /\ i \in Threads
  BY PillarAssumption DEF Walks, InAllWindows, SplitsWindows
<1>2. pos > gPillarLengths(w.pillar) /\ low \in Nat /\ high \in Nat /\ low <= high
  BY <1>1, EndsInOrder DEF WalkInv
<1>3. /\ w.bitmap = Passed(list, i)
      /\ low <= w.rpoint /\ w.rpoint <= high
      /\ \A u \in w.bitmap : list.latest[u] >= w.rpoint
      /\ \A u \in Threads \ w.bitmap : list.latest[u] <= w.rpoint \/ w.rpoint = high
  BY <1>1, <1>2 DEF WalkInv, SharersOfWindows
<1>4. list.latest \in [Threads -> Nat] /\ list.next \in [Threads -> Threads \cup {NIL}]
  BY DEF Walkable, StampLists
<1>5. c \in Nat /\ c > 0
  <2>1. c > low \/ c > high
    BY DEF InAllWindows, SplitsWindows
  <2>. QED
    BY <1>1, <1>2, <1>4, <2>1
<1>6. /\ Passed(list, list.next[i]) = Passed(list, i) \cup {i}
      /\ i \notin Passed(list, i)
  BY <1>1, <1>5, PassedGrows DEF Walkable
<1>7. c <= w.rpoint \/ w.rpoint = high
  BY <1>1, <1>3, <1>6
<1>8. CASE InAllWindows(list, pos, w)
  <2>1. v = [[w EXCEPT !.iter = list.next[i]] EXCEPT !.bitmap = @ \cup {i}]
    BY <1>8 DEF Walked, Pass
  <2>10. v = [pillar |-> w.pillar, iter |-> list.next[i], rpoint |-> w.rpoint,
              bitmap |-> w.bitmap \cup {i}]
    BY <2>1 DEF Walks
  <2>2. /\ v.pillar = w.pillar /\ v.iter = list.next[i] /\ v.rpoint = w.rpoint
        /\ v.bitmap = w.bitmap \cup {i} /\ v \in Walks
    <3>1. w.bitmap \cup {i} \in SUBSET Threads /\ list.next[i] \in Threads \cup {NIL}
      BY <1>1, <1>4
    <3>. HIDE DEF v
    <3>. QED
      BY <1>1, <2>10, <3>1 DEF Walks
  <2>3. c > high
    BY <1>8 DEF InAllWindows
  <2>4. \A u \in v.bitmap : list.latest[u] >= v.rpoint
    BY <1>1, <1>2, <1>3, <1>5, <2>2, <2>3
  <2>5. \A u \in Threads \ v.bitmap : list.latest[u] <= v.rpoint \/ v.rpoint = high
    BY <1>3, <2>2
  <2>6. v.bitmap = Passed(list, v.iter)
    BY <1>3, <1>6, <2>2
  <2>7. v.rpoint \in low .. high
    BY <1>1, <1>2, <1>3, <2>2
  <2>8. SharersOfWindows(list, pos, v)
    BY <2>2, <2>4, <2>5, <2>6, <2>7 DEF SharersOfWindows
  <2>9. ~ SplitsWindows(list, pos, w)
    BY <1>1, <1>2, <1>5, <2>3 DEF SplitsWindows
  <2>. QED
    BY <1>2, <2>2, <2>8, <2>9 DEF WalkInv
<1>9. CASE ~ InAllWindows(list, pos, w) /\ SplitsWindows(list, pos, w)
  <2>1. v = [[[w EXCEPT !.iter = list.next[i]] EXCEPT !.bitmap = @ \cup {i}]
               EXCEPT !.rpoint = c]
    BY <1>9 DEF Walked, Pass
  <2>10. v = [pillar |-> w.pillar, iter |-> list.next[i], rpoint |-> c,
              bitmap |-> w.bitmap \cup {i}]
    BY <2>1 DEF Walks
  <2>2. /\ v.pillar = w.pillar /\ v.iter = list.next[i] /\ v.rpoint = c
        /\ v.bitmap = w.bitmap \cup {i} /\ v \in Walks
    <3>1. w.bitmap \cup {i} \in SUBSET Threads /\ list.next[i] \in Threads \cup {NIL}
      BY <1>1, <1>4
    <3>. HIDE DEF v
    <3>. QED
      BY <1>1, <1>5, <2>10, <3>1 DEF Walks
  <2>3. c <= high /\ c > low
    BY <1>9 DEF SplitsWindows
  <2>4. v.bitmap = Passed(list, v.iter)
    BY <1>3, <1>6, <2>2
  <2>5. \A u \in v.bitmap : list.latest[u] >= c
    BY <1>1, <1>3, <1>4, <1>5, <2>2, NilIsNoThread DEF Passed
  <2>6. \A u \in Threads \ v.bitmap : list.latest[u] <= c
    BY <1>1, <1>3, <1>4, <1>5, <2>2, NilIsNoThread DEF Passed
  <2>7. v.rpoint \in low .. high
    BY <1>2, <1>5, <2>2, <2>3
  <2>8. SharersOfWindows(list, pos, v)
    BY <2>2, <2>4, <2>5, <2>6, <2>7 DEF SharersOfWindows
  <2>9. c <= w.rpoint
    BY <1>1, <1>2, <1>3, <1>5, <1>7, <2>3
  <2>. QED
    BY <1>2, <1>5, <2>2, <2>8, <2>9 DEF WalkInv
<1>. QED
  BY <1>8, <1>9

Counts == [Pillars -> [SUBSET Threads -> Nat]]

\* Every step of a walk adds a natural number to a count.
LEMMA WalkSteps ==
  ASSUME NEW list, NEW pos, Walkable(list, pos), NEW w \in Walks, w.pillar < MAX_PILLARS,
         WalkInv(list, pos, w), gPillars \in Counts
  PROVE  /\ Walked(list, pos, w) \in Walks
         /\ WalkInv(list, pos, Walked(list, pos, w))
         /\ Counted(list, pos, w) \in Counts
<1>1. /\ w.pillar \in Nat /\ w.pillar \in Pillars /\ w.rpoint \in Nat
      /\ w.bitmap \in SUBSET Threads
  BY PillarAssumption DEF Walks, Pillars
<1>2. ASSUME NEW c \in Nat, c <= w.rpoint PROVE Count(w, c) \in Counts
  <2>1. w.rpoint - c \in Nat
    BY <1>1, <1>2
  <2>. DEFINE row == gPillars[w.pillar]
              sum == row[w.bitmap] + (w.rpoint - c)
  <2>2. row \in [SUBSET Threads -> Nat]
    BY <1>1 DEF Counts
  <2>3. row[w.bitmap] \in Nat
    BY <1>1, <2>2
  <2>4. sum \in Nat
    BY <2>1, <2>3
  <2>5. Count(w, c) = [gPillars EXCEPT ![w.pillar] = [row EXCEPT ![w.bitmap] = sum]]
    BY DEF Count
  <2>. HIDE DEF sum
  <2>6. [row EXCEPT ![w.bitmap] = sum] \in [SUBSET Threads -> Nat]
    BY <2>2, <2>4
  <2>. QED
    BY <2>5, <2>6 DEF Counts
<1>3. CASE InAllWindows(list, pos, w)
  BY <1>3, WalkGoesOn DEF Counted
<1>4. CASE ~ InAllWindows(list, pos, w) /\ SplitsWindows(list, pos, w)
  BY <1>2, <1>4, WalkGoesOn DEF Counted
<1>5. CASE ~ InAllWindows(list, pos, w) /\ ~ SplitsWindows(list, pos, w)
  <2>1. Walked(list, pos, w) = WalkFrom(list, pos, w.pillar + 1)
    BY <1>5 DEF Walked
  <2>2. Counted(list, pos, w) = Count(w, Low(list, w.pillar))
    BY <1>5 DEF Counted
  <2>3. Low(list, w.pillar) \in Nat /\ Low(list, w.pillar) <= w.rpoint
    BY <1>1, EndsInOrder DEF WalkInv, SharersOfWindows
  <2>4. w.pillar + 1 \in Nat
    BY <1>1
  <2>. QED
    BY <1>2, <2>1, <2>2, <2>3, <2>4, WalkBegins
<1>. QED
  BY <1>3, <1>4, <1>5
-----------------------------------------------------------------------------
(***************************************************************************)
(* The walks of all threads and of CollectLastAccesses.                    *)
(***************************************************************************)
WalkOfThread(t) == pc[t] = "visit" => WalkInv(s[t], tempN[t], walk[t])

WalkOfEnd == stage = "collect" => WalkInv(stamps[col.line], N + 1, last)

SetInv ==
  /\ gPillars \in Counts
  /\ walk \in [Threads -> Walks]
  /\ last \in Walks
  /\ \A t \in Threads : WalkOfThread(t)
  /\ WalkOfEnd

\* The list of every line can be walked from the trace's end, and that of the
\* line a thread profiles from the thread's stamp.
LEMMA ListsWalkable ==
  ASSUME LevelInv
  PROVE  /\ \A l \in Lines : Walkable(stamps[l], N + 1)
         /\ \A t \in Threads :
              /\ pc[t] \in {"load", "visit"} => Walkable(stamps[cur_addr[t]], tempN[t])
              /\ pc[t] = "visit" => s[t] = stamps[cur_addr[t]]
<1>. USE DEF LevelInv, RefInv, SafeInv, Safe
<1>1. /\ N \in Nat /\ stamps \in [Lines -> StampLists] /\ tempN \in [Threads -> Nat]
  BY DEF TypeInv, TypeOK
<1>2. \A l \in Lines : stamps[l] \in StampLists /\ MostRecentFirst(stamps[l])
  BY <1>1 DEF ListsSorted
<1>3. ASSUME NEW l \in Lines PROVE Walkable(stamps[l], N + 1)
  <2>1. \A u \in Threads : stamps[l].latest[u] \in Nat /\ stamps[l].latest[u] <= N
    BY <1>2 DEF StampOK, StampLists
  <2>. QED
    BY <1>1, <1>2, <2>1 DEF Walkable
<1>4. ASSUME NEW t \in Threads, pc[t] \in {"load", "visit"}
      PROVE  Walkable(stamps[cur_addr[t]], tempN[t])
  <2>1. cur_addr[t] \in Lines
    BY <1>4, CurrentLocked
  <2>2. cur_addr[t] \in ToProfile(t)
    <3>1. /\ acc[t] \in Accesses /\ cur_addr[t] \in Nat /\ cur_addr[t] < LineEnd(acc[t])
      BY <1>4 DEF TypeInv, TypeOK, PositionOK
    <3>2. LineEnd(acc[t]) \in Nat
      BY <3>1, LineFacts
    <3>. QED
      BY <1>4, <3>1, <3>2 DEF ToProfile
  <2>3. \A u \in Threads : stamps[cur_addr[t]].latest[u] < tempN[t]
    BY <2>2 DEF StampOK, StampOf
  <2>. QED
    BY <1>1, <1>2, <2>1, <2>3 DEF Walkable
<1>5. ASSUME NEW t \in Threads, pc[t] = "visit" PROVE s[t] = stamps[cur_addr[t]]
  BY <1>5 DEF WalkOK, WalkOf
<1>. QED
  BY <1>3, <1>4, <1>5

\* A walk whose list, position and state are as before is as before.
LEMMA OtherWalks ==
  ASSUME SetInv, NEW t \in Threads,
         (pc'[t] = "visit" => pc[t] = "visit"),
         (pc[t] = "visit" => UNCHANGED <<s[t], tempN[t], walk[t]>>)
  PROVE  WalkOfThread(t)'
BY DEF SetInv, WalkOfThread

\* A step that leaves the lists and the row of Fini alone leaves its walk alone.
LEMMA EndWalk ==
  ASSUME SetInv, UNCHANGED <<stage, stamps, col, N, last>>
  PROVE  WalkOfEnd'
BY DEF SetInv, WalkOfEnd

\* While threads record, Fini has not been called.
LEMMA RunsWhileRecording ==
  ASSUME LevelInv, NEW t \in Threads, pc[t] # "idle"
  PROVE  stage = "run"
BY DEF LevelInv, RefInv, LiveOK, Closed

\* The invariant holds initially.
LEMMA InitSetInv == AnySetInit => SetInv
<1>. SUFFICES ASSUME AnySetInit PROVE SetInv
  OBVIOUS
<1>1. WalkOver \in Walks
  BY PillarAssumption DEF WalkOver, Walks
<1>2. gPillars \in Counts
  BY DEF AnySetInit, Counts
<1>3. \A t \in Threads : pc[t] # "visit"
  BY DEF AnySetInit, Init
<1>4. stage # "collect"
  BY DEF AnySetInit, Init
<1>. QED
  BY <1>1, <1>2, <1>3, <1>4 DEF AnySetInit, SetInv, WalkOfThread, WalkOfEnd

\* The steps that begin or end nothing of a walk.
LEMMA QuietSteps ==
  ASSUME LevelInv, SetInv, UNCHANGED setVars, NEW t \in Threads,
         \/ Lifecycle(t) \/ RecordMem(t) \/ LockAcquire(t) \/ LockSpin(t) \/ ReserveStamp(t)
         \/ StoreStamps(t) \/ LockRelease(t)
  PROVE  SetInv'
<1>1. UNCHANGED <<gPillars, walk, last>>
  BY DEF setVars
<1>2. /\ pc \in [Threads -> PcLabels] /\ tempN \in [Threads -> Nat]
      /\ s \in [Threads -> StampLists]
  BY DEF LevelInv, RefInv, SafeInv, TypeInv, TypeOK
<1>3. stage = "run" /\ stage' = "run"
  <2>1. CASE Lifecycle(t) \/ RecordMem(t)
    BY <2>1 DEF Lifecycle, RecordMem, finiVars
  <2>2. CASE ~ (Lifecycle(t) \/ RecordMem(t))
    <3>1. pc[t] # "idle" /\ UNCHANGED stage
      BY <2>2 DEF LockAcquire, LockSpin, Waiting, ReserveStamp, StoreStamps, LockRelease,
         finiVars, vars
    <3>. QED
      BY <3>1, RunsWhileRecording
  <2>. QED
    BY <2>1, <2>2
<1>4. WalkOfEnd'
  BY <1>3 DEF WalkOfEnd
<1>5. ASSUME NEW u \in Threads PROVE WalkOfThread(u)'
  <2>1. CASE Lifecycle(t) \/ RecordMem(t) \/ LockAcquire(t) \/ LockSpin(t)
    <3>1. /\ pc'[u] = "visit" => pc[u] = "visit"
          /\ UNCHANGED <<s, tempN, walk>>
      BY <1>1, <1>2, <2>1 DEF Lifecycle, RecordMem, LockAcquire, LockSpin, Waiting,
         accessVars, walkVars, vars
    <3>. QED
      BY <3>1, OtherWalks
  <2>2. CASE ReserveStamp(t) \/ StoreStamps(t)
    <3>1. /\ pc'[u] = "visit" => pc[u] = "visit"
          /\ UNCHANGED <<s, walk>>
          /\ pc[u] = "visit" => tempN'[u] = tempN[u]
      BY <1>1, <1>2, <2>2 DEF ReserveStamp, StoreStamps, accessVars, walkVars
    <3>. QED
      BY <3>1, OtherWalks
  <2>3. CASE LockRelease(t)
    <3>1. pc[t] = "release" /\ s' = [s EXCEPT ![t] = EmptyStamps]
      BY <2>3 DEF LockRelease
    <3>2. \/ UNCHANGED tempN /\ pc' = [pc EXCEPT ![t] = "load"]
          \/ tempN' = [tempN EXCEPT ![t] = 0] /\ pc' = [pc EXCEPT ![t] = "idle"]
      BY <2>3 DEF LockRelease
    <3>3. /\ pc'[u] = "visit" => pc[u] = "visit"
          /\ pc[u] = "visit" => UNCHANGED <<s[u], tempN[u], walk[u]>>
      BY <1>1, <1>2, <3>1, <3>2
    <3>. QED
      BY <3>3, OtherWalks
  <2>. QED
    BY <2>1, <2>2, <2>3
<1>. QED
  BY <1>1, <1>4, <1>5 DEF SetInv

\* A pillar's loop begins with the walk from the head of the copied list.
LEMMA BeginStep ==
  ASSUME LevelInv, SetInv, NEW t \in Threads, BeginPillars(t)
  PROVE  SetInv'
<1>. DEFINE list == stamps[cur_addr[t]]
            w == WalkFrom(list, tempN[t], 0)
<1>1. /\ pc \in [Threads -> PcLabels] /\ s \in [Threads -> StampLists]
      /\ walk \in [Threads -> Walks]
  BY DEF LevelInv, RefInv, SafeInv, TypeInv, TypeOK, SetInv
<1>2. /\ pc[t] = "load"
      /\ s' = [s EXCEPT ![t] = list]
      /\ pc' = [pc EXCEPT ![t] = "visit"]
      /\ walk' = [walk EXCEPT ![t] = w]
      /\ UNCHANGED <<gPillars, last, tempN, stamps, N, stage, col>>
  BY DEF BeginPillars, LoadStamps, tableVars, accessVars, finiVars
<1>3. w \in Walks /\ WalkInv(list, tempN[t], w)
  BY <1>2, ListsWalkable, WalkBegins
<1>4. walk' \in [Threads -> Walks]
  BY <1>1, <1>2, <1>3
<1>5. WalkOfThread(t)'
  <2>1. s'[t] = list /\ tempN'[t] = tempN[t] /\ walk'[t] = w
    BY <1>1, <1>2
  <2>. QED
    BY <1>3, <2>1 DEF WalkOfThread
<1>6. ASSUME NEW u \in Threads \ {t} PROVE WalkOfThread(u)'
  BY <1>1, <1>2, OtherWalks
<1>7. WalkOfEnd'
  BY <1>2, EndWalk
<1>. QED
  BY <1>2, <1>4, <1>5, <1>6, <1>7 DEF SetInv

\* A step of the walk of a thread.
LEMMA PillarStep ==
  ASSUME LevelInv, SetInv, NEW t \in Threads, ProfilePillar(t)
  PROVE  SetInv'
<1>. DEFINE w == walk[t]
<1>1. /\ pc[t] = "visit" /\ w.pillar < MAX_PILLARS
      /\ gPillars' = Counted(s[t], tempN[t], w)
      /\ walk' = [walk EXCEPT ![t] = Walked(s[t], tempN[t], w)]
      /\ UNCHANGED <<last, s, tempN, pc, stamps, N, stage, col>>
  BY DEF ProfilePillar, vars, tableVars, accessVars, walkVars, finiVars
<1>2. walk \in [Threads -> Walks] /\ w \in Walks /\ WalkInv(s[t], tempN[t], w)
  BY <1>1 DEF SetInv, WalkOfThread
<1>3. Walkable(s[t], tempN[t])
  BY <1>1, ListsWalkable
<1>4. /\ Walked(s[t], tempN[t], w) \in Walks
      /\ WalkInv(s[t], tempN[t], Walked(s[t], tempN[t], w))
      /\ Counted(s[t], tempN[t], w) \in Counts
  BY <1>1, <1>2, <1>3, WalkSteps DEF SetInv
<1>5. walk' \in [Threads -> Walks]
  BY <1>1, <1>2, <1>4
<1>6. WalkOfThread(t)'
  <2>1. s'[t] = s[t] /\ tempN'[t] = tempN[t] /\ walk'[t] = Walked(s[t], tempN[t], w)
    BY <1>1, <1>2
  <2>. QED
    BY <1>4, <2>1 DEF WalkOfThread
<1>7. ASSUME NEW u \in Threads \ {t} PROVE WalkOfThread(u)'
  BY <1>1, <1>2, OtherWalks
<1>8. WalkOfEnd'
  BY <1>1, EndWalk
<1>9. gPillars' \in Counts
  BY <1>1, <1>4
<1>. QED
  BY <1>1, <1>5, <1>6, <1>7, <1>8, <1>9 DEF SetInv

\* The intervals are counted when the walk is over.
LEMMA IntervalStep ==
  ASSUME LevelInv, SetInv, NEW t \in Threads, CountIntervals(t)
  PROVE  SetInv'
<1>1. /\ UNCHANGED <<gPillars, walk, last>>
      /\ UNCHANGED <<s, tempN, stamps, N, stage, col>>
      /\ pc' = pc \/ pc' = [pc EXCEPT ![t] = "update"]
  BY DEF CountIntervals, setVars, PassStamp, MeetOwnStamp, FirstAccess, tableVars,
     accessVars, walkVars, finiVars
<1>2. pc \in [Threads -> PcLabels]
  BY DEF LevelInv, RefInv, SafeInv, TypeInv, TypeOK
<1>3. ASSUME NEW u \in Threads PROVE WalkOfThread(u)'
  BY <1>1, <1>2, OtherWalks
<1>4. WalkOfEnd'
  BY <1>1, EndWalk
<1>. QED
  BY <1>1, <1>3, <1>4 DEF SetInv

\* The walks of CollectLastAccesses.
LEMMA LastWalkBegins ==
  ASSUME LevelInv, NEW l \in Nat
  PROVE  /\ LastWalk(l) \in Walks
         /\ l \in Lines => WalkInv(stamps[l], N + 1, LastWalk(l))
<1>1. CASE l \in Lines /\ stamps[l].head # NIL
  BY <1>1, ListsWalkable, WalkBegins DEF LastWalk
<1>2. CASE ~ (l \in Lines /\ stamps[l].head # NIL)
  BY <1>2, PillarAssumption DEF LastWalk, WalkOver, Walks, WalkInv
<1>. QED
  BY <1>1, <1>2

\* The steps of Fini keep the invariant: one line after the other is walked.
LEMMA FiniSteps ==
  ASSUME LevelInv, SetInv, AnySetFini \/ CollectPillar \/ CollectIntervals \/ CollectLine
  PROVE  SetInv'
<1>1. UNCHANGED <<s, tempN, pc, stamps, N, walk>>
  BY DEF AnySetFini, Fini, CollectPillar, CollectIntervals, CollectStamp, CollectLine,
     CollectNext, setVars, vars, tableVars, accessVars, walkVars
<1>2. \A u \in Threads : WalkOfThread(u)'
  BY <1>1, OtherWalks
<1>3. col.line \in Lines /\ N \in Nat
  BY DEF LevelInv, RefInv, SafeInv, TypeInv, TypeOK
<1>4. CASE AnySetFini
  <2>1. /\ last' = LastWalk(0) /\ UNCHANGED gPillars
        /\ col' = [line |-> 0, iter |-> stamps[0].head, thd_count |-> 0]
    BY <1>4 DEF AnySetFini, Fini, FirstStamp
  <2>2. 0 \in Lines
    BY RecorderAssumption DEF Lines
  <2>3. LastWalk(0) \in Walks /\ WalkInv(stamps[0], N + 1, LastWalk(0))
    BY <2>2, LastWalkBegins
  <2>4. WalkOfEnd'
    BY <1>1, <2>1, <2>3 DEF WalkOfEnd
  <2>. QED
    BY <1>1, <1>2, <2>1, <2>3, <2>4 DEF SetInv
<1>5. CASE CollectPillar
  <2>. DEFINE list == stamps[col.line]
  <2>1. /\ stage = "collect" /\ last.pillar < MAX_PILLARS
        /\ gPillars' = Counted(list, N + 1, last)
        /\ last' = Walked(list, N + 1, last)
        /\ UNCHANGED <<stage, col>>
    BY <1>5 DEF CollectPillar, vars, finiVars
  <2>2. Walkable(list, N + 1) /\ last \in Walks /\ WalkInv(list, N + 1, last)
    BY <1>3, <2>1, ListsWalkable DEF SetInv, WalkOfEnd
  <2>3. /\ Walked(list, N + 1, last) \in Walks
        /\ WalkInv(list, N + 1, Walked(list, N + 1, last))
        /\ Counted(list, N + 1, last) \in Counts
    BY <2>1, <2>2, WalkSteps DEF SetInv
  <2>4. WalkOfEnd'
    BY <1>1, <2>1, <2>3 DEF WalkOfEnd
  <2>. QED
    BY <1>1, <1>2, <2>1, <2>3, <2>4 DEF SetInv
<1>6. CASE CollectIntervals
  <2>1. UNCHANGED <<gPillars, last>> /\ last.pillar = MAX_PILLARS
    BY <1>6 DEF CollectIntervals, setVars
  <2>2. WalkOfEnd'
    BY <2>1, PillarAssumption DEF WalkOfEnd, WalkInv
  <2>. QED
    BY <1>1, <1>2, <2>1, <2>2 DEF SetInv
<1>7. CASE CollectLine
  <2>1. /\ last' = LastWalk(col.line + 1) /\ UNCHANGED gPillars /\ CollectNext
    BY <1>7 DEF CollectLine
  <2>2. col.line + 1 \in Nat
    BY <1>3, RecorderAssumption DEF Lines
  <2>3. CASE col.line + 1 < NumLines
    <3>1. col' = [line |-> col.line + 1, iter |-> stamps[col.line + 1].head, thd_count |-> 0]
      BY <2>1, <2>3 DEF CollectNext, FirstStamp
    <3>2. col.line + 1 \in Lines
      BY <2>2, <2>3, RecorderAssumption DEF Lines
    <3>3. /\ LastWalk(col.line + 1) \in Walks
          /\ WalkInv(stamps[col.line + 1], N + 1, LastWalk(col.line + 1))
      BY <2>2, <3>2, LastWalkBegins
    <3>4. WalkOfEnd'
      BY <1>1, <2>1, <3>1, <3>3 DEF WalkOfEnd
    <3>. QED
      BY <1>1, <1>2, <2>1, <3>3, <3>4 DEF SetInv
  <2>4. CASE ~ (col.line + 1 < NumLines)
    <3>1. stage' = "done"
      BY <2>1, <2>4 DEF CollectNext
    <3>2. WalkOfEnd'
      BY <3>1 DEF WalkOfEnd
    <3>. QED
      BY <1>1, <1>2, <2>1, <2>2, <3>2, LastWalkBegins DEF SetInv
  <2>. QED
    BY <2>3, <2>4
<1>. QED
  BY <1>4, <1>5, <1>6, <1>7

\* Every step keeps the invariant.
LEMMA NextSetInv == LevelInv /\ SetInv /\ [AnySetNext]_anysetVars => SetInv'
<1>. SUFFICES ASSUME LevelInv, SetInv, [AnySetNext]_anysetVars PROVE SetInv'
  OBVIOUS
<1>1. ASSUME UNCHANGED <<vars, setVars>> PROVE SetInv'
  <2>1. UNCHANGED <<gPillars, walk, last, s, tempN, pc, stamps, N, stage, col>>
    BY <1>1 DEF vars, setVars, tableVars, accessVars, walkVars, finiVars
  <2>2. \A u \in Threads : WalkOfThread(u)'
    BY <2>1, OtherWalks
  <2>3. WalkOfEnd'
    BY <2>1, EndWalk
  <2>. QED
    BY <2>1, <2>2, <2>3 DEF SetInv
<1>2. ASSUME NEW t \in Threads, AnySetRecording(t) PROVE SetInv'
  BY <1>2, QuietSteps, BeginStep, PillarStep, IntervalStep DEF AnySetRecording
<1>3. ASSUME NEW t \in Threads, Lifecycle(t) \/ RecordMem(t), UNCHANGED setVars PROVE SetInv'
  BY <1>3, QuietSteps
<1>4. CASE Terminated /\ UNCHANGED setVars
  BY <1>1, <1>4 DEF Terminated
<1>. QED
  BY <1>1, <1>2, <1>3, <1>4, FiniSteps DEF AnySetNext, anysetVars

\* The invariants hold in every state.
LEMMA SetInvariant == AnySetSpec => [](LevelInv /\ SetInv)
<1>1. AnySetSpec => []LevelInv
  BY AnySetRecords, LevelInvariant
<1>. QED
  BY <1>1, InitSetInv, NextSetInv, PTL DEF AnySetSpec

\* The counts of the any-set profiler are natural numbers, as are all its
\* variables what they are declared to be.
THEOREM AnySetTypes == AnySetSpec => []AnySetTypeOK
<1>1. LevelInv /\ SetInv => AnySetTypeOK
  BY DEF LevelInv, RefInv, SafeInv, TypeInv, SetInv, AnySetTypeOK, Counts
<1>. QED
  BY <1>1, SetInvariant, PTL

\* Windows are counted under the threads that touch the line in them.
THEOREM SharersCounted == AnySetSpec => []WalksCountSharers
<1>1. LevelInv /\ SetInv => WalksCountSharers
  <2>. SUFFICES ASSUME LevelInv, SetInv PROVE WalksCountSharers
    OBVIOUS
  <2>1. ASSUME NEW list, NEW pos, NEW w, WalkInv(list, pos, w)
        PROVE  SharersOfWindows(list, pos, w)
    BY <2>1 DEF WalkInv, SharersOfWindows
  <2>. QED
    BY <2>1 DEF SetInv, WalkOfThread, WalkOfEnd, WalksCountSharers
<1>. QED
  BY <1>1, SetInvariant, PTL
-----------------------------------------------------------------------------
\* The shared footprints the any-set profiler prints are exact as well: its
\* walks over the pillars leave the counts of the any-k profiler alone.
THEOREM AnySetReport ==
  ASSUME Aligned, TraceFits
  PROVE  AnySetSpec => []ReportIsExact
BY AnySetRecords, ReportExact, PTL

-----------------------------------------------------------------------------
(***************************************************************************)
(* The sharing graph.  The windows of a pillar are counted line by line in *)
(* the order of their left ends: those up to Low by the walks that are     *)
(* over, and of the later ones those from the right end down to the point  *)
(* that the walk over the line's list has come to.  So at any time the     *)
(* count of a set of threads is the number of windows done that exactly    *)
(* these threads share, over all lines, and in the end all are done.       *)
(***************************************************************************)
\* The left ends of pillar i that a walk from pos has counted.
CountedBy(pos, w, i, x) ==
  x <= High(pos, i) /\ (i < w.pillar \/ (i = w.pillar /\ x > w.rpoint))

\* A thread whose walk has begun, until it stores the list.
Walking(t) == pc[t] \in {"visit", "update"}

\* The left ends that CollectLastAccesses has counted for line l.
DoneAtEnd(l, i, x) ==
  /\ Closed /\ stamps[l].head # NIL /\ x <= High(N + 1, i)
  /\ stage = "done" \/ l < col.line \/ (l = col.line /\ CountedBy(N + 1, last, i, x))

Done(l, i, x) ==
  \/ x <= Low(stamps[l], i)
  \/ \E t \in Threads : Walking(t) /\ cur_addr[t] = l /\ CountedBy(tempN[t], walk[t], i, x)
  \/ DoneAtEnd(l, i, x)

WindowsDone(l, i, set) ==
  {x \in 1 .. N : Done(l, i, x) /\ Sharers(trace, l, x, gPillarLengths(i)) = set}

LinesDone(i, set) == [l \in Lines |-> Cardinality(WindowsDone(l, i, set))]

PillarOK(i, set) == gPillars[i][set] = SumOf(LinesDone(i, set), Lines)

ThreadSets == (SUBSET Threads) \ {{}}

\* The intervals are counted and the list stored when the walk is over.
WalksOver == \A t \in Threads : pc[t] = "update" => walk[t].pillar = MAX_PILLARS

\* CollectLastAccesses walks the lists that are not empty.
HeadOK == stage = "collect" /\ last.pillar < MAX_PILLARS => stamps[col.line].head # NIL

GraphFacts == Aligned /\ LevelInv /\ TraceOK /\ SetInv /\ WalksOver /\ HeadOK

GraphInv == GraphFacts /\ \A i \in Pillars, set \in ThreadSets : PillarOK(i, set)

\* The left end up to which the next step of a walk counts.
CountedFrom(list, pos, w) ==
  IF InAllWindows(list, pos, w) THEN w.rpoint
  ELSE IF SplitsWindows(list, pos, w) THEN list.latest[w.iter]
  ELSE Low(list, w.pillar)

NewWindows(list, pos, w) == CountedFrom(list, pos, w) + 1 .. w.rpoint

\* What a step of a walk adds to the count of a set.
AddedTo(list, pos, w, i, set) ==
  IF i = w.pillar /\ set = w.bitmap THEN w.rpoint - CountedFrom(list, pos, w) ELSE 0

\* A step of a walk counts the windows up to CountedFrom.
LEMMA StepCounts ==
  ASSUME NEW list, NEW pos, Walkable(list, pos), NEW w \in Walks, w.pillar < MAX_PILLARS,
         WalkInv(list, pos, w), gPillars \in Counts
  PROVE  /\ CountedFrom(list, pos, w) \in Nat /\ CountedFrom(list, pos, w) <= w.rpoint
         /\ w.rpoint \in Nat /\ w.pillar \in Pillars
         /\ Low(list, w.pillar) \in Nat /\ Low(list, w.pillar) <= CountedFrom(list, pos, w)
         /\ \A i \in Pillars, set \in SUBSET Threads :
              Counted(list, pos, w)[i][set] = gPillars[i][set] + AddedTo(list, pos, w, i, set)
<1>1. /\ w.pillar \in Nat /\ w.pillar \in Pillars /\ w.rpoint \in Nat
      /\ w.bitmap \in SUBSET Threads
  BY PillarAssumption DEF Walks, Pillars
<1>2. /\ Low(list, w.pillar) \in Nat /\ Low(list, w.pillar) <= w.rpoint
  BY <1>1, EndsInOrder DEF WalkInv, SharersOfWindows
<1>3. PICK c : c = CountedFrom(list, pos, w)
  OBVIOUS
<1>4. c \in Nat /\ c <= w.rpoint /\ Low(list, w.pillar) <= c
  <2>1. CASE InAllWindows(list, pos, w)
    BY <1>1, <1>2, <1>3, <2>1 DEF CountedFrom
  <2>2. CASE ~ InAllWindows(list, pos, w) /\ SplitsWindows(list, pos, w)
    <3>1. c = list.latest[w.iter] /\ c \in Nat /\ c <= w.rpoint
      BY <1>3, <2>2, WalkGoesOn DEF CountedFrom
    <3>. QED
      BY <1>2, <2>2, <3>1 DEF SplitsWindows
  <2>3. CASE ~ InAllWindows(list, pos, w) /\ ~ SplitsWindows(list, pos, w)
    BY <1>1, <1>2, <1>3, <2>3 DEF CountedFrom
  <2>. QED
    BY <2>1, <2>2, <2>3
<1>5. ASSUME NEW i \in Pillars, NEW set \in SUBSET Threads
      PROVE  Counted(list, pos, w)[i][set] = gPillars[i][set] + AddedTo(list, pos, w, i, set)
  <2>1. gPillars[i][set] \in Nat /\ gPillars[i] \in [SUBSET Threads -> Nat]
    BY DEF Counts
  <2>2. PICK d \in Int : d = w.rpoint - c
    BY <1>1, <1>4
  <2>3. CASE InAllWindows(list, pos, w)
    <3>1. Counted(list, pos, w) = gPillars /\ c = w.rpoint
      BY <1>3, <2>3 DEF Counted, CountedFrom
    <3>2. AddedTo(list, pos, w, i, set) = 0
      BY <1>1, <1>3, <3>1 DEF AddedTo
    <3>. QED
      BY <2>1, <3>1, <3>2
  <2>4. CASE ~ InAllWindows(list, pos, w)
    <3>1. Counted(list, pos, w) = Count(w, c)
      BY <1>3, <2>4 DEF Counted, CountedFrom
    <3>2. Count(w, c) = [gPillars EXCEPT ![w.pillar]
                           = [gPillars[w.pillar] EXCEPT ![w.bitmap] = gPillars[w.pillar][w.bitmap] + d]]
      BY <2>2 DEF Count
    <3>3. AddedTo(list, pos, w, i, set) = IF i = w.pillar /\ set = w.bitmap THEN d ELSE 0
      BY <1>3, <2>2 DEF AddedTo
    <3>4. CASE i = w.pillar
      BY <1>1, <2>1, <3>1, <3>2, <3>3, <3>4 DEF Counts
    <3>5. CASE i # w.pillar
      BY <1>1, <2>1, <3>1, <3>2, <3>3, <3>5 DEF Counts
    <3>. QED
      BY <3>4, <3>5
  <2>. QED
    BY <2>3, <2>4
<1>. QED
  BY <1>1, <1>2, <1>3, <1>4, <1>5

\* A walk that begins with a pillar has counted the pillars before it.
LEMMA FromReaches ==
  ASSUME NEW list, NEW pos \in Nat, NEW j \in Nat, NEW i \in Pillars, NEW x \in Nat \ {0}
  PROVE  CountedBy(pos, WalkFrom(list, pos, j), i, x) <=> x <= High(pos, i) /\ i < j
<1>1. i \in Nat /\ MAX_PILLARS \in Nat /\ i < MAX_PILLARS
  BY PillarAssumption DEF Pillars
<1>2. CASE j < MAX_PILLARS /\ pos > gPillarLengths(j)
  <2>1. PICK w : w = WalkFrom(list, pos, j)
    OBVIOUS
  <2>2. w.pillar = j /\ w.rpoint = High(pos, j)
    BY <1>2, <2>1 DEF WalkFrom
  <2>3. gPillarLengths(j) \in Nat
    BY LengthType
  <2>. QED
    BY <1>1, <2>1, <2>2, <2>3 DEF CountedBy, High
<1>3. CASE ~ (j < MAX_PILLARS /\ pos > gPillarLengths(j))
  <2>1. PICK w : w = WalkFrom(list, pos, j)
    OBVIOUS
  <2>2. w.pillar = MAX_PILLARS
    BY <1>3, <2>1 DEF WalkFrom, WalkOver
  <2>3. x <= High(pos, i) => i < j
    <3>1. CASE j < MAX_PILLARS /\ ~ (i < j)
      <4>1. /\ gPillarLengths(j) \in Nat /\ gPillarLengths(i) \in Nat
            /\ gPillarLengths(j) <= gPillarLengths(i)
        BY <1>1, <3>1, LengthType
      <4>. QED
        BY <1>3, <3>1, <4>1 DEF High
    <3>2. CASE ~ (j < MAX_PILLARS) \/ i < j
      BY <1>1, <3>2
    <3>. QED
      BY <3>1, <3>2
  <2>. QED
    BY <1>1, <2>1, <2>2, <2>3 DEF CountedBy
<1>. QED
  BY <1>2, <1>3

\* After a step, a walk has counted the new windows, too, which it has not
\* counted before.
LEMMA StepReaches ==
  ASSUME NEW list, NEW pos, Walkable(list, pos), NEW w \in Walks, w.pillar < MAX_PILLARS,
         WalkInv(list, pos, w), gPillars \in Counts,
         NEW i \in Pillars, NEW x \in Nat \ {0}, x > Low(list, i)
  PROVE  /\ CountedBy(pos, Walked(list, pos, w), i, x)
              <=> CountedBy(pos, w, i, x) \/ (i = w.pillar /\ x \in NewWindows(list, pos, w))
         /\ i = w.pillar /\ x \in NewWindows(list, pos, w) => ~ CountedBy(pos, w, i, x)
<1>1. PICK c : c = CountedFrom(list, pos, w)
  OBVIOUS
<1>2. c \in Nat /\ c <= w.rpoint /\ w.rpoint \in Nat /\ w.pillar \in Pillars
  BY <1>1, StepCounts
<1>3. w.rpoint <= High(pos, w.pillar) /\ High(pos, w.pillar) \in Int /\ pos \in Nat
  <2>1. w.pillar \in Nat
    BY <1>2 DEF Pillars
  <2>2. High(pos, w.pillar) \in Int /\ Low(list, w.pillar) \in Nat
    BY <2>1, EndsInOrder DEF WalkInv
  <2>. QED
    BY <1>2, <2>2 DEF WalkInv, SharersOfWindows, Walkable
<1>4. i \in Nat /\ w.pillar \in Nat
  BY <1>2 DEF Pillars
<1>5. PICK v : v = Walked(list, pos, w)
  OBVIOUS
<1>6. CASE InAllWindows(list, pos, w) \/ SplitsWindows(list, pos, w)
  <2>1. v.pillar = w.pillar /\ v.rpoint = c
    <3>1. CASE InAllWindows(list, pos, w)
      <4>1. c = w.rpoint /\ v = Pass(list, w)
        BY <1>1, <1>5, <3>1 DEF CountedFrom, Walked
      <4>. QED
        BY <4>1 DEF Pass, Walks
    <3>2. CASE ~ InAllWindows(list, pos, w)
      <4>1. c = list.latest[w.iter] /\ v = [Pass(list, w) EXCEPT !.rpoint = c]
        BY <1>1, <1>5, <1>6, <3>2 DEF CountedFrom, Walked
      <4>. QED
        BY <4>1 DEF Pass, Walks
    <3>. QED
      BY <3>1, <3>2
  <2>. QED
    BY <1>1, <1>2, <1>3, <1>4, <1>5, <2>1 DEF CountedBy, NewWindows
<1>7. CASE ~ (InAllWindows(list, pos, w) \/ SplitsWindows(list, pos, w))
  <2>1. v = WalkFrom(list, pos, w.pillar + 1) /\ c = Low(list, w.pillar)
    BY <1>1, <1>5, <1>7 DEF Walked, CountedFrom
  <2>2. CountedBy(pos, v, i, x) <=> x <= High(pos, i) /\ i < w.pillar + 1
    <3>1. w.pillar + 1 \in Nat
      BY <1>4
    <3>. QED
      BY <1>3, <2>1, <3>1, FromReaches
  <2>3. i = w.pillar => (x \in NewWindows(list, pos, w) <=> x <= w.rpoint)
    BY <1>1, <1>2, <2>1 DEF NewWindows
  <2>4. i < w.pillar + 1 <=> i < w.pillar \/ i = w.pillar
    BY <1>4
  <2>. QED
    BY <1>1, <1>2, <1>3, <1>4, <1>5, <2>2, <2>3, <2>4 DEF CountedBy
<1>. QED
  BY <1>6, <1>7

\* The list of line l has the last accesses to it before pos in a trace of n.
LastAccesses(tr, n, l, list, pos) ==
  /\ n \in Nat /\ pos <= n + 1
  /\ \A y \in 1 .. n : tr[y].thread \in Threads /\ tr[y].access \in Accesses
  /\ \A u \in Threads : list.latest[u] > 0 => /\ tr[list.latest[u]].thread = u
                                               /\ l \in LinesOf(tr[list.latest[u]].access)
  /\ \A y \in 1 .. pos - 1 : l \in LinesOf(tr[y].access) => y <= list.latest[tr[y].thread]

\* The windows a step of a walk counts are those of the threads in its bitmap:
\* in the list, they are the ones whose last access is not before the window;
\* the list has caught up with the trace; and no window ends before it.
LEMMA SharersAreBitmap ==
  ASSUME Aligned, NEW list, NEW pos, Walkable(list, pos),
         NEW w \in Walks, w.pillar < MAX_PILLARS, WalkInv(list, pos, w), gPillars \in Counts,
         NEW tr, NEW n, NEW l, LastAccesses(tr, n, l, list, pos),
         NEW x \in NewWindows(list, pos, w)
  PROVE  Sharers(tr, l, x, gPillarLengths(w.pillar)) = w.bitmap
<1>. USE DEF LastAccesses
<1>1. PICK c : c = CountedFrom(list, pos, w)
  OBVIOUS
<1>2. /\ c \in Nat /\ w.rpoint \in Nat /\ w.pillar \in Nat
      /\ Low(list, w.pillar) \in Nat /\ Low(list, w.pillar) <= c
  BY <1>1, StepCounts DEF Pillars
<1>3. x \in Nat \ {0} /\ c < x /\ x <= w.rpoint
  BY <1>1, <1>2 DEF NewWindows
<1>4. PICK len \in Nat \ {0} : len = gPillarLengths(w.pillar)
  BY <1>2, LengthType
<1>5. /\ pos \in Nat /\ w.rpoint <= pos - len
      /\ w.bitmap = Passed(list, w.iter)
      /\ \A u \in w.bitmap : list.latest[u] >= w.rpoint
  <2>1. High(pos, w.pillar) \in Int
    BY <1>2, EndsInOrder DEF WalkInv
  <2>. QED
    BY <1>2, <1>4, <2>1 DEF WalkInv, SharersOfWindows, Walkable, High
<1>6. list \in StampLists /\ MostRecentFirst(list)
  BY DEF Walkable
<1>7. \A u \in Threads : list.latest[u] \in Nat /\ list.latest[u] < pos
  BY <1>6 DEF Walkable, StampLists
<1>8. \A u \in Threads : list.latest[u] <= x + len - 1
  <2>1. CASE list.head = NIL
    BY <1>3, <1>4, <1>6, <2>1 DEF MostRecentFirst
  <2>2. CASE list.head # NIL
    <3>1. list.head \in Threads
      BY <1>6, <2>2 DEF StampLists
    <3>2. PICK h \in Nat : h = list.latest[list.head]
      BY <1>7, <3>1
    <3>3. \A u \in Threads : list.latest[u] <= h
      BY <1>6, <2>2, <3>2 DEF MostRecentFirst
    <3>4. h <= x + len - 1
      <4>1. Low(list, w.pillar) = IF h > len THEN h - len ELSE 0
        BY <1>4, <2>2, <3>2 DEF Low
      <4>. QED
        BY <1>2, <1>3, <1>4, <3>2, <4>1
    <3>. QED
      BY <1>3, <1>4, <1>7, <3>2, <3>3, <3>4
  <2>. QED
    BY <2>1, <2>2
<1>9. ASSUME NEW u \in w.bitmap PROVE u \in Sharers(tr, l, x, len)
  <2>1. u \in Threads
    BY <1>9 DEF Walks
  <2>2. PICK y \in Nat : y = list.latest[u]
    BY <1>7, <2>1
  <2>3. y \in x .. x + len - 1 /\ y > 0
    BY <1>2, <1>3, <1>4, <1>5, <1>8, <1>9, <2>1, <2>2
  <2>4. tr[y].thread = u /\ l \in LinesOf(tr[y].access)
    BY <2>1, <2>2, <2>3
  <2>5. y \in 1 .. n
    BY <1>5, <1>7, <2>1, <2>2, <2>3
  <2>6. l \in Touched(tr[y].access)
    BY <2>4, <2>5 DEF Aligned
  <2>. QED
    BY <2>3, <2>4, <2>6 DEF Sharers
<1>10. ASSUME NEW u \in Sharers(tr, l, x, len) PROVE u \in w.bitmap
  <2>1. PICK y \in x .. x + len - 1 : l \in Touched(tr[y].access) /\ u = tr[y].thread
    BY <1>10 DEF Sharers
  <2>2. y \in 1 .. pos - 1 /\ y \in 1 .. n
    BY <1>3, <1>4, <1>5, <1>2, <2>1
  <2>3. u \in Threads /\ l \in LinesOf(tr[y].access)
    BY <2>1, <2>2 DEF Aligned
  <2>4. PICK z \in Nat : z = list.latest[u]
    BY <1>7, <2>3
  <2>5. z > c /\ z > 0
    <3>1. y <= z
      BY <2>1, <2>2, <2>3, <2>4
    <3>. QED
      BY <1>2, <1>3, <2>1, <2>4, <3>1
  <2>6. w.iter = NIL \/ (w.iter \in Threads /\ z > list.latest[w.iter]) \/ u \in w.bitmap
    <3>1. CASE InAllWindows(list, pos, w)
      BY <1>1, <1>2, <1>3, <3>1 DEF CountedFrom
    <3>2. CASE ~ InAllWindows(list, pos, w) /\ SplitsWindows(list, pos, w)
      BY <1>1, <2>5, <3>2 DEF CountedFrom, Walks
    <3>3. CASE ~ InAllWindows(list, pos, w) /\ ~ SplitsWindows(list, pos, w) /\ w.iter # NIL
      <4>1. w.iter \in Threads /\ c = Low(list, w.pillar)
        BY <1>1, <3>3 DEF CountedFrom, Walks
      <4>2. PICK h \in Nat : h = list.latest[w.iter]
        BY <1>7, <4>1
      <4>3. h <= c
        <5>1. High(pos, w.pillar) \in Int
          BY <1>2, EndsInOrder DEF WalkInv
        <5>. QED
          BY <1>2, <3>3, <4>1, <4>2, <5>1 DEF InAllWindows, SplitsWindows
      <4>. QED
        BY <1>2, <2>4, <2>5, <4>1, <4>2, <4>3
    <3>. QED
      BY <3>1, <3>2, <3>3
  <2>. QED
    BY <1>5, <2>3, <2>4, <2>5, <2>6, NilIsNoThread DEF Passed
<1>. QED
  BY <1>4, <1>9, <1>10

\* A line is walked by one thread at a time.
LEMMA OneWalk ==
  ASSUME LevelInv, NEW t \in Threads, NEW u \in Threads, Walking(t), Walking(u),
         cur_addr[t] = cur_addr[u]
  PROVE  t = u
<1>1. cur_addr[t] \in Locked(t) /\ cur_addr[u] \in Locked(u)
  BY CurrentLocked DEF Walking, LevelInv, RefInv, SafeInv
<1>. QED
  BY <1>1, LockedApart DEF LevelInv, RefInv, SafeInv, Safe

\* The stamp of a thread that walks is one of the trace.
LEMMA WalkerFacts ==
  ASSUME LevelInv, TraceOK, NEW t \in Threads, Walking(t)
  PROVE  /\ cur_addr[t] \in Lines /\ stage = "run"
         /\ N \in Nat /\ tempN[t] \in 1 .. N
         /\ s[t] = stamps[cur_addr[t]] /\ s[t] \in StampLists
         /\ \A u \in Threads : s[t].latest[u] < tempN[t]
<1>. USE DEF LevelInv, RefInv, SafeInv, Safe
<1>1. cur_addr[t] \in Lines /\ N \in Nat /\ s[t] \in StampLists
  BY CurrentLocked DEF Walking, TypeInv, TypeOK
<1>2. tempN[t] \in 1 .. N
  BY DEF Walking, TraceOK, CurrentOf, Busy
<1>3. stage = "run"
  BY DEF Walking, LiveOK, Closed
<1>4. s[t] = stamps[cur_addr[t]]
  BY DEF Walking, WalkOK, WalkOf
<1>5. cur_addr[t] \in ToProfile(t)
  <2>1. /\ acc[t] \in Accesses /\ cur_addr[t] \in Nat /\ cur_addr[t] < LineEnd(acc[t])
    BY DEF Walking, TypeInv, TypeOK, PositionOK
  <2>2. LineEnd(acc[t]) \in Nat
    BY <2>1, LineFacts
  <2>. QED
    BY <2>1, <2>2 DEF Walking, ToProfile
<1>6. \A u \in Threads : stamps[cur_addr[t]].latest[u] < tempN[t]
  BY <1>5 DEF StampOK, StampOf
<1>. QED
  BY <1>1, <1>2, <1>3, <1>4, <1>6

\* The list of a line that is walked has all accesses to the line before the
\* stamp of the thread.
LEMMA CaughtUp ==
  ASSUME LevelInv, TraceOK, NEW t \in Threads, Walking(t), NEW l, l = cur_addr[t],
         NEW y \in 1 .. tempN[t] - 1, l \in LinesOf(trace[y].access)
  PROVE  y <= stamps[l].latest[trace[y].thread]
<1>1. y \in 1 .. N /\ y < tempN[t]
  BY WalkerFacts
<1>2. PICK u \in Threads : u = trace[y].thread
  BY <1>1, TraceEntry DEF LevelInv, RefInv, SafeInv
<1>3. y <= stamps[l].latest[u] \/ (l \in ToProfile(u) /\ y = tempN[u])
  BY <1>1, <1>2 DEF TraceOK, Entered
<1>4. u # t => l \notin ToProfile(u)
  <2>1. l \in Locked(t) /\ \A v \in Threads : ToProfile(v) \subseteq Locked(v)
    BY CurrentLocked, ProfileLocked DEF Walking, LevelInv, RefInv, SafeInv
  <2>. QED
    BY <2>1, LockedApart DEF LevelInv, RefInv, SafeInv, Safe
<1>5. ~ (u = t /\ y = tempN[u])
  BY <1>1, WalkerFacts
<1>. QED
  BY <1>2, <1>3, <1>4, <1>5

\* When Fini runs, no thread is within RecordMem ...
LEMMA IdleAtEnd ==
  ASSUME LevelInv, Closed, NEW t \in Threads
  PROVE  pc[t] = "idle" /\ ~ Walking(t)
BY DEF LevelInv, RefInv, LiveOK, Walking

\* ... and the lists have all accesses.
LEMMA CaughtUpAtEnd ==
  ASSUME LevelInv, TraceOK, Closed, NEW l,
         NEW y \in 1 .. N, l \in LinesOf(trace[y].access)
  PROVE  y <= stamps[l].latest[trace[y].thread]
<1>1. PICK u \in Threads : u = trace[y].thread
  BY TraceEntry DEF LevelInv, RefInv, SafeInv
<1>2. ToProfile(u) = {}
  BY IdleAtEnd DEF ToProfile
<1>. QED
  BY <1>1, <1>2 DEF TraceOK, Entered

\* The windows that have been counted end within the trace.
LEMMA DoneWithin ==
  ASSUME LevelInv, TraceOK, NEW l \in Lines, NEW i \in Pillars, NEW x \in Nat \ {0}, Done(l, i, x)
  PROVE  x + gPillarLengths(i) - 1 <= N
<1>1. PICK len \in Nat \ {0} : len = gPillarLengths(i)
  BY LengthType DEF Pillars
<1>2. N \in Nat /\ stamps[l] \in StampLists /\ \A u \in Threads : stamps[l].latest[u] <= N
  BY DEF LevelInv, RefInv, SafeInv, Safe, TypeInv, TypeOK, StampOK
<1>3. CASE x <= Low(stamps[l], i)
  <2>1. CASE stamps[l].head # NIL /\ stamps[l].latest[stamps[l].head] > len
    <3>1. stamps[l].head \in Threads
      BY <1>2, <2>1 DEF StampLists
    <3>2. PICK h \in Nat : h = stamps[l].latest[stamps[l].head]
      BY <1>2, <3>1 DEF StampLists
    <3>3. h <= N /\ Low(stamps[l], i) = h - len
      BY <1>1, <1>2, <2>1, <3>1, <3>2 DEF Low
    <3>. QED
      BY <1>1, <1>2, <1>3, <3>2, <3>3
  <2>2. CASE ~ (stamps[l].head # NIL /\ stamps[l].latest[stamps[l].head] > len)
    BY <1>1, <1>3, <2>2 DEF Low
  <2>. QED
    BY <2>1, <2>2
<1>4. CASE \E t \in Threads : Walking(t) /\ cur_addr[t] = l /\ CountedBy(tempN[t], walk[t], i, x)
  <2>1. PICK t \in Threads : Walking(t) /\ CountedBy(tempN[t], walk[t], i, x)
    BY <1>4
  <2>2. tempN[t] \in 1 .. N
    BY <2>1, WalkerFacts
  <2>. QED
    BY <1>1, <1>2, <2>1, <2>2 DEF CountedBy, High
<1>5. CASE DoneAtEnd(l, i, x)
  BY <1>1, <1>2, <1>5 DEF DoneAtEnd, High
<1>. QED
  BY <1>3, <1>4, <1>5 DEF Done

\* The sets of windows are finite, as is each count.
LEMMA DoneType ==
  ASSUME N \in Nat, NEW l, NEW i, NEW set
  PROVE  IsFiniteSet(WindowsDone(l, i, set)) /\ Cardinality(WindowsDone(l, i, set)) \in Nat
<1>1. IsFiniteSet(1 .. N)
  BY FS_Interval
<1>2. WindowsDone(l, i, set) \subseteq 1 .. N
  BY DEF WindowsDone
<1>. QED
  BY <1>1, <1>2, FS_Subset, FS_CardinalityType

\* The equation of a count, when windows of one line are added to it.
LEMMA PillarAdds ==
  ASSUME N \in Nat, N' \in Nat, NEW i, NEW set, PillarOK(i, set), NEW l \in Lines,
         NEW new, IsFiniteSet(new), new \cap WindowsDone(l, i, set) = {},
         \A m \in Lines : WindowsDone(m, i, set)'
                            = IF m = l THEN WindowsDone(m, i, set) \cup new
                                       ELSE WindowsDone(m, i, set),
         gPillars'[i][set] = gPillars[i][set] + Cardinality(new)
  PROVE  PillarOK(i, set)'
<1>1. PICK F : F = LinesDone(i, set)
  OBVIOUS
<1>2. PICK G : G = LinesDone(i, set)'
  OBVIOUS
<1>3. Cardinality(new) \in Int
  BY FS_CardinalityType
<1>4. Cardinality(WindowsDone(l, i, set) \cup new)
        = Cardinality(WindowsDone(l, i, set)) + Cardinality(new)
  <2>1. PICK W : W = WindowsDone(l, i, set)
    OBVIOUS
  <2>2. IsFiniteSet(W) /\ Cardinality(W) \in Int
    BY <2>1, DoneType
  <2>3. W \cap new = {}
    BY <2>1
  <2>4. Cardinality(W \cap new) = 0
    BY <2>3, FS_EmptySet
  <2>5. Cardinality(W \cup new) = Cardinality(W) + Cardinality(new) - Cardinality(W \cap new)
    BY <2>2, FS_Union
  <2>. QED
    BY <1>3, <2>1, <2>2, <2>4, <2>5
<1>5. \A m \in Lines : /\ F[m] \in Int
                       /\ G[m] = IF m = l THEN F[m] + Cardinality(new) ELSE F[m]
  <2>. TAKE m \in Lines
  <2>1. F[m] = Cardinality(WindowsDone(m, i, set)) /\ F[m] \in Int
    BY <1>1, DoneType DEF LinesDone
  <2>2. G[m] = Cardinality(WindowsDone(m, i, set)')
    BY <1>2 DEF LinesDone
  <2>. QED
    BY <1>4, <2>1, <2>2
<1>6. SumOf(G, Lines) = SumOf(F, Lines) + Cardinality(new)
  BY <1>3, <1>5, FiniteData, SumChange
<1>7. gPillars'[i][set] = SumOf(G, Lines)
  BY <1>1, <1>6 DEF PillarOK
<1>. QED
  BY <1>2, <1>7 DEF PillarOK

\* A step that counts no window of a set that has sharers.
LEMMA QuietPillars ==
  ASSUME GraphInv, UNCHANGED gPillars, N' \in Nat, N <= N',
         \A x \in 1 .. N : trace'[x] = trace[x],
         \A l \in Lines, i \in Pillars, x \in Nat \ {0} : Done(l, i, x)' <=> Done(l, i, x)
  PROVE  \A i \in Pillars, set \in ThreadSets : PillarOK(i, set)'
<1>. SUFFICES ASSUME NEW i \in Pillars, NEW set \in ThreadSets PROVE PillarOK(i, set)'
  OBVIOUS
<1>1. N \in Nat /\ LevelInv /\ TraceOK
  BY DEF GraphInv, GraphFacts, LevelInv, RefInv, SafeInv, TypeInv, TypeOK
<1>2. PICK len \in Nat \ {0} : len = gPillarLengths(i)
  BY LengthType DEF Pillars
<1>3. ASSUME NEW l \in Lines PROVE WindowsDone(l, i, set)' = WindowsDone(l, i, set)
  <2>1. \A x \in Nat \ {0} : Done(l, i, x) => x + len - 1 <= N
    BY <1>1, <1>2, DoneWithin
  <2>2. \A x \in Nat \ {0} : x + len - 1 <= N => Sharers(trace', l, x, len) = Sharers(trace, l, x, len)
    <3>. TAKE x \in Nat \ {0}
    <3>. HAVE x + len - 1 <= N
    <3>1. \A y \in x .. x + len - 1 : trace'[y] = trace[y]
      BY <1>1
    <3>. QED
      BY <3>1 DEF Sharers
  <2>3. \A x \in Nat \ {0} : x + len - 1 <= N => x \in 1 .. N /\ x \in 1 .. N'
    BY <1>1
  <2>4. \A x : x \in 1 .. N' \/ x \in 1 .. N => x \in Nat \ {0}
    BY <1>1
  <2>5. WindowsDone(l, i, set)' = {x \in 1 .. N' : Done(l, i, x)' /\ Sharers(trace', l, x, len) = set}
    BY <1>2 DEF WindowsDone, gPillarLengths
  <2>6. WindowsDone(l, i, set) = {x \in 1 .. N : Done(l, i, x) /\ Sharers(trace, l, x, len) = set}
    BY <1>2 DEF WindowsDone
  <2>7. \A x : x \in WindowsDone(l, i, set)' <=> x \in WindowsDone(l, i, set)
    <3>1. ASSUME NEW x PROVE x \in WindowsDone(l, i, set)' <=> x \in WindowsDone(l, i, set)
      <4>1. CASE x \in Nat \ {0} /\ Done(l, i, x)
        <5>1. x + len - 1 <= N /\ (Done(l, i, x)' <=> Done(l, i, x))
          BY <2>1, <4>1
        <5>2. x \in 1 .. N /\ x \in 1 .. N' /\ Sharers(trace', l, x, len) = Sharers(trace, l, x, len)
          BY <2>2, <2>3, <4>1, <5>1
        <5>. QED
          BY <2>5, <2>6, <4>1, <5>1, <5>2
      <4>2. CASE ~ (x \in Nat \ {0} /\ Done(l, i, x))
        <5>1. x \in Nat \ {0} => ~ (Done(l, i, x)')
          BY <4>2
        <5>. QED
          BY <2>4, <2>5, <2>6, <4>2, <5>1
      <4>. QED
        BY <4>1, <4>2
    <3>. QED
      BY <3>1
  <2>. QED
    BY <2>7
<1>4. LinesDone(i, set)' = LinesDone(i, set)
  BY <1>3 DEF LinesDone
<1>5. PillarOK(i, set)
  BY DEF GraphInv
<1>. QED
  BY <1>4, <1>5 DEF PillarOK

\* While the program runs, what has been counted depends on the lists and on
\* the walks under way.
LEMMA DoneSame ==
  ASSUME stage = "run", stage' = "run", UNCHANGED stamps,
         \A t \in Threads :
           /\ Walking(t)' <=> Walking(t)
           /\ Walking(t) => UNCHANGED <<cur_addr[t], tempN[t], walk[t]>>,
         NEW l, NEW i, NEW x
  PROVE  Done(l, i, x)' <=> Done(l, i, x)
<1>1. ~ DoneAtEnd(l, i, x) /\ ~ (DoneAtEnd(l, i, x)')
  BY DEF DoneAtEnd, Closed
<1>2. Low(stamps[l], i)' = Low(stamps[l], i)
  BY DEF Low, gPillarLengths
<1>3. ASSUME NEW t \in Threads
      PROVE  Walking(t)' /\ cur_addr'[t] = l /\ CountedBy(tempN[t], walk[t], i, x)'
               <=> Walking(t) /\ cur_addr[t] = l /\ CountedBy(tempN[t], walk[t], i, x)
  <2>1. CASE Walking(t)
    BY <2>1 DEF CountedBy, High, gPillarLengths
  <2>2. CASE ~ Walking(t)
    BY <2>2
  <2>. QED
    BY <2>1, <2>2
<1>. QED
  BY <1>1, <1>2, <1>3 DEF Done

\* The steps of a thread that neither begin nor go on with nor end a walk.
LEMMA QuietGraph ==
  ASSUME GraphInv, NEW t \in Threads,
         \/ /\ Lifecycle(t) \/ RecordMem(t) \/ LockAcquire(t) \/ LockSpin(t)
               \/ ReserveStamp(t) \/ LockRelease(t)
            /\ UNCHANGED setVars
         \/ CountIntervals(t)
  PROVE  \A i \in Pillars, set \in ThreadSets : PillarOK(i, set)'
<1>1. /\ pc \in [Threads -> PcLabels] /\ tempN \in [Threads -> Nat] /\ N \in Nat
      /\ cur_addr \in [Threads -> Nat]
  BY DEF GraphInv, GraphFacts, LevelInv, RefInv, SafeInv, TypeInv, TypeOK
<1>2. LevelInv /\ SafeInv /\ TraceOK
  BY DEF GraphInv, GraphFacts, LevelInv, RefInv
<1>3. UNCHANGED <<gPillars, walk>>
  BY DEF setVars, CountIntervals
<1>4. ASSUME stage = "run", UNCHANGED <<stage, stamps>>, N' \in Nat, N <= N',
             \A x \in 1 .. N : trace'[x] = trace[x],
             \A u \in Threads : /\ Walking(u)' <=> Walking(u)
                                /\ Walking(u) => UNCHANGED <<cur_addr[u], tempN[u]>>
      PROVE  \A i \in Pillars, set \in ThreadSets : PillarOK(i, set)'
  <2>1. \A l \in Lines, i \in Pillars, x \in Nat \ {0} : Done(l, i, x)' <=> Done(l, i, x)
    BY <1>3, <1>4, DoneSame
  <2>. QED
    BY <1>3, <1>4, <2>1, QuietPillars
<1>5. CASE Lifecycle(t) \/ RecordMem(t)
  <2>1. /\ stage = "run" /\ UNCHANGED <<stage, stamps, N, trace>>
        /\ pc[t] = "idle" /\ (UNCHANGED pc \/ pc' = [pc EXCEPT ![t] = "acquire"])
        /\ \A u \in Threads : u # t => UNCHANGED <<cur_addr[u], tempN[u]>>
    BY <1>1, <1>5 DEF Lifecycle, RecordMem, tableVars, accessVars, finiVars
  <2>2. \A u \in Threads : /\ Walking(u)' <=> Walking(u)
                           /\ Walking(u) => UNCHANGED <<cur_addr[u], tempN[u]>>
    BY <1>1, <2>1 DEF Walking
  <2>. QED
    BY <1>1, <1>4, <2>1, <2>2
<1>6. CASE LockAcquire(t) \/ LockSpin(t)
  <2>1. /\ pc[t] = "acquire" /\ UNCHANGED <<stage, stamps, N, trace, pc, cur_addr, tempN>>
    BY <1>6 DEF LockAcquire, LockSpin, Waiting, vars, tableVars, accessVars, finiVars
  <2>2. stage = "run"
    BY <1>2, <2>1, RunsWhileRecording
  <2>. QED
    BY <1>1, <1>4, <2>1, <2>2 DEF Walking
<1>7. CASE ReserveStamp(t)
  <2>1. /\ pc[t] = "acquire" /\ pc' = [pc EXCEPT ![t] = "load"] /\ N' = N + 1
        /\ UNCHANGED <<stage, stamps, cur_addr>> /\ tempN' = [tempN EXCEPT ![t] = N + 1]
    BY <1>7 DEF ReserveStamp, finiVars
  <2>2. stage = "run"
    BY <1>2, <2>1, RunsWhileRecording
  <2>3. \A x \in 1 .. N : trace'[x] = trace[x]
    BY <1>2, <1>7, ReserveTrace
  <2>4. \A u \in Threads : /\ Walking(u)' <=> Walking(u)
                           /\ Walking(u) => UNCHANGED <<cur_addr[u], tempN[u]>>
    BY <1>1, <2>1 DEF Walking
  <2>. QED
    BY <1>1, <1>4, <2>1, <2>2, <2>3, <2>4
<1>8. CASE LockRelease(t)
  <2>1. /\ pc[t] = "release"
        /\ pc' = [pc EXCEPT ![t] = "load"] \/ pc' = [pc EXCEPT ![t] = "idle"]
        /\ UNCHANGED <<stage, stamps, N, trace>>
        /\ \A u \in Threads : u # t => UNCHANGED <<cur_addr[u], tempN[u]>>
    <3>1. CASE cur_addr[t] + 1 < LineEnd(acc[t])
      BY <1>1, <1>8, <3>1 DEF LockRelease, finiVars
    <3>2. CASE ~ (cur_addr[t] + 1 < LineEnd(acc[t]))
      BY <1>1, <1>8, <3>2 DEF LockRelease, finiVars
    <3>. QED
      BY <3>1, <3>2
  <2>2. stage = "run"
    BY <1>2, <2>1, RunsWhileRecording
  <2>3. \A u \in Threads : /\ Walking(u)' <=> Walking(u)
                           /\ Walking(u) => UNCHANGED <<cur_addr[u], tempN[u]>>
    BY <1>1, <2>1 DEF Walking
  <2>. QED
    BY <1>1, <1>4, <2>1, <2>2, <2>3
<1>9. CASE CountIntervals(t)
  <2>1. /\ pc[t] = "visit" /\ UNCHANGED <<stage, stamps, N, trace, cur_addr, tempN>>
        /\ UNCHANGED pc \/ pc' = [pc EXCEPT ![t] = "update"]
    BY <1>9 DEF CountIntervals, PassStamp, MeetOwnStamp, FirstAccess, tableVars, accessVars,
       finiVars
  <2>2. stage = "run"
    BY <1>2, <2>1, RunsWhileRecording
  <2>3. \A u \in Threads : /\ Walking(u)' <=> Walking(u)
                           /\ Walking(u) => UNCHANGED <<cur_addr[u], tempN[u]>>
    BY <1>1, <2>1 DEF Walking
  <2>. QED
    BY <1>1, <1>4, <2>1, <2>2, <2>3
<1>. QED
  BY <1>5, <1>6, <1>7, <1>8, <1>9

\* A walk that begins has counted nothing.
LEMMA BeginGraph ==
  ASSUME GraphInv, NEW t \in Threads, BeginPillars(t)
  PROVE  \A i \in Pillars, set \in ThreadSets : PillarOK(i, set)'
<1>1. /\ pc \in [Threads -> PcLabels] /\ tempN \in [Threads -> Nat] /\ N \in Nat
      /\ walk \in [Threads -> Walks] /\ LevelInv
  BY DEF GraphInv, GraphFacts, LevelInv, RefInv, SafeInv, TypeInv, TypeOK, SetInv
<1>2. PICK w : w = WalkFrom(stamps[cur_addr[t]], tempN[t], 0)
  OBVIOUS
<1>3. /\ pc[t] = "load" /\ pc' = [pc EXCEPT ![t] = "visit"] /\ walk' = [walk EXCEPT ![t] = w]
      /\ UNCHANGED <<gPillars, tempN, cur_addr, stamps, N, stage, trace>>
  BY <1>2 DEF BeginPillars, LoadStamps, tableVars, accessVars, finiVars
<1>4. stage = "run"
  BY <1>1, <1>3, RunsWhileRecording
<1>5. ASSUME NEW l \in Lines, NEW i \in Pillars, NEW x \in Nat \ {0}
      PROVE  Done(l, i, x)' <=> Done(l, i, x)
  <2>1. ~ DoneAtEnd(l, i, x) /\ ~ (DoneAtEnd(l, i, x)')
    BY <1>3, <1>4 DEF DoneAtEnd, Closed
  <2>2. Low(stamps[l], i)' = Low(stamps[l], i)
    BY <1>3 DEF Low, gPillarLengths
  <2>3. ~ CountedBy(tempN[t], w, i, x)
    <3>1. i \in Nat /\ tempN[t] \in Nat
      BY <1>1 DEF Pillars
    <3>2. CountedBy(tempN[t], w, i, x) <=> x <= High(tempN[t], i) /\ i < 0
      BY <1>2, <3>1, FromReaches
    <3>. QED
      BY <3>1, <3>2
  <2>4. ASSUME NEW u \in Threads
        PROVE  Walking(u)' /\ cur_addr'[u] = l /\ CountedBy(tempN[u], walk[u], i, x)'
                 <=> Walking(u) /\ cur_addr[u] = l /\ CountedBy(tempN[u], walk[u], i, x)
    <3>1. CountedBy(tempN[u], walk[u], i, x)' <=> CountedBy(tempN[u], walk'[u], i, x)
      BY <1>3 DEF CountedBy, High, gPillarLengths
    <3>2. CASE u = t
      BY <1>1, <1>3, <2>3, <3>1, <3>2 DEF Walking
    <3>3. CASE u # t
      <4>1. walk'[u] = walk[u] /\ pc'[u] = pc[u] /\ cur_addr'[u] = cur_addr[u]
        BY <1>1, <1>3, <3>3
      <4>. QED
        BY <3>1, <4>1 DEF Walking
    <3>. QED
      BY <3>2, <3>3
  <2>. QED
    BY <2>1, <2>2, <2>4 DEF Done
<1>. QED
  BY <1>1, <1>3, <1>5, QuietPillars

\* The list that a thread stores is that of the line, with the thread at its
\* head; so the windows that its walk has counted are those up to Low.
LEMMA StoreGraph ==
  ASSUME GraphInv, NEW t \in Threads, StoreStamps(t), UNCHANGED setVars
  PROVE  \A i \in Pillars, set \in ThreadSets : PillarOK(i, set)'
<1>1. /\ pc \in [Threads -> PcLabels] /\ stamps \in [Lines -> StampLists] /\ N \in Nat
      /\ LevelInv /\ TraceOK /\ WalksOver
  BY DEF GraphInv, GraphFacts, LevelInv, RefInv, SafeInv, TypeInv, TypeOK
<1>2. PICK p : p = cur_addr[t]
  OBVIOUS
<1>3. PICK pos : pos = tempN[t]
  OBVIOUS
<1>4. /\ pc[t] = "update" /\ pc' = [pc EXCEPT ![t] = "release"]
      /\ stamps' = [stamps EXCEPT ![p] = MovedToFront(s[t], t, pos, prev[t])]
      /\ UNCHANGED <<gPillars, walk, last, tempN, cur_addr, N, stage, trace>>
  BY <1>2, <1>3 DEF StoreStamps, accessVars, finiVars, setVars
<1>5. /\ p \in Lines /\ stage = "run" /\ pos \in 1 .. N /\ pos \in Nat
      /\ s[t] = stamps[p] /\ s[t] \in StampLists /\ \A u \in Threads : s[t].latest[u] < pos
      /\ Walking(t)
  <2>1. Walking(t)
    BY <1>4 DEF Walking
  <2>. QED
    BY <1>1, <1>2, <1>3, <2>1, WalkerFacts
<1>6. stamps'[p].head = t /\ stamps'[p].latest[t] = pos /\ t # NIL
  BY <1>1, <1>4, <1>5, NilIsNoThread DEF MovedToFront, StampLists
<1>7. \A l \in Lines \ {p} : stamps'[l] = stamps[l]
  BY <1>1, <1>4
<1>8. \A u \in Threads : IF u = t THEN ~ (Walking(u)') ELSE Walking(u)' <=> Walking(u)
  BY <1>1, <1>4 DEF Walking
<1>9. ASSUME NEW l \in Lines, NEW i \in Pillars, NEW x \in Nat \ {0}
      PROVE  Done(l, i, x)' <=> Done(l, i, x)
  <2>1. ~ DoneAtEnd(l, i, x) /\ ~ (DoneAtEnd(l, i, x)')
    BY <1>4, <1>5 DEF DoneAtEnd, Closed
  <2>2. \A u \in Threads : CountedBy(tempN[u], walk[u], i, x)' <=> CountedBy(tempN[u], walk[u], i, x)
    BY <1>4 DEF CountedBy, High, gPillarLengths
  <2>3. CASE l # p
    <3>1. Low(stamps[l], i)' = Low(stamps[l], i)
      BY <1>7, <2>3 DEF Low, gPillarLengths
    <3>2. cur_addr[t] # l /\ cur_addr' = cur_addr
      BY <1>2, <1>4, <2>3
    <3>. QED
      BY <1>8, <2>1, <2>2, <3>1, <3>2 DEF Done
  <2>4. CASE l = p
    <3>1. PICK len \in Nat \ {0} : len = gPillarLengths(i)
      BY LengthType DEF Pillars
    <3>2. \A u \in Threads : Walking(u) /\ cur_addr[u] = l => u = t
      BY <1>1, <1>2, <1>5, <2>4, OneWalk
    <3>3. Done(l, i, x)' <=> x <= Low(stamps'[p], i)
      BY <1>4, <1>8, <2>1, <2>4, <3>2 DEF Done, Low, gPillarLengths
    <3>4. Low(stamps'[p], i) = IF pos > len THEN pos - len ELSE 0
      BY <1>6, <3>1 DEF Low
    <3>5. walk[t].pillar = MAX_PILLARS /\ i < MAX_PILLARS
      BY <1>1, <1>4, PillarAssumption DEF WalksOver, Pillars
    <3>6. CountedBy(pos, walk[t], i, x) <=> x <= pos - len
      BY <3>1, <3>5 DEF CountedBy, High
    <3>7. Done(l, i, x) <=> x <= Low(stamps[p], i) \/ x <= pos - len
      <4>1. \A u \in Threads : Walking(u) /\ cur_addr[u] = l <=> u = t
        BY <1>2, <1>5, <2>4, <3>2
      <4>. QED
        BY <1>3, <2>1, <2>4, <3>6, <4>1 DEF Done
    <3>8. x <= Low(stamps[p], i) => x <= pos - len
      <4>1. CASE stamps[p].head # NIL /\ stamps[p].latest[stamps[p].head] > len
        <5>1. PICK h \in Nat : h = stamps[p].latest[stamps[p].head] /\ h < pos
          BY <1>5, <4>1 DEF StampLists
        <5>. QED
          BY <1>5, <3>1, <4>1, <5>1 DEF Low
      <4>2. CASE ~ (stamps[p].head # NIL /\ stamps[p].latest[stamps[p].head] > len)
        BY <3>1, <4>2 DEF Low
      <4>. QED
        BY <4>1, <4>2
    <3>. QED
      BY <1>5, <3>1, <3>3, <3>4, <3>7, <3>8
  <2>. QED
    BY <2>3, <2>4
<1>. QED
  BY <1>1, <1>4, <1>9, QuietPillars

\* A step of a walk over the list of line l adds its new windows to the count
\* of those who share them.
LEMMA WalkGraph ==
  ASSUME GraphInv, NEW l \in Lines, NEW list, list = stamps[l], NEW pos, Walkable(list, pos),
         LastAccesses(trace, N, l, list, pos), NEW w \in Walks, w.pillar < MAX_PILLARS, WalkInv(list, pos, w),
         UNCHANGED <<N, trace>>, gPillars' = Counted(list, pos, w),
         \A m \in Lines, i \in Pillars, x \in Nat \ {0} :
           Done(m, i, x)' <=> \/ Done(m, i, x)
                              \/ m = l /\ i = w.pillar /\ x \in NewWindows(list, pos, w),
         \A x \in NewWindows(list, pos, w) : ~ Done(l, w.pillar, x)
  PROVE  \A i \in Pillars, set \in ThreadSets : PillarOK(i, set)'
<1>. SUFFICES ASSUME NEW i \in Pillars, NEW set \in ThreadSets PROVE PillarOK(i, set)'
  OBVIOUS
<1>1. /\ N \in Nat /\ N' \in Nat /\ LevelInv /\ TraceOK /\ SafeInv /\ gPillars \in Counts
      /\ PillarOK(i, set) /\ set \in SUBSET Threads
  BY DEF GraphInv, GraphFacts, LevelInv, RefInv, SafeInv, TypeInv, TypeOK, SetInv, ThreadSets
<1>2. PICK All : All = NewWindows(list, pos, w)
  OBVIOUS
<1>3. PICK c \in Nat, r \in Nat : c = CountedFrom(list, pos, w) /\ r = w.rpoint /\ c <= r
  BY <1>1, StepCounts
<1>4. All = c + 1 .. r /\ IsFiniteSet(All) /\ Cardinality(All) = r - c
  <2>1. All = c + 1 .. r
    BY <1>2, <1>3 DEF NewWindows
  <2>2. c + 1 \in Int /\ r \in Int
    BY <1>3
  <2>3. IsFiniteSet(c + 1 .. r)
        /\ Cardinality(c + 1 .. r) = IF c + 1 > r THEN 0 ELSE r - (c + 1) + 1
    BY <2>2, FS_Interval
  <2>. QED
    BY <1>3, <2>1, <2>3
<1>5. ASSUME NEW x \in All
      PROVE  x \in 1 .. N /\ Sharers(trace, l, x, gPillarLengths(w.pillar)) = w.bitmap
  <2>2. Aligned
    BY DEF GraphInv, GraphFacts
  <2>3. Sharers(trace, l, x, gPillarLengths(w.pillar)) = w.bitmap
    BY <1>1, <1>2, <1>5, <2>2, SharersAreBitmap
  <2>4. x \in Nat \ {0} /\ x <= r
    BY <1>3, <1>4
  <2>5. r <= pos - gPillarLengths(w.pillar) /\ gPillarLengths(w.pillar) \in Nat \ {0} /\ pos \in Nat
    <3>1. w.pillar \in Nat
      BY <1>1, StepCounts DEF Pillars
    <3>2. High(pos, w.pillar) \in Int /\ Low(list, w.pillar) \in Int
      BY <3>1, EndsInOrder DEF WalkInv
    <3>. QED
      BY <1>3, <3>1, <3>2, LengthType DEF WalkInv, SharersOfWindows, High, Walkable
  <2>. QED
    BY <1>1, <2>3, <2>4, <2>5 DEF LastAccesses
<1>6. PICK new : new = IF i = w.pillar /\ set = w.bitmap THEN All ELSE {}
  OBVIOUS
<1>7. IsFiniteSet(new) /\ gPillars'[i][set] = gPillars[i][set] + Cardinality(new)
  <2>1. gPillars'[i][set] = gPillars[i][set] + AddedTo(list, pos, w, i, set)
    BY <1>1, StepCounts
  <2>2. AddedTo(list, pos, w, i, set) = IF i = w.pillar /\ set = w.bitmap THEN r - c ELSE 0
    BY <1>3 DEF AddedTo
  <2>. QED
    BY <1>4, <1>6, <2>1, <2>2, FS_EmptySet
<1>8. new \cap WindowsDone(l, i, set) = {}
  BY <1>2, <1>6 DEF WindowsDone
<1>9. ASSUME NEW m \in Lines
      PROVE  WindowsDone(m, i, set)' = IF m = l THEN WindowsDone(m, i, set) \cup new
                                                ELSE WindowsDone(m, i, set)
  <2>1. WindowsDone(m, i, set)' =
          {x \in 1 .. N : Done(m, i, x)' /\ Sharers(trace, m, x, gPillarLengths(i)) = set}
    BY DEF WindowsDone, gPillarLengths
  <2>2. \A x \in 1 .. N : Done(m, i, x)' <=> Done(m, i, x) \/ (m = l /\ i = w.pillar /\ x \in All)
    BY <1>1, <1>2
  <2>3. \A x \in 1 .. N :
          /\ m = l /\ i = w.pillar /\ x \in All
          /\ Sharers(trace, m, x, gPillarLengths(i)) = set
          <=> m = l /\ x \in new
    <3>. TAKE x \in 1 .. N
    <3>1. CASE m = l /\ i = w.pillar /\ x \in All
      BY <1>5, <1>6, <3>1
    <3>2. CASE ~ (m = l /\ i = w.pillar /\ x \in All)
      BY <1>6, <3>2
    <3>. QED
      BY <3>1, <3>2
  <2>4. \A x \in new : x \in 1 .. N
    BY <1>5, <1>6
  <2>5. WindowsDone(m, i, set) =
          {x \in 1 .. N : Done(m, i, x) /\ Sharers(trace, m, x, gPillarLengths(i)) = set}
    BY DEF WindowsDone
  <2>. QED
    BY <2>1, <2>2, <2>3, <2>4, <2>5
<1>. QED
  BY <1>1, <1>7, <1>8, <1>9, PillarAdds

\* The copy of a thread that walks has the accesses before its stamp.
LEMMA WalkerKnows ==
  ASSUME LevelInv, TraceOK, NEW t \in Threads, Walking(t)
  PROVE  LastAccesses(trace, N, cur_addr[t], s[t], tempN[t])
<1>1. PICK l : l = cur_addr[t]
  OBVIOUS
<1>2. SafeInv /\ l \in Lines /\ N \in Nat /\ tempN[t] \in 1 .. N /\ s[t] = stamps[l]
  BY <1>1, WalkerFacts DEF LevelInv, RefInv
<1>3. /\ \A y \in 1 .. N : trace[y].thread \in Threads /\ trace[y].access \in Accesses
      /\ \A u \in Threads :
           stamps[l].latest[u] > 0 => /\ trace[stamps[l].latest[u]].thread = u
                                      /\ l \in LinesOf(trace[stamps[l].latest[u]].access)
  BY <1>2, TraceFacts
<1>4. \A y \in 1 .. tempN[t] - 1 :
        l \in LinesOf(trace[y].access) => y <= stamps[l].latest[trace[y].thread]
  BY <1>1, CaughtUp
<1>. QED
  BY <1>1, <1>2, <1>3, <1>4 DEF LastAccesses

\* A thread's walk goes on.
LEMMA ProfileGraph ==
  ASSUME GraphInv, NEW t \in Threads, ProfilePillar(t)
  PROVE  \A i \in Pillars, set \in ThreadSets : PillarOK(i, set)'
<1>1. PICK l, list, pos, w : l = cur_addr[t] /\ list = s[t] /\ pos = tempN[t] /\ w = walk[t]
  OBVIOUS
<1>2. /\ LevelInv /\ TraceOK /\ SetInv /\ walk \in [Threads -> Walks] /\ gPillars \in Counts
  BY DEF GraphInv, GraphFacts, SetInv
<1>3. /\ pc[t] = "visit" /\ w.pillar < MAX_PILLARS
      /\ gPillars' = Counted(list, pos, w)
      /\ walk' = [walk EXCEPT ![t] = Walked(list, pos, w)]
      /\ UNCHANGED <<stamps, tempN, cur_addr, pc, N, stage, trace>>
  BY <1>1 DEF ProfilePillar, vars, tableVars, accessVars, walkVars, finiVars
<1>4. /\ Walking(t) /\ l \in Lines /\ stage = "run" /\ list = stamps[l]
      /\ LastAccesses(trace, N, l, list, pos)
  BY <1>1, <1>2, <1>3, WalkerFacts, WalkerKnows DEF Walking
<1>5. Walkable(list, pos) /\ w \in Walks /\ WalkInv(list, pos, w)
  BY <1>1, <1>2, <1>3, ListsWalkable DEF SetInv, WalkOfThread
<1>6. PICK v : v = Walked(list, pos, w)
  OBVIOUS
<1>7. \A u \in Threads : Walking(u) /\ cur_addr[u] = l => u = t
  BY <1>1, <1>2, <1>4, OneWalk
<1>8. ASSUME NEW m \in Lines, NEW i \in Pillars, NEW x \in Nat \ {0}
      PROVE  /\ Done(m, i, x)' <=> \/ x <= Low(stamps[m], i)
                                   \/ \E u \in Threads : /\ Walking(u) /\ cur_addr[u] = m
                                                         /\ CountedBy(tempN[u], walk'[u], i, x)
             /\ Done(m, i, x) <=> \/ x <= Low(stamps[m], i)
                                  \/ \E u \in Threads : /\ Walking(u) /\ cur_addr[u] = m
                                                        /\ CountedBy(tempN[u], walk[u], i, x)
  <2>1. ~ DoneAtEnd(m, i, x) /\ ~ (DoneAtEnd(m, i, x)')
    BY <1>3, <1>4 DEF DoneAtEnd, Closed
  <2>2. \A u \in Threads : Walking(u)' <=> Walking(u)
    BY <1>3 DEF Walking
  <2>3. Low(stamps[m], i)' = Low(stamps[m], i)
    BY <1>3 DEF Low, gPillarLengths
  <2>4. \A u \in Threads : CountedBy(tempN[u], walk[u], i, x)' <=> CountedBy(tempN[u], walk'[u], i, x)
    BY <1>3 DEF CountedBy, High, gPillarLengths
  <2>. QED
    BY <1>3, <2>1, <2>2, <2>3, <2>4 DEF Done
<1>9. \A u \in Threads : walk'[u] = IF u = t THEN v ELSE walk[u]
  BY <1>2, <1>3, <1>6
<1>10. ASSUME NEW m \in Lines, NEW i \in Pillars, NEW x \in Nat \ {0}
       PROVE  Done(m, i, x)' <=> \/ Done(m, i, x)
                                 \/ m = l /\ i = w.pillar /\ x \in NewWindows(list, pos, w)
  <2>1. CASE m # l
    BY <1>1, <1>8, <1>9, <2>1
  <2>2. CASE m = l
    <3>1. /\ Done(m, i, x)' <=> x <= Low(list, i) \/ CountedBy(pos, v, i, x)
          /\ Done(m, i, x) <=> x <= Low(list, i) \/ CountedBy(pos, w, i, x)
      BY <1>1, <1>4, <1>7, <1>8, <1>9, <2>2
    <3>2. Low(list, i) \in Int
      BY <1>5, LowType
    <3>3. CASE x > Low(list, i)
      <4>1. CountedBy(pos, v, i, x)
              <=> CountedBy(pos, w, i, x) \/ (i = w.pillar /\ x \in NewWindows(list, pos, w))
        BY <1>2, <1>3, <1>5, <1>6, <3>3, StepReaches
      <4>. QED
        BY <2>2, <3>1, <4>1
    <3>4. CASE x <= Low(list, i)
      BY <3>1, <3>4
    <3>. QED
      BY <3>2, <3>3, <3>4
  <2>. QED
    BY <2>1, <2>2
<1>11. ASSUME NEW x \in NewWindows(list, pos, w) PROVE ~ Done(l, w.pillar, x)
  <2>1. /\ CountedFrom(list, pos, w) \in Nat /\ w.rpoint \in Nat /\ w.pillar \in Pillars
        /\ Low(list, w.pillar) \in Nat /\ Low(list, w.pillar) <= CountedFrom(list, pos, w)
    BY <1>2, <1>3, <1>5, StepCounts
  <2>2. x \in Nat \ {0} /\ x > Low(list, w.pillar)
    BY <1>11, <2>1 DEF NewWindows
  <2>3. ~ CountedBy(pos, w, w.pillar, x)
    BY <1>2, <1>3, <1>5, <1>11, <2>1, <2>2, StepReaches
  <2>. QED
    BY <1>1, <1>4, <1>7, <1>8, <2>1, <2>2, <2>3
<1>. QED
  BY <1>3, <1>4, <1>5, <1>10, <1>11, WalkGraph

\* When Fini runs, every list has all accesses to its line.
LEMMA EndKnows ==
  ASSUME LevelInv, TraceOK, Closed, NEW l \in Lines
  PROVE  LastAccesses(trace, N, l, stamps[l], N + 1)
<1>1. SafeInv /\ N \in Nat
  BY DEF LevelInv, RefInv, SafeInv, TypeInv, TypeOK
<1>2. /\ \A y \in 1 .. N : trace[y].thread \in Threads /\ trace[y].access \in Accesses
      /\ \A u \in Threads :
           stamps[l].latest[u] > 0 => /\ trace[stamps[l].latest[u]].thread = u
                                      /\ l \in LinesOf(trace[stamps[l].latest[u]].access)
  BY <1>1, TraceFacts
<1>3. \A y \in 1 .. N : l \in LinesOf(trace[y].access) => y <= stamps[l].latest[trace[y].thread]
  BY CaughtUpAtEnd
<1>. QED
  BY <1>1, <1>2, <1>3 DEF LastAccesses

\* A walk of CollectLastAccesses begins with nothing counted.
LEMMA LastWalkReaches ==
  ASSUME N \in Nat, NEW l \in Lines, stamps[l].head # NIL,
         NEW i \in Pillars, NEW x \in Nat \ {0}
  PROVE  ~ CountedBy(N + 1, LastWalk(l), i, x)
<1>1. LastWalk(l) = WalkFrom(stamps[l], N + 1, 0)
  BY DEF LastWalk
<1>2. i \in Nat /\ N + 1 \in Nat
  BY DEF Pillars
<1>3. CountedBy(N + 1, WalkFrom(stamps[l], N + 1, 0), i, x) <=> x <= High(N + 1, i) /\ i < 0
  BY <1>2, FromReaches
<1>. QED
  BY <1>1, <1>2, <1>3

\* Once no thread is left, the walks of the threads count no more.
LEMMA DoneLate ==
  ASSUME \A t \in Threads : ~ Walking(t), NEW l, NEW i, NEW x
  PROVE  Done(l, i, x) <=> x <= Low(stamps[l], i) \/ DoneAtEnd(l, i, x)
BY DEF Done

\* Fini begins with the walk of the first line.
LEMMA FiniGraph ==
  ASSUME GraphInv, AnySetFini
  PROVE  \A i \in Pillars, set \in ThreadSets : PillarOK(i, set)'
<1>1. /\ LevelInv /\ N \in Nat
      /\ stage = "run" /\ live = {} /\ stage' = "collect" /\ last' = LastWalk(0)
      /\ col' = FirstStamp(0)
      /\ UNCHANGED <<gPillars, walk, pc, cur_addr, tempN, stamps, N, trace>>
  BY DEF AnySetFini, Fini, GraphInv, GraphFacts, LevelInv, RefInv, SafeInv, TypeInv, TypeOK,
     tableVars, accessVars
<1>2. col'.line = 0
  BY <1>1 DEF FirstStamp
<1>3. \A t \in Threads : ~ Walking(t) /\ ~ (Walking(t)')
  BY <1>1 DEF LevelInv, RefInv, LiveOK, Walking
<1>4. ASSUME NEW l \in Lines, NEW i \in Pillars, NEW x \in Nat \ {0}
      PROVE  Done(l, i, x)' <=> Done(l, i, x)
  <2>1. ~ DoneAtEnd(l, i, x)
    BY <1>1 DEF DoneAtEnd, Closed
  <2>2. ~ (DoneAtEnd(l, i, x)')
    <3>1. stamps[l].head # NIL /\ l = 0 => ~ CountedBy(N + 1, LastWalk(0), i, x)
      BY <1>1, LastWalkReaches
    <3>2. CountedBy(N + 1, last, i, x)' <=> CountedBy(N + 1, last', i, x)
      BY <1>1 DEF CountedBy, High, gPillarLengths
    <3>3. ~ (l < 0)
      BY DEF Lines
    <3>4. DoneAtEnd(l, i, x)' => l = 0 /\ stamps[l].head # NIL /\ CountedBy(N + 1, last', i, x)
      BY <1>1, <1>2, <3>2, <3>3 DEF DoneAtEnd
    <3>. QED
      BY <1>1, <3>1, <3>4
  <2>3. Low(stamps[l], i)' = Low(stamps[l], i)
    BY <1>1 DEF Low, gPillarLengths
  <2>. QED
    BY <1>3, <2>1, <2>2, <2>3, DoneLate DEF Done
<1>. QED
  BY <1>1, <1>4, QuietPillars

\* The walk of CollectLastAccesses goes on.
LEMMA CollectGraph ==
  ASSUME GraphInv, CollectPillar
  PROVE  \A i \in Pillars, set \in ThreadSets : PillarOK(i, set)'
<1>1. PICK l, list, pos, w : l = col.line /\ list = stamps[l] /\ pos = N + 1 /\ w = last
  OBVIOUS
<1>2. /\ LevelInv /\ TraceOK /\ SetInv /\ gPillars \in Counts /\ HeadOK
      /\ l \in Lines /\ N \in Nat
  BY <1>1 DEF GraphInv, GraphFacts, SetInv, LevelInv, RefInv, SafeInv, TypeInv, TypeOK
<1>3. /\ stage = "collect" /\ w.pillar < MAX_PILLARS
      /\ gPillars' = Counted(list, pos, w)
      /\ last' = Walked(list, pos, w)
      /\ UNCHANGED <<stamps, tempN, cur_addr, pc, N, stage, col, trace, walk>>
  BY <1>1 DEF CollectPillar, vars, tableVars, accessVars, walkVars, finiVars
<1>4. /\ Closed /\ list.head # NIL
      /\ LastAccesses(trace, N, l, list, pos)
  BY <1>1, <1>2, <1>3, EndKnows DEF Closed, HeadOK
<1>5. Walkable(list, pos) /\ w \in Walks /\ WalkInv(list, pos, w)
  BY <1>1, <1>2, <1>3, ListsWalkable DEF SetInv, WalkOfEnd
<1>6. PICK v : v = Walked(list, pos, w)
  OBVIOUS
<1>7. \A u \in Threads : ~ Walking(u) /\ ~ (Walking(u)')
  BY <1>2, <1>3, <1>4, IdleAtEnd DEF Walking
<1>8. ASSUME NEW m \in Lines, NEW i \in Pillars, NEW x \in Nat \ {0}
      PROVE  /\ Done(m, i, x)' <=> x <= Low(stamps[m], i) \/ DoneAtEnd(m, i, x)'
             /\ Done(m, i, x) <=> x <= Low(stamps[m], i) \/ DoneAtEnd(m, i, x)
             /\ m # l => (DoneAtEnd(m, i, x)' <=> DoneAtEnd(m, i, x))
             /\ m = l => /\ DoneAtEnd(m, i, x)' <=> CountedBy(pos, v, i, x)
                         /\ DoneAtEnd(m, i, x) <=> CountedBy(pos, w, i, x)
  <2>1. Low(stamps[m], i)' = Low(stamps[m], i)
    BY <1>3 DEF Low, gPillarLengths
  <2>2. \A y : High(y, i)' = High(y, i)
    BY DEF High, gPillarLengths
  <2>3. CountedBy(N + 1, last, i, x)' <=> CountedBy(pos, v, i, x)
    BY <1>1, <1>3, <1>6 DEF CountedBy, High, gPillarLengths
  <2>4. High(N + 1, i)' = High(pos, i)
    BY <1>1, <1>3 DEF High, gPillarLengths
  <2>5. ~ (l < l)
    BY <1>2 DEF Lines
  <2>6. /\ CountedBy(pos, v, i, x) => x <= High(pos, i)
        /\ CountedBy(pos, w, i, x) => x <= High(pos, i)
    BY DEF CountedBy
  <2>7. m = l => /\ DoneAtEnd(m, i, x)' <=> CountedBy(pos, v, i, x)
                 /\ DoneAtEnd(m, i, x) <=> CountedBy(pos, w, i, x)
    BY <1>1, <1>3, <1>4, <2>3, <2>4, <2>5, <2>6 DEF DoneAtEnd, Closed
  <2>8. m # l => (DoneAtEnd(m, i, x)' <=> DoneAtEnd(m, i, x))
    BY <1>1, <1>3, <2>4 DEF DoneAtEnd, Closed
  <2>9. Done(m, i, x)' <=> (x <= Low(stamps[m], i))' \/ DoneAtEnd(m, i, x)'
    BY <1>7 DEF Done
  <2>. QED
    BY <1>7, <2>1, <2>7, <2>8, <2>9, DoneLate
<1>9. ASSUME NEW m \in Lines, NEW i \in Pillars, NEW x \in Nat \ {0}
      PROVE  Done(m, i, x)' <=> \/ Done(m, i, x)
                                \/ m = l /\ i = w.pillar /\ x \in NewWindows(list, pos, w)
  <2>1. CASE m # l
    BY <1>8, <2>1
  <2>2. CASE m = l
    <3>1. /\ Done(m, i, x)' <=> x <= Low(list, i) \/ CountedBy(pos, v, i, x)
          /\ Done(m, i, x) <=> x <= Low(list, i) \/ CountedBy(pos, w, i, x)
      BY <1>1, <1>8, <2>2
    <3>2. Low(list, i) \in Int
      BY <1>5, LowType
    <3>3. CASE x > Low(list, i)
      <4>1. CountedBy(pos, v, i, x)
              <=> CountedBy(pos, w, i, x) \/ (i = w.pillar /\ x \in NewWindows(list, pos, w))
        BY <1>2, <1>3, <1>5, <1>6, <3>3, StepReaches
      <4>. QED
        BY <2>2, <3>1, <4>1
    <3>4. CASE x <= Low(list, i)
      BY <3>1, <3>4
    <3>. QED
      BY <3>2, <3>3, <3>4
  <2>. QED
    BY <2>1, <2>2
<1>10. ASSUME NEW x \in NewWindows(list, pos, w) PROVE ~ Done(l, w.pillar, x)
  <2>1. /\ CountedFrom(list, pos, w) \in Nat /\ w.rpoint \in Nat /\ w.pillar \in Pillars
        /\ Low(list, w.pillar) \in Nat /\ Low(list, w.pillar) <= CountedFrom(list, pos, w)
    BY <1>2, <1>3, <1>5, StepCounts
  <2>2. x \in Nat \ {0} /\ x > Low(list, w.pillar)
    BY <1>10, <2>1 DEF NewWindows
  <2>3. ~ CountedBy(pos, w, w.pillar, x)
    BY <1>2, <1>3, <1>5, <1>10, <2>1, <2>2, StepReaches
  <2>. QED
    BY <1>1, <1>2, <1>8, <2>1, <2>2, <2>3
<1>. QED
  BY <1>1, <1>2, <1>3, <1>4, <1>5, <1>9, <1>10, WalkGraph

\* The walk of a line is over when CollectLastAccesses counts its intervals
\* and goes on to the next.
LEMMA NextLineGraph ==
  ASSUME GraphInv, CollectIntervals \/ CollectLine
  PROVE  \A i \in Pillars, set \in ThreadSets : PillarOK(i, set)'
<1>1. /\ LevelInv /\ N \in Nat /\ col.line \in Lines
      /\ stage = "collect" /\ last.pillar = MAX_PILLARS
      /\ UNCHANGED <<gPillars, walk, pc, cur_addr, tempN, stamps, N, trace>>
      /\ col \in [line : Lines, iter : Threads \cup {NIL}, thd_count : Nat]
  BY DEF CollectIntervals, CollectStamp, CollectLine, CollectNext, GraphInv, GraphFacts,
     LevelInv, RefInv, SafeInv, TypeInv, TypeOK, tableVars, accessVars, setVars
<1>2. \A t \in Threads : ~ Walking(t) /\ ~ (Walking(t)')
  BY <1>1, IdleAtEnd DEF Closed, Walking
<1>3. PICK c \in Nat : c = col.line /\ c < NumLines
  BY <1>1, RecorderAssumption DEF Lines
<1>4. \/ stage' = "collect" /\ col'.line = c /\ last' = last
      \/ /\ stage' = "collect" /\ col'.line = c + 1 /\ c + 1 \in Lines
         /\ last' = LastWalk(c + 1)
      \/ stage' = "done" /\ c + 1 >= NumLines
  <2>1. CASE CollectIntervals
    BY <1>1, <1>3, <2>1 DEF CollectIntervals, CollectStamp, setVars
  <2>2. CASE CollectLine
    <3>1. CASE c + 1 < NumLines
      BY <1>1, <1>3, <2>2, <3>1, RecorderAssumption
      DEF CollectLine, CollectNext, FirstStamp, Lines
    <3>2. CASE ~ (c + 1 < NumLines)
      BY <1>3, <2>2, <3>2, RecorderAssumption DEF CollectLine, CollectNext
    <3>. QED
      BY <3>1, <3>2
  <2>. QED
    BY <2>1, <2>2
<1>5. ASSUME NEW l \in Lines, NEW i \in Pillars, NEW x \in Nat \ {0}
      PROVE  Done(l, i, x)' <=> Done(l, i, x)
  <2>1. l \in Nat /\ l < NumLines /\ i < MAX_PILLARS
    BY RecorderAssumption, PillarAssumption DEF Lines, Pillars
  <2>2. DoneAtEnd(l, i, x) <=> stamps[l].head # NIL /\ x <= High(N + 1, i) /\ l <= c
    BY <1>1, <1>3, <2>1 DEF DoneAtEnd, Closed, CountedBy
  <2>3. High(N + 1, i)' = High(N + 1, i)
    BY <1>1 DEF High, gPillarLengths
  <2>4. CountedBy(N + 1, last, i, x)' <=> CountedBy(N + 1, last', i, x)
    BY <1>1 DEF CountedBy, High, gPillarLengths
  <2>5. DoneAtEnd(l, i, x)' <=> stamps[l].head # NIL /\ x <= High(N + 1, i) /\ l <= c
    <3>1. CASE stage' = "collect" /\ col'.line = c /\ last' = last
      BY <1>1, <1>3, <2>1, <2>3, <2>4, <3>1 DEF DoneAtEnd, Closed, CountedBy
    <3>2. CASE stage' = "collect" /\ col'.line = c + 1 /\ c + 1 \in Lines /\ last' = LastWalk(c + 1)
      <4>1. stamps[l].head # NIL /\ l = c + 1 => ~ CountedBy(N + 1, last', i, x)
        BY <1>1, <3>2, LastWalkReaches
      <4>2. DoneAtEnd(l, i, x)' <=> /\ stamps[l].head # NIL /\ x <= High(N + 1, i)
                                    /\ l < c + 1 \/ (l = c + 1 /\ CountedBy(N + 1, last', i, x))
        BY <1>1, <2>3, <2>4, <3>2 DEF DoneAtEnd, Closed
      <4>3. l < c + 1 <=> l <= c
        BY <1>3, <2>1
      <4>. QED
        BY <4>1, <4>2, <4>3
    <3>3. CASE stage' = "done" /\ c + 1 >= NumLines
      <4>1. l <= c
        BY <1>3, <2>1, <3>3, RecorderAssumption
      <4>. QED
        BY <1>1, <2>3, <3>3, <4>1 DEF DoneAtEnd, Closed
    <3>. QED
      BY <1>4, <3>1, <3>2, <3>3
  <2>6. Low(stamps[l], i)' = Low(stamps[l], i)
    BY <1>1 DEF Low, gPillarLengths
  <2>. QED
    BY <1>2, <2>2, <2>5, <2>6 DEF Done
<1>. QED
  BY <1>1, <1>5, QuietPillars

\* The lists are stored, and the intervals counted, when the walk is over.
LEMMA NextWalksOver == LevelInv /\ SetInv /\ WalksOver /\ [AnySetNext]_anysetVars => WalksOver'
<1>. SUFFICES ASSUME LevelInv, SetInv, WalksOver, [AnySetNext]_anysetVars PROVE WalksOver'
  OBVIOUS
<1>1. pc \in [Threads -> PcLabels] /\ walk \in [Threads -> Walks]
  BY DEF LevelInv, RefInv, SafeInv, TypeInv, TypeOK, SetInv
<1>2. ASSUME UNCHANGED walk, \A u \in Threads : pc'[u] = "update" => pc[u] = "update"
      PROVE  WalksOver'
  BY <1>2 DEF WalksOver
<1>3. ASSUME NEW t \in Threads, AnySetRecording(t) PROVE WalksOver'
  <2>1. CASE (LockAcquire(t) \/ LockSpin(t) \/ ReserveStamp(t)) /\ UNCHANGED setVars
    BY <1>1, <1>2, <2>1 DEF LockAcquire, LockSpin, ReserveStamp, setVars, vars
  <2>2. CASE BeginPillars(t)
    BY <1>1, <2>2 DEF BeginPillars, LoadStamps, WalksOver
  <2>3. CASE ProfilePillar(t)
    BY <1>1, <2>3 DEF ProfilePillar, vars, WalksOver
  <2>4. CASE CountIntervals(t)
    <3>1. UNCHANGED walk /\ walk[t].pillar = MAX_PILLARS
          /\ (UNCHANGED pc \/ pc' = [pc EXCEPT ![t] = "update"])
      BY <2>4 DEF CountIntervals, PassStamp, MeetOwnStamp, FirstAccess, setVars
    <3>. QED
      BY <1>1, <3>1 DEF WalksOver
  <2>5. CASE (StoreStamps(t) \/ LockRelease(t)) /\ UNCHANGED setVars
    <3>1. UNCHANGED walk /\ \A u \in Threads : u # t => pc'[u] = pc[u]
      BY <1>1, <2>5 DEF StoreStamps, LockRelease, setVars
    <3>2. pc'[t] # "update"
      BY <1>1, <2>5 DEF StoreStamps, LockRelease
    <3>. QED
      BY <1>2, <3>1, <3>2
  <2>. QED
    BY <1>3, <2>1, <2>2, <2>3, <2>4, <2>5 DEF AnySetRecording
<1>4. ASSUME NEW t \in Threads, Lifecycle(t) \/ RecordMem(t), UNCHANGED setVars PROVE WalksOver'
  BY <1>1, <1>2, <1>4 DEF Lifecycle, RecordMem, setVars
<1>5. CASE AnySetFini \/ CollectPillar \/ CollectIntervals \/ CollectLine
  BY <1>2, <1>5 DEF AnySetFini, Fini, CollectPillar, CollectIntervals, CollectStamp, CollectLine,
     CollectNext, setVars, vars
<1>6. CASE Terminated /\ UNCHANGED setVars
  BY <1>2, <1>6 DEF Terminated, setVars, vars
<1>7. CASE UNCHANGED anysetVars
  BY <1>2, <1>7 DEF anysetVars, setVars, vars
<1>. QED
  BY <1>3, <1>4, <1>5, <1>6, <1>7 DEF AnySetNext

\* A walk of CollectLastAccesses is over at once if the list is empty.
LEMMA LastWalkHead ==
  ASSUME NEW l, LastWalk(l).pillar < MAX_PILLARS
  PROVE  l \in Lines /\ stamps[l].head # NIL
BY PillarAssumption DEF LastWalk, WalkOver

\* The walk that is under way is always that of a list with accesses.
LEMMA NextHeadOK == LevelInv /\ HeadOK /\ [AnySetNext]_anysetVars => HeadOK'
<1>. SUFFICES ASSUME LevelInv, HeadOK, [AnySetNext]_anysetVars PROVE HeadOK'
  OBVIOUS
<1>1. ASSUME stage' = "run" PROVE HeadOK'
  BY <1>1 DEF HeadOK
<1>2. ASSUME NEW t \in Threads, Lifecycle(t) \/ RecordMem(t) PROVE HeadOK'
  BY <1>1, <1>2 DEF Lifecycle, RecordMem, finiVars
<1>3. ASSUME NEW t \in Threads, AnySetRecording(t) PROVE HeadOK'
  <2>1. pc[t] # "idle" /\ UNCHANGED stage
    BY <1>3 DEF AnySetRecording, LockAcquire, LockSpin, Waiting, ReserveStamp, BeginPillars,
       LoadStamps, ProfilePillar, CountIntervals, PassStamp, MeetOwnStamp, FirstAccess,
       StoreStamps, LockRelease, finiVars, vars
  <2>. QED
    BY <1>1, <2>1, RunsWhileRecording
<1>4. CASE AnySetFini
  <2>1. last' = LastWalk(0) /\ col'.line = 0 /\ UNCHANGED stamps
    BY <1>4 DEF AnySetFini, Fini, FirstStamp, tableVars
  <2>. QED
    BY <2>1, LastWalkHead DEF HeadOK
<1>5. CASE CollectPillar
  BY <1>5 DEF CollectPillar, vars, tableVars, finiVars, HeadOK
<1>6. CASE CollectIntervals
  BY <1>6, PillarAssumption DEF CollectIntervals, setVars, HeadOK
<1>7. CASE CollectLine
  <2>1. /\ last' = LastWalk(col.line + 1) /\ UNCHANGED stamps
        /\ stage' = "collect" => col'.line = col.line + 1
    <3>1. CASE col.line + 1 < NumLines
      BY <1>7, <3>1 DEF CollectLine, CollectNext, FirstStamp, tableVars
    <3>2. CASE ~ (col.line + 1 < NumLines)
      BY <1>7, <3>2 DEF CollectLine, CollectNext, tableVars
    <3>. QED
      BY <3>1, <3>2
  <2>. QED
    BY <2>1, LastWalkHead DEF HeadOK
<1>8. CASE Terminated \/ UNCHANGED anysetVars
  BY <1>8 DEF Terminated, anysetVars, setVars, vars, tableVars, finiVars, HeadOK
<1>. QED
  BY <1>2, <1>3, <1>4, <1>5, <1>6, <1>7, <1>8 DEF AnySetNext

\* Nothing is done when nothing changes.
LEMMA StutterGraph ==
  ASSUME GraphInv, UNCHANGED anysetVars
  PROVE  \A i \in Pillars, set \in ThreadSets : PillarOK(i, set)'
<1>1. /\ UNCHANGED <<gPillars, walk, last, pc, cur_addr, tempN, stamps, N, trace, stage, col>>
      /\ N \in Nat
  BY DEF anysetVars, setVars, vars, tableVars, accessVars, finiVars, GraphInv, GraphFacts,
     LevelInv, RefInv, SafeInv, TypeInv, TypeOK
<1>2. \A l \in Lines, i \in Pillars, x \in Nat \ {0} : Done(l, i, x)' <=> Done(l, i, x)
  BY <1>1 DEF Done, DoneAtEnd, Closed, CountedBy, Walking, Low, High, gPillarLengths
<1>. QED
  BY <1>1, <1>2, QuietPillars

\* Every step keeps the counts those of the windows done.
LEMMA NextPillars ==
  ASSUME GraphInv, [AnySetNext]_anysetVars
  PROVE  \A i \in Pillars, set \in ThreadSets : PillarOK(i, set)'
<1>1. ASSUME NEW t \in Threads, AnySetRecording(t)
      PROVE  \A i \in Pillars, set \in ThreadSets : PillarOK(i, set)'
  BY <1>1, QuietGraph, BeginGraph, ProfileGraph, StoreGraph DEF AnySetRecording
<1>2. ASSUME NEW t \in Threads, Lifecycle(t) \/ RecordMem(t), UNCHANGED setVars
      PROVE  \A i \in Pillars, set \in ThreadSets : PillarOK(i, set)'
  BY <1>2, QuietGraph
<1>3. CASE AnySetFini \/ CollectPillar \/ CollectIntervals \/ CollectLine
  BY <1>3, FiniGraph, CollectGraph, NextLineGraph
<1>4. CASE (Terminated /\ UNCHANGED setVars) \/ UNCHANGED anysetVars
  <2>1. UNCHANGED anysetVars
    BY <1>4 DEF Terminated, anysetVars
  <2>. QED
    BY <2>1, StutterGraph
<1>. QED
  BY <1>1, <1>2, <1>3, <1>4 DEF AnySetNext

\* Every step keeps the invariant of the sharing graph.
LEMMA NextGraphInv == GraphInv /\ [AnySetNext]_anysetVars => GraphInv'
<1>. SUFFICES ASSUME GraphInv, [AnySetNext]_anysetVars PROVE GraphInv'
  OBVIOUS
<1>1. [Next]_vars /\ LevelInv /\ TraceOK /\ SetInv /\ WalksOver /\ HeadOK /\ RefInv /\ Aligned
  BY NextIsRecorderStep DEF GraphInv, GraphFacts, LevelInv
<1>2. LevelInv' /\ TraceOK'
  <2>1. SafeInv' /\ LiveOK' /\ CollectOK'
    BY <1>1, NextSafeInv, NextLiveOK, NextCollectOK DEF RefInv, SafeInv
  <2>. QED
    BY <1>1, <2>1, NextTraceOK DEF LevelInv, RefInv
<1>3. SetInv' /\ WalksOver' /\ HeadOK'
  BY <1>1, NextSetInv, NextWalksOver, NextHeadOK
<1>4. \A i \in Pillars, set \in ThreadSets : PillarOK(i, set)'
  BY NextPillars
<1>5. Aligned'
  BY <1>1 DEF Aligned
<1>. QED
  BY <1>2, <1>3, <1>4, <1>5 DEF GraphInv, GraphFacts

\* At first nothing is done and nothing counted.
LEMMA InitGraphInv ==
  ASSUME Aligned, AnySetInit
  PROVE  GraphInv
<1>1. TypeInv /\ Safe /\ LiveOK /\ CollectOK /\ Init
  BY InitTypeInv, InitSafe DEF AnySetInit, Init, ThreadInit, LiveOK, Closed, CollectOK
<1>2. TraceOK
  BY <1>1 DEF Init, TraceOK, CurrentOf, StampedBy, Entered, Busy, EmptyStamps
<1>3. SetInv
  BY InitSetInv
<1>4. WalksOver /\ HeadOK
  BY <1>1 DEF Init, WalksOver, HeadOK
<1>5. LevelInv
  BY <1>1 DEF LevelInv, RefInv, SafeInv
<1>6. ASSUME NEW i \in Pillars, NEW set \in ThreadSets PROVE PillarOK(i, set)
  <2>1. PICK F : F = LinesDone(i, set)
    OBVIOUS
  <2>2. ASSUME NEW l \in Lines PROVE F[l] = 0
    <3>1. WindowsDone(l, i, set) = {}
      BY <1>1 DEF WindowsDone, Init
    <3>. QED
      BY <2>1, <3>1, FS_EmptySet DEF LinesDone
  <2>3. SumOf(F, Lines) = 0
    BY <2>2, FiniteData, SumZero
  <2>4. gPillars[i][set] = 0
    BY DEF AnySetInit, ThreadSets
  <2>. QED
    BY <2>1, <2>3, <2>4 DEF PillarOK
<1>. QED
  BY <1>2, <1>3, <1>4, <1>5, <1>6 DEF GraphInv, GraphFacts

\* The counts are those of the windows done, at any time.
LEMMA GraphInvariant ==
  ASSUME Aligned
  PROVE  AnySetSpec => []GraphInv
<1>1. AnySetInit => GraphInv
  BY InitGraphInv
<1>. QED
  BY <1>1, NextGraphInv, PTL DEF AnySetSpec

-----------------------------------------------------------------------------
(***************************************************************************)
(* The rows of a sharing graph: as ids are given out from the lowest, all  *)
(* ids in use are below the number of starts.                              *)
(***************************************************************************)
IdsOK == /\ \A t \in live : t < gThreadNum
         /\ \A x \in 1 .. N : trace[x].thread < gThreadNum

\* Every step keeps the ids below the number of starts.
LEMMA NextIdsOK == RefInv /\ TraceOK /\ IdsOK /\ [Next]_vars => IdsOK'
<1>. SUFFICES ASSUME RefInv, TraceOK, IdsOK, [Next]_vars PROVE IdsOK'
  OBVIOUS
<1>1. /\ live \subseteq Threads /\ gThreadNum \in Nat /\ SafeInv
      /\ N \in Nat /\ \A x \in 1 .. N : trace[x].thread \in Threads
  <2>1. SafeInv /\ N \in Nat /\ live \subseteq Threads /\ gThreadNum \in Nat
    BY ThreadAssumption DEF RefInv, SafeInv, TypeInv, TypeOK, ThreadTypeOK
  <2>. QED
    BY <2>1, TraceFacts
<1>2. ASSUME UNCHANGED <<N, trace, gThreadNum>>, live' \subseteq live PROVE IdsOK'
  BY <1>2 DEF IdsOK
<1>3. ASSUME NEW t \in Threads, Lifecycle(t) PROVE IdsOK'
  <2>1. UNCHANGED <<N, trace>>
    BY <1>3 DEF Lifecycle, tableVars
  <2>2. CASE ThreadStart(t)
    <3>1. /\ live' = live \cup {t} /\ gThreadNum' = gThreadNum + 1
          /\ \A u \in Threads : u < t => u \in live
      BY <2>2 DEF ThreadStart, MayStart
    <3>2. t < gThreadNum + 1
      <4>1. t \in Nat /\ t < NumThreads /\ NumThreads \in Nat
        BY ThreadIdAssumption DEF Threads
      <4>2. CASE t = 0
        BY <1>1, <4>2
      <4>3. CASE t # 0
        <5>1. t - 1 \in Threads /\ t - 1 < t
          BY <4>1, <4>3 DEF Threads
        <5>2. t - 1 < gThreadNum
          BY <3>1, <5>1 DEF IdsOK
        <5>. QED
          BY <1>1, <4>1, <5>2
      <4>. QED
        BY <4>2, <4>3
    <3>3. \A u \in Threads : u \in Int
      BY DEF Threads
    <3>. QED
      BY <1>1, <2>1, <3>1, <3>2, <3>3 DEF IdsOK
  <2>3. CASE ~ ThreadStart(t)
    BY <1>2, <1>3, <2>1, <2>3 DEF Lifecycle, ThreadFini, activate, deactivate
  <2>. QED
    BY <2>2, <2>3
<1>4. ASSUME NEW t \in Threads, ReserveStamp(t) PROVE IdsOK'
  <2>1. /\ pc[t] = "acquire" /\ UNCHANGED <<live, gThreadNum>> /\ N' = N + 1
        /\ trace' = Append(trace, [thread |-> t, access |-> acc[t]])
    BY <1>4 DEF ReserveStamp, threadVars
  <2>2. t \in live
    BY <2>1 DEF RefInv, LiveOK
  <2>3. \A x \in 1 .. N : trace'[x] = trace[x]
    BY <1>1, <1>4, ReserveTrace
  <2>4. trace'[N + 1].thread = t
    <3>1. trace \in Seq([thread : Threads, access : Accesses]) /\ Len(trace) = N
      BY <1>1 DEF SafeInv, TypeInv, TypeOK, TraceOK
    <3>2. trace'[N + 1] = [thread |-> t, access |-> acc[t]]
      BY <2>1, <3>1
    <3>. QED
      BY <3>2
  <2>5. \A x \in 1 .. N + 1 : x \in 1 .. N \/ x = N + 1
    BY <1>1
  <2>. QED
    BY <2>1, <2>2, <2>3, <2>4, <2>5 DEF IdsOK
<1>5. ASSUME NEW t \in Threads, RecordMem(t) \/ (Recording(t) /\ ~ ReserveStamp(t)) PROVE IdsOK'
  BY <1>2, <1>5 DEF RecordMem, Recording, LockAcquire, LockSpin, LoadStamps, PassStamp,
     MeetOwnStamp, FirstAccess, StoreStamps, LockRelease, threadVars, tableVars, vars
<1>6. CASE Fini \/ CollectStamp \/ CollectNext
  BY <1>2, <1>6 DEF Fini, CollectStamp, CollectNext, ThreadEnd, threadVars, tableVars
<1>7. CASE Terminated \/ UNCHANGED vars
  BY <1>2, <1>7 DEF Terminated, vars, threadVars, tableVars
<1>. QED
  BY <1>3, <1>4, <1>5, <1>6, <1>7 DEF Next

\* The ids are below the number of starts at any time.
LEMMA IdsInvariant ==
  ASSUME Aligned
  PROVE  AnySetSpec => []IdsOK
<1>1. AnySetInit => IdsOK
  BY DEF AnySetInit, Init, ThreadInit, IdsOK
<1>2. GraphInv /\ IdsOK /\ [AnySetNext]_anysetVars => IdsOK'
  BY NextIsRecorderStep, NextIdsOK DEF GraphInv, GraphFacts, LevelInv
<1>. QED
  BY <1>1, <1>2, GraphInvariant, PTL DEF AnySetSpec

\* The sum over the lines in the abstract sharing graph ...
GraphSum(i, set) ==
  MapThenSumSet(LAMBDA l : WindowsOfSet(trace, l, set, gPillarLengths(i)), Lines)

\* ... is that of a function.
LEMMA GraphSumIs ==
  ASSUME NEW i, NEW set, NEW F,
         \A l \in Lines : F[l] = WindowsOfSet(trace, l, set, gPillarLengths(i))
  PROVE  GraphSum(i, set) = SumOf(F, Lines)
<1>. DEFINE V(l) == WindowsOfSet(trace, l, set, gPillarLengths(i))
            P(h) == h = [u \in SUBSET Lines |->
                           IF u = {} THEN 0 ELSE V(Picked(u)) + h[u \ {Picked(u)}]]
<1>1. GraphSum(i, set) = (CHOOSE h : P(h))[Lines]
  BY Zenon DEF GraphSum, MapThenSumSet, MapThenFoldSet, Picked
<1>2. \A l \in Lines : F[l] = V(l)
  OBVIOUS
<1>. HIDE DEF V
<1>3. \A h : IsSum(F, Lines, h) <=> P(h)
  <2>1. \A u \in SUBSET Lines : u # {} => F[Picked(u)] = V(Picked(u))
    BY <1>2, PickedIn
  <2>. QED
    BY <2>1 DEF IsSum
<1>4. P(CHOOSE h : P(h))
  <2>1. \E h : P(h)
    BY <1>3, SumExists, FiniteData
  <2>. HIDE DEF P
  <2>. QED
    BY <2>1
<1>. HIDE DEF P
<1>. QED
  BY <1>1, <1>3, <1>4, SumIs, FiniteData

\* In the end, the windows done are all that the set shares.
LEMMA AllDone ==
  ASSUME GraphFacts, stage = "done", NEW l \in Lines, NEW i \in Pillars, NEW set \in ThreadSets
  PROVE  Cardinality(WindowsDone(l, i, set)) = WindowsOfSet(trace, l, set, gPillarLengths(i))
<1>1. /\ LevelInv /\ TraceOK /\ SafeInv /\ Aligned /\ N \in Nat /\ Len(trace) = N
      /\ stamps[l] \in StampLists /\ MostRecentFirst(stamps[l])
  BY DEF GraphFacts, LevelInv, RefInv, SafeInv, Safe, ListsSorted, TypeInv, TypeOK, TraceOK
<1>2. PICK len \in Nat \ {0} : len = gPillarLengths(i)
  BY LengthType DEF Pillars
<1>3. Closed
  BY DEF Closed
<1>4. ASSUME NEW x \in Nat \ {0}, x + len - 1 <= N, Sharers(trace, l, x, len) = set
      PROVE  Done(l, i, x)
  <2>1. PICK u \in set : TRUE
    BY DEF ThreadSets
  <2>2. PICK y \in x .. x + len - 1 : l \in Touched(trace[y].access) /\ u = trace[y].thread
    BY <1>4, <2>1 DEF Sharers
  <2>3. y \in 1 .. N
    BY <1>1, <1>2, <1>4, <2>2
  <2>4. l \in LinesOf(trace[y].access) /\ u \in Threads
    BY <1>1, <2>2, <2>3, TraceFacts DEF Aligned
  <2>5. y <= stamps[l].latest[u]
    BY <1>1, <1>3, <2>2, <2>3, <2>4, CaughtUpAtEnd
  <2>6. stamps[l].head # NIL
    <3>1. stamps[l].latest[u] # 0
      BY <2>3, <2>5
    <3>. QED
      BY <1>1, <2>4, <3>1 DEF MostRecentFirst
  <2>7. x <= High(N + 1, i)
    BY <1>1, <1>2, <1>4 DEF High
  <2>. QED
    BY <1>3, <2>6, <2>7 DEF Done, DoneAtEnd
<1>5. \A x \in Nat \ {0} : Done(l, i, x) => x + len - 1 <= N
  BY <1>1, <1>2, DoneWithin
<1>6. \A x : x \in 1 .. N - len + 1 <=> x \in Nat \ {0} /\ x + len - 1 <= N
  BY <1>1, <1>2
<1>7. \A x : x \in 1 .. N => x \in Nat \ {0}
  BY <1>1
<1>8. \A x : x \in Nat \ {0} /\ x + len - 1 <= N => x \in 1 .. N
  BY <1>1, <1>2
<1>9. WindowsDone(l, i, set) = {x \in 1 .. N : Done(l, i, x) /\ Sharers(trace, l, x, len) = set}
  BY <1>2 DEF WindowsDone
<1>10. WindowsDone(l, i, set) = {x \in 1 .. N - len + 1 : Sharers(trace, l, x, len) = set}
  BY <1>4, <1>5, <1>6, <1>7, <1>8, <1>9
<1>. QED
  BY <1>1, <1>2, <1>10 DEF WindowsOfSet

\* A set with a thread that never was has no windows.
LEMMA NoRowNoWindows ==
  ASSUME GraphFacts, IdsOK, NEW l \in Lines, NEW i \in Pillars, NEW set \in ThreadSets,
         ~ (set \subseteq 0 .. gThreadNum - 1)
  PROVE  WindowsDone(l, i, set) = {}
<1>1. /\ LevelInv /\ TraceOK /\ SafeInv /\ N \in Nat /\ gThreadNum \in Nat
  BY ThreadAssumption DEF GraphFacts, LevelInv, RefInv, SafeInv, TypeInv, TypeOK, ThreadTypeOK
<1>2. PICK len \in Nat \ {0} : len = gPillarLengths(i)
  BY LengthType DEF Pillars
<1>3. SUFFICES ASSUME NEW x \in WindowsDone(l, i, set) PROVE FALSE
  OBVIOUS
<1>4. x \in 1 .. N /\ Done(l, i, x) /\ Sharers(trace, l, x, len) = set
  BY <1>2, <1>3 DEF WindowsDone
<1>5. x \in Nat \ {0} /\ x + len - 1 <= N
  <2>1. x \in Nat \ {0}
    BY <1>1, <1>4
  <2>. QED
    BY <1>1, <1>2, <1>4, <2>1, DoneWithin
<1>6. ASSUME NEW u \in set PROVE u \in 0 .. gThreadNum - 1
  <2>1. PICK y \in x .. x + len - 1 : u = trace[y].thread
    BY <1>4, <1>6 DEF Sharers
  <2>2. y \in 1 .. N
    BY <1>1, <1>2, <1>5, <2>1
  <2>3. u < gThreadNum
    BY <2>1, <2>2 DEF IdsOK
  <2>4. u \in Nat
    BY <1>6 DEF ThreadSets, Threads
  <2>. QED
    BY <1>1, <2>3, <2>4
<1>. QED
  BY <1>6

\* The graph that is written is the sharing graph of the trace.
LEMMA GraphWritten ==
  ASSUME GraphInv, IdsOK, stage = "done", NEW i \in Pillars, NEW set \in ThreadSets
  PROVE  (IF set \in SharingRows(i) THEN gPillars[i][set] ELSE 0) = GraphSum(i, set)
<1>1. PICK F : F = LinesDone(i, set)
  OBVIOUS
<1>2. \A l \in Lines : F[l] = Cardinality(WindowsDone(l, i, set))
  BY <1>1 DEF LinesDone
<1>3. \A l \in Lines : F[l] = WindowsOfSet(trace, l, set, gPillarLengths(i))
  BY <1>2, AllDone DEF GraphInv
<1>4. GraphSum(i, set) = SumOf(F, Lines)
  BY <1>3, GraphSumIs
<1>5. gPillars[i][set] = SumOf(F, Lines)
  BY <1>1 DEF GraphInv, PillarOK
<1>6. CASE set \subseteq 0 .. gThreadNum - 1
  <2>1. set \in SharingRows(i) <=> gPillars[i][set] # 0
    BY <1>6 DEF SharingRows, ThreadSets
  <2>. QED
    BY <1>4, <1>5, <2>1
<1>7. CASE ~ (set \subseteq 0 .. gThreadNum - 1)
  <2>1. \A l \in Lines : F[l] = 0
    BY <1>2, <1>7, NoRowNoWindows, FS_EmptySet DEF GraphInv
  <2>2. SumOf(F, Lines) = 0
    BY <2>1, FiniteData, SumZero
  <2>3. set \notin SharingRows(i)
    BY <1>7 DEF SharingRows
  <2>. QED
    BY <1>4, <2>2, <2>3
<1>. QED
  BY <1>6, <1>7

\* The files of the sharing graphs hold, for every pillar within the trace,
\* and every set of threads, the number of windows and lines that exactly
\* these threads share: BuildSharingGraph leaves out no set that has any, and
\* the walks of RecordMem and of CollectLastAccesses count every window once.
THEOREM SharingGraphExact ==
  ASSUME Aligned
  PROVE  AnySetSpec => []SharingGraphIsExact
<1>1. GraphInv /\ IdsOK => SharingGraphIsExact
  <2>. SUFFICES ASSUME GraphInv, IdsOK, stage = "done", NEW i \in Written, NEW set \in ThreadSets
                PROVE  (IF set \in SharingRows(i) THEN gPillars[i][set] ELSE 0) = GraphSum(i, set)
    BY DEF SharingGraphIsExact, ThreadSets, GraphSum
  <2>1. i \in Pillars
    BY DEF Written
  <2>. QED
    BY <2>1, GraphWritten
<1>. QED
  BY <1>1, GraphInvariant, IdsInvariant, PTL
-----------------------------------------------------------------------------
(***************************************************************************)
(* The script that composes the footprints of groups of threads: the files *)
(* it reads and what it takes them for, the proportions it interpolates,   *)
(* and the footprints that come out for the lengths of the pillars.        *)
(***************************************************************************)
\* The files read are those from the lowest pillar on, without a gap.
LEMMA FilesInOrder ==
  /\ NumGraphs \in Nat
  /\ FilesRead = lowest_pillar .. lowest_pillar + NumGraphs - 1
  /\ NumGraphs > 0 => lowest_pillar + NumGraphs - 1 <= MaxSuffix
<1>1. lowest_pillar \in Nat /\ MaxSuffix \in Int
  BY OptionAssumption DEF MaxSuffix
<1>2. CASE FilesRead = {}
  <2>1. NumGraphs = 0
    BY <1>2, FS_EmptySet DEF NumGraphs
  <2>. QED
    BY <1>1, <1>2, <2>1
<1>3. CASE FilesRead # {}
  <2>1. FilesRead \subseteq lowest_pillar .. MaxSuffix
    BY DEF FilesRead
  <2>2. PICK m \in FilesRead : \A e \in FilesRead : e <= m
    <3>1. PICK f : f = [e \in FilesRead |-> e]
      OBVIOUS
    <3>2. f \in [FilesRead -> Int] /\ \A e \in FilesRead : f[e] <= MaxSuffix /\ f[e] = e
      BY <1>1, <2>1, <3>1
    <3>3. \E x \in FilesRead : \A y \in FilesRead : f[y] <= f[x]
      BY <1>1, <1>3, <3>2, GreatestValue
    <3>. QED
      BY <3>2, <3>3
  <2>3. m \in lowest_pillar .. MaxSuffix
    BY <2>1
  <2>4. FilesRead = lowest_pillar .. m
    <3>1. ASSUME NEW e \in FilesRead PROVE e \in lowest_pillar .. m
      BY <1>1, <2>1, <2>2, <2>3
    <3>2. ASSUME NEW e \in lowest_pillar .. m PROVE e \in FilesRead
      <4>1. e \in lowest_pillar .. MaxSuffix /\ lowest_pillar .. e \subseteq lowest_pillar .. m
        BY <1>1, <2>3
      <4>2. \A d \in lowest_pillar .. m : \E i \in Written : Suffix(i) = d
        BY <2>2 DEF FilesRead
      <4>. QED
        BY <4>1, <4>2 DEF FilesRead
    <3>. QED
      BY <3>1, <3>2
  <2>5. NumGraphs = m - lowest_pillar + 1
    BY <1>1, <2>3, <2>4, FS_Interval DEF NumGraphs
  <2>. QED
    BY <1>1, <2>3, <2>4, <2>5
<1>. QED
  BY <1>2, <1>3

\* The rows of sharing graph j are those of the pillar with its suffix.
LEMMA FileOf ==
  ASSUME NEW j \in 0 .. NumGraphs - 1
  PROVE  /\ j \in Nat
         /\ File(j) \in Written /\ File(j) \in Pillars /\ File(j) \in Nat
         /\ File(j) = lowest_pillar + j - gLowestPillar
<1>1. /\ lowest_pillar \in Nat /\ NumGraphs \in Nat /\ gLowestPillar \in Nat
      /\ Pillars \subseteq Nat /\ Written \subseteq Pillars
  BY FilesInOrder, OptionAssumption, PillarAssumption DEF Pillars, Written
<1>2. lowest_pillar + j \in FilesRead
  BY <1>1, FilesInOrder
<1>3. PICK i \in Written : Suffix(i) = lowest_pillar + j
  <2>1. lowest_pillar + j \in lowest_pillar .. lowest_pillar + j
    BY <1>1
  <2>. QED
    BY <1>2, <2>1 DEF FilesRead
<1>4. \A p \in Pillars : Suffix(p) = lowest_pillar + j => p = lowest_pillar + j - gLowestPillar
  BY <1>1 DEF Suffix
<1>5. File(j) = i
  BY <1>1, <1>3, <1>4 DEF File
<1>. QED
  BY <1>1, <1>3, <1>4, <1>5

-----------------------------------------------------------------------------
(***************************************************************************)
(* The phases.  Rows at most double from one to the next and pillars at    *)
(* least, so the script, which moves on by at most one pillar per row,     *)
(* never falls behind.                                                     *)
(***************************************************************************)
\* The windows of the rows, from that of row 0, which is empty.
LEMMA RowsGrow ==
  ASSUME NEW row \in Nat
  PROVE  /\ RowWindow(row) \in Nat
         /\ row = 0 => RowWindow(row) = 0 /\ RowWindow(row + 1) = 1
         /\ RowWindow(row) <= RowWindow(row + 1)
         /\ row # 0 => RowWindow(row + 1) <= 2 * RowWindow(row)
<1>1. RowWindow(row) \in Nat /\ RowWindow(row + 1) \in Nat
  BY BucketValue DEF RowWindow
<1>2. CASE row = 0
  <2>1. 0 \div SubBuckets = 0 /\ 1 \div SubBuckets = 0
    <3>1. 1 < SubBuckets
      <4>1. SublogBits < SubBuckets /\ SublogBits \in Nat \ {0}
        BY SublogAssumption, PowerAbove DEF SubBuckets
      <4>. QED
        BY <4>1, SubBucketsType
    <3>. QED
      BY <3>1, SubBucketsType
  <2>2. RowWindow(row) = 0 /\ RowWindow(row + 1) = 1
    BY <1>2, <2>1 DEF RowWindow, sublog_index_to_value
  <2>. QED
    BY <1>1, <1>2, <2>2
<1>3. CASE row # 0
  BY <1>1, <1>3, NextBucket DEF RowWindow
<1>. QED
  BY <1>2, <1>3

\* The windows of the pillars.
LEMMA PillarsGrow ==
  ASSUME NEW p \in Nat
  PROVE  PillarLength(p) \in Nat \ {0} /\ 2 * PillarLength(p) <= PillarLength(p + 1)
<1>1. PICK c \in Nat \ {0} : c = 2 ^ pillar_step
  BY OptionAssumption, PowerOfTwo
<1>2. PICK d \in Nat : d = (lowest_pillar + p) * c
  BY OptionAssumption
<1>3. PICK e \in Nat : e = (lowest_pillar + (p + 1)) * c
  BY OptionAssumption
<1>4. PICK a \in Nat : a = lowest_pillar + p
  BY OptionAssumption
<1>5. lowest_pillar + (p + 1) = a + 1 /\ (a + 1) * c = a * c + c /\ a * c \in Nat
  BY <1>1, <1>4, OptionAssumption
<1>6. e = d + c /\ d + 1 <= e
  BY <1>1, <1>2, <1>3, <1>4, <1>5
<1>7. PillarLength(p) = 2 ^ d /\ PillarLength(p + 1) = 2 ^ e
  BY <1>1, <1>2, <1>3 DEF PillarLength
<1>8. 2 ^ d \in Nat \ {0} /\ 2 ^ (d + 1) = 2 * 2 ^ d
  BY <1>2, PowerOfTwo
<1>9. 2 ^ (d + 1) <= 2 ^ e
  <2>1. d + 1 \in Nat
    BY <1>2
  <2>. QED
    BY <1>3, <1>6, <2>1, PowerGrows
<1>. QED
  BY <1>7, <1>8, <1>9

\* What the script means the phase to be: the first pillar that is not shorter
\* than the windows of the row, or NumGraphs if all are.
IsPhase(row, p) ==
  /\ p \in 0 .. NumGraphs
  /\ p < NumGraphs => RowWindow(row) <= PillarLength(p)
  /\ \A q \in 0 .. p - 1 : RowWindow(row) > PillarLength(q)

\* Every row has a phase, and one only.
LEMMA PhaseExists ==
  ASSUME NEW row \in Nat
  PROVE  /\ \E p : IsPhase(row, p)
         /\ \A p, q : IsPhase(row, p) /\ IsPhase(row, q) => p = q
<1>1. NumGraphs \in Nat
  BY FilesInOrder
<1>2. \A p \in Nat : PillarLength(p) \in Int /\ RowWindow(row) \in Int
  BY RowsGrow, PillarsGrow
<1>3. \E p : IsPhase(row, p)
  <2>1. PICK P : P = {p \in 0 .. NumGraphs : p = NumGraphs \/ RowWindow(row) <= PillarLength(p)}
    OBVIOUS
  <2>2. P \subseteq Nat /\ NumGraphs \in P
    BY <1>1, <2>1
  <2>3. PICK p \in P : \A q \in P : p <= q
    BY <2>2, LeastElement
  <2>4. ASSUME NEW q \in 0 .. p - 1 PROVE RowWindow(row) > PillarLength(q)
    <3>1. q \in 0 .. NumGraphs /\ q # NumGraphs /\ ~ (p <= q) /\ q \in Nat
      BY <1>1, <2>1
    <3>2. ~ (RowWindow(row) <= PillarLength(q))
      BY <2>1, <2>3, <3>1
    <3>. QED
      BY <1>2, <3>1, <3>2
  <2>5. p \in 0 .. NumGraphs /\ (p < NumGraphs => RowWindow(row) <= PillarLength(p))
    BY <1>1, <2>1
  <2>. QED
    BY <2>4, <2>5 DEF IsPhase
<1>4. ASSUME NEW p, NEW q, IsPhase(row, p), IsPhase(row, q), p < q PROVE FALSE
  <2>1. p \in 0 .. NumGraphs /\ q \in 0 .. NumGraphs /\ p \in Nat
    BY <1>1, <1>4 DEF IsPhase
  <2>2. p < NumGraphs /\ p \in 0 .. q - 1
    BY <1>1, <1>4, <2>1
  <2>3. RowWindow(row) <= PillarLength(p) /\ RowWindow(row) > PillarLength(p)
    BY <1>4, <2>2 DEF IsPhase
  <2>. QED
    BY <1>2, <2>1, <2>3
<1>5. ASSUME NEW p, NEW q, IsPhase(row, p), IsPhase(row, q) PROVE p = q
  <2>1. p \in Int /\ q \in Int
    BY <1>1, <1>5 DEF IsPhase
  <2>2. ~ (p < q) /\ ~ (q < p)
    BY <1>4, <1>5
  <2>. QED
    BY <2>1, <2>2
<1>. QED
  BY <1>3, <1>5

\* The phase after that of the row before.
PhaseAfter(row, p) == IF p < NumGraphs /\ LongerThan(row, p) THEN p + 1 ELSE p

\* Moving on by one pillar is enough.
LEMMA PhaseGrows ==
  ASSUME NEW row \in Nat \ {0}, NEW p, IsPhase(row - 1, p)
  PROVE  IsPhase(row, PhaseAfter(row, p))
<1>1. NumGraphs \in Nat /\ p \in 0 .. NumGraphs /\ p \in Nat
  BY FilesInOrder DEF IsPhase
<1>2. PICK x \in Nat, y \in Nat :
           /\ x = RowWindow(row - 1) /\ y = RowWindow(row)
           /\ x <= y /\ (row # 1 => y <= 2 * x) /\ (row = 1 => y = 1)
  <2>1. row - 1 \in Nat /\ (row - 1) + 1 = row
    OBVIOUS
  <2>2. RowWindow(row - 1) \in Nat /\ RowWindow(row) \in Nat
    BY <2>1, RowsGrow
  <2>3. /\ RowWindow(row - 1) <= RowWindow(row)
        /\ row - 1 # 0 => RowWindow(row) <= 2 * RowWindow(row - 1)
        /\ row - 1 = 0 => RowWindow(row) = 1
    BY <2>1, RowsGrow
  <2>. QED
    BY <2>2, <2>3
<1>3. \A q \in Nat : PillarLength(q) \in Nat /\ 1 <= PillarLength(q)
  <2>. TAKE q \in Nat
  <2>1. PillarLength(q) \in Nat \ {0}
    BY PillarsGrow
  <2>. QED
    BY <2>1
<1>4. \A q \in 0 .. p - 1 : y > PillarLength(q)
  <2>. TAKE q \in 0 .. p - 1
  <2>1. x > PillarLength(q) /\ q \in Nat
    BY <1>1, <1>2 DEF IsPhase
  <2>. QED
    BY <1>2, <1>3, <2>1
<1>5. CASE ~ (p < NumGraphs /\ LongerThan(row, p))
  <2>1. p < NumGraphs => y <= PillarLength(p)
    BY <1>1, <1>2, <1>3, <1>5 DEF LongerThan
  <2>2. PhaseAfter(row, p) = p
    BY <1>5 DEF PhaseAfter
  <2>. QED
    BY <1>1, <1>2, <1>4, <2>1, <2>2 DEF IsPhase
<1>6. CASE p < NumGraphs /\ LongerThan(row, p)
  <2>1. y > PillarLength(p) /\ x <= PillarLength(p)
    BY <1>2, <1>6 DEF LongerThan, IsPhase
  <2>2. y <= PillarLength(p + 1)
    <3>1. 2 * PillarLength(p) <= PillarLength(p + 1) /\ PillarLength(p + 1) \in Nat
      BY <1>1, <1>3, PillarsGrow
    <3>2. CASE row # 1
      BY <1>1, <1>2, <1>3, <2>1, <3>1, <3>2
    <3>3. CASE row = 1
      BY <1>1, <1>2, <1>3, <2>1, <3>1, <3>3
    <3>. QED
      BY <3>2, <3>3
  <2>3. \A q \in 0 .. p + 1 - 1 : y > PillarLength(q)
    <3>. TAKE q \in 0 .. p + 1 - 1
    <3>1. q \in 0 .. p - 1 \/ q = p
      BY <1>1
    <3>. QED
      BY <1>4, <2>1, <3>1
  <2>4. PhaseAfter(row, p) = p + 1 /\ p + 1 \in 0 .. NumGraphs
    BY <1>1, <1>6 DEF PhaseAfter
  <2>. QED
    BY <1>2, <2>2, <2>3, <2>4 DEF IsPhase
<1>. QED
  BY <1>5, <1>6

\* The phases the script computes are what they are meant to be.
LEMMA PhaseIs ==
  ASSUME sublog_value_to_index(N) \in Nat, NEW row \in 0 .. sublog_value_to_index(N)
  PROVE  IsPhase(row, Phase[row])
<1>. DEFINE top == sublog_value_to_index(N)
            PhaseFrom(h, r) == IF r = 0 THEN 0 ELSE PhaseAfter(r, h[r - 1])
            P(h) == h = [r \in 0 .. top |-> PhaseFrom(h, r)]
            W == [r \in 0 .. top |-> CHOOSE p : IsPhase(r, p)]
<1>1. Phase = CHOOSE h : P(h)
  BY Zenon DEF Phase, PhaseAfter
<1>2. \A r \in Nat : r # 0 => r - 1 \in Nat
  OBVIOUS
<1>3. top \in Nat
  OBVIOUS
<1>. HIDE DEF top
<1>4. IsPhase(0, 0)
  <2>1. RowWindow(0) = 0 /\ PillarLength(0) \in Nat /\ NumGraphs \in Nat
    BY RowsGrow, PillarsGrow, FilesInOrder
  <2>. QED
    BY <2>1 DEF IsPhase
<1>5. ASSUME NEW h, NEW r \in 0 .. top, r # 0 => IsPhase(r - 1, h[r - 1])
      PROVE  IsPhase(r, PhaseFrom(h, r))
  <2>1. CASE r = 0
    BY <1>4, <2>1
  <2>2. CASE r # 0
    <3>1. r \in Nat \ {0}
      BY <1>3, <2>2
    <3>. QED
      BY <1>5, <2>2, <3>1, PhaseGrows
  <2>. QED
    BY <2>1, <2>2
<1>6. P(W)
  <2>1. \A r \in 0 .. top : IsPhase(r, W[r])
    <3>. TAKE r \in 0 .. top
    <3>1. r \in Nat
      BY <1>3
    <3>2. \E p : IsPhase(r, p)
      BY <3>1, PhaseExists
    <3>. QED
      BY <3>2
  <2>. HIDE DEF W
  <2>2. \A r \in 0 .. top : W[r] = PhaseFrom(W, r)
    <3>. TAKE r \in 0 .. top
    <3>1. r # 0 => r - 1 \in 0 .. top
      BY <1>3
    <3>2. IsPhase(r, PhaseFrom(W, r))
      BY <1>5, <2>1, <3>1
    <3>3. r \in Nat
      BY <1>3
    <3>. HIDE DEF PhaseFrom
    <3>. QED
      BY <2>1, <3>2, <3>3, PhaseExists
  <2>3. W = [r \in 0 .. top |-> W[r]]
    BY DEF W
  <2>. HIDE DEF PhaseFrom
  <2>. QED
    BY <2>2, <2>3
<1>7. P(Phase)
  <2>1. \E h : P(h)
    BY <1>6
  <2>. HIDE DEF P
  <2>. QED
    BY <1>1, <2>1
<1>8. PICK Bad : Bad = {r \in 0 .. top : ~ IsPhase(r, Phase[r])}
  OBVIOUS
<1>9. SUFFICES ASSUME Bad # {} PROVE FALSE
  BY <1>8 DEF top
<1>10. PICK r \in Bad : \A q \in Bad : r <= q
  <2>1. Bad \subseteq Nat
    BY <1>3, <1>8
  <2>. QED
    BY <1>9, <2>1, LeastElement
<1>11. r \in 0 .. top /\ ~ IsPhase(r, Phase[r])
  BY <1>8
<1>12. r # 0 => IsPhase(r - 1, Phase[r - 1])
  <2>1. ASSUME r # 0 PROVE r - 1 \in 0 .. top /\ ~ (r <= r - 1)
    BY <1>3, <1>11, <2>1
  <2>. QED
    BY <1>8, <1>10, <2>1
<1>13. Phase[r] = PhaseFrom(Phase, r)
  <2>. HIDE DEF PhaseFrom
  <2>. QED
    BY <1>7, <1>11
<1>. HIDE DEF PhaseFrom
<1>. QED
  BY <1>5, <1>11, <1>12, <1>13
-----------------------------------------------------------------------------
(***************************************************************************)
(* The proportions.                                                        *)
(***************************************************************************)
\* A proportion is a fraction between 0 and 1.
IsProportion(c) == /\ c.num \in Nat /\ c.den \in Nat \ {0}
                   /\ c.num <= c.den

\* A sum over rows of a sharing graph ...
RowSum(i, S) == MapThenSumSet(LAMBDA g : gPillars[i][g], S)

\* ... is that of a function.
LEMMA RowSumIs ==
  ASSUME NEW i, NEW S, IsFiniteSet(S), NEW F, \A g \in S : F[g] = gPillars[i][g]
  PROVE  RowSum(i, S) = SumOf(F, S)
<1>. DEFINE V(g) == gPillars[i][g]
            P(h) == h = [u \in SUBSET S |->
                           IF u = {} THEN 0 ELSE V(Picked(u)) + h[u \ {Picked(u)}]]
<1>1. RowSum(i, S) = (CHOOSE h : P(h))[S]
  BY Zenon DEF RowSum, MapThenSumSet, MapThenFoldSet, Picked
<1>2. \A g \in S : F[g] = V(g)
  OBVIOUS
<1>. HIDE DEF V
<1>3. \A h : IsSum(F, S, h) <=> P(h)
  <2>1. \A u \in SUBSET S : u # {} => F[Picked(u)] = V(Picked(u))
    BY <1>2, PickedIn
  <2>. QED
    BY <2>1 DEF IsSum
<1>4. P(CHOOSE h : P(h))
  <2>1. \E h : P(h)
    BY <1>3, SumExists
  <2>. HIDE DEF P
  <2>. QED
    BY <2>1
<1>. HIDE DEF P
<1>. QED
  BY <1>1, <1>3, <1>4, SumIs

\* The sets of k threads of a sharing graph, and those of them with a thread
\* of the group.
RowsOfDegree(j, k) == {g \in SharingRows(File(j)) : Cardinality(g) = k}

RowsOfGroup(j, k, b) ==
  {g \in SharingRows(File(j)) : Cardinality(g) = k /\ g \cap b # {}}

\* The weights are sums over these.
LEMMA WeightsAreSums ==
  /\ \A j, k : Weight(j, k) = RowSum(File(j), RowsOfDegree(j, k))
  /\ \A j, k, b : Portion(j, k, b) = RowSum(File(j), RowsOfGroup(j, k, b))
BY Zenon DEF Weight, Portion, RowSum, RowsOfDegree, RowsOfGroup

\* The part of a group is no more than all.
LEMMA PortionBound ==
  ASSUME AnySetTypeOK, NEW j \in 0 .. NumGraphs - 1, NEW k, NEW b
  PROVE  /\ Portion(j, k, b) \in Nat /\ Weight(j, k) \in Nat
         /\ Portion(j, k, b) <= Weight(j, k)
         /\ IsProportion(Proportion(j, k, b))
<1>1. PICK i \in Pillars : i = File(j)
  BY FileOf
<1>2. PICK S : S = RowsOfDegree(j, k)
  OBVIOUS
<1>3. PICK T : T = RowsOfGroup(j, k, b)
  OBVIOUS
<1>4. S \subseteq SUBSET Threads /\ T \subseteq S
  BY <1>2, <1>3 DEF RowsOfDegree, RowsOfGroup, SharingRows
<1>5. IsFiniteSet(S) /\ IsFiniteSet(T)
  <2>1. IsFiniteSet(SUBSET Threads)
    BY ThreadCount, FS_SUBSET
  <2>2. IsFiniteSet(S)
    BY <1>4, <2>1, FS_Subset
  <2>. QED
    BY <1>4, <2>2, FS_Subset
<1>6. PICK F : F = gPillars[i]
  OBVIOUS
<1>7. \A g \in S : F[g] \in Nat
  BY <1>4, <1>6 DEF AnySetTypeOK
<1>8. Weight(j, k) = SumOf(F, S)
  BY <1>1, <1>2, <1>5, <1>6, WeightsAreSums, RowSumIs
<1>9. Portion(j, k, b) = SumOf(F, T)
  BY <1>1, <1>3, <1>5, <1>6, WeightsAreSums, RowSumIs
<1>10. /\ Portion(j, k, b) \in Nat /\ Weight(j, k) \in Nat
       /\ Portion(j, k, b) <= Weight(j, k)
  BY <1>4, <1>5, <1>7, <1>8, <1>9, SumOfSome
<1>11. IsProportion(Proportion(j, k, b))
  BY <1>10 DEF IsProportion, Proportion, Fraction
<1>. QED
  BY <1>10, <1>11

\* A product of naturals is no more than that of greater ones.
LEMMA ProductBound ==
  ASSUME NEW a \in Nat, NEW b \in Nat, NEW c \in Nat, a <= b
  PROVE  a * c \in Nat /\ b * c \in Nat /\ c * a = a * c /\ c * b = b * c /\ a * c <= b * c
<1>1. b = a + (b - a) /\ b - a \in Nat
  OBVIOUS
<1>2. b * c = a * c + (b - a) * c /\ (b - a) * c \in Nat /\ a * c \in Nat
  BY <1>1
<1>. QED
  BY <1>2

\* Between two proportions there are only proportions.
LEMMA BetweenProportions ==
  ASSUME NEW a, IsProportion(a), NEW c, IsProportion(c),
         NEW x \in Nat, NEW y \in Nat \ {0}, x <= y
  PROVE  IsProportion(Interpolated(a, c, x, y))
<1>1. PICK an \in Nat, ad \in Nat \ {0}, cn \in Nat, cd \in Nat \ {0} :
           an = a.num /\ ad = a.den /\ cn = c.num /\ cd = c.den /\ an <= ad /\ cn <= cd
  BY DEF IsProportion
<1>2. PICK p \in Nat : p = an * cd
  OBVIOUS
<1>3. PICK q \in Nat : q = cn * ad
  OBVIOUS
<1>4. PICK d \in Nat : d = ad * cd
  OBVIOUS
<1>5. p <= d /\ q <= d /\ d # 0
  <2>1. an * cd <= ad * cd
    BY <1>1, ProductBound
  <2>2. cn * ad <= cd * ad /\ cd * ad = ad * cd
    BY <1>1, ProductBound
  <2>3. ad * cd # 0
    BY <1>1
  <2>. QED
    BY <1>2, <1>3, <1>4, <2>1, <2>2, <2>3
<1>6. PICK z \in Nat : z = y - x
  OBVIOUS
<1>7. p * y + x * (q - p) = p * z + q * x
  <2>1. y = x + z
    BY <1>6
  <2>2. p * (x + z) = p * x + p * z
    OBVIOUS
  <2>3. x * (q - p) = q * x - p * x
    OBVIOUS
  <2>4. p * x \in Int /\ p * z \in Int /\ q * x \in Int
    OBVIOUS
  <2>. QED
    BY <2>1, <2>2, <2>3, <2>4
<1>8. d * y = d * z + d * x
  <2>1. y = z + x
    BY <1>6
  <2>. QED
    BY <2>1
<1>9. /\ p * z \in Nat /\ d * z \in Nat /\ p * z <= d * z
      /\ q * x \in Nat /\ d * x \in Nat /\ q * x <= d * x
  <2>1. p * z \in Nat /\ d * z \in Nat /\ p * z <= d * z
    BY <1>5, ProductBound
  <2>2. q * x \in Nat /\ d * x \in Nat /\ q * x <= d * x
    BY <1>5, ProductBound
  <2>. QED
    BY <2>1, <2>2
<1>10. PICK e \in Nat, f \in Nat : e = p * z + q * x /\ f = d * y
  BY <1>8, <1>9
<1>11. e <= f
  BY <1>8, <1>9, <1>10
<1>12. f # 0
  BY <1>5, <1>10
<1>13. Interpolated(a, c, x, y) = Fraction(p * y + x * (q - p), d * y)
  BY <1>1, <1>2, <1>3, <1>4 DEF Interpolated
<1>14. Interpolated(a, c, x, y) = Fraction(e, f)
  BY <1>7, <1>10, <1>13
<1>. QED
  BY <1>11, <1>12, <1>14 DEF IsProportion, Fraction

\* The phase of a row, as far as the proportions need it.
LEMMA PhaseOfRow ==
  ASSUME sublog_value_to_index(N) \in Nat, NEW row \in Rows, NumGraphs > 0,
         NEW p, p = Phase[row]
  PROVE  /\ p \in 0 .. NumGraphs
         /\ p = NumGraphs => p - 1 \in 0 .. NumGraphs - 1
         /\ p # NumGraphs => p \in 0 .. NumGraphs - 1
         /\ p # NumGraphs /\ p # 0 =>
              /\ p - 1 \in 0 .. NumGraphs - 1
              /\ PillarLength(p - 1) \in Nat /\ PillarLength(p) \in Nat /\ RowWindow(row) \in Nat
              /\ RowWindow(row) > PillarLength(p - 1)
              /\ RowWindow(row) <= PillarLength(p)
<1>1. row \in 0 .. sublog_value_to_index(N) /\ row \in Nat
  BY DEF Rows
<1>2. IsPhase(row, p)
  BY <1>1, PhaseIs
<1>3. NumGraphs \in Nat /\ p \in 0 .. NumGraphs
  BY <1>2, FilesInOrder DEF IsPhase
<1>4. ASSUME p # NumGraphs, p # 0
      PROVE  /\ p - 1 \in 0 .. NumGraphs - 1
             /\ PillarLength(p - 1) \in Nat /\ PillarLength(p) \in Nat /\ RowWindow(row) \in Nat
             /\ RowWindow(row) > PillarLength(p - 1)
             /\ RowWindow(row) <= PillarLength(p)
  <2>1. p - 1 \in 0 .. NumGraphs - 1 /\ p - 1 \in 0 .. p - 1 /\ p - 1 \in Nat /\ p \in Nat
        /\ p < NumGraphs
    BY <1>3, <1>4
  <2>2. PillarLength(p - 1) \in Nat /\ PillarLength(p) \in Nat /\ RowWindow(row) \in Nat
    BY <1>1, <2>1, PillarsGrow, RowsGrow
  <2>. QED
    BY <1>2, <2>1, <2>2 DEF IsPhase
<1>. QED
  BY <1>3, <1>4

\* The proportion of a row is one.
LEMMA RowBounded ==
  ASSUME AnySetTypeOK, sublog_value_to_index(N) \in Nat, NumGraphs > 0,
         NEW row \in Rows, NEW k, NEW b
  PROVE  IsProportion(RowProportion(k, row, b))
<1>1. PICK p : p = Phase[row]
  OBVIOUS
<1>2. p \in 0 .. NumGraphs /\ NumGraphs \in Nat
  BY <1>1, PhaseOfRow, FilesInOrder
<1>3. CASE p = 0
  <2>1. p \in 0 .. NumGraphs - 1
    BY <1>2, <1>3
  <2>2. RowProportion(k, row, b) = Proportion(p, k, b)
    BY <1>1, <1>3 DEF RowProportion
  <2>. QED
    BY <2>1, <2>2, PortionBound
<1>4. CASE p = NumGraphs /\ p # 0
  <2>1. p - 1 \in 0 .. NumGraphs - 1
    BY <1>2, <1>4
  <2>2. RowProportion(k, row, b) = Proportion(p - 1, k, b)
    BY <1>1, <1>4 DEF RowProportion
  <2>. QED
    BY <2>1, <2>2, PortionBound
<1>5. CASE p # NumGraphs /\ p # 0
  <2>1. /\ p - 1 \in 0 .. NumGraphs - 1 /\ p \in 0 .. NumGraphs - 1
        /\ PillarLength(p - 1) \in Nat /\ PillarLength(p) \in Nat /\ RowWindow(row) \in Nat
        /\ RowWindow(row) > PillarLength(p - 1) /\ RowWindow(row) <= PillarLength(p)
    BY <1>1, <1>5, PhaseOfRow
  <2>2. PICK x \in Nat, y \in Nat \ {0} :
               /\ x = RowWindow(row) - PillarLength(p - 1)
               /\ y = PillarLength(p) - PillarLength(p - 1)
               /\ x <= y
    BY <2>1
  <2>3. IsProportion(Proportion(p - 1, k, b)) /\ IsProportion(Proportion(p, k, b))
    BY <2>1, PortionBound
  <2>4. RowProportion(k, row, b) = Interpolated(Proportion(p - 1, k, b), Proportion(p, k, b), x, y)
    BY <1>1, <1>5, <2>2 DEF RowProportion
  <2>. QED
    BY <2>2, <2>3, <2>4, BetweenProportions
<1>. QED
  BY <1>3, <1>4, <1>5

\* In every state the trace is short enough for the buckets.
LEMMA TraceInWord ==
  ASSUME TraceFits
  PROVE  AnySetSpec => [](N \in Nat /\ N + 1 < 2 ^ WordBits /\ sublog_value_to_index(N) \in Nat)
<1>1. Spec => []TypeInv
  BY InitTypeInv, NextTypeInv, PTL DEF Spec
<1>2. Init => BoundOK
  <2>1. Init => Unstamped = {} /\ N = 0
    BY DEF Init, Unstamped
  <2>. QED
    BY <2>1, FS_EmptySet, RecorderAssumption DEF BoundOK
<1>3. Spec => []BoundOK
  BY <1>1, <1>2, NextBoundOK, PTL DEF Spec
<1>4. ASSUME TypeInv, BoundOK
      PROVE  N \in Nat /\ N + 1 < 2 ^ WordBits /\ sublog_value_to_index(N) \in Nat
  <2>1. N \in Nat /\ MaxTrace \in Nat
    BY <1>4, RecorderAssumption DEF TypeInv, TypeOK
  <2>2. Cardinality(Unstamped) \in Nat
    <3>1. Unstamped \subseteq Threads
      BY DEF Unstamped
    <3>. QED
      BY <3>1, ThreadCount, FS_Subset, FS_CardinalityType
  <2>3. PICK w \in Nat : w = 2 ^ WordBits
    BY PowerOfTwo, SublogAssumption
  <2>4. N + 1 < w /\ N < w
    BY <1>4, <2>1, <2>2, <2>3 DEF BoundOK, TraceFits
  <2>5. sublog_value_to_index(N) \in 0 .. MAX_WINDOW - 1
    BY <2>1, <2>3, <2>4, BucketBoundaries
  <2>. QED
    BY <2>1, <2>3, <2>4, <2>5
<1>. QED
  BY <1>1, <1>3, <1>4, AnySetRecords, PTL

\* Whatever pillars the recorder measured, and whatever options the script is
\* given, the proportion it uses for a row and a group of threads is between
\* 0 and 1, also between two pillars: the windows of a row are never shorter
\* than the pillar before the phase, nor longer than that of the phase.
THEOREM ProportionBounds ==
  ASSUME TraceFits
  PROVE  AnySetSpec => []ProportionsBounded
<1>1. ASSUME AnySetTypeOK, sublog_value_to_index(N) \in Nat PROVE ProportionsBounded
  <2>. SUFFICES ASSUME NumGraphs > 0, NEW row \in Rows, NEW k \in Degrees, NEW b \in GroupBitmaps,
                       NEW c, c = RowProportion(k, row, b)
                PROVE  0 <= c.num /\ c.num <= c.den
    BY DEF ProportionsBounded
  <2>1. IsProportion(c)
    BY <1>1, RowBounded
  <2>. QED
    BY <2>1 DEF IsProportion
<1>. QED
  BY <1>1, TraceInWord, AnySetTypes, PTL

-----------------------------------------------------------------------------
(***************************************************************************)
(* The composed footprint.  The windows are counted set by set in a graph, *)
(* and line by line in the trace; and all the lines that exactly k threads *)
(* share are there in the report as well.                                  *)
(***************************************************************************)
Ends(len) == 1 .. N - len + 1

SharersOf(len) == [l \in Lines |-> [x \in Ends(len) |-> Sharers(trace, l, x, len)]]

\* The windows of length len, line by line, whose sharers are a set of V.
InSets(len, V) == CountIn(Lines, Ends(len), SharersOf(len), V)

\* The sets of k threads, and those with a thread of the group.
OfDegree(k) == {g \in SUBSET Threads : Cardinality(g) = k}

OfGroup(k, b) == {g \in SUBSET Threads : Cardinality(g) = k /\ g \cap b # {}}

\* What is known in the end.
ComposeFacts == GraphInv /\ IdsOK /\ CountInv /\ stage = "done"

\* The windows of a line, and who shares them.
LEMMA WindowsOfLine ==
  ASSUME ComposeFacts, NEW len \in Nat \ {0}, NEW l \in Lines
  PROVE  /\ IsFiniteSet(Ends(len)) /\ N \in Nat /\ Len(trace) = N
         /\ \A x \in Ends(len) :
              /\ SharersOf(len)[l][x] = Sharers(trace, l, x, len)
              /\ Sharers(trace, l, x, len) \subseteq Threads
              /\ Cardinality(Sharers(trace, l, x, len)) \in Nat
         /\ \A V : /\ InSets(len, V)[l]
                        = Cardinality({x \in Ends(len) : Sharers(trace, l, x, len) \in V})
                   /\ InSets(len, V)[l] \in Nat
<1>1. N \in Nat /\ Len(trace) = N /\ \A x \in 1 .. N : trace[x].thread \in Threads
  <2>1. SafeInv /\ TraceOK
    BY DEF ComposeFacts, CountInv, WindowInv, LevelInv, RefInv
  <2>. QED
    BY <2>1, TraceFacts DEF TraceOK
<1>2. IsFiniteSet(Ends(len))
  <2>1. 1 \in Int /\ N - len + 1 \in Int
    BY <1>1
  <2>. QED
    BY <2>1, FS_Interval DEF Ends
<1>3. \A x \in Ends(len) :
        /\ SharersOf(len)[l][x] = Sharers(trace, l, x, len)
        /\ Sharers(trace, l, x, len) \subseteq Threads
        /\ Cardinality(Sharers(trace, l, x, len)) \in Nat
  <2>. TAKE x \in Ends(len)
  <2>1. x \in Nat \ {0} /\ x + len - 1 <= N
    BY <1>1 DEF Ends
  <2>2. SharersOf(len)[l][x] = Sharers(trace, l, x, len)
    BY DEF SharersOf
  <2>3. /\ Sharers(trace, l, x, len) \subseteq Threads
        /\ Cardinality(Sharers(trace, l, x, len)) \in Nat
    BY <1>1, <2>1, SharersType
  <2>. QED
    BY <2>2, <2>3
<1>4. ASSUME NEW V
      PROVE  /\ InSets(len, V)[l]
                  = Cardinality({x \in Ends(len) : Sharers(trace, l, x, len) \in V})
             /\ InSets(len, V)[l] \in Nat
  <2>1. PICK A : A = {x \in Ends(len) : SharersOf(len)[l][x] \in V}
    OBVIOUS
  <2>2. A = {x \in Ends(len) : Sharers(trace, l, x, len) \in V}
    BY <1>3, <2>1
  <2>3. A \subseteq Ends(len)
    BY <2>1
  <2>4. Cardinality(A) \in Nat
    BY <1>2, <2>3, FS_Subset, FS_CardinalityType
  <2>5. InSets(len, V)[l] = Cardinality(A)
    BY <2>1 DEF InSets, CountIn
  <2>. QED
    BY <2>2, <2>4, <2>5
<1>. QED
  BY <1>1, <1>2, <1>3, <1>4

\* The rows of the graph of a pillar with the sets of V have all windows whose
\* sharers are a set of V.
LEMMA GraphCounts ==
  ASSUME ComposeFacts, NEW i \in Pillars, NEW len, len = gPillarLengths(i),
         NEW V, V \subseteq ThreadSets
  PROVE  RowSum(i, SharingRows(i) \cap V) = SumOf(InSets(len, V), Lines)
<1>1. len \in Nat \ {0}
  BY LengthType DEF Pillars
<1>2. PICK G : G = [g \in V |-> IF g \in SharingRows(i) THEN gPillars[i][g] ELSE 0]
  OBVIOUS
<1>3. \A g \in V : G[g] = SumOf(InSets(len, {g}), Lines)
  <2>. TAKE g \in V
  <2>1. G[g] = GraphSum(i, g)
    BY <1>2, GraphWritten DEF ComposeFacts
  <2>2. PICK F : F = InSets(len, {g})
    OBVIOUS
  <2>3. \A l \in Lines : F[l] = WindowsOfSet(trace, l, g, gPillarLengths(i))
    <3>. TAKE l \in Lines
    <3>1. Len(trace) = N
      BY <1>1, WindowsOfLine
    <3>2. F[l] = Cardinality({x \in Ends(len) : Sharers(trace, l, x, len) \in {g}})
      BY <1>1, <2>2, WindowsOfLine
    <3>3. {x \in Ends(len) : Sharers(trace, l, x, len) \in {g}}
            = {x \in 1 .. Len(trace) - len + 1 : Sharers(trace, l, x, len) = g}
      BY <3>1 DEF Ends
    <3>. QED
      BY <3>2, <3>3 DEF WindowsOfSet
  <2>4. GraphSum(i, g) = SumOf(F, Lines)
    BY <2>3, GraphSumIs
  <2>. QED
    BY <2>1, <2>2, <2>4
<1>4. IsFiniteSet(V)
  <2>1. IsFiniteSet(SUBSET Threads) /\ V \subseteq SUBSET Threads
    BY ThreadCount, FS_SUBSET DEF ThreadSets
  <2>. QED
    BY <2>1, FS_Subset
<1>5. SumOf(G, V) = SumOf(InSets(len, V), Lines)
  <2>1. IsFiniteSet(Ends(len)) /\ IsFiniteSet(Lines)
    BY <1>1, WindowsOfLine, FiniteData
  <2>2. PICK L, X, f : L = Lines /\ X = Ends(len) /\ f = SharersOf(len)
    OBVIOUS
  <2>3. \A v : InSets(len, v) = CountIn(L, X, f, v)
    BY <2>2 DEF InSets
  <2>4. CountsEach(L, X, f, V, G)
    BY <1>3, <2>2, <2>3 DEF CountsEach
  <2>5. IsFiniteSet(L) /\ IsFiniteSet(X)
    BY <2>1, <2>2
  <2>6. SumOf(G, V) = SumOf(CountIn(L, X, f, V), L)
    BY <1>4, <2>4, <2>5, SumOfCounts
  <2>. QED
    BY <2>2, <2>3, <2>6
<1>6. \A g \in V : G[g] \in Int
  <2>. TAKE g \in V
  <2>1. PICK F : F = InSets(len, {g})
    OBVIOUS
  <2>2. \A l \in Lines : F[l] \in Int
    <3>. TAKE l \in Lines
    <3>1. \A v : InSets(len, v)[l] \in Nat
      BY <1>1, WindowsOfLine
    <3>. QED
      BY <2>1, <3>1
  <2>3. SumOf(F, Lines) \in Int
    BY <2>2, FiniteData, SumType
  <2>. QED
    BY <1>3, <2>1, <2>3
<1>7. PICK S : S = SharingRows(i) \cap V
  OBVIOUS
<1>8. S \subseteq V /\ IsFiniteSet(S)
  BY <1>4, <1>7, FS_Subset
<1>9. SumOf(G, V) = SumOf(G, S)
  <2>1. \A g \in V \ S : G[g] = 0
    BY <1>2, <1>7
  <2>. QED
    BY <1>4, <1>6, <1>8, <2>1, SumSubset
<1>10. RowSum(i, S) = SumOf(G, S)
  <2>1. \A g \in S : G[g] = gPillars[i][g]
    BY <1>2, <1>7
  <2>. QED
    BY <1>8, <2>1, RowSumIs
<1>. QED
  BY <1>5, <1>7, <1>9, <1>10

\* The windows of a line with exactly k sharers are those with more than k - 1
\* less those with more than k.
LEMMA ExactlyShared ==
  ASSUME ComposeFacts, NEW len \in Nat \ {0}, NEW l \in Lines, NEW k \in Nat \ {0}
  PROVE  /\ SharedWindows(trace, l, k - 1, len) \in Nat /\ SharedWindows(trace, l, k, len) \in Nat
         /\ InSets(len, OfDegree(k))[l]
              = SharedWindows(trace, l, k - 1, len) - SharedWindows(trace, l, k, len)
         /\ NumThreads <= k => SharedWindows(trace, l, k, len) = 0
<1>. DEFINE Sh(x) == Sharers(trace, l, x, len)
<1>1. /\ IsFiniteSet(Ends(len)) /\ N \in Nat /\ Len(trace) = N
      /\ \A x \in Ends(len) : Sh(x) \subseteq Threads /\ Cardinality(Sh(x)) \in Nat
      /\ InSets(len, OfDegree(k))[l] = Cardinality({x \in Ends(len) : Sh(x) \in OfDegree(k)})
  BY WindowsOfLine
<1>2. /\ SharedWindows(trace, l, k - 1, len)
           = Cardinality({x \in Ends(len) : Cardinality(Sh(x)) > k - 1})
      /\ SharedWindows(trace, l, k, len) = Cardinality({x \in Ends(len) : Cardinality(Sh(x)) > k})
  BY <1>1 DEF SharedWindows, Ends
<1>3. NumThreads <= k => \A x \in Ends(len) : ~ (Cardinality(Sh(x)) > k)
  <2>. SUFFICES ASSUME NumThreads <= k, NEW x \in Ends(len) PROVE ~ (Cardinality(Sh(x)) > k)
    OBVIOUS
  <2>1. Sh(x) \subseteq Threads /\ Cardinality(Sh(x)) \in Nat
    BY <1>1
  <2>. HIDE DEF Sh
  <2>2. Cardinality(Sh(x)) <= NumThreads /\ NumThreads \in Nat
    BY <2>1, ThreadCount, FS_Subset, ThreadIdAssumption
  <2>. QED
    BY <2>1, <2>2
<1>. HIDE DEF Sh
<1>4. PICK A : A = {x \in Ends(len) : Cardinality(Sh(x)) > k - 1}
  OBVIOUS
<1>5. PICK B : B = {x \in Ends(len) : Cardinality(Sh(x)) > k}
  OBVIOUS
<1>6. PICK C : C = {x \in Ends(len) : Sh(x) \in OfDegree(k)}
  OBVIOUS
<1>7. C = {x \in Ends(len) : Cardinality(Sh(x)) = k}
  <2>1. \A x \in Ends(len) : Sh(x) \in OfDegree(k) <=> Cardinality(Sh(x)) = k
    BY <1>1 DEF OfDegree
  <2>. QED
    BY <1>6, <2>1
<1>8. /\ A \subseteq Ends(len) /\ B \subseteq Ends(len) /\ C \subseteq Ends(len)
      /\ A = B \cup C /\ B \cap C = {}
  <2>1. \A x \in Ends(len) : Cardinality(Sh(x)) > k - 1
                               <=> Cardinality(Sh(x)) > k \/ Cardinality(Sh(x)) = k
    <3>. TAKE x \in Ends(len)
    <3>1. Cardinality(Sh(x)) \in Nat
      BY <1>1
    <3>. QED
      BY <3>1
  <2>2. \A x \in Ends(len) : ~ (Cardinality(Sh(x)) > k /\ Cardinality(Sh(x)) = k)
    OBVIOUS
  <2>. QED
    BY <1>4, <1>5, <1>7, <2>1, <2>2
<1>9. /\ IsFiniteSet(A) /\ Cardinality(A) \in Nat
      /\ IsFiniteSet(B) /\ Cardinality(B) \in Nat
      /\ IsFiniteSet(C) /\ Cardinality(C) \in Nat
  BY <1>1, <1>8, FS_Subset, FS_CardinalityType
<1>10. Cardinality(A) = Cardinality(B) + Cardinality(C)
  <2>1. Cardinality(B \cap C) = 0
    BY <1>8, FS_EmptySet
  <2>2. Cardinality(B \cup C) = Cardinality(B) + Cardinality(C) - Cardinality(B \cap C)
    BY <1>9, FS_Union
  <2>. QED
    BY <1>8, <1>9, <2>1, <2>2
<1>11. NumThreads <= k => Cardinality(B) = 0
  <2>1. NumThreads <= k => B = {}
    BY <1>3, <1>5
  <2>. QED
    BY <2>1, FS_EmptySet
<1>12. /\ SharedWindows(trace, l, k - 1, len) = Cardinality(A)
       /\ SharedWindows(trace, l, k, len) = Cardinality(B)
       /\ InSets(len, OfDegree(k))[l] = Cardinality(C)
  BY <1>1, <1>2, <1>4, <1>5, <1>6
<1>. QED
  BY <1>9, <1>10, <1>11, <1>12

\* The report has the lines that exactly k threads share.
LEMMA DegreeShared ==
  ASSUME ComposeFacts, NEW row \in Rows, NEW len, len = RowWindow(row), NEW k \in Degrees
  PROVE  SharedByExactly(k, row) = SumOf(InSets(len, OfDegree(k)), Lines)
<1>1. /\ len \in 1 .. N /\ N \in Nat
      /\ k \in Nat \ {0} /\ k <= NumThreads /\ k - 1 \in Levels
      /\ k < MAX_THREAD => k \in Levels
      /\ ~ (k < MAX_THREAD) => NumThreads <= k
  <2>1. len \in 1 .. N /\ N \in Nat
    BY RowFits DEF ComposeFacts, CountInv
  <2>. QED
    BY <2>1, ThreadIdAssumption, RecorderAssumption DEF Degrees, Levels
<1>2. len \in Nat \ {0}
  BY <1>1
<1>3. PICK F : F = [l \in Lines |-> SharedWindows(trace, l, k - 1, len)]
  OBVIOUS
<1>4. PICK G : G = [l \in Lines |-> SharedWindows(trace, l, k, len)]
  OBVIOUS
<1>5. PICK H : H = InSets(len, OfDegree(k))
  OBVIOUS
<1>6. \A l \in Lines : /\ F[l] \in Int /\ G[l] \in Int
                       /\ H[l] = 1 * F[l] + (-1) * G[l]
                       /\ NumThreads <= k => G[l] = 0
  <2>. TAKE l \in Lines
  <2>1. F[l] \in Nat /\ G[l] \in Nat /\ H[l] = F[l] - G[l] /\ (NumThreads <= k => G[l] = 0)
    BY <1>1, <1>2, <1>3, <1>4, <1>5, ExactlyShared
  <2>. QED
    BY <2>1
<1>7. SumOf(F, Lines) \in Int /\ SumOf(G, Lines) \in Int
  BY <1>6, FiniteData, SumType
<1>8. SumOf(H, Lines) = 1 * SumOf(F, Lines) + (-1) * SumOf(G, Lines)
  <2>1. 1 \in Int /\ -1 \in Int
    OBVIOUS
  <2>. QED
    BY <1>6, <2>1, FiniteData, SumLinear
<1>9. RowValue(k - 1, row) = SumOf(F, Lines)
  <2>1. RowValue(k - 1, row) = SharedFootprint(trace, Lines, k - 1, len)
    BY <1>1, RowExact DEF ComposeFacts
  <2>2. \A l \in Lines : F[l] = SharedWindows(trace, l, k - 1, len)
    BY <1>3
  <2>. QED
    BY <2>1, <2>2, FootprintIs
<1>10. (IF k < MAX_THREAD THEN RowValue(k, row) ELSE 0) = SumOf(G, Lines)
  <2>1. CASE k < MAX_THREAD
    <3>1. RowValue(k, row) = SharedFootprint(trace, Lines, k, len)
      BY <1>1, <2>1, RowExact DEF ComposeFacts
    <3>2. \A l \in Lines : G[l] = SharedWindows(trace, l, k, len)
      BY <1>4
    <3>3. SharedFootprint(trace, Lines, k, len) = SumOf(G, Lines)
      BY <3>2, FootprintIs
    <3>. QED
      BY <2>1, <3>1, <3>3
  <2>2. CASE ~ (k < MAX_THREAD)
    <3>1. \A l \in Lines : G[l] = 0
      BY <1>1, <1>6, <2>2
    <3>2. SumOf(G, Lines) = 0
      BY <3>1, FiniteData, SumZero
    <3>. QED
      BY <2>2, <3>2
  <2>. QED
    BY <2>1, <2>2
<1>11. SharedByExactly(k, row) = SumOf(F, Lines) - SumOf(G, Lines)
  BY <1>9, <1>10 DEF SharedByExactly
<1>12. PICK x \in Int, y \in Int : x = SumOf(F, Lines) /\ y = SumOf(G, Lines)
  BY <1>7
<1>. QED
  BY <1>5, <1>8, <1>11, <1>12

\* The windows of a group, counted on the trace.
LEMMA GroupCount ==
  ASSUME ComposeFacts, NEW len \in Nat \ {0}, NEW k, NEW b
  PROVE  GroupWindows(k, len, b) = SumOf(InSets(len, OfGroup(k, b)), Lines)
<1>. DEFINE V(l) == Cardinality({x \in 1 .. Len(trace) - len + 1 :
                                   LET sh == Sharers(trace, l, x, len)
                                   IN  Cardinality(sh) = k /\ sh \cap b # {}})
            P(h) == h = [u \in SUBSET Lines |->
                           IF u = {} THEN 0 ELSE V(Picked(u)) + h[u \ {Picked(u)}]]
<1>1. GroupWindows(k, len, b) = (CHOOSE h : P(h))[Lines]
  BY Zenon DEF GroupWindows, MapThenSumSet, MapThenFoldSet, Picked
<1>2. PICK F : F = InSets(len, OfGroup(k, b))
  OBVIOUS
<1>3. \A l \in Lines : F[l] = V(l)
  <2>. TAKE l \in Lines
  <2>1. /\ Len(trace) = N
        /\ \A x \in Ends(len) : Sharers(trace, l, x, len) \subseteq Threads
        /\ F[l] = Cardinality({x \in Ends(len) : Sharers(trace, l, x, len) \in OfGroup(k, b)})
    BY <1>2, WindowsOfLine
  <2>2. {x \in Ends(len) : Sharers(trace, l, x, len) \in OfGroup(k, b)}
          = {x \in 1 .. Len(trace) - len + 1 :
               LET sh == Sharers(trace, l, x, len)
               IN  Cardinality(sh) = k /\ sh \cap b # {}}
    BY <2>1 DEF OfGroup, Ends
  <2>. QED
    BY <2>1, <2>2
<1>. HIDE DEF V
<1>4. \A h : IsSum(F, Lines, h) <=> P(h)
  <2>1. \A u \in SUBSET Lines : u # {} => F[Picked(u)] = V(Picked(u))
    BY <1>3, PickedIn
  <2>. QED
    BY <2>1 DEF IsSum
<1>5. P(CHOOSE h : P(h))
  <2>1. \E h : P(h)
    BY <1>4, SumExists, FiniteData
  <2>. HIDE DEF P
  <2>. QED
    BY <2>1
<1>. HIDE DEF P
<1>6. GroupWindows(k, len, b) = SumOf(F, Lines)
  BY <1>1, <1>4, <1>5, SumIs, FiniteData
<1>. QED
  BY <1>2, <1>6

\* The options under which the script reads the sharing graphs for what they
\* are, from the first pillar on and to the last.
OptionsAgree ==
  /\ gLowestPillar = 0 /\ lowest_pillar = 0 /\ pillar_step = 1
  /\ MAX_PILLARS <= MaxSuffix + 1

\* The phase of a row for windows as long as a pillar is the pillar.
LEMMA PhaseOfPillar ==
  ASSUME OptionsAgree, sublog_value_to_index(N) \in Nat, N \in Nat,
         NEW i \in Written, NEW row \in Rows, RowWindow(row) = gPillarLengths(i)
  PROVE  /\ i \in 0 .. NumGraphs - 1 /\ File(i) = i
         /\ Phase[row] = i
<1>1. i \in Pillars /\ i \in Nat /\ i < MAX_PILLARS /\ MAX_PILLARS \in Nat /\ NumGraphs \in Nat
  BY PillarAssumption, FilesInOrder DEF Written, Pillars
<1>2. i \in FilesRead
  <2>1. i \in lowest_pillar .. MaxSuffix
    BY <1>1 DEF OptionsAgree, MaxSuffix
  <2>2. ASSUME NEW e \in lowest_pillar .. i PROVE \E p \in Written : Suffix(p) = e
    <3>1. e \in Nat /\ e <= i /\ e \in Pillars
      BY <1>1, <2>2 DEF OptionsAgree, Pillars
    <3>2. gPillarLengths(e) <= gPillarLengths(i) /\ gPillarLengths(e) \in Nat
      BY <1>1, <3>1, LengthType
    <3>3. gPillarLengths(i) <= N /\ gPillarLengths(i) \in Nat
      BY <1>1, LengthType DEF Written
    <3>4. gPillarLengths(e) <= N
      BY <3>2, <3>3
    <3>5. e \in Written /\ Suffix(e) = e
      BY <3>1, <3>4 DEF OptionsAgree, Written, Suffix
    <3>. QED
      BY <3>5
  <2>. QED
    BY <2>1, <2>2 DEF FilesRead
<1>3. i \in 0 .. NumGraphs - 1
  BY <1>1, <1>2, FilesInOrder DEF OptionsAgree
<1>4. File(i) = i
  BY <1>1, <1>3, FileOf DEF OptionsAgree
<1>5. \A p \in Nat : PillarLength(p) = 2 ^ (2 * p) /\ gPillarLengths(p) = 2 ^ (2 * p)
  <2>. TAKE p \in Nat
  <2>1. 2 ^ 1 = 2
    OBVIOUS
  <2>2. (0 + p) * 2 = 2 * p /\ 0 + 2 * p = 2 * p
    OBVIOUS
  <2>. QED
    BY <2>1, <2>2 DEF PillarLength, gPillarLengths, OptionsAgree
<1>6. RowWindow(row) = PillarLength(i)
  BY <1>1, <1>5
<1>7. ASSUME NEW q \in 0 .. i - 1 PROVE PillarLength(i) > PillarLength(q)
  <2>1. q \in Nat /\ 2 * q \in Nat /\ 2 * q + 1 \in Nat /\ 2 * i \in Nat /\ 2 * q + 1 <= 2 * i
    BY <1>1
  <2>2. 2 ^ (2 * q) \in Nat \ {0} /\ 2 ^ (2 * q + 1) = 2 * 2 ^ (2 * q)
    BY <2>1, PowerOfTwo
  <2>3. 2 ^ (2 * q + 1) <= 2 ^ (2 * i) /\ 2 ^ (2 * i) \in Nat
    BY <2>1, PowerOfTwo, PowerGrows
  <2>4. PICK a \in Nat \ {0}, c \in Nat : a = 2 ^ (2 * q) /\ c = 2 ^ (2 * i)
    BY <2>2, <2>3
  <2>5. c > a
    BY <2>2, <2>3, <2>4
  <2>. QED
    BY <1>1, <1>5, <2>1, <2>4, <2>5
<1>8. IsPhase(row, i)
  <2>1. PillarLength(i) \in Nat
    BY <1>1, PillarsGrow
  <2>. QED
    BY <1>1, <1>3, <1>6, <1>7, <2>1 DEF IsPhase
<1>9. row \in 0 .. sublog_value_to_index(N) /\ row \in Nat
  BY DEF Rows
<1>10. IsPhase(row, Phase[row])
  BY <1>9, PhaseIs
<1>11. Phase[row] = i
  BY <1>8, <1>9, <1>10, PhaseExists
<1>. QED
  BY <1>3, <1>4, <1>11

\* The fraction f is g, expanded.
Expanded(f, g) == \E m \in Nat \ {0} : f.num = m * g.num /\ f.den = m * g.den

\* At the end of an interval the interpolation gives the end's proportion.
LEMMA InterpolatedAtEnd ==
  ASSUME NEW a, IsProportion(a), NEW c, IsProportion(c), NEW y \in Nat \ {0}
  PROVE  Expanded(Interpolated(a, c, y, y), c)
<1>1. PICK an \in Nat, ad \in Nat \ {0}, cn \in Nat, cd \in Nat \ {0} :
           an = a.num /\ ad = a.den /\ cn = c.num /\ cd = c.den
  BY DEF IsProportion
<1>2. PICK p \in Nat : p = an * cd
  OBVIOUS
<1>3. PICK q \in Nat : q = cn * ad
  OBVIOUS
<1>4. PICK d \in Nat : d = ad * cd
  OBVIOUS
<1>5. PICK m \in Nat : m = ad * y
  OBVIOUS
<1>6. m # 0
  BY <1>5
<1>7. p * y + y * (q - p) = m * cn
  <2>1. p * y + y * (q - p) = y * q
    OBVIOUS
  <2>2. y * (cn * ad) = (ad * y) * cn
    OBVIOUS
  <2>. QED
    BY <1>3, <1>5, <2>1, <2>2
<1>8. d * y = m * cd
  <2>1. (ad * cd) * y = (ad * y) * cd
    OBVIOUS
  <2>. QED
    BY <1>4, <1>5, <2>1
<1>9. m * cd # 0
  BY <1>6
<1>10. Interpolated(a, c, y, y) = Fraction(p * y + y * (q - p), d * y)
  BY <1>1, <1>2, <1>3, <1>4 DEF Interpolated
<1>11. Interpolated(a, c, y, y) = [num |-> m * cn, den |-> m * cd]
  BY <1>7, <1>8, <1>9, <1>10 DEF Fraction
<1>. QED
  BY <1>1, <1>6, <1>11 DEF Expanded

\* The weights of the graph of a pillar are what is counted on the trace.
LEMMA WeightsCount ==
  ASSUME ComposeFacts, NEW i \in Pillars, File(i) = i, NEW len, len = gPillarLengths(i),
         NEW k \in Degrees, NEW b
  PROVE  /\ Weight(i, k) = SumOf(InSets(len, OfDegree(k)), Lines)
         /\ Portion(i, k, b) = SumOf(InSets(len, OfGroup(k, b)), Lines)
<1>1. OfDegree(k) \subseteq ThreadSets /\ OfGroup(k, b) \subseteq ThreadSets
  <2>1. {} \notin OfDegree(k)
    <3>1. Cardinality({}) = 0 /\ k # 0
      BY FS_EmptySet, ThreadIdAssumption DEF Degrees
    <3>. QED
      BY <3>1 DEF OfDegree
  <2>2. OfDegree(k) \subseteq SUBSET Threads /\ OfGroup(k, b) \subseteq OfDegree(k)
    BY DEF OfDegree, OfGroup
  <2>. QED
    BY <2>1, <2>2 DEF ThreadSets
<1>2. RowsOfDegree(i, k) = SharingRows(i) \cap OfDegree(k)
  BY DEF RowsOfDegree, OfDegree, SharingRows
<1>3. RowsOfGroup(i, k, b) = SharingRows(i) \cap OfGroup(k, b)
  BY DEF RowsOfGroup, OfGroup, SharingRows
<1>4. Weight(i, k) = RowSum(i, SharingRows(i) \cap OfDegree(k))
  BY <1>2, WeightsAreSums
<1>5. Portion(i, k, b) = RowSum(i, SharingRows(i) \cap OfGroup(k, b))
  BY <1>3, WeightsAreSums
<1>. QED
  BY <1>1, <1>4, <1>5, GraphCounts

\* The composed footprint of a row for windows as long as a pillar.
LEMMA ComposedRow ==
  ASSUME ComposeFacts, AnySetTypeOK, sublog_value_to_index(N) \in Nat, OptionsAgree,
         NEW row \in Rows, NEW k \in Degrees, NEW b,
         NEW i \in Written, RowWindow(row) = gPillarLengths(i),
         NEW c, c = RowProportion(k, row, b)
  PROVE  c.num * SharedByExactly(k, row) = c.den * GroupWindows(k, RowWindow(row), b)
<1>1. PICK len \in Nat \ {0} : len = gPillarLengths(i)
  BY LengthType DEF Written, Pillars
<1>2. /\ i \in Pillars /\ i \in Nat /\ i \in 0 .. NumGraphs - 1 /\ File(i) = i
      /\ Phase[row] = i /\ NumGraphs \in Nat
  <2>1. N \in Nat
    BY <1>1, RowFits DEF ComposeFacts, CountInv
  <2>2. i \in 0 .. NumGraphs - 1 /\ File(i) = i /\ Phase[row] = i
    BY <2>1, PhaseOfPillar
  <2>. QED
    BY <2>2, FilesInOrder DEF Written, Pillars
<1>3. PICK p \in Nat, w \in Nat : p = Portion(i, k, b) /\ w = Weight(i, k) /\ p <= w
  BY <1>2, PortionBound
<1>4. SharedByExactly(k, row) = w
  BY <1>1, <1>2, <1>3, DegreeShared, WeightsCount
<1>5. GroupWindows(k, RowWindow(row), b) = p
  <2>1. GroupWindows(k, len, b) = SumOf(InSets(len, OfGroup(k, b)), Lines)
    BY GroupCount
  <2>. QED
    BY <1>1, <1>2, <1>3, <2>1, WeightsCount
<1>6. PICK d \in Nat \ {0} : /\ d = IF w = 0 THEN 1 ELSE w
                             /\ p * w = d * p
  <2>1. CASE w = 0
    BY <1>3, <2>1
  <2>2. CASE w # 0
    BY <1>3, <2>2
  <2>. QED
    BY <2>1, <2>2
<1>7. Proportion(i, k, b).num = p /\ Proportion(i, k, b).den = d
  BY <1>3, <1>6 DEF Proportion, Fraction
<1>8. \E m \in Nat \ {0} : c.num = m * p /\ c.den = m * d
  <2>1. CASE i = 0
    <3>1. c = Proportion(i, k, b)
      BY <1>2, <2>1 DEF RowProportion
    <3>2. 1 * p = p /\ 1 * d = d /\ 1 \in Nat \ {0}
      OBVIOUS
    <3>. QED
      BY <1>7, <3>1, <3>2
  <2>2. CASE i # 0
    <3>1. i # NumGraphs /\ i - 1 \in 0 .. NumGraphs - 1 /\ i - 1 \in Nat
      BY <1>2, <2>2
    <3>2. RowWindow(row) = PillarLength(i)
      <4>1. 2 ^ 1 = 2
        OBVIOUS
      <4>2. (0 + i) * 2 = 0 + 2 * i
        BY <1>2
      <4>. QED
        BY <4>1, <4>2 DEF PillarLength, gPillarLengths, OptionsAgree
    <3>3. PICK y \in Nat \ {0} : y = PillarLength(i) - PillarLength(i - 1)
      <4>1. (i - 1) + 1 = i
        BY <1>2
      <4>2. /\ PillarLength(i - 1) \in Nat \ {0} /\ PillarLength(i) \in Nat
            /\ 2 * PillarLength(i - 1) <= PillarLength(i)
        BY <1>2, <3>1, <4>1, PillarsGrow
      <4>. QED
        BY <4>2
    <3>4. PICK a, e : a = Proportion(i - 1, k, b) /\ e = Proportion(i, k, b)
      OBVIOUS
    <3>5. c = Interpolated(a, e, y, y)
      <4>1. c = Interpolated(Proportion(i - 1, k, b), Proportion(i, k, b),
                             RowWindow(row) - PillarLength(i - 1),
                             PillarLength(i) - PillarLength(i - 1))
        BY <1>2, <2>2, <3>1 DEF RowProportion
      <4>. QED
        BY <3>2, <3>3, <3>4, <4>1
    <3>6. IsProportion(a) /\ IsProportion(e)
      BY <1>2, <3>1, <3>4, PortionBound
    <3>7. Expanded(Interpolated(a, e, y, y), e)
      BY <3>6, InterpolatedAtEnd
    <3>. QED
      BY <1>7, <3>4, <3>5, <3>7 DEF Expanded
  <2>. QED
    BY <2>1, <2>2
<1>9. PICK m \in Nat \ {0} : c.num = m * p /\ c.den = m * d
  BY <1>8
<1>10. (m * p) * w = m * (p * w) /\ (m * d) * p = m * (d * p)
  OBVIOUS
<1>. QED
  BY <1>4, <1>5, <1>6, <1>9, <1>10

\* For windows as long as a pillar, the footprint the script composes for a
\* group of threads is the one that these threads have together on the trace,
\* for every degree of sharing: the any-k report and the sharing graphs count
\* the same windows, one by the number of threads and one by the threads.
\* MAX_PILLARS is 12 in the code, and the script reads up to 36 files.
THEOREM ComposedExact ==
  ASSUME Aligned, TraceFits, OptionsAgree
  PROVE  AnySetSpec => []ComposedIsExact
<1>1. AnySetSpec => []CountInv
  BY AnySetRecords, CountInvariant, PTL
<1>2. ASSUME GraphInv, IdsOK, CountInv, AnySetTypeOK, sublog_value_to_index(N) \in Nat
      PROVE  ComposedIsExact
  <2>1. ASSUME stage = "done", NEW row \in Rows, NEW k \in Degrees, NEW b \in GroupBitmaps,
               RowWindow(row) \in {gPillarLengths(i) : i \in Written},
               NEW c, c = RowProportion(k, row, b)
        PROVE  c.num * SharedByExactly(k, row) = c.den * GroupWindows(k, RowWindow(row), b)
    <3>1. PICK i \in Written : RowWindow(row) = gPillarLengths(i)
      BY <2>1
    <3>2. ComposeFacts
      BY <1>2, <2>1 DEF ComposeFacts
    <3>. QED
      BY <1>2, <2>1, <3>1, <3>2, ComposedRow
  <2>. QED
    BY <2>1 DEF ComposedIsExact
<1>. QED
  BY <1>1, <1>2, GraphInvariant, IdsInvariant, AnySetTypes, TraceInWord, PTL
=============================================================================
