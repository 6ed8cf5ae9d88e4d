--------------------------- MODULE TaskSetRecorder ---------------------------
(***************************************************************************)
(* anytaskset-fp.cpp: the profiler of the footprint of every set of tasks. *)
(*                                                                         *)
(* The program announces its tasks by calling SFP_TaskStart and            *)
(* SFP_TaskEnd; each access is recorded under the task of its thread, at   *)
(* the time of the time stamp counter since the first thread was started.  *)
(* The counts are private to the threads, and each thread adds its own to  *)
(* the global ones, row by row, when it exits.  The lists of stamps are    *)
(* trimmed: an element that is SFP_LIST_TRIM_FREQUENCY old ends its list.  *)
(*                                                                         *)
(* What a thread does between taking and releasing the lock of a set       *)
(* touches only that set and its own counts.  Accesses to the stack, which *)
(* RecordMem ignores, and the times it takes of itself are left out.       *)
(***************************************************************************)
EXTENDS ThreadSupport, SublogHisto, SfpList, Sequences, FiniteSets, FiniteSetsExt

CONSTANTS
  NumTasks,       \* the task ids 0 .. NumTasks - 1; 0 stands for no task
  NumLines,       \* the lines 0 .. NumLines - 1 of the program
  NumSets,        \* MAP_SIZE + 1
  MAX_THREAD,     \* the rows of the counts: 26 in the code
  MAX_PILLARS,    \* 8 in the code
  gLowestPillar,  \* the knob -l, "in log scale"
  SFP_LIST_TRIM_FREQUENCY,
  Controlled,     \* the threads the controller starts and stops: 0, by default
  Started,        \* the ids that the program starts, which may include 0
  MaxDepth,       \* bound on the tasks nested in one thread
  MaxTime         \* bound on the time stamp counter

Tasks   == 0 .. NumTasks - 1
Lines   == 0 .. NumLines - 1
Sets    == 0 .. NumSets - 1
Levels  == 0 .. MAX_THREAD - 1
Pillars == 0 .. MAX_PILLARS - 1
Buckets == 0 .. MAX_WINDOW - 1

\* A list has an element per token (8), fewer than the ids that
\* BeforeTaskStart lets pass: the tasks of the program are taken to have one.
ASSUME TaskSetAssumption ==
  /\ NumTasks \in Nat \ {0} /\ NumTasks <= MAX_THREAD
  /\ NumLines \in Nat \ {0} /\ NumSets \in Nat \ {0}
  /\ MAX_THREAD \in Nat /\ MAX_PILLARS \in Nat /\ gLowestPillar \in Nat
  /\ SFP_LIST_TRIM_FREQUENCY \in Nat
  /\ Controlled \subseteq Threads /\ Started \subseteq Tasks
  /\ MaxDepth \in Nat /\ MaxTime \in 1 .. 2 ^ WordBits - 2

gPillarLengths(i) == 2 ^ (2 * i + gLowestPillar)

SetIndex(l) == l % NumSets

\* Mutant: the times are signed.
Signed(v) == v

\* Unsigned arithmetic of the width of a TStamp.
Wrap(v) == v % 2 ^ WordBits

VARIABLES
  \* the clock of the trace
  rdtsc,         \* the time stamp counter
  gStartTime, gEndTime,
  ev,            \* the last event CONTROL_FINI has seen
  \* thread-local
  tasks,         \* tasks[t]: the stack of the tasks of thread t, last on top
  current_task,
  lstat,         \* lstat[t]: the private counts
  \* shared
  lock, list,    \* gStampTbl: the lock of each set, the list of each line
  total,         \* M, wcount, wcount_i and gPillars
  rowLock,       \* gWcountLock, then gPillarsLock
  \* local to the callbacks of a thread
  pc,
  line, tempN,   \* the line and the time of the access in RecordMem
  row, sum,      \* the row that ThreadFini_hook adds, and what it has read there
  \* Fini
  N, stage,
  \* history
  trace          \* the recorded accesses [time, task, line]

clockVars  == <<rdtsc, gStartTime, gEndTime, ev>>
taskVars   == <<tasks, current_task>>
runVars    == <<threadVars, clockVars, taskVars>>
accessVars == <<lock, list, line, tempN, trace>>
mergeVars  == <<total, rowLock, row, sum>>
finiVars   == <<N, stage>>

vars == <<runVars, accessVars, lstat, mergeVars, pc, finiVars>>
-----------------------------------------------------------------------------
(***************************************************************************)
(* The counts, and their rows: one per sharing level, then one per pillar. *)
(***************************************************************************)
NoLevel  == [M |-> 0, wcount   |-> [b \in Buckets |-> 0],
                      wcount_i |-> [b \in Buckets |-> 0]]
NoPillar == [set \in SUBSET Tasks |-> 0]

NoCounts == [level  |-> [k \in Levels |-> NoLevel],
             pillar |-> [i \in Pillars |-> NoPillar]]

Rows == 0 .. MAX_THREAD + MAX_PILLARS - 1

Row(counts, r) ==
  IF r < MAX_THREAD THEN counts.level[r] ELSE counts.pillar[r - MAX_THREAD]

WithRow(counts, r, value) ==
  IF r < MAX_THREAD THEN [counts EXCEPT !.level[r] = value]
                    ELSE [counts EXCEPT !.pillar[r - MAX_THREAD] = value]

Sum2(f, g) == [x \in DOMAIN f |-> f[x] + g[x]]

RowSum(r, x, y) ==
  IF r < MAX_THREAD
  THEN [M |-> x.M + y.M, wcount   |-> Sum2(x.wcount, y.wcount),
                         wcount_i |-> Sum2(x.wcount_i, y.wcount_i)]
  ELSE Sum2(x, y)

Init ==
  /\ ThreadInit
  /\ rdtsc = 0 /\ gStartTime = 0 /\ gEndTime = 0
  /\ ev = "none"
  /\ tasks        = [t \in Threads |-> <<0>>]
  /\ current_task = [t \in Threads |-> 0]
  /\ lstat        = [t \in Threads |-> NoCounts]
  /\ lock         = [i \in Sets |-> 0]
  /\ list         = [l \in Lines |-> TList(Tasks)]
  /\ total        = NoCounts
  /\ rowLock      = [r \in Rows |-> 0]
  /\ pc           = [t \in Threads |-> "idle"]
  /\ line         = [t \in Threads |-> 0]
  /\ tempN        = [t \in Threads |-> 0]
  /\ row          = [t \in Threads |-> 0]
  /\ sum          = [t \in Threads |-> NoLevel]
  /\ N            = 0
  /\ stage        = "run"
  /\ trace        = {}

Goto(t, from, to) == stage = "run" /\ pc[t] = from /\ pc' = [pc EXCEPT ![t] = to]

\* SFP_RDTSC.  Readings of a line's times are ordered by the lock of its set;
\* those of different lines are never compared, so all are taken to differ.
ReadClock == rdtsc' = rdtsc + 1

\* The accesses that will still take a time, for which room is kept.
Untimed == {t \in Threads : pc[t] \in {"acquire", "clock"}}

TimeLeft == rdtsc + Cardinality(Untimed) < MaxTime

\* The time in which nothing is recorded.
Tick ==
  /\ stage = "run" /\ gStartTime # 0
  /\ TimeLeft /\ ReadClock
  /\ UNCHANGED <<threadVars, gStartTime, gEndTime, ev, taskVars, accessVars, lstat, mergeVars, pc, finiVars>>
-----------------------------------------------------------------------------
(***************************************************************************)
(* Threads, the controller's events and tasks.  The callbacks run in the   *)
(* thread itself, between two of its accesses.                             *)
(***************************************************************************)
\* The compare-and-swap in activate: only the first one sets the start.
SetStartTime ==
  IF gStartTime = 0 THEN TimeLeft /\ ReadClock /\ gStartTime' = rdtsc + 1
                    ELSE UNCHANGED <<rdtsc, gStartTime>>

\* ThreadStart, whose hook activates every thread but the main one.
StartThread(t) ==
  /\ Goto(t, "idle", "idle")
  /\ ThreadStart(t)
  /\ IF t # 0 THEN SetStartTime ELSE UNCHANGED <<rdtsc, gStartTime>>
  /\ tasks' = [tasks EXCEPT ![t] = <<0>>]
  /\ current_task' = [current_task EXCEPT ![t] = 0]
  /\ lstat' = [lstat EXCEPT ![t] = NoCounts]
  /\ UNCHANGED <<gEndTime, ev, accessVars, mergeVars, finiVars>>

ControlStart(t) ==
  /\ Goto(t, "idle", "idle")
  /\ activate(t)
  /\ SetStartTime
  /\ ev' = "start"
  /\ UNCHANGED <<gEndTime, taskVars, accessVars, lstat, mergeVars, finiVars>>

ControlStop(t) ==
  /\ Goto(t, "idle", "idle")
  /\ deactivate(t)
  /\ TimeLeft /\ ReadClock
  /\ gEndTime' = rdtsc + 1
  /\ ev' = "stop"
  /\ UNCHANGED <<gStartTime, taskVars, accessVars, lstat, mergeVars, finiVars>>

Top(t) == tasks[t][Len(tasks[t])]

BeforeTaskStart(t) ==
  /\ Goto(t, "idle", "idle")
  /\ t \in live
  /\ Len(tasks[t]) <= MaxDepth
  /\ \E k \in Started : /\ tasks' = [tasks EXCEPT ![t] = Append(@, k)]
                        /\ current_task' = [current_task EXCEPT ![t] = k]
  /\ UNCHANGED <<threadVars, clockVars, accessVars, lstat, mergeVars, finiVars>>

\* The end of any task but the current one is refused.  (The end of a task 0
\* that has not been started empties the stack, whose back is then undefined.)
BeforeTaskEnd(t) ==
  /\ Goto(t, "idle", "idle")
  /\ t \in live
  /\ Len(tasks[t]) > 1
  /\ \E k \in Started : k = current_task[t] /\ k = Top(t)
  /\ tasks' = [tasks EXCEPT ![t] = SubSeq(@, 1, Len(@) - 1)]
  /\ current_task' = [current_task EXCEPT ![t] = tasks[t][Len(tasks[t]) - 1]]
  /\ UNCHANGED <<threadVars, clockVars, accessVars, lstat, mergeVars, finiVars>>
-----------------------------------------------------------------------------
(***************************************************************************)
(* The walk over one pillar, for an access or the trace's end at pos.  The *)
(* windows of the pillar are named by their left ends; the walk comes down *)
(* from the right most one and adds the windows between two accesses to    *)
(* the count of the tasks whose accesses they contain.                     *)
(***************************************************************************)
High(pos, i) == Wrap(pos - gPillarLengths(i))

\* Mutant: the last access closes the windows that it ends.
LowAtLast(s, i) == IF s.head # NIL THEN s.time[s.head] ELSE 0

Low(s, i) ==
  IF s.head # NIL /\ s.time[s.head] > gPillarLengths(i)
  THEN s.time[s.head] - gPillarLengths(i)
  ELSE 0

WalkFrom(s, pos, i, counts) ==
  [list |-> s, curr |-> s.head, rpoint |-> High(pos, i), bitmap |-> {}, counts |-> counts]

\* An element that is too old becomes the last one; only SfpImpl trims, not
\* the end of the run.
Trimmed(s, e, pos, trims) ==
  IF trims /\ Wrap(pos - s.time[e]) > SFP_LIST_TRIM_FREQUENCY THEN remove_rest(s, e) ELSE s

\* The task of the current element is in the windows that are left.
Pass(w, s) == [w EXCEPT !.list = s, !.bitmap = @ \cup {w.curr}, !.curr = s.next[w.curr]]

\* One turn of the loop over the list.  SfpImpl makes the two comparisons in
\* the other order; its pos is after the head, and at most one of them holds.
Visit(w, pos, i, trims) ==
  IF w.curr = NIL THEN w
  ELSE LET c == w.list.time[w.curr]
           s == Trimmed(w.list, w.curr, pos, trims)
       IN  IF c <= Low(s, i) THEN [w EXCEPT !.list = s, !.curr = NIL]
           ELSE IF c > High(pos, i) THEN Pass(w, s)
           ELSE [Pass(w, s) EXCEPT !.rpoint = c,
                                   !.counts[w.bitmap] = @ + Wrap(w.rpoint - c)]

\* The whole loop, and the windows that are left when it ends.
PillarWalk(s, pos, i, counts, trims) ==
  LET turn[n \in 0 .. NumTasks] ==
        IF n = 0 THEN WalkFrom(s, pos, i, counts) ELSE Visit(turn[n - 1], pos, i, trims)
      w == turn[NumTasks]
  IN  [w EXCEPT !.counts[w.bitmap] = @ + Wrap(w.rpoint - Low(s, i))]

\* All pillars up to the first that is not shorter than pos; each goes on
\* with the list the one before has left.
PillarWalks(s, pos, counts, trims) ==
  LET after[i \in 0 .. MAX_PILLARS] ==
        IF i = 0 THEN [list |-> s, counts |-> counts, over |-> FALSE]
        ELSE LET b == after[i - 1]
             IN  IF b.over \/ pos <= gPillarLengths(i - 1) THEN [b EXCEPT !.over = TRUE]
                 ELSE LET w == PillarWalk(b.list, pos, i - 1, b.counts[i - 1], trims)
                      IN  [b EXCEPT !.list = w.list, !.counts[i - 1] = w.counts]
  IN  after[MAX_PILLARS]
-----------------------------------------------------------------------------
(***************************************************************************)
(* The loop over the intervals.                                            *)
(***************************************************************************)
\* The elements of a list, in its order.
Elements(s) ==
  LET upTo[n \in 0 .. NumTasks] ==
        IF n = 0 THEN <<>>
        ELSE LET e == IF n = 1 THEN s.head ELSE s.next[upTo[n - 1][n - 1]]
             IN  IF Len(upTo[n - 1]) < n - 1 \/ e = NIL THEN upTo[n - 1]
                 ELSE Append(upTo[n - 1], e)
  IN  upTo[NumTasks]

\* x intervals of length d more at level k.
Interval(level, k, d, x) ==
  [level EXCEPT ![k].wcount[sublog_value_to_index(d)] = @ + x,
                ![k].wcount_i[sublog_value_to_index(d)] = @ + x * d]

\* Mutant: the access at the end of the interval is counted in.
GapInclusive(s, e, pos) == Wrap(pos - s.time[e])

\* The time between the last access of e and one at pos.
Gap(s, e, pos) == Wrap(pos - s.time[e] - 1)

\* The place of the task in the list, one past its end if it is not in it.
Place(seq, k) ==
  IF \E n \in DOMAIN seq : seq[n] = k THEN CHOOSE n \in DOMAIN seq : seq[n] = k
                                      ELSE Len(seq) + 1

\* Each element before the task's own closes an interval at its level and
\* takes it off the next one; the task's own ends the loop, and a task that is
\* not in the list has its first access.
Intervals(s, k, pos, level) ==
  LET seq == Elements(s)
      own == Place(seq, k)
      passed[n \in 0 .. own - 1] ==
        IF n = 0 THEN level
        ELSE LET d == Gap(s, seq[n], pos)
             IN  Interval(Interval(passed[n - 1], n - 1, d, 1), n, d, -1)
      last == passed[own - 1]
  IN  IF own <= Len(seq)
      THEN Interval(last, own - 1, Gap(s, k, pos), 1)
      ELSE [Interval(last, own - 1, Wrap(pos - 1), 1) EXCEPT ![own - 1].M = @ + 1]

\* The task's element is unlinked, unless it is the first or not in the list,
\* gets the time of the access and goes to the front.
ToFront(s, k, pos) ==
  LET seq == Elements(s)
      own == Place(seq, k)
      s1  == IF own \in 2 .. Len(seq) THEN erase(s, seq[own - 1], k) ELSE s
  IN  set_front(set_at(s1, k, pos), k)
-----------------------------------------------------------------------------
(***************************************************************************)
(* RecordMem.                                                              *)
(***************************************************************************)
RecordMem(t) ==
  /\ Goto(t, "idle", "acquire")
  /\ t \in live
  /\ tls[t] = "enabled"
  /\ TimeLeft
  /\ \E l \in Lines : line' = [line EXCEPT ![t] = l]
  /\ UNCHANGED <<runVars, lock, list, tempN, trace, lstat, mergeVars, finiVars>>

LockAcquire(t) ==
  /\ Goto(t, "acquire", "clock")
  /\ lock[SetIndex(line[t])] = 0
  /\ lock' = [lock EXCEPT ![SetIndex(line[t])] = 1]
  /\ UNCHANGED <<runVars, list, line, tempN, trace, lstat, mergeVars, finiVars>>

\* The time of the access is read under the lock.
ReserveTime(t) ==
  /\ Goto(t, "clock", "profile")
  /\ ReadClock
  /\ tempN' = [tempN EXCEPT ![t] = rdtsc + 1 - gStartTime]
  /\ trace' = trace \cup {[time |-> rdtsc + 1 - gStartTime, task |-> current_task[t],
                           line |-> line[t]]}
  /\ UNCHANGED <<threadVars, gStartTime, gEndTime, ev, taskVars, lock, list, line, lstat, mergeVars, finiVars>>

SfpImpl(t) ==
  /\ Goto(t, "profile", "release")
  /\ LET k == current_task[t]
         p == PillarWalks(list[line[t]], tempN[t], lstat[t].pillar, TRUE)
     IN  /\ lstat' = [lstat EXCEPT ![t] =
               [level  |-> Intervals(p.list, k, tempN[t], @.level),
                pillar |-> p.counts]]
         /\ list' = [list EXCEPT ![line[t]] = ToFront(p.list, k, tempN[t])]
  /\ UNCHANGED <<runVars, lock, line, tempN, trace, mergeVars, finiVars>>

LockRelease(t) ==
  /\ Goto(t, "release", "idle")
  /\ lock' = [lock EXCEPT ![SetIndex(line[t])] = 0]
  /\ line' = [line EXCEPT ![t] = 0]
  /\ tempN' = [tempN EXCEPT ![t] = 0]
  /\ UNCHANGED <<runVars, list, trace, lstat, mergeVars, finiVars>>
-----------------------------------------------------------------------------
(***************************************************************************)
(* ThreadFini_hook: every row of the private counts is added to the global *)
(* one under the lock of the row.                                          *)
(***************************************************************************)
BeginMerge(t) ==
  /\ Goto(t, "idle", "merge")
  /\ t \in live
  /\ UNCHANGED <<runVars, accessVars, lstat, mergeVars, finiVars>>

\* Mutant: the lock of the row is not looked at.
RowUnchecked(r) == r \in Rows

RowUnlocked(r) == rowLock[r] = 0

ReadRow(t) ==
  /\ Goto(t, "merge", "add")
  /\ row[t] \in Rows
  /\ RowUnlocked(row[t])
  /\ rowLock' = [rowLock EXCEPT ![row[t]] = 1]
  /\ sum' = [sum EXCEPT ![t] = Row(total, row[t])]
  /\ UNCHANGED <<runVars, accessVars, lstat, total, row, finiVars>>

AddRow(t) ==
  /\ Goto(t, "add", "merge")
  /\ total' = WithRow(total, row[t], RowSum(row[t], sum[t], Row(lstat[t], row[t])))
  /\ rowLock' = [rowLock EXCEPT ![row[t]] = 0]
  /\ row' = [row EXCEPT ![t] = @ + 1]
  /\ sum' = [sum EXCEPT ![t] = NoLevel]
  /\ UNCHANGED <<runVars, accessVars, lstat, finiVars>>

EndMerge(t) ==
  /\ Goto(t, "merge", "idle")
  /\ row[t] \notin Rows
  /\ ThreadFini(t)
  /\ row' = [row EXCEPT ![t] = 0]
  /\ UNCHANGED <<clockVars, taskVars, accessVars, lstat, total, rowLock, sum, finiVars>>
-----------------------------------------------------------------------------
(***************************************************************************)
(* Fini, when the last thread has exited.  CONTROL_FINI comes first and    *)
(* sends the main thread a stop if its last event was a start.             *)
(***************************************************************************)
\* CollectLastAccesses for one line: its intervals to the end of the trace.
OpenIntervals(s, n, level) ==
  LET seq == Elements(s)
      at[m \in 0 .. Len(seq)] ==
        IF m = 0 THEN level ELSE Interval(at[m - 1], m - 1, Wrap(n - s.time[seq[m]]), 1)
  IN  at[Len(seq)]

CollectLine(counts, l, n) ==
  IF list[l].head = NIL THEN counts
  ELSE [level  |-> OpenIntervals(list[l], n, counts.level),
        pillar |-> PillarWalks(list[l], Wrap(n + 1), counts.pillar, FALSE).counts]

CollectLastAccesses(n) ==
  LET upTo[l \in 0 .. NumLines] ==
        IF l = 0 THEN total ELSE CollectLine(upTo[l - 1], l - 1, n)
  IN  upTo[NumLines]

Fini ==
  /\ stage = "run" /\ gThreadNum > 0 /\ live = {}
  /\ IF ev = "start" THEN ReadClock /\ gEndTime' = rdtsc + 1 /\ ev' = "stop"
                     ELSE UNCHANGED <<rdtsc, gEndTime, ev>>
  /\ N' = Wrap(gEndTime' - gStartTime)
  /\ total' = CollectLastAccesses(N')
  /\ ThreadEnd
  /\ stage' = "done"
  /\ UNCHANGED <<gStartTime, taskVars, accessVars, lstat, rowLock, row, sum, pc>>

\* The process has written its files and is gone.
Terminated == stage = "done" /\ UNCHANGED vars

Recording(t) ==
  \/ LockAcquire(t) \/ ReserveTime(t) \/ SfpImpl(t) \/ LockRelease(t)

Merging(t) == ReadRow(t) \/ AddRow(t) \/ EndMerge(t)

Next ==
  \/ \E t \in Threads :
       \/ StartThread(t)
       \/ t \in Controlled /\ (ControlStart(t) \/ ControlStop(t))
       \/ BeforeTaskStart(t) \/ BeforeTaskEnd(t)
       \/ RecordMem(t) \/ Recording(t)
       \/ BeginMerge(t) \/ Merging(t)
  \/ Tick \/ Fini \/ Terminated

Spec == Init /\ [][Next]_vars
-----------------------------------------------------------------------------
(***************************************************************************)
(* What is written: a file per pillar that is not longer than the trace,   *)
(* and a row per bucket and sharing level, both times the windows.         *)
(***************************************************************************)
Written == {i \in Pillars : gPillarLengths(i) <= N}

Printed == 1 .. sublog_value_to_index(N)

RowWindow(j) == sublog_index_to_value(j)

FromBucket(count, j) ==
  MapThenSumSet(LAMBDA b : count[b], j .. sublog_value_to_index(Wrap(N + 1)))

RowValue(k, j) ==
  LET ws == RowWindow(j)
      lv == total.level[k]
  IN  lv.M * (N - ws + 1) - (FromBucket(lv.wcount_i, j) - (ws - 1) * FromBucket(lv.wcount, j))
-----------------------------------------------------------------------------
(***************************************************************************)
(* Properties.                                                             *)
(***************************************************************************)
PcLabels == {"idle", "acquire", "clock", "profile", "release", "merge", "add"}

LevelRows == [M : Int, wcount : [Buckets -> Int], wcount_i : [Buckets -> Int]]

PillarRows == [SUBSET Tasks -> Nat]

CountRecords == [level : [Levels -> LevelRows], pillar : [Pillars -> PillarRows]]

\* Every variable has its type.
TypeOK ==
  /\ ThreadTypeOK
  /\ rdtsc \in Nat /\ gStartTime \in 0 .. rdtsc /\ gEndTime \in 0 .. rdtsc
  /\ ev \in {"none", "start", "stop"}
  /\ tasks \in [Threads -> Seq(Tasks)]
  /\ current_task \in [Threads -> Tasks]
  /\ lstat \in [Threads -> CountRecords]
  /\ lock \in [Sets -> {0, 1}]
  /\ list \in [Lines -> TLists(Tasks)]
  /\ total \in CountRecords
  /\ rowLock \in [Rows -> {0, 1}]
  /\ pc \in [Threads -> PcLabels]
  /\ line \in [Threads -> Lines]
  /\ tempN \in [Threads -> Nat]
  /\ row \in [Threads -> 0 .. MAX_THREAD + MAX_PILLARS]
  /\ DOMAIN sum = Threads
  /\ \A t \in Threads : sum[t] \in (IF pc[t] = "add" /\ row[t] >= MAX_THREAD
                                   THEN PillarRows ELSE LevelRows)
  /\ N \in Nat
  /\ stage \in {"run", "done"}
  /\ trace \subseteq [time : Nat, task : Tasks, line : Lines]

\* The tasks that touch line l in the window of ws ticks that begins at x.
Sharers(l, x, ws) == {a.task : a \in {b \in trace : b.line = l /\ b.time \in x .. x + ws - 1}}

Windows(ws) == 1 .. N - ws + 1

\* A thread was stopped, and the last stop is after the last access.
EndsLast == /\ gStartTime < gEndTime
            /\ \A a \in trace : gStartTime + a.time <= gEndTime

\* No access looks back further than the lists are kept.
AllRecent ==
  \A a, b \in trace :
    /\ a.line = b.line /\ b.time + SFP_LIST_TRIM_FREQUENCY < a.time
    => \E c \in trace : /\ c.line = b.line /\ c.task = b.task
                        /\ b.time < c.time /\ c.time < a.time

ExactPillars ==
  \A i \in Written, set \in (SUBSET Tasks) \ {{}} :
    total.pillar[i][set] =
      MapThenSumSet(LAMBDA l : Cardinality({x \in Windows(gPillarLengths(i)) :
                                              Sharers(l, x, gPillarLengths(i)) = set}), Lines)

\* The files hold, for every pillar and every set of tasks, the number of
\* windows of time that exactly this set shares, although each thread counts
\* for itself, a thread changes its task between two accesses, several threads
\* may run the same task, and the rows are merged while others merge theirs.
SharingGraphIsExact == stage = "done" /\ EndsLast /\ AllRecent => ExactPillars

\* Every row printed is the footprint of the trace at its window length, for
\* every number of tasks, counted window by window.
ReportIsExact ==
  stage = "done" /\ EndsLast /\ AllRecent =>
    \A j \in Printed, k \in 0 .. NumTasks - 1 :
      RowValue(k, j) =
        MapThenSumSet(LAMBDA l : Cardinality({x \in Windows(RowWindow(j)) :
                                   Cardinality(Sharers(l, x, RowWindow(j))) > k}), Lines)

\* Trimming may give a window to the wrong set, but never loses one or counts
\* one twice: the rows of a pillar add up to the windows of the trace, once
\* per line that was accessed.
WindowsCountedOnce ==
  stage = "done" /\ EndsLast =>
    \A i \in Written :
      MapThenSumSet(LAMBDA set : total.pillar[i][set], SUBSET Tasks)
        = (N - gPillarLengths(i) + 1) * Cardinality({a.line : a \in trace})

\* "A Pillar is a particular window length, for which, our tools accurately
\* measure any thread set's shared footprint", however old the accesses are.
PillarsAccurate == stage = "done" /\ EndsLast => ExactPillars
=============================================================================
