----------------------------- MODULE SfpRecorder -----------------------------
(***************************************************************************)
(* anyk-sfp.cpp: the profiler of the footprint shared by more than k       *)
(* threads, for every k.                                                   *)
(*                                                                         *)
(* Pin calls RecordMem in the thread that is about to access memory, so    *)
(* the routine runs in all threads of the program at once.  It locks the   *)
(* sets of the lines of the access, reserves a time stamp, and for each    *)
(* line walks the list of the threads' last accesses, most recent first,   *)
(* to count the intervals the access closes (SfpImpl); it then releases    *)
(* the set of that line and goes on to the next.  When the program exits,  *)
(* Fini counts the intervals that are still open and prints the footprint. *)
(*                                                                         *)
(* A line is named by its number, its address divided by LineSize.         *)
(***************************************************************************)
EXTENDS ThreadSupport, StampList, SublogHisto, SharedFootprint

CONSTANTS
  NumLines,    \* the lines 0 .. NumLines - 1 of the profiled program
  NumSets,     \* MAP_SIZE + 1: the sets of the stamp table
  MAX_THREAD,  \* the threads and sharing levels the arrays have room for
  Accesses,    \* the accesses [addr, size] the program may make
  MaxTrace     \* bound on the number of recorded accesses

Lines   == 0 .. NumLines - 1
Sets    == 0 .. NumSets - 1
Levels  == 0 .. MAX_THREAD - 1
Buckets == 0 .. MAX_WINDOW - 1

\* Mutant: a mask one bit too short.
SetIndexNarrow(l) == l % (NumSets - 1)

SetIndex(l) == l % NumSets

\* The loop from laddr in steps of SETWIDTH while below laddr + size.
LineBase(a) == a.addr \div LineSize
LineEnd(a)  == LineBase(a) + (a.size + LineSize - 1) \div LineSize

ASSUME RecorderAssumption ==
  /\ NumLines \in Nat \ {0} /\ NumSets \in Nat \ {0}
  /\ MAX_THREAD \in Nat /\ NumThreads <= MAX_THREAD
  /\ MaxTrace \in Nat
  /\ Accesses \subseteq [addr : Nat, size : Nat \ {0}]
  /\ \A a \in Accesses : LineBase(a) \in Nat /\ LineEnd(a) \in LineBase(a) + 1 .. NumLines

VARIABLES
  \* shared by all threads
  lock,        \* lock[i]: the lock byte of set i of gStampTbl
  stamps,      \* stamps[l]: the TStampList of line l
  N,           \* the trace length
  M,           \* M[k]: lines accessed by more than k threads
  wcount,      \* wcount[k][b]: the intervals of level k in bucket b
  wcount_i,    \* wcount_i[k][b]: the sum of their lengths
  \* local to the RecordMem of each thread
  pc,
  acc,         \* the access being recorded
  base_addr,   \* the next line to lock
  cur_addr,    \* the line being profiled
  tempN,       \* the time stamp of the access
  s,           \* SfpImpl's copy of the list of cur_addr
  iter, prev, thd_count,
  \* Fini
  stage,       \* "run", "collect" while CollectLastAccesses runs, "done"
  col,         \* its position [line, iter, thd_count]
  \* history
  trace        \* the accesses in the order of their time stamps

tableVars  == <<lock, stamps, N>>
countVars  == <<M, wcount, wcount_i>>
accessVars == <<acc, base_addr, cur_addr, tempN>>
walkVars   == <<s, iter, prev, thd_count>>
finiVars   == <<stage, col>>

vars == <<threadVars, tableVars, countVars, pc, accessVars, walkVars, finiVars, trace>>
-----------------------------------------------------------------------------
NoAccess == [addr |-> 0, size |-> 0]

Init ==
  /\ ThreadInit
  /\ lock      = [i \in Sets |-> 0]
  /\ stamps    = [l \in Lines |-> EmptyStamps]
  /\ N         = 0
  /\ M         = [k \in Levels |-> 0]
  /\ wcount    = [k \in Levels |-> [b \in Buckets |-> 0]]
  /\ wcount_i  = [k \in Levels |-> [b \in Buckets |-> 0]]
  /\ pc        = [t \in Threads |-> "idle"]
  /\ acc       = [t \in Threads |-> NoAccess]
  /\ base_addr = [t \in Threads |-> 0]
  /\ cur_addr  = [t \in Threads |-> 0]
  /\ tempN     = [t \in Threads |-> 0]
  /\ s         = [t \in Threads |-> EmptyStamps]
  /\ iter      = [t \in Threads |-> NIL]
  /\ prev      = [t \in Threads |-> NIL]
  /\ thd_count = [t \in Threads |-> 0]
  /\ stage     = "run"
  /\ col       = [line |-> 0, iter |-> NIL, thd_count |-> 0]
  /\ trace     = <<>>
-----------------------------------------------------------------------------
(***************************************************************************)
(* The life of a thread.  The callbacks and the controller's events run in *)
(* the thread itself, between two of its accesses.                         *)
(***************************************************************************)
Lifecycle(t) ==
  /\ stage = "run"
  /\ pc[t] = "idle"
  /\ ThreadStart(t) \/ activate(t) \/ deactivate(t) \/ ThreadFini(t)
  /\ UNCHANGED <<tableVars, countVars, pc, accessVars, walkVars, finiVars, trace>>

\* The accesses that will still take a time stamp.
Unstamped == {t \in Threads : pc[t] = "acquire"}

\* RecordMem is entered; it returns at once when the thread is not enabled.
RecordMem(t) ==
  /\ stage = "run"
  /\ pc[t] = "idle"
  /\ t \in live
  /\ tls[t] = "enabled"
  /\ N + Cardinality(Unstamped) < MaxTrace
  /\ \E a \in Accesses :
       /\ acc' = [acc EXCEPT ![t] = a]
       /\ base_addr' = [base_addr EXCEPT ![t] = LineBase(a)]
       /\ cur_addr' = [cur_addr EXCEPT ![t] = LineBase(a)]
  /\ pc' = [pc EXCEPT ![t] = "acquire"]
  /\ UNCHANGED <<threadVars, tableVars, countVars, tempN, walkVars, finiVars, trace>>

\* Mutant: the result of the compare-and-swap is ignored.
Unchecked(i) == i \in Sets

\* Whether lock_acquire's compare-and-swap on set i succeeds.
Unlocked(i) == lock[i] = 0

\* The lock thread t has to take next.
Waiting(t) == pc[t] = "acquire" /\ base_addr[t] < LineEnd(acc[t])

\* lock_acquire: the compare-and-swap that succeeds.
LockAcquire(t) ==
  /\ Waiting(t)
  /\ Unlocked(SetIndex(base_addr[t]))
  /\ lock' = [lock EXCEPT ![SetIndex(base_addr[t])] = 1]
  /\ base_addr' = [base_addr EXCEPT ![t] = @ + 1]
  /\ UNCHANGED <<threadVars, stamps, N, countVars, pc, acc, cur_addr, tempN,
                 walkVars, finiVars, trace>>

\* lock_acquire_slowpath: back off and try again.
LockSpin(t) ==
  /\ Waiting(t)
  /\ ~ Unlocked(SetIndex(base_addr[t]))
  /\ UNCHANGED vars

\* Mutant: only the first set is locked before the stamp is taken.
FirstLocked(t) == base_addr[t] > LineBase(acc[t])

AllLocked(t) == base_addr[t] = LineEnd(acc[t])

\* The atomic increment of N, once all the sets are locked.
ReserveStamp(t) ==
  /\ pc[t] = "acquire"
  /\ AllLocked(t)
  /\ N' = N + 1
  /\ tempN' = [tempN EXCEPT ![t] = N + 1]
  /\ trace' = Append(trace, [thread |-> t, access |-> acc[t]])
  /\ pc' = [pc EXCEPT ![t] = "load"]
  /\ UNCHANGED <<threadVars, lock, stamps, countVars, acc, base_addr, cur_addr,
                 walkVars, finiVars>>

\* SfpImpl: copy the list of the line out of the table.
LoadStamps(t) ==
  /\ pc[t] = "load"
  /\ s' = [s EXCEPT ![t] = stamps[cur_addr[t]]]
  /\ iter' = [iter EXCEPT ![t] = stamps[cur_addr[t]].head]
  /\ prev' = [prev EXCEPT ![t] = NIL]
  /\ thd_count' = [thd_count EXCEPT ![t] = 0]
  /\ pc' = [pc EXCEPT ![t] = "visit"]
  /\ UNCHANGED <<threadVars, tableVars, countVars, accessVars, finiVars, trace>>

\* Mutant: the access at the end of the interval is counted in.
DistanceInclusive(t, i) == tempN[t] - s[t].latest[i]

\* The accesses between the last one of thread i and this one.
Distance(t, i) == tempN[t] - s[t].latest[i] - 1

\* The walk passes the last access of another thread: the interval since it
\* counts at this level and is taken off the next one.
PassStamp(t) ==
  /\ pc[t] = "visit"
  /\ iter[t] # NIL
  /\ iter[t] # t
  /\ LET k == thd_count[t]
         d == Distance(t, iter[t])
         b == sublog_value_to_index(d)
     IN  /\ wcount' = [wcount EXCEPT ![k][b] = @ + 1, ![k + 1][b] = @ - 1]
         /\ wcount_i' = [wcount_i EXCEPT ![k][b] = @ + d, ![k + 1][b] = @ - d]
  /\ prev' = [prev EXCEPT ![t] = iter[t]]
  /\ thd_count' = [thd_count EXCEPT ![t] = @ + 1]
  /\ iter' = [iter EXCEPT ![t] = s[t].next[iter[t]]]
  /\ UNCHANGED <<threadVars, tableVars, M, pc, accessVars, s, finiVars, trace>>

\* The walk meets the thread's own last access and stops there.
MeetOwnStamp(t) ==
  /\ pc[t] = "visit"
  /\ iter[t] = t
  /\ LET k == thd_count[t]
         d == Distance(t, t)
         b == sublog_value_to_index(d)
     IN  /\ wcount' = [wcount EXCEPT ![k][b] = @ + 1]
         /\ wcount_i' = [wcount_i EXCEPT ![k][b] = @ + d]
  /\ pc' = [pc EXCEPT ![t] = "update"]
  /\ UNCHANGED <<threadVars, tableVars, M, accessVars, walkVars, finiVars, trace>>

\* The list ends: this is the thread's first access to the line, and the
\* interval since the beginning of the trace counts.
FirstAccess(t) ==
  /\ pc[t] = "visit"
  /\ iter[t] = NIL
  /\ LET k == thd_count[t]
         d == tempN[t] - 1
         b == sublog_value_to_index(d)
     IN  /\ wcount' = [wcount EXCEPT ![k][b] = @ + 1]
         /\ wcount_i' = [wcount_i EXCEPT ![k][b] = @ + d]
         /\ M' = [M EXCEPT ![k] = @ + 1]
  /\ pc' = [pc EXCEPT ![t] = "update"]
  /\ UNCHANGED <<threadVars, tableVars, accessVars, walkVars, finiVars, trace>>

\* The end of SfpImpl: the copy, updated, goes back to the table.
StoreStamps(t) ==
  /\ pc[t] = "update"
  /\ stamps' = [stamps EXCEPT ![cur_addr[t]] = MovedToFront(s[t], t, tempN[t], prev[t])]
  /\ pc' = [pc EXCEPT ![t] = "release"]
  /\ UNCHANGED <<threadVars, lock, N, countVars, accessVars, walkVars, finiVars, trace>>

\* Mutant: the set stays locked.
lock_keep(i) == [lock EXCEPT ![i] = 1]

lock_release(i) == [lock EXCEPT ![i] = 0]

\* The line's set is released; RecordMem goes on to the next line or returns,
\* when its local variables go.
LockRelease(t) ==
  /\ pc[t] = "release"
  /\ lock' = lock_release(SetIndex(cur_addr[t]))
  /\ s' = [s EXCEPT ![t] = EmptyStamps]
  /\ iter' = [iter EXCEPT ![t] = NIL]
  /\ prev' = [prev EXCEPT ![t] = NIL]
  /\ thd_count' = [thd_count EXCEPT ![t] = 0]
  /\ IF cur_addr[t] + 1 < LineEnd(acc[t])
     THEN /\ cur_addr' = [cur_addr EXCEPT ![t] = @ + 1]
          /\ pc' = [pc EXCEPT ![t] = "load"]
          /\ UNCHANGED <<acc, base_addr, tempN>>
     ELSE /\ cur_addr' = [cur_addr EXCEPT ![t] = 0]
          /\ base_addr' = [base_addr EXCEPT ![t] = 0]
          /\ acc' = [acc EXCEPT ![t] = NoAccess]
          /\ tempN' = [tempN EXCEPT ![t] = 0]
          /\ pc' = [pc EXCEPT ![t] = "idle"]
  /\ UNCHANGED <<threadVars, stamps, N, countVars, finiVars, trace>>

\* The steps of RecordMem once entered: no event of the program is needed
\* for them.
Recording(t) ==
  \/ LockAcquire(t) \/ LockSpin(t) \/ ReserveStamp(t)
  \/ LoadStamps(t) \/ PassStamp(t) \/ MeetOwnStamp(t) \/ FirstAccess(t)
  \/ StoreStamps(t) \/ LockRelease(t)
-----------------------------------------------------------------------------
(***************************************************************************)
(* Fini.  Pin calls it when the last thread has exited.                    *)
(***************************************************************************)
\* Mutant: the levels are counted from -1.
FirstStampBelow(l) == [line |-> l, iter |-> stamps[l].head, thd_count |-> -1]

FirstStamp(l) == [line |-> l, iter |-> stamps[l].head, thd_count |-> 0]

Fini ==
  /\ stage = "run"
  /\ gThreadNum > 0
  /\ live = {}
  /\ stage' = "collect"
  /\ col' = FirstStamp(0)
  /\ UNCHANGED <<threadVars, tableVars, countVars, pc, accessVars, walkVars, trace>>

\* CollectLastAccesses: the interval from a last access to the trace's end.
CollectStamp ==
  /\ stage = "collect"
  /\ col.iter # NIL
  /\ LET k == col.thd_count
         d == N - stamps[col.line].latest[col.iter]
         b == sublog_value_to_index(d)
     IN  /\ wcount' = [wcount EXCEPT ![k][b] = @ + 1]
         /\ wcount_i' = [wcount_i EXCEPT ![k][b] = @ + d]
  /\ col' = [col EXCEPT !.iter = stamps[col.line].next[col.iter],
                        !.thd_count = @ + 1]
  /\ UNCHANGED <<threadVars, tableVars, M, pc, accessVars, walkVars, stage, trace>>

\* The end of a list: on to the next datum, or the blocks of the threads are
\* deleted and the result is printed.
CollectNext ==
  /\ stage = "collect"
  /\ col.iter = NIL
  /\ IF col.line + 1 < NumLines
     THEN /\ col' = FirstStamp(col.line + 1)
          /\ UNCHANGED <<stage, threadVars>>
     ELSE /\ stage' = "done"
          /\ ThreadEnd
          /\ UNCHANGED col
  /\ UNCHANGED <<tableVars, countVars, pc, accessVars, walkVars, trace>>

\* The process has printed its result and is gone.
Terminated == stage = "done" /\ UNCHANGED vars
-----------------------------------------------------------------------------
Next ==
  \/ \E t \in Threads : Lifecycle(t) \/ RecordMem(t) \/ Recording(t)
  \/ Fini \/ CollectStamp \/ CollectNext
  \/ Terminated

Spec == Init /\ [][Next]_vars

(***************************************************************************)
(* A thread inside RecordMem is scheduled again and again, and Fini runs   *)
(* on once called; whether the program makes another access or exits is up *)
(* to the program.                                                         *)
(***************************************************************************)
FairSpec == /\ Spec
            /\ \A t \in Threads : WF_vars(Recording(t))
            /\ WF_vars(CollectStamp \/ CollectNext)
-----------------------------------------------------------------------------
(***************************************************************************)
(* The result.  Fini prints a row per bucket j, for the window length that *)
(* opens the bucket.  wcount_sum starts as the sum over all the buckets    *)
(* and loses one bucket per row.  Times the number of windows, the number  *)
(* of row j and level k is                                                 *)
(***************************************************************************)
\* Mutant: the bucket of the longest window is left out.
SumBelow(count, k, j) ==
  MapThenSumSet(LAMBDA b : count[k][b], j .. sublog_value_to_index(N) - 1)

SumBuckets(count, k, j) ==
  MapThenSumSet(LAMBDA b : count[k][b], j .. sublog_value_to_index(N + 1))

Rows == 1 .. sublog_value_to_index(N)

RowWindow(j) == sublog_index_to_value(j)

RowValue(k, j) ==
  LET ws == RowWindow(j)
  IN  M[k] * (N - ws + 1) - (SumBuckets(wcount_i, k, j) - (ws - 1) * SumBuckets(wcount, k, j))
-----------------------------------------------------------------------------
(***************************************************************************)
(* Properties.                                                             *)
(***************************************************************************)
PcLabels == {"idle", "acquire", "load", "visit", "update", "release"}

\* Every variable has its type.
TypeOK ==
  /\ ThreadTypeOK
  /\ lock \in [Sets -> {0, 1}]
  /\ stamps \in [Lines -> StampLists]
  /\ N \in Nat
  /\ M \in [Levels -> Nat]
  /\ wcount \in [Levels -> [Buckets -> Int]]
  /\ wcount_i \in [Levels -> [Buckets -> Int]]
  /\ pc \in [Threads -> PcLabels]
  /\ acc \in [Threads -> Accesses \cup {NoAccess}]
  /\ base_addr \in [Threads -> Nat]
  /\ cur_addr \in [Threads -> Nat]
  /\ tempN \in [Threads -> Nat]
  /\ s \in [Threads -> StampLists]
  /\ iter \in [Threads -> Threads \cup {NIL}]
  /\ prev \in [Threads -> Threads \cup {NIL}]
  /\ thd_count \in [Threads -> Nat]
  /\ stage \in {"run", "collect", "done"}
  /\ col \in [line : Lines, iter : Threads \cup {NIL}, thd_count : Nat]
  /\ trace \in Seq([thread : Threads, access : Accesses])

\* The lines whose sets a thread has locked and not yet released: the locks
\* are taken in the order of the lines and released in the same order.
Locked(t) == cur_addr[t] .. base_addr[t] - 1

Held(t) == {SetIndex(l) : l \in Locked(t)}

\* No two threads are ever inside RecordMem with the same set of the table:
\* the accesses of several lines release their sets one by one, while others
\* already wait for them.
LocksExclusive == \A t, u \in Threads : t # u => Held(t) \cap Held(u) = {}

\* The lines whose list the thread will still read or write with its stamp.
ToProfile(t) ==
  CASE pc[t] \in {"load", "visit", "update"} -> cur_addr[t] .. LineEnd(acc[t]) - 1
    [] pc[t] = "release" -> cur_addr[t] + 1 .. LineEnd(acc[t]) - 1
    [] OTHER -> {}

\* A time stamp is reserved after the locks are held, so it is later than
\* every stamp in the lists it will be compared with: the unsigned distances
\* of SfpImpl and of CollectLastAccesses never wrap around.
StampsInOrder ==
  /\ \A l \in Lines, u \in Threads : stamps[l].latest[u] <= N
  /\ \A t \in Threads : \A l \in ToProfile(t), u \in Threads :
       stamps[l].latest[u] < tempN[t]

\* The lists of the table stay sorted, acyclic and complete, whatever the
\* interleaving of the threads that move themselves to the front.
ListsSorted == \A l \in Lines : MostRecentFirst(stamps[l])

\* During the walk thd_count is the number of threads that accessed the line
\* after the one at iter, the sharing level the interval belongs to, and the
\* thread itself is not among those already passed.
WalkCountsSharers ==
  \A t \in Threads : pc[t] = "visit" =>
    /\ thd_count[t] = Cardinality(Passed(s[t], iter[t]))
    /\ t \notin Passed(s[t], iter[t])

\* The sharing level an interval is counted at, and in PassStamp the next one
\* it is taken off, always exist in M, wcount and wcount_i, which have a row
\* per thread and are indexed without a check.
LevelsInRange ==
  /\ \A t \in Threads : pc[t] = "visit" =>
       /\ thd_count[t] \in Levels
       /\ iter[t] \notin {t, NIL} => thd_count[t] + 1 \in Levels
  /\ stage = "collect" /\ col.iter # NIL => col.thd_count \in Levels

\* A step never takes back the last access of a thread to a line: no update
\* of a list is lost, although SfpImpl works on a copy of it.
NoLostUpdate ==
  [][\A l \in Lines, u \in Threads : stamps'[l].latest[u] >= stamps[l].latest[u]]_vars

\* No threads wait for each other's sets in a circle: lock order is the order
\* of the lines, which the index of a set wraps around.
NoLockCycle ==
  \A D \in (SUBSET Threads) \ {{}} :
    \E t \in D : ~ (Waiting(t) /\ \E u \in D : SetIndex(base_addr[t]) \in Held(u))

\* Every access that RecordMem begins to record is recorded to the end.
AccessesComplete == \A t \in Threads : pc[t] # "idle" ~> pc[t] = "idle"

\* Every number printed is the footprint of the trace, for every window
\* length and every sharing level, counted window by window.
ReportIsExact ==
  stage = "done" =>
    \A j \in Rows, k \in 0 .. NumThreads - 1 :
      /\ RowWindow(j) \in 1 .. N
      /\ RowValue(k, j) = SharedFootprint(trace, Lines, k, RowWindow(j))

(***************************************************************************)
(* The table as the program's accesses see it: an access that has its      *)
(* stamp has happened, also to the lines whose lists it has yet to update. *)
(***************************************************************************)
Table == INSTANCE RecencyTable WITH
  Data   <- Lines,
  clock  <- N,
  last   <- [l \in Lines |-> [t \in Threads |->
              IF l \in ToProfile(t) THEN tempN[t] ELSE stamps[l].latest[t]]],
  closed <- stage # "run"

\* The locking makes every access, however many sets it spans, atomic at the
\* moment it takes its time stamp.
RefinesRecencyTable == Table!Spec
=============================================================================
