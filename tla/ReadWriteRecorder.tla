-------------------------- MODULE ReadWriteRecorder --------------------------
(***************************************************************************)
(* anyk-wr-sfp.cpp: the recorder that tells read-only sharing from sharing *)
(* with writes.  Beside the counts of SfpRecorder it keeps wcount_ro, the  *)
(* footprint of the lines that a window only reads; the time of the last   *)
(* write to a line takes the part of the beginning of the trace.           *)
(*                                                                         *)
(* Locks, stamps and list are those of SfpRecorder, which implements       *)
(* RecencyTable: an access is atomic.  Here it is one action, and touches  *)
(* one line.                                                               *)
(***************************************************************************)
EXTENDS StampList, SublogHisto, Sequences, FiniteSets, FiniteSetsExt

CONSTANTS
  NumLines,  \* the lines 0 .. NumLines - 1 of the program
  MaxTrace   \* bound on the number of recorded accesses

ASSUME ReadWriteAssumption == NumLines \in Nat \ {0} /\ MaxTrace \in Nat

Lines   == 0 .. NumLines - 1
Levels  == 0 .. NumThreads - 1
Buckets == 0 .. MAX_WINDOW - 1

TAccessType == {"READ_ACCESS", "WRITE_ACCESS"}

VARIABLES
  N, M,
  stamps,      \* the list of each line
  last_write,  \* and the time of its last write
  wcount, wcount_i, wcount_ro, wcount_ro_i,
  stage,       \* "run", or "done" once Fini has counted the open intervals
  trace        \* history: the accesses, in the order of their stamps

vars == <<N, M, stamps, last_write, wcount, wcount_i, wcount_ro, wcount_ro_i, stage, trace>>

NoCount == [k \in Levels |-> [b \in Buckets |-> 0]]

Init == /\ N = 0
        /\ M = [k \in Levels |-> 0]
        /\ stamps = [l \in Lines |-> EmptyStamps]
        /\ last_write = [l \in Lines |-> 0]
        /\ wcount = NoCount /\ wcount_i = NoCount
        /\ wcount_ro = NoCount /\ wcount_ro_i = NoCount
        /\ stage = "run"
        /\ trace = <<>>
-----------------------------------------------------------------------------
(***************************************************************************)
(* The loops of the code add and subtract intervals one by one.  Here they *)
(* are the set of the intervals [at, level, d, n]: at tells those of       *)
(* different places apart, n is 1 for one that is added, -1 for one that   *)
(* is subtracted.                                                          *)
(***************************************************************************)
Interval(at, level, d, n) == [at |-> at, level |-> level, d |-> d, n |-> n]

In(ints, k, b) == {x \in ints : x.level = k /\ sublog_value_to_index(x.d) = b}

Counted(count, ints) ==
  [k \in Levels |-> [b \in Buckets |->
     count[k][b] + MapThenSumSet(LAMBDA x : x.n, In(ints, k, b))]]

Summed(count, ints) ==
  [k \in Levels |-> [b \in Buckets |->
     count[k][b] + MapThenSumSet(LAMBDA x : x.n * x.d, In(ints, k, b))]]

\* The threads of a list in the order of its links, and NIL after the last.
Chain(list) ==
  LET at[i \in Levels] ==
        IF i = 0 THEN list.head ELSE IF at[i - 1] = NIL THEN NIL ELSE list.next[at[i - 1]]
  IN  at

InList(list) == {i \in Levels : Chain(list)[i] # NIL}

\* The loop of SfpImpl stops at the thread itself.
Visited(list, t) ==
  {i \in InList(list) : \A j \in 0 .. i - 1 : Chain(list)[j] # t}

Found(list, t) == list.latest[t] > 0

\* The threads the walk passes before it meets t or ends.
PassedBy(list, t) == {i \in Visited(list, t) : Chain(list)[i] # t}

\* The intervals of all accesses that an access of t at pos closes.
Closed(list, t, pos) ==
  LET d(i) == pos - list.latest[Chain(list)[i]] - 1
  IN  {Interval("met", i, d(i), 1) : i \in Visited(list, t)}
      \cup {Interval("passed", i + 1, d(i), -1) : i \in PassedBy(list, t)}
      \cup (IF Found(list, t) THEN {}
            ELSE {Interval("first", Cardinality(PassedBy(list, t)), pos - 1, 1)})

\* Whether the last access of the thread at i came after the last write.
SinceWrite(list, i, written) == list.latest[Chain(list)[i]] > written

\* The read-only intervals that a read of t closes: those between reads, and,
\* when t has not read the line since the last write, the one from there.
ReadClosed(list, t, pos, written) ==
  LET d(i) == pos - list.latest[Chain(list)[i]] - 1
      Reads(I) == {i \in I : SinceWrite(list, i, written)}
      Before(i) == Cardinality(Reads({j \in PassedBy(list, t) : j < i}))
  IN  {Interval("met", Before(i), d(i), -1) : i \in Reads(Visited(list, t))}
      \cup {Interval("passed", Before(i) + 1, d(i), 1) : i \in Reads(PassedBy(list, t))}
      \cup (IF \E i \in Reads(Visited(list, t)) : Chain(list)[i] = t THEN {}
            ELSE {Interval("first", Cardinality(Reads(PassedBy(list, t))), pos - written - 1, -1)})

\* Mutant: the segment since the last write is not added back.
LeftOverOnly(list, end, written) ==
  {Interval("left", i, end - list.latest[Chain(list)[i]], -1) :
     i \in {j \in InList(list) : list.latest[Chain(list)[j]] >= written}}

\* What a write, or the end of the trace, closes: the threads that accessed
\* the line since the last write each leave an interval open, up to end, and
\* the segment since that write counts at their level.
LeftOver(list, end, written) ==
  LET Since == {i \in InList(list) : list.latest[Chain(list)[i]] >= written}
  IN  {Interval("left", i, end - list.latest[Chain(list)[i]], -1) : i \in Since}
      \cup {Interval("segment", i, end - written, 1) : i \in Since}
-----------------------------------------------------------------------------
\* Mutant: a write does not become the last write.
WrittenNever(l, type) == last_write

\* Mutant: the time of a write is read after the counter has moved on.
WrittenAhead(l, type) ==
  IF type = "WRITE_ACCESS" THEN [last_write EXCEPT ![l] = N + 2] ELSE last_write

Written(l, type) ==
  IF type = "WRITE_ACCESS" THEN [last_write EXCEPT ![l] = N + 1] ELSE last_write

\* The element before t in the walk, as SfpImpl keeps it in prev.
Prev(list, t) ==
  IF PassedBy(list, t) = {} THEN NIL ELSE Chain(list)[Max(PassedBy(list, t))]

RecordMem(t, l, type) ==
  /\ stage = "run"
  /\ N < MaxTrace
  /\ N' = N + 1
  /\ LET list == stamps[l]
         all  == Closed(list, t, N + 1)
         ro   == IF type = "READ_ACCESS" THEN ReadClosed(list, t, N + 1, last_write[l])
                                         ELSE LeftOver(list, N, last_write[l])
     IN  /\ wcount' = Counted(wcount, all) /\ wcount_i' = Summed(wcount_i, all)
         /\ wcount_ro' = Counted(wcount_ro, ro) /\ wcount_ro_i' = Summed(wcount_ro_i, ro)
         /\ M' = IF Found(list, t) THEN M
                 ELSE [M EXCEPT ![Cardinality(PassedBy(list, t))] = @ + 1]
         /\ stamps' = [stamps EXCEPT ![l] = MovedToFront(list, t, N + 1, Prev(list, t))]
  /\ last_write' = Written(l, type)
  /\ trace' = Append(trace, [thread |-> t, line |-> l, type |-> type])
  /\ UNCHANGED stage

\* The intervals of all accesses that are open at the end of the trace.
Open(l) == {Interval(l, i, N - stamps[l].latest[Chain(stamps[l])[i]], 1) :
              i \in InList(stamps[l])}

\* CollectLastAccesses, as part of Fini.
Fini ==
  /\ stage = "run"
  /\ stage' = "done"
  /\ LET all == UNION {Open(l) : l \in Lines}
         ro  == UNION {{[x EXCEPT !.at = <<l, @>>] : x \in LeftOver(stamps[l], N, last_write[l])}
                        : l \in Lines}
     IN  /\ wcount' = Counted(wcount, all) /\ wcount_i' = Summed(wcount_i, all)
         /\ wcount_ro' = Counted(wcount_ro, ro) /\ wcount_ro_i' = Summed(wcount_ro_i, ro)
  /\ UNCHANGED <<N, M, stamps, last_write, trace>>

Terminated == stage = "done" /\ UNCHANGED vars

Next == \/ \E t \in Threads, l \in Lines, type \in TAccessType : RecordMem(t, l, type)
        \/ Fini
        \/ Terminated

Spec == Init /\ [][Next]_vars
-----------------------------------------------------------------------------
(***************************************************************************)
(* The three files that Fini prints, times the number of windows: level k  *)
(* of the row of window length ws, which opens bucket j.                   *)
(***************************************************************************)
Rows == 1 .. sublog_value_to_index(N)

Total(count, k, j) == MapThenSumSet(LAMBDA b : count[k][b], j .. sublog_value_to_index(N + 1))

RowSum(count, count_i, k, j) ==
  Total(count_i, k, j) - (sublog_index_to_value(j) - 1) * Total(count, k, j)

ALL_SFP(k, j) == M[k] * (N - sublog_index_to_value(j) + 1) - RowSum(wcount, wcount_i, k, j)

READONLY_SFP(k, j) == RowSum(wcount_ro, wcount_ro_i, k, j)

READWRITE_SFP(k, j) == ALL_SFP(k, j) - READONLY_SFP(k, j)
-----------------------------------------------------------------------------
(***************************************************************************)
(* Properties.                                                             *)
(***************************************************************************)

\* Every variable has its type.
TypeOK ==
  /\ N \in Nat /\ M \in [Levels -> Nat]
  /\ stamps \in [Lines -> StampLists]
  /\ last_write \in [Lines -> 0 .. N]
  /\ \A count \in {wcount, wcount_i, wcount_ro, wcount_ro_i} :
       count \in [Levels -> [Buckets -> Int]]
  /\ stage \in {"run", "done"}

\* The accesses to a line in the window of ws accesses that starts at i.
Window(l, i, ws) == {x \in i .. i + ws - 1 : trace[x].line = l}

Windows(ws, Wanted(_)) ==
  MapThenSumSet(LAMBDA l : Cardinality({i \in 1 .. N - ws + 1 : Wanted(Window(l, i, ws))}), Lines)

SharedBy(k, X) == Cardinality({trace[x].thread : x \in X}) > k

ReadOnly(X) == \A x \in X : trace[x].type = "READ_ACCESS"

\* "ResultFile[1] is for sfp where all accesses are read": its numbers are
\* those of the windows in which more than k threads read the line and none
\* writes it, for every window length and sharing level.
ReadOnlyIsExact ==
  stage = "done" =>
    \A j \in Rows, k \in Levels :
      READONLY_SFP(k, j) =
        Windows(sublog_index_to_value(j), LAMBDA X : SharedBy(k, X) /\ ReadOnly(X))

\* "ResultFile[2] is for sfp where at least one access is write": obtained as
\* a difference, it is the footprint of the windows with a write.
ReadWriteIsExact ==
  stage = "done" =>
    \A j \in Rows, k \in Levels :
      READWRITE_SFP(k, j) =
        Windows(sublog_index_to_value(j), LAMBDA X : SharedBy(k, X) /\ ~ ReadOnly(X))
=============================================================================
