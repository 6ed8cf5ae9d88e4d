--------------------------- MODULE AnySetRecorder ---------------------------
(***************************************************************************)
(* anyset-fp.cpp: the profiler of the footprint of every set of threads.   *)
(*                                                                         *)
(* It records and counts intervals as anyk-sfp.cpp does.  Before SfpImpl   *)
(* counts the intervals an access closes, it also looks at a few window    *)
(* lengths, the pillars: for each it finds the windows that end after the  *)
(* last access to the line and before this one, and adds them to the       *)
(* counts of the sets of threads that touch the line in them.  A window of *)
(* length len is named by its left end x, and covers x .. x + len - 1.     *)
(*                                                                         *)
(* The list is walked once per pillar.  rpoint comes down from the largest *)
(* left end to the time of one access after the other, and bitmap is the   *)
(* set of the threads whose last access is in the windows at rpoint.       *)
(***************************************************************************)
EXTENDS SfpRecorder

CONSTANTS
  gLowestPillar,  \* the knob -l, "in log scale"
  MAX_PILLARS     \* 12 in the code

ASSUME PillarAssumption == gLowestPillar \in Nat /\ MAX_PILLARS \in Nat \ {0}

Pillars == 0 .. MAX_PILLARS - 1

\* 1 << gLowestPillar, and four times as much from one to the next.
gPillarLengths(i) == 2 ^ (gLowestPillar + 2 * i)

VARIABLES
  gPillars,  \* gPillars[i][set]: the windows of pillar i with that set of sharers
  walk,      \* walk[t]: the walk over the pillars of the SfpImpl of thread t
  last       \* the walk of CollectLastAccesses

setVars == <<gPillars, walk, last>>

anysetVars == <<vars, setVars>>
-----------------------------------------------------------------------------
(***************************************************************************)
(* One walk over the pillars, for an access (or the trace's end) at pos    *)
(* and the list of the line.  A walk whose pillar is MAX_PILLARS is over.  *)
(***************************************************************************)
Walks == [pillar : 0 .. MAX_PILLARS, iter : Threads \cup {NIL}, rpoint : Nat,
          bitmap : SUBSET Threads]

WalkOver == [pillar |-> MAX_PILLARS, iter |-> NIL, rpoint |-> 0, bitmap |-> {}]

\* The right most left end of the windows.
High(pos, i) == pos - gPillarLengths(i)

\* Mutant: the windows that only the last access touches are forgotten.
LowLate(list, i) ==
  IF list.head # NIL THEN list.latest[list.head] ELSE 0

\* The windows begin after low: those up to it ended before the last access,
\* and that access has counted them.
Low(list, i) ==
  IF list.head # NIL /\ list.latest[list.head] > gPillarLengths(i)
  THEN list.latest[list.head] - gPillarLengths(i)
  ELSE 0

\* The loop over the pillars ends at the first that is not shorter than pos.
WalkFrom(list, pos, i) ==
  IF i < MAX_PILLARS /\ pos > gPillarLengths(i)
  THEN [pillar |-> i, iter |-> list.head, rpoint |-> High(pos, i), bitmap |-> {}]
  ELSE WalkOver

\* The last access of w's current thread is after every left end.
InAllWindows(list, pos, w) ==
  w.iter # NIL /\ list.latest[w.iter] > High(pos, w.pillar)

\* Mutant: the walk does not stop at low.
SplitsWindowsBelowLow(list, pos, w) ==
  /\ w.iter # NIL
  /\ list.latest[w.iter] <= High(pos, w.pillar)

\* It is between the left ends.
SplitsWindows(list, pos, w) ==
  /\ w.iter # NIL
  /\ list.latest[w.iter] <= High(pos, w.pillar)
  /\ list.latest[w.iter] > Low(list, w.pillar)

\* Mutant: the thread is left out of the windows it is in.
PassUnseen(list, w) == [w EXCEPT !.iter = list.next[w.iter]]

\* On to the next thread of the list, with the current one among the sharers.
Pass(list, w) == [w EXCEPT !.iter = list.next[w.iter], !.bitmap = @ \cup {w.iter}]

\* The windows from c to rpoint have the sharers met so far.
Count(w, c) == [gPillars EXCEPT ![w.pillar][w.bitmap] = @ + (w.rpoint - c)]

\* A step of a walk: what it adds, and where it goes on.
Counted(list, pos, w) ==
  IF InAllWindows(list, pos, w) THEN gPillars
  ELSE IF SplitsWindows(list, pos, w) THEN Count(w, list.latest[w.iter])
  ELSE Count(w, Low(list, w.pillar))

Walked(list, pos, w) ==
  IF InAllWindows(list, pos, w) THEN Pass(list, w)
  ELSE IF SplitsWindows(list, pos, w) THEN [Pass(list, w) EXCEPT !.rpoint = list.latest[w.iter]]
  ELSE WalkFrom(list, pos, w.pillar + 1)
-----------------------------------------------------------------------------
(***************************************************************************)
(* SfpImpl: the pillars come after the list has been copied and before the *)
(* intervals are counted.                                                  *)
(***************************************************************************)
AnySetInit ==
  /\ Init
  /\ gPillars = [i \in Pillars |-> [set \in SUBSET Threads |-> 0]]
  /\ walk = [t \in Threads |-> WalkOver]
  /\ last = WalkOver

\* The list is copied and the first pillar begins.
BeginPillars(t) ==
  /\ LoadStamps(t)
  /\ walk' = [walk EXCEPT ![t] = WalkFrom(stamps[cur_addr[t]], tempN[t], 0)]
  /\ UNCHANGED <<gPillars, last>>

ProfilePillar(t) ==
  /\ pc[t] = "visit"
  /\ walk[t].pillar < MAX_PILLARS
  /\ gPillars' = Counted(s[t], tempN[t], walk[t])
  /\ walk' = [walk EXCEPT ![t] = Walked(s[t], tempN[t], walk[t])]
  /\ UNCHANGED <<vars, last>>

\* The loop over the intervals, once the pillars are done.
CountIntervals(t) ==
  /\ walk[t].pillar = MAX_PILLARS
  /\ PassStamp(t) \/ MeetOwnStamp(t) \/ FirstAccess(t)
  /\ UNCHANGED setVars

AnySetRecording(t) ==
  \/ /\ LockAcquire(t) \/ LockSpin(t) \/ ReserveStamp(t)
     /\ UNCHANGED setVars
  \/ BeginPillars(t) \/ ProfilePillar(t) \/ CountIntervals(t)
  \/ /\ StoreStamps(t) \/ LockRelease(t)
     /\ UNCHANGED setVars
-----------------------------------------------------------------------------
(***************************************************************************)
(* Fini: CollectLastAccesses walks the pillars of a datum before it counts *)
(* its last intervals.  A line nobody accessed is not in the table.        *)
(***************************************************************************)
\* The walk over the pillars of a line, as if it were accessed after the end.
LastWalk(l) ==
  IF l \in Lines /\ stamps[l].head # NIL THEN WalkFrom(stamps[l], N + 1, 0) ELSE WalkOver

AnySetFini ==
  /\ Fini
  /\ last' = LastWalk(0)
  /\ UNCHANGED <<gPillars, walk>>

CollectPillar ==
  /\ stage = "collect"
  /\ last.pillar < MAX_PILLARS
  /\ gPillars' = Counted(stamps[col.line], N + 1, last)
  /\ last' = Walked(stamps[col.line], N + 1, last)
  /\ UNCHANGED <<vars, walk>>

CollectIntervals ==
  /\ last.pillar = MAX_PILLARS
  /\ CollectStamp
  /\ UNCHANGED setVars

CollectLine ==
  /\ last.pillar = MAX_PILLARS
  /\ CollectNext
  /\ last' = LastWalk(col.line + 1)
  /\ UNCHANGED <<gPillars, walk>>

AnySetNext ==
  \/ \E t \in Threads : \/ /\ Lifecycle(t) \/ RecordMem(t)
                           /\ UNCHANGED setVars
                        \/ AnySetRecording(t)
  \/ AnySetFini \/ CollectPillar \/ CollectIntervals \/ CollectLine
  \/ Terminated /\ UNCHANGED setVars

AnySetSpec == AnySetInit /\ [][AnySetNext]_anysetVars
-----------------------------------------------------------------------------
(***************************************************************************)
(* BuildSharingGraph: a file per pillar up to the first that is longer     *)
(* than the trace, with a row per set of the thread ids below gThreadNum   *)
(* whose count is not zero: the count, divided by the number of windows.   *)
(***************************************************************************)
Written == {i \in Pillars : gPillarLengths(i) <= N}

SharingRows(i) ==
  {set \in (SUBSET (0 .. gThreadNum - 1)) \ {{}} :
     set \subseteq Threads /\ gPillars[i][set] # 0}
-----------------------------------------------------------------------------
(***************************************************************************)
(* Properties.                                                             *)
(***************************************************************************)
\* The variables of the walks have their types.
AnySetTypeOK ==
  /\ TypeOK
  /\ gPillars \in [Pillars -> [SUBSET Threads -> Nat]]
  /\ walk \in [Threads -> Walks]
  /\ last \in Walks

\* The windows counted next are those with left ends up to rpoint: a thread
\* is among the sharers if and only if it has been passed, all threads passed
\* touch the line at rpoint or later, and the others either before it or, as
\* long as no window has been split off, after all left ends.
SharersOfWindows(list, pos, w) ==
  w.pillar < MAX_PILLARS =>
    /\ w.bitmap = Passed(list, w.iter)
    /\ w.rpoint \in Low(list, w.pillar) .. High(pos, w.pillar)
    /\ \A u \in w.bitmap : list.latest[u] >= w.rpoint
    /\ \A u \in Threads \ w.bitmap :
         list.latest[u] <= w.rpoint \/ w.rpoint = High(pos, w.pillar)

\* Every walk counts windows under the set of threads that touch the line in
\* them, and the unsigned differences it adds never wrap around, although the
\* list may change in the table as soon as the set is released.
WalksCountSharers ==
  /\ \A t \in Threads : pc[t] = "visit" => SharersOfWindows(s[t], tempN[t], walk[t])
  /\ stage = "collect" => SharersOfWindows(stamps[col.line], N + 1, last)

\* The windows of length ws in which exactly this set of threads touches line l.
WindowsOfSet(tr, l, set, ws) ==
  Cardinality({x \in 1 .. Len(tr) - ws + 1 : Sharers(tr, l, x, ws) = set})

\* The files hold, for every pillar and every set of threads, the number of
\* windows and lines that exactly this set shares; a set has no row only if
\* there is no such window.  Thread ids are used again and gThreadNum counts
\* starts, so the rows go beyond the ids in use, never short of them.
SharingGraphIsExact ==
  stage = "done" =>
    \A i \in Written, set \in (SUBSET Threads) \ {{}} :
      (IF set \in SharingRows(i) THEN gPillars[i][set] ELSE 0)
        = MapThenSumSet(LAMBDA l : WindowsOfSet(trace, l, set, gPillarLengths(i)), Lines)
=============================================================================
