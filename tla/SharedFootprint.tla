--------------------------- MODULE SharedFootprint ---------------------------
(***************************************************************************)
(* What the tools measure, stated on the trace of accesses itself.         *)
(*                                                                         *)
(* A trace is a sequence of accesses [thread, access]; an access touches   *)
(* the cache lines of its bytes.  For a window length ws, the footprint    *)
(* shared by more than k threads is the number of lines that more than k   *)
(* threads touch in a window of ws consecutive accesses, averaged over all *)
(* the windows of the trace.  The profiler never looks at a window: it     *)
(* must obtain the same numbers from the intervals between accesses.       *)
(***************************************************************************)
EXTENDS Integers, Sequences, FiniteSets, FiniteSetsExt

CONSTANT LineSize  \* WORDWIDTH and SETWIDTH: the bytes of a line

ASSUME LineAssumption == LineSize \in Nat \ {0}

\* The lines that hold the bytes addr .. addr + size - 1.
Touched(a) == a.addr \div LineSize .. (a.addr + a.size - 1) \div LineSize

\* The threads that touch a line in the window of ws accesses that starts at i.
Sharers(tr, line, i, ws) ==
  {tr[x].thread : x \in {y \in i .. i + ws - 1 : line \in Touched(tr[y].access)}}

\* The number of windows in which more than k threads touch the line.
SharedWindows(tr, line, k, ws) ==
  Cardinality({i \in 1 .. Len(tr) - ws + 1 :
                 Cardinality(Sharers(tr, line, i, ws)) > k})

\* The footprint at sharing level k, times the number of windows.
SharedFootprint(tr, lines, k, ws) ==
  MapThenSumSet(LAMBDA l : SharedWindows(tr, l, k, ws), lines)
=============================================================================
