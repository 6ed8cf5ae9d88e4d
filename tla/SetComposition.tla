--------------------------- MODULE SetComposition ---------------------------
(***************************************************************************)
(* anyset-fp-compose.rb: the footprint of a group of threads, composed     *)
(* from the two outputs of anyset-fp.cpp.                                  *)
(*                                                                         *)
(* The any-k report says how many lines exactly k threads share in windows *)
(* of every length; the sharing graphs say, for the pillars only, which    *)
(* threads these are.  The script takes from each pillar the proportion of *)
(* the lines shared by k threads that are shared by one of the group, and  *)
(* applies it to the windows of other lengths, interpolating between the   *)
(* pillars.                                                                *)
(***************************************************************************)
EXTENDS AnySetRecorder

CONSTANTS
  lowest_pillar,  \* the option -l
  pillar_step     \* the option -p

ASSUME OptionAssumption == lowest_pillar \in Nat /\ pillar_step \in Nat

\* The thread groups the option --group can name: the script numbers the
\* threads from one.
Groups == SUBSET (0 .. NumThreads)
-----------------------------------------------------------------------------
(***************************************************************************)
(* Reading the files.                                                      *)
(***************************************************************************)
\* The suffix of the file of pillar i.
Suffix(i) == i + gLowestPillar

\* The files read: from the lowest pillar on, up to the first that is missing.
MaxSuffix == 35

FilesRead ==
  {ext \in lowest_pillar .. MaxSuffix :
     \A e \in lowest_pillar .. ext : \E i \in Written : Suffix(i) = e}

\* The sharing graphs read: sgraph(j) has the rows of the file of pillar
\* File(j), and stands for windows of length PillarLength(j).
NumGraphs == Cardinality(FilesRead)

File(j) == CHOOSE i \in Pillars : Suffix(i) = lowest_pillar + j

PillarLength(j) == 2 ^ ((lowest_pillar + j) * 2 ^ pillar_step)

\* Mutant: the columns of more than k threads are taken as they are.
SharedByMoreThan(k, row) == RowValue(k - 1, row)

\* Lines that exactly k threads share in the windows of a row: the columns of
\* the report are for more than k - 1 and more than k threads.
SharedByExactly(k, row) ==
  RowValue(k - 1, row) - (IF k < MAX_THREAD THEN RowValue(k, row) ELSE 0)

Degrees == 1 .. NumThreads
-----------------------------------------------------------------------------
(***************************************************************************)
(* sfp_partial.  The fractions are kept as a numerator over the weight.    *)
(***************************************************************************)
\* array_to_bitmap: 1 << (i - 1), which is 0 for i = 0.
GroupBitmap(group) == {i - 1 : i \in group \ {0}}

GroupBitmaps == {GroupBitmap(group) : group \in Groups}

\* The weights of the sets of k threads, all of them or those of the group.
Weight(j, k) ==
  MapThenSumSet(LAMBDA g : gPillars[File(j)][g],
                {g \in SharingRows(File(j)) : Cardinality(g) = k})

\* Mutant: only the sets inside the group count.
PortionInside(j, k, b) ==
  MapThenSumSet(LAMBDA g : gPillars[File(j)][g],
                {g \in SharingRows(File(j)) : Cardinality(g) = k /\ g \subseteq b})

Portion(j, k, b) ==
  MapThenSumSet(LAMBDA g : gPillars[File(j)][g],
                {g \in SharingRows(File(j)) : Cardinality(g) = k /\ g \cap b # {}})

\* The row's windows are longer than pillar p.
LongerThan(row, p) == RowWindow(row) > PillarLength(p)

\* The phase of a row, which grows by at most one per row: the first pillar
\* that is not shorter than the row's windows.
Phase ==
  LET phase[row \in 0 .. sublog_value_to_index(N)] ==
        IF row = 0 THEN 0
        ELSE LET p == phase[row - 1]
             IN  IF p < NumGraphs /\ LongerThan(row, p) THEN p + 1 ELSE p
  IN  phase

\* The script compares every row with the pillar of the phase before it.  When
\* there is none left it compares with nil, which raises an error, and nothing
\* is printed.
Completes == \A row \in Rows : Phase[row - 1] < NumGraphs

Fraction(num, den) == [num |-> num, den |-> IF den = 0 THEN 1 ELSE den]

\* porp: the proportion of the weight of degree k that belongs to the group.
Proportion(j, k, b) == Fraction(Portion(j, k, b), Weight(j, k))

\* The point at x of the y steps from a to c.
Interpolated(a, c, x, y) ==
  Fraction(a.num * c.den * y + x * (c.num * a.den - a.num * c.den), a.den * c.den * y)

\* Mutant: the distance to the pillar before is taken from zero.
RowProportionFromZero(k, row, b) ==
  LET p == Phase[row]
  IN  IF p = 0 THEN Proportion(p, k, b)
      ELSE IF p = NumGraphs THEN Proportion(p - 1, k, b)
      ELSE Interpolated(Proportion(p - 1, k, b), Proportion(p, k, b),
                        RowWindow(row), PillarLength(p) - PillarLength(p - 1))

\* The proportion applied to the lines that exactly k threads share.
RowProportion(k, row, b) ==
  LET p == Phase[row]
  IN  IF p = 0 THEN Proportion(p, k, b)
      ELSE IF p = NumGraphs THEN Proportion(p - 1, k, b)
      ELSE Interpolated(Proportion(p - 1, k, b), Proportion(p, k, b),
                        RowWindow(row) - PillarLength(p - 1),
                        PillarLength(p) - PillarLength(p - 1))
-----------------------------------------------------------------------------
(***************************************************************************)
(* Properties.                                                             *)
(***************************************************************************)
\* Windows of length ws and lines that exactly k threads share, one of them
\* in the group b, counted on the trace.
GroupWindows(k, ws, b) ==
  MapThenSumSet(
    LAMBDA l : Cardinality({x \in 1 .. Len(trace) - ws + 1 :
                              LET sh == Sharers(trace, l, x, ws)
                              IN  Cardinality(sh) = k /\ sh \cap b # {}}),
    Lines)

\* For the window lengths of the recorder's pillars, which are measured for
\* every set of threads, the composed footprint of every group of threads is
\* the footprint that these threads have together, degree by degree.
ComposedIsExact ==
  stage = "done" /\ NumGraphs > 0 /\ Completes =>
    \A row \in Rows, k \in Degrees :
      RowWindow(row) \in {gPillarLengths(i) : i \in Written} =>
        LET shared == SharedByExactly(k, row)
        IN  \A b \in GroupBitmaps :
              LET c == RowProportion(k, row, b)
              IN  c.num * shared = c.den * GroupWindows(k, RowWindow(row), b)

\* A row between two pillars keeps a proportion between those of the pillars:
\* no group is ever given more than the footprint of a degree, or less than
\* nothing.
ProportionsBounded ==
  stage = "done" /\ NumGraphs > 0 /\ Completes =>
    \A row \in Rows, k \in Degrees, b \in GroupBitmaps :
      LET c == RowProportion(k, row, b) IN 0 <= c.num /\ c.num <= c.den

\* The script takes every sharing graph for windows of the length the recorder
\* has measured it for.
PillarsAsRecorded ==
  stage = "done" =>
    \A j \in 0 .. NumGraphs - 1 : PillarLength(j) = gPillarLengths(File(j))

\* The script composes every profile the recorder has written sharing graphs
\* for.
EveryProfileComposes == stage = "done" /\ NumGraphs > 0 => Completes
=============================================================================
