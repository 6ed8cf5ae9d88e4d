---------------------------- MODULE MCSfpRecorder ----------------------------
(***************************************************************************)
(* The accesses the instances of SfpRecorder choose from, and the bucketing *)
(* of their intervals for every value of a word wider than their traces.   *)
(***************************************************************************)
EXTENDS SfpRecorder

Access(addr, size) == [addr |-> addr, size |-> size]

\* One access per line.
LineAccesses == {Access(l * LineSize, 1) : l \in Lines}

\* Accesses of one and of two lines.  With four lines in three sets, lines 0
\* and 3 share a set and the last access wraps around the table.
SpanningAccesses == {Access(0, LineSize), Access(0, 2 * LineSize),
                     Access(LineSize, 2 * LineSize), Access(2 * LineSize, 2 * LineSize)}

\* An access that begins at the last byte of line 0 and ends in line 1, and
\* accesses to either line.
StraddlingAccesses == {Access(0, 1), Access(LineSize - 1, 2), Access(LineSize, 1)}
-----------------------------------------------------------------------------
Histo == INSTANCE SublogHisto WITH SublogBits <- 3, WordBits <- 8

Values == 0 .. 2 ^ 8 - 1

\* The conversions do not depend on the state: they are looked at before the
\* first thread starts.
AtStart == gThreadNum = 0

\* Every value of the word has a bucket in the arrays of MAX_WINDOW entries,
\* and it is bucket j or above exactly when the value reaches that which
\* sublog_index_to_value gives for j: Fini drops whole buckets as the window
\* grows, so a row is exact although the lengths are not counted one by one.
BoundariesExact ==
  AtStart => \A value \in Values :
    LET bucket == Histo!sublog_value_to_index(value)
    IN  /\ bucket \in 0 .. Histo!MAX_WINDOW - 1
        /\ \A j \in 0 .. Histo!MAX_WINDOW - 1 :
             bucket >= j <=> value >= Histo!sublog_index_to_value(j)
=============================================================================
