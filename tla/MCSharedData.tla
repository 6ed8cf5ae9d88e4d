---------------------------- MODULE MCSharedData ----------------------------
(***************************************************************************)
(* The recorder of MyTests under the controller, for two threads and the   *)
(* command lines that ask for each kind of interval.                       *)
(***************************************************************************)
EXTENDS SharedData, TLC

\* No knob: CONTROL_INIT starts thread 0.
Default == [skip |-> 0, skipTid |-> ALL_THREADS,
            length |-> 0, lengthTid |-> ALL_THREADS, low |-> 0, high |-> 0,
            period |-> 0, periodTid |-> ALL_THREADS,
            uLength |-> 0, uLengthTid |-> ALL_THREADS,
            uSkip |-> 0, uSkipTid |-> ALL_THREADS, count |-> 0]

\* Intervals that are not repeated.
SkipAll      == [Default EXCEPT !.skip = 2]
LengthOne    == [Default EXCEPT !.length = 2, !.lengthTid = 0]
SkipLength   == [Default EXCEPT !.skip = 1, !.skipTid = 1, !.length = 2, !.lengthTid = 1]
SkipThenLength == [Default EXCEPT !.skip = 2, !.length = 2]

\* A range of threads: one start, by an alarm or by CONTROL_INIT, a start of
\* each thread, and a range with a thread named after it.
LengthRange  == [Default EXCEPT !.skip = 2, !.skipTid = 0, !.length = 2, !.high = 1]
RangeAtOnce  == [Default EXCEPT !.length = 2, !.high = 1]
RangeOfAll   == [Default EXCEPT !.skip = 1, !.length = 2, !.high = 1]
RangeThenTid == [Default EXCEPT !.skip = 1, !.skipTid = 1, !.length = 2, !.lengthTid = 1, !.high = 1]

\* Samples of one thread, with -uniform_skip, with -length, and of all threads.
One          == [Default EXCEPT !.periodTid = 0, !.uLengthTid = 0, !.uSkipTid = 0]
Samples      == [One EXCEPT !.period = 3, !.uLength = 1, !.count = 2]
SampleLater  == [One EXCEPT !.period = 3, !.uLength = 1, !.uSkip = 1, !.count = 1]
SampleLength == [One EXCEPT !.period = 4, !.uLength = 2, !.length = 1, !.count = 1]
SampleAll    == [Default EXCEPT !.period = 2, !.uLength = 1, !.count = 2]

MCKnobs == {SkipAll, LengthOne, SkipLength, LengthRange, RangeAtOnce, RangeOfAll, RangeThenTid,
            Samples, SampleLater, SampleLength, SampleAll}

\* "-skip N -length M": both for each thread.
AllKnobs == {SkipThenLength}

Instructions(n, m) == 0 :> n @@ 1 :> m

MCInstructions ==
  [k \in Knobs |-> CASE k = Samples      -> Instructions(11, 1)
                     [] k = SampleLater  -> Instructions(9, 1)
                     [] k = SampleLength -> Instructions(10, 1)
                     [] k = SkipAll      -> Instructions(3, 2)
                     [] k.high > 0       -> Instructions(4, 4)
                     [] OTHER            -> Instructions(4, 3)]

\* The accesses are recorded with the intervals that are not repeated.
MCAccesses == [k \in Knobs |-> IF k = SkipAll THEN 3 ELSE 0]
=============================================================================
