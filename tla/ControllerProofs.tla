--------------------------- MODULE ControllerProofs ---------------------------
(***************************************************************************)
(* The alarms and intervals of Controller, for every command line, number  *)
(* of threads and size of the blocks, and any bound on the instructions;   *)
(* and, after them, SharedData, the recorder of MyTests that the           *)
(* controller starts and stops: its number is exact.                       *)
(***************************************************************************)
EXTENDS SharedData, CountingLemmas, SequenceTheorems

\* The steps of the controller, whatever a thread does within its blocks.
ControlStep(t) == Calls(t) \/ StartThread(t) \/ ExitThread(t) \/ LeaveBlock(t)

ControlNext == (\E t \in Threads : ControlStep(t)) \/ ControlFini

ControlSpec == ControlInit /\ [][ControlNext]_controlVars
-----------------------------------------------------------------------------
(***************************************************************************)
(* The handlers' lists of what is left to do.                              *)
(***************************************************************************)
Task(op, a) == [op |-> op, alarm |-> a]

StartTask == Task("notify", "start")
StopTask  == Task("notify", "stop")

Push(x, q) == <<x>> \o q

\* Setting alarm a, step by step, and then q.
StorePlan(a, q) == Push(Task("handler", a), q)
ArmPlan(a, q)   == Push(Task("arm", a), StorePlan(a, q))
CountPlan(a, q) == Push(Task("count", a), ArmPlan(a, q))

SetPlans(a, q) == {CountPlan(a, q), ArmPlan(a, q), StorePlan(a, q)}

\* A start sets the length; CONTROL_INIT, which has no alarm, starts the
\* interval like the alarm of the skip does.
StartList == IF knobs.length > 0 THEN CountPlan("length", <<StartTask>>) ELSE <<StartTask>>

StartPlans == (IF knobs.length > 0 THEN SetPlans("length", <<StartTask>>) ELSE {})
                \cup {<<StartTask>>, <<>>}

\* The period or the end of -uniform_skip begins a sample.
SamplePlans(a) == SetPlans("period", <<Task("sample", a)>>)
                    \cup {<<Task("sample", a)>>, <<Task("begin", a)>>}
                    \cup SetPlans("uLength", StartList) \cup StartPlans

EndPlans == {<<Task("ended", "uLength"), StopTask>>, <<Task("add", "uLength"), StopTask>>,
             <<StopTask>>, <<>>}

\* What the list of the handler of alarm a may be.
Plans(a) ==
  CASE a = "skip" -> StartPlans
    [] a = "length" -> {<<StopTask>>, <<>>}
    [] a \in {"period", "uSkip"} -> SamplePlans(a)
    [] a = "uLength" -> EndPlans

\* The parts of a task.
LEMMA TaskFields ==
  \A o, a : /\ Task(o, a).op = o /\ Task(o, a).alarm = a
            /\ \A p, b : Task(o, a) = Task(p, b) => o = p /\ a = b
<1>1. ASSUME NEW o, NEW a PROVE Task(o, a).op = o /\ Task(o, a).alarm = a
  BY DEF Task
<1>. QED
  BY <1>1

\* A list with a new head.
LEMMA PushFacts ==
  ASSUME NEW S, NEW x \in S, NEW q \in Seq(S)
  PROVE  /\ Push(x, q) \in Seq(S) /\ Push(x, q) # <<>>
         /\ Head(Push(x, q)) = x /\ Tail(Push(x, q)) = q
<1>1. /\ Push(x, q) \in Seq(S) /\ Len(Push(x, q)) = Len(q) + 1 /\ Len(q) \in Nat
      /\ Push(x, q)[1] = x /\ \A i \in 1 .. Len(q) : Push(x, q)[i + 1] = q[i]
  <2>1. <<x>> \in Seq(S) /\ Len(<<x>>) = 1 /\ <<x>>[1] = x
    OBVIOUS
  <2>. QED
    BY <2>1 DEF Push
<1>2. Push(x, q) # <<>>
  <2>1. Len(Push(x, q)) # 0
    BY <1>1
  <2>. QED
    BY <2>1
<1>. HIDE DEF Push
<1>3. PICK r : r = Push(x, q)
  OBVIOUS
<1>4. /\ Tail(r) \in Seq(S) /\ Len(Tail(r)) = Len(q)
      /\ \A i \in 1 .. Len(q) : Tail(r)[i] = q[i]
  BY <1>1, <1>2, <1>3
<1>5. Tail(r) = q
  <2>1. \A u, v \in Seq(S) : Len(u) = Len(v) /\ (\A i \in 1 .. Len(v) : u[i] = v[i]) => u = v
    OBVIOUS
  <2>. QED
    BY <1>4, <2>1
<1>. QED
  BY <1>1, <1>2, <1>3, <1>5

\* The list of SetAlarm, and what comes after it.
LEMMA AppendToSet ==
  ASSUME NEW a \in Alarms, NEW q \in Seq(Tasks)
  PROVE  SetAlarm(a) \o q = CountPlan(a, q)
<1>1. PICK x, y, z \in Tasks : x = Task("count", a) /\ y = Task("arm", a) /\ z = Task("handler", a)
  BY DEF Task, Tasks
<1>2. SetAlarm(a) = <<x, y, z>>
  BY <1>1 DEF SetAlarm, Task
<1>. HIDE DEF Tasks
<1>3. /\ <<x>> \in Seq(Tasks) /\ <<y>> \in Seq(Tasks) /\ <<z>> \in Seq(Tasks)
      /\ <<y, z>> \in Seq(Tasks)
  OBVIOUS
<1>4. <<x, y, z>> = <<x>> \o <<y, z>>
  <2>1. /\ <<x>> \o <<y, z>> \in Seq(Tasks) /\ <<x, y, z>> \in Seq(Tasks)
        /\ Len(<<x, y, z>>) = Len(<<x>> \o <<y, z>>)
        /\ \A i \in 1 .. 3 : <<x, y, z>>[i] = (<<x>> \o <<y, z>>)[i]
    BY <1>3
  <2>2. Len(<<x>> \o <<y, z>>) = 3
    BY <1>3
  <2>. QED
    BY <2>1, <2>2, SeqEqual
<1>5. <<y, z>> = <<y>> \o <<z>>
  <2>1. /\ <<y>> \o <<z>> \in Seq(Tasks)
        /\ Len(<<y, z>>) = Len(<<y>> \o <<z>>)
        /\ \A i \in 1 .. 2 : <<y, z>>[i] = (<<y>> \o <<z>>)[i]
    BY <1>3
  <2>2. Len(<<y>> \o <<z>>) = 2
    BY <1>3
  <2>. QED
    BY <1>3, <2>1, <2>2, SeqEqual
<1>6. /\ (<<x>> \o <<y, z>>) \o q = <<x>> \o (<<y, z>> \o q)
      /\ (<<y>> \o <<z>>) \o q = <<y>> \o (<<z>> \o q)
  BY <1>3, ConcatAssociative
<1>. QED
  BY <1>1, <1>2, <1>4, <1>5, <1>6, Zenon DEF CountPlan, ArmPlan, StorePlan, Push

\* The heads and tails of the lists.
LEMMA PlanFacts ==
  ASSUME NEW a \in Alarms, NEW q \in Seq(Tasks)
  PROVE  /\ CountPlan(a, q) \in Seq(Tasks) /\ CountPlan(a, q) # <<>>
         /\ Head(CountPlan(a, q)) = Task("count", a) /\ Tail(CountPlan(a, q)) = ArmPlan(a, q)
         /\ ArmPlan(a, q) \in Seq(Tasks) /\ ArmPlan(a, q) # <<>>
         /\ Head(ArmPlan(a, q)) = Task("arm", a) /\ Tail(ArmPlan(a, q)) = StorePlan(a, q)
         /\ StorePlan(a, q) \in Seq(Tasks) /\ StorePlan(a, q) # <<>>
         /\ Head(StorePlan(a, q)) = Task("handler", a) /\ Tail(StorePlan(a, q)) = q
<1>1. Task("count", a) \in Tasks /\ Task("arm", a) \in Tasks /\ Task("handler", a) \in Tasks
  BY DEF Task, Tasks
<1>. HIDE DEF Tasks
<1>2. /\ StorePlan(a, q) \in Seq(Tasks) /\ StorePlan(a, q) # <<>>
      /\ Head(StorePlan(a, q)) = Task("handler", a) /\ Tail(StorePlan(a, q)) = q
  BY <1>1, PushFacts DEF StorePlan
<1>3. /\ ArmPlan(a, q) \in Seq(Tasks) /\ ArmPlan(a, q) # <<>>
      /\ Head(ArmPlan(a, q)) = Task("arm", a) /\ Tail(ArmPlan(a, q)) = StorePlan(a, q)
  BY <1>1, <1>2, PushFacts DEF ArmPlan
<1>. QED
  BY <1>1, <1>2, <1>3, PushFacts DEF CountPlan

\* Those of the short ones.
LEMMA ListFacts ==
  ASSUME NEW x, NEW y
  PROVE  /\ <<x>> # <<>> /\ Head(<<x>>) = x /\ Tail(<<x>>) = <<>>
         /\ <<x, y>> # <<>> /\ Head(<<x, y>>) = x /\ Tail(<<x, y>>) = <<y>>
         /\ <<x>> \o <<y>> = <<x, y>>
         /\ <<>> \o <<x>> = <<x>> /\ <<x>> \o <<>> = <<x>> /\ <<>> \o <<x, y>> = <<x, y>>
         /\ <<>> \o <<>> = <<>>
<1>1. <<x>> # <<>> /\ Head(<<x>>) = x /\ Tail(<<x>>) = <<>>
  OBVIOUS
<1>2. <<x, y>> # <<>> /\ Head(<<x, y>>) = x /\ Tail(<<x, y>>) = <<y>>
  OBVIOUS
<1>3. <<x>> \o <<y>> = <<x, y>>
  <2>1. PICK S : S = {x, y}
    OBVIOUS
  <2>2. <<x>> \in Seq(S) /\ <<y>> \in Seq(S) /\ <<x, y>> \in Seq(S)
    BY <2>1
  <2>3. /\ <<x>> \o <<y>> \in Seq(S) /\ Len(<<x>> \o <<y>>) = 2 /\ Len(<<x, y>>) = 2
        /\ \A i \in 1 .. 2 : (<<x>> \o <<y>>)[i] = <<x, y>>[i]
    BY <2>2
  <2>. QED
    BY <2>2, <2>3, SeqEqual
<1>4. <<>> \o <<x>> = <<x>> /\ <<x>> \o <<>> = <<x>> /\ <<>> \o <<>> = <<>>
  OBVIOUS
<1>5. <<>> \o <<x, y>> = <<x, y>>
  <2>1. <<x, y>> \in Seq({x, y})
    OBVIOUS
  <2>. QED
    BY <2>1, ConcatEmptySeq
<1>. QED
  BY <1>1, <1>2, <1>3, <1>4, <1>5

\* The tasks that end the lists.
LEMMA TaskTypes ==
  /\ StartTask \in Tasks /\ StopTask \in Tasks
  /\ Task("ended", "uLength") \in Tasks /\ Task("add", "uLength") \in Tasks
  /\ \A a \in Alarms : Task("sample", a) \in Tasks /\ Task("begin", a) \in Tasks
  /\ {"skip", "length", "period", "uLength", "uSkip"} = Alarms
BY DEF Task, Tasks, StartTask, StopTask, Alarms

\* Lists are sequences of tasks.
LEMMA PlanTypes ==
  /\ StartList \in Seq(Tasks) /\ StartList # <<>>
  /\ \A a \in Alarms : Plans(a) \subseteq Seq(Tasks)
  /\ StartPlans \subseteq Seq(Tasks)
<1>. USE TaskTypes
<1>. HIDE DEF Tasks, Alarms, Task, StartTask, StopTask
<1>1. \A x, y \in Tasks : <<x>> \in Seq(Tasks) /\ <<x, y>> \in Seq(Tasks)
  OBVIOUS
<1>2. ASSUME NEW a \in Alarms, NEW q \in Seq(Tasks) PROVE SetPlans(a, q) \subseteq Seq(Tasks)
  BY <1>2, PlanFacts DEF SetPlans
<1>3. <<StartTask>> \in Seq(Tasks) /\ <<StartTask>> # <<>> /\ <<>> \in Seq(Tasks)
  BY <1>1, ListFacts
<1>4. StartList \in Seq(Tasks) /\ StartList # <<>>
  BY <1>3, PlanFacts DEF StartList
<1>5. StartPlans \subseteq Seq(Tasks)
  <2>1. SetPlans("length", <<StartTask>>) \subseteq Seq(Tasks)
    BY <1>2, <1>3
  <2>. QED
    BY <1>3, <2>1, Zenon DEF StartPlans
<1>6. ASSUME NEW a \in Alarms PROVE SamplePlans(a) \subseteq Seq(Tasks)
  <2>1. /\ <<Task("sample", a)>> \in Seq(Tasks) /\ <<Task("begin", a)>> \in Seq(Tasks)
    BY <1>1, <1>6
  <2>2. /\ SetPlans("period", <<Task("sample", a)>>) \subseteq Seq(Tasks)
        /\ SetPlans("uLength", StartList) \subseteq Seq(Tasks)
    BY <1>2, <1>4, <2>1
  <2>. QED
    BY <1>5, <2>1, <2>2, Zenon DEF SamplePlans
<1>7. EndPlans \subseteq Seq(Tasks)
  BY <1>1, <1>3 DEF EndPlans
<1>8. {<<StopTask>>, <<>>} \subseteq Seq(Tasks)
  BY <1>1, <1>3
<1>9. ASSUME NEW a \in Alarms PROVE Plans(a) \subseteq Seq(Tasks)
  <2>1. a = "skip" \/ a = "length" \/ a = "period" \/ a = "uLength" \/ a = "uSkip"
    BY <1>9
  <2>. QED
    BY <1>5, <1>6, <1>7, <1>8, <1>9, <2>1 DEF Plans
<1>. QED
  BY <1>4, <1>5, <1>9

\* The list a handler begins with.
LEMMA FirstPlans ==
  /\ LocalHandler("start") = StartList /\ LocalHandler("stop") = <<StopTask>>
  /\ \A a \in {"period", "uSkip"} :
       Handler(a) = IF SamplesLeft THEN CountPlan("period", <<Task("sample", a)>>) ELSE <<>>
  /\ Handler("uLength") = <<Task("ended", "uLength"), StopTask>>
  /\ Handler("skip") = StartList /\ Handler("length") = <<StopTask>>
<1>. USE TaskTypes
<1>1. \A x \in Tasks : <<x>> \in Seq(Tasks)
  <2>. HIDE DEF Tasks
  <2>. QED
    OBVIOUS
<1>2. \A a \in Alarms, x \in Tasks : SetAlarm(a) \o <<x>> = CountPlan(a, <<x>>)
  BY <1>1, AppendToSet
<1>3. LocalHandler("start") = StartList
  <2>1. LocalHandler("start") =
          (IF knobs.length > 0 THEN SetAlarm("length") ELSE <<>>) \o <<StartTask>>
    BY DEF LocalHandler, StartTask, Task
  <2>2. CASE knobs.length > 0
    BY <1>2, <2>1, <2>2, Zenon DEF StartList
  <2>3. CASE ~ (knobs.length > 0)
    BY <2>1, <2>3, ListFacts, Zenon DEF StartList
  <2>. QED
    BY <2>2, <2>3
<1>4. LocalHandler("stop") = <<StopTask>>
  <2>1. LocalHandler("stop") = <<>> \o <<StopTask>>
    BY DEF LocalHandler, StopTask, Task
  <2>. QED
    BY <2>1, ListFacts
<1>5. ASSUME NEW a \in {"period", "uSkip"}
      PROVE  Handler(a) = IF SamplesLeft THEN CountPlan("period", <<Task("sample", a)>>) ELSE <<>>
  <2>1. Handler(a) = IF SamplesLeft THEN SetAlarm("period") \o <<Task("sample", a)>> ELSE <<>>
    <3>1. a # "skip" /\ a # "length"
      BY <1>5
    <3>. QED
      BY <3>1, <1>5 DEF Handler, Task
  <2>2. a \in Alarms
    BY <1>5
  <2>3. SetAlarm("period") \o <<Task("sample", a)>> = CountPlan("period", <<Task("sample", a)>>)
    BY <1>2, <2>2
  <2>. QED
    BY <2>1, <2>3, Zenon
<1>6. Handler("uLength") = <<Task("ended", "uLength"), StopTask>>
  <2>1. Handler("uLength") = <<Task("ended", "uLength")>> \o <<StopTask>>
    BY <1>4 DEF Handler, Task
  <2>. QED
    BY <2>1, ListFacts
<1>. QED
  BY <1>3, <1>4, <1>5, <1>6 DEF Handler
-----------------------------------------------------------------------------
(***************************************************************************)
(* The command line and the alarms it switches on.                         *)
(***************************************************************************)

\* The numbers of a command line.
LEMMA KnobFacts ==
  ASSUME knobs \in Knobs
  PROVE  /\ knobs.skip \in Nat /\ knobs.length \in Nat /\ knobs.period \in Nat
         /\ knobs.uLength \in Nat /\ knobs.uSkip \in Nat /\ knobs.count \in Nat
         /\ knobs.skipTid \in Tids /\ knobs.lengthTid \in Tids /\ knobs.periodTid \in Tids
         /\ knobs.uLengthTid \in Tids /\ knobs.uSkipTid \in Tids
         /\ knobs.low \in Threads /\ knobs.high \in Threads
         /\ knobs.period > 0 => knobs.skip = 0
         /\ knobs.high > 0 => knobs.low < knobs.high
<1>1. knobs \in KnobRecords
  BY ControllerAssumption
<1>. QED
  BY <1>1, ControllerAssumption DEF KnobRecords

\* Where the alarm of the length and those of the samples are.
LengthPlace == IF knobs.skip > 0 THEN 2 ELSE 1

PeriodPlace == IF knobs.length > 0 THEN 2 ELSE 1

NumInserted == (IF knobs.skip > 0 THEN 1 ELSE 0) + (IF knobs.length > 0 THEN 1 ELSE 0)
                 + (IF knobs.period > 0 THEN 3 ELSE 0)

\* The alarms that each kind of command line inserts.
LEMMA InsertedFacts ==
  ASSUME knobs \in Knobs
  PROVE  /\ Len(Inserted) = NumInserted /\ NumInserted \in Nat
         /\ knobs.skip > 0 => Inserted[1] = "skip"
         /\ knobs.length > 0 => Inserted[LengthPlace] = "length"
         /\ knobs.period > 0 => /\ Inserted[PeriodPlace] = "period"
                                /\ Inserted[PeriodPlace + 1] = "uLength"
                                /\ Inserted[PeriodPlace + 2] = "uSkip"
<1>. USE KnobFacts DEF LengthPlace, PeriodPlace, NumInserted
<1>. DEFINE S == Seq({"skip", "length", "period", "uLength", "uSkip"})
<1>1. PICK A, B, C \in S :
        /\ A = IF knobs.skip > 0 THEN <<"skip">> ELSE <<>>
        /\ B = IF knobs.length > 0 THEN <<"length">> ELSE <<>>
        /\ C = IF knobs.period > 0 THEN <<"period", "uLength", "uSkip">> ELSE <<>>
  <2>1. /\ <<"skip">> \in S /\ <<"length">> \in S /\ <<>> \in S
        /\ <<"period", "uLength", "uSkip">> \in S
    OBVIOUS
  <2>. HIDE DEF S
  <2>. QED
    BY <2>1
<1>2. Inserted = A \o B \o C
  BY <1>1 DEF Inserted
<1>3. /\ Len(A) = IF knobs.skip > 0 THEN 1 ELSE 0
      /\ Len(B) = IF knobs.length > 0 THEN 1 ELSE 0
      /\ Len(C) = IF knobs.period > 0 THEN 3 ELSE 0
      /\ knobs.skip > 0 => A[1] = "skip"
      /\ knobs.length > 0 => B[1] = "length"
      /\ knobs.period > 0 => C[1] = "period" /\ C[2] = "uLength" /\ C[3] = "uSkip"
  BY <1>1
<1>4. /\ A \o B \in S /\ Len(A \o B) = Len(A) + Len(B)
      /\ \A i \in 1 .. Len(A) + Len(B) : (A \o B)[i] = IF i <= Len(A) THEN A[i] ELSE B[i - Len(A)]
  BY ConcatProperties
<1>5. PICK D \in S : D = A \o B
  BY <1>4
<1>6. /\ Len(D \o C) = Len(D) + Len(C)
      /\ \A i \in 1 .. Len(D) + Len(C) : (D \o C)[i] = IF i <= Len(D) THEN D[i] ELSE C[i - Len(D)]
  BY ConcatProperties
<1>7. PICK E : E = D \o C
  OBVIOUS
<1>8. /\ Len(E) = Len(D) + Len(C)
      /\ \A i \in 1 .. Len(D) + Len(C) : E[i] = IF i <= Len(D) THEN D[i] ELSE C[i - Len(D)]
      /\ Len(D) = Len(A) + Len(B)
      /\ \A i \in 1 .. Len(A) + Len(B) : D[i] = IF i <= Len(A) THEN A[i] ELSE B[i - Len(A)]
  BY <1>4, <1>5, <1>6, <1>7
<1>9. Len(E) = NumInserted /\ NumInserted \in Nat
  BY <1>3, <1>8
<1>10. knobs.skip > 0 => E[1] = "skip"
  BY <1>3, <1>8
<1>11. knobs.length > 0 => E[LengthPlace] = "length"
  BY <1>3, <1>8
<1>12. ASSUME knobs.period > 0
       PROVE  /\ E[PeriodPlace] = "period" /\ E[PeriodPlace + 1] = "uLength"
              /\ E[PeriodPlace + 2] = "uSkip"
  <2>1. Len(D) = PeriodPlace - 1 /\ Len(C) = 3
    BY <1>3, <1>8, <1>12
  <2>2. /\ PeriodPlace - Len(D) = 1 /\ (PeriodPlace + 1) - Len(D) = 2
        /\ (PeriodPlace + 2) - Len(D) = 3
        /\ \A i \in {PeriodPlace, PeriodPlace + 1, PeriodPlace + 2} :
             i \in 1 .. Len(D) + Len(C) /\ ~ (i <= Len(D))
    BY <2>1
  <2>. QED
    BY <1>3, <1>8, <1>12, <2>2
<1>. QED
  BY <1>2, <1>5, <1>7, <1>9, <1>10, <1>11, <1>12

\* Which alarm is at a place.
LEMMA AlarmPlaces ==
  ASSUME knobs \in Knobs, NEW i \in 1 .. Len(Inserted)
  PROVE  /\ Inserted[i] \in Alarms
         /\ Inserted[i] = "skip" <=> i = 1 /\ knobs.skip > 0
         /\ Inserted[i] = "length" <=> i = LengthPlace /\ knobs.length > 0
         /\ Inserted[i] = "period" <=> i = PeriodPlace /\ knobs.period > 0
         /\ Inserted[i] = "uLength" <=> i = PeriodPlace + 1 /\ knobs.period > 0
         /\ Inserted[i] = "uSkip" <=> i = PeriodPlace + 2 /\ knobs.period > 0
<1>1. CASE knobs.skip > 0
  <2>1. knobs.period = 0 /\ (i = 1 \/ (i = 2 /\ knobs.length > 0))
    BY <1>1, KnobFacts, InsertedFacts DEF NumInserted
  <2>. QED
    BY <1>1, <2>1, InsertedFacts DEF LengthPlace, PeriodPlace, Alarms
<1>2. CASE ~ (knobs.skip > 0) /\ knobs.length > 0
  <2>1. i = 1 \/ (knobs.period > 0 /\ (i = 2 \/ i = 3 \/ i = 4))
    BY <1>2, KnobFacts, InsertedFacts DEF NumInserted
  <2>. QED
    BY <1>2, <2>1, InsertedFacts DEF LengthPlace, PeriodPlace, Alarms
<1>3. CASE ~ (knobs.skip > 0) /\ ~ (knobs.length > 0)
  <2>1. knobs.period > 0 /\ (i = 1 \/ i = 2 \/ i = 3)
    BY <1>3, KnobFacts, InsertedFacts DEF NumInserted
  <2>. QED
    BY <1>3, <2>1, InsertedFacts DEF LengthPlace, PeriodPlace, Alarms
<1>. QED
  BY <1>1, <1>2, <1>3

\* What SetAlarm is called with.
LEMMA AlarmArguments ==
  ASSUME knobs \in Knobs, NEW a \in Alarms
  PROVE  AlarmTid(a) \in Tids /\ AlarmCount(a) \in Nat
<1>1. a = "skip" \/ a = "length" \/ a = "period" \/ a = "uLength" \/ a = "uSkip"
  BY DEF Alarms
<1>. QED
  BY <1>1, KnobFacts DEF AlarmTid, AlarmCount

\* Thread ids, and the one that stands for all.
LEMMA TidFacts ==
  /\ NumThreads \in Nat /\ NumThreads > 0 /\ ALL_THREADS \notin Threads
  /\ \A t \in Threads : t \in Nat /\ t < NumThreads
  /\ \A t \in Nat : t < NumThreads => t \in Threads
  /\ \A tid \in Tids : tid # ALL_THREADS => tid \in Threads /\ For(tid) = {tid}
  /\ For(ALL_THREADS) = Threads /\ \A tid \in Tids : For(tid) \subseteq Threads
BY ThreadIdAssumption DEF Threads, Tids, ALL_THREADS, For
-----------------------------------------------------------------------------
(***************************************************************************)
(* The inductive invariant: types, and where a thread is among the calls.  *)
(***************************************************************************)
AlarmRecords == [tid : Tids, count : [Threads -> Int], armed : [Threads -> BOOLEAN],
                 handler : BOOLEAN, lock : BOOLEAN]

LogEntries == [ev : {"skipped", "start", "stop"}, first : Nat, last : Nat]

ArmedEntries == [ev : {"none", "armed"}, first : Nat, last : Nat]

\* The types of the variables.
CallTypes ==
  /\ ThreadTypeOK
  /\ knobs \in Knobs
  /\ alarm \in [Alarms -> AlarmRecords]
  /\ ev \in {"none", "start", "stop"}
  /\ _first \in BOOLEAN /\ _skip_active \in BOOLEAN
  /\ _sample_count \in Nat
  /\ pc \in [Threads -> PcLabels]
  /\ block \in [Threads -> 0 .. MaxBlock]
  /\ at \in [Threads -> Nat] /\ \A t \in Threads : at[t] \in 1 .. Len(Inserted) + 2
  /\ seen \in [Threads -> Int]
  /\ each \in [Threads -> Threads]
  /\ work \in [Threads -> Seq(Tasks)]
  /\ stage \in {"run", "crashed", "done"}
  /\ executed \in [Threads -> Nat]
  /\ since \in [Threads -> ArmedEntries]
  /\ log \in [Threads -> Seq(LogEntries)]

\* The first of the list is a loop over all threads.
Looping(t) ==
  /\ work[t] # <<>> /\ Head(work[t]).op \in {"count", "arm"}
  /\ AlarmTid(Head(work[t]).alarm) = ALL_THREADS

\* The thread is in the calls of an alarm before that of its handler.
InAlarm(t) == pc[t] \in {"store", "scan", "disarm", "then"}

\* Only the threads an alarm concerns read it, wait for it and handle it; and
\* a loop begins at thread 0, or with the range.
PlaceOf(t) ==
  /\ pc[t] = "out" => block[t] = 0 /\ at[t] = 1
  /\ pc[t] # "out" => block[t] > 0
  /\ InAlarm(t) => at[t] <= Len(Inserted) /\ t \in For(AlarmTid(Current(t)))
  /\ pc[t] = "work" =>
       IF at[t] <= Len(Inserted)
       THEN work[t] \in Plans(Current(t)) /\ t \in For(AlarmTid(Current(t)))
       ELSE at[t] = Len(Inserted) + 1 /\ InitActive /\ ~ _first /\ work[t] \in StartPlans
  /\ pc[t] # "work" => work[t] = <<>>
  /\ pc[t] = "body" => at[t] > Len(Inserted)
  /\ pc[t] # "store" => seen[t] \in Nat
  /\ pc[t] = "scan" => Ranged(t) /\ knobs.low <= each[t] /\ each[t] <= knobs.high
  /\ \/ each[t] = 0
     \/ pc[t] = "scan"
     \/ pc[t] = "disarm" /\ Ranged(t)
     \/ pc[t] = "work" /\ Looping(t)

ArmedFor ==
  \A a \in Alarms, t \in Threads : alarm[a].armed[t] => t \in For(AlarmTid(a))

CallInv == CallTypes /\ (\A t \in Threads : PlaceOf(t)) /\ ArmedFor
-----------------------------------------------------------------------------
(***************************************************************************)
(* The steps of the handlers.                                              *)
(***************************************************************************)
CountStep(t, a, q) ==
  /\ work[t] = CountPlan(a, q)
  /\ LoopStep(t, a, AlarmTid(a))
  /\ alarm' = [alarm EXCEPT ![a] = [@ EXCEPT !.tid = AlarmTid(a), !.lock = Held(t, a, AlarmTid(a)),
                                             !.count[Entry(t, AlarmTid(a))] = AlarmCount(a)]]
  /\ IF AtEnd(t, AlarmTid(a)) THEN work' = [work EXCEPT ![t] = ArmPlan(a, q)] ELSE work' = work
  /\ UNCHANGED <<threadVars, setVars, seen, historyVars>>

ArmStep(t, a, q) ==
  /\ work[t] = ArmPlan(a, q)
  /\ LoopStep(t, a, AlarmTid(a))
  /\ alarm' = [alarm EXCEPT ![a] = [@ EXCEPT !.lock = Held(t, a, AlarmTid(a)),
                                             !.armed[Entry(t, AlarmTid(a))] = TRUE]]
  /\ since' = [since EXCEPT ![Entry(t, AlarmTid(a))] =
                 IF a = "length" /\ @ = NotArmed THEN Event(Entry(t, AlarmTid(a)), "armed") ELSE @]
  /\ IF AtEnd(t, AlarmTid(a)) THEN work' = [work EXCEPT ![t] = StorePlan(a, q)] ELSE work' = work
  /\ UNCHANGED <<threadVars, setVars, seen, executed, log>>

StoreStep(t, a, q) ==
  /\ work[t] = StorePlan(a, q)
  /\ alarm' = [alarm EXCEPT ![a].handler = TRUE]
  /\ work' = [work EXCEPT ![t] = q]
  /\ UNCHANGED <<threadVars, setVars, seen, each, historyVars>>

SetStep(t, a, q) == CountStep(t, a, q) \/ ArmStep(t, a, q) \/ StoreStep(t, a, q)

NotifyStep(t, e) ==
  /\ work[t] = <<Task("notify", e)>> /\ work' = [work EXCEPT ![t] = <<>>]
  /\ ev' = e
  /\ activate(t) \/ deactivate(t)
  /\ log' = [log EXCEPT ![t] = Append(@, Event(t, e))]
  /\ UNCHANGED <<knobs, _first, _skip_active, _sample_count, seen, each, alarm, executed, since>>

SampleStep(t, a) ==
  /\ work[t] = <<Task("sample", a)>>
  /\ work' = [work EXCEPT ![t] = IF _skip_active THEN <<Task("begin", a)>>
                                 ELSE CountPlan("uLength", StartList)]
  /\ UNCHANGED <<threadVars, setVars, seen, each, alarm, historyVars>>

BeginStep(t, a) ==
  /\ work[t] = <<Task("begin", a)>> /\ work' = [work EXCEPT ![t] = <<>>]
  /\ _skip_active' = FALSE
  /\ log' = [log EXCEPT ![t] = Append(@, Event(t, "skipped"))]
  /\ UNCHANGED <<threadVars, knobs, ev, _first, _sample_count, seen, each, alarm, executed, since>>

EndedStep(t) ==
  /\ work[t] = <<Task("ended", "uLength"), StopTask>>
  /\ work' = [work EXCEPT ![t] = <<Task("add", "uLength"), StopTask>>]
  /\ seen' = [seen EXCEPT ![t] = _sample_count]
  /\ UNCHANGED <<threadVars, setVars, each, alarm, historyVars>>

AddStep(t) ==
  /\ work[t] = <<Task("add", "uLength"), StopTask>>
  /\ work' = [work EXCEPT ![t] = <<StopTask>>]
  /\ _sample_count' = seen[t] + 1
  /\ seen' = [seen EXCEPT ![t] = 0]
  /\ UNCHANGED <<threadVars, knobs, ev, _first, _skip_active, each, alarm, historyVars>>

\* The list a step of SetAlarm starts from.
LEMMA DoSets ==
  ASSUME NEW t \in Threads, NEW a \in Alarms, NEW q \in Seq(Tasks),
         work \in [Threads -> Seq(Tasks)], Do(t), work[t] \in SetPlans(a, q)
  PROVE  SetStep(t, a, q)
<1>1. PICK x : x = Head(work[t])
  OBVIOUS
<1>2. PICK r : r = Tail(work[t])
  OBVIOUS
<1>3. r \in Seq(Tasks) => <<>> \o r = r
  BY ConcatEmptySeq
<1>4. CASE work[t] = CountPlan(a, q)
  <2>1. x = Task("count", a) /\ r = ArmPlan(a, q) /\ r \in Seq(Tasks)
    BY <1>1, <1>2, <1>4, PlanFacts
  <2>2. x.op = "count" /\ x.alarm = a
    BY <2>1, TaskFields
  <2>. QED
    BY <1>1, <1>2, <1>3, <1>4, <2>1, <2>2 DEF Do, SetStep, CountStep
<1>5. CASE work[t] = ArmPlan(a, q)
  <2>1. x = Task("arm", a) /\ r = StorePlan(a, q) /\ r \in Seq(Tasks)
    BY <1>1, <1>2, <1>5, PlanFacts
  <2>2. x.op = "arm" /\ x.alarm = a
    BY <2>1, TaskFields
  <2>. QED
    BY <1>1, <1>2, <1>3, <1>5, <2>1, <2>2 DEF Do, SetStep, ArmStep
<1>6. CASE work[t] = StorePlan(a, q)
  <2>1. x = Task("handler", a) /\ r = q
    BY <1>1, <1>2, <1>6, PlanFacts
  <2>2. x.op = "handler" /\ x.alarm = a
    BY <2>1, TaskFields
  <2>. QED
    BY <1>1, <1>2, <1>3, <1>6, <2>1, <2>2 DEF Do, SetStep, StoreStep
<1>. QED
  BY <1>4, <1>5, <1>6 DEF SetPlans

\* An event that is due is sent to the tool.
LEMMA DoNotify ==
  ASSUME NEW t \in Threads, NEW e \in {"start", "stop"},
         work \in [Threads -> Seq(Tasks)], Do(t), work[t] = <<Task("notify", e)>>
  PROVE  NotifyStep(t, e)
<1>1. PICK x : x = Head(work[t])
  OBVIOUS
<1>2. x.op = "notify" /\ x.alarm = e /\ <<>> \o Tail(work[t]) = <<>>
  BY <1>1, TaskFields, ListFacts
<1>. QED
  BY <1>1, <1>2 DEF Do, NotifyStep

\* The start of a sample sets the alarm of its end and sends the start, but
\* for the one that ends the skip.
LEMMA DoSample ==
  ASSUME NEW t \in Threads, NEW a \in Alarms,
         work \in [Threads -> Seq(Tasks)], Do(t), work[t] = <<Task("sample", a)>>
  PROVE  SampleStep(t, a)
<1>1. PICK x : x = Head(work[t])
  OBVIOUS
<1>2. PICK r : r = Tail(work[t])
  OBVIOUS
<1>3. x.op = "sample" /\ x.alarm = a /\ r = <<>>
  BY <1>1, <1>2, TaskFields, ListFacts
<1>4. PICK m : m = SetAlarm("uLength") \o LocalHandler("start")
  OBVIOUS
<1>5. m = CountPlan("uLength", StartList) /\ m \o <<>> = m
  <2>1. "uLength" \in Alarms
    BY TaskTypes
  <2>2. m = CountPlan("uLength", StartList)
    BY <1>4, <2>1, FirstPlans, PlanTypes, AppendToSet
  <2>3. m \in Seq(Tasks)
    BY <2>1, <2>2, PlanTypes, PlanFacts
  <2>. QED
    BY <2>2, <2>3, ConcatEmptySeq
<1>6. PICK b : b = <<Task("begin", a)>>
  OBVIOUS
<1>7. b \o <<>> = b /\ b = <<[op |-> "begin", alarm |-> a]>>
  BY <1>6, ListFacts DEF Task
<1>8. /\ work' = [work EXCEPT ![t] = (IF _skip_active THEN <<[op |-> "begin", alarm |-> a]>>
                 ELSE SetAlarm("uLength") \o LocalHandler("start")) \o Tail(@)]
      /\ UNCHANGED <<threadVars, setVars, seen, each, alarm, historyVars>>
  BY <1>1, <1>3 DEF Do
<1>9. work' = [work EXCEPT ![t] = IF _skip_active THEN b ELSE m]
  BY <1>2, <1>3, <1>4, <1>5, <1>7, <1>8
<1>. QED
  BY <1>5, <1>6, <1>8, <1>9 DEF SampleStep

\* The end of the skip is told.
LEMMA DoBegin ==
  ASSUME NEW t \in Threads, NEW a \in Alarms,
         work \in [Threads -> Seq(Tasks)], Do(t), work[t] = <<Task("begin", a)>>
  PROVE  BeginStep(t, a)
<1>1. PICK x : x = Head(work[t])
  OBVIOUS
<1>2. x.op = "begin" /\ x.alarm = a /\ <<>> \o Tail(work[t]) = <<>>
  BY <1>1, TaskFields, ListFacts
<1>. QED
  BY <1>1, <1>2 DEF Do, BeginStep

\* The end of a sample reads how many there have been ...
LEMMA DoEnded ==
  ASSUME NEW t \in Threads, work \in [Threads -> Seq(Tasks)], Do(t),
         work[t] = <<Task("ended", "uLength"), StopTask>>
  PROVE  EndedStep(t)
<1>1. PICK x : x = Head(work[t])
  OBVIOUS
<1>2. x.op = "ended" /\ x.alarm = "uLength"
  BY <1>1, TaskFields, ListFacts
<1>3. PICK r : r = Tail(work[t])
  OBVIOUS
<1>4. <<[op |-> "add", alarm |-> "uLength"]>> \o r = <<Task("add", "uLength"), StopTask>>
  BY <1>3, ListFacts DEF Task
<1>5. /\ work' = [work EXCEPT ![t] = <<[op |-> "add", alarm |-> "uLength"]>> \o Tail(@)]
      /\ seen' = [seen EXCEPT ![t] = _sample_count]
      /\ UNCHANGED <<threadVars, setVars, each, alarm, historyVars>>
  BY <1>1, <1>2 DEF Do
<1>6. work' = [work EXCEPT ![t] = <<Task("add", "uLength"), StopTask>>]
  BY <1>3, <1>4, <1>5
<1>. QED
  BY <1>5, <1>6 DEF EndedStep

\* ... and adds one to it.
LEMMA DoAdd ==
  ASSUME NEW t \in Threads, work \in [Threads -> Seq(Tasks)], Do(t),
         work[t] = <<Task("add", "uLength"), StopTask>>
  PROVE  AddStep(t)
<1>1. PICK x : x = Head(work[t])
  OBVIOUS
<1>2. x.op = "add"
  BY <1>1, TaskFields, ListFacts
<1>3. <<>> \o Tail(work[t]) = <<StopTask>>
  BY ListFacts
<1>. QED
  BY <1>1, <1>2, <1>3 DEF Do, AddStep

\* What handlers with a start do.
StartKinds(t) ==
  \/ knobs.length > 0 /\ SetStep(t, "length", <<StartTask>>)
  \/ NotifyStep(t, "start")

SampleKinds(t, a) ==
  \/ SetStep(t, "period", <<Task("sample", a)>>)
  \/ SampleStep(t, a) \/ BeginStep(t, a)
  \/ SetStep(t, "uLength", StartList)

\* What the handler of each alarm does next.
LEMMA StepKinds ==
  ASSUME CallInv, NEW t \in Threads, HandlerStep(t)
  PROVE  /\ pc[t] = "work" /\ stage = "run"
         /\ UNCHANGED <<pc, block, at, stage>>
         /\ \/ at[t] > Len(Inserted) /\ StartKinds(t)
            \/ /\ at[t] <= Len(Inserted)
               /\ \/ Current(t) = "skip" /\ StartKinds(t)
                  \/ Current(t) = "length" /\ NotifyStep(t, "stop")
                  \/ Current(t) \in {"period", "uSkip"}
                       /\ (SampleKinds(t, Current(t)) \/ StartKinds(t))
                  \/ Current(t) = "uLength" /\ (EndedStep(t) \/ AddStep(t) \/ NotifyStep(t, "stop"))
<1>1. /\ pc[t] = "work" /\ stage = "run" /\ UNCHANGED <<pc, block, at, stage>>
      /\ work[t] # <<>> /\ Do(t)
  BY DEF HandlerStep, Goto, CallInv, CallTypes
<1>2. /\ work \in [Threads -> Seq(Tasks)] /\ PlaceOf(t) /\ knobs \in Knobs
      /\ at[t] \in Nat /\ at[t] >= 1 /\ Len(Inserted) \in Nat
  BY InsertedFacts DEF CallInv, CallTypes
<1>3. \A x \in Tasks : <<x>> \in Seq(Tasks)
  <2>. HIDE DEF Tasks
  <2>. QED
    OBVIOUS
<1>4. ASSUME work[t] \in StartPlans PROVE StartKinds(t)
  <2>1. CASE knobs.length > 0 /\ work[t] \in SetPlans("length", <<StartTask>>)
    BY <1>1, <1>2, <1>3, <2>1, TaskTypes, DoSets DEF StartKinds
  <2>2. CASE work[t] = <<StartTask>>
    BY <1>1, <1>2, <2>2, DoNotify DEF StartKinds, StartTask
  <2>. QED
    BY <1>1, <1>4, <2>1, <2>2 DEF StartPlans
<1>5. ASSUME work[t] = <<StopTask>> PROVE NotifyStep(t, "stop")
  BY <1>1, <1>2, <1>5, DoNotify DEF StopTask
<1>6. CASE at[t] > Len(Inserted)
  BY <1>1, <1>2, <1>4, <1>6 DEF PlaceOf
<1>7. CASE at[t] <= Len(Inserted)
  <2>1. Current(t) \in Alarms /\ work[t] \in Plans(Current(t))
    BY <1>1, <1>2, <1>7, AlarmPlaces DEF PlaceOf, Current
  <2>2. CASE Current(t) = "skip"
    <3>1. work[t] \in StartPlans
      BY <2>1, <2>2 DEF Plans
    <3>. QED
      BY <1>1, <1>4, <1>7, <2>2, <3>1
  <2>3. CASE Current(t) = "length"
    <3>1. work[t] \in {<<StopTask>>, <<>>}
      BY <2>1, <2>3 DEF Plans
    <3>. QED
      BY <1>1, <1>5, <1>7, <2>3, <3>1
  <2>4. CASE Current(t) = "uLength"
    <3>1. work[t] \in EndPlans
      BY <2>1, <2>4 DEF Plans
    <3>2. EndedStep(t) \/ AddStep(t) \/ NotifyStep(t, "stop")
      BY <1>1, <1>2, <1>5, <3>1, DoEnded, DoAdd DEF EndPlans
    <3>. QED
      BY <1>1, <1>7, <2>4, <3>2
  <2>5. CASE Current(t) \in {"period", "uSkip"}
    <3>1. PICK a \in Alarms : a = Current(t)
      BY <2>1
    <3>2. work[t] \in SamplePlans(a)
      <4>1. a = "period" \/ a = "uSkip"
        BY <2>5, <3>1
      <4>. QED
        BY <2>1, <3>1, <4>1 DEF Plans
    <3>3. SampleKinds(t, a) \/ StartKinds(t)
      <4>1. <<Task("sample", a)>> \in Seq(Tasks) /\ StartList \in Seq(Tasks)
            /\ "period" \in Alarms /\ "uLength" \in Alarms
        BY <1>3, TaskTypes, PlanTypes
      <4>2. CASE work[t] \in SetPlans("period", <<Task("sample", a)>>)
        BY <1>1, <1>2, <4>1, <4>2, DoSets DEF SampleKinds
      <4>3. CASE work[t] = <<Task("sample", a)>>
        BY <1>1, <1>2, <4>3, DoSample DEF SampleKinds
      <4>4. CASE work[t] = <<Task("begin", a)>>
        BY <1>1, <1>2, <4>4, DoBegin DEF SampleKinds
      <4>5. CASE work[t] \in SetPlans("uLength", StartList)
        BY <1>1, <1>2, <4>1, <4>5, DoSets DEF SampleKinds
      <4>6. CASE work[t] \in StartPlans
        BY <1>4, <4>6
      <4>. QED
        BY <3>2, <4>2, <4>3, <4>4, <4>5, <4>6, Zenon DEF SamplePlans
    <3>. QED
      BY <1>1, <1>7, <2>5, <3>1, <3>3
  <2>. QED
    BY <2>1, <2>2, <2>3, <2>4, <2>5 DEF Alarms
<1>. QED
  BY <1>2, <1>6, <1>7
-----------------------------------------------------------------------------
(***************************************************************************)
(* The operations on an alarm.                                             *)
(***************************************************************************)

\* The turn of a loop that thread t has come to.
TurnOf(t, tid) ==
  /\ Entry(t, tid) \in Threads /\ Entry(t, tid) \in For(tid)
  /\ \/ /\ AtEnd(t, tid) /\ each'[t] = 0
        /\ tid = ALL_THREADS => Entry(t, tid) = NumThreads - 1 /\ each[t] = NumThreads - 1
        /\ tid # ALL_THREADS => For(tid) = {Entry(t, tid)}
     \/ /\ ~ AtEnd(t, tid) /\ each'[t] = each[t] + 1 /\ each'[t] \in Threads
        /\ tid = ALL_THREADS /\ Entry(t, tid) = each[t]

\* A turn of a loop writes one entry.
LEMMA TurnFacts ==
  ASSUME CallTypes, NEW t \in Threads, NEW tid \in Tids, NEW a, LoopStep(t, a, tid)
  PROVE  /\ TurnOf(t, tid)
         /\ each' \in [Threads -> Threads] /\ \A u \in Threads \ {t} : each'[u] = each[u]
         /\ alarm[a].lock \in BOOLEAN => Held(t, a, tid) \in BOOLEAN
<1>1. each \in [Threads -> Threads] /\ each[t] \in Threads
  BY DEF CallTypes
<1>2. Held(t, a, tid) = IF tid = ALL_THREADS THEN ~ AtEnd(t, tid) ELSE alarm[a].lock
  BY DEF Held
<1>3. CASE tid # ALL_THREADS
  <2>1. /\ AtEnd(t, tid) /\ Entry(t, tid) = tid /\ For(tid) = {tid} /\ tid \in Threads
    BY <1>3, TidFacts DEF AtEnd, Entry
  <2>2. each' = [each EXCEPT ![t] = 0] /\ 0 \in Threads
    BY <2>1, TidFacts DEF LoopStep
  <2>. QED
    BY <1>1, <1>2, <1>3, <2>1, <2>2 DEF TurnOf
<1>4. CASE tid = ALL_THREADS
  <2>1. Entry(t, tid) = each[t] /\ (AtEnd(t, tid) <=> each[t] = NumThreads - 1)
        /\ For(tid) = Threads
    BY <1>4, TidFacts DEF AtEnd, Entry
  <2>2. CASE each[t] = NumThreads - 1
    <3>1. each' = [each EXCEPT ![t] = 0] /\ 0 \in Threads
      BY <2>1, <2>2, TidFacts DEF LoopStep
    <3>. QED
      BY <1>1, <1>2, <1>4, <2>1, <2>2, <3>1 DEF TurnOf
  <2>3. CASE each[t] # NumThreads - 1
    <3>1. each' = [each EXCEPT ![t] = each[t] + 1]
      BY <2>1, <2>3 DEF LoopStep
    <3>2. each[t] + 1 \in Threads
      BY <1>1, <2>3, TidFacts
    <3>. QED
      BY <1>1, <1>2, <1>4, <2>1, <2>3, <3>1, <3>2 DEF TurnOf
  <2>. QED
    BY <2>2, <2>3
<1>. QED
  BY <1>3, <1>4

\* No other alarm changes, and this one stays one.
OneAlarm(a) ==
  /\ alarm' \in [Alarms -> AlarmRecords]
  /\ \A b \in Alarms \ {a} : alarm'[b] = alarm[b]

NothingElse(t) ==
  /\ \A u \in Threads \ {t} : each'[u] = each[u] /\ work'[u] = work[u]
  /\ work' \in [Threads -> Seq(Tasks)] /\ each' \in [Threads -> Threads]
  /\ UNCHANGED <<live, gThreadNum, knobs, _first, _skip_active, _sample_count, seen, executed, log>>

\* The three steps of setting an alarm.
Counts(t, a, q) ==
  /\ work[t] = CountPlan(a, q) /\ TurnOf(t, AlarmTid(a))
  /\ work'[t] = IF AtEnd(t, AlarmTid(a)) THEN ArmPlan(a, q) ELSE CountPlan(a, q)
  /\ alarm'[a].count[Entry(t, AlarmTid(a))] = AlarmCount(a)
  /\ \A u \in Threads \ {Entry(t, AlarmTid(a))} : alarm'[a].count[u] = alarm[a].count[u]
  /\ alarm'[a].tid = AlarmTid(a) /\ alarm'[a].armed = alarm[a].armed
  /\ alarm'[a].handler = alarm[a].handler
  /\ since' = since

Arms(t, a, q) ==
  /\ work[t] = ArmPlan(a, q) /\ TurnOf(t, AlarmTid(a))
  /\ work'[t] = IF AtEnd(t, AlarmTid(a)) THEN StorePlan(a, q) ELSE ArmPlan(a, q)
  /\ alarm'[a].armed[Entry(t, AlarmTid(a))] = TRUE
  /\ \A u \in Threads \ {Entry(t, AlarmTid(a))} :
       since'[u] = since[u] /\ alarm'[a].armed[u] = alarm[a].armed[u]
  /\ alarm'[a].tid = alarm[a].tid /\ alarm'[a].count = alarm[a].count
  /\ alarm'[a].handler = alarm[a].handler
  /\ since' \in [Threads -> ArmedEntries]
  /\ since'[Entry(t, AlarmTid(a))] =
       IF a = "length" /\ since[Entry(t, AlarmTid(a))] = NotArmed
       THEN Event(Entry(t, AlarmTid(a)), "armed") ELSE since[Entry(t, AlarmTid(a))]

Installs(t, a, q) ==
  /\ work[t] = StorePlan(a, q) /\ work'[t] = q /\ each'[t] = each[t]
  /\ alarm'[a].tid = alarm[a].tid /\ alarm'[a].count = alarm[a].count
  /\ alarm'[a].armed = alarm[a].armed /\ alarm'[a].handler = TRUE
  /\ since' = since

\* A step of SetAlarm is one of them, and concerns no other alarm.
LEMMA SetCases ==
  ASSUME CallTypes, NEW t \in Threads, NEW a \in Alarms, NEW q \in Seq(Tasks), SetStep(t, a, q)
  PROVE  /\ Counts(t, a, q) \/ Arms(t, a, q) \/ Installs(t, a, q)
         /\ OneAlarm(a) /\ NothingElse(t)
<1>1. /\ alarm \in [Alarms -> AlarmRecords] /\ alarm[a] \in AlarmRecords
      /\ alarm[a].lock \in BOOLEAN /\ AlarmTid(a) \in Tids /\ AlarmCount(a) \in Int
      /\ work \in [Threads -> Seq(Tasks)] /\ each \in [Threads -> Threads]
      /\ since \in [Threads -> ArmedEntries]
  <2>1. alarm \in [Alarms -> AlarmRecords] /\ knobs \in Knobs
    BY DEF CallTypes
  <2>2. alarm[a].lock \in BOOLEAN
    BY <2>1 DEF AlarmRecords
  <2>. QED
    BY <2>1, <2>2, AlarmArguments DEF CallTypes
<1>2. CountPlan(a, q) \in Seq(Tasks) /\ ArmPlan(a, q) \in Seq(Tasks) /\ StorePlan(a, q) \in Seq(Tasks)
  BY PlanFacts
<1>. HIDE DEF Tasks
<1>3. PICK tid \in Tids : tid = AlarmTid(a)
  BY <1>1
<1>4. PICK r \in AlarmRecords : r = alarm[a]
  BY <1>1
<1>5. CASE CountStep(t, a, q)
  <2>1. /\ work[t] = CountPlan(a, q) /\ LoopStep(t, a, tid)
        /\ alarm' = [alarm EXCEPT ![a] = [@ EXCEPT !.tid = tid, !.lock = Held(t, a, tid),
                                                   !.count[Entry(t, tid)] = AlarmCount(a)]]
        /\ IF AtEnd(t, tid) THEN work' = [work EXCEPT ![t] = ArmPlan(a, q)] ELSE work' = work
        /\ UNCHANGED <<threadVars, setVars, seen, historyVars>>
    BY <1>3, <1>5 DEF CountStep
  <2>2. /\ TurnOf(t, tid) /\ each' \in [Threads -> Threads]
        /\ \A u \in Threads \ {t} : each'[u] = each[u]
        /\ Held(t, a, tid) \in BOOLEAN
    BY <1>1, <2>1, TurnFacts
  <2>3. PICK e \in Threads : e = Entry(t, tid)
    BY <2>2 DEF TurnOf
  <2>4. PICK l \in BOOLEAN : l = Held(t, a, tid)
    BY <2>2
  <2>5. PICK y : y = [r EXCEPT !.tid = tid, !.lock = l, !.count[e] = AlarmCount(a)]
    OBVIOUS
  <2>6. /\ y \in AlarmRecords /\ y.tid = tid /\ y.count = [r.count EXCEPT ![e] = AlarmCount(a)]
        /\ y.armed = r.armed /\ y.handler = r.handler
    BY <1>1, <2>5 DEF AlarmRecords
  <2>7. alarm' = [alarm EXCEPT ![a] = y]
    BY <1>4, <2>1, <2>3, <2>4, <2>5
  <2>8. OneAlarm(a) /\ alarm'[a] = y
    BY <1>1, <2>6, <2>7 DEF OneAlarm
  <2>9. /\ work'[t] = IF AtEnd(t, tid) THEN ArmPlan(a, q) ELSE CountPlan(a, q)
        /\ work' \in [Threads -> Seq(Tasks)] /\ \A u \in Threads \ {t} : work'[u] = work[u]
    BY <1>1, <1>2, <2>1
  <2>10. r.count \in [Threads -> Int]
    BY DEF AlarmRecords
  <2>11. NothingElse(t)
    BY <2>1, <2>2, <2>9 DEF NothingElse, threadVars, setVars, historyVars
  <2>12. Counts(t, a, q)
    BY <1>3, <1>4, <2>1, <2>2, <2>3, <2>6, <2>8, <2>9, <2>10 DEF Counts, historyVars
  <2>. QED
    BY <2>8, <2>11, <2>12
<1>6. CASE ArmStep(t, a, q)
  <2>1. /\ work[t] = ArmPlan(a, q) /\ LoopStep(t, a, tid)
        /\ alarm' = [alarm EXCEPT ![a] = [@ EXCEPT !.lock = Held(t, a, tid),
                                                   !.armed[Entry(t, tid)] = TRUE]]
        /\ since' = [since EXCEPT ![Entry(t, tid)] =
                 IF a = "length" /\ @ = NotArmed THEN Event(Entry(t, tid), "armed") ELSE @]
        /\ IF AtEnd(t, tid) THEN work' = [work EXCEPT ![t] = StorePlan(a, q)] ELSE work' = work
        /\ UNCHANGED <<threadVars, setVars, seen, executed, log>>
    BY <1>3, <1>6 DEF ArmStep
  <2>2. /\ TurnOf(t, tid) /\ each' \in [Threads -> Threads]
        /\ \A u \in Threads \ {t} : each'[u] = each[u]
        /\ Held(t, a, tid) \in BOOLEAN
    BY <1>1, <2>1, TurnFacts
  <2>3. PICK e \in Threads : e = Entry(t, tid)
    BY <2>2 DEF TurnOf
  <2>4. PICK l \in BOOLEAN : l = Held(t, a, tid)
    BY <2>2
  <2>5. PICK y : y = [r EXCEPT !.lock = l, !.armed[e] = TRUE]
    OBVIOUS
  <2>6. /\ y \in AlarmRecords /\ y.tid = r.tid /\ y.count = r.count
        /\ y.armed = [r.armed EXCEPT ![e] = TRUE] /\ y.handler = r.handler
    BY <1>1, <2>5 DEF AlarmRecords
  <2>7. alarm' = [alarm EXCEPT ![a] = y]
    BY <1>4, <2>1, <2>3, <2>4, <2>5
  <2>8. OneAlarm(a) /\ alarm'[a] = y
    BY <1>1, <2>6, <2>7 DEF OneAlarm
  <2>9. /\ work'[t] = IF AtEnd(t, tid) THEN StorePlan(a, q) ELSE ArmPlan(a, q)
        /\ work' \in [Threads -> Seq(Tasks)] /\ \A u \in Threads \ {t} : work'[u] = work[u]
    BY <1>1, <1>2, <2>1
  <2>10. r.armed \in [Threads -> BOOLEAN]
    BY DEF AlarmRecords
  <2>11. NothingElse(t)
    BY <2>1, <2>2, <2>9 DEF NothingElse, threadVars, setVars, historyVars
  <2>12. Event(e, "armed") \in ArmedEntries
    <3>1. executed[e] \in Nat /\ block[e] \in Nat
      BY ControllerAssumption DEF CallTypes
    <3>. QED
      BY <3>1 DEF Event, ArmedEntries
  <2>13. /\ since' \in [Threads -> ArmedEntries]
         /\ since'[e] = IF a = "length" /\ since[e] = NotArmed THEN Event(e, "armed") ELSE since[e]
         /\ \A u \in Threads \ {e} : since'[u] = since[u]
    BY <1>1, <2>1, <2>3, <2>12
  <2>14. y.armed[e] = TRUE /\ \A u \in Threads \ {e} : y.armed[u] = r.armed[u]
    BY <2>6, <2>10
  <2>15. /\ alarm'[a].armed[e] = TRUE
         /\ \A u \in Threads \ {e} : since'[u] = since[u] /\ alarm'[a].armed[u] = alarm[a].armed[u]
    BY <1>4, <2>8, <2>13, <2>14, Zenon
  <2>16. /\ alarm'[a].tid = alarm[a].tid /\ alarm'[a].count = alarm[a].count
         /\ alarm'[a].handler = alarm[a].handler
    BY <1>4, <2>6, <2>8, Zenon
  <2>17. Arms(t, a, q)
    BY <1>3, <2>1, <2>2, <2>3, <2>9, <2>13, <2>15, <2>16, Zenon DEF Arms
  <2>. QED
    BY <2>8, <2>11, <2>17
<1>7. CASE StoreStep(t, a, q)
  <2>1. PICK y : y = [r EXCEPT !.handler = TRUE]
    OBVIOUS
  <2>2. /\ y \in AlarmRecords /\ y.tid = r.tid /\ y.count = r.count
        /\ y.armed = r.armed /\ y.handler = TRUE
    BY <2>1 DEF AlarmRecords
  <2>3. alarm' = [alarm EXCEPT ![a] = y]
    BY <1>4, <1>7, <2>1 DEF StoreStep
  <2>4. OneAlarm(a) /\ alarm'[a] = y
    BY <1>1, <2>2, <2>3 DEF OneAlarm
  <2>5. /\ work'[t] = q /\ each' = each /\ since' = since
        /\ work' \in [Threads -> Seq(Tasks)] /\ \A u \in Threads \ {t} : work'[u] = work[u]
    BY <1>1, <1>7 DEF StoreStep, historyVars
  <2>6. NothingElse(t)
    BY <1>1, <1>7, <2>5 DEF StoreStep, NothingElse, threadVars, setVars, historyVars
  <2>7. Installs(t, a, q)
    BY <1>4, <1>7, <2>2, <2>4, <2>5, Zenon DEF StoreStep, Installs
  <2>. QED
    BY <2>4, <2>6, <2>7
<1>. QED
  BY <1>5, <1>6, <1>7 DEF SetStep
-----------------------------------------------------------------------------
(***************************************************************************)
(* The steps, as what they do to the state of one thread.                  *)
(***************************************************************************)
SameAlarms == alarm' = alarm /\ since' = since

SameSamples == _first' = _first /\ _skip_active' = _skip_active /\ _sample_count' = _sample_count

SameBlock(t) == executed'[t] = executed[t] /\ block'[t] = block[t] /\ log' = log

SameThreads == live' = live /\ gThreadNum' = gThreadNum

SameLoop(t) == each'[t] = each[t]

SameWork(t) == work'[t] = work[t]

From(t, from, to) == pc[t] = from /\ pc'[t] = to

\* What a thread does to its own calls.
Own(t) ==
  /\ pc' = [pc EXCEPT ![t] = pc'[t]] /\ block' = [block EXCEPT ![t] = block'[t]]
  /\ at' = [at EXCEPT ![t] = at'[t]] /\ seen' = [seen EXCEPT ![t] = seen'[t]]
  /\ each' = [each EXCEPT ![t] = each'[t]] /\ work' = [work EXCEPT ![t] = work'[t]]
  /\ executed' = [executed EXCEPT ![t] = executed'[t]]
  /\ log' = [log EXCEPT ![t] = log'[t]]
  /\ knobs' = knobs

Enters(t) ==
  /\ From(t, "out", "if") /\ t \in live
  /\ at[t] = 1 /\ at'[t] = 1 /\ block[t] = 0 /\ block'[t] \in 1 .. MaxBlock
  /\ executed'[t] = executed[t] /\ log' = log /\ seen'[t] = seen[t]
  /\ SameAlarms /\ SameSamples /\ SameThreads /\ SameLoop(t) /\ SameWork(t)

Skips(t) ==
  /\ From(t, "if", "if") /\ at[t] <= Len(Inserted) /\ ~ Concerns(alarm[Current(t)], t)
  /\ at'[t] = at[t] + 1 /\ seen'[t] = seen[t]
  /\ SameBlock(t) /\ SameAlarms /\ SameSamples /\ SameThreads /\ SameLoop(t) /\ SameWork(t)

Reads(t) ==
  /\ From(t, "if", "store") /\ at[t] <= Len(Inserted) /\ Concerns(alarm[Current(t)], t)
  /\ at'[t] = at[t] /\ seen'[t] = alarm[Current(t)].count[t]
  /\ SameBlock(t) /\ SameAlarms /\ SameSamples /\ SameThreads /\ SameLoop(t) /\ SameWork(t)

Stores(t) ==
  /\ pc[t] = "store" /\ at[t] <= Len(Inserted)
  /\ alarm'[Current(t)].count[t] = seen[t] - block[t]
  /\ \A u \in Threads \ {t} : alarm'[Current(t)].count[u] = alarm[Current(t)].count[u]
  /\ alarm'[Current(t)].tid = alarm[Current(t)].tid
  /\ alarm'[Current(t)].armed = alarm[Current(t)].armed
  /\ alarm'[Current(t)].handler = alarm[Current(t)].handler
  /\ since' = since /\ seen'[t] = 0
  /\ \/ Ranged(t) /\ pc'[t] = "scan" /\ at'[t] = at[t] /\ each'[t] = knobs.low
     \/ ~ Ranged(t) /\ seen[t] - block[t] <= 0 /\ pc'[t] = "disarm" /\ at'[t] = at[t] /\ each'[t] = 0
     \/ ~ Ranged(t) /\ seen[t] - block[t] > 0 /\ pc'[t] = "if" /\ at'[t] = at[t] + 1 /\ each'[t] = 0
  /\ SameBlock(t) /\ SameSamples /\ SameThreads /\ SameWork(t)

Scans(t) ==
  /\ pc[t] = "scan" /\ at[t] <= Len(Inserted) /\ seen'[t] = seen[t]
  /\ \/ /\ alarm[Current(t)].count[each[t]] > 0
        /\ pc'[t] = "if" /\ at'[t] = at[t] + 1 /\ each'[t] = 0
     \/ /\ alarm[Current(t)].count[each[t]] <= 0 /\ each[t] = knobs.high
        /\ pc'[t] = "disarm" /\ at'[t] = at[t] /\ each'[t] = 0
     \/ /\ alarm[Current(t)].count[each[t]] <= 0 /\ each[t] # knobs.high
        /\ pc'[t] = "scan" /\ at'[t] = at[t] /\ each'[t] = each[t] + 1
  /\ SameBlock(t) /\ SameAlarms /\ SameSamples /\ SameThreads /\ SameWork(t)

DisarmTid(t) == IF Ranged(t) THEN ALL_THREADS ELSE t

Disarms(t) ==
  /\ pc[t] = "disarm" /\ at[t] <= Len(Inserted) /\ at'[t] = at[t] /\ seen'[t] = seen[t]
  /\ TurnOf(t, DisarmTid(t))
  /\ pc'[t] = IF AtEnd(t, DisarmTid(t)) THEN "then" ELSE "disarm"
  /\ alarm'[Current(t)].armed[Entry(t, DisarmTid(t))] = FALSE
  /\ \A u \in Threads \ {Entry(t, DisarmTid(t))} :
       alarm'[Current(t)].armed[u] = alarm[Current(t)].armed[u]
  /\ alarm'[Current(t)].tid = alarm[Current(t)].tid
  /\ alarm'[Current(t)].count = alarm[Current(t)].count
  /\ alarm'[Current(t)].handler = alarm[Current(t)].handler
  /\ since' = since
  /\ SameBlock(t) /\ SameSamples /\ SameThreads /\ SameWork(t)

Handles(t) ==
  /\ From(t, "then", "work") /\ at[t] <= Len(Inserted)
  /\ IF alarm[Current(t)].handler
     THEN work'[t] = Handler(Current(t)) /\ stage' = "run"
     ELSE work'[t] = work[t] /\ stage' = "crashed"
  /\ at'[t] = at[t] /\ seen'[t] = seen[t]
  /\ SameBlock(t) /\ SameAlarms /\ SameSamples /\ SameThreads /\ SameLoop(t)

Works(t) ==
  /\ HandlerStep(t) /\ From(t, "work", "work") /\ at'[t] = at[t] /\ work[t] # <<>>
  /\ executed'[t] = executed[t] /\ block'[t] = block[t] /\ _first' = _first /\ SameThreads

Returns(t) ==
  /\ From(t, "work", "if") /\ work[t] = <<>> /\ at'[t] = at[t] + 1 /\ seen'[t] = seen[t]
  /\ SameBlock(t) /\ SameAlarms /\ SameSamples /\ SameThreads /\ SameLoop(t) /\ SameWork(t)

Begins(t) ==
  /\ From(t, "if", "work") /\ at[t] = Len(Inserted) + 1 /\ at'[t] = at[t] /\ seen'[t] = seen[t]
  /\ InitActive /\ _first /\ _first' = FALSE /\ work'[t] = StartList
  /\ _skip_active' = _skip_active /\ _sample_count' = _sample_count
  /\ SameBlock(t) /\ SameAlarms /\ SameThreads /\ SameLoop(t)

Executes(t) ==
  /\ From(t, "if", "body") /\ at[t] > Len(Inserted) /\ at'[t] = at[t] /\ seen'[t] = seen[t]
  /\ ~ (InitActive /\ _first)
  /\ SameBlock(t) /\ SameAlarms /\ SameSamples /\ SameThreads /\ SameLoop(t) /\ SameWork(t)

Comes(t) ==
  /\ From(t, "out", "out") /\ at'[t] = at[t] /\ seen'[t] = seen[t]
  /\ \/ /\ MayStart(t) /\ live' = live \cup {t} /\ gThreadNum' = gThreadNum + 1
        /\ gThreadNum > 0 => \E u \in live : executed[u] > 0
     \/ live' = live \ {t} /\ gThreadNum' = gThreadNum
  /\ SameBlock(t) /\ SameAlarms /\ SameSamples /\ SameLoop(t) /\ SameWork(t)

Leaves(t) ==
  /\ From(t, "body", "out") /\ at[t] > Len(Inserted) /\ at'[t] = 1 /\ seen'[t] = seen[t]
  /\ executed'[t] = executed[t] + block[t] /\ block'[t] = 0 /\ log' = log
  /\ SameAlarms /\ SameSamples /\ SameThreads /\ SameLoop(t) /\ SameWork(t)

\* The alarms after a step of the If calls, but for the one it concerns.
OtherAlarms(t) ==
  Stores(t) \/ Disarms(t) => OneAlarm(Current(t)) /\ Current(t) \in Alarms

Moved(t) ==
  \/ Enters(t) \/ Skips(t) \/ Reads(t) \/ Stores(t) \/ Scans(t) \/ Disarms(t) \/ Handles(t)
  \/ Works(t) \/ Returns(t) \/ Begins(t) \/ Executes(t) \/ Comes(t) \/ Leaves(t)

\* A step of a handler is one of these.
LEMMA WorkKinds ==
  ASSUME CallInv, NEW t \in Threads, HandlerStep(t)
  PROVE  \/ \E a \in Alarms, q \in Seq(Tasks) : SetStep(t, a, q)
         \/ \E e \in {"start", "stop"} : NotifyStep(t, e)
         \/ \E a \in Alarms : SampleStep(t, a) \/ BeginStep(t, a)
         \/ EndedStep(t) \/ AddStep(t)
<1>1. \A x \in Tasks : <<x>> \in Seq(Tasks)
  <2>. HIDE DEF Tasks
  <2>. QED
    OBVIOUS
<1>2. StartList \in Seq(Tasks) /\ <<StartTask>> \in Seq(Tasks)
  BY <1>1, PlanTypes, TaskTypes
<1>3. \A a \in Alarms : <<Task("sample", a)>> \in Seq(Tasks)
  BY <1>1, TaskTypes
<1>4. "length" \in Alarms /\ "period" \in Alarms /\ "uLength" \in Alarms /\ "uSkip" \in Alarms
  BY TaskTypes
<1>5. StartKinds(t) => \/ \E a \in Alarms, q \in Seq(Tasks) : SetStep(t, a, q)
                       \/ \E e \in {"start", "stop"} : NotifyStep(t, e)
  BY <1>2, <1>4 DEF StartKinds
<1>6. \A a \in {"period", "uSkip"} : SampleKinds(t, a) =>
        \/ \E b \in Alarms, q \in Seq(Tasks) : SetStep(t, b, q)
        \/ \E b \in Alarms : SampleStep(t, b) \/ BeginStep(t, b)
  BY <1>2, <1>3, <1>4 DEF SampleKinds
<1>7. \/ StartKinds(t) \/ NotifyStep(t, "stop")
      \/ \E a \in {"period", "uSkip"} : SampleKinds(t, a)
      \/ EndedStep(t) \/ AddStep(t)
  BY StepKinds
<1>. QED
  BY <1>5, <1>6, <1>7

\* A function that differs only at t.
LEMMA OnlyAt ==
  ASSUME NEW S, NEW f \in [Threads -> S], NEW g \in [Threads -> S], NEW t \in Threads,
         \A u \in Threads \ {t} : g[u] = f[u]
  PROVE  g = [f EXCEPT ![t] = g[t]]
OBVIOUS

\* What a handler's step changes at most.
LEMMA WorkFrame ==
  ASSUME CallInv, NEW t \in Threads, HandlerStep(t)
  PROVE  /\ Own(t) /\ SameThreads /\ _first' = _first /\ executed' = executed
         /\ work' \in [Threads -> Seq(Tasks)] /\ each' \in [Threads -> Threads]
         /\ seen' \in [Threads -> Int] /\ since' \in [Threads -> ArmedEntries]
         /\ _sample_count' \in Nat /\ _skip_active' \in BOOLEAN /\ ev' \in {"none", "start", "stop"}
         /\ \/ log' = log
            \/ \E e \in {"start", "stop", "skipped"} :
                 log' = [log EXCEPT ![t] = Append(@, Event(t, e))]
<1>1. /\ work \in [Threads -> Seq(Tasks)] /\ each \in [Threads -> Threads]
      /\ seen \in [Threads -> Int] /\ since \in [Threads -> ArmedEntries]
      /\ log \in [Threads -> Seq(LogEntries)] /\ pc \in [Threads -> PcLabels]
      /\ block \in [Threads -> 0 .. MaxBlock] /\ at \in [Threads -> Nat]
      /\ executed \in [Threads -> Nat] /\ CallTypes
      /\ _sample_count \in Nat /\ _skip_active \in BOOLEAN /\ ev \in {"none", "start", "stop"}
  BY DEF CallInv, CallTypes
<1>2. UNCHANGED <<pc, block, at, stage>>
  BY StepKinds
<1>. DEFINE Rest == /\ SameThreads /\ _first' = _first /\ executed' = executed /\ knobs' = knobs
                    /\ work' \in [Threads -> Seq(Tasks)] /\ each' \in [Threads -> Threads]
                    /\ seen' \in [Threads -> Int] /\ since' \in [Threads -> ArmedEntries]
                    /\ _sample_count' \in Nat /\ _skip_active' \in BOOLEAN
                    /\ ev' \in {"none", "start", "stop"}
                    /\ \A u \in Threads \ {t} :
                         work'[u] = work[u] /\ each'[u] = each[u] /\ seen'[u] = seen[u]
                    /\ \/ log' = log
                       \/ \E e \in {"start", "stop", "skipped"} :
                            log' = [log EXCEPT ![t] = Append(@, Event(t, e))]
<1>. HIDE DEF Tasks, LogEntries, ArmedEntries, PcLabels
<1>3. ASSUME NEW a \in Alarms, NEW q \in Seq(Tasks), SetStep(t, a, q) PROVE Rest
  <2>1. /\ Counts(t, a, q) \/ Arms(t, a, q) \/ Installs(t, a, q)
        /\ NothingElse(t)
    BY <1>1, <1>3, SetCases
  <2>2. since' \in [Threads -> ArmedEntries]
    BY <1>1, <2>1 DEF Counts, Arms, Installs
  <2>3. ev' = ev
    BY <1>3 DEF SetStep, CountStep, ArmStep, StoreStep, setVars
  <2>. QED
    BY <1>1, <2>1, <2>2, <2>3 DEF NothingElse, SameThreads
<1>4. <<>> \in Seq(Tasks)
  OBVIOUS
<1>5. ASSUME NEW e \in {"start", "stop"}, NotifyStep(t, e) PROVE Rest
  BY <1>1, <1>4, <1>5 DEF NotifyStep, activate, deactivate, SameThreads
<1>6. \A x, y \in Tasks : <<x>> \in Seq(Tasks) /\ <<x, y>> \in Seq(Tasks)
  OBVIOUS
<1>7. ASSUME NEW a \in Alarms, SampleStep(t, a) \/ BeginStep(t, a) PROVE Rest
  <2>1. /\ <<Task("begin", a)>> \in Seq(Tasks) /\ CountPlan("uLength", StartList) \in Seq(Tasks)
    BY <1>6, TaskTypes, PlanTypes, PlanFacts
  <2>2. PICK w \in Seq(Tasks) : w = IF _skip_active THEN <<Task("begin", a)>>
                                   ELSE CountPlan("uLength", StartList)
    BY <2>1
  <2>3. CASE SampleStep(t, a)
    <3>1. work' = [work EXCEPT ![t] = w]
      BY <2>2, <2>3 DEF SampleStep
    <3>2. /\ UNCHANGED <<live, gThreadNum, knobs, ev, _first, _skip_active, _sample_count>>
          /\ UNCHANGED <<seen, each, executed, since, log>>
      BY <2>3 DEF SampleStep, threadVars, setVars, historyVars
    <3>3. work' \in [Threads -> Seq(Tasks)] /\ \A u \in Threads \ {t} : work'[u] = work[u]
      BY <1>1, <3>1
    <3>. QED
      BY <1>1, <3>2, <3>3 DEF SameThreads
  <2>4. CASE BeginStep(t, a)
    BY <1>1, <1>4, <2>4 DEF BeginStep, SameThreads, threadVars
  <2>. QED
    BY <1>7, <2>3, <2>4
<1>8. ASSUME EndedStep(t) \/ AddStep(t) PROVE Rest
  <2>1. <<Task("add", "uLength"), StopTask>> \in Seq(Tasks) /\ <<StopTask>> \in Seq(Tasks)
    BY <1>6, TaskTypes
  <2>2. _sample_count \in Int /\ 0 \in Int /\ seen[t] \in Nat
    <3>1. pc[t] = "work" /\ PlaceOf(t)
      BY StepKinds DEF CallInv
    <3>. QED
      BY <1>1, <3>1 DEF PlaceOf
  <2>3. PICK v, w \in Seq(Tasks) :
          v = <<Task("add", "uLength"), StopTask>> /\ w = <<StopTask>>
    BY <2>1
  <2>4. CASE EndedStep(t)
    BY <1>1, <2>2, <2>3, <2>4 DEF EndedStep, SameThreads, threadVars, setVars, historyVars
  <2>5. CASE AddStep(t)
    BY <1>1, <2>2, <2>3, <2>5 DEF AddStep, SameThreads, threadVars, historyVars
  <2>. QED
    BY <1>8, <2>4, <2>5
<1>9. Rest
  BY <1>3, <1>5, <1>7, <1>8, WorkKinds
<1>. HIDE DEF Rest
<1>10. /\ work' = [work EXCEPT ![t] = work'[t]] /\ each' = [each EXCEPT ![t] = each'[t]]
      /\ seen' = [seen EXCEPT ![t] = seen'[t]]
  BY <1>1, <1>9, OnlyAt DEF Rest
<1>11. log' = [log EXCEPT ![t] = log'[t]]
  BY <1>1, <1>9 DEF Rest
<1>12. Own(t)
  BY <1>1, <1>2, <1>9, <1>10, <1>11 DEF Own, Rest
<1>. QED
  BY <1>9, <1>12 DEF Rest

\* A step of a thread is one of these, and is its own.
LEMMA Moves ==
  ASSUME CallInv, NEW t \in Threads, ControlStep(t)
  PROVE  /\ stage = "run" /\ Own(t) /\ Moved(t) /\ OtherAlarms(t)
         /\ ~ Handles(t) => stage' = "run"
<1>1. CallTypes /\ PlaceOf(t)
  BY DEF CallInv
<1>2. /\ knobs \in Knobs /\ Len(Inserted) \in Nat /\ at[t] \in Nat /\ at[t] >= 1
      /\ pc \in [Threads -> PcLabels] /\ work \in [Threads -> Seq(Tasks)]
      /\ block \in [Threads -> 0 .. MaxBlock]
      /\ at \in [Threads -> Nat] /\ seen \in [Threads -> Int] /\ executed \in [Threads -> Nat]
      /\ each \in [Threads -> Threads] /\ log \in [Threads -> Seq(LogEntries)]
      /\ alarm \in [Alarms -> AlarmRecords]
  BY <1>1, InsertedFacts DEF CallTypes
<1>3. at[t] <= Len(Inserted) => Current(t) \in Alarms
  BY <1>2, AlarmPlaces DEF Current
<1>. USE DEF Goto, From, SameBlock, SameAlarms, SameSamples, SameThreads, SameLoop, SameWork,
             setVars, historyVars, threadVars, Moved
<1>. HIDE DEF Tasks, LogEntries, PcLabels, Alarms, AlarmRecords
<1>4. CASE EnterBlock(t)
  <2>1. Enters(t) /\ stage = "run" /\ stage' = "run"
    BY <1>1, <1>2, <1>4 DEF EnterBlock, Enters, PlaceOf
  <2>2. Own(t)
    BY <1>2, <1>4 DEF EnterBlock, Own
  <2>3. OtherAlarms(t)
    BY <2>1 DEF OtherAlarms, Enters, Stores, Disarms
  <2>. QED
    BY <2>1, <2>2, <2>3
<1>5. CASE SkipAlarm(t)
  <2>1. Skips(t) /\ stage = "run" /\ stage' = "run"
    BY <1>2, <1>5 DEF SkipAlarm, Skips
  <2>2. Own(t)
    BY <1>2, <1>5 DEF SkipAlarm, Own
  <2>3. OtherAlarms(t)
    BY <2>1 DEF OtherAlarms, Skips, Stores, Disarms
  <2>. QED
    BY <2>1, <2>2, <2>3
<1>6. CASE ReadCount(t)
  <2>1. Reads(t) /\ stage = "run" /\ stage' = "run"
    BY <1>2, <1>6 DEF ReadCount, Reads
  <2>2. Own(t)
    BY <1>2, <1>6 DEF ReadCount, Own
  <2>3. OtherAlarms(t)
    BY <2>1 DEF OtherAlarms, Reads, Stores, Disarms
  <2>. QED
    BY <2>1, <2>2, <2>3
<1>7. CASE StoreCount(t)
  <2>1. PICK a \in Alarms : a = Current(t) /\ at[t] <= Len(Inserted)
    BY <1>1, <1>3, <1>7 DEF StoreCount, PlaceOf, InAlarm
  <2>2. PICK n \in Int : n = seen[t] - block[t]
    BY <1>2, ControllerAssumption
  <2>3. /\ alarm' = [alarm EXCEPT ![a] = [@ EXCEPT !.count[t] = n]]
        /\ stage = "run" /\ stage' = "run" /\ pc[t] = "store"
        /\ UNCHANGED <<threadVars, setVars, block, work, historyVars>>
        /\ seen' = [seen EXCEPT ![t] = 0]
    BY <1>7, <2>1, <2>2 DEF StoreCount
  <2>4. PICK y : y = [alarm[a] EXCEPT !.count[t] = n]
    OBVIOUS
  <2>5. alarm[a] \in AlarmRecords
    BY <1>2
  <2>6. /\ y \in AlarmRecords /\ y.tid = alarm[a].tid /\ y.armed = alarm[a].armed
        /\ y.handler = alarm[a].handler /\ y.count[t] = n
        /\ \A u \in Threads \ {t} : y.count[u] = alarm[a].count[u]
    BY <2>4, <2>5 DEF AlarmRecords
  <2>7. alarm' = [alarm EXCEPT ![a] = y]
    BY <2>3, <2>4
  <2>8. OneAlarm(a) /\ alarm'[a] = y
    BY <1>2, <2>6, <2>7 DEF OneAlarm
  <2>9. Own(t)
    BY <1>2, <1>7 DEF StoreCount, Own
  <2>10. \/ Ranged(t) /\ pc'[t] = "scan" /\ at'[t] = at[t] /\ each'[t] = knobs.low
         \/ ~ Ranged(t) /\ n <= 0 /\ pc'[t] = "disarm" /\ at'[t] = at[t] /\ each'[t] = 0
         \/ ~ Ranged(t) /\ n > 0 /\ pc'[t] = "if" /\ at'[t] = at[t] + 1 /\ each'[t] = 0
    BY <1>2, <1>7, <2>2 DEF StoreCount, Fires
  <2>11. Stores(t)
    BY <1>2, <2>1, <2>2, <2>3, <2>6, <2>8, <2>10 DEF Stores
  <2>12. OtherAlarms(t)
    BY <2>1, <2>8 DEF OtherAlarms
  <2>. QED
    BY <2>3, <2>9, <2>11, <2>12
<1>8. CASE ScanCount(t)
  <2>1. at[t] <= Len(Inserted) /\ stage = "run" /\ stage' = "run" /\ pc[t] = "scan"
    BY <1>1, <1>8 DEF ScanCount, PlaceOf, InAlarm
  <2>2. alarm[Current(t)].count[each[t]] \in Int
    BY <1>2, <1>3, <2>1 DEF AlarmRecords
  <2>3. PICK n \in Int : n = alarm[Current(t)].count[each[t]]
    BY <2>2
  <2>6. /\ SameBlock(t) /\ SameAlarms /\ SameSamples /\ SameThreads /\ SameWork(t)
        /\ seen'[t] = seen[t]
    BY <1>8 DEF ScanCount
  <2>7. /\ pc'[t] = IF ~ (n <= 0) THEN "if" ELSE IF each[t] = knobs.high THEN "disarm" ELSE "scan"
        /\ at'[t] = IF n <= 0 THEN at[t] ELSE at[t] + 1
        /\ each'[t] = IF ~ (n <= 0) \/ each[t] = knobs.high THEN 0 ELSE each[t] + 1
    BY <1>2, <1>8, <2>1, <2>3 DEF ScanCount, Fires, LastOfRange
  <2>8. Scans(t)
    BY <2>1, <2>3, <2>6, <2>7 DEF Scans
  <2>4. Own(t)
    BY <1>2, <1>8 DEF ScanCount, Own
  <2>5. OtherAlarms(t)
    BY <2>1 DEF OtherAlarms, Stores, Disarms
  <2>. QED
    BY <2>1, <2>4, <2>5, <2>8
<1>9. CASE Disarm(t)
  <2>1. PICK a \in Alarms : a = Current(t) /\ at[t] <= Len(Inserted)
    BY <1>1, <1>3, <1>9 DEF Disarm, PlaceOf, InAlarm
  <2>2. PICK tid \in Tids : tid = DisarmTid(t)
    BY DEF DisarmTid, Tids
  <2>3. /\ stage = "run" /\ stage' = "run" /\ pc[t] = "disarm"
        /\ pc' = [pc EXCEPT ![t] = IF AtEnd(t, tid) THEN "then" ELSE "disarm"]
        /\ LoopStep(t, a, tid)
        /\ alarm' = [alarm EXCEPT ![a] = [@ EXCEPT !.lock = Held(t, a, tid),
                                                   !.armed[Entry(t, tid)] = FALSE]]
        /\ UNCHANGED <<threadVars, setVars, block, at, seen, work, historyVars>>
    BY <1>9, <2>1, <2>2 DEF Disarm, DisarmTid
  <2>4. alarm[a] \in AlarmRecords /\ alarm[a].lock \in BOOLEAN
    BY <1>2 DEF AlarmRecords
  <2>5. /\ TurnOf(t, tid) /\ Held(t, a, tid) \in BOOLEAN
        /\ each' \in [Threads -> Threads] /\ \A u \in Threads \ {t} : each'[u] = each[u]
    BY <1>1, <2>3, <2>4, TurnFacts
  <2>6. PICK e \in Threads : e = Entry(t, tid)
    BY <2>5 DEF TurnOf
  <2>7. PICK l \in BOOLEAN : l = Held(t, a, tid)
    BY <2>5
  <2>8. PICK y : y = [alarm[a] EXCEPT !.lock = l, !.armed[e] = FALSE]
    OBVIOUS
  <2>9. /\ y \in AlarmRecords /\ y.tid = alarm[a].tid /\ y.count = alarm[a].count
        /\ y.armed = [alarm[a].armed EXCEPT ![e] = FALSE] /\ y.handler = alarm[a].handler
    BY <2>4, <2>8 DEF AlarmRecords
  <2>10. alarm' = [alarm EXCEPT ![a] = y]
    BY <2>3, <2>6, <2>7, <2>8
  <2>11. OneAlarm(a) /\ alarm'[a] = y
    BY <1>2, <2>9, <2>10 DEF OneAlarm
  <2>12. alarm[a].armed \in [Threads -> BOOLEAN]
    BY <2>4 DEF AlarmRecords
  <2>13. y.armed[e] = FALSE /\ \A u \in Threads \ {e} : y.armed[u] = alarm[a].armed[u]
    BY <2>9, <2>12
  <2>14. Own(t)
    <3>1. each' = [each EXCEPT ![t] = each'[t]]
      BY <1>2, <2>5, OnlyAt
    <3>. QED
      BY <1>2, <2>3, <3>1 DEF Own
  <2>15. /\ at'[t] = at[t] /\ seen'[t] = seen[t]
         /\ pc'[t] = IF AtEnd(t, tid) THEN "then" ELSE "disarm"
         /\ SameBlock(t) /\ SameSamples /\ SameThreads /\ SameWork(t) /\ since' = since
    BY <1>2, <2>3
  <2>18. /\ alarm'[a].armed[e] = FALSE
         /\ \A u \in Threads \ {e} : alarm'[a].armed[u] = alarm[a].armed[u]
         /\ alarm'[a].tid = alarm[a].tid /\ alarm'[a].count = alarm[a].count
         /\ alarm'[a].handler = alarm[a].handler
    BY <2>9, <2>11, <2>13
  <2>16. Disarms(t)
    <3>1. a = Current(t) /\ tid = DisarmTid(t) /\ e = Entry(t, DisarmTid(t))
      BY <2>1, <2>2, <2>6
    <3>2. pc[t] = "disarm" /\ at[t] <= Len(Inserted) /\ TurnOf(t, DisarmTid(t))
      BY <2>1, <2>2, <2>3, <2>5
    <3>. QED
      BY <2>15, <2>18, <3>1, <3>2, Zenon DEF Disarms
  <2>17. OtherAlarms(t)
    BY <2>1, <2>11 DEF OtherAlarms
  <2>. QED
    BY <2>3, <2>14, <2>16, <2>17
<1>10. CASE CallHandler(t)
  <2>1. at[t] <= Len(Inserted) /\ stage = "run"
    BY <1>1, <1>10 DEF CallHandler, PlaceOf, InAlarm
  <2>2. Handles(t)
    BY <1>2, <1>10, <2>1 DEF CallHandler, Handles
  <2>3. Own(t)
    BY <1>2, <1>10 DEF CallHandler, Own
  <2>4. OtherAlarms(t)
    BY <2>2 DEF OtherAlarms, Handles, Stores, Disarms
  <2>. QED
    BY <2>1, <2>2, <2>3, <2>4
<1>11. CASE HandlerStep(t)
  <2>1. work[t] # <<>> /\ pc[t] = "work" /\ stage = "run" /\ stage' = "run"
        /\ pc' = pc /\ at' = at /\ block' = block
    BY <1>2, <1>11, StepKinds DEF HandlerStep
  <2>2. Works(t) /\ Own(t)
    BY <1>11, <2>1, WorkFrame DEF Works
  <2>3. OtherAlarms(t)
    BY <2>1 DEF OtherAlarms, Stores, Disarms
  <2>. QED
    BY <2>1, <2>2, <2>3
<1>12. CASE HandlerReturn(t)
  <2>1. Returns(t) /\ stage = "run" /\ stage' = "run"
    BY <1>2, <1>12 DEF HandlerReturn, Returns
  <2>2. Own(t)
    BY <1>2, <1>12 DEF HandlerReturn, Own
  <2>3. OtherAlarms(t)
    BY <2>1 DEF OtherAlarms, Returns, Stores, Disarms
  <2>. QED
    BY <2>1, <2>2, <2>3
<1>13. CASE InitStart(t)
  <2>1. Begins(t) /\ stage = "run" /\ stage' = "run"
    BY <1>2, <1>13, FirstPlans DEF InitStart, Begins
  <2>2. Own(t)
    BY <1>2, <1>13 DEF InitStart, Own
  <2>3. OtherAlarms(t)
    BY <2>1 DEF OtherAlarms, Begins, Stores, Disarms
  <2>. QED
    BY <2>1, <2>2, <2>3
<1>14. CASE EnterBody(t)
  <2>1. Executes(t) /\ stage = "run" /\ stage' = "run"
    BY <1>2, <1>14 DEF EnterBody, Executes
  <2>2. Own(t)
    BY <1>2, <1>14 DEF EnterBody, Own
  <2>3. OtherAlarms(t)
    BY <2>1 DEF OtherAlarms, Executes, Stores, Disarms
  <2>. QED
    BY <2>1, <2>2, <2>3
<1>15. CASE StartThread(t) \/ ExitThread(t)
  <2>1. Comes(t) /\ stage = "run" /\ stage' = "run"
    BY <1>2, <1>15 DEF StartThread, ExitThread, Comes, ThreadStart, ThreadFini
  <2>2. Own(t)
    BY <1>2, <1>15 DEF StartThread, ExitThread, Own
  <2>3. OtherAlarms(t)
    BY <2>1 DEF OtherAlarms, Comes, Stores, Disarms
  <2>. QED
    BY <2>1, <2>2, <2>3
<1>16. CASE LeaveBlock(t)
  <2>1. Leaves(t) /\ stage = "run" /\ stage' = "run"
    BY <1>1, <1>2, <1>16 DEF LeaveBlock, Leaves, PlaceOf
  <2>2. Own(t)
    BY <1>2, <1>16 DEF LeaveBlock, Own
  <2>3. OtherAlarms(t)
    BY <2>1 DEF OtherAlarms, Leaves, Stores, Disarms
  <2>. QED
    BY <2>1, <2>2, <2>3
<1>. QED
  BY <1>4, <1>5, <1>6, <1>7, <1>8, <1>9, <1>10, <1>11, <1>12, <1>13, <1>14, <1>15, <1>16
     DEF ControlStep, Calls
-----------------------------------------------------------------------------
(***************************************************************************)
(* The steps keep the types and the places.                                *)
(***************************************************************************)

\* The calls of u do not change.
Frame(u) ==
  /\ pc'[u] = pc[u] /\ block'[u] = block[u] /\ at'[u] = at[u] /\ seen'[u] = seen[u]
  /\ each'[u] = each[u] /\ work'[u] = work[u] /\ executed'[u] = executed[u] /\ log'[u] = log[u]

\* A step of a thread changes the calls of no other.
LEMMA FrameOf ==
  ASSUME CallTypes, NEW t \in Threads, Own(t), NEW u \in Threads \ {t}
  PROVE  Frame(u)
BY DEF CallTypes, Own, Frame

\* The alarms that are inserted, and whom they are for, never change.
LEMMA KnobFrame ==
  ASSUME knobs' = knobs
  PROVE  /\ Inserted' = Inserted
         /\ \A a : AlarmTid(a)' = AlarmTid(a) /\ AlarmCount(a)' = AlarmCount(a)
         /\ \A a : Plans(a)' = Plans(a)
         /\ StartPlans' = StartPlans /\ StartList' = StartList
         /\ InitActive' = InitActive /\ Starters' = Starters
<1>1. /\ Inserted' = Inserted /\ InitActive' = InitActive /\ Starters' = Starters
      /\ \A a : AlarmTid(a)' = AlarmTid(a) /\ AlarmCount(a)' = AlarmCount(a)
  BY Zenon DEF Inserted, AlarmTid, AlarmCount, InitActive, Starters
<1>2. StartPlans' = StartPlans /\ StartList' = StartList
  BY Zenon DEF StartPlans, StartList, SetPlans, CountPlan, ArmPlan, StorePlan, StartTask
<1>3. \A a : SamplePlans(a)' = SamplePlans(a)
  BY <1>2 DEF SamplePlans, SetPlans, CountPlan, ArmPlan, StorePlan
<1>4. EndPlans' = EndPlans
  BY DEF EndPlans, StopTask
<1>5. \A a : Plans(a)' = Plans(a)
  BY <1>2, <1>3, <1>4, Zenon DEF Plans, StopTask
<1>. QED
  BY <1>1, <1>2, <1>5

\* A thread whose own calls do not change stays at its place.
LEMMA PlaceFrame ==
  ASSUME NEW u \in Threads, PlaceOf(u), Frame(u), knobs' = knobs, _first' => _first
  PROVE  PlaceOf(u)'
<1>1. /\ Inserted' = Inserted /\ InitActive' = InitActive /\ StartPlans' = StartPlans
      /\ \A a : AlarmTid(a)' = AlarmTid(a) /\ Plans(a)' = Plans(a)
  BY KnobFrame
<1>2. Current(u)' = Current(u)
  BY <1>1 DEF Current, Frame
<1>3. (Ranged(u)' <=> Ranged(u)) /\ (InAlarm(u)' <=> InAlarm(u))
  BY <1>2 DEF Ranged, InAlarm, Frame
<1>4. Looping(u)' <=> Looping(u)
  BY <1>1 DEF Looping, Frame
<1>. QED
  BY <1>1, <1>2, <1>3, <1>4, Zenon DEF PlaceOf, Frame

\* A step of SetAlarm leaves a list of the same plan, or what comes after it.
LEMMA SetPlace ==
  ASSUME CallInv, NEW t \in Threads, pc[t] = "work",
         NEW a \in Alarms, NEW q \in Seq(Tasks), SetStep(t, a, q), knobs' = knobs
  PROVE  /\ work'[t] \in SetPlans(a, q) \cup {q} /\ seen'[t] = seen[t]
         /\ each'[t] = 0 \/ Looping(t)'
<1>1. CallTypes /\ PlaceOf(t)
  BY DEF CallInv
<1>2. /\ Counts(t, a, q) \/ Arms(t, a, q) \/ Installs(t, a, q)
      /\ NothingElse(t)
  BY <1>1, SetCases
<1>3. seen'[t] = seen[t]
  BY <1>2 DEF NothingElse
<1>4. work'[t] \in SetPlans(a, q) \cup {q}
  BY <1>2 DEF Counts, Arms, Installs, SetPlans
<1>5. AlarmTid(a)' = AlarmTid(a)
  BY KnobFrame
<1>. SUFFICES each'[t] = 0 \/ Looping(t)'
  BY <1>3, <1>4
<1>6. CASE Counts(t, a, q)
  <2>1. CASE AtEnd(t, AlarmTid(a))
    BY <1>6, <2>1 DEF Counts, TurnOf
  <2>2. CASE ~ AtEnd(t, AlarmTid(a))
    <3>1. work'[t] = CountPlan(a, q) /\ AlarmTid(a) = ALL_THREADS
      BY <1>6, <2>2 DEF Counts, TurnOf
    <3>2. PICK x : x = Head(work'[t])
      OBVIOUS
    <3>3. x.op = "count" /\ x.alarm = a /\ work'[t] # <<>>
      BY <3>1, <3>2, PlanFacts, TaskFields
    <3>4. Looping(t)'
      BY <1>5, <3>1, <3>2, <3>3 DEF Looping
    <3>. QED
      BY <3>4
  <2>. QED
    BY <2>1, <2>2
<1>7. CASE Arms(t, a, q)
  <2>1. CASE AtEnd(t, AlarmTid(a))
    BY <1>7, <2>1 DEF Arms, TurnOf
  <2>2. CASE ~ AtEnd(t, AlarmTid(a))
    <3>1. work'[t] = ArmPlan(a, q) /\ AlarmTid(a) = ALL_THREADS
      BY <1>7, <2>2 DEF Arms, TurnOf
    <3>2. PICK x : x = Head(work'[t])
      OBVIOUS
    <3>3. x.op = "arm" /\ x.alarm = a /\ work'[t] # <<>>
      BY <3>1, <3>2, PlanFacts, TaskFields
    <3>4. Looping(t)'
      BY <1>5, <3>1, <3>2, <3>3 DEF Looping
    <3>. QED
      BY <3>4
  <2>. QED
    BY <2>1, <2>2
<1>8. CASE Installs(t, a, q)
  <2>1. work[t] = StorePlan(a, q) /\ each'[t] = each[t]
    BY <1>8 DEF Installs
  <2>2. PICK x : x = Head(work[t])
    OBVIOUS
  <2>3. x.op = "handler"
    BY <2>1, <2>2, PlanFacts, TaskFields
  <2>4. ~ Looping(t)
    BY <2>2, <2>3 DEF Looping
  <2>. QED
    BY <1>1, <2>1, <2>4 DEF PlaceOf
<1>. QED
  BY <1>2, <1>6, <1>7, <1>8

\* A list whose first task is no loop.
LEMMA NotLooping ==
  ASSUME NEW t \in Threads, PlaceOf(t), pc[t] = "work",
         NEW o \in {"sample", "begin", "ended", "add", "notify"}, NEW a, NEW y,
         work[t] = <<Task(o, a)>> \/ work[t] = <<Task(o, a), y>>
  PROVE  each[t] = 0
<1>1. PICK x : x = Head(work[t])
  OBVIOUS
<1>2. x.op = o
  BY <1>1, ListFacts, TaskFields
<1>3. ~ Looping(t)
  BY <1>1, <1>2 DEF Looping
<1>. QED
  BY <1>3 DEF PlaceOf

\* The plan, the count read and the loop after a step of a handler.
WorkPlace(t) ==
  /\ IF at[t] <= Len(Inserted) THEN work'[t] \in Plans(Current(t)) ELSE work'[t] \in StartPlans
  /\ seen'[t] \in Nat
  /\ each'[t] = 0 \/ Looping(t)'

\* A handler's list stays one of the lists of its alarm.
LEMMA WorkStep ==
  ASSUME CallInv, NEW t \in Threads, HandlerStep(t)
  PROVE  WorkPlace(t)
<1>0. pc[t] = "work" /\ PlaceOf(t) /\ CallTypes
  BY StepKinds DEF CallInv
<1>1. /\ pc[t] = "work" /\ PlaceOf(t) /\ CallTypes
      /\ seen[t] \in Nat
      /\ work \in [Threads -> Seq(Tasks)] /\ knobs \in Knobs
      /\ at[t] \in Nat /\ at[t] >= 1 /\ Len(Inserted) \in Nat
      /\ seen \in [Threads -> Int] /\ _sample_count \in Nat
  <2>1. seen[t] \in Nat
    BY <1>0 DEF PlaceOf
  <2>2. knobs \in Knobs
    BY <1>0 DEF CallTypes
  <2>. QED
    BY <1>0, <2>1, <2>2, InsertedFacts DEF CallTypes
<1>2. knobs' = knobs
  BY WorkFrame DEF Own
<1>. HIDE DEF Tasks
<1>3. \A x \in Tasks : <<x>> \in Seq(Tasks)
  OBVIOUS
<1>4. /\ "length" \in Alarms /\ "period" \in Alarms /\ "uLength" \in Alarms
      /\ <<StartTask>> \in Seq(Tasks) /\ StartList \in Seq(Tasks)
      /\ \A a \in Alarms : <<Task("sample", a)>> \in Seq(Tasks)
  BY <1>3, TaskTypes, PlanTypes
<1>. DEFINE Rest == seen'[t] \in Nat /\ (each'[t] = 0 \/ Looping(t)')
<1>5. ASSUME NEW e \in {"start", "stop"}, NotifyStep(t, e) PROVE work'[t] = <<>> /\ Rest
  <2>1. work[t] = <<Task("notify", e)>> /\ work' = [work EXCEPT ![t] = <<>>]
        /\ UNCHANGED <<seen, each>>
    BY <1>5 DEF NotifyStep
  <2>2. each[t] = 0
    BY <1>1, <2>1, NotLooping
  <2>. QED
    BY <1>1, <2>1, <2>2
<1>6. ASSUME StartKinds(t) PROVE work'[t] \in StartPlans /\ Rest
  <2>1. CASE knobs.length > 0 /\ SetStep(t, "length", <<StartTask>>)
    BY <1>1, <1>2, <1>4, <2>1, SetPlace DEF StartPlans
  <2>2. CASE NotifyStep(t, "start")
    BY <1>5, <2>2 DEF StartPlans
  <2>. QED
    BY <1>6, <2>1, <2>2 DEF StartKinds
<1>7. CASE at[t] > Len(Inserted)
  <2>1. StartKinds(t)
    BY <1>1, <1>7, StepKinds
  <2>. QED
    BY <1>1, <1>6, <1>7, <2>1 DEF WorkPlace
<1>8. CASE at[t] <= Len(Inserted)
  <2>1. Current(t) \in Alarms
    BY <1>1, <1>8, AlarmPlaces DEF Current
  <2>2. SUFFICES work'[t] \in Plans(Current(t)) /\ Rest
    BY <1>8 DEF WorkPlace
  <2>3. CASE Current(t) = "skip"
    BY <1>1, <1>6, <1>8, <2>3, StepKinds DEF Plans
  <2>4. CASE Current(t) = "length"
    BY <1>1, <1>5, <1>8, <2>4, StepKinds DEF Plans
  <2>5. CASE Current(t) = "uLength"
    <3>1. PICK A, B \in Tasks : A = Task("add", "uLength") /\ B = StopTask
      BY TaskTypes
    <3>2. <<A, B>> \in Seq(Tasks) /\ <<B>> \in Seq(Tasks)
      OBVIOUS
    <3>3. CASE EndedStep(t)
      <4>1. /\ work[t] = <<Task("ended", "uLength"), StopTask>>
            /\ work' = [work EXCEPT ![t] = <<A, B>>]
            /\ seen' = [seen EXCEPT ![t] = _sample_count] /\ each' = each
        BY <3>1, <3>3 DEF EndedStep
      <4>2. each[t] = 0
        BY <1>1, <4>1, NotLooping
      <4>3. work'[t] = <<Task("add", "uLength"), StopTask>> /\ Rest
        BY <1>1, <3>1, <3>2, <4>1, <4>2
      <4>. QED
        BY <2>5, <4>3 DEF Plans, EndPlans
    <3>4. CASE AddStep(t)
      <4>1. /\ work[t] = <<Task("add", "uLength"), StopTask>>
            /\ work' = [work EXCEPT ![t] = <<B>>]
            /\ seen' = [seen EXCEPT ![t] = 0] /\ each' = each
        BY <3>1, <3>4 DEF AddStep
      <4>2. each[t] = 0
        BY <1>1, <4>1, NotLooping
      <4>3. work'[t] = <<StopTask>> /\ Rest
        BY <1>1, <3>1, <3>2, <4>1, <4>2
      <4>. QED
        BY <2>5, <4>3 DEF Plans, EndPlans
    <3>5. CASE NotifyStep(t, "stop")
      BY <1>5, <2>5, <3>5 DEF Plans, EndPlans
    <3>. QED
      BY <1>1, <1>8, <2>5, <3>3, <3>4, <3>5, StepKinds
  <2>6. CASE Current(t) \in {"period", "uSkip"}
    <3>1. PICK a \in Alarms : a = Current(t)
      BY <2>1
    <3>2. Plans(a) = SamplePlans(a)
      <4>1. a = "period" \/ a = "uSkip"
        BY <2>6, <3>1
      <4>. QED
        BY <4>1 DEF Plans
    <3>3. SampleKinds(t, a) \/ StartKinds(t)
      BY <1>1, <1>8, <2>6, <3>1, StepKinds
    <3>4. CASE StartKinds(t)
      BY <1>6, <3>1, <3>2, <3>4, Zenon DEF SamplePlans
    <3>5. CASE SetStep(t, "period", <<Task("sample", a)>>)
      <4>1. /\ work'[t] \in SetPlans("period", <<Task("sample", a)>>) \cup {<<Task("sample", a)>>}
            /\ Rest
        BY <1>1, <1>2, <1>4, <3>5, SetPlace
      <4>. QED
        BY <3>1, <3>2, <4>1, Zenon DEF SamplePlans
    <3>6. CASE SetStep(t, "uLength", StartList)
      <4>1. work'[t] \in SetPlans("uLength", StartList) \cup {StartList} /\ Rest
        BY <1>1, <1>2, <1>4, <3>6, SetPlace
      <4>2. StartList \in StartPlans
        BY Zenon DEF StartList, StartPlans, SetPlans
      <4>. QED
        BY <3>1, <3>2, <4>1, <4>2, Zenon DEF SamplePlans
    <3>7. CASE SampleStep(t, a)
      <4>1. PICK w \in Seq(Tasks) : w = IF _skip_active THEN <<Task("begin", a)>>
                                        ELSE CountPlan("uLength", StartList)
        BY <1>3, <1>4, TaskTypes, PlanFacts
      <4>2. work[t] = <<Task("sample", a)>> /\ work' = [work EXCEPT ![t] = w]
            /\ UNCHANGED <<seen, each>>
        BY <3>7, <4>1 DEF SampleStep
      <4>3. each[t] = 0
        BY <1>1, <4>2, NotLooping
      <4>4. w \in SamplePlans(a)
        BY <4>1, Zenon DEF SamplePlans, SetPlans
      <4>. QED
        BY <1>1, <3>1, <3>2, <4>2, <4>3, <4>4
    <3>8. CASE BeginStep(t, a)
      <4>1. work[t] = <<Task("begin", a)>> /\ work' = [work EXCEPT ![t] = <<>>]
            /\ UNCHANGED <<seen, each>>
        BY <3>8 DEF BeginStep
      <4>2. each[t] = 0
        BY <1>1, <4>1, NotLooping
      <4>3. <<>> \in SamplePlans(a)
        BY Zenon DEF SamplePlans, StartPlans
      <4>. QED
        BY <1>1, <3>1, <3>2, <4>1, <4>2, <4>3
    <3>. QED
      BY <3>3, <3>4, <3>5, <3>6, <3>7, <3>8 DEF SampleKinds
  <2>. QED
    BY <2>1, <2>3, <2>4, <2>5, <2>6 DEF Alarms
<1>. QED
  BY <1>1, <1>7, <1>8

\* The threads and the last event keep their types.
LEMMA ThreadStep ==
  ASSUME CallInv, NEW t \in Threads, ControlStep(t)
  PROVE  ThreadTypeOK' /\ ev' \in {"none", "start", "stop"}
<1>1. ThreadTypeOK /\ ev \in {"none", "start", "stop"}
  BY DEF CallInv, CallTypes
<1>2. ASSUME UNCHANGED threadVars PROVE ThreadTypeOK'
  BY <1>1, <1>2 DEF threadVars, ThreadTypeOK
<1>3. ASSUME activate(t) \/ deactivate(t) PROVE ThreadTypeOK'
  BY <1>1, <1>3 DEF activate, deactivate, ThreadTypeOK, TlsStates
<1>4. CASE HandlerStep(t)
  <2>1. ev' \in {"none", "start", "stop"}
    BY <1>4, WorkFrame
  <2>2. ASSUME NEW a \in Alarms, NEW q \in Seq(Tasks), SetStep(t, a, q) PROVE UNCHANGED threadVars
    BY <2>2 DEF SetStep, CountStep, ArmStep, StoreStep
  <2>3. ASSUME NEW e \in {"start", "stop"}, NotifyStep(t, e) PROVE activate(t) \/ deactivate(t)
    BY <2>3 DEF NotifyStep
  <2>4. ASSUME NEW a \in Alarms, SampleStep(t, a) \/ BeginStep(t, a) PROVE UNCHANGED threadVars
    BY <2>4 DEF SampleStep, BeginStep
  <2>5. ASSUME EndedStep(t) \/ AddStep(t) PROVE UNCHANGED threadVars
    BY <2>5 DEF EndedStep, AddStep
  <2>. QED
    BY <1>2, <1>3, <1>4, <2>1, <2>2, <2>3, <2>4, <2>5, WorkKinds
<1>5. CASE StartThread(t)
  <2>1. ThreadTypeOK'
    BY <1>1, <1>5, ThreadAssumption
       DEF StartThread, ThreadTypeOK, ThreadStart, MayStart, TlsStates
  <2>. QED
    BY <1>1, <1>5, <2>1 DEF StartThread, setVars
<1>6. CASE ExitThread(t)
  <2>1. ThreadTypeOK'
    BY <1>1, <1>6 DEF ExitThread, ThreadTypeOK, ThreadFini
  <2>. QED
    BY <1>1, <1>6, <2>1 DEF ExitThread, setVars
<1>7. CASE \/ EnterBlock(t) \/ SkipAlarm(t) \/ ReadCount(t) \/ StoreCount(t) \/ ScanCount(t)
           \/ Disarm(t) \/ CallHandler(t) \/ HandlerReturn(t) \/ InitStart(t) \/ EnterBody(t)
           \/ LeaveBlock(t)
  <2>1. UNCHANGED threadVars /\ ev' = ev
    BY <1>7, Zenon DEF EnterBlock, SkipAlarm, ReadCount, StoreCount, ScanCount, Disarm,
                       CallHandler, HandlerReturn, InitStart, EnterBody, LeaveBlock, setVars
  <2>. QED
    BY <1>1, <1>2, <2>1
<1>. QED
  BY <1>4, <1>5, <1>6, <1>7 DEF ControlStep, Calls

\* The alarms after a step of a handler.
LEMMA WorkAlarms ==
  ASSUME CallInv, NEW t \in Threads, HandlerStep(t)
  PROVE  alarm' \in [Alarms -> AlarmRecords] /\ ArmedFor'
<1>1. CallTypes /\ ArmedFor /\ alarm \in [Alarms -> AlarmRecords]
  BY DEF CallInv, CallTypes
<1>2. \A a : AlarmTid(a)' = AlarmTid(a)
  BY WorkFrame, KnobFrame DEF Own
<1>3. ASSUME alarm' = alarm PROVE alarm' \in [Alarms -> AlarmRecords] /\ ArmedFor'
  BY <1>1, <1>2, <1>3 DEF ArmedFor
<1>4. ASSUME NEW a \in Alarms, NEW q \in Seq(Tasks), SetStep(t, a, q)
      PROVE  alarm' \in [Alarms -> AlarmRecords] /\ ArmedFor'
  <2>1. OneAlarm(a) /\ (Counts(t, a, q) \/ Arms(t, a, q) \/ Installs(t, a, q))
    BY <1>1, <1>4, SetCases
  <2>2. ASSUME NEW u \in Threads, alarm'[a].armed[u] PROVE u \in For(AlarmTid(a))
    BY <1>1, <2>1, <2>2 DEF Counts, Arms, Installs, TurnOf, ArmedFor
  <2>3. ASSUME NEW b \in Alarms, NEW u \in Threads, alarm'[b].armed[u]
        PROVE  u \in For(AlarmTid(b))
    BY <1>1, <2>1, <2>2, <2>3 DEF OneAlarm, ArmedFor
  <2>. QED
    BY <1>2, <2>1, <2>3 DEF OneAlarm, ArmedFor
<1>5. ASSUME NEW e \in {"start", "stop"}, NotifyStep(t, e) PROVE alarm' = alarm
  BY <1>5 DEF NotifyStep
<1>6. ASSUME NEW a \in Alarms, SampleStep(t, a) \/ BeginStep(t, a) PROVE alarm' = alarm
  BY <1>6 DEF SampleStep, BeginStep
<1>7. ASSUME EndedStep(t) \/ AddStep(t) PROVE alarm' = alarm
  BY <1>7 DEF EndedStep, AddStep
<1>. QED
  BY <1>3, <1>4, <1>5, <1>6, <1>7, WorkKinds

\* The types of what a step of t may change.
HereTypes(t) ==
  /\ pc'[t] \in PcLabels /\ block'[t] \in 0 .. MaxBlock /\ at'[t] \in 1 .. Len(Inserted) + 2
  /\ seen'[t] \in Int /\ each'[t] \in Threads /\ work'[t] \in Seq(Tasks)
  /\ executed'[t] \in Nat /\ log'[t] \in Seq(LogEntries)
  /\ alarm' \in [Alarms -> AlarmRecords] /\ since' \in [Threads -> ArmedEntries]
  /\ _first' \in BOOLEAN /\ _skip_active' \in BOOLEAN /\ _sample_count' \in Nat

\* The types after it.
LEMMA OwnTypes ==
  ASSUME CallInv, NEW t \in Threads, ControlStep(t), Own(t), HereTypes(t),
         stage' \in {"run", "crashed", "done"}
  PROVE  CallTypes'
<1>1. /\ pc \in [Threads -> PcLabels] /\ block \in [Threads -> 0 .. MaxBlock]
      /\ at \in [Threads -> Nat] /\ \A u \in Threads : at[u] \in 1 .. Len(Inserted) + 2
      /\ seen \in [Threads -> Int] /\ each \in [Threads -> Threads]
      /\ work \in [Threads -> Seq(Tasks)] /\ executed \in [Threads -> Nat]
      /\ log \in [Threads -> Seq(LogEntries)] /\ knobs \in Knobs
  BY DEF CallInv, CallTypes
<1>2. Len(Inserted) \in Nat /\ Inserted' = Inserted
  BY <1>1, InsertedFacts, KnobFrame DEF Own
<1>. HIDE DEF Tasks, LogEntries, PcLabels, ArmedEntries, AlarmRecords, Alarms
<1>3. at'[t] \in Nat
  BY <1>2 DEF HereTypes
<1>4. /\ pc' \in [Threads -> PcLabels] /\ block' \in [Threads -> 0 .. MaxBlock]
      /\ at' \in [Threads -> Nat]
      /\ seen' \in [Threads -> Int] /\ each' \in [Threads -> Threads]
      /\ work' \in [Threads -> Seq(Tasks)] /\ executed' \in [Threads -> Nat]
      /\ log' \in [Threads -> Seq(LogEntries)] /\ knobs' \in Knobs
  BY <1>1, <1>3 DEF Own, HereTypes
<1>5. \A u \in Threads : at'[u] \in 1 .. Len(Inserted') + 2
  BY <1>1, <1>2 DEF Own, HereTypes
<1>6. ThreadTypeOK' /\ ev' \in {"none", "start", "stop"}
  BY ThreadStep
<1>. QED
  BY <1>4, <1>5, <1>6 DEF CallTypes, HereTypes

\* The steps between the blocks and the alarms keep the types.
LEMMA PlainTypes ==
  ASSUME CallInv, NEW t \in Threads,
         Enters(t) \/ Skips(t) \/ Reads(t) \/ Scans(t) \/ Handles(t) \/ Returns(t)
           \/ Begins(t) \/ Executes(t) \/ Comes(t) \/ Leaves(t)
  PROVE  HereTypes(t)
<1>1. CallTypes /\ PlaceOf(t)
  BY DEF CallInv
<1>2. /\ knobs \in Knobs /\ Len(Inserted) \in Nat /\ at[t] \in Nat /\ at[t] >= 1
      /\ at[t] <= Len(Inserted) + 2 /\ pc[t] \in PcLabels /\ block[t] \in 0 .. MaxBlock
      /\ seen[t] \in Int /\ each[t] \in Threads /\ work[t] \in Seq(Tasks)
      /\ executed[t] \in Nat /\ log[t] \in Seq(LogEntries)
      /\ alarm \in [Alarms -> AlarmRecords] /\ since \in [Threads -> ArmedEntries]
      /\ _first \in BOOLEAN /\ _skip_active \in BOOLEAN /\ _sample_count \in Nat
      /\ MaxBlock \in Nat
  BY <1>1, InsertedFacts, ControllerAssumption DEF CallTypes
<1>. HIDE DEF Tasks, LogEntries, ArmedEntries, AlarmRecords, Alarms
<1>. USE DEF From, SameBlock, SameAlarms, SameSamples, SameThreads, SameLoop, SameWork
<1>3. /\ "if" \in PcLabels /\ "store" \in PcLabels /\ "scan" \in PcLabels /\ "disarm" \in PcLabels
      /\ "work" \in PcLabels /\ "body" \in PcLabels /\ "out" \in PcLabels
  BY DEF PcLabels
<1>. HIDE DEF PcLabels
<1>4. CASE Enters(t)
  <2>1. block'[t] \in 0 .. MaxBlock /\ 1 \in 1 .. Len(Inserted) + 2
    BY <1>2, <1>4 DEF Enters
  <2>. QED
    BY <1>2, <1>3, <1>4, <2>1 DEF Enters, HereTypes
<1>5. CASE Skips(t)
  <2>1. at[t] + 1 \in 1 .. Len(Inserted) + 2
    BY <1>2, <1>5 DEF Skips
  <2>. QED
    BY <1>2, <1>3, <1>5, <2>1 DEF Skips, HereTypes
<1>6. at[t] \in 1 .. Len(Inserted) + 2
  BY <1>2
<1>7. CASE Reads(t)
  <2>1. Current(t) \in Alarms
    BY <1>2, <1>7, AlarmPlaces DEF Reads, Current
  <2>2. alarm[Current(t)].count[t] \in Int
    BY <1>2, <2>1 DEF AlarmRecords
  <2>. QED
    BY <1>2, <1>3, <1>6, <1>7, <2>2 DEF Reads, HereTypes
<1>8. CASE Scans(t)
  <2>1. at[t] + 1 \in 1 .. Len(Inserted) + 2
    BY <1>2, <1>8 DEF Scans
  <2>2. knobs.high \in Threads /\ knobs.high \in Nat /\ each[t] \in Nat /\ 0 \in Threads
    BY <1>2, TidFacts, KnobFacts
  <2>3. each[t] # knobs.high => each[t] + 1 \in Threads
    <3>1. each[t] <= knobs.high
      BY <1>1, <1>8 DEF Scans, PlaceOf
    <3>2. PICK h, e \in Nat : h = knobs.high /\ e = each[t]
      BY <2>2
    <3>3. h < NumThreads /\ (e # h => e + 1 <= h)
      BY <2>2, <3>1, <3>2, TidFacts
    <3>4. e # h => e + 1 \in Nat /\ e + 1 < NumThreads
      BY <3>3, TidFacts
    <3>. QED
      BY <3>2, <3>4, TidFacts
  <2>4. each'[t] \in Threads /\ at'[t] \in 1 .. Len(Inserted) + 2 /\ pc'[t] \in PcLabels
    BY <1>3, <1>6, <1>8, <2>1, <2>2, <2>3 DEF Scans
  <2>. QED
    BY <1>2, <1>8, <2>4 DEF Scans, HereTypes
<1>9. CASE Handles(t)
  <2>1. Current(t) \in Alarms
    BY <1>2, <1>9, AlarmPlaces DEF Handles, Current
  <2>2. Handler(Current(t)) \in Seq(Tasks)
    <3>1. /\ \A a \in Alarms : <<Task("sample", a)>> \in Seq(Tasks)
          /\ <<Task("ended", "uLength"), StopTask>> \in Seq(Tasks) /\ <<StopTask>> \in Seq(Tasks)
          /\ <<>> \in Seq(Tasks) /\ "period" \in Alarms
      BY TaskTypes
    <3>2. \A a \in Alarms : CountPlan("period", <<Task("sample", a)>>) \in Seq(Tasks)
      BY <3>1, PlanFacts
    <3>3. \/ Current(t) = "skip" \/ Current(t) = "length" \/ Current(t) = "uLength"
          \/ Current(t) \in {"period", "uSkip"}
      BY <2>1 DEF Alarms
    <3>. QED
      BY <2>1, <3>1, <3>2, <3>3, FirstPlans, PlanTypes
  <2>. QED
    BY <1>2, <1>3, <1>6, <1>9, <2>2 DEF Handles, HereTypes
<1>10. CASE Returns(t)
  <2>1. at[t] + 1 \in 1 .. Len(Inserted) + 2
    BY <1>1, <1>2, <1>10 DEF Returns, PlaceOf
  <2>. QED
    BY <1>2, <1>3, <1>10, <2>1 DEF Returns, HereTypes
<1>11. CASE Begins(t)
  <2>. QED
    BY <1>2, <1>3, <1>6, <1>11, PlanTypes DEF Begins, HereTypes
<1>12. CASE Executes(t)
  BY <1>2, <1>3, <1>6, <1>12 DEF Executes, HereTypes
<1>13. CASE Comes(t)
  BY <1>2, <1>3, <1>6, <1>13 DEF Comes, HereTypes
<1>14. CASE Leaves(t)
  <2>1. 1 \in 1 .. Len(Inserted) + 2 /\ executed[t] + block[t] \in Nat /\ 0 \in 0 .. MaxBlock
    BY <1>2
  <2>. QED
    BY <1>2, <1>3, <1>14, <2>1 DEF Leaves, HereTypes
<1>. QED
  BY <1>4, <1>5, <1>7, <1>8, <1>9, <1>10, <1>11, <1>12, <1>13, <1>14

\* The places of the thread after those steps.
LEMMA PlainPlaces ==
  ASSUME CallInv, NEW t \in Threads, Own(t),
         Enters(t) \/ Skips(t) \/ Reads(t) \/ Scans(t) \/ Handles(t) \/ Returns(t)
           \/ Begins(t) \/ Executes(t) \/ Comes(t) \/ Leaves(t)
  PROVE  PlaceOf(t)' /\ ArmedFor'
<1>1. CallTypes /\ PlaceOf(t) /\ ArmedFor
  BY DEF CallInv
<1>2. /\ knobs \in Knobs /\ Len(Inserted) \in Nat /\ at[t] \in Nat /\ at[t] >= 1
      /\ block[t] \in 0 .. MaxBlock /\ block[t] \in Nat /\ each[t] \in Threads
  BY <1>1, InsertedFacts, ControllerAssumption DEF CallTypes
<1>3. /\ Inserted' = Inserted /\ InitActive' = InitActive /\ StartPlans' = StartPlans
      /\ knobs' = knobs
      /\ \A a : AlarmTid(a)' = AlarmTid(a) /\ Plans(a)' = Plans(a)
  BY KnobFrame DEF Own
<1>4. at'[t] = at[t] => Current(t)' = Current(t) /\ (Ranged(t)' <=> Ranged(t))
  BY <1>3 DEF Current, Ranged
<1>5. at[t] <= Len(Inserted) => Current(t) \in Alarms
  BY <1>2, AlarmPlaces DEF Current
<1>6. ArmedFor'
  <2>1. alarm' = alarm
    BY DEF Enters, Skips, Reads, Scans, Handles, Returns, Begins, Executes, Comes, Leaves, SameAlarms
  <2>. QED
    BY <1>1, <1>3, <2>1 DEF ArmedFor
<1>. HIDE DEF Alarms
<1>. USE DEF From, SameBlock, SameLoop, SameWork, InAlarm
<1>7. CASE Enters(t)
  BY <1>1, <1>2, <1>6, <1>7 DEF Enters, PlaceOf
<1>8. CASE Skips(t)
  BY <1>1, <1>6, <1>8 DEF Skips, PlaceOf
<1>9. CASE Reads(t)
  <2>1. t \in For(AlarmTid(Current(t)))
    BY <1>1, <1>5, <1>9 DEF Reads, Concerns, ArmedFor
  <2>2. each[t] = 0 /\ block[t] > 0 /\ work[t] = <<>>
    BY <1>1, <1>9 DEF Reads, PlaceOf
  <2>3. t \in For(AlarmTid(Current(t))')
    BY <1>3, <1>4, <1>9, <2>1 DEF Reads
  <2>. QED
    BY <1>3, <1>6, <1>9, <2>2, <2>3 DEF Reads, PlaceOf
<1>10. CASE Scans(t)
  <2>1. /\ Ranged(t) /\ knobs.low <= each[t] /\ each[t] <= knobs.high /\ seen[t] \in Nat
        /\ t \in For(AlarmTid(Current(t))) /\ block[t] > 0 /\ work[t] = <<>>
    BY <1>1, <1>10 DEF Scans, PlaceOf
  <2>2. each[t] # knobs.high => each[t] + 1 <= knobs.high /\ knobs.low <= each[t] + 1
    <3>1. knobs.high \in Nat /\ knobs.low \in Nat /\ each[t] \in Nat
      BY <1>2, TidFacts, KnobFacts
    <3>. QED
      BY <2>1, <3>1
  <2>3. CASE pc'[t] = "if"
    BY <1>6, <1>10, <2>1, <2>3 DEF Scans, PlaceOf
  <2>4. CASE pc'[t] # "if"
    <3>1. /\ at'[t] = at[t] /\ t \in For(AlarmTid(Current(t))') /\ Ranged(t)'
      BY <1>3, <1>4, <1>10, <2>1, <2>4 DEF Scans
    <3>2. \/ pc'[t] = "disarm" /\ each'[t] = 0
          \/ pc'[t] = "scan" /\ knobs.low <= each'[t] /\ each'[t] <= knobs.high
      BY <1>10, <2>2, <2>4 DEF Scans
    <3>3. at'[t] <= Len(Inserted') /\ seen'[t] \in Nat /\ block'[t] > 0 /\ work'[t] = <<>>
      BY <1>3, <1>10, <2>1, <3>1 DEF Scans
    <3>. QED
      BY <1>3, <1>6, <3>1, <3>2, <3>3 DEF PlaceOf
  <2>. QED
    BY <2>3, <2>4
<1>11. CASE Handles(t)
  <2>1. /\ Current(t) \in Alarms /\ t \in For(AlarmTid(Current(t))) /\ block[t] > 0
        /\ work[t] = <<>> /\ each[t] = 0 /\ seen[t] \in Nat
    BY <1>1, <1>5, <1>11 DEF Handles, PlaceOf
  <2>2. Handler(Current(t)) \in Plans(Current(t)) /\ <<>> \in Plans(Current(t))
    <3>1. \A a, q : CountPlan(a, q) \in SetPlans(a, q)
      BY DEF SetPlans
    <3>2. StartList \in StartPlans
      BY <3>1, Zenon DEF StartList, StartPlans
    <3>3. \/ Current(t) = "skip" \/ Current(t) = "length" \/ Current(t) = "uLength"
          \/ Current(t) = "period" \/ Current(t) = "uSkip"
      BY <2>1 DEF Alarms
    <3>4. <<>> \in StartPlans
      BY Zenon DEF StartPlans
    <3>5. \A a : <<>> \in SamplePlans(a)
                 /\ CountPlan("period", <<Task("sample", a)>>) \in SamplePlans(a)
      BY <3>1, <3>4, Zenon DEF SamplePlans
    <3>6. CASE Current(t) = "skip" \/ Current(t) = "length" \/ Current(t) = "uLength"
      BY <3>2, <3>4, <3>6, FirstPlans DEF Plans, EndPlans
    <3>7. CASE Current(t) = "period" \/ Current(t) = "uSkip"
      BY <3>5, <3>7, FirstPlans DEF Plans
    <3>. QED
      BY <3>3, <3>6, <3>7
  <2>3. work'[t] \in Plans(Current(t))
    BY <1>11, <2>1, <2>2 DEF Handles
  <2>4. work'[t] \in Plans(Current(t))' /\ t \in For(AlarmTid(Current(t))')
    BY <1>3, <1>4, <1>11, <2>1, <2>3 DEF Handles
  <2>. QED
    BY <1>3, <1>6, <1>11, <2>1, <2>4 DEF Handles, PlaceOf
<1>12. CASE Returns(t)
  <2>1. each[t] = 0
    BY <1>1, <1>12 DEF Returns, PlaceOf, Looping
  <2>. QED
    BY <1>1, <1>6, <1>12, <2>1 DEF Returns, PlaceOf
<1>13. CASE Begins(t)
  <2>1. StartList \in StartPlans
    BY Zenon DEF StartList, StartPlans, SetPlans
  <2>2. each[t] = 0 /\ block[t] > 0 /\ seen[t] \in Nat
    BY <1>1, <1>13 DEF Begins, PlaceOf
  <2>. QED
    BY <1>2, <1>3, <1>6, <1>13, <2>1, <2>2 DEF Begins, PlaceOf
<1>14. CASE Executes(t)
  BY <1>1, <1>3, <1>6, <1>14 DEF Executes, PlaceOf
<1>15. CASE Comes(t)
  BY <1>1, <1>6, <1>15 DEF Comes, PlaceOf
<1>16. CASE Leaves(t)
  BY <1>1, <1>6, <1>16 DEF Leaves, PlaceOf
<1>. QED
  BY <1>7, <1>8, <1>9, <1>10, <1>11, <1>12, <1>13, <1>14, <1>15, <1>16

\* A count is written back, or an alarm is disarmed.
LEMMA WritePlaces ==
  ASSUME CallInv, NEW t \in Threads, Own(t), OtherAlarms(t), Stores(t) \/ Disarms(t)
  PROVE  HereTypes(t) /\ PlaceOf(t)' /\ ArmedFor'
<1>1. CallTypes /\ PlaceOf(t) /\ ArmedFor
  BY DEF CallInv
<1>2. /\ knobs \in Knobs /\ Len(Inserted) \in Nat /\ at[t] \in Nat /\ at[t] >= 1
      /\ at[t] <= Len(Inserted) /\ block[t] \in 0 .. MaxBlock /\ block[t] \in Nat
      /\ seen[t] \in Int /\ each[t] \in Threads /\ work[t] \in Seq(Tasks)
      /\ executed[t] \in Nat /\ log[t] \in Seq(LogEntries) /\ since \in [Threads -> ArmedEntries]
      /\ _first \in BOOLEAN /\ _skip_active \in BOOLEAN /\ _sample_count \in Nat
  <2>1. at[t] <= Len(Inserted)
    BY DEF Stores, Disarms
  <2>. QED
    BY <1>1, <2>1, InsertedFacts, ControllerAssumption DEF CallTypes
<1>3. /\ Inserted' = Inserted /\ knobs' = knobs /\ \A a : AlarmTid(a)' = AlarmTid(a)
  BY KnobFrame DEF Own
<1>4. at'[t] = at[t] => Current(t)' = Current(t) /\ (Ranged(t)' <=> Ranged(t))
  BY <1>3 DEF Current, Ranged
<1>5. OneAlarm(Current(t)) /\ Current(t) \in Alarms /\ alarm \in [Alarms -> AlarmRecords]
  BY <1>1 DEF OtherAlarms, CallTypes
<1>6. ArmedFor'
  <2>1. ASSUME NEW u \in Threads, alarm'[Current(t)].armed[u] PROVE u \in For(AlarmTid(Current(t)))
    BY <1>1, <1>5, <2>1 DEF Stores, Disarms, ArmedFor
  <2>2. ASSUME NEW b \in Alarms, NEW u \in Threads, alarm'[b].armed[u] PROVE u \in For(AlarmTid(b))
    BY <1>1, <1>5, <2>1, <2>2 DEF OneAlarm, ArmedFor
  <2>. QED
    BY <1>3, <2>2 DEF ArmedFor
<1>7. /\ t \in For(AlarmTid(Current(t))) /\ block[t] > 0 /\ work[t] = <<>>
      /\ at'[t] = at[t] => t \in For(AlarmTid(Current(t))')
  BY <1>1, <1>3, <1>4 DEF Stores, Disarms, PlaceOf, InAlarm
<1>8. /\ knobs.low \in Threads /\ knobs.high \in Threads /\ knobs.low \in Nat /\ knobs.high \in Nat
      /\ 0 \in Threads
      /\ knobs.high > 0 => knobs.low <= knobs.high
  <2>1. /\ knobs.low \in Threads /\ knobs.high \in Threads /\ knobs.low \in Nat /\ knobs.high \in Nat
    BY <1>2, KnobFacts, TidFacts
  <2>. QED
    BY <1>2, <2>1, KnobFacts, TidFacts
<1>. HIDE DEF Tasks, LogEntries, ArmedEntries, AlarmRecords, Alarms
<1>9. CASE Stores(t)
  <2>1. \/ Ranged(t) /\ pc'[t] = "scan" /\ at'[t] = at[t] /\ each'[t] = knobs.low
        \/ pc'[t] = "disarm" /\ at'[t] = at[t] /\ each'[t] = 0
        \/ pc'[t] = "if" /\ at'[t] = at[t] + 1 /\ each'[t] = 0
    BY <1>9 DEF Stores
  <2>2. /\ seen'[t] = 0 /\ block'[t] = block[t] /\ work'[t] = work[t] /\ executed'[t] = executed[t]
        /\ log' = log /\ since' = since /\ SameSamples
    BY <1>9 DEF Stores, SameBlock, SameWork
  <2>3. pc'[t] \in PcLabels /\ at'[t] \in 1 .. Len(Inserted) + 2 /\ each'[t] \in Threads
    BY <1>2, <1>8, <2>1 DEF PcLabels
  <2>4. alarm' \in [Alarms -> AlarmRecords] /\ seen'[t] \in Int
    BY <1>5, <2>2 DEF OneAlarm
  <2>5. HereTypes(t)
    BY <1>2, <2>2, <2>3, <2>4 DEF HereTypes, SameSamples
  <2>6. CASE Ranged(t) /\ pc'[t] = "scan" /\ at'[t] = at[t] /\ each'[t] = knobs.low
    <3>1. knobs.high > 0
      BY <2>6 DEF Ranged
    <3>2. Ranged(t)' /\ at'[t] <= Len(Inserted') /\ seen'[t] \in Nat
      BY <1>2, <1>3, <1>4, <2>2, <2>6
    <3>3. knobs.low <= each'[t] /\ each'[t] <= knobs.high
      BY <1>8, <2>6, <3>1
    <3>4. PlaceOf(t)'
      BY <1>3, <1>7, <2>2, <2>6, <3>2, <3>3 DEF PlaceOf, InAlarm
    <3>. QED
      BY <1>6, <2>5, <3>4
  <2>7. CASE pc'[t] # "scan"
    <3>1. PlaceOf(t)'
      BY <1>2, <1>3, <1>7, <2>1, <2>2, <2>7 DEF PlaceOf, InAlarm
    <3>. QED
      BY <1>6, <2>5, <3>1
  <2>. QED
    BY <2>1, <2>6, <2>7
<1>10. CASE Disarms(t)
  <2>1. /\ at'[t] = at[t] /\ block'[t] = block[t] /\ work'[t] = work[t]
        /\ executed'[t] = executed[t] /\ log' = log /\ since' = since /\ SameSamples
        /\ seen'[t] = seen[t] /\ seen[t] \in Nat
    BY <1>1, <1>10 DEF Disarms, SameBlock, SameWork, PlaceOf
  <2>2. \/ pc'[t] = "then" /\ each'[t] = 0
        \/ pc'[t] = "disarm" /\ each'[t] \in Threads /\ Ranged(t)
    <3>1. TurnOf(t, DisarmTid(t)) /\ pc'[t] = IF AtEnd(t, DisarmTid(t)) THEN "then" ELSE "disarm"
      BY <1>10 DEF Disarms
    <3>2. CASE AtEnd(t, DisarmTid(t))
      BY <3>1, <3>2 DEF TurnOf
    <3>3. CASE ~ AtEnd(t, DisarmTid(t))
      BY <3>1, <3>3, TidFacts DEF TurnOf, DisarmTid
    <3>. QED
      BY <3>2, <3>3
  <2>3. pc'[t] \in PcLabels /\ at'[t] \in 1 .. Len(Inserted) + 2 /\ each'[t] \in Threads
    BY <1>2, <1>8, <2>1, <2>2 DEF PcLabels
  <2>4. alarm' \in [Alarms -> AlarmRecords]
    BY <1>5 DEF OneAlarm
  <2>5. HereTypes(t)
    BY <1>2, <2>1, <2>3, <2>4 DEF HereTypes, SameSamples
  <2>6. PlaceOf(t)'
    BY <1>2, <1>3, <1>4, <1>7, <2>1, <2>2 DEF PlaceOf, InAlarm
  <2>. QED
    BY <1>6, <2>5, <2>6
<1>. QED
  BY <1>9, <1>10

\* A step keeps the types, and its thread at a place of the code.
LEMMA CallStep ==
  ASSUME CallInv, NEW t \in Threads, ControlStep(t)
  PROVE  CallTypes' /\ PlaceOf(t)' /\ ArmedFor'
<1>1. stage = "run" /\ Own(t) /\ Moved(t) /\ OtherAlarms(t) /\ (~ Handles(t) => stage' = "run")
  BY Moves
<1>2. stage' \in {"run", "crashed", "done"}
  BY <1>1 DEF Handles
<1>3. CASE Works(t)
  <2>1. HandlerStep(t)
    BY <1>3 DEF Works
  <2>2. /\ WorkPlace(t) /\ alarm' \in [Alarms -> AlarmRecords] /\ ArmedFor'
    BY <2>1, WorkStep, WorkAlarms
  <2>3. /\ knobs \in Knobs /\ Len(Inserted) \in Nat /\ PlaceOf(t) /\ at[t] \in 1 .. Len(Inserted) + 2
        /\ pc[t] \in PcLabels /\ block[t] \in 0 .. MaxBlock
        /\ executed[t] \in Nat /\ log \in [Threads -> Seq(LogEntries)] /\ _first \in BOOLEAN
    BY InsertedFacts DEF CallInv, CallTypes
  <2>4. /\ work' \in [Threads -> Seq(Tasks)] /\ each' \in [Threads -> Threads]
        /\ seen' \in [Threads -> Int] /\ since' \in [Threads -> ArmedEntries]
        /\ _sample_count' \in Nat /\ _skip_active' \in BOOLEAN
        /\ \/ log' = log
           \/ \E e \in {"start", "stop", "skipped"} :
                log' = [log EXCEPT ![t] = Append(@, Event(t, e))]
    BY <2>1, WorkFrame
  <2>5. /\ pc[t] = "work" /\ pc'[t] = "work" /\ at'[t] = at[t] /\ block'[t] = block[t]
        /\ executed'[t] = executed[t] /\ _first' = _first /\ knobs' = knobs
    BY <1>1, <1>3 DEF Works, From, Own
  <2>. HIDE DEF Tasks, PcLabels, ArmedEntries
  <2>6. log'[t] \in Seq(LogEntries)
    <3>1. block[t] \in Nat
      BY <2>3, ControllerAssumption
    <3>2. \A e \in {"start", "stop", "skipped"} : Event(t, e) \in LogEntries
      BY <2>3, <3>1 DEF Event, LogEntries
    <3>. HIDE DEF LogEntries
    <3>3. ASSUME NEW e \in {"start", "stop", "skipped"},
                 log' = [log EXCEPT ![t] = Append(@, Event(t, e))]
          PROVE  log'[t] \in Seq(LogEntries)
      <4>1. PICK x \in LogEntries : x = Event(t, e)
        BY <3>2
      <4>2. log'[t] = Append(log[t], x) /\ log[t] \in Seq(LogEntries)
        BY <2>3, <3>3, <4>1
      <4>. QED
        BY <4>2
    <3>. QED
      BY <2>3, <2>4, <3>3
  <2>7. HereTypes(t)
    BY <2>2, <2>3, <2>4, <2>5, <2>6 DEF HereTypes
  <2>8. PlaceOf(t)'
    <3>1. /\ Inserted' = Inserted /\ InitActive' = InitActive /\ StartPlans' = StartPlans
          /\ \A a : AlarmTid(a)' = AlarmTid(a) /\ Plans(a)' = Plans(a)
      BY <2>5, KnobFrame
    <3>2. Current(t)' = Current(t)
      BY <2>5, <3>1 DEF Current
    <3>3. /\ IF at[t] <= Len(Inserted) THEN t \in For(AlarmTid(Current(t)))
             ELSE at[t] = Len(Inserted) + 1 /\ InitActive /\ ~ _first
          /\ block[t] > 0
      BY <2>3, <2>5 DEF PlaceOf
    <3>. QED
      BY <2>2, <2>5, <3>1, <3>2, <3>3 DEF PlaceOf, InAlarm, WorkPlace
  <2>. QED
    BY <1>1, <1>2, <2>2, <2>7, <2>8, OwnTypes
<1>4. CASE Stores(t) \/ Disarms(t)
  BY <1>1, <1>2, <1>4, WritePlaces, OwnTypes
<1>5. CASE Enters(t) \/ Skips(t) \/ Reads(t) \/ Scans(t) \/ Handles(t) \/ Returns(t)
             \/ Begins(t) \/ Executes(t) \/ Comes(t) \/ Leaves(t)
  <2>1. HereTypes(t)
    BY <1>5, PlainTypes
  <2>. QED
    BY <1>1, <1>2, <1>5, <2>1, PlainPlaces, OwnTypes
<1>. QED
  BY <1>1, <1>3, <1>4, <1>5 DEF Moved

\* The alarm of the first interval is set, the others are not.
LEMMA InitAlarms ==
  ASSUME ControlInit, NEW a \in Alarms
  PROVE  /\ alarm[a] \in AlarmRecords
         /\ a \notin FirstAlarms => alarm[a] = ALARM_ICOUNT
         /\ a \in FirstAlarms =>
              /\ alarm[a].handler /\ alarm[a].tid = AlarmTid(a)
              /\ \A t \in Threads : /\ alarm[a].armed[t] <=> t \in For(AlarmTid(a))
                                    /\ t \in For(AlarmTid(a)) => alarm[a].count[t] = AlarmCount(a)
<1>. USE DEF ControlInit
<1>1. ALARM_ICOUNT \in AlarmRecords
  BY ThreadIdAssumption DEF ALARM_ICOUNT, AlarmRecords, Tids, Threads
<1>2. CASE a \notin FirstAlarms
  <2>1. alarm[a] = ALARM_ICOUNT
    BY <1>2 DEF Activate
  <2>. QED
    BY <1>1, <1>2, <2>1
<1>3. CASE a \in FirstAlarms
  <2>1. PICK d \in Tids : d = AlarmTid(a)
    BY AlarmArguments
  <2>2. PICK n \in Int : n = AlarmCount(a)
    BY AlarmArguments
  <2>3. PICK r : r = [tid |-> d, count |-> [t \in Threads |-> IF t \in For(d) THEN n ELSE 0],
                      armed |-> [t \in Threads |-> IF t \in For(d) THEN TRUE ELSE FALSE],
                      handler |-> TRUE, lock |-> FALSE]
    OBVIOUS
  <2>4. alarm[a] = r
    <3>1. alarm[a] = [SetArmed(SetCount(ALARM_ICOUNT, d, n), d, TRUE) EXCEPT !.handler = TRUE]
      BY <1>3, <2>1, <2>2, Zenon DEF Activate
    <3>2. PICK c : c = SetCount(ALARM_ICOUNT, d, n)
      OBVIOUS
    <3>3. c = [tid |-> d, count |-> [t \in Threads |-> IF t \in For(d) THEN n ELSE 0],
               armed |-> [t \in Threads |-> FALSE], handler |-> FALSE, lock |-> FALSE]
      BY <3>2 DEF SetCount, ALARM_ICOUNT
    <3>4. PICK b : b = SetArmed(c, d, TRUE)
      OBVIOUS
    <3>5. b = [tid |-> d, count |-> [t \in Threads |-> IF t \in For(d) THEN n ELSE 0],
               armed |-> [t \in Threads |-> IF t \in For(d) THEN TRUE ELSE FALSE],
               handler |-> FALSE, lock |-> FALSE]
      BY <3>3, <3>4 DEF SetArmed
    <3>6. alarm[a] = [b EXCEPT !.handler = TRUE]
      BY <3>1, <3>2, <3>4
    <3>. QED
      BY <2>3, <3>5, <3>6
  <2>5. r \in AlarmRecords
    BY <2>3 DEF AlarmRecords
  <2>6. /\ r.handler /\ r.tid = d
        /\ \A t \in Threads : (r.armed[t] <=> t \in For(d)) /\ (t \in For(d) => r.count[t] = n)
    BY <2>3
  <2>. QED
    BY <1>3, <2>1, <2>2, <2>4, <2>5, <2>6, Zenon
<1>. QED
  BY <1>2, <1>3

\* No alarm that is not the first is armed.
LEMMA InitArmed ==
  ASSUME ControlInit, NEW a \in Alarms, NEW t \in Threads, alarm[a].armed[t]
  PROVE  a \in FirstAlarms /\ t \in For(AlarmTid(a))
<1>1. ~ ALARM_ICOUNT.armed[t]
  BY DEF ALARM_ICOUNT
<1>2. a \in FirstAlarms
  BY <1>1, InitAlarms
<1>. QED
  BY <1>2, InitAlarms

\* The program begins with no alarm fired and no thread in a call.
LEMMA InitCallInv == ControlInit => CallInv
<1>. SUFFICES ASSUME ControlInit PROVE CallInv
  OBVIOUS
<1>1. alarm \in [Alarms -> AlarmRecords]
  <2>1. \A a \in Alarms : alarm[a] \in AlarmRecords
    BY InitAlarms
  <2>2. alarm = [a \in Alarms |-> alarm[a]]
    BY DEF ControlInit, Activate
  <2>. HIDE DEF Alarms, AlarmRecords
  <2>. QED
    BY <2>1, <2>2
<1>2. ArmedFor
  BY InitArmed DEF ArmedFor
<1>. USE DEF ControlInit
<1>3. ThreadTypeOK
  BY ThreadAssumption DEF ThreadInit, ThreadTypeOK, TlsStates
<1>4. Len(Inserted) \in Nat /\ 0 \in Threads
  BY InsertedFacts, TidFacts
<1>5. /\ work \in [Threads -> Seq(Tasks)] /\ log \in [Threads -> Seq(LogEntries)]
  OBVIOUS
<1>6. since \in [Threads -> ArmedEntries]
  BY DEF NotArmed, ArmedEntries
<1>7. CallTypes
  BY <1>1, <1>3, <1>4, <1>5, <1>6, ControllerAssumption DEF CallTypes, PcLabels
<1>8. \A t \in Threads : PlaceOf(t)
  BY DEF PlaceOf, InAlarm
<1>. QED
  BY <1>2, <1>7, <1>8 DEF CallInv

\* The invariant holds always.
LEMMA NextCallInv == CallInv /\ [ControlNext]_controlVars => CallInv'
<1>. SUFFICES ASSUME CallInv, [ControlNext]_controlVars PROVE CallInv'
  OBVIOUS
<1>1. CallTypes /\ ArmedFor /\ \A u \in Threads : PlaceOf(u)
  BY DEF CallInv
<1>2. ASSUME NEW t \in Threads, ControlStep(t) PROVE CallInv'
  <2>1. CallTypes' /\ PlaceOf(t)' /\ ArmedFor'
    BY <1>2, CallStep
  <2>2. Own(t) /\ Moved(t) /\ knobs' = knobs
    BY <1>2, Moves DEF Own
  <2>3. _first' => _first
    BY <2>2 DEF Moved, Enters, Skips, Reads, Stores, Scans, Disarms, Handles, Works, Returns,
                Begins, Executes, Comes, Leaves, SameSamples
  <2>4. ASSUME NEW u \in Threads PROVE PlaceOf(u)'
    <3>1. u # t => Frame(u)
      BY <1>1, <2>2, FrameOf
    <3>. QED
      BY <1>1, <2>1, <2>2, <2>3, <3>1, PlaceFrame
  <2>. QED
    BY <2>1, <2>4 DEF CallInv
<1>3. ASSUME UNCHANGED <<knobs, _first, _skip_active, _sample_count, alarm, callVars, historyVars>>,
             ThreadTypeOK', ev' \in {"none", "start", "stop"}, stage' \in {"run", "crashed", "done"}
      PROVE  CallInv'
  <2>1. Inserted' = Inserted /\ \A a : AlarmTid(a)' = AlarmTid(a)
    BY <1>3, KnobFrame
  <2>2. CallTypes' /\ ArmedFor'
    BY <1>1, <1>3, <2>1 DEF CallTypes, ArmedFor, callVars, historyVars
  <2>3. ASSUME NEW u \in Threads PROVE PlaceOf(u)'
    BY <1>1, <1>3, PlaceFrame DEF Frame, callVars, historyVars
  <2>. QED
    BY <2>2, <2>3 DEF CallInv
<1>4. CASE ControlFini
  <2>1. ThreadTypeOK'
    BY <1>1, <1>4 DEF CallTypes, ControlFini, ThreadEnd, ThreadTypeOK, TlsStates
  <2>. QED
    BY <1>1, <1>3, <1>4, <2>1 DEF ControlFini, CallTypes
<1>5. CASE UNCHANGED controlVars
  BY <1>1, <1>3, <1>5 DEF controlVars, setVars, threadVars, ThreadTypeOK, CallTypes
<1>. QED
  BY <1>2, <1>4, <1>5 DEF ControlNext

\* The types, and where the threads are among the calls, in all states.
THEOREM CallInvariant == ControlSpec => []CallInv
<1>. QED
  BY InitCallInv, NextCallInv, PTL DEF ControlSpec

\* The events of a thread after one has been sent to it.
LEMMA AppendEvents ==
  ASSUME CallTypes, NEW t \in Threads, NEW e \in {"start", "stop", "skipped"},
         log' = [log EXCEPT ![t] = Append(@, Event(t, e))], NEW kinds
  PROVE  LET n == Len(log[t]) + 1
         IN  /\ Events(t, kinds)' = Events(t, kinds) \cup (IF e \in kinds THEN {n} ELSE {})
             /\ \A i \in Events(t, kinds) : log'[t][i] = log[t][i] /\ i # n
             /\ log'[t][n] = Event(t, e)
<1>1. log \in [Threads -> Seq(LogEntries)]
  BY DEF CallTypes, LogEntries
<1>. DEFINE n == Len(log[t]) + 1
            x == Event(t, e)
            q == log[t]
            r == log'[t]
<1>2. r = Append(q, x) /\ q \in Seq(LogEntries)
  BY <1>1
<1>3. x.ev = e /\ x \in LogEntries
  BY ControllerAssumption DEF CallTypes, Event, LogEntries
<1>. HIDE DEF x, q, r, LogEntries
<1>4. /\ n \in Nat /\ n >= 1 /\ DOMAIN q = 1 .. n - 1 /\ DOMAIN r = 1 .. n
      /\ r[n] = x /\ \A i \in 1 .. n - 1 : r[i] = q[i]
  <2>1. n = Len(q) + 1 /\ r = Append(q, x) /\ q \in Seq(LogEntries) /\ x \in LogEntries
    BY <1>2, <1>3 DEF q
  <2>. HIDE DEF n
  <2>2. Len(q) \in Nat /\ DOMAIN q = 1 .. Len(q)
    BY <2>1
  <2>3. Len(r) = Len(q) + 1 /\ DOMAIN r = 1 .. Len(r)
    BY <2>1
  <2>4. r[Len(q) + 1] = x /\ \A i \in 1 .. Len(q) : r[i] = q[i]
    BY <2>1
  <2>. QED
    BY <2>1, <2>2, <2>3, <2>4
<1>. HIDE DEF n
<1>5. Events(t, kinds) = {i \in DOMAIN q : q[i].ev \in kinds}
  BY DEF Events, q
<1>6. Events(t, kinds)' = {i \in DOMAIN r : r[i].ev \in kinds}
  BY DEF Events, r
<1>7. \A i : i \in Events(t, kinds)' <=> i \in Events(t, kinds) \/ (i = n /\ e \in kinds)
  <2>1. \A i : i \in 1 .. n <=> i \in 1 .. n - 1 \/ i = n
    BY <1>4
  <2>2. n \notin 1 .. n - 1
    BY <1>4
  <2>3. \A i : i \in Events(t, kinds) <=> i \in 1 .. n - 1 /\ q[i].ev \in kinds
    BY <1>4, <1>5
  <2>4. \A i : i \in Events(t, kinds)' <=> i \in 1 .. n /\ r[i].ev \in kinds
    BY <1>4, <1>6
  <2>. QED
    BY <1>3, <1>4, <2>1, <2>2, <2>3, <2>4, Zenon
<1>8. Events(t, kinds)' = Events(t, kinds) \cup (IF e \in kinds THEN {n} ELSE {})
  BY <1>7
<1>9. \A i \in Events(t, kinds) : r[i] = q[i] /\ i # n
  BY <1>4, <1>5
<1>. QED
  BY <1>4, <1>8, <1>9 DEF n, q, r, x

\* No step of the other threads changes them.
LEMMA SameEvents ==
  ASSUME NEW u, log'[u] = log[u], NEW kinds
  PROVE  Events(u, kinds)' = Events(u, kinds)
BY DEF Events
-----------------------------------------------------------------------------
(***************************************************************************)
(* The first thread.                                                       *)
(***************************************************************************)

\* The first thread is alone until it has executed a block.
AloneInv ==
  /\ live # {} => gThreadNum > 0
  /\ (\A u \in Threads : executed[u] = 0) =>
       live \subseteq {0} /\ \A u \in Threads : u # 0 => pc[u] = "out"

\* The first call of CONTROL_INIT is the first thread's, before its first block.
FirstInv ==
  InitActive =>
    /\ _first => \A u \in Threads : executed[u] = 0 /\ pc[u] # "body"
    /\ \A t \in Threads : pc[t] = "work" /\ at[t] > Len(Inserted) =>
         \A u \in Threads : executed[u] = 0

\* The steps that write no alarm, list or log.
Plain(t) ==
  Enters(t) \/ Skips(t) \/ Reads(t) \/ Scans(t) \/ Returns(t) \/ Executes(t) \/ Comes(t) \/ Leaves(t)

\* What a step leaves alone.
LEMMA Others ==
  ASSUME CallInv, NEW t \in Threads, ControlStep(t)
  PROVE  /\ \A u \in Threads \ {t} :
              /\ Frame(u)
              /\ \A kinds : Events(u, kinds)' = Events(u, kinds)
              /\ Current(u)' = Current(u)
         /\ Inserted' = Inserted /\ InitActive' = InitActive /\ Starters' = Starters
         /\ knobs' = knobs
         /\ \A a : AlarmTid(a)' = AlarmTid(a) /\ AlarmCount(a)' = AlarmCount(a)
<1>1. Own(t) /\ knobs' = knobs /\ CallTypes
  BY Moves DEF Own, CallInv
<1>2. Inserted' = Inserted
  BY <1>1, KnobFrame
<1>3. ASSUME NEW u \in Threads \ {t}
      PROVE  /\ Frame(u) /\ Current(u)' = Current(u)
             /\ \A kinds : Events(u, kinds)' = Events(u, kinds)
  <2>1. Frame(u)
    BY <1>1, FrameOf
  <2>. QED
    BY <1>2, <2>1, SameEvents DEF Frame, Current
<1>. QED
  BY <1>1, <1>3, KnobFrame

\* The first thread is alone, whatever a thread does.
LEMMA AloneStep ==
  ASSUME CallInv, AloneInv, NEW t \in Threads, ControlStep(t)
  PROVE  AloneInv'
<1>1. /\ \A u \in Threads \ {t} : executed'[u] = executed[u] /\ pc'[u] = pc[u]
      /\ executed \in [Threads -> Nat] /\ gThreadNum \in Nat /\ block[t] \in Nat
      /\ pc[t] # "out" => block[t] > 0
  <2>1. \A u \in Threads \ {t} : executed'[u] = executed[u] /\ pc'[u] = pc[u]
    BY Others DEF Frame
  <2>2. executed \in [Threads -> Nat] /\ gThreadNum \in Nat /\ block[t] \in Nat
    BY ControllerAssumption, ThreadAssumption DEF CallInv, CallTypes, ThreadTypeOK
  <2>3. pc[t] # "out" => block[t] > 0
    BY DEF CallInv, PlaceOf
  <2>. QED
    BY <2>1, <2>2, <2>3
<1>0. Moved(t)
  BY Moves
<1>. USE DEF Moved, From, SameBlock, SameThreads
<1>2. live' # {} => gThreadNum' > 0
  <2>1. SameThreads \/ Comes(t)
    BY <1>0 DEF Enters, Skips, Reads, Stores, Scans, Disarms, Handles, Works, Returns, Begins,
                Executes, Leaves
  <2>. QED
    BY <1>1, <2>1 DEF AloneInv, Comes
<1>3. ASSUME \A u \in Threads : executed'[u] = 0
      PROVE  live' \subseteq {0} /\ \A u \in Threads : u # 0 => pc'[u] = "out"
  <2>1. ~ Leaves(t)
    <3>1. Leaves(t) => executed'[t] > 0
      BY <1>1 DEF Leaves
    <3>. QED
      BY <1>3, <3>1
  <2>2. executed'[t] = executed[t]
    BY <1>0, <2>1 DEF Enters, Skips, Reads, Stores, Scans, Disarms, Handles, Works, Returns, Begins,
                      Executes, Comes
  <2>3. \A u \in Threads : executed[u] = 0
    BY <1>1, <1>3, <2>2
  <2>4. live \subseteq {0} /\ \A u \in Threads : u # 0 => pc[u] = "out"
    BY <2>3 DEF AloneInv
  <2>5. CASE Comes(t)
    <3>1. \A u \in Threads : u # 0 => pc'[u] = "out"
      BY <1>1, <2>4, <2>5 DEF Comes
    <3>2. live' \subseteq {0}
      <4>1. CASE live' = live \ {t}
        BY <2>4, <4>1
      <4>2. CASE /\ MayStart(t) /\ live' = live \cup {t}
                 /\ gThreadNum > 0 => \E u \in live : executed[u] > 0
        <5>1. live \subseteq Threads
          BY DEF CallInv, CallTypes, ThreadTypeOK
        <5>2. live = {}
          BY <1>1, <2>3, <4>2, <5>1 DEF AloneInv
        <5>3. t = 0
          BY <4>2, <5>2, ThreadIdAssumption DEF MayStart, Threads
        <5>. QED
          BY <4>2, <5>2, <5>3
      <4>. QED
        BY <2>5, <4>1, <4>2 DEF Comes
    <3>. QED
      BY <3>1, <3>2
  <2>6. CASE ~ Comes(t)
    <3>1. live' = live
      BY <1>0, <2>1, <2>6
         DEF Enters, Skips, Reads, Stores, Scans, Disarms, Handles, Works, Returns, Begins, Executes
    <3>2. pc[t] = "out" => t \in live
      BY <1>0, <2>1, <2>6
         DEF Enters, Skips, Reads, Stores, Scans, Disarms, Handles, Works, Returns, Begins, Executes
    <3>3. t = 0
      BY <2>4, <3>2
    <3>. QED
      BY <1>1, <2>4, <3>1, <3>3
  <2>. QED
    BY <2>5, <2>6
<1>. QED
  BY <1>2, <1>3 DEF AloneInv

\* It starts its interval before it has executed any.
LEMMA FirstStep ==
  ASSUME CallInv, AloneInv, FirstInv, NEW t \in Threads, ControlStep(t)
  PROVE  FirstInv'
<1>0. Moved(t)
  BY Moves
<1>. USE DEF Moved, From, SameBlock, SameSamples
<1>1. /\ Inserted' = Inserted /\ InitActive' = InitActive
      /\ _first' => _first
      /\ \A u \in Threads \ {t} : /\ executed'[u] = executed[u] /\ pc'[u] = pc[u]
                                  /\ at'[u] = at[u]
  <2>1. _first' => _first
    BY <1>0 DEF Enters, Skips, Reads, Stores, Scans, Disarms, Handles, Works, Returns, Begins,
                Executes, Comes, Leaves
  <2>. QED
    BY <2>1, Others DEF Frame
<1>. SUFFICES ASSUME InitActive
     PROVE  /\ _first' => \A u \in Threads : executed'[u] = 0 /\ pc'[u] # "body"
            /\ \A v \in Threads : pc'[v] = "work" /\ at'[v] > Len(Inserted) =>
                 \A u \in Threads : executed'[u] = 0
  BY <1>1 DEF FirstInv
<1>2. /\ _first => \A u \in Threads : executed[u] = 0 /\ pc[u] # "body"
      /\ \A v \in Threads : pc[v] = "work" /\ at[v] > Len(Inserted) =>
           \A u \in Threads : executed[u] = 0
  BY DEF FirstInv
<1>3. CASE Leaves(t)
  <2>1. pc[t] = "body" /\ pc'[t] = "out" /\ SameAlarms
    BY <1>3 DEF Leaves
  <2>2. ~ _first'
    BY <1>1, <1>2, <2>1
  <2>3. ASSUME NEW v \in Threads, pc'[v] = "work", at'[v] > Len(Inserted)
        PROVE  FALSE
    <3>1. v # t /\ pc[v] = "work" /\ at[v] > Len(Inserted)
      BY <1>1, <2>1, <2>3
    <3>2. \A u \in Threads : u # 0 => pc[u] = "out"
      BY <1>2, <3>1 DEF AloneInv
    <3>3. v = 0 /\ t = 0
      BY <2>1, <3>1, <3>2
    <3>. QED
      BY <3>1, <3>3
  <2>. QED
    BY <2>2, <2>3
<1>4. CASE ~ Leaves(t)
  <2>1. executed'[t] = executed[t]
    BY <1>0, <1>4
       DEF Enters, Skips, Reads, Stores, Scans, Disarms, Handles, Works, Returns, Begins, Executes,
           Comes
  <2>2. \A u \in Threads : executed'[u] = executed[u]
    BY <1>1, <2>1
  <2>3. pc'[t] = "body" => ~ _first'
    BY <1>0, <1>1, <1>4
       DEF Enters, Skips, Reads, Stores, Scans, Disarms, Handles, Works, Returns, Begins, Executes,
           Comes
  <2>4. pc'[t] = "work" /\ at'[t] > Len(Inserted) =>
          _first \/ (pc[t] = "work" /\ at[t] > Len(Inserted))
    <3>1. pc'[t] = "work" => Handles(t) \/ Works(t) \/ Begins(t)
      BY <1>0, <1>4
         DEF Enters, Skips, Reads, Stores, Scans, Disarms, Returns, Executes, Comes
    <3>2. Len(Inserted) \in Nat /\ at[t] \in Nat
      BY InsertedFacts DEF CallInv, CallTypes
    <3>. QED
      BY <3>1, <3>2 DEF Handles, Works, Begins
  <2>. QED
    BY <1>1, <1>2, <2>2, <2>3, <2>4
<1>. QED
  BY <1>3, <1>4
-----------------------------------------------------------------------------
(***************************************************************************)
(* The starts: what the alarm of the skip has counted.                     *)
(***************************************************************************)

\* The If call of the alarm at place p has counted the block that t is in.
Counted(t, p) == at[t] > p \/ (at[t] = p /\ pc[t] \in {"scan", "disarm", "then", "work"})

\* The instructions of t that it has counted.
Ran(t, p) == IF Counted(t, p) THEN executed[t] + block[t] ELSE executed[t]

Starts(t) == Events(t, {"start"})
Stops(t)  == Events(t, {"stop"})

\* The alarm of the skip has not fired for t; it has, and the start is to come;
\* the start has come.
SkipBefore(t) ==
  /\ alarm["skip"].armed[t] = TRUE /\ Starts(t) = {}
  /\ alarm["skip"].count[t] = knobs.skip - Ran(t, 1) /\ alarm["skip"].count[t] > 0
  /\ pc[t] = "store" /\ at[t] = 1 => seen[t] = alarm["skip"].count[t]
  /\ ~ (pc[t] \in {"scan", "disarm", "then", "work"} /\ at[t] = 1)

SkipFires(t) ==
  /\ Starts(t) = {} /\ at[t] = 1
  /\ \/ pc[t] = "disarm"
     \/ alarm["skip"].armed[t] = FALSE /\ (pc[t] = "then" \/ (pc[t] = "work" /\ work[t] # <<>>))
  /\ executed[t] < knobs.skip /\ knobs.skip <= executed[t] + block[t]

SkipDone(t) ==
  /\ alarm["skip"].armed[t] = FALSE
  /\ \E i \in Starts(t) : Starts(t) = {i} /\ Within(log[t][i], 0, knobs.skip)
  /\ knobs.skip <= Ran(t, 1)
  /\ at[t] = 1 => pc[t] \notin {"store", "scan", "disarm", "then"} /\ (pc[t] = "work" => work[t] = <<>>)

SkipState(t) == SkipBefore(t) \/ SkipFires(t) \/ SkipDone(t)

SkipInv ==
  knobs.skip > 0 =>
    /\ alarm["skip"].tid = knobs.skipTid
    /\ \A t \in Threads : IF t \in Starters THEN stage = "run" => SkipState(t) ELSE Starts(t) = {}

\* What a step leaves alone that writes no alarm, list or log.
LEMMA PlainFacts ==
  ASSUME NEW t \in Threads, Plain(t)
  PROVE  /\ alarm' = alarm /\ since' = since /\ log' = log /\ work'[t] = work[t]
         /\ ~ Leaves(t) => executed'[t] = executed[t]
         /\ ~ Leaves(t) /\ ~ Enters(t) => block'[t] = block[t]
         /\ _first' = _first /\ _skip_active' = _skip_active /\ _sample_count' = _sample_count
         /\ pc'[t] \notin {"then", "work"}
BY DEF Plain, Enters, Skips, Reads, Scans, Returns, Executes, Comes, Leaves, SameAlarms, SameBlock,
       SameSamples, SameWork, From

\* Without -uniform_* a handler sets the length and starts, or it stops.
LEMMA PlainWorks ==
  ASSUME CallInv, knobs.period = 0, NEW t \in Threads, Works(t)
  PROVE  \/ /\ at[t] > Len(Inserted) \/ Current(t) = "skip"
            /\ \/ knobs.length > 0 /\ SetStep(t, "length", <<StartTask>>)
               \/ NotifyStep(t, "start")
         \/ /\ at[t] <= Len(Inserted) /\ Current(t) = "length"
            /\ NotifyStep(t, "stop")
<1>1. HandlerStep(t) /\ knobs \in Knobs /\ at[t] \in Nat /\ at[t] >= 1
  BY DEF Works, CallInv, CallTypes
<1>2. Len(Inserted) \in Nat
  BY <1>1, InsertedFacts
<1>3. CASE at[t] > Len(Inserted)
  BY <1>1, <1>2, <1>3, StepKinds DEF StartKinds
<1>4. CASE at[t] <= Len(Inserted)
  <2>1. Current(t) = "skip" \/ Current(t) = "length"
    BY <1>1, <1>2, <1>4, AlarmPlaces DEF Current, Alarms
  <2>2. CASE Current(t) = "skip"
    BY <1>1, <1>2, <1>4, <2>2, StepKinds DEF StartKinds
  <2>3. CASE Current(t) = "length"
    BY <1>1, <1>2, <1>4, <2>3, StepKinds
  <2>. QED
    BY <2>1, <2>2, <2>3
<1>. QED
  BY <1>1, <1>2, <1>3, <1>4

\* What a step that sends an event does to the thread's events.
LEMMA NotifyEvents ==
  ASSUME CallInv, NEW t \in Threads, NEW e \in {"start", "stop"}, NotifyStep(t, e)
  PROVE  LET n == Len(log[t]) + 1
         IN  /\ Starts(t)' = IF e = "start" THEN Starts(t) \cup {n} ELSE Starts(t)
             /\ Stops(t)' = IF e = "stop" THEN Stops(t) \cup {n} ELSE Stops(t)
             /\ \A i \in Starts(t) \cup Stops(t) : log'[t][i] = log[t][i]
             /\ log'[t][n].first = executed[t] + 1 /\ log'[t][n].last = executed[t] + block[t]
             /\ work[t] = <<Task("notify", e)>> /\ work'[t] = <<>>
             /\ alarm' = alarm /\ since' = since /\ seen'[t] = seen[t]
<1>. DEFINE n == Len(log[t]) + 1
<1>1. CallTypes /\ work \in [Threads -> Seq(Tasks)]
  BY DEF CallInv, CallTypes
<1>2. log' = [log EXCEPT ![t] = Append(@, Event(t, e))]
  BY DEF NotifyStep
<1>. HIDE DEF n
<1>3. /\ Events(t, {"start"})' =
           Events(t, {"start"}) \cup (IF e \in {"start"} THEN {n} ELSE {})
      /\ \A i \in Events(t, {"start"}) : log'[t][i] = log[t][i]
      /\ log'[t][n] = Event(t, e)
  BY <1>1, <1>2, AppendEvents, Zenon DEF n
<1>4. /\ Events(t, {"stop"})' =
           Events(t, {"stop"}) \cup (IF e \in {"stop"} THEN {n} ELSE {})
      /\ \A i \in Events(t, {"stop"}) : log'[t][i] = log[t][i]
  BY <1>1, <1>2, AppendEvents, Zenon DEF n
<1>5. log'[t][n].first = executed[t] + 1 /\ log'[t][n].last = executed[t] + block[t]
  BY <1>3 DEF Event
<1>6. /\ work[t] = <<Task("notify", e)>> /\ work'[t] = <<>>
      /\ alarm' = alarm /\ since' = since /\ seen'[t] = seen[t]
  BY <1>1 DEF NotifyStep
<1>7. Starts(t)' = IF e = "start" THEN Starts(t) \cup {n} ELSE Starts(t)
  BY <1>3 DEF Starts
<1>8. Stops(t)' = IF e = "stop" THEN Stops(t) \cup {n} ELSE Stops(t)
  BY <1>4 DEF Stops
<1>. QED
  BY <1>3, <1>4, <1>5, <1>6, <1>7, <1>8 DEF Starts, Stops, n

\* While an alarm is being set there is more to do.
LEMMA SetLists ==
  ASSUME CallTypes, NEW t \in Threads, NEW a \in Alarms, NEW x \in Tasks, SetStep(t, a, <<x>>)
  PROVE  /\ work[t] # <<>> /\ work'[t] # <<>>
         /\ Counts(t, a, <<x>>) \/ Arms(t, a, <<x>>) \/ Installs(t, a, <<x>>)
         /\ \A b \in Alarms \ {a} : alarm'[b] = alarm[b]
         /\ log' = log /\ executed'[t] = executed[t] /\ seen'[t] = seen[t]
<1>1. <<x>> \in Seq(Tasks) /\ <<x>> # <<>>
  <2>. HIDE DEF Tasks
  <2>. QED
    BY ListFacts
<1>2. /\ Counts(t, a, <<x>>) \/ Arms(t, a, <<x>>) \/ Installs(t, a, <<x>>)
      /\ OneAlarm(a) /\ NothingElse(t)
  BY <1>1, SetCases
<1>3. /\ CountPlan(a, <<x>>) # <<>> /\ ArmPlan(a, <<x>>) # <<>> /\ StorePlan(a, <<x>>) # <<>>
  BY <1>1, PlanFacts
<1>4. work[t] # <<>> /\ work'[t] # <<>>
  BY <1>1, <1>2, <1>3 DEF Counts, Arms, Installs
<1>. QED
  BY <1>2, <1>4 DEF OneAlarm, NothingElse

\* A thread whose state does not change keeps its part of SkipInv.
LEMMA SkipFrame ==
  ASSUME NEW u \in Threads, Frame(u), knobs' = knobs, Starts(u)' = Starts(u),
         alarm'["skip"].armed[u] = alarm["skip"].armed[u],
         alarm'["skip"].count[u] = alarm["skip"].count[u], SkipState(u)
  PROVE  SkipState(u)'
<1>1. Ran(u, 1)' = Ran(u, 1)
  BY DEF Ran, Counted, Frame
<1>2. SkipBefore(u) => SkipBefore(u)'
  BY <1>1 DEF SkipBefore, Frame
<1>3. SkipFires(u) => SkipFires(u)'
  BY DEF SkipFires, Frame
<1>4. SkipDone(u) => SkipDone(u)'
  BY <1>1 DEF SkipDone, Frame, Within
<1>. QED
  BY <1>2, <1>3, <1>4 DEF SkipState

\* What a step does to the alarm of the skip.
LEMMA SkipAlarms ==
  ASSUME CallInv, knobs.skip > 0, NEW t \in Threads, ControlStep(t)
  PROVE  \/ alarm'["skip"] = alarm["skip"]
         \/ /\ at[t] = 1 /\ ~ Ranged(t) /\ alarm'["skip"].tid = alarm["skip"].tid
            /\ \/ /\ Stores(t) /\ alarm'["skip"].armed = alarm["skip"].armed
                  /\ alarm'["skip"].count[t] = seen[t] - block[t]
                  /\ \A u \in Threads \ {t} : alarm'["skip"].count[u] = alarm["skip"].count[u]
               \/ /\ Disarms(t) /\ alarm'["skip"].count = alarm["skip"].count
                  /\ pc'[t] = "then" /\ alarm'["skip"].armed[t] = FALSE
                  /\ \A u \in Threads \ {t} : alarm'["skip"].armed[u] = alarm["skip"].armed[u]
<1>1. knobs \in Knobs /\ knobs.period = 0 /\ at[t] \in Nat /\ at[t] >= 1 /\ Len(Inserted) \in Nat
  <2>1. knobs \in Knobs /\ at[t] \in Nat /\ at[t] >= 1
    BY DEF CallInv, CallTypes
  <2>2. knobs.period = 0
    BY <2>1, KnobFacts
  <2>. QED
    BY <2>1, <2>2, InsertedFacts
<1>2. "skip" \in Alarms /\ "length" \in Alarms /\ CallTypes
  BY DEF Alarms, CallInv
<1>0. Moved(t) /\ OtherAlarms(t)
  BY Moves
<1>3. CASE Works(t)
  <2>1. CASE SetStep(t, "length", <<StartTask>>)
    BY <1>2, <2>1, SetLists, TaskTypes
  <2>2. CASE \E e \in {"start", "stop"} : NotifyStep(t, e)
    BY <2>2 DEF NotifyStep
  <2>. QED
    BY <1>1, <1>3, <2>1, <2>2, PlainWorks
<1>4. CASE (Stores(t) \/ Disarms(t)) /\ at[t] # 1
  <2>1. Current(t) # "skip" /\ Current(t) \in Alarms
    <3>1. at[t] \in 1 .. Len(Inserted)
      BY <1>1, <1>4 DEF Stores, Disarms
    <3>. QED
      BY <1>1, <1>4, <3>1, AlarmPlaces DEF Current
  <2>. QED
    BY <1>0, <1>2, <1>4, <2>1 DEF OtherAlarms, OneAlarm
<1>5. at[t] = 1 => Current(t) = "skip" /\ ~ Ranged(t)
  BY <1>1, InsertedFacts DEF Current, Ranged
<1>6. CASE Stores(t) /\ at[t] = 1
  BY <1>5, <1>6 DEF Stores
<1>7. CASE Disarms(t) /\ at[t] = 1
  <2>1. DisarmTid(t) = t /\ t # ALL_THREADS
    BY <1>5, <1>7, TidFacts DEF DisarmTid
  <2>2. Entry(t, t) = t /\ AtEnd(t, t)
    BY <2>1 DEF Entry, AtEnd
  <2>. QED
    BY <1>5, <1>7, <2>1, <2>2 DEF Disarms
<1>8. CASE Plain(t) \/ Handles(t) \/ Begins(t)
  BY <1>8, PlainFacts DEF Handles, Begins, SameAlarms
<1>. QED
  BY <1>0, <1>3, <1>4, <1>6, <1>7, <1>8 DEF Moved, Plain

\* What a thread does at a later alarm, or elsewhere, leaves its skip alone.
LEMMA SkipElsewhere ==
  ASSUME NEW t \in Threads, at[t] \in Nat, at'[t] \in Nat, at[t] > 1, at'[t] > 1, knobs' = knobs,
         alarm'["skip"] = alarm["skip"], Starts(t)' = Starts(t),
         \A i \in Starts(t) : log'[t][i] = log[t][i],
         executed'[t] = executed[t], block'[t] = block[t], SkipState(t)
  PROVE  SkipState(t)'
<1>1. Ran(t, 1)' = Ran(t, 1)
  BY DEF Ran, Counted
<1>2. ~ SkipFires(t)
  BY DEF SkipFires
<1>3. SkipBefore(t) => SkipBefore(t)'
  BY <1>1 DEF SkipBefore
<1>4. SkipDone(t) => SkipDone(t)'
  BY <1>1 DEF SkipDone, Within
<1>. QED
  BY <1>2, <1>3, <1>4 DEF SkipState

\* Each thread that the skip is for waits for its own instructions.
LEMMA SkipOwnStep ==
  ASSUME CallInv, SkipInv, knobs.skip > 0, NEW t \in Threads, ControlStep(t), t \in Starters,
         stage' = "run"
  PROVE  SkipState(t)'
<1>1. /\ knobs \in Knobs /\ knobs.period = 0 /\ knobs.skip \in Nat /\ ~ InitActive
      /\ at[t] \in Nat /\ at[t] >= 1 /\ executed[t] \in Nat /\ block[t] \in Nat
      /\ Len(Inserted) \in Nat /\ Len(Inserted) >= 1 /\ Inserted[1] = "skip"
      /\ "skip" \in Alarms /\ CallTypes /\ alarm["skip"].count[t] \in Int
      /\ alarm["skip"].armed[t] \in BOOLEAN
  <2>1. knobs \in Knobs /\ at[t] \in Nat /\ at[t] >= 1 /\ executed[t] \in Nat /\ block[t] \in Nat
    BY ControllerAssumption DEF CallInv, CallTypes
  <2>2. knobs.period = 0 /\ knobs.skip \in Nat /\ ~ InitActive
    BY <2>1, KnobFacts DEF InitActive
  <2>3. Len(Inserted) \in Nat /\ Len(Inserted) >= 1 /\ Inserted[1] = "skip"
    BY <2>1, <2>2, InsertedFacts DEF NumInserted
  <2>4. "skip" \in Alarms /\ CallTypes
    BY DEF Alarms, CallInv
  <2>5. alarm["skip"].count[t] \in Int /\ alarm["skip"].armed[t] \in BOOLEAN
    BY <2>4 DEF CallTypes, AlarmRecords
  <2>. QED
    BY <2>1, <2>2, <2>3, <2>4, <2>5
<1>0. stage = "run" /\ Moved(t) /\ knobs' = knobs
  BY Moves, Others
<1>2. alarm["skip"].tid = knobs.skipTid /\ SkipState(t)
  BY <1>0 DEF SkipInv
<1>3. knobs.skipTid \in {ALL_THREADS, t}
  BY <1>1, KnobFacts DEF Starters, For, Tids
<1>4. /\ pc[t] = "out" => at[t] = 1
      /\ InAlarm(t) => at[t] <= Len(Inserted)
      /\ pc[t] = "work" => at[t] <= Len(Inserted)
      /\ pc[t] # "work" => work[t] = <<>>
      /\ pc[t] = "body" => at[t] > Len(Inserted)
  BY <1>1 DEF CallInv, PlaceOf
<1>5. at[t] = 1 => Current(t) = "skip"
  BY <1>1 DEF Current
<1>7. log' = log => Starts(t)' = Starts(t) /\ \A i \in Starts(t) : log'[t][i] = log[t][i]
  BY SameEvents DEF Starts
<1>. USE DEF From, SameBlock
<1>8. CASE Plain(t)
  <2>1. alarm' = alarm /\ log' = log /\ work'[t] = work[t] /\ pc'[t] \notin {"then", "work"}
    BY <1>8, PlainFacts
  <2>2. ASSUME SkipBefore(t) PROVE SkipBefore(t)'
    <3>1. Skips(t) => at[t] # 1
      BY <1>2, <1>3, <1>5, <2>2 DEF Skips, Concerns, SkipBefore
    <3>2. Returns(t) => at[t] # 1
      BY <2>2 DEF Returns, SkipBefore
    <3>3. Scans(t) => at[t] # 1 /\ at'[t] # 1
      BY <1>1, <2>2 DEF Scans, SkipBefore
    <3>4. Ran(t, 1)' = Ran(t, 1)
      BY <1>1, <1>4, <1>8, <2>2, <3>1, <3>2, <3>3
         DEF Ran, Counted, Plain, Enters, Skips, Reads, Scans, Returns, Executes, Comes, Leaves,
             SkipBefore
    <3>5. /\ ~ (pc'[t] \in {"scan", "disarm", "then", "work"} /\ at'[t] = 1)
          /\ pc'[t] = "store" /\ at'[t] = 1 => seen'[t] = alarm'["skip"].count[t]
      BY <1>5, <1>8, <2>1, <3>3
         DEF Plain, Enters, Skips, Reads, Scans, Returns, Executes, Comes, Leaves
    <3>. QED
      BY <1>0, <1>7, <2>1, <2>2, <3>4, <3>5 DEF SkipBefore
  <2>3. ~ SkipFires(t)
    BY <1>8 DEF SkipFires, Plain, Enters, Skips, Reads, Scans, Returns, Executes, Comes, Leaves
  <2>4. ASSUME SkipDone(t) PROVE SkipDone(t)'
    <3>1. Reads(t) => at[t] # 1
      BY <1>5, <2>4 DEF Reads, SkipDone, Concerns
    <3>2. Scans(t) => at[t] # 1 /\ at'[t] # 1
      BY <1>1, <2>4 DEF Scans, SkipDone
    <3>3. knobs.skip <= Ran(t, 1)'
      BY <1>1, <1>4, <1>8, <2>4, <3>2
         DEF Ran, Counted, Plain, Enters, Skips, Reads, Scans, Returns, Executes, Comes, Leaves,
             SkipDone
    <3>4. at'[t] = 1 => pc'[t] \notin {"store", "scan", "disarm", "then", "work"}
      BY <1>8, <3>1, <3>2
         DEF Plain, Enters, Skips, Reads, Scans, Returns, Executes, Comes, Leaves
    <3>. QED
      BY <1>0, <1>7, <2>1, <2>4, <3>3, <3>4 DEF SkipDone, Within
  <2>. QED
    BY <1>2, <2>2, <2>3, <2>4 DEF SkipState
<1>9. CASE Stores(t) /\ at[t] = 1
  <2>1. /\ Current(t) = "skip" /\ pc[t] = "store" /\ log' = log
        /\ executed'[t] = executed[t] /\ block'[t] = block[t] /\ ~ Ranged(t)
    BY <1>5, <1>9 DEF Stores, Ranged
  <2>2. /\ SkipBefore(t) /\ seen[t] = knobs.skip - executed[t] /\ seen[t] > 0
    BY <1>1, <1>2, <1>9, <2>1 DEF SkipState, SkipBefore, SkipFires, SkipDone, Ran, Counted
  <2>3. /\ alarm'["skip"].count[t] = seen[t] - block[t] /\ alarm'["skip"].armed[t] = TRUE
        /\ \/ seen[t] - block[t] <= 0 /\ pc'[t] = "disarm" /\ at'[t] = 1
           \/ seen[t] - block[t] > 0 /\ pc'[t] = "if" /\ at'[t] = 2
    BY <1>9, <2>1, <2>2 DEF Stores, SkipBefore
  <2>4. CASE pc'[t] = "disarm"
    <3>1. SkipFires(t)'
      BY <1>1, <1>0, <1>7, <2>1, <2>2, <2>3, <2>4 DEF SkipFires, SkipBefore
    <3>. QED
      BY <3>1 DEF SkipState
  <2>5. CASE pc'[t] = "if"
    <3>1. Ran(t, 1)' = executed[t] + block[t]
      BY <1>1, <2>1, <2>3, <2>5 DEF Ran, Counted
    <3>2. alarm'["skip"].count[t] > 0 /\ alarm'["skip"].count[t] = knobs.skip - Ran(t, 1)'
      BY <1>1, <2>2, <2>3, <2>5, <3>1
    <3>3. SkipBefore(t)'
      BY <1>0, <1>7, <2>1, <2>2, <2>3, <2>5, <3>2 DEF SkipBefore
    <3>. QED
      BY <3>3 DEF SkipState
  <2>. QED
    BY <2>3, <2>4, <2>5
<1>10. CASE (Stores(t) \/ Disarms(t)) /\ at[t] # 1
  <2>1. alarm'["skip"] = alarm["skip"]
    BY <1>10, SkipAlarms
  <2>2. /\ log' = log /\ executed'[t] = executed[t] /\ block'[t] = block[t]
        /\ at[t] > 1 /\ at'[t] > 1 /\ at'[t] \in Nat
    BY <1>1, <1>10 DEF Stores, Disarms
  <2>. QED
    BY <1>0, <1>1, <1>2, <1>7, <2>1, <2>2, SkipElsewhere
<1>11. CASE Disarms(t) /\ at[t] = 1
  <2>1. /\ pc[t] = "disarm" /\ pc'[t] = "then" /\ alarm'["skip"].armed[t] = FALSE /\ log' = log
        /\ at'[t] = 1 /\ executed'[t] = executed[t] /\ block'[t] = block[t]
    <3>1. pc[t] = "disarm" /\ at'[t] = at[t] /\ log' = log /\ executed'[t] = executed[t]
          /\ block'[t] = block[t]
      BY <1>11 DEF Disarms
    <3>2. alarm'["skip"] = alarm["skip"] => alarm["skip"].armed[t] = FALSE
      <4>1. SkipFires(t)
        BY <1>2, <1>11, <3>1 DEF SkipState, SkipBefore, SkipDone
      <4>2. DisarmTid(t) = t /\ t # ALL_THREADS
        BY <1>5, <1>11, TidFacts DEF DisarmTid, Ranged
      <4>3. Entry(t, t) = t
        BY <4>2 DEF Entry
      <4>. QED
        BY <1>5, <1>11, <4>2, <4>3 DEF Disarms
    <3>3. pc'[t] = "then"
      <4>1. DisarmTid(t) = t /\ t # ALL_THREADS
        BY <1>5, <1>11, TidFacts DEF DisarmTid, Ranged
      <4>. QED
        BY <1>11, <4>1 DEF Disarms, AtEnd
    <3>4. ~ Stores(t)
      BY <3>1 DEF Stores
    <3>. QED
      BY <1>11, <3>1, <3>2, <3>3, <3>4, SkipAlarms
  <2>2. SkipFires(t)
    BY <1>2, <1>11, <2>1 DEF SkipState, SkipBefore, SkipDone
  <2>3. SkipFires(t)'
    BY <1>0, <1>7, <2>1, <2>2 DEF SkipFires
  <2>. QED
    BY <2>3 DEF SkipState
<1>12. CASE Handles(t)
  <2>1. /\ alarm' = alarm /\ log' = log /\ at'[t] = at[t] /\ pc[t] = "then" /\ pc'[t] = "work"
        /\ executed'[t] = executed[t] /\ block'[t] = block[t]
        /\ work'[t] = Handler(Current(t))
    BY <1>12 DEF Handles, SameAlarms
  <2>2. CASE at[t] = 1
    <3>1. SkipFires(t) /\ alarm["skip"].armed[t] = FALSE
      BY <1>2, <2>1, <2>2 DEF SkipState, SkipBefore, SkipFires, SkipDone
    <3>2. work'[t] = StartList /\ StartList # <<>>
      BY <1>5, <2>1, <2>2, FirstPlans, PlanTypes
    <3>3. SkipFires(t)'
      BY <1>0, <1>7, <2>1, <2>2, <3>1, <3>2 DEF SkipFires
    <3>. QED
      BY <3>3 DEF SkipState
  <2>3. CASE at[t] # 1
    BY <1>0, <1>1, <1>2, <1>7, <2>1, <2>3, SkipElsewhere
  <2>. QED
    BY <2>2, <2>3
<1>13. CASE Works(t)
  <2>1. /\ at'[t] = at[t] /\ pc[t] = "work" /\ pc'[t] = "work" /\ work[t] # <<>>
        /\ executed'[t] = executed[t] /\ block'[t] = block[t]
        /\ alarm'["skip"] = alarm["skip"]
    BY <1>13, SkipAlarms DEF Works, Stores, Disarms
  <2>2. CASE SetStep(t, "length", <<StartTask>>)
    <3>1. log' = log /\ work'[t] # <<>>
      BY <1>1, <2>2, SetLists, TaskTypes
    <3>2. CASE at[t] = 1
      <4>1. SkipFires(t)
        BY <1>2, <2>1, <3>2 DEF SkipState, SkipBefore, SkipDone
      <4>2. SkipFires(t)'
        BY <1>0, <1>7, <2>1, <3>1, <3>2, <4>1 DEF SkipFires
      <4>. QED
        BY <4>2 DEF SkipState
    <3>3. CASE at[t] # 1
      BY <1>0, <1>1, <1>2, <1>7, <2>1, <3>1, <3>3, SkipElsewhere
    <3>. QED
      BY <3>2, <3>3
  <2>3. CASE NotifyStep(t, "start") /\ (at[t] > Len(Inserted) \/ Current(t) = "skip")
    <3>1. at[t] = 1
      BY <1>1, <1>4, <2>1, <2>3, AlarmPlaces DEF Current
    <3>2. SkipFires(t) /\ alarm["skip"].armed[t] = FALSE
      BY <1>2, <2>1, <3>1 DEF SkipState, SkipBefore, SkipDone, SkipFires
    <3>. DEFINE n == Len(log[t]) + 1
    <3>3. /\ Starts(t)' = {n} /\ work'[t] = <<>>
          /\ log'[t][n].first = executed[t] + 1 /\ log'[t][n].last = executed[t] + block[t]
      BY <2>3, <3>2, NotifyEvents DEF SkipFires
    <3>. HIDE DEF n
    <3>4. Within(log'[t][n], 0, knobs.skip)
      BY <1>1, <3>2, <3>3 DEF Within, SkipFires
    <3>5. Ran(t, 1)' = executed[t] + block[t] /\ knobs.skip <= executed[t] + block[t]
      BY <1>1, <2>1, <3>1, <3>2 DEF Ran, Counted, SkipFires
    <3>6. \E i \in Starts(t)' : Starts(t)' = {i} /\ Within(log'[t][i], 0, knobs.skip)
      BY <3>3, <3>4
    <3>7. SkipDone(t)'
      BY <1>0, <2>1, <3>2, <3>3, <3>5, <3>6 DEF SkipDone, Within
    <3>. QED
      BY <3>7 DEF SkipState
  <2>4. CASE NotifyStep(t, "stop") /\ at[t] <= Len(Inserted) /\ Current(t) = "length"
    <3>1. at[t] # 1
      BY <1>5, <2>4
    <3>2. Starts(t)' = Starts(t) /\ \A i \in Starts(t) : log'[t][i] = log[t][i]
      BY <2>4, NotifyEvents
    <3>. QED
      BY <1>0, <1>1, <1>2, <2>1, <3>1, <3>2, SkipElsewhere
  <2>. QED
    BY <1>1, <1>13, <2>2, <2>3, <2>4, PlainWorks
<1>14. ~ Begins(t)
  BY <1>1 DEF Begins
<1>. QED
  BY <1>0, <1>8, <1>9, <1>10, <1>11, <1>12, <1>13, <1>14 DEF Moved, Plain

\* The starts are the threads' own, whatever the others do.
LEMMA SkipStep ==
  ASSUME CallInv, SkipInv, NEW t \in Threads, ControlStep(t)
  PROVE  SkipInv'
<1>1. knobs' = knobs /\ Starters' = Starters /\ stage = "run" /\ Moved(t)
  BY Others, Moves
<1>. SUFFICES ASSUME knobs.skip > 0
     PROVE  /\ alarm'["skip"].tid = knobs.skipTid
            /\ \A u \in Threads :
                 IF u \in Starters THEN stage' = "run" => SkipState(u)' ELSE Starts(u)' = {}
  BY <1>1 DEF SkipInv
<1>2. /\ alarm["skip"].tid = knobs.skipTid
      /\ \A u \in Threads : IF u \in Starters THEN SkipState(u) ELSE Starts(u) = {}
  BY <1>1 DEF SkipInv
<1>3. /\ knobs \in Knobs /\ knobs.period = 0 /\ ~ InitActive /\ CallTypes
      /\ Len(Inserted) \in Nat /\ at[t] \in Nat /\ at[t] >= 1
  <2>1. knobs \in Knobs /\ CallTypes /\ at[t] \in Nat /\ at[t] >= 1
    BY DEF CallInv, CallTypes
  <2>2. knobs.period = 0 /\ ~ InitActive
    BY <2>1, KnobFacts DEF InitActive
  <2>. QED
    BY <2>1, <2>2, InsertedFacts
<1>4. /\ alarm'["skip"].tid = alarm["skip"].tid
      /\ \A u \in Threads \ {t} : /\ alarm'["skip"].armed[u] = alarm["skip"].armed[u]
                                  /\ alarm'["skip"].count[u] = alarm["skip"].count[u]
  BY SkipAlarms
<1>5. ASSUME NEW u \in Threads \ {t}
      PROVE  IF u \in Starters THEN stage' = "run" => SkipState(u)' ELSE Starts(u)' = {}
  <2>1. Frame(u) /\ Starts(u)' = Starts(u)
    BY Others DEF Starts
  <2>. QED
    BY <1>1, <1>2, <1>4, <2>1, SkipFrame
<1>6. CASE t \in Starters
  BY <1>2, <1>4, <1>5, <1>6, SkipOwnStep
<1>7. ASSUME t \notin Starters PROVE Starts(t)' = {}
  <2>1. CASE Works(t)
    <3>1. pc[t] = "work"
      BY <2>1 DEF Works, From
    <3>2. at[t] <= Len(Inserted) /\ t \in For(AlarmTid(Current(t)))
      BY <1>3, <3>1 DEF CallInv, PlaceOf
    <3>3. Current(t) # "skip"
      BY <1>3, <1>7, <3>2, KnobFacts DEF AlarmTid, Starters
    <3>4. NotifyStep(t, "stop")
      BY <1>3, <2>1, <3>2, <3>3, PlainWorks
    <3>. QED
      BY <1>2, <1>7, <3>4, NotifyEvents
  <2>2. CASE ~ Works(t)
    <3>1. log' = log
      BY <1>1, <2>2, PlainFacts
         DEF Moved, Plain, Stores, Disarms, Handles, Begins, SameBlock
    <3>. QED
      BY <1>2, <1>7, <3>1, SameEvents DEF Starts
  <2>. QED
    BY <2>1, <2>2
<1>8. CASE t \notin Starters
  BY <1>2, <1>4, <1>5, <1>7, <1>8
<1>. QED
  BY <1>6, <1>8

\* At the beginning each thread has its whole skip to go.
LEMMA SkipInit == ControlInit => SkipInv
<1>. SUFFICES ASSUME ControlInit, knobs.skip > 0
     PROVE  /\ alarm["skip"].tid = knobs.skipTid
            /\ \A t \in Threads : IF t \in Starters THEN stage = "run" => SkipState(t) ELSE Starts(t) = {}
  BY DEF SkipInv
<1>1. knobs \in Knobs
  BY DEF ControlInit
<1>2. /\ knobs.period = 0 /\ knobs.skip \in Nat /\ "skip" \in Alarms
      /\ AlarmTid("skip") = knobs.skipTid /\ AlarmCount("skip") = knobs.skip
      /\ Starters = For(knobs.skipTid) /\ "skip" \in FirstAlarms
  BY <1>1, KnobFacts DEF Alarms, AlarmTid, AlarmCount, Starters, FirstAlarms
<1>3. /\ alarm["skip"].tid = knobs.skipTid
      /\ \A t \in Threads : t \in Starters =>
           (alarm["skip"].armed[t] <=> TRUE) /\ alarm["skip"].count[t] = knobs.skip
  BY <1>2, InitAlarms
<1>4. alarm["skip"] \in AlarmRecords
  BY <1>2, InitAlarms
<1>5. \A t \in Threads : Starts(t) = {}
  BY DEF Starts, Events, ControlInit
<1>6. ASSUME NEW t \in Threads, t \in Starters PROVE SkipState(t)
  <2>1. alarm["skip"].armed[t] = TRUE
    BY <1>3, <1>4, <1>6 DEF AlarmRecords
  <2>2. Ran(t, 1) = 0 /\ pc[t] = "out"
    BY DEF Ran, Counted, ControlInit
  <2>3. SkipBefore(t)
    BY <1>2, <1>3, <1>5, <1>6, <2>1, <2>2 DEF SkipBefore
  <2>. QED
    BY <2>3 DEF SkipState
<1>. QED
  BY <1>3, <1>5, <1>6

\* At the end of a block the alarm has counted what the thread has executed.
LEMMA SkipConclusion ==
  ASSUME CallInv, SkipInv
  PROVE  StartsAfterSkip
<1>. SUFFICES ASSUME NEW t \in Threads, AtBlockEnd(t), knobs.skip > 0
     PROVE  IF t \in Starters THEN OnceAfter(t, Events(t, {"start"}), 0, knobs.skip)
                              ELSE Events(t, {"start"}) = {}
  BY DEF StartsAfterSkip
<1>1. /\ stage = "run" /\ pc[t] = "out" /\ at[t] = 1 /\ block[t] = 0 /\ executed[t] \in Nat
      /\ knobs.skip \in Nat /\ alarm["skip"].count[t] \in Int
  <2>1. "skip" \in Alarms
    BY DEF Alarms
  <2>. QED
    BY <2>1, KnobFacts DEF AtBlockEnd, CallInv, PlaceOf, CallTypes, AlarmRecords
<1>2. Ran(t, 1) = executed[t]
  BY <1>1 DEF Ran, Counted
<1>3. CASE t \in Starters
  <2>1. SkipBefore(t) \/ SkipDone(t)
    BY <1>1, <1>3 DEF SkipInv, SkipState, SkipFires
  <2>2. CASE SkipBefore(t)
    BY <1>1, <1>2, <1>3, <2>2 DEF SkipBefore, OnceAfter, Starts
  <2>3. CASE SkipDone(t)
    BY <1>1, <1>2, <1>3, <2>3 DEF SkipDone, OnceAfter, Starts
  <2>. QED
    BY <2>1, <2>2, <2>3
<1>4. CASE t \notin Starters
  BY <1>4 DEF SkipInv, Starts
<1>. QED
  BY <1>3, <1>4
-----------------------------------------------------------------------------
(***************************************************************************)
(* The stop of the one thread that starts: what the alarm of the length    *)
(* has counted.                                                            *)
(***************************************************************************)

\* One thread starts and stops.
Alone(t) ==
  /\ knobs.length > 0 /\ knobs.lengthTid = t /\ Starters = {t} /\ knobs.period = 0
  /\ knobs.high > 0 => InRange(t)

\* The instructions before those that the length counts.
CountedFrom(t, i) == IF knobs.skip > 0 THEN log[t][i].first - 1 ELSE log[t][i].last

\* The thread is at the calls of the length, or it is not, or is done with them.
AtLength(t) == at[t] = LengthPlace

Idle(t) ==
  AtLength(t) => /\ pc[t] \notin {"store", "scan", "disarm", "then"}
                 /\ pc[t] = "work" => work[t] = <<>>

SetLength == CountPlan("length", <<StartTask>>)

\* The start is to come; it has armed the length and is not yet sent; ...
LengthBefore(t) ==
  /\ Starts(t) = {} /\ Stops(t) = {} /\ alarm["length"].armed[t] = FALSE /\ Idle(t)
  /\ knobs.skip > 0 => (pc[t] = "work" /\ work[t] # <<>> => work[t] = SetLength)
  /\ knobs.skip = 0 => \/ _first = TRUE
                       \/ pc[t] = "work" /\ at[t] > LengthPlace /\ work[t] = SetLength

LengthSet(t) ==
  /\ Starts(t) = {} /\ Stops(t) = {} /\ pc[t] = "work" /\ ~ AtLength(t)
  /\ \/ work[t] = ArmPlan("length", <<StartTask>>) /\ alarm["length"].armed[t] = FALSE
     \/ /\ work[t] \in {StorePlan("length", <<StartTask>>), <<StartTask>>}
        /\ alarm["length"].armed[t] = TRUE
  /\ alarm["length"].tid = t /\ alarm["length"].count[t] = knobs.length
  /\ knobs.skip = 0 => _first = FALSE

\* No start is to come.
Started(t) ==
  /\ knobs.skip = 0 => _first = FALSE
  /\ pc[t] = "work" /\ ~ AtLength(t) => work[t] = <<>>

\* ... the count is what is left of the length, or has just been written as 0
\* or less, and the range is looked at; ...
CountLeft(t, m) ==
  /\ alarm["length"].count[t] = knobs.length - (Ran(t, LengthPlace) - m)
  /\ \/ alarm["length"].count[t] > 0
     \/ pc[t] = "scan" /\ AtLength(t) /\ executed[t] < m + knobs.length

LengthRuns(t) ==
  /\ Started(t) /\ Stops(t) = {}
  /\ \E i \in Starts(t) : Starts(t) = {i} /\ CountLeft(t, CountedFrom(t, i))
  /\ alarm["length"].armed[t] = TRUE /\ alarm["length"].tid = t
  /\ pc[t] = "store" /\ AtLength(t) => seen[t] = alarm["length"].count[t]
  /\ pc[t] = "scan" /\ AtLength(t) /\ each[t] > t => alarm["length"].count[t] <= 0
  /\ AtLength(t) => pc[t] \notin {"disarm", "then", "work"}

\* ... the alarm has fired; the stop has been sent.
Reaches(t, m) == executed[t] < m + knobs.length /\ m + knobs.length <= executed[t] + block[t]

LengthFires(t) ==
  /\ Started(t) /\ Stops(t) = {} /\ AtLength(t)
  /\ \E i \in Starts(t) : Starts(t) = {i} /\ Reaches(t, CountedFrom(t, i))
  /\ \/ pc[t] = "disarm" /\ (each[t] <= t \/ alarm["length"].armed[t] = FALSE)
     \/ alarm["length"].armed[t] = FALSE /\ (pc[t] = "then" \/ (pc[t] = "work" /\ work[t] # <<>>))

StoppedAt(t, i, j) ==
  /\ Starts(t) = {i} /\ Stops(t) = {j}
  /\ Within(log[t][j], CountedFrom(t, i), knobs.length)
  /\ CountedFrom(t, i) + knobs.length <= Ran(t, LengthPlace)

LengthDone(t) ==
  /\ Started(t) /\ Idle(t) /\ alarm["length"].armed[t] = FALSE
  /\ \E i, j : StoppedAt(t, i, j)

LengthState(t) ==
  LengthBefore(t) \/ LengthSet(t) \/ LengthRuns(t) \/ LengthFires(t) \/ LengthDone(t)

LengthInv ==
  \A t \in Threads : Alone(t) =>
    /\ \A u \in Threads \ {t} : alarm["length"].count[u] = 0
    /\ stage = "run" => LengthState(t)

\* The calls when -length is given and -uniform_* is not.
LEMMA LengthPlaces ==
  ASSUME CallInv, knobs.length > 0, knobs.period = 0
  PROVE  /\ Len(Inserted) = LengthPlace /\ LengthPlace = (IF knobs.skip > 0 THEN 2 ELSE 1)
         /\ LengthPlace \in Nat
         /\ InitActive <=> knobs.skip = 0
         /\ \A u \in Threads : /\ at[u] \in Nat /\ at[u] >= 1
                               /\ at[u] <= LengthPlace =>
                                    /\ Current(u) = "length" <=> AtLength(u)
                                    /\ Current(u) = "skip" <=> ~ AtLength(u)
<1>1. knobs \in Knobs /\ \A u \in Threads : at[u] \in Nat /\ at[u] >= 1
  BY DEF CallInv, CallTypes
<1>2. knobs.skip \in Nat
  BY <1>1, KnobFacts
<1>3. Len(Inserted) = LengthPlace
  BY <1>1, <1>2, InsertedFacts DEF NumInserted, LengthPlace
<1>4. /\ InitActive <=> knobs.skip = 0
      /\ LengthPlace = (IF knobs.skip > 0 THEN 2 ELSE 1) /\ LengthPlace \in Nat
  BY <1>2 DEF InitActive, LengthPlace
<1>5. ASSUME NEW u \in Threads, at[u] <= LengthPlace
      PROVE  /\ Current(u) = "length" <=> AtLength(u)
             /\ Current(u) = "skip" <=> ~ AtLength(u)
  <2>1. at[u] \in 1 .. Len(Inserted)
    BY <1>1, <1>3, <1>4, <1>5
  <2>2. PICK i \in 1 .. Len(Inserted) : i = at[u]
    BY <2>1
  <2>3. /\ Inserted[i] = "skip" <=> i = 1 /\ knobs.skip > 0
        /\ Inserted[i] = "length" <=> i = LengthPlace
    BY <1>1, AlarmPlaces
  <2>4. i \in Nat /\ i >= 1 /\ i <= LengthPlace
    BY <1>1, <1>5, <2>2
  <2>5. /\ Inserted[i] = "length" <=> i = LengthPlace
        /\ Inserted[i] = "skip" <=> ~ (i = LengthPlace)
    BY <1>2, <1>4, <2>3, <2>4
  <2>. QED
    BY <2>2, <2>5 DEF Current, AtLength
<1>. QED
  BY <1>1, <1>3, <1>4, <1>5

\* What a step does to the alarm of the length.
LEMMA LengthAlarms ==
  ASSUME CallInv, knobs.length > 0, knobs.period = 0, NEW t \in Threads, ControlStep(t)
  PROVE  \/ alarm'["length"] = alarm["length"]
         \/ AtLength(t) /\ (Stores(t) \/ Disarms(t))
         \/ /\ Works(t) /\ SetStep(t, "length", <<StartTask>>)
            /\ at[t] > LengthPlace \/ Current(t) = "skip"
<1>1. /\ Len(Inserted) = LengthPlace
      /\ at[t] <= LengthPlace => (Current(t) = "length" <=> AtLength(t))
  BY LengthPlaces
<1>2. Moved(t) /\ OtherAlarms(t)
  BY Moves
<1>3. CASE Stores(t) \/ Disarms(t)
  <2>1. at[t] <= LengthPlace
    BY <1>1, <1>3 DEF Stores, Disarms
  <2>2. Current(t) # "length" => alarm'["length"] = alarm["length"]
    BY <1>2, <1>3 DEF OtherAlarms, OneAlarm, Alarms
  <2>. QED
    BY <1>1, <1>3, <2>1, <2>2
<1>4. CASE Works(t)
  BY <1>1, <1>4, PlainWorks DEF NotifyStep
<1>5. CASE Plain(t) \/ Handles(t) \/ Begins(t)
  BY <1>5, PlainFacts DEF Handles, Begins, SameAlarms
<1>. QED
  BY <1>2, <1>3, <1>4, <1>5 DEF Moved, Plain

\* One thread sets and counts the length; no other starts.
LEMMA AloneFacts ==
  ASSUME CallInv, AloneInv, FirstInv, NEW t \in Threads, Alone(t)
  PROVE  /\ For(knobs.lengthTid) = {t} /\ t # ALL_THREADS
         /\ \A u \in Threads : pc[u] = "work" /\ ~ AtLength(u) => u = t
         /\ \A u \in Threads : (InAlarm(u) \/ pc[u] = "work") /\ AtLength(u) => u = t
         /\ knobs.skip = 0 /\ _first => \A u \in Threads : pc[u] # "out" => u = t
<1>1. /\ knobs.length > 0 /\ knobs.lengthTid = t /\ Starters = {t} /\ knobs.period = 0
      /\ t # ALL_THREADS /\ For(knobs.lengthTid) = {t} /\ knobs \in Knobs /\ knobs.skip \in Nat
  <2>1. t # ALL_THREADS /\ knobs \in Knobs
    BY TidFacts DEF CallInv, CallTypes
  <2>. QED
    BY <2>1, KnobFacts DEF Alone, For
<1>2. /\ Len(Inserted) = LengthPlace /\ LengthPlace = (IF knobs.skip > 0 THEN 2 ELSE 1)
      /\ InitActive <=> knobs.skip = 0
      /\ \A u \in Threads : /\ at[u] \in Nat /\ at[u] >= 1
                            /\ at[u] <= LengthPlace =>
                                 /\ Current(u) = "length" <=> AtLength(u)
                                 /\ Current(u) = "skip" <=> ~ AtLength(u)
  BY <1>1, LengthPlaces
<1>3. ASSUME NEW u \in Threads, \A v \in Threads : executed[v] = 0, pc[u] # "out", knobs.skip = 0
      PROVE  u = t
  <2>1. u = 0
    BY <1>3 DEF AloneInv
  <2>2. Starters = {0}
    BY <1>1, <1>3 DEF Starters
  <2>. QED
    BY <1>1, <2>1, <2>2
<1>4. ASSUME NEW u \in Threads, pc[u] = "work", ~ AtLength(u) PROVE u = t
  <2>1. CASE at[u] <= Len(Inserted)
    <3>1. u \in For(AlarmTid(Current(u))) /\ Current(u) = "skip"
      BY <1>2, <1>4, <2>1 DEF CallInv, PlaceOf
    <3>2. knobs.skip > 0
      BY <1>1, <1>2, <1>4, <2>1 DEF AtLength
    <3>. QED
      BY <1>1, <3>1, <3>2 DEF AlarmTid, Starters
  <2>2. CASE at[u] > Len(Inserted)
    <3>1. InitActive
      BY <1>2, <1>4, <2>2 DEF CallInv, PlaceOf
    <3>2. \A v \in Threads : executed[v] = 0
      BY <1>4, <2>2, <3>1 DEF FirstInv
    <3>. QED
      BY <1>2, <1>3, <1>4, <3>1, <3>2
  <2>. QED
    BY <1>2, <2>1, <2>2
<1>5. ASSUME NEW u \in Threads, InAlarm(u) \/ pc[u] = "work", AtLength(u) PROVE u = t
  <2>1. at[u] <= Len(Inserted) /\ Current(u) = "length"
    BY <1>2, <1>5 DEF AtLength
  <2>2. u \in For(AlarmTid("length"))
    BY <1>5, <2>1 DEF CallInv, PlaceOf
  <2>. QED
    BY <1>1, <2>2 DEF AlarmTid
<1>6. ASSUME knobs.skip = 0, _first, NEW u \in Threads, pc[u] # "out" PROVE u = t
  <2>1. \A v \in Threads : executed[v] = 0
    BY <1>2, <1>6 DEF FirstInv
  <2>. QED
    BY <1>3, <1>6, <2>1
<1>. QED
  BY <1>1, <1>4, <1>5, <1>6

\* A thread whose state does not change keeps its part of LengthInv.
LEMMA LengthFrame ==
  ASSUME NEW u \in Threads, Frame(u), knobs' = knobs,
         Starts(u)' = Starts(u), Stops(u)' = Stops(u), alarm'["length"] = alarm["length"],
         knobs.skip = 0 => _first' = _first, LengthState(u)
  PROVE  LengthState(u)'
<1>1. /\ Ran(u, LengthPlace)' = Ran(u, LengthPlace) /\ (AtLength(u)' <=> AtLength(u))
      /\ LengthPlace' = LengthPlace
      /\ \A i : CountedFrom(u, i)' = CountedFrom(u, i)
      /\ (Started(u)' <=> Started(u)) /\ (Idle(u)' <=> Idle(u))
  BY DEF Ran, Counted, Frame, AtLength, CountedFrom, Started, Idle, LengthPlace
<1>2. LengthBefore(u) => LengthBefore(u)'
  BY <1>1 DEF LengthBefore, Frame, SetLength
<1>3. LengthSet(u) => LengthSet(u)'
  BY <1>1 DEF LengthSet, Frame
<1>4. LengthRuns(u) => LengthRuns(u)'
  BY <1>1 DEF LengthRuns, Frame, CountLeft
<1>5. LengthFires(u) => LengthFires(u)'
  BY <1>1 DEF LengthFires, Frame, Reaches
<1>6. LengthDone(u) => LengthDone(u)'
  BY <1>1 DEF LengthDone, Frame, StoppedAt, Within
<1>. QED
  BY <1>2, <1>3, <1>4, <1>5, <1>6 DEF LengthState

\* The parts of the state that the length of thread t is about.
AloneTypes(t) ==
  /\ knobs \in Knobs /\ knobs.length \in Nat /\ knobs.length > 0 /\ knobs.skip \in Nat
  /\ knobs.period = 0 /\ knobs.low \in Nat /\ knobs.high \in Nat
  /\ knobs.high > 0 => knobs.low <= t /\ t <= knobs.high
  /\ LengthPlace \in Nat /\ LengthPlace >= 1 /\ (LengthPlace = IF knobs.skip > 0 THEN 2 ELSE 1)
  /\ Len(Inserted) = LengthPlace /\ (InitActive <=> knobs.skip = 0)
  /\ at[t] \in Nat /\ at[t] >= 1 /\ executed[t] \in Nat /\ block[t] \in Nat /\ each[t] \in Nat
  /\ seen[t] \in Int /\ alarm["length"].count[t] \in Int /\ t \in Nat /\ _first \in BOOLEAN
  /\ alarm["length"].armed[t] \in BOOLEAN
  /\ at[t] <= LengthPlace => /\ Current(t) = "length" <=> AtLength(t)
                             /\ Current(t) = "skip" <=> ~ AtLength(t)
  /\ t # ALL_THREADS /\ For(knobs.lengthTid) = {t} /\ knobs.lengthTid = t

\* The types of what a proof about a thread that starts and stops alone uses.
LEMMA AloneHere ==
  ASSUME CallInv, AloneInv, FirstInv, NEW t \in Threads, Alone(t)
  PROVE  AloneTypes(t)
<1>1. knobs.length > 0 /\ knobs.period = 0 /\ knobs.lengthTid = t
  BY DEF Alone
<1>2. /\ knobs \in Knobs /\ executed[t] \in Nat /\ block[t] \in Nat /\ each[t] \in Threads
      /\ seen[t] \in Int /\ _first \in BOOLEAN
  BY ControllerAssumption DEF CallInv, CallTypes
<1>3. alarm["length"].count[t] \in Int /\ alarm["length"].armed[t] \in BOOLEAN
  <2>1. "length" \in Alarms
    BY DEF Alarms
  <2>. QED
    BY <2>1 DEF CallInv, CallTypes, AlarmRecords
<1>4. /\ knobs.length \in Nat /\ knobs.skip \in Nat /\ knobs.low \in Nat /\ knobs.high \in Nat
      /\ t \in Nat /\ each[t] \in Nat
  BY <1>2, KnobFacts, TidFacts
<1>5. t # ALL_THREADS /\ For(knobs.lengthTid) = {t}
  BY AloneFacts
<1>6. knobs.high > 0 => knobs.low <= t /\ t <= knobs.high
  BY <1>4 DEF Alone, InRange
<1>7. /\ Len(Inserted) = LengthPlace /\ LengthPlace = (IF knobs.skip > 0 THEN 2 ELSE 1)
      /\ LengthPlace \in Nat /\ (InitActive <=> knobs.skip = 0)
      /\ at[t] \in Nat /\ at[t] >= 1
      /\ at[t] <= LengthPlace => /\ Current(t) = "length" <=> AtLength(t)
                                 /\ Current(t) = "skip" <=> ~ AtLength(t)
  BY <1>1, LengthPlaces
<1>. QED
  BY <1>1, <1>2, <1>3, <1>4, <1>5, <1>6, <1>7 DEF AloneTypes

\* Where the interval begins is a number.
LEMMA CountedTypes ==
  ASSUME CallInv, NEW t \in Threads, NEW i \in Starts(t)
  PROVE  CountedFrom(t, i) \in Int
<1>1. log \in [Threads -> Seq(LogEntries)]
  BY DEF CallInv, CallTypes, LogEntries
<1>2. i \in DOMAIN log[t]
  BY DEF Starts, Events
<1>. HIDE DEF LogEntries
<1>3. log[t][i] \in LogEntries
  BY <1>1, <1>2
<1>. QED
  BY <1>3 DEF CountedFrom, LogEntries

\* A step that sends nothing leaves the events, and where they count from.
SameLog(t) ==
  /\ Starts(t)' = Starts(t) /\ Stops(t)' = Stops(t)
  /\ \A i : CountedFrom(t, i)' = CountedFrom(t, i) /\ log'[t][i] = log[t][i]

\* A thread that is sent nothing has the same starts and stops.
LEMMA LogFrame ==
  ASSUME NEW t \in Threads, log'[t] = log[t], knobs' = knobs
  PROVE  SameLog(t)
BY SameEvents DEF SameLog, Starts, Stops, CountedFrom

\* A step that counts no block for the length and sends nothing: where the
\* thread is before it and after it.
Passes(t) ==
  /\ alarm'["length"] = alarm["length"] /\ SameLog(t)
  /\ knobs.skip = 0 => _first' = _first
  /\ Ran(t, LengthPlace)' = Ran(t, LengthPlace)
  /\ pc[t] # "work" \/ work[t] = <<>>
  /\ pc'[t] # "work"
  /\ AtLength(t) => pc[t] \notin {"disarm", "then"}
  /\ AtLength(t)' => pc'[t] \notin {"disarm", "then"}
  /\ pc'[t] = "store" /\ AtLength(t)' =>
       alarm["length"].armed[t] = TRUE /\ seen'[t] = alarm["length"].count[t]
  /\ IF pc'[t] = "scan" /\ AtLength(t)'
     THEN /\ pc[t] = "scan" /\ AtLength(t) /\ executed'[t] = executed[t]
          /\ alarm["length"].count[t] <= 0 \/ each'[t] <= t
     ELSE pc[t] = "scan" /\ AtLength(t) => alarm["length"].count[t] > 0

\* A step that counts no block of this thread for the length keeps the phase it is in.
LEMMA LengthPasses ==
  ASSUME CallInv, NEW t \in Threads, AloneTypes(t), LengthState(t), knobs' = knobs, Passes(t),
         each'[t] \in Nat
  PROVE  LengthState(t)'
<1>1. LengthPlace' = LengthPlace
  BY DEF LengthPlace
<1>2. /\ SetLength # <<>> /\ ArmPlan("length", <<StartTask>>) # <<>>
      /\ StorePlan("length", <<StartTask>>) # <<>> /\ <<StartTask>> # <<>>
  <2>1. <<StartTask>> \in Seq(Tasks) /\ "length" \in Alarms
    <3>. HIDE DEF Tasks
    <3>. QED
      BY TaskTypes DEF Alarms
  <2>. QED
    BY <2>1, PlanFacts, ListFacts DEF SetLength
<1>. USE DEF Passes, SameLog
<1>3. ASSUME LengthBefore(t) PROVE LengthBefore(t)'
  <2>1. knobs.skip = 0 => _first = TRUE
    BY <1>2, <1>3 DEF LengthBefore
  <2>2. pc'[t] \notin {"store", "scan", "disarm", "then"} \/ ~ AtLength(t)'
    BY <1>3 DEF LengthBefore, Idle
  <2>. QED
    BY <1>3, <2>1, <2>2 DEF LengthBefore, Idle
<1>4. ~ LengthSet(t) /\ ~ LengthFires(t)
  BY <1>2 DEF LengthSet, LengthFires
<1>5. Started(t) => Started(t)'
  BY DEF Started
<1>6. ASSUME LengthRuns(t) PROVE LengthRuns(t)'
  <2>1. PICK i \in Starts(t) : Starts(t) = {i} /\ CountLeft(t, CountedFrom(t, i))
    BY <1>6 DEF LengthRuns
  <2>2. CountLeft(t, CountedFrom(t, i))'
    <3>1. alarm'["length"].count[t] = knobs'.length - (Ran(t, LengthPlace)' - CountedFrom(t, i)')
      BY <1>1, <2>1 DEF CountLeft
    <3>2. \/ alarm'["length"].count[t] > 0
          \/ pc'[t] = "scan" /\ AtLength(t)' /\ executed'[t] < CountedFrom(t, i)' + knobs'.length
      BY <2>1 DEF CountLeft
    <3>. QED
      BY <3>1, <3>2 DEF CountLeft
  <2>3. \E k \in Starts(t)' : Starts(t)' = {k} /\ CountLeft(t, CountedFrom(t, k))'
    BY <2>1, <2>2
  <2>4. pc'[t] = "scan" /\ AtLength(t)' /\ each'[t] > t => alarm'["length"].count[t] <= 0
    BY DEF AloneTypes
  <2>. QED
    BY <1>5, <1>6, <2>3, <2>4 DEF LengthRuns
<1>7. ASSUME LengthDone(t) PROVE LengthDone(t)'
  <2>1. PICK i, j : StoppedAt(t, i, j)
    BY <1>7 DEF LengthDone
  <2>2. StoppedAt(t, i, j)'
    BY <2>1 DEF StoppedAt, Within
  <2>3. Idle(t)'
    BY <1>7 DEF LengthDone, Idle
  <2>. QED
    BY <1>5, <1>7, <2>2, <2>3 DEF LengthDone
<1>. QED
  BY <1>3, <1>4, <1>6, <1>7 DEF LengthState

\* Without an interval the alarm of the length lets the thread pass.
LEMMA LengthSkips ==
  ASSUME CallInv, NEW t \in Threads, AloneTypes(t), LengthState(t), knobs' = knobs,
         Skips(t), AtLength(t)
  PROVE  LengthState(t)'
<1>1. /\ alarm' = alarm /\ SameLog(t) /\ pc[t] = "if" /\ pc'[t] = "if" /\ at'[t] = at[t] + 1
      /\ executed'[t] = executed[t] /\ block'[t] = block[t] /\ _first' = _first
      /\ ~ Concerns(alarm["length"], t)
  <2>1. log' = log /\ Current(t) = "length"
    BY DEF Skips, SameBlock, AloneTypes, AtLength
  <2>. QED
    BY <2>1, LogFrame DEF Skips, SameBlock, SameAlarms, SameSamples, From
<1>2. ~ LengthSet(t) /\ ~ LengthFires(t) /\ ~ LengthRuns(t)
  BY <1>1 DEF LengthSet, LengthFires, LengthRuns, Concerns
<1>3. /\ ~ AtLength(t)' /\ Ran(t, LengthPlace) = executed[t]
      /\ Ran(t, LengthPlace)' = executed[t] + block[t]
  BY <1>1 DEF AtLength, Ran, Counted, AloneTypes, LengthPlace
<1>4. ASSUME LengthBefore(t) PROVE LengthBefore(t)'
  BY <1>1, <1>3, <1>4 DEF LengthBefore, Idle, SameLog
<1>5. ASSUME LengthDone(t) PROVE LengthDone(t)'
  <2>1. PICK i, j : StoppedAt(t, i, j)
    BY <1>5 DEF LengthDone
  <2>2. CountedFrom(t, i) \in Int
    BY <2>1, CountedTypes DEF StoppedAt
  <2>3. CountedFrom(t, i) + knobs.length <= Ran(t, LengthPlace)'
    BY <1>3, <2>1, <2>2 DEF StoppedAt, AloneTypes
  <2>4. StoppedAt(t, i, j)'
    BY <1>1, <2>1, <2>3 DEF StoppedAt, Within, SameLog
  <2>5. Started(t)' /\ Idle(t)'
    BY <1>1, <1>3, <1>5 DEF LengthDone, Started, Idle
  <2>. QED
    BY <1>1, <1>5, <2>4, <2>5 DEF LengthDone
<1>. QED
  BY <1>2, <1>4, <1>5 DEF LengthState

\* The count of the thread is written back.
LEMMA LengthStores ==
  ASSUME CallInv, NEW t \in Threads, AloneTypes(t), LengthState(t), knobs' = knobs,
         Stores(t), AtLength(t)
  PROVE  LengthState(t)'
<1>1. /\ SameLog(t) /\ pc[t] = "store" /\ executed'[t] = executed[t] /\ block'[t] = block[t]
      /\ _first' = _first /\ Current(t) = "length" /\ pc'[t] # "work"
      /\ alarm'["length"].count[t] = seen[t] - block[t]
      /\ alarm'["length"].tid = alarm["length"].tid
      /\ alarm'["length"].armed = alarm["length"].armed
      /\ \/ /\ Ranged(t) /\ pc'[t] = "scan" /\ at'[t] = at[t] /\ each'[t] = knobs.low
         \/ /\ seen[t] - block[t] <= 0 /\ pc'[t] = "disarm" /\ at'[t] = at[t] /\ each'[t] = 0
         \/ /\ seen[t] - block[t] > 0 /\ pc'[t] = "if" /\ at'[t] = at[t] + 1
  <2>1. Current(t) = "length"
    BY DEF Stores, AloneTypes, AtLength
  <2>2. SameLog(t)
    BY LogFrame DEF Stores, SameBlock
  <2>3. pc'[t] # "work"
    BY DEF Stores
  <2>. QED
    BY <2>1, <2>2, <2>3 DEF Stores, SameBlock, SameSamples
<1>2. LengthRuns(t) /\ seen[t] = alarm["length"].count[t] /\ Ran(t, LengthPlace) = executed[t]
  <2>1. LengthRuns(t)
    BY <1>1 DEF LengthState, LengthBefore, LengthSet, LengthFires, LengthDone, Idle
  <2>. QED
    BY <1>1, <2>1 DEF LengthRuns, Ran, Counted, AtLength, AloneTypes
<1>3. PICK i \in Starts(t) : Starts(t) = {i} /\ CountLeft(t, CountedFrom(t, i))
  BY <1>2 DEF LengthRuns
<1>4. PICK m \in Int : m = CountedFrom(t, i)
  BY CountedTypes
<1>5. /\ seen[t] = knobs.length - (executed[t] - m) /\ seen[t] > 0
      /\ alarm'["length"].count[t] = knobs.length - (executed[t] + block[t] - m)
      /\ executed[t] < m + knobs.length
  BY <1>1, <1>2, <1>3, <1>4 DEF CountLeft, AloneTypes
<1>6. /\ Starts(t)' = {i} /\ Stops(t)' = {} /\ CountedFrom(t, i)' = m
      /\ alarm'["length"].armed[t] = TRUE /\ alarm'["length"].tid = t /\ Started(t)'
  BY <1>1, <1>2, <1>3, <1>4 DEF LengthRuns, SameLog, Started
<1>7. CASE pc'[t] = "disarm" /\ at'[t] = at[t] /\ seen[t] - block[t] <= 0 /\ each'[t] = 0
  <2>1. Reaches(t, CountedFrom(t, i))'
    BY <1>1, <1>4, <1>5, <1>6, <1>7 DEF Reaches, AloneTypes
  <2>2. AtLength(t)' /\ each'[t] <= t
    BY <1>7 DEF AtLength, LengthPlace, AloneTypes
  <2>3. LengthFires(t)'
    BY <1>6, <1>7, <2>1, <2>2 DEF LengthFires
  <2>. QED
    BY <2>3 DEF LengthState
<1>8. CASE pc'[t] = "if" /\ at'[t] = at[t] + 1 /\ seen[t] - block[t] > 0
  <2>1. Ran(t, LengthPlace)' = executed[t] + block[t] /\ ~ AtLength(t)'
    BY <1>1, <1>8 DEF Ran, Counted, AtLength, LengthPlace, AloneTypes
  <2>2. CountLeft(t, CountedFrom(t, i))'
    <3>1. alarm'["length"].count[t] = knobs'.length - (Ran(t, LengthPlace)' - CountedFrom(t, i)')
      BY <1>5, <1>6, <2>1 DEF AloneTypes
    <3>2. alarm'["length"].count[t] > 0
      BY <1>1, <1>8
    <3>. QED
      BY <3>1, <3>2 DEF CountLeft
  <2>3. LengthRuns(t)'
    BY <1>6, <1>8, <2>1, <2>2 DEF LengthRuns
  <2>. QED
    BY <2>3 DEF LengthState
<1>9. CASE Ranged(t) /\ pc'[t] = "scan" /\ at'[t] = at[t] /\ each'[t] = knobs.low
  <2>1. Ran(t, LengthPlace)' = executed[t] + block[t] /\ AtLength(t)'
    BY <1>1, <1>9 DEF Ran, Counted, AtLength, LengthPlace, AloneTypes
  <2>2. CountLeft(t, CountedFrom(t, i))'
    <3>1. alarm'["length"].count[t] = knobs'.length - (Ran(t, LengthPlace)' - CountedFrom(t, i)')
      BY <1>5, <1>6, <2>1 DEF AloneTypes
    <3>2. executed'[t] < CountedFrom(t, i)' + knobs'.length
      BY <1>1, <1>5, <1>6
    <3>. QED
      BY <1>9, <2>1, <3>1, <3>2 DEF CountLeft
  <2>3. ~ (each'[t] > t)
    BY <1>9 DEF Ranged, AloneTypes
  <2>4. LengthRuns(t)'
    BY <1>6, <1>9, <2>2, <2>3 DEF LengthRuns
  <2>. QED
    BY <2>4 DEF LengthState
<1>. QED
  BY <1>1, <1>7, <1>8, <1>9

\* The range is looked at: no thread but this one has instructions to go.
LEMMA LengthScans ==
  ASSUME CallInv, NEW t \in Threads, AloneTypes(t), LengthState(t), knobs' = knobs, Scans(t),
         \A u \in Threads \ {t} : alarm["length"].count[u] = 0
  PROVE  LengthState(t)'
<1>1. Ranged(t) /\ each[t] \in Threads /\ pc[t] = "scan"
  BY DEF Scans, CallInv, CallTypes, PlaceOf
<1>2. Current(t) = "length" /\ AtLength(t) /\ knobs.high > 0
  BY <1>1 DEF Scans, Ranged, AloneTypes
<1>3. /\ SameLog(t) /\ alarm' = alarm /\ executed'[t] = executed[t] /\ block'[t] = block[t]
      /\ _first' = _first /\ pc'[t] # "work"
  <2>1. SameLog(t)
    BY LogFrame DEF Scans, SameBlock
  <2>. QED
    BY <2>1 DEF Scans, SameBlock, SameAlarms, SameSamples
<1>4. /\ LengthRuns(t) /\ Ran(t, LengthPlace) = executed[t] + block[t]
      /\ each[t] > t => alarm["length"].count[t] <= 0
  <2>1. LengthRuns(t)
    BY <1>1, <1>2 DEF LengthState, LengthBefore, LengthSet, LengthFires, LengthDone, Idle
  <2>. QED
    BY <1>1, <1>2, <2>1 DEF LengthRuns, Ran, Counted, AtLength
<1>5. CASE /\ alarm["length"].count[each[t]] > 0
           /\ pc'[t] = "if" /\ at'[t] = at[t] + 1 /\ each'[t] = 0
  <2>1. alarm["length"].count[t] > 0
    BY <1>1, <1>5
  <2>2. Ran(t, LengthPlace)' = executed[t] + block[t] /\ ~ AtLength(t)'
    BY <1>2, <1>3, <1>5 DEF Ran, Counted, AtLength, LengthPlace, AloneTypes
  <2>3. Passes(t)
    BY <1>1, <1>3, <1>4, <1>5, <2>1, <2>2 DEF Passes
  <2>. QED
    BY <1>5, <2>3, LengthPasses
<1>6. CASE /\ alarm["length"].count[each[t]] <= 0 /\ each[t] # knobs.high
           /\ pc'[t] = "scan" /\ at'[t] = at[t] /\ each'[t] = each[t] + 1
  <2>1. alarm["length"].count[t] <= 0 \/ each'[t] <= t
    BY <1>4, <1>6 DEF AloneTypes
  <2>2. Ran(t, LengthPlace)' = executed[t] + block[t] /\ AtLength(t)'
    BY <1>2, <1>3, <1>6 DEF Ran, Counted, AtLength, LengthPlace, AloneTypes
  <2>3. Passes(t)
    BY <1>1, <1>2, <1>3, <1>4, <1>6, <2>1, <2>2 DEF Passes
  <2>4. each'[t] \in Nat
    BY <1>6 DEF AloneTypes
  <2>. QED
    BY <2>3, <2>4, LengthPasses
<1>7. CASE /\ alarm["length"].count[each[t]] <= 0 /\ each[t] = knobs.high
           /\ pc'[t] = "disarm" /\ at'[t] = at[t] /\ each'[t] = 0
  <2>1. alarm["length"].count[t] <= 0
    <3>1. each[t] = t \/ each[t] > t
      BY <1>2, <1>7 DEF AloneTypes
    <3>. QED
      BY <1>4, <1>7, <3>1
  <2>2. PICK i \in Starts(t) : Starts(t) = {i} /\ CountLeft(t, CountedFrom(t, i))
    BY <1>4 DEF LengthRuns
  <2>3. PICK m \in Int : m = CountedFrom(t, i)
    BY CountedTypes
  <2>4. executed[t] < m + knobs.length /\ m + knobs.length <= executed[t] + block[t]
    <3>1. executed[t] < m + knobs.length
      BY <2>1, <2>2, <2>3 DEF CountLeft, AloneTypes
    <3>2. alarm["length"].count[t] = knobs.length - (executed[t] + block[t] - m)
      BY <1>4, <2>2, <2>3 DEF CountLeft, AloneTypes
    <3>. QED
      BY <2>1, <3>1, <3>2 DEF AloneTypes
  <2>5. /\ Starts(t)' = {i} /\ Stops(t)' = {} /\ CountedFrom(t, i)' = m /\ Started(t)'
    BY <1>3, <1>4, <2>2, <2>3 DEF LengthRuns, SameLog, Started
  <2>6. Reaches(t, CountedFrom(t, i))'
    BY <1>3, <2>4, <2>5 DEF Reaches
  <2>7. AtLength(t)' /\ each'[t] <= t
    BY <1>2, <1>7 DEF AtLength, LengthPlace, AloneTypes
  <2>8. LengthFires(t)'
    BY <1>7, <2>5, <2>6, <2>7 DEF LengthFires
  <2>. QED
    BY <2>8 DEF LengthState
<1>. QED
  BY <1>2, <1>5, <1>6, <1>7 DEF Scans

\* The thread that has fired is disarmed before its stop.
LEMMA LengthDisarms ==
  ASSUME CallInv, NEW t \in Threads, AloneTypes(t), LengthState(t), knobs' = knobs,
         Disarms(t), AtLength(t)
  PROVE  LengthState(t)'
<1>1. /\ SameLog(t) /\ executed'[t] = executed[t] /\ block'[t] = block[t] /\ _first' = _first
      /\ pc[t] = "disarm" /\ at'[t] = at[t] /\ Current(t) = "length" /\ TurnOf(t, DisarmTid(t))
      /\ pc'[t] = (IF AtEnd(t, DisarmTid(t)) THEN "then" ELSE "disarm")
      /\ alarm'["length"].armed[Entry(t, DisarmTid(t))] = FALSE
      /\ \A u \in Threads \ {Entry(t, DisarmTid(t))} :
           alarm'["length"].armed[u] = alarm["length"].armed[u]
  <2>1. SameLog(t)
    BY LogFrame DEF Disarms, SameBlock
  <2>2. Current(t) = "length"
    BY DEF Disarms, AloneTypes
  <2>. QED
    BY <2>1, <2>2 DEF Disarms, SameBlock, SameSamples
<1>2. LengthFires(t) /\ (each[t] <= t \/ alarm["length"].armed[t] = FALSE)
  <2>1. LengthFires(t)
    BY <1>1 DEF LengthState, LengthBefore, LengthSet, LengthRuns, LengthDone, Idle
  <2>. QED
    BY <1>1, <2>1 DEF LengthFires
<1>3. \/ alarm'["length"].armed[t] = FALSE
      \/ pc'[t] = "disarm" /\ each'[t] <= t
  <2>1. CASE Entry(t, DisarmTid(t)) = t
    BY <1>1, <2>1
  <2>2. CASE Entry(t, DisarmTid(t)) # t
    <3>1. DisarmTid(t) = ALL_THREADS /\ Entry(t, DisarmTid(t)) = each[t]
      BY <2>2 DEF DisarmTid, Entry, AloneTypes
    <3>2. alarm'["length"].armed[t] = alarm["length"].armed[t]
      BY <1>1, <2>2
    <3>3. CASE each[t] <= t
      <4>1. each[t] < t
        BY <2>2, <3>1, <3>3 DEF AloneTypes
      <4>2. each[t] # NumThreads - 1 /\ t <= NumThreads - 1
        BY <4>1, TidFacts DEF AloneTypes
      <4>3. ~ AtEnd(t, DisarmTid(t))
        BY <3>1, <4>2 DEF AtEnd
      <4>4. each'[t] = each[t] + 1
        BY <1>1, <4>3 DEF TurnOf
      <4>. QED
        BY <1>1, <4>1, <4>3, <4>4 DEF AloneTypes
    <3>. QED
      BY <1>2, <3>2, <3>3
  <2>. QED
    BY <2>1, <2>2
<1>4. PICK i \in Starts(t) : Starts(t) = {i} /\ Reaches(t, CountedFrom(t, i))
  BY <1>2 DEF LengthFires
<1>5. Starts(t)' = {i} /\ Stops(t)' = {} /\ Reaches(t, CountedFrom(t, i))' /\ Started(t)'
  BY <1>1, <1>2, <1>4 DEF LengthFires, SameLog, Started, Reaches
<1>6. AtLength(t)' /\ pc'[t] \in {"disarm", "then"}
  BY <1>1 DEF AtLength, LengthPlace
<1>7. LengthFires(t)'
  BY <1>3, <1>5, <1>6 DEF LengthFires
<1>. QED
  BY <1>7 DEF LengthState

\* The handlers of the skip and of the length, and the call of CONTROL_INIT.
LEMMA LengthHandles ==
  ASSUME CallInv, SkipInv, NEW t \in Threads, Alone(t), AloneTypes(t), LengthState(t),
         knobs' = knobs, Handles(t), stage = "run", stage' = "run"
  PROVE  LengthState(t)'
<1>1. /\ SameLog(t) /\ alarm' = alarm /\ executed'[t] = executed[t] /\ block'[t] = block[t]
      /\ _first' = _first /\ pc[t] = "then" /\ pc'[t] = "work" /\ at'[t] = at[t]
      /\ at[t] <= LengthPlace /\ work'[t] = Handler(Current(t))
  <2>1. SameLog(t)
    BY LogFrame DEF Handles, SameBlock
  <2>2. at[t] <= LengthPlace
    BY DEF Handles, AloneTypes
  <2>. QED
    BY <2>1, <2>2 DEF Handles, SameBlock, SameAlarms, SameSamples, From
<1>2. (AtLength(t)' <=> AtLength(t)) /\ LengthPlace' = LengthPlace
  BY <1>1 DEF AtLength, LengthPlace
<1>3. CASE AtLength(t)
  <2>1. LengthFires(t)
    BY <1>1, <1>3 DEF LengthState, LengthBefore, LengthSet, LengthRuns, LengthDone, Idle
  <2>2. work'[t] = <<StopTask>> /\ <<StopTask>> # <<>>
    BY <1>1, <1>3, FirstPlans, ListFacts DEF AloneTypes
  <2>3. PICK i \in Starts(t) : Starts(t) = {i} /\ Reaches(t, CountedFrom(t, i))
    BY <2>1 DEF LengthFires
  <2>4. Starts(t)' = {i} /\ Stops(t)' = {} /\ Reaches(t, CountedFrom(t, i))' /\ Started(t)'
    BY <1>1, <1>2, <1>3, <2>1, <2>3 DEF LengthFires, SameLog, Started, Reaches
  <2>5. alarm'["length"].armed[t] = FALSE
    BY <1>1, <2>1 DEF LengthFires
  <2>6. LengthFires(t)'
    BY <1>1, <1>2, <1>3, <2>2, <2>4, <2>5 DEF LengthFires
  <2>. QED
    BY <2>6 DEF LengthState
<1>4. CASE ~ AtLength(t)
  <2>1. Current(t) = "skip" /\ at[t] = 1 /\ knobs.skip > 0
    BY <1>1, <1>4 DEF AtLength, AloneTypes
  <2>2. Starts(t) = {}
    <3>1. SkipState(t)
      BY <2>1 DEF Alone, SkipInv
    <3>. QED
      BY <1>1, <2>1, <3>1 DEF SkipState, SkipBefore, SkipFires, SkipDone
  <2>3. LengthBefore(t)
    BY <1>1, <2>2 DEF LengthState, LengthSet, LengthRuns, LengthFires, LengthDone, StoppedAt
  <2>4. work'[t] = SetLength /\ SetLength' = SetLength
    BY <1>1, <2>1, FirstPlans DEF StartList, SetLength, AloneTypes
  <2>5. LengthBefore(t)'
    BY <1>1, <1>2, <1>4, <2>1, <2>3, <2>4 DEF LengthBefore, Idle, SameLog, AloneTypes
  <2>. QED
    BY <2>5 DEF LengthState
<1>. QED
  BY <1>3, <1>4

\* CONTROL_INIT keeps the phase of the thread it starts.
LEMMA LengthBegins ==
  ASSUME CallInv, NEW t \in Threads, Alone(t), AloneTypes(t), LengthState(t), knobs' = knobs,
         Begins(t)
  PROVE  LengthState(t)'
<1>1. /\ SameLog(t) /\ alarm' = alarm /\ pc'[t] = "work" /\ at'[t] = at[t]
      /\ at[t] = LengthPlace + 1 /\ work'[t] = SetLength /\ _first = TRUE /\ knobs.skip = 0
      /\ pc[t] = "if"
  <2>1. SameLog(t)
    BY LogFrame DEF Begins, SameBlock
  <2>2. work'[t] = SetLength
    BY DEF Begins, StartList, SetLength, AloneTypes
  <2>. QED
    BY <2>1, <2>2 DEF Begins, SameAlarms, From, AloneTypes
<1>2. ~ AtLength(t)' /\ at'[t] > LengthPlace' /\ SetLength' = SetLength
  BY <1>1 DEF AtLength, LengthPlace, AloneTypes, SetLength
<1>3. LengthBefore(t)
  BY <1>1 DEF LengthState, LengthSet, LengthRuns, LengthFires, LengthDone, Started
<1>4. LengthBefore(t)'
  BY <1>1, <1>2, <1>3 DEF LengthBefore, Idle, SameLog
<1>. QED
  BY <1>4 DEF LengthState

\* The lists of a start, one after the other.
LEMMA PlansDiffer ==
  LET q == <<StartTask>>
  IN  /\ CountPlan("length", q) \notin {ArmPlan("length", q), StorePlan("length", q), q, <<>>}
      /\ ArmPlan("length", q) \notin {StorePlan("length", q), q, <<>>}
      /\ StorePlan("length", q) \notin {q, <<>>} /\ q # <<>>
<1>1. PICK q \in Seq(Tasks) : q = <<StartTask>>
  <2>1. <<StartTask>> \in Seq(Tasks)
    <3>. HIDE DEF Tasks
    <3>. QED
      BY TaskTypes
  <2>. QED
    BY <2>1
<1>2. "length" \in Alarms
  BY DEF Alarms
<1>3. /\ Head(CountPlan("length", q)) = Task("count", "length")
      /\ Head(ArmPlan("length", q)) = Task("arm", "length")
      /\ Head(StorePlan("length", q)) = Task("handler", "length")
      /\ CountPlan("length", q) # <<>> /\ ArmPlan("length", q) # <<>>
      /\ StorePlan("length", q) # <<>>
  BY <1>2, PlanFacts
<1>4. Head(q) = Task("notify", "start") /\ q # <<>>
  BY <1>1, ListFacts DEF StartTask
<1>5. /\ Task("count", "length").op = "count" /\ Task("arm", "length").op = "arm"
      /\ Task("handler", "length").op = "handler" /\ Task("notify", "start").op = "notify"
  BY TaskFields
<1>6. /\ CountPlan("length", q) \notin {ArmPlan("length", q), StorePlan("length", q), q, <<>>}
      /\ ArmPlan("length", q) \notin {StorePlan("length", q), q, <<>>}
      /\ StorePlan("length", q) \notin {q, <<>>} /\ q # <<>>
  BY <1>3, <1>4, <1>5
<1>. QED
  BY <1>1, <1>6

\* The handler's list arms the length and starts, or stops.
LEMMA LengthWorks ==
  ASSUME CallInv, NEW t \in Threads, Alone(t), AloneTypes(t), LengthState(t), knobs' = knobs,
         Works(t)
  PROVE  LengthState(t)'
<1>. DEFINE q == <<StartTask>>
<1>1. /\ at'[t] = at[t] /\ pc[t] = "work" /\ pc'[t] = "work" /\ work[t] # <<>>
      /\ executed'[t] = executed[t] /\ block'[t] = block[t] /\ _first' = _first
  BY DEF Works, From
<1>2. /\ Ran(t, LengthPlace)' = Ran(t, LengthPlace) /\ (AtLength(t)' <=> AtLength(t))
      /\ LengthPlace' = LengthPlace /\ SetLength' = SetLength
  BY <1>1 DEF Ran, Counted, AtLength, LengthPlace, SetLength, AloneTypes
<1>3. ~ AtLength(t) /\ knobs.skip = 0 => at[t] > LengthPlace /\ _first = FALSE
  <2>1. knobs.skip = 0 => LengthPlace = 1 /\ Len(Inserted) = 1
    BY DEF AloneTypes
  <2>2. at[t] > Len(Inserted) => ~ _first
    BY <1>1 DEF CallInv, PlaceOf, AloneTypes
  <2>. QED
    BY <2>1, <2>2 DEF AtLength, AloneTypes
<1>4. ~ AtLength(t) => LengthSet(t) \/ (LengthBefore(t) /\ work[t] = SetLength)
  <2>1. ~ AtLength(t) => ~ LengthRuns(t) /\ ~ LengthFires(t) /\ ~ LengthDone(t)
    BY <1>1 DEF LengthRuns, LengthFires, LengthDone, Started
  <2>2. ~ AtLength(t) /\ LengthBefore(t) => work[t] = SetLength
    BY <1>1, <1>3 DEF LengthBefore, AloneTypes
  <2>. QED
    BY <2>1, <2>2 DEF LengthState
<1>5. CASE SetStep(t, "length", q) /\ (at[t] > Len(Inserted) \/ Current(t) = "skip")
  <2>1. ~ AtLength(t)
    BY <1>5 DEF AloneTypes, AtLength
  <2>2. log' = log /\ (Counts(t, "length", q) \/ Arms(t, "length", q) \/ Installs(t, "length", q))
    <3>1. "length" \in Alarms /\ CallTypes
      BY DEF Alarms, CallInv
    <3>. QED
      BY <1>5, <3>1, SetLists, TaskTypes
  <2>3. SameLog(t)
    BY <2>2, LogFrame
  <2>4. AtEnd(t, AlarmTid("length")) /\ Entry(t, AlarmTid("length")) = t
    BY DEF AtEnd, Entry, AlarmTid, AloneTypes
  <2>5. AlarmTid("length") = t /\ AlarmCount("length") = knobs.length
    BY DEF AlarmTid, AlarmCount, AloneTypes
  <2>6. knobs.skip = 0 => _first = FALSE
    BY <1>3, <2>1
  <2>7. CASE Counts(t, "length", q)
    <3>1. LengthBefore(t)
      BY <1>4, <2>1, <2>7, PlansDiffer DEF LengthSet, Counts
    <3>2. /\ work'[t] = ArmPlan("length", q) /\ alarm'["length"].tid = t
          /\ alarm'["length"].count[t] = knobs.length
          /\ alarm'["length"].armed = alarm["length"].armed
      BY <2>4, <2>5, <2>7 DEF Counts
    <3>3. LengthSet(t)'
      BY <1>1, <1>2, <2>1, <2>3, <2>6, <3>1, <3>2 DEF LengthBefore, LengthSet, SameLog
    <3>. QED
      BY <3>3 DEF LengthState
  <2>8. CASE Arms(t, "length", q)
    <3>1. LengthSet(t)
      BY <1>4, <2>1, <2>8, PlansDiffer DEF SetLength, Arms
    <3>2. /\ work'[t] = StorePlan("length", q) /\ alarm'["length"].armed[t] = TRUE
          /\ alarm'["length"].tid = alarm["length"].tid
          /\ alarm'["length"].count = alarm["length"].count
      BY <2>4, <2>8 DEF Arms
    <3>3. LengthSet(t)'
      BY <1>1, <1>2, <2>1, <2>3, <2>6, <3>1, <3>2 DEF LengthSet, SameLog
    <3>. QED
      BY <3>3 DEF LengthState
  <2>9. CASE Installs(t, "length", q)
    <3>1. LengthSet(t) /\ alarm["length"].armed[t] = TRUE
      <4>1. LengthSet(t)
        BY <1>4, <2>1, <2>9, PlansDiffer DEF SetLength, Installs
      <4>. QED
        BY <2>9, <4>1, PlansDiffer DEF LengthSet, Installs
    <3>2. /\ work'[t] = q /\ alarm'["length"].armed = alarm["length"].armed
          /\ alarm'["length"].tid = alarm["length"].tid
          /\ alarm'["length"].count = alarm["length"].count
      BY <2>9 DEF Installs
    <3>3. LengthSet(t)'
      BY <1>1, <1>2, <2>1, <2>3, <2>6, <3>1, <3>2 DEF LengthSet, SameLog
    <3>. QED
      BY <3>3 DEF LengthState
  <2>. QED
    BY <2>2, <2>7, <2>8, <2>9
<1>6. CASE NotifyStep(t, "start") /\ (at[t] > Len(Inserted) \/ Current(t) = "skip")
  <2>1. /\ ~ AtLength(t) /\ (knobs.skip > 0 => at[t] = 1) /\ (knobs.skip = 0 => at[t] > LengthPlace)
    <3>1. ~ AtLength(t)
      BY <1>6 DEF AloneTypes, AtLength
    <3>2. at[t] > LengthPlace => knobs.skip = 0
      BY <1>1 DEF CallInv, PlaceOf, AloneTypes
    <3>. QED
      BY <1>3, <3>1, <3>2 DEF AtLength, AloneTypes
  <2>n. PICK n : n = Len(log[t]) + 1
    OBVIOUS
  <2>2. /\ Starts(t)' = Starts(t) \cup {n} /\ Stops(t)' = Stops(t)
        /\ log'[t][n].first = executed[t] + 1 /\ log'[t][n].last = executed[t] + block[t]
        /\ work[t] = q /\ work'[t] = <<>> /\ alarm' = alarm
    BY <1>6, <2>n, NotifyEvents DEF StartTask
  <2>3. LengthSet(t) /\ alarm["length"].armed[t] = TRUE
    <3>1. LengthSet(t)
      BY <1>4, <2>1, <2>2, PlansDiffer DEF SetLength
    <3>. QED
      BY <2>2, <3>1, PlansDiffer DEF LengthSet
  <2>4. /\ Starts(t)' = {n} /\ Stops(t)' = {} /\ alarm'["length"].armed[t] = TRUE
        /\ alarm'["length"].tid = t /\ alarm'["length"].count[t] = knobs.length
    BY <2>2, <2>3 DEF LengthSet
  <2>5. CountedFrom(t, n)' = Ran(t, LengthPlace)' /\ Ran(t, LengthPlace) \in Int
    <3>1. CASE knobs.skip > 0
      BY <1>1, <1>2, <2>1, <2>2, <3>1 DEF CountedFrom, Ran, Counted, AloneTypes
    <3>2. CASE knobs.skip = 0
      BY <1>1, <1>2, <2>1, <2>2, <3>2 DEF CountedFrom, Ran, Counted, AloneTypes
    <3>. QED
      BY <3>1, <3>2 DEF AloneTypes
  <2>6. CountLeft(t, CountedFrom(t, n))'
    <3>1. alarm'["length"].count[t] = knobs'.length - (Ran(t, LengthPlace)' - CountedFrom(t, n)')
      BY <1>2, <2>4, <2>5 DEF AloneTypes
    <3>2. alarm'["length"].count[t] > 0
      BY <2>4 DEF AloneTypes
    <3>. QED
      BY <3>1, <3>2 DEF CountLeft
  <2>7. Started(t)'
    BY <1>1, <1>2, <1>3, <2>1, <2>2 DEF Started
  <2>8. LengthRuns(t)'
    BY <1>1, <1>2, <2>1, <2>4, <2>6, <2>7 DEF LengthRuns
  <2>. QED
    BY <2>8 DEF LengthState
<1>7. CASE NotifyStep(t, "stop") /\ at[t] <= Len(Inserted) /\ Current(t) = "length"
  <2>1. AtLength(t)
    BY <1>7 DEF AloneTypes
  <2>2. LengthFires(t) /\ alarm["length"].armed[t] = FALSE
    <3>1. LengthFires(t)
      BY <1>1, <2>1 DEF LengthState, LengthBefore, LengthSet, LengthRuns, LengthDone, Idle
    <3>. QED
      BY <1>1, <3>1 DEF LengthFires
  <2>n. PICK n : n = Len(log[t]) + 1
    OBVIOUS
  <2>3. /\ Starts(t)' = Starts(t) /\ Stops(t)' = Stops(t) \cup {n}
        /\ \A i \in Starts(t) \cup Stops(t) : log'[t][i] = log[t][i]
        /\ log'[t][n].first = executed[t] + 1 /\ log'[t][n].last = executed[t] + block[t]
        /\ work'[t] = <<>> /\ alarm' = alarm
    BY <1>7, <2>n, NotifyEvents
  <2>4. PICK i \in Starts(t) : Starts(t) = {i} /\ Reaches(t, CountedFrom(t, i))
    BY <2>2 DEF LengthFires
  <2>5. PICK m \in Int : m = CountedFrom(t, i)
    BY CountedTypes
  <2>6. CountedFrom(t, i)' = m
    BY <2>3, <2>5 DEF CountedFrom
  <2>7. Starts(t)' = {i} /\ Stops(t)' = {n}
    BY <2>2, <2>3, <2>4 DEF LengthFires
  <2>8. executed[t] < m + knobs.length /\ m + knobs.length <= executed[t] + block[t]
    BY <2>4, <2>5 DEF Reaches
  <2>9. Within(log'[t][n], CountedFrom(t, i)', knobs'.length)
    BY <2>3, <2>6, <2>8 DEF Within, AloneTypes
  <2>10. CountedFrom(t, i)' + knobs'.length <= Ran(t, LengthPlace)'
    <3>1. Ran(t, LengthPlace)' = executed[t] + block[t]
      BY <1>1, <1>2, <2>1 DEF Ran, Counted, AtLength, AloneTypes
    <3>. QED
      BY <2>6, <2>8, <3>1
  <2>11. StoppedAt(t, i, n)'
    BY <2>7, <2>9, <2>10 DEF StoppedAt, Within
  <2>12. alarm'["length"].armed[t] = FALSE /\ Started(t)' /\ Idle(t)'
    BY <1>1, <1>2, <2>1, <2>2, <2>3 DEF LengthFires, Started, Idle
  <2>13. LengthDone(t)'
    BY <2>11, <2>12 DEF LengthDone
  <2>. QED
    BY <2>13 DEF LengthState
<1>8. knobs.period = 0 /\ knobs.length > 0
  BY DEF AloneTypes
<1>. QED
  BY <1>5, <1>6, <1>7, <1>8, PlainWorks

\* The thread counts its own instructions from its start to its stop.
LEMMA LengthOwnStep ==
  ASSUME CallInv, AloneInv, FirstInv, SkipInv, LengthInv,
         NEW t \in Threads, ControlStep(t), Alone(t), stage' = "run"
  PROVE  LengthState(t)'
<1>1. /\ stage = "run" /\ LengthState(t) /\ Moved(t) /\ knobs' = knobs /\ AloneTypes(t)
      /\ \A u \in Threads \ {t} : alarm["length"].count[u] = 0
  BY Moves, Others, AloneHere DEF LengthInv
<1>2. LengthPlace' = LengthPlace /\ each'[t] \in Nat
  BY <1>1, CallStep, TidFacts DEF LengthPlace, CallTypes
<1>3. /\ pc[t] # "work" => work[t] = <<>>
      /\ pc[t] = "out" => at[t] = 1
      /\ pc[t] = "body" => at[t] > LengthPlace
      /\ pc[t] = "work" /\ at[t] > LengthPlace => work[t] \in StartPlans
  BY <1>1 DEF CallInv, PlaceOf, AloneTypes
<1>. USE DEF From, SameBlock
<1>4. CASE \/ Enters(t) \/ Reads(t) \/ Returns(t) \/ Executes(t) \/ Comes(t) \/ Leaves(t)
           \/ (Skips(t) /\ ~ AtLength(t))
  <2>1. /\ alarm' = alarm /\ log' = log /\ _first' = _first
        /\ pc[t] # "work" \/ work[t] = <<>>
        /\ pc'[t] \notin {"work", "then", "disarm", "scan"} /\ pc[t] \notin {"then", "disarm", "scan"}
    BY <1>3, <1>4
       DEF Enters, Skips, Reads, Returns, Executes, Comes, Leaves, SameAlarms, SameSamples
  <2>2. SameLog(t)
    BY <1>1, <2>1, LogFrame
  <2>3. pc'[t] = "store" /\ AtLength(t)' =>
          alarm["length"].armed[t] = TRUE /\ seen'[t] = alarm["length"].count[t]
    <3>1. pc'[t] = "store" => Reads(t)
      BY <1>4 DEF Enters, Skips, Returns, Executes, Comes, Leaves
    <3>2. ASSUME Reads(t), AtLength(t)'
          PROVE  Concerns(alarm["length"], t) /\ seen'[t] = alarm["length"].count[t]
      <4>1. Current(t) = "length"
        BY <1>1, <1>2, <3>2 DEF Reads, AtLength, AloneTypes
      <4>. QED
        BY <3>2, <4>1 DEF Reads
    <3>3. Concerns(alarm["length"], t) => alarm["length"].armed[t] = TRUE
      BY <1>1 DEF Concerns, AloneTypes
    <3>. QED
      BY <3>1, <3>2, <3>3
  <2>4. Ran(t, LengthPlace)' = Ran(t, LengthPlace)
    BY <1>1, <1>2, <1>3, <1>4
       DEF Enters, Skips, Reads, Returns, Executes, Comes, Leaves, AtLength, Ran, Counted, AloneTypes
  <2>5. Passes(t)
    BY <2>1, <2>2, <2>3, <2>4 DEF Passes
  <2>. QED
    BY <1>1, <1>2, <2>5, LengthPasses
<1>5. CASE (Stores(t) \/ Disarms(t)) /\ ~ AtLength(t)
  <2>1. alarm'["length"] = alarm["length"]
    <3>1. ~ Works(t)
      BY <1>5 DEF Stores, Disarms, Works
    <3>. QED
      BY <1>1, <1>5, <3>1, LengthAlarms DEF AloneTypes
  <2>2. ~ Ranged(t) /\ at[t] < LengthPlace /\ at'[t] \in {at[t], at[t] + 1}
    <3>1. Current(t) = "skip"
      BY <1>1, <1>5 DEF Stores, Disarms, AloneTypes
    <3>. QED
      BY <1>1, <1>5, <3>1 DEF Stores, Disarms, AloneTypes, Ranged, AtLength
  <2>3. /\ log' = log /\ _first' = _first /\ pc[t] \notin {"work", "scan"}
        /\ pc'[t] \in {"if", "disarm", "then"}
        /\ executed'[t] = executed[t] /\ block'[t] = block[t]
        /\ pc'[t] # "if" => at'[t] = at[t]
    BY <1>5, <2>2 DEF Stores, Disarms, SameSamples
  <2>4. SameLog(t)
    BY <1>1, <2>3, LogFrame
  <2>5. Ran(t, LengthPlace)' = Ran(t, LengthPlace)
    BY <1>1, <1>2, <2>2, <2>3 DEF Ran, Counted, AloneTypes
  <2>6. AtLength(t)' => pc'[t] = "if"
    BY <1>1, <1>2, <2>2, <2>3 DEF AtLength, AloneTypes
  <2>7. Passes(t)
    BY <1>5, <2>1, <2>3, <2>4, <2>5, <2>6 DEF Passes
  <2>. QED
    BY <1>1, <1>2, <2>7, LengthPasses
<1>6. CASE Skips(t) /\ AtLength(t)
  BY <1>1, <1>6, LengthSkips
<1>7. CASE Stores(t) /\ AtLength(t)
  BY <1>1, <1>7, LengthStores
<1>8. CASE Disarms(t) /\ AtLength(t)
  BY <1>1, <1>8, LengthDisarms
<1>9. CASE Scans(t)
  BY <1>1, <1>9, LengthScans
<1>10. CASE Handles(t)
  BY <1>1, <1>10, LengthHandles
<1>11. CASE Works(t)
  BY <1>1, <1>11, LengthWorks
<1>12. CASE Begins(t)
  BY <1>1, <1>12, LengthBegins
<1>. QED
  BY <1>1, <1>4, <1>5, <1>6, <1>7, <1>8, <1>9, <1>10, <1>11, <1>12 DEF Moved

\* Only the one thread writes its counts.
LEMMA LengthOthers ==
  ASSUME CallInv, AloneInv, FirstInv, NEW t \in Threads, ControlStep(t),
         NEW v \in Threads, Alone(v)
  PROVE  /\ t # v => alarm'["length"] = alarm["length"]
         /\ \A u \in Threads \ {v} : alarm'["length"].count[u] = alarm["length"].count[u]
<1>1. knobs.length > 0 /\ knobs.period = 0 /\ knobs.lengthTid = v /\ v # ALL_THREADS
  BY AloneFacts DEF Alone
<1>2. /\ Len(Inserted) = LengthPlace /\ at[t] \in Nat /\ LengthPlace \in Nat
      /\ at[t] <= LengthPlace => (Current(t) = "length" <=> AtLength(t))
  BY <1>1, LengthPlaces
<1>3. \/ alarm'["length"] = alarm["length"]
      \/ AtLength(t) /\ (Stores(t) \/ Disarms(t))
      \/ /\ Works(t) /\ SetStep(t, "length", <<StartTask>>)
         /\ at[t] > LengthPlace \/ Current(t) = "skip"
  BY <1>1, LengthAlarms
<1>4. CASE AtLength(t) /\ (Stores(t) \/ Disarms(t))
  <2>1. t = v
    BY <1>4, AloneFacts DEF Stores, Disarms, InAlarm
  <2>2. Current(t) = "length"
    BY <1>2, <1>4 DEF AtLength
  <2>. QED
    BY <1>4, <2>1, <2>2 DEF Stores, Disarms
<1>5. CASE /\ Works(t) /\ SetStep(t, "length", <<StartTask>>)
           /\ at[t] > LengthPlace \/ Current(t) = "skip"
  <2>1. ~ AtLength(t)
    BY <1>2, <1>5 DEF AtLength
  <2>2. t = v
    BY <1>5, <2>1, AloneFacts DEF Works, From
  <2>3. AlarmTid("length") = v /\ Entry(t, AlarmTid("length")) = v
    BY <1>1 DEF AlarmTid, Entry
  <2>4. "length" \in Alarms /\ CallTypes
    BY DEF Alarms, CallInv
  <2>5. \/ Counts(t, "length", <<StartTask>>) \/ Arms(t, "length", <<StartTask>>)
        \/ Installs(t, "length", <<StartTask>>)
    BY <1>5, <2>4, SetLists, TaskTypes
  <2>6. \A u \in Threads \ {v} : alarm'["length"].count[u] = alarm["length"].count[u]
    <3>1. CASE Counts(t, "length", <<StartTask>>)
      BY <2>3, <3>1 DEF Counts
    <3>2. CASE Arms(t, "length", <<StartTask>>)
      BY <3>2 DEF Arms
    <3>3. CASE Installs(t, "length", <<StartTask>>)
      BY <3>3 DEF Installs
    <3>. QED
      BY <2>5, <3>1, <3>2, <3>3
  <2>. QED
    BY <2>2, <2>6
<1>. QED
  BY <1>3, <1>4, <1>5

\* The others change nothing of it.
LEMMA LengthStep ==
  ASSUME CallInv, AloneInv, FirstInv, SkipInv, LengthInv, NEW t \in Threads, ControlStep(t)
  PROVE  LengthInv'
<1>1. knobs' = knobs /\ stage = "run" /\ Starters' = Starters
  BY Others, Moves
<1>. SUFFICES ASSUME NEW v \in Threads, Alone(v)
     PROVE  /\ \A u \in Threads \ {v} : alarm'["length"].count[u] = 0
            /\ stage' = "run" => LengthState(v)'
  BY <1>1 DEF LengthInv, Alone, InRange
<1>2. LengthState(v) /\ \A u \in Threads \ {v} : alarm["length"].count[u] = 0
  BY <1>1 DEF LengthInv
<1>3. \A u \in Threads \ {v} : alarm'["length"].count[u] = 0
  BY <1>2, LengthOthers
<1>4. CASE v = t
  BY <1>3, <1>4, LengthOwnStep
<1>5. CASE v # t
  <2>1. Frame(v) /\ Starts(v)' = Starts(v) /\ Stops(v)' = Stops(v)
    BY <1>5, Others DEF Starts, Stops
  <2>2. alarm'["length"] = alarm["length"]
    BY <1>5, LengthOthers
  <2>3. knobs.skip = 0 => _first' = _first
    <3>1. CASE Begins(t)
      <4>1. _first /\ pc[t] = "if"
        BY <3>1 DEF Begins, From
      <4>2. knobs.skip = 0 => pc[t] = "out"
        BY <1>5, <4>1, AloneFacts
      <4>. QED
        BY <4>1, <4>2
    <3>2. CASE ~ Begins(t)
      BY <3>2, Moves DEF Moved, Enters, Skips, Reads, Stores, Scans, Disarms, Handles, Works,
                         Returns, Executes, Comes, Leaves, SameSamples
    <3>. QED
      BY <3>1, <3>2
  <2>4. LengthState(v)'
    BY <1>1, <1>2, <2>1, <2>2, <2>3, LengthFrame
  <2>. QED
    BY <1>3, <2>4
<1>. QED
  BY <1>4, <1>5

\* At the beginning no interval has been started.
LEMMA LengthInit == ControlInit => LengthInv
<1>. SUFFICES ASSUME ControlInit, NEW t \in Threads, Alone(t)
     PROVE  /\ \A u \in Threads \ {t} : alarm["length"].count[u] = 0
            /\ LengthState(t)
  BY DEF LengthInv
<1>1. "length" \in Alarms /\ "length" \notin FirstAlarms
  BY DEF Alarms, FirstAlarms, Alone
<1>2. \A u \in Threads : alarm["length"].count[u] = 0 /\ alarm["length"].armed[u] = FALSE
  BY <1>1, InitAlarms DEF ALARM_ICOUNT
<1>3. Starts(t) = {} /\ Stops(t) = {} /\ pc[t] = "out" /\ _first = TRUE
  BY DEF Starts, Stops, Events, ControlInit
<1>4. LengthBefore(t)
  BY <1>2, <1>3 DEF LengthBefore, Idle
<1>. QED
  BY <1>2, <1>4 DEF LengthState

\* At the end of a block the stop is there if its instruction is.
LEMMA LengthConclusion ==
  ASSUME CallInv, AloneInv, FirstInv, SkipInv, LengthInv
  PROVE  StopsAfterLength
<1>. SUFFICES ASSUME NEW t \in Threads, AtBlockEnd(t), Alone(t)
     PROVE  /\ Starts(t) = {} => Stops(t) = {}
            /\ \A i \in Starts(t) : OnceAfter(t, Stops(t), CountedFrom(t, i), knobs.length)
  BY Zenon DEF StopsAfterLength, Alone, Starts, Stops, CountedFrom
<1>1. /\ stage = "run" /\ pc[t] = "out" /\ AloneTypes(t) /\ LengthState(t)
      /\ at[t] = 1 /\ block[t] = 0
  BY AloneHere DEF AtBlockEnd, LengthInv, CallInv, PlaceOf
<1>2. Ran(t, LengthPlace) = executed[t]
  BY <1>1 DEF Ran, Counted, AloneTypes
<1>3. CASE LengthBefore(t)
  BY <1>3 DEF LengthBefore
<1>4. CASE LengthRuns(t)
  <2>1. PICK i \in Starts(t) : Starts(t) = {i} /\ CountLeft(t, CountedFrom(t, i))
    BY <1>4 DEF LengthRuns
  <2>2. PICK m \in Int : m = CountedFrom(t, i)
    BY CountedTypes
  <2>3. ~ (executed[t] >= m + knobs.length)
    BY <1>1, <1>2, <2>1, <2>2 DEF CountLeft, AloneTypes
  <2>. QED
    BY <1>4, <2>1, <2>2, <2>3 DEF OnceAfter, LengthRuns
<1>5. CASE LengthDone(t)
  <2>1. PICK i, j : StoppedAt(t, i, j)
    BY <1>5 DEF LengthDone
  <2>2. PICK m \in Int : m = CountedFrom(t, i)
    BY <2>1, CountedTypes DEF StoppedAt
  <2>3. executed[t] >= m + knobs.length
    BY <1>1, <1>2, <2>1, <2>2 DEF StoppedAt, AloneTypes
  <2>. QED
    BY <2>1, <2>2, <2>3 DEF OnceAfter, StoppedAt
<1>. QED
  BY <1>1, <1>3, <1>4, <1>5 DEF LengthState, LengthSet, LengthFires
-----------------------------------------------------------------------------
(***************************************************************************)
(* The range of -length: what its threads have counted when one of them    *)
(* sees that all have.                                                     *)
(***************************************************************************)

\* The length has been armed for u; it has come to its own Mth instruction.
WasArmed(u) == since[u] # NotArmed

Reached(u) ==
  WasArmed(u) /\ executed[u] + block[u] >= since[u].first - 1 + knobs.length

AllReached == \A u \in knobs.low .. knobs.high : Reached(u)

\* No thread's count runs ahead of its instructions.
Lag(u) ==
  WasArmed(u) =>
    /\ since[u].ev = "armed" /\ since[u].first - 1 <= executed[u]
    /\ alarm["length"].count[u] >= knobs.length - (Ran(u, LengthPlace) - (since[u].first - 1))

\* The count is set before the alarm is armed.
Fresh(u) == ~ WasArmed(u) => alarm["length"].count[u] = knobs.length

\* What has been set when a thread arms, and seen when it fires.
Arming(t) ==
  pc[t] = "work" =>
    /\ work[t] = SetLength => \A u \in Threads : u < each[t] => Fresh(u)
    /\ work[t] = ArmPlan("length", <<StartTask>>) => \A u \in Threads : Fresh(u)

Sees(t) ==
  AtLength(t) =>
    /\ InAlarm(t) => WasArmed(t)
    /\ pc[t] = "store" => seen[t] >= knobs.length - (executed[t] - (since[t].first - 1))
    /\ pc[t] = "scan" => \A u \in Threads : knobs.low <= u /\ u < each[t] => Reached(u)
    /\ pc[t] \in {"disarm", "then"} => AllReached
    /\ pc[t] = "work" /\ work[t] # <<>> => AllReached

RangeInv ==
  RangeOnly =>
    /\ \A u \in Threads : /\ Lag(u) /\ Arming(u) /\ Sees(u)
                          /\ alarm["length"].armed[u] = TRUE => WasArmed(u)
    /\ (\E u \in Threads : WasArmed(u)) => \A u \in Threads : Fresh(u)
    /\ Stopped => AllReached

\* The parts of the state that the range is about.
RangeTypes ==
  /\ knobs \in Knobs /\ knobs.length \in Nat /\ knobs.length > 0 /\ knobs.skip \in Nat
  /\ knobs.period = 0 /\ knobs.low \in Threads /\ knobs.high \in Threads /\ knobs.high > 0
  /\ LengthPlace \in Nat /\ LengthPlace >= 1
  /\ Len(Inserted) = LengthPlace /\ (InitActive <=> knobs.skip = 0)
  /\ AlarmTid("length") = ALL_THREADS /\ AlarmCount("length") = knobs.length
  /\ "length" \in Alarms /\ CallTypes

ThreadParts(u) ==
  /\ at[u] \in Nat /\ at[u] >= 1 /\ executed[u] \in Nat /\ block[u] \in Nat /\ each[u] \in Threads
  /\ seen[u] \in Int /\ alarm["length"].count[u] \in Int /\ u \in Nat /\ each[u] \in Nat
  /\ alarm["length"].armed[u] \in BOOLEAN /\ since[u].first \in Nat
  /\ at[u] <= LengthPlace => (Current(u) = "length" <=> AtLength(u))
  /\ (pc[u] = "out" => at[u] = 1 /\ block[u] = 0) /\ (pc[u] = "body" => at[u] > LengthPlace)
  /\ pc[u] # "work" => work[u] = <<>>

\* The types of what the proofs about a range use.
LEMMA RangeHere ==
  ASSUME CallInv, RangeOnly
  PROVE  RangeTypes /\ \A u \in Threads : ThreadParts(u)
<1>1. knobs.length > 0 /\ knobs.high > 0 /\ knobs.lengthTid = ALL_THREADS /\ knobs.period = 0
  BY DEF RangeOnly
<1>2. CallTypes /\ knobs \in Knobs /\ "length" \in Alarms
  BY DEF CallInv, CallTypes, Alarms
<1>3. /\ Len(Inserted) = LengthPlace /\ (InitActive <=> knobs.skip = 0)
      /\ LengthPlace \in Nat /\ LengthPlace >= 1
      /\ \A u \in Threads : /\ at[u] \in Nat /\ at[u] >= 1
                            /\ at[u] <= LengthPlace => (Current(u) = "length" <=> AtLength(u))
  BY <1>1, LengthPlaces
<1>4. RangeTypes
  BY <1>1, <1>2, <1>3, KnobFacts DEF RangeTypes, AlarmTid, AlarmCount
<1>5. ASSUME NEW u \in Threads PROVE ThreadParts(u)
  <2>1. /\ executed[u] \in Nat /\ block[u] \in Nat /\ each[u] \in Threads /\ seen[u] \in Int
    BY ControllerAssumption DEF CallInv, CallTypes
  <2>2. alarm["length"].count[u] \in Int /\ alarm["length"].armed[u] \in BOOLEAN
    BY <1>2 DEF CallTypes, AlarmRecords
  <2>3. since[u].first \in Nat
    BY <1>2 DEF CallTypes, ArmedEntries
  <2>4. /\ pc[u] = "out" => at[u] = 1 /\ block[u] = 0
        /\ pc[u] = "body" => at[u] > LengthPlace
        /\ pc[u] # "work" => work[u] = <<>>
    BY <1>3 DEF CallInv, PlaceOf
  <2>5. u \in Nat /\ each[u] \in Nat
    BY <2>1, TidFacts
  <2>. QED
    BY <1>3, <2>1, <2>2, <2>3, <2>4, <2>5 DEF ThreadParts
<1>. QED
  BY <1>4, <1>5

\* What a thread has executed and counted only grows.
Grows(u) ==
  /\ Ran(u, LengthPlace) \in Nat /\ Ran(u, LengthPlace)' \in Nat
  /\ Ran(u, LengthPlace)' >= Ran(u, LengthPlace)
  /\ executed'[u] \in Nat /\ block'[u] \in Nat /\ executed'[u] >= executed[u]
  /\ executed'[u] + block'[u] >= executed[u] + block[u]
  /\ executed[u] <= Ran(u, LengthPlace) /\ Ran(u, LengthPlace) <= executed[u] + block[u]
  /\ Ran(u, LengthPlace)' <= executed'[u] + block'[u]

\* No step takes back the instructions that a thread has executed.
LEMMA RangeGrows ==
  ASSUME CallInv, RangeOnly, NEW t \in Threads, ControlStep(t), NEW u \in Threads
  PROVE  Grows(u)
<1>1. /\ RangeTypes /\ ThreadParts(u) /\ LengthPlace' = LengthPlace /\ Moved(t)
      /\ executed'[u] \in Nat /\ block'[u] \in Nat
  BY RangeHere, Others, Moves, CallStep, ControllerAssumption DEF LengthPlace, CallTypes
<1>2. /\ Ran(u, LengthPlace) \in Nat /\ executed[u] <= Ran(u, LengthPlace)
      /\ Ran(u, LengthPlace) <= executed[u] + block[u]
      /\ Ran(u, LengthPlace)' \in Nat /\ Ran(u, LengthPlace)' <= executed'[u] + block'[u]
  <2>1. Ran(u, LengthPlace) = executed[u] + block[u] \/ Ran(u, LengthPlace) = executed[u]
    BY DEF Ran
  <2>2. Ran(u, LengthPlace)' = executed'[u] + block'[u] \/ Ran(u, LengthPlace)' = executed'[u]
    BY DEF Ran
  <2>3. executed[u] \in Nat /\ block[u] \in Nat
    BY <1>1 DEF ThreadParts
  <2>. QED
    BY <1>1, <2>1, <2>2, <2>3
<1>3. CASE u # t
  <2>1. Frame(u)
    BY <1>3, Others
  <2>2. Ran(u, LengthPlace)' = Ran(u, LengthPlace)
    BY <1>1, <2>1 DEF Ran, Counted, Frame
  <2>. QED
    BY <1>1, <1>2, <2>1, <2>2 DEF Grows, Frame, ThreadParts
<1>4. CASE u = t /\ Leaves(t)
  <2>1. Ran(u, LengthPlace) = executed[u] + block[u] /\ Ran(u, LengthPlace)' = executed'[u]
    BY <1>1, <1>4 DEF Leaves, From, Ran, Counted, ThreadParts, RangeTypes
  <2>. QED
    BY <1>1, <1>2, <1>4, <2>1 DEF Grows, ThreadParts, Leaves
<1>5. CASE u = t /\ Enters(t)
  <2>1. Ran(u, LengthPlace) = executed[u] /\ Ran(u, LengthPlace)' = executed[u]
    BY <1>1, <1>5 DEF Enters, From, Ran, Counted, ThreadParts, RangeTypes
  <2>. QED
    BY <1>1, <1>2, <1>5, <2>1 DEF Grows, ThreadParts, Enters
<1>6. CASE u = t /\ ~ Leaves(t) /\ ~ Enters(t)
  <2>1. executed'[t] = executed[t] /\ block'[t] = block[t]
    BY <1>1, <1>6 DEF Moved, Skips, Reads, Stores, Scans, Disarms, Handles, Works, Returns, Begins,
                      Executes, Comes, SameBlock
  <2>2. Counted(t, LengthPlace) => Counted(t, LengthPlace)'
    BY <1>1, <1>6 DEF Moved, Skips, Reads, Stores, Scans, Disarms, Handles, Works, Returns, Begins,
                      Executes, Comes, From, Counted, ThreadParts, RangeTypes
  <2>3. Ran(t, LengthPlace)' >= Ran(t, LengthPlace)
    BY <1>1, <1>6, <2>1, <2>2 DEF Ran, ThreadParts
  <2>. QED
    BY <1>1, <1>2, <1>6, <2>1, <2>3 DEF Grows, ThreadParts
<1>. QED
  BY <1>3, <1>4, <1>5, <1>6

\* The length is armed once for each thread.
LEMMA ArmedStays ==
  ASSUME NEW u \in Threads, Grows(u), ThreadParts(u), knobs' = knobs, RangeTypes,
         WasArmed(u) => since'[u] = since[u]
  PROVE  /\ WasArmed(u) => WasArmed(u)'
         /\ Reached(u) => Reached(u)'
<1>1. WasArmed(u) => WasArmed(u)'
  BY DEF WasArmed, NotArmed
<1>2. ASSUME Reached(u) PROVE Reached(u)'
  <2>1. since'[u] = since[u] /\ WasArmed(u)'
    BY <1>1, <1>2 DEF Reached
  <2>2. /\ executed'[u] + block'[u] >= executed[u] + block[u]
        /\ executed[u] + block[u] >= since[u].first - 1 + knobs.length
    BY <1>2 DEF Grows, Reached
  <2>3. /\ executed'[u] + block'[u] \in Int /\ executed[u] + block[u] \in Int
        /\ since[u].first - 1 + knobs.length \in Int
    <3>1. executed'[u] \in Nat /\ block'[u] \in Nat
      BY DEF Grows
    <3>2. executed[u] \in Nat /\ block[u] \in Nat /\ since[u].first \in Nat
      BY DEF ThreadParts
    <3>3. knobs.length \in Nat
      BY DEF RangeTypes
    <3>. QED
      BY <3>1, <3>2, <3>3
  <2>4. executed'[u] + block'[u] >= since[u].first - 1 + knobs.length
    BY <2>2, <2>3
  <2>. QED
    BY <2>1, <2>4 DEF Reached
<1>. QED
  BY <1>1, <1>2

\* What a step leaves true of each thread.
Keeps(u) ==
  /\ Lag(u)' /\ (Fresh(u) => Fresh(u)') /\ (Reached(u) => Reached(u)')
  /\ WasArmed(u) => WasArmed(u)' /\ since'[u] = since[u]
  /\ alarm'["length"].armed[u] = TRUE => WasArmed(u)'

\* The lag of a thread whose count is written, as numbers.
LEMMA LagNumbers ==
  ASSUME NEW u \in Threads, Grows(u), ThreadParts(u), RangeTypes, knobs' = knobs,
         NEW f \in Nat, since'[u].first = f, since'[u].ev = "armed", f - 1 <= executed'[u],
         alarm'["length"].count[u] \in Int,
         alarm'["length"].count[u] >= knobs.length - (Ran(u, LengthPlace)' - (f - 1))
  PROVE  Lag(u)'
<1>1. since'[u].first - 1 <= executed'[u]
  OBVIOUS
<1>2. alarm'["length"].count[u] >= knobs'.length - (Ran(u, LengthPlace)' - (since'[u].first - 1))
  OBVIOUS
<1>. QED
  BY <1>1, <1>2 DEF Lag

\* A thread whose count and first arming do not change.
LEMMA KeepsSame ==
  ASSUME NEW u \in Threads, Grows(u), ThreadParts(u), RangeTypes, knobs' = knobs, Lag(u),
         since'[u] = since[u], alarm'["length"].count[u] = alarm["length"].count[u],
         alarm["length"].armed[u] = TRUE => WasArmed(u),
         alarm'["length"].armed[u] = TRUE => alarm["length"].armed[u] = TRUE \/ WasArmed(u)
  PROVE  Keeps(u)
<1>1. (WasArmed(u)' <=> WasArmed(u)) /\ (Reached(u) => Reached(u)')
  BY ArmedStays DEF WasArmed, NotArmed
<1>2. Fresh(u) => Fresh(u)'
  BY <1>1 DEF Fresh
<1>3. Lag(u)'
  <2>1. CASE ~ WasArmed(u)
    BY <1>1, <2>1 DEF Lag
  <2>2. CASE WasArmed(u)
    <3>1. PICK f \in Nat : f = since[u].first
      BY DEF ThreadParts
    <3>2. PICK c \in Int : c = alarm["length"].count[u]
      BY DEF ThreadParts
    <3>3. PICK r \in Nat : r = Ran(u, LengthPlace)
      BY DEF Grows
    <3>4. PICK p \in Nat : p = Ran(u, LengthPlace)'
      BY DEF Grows
    <3>5. PICK x \in Nat, y \in Nat : x = executed[u] /\ y = executed'[u]
      BY DEF Grows, ThreadParts
    <3>6. /\ since[u].ev = "armed" /\ f - 1 <= x /\ c >= knobs.length - (r - (f - 1))
      BY <2>2, <3>1, <3>2, <3>3, <3>5 DEF Lag
    <3>7. p >= r /\ y >= x
      BY <3>3, <3>4, <3>5 DEF Grows
    <3>8. knobs.length \in Nat
      BY DEF RangeTypes
    <3>9. f - 1 <= y /\ c >= knobs.length - (p - (f - 1))
      BY <3>6, <3>7, <3>8
    <3>. QED
      BY <3>1, <3>2, <3>4, <3>5, <3>6, <3>9, LagNumbers
  <2>. QED
    BY <2>1, <2>2
<1>. QED
  BY <1>1, <1>2, <1>3 DEF Keeps

\* A thread whose count is set to the whole length.
LEMMA KeepsSet ==
  ASSUME NEW u \in Threads, Grows(u), ThreadParts(u), RangeTypes, knobs' = knobs, Lag(u),
         since'[u] = since[u], alarm'["length"].count[u] = knobs.length,
         alarm["length"].armed[u] = TRUE => WasArmed(u),
         alarm'["length"].armed[u] = TRUE => alarm["length"].armed[u] = TRUE
  PROVE  Keeps(u) /\ Fresh(u)'
<1>1. (WasArmed(u)' <=> WasArmed(u)) /\ (Reached(u) => Reached(u)')
  BY ArmedStays DEF WasArmed, NotArmed
<1>2. Fresh(u)'
  BY DEF Fresh
<1>3. Lag(u)'
  <2>1. CASE ~ WasArmed(u)
    BY <1>1, <2>1 DEF Lag
  <2>2. CASE WasArmed(u)
    <3>1. PICK f \in Nat : f = since[u].first
      BY DEF ThreadParts
    <3>2. PICK p \in Nat, x \in Nat, y \in Nat :
            p = Ran(u, LengthPlace)' /\ x = executed[u] /\ y = executed'[u]
      BY DEF Grows, ThreadParts
    <3>3. PICK r \in Nat : r = Ran(u, LengthPlace)
      BY DEF Grows
    <3>4. since[u].ev = "armed" /\ f - 1 <= x
      BY <2>2, <3>1, <3>2 DEF Lag
    <3>5. y >= x /\ x <= r /\ r <= p
      BY <3>2, <3>3 DEF Grows
    <3>6. knobs.length \in Nat
      BY DEF RangeTypes
    <3>7. f - 1 <= y /\ knobs.length >= knobs.length - (p - (f - 1))
      BY <3>4, <3>5, <3>6
    <3>. QED
      BY <3>1, <3>2, <3>4, <3>6, <3>7, LagNumbers
  <2>. QED
    BY <2>1, <2>2
<1>. QED
  BY <1>1, <1>2, <1>3 DEF Keeps

\* A thread for which the length is armed for the first time.
LEMMA KeepsFirst ==
  ASSUME NEW u \in Threads, Grows(u), ThreadParts(u), RangeTypes, knobs' = knobs, ~ WasArmed(u),
         Fresh(u), since'[u] = Event(u, "armed"),
         alarm'["length"].count[u] = alarm["length"].count[u]
  PROVE  Keeps(u)
<1>1. since'[u].ev = "armed" /\ since'[u].first = executed[u] + 1
  BY DEF Event
<1>2. WasArmed(u)' /\ ~ Reached(u) /\ Fresh(u)'
  BY <1>1 DEF WasArmed, NotArmed, Reached, Fresh
<1>3. Lag(u)'
  <2>1. PICK p \in Nat, x \in Nat, y \in Nat :
          p = Ran(u, LengthPlace)' /\ x = executed[u] /\ y = executed'[u]
    BY DEF Grows, ThreadParts
  <2>2. PICK r \in Nat : r = Ran(u, LengthPlace)
    BY DEF Grows
  <2>3. y >= x /\ x <= r /\ r <= p
    BY <2>1, <2>2 DEF Grows
  <2>4. knobs.length \in Nat /\ alarm'["length"].count[u] = knobs.length
    BY DEF RangeTypes, Fresh
  <2>5. PICK f \in Nat : f = x + 1
    OBVIOUS
  <2>6. f - 1 <= y /\ knobs.length >= knobs.length - (p - (f - 1))
    BY <2>3, <2>4, <2>5
  <2>. QED
    BY <1>1, <2>1, <2>4, <2>5, <2>6, LagNumbers
<1>. QED
  BY <1>2, <1>3 DEF Keeps

\* A thread that writes its count back.
LEMMA KeepsStore ==
  ASSUME NEW t \in Threads, Grows(t), ThreadParts(t), RangeTypes, knobs' = knobs, Lag(t),
         Sees(t), AtLength(t), Stores(t), Current(t) = "length"
  PROVE  Keeps(t)
<1>1. /\ WasArmed(t) /\ since' = since /\ pc[t] = "store"
      /\ alarm'["length"].count[t] = seen[t] - block[t]
      /\ seen[t] >= knobs.length - (executed[t] - (since[t].first - 1))
      /\ executed'[t] = executed[t] /\ block'[t] = block[t]
  BY DEF Stores, Sees, InAlarm, SameBlock
<1>2. (WasArmed(t)' <=> WasArmed(t)) /\ (Reached(t) => Reached(t)') /\ Fresh(t)'
  BY <1>1, ArmedStays DEF WasArmed, NotArmed, Fresh
<1>3. Ran(t, LengthPlace)' = executed[t] + block[t]
  <2>1. Counted(t, LengthPlace)'
    BY DEF Stores, AtLength, Counted, LengthPlace, ThreadParts, RangeTypes
  <2>. QED
    BY <1>1, <2>1 DEF Ran
<1>4. Lag(t)'
  <2>1. PICK f \in Nat, x \in Nat, b \in Nat :
          f = since[t].first /\ x = executed[t] /\ b = block[t]
    BY DEF ThreadParts
  <2>2. PICK c \in Int : c = seen[t]
    BY DEF ThreadParts
  <2>3. knobs.length \in Nat
    BY DEF RangeTypes
  <2>4. c >= knobs.length - (x - (f - 1)) /\ alarm'["length"].count[t] = c - b
        /\ Ran(t, LengthPlace)' = x + b
    BY <1>1, <1>3, <2>1, <2>2
  <2>5. since[t].ev = "armed" /\ f - 1 <= x
    BY <1>1, <2>1 DEF Lag
  <2>6. c - b >= knobs.length - ((x + b) - (f - 1)) /\ c - b \in Int
    BY <2>3, <2>4
  <2>. QED
    BY <1>1, <2>1, <2>4, <2>5, <2>6, LagNumbers
<1>. QED
  BY <1>1, <1>2, <1>4 DEF Keeps

\* A step keeps what there is of each thread; and the one that arms for the
\* first time has set the counts.
LEMMA RangeKeeps ==
  ASSUME CallInv, RangeOnly, RangeInv, NEW t \in Threads, ControlStep(t)
  PROVE  /\ \A u \in Threads : Keeps(u)
         /\ (\E u \in Threads : WasArmed(u)') => \A u \in Threads : Fresh(u)'
<1>1. /\ RangeTypes /\ \A u \in Threads : ThreadParts(u) /\ Grows(u)
      /\ knobs' = knobs /\ Moved(t) /\ OtherAlarms(t)
  BY RangeHere, RangeGrows, Others, Moves
<1>2. /\ \A u \in Threads : /\ Lag(u) /\ Arming(u) /\ Sees(u)
                            /\ alarm["length"].armed[u] = TRUE => WasArmed(u)
      /\ (\E u \in Threads : WasArmed(u)) => \A u \in Threads : Fresh(u)
  BY DEF RangeInv
<1>3. ASSUME \A u \in Threads : Keeps(u), \A u \in Threads : WasArmed(u)' => WasArmed(u)
      PROVE  (\E u \in Threads : WasArmed(u)') => \A u \in Threads : Fresh(u)'
  BY <1>2, <1>3 DEF Keeps
<1>4. CASE alarm'["length"] = alarm["length"] /\ since' = since
  <2>1. \A u \in Threads : Keeps(u)
    BY <1>1, <1>2, <1>4, KeepsSame
  <2>2. \A u \in Threads : WasArmed(u)' => WasArmed(u)
    BY <1>4 DEF WasArmed, NotArmed
  <2>. QED
    BY <1>3, <2>1, <2>2
<1>5. CASE Plain(t) \/ Handles(t) \/ Begins(t)
  BY <1>4, <1>5, PlainFacts DEF Handles, Begins, SameAlarms
<1>6. CASE (Stores(t) \/ Disarms(t)) /\ Current(t) # "length"
  <2>1. alarm'["length"] = alarm["length"]
    BY <1>1, <1>6 DEF OtherAlarms, OneAlarm, RangeTypes
  <2>. QED
    BY <1>4, <1>6, <2>1 DEF Stores, Disarms
<1>7. CASE Stores(t) /\ Current(t) = "length"
  <2>1. AtLength(t)
    BY <1>1, <1>7 DEF Stores, RangeTypes, ThreadParts
  <2>2. Keeps(t)
    BY <1>1, <1>2, <1>7, <2>1, KeepsStore
  <2>3. ASSUME NEW u \in Threads \ {t} PROVE Keeps(u)
    <3>1. /\ since'[u] = since[u] /\ alarm'["length"].count[u] = alarm["length"].count[u]
          /\ alarm'["length"].armed[u] = alarm["length"].armed[u]
      BY <1>7 DEF Stores
    <3>. QED
      BY <1>1, <1>2, <3>1, KeepsSame
  <2>4. \A u \in Threads : WasArmed(u)' => WasArmed(u)
    BY <1>7 DEF Stores, WasArmed, NotArmed
  <2>. QED
    BY <1>3, <2>2, <2>3, <2>4
<1>8. CASE Disarms(t) /\ Current(t) = "length"
  <2>1. ASSUME NEW u \in Threads PROVE Keeps(u)
    <3>1. /\ since'[u] = since[u] /\ alarm'["length"].count[u] = alarm["length"].count[u]
          /\ alarm'["length"].armed[u] = TRUE => alarm["length"].armed[u] = TRUE
      BY <1>8 DEF Disarms
    <3>. QED
      BY <1>1, <1>2, <3>1, KeepsSame
  <2>2. \A u \in Threads : WasArmed(u)' => WasArmed(u)
    BY <1>8 DEF Disarms, WasArmed, NotArmed
  <2>. QED
    BY <1>3, <2>1, <2>2
<1>9. CASE Works(t) /\ SetStep(t, "length", <<StartTask>>)
  <2>1. \/ Counts(t, "length", <<StartTask>>) \/ Arms(t, "length", <<StartTask>>)
        \/ Installs(t, "length", <<StartTask>>)
    BY <1>1, <1>9, SetLists, TaskTypes DEF RangeTypes
  <2>2. PICK e \in Threads : e = Entry(t, AlarmTid("length"))
    BY <1>1, <2>1, TidFacts DEF Entry, ThreadParts, RangeTypes
  <2>3. CASE Counts(t, "length", <<StartTask>>)
    <3>1. /\ since' = since /\ alarm'["length"].armed = alarm["length"].armed
          /\ alarm'["length"].count[e] = knobs.length
          /\ \A u \in Threads \ {e} : alarm'["length"].count[u] = alarm["length"].count[u]
      BY <1>1, <2>2, <2>3 DEF Counts, RangeTypes
    <3>2. Keeps(e)
      BY <1>1, <1>2, <3>1, KeepsSet
    <3>3. \A u \in Threads \ {e} : Keeps(u)
      BY <1>1, <1>2, <3>1, KeepsSame
    <3>4. \A u \in Threads : WasArmed(u)' => WasArmed(u)
      BY <3>1 DEF WasArmed, NotArmed
    <3>. QED
      BY <1>3, <3>2, <3>3, <3>4
  <2>4. CASE Arms(t, "length", <<StartTask>>)
    <3>1. \A u \in Threads : Fresh(u)
      BY <1>2, <1>9, <2>4 DEF Arming, Works, From, Arms
    <3>2. /\ alarm'["length"].count = alarm["length"].count
          /\ \A u \in Threads \ {e} : /\ since'[u] = since[u]
                                      /\ alarm'["length"].armed[u] = alarm["length"].armed[u]
          /\ since'[e] = IF since[e] = NotArmed THEN Event(e, "armed") ELSE since[e]
      BY <2>2, <2>4 DEF Arms
    <3>3. Keeps(e)
      <4>1. CASE WasArmed(e)
        BY <1>1, <1>2, <3>2, <4>1, KeepsSame DEF WasArmed
      <4>2. CASE ~ WasArmed(e)
        BY <1>1, <3>1, <3>2, <4>2, KeepsFirst DEF WasArmed
      <4>. QED
        BY <4>1, <4>2
    <3>4. \A u \in Threads \ {e} : Keeps(u)
      BY <1>1, <1>2, <3>2, KeepsSame
    <3>5. \A u \in Threads : Keeps(u)
      BY <3>3, <3>4
    <3>. QED
      BY <3>1, <3>5 DEF Keeps
  <2>5. CASE Installs(t, "length", <<StartTask>>)
    <3>1. /\ since' = since /\ alarm'["length"].armed = alarm["length"].armed
          /\ alarm'["length"].count = alarm["length"].count
      BY <2>5 DEF Installs
    <3>2. \A u \in Threads : Keeps(u)
      BY <1>1, <1>2, <3>1, KeepsSame
    <3>3. \A u \in Threads : WasArmed(u)' => WasArmed(u)
      BY <3>1 DEF WasArmed, NotArmed
    <3>. QED
      BY <1>3, <3>2, <3>3
  <2>. QED
    BY <2>1, <2>3, <2>4, <2>5
<1>10. CASE Works(t) /\ ~ SetStep(t, "length", <<StartTask>>)
  <2>1. NotifyStep(t, "start") \/ NotifyStep(t, "stop")
    BY <1>1, <1>10, PlainWorks DEF RangeTypes
  <2>. QED
    BY <1>4, <2>1 DEF NotifyStep
<1>. QED
  BY <1>1, <1>5, <1>6, <1>7, <1>8, <1>9, <1>10 DEF Moved, Plain

\* The others know what they knew.
LEMMA RangeOthers ==
  ASSUME CallInv, RangeOnly, RangeInv, NEW t \in Threads, ControlStep(t), NEW u \in Threads \ {t}
  PROVE  Arming(u)' /\ Sees(u)'
<1>1. /\ \A v \in Threads : Keeps(v)
      /\ Frame(u) /\ knobs' = knobs /\ LengthPlace' = LengthPlace
      /\ Arming(u) /\ Sees(u)
  BY RangeKeeps, Others DEF RangeInv, LengthPlace
<1>2. Arming(u)'
  <2>1. SetLength' = SetLength
        /\ ArmPlan("length", <<StartTask>>)' = ArmPlan("length", <<StartTask>>)
    OBVIOUS
  <2>2. \A v \in Threads : Fresh(v) => Fresh(v)'
    BY <1>1 DEF Keeps
  <2>. QED
    BY <1>1, <2>1, <2>2 DEF Arming, Frame
<1>3. Sees(u)'
  <2>1. (AtLength(u)' <=> AtLength(u)) /\ (InAlarm(u)' <=> InAlarm(u))
    BY <1>1 DEF Frame, AtLength, InAlarm
  <2>2. AllReached => AllReached'
    <3>1. knobs.low .. knobs.high \subseteq Threads
      BY RangeHere, TidFacts DEF RangeTypes
    <3>. QED
      BY <1>1, <3>1 DEF AllReached, Keeps
  <2>3. WasArmed(u) => WasArmed(u)' /\ since'[u] = since[u]
    BY <1>1 DEF Keeps
  <2>4. \A v \in Threads : Reached(v) => Reached(v)'
    BY <1>1 DEF Keeps
  <2>5. CASE AtLength(u)
    <3>1. InAlarm(u)' => WasArmed(u)'
      BY <1>1, <2>1, <2>3, <2>5 DEF Sees
    <3>2. pc'[u] = "store" => seen'[u] >= knobs'.length - (executed'[u] - (since'[u].first - 1))
      BY <1>1, <2>1, <2>3, <2>5 DEF Sees, Frame, InAlarm
    <3>3. pc'[u] = "scan" =>
            \A v \in Threads : knobs'.low <= v /\ v < each'[u] => Reached(v)'
      BY <1>1, <2>4, <2>5 DEF Sees, Frame
    <3>4. /\ pc'[u] \in {"disarm", "then"} => AllReached'
          /\ pc'[u] = "work" /\ work'[u] # <<>> => AllReached'
      BY <1>1, <2>2, <2>5 DEF Sees, Frame
    <3>. QED
      BY <3>1, <3>2, <3>3, <3>4 DEF Sees
  <2>6. CASE ~ AtLength(u)
    BY <2>1, <2>6 DEF Sees
  <2>. QED
    BY <2>5, <2>6
<1>. QED
  BY <1>2, <1>3

\* What the thread itself arms next.
LEMMA RangeArming ==
  ASSUME CallInv, RangeOnly, RangeInv, NEW t \in Threads, ControlStep(t)
  PROVE  Arming(t)'
<1>1. /\ \A v \in Threads : Keeps(v)
      /\ knobs' = knobs /\ Arming(t) /\ Moved(t) /\ RangeTypes /\ ThreadParts(t)
  BY RangeKeeps, RangeHere, Others, Moves DEF RangeInv
<1>2. \A v \in Threads : Fresh(v) => Fresh(v)'
  BY <1>1 DEF Keeps
<1>3. /\ SetLength' = SetLength
      /\ ArmPlan("length", <<StartTask>>)' = ArmPlan("length", <<StartTask>>)
  OBVIOUS
<1>4. CASE pc'[t] # "work"
  BY <1>4 DEF Arming
<1>5. CASE each'[t] = 0 /\ work'[t] # ArmPlan("length", <<StartTask>>)
  <2>1. \A v \in Threads : ~ (v < each'[t])
    BY <1>5, TidFacts
  <2>. QED
    BY <1>3, <1>5, <2>1 DEF Arming
<1>6. CASE Handles(t) \/ Begins(t)
  <2>1. each[t] = 0 /\ each'[t] = each[t]
    BY <1>6 DEF Handles, Begins, From, SameLoop, CallInv, PlaceOf
  <2>2. work'[t] \in {SetLength, <<StartTask>>, <<StopTask>>, <<>>}
    <3>1. CASE Begins(t)
      BY <1>1, <3>1 DEF Begins, StartList, SetLength
    <3>2. CASE Handles(t)
      <4>1. Current(t) \in {"skip", "length"}
        <5>1. at[t] \in 1 .. Len(Inserted)
          BY <1>1, <3>2 DEF Handles, ThreadParts, RangeTypes
        <5>. QED
          BY <1>1, <5>1, AlarmPlaces DEF Current, RangeTypes, Alarms
      <4>2. work'[t] = Handler(Current(t)) \/ work'[t] = <<>>
        BY <1>1, <3>2 DEF Handles, From, ThreadParts
      <4>. QED
        BY <4>1, <4>2, FirstPlans DEF StartList, SetLength
    <3>. QED
      BY <1>6, <3>1, <3>2
  <2>3. ArmPlan("length", <<StartTask>>) \notin {SetLength, <<StartTask>>, <<StopTask>>, <<>>}
    <3>1. ArmPlan("length", <<StartTask>>) # <<StopTask>>
      <4>1. <<StartTask>> \in Seq(Tasks)
        <5>. HIDE DEF Tasks
        <5>. QED
          BY TaskTypes
      <4>2. Head(ArmPlan("length", <<StartTask>>)) = Task("arm", "length")
        BY <1>1, <4>1, PlanFacts DEF RangeTypes
      <4>3. Head(<<StopTask>>) = Task("notify", "stop")
        BY ListFacts DEF StopTask
      <4>. QED
        BY <4>2, <4>3, TaskFields
    <3>. QED
      BY <3>1, PlansDiffer DEF SetLength
  <2>. QED
    BY <1>5, <2>1, <2>2, <2>3
<1>7. CASE Works(t) /\ SetStep(t, "length", <<StartTask>>)
  <2>1. /\ \/ Counts(t, "length", <<StartTask>>) \/ Arms(t, "length", <<StartTask>>)
           \/ Installs(t, "length", <<StartTask>>)
        /\ pc[t] = "work"
    BY <1>1, <1>7, SetLists, TaskTypes DEF RangeTypes, Works, From
  <2>2. /\ Entry(t, AlarmTid("length")) = each[t] /\ each[t] \in Threads /\ each[t] \in Nat
        /\ AlarmTid("length") = ALL_THREADS
        /\ AtEnd(t, AlarmTid("length")) <=> each[t] = NumThreads - 1
    BY <1>1 DEF Entry, AtEnd, RangeTypes, ThreadParts
  <2>3. CASE Counts(t, "length", <<StartTask>>)
    <3>1. \A v \in Threads : v < each[t] => Fresh(v)'
      BY <1>1, <1>2, <2>1, <2>3 DEF Arming, Counts, SetLength
    <3>2. \A v \in Threads : v = each[t] => Fresh(v)'
      <4>1. ASSUME NEW v \in Threads, v = each[t] PROVE Fresh(v)'
        <5>1. alarm'["length"].count[v] = knobs.length
          BY <1>1, <2>2, <2>3, <4>1 DEF Counts, RangeTypes
        <5>. QED
          BY <1>1, <5>1 DEF Fresh
      <4>. QED
        BY <4>1
    <3>3. \A v \in Threads : v < each[t] + 1 => Fresh(v)'
      <4>1. PICK e \in Nat : e = each[t]
        BY <2>2
      <4>2. \A v \in Threads : v < e + 1 => v < e \/ v = e
        BY TidFacts
      <4>. QED
        BY <3>1, <3>2, <4>1, <4>2
    <3>4. CASE AtEnd(t, AlarmTid("length"))
      <4>1. work'[t] = ArmPlan("length", <<StartTask>>) /\ each[t] + 1 = NumThreads
        BY <2>2, <2>3, <3>4, TidFacts DEF Counts
      <4>2. \A v \in Threads : Fresh(v)'
        BY <3>3, <4>1, TidFacts
      <4>. QED
        BY <4>2 DEF Arming
    <3>5. CASE ~ AtEnd(t, AlarmTid("length"))
      <4>1. work'[t] = SetLength /\ each'[t] = each[t] + 1
        BY <2>3, <3>5 DEF Counts, SetLength, TurnOf
      <4>2. work'[t] # ArmPlan("length", <<StartTask>>)
        BY <4>1, PlansDiffer DEF SetLength
      <4>. QED
        BY <1>3, <3>3, <4>1, <4>2 DEF Arming
    <3>. QED
      BY <3>4, <3>5
  <2>4. CASE Arms(t, "length", <<StartTask>>)
    <3>1. \A v \in Threads : Fresh(v)'
      BY <1>1, <1>2, <2>1, <2>4 DEF Arming, Arms
    <3>. QED
      BY <3>1 DEF Arming
  <2>5. CASE Installs(t, "length", <<StartTask>>)
    <3>1. work'[t] = <<StartTask>>
      BY <2>5 DEF Installs
    <3>. QED
      BY <1>3, <3>1, PlansDiffer DEF Arming, SetLength
  <2>. QED
    BY <2>1, <2>3, <2>4, <2>5
<1>8. CASE Works(t) /\ ~ SetStep(t, "length", <<StartTask>>)
  <2>1. NotifyStep(t, "start") \/ NotifyStep(t, "stop")
    BY <1>1, <1>8, PlainWorks DEF RangeTypes
  <2>2. work'[t] = <<>>
    BY <2>1, <1>1 DEF NotifyStep, RangeTypes, CallTypes
  <2>. QED
    BY <1>3, <2>2, PlansDiffer DEF Arming, SetLength
<1>9. CASE Plain(t) \/ Stores(t) \/ Disarms(t)
  <2>1. pc'[t] # "work"
    BY <1>9, PlainFacts DEF Stores, Disarms
  <2>. QED
    BY <1>4, <2>1
<1>. QED
  BY <1>1, <1>6, <1>7, <1>8, <1>9 DEF Moved, Plain

\* A count that is 0 or less is that of a thread that has got so far.
LEMMA SeesReached ==
  ASSUME RangeTypes, NEW u \in Threads, ThreadParts(u), Lag(u), Fresh(u),
         Ran(u, LengthPlace) \in Nat, Ran(u, LengthPlace) <= executed[u] + block[u],
         alarm["length"].count[u] <= 0
  PROVE  Reached(u)
<1>1. knobs.length \in Nat /\ knobs.length > 0
  BY DEF RangeTypes
<1>2. WasArmed(u)
  BY <1>1 DEF Fresh
<1>3. PICK f \in Nat, x \in Nat, b \in Nat, r \in Nat, c \in Int :
        /\ f = since[u].first /\ x = executed[u] /\ b = block[u] /\ r = Ran(u, LengthPlace)
        /\ c = alarm["length"].count[u]
  BY DEF ThreadParts
<1>4. c <= 0 /\ c >= knobs.length - (r - (f - 1)) /\ r <= x + b
  BY <1>2, <1>3 DEF Lag
<1>5. x + b >= f - 1 + knobs.length
  BY <1>1, <1>4
<1>. QED
  BY <1>2, <1>3, <1>5 DEF Reached

\* What the thread itself sees.
LEMMA RangeSees ==
  ASSUME CallInv, RangeOnly, RangeInv, NEW t \in Threads, ControlStep(t)
  PROVE  Sees(t)'
<1>1. /\ \A v \in Threads : Keeps(v) /\ Grows(v) /\ ThreadParts(v)
      /\ knobs' = knobs /\ LengthPlace' = LengthPlace /\ Moved(t) /\ RangeTypes
  BY RangeKeeps, RangeGrows, RangeHere, Others, Moves DEF LengthPlace
<1>2. /\ \A u \in Threads : /\ Lag(u) /\ Sees(u)
                            /\ alarm["length"].armed[u] = TRUE => WasArmed(u)
      /\ (\E u \in Threads : WasArmed(u)) => \A u \in Threads : Fresh(u)
  BY DEF RangeInv
<1>3. AllReached => AllReached'
  <2>1. knobs.low .. knobs.high \subseteq Threads
    BY <1>1, TidFacts DEF RangeTypes
  <2>. QED
    BY <1>1, <2>1 DEF AllReached, Keeps
<1>4. \A v \in Threads : Reached(v) => Reached(v)'
  BY <1>1 DEF Keeps
<1>5. WasArmed(t) => WasArmed(t)' /\ since'[t] = since[t]
  BY <1>1 DEF Keeps
<1>6. CASE ~ AtLength(t)' \/ pc'[t] \notin {"store", "scan", "disarm", "then", "work"}
           \/ (pc'[t] = "work" /\ work'[t] = <<>>)
  BY <1>6 DEF Sees, InAlarm
<1>7. CASE Reads(t) /\ AtLength(t)
  <2>1. /\ Concerns(alarm["length"], t) /\ seen'[t] = alarm["length"].count[t] /\ pc'[t] = "store"
        /\ executed'[t] = executed[t]
    BY <1>1, <1>7 DEF Reads, RangeTypes, ThreadParts, AtLength, From, SameBlock
  <2>2. WasArmed(t)
    BY <1>1, <1>2, <2>1 DEF Concerns, ThreadParts
  <2>3. Ran(t, LengthPlace) = executed[t]
    BY <1>1, <1>7 DEF Reads, From, Ran, Counted, AtLength, ThreadParts
  <2>4. seen'[t] >= knobs'.length - (executed'[t] - (since'[t].first - 1))
    BY <1>1, <1>2, <1>5, <2>1, <2>2, <2>3 DEF Lag
  <2>. QED
    BY <1>5, <2>1, <2>2, <2>4 DEF Sees
<1>8. CASE Stores(t) /\ AtLength(t)
  <2>1. Ranged(t) /\ WasArmed(t)
    <3>1. Current(t) = "length" /\ pc[t] = "store"
      BY <1>1, <1>8 DEF Stores, RangeTypes, ThreadParts
    <3>. QED
      BY <1>1, <1>2, <1>8, <3>1 DEF Ranged, RangeTypes, Sees, InAlarm
  <2>2. pc'[t] = "scan" /\ each'[t] = knobs.low
    BY <1>8, <2>1 DEF Stores
  <2>3. \A u \in Threads : ~ (knobs'.low <= u /\ u < each'[t])
    BY <1>1, <2>2, TidFacts DEF RangeTypes
  <2>. QED
    BY <1>5, <2>1, <2>2, <2>3 DEF Sees
<1>9. CASE Scans(t) /\ AtLength(t)'
  <2>1. /\ Current(t) = "length" /\ AtLength(t) /\ each[t] \in Threads /\ pc[t] = "scan"
        /\ knobs.low <= each[t]
    <3>1. Ranged(t) /\ knobs.low <= each[t]
      BY <1>9 DEF Scans, CallInv, PlaceOf
    <3>. QED
      BY <1>1, <1>9, <3>1 DEF Ranged, Scans, RangeTypes, ThreadParts
  <2>2. /\ WasArmed(t) /\ \A u \in Threads : Fresh(u)
        /\ \A u \in Threads : knobs.low <= u /\ u < each[t] => Reached(u)
    BY <1>2, <2>1 DEF Sees, InAlarm
  <2>3. \/ /\ alarm["length"].count[each[t]] <= 0 /\ each[t] = knobs.high
           /\ pc'[t] = "disarm"
        \/ /\ alarm["length"].count[each[t]] <= 0 /\ pc'[t] = "scan" /\ each'[t] = each[t] + 1
    <3>1. at'[t] # at[t] + 1
      BY <1>1, <1>9, <2>1 DEF AtLength, RangeTypes
    <3>. QED
      BY <1>9, <2>1, <3>1 DEF Scans
  <2>4. Reached(each[t])
    <3>1. PICK e \in Threads : e = each[t]
      BY <2>1
    <3>2. Ran(e, LengthPlace) \in Nat /\ Ran(e, LengthPlace) <= executed[e] + block[e]
      BY <1>1 DEF Grows
    <3>3. alarm["length"].count[e] <= 0 /\ Lag(e) /\ Fresh(e) /\ ThreadParts(e)
      BY <1>1, <1>2, <2>2, <2>3, <3>1
    <3>4. Reached(e)
      BY <1>1, <3>2, <3>3, SeesReached
    <3>. QED
      BY <3>1, <3>4
  <2>5. \A u \in Threads : knobs.low <= u /\ u < each[t] + 1 => Reached(u)
    <3>1. PICK e \in Threads : e = each[t]
      BY <2>1
    <3>2. \A u \in Threads : u < e + 1 => u < e \/ u = e
      BY <3>1, TidFacts
    <3>. QED
      BY <2>2, <2>4, <3>1, <3>2
  <2>6. CASE pc'[t] = "disarm" /\ each[t] = knobs.high
    <3>1. AllReached
      <4>1. \A u \in knobs.low .. knobs.high :
              u \in Threads /\ knobs.low <= u /\ u < each[t] + 1
        BY <1>1, <2>6, TidFacts DEF RangeTypes
      <4>. QED
        BY <2>5, <4>1 DEF AllReached
    <3>. QED
      BY <1>3, <1>5, <2>2, <2>6, <3>1 DEF Sees
  <2>7. CASE pc'[t] = "scan" /\ each'[t] = each[t] + 1
    <3>1. \A u \in Threads : knobs'.low <= u /\ u < each'[t] => Reached(u)'
      BY <1>1, <1>4, <2>5, <2>7
    <3>. QED
      BY <1>5, <2>2, <2>7, <3>1 DEF Sees
  <2>. QED
    BY <2>3, <2>6, <2>7
<1>10. CASE (Disarms(t) \/ Handles(t)) /\ AtLength(t)'
  <2>1. AtLength(t) /\ pc[t] \in {"disarm", "then"} /\ pc'[t] \in {"disarm", "then", "work"}
    BY <1>1, <1>10 DEF Disarms, Handles, From, AtLength
  <2>2. WasArmed(t) /\ AllReached
    BY <1>2, <2>1 DEF Sees, InAlarm
  <2>. QED
    BY <1>3, <1>5, <2>1, <2>2 DEF Sees
<1>11. CASE Works(t) /\ AtLength(t)'
  <2>1. AtLength(t) /\ pc[t] = "work" /\ work[t] # <<>> /\ pc'[t] = "work"
    BY <1>1, <1>11 DEF Works, From, AtLength
  <2>2. AllReached
    BY <1>2, <2>1 DEF Sees
  <2>. QED
    BY <1>3, <2>1, <2>2 DEF Sees, InAlarm
<1>12. CASE Enters(t) \/ Skips(t) \/ Returns(t) \/ Executes(t) \/ Comes(t) \/ Leaves(t)
  BY <1>6, <1>12 DEF Enters, Skips, Returns, Executes, Comes, Leaves, From
<1>13. CASE Begins(t)
  <2>1. ~ AtLength(t)'
    BY <1>1, <1>13 DEF Begins, AtLength, RangeTypes
  <2>. QED
    BY <1>6, <2>1
<1>14. CASE (Reads(t) \/ Stores(t)) /\ ~ AtLength(t)
  <2>1. /\ at[t] <= Len(Inserted) /\ at'[t] \in {at[t], at[t] + 1}
        /\ at'[t] = at[t] + 1 => pc'[t] = "if"
    BY <1>1, <1>14 DEF Reads, Stores, ThreadParts
  <2>2. ~ AtLength(t)' \/ pc'[t] = "if"
    <3>1. CASE at'[t] = at[t]
      BY <1>1, <1>14, <3>1 DEF AtLength
    <3>2. CASE at'[t] # at[t]
      BY <2>1, <3>2
    <3>. QED
      BY <3>1, <3>2
  <2>. QED
    BY <1>6, <2>2
<1>. QED
  BY <1>1, <1>6, <1>7, <1>8, <1>9, <1>10, <1>11, <1>12, <1>13, <1>14 DEF Moved

\* A stop is sent by a thread that has seen the whole range.
LEMMA RangeStopped ==
  ASSUME CallInv, RangeOnly, RangeInv, NEW t \in Threads, ControlStep(t), Stopped'
  PROVE  AllReached'
<1>1. /\ \A v \in Threads : Keeps(v) /\ ThreadParts(v)
      /\ knobs' = knobs /\ Moved(t) /\ RangeTypes
      /\ \A u \in Threads \ {t} : Stops(u)' = Stops(u)
  BY RangeKeeps, RangeHere, Others, Moves DEF Stops
<1>2. Sees(t) /\ (Stopped => AllReached)
  BY DEF RangeInv
<1>3. AllReached => AllReached'
  <2>1. knobs.low .. knobs.high \subseteq Threads
    BY <1>1, TidFacts DEF RangeTypes
  <2>. QED
    BY <1>1, <2>1 DEF AllReached, Keeps
<1>4. CASE log' = log
  BY <1>2, <1>3, <1>4 DEF Stopped, Events
<1>5. CASE Works(t)
  <2>1. CASE SetStep(t, "length", <<StartTask>>)
    BY <1>1, <1>4, <2>1, SetLists, TaskTypes DEF RangeTypes
  <2>2. CASE NotifyStep(t, "start")
    <3>1. Stops(t)' = Stops(t)
      BY <2>2, NotifyEvents
    <3>2. Stopped
      BY <1>1, <3>1 DEF Stopped, Stops
    <3>. QED
      BY <1>2, <1>3, <3>2
  <2>3. CASE at[t] <= Len(Inserted) /\ Current(t) = "length"
    <3>1. AtLength(t) /\ pc[t] = "work" /\ work[t] # <<>>
      BY <1>1, <1>5, <2>3 DEF RangeTypes, ThreadParts, Works, From
    <3>. QED
      BY <1>2, <1>3, <3>1 DEF Sees
  <2>. QED
    BY <1>1, <1>5, <2>1, <2>2, <2>3, PlainWorks DEF RangeTypes
<1>6. CASE ~ Works(t)
  BY <1>1, <1>4, <1>6, PlainFacts DEF Moved, Plain, Stores, Disarms, Handles, Begins, SameBlock
<1>. QED
  BY <1>5, <1>6

\* A step keeps what is known of the range.
LEMMA RangeStep ==
  ASSUME CallInv, RangeInv, NEW t \in Threads, ControlStep(t)
  PROVE  RangeInv'
<1>1. knobs' = knobs /\ (RangeOnly' <=> RangeOnly)
  BY Others DEF RangeOnly
<1>2. CASE ~ RangeOnly
  BY <1>1, <1>2 DEF RangeInv
<1>3. CASE RangeOnly
  <2>1. \A u \in Threads : Lag(u)' /\ (alarm'["length"].armed[u] = TRUE => WasArmed(u)')
    BY <1>3, RangeKeeps DEF Keeps
  <2>2. \A u \in Threads : Arming(u)' /\ Sees(u)'
    <3>1. Arming(t)' /\ Sees(t)'
      BY <1>3, RangeArming, RangeSees
    <3>2. \A u \in Threads \ {t} : Arming(u)' /\ Sees(u)'
      BY <1>3, RangeOthers
    <3>. QED
      BY <3>1, <3>2
  <2>3. (\E u \in Threads : WasArmed(u)') => \A u \in Threads : Fresh(u)'
    BY <1>3, RangeKeeps
  <2>4. Stopped' => AllReached'
    BY <1>3, RangeStopped
  <2>. QED
    BY <2>1, <2>2, <2>3, <2>4 DEF RangeInv
<1>. QED
  BY <1>2, <1>3

\* At the beginning the length has been armed for no thread.
LEMMA RangeInit == ControlInit => RangeInv
<1>. SUFFICES ASSUME ControlInit, RangeOnly
     PROVE  /\ \A u \in Threads : /\ Lag(u) /\ Arming(u) /\ Sees(u)
                                  /\ alarm["length"].armed[u] = TRUE => WasArmed(u)
            /\ (\E u \in Threads : WasArmed(u)) => \A u \in Threads : Fresh(u)
            /\ Stopped => AllReached
  BY DEF RangeInv
<1>1. \A u \in Threads : ~ WasArmed(u) /\ pc[u] = "out"
  BY DEF ControlInit, WasArmed
<1>2. "length" \in Alarms /\ "length" \notin FirstAlarms
  BY DEF Alarms, FirstAlarms, RangeOnly
<1>3. \A u \in Threads : alarm["length"].armed[u] = FALSE
  BY <1>2, InitAlarms DEF ALARM_ICOUNT
<1>4. ~ Stopped
  BY DEF Stopped, Events, ControlInit
<1>. QED
  BY <1>1, <1>3, <1>4 DEF Lag, Arming, Sees, InAlarm

\* A stop has waited for the range.
LEMMA RangeConclusion ==
  ASSUME CallInv, RangeInv
  PROVE  RangeWaits
<1>. SUFFICES ASSUME RangeOnly, Stopped, NEW u \in knobs.low .. knobs.high
     PROVE  /\ since[u].ev = "armed"
            /\ executed[u] + block[u] >= since[u].first - 1 + knobs.length
  BY DEF RangeWaits
<1>1. u \in Threads
  BY RangeHere, TidFacts DEF RangeTypes
<1>2. Reached(u) /\ Lag(u)
  BY <1>1 DEF RangeInv, AllReached
<1>. QED
  BY <1>2 DEF Reached, Lag
-----------------------------------------------------------------------------
(***************************************************************************)
(* The handlers that are stored after their alarm has been armed.          *)
(***************************************************************************)

\* A thread waits for its own M instructions as well when it waits for the range.
Waited(a, u) == a = "length" /\ knobs.lengthTid = ALL_THREADS /\ InRange(u)

\* No thread but the one that sets an alarm has it, or it has to wait for that one.
Kept ==
  \A a \in {"length", "uLength", "period"} : \A u \in Setters(a) : AlarmTid(a) = u \/ Waited(a, u)

Does(t, ops, a) ==
  /\ pc[t] = "work" /\ work[t] # <<>>
  /\ Head(work[t]).alarm = a /\ Head(work[t]).op \in ops

\* The thread is arming the alarm, or has armed it and is to store the handler.
Doing(t, a) == Does(t, {"arm", "handler"}, a)

InCalls(t, a) == InAlarm(t) /\ Current(t) = a

\* A thread with an alarm that has no handler has not got past thread w.
Waits(t, a, w) ==
  /\ Doing(w, a)
  /\ InCalls(t, a) => /\ Waited(a, w) /\ pc[t] \in {"store", "scan"}
                      /\ pc[t] = "scan" => each[t] <= w

Pending(a) ==
  alarm[a].handler = FALSE =>
    \A t \in Threads : alarm[a].armed[t] = TRUE \/ InCalls(t, a) =>
      \E w \in Threads : Waits(t, a, w)

\* Who sets the length for all threads has its own count set before it arms.
OwnCount(w) ==
  /\ Does(w, {"count"}, "length") /\ w < each[w] => alarm["length"].count[w] = knobs.length
  /\ Doing(w, "length") => alarm["length"].count[w] = knobs.length

\* A handler that is being executed has been stored.
HandlerThere(w) ==
  pc[w] = "work" /\ at[w] <= Len(Inserted) => alarm[Current(w)].handler = TRUE

SkipEnds == alarm["uSkip"].handler = TRUE => knobs.uSkip > 0

StoredInv ==
  Kept =>
    /\ stage # "crashed" /\ SkipEnds
    /\ \A a \in Alarms : Pending(a)
    /\ \A w \in Threads : HandlerThere(w) /\ (knobs.lengthTid = ALL_THREADS => OwnCount(w))

\* What is being set at the head of the lists.
Setting(q, a) == q # <<>> /\ Head(q).alarm = a /\ Head(q).op \in {"arm", "handler"}

\* A list that sets one alarm begins with a statement about no other.
LEMMA SetHeads ==
  ASSUME NEW a \in Alarms, NEW q \in Seq(Tasks), NEW b, NEW l \in SetPlans(a, q), Setting(l, b)
  PROVE  b = a
<1>1. l # <<>> /\ Head(l) \in {Task("count", a), Task("arm", a), Task("handler", a)}
  BY PlanFacts DEF SetPlans
<1>. QED
  BY <1>1, TaskFields DEF Setting

\* Which alarms the lists of the handlers set.
LEMMA SettingHeads ==
  ASSUME NEW a
  PROVE  /\ \A l \in StartPlans : Setting(l, a) => a = "length" /\ knobs.length > 0
         /\ \A b, l : l \in SamplePlans(b) /\ b \in Alarms /\ Setting(l, a) =>
              a \in {"period", "uLength"} \/ (a = "length" /\ knobs.length > 0)
         /\ \A l \in EndPlans : ~ Setting(l, a)
<1>1. \A o \in {"notify", "sample", "begin", "ended", "add"} : \A b, x :
        ~ Setting(<<Task(o, b)>>, a) /\ ~ Setting(<<Task(o, b), x>>, a)
  BY ListFacts, TaskFields DEF Setting
<1>2. ~ Setting(<<>>, a)
  BY DEF Setting
<1>3. /\ "length" \in Alarms /\ "period" \in Alarms /\ "uLength" \in Alarms
      /\ StartList \in Seq(Tasks)
      /\ \A x \in Tasks : <<x>> \in Seq(Tasks)
  <2>. HIDE DEF Tasks
  <2>. QED
    BY TaskTypes, PlanTypes
<1>4. \A l \in StartPlans : Setting(l, a) => a = "length" /\ knobs.length > 0
  <2>. SUFFICES ASSUME NEW l \in StartPlans, Setting(l, a) PROVE a = "length" /\ knobs.length > 0
    OBVIOUS
  <2>1. l # <<StartTask>> /\ l # <<>>
    BY <1>1, <1>2 DEF StartTask
  <2>2. knobs.length > 0 /\ l \in SetPlans("length", <<StartTask>>)
    BY <2>1, Zenon DEF StartPlans
  <2>. QED
    BY <1>3, <2>2, SetHeads, TaskTypes
<1>5. ASSUME NEW b \in Alarms, NEW l \in SamplePlans(b), Setting(l, a)
      PROVE  a \in {"period", "uLength"} \/ (a = "length" /\ knobs.length > 0)
  <2>1. l # <<Task("sample", b)>> /\ l # <<Task("begin", b)>>
    BY <1>1, <1>5
  <2>2. \/ l \in SetPlans("period", <<Task("sample", b)>>)
        \/ l \in SetPlans("uLength", StartList)
        \/ l \in StartPlans
    BY <1>5, <2>1, Zenon DEF SamplePlans
  <2>3. Task("sample", b) \in Tasks
    BY TaskTypes
  <2>. QED
    BY <1>3, <1>4, <1>5, <2>2, <2>3, SetHeads
<1>6. ASSUME NEW l \in EndPlans PROVE ~ Setting(l, a)
  BY <1>1, <1>2, <1>6, Zenon DEF EndPlans, StopTask
<1>. QED
  BY <1>4, <1>5, <1>6

\* Who arms an alarm that has no handler yet is one of its setters.
LEMMA DoersSet ==
  ASSUME CallInv, AloneInv, FirstInv, NEW w \in Threads, NEW a \in Alarms,
         HandlerThere(w), SkipEnds, Doing(w, a), alarm[a].handler = FALSE
  PROVE  /\ a \in {"length", "uLength", "period"} /\ w \in Setters(a)
         /\ a = "length" => knobs.length > 0
<1>1. /\ pc[w] = "work" /\ work[w] # <<>> /\ Setting(work[w], a)
  BY DEF Doing, Does, Setting
<1>2. PlaceOf(w) /\ knobs \in Knobs
  BY DEF CallInv, CallTypes
<1>3. CASE at[w] > Len(Inserted)
  <2>1. InitActive /\ work[w] \in StartPlans
    BY <1>1, <1>2, <1>3, InsertedFacts DEF PlaceOf, CallInv, CallTypes
  <2>2. a = "length" /\ knobs.length > 0
    BY <1>1, <2>1, SettingHeads
  <2>3. \A u \in Threads : executed[u] = 0
    BY <1>1, <1>3, <2>1 DEF FirstInv
  <2>4. w = 0
    BY <1>1, <2>3 DEF AloneInv
  <2>5. knobs.skip = 0 /\ knobs.period = 0
    BY <2>1 DEF InitActive
  <2>. QED
    BY <2>2, <2>4, <2>5 DEF Setters, Starters
<1>4. CASE at[w] <= Len(Inserted)
  <2>1. work[w] \in Plans(Current(w)) /\ w \in For(AlarmTid(Current(w)))
    BY <1>1, <1>2, <1>4 DEF PlaceOf
  <2>2. alarm[Current(w)].handler = TRUE
    BY <1>1, <1>4 DEF HandlerThere
  <2>3. Current(w) \in Alarms /\ Current(w) # a
    <3>1. at[w] \in 1 .. Len(Inserted)
      BY <1>2, <1>4, InsertedFacts DEF CallInv, CallTypes
    <3>. QED
      BY <1>2, <2>2, <3>1, AlarmPlaces DEF Current
  <2>4. knobs.period > 0 => knobs.skip = 0
    BY <1>2, KnobFacts
  <2>5. /\ Current(w) = "skip" => knobs.skip > 0
        /\ Current(w) \in {"period", "uLength", "uSkip"} => knobs.period > 0
    <3>1. at[w] \in 1 .. Len(Inserted)
      BY <1>2, <1>4, InsertedFacts DEF CallInv, CallTypes
    <3>. QED
      BY <1>2, <3>1, AlarmPlaces DEF Current
  <2>6. CASE Current(w) = "skip"
    <3>1. a = "length" /\ knobs.length > 0
      BY <1>1, <2>1, <2>6, SettingHeads DEF Plans
    <3>2. ~ (knobs.period > 0) /\ knobs.skip > 0
      BY <1>2, <2>4, <2>5, <2>6, KnobFacts
    <3>. QED
      BY <2>1, <2>6, <3>1, <3>2 DEF Setters, Starters, AlarmTid
  <2>7. CASE Current(w) \in {"length", "uLength"}
    <3>1. work[w] \in EndPlans
      BY <2>1, <2>7 DEF Plans, EndPlans
    <3>. QED
      BY <1>1, <3>1, SettingHeads
  <2>8. CASE Current(w) = "period"
    <3>1. a = "uLength" \/ (a = "length" /\ knobs.length > 0)
      BY <1>1, <2>1, <2>3, <2>8, SettingHeads DEF Plans
    <3>2. w \in For(knobs.periodTid) /\ knobs.period > 0
      BY <2>1, <2>5, <2>8 DEF AlarmTid
    <3>3. w \in Starters
      BY <3>2, <2>4 DEF Starters
    <3>. QED
      BY <3>1, <3>2, <3>3 DEF Setters
  <2>9. CASE Current(w) = "uSkip"
    <3>1. a \in {"period", "uLength"} \/ (a = "length" /\ knobs.length > 0)
      BY <1>1, <2>1, <2>3, <2>9, SettingHeads DEF Plans
    <3>2. knobs.uSkip > 0
      BY <2>2, <2>9 DEF SkipEnds
    <3>3. w \in For(knobs.uSkipTid) /\ knobs.period > 0
      BY <2>1, <2>5, <2>9 DEF AlarmTid
    <3>4. w \in Starters
      BY <3>2, <3>3, <2>4 DEF Starters
    <3>. QED
      BY <3>1, <3>2, <3>3, <3>4 DEF Setters
  <2>. QED
    BY <2>3, <2>6, <2>7, <2>8, <2>9 DEF Alarms
<1>5. at[w] \in Nat /\ Len(Inserted) \in Nat
  BY <1>2, InsertedFacts DEF CallInv, CallTypes
<1>. QED
  BY <1>3, <1>4, <1>5

\* What a step does to an alarm as it is set: the thread goes on arming it, or
\* stores its handler, or is at something else.
AlarmGoes(t, a) ==
  \/ Doing(t, a) /\ Doing(t, a)' /\ alarm'[a].handler = alarm[a].handler
  \/ Doing(t, a) /\ alarm'[a].handler = TRUE
  \/ /\ ~ Doing(t, a) /\ alarm'[a].handler = alarm[a].handler
     /\ \A u \in Threads : alarm'[a].armed[u] = TRUE => alarm[a].armed[u] = TRUE

\* What a step of one thread may do to an alarm: arm it, store the handler, or clear flags.
LEMMA AlarmsGo ==
  ASSUME CallInv, NEW t \in Threads, ControlStep(t), NEW a \in Alarms
  PROVE  AlarmGoes(t, a)
<1>1. Moved(t) /\ OtherAlarms(t) /\ CallTypes
  BY Moves DEF CallInv
<1>2. CASE pc[t] # "work"
  <2>1. ~ Doing(t, a)
    BY <1>2 DEF Doing, Does
  <2>2. alarm' = alarm \/ Stores(t) \/ Disarms(t)
    BY <1>1, <1>2, PlainFacts DEF Moved, Plain, Handles, Begins, SameAlarms, Works, From
  <2>3. CASE Stores(t) \/ Disarms(t)
    <3>1. CASE a # Current(t)
      BY <1>1, <2>1, <2>3, <3>1 DEF OtherAlarms, OneAlarm, AlarmGoes
    <3>2. CASE a = Current(t)
      BY <2>1, <2>3, <3>2 DEF Stores, Disarms, AlarmGoes
    <3>. QED
      BY <3>1, <3>2
  <2>. QED
    BY <2>1, <2>2, <2>3 DEF AlarmGoes
<1>3. CASE pc[t] = "work" /\ work[t] = <<>>
  <2>1. ~ Doing(t, a)
    BY <1>3 DEF Doing, Does
  <2>2. alarm' = alarm
    BY <1>1, <1>3, PlainFacts DEF Moved, Plain, Stores, Disarms, Handles, Begins, Works, From
  <2>. QED
    BY <2>1, <2>2 DEF AlarmGoes
<1>4. CASE pc[t] = "work" /\ work[t] # <<>>
  <2>1. Works(t)
    BY <1>1, <1>4 DEF Moved, Enters, Skips, Reads, Stores, Scans, Disarms, Handles, Returns, Begins,
                      Executes, Comes, Leaves, From
  <2>2. CASE alarm' = alarm /\ \E o \in {"notify", "sample", "begin", "ended", "add"} : \E b, x :
               work[t] = <<Task(o, b)>> \/ work[t] = <<Task(o, b), x>>
    <3>1. ~ Doing(t, a)
      BY <2>2, ListFacts, TaskFields DEF Doing, Does
    <3>. QED
      BY <2>2, <3>1 DEF AlarmGoes
  <2>3. ASSUME NEW b \in Alarms, NEW q \in Seq(Tasks), SetStep(t, b, q)
        PROVE  AlarmGoes(t, a)
    <3>1. /\ Counts(t, b, q) \/ Arms(t, b, q) \/ Installs(t, b, q)
          /\ OneAlarm(b)
      BY <1>1, <2>3, SetCases
    <3>2. /\ Head(CountPlan(b, q)) = Task("count", b)
          /\ Head(ArmPlan(b, q)) = Task("arm", b) /\ ArmPlan(b, q) # <<>>
          /\ Head(StorePlan(b, q)) = Task("handler", b) /\ StorePlan(b, q) # <<>>
      BY PlanFacts
    <3>3. CASE Counts(t, b, q)
      <4>1. ~ Doing(t, a)
        BY <3>2, <3>3, TaskFields DEF Doing, Does, Counts
      <4>. QED
        BY <3>1, <3>3, <4>1 DEF AlarmGoes, Counts, OneAlarm
    <3>4. CASE Arms(t, b, q)
      <4>1. Doing(t, a) <=> a = b
        BY <1>4, <3>2, <3>4, TaskFields DEF Doing, Does, Arms
      <4>2. Doing(t, b)'
        BY <2>1, <3>2, <3>4, TaskFields DEF Doing, Does, Arms, Works, From
      <4>. QED
        BY <3>1, <3>4, <4>1, <4>2 DEF AlarmGoes, Arms, OneAlarm
    <3>5. CASE Installs(t, b, q)
      <4>1. Doing(t, a) <=> a = b
        BY <1>4, <3>2, <3>5, TaskFields DEF Doing, Does, Installs
      <4>. QED
        BY <3>1, <3>5, <4>1 DEF AlarmGoes, Installs, OneAlarm
    <3>. QED
      BY <3>1, <3>3, <3>4, <3>5
  <2>4. HandlerStep(t)
    BY <2>1 DEF Works
  <2>5. \/ \E b \in Alarms, q \in Seq(Tasks) : SetStep(t, b, q)
        \/ alarm' = alarm /\ \E o \in {"notify", "sample", "begin", "ended", "add"} : \E b, x :
               work[t] = <<Task(o, b)>> \/ work[t] = <<Task(o, b), x>>
    BY <2>4, WorkKinds DEF NotifyStep, SampleStep, BeginStep, EndedStep, AddStep
  <2>. QED
    BY <2>2, <2>3, <2>5
<1>. QED
  BY <1>2, <1>3, <1>4

\* The knobs decide whether the handlers are kept.
LEMMA KeptSame ==
  ASSUME knobs' = knobs
  PROVE  /\ Kept' <=> Kept
         /\ \A a, w : Waited(a, w)' <=> Waited(a, w)
<1>1. Starters' = Starters /\ \A a : AlarmTid(a)' = AlarmTid(a)
  BY KnobFrame
<1>2. \A a : Setters(a)' = Setters(a)
  BY <1>1, Zenon DEF Setters
<1>3. \A a, w : Waited(a, w)' <=> Waited(a, w)
  BY DEF Waited, InRange
<1>. QED
  BY <1>1, <1>2, <1>3 DEF Kept

\* A thread that comes upon an alarm without a handler is one that the length
\* has been set for, with all, by a thread of the range.
LEMMA PendingRange ==
  ASSUME CallInv, AloneInv, FirstInv, StoredInv, Kept, NEW t \in Threads, NEW a \in Alarms,
         NEW w \in Threads, Doing(w, a), alarm[a].handler = FALSE, t \in For(AlarmTid(a)), t # w
  PROVE  Waited(a, w) /\ a = "length" /\ OwnCount(w) /\ knobs.length > 0 /\ knobs.high > 0
         /\ w <= knobs.high /\ knobs.low <= w
<1>1. HandlerThere(w) /\ SkipEnds /\ (knobs.lengthTid = ALL_THREADS => OwnCount(w))
  BY DEF StoredInv
<1>2. /\ a \in {"length", "uLength", "period"} /\ w \in Setters(a)
      /\ a = "length" => knobs.length > 0
  BY <1>1, DoersSet
<1>3. AlarmTid(a) # w
  BY TidFacts DEF For
<1>4. Waited(a, w)
  BY <1>2, <1>3 DEF Kept
<1>. QED
  BY <1>1, <1>2, <1>4, TidFacts DEF Waited, InRange

\* The thread that steps.
LEMMA PendingOwn ==
  ASSUME CallInv, AloneInv, FirstInv, StoredInv, Kept, NEW t \in Threads, ControlStep(t),
         NEW a \in Alarms, alarm[a].handler = FALSE, ~ Doing(t, a), InCalls(t, a)'
  PROVE  \E w \in Threads \ {t} :
           /\ Doing(w, a) /\ Waited(a, w)
           /\ pc'[t] \in {"store", "scan"} /\ (pc'[t] = "scan" => each'[t] <= w)
<1>1. /\ Moved(t) /\ Inserted' = Inserted /\ knobs' = knobs /\ CallTypes /\ ArmedFor /\ PlaceOf(t)
      /\ Pending(a)
  BY Moves, Others DEF CallInv, StoredInv
<1>2. pc'[t] \in {"store", "scan", "disarm", "then"} /\ Inserted[at'[t]] = a
  BY <1>1 DEF InCalls, InAlarm, Current
<1>3. CASE Reads(t)
  <2>1. Current(t) = a /\ alarm[a].armed[t] = TRUE /\ t \in For(AlarmTid(a)) /\ pc'[t] = "store"
    BY <1>1, <1>2, <1>3 DEF Reads, From, Current, Concerns, CallTypes, AlarmRecords, ArmedFor
  <2>2. PICK w \in Threads : Doing(w, a)
    BY <1>1, <2>1 DEF Pending, Waits
  <2>3. w # t
    BY <2>2
  <2>. QED
    BY <2>1, <2>2, <2>3, PendingRange
<1>4. CASE Stores(t) \/ Scans(t) \/ Disarms(t)
  <2>1. Current(t) = a /\ InAlarm(t) /\ t \in For(AlarmTid(a))
    <3>1. at'[t] = at[t] /\ pc[t] \in {"store", "scan", "disarm"}
      BY <1>2, <1>4 DEF Stores, Scans, Disarms
    <3>. QED
      BY <1>1, <1>2, <3>1 DEF Current, InAlarm, PlaceOf
  <2>2. PICK w \in Threads : Waits(t, a, w)
    BY <1>1, <2>1 DEF Pending, InCalls
  <2>3. /\ Doing(w, a) /\ w # t /\ pc[t] \in {"store", "scan"} /\ (pc[t] = "scan" => each[t] <= w)
    BY <2>1, <2>2 DEF Waits, InCalls
  <2>4. /\ Waited(a, w) /\ a = "length" /\ OwnCount(w) /\ knobs.length > 0 /\ knobs.high > 0
        /\ w <= knobs.high /\ knobs.low <= w
    BY <2>1, <2>3, PendingRange
  <2>5. CASE Stores(t)
    <3>1. Ranged(t)
      BY <2>1, <2>4 DEF Ranged
    <3>2. pc'[t] = "scan" /\ each'[t] = knobs.low
      BY <2>5, <3>1 DEF Stores
    <3>. QED
      BY <2>3, <2>4, <3>2
  <2>6. CASE Scans(t)
    <3>1. alarm["length"].count[w] = knobs.length
      BY <2>3, <2>4 DEF OwnCount
    <3>2. each[t] <= w /\ alarm["length"].count[each[t]] <= 0
      BY <1>2, <2>1, <2>3, <2>4, <2>6 DEF Scans
    <3>3. each[t] # w
      <4>1. knobs.length \in Nat
        BY <1>1, KnobFacts DEF CallTypes
      <4>. QED
        BY <2>4, <3>1, <3>2, <4>1
    <3>4. PICK e \in Nat, h \in Nat, v \in Nat : e = each[t] /\ h = knobs.high /\ v = w
      BY <1>1, KnobFacts, TidFacts DEF CallTypes
    <3>5. e + 1 <= v /\ e # h
      BY <2>4, <3>2, <3>3, <3>4
    <3>6. pc'[t] = "scan" /\ each'[t] = e + 1
      BY <1>2, <2>6, <3>2, <3>4, <3>5 DEF Scans
    <3>. QED
      BY <2>3, <2>4, <3>4, <3>5, <3>6
  <2>. QED
    BY <1>4, <2>3, <2>5, <2>6 DEF Disarms
<1>. QED
  BY <1>1, <1>2, <1>3, <1>4 DEF Moved, Enters, Skips, Handles, Works, Returns, Begins, Executes, Comes,
                                Leaves, From

\* No step brings a thread to an alarm without a handler past the one that sets it.
LEMMA PendingStep ==
  ASSUME CallInv, AloneInv, FirstInv, StoredInv, Kept, NEW t \in Threads, ControlStep(t),
         NEW a \in Alarms
  PROVE  Pending(a)'
<1>1. /\ Moved(t) /\ Inserted' = Inserted /\ knobs' = knobs /\ CallTypes
      /\ \A u \in Threads \ {t} : Frame(u) /\ Current(u)' = Current(u)
      /\ Pending(a) /\ AlarmGoes(t, a)
  BY Moves, Others, AlarmsGo DEF CallInv, StoredInv
<1>. SUFFICES ASSUME alarm'[a].handler = FALSE, NEW u \in Threads,
                     alarm'[a].armed[u] = TRUE \/ InCalls(u, a)'
     PROVE  \E w \in Threads : Waits(u, a, w)'
  BY DEF Pending
<1>2. alarm[a].handler = FALSE
  BY <1>1 DEF AlarmGoes
<1>3. \A w \in Threads \ {t} : Doing(w, a) => Doing(w, a)'
  BY <1>1 DEF Frame, Doing, Does
<1>4. \A w : Waited(a, w)' <=> Waited(a, w)
  BY <1>1, KeptSame
<1>5. CASE u # t
  <2>1. /\ InCalls(u, a)' <=> InCalls(u, a)
        /\ \A w \in Threads : Waits(u, a, w) /\ Doing(w, a)' => Waits(u, a, w)'
    BY <1>1, <1>4, <1>5 DEF InCalls, InAlarm, Frame, Waits
  <2>2. CASE Doing(t, a)'
    <3>1. \A w \in Threads : Doing(w, a) => Doing(w, a)'
      BY <1>3, <2>2
    <3>2. CASE InCalls(u, a)
      BY <1>1, <1>2, <2>1, <3>1, <3>2 DEF Pending, Waits
    <3>3. CASE ~ InCalls(u, a)
      BY <2>1, <2>2, <3>3 DEF Waits
    <3>. QED
      BY <3>2, <3>3
  <2>3. CASE ~ Doing(t, a)'
    <3>1. ~ Doing(t, a) /\ (alarm'[a].armed[u] = TRUE => alarm[a].armed[u] = TRUE)
      BY <1>1, <2>3 DEF AlarmGoes
    <3>2. PICK w \in Threads : Waits(u, a, w)
      BY <1>1, <1>2, <2>1, <3>1 DEF Pending
    <3>3. Doing(w, a)'
      BY <1>3, <3>1, <3>2 DEF Waits
    <3>. QED
      BY <2>1, <3>2, <3>3
  <2>. QED
    BY <2>2, <2>3
<1>6. CASE u = t
  <2>1. CASE Doing(t, a)'
    BY <1>6, <2>1 DEF Waits, Doing, Does, InCalls, InAlarm
  <2>2. CASE ~ Doing(t, a)' /\ InCalls(t, a)'
    <3>1. ~ Doing(t, a)
      BY <1>1, <2>2 DEF AlarmGoes
    <3>2. PICK w \in Threads \ {t} :
            /\ Doing(w, a) /\ Waited(a, w)
            /\ pc'[t] \in {"store", "scan"} /\ (pc'[t] = "scan" => each'[t] <= w)
      BY <1>2, <2>2, <3>1, PendingOwn
    <3>. QED
      BY <1>3, <1>4, <1>6, <3>2 DEF Waits
  <2>3. CASE ~ Doing(t, a)' /\ ~ InCalls(t, a)'
    <3>1. ~ Doing(t, a) /\ alarm[a].armed[t] = TRUE
      BY <1>1, <1>6, <2>3 DEF AlarmGoes
    <3>2. PICK w \in Threads : Doing(w, a)
      BY <1>1, <1>2, <3>1 DEF Pending, Waits
    <3>. QED
      BY <1>3, <1>6, <2>3, <3>1, <3>2 DEF Waits
  <2>. QED
    BY <2>1, <2>2, <2>3
<1>. QED
  BY <1>5, <1>6

\* A list that is not in the middle of setting an alarm.
Whole(q) == q # <<>> => Head(q).op \notin {"arm", "handler"}

\* No handler begins in the middle of SetAlarm.
LEMMA WholeLists ==
  /\ Whole(<<>>) /\ Whole(StartList) /\ Whole(<<StartTask>>) /\ Whole(<<StopTask>>)
  /\ \A a \in Alarms : /\ Whole(Handler(a)) /\ Whole(<<Task("sample", a)>>)
                        /\ \A q \in Seq(Tasks) : Whole(CountPlan(a, q))
<1>1. \A o \in {"notify", "sample", "ended"} : \A b, x :
        Whole(<<Task(o, b)>>) /\ Whole(<<Task(o, b), x>>)
  BY ListFacts, TaskFields DEF Whole
<1>2. Whole(<<>>)
  BY DEF Whole
<1>3. \A a \in Alarms : \A q \in Seq(Tasks) : Whole(CountPlan(a, q))
  BY PlanFacts, TaskFields DEF Whole
<1>4. /\ <<StartTask>> \in Seq(Tasks) /\ "length" \in Alarms /\ "period" \in Alarms
      /\ \A a \in Alarms : <<Task("sample", a)>> \in Seq(Tasks)
  <2>1. \A x \in Tasks : <<x>> \in Seq(Tasks)
    <3>. HIDE DEF Tasks
    <3>. QED
      OBVIOUS
  <2>. QED
    BY <2>1, TaskTypes
<1>5. Whole(StartList) /\ Whole(<<StartTask>>) /\ Whole(<<StopTask>>)
  BY <1>1, <1>3, <1>4 DEF StartList, StartTask, StopTask
<1>6. ASSUME NEW a \in Alarms PROVE Whole(Handler(a))
  <2>1. a = "skip" \/ a = "length" \/ a \in {"period", "uSkip"} \/ a = "uLength"
    BY <1>6 DEF Alarms
  <2>2. CASE a \in {"period", "uSkip"}
    <3>1. Handler(a) = CountPlan("period", <<Task("sample", a)>>) \/ Handler(a) = <<>>
      BY <2>2, FirstPlans
    <3>. QED
      BY <1>2, <1>3, <1>4, <3>1
  <2>. QED
    BY <1>1, <1>5, <2>1, <2>2, FirstPlans
<1>. QED
  BY <1>1, <1>2, <1>3, <1>5, <1>6

\* Before a loop begins, and after it.
LEMMA OwnWhole ==
  ASSUME NEW t \in Threads, Whole(work'[t]), each'[t] = 0
  PROVE  OwnCount(t)'
<1>1. ~ (t < each'[t])
  BY TidFacts
<1>2. ~ Doing(t, "length")'
  BY DEF Doing, Does, Whole
<1>. QED
  BY <1>1, <1>2 DEF OwnCount

\* A thread that sets another alarm is not setting the length.
LEMMA OwnOther ==
  ASSUME NEW t \in Threads, NEW b, b # "length", work'[t] # <<>> => Head(work'[t]).alarm = b
  PROVE  OwnCount(t)'
BY DEF OwnCount, Doing, Does

\* The counts of who sets the length for all, as it goes on.
LEMMA OwnLength ==
  ASSUME CallInv, knobs.lengthTid = ALL_THREADS, NEW t \in Threads, OwnCount(t), Works(t),
         NEW q \in Seq(Tasks), Whole(q), SetStep(t, "length", q)
  PROVE  OwnCount(t)'
<1>1. /\ CallTypes /\ PlaceOf(t) /\ "length" \in Alarms /\ AlarmTid("length") = ALL_THREADS
      /\ AlarmCount("length") = knobs.length /\ knobs' = knobs
      /\ pc[t] = "work" /\ pc'[t] = "work" /\ work[t] # <<>>
  <2>1. Own(t)
    BY WorkFrame DEF Works
  <2>. QED
    BY <2>1 DEF CallInv, Alarms, AlarmTid, AlarmCount, Own, Works, From
<1>2. Counts(t, "length", q) \/ Arms(t, "length", q) \/ Installs(t, "length", q)
  BY <1>1, SetCases
<1>3. /\ Head(CountPlan("length", q)) = Task("count", "length")
      /\ Head(ArmPlan("length", q)) = Task("arm", "length")
      /\ Head(StorePlan("length", q)) = Task("handler", "length")
  BY <1>1, PlanFacts
<1>4. CASE Counts(t, "length", q)
  <2>1. PICK e \in Threads : e = each[t]
    BY <1>1 DEF CallTypes
  <2>2. /\ alarm'["length"].count[e] = knobs.length
        /\ \A u \in Threads \ {e} : alarm'["length"].count[u] = alarm["length"].count[u]
        /\ t < e => alarm["length"].count[t] = knobs.length
    BY <1>1, <1>3, <1>4, <2>1, TaskFields DEF Counts, Entry, OwnCount, Does
  <2>3. t < e + 1 => alarm'["length"].count[t] = knobs.length
    <3>1. t < e + 1 => t < e \/ t = e
      BY <2>1, TidFacts
    <3>2. t < e => t # e
      BY <2>1, TidFacts
    <3>. QED
      BY <2>2, <3>1, <3>2
  <2>4. CASE AtEnd(t, ALL_THREADS)
    <3>1. t < e + 1
      BY <2>1, <2>4, TidFacts DEF AtEnd
    <3>2. ~ Does(t, {"count"}, "length")'
      BY <1>1, <1>3, <1>4, <2>4, TaskFields DEF Counts, Does
    <3>. QED
      BY <1>1, <2>3, <3>1, <3>2 DEF OwnCount
  <2>5. CASE ~ AtEnd(t, ALL_THREADS)
    <3>1. each'[t] = e + 1
      BY <1>1, <1>4, <2>1, <2>5 DEF Counts, TurnOf
    <3>2. ~ Doing(t, "length")'
      BY <1>1, <1>3, <1>4, <2>5, TaskFields DEF Counts, Doing, Does
    <3>. QED
      BY <1>1, <2>3, <3>1, <3>2 DEF OwnCount
  <2>. QED
    BY <2>4, <2>5
<1>5. CASE Arms(t, "length", q)
  <2>1. Doing(t, "length")
    BY <1>1, <1>3, <1>5, TaskFields DEF Arms, Doing, Does
  <2>2. alarm'["length"].count[t] = knobs'.length
    BY <1>1, <1>5, <2>1 DEF OwnCount, Arms
  <2>. QED
    BY <2>2 DEF OwnCount
<1>6. CASE Installs(t, "length", q)
  <2>1. each[t] = 0
    BY <1>1, <1>3, <1>6, TaskFields DEF PlaceOf, Looping, Installs
  <2>. QED
    BY <1>6, <2>1, OwnWhole DEF Installs
<1>. QED
  BY <1>2, <1>4, <1>5, <1>6

\* Setting another alarm.
LEMMA OwnSets ==
  ASSUME CallInv, NEW t \in Threads, Works(t), NEW b \in Alarms \ {"length"},
         NEW q \in Seq(Tasks), Whole(q), SetStep(t, b, q)
  PROVE  OwnCount(t)'
<1>1. /\ PlaceOf(t) /\ (Counts(t, b, q) \/ Arms(t, b, q) \/ Installs(t, b, q))
      /\ work[t] # <<>> /\ pc[t] = "work"
  BY SetCases DEF CallInv, Works, From
<1>2. /\ Head(CountPlan(b, q)).alarm = b /\ Head(ArmPlan(b, q)).alarm = b
      /\ Head(StorePlan(b, q)) = Task("handler", b) /\ Head(StorePlan(b, q)).alarm = b
  BY PlanFacts, TaskFields
<1>3. CASE Counts(t, b, q) \/ Arms(t, b, q)
  BY <1>2, <1>3, OwnOther DEF Counts, Arms
<1>4. CASE Installs(t, b, q)
  <2>1. each[t] = 0
    BY <1>1, <1>2, <1>4, TaskFields DEF PlaceOf, Looping, Installs
  <2>. QED
    BY <1>4, <2>1, OwnWhole DEF Installs
<1>. QED
  BY <1>1, <1>3, <1>4

\* A statement of a handler keeps the count of the thread that sets the length.
LEMMA OwnWorks ==
  ASSUME CallInv, knobs.lengthTid = ALL_THREADS, NEW t \in Threads, OwnCount(t), Works(t)
  PROVE  OwnCount(t)'
<1>1. /\ HandlerStep(t) /\ CallTypes /\ PlaceOf(t) /\ work[t] # <<>> /\ pc[t] = "work"
  BY DEF CallInv, Works, From
<1>2. /\ {"skip", "length", "period", "uLength", "uSkip"} = Alarms
      /\ StartList \in Seq(Tasks) /\ Whole(StartList)
      /\ <<StartTask>> \in Seq(Tasks) /\ Whole(<<StartTask>>)
      /\ \A a \in Alarms : <<Task("sample", a)>> \in Seq(Tasks) /\ Whole(<<Task("sample", a)>>)
  <2>1. \A x \in Tasks : <<x>> \in Seq(Tasks)
    <3>. HIDE DEF Tasks
    <3>. QED
      OBVIOUS
  <2>. QED
    BY <2>1, TaskTypes, PlanTypes, WholeLists
<1>3. \/ SetStep(t, "length", <<StartTask>>)
      \/ SetStep(t, "uLength", StartList)
      \/ \E a \in Alarms : \/ SetStep(t, "period", <<Task("sample", a)>>)
                           \/ SampleStep(t, a) \/ BeginStep(t, a)
      \/ EndedStep(t) \/ AddStep(t) \/ NotifyStep(t, "start") \/ NotifyStep(t, "stop")
  BY <1>1, <1>2, StepKinds DEF StartKinds, SampleKinds
<1>4. CASE SetStep(t, "length", <<StartTask>>)
  BY <1>2, <1>4, OwnLength
<1>5. CASE SetStep(t, "uLength", StartList)
  BY <1>2, <1>5, OwnSets
<1>6. ASSUME NEW a \in Alarms, SetStep(t, "period", <<Task("sample", a)>>) PROVE OwnCount(t)'
  BY <1>2, <1>6, OwnSets
<1>7. ASSUME NEW a \in Alarms, SampleStep(t, a) PROVE OwnCount(t)'
  <2>1. work'[t] = <<Task("begin", a)>> \/ work'[t] = CountPlan("uLength", StartList)
    BY <1>1, <1>7 DEF SampleStep, CallTypes
  <2>2. /\ Head(CountPlan("uLength", StartList)).alarm = "uLength"
        /\ Head(<<Task("begin", a)>>) = Task("begin", a)
    <3>1. "uLength" \in Alarms
      BY <1>2
    <3>2. Head(CountPlan("uLength", StartList)) = Task("count", "uLength")
      BY <1>2, <3>1, PlanFacts
    <3>3. Head(<<Task("begin", a)>>) = Task("begin", a)
      BY ListFacts
    <3>. QED
      BY <3>2, <3>3, TaskFields
  <2>3. CASE work'[t] = CountPlan("uLength", StartList)
    BY <2>2, <2>3, OwnOther
  <2>4. CASE work'[t] = <<Task("begin", a)>>
    <3>1. Head(work'[t]).op = "begin"
      BY <2>2, <2>4, TaskFields
    <3>. QED
      BY <3>1 DEF OwnCount, Doing, Does
  <2>. QED
    BY <2>1, <2>3, <2>4
<1>8. CASE EndedStep(t) \/ AddStep(t)
  <2>1. work'[t] = <<Task("add", "uLength"), StopTask>> \/ work'[t] = <<StopTask>>
    BY <1>1, <1>8 DEF EndedStep, AddStep, CallTypes
  <2>2. Head(work'[t]).op \in {"add", "notify"}
    BY <2>1, ListFacts, TaskFields DEF StopTask
  <2>. QED
    BY <2>2 DEF OwnCount, Doing, Does
<1>9. ASSUME work'[t] = <<>> PROVE OwnCount(t)'
  BY <1>9 DEF OwnCount, Doing, Does
<1>10. ASSUME NEW a \in Alarms, BeginStep(t, a) PROVE OwnCount(t)'
  BY <1>1, <1>9, <1>10 DEF BeginStep, CallTypes
<1>11. CASE NotifyStep(t, "start") \/ NotifyStep(t, "stop")
  BY <1>1, <1>9, <1>11 DEF NotifyStep, CallTypes
<1>. QED
  BY <1>3, <1>4, <1>5, <1>6, <1>7, <1>8, <1>10, <1>11

\* What a step does to the count of the length of another thread.
LEMMA OthersCount ==
  ASSUME CallInv, knobs.lengthTid = ALL_THREADS, NEW t \in Threads, ControlStep(t),
         NEW w \in Threads \ {t}
  PROVE  \/ alarm'["length"].count[w] = alarm["length"].count[w]
         \/ alarm'["length"].count[w] = knobs.length
<1>1. /\ Moved(t) /\ OtherAlarms(t) /\ CallTypes /\ "length" \in Alarms
      /\ AlarmCount("length") = knobs.length
  BY Moves DEF CallInv, Alarms, AlarmCount
<1>2. CASE Plain(t) \/ Handles(t) \/ Begins(t)
  BY <1>2, PlainFacts DEF Handles, Begins, SameAlarms
<1>3. CASE Stores(t) \/ Disarms(t)
  <2>1. CASE Current(t) # "length"
    BY <1>1, <1>3, <2>1 DEF OtherAlarms, OneAlarm
  <2>2. CASE Current(t) = "length"
    BY <1>3, <2>2 DEF Stores, Disarms
  <2>. QED
    BY <2>1, <2>2
<1>4. CASE Works(t)
  <2>1. HandlerStep(t)
    BY <1>4 DEF Works
  <2>2. ASSUME NEW b \in Alarms, NEW q \in Seq(Tasks), SetStep(t, b, q)
        PROVE  \/ alarm'["length"].count[w] = alarm["length"].count[w]
               \/ alarm'["length"].count[w] = knobs.length
    <3>1. (Counts(t, b, q) \/ Arms(t, b, q) \/ Installs(t, b, q)) /\ OneAlarm(b)
      BY <1>1, <2>2, SetCases
    <3>2. CASE b # "length"
      BY <1>1, <3>1, <3>2 DEF OneAlarm
    <3>3. CASE b = "length"
      BY <1>1, <3>1, <3>3 DEF Counts, Arms, Installs
    <3>. QED
      BY <3>2, <3>3
  <2>3. alarm' = alarm \/ \E b \in Alarms, q \in Seq(Tasks) : SetStep(t, b, q)
    BY <2>1, WorkKinds DEF NotifyStep, SampleStep, BeginStep, EndedStep, AddStep
  <2>. QED
    BY <2>2, <2>3
<1>. QED
  BY <1>1, <1>2, <1>3, <1>4 DEF Moved, Plain

\* No step of any thread lowers the count of a thread that sets the length.
LEMMA OwnStep ==
  ASSUME CallInv, knobs.lengthTid = ALL_THREADS, NEW t \in Threads, ControlStep(t),
         NEW w \in Threads, OwnCount(w)
  PROVE  OwnCount(w)'
<1>1. /\ Moved(t) /\ CallTypes /\ PlaceOf(t) /\ knobs' = knobs
  BY Moves, Others DEF CallInv
<1>2. CASE w # t
  <2>1. Frame(w)
    BY <1>2, Others
  <2>2. \/ alarm'["length"].count[w] = alarm["length"].count[w]
        \/ alarm'["length"].count[w] = knobs.length
    BY <1>2, OthersCount
  <2>. QED
    BY <1>1, <2>1, <2>2 DEF OwnCount, Doing, Does, Frame
<1>3. CASE w = t /\ pc'[t] # "work"
  BY <1>3 DEF OwnCount, Doing, Does
<1>4. CASE w = t /\ Works(t)
  BY <1>4, OwnWorks
<1>5. CASE w = t /\ (Handles(t) \/ Begins(t))
  <2>1. each'[t] = 0
    BY <1>1, <1>5 DEF Handles, Begins, From, SameLoop, PlaceOf
  <2>2. CASE Begins(t)
    BY <1>5, <2>1, <2>2, OwnWhole, WholeLists DEF Begins
  <2>3. CASE Handles(t)
    <3>1. work'[t] = Handler(Current(t)) \/ work'[t] = <<>>
      BY <1>1, <2>3 DEF Handles, From, PlaceOf
    <3>2. at[t] \in 1 .. Len(Inserted)
      BY <1>1, <2>3, InsertedFacts DEF Handles, CallTypes
    <3>3. Current(t) \in Alarms
      BY <1>1, <3>2, AlarmPlaces DEF Current, CallTypes
    <3>. QED
      BY <1>5, <2>1, <3>1, <3>3, OwnWhole, WholeLists
  <2>. QED
    BY <1>5, <2>2, <2>3
<1>. QED
  BY <1>1, <1>2, <1>3, <1>4, <1>5, PlainFacts DEF Moved, Plain, Stores, Disarms

\* A step keeps the handlers that are there, and calls none that is not.
LEMMA StoredStep ==
  ASSUME CallInv, AloneInv, FirstInv, StoredInv, NEW t \in Threads, ControlStep(t)
  PROVE  StoredInv'
<1>1. /\ Moved(t) /\ CallTypes /\ PlaceOf(t) /\ knobs' = knobs /\ Inserted' = Inserted
      /\ \A u \in Threads \ {t} : Frame(u) /\ Current(u)' = Current(u)
      /\ \A a : AlarmTid(a)' = AlarmTid(a)
      /\ (~ Handles(t) => stage' = "run")
  BY Moves, Others DEF CallInv
<1>2. Kept' <=> Kept
  BY <1>1, KeptSame
<1>. SUFFICES ASSUME Kept
     PROVE  /\ stage' # "crashed" /\ SkipEnds'
            /\ \A a \in Alarms : Pending(a)'
            /\ \A w \in Threads : HandlerThere(w)' /\ (knobs'.lengthTid = ALL_THREADS => OwnCount(w)')
  BY <1>2 DEF StoredInv
<1>3. /\ SkipEnds /\ \A a \in Alarms : Pending(a)
      /\ \A w \in Threads : HandlerThere(w) /\ (knobs.lengthTid = ALL_THREADS => OwnCount(w))
  BY DEF StoredInv
<1>4. \A a \in Alarms : AlarmGoes(t, a) /\ alarm[a].handler \in BOOLEAN
  BY <1>1, AlarmsGo DEF CallTypes, AlarmRecords
<1>5. \A a \in Alarms : alarm[a].handler = TRUE => alarm'[a].handler = TRUE
  BY <1>4 DEF AlarmGoes
<1>6. \A w \in Threads : at[w] \in 1 .. Len(Inserted) => Current(w) \in Alarms
  BY <1>1, AlarmPlaces DEF Current, CallTypes
<1>7. \A w \in Threads : at[w] <= Len(Inserted) => at[w] \in 1 .. Len(Inserted)
  BY <1>1, InsertedFacts DEF CallTypes
<1>8. ASSUME Handles(t) PROVE alarm[Current(t)].handler = TRUE /\ stage' = "run"
  <2>1. InCalls(t, Current(t)) /\ Current(t) \in Alarms /\ pc[t] = "then"
    BY <1>6, <1>7, <1>8 DEF Handles, From, InCalls, InAlarm
  <2>2. \A w : ~ Waits(t, Current(t), w)
    BY <2>1 DEF Waits
  <2>3. alarm[Current(t)].handler = TRUE
    BY <1>3, <1>4, <2>1, <2>2 DEF Pending
  <2>. QED
    BY <1>8, <2>3 DEF Handles
<1>9. stage' # "crashed"
  BY <1>1, <1>8
<1>10. SkipEnds'
  <2>. SUFFICES ASSUME alarm'["uSkip"].handler = TRUE PROVE knobs.uSkip > 0
    BY <1>1 DEF SkipEnds
  <2>1. "uSkip" \in Alarms
    BY DEF Alarms
  <2>2. CASE alarm["uSkip"].handler = TRUE
    BY <1>3, <2>2 DEF SkipEnds
  <2>3. CASE alarm["uSkip"].handler = FALSE
    <3>1. Doing(t, "uSkip")
      BY <1>4, <2>1, <2>3 DEF AlarmGoes
    <3>. QED
      BY <1>3, <2>1, <2>3, <3>1, DoersSet
  <2>. QED
    BY <1>4, <2>1, <2>2, <2>3
<1>11. \A a \in Alarms : Pending(a)'
  BY PendingStep
<1>12. ASSUME NEW w \in Threads PROVE HandlerThere(w)'
  <2>. SUFFICES ASSUME pc'[w] = "work", at'[w] <= Len(Inserted)
       PROVE  alarm'[Inserted[at'[w]]].handler = TRUE
    BY <1>1 DEF HandlerThere, Current
  <2>1. CASE w # t
    BY <1>1, <1>3, <1>5, <1>6, <1>7, <2>1 DEF Frame, HandlerThere, Current
  <2>2. CASE w = t /\ Works(t)
    <3>1. pc[t] = "work" /\ at'[t] = at[t]
      BY <2>2 DEF Works, From
    <3>. QED
      BY <1>3, <1>5, <1>6, <1>7, <2>2, <3>1 DEF HandlerThere, Current
  <2>3. CASE w = t /\ Handles(t)
    BY <1>5, <1>6, <1>7, <1>8, <2>3 DEF Handles, Current
  <2>4. CASE w = t /\ Begins(t)
    BY <1>1, <2>4, InsertedFacts DEF Begins, CallTypes
  <2>. QED
    BY <1>1, <2>1, <2>2, <2>3, <2>4, PlainFacts DEF Moved, Plain, Stores, Disarms
<1>13. \A w \in Threads : knobs.lengthTid = ALL_THREADS => OwnCount(w)'
  BY <1>3, OwnStep
<1>. QED
  BY <1>1, <1>9, <1>10, <1>11, <1>12, <1>13

\* At the beginning an alarm is armed with its handler.
LEMMA StoredInit == ControlInit => StoredInv
<1>. SUFFICES ASSUME ControlInit
     PROVE  /\ stage # "crashed" /\ SkipEnds
            /\ \A a \in Alarms : Pending(a)
            /\ \A w \in Threads : HandlerThere(w) /\ OwnCount(w)
  BY DEF StoredInv
<1>1. stage = "run" /\ \A t \in Threads : pc[t] = "out"
  BY DEF ControlInit
<1>2. ASSUME NEW a \in Alarms, a \notin FirstAlarms
      PROVE  alarm[a].handler = FALSE /\ \A t \in Threads : alarm[a].armed[t] = FALSE
  BY <1>2, InitAlarms DEF ALARM_ICOUNT
<1>3. ASSUME NEW a \in Alarms, a \in FirstAlarms PROVE alarm[a].handler = TRUE
  BY <1>3, InitAlarms
<1>4. SkipEnds
  BY <1>2 DEF SkipEnds, FirstAlarms, Alarms
<1>5. \A a \in Alarms : Pending(a)
  BY <1>1, <1>2, <1>3 DEF Pending, InCalls, InAlarm
<1>. QED
  BY <1>1, <1>4, <1>5 DEF HandlerThere, OwnCount, Doing, Does

\* The invariant is what HandlersStored says of the calls of null handlers.
LEMMA StoredConclusion == StoredInv => HandlersStored
<1>. SUFFICES ASSUME StoredInv, stage = "crashed"
     PROVE  \E a \in {"length", "uLength", "period"} : \E u \in Setters(a) :
              /\ AlarmTid(a) # u
              /\ a = "length" /\ knobs.lengthTid = ALL_THREADS => ~ InRange(u)
  BY DEF HandlersStored
<1>1. ~ Kept
  BY DEF StoredInv
<1>. QED
  BY <1>1 DEF Kept, Waited
-----------------------------------------------------------------------------
(***************************************************************************)
(* All of them.                                                            *)
(***************************************************************************)
IntervalInv ==
  CallInv /\ AloneInv /\ FirstInv /\ SkipInv /\ LengthInv /\ RangeInv /\ StoredInv

\* What holds of the threads does not change when the program ends or waits.
LEMMA IntervalStops ==
  ASSUME IntervalInv, ControlFini \/ UNCHANGED controlVars
  PROVE  AloneInv' /\ FirstInv' /\ SkipInv' /\ LengthInv' /\ RangeInv' /\ StoredInv'
<1>1. /\ knobs' = knobs /\ _first' = _first /\ alarm' = alarm /\ gThreadNum' = gThreadNum
      /\ pc' = pc /\ block' = block /\ at' = at /\ seen' = seen /\ each' = each /\ work' = work
      /\ executed' = executed /\ since' = since /\ log' = log
      /\ live' = live
      /\ (stage' = stage \/ stage' = "done")
  BY DEF ControlFini, ThreadEnd, controlVars, threadVars, setVars, callVars, historyVars
<1>2. \A u \in Threads : Frame(u)
  BY <1>1 DEF Frame
<1>3. /\ (InitActive' <=> InitActive) /\ Starters' = Starters /\ Inserted' = Inserted
      /\ \A u : Starts(u)' = Starts(u) /\ Stops(u)' = Stops(u)
      /\ LengthPlace' = LengthPlace
  BY <1>1, KnobFrame, SameEvents DEF Starts, Stops, LengthPlace
<1>4. AloneInv'
  BY <1>1 DEF IntervalInv, AloneInv
<1>5. FirstInv'
  BY <1>1, <1>3 DEF IntervalInv, FirstInv
<1>6. SkipInv'
  BY <1>1, <1>2, <1>3, SkipFrame DEF IntervalInv, SkipInv
<1>7. LengthInv'
  <2>. SUFFICES ASSUME NEW t \in Threads, Alone(t)'
       PROVE  /\ \A u \in Threads \ {t} : alarm'["length"].count[u] = 0
              /\ stage' = "run" => LengthState(t)'
    BY DEF LengthInv
  <2>1. Alone(t)
    BY <1>1, <1>3 DEF Alone, InRange
  <2>2. /\ \A u \in Threads \ {t} : alarm["length"].count[u] = 0
        /\ stage = "run" => LengthState(t)
    BY <2>1 DEF IntervalInv, LengthInv
  <2>3. LengthState(t) => LengthState(t)'
    BY <1>1, <1>2, <1>3, LengthFrame
  <2>. QED
    BY <1>1, <2>2, <2>3
<1>8. RangeInv'
  <2>1. (RangeOnly' <=> RangeOnly) /\ (Stopped' <=> Stopped)
    BY <1>1, <1>3 DEF RangeOnly, Stopped, Stops
  <2>2. \A u \in Threads : /\ Lag(u)' <=> Lag(u)
                           /\ Fresh(u)' <=> Fresh(u)
                           /\ WasArmed(u)' <=> WasArmed(u)
                           /\ Reached(u)' <=> Reached(u)
    BY <1>1, <1>3 DEF Lag, Fresh, WasArmed, Reached, Ran, Counted
  <2>. SUFFICES ASSUME RangeOnly
       PROVE  RangeInv'
    BY <2>1 DEF RangeInv
  <2>3. knobs.low .. knobs.high \subseteq Threads
    BY RangeHere, TidFacts DEF RangeTypes, IntervalInv
  <2>4. AllReached' <=> AllReached
    BY <1>1, <2>2, <2>3 DEF AllReached
  <2>5. ASSUME NEW u \in Threads PROVE Arming(u)' /\ Sees(u)'
    <3>1. Arming(u) /\ Sees(u)
      BY DEF IntervalInv, RangeInv
    <3>2. Arming(u)'
      BY <1>1, <2>2, <3>1 DEF Arming, SetLength, CountPlan, ArmPlan
    <3>3. Sees(u)'
      <4>1. (AtLength(u)' <=> AtLength(u)) /\ (InAlarm(u)' <=> InAlarm(u))
        BY <1>1, <1>3 DEF AtLength, InAlarm
      <4>. QED
        BY <1>1, <2>2, <2>4, <3>1, <4>1 DEF Sees
    <3>. QED
      BY <3>2, <3>3
  <2>. QED
    BY <1>1, <2>1, <2>2, <2>4, <2>5 DEF IntervalInv, RangeInv
<1>9. StoredInv'
  <2>1. (Kept' <=> Kept) /\ \A a, w : Waited(a, w)' <=> Waited(a, w)
    BY <1>1, KeptSame
  <2>2. \A u \in Threads : Current(u)' = Current(u) /\ (InAlarm(u)' <=> InAlarm(u))
    BY <1>1, <1>3 DEF Current, InAlarm
  <2>3. \A u, a : Doing(u, a)' <=> Doing(u, a)
    BY <1>1 DEF Doing, Does
  <2>4. ASSUME NEW a \in Alarms, Pending(a) PROVE Pending(a)'
    BY <1>1, <2>1, <2>2, <2>3, <2>4 DEF Pending, Waits, InCalls
  <2>5. ASSUME NEW w \in Threads
        PROVE  (HandlerThere(w) => HandlerThere(w)') /\ (OwnCount(w) => OwnCount(w)')
    <3>1. HandlerThere(w) => HandlerThere(w)'
      BY <1>1, <1>3, <2>2 DEF HandlerThere
    <3>2. Does(w, {"count"}, "length")' <=> Does(w, {"count"}, "length")
      BY <1>1 DEF Does
    <3>3. OwnCount(w) => OwnCount(w)'
      BY <1>1, <2>3, <3>2 DEF OwnCount
    <3>. QED
      BY <3>1, <3>3
  <2>6. SkipEnds => SkipEnds'
    BY <1>1 DEF SkipEnds
  <2>. QED
    BY <1>1, <2>1, <2>4, <2>5, <2>6 DEF IntervalInv, StoredInv
<1>. QED
  BY <1>4, <1>5, <1>6, <1>7, <1>8, <1>9

\* At the beginning all of them hold.
LEMMA IntervalInit == ControlInit => IntervalInv
<1>. SUFFICES ASSUME ControlInit PROVE AloneInv /\ FirstInv
  BY InitCallInv, SkipInit, LengthInit, RangeInit, StoredInit DEF IntervalInv
<1>1. live = {} /\ \A u \in Threads : executed[u] = 0 /\ pc[u] = "out"
  BY DEF ControlInit, ThreadInit
<1>. QED
  BY <1>1 DEF AloneInv, FirstInv

\* Every step keeps all of them.
LEMMA IntervalNext == IntervalInv /\ [ControlNext]_controlVars => IntervalInv'
<1>. SUFFICES ASSUME IntervalInv, [ControlNext]_controlVars PROVE IntervalInv'
  OBVIOUS
<1>1. CallInv'
  BY NextCallInv DEF IntervalInv
<1>2. ASSUME NEW t \in Threads, ControlStep(t)
      PROVE  AloneInv' /\ FirstInv' /\ SkipInv' /\ LengthInv' /\ RangeInv' /\ StoredInv'
  BY <1>2, AloneStep, FirstStep, SkipStep, LengthStep, RangeStep, StoredStep DEF IntervalInv
<1>3. CASE ControlFini \/ UNCHANGED controlVars
  BY <1>1, <1>3, IntervalStops DEF IntervalInv
<1>. QED
  BY <1>1, <1>2, <1>3 DEF ControlNext, IntervalInv

\* Where each thread is between the alarms and the handlers of its interval,
\* and what its counts are then, in all states.
THEOREM IntervalInvariant == ControlSpec => []IntervalInv
<1>. QED
  BY IntervalInit, IntervalNext, PTL DEF ControlSpec
-----------------------------------------------------------------------------
(***************************************************************************)
(* SharedData: the sums of its specification.                              *)
(***************************************************************************)
\* There are finitely many threads and lines.
LEMMA FiniteIds == IsFiniteSet(Threads) /\ IsFiniteSet(Lines)
BY FS_Interval, ThreadIdAssumption, SharedDataAssumption DEF Threads, Lines

\* What a line adds to M, and what it should add.
Collected == [l \in Lines |-> IF stamps[l].is_shared THEN stamps[l].count ELSE 0]

Expected == [l \in Lines |-> IF Cardinality(Accessors(l)) > 1 THEN Accesses(l) ELSE 0]

HitsOf(l) == [t \in Threads |-> hits[t][l]]

\* MapThenSumSet adds up the values ...
LEMMA CollectIs == CollectLastAccesses = SumOf(Collected, Lines)
<1>. DEFINE V(l) == IF stamps[l].is_shared THEN stamps[l].count ELSE 0
            P(h) == h = [u \in SUBSET Lines |->
                           IF u = {} THEN 0 ELSE V(Picked(u)) + h[u \ {Picked(u)}]]
<1>1. CollectLastAccesses = (CHOOSE h : P(h))[Lines]
  BY Zenon DEF CollectLastAccesses, MapThenSumSet, MapThenFoldSet, Picked
<1>2. \A l \in Lines : Collected[l] = V(l)
  BY Zenon DEF Collected
<1>. HIDE DEF V
<1>3. \A h : IsSum(Collected, Lines, h) <=> P(h)
  <2>1. \A u \in SUBSET Lines : u # {} => Collected[Picked(u)] = V(Picked(u))
    BY <1>2, PickedIn
  <2>. QED
    BY <2>1 DEF IsSum
<1>4. P(CHOOSE h : P(h))
  <2>1. \E h : P(h)
    BY <1>3, SumExists, FiniteIds
  <2>. HIDE DEF P
  <2>. QED
    BY <2>1
<1>. HIDE DEF P
<1>. QED
  BY <1>1, <1>3, <1>4, SumIs, FiniteIds

\* ... of the threads ...
LEMMA AccessesIs == ASSUME NEW l \in Lines PROVE Accesses(l) = SumOf(HitsOf(l), Threads)
<1>. DEFINE V(t) == hits[t][l]
            P(h) == h = [u \in SUBSET Threads |->
                           IF u = {} THEN 0 ELSE V(Picked(u)) + h[u \ {Picked(u)}]]
<1>1. Accesses(l) = (CHOOSE h : P(h))[Threads]
  BY Zenon DEF Accesses, MapThenSumSet, MapThenFoldSet, Picked
<1>2. \A t \in Threads : HitsOf(l)[t] = V(t)
  BY Zenon DEF HitsOf
<1>. HIDE DEF V
<1>3. \A h : IsSum(HitsOf(l), Threads, h) <=> P(h)
  <2>1. \A u \in SUBSET Threads : u # {} => HitsOf(l)[Picked(u)] = V(Picked(u))
    BY <1>2, PickedIn
  <2>. QED
    BY <2>1 DEF IsSum
<1>4. P(CHOOSE h : P(h))
  <2>1. \E h : P(h)
    BY <1>3, SumExists, FiniteIds
  <2>. HIDE DEF P
  <2>. QED
    BY <2>1
<1>. HIDE DEF P
<1>. QED
  BY <1>1, <1>3, <1>4, SumIs, FiniteIds

\* ... and of the lines that more than one thread has accessed.
LEMMA ExpectedIs ==
  MapThenSumSet(LAMBDA l : IF Cardinality(Accessors(l)) > 1 THEN Accesses(l) ELSE 0, Lines)
    = SumOf(Expected, Lines)
<1>. DEFINE V(l) == IF Cardinality(Accessors(l)) > 1 THEN Accesses(l) ELSE 0
            P(h) == h = [u \in SUBSET Lines |->
                           IF u = {} THEN 0 ELSE V(Picked(u)) + h[u \ {Picked(u)}]]
<1>1. MapThenSumSet(LAMBDA l : IF Cardinality(Accessors(l)) > 1 THEN Accesses(l) ELSE 0, Lines)
        = (CHOOSE h : P(h))[Lines]
  BY Zenon DEF MapThenSumSet, MapThenFoldSet, Picked
<1>2. \A l \in Lines : Expected[l] = V(l)
  BY Zenon DEF Expected
<1>. HIDE DEF V
<1>3. \A h : IsSum(Expected, Lines, h) <=> P(h)
  <2>1. \A u \in SUBSET Lines : u # {} => Expected[Picked(u)] = V(Picked(u))
    BY <1>2, PickedIn
  <2>. QED
    BY <2>1 DEF IsSum
<1>4. P(CHOOSE h : P(h))
  <2>1. \E h : P(h)
    BY <1>3, SumExists, FiniteIds
  <2>. HIDE DEF P
  <2>. QED
    BY <2>1
<1>. HIDE DEF P
<1>. QED
  BY <1>1, <1>3, <1>4, SumIs, FiniteIds

\* A set of threads has more than one iff there are two different ones in it.
LEMMA MoreThanOne ==
  ASSUME NEW S, S \subseteq Threads
  PROVE  Cardinality(S) > 1 <=> \E t, u \in S : t # u
<1>1. IsFiniteSet(S) /\ Cardinality(S) \in Nat
  BY FiniteIds, FS_Subset, FS_CardinalityType
<1>2. ASSUME NEW t \in S, NEW u \in S, t # u PROVE Cardinality(S) > 1
  <2>1. IsFiniteSet(S \ {t}) /\ Cardinality(S \ {t}) = Cardinality(S) - 1
    BY <1>1, <1>2, FS_RemoveElement
  <2>2. Cardinality(S \ {t}) # 0
    BY <1>2, <2>1, FS_EmptySet
  <2>. QED
    BY <1>1, <1>2, <2>1, <2>2, FS_CardinalityType
<1>3. ASSUME \A t, u \in S : t = u PROVE ~ (Cardinality(S) > 1)
  <2>1. CASE S = {}
    BY <2>1, FS_EmptySet
  <2>2. CASE S # {}
    <3>1. PICK t \in S : S = {t}
      BY <1>3, <2>2
    <3>. QED
      BY <3>1, FS_Singleton
  <2>. QED
    BY <2>1, <2>2
<1>. QED
  BY <1>2, <1>3
-----------------------------------------------------------------------------
(***************************************************************************)
(* The inductive invariant.                                                *)
(***************************************************************************)

RecLabels == {"none", "acquire", "count", "read", "write"}

AccessRecords == [low : Lines, high : Lines, base : Lines]

RecordTypes ==
  /\ lock \in [Sets -> {0, 1}]
  /\ stamps \in [Lines -> StampRecords]
  /\ N \in Nat /\ M \in Nat
  /\ rec \in [Threads -> RecLabels]
  /\ access \in [Threads -> AccessRecords]
  /\ s \in [Threads -> StampRecords]
  /\ hits \in [Threads -> [Lines -> Nat]]

\* A thread records in its blocks, and is alive in them.
InBlock(t) ==
  /\ rec[t] # "none" => pc[t] = "body"
  /\ pc[t] # "out" => t \in live
  /\ access[t].low <= Base(t) /\ Base(t) <= access[t].high

\* The accesses that have begun are within the bound.
BegunBounded == Begun <= MaxAccesses[knobs]

Accessing(t, l) == access[t].low <= l /\ l <= access[t].high

\* The thread has the lock of the line.
Holds(t, l) ==
  /\ Accessing(t, l)
  /\ \/ rec[t] = "acquire" /\ l < Base(t)
     \/ rec[t] = "count"
     \/ rec[t] \in {"read", "write"} /\ l >= Base(t)

\* The locks are held for one line each, by one thread.
LocksHeld ==
  \A t \in Threads, l \in Lines : Holds(t, l) =>
    /\ lock[SetIndex(l)] = 1
    /\ \A u \in Threads, m \in Lines : Holds(u, m) /\ SetIndex(m) = SetIndex(l) => u = t /\ m = l

\* The copy of a stamp is the stamp.
CopyOf(t) == rec[t] = "write" => s[t] = stamps[Base(t)]

\* The thread has begun to access the line, and its stamp is not yet written.
Awaits(t, l) ==
  /\ Accessing(t, l)
  /\ rec[t] \in {"acquire", "count"} \/ (rec[t] \in {"read", "write"} /\ l >= Base(t))

Written(t, l) == IF Awaits(t, l) THEN hits[t][l] - 1 ELSE hits[t][l]

WrittenTo(l) == [t \in Threads |-> Written(t, l)]

\* The stamp of a line has the number of the accesses that have been written,
\* one of the threads that did, and whether there is another.
StampOf(l) ==
  /\ \A t \in Threads : Written(t, l) \in Nat
  /\ stamps[l].count = SumOf(WrittenTo(l), Threads)
  /\ stamps[l].tid = NIL => \A t \in Threads : Written(t, l) = 0
  /\ stamps[l].tid # NIL => Written(stamps[l].tid, l) > 0
  /\ stamps[l].is_shared => \E t, u \in Threads : t # u /\ Written(t, l) > 0 /\ Written(u, l) > 0
  /\ ~ stamps[l].is_shared => \A t \in Threads : Written(t, l) > 0 => t = stamps[l].tid

\* At the end no access is being recorded, and M has been added up.
Ended ==
  stage = "done" => /\ \A t \in Threads : rec[t] = "none"
                    /\ M = SumOf(Collected, Lines)

SharedInv ==
  /\ RecordTypes
  /\ \A t \in Threads : InBlock(t) /\ CopyOf(t)
  /\ BegunBounded /\ LocksHeld
  /\ \A l \in Lines : StampOf(l)
  /\ Ended

-----------------------------------------------------------------------------
(***************************************************************************)
(* The steps.                                                              *)
(***************************************************************************)
\* Facts about the lines and sets.
LEMMA LineFacts ==
  /\ Lines \subseteq Nat /\ 0 \in Lines
  /\ \A l \in Lines : SetIndex(l) \in Sets
  /\ \A l, m \in Lines, i \in Nat : l <= i /\ i <= m => i \in Lines
BY SharedDataAssumption DEF Lines, Sets, SetIndex

\* The threads, and none of them is NIL.
LEMMA ThreadFacts == Threads \subseteq Nat /\ NIL \notin Threads /\ NIL < 0
BY ThreadIdAssumption DEF Threads, NIL

\* No thread has begun to record.
LEMMA InitShared == Init => SharedInv
<1>. SUFFICES ASSUME Init PROVE SharedInv
  OBVIOUS
<1>1. RecordTypes
  BY LineFacts DEF Init, RecordTypes, AccessRecords, NoAccess, RecLabels, Stamp, StampRecords
<1>2. \A t \in Threads : InBlock(t) /\ CopyOf(t)
  BY DEF Init, ControlInit, InBlock, CopyOf, NoAccess, Base
<1>3. BegunBounded
  <2>1. {t \in Threads : rec[t] \in {"acquire", "count"}} = {}
    BY DEF Init
  <2>2. Cardinality({t \in Threads : rec[t] \in {"acquire", "count"}}) = 0
    BY <2>1, FS_EmptySet
  <2>3. N = 0 /\ 0 <= MaxAccesses[knobs] /\ 0 + 0 = 0
    BY SharedDataAssumption DEF Init, ControlInit
  <2>. QED
    BY <2>2, <2>3, Zenon DEF BegunBounded, Begun
<1>4. LocksHeld
  BY DEF Init, LocksHeld, Holds
<1>5. \A l \in Lines : StampOf(l)
  <2>. TAKE l \in Lines
  <2>1. \A t \in Threads : Written(t, l) = 0
    BY DEF Init, Written, Awaits
  <2>2. SumOf(WrittenTo(l), Threads) = 0
    <3>1. \A t \in Threads : WrittenTo(l)[t] = 0
      BY <2>1 DEF WrittenTo
    <3>. QED
      BY <3>1, SumZero, FiniteIds
  <2>3. stamps[l] = Stamp
    BY DEF Init
  <2>. QED
    BY <2>1, <2>2, <2>3 DEF StampOf, Stamp
<1>6. Ended
  BY DEF Init, ControlInit, Ended
<1>. QED
  BY <1>1, <1>2, <1>3, <1>4, <1>5, <1>6 DEF SharedInv

\* What the recorder says of itself does not depend on the calls before a block.
SameRecords == UNCHANGED <<lock, stamps, N, rec, access, s, hits>>

\* What leaves the variables of the recorder alone keeps its invariant.
LEMMA RecordFrame ==
  ASSUME SharedInv, SameRecords, M' \in Nat, knobs' = knobs
  PROVE  /\ RecordTypes'
         /\ \A t \in Threads : CopyOf(t)'
         /\ BegunBounded' /\ LocksHeld'
         /\ \A l \in Lines : StampOf(l)'
         /\ Collected' = Collected
<1>. USE DEF SharedInv, SameRecords
<1>1. RecordTypes' /\ Collected' = Collected
  BY DEF RecordTypes, Collected
<1>2. \A t \in Threads : CopyOf(t)'
  BY DEF CopyOf, Base
<1>3. BegunBounded'
  BY DEF BegunBounded, Begun
<1>4. LocksHeld'
  BY DEF LocksHeld, Holds, Accessing, Base
<1>5. ASSUME NEW l \in Lines PROVE StampOf(l)'
  <2>1. \A t : Written(t, l)' = Written(t, l)
    BY Zenon DEF Written, Awaits, Accessing, Base
  <2>2. WrittenTo(l)' = WrittenTo(l)
    BY <2>1, Zenon DEF WrittenTo
  <2>3. StampOf(l) /\ stamps' = stamps
    OBVIOUS
  <2>4. stamps'[l].tid = stamps[l].tid
    BY <2>3
  <2>. QED
    BY <2>1, <2>2, <2>3, <2>4, Zenon DEF StampOf
<1>. QED
  BY <1>1, <1>2, <1>3, <1>4, <1>5

\* The calls before a block, and its end, are steps of the controller.
LEMMA RunningStep ==
  ASSUME SharedInv, CallInv, NEW t \in Threads, Running(t)
  PROVE  SharedInv'
<1>1. /\ SameRecords /\ M' = M /\ stage = "run" /\ knobs' = knobs /\ CallTypes
      /\ Own(t) /\ Moved(t) /\ (Handles(t) \/ stage' = "run")
  <2>1. ControlStep(t)
    BY DEF Running, ControlStep
  <2>. QED
    BY <2>1, Moves DEF Running, SameRecords, recordVars, Own, CallInv
<1>2. /\ RecordTypes' /\ \A u \in Threads : CopyOf(u)'
      /\ BegunBounded' /\ LocksHeld' /\ \A l \in Lines : StampOf(l)'
  BY <1>1, RecordFrame DEF SharedInv, RecordTypes
<1>3. stage' # "done"
  BY <1>1 DEF Handles
<1>4. rec[t] # "none" => FALSE
  <2>1. Calls(t) \/ StartThread(t) \/ ExitThread(t) => pc[t] # "body"
    BY DEF Calls, EnterBlock, SkipAlarm, ReadCount, StoreCount, ScanCount, Disarm, CallHandler, HandlerStep,
       HandlerReturn, InitStart, EnterBody, StartThread, ExitThread, Goto
  <2>. QED
    BY <2>1 DEF Running, SharedInv, InBlock
<1>5. ASSUME NEW u \in Threads PROVE InBlock(u)'
  <2>1. /\ u # t => pc'[u] = pc[u]
        /\ rec'[u] = rec[u] /\ access'[u] = access[u] /\ InBlock(u) /\ InBlock(t)
    BY <1>1, FrameOf DEF SameRecords, SharedInv, Frame
  <2>2. rec'[u] # "none" => pc'[u] = "body"
    BY <1>4, <2>1 DEF InBlock
  <2>3. pc'[u] # "out" => u \in live'
    <3>1. CASE SameThreads /\ (Enters(t) \/ pc[t] # "out")
      BY <2>1, <3>1 DEF SameThreads, InBlock, Enters
    <3>2. CASE Comes(t)
      <4>1. u # t /\ pc[u] # "out" => u \in live
        BY <2>1 DEF InBlock
      <4>. QED
        BY <2>1, <3>2, <4>1 DEF Comes, From
    <3>. QED
      BY <1>1, <3>1, <3>2 DEF Moved, Enters, Skips, Reads, Stores, Scans, Disarms, Handles,
         Works, Returns, Begins, Executes, Leaves, From
  <2>. QED
    BY <2>1, <2>2, <2>3 DEF InBlock, Base
<1>. QED
  BY <1>2, <1>3, <1>5 DEF SharedInv, Ended

\* What a step of the recorder leaves alone.
LEMMA RecordStep ==
  ASSUME SharedInv, NEW t \in Threads, RecordMem(t) \/ Recording(t)
  PROVE  /\ UNCHANGED controlVars /\ stage = "run" /\ M' = M
         /\ \A u \in Threads \ {t} : /\ rec'[u] = rec[u] /\ access'[u] = access[u]
                                     /\ s'[u] = s[u] /\ hits'[u] = hits[u]
         /\ pc[t] = "body"
         /\ access[t] \in AccessRecords /\ s[t] \in StampRecords /\ Base(t) \in Lines
         /\ access[t].low \in Lines /\ access[t].high \in Lines
<1>1. /\ rec \in [Threads -> RecLabels] /\ access \in [Threads -> AccessRecords]
      /\ s \in [Threads -> StampRecords] /\ hits \in [Threads -> [Lines -> Nat]]
  BY DEF SharedInv, RecordTypes
<1>2. InBlock(t)
  BY DEF SharedInv
<1>3. access[t] \in AccessRecords /\ s[t] \in StampRecords /\ Base(t) \in Lines
      /\ access[t].low \in Lines /\ access[t].high \in Lines
  BY <1>1 DEF Base, AccessRecords
<1>. USE DEF Step
<1>4. CASE RecordMem(t)
  BY <1>1, <1>3, <1>4 DEF RecordMem
<1>5. CASE LockAcquire(t)
  BY <1>1, <1>2, <1>3, <1>5 DEF LockAcquire, InBlock
<1>6. CASE CountAccess(t)
  BY <1>1, <1>2, <1>3, <1>6 DEF CountAccess, InBlock
<1>7. CASE ReadStamp(t)
  BY <1>1, <1>2, <1>3, <1>7 DEF ReadStamp, InBlock
<1>8. CASE WriteStamp(t)
  BY <1>1, <1>2, <1>3, <1>8 DEF WriteStamp, InBlock
<1>. QED
  BY <1>4, <1>5, <1>6, <1>7, <1>8 DEF Recording

\* After each line but the last there is a next one.
LEMMA NextLine ==
  ASSUME SharedInv, NEW t \in Threads
  PROVE  /\ access[t].low \in Int /\ Base(t) \in Int /\ access[t].high \in Int
         /\ access[t].low <= Base(t) /\ Base(t) <= access[t].high
         /\ ~ AtLast(t) => /\ Base(t) + 1 \in Lines
                           /\ access[t].low <= Base(t) + 1 /\ Base(t) + 1 <= access[t].high
<1>1. access[t] \in AccessRecords /\ InBlock(t)
  BY DEF SharedInv, RecordTypes
<1>2. access[t].low \in Lines /\ Base(t) \in Lines /\ access[t].high \in Lines
  BY <1>1 DEF AccessRecords, Base
<1>3. access[t].low <= Base(t) /\ Base(t) <= access[t].high
  BY <1>1 DEF InBlock
<1>. QED
  BY <1>2, <1>3, SharedDataAssumption DEF AtLast, Lines

\* Every step of the recorder keeps the types.
LEMMA TypesStep ==
  ASSUME SharedInv, NEW t \in Threads, RecordMem(t) \/ Recording(t)
  PROVE  RecordTypes'
<1>1. /\ lock \in [Sets -> {0, 1}] /\ stamps \in [Lines -> StampRecords] /\ N \in Nat /\ M \in Nat
      /\ rec \in [Threads -> RecLabels] /\ access \in [Threads -> AccessRecords]
      /\ s \in [Threads -> StampRecords] /\ hits \in [Threads -> [Lines -> Nat]]
  BY DEF SharedInv, RecordTypes
<1>2. /\ InBlock(t) /\ M' = M /\ Base(t) \in Lines /\ access[t] \in AccessRecords
      /\ access[t].low \in Lines /\ access[t].high \in Lines /\ s[t] \in StampRecords
  BY RecordStep DEF SharedInv
<1>3. SetIndex(Base(t)) \in Sets
  BY <1>2, LineFacts
<1>4. ~ AtLast(t) => Base(t) + 1 \in Lines
  BY NextLine
<1>. USE DEF Step
<1>5. CASE RecordMem(t)
  <2>1. PICK low, high \in Lines :
          /\ access' = [access EXCEPT ![t] = [low |-> low, high |-> high, base |-> low]]
          /\ hits' = [hits EXCEPT ![t] = [l \in Lines |->
                        IF l \in low .. high THEN hits[t][l] + 1 ELSE hits[t][l]]]
    BY <1>5 DEF RecordMem
  <2>2. access' \in [Threads -> AccessRecords]
    BY <1>1, <2>1 DEF AccessRecords
  <2>3. hits' \in [Threads -> [Lines -> Nat]]
    BY <1>1, <2>1
  <2>. QED
    BY <1>1, <1>2, <1>5, <2>2, <2>3 DEF RecordMem, RecordTypes, RecLabels
<1>6. CASE LockAcquire(t)
  <2>1. access' \in [Threads -> AccessRecords]
    BY <1>1, <1>2, <1>4, <1>6 DEF LockAcquire, AccessRecords, Base
  <2>. QED
    BY <1>1, <1>2, <1>3, <1>6, <2>1 DEF LockAcquire, RecordTypes, RecLabels
<1>7. CASE CountAccess(t)
  <2>1. access' \in [Threads -> AccessRecords]
    BY <1>1, <1>2, <1>7 DEF CountAccess, AccessRecords
  <2>. QED
    BY <1>1, <1>2, <1>7, <2>1 DEF CountAccess, RecordTypes, RecLabels
<1>8. CASE ReadStamp(t)
  BY <1>1, <1>2, <1>8 DEF ReadStamp, RecordTypes, RecLabels
<1>9. CASE WriteStamp(t)
  <2>1. access' \in [Threads -> AccessRecords]
    <3>1. CASE AtLast(t)
      <4>1. access' = [access EXCEPT ![t] = NoAccess]
        BY <1>9, <3>1 DEF WriteStamp
      <4>. QED
        BY <1>1, <4>1, LineFacts DEF AccessRecords, NoAccess
    <3>2. CASE ~ AtLast(t)
      <4>1. access' = [access EXCEPT ![t] = [access[t] EXCEPT !.base = access[t].base + 1]]
        BY <1>9, <3>2 DEF WriteStamp, Base
      <4>. QED
        BY <1>1, <1>2, <1>4, <3>2, <4>1 DEF AccessRecords, Base
    <3>. QED
      BY <3>1, <3>2
  <2>2. stamps' \in [Lines -> StampRecords]
    <3>1. s[t].count + 1 \in Nat
      BY <1>2 DEF StampRecords
    <3>. DEFINE x == [tid |-> t, is_shared |-> s[t].is_shared \/ OtherThread(s[t], t),
                      count |-> s[t].count + 1]
    <3>2. x \in StampRecords
      <4>1. (s[t].is_shared \/ OtherThread(s[t], t)) \in BOOLEAN
        OBVIOUS
      <4>. QED
        BY <3>1, <4>1, Zenon DEF StampRecords
    <3>3. stamps' = [stamps EXCEPT ![Base(t)] = x]
      BY <1>9 DEF WriteStamp
    <3>. HIDE DEF x
    <3>. QED
      BY <1>1, <1>2, <3>2, <3>3
  <2>3. s' \in [Threads -> StampRecords]
    BY <1>1, <1>9 DEF WriteStamp, Stamp, StampRecords
  <2>. QED
    BY <1>1, <1>2, <1>3, <1>9, <2>1, <2>2, <2>3 DEF WriteStamp, RecordTypes, RecLabels
<1>. QED
  BY <1>5, <1>6, <1>7, <1>8, <1>9 DEF Recording

\* The accesses that have begun are those that are counted and those that are
\* still to be.
LEMMA BoundStep ==
  ASSUME SharedInv, CallInv, NEW t \in Threads, RecordMem(t) \/ Recording(t)
  PROVE  BegunBounded'
<1>. DEFINE Before == {u \in Threads : rec[u] \in {"acquire", "count"}}
<1>1. /\ rec \in [Threads -> RecLabels] /\ N \in Nat /\ knobs' = knobs
      /\ N + Cardinality(Before) <= MaxAccesses[knobs] /\ MaxAccesses[knobs] \in Nat
  BY RecordStep, SharedDataAssumption
     DEF SharedInv, RecordTypes, BegunBounded, Begun, CallInv, CallTypes, controlVars, setVars
<1>2. IsFiniteSet(Before) /\ Cardinality(Before) \in Nat
  BY FiniteIds, FS_Subset, FS_CardinalityType
<1>3. BegunBounded' <=> N' + Cardinality(Before') <= MaxAccesses[knobs]
  BY <1>1 DEF BegunBounded, Begun
<1>. USE DEF Step
<1>4. CASE RecordMem(t)
  <2>1. Before' = Before \cup {t} /\ t \notin Before /\ N' = N
    BY <1>1, <1>4 DEF RecordMem
  <2>2. N + Cardinality(Before) < MaxAccesses[knobs]
    BY <1>4 DEF RecordMem, Begun
  <2>. HIDE DEF Before
  <2>3. Cardinality(Before') = Cardinality(Before) + 1
    BY <1>2, <2>1, FS_AddElement
  <2>. QED
    BY <1>1, <1>2, <1>3, <2>1, <2>2, <2>3
<1>5. CASE LockAcquire(t)
  <2>1. Before' = Before /\ N' = N
    BY <1>1, <1>5 DEF LockAcquire
  <2>. QED
    BY <1>1, <1>3, <2>1
<1>6. CASE CountAccess(t)
  <2>1. Before' = Before \ {t} /\ t \in Before /\ N' = N + 1
    BY <1>1, <1>6 DEF CountAccess
  <2>. HIDE DEF Before
  <2>2. Cardinality(Before') = Cardinality(Before) - 1
    BY <1>2, <2>1, FS_RemoveElement
  <2>. QED
    BY <1>1, <1>2, <1>3, <2>1, <2>2
<1>7. CASE ReadStamp(t) \/ WriteStamp(t)
  <2>1. Before' = Before /\ N' = N
    BY <1>1, <1>7 DEF ReadStamp, WriteStamp
  <2>. QED
    BY <1>1, <1>3, <2>1
<1>. QED
  BY <1>4, <1>5, <1>6, <1>7 DEF Recording

\* The thread stays in its block.
LEMMA BlockStep ==
  ASSUME SharedInv, NEW t \in Threads, RecordMem(t) \/ Recording(t)
  PROVE  \A u \in Threads : InBlock(u)'
<1>1. /\ rec \in [Threads -> RecLabels] /\ access \in [Threads -> AccessRecords]
      /\ \A u \in Threads : InBlock(u)
  BY DEF SharedInv, RecordTypes
<1>2. /\ pc' = pc /\ live' = live /\ pc[t] = "body" /\ Base(t) \in Lines
      /\ access[t].low \in Lines /\ access[t].high \in Lines
      /\ \A u \in Threads \ {t} : rec'[u] = rec[u] /\ access'[u] = access[u]
  BY RecordStep DEF controlVars, threadVars, callVars
<1>3. \A u \in Threads \ {t} : InBlock(u)'
  BY <1>1, <1>2 DEF InBlock, Base
<1>4. access'[t].low <= access'[t].base /\ access'[t].base <= access'[t].high
  <2>. USE DEF Step
  <2>1. access[t].low <= Base(t) /\ Base(t) <= access[t].high
    BY <1>1 DEF InBlock
  <2>2. CASE RecordMem(t)
    BY <1>1, <2>2, LineFacts DEF RecordMem
  <2>3. CASE LockAcquire(t)
    <3>1. CASE AtLast(t)
      <4>1. access'[t].base = Base(t) /\ access'[t].low = access[t].low
              /\ access'[t].high = access[t].high
        BY <1>1, <2>3, <3>1 DEF LockAcquire, Base, AccessRecords
      <4>. QED
        BY <2>1, <4>1
    <3>2. CASE ~ AtLast(t)
      <4>1. access'[t].base = Base(t) + 1 /\ access'[t].low = access[t].low
              /\ access'[t].high = access[t].high
        BY <1>1, <2>3, <3>2 DEF LockAcquire, Base, AccessRecords
      <4>. QED
        BY <3>2, <4>1, NextLine
    <3>. QED
      BY <3>1, <3>2
  <2>4. CASE CountAccess(t)
    BY <1>1, <1>2, <2>1, <2>4, LineFacts DEF CountAccess, Base, AccessRecords
  <2>5. CASE ReadStamp(t)
    BY <2>1, <2>5 DEF ReadStamp, Base
  <2>6. CASE WriteStamp(t)
    <3>1. CASE AtLast(t)
      <4>1. access'[t] = NoAccess
        BY <1>1, <2>6, <3>1 DEF WriteStamp
      <4>. QED
        BY <4>1 DEF NoAccess
    <3>2. CASE ~ AtLast(t)
      <4>1. access'[t] = [access[t] EXCEPT !.base = Base(t) + 1]
        BY <1>1, <2>6, <3>2 DEF WriteStamp, Base
      <4>2. access'[t].base = Base(t) + 1 /\ access'[t].low = access[t].low
              /\ access'[t].high = access[t].high
        BY <1>1, <4>1 DEF AccessRecords
      <4>. QED
        BY <3>2, <4>2, NextLine
    <3>. QED
      BY <3>1, <3>2
  <2>. QED
    BY <2>2, <2>3, <2>4, <2>5, <2>6 DEF Recording
<1>. QED
  BY <1>1, <1>2, <1>3, <1>4 DEF InBlock, Base

\* What the steps do to the lines that the thread is accessing, holds and has
\* yet to write.
LEMMA LineStep ==
  ASSUME SharedInv, NEW t \in Threads, RecordMem(t) \/ Recording(t)
  PROVE  LET b == Base(t) IN
         /\ \A u \in Threads \ {t}, l \in Lines :
              /\ Holds(u, l)' <=> Holds(u, l)
              /\ Awaits(u, l)' <=> Awaits(u, l)
         /\ \/ RecordMem(t) /\ \A l \in Lines : ~ Holds(t, l)' /\ ~ Awaits(t, l)
            \/ LockAcquire(t) /\ \A l \in Lines : /\ Holds(t, l)' <=> Holds(t, l) \/ l = b
                                                  /\ Awaits(t, l)' <=> Awaits(t, l)
            \/ CountAccess(t) \/ ReadStamp(t)
            \/ WriteStamp(t) /\ Holds(t, b) /\ Awaits(t, b)
                 /\ \A l \in Lines : /\ Holds(t, l)' <=> Holds(t, l) /\ l # b
                                     /\ Awaits(t, l)' <=> Awaits(t, l) /\ l # b
         /\ (CountAccess(t) \/ ReadStamp(t)) =>
              \A l \in Lines : /\ Holds(t, l)' <=> Holds(t, l)
                               /\ Awaits(t, l)' <=> Awaits(t, l)
<1>. DEFINE b == Base(t)
<1>1. /\ rec \in [Threads -> RecLabels] /\ access \in [Threads -> AccessRecords]
      /\ access[t] \in AccessRecords
      /\ b \in Int /\ access[t].low \in Int /\ access[t].high \in Int
      /\ access[t].low <= b /\ b <= access[t].high
      /\ \A l \in Lines : l \in Int
  BY NextLine, LineFacts DEF SharedInv, RecordTypes
<1>2. \A u \in Threads \ {t}, l \in Lines : /\ Holds(u, l)' <=> Holds(u, l)
                                            /\ Awaits(u, l)' <=> Awaits(u, l)
  BY RecordStep DEF Holds, Awaits, Accessing, Base
<1>. USE DEF Step
<1>3. CASE RecordMem(t)
  <2>1. rec[t] = "none" /\ rec'[t] = "acquire" /\ access'[t].low = access'[t].base
    BY <1>1, <1>3 DEF RecordMem
  <2>2. \A l \in Lines : ~ Holds(t, l)' /\ ~ Awaits(t, l)
    <3>1. access'[t].low \in Int
      BY <1>1, <1>3 DEF RecordMem
    <3>. QED
      BY <1>1, <2>1, <3>1 DEF Holds, Awaits, Accessing, Base
  <2>3. ~ CountAccess(t) /\ ~ ReadStamp(t)
    BY <2>1 DEF CountAccess, ReadStamp
  <2>. QED
    BY <1>2, <1>3, <2>2, <2>3
<1>4. CASE LockAcquire(t)
  <2>1. /\ rec[t] = "acquire" /\ rec'[t] = IF AtLast(t) THEN "count" ELSE "acquire"
        /\ access'[t].low = access[t].low /\ access'[t].high = access[t].high
        /\ access'[t].base = IF AtLast(t) THEN b ELSE b + 1
    BY <1>1, <1>4 DEF LockAcquire, Base, AccessRecords
  <2>2. ASSUME NEW l \in Lines
        PROVE  /\ Holds(t, l)' <=> Holds(t, l) \/ l = b
               /\ Awaits(t, l)' <=> Awaits(t, l)
    BY <1>1, <2>1 DEF Holds, Awaits, Accessing, AtLast, Base
  <2>3. ~ CountAccess(t) /\ ~ ReadStamp(t)
    BY <2>1 DEF CountAccess, ReadStamp
  <2>. QED
    BY <1>2, <1>4, <2>2, <2>3
<1>5. CASE CountAccess(t)
  <2>1. /\ rec[t] = "count" /\ rec'[t] = "read"
        /\ access'[t].low = access[t].low /\ access'[t].high = access[t].high
        /\ access'[t].base = access[t].low
    BY <1>1, <1>5 DEF CountAccess, AccessRecords
  <2>2. ASSUME NEW l \in Lines
        PROVE  /\ Holds(t, l)' <=> Holds(t, l)
               /\ Awaits(t, l)' <=> Awaits(t, l)
    BY <1>1, <2>1 DEF Holds, Awaits, Accessing, Base
  <2>. QED
    BY <1>2, <1>5, <2>2
<1>6. CASE ReadStamp(t)
  <2>1. rec[t] = "read" /\ rec'[t] = "write" /\ access' = access
    BY <1>1, <1>6 DEF ReadStamp
  <2>2. ASSUME NEW l \in Lines
        PROVE  /\ Holds(t, l)' <=> Holds(t, l)
               /\ Awaits(t, l)' <=> Awaits(t, l)
    BY <1>1, <2>1 DEF Holds, Awaits, Accessing, Base
  <2>. QED
    BY <1>2, <1>6, <2>2
<1>7. CASE WriteStamp(t)
  <2>1. rec[t] = "write" /\ rec'[t] = IF AtLast(t) THEN "none" ELSE "read"
    BY <1>1, <1>7 DEF WriteStamp
  <2>2. ~ AtLast(t) => /\ access'[t].low = access[t].low /\ access'[t].high = access[t].high
                       /\ access'[t].base = b + 1
    BY <1>1, <1>7 DEF WriteStamp, Base, AccessRecords
  <2>3. Holds(t, b) /\ Awaits(t, b)
    BY <1>1, <2>1 DEF Holds, Awaits, Accessing
  <2>4. ASSUME NEW l \in Lines
        PROVE  /\ Holds(t, l)' <=> Holds(t, l) /\ l # b
               /\ Awaits(t, l)' <=> Awaits(t, l) /\ l # b
    BY <1>1, <2>1, <2>2 DEF Holds, Awaits, Accessing, AtLast, Base
  <2>5. ~ CountAccess(t) /\ ~ ReadStamp(t)
    BY <2>1 DEF CountAccess, ReadStamp
  <2>. QED
    BY <1>2, <1>7, <2>3, <2>4, <2>5
<1>. QED
  BY <1>3, <1>4, <1>5, <1>6, <1>7 DEF Recording

\* A thread takes a lock that nobody holds, and gives back one that it holds
\* for one line.
LEMMA LockStep ==
  ASSUME SharedInv, NEW t \in Threads, RecordMem(t) \/ Recording(t)
  PROVE  LocksHeld'
<1>. DEFINE b == Base(t)
<1>1. /\ lock \in [Sets -> {0, 1}] /\ b \in Lines /\ LocksHeld
      /\ \A l \in Lines : SetIndex(l) \in Sets
  BY RecordStep, LineFacts DEF SharedInv, RecordTypes
<1>2. \A u \in Threads \ {t}, l \in Lines : Holds(u, l)' <=> Holds(u, l)
  BY LineStep
<1>. HIDE DEF b
<1>3. SUFFICES ASSUME NEW u \in Threads, NEW l \in Lines, Holds(u, l)'
               PROVE  /\ lock'[SetIndex(l)] = 1
                      /\ \A v \in Threads, m \in Lines :
                           Holds(v, m)' /\ SetIndex(m) = SetIndex(l) => v = u /\ m = l
  BY DEF LocksHeld, SetIndex
<1>4. CASE RecordMem(t)
  <2>1. \A m \in Lines : ~ Holds(t, m)'
    BY <1>4, LineStep DEF Step, RecordMem, LockAcquire, CountAccess, ReadStamp, WriteStamp
  <2>2. \A v \in Threads, m \in Lines : Holds(v, m)' => Holds(v, m)
    BY <1>2, <2>1
  <2>3. lock' = lock
    BY <1>4 DEF RecordMem
  <2>. QED
    BY <1>1, <1>3, <2>2, <2>3 DEF LocksHeld
<1>5. CASE LockAcquire(t)
  <2>1. \A m \in Lines : Holds(t, m)' => Holds(t, m) \/ m = b
    BY <1>5, LineStep DEF b, Step, RecordMem, LockAcquire, CountAccess, ReadStamp, WriteStamp
  <2>2. lock' = [lock EXCEPT ![SetIndex(b)] = 1] /\ lock[SetIndex(b)] = 0
    BY <1>5 DEF LockAcquire, Unlocked, b
  <2>3. \A v \in Threads, m \in Lines : Holds(v, m) => SetIndex(m) # SetIndex(b)
    BY <1>1, <2>2 DEF LocksHeld
  <2>4. \A v \in Threads, m \in Lines : Holds(v, m)' => Holds(v, m) \/ (v = t /\ m = b)
    BY <1>2, <2>1
  <2>5. lock'[SetIndex(l)] = 1
    BY <1>1, <1>3, <2>2, <2>4 DEF LocksHeld
  <2>6. ASSUME NEW v \in Threads, NEW m \in Lines, Holds(v, m)', SetIndex(m) = SetIndex(l)
        PROVE  v = u /\ m = l
    <3>1. CASE Holds(u, l) /\ Holds(v, m)
      BY <1>1, <2>6, <3>1 DEF LocksHeld
    <3>2. CASE u = t /\ l = b
      BY <2>3, <2>4, <2>6, <3>2
    <3>3. CASE v = t /\ m = b
      BY <1>3, <2>3, <2>4, <2>6, <3>3
    <3>. QED
      BY <1>3, <2>4, <2>6, <3>1, <3>2, <3>3
  <2>. QED
    BY <2>5, <2>6
<1>6. CASE CountAccess(t) \/ ReadStamp(t)
  <2>1. \A v \in Threads, m \in Lines : Holds(v, m)' => Holds(v, m)
    BY <1>2, <1>6, LineStep
  <2>2. lock' = lock
    BY <1>6 DEF CountAccess, ReadStamp
  <2>. QED
    BY <1>1, <1>3, <2>1, <2>2 DEF LocksHeld
<1>7. CASE WriteStamp(t)
  <2>1. Holds(t, b) /\ \A m \in Lines : Holds(t, m)' => Holds(t, m) /\ m # b
    BY <1>7, LineStep DEF b, Step, RecordMem, LockAcquire, CountAccess, ReadStamp, WriteStamp
  <2>2. lock' = [lock EXCEPT ![SetIndex(b)] = 0]
    BY <1>7 DEF WriteStamp, b
  <2>3. \A v \in Threads, m \in Lines : Holds(v, m)' => Holds(v, m) /\ ~ (v = t /\ m = b)
    BY <1>2, <2>1
  <2>4. SetIndex(l) # SetIndex(b)
    BY <1>1, <1>3, <2>1, <2>3 DEF LocksHeld
  <2>5. lock'[SetIndex(l)] = 1
    BY <1>1, <1>3, <2>2, <2>3, <2>4 DEF LocksHeld
  <2>. QED
    BY <1>1, <1>3, <2>3, <2>5 DEF LocksHeld
<1>. QED
  BY <1>4, <1>5, <1>6, <1>7 DEF Recording

\* A thread that has a copy of a stamp holds the lock of the line, and another
\* one does not write it.
LEMMA CopyStep ==
  ASSUME SharedInv, NEW t \in Threads, RecordMem(t) \/ Recording(t)
  PROVE  \A u \in Threads : CopyOf(u)'
<1>1. /\ rec \in [Threads -> RecLabels] /\ stamps \in [Lines -> StampRecords]
      /\ s \in [Threads -> StampRecords] /\ LocksHeld
      /\ \A u \in Threads : CopyOf(u)
  BY DEF SharedInv, RecordTypes
<1>2. \A u \in Threads \ {t} : rec'[u] = rec[u] /\ access'[u] = access[u] /\ s'[u] = s[u]
  BY RecordStep
<1>. USE DEF Step
<1>3. CASE ~ WriteStamp(t)
  <2>1. stamps' = stamps
    BY <1>3 DEF Recording, RecordMem, LockAcquire, CountAccess, ReadStamp
  <2>2. \A u \in Threads \ {t} : CopyOf(u)'
    BY <1>1, <1>2, <2>1 DEF CopyOf, Base
  <2>3. rec'[t] = "write" => ReadStamp(t)
    BY <1>1, <1>3 DEF Recording, RecordMem, LockAcquire, CountAccess
  <2>4. ReadStamp(t) => CopyOf(t)'
    BY <1>1, <2>1 DEF ReadStamp, CopyOf, Base
  <2>. QED
    BY <2>2, <2>3, <2>4 DEF CopyOf
<1>4. CASE WriteStamp(t)
  <2>1. rec'[t] # "write" /\ Holds(t, Base(t))
    BY <1>1, <1>4, LineStep DEF RecordMem, LockAcquire, CountAccess, ReadStamp, WriteStamp
  <2>2. ASSUME NEW u \in Threads \ {t}, rec[u] = "write" PROVE Base(u) # Base(t)
    <3>1. Base(u) \in Lines /\ Base(t) \in Lines
      BY RecordStep DEF SharedInv, RecordTypes, AccessRecords, Base
    <3>2. Holds(u, Base(u))
      BY <2>2, <3>1, NextLine, LineFacts DEF Holds, Accessing
    <3>. QED
      BY <1>1, <2>1, <3>1, <3>2 DEF LocksHeld
  <2>3. \A l \in Lines : l # Base(t) => stamps'[l] = stamps[l]
    BY <1>1, <1>4 DEF WriteStamp
  <2>4. ASSUME NEW u \in Threads \ {t} PROVE CopyOf(u)'
    <3>1. Base(u) \in Lines
      BY DEF SharedInv, RecordTypes, AccessRecords, Base
    <3>. QED
      BY <1>1, <1>2, <2>2, <2>3, <3>1 DEF CopyOf, Base
  <2>. QED
    BY <2>1, <2>4 DEF CopyOf
<1>. QED
  BY <1>3, <1>4

\* The numbers of a line do not change if its stamp is not written.
LEMMA SameLine ==
  ASSUME NEW l \in Lines, StampOf(l), stamps'[l] = stamps[l],
         stamps[l].tid \in Threads \cup {NIL},
         \A t \in Threads : Written(t, l)' = Written(t, l)
  PROVE  StampOf(l)'
<1>1. WrittenTo(l)' = WrittenTo(l)
  BY DEF WrittenTo
<1>2. /\ stamps'[l].tid = stamps[l].tid /\ stamps'[l].count = stamps[l].count
      /\ stamps'[l].is_shared = stamps[l].is_shared
  OBVIOUS
<1>3. stamps[l].tid # NIL => Written(stamps[l].tid, l)' = Written(stamps[l].tid, l)
  OBVIOUS
<1>. QED
  BY <1>1, <1>2, <1>3, Zenon DEF StampOf

\* The thread that writes a stamp adds its access to those that the line has.
LEMMA NextLineOf ==
  ASSUME NEW l \in Lines, NEW t \in Threads, StampOf(l), stamps[l] \in StampRecords,
         stamps'[l].tid = t, stamps'[l].count = stamps[l].count + 1,
         stamps'[l].is_shared <=> stamps[l].is_shared \/ OtherThread(stamps[l], t),
         \A u \in Threads : Written(u, l)' = IF u = t THEN Written(u, l) + 1 ELSE Written(u, l)
  PROVE  StampOf(l)'
<1>1. /\ \A u \in Threads : Written(u, l) \in Nat
      /\ stamps[l].count = SumOf(WrittenTo(l), Threads)
      /\ stamps[l].tid \in Threads \cup {NIL} /\ stamps[l].count \in Nat
  BY DEF StampOf, StampRecords
<1>2. \A u \in Threads : Written(u, l)' \in Nat
  BY <1>1
<1>3. stamps'[l].count = SumOf(WrittenTo(l)', Threads)
  <2>1. \A u \in Threads : /\ WrittenTo(l)[u] \in Int
                           /\ WrittenTo(l)'[u] = IF u = t THEN WrittenTo(l)[u] + 1
                                                          ELSE WrittenTo(l)[u]
    BY <1>1 DEF WrittenTo
  <2>2. PICK F, G : F = WrittenTo(l) /\ G = WrittenTo(l)'
    OBVIOUS
  <2>3. \A u \in Threads : F[u] \in Int /\ G[u] = IF u = t THEN F[u] + 1 ELSE F[u]
    BY <2>1, <2>2
  <2>4. SumOf(G, Threads) = SumOf(F, Threads) + 1
    BY <2>3, SumChange, FiniteIds
  <2>. QED
    BY <1>1, <2>2, <2>4
<1>4. t # NIL /\ Written(t, l)' > 0
  BY <1>1, ThreadFacts
<1>5. ASSUME stamps'[l].is_shared
      PROVE  \E u, v \in Threads : u # v /\ Written(u, l)' > 0 /\ Written(v, l)' > 0
  <2>1. CASE stamps[l].is_shared
    <3>1. PICK u, v \in Threads : u # v /\ Written(u, l) > 0 /\ Written(v, l) > 0
      BY <2>1, Zenon DEF StampOf
    <3>. QED
      BY <1>1, <3>1
  <2>2. CASE OtherThread(stamps[l], t)
    <3>1. stamps[l].tid \in Threads /\ stamps[l].tid # t
      <4>1. stamps[l].tid >= 0 /\ stamps[l].tid # t
        BY <2>2, Zenon DEF OtherThread
      <4>2. stamps[l].tid # NIL
        BY <4>1, ThreadFacts DEF NIL
      <4>. QED
        BY <1>1, <4>1, <4>2
    <3>2. Written(stamps[l].tid, l) > 0
      BY <1>4, <3>1, ThreadFacts DEF StampOf
    <3>. QED
      BY <1>1, <1>4, <3>1, <3>2
  <2>. QED
    BY <1>5, <2>1, <2>2
<1>6. ASSUME ~ stamps'[l].is_shared, NEW u \in Threads, Written(u, l)' > 0, u # t
      PROVE  FALSE
  <2>1. ~ stamps[l].is_shared /\ ~ OtherThread(stamps[l], t) /\ Written(u, l) > 0
    BY <1>6
  <2>2. u = stamps[l].tid
    BY <2>1, Zenon DEF StampOf
  <2>. QED
    BY <1>6, <2>1, <2>2, ThreadFacts DEF OtherThread
<1>7. SumOf(WrittenTo(l)', Threads) = SumOf(WrittenTo(l), Threads)'
  OBVIOUS
<1>. QED
  BY <1>2, <1>3, <1>4, <1>5, <1>6 DEF StampOf

\* Every step of the recorder keeps the stamps right.
LEMMA StampStep ==
  ASSUME SharedInv, NEW t \in Threads, RecordMem(t) \/ Recording(t), NEW l \in Lines
  PROVE  StampOf(l)'
<1>. DEFINE b == Base(t)
<1>1. /\ rec \in [Threads -> RecLabels] /\ stamps \in [Lines -> StampRecords]
      /\ s \in [Threads -> StampRecords] /\ hits \in [Threads -> [Lines -> Nat]]
      /\ StampOf(l) /\ b \in Lines /\ CopyOf(t)
  BY RecordStep DEF SharedInv, RecordTypes
<1>2. stamps[l] \in StampRecords /\ stamps[l].tid \in Threads \cup {NIL}
  BY <1>1 DEF StampRecords
<1>3. \A u \in Threads \ {t} : Written(u, l)' = Written(u, l)
  <2>. TAKE u \in Threads \ {t}
  <2>1. hits'[u] = hits[u] /\ (Awaits(u, l)' <=> Awaits(u, l))
    BY RecordStep, LineStep
  <2>. QED
    BY <2>1, Zenon DEF Written
<1>4. hits[t][l] \in Nat
  BY <1>1
<1>. HIDE DEF b
<1>. USE DEF Step
<1>5. CASE RecordMem(t)
  <2>1. PICK low, high \in Lines :
          /\ access' = [access EXCEPT ![t] = [low |-> low, high |-> high, base |-> low]]
          /\ hits' = [hits EXCEPT ![t] = [m \in Lines |->
                        IF m \in low .. high THEN hits[t][m] + 1 ELSE hits[t][m]]]
    BY <1>5 DEF RecordMem
  <2>2. access'[t].low = low /\ access'[t].high = high /\ rec'[t] = "acquire" /\ stamps' = stamps
    <3>1. access \in [Threads -> AccessRecords]
      BY DEF SharedInv, RecordTypes
    <3>. QED
      BY <1>1, <1>5, <2>1, <3>1 DEF RecordMem
  <2>3. ~ Awaits(t, l)
    BY <1>5, LineStep DEF RecordMem, LockAcquire, CountAccess, ReadStamp, WriteStamp
  <2>4. low \in Int /\ high \in Int /\ l \in Int
    BY LineFacts
  <2>5. Awaits(t, l)' <=> l \in low .. high
    BY <2>2, <2>4 DEF Awaits, Accessing
  <2>6. hits'[t][l] = IF l \in low .. high THEN hits[t][l] + 1 ELSE hits[t][l]
    BY <1>1, <2>1
  <2>7. Written(t, l)' = Written(t, l)
    <3>1. Written(t, l) = hits[t][l]
      BY <2>3, Zenon DEF Written
    <3>2. Written(t, l)' = IF l \in low .. high THEN hits'[t][l] - 1 ELSE hits'[t][l]
      BY <2>5, Zenon DEF Written
    <3>. QED
      BY <1>4, <2>6, <3>1, <3>2
  <2>. QED
    BY <1>1, <1>2, <1>3, <2>2, <2>7, SameLine
<1>6. CASE LockAcquire(t) \/ CountAccess(t) \/ ReadStamp(t)
  <2>1. stamps' = stamps /\ hits' = hits
    BY <1>6 DEF LockAcquire, CountAccess, ReadStamp
  <2>2. Awaits(t, l)' <=> Awaits(t, l)
    BY <1>6, LineStep DEF RecordMem, LockAcquire, CountAccess, ReadStamp, WriteStamp
  <2>3. Written(t, l)' = Written(t, l)
    BY <2>1, <2>2, Zenon DEF Written
  <2>. QED
    BY <1>1, <1>2, <1>3, <2>1, <2>3, SameLine
<1>7. CASE WriteStamp(t)
  <2>1. hits' = hits /\ Awaits(t, b) /\ (Awaits(t, l)' <=> Awaits(t, l) /\ l # b)
    BY <1>7, LineStep DEF b, RecordMem, LockAcquire, CountAccess, ReadStamp, WriteStamp
  <2>2. CASE l # b
    <3>1. stamps'[l] = stamps[l]
      BY <1>1, <1>7, <2>2 DEF WriteStamp, b
    <3>2. Written(t, l)' = Written(t, l)
      BY <2>1, <2>2, Zenon DEF Written
    <3>. QED
      BY <1>1, <1>2, <1>3, <3>1, <3>2, SameLine
  <2>3. CASE l = b
    <3>1. s[t] = stamps[l]
      BY <1>1, <1>7, <2>3 DEF WriteStamp, CopyOf, b
    <3>. DEFINE x == [tid |-> t, is_shared |-> s[t].is_shared \/ OtherThread(s[t], t),
                      count |-> s[t].count + 1]
    <3>2. stamps' = [stamps EXCEPT ![b] = x]
      BY <1>7 DEF WriteStamp, b
    <3>3. /\ x.tid = t /\ x.count = stamps[l].count + 1
          /\ x.is_shared <=> stamps[l].is_shared \/ OtherThread(stamps[l], t)
      BY <3>1
    <3>4. stamps'[l] = x
      <4>. HIDE DEF x
      <4>. QED
        BY <1>1, <2>3, <3>2
    <3>5. /\ stamps'[l].tid = t /\ stamps'[l].count = stamps[l].count + 1
          /\ stamps'[l].is_shared <=> stamps[l].is_shared \/ OtherThread(stamps[l], t)
      <4>. HIDE DEF x
      <4>. QED
        BY <3>3, <3>4, Zenon
    <3>6. Written(t, l)' = Written(t, l) + 1
      <4>1. Written(t, l) = hits[t][l] - 1
        BY <2>1, <2>3, Zenon DEF Written
      <4>2. Written(t, l)' = hits[t][l]
        BY <2>1, <2>3, Zenon DEF Written
      <4>. QED
        BY <1>4, <4>1, <4>2
    <3>7. \A u \in Threads : Written(u, l)' = IF u = t THEN Written(u, l) + 1 ELSE Written(u, l)
      BY <1>3, <3>6
    <3>. QED
      BY <1>1, <1>2, <3>5, <3>7, NextLineOf
  <2>. QED
    BY <2>2, <2>3
<1>. QED
  BY <1>5, <1>6, <1>7 DEF Recording

\* At the end nobody is in a block, therefore no access is being recorded.
LEMMA FiniStep == SharedInv /\ CallInv /\ Fini => SharedInv'
<1>. SUFFICES ASSUME SharedInv, CallInv, Fini PROVE SharedInv'
  OBVIOUS
<1>1. /\ SameRecords /\ M' = CollectLastAccesses /\ pc' = pc /\ live' = live /\ live = {}
      /\ knobs' = knobs
  BY DEF Fini, ControlFini, ThreadEnd, SameRecords, callVars
<1>2. /\ stamps \in [Lines -> StampRecords]
      /\ \A t \in Threads : rec[t] = "none"
  BY <1>1 DEF SharedInv, RecordTypes, InBlock
<1>3. M' = SumOf(Collected, Lines) /\ M' \in Nat
  <2>1. \A l \in Lines : Collected[l] \in Nat
    <3>. TAKE l \in Lines
    <3>1. stamps[l].count \in Nat
      BY <1>2 DEF StampRecords
    <3>2. Collected[l] = stamps[l].count \/ Collected[l] = 0
      BY Zenon DEF Collected
    <3>. QED
      BY <3>1, <3>2
  <2>2. SumOf(Collected, Lines) \in Nat
    BY <2>1, SumType, FiniteIds
  <2>. QED
    BY <1>1, <2>2, CollectIs
<1>4. /\ RecordTypes' /\ \A t \in Threads : CopyOf(t)'
      /\ BegunBounded' /\ LocksHeld' /\ \A l \in Lines : StampOf(l)'
      /\ Collected' = Collected
  BY <1>1, <1>3, RecordFrame
<1>5. \A t \in Threads : InBlock(t)'
  BY <1>1 DEF SharedInv, InBlock, SameRecords, Base
<1>6. Ended'
  <2>1. SumOf(Collected', Lines) = SumOf(Collected, Lines)
    BY <1>4
  <2>. QED
    BY <1>1, <1>2, <1>3, <2>1 DEF Ended, SameRecords
<1>. QED
  BY <1>4, <1>5, <1>6 DEF SharedInv

\* Every step keeps the invariant.
LEMMA NextShared == SharedInv /\ CallInv /\ [Next]_vars => SharedInv'
<1>. SUFFICES ASSUME SharedInv, CallInv, [Next]_vars PROVE SharedInv'
  OBVIOUS
<1>1. ASSUME NEW t \in Threads, RecordMem(t) \/ Recording(t) PROVE SharedInv'
  <2>1. stage' = "run"
    BY <1>1, RecordStep DEF controlVars
  <2>. QED
    BY <1>1, <2>1, TypesStep, BlockStep, CopyStep, BoundStep, LockStep, StampStep
       DEF SharedInv, Ended
<1>2. CASE UNCHANGED vars
  <2>1. /\ SameRecords /\ M' = M /\ pc' = pc /\ live' = live /\ stage' = stage /\ knobs' = knobs
    BY <1>2 DEF vars, controlVars, recordVars, threadVars, setVars, callVars, SameRecords
  <2>2. /\ RecordTypes' /\ \A t \in Threads : CopyOf(t)'
        /\ BegunBounded' /\ LocksHeld' /\ \A l \in Lines : StampOf(l)'
        /\ Collected' = Collected
    BY <2>1, RecordFrame DEF SharedInv, RecordTypes
  <2>3. \A t \in Threads : InBlock(t)'
    BY <2>1 DEF SharedInv, InBlock, SameRecords, Base
  <2>4. Ended'
    <3>1. SumOf(Collected', Lines) = SumOf(Collected, Lines)
      BY <2>2
    <3>. QED
      BY <2>1, <3>1 DEF SharedInv, Ended, SameRecords
  <2>. QED
    BY <2>2, <2>3, <2>4 DEF SharedInv
<1>3. CASE \E t \in Threads : Running(t)
  BY <1>3, RunningStep
<1>4. CASE Fini
  BY <1>4, FiniStep
<1>. QED
  BY <1>1, <1>2, <1>3, <1>4 DEF Next, Terminated
-----------------------------------------------------------------------------
(***************************************************************************)
(* The theorems.                                                           *)
(***************************************************************************)
\* What a thread does before its blocks, and what the end of the program does,
\* are steps of the controller; the recorder changes nothing of it.
LEMMA ControllerUnderRecorder == Spec => ControlSpec
<1>1. Init => ControlInit
  BY DEF Init
<1>2. [Next]_vars => [ControlNext]_controlVars
  <2>. SUFFICES ASSUME [Next]_vars PROVE ControlNext \/ UNCHANGED controlVars
    OBVIOUS
  <2>1. ASSUME NEW t \in Threads, Running(t) PROVE ControlNext
    BY <2>1 DEF Running, ControlNext, ControlStep
  <2>2. ASSUME NEW t \in Threads, RecordMem(t) \/ Recording(t) PROVE UNCHANGED controlVars
    BY <2>2 DEF RecordMem, Recording, LockAcquire, CountAccess, ReadStamp, WriteStamp, Step
  <2>3. CASE Fini
    BY <2>3 DEF Fini, ControlNext
  <2>4. CASE UNCHANGED vars
    BY <2>4 DEF vars
  <2>. QED
    BY <2>1, <2>2, <2>3, <2>4 DEF Next, Terminated
<1>. QED
  BY <1>1, <1>2, PTL DEF Spec, ControlSpec

\* In all states the locks are held for one line each, and the stamps say how
\* often and by how many threads a line has been accessed.
THEOREM SharedInvariant == Spec => []SharedInv
<1>1. Spec => []CallInv
  BY ControllerUnderRecorder, CallInvariant, PTL
<1>. QED
  BY <1>1, InitShared, NextShared, PTL DEF Spec

\* Every variable of the controller and the recorder has its type, and N counts
\* no more accesses than have begun.
THEOREM TypeCorrect == Spec => []TypeOK
<1>1. SharedInv /\ CallInv => TypeOK
  <2>. SUFFICES ASSUME SharedInv, CallInv PROVE TypeOK
    OBVIOUS
  <2>. DEFINE S == MaxAccesses[knobs]
  <2>0. ControlTypeOK /\ S \in Nat
    BY SharedDataAssumption
       DEF CallInv, CallTypes, ControlTypeOK, AlarmRecords, ArmedEntries, LogEntries
  <2>. DEFINE Before == {t \in Threads : rec[t] \in {"acquire", "count"}}
  <2>1. Cardinality(Before) \in Nat
    BY FiniteIds, FS_Subset, FS_CardinalityType
  <2>2. N + Cardinality(Before) <= S /\ N \in Nat
    BY DEF SharedInv, RecordTypes, BegunBounded, Begun
  <2>. HIDE DEF Before, S
  <2>3. N \in 0 .. S
    BY <2>0, <2>1, <2>2
  <2>. QED
    BY <2>0, <2>3 DEF S, TypeOK, SharedInv, RecordTypes, AccessRecords, RecLabels
<1>. QED
  BY <1>1, SharedInvariant, ControllerUnderRecorder, CallInvariant, PTL

\* M is the number of accesses to the lines that more than one thread has
\* accessed, for every interleaving of the accesses.
THEOREM SharedExact == Spec => []SharedIsExact
<1>1. SharedInv => SharedIsExact
  <2>. SUFFICES ASSUME SharedInv, stage = "done"
                PROVE  M = MapThenSumSet(LAMBDA l : IF Cardinality(Accessors(l)) > 1
                                                    THEN Accesses(l) ELSE 0, Lines)
    BY Zenon DEF SharedIsExact
  <2>1. M = SumOf(Collected, Lines) /\ \A t \in Threads : rec[t] = "none"
    BY DEF SharedInv, Ended
  <2>2. ASSUME NEW l \in Lines PROVE Collected[l] = Expected[l]
    <3>1. /\ StampOf(l) /\ stamps[l] \in StampRecords
          /\ hits \in [Threads -> [Lines -> Nat]]
      BY DEF SharedInv, RecordTypes
    <3>2. \A t \in Threads : Written(t, l) = hits[t][l]
      BY <2>1 DEF Written, Awaits
    <3>3. stamps[l].count = Accesses(l)
      <4>1. \A t \in Threads : WrittenTo(l)[t] = HitsOf(l)[t]
        BY <3>2 DEF WrittenTo, HitsOf
      <4>2. SumOf(WrittenTo(l), Threads) = SumOf(HitsOf(l), Threads)
        BY <4>1, SumEqual, FiniteIds
      <4>. QED
        BY <3>1, <4>2, AccessesIs DEF StampOf
    <3>4. stamps[l].is_shared <=> \E t, u \in Accessors(l) : t # u
      <4>1. \A t \in Threads : t \in Accessors(l) <=> Written(t, l) > 0
        BY <3>2 DEF Accessors
      <4>2. Accessors(l) \subseteq Threads
        BY DEF Accessors
      <4>3. ASSUME stamps[l].is_shared PROVE \E t, u \in Accessors(l) : t # u
        <5>1. \E t, u \in Threads : t # u /\ Written(t, l) > 0 /\ Written(u, l) > 0
          BY <3>1, <4>3, Zenon DEF StampOf
        <5>. QED
          BY <4>1, <5>1
      <4>4. ASSUME ~ stamps[l].is_shared, NEW t \in Accessors(l), NEW u \in Accessors(l)
            PROVE  t = u
        <5>1. Written(t, l) > 0 /\ Written(u, l) > 0 /\ t \in Threads /\ u \in Threads
          BY <4>1, <4>2
        <5>. QED
          BY <3>1, <4>4, <5>1, Zenon DEF StampOf
      <4>. QED
        BY <4>3, <4>4
    <3>5. stamps[l].is_shared <=> Cardinality(Accessors(l)) > 1
      <4>1. Accessors(l) \subseteq Threads
        BY DEF Accessors
      <4>. QED
        BY <3>4, <4>1, MoreThanOne
    <3>. QED
      BY <3>3, <3>5, Zenon DEF Collected, Expected
  <2>3. SumOf(Collected, Lines) = SumOf(Expected, Lines)
    BY <2>2, SumEqual, FiniteIds
  <2>. QED
    BY <2>1, <2>3, ExpectedIs
<1>. QED
  BY <1>1, SharedInvariant, PTL

\* With -skip N each thread it concerns gets one start, in the block with its
\* own Nth instruction, and no other thread gets any.
THEOREM SkipExact == Spec => []StartsAfterSkip
<1>1. IntervalInv => StartsAfterSkip
  BY SkipConclusion DEF IntervalInv
<1>. QED
  BY <1>1, ControllerUnderRecorder, IntervalInvariant, PTL

\* With -length M the stop of a single thread is in the block with the Mth
\* instruction from its start.
THEOREM LengthExact == Spec => []StopsAfterLength
<1>1. IntervalInv => StopsAfterLength
  BY LengthConclusion DEF IntervalInv
<1>. QED
  BY <1>1, ControllerUnderRecorder, IntervalInvariant, PTL

\* With -length M:tidrange no stop is sent before every thread of the range has
\* come to its own Mth instruction, whatever the threads read and write of the
\* counts of the others in the meantime.
THEOREM RangeComplete == Spec => []RangeWaits
<1>1. IntervalInv => RangeWaits
  BY RangeConclusion DEF IntervalInv
<1>. QED
  BY <1>1, ControllerUnderRecorder, IntervalInvariant, PTL

\* No thread calls a handler that another has not yet stored, unless one thread
\* sets an alarm that is another's, or sets the length for all from outside the
\* range that it waits for.
THEOREM HandlersInTime == Spec => []HandlersStored
<1>1. IntervalInv => HandlersStored
  BY StoredConclusion DEF IntervalInv
<1>. QED
  BY <1>1, ControllerUnderRecorder, IntervalInvariant, PTL
=============================================================================
