----------------------------- MODULE Controller -----------------------------
(***************************************************************************)
(* control.H and alarm.H of InstLib, as the recorders use them: the knobs  *)
(* -skip, -length and -uniform_* choose the interval of each thread that   *)
(* is recorded, and CONTROL sends its start and its stop to the handler of *)
(* the tool, which sets the flag of the thread (ThreadSupport).            *)
(*                                                                         *)
(* Every alarm puts an If call and a Then call before each basic block, in *)
(* the order in which the alarms were activated.  The counts and flags of  *)
(* an alarm have an entry per thread and are read and written without a    *)
(* lock, also by the threads that set the alarm for all of them.           *)
(***************************************************************************)
EXTENDS ThreadSupport, Sequences, FiniteSets

CONSTANTS
  Knobs,           \* the command lines, see KnobRecords
  MaxBlock,        \* the most instructions of a basic block
  MaxInstructions  \* MaxInstructions[k][t]: bound on those executed under the
                   \* id t with the command line k

\* The thread id that stands for all of them: 0xFFFF in the code.
ALL_THREADS == NumThreads

Tids == Threads \cup {ALL_THREADS}

\* A count of 0: the knob is not given.  (If it is given as 0, the alarm fires
\* before the first block it concerns, as it does for 1; -length 0 does nothing.)
\* Every count may name a thread, and names all of them if it does not.  That
\* of -length may also name a range of threads, which is there if high is not
\* 0; a thread named after the range is taken as well, and the other knobs
\* take a range for all threads.
KnobRecords ==
  [skip    : Nat, skipTid    : Tids,
   length  : Nat, lengthTid  : Tids, low : Threads, high : Threads,
   period  : Nat, periodTid  : Tids,
   uLength : Nat, uLengthTid : Tids,
   uSkip   : Nat, uSkipTid   : Tids,
   count   : Nat]

\* The samples exclude -skip, but not -length.
ASSUME ControllerAssumption ==
  /\ Knobs \subseteq KnobRecords
  /\ \A k \in Knobs : /\ k.period > 0 => k.skip = 0 /\ k.period > k.uLength
                      /\ k.high > 0 => k.low < k.high
  /\ MaxBlock \in Nat \ {0}
  /\ MaxInstructions \in [Knobs -> [Threads -> Nat]]

Alarms == {"skip", "length", "period", "uLength", "uSkip"}

VARIABLES
  knobs,
  alarm,           \* the alarms
  ev,              \* CONTROL_FINI: the last event
  _first,          \* CONTROL_INIT: nothing has been executed yet
  _skip_active,    \* CONTROL_UNIFORM: the samples have not begun
  _sample_count,   \* CONTROL_UNIFORM: the samples that have ended
  \* local to the analysis calls of a thread
  pc,
  block,           \* the instructions of the block
  at,              \* the place among the alarms
  seen,            \* the count it has read
  each,            \* the thread its loop has come to
  work,            \* what the handler still has to do
  \* the process
  stage,
  \* history
  executed,        \* executed[t]: the instructions executed under the id t
  since,           \* since[t]: where t was when -length was first armed for it
  log              \* log[t]: the events sent to t, with the instructions
                   \* first .. last of the block

setVars    == <<knobs, ev, _first, _skip_active, _sample_count>>
callVars   == <<pc, block, at, seen, each, work>>
historyVars == <<executed, since, log>>

controlVars == <<threadVars, setVars, alarm, callVars, stage, historyVars>>
-----------------------------------------------------------------------------
\* ALARM_ICOUNT, not set: it is for thread 0 and not armed.
ALARM_ICOUNT == [tid     |-> 0,
                 count   |-> [t \in Threads |-> 0],
                 armed   |-> [t \in Threads |-> FALSE],
                 handler |-> FALSE,
                 lock    |-> FALSE]

For(tid) == IF tid = ALL_THREADS THEN Threads ELSE {tid}

SetCount(a, tid, n) ==
  [a EXCEPT !.tid = tid, !.count = [t \in Threads |-> IF t \in For(tid) THEN n ELSE @[t]]]

SetArmed(a, tid, b) ==
  [a EXCEPT !.armed = [t \in Threads |-> IF t \in For(tid) THEN b ELSE @[t]]]

\* What SetAlarm is called with for each alarm.
AlarmCount(a) == CASE a = "skip"    -> knobs.skip
                   [] a = "length"  -> knobs.length
                   [] a = "period"  -> knobs.period
                   [] a = "uLength" -> knobs.uLength
                   [] a = "uSkip"   -> knobs.uSkip

AlarmTid(a) == CASE a = "skip" -> knobs.skipTid
                 [] a = "length" -> knobs.lengthTid
                 [] a = "period" -> knobs.periodTid
                 [] a = "uLength" -> knobs.uLengthTid
                 [] a = "uSkip" -> knobs.uSkipTid

\* Mutant: the alarm goes on with the count it has.
SetAlarmAgain(a) == <<[op |-> "arm", alarm |-> a], [op |-> "handler", alarm |-> a]>>

\* SetAlarm as the steps that other threads may come between.  For all threads
\* the counts, and then the flags, are set in a loop.
SetAlarm(a) == <<[op |-> "count", alarm |-> a], [op |-> "arm", alarm |-> a],
                 [op |-> "handler", alarm |-> a]>>

\* The alarms that Activate has switched on, in the order of their calls.
Inserted == (IF knobs.skip > 0 THEN <<"skip">> ELSE <<>>) \o
            (IF knobs.length > 0 THEN <<"length">> ELSE <<>>) \o
            (IF knobs.period > 0 THEN <<"period", "uLength", "uSkip">> ELSE <<>>)

\* CONTROL_INIT is activated if no other controller can start an interval.
InitActive == knobs.skip = 0 /\ knobs.period = 0

\* CONTROL::Activate sets the alarm that the first interval waits for.
FirstAlarms == IF knobs.period > 0 THEN {IF knobs.uSkip > 0 THEN "uSkip" ELSE "period"}
               ELSE IF knobs.skip > 0 THEN {"skip"} ELSE {}

Activate ==
  [a \in Alarms |->
    IF a \notin FirstAlarms THEN ALARM_ICOUNT
    ELSE [SetArmed(SetCount(ALARM_ICOUNT, AlarmTid(a), AlarmCount(a)), AlarmTid(a), TRUE)
            EXCEPT !.handler = TRUE]]

NotArmed == [ev |-> "none", first |-> 0, last |-> 0]

ControlInit ==
  /\ ThreadInit
  /\ knobs \in Knobs
  /\ alarm = Activate
  /\ ev = "none"
  /\ _first = TRUE
  /\ _skip_active = (knobs.uSkip > 0)
  /\ _sample_count = 0
  /\ pc = [t \in Threads |-> "out"]
  /\ block = [t \in Threads |-> 0]
  /\ at = [t \in Threads |-> 1]
  /\ seen = [t \in Threads |-> 0]
  /\ each = [t \in Threads |-> 0]
  /\ work = [t \in Threads |-> <<>>]
  /\ stage = "run"
  /\ executed = [t \in Threads |-> 0]
  /\ since = [t \in Threads |-> NotArmed]
  /\ log = [t \in Threads |-> <<>>]
-----------------------------------------------------------------------------
(***************************************************************************)
(* The handlers, as lists of what they do.                                 *)
(***************************************************************************)
\* LocalHandler: a start sets the alarm of the length; then CONTROL_FINI and
\* the tool are told.
LocalHandler(event) ==
  (IF event = "start" /\ knobs.length > 0 THEN SetAlarm("length") ELSE <<>>)
    \o <<[op |-> "notify", alarm |-> event]>>

\* Mutant: a sample that is over is not looked at.
SamplesForever == TRUE

SamplesLeft == _sample_count < knobs.count

Handler(a) ==
  CASE a = "skip" -> LocalHandler("start")
    [] a = "length" -> LocalHandler("stop")
    [] a \in {"period", "uSkip"} ->
         IF SamplesLeft THEN SetAlarm("period") \o <<[op |-> "sample", alarm |-> a]>> ELSE <<>>
    [] a = "uLength" -> <<[op |-> "ended", alarm |-> a]>> \o LocalHandler("stop")

Event(t, event) == [ev |-> event, first |-> executed[t] + 1, last |-> executed[t] + block[t]]

\* One turn of a loop over all threads, which is under the lock of the alarm
\* (the lock is taken with the first write and released with the last), or
\* the write to the entry of the one thread tid, without the lock.
Entry(t, tid) == IF tid = ALL_THREADS THEN each[t] ELSE tid

\* Mutant: the loop goes on past its end.
PastEnd(t, tid) == tid = ALL_THREADS => each[t] = NumThreads

AtEnd(t, tid) == tid = ALL_THREADS => each[t] = NumThreads - 1

LoopStep(t, a, tid) ==
  /\ tid = ALL_THREADS /\ each[t] = 0 => ~ alarm[a].lock
  /\ each' = [each EXCEPT ![t] = IF AtEnd(t, tid) THEN 0 ELSE @ + 1]

Held(t, a, tid) == IF tid = ALL_THREADS THEN ~ AtEnd(t, tid) ELSE alarm[a].lock

\* The first of the list, and whatever it adds to it.
Do(t) ==
  LET todo == Head(work[t])
      a    == todo.alarm
      tid  == AlarmTid(a)
      Then(more) == work' = [work EXCEPT ![t] = more \o Tail(@)]
  IN  \/ /\ todo.op = "count"
         /\ LoopStep(t, a, tid)
         /\ alarm' = [alarm EXCEPT ![a] = [@ EXCEPT !.tid = tid, !.lock = Held(t, a, tid),
                                                    !.count[Entry(t, tid)] = AlarmCount(a)]]
         /\ IF AtEnd(t, tid) THEN Then(<<>>) ELSE UNCHANGED work
         /\ UNCHANGED <<threadVars, setVars, seen, historyVars>>
      \/ /\ todo.op = "arm"
         /\ LoopStep(t, a, tid)
         /\ alarm' = [alarm EXCEPT ![a] = [@ EXCEPT !.lock = Held(t, a, tid),
                                                    !.armed[Entry(t, tid)] = TRUE]]
         /\ since' = [since EXCEPT ![Entry(t, tid)] =
                        IF a = "length" /\ @ = NotArmed THEN Event(Entry(t, tid), "armed") ELSE @]
         /\ IF AtEnd(t, tid) THEN Then(<<>>) ELSE UNCHANGED work
         /\ UNCHANGED <<threadVars, setVars, seen, executed, log>>
      \/ /\ todo.op = "handler"
         /\ alarm' = [alarm EXCEPT ![a].handler = TRUE]
         /\ Then(<<>>)
         /\ UNCHANGED <<threadVars, setVars, seen, each, historyVars>>
      \/ \* CONTROL_UNIFORM::Start: the end of the skip is no sample.
         /\ todo.op = "sample"
         /\ Then(IF _skip_active THEN <<[op |-> "begin", alarm |-> a]>>
                 ELSE SetAlarm("uLength") \o LocalHandler("start"))
         /\ UNCHANGED <<threadVars, setVars, seen, each, alarm, historyVars>>
      \/ /\ todo.op = "begin"
         /\ _skip_active' = FALSE
         /\ log' = [log EXCEPT ![t] = Append(@, Event(t, "skipped"))]
         /\ Then(<<>>)
         /\ UNCHANGED <<threadVars, knobs, ev, _first, _sample_count, seen, each, alarm, executed, since>>
      \/ \* CONTROL_UNIFORM::Stop: the increment is not atomic.
         /\ todo.op = "ended"
         /\ seen' = [seen EXCEPT ![t] = _sample_count]
         /\ Then(<<[op |-> "add", alarm |-> a]>>)
         /\ UNCHANGED <<threadVars, setVars, each, alarm, historyVars>>
      \/ /\ todo.op = "add"
         /\ _sample_count' = seen[t] + 1
         /\ seen' = [seen EXCEPT ![t] = 0]
         /\ Then(<<>>)
         /\ UNCHANGED <<threadVars, knobs, ev, _first, _skip_active, each, alarm, historyVars>>
      \/ \* The handler of the tool.
         /\ todo.op = "notify"
         /\ ev' = a
         /\ IF a = "start" THEN activate(t) ELSE deactivate(t)
         /\ log' = [log EXCEPT ![t] = Append(@, Event(t, a))]
         /\ Then(<<>>)
         /\ UNCHANGED <<knobs, _first, _skip_active, _sample_count, seen, each, alarm, executed, since>>
-----------------------------------------------------------------------------
Goto(t, from, to) == stage = "run" /\ pc[t] = from /\ pc' = [pc EXCEPT ![t] = to]

\* A thread is started by instructions of another one.
StartThread(t) ==
  /\ Goto(t, "out", "out")
  /\ gThreadNum > 0 => \E u \in live : executed[u] > 0
  /\ ThreadStart(t)
  /\ UNCHANGED <<setVars, alarm, block, at, seen, each, work, stage, historyVars>>

ExitThread(t) ==
  /\ Goto(t, "out", "out")
  /\ ThreadFini(t)
  /\ UNCHANGED <<setVars, alarm, block, at, seen, each, work, stage, historyVars>>

\* The thread comes to a basic block of n instructions.
EnterBlock(t) ==
  /\ Goto(t, "out", "if")
  /\ t \in live
  /\ \E n \in 1 .. MaxBlock : /\ executed[t] + n <= MaxInstructions[knobs][t]
                              /\ block' = [block EXCEPT ![t] = n]
  /\ at' = [at EXCEPT ![t] = 1]
  /\ UNCHANGED <<threadVars, setVars, alarm, seen, each, work, stage, historyVars>>

\* The alarm whose calls come next.
Current(t) == Inserted[at[t]]

Concerns(a, t) == a.tid \in {ALL_THREADS, t} /\ a.armed[t]

\* The If call: CounterAdvance and CounterAdvanceCheckNThreads.
SkipAlarm(t) ==
  /\ Goto(t, "if", "if")
  /\ at[t] <= Len(Inserted)
  /\ ~ Concerns(alarm[Current(t)], t)
  /\ at' = [at EXCEPT ![t] = @ + 1]
  /\ UNCHANGED <<threadVars, setVars, alarm, block, seen, each, work, stage, historyVars>>

ReadCount(t) ==
  /\ Goto(t, "if", "store")
  /\ at[t] <= Len(Inserted)
  /\ Concerns(alarm[Current(t)], t)
  /\ seen' = [seen EXCEPT ![t] = alarm[Current(t)].count[t]]
  /\ UNCHANGED <<threadVars, setVars, alarm, block, at, each, work, stage, historyVars>>

\* Mutant: a range of the first two threads is taken for none.
RangedPastOne(t) == Current(t) = "length" /\ knobs.high > 1

\* The length waits for all threads of its range.
Ranged(t) == Current(t) = "length" /\ knobs.high > 0

\* Mutant: the alarm fires once the count has been passed.
FiresLate(n) == n < 0

Fires(n) == n <= 0

\* The count is written back.  For a range the counts are read next.
StoreCount(t) ==
  LET n == seen[t] - block[t]
  IN  /\ stage = "run" /\ pc[t] = "store"
      /\ alarm' = [alarm EXCEPT ![Current(t)].count[t] = n]
      /\ pc' = [pc EXCEPT ![t] = IF Ranged(t) THEN "scan" ELSE IF Fires(n) THEN "disarm" ELSE "if"]
      /\ at' = [at EXCEPT ![t] = IF Ranged(t) \/ Fires(n) THEN @ ELSE @ + 1]
      /\ each' = [each EXCEPT ![t] = IF Ranged(t) THEN knobs.low ELSE 0]
      /\ seen' = [seen EXCEPT ![t] = 0]
      /\ UNCHANGED <<threadVars, setVars, block, work, stage, historyVars>>

\* Mutant: the last thread of the range is not looked at.
BeforeLast(u) == u + 1 = knobs.high

LastOfRange(u) == u = knobs.high

\* The scan of the counts of the range, which the other threads may be changing.
ScanCount(t) ==
  LET go == Fires(alarm[Current(t)].count[each[t]])
  IN  /\ stage = "run" /\ pc[t] = "scan"
      /\ pc' = [pc EXCEPT ![t] = IF ~ go THEN "if" ELSE IF LastOfRange(each[t]) THEN "disarm" ELSE @]
      /\ at' = [at EXCEPT ![t] = IF go THEN @ ELSE @ + 1]
      /\ each' = [each EXCEPT ![t] = IF ~ go \/ LastOfRange(@) THEN 0 ELSE @ + 1]
      /\ UNCHANGED <<threadVars, setVars, alarm, block, seen, work, stage, historyVars>>

\* An alarm that fires is disarmed, for all threads if it waits for a range.
Disarm(t) ==
  LET a   == Current(t)
      tid == IF Ranged(t) THEN ALL_THREADS ELSE t
  IN  /\ Goto(t, "disarm", IF AtEnd(t, tid) THEN "then" ELSE "disarm")
      /\ LoopStep(t, a, tid)
      /\ alarm' = [alarm EXCEPT ![a] = [@ EXCEPT !.lock = Held(t, a, tid), !.armed[Entry(t, tid)] = FALSE]]
      /\ UNCHANGED <<threadVars, setVars, block, at, seen, work, stage, historyVars>>

\* The Then call: CallHandler.  Another thread may have armed the alarm and
\* not yet stored its handler; the call of a null pointer ends the process.
CallHandler(t) ==
  /\ Goto(t, "then", "work")
  /\ IF alarm[Current(t)].handler
     THEN /\ work' = [work EXCEPT ![t] = Handler(Current(t))]
          /\ UNCHANGED stage
     ELSE /\ stage' = "crashed"
          /\ UNCHANGED work
  /\ UNCHANGED <<threadVars, setVars, alarm, block, at, seen, each, historyVars>>

HandlerStep(t) ==
  /\ Goto(t, "work", "work")
  /\ work[t] # <<>>
  /\ Do(t)
  /\ UNCHANGED <<block, at, stage>>

\* The handler returns to the alarm after its own.
HandlerReturn(t) ==
  /\ Goto(t, "work", "if")
  /\ work[t] = <<>>
  /\ at' = [at EXCEPT ![t] = @ + 1]
  /\ UNCHANGED <<threadVars, setVars, alarm, block, seen, each, work, stage, historyVars>>

\* CONTROL_INIT: a call before the first instruction that is executed.
InitStart(t) ==
  /\ Goto(t, "if", "work")
  /\ at[t] = Len(Inserted) + 1
  /\ InitActive /\ _first
  /\ _first' = FALSE
  /\ work' = [work EXCEPT ![t] = LocalHandler("start")]
  /\ UNCHANGED <<threadVars, knobs, ev, _skip_active, _sample_count, alarm, block, at, seen, each, stage, historyVars>>

\* The calls at the head of the block are over.
EnterBody(t) ==
  /\ Goto(t, "if", "body")
  /\ at[t] > Len(Inserted)
  /\ ~ (InitActive /\ _first)
  /\ UNCHANGED <<threadVars, setVars, alarm, block, at, seen, each, work, stage, historyVars>>

\* The instructions of the block have been executed.
LeaveBlock(t) ==
  /\ Goto(t, "body", "out")
  /\ executed' = [executed EXCEPT ![t] = @ + block[t]]
  /\ block' = [block EXCEPT ![t] = 0]
  /\ at' = [at EXCEPT ![t] = 1]
  /\ UNCHANGED <<threadVars, setVars, alarm, seen, each, work, stage, since, log>>

\* CONTROL_FINI: if the last event was a start, thread 0 gets a stop.  Then the
\* tool deletes the blocks of the threads.
ControlFini ==
  /\ stage = "run" /\ gThreadNum > 0 /\ live = {}
  /\ ev' = IF ev = "start" THEN "stop" ELSE ev
  /\ ThreadEnd
  /\ stage' = "done"
  /\ UNCHANGED <<knobs, _first, _skip_active, _sample_count, alarm, callVars, historyVars>>

Calls(t) ==
  \/ EnterBlock(t) \/ SkipAlarm(t) \/ ReadCount(t) \/ StoreCount(t) \/ ScanCount(t)
  \/ Disarm(t) \/ CallHandler(t)
  \/ HandlerStep(t) \/ HandlerReturn(t) \/ InitStart(t) \/ EnterBody(t)
-----------------------------------------------------------------------------
(***************************************************************************)
(* Properties.                                                             *)
(***************************************************************************)
PcLabels == {"out", "if", "store", "scan", "disarm", "then", "work", "body"}

Tasks == [op : {"count", "arm", "handler", "sample", "begin", "ended", "add", "notify"},
          alarm : Alarms \cup {"start", "stop"}]

\* Every variable has its type.
ControlTypeOK ==
  /\ ThreadTypeOK
  /\ knobs \in Knobs
  /\ alarm \in [Alarms -> [tid : Tids, count : [Threads -> Int],
                          armed : [Threads -> BOOLEAN], handler : BOOLEAN, lock : BOOLEAN]]
  /\ ev \in {"none", "start", "stop"}
  /\ _first \in BOOLEAN /\ _skip_active \in BOOLEAN
  /\ _sample_count \in Nat
  /\ pc \in [Threads -> PcLabels]
  /\ block \in [Threads -> 0 .. MaxBlock]
  /\ \A t \in Threads : at[t] \in 1 .. Len(Inserted) + 2
  /\ seen \in [Threads -> Int]
  /\ each \in [Threads -> Threads]
  /\ work \in [Threads -> Seq(Tasks)]
  /\ stage \in {"run", "crashed", "done"}
  /\ executed \in [Threads -> Nat]
  /\ since \in [Threads -> [ev : {"none", "armed"}, first : Nat, last : Nat]]
  /\ log \in [Threads -> Seq([ev : {"skipped", "start", "stop"}, first : Nat, last : Nat])]

\* The places in the log of t of the events of these kinds.
Events(t, kinds) == {i \in DOMAIN log[t] : log[t][i].ev \in kinds}

\* The block of e is the one with the nth instruction after the first m.
Within(e, m, n) == m + n \in e.first .. e.last

\* The events es are just the one in the block with the nth instruction after
\* the first m, if the thread has got so far.
OnceAfter(t, es, m, n) ==
  IF executed[t] >= m + n THEN \E i \in es : es = {i} /\ Within(log[t][i], m, n)
                          ELSE es = {}

AtBlockEnd(t) == stage = "run" /\ pc[t] = "out"

\* The threads that may be sent a start: CONTROL_INIT starts thread 0.  With the
\* samples, the end of -uniform_skip is one but for the first to come to it.
Starters ==
  CASE knobs.period > 0 -> For(knobs.periodTid) \cup
                             (IF knobs.uSkip > 0 THEN For(knobs.uSkipTid) ELSE {})
    [] knobs.skip > 0 -> For(knobs.skipTid)
    [] OTHER -> {0}

\* The threads that wait for the whole range.
InRange(u) == knobs.high > 0 /\ u \in knobs.low .. knobs.high

\* With -skip N each thread that it concerns gets one start, in the block with
\* its own Nth instruction, whatever the others execute in the meantime.
StartsAfterSkip ==
  \A t \in Threads :
    AtBlockEnd(t) /\ knobs.skip > 0 =>
      IF t \in Starters THEN OnceAfter(t, Events(t, {"start"}), 0, knobs.skip)
                        ELSE Events(t, {"start"}) = {}

\* With -length M the interval of the one thread that starts and stops ends in
\* the block with its Mth instruction; the block before which it is started is
\* counted if the start is an alarm's, and not if it is CONTROL_INIT's.  A
\* range that this thread is in makes no difference.
StopsAfterLength ==
  \A t \in Threads :
    /\ AtBlockEnd(t)
    /\ knobs.length > 0 /\ knobs.lengthTid = t /\ Starters = {t} /\ knobs.period = 0
    /\ knobs.high > 0 => InRange(t)
    => LET stops == Events(t, {"stop"})
       IN  /\ Events(t, {"start"}) = {} => stops = {}
           /\ \A i \in Events(t, {"start"}) :
                OnceAfter(t, stops, IF knobs.skip > 0 THEN log[t][i].first - 1
                                                      ELSE log[t][i].last, knobs.length)

Stopped == \E t \in Threads : Events(t, {"stop"}) # {}

\* -length is given a range of threads and nothing but starts to end.
RangeOnly ==
  knobs.length > 0 /\ knobs.high > 0 /\ knobs.lengthTid = ALL_THREADS /\ knobs.period = 0

\* With -length M:tidrange no stop comes before every thread of the range has
\* come to its Mth instruction since -length was first armed for it, although a
\* thread scans the counts of the others while they write them, and although
\* each thread that starts sets all counts anew, in the middle of a scan or
\* between the read of a count and its write.
RangeWaits ==
  RangeOnly /\ Stopped =>
    \A u \in knobs.low .. knobs.high :
      /\ since[u].ev = "armed"
      /\ executed[u] + block[u] >= since[u].first - 1 + knobs.length

\* With one start the stop is no later than that either: of the threads that
\* write their counts and scan those of the others at the same time, one sees
\* that all have come to their Mth instruction.  The block in which a thread is
\* when -length is armed for it may be left out of its count.
RangeStops ==
  /\ RangeOnly /\ Cardinality(Starters) = 1
  /\ \A u \in Threads : AtBlockEnd(u)
  /\ \A u \in knobs.low .. knobs.high : /\ since[u].ev = "armed"
                                       /\ executed[u] >= since[u].last + knobs.length
  => Stopped

\* The threads that set the alarm after the program has started.
Setters(a) ==
  CASE a = "length" -> IF knobs.length > 0 THEN Starters ELSE {}
    [] a = "uLength" -> IF knobs.period > 0 THEN Starters ELSE {}
    [] a = "period" -> IF knobs.period > 0 /\ knobs.uSkip > 0 THEN For(knobs.uSkipTid) ELSE {}

\* SetAlarm arms an alarm before it stores the handler.  No other thread calls
\* the null handler in between, unless a thread other than the one that sets
\* the alarm has it, and does not have to wait for that one: a thread that is
\* within the range of -length has its own M instructions still to go when it
\* sets the alarm, unless -length names one thread as well.
HandlersStored ==
  stage = "crashed" =>
    \E a \in {"length", "uLength", "period"} : \E u \in Setters(a) :
      /\ AlarmTid(a) # u
      /\ a = "length" /\ knobs.lengthTid = ALL_THREADS => ~ InRange(u)

\* The samples are those of thread t.
SamplesOf(t) ==
  /\ knobs.period > 0 /\ knobs.uLength > 0
  /\ knobs.periodTid = t /\ knobs.uLengthTid = t
  /\ knobs.uSkip > 0 => knobs.uSkipTid = t

\* With -uniform_* of one thread there are no more than -uniform_count samples,
\* and each start and stop is in the block with the right instruction after the
\* event before it, if no block can hide the end of a sample behind the start
\* of the next one.  -length adds a stop to the samples that are longer than it.
UniformSamples ==
  \A t \in Threads :
    SamplesOf(t) /\ knobs.period >= knobs.uLength + MaxBlock =>
      LET es     == log[t]
          starts == Events(t, {"start"})
      IN  /\ Cardinality(starts) <= knobs.count
          /\ \A u \in Threads \ {t} : Events(u, {"start", "skipped"}) = {}
          /\ \A i \in Events(t, {"skipped"}) : i = 1 /\ Within(es[i], 0, knobs.uSkip)
          /\ \A i \in starts :
               LET before == {j \in Events(t, {"start", "skipped"}) : j < i}
               IN  IF before = {} THEN knobs.uSkip = 0 /\ Within(es[i], 0, knobs.period)
                   ELSE \E j \in before : /\ \A k \in before : k <= j
                                          /\ Within(es[i], es[j].last, knobs.period)
          /\ knobs.high = 0 =>
               \A i \in Events(t, {"stop"}) :
                 \E j \in starts :
                   /\ j < i /\ starts \cap (j + 1 .. i - 1) = {}
                   /\ \/ Within(es[i], es[j].first - 1, knobs.uLength)
                      \/ knobs.length > 0 /\ Within(es[i], es[j].last, knobs.length)

\* A thread executes the whole period between two starts of its own, even if
\* -uniform_* is for all threads, so that each start sets the period of every
\* thread anew while these count, or if -length stops the sample as well.  (The
\* end of a -uniform_skip of all threads starts a sample in all but the first.)
SamplesApart ==
  \A t \in Threads :
    knobs.period > 0 /\ (knobs.uSkip > 0 => knobs.uSkipTid # ALL_THREADS) =>
      LET starts == Events(t, {"start"})
      IN  \A j \in starts :
            IF \A i \in starts : i >= j
            THEN knobs.uSkip = 0 => log[t][j].last >= knobs.period
            ELSE \A i \in starts : i < j => log[t][j].last - log[t][i].last >= knobs.period

\* "If -skip N -length M is passed, each thread will generate a start event
\* after executing N instructions and a stop event after executing M."
EachThreadStops ==
  \A t \in Threads :
    /\ AtBlockEnd(t)
    /\ knobs.skip > 0 /\ knobs.length > 0 /\ knobs.high = 0
    /\ knobs.skipTid = ALL_THREADS /\ knobs.lengthTid = ALL_THREADS
    => \A i \in Events(t, {"start"}) :
         OnceAfter(t, Events(t, {"stop"}), log[t][i].first - 1, knobs.length)
=============================================================================
