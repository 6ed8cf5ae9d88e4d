# Verification of the shared-footprint profiler

The repository is a copy of the Intel Pin 2.13 kit with a family of Pin tools
added to it, in `src/source/tools/MultithreadFP`. The tools measure the *shared
footprint* of a multithreaded program: for a window of `ws` consecutive memory
accesses, how many cache lines are touched by more than `k` threads, on average
over all the windows of the run. No tool looks at a window. Each records, per
cache line, the time of every thread's last access, counts the intervals
between accesses in a histogram, and computes the averages from the histogram
when the program exits. That is what can go wrong here: the arithmetic has to
be exact, and it runs inside all the threads of the profiled program at once.

This directory holds TLA+ models of the tools, the TLC configurations that check
them, and proofs checked by TLAPS.

## Inventory of the system

Paths are relative to `src/source/tools/MultithreadFP` unless they start with
`src/`.

| Component | State | Operations | Interacts with |
|---|---|---|---|
| `anyk-sfp.cpp`, recorder for every sharing degree | stamp table of sets, each with a lock and the lists of its lines; `N`, `M`, `wcount`, `wcount_i`; the locals of each `RecordMem` | `RecordMem`, `SfpImpl`, `ControlHandler`, `CollectLastAccesses`, `Fini` | called by Pin in the accessing thread; `thread_support.H`, `atomic.H`, `histo.H` |
| `anyk-wr-sfp.cpp`, with read and write footprints | the same, and `last_write` per line, `wcount_ro`, `wcount_ro_i` | the same, with the kind of the access | the same |
| `anyset-fp.cpp`, footprint of every set of threads | the same, and `gPillars`, a count per set of threads for a few window lengths | the same, `BuildSharingGraph` | writes the files of the next row |
| `anyset-fp-compose.rb` | none between runs | `read_sgraph`, `read_sfp_profile`, `sfp_partial`: the footprint of a thread group | reads the files of `anyset-fp` |
| `anytaskset-fp.cpp`, footprint of task sets | counts and pillars per thread, merged when it exits; lists that are trimmed; a stack of tasks per thread; times of the processor's clock | the same, `BeforeTaskStart`, `BeforeTaskEnd`, `ThreadFini_hook` | `thread_support_privatized.H`, `sfp_list.H` |
| `sfp-scheduler.cpp`, profiler of tasks | stamp table, token manager, per-thread flag and address of the task id | `InstructionExec`, `BeforeTaskStart`, `BeforeTaskEnd`, `StoreTaskIDAddr` | `sfp_tokens.H`, `sfp_list.H`, `sfp_stamp_table.H`, `sfp_locality_desc.H`, `thread_support_scheduler.H` |
| `sfp_tokens.H`, token manager | descriptors of tasks, sets of tasks per token, a reader-writer lock | `get_token`, `release_token`, `get_task_descriptor`, `is_task_running`, the locks | called by the scheduler |
| `sfp_locality_desc.H` | counts per set of tokens and interval length | `add` | called by the list's `update` |
| `thread_support.H` | thread-local block, number of thread starts | `ThreadStart`, `ThreadFini`, `ThreadEnd` | called by Pin and by `Fini` |
| `atomic.H` | a lock byte | `lock_acquire`, `lock_release` | all recorders |
| `histo.H` | none | value to bucket, bucket to value | all recorders |
| `sfp_list.H` | a list over a fixed array | `set_at`, `set_front`, `erase`, `remove_rest` | the recorders of tasks |
| `src/source/tools/MyTests/test.cpp`, an early recorder | one stamp per line, the locks of the sets, `N`, `M` | `RecordMem`, `CollectLastAccesses`, `Fini` | its own `thread_support.H` and `atomic.h`; the controller |
| `src/source/tools/InstLib/control.H`, `alarm.H`: the controller of all tools | a count and a flag per alarm and thread; the event seen last; the samples so far | `-skip`, `-length`, `-uniform_*`: `Activate`, `SetAlarm`, `CounterAdvance`, the handlers, `LocalHandler` | called before each basic block, calls the tool's `ControlHandler` |
| `src/source/tools/InstFootprintStats` | instruction counts | sequential | |
| the rest of the kit | | | third-party |

How they interact: Pin inserts a call of `RecordMem` (`InstructionExec`) before
every instruction that accesses memory. The call runs in the accessing thread,
on any processor, together with those of all other threads; the threads share
the stamp table and the counts. The controller and Pin's thread callbacks run
in the thread they concern, between two accesses of that thread. `Fini` runs
once, alone, after the last thread.

What is hard, and what makes each component correct:

* **Recorders.** An access takes one lock per line it spans, then a time stamp,
  then releases the locks one by one. Copies of a list are read, modified and
  written back. Correct means: locks exclude each other; stamps are in the
  order of the list updates, otherwise the unsigned distances wrap around; the
  lists stay sorted, acyclic and complete; the sharing level stays within the
  arrays; no threads wait in a circle; and the printed numbers are the
  footprint of the trace.
* **Thread support.** Ids are reused, starts are counted; a thread records from
  its first instruction unless it is the main one.
* **Histogram.** Bucketing must lose nothing at the window lengths printed.
* **Token manager and scheduler.** A descriptor and its token are used after the
  lock of the manager has been released; the end of a task takes two steps.
  Correct means: a task records under a token it holds, tokens do not leak, are
  shared only when none is free, and nobody changes the map under a reader.
* **Spin locks.** Every lock taken is released, or every later access hangs.
* **Pillars.** The any-set recorders find, for a few window lengths, how many
  windows each set of threads (or tasks) shares, from one walk over the list of
  a line per access. Correct means: each window is counted once, for the right
  set, by the access after it or at the end; the unsigned differences stay
  positive; and the script composes a group's footprint from graphs of the
  lengths they were measured for.
* **Tasks.** Threads change tasks between accesses, share tasks, merge private
  counts while others record, and lists are trimmed by age. Correct means: the
  merged counts are those of the trace, and trimming loses nothing that a pillar
  still looks at.
* **Controller.** Each thread counts its instructions by basic blocks in arrays
  that all threads write without a lock. Correct means: a thread starts and
  stops in the block with the right instruction, whatever the others execute.

The hazards are listed in `PROJECT.json`, each with its line and the properties
that cover it, or with the reason why none does yet.

## Modules

| Module | Models | Kind |
|---|---|---|
| `SublogHisto` | `histo.H` | pure functions |
| `ThreadIds` | the ids Pin gives to threads | constants |
| `ThreadSupport` | `thread_support.H`, the tools' `activate` and `deactivate` | state and actions used by the recorders |
| `StampList` | `TStampList` and the end of `SfpImpl` | operators on one list |
| `SharedFootprint` | what the tools measure, on the trace | reference definition |
| `SfpRecorder`, `MCSfpRecorder` | `anyk-sfp.cpp`, `atomic.H` | main state machine, and its instances |
| `RecencyTable` | what the stamp table promises | abstract specification |
| `AnySetRecorder` | `anyset-fp.cpp` | state machine over `SfpRecorder` |
| `SetComposition`, `MCComposition` | `anyset-fp-compose.rb` | operators on the final state of `AnySetRecorder`, and its instances |
| `SfpList` | `sfp_list.H` | operators on one list |
| `TaskSetRecorder` | `anytaskset-fp.cpp` | state machine over `ThreadSupport` and `SfpList` |
| `TokenManager` | `sfp_tokens.H` | state and operators used by `SfpScheduler` |
| `SfpScheduler` | `sfp-scheduler.cpp` | state machine over `TokenManager` and `SfpList` |
| `ReadWriteRecorder` | the counting of `anyk-wr-sfp.cpp` | state machine, one action per access |
| `Controller` | `control.H`, `alarm.H` | state and actions, over `ThreadSupport` |
| `SharedData`, `MCSharedData` | `MyTests/test.cpp` | state machine over `Controller`, and its instances |
| `RecorderLemmas` | | lemmas about `StampList` and `SublogHisto`, and the number of windows in a stretch of the trace |
| `SfpRecorderProofs` | | proofs about `SfpRecorder` |
| `AnySetProofs` | | proofs about `AnySetRecorder` and `SetComposition` |
| `TaskSetProofs` | | proofs about `TaskSetRecorder` |
| `SfpSchedulerProofs` | | proofs about `SfpScheduler` |
| `ReadWriteProofs` | | proofs about `ReadWriteRecorder` |
| `ControllerProofs` | | proofs about `Controller`: the calls before a block, the events; and about `SharedData` |
| `CountingLemmas` | | lemmas about least elements, remainders, sums over sets, powers of two, and loops of a bounded number of turns |

Operators named in a comment as a mutant are faulty variants of the definition
after them. No specification uses them; they show that a property would notice
the fault.

### SfpRecorder

Variables have the names of the source. `lock`, `stamps`, `N`, `M`, `wcount` and
`wcount_i` are shared; `pc`, `base_addr`, `cur_addr`, `tempN`, `s`, `iter`,
`prev` and `thd_count` are the locals of the `RecordMem` of each thread, set to
a fixed value when it returns. A line is its number; addresses are kept only
as the offset and size of an access, because the number of lines an access
spans is computed from them.

The steps of `RecordMem` are cut where another thread can interfere:
`LockAcquire` for each set, `LockSpin` when the set is taken, `ReserveStamp`
(the atomic increment of `N`), `LoadStamps` (the copy of the list out of the
table), `PassStamp` for each element the walk passes, `MeetOwnStamp` or
`FirstAccess` at its end, `StoreStamps` (the copy back) and `LockRelease`. An
increment of `wcount` is one atomic instruction in the code; the four of
`PassStamp` are one action, because during the run nobody reads the counts and
addition commutes. `Lifecycle` holds the thread callbacks and the controller's
events.

`CollectLastAccesses` is a walk of its own (`CollectStamp`, `CollectNext`); it
runs when all threads have exited. A row of the output is the operators
`SumBuckets`, `RowWindow`, `RowValue`: the code's number times the number of
windows, so that it is an integer.

`trace` is a history variable: the accesses in the order of their stamps. It
appears in no guard. `ReportIsExact` compares the report with the definition in
`SharedFootprint`, which looks at each window of the trace.

`RecencyTable` is the abstract specification: a table of last accesses in which
an access of any number of lines happens at once. The refinement mapping counts
an access as done from `ReserveStamp` on, also for the lines whose lists it has
yet to update (`ToProfile`).

Thread ids stand for threads, as in the code: Pin gives an id that has become
free to a new thread, which then continues the lists of the old one. The
footprint printed is that of the *ids*. This is what `ReportIsExact` states, and
the run `thread_sets` starts four threads with three ids.

### AnySetRecorder and SetComposition

`anyset-fp.cpp` is `anyk-sfp.cpp` with a walk over the pillars before the one over
the intervals. The module adds `gPillars`, the walk of each thread (`walk`) and
that of `CollectLastAccesses` (`last`) to the variables of `SfpRecorder`.
`LoadStamps` becomes `BeginPillars`, which copies the list and starts the walk;
`ProfilePillar` is one turn of the loop over the list of one pillar;
`CountIntervals` is any step of `SfpRecorder`, for a thread whose walk is over.
`Fini` is `CollectPillar` and `CollectIntervals` per line in the same way.
The steps over the pillars leave the variables of `SfpRecorder` alone. That is how
the module is put together, so it is no property of a run; the lemma
`AnySetRecords` states it, and carries what is shown of the any-k recorder over to
this one.

The variable `low` of the code is an operator of the list, and a window is named
by its left end. `SharingGraphIsExact` compares the files with the windows of the
trace one by one; `WalksCountSharers` says of every single addition that the set
it goes to is the one that touches the line in these windows.

The script runs after the tool and keeps nothing: `SetComposition` reads the
files off the final state (`FilesRead`, `PillarLength`, `SharedByExactly`) and
computes the proportion of each row as a fraction. At the pillars the composed
footprint must be that of the group (`ComposedIsExact`); between them the
script interpolates, and its proportion must stay between 0 and 1
(`ProportionsBounded`). The script numbers threads from one:
the group 0,1,2 of the usage text at line 10 has the bit `1 << -1`, which is 0,
so that the member 0 is ignored. The model takes `array_to_bitmap` as it is.

### TaskSetRecorder

Tasks have the ids that index the private counts, 0 among them; 0 is also the
`current_task` of a thread that has started none. `Started` are the ids the program
starts; any of them may be in it, as `BeforeTaskStart` lets them pass. The run has
task 1 only: a thread then records under 0 before it has started a task and after the
end of it, and starting 0 as well would give it an id that it has anyway.

One trace clock, `rdtsc`, that each reading moves on; times that lie between
readings pass by `Tick`. `RecordMem` is `RecordMem`, `LockAcquire`,
`ReserveTime`, `SfpImpl`, `LockRelease`. `SfpImpl` is a single action here,
unlike in `SfpRecorder`: what it touches is the list of a line whose set is locked
and the private counts of its thread, so that no other thread can tell the steps
apart. Its loops are the recursive functions `PillarWalks` and `Intervals`.
`ThreadFini_hook` is cut at every row (`ReadRow`, `AddRow`), and inside the row
between the read and the write, since the counts merged there are global.
`thread_support_privatized.H` lacks the fields the file uses (`tasks`,
`current_task`, the counts), so the file does not compile as it is; the
fields are taken from `thread_support.H` and their use.

What the report can mean is limited by the clock: `N` is the difference of the
last *stop* and the first start. The properties look at the traces that end with
a stop after all accesses (`EndsLast`), and, but for `WindowsCountedOnce`, at
those in which no list is trimmed too early (`AllRecent`).

### TokenManager and SfpScheduler

`stack` and `arg` are the program: the tasks each thread has started and not
ended, and the parent passed to the running call. `current_taskid` is the top of
the stack, which the program stores at the address it has given to
`SFP_GetTaskIDAddr`. A task runs in one thread at a time.

`BeforeTaskStart` is `WriteLockForStart`, `GetToken`, `EnableTask`;
`BeforeTaskEnd` is `WriteLockForEnd`, `ReleaseToken`, `DisableTask`. In both the
last step runs without the manager's lock, as in the code. `InstructionExec` is
the read lock, the test whether the task runs (after which the lock is
released), the read of the token, the lock of the set, the time, the walk of
`update`, `set_front`, and the release. `set_front` is modelled with what it
does to a cyclic list. `crowded` is a history variable: the tasks that
started when no token was free.

Taken from the code's silence: `get_stamp_list` is declared and nowhere
defined, and is taken to return the list of the line; the lock bytes of the
table are not initialised by its constructor, and are taken to be zero, as fresh
pages are; the program's parent ids are smaller than `MAX_TOKENS`
(`SchedulerAssumption`), since the code uses a parent's *task id* as an index of
tokens and checks nothing. With a larger id it reads outside its arrays, which has no
model; what the type invariant says of a token is under this assumption.

### ReadWriteRecorder

The locks, stamps and lists of `anyk-wr-sfp.cpp` are those of `anyk-sfp.cpp`, of
which `SfpRecorder` shows that an access is atomic; here an access is one action
and touches one line. The loops that add and subtract intervals are written as
the sets of the intervals they visit: `Closed` for `wcount`, `ReadClosed` and
`LeftOver` for `wcount_ro`.

Two comparisons with `last_write` differ in the code, `>` in the walk and `>=` in
the loop over open intervals. Both choices give the same numbers: the thread
whose last access is the last write contributes an interval and its opposite.
So no property can tell them apart, and no hazard is listed for them.

### Controller and SharedData

Each alarm puts an If call and a Then call before every basic block, in the order
of the activation of the alarms. The model cuts them at each access to what the
threads share:

* `ReadCount` and `StoreCount` are a decrement of an array element that another
  thread may set in between. For a range, `ScanCount` then reads the count of one
  thread after the other, which the others may be changing (the comment at
  `alarm.H:149-153` admits it), and `Disarm` clears the flags.
* `CallHandler` calls the stored handler, and one `HandlerStep` is one statement
  of a handler that touches shared state (`Do`). The list of statements a handler
  has left is `work`; a start that sets an alarm and tells the tool is a list that a
  statement puts in front. `SetAlarm` is three statements: the counts, the flags, the
  handler. The `_sample_count++` of `-uniform_*` is a read (`ended`) and a write (`add`).
* Where the code loops over all threads, to set the counts or to set or clear the
  flags, one step does one entry (`each`), under the lock of the alarm. A write
  for one thread takes no lock.

Every knob names all threads or one, which need not be the same for all knobs;
`-length` may name a range, with or without a thread after it; and it may be given
with the samples of `-uniform_*`. Two behaviours of these that the model has from
the code, and that the properties have to leave room for:

* With `-uniform_*` for all threads the start of one thread sets the period and the
  length of all anew, `_sample_count` may lose an increment, and a thread may begin
  a sample before the others have ended theirs. `-uniform_count` is then no exact
  limit, and no property says that it is. `SamplesApart` says what remains: a thread
  executes a whole period between two starts of its own.
* `_skip_active` is one flag for all threads. The first thread that comes to the
  end of `-uniform_skip` for all threads clears it, so that every other one starts a
  sample there.

Memory is sequentially consistent in the model: what the store buffers of the
processor add to the unlocked accesses is left out.

If the handler of an alarm has not been stored when another thread calls it, the
process is `crashed`. `HandlersStored` says when this is possible, for any command
line: a thread sets an alarm that is not its own alone. For `-length` of all threads
that thread must be outside the range waited for, because a thread inside has its
own M instructions still to go. `-skip N -length M`, with both for all
threads, is a command line for which it does happen.

`since` is a history variable: where each thread was when the alarm of the length was
first armed for it. `RangeWaits` counts from there. With `-length M:tidrange` no stop
may come before every thread of the range has come to its Mth instruction after
that, although each start sets all counts anew; and with one start the stop
comes as soon as all have executed them, although each of the threads that scan may
miss what another is just writing (`RangeStops`).

`log` is a history variable: the events sent to each thread, with the numbers of
the first and last instruction of the block before which they are sent. The
properties are stated on `log` and `executed`. A block counts as a whole: the
start with `-skip N` comes before the block that holds the Nth instruction. With
`-skip` the block of the start is counted into the length, because the alarm of
the length comes after that of the skip in the same block; without it
`CONTROL_INIT` starts the thread after the alarm of the length, and its first
block is not counted.

`SharedData` is the recorder of `MyTests/test.cpp` run by this controller: its
accesses lie in the body of a block. An access of several lines takes its locks
in order and then works line by line, as in `anyk-sfp.cpp`; a stamp is copied,
changed and written back.

## Runs

| Run | Instance | Shows |
|---|---|---|
| `concurrent` | 2 threads, 4 lines in 3 sets, accesses of 1 or 2 lines, 3 accesses; all values of 8 bits | all interleavings: locking, stamps, lists, walk, levels, no circle of waiting threads, the report, the refinement of `RecencyTable`, and that accesses complete; every value has a bucket, and buckets open at the printed window lengths |
| `thread_sets` | 3 ids, 4 starts, 1 line, 5 accesses, pillars 1 and 4 | for every trace: the report, the sharing graphs and the composed rows equal the count window by window; the walks over the pillars |
| `pillar_lengths` | 2 threads, 3 accesses, lowest pillar 1, step 1 | **violation**: the script takes a graph for one of other windows |
| `long_profile` | 2 threads, 8 accesses, pillars 1 and 4 | **violation**: a profile with two rows after its last pillar is not composed |
| `straddling` | an access that crosses a line's end | **violation**: the second line is not recorded |
| `task_sets` | 2 ids and starts, 1 line, tasks 0 and 1, nesting depth 1, 5 ticks, pillars 1 and 4, trimming after 2 | the files of a run of tasks, merged from private counts, and the conservation of windows under trimming |
| `trimmed_lists` | 1 thread, 2 tasks, trimming after 1 | **violation**: a trimmed task is missing from windows that contain its access |
| `controller` | 2 ids and starts, blocks of 1 or 2 instructions, up to 11 instructions, 3 accesses of 1 or 2 lines, 11 command lines | in which block the threads start and stop under each knob, when a range stops, how far samples are apart, when a handler is there; the count of accesses to shared lines |
| `each_thread` | the same threads, `-skip 2 -length 2` for all | **violation**: the start of one thread moves the stop of another |
| `tokens` | 2 threads, 3 tasks, 2 tokens, nesting depth 2, 2 time stamps | token ownership through the unlocked steps; times in a list are older than that of the access being recorded |
| `list_cycle` | 2 threads and tasks, 1 line | **violation**: a lock that is never released |
| `read_write` | 3 threads, 1 line, 5 accesses | the read-only and read-write tables equal the count window by window |

Why the bounds are enough for what the runs ask:

* *Threads.* A circle of waiting threads or a lost update needs two threads. A
  walk that passes one element and meets another, an unlink in the middle of a
  list, a level that is neither 0 nor the last need three: the runs `thread_sets`
  and `read_write` have them.
* *Lines and sets.* Four lines in three sets make two lines share a set, and
  let an access wrap around the end of the table. Footprints are sums over the
  lines, so one line is enough where counts are compared; the interplay of
  lines, which is that of locks, is the run `concurrent`.
* *Trace.* The footprint of a line depends on the order of accesses to it; with
  five accesses by three ids every id can return after both others, and there
  are windows of the length of the second pillar that lie before the first,
  between two, and after the last access.
* *Buckets.* With `SublogBits = 1` a bucket holds several lengths from 4 on, so
  rows of several lengths occur within five accesses. The arithmetic itself is
  checked for 8-bit values with three bits per octave.
* *Tokens.* Three tasks over two tokens force sharing; `MaxTime = 2` allows two
  recorded accesses. `MaxTime` stops the clock; the configurations of the
  scheduler therefore switch deadlock checking off.
* *Tasks.* Two tasks in two threads: both may run the same task, and one may be
  merging while the other records. `MaxTime = 5` makes room for a start, a stop,
  three accesses, and accesses more than the trim frequency apart.
* *Controller.* Each command line has its own number of instructions
  (`MCInstructions`). Those with samples of one thread give it enough for one start
  more than `-uniform_count` allows (11 for a period of 3 and a count of 2, with the
  last block stepping over the count), and the other thread one instruction, to be left
  alone. `SampleAll` and the ranges give both threads enough for a second start, or for
  the whole length after the last count has been set. There are four ranges: started
  by an alarm of one thread, by `CONTROL_INIT`, by an alarm of each thread, so that
  the second start sets the counts again while the first thread scans them, and a
  range with a thread named after it. Blocks of up to two instructions step over a
  count. The accesses are recorded with `-skip` for all threads only, since the
  recorder does not look at the controller's state but for the flag of its thread;
  three accesses by two threads are enough for a line that is accessed by one, by the
  other, and again.

`NoLockCycle` is not true of every instance. Locks are taken in the order of the
lines, which the index of a set wraps around, so threads whose accesses cover
the whole table together can wait in a circle. With `NumSets` greater than
`NumThreads * (lines per access - 1)` they cannot: a circle needs each thread to
hold a set and wait for the next. The real table has 2^23 sets, and an access
spans a few lines. The run has 3 sets for 2 threads and 2 lines per access, the
smallest table that is large enough; the mutant with one set less deadlocks.

`UniformSamples` is about samples of one thread and assumes that a block is not longer than the period minus the
length. With longer blocks the alarm of the next start, which comes first in a
block, can set the length anew before the alarm of the stop has fired: the two
samples become one, and `-uniform_count` counts it once.

### Fairness

`FairSpec` of `SfpRecorder` assumes weak fairness of the steps of each thread
inside `RecordMem`, and of `Fini` once it runs: the operating system schedules a
thread that can run. Nothing forces the program to make another access, start a
thread or exit. The lock has no queue, so weak fairness alone would let a thread
spin for ever while others take the lock again and again; `AccessesComplete` holds because
the trace is bounded (`MaxTrace`), that is, for programs that make finitely many
accesses. It is not a claim about starvation in programs that never end.

`FairSpec` of `SfpScheduler` assumes weak fairness of the callbacks of each
thread. The counterexample of `list_cycle` is a thread that takes steps for ever.

The other modules state no fairness: their properties are about safety.

## Disagreements between the code and its comments

1. `anyk-sfp.cpp:217`. `raddr` is the base of the first line plus the size of the
   access; the comment above says it is the highest line touched. An access that
   does not start at the beginning of a line may end in a line that is not
   recorded. Run `straddling`. The instances of the other runs use accesses whose lines
   are computed correctly, so that they check everything else.
2. `sfp_list.H:57-62`. `set_front` links an element in front without unlinking
   it. `anytaskset-fp.cpp:265-268` calls `erase` first; `TSFPList::update`
   (`sfp-scheduler.cpp:42-45`) does not. The list becomes cyclic, the next
   `update` of the line never ends, and the lock that `sfp-scheduler.cpp:112`
   releases is held for ever. Run `list_cycle`.
3. `anyset-fp-compose.rb:134`. The script derives a pillar's length from the suffix of
   its file and the step option as `1 << (suffix << step)`; the recorder names
   the pillar of length `2^(l + 2i)` with `l + i`. The two agree with the step 1 of
   the usage text (line 12) only if the lowest pillar is 0; the text has `-l 10`.
   Run `pillar_lengths`. `thread_sets` uses the lowest pillar 0.
4. `anyset-fp-compose.rb:297`. After the last pillar the phase points at none; the
   comparison of the next row's length with it fails, and the script stops. The
   branch at line 306 shows that such rows were meant to be composed. Run
   `long_profile`.
5. `anytaskset-fp.cpp:199`. Lists are trimmed after 100000 ticks, pillars are up
   to 2^28 ticks long; windows that contain an access of a trimmed task go to
   the set without it, although a pillar is a length for which the tool measures
   "accurately" (lines 54-55). Run `trimmed_lists`.
6. `control.H:193`. `-skip N -length M` starts each thread after its own N
   instructions; the comment at lines 134-137 says that each stops after M. A
   start sets the one alarm of the length for all threads. Run `each_thread`.

Seen while modelling, without a run: if the thread that sets an
alarm is not the only one it is for, another may call the handler before it is
stored (`alarm.H:1003`; state `crashed` of the model, and `HandlersStored` for when),
as with `-skip N -length M`. `BuildSharingGraph` of `anyset-fp.cpp`
enumerates rows by the number of threads ever started (`:540`), not by that of
the ids, and reads past its arrays when more than `MAX_THREAD` were started.
Since a thread is stopped before the block with the Nth instruction of its
interval, `-length N` captures up to a block less than the N instructions of the
comment at `control.H:129`.

## Proofs

The theorems are about `SfpRecorder`, `AnySetRecorder`, `SetComposition`,
`ReadWriteRecorder`, `TaskSetRecorder`, `SfpScheduler`, `Controller` and `SharedData`
with arbitrary constants: any number of threads, lines and sets, any set of accesses within the
lines, any length of the trace, any pillars; any tasks, tokens and nesting of
tasks; any command lines, blocks and instructions. They use the assumptions named
in the modules: `ThreadIdAssumption`, `ThreadAssumption`, `SublogAssumption`,
`LineAssumption`, `ReadWriteAssumption`, `RecorderAssumption` (`NumThreads <= MAX_THREAD`,
accesses lie in the lines), `PillarAssumption`, `OptionAssumption`, `TaskSetAssumption` (a word
holds the readings of the clock); for the scheduler `TokenAssumption` and
`SchedulerAssumption` (the parents' ids are smaller than `MAX_TOKENS`); for the
controller `ControllerAssumption` (the command lines that `Activate` and the
parsing of the knobs accept: the samples exclude `-skip` but not `-length`, a period
is longer than its length, the first thread of a range is before its last; each knob
may name any thread or all of them) and `SharedDataAssumption`. TLC evaluates
them in every run of the module.

Some theorems have hypotheses of their own, which name what the code takes for
granted:

* `Aligned`: every access touches the lines that `RecordMem` goes over. It is
  what the run `straddling` refutes for accesses that are not aligned, and it
  holds for the accesses of every run that passes.
* `TraceFits`: the trace is shorter than the greatest value of a word, which is
  64 bits wide.
* `OptionsAgree`: the recorder's lowest pillar is 0, the script begins with it and
  takes the exponents to grow by two (`-p 1`), and there are not more pillars
  than the 36 files the script looks for; the recorder has 12. The run
  `pillar_lengths` shows what happens otherwise.
* `DeadlockFree` has one on the size of the table.

| Theorem | States |
|---|---|
| `SfpRecorderProofs!TypeCorrect` | `[]TypeOK` |
| `SfpRecorderProofs!MutualExclusion` | `[]LocksExclusive` |
| `SfpRecorderProofs!StampOrder` | `[]StampsInOrder` |
| `SfpRecorderProofs!SortedLists` | `[]ListsSorted` |
| `SfpRecorderProofs!WalkLevels` | `[]WalkCountsSharers` |
| `SfpRecorderProofs!NoUpdateLost` | `NoLostUpdate` |
| `SfpRecorderProofs!LevelBounds` | `[]LevelsInRange` |
| `SfpRecorderProofs!Refinement` | `RefinesRecencyTable` |
| `SfpRecorderProofs!DeadlockFree` | `[]NoLockCycle`, if `NumThreads * Span < NumSets` for accesses of up to `Span + 1` lines |
| `SfpRecorderProofs!ReportExact` | `[]ReportIsExact`, if `Aligned` and `TraceFits` |
| `RecorderLemmas!BucketBoundaries` | what `BoundariesExact` says, for every width of a word |
| `AnySetProofs!AnySetTypes` | `[]AnySetTypeOK` |
| `AnySetProofs!SharersCounted` | `[]WalksCountSharers` |
| `AnySetProofs!AnySetReport` | `[]ReportIsExact`, if `Aligned` and `TraceFits` |
| `AnySetProofs!SharingGraphExact` | `[]SharingGraphIsExact`, if `Aligned` |
| `AnySetProofs!ProportionBounds` | `[]ProportionsBounded`, for all options, if `TraceFits` |
| `AnySetProofs!ComposedExact` | `[]ComposedIsExact`, if `Aligned`, `TraceFits` and `OptionsAgree` |
| `ReadWriteProofs!TypeCorrect` | `[]TypeOK` |
| `ReadWriteProofs!ReadOnlyExact` | `[]ReadOnlyIsExact`, if `TraceFits` |
| `ReadWriteProofs!ReadWriteExact` | `[]ReadWriteIsExact`, if `TraceFits` |
| `TaskSetProofs!TypeCorrect` | `[]TypeOK` |
| `TaskSetProofs!LocksExclude` | `[]LocksInv`: who is at a row and at a list |
| `TaskSetProofs!OnceCounted` | `[]WindowsCountedOnce` |
| `SfpSchedulerProofs!SchedulerTypes` | `[]TypeOK`, if the parents' ids are smaller than `MAX_TOKENS` |
| `SfpSchedulerProofs!OwnToken` | `[]RecordsUnderOwnToken` |
| `SfpSchedulerProofs!SharedWhenFull` | `[]TokensShared` |
| `SfpSchedulerProofs!NoTokenLeaks` | `[]TokensReturned` |
| `SfpSchedulerProofs!ReadersAreSafe` | `MapStableForReaders` |
| `SfpSchedulerProofs!TimesNeverNegative` | `[]TimesInOrder` |
| `ControllerProofs!CallInvariant` | `[]CallInv`: where each thread is among its calls |
| `ControllerProofs!IntervalInvariant` | `[]IntervalInv`: counts, instructions and events |
| `ControllerProofs!TypeCorrect` | `[]TypeOK` |
| `ControllerProofs!SkipExact` | `[]StartsAfterSkip` |
| `ControllerProofs!LengthExact` | `[]StopsAfterLength` |
| `ControllerProofs!RangeComplete` | `[]RangeWaits` |
| `ControllerProofs!HandlersInTime` | `[]HandlersStored` |
| `ControllerProofs!SharedExact` | `[]SharedIsExact` |

The argument. None of the invariants is inductive alone, because each needs the
others to be true of the other threads:

* `TypeInv` is `TypeOK` with `PositionOK`, which ties `base_addr`, `cur_addr` and
  `tempN` to `pc`: a thread past `ReserveStamp` has locked all its lines.
* `SafeInv` adds four conjuncts. `LockOK`: the set of a locked line is marked,
  and belongs to one line of one thread. From it follows that nobody else touches
  a list while a thread works on its copy, which gives `WalkOK`: the copy equals
  the list, and the walk stands where `prev`, `iter` and `thd_count` say. With it
  `StoreStamps` moves the thread to the front of the *current* list, and
  `ListsSorted` and `StampOK` (all stamps a thread compares with are older than
  its own) are preserved. `StampOK` in turn needs that the stamp was taken after
  the locks.
* `RecorderLemmas` holds what this needs of one list: moving an element to the
  front keeps it sorted (`MoveSorted`); a step of a walk passes exactly one more
  stamp (`PassedGrows`, `PassedCount`).
* `RefInv` adds that only live threads record and that none is live when `Fini`
  runs. `ReserveStamp` maps to `Record` with the lines of the access, `Fini` to
  `Close`, all other steps to stutters; for `StoreStamps` that is because the line
  leaves `ToProfile` in the step that stores its stamp.
* `LevelInv` adds that the walk of `CollectLastAccesses` has passed as many
  stamps as it has counted; a level is then smaller than the number of threads.
* `AnySetProofs`: every step of the any-set recorder is a step of `SfpRecorder` or
  leaves its variables alone (the lemma `AnySetRecords`), which gives all the
  invariants above. `AnySetTypes` and `SharersCounted` strengthen them by where a
  walk over the pillars stands: `bitmap` is the set of the threads it has passed,
  `rpoint` lies between `low` and the stamp passed last. That the list is sorted
  (`ListsSorted`) and its stamps lie before the access (`StampsInOrder`) is what
  keeps the counts natural numbers, that is, the unsigned differences of the code
  from wrapping around.
* `ReportExact` is an equality of sums over lines and windows. For one line, level
  and window length, `RowOK` says what the counts are between two steps: each
  interval that a walk closes at level `k` stands for the windows that lie in it
  and so have at most `k` sharers, and what is counted so far are the windows to the
  left of the `(k+1)`-th last access, of the line's list or of the copy that a walk
  is working on. `StoreFew` is the step: an access moves this bound from one stamp
  to the next, and the windows between that end before the access are the few.
  `RecentMoved` says how the stamps of all levels move. A printed row adds buckets;
  `BucketBoundaries` shows that no bucket has lengths of both sides of its row.
* `SharingGraphExact`: `PillarOK` says that the count of a set in a pillar is the
  number of windows, over all lines, that have been left behind and that exactly
  this set shares. Each step of a walk adds the windows between two stamps, and
  these have the threads of `bitmap` and no other (`NewWindows`). `IdsOK`, that the
  ids in use are below the number of starts, is why `BuildSharingGraph` misses no
  set, although it enumerates by starts.
* `ProportionBounds` follows the phases of the script: from one row to the next the
  window at most doubles and from one pillar to the next it at least doubles, so that
  the phase never falls behind the row. `ComposedExact` combines `ReportExact` with
  `SharingGraphExact`: both count the same windows, one by the number of threads
  and one by the threads (`SumOfCounts`).
* `TaskSetProofs` proves what the walks of `SfpImpl` do for any list of stamps that
  is sorted, trimmed or not. A walk telescopes: the windows still to count plus
  those counted stay the same (`WalkOK`), so it adds `Closed`, the windows that end
  before the access and not before the last one, whatever sets it gives them to
  (`WalksExact`). Each turn meets an older element, so that the list ends within
  its `NumTasks` turns (`ElementsExact`); moving a task to the front keeps the list
  sorted also when the task was trimmed off before (`ToFrontSorted`). `ListsInv`
  has the clock: it is read under the lock of the set, so every time is later than
  all in its list (`TimeOK`), and there is room for those under way (`RoomOK`).
  `SumOK` then counts for each pillar: the global row plus the rows that live
  threads have not added yet (`Pending`) are the windows that end before the last
  access of each line (`Begun`). An access changes both by `Closed`; `AddRow` moves
  a row from one part to the other, because the lock of the row excludes all other
  threads between `ReadRow` and `AddRow` (`AddOK`). `Fini` adds the windows to the end
  of the trace, when nothing is pending, and each line has `N - length + 1`.
* `SfpSchedulerProofs`: `Inv` relates the program's stacks to the token manager.
  `Holders` are the tasks of a thread that hold a token, all but one between its
  start and `GetToken` or between `ReleaseToken` and its end. `TokenOK` says that
  each holder is in the set of the token in its descriptor, that a token's set has
  only holders of it, and that a thread which records has the token of its task's
  descriptor. It needs `StackOK` (no task is on two stacks or twice on one), so
  that the start or end of one task touches no other's token; `LockOK` (only the
  writer is in `GetToken` or `ReleaseToken`); and `DescOK` (task 0 is never
  running, so that a thread without a task never comes to the token). The type of
  a token rests on them too. `MinFree` proves that `get_token` finds a free token
  when there is one. `TimeOK`, on top of the types, gives the lock bytes' mutual
  exclusion and the order of the times.

* `DeadlockFree` counts. A thread that still waits holds at most `Span` sets in a
  row, the first of them that of `cur_addr` (`Reach`), so the waiting threads hold
  at most `NumThreads * Span` sets, and some set `x` is held by none of them
  (`SomeSetFree`). Count the sets upwards from `x`, once around the table (`After`):
  the sets of a thread in a circle do not cross `x`, so it waits above all that it
  holds (`WaitsAbove`). The thread that waits highest waits for a set that another
  one of the circle holds, and this one waits higher still. In the code the
  table has 2^23 sets and there are at most 32 threads, so that an access would have
  to span 2^18 lines for a circle.
* `ReadWriteProofs`: `Known` says what the recorder knows of a line after `N`
  accesses: the list has the last access of each thread (`Listed`), sorted, and
  `last_write` is the last write (`WrittenAt`). `Counts` adds what the tables have
  counted by then, line by line, although they hold sums over intervals of all
  lines in buckets. In the rows of all accesses these are the windows with at most
  `k` users that begin by the stamp of level `k` (`AllAt`); for reads, the windows
  that ended before the last write, less those that began after it and have at most
  `k` users (`ReadsAt`). The last write takes the part that the beginning of the
  trace has for the other rows, and both follow from the same lemmas about windows
  (`FewGrows`, `ManyCount`). A step of the proof has three parts. An access moves the
  stamps of the levels up to that of its thread (`AccessList`), and the windows
  between old and new stamps are those the intervals of the walk are worth
  (`WalkWorth`, `MovedShift`): met intervals, less those passed, cancel level by
  level, from the last write on in the walk of a read. A write instead counts all
  windows since the last one (`LeftWorth`). And a bucket loses nothing, as by
  `BucketBoundaries` an interval is in the buckets of a row exactly if it holds a
  window (`RowCounted`). At the end `CollectLastAccesses` adds the windows that are
  still open (`OpensWorth`); the intervals of different lines are told apart, so
  their sum can be taken line by line (`SumByParts`). Then the rows are the windows
  of the trace, and the third table is a difference of sizes of a set and a subset.
* `ControllerProofs`: `ControlSpec` is the controller alone, with whatever a thread
  does inside its blocks; that the recorder takes only its steps is a lemma. `CallInv`
  says where a thread is (`PlaceOf`): if a handler is being worked off, `work` is one
  of the lists that the handler of the alarm at this place can have left, a loop has
  come to an entry that it is for, and an alarm is armed only for threads it is for
  (`ArmedFor`). It is what makes the lists of statements a finite set of cases,
  and the proofs that follow a case per statement.
* `IntervalInv` adds the counts. The difficulty is that `ReadCount` and `StoreCount`
  are a read and a later write, and another thread's loop may set the count between
  them, or have set only some of the counts. `FirstInv` and `AloneInv` are the
  beginning: the first `CONTROL_INIT` runs before any block, while its thread is the
  only one. `SkipInv` puts each thread in one of three phases: not
  yet at its Nth instruction, with a count of exactly what is left; in the block that
  holds it, on the way to its start; past it, with the alarm disarmed.
  `LengthInv` does the same for a thread that starts and stops alone, where the
  count is relative to the block of the start.
* For a range several threads may set the counts, so `RangeInv` keeps a bound
  from below only (`Lag`): the count of a thread is at least M less the instructions
  it has executed since the alarm was first armed for it, whichever of the old and
  new counts a write has left there. It needs that the counts are set before the flags
  (`Fresh`), since a thread that is not armed counts nothing. `Sees` then says of
  a thread in the scan that those it has passed have come to their Mth
  instruction, which stays true whatever they write afterwards, and of one that
  disarms that all have.
* `StoredInv` is about the setter and those that could call its handler too early. A
  thread that is setting the alarm of a range for the first time has a count of M
  until it is done, because it does not count meanwhile and every write to its count
  is M (`Kept`); a scan of the range does not pass it (`Waits`); so whoever is at the
  call of the alarm while the handler is missing has an alarm that needs no one else
  to wait for, which is what `HandlersStored` allows (`Pending`).
* `SharedData`, in the same module: `SharedInv` relates the stamps to the accesses done so far:
  `LocksHeld` (a thread holds the sets of the lines it has still to store),
  `CopyOf` (its copy is the stamp in the table), and `StampOf` (the count of a stamp
  is the sum of the accesses written by all threads, it is shared when there are
  two of them, and otherwise names the only one). `SharedExact` is an equality of
  sums over lines and threads. `CountingLemmas` proves what it needs of sums
  without induction: a sum exists for every finite set, because a smallest
  counterexample would be a minimal set in a family of sets; two functions that
  satisfy the equation of a sum agree on all subsets for the same reason; a sum
  changes by what one term changes by.

Loops that the modules write as a recursive function over `0 .. n` (the walks, the
phases, the elements of a list) are proved by the lemmas at the end of
`CountingLemmas`: such a function exists and has the value of each turn
(`TurnsExist`), and what every turn keeps holds after all of them (`AllTurns`), by
a least counterexample.

Only model-checked:

* `SharingGraphIsExact` and `ReportIsExact` of `TaskSetRecorder`: which set a window
  is given to, for traces without an access that looks back too far.
* `UniformSamples` and `SamplesApart`: the alarms of a period, a length and the end
  in their order, through several samples.
* `RangeStops`: that a range which has come to its end is noticed by one of those that
  scan it.
* `AccessesComplete` and `LockReleased`: liveness is out of the prover's reach.
* `BoundariesExact` for the arrays of an 8-bit word; `BucketBoundaries` is the
  theorem about all widths.

## Not modelled

The repository is the whole Pin kit; the profiler is a small part of it. Of
some 264000 lines, headers of the instruction encoder, run-time and the example
tools of the kit are all but a few thousand. They are third-party code that the
profiler does not call, or, like the instrumentation library, calls through a
few functions; a model of them would say nothing about the profiler. What is
left out of the profiler itself, and of what it uses:

* Instrumentation (`Instruction`, `Trace`, `ImageLoad`): which instructions get a
  call, and the lookup of names; no state changes.
* Output formatting and the wall clock.
* Pin: external. What the tools see of it is modelled: the choice of thread ids,
  callbacks one at a time, events on their thread.
* `sfp_locality_desc.H`: `profile_length_to_index` gives 24, outside a row, for
  nearly every length; what the additions then do to memory has no model.
* The classes `histogram` of `histo.H`, and other code that nobody calls
  (`sfp_wait_flag`, `taskid_to_taskdesc`, `diff`).
* The controllers for addresses, symbols, marker instructions, thread starts and
  region files: the recorders only see their events, which `ThreadSupport` allows
  at any time.
* `InstFootprintStats` and `MyPinTool`: counters without concurrency of their own.
* A write outside an array: the models assume what keeps indices in range, and
  where the code has no check the hazard list says so.

## Plan

Done, in this order: `SublogHisto`, `StampList`, `ThreadSupport`, `SfpRecorder`
with `SharedFootprint` and `RecencyTable`, its proofs, `TokenManager`,
`SfpScheduler` with its proofs, `ReadWriteRecorder`, `AnySetRecorder` with its proofs,
`SetComposition`, `SfpList`, `TaskSetRecorder`, `Controller`, `SharedData` with their
proofs, the exactness of the reports of `SfpRecorder` and `AnySetRecorder` and of the
composed rows, the proofs about `TaskSetRecorder`, and the exactness of the tables of
`ReadWriteRecorder`.

Theorems worth proving next: `SharingGraphIsExact` of `TaskSetRecorder`, on top of
`SumOK`; `SamplesApart`, by a bound from below on the count of the period like that of
`RangeInv`; `UniformSamples`.
