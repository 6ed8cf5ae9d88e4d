----------------------------- MODULE SharedData -----------------------------
(***************************************************************************)
(* MyTests/test.cpp: the number of accesses N, and the number M of those   *)
(* to lines that more than one thread has accessed, over the interval that *)
(* the controller of InstLib chooses.                                      *)
(*                                                                         *)
(* A thread records its accesses within its basic blocks; what it does     *)
(* before a block is that of module Controller.                            *)
(***************************************************************************)
EXTENDS Controller, FiniteSets, FiniteSetsExt

CONSTANTS
  NumLines,    \* the lines 0 .. NumLines - 1 of the program
  NumSets,     \* MAP_SIZE + 1
  MaxSpan,     \* the most lines of an access
  MaxAccesses  \* MaxAccesses[k]: bound on N with the command line k

Lines == 0 .. NumLines - 1
Sets  == 0 .. NumSets - 1

ASSUME SharedDataAssumption ==
  /\ NumLines \in Nat \ {0} /\ NumSets \in Nat \ {0}
  /\ MaxSpan \in Nat \ {0} /\ MaxAccesses \in [Knobs -> Nat]

SetIndex(l) == l % NumSets

VARIABLES
  lock, stamps,  \* stamps: the lock of each set, the Stamp of each line
  N, M,
  \* local to RecordMem
  rec,           \* what the thread does next
  access,        \* the lines low .. high of its access, and the current one
  s,             \* its copy of a stamp
  \* history
  hits           \* hits[t][l]: the recorded accesses of thread t to line l

recordVars == <<lock, stamps, N, M, rec, access, s, hits>>

vars == <<controlVars, recordVars>>

Stamp == [tid |-> NIL, is_shared |-> FALSE, count |-> 0]

NoAccess == [low |-> 0, high |-> 0, base |-> 0]

Init ==
  /\ ControlInit
  /\ lock = [i \in Sets |-> 0]
  /\ stamps = [l \in Lines |-> Stamp]
  /\ N = 0 /\ M = 0
  /\ rec = [t \in Threads |-> "none"]
  /\ access = [t \in Threads |-> NoAccess]
  /\ s = [t \in Threads |-> Stamp]
  /\ hits = [t \in Threads |-> [l \in Lines |-> 0]]
-----------------------------------------------------------------------------
(***************************************************************************)
(* RecordMem.  Its loops take one line at a time.                          *)
(***************************************************************************)
Base(t) == access[t].base

AtLast(t) == Base(t) = access[t].high

Step(t, from, to) ==
  stage = "run" /\ rec[t] = from /\ rec' = [rec EXCEPT ![t] = to] /\ UNCHANGED controlVars

Begun == N + Cardinality({t \in Threads : rec[t] \in {"acquire", "count"}})

RecordMem(t) ==
  /\ pc[t] = "body"
  /\ Step(t, "none", "acquire")
  /\ tls[t] = "enabled"
  /\ Begun < MaxAccesses[knobs]
  /\ \E low, high \in Lines :
       /\ high - low \in 0 .. MaxSpan - 1
       /\ access' = [access EXCEPT ![t] = [low |-> low, high |-> high, base |-> low]]
       /\ hits' = [hits EXCEPT ![t] = [l \in Lines |->
                     IF l \in low .. high THEN @[l] + 1 ELSE @[l]]]
  /\ UNCHANGED <<lock, stamps, N, M, s>>

\* Mutant: the lock is not looked at.
Unlooked(i) == i \in Sets

Unlocked(i) == lock[i] = 0

LockAcquire(t) ==
  /\ Step(t, "acquire", IF AtLast(t) THEN "count" ELSE "acquire")
  /\ Unlocked(SetIndex(Base(t)))
  /\ lock' = [lock EXCEPT ![SetIndex(Base(t))] = 1]
  /\ access' = [access EXCEPT ![t].base = IF AtLast(t) THEN @ ELSE @ + 1]
  /\ UNCHANGED <<stamps, N, M, s, hits>>

\* The atomic addition.
CountAccess(t) ==
  /\ Step(t, "count", "read")
  /\ N' = N + 1
  /\ access' = [access EXCEPT ![t].base = access[t].low]
  /\ UNCHANGED <<lock, stamps, M, s, hits>>

ReadStamp(t) ==
  /\ Step(t, "read", "write")
  /\ s' = [s EXCEPT ![t] = stamps[Base(t)]]
  /\ UNCHANGED <<lock, stamps, N, M, access, hits>>

\* The line has been accessed, and last by another thread.
OtherThread(x, t) == x.tid >= 0 /\ x.tid # t

\* The stamp is written back, and the lock of the line released.
WriteStamp(t) ==
  /\ Step(t, "write", IF AtLast(t) THEN "none" ELSE "read")
  /\ stamps' = [stamps EXCEPT ![Base(t)] =
       [tid |-> t, is_shared |-> s[t].is_shared \/ OtherThread(s[t], t), count |-> s[t].count + 1]]
  /\ lock' = [lock EXCEPT ![SetIndex(Base(t))] = 0]
  /\ access' = [access EXCEPT ![t] =
       IF AtLast(t) THEN NoAccess ELSE [access[t] EXCEPT !.base = Base(t) + 1]]
  /\ s' = [s EXCEPT ![t] = Stamp]
  /\ UNCHANGED <<N, M, hits>>

Recording(t) == LockAcquire(t) \/ CountAccess(t) \/ ReadStamp(t) \/ WriteStamp(t)
-----------------------------------------------------------------------------
\* The calls before a block, and its end once no access is being recorded.
Running(t) ==
  /\ Calls(t) \/ StartThread(t) \/ ExitThread(t) \/ (rec[t] = "none" /\ LeaveBlock(t))
  /\ UNCHANGED recordVars

CollectLastAccesses ==
  MapThenSumSet(LAMBDA l : IF stamps[l].is_shared THEN stamps[l].count ELSE 0, Lines)

Fini ==
  /\ ControlFini
  /\ M' = CollectLastAccesses
  /\ UNCHANGED <<lock, stamps, N, rec, access, s, hits>>

\* The process is gone.
Terminated == stage # "run" /\ UNCHANGED vars

Next ==
  \/ \E t \in Threads : Running(t) \/ RecordMem(t) \/ Recording(t)
  \/ Fini \/ Terminated

Spec == Init /\ [][Next]_vars
-----------------------------------------------------------------------------
(***************************************************************************)
(* Properties.                                                             *)
(***************************************************************************)
StampRecords == [tid : Threads \cup {NIL}, is_shared : BOOLEAN, count : Nat]

\* Every variable has its type.
TypeOK ==
  /\ ControlTypeOK
  /\ lock \in [Sets -> {0, 1}]
  /\ stamps \in [Lines -> StampRecords]
  /\ N \in 0 .. MaxAccesses[knobs] /\ M \in Nat
  /\ rec \in [Threads -> {"none", "acquire", "count", "read", "write"}]
  /\ access \in [Threads -> [low : Lines, high : Lines, base : Lines]]
  /\ s \in [Threads -> StampRecords]
  /\ hits \in [Threads -> [Lines -> Nat]]

\* The threads that have accessed a line, and all their accesses to it.
Accessors(l) == {t \in Threads : hits[t][l] > 0}
Accesses(l)  == MapThenSumSet(LAMBDA t : hits[t][l], Threads)

\* At the end M is the number of accesses to the lines that more than one
\* thread has accessed, those before the second thread came included, although
\* a line only knows its last thread and the threads start, stop and record at
\* any time.
SharedIsExact ==
  stage = "done" =>
    M = MapThenSumSet(LAMBDA l : IF Cardinality(Accessors(l)) > 1 THEN Accesses(l) ELSE 0, Lines)
=============================================================================
