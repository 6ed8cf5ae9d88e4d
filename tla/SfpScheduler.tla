---------------------------- MODULE SfpScheduler ----------------------------
(***************************************************************************)
(* sfp-scheduler.cpp: the profiler of tasks.  The program announces its    *)
(* tasks by calling SFP_TaskStart, SFP_TaskEnd and SFP_GetTaskIDAddr,      *)
(* which the tool replaces.  Each access of a running task is recorded in  *)
(* the list of its line under the token of the task.                       *)
(*                                                                         *)
(* The token manager has a lock of its own; the descriptor of a task and   *)
(* its token are also used after that lock is released.                    *)
(***************************************************************************)
EXTENDS TokenManager, SfpList, Sequences

CONSTANTS
  Parents,    \* the parent ids that the program passes to SFP_TaskStart
  NumLines,   \* the lines 0 .. NumLines - 1 of the program
  nTotalSets, \* the sets of the stamp table
  MaxDepth,   \* bound on the tasks nested in one thread
  MaxTime     \* bound on the reads of the time stamp counter

Lines == 0 .. NumLines - 1
Sets  == 0 .. nTotalSets - 1

\* A parent's id is used as a token when all tokens are taken; an id beyond
\* the tokens would index past the end of task_stack.
ASSUME SchedulerAssumption ==
  /\ Parents \subseteq Tokens
  /\ NumLines \in Nat \ {0} /\ nTotalSets \in Nat \ {0}
  /\ MaxDepth \in Nat /\ MaxTime \in Nat

VARIABLES
  \* the program
  stack,      \* stack[t]: the tasks thread t has started and not ended
  arg,        \* arg[t]: the parent passed to the running SFP_TaskStart
  \* thread-local data
  inspect,    \* taskid_inspect_enabled
  \* the stamp table
  lock,       \* the lock byte of each set
  list,       \* the TSFPList of each line
  clock,      \* the time stamp counter
  \* local to the callbacks of each thread
  pc, line, current_token, now, curr,
  \* history
  crowded     \* the tasks that have started when no token was free

programVars == <<stack, arg, inspect>>
stampVars   == <<lock, list, clock>>
localVars   == <<line, current_token, now, curr>>

vars == <<tokenVars, programVars, stampVars, localVars, pc, crowded>>

\* The task at the top of the thread's stack, whose id the program stores at
\* the address it has given to the tool; 0 when it runs none.
current_taskid(t) == IF stack[t] = <<>> THEN 0 ELSE Head(stack[t])

Started == UNION {{stack[t][i] : i \in DOMAIN stack[t]} : t \in Threads}

SetIndex(l) == l % nTotalSets

\* The lock bytes are not initialised by the table's constructor; memory of
\* that size comes zeroed from the system.
Init == /\ TokenInit
        /\ stack   = [t \in Threads |-> <<>>]
        /\ arg     = [t \in Threads |-> 0]
        /\ inspect = [t \in Threads |-> FALSE]
        /\ lock    = [i \in Sets |-> 0]
        /\ list    = [l \in Lines |-> TList(Tokens)]
        /\ clock   = 0
        /\ pc      = [t \in Threads |-> "idle"]
        /\ line    = [t \in Threads |-> 0]
        /\ current_token = [t \in Threads |-> 0]
        /\ now     = [t \in Threads |-> 0]
        /\ curr    = [t \in Threads |-> NIL]
        /\ crowded = {}

Goto(t, from, to) == pc[t] = from /\ pc' = [pc EXCEPT ![t] = to]
-----------------------------------------------------------------------------
(***************************************************************************)
(* The calls of the program.                                               *)
(***************************************************************************)

\* SFP_GetTaskIDAddr, replaced by StoreTaskIDAddr.
StoreTaskIDAddr(t) ==
  /\ pc[t] = "idle"
  /\ inspect' = [inspect EXCEPT ![t] = TRUE]
  /\ UNCHANGED <<tokenVars, stack, arg, stampVars, localVars, pc, crowded>>

\* SFP_TaskStart, of a task that is not started.
CallStart(t) ==
  /\ Goto(t, "idle", "start")
  /\ Len(stack[t]) < MaxDepth
  /\ \E u \in Tasks \ Started, p \in Parents :
       /\ stack' = [stack EXCEPT ![t] = <<u>> \o @]
       /\ arg' = [arg EXCEPT ![t] = p]
  /\ UNCHANGED <<tokenVars, inspect, stampVars, localVars, crowded>>

\* SFP_TaskEnd, of the task the thread has started last.
CallEnd(t) ==
  /\ Goto(t, "idle", "end")
  /\ stack[t] # <<>>
  /\ UNCHANGED <<tokenVars, programVars, stampVars, localVars, crowded>>

\* An access to memory off the stack: InstructionExec, which returns at once
\* unless the thread has registered the address of its task id.
InstructionExec(t) ==
  /\ Goto(t, "idle", "exec")
  /\ inspect[t]
  /\ \E l \in Lines : line' = [line EXCEPT ![t] = l]
  /\ UNCHANGED <<tokenVars, programVars, stampVars, current_token, now, curr, crowded>>
-----------------------------------------------------------------------------
(***************************************************************************)
(* BeforeTaskStart and BeforeTaskEnd.                                      *)
(***************************************************************************)
WriteLockForStart(t) ==
  /\ Goto(t, "start", "get")
  /\ WriteLock(t)
  /\ UNCHANGED <<taskdesc_map, task_stack, programVars, stampVars, localVars, crowded>>

\* Under the lock the task gets its descriptor and a token.  The parent of
\* its previous start is what get_token falls back to.
GetToken(t) ==
  /\ Goto(t, "get", "enable")
  /\ LET u  == current_taskid(t)
         td == get_task_descriptor(u)
         k  == TokenFor(td.parent)
     IN  /\ task_stack' = [task_stack EXCEPT ![k] = @ \cup {u}]
         /\ taskdesc_map' = WithTask(u, [td EXCEPT !.token = k])
         /\ crowded' = IF FreeTokens = {} THEN crowded \cup {u} ELSE crowded
  /\ Unlock(t)
  /\ UNCHANGED <<programVars, stampVars, localVars>>

\* The rest of the start, without the lock.
EnableTask(t) ==
  /\ Goto(t, "enable", "idle")
  /\ LET u == current_taskid(t)
     IN  taskdesc_map' = [taskdesc_map EXCEPT ![u].parent = arg[t],
                                              ![u].instrument_enabled = TRUE]
  /\ arg' = [arg EXCEPT ![t] = 0]
  /\ UNCHANGED <<task_stack, readers, writer, stack, inspect, stampVars, localVars, crowded>>

WriteLockForEnd(t) ==
  /\ Goto(t, "end", "release")
  /\ WriteLock(t)
  /\ UNCHANGED <<taskdesc_map, task_stack, programVars, stampVars, localVars, crowded>>

ReleaseToken(t) ==
  /\ Goto(t, "release", "disable")
  /\ LET u == current_taskid(t)
     IN  /\ task_stack' = release_token(get_task_descriptor(u).token, u)
         /\ taskdesc_map' = WithTask(u, get_task_descriptor(u))
         /\ crowded' = crowded \ {u}
  /\ Unlock(t)
  /\ UNCHANGED <<programVars, stampVars, localVars>>

\* The task stops counting as running; the program goes back to the task it
\* has interrupted.
DisableTask(t) ==
  /\ Goto(t, "disable", "idle")
  /\ taskdesc_map' = [taskdesc_map EXCEPT ![current_taskid(t)].instrument_enabled = FALSE]
  /\ stack' = [stack EXCEPT ![t] = Tail(@)]
  /\ UNCHANGED <<task_stack, readers, writer, arg, inspect, stampVars, localVars, crowded>>
-----------------------------------------------------------------------------
(***************************************************************************)
(* InstructionExec, once past its first two tests.                         *)
(***************************************************************************)
ReadLockManager(t) ==
  /\ Goto(t, "exec", "check")
  /\ ReadLock(t)
  /\ UNCHANGED <<taskdesc_map, task_stack, programVars, stampVars, localVars, crowded>>

\* Is the current task running?  Either way the manager's lock is released.
CheckRunning(t) ==
  /\ pc[t] = "check"
  /\ pc' = [pc EXCEPT ![t] = IF is_task_running(current_taskid(t)) THEN "token" ELSE "idle"]
  /\ Unlock(t)
  /\ UNCHANGED <<taskdesc_map, task_stack, programVars, stampVars, localVars, crowded>>

\* The token is read from the descriptor without the lock.
ReadToken(t) ==
  /\ Goto(t, "token", "lock")
  /\ current_token' = [current_token EXCEPT ![t] = taskdesc_map[current_taskid(t)].token]
  /\ UNCHANGED <<tokenVars, programVars, stampVars, line, now, curr, crowded>>

\* Mutant: the lock byte is not looked at.
Unchecked(i) == i \in Sets

Unlocked(i) == lock[i] = 0

LockSet(t) ==
  /\ Goto(t, "lock", "clock")
  /\ Unlocked(SetIndex(line[t]))
  /\ lock' = [lock EXCEPT ![SetIndex(line[t])] = 1]
  /\ UNCHANGED <<tokenVars, programVars, list, clock, localVars, crowded>>

\* The time of the access; TSFPList::update starts its walk at the head.
ReadClock(t) ==
  /\ Goto(t, "clock", "walk")
  /\ clock < MaxTime
  /\ clock' = clock + 1
  /\ now' = [now EXCEPT ![t] = clock + 1]
  /\ curr' = [curr EXCEPT ![t] = list[line[t]].head]
  /\ UNCHANGED <<tokenVars, programVars, lock, list, line, current_token, crowded>>

\* The walk passes an element and counts its interval.
Walk(t) ==
  /\ pc[t] = "walk"
  /\ curr[t] # NIL
  /\ curr' = [curr EXCEPT ![t] = list[line[t]].next[@]]
  /\ UNCHANGED <<tokenVars, programVars, stampVars, line, current_token, now, pc, crowded>>

\* The walk has come to the end: the token gets the time and goes in front.
SetFront(t) ==
  /\ Goto(t, "walk", "unlock")
  /\ curr[t] = NIL
  /\ list' = [list EXCEPT ![line[t]] =
                set_front(set_at(@, current_token[t], now[t]), current_token[t])]
  /\ UNCHANGED <<tokenVars, programVars, lock, clock, localVars, crowded>>

UnlockSet(t) ==
  /\ Goto(t, "unlock", "idle")
  /\ lock' = [lock EXCEPT ![SetIndex(line[t])] = 0]
  /\ line' = [line EXCEPT ![t] = 0]
  /\ current_token' = [current_token EXCEPT ![t] = 0]
  /\ now' = [now EXCEPT ![t] = 0]
  /\ UNCHANGED <<tokenVars, programVars, list, clock, curr, crowded>>
-----------------------------------------------------------------------------
Callback(t) ==
  \/ WriteLockForStart(t) \/ GetToken(t) \/ EnableTask(t)
  \/ WriteLockForEnd(t) \/ ReleaseToken(t) \/ DisableTask(t)
  \/ ReadLockManager(t) \/ CheckRunning(t) \/ ReadToken(t)
  \/ LockSet(t) \/ ReadClock(t) \/ Walk(t) \/ SetFront(t) \/ UnlockSet(t)

Next == \E t \in Threads :
          \/ StoreTaskIDAddr(t) \/ CallStart(t) \/ CallEnd(t) \/ InstructionExec(t)
          \/ Callback(t)

Spec == Init /\ [][Next]_vars

\* A thread inside a callback is scheduled again and again.
FairSpec == Spec /\ \A t \in Threads : WF_vars(Callback(t))
-----------------------------------------------------------------------------
(***************************************************************************)
(* Properties.                                                             *)
(***************************************************************************)
PcLabels == {"idle", "start", "get", "enable", "end", "release", "disable",
             "exec", "check", "token", "lock", "clock", "walk", "unlock"}

\* Every variable has its type, if the parents that the program passes can be
\* tokens.
TypeOK ==
  /\ TokenTypeOK
  /\ stack \in [Threads -> Seq(Tasks)]
  /\ arg \in [Threads -> Parents \cup {0}]
  /\ inspect \in [Threads -> BOOLEAN]
  /\ lock \in [Sets -> {0, 1}]
  /\ list \in [Lines -> TLists(Tokens)]
  /\ clock \in Nat
  /\ pc \in [Threads -> PcLabels]
  /\ line \in [Threads -> Lines]
  /\ current_token \in [Threads -> Tokens]
  /\ now \in [Threads -> Nat]
  /\ curr \in [Threads -> Tokens \cup {NIL}]
  /\ crowded \subseteq Tasks

\* The token a thread records under, read when no lock was held any more, is
\* still held by its task: another thread that ends a task and one that
\* starts a task cannot take it away meanwhile.
RecordsUnderOwnToken ==
  \A t \in Threads :
    pc[t] \in {"lock", "clock", "walk"} => current_taskid(t) \in task_stack[current_token[t]]

\* Two tasks hold the same token only when one of them started while all the
\* tokens were taken.
TokensShared ==
  \A k \in Tokens : \A u, v \in task_stack[k] : u # v => u \in crowded \/ v \in crowded

\* No token leaks: a task holds a token from its start to its end, and just
\* the one in its descriptor.
TokensReturned ==
  /\ \A k \in Tokens : task_stack[k] \subseteq Started
  /\ \A k \in Tokens : \A u \in task_stack[k] : taskdesc_map[u].token = k

\* Nobody adds a descriptor or moves a token while another thread reads the
\* map under the read lock: BeforeTaskStart and BeforeTaskEnd wait.
MapStableForReaders ==
  [][readers # {} => UNCHANGED <<DOMAIN taskdesc_map, task_stack>>]_vars

\* The times in a list are earlier than that of the access being recorded in
\* it, so the interval lengths now - e.time are never negative.
TimesInOrder ==
  \A t \in Threads, k \in Tokens :
    pc[t] = "walk" => list[line[t]].time[k] < now[t]

\* "release lock": every access whose set is locked releases it in the end.
LockReleased == \A t \in Threads : pc[t] = "walk" ~> pc[t] = "idle"
=============================================================================
