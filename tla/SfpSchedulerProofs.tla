------------------------- MODULE SfpSchedulerProofs -------------------------
(***************************************************************************)
(* The tokens and the times of SfpScheduler, for every number of threads,  *)
(* tasks, tokens, lines and sets, and any nesting of the tasks.            *)
(***************************************************************************)
EXTENDS SfpScheduler, CountingLemmas

-----------------------------------------------------------------------------
(***************************************************************************)
(* The search for a free token, and stacks of tasks.                       *)
(***************************************************************************)

\* The first of the free tokens is a free token.
LEMMA MinFree ==
  ASSUME NEW S, S \subseteq Nat, S # {}
  PROVE  Min(S) \in S
BY LeastElement DEF Min

\* A token is free if there is one, and any other token if there is none.
LEMMA TokenFacts ==
  ASSUME NEW p \in Tokens
  PROVE  /\ TokenFor(p) \in Tokens
         /\ FreeTokens # {} => task_stack[TokenFor(p)] = {}
<1>1. FreeTokens \subseteq Nat /\ FreeTokens \subseteq Tokens
  BY TokenAssumption DEF FreeTokens, Tokens
<1>2. FreeTokens # {} => Min(FreeTokens) \in FreeTokens
  BY <1>1, MinFree
<1>. QED
  BY <1>1, <1>2 DEF TokenFor, FreeTokens

\* The index of a line's set is in the table.
LEMMA SetIndexType == \A l \in Nat : SetIndex(l) \in Sets
BY SchedulerAssumption DEF SetIndex, Sets

\* The tasks of a stack, and those below its top.
Elems(s) == {s[i] : i \in 1 .. Len(s)}
Rest(s)  == {s[i] : i \in 2 .. Len(s)}

Distinct(s) == \A i, j \in 1 .. Len(s) : s[i] = s[j] => i = j

\* A task on top of a stack.
LEMMA PushFacts ==
  ASSUME NEW S, NEW s \in Seq(S), NEW u \in S
  PROVE  /\ <<u>> \o s \in Seq(S) /\ <<u>> \o s # <<>>
         /\ Elems(<<u>> \o s) = Elems(s) \cup {u}
         /\ Rest(<<u>> \o s) = Elems(s)
         /\ Distinct(s) /\ u \notin Elems(s) => Distinct(<<u>> \o s)
<1>. DEFINE v == <<u>> \o s
<1>1. /\ v \in Seq(S) /\ v # <<>>
      /\ Len(v) = Len(s) + 1 /\ Len(s) \in Nat
      /\ v[1] = u
      /\ \A i \in 2 .. Len(s) + 1 : v[i] = s[i - 1]
  OBVIOUS
<1>. HIDE DEF v
<1>2. Rest(v) = Elems(s)
  <2>1. \A i \in 1 .. Len(s) : i + 1 \in 2 .. Len(v) /\ v[i + 1] = s[i]
    BY <1>1
  <2>2. \A i \in 2 .. Len(v) : i - 1 \in 1 .. Len(s) /\ v[i] = s[i - 1]
    BY <1>1
  <2>3. Elems(s) \subseteq Rest(v)
    BY <2>1 DEF Rest, Elems
  <2>4. Rest(v) \subseteq Elems(s)
    BY <2>2 DEF Rest, Elems
  <2>. QED
    BY <2>3, <2>4
<1>3. Elems(v) = Rest(v) \cup {u}
  <2>1. 1 .. Len(v) = {1} \cup 2 .. Len(v)
    BY <1>1
  <2>. QED
    BY <1>1, <2>1 DEF Rest, Elems
<1>4. ASSUME Distinct(s), u \notin Elems(s)
      PROVE  Distinct(v)
  <2>1. \A i \in 2 .. Len(v) : i - 1 \in 1 .. Len(s) /\ v[i] = s[i - 1] /\ v[i] # u
    BY <1>1, <1>4 DEF Elems
  <2>2. ASSUME NEW i \in 2 .. Len(v), NEW j \in 2 .. Len(v), v[i] = v[j]
        PROVE  i = j
    <3>1. i - 1 \in 1 .. Len(s) /\ j - 1 \in 1 .. Len(s) /\ s[i - 1] = s[j - 1]
      BY <2>1, <2>2
    <3>2. i - 1 = j - 1
      BY <1>4, <3>1 DEF Distinct
    <3>. QED
      BY <3>2
  <2>. QED
    BY <1>1, <2>1, <2>2 DEF Distinct
<1>. QED
  BY <1>1, <1>2, <1>3, <1>4 DEF v

\* A stack without its top.
LEMMA PopFacts ==
  ASSUME NEW S, NEW s \in Seq(S), s # <<>>
  PROVE  /\ Head(s) \in S /\ Tail(s) \in Seq(S)
         /\ Elems(s) = Rest(s) \cup {Head(s)}
         /\ Elems(Tail(s)) = Rest(s)
         /\ Distinct(s) => Head(s) \notin Rest(s) /\ Distinct(Tail(s))
<1>. DEFINE v == Tail(s)
<1>0. Len(s) \in Nat \ {0} /\ Head(s) = s[1] /\ s[1] \in S
  OBVIOUS
<1>1. /\ v \in Seq(S)
      /\ Len(v) = Len(s) - 1
      /\ \A i \in 1 .. Len(s) - 1 : v[i] = s[i + 1]
  OBVIOUS
<1>. HIDE DEF v
<1>2. Elems(s) = Rest(s) \cup {s[1]}
  <2>1. 1 .. Len(s) = {1} \cup 2 .. Len(s)
    BY <1>0, <1>1
  <2>. QED
    BY <1>0, <1>1, <2>1 DEF Rest, Elems
<1>3. Elems(v) = Rest(s)
  <2>1. \A i \in 1 .. Len(v) : i + 1 \in 2 .. Len(s) /\ v[i] = s[i + 1]
    BY <1>0, <1>1
  <2>2. \A i \in 2 .. Len(s) : i - 1 \in 1 .. Len(v) /\ v[i - 1] = s[i]
    BY <1>0, <1>1
  <2>. QED
    BY <2>1, <2>2 DEF Rest, Elems
<1>4. ASSUME Distinct(s)
      PROVE  s[1] \notin Rest(s) /\ Distinct(v)
  <2>1. \A i \in 2 .. Len(s) : s[i] # s[1]
    BY <1>0, <1>1, <1>4 DEF Distinct
  <2>2. Distinct(v)
    BY <1>0, <1>1, <1>4 DEF Distinct
  <2>. QED
    BY <2>1, <2>2 DEF Rest
<1>. QED
  BY <1>0, <1>1, <1>2, <1>3, <1>4 DEF v
-----------------------------------------------------------------------------
(***************************************************************************)
(* The inductive invariant.                                                *)
(***************************************************************************)

\* Task 0 is never running, and parents are tokens.
DescOK ==
  /\ 0 \in DOMAIN taskdesc_map /\ ~ taskdesc_map[0].instrument_enabled
  /\ \A u \in DOMAIN taskdesc_map : taskdesc_map[u].parent \in Tokens

\* No task is started twice, and the callbacks that use a task have one.
StackOK ==
  /\ \A t \in Threads : Distinct(stack[t])
  /\ \A t1, t2 \in Threads : t1 # t2 => Elems(stack[t1]) \cap Elems(stack[t2]) = {}
  /\ \A t \in Threads : pc[t] \notin {"idle", "exec", "check"} => stack[t] # <<>>

\* The write lock excludes readers and other writers.
LockOK ==
  /\ \A t \in Threads : pc[t] \in {"get", "release"} => writer = t
  /\ writer # NIL => readers = {}

\* The tasks of a thread that hold a token: all but the one that is just
\* starting or ending.
Holders(t) ==
  IF pc[t] \in {"start", "get", "disable"} THEN Rest(stack[t]) ELSE Elems(stack[t])

\* A task holds the token of its descriptor from its start to its end, and no
\* other; a thread that records has read the token of its task.
TokenOK ==
  /\ \A t \in Threads : \A u \in Holders(t) :
       u \in DOMAIN taskdesc_map /\ u \in task_stack[taskdesc_map[u].token]
  /\ \A k \in Tokens : \A u \in task_stack[k] :
       /\ u \in DOMAIN taskdesc_map /\ taskdesc_map[u].token = k
       /\ \E t \in Threads : u \in Holders(t)
  /\ \A t \in Threads : pc[t] \in {"lock", "clock", "walk"} =>
       current_token[t] = taskdesc_map[current_taskid(t)].token

Inv == TypeOK /\ DescOK /\ StackOK /\ LockOK /\ TokenOK /\ TokensShared
-----------------------------------------------------------------------------
(***************************************************************************)
(* Types and descriptors.                                                  *)
(***************************************************************************)

\* The running task is a task of the thread's stack, and not task 0.
LEMMA TopFacts ==
  ASSUME TypeOK, NEW t \in Threads, stack[t] # <<>>
  PROVE  /\ current_taskid(t) = Head(stack[t])
         /\ current_taskid(t) \in Elems(stack[t])
         /\ current_taskid(t) \in Tasks \ {0}
         /\ Elems(stack[t]) = Rest(stack[t]) \cup {current_taskid(t)}
<1>1. stack[t] \in Seq(Tasks)
  BY DEF TypeOK
<1>2. Head(stack[t]) \in Tasks /\ Elems(stack[t]) = Rest(stack[t]) \cup {Head(stack[t])}
  BY <1>1, PopFacts
<1>. QED
  BY <1>2, TokenAssumption DEF current_taskid

\* The descriptor of a task, with the parent of a previous start.
LEMMA DescriptorFacts ==
  ASSUME TypeOK, DescOK, NEW u
  PROVE  get_task_descriptor(u) \in TTaskDesc /\ get_task_descriptor(u).parent \in Tokens
<1>1. NewTask \in TTaskDesc /\ NewTask.parent \in Tokens
  BY TokenAssumption DEF NewTask, TTaskDesc, Tokens
<1>. QED
  BY <1>1 DEF get_task_descriptor, TypeOK, TokenTypeOK, DescOK

\* The types of the token manager's map, with what is known of its entries.
MapOK ==
  /\ DOMAIN taskdesc_map \subseteq Tasks \cup {0}
  /\ \A u \in DOMAIN taskdesc_map : taskdesc_map[u] \in TTaskDesc
  /\ DescOK

\* A descriptor that is added or replaced.
LEMMA WithTaskFacts ==
  ASSUME TypeOK, DescOK, NEW u \in Tasks \ {0}, NEW td \in TTaskDesc, td.parent \in Tokens,
         taskdesc_map' = WithTask(u, td)
  PROVE  /\ MapOK'
         /\ DOMAIN taskdesc_map' = DOMAIN taskdesc_map \cup {u}
         /\ taskdesc_map'[u] = td
         /\ \A v \in DOMAIN taskdesc_map \ {u} : taskdesc_map'[v] = taskdesc_map[v]
BY DEF WithTask, MapOK, DescOK, TypeOK, TokenTypeOK

\* The fields of the running task's descriptor that BeforeTaskStart and
\* BeforeTaskEnd change without the lock.
LEMMA EnableFacts ==
  ASSUME TypeOK, DescOK, NEW u \in Tasks \ {0}, NEW p \in Tokens, NEW b \in BOOLEAN,
         \/ taskdesc_map' = [taskdesc_map EXCEPT ![u].parent = p, ![u].instrument_enabled = b]
         \/ taskdesc_map' = [taskdesc_map EXCEPT ![u].instrument_enabled = b]
  PROVE  /\ MapOK'
         /\ DOMAIN taskdesc_map' = DOMAIN taskdesc_map
         /\ \A v \in DOMAIN taskdesc_map : taskdesc_map'[v].token = taskdesc_map[v].token
<1>1. DOMAIN taskdesc_map' = DOMAIN taskdesc_map /\ Tokens \subseteq Nat
  BY TokenAssumption DEF Tokens
<1>2. \A v \in DOMAIN taskdesc_map \ {u} : taskdesc_map'[v] = taskdesc_map[v]
  OBVIOUS
<1>3. ASSUME u \in DOMAIN taskdesc_map
      PROVE  /\ taskdesc_map'[u] \in TTaskDesc
             /\ taskdesc_map'[u].parent \in Tokens
             /\ taskdesc_map'[u].token = taskdesc_map[u].token
  <2>1. taskdesc_map[u] \in TTaskDesc /\ taskdesc_map[u].parent \in Tokens
    BY <1>3 DEF TypeOK, TokenTypeOK, DescOK
  <2>2. \/ taskdesc_map'[u] = [taskdesc_map[u] EXCEPT !.parent = p, !.instrument_enabled = b]
        \/ taskdesc_map'[u] = [taskdesc_map[u] EXCEPT !.instrument_enabled = b]
    BY <1>3
  <2>. QED
    BY <1>1, <2>1, <2>2 DEF TTaskDesc
<1>. QED
  BY <1>1, <1>2, <1>3 DEF MapOK, DescOK, TypeOK, TokenTypeOK

\* A list keeps its type when a token gets its time and goes in front.
LEMMA SetFrontType ==
  ASSUME NEW s \in TLists(Tokens), NEW k \in Tokens, NEW n \in Nat
  PROVE  /\ set_front(set_at(s, k, n), k) \in TLists(Tokens)
         /\ set_front(set_at(s, k, n), k).time = [s.time EXCEPT ![k] = n]
<1>. DEFINE v == set_at(s, k, n)
<1>1. v \in TLists(Tokens) /\ v.time = [s.time EXCEPT ![k] = n]
  BY DEF set_at, TLists
<1>. HIDE DEF v
<1>2. set_front(v, k) \in TLists(Tokens) /\ set_front(v, k).time = v.time
  BY <1>1 DEF set_front, TLists
<1>. QED
  BY <1>1, <1>2 DEF v

\* Every step keeps the types and the descriptors.
LEMMA TypeStep ==
  ASSUME Inv, [Next]_vars
  PROVE  TypeOK' /\ DescOK'
<1>. USE DEF Goto
<1>0. CASE UNCHANGED vars
  BY <1>0 DEF Inv, TypeOK, TokenTypeOK, DescOK, vars, tokenVars, programVars, stampVars, localVars
<1>1. ASSUME NEW t \in Threads, StoreTaskIDAddr(t)
      PROVE  TypeOK' /\ DescOK'
  BY <1>1 DEF StoreTaskIDAddr, Inv, TypeOK, TokenTypeOK, DescOK, tokenVars, stampVars, localVars
<1>2. ASSUME NEW t \in Threads, CallStart(t)
      PROVE  TypeOK' /\ DescOK'
  <2>1. PICK u \in Tasks : stack' = [stack EXCEPT ![t] = <<u>> \o stack[t]]
    BY <1>2 DEF CallStart
  <2>2. stack' \in [Threads -> Seq(Tasks)]
    BY <2>1, PushFacts DEF Inv, TypeOK
  <2>3. arg' \in [Threads -> Parents \cup {0}] /\ pc' \in [Threads -> PcLabels]
    BY <1>2 DEF CallStart, Inv, TypeOK, PcLabels
  <2>. QED
    BY <1>2, <2>2, <2>3
    DEF CallStart, Inv, TypeOK, TokenTypeOK, DescOK, tokenVars, stampVars, localVars
<1>3. ASSUME NEW t \in Threads, CallEnd(t)
      PROVE  TypeOK' /\ DescOK'
  BY <1>3
  DEF CallEnd, Inv, TypeOK, TokenTypeOK, DescOK, PcLabels, tokenVars, programVars, stampVars, localVars
<1>4. ASSUME NEW t \in Threads, InstructionExec(t)
      PROVE  TypeOK' /\ DescOK'
  BY <1>4
  DEF InstructionExec, Inv, TypeOK, TokenTypeOK, DescOK, PcLabels, tokenVars, programVars, stampVars
<1>5. ASSUME NEW t \in Threads, WriteLockForStart(t) \/ WriteLockForEnd(t)
      PROVE  TypeOK' /\ DescOK'
  BY <1>5
  DEF WriteLockForStart, WriteLockForEnd, WriteLock, Inv, TypeOK, TokenTypeOK, DescOK, PcLabels,
      programVars, stampVars, localVars
<1>6. ASSUME NEW t \in Threads, GetToken(t)
      PROVE  TypeOK' /\ DescOK'
  <2>. DEFINE u  == current_taskid(t)
              td == get_task_descriptor(u)
              k  == TokenFor(td.parent)
  <2>1. u \in Tasks \ {0}
    BY <1>6, TopFacts DEF GetToken, Inv, StackOK
  <2>2. td \in TTaskDesc /\ td.parent \in Tokens
    BY DescriptorFacts DEF Inv
  <2>3. k \in Tokens
    BY <2>2, TokenFacts
  <2>4. /\ task_stack' = [task_stack EXCEPT ![k] = @ \cup {u}]
        /\ taskdesc_map' = WithTask(u, [td EXCEPT !.token = k])
        /\ crowded' \subseteq crowded \cup {u}
    BY <1>6 DEF GetToken
  <2>. HIDE DEF u, td, k
  <2>5. [td EXCEPT !.token = k] \in TTaskDesc /\ [td EXCEPT !.token = k].parent \in Tokens
    BY <2>2, <2>3 DEF TTaskDesc
  <2>6. MapOK'
    BY <2>1, <2>4, <2>5, WithTaskFacts DEF Inv
  <2>7. task_stack' \in [Tokens -> SUBSET Tasks] /\ crowded' \subseteq Tasks
    BY <2>1, <2>3, <2>4 DEF Inv, TypeOK, TokenTypeOK
  <2>8. pc' \in [Threads -> PcLabels] /\ readers' \subseteq Threads /\ writer' \in Threads \cup {NIL}
    BY <1>6 DEF GetToken, Unlock, Inv, TypeOK, TokenTypeOK, PcLabels
  <2>. QED
    BY <1>6, <2>6, <2>7, <2>8
    DEF GetToken, MapOK, Inv, TypeOK, TokenTypeOK, programVars, stampVars, localVars
<1>7. ASSUME NEW t \in Threads, EnableTask(t)
      PROVE  TypeOK' /\ DescOK'
  <2>1. current_taskid(t) \in Tasks \ {0}
    BY <1>7, TopFacts DEF EnableTask, Inv, StackOK
  <2>2. arg[t] \in Tokens
    <3>1. 0 \in Tokens
      BY TokenAssumption DEF Tokens
    <3>. QED
      BY <3>1, SchedulerAssumption DEF Inv, TypeOK
  <2>3. MapOK'
    BY <1>7, <2>1, <2>2, EnableFacts DEF EnableTask, Inv
  <2>4. arg' \in [Threads -> Parents \cup {0}] /\ pc' \in [Threads -> PcLabels]
    BY <1>7 DEF EnableTask, Inv, TypeOK, PcLabels
  <2>. QED
    BY <1>7, <2>3, <2>4
    DEF EnableTask, MapOK, Inv, TypeOK, TokenTypeOK, stampVars, localVars
<1>8. ASSUME NEW t \in Threads, ReleaseToken(t)
      PROVE  TypeOK' /\ DescOK'
  <2>. DEFINE u  == current_taskid(t)
              td == get_task_descriptor(u)
  <2>1. u \in Tasks \ {0}
    BY <1>8, TopFacts DEF ReleaseToken, Inv, StackOK
  <2>2. td \in TTaskDesc /\ td.parent \in Tokens
    BY DescriptorFacts DEF Inv
  <2>3. MapOK'
    BY <1>8, <2>1, <2>2, WithTaskFacts DEF ReleaseToken, Inv
  <2>4. task_stack' \in [Tokens -> SUBSET Tasks] /\ crowded' \subseteq Tasks
    BY <1>8 DEF ReleaseToken, release_token, Inv, TypeOK, TokenTypeOK
  <2>5. pc' \in [Threads -> PcLabels] /\ readers' \subseteq Threads /\ writer' \in Threads \cup {NIL}
    BY <1>8 DEF ReleaseToken, Unlock, Inv, TypeOK, TokenTypeOK, PcLabels
  <2>. QED
    BY <1>8, <2>3, <2>4, <2>5
    DEF ReleaseToken, MapOK, Inv, TypeOK, TokenTypeOK, programVars, stampVars, localVars
<1>9. ASSUME NEW t \in Threads, DisableTask(t)
      PROVE  TypeOK' /\ DescOK'
  <2>1. stack[t] # <<>> /\ current_taskid(t) \in Tasks \ {0}
    BY <1>9, TopFacts DEF DisableTask, Inv, StackOK
  <2>2. 0 \in Tokens /\ FALSE \in BOOLEAN
    BY TokenAssumption DEF Tokens
  <2>3. MapOK'
    BY <1>9, <2>1, <2>2, EnableFacts DEF DisableTask, Inv
  <2>4. stack' \in [Threads -> Seq(Tasks)]
    BY <1>9, <2>1, PopFacts DEF DisableTask, Inv, TypeOK
  <2>5. pc' \in [Threads -> PcLabels]
    BY <1>9 DEF DisableTask, Inv, TypeOK, PcLabels
  <2>. QED
    BY <1>9, <2>3, <2>4, <2>5
    DEF DisableTask, MapOK, Inv, TypeOK, TokenTypeOK, stampVars, localVars
<1>10. ASSUME NEW t \in Threads, ReadLockManager(t)
       PROVE  TypeOK' /\ DescOK'
  BY <1>10
  DEF ReadLockManager, ReadLock, Inv, TypeOK, TokenTypeOK, DescOK, PcLabels,
      programVars, stampVars, localVars
<1>11. ASSUME NEW t \in Threads, CheckRunning(t)
       PROVE  TypeOK' /\ DescOK'
  BY <1>11
  DEF CheckRunning, Unlock, Inv, TypeOK, TokenTypeOK, DescOK, PcLabels,
      programVars, stampVars, localVars
<1>12. ASSUME NEW t \in Threads, ReadToken(t)
       PROVE  TypeOK' /\ DescOK'
  <2>1. current_taskid(t) \in DOMAIN taskdesc_map
    BY <1>12, TopFacts DEF ReadToken, Inv, StackOK, TokenOK, Holders
  <2>2. taskdesc_map[current_taskid(t)].token \in Tokens
    BY <2>1 DEF Inv, TypeOK, TokenTypeOK, TTaskDesc
  <2>. QED
    BY <1>12, <2>2
    DEF ReadToken, Inv, TypeOK, TokenTypeOK, DescOK, PcLabels, tokenVars, programVars, stampVars
<1>13. ASSUME NEW t \in Threads, LockSet(t)
       PROVE  TypeOK' /\ DescOK'
  BY <1>13
  DEF LockSet, Inv, TypeOK, TokenTypeOK, DescOK, PcLabels, tokenVars, programVars, localVars
<1>14. ASSUME NEW t \in Threads, ReadClock(t)
       PROVE  TypeOK' /\ DescOK'
  <2>1. list[line[t]].head \in Tokens \cup {NIL} /\ clock + 1 \in Nat
    BY DEF Inv, TypeOK, TLists
  <2>. QED
    BY <1>14, <2>1
    DEF ReadClock, Inv, TypeOK, TokenTypeOK, DescOK, PcLabels, tokenVars, programVars
<1>15. ASSUME NEW t \in Threads, Walk(t)
       PROVE  TypeOK' /\ DescOK'
  <2>1. list[line[t]].next[curr[t]] \in Tokens \cup {NIL}
    BY <1>15 DEF Walk, Inv, TypeOK, TLists
  <2>. QED
    BY <1>15, <2>1
    DEF Walk, Inv, TypeOK, TokenTypeOK, DescOK, tokenVars, programVars, stampVars
<1>16. ASSUME NEW t \in Threads, SetFront(t)
       PROVE  TypeOK' /\ DescOK'
  <2>1. list[line[t]] \in TLists(Tokens) /\ current_token[t] \in Tokens /\ now[t] \in Nat
    BY DEF Inv, TypeOK
  <2>2. set_front(set_at(list[line[t]], current_token[t], now[t]), current_token[t])
          \in TLists(Tokens)
    BY <2>1, SetFrontType
  <2>. QED
    BY <1>16, <2>2
    DEF SetFront, Inv, TypeOK, TokenTypeOK, DescOK, PcLabels, tokenVars, programVars, localVars
<1>17. ASSUME NEW t \in Threads, UnlockSet(t)
       PROVE  TypeOK' /\ DescOK'
  <2>1. 0 \in Lines /\ 0 \in Tokens
    BY SchedulerAssumption, TokenAssumption DEF Lines, Tokens
  <2>. QED
    BY <1>17, <2>1
    DEF UnlockSet, Inv, TypeOK, TokenTypeOK, DescOK, PcLabels, tokenVars, programVars
<1>. QED
  BY <1>0, <1>1, <1>2, <1>3, <1>4, <1>5, <1>6, <1>7, <1>8, <1>9, <1>10, <1>11, <1>12, <1>13,
     <1>14, <1>15, <1>16, <1>17
  DEF Next, Callback
-----------------------------------------------------------------------------
(***************************************************************************)
(* The stacks and the lock of the token manager.                           *)
(***************************************************************************)

\* No task comes twice on the stacks.
LEMMA StackStep ==
  ASSUME Inv, [Next]_vars
  PROVE  StackOK'
<1>. USE DEF Goto
<1>0. CASE UNCHANGED vars
  BY <1>0 DEF Inv, StackOK, vars, programVars
<1>1. ASSUME NEW t \in Threads, CallStart(t)
      PROVE  StackOK'
  <2>1. PICK u \in Tasks \ Started : stack' = [stack EXCEPT ![t] = <<u>> \o stack[t]]
    BY <1>1 DEF CallStart
  <2>2. stack[t] \in Seq(Tasks) /\ \A t1 \in Threads : u \notin Elems(stack[t1])
    <3>1. ASSUME NEW t1 \in Threads
          PROVE  DOMAIN stack[t1] = 1 .. Len(stack[t1])
      BY DEF Inv, TypeOK
    <3>. QED
      BY <2>1, <3>1 DEF Inv, TypeOK, Started, Elems
  <2>3. /\ Elems(stack'[t]) = Elems(stack[t]) \cup {u}
        /\ Distinct(stack'[t]) /\ stack'[t] # <<>>
    BY <2>1, <2>2, PushFacts DEF Inv, TypeOK, StackOK
  <2>4. \A t1 \in Threads \ {t} : stack'[t1] = stack[t1]
    BY <2>1 DEF Inv, TypeOK
  <2>5. \A t1 \in Threads \ {t} : pc'[t1] = pc[t1]
    BY <1>1 DEF CallStart, Inv, TypeOK
  <2>6. \A t1, t2 \in Threads : t1 # t2 => Elems(stack'[t1]) \cap Elems(stack'[t2]) = {}
    BY <2>2, <2>3, <2>4 DEF Inv, StackOK
  <2>. QED
    BY <2>3, <2>4, <2>5, <2>6 DEF Inv, StackOK
<1>2. ASSUME NEW t \in Threads, DisableTask(t)
      PROVE  StackOK'
  <2>1. stack[t] \in Seq(Tasks) /\ stack[t] # <<>> /\ Distinct(stack[t])
    BY <1>2 DEF DisableTask, Inv, TypeOK, StackOK
  <2>2. stack' = [stack EXCEPT ![t] = Tail(stack[t])]
    BY <1>2 DEF DisableTask
  <2>3. Elems(stack'[t]) \subseteq Elems(stack[t]) /\ Distinct(stack'[t])
    BY <2>1, <2>2, PopFacts DEF Inv, TypeOK
  <2>4. \A t1 \in Threads \ {t} : stack'[t1] = stack[t1]
    BY <2>2 DEF Inv, TypeOK
  <2>5. \A t1 \in Threads : pc'[t1] \notin {"idle", "exec", "check"} => t1 # t /\ pc'[t1] = pc[t1]
    BY <1>2 DEF DisableTask, Inv, TypeOK
  <2>. QED
    BY <2>3, <2>4, <2>5 DEF Inv, StackOK
<1>3. ASSUME NEW t \in Threads, CheckRunning(t)
      PROVE  StackOK'
  <2>1. CASE is_task_running(current_taskid(t))
    <3>1. stack[t] # <<>>
      BY <2>1 DEF is_task_running, current_taskid, Inv, DescOK
    <3>. QED
      BY <1>3, <3>1 DEF CheckRunning, programVars, Inv, TypeOK, StackOK
  <2>2. CASE ~ is_task_running(current_taskid(t))
    BY <1>3, <2>2 DEF CheckRunning, programVars, Inv, TypeOK, StackOK
  <2>. QED
    BY <2>1, <2>2
<1>4. ASSUME NEW t \in Threads,
             \/ StoreTaskIDAddr(t) \/ CallEnd(t) \/ InstructionExec(t)
             \/ ReadLockManager(t)
      PROVE  StackOK'
  BY <1>4
  DEF StoreTaskIDAddr, CallEnd, InstructionExec, ReadLockManager, programVars, Inv, TypeOK, StackOK
<1>5. ASSUME NEW t \in Threads,
             \/ WriteLockForStart(t) \/ GetToken(t) \/ EnableTask(t)
             \/ WriteLockForEnd(t) \/ ReleaseToken(t)
             \/ ReadToken(t) \/ LockSet(t) \/ ReadClock(t) \/ Walk(t) \/ SetFront(t) \/ UnlockSet(t)
      PROVE  StackOK'
  <2>1. pc[t] \notin {"idle", "exec", "check"} /\ UNCHANGED stack
    BY <1>5
    DEF WriteLockForStart, GetToken, EnableTask, WriteLockForEnd, ReleaseToken,
        ReadToken, LockSet, ReadClock, Walk, SetFront, UnlockSet, programVars
  <2>2. \A t1 \in Threads \ {t} : pc'[t1] = pc[t1]
    BY <1>5
    DEF WriteLockForStart, GetToken, EnableTask, WriteLockForEnd, ReleaseToken,
        ReadToken, LockSet, ReadClock, Walk, SetFront, UnlockSet, Inv, TypeOK
  <2>. QED
    BY <2>1, <2>2 DEF Inv, StackOK
<1>. QED
  BY <1>0, <1>1, <1>2, <1>3, <1>4, <1>5 DEF Next, Callback

\* Writers exclude each other and readers.
LEMMA LockStep ==
  ASSUME Inv, [Next]_vars
  PROVE  LockOK'
<1>. USE DEF Goto
<1>1. CASE UNCHANGED vars
  BY <1>1 DEF Inv, LockOK, vars, tokenVars
<1>2. ASSUME NEW t \in Threads, WriteLockForStart(t) \/ WriteLockForEnd(t)
      PROVE  LockOK'
  <2>1. writer = NIL /\ readers = {} /\ writer' = t /\ readers' = readers
    BY <1>2 DEF WriteLockForStart, WriteLockForEnd, WriteLock, NoHolder
  <2>2. \A t1 \in Threads : pc'[t1] \in {"get", "release"} => t1 = t
    <3>1. \A t1 \in Threads : pc[t1] \notin {"get", "release"}
      BY <2>1 DEF Inv, LockOK, NIL, Threads
    <3>. QED
      BY <1>2, <3>1 DEF WriteLockForStart, WriteLockForEnd, Inv, TypeOK
  <2>. QED
    BY <2>1, <2>2 DEF LockOK
<1>3. ASSUME NEW t \in Threads, GetToken(t) \/ ReleaseToken(t)
      PROVE  LockOK'
  <2>1. writer = t /\ readers = {}
    BY <1>3 DEF GetToken, ReleaseToken, Inv, LockOK, NIL, Threads
  <2>2. \A t1 \in Threads : pc'[t1] \notin {"get", "release"}
    BY <1>3, <2>1 DEF GetToken, ReleaseToken, Inv, TypeOK, LockOK
  <2>3. writer' = NIL /\ readers' = {}
    BY <1>3, <2>1 DEF GetToken, ReleaseToken, Unlock
  <2>. QED
    BY <2>2, <2>3 DEF LockOK
<1>4. ASSUME NEW t \in Threads, ReadLockManager(t)
      PROVE  LockOK'
  <2>1. writer = NIL /\ writer' = NIL
    BY <1>4 DEF ReadLockManager, ReadLock
  <2>. QED
    BY <1>4, <2>1 DEF ReadLockManager, Inv, TypeOK, LockOK
<1>5. ASSUME NEW t \in Threads, CheckRunning(t)
      PROVE  LockOK'
  <2>1. \A t1 \in Threads : pc'[t1] \in {"get", "release"} => pc[t1] = pc'[t1] /\ t1 # t
    BY <1>5 DEF CheckRunning, Inv, TypeOK
  <2>2. readers' \subseteq readers /\ writer' \in {writer, NIL} /\ (writer # t => writer' = writer)
    BY <1>5 DEF CheckRunning, Unlock
  <2>. QED
    BY <2>1, <2>2 DEF Inv, LockOK
<1>6. ASSUME NEW t \in Threads,
             \/ StoreTaskIDAddr(t) \/ CallStart(t) \/ CallEnd(t) \/ InstructionExec(t)
             \/ EnableTask(t) \/ DisableTask(t) \/ ReadToken(t)
             \/ LockSet(t) \/ ReadClock(t) \/ Walk(t) \/ SetFront(t) \/ UnlockSet(t)
      PROVE  LockOK'
  <2>1. UNCHANGED <<readers, writer>>
    BY <1>6
    DEF StoreTaskIDAddr, CallStart, CallEnd, InstructionExec, EnableTask, DisableTask,
        ReadToken, LockSet, ReadClock, Walk, SetFront, UnlockSet, tokenVars
  <2>2. \A t1 \in Threads : pc'[t1] \in {"get", "release"} => pc[t1] = pc'[t1]
    BY <1>6
    DEF StoreTaskIDAddr, CallStart, CallEnd, InstructionExec, EnableTask, DisableTask,
        ReadToken, LockSet, ReadClock, Walk, SetFront, UnlockSet, Inv, TypeOK
  <2>. QED
    BY <2>1, <2>2 DEF Inv, LockOK
<1>. QED
  BY <1>1, <1>2, <1>3, <1>4, <1>5, <1>6 DEF Next, Callback
-----------------------------------------------------------------------------
(***************************************************************************)
(* The tokens.                                                             *)
(***************************************************************************)
Recording(t) == pc[t] \in {"lock", "clock", "walk"}

\* The holders of a thread are on its stack; the task it records is one.
LEMMA HolderFacts ==
  ASSUME Inv, NEW t \in Threads
  PROVE  /\ Holders(t) \subseteq Elems(stack[t]) /\ Rest(stack[t]) \subseteq Holders(t)
         /\ pc[t] \in {"token", "lock", "clock", "walk"} =>
              /\ current_taskid(t) \in Elems(stack[t])
              /\ current_taskid(t) \in Holders(t)
              /\ current_taskid(t) \in DOMAIN taskdesc_map
<1>1. stack[t] \in Seq(Tasks) /\ Len(stack[t]) \in Nat
  BY DEF Inv, TypeOK
<1>2. Rest(stack[t]) \subseteq Elems(stack[t])
  BY <1>1 DEF Rest, Elems
<1>3. pc[t] \in {"token", "lock", "clock", "walk"} => current_taskid(t) \in Elems(stack[t])
  BY TopFacts DEF Inv, StackOK
<1>4. pc[t] \in {"token", "lock", "clock", "walk"} => Holders(t) = Elems(stack[t])
  BY DEF Holders
<1>. QED
  BY <1>2, <1>3, <1>4 DEF Holders, Inv, TokenOK

\* A task that starts or ends is on the stack of its thread only; it holds a
\* token only if it ends.
LEMMA OwnTask ==
  ASSUME Inv, NEW t \in Threads, pc[t] \in {"get", "release"}
  PROVE  /\ current_taskid(t) \in Tasks \ {0}
         /\ Elems(stack[t]) = Rest(stack[t]) \cup {current_taskid(t)}
         /\ current_taskid(t) \notin Rest(stack[t])
         /\ \A t1 \in Threads \ {t} : current_taskid(t) \notin Elems(stack[t1])
         /\ \A t1 \in Threads \ {t} : current_taskid(t) \notin Holders(t1)
         /\ \A t1 \in Threads \ {t} : pc[t1] \in {"lock", "clock", "walk"} =>
              current_taskid(t1) # current_taskid(t)
<1>1. stack[t] # <<>> /\ stack[t] \in Seq(Tasks) /\ Distinct(stack[t])
  BY DEF Inv, TypeOK, StackOK
<1>2. /\ current_taskid(t) = Head(stack[t]) /\ current_taskid(t) \in Tasks \ {0}
      /\ current_taskid(t) \in Elems(stack[t])
      /\ Elems(stack[t]) = Rest(stack[t]) \cup {current_taskid(t)}
  BY <1>1, TopFacts DEF Inv
<1>3. current_taskid(t) \notin Rest(stack[t])
  BY <1>1, <1>2, PopFacts
<1>4. \A t1 \in Threads \ {t} : current_taskid(t) \notin Elems(stack[t1])
  BY <1>2 DEF Inv, StackOK
<1>. QED
  BY <1>2, <1>3, <1>4, HolderFacts

\* A step that moves no token.
LEMMA TokenFrame ==
  ASSUME Inv,
         task_stack' = task_stack, crowded' = crowded,
         DOMAIN taskdesc_map' = DOMAIN taskdesc_map,
         \A u \in DOMAIN taskdesc_map : taskdesc_map'[u].token = taskdesc_map[u].token,
         \A t \in Threads : Holders(t)' = Holders(t),
         \A t \in Threads : Recording(t)' =>
            /\ current_taskid(t)' = current_taskid(t)
            /\ current_taskid(t) \in DOMAIN taskdesc_map
            /\ current_token'[t] = taskdesc_map[current_taskid(t)].token
  PROVE  TokenOK' /\ TokensShared'
<1>1. TokensShared'
  BY DEF Inv, TokensShared
<1>2. \A t \in Threads : \A u \in Holders(t)' :
        u \in DOMAIN taskdesc_map' /\ u \in task_stack'[taskdesc_map'[u].token]
  BY DEF Inv, TokenOK
<1>3. \A k \in Tokens : \A u \in task_stack'[k] :
        /\ u \in DOMAIN taskdesc_map' /\ taskdesc_map'[u].token = k
        /\ \E t \in Threads : u \in Holders(t)'
  BY DEF Inv, TokenOK
<1>4. \A t \in Threads : Recording(t)' =>
        current_token'[t] = taskdesc_map'[current_taskid(t)'].token
  OBVIOUS
<1>. QED
  BY <1>1, <1>2, <1>3, <1>4 DEF TokenOK, Recording

\* In the threads that take no step nothing changes.
LEMMA OtherThreads ==
  ASSUME NEW t1, stack'[t1] = stack[t1], pc'[t1] = pc[t1]
  PROVE  Holders(t1)' = Holders(t1) /\ current_taskid(t1)' = current_taskid(t1)
BY DEF Holders, current_taskid

\* Every step keeps the tokens with their tasks.
LEMMA TokenStep ==
  ASSUME Inv, [Next]_vars
  PROVE  TokenOK' /\ TokensShared'
<1>. USE DEF Goto
<1>0. CASE UNCHANGED vars
  <2>1. \A t \in Threads : UNCHANGED <<stack[t], pc[t], current_token[t]>>
    BY <1>0 DEF vars, programVars, localVars
  <2>2. UNCHANGED <<taskdesc_map, task_stack, crowded>>
    BY <1>0 DEF vars, tokenVars
  <2>3. \A t \in Threads : Recording(t)' =>
          /\ current_taskid(t) \in DOMAIN taskdesc_map
          /\ current_token'[t] = taskdesc_map[current_taskid(t)].token
    BY <2>1, HolderFacts DEF Recording, Inv, TokenOK
  <2>. QED
    BY <2>1, <2>2, <2>3, OtherThreads, TokenFrame
<1>1. ASSUME NEW t \in Threads, CallStart(t)
      PROVE  TokenOK' /\ TokensShared'
  <2>1. PICK u \in Tasks : stack' = [stack EXCEPT ![t] = <<u>> \o stack[t]]
    BY <1>1 DEF CallStart
  <2>2. \A t1 \in Threads \ {t} : UNCHANGED <<stack[t1], pc[t1]>>
    BY <1>1, <2>1 DEF CallStart, Inv, TypeOK
  <2>3. Holders(t)' = Holders(t)
    <3>1. stack'[t] = <<u>> \o stack[t] /\ pc[t] = "idle" /\ pc'[t] = "start"
      BY <1>1, <2>1 DEF CallStart, Inv, TypeOK
    <3>2. Rest(stack'[t]) = Elems(stack[t])
      BY <3>1, PushFacts DEF Inv, TypeOK
    <3>. QED
      BY <3>1, <3>2 DEF Holders
  <2>4. \A t1 \in Threads : Recording(t1)' =>
          /\ current_taskid(t1)' = current_taskid(t1)
          /\ current_taskid(t1) \in DOMAIN taskdesc_map
          /\ current_token'[t1] = taskdesc_map[current_taskid(t1)].token
    <3>1. pc'[t] = "start" /\ UNCHANGED current_token
      BY <1>1 DEF CallStart, localVars, Inv, TypeOK
    <3>. QED
      BY <3>1, <2>2, HolderFacts, OtherThreads DEF Recording, Inv, TokenOK
  <2>5. UNCHANGED <<taskdesc_map, task_stack, crowded>>
    BY <1>1 DEF CallStart, tokenVars
  <2>. QED
    BY <2>2, <2>3, <2>4, <2>5, OtherThreads, TokenFrame
<1>2. ASSUME NEW t \in Threads, DisableTask(t)
      PROVE  TokenOK' /\ TokensShared'
  <2>1. stack' = [stack EXCEPT ![t] = Tail(stack[t])] /\ stack[t] # <<>>
    BY <1>2 DEF DisableTask, Inv, StackOK
  <2>2. \A t1 \in Threads \ {t} : UNCHANGED <<stack[t1], pc[t1]>>
    BY <1>2, <2>1 DEF DisableTask, Inv, TypeOK
  <2>3. Holders(t)' = Holders(t)
    <3>1. stack'[t] = Tail(stack[t]) /\ pc[t] = "disable" /\ pc'[t] = "idle"
      BY <1>2, <2>1 DEF DisableTask, Inv, TypeOK
    <3>2. Elems(stack'[t]) = Rest(stack[t])
      BY <2>1, <3>1, PopFacts DEF Inv, TypeOK
    <3>. QED
      BY <3>1, <3>2 DEF Holders
  <2>4. \A t1 \in Threads : Recording(t1)' =>
          /\ current_taskid(t1)' = current_taskid(t1)
          /\ current_taskid(t1) \in DOMAIN taskdesc_map
          /\ current_token'[t1] = taskdesc_map[current_taskid(t1)].token
    <3>1. pc'[t] = "idle" /\ UNCHANGED current_token
      BY <1>2 DEF DisableTask, localVars, Inv, TypeOK
    <3>. QED
      BY <3>1, <2>2, HolderFacts, OtherThreads DEF Recording, Inv, TokenOK
  <2>5. /\ DOMAIN taskdesc_map' = DOMAIN taskdesc_map
        /\ \A u \in DOMAIN taskdesc_map : taskdesc_map'[u].token = taskdesc_map[u].token
    <3>1. current_taskid(t) \in Tasks \ {0} /\ 0 \in Tokens /\ FALSE \in BOOLEAN
      BY <2>1, TopFacts, TokenAssumption DEF Inv, Tokens
    <3>. QED
      BY <1>2, <3>1, EnableFacts DEF DisableTask, Inv
  <2>6. UNCHANGED <<task_stack, crowded>>
    BY <1>2 DEF DisableTask
  <2>. QED
    BY <2>2, <2>3, <2>4, <2>5, <2>6, OtherThreads, TokenFrame
<1>3. ASSUME NEW t \in Threads, EnableTask(t)
      PROVE  TokenOK' /\ TokensShared'
  <2>1. \A t1 \in Threads : UNCHANGED stack[t1] /\ (t1 # t => UNCHANGED pc[t1])
    BY <1>3 DEF EnableTask, Inv, TypeOK
  <2>2. Holders(t)' = Holders(t)
    BY <1>3 DEF EnableTask, Holders, Inv, TypeOK
  <2>3. \A t1 \in Threads : Recording(t1)' =>
          /\ current_taskid(t1)' = current_taskid(t1)
          /\ current_taskid(t1) \in DOMAIN taskdesc_map
          /\ current_token'[t1] = taskdesc_map[current_taskid(t1)].token
    <3>1. pc'[t] = "idle" /\ UNCHANGED current_token
      BY <1>3 DEF EnableTask, localVars, Inv, TypeOK
    <3>. QED
      BY <3>1, <2>1, HolderFacts, OtherThreads DEF Recording, Inv, TokenOK
  <2>4. /\ DOMAIN taskdesc_map' = DOMAIN taskdesc_map
        /\ \A u \in DOMAIN taskdesc_map : taskdesc_map'[u].token = taskdesc_map[u].token
    <3>1. current_taskid(t) \in Tasks \ {0}
      BY <1>3, TopFacts DEF EnableTask, Inv, StackOK
    <3>2. 0 \in Tokens
      BY TokenAssumption DEF Tokens
    <3>3. arg[t] \in Tokens /\ TRUE \in BOOLEAN
      BY <3>2, SchedulerAssumption DEF Inv, TypeOK
    <3>. QED
      BY <1>3, <3>1, <3>3, EnableFacts DEF EnableTask, Inv
  <2>5. UNCHANGED <<task_stack, crowded>>
    BY <1>3 DEF EnableTask
  <2>. QED
    BY <2>1, <2>2, <2>3, <2>4, <2>5, OtherThreads, TokenFrame
<1>4. ASSUME NEW t \in Threads,
             \/ StoreTaskIDAddr(t) \/ CallEnd(t) \/ InstructionExec(t)
             \/ WriteLockForStart(t) \/ WriteLockForEnd(t)
             \/ ReadLockManager(t) \/ CheckRunning(t) \/ ReadToken(t)
             \/ LockSet(t) \/ ReadClock(t) \/ Walk(t) \/ SetFront(t) \/ UnlockSet(t)
      PROVE  TokenOK' /\ TokensShared'
  <2>. USE DEF StoreTaskIDAddr, CallEnd, InstructionExec, WriteLockForStart, WriteLockForEnd,
               ReadLockManager, CheckRunning, ReadToken, LockSet, ReadClock, Walk, SetFront,
               UnlockSet
  <2>1. UNCHANGED <<taskdesc_map, task_stack, crowded, stack>>
    BY <1>4 DEF tokenVars, programVars
  <2>2. \A t1 \in Threads \ {t} : UNCHANGED <<pc[t1], current_token[t1]>>
    BY <1>4 DEF localVars, Inv, TypeOK
  <2>3. Holders(t)' = Holders(t)
    <3>1. pc'[t] \in {"start", "get", "disable"} <=> pc[t] \in {"start", "get", "disable"}
      BY <1>4 DEF Inv, TypeOK
    <3>. QED
      BY <2>1, <3>1 DEF Holders
  <2>4. Recording(t)' => /\ current_taskid(t) \in DOMAIN taskdesc_map
                         /\ current_token'[t] = taskdesc_map[current_taskid(t)].token
    <3>1. Recording(t)' => \/ pc[t] = "token" /\ ReadToken(t)
                           \/ Recording(t) /\ UNCHANGED current_token[t]
      BY <1>4 DEF Recording, localVars, Inv, TypeOK
    <3>2. pc[t] = "token" /\ ReadToken(t) =>
            current_token'[t] = taskdesc_map[current_taskid(t)].token
      BY DEF Inv, TypeOK
    <3>. QED
      BY <3>1, <3>2, HolderFacts DEF Recording, Inv, TokenOK
  <2>5. \A t1 \in Threads \ {t} : Recording(t1)' =>
          /\ current_taskid(t1) \in DOMAIN taskdesc_map
          /\ current_token'[t1] = taskdesc_map[current_taskid(t1)].token
    BY <2>2, HolderFacts DEF Recording, Inv, TokenOK
  <2>6. \A t1 \in Threads : current_taskid(t1)' = current_taskid(t1)
    BY <2>1 DEF current_taskid
  <2>. QED
    BY <2>1, <2>2, <2>3, <2>4, <2>5, <2>6, OtherThreads, TokenFrame
<1>5. ASSUME NEW t \in Threads, GetToken(t)
      PROVE  TokenOK' /\ TokensShared'
  <2>. DEFINE u  == current_taskid(t)
              td == get_task_descriptor(u)
              k  == TokenFor(td.parent)
  <2>1. /\ u \in Tasks \ {0} /\ u \notin Rest(stack[t])
        /\ Elems(stack[t]) = Rest(stack[t]) \cup {u}
        /\ \A t1 \in Threads \ {t} : u \notin Holders(t1)
        /\ \A t1 \in Threads \ {t} : pc[t1] \in {"lock", "clock", "walk"} => current_taskid(t1) # u
    BY <1>5, OwnTask DEF GetToken
  <2>2. td \in TTaskDesc /\ td.parent \in Tokens
    BY DescriptorFacts DEF Inv
  <2>3. k \in Tokens /\ (FreeTokens # {} => task_stack[k] = {})
    BY <2>2, TokenFacts
  <2>4. /\ task_stack' = [task_stack EXCEPT ![k] = @ \cup {u}]
        /\ taskdesc_map' = WithTask(u, [td EXCEPT !.token = k])
        /\ crowded' = IF FreeTokens = {} THEN crowded \cup {u} ELSE crowded
        /\ UNCHANGED <<stack, current_token>>
    BY <1>5 DEF GetToken, programVars, localVars
  <2>5. /\ Holders(t) = Rest(stack[t]) /\ Holders(t)' = Elems(stack[t])
        /\ \A t1 \in Threads \ {t} : pc'[t1] = pc[t1] /\ Holders(t1)' = Holders(t1)
        /\ pc'[t] = "enable"
    BY <1>5, <2>4, OtherThreads DEF GetToken, Holders, Inv, TypeOK
  <2>. HIDE DEF u, td, k
  <2>6. [td EXCEPT !.token = k] \in TTaskDesc /\ [td EXCEPT !.token = k].parent \in Tokens
        /\ [td EXCEPT !.token = k].token = k
    BY <2>2, <2>3 DEF TTaskDesc
  <2>7. /\ DOMAIN taskdesc_map' = DOMAIN taskdesc_map \cup {u}
        /\ taskdesc_map'[u].token = k
        /\ \A v \in DOMAIN taskdesc_map \ {u} : taskdesc_map'[v] = taskdesc_map[v]
    BY <2>1, <2>4, <2>6, WithTaskFacts DEF Inv
  <2>8. /\ task_stack'[k] = task_stack[k] \cup {u}
        /\ \A k1 \in Tokens \ {k} : task_stack'[k1] = task_stack[k1]
    BY <2>3, <2>4 DEF Inv, TypeOK, TokenTypeOK
  <2>9. \A k1 \in Tokens : u \notin task_stack[k1]
    BY <2>1, <2>5 DEF Inv, TokenOK
  <2>10. \A t1 \in Threads : \A v \in Holders(t1)' :
           v \in DOMAIN taskdesc_map' /\ v \in task_stack'[taskdesc_map'[v].token]
    <3>1. ASSUME NEW t1 \in Threads, NEW v \in Holders(t1)', v # u
          PROVE  v \in DOMAIN taskdesc_map' /\ v \in task_stack'[taskdesc_map'[v].token]
      <4>1. v \in Holders(t1)
        BY <2>1, <2>5, <3>1
      <4>2. v \in DOMAIN taskdesc_map /\ v \in task_stack[taskdesc_map[v].token]
        BY <4>1 DEF Inv, TokenOK
      <4>3. taskdesc_map[v].token \in Tokens /\ taskdesc_map'[v] = taskdesc_map[v]
        BY <2>7, <3>1, <4>2 DEF Inv, TypeOK, TokenTypeOK, TTaskDesc
      <4>. QED
        BY <2>7, <2>8, <4>2, <4>3
    <3>2. u \in DOMAIN taskdesc_map' /\ u \in task_stack'[taskdesc_map'[u].token]
      BY <2>7, <2>8
    <3>. QED
      BY <3>1, <3>2
  <2>11. ASSUME NEW k1 \in Tokens, NEW v \in task_stack'[k1]
         PROVE  /\ v \in DOMAIN taskdesc_map' /\ taskdesc_map'[v].token = k1
                /\ \E t1 \in Threads : v \in Holders(t1)'
    <3>1. CASE v = u
      <4>1. k1 = k
        BY <2>8, <2>9, <2>11, <3>1
      <4>. QED
        BY <2>1, <2>5, <2>7, <3>1, <4>1
    <3>2. CASE v # u
      <4>1. v \in task_stack[k1]
        BY <2>8, <2>11, <3>2
      <4>2. v \in DOMAIN taskdesc_map /\ taskdesc_map[v].token = k1
        BY <4>1 DEF Inv, TokenOK
      <4>3. PICK t1 \in Threads : v \in Holders(t1)
        BY <4>1 DEF Inv, TokenOK
      <4>4. v \in Holders(t1)'
        BY <2>1, <2>5, <4>3
      <4>. QED
        BY <2>7, <3>2, <4>2, <4>4
    <3>. QED
      BY <3>1, <3>2
  <2>12. ASSUME NEW t1 \in Threads, pc'[t1] \in {"lock", "clock", "walk"}
         PROVE  current_token'[t1] = taskdesc_map'[current_taskid(t1)'].token
    <3>1. t1 # t /\ pc[t1] \in {"lock", "clock", "walk"}
      BY <2>5, <2>12
    <3>2. current_taskid(t1)' = current_taskid(t1)
      BY <2>4 DEF current_taskid
    <3>3. current_taskid(t1) \in DOMAIN taskdesc_map \ {u}
      BY <2>1, <3>1, HolderFacts
    <3>. QED
      BY <2>4, <2>7, <3>1, <3>2, <3>3 DEF Inv, TokenOK
  <2>13. TokensShared'
    <3>1. ASSUME NEW k1 \in Tokens, NEW v \in task_stack'[k1], NEW w \in task_stack'[k1], v # w
          PROVE  v \in crowded' \/ w \in crowded'
      <4>1. CASE v # u /\ w # u
        <5>1. v \in task_stack[k1] /\ w \in task_stack[k1]
          BY <2>8, <4>1
        <5>. QED
          BY <2>4, <3>1, <5>1 DEF Inv, TokensShared
      <4>2. CASE v = u \/ w = u
        <5>1. k1 = k
          BY <2>8, <2>9, <4>2
        <5>2. task_stack[k] # {}
          BY <2>8, <3>1, <4>2, <5>1
        <5>3. u \in crowded'
          BY <2>3, <2>4, <5>2
        <5>. QED
          BY <4>2, <5>3
      <4>. QED
        BY <4>1, <4>2
    <3>. QED
      BY <3>1 DEF TokensShared
  <2>. QED
    BY <2>10, <2>11, <2>12, <2>13 DEF TokenOK
<1>6. ASSUME NEW t \in Threads, ReleaseToken(t)
      PROVE  TokenOK' /\ TokensShared'
  <2>. DEFINE u == current_taskid(t)
              k == taskdesc_map[u].token
  <2>1. /\ u \in Tasks \ {0} /\ u \notin Rest(stack[t])
        /\ Elems(stack[t]) = Rest(stack[t]) \cup {u}
        /\ \A t1 \in Threads \ {t} : u \notin Holders(t1)
    BY <1>6, OwnTask DEF ReleaseToken
  <2>2. /\ Holders(t) = Elems(stack[t]) /\ Holders(t)' = Rest(stack[t])
        /\ \A t1 \in Threads \ {t} : pc'[t1] = pc[t1] /\ Holders(t1)' = Holders(t1)
        /\ pc'[t] = "disable"
    BY <1>6, OtherThreads DEF ReleaseToken, Holders, programVars, Inv, TypeOK
  <2>3. u \in DOMAIN taskdesc_map
    BY <2>1, <2>2 DEF Inv, TokenOK
  <2>4. k \in Tokens /\ taskdesc_map[u] \in TTaskDesc
    BY <2>3 DEF Inv, TypeOK, TokenTypeOK, TTaskDesc
  <2>5. /\ task_stack' = [task_stack EXCEPT ![k] = @ \ {u}]
        /\ taskdesc_map' = WithTask(u, taskdesc_map[u])
        /\ crowded' = crowded \ {u}
        /\ UNCHANGED <<stack, current_token>>
    BY <1>6, <2>3
    DEF ReleaseToken, release_token, get_task_descriptor, programVars, localVars
  <2>. HIDE DEF u
  <2>6. /\ DOMAIN taskdesc_map' = DOMAIN taskdesc_map
        /\ \A v \in DOMAIN taskdesc_map : taskdesc_map'[v] = taskdesc_map[v]
    BY <2>3, <2>5 DEF WithTask
  <2>. HIDE DEF k
  <2>7. /\ task_stack'[k] = task_stack[k] \ {u}
        /\ \A k1 \in Tokens \ {k} : task_stack'[k1] = task_stack[k1]
    BY <2>4, <2>5 DEF Inv, TypeOK, TokenTypeOK
  <2>8. \A k1 \in Tokens : task_stack'[k1] = task_stack[k1] \ {u}
    <3>1. \A k1 \in Tokens \ {k} : u \notin task_stack[k1]
      BY DEF k, Inv, TokenOK
    <3>. QED
      BY <2>7, <3>1
  <2>9. \A t1 \in Threads : Holders(t1)' = Holders(t1) \ {u}
    BY <2>1, <2>2
  <2>10. \A t1 \in Threads : \A v \in Holders(t1)' :
           v \in DOMAIN taskdesc_map' /\ v \in task_stack'[taskdesc_map'[v].token]
    <3>1. ASSUME NEW t1 \in Threads, NEW v \in Holders(t1)'
          PROVE  v \in DOMAIN taskdesc_map' /\ v \in task_stack'[taskdesc_map'[v].token]
      <4>1. v \in Holders(t1) /\ v # u
        BY <2>9, <3>1
      <4>2. v \in DOMAIN taskdesc_map /\ v \in task_stack[taskdesc_map[v].token]
        BY <4>1 DEF Inv, TokenOK
      <4>3. taskdesc_map[v].token \in Tokens
        BY <4>2 DEF Inv, TypeOK, TokenTypeOK, TTaskDesc
      <4>. QED
        BY <2>6, <2>8, <4>1, <4>2, <4>3
    <3>. QED
      BY <3>1
  <2>11. ASSUME NEW k1 \in Tokens, NEW v \in task_stack'[k1]
         PROVE  /\ v \in DOMAIN taskdesc_map' /\ taskdesc_map'[v].token = k1
                /\ \E t1 \in Threads : v \in Holders(t1)'
    <3>1. v \in task_stack[k1] /\ v # u
      BY <2>8, <2>11
    <3>. QED
      BY <2>6, <2>9, <3>1 DEF Inv, TokenOK
  <2>12. ASSUME NEW t1 \in Threads, pc'[t1] \in {"lock", "clock", "walk"}
         PROVE  current_token'[t1] = taskdesc_map'[current_taskid(t1)'].token
    <3>1. pc[t1] \in {"lock", "clock", "walk"}
      BY <2>2, <2>12
    <3>2. current_taskid(t1)' = current_taskid(t1)
      BY <2>5 DEF current_taskid
    <3>. QED
      BY <2>5, <2>6, <3>1, <3>2, HolderFacts DEF Inv, TokenOK
  <2>13. TokensShared'
    BY <2>5, <2>8 DEF Inv, TokensShared
  <2>. QED
    BY <2>10, <2>11, <2>12, <2>13 DEF TokenOK
<1>. QED
  BY <1>0, <1>1, <1>2, <1>3, <1>4, <1>5, <1>6 DEF Next, Callback
-----------------------------------------------------------------------------
(***************************************************************************)
(* The theorems on tokens.                                                 *)
(***************************************************************************)
\* The tool starts without tasks, all tokens free.
LEMMA InitInv == Init => Inv
<1>. SUFFICES ASSUME Init
              PROVE  Inv
  OBVIOUS
<1>1. 0 \in Tokens /\ 0 \in Lines /\ NIL \notin Threads
  BY TokenAssumption, SchedulerAssumption DEF Tokens, Lines, Threads, NIL
<1>2. NewTask \in TTaskDesc /\ NewTask.parent \in Tokens /\ ~ NewTask.instrument_enabled
  BY <1>1 DEF NewTask, TTaskDesc, Tokens
<1>3. TList(Tokens) \in TLists(Tokens)
  BY DEF TList, TLists
<1>4. TokenTypeOK
  BY <1>2 DEF Init, TokenInit, TokenTypeOK
<1>5. TypeOK
  BY <1>1, <1>3, <1>4 DEF Init, TypeOK, PcLabels
<1>6. DescOK
  BY <1>2 DEF Init, TokenInit, DescOK
<1>7. \A t \in Threads : Elems(stack[t]) = {} /\ Rest(stack[t]) = {} /\ Distinct(stack[t])
  BY DEF Init, Elems, Rest, Distinct
<1>8. StackOK /\ LockOK
  BY <1>7 DEF Init, TokenInit, StackOK, LockOK
<1>9. TokenOK /\ TokensShared
  BY <1>7 DEF Init, TokenInit, TokenOK, Holders, TokensShared
<1>. QED
  BY <1>5, <1>6, <1>8, <1>9 DEF Inv

\* The invariant is inductive.
LEMMA NextInv == Inv /\ [Next]_vars => Inv'
BY TypeStep, StackStep, LockStep, TokenStep DEF Inv

\* At any time the stacks, descriptors, tokens and the lock of the token
\* manager agree with each other.
THEOREM InvCorrect == Spec => []Inv
<1>1. Init => Inv
  BY InitInv
<1>2. Inv /\ [Next]_vars => Inv'
  BY NextInv
<1>. QED
  BY <1>1, <1>2, PTL DEF Spec

\* Every variable of sfp-scheduler.cpp and of its token manager has its type,
\* for programs whose parent ids are below MAX_TOKENS.  That is assumed
\* (SchedulerAssumption): the code takes the id of a parent for a token and
\* does not check it.
THEOREM SchedulerTypes == Spec => []TypeOK
<1>1. Inv => TypeOK
  BY DEF Inv
<1>. QED
  BY <1>1, InvCorrect, PTL

\* The token that InstructionExec has read without the manager's lock is held
\* by the task of the thread until the access is recorded.
THEOREM OwnToken == Spec => []RecordsUnderOwnToken
<1>1. ASSUME Inv
      PROVE  RecordsUnderOwnToken
  <2>1. ASSUME NEW t \in Threads, pc[t] \in {"lock", "clock", "walk"}
        PROVE  current_taskid(t) \in task_stack[current_token[t]]
    BY <1>1, <2>1, HolderFacts DEF Inv, TokenOK
  <2>. QED
    BY <2>1 DEF RecordsUnderOwnToken
<1>. QED
  BY <1>1, InvCorrect, PTL

\* get_token shares a token only with a task that finds none free.
THEOREM SharedWhenFull == Spec => []TokensShared
<1>1. Inv => TokensShared
  BY DEF Inv
<1>. QED
  BY <1>1, InvCorrect, PTL

\* release_token takes the one token back that get_token has given.
THEOREM NoTokenLeaks == Spec => []TokensReturned
<1>1. ASSUME Inv
      PROVE  TokensReturned
  <2>1. ASSUME NEW k \in Tokens, NEW u \in task_stack[k]
        PROVE  u \in Started
    <3>1. PICK t \in Threads : u \in Holders(t)
      BY <1>1 DEF Inv, TokenOK
    <3>2. u \in Elems(stack[t]) /\ DOMAIN stack[t] = 1 .. Len(stack[t])
      BY <1>1, <3>1, HolderFacts DEF Inv, TypeOK
    <3>. QED
      BY <3>2 DEF Started, Elems
  <2>2. \A k \in Tokens : \A u \in task_stack[k] : taskdesc_map[u].token = k
    BY <1>1 DEF Inv, TokenOK
  <2>. QED
    BY <2>1, <2>2 DEF TokensReturned
<1>. QED
  BY <1>1, InvCorrect, PTL

\* A thread that has the read lock reads a map that nobody adds to, and sets
\* of tasks that nobody changes: the write lock keeps readers out.
THEOREM ReadersAreSafe == Spec => MapStableForReaders
<1>1. ASSUME Inv, [Next]_vars, readers # {}
      PROVE  UNCHANGED <<DOMAIN taskdesc_map, task_stack>>
  <2>1. CASE UNCHANGED vars
    BY <2>1 DEF vars, tokenVars
  <2>2. ASSUME NEW t \in Threads, GetToken(t) \/ ReleaseToken(t)
        PROVE  FALSE
    BY <1>1, <2>2 DEF GetToken, ReleaseToken, Goto, Inv, LockOK, NIL, Threads
  <2>3. ASSUME NEW t \in Threads,
               \/ StoreTaskIDAddr(t) \/ CallStart(t) \/ CallEnd(t) \/ InstructionExec(t)
               \/ WriteLockForStart(t) \/ EnableTask(t) \/ WriteLockForEnd(t) \/ DisableTask(t)
               \/ ReadLockManager(t) \/ CheckRunning(t) \/ ReadToken(t)
               \/ LockSet(t) \/ ReadClock(t) \/ Walk(t) \/ SetFront(t) \/ UnlockSet(t)
        PROVE  UNCHANGED <<DOMAIN taskdesc_map, task_stack>>
    BY <2>3
    DEF StoreTaskIDAddr, CallStart, CallEnd, InstructionExec, WriteLockForStart, EnableTask,
        WriteLockForEnd, DisableTask, ReadLockManager, CheckRunning, ReadToken, LockSet,
        ReadClock, Walk, SetFront, UnlockSet, tokenVars
  <2>. QED
    BY <1>1, <2>1, <2>2, <2>3 DEF Next, Callback
<1>2. Inv /\ [Next]_vars => [readers # {} => UNCHANGED <<DOMAIN taskdesc_map, task_stack>>]_vars
  BY <1>1
<1>. QED
  BY <1>2, InvCorrect, PTL DEF Spec, MapStableForReaders
-----------------------------------------------------------------------------
(***************************************************************************)
(* The times.                                                              *)
(***************************************************************************)
InSet(t) == pc[t] \in {"clock", "walk", "unlock"}

\* The lock byte of a set excludes other threads from its lists, and no time
\* is later than the clock's.
TimeOK ==
  /\ \A t \in Threads : InSet(t) => lock[SetIndex(line[t])] = 1
  /\ \A t1, t2 \in Threads :
       t1 # t2 /\ InSet(t1) /\ InSet(t2) => SetIndex(line[t1]) # SetIndex(line[t2])
  /\ \A l \in Lines, k \in Tokens : list[l].time[k] <= clock
  /\ \A t \in Threads : pc[t] = "walk" => now[t] <= clock
  /\ TimesInOrder

\* The variables of a thread in which the times can differ from before.
LEMMA TimeFrame ==
  ASSUME TimeOK, UNCHANGED stampVars,
         \A t \in Threads : InSet(t)' => pc'[t] = pc[t] /\ line'[t] = line[t] /\ now'[t] = now[t]
  PROVE  TimeOK'
BY DEF TimeOK, TimesInOrder, InSet, stampVars

\* Every step keeps the times in order.
LEMMA TimeStep ==
  ASSUME TypeOK, TimeOK, [Next]_vars
  PROVE  TimeOK'
<1>. USE DEF Goto
<1>1. CASE UNCHANGED vars
  BY <1>1, TimeFrame DEF vars, stampVars, localVars
<1>2. ASSUME NEW t \in Threads,
             \/ StoreTaskIDAddr(t) \/ CallStart(t) \/ CallEnd(t) \/ InstructionExec(t)
             \/ WriteLockForStart(t) \/ GetToken(t) \/ EnableTask(t)
             \/ WriteLockForEnd(t) \/ ReleaseToken(t) \/ DisableTask(t)
             \/ ReadLockManager(t) \/ CheckRunning(t) \/ ReadToken(t) \/ Walk(t)
      PROVE  TimeOK'
  <2>. USE DEF StoreTaskIDAddr, CallStart, CallEnd, InstructionExec, WriteLockForStart, GetToken,
               EnableTask, WriteLockForEnd, ReleaseToken, DisableTask, ReadLockManager,
               CheckRunning, ReadToken, Walk
  <2>1. UNCHANGED <<stampVars, now>>
    BY <1>2 DEF localVars
  <2>2. \A t1 \in Threads : InSet(t1)' => pc'[t1] = pc[t1] /\ line'[t1] = line[t1]
    BY <1>2 DEF InSet, localVars, TypeOK
  <2>. QED
    BY <2>1, <2>2, TimeFrame
<1>3. ASSUME NEW t \in Threads, LockSet(t)
      PROVE  TimeOK'
  <2>1. /\ lock[SetIndex(line[t])] = 0
        /\ lock' = [lock EXCEPT ![SetIndex(line[t])] = 1]
        /\ UNCHANGED <<list, clock, line, now>>
    BY <1>3 DEF LockSet, Unlocked, localVars
  <2>2. pc[t] = "lock" /\ pc'[t] = "clock" /\ \A t1 \in Threads \ {t} : pc'[t1] = pc[t1]
    BY <1>3 DEF LockSet, TypeOK
  <2>3. \A t1 \in Threads : SetIndex(line[t1]) \in Sets
    <3>1. Lines \subseteq Nat
      BY SchedulerAssumption DEF Lines
    <3>. QED
      BY <3>1, SetIndexType DEF TypeOK
  <2>4. \A t1 \in Threads : InSet(t1) => SetIndex(line[t1]) # SetIndex(line[t])
    BY <2>1 DEF TimeOK
  <2>5. \A t1 \in Threads : InSet(t1)' => lock'[SetIndex(line'[t1])] = 1
    BY <2>1, <2>2, <2>3, <2>4 DEF InSet, TimeOK, TypeOK
  <2>6. \A t1, t2 \in Threads :
          t1 # t2 /\ InSet(t1)' /\ InSet(t2)' => SetIndex(line'[t1]) # SetIndex(line'[t2])
    BY <2>1, <2>2, <2>4 DEF InSet, TimeOK
  <2>7. \A l \in Lines, k \in Tokens : list'[l].time[k] <= clock'
    BY <2>1 DEF TimeOK
  <2>8. \A t1 \in Threads : pc'[t1] = "walk" => pc[t1] = "walk"
    BY <2>2
  <2>9. (\A t1 \in Threads : pc'[t1] = "walk" => now'[t1] <= clock') /\ TimesInOrder'
    BY <2>1, <2>8 DEF TimeOK, TimesInOrder
  <2>. QED
    BY <2>5, <2>6, <2>7, <2>9 DEF TimeOK, InSet
<1>4. ASSUME NEW t \in Threads, ReadClock(t)
      PROVE  TimeOK'
  <2>1. /\ clock' = clock + 1 /\ clock \in Nat
        /\ now'[t] = clock + 1 /\ \A t1 \in Threads \ {t} : now'[t1] = now[t1]
        /\ UNCHANGED <<lock, list, line>>
    BY <1>4 DEF ReadClock, TypeOK
  <2>2. pc[t] = "clock" /\ pc'[t] = "walk" /\ \A t1 \in Threads \ {t} : pc'[t1] = pc[t1]
    BY <1>4 DEF ReadClock, TypeOK
  <2>3. \A t1 \in Threads : InSet(t1)' <=> InSet(t1)
    BY <2>2 DEF InSet
  <2>4. \A l \in Lines, k \in Tokens : list[l].time[k] \in Nat /\ list[l].time[k] <= clock
    BY DEF TypeOK, TLists, TimeOK
  <2>5. \A l \in Lines, k \in Tokens : list'[l].time[k] <= clock' /\ list'[l].time[k] < clock + 1
    BY <2>1, <2>4
  <2>6. \A t1 \in Threads : pc'[t1] = "walk" => now'[t1] <= clock'
    <3>1. \A t1 \in Threads : now[t1] \in Nat
      BY DEF TypeOK
    <3>. QED
      BY <2>1, <2>2, <3>1 DEF TimeOK
  <2>7. TimesInOrder'
    <3>1. ASSUME NEW t1 \in Threads, NEW k \in Tokens, pc'[t1] = "walk"
          PROVE  list'[line'[t1]].time[k] < now'[t1]
      <4>1. line[t1] \in Lines
        BY DEF TypeOK
      <4>2. CASE t1 = t
        BY <2>1, <2>5, <4>1, <4>2
      <4>3. CASE t1 # t
        BY <2>1, <2>2, <3>1, <4>3 DEF TimeOK, TimesInOrder
      <4>. QED
        BY <4>2, <4>3
    <3>. QED
      BY <3>1 DEF TimesInOrder
  <2>. QED
    BY <2>1, <2>3, <2>5, <2>6, <2>7 DEF TimeOK
<1>5. ASSUME NEW t \in Threads, SetFront(t)
      PROVE  TimeOK'
  <2>1. /\ list' = [list EXCEPT ![line[t]] =
                      set_front(set_at(list[line[t]], current_token[t], now[t]), current_token[t])]
        /\ UNCHANGED <<lock, clock, line, now>>
    BY <1>5 DEF SetFront, localVars
  <2>2. pc[t] = "walk" /\ pc'[t] = "unlock" /\ \A t1 \in Threads \ {t} : pc'[t1] = pc[t1]
    BY <1>5 DEF SetFront, TypeOK
  <2>3. list[line[t]] \in TLists(Tokens) /\ current_token[t] \in Tokens /\ now[t] \in Nat /\ line[t] \in Lines
    BY DEF TypeOK
  <2>4. /\ list'[line[t]].time = [list[line[t]].time EXCEPT ![current_token[t]] = now[t]]
        /\ \A l \in Lines \ {line[t]} : list'[l] = list[l]
    BY <2>1, <2>3, SetFrontType DEF TypeOK
  <2>5. \A l \in Lines, k \in Tokens : list'[l].time[k] <= clock'
    <3>1. list[line[t]].time \in [Tokens -> Nat] /\ now[t] <= clock
      BY <2>2, <2>3 DEF TLists, TimeOK
    <3>. QED
      BY <2>1, <2>3, <2>4, <3>1 DEF TimeOK
  <2>6. \A t1 \in Threads : InSet(t1)' <=> InSet(t1)
    BY <2>2 DEF InSet
  <2>7. \A t1 \in Threads : pc'[t1] = "walk" =>
          pc[t1] = "walk" /\ line[t1] # line[t] /\ line[t1] \in Lines
    BY <2>2 DEF InSet, TimeOK, TypeOK
  <2>8. TimesInOrder'
    BY <2>1, <2>4, <2>7 DEF TimeOK, TimesInOrder
  <2>9. \A t1 \in Threads : pc'[t1] = "walk" => now'[t1] <= clock'
    BY <2>1, <2>7 DEF TimeOK
  <2>. QED
    BY <2>1, <2>5, <2>6, <2>8, <2>9 DEF TimeOK
<1>6. ASSUME NEW t \in Threads, UnlockSet(t)
      PROVE  TimeOK'
  <2>1. /\ lock' = [lock EXCEPT ![SetIndex(line[t])] = 0]
        /\ UNCHANGED <<list, clock>>
        /\ \A t1 \in Threads \ {t} : UNCHANGED <<pc[t1], line[t1], now[t1]>>
        /\ pc[t] = "unlock" /\ pc'[t] = "idle"
    BY <1>6 DEF UnlockSet, TypeOK
  <2>2. \A t1 \in Threads : InSet(t1)' =>
          t1 # t /\ InSet(t1) /\ SetIndex(line[t1]) # SetIndex(line[t])
    BY <2>1 DEF InSet, TimeOK
  <2>3. \A t1 \in Threads : InSet(t1)' => lock'[SetIndex(line'[t1])] = 1
    BY <2>1, <2>2 DEF TimeOK, TypeOK
  <2>4. \A t1 \in Threads : pc'[t1] = "walk" => t1 # t /\ pc[t1] = "walk"
    BY <2>1
  <2>5. \A t1, t2 \in Threads :
          t1 # t2 /\ InSet(t1)' /\ InSet(t2)' => SetIndex(line'[t1]) # SetIndex(line'[t2])
    BY <2>1, <2>2 DEF TimeOK
  <2>6. (\A t1 \in Threads : pc'[t1] = "walk" => now'[t1] <= clock') /\ TimesInOrder'
    BY <2>1, <2>4 DEF TimeOK, TimesInOrder
  <2>7. \A l \in Lines, k \in Tokens : list'[l].time[k] <= clock'
    BY <2>1 DEF TimeOK
  <2>. QED
    BY <2>3, <2>5, <2>6, <2>7 DEF TimeOK
<1>. QED
  BY <1>1, <1>2, <1>3, <1>4, <1>5, <1>6 DEF Next, Callback

\* TSFPList::update never sees a time that is not earlier than its own: the
\* clock is read after the lock of the set is taken.
THEOREM TimesNeverNegative == Spec => []TimesInOrder
<1>1. Init => TimeOK
  BY DEF Init, TimeOK, TimesInOrder, InSet, TList
<1>2. TypeOK /\ TimeOK /\ [Next]_vars => TimeOK'
  BY TimeStep
<1>3. TimeOK => TimesInOrder
  BY DEF TimeOK
<1>. QED
  BY <1>1, <1>2, <1>3, SchedulerTypes, PTL DEF Spec
=============================================================================
