---------------------------- MODULE TokenManager ----------------------------
(***************************************************************************)
(* TTokenManager of sfp_tokens.H: the descriptors of the tasks, and the    *)
(* tokens that stand for the running tasks in the lists of last accesses.  *)
(*                                                                         *)
(* A token is free when no task is in its set.  A task that starts takes   *)
(* the first free token; when there is none it joins a set.                *)
(***************************************************************************)
EXTENDS ThreadIds, FiniteSets, FiniteSetsExt

CONSTANTS
  MAX_TOKENS,  \* 8 in common.H
  Tasks        \* the ids of the tasks that the program starts

ASSUME TokenAssumption == MAX_TOKENS \in Nat \ {0} /\ Tasks \subseteq Nat \ {0}

Tokens == 0 .. MAX_TOKENS - 1

VARIABLES
  taskdesc_map,  \* the descriptors, of the tasks that have one
  task_stack,    \* task_stack[k]: the tasks that hold token k
  readers,       \* the threads that hold rwlock for reading
  writer         \* the thread that holds it for writing, or NIL

tokenVars == <<taskdesc_map, task_stack, readers, writer>>

TTaskDesc == [parent : Nat, token : Tokens, instrument_enabled : BOOLEAN]

NewTask == [parent |-> 0, token |-> 0, instrument_enabled |-> FALSE]

\* Task 0 has a descriptor from the beginning and is never started.
TokenInit == /\ taskdesc_map = [u \in {0} |-> NewTask]
             /\ task_stack = [k \in Tokens |-> {}]
             /\ readers = {}
             /\ writer = NIL

TokenTypeOK == /\ DOMAIN taskdesc_map \subseteq Tasks \cup {0}
               /\ \A u \in DOMAIN taskdesc_map : taskdesc_map[u] \in TTaskDesc
               /\ task_stack \in [Tokens -> SUBSET Tasks]
               /\ readers \subseteq Threads
               /\ writer \in Threads \cup {NIL}
-----------------------------------------------------------------------------
\* The write lock is free when nobody holds the lock at all.
NoHolder == writer = NIL /\ readers = {}

ReadLock(t)  == writer = NIL /\ readers' = readers \cup {t} /\ UNCHANGED writer

\* Mutant: the lock is taken for reading.
WriteLockShared(t) == ReadLock(t)

WriteLock(t) == NoHolder /\ writer' = t /\ UNCHANGED readers

Unlock(t) == /\ readers' = readers \ {t}
             /\ writer' = IF writer = t THEN NIL ELSE writer

\* taskid_to_taskdesc of get_task_descriptor: a new task gets a descriptor.
get_task_descriptor(u) ==
  IF u \in DOMAIN taskdesc_map THEN taskdesc_map[u] ELSE NewTask

\* The map with the descriptor of u replaced, or added.
WithTask(u, td) ==
  [v \in DOMAIN taskdesc_map \cup {u} |-> IF v = u THEN td ELSE taskdesc_map[v]]

is_task_running(u) ==
  u \in DOMAIN taskdesc_map /\ taskdesc_map[u].instrument_enabled

\* Mutant: the search goes on to the token after the last.
FreeTokensPast == {k \in 0 .. MAX_TOKENS : k = MAX_TOKENS \/ task_stack[k] = {}}

FreeTokens == {k \in Tokens : task_stack[k] = {}}

\* Mutant: the search for a free token ends one too early.
TokenForShort(parent) ==
  IF FreeTokens \ {MAX_TOKENS - 1} # {} THEN Min(FreeTokens \ {MAX_TOKENS - 1}) ELSE parent

\* The token get_token gives to a task.
TokenFor(parent) == IF FreeTokens # {} THEN Min(FreeTokens) ELSE parent

\* Mutant: the task stays in the set of its token.
release_nothing(token, u) == [task_stack EXCEPT ![token] = @ \cup {u}]

\* Mutant: the token is taken from all the tasks that share it.
release_all(token, u) == [task_stack EXCEPT ![token] = {}]

release_token(token, u) == [task_stack EXCEPT ![token] = @ \ {u}]
=============================================================================
