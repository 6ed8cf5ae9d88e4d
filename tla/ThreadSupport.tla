---------------------------- MODULE ThreadSupport ----------------------------
(***************************************************************************)
(* thread_support.H: the thread callbacks every tool registers with Pin,   *)
(* the thread-local block of each thread and the count of thread starts.   *)
(*                                                                         *)
(* Pin runs the callbacks one at a time, under its own locks, so each is a *)
(* single action.                                                          *)
(***************************************************************************)
EXTENDS ThreadIds

CONSTANT MaxStarts  \* bound on the thread starts of a run

ASSUME ThreadAssumption == MaxStarts \in Nat

VARIABLES
  live,        \* the thread ids in use
  tls,         \* tls[t]: the local_stat_t of t, as the value of its flag
  gThreadNum   \* the number of ThreadStart callbacks so far

threadVars == <<live, tls, gThreadNum>>

\* A slot of the thread-local storage: empty, a local_stat_t with the flag
\* enabled, or a dangling pointer to one that ThreadEnd has deleted.
TlsStates == {"null", "disabled", "enabled", "deleted"}

ThreadTypeOK == /\ live \subseteq Threads
                /\ tls \in [Threads -> TlsStates]
                /\ gThreadNum \in 0 .. MaxStarts

ThreadInit == /\ live = {}
              /\ tls = [t \in Threads |-> "null"]
              /\ gThreadNum = 0

\* Pin gives a new thread the lowest id not in use.  The main thread starts
\* first; once all threads have exited there is none to start another.
MayStart(t) == /\ gThreadNum < MaxStarts
               /\ t \notin live
               /\ \A u \in Threads : u < t => u \in live
               /\ gThreadNum > 0 => live # {}

\* ThreadStart and ThreadStart_hook: every thread but the main one, whose
\* start the controller announces, records from its first instruction on.
ThreadStart(t) ==
  /\ MayStart(t)
  /\ live' = live \cup {t}
  /\ gThreadNum' = gThreadNum + 1
  /\ tls' = [tls EXCEPT ![t] = IF t = 0 THEN "disabled" ELSE "enabled"]

\* ThreadFini and the empty ThreadFini_hook: the block of the thread stays.
ThreadFini(t) ==
  /\ t \in live
  /\ live' = live \ {t}
  /\ UNCHANGED <<tls, gThreadNum>>

\* ControlHandler: the controller's events are delivered on the thread that
\* they concern.
activate(t) ==
  /\ t \in live
  /\ tls' = [tls EXCEPT ![t] = "enabled"]
  /\ UNCHANGED <<live, gThreadNum>>

deactivate(t) ==
  /\ t \in live
  /\ tls' = [tls EXCEPT ![t] = "disabled"]
  /\ UNCHANGED <<live, gThreadNum>>

\* ThreadEnd, called by Fini: delete the blocks of the ids below gThreadNum.
ThreadEnd ==
  /\ tls' = [t \in Threads |-> IF t < gThreadNum /\ tls[t] # "null"
                               THEN "deleted" ELSE tls[t]]
  /\ UNCHANGED <<live, gThreadNum>>
=============================================================================
