------------------------------ MODULE ThreadIds ------------------------------
(***************************************************************************)
(* The thread ids of Pin: 0 is the main thread, and the id of a thread     *)
(* that has exited is given to a later one.                                *)
(***************************************************************************)
EXTENDS Integers

CONSTANT NumThreads  \* at most this many threads run at a time

ASSUME ThreadIdAssumption == NumThreads \in Nat \ {0}

Threads == 0 .. NumThreads - 1

NIL == -1   \* no thread, in the links of a list
=============================================================================
