---------------------------- MODULE RecencyTable ----------------------------
(***************************************************************************)
(* What the stamp table promises: a table of the last access of every      *)
(* thread to every datum, in which an access of any number of data takes   *)
(* one tick of the clock and happens all at once.  Nothing is recorded     *)
(* after the table has been closed for the report.                         *)
(***************************************************************************)
EXTENDS Integers

CONSTANTS Threads, Data

VARIABLES clock, last, closed

tableState == <<clock, last, closed>>

Init == /\ clock = 0
        /\ last = [d \in Data |-> [t \in Threads |-> 0]]
        /\ closed = FALSE

Record(t, D) ==
  /\ ~ closed
  /\ clock' = clock + 1
  /\ last' = [d \in Data |-> IF d \in D THEN [last[d] EXCEPT ![t] = clock + 1]
                                        ELSE last[d]]
  /\ UNCHANGED closed

Close == /\ ~ closed
         /\ closed' = TRUE
         /\ UNCHANGED <<clock, last>>

Next == \/ \E t \in Threads, D \in (SUBSET Data) \ {{}} : Record(t, D)
        \/ Close

Spec == Init /\ [][Next]_tableState
=============================================================================
