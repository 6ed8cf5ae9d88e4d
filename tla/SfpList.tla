------------------------------- MODULE SfpList -------------------------------
(***************************************************************************)
(* sfp_list.H: TList, a list over a fixed array.  An element is named by   *)
(* its index; it is linked by next, and keeps its time and its link also   *)
(* when it is not in the list.                                             *)
(***************************************************************************)
EXTENDS ThreadIds

\* The lists over the elements E.
TLists(E) == [head : E \cup {NIL}, next : [E -> E \cup {NIL}], time : [E -> Nat]]

TList(E) == [head |-> NIL, next |-> [e \in E |-> NIL], time |-> [e \in E |-> 0]]

set_at(s, e, time) == [s EXCEPT !.time[e] = time]

\* The element becomes the head, and keeps its place in the list.
set_front(s, e) == IF s.head = e THEN s ELSE [s EXCEPT !.next[e] = s.head, !.head = e]

\* Element e, which comes after b, leaves the list.
erase(s, b, e) == [s EXCEPT !.next[b] = s.next[e]]

\* Element e becomes the last one.
remove_rest(s, e) == [s EXCEPT !.next[e] = NIL]
=============================================================================
