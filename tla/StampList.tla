------------------------------ MODULE StampList ------------------------------
(***************************************************************************)
(* TStampList: the threads that accessed a datum, linked from the one that *)
(* accessed it last to the one whose last access is the oldest.  The links *)
(* are indices into an array with one element per thread; a thread that    *)
(* never accessed the datum has the stamp 0 and is not in the list.        *)
(***************************************************************************)
EXTENDS ThreadIds

StampLists == [head   : Threads \cup {NIL},
               next   : [Threads -> Threads \cup {NIL}],
               latest : [Threads -> Nat]]

EmptyStamps == [head   |-> NIL,
                next   |-> [t \in Threads |-> NIL],
                latest |-> [t \in Threads |-> 0]]

\* Mutant: the thread is linked in front but not unlinked where it was.
NotUnlinked(list, t, pos, pr) ==
  [head   |-> t,
   next   |-> IF pr = NIL THEN list.next ELSE [list.next EXCEPT ![t] = list.head],
   latest |-> [list.latest EXCEPT ![t] = pos]]

\* Mutant: the thread leaves its place but is not linked in front.
NotLinked(list, t, pos, pr) ==
  [head   |-> t,
   next   |-> IF pr = NIL THEN list.next ELSE [list.next EXCEPT ![pr] = list.next[t]],
   latest |-> [list.latest EXCEPT ![t] = pos]]

\* Mutant: the stamp of a thread that is at the front already stays.
NotStamped(list, t, pos, pr) ==
  [head   |-> t,
   next   |-> IF pr = NIL THEN list.next
              ELSE [list.next EXCEPT ![pr] = list.next[t], ![t] = list.head],
   latest |-> IF list.head = t THEN list.latest ELSE [list.latest EXCEPT ![t] = pos]]

\* Give thread t the stamp pos and move it to the front.  pr is the thread
\* before it, or the last one of the list when t is not in it; it is NIL when
\* t is at the front already or the list is empty.
MovedToFront(list, t, pos, pr) ==
  [head   |-> t,
   next   |-> IF pr = NIL THEN list.next
              ELSE [list.next EXCEPT ![pr] = list.next[t], ![t] = list.head],
   latest |-> [list.latest EXCEPT ![t] = pos]]

\* The threads in the list whose last access is older than that of u.
Older(list, u) ==
  {w \in Threads : 0 < list.latest[w] /\ list.latest[w] < list.latest[u]}

\* The pointers of a list: it starts at the latest stamp, each stamp's next
\* is the latest one before it, the oldest ends it, and a thread that never
\* accessed the datum is not in it.
MostRecentFirst(list) ==
  /\ list.head = NIL <=> \A u \in Threads : list.latest[u] = 0
  /\ list.head # NIL => /\ list.latest[list.head] > 0
                        /\ \A u \in Threads : list.latest[u] <= list.latest[list.head]
  /\ \A u \in Threads :
       IF list.next[u] = NIL
       THEN Older(list, u) = {}
       ELSE /\ list.next[u] \in Older(list, u)
            /\ \A w \in Older(list, u) : list.latest[w] <= list.latest[list.next[u]]
  /\ \A u, v \in Threads : u # v /\ list.latest[u] > 0 => list.latest[u] # list.latest[v]

\* The threads passed by a walk that starts at the head and has come to i.
Passed(list, i) ==
  {u \in Threads : list.latest[u] > (IF i = NIL THEN 0 ELSE list.latest[i])}
=============================================================================
