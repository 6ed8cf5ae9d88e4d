---------------------------- MODULE MCComposition ----------------------------
(***************************************************************************)
(* The accesses the instances of SetComposition choose from: one per line. *)
(***************************************************************************)
EXTENDS SetComposition

LineAccesses == {[addr |-> l * LineSize, size |-> 1] : l \in Lines}
=============================================================================
