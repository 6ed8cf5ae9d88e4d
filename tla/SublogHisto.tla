----------------------------- MODULE SublogHisto -----------------------------
(***************************************************************************)
(* The bucketing of histo.H.  An interval length is not counted exactly    *)
(* but in a bucket of a logarithmic histogram with 2^SublogBits linear     *)
(* sub-buckets per octave: lengths below 2^SublogBits have a bucket of     *)
(* their own, and every further octave is cut into 2^SublogBits buckets of *)
(* equal width.                                                            *)
(***************************************************************************)
EXTENDS Integers

CONSTANTS
  SublogBits,  \* SUBLOG_BITS: 8 in anyk-sfp.cpp
  WordBits     \* the width of the values: 64 in the code

ASSUME SublogAssumption == /\ SublogBits \in Nat \ {0}
                           /\ WordBits \in Nat
                           /\ SublogBits < WordBits

SubBuckets == 2 ^ SublogBits

\* MAX_WINDOW, the number of buckets every array of counts is declared with.
MAX_WINDOW == (WordBits + 1 - SublogBits) * SubBuckets

\* The bsr instruction: the position of the highest set bit of v > 0.
Msb(v) == CHOOSE m \in 0 .. WordBits - 1 : 2 ^ m <= v /\ v < 2 ^ (m + 1)

\* Mutant: the bits below the highest one are taken without the shift.
unshifted_value_to_index(v) ==
  IF v < SubBuckets
  THEN v
  ELSE LET shift == Msb(v) - SublogBits
       IN  ((shift + 1) * SubBuckets) + (v % SubBuckets)

\* The bucket of a value: its octave, and within it the SublogBits bits below
\* the highest one.
sublog_value_to_index(v) ==
  IF v < SubBuckets
  THEN v
  ELSE LET shift == Msb(v) - SublogBits
       IN  ((shift + 1) * SubBuckets) + ((v \div 2 ^ shift) % SubBuckets)

\* The smallest value of a bucket.
sublog_index_to_value(j) ==
  LET shift == j \div SubBuckets
      t     == j % SubBuckets
  IN  IF shift = 0 THEN j ELSE (SubBuckets + t) * 2 ^ (shift - 1)
=============================================================================
