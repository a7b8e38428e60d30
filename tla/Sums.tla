-------------------------------- MODULE Sums --------------------------------
(***************************************************************************)
(* Where the elements of a sequence of sizes start when they follow each   *)
(* other: the running offsets of the packers and unpackers.                *)
(***************************************************************************)
EXTENDS Integers, Sequences

\* The sums of the first 0, 1, 2 ... elements.
Sums(seq) ==
  LET upTo[k \in 0 .. Len(seq)] == IF k = 0 THEN 0 ELSE upTo[k - 1] + seq[k]
  IN  upTo

Sum(seq)       == Sums(seq)[Len(seq)]
Before(seq, k) == Sums(seq)[k - 1]
=============================================================================
