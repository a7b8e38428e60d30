------------------------------ MODULE XorWords ------------------------------
(***************************************************************************)
(* 64-bit words and their exclusive or. A word is the set of its bits that *)
(* are 1; uint64_t has 64 of them, a model has as many as it needs.        *)
(***************************************************************************)
EXTENDS Integers, Sequences, FiniteSets

CONSTANT Bits

ASSUME BitsAssumption == IsFiniteSet(Bits)

W64  == SUBSET Bits
Zero == {}

a ^^ b == (a \ b) \cup (b \ a)

Not(a) == Bits \ a

\* for (...) seed ^= data[i]; over the first n words of data.
XorFirst(data, n) ==
  {bit \in Bits : Cardinality({k \in 1 .. n : bit \in data[k]}) % 2 = 1}

Smaller(x, y) == IF x <= y THEN x ELSE y
=============================================================================
