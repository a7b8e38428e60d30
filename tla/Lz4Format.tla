----------------------------- MODULE Lz4Format -----------------------------
(***************************************************************************)
(* The LZ4 block format, by the sizes of its parts: a block is a series of  *)
(* sequences, each a token, a run of literals and a match that repeats      *)
(* earlier output; the last sequence is literals only. Lengths from 15 on   *)
(* continue in further bytes, 255 as long as more than 255 is left.         *)
(***************************************************************************)
EXTENDS Integers

MINMATCH == 4
WILDCOPYLENGTH == 8
LASTLITERALS == 5
MFLIMIT == 12
MATCH_SAFEGUARD_DISTANCE == 2 * WILDCOPYLENGTH - MINMATCH
FASTLOOP_SAFE_DISTANCE == 64
LZ4_DISTANCE_MAX == 65535
ML_MASK  == 15
RUN_MASK == 15

Larger(a, b)  == IF a >= b THEN a ELSE b
Lesser(a, b)  == IF a <= b THEN a ELSE b

\* Bytes that a length of `nibble` or more adds to the token.
ExtraBytes(length, mask) == IF length >= mask THEN (length - mask) \div 255 + 1 ELSE 0

\* Mutant: without the bytes a block needs at any size.
BoundWithoutMargin(isize) == isize + isize \div 255

\* What a block of nothing but literals needs, and more than any other.
LZ4_COMPRESSBOUND(isize) == isize + isize \div 255 + 16

\* Where a copy in steps of `width` that ends at or after `end` stops: the
\* loops test after the first step.
Turns(length, width) == Larger(1, (length + width - 1) \div width)
CopyEnd(start, length, width) == start + width * Turns(length, width)
=============================================================================
