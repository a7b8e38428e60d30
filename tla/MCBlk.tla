------------------------------- MODULE MCBlk -------------------------------
(* Blk on small instances: words of one bit, bytes of three, pads of 16    *)
(* words. A text of one word announces Swap16(2) = 16 bytes, as one of 8   *)
(* bytes announces 2048; a text of Sample bytes announces one word.        *)
EXTENDS Blk

CONSTANTS Lengths, InitialFiles

\* A text of each length, with a bit in the first word.
MCTexts == {[k \in 1 .. n |-> IF k = 1 THEN Bits ELSE {}] : n \in Lengths}

MCPad == [seed \in W64 |->
           [k \in 0 .. PadWords - 1 |-> IF k % 3 = 0 THEN Not(seed) ELSE seed]]

MCTransform == [k \in Key |-> <<k[2], Not(k[1] ^^ k[2])>>]
MCConst == Bits

MCInit == Init /\ {f \in File : files[f] # NoFile} = InitialFiles
MCSpec == MCInit /\ [][Next]_vars
=============================================================================
