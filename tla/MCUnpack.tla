------------------------------ MODULE MCUnpack ------------------------------
(* Unpack on files of one and two archives of up to two cabs and blocks, with *)
(* blocks shorter than, as long as and longer than the ciphers' windows.      *)
EXTENDS Unpack

Short == 1
Sizes == {Short, 2, 3, 4}

PackOf(cabs, cmp, dec, stored) ==
  [hdr |-> 3, stored |-> stored, cabs |-> cabs, cmp |-> cmp, dec |-> dec]

\* Blocks of two cells.
Packs ==
  {PackOf(<<2>>, <<s>>, <<2>>, FALSE) : s \in Sizes}
  \cup {PackOf(<<1, 2>>, <<s, t>>, <<2, 1>>, FALSE) : s, t \in Sizes}
  \cup {PackOf(<<3, 1>>, <<s, t>>, <<2, 2>>, FALSE) : s, t \in {2, 4}}

MCInputs ==
  {"mhy0", "mhy1", "encr", "blb3"} \X
    ({<<a>> : a \in Packs} \cup {<<a, b>> : a, b \in Packs})

\* encr files as other programs write them: stored headers.
StoredInputs ==
  {"encr"} \X
    {<<PackOf(<<2>>, <<s>>, <<2>>, x), PackOf(<<1, 2>>, <<3, t>>, <<2, 1>>, y)>> :
       s, t \in Sizes, x, y \in BOOLEAN}
=============================================================================
