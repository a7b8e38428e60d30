--------------------------- MODULE MCBlockPacker ---------------------------
(* BlockPacker on small instances. *)
EXTENDS BlockPackerInv

\* Empty, less than a block of three, a block, more than one and more than two.
MCAny   == {0, 1, 2, 3, 5, 7}
MCCount == 0 .. Files + 1     \* fewer cabs than files up to one too many
=============================================================================
