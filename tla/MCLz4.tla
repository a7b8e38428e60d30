------------------------------- MODULE MCLz4 -------------------------------
(* The lengths at which an encoding or a loop of the decoder changes, and     *)
(* sizes around its thresholds.                                               *)
EXTENDS Lz4

MCInputSizes == {0, 1, 12, 13, 17, 40, 90, 300}
MCSlacks == {0, 18, 22}
MCLitLens == {0, 1, 15, 270}
MCMatchLens == {4, 19, 276}
MCOffsets == {1, 2, 3, 4, 6, 8, 16}

MCForeignSizes == ({0, 1, 8, 16, 18, 30} \X {0, 1, 13, 32, 40, 65}) \union ({50} \X {12, 64, 110})
MCForeignLits == {0, 1, 14, 15, 270}
MCForeignMatches == {4, 17, 18, 19, 274}
MCForeignOffsets == {0, 1, 8, 16}
=============================================================================
