------------------------------ MODULE MCCodecs ------------------------------
(* Codecs with bytes of 4 bits, small tables and every size at which one of    *)
(* the ciphers changes its behaviour.                                          *)
EXTENDS Codecs

Listed(seq) == [i \in 0 .. Len(seq) - 1 |-> seq[i + 1]]

MCSbox == Listed(<<9, 4, 10, 11, 13, 1, 8, 5, 6, 2, 0, 3, 12, 14, 15, 7>>)
MCRc4Init == [x \in 0 .. 15 |-> (7 * x * x + 3 * x + 5) % 16]

Quarters(n) == [r \in 0 .. 3 |-> [x \in 0 .. 15 |-> ((2 * r + n) * x + 5 * r + 1) % 16]]

MCMhyTables ==
  [lut |-> Listed(<<
     Listed(<<11, 2, 8, 12, 1, 5, 0, 15, 6, 7, 9, 3, 13, 4, 14, 10>>),
     Listed(<<4, 5, 7, 10, 2, 15, 11, 8, 14, 13, 9, 6, 12, 3, 0, 1>>),
     Listed(<<8, 0, 12, 6, 4, 11, 7, 9, 5, 3, 15, 1, 13, 10, 2, 14>>)>>),
   key |-> Listed(<<8, 4, 6, 13, 14, 4, 11, 6>>),
   gf_idx |-> Listed(<<7, 9, 6, 5, 9, 13, 15, 8>>),
   tbl |-> Quarters(3)]

MCBlb3Tables ==
  [lut |-> Listed(<<
     Listed(<<5, 10, 3, 8, 15, 2, 7, 9, 0, 6, 14, 11, 12, 1, 4, 13>>),
     Listed(<<5, 14, 8, 6, 1, 12, 7, 9, 0, 15, 3, 11, 4, 13, 2, 10>>),
     Listed(<<4, 15, 13, 5, 12, 8, 2, 9, 11, 1, 7, 3, 10, 0, 6, 14>>)>>),
   key |-> Listed(<<9, 5, 7, 13, 11, 9, 1, 3>>),
   gf_idx |-> Listed(<<8, 3, 15, 5, 9, 12, 14, 12>>),
   tbl |-> Quarters(5)]

\* Bytes without an evident pattern.
Noise(n, a) == [x \in 0 .. n - 1 |-> (a * x * x + 3 * x + (x \div 7) * a + a) % 16]

RoundKeys(a) == [r \in 0 .. 10 |-> Noise(16, a + r)]

MCModes ==
  LET const(block, scramble, xor, aes, post) ==
        [block_key |-> block, scramble_key |-> scramble, xor_key |-> xor,
         aes_round_keys |-> aes, post_key |-> post]
      hkrpg == const(Noise(32, 5), None, Noise(16, 6), RoundKeys(1), None)
  IN  [cbt1 |-> const(None, None, None, None, None),
       hkrpg |-> hkrpg,
       bh3 |-> const(Noise(32, 7), Quarters(7), Noise(16, 9), RoundKeys(2), None),
       bh3_early |-> const(Noise(32, 2), None, None, RoundKeys(3), None),
       nxx |-> [hkrpg EXCEPT !.post_key = Noise(24, 11)]]

MCMemories == {Noise(MemSize, a) : a \in {1, 4, 10}}
MCKey == Noise(16, 13)

MCCases ==
  [cipher : {"mhy0", "mhy1", "blb3"}, isHeader : BOOLEAN, mode : {"cbt1"},
   size : {8, 15, 16, 17, 31, 32, 33, 36, 40, 51, 52, 55, 56, 57, 61}]
  \cup [cipher : {"mr0k"}, isHeader : {FALSE}, mode : DOMAIN MCModes,
        size : {147, 148, 276, 404, 532}]
=============================================================================
