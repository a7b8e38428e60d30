--------------------------------- MODULE Aes ---------------------------------
(***************************************************************************)
(* The three variants of AES-128 in mhycrypt.c: the standard one of mhy1,   *)
(* the one with the directions swapped of ec2b, blk and mr0k, and the one   *)
(* of blb3, whose round keys lie transposed. A 16 byte key is a function    *)
(* over Idx, round keys are functions from 0 .. 10 to such keys.            *)
(***************************************************************************)
EXTENDS Bytes, Sequences

CONSTANT Sbox

ASSUME SboxAssumption == Sbox \in Bijection(Byte, Byte)

Idx   == 0 .. 15
Block == [Idx -> Byte]

SboxInv == Inverse(Sbox, Byte, Byte)

\* rcon[r + 1]
Rcon == Iterates(9, 1, [r \in 1 .. 9 |-> Mul2])

ShiftTbl     == [i \in Idx |-> (5 * i) % 16]
ShiftTblInv  == [i \in Idx |-> (13 * i) % 16]
ShiftTblBlb3 == [i \in Idx |-> 4 * (i % 4) + (i \div 4)]

subBytes(key)     == [i \in Idx |-> Sbox[key[i]]]
subBytesInv(key)  == [i \in Idx |-> SboxInv[key[i]]]
shiftRows(key)    == [i \in Idx |-> key[ShiftTbl[i]]]
shiftRowsInv(key) == [i \in Idx |-> key[ShiftTblInv[i]]]

\* The byte n places after byte i in its column of 4, which wraps around.
InColumn(key, i, n) == key[4 * (i \div 4) + ((i + n) % 4)]

mixCols(key) ==
  [i \in Idx |-> Mul2[InColumn(key, i, 0)] (+) Mul3[InColumn(key, i, 1)]
                   (+) InColumn(key, i, 2) (+) InColumn(key, i, 3)]

mixColsInv(key) ==
  [i \in Idx |-> MulE[InColumn(key, i, 0)] (+) Mul9[InColumn(key, i, 3)]
                   (+) MulD[InColumn(key, i, 2)] (+) MulB[InColumn(key, i, 1)]]

\* xorCrypt(key, 16, roundKey, 16)
roundKey(key, round) == Strict([i \in Idx |-> key[i] (+) round[i]])

\* Mutant of roundKeyBlb3: takes the round key as it lies.
roundKeyStraight(key, round) == roundKey(key, round)

roundKeyBlb3(key, round) ==
  Strict([i \in Idx |-> key[i] (+) round[4 * (i % 4) + (i \div 4)]])

-----------------------------------------------------------------------------
(* The rounds. The variants share their shape.                             *)

Scrambled(key, roundKeys, Sub(_), Shift(_), Mix(_), Xor(_, _)) ==
  LET round == [i \in 1 .. 9 |-> [k \in Block |-> Xor(Mix(Shift(Sub(k))), roundKeys[i])]]
      last  == Iterates(9, Xor(key, roundKeys[0]), round)[9]
  IN  Xor(Shift(Sub(last)), roundKeys[10])

Unscrambled(key, roundKeys, SubInv(_), ShiftInv(_), MixInv(_), Xor(_, _)) ==
  LET round == [i \in 1 .. 9 |->
                  [k \in Block |-> SubInv(ShiftInv(MixInv(Xor(k, roundKeys[10 - i]))))]]
      last  == Iterates(9, SubInv(ShiftInv(Xor(key, roundKeys[10]))), round)[9]
  IN  Xor(last, roundKeys[0])

aesScrambleKey(key, roundKeys) ==
  Scrambled(key, roundKeys, subBytes, shiftRows, mixCols, roundKey)

aesUnscrambleKey(key, roundKeys) ==
  Unscrambled(key, roundKeys, subBytesInv, shiftRowsInv, mixColsInv, roundKey)

aesScrambleKeyMhy(key, roundKeys) ==
  Scrambled(key, roundKeys, subBytesInv, shiftRowsInv, mixColsInv, roundKey)

aesUnscrambleKeyMhy(key, roundKeys) ==
  Unscrambled(key, roundKeys, subBytes, shiftRows, mixCols, roundKey)

aesScrambleKeyBlb3(key, roundKeys) ==
  Scrambled(key, roundKeys, subBytes, shiftRows, mixCols, roundKeyBlb3)

aesUnscrambleKeyBlb3(key, roundKeys) ==
  Unscrambled(key, roundKeys, subBytesInv, shiftRowsInv, mixColsInv, roundKeyBlb3)

-----------------------------------------------------------------------------
(* The round keys.                                                         *)

\* key and what Next makes of each round key, 11 in all.
Expanded(key, NextKey(_, _)) ==
  Iterates(10, key, [r \in 1 .. 10 |-> [prev \in Block |-> NextKey(prev, r)]])

\* Word 0 is the last word, rotated and substituted, with word 0 of prev; each
\* other word is the one before it with its own word of prev.
NextRoundKey(prev, r) ==
  LET With(word, w) == Strict([p \in 0 .. 3 |-> word[p] (+) prev[4 * w + p]])
      core == [p \in 0 .. 3 |->
                 Sbox[prev[12 + ((p + 1) % 4)]] (+) (IF p = 0 THEN Rcon[r - 1] ELSE 0)]
      w0 == With(core, 0)
      w1 == With(w0, 1)
      w2 == With(w1, 2)
      w3 == With(w2, 3)
  IN  Strict([i \in Idx |-> <<w0, w1, w2, w3>>[(i \div 4) + 1][i % 4]])

aesGetRoundKeys(key) == Expanded(key, NextRoundKey)

\* The unrolled loop: c, e, a and b of the code run along four rows. P[n] is
\* _roundKeys[o - 31 + n].
NextRoundKeyBlb3(P, r) ==
  LET With(column, n) == Strict([row \in 0 .. 3 |-> column[row] (+) P[4 * row + n]])
      a == Sbox[P[11]] (+) P[11]
      b == Sbox[P[15]] (+) P[15]
      c == Sbox[P[7]] (+) Rcon[r - 1] (+) P[0]
      d == Sbox[P[3]] (+) P[3]
      head == <<c, a (+) P[11] (+) P[4], b (+) P[15] (+) P[8], d (+) P[3] (+) P[12]>>
      c0 == [row \in 0 .. 3 |-> head[row + 1]]
      c1 == With(c0, 1)
      c2 == With(c1, 2)
      c3 == With(c2, 3)
  IN  Strict([i \in Idx |-> <<c0, c1, c2, c3>>[(i % 4) + 1][i \div 4]])

aesGetRoundKeysBlb3(key) ==
  Expanded([i \in Idx |-> key[ShiftTblBlb3[i]]], NextRoundKeyBlb3)
=============================================================================
