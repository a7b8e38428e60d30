---------------------------- MODULE BlockCiphers ----------------------------
(***************************************************************************)
(* The ciphers of mhy0.c, mhy1.c and blb3.c. Each works in place on the     *)
(* start of a header or block; memory is a function over offsets from that  *)
(* start which goes on past the block's end.                                *)
(***************************************************************************)
EXTENDS Aes, Rc4

CONSTANTS
  MhyTables,  \* lut, key, gf_idx and blkScrambleTbl of mhy0.c and blk.c
  Blb3Tables, \* those of blb3.c
  CryptMax    \* 0x80: how much of a block mhy1 and blb3 encrypt

\* tbl holds the four quarters of a scramble table.
TablesMatch(T) ==
  /\ \A j \in 0 .. 2 : T.lut[j] \in [Idx -> Idx] /\ IsInjective(T.lut[j])
  /\ T.key \in [0 .. 7 -> Byte] /\ T.gf_idx \in [0 .. 7 -> Byte \ {0}]
  /\ \A r \in 0 .. 3 : T.tbl[r] \in [Byte -> Byte] /\ IsInjective(T.tbl[r])

ASSUME TablesAssumption == TablesMatch(MhyTables) /\ TablesMatch(Blb3Tables)

\* It covers the rounds of a header and the keys before them.
ASSUME CryptMaxAssumption == CryptMax \in Nat /\ CryptMax >= 52

-----------------------------------------------------------------------------
(* Memory.                                                                 *)

Slice(mem, lo, n) == Strict([k \in 0 .. n - 1 |-> mem[lo + k]])

Put(mem, lo, data) ==
  Strict([x \in DOMAIN mem |-> IF x - lo \in DOMAIN data THEN data[x - lo] ELSE mem[x]])

\* xorCrypt(mem + at, n, key, keySz)
XorCrypt(mem, lo, n, key, keySz) ==
  Strict([x \in DOMAIN mem |->
    IF x \in lo .. lo + n - 1 THEN mem[x] (+) key[(x - lo) % keySz] ELSE mem[x]])

-----------------------------------------------------------------------------
(* The three rounds that all of the formats share, on 16 bytes.             *)

UnmixRound(T, j, b) ==
  Strict([k \in Idx |->
    T.tbl[k % 4][gf256mul(T.gf_idx[k % 8], b[T.lut[j][k]])] (+) T.key[k % 8]])

\* lut[2 - j] for j = 0, 1, 2
Unmixed(T, b) == UnmixRound(T, 0, UnmixRound(T, 1, UnmixRound(T, 2, b)))

\* t[v] for v = lut[j][k]: the search for q in the table always ends.
MixRound(T, j, b) ==
  Strict([v \in Idx |->
     LET k == CHOOSE x \in Idx : T.lut[j][x] = v
         l == CHOOSE x \in Byte : T.tbl[k % 4][x] = T.key[k % 8] (+) b[k]
     IN  gf256div(l, T.gf_idx[k % 8])])

\* Mutant of Mixed3: the tables in the order that decrypt takes them.
MixedBackwards(T, b) == MixRound(T, 0, MixRound(T, 1, MixRound(T, 2, b)))

Mixed3(T, b) == MixRound(T, 2, MixRound(T, 1, MixRound(T, 0, b)))

MixAt(T, mem, lo)   == Put(mem, lo, Mixed3(T, Slice(mem, lo, 16)))
UnmixAt(T, mem, lo) == Put(mem, lo, Unmixed(T, Slice(mem, lo, 16)))

\* *(uint32_t*) in ^= *(uint32_t*) (in + at)
XorHead(mem, lo) == XorCrypt(mem, 0, 4, Slice(mem, lo, 4), 4)

-----------------------------------------------------------------------------
(* mhy0: a fixed window, whatever the size.                                *)

Window(isHeader)    == IF isHeader THEN 57 ELSE 33 \* 0x39, 0x21
ChunkSize(isHeader) == IF isHeader THEN 28 ELSE 8  \* 0x1c
RoundSize(isHeader) == IF isHeader THEN 32 ELSE 16

\* The while loop: the bytes after the rounds, xored chunk by chunk with the
\* bytes at in + 4.
Chained(mem, isHeader) ==
  LET start == RoundSize(isHeader) + 4
  IN  XorCrypt(mem, start, Window(isHeader) - start,
               Slice(mem, 4, ChunkSize(isHeader)), ChunkSize(isHeader))

Mhy0Mixed(mem, isHeader) ==
  IF isHeader THEN MixAt(MhyTables, MixAt(MhyTables, mem, 4), 20)
  ELSE MixAt(MhyTables, mem, 4)

Mhy0Unmixed(mem, isHeader) ==
  IF isHeader THEN UnmixAt(MhyTables, UnmixAt(MhyTables, mem, 4), 20)
  ELSE UnmixAt(MhyTables, mem, 4)

mhy0_encrypt(mem, isHeader) == Mhy0Mixed(XorHead(Chained(mem, isHeader), 4), isHeader)

mhy0_decrypt(mem, isHeader) == Chained(XorHead(Mhy0Unmixed(mem, isHeader), 4), isHeader)

-----------------------------------------------------------------------------
(* mhy1: as far as the block goes, CryptMax at most.                       *)

Capped(size) == IF size < CryptMax THEN size ELSE CryptMax

\* assert(size >= (roundSize + 20))
Mhy1Accepts(size, isHeader) == Capped(size) >= RoundSize(isHeader) + 20

\* Mutant of Mhy1Tail: one byte more than the block has.
Mhy1TailLong(size, isHeader) == Capped(size) - RoundSize(isHeader) - 19

\* The bytes that rc4 works on, from in + 20 + roundSize.
Mhy1Tail(size, isHeader) == Capped(size) - RoundSize(isHeader) - 20

mhy1_encrypt(mem, size, isHeader) ==
  LET from == 20 + RoundSize(isHeader)
      m1 == Put(mem, from, rc4_dec_mhy(Slice(mem, 20, 8),
                  Slice(mem, from, Mhy1Tail(size, isHeader)), Slice(mem, 28, 8)))
      m2 == XorHead(m1, 20)
      m3 == Put(m2, 20, aesUnscrambleKey(Slice(m2, 20, 16), aesGetRoundKeys(Slice(m2, 0, 16))))
  IN  MixAt(MhyTables, MixAt(MhyTables, m3, 4), 20)

mhy1_decrypt(mem, size, isHeader) ==
  LET from == 20 + RoundSize(isHeader)
      m1 == UnmixAt(MhyTables, UnmixAt(MhyTables, mem, 4), 20)
      m2 == Put(m1, 20, aesScrambleKey(Slice(m1, 20, 16), aesGetRoundKeys(Slice(m1, 0, 16))))
      m3 == XorHead(m2, 20)
  IN  Put(m3, from, rc4_mhy(Slice(m3, 20, 8),
            Slice(m3, from, Mhy1Tail(size, isHeader)), Slice(m3, 28, 8)))

-----------------------------------------------------------------------------
(* blb3.                                                                   *)

\* size - 0x10 >= 16 on a size_t: below 16 it wraps and is true.
Steps(size) == size < 16 \/ size - 16 >= 16

FirstBytes(size) == IF size > 16 THEN 16 ELSE size

\* rc4 only runs when size > 16.
Blb3Tail(size) == IF Capped(size) > 16 THEN Capped(size) - 16 ELSE 0

blb3_decrypt(mem, size, xor_key) ==
  LET m1 == XorCrypt(mem, 0, FirstBytes(size), xor_key, 16)
      m2 == Put(m1, 0, aesScrambleKeyBlb3(Slice(m1, 0, 16), aesGetRoundKeysBlb3(xor_key)))
      m3 == Put(m2, 16, rc4_blb3(Slice(m2, 0, 8), Slice(m2, 16, Blb3Tail(size)), Slice(m2, 8, 8)))
  IN  IF Steps(size) THEN UnmixAt(Blb3Tables, m3, 0) ELSE m1

blb3_encrypt(mem, size, xor_key) ==
  LET m1 == MixAt(Blb3Tables, mem, 0)
      m2 == Put(m1, 16, rc4_dec_blb3(Slice(m1, 0, 8), Slice(m1, 16, Blb3Tail(size)),
                                     Slice(m1, 8, 8)))
      m3 == Put(m2, 0, aesUnscrambleKeyBlb3(Slice(m2, 0, 16), aesGetRoundKeysBlb3(xor_key)))
  IN  XorCrypt(IF Steps(size) THEN m3 ELSE mem, 0, FirstBytes(size), xor_key, 16)
=============================================================================
