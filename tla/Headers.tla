------------------------------- MODULE Headers -------------------------------
(***************************************************************************)
(* The headers of the four formats, byte by byte: pack_* writes them,       *)
(* extract_* reads them, and what only the other of the two knows travels   *)
(* in the .hdr, .cabN.hdr and .blkN.key files beside the cabs. Every offset *)
(* is written down twice in the code, in two functions that share nothing.  *)
(*                                                                         *)
(* Memory is a function from the offsets that were written to bytes.        *)
(* Ciphers and LZ4 return what they were given (Codecs, Lz4), so a header   *)
(* is kept plain. Numbers are read as 32 bit two's complement; no size or   *)
(* offset here reaches 2^31. mr0k blocks and headers are left out.          *)
(***************************************************************************)
EXTENDS Sums, FiniteSetsExt

CONSTANTS
  Originals,   \* format -> archives of other packers
  CabSizes,    \* sizes that an edited cab can have
  Compressed,  \* sequences of compressed block sizes, by block
  HeaderSize,  \* compressed size of a header
  RandomBytes, \* what getrandom returns for a key
  RandomName,  \* "CAB-" and what it returns in 32 hexadecimal digits
  Junk,        \* a byte of memory that was never written
  MaxPacks     \* bound: packs in a row

Byte      == 0 .. 255
Mhy0Magic == 1835563312 \* "mhy0"
Mhy1Magic == 1835563313 \* "mhy1"
EncrMagic == <<69, 78, 67, 82, 0>> \* "ENCR"
Blb3Magic == 1114399235 \* "Blb\003"
Blb3Type  == 4355       \* (17 << 8) | 3
BlockSize == 131072     \* 0x20000
SizeLimit == 2147483647 \* bound: bytes of cabs, and of an archive
NameLimit == 600        \* bound: characters that strlen looks at

ASSUME SizesAssumption ==
  HeaderSize \in Nat /\ CabSizes \subseteq Nat /\ Compressed \subseteq Seq(Nat) /\ MaxPacks \in Nat

ASSUME BytesAssumption ==
  RandomBytes \in [1 .. 40 -> Byte] /\ RandomName \in [1 .. 36 -> Byte \ {0}] /\ Junk \in Byte

VARIABLES
  format,
  archive, \* [outer, inner, inner_len, len, blocks]: the header and its parts
  meant,   \* [cabs, blks]: what the packer that wrote it put there
  files,   \* [hdr, cab, key]: the metadata files; hdr is <<>> or <<contents>>
  size,    \* sizes of the .cabN files
  before,  \* the last archive that was extracted
  edited,  \* whether a file was changed or lost since then
  packs, pc

vars == <<format, archive, meant, files, size, before, edited, packs, pc>>

-----------------------------------------------------------------------------
(* Memory.                                                                 *)

Digit(v, k) ==
  IF k < 4 THEN (v \div <<1, 256, 65536, 16777216>>[k + 1]) % 256
  ELSE IF v < 0 THEN 255 ELSE 0

\* 1 << k
Bit[k \in 0 .. 30] == IF k = 0 THEN 1 ELSE 2 * Bit[k - 1]

\* What a write of some bytes at an offset sets.
BytesAt(at, seq) == [x \in at .. at + Len(seq) - 1 |-> seq[x - at + 1]]
LeAt(at, n, v)   == [x \in at .. at + n - 1 |-> Digit(v, x - at)]
BeAt(at, n, v)   == [x \in at .. at + n - 1 |-> Digit(v, n - 1 - (x - at))]

shuffleInt(at, v) ==
  [x \in {at + 2, at + 4, at, at + 5} |->
     Digit(v, CASE x = at + 2 -> 0 [] x = at + 4 -> 1 [] x = at -> 2 [] x = at + 5 -> 3)]

shuffleUint(at, v) ==
  [x \in {at + 1, at + 6, at + 3, at + 2} |->
     Digit(v, CASE x = at + 1 -> 0 [] x = at + 6 -> 1 [] x = at + 3 -> 2 [] x = at + 2 -> 3)]

\* f itself; TLC evaluates it here, once, and not at each use of a value of it.
Strict(f) == CHOOSE g \in {f} : g = f

\* Memory after some writes: each byte is as the last of them left it.
Laid(writes) ==
  LET ws == Strict(writes)
  IN  Strict([x \in UNION {DOMAIN ws[i] : i \in DOMAIN ws} |->
                ws[Max({i \in DOMAIN ws : x \in DOMAIN ws[i]})][x]])

Get(m, x)      == IF x \in DOMAIN m THEN m[x] ELSE Junk
Read(m, at, n) == [k \in 1 .. n |-> Get(m, at + k - 1)]

Number(d0, d1, d2, d3) ==
  d0 + 256 * d1 + 65536 * d2 + 16777216 * (IF d3 >= 128 THEN d3 - 256 ELSE d3)

Le(m, at)   == Number(Get(m, at), Get(m, at + 1), Get(m, at + 2), Get(m, at + 3))
Be(m, at)   == Number(Get(m, at + 3), Get(m, at + 2), Get(m, at + 1), Get(m, at))
Be64(m, at) == Be(m, at + 4)

unshuffleInt(m, at)  == Number(Get(m, at + 2), Get(m, at + 4), Get(m, at), Get(m, at + 5))
unshuffleUint(m, at) == Number(Get(m, at + 1), Get(m, at + 6), Get(m, at + 3), Get(m, at + 2))

\* strlen
Strlen(m, at) ==
  CHOOSE k \in 0 .. NameLimit :
    (k = NameLimit \/ Get(m, at + k) = 0) /\ \A j \in 0 .. k - 1 : Get(m, at + j) # 0

\* strncpy(name, m + at, 256)
Name(m, at) == Read(m, at, Min({Strlen(m, at), 256}))

Sizes(cabs) == [c \in DOMAIN cabs |-> cabs[c].blk_sz]
Cmps(blks)  == [b \in DOMAIN blks |-> blks[b].cmp]

-----------------------------------------------------------------------------
(* mhy0 and mhy1 share everything in the compressed header: cab table, then *)
(* block table, numbers shuffled with bytes of unknown meaning in between.  *)

\* Mutant of MhyCab: the bytes in between first, the numbers after them.
MhyCabShifted(at, cab) ==
  LET extra == cab.meta.extra
  IN  Laid(<< BytesAt(at, cab.meta.name), BytesAt(at + 261, <<cab.meta.flag>>),
              shuffleInt(at + 262, cab.blk_off), shuffleUint(at + 267, cab.blk_sz),
              BytesAt(at + 263, <<extra[1]>>), BytesAt(at + 265, <<extra[2]>>),
              BytesAt(at + 268, <<extra[3]>>), BytesAt(at + 272, <<extra[4], extra[5]>>) >>)

\* One entry of 0x113 bytes.
MhyCab(at, cab) ==
  LET extra == cab.meta.extra
  IN  Laid(<< BytesAt(at, cab.meta.name), BytesAt(at + 261, <<cab.meta.flag>>),
              shuffleInt(at + 262, cab.blk_off), shuffleUint(at + 268, cab.blk_sz),
              BytesAt(at + 263, <<extra[1]>>), BytesAt(at + 265, <<extra[2]>>),
              BytesAt(at + 268, <<extra[3]>>), BytesAt(at + 272, <<extra[4], extra[5]>>) >>)

\* One entry of 13 bytes.
MhyBlock(at, blk, extra) ==
  Laid(<< shuffleInt(at, blk.cmp), shuffleUint(at + 6, blk.dec),
          BytesAt(at + 1, <<extra[1]>>), BytesAt(at + 3, <<extra[2]>>),
          BytesAt(at + 6, <<extra[3]>>), BytesAt(at + 10, <<extra[4], extra[5]>>) >>)

\* Where the block count is, and a block after it.
MhyCntAt(cab_cnt)      == 6 + 275 * cab_cnt
MhyBlockAt(cab_cnt, b) == 12 + 275 * cab_cnt + 13 * (b - 1)

\* beside: four bytes beside the two counts.
MhyInner(cabs, blks, beside, keys) ==
  LET n == Len(cabs)
  IN  Laid(<< shuffleInt(0, n), BytesAt(1, <<beside[1]>>), BytesAt(3, <<beside[2]>>),
              Laid([c \in DOMAIN cabs |-> MhyCab(6 + 275 * (c - 1), cabs[c])]),
              shuffleInt(MhyCntAt(n), Len(blks)),
              BytesAt(MhyCntAt(n) + 1, <<beside[3]>>), BytesAt(MhyCntAt(n) + 3, <<beside[4]>>),
              Laid([b \in DOMAIN blks |-> MhyBlock(MhyBlockAt(n, b), blks[b], keys[b].extra)]) >>)

MhyInnerLen(cabs, blks) == 275 * Len(cabs) + 13 * Len(blks) + 12

MhyReadCab(m, at) ==
  [meta |-> [name |-> Read(m, at, 260), flag |-> Get(m, at + 261),
             extra |-> << Get(m, at + 263), Get(m, at + 265), Get(m, at + 268),
                          Get(m, at + 272), Get(m, at + 273) >>],
   blk_off |-> unshuffleInt(m, at + 262), blk_sz |-> unshuffleUint(m, at + 268)]

MhyReadBlock(m, at) ==
  [cmp |-> unshuffleInt(m, at), dec |-> unshuffleUint(m, at + 6)]

\* Mutant of MhyReadExtra: a byte of the number in place of the one beside it.
MhyReadExtraOff(m, at) ==
  << Get(m, at + 1), Get(m, at + 2), Get(m, at + 6), Get(m, at + 10), Get(m, at + 11) >>

MhyReadExtra(m, at) ==
  << Get(m, at + 1), Get(m, at + 3), Get(m, at + 6), Get(m, at + 10), Get(m, at + 11) >>

\* The four bytes beside the counts.
MhyBeside(m, cab_cnt) ==
  << Get(m, 1), Get(m, 3), Get(m, MhyCntAt(cab_cnt) + 1), Get(m, MhyCntAt(cab_cnt) + 3) >>

\* hdr and heads are what the two formats keep in their own way.
MhyRead(m, hdr, heads, opens, hdr_sz) ==
  LET n == hdr.cab_cnt
      blk_cnt == unshuffleInt(m, MhyCntAt(n))
      blks == [b \in 1 .. blk_cnt |-> MhyReadBlock(m, MhyBlockAt(n, b))]
  IN  [opens |-> opens, hdr |-> hdr,
       cabs |-> [c \in 1 .. n |-> MhyReadCab(m, 6 + 275 * (c - 1))],
       blks |-> blks,
       keys |-> [b \in 1 .. blk_cnt |->
                   [head |-> heads[b], extra |-> MhyReadExtra(m, MhyBlockAt(n, b))]],
       data_off |-> 8 + hdr_sz,
       next |-> 8 + hdr_sz + Sum(Cmps(blks))]

-----------------------------------------------------------------------------
(* mhy0.                                                                   *)

\* extra: 3 bytes of the outer header, then the four beside the counts.
Mhy0Outer(hdr, inner_len) ==
  Laid(<< BeAt(0, 4, Mhy0Magic), LeAt(4, 4, HeaderSize + 39), BytesAt(8, hdr.key),
          BytesAt(40, <<hdr.extra[1]>>), BytesAt(44, SubSeq(hdr.extra, 2, 3)),
          shuffleUint(40, inner_len) >>)

Mhy0Read(a) ==
  LET hdr_sz == Le(a.outer, 4)
      cab_cnt == unshuffleInt(a.inner, 0)
      hdr == [cab_cnt |-> cab_cnt, key |-> Read(a.outer, 8, 32),
              extra |-> << Get(a.outer, 40), Get(a.outer, 44), Get(a.outer, 45) >>
                        \o MhyBeside(a.inner, cab_cnt)]
      heads == [b \in DOMAIN a.blocks |-> Read(a.blocks[b], 0, 12)]
      opens == /\ Be(a.outer, 0) = Mhy0Magic
               /\ hdr_sz - 39 = HeaderSize /\ unshuffleUint(a.outer, 40) = a.inner_len
  IN  MhyRead(a.inner, hdr, heads, opens, hdr_sz)

\* Without a .hdr file: 0xdadadad9 and random bytes.
Mhy0DefaultHdr ==
  [cab_cnt |-> 1, key |-> <<217, 218, 218, 218>> \o SubSeq(RandomBytes, 1, 28),
   extra |-> [x \in 1 .. 7 |-> 0]]

\* Mutant of MhyDefaultKey: the number is not cut to bytes.
MhyDefaultKeyUncut(b) ==
  [head |-> <<b - 1 - 623191334, 0, 0, 0>> \o SubSeq(RandomBytes, 1, 8),
   extra |-> [x \in 1 .. 5 |-> 0]]

\* Without a .blkN.key file: 0xdadadada + i, which has the sign bit.
MhyDefaultKey(b) ==
  [head |-> [x \in 1 .. 4 |-> Digit(b - 1 - 623191334, x - 1)] \o SubSeq(RandomBytes, 1, 8),
   extra |-> [x \in 1 .. 5 |-> 0]]

Mhy0Pack(hdr, cabs, keys, blks) ==
  [outer |-> Mhy0Outer(hdr, MhyInnerLen(cabs, blks)),
   inner |-> MhyInner(cabs, blks, SubSeq(hdr.extra, 4, 7), keys),
   inner_len |-> MhyInnerLen(cabs, blks), len |-> HeaderSize + 47,
   blocks |-> [b \in DOMAIN blks |-> BytesAt(0, keys[b].head)]]

-----------------------------------------------------------------------------
(* mhy1.                                                                   *)

\* "mhynewec", 1 and ~0.
NewEc == <<109, 104, 121, 110, 101, 119, 101, 99, 1, 0, 0, 0, 255, 255, 255, 255>>

Mhy1Outer(hdr, inner_len) ==
  Laid(<< BeAt(0, 4, Mhy1Magic), LeAt(4, 4, HeaderSize + 55), BytesAt(8, hdr.key),
          BytesAt(12, NewEc), BytesAt(28, hdr.rc4_key),
          BytesAt(44, SubSeq(hdr.extra, 1, 12)), BytesAt(56, <<hdr.extra[13]>>),
          BytesAt(60, SubSeq(hdr.extra, 14, 15)), shuffleUint(56, inner_len) >>)

Mhy1Head(head) ==
  Laid(<< BytesAt(0, SubSeq(head, 1, 4)), BytesAt(4, NewEc), BytesAt(20, SubSeq(head, 5, 12)) >>)

Mhy1Read(a) ==
  LET hdr_sz == Le(a.outer, 4)
      cab_cnt == unshuffleInt(a.inner, 0)
      hdr == [cab_cnt |-> cab_cnt, key |-> Read(a.outer, 8, 4), rc4_key |-> Read(a.outer, 28, 16),
              extra |-> Read(a.outer, 44, 12)
                        \o << Get(a.outer, 56), Get(a.outer, 60), Get(a.outer, 61) >>
                        \o MhyBeside(a.inner, cab_cnt)]
      heads == [b \in DOMAIN a.blocks |-> Read(a.blocks[b], 0, 4) \o Read(a.blocks[b], 20, 8)]
      opens == /\ Be(a.outer, 0) = Mhy1Magic
               /\ hdr_sz - 55 = HeaderSize /\ unshuffleUint(a.outer, 56) = a.inner_len
  IN  MhyRead(a.inner, hdr, heads, opens, hdr_sz)

Mhy1DefaultHdr ==
  [cab_cnt |-> 1, key |-> <<217, 218, 218, 218>>,
   rc4_key |-> SubSeq(RandomBytes, 1, 8) \o [x \in 1 .. 8 |-> 0],
   extra |-> [x \in 1 .. 19 |-> 0]]

Mhy1Pack(hdr, cabs, keys, blks) ==
  [outer |-> Mhy1Outer(hdr, MhyInnerLen(cabs, blks)),
   inner |-> MhyInner(cabs, blks, SubSeq(hdr.extra, 16, 19), keys),
   inner_len |-> MhyInnerLen(cabs, blks), len |-> HeaderSize + 63,
   blocks |-> [b \in DOMAIN blks |-> Mhy1Head(keys[b].head)]]

-----------------------------------------------------------------------------
(* encr: a big endian header, block table first, names of any length.      *)

\* strncpy of strnlen(name, 256) + 1 bytes: a name that fills its field takes
\* along the first byte of blk_off, which follows it.
NameOut(cab) ==
  cab.meta.name \o <<IF Len(cab.meta.name) < 256 THEN 0 ELSE Digit(cab.blk_off, 0)>>

NameLens(cabs) == [c \in DOMAIN cabs |-> Len(NameOut(cabs[c]))]

\* Mutant of EncrCabAt: counts the end of a name twice.
EncrCabAtTwice(cabs, blks, c) == 8 + 10 * Len(blks) + 21 * (c - 1) + Before(NameLens(cabs), c)

EncrCabAt(cabs, blks, c) == 8 + 10 * Len(blks) + 20 * (c - 1) + Before(NameLens(cabs), c)

EncrInnerLen(cabs, blks) == EncrCabAt(cabs, blks, Len(cabs) + 1)

EncrBlock(at, blk) == Laid(<< BeAt(at, 4, blk.dec), BeAt(at + 4, 4, blk.cmp), BeAt(at + 8, 2, 3) >>)

\* s_cab[i].flags holds the bytes as extract_encr found them, and htobe32 turns
\* them around.
Turned(flag)        == <<flag[4], flag[3], flag[2], flag[1]>>
EncrFlags(at, flag) == BytesAt(at, Turned(flag))

EncrCab(at, cab) ==
  Laid(<< BeAt(at, 8, cab.blk_off), BeAt(at + 8, 8, cab.blk_sz),
          EncrFlags(at + 16, cab.meta.flag), BytesAt(at + 20, NameOut(cab)) >>)

EncrInner(cabs, blks) ==
  Laid(<< BeAt(0, 4, Len(blks)),
          Laid([b \in DOMAIN blks |-> EncrBlock(4 + 10 * (b - 1), blks[b])]),
          BeAt(4 + 10 * Len(blks), 4, Len(cabs)),
          Laid([c \in DOMAIN cabs |-> EncrCab(EncrCabAt(cabs, blks, c), cabs[c])]) >>)

EncrOuter(hdr, cabs, blks) ==
  Laid(<< BytesAt(0, EncrMagic), BeAt(5, 8, HeaderSize + Sum(Cmps(blks)) + 25),
          BeAt(13, 4, HeaderSize), BeAt(17, 4, EncrInnerLen(cabs, blks)),
          BeAt(21, 4, hdr.flags) >>)

EncrPack(hdr, cabs, keys, blks) ==
  [outer |-> EncrOuter(hdr, cabs, blks),
   inner |-> EncrInner(cabs, blks), inner_len |-> EncrInnerLen(cabs, blks),
   len |-> HeaderSize + 25, blocks |-> [b \in DOMAIN blks |-> <<>>]]

\* The types that are read as lz4; type 0 is not compressed.
Lz4Type(flags) == flags % 64 \in {2, 3, 5}

\* Where extract_encr finds the cabs, one after the other.
EncrWalk(m, blk_cnt, cab_cnt) ==
  LET at[c \in 0 .. cab_cnt] == IF c = 0 THEN 8 + 10 * blk_cnt
                                ELSE at[c - 1] + Strlen(m, at[c - 1] + 20) + 21
  IN  at

EncrReadCab(m, at) ==
  [meta |-> [name |-> Name(m, at + 20), flag |-> Read(m, at + 16, 4)],
   blk_off |-> Be64(m, at), blk_sz |-> Be64(m, at + 8)]

EncrReadBlock(m, at) == [cmp |-> Be(m, at + 4), dec |-> Be(m, at)]

EncrRead(a) ==
  LET m == a.inner
      hdr_size_cmp == Be(a.outer, 13)
      flags == Be(a.outer, 21)
      blk_cnt == Be(m, 0)
      cab_cnt == Be(m, 4 + 10 * blk_cnt)
      walk == EncrWalk(m, blk_cnt, cab_cnt)
  IN  [opens |-> /\ Read(a.outer, 0, 5) = EncrMagic
                 /\ hdr_size_cmp = HeaderSize /\ Be(a.outer, 17) = a.inner_len /\ Lz4Type(flags),
       hdr |-> [cab_cnt |-> cab_cnt, flags |-> flags],
       cabs |-> [c \in 1 .. cab_cnt |-> EncrReadCab(m, walk[c - 1])],
       blks |-> [b \in 1 .. blk_cnt |-> EncrReadBlock(m, 4 + 10 * (b - 1))],
       keys |-> [b \in 1 .. blk_cnt |-> Read(m, 12 + 10 * (b - 1), 2)],
       data_off |-> hdr_size_cmp + 25,
       next |-> Be64(a.outer, 5)]

EncrDefaultHdr == [cab_cnt |-> 1, flags |-> 67] \* 0x43

-----------------------------------------------------------------------------
(* blb3: a little endian header that is not compressed; offsets are         *)
(* relative to where they are stored.                                       *)

\* Bit c of the flag words, shifted by c as x86 does: modulo 32.
FlagBit(cabs, c) == IF c <= Len(cabs) /\ cabs[c].meta.flag # 0 THEN Bit[(c - 1) % 8] ELSE 0

FlagBytes(cabs) ==
  [k \in 1 .. 4 * ((Len(cabs) + 31) \div 32) |->
     Sum([c \in 1 .. 8 |-> FlagBit(cabs, 8 * (k - 1) + c)])]

\* A header field that happens to equal the first flag word stands in for it.
FlagsAreCount(cabs, n) == \A k \in 1 .. 4 : FlagBytes(cabs)[k] = Digit(n, k - 1)

FlagWords(cabs, blks) ==
  IF FlagsAreCount(cabs, Len(blks)) \/ FlagsAreCount(cabs, Len(cabs)) THEN <<>>
  ELSE FlagBytes(cabs)

\* Mutant of FlagOff: the two distances exchanged.
FlagOffSwapped(cabs, blks) ==
  CASE FlagsAreCount(cabs, Len(blks)) -> -20
    [] ~FlagsAreCount(cabs, Len(blks)) /\ FlagsAreCount(cabs, Len(cabs)) -> -24
    [] OTHER -> 4 * Len(blks) + 16 * Len(cabs) + 12

FlagOff(cabs, blks) ==
  CASE FlagsAreCount(cabs, Len(blks)) -> -24
    [] ~FlagsAreCount(cabs, Len(blks)) /\ FlagsAreCount(cabs, Len(cabs)) -> -20
    [] OTHER -> 4 * Len(blks) + 16 * Len(cabs) + 12

Blb3NameAt(cabs, blks, c) ==
  88 + 4 * Len(blks) + 16 * Len(cabs) + Len(FlagWords(cabs, blks)) + Before(NameLens(cabs), c)

Blb3Len(cabs, blks) == Blb3NameAt(cabs, blks, Len(cabs) + 1)

Blb3Cab(at, cab, name_at) ==
  Laid(<< LeAt(at, 4, cab.blk_off), LeAt(at + 4, 4, cab.blk_sz),
          LeAt(at + 8, 8, name_at - (at + 8)), BytesAt(name_at, NameOut(cab)) >>)

\* The block table holds where each block ends.
BlockEnd(blks, b) == Before(Cmps(blks), b + 1)

\* The fields of fixed place.
Blb3Fixed(hdr, cabs, blks) ==
  LET B == Len(blks)
      len == Blb3Len(cabs, blks)
  IN  Laid(<< BeAt(0, 4, Blb3Magic), LeAt(4, 4, len - 28), LeAt(8, 4, hdr.unk0x8),
              BytesAt(12, hdr.key), LeAt(28, 4, len + BlockEnd(blks, B)), LeAt(32, 4, blks[B].dec),
              LeAt(36, 12, 0), LeAt(48, 4, Blb3Type), LeAt(52, 4, B), LeAt(56, 4, Len(cabs)),
              LeAt(60, 8, 24), LeAt(68, 8, 4 * B + 20), LeAt(76, 8, FlagOff(cabs, blks)) >>)

Blb3Outer(hdr, cabs, blks) ==
  LET B == Len(blks)
      n == Len(cabs)
  IN  Laid(<< Blb3Fixed(hdr, cabs, blks),
              Laid([b \in DOMAIN blks |-> LeAt(84 + 4 * (b - 1), 4, BlockEnd(blks, b))]),
              LeAt(84 + 4 * B, 4, 0),
              BytesAt(88 + 4 * B + 16 * n, FlagWords(cabs, blks)),
              Laid([c \in DOMAIN cabs |-> Blb3Cab(88 + 4 * B + 16 * (c - 1), cabs[c],
                                                  Blb3NameAt(cabs, blks, c))]) >>)

Blb3Pack(hdr, cabs, keys, blks) ==
  [outer |-> Blb3Outer(hdr, cabs, blks), inner |-> <<>>, inner_len |-> 0,
   len |-> Blb3Len(cabs, blks), blocks |-> [b \in DOMAIN blks |-> <<>>]]

\* (word at flagOff + (i >> 5)) >> i, i = c - 1
Blb3ReadFlag(m, flagOff, c) ==
  (Get(m, flagOff + ((c - 1) \div 32) + (((c - 1) % 32) \div 8)) \div Bit[(c - 1) % 8]) % 2

Blb3ReadCab(m, at, flagOff, c) ==
  [meta |-> [name |-> Name(m, at + 8 + Le(m, at + 8)), flag |-> Blb3ReadFlag(m, flagOff, c)],
   blk_off |-> Le(m, at), blk_sz |-> Le(m, at + 4)]

\* at: where the block table holds the end of the block.
Blb3ReadBlock(m, at, b, blk_cnt) ==
  [cmp |-> Le(m, at) - (IF b = 1 THEN 0 ELSE Le(m, at - 4)),
   dec |-> IF b = blk_cnt THEN Le(m, 32) ELSE Bit[Get(m, 49)]]

Blb3Read(a) ==
  LET m == a.outer
      blk_cnt == Le(m, 52)
      cab_cnt == Le(m, 56)
      blockTableOff == Le(m, 60) + 60
      nodeTableOff == Le(m, 68) + 68
      flagOff == Le(m, 76) + 76
  IN  [opens |-> Be(m, 0) = Blb3Magic /\ Lz4Type(Get(m, 48)),
       hdr |-> [cab_cnt |-> cab_cnt, unk0x8 |-> Le(m, 8), key |-> Read(m, 12, 16),
                cmpr_type |-> Get(m, 48), block_sz_shift |-> Get(m, 49)],
       cabs |-> [c \in 1 .. cab_cnt |-> Blb3ReadCab(m, nodeTableOff + 16 * (c - 1), flagOff, c)],
       blks |-> [b \in 1 .. blk_cnt |->
                   Blb3ReadBlock(m, blockTableOff + 4 * (b - 1), b, blk_cnt)],
       keys |-> <<>>,
       data_off |-> Le(m, 4) + 28,
       next |-> Le(m, 28)]

Blb3DefaultHdr ==
  [cab_cnt |-> 1, unk0x8 |-> 5, key |-> SubSeq(RandomBytes, 1, 16),
   cmpr_type |-> 0, block_sz_shift |-> 0] \* htobe32 of 3 and 17, cut to a byte

-----------------------------------------------------------------------------
(* Any of the four.                                                        *)

MhyFormats == {"mhy0", "mhy1"}
Formats    == MhyFormats \cup {"encr", "blb3"}

ReadOf(f, a) ==
  CASE f = "mhy0" -> Mhy0Read(a) [] f = "mhy1" -> Mhy1Read(a)
    [] f = "encr" -> EncrRead(a) [] f = "blb3" -> Blb3Read(a)

Reading(a) == ReadOf(format, a)

DefaultHdr ==
  CASE format = "mhy0" -> Mhy0DefaultHdr [] format = "mhy1" -> Mhy1DefaultHdr
    [] format = "encr" -> EncrDefaultHdr [] format = "blb3" -> Blb3DefaultHdr

\* A field of fixed length is not cleared after the name.
DefaultMeta ==
  CASE format \in MhyFormats ->
         [name |-> [x \in 1 .. 260 |-> IF x <= 36 THEN RandomName[x] ELSE IF x = 37 THEN 0 ELSE Junk],
          flag |-> 0, extra |-> [x \in 1 .. 5 |-> 0]]
    [] format = "encr" -> [name |-> RandomName, flag |-> <<0, 0, 0, 0>>]
    [] format = "blb3" -> [name |-> RandomName, flag |-> 0]

Hdr     == IF files.hdr = <<>> THEN DefaultHdr ELSE files.hdr[1]
Meta(c) == IF c \in DOMAIN files.cab THEN files.cab[c] ELSE DefaultMeta
Key(b)  == IF b \in DOMAIN files.key THEN files.key[b] ELSE MhyDefaultKey(b)

\* No more than 256 cabs are packed; offset and size come from their files.
Cabs ==
  LET cnt == Min({Hdr.cab_cnt, 256})
      sizes == [c \in 1 .. cnt |-> size[c]]
  IN  [c \in 1 .. cnt |->
         [meta |-> Meta(c), blk_off |-> Before(sizes, c), blk_sz |-> size[c]]]

\* Full blocks, and what is left in the last one.
PlainSizes(total) ==
  [b \in 1 .. (total + BlockSize - 1) \div BlockSize |->
     IF b * BlockSize <= total THEN BlockSize ELSE total % BlockSize]

Blocks(cmp, total) ==
  [b \in DOMAIN PlainSizes(total) |-> [cmp |-> cmp[b], dec |-> PlainSizes(total)[b]]]

Packed(cabs, blks) ==
  LET keys == [b \in DOMAIN blks |-> Key(b)]
  IN  CASE format = "mhy0" -> Mhy0Pack(Hdr, cabs, keys, blks)
        [] format = "mhy1" -> Mhy1Pack(Hdr, cabs, keys, blks)
        [] format = "encr" -> EncrPack(Hdr, cabs, keys, blks)
        [] format = "blb3" -> Blb3Pack(Hdr, cabs, keys, blks)

-----------------------------------------------------------------------------
(* The archives of other packers.                                          *)

\* A name up to its end.
EndOf(name) ==
  LET end == CHOOSE k \in 0 .. Len(name) :
               (k = Len(name) \/ name[k + 1] = 0) /\ \A j \in 1 .. k : name[j] # 0
  IN  SubSeq(name, 1, end)

\* What extract_* reads of an archive is what its packer meant: each cab by its
\* name, place and flag, each block by its two sizes, where the data begins and
\* where the next archive does. encr has no end for a name of 256 characters,
\* and the flags of its cabs are read without be32toh: what extract_encr has are
\* the bytes of the word meant, turned around. pack_blb3 has a word of flags for
\* each 32 cabs, and extract_blb3 takes the next word from one byte, not one word,
\* further on (blb3.c:273): the flags from cab 33 on are left out.
ReadsAs(f, a, m) ==
  LET r == ReadOf(f, a)
  IN  /\ r.opens
      /\ DOMAIN r.cabs = DOMAIN m.cabs
      /\ \A c \in DOMAIN r.cabs :
           /\ EndOf(r.cabs[c].meta.name) = EndOf(m.cabs[c].meta.name)
           /\ r.cabs[c].blk_off = m.cabs[c].blk_off
           /\ r.cabs[c].blk_sz = m.cabs[c].blk_sz
           /\ f \in MhyFormats \/ (f = "blb3" /\ c <= 32) =>
                (r.cabs[c].meta.flag # 0) = (m.cabs[c].meta.flag # 0)
           /\ f = "encr" => r.cabs[c].meta.flag = Turned(m.cabs[c].meta.flag)
      /\ r.blks = m.blks
      /\ r.data_off = a.len
      /\ r.next = a.len + Sum(Cmps(m.blks))

\* Bytes at offsets.
Memory(m) == DOMAIN m \subseteq Nat /\ m \in [DOMAIN m -> Byte]

\* Cabs follow each other and are cut into full blocks, names have an end, and
\* the parts of mhy0 and mhy1 have the lengths and the fixed words that the
\* packers here give them.
WellFormed(f, a) ==
  LET r == ReadOf(f, a)
      total == Sum(Sizes(r.cabs))
  IN  /\ Memory(a.outer) /\ Memory(a.inner) /\ \A b \in DOMAIN a.blocks : Memory(a.blocks[b])
      /\ r.opens /\ 1 \in DOMAIN r.cabs
      /\ \A c \in DOMAIN r.cabs :
           /\ r.cabs[c].blk_sz \in Nat /\ r.cabs[c].blk_off = Before(Sizes(r.cabs), c)
           /\ f \notin MhyFormats => Len(r.cabs[c].meta.name) <= 255
      /\ total \in 1 .. SizeLimit
      /\ r.blks = Blocks([b \in DOMAIN r.blks |-> r.blks[b].cmp], total)
      /\ \A b \in DOMAIN r.blks : r.blks[b].cmp \in Nat
      /\ f \in MhyFormats =>
           /\ a.inner_len = MhyInnerLen(r.cabs, r.blks)
           /\ DOMAIN a.inner \subseteq 0 .. a.inner_len - 1
           /\ DOMAIN a.outer = IF f = "mhy0" THEN 0 .. 46 ELSE 0 .. 62
           /\ f = "mhy1" => Read(a.outer, 12, 16) = NewEc
           /\ a.blocks = [b \in DOMAIN r.blks |-> a.blocks[b]]
           /\ \A b \in DOMAIN a.blocks :
                /\ DOMAIN a.blocks[b] = IF f = "mhy0" THEN 0 .. 11 ELSE 0 .. 27
                /\ f = "mhy1" => Read(a.blocks[b], 4, 16) = NewEc

ASSUME OriginalsAssumption ==
  /\ DOMAIN Originals = Formats
  /\ \A f \in Formats : \A o \in Originals[f] :
       WellFormed(f, o.archive) /\ ReadsAs(f, o.archive, o.meant)

-----------------------------------------------------------------------------
(* A directory in which archives are unpacked, edited and packed.          *)

Init ==
  /\ format \in DOMAIN Originals
  /\ \E o \in Originals[format] : archive = o.archive /\ meant = o.meant
  /\ files = [hdr |-> <<>>, cab |-> <<>>, key |-> <<>>] /\ size = <<>>
  /\ before = archive /\ edited = FALSE /\ packs = 0 /\ pc = "archive"

\* The files that are written take the place of those of their names.
Overwritten(written, old) ==
  [x \in DOMAIN written \cup DOMAIN old |->
     IF x \in DOMAIN written THEN written[x] ELSE old[x]]

\* Files of cabs and blocks that this archive does not have stay as they were.
Extract ==
  /\ pc = "archive" /\ Reading(archive).opens
  /\ LET r == Reading(archive)
     IN  /\ files' = [hdr |-> <<r.hdr>>,
                      cab |-> Overwritten([c \in DOMAIN r.cabs |-> r.cabs[c].meta], files.cab),
                      key |-> Overwritten(r.keys, files.key)]
         /\ size' = Overwritten(Sizes(r.cabs), size)
  /\ before' = archive /\ edited' = FALSE /\ pc' = "files"
  /\ UNCHANGED <<format, archive, meant, packs>>

\* The user takes another archive of the same name.
Fetch ==
  /\ pc = "files" /\ packs = 0 /\ ~edited
  /\ \E o \in Originals[format] : archive' = o.archive /\ meant' = o.meant
  /\ archive' # before /\ pc' = "archive"
  /\ UNCHANGED <<format, files, size, before, edited, packs>>

\* A metadata file goes missing, or a cab gets another size.
Edit ==
  /\ pc = "files" /\ ~edited
  /\ \/ files' = [files EXCEPT !.hdr = <<>>] /\ UNCHANGED size
     \/ files' = [files EXCEPT !.cab = <<>>] /\ UNCHANGED size
     \/ files' = [files EXCEPT !.key = <<>>] /\ UNCHANGED size
     \/ /\ \E c \in DOMAIN size, n \in CabSizes : size' = [size EXCEPT ![c] = n]
        /\ UNCHANGED files
  /\ edited' = TRUE
  /\ UNCHANGED <<format, archive, meant, before, packs, pc>>

\* Cabs without a byte are left to BlockPacker.
Pack ==
  /\ pc = "files" /\ packs < MaxPacks
  /\ Sum(Sizes(Cabs)) \in 1 .. SizeLimit
  /\ \E cmp \in Compressed :
       LET blks == Blocks(cmp, Sum(Sizes(Cabs)))
       IN  /\ DOMAIN blks \subseteq DOMAIN cmp
           /\ archive' = Packed(Cabs, blks) /\ meant' = [cabs |-> Cabs, blks |-> blks]
           /\ archive'.len + Sum(Cmps(blks)) <= SizeLimit
  /\ packs' = packs + 1 /\ pc' = "archive"
  /\ UNCHANGED <<format, files, size, before, edited>>

Next == Extract \/ Fetch \/ Edit \/ Pack

Spec == Init /\ [][Next]_vars

-----------------------------------------------------------------------------
(* Properties.                                                             *)

Mhy == format \in MhyFormats

TypeOK ==
  /\ pc \in {"archive", "files"} /\ packs \in 0 .. MaxPacks
  /\ \A c \in DOMAIN size : size[c] \in Nat
  /\ Memory(archive.outer) /\ Memory(archive.inner)
  /\ \A b \in DOMAIN archive.blocks : Memory(archive.blocks[b])

\* An archive that was just packed, or fetched, is read as its packer meant it
\* (ReadsAs says in what): extract_* looks where pack_* wrote.
ReadsBack == pc = "archive" => ReadsAs(format, archive, meant)

\* An archive that is unpacked and packed again with nothing changed keeps what
\* the game may look at: keys, names, the bytes of unknown meaning, the flags of
\* the cabs of mhy0 and mhy1 and those of the first 32 cabs of a blb3; of the
\* flags of an encr's cabs it keeps the bytes and not their order, which is what
\* CabFlagsKept asks for, and blb3's past the 32nd cab are left out (ReadsAs).
\* blb3 is always packed with its own compression type and block size, and encr
\* with its own block flags; no packer takes more than 256 cabs.
MetadataKept ==
  pc = "archive" /\ packs > 0 /\ ~edited =>
    LET new == Reading(archive)
        old == Reading(before)
        kept == DOMAIN new.hdr \ {"cmpr_type", "block_sz_shift"}
    IN  old.hdr.cab_cnt <= 256 =>
          /\ \A x \in kept : new.hdr[x] = old.hdr[x]
          /\ DOMAIN new.cabs = DOMAIN old.cabs
          /\ \A c \in DOMAIN old.cabs : new.cabs[c].meta.name = old.cabs[c].meta.name
          /\ format = "blb3" =>
               \A c \in DOMAIN old.cabs : c <= 32 => new.cabs[c].meta.flag = old.cabs[c].meta.flag
          /\ format = "encr" =>
               \A c \in DOMAIN old.cabs : new.cabs[c].meta.flag = Turned(old.cabs[c].meta.flag)
          /\ Mhy => /\ \A c \in DOMAIN old.cabs : new.cabs[c].meta = old.cabs[c].meta
                    /\ new.keys = old.keys

\* For mhy0 and mhy1 no byte of the three kinds of header is lost: with the same
\* compressed sizes everything is as it was, but for the byte after each name.
BytesKept ==
  Mhy /\ pc = "archive" /\ packs > 0 /\ ~edited
      /\ Reading(before).hdr.cab_cnt <= 256 /\ Reading(archive).blks = Reading(before).blks =>
    /\ archive.outer = before.outer
    /\ archive.blocks = before.blocks
    /\ \A x \in DOMAIN before.inner :
         (\A c \in DOMAIN meant.cabs : x # 6 + 275 * (c - 1) + 260) =>
           Get(archive.inner, x) = before.inner[x]

\* What pack_* sends to the file is what it set, and it sets it inside of what
\* it allocated: only the byte after a name of mhy0 or mhy1 is whatever malloc
\* returned. The buffers of encr and blb3 are sized by 258 and 256 bytes per
\* name and forget the flag words, which names of usual length make up for.
HeaderExact ==
  pc = "archive" /\ packs > 0 =>
    LET cabs == meant.cabs
        B == Len(meant.blks)
        unset == IF Mhy THEN {6 + 275 * (c - 1) + 260 : c \in DOMAIN cabs} ELSE {}
        usual == \A c \in DOMAIN cabs : Len(cabs[c].meta.name) <= 240
        written == IF format = "blb3" THEN archive.outer ELSE archive.inner
        length == IF format = "blb3" THEN archive.len ELSE archive.inner_len
        room == CASE Mhy -> MhyInnerLen(cabs, meant.blks)
                  [] format = "encr" -> 10 * B + 278 * Len(cabs)
                  [] format = "blb3" -> 60 + 4 * B + 16 * Len(cabs) + 28 + 256 * Len(cabs)
    IN  /\ DOMAIN written \cup unset = 0 .. length - 1
        /\ Mhy \/ usual => length <= room

\* "big endian" (encr.c:51, of the entries it then declares): a cab keeps its
\* flags when an encr is unpacked and packed.
CabFlagsKept ==
  format = "encr" /\ pc = "archive" /\ packs > 0 /\ ~edited =>
    \A c \in DOMAIN Reading(archive).cabs :
      Reading(archive).cabs[c].meta.flag = Reading(before).cabs[c].meta.flag
=============================================================================
